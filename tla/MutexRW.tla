------------------------------ MODULE MutexRW -------------------------------
(***************************************************************************)
(* The readers-writer lock of dthread/mutex_rw.cc: two counters guarded by *)
(* a mutex m, and one condition c on which both readers and writers wait.  *)
(*                                                                         *)
(* All of a call but the waiting runs with m held, so an action is a call, *)
(* or the part of a call from its return from c.wait to its next wait or   *)
(* its end.  pthread_cond_wait may return without a signal.  Threads pair  *)
(* their calls: only a holder unlocks, as it locked.                       *)
(***************************************************************************)
EXTENDS Integers, FiniteSets

CONSTANT Thread

ASSUME ThreadAssumption == IsFiniteSet(Thread)

VARIABLES
  readers, writers,   \* the fields of the class
  pc                  \* where each thread is

mvars == <<readers, writers, pc>>

(* "rwait" and "wwait": blocked in c.wait; "rwoken" and "wwoken": woken,   *)
(* waiting to have m again.                                                *)
States == {"idle", "rwait", "rwoken", "reading", "wwait", "wwoken", "writing"}

MutexTypeOK ==
  /\ readers \in Nat
  /\ writers \in {0, 1}
  /\ pc \in [Thread -> States]

At(s) == {t \in Thread : pc[t] = s}

Waiting == At("rwait") \cup At("wwait")
Woken   == At("rwoken") \cup At("wwoken")

Wake(s) == IF s = "rwait" THEN "rwoken" ELSE "wwoken"

(* The loop of rlock: wait while there is a writer, else take the lock.    *)
EnterRead(t) ==
  \/ /\ writers # 0
     /\ pc' = [pc EXCEPT ![t] = "rwait"]
     /\ UNCHANGED <<readers, writers>>
  \/ /\ writers = 0
     /\ readers' = readers + 1
     /\ pc' = [pc EXCEPT ![t] = "reading"]
     /\ UNCHANGED writers

(* Mutant: a writer does not wait for readers.                             *)
EnterWriteAmongReaders(t) ==
  \/ /\ writers # 0
     /\ pc' = [pc EXCEPT ![t] = "wwait"]
     /\ UNCHANGED <<readers, writers>>
  \/ /\ writers = 0
     /\ writers' = writers + 1
     /\ pc' = [pc EXCEPT ![t] = "writing"]
     /\ UNCHANGED readers

EnterWrite(t) ==
  \/ /\ readers # 0 \/ writers # 0
     /\ pc' = [pc EXCEPT ![t] = "wwait"]
     /\ UNCHANGED <<readers, writers>>
  \/ /\ readers = 0 /\ writers = 0
     /\ writers' = writers + 1
     /\ pc' = [pc EXCEPT ![t] = "writing"]
     /\ UNCHANGED readers

rlock(t) == pc[t] = "idle" /\ EnterRead(t)

wlock(t) == pc[t] = "idle" /\ EnterWrite(t)

(* The calls that do not wait change something only when they succeed.     *)
rlock_nb(t) == pc[t] = "idle" /\ writers = 0 /\ EnterRead(t)

wlock_nb(t) == pc[t] = "idle" /\ readers = 0 /\ writers = 0 /\ EnterWrite(t)

(* c.wait returns, with m held.                                            *)
Return(t) ==
  \/ pc[t] = "rwoken" /\ EnterRead(t)
  \/ pc[t] = "wwoken" /\ EnterWrite(t)

(* Mutant: the last reader does not signal.                                *)
runlockSilent(t) ==
  /\ pc[t] = "reading"
  /\ readers # 0
  /\ readers' = readers - 1
  /\ pc' = [pc EXCEPT ![t] = "idle"]
  /\ UNCHANGED writers

(* The last reader out signals c, which wakes one waiting thread.          *)
runlock(t) ==
  /\ pc[t] = "reading"
  /\ readers # 0
  /\ readers' = readers - 1
  /\ \/ /\ readers' # 0 \/ Waiting = {}
        /\ pc' = [pc EXCEPT ![t] = "idle"]
     \/ /\ readers' = 0
        /\ \E w \in Waiting : pc' = [pc EXCEPT ![t] = "idle", ![w] = Wake(@)]
  /\ UNCHANGED writers

(* Mutant: the writer signals one thread instead of all.                   *)
wunlockSignal(t) ==
  /\ pc[t] = "writing"
  /\ writers # 0
  /\ writers' = 0
  /\ \/ Waiting = {} /\ pc' = [pc EXCEPT ![t] = "idle"]
     \/ \E w \in Waiting : pc' = [pc EXCEPT ![t] = "idle", ![w] = Wake(@)]
  /\ UNCHANGED readers

(* The writer broadcasts c, which wakes every waiting thread.              *)
wunlock(t) ==
  /\ pc[t] = "writing"
  /\ writers # 0
  /\ writers' = 0
  /\ pc' = [s \in Thread |-> IF s = t THEN "idle"
                             ELSE IF s \in Waiting THEN Wake(pc[s]) ELSE pc[s]]
  /\ UNCHANGED readers

SpuriousWakeup(t) ==
  /\ t \in Waiting
  /\ pc' = [pc EXCEPT ![t] = Wake(@)]
  /\ UNCHANGED <<readers, writers>>

MutexInit ==
  /\ readers = 0
  /\ writers = 0
  /\ pc = [t \in Thread |-> "idle"]

Step(t) ==
  \/ rlock(t) \/ rlock_nb(t) \/ wlock(t) \/ wlock_nb(t)
  \/ Return(t)
  \/ runlock(t) \/ wunlock(t)
  \/ SpuriousWakeup(t)

MutexNext == \E t \in Thread : Step(t)

MutexSpec == MutexInit /\ [][MutexNext]_mvars

(* A woken thread is scheduled, and obtains m.                             *)
MutexFairSpec == MutexSpec /\ \A t \in Thread : WF_mvars(Return(t))

-----------------------------------------------------------------------------
(* The counters count the holders, and a writer holds the lock alone: the  *)
(* threads that passed the tests of rlock and wlock, in whatever order     *)
(* they were woken, are never more than the lock allows.                   *)
Exclusion ==
  /\ readers = Cardinality(At("reading"))
  /\ writers = Cardinality(At("writing"))
  /\ At("writing") # {} => At("reading") = {} /\ Cardinality(At("writing")) = 1

(* No wake-up is lost: a reader blocked in c.wait has a writer to wait     *)
(* for, and when nobody holds the lock but a thread is blocked, another    *)
(* has been woken and is on its way to take the lock.  One signal by the   *)
(* last reader is enough though many may wait.                             *)
NoLostWakeup ==
  /\ At("rwait") # {} => writers = 1
  /\ Waiting # {} /\ readers = 0 /\ writers = 0 => Woken # {}

(* The lock implements its specification.                                  *)
RW == INSTANCE ReadersWriters WITH reading <- At("reading"), writing <- At("writing")

ImplementsReadersWriters == RW!RWSpec

(* A lock that is free while threads wait for it is taken.                 *)
FreeLockTaken ==
  (Waiting # {} /\ readers = 0 /\ writers = 0)
    ~> (At("reading") \cup At("writing") # {})
=============================================================================
