---------------------------- MODULE ThreadsProofs ---------------------------
(***************************************************************************)
(* Theorems about two parts of the server whose threads wait for one       *)
(* another: the readers-writer lock, for any finite set of threads, and    *)
(* the command shutdown, for any set of connections.                       *)
(***************************************************************************)
EXTENDS MutexRW, Shutdown, FiniteSetTheorems, WellFoundedInduction, TLAPS

-----------------------------------------------------------------------------
(* The readers-writer lock                                                 *)
(*                                                                         *)
(* A step either leaves the holders alone or adds or removes one of them   *)
(* (lemma StepEffect).  The invariant that the counters are right, and the *)
(* refinement of ReadersWriters, both follow from that.                    *)

R == At("reading")
W == At("writing")

(* The types of the counters and of the threads' places.                   *)
THEOREM MutexTypeInvariant == MutexSpec => []MutexTypeOK
<1>1. MutexInit => MutexTypeOK
  BY DEF MutexInit, MutexTypeOK, States
<1>2. MutexTypeOK /\ [MutexNext]_mvars => MutexTypeOK'
  <2> SUFFICES ASSUME MutexTypeOK, [MutexNext]_mvars PROVE MutexTypeOK'
    OBVIOUS
  <2> USE DEF MutexTypeOK, States
  <2>1. CASE UNCHANGED mvars
    BY <2>1 DEF mvars
  <2>2. ASSUME NEW t \in Thread, EnterRead(t) PROVE MutexTypeOK'
    BY <2>2 DEF EnterRead
  <2>3. ASSUME NEW t \in Thread, EnterWrite(t) PROVE MutexTypeOK'
    BY <2>3 DEF EnterWrite
  <2>4. ASSUME NEW t \in Thread, runlock(t) PROVE MutexTypeOK'
    <3>1. readers' \in Nat /\ writers' \in {0, 1}
      BY <2>4 DEF runlock
    <3>2. pc' \in [Thread -> States]
      BY <2>4 DEF runlock, Wake, Waiting, At
    <3> QED BY <3>1, <3>2
  <2>5. ASSUME NEW t \in Thread, wunlock(t) PROVE MutexTypeOK'
    BY <2>5 DEF wunlock, Wake, Waiting, At
  <2>6. ASSUME NEW t \in Thread, SpuriousWakeup(t) PROVE MutexTypeOK'
    BY <2>6 DEF SpuriousWakeup, Wake, Waiting, At
  <2> QED
    BY <2>1, <2>2, <2>3, <2>4, <2>5, <2>6
       DEF MutexNext, Step, rlock, rlock_nb, wlock, wlock_nb, Return
<1> QED
  BY <1>1, <1>2, PTL DEF MutexSpec

-----------------------------------------------------------------------------
(* The five things a step can do to the holders and to the counters.       *)
Unmoved == R' = R /\ W' = W /\ readers' = readers /\ writers' = writers

ReaderIn(t) ==
  /\ writers = 0 /\ writers' = writers
  /\ readers' = readers + 1
  /\ t \notin R /\ R' = R \cup {t} /\ W' = W

WriterIn(t) ==
  /\ readers = 0 /\ readers' = readers
  /\ writers = 0 /\ writers' = 1
  /\ t \notin W /\ W' = W \cup {t} /\ R' = R

ReaderOut(t) ==
  /\ readers # 0 /\ readers' = readers - 1
  /\ writers' = writers
  /\ t \in R /\ R' = R \ {t} /\ W' = W

WriterOut(t) ==
  /\ writers # 0 /\ writers' = 0
  /\ readers' = readers
  /\ t \in W /\ W' = W \ {t} /\ R' = R

(* Taking the lock, or waiting for it.                                     *)
LEMMA EnterEffect ==
  ASSUME MutexTypeOK, NEW t \in Thread, t \notin R, t \notin W
  PROVE  /\ EnterRead(t) => Unmoved \/ ReaderIn(t)
         /\ EnterWrite(t) => Unmoved \/ WriterIn(t)
BY DEF MutexTypeOK, R, W, At, EnterRead, EnterWrite, Unmoved, ReaderIn, WriterIn

(* Every step does one of the five.                                        *)
LEMMA StepEffect ==
  ASSUME MutexTypeOK, NEW t \in Thread, Step(t)
  PROVE  Unmoved \/ ReaderIn(t) \/ WriterIn(t) \/ ReaderOut(t) \/ WriterOut(t)
<1>1. CASE rlock(t) \/ rlock_nb(t)
  BY <1>1, EnterEffect DEF rlock, rlock_nb, R, W, At
<1>2. CASE wlock(t) \/ wlock_nb(t)
  BY <1>2, EnterEffect DEF wlock, wlock_nb, R, W, At
<1>3. CASE Return(t)
  BY <1>3, EnterEffect DEF Return, R, W, At
<1>4. CASE runlock(t)
  <2>1. \A s \in Thread \ {t} : (pc'[s] = "reading" <=> pc[s] = "reading")
                                /\ (pc'[s] = "writing" <=> pc[s] = "writing")
    BY <1>4 DEF runlock, MutexTypeOK, Waiting, Wake, At
  <2>2. pc[t] = "reading" /\ pc'[t] \notin {"reading", "writing"}
    BY <1>4 DEF runlock, MutexTypeOK, Waiting, Wake, At
  <2>3. R' = R \ {t} /\ W' = W /\ t \in R
    BY <2>1, <2>2 DEF R, W, At
  <2> QED BY <1>4, <2>3 DEF runlock, ReaderOut
<1>5. CASE wunlock(t)
  <2>1. \A s \in Thread \ {t} : (pc'[s] = "reading" <=> pc[s] = "reading")
                                /\ (pc'[s] = "writing" <=> pc[s] = "writing")
    BY <1>5 DEF wunlock, MutexTypeOK, Waiting, Wake, At
  <2>2. pc[t] = "writing" /\ pc'[t] = "idle"
    BY <1>5 DEF wunlock
  <2>3. W' = W \ {t} /\ R' = R /\ t \in W
    BY <2>1, <2>2 DEF R, W, At
  <2> QED BY <1>5, <2>3 DEF wunlock, WriterOut
<1>6. CASE SpuriousWakeup(t)
  BY <1>6 DEF SpuriousWakeup, MutexTypeOK, Waiting, Wake, R, W, At, Unmoved
<1> QED
  BY <1>1, <1>2, <1>3, <1>4, <1>5, <1>6 DEF Step

(* The sets of holders are finite, so that they have a cardinality.        *)
LEMMA HoldersFinite == IsFiniteSet(R) /\ IsFiniteSet(W)
  BY ThreadAssumption, FS_Subset DEF R, W, At

(* Exclusion: readers and writers count the holders, and a writer holds    *)
(* the lock alone.                                                         *)
THEOREM MutualExclusion == MutexSpec => []Exclusion
<1>1. MutexInit => Exclusion
  <2> SUFFICES ASSUME MutexInit PROVE Exclusion
    OBVIOUS
  <2>1. At("reading") = {} /\ At("writing") = {}
    BY DEF MutexInit, At
  <2> QED BY <2>1, FS_EmptySet DEF MutexInit, Exclusion
<1>2. MutexTypeOK /\ Exclusion /\ [MutexNext]_mvars => Exclusion'
  <2> SUFFICES ASSUME MutexTypeOK, Exclusion, [MutexNext]_mvars PROVE Exclusion'
    OBVIOUS
  <2>1. Exclusion <=> /\ readers = Cardinality(R)
                      /\ writers = Cardinality(W)
                      /\ W # {} => R = {} /\ Cardinality(W) = 1
    BY DEF Exclusion, R, W
  <2>2. Exclusion' <=> /\ readers' = Cardinality(R')
                       /\ writers' = Cardinality(W')
                       /\ W' # {} => R' = {} /\ Cardinality(W') = 1
    BY DEF Exclusion, R, W
  <2>3. (Cardinality(R) = 0 <=> R = {}) /\ (Cardinality(W) = 0 <=> W = {})
    BY HoldersFinite, FS_EmptySet
  <2>4. CASE UNCHANGED mvars
    BY <2>4, <2>1, <2>2 DEF mvars, R, W, At
  <2>5. ASSUME NEW t \in Thread, Step(t) PROVE Exclusion'
    <3>1. CASE Unmoved
      BY <3>1, <2>1, <2>2 DEF Unmoved
    <3>2. CASE ReaderIn(t)
      <4>1. Cardinality(R') = Cardinality(R) + 1
        BY <3>2, HoldersFinite, FS_AddElement DEF ReaderIn
      <4> QED BY <4>1, <3>2, <2>1, <2>2, <2>3 DEF ReaderIn
    <3>3. CASE WriterIn(t)
      <4>1. Cardinality(W') = Cardinality(W) + 1
        BY <3>3, HoldersFinite, FS_AddElement DEF WriterIn
      <4> QED BY <4>1, <3>3, <2>1, <2>2, <2>3 DEF WriterIn
    <3>4. CASE ReaderOut(t)
      <4>1. Cardinality(R') = Cardinality(R) - 1
        BY <3>4, HoldersFinite, FS_RemoveElement DEF ReaderOut
      <4> QED BY <4>1, <3>4, <2>1, <2>2, <2>3 DEF ReaderOut
    <3>5. CASE WriterOut(t)
      <4>1. Cardinality(W') = Cardinality(W) - 1
        BY <3>5, HoldersFinite, FS_RemoveElement DEF WriterOut
      <4>2. W' = {}
        <5>1. IsFiniteSet(W')
          BY <3>5, HoldersFinite, FS_RemoveElement DEF WriterOut
        <5> QED BY <5>1, <4>1, <3>5, <2>1, FS_EmptySet DEF WriterOut
      <4> QED BY <4>1, <4>2, <3>5, <2>1, <2>2, <2>3 DEF WriterOut
    <3> QED BY <2>5, <3>1, <3>2, <3>3, <3>4, <3>5, StepEffect
  <2> QED BY <2>4, <2>5 DEF MutexNext
<1> QED
  BY <1>1, <1>2, MutexTypeInvariant, PTL DEF MutexSpec

(* NoLostWakeup: a signal by the last reader, to one thread, is enough.    *)
THEOREM WakeupsKept == MutexSpec => []NoLostWakeup
<1>1. MutexInit => NoLostWakeup
  BY DEF MutexInit, NoLostWakeup, Waiting, At
<1>2. MutexTypeOK /\ NoLostWakeup /\ [MutexNext]_mvars => NoLostWakeup'
  <2> SUFFICES ASSUME MutexTypeOK, NoLostWakeup, [MutexNext]_mvars PROVE NoLostWakeup'
    OBVIOUS
  <2> USE DEF MutexTypeOK, NoLostWakeup, Waiting, Woken, At, States
  <2>1. CASE UNCHANGED mvars
    BY <2>1 DEF mvars
  <2>2. ASSUME NEW t \in Thread, EnterRead(t) PROVE NoLostWakeup'
    BY <2>2 DEF EnterRead
  <2>3. ASSUME NEW t \in Thread, EnterWrite(t) PROVE NoLostWakeup'
    BY <2>3 DEF EnterWrite
  <2>4. ASSUME NEW t \in Thread, runlock(t) PROVE NoLostWakeup'
    BY <2>4 DEF runlock, Wake
  <2>5. ASSUME NEW t \in Thread, wunlock(t) PROVE NoLostWakeup'
    BY <2>5 DEF wunlock, Wake
  <2>6. ASSUME NEW t \in Thread, SpuriousWakeup(t) PROVE NoLostWakeup'
    BY <2>6 DEF SpuriousWakeup, Wake
  <2> QED
    BY <2>1, <2>2, <2>3, <2>4, <2>5, <2>6
       DEF MutexNext, Step, rlock, rlock_nb, wlock, wlock_nb, Return
<1> QED
  BY <1>1, <1>2, MutexTypeInvariant, PTL DEF MutexSpec

-----------------------------------------------------------------------------
(* The lock implements ReadersWriters: each step acquires or releases the  *)
(* lock for one thread as the specification allows, or is a stutter.       *)
THEOREM Refinement == MutexSpec => ImplementsReadersWriters
<1> USE DEF RW!rwVars, R, W
<1>1. MutexInit => RW!RWInit
  BY DEF MutexInit, RW!RWInit, At
<1>2. MutexTypeOK /\ Exclusion /\ [MutexNext]_mvars => [RW!RWNext]_(RW!rwVars)
  <2> SUFFICES ASSUME MutexTypeOK, Exclusion, [MutexNext]_mvars
               PROVE  [RW!RWNext]_(RW!rwVars)
    OBVIOUS
  <2>1. (Cardinality(R) = 0 <=> R = {}) /\ (Cardinality(W) = 0 <=> W = {})
    BY HoldersFinite, FS_EmptySet
  <2>2. CASE UNCHANGED mvars
    BY <2>2 DEF mvars, At
  <2>3. ASSUME NEW t \in Thread, Step(t) PROVE [RW!RWNext]_(RW!rwVars)
    <3>1. CASE Unmoved
      BY <3>1 DEF Unmoved
    <3>2. CASE ReaderIn(t)
      BY <3>2, <2>1 DEF ReaderIn, Exclusion, RW!RWNext, RW!AcquireRead
    <3>3. CASE WriterIn(t)
      BY <3>3, <2>1 DEF WriterIn, Exclusion, RW!RWNext, RW!AcquireWrite
    <3>4. CASE ReaderOut(t)
      BY <3>4, <2>1 DEF ReaderOut, Exclusion, RW!RWNext, RW!Release
    <3>5. CASE WriterOut(t)
      BY <3>5, <2>1 DEF WriterOut, Exclusion, RW!RWNext, RW!Release
    <3> QED BY <2>3, <3>1, <3>2, <3>3, <3>4, <3>5, StepEffect
  <2> QED BY <2>2, <2>3 DEF MutexNext
<1> QED
  BY <1>1, <1>2, MutexTypeInvariant, MutualExclusion, PTL
     DEF MutexSpec, ImplementsReadersWriters, RW!RWSpec

-----------------------------------------------------------------------------
(* The command shutdown                                                    *)

(* The types of the list and of what the threads hold and do.              *)
ShutTypeOK ==
  /\ clients \in Seq(Shell)
  /\ holder \in [Shell -> Shell \cup {Null}]
  /\ phase \in [Shell -> Walk \cup {"idle", "busy", "waiting", "ready"}]
  /\ place \in [Shell -> Shell \cup {Null}]
  /\ cancelled \subseteq Shell /\ late \subseteq Shell /\ gone \subseteq Shell

(* A shell is in the list once; who does something is in it, and a walk is *)
(* where a shell is or was.                                                *)
Linked ==
  /\ \A i, j \in DOMAIN clients : clients[i] = clients[j] => i = j
  /\ \A c \in Shell : phase[c] # "idle" => c \in Connected
  /\ \A c \in Shell : place[c] # Null => place[c] \in Came

(* The shells that have locked all others.                                 *)
Past == {p \in Shell : phase[p] \in {"parting", "unlocking", "unlocked", "ready"}}

(* The walk of p has gone by the i-th shell of the list.                   *)
GoneBy(p, i) == \A j \in DOMAIN clients : clients[j] = place[p] => i < j

(* The i-th shell is one that p meets for sure: it is there, and it came   *)
(* before p and is behind it in the list, or it came before any shutdown.  *)
Met(p, i) ==
  /\ clients[i] # p /\ clients[i] \notin gone
  /\ clients[i] \notin late \/ \E j \in DOMAIN clients : clients[j] = p /\ j < i

(* Until one has locked all others, nobody is cancelled, and who does      *)
(* something holds its own shell.                                          *)
Own == Past = {} =>
  /\ cancelled = {}
  /\ \A c \in Shell : phase[c] # "idle" => holder[c] = c

(* Until then, one that locks has found each shell it met without a        *)
(* command, and holds it.                                                  *)
Locked == Past = {} =>
  \A p \in Shell : phase[p] = "locking" =>
    \A i \in DOMAIN clients : Met(p, i) /\ GoneBy(p, i) =>
      phase[clients[i]] = "idle" /\ holder[clients[i]] = p

(* Only one locks all others, and it keeps its own shell.                  *)
Alone == \A p, q \in Past : p = q /\ holder[p] = p

(* No other gets by it.                                                    *)
Behind ==
  \A q \in Past, p \in Shell : phase[p] = "locking" =>
    \E j \in DOMAIN clients : clients[j] = q /\ ~GoneBy(p, j)

(* Whom it met has no command, and is held until cancelled.                *)
Cut ==
  \A q \in Past : \A i \in DOMAIN clients : Met(q, i) =>
    /\ phase[clients[i]] = "idle"
    /\ \/ clients[i] \in cancelled
       \/ holder[clients[i]] = q /\ phase[q] = "parting" /\ ~GoneBy(q, i)

(* The inductive invariant of the command.                                 *)
ShutInv == ShutTypeOK /\ Linked /\ Own /\ Locked /\ Alone /\ Behind /\ Cut

(* A finite set of numbers that is not empty has a least one.              *)
LEMMA LeastNumber ==
  ASSUME NEW n \in Nat, NEW S, S \subseteq 0..n, S # {}
  PROVE  \E m \in S : \A y \in S : m <= y
<1> DEFINE Upto(x) == 0..x
           T == {Upto(x) : x \in S}
<1>1. IsFiniteSet(0..n)
  BY FS_Interval
<1>2. T # {} /\ T \subseteq FiniteSubsetsOf(0..n)
  <2>1. FiniteSubsetsOf(0..n) = SUBSET (0..n)
    BY <1>1, FS_FiniteSubsetsOfFinite
  <2>2. \A x \in S : Upto(x) \in SUBSET (0..n)
    OBVIOUS
  <2>3. \E x : x \in S
    OBVIOUS
  <2> HIDE DEF Upto
  <2>. QED
    BY <2>1, <2>2, <2>3
<1>3. PICK A \in T : \A B \in T : <<B, A>> \notin StrictSubsetOrdering(0..n)
  <2> HIDE DEF T
  <2>. QED
    BY <1>1, <1>2, FS_StrictSubsetOrderingWellFounded, WFMin
<1>4. PICK m \in S : A = 0..m
  OBVIOUS
<1>5. ASSUME NEW y \in S PROVE m <= y
  <2> SUFFICES ASSUME y < m PROVE FALSE
    OBVIOUS
  <2>1. 0..y \subseteq 0..m /\ m \in 0..m /\ m \notin 0..y
    OBVIOUS
  <2>2. 0..y \in SUBSET (0..n) /\ 0..m \in SUBSET (0..n)
    OBVIOUS
  <2>3. <<0..y, 0..m>> \in StrictSubsetOrdering(0..n)
    BY <2>1, <2>2 DEF StrictSubsetOrdering
  <2>. QED
    BY <1>3, <1>4, <2>3
<1>. QED
  BY <1>5

(* Between a place of the list and the shell that follows it are only      *)
(* shells that have gone.                                                  *)
LEMMA FollowingIs ==
  ASSUME ShutTypeOK, NEW n \in Nat
  PROVE  \/ /\ Following(n) = Null
            /\ \A k \in DOMAIN clients : k > n => clients[k] \in gone
         \/ \E i \in DOMAIN clients :
              /\ i > n /\ clients[i] \notin gone /\ Following(n) = clients[i]
              /\ \A k \in DOMAIN clients : n < k /\ k < i => clients[k] \in gone
<1> DEFINE there == {i \in DOMAIN clients : i > n /\ clients[i] \notin gone}
           least == CHOOSE i \in there : \A j \in there : i <= j
<1>1. DOMAIN clients = 1..Len(clients) /\ Len(clients) \in Nat
  BY DEF ShutTypeOK
<1>2. CASE there = {}
  BY <1>2 DEF Following
<1>3. CASE there # {}
  <2>1. there \subseteq 0..Len(clients)
    BY <1>1
  <2>2. \E m \in there : \A j \in there : m <= j
    <3> HIDE DEF there
    <3>. QED
      BY <1>1, <1>3, <2>1, LeastNumber
  <2>3. least \in there /\ \A j \in there : least <= j
    <3> HIDE DEF there
    <3>. QED
      BY <2>2
  <2>4. Following(n) = clients[least]
    BY <1>3 DEF Following
  <2> HIDE DEF least
  <2>5. \A k \in DOMAIN clients : n < k /\ k < least => clients[k] \in gone
    BY <1>1, <2>3
  <2>. QED
    BY <2>3, <2>4, <2>5
<1>. QED
  BY <1>2, <1>3

(* What a new connection does to the list.                                 *)
LEMMA NewHead ==
  ASSUME ShutTypeOK, NEW c \in Shell, clients' = <<c>> \o clients, gone' = gone
  PROVE  /\ clients' \in Seq(Shell) /\ Len(clients') = Len(clients) + 1
         /\ clients'[1] = c /\ 1 \in DOMAIN clients'
         /\ \A i \in DOMAIN clients : i + 1 \in DOMAIN clients' /\ clients'[i + 1] = clients[i]
         /\ \A k \in DOMAIN clients' : k # 1 => k - 1 \in DOMAIN clients /\ clients'[k] = clients[k - 1]
         /\ Came \subseteq Came' /\ Connected \subseteq Connected'
<1>1. /\ clients' \in Seq(Shell) /\ Len(clients') = Len(clients) + 1
      /\ clients'[1] = c /\ DOMAIN clients' = 1..(Len(clients) + 1)
      /\ DOMAIN clients = 1..Len(clients) /\ Len(clients) \in Nat
  BY DEF ShutTypeOK
<1>2. \A k \in DOMAIN clients' : k # 1 => k - 1 \in DOMAIN clients /\ clients'[k] = clients[k - 1]
  BY <1>1 DEF ShutTypeOK
<1>3. \A i \in DOMAIN clients : i + 1 \in DOMAIN clients' /\ clients'[i + 1] = clients[i]
  BY <1>1 DEF ShutTypeOK
<1>4. 1 \in DOMAIN clients'
  BY <1>1
<1>5. \A x : x \in Came => x \in Came'
  BY <1>3 DEF Came
<1>. QED
  BY <1>1, <1>2, <1>3, <1>4, <1>5 DEF Connected

(* A walk at a shell has gone by those before it in the list.              *)
LEMMA IsAt ==
  ASSUME ShutTypeOK, Linked, NEW p \in Shell, place[p] \in Came
  PROVE  \E i \in DOMAIN clients :
           /\ clients[i] = place[p] /\ Index(place[p]) = i /\ i \in Nat
           /\ \A k \in DOMAIN clients : GoneBy(p, k) <=> k < i
<1>1. PICK i \in DOMAIN clients : clients[i] = place[p]
  BY DEF Came
<1>2. Index(place[p]) = i
  BY <1>1 DEF Index, Linked
<1>3. i \in Nat
  BY DEF ShutTypeOK
<1>4. \A k \in DOMAIN clients : GoneBy(p, k) <=> k < i
  BY <1>1 DEF GoneBy, Linked
<1>. QED
  BY <1>1, <1>2, <1>3, <1>4

(* A step of a walk takes it by the shell where it was, and by those       *)
(* behind it that have gone.                                               *)
LEMMA MovesBy ==
  ASSUME ShutTypeOK, Linked, NEW p \in Shell, place[p] \in Came, UNCHANGED clients,
         place' = [place EXCEPT ![p] = After(place[p])]
  PROVE  /\ place[p] \in Shell /\ place' \in [Shell -> Shell \cup {Null}]
         /\ place'[p] # Null => place'[p] \in Came
         /\ \A q \in Shell \ {p} : place'[q] = place[q]
         /\ \E i \in DOMAIN clients :
              /\ clients[i] = place[p]
              /\ \A k \in DOMAIN clients :
                   /\ GoneBy(p, k) <=> k < i
                   /\ GoneBy(p, k)' => k <= i \/ clients[k] \in gone
<1>1. PICK i \in DOMAIN clients :
        /\ clients[i] = place[p] /\ Index(place[p]) = i /\ i \in Nat
        /\ \A k \in DOMAIN clients : GoneBy(p, k) <=> k < i
  BY IsAt
<1>2. DOMAIN clients \subseteq Nat /\ \A k \in DOMAIN clients : clients[k] \in Shell
  BY DEF ShutTypeOK
<1>3. place'[p] = Following(i) /\ \A q \in Shell \ {p} : place'[q] = place[q]
  BY <1>1 DEF After, ShutTypeOK
<1>4. ASSUME NEW k \in DOMAIN clients, GoneBy(p, k)', k > i PROVE clients[k] \in gone
  <2>1. \A j \in DOMAIN clients : clients[j] = place'[p] => k < j
    BY <1>4 DEF GoneBy
  <2>2. CASE Following(i) = Null /\ \A m \in DOMAIN clients : m > i => clients[m] \in gone
    BY <1>4, <2>2
  <2>3. CASE \E n \in DOMAIN clients :
               /\ n > i /\ clients[n] \notin gone /\ Following(i) = clients[n]
               /\ \A m \in DOMAIN clients : i < m /\ m < n => clients[m] \in gone
    <3>1. PICK n \in DOMAIN clients :
            /\ Following(i) = clients[n]
            /\ \A m \in DOMAIN clients : i < m /\ m < n => clients[m] \in gone
      BY <2>3
    <3>2. k < n
      BY <1>3, <2>1, <3>1
    <3>. QED
      BY <1>2, <1>4, <3>1, <3>2
  <2>. QED
    BY <1>1, <2>2, <2>3, FollowingIs
<1>5. Following(i) # Null => Following(i) \in Came /\ Following(i) \in Shell
  <2>1. Following(i) = Null \/ \E n \in DOMAIN clients : Following(i) = clients[n]
    BY <1>1, FollowingIs
  <2>. QED
    BY <1>2, <2>1 DEF Came
<1>6. Came' = Came /\ place[p] \in Shell
  BY <1>1, <1>2 DEF Came
<1>7. place' \in [Shell -> Shell \cup {Null}]
  BY <1>3, <1>5 DEF ShutTypeOK
<1>8. \A k \in DOMAIN clients : GoneBy(p, k)' => k <= i \/ clients[k] \in gone
  BY <1>2, <1>4
<1>. QED
  BY <1>1, <1>3, <1>5, <1>6, <1>7, <1>8

(* A walk that begins has gone by no shell that is there.                  *)
LEMMA BeginsAtHead ==
  ASSUME ShutTypeOK, Linked, NEW p \in Shell, p \in Connected, UNCHANGED clients,
         place' = [place EXCEPT ![p] = client_list]
  PROVE  /\ place' \in [Shell -> Shell \cup {Null}]
         /\ place'[p] # Null => place'[p] \in Came
         /\ \A q \in Shell \ {p} : place'[q] = place[q]
         /\ \A k \in DOMAIN clients : GoneBy(p, k)' => clients[k] \in gone
<1>1. DOMAIN clients = 1..Len(clients) /\ Len(clients) \in Nat
      /\ \A k \in DOMAIN clients : clients[k] \in Shell /\ k > 0
  BY DEF ShutTypeOK
<1>2. place'[p] = Following(0) /\ \A q \in Shell \ {p} : place'[q] = place[q]
  BY DEF client_list, ShutTypeOK
<1>3. PICK m \in DOMAIN clients : clients[m] = p /\ p \notin gone
  BY DEF Connected, Came
<1>4. PICK i \in DOMAIN clients :
        /\ Following(0) = clients[i]
        /\ \A k \in DOMAIN clients : 0 < k /\ k < i => clients[k] \in gone
  <2>1. ~\A k \in DOMAIN clients : k > 0 => clients[k] \in gone
    BY <1>1, <1>3
  <2>2. 0 \in Nat
    OBVIOUS
  <2>. QED
    BY <2>1, <2>2, FollowingIs
<1>5. ASSUME NEW k \in DOMAIN clients, GoneBy(p, k)' PROVE clients[k] \in gone
  <2>1. k < i
    BY <1>2, <1>4, <1>5 DEF GoneBy
  <2>. QED
    BY <1>1, <1>4, <2>1
<1>6. Following(0) \in Shell /\ Following(0) \in Came /\ Came' = Came
  BY <1>1, <1>4 DEF Came
<1>7. place' \in [Shell -> Shell \cup {Null}]
  BY <1>6 DEF client_list, ShutTypeOK
<1>. QED
  BY <1>2, <1>5, <1>6, <1>7

(* A walk at freed memory goes by no shell that is there and that it has   *)
(* not gone by.                                                            *)
LEMMA StraysNotBy ==
  ASSUME ShutTypeOK, Linked, NEW p \in Shell, UseFreed(p)
  PROVE  /\ place' \in [Shell -> Shell \cup {Null}]
         /\ place'[p] # Null => place'[p] \in Came
         /\ \A q \in Shell \ {p} : place'[q] = place[q]
         /\ \A k \in DOMAIN clients : GoneBy(p, k)' => GoneBy(p, k) \/ clients[k] \in gone
<1>1. /\ place[p] \in gone /\ place[p] \in Came /\ UNCHANGED clients /\ Came' = Came
      /\ \A k \in DOMAIN clients : clients[k] \in Shell
      /\ DOMAIN clients = 1..Len(clients) /\ Len(clients) \in Nat
  BY ShellAssumption DEF UseFreed, Linked, ShutTypeOK, Came
<1>2. CASE UNCHANGED place
  BY <1>1, <1>2 DEF GoneBy, ShutTypeOK
<1>3. CASE place' = [place EXCEPT ![p] = After(place[p])]
  <2>1. PICK i \in DOMAIN clients :
          /\ clients[i] = place[p]
          /\ \A k \in DOMAIN clients :
               (GoneBy(p, k) <=> k < i) /\ (GoneBy(p, k)' => k <= i \/ clients[k] \in gone)
    BY <1>1, <1>3, MovesBy
  <2>2. \A k \in DOMAIN clients : k <= i => k < i \/ k = i
    BY <1>1
  <2>3. \A k \in DOMAIN clients : GoneBy(p, k)' => GoneBy(p, k) \/ clients[k] \in gone
    BY <1>1, <2>1, <2>2
  <2>. QED
    BY <1>1, <1>3, <2>3, MovesBy
<1>4. ASSUME NEW n \in 1..Index(place[p]) - 1, place' = [place EXCEPT ![p] = clients[n]]
      PROVE  /\ place' \in [Shell -> Shell \cup {Null}]
             /\ place'[p] # Null => place'[p] \in Came
             /\ \A q \in Shell \ {p} : place'[q] = place[q]
             /\ \A k \in DOMAIN clients : GoneBy(p, k)' => GoneBy(p, k)
  <2>1. PICK i \in DOMAIN clients :
          /\ Index(place[p]) = i /\ i \in Nat
          /\ \A k \in DOMAIN clients : GoneBy(p, k) <=> k < i
    BY <1>1, IsAt
  <2>2. n \in DOMAIN clients /\ n < i
    BY <1>1, <2>1
  <2>3. clients[n] \in Shell /\ clients[n] \in Came
    BY <1>1, <2>2 DEF Came
  <2>4. place' \in [Shell -> Shell \cup {Null}] /\ place'[p] = clients[n]
        /\ \A q \in Shell \ {p} : place'[q] = place[q]
    BY <1>4, <2>3 DEF ShutTypeOK
  <2>5. ASSUME NEW k \in DOMAIN clients, GoneBy(p, k)' PROVE GoneBy(p, k)
    <3>1. k < n
      BY <1>1, <2>2, <2>4, <2>5 DEF GoneBy
    <3>. QED
      BY <1>1, <2>1, <2>2, <3>1
  <2>. QED
    BY <2>3, <2>4, <2>5
<1>5. \/ UNCHANGED place
      \/ place' = [place EXCEPT ![p] = After(place[p])]
      \/ \E n \in 1..Index(place[p]) - 1 : place' = [place EXCEPT ![p] = clients[n]]
  BY Zenon DEF UseFreed
<1>. QED
  BY <1>2, <1>3, <1>4, <1>5

(* What the other walks have gone by stays as it was.                      *)
LEMMA SamePlace ==
  ASSUME UNCHANGED clients, NEW p, place'[p] = place[p], NEW k
  PROVE  GoneBy(p, k)' <=> GoneBy(p, k)
BY DEF GoneBy

(* Whom a shell meets depends on the list and on who came late.            *)
LEMMA SameMet ==
  ASSUME UNCHANGED <<clients, gone, late>>, NEW p, NEW k
  PROVE  Met(p, k)' <=> Met(p, k)
BY DEF Met

(* A step keeps the types and the list.                                    *)
LEMMA LinkedStep ==
  ASSUME ShutTypeOK, Linked, ShutNext
  PROVE  ShutTypeOK' /\ Linked'
<1> PICK c \in Shell : ClientStep(c) \/ Finish(c) \/ ShutdownStep(c) \/ UseFreed(c)
  BY DEF ShutNext
<1>1. CASE Connect(c)
  <2>1. ShutTypeOK'
    BY <1>1, NewHead DEF ShutTypeOK, Connect
  <2>2. ASSUME NEW i \in DOMAIN clients', NEW j \in DOMAIN clients', clients'[i] = clients'[j]
        PROVE  i = j
    <3>1. \A k \in DOMAIN clients : clients[k] # c
      BY <1>1 DEF Connect, Came
    <3>2. i \in Nat /\ j \in Nat
      BY <2>1 DEF ShutTypeOK
    <3>. QED
      BY <1>1, <2>2, <3>1, <3>2, NewHead DEF Connect, Linked
  <2>3. Came \subseteq Came' /\ Connected \subseteq Connected'
    BY <1>1, NewHead DEF Connect
  <2>. QED
    BY <1>1, <2>1, <2>2, <2>3 DEF Connect, Linked
<1>2. CASE Command(c) \/ Wait(c) \/ Answered(c) \/ Finish(c)
  <2>1. /\ UNCHANGED <<clients, gone, place, cancelled, late>> /\ c \in Connected
        /\ \A q \in Shell \ {c} : phase'[q] = phase[q]
        /\ phase' \in [Shell -> Walk \cup {"idle", "busy", "waiting", "ready"}]
    BY <1>2 DEF Command, Wait, Answered, Finish, Runs, ShutTypeOK
  <2>2. holder' \in [Shell -> Shell \cup {Null}]
    BY <1>2 DEF Command, Wait, Answered, Finish, ShutTypeOK
  <2>3. Came' = Came /\ Connected' = Connected
    BY <2>1 DEF Connected, Came
  <2>. QED
    BY <2>1, <2>2, <2>3 DEF ShutTypeOK, Linked
<1>3. CASE Hangup(c) \/ cmd_exit(c)
  BY <1>3 DEF Hangup, cmd_exit, Runs, ShutTypeOK, Linked, Connected, Came
<1>4. ASSUME UNCHANGED <<clients, gone, late>>, phase[c] # "idle", cancelled' \subseteq Shell,
             holder' \in [Shell -> Shell \cup {Null}],
             phase' \in [Shell -> Walk \cup {"idle", "busy", "waiting", "ready"}],
             \A q \in Shell \ {c} : phase'[q] = phase[q],
             \/ UNCHANGED place
             \/ Move(c)
             \/ place' = [place EXCEPT ![c] = client_list]
             \/ UseFreed(c)
      PROVE  ShutTypeOK' /\ Linked'
  <2>1. Connected' = Connected /\ Came' = Came /\ c \in Connected
    BY <1>4 DEF Connected, Came, Linked
  <2>2. /\ place' \in [Shell -> Shell \cup {Null}]
        /\ place'[c] # Null => place'[c] \in Came
        /\ \A q \in Shell \ {c} : place'[q] = place[q]
    <3>1. CASE Move(c)
      BY <1>4, <3>1, MovesBy DEF Move, Connected
    <3>2. CASE place' = [place EXCEPT ![c] = client_list]
      BY <1>4, <2>1, <3>2, BeginsAtHead
    <3>3. CASE UseFreed(c)
      BY <3>3, StraysNotBy
    <3>4. CASE UNCHANGED place
      BY <3>4 DEF ShutTypeOK, Linked
    <3>. QED
      BY <1>4, <3>1, <3>2, <3>3, <3>4
  <2>3. ShutTypeOK'
    BY <1>4, <2>2 DEF ShutTypeOK
  <2>4. Linked'
    BY <1>4, <2>1, <2>2 DEF Linked
  <2>. QED
    BY <2>3, <2>4
<1>5. CASE cmd_shutdown(c)
  BY <1>4, <1>5 DEF cmd_shutdown, ShutTypeOK, Walk
<1>6. CASE Lock(c)
  BY <1>4, <1>6 DEF Lock, Turn, ShutTypeOK, Walk
<1>7. CASE Farewell(c)
  <2>1. cancelled' \subseteq Shell
    <3>1. CASE Move(c)
      <4>1. place[c] \in Shell
        BY <1>7, <3>1, MovesBy DEF Move, Connected, Farewell
      <4>. QED
        BY <1>7, <4>1 DEF Farewell, ShutTypeOK
    <3>. QED
      BY <1>7, <3>1 DEF Farewell, ShutTypeOK
  <2>. QED
    BY <1>4, <1>7, <2>1 DEF Farewell, Turn, ShutTypeOK, Walk
<1>8. CASE Unlock(c)
  BY <1>4, <1>8 DEF Unlock, Turn, ShutTypeOK, Walk
<1>9. CASE UseFreed(c)
  <2>1. phase[c] # "idle" /\ UNCHANGED <<clients, gone, late, holder, phase>>
    BY <1>9 DEF UseFreed, Walk
  <2>2. cancelled' \subseteq Shell
    BY <1>9 DEF UseFreed, ShutTypeOK
  <2>. QED
    BY <1>4, <1>9, <2>1, <2>2 DEF ShutTypeOK
<1>10. CASE bif_shutdown(c)
  BY <1>10 DEF bif_shutdown, ShutTypeOK, Linked, Connected, Came
<1>. QED
  BY <1>1, <1>2, <1>3, <1>5, <1>6, <1>7, <1>8, <1>9, <1>10 DEF ClientStep, ShutdownStep

(* A new connection is met for sure by no shutdown under way, and moves    *)
(* the others one place back.                                              *)
LEMMA NewNotMet ==
  ASSUME ShutTypeOK, Linked, NEW c \in Shell, Connect(c), NEW p \in Shell,
         phase[p] \in Walk \cup {"ready"}, NEW k \in DOMAIN clients'
  PROVE  /\ Met(p, k)' => k # 1 /\ Met(p, k - 1)
         /\ k # 1 => (GoneBy(p, k)' <=> GoneBy(p, k - 1))
<1>1. c \notin Came /\ clients' = <<c>> \o clients /\ late' = late \cup {c}
      /\ UNCHANGED <<gone, phase, place>>
  BY DEF Connect
<1>2. p # c /\ (place[p] # c)
  BY <1>1, ShellAssumption DEF Linked, Walk, Connected
<1>3. DOMAIN clients' \subseteq Nat /\ DOMAIN clients \subseteq Nat /\ \A j \in DOMAIN clients' : j >= 1
  BY <1>1, NewHead DEF ShutTypeOK
<1>4. /\ clients'[1] = c
      /\ \A i \in DOMAIN clients : i + 1 \in DOMAIN clients' /\ clients'[i + 1] = clients[i]
      /\ \A j \in DOMAIN clients' : j # 1 => j - 1 \in DOMAIN clients /\ clients'[j] = clients[j - 1]
  BY <1>1, NewHead
<1>5. Met(p, k)' => k # 1 /\ Met(p, k - 1)
  <2> SUFFICES ASSUME Met(p, k)' PROVE k # 1 /\ Met(p, k - 1)
    OBVIOUS
  <2>1. clients'[k] # p /\ clients'[k] \notin gone
        /\ (clients'[k] \notin late' \/ \E j \in DOMAIN clients' : clients'[j] = p /\ j < k)
    BY <1>1 DEF Met
  <2>2. k # 1
    BY <2>1, <1>1, <1>2, <1>3, <1>4
  <2>3. ASSUME NEW j \in DOMAIN clients', clients'[j] = p, j < k
        PROVE  j - 1 \in DOMAIN clients /\ clients[j - 1] = p /\ j - 1 < k - 1
    BY <2>3, <1>2, <1>3, <1>4
  <2>4. clients[k - 1] = clients'[k]
    BY <2>2, <1>4
  <2>. QED
    BY <2>1, <2>2, <2>3, <2>4, <1>1 DEF Met
<1>6. ASSUME k # 1 PROVE GoneBy(p, k)' <=> GoneBy(p, k - 1)
  <2>1. ASSUME GoneBy(p, k)', NEW j \in DOMAIN clients, clients[j] = place[p] PROVE k - 1 < j
    <3>1. j + 1 \in DOMAIN clients' /\ clients'[j + 1] = place'[p]
      BY <2>1, <1>1, <1>4
    <3>2. k < j + 1
      BY <2>1, <3>1 DEF GoneBy
    <3>. QED
      BY <3>2, <1>3
  <2>2. ASSUME GoneBy(p, k - 1), NEW j \in DOMAIN clients', clients'[j] = place'[p] PROVE k < j
    <3>1. j - 1 \in DOMAIN clients /\ clients[j - 1] = place[p]
      BY <2>2, <1>1, <1>2, <1>4
    <3>2. k - 1 < j - 1
      BY <2>2, <3>1 DEF GoneBy
    <3>. QED
      BY <3>2, <1>3
  <2>. QED
    BY <2>1, <2>2 DEF GoneBy
<1>. QED
  BY <1>5, <1>6

(* The rest of the invariant.                                              *)
Held == Own /\ Locked /\ Alone /\ Behind /\ Cut

(* A connection that comes changes nothing for those that were there.      *)
LEMMA ConnectHeld ==
  ASSUME ShutInv, NEW c \in Shell, Connect(c) PROVE Held'
<1>1. UNCHANGED <<gone, holder, phase, place, cancelled, Past>> /\ clients' = <<c>> \o clients
  BY DEF Connect, Past
<1>2. \A p \in Shell, k \in DOMAIN clients' : phase[p] \in Walk \cup {"ready"} =>
        /\ Met(p, k)' => k # 1 /\ Met(p, k - 1)
        /\ k # 1 => (GoneBy(p, k)' <=> GoneBy(p, k - 1))
  BY NewNotMet DEF ShutInv
<1>3. /\ \A i \in DOMAIN clients : i + 1 \in DOMAIN clients' /\ clients'[i + 1] = clients[i]
      /\ \A j \in DOMAIN clients' : j # 1 => j - 1 \in DOMAIN clients /\ clients'[j] = clients[j - 1]
  BY <1>1, NewHead DEF ShutInv
<1>4. \A j \in DOMAIN clients : (j + 1) - 1 = j /\ j + 1 # 1
  BY DEF ShutInv, ShutTypeOK
<1>5. Own' /\ Alone'
  BY <1>1 DEF ShutInv, Own, Alone
<1>6. Locked'
  BY <1>1, <1>2, <1>3 DEF ShutInv, Locked, Walk
<1>7. Behind'
  <2> SUFFICES ASSUME NEW q \in Past, NEW p \in Shell, phase[p] = "locking"
               PROVE  \E j \in DOMAIN clients' : clients'[j] = q /\ ~GoneBy(p, j)'
    BY <1>1 DEF Behind
  <2>1. PICK j \in DOMAIN clients : clients[j] = q /\ ~GoneBy(p, j)
    BY DEF ShutInv, Behind
  <2>2. j + 1 \in DOMAIN clients' /\ clients'[j + 1] = q /\ ~GoneBy(p, j + 1)'
    BY <2>1, <1>2, <1>3, <1>4 DEF Walk
  <2>. QED
    BY <2>2
<1>8. Cut'
  <2> SUFFICES ASSUME NEW q \in Past, NEW k \in DOMAIN clients', Met(q, k)'
               PROVE  /\ phase[clients'[k]] = "idle"
                      /\ \/ clients'[k] \in cancelled
                         \/ holder[clients'[k]] = q /\ phase[q] = "parting" /\ ~GoneBy(q, k)'
    BY <1>1 DEF Cut
  <2>1. q \in Shell /\ phase[q] \in Walk \cup {"ready"}
    BY DEF Past, Walk
  <2>2. k # 1 /\ Met(q, k - 1) /\ (GoneBy(q, k)' <=> GoneBy(q, k - 1))
    BY <2>1, <1>2
  <2>3. k - 1 \in DOMAIN clients /\ clients'[k] = clients[k - 1]
    BY <2>2, <1>3
  <2>. QED
    BY <2>2, <2>3 DEF ShutInv, Cut
<1>. QED
  BY <1>5, <1>6, <1>7, <1>8 DEF Held

(* A command begins on a shell that nobody holds, waits, and ends.         *)
LEMMA CommandHeld ==
  ASSUME ShutInv, NEW c \in Shell, Command(c) \/ Wait(c) \/ Answered(c) \/ Finish(c)
  PROVE  Held'
<1>1. /\ UNCHANGED <<clients, gone, late, place, cancelled>>
      /\ \A p \in Shell \ {c} : phase'[p] = phase[p] /\ holder'[p] = holder[p]
      /\ \/ phase[c] = "idle" /\ phase'[c] = "busy" /\ holder[c] = Null /\ holder'[c] = c
            /\ c \notin cancelled
         \/ phase[c] = "busy" /\ phase'[c] = "waiting" /\ holder'[c] = holder[c]
         \/ phase[c] \in {"busy", "waiting"} /\ phase'[c] = "idle"
  BY DEF Command, Wait, Answered, Finish, Runs, ShutInv, ShutTypeOK
<1>2. Past' = Past /\ c \notin Past
  BY <1>1 DEF Past
<1>3. \A p, k : (Met(p, k)' <=> Met(p, k)) /\ (GoneBy(p, k)' <=> GoneBy(p, k))
  BY <1>1 DEF Met, GoneBy
<1>4. \A k \in DOMAIN clients : clients[k] \in Shell
  BY DEF ShutInv, ShutTypeOK
<1>5. Own'
  BY <1>1, <1>2 DEF ShutInv, Own
<1>6. Locked'
  BY <1>1, <1>2, <1>3, <1>4, ShellAssumption DEF ShutInv, Locked
<1>7. Alone'
  BY <1>1, <1>2 DEF ShutInv, Alone, Past
<1>8. Behind'
  BY <1>1, <1>2, <1>3 DEF ShutInv, Behind
<1>9. Cut'
  <2> SUFFICES ASSUME NEW q \in Past, NEW k \in DOMAIN clients, Met(q, k)
               PROVE  /\ phase'[clients[k]] = "idle"
                      /\ \/ clients[k] \in cancelled
                         \/ holder'[clients[k]] = q /\ phase'[q] = "parting" /\ ~GoneBy(q, k)
    BY <1>1, <1>2, <1>3 DEF Cut
  <2>1. q \in Shell /\ q # Null /\ q # c
    BY <1>2, ShellAssumption DEF Past
  <2>2. clients[k] # c
    BY <1>1, <2>1 DEF ShutInv, Cut
  <2>. QED
    BY <1>1, <1>4, <2>1, <2>2 DEF ShutInv, Cut
<1>. QED
  BY <1>5, <1>6, <1>7, <1>8, <1>9 DEF Held

(* A shell that goes away is met by nobody any more, and ran no shutdown.  *)
LEMMA DepartHeld ==
  ASSUME ShutInv, NEW c \in Shell, Hangup(c) \/ cmd_exit(c) PROVE Held'
<1>1. /\ UNCHANGED <<clients, late, holder, place, cancelled>> /\ gone' = gone \cup {c}
      /\ \A p \in Shell \ {c} : phase'[p] = phase[p]
      /\ phase[c] \in {"idle", "busy"} /\ phase'[c] = "idle"
  BY DEF Hangup, cmd_exit, ShutInv, ShutTypeOK
<1>2. Past' = Past /\ c \notin Past
  BY <1>1 DEF Past
<1>3. \A p, k : (Met(p, k)' => Met(p, k) /\ clients[k] # c) /\ (GoneBy(p, k)' <=> GoneBy(p, k))
  BY <1>1 DEF Met, GoneBy
<1>4. \A k \in DOMAIN clients : clients[k] \in Shell
  BY DEF ShutInv, ShutTypeOK
<1>5. Own' /\ Alone'
  BY <1>1, <1>2 DEF ShutInv, Own, Alone
<1>6. Locked'
  BY <1>1, <1>2, <1>3, <1>4 DEF ShutInv, Locked
<1>7. Behind'
  BY <1>1, <1>2, <1>3 DEF ShutInv, Behind
<1>8. Cut'
  <2> SUFFICES ASSUME NEW q \in Past, NEW k \in DOMAIN clients, Met(q, k), clients[k] # c
               PROVE  /\ phase'[clients[k]] = "idle"
                      /\ \/ clients[k] \in cancelled
                         \/ holder[clients[k]] = q /\ phase'[q] = "parting" /\ ~GoneBy(q, k)
    BY <1>1, <1>2, <1>3 DEF Cut
  <2>1. q \in Shell \ {c}
    BY <1>2 DEF Past
  <2>. QED
    BY <1>1, <1>4, <2>1 DEF ShutInv, Cut
<1>. QED
  BY <1>5, <1>6, <1>7, <1>8 DEF Held

(* A walk at freed memory cancels, at most, those that came late.          *)
LEMMA StrayHeld ==
  ASSUME ShutInv, NEW c \in Shell, UseFreed(c) PROVE Held'
<1>1. /\ UNCHANGED <<clients, gone, late, holder, phase>> /\ Past' = Past
      /\ cancelled \subseteq cancelled'
      /\ phase[c] \in Walk /\ (phase[c] # "parting" => cancelled' = cancelled)
  BY DEF UseFreed, Past
<1>2. /\ \A q \in Shell \ {c} : place'[q] = place[q]
      /\ \A k \in DOMAIN clients : GoneBy(c, k)' => GoneBy(c, k) \/ clients[k] \in gone
  BY StraysNotBy DEF ShutInv
<1>3. \A p \in Shell \ {c} : \A k : GoneBy(p, k)' <=> GoneBy(p, k)
  BY <1>1, <1>2, SamePlace
<1>4. \A p \in Shell : \A k \in DOMAIN clients :
        clients[k] \notin gone /\ GoneBy(p, k)' => GoneBy(p, k)
  BY <1>2, <1>3
<1>5. \A p, k : (Met(p, k)' <=> Met(p, k)) /\ (Met(p, k) => clients[k] \notin gone)
  BY <1>1 DEF Met
<1>6. Own'
  BY <1>1 DEF ShutInv, Own, Past
<1>7. Locked'
  BY <1>1, <1>4, <1>5 DEF ShutInv, Locked
<1>8. Alone'
  BY <1>1 DEF ShutInv, Alone
<1>9. Behind'
  <2> SUFFICES ASSUME NEW q \in Past, NEW p \in Shell, phase[p] = "locking"
               PROVE  \E j \in DOMAIN clients : clients[j] = q /\ ~GoneBy(p, j)'
    BY <1>1 DEF Behind
  <2>1. PICK j \in DOMAIN clients : clients[j] = q /\ ~GoneBy(p, j)
    BY DEF ShutInv, Behind
  <2>2. q \notin gone
    BY DEF ShutInv, Linked, Past, Connected
  <2>. QED
    BY <1>4, <2>1, <2>2
<1>10. Cut'
  <2> SUFFICES ASSUME NEW q \in Past, NEW k \in DOMAIN clients, Met(q, k)
               PROVE  /\ phase[clients[k]] = "idle"
                      /\ \/ clients[k] \in cancelled'
                         \/ holder[clients[k]] = q /\ phase[q] = "parting" /\ ~GoneBy(q, k)'
    BY <1>1, <1>5 DEF Cut
  <2>1. q \in Shell
    BY DEF Past
  <2>. QED
    BY <1>1, <1>4, <1>5, <2>1 DEF ShutInv, Cut
<1>. QED
  BY <1>6, <1>7, <1>8, <1>9, <1>10 DEF Held

(* A shutdown begins with the head of the list.                            *)
LEMMA BeginHeld ==
  ASSUME ShutInv, NEW c \in Shell, cmd_shutdown(c) PROVE Held'
<1>1. /\ UNCHANGED <<clients, gone, late, holder, cancelled>>
      /\ \A p \in Shell \ {c} : phase'[p] = phase[p]
      /\ phase[c] = "busy" /\ phase'[c] = "locking"
      /\ place' = [place EXCEPT ![c] = client_list]
  BY DEF cmd_shutdown, ShutInv, ShutTypeOK
<1>2. Past' = Past /\ c \notin Past
  BY <1>1 DEF Past
<1>3. \A p, k : (Met(p, k)' <=> Met(p, k)) /\ (Met(p, k) => clients[k] \notin gone)
  BY <1>1 DEF Met
<1>4. c \in Connected
  BY <1>1 DEF ShutInv, Linked
<1>5. /\ \A q \in Shell \ {c} : place'[q] = place[q]
      /\ \A k \in DOMAIN clients : GoneBy(c, k)' => clients[k] \in gone
  BY <1>1, <1>4, BeginsAtHead DEF ShutInv
<1>6. \A p \in Shell \ {c} : \A k : GoneBy(p, k)' <=> GoneBy(p, k)
  BY <1>1, <1>5, SamePlace
<1>7. \A k \in DOMAIN clients : clients[k] \in Shell
  BY DEF ShutInv, ShutTypeOK
<1>8. Own'
  BY <1>1, <1>2 DEF ShutInv, Own
<1>9. Locked'
  BY <1>1, <1>2, <1>3, <1>5, <1>6, <1>7 DEF ShutInv, Locked
<1>10. Alone'
  BY <1>1, <1>2 DEF ShutInv, Alone
<1>11. Behind'
  <2> SUFFICES ASSUME NEW q \in Past, NEW p \in Shell, phase'[p] = "locking"
               PROVE  \E j \in DOMAIN clients : clients[j] = q /\ ~GoneBy(p, j)'
    BY <1>1, <1>2 DEF Behind
  <2>1. CASE p = c
    <3>1. q \in Connected
      BY DEF ShutInv, Linked, Past
    <3>. QED
      BY <2>1, <3>1, <1>5 DEF Connected, Came
  <2>2. CASE p # c
    BY <2>2, <1>1, <1>6 DEF ShutInv, Behind
  <2>. QED
    BY <2>1, <2>2
<1>12. Cut'
  <2> SUFFICES ASSUME NEW q \in Past, NEW k \in DOMAIN clients, Met(q, k)
               PROVE  /\ phase'[clients[k]] = "idle"
                      /\ \/ clients[k] \in cancelled
                         \/ holder[clients[k]] = q /\ phase'[q] = "parting" /\ ~GoneBy(q, k)'
    BY <1>1, <1>2, <1>3 DEF Cut
  <2>1. q \in Shell \ {c}
    BY <1>2 DEF Past
  <2>2. clients[k] # c
    BY <1>1 DEF ShutInv, Cut
  <2>. QED
    BY <1>1, <1>6, <1>7, <2>1, <2>2 DEF ShutInv, Cut
<1>. QED
  BY <1>8, <1>9, <1>10, <1>11, <1>12 DEF Held

(* The shell that has locked all others is the first to do so, and those   *)
(* that lock when it has are in its way behind it.                         *)
LEMMA LockedAll ==
  ASSUME ShutInv, NEW c \in Shell, Lock(c), Turn(c, "parting") PROVE Held'
<1>1. /\ UNCHANGED <<clients, gone, late, holder, cancelled>>
      /\ \A p \in Shell \ {c} : phase'[p] = phase[p]
      /\ phase[c] = "locking" /\ phase'[c] = "parting"
      /\ place[c] = Null /\ place' = [place EXCEPT ![c] = client_list]
  BY DEF Lock, Turn, ShutInv, ShutTypeOK
<1>2. \A k \in DOMAIN clients : clients[k] \in Shell
  BY DEF ShutInv, ShutTypeOK
<1>3. \A k \in DOMAIN clients : GoneBy(c, k)
  BY <1>1, <1>2, ShellAssumption DEF GoneBy
<1>4. Past = {}
  BY <1>1, <1>3 DEF ShutInv, Behind
<1>5. Past' = {c}
  BY <1>1, <1>4 DEF Past
<1>6. c \in Connected
  BY <1>1 DEF ShutInv, Linked
<1>7. /\ \A q \in Shell \ {c} : place'[q] = place[q]
      /\ \A k \in DOMAIN clients : GoneBy(c, k)' => clients[k] \in gone
  BY <1>1, <1>6, BeginsAtHead DEF ShutInv
<1>8. Own' /\ Locked'
  BY <1>5 DEF Own, Locked
<1>9. Alone'
  BY <1>1, <1>4, <1>5 DEF ShutInv, Own, Alone
<1>10. Behind'
  <2> SUFFICES ASSUME NEW p \in Shell, phase'[p] = "locking"
               PROVE  \E j \in DOMAIN clients : clients[j] = c /\ ~GoneBy(p, j)'
    BY <1>1, <1>5 DEF Behind
  <2>1. p # c /\ phase[p] = "locking"
    BY <1>1
  <2>2. p \in Connected /\ p \notin gone /\ c \notin gone
    BY <1>6, <2>1 DEF ShutInv, Linked, Connected
  <2>3. PICK i \in DOMAIN clients, j \in DOMAIN clients : clients[i] = p /\ clients[j] = c
    BY <2>2, <1>6 DEF Connected, Came
  <2>4. i \in Nat /\ j \in Nat /\ i # j
    BY <2>1, <2>3 DEF ShutInv, ShutTypeOK
  <2>5. ~(j < i)
    <3>1. ~Met(c, i)
      BY <1>1, <1>3, <1>4, <2>1, <2>3 DEF ShutInv, Locked
    <3>. QED
      BY <3>1, <2>1, <2>2, <2>3 DEF Met
  <2>6. Met(p, j)
    BY <2>1, <2>2, <2>3, <2>4, <2>5 DEF Met
  <2>7. ~GoneBy(p, j)
    BY <1>1, <1>4, <2>1, <2>3, <2>6 DEF ShutInv, Locked
  <2>8. ~GoneBy(p, j)'
    BY <1>1, <1>7, <2>1, <2>7, SamePlace
  <2>. QED
    BY <2>3, <2>8
<1>11. Cut'
  <2> SUFFICES ASSUME NEW k \in DOMAIN clients, Met(c, k)
               PROVE  /\ phase'[clients[k]] = "idle"
                      /\ holder[clients[k]] = c /\ phase'[c] = "parting" /\ ~GoneBy(c, k)'
    BY <1>1, <1>5, SameMet DEF Cut
  <2>1. phase[clients[k]] = "idle" /\ holder[clients[k]] = c
    BY <1>1, <1>3, <1>4 DEF ShutInv, Locked
  <2>2. clients[k] # c /\ clients[k] \notin gone
    BY DEF Met
  <2>. QED
    BY <1>1, <1>2, <1>7, <2>1, <2>2
<1>. QED
  BY <1>8, <1>9, <1>10, <1>11 DEF Held

(* A walk that locks takes a shell when nobody holds it.                   *)
LEMMA TakeHeld ==
  ASSUME ShutInv, NEW c \in Shell, Lock(c), UNCHANGED <<phase, place>>,
         place[c] \in Connected \ {c}, holder[place[c]] = Null,
         holder' = [holder EXCEPT ![place[c]] = c]
  PROVE  Held'
<1>1. UNCHANGED <<clients, gone, late, cancelled>> /\ Past' = Past /\ phase[c] = "locking"
  BY DEF Lock, Past
<1>2. place[c] \in Shell
  BY ShellAssumption DEF ShutInv, ShutTypeOK, Linked, Connected, Came
<1>3. \A x \in Shell : holder[x] # Null => x # place[c] /\ holder'[x] = holder[x]
  BY <1>2 DEF ShutInv, ShutTypeOK
<1>4. \A p, k : (Met(p, k)' <=> Met(p, k)) /\ (GoneBy(p, k)' <=> GoneBy(p, k))
  BY <1>1, SameMet, SamePlace
<1>5. /\ \A k \in DOMAIN clients : clients[k] \in Shell
      /\ \A p \in Shell : p # Null
  BY ShellAssumption DEF ShutInv, ShutTypeOK
<1>6. Own'
  BY <1>1, <1>3, <1>5 DEF ShutInv, Own
<1>7. Locked'
  BY <1>1, <1>3, <1>4, <1>5 DEF ShutInv, Locked
<1>8. Alone'
  BY <1>1, <1>3, <1>5 DEF ShutInv, Alone, Past
<1>9. Behind'
  BY <1>1, <1>4 DEF ShutInv, Behind
<1>10. Cut'
  <2> SUFFICES ASSUME NEW q \in Past, NEW k \in DOMAIN clients, Met(q, k)
               PROVE  /\ phase[clients[k]] = "idle"
                      /\ \/ clients[k] \in cancelled
                         \/ holder'[clients[k]] = q /\ phase[q] = "parting" /\ ~GoneBy(q, k)
    BY <1>1, <1>4 DEF Cut
  <2>1. q \in Shell
    BY DEF Past
  <2>. QED
    BY <1>3, <1>5, <2>1 DEF ShutInv, Cut
<1>. QED
  BY <1>6, <1>7, <1>8, <1>9, <1>10 DEF Held

(* It goes by its own shell, and by the others when it holds them.         *)
LEMMA LockHeld ==
  ASSUME ShutInv, NEW c \in Shell, Lock(c), Move(c), UNCHANGED <<phase, holder>>,
         place[c] = c \/ holder[place[c]] = c
  PROVE  Held'
<1>1. UNCHANGED <<clients, gone, late, cancelled>> /\ phase[c] = "locking" /\ Past' = Past
  BY DEF Lock, Past
<1>2. place[c] \in Shell /\ \A q \in Shell \ {c} : place'[q] = place[q]
  BY <1>1, MovesBy DEF ShutInv, Move, Connected
<1>3. PICK i \in DOMAIN clients :
        /\ clients[i] = place[c]
        /\ \A k \in DOMAIN clients :
             (GoneBy(c, k) <=> k < i) /\ (GoneBy(c, k)' => k <= i \/ clients[k] \in gone)
  BY <1>1, MovesBy DEF ShutInv, Move, Connected
<1>4. \A p \in Shell \ {c} : \A k : GoneBy(p, k)' <=> GoneBy(p, k)
  BY <1>1, <1>2, SamePlace
<1>5. (\A k \in DOMAIN clients : clients[k] \in Shell) /\ DOMAIN clients \subseteq Nat
  BY DEF ShutInv, ShutTypeOK
<1>6. \A p, k : (Met(p, k)' <=> Met(p, k)) /\ (Met(p, k) => clients[k] \notin gone)
  BY <1>1 DEF Met
<1>7. \A p \in Shell : \A k \in DOMAIN clients :
        clients[k] \notin gone /\ GoneBy(p, k)' => GoneBy(p, k) \/ (p = c /\ k = i)
  BY <1>3, <1>4, <1>5
<1>8. Own'
  BY <1>1 DEF ShutInv, Own
<1>9. Locked'
  <2> SUFFICES ASSUME Past = {}, NEW p \in Shell, phase[p] = "locking",
                      NEW k \in DOMAIN clients, Met(p, k), GoneBy(p, k)'
               PROVE  phase[clients[k]] = "idle" /\ holder[clients[k]] = p
    BY <1>1, <1>6 DEF Locked
  <2>1. CASE GoneBy(p, k)
    BY <2>1 DEF ShutInv, Locked
  <2>2. CASE p = c /\ k = i
    <3>1. place[c] # c
      BY <1>3, <2>2 DEF Met
    <3>. QED
      BY <1>2, <1>3, <2>2, <3>1 DEF ShutInv, Own
  <2>. QED
    BY <1>6, <1>7, <2>1, <2>2
<1>10. Alone'
  BY <1>1 DEF ShutInv, Alone
<1>11. Behind'
  <2> SUFFICES ASSUME NEW q \in Past, NEW p \in Shell, phase[p] = "locking"
               PROVE  \E j \in DOMAIN clients : clients[j] = q /\ ~GoneBy(p, j)'
    BY <1>1 DEF Behind
  <2>1. PICK j \in DOMAIN clients : clients[j] = q /\ ~GoneBy(p, j)
    BY DEF ShutInv, Behind
  <2>2. q \in Shell /\ q # c /\ holder[q] = q /\ q \notin gone
    BY <1>1 DEF ShutInv, Alone, Past, Linked, Connected
  <2>3. j # i
    BY <1>3, <2>1, <2>2
  <2>. QED
    BY <1>7, <2>1, <2>2, <2>3
<1>12. Cut'
  <2> SUFFICES ASSUME NEW q \in Past, NEW k \in DOMAIN clients, Met(q, k)
               PROVE  /\ phase[clients[k]] = "idle"
                      /\ \/ clients[k] \in cancelled
                         \/ holder[clients[k]] = q /\ phase[q] = "parting" /\ ~GoneBy(q, k)'
    BY <1>1, <1>6 DEF Cut
  <2>1. q \in Shell \ {c}
    BY <1>1 DEF Past
  <2>. QED
    BY <1>4, <2>1 DEF ShutInv, Cut
<1>. QED
  BY <1>8, <1>9, <1>10, <1>11, <1>12 DEF Held

(* The walks after it are those of one shell.                              *)
LEMMA PartingHeld ==
  ASSUME ShutInv, NEW c \in Shell, Farewell(c) \/ Unlock(c) PROVE Held'
<1>1. /\ UNCHANGED <<clients, gone, late>> /\ cancelled \subseteq cancelled'
      /\ \A p \in Shell \ {c} : phase'[p] = phase[p]
      /\ phase[c] \in {"parting", "unlocking", "unlocked"}
      /\ phase'[c] \in {"parting", "unlocking", "unlocked", "ready"}
  BY DEF Farewell, Unlock, Turn, ShutInv, ShutTypeOK
<1>2. Past = {c}
  BY <1>1 DEF ShutInv, Alone, Past
<1>3. Past' = {c}
  BY <1>1, <1>2 DEF Past
<1>4. c \in Connected
  BY <1>1 DEF ShutInv, Linked
<1>5. \A q \in Shell \ {c} : place'[q] = place[q]
  BY <1>1, <1>4, MovesBy, BeginsAtHead DEF Farewell, Unlock, Turn, Move, Connected, ShutInv
<1>6. holder'[c] = holder[c] /\ (Farewell(c) => holder' = holder)
  BY DEF Farewell, Unlock, ShutInv, ShutTypeOK
<1>7. Own' /\ Locked'
  BY <1>3 DEF Own, Locked
<1>8. Alone'
  BY <1>2, <1>3, <1>6 DEF ShutInv, Alone
<1>9. Behind'
  <2> SUFFICES ASSUME NEW p \in Shell, phase'[p] = "locking"
               PROVE  \E j \in DOMAIN clients : clients[j] = c /\ ~GoneBy(p, j)'
    BY <1>1, <1>3 DEF Behind
  <2>1. p # c /\ phase[p] = "locking"
    BY <1>1
  <2>2. PICK j \in DOMAIN clients : clients[j] = c /\ ~GoneBy(p, j)
    BY <1>2, <2>1 DEF ShutInv, Behind
  <2>. QED
    BY <1>1, <1>5, <2>1, <2>2, SamePlace
<1>10. Cut'
  <2> SUFFICES ASSUME NEW k \in DOMAIN clients, Met(c, k)
               PROVE  /\ phase'[clients[k]] = "idle"
                      /\ \/ clients[k] \in cancelled'
                         \/ holder'[clients[k]] = c /\ phase'[c] = "parting" /\ ~GoneBy(c, k)'
    BY <1>1, <1>3, SameMet DEF Cut
  <2>1. clients[k] \in Shell /\ clients[k] # c /\ clients[k] \notin gone
    BY DEF ShutInv, ShutTypeOK, Met
  <2>2. phase'[clients[k]] = "idle"
    BY <1>1, <1>2, <2>1 DEF ShutInv, Cut
  <2>3. \/ clients[k] \in cancelled
        \/ holder[clients[k]] = c /\ phase[c] = "parting" /\ ~GoneBy(c, k)
    BY <1>2 DEF ShutInv, Cut
  <2>4. CASE clients[k] \in cancelled \/ Unlock(c)
    BY <1>1, <2>2, <2>3, <2>4 DEF Unlock
  <2>5. CASE Farewell(c) /\ Turn(c, "unlocking") /\ clients[k] \notin cancelled
    <3>1. GoneBy(c, k)
      BY <2>5, ShellAssumption DEF GoneBy, Turn, ShutInv, ShutTypeOK
    <3>. QED
      BY <3>1, <2>3, <2>5
  <2>6. CASE Farewell(c) /\ Move(c) /\ clients[k] \notin cancelled
    <3>1. PICK i \in DOMAIN clients :
            /\ clients[i] = place[c]
            /\ \A n \in DOMAIN clients :
                 (GoneBy(c, n) <=> n < i) /\ (GoneBy(c, n)' => n <= i \/ clients[n] \in gone)
      BY <1>1, <2>6, MovesBy DEF ShutInv, Move, Connected
    <3>2. k \in Nat /\ i \in Nat
      BY DEF ShutInv, ShutTypeOK
    <3>3. CASE k = i
      <4>1. place[c] \in cancelled'
        BY <2>1, <2>6, <3>1, <3>3, ShellAssumption DEF Farewell, Move, Turn
      <4>. QED
        BY <4>1, <2>2, <3>1, <3>3
    <3>4. CASE k # i
      <4>1. ~GoneBy(c, k)'
        BY <2>1, <2>3, <2>6, <3>1, <3>2, <3>4
      <4>2. QED
        <5>1. place[c] # Null
          BY <2>6, ShellAssumption DEF Move, Connected, Came, ShutInv, ShutTypeOK
        <5>2. phase[c] = "parting" /\ phase' = phase
          BY <2>6, <5>1 DEF Farewell, Turn
        <5>. QED
          BY <4>1, <5>2, <1>6, <2>2, <2>3, <2>6
    <3>. QED
      BY <3>3, <3>4
  <2>. QED
    BY <2>4, <2>5, <2>6 DEF Farewell
<1>. QED
  BY <1>7, <1>8, <1>9, <1>10 DEF Held

(* The invariant holds in every state of the command.                      *)
LEMMA ShutInvariant == ShutSpec => []ShutInv
<1>1. ShutInit => ShutInv
  <2> SUFFICES ASSUME ShutInit PROVE ShutInv
    OBVIOUS
  <2>1. ShutTypeOK /\ DOMAIN clients = {} /\ Past = {}
    BY DEF ShutInit, ShutTypeOK, Walk, Past
  <2>. QED
    BY <2>1 DEF ShutInit, ShutInv, ShutTypeOK, Linked, Own, Locked, Alone, Behind, Cut
<1>2. ShutInv /\ [ShutNext]_shutVars => ShutInv'
  <2> SUFFICES ASSUME ShutInv, [ShutNext]_shutVars PROVE ShutInv'
    OBVIOUS
  <2>1. ASSUME UNCHANGED <<clients, gone, holder, phase, place, cancelled, late>> PROVE ShutInv'
    <3>1. ShutTypeOK' /\ Linked'
      BY <2>1 DEF ShutInv, ShutTypeOK, Linked, Connected, Came
    <3>2. Past' = Past /\ \A p, k : (Met(p, k)' <=> Met(p, k)) /\ (GoneBy(p, k)' <=> GoneBy(p, k))
      BY <2>1 DEF Past, Met, GoneBy
    <3>3. Own' /\ Locked' /\ Alone'
      BY <2>1, <3>2 DEF ShutInv, Own, Locked, Alone
    <3>4. Behind' /\ Cut'
      BY <2>1, <3>2 DEF ShutInv, Behind, Cut
    <3>. QED
      BY <3>1, <3>3, <3>4 DEF ShutInv
  <2>2. ASSUME ShutNext PROVE ShutInv'
    <3>1. PICK c \in Shell : ClientStep(c) \/ Finish(c) \/ ShutdownStep(c) \/ UseFreed(c)
      BY <2>2 DEF ShutNext
    <3>2. ShutTypeOK' /\ Linked'
      BY <2>2, LinkedStep DEF ShutInv
    <3>3. CASE bif_shutdown(c)
      BY <2>1, <3>3 DEF bif_shutdown
    <3>4. CASE ~bif_shutdown(c)
      <4>1. Lock(c) => Held'
        BY LockedAll, TakeHeld, LockHeld DEF Lock
      <4>2. Held'
        BY <3>1, <3>4, <4>1, ConnectHeld, DepartHeld, CommandHeld, BeginHeld, PartingHeld, StrayHeld
           DEF ClientStep, ShutdownStep
      <4>. QED
        BY <3>2, <4>2 DEF Held, ShutInv
    <3>. QED
      BY <3>3, <3>4
  <2>. QED
    BY <2>1, <2>2 DEF shutVars
<1>. QED
  BY <1>1, <1>2, PTL DEF ShutSpec

(* However many superusers shut the server down at once, and whatever      *)
(* connections come and go, even under a walk that then uses freed memory, *)
(* only a thread without a command is cancelled, except on connections     *)
(* that came late.                                                         *)
THEOREM NoCommandCut == ShutSpec => CommandsNotCut
<1>1. ShutInv /\ [ShutNext]_shutVars
      => [\A c \in cancelled' \ cancelled : phase[c] = "idle" \/ c \in late]_cancelled
  <2> SUFFICES ASSUME ShutInv, [ShutNext]_shutVars, NEW c \in cancelled' \ cancelled
               PROVE  phase[c] = "idle" \/ c \in late
    OBVIOUS
  <2>1. PICK q \in Shell : \/ Farewell(q) /\ Move(q) /\ c = place[q] /\ c # q
                           \/ UseFreed(q) /\ c \in late
    BY DEF shutVars, ShutNext, ClientStep, ShutdownStep, Connect, Hangup, Command, Wait, Answered,
           Finish, cmd_exit, cmd_shutdown, Lock, Farewell, Unlock, bif_shutdown, UseFreed
  <2> SUFFICES ASSUME Farewell(q), Move(q), c = place[q], c # q
               PROVE  phase[c] = "idle" \/ c \in late
    BY <2>1
  <2>2. c \in Connected
    BY DEF Move
  <2>3. PICK i \in DOMAIN clients : clients[i] = c
    BY <2>2 DEF Connected, Came
  <2>4. Met(q, i) \/ c \in late
    BY <2>2, <2>3 DEF Met, Connected
  <2>5. q \in Past
    BY DEF Farewell, Past
  <2>. QED
    BY <2>3, <2>4, <2>5 DEF ShutInv, Cut
<1>. QED
  BY <1>1, ShutInvariant, PTL DEF ShutSpec, CommandsNotCut
=============================================================================
