----------------------------- MODULE PartsProofs ----------------------------
(***************************************************************************)
(* The parts that share no state with the ledger.  For any number of       *)
(* processes: one daemon at a time has the database, and a daemon that     *)
(* serves has created root.  For any number of shells and sessions: the    *)
(* unlocked list of sessions loses none, and an answer relayed is that of  *)
(* the command relayed, as long as none of three known interleavings       *)
(* happened.  For any number of crashes of dx: what commit and abort       *)
(* returned stays so.  For any number of shells, accounts and events: the  *)
(* list of clients that the event thread walks without its lock is whole,  *)
(* and every client that waits is told once.                               *)
(***************************************************************************)
EXTENDS Daemon, EventFeed, Sessions, TxLog, FiniteSetTheorems, SequenceTheorems, TLAPS

-----------------------------------------------------------------------------
(* The daemon                                                              *)

DaemonTypeOK ==
  /\ phase \in [Proc -> Phase]
  /\ pidfile \in Proc \cup {None} /\ lock \in Proc \cup {None}
  /\ rootRow \in BOOLEAN /\ stopping \in BOOLEAN
  /\ failed \subseteq Proc

(* Being in the database and having the lock are the same thing.           *)
LockIsServer == \A p \in Proc : InDatabase(p) <=> lock = p

(* The inductive invariant: the pid file is no part of the argument for    *)
(* OneServer, and says what it says only because every end of a process but*)
(* the orderly one is recorded in failed.                                  *)
DaemonInv == DaemonTypeOK /\ LockIsServer /\ PidFileExplained

(* A daemon that is about to accept connections has root, and nobody to    *)
(* take it away.                                                           *)
RootKept == \A p \in Proc : phase[p] = "ready" => rootRow

(* The initial state has no process, no lock and no pid file.              *)
LEMMA DaemonInvInit == DaemonInit => DaemonInv
BY NoneAssumption
DEF DaemonInit, DaemonInv, DaemonTypeOK, LockIsServer, PidFileExplained, InDatabase, Phase

(* Every step of barterd, barterd.stop and the kernel keeps the types.     *)
LEMMA DaemonTypeStep == DaemonInv /\ [DaemonNext]_daemonVars => DaemonTypeOK'
<1> SUFFICES ASSUME DaemonTypeOK, [DaemonNext]_daemonVars PROVE DaemonTypeOK'
  BY DEF DaemonInv
<1> USE DEF DaemonTypeOK, Phase, Go, Gone
<1>1. ASSUME NEW p \in Proc, Start(p) PROVE DaemonTypeOK'
  BY <1>1 DEF Start
<1>2. ASSUME NEW p \in Proc, TestPid(p) PROVE DaemonTypeOK'
  BY <1>2 DEF TestPid
<1>3. ASSUME NEW p \in Proc, WritePid(p) PROVE DaemonTypeOK'
  BY <1>3 DEF WritePid
<1>4. ASSUME NEW p \in Proc, db_init(p) PROVE DaemonTypeOK'
  BY <1>4 DEF db_init
<1>5. ASSUME NEW p \in Proc, CreateRoot(p) PROVE DaemonTypeOK'
  BY <1>5 DEF CreateRoot
<1>6. ASSUME NEW p \in Proc, RootDestroyed(p) PROVE DaemonTypeOK'
  BY <1>6 DEF RootDestroyed
<1>7. ASSUME NEW p \in Proc, death(p) PROVE DaemonTypeOK'
  BY <1>7 DEF death
<1>8. ASSUME NEW p \in Proc, db_exit(p) PROVE DaemonTypeOK'
  BY <1>8 DEF db_exit
<1>9. ASSUME NEW p \in Proc, Crash(p) PROVE DaemonTypeOK'
  BY <1>9 DEF Crash
<1>10. CASE StopKill
  BY <1>10 DEF StopKill
<1>11. CASE StopRemove
  BY <1>11 DEF StopRemove
<1>12. CASE UNCHANGED daemonVars
  BY <1>12 DEF daemonVars
<1>13. ASSUME NEW p \in Proc, Accept(p) PROVE DaemonTypeOK'
  BY <1>13 DEF Accept
<1>. QED
  BY <1>1, <1>2, <1>3, <1>4, <1>5, <1>6, <1>7, <1>8, <1>9, <1>10, <1>11, <1>12, <1>13
  DEF DaemonNext

(* Every step keeps the lock with the process that has the database, and   *)
(* the pid file naming a process that runs or that failed.                 *)
LEMMA DaemonStep ==
  DaemonInv /\ [DaemonNext]_daemonVars => LockIsServer' /\ PidFileExplained'
<1> SUFFICES ASSUME DaemonInv, [DaemonNext]_daemonVars
             PROVE  LockIsServer' /\ PidFileExplained'
  OBVIOUS
<1> DEFINE Goal == LockIsServer /\ PidFileExplained
<1> USE NoneAssumption
    DEF DaemonInv, DaemonTypeOK, LockIsServer, PidFileExplained, InDatabase, Phase, Go, Gone
<1>1. ASSUME NEW p \in Proc, Start(p) PROVE Goal'
  BY <1>1 DEF Start
<1>2. ASSUME NEW p \in Proc, TestPid(p) PROVE Goal'
  BY <1>2 DEF TestPid
<1>3. ASSUME NEW p \in Proc, WritePid(p) PROVE Goal'
  BY <1>3 DEF WritePid
<1>4. ASSUME NEW p \in Proc, db_init(p) PROVE Goal'
  BY <1>4 DEF db_init
<1>5. ASSUME NEW p \in Proc, CreateRoot(p) PROVE Goal'
  BY <1>5 DEF CreateRoot
<1>6. ASSUME NEW p \in Proc, RootDestroyed(p) PROVE Goal'
  BY <1>6 DEF RootDestroyed
<1>7. ASSUME NEW p \in Proc, death(p) PROVE Goal'
  BY <1>7 DEF death
<1>8. ASSUME NEW p \in Proc, db_exit(p) PROVE Goal'
  BY <1>8 DEF db_exit
<1>9. ASSUME NEW p \in Proc, Crash(p) PROVE Goal'
  BY <1>9 DEF Crash
<1>10. CASE StopKill
  BY <1>10 DEF StopKill
<1>11. CASE StopRemove
  BY <1>11 DEF StopRemove
<1>12. CASE UNCHANGED daemonVars
  BY <1>12 DEF daemonVars
<1>13. ASSUME NEW p \in Proc, Accept(p) PROVE Goal'
  BY <1>13 DEF Accept
<1>. QED
  BY <1>1, <1>2, <1>3, <1>4, <1>5, <1>6, <1>7, <1>8, <1>9, <1>10, <1>11, <1>12, <1>13
  DEF DaemonNext

(* The invariant holds of every behaviour of the daemons.                  *)
LEMMA DaemonInvariant == DaemonSpec => []DaemonInv
<1>1. DaemonInv /\ [DaemonNext]_daemonVars => DaemonInv'
  BY DaemonTypeStep, DaemonStep DEF DaemonInv
<1>. QED
  BY <1>1, DaemonInvInit, PTL DEF DaemonSpec

(* However many daemons are started at once, crash, or are stopped, at most*)
(* one has the database open (bom_db_init's flock, not write_pid).         *)
THEOREM OneServerAlways == DaemonSpec => []OneServer
<1>1. DaemonInv => OneServer
  BY DEF DaemonInv, LockIsServer, OneServer
<1>. QED
  BY <1>1, DaemonInvariant, PTL

(* The pid file that makes write_pid refuse names a process that runs or   *)
(* one that did not end by the command shutdown.                           *)
THEOREM PidFileAlwaysExplained == DaemonSpec => []PidFileExplained
BY DaemonInvariant, PTL DEF DaemonInv

(* Every step keeps root for a daemon that is about to accept connections: *)
(* what could destroy it is a daemon that serves, and there is one lock.   *)
LEMMA RootStep == DaemonInv /\ RootKept /\ [DaemonNext]_daemonVars => RootKept'
<1> SUFFICES ASSUME DaemonInv, RootKept, [DaemonNext]_daemonVars, NEW q \in Proc, phase'[q] = "ready"
             PROVE  rootRow'
  BY DEF RootKept
<1> USE DEF DaemonInv, DaemonTypeOK, RootKept, Go, Gone
<1>1. ASSUME NEW p \in Proc, CreateRoot(p) PROVE rootRow'
  BY <1>1 DEF CreateRoot
<1>2. ASSUME NEW p \in Proc, RootDestroyed(p) PROVE FALSE
  <2>1. phase[q] = "ready" /\ phase[p] = "serve"
    BY <1>2 DEF RootDestroyed
  <2>2. lock = q /\ lock = p
    BY <2>1 DEF LockIsServer, InDatabase
  <2>. QED
    BY <2>1, <2>2
<1>3. ASSUME NEW p \in Proc, Start(p) \/ TestPid(p) \/ WritePid(p) \/ db_init(p) PROVE rootRow'
  BY <1>3 DEF Start, TestPid, WritePid, db_init
<1>4. ASSUME NEW p \in Proc, Accept(p) \/ death(p) \/ db_exit(p) \/ Crash(p) PROVE rootRow'
  BY <1>4 DEF Accept, death, db_exit, Crash
<1>5. CASE StopKill \/ StopRemove
  BY <1>5 DEF StopKill, StopRemove
<1>6. CASE UNCHANGED daemonVars
  BY <1>6 DEF daemonVars
<1>. QED
  BY <1>1, <1>2, <1>3, <1>4, <1>5, <1>6 DEF DaemonNext

(* No daemon begins to accept connections without the root account: the    *)
(* transaction before the accept loop found or created it, and because of  *)
(* the one lock nobody has destroyed it since.                             *)
THEOREM RootFirst == DaemonSpec => RootBeforeClients
<1> DEFINE Begins == \A p \in Proc : phase[p] # "serve" /\ phase'[p] = "serve" => rootRow'
<1>1. DaemonInit => RootKept
  BY DEF DaemonInit, RootKept
<1>2. DaemonInv /\ RootKept /\ [DaemonNext]_daemonVars => [Begins]_daemonVars
  <2> SUFFICES ASSUME DaemonTypeOK, RootKept, DaemonNext, NEW q \in Proc,
                      phase[q] # "serve", phase'[q] = "serve"
               PROVE  rootRow'
    BY DEF DaemonInv
  <2> USE DEF DaemonTypeOK, Go, Gone
  <2>1. PICK p \in Proc : Accept(p)
    <3>1. \A p \in Proc : ~(Start(p) \/ TestPid(p) \/ WritePid(p) \/ db_init(p) \/ CreateRoot(p))
      BY DEF Start, TestPid, WritePid, db_init, CreateRoot
    <3>2. \A p \in Proc : ~(RootDestroyed(p) \/ death(p) \/ db_exit(p) \/ Crash(p))
      BY DEF RootDestroyed, death, db_exit, Crash
    <3>3. ~(StopKill \/ StopRemove)
      BY DEF StopKill, StopRemove
    <3>. QED
      BY <3>1, <3>2, <3>3 DEF DaemonNext
  <2>. QED
    BY <2>1 DEF Accept, RootKept
<1>. QED
  BY <1>1, <1>2, RootStep, DaemonInvariant, PTL DEF DaemonSpec, RootBeforeClients

-----------------------------------------------------------------------------
(* Sessions with other servers                                             *)

(* The types of the heap and of the connections.                           *)
Spot == Cell \cup {NULL}
Place == {"idle", "link", "prev", "connect", "read"}
Message == [kind : {"event", "answer", "end"}, n : Nat, before : Nat]

(* The shell has a session that no client knows of yet.                    *)
Connecting(s) == doing[s] \in {"link", "prev", "connect"}

HeapTypeOK ==
  /\ mem \in [Cell -> [live : BOOLEAN, next : Spot, prev : Spot, id : Nat]]
  /\ head \in Spot
  /\ ses \in [Client -> Spot] /\ making \in [Client -> Spot]
  /\ doing \in [Client -> Place]
  /\ \A s \in Client : Connecting(s) => making[s] \in Cell /\ mem[making[s]].id \in 1..made
  /\ made \in Nat /\ handed \subseteq 1..made
  /\ raced \in BOOLEAN /\ outOfOrder \in BOOLEAN /\ shared \in BOOLEAN
  /\ undefined \in BOOLEAN

WireTypeOK ==
  /\ wire \in [Cell -> [out : Seq(Nat), stream : Seq(Message), posted : Nat]]
  /\ messages \in [Cell -> Seq(Nat)]
  /\ waits \in [Client -> Nat] /\ issued \in Nat
  /\ relayed \in [Client -> [cmd : Nat, answer : Nat, events : Seq(Nat), before : Nat]]

(* A session on the heap has an id of its own.                             *)
IdsDistinct ==
  \A c \in Cell : mem[c].live =>
    /\ mem[c].id \in 1..made
    /\ \A d \in Cell : mem[d].live /\ mem[d].id = mem[c].id => c = d

(* The session that connect is making belongs to its shell alone, and no   *)
(* client knows of it.                                                     *)
SessionsMade ==
  \A s \in Client : Connecting(s) =>
    /\ mem[making[s]].live
    /\ mem[making[s]].id \notin handed
    /\ ses[s] = NULL
    /\ \A t \in Client : /\ ses[t] # making[s]
                         /\ Connecting(t) /\ making[t] = making[s] => s = t

(* A shell that is in a session is in one on the heap, which was announced. *)
SessionsHeld ==
  \A s \in Client :
    /\ ses[s] # NULL => mem[ses[s]].live /\ mem[ses[s]].id \in handed
    /\ doing[s] = "read" => ses[s] # NULL

Owned == IdsDistinct /\ (~shared => SessionsMade /\ SessionsHeld)

(* What delete does to the sessions that it does not delete.               *)
LEMMA Deleted ==
  ASSUME HeapTypeOK, NEW s \in Client, NEW c \in Cell, Delete(s, c)
  PROVE  /\ mem' \in [Cell -> [live : BOOLEAN, next : Spot, prev : Spot, id : Nat]]
         /\ \A d \in Cell : /\ mem'[d].id = mem[d].id
                            /\ mem'[d].live = (mem[d].live /\ d # c)
         /\ head' \in Spot /\ undefined' \in BOOLEAN /\ outOfOrder' \in BOOLEAN
         /\ shared' \in BOOLEAN /\ raced' \in BOOLEAN
<1> DEFINE p == mem[c].prev
           n == mem[c].next
           linked == [mem EXCEPT ![c].live = FALSE]
           skipped == IF p = NULL THEN linked ELSE [linked EXCEPT ![p].next = n]
<1>1. p \in Spot /\ n \in Spot
  BY DEF HeapTypeOK, Spot
<1>2. /\ linked \in [Cell -> [live : BOOLEAN, next : Spot, prev : Spot, id : Nat]]
      /\ \A d \in Cell : /\ linked[d].id = mem[d].id
                         /\ linked[d].live = (mem[d].live /\ d # c)
  BY DEF HeapTypeOK
<1> HIDE DEF linked, p, n
<1>3. /\ skipped \in [Cell -> [live : BOOLEAN, next : Spot, prev : Spot, id : Nat]]
      /\ \A d \in Cell : /\ skipped[d].id = linked[d].id
                         /\ skipped[d].live = linked[d].live
  BY <1>1, <1>2 DEF Spot
<1> HIDE DEF skipped
<1>4. mem' = (IF n = NULL \/ ~Live(n) THEN skipped ELSE [skipped EXCEPT ![n].prev = p])
  BY DEF Delete, skipped, linked, p, n
<1>5. /\ mem' \in [Cell -> [live : BOOLEAN, next : Spot, prev : Spot, id : Nat]]
      /\ \A d \in Cell : /\ mem'[d].id = skipped[d].id
                         /\ mem'[d].live = skipped[d].live
  BY <1>1, <1>3, <1>4 DEF Spot
<1>6. head' = head \/ head' = n
  BY DEF Delete, n
<1>7. /\ undefined' = (n # NULL /\ ~Live(n))
      /\ outOfOrder' = (outOfOrder \/ head # c)
      /\ shared' = (shared \/ Others(s, c) # {})
      /\ raced' = raced
  BY DEF Delete, n
<1>8. \A d \in Cell : /\ mem'[d].id = mem[d].id
                     /\ mem'[d].live = (mem[d].live /\ d # c)
  BY <1>2, <1>3, <1>5
<1>9. head' \in Spot
  BY <1>1, <1>6 DEF HeapTypeOK
<1>10. undefined' \in BOOLEAN /\ outOfOrder' \in BOOLEAN /\ shared' \in BOOLEAN /\ raced' \in BOOLEAN
  BY <1>7 DEF HeapTypeOK
<1>. QED
  BY <1>5, <1>8, <1>9, <1>10

(* What link does to the sessions when it sets the prev of one.            *)
LEMMA PrevSet ==
  ASSUME HeapTypeOK, NEW s \in Client, link_prev(s)
  PROVE  /\ mem' \in [Cell -> [live : BOOLEAN, next : Spot, prev : Spot, id : Nat]]
         /\ \A d \in Cell : mem'[d].id = mem[d].id /\ mem'[d].live = mem[d].live
         /\ making[s] \in Cell /\ raced' \in BOOLEAN /\ undefined' \in BOOLEAN
         /\ doing[s] = "prev" /\ doing' = [doing EXCEPT ![s] = "connect"]
         /\ UNCHANGED <<head, ses, making, handed, made, wire, messages, waits, relayed, issued,
                        outOfOrder, shared>>
<1> DEFINE Heap == [Cell -> [live : BOOLEAN, next : Spot, prev : Spot, id : Nat]]
           set == IF head = NULL THEN mem ELSE [mem EXCEPT ![head].prev = making[s]]
<1>1. /\ making[s] \in Cell /\ doing[s] = "prev" /\ doing' = [doing EXCEPT ![s] = "connect"]
      /\ UNCHANGED <<head, ses, making, handed, made, wire, messages, waits, relayed, issued,
                     outOfOrder, shared>>
  BY DEF link_prev, HeapTypeOK, Connecting
<1>2. set \in Heap /\ \A d \in Cell : set[d].id = mem[d].id /\ set[d].live = mem[d].live
  <2>1. CASE head = NULL
    BY <2>1 DEF HeapTypeOK
  <2>2. CASE head # NULL
    <3>1. head \in Cell /\ set = [mem EXCEPT ![head].prev = making[s]]
      BY <2>2 DEF HeapTypeOK, Spot
    <3> HIDE DEF set
    <3>. QED
      BY <1>1, <3>1 DEF HeapTypeOK, Spot
  <2>. QED
    BY <2>1, <2>2
<1>3. mem' = [set EXCEPT ![making[s]].prev = NULL]
  BY DEF link_prev
<1> HIDE DEF set
<1>4. mem' \in Heap /\ \A d \in Cell : mem'[d].id = mem[d].id /\ mem'[d].live = mem[d].live
  BY <1>1, <1>2, <1>3 DEF Spot
<1>5. raced' \in BOOLEAN /\ undefined' \in BOOLEAN
  BY DEF link_prev, HeapTypeOK
<1>. QED
  BY <1>1, <1>4, <1>5

(* Nothing is on the heap or on a wire in the beginning.                   *)
LEMMA SessionsTypeInit == SessionsInit => HeapTypeOK /\ WireTypeOK /\ Owned
<1> SUFFICES ASSUME SessionsInit PROVE HeapTypeOK /\ WireTypeOK /\ Owned
  OBVIOUS
<1>1. HeapTypeOK
  BY DEF SessionsInit, HeapTypeOK, Spot, Place, Connecting
<1>2. WireTypeOK
  BY DEF SessionsInit, WireTypeOK, Fresh, Silent
<1>3. Owned
  BY DEF SessionsInit, Owned, IdsDistinct, SessionsMade, SessionsHeld, Connecting
<1>. QED
  BY <1>1, <1>2, <1>3

(* Every step keeps the types of the heap, and a session that a shell is   *)
(* making is a cell with an id that was given.                             *)
LEMMA HeapTypeStep ==
  ASSUME HeapTypeOK, [SessionsNext]_sessionVars
  PROVE  HeapTypeOK'
<1>1. ASSUME NEW s \in Client, New(s) PROVE HeapTypeOK'
  <2>1. PICK c \in Cell :
          /\ mem' = [mem EXCEPT ![c] = [live |-> TRUE, next |-> head, prev |-> NULL,
                                        id |-> made + 1]]
          /\ making' = [making EXCEPT ![s] = c]
    BY <1>1 DEF New
  <2>2. /\ mem' \in [Cell -> [live : BOOLEAN, next : Spot, prev : Spot, id : Nat]]
        /\ making' \in [Client -> Spot]
    BY <2>1 DEF HeapTypeOK, Spot
  <2>3. doing' \in [Client -> Place] /\ made' \in Nat /\ handed' \subseteq 1..made'
    BY <1>1 DEF New, HeapTypeOK, Place
  <2>4. ASSUME NEW t \in Client, Connecting(t)'
        PROVE  (making[t])' \in Cell /\ (mem[making[t]].id)' \in 1..made'
    <3>1. CASE t = s
      BY <1>1, <2>1, <3>1 DEF New, HeapTypeOK
    <3>2. CASE t # s
      <4>1. Connecting(t) /\ making'[t] = making[t]
        BY <1>1, <2>1, <2>4, <3>2 DEF New, HeapTypeOK, Connecting
      <4>2. making[t] \in Cell /\ mem[making[t]].id \in 1..made
        BY <4>1 DEF HeapTypeOK
      <4>. QED
        BY <1>1, <2>1, <4>1, <4>2 DEF New, HeapTypeOK
    <3>. QED
      BY <3>1, <3>2
  <2>. QED
    BY <1>1, <2>2, <2>3, <2>4 DEF New, HeapTypeOK
<1>2. ASSUME NEW s \in Client, link_session(s) PROVE HeapTypeOK'
  <2>1. /\ making[s] \in Cell /\ head' = making[s] /\ raced' \in BOOLEAN
        /\ doing[s] = "link" /\ doing' = [doing EXCEPT ![s] = "prev"]
        /\ UNCHANGED <<mem, ses, making, handed, made, outOfOrder, shared, undefined>>
    BY <1>2 DEF link_session, HeapTypeOK, Connecting
  <2>2. doing' \in [Client -> Place] /\ head' \in Spot
    BY <2>1 DEF HeapTypeOK, Spot, Place
  <2>3. \A t \in Client : Connecting(t)' => Connecting(t)
    BY <2>1 DEF HeapTypeOK, Connecting
  <2>. QED
    BY <2>1, <2>2, <2>3 DEF HeapTypeOK
<1>p. ASSUME NEW s \in Client, link_prev(s) PROVE HeapTypeOK'
  <2>1. doing' \in [Client -> Place]
    BY <1>p, PrevSet DEF HeapTypeOK, Place
  <2>2. \A t \in Client : Connecting(t)' => Connecting(t)
    BY <1>p, PrevSet DEF HeapTypeOK, Connecting
  <2>. QED
    BY <1>p, <2>1, <2>2, PrevSet DEF HeapTypeOK
<1>3. ASSUME NEW s \in Client, cmd_connect(s) PROVE HeapTypeOK'
  <2>1. making[s] \in Cell /\ mem[making[s]].id \in 1..made
    BY <1>3 DEF cmd_connect, HeapTypeOK, Connecting
  <2>2. /\ doing' \in [Client -> Place] /\ making' \in [Client -> Spot]
        /\ \A t \in Client : Connecting(t)' => Connecting(t) /\ making'[t] = making[t]
    BY <1>3 DEF cmd_connect, HeapTypeOK, Connecting, Place, Spot
  <2>3. CASE Delete(s, making[s]) /\ UNCHANGED <<ses, handed>>
    <3>1. \A c \in Cell : mem'[c].id = mem[c].id
      BY <2>1, <2>3, Deleted
    <3>. QED
      BY <1>3, <2>1, <2>2, <2>3, <3>1, Deleted DEF cmd_connect, HeapTypeOK
  <2>4. CASE /\ ses' = [ses EXCEPT ![s] = making[s]]
             /\ handed' = handed \cup {mem[making[s]].id}
             /\ UNCHANGED <<mem, head, raced, outOfOrder, shared, undefined>>
    BY <1>3, <2>1, <2>2, <2>4 DEF cmd_connect, HeapTypeOK, Spot
  <2>. QED
    BY <1>3, <2>3, <2>4 DEF cmd_connect
<1>4. ASSUME NEW s \in Client, cmd_reconnect(s) PROVE HeapTypeOK'
  <2>1. ses' \in [Client -> Spot] /\ undefined' \in BOOLEAN
    BY <1>4 DEF cmd_reconnect, HeapTypeOK, Spot
  <2>. QED
    BY <1>4, <2>1 DEF cmd_reconnect, HeapTypeOK, Connecting
<1>5. ASSUME NEW s \in Client, cmd_disconnect(s) PROVE HeapTypeOK'
  <2>1. ses[s] \in Cell
    BY <1>5 DEF cmd_disconnect, Live, HeapTypeOK, Spot
  <2>2. ses' \in [Client -> Spot] /\ Delete(s, ses[s])
    BY <1>5 DEF cmd_disconnect, HeapTypeOK, Spot
  <2>3. \A c \in Cell : mem'[c].id = mem[c].id
    BY <2>1, <2>2, Deleted
  <2>. QED
    BY <1>5, <2>1, <2>2, <2>3, Deleted DEF cmd_disconnect, HeapTypeOK, Connecting
<1>6. ASSUME NEW s \in Client, Quit(s) PROVE HeapTypeOK'
  BY <1>6 DEF Quit, HeapTypeOK, Connecting, Spot
<1>7. ASSUME NEW s \in Client, Relay(s) PROVE HeapTypeOK'
  BY <1>7 DEF Relay, HeapTypeOK, Connecting, Place
<1>8. ASSUME NEW s \in Client, read_message(s) PROVE HeapTypeOK'
  <2>1. ses[s] \in Cell
    BY <1>8 DEF read_message, Live, HeapTypeOK, Spot
  <2>2. CASE UNCHANGED <<mem, head, ses, raced, outOfOrder, shared, undefined>>
    <3>1. doing' \in [Client -> Place] /\ \A t \in Client : Connecting(t)' => Connecting(t)
      BY <1>8 DEF read_message, HeapTypeOK, Connecting, Place
    <3>. QED
      BY <1>8, <2>2, <3>1 DEF read_message, HeapTypeOK
  <2>3. CASE /\ ses' = [ses EXCEPT ![s] = NULL] /\ Delete(s, ses[s])
             /\ doing' = [doing EXCEPT ![s] = "idle"]
    <3>1. /\ ses' \in [Client -> Spot] /\ doing' \in [Client -> Place]
          /\ \A t \in Client : Connecting(t)' => Connecting(t)
      BY <2>3 DEF HeapTypeOK, Connecting, Place, Spot
    <3>2. \A c \in Cell : mem'[c].id = mem[c].id
      BY <2>1, <2>3, Deleted
    <3>. QED
      BY <1>8, <2>1, <2>3, <3>1, <3>2, Deleted DEF read_message, HeapTypeOK
  <2>. QED
    BY <1>8, <2>2, <2>3 DEF read_message
<1>9. ASSUME NEW s \in Client, UseFreed(s) PROVE HeapTypeOK'
  BY <1>9 DEF UseFreed, HeapTypeOK, Connecting
<1>10. ASSUME NEW c \in Cell, Remote(c) PROVE HeapTypeOK'
  BY <1>10 DEF Remote, HeapTypeOK, Connecting
<1>11. ASSUME UNCHANGED sessionVars PROVE HeapTypeOK'
  BY <1>11 DEF sessionVars, HeapTypeOK, Connecting
<1>. QED
  BY <1>1, <1>2, <1>p, <1>3, <1>4, <1>5, <1>6, <1>7, <1>8, <1>9, <1>10, <1>11 DEF SessionsNext

(* Every step keeps the types of commands, messages and answers.           *)
LEMMA WireTypeStep ==
  ASSUME HeapTypeOK, WireTypeOK, [SessionsNext]_sessionVars
  PROVE  WireTypeOK'
<1> DEFINE Line == [out : Seq(Nat), stream : Seq(Message), posted : Nat]
<1>1. ASSUME NEW s \in Client, New(s) PROVE WireTypeOK'
  <2>1. Fresh \in Line
    BY DEF Fresh
  <2>2. PICK c \in Cell : wire' = [wire EXCEPT ![c] = Fresh]
                          /\ messages' = [messages EXCEPT ![c] = <<>>]
    BY <1>1 DEF New
  <2>3. wire' \in [Cell -> Line] /\ messages' \in [Cell -> Seq(Nat)]
    BY <2>1, <2>2 DEF WireTypeOK
  <2>. QED
    BY <1>1, <2>3 DEF New, WireTypeOK
<1>2. ASSUME NEW s \in Client,
             link_session(s) \/ link_prev(s) \/ cmd_connect(s) \/ cmd_reconnect(s) \/ cmd_disconnect(s)
             \/ UseFreed(s)
      PROVE  WireTypeOK'
  <2>1. UNCHANGED <<wire, messages, waits, issued, relayed>>
    BY <1>2 DEF link_session, link_prev, cmd_connect, cmd_reconnect, cmd_disconnect, UseFreed
  <2>. QED
    BY <2>1 DEF WireTypeOK
<1>3. ASSUME NEW s \in Client, Quit(s) PROVE WireTypeOK'
  <2>1. relayed' = [relayed EXCEPT ![s] = Silent] /\ UNCHANGED <<wire, messages, waits, issued>>
    BY <1>3 DEF Quit
  <2>2. Silent \in [cmd : Nat, answer : Nat, events : Seq(Nat), before : Nat]
    BY DEF Silent
  <2>. QED
    BY <2>1, <2>2 DEF WireTypeOK
<1>4. ASSUME NEW s \in Client, Relay(s) PROVE WireTypeOK'
  <2>1. PICK c \in Cell : c = ses[s]
    BY <1>4 DEF Relay, Live, HeapTypeOK, Spot
  <2>2. wire[c].out \in Seq(Nat) /\ issued + 1 \in Nat
    BY DEF WireTypeOK
  <2>3. PICK o \in Seq(Nat) : o = Append(wire[c].out, issued + 1)
    <3>1. Append(wire[c].out, issued + 1) \in Seq(Nat)
      BY <2>2
    <3>. QED
      BY <3>1
  <2>4. wire' = [wire EXCEPT ![c].out = o]
    BY <1>4, <2>1, <2>3 DEF Relay
  <2>5. wire' \in [Cell -> Line]
    BY <2>4, <2>3 DEF WireTypeOK
  <2>. QED
    BY <1>4, <2>2, <2>5 DEF Relay, WireTypeOK
<1>5. ASSUME NEW s \in Client, read_message(s) PROVE WireTypeOK'
  <2>1. PICK c \in Cell : c = ses[s]
    BY <1>5 DEF read_message, Live, HeapTypeOK, Spot
  <2>2. /\ wire[c].stream \in Seq(Message) /\ wire[c].stream # <<>>
        /\ messages[c] \in Seq(Nat)
    BY <1>5, <2>1 DEF read_message, WireTypeOK
  <2>3. Head(wire[c].stream) \in Message /\ Tail(wire[c].stream) \in Seq(Message)
    BY <2>2
  <2>4. PICK m \in Message, r \in Seq(Message) :
          m = Head(wire[c].stream) /\ r = Tail(wire[c].stream)
    BY <2>3
  <2>5. CASE m.kind = "event"
    <3>1. /\ wire' = [wire EXCEPT ![c].stream = r]
          /\ messages' = [messages EXCEPT ![c] = <<m.n>> \o messages[c]]
          /\ UNCHANGED <<relayed, waits, issued>>
      BY <1>5, <2>1, <2>4, <2>5 DEF read_message, WireTypeOK
    <3>2. <<m.n>> \o messages[c] \in Seq(Nat)
      BY <2>2 DEF Message
    <3>3. wire' \in [Cell -> Line]
      BY <3>1 DEF WireTypeOK
    <3>. QED
      BY <3>1, <3>2, <3>3 DEF WireTypeOK
  <2>6. CASE m.kind = "answer"
    <3>1. /\ wire' = [wire EXCEPT ![c].stream = r]
          /\ relayed' = [relayed EXCEPT ![s] = [cmd |-> waits[s], answer |-> m.n,
                                                events |-> messages[c], before |-> m.before]]
          /\ UNCHANGED <<messages, waits, issued>>
      BY <1>5, <2>1, <2>4, <2>6 DEF read_message
    <3>2. wire' \in [Cell -> Line]
      BY <3>1 DEF WireTypeOK
    <3>3. relayed' \in [Client -> [cmd : Nat, answer : Nat, events : Seq(Nat), before : Nat]]
      BY <2>2, <3>1 DEF WireTypeOK, Message
    <3>. QED
      BY <3>1, <3>2, <3>3 DEF WireTypeOK
  <2>7. CASE m.kind = "end"
    <3>1. /\ relayed' = [relayed EXCEPT ![s] = Silent]
          /\ UNCHANGED <<wire, messages, waits, issued>>
      BY <1>5, <2>1, <2>4, <2>7 DEF read_message, wireVars
    <3>2. Silent \in [cmd : Nat, answer : Nat, events : Seq(Nat), before : Nat]
      BY DEF Silent
    <3>. QED
      BY <3>1, <3>2 DEF WireTypeOK
  <2>. QED
    BY <2>5, <2>6, <2>7 DEF Message
<1>6. ASSUME NEW c \in Cell, Remote(c) PROVE WireTypeOK'
  <2>1. /\ wire[c].out \in Seq(Nat) /\ wire[c].stream \in Seq(Message)
        /\ wire[c].posted \in Nat
    BY DEF WireTypeOK
  <2>2. CASE /\ wire[c].out # <<>>
             /\ wire' = [wire EXCEPT ![c].out = Tail(@),
                           ![c].stream = Append(@, Answer(Head(wire[c].out), wire[c].posted))]
    <3>1. Head(wire[c].out) \in Nat /\ Tail(wire[c].out) \in Seq(Nat)
      BY SMTT(30), <2>1, <2>2
    <3>2. Answer(Head(wire[c].out), wire[c].posted) \in Message
      BY <2>1, <3>1 DEF Answer, Message
    <3>3. Append(wire[c].stream, Answer(Head(wire[c].out), wire[c].posted)) \in Seq(Message)
      BY <2>1, <3>2
    <3>4. PICK o \in Seq(Nat), q \in Seq(Message) :
            wire' = [wire EXCEPT ![c].out = o, ![c].stream = q]
      BY <2>2, <3>1, <3>3 DEF WireTypeOK
    <3>5. wire' \in [Cell -> Line]
      BY <3>4 DEF WireTypeOK
    <3>. QED
      BY <1>6, <3>5 DEF Remote, WireTypeOK
  <2>3. CASE wire' = [wire EXCEPT ![c].posted = @ + 1,
                                  ![c].stream = Append(@, Event(wire[c].posted + 1))]
    <3>1. Event(wire[c].posted + 1) \in Message
      BY <2>1 DEF Event, Message
    <3>2. Append(wire[c].stream, Event(wire[c].posted + 1)) \in Seq(Message)
      BY <2>1, <3>1
    <3>3. PICK k \in Nat, q \in Seq(Message) :
            wire' = [wire EXCEPT ![c].posted = k, ![c].stream = q]
      <4>1. wire[c].posted + 1 \in Nat
        BY <2>1
      <4>. QED
        BY <2>3, <3>2, <4>1 DEF WireTypeOK
    <3>4. wire' \in [Cell -> Line]
      BY <3>3 DEF WireTypeOK
    <3>. QED
      BY <1>6, <3>4 DEF Remote, WireTypeOK
  <2>4. CASE wire' = [wire EXCEPT ![c].stream = Append(@, End)]
    <3>1. End \in Message
      BY DEF End, Message
    <3>2. Append(wire[c].stream, End) \in Seq(Message)
      BY <2>1, <3>1
    <3>3. PICK q \in Seq(Message) : wire' = [wire EXCEPT ![c].stream = q]
      BY <2>4, <3>2
    <3>4. wire' \in [Cell -> Line]
      BY <3>3 DEF WireTypeOK
    <3>. QED
      BY <1>6, <3>4 DEF Remote, WireTypeOK
  <2>. QED
    BY <1>6, <2>2, <2>3, <2>4 DEF Remote
<1>7. ASSUME UNCHANGED sessionVars PROVE WireTypeOK'
  BY <1>7 DEF sessionVars, WireTypeOK
<1>. QED
  BY <1>1, <1>2, <1>3, <1>4, <1>5, <1>6, <1>7 DEF SessionsNext

(* A shell that deletes a session that no other shell has, and has none    *)
(* then.                                                                   *)
LEMMA DeletedOwned ==
  ASSUME HeapTypeOK, Owned, NEW s \in Client, NEW c \in Cell, Delete(s, c),
         \/ Connecting(s) /\ making[s] = c /\ ses' = ses
         \/ ses[s] = c /\ ses' = [ses EXCEPT ![s] = NULL],
         ~shared => \A t \in Client : Connecting(t)' => Connecting(t) /\ making'[t] = making[t] /\ t # s,
         \A t \in Client : doing'[t] = "read" => doing[t] = "read" /\ t # s,
         UNCHANGED <<handed, made>>
  PROVE  Owned'
<1>1. /\ \A d \in Cell : mem'[d].id = mem[d].id /\ mem'[d].live = (mem[d].live /\ d # c)
      /\ shared' = (shared \/ Others(s, c) # {})
  BY ZenonT(40), Deleted DEF Delete
<1>2. IdsDistinct'
  BY <1>1 DEF Owned, IdsDistinct
<1>3. ASSUME ~shared' PROVE SessionsMade' /\ SessionsHeld'
  <2>1. SessionsMade /\ SessionsHeld /\ \A t \in Client \ {s} : ses[t] # c
    BY <1>1, <1>3 DEF Owned, Others
  <2>2. \A t \in Client : Connecting(t)' => Connecting(t) /\ making'[t] = making[t] /\ t # s
    BY <1>1, <1>3
  <2>3. \A t \in Client : Connecting(t) /\ t # s => making[t] # c
    BY <2>1 DEF SessionsMade
  <2>4. \A t \in Client : ses'[t] = NULL \/ (ses'[t] = ses[t] /\ ses[t] # c)
    <3>1. CASE Connecting(s) /\ making[s] = c /\ ses' = ses
      BY <2>1, <3>1 DEF SessionsMade
    <3>2. CASE ses[s] = c /\ ses' = [ses EXCEPT ![s] = NULL]
      <4>1. \A t \in Client : ses'[t] = IF t = s THEN NULL ELSE ses[t]
        BY <3>2 DEF HeapTypeOK
      <4>. QED
        BY <2>1, <4>1
    <3>. QED
      BY <3>1, <3>2
  <2>5. SessionsMade'
    <3> SUFFICES ASSUME NEW t \in Client, Connecting(t)'
                 PROVE  /\ (mem[making[t]].live)' /\ (mem[making[t]].id \notin handed)'
                        /\ ses'[t] = NULL
                        /\ \A u \in Client : /\ ses'[u] # making'[t]
                                             /\ Connecting(u)' /\ making'[u] = making'[t] => t = u
      BY DEF SessionsMade
    <3>1. /\ Connecting(t) /\ making'[t] = making[t] /\ t # s /\ making[t] # c
          /\ making[t] \in Cell
      BY <2>2, <2>3 DEF HeapTypeOK
    <3>2. /\ mem[making[t]].live /\ mem[making[t]].id \notin handed /\ ses[t] = NULL
          /\ \A u \in Client : /\ ses[u] # making[t]
                               /\ Connecting(u) /\ making[u] = making[t] => t = u
      BY <2>1, <3>1 DEF SessionsMade
    <3>3. making[t] # NULL
      BY <3>1, CellAssumption
    <3>4. (mem[making[t]].live)' /\ (mem[making[t]].id \notin handed)' /\ ses'[t] = NULL
      <4>1. mem'[making[t]].id = mem[making[t]].id /\ mem'[making[t]].live = mem[making[t]].live
        BY <1>1, <3>1, <3>2
      <4>2. ses'[t] = NULL
        BY <2>4, <3>2
      <4>. QED
        BY <3>1, <3>2, <4>1, <4>2
    <3>5. \A u \in Client : ses'[u] # making'[t]
      BY <2>4, <3>1, <3>2, <3>3
    <3>6. \A u \in Client : Connecting(u)' /\ making'[u] = making'[t] => t = u
      BY <2>2, <3>1, <3>2
    <3>. QED
      BY <3>4, <3>5, <3>6
  <2>6. SessionsHeld'
    <3>1. \A t \in Client : ses'[t] # NULL => ses[t] \in Cell \ {c} /\ ses'[t] = ses[t]
      BY <2>4 DEF HeapTypeOK, Spot
    <3>2. \A t \in Client : doing'[t] = "read" => ses'[t] # NULL
      <4> SUFFICES ASSUME NEW t \in Client, doing'[t] = "read" PROVE ses'[t] # NULL
        OBVIOUS
      <4>1. t # s /\ ses[t] # NULL
        BY <2>1 DEF SessionsHeld
      <4>. QED
        BY <4>1 DEF HeapTypeOK
    <3>. QED
      BY ZenonT(40), <1>1, <2>1, <3>1, <3>2 DEF SessionsHeld
  <2>. QED
    BY <2>5, <2>6
<1>. QED
  BY <1>2, <1>3 DEF Owned

(* Every step keeps ids distinct, and the sessions that shells make or hold *)
(* alive and theirs, until one shell deletes what another holds.           *)
LEMMA OwnedStep ==
  ASSUME HeapTypeOK, Owned, [SessionsNext]_sessionVars
  PROVE  Owned'
<1> USE DEF Connecting
<1>1. ASSUME NEW s \in Client, New(s) PROVE Owned'
  <2>1. PICK c \in Cell :
          /\ ~mem[c].live
          /\ mem' = [mem EXCEPT ![c] = [live |-> TRUE, next |-> head, prev |-> NULL,
                                        id |-> made + 1]]
          /\ making' = [making EXCEPT ![s] = c]
    BY <1>1 DEF New
  <2>2. /\ mem'[c].live /\ mem'[c].id = made + 1
        /\ \A d \in Cell \ {c} : mem'[d] = mem[d]
        /\ made' = made + 1 /\ made \in Nat
    BY <1>1, <2>1 DEF New, HeapTypeOK
  <2>3. IdsDistinct'
    BY <2>2 DEF Owned, IdsDistinct
  <2>4. ASSUME ~shared' PROVE SessionsMade'
    <3>1. SessionsMade /\ SessionsHeld
      BY <1>1, <2>4 DEF New, Owned
    <3>2. /\ UNCHANGED <<ses, handed>>
          /\ ses[s] = NULL /\ doing' = [doing EXCEPT ![s] = "link"]
          /\ made + 1 \notin handed
      BY <1>1 DEF New, HeapTypeOK
    <3>3. \A t \in Client : t # s => (Connecting(t)' <=> Connecting(t)) /\ making'[t] = making[t]
      BY <2>1, <3>2 DEF HeapTypeOK
    <3>4. \A t \in Client : t # s /\ Connecting(t) => making[t] \in Cell \ {c}
      BY <2>1, <3>1 DEF SessionsMade, HeapTypeOK
    <3>5. \A t \in Client : ses[t] # c
      BY <2>1, <3>1, CellAssumption DEF SessionsHeld
    <3>6. making'[s] = c
      BY <2>1 DEF HeapTypeOK
    <3>. QED
      BY <2>2, <3>1, <3>2, <3>3, <3>4, <3>5, <3>6 DEF SessionsMade
  <2>5. ASSUME ~shared' PROVE SessionsHeld'
    <3>1. SessionsHeld
      BY <1>1, <2>5 DEF New, Owned
    <3>2. UNCHANGED <<ses, handed>> /\ doing' = [doing EXCEPT ![s] = "link"]
      BY <1>1 DEF New
    <3>3. \A t \in Client : ses[t] # NULL => ses[t] \in Cell \ {c}
      BY <2>1, <3>1 DEF SessionsHeld, HeapTypeOK, Spot
    <3>. QED
      BY <2>2, <3>1, <3>2, <3>3 DEF SessionsHeld, HeapTypeOK
  <2>. QED
    BY <2>3, <2>4, <2>5 DEF Owned
<1>2. ASSUME NEW s \in Client, link_session(s) PROVE Owned'
  <2>1. /\ \A d \in Cell : mem'[d].live = mem[d].live /\ mem'[d].id = mem[d].id
        /\ UNCHANGED <<ses, making, handed, made, shared>>
        /\ doing[s] = "link" /\ doing' = [doing EXCEPT ![s] = "prev"]
    BY <1>2 DEF link_session, HeapTypeOK
  <2>2. \A t \in Client : /\ Connecting(t)' <=> Connecting(t)
                          /\ doing'[t] = "read" <=> doing[t] = "read"
    BY <2>1 DEF HeapTypeOK
  <2>3. IdsDistinct'
    BY <2>1 DEF Owned, IdsDistinct
  <2>4. SessionsMade => SessionsMade'
    BY <2>1, <2>2 DEF SessionsMade, HeapTypeOK
  <2>5. SessionsHeld => SessionsHeld'
    BY <2>1, <2>2 DEF SessionsHeld, HeapTypeOK, Spot
  <2>. QED
    BY <2>1, <2>3, <2>4, <2>5 DEF Owned
<1>p. ASSUME NEW s \in Client, link_prev(s) PROVE Owned'
  <2>1. \A t \in Client : /\ Connecting(t)' <=> Connecting(t)
                          /\ doing'[t] = "read" <=> doing[t] = "read"
    BY <1>p, PrevSet DEF HeapTypeOK
  <2>2. /\ \A d \in Cell : mem'[d].live = mem[d].live /\ mem'[d].id = mem[d].id
        /\ UNCHANGED <<ses, making, handed, made, shared>>
    BY <1>p, PrevSet
  <2>3. IdsDistinct'
    BY <2>2 DEF Owned, IdsDistinct
  <2>4. SessionsMade => SessionsMade'
    BY <2>1, <2>2 DEF SessionsMade, HeapTypeOK
  <2>5. SessionsHeld => SessionsHeld'
    BY <2>1, <2>2 DEF SessionsHeld, HeapTypeOK, Spot
  <2>. QED
    BY <2>2, <2>3, <2>4, <2>5 DEF Owned
<1>3. ASSUME NEW s \in Client, cmd_connect(s) PROVE Owned'
  <2>1. /\ making[s] \in Cell /\ doing[s] = "connect"
        /\ doing' = [doing EXCEPT ![s] = "idle"] /\ making' = [making EXCEPT ![s] = NULL]
        /\ made' = made
    BY <1>3 DEF cmd_connect, HeapTypeOK
  <2>2. \A t \in Client : /\ Connecting(t)' => Connecting(t) /\ making'[t] = making[t] /\ t # s
                          /\ doing'[t] = "read" => doing[t] = "read" /\ t # s
    BY <2>1 DEF HeapTypeOK
  <2>3. CASE Delete(s, making[s]) /\ UNCHANGED <<ses, handed>>
    BY <2>1, <2>2, <2>3, DeletedOwned
  <2>4. CASE /\ ses' = [ses EXCEPT ![s] = making[s]]
             /\ handed' = handed \cup {mem[making[s]].id}
             /\ UNCHANGED <<mem, head, raced, outOfOrder, shared, undefined>>
    <3>1. IdsDistinct'
      BY <2>1, <2>4 DEF Owned, IdsDistinct
    <3>2. ASSUME ~shared' PROVE SessionsMade'
      <4>1. SessionsMade
        BY <2>4, <3>2 DEF Owned
      <4> SUFFICES ASSUME NEW t \in Client, Connecting(t)'
                   PROVE  /\ (mem[making[t]].live)' /\ (mem[making[t]].id \notin handed)'
                          /\ ses'[t] = NULL
                          /\ \A u \in Client : /\ ses'[u] # making'[t]
                                               /\ Connecting(u)' /\ making'[u] = making'[t] => t = u
        BY DEF SessionsMade
      <4>2. Connecting(t) /\ making'[t] = making[t] /\ t # s /\ making[t] \in Cell
        BY <2>2 DEF HeapTypeOK
      <4>3. /\ mem[making[t]].live /\ mem[making[t]].id \notin handed /\ ses[t] = NULL
            /\ \A u \in Client : /\ ses[u] # making[t]
                                 /\ Connecting(u) /\ making[u] = making[t] => t = u
            /\ mem[making[s]].live
        BY <2>1, <4>1, <4>2 DEF SessionsMade
      <4>4. making[t] # making[s]
        BY <2>1, <4>2, <4>3
      <4>5. mem[making[t]].id # mem[making[s]].id
        BY <2>1, <4>2, <4>3, <4>4 DEF Owned, IdsDistinct
      <4>. QED
        BY <2>2, <2>4, <4>2, <4>3, <4>4, <4>5 DEF HeapTypeOK
    <3>3. ASSUME ~shared' PROVE SessionsHeld'
      <4>1. SessionsHeld /\ mem[making[s]].live
        BY <2>1, <2>4, <3>3 DEF Owned, SessionsMade
      <4>2. \A t \in Client : ses'[t] = IF t = s THEN making[s] ELSE ses[t]
        BY <2>4 DEF HeapTypeOK
      <4>. QED
        BY <2>1, <2>2, <2>4, <4>1, <4>2 DEF SessionsHeld
    <3>. QED
      BY <3>1, <3>2, <3>3 DEF Owned
  <2>. QED
    BY <1>3, <2>3, <2>4 DEF cmd_connect
<1>4. ASSUME NEW s \in Client, cmd_reconnect(s) PROVE Owned'
  <2>1. /\ doing[s] = "idle" /\ ses[s] = NULL
        /\ UNCHANGED <<mem, doing, making, handed, made, shared>>
    BY <1>4 DEF cmd_reconnect
  <2>2. CASE ses' = ses
    BY <2>1, <2>2 DEF Owned, IdsDistinct, SessionsMade, SessionsHeld
  <2>3. ASSUME NEW c \in Cell, NEW id \in handed, Finds(id, c), ses' = [ses EXCEPT ![s] = c]
        PROVE  Owned'
    <3>1. mem[c].live /\ mem[c].id \in handed /\ c # NULL
      BY <2>3 DEF Finds, Live
    <3>2. \A t \in Client : ses'[t] = IF t = s THEN c ELSE ses[t]
      BY <2>3 DEF HeapTypeOK
    <3>3. SessionsMade => SessionsMade'
      <4>1. ASSUME SessionsMade, NEW t \in Client, Connecting(t) PROVE making[t] # c /\ t # s
        BY <2>1, <3>1, <4>1 DEF SessionsMade
      <4>. QED
        BY <2>1, <3>2, <4>1 DEF SessionsMade
    <3>4. SessionsHeld => SessionsHeld'
      BY <2>1, <3>1, <3>2 DEF SessionsHeld
    <3>. QED
      BY <2>1, <3>3, <3>4 DEF Owned, IdsDistinct
  <2>. QED
    BY <1>4, <2>2, <2>3 DEF cmd_reconnect
<1>5. ASSUME NEW s \in Client, cmd_disconnect(s) PROVE Owned'
  <2>1. ses[s] \in Cell
    BY <1>5 DEF cmd_disconnect, Live, HeapTypeOK, Spot
  <2>2. /\ Delete(s, ses[s]) /\ ses' = [ses EXCEPT ![s] = NULL] /\ doing[s] = "idle"
        /\ UNCHANGED <<doing, making, handed, made>>
    BY <1>5 DEF cmd_disconnect
  <2>. QED
    BY <2>1, <2>2, DeletedOwned
<1>6. ASSUME NEW s \in Client, Quit(s) PROVE Owned'
  <2>1. /\ doing[s] = "idle"
        /\ UNCHANGED <<mem, doing, making, handed, made, shared>>
        /\ \A t \in Client : ses'[t] = IF t = s THEN NULL ELSE ses[t]
    BY <1>6 DEF Quit, HeapTypeOK
  <2>2. SessionsMade => SessionsMade'
    <3>1. \A t \in Client : Connecting(t) => making[t] # NULL
      BY CellAssumption DEF HeapTypeOK
    <3>. QED
      BY <2>1, <3>1 DEF SessionsMade
  <2>3. SessionsHeld => SessionsHeld'
    BY <2>1 DEF SessionsHeld
  <2>. QED
    BY <2>1, <2>2, <2>3 DEF Owned, IdsDistinct
<1>7. ASSUME NEW s \in Client, Relay(s) PROVE Owned'
  <2>1. /\ doing[s] = "idle" /\ ses[s] # NULL /\ doing' = [doing EXCEPT ![s] = "read"]
        /\ UNCHANGED <<mem, ses, making, handed, made>>
        /\ shared => shared'
    BY <1>7 DEF Relay, Live
  <2>2. \A t \in Client : /\ Connecting(t)' <=> Connecting(t)
                          /\ doing'[t] = "read" => doing[t] = "read" \/ t = s
    BY <2>1 DEF HeapTypeOK
  <2>. QED
    BY <2>1, <2>2 DEF Owned, IdsDistinct, SessionsMade, SessionsHeld
<1>8. ASSUME NEW s \in Client, read_message(s) PROVE Owned'
  <2>1. ses[s] \in Cell /\ doing[s] = "read" /\ UNCHANGED <<making, handed, made>>
    BY <1>8 DEF read_message, Live, HeapTypeOK, Spot
  <2>2. CASE UNCHANGED <<mem, head, ses, raced, outOfOrder, shared, undefined>>
    <3>1. \A t \in Client : /\ Connecting(t)' => Connecting(t)
                            /\ doing'[t] = "read" => doing[t] = "read"
      BY <1>8, <2>1 DEF read_message, HeapTypeOK
    <3>. QED
      BY <2>1, <2>2, <3>1 DEF Owned, IdsDistinct, SessionsMade, SessionsHeld
  <2>3. CASE /\ ses' = [ses EXCEPT ![s] = NULL] /\ Delete(s, ses[s])
             /\ doing' = [doing EXCEPT ![s] = "idle"]
    <3>1. \A t \in Client : /\ Connecting(t)' => Connecting(t) /\ t # s
                            /\ doing'[t] = "read" => doing[t] = "read" /\ t # s
      BY <2>1, <2>3 DEF HeapTypeOK
    <3>. QED
      BY <2>1, <2>3, <3>1, DeletedOwned
  <2>. QED
    BY <1>8, <2>2, <2>3 DEF read_message
<1>9. ASSUME UNCHANGED <<mem, ses, doing, making, handed, made, shared>> PROVE Owned'
  BY <1>9 DEF Owned, IdsDistinct, SessionsMade, SessionsHeld
<1>10. ASSUME \/ \E s \in Client : UseFreed(s)
              \/ \E c \in Cell : Remote(c)
              \/ UNCHANGED sessionVars
       PROVE  Owned'
  BY <1>9, <1>10 DEF UseFreed, Remote, sessionVars
<1>. QED
  BY <1>1, <1>2, <1>p, <1>3, <1>4, <1>5, <1>6, <1>7, <1>8, <1>10 DEF SessionsNext

(* Induction from 0 up to k, over the numbers that have what is shown.     *)
LEMMA CountsUp ==
  ASSUME NEW k \in Nat, NEW T, 0 \in T, \A i \in T \cap 0..k : i < k => i + 1 \in T
  PROVE  0..k \subseteq T
<1> SUFFICES ASSUME NEW m \in 0..k, m \notin T PROVE FALSE
  OBVIOUS
<1> DEFINE B == (0..m) \ T
           f == [i \in B |-> i - 1]
<1>1. IsFiniteSet(B) /\ m \in B
  <2>1. IsFiniteSet(0..m)
    BY FS_Interval
  <2>. QED
    BY <2>1, FS_Subset
<1>2. IsFiniteSet(B \ {m}) /\ Cardinality(B \ {m}) = Cardinality(B) - 1 /\ Cardinality(B) \in Nat
  BY <1>1, FS_RemoveElement, FS_CardinalityType
<1>3. f \in [B -> B \ {m}]
  <2> SUFFICES ASSUME NEW i \in B PROVE i - 1 \in B \ {m}
    OBVIOUS
  <2>1. i \in 1..m
    OBVIOUS
  <2>2. i - 1 \notin T
    <3>1. i - 1 \in 0..k /\ i - 1 < k /\ (i - 1) + 1 = i
      BY <2>1
    <3>. QED
      BY <3>1
  <2>. QED
    BY <2>1, <2>2
<1>4. PICK x \in B, y \in B : x # y /\ f[x] = f[y]
  <2>1. Cardinality(B \ {m}) < Cardinality(B)
    BY <1>2
  <2> HIDE DEF B, f
  <2>. QED
    BY <1>1, <1>2, <1>3, <2>1, FS_PigeonHole
<1>. QED
  BY <1>4

(* The n sessions p are session_list, the newest last; every other session *)
(* on the heap is still to be linked.                                      *)
IsList(n, p) ==
  /\ \A i, j \in 1..n : p[i] = p[j] => i = j
  /\ \A i \in 1..n : /\ mem[p[i]].live /\ mem[p[i]].prev = NULL
                     /\ mem[p[i]].next = IF i = 1 THEN NULL ELSE p[i - 1]
  /\ head = IF n = 0 THEN NULL ELSE p[n]
  /\ \A c \in Cell : mem[c].live =>
       \/ \E i \in 1..n : p[i] = c
       \/ \E s \in Client : doing[s] = "link" /\ making[s] = c
  /\ \A s \in Client : doing[s] = "link" =>
       mem[making[s]].prev = NULL /\ \A i \in 1..n : p[i] # making[s]

(* The walk of find_session over a list of n sessions, newest first: it    *)
(* takes n steps to NULL, and there are cells enough for the bound of Step. *)
LEMMA Walked ==
  ASSUME NEW n \in Nat, NEW p \in [1..n -> Cell], IsList(n, p)
  PROVE  /\ n \in 0..Cardinality(Cell)
         /\ DOMAIN Step = 0..Cardinality(Cell)
         /\ \A i \in 0..n : Step[i] = IF i < n THEN p[n - i] ELSE NULL
<1> DEFINE k == Cardinality(Cell)
<1>1. k \in Nat
  BY CellAssumption, FS_CardinalityType
<1>2. n \in 0..k
  <2>1. IsFiniteSet(1..n) /\ Cardinality(1..n) = n
    BY FS_Interval
  <2>2. ~(k < n)
    BY <2>1, CellAssumption, FS_PigeonHole DEF IsList
  <2>. QED
    BY <1>1, <2>2
<1> DEFINE F == [i \in 0..k |-> IF i < n THEN p[n - i] ELSE NULL]
           T == {i \in 0..k : Step[i] = F[i]}
<1>3. F = [i \in 0..k |-> IF i = 0 THEN head
                          ELSE IF F[i - 1] = NULL THEN NULL ELSE mem[F[i - 1]].next]
  <2> SUFFICES ASSUME NEW i \in 0..k
               PROVE  F[i] = IF i = 0 THEN head
                             ELSE IF F[i - 1] = NULL THEN NULL ELSE mem[F[i - 1]].next
    OBVIOUS
  <2>1. CASE i = 0
    BY <1>1, <2>1 DEF IsList
  <2>2. CASE i # 0 /\ i <= n
    <3>1. n - (i - 1) \in 1..n /\ i - 1 \in 0..k /\ i - 1 < n
      BY <1>1, <2>2
    <3>2. F[i - 1] = p[n - (i - 1)] /\ F[i - 1] # NULL
      BY <3>1, CellAssumption
    <3>3. mem[p[n - (i - 1)]].next = IF n - (i - 1) = 1 THEN NULL ELSE p[n - (i - 1) - 1]
      BY <3>1 DEF IsList
    <3>. QED
      BY <1>1, <2>2, <3>1, <3>2, <3>3
  <2>3. CASE i > n
    BY <1>1, <2>3
  <2>. QED
    BY <1>1, <2>1, <2>2, <2>3
<1>4. Step = [i \in 0..k |-> IF i = 0 THEN head
                             ELSE IF Step[i - 1] = NULL THEN NULL ELSE mem[Step[i - 1]].next]
  <2> HIDE DEF F
  <2>. QED
    BY <1>3 DEF Step
<1>5. 0..k \subseteq T
  <2>1. 0 \in T
    <3>1. 0 \in 0..k
      BY <1>1
    <3> HIDE DEF F
    <3>2. F[0] = head /\ Step[0] = head
      BY <3>1, <1>3, <1>4
    <3>. QED
      BY <3>1, <3>2
  <2>2. ASSUME NEW i \in T \cap 0..k, i < k PROVE i + 1 \in T
    <3>1. i + 1 \in 0..k /\ (i + 1) - 1 = i /\ i + 1 # 0
      BY <1>1, <2>2
    <3> HIDE DEF F
    <3>. QED
      BY <1>3, <1>4, <2>2, <3>1
  <2> HIDE DEF T
  <2>. QED
    BY <1>1, <2>1, <2>2, CountsUp
<1>6. DOMAIN Step = 0..Cardinality(Cell)
  BY <1>4
<1>7. ASSUME NEW i \in 0..n PROVE Step[i] = IF i < n THEN p[n - i] ELSE NULL
  BY <1>1, <1>2, <1>5
<1>. QED
  BY <1>2, <1>6, <1>7

(* Where find_session gets to in such a list.                              *)
LEMMA Findable ==
  ASSUME HeapTypeOK, Owned, ~shared, NEW n \in Nat, NEW p \in [1..n -> Cell], IsList(n, p),
         NEW id \in handed
  PROVE  IF \E c \in Cell : Live(c) /\ mem[c].id = id
           THEN \E c \in Cell : Finds(id, c)
           ELSE FindsNone(id)
<1>1. /\ n \in 0..Cardinality(Cell)
      /\ \A i \in 0..n : Step[i] = IF i < n THEN p[n - i] ELSE NULL
  BY Walked
<1>2. DOMAIN Step = 0..Cardinality(Cell) /\ Cardinality(Cell) \in Nat
  BY Walked, CellAssumption, FS_CardinalityType
<1>3. \A i \in 1..n : p[i] \in Cell /\ p[i] # NULL /\ mem[p[i]].live
  BY CellAssumption DEF IsList
<1>4. ASSUME NEW c \in Cell, Live(c), mem[c].id = id PROVE Finds(id, c)
  <2>1. PICK i \in 1..n : p[i] = c
    BY <1>4 DEF IsList, Owned, SessionsMade, Connecting, Live
  <2>2. n - i \in 0..n /\ n - i < n /\ n - (n - i) = i
    OBVIOUS
  <2>3. Step[n - i] = c
    BY <1>1, <2>1, <2>2
  <2>4. Reaches(n - i, id)
    <3> SUFFICES ASSUME NEW j \in 0..(n - i - 1) PROVE Live(Step[j]) /\ mem[Step[j]].id # id
      BY DEF Reaches
    <3>1. j \in 0..n /\ j < n /\ n - j \in 1..n /\ n - j # i
      OBVIOUS
    <3>2. Step[j] = p[n - j] /\ p[n - j] # c
      BY <1>1, <2>1, <3>1 DEF IsList
    <3>. QED
      BY <1>3, <1>4, <3>1, <3>2 DEF Owned, IdsDistinct, Live
  <2>. QED
    BY <1>1, <1>2, <1>4, <2>2, <2>3, <2>4 DEF Finds
<1>5. ASSUME ~\E c \in Cell : Live(c) /\ mem[c].id = id PROVE FindsNone(id)
  <2>1. Step[n] = NULL
    BY <1>1
  <2>2. Reaches(n, id)
    <3> SUFFICES ASSUME NEW j \in 0..(n - 1) PROVE Live(Step[j]) /\ mem[Step[j]].id # id
      BY DEF Reaches
    <3>1. j \in 0..n /\ j < n /\ n - j \in 1..n
      OBVIOUS
    <3>2. Step[j] = p[n - j]
      BY <1>1, <3>1
    <3>. QED
      BY <1>3, <1>5, <3>1, <3>2 DEF Live
  <2>. QED
    BY <1>1, <1>2, <2>1, <2>2 DEF FindsNone
<1>. QED
  BY <1>4, <1>5

(* No shell raced, deleted out of order, or took what another has.         *)
Quiet == ~raced /\ ~outOfOrder /\ ~shared

(* session_list is such a list.                                            *)
Listed == \E n \in Nat : \E p \in [1..n -> Cell] : IsList(n, p)

(* and no freed memory was used.                                           *)
Stacked == Quiet => ~undefined /\ Listed

(* The newest session goes, and the list is the rest.                      *)
LEMMA DeletedNewest ==
  ASSUME HeapTypeOK, Listed, NEW s \in Client, NEW c \in Cell, mem[c].live, head = c,
         Delete(s, c),
         \A t \in Client : doing[t] = "link" <=> doing'[t] = "link",
         \A t \in Client : doing'[t] = "link" => making'[t] = making[t]
  PROVE  undefined' = FALSE /\ Listed'
<1>0. PICK n \in Nat : \E p \in [1..n -> Cell] : IsList(n, p)
  BY DEF Listed
<1>1. PICK p \in [1..n -> Cell] : IsList(n, p)
  BY <1>0
<1>2. n \in Nat \ {0} /\ p[n] = c /\ n \in 1..n
  BY <1>1, CellAssumption DEF IsList
<1> DEFINE m == n - 1
           q == [i \in 1..m |-> p[i]]
<1>3. /\ mem[c].prev = NULL
      /\ mem[c].next = IF n = 1 THEN NULL ELSE p[m]
  <2>1. /\ mem[p[n]].prev = NULL
        /\ mem[p[n]].next = IF n = 1 THEN NULL ELSE p[n - 1]
    BY <1>1, <1>2 DEF IsList
  <2>. QED
    BY <1>2, <2>1
<1>4. /\ undefined' = FALSE
      /\ head' = mem[c].next
  <2>1. undefined' = (mem[c].next # NULL /\ ~Live(mem[c].next)) /\ head' = mem[c].next
    BY DEF Delete
  <2>2. n # 1 => mem[p[m]].live
    BY <1>1, <1>2 DEF IsList
  <2>. QED
    BY <1>3, <2>1, <2>2 DEF Live
<1>5. \A d \in Cell \ {c} : /\ mem'[d].live = mem[d].live /\ mem'[d].next = mem[d].next
                            /\ mem[d].prev = NULL => mem'[d].prev = NULL
  <2> DEFINE linked == [mem EXCEPT ![c].live = FALSE]
  <2>1. mem' = linked \/ mem' = [linked EXCEPT ![mem[c].next].prev = NULL]
    BY <1>3 DEF Delete
  <2>2. \A d \in Cell \ {c} : linked[d] = mem[d]
    BY DEF HeapTypeOK
  <2>3. linked \in [Cell -> [live : BOOLEAN, next : Spot, prev : Spot, id : Nat]]
    BY DEF HeapTypeOK
  <2> HIDE DEF linked
  <2>4. ASSUME NEW d \in Cell \ {c}, mem' = [linked EXCEPT ![mem[c].next].prev = NULL]
        PROVE  /\ mem'[d].live = linked[d].live /\ mem'[d].next = linked[d].next
               /\ mem'[d].prev = linked[d].prev \/ mem'[d].prev = NULL
    <3>1. CASE d = mem[c].next
      <4>1. mem'[d] = [linked[d] EXCEPT !.prev = NULL]
        BY <2>3, <2>4, <3>1
      <4>. QED
        BY <2>3, <4>1
    <3>2. CASE d # mem[c].next
      BY <2>3, <2>4, <3>2
    <3>. QED
      BY <3>1, <3>2
  <2>. QED
    BY <2>1, <2>2, <2>4
<1>6. mem'[c].live = FALSE
  BY Deleted
<1>7. m \in Nat /\ q \in [1..m -> Cell] /\ (\A i \in 1..m : q[i] = p[i] /\ i \in 1..n /\ i # n)
  BY <1>2
<1> HIDE DEF m, q
<1>8. \A i \in 1..m : p[i] \in Cell \ {c}
  <2> SUFFICES ASSUME NEW i \in 1..m PROVE p[i] \in Cell \ {c}
    OBVIOUS
  <2>1. i \in 1..n /\ i # n
    BY <1>7
  <2>2. p[i] # p[n]
    BY <1>1, <1>2, <2>1 DEF IsList
  <2>. QED
    BY <1>2, <2>1, <2>2
<1>9. IsList(m, q)'
  <2>1. \A i, j \in 1..m : q[i] = q[j] => i = j
    BY <1>1, <1>7 DEF IsList
  <2>2. \A i \in 1..m : /\ mem'[q[i]].live /\ mem'[q[i]].prev = NULL
                        /\ mem'[q[i]].next = IF i = 1 THEN NULL ELSE q[i - 1]
    <3> SUFFICES ASSUME NEW i \in 1..m
                 PROVE  /\ mem'[q[i]].live /\ mem'[q[i]].prev = NULL
                        /\ mem'[q[i]].next = IF i = 1 THEN NULL ELSE q[i - 1]
      OBVIOUS
    <3>1. /\ mem[p[i]].live /\ mem[p[i]].prev = NULL
          /\ mem[p[i]].next = IF i = 1 THEN NULL ELSE p[i - 1]
      BY <1>1, <1>7 DEF IsList
    <3>2. i = 1 \/ i - 1 \in 1..m
      BY <1>7
    <3>. QED
      BY <1>5, <1>7, <1>8, <3>1, <3>2
  <2>3. head' = IF m = 0 THEN NULL ELSE q[m]
    BY <1>3, <1>4, <1>2, <1>7 DEF m
  <2>4. ASSUME NEW d \in Cell, mem'[d].live
        PROVE  \/ \E i \in 1..m : q[i] = d
               \/ \E t \in Client : doing'[t] = "link" /\ making'[t] = d
    <3>1. d # c /\ mem[d].live
      BY <1>5, <1>6, <2>4
    <3>2. CASE \E i \in 1..n : p[i] = d
      <4>1. PICK i \in 1..n : p[i] = d
        BY <3>2
      <4>2. i \in 1..m
        BY <1>2, <3>1, <4>1 DEF m
      <4>. QED
        BY <1>7, <4>1, <4>2
    <3>3. CASE \E t \in Client : doing[t] = "link" /\ making[t] = d
      BY <3>3
    <3>. QED
      BY <1>1, <3>1, <3>2, <3>3 DEF IsList
  <2>5. ASSUME NEW t \in Client, doing'[t] = "link"
        PROVE  mem'[making'[t]].prev = NULL /\ \A i \in 1..m : q[i] # making'[t]
    <3>1. doing[t] = "link" /\ making'[t] = making[t]
      BY <2>5
    <3>2. making[t] \in Cell /\ making[t] # c /\ mem[making[t]].prev = NULL
      <4>1. mem[making[t]].prev = NULL /\ \A i \in 1..n : p[i] # making[t]
        BY <1>1, <3>1 DEF IsList
      <4>2. making[t] \in Cell
        BY <3>1 DEF HeapTypeOK, Connecting
      <4>. QED
        BY <1>2, <4>1, <4>2
    <3>3. \A i \in 1..m : q[i] # making[t]
      <4>1. \A i \in 1..n : p[i] # making[t]
        BY <1>1, <3>1 DEF IsList
      <4>. QED
        BY <1>7, <4>1
    <3>4. mem'[making[t]].prev = NULL
      BY <1>5, <3>2
    <3>. QED
      BY <3>1, <3>3, <3>4, Zenon
  <2>. QED
    BY <2>1, <2>2, <2>3, <2>4, <2>5 DEF IsList
<1>. QED
  BY <1>4, <1>7, <1>9 DEF Listed

(* Unless its list changes, or the sessions that are being made.           *)
LEMMA SameList ==
  ASSUME Listed, UNCHANGED <<mem, head>>,
         \A t \in Client : doing[t] = "link" <=> doing'[t] = "link",
         \A t \in Client : doing'[t] = "link" => making'[t] = making[t]
  PROVE  Listed'
<1>0. PICK n \in Nat : \E p \in [1..n -> Cell] : IsList(n, p)
  BY DEF Listed
<1>1. PICK p \in [1..n -> Cell] : IsList(n, p)
  BY <1>0
<1>2. IsList(n, p)'
  <2>1. \A c \in Cell : mem[c].live =>
          \/ \E i \in 1..n : p[i] = c
          \/ \E s \in Client : doing'[s] = "link" /\ making'[s] = c
    BY <1>1 DEF IsList
  <2>2. \A s \in Client : doing'[s] = "link" =>
          mem[making'[s]].prev = NULL /\ \A i \in 1..n : p[i] # making'[s]
    BY <1>1 DEF IsList
  <2>. QED
    BY <1>1, <2>1, <2>2 DEF IsList
<1>. QED
  BY <1>2 DEF Listed

(* Every step keeps the list whole: in a quiet run only the newest session *)
(* is deleted, so that unlink, which finds no prev, has nothing to repair. *)
LEMMA StackedStep ==
  ASSUME HeapTypeOK, Owned, Stacked, [SessionsNext]_sessionVars
  PROVE  Stacked'
<1> SUFFICES ASSUME Quiet' PROVE undefined' = FALSE /\ Listed'
  BY DEF Stacked
<1>1. ASSUME Quiet, UNCHANGED <<mem, head, undefined>>,
             \A t \in Client : doing[t] = "link" <=> doing'[t] = "link",
             \A t \in Client : doing'[t] = "link" => making'[t] = making[t]
      PROVE  undefined' = FALSE /\ Listed'
  BY <1>1, SameList DEF Stacked, HeapTypeOK
<1>2. ASSUME NEW s \in Client, New(s) PROVE undefined' = FALSE /\ Listed'
  <2>1. PICK c \in Cell :
          /\ ~mem[c].live
          /\ mem' = [mem EXCEPT ![c] = [live |-> TRUE, next |-> head, prev |-> NULL,
                                        id |-> made + 1]]
          /\ making' = [making EXCEPT ![s] = c]
    BY <1>2 DEF New
  <2>2. Quiet /\ UNCHANGED <<head, undefined>> /\ doing[s] = "idle"
        /\ doing' = [doing EXCEPT ![s] = "link"]
    BY <1>2 DEF New, Quiet
  <2>3. Listed /\ undefined = FALSE
    BY <2>2 DEF Stacked, HeapTypeOK
  <2>4. PICK n \in Nat : \E p \in [1..n -> Cell] : IsList(n, p)
    BY <2>3 DEF Listed
  <2>5. PICK p \in [1..n -> Cell] : IsList(n, p)
    BY <2>4
  <2>6. \A d \in Cell \ {c} : mem'[d] = mem[d]
    BY <2>1 DEF HeapTypeOK
  <2>7. \A i \in 1..n : p[i] \in Cell \ {c}
    BY <2>1, <2>5 DEF IsList
  <2>8. /\ doing'[s] = "link" /\ making'[s] = c
        /\ \A t \in Client \ {s} : doing'[t] = doing[t] /\ making'[t] = making[t]
    BY <2>1, <2>2 DEF HeapTypeOK
  <2>9. IsList(n, p)'
    <3>1. \A i \in 1..n : /\ mem'[p[i]].live /\ mem'[p[i]].prev = NULL
                          /\ mem'[p[i]].next = IF i = 1 THEN NULL ELSE p[i - 1]
      BY SMTT(30), <2>5, <2>6, <2>7 DEF IsList
    <3>2. \A d \in Cell : mem'[d].live =>
            \/ \E i \in 1..n : p[i] = d
            \/ \E t \in Client : doing'[t] = "link" /\ making'[t] = d
      <4> SUFFICES ASSUME NEW d \in Cell, mem'[d].live, d # c
                   PROVE  \/ \E i \in 1..n : p[i] = d
                          \/ \E t \in Client : doing'[t] = "link" /\ making'[t] = d
        BY <2>8
      <4>1. mem[d].live
        BY <2>6
      <4>2. \/ \E i \in 1..n : p[i] = d
            \/ \E t \in Client : doing[t] = "link" /\ making[t] = d
        BY <2>5, <4>1 DEF IsList
      <4>. QED
        BY <2>2, <2>8, <4>2
    <3>3. ASSUME NEW t \in Client, doing'[t] = "link"
          PROVE  mem'[making'[t]].prev = NULL /\ \A i \in 1..n : p[i] # making'[t]
      <4>1. CASE t = s
        <5>1. mem'[c].prev = NULL
          BY <2>1 DEF HeapTypeOK
        <5>. QED
          BY <2>7, <2>8, <4>1, <5>1
      <4>2. CASE t # s
        <5>1. doing[t] = "link" /\ making'[t] = making[t]
          BY <2>8, <3>3, <4>2
        <5>2. /\ making[t] \in Cell /\ mem[making[t]].prev = NULL
              /\ \A i \in 1..n : p[i] # making[t]
          BY <2>5, <5>1 DEF IsList, HeapTypeOK, Connecting
        <5>3. mem'[making[t]].prev = NULL
          BY <2>1, <2>6, <5>2 DEF HeapTypeOK
        <5>. QED
          BY <5>1, <5>2, <5>3
      <4>. QED
        BY <4>1, <4>2
    <3>. QED
      BY <2>2, <2>5, <3>1, <3>2, <3>3 DEF IsList
  <2>. QED
    BY <2>2, <2>3, <2>9 DEF Listed
<1>3. ASSUME NEW s \in Client, link_session(s) PROVE undefined' = FALSE /\ Listed'
  <2>1. PICK c \in Cell : c = making[s]
    BY <1>3 DEF link_session, HeapTypeOK, Connecting
  <2>2. doing[s] = "link" /\ doing' = [doing EXCEPT ![s] = "prev"]
        /\ head' = c /\ UNCHANGED <<mem, making, undefined>>
    BY <1>3, <2>1 DEF link_session
  <2>3. Quiet /\ mem[c].next = head
    BY <1>3, <2>1 DEF link_session, Quiet
  <2>4. Listed /\ undefined = FALSE /\ mem[c].live
    BY <2>2, <2>3, <2>1 DEF Stacked, HeapTypeOK, Owned, SessionsMade, Connecting, Quiet
  <2>5. PICK n \in Nat : \E p \in [1..n -> Cell] : IsList(n, p)
    BY <2>4 DEF Listed
  <2>6. PICK p \in [1..n -> Cell] : IsList(n, p)
    BY <2>5
  <2>7. PICK k \in Nat : k = n + 1
    OBVIOUS
  <2> DEFINE q == [i \in 1..k |-> IF i = k THEN c ELSE p[i]]
  <2>8. q \in [1..k -> Cell] /\ q[k] = c /\ \A i \in 1..n : q[i] = p[i]
    BY <2>7, <2>2
  <2> HIDE DEF q
  <2>9. \A i \in 1..n : p[i] \in Cell \ {c}
    BY <2>2, <2>6, <2>1 DEF IsList
  <2>10. /\ \A d \in Cell \ {c} : mem'[d] = mem[d]
        /\ mem'[c].live /\ mem'[c].prev = NULL /\ mem'[c].next = head
        /\ \A d \in Cell : mem'[d].live = mem[d].live
    BY <2>1, <2>2, <2>3, <2>4, <2>6 DEF IsList
  <2>11. /\ doing'[s] = "prev"
        /\ \A t \in Client \ {s} : doing'[t] = doing[t]
    BY <2>2 DEF HeapTypeOK
  <2>12. IsList(k, q)'
    <3>1. \A i, j \in 1..k : q[i] = q[j] => i = j
      <4>1. \A i \in 1..k : i = k \/ i \in 1..n
        BY <2>7
      <4>2. \A i, j \in 1..n : p[i] = p[j] => i = j
        BY <2>6 DEF IsList
      <4>. QED
        BY <2>8, <2>9, <4>1, <4>2
    <3>2. ASSUME NEW i \in 1..k
          PROVE  /\ mem'[q[i]].live /\ mem'[q[i]].prev = NULL
                 /\ mem'[q[i]].next = IF i = 1 THEN NULL ELSE q[i - 1]
      <4>1. CASE i = k
        <5>1. head = IF n = 0 THEN NULL ELSE p[n]
          BY <2>6 DEF IsList
        <5>2. i = 1 <=> n = 0
          BY <2>7, <4>1
        <5>3. i - 1 = n /\ (n # 0 => n \in 1..n)
          BY <2>7, <4>1
        <5>. QED
          BY <2>8, <2>10, <4>1, <5>1, <5>2, <5>3
      <4>2. CASE i \in 1..n
        <5>1. /\ mem[p[i]].live /\ mem[p[i]].prev = NULL
              /\ mem[p[i]].next = IF i = 1 THEN NULL ELSE p[i - 1]
          BY <2>6, <4>2 DEF IsList
        <5>2. i = 1 \/ i - 1 \in 1..n
          BY <4>2
        <5>. QED
          BY <2>8, <2>9, <2>10, <4>2, <5>1, <5>2
      <4>. QED
        BY <2>7, <4>1, <4>2
    <3>3. head' = IF k = 0 THEN NULL ELSE q[k]
      BY <2>7, <2>2, <2>8
    <3>4. ASSUME NEW d \in Cell, mem'[d].live
          PROVE  \/ \E i \in 1..k : q[i] = d
                 \/ \E t \in Client : doing'[t] = "link" /\ making'[t] = d
      <4>1. CASE d = c
        BY <2>7, <2>8, <4>1
      <4>2. CASE \E i \in 1..n : p[i] = d
        BY <2>7, <2>8, <4>2
      <4>3. CASE d # c /\ \E t \in Client : doing[t] = "link" /\ making[t] = d
        BY <2>2, <2>11, <2>1, <4>3
      <4>. QED
        BY <2>6, <2>10, <3>4, <4>1, <4>2, <4>3 DEF IsList
    <3>6. \A t \in Client : doing'[t] = "link" => mem'[making'[t]].prev = NULL
      BY <2>2, <2>6, <2>11 DEF IsList
    <3>5. ASSUME NEW t \in Client, doing'[t] = "link", NEW i \in 1..k
          PROVE  q[i] # making'[t]
      <4>1. t # s /\ doing[t] = "link" /\ making'[t] = making[t]
        BY <2>2, <2>11, <3>5
      <4>2. making[t] # c
        BY <2>2, <2>3, <2>1, <4>1 DEF Owned, SessionsMade, Connecting, Quiet
      <4>3. i = k \/ i \in 1..n
        BY <2>7
      <4>. QED
        BY <2>6, <2>8, <4>1, <4>2, <4>3 DEF IsList
    <3>. QED
      BY <3>1, <3>2, <3>3, <3>4, <3>5, <3>6 DEF IsList
  <2>. QED
    BY <2>2, <2>4, <2>8, <2>12 DEF Listed
<1>4. ASSUME NEW s \in Client, NEW c \in Cell, mem[c].live, Delete(s, c),
             \A t \in Client : doing[t] = "link" <=> doing'[t] = "link",
             \A t \in Client : doing'[t] = "link" => making'[t] = making[t]
      PROVE  undefined' = FALSE /\ Listed'
  <2>1. Quiet /\ head = c
    BY <1>4 DEF Delete, Quiet
  <2>. QED
    BY <1>4, <2>1, DeletedNewest DEF Stacked
<1>p. ASSUME NEW s \in Client, link_prev(s) PROVE undefined' = FALSE /\ Listed'
  <2>1. PICK c \in Cell : c = making[s]
    BY <1>p, PrevSet
  <2>2. Quiet /\ head = c
    BY <1>p, <2>1 DEF link_prev, Quiet
  <2>3. Listed
    BY <2>2 DEF Stacked
  <2>4. PICK n \in Nat : \E p \in [1..n -> Cell] : IsList(n, p)
    BY <2>3 DEF Listed
  <2>5. PICK p \in [1..n -> Cell] : IsList(n, p)
    BY <2>4
  <2>6. n \in 1..n /\ p[n] = c
    BY <2>2, <2>5, CellAssumption DEF IsList
  <2>7. mem[c].live /\ mem[c].prev = NULL
    BY <2>5, <2>6 DEF IsList
  <2>8. mem' = [[mem EXCEPT ![c].prev = c] EXCEPT ![c].prev = NULL]
    BY <1>p, <2>1, <2>2, CellAssumption DEF link_prev
  <2>9. UNCHANGED mem
    BY <2>7, <2>8 DEF HeapTypeOK
  <2>10. undefined' = FALSE /\ UNCHANGED head
    BY <1>p, <2>2, <2>7 DEF link_prev, Live
  <2>11. /\ \A t \in Client : doing[t] = "link" <=> doing'[t] = "link"
         /\ UNCHANGED making
    BY <1>p, PrevSet DEF HeapTypeOK
  <2>. QED
    BY <2>3, <2>9, <2>10, <2>11, SameList
<1>5. ASSUME NEW s \in Client, cmd_connect(s) PROVE undefined' = FALSE /\ Listed'
  <2>1. /\ making[s] \in Cell /\ doing[s] = "connect"
        /\ doing' = [doing EXCEPT ![s] = "idle"] /\ making' = [making EXCEPT ![s] = NULL]
    BY <1>5 DEF cmd_connect, HeapTypeOK, Connecting
  <2>2. /\ \A t \in Client : doing[t] = "link" <=> doing'[t] = "link"
        /\ \A t \in Client : doing'[t] = "link" => making'[t] = making[t]
    BY <2>1 DEF HeapTypeOK
  <2>3. CASE Delete(s, making[s])
    <3>1. mem[making[s]].live
      BY <2>1, <2>3 DEF Delete, Quiet, Owned, SessionsMade, Connecting
    <3>. QED
      BY <1>4, <2>1, <2>2, <2>3, <3>1
  <2>4. CASE UNCHANGED <<mem, head, raced, outOfOrder, shared, undefined>>
    BY <1>1, <2>2, <2>4 DEF Quiet
  <2>. QED
    BY <1>5, <2>3, <2>4 DEF cmd_connect
<1>6. ASSUME NEW s \in Client, cmd_reconnect(s) PROVE undefined' = FALSE /\ Listed'
  <2>1. Quiet /\ UNCHANGED <<mem, head, doing, making>>
    BY <1>6 DEF cmd_reconnect, Quiet
  <2>2. PICK n \in Nat : \E p \in [1..n -> Cell] : IsList(n, p)
    BY <2>1 DEF Stacked, Listed
  <2>3. \A id \in handed : (\E c \in Cell : Finds(id, c)) \/ FindsNone(id)
    <3>1. PICK p \in [1..n -> Cell] : IsList(n, p)
      BY <2>2
    <3>. QED
      BY <2>1, <3>1, Findable DEF Quiet
  <2>4. UNCHANGED undefined
    BY <1>6, <2>3 DEF cmd_reconnect
  <2>. QED
    BY <1>1, <2>1, <2>4
<1>7. ASSUME NEW s \in Client, cmd_disconnect(s) PROVE undefined' = FALSE /\ Listed'
  <2>1. ses[s] \in Cell /\ mem[ses[s]].live
    BY <1>7 DEF cmd_disconnect, Live, HeapTypeOK, Spot
  <2>2. Delete(s, ses[s]) /\ UNCHANGED <<doing, making>>
    BY <1>7 DEF cmd_disconnect
  <2>. QED
    BY <1>4, <2>1, <2>2
<1>8. ASSUME NEW s \in Client, Relay(s) PROVE undefined' = FALSE /\ Listed'
  <2>1. Quiet /\ UNCHANGED <<mem, head, making, undefined>>
        /\ doing[s] = "idle" /\ doing' = [doing EXCEPT ![s] = "read"]
    BY <1>8 DEF Relay, Quiet
  <2>. QED
    BY <1>1, <2>1 DEF HeapTypeOK
<1>9. ASSUME NEW s \in Client, read_message(s) PROVE undefined' = FALSE /\ Listed'
  <2>1. /\ ses[s] \in Cell /\ mem[ses[s]].live /\ doing[s] = "read" /\ UNCHANGED making
        /\ doing' = doing \/ doing' = [doing EXCEPT ![s] = "idle"]
    BY <1>9 DEF read_message, Live, HeapTypeOK, Spot
  <2>2. \A t \in Client : doing[t] = "link" <=> doing'[t] = "link"
    BY <2>1 DEF HeapTypeOK
  <2>3. CASE UNCHANGED <<mem, head, ses, raced, outOfOrder, shared, undefined>>
    BY <1>1, <2>1, <2>2, <2>3 DEF Quiet
  <2>4. CASE Delete(s, ses[s])
    BY <1>4, <2>1, <2>2, <2>4
  <2>. QED
    BY <1>9, <2>3, <2>4 DEF read_message
<1>10. ASSUME NEW s \in Client, UseFreed(s) PROVE FALSE
  BY <1>10 DEF UseFreed, Quiet, Owned, SessionsHeld, Live
<1>11. ASSUME UNCHANGED <<mem, head, doing, making, raced, outOfOrder, shared, undefined>>
       PROVE  undefined' = FALSE /\ Listed'
  BY <1>1, <1>11 DEF Quiet
<1>12. ASSUME NEW s \in Client, Quit(s) PROVE undefined' = FALSE /\ Listed'
  BY <1>11, <1>12 DEF Quit
<1>13. ASSUME NEW c \in Cell, Remote(c) PROVE undefined' = FALSE /\ Listed'
  BY <1>11, <1>13 DEF Remote
<1>14. ASSUME UNCHANGED sessionVars PROVE undefined' = FALSE /\ Listed'
  BY <1>11, <1>14 DEF sessionVars
<1>. QED
  BY <1>2, <1>3, <1>p, <1>5, <1>6, <1>7, <1>8, <1>9, <1>10, <1>12, <1>13, <1>14 DEF SessionsNext

(* The first k events of a connection, newest first.                       *)
Down(k) == [i \in 1..k |-> k + 1 - i]

(* k events of a connection were read, and its stream q goes on with the   *)
(* others.  Place a is that of the answer, beyond the end of the stream    *)
(* while there is none.                                                    *)
PlaceOK(out, q, k, a, i) ==
  /\ q[i].kind = "answer" <=> i = a
  /\ q[i].kind = "answer" => q[i].before = k + i - 1 /\ out = <<>>
  /\ q[i].kind = "event" /\ i < a => q[i].n = k + i
  /\ q[i].kind = "event" /\ a < i => q[i].n = k + i - 1
  /\ q[i].kind = "end" => q[i] = End /\ i = Len(q)

(* The number of events that the other server sent.                        *)
PostedOK(q, posted, k, a) ==
  (\A i \in 1..Len(q) : q[i].kind # "end") =>
     /\ a <= Len(q) => posted = k + Len(q) - 1
     /\ Len(q) < a => posted = k + Len(q)

Ordered(out, q, posted, k, a) ==
  (\A i \in 1..Len(q) : PlaceOK(out, q, k, a, i)) /\ PostedOK(q, posted, k, a)

(* The messages after the first.                                           *)
LEMMA TailOf ==
  ASSUME NEW q \in Seq(Message), q # <<>>
  PROVE  /\ Tail(q) \in Seq(Message) /\ Len(Tail(q)) = Len(q) - 1 /\ Len(q) \in Nat \ {0}
         /\ Head(q) = q[1] /\ Len(Tail(q)) \in Nat
         /\ \A i \in 1..(Len(q) - 1) : Tail(q)[i] = q[i + 1]
OBVIOUS

(* One more event in front of those that were read.                        *)
LEMMA DownNext ==
  ASSUME NEW k \in Nat
  PROVE  <<k + 1>> \o Down(k) = Down(k + 1) /\ Down(k) \in Seq(Nat)
<1>1. Down(k) \in Seq(Nat) /\ Len(Down(k)) = k /\ \A i \in 1..k : Down(k)[i] = k + 1 - i
  BY DEF Down
<1>2. <<k + 1>> \in Seq(Nat) /\ Len(<<k + 1>>) = 1 /\ <<k + 1>>[1] = k + 1
  OBVIOUS
<1> DEFINE c == <<k + 1>> \o Down(k)
<1>3. /\ c \in Seq(Nat) /\ Len(c) = k + 1 
      /\ \A i \in 1..(k + 1) : c[i] = IF i <= 1 THEN <<k + 1>>[i] ELSE Down(k)[i - 1]
  BY <1>1, <1>2
<1>4. \A i \in 1..(k + 1) : c[i] = k + 2 - i
  <2> SUFFICES ASSUME NEW i \in 1..(k + 1) PROVE c[i] = k + 2 - i
    OBVIOUS
  <2>1. CASE i = 1
    BY <1>2, <1>3, <2>1
  <2>2. CASE i # 1
    <3>1. i - 1 \in 1..k /\ ~(i <= 1)
      BY <2>2
    <3>. QED
      BY <1>1, <1>3, <3>1
  <2>. QED
    BY <2>1, <2>2
<1>5. c = [i \in 1..(k + 1) |-> c[i]]
  BY <1>3
<1> HIDE DEF c
<1>6. c = [i \in 1..(k + 1) |-> (k + 1) + 1 - i]
  BY <1>4, <1>5
<1>. QED
  BY <1>1, <1>6 DEF c, Down

(* A message is read.                                                      *)
LEMMA MessageRead ==
  ASSUME NEW out, NEW q \in Seq(Message), NEW posted \in Nat, NEW k \in Nat, NEW a \in Nat \ {0},
         Ordered(out, q, posted, k, a), q # <<>>, Head(q).kind = "event"
  PROVE  /\ Head(q).n = k + 1 /\ a - 1 \in Nat \ {0}
         /\ Ordered(out, Tail(q), posted, k + 1, a - 1)
<1> DEFINE r == Tail(q)
<1>1. /\ r \in Seq(Message) /\ Len(r) = Len(q) - 1 /\ Len(q) \in Nat \ {0} /\ Len(r) \in Nat
      /\ Head(q) = q[1]
      /\ \A i \in 1..(Len(q) - 1) : r[i] = q[i + 1]
  BY TailOf
<1>2. /\ \A i \in 1..Len(q) : PlaceOK(out, q, k, a, i)
      /\ PostedOK(q, posted, k, a)
  BY DEF Ordered
<1> HIDE DEF r
<1>3. 1 \in 1..Len(q) /\ q[1].kind = "event"
  BY <1>1
<1>4. a # 1 /\ q[1].n = k + 1
  BY <1>2, <1>3 DEF PlaceOK
<1>5. a - 1 \in Nat \ {0}
  BY <1>4
<1>6. ASSUME NEW i \in 1..Len(r)
      PROVE  PlaceOK(out, r, k + 1, a - 1, i)
  <2>1. i + 1 \in 1..Len(q) /\ r[i] = q[i + 1]
    BY <1>1
  <2>2. PlaceOK(out, q, k, a, i + 1)
    BY <1>2, <2>1
  <2>. QED
    BY SMTT(30), <1>1, <2>1, <2>2 DEF PlaceOK
<1>7. PostedOK(r, posted, k + 1, a - 1)
  <2> SUFFICES ASSUME \A i \in 1..Len(r) : r[i].kind # "end"
               PROVE  /\ a - 1 <= Len(r) => posted = k + 1 + Len(r) - 1
                      /\ Len(r) < a - 1 => posted = k + 1 + Len(r)
    BY DEF PostedOK
  <2>1. ASSUME NEW i \in 1..Len(q)
        PROVE  q[i].kind # "end"
    <3>1. CASE i = 1
      BY <1>3, <3>1
    <3>2. CASE i # 1
      <4>1. i - 1 \in 1..Len(r) /\ (i - 1) + 1 = i /\ i - 1 \in 1..(Len(q) - 1)
        BY <1>1, <3>2
      <4>2. r[i - 1] = q[(i - 1) + 1]
        BY <1>1, <4>1
      <4>. QED
        BY <4>1, <4>2
    <3>. QED
      BY <3>1, <3>2
  <2>2. /\ a <= Len(q) => posted = k + Len(q) - 1
        /\ Len(q) < a => posted = k + Len(q)
    BY <1>2, <2>1 DEF PostedOK
  <2>3. PICK n \in Nat : n = Len(r) /\ Len(q) = n + 1
    BY <1>1
  <2>4. ASSUME a - 1 <= n PROVE posted = k + 1 + n - 1
    <3>1. a <= Len(q)
      BY <2>3, <2>4
    <3>. QED
      BY <2>2, <2>3, <3>1
  <2>5. ASSUME n < a - 1 PROVE posted = k + 1 + n
    <3>1. Len(q) < a
      BY <2>3, <2>5
    <3>. QED
      BY <2>2, <2>3, <3>1
  <2>. QED
    BY <2>3, <2>4, <2>5
<1>8. Ordered(out, r, posted, k + 1, a - 1)
  BY <1>6, <1>7 DEF Ordered
<1>9. Head(q).n = k + 1
  BY <1>1, <1>4
<1>. QED
  BY <1>5, <1>8, <1>9 DEF r

(* The answer is read: what was told before it is what was read.           *)
LEMMA AnswerRead ==
  ASSUME NEW out, NEW q \in Seq(Message), NEW posted \in Nat, NEW k \in Nat, NEW a \in Nat \ {0},
         Ordered(out, q, posted, k, a), q # <<>>, Head(q).kind = "answer"
  PROVE  /\ Head(q).before = k /\ out = <<>>
         /\ Ordered(out, Tail(q), posted, k, Len(q))
         /\ \A i \in 1..Len(Tail(q)) : Tail(q)[i].kind # "answer"
<1> DEFINE r == Tail(q)
<1>1. /\ r \in Seq(Message) /\ Len(r) = Len(q) - 1 /\ Len(q) \in Nat \ {0} /\ Len(r) \in Nat
      /\ Head(q) = q[1]
      /\ \A i \in 1..(Len(q) - 1) : r[i] = q[i + 1]
  BY TailOf
<1>2. /\ \A i \in 1..Len(q) : PlaceOK(out, q, k, a, i)
      /\ PostedOK(q, posted, k, a)
  BY DEF Ordered
<1> HIDE DEF r
<1>3. 1 \in 1..Len(q) /\ q[1].kind = "answer"
  BY <1>1
<1>4. a = 1 /\ q[1].before = k /\ out = <<>>
  BY <1>2, <1>3 DEF PlaceOK
<1>6. ASSUME NEW i \in 1..Len(r)
      PROVE  PlaceOK(out, r, k, Len(q), i) /\ r[i].kind # "answer"
  <2>1. i + 1 \in 1..Len(q) /\ r[i] = q[i + 1] /\ i < Len(q) /\ i # Len(q)
    BY <1>1
  <2>2. PlaceOK(out, q, k, a, i + 1)
    BY <1>2, <2>1
  <2>. QED
    BY <1>1, <1>4, <2>1, <2>2 DEF PlaceOK
<1>7. PostedOK(r, posted, k, Len(q))
  <2> SUFFICES ASSUME \A i \in 1..Len(r) : r[i].kind # "end"
               PROVE  posted = k + Len(r)
    BY <1>1 DEF PostedOK
  <2>1. ASSUME NEW i \in 1..Len(q)
        PROVE  q[i].kind # "end"
    <3>1. CASE i = 1
      BY <1>3, <3>1
    <3>2. CASE i # 1
      <4>1. i - 1 \in 1..Len(r) /\ (i - 1) + 1 = i /\ i - 1 \in 1..(Len(q) - 1)
        BY <1>1, <3>2
      <4>2. r[i - 1] = q[(i - 1) + 1]
        BY <1>1, <4>1
      <4>. QED
        BY <4>1, <4>2
    <3>. QED
      BY <3>1, <3>2
  <2>2. a <= Len(q) => posted = k + Len(q) - 1
    BY <1>2, <2>1 DEF PostedOK
  <2>. QED
    BY <1>1, <1>4, <2>2
<1>8. Ordered(out, r, posted, k, Len(q)) /\ \A i \in 1..Len(r) : r[i].kind # "answer"
  BY <1>6, <1>7 DEF Ordered
<1>9. Head(q).before = k
  BY <1>1, <1>4
<1>. QED
  BY <1>4, <1>8, <1>9 DEF r

(* What a message appended to the stream changes in a place.               *)
LEMMA AppendOf ==
  ASSUME NEW q \in Seq(Message), NEW m \in Message
  PROVE  /\ Append(q, m) \in Seq(Message) /\ Len(q) \in Nat
         /\ Len(Append(q, m)) = Len(q) + 1
         /\ \A i \in 1..Len(q) : Append(q, m)[i] = q[i]
         /\ Append(q, m)[Len(q) + 1] = m
OBVIOUS

(* The other server sends message m after n others: what it leaves of the  *)
(* commands, of the count of events and of the place of the answer.        *)
Sent(m, o, posted, p, a, b, n) ==
  /\ b = a \/ (n < a /\ n < b)
  /\ \/ m = Event(posted + 1) /\ p = posted + 1 /\ b # n + 1
     \/ m = Answer(m.n, posted) /\ p = posted /\ b = n + 1 /\ o = <<>>
     \/ m = End /\ p = posted /\ b # n + 1

(* The places that were in a stream without an end stay in order.          *)
LEMMA Appended ==
  ASSUME NEW out, NEW q \in Seq(Message), NEW posted \in Nat, NEW k \in Nat, NEW a \in Nat \ {0},
         Ordered(out, q, posted, k, a), \A i \in 1..Len(q) : q[i].kind # "end",
         NEW m \in Message, NEW o, o = <<>> \/ o = out, NEW p \in Nat, NEW b \in Nat \ {0},
         Sent(m, o, posted, p, a, b, Len(q))
  PROVE  Ordered(o, Append(q, m), p, k, b)
<1> DEFINE r == Append(q, m)
<1>1. /\ r \in Seq(Message) /\ Len(r) = Len(q) + 1 /\ Len(q) \in Nat
      /\ \A i \in 1..Len(q) : r[i] = q[i]
      /\ r[Len(q) + 1] = m
  BY AppendOf
<1>2. /\ \A i \in 1..Len(q) : PlaceOK(out, q, k, a, i)
      /\ a <= Len(q) => posted = k + Len(q) - 1
      /\ Len(q) < a => posted = k + Len(q)
  BY DEF Ordered, PostedOK
<1> HIDE DEF r
<1>0. /\ b = a \/ (Len(q) < a /\ Len(q) < b)
      /\ \/ m = Event(posted + 1) /\ p = posted + 1 /\ b # Len(q) + 1
         \/ m = Answer(m.n, posted) /\ p = posted /\ b = Len(q) + 1 /\ o = <<>>
         \/ m = End /\ p = posted /\ b # Len(q) + 1
  BY DEF Sent
<1>3. ASSUME NEW i \in 1..Len(r)
      PROVE  PlaceOK(o, r, k, b, i)
  <2>1. CASE i = Len(q) + 1
    <3>1. r[i] = m
      BY <1>1, <2>1
    <3>2. CASE m = Event(posted + 1) /\ b # Len(q) + 1
      <4>1. r[i].kind = "event" /\ r[i].n = posted + 1
        BY <3>1, <3>2 DEF Event
      <4>2. PICK n \in Nat : n = Len(q)
        BY <1>1
      <4>3. i = n + 1 /\ b # i /\ (b = a \/ (n < a /\ n < b))
        BY <1>0, <2>1, <3>2, <4>2
      <4>4. ASSUME i < b PROVE posted + 1 = k + i
        <5>1. n < a
          BY <4>3, <4>4
        <5>. QED
          BY <1>2, <4>2, <4>3, <5>1
      <4>5. ASSUME b < i PROVE posted + 1 = k + i - 1
        <5>1. a <= n
          BY <4>3, <4>5
        <5>. QED
          BY <1>2, <4>2, <4>3, <5>1
      <4>. QED
        BY <4>1, <4>3, <4>4, <4>5 DEF PlaceOK
    <3>3. CASE m = Answer(m.n, posted) /\ b = Len(q) + 1 /\ o = <<>>
      <4>1. r[i].kind = "answer" /\ r[i].before = posted
        BY <3>1, <3>3 DEF Answer
      <4>. QED
        BY <1>0, <1>1, <1>2, <2>1, <3>3, <4>1 DEF PlaceOK
    <3>4. CASE m = End /\ b # Len(q) + 1
      <4>1. r[i].kind = "end"
        BY <3>1, <3>4 DEF End
      <4>. QED
        BY <1>0, <1>1, <1>2, <2>1, <3>4, <4>1 DEF PlaceOK
    <3>. QED
      BY <1>0, <3>2, <3>3, <3>4
  <2>2. CASE i # Len(q) + 1
    <3>1. i \in 1..Len(q)
      BY <1>1, <2>2
    <3>2. r[i] = q[i] /\ PlaceOK(out, q, k, a, i) /\ q[i].kind # "end"
      BY <1>1, <1>2, <3>1
    <3>. QED
      BY <1>0, <1>1, <3>1, <3>2 DEF PlaceOK
  <2>. QED
    BY <2>1, <2>2
<1>4. PostedOK(r, p, k, b)
  <2> SUFFICES ASSUME \A i \in 1..Len(r) : r[i].kind # "end"
               PROVE  /\ b <= Len(r) => p = k + Len(r) - 1
                      /\ Len(r) < b => p = k + Len(r)
    BY DEF PostedOK
  <2>1. m.kind # "end"
    BY <1>1
  <2>2. m # End
    BY <2>1 DEF End
  <2>. QED
    BY <1>0, <1>1, <1>2, <2>2
<1>. QED
  BY <1>3, <1>4 DEF Ordered, r

(* A command is written while no answer is in the stream.                  *)
LEMMA Written ==
  ASSUME NEW out, NEW q \in Seq(Message), NEW posted \in Nat, NEW k \in Nat, NEW a \in Nat \ {0},
         Ordered(out, q, posted, k, a), \A i \in 1..Len(q) : q[i].kind # "answer", NEW o
  PROVE  Ordered(o, q, posted, k, a)
BY DEF Ordered, PlaceOK

(* A shell waits for an answer of the session.                             *)
Reader(c, s) == ses[s] = c /\ doing[s] = "read"

(* What was read and what is still to be read of a connection is in order. *)
InOrder(c) ==
  \E k \in Nat : \E a \in Nat \ {0} :
    /\ messages[c] = Down(k)
    /\ Ordered(wire[c].out, wire[c].stream, wire[c].posted, k, a)

(* The one command of a session whose answer is still to be read is that of *)
(* the one shell that waits.                                               *)
Awaited(c) ==
  /\ \A i \in 1..Len(wire[c].stream) : wire[c].stream[i].kind = "answer" =>
       \E s \in Client : Reader(c, s) /\ waits[s] = wire[c].stream[i].n
  /\ wire[c].out # <<>> => \E s \in Client : Reader(c, s) /\ wire[c].out = <<waits[s]>>
  /\ \A s, t \in Client : Reader(c, s) /\ Reader(c, t) => s = t
  /\ mem[c].id \notin handed => wire[c] = Fresh /\ messages[c] = <<>>

(* Until two shells are in one session at a time.                          *)
Answered == ~shared => \A c \in Cell : mem[c].live => InOrder(c) /\ Awaited(c)

(* A step that leaves the wires, the messages and who reads what alone.    *)
LEMMA SameWire ==
  ASSUME NEW c \in Cell, InOrder(c), Awaited(c),
         wire'[c] = wire[c], messages'[c] = messages[c],
         \A s \in Client : Reader(c, s)' <=> Reader(c, s),
         \A s \in Client : Reader(c, s) => waits'[s] = waits[s],
         mem'[c].id = mem[c].id, handed \subseteq handed'
  PROVE  InOrder(c)' /\ Awaited(c)'
<1>1. InOrder(c)'
  BY DEF InOrder
<1>2. \A i \in 1..Len(wire[c].stream) : wire[c].stream[i].kind = "answer" =>
        \E s \in Client : Reader(c, s)' /\ waits'[s] = wire[c].stream[i].n
  BY DEF Awaited
<1>3. wire[c].out # <<>> => \E s \in Client : Reader(c, s)' /\ wire[c].out = <<waits'[s]>>
  BY DEF Awaited
<1>4. \A s, t \in Client : Reader(c, s)' /\ Reader(c, t)' => s = t
  BY DEF Awaited
<1>5. mem'[c].id \notin handed' => wire'[c] = Fresh /\ messages'[c] = <<>>
  BY DEF Awaited
<1>. QED
  BY <1>1, <1>2, <1>3, <1>4, <1>5 DEF Awaited

(* Every step keeps each connection in order, and its one command that is  *)
(* still to be answered that of the one shell that reads.                  *)
LEMMA AnsweredStep ==
  ASSUME HeapTypeOK, WireTypeOK, Owned, Answered, [SessionsNext]_sessionVars
  PROVE  Answered'
<1> SUFFICES ASSUME ~shared', NEW c \in Cell, mem'[c].live
             PROVE  InOrder(c)' /\ Awaited(c)'
  BY DEF Answered
<1> DEFINE q == wire[c].stream
<1>1. ASSUME ~shared, mem[c].live
      PROVE  InOrder(c) /\ Awaited(c) /\ SessionsMade /\ SessionsHeld
  BY <1>1 DEF Answered, Owned
<1>2. /\ wire[c].stream \in Seq(Message) /\ wire[c].out \in Seq(Nat) /\ wire[c].posted \in Nat
      /\ messages[c] \in Seq(Nat) /\ c # NULL
  BY CellAssumption DEF WireTypeOK
<1>3. ASSUME ~shared, mem[c].live, wire'[c] = wire[c], messages'[c] = messages[c],
             \A s \in Client : Reader(c, s)' <=> Reader(c, s),
             \A s \in Client : Reader(c, s) => waits'[s] = waits[s],
             mem'[c].id = mem[c].id, handed \subseteq handed'
      PROVE  InOrder(c)' /\ Awaited(c)'
  <2>1. InOrder(c) /\ Awaited(c)
    BY <1>1, <1>3
  <2>. QED
    BY <1>3, <2>1, SameWire
<1>4. ASSUME NEW s \in Client, New(s) PROVE InOrder(c)' /\ Awaited(c)'
  <2>1. PICK d \in Cell :
          /\ ~mem[d].live
          /\ mem' = [mem EXCEPT ![d] = [live |-> TRUE, next |-> head, prev |-> NULL,
                                        id |-> made + 1]]
          /\ wire' = [wire EXCEPT ![d] = Fresh]
          /\ messages' = [messages EXCEPT ![d] = <<>>]
    BY <1>4 DEF New
  <2>2. /\ doing[s] = "idle" /\ doing' = [doing EXCEPT ![s] = "link"]
        /\ UNCHANGED <<ses, handed, waits, shared>>
    BY <1>4 DEF New
  <2>3. \A t \in Client : Reader(c, t)' <=> Reader(c, t)
    BY <2>2 DEF HeapTypeOK, Reader
  <2>4. CASE c # d
    <3>1. mem'[c] = mem[c] /\ wire'[c] = wire[c] /\ messages'[c] = messages[c]
      BY <2>1, <2>4 DEF HeapTypeOK, WireTypeOK
    <3>. QED
      BY <1>3, <2>2, <2>3, <3>1
  <2>5. CASE c = d
    <3>1. wire'[c] = Fresh /\ messages'[c] = <<>>
      BY <2>1, <2>5 DEF WireTypeOK
    <3>2. \A t \in Client : ~Reader(c, t)
      <4>1. SessionsHeld
        BY <2>2 DEF Owned
      <4>. QED
        BY <1>2, <2>1, <2>5, <4>1 DEF SessionsHeld, Reader
    <3>3. Ordered(<<>>, <<>>, 0, 0, 1) /\ Down(0) = <<>>
      <4>1. \A i \in 1..Len(<<>>) : PlaceOK(<<>>, <<>>, 0, 1, i)
        OBVIOUS
      <4>2. PostedOK(<<>>, 0, 0, 1)
        BY DEF PostedOK
      <4>3. Down(0) = <<>>
        BY DEF Down
      <4>. QED
        BY <4>1, <4>2, <4>3 DEF Ordered
    <3>4. InOrder(c)'
      <4>1. /\ wire'[c].out = <<>> /\ wire'[c].stream = <<>> /\ wire'[c].posted = 0
            /\ messages'[c] = Down(0)
        BY <3>1, <3>3 DEF Fresh
      <4>2. Ordered(wire'[c].out, wire'[c].stream, wire'[c].posted, 0, 1)
        BY <3>3, <4>1
      <4>3. 0 \in Nat /\ 1 \in Nat \ {0}
        OBVIOUS
      <4>. QED
        BY <4>1, <4>2, <4>3 DEF InOrder
    <3>5. Awaited(c)'
      BY <2>3, <3>1, <3>2 DEF Awaited, Fresh
    <3>. QED
      BY <3>4, <3>5
  <2>. QED
    BY <2>4, <2>5
<1>p. ASSUME NEW s \in Client, link_prev(s) PROVE InOrder(c)' /\ Awaited(c)'
  <2>1. /\ mem'[c].id = mem[c].id /\ mem'[c].live = mem[c].live
        /\ UNCHANGED <<ses, handed, waits, wire, messages, shared>>
    BY <1>p, PrevSet
  <2>2. \A t \in Client : Reader(c, t)' <=> Reader(c, t)
    BY <1>p, PrevSet DEF HeapTypeOK, Reader
  <2>. QED
    BY <1>3, <2>1, <2>2
<1>5. ASSUME NEW s \in Client, link_session(s) PROVE InOrder(c)' /\ Awaited(c)'
  <2>1. /\ mem'[c].id = mem[c].id /\ mem'[c].live = mem[c].live
        /\ doing[s] = "link" /\ doing' = [doing EXCEPT ![s] = "prev"]
        /\ UNCHANGED <<ses, handed, waits, wire, messages, shared>>
    BY <1>5 DEF link_session, HeapTypeOK
  <2>2. \A t \in Client : Reader(c, t)' <=> Reader(c, t)
    BY <2>1 DEF HeapTypeOK, Reader
  <2>. QED
    BY <1>3, <2>1, <2>2
<1>6. ASSUME NEW s \in Client, NEW d \in Cell, Delete(s, d)
      PROVE  mem'[c].id = mem[c].id /\ mem[c].live /\ ~shared /\ c # d
  <2>1. mem'[c].id = mem[c].id /\ mem'[c].live = (mem[c].live /\ c # d)
    BY <1>6, Deleted
  <2>. QED
    BY <1>6, <2>1 DEF Delete
<1>7. ASSUME NEW s \in Client, cmd_connect(s) PROVE InOrder(c)' /\ Awaited(c)'
  <2>1. /\ doing[s] = "connect" /\ doing' = [doing EXCEPT ![s] = "idle"]
        /\ UNCHANGED <<waits, wire, messages>>
        /\ making[s] \in Cell
    BY <1>7 DEF cmd_connect, HeapTypeOK, Connecting
  <2>2. CASE Delete(s, making[s]) /\ UNCHANGED <<ses, handed>>
    <3>1. \A t \in Client : Reader(c, t)' <=> Reader(c, t)
      BY <2>1, <2>2 DEF HeapTypeOK, Reader
    <3>2. mem'[c].id = mem[c].id /\ mem[c].live /\ ~shared
      BY <1>6, <2>1, <2>2
    <3>. QED
      BY <1>3, <2>1, <2>2, <3>1, <3>2
  <2>3. CASE /\ ses' = [ses EXCEPT ![s] = making[s]]
             /\ handed' = handed \cup {mem[making[s]].id}
             /\ UNCHANGED <<mem, head, raced, outOfOrder, shared, undefined>>
    <3>1. \A t \in Client : Reader(c, t)' <=> Reader(c, t)
      BY <2>1, <2>3 DEF HeapTypeOK, Reader
    <3>. QED
      BY <1>3, <2>1, <2>3, <3>1
  <2>. QED
    BY <1>7, <2>2, <2>3 DEF cmd_connect
<1>8. ASSUME NEW s \in Client, cmd_reconnect(s) PROVE InOrder(c)' /\ Awaited(c)'
  <2>1. /\ doing[s] = "idle"
        /\ \A t \in Client : t # s => ses'[t] = ses[t]
        /\ UNCHANGED <<mem, doing, handed, waits, wire, messages, shared>>
    BY <1>8 DEF cmd_reconnect, HeapTypeOK
  <2>2. \A t \in Client : Reader(c, t)' <=> Reader(c, t)
    BY <2>1 DEF Reader
  <2>. QED
    BY <1>3, <2>1, <2>2
<1>9. ASSUME NEW s \in Client, cmd_disconnect(s) PROVE InOrder(c)' /\ Awaited(c)'
  <2>1. /\ doing[s] = "idle" /\ ses[s] \in Cell /\ Delete(s, ses[s])
        /\ \A t \in Client : t # s => ses'[t] = ses[t]
        /\ UNCHANGED <<doing, handed, waits, wire, messages>>
    BY <1>9 DEF cmd_disconnect, Live, HeapTypeOK, Spot
  <2>2. \A t \in Client : Reader(c, t)' <=> Reader(c, t)
    BY <2>1 DEF Reader
  <2>3. mem'[c].id = mem[c].id /\ mem[c].live /\ ~shared
    BY <1>6, <2>1
  <2>. QED
    BY <1>3, <2>1, <2>2, <2>3
<1>10. ASSUME NEW s \in Client, Quit(s) PROVE InOrder(c)' /\ Awaited(c)'
  <2>1. /\ doing[s] = "idle"
        /\ \A t \in Client : t # s => ses'[t] = ses[t]
        /\ UNCHANGED <<mem, doing, handed, waits, wire, messages, shared>>
    BY <1>10 DEF Quit, HeapTypeOK
  <2>2. \A t \in Client : Reader(c, t)' <=> Reader(c, t)
    BY <2>1 DEF Reader
  <2>. QED
    BY <1>3, <2>1, <2>2
<1>11. ASSUME NEW s \in Client, Relay(s) PROVE InOrder(c)' /\ Awaited(c)'
  <2>1. /\ doing[s] = "idle" /\ ses[s] \in Cell /\ doing' = [doing EXCEPT ![s] = "read"]
        /\ wire' = [wire EXCEPT ![ses[s]].out = Append(@, issued + 1)]
        /\ waits' = [waits EXCEPT ![s] = issued + 1]
        /\ UNCHANGED <<mem, ses, handed, messages>>
        /\ ~shared /\ ~\E t \in Others(s, ses[s]) : doing[t] = "read"
    BY <1>11 DEF Relay, Live, HeapTypeOK, Spot
  <2>2. CASE c # ses[s]
    <3>1. wire'[c] = wire[c]
      BY <2>1, <2>2 DEF WireTypeOK
    <3>2. \A t \in Client : Reader(c, t)' <=> Reader(c, t)
      BY <2>1, <2>2 DEF HeapTypeOK, Reader
    <3>3. \A t \in Client : Reader(c, t) => waits'[t] = waits[t]
      BY <2>1, <2>2 DEF WireTypeOK, Reader
    <3>. QED
      BY <1>3, <2>1, <3>1, <3>2, <3>3
  <2>3. CASE c = ses[s]
    <3>1. InOrder(c) /\ Awaited(c) /\ SessionsHeld /\ mem[c].live
      BY <1>1, <2>1
    <3>2. \A t \in Client : ~Reader(c, t)
      BY <2>1, <2>3 DEF Reader, Others
    <3>3. wire[c].out = <<>> /\ \A i \in 1..Len(q) : q[i].kind # "answer"
      BY <3>1, <3>2 DEF Awaited
    <3>4. /\ wire'[c].stream = q /\ wire'[c].posted = wire[c].posted
          /\ wire'[c].out = Append(wire[c].out, issued + 1)
      BY <2>1, <2>3 DEF WireTypeOK
    <3>5. wire'[c].out = <<issued + 1>>
      <4>1. \A n \in Nat : Append(<<>>, n) = <<n>>
        OBVIOUS
      <4>. QED
        BY <3>3, <3>4, <4>1 DEF WireTypeOK
    <3>6. PICK k \in Nat : \E a \in Nat \ {0} :
            /\ messages[c] = Down(k)
            /\ Ordered(wire[c].out, wire[c].stream, wire[c].posted, k, a)
      BY <3>1 DEF InOrder
    <3>7. PICK a \in Nat \ {0} :
            /\ messages[c] = Down(k)
            /\ Ordered(wire[c].out, wire[c].stream, wire[c].posted, k, a)
      BY <3>6
    <3>8. Ordered(wire'[c].out, wire'[c].stream, wire'[c].posted, k, a)
      BY SMTT(30), <1>2, <3>3, <3>4, <3>7, Written
    <3>9. InOrder(c)'
      BY <2>1, <3>7, <3>8 DEF InOrder
    <3>10. \A t \in Client : Reader(c, t)' <=> t = s
      BY <2>1, <2>3, <3>2 DEF HeapTypeOK, Reader
    <3>11. waits'[s] = issued + 1 /\ mem[c].id \in handed
      BY <1>2, <2>1, <2>3, <3>1 DEF WireTypeOK, SessionsHeld
    <3>12. Awaited(c)'
      BY <2>1, <3>3, <3>4, <3>5, <3>10, <3>11 DEF Awaited
    <3>. QED
      BY <3>9, <3>12
  <2>. QED
    BY <2>2, <2>3
<1>12. ASSUME NEW s \in Client, read_message(s) PROVE InOrder(c)' /\ Awaited(c)'
  <2> DEFINE m == Head(wire[ses[s]].stream)
  <2>1. /\ doing[s] = "read" /\ ses[s] \in Cell /\ wire[ses[s]].stream # <<>>
        /\ UNCHANGED <<handed, waits>>
    BY <1>12 DEF read_message, Live, HeapTypeOK, Spot
  <2>2. CASE /\ m.kind = "end" /\ ses' = [ses EXCEPT ![s] = NULL]
             /\ doing' = [doing EXCEPT ![s] = "idle"]
             /\ Delete(s, ses[s]) /\ UNCHANGED wireVars
    <3>1. mem'[c].id = mem[c].id /\ mem[c].live /\ ~shared /\ c # ses[s]
      BY <1>6, <2>1, <2>2
    <3>2. \A t \in Client : Reader(c, t)' <=> Reader(c, t)
      BY <2>1, <2>2, <3>1 DEF HeapTypeOK, Reader
    <3>. QED
      BY <1>3, <2>1, <2>2, <3>1, <3>2 DEF wireVars
  <2>3. CASE /\ m.kind = "event"
             /\ wire' = [wire EXCEPT ![ses[s]].stream = Tail(@)]
             /\ messages' = [messages EXCEPT ![ses[s]] = <<m.n>> \o @]
             /\ UNCHANGED <<mem, ses, doing, shared>>
    <3>1. \A t \in Client : Reader(c, t)' <=> Reader(c, t)
      BY <2>3 DEF Reader
    <3>2. CASE c # ses[s]
      <4>1. wire'[c] = wire[c] /\ messages'[c] = messages[c]
        BY <2>3, <3>2 DEF WireTypeOK
      <4>. QED
        BY <1>3, <2>1, <2>3, <3>1, <4>1
    <3>3. CASE c = ses[s]
      <4>1. InOrder(c) /\ Awaited(c)
        BY <1>1, <2>3
      <4>2. PICK k \in Nat : \E a \in Nat \ {0} :
              /\ messages[c] = Down(k)
              /\ Ordered(wire[c].out, wire[c].stream, wire[c].posted, k, a)
        BY <4>1 DEF InOrder
      <4>3. PICK a \in Nat \ {0} :
              /\ messages[c] = Down(k)
              /\ Ordered(wire[c].out, wire[c].stream, wire[c].posted, k, a)
        BY <4>2
      <4>4. /\ wire'[c].stream = Tail(wire[c].stream) /\ wire'[c].out = wire[c].out
            /\ wire'[c].posted = wire[c].posted
            /\ messages'[c] = <<Head(wire[c].stream).n>> \o messages[c]
        BY <2>3, <3>3 DEF WireTypeOK
      <4>5. wire[c].stream # <<>> /\ Head(wire[c].stream).kind = "event"
        BY <2>1, <2>3, <3>3
      <4>6. /\ Head(wire[c].stream).n = k + 1 /\ a - 1 \in Nat \ {0}
            /\ Ordered(wire[c].out, Tail(wire[c].stream), wire[c].posted, k + 1, a - 1)
        BY <1>2, <4>3, <4>5, MessageRead
      <4>7. messages'[c] = Down(k + 1)
        BY <4>3, <4>4, <4>6, DownNext
      <4>8. InOrder(c)'
        <5>1. k + 1 \in Nat
          OBVIOUS
        <5>. QED
          BY <4>4, <4>6, <4>7, <5>1 DEF InOrder
      <4>9. \A i \in 1..Len(wire'[c].stream) : \E j \in 1..Len(wire[c].stream) :
              wire'[c].stream[i] = wire[c].stream[j]
        <5>1. /\ Len(Tail(wire[c].stream)) = Len(wire[c].stream) - 1
              /\ Len(wire[c].stream) \in Nat
              /\ \A i \in 1..(Len(wire[c].stream) - 1) :
                   Tail(wire[c].stream)[i] = wire[c].stream[i + 1]
          BY <1>2, <4>5, TailOf
        <5> SUFFICES ASSUME NEW i \in 1..Len(wire'[c].stream)
                     PROVE  \E j \in 1..Len(wire[c].stream) :
                              wire'[c].stream[i] = wire[c].stream[j]
          OBVIOUS
        <5>2. i \in 1..(Len(wire[c].stream) - 1) /\ i + 1 \in 1..Len(wire[c].stream)
          BY <4>4, <5>1
        <5>. QED
          BY <4>4, <5>1, <5>2
      <4>10. mem[c].id \in handed
        BY <4>1, <4>5 DEF Awaited, Fresh
      <4>11. \A i \in 1..Len(wire'[c].stream) : wire'[c].stream[i].kind = "answer" =>
               \E t \in Client : Reader(c, t)' /\ waits'[t] = wire'[c].stream[i].n
        <5> SUFFICES ASSUME NEW i \in 1..Len(wire'[c].stream), wire'[c].stream[i].kind = "answer"
                     PROVE  \E t \in Client : Reader(c, t)' /\ waits'[t] = wire'[c].stream[i].n
          OBVIOUS
        <5>1. PICK j \in 1..Len(wire[c].stream) : wire'[c].stream[i] = wire[c].stream[j]
          BY <4>9
        <5>2. \E t \in Client : Reader(c, t) /\ waits[t] = wire[c].stream[j].n
          BY <4>1, <5>1 DEF Awaited
        <5>. QED
          BY <2>1, <3>1, <5>1, <5>2
      <4>12. /\ wire[c].out # <<>> => \E t \in Client : Reader(c, t) /\ wire[c].out = <<waits[t]>>
             /\ \A t, u \in Client : Reader(c, t) /\ Reader(c, u) => t = u
        BY <4>1 DEF Awaited
      <4>13. Awaited(c)'
        BY <2>1, <2>3, <3>1, <4>4, <4>10, <4>11, <4>12 DEF Awaited
      <4>. QED
        BY <4>8, <4>13
    <3>. QED
      BY <3>2, <3>3
  <2>4. CASE /\ m.kind = "answer"
             /\ wire' = [wire EXCEPT ![ses[s]].stream = Tail(@)]
             /\ doing' = [doing EXCEPT ![s] = "idle"]
             /\ UNCHANGED <<mem, ses, messages, shared>>
    <3>1. CASE c # ses[s]
      <4>1. wire'[c] = wire[c]
        BY <2>4, <3>1 DEF WireTypeOK
      <4>2. \A t \in Client : Reader(c, t)' <=> Reader(c, t)
        BY <2>4, <3>1 DEF HeapTypeOK, Reader
      <4>. QED
        BY <1>3, <2>1, <2>4, <4>1, <4>2
    <3>2. CASE c = ses[s]
      <4>1. InOrder(c) /\ Awaited(c)
        BY <1>1, <2>4
      <4>2. PICK k \in Nat : \E a \in Nat \ {0} :
              /\ messages[c] = Down(k)
              /\ Ordered(wire[c].out, wire[c].stream, wire[c].posted, k, a)
        BY <4>1 DEF InOrder
      <4>3. PICK a \in Nat \ {0} :
              /\ messages[c] = Down(k)
              /\ Ordered(wire[c].out, wire[c].stream, wire[c].posted, k, a)
        BY <4>2
      <4>4. /\ wire'[c].stream = Tail(wire[c].stream) /\ wire'[c].out = wire[c].out
            /\ wire'[c].posted = wire[c].posted
        BY <2>4, <3>2 DEF WireTypeOK
      <4>5. wire[c].stream # <<>> /\ Head(wire[c].stream).kind = "answer"
        BY <2>1, <2>4, <3>2
      <4>6. /\ wire[c].out = <<>>
            /\ Ordered(wire[c].out, Tail(wire[c].stream), wire[c].posted, k, Len(wire[c].stream))
            /\ \A i \in 1..Len(Tail(wire[c].stream)) : Tail(wire[c].stream)[i].kind # "answer"
        BY <1>2, <4>3, <4>5, AnswerRead
      <4>7. Len(wire[c].stream) \in Nat \ {0}
        BY <1>2, <4>5, TailOf
      <4>8. InOrder(c)'
        BY <2>4, <4>3, <4>4, <4>6, <4>7 DEF InOrder
      <4>9. mem[c].id \in handed
        BY <4>1, <4>5 DEF Awaited, Fresh
      <4>10. \A t \in Client : ~Reader(c, t)'
        <5>1. Reader(c, s)
          BY <2>1, <3>2 DEF Reader
        <5>2. \A t \in Client : Reader(c, t) => t = s
          BY <4>1, <5>1 DEF Awaited
        <5>. QED
          BY <2>4, <5>2 DEF HeapTypeOK, Reader
      <4>11. Awaited(c)'
        BY <2>1, <2>4, <4>4, <4>6, <4>9, <4>10 DEF Awaited
      <4>. QED
        BY <4>8, <4>11
    <3>. QED
      BY <3>1, <3>2
  <2>. QED
    BY <1>12, <2>2, <2>3, <2>4 DEF read_message
<1>13. ASSUME NEW s \in Client, UseFreed(s) PROVE InOrder(c)' /\ Awaited(c)'
  BY <1>3, <1>13 DEF UseFreed, Reader
<1>14. ASSUME NEW d \in Cell, Remote(d) PROVE InOrder(c)' /\ Awaited(c)'
  <2>1. /\ UNCHANGED <<mem, ses, doing, handed, messages, waits, shared>>
        /\ mem[d].id \in handed
    BY <1>14 DEF Remote
  <2>2. \A t \in Client : Reader(c, t)' <=> Reader(c, t)
    BY <2>1 DEF Reader
  <2>3. CASE c # d
    <3>1. wire'[c] = wire[c]
      BY <1>14, <2>3 DEF Remote, WireTypeOK
    <3>. QED
      BY <1>3, <2>1, <2>2, <3>1
  <2>4. CASE c = d
    <3>1. InOrder(c) /\ Awaited(c)
      BY <1>1, <2>1
    <3>2. PICK k \in Nat : \E a \in Nat \ {0} :
            /\ messages[c] = Down(k)
            /\ Ordered(wire[c].out, wire[c].stream, wire[c].posted, k, a)
      BY <3>1 DEF InOrder
    <3>3. PICK a \in Nat \ {0} :
            /\ messages[c] = Down(k)
            /\ Ordered(wire[c].out, wire[c].stream, wire[c].posted, k, a)
      BY <3>2
    <3>4. \A i \in 1..Len(wire[c].stream) : wire[c].stream[i].kind # "end"
      <4>1. End \notin {wire[c].stream[i] : i \in DOMAIN wire[c].stream}
        BY <1>14, <2>4 DEF Remote
      <4>2. DOMAIN wire[c].stream = 1..Len(wire[c].stream)
        BY <1>2
      <4>. QED
        BY <3>3, <4>1, <4>2 DEF Ordered, PlaceOK
    <3>5. ASSUME NEW x \in Message, NEW o \in Seq(Nat), o = <<>> \/ o = wire[c].out, NEW p \in Nat,
                 NEW b \in Nat \ {0},
                 Sent(x, o, wire[c].posted, p, a, b, Len(wire[c].stream)),
                 wire'[c].out = o, wire'[c].stream = Append(wire[c].stream, x),
                 wire'[c].posted = p
          PROVE  InOrder(c)'
      <4>1. Ordered(o, Append(wire[c].stream, x), p, k, b)
        BY <1>2, <3>3, <3>4, <3>5, Appended
      <4>. QED
        BY <2>1, <3>3, <3>5, <4>1 DEF InOrder
    <3>6. PICK b \in Nat \ {0} : /\ b = a \/ (Len(wire[c].stream) < a /\ Len(wire[c].stream) < b)
                                 /\ b # Len(wire[c].stream) + 1
      <4>1. Len(wire[c].stream) + 2 \in Nat \ {0} /\ Len(wire[c].stream) \in Nat
        BY <1>2
      <4>2. CASE a <= Len(wire[c].stream)
        BY <4>1, <4>2
      <4>3. CASE Len(wire[c].stream) < a
        BY SMTT(30), <4>1, <4>3
      <4>. QED
        BY <4>1, <4>2, <4>3
    <3>7. ASSUME NEW x \in Message, x.kind # "answer", wire'[c].out = wire[c].out,
                 wire'[c].stream = Append(wire[c].stream, x)
          PROVE  Awaited(c)'
      <4>1. \A i \in 1..Len(wire'[c].stream) : wire'[c].stream[i].kind = "answer" =>
              i \in 1..Len(wire[c].stream) /\ wire'[c].stream[i] = wire[c].stream[i]
        BY <1>2, <3>7, AppendOf
      <4>. QED
        BY <2>1, <2>2, <2>4, <3>1, <3>7, <4>1 DEF Awaited
    <3>8. CASE /\ wire[c].out # <<>>
               /\ wire' = [wire EXCEPT ![c].out = Tail(@),
                             ![c].stream = Append(@, Answer(Head(wire[c].out), wire[c].posted))]
      <4>1. PICK s \in Client : Reader(c, s) /\ wire[c].out = <<waits[s]>>
        BY <3>1, <3>8 DEF Awaited
      <4>2. waits[s] \in Nat
        BY DEF WireTypeOK
      <4>3. Head(wire[c].out) = waits[s] /\ Tail(wire[c].out) = <<>>
        BY <4>1, <4>2
      <4> DEFINE x == Answer(waits[s], wire[c].posted)
      <4>4. x \in Message /\ x.n = waits[s] /\ x.kind = "answer"
        BY <1>2, <4>2 DEF Answer, Message
      <4>5. /\ wire'[c].out = <<>> /\ wire'[c].stream = Append(wire[c].stream, x)
            /\ wire'[c].posted = wire[c].posted
        BY <3>8, <4>3 DEF WireTypeOK
      <4>6. Len(wire[c].stream) < a
        <5>1. Len(wire[c].stream) \in Nat
          BY <1>2
        <5>2. a \notin 1..Len(wire[c].stream)
          BY <3>3, <3>8 DEF Ordered, PlaceOK
        <5>. QED
          BY <5>1, <5>2
      <4> HIDE DEF x
      <4>7. InOrder(c)'
        <5>1. Len(wire[c].stream) + 1 \in Nat \ {0} /\ Len(wire[c].stream) < Len(wire[c].stream) + 1
          BY <1>2
        <5>2. <<>> \in Seq(Nat) /\ x = Answer(x.n, wire[c].posted)
          BY <4>4 DEF x
        <5>3. Sent(x, <<>>, wire[c].posted, wire[c].posted, a, Len(wire[c].stream) + 1,
                   Len(wire[c].stream))
          BY <4>6, <5>1, <5>2 DEF Sent
        <5>. QED
          BY <1>2, <3>5, <4>4, <4>5, <5>1, <5>2, <5>3
      <4>8. \A i \in 1..Len(wire'[c].stream) :
              \/ i \in 1..Len(wire[c].stream) /\ wire'[c].stream[i] = wire[c].stream[i]
              \/ wire'[c].stream[i] = x
        BY <1>2, <4>4, <4>5, AppendOf
      <4>9. \A i \in 1..Len(wire[c].stream) : wire[c].stream[i].kind # "answer"
        BY <3>3, <3>8 DEF Ordered, PlaceOK
      <4>10. Awaited(c)'
        BY <2>1, <2>2, <2>4, <3>1, <4>1, <4>4, <4>5, <4>8, <4>9 DEF Awaited
      <4>. QED
        BY <4>7, <4>10
    <3>9. CASE wire' = [wire EXCEPT ![c].posted = @ + 1,
                                    ![c].stream = Append(@, Event(wire[c].posted + 1))]
      <4>1. Event(wire[c].posted + 1) \in Message /\ Event(wire[c].posted + 1).kind = "event"
        BY <1>2 DEF Event, Message
      <4>2. /\ wire'[c].out = wire[c].out /\ wire'[c].posted = wire[c].posted + 1
            /\ wire'[c].stream = Append(wire[c].stream, Event(wire[c].posted + 1))
        BY <3>9 DEF WireTypeOK
      <4>3. Sent(Event(wire[c].posted + 1), wire[c].out, wire[c].posted, wire[c].posted + 1,
                 a, b, Len(wire[c].stream))
        BY <3>6 DEF Sent
      <4>4. InOrder(c)'
        <5>1. wire[c].posted + 1 \in Nat
          BY <1>2
        <5>. QED
          BY <1>2, <3>5, <4>1, <4>2, <4>3, <5>1
      <4>5. Awaited(c)'
        BY <3>7, <4>1, <4>2
      <4>. QED
        BY <4>4, <4>5
    <3>10. CASE wire' = [wire EXCEPT ![c].stream = Append(@, End)]
      <4>1. End \in Message /\ End.kind = "end"
        BY DEF End, Message
      <4>2. /\ wire'[c].out = wire[c].out /\ wire'[c].posted = wire[c].posted
            /\ wire'[c].stream = Append(wire[c].stream, End)
        BY <3>10 DEF WireTypeOK
      <4>3. Sent(End, wire[c].out, wire[c].posted, wire[c].posted, a, b, Len(wire[c].stream))
        BY <3>6 DEF Sent
      <4>4. InOrder(c)'
        BY <1>2, <3>5, <4>1, <4>2, <4>3
      <4>5. Awaited(c)'
        BY <3>7, <4>1, <4>2
      <4>. QED
        BY <4>4, <4>5
    <3>. QED
      BY <1>14, <2>4, <3>8, <3>9, <3>10 DEF Remote
  <2>. QED
    BY <2>3, <2>4
<1>15. ASSUME UNCHANGED sessionVars PROVE InOrder(c)' /\ Awaited(c)'
  BY <1>3, <1>15 DEF sessionVars, Reader
<1>. QED
  BY <1>4, <1>p, <1>5, <1>7, <1>8, <1>9, <1>10, <1>11, <1>12, <1>13, <1>14, <1>15 DEF SessionsNext

(* What a shell relayed changes when it reads an answer and when its client*)
(* goes, and the answer it reads is the one it waited for.                 *)
LEMMA RelayedStep ==
  ASSUME HeapTypeOK, WireTypeOK, Owned, Answered, AnswerOwn, [SessionsNext]_sessionVars
  PROVE  AnswerOwn'
<1> SUFFICES ASSUME ~shared', NEW t \in Client
             PROVE  /\ relayed'[t].answer = relayed'[t].cmd
                    /\ relayed'[t].events = Down(relayed'[t].before)
  BY DEF AnswerOwn, Down
<1>0. \A s \in Client : link_prev(s) => UNCHANGED <<shared, relayed>>
  BY DEF link_prev
<1>1. ~shared
  <2>1. ASSUME NEW s \in Client, New(s) \/ link_session(s) \/ cmd_reconnect(s) \/ UseFreed(s)
        PROVE  UNCHANGED shared
    BY <2>1 DEF New, link_session, cmd_reconnect, UseFreed
  <2>2. ASSUME NEW s \in Client, cmd_connect(s) PROVE shared => shared'
    BY <2>2 DEF cmd_connect, Delete
  <2>3. ASSUME NEW s \in Client, cmd_disconnect(s) PROVE shared => shared'
    BY <2>3 DEF cmd_disconnect, Delete
  <2>4. ASSUME NEW s \in Client, Relay(s) PROVE shared => shared'
    BY <2>4 DEF Relay
  <2>5. ASSUME NEW s \in Client, read_message(s) PROVE shared => shared'
    BY <2>5 DEF read_message, Delete
  <2>6. ASSUME NEW s \in Client, Quit(s) PROVE shared => shared'
    BY <2>6 DEF Quit, Delete
  <2>7. ASSUME NEW c \in Cell, Remote(c) PROVE UNCHANGED shared
    BY <2>7 DEF Remote
  <2>8. CASE UNCHANGED sessionVars
    BY <2>8 DEF sessionVars
  <2>. QED
    BY <1>0, <2>1, <2>2, <2>3, <2>4, <2>5, <2>6, <2>7, <2>8 DEF SessionsNext
<1>2. /\ relayed[t].answer = relayed[t].cmd
      /\ relayed[t].events = Down(relayed[t].before)
  BY <1>1 DEF AnswerOwn, Down
<1>3. Silent.answer = Silent.cmd /\ Silent.events = Down(Silent.before)
  <2>1. Down(0) = <<>>
    BY DEF Down
  <2>. QED
    BY <2>1 DEF Silent
<1>4. CASE relayed'[t] = relayed[t]
  BY <1>2, <1>4
<1>5. CASE relayed'[t] = Silent
  BY <1>3, <1>5
<1>6. ASSUME NEW s \in Client, read_message(s), relayed'[t] # relayed[t], relayed'[t] # Silent
      PROVE  /\ relayed'[t].answer = relayed'[t].cmd
             /\ relayed'[t].events = Down(relayed'[t].before)
  <2> DEFINE c == ses[s]
             q == wire[c].stream
  <2>1. c \in Cell /\ mem[c].live /\ doing[s] = "read" /\ q # <<>>
    BY <1>6 DEF read_message, Live, HeapTypeOK, Spot
  <2>2. /\ Head(q).kind = "answer"
        /\ relayed' = [relayed EXCEPT ![s] = [cmd |-> waits[s], answer |-> Head(q).n,
                                        events |-> messages[c], before |-> Head(q).before]]
    BY <1>6 DEF read_message, WireTypeOK
  <2>3. /\ relayed'[t].cmd = waits[s] /\ relayed'[t].answer = Head(q).n
        /\ relayed'[t].events = messages[c] /\ relayed'[t].before = Head(q).before
    BY <1>6, <2>2 DEF WireTypeOK
  <2>4. InOrder(c) /\ Awaited(c)
    BY <1>1, <2>1 DEF Answered
  <2>5. PICK k \in Nat : \E a \in Nat \ {0} :
          messages[c] = Down(k) /\ Ordered(wire[c].out, q, wire[c].posted, k, a)
    BY <2>4 DEF InOrder
  <2>6. PICK a \in Nat \ {0} :
          messages[c] = Down(k) /\ Ordered(wire[c].out, q, wire[c].posted, k, a)
    BY <2>5
  <2>7. q \in Seq(Message) /\ wire[c].posted \in Nat
    BY <2>1 DEF WireTypeOK
  <2>8. Head(q).before = k
    BY <2>1, <2>2, <2>6, <2>7, AnswerRead
  <2>9. 1 \in 1..Len(q) /\ q[1] = Head(q)
    BY <2>1, <2>7, TailOf
  <2>10. PICK u \in Client : Reader(c, u) /\ waits[u] = Head(q).n
    BY <2>2, <2>4, <2>9 DEF Awaited
  <2>11. u = s
    BY <2>1, <2>4, <2>10 DEF Awaited, Reader
  <2>. QED
    BY <2>3, <2>6, <2>8, <2>10, <2>11
<1>7. ASSUME NEW s \in Client, Quit(s) PROVE relayed'[t] = relayed[t] \/ relayed'[t] = Silent
  BY <1>7 DEF Quit, WireTypeOK
<1>. QED
  BY <1>0, <1>4, <1>5, <1>6, <1>7 DEF SessionsNext, New, link_session, cmd_connect, cmd_reconnect,
     cmd_disconnect, Relay, UseFreed, Remote, sessionVars

SessionsInv == HeapTypeOK /\ WireTypeOK /\ Owned /\ Stacked /\ Answered /\ AnswerOwn

(* The inductive invariant of the sessions.                                *)
LEMMA SessionsInvariant == SessionsSpec => []SessionsInv
<1>1. SessionsInit => SessionsInv
  <2> SUFFICES ASSUME SessionsInit PROVE Stacked /\ Answered /\ AnswerOwn
    BY SessionsTypeInit DEF SessionsInv
  <2>1. 0 \in Nat /\ [i \in 1..0 |-> head] \in [1..0 -> Cell]
    OBVIOUS
  <2>2. IsList(0, [i \in 1..0 |-> head])
    BY DEF SessionsInit, IsList
  <2>3. Stacked
    BY <2>1, <2>2 DEF Stacked, Listed, SessionsInit
  <2>4. Answered
    BY DEF SessionsInit, Answered
  <2>5. [i \in 1..0 |-> 1 - i] = <<>>
    OBVIOUS
  <2>6. AnswerOwn
    BY <2>5 DEF SessionsInit, AnswerOwn, Silent
  <2>. QED
    BY <2>3, <2>4, <2>6
<1>2. SessionsInv /\ [SessionsNext]_sessionVars => SessionsInv'
  BY HeapTypeStep, WireTypeStep, OwnedStep, StackedStep, AnsweredStep, RelayedStep DEF SessionsInv
<1>. QED
  BY <1>1, <1>2, PTL DEF SessionsSpec

(* SessionsFindable: in a quiet run reconnect finds every session that is  *)
(* there, says so of every one that is not, and nobody uses freed memory.  *)
THEOREM SessionsFound == SessionsSpec => []SessionsFindable
<1>1. SessionsInv => SessionsFindable
  <2> SUFFICES ASSUME SessionsInv, Quiet, NEW id \in handed
               PROVE  /\ ~undefined
                      /\ IF \E c \in Cell : Live(c) /\ mem[c].id = id
                           THEN \E c \in Cell : Finds(id, c)
                           ELSE FindsNone(id)
    BY DEF SessionsFindable, Quiet, SessionsInv, Stacked
  <2>1. PICK n \in Nat : \E p \in [1..n -> Cell] : IsList(n, p)
    BY DEF SessionsInv, Stacked, Listed
  <2>2. PICK p \in [1..n -> Cell] : IsList(n, p)
    BY <2>1
  <2>. QED
    BY <2>2, Findable DEF SessionsInv, Stacked, Quiet
<1>. QED
  BY <1>1, SessionsInvariant, PTL

(* AnswerOwn: unless two shells had commands in one session at once, or one *)
(* deleted it under another, a shell relays the answer to its own command, *)
(* with every event that came before it.                                   *)
THEOREM AnswersOwn == SessionsSpec => []AnswerOwn
<1>1. SessionsInv => AnswerOwn
  BY DEF SessionsInv
<1>. QED
  BY <1>1, SessionsInvariant, PTL

-----------------------------------------------------------------------------
(* The transaction log                                                     *)

(* The types of the log, with the lines and the transactions named.        *)
Line == (Operation \X Nat) \cup {Joined}
Tx == [id : Nat, known : Known]

LogTypeOK ==
  /\ file \in Seq(Line) /\ torn \in BOOLEAN
  /\ stage \in {"closed", "sync", "open"}
  /\ todo \in Seq(Nat) /\ counter \in Nat
  /\ xs \in Seq(Tx)
  /\ failures \in Nat /\ swallowed \subseteq DOMAIN xs

(* The greatest of some numbers with a bound.                              *)
LEMMA Greatest ==
  ASSUME NEW S, S \subseteq Nat, S # {}, NEW m \in Nat, \A i \in S : i <= m
  PROVE  \E i \in S : \A j \in S : j <= i
<1> SUFFICES ASSUME \A i \in S : \E j \in S : ~(j <= i)
             PROVE  FALSE
  OBVIOUS
<1> DEFINE T == {n \in 0..(m + 1) : \E j \in S : n <= j}
<1>1. 0 \in T
  <2>1. PICK i \in S : 0 <= i
    <3>1. \A i \in Nat : 0 <= i
      OBVIOUS
    <3>2. \E i \in S : i \in Nat
      OBVIOUS
    <3>. QED
      BY <3>1, <3>2
  <2>2. 0 \in 0..(m + 1)
    OBVIOUS
  <2>. QED
    BY <2>1, <2>2
<1>2. ASSUME NEW n \in T \cap 0..(m + 1), n < m + 1 PROVE n + 1 \in T
  <2>1. PICK i \in S : n <= i
    BY <1>2
  <2>2. PICK j \in S : ~(j <= i)
    OBVIOUS
  <2>3. n \in Nat /\ i \in Nat /\ j \in Nat
    BY <1>2
  <2>4. n + 1 <= j /\ n + 1 \in 0..(m + 1)
    BY <1>2, <2>1, <2>2, <2>3
  <2>. QED
    BY <2>4
<1>3. m + 1 \in Nat
  OBVIOUS
<1> HIDE DEF T
<1>4. 0..(m + 1) \subseteq T
  BY <1>1, <1>2, <1>3, CountsUp
<1>5. m + 1 \in T
  BY <1>3, <1>4
<1>6. PICK j \in S : m + 1 <= j
  BY <1>5 DEF T
<1>. QED
  BY <1>6

(* What a line appended to the file does to what sync reads.               *)
LEMMA LineRead ==
  ASSUME file \in Seq(Line), NEW line \in Line, file' = Append(file, line)
  PROVE  /\ file' \in Seq(Line)
         /\ Ids' = IF line = Joined THEN Ids ELSE Ids \cup {line[2]}
         /\ \A i : State(i)' = IF line # Joined /\ line[2] = i THEN line[1] ELSE State(i)
<1> DEFINE n == Len(file)
<1>1. /\ n \in Nat /\ file' \in Seq(Line) /\ Len(file') = n + 1
      /\ \A k \in 1..n : file'[k] = file[k]
      /\ file'[n + 1] = line
      /\ DOMAIN file = 1..n /\ DOMAIN file' = 1..(n + 1)
  OBVIOUS
<1> HIDE DEF n
<1>2. Ids' = IF line = Joined THEN Ids ELSE Ids \cup {line[2]}
  <2>1. {k \in DOMAIN file' : file'[k] # Joined}
          = {k \in DOMAIN file : file[k] # Joined} \cup (IF line = Joined THEN {} ELSE {n + 1})
    BY <1>1
  <2>2. {file'[k][2] : k \in {l \in DOMAIN file' : file'[l] # Joined}}
          = {file[k][2] : k \in {l \in DOMAIN file : file[l] # Joined}}
              \cup (IF line = Joined THEN {} ELSE {line[2]})
    BY <1>1, <2>1
  <2>. QED
    BY <2>2 DEF Ids
<1>3. ASSUME NEW i
      PROVE  State(i)' = IF line # Joined /\ line[2] = i THEN line[1] ELSE State(i)
  <2>1. LinesOf(i) \subseteq 1..n
    BY <1>1 DEF LinesOf
  <2>2. CASE line # Joined /\ line[2] = i
    <3>1. LinesOf(i)' = LinesOf(i) \cup {n + 1}
      BY <1>1, <2>2 DEF LinesOf
    <3>2. \A l \in LinesOf(i)' : l <= n + 1
      BY <1>1, <2>1, <3>1
    <3>3. \A k \in LinesOf(i)' : (\A l \in LinesOf(i)' : l <= k) => k = n + 1
      BY <1>1, <2>1, <3>1
    <3>4. (CHOOSE k \in LinesOf(i)' : \A l \in LinesOf(i)' : l <= k) = n + 1
      BY <3>1, <3>2, <3>3
    <3>5. State(i)' = file'[n + 1][1]
      BY <3>1, <3>4 DEF State
    <3>. QED
      BY <1>1, <2>2, <3>5
  <2>3. CASE ~(line # Joined /\ line[2] = i)
    <3>1. LinesOf(i)' = LinesOf(i)
      BY <1>1, <2>3 DEF LinesOf
    <3>2. CASE LinesOf(i) = {}
      BY <2>3, <3>1, <3>2 DEF State
    <3>3. CASE LinesOf(i) # {} /\ (CHOOSE k \in LinesOf(i) : \A l \in LinesOf(i) : l <= k) \in 1..n
      BY <1>1, <2>3, <3>1, <3>3 DEF State
    <3>4. ASSUME LinesOf(i) # {}
          PROVE  (CHOOSE k \in LinesOf(i) : \A l \in LinesOf(i) : l <= k) \in 1..n
      <4>1. \E k \in LinesOf(i) : \A l \in LinesOf(i) : l <= k
        <5>1. LinesOf(i) \subseteq Nat /\ \A k \in LinesOf(i) : k <= n
          BY <1>1, <2>1
        <5>. QED
          BY <1>1, <3>4, <5>1, Greatest
      <4>. QED
        BY <2>1, <4>1
    <3>. QED
      BY <3>2, <3>3, <3>4
  <2>. QED
    BY <2>2, <2>3
<1>. QED
  BY <1>1, <1>2, <1>3

(* sync moves the counter past every identifier of the file.               *)
LEMMA CounterPast ==
  ASSUME file \in Seq(Line)
  PROVE  Counter \in Nat /\ \A i \in Ids : i \in Nat /\ i < Counter
<1>1. Ids \subseteq Nat
  BY DEF Ids, Line
<1>2. CASE Ids = {}
  BY <1>2 DEF Counter
<1>3. CASE Ids # {}
  <2> DEFINE n == Len(file)
             Bounds(k, m) == \A l \in 1..k : file[l] # Joined => file[l][2] <= m
             T == {k \in 0..n : \E m \in Nat : Bounds(k, m)}
  <2>1. n \in Nat /\ DOMAIN file = 1..n
    OBVIOUS
  <2>2. \A l \in 1..n : file[l] # Joined => file[l][2] \in Nat
    BY DEF Line
  <2> HIDE DEF n
  <2>3. 0 \in T
    BY <2>1
  <2>4. ASSUME NEW k \in T \cap 0..n, k < n PROVE k + 1 \in T
    <3>1. PICK m \in Nat : Bounds(k, m)
      BY <2>4
    <3>2. k + 1 \in 1..n /\ k + 1 \in 0..n
      BY <2>1, <2>4
    <3>3. \E M \in Nat : m <= M /\ (file[k + 1] # Joined => file[k + 1][2] <= M)
      <4>1. CASE file[k + 1] = Joined
        BY <4>1
      <4>2. CASE file[k + 1] # Joined
        <5>1. file[k + 1][2] \in Nat
          BY <2>2, <3>2, <4>2
        <5>2. CASE file[k + 1][2] <= m
          BY <5>2
        <5>3. CASE ~(file[k + 1][2] <= m)
          BY <5>1, <5>3
        <5>. QED
          BY <5>2, <5>3
      <4>. QED
        BY <4>1, <4>2
    <3>4. PICK M \in Nat : m <= M /\ (file[k + 1] # Joined => file[k + 1][2] <= M)
      BY <3>3
    <3>5. Bounds(k + 1, M)
      <4> SUFFICES ASSUME NEW l \in 1..(k + 1), file[l] # Joined PROVE file[l][2] <= M
        OBVIOUS
      <4>1. CASE l = k + 1
        BY <3>4, <4>1
      <4>2. CASE l # k + 1
        <5>1. l \in 1..k /\ l \in 1..n
          BY <2>1, <2>4, <4>2
        <5>2. file[l][2] <= m /\ file[l][2] \in Nat
          BY <2>2, <3>1, <5>1
        <5>. QED
          BY <3>4, <5>2
      <4>. QED
        BY <4>1, <4>2
    <3>. QED
      BY <3>2, <3>5
  <2>5. n \in T
    <3> HIDE DEF T
    <3>1. 0..n \subseteq T
      BY <2>1, <2>3, <2>4, CountsUp
    <3>. QED
      BY <2>1, <3>1
  <2>6. PICK m \in Nat : Bounds(n, m)
    BY <2>5
  <2>7. \A i \in Ids : i <= m
    BY <2>1, <2>6 DEF Ids
  <2>8. \E i \in Ids : \A j \in Ids : j <= i
    BY <1>1, <1>3, <2>7, Greatest
  <2>9. PICK i \in Ids : i = (CHOOSE k \in Ids : \A j \in Ids : j <= k) /\ \A j \in Ids : j <= i
    BY <2>8
  <2>10. Counter = 1 + i
    BY <1>3, <2>9 DEF Counter
  <2>11. \A j \in Ids : j \in Nat /\ j <= i
    BY <1>1, <2>9
  <2>12. i \in Nat
    BY <1>1
  <2>. QED
    BY <2>10, <2>11, <2>12
<1>. QED
  BY <1>2, <1>3

(* sync finds the transactions that are begun, all of them and no other.   *)
LEMMA BegunFound ==
  ASSUME file \in Seq(Line)
  PROVE  /\ Begun \in Seq(Nat)
         /\ \A k \in 1..Len(Begun) : State(Begun[k]) = "begin"
         /\ \A i \in Ids : State(i) = "begin" => \E k \in 1..Len(Begun) : Begun[k] = i
<1> DEFINE First(i) == IF State(i) = "begin" THEN <<i>> ELSE <<>>
<1>1. PICK c \in Nat : c = Counter
  BY CounterPast
<1>2. \A i \in Nat : First(i) \in Seq(Nat)
  OBVIOUS
<1> DEFINE Rest(g, i) == IF i = c THEN <<>> ELSE First(i) \o g[i + 1]
           Partial(n) == \E g \in [(c - n)..c -> Seq(Nat)] : \A i \in (c - n)..c : g[i] = Rest(g, i)
           T == {n \in 0..c : Partial(n)}
<1>3. 0 \in T
  <2> DEFINE g == [i \in (c - 0)..c |-> <<>>]
  <2>1. g \in [(c - 0)..c -> Seq(Nat)]
    OBVIOUS
  <2>2. \A i \in (c - 0)..c : i = c /\ g[i] = <<>>
    OBVIOUS
  <2> HIDE DEF g, First
  <2>3. \A i \in (c - 0)..c : g[i] = Rest(g, i)
    BY <2>2
  <2>4. Partial(0)
    BY <2>1, <2>3
  <2>5. 0 \in 0..c
    OBVIOUS
  <2> HIDE DEF Partial
  <2>. QED
    BY <2>4, <2>5
<1>4. ASSUME NEW n \in T \cap 0..c, n < c PROVE n + 1 \in T
  <2>1. PICK g \in [(c - n)..c -> Seq(Nat)] : \A i \in (c - n)..c : g[i] = Rest(g, i)
    BY <1>4
  <2> DEFINE b == c - (n + 1)
             h == [i \in b..c |-> IF i = b THEN First(b) \o g[b + 1] ELSE g[i]]
  <2>2. /\ b \in Nat /\ b + 1 = c - n /\ b # c /\ n + 1 \in 0..c /\ c - n \in (c - n)..c
        /\ \A i \in b..c : i = b \/ i \in (c - n)..c
        /\ \A i \in b..c : i # c => i + 1 \in (c - n)..c /\ i + 1 \in b..c /\ i + 1 # b
        /\ \A i \in (c - n)..c : i # b
    BY <1>4
  <2> HIDE DEF First, b
  <2>3. First(b) \o g[b + 1] \in Seq(Nat)
    <3>1. g[b + 1] \in Seq(Nat) /\ First(b) \in Seq(Nat)
      BY <1>2, <2>2
    <3>. QED
      BY <3>1
  <2>4. h \in [b..c -> Seq(Nat)]
    BY <2>2, <2>3
  <2>5. \A i \in b..c : h[i] = Rest(h, i)
    <3> SUFFICES ASSUME NEW i \in b..c PROVE h[i] = Rest(h, i)
      OBVIOUS
    <3>1. CASE i = b
      <4>1. h[i + 1] = g[i + 1]
        BY <2>2, <3>1
      <4>. QED
        BY <2>2, <3>1, <4>1
    <3>2. CASE i # b
      <4>1. h[i] = g[i] /\ g[i] = Rest(g, i)
        BY <2>1, <2>2, <3>2
      <4>2. i # c => h[i + 1] = g[i + 1]
        BY <2>2
      <4>. QED
        BY <4>1, <4>2
    <3>. QED
      BY <3>1, <3>2
  <2> HIDE DEF h
  <2>6. Partial(n + 1)
    BY <2>4, <2>5 DEF b
  <2>. QED
    BY <2>2, <2>6
<1>5. Partial(c)
  <2> HIDE DEF T
  <2>1. 0..c \subseteq T
    BY <1>3, <1>4, CountsUp
  <2>2. c \in T
    BY <2>1
  <2>. QED
    BY <2>2 DEF T
<1>6. PICK g \in [0..c -> Seq(Nat)] : \A i \in 0..c : g[i] = Rest(g, i)
  <2>1. c - c = 0
    OBVIOUS
  <2> HIDE DEF Rest
  <2>. QED
    BY <1>5, <2>1
<1>7. g = [i \in 0..c |-> Rest(g, i)]
  <2> HIDE DEF Rest
  <2>. QED
    BY <1>6
<1>8. Undecided = [i \in 0..c |-> Rest(Undecided, i)]
  BY ZenonT(40), <1>1, <1>7 DEF Undecided
<1>9. \A i \in 0..c : Undecided[i] = Rest(Undecided, i)
  <2> HIDE DEF Rest
  <2>. QED
    BY <1>8
<1> DEFINE Good(u, i) == /\ u \in Seq(Nat)
                         /\ \A k \in 1..Len(u) : State(u[k]) = "begin"
                         /\ \A j \in i..(c - 1) : State(j) = "begin" => \E k \in 1..Len(u) : u[k] = j
           S == {n \in 0..c : Good(Undecided[c - n], c - n)}
<1>10. 0 \in S
  <2>1. c - 0 = c /\ c \in 0..c /\ 0 \in 0..c
    OBVIOUS
  <2>2. Undecided[c] = <<>>
    BY <1>9, <2>1
  <2>3. Good(<<>>, c)
    OBVIOUS
  <2> HIDE DEF Good
  <2>. QED
    BY <2>1, <2>2, <2>3
<1>11. ASSUME NEW n \in S \cap 0..c, n < c PROVE n + 1 \in S
  <2> DEFINE b == c - (n + 1)
             u == Undecided[b + 1]
             v == Undecided[b]
  <2>1. /\ b \in Nat /\ b \in 0..c /\ b + 1 = c - n /\ b # c /\ n + 1 \in 0..c
        /\ \A j \in b..(c - 1) : j = b \/ j \in (b + 1)..(c - 1)
    BY <1>11
  <2>2. Good(u, b + 1)
    BY <1>11, <2>1
  <2>3. v = First(b) \o u
    BY <1>9, <2>1
  <2>4. First(b) \in Seq(Nat) /\ u \in Seq(Nat)
    BY <1>2, <2>1, <2>2
  <2> HIDE DEF b, u, v
  <2>5. CASE State(b) # "begin"
    <3>1. v = u
      BY <2>3, <2>4, <2>5
    <3>2. Good(v, b)
      BY <2>1, <2>2, <2>5, <3>1
    <3>. QED
      BY <2>1, <3>2 DEF b, v
  <2>6. CASE State(b) = "begin"
    <3>1. v = <<b>> \o u
      BY <2>3, <2>6
    <3>2. /\ v \in Seq(Nat) /\ Len(v) = Len(u) + 1 /\ Len(u) \in Nat
          /\ v[1] = b
          /\ \A k \in 1..Len(u) : v[k + 1] = u[k]
      BY <2>1, <2>4, <3>1
    <3>3. ASSUME NEW k \in 1..Len(v) PROVE State(v[k]) = "begin"
      <4>1. CASE k = 1
        BY <2>6, <3>2, <4>1
      <4>2. CASE k # 1
        <5>1. k - 1 \in 1..Len(u) /\ (k - 1) + 1 = k
          BY <3>2, <4>2
        <5>2. v[k] = u[k - 1] /\ State(u[k - 1]) = "begin"
          BY <2>2, <3>2, <5>1
        <5>. QED
          BY <5>2
      <4>. QED
        BY <4>1, <4>2
    <3>4. ASSUME NEW j \in b..(c - 1), State(j) = "begin" PROVE \E k \in 1..Len(v) : v[k] = j
      <4>1. CASE j = b
        <5>1. 1 \in 1..Len(v)
          BY <3>2
        <5>. QED
          BY <3>2, <4>1, <5>1
      <4>2. CASE j \in (b + 1)..(c - 1)
        <5>1. PICK k \in 1..Len(u) : u[k] = j
          BY <2>2, <3>4, <4>2
        <5>2. k + 1 \in 1..Len(v) /\ v[k + 1] = j
          BY SMTT(30), <3>2, <5>1
        <5>. QED
          BY <5>2
      <4>. QED
        BY <2>1, <4>1, <4>2
    <3>5. Good(v, b)
      BY <3>2, <3>3, <3>4
    <3>. QED
      BY <2>1, <3>5 DEF b, v
  <2>. QED
    BY <2>5, <2>6
<1>12. Good(Undecided[0], 0)
  <2> HIDE DEF S, Good
  <2>1. 0..c \subseteq S
    BY <1>10, <1>11, CountsUp
  <2>2. c \in S /\ c - c = 0
    BY <2>1
  <2>3. Good(Undecided[c - c], c - c)
    BY <2>2 DEF S
  <2>. QED
    BY <2>2, <2>3
<1>13. \A i \in Ids : i \in 0..(c - 1)
  <2>1. \A i \in Ids : i \in Nat /\ i < c
    BY <1>1, CounterPast
  <2>. QED
    BY <2>1
<1>. QED
  BY <1>12, <1>13 DEF Begun

(* A transaction of the process that has the log open.                     *)
Present(t) == xs[t].known \in {"running", "left", "unsure"}

(* The verdict that a caller was told is the last line of its transaction, *)
(* unless the line was swallowed.                                          *)
Kept ==
  \A t \in DOMAIN xs : \A i \in Nat : xs[t].id = i =>
    /\ xs[t].known = "committed" /\ t \notin swallowed => State(i) = "commit"
    /\ xs[t].known = "aborted" /\ t \notin swallowed => State(i) = "abort"
    /\ Present(t) => State(i) # "commit"

(* A transaction that this process began has its identifier to itself, as  *)
(* far as the file can tell.                                               *)
Running ==
  \A t \in DOMAIN xs : Present(t) =>
    /\ stage = "open" /\ xs[t].id < counter /\ t \notin swallowed
    /\ \A u \in DOMAIN xs : u # t /\ xs[u].id = xs[t].id =>
         xs[u].known = "lost" \/ u \in swallowed

(* The counter is past the identifiers of the file.                        *)
Counted == stage # "closed" => \A i \in Ids : i < counter

(* sync aborts no transaction that was committed.                          *)
ToAbort ==
  /\ stage # "sync" => todo = <<>>
  /\ \A k \in DOMAIN todo : \A i \in Nat : todo[k] = i => State(i) \in {"begin", "abort"}

One(b) == IF b THEN 1 ELSE 0

(* Each failed write pays for one swallowed line: a process that has begun *)
(* a transaction has written a line, so that a torn one is its own doing.  *)
Cost == Cardinality(swallowed) + One(torn /\ \E t \in DOMAIN xs : xs[t].known = "running") <= failures

(* The transactions begun that sync will not abort, or has not, are among  *)
(* some that the torn lines and failed writes pay for.                     *)
LeftBySync(J) ==
  \A i \in Ids : State(i) = "begin" => (\E k \in DOMAIN todo : todo[k] = i) \/ i \in J

LeftWhenOpen(J) ==
  \A i \in Ids :
    State(i) = "begin" /\ (\A t \in DOMAIN xs : xs[t].id = i => xs[t].known = "lost") => i \in J

Left ==
  /\ stage = "sync" => \E J \in SUBSET Nat :
       /\ IsFiniteSet(J) /\ Cardinality(J) + One(torn) <= 1 + 2 * failures
       /\ LeftBySync(J)
  /\ stage = "open" => \E J \in SUBSET Nat :
       IsFiniteSet(J) /\ Cardinality(J) <= 1 + 2 * failures /\ LeftWhenOpen(J)

(* The inductive invariant of the log.                                     *)
TxInv == LogTypeOK /\ Kept /\ Running /\ Counted /\ ToAbort /\ Cost /\ Left

(* What a line written does to what sync would read.                       *)
LEMMA LineWritten ==
  ASSUME LogTypeOK, NEW op \in Operation, NEW n \in Nat, Write(<<op, n>>)
  PROVE  /\ file' \in Seq(Line) /\ torn' = FALSE /\ failures' = failures
         /\ Ids' = IF torn THEN Ids ELSE Ids \cup {n}
         /\ \A i : State(i)' = IF ~torn /\ i = n THEN op ELSE State(i)
<1>1. <<op, n>> \in Line /\ Joined \in Line /\ <<op, n>> # Joined
      /\ <<op, n>>[1] = op /\ <<op, n>>[2] = n
  BY DEF Line, Joined, Operation
<1>2. file \in Seq(Line)
  BY DEF LogTypeOK
<1>3. CASE torn
  <2>1. file' = Append(file, Joined)
    BY <1>3 DEF Write
  <2>. QED
    BY <1>1, <1>2, <1>3, <2>1, LineRead DEF Write
<1>4. CASE ~torn
  <2>1. file' = Append(file, <<op, n>>)
    BY <1>4 DEF Write
  <2> DEFINE line == <<op, n>>
  <2> HIDE DEF line
  <2>2. /\ file' \in Seq(Line) /\ Ids' = IF line = Joined THEN Ids ELSE Ids \cup {line[2]}
        /\ \A i : State(i)' = IF line # Joined /\ line[2] = i THEN line[1] ELSE State(i)
    BY <1>1, <1>2, <2>1, LineRead DEF line
  <2>. QED
    BY <1>1, <1>4, <2>2 DEF Write, line
<1>. QED
  BY <1>3, <1>4

(* What a write that fails does: nothing, to what sync would read.         *)
LEMMA LineFailed ==
  ASSUME LogTypeOK, WriteFails
  PROVE  /\ file' \in Seq(Line) /\ torn' \in BOOLEAN
         /\ failures' \in Nat /\ failures' = failures + 1
         /\ Ids' = Ids /\ \A i : State(i)' = State(i)
<1>1. UNCHANGED file
  BY DEF WriteFails
<1>2. Ids' = Ids
  BY <1>1 DEF Ids
<1>3. \A i : State(i)' = State(i)
  BY <1>1 DEF State, LinesOf
<1>4. file' \in Seq(Line)
  BY <1>1 DEF LogTypeOK
<1>5. torn' \in BOOLEAN
  BY DEF LogTypeOK, WriteFails
<1>6. failures' \in Nat /\ failures' = failures + 1
  BY DEF LogTypeOK, WriteFails
<1>. QED
  BY <1>2, <1>3, <1>4, <1>5, <1>6

(* What either of them does at most.                                       *)
LEMMA LineTried ==
  ASSUME LogTypeOK, NEW op \in Operation, NEW n \in Nat, Write(<<op, n>>) \/ WriteFails
  PROVE  /\ file' \in Seq(Line) /\ torn' \in BOOLEAN
         /\ failures' \in Nat /\ failures <= failures'
         /\ Ids' = Ids \/ Ids' = Ids \cup {n}
         /\ \A i : State(i)' = State(i) \/ (i = n /\ State(i)' = op)
<1>1. failures \in Nat
  BY DEF LogTypeOK
<1>2. CASE Write(<<op, n>>)
  <2>1. /\ file' \in Seq(Line) /\ torn' = FALSE /\ failures' = failures
        /\ Ids' = IF torn THEN Ids ELSE Ids \cup {n}
        /\ \A i : State(i)' = IF ~torn /\ i = n THEN op ELSE State(i)
    BY <1>2, LineWritten
  <2>2. Ids' = Ids \/ Ids' = Ids \cup {n}
    BY <2>1, Zenon
  <2>3. \A i : State(i)' = State(i) \/ (i = n /\ State(i)' = op)
    <3>1. TAKE i
    <3>2. State(i)' = IF ~torn /\ i = n THEN op ELSE State(i)
      BY <2>1
    <3>. QED
      BY <3>2
  <2>4. failures' = failures /\ torn' \in BOOLEAN
    BY <2>1, Zenon
  <2>6. failures' \in Nat /\ failures <= failures'
    BY <1>1, <2>4
  <2>5. file' \in Seq(Line)
    BY <2>1
  <2>. QED
    BY <2>2, <2>3, <2>4, <2>5, <2>6, Zenon
<1>3. CASE WriteFails
  <2>1. /\ file' \in Seq(Line) /\ torn' \in BOOLEAN
        /\ failures' \in Nat /\ failures' = failures + 1
        /\ Ids' = Ids /\ \A i : State(i)' = State(i)
    BY <1>3, LineFailed
  <2>2. failures <= failures'
    BY <1>1, <2>1
  <2>. QED
    BY <2>1, <2>2, Zenon
<1>. QED
  BY <1>2, <1>3

(* A process that stops while it writes a line.                            *)
LEMMA LineCut ==
  ASSUME LogTypeOK, NEW op \in Operation, NEW n \in Nat, HaltIn(<<op, n>>)
  PROVE  /\ file' \in Seq(Line) /\ torn' \in BOOLEAN
         /\ \A i : State(i)' = State(i) \/ (i = n /\ State(i)' = op)
<1>1. CASE UNCHANGED file /\ torn' \in BOOLEAN
  <2>1. \A i : State(i)' = State(i)
    BY <1>1 DEF State, LinesOf
  <2>. QED
    BY <1>1, <2>1 DEF LogTypeOK
<1>2. CASE Write(<<op, n>>)
  BY <1>2, LineWritten
<1>. QED
  BY <1>1, <1>2 DEF HaltIn, LogTypeOK

(* The file has a line of a transaction that it decides.                   *)
LEMMA Decided ==
  ASSUME NEW i, State(i) \in Operation
  PROVE  i \in Ids
<1>1. LinesOf(i) # {}
  BY DEF State, Operation
<1>. QED
  BY <1>1 DEF LinesOf, Ids

(* The transactions of a run: their types, one by one.                     *)
LEMMA TxOf ==
  ASSUME LogTypeOK
  PROVE  /\ DOMAIN xs = 1..Len(xs) /\ Len(xs) \in Nat /\ xs \in Seq(Tx)
         /\ \A t \in DOMAIN xs : xs[t].id \in Nat /\ xs[t].known \in Known
         /\ swallowed \subseteq 1..Len(xs)
         /\ IsFiniteSet(swallowed) /\ Cardinality(swallowed) \in Nat
         /\ failures \in Nat
<1>1. xs \in Seq(Tx) /\ swallowed \subseteq DOMAIN xs /\ failures \in Nat
  BY DEF LogTypeOK
<1>2. DOMAIN xs = 1..Len(xs) /\ Len(xs) \in Nat /\ \A t \in 1..Len(xs) : xs[t] \in Tx
  BY <1>1
<1>3. IsFiniteSet(1..Len(xs))
  BY <1>2, FS_Interval
<1>4. IsFiniteSet(swallowed) /\ Cardinality(swallowed) \in Nat
  BY <1>1, <1>2, <1>3, FS_Subset, FS_CardinalityType
<1>. QED
  BY <1>1, <1>2, <1>4 DEF Tx

(* What a caller learns of one transaction.                                *)
LEMMA Learnt ==
  ASSUME LogTypeOK, NEW t \in DOMAIN xs, NEW v \in Known, xs' = [xs EXCEPT ![t].known = v]
  PROVE  /\ xs' \in Seq(Tx) /\ DOMAIN xs' = DOMAIN xs
         /\ \A u \in DOMAIN xs : /\ xs'[u].id = xs[u].id
                                 /\ xs'[u].known = IF u = t THEN v ELSE xs[u].known
<1>1. /\ DOMAIN xs = 1..Len(xs) /\ Len(xs) \in Nat
      /\ \A u \in 1..Len(xs) : xs[u] \in Tx
  BY DEF LogTypeOK
<1>2. [xs[t] EXCEPT !.known = v] \in Tx
  BY <1>1 DEF Tx
<1>3. /\ xs' \in [1..Len(xs) -> Tx] /\ xs'[t] = [xs[t] EXCEPT !.known = v]
      /\ \A u \in 1..Len(xs) : u # t => xs'[u] = xs[u]
  BY <1>1, <1>2
<1>4. xs' \in Seq(Tx)
  BY <1>1, <1>3
<1>. QED
  BY <1>1, <1>3, <1>4 DEF Tx

(* What is known when the process has gone.                                *)
LEMMA ForgottenOf ==
  ASSUME LogTypeOK
  PROVE  /\ Forgotten \in Seq(Tx)
         /\ DOMAIN Forgotten = DOMAIN xs
         /\ \A t \in DOMAIN xs :
              /\ Forgotten[t].id = xs[t].id
              /\ \/ Forgotten[t].known = "lost"
                 \/ Forgotten[t].known = xs[t].known /\ ~Present(t)
<1>1. xs \in Seq(Tx)
  BY DEF LogTypeOK
<1>2. DOMAIN xs = 1..Len(xs) /\ Len(xs) \in Nat /\ \A t \in 1..Len(xs) : xs[t] \in Tx
  BY <1>1
<1>3. \A t \in 1..Len(xs) : [xs[t] EXCEPT !.known = "lost"] \in Tx
  BY <1>2 DEF Known, Tx
<1>4. Forgotten \in [1..Len(xs) -> Tx]
  BY <1>2, <1>3 DEF Forgotten
<1>5. Forgotten \in Seq(Tx)
  BY <1>2, <1>4
<1>6. ASSUME NEW t \in 1..Len(xs)
      PROVE  /\ Forgotten[t].id = xs[t].id
             /\ \/ Forgotten[t].known = "lost"
                \/ Forgotten[t].known = xs[t].known /\ ~Present(t)
  BY <1>2, <1>6 DEF Forgotten, Tx, Present
<1>. QED
  BY <1>2, <1>4, <1>5, <1>6

(* The process has gone, and no verdict that was told has changed.         *)
LEMMA Halted ==
  ASSUME TxInv, Halt, file' \in Seq(Line), torn' \in BOOLEAN,
         xs' \in Seq(Tx), DOMAIN xs' = DOMAIN xs,
         \A t \in DOMAIN xs :
           /\ xs'[t].id = xs[t].id
           /\ \/ xs'[t].known = "lost"
              \/ xs'[t].known = xs[t].known /\ ~Present(t),
         \A t \in DOMAIN xs : \A i \in Nat :
           xs[t].id = i /\ xs[t].known \in {"committed", "aborted"} /\ t \notin swallowed
             => State(i)' = State(i)
  PROVE  TxInv'
<1>1. /\ stage' = "closed" /\ todo' = <<>> /\ counter' = 0
      /\ failures' = failures /\ swallowed' = swallowed
  BY DEF Halt
<1>2. LogTypeOK /\ Cost
  BY DEF TxInv
<1>3. LogTypeOK'
  BY <1>1, <1>2 DEF LogTypeOK
<1>4. \A t \in DOMAIN xs : ~Present(t)'
  BY DEF Present
<1>5. Kept'
  <2> SUFFICES ASSUME NEW t \in DOMAIN xs, NEW i \in Nat, xs'[t].id = i
               PROVE  /\ xs'[t].known = "committed" /\ t \notin swallowed => State(i)' = "commit"
                      /\ xs'[t].known = "aborted" /\ t \notin swallowed => State(i)' = "abort"
    BY <1>1, <1>4 DEF Kept
  <2>1. /\ xs[t].known = "committed" /\ t \notin swallowed => State(i) = "commit"
        /\ xs[t].known = "aborted" /\ t \notin swallowed => State(i) = "abort"
        /\ xs[t].known \in {"committed", "aborted"} /\ t \notin swallowed => State(i)' = State(i)
    BY DEF TxInv, Kept
  <2>. QED
    BY <2>1
<1>6. Running'
  BY <1>4 DEF Running
<1>7. Cost'
  <2>1. ~\E t \in DOMAIN xs' : xs'[t].known = "running"
    BY <1>4 DEF Present
  <2>2. Cardinality(swallowed) \in Nat /\ failures \in Nat
    BY <1>2, TxOf
  <2>. QED
    BY <1>1, <1>2, <2>1, <2>2 DEF Cost, One
<1>8. Counted' /\ ToAbort' /\ Left'
  BY <1>1 DEF Counted, ToAbort, Left
<1>. QED
  BY <1>3, <1>5, <1>6, <1>7, <1>8 DEF TxInv

(* A process that stops while it writes a line of a transaction without a  *)
(* verdict.                                                                *)
LEMMA Cut ==
  ASSUME TxInv, NEW op \in Operation, NEW n \in Nat, Halt, HaltIn(<<op, n>>),
         xs' = Forgotten \/ (xs' = xs /\ stage # "open"),
         \A t \in DOMAIN xs :
           xs[t].id = n /\ xs[t].known \in {"committed", "aborted"} /\ t \notin swallowed =>
             xs[t].known = "aborted" /\ op = "abort"
  PROVE  TxInv'
<1>1. LogTypeOK /\ Kept /\ Running
  BY DEF TxInv
<1>2. /\ file' \in Seq(Line) /\ torn' \in BOOLEAN
      /\ \A i : State(i)' = State(i) \/ (i = n /\ State(i)' = op)
  BY <1>1, LineCut
<1>3. /\ xs' \in Seq(Tx) /\ DOMAIN xs' = DOMAIN xs
      /\ \A t \in DOMAIN xs :
           /\ xs'[t].id = xs[t].id
           /\ \/ xs'[t].known = "lost"
              \/ xs'[t].known = xs[t].known /\ ~Present(t)
  <2>1. CASE xs' = Forgotten
    BY <1>1, <2>1, ForgottenOf
  <2>2. CASE xs' = xs /\ stage # "open"
    BY <1>1, <2>2, TxOf DEF Running
  <2>. QED
    BY <2>1, <2>2
<1>4. ASSUME NEW t \in DOMAIN xs, NEW i \in Nat, xs[t].id = i,
             xs[t].known \in {"committed", "aborted"}, t \notin swallowed
      PROVE  State(i)' = State(i)
  <2>1. /\ xs[t].known = "committed" => State(i) = "commit"
        /\ xs[t].known = "aborted" => State(i) = "abort"
    BY <1>1, <1>4 DEF Kept
  <2>2. i = n => xs[t].known = "aborted" /\ op = "abort"
    BY <1>4
  <2>. QED
    BY <1>2, <2>1, <2>2
<1>. QED
  BY <1>2, <1>3, <1>4, Halted

(* A write that failed pays for one swallowed line.                        *)
LEMMA FailurePays ==
  ASSUME TxInv, WriteFails, swallowed' = swallowed
  PROVE  Cost'
<1>1. LogTypeOK /\ Cost
  BY DEF TxInv
<1>2. Cardinality(swallowed) \in Nat /\ failures \in Nat /\ failures' = failures + 1
  BY <1>1, TxOf, LineFailed
<1> DEFINE p == torn /\ \E t \in DOMAIN xs : xs[t].known = "running"
           q == torn' /\ \E t \in DOMAIN xs' : xs'[t].known = "running"
<1>3. Cardinality(swallowed) + One(p) <= failures
  BY <1>1 DEF Cost
<1> HIDE DEF p, q
<1>4. One(p) \in 0..1 /\ One(q) \in 0..1
  BY DEF One
<1>5. Cardinality(swallowed) + One(q) <= failures'
  BY <1>2, <1>3, <1>4
<1>. QED
  BY <1>5 DEF Cost, q

(* x::begin.                                                               *)
LEMMA BeginStep ==
  ASSUME TxInv, begin
  PROVE  TxInv'
<1>1. LogTypeOK /\ Kept /\ Running /\ Counted /\ ToAbort /\ Cost /\ Left /\ stage = "open"
  BY DEF TxInv, begin
<1>2. counter \in Nat /\ "begin" \in Operation /\ failures \in Nat
  BY <1>1 DEF LogTypeOK, Operation
<1>3. /\ DOMAIN xs = 1..Len(xs) /\ Len(xs) \in Nat /\ xs \in Seq(Tx)
      /\ \A t \in DOMAIN xs : xs[t].id \in Nat /\ xs[t].known \in Known
      /\ swallowed \subseteq 1..Len(xs) /\ Cardinality(swallowed) \in Nat
  BY <1>1, TxOf
<1>4. State(counter) \notin Operation
  <2> SUFFICES ASSUME State(counter) \in Operation PROVE FALSE
    OBVIOUS
  <2>1. counter \in Ids
    BY Decided
  <2>. QED
    BY <1>1, <1>2, <2>1 DEF Counted
<1>5. ASSUME NEW t \in DOMAIN xs, xs[t].id = counter
      PROVE  xs[t].known = "lost" \/ t \in swallowed
  <2>1. xs[t].known \notin {"running", "left", "unsure"}
    BY <1>1, <1>2, <1>5 DEF Running, Present
  <2>2. t \notin swallowed => xs[t].known \notin {"committed", "aborted"}
    BY <1>1, <1>2, <1>4, <1>5 DEF Kept, Operation
  <2>. QED
    BY <1>3, <2>1, <2>2 DEF Known
<1>6. CASE Halt /\ HaltIn(<<"begin", counter>>) /\ xs' = Forgotten
  <2>1. \A t \in DOMAIN xs : xs[t].id = counter /\ xs[t].known \in {"committed", "aborted"} =>
          t \in swallowed
    BY <1>5
  <2>. QED
    BY <1>2, <1>6, <2>1, Cut
<1>7. CASE /\ Write(<<"begin", counter>>) \/ WriteFails
           /\ counter' = counter + 1
           /\ xs' = Append(xs, [id |-> counter, known |-> "running"])
           /\ UNCHANGED <<stage, todo, crashes, swallowed>>
  <2>1. /\ file' \in Seq(Line) /\ torn' \in BOOLEAN
        /\ failures' \in Nat /\ failures <= failures'
        /\ Ids' = Ids \/ Ids' = Ids \cup {counter}
        /\ \A i : State(i)' = State(i) \/ (i = counter /\ State(i)' = "begin")
    BY <1>1, <1>2, <1>7, LineTried
  <2> DEFINE n == Len(xs) + 1
             new == [id |-> counter, known |-> "running"]
  <2>2. new \in Tx /\ new.id = counter /\ new.known = "running"
    BY <1>2 DEF Tx, Known
  <2> HIDE DEF new
  <2>3. xs' = Append(xs, new)
    BY <1>7 DEF new
  <2>4. /\ DOMAIN xs' = 1..n /\ xs' \in Seq(Tx) /\ n \notin DOMAIN xs /\ n \in 1..n
        /\ \A t \in DOMAIN xs' : t \in DOMAIN xs \/ t = n
        /\ DOMAIN xs \subseteq DOMAIN xs'
        /\ \A t \in DOMAIN xs : xs'[t] = xs[t]
        /\ xs'[n] = new
        /\ n \notin swallowed
    BY <1>3, <2>2, <2>3
  <2> HIDE DEF n
  <2>5. LogTypeOK'
    <3>1. counter' \in Nat /\ todo' \in Seq(Nat) /\ stage' = "open"
      BY <1>1, <1>2, <1>7 DEF LogTypeOK
    <3>2. xs' \in Seq(Tx) /\ swallowed' \subseteq DOMAIN xs'
      BY <1>3, <1>7, <2>4
    <3>. QED
      BY <2>1, <3>1, <3>2 DEF LogTypeOK
  <2>6. Kept'
    <3> SUFFICES ASSUME NEW t \in DOMAIN xs', NEW i \in Nat, xs'[t].id = i
                 PROVE  /\ xs'[t].known = "committed" /\ t \notin swallowed => State(i)' = "commit"
                        /\ xs'[t].known = "aborted" /\ t \notin swallowed => State(i)' = "abort"
                        /\ xs'[t].known \in {"running", "left", "unsure"} => State(i)' # "commit"
      BY <1>7 DEF Kept, Present
    <3>1. CASE t = n
      <4>1. i = counter /\ State(i) # "commit"
        BY <1>4, <2>2, <2>4, <3>1 DEF Operation
      <4>. QED
        BY <2>1, <2>2, <2>4, <3>1, <4>1
    <3>2. CASE t \in DOMAIN xs
      <4>1. xs'[t] = xs[t] /\ xs[t].id = i
        BY <2>4, <3>2
      <4>2. i = counter => xs[t].known = "lost" \/ t \in swallowed
        BY <1>5, <3>2, <4>1
      <4>3. /\ xs[t].known = "committed" /\ t \notin swallowed => State(i) = "commit"
            /\ xs[t].known = "aborted" /\ t \notin swallowed => State(i) = "abort"
            /\ xs[t].known \in {"running", "left", "unsure"} => State(i) # "commit"
        BY <1>1, <3>2, <4>1 DEF Kept, Present
      <4>. QED
        BY <2>1, <4>1, <4>2, <4>3
    <3>. QED
      BY <2>4, <3>1, <3>2
  <2>7. Running'
    <3> SUFFICES ASSUME NEW t \in DOMAIN xs', Present(t)'
                 PROVE  /\ xs'[t].id < counter' /\ t \notin swallowed
                        /\ \A u \in DOMAIN xs' : u # t /\ xs'[u].id = xs'[t].id =>
                             xs'[u].known = "lost" \/ u \in swallowed
      BY <1>1, <1>7 DEF Running
    <3>1. CASE t = n
      BY <1>2, <1>5, <1>7, <2>2, <2>4, <3>1
    <3>2. CASE t \in DOMAIN xs
      <4>1. xs'[t] = xs[t] /\ Present(t)
        BY <2>4, <3>2 DEF Present
      <4>2. /\ xs[t].id < counter /\ t \notin swallowed
            /\ \A u \in DOMAIN xs : u # t /\ xs[u].id = xs[t].id =>
                 xs[u].known = "lost" \/ u \in swallowed
        BY <1>1, <3>2, <4>1 DEF Running
      <4>3. xs[t].id < counter + 1 /\ xs[t].id # counter
        BY <1>2, <1>3, <3>2, <4>2
      <4>. QED
        BY <1>7, <2>2, <2>4, <4>1, <4>2, <4>3
    <3>. QED
      BY <2>4, <3>1, <3>2
  <2>8. Counted'
    <3>1. \A i \in Ids : i \in Nat /\ i < counter
      <4>1. file \in Seq(Line)
        BY <1>1 DEF LogTypeOK
      <4>. QED
        BY <1>1, <4>1, CounterPast DEF Counted
    <3>2. \A i \in Ids' : i < counter + 1
      BY <1>2, <2>1, <3>1
    <3>. QED
      BY <1>7, <3>2 DEF Counted
  <2>9. ToAbort'
    BY <1>1, <1>7 DEF ToAbort
  <2>10. Cost'
    <3>1. CASE WriteFails
      BY <1>7, <3>1, FailurePays
    <3>2. CASE Write(<<"begin", counter>>)
      <4>1. torn' = FALSE /\ failures' = failures
        BY <1>1, <1>2, <3>2, LineWritten
      <4>2. Cardinality(swallowed) <= failures
        BY <1>1, <1>2, <1>3 DEF Cost, One
      <4>. QED
        BY <1>3, <1>7, <4>1, <4>2 DEF Cost, One
    <3>. QED
      BY <1>7, <3>1, <3>2
  <2>11. Left'
    <3>1. PICK J \in SUBSET Nat :
            IsFiniteSet(J) /\ Cardinality(J) <= 1 + 2 * failures /\ LeftWhenOpen(J)
      BY <1>1 DEF Left
    <3>2. ASSUME NEW i \in Ids', State(i)' = "begin",
                 \A t \in DOMAIN xs' : xs'[t].id = i => xs'[t].known = "lost"
          PROVE  i \in J
      <4>1. i # counter
        BY <2>2, <2>4, <3>2
      <4>2. i \in Ids /\ State(i) = "begin"
        BY <2>1, <3>2, <4>1
      <4>3. \A t \in DOMAIN xs : xs[t].id = i => xs[t].known = "lost"
        BY <2>4, <3>2
      <4>. QED
        BY <3>1, <4>2, <4>3 DEF LeftWhenOpen
    <3>3. stage' = "open" /\ Cardinality(J) <= 1 + 2 * failures'
      <4>1. Cardinality(J) \in Nat
        BY <3>1, FS_CardinalityType
      <4>. QED
        BY <1>1, <1>2, <1>7, <2>1, <3>1, <4>1
    <3>. QED
      BY <3>1, <3>2, <3>3 DEF Left, LeftWhenOpen
  <2>. QED
    BY <2>5, <2>6, <2>7, <2>8, <2>9, <2>10, <2>11 DEF TxInv
<1>. QED
  BY <1>6, <1>7 DEF begin

(* x::commit and x::abort.                                                 *)
LEMMA DecideStep ==
  ASSUME TxInv, NEW t \in DOMAIN xs, NEW op \in Operation, NEW v \in Known,
         (op = "commit" /\ v = "committed") \/ (op = "abort" /\ v = "aborted"),
         Decide(t, <<op, xs[t].id>>, v)
  PROVE  TxInv'
<1>1. /\ LogTypeOK /\ Kept /\ Running /\ Counted /\ ToAbort /\ Cost /\ Left
      /\ stage = "open" /\ xs[t].known = "running"
  BY DEF TxInv, Decide
<1>2. /\ DOMAIN xs = 1..Len(xs) /\ Len(xs) \in Nat /\ xs \in Seq(Tx)
      /\ \A u \in DOMAIN xs : xs[u].id \in Nat /\ xs[u].known \in Known
      /\ swallowed \subseteq 1..Len(xs)
      /\ IsFiniteSet(swallowed) /\ Cardinality(swallowed) \in Nat
      /\ failures \in Nat
  BY <1>1, TxOf
<1>3. PICK n \in Nat : n = xs[t].id
  BY <1>2
<1>4. /\ n < counter /\ t \notin swallowed
      /\ \A u \in DOMAIN xs : u # t /\ xs[u].id = n => xs[u].known = "lost" \/ u \in swallowed
  BY <1>1, <1>3 DEF Running, Present
<1>5. CASE Halt /\ HaltIn(<<op, n>>) /\ xs' = Forgotten
  <2>1. \A u \in DOMAIN xs : xs[u].id = n /\ xs[u].known \in {"committed", "aborted"} =>
          u \in swallowed
    BY <1>1, <1>4
  <2>. QED
    BY <1>5, <2>1, Cut
<1>6. ASSUME NEW w \in Known, w = v \/ w = "unsure", w # "running",
             xs' = [xs EXCEPT ![t].known = w],
             swallowed' = swallowed \/ swallowed' = swallowed \cup {t},
             w = "unsure" => swallowed' = swallowed /\ State(n)' = State(n),
             w = v /\ t \notin swallowed' => State(n)' = op,
             Write(<<op, n>>) \/ WriteFails, Cost',
             UNCHANGED <<stage, todo, counter, crashes>>
      PROVE  TxInv'
  <2>1. /\ file' \in Seq(Line) /\ torn' \in BOOLEAN
        /\ failures' \in Nat /\ failures <= failures'
        /\ Ids' = Ids \/ Ids' = Ids \cup {n}
        /\ \A i : State(i)' = State(i) \/ (i = n /\ State(i)' = op)
    BY <1>1, <1>6, LineTried
  <2>2. /\ xs' \in Seq(Tx) /\ DOMAIN xs' = DOMAIN xs
        /\ \A u \in DOMAIN xs : /\ xs'[u].id = xs[u].id
                                /\ xs'[u].known = IF u = t THEN w ELSE xs[u].known
    BY <1>1, <1>6, Learnt
  <2>3. LogTypeOK'
    BY <1>1, <1>6, <2>1, <2>2 DEF LogTypeOK
  <2>4. Kept'
    <3> SUFFICES ASSUME NEW u \in DOMAIN xs, NEW i \in Nat, xs[u].id = i
                 PROVE  /\ xs'[u].known = "committed" /\ u \notin swallowed' => State(i)' = "commit"
                        /\ xs'[u].known = "aborted" /\ u \notin swallowed' => State(i)' = "abort"
                        /\ xs'[u].known \in {"running", "left", "unsure"} => State(i)' # "commit"
      BY <2>2 DEF Kept, Present
    <3>1. /\ xs[u].known = "committed" /\ u \notin swallowed => State(i) = "commit"
          /\ xs[u].known = "aborted" /\ u \notin swallowed => State(i) = "abort"
          /\ xs[u].known \in {"running", "left", "unsure"} => State(i) # "commit"
      BY <1>1 DEF Kept, Present
    <3>2. CASE u = t
      <4>1. i = n /\ xs'[u].known = w /\ State(n) # "commit"
        BY <1>1, <1>3, <2>2, <3>1, <3>2
      <4>2. CASE w = v
        BY <1>6, <3>2, <4>1, <4>2
      <4>3. CASE w = "unsure"
        BY <1>6, <4>1, <4>3
      <4>. QED
        BY <1>6, <4>2, <4>3
    <3>3. CASE u # t
      <4>1. xs'[u].known = xs[u].known /\ (u \in swallowed' <=> u \in swallowed)
        BY <1>6, <2>2, <3>3
      <4>2. i = n => xs[u].known = "lost" \/ u \in swallowed
        BY <1>4, <3>3
      <4>3. u \in swallowed => xs[u].known \notin {"running", "left", "unsure"}
        BY <1>1 DEF Running, Present
      <4>. QED
        BY <2>1, <3>1, <4>1, <4>2, <4>3
    <3>. QED
      BY <3>2, <3>3
  <2>5. Running'
    <3> SUFFICES ASSUME NEW u \in DOMAIN xs, Present(u)'
                 PROVE  /\ xs[u].id < counter /\ u \notin swallowed'
                        /\ \A y \in DOMAIN xs : y # u /\ xs[y].id = xs[u].id =>
                             xs'[y].known = "lost" \/ y \in swallowed'
      BY <1>1, <1>6, <2>2 DEF Running
    <3>1. Present(u) /\ u \notin swallowed'
      <4>1. CASE u = t
        <5>1. w = "unsure"
          BY <1>6, <2>2, <4>1 DEF Present
        <5>. QED
          BY <1>1, <1>4, <1>6, <4>1, <5>1 DEF Present
      <4>2. CASE u # t
        <5>1. Present(u)
          BY <2>2, <4>2 DEF Present
        <5>. QED
          BY <1>1, <1>6, <4>2, <5>1 DEF Running
      <4>. QED
        BY <4>1, <4>2
    <3>2. /\ xs[u].id < counter
          /\ \A y \in DOMAIN xs : y # u /\ xs[y].id = xs[u].id =>
               xs[y].known = "lost" \/ y \in swallowed
      BY <1>1, <3>1 DEF Running
    <3>3. ASSUME NEW y \in DOMAIN xs, y # u, xs[y].id = xs[u].id
          PROVE  xs'[y].known = "lost" \/ y \in swallowed'
      <4>1. xs[y].known = "lost" \/ y \in swallowed
        BY <3>2, <3>3
      <4>2. y # t
        BY <1>1, <1>4, <4>1
      <4>. QED
        BY <1>6, <2>2, <4>1, <4>2
    <3>. QED
      BY <3>1, <3>2, <3>3
  <2>6. Counted'
    BY <1>1, <1>4, <1>6, <2>1 DEF Counted
  <2>7. ToAbort'
    BY <1>1, <1>6 DEF ToAbort
  <2>8. Left'
    <3>1. PICK J \in SUBSET Nat :
            IsFiniteSet(J) /\ Cardinality(J) <= 1 + 2 * failures /\ LeftWhenOpen(J)
      BY <1>1 DEF Left
    <3>2. ASSUME NEW i \in Ids', State(i)' = "begin",
                 \A u \in DOMAIN xs' : xs'[u].id = i => xs'[u].known = "lost"
          PROVE  i \in J
      <4>1. i # n
        <5>1. w # "lost"
          BY <1>6
        <5>. QED
          BY <1>3, <2>2, <3>2, <5>1
      <4>2. i \in Ids /\ State(i) = "begin"
        BY <2>1, <3>2, <4>1
      <4>3. \A u \in DOMAIN xs : xs[u].id = i => xs[u].known = "lost"
        BY <1>3, <2>2, <3>2, <4>1
      <4>. QED
        BY <3>1, <4>2, <4>3 DEF LeftWhenOpen
    <3>3. stage' = "open" /\ Cardinality(J) <= 1 + 2 * failures'
      <4>1. Cardinality(J) \in Nat
        BY <3>1, FS_CardinalityType
      <4>. QED
        BY <1>1, <1>2, <1>6, <2>1, <3>1, <4>1
    <3>. QED
      BY <3>1, <3>2, <3>3 DEF Left, LeftWhenOpen
  <2>. QED
    BY <1>6, <2>3, <2>4, <2>5, <2>6, <2>7, <2>8 DEF TxInv
<1>7. CASE /\ Write(<<op, n>>)
           /\ xs' = [xs EXCEPT ![t].known = v]
           /\ swallowed' = IF torn THEN swallowed \cup {t} ELSE swallowed
           /\ UNCHANGED <<stage, todo, counter, crashes>>
  <2>1. /\ torn' = FALSE /\ failures' = failures
        /\ \A i : State(i)' = IF ~torn /\ i = n THEN op ELSE State(i)
    BY <1>1, <1>7, LineWritten
  <2>2. v # "running" /\ v # "unsure"
    OBVIOUS
  <2>3. v = v /\ t \notin swallowed' => State(n)' = op
    BY <1>7, <2>1
  <2>4. Cost'
    <3>1. CASE torn
      <4>1. Cardinality(swallowed) + 1 <= failures
        BY <1>1, <3>1 DEF Cost, One
      <4>2. Cardinality(swallowed \cup {t}) = Cardinality(swallowed) + 1
        BY <1>2, <1>4, FS_AddElement
      <4>3. swallowed' = swallowed \cup {t}
        BY <1>7, <3>1
      <4>4. Cardinality(swallowed') + 0 <= failures'
        BY <1>2, <2>1, <4>1, <4>2, <4>3
      <4>. QED
        BY <2>1, <4>4 DEF Cost, One
    <3>2. CASE ~torn
      <4>1. Cardinality(swallowed) <= failures /\ swallowed' = swallowed
        BY <1>1, <1>2, <1>7, <3>2 DEF Cost, One
      <4>. QED
        BY <1>2, <2>1, <4>1 DEF Cost, One
    <3>. QED
      BY <1>1, <3>1, <3>2 DEF LogTypeOK
  <2>. QED
    BY <1>6, <1>7, <2>2, <2>3, <2>4
<1>8. CASE /\ WriteFails
           /\ xs' = [xs EXCEPT ![t].known = "unsure"]
           /\ UNCHANGED <<stage, todo, counter, crashes, swallowed>>
  <2>1. State(n)' = State(n)
    BY <1>1, <1>8, LineFailed
  <2>2. "unsure" \in Known /\ "unsure" # "running" /\ "unsure" # v /\ swallowed' = swallowed
    BY <1>8 DEF Known
  <2>3. Cost'
    BY <1>8, FailurePays
  <2>. QED
    BY <1>6, <1>8, <2>1, <2>2, <2>3
<1>9. \/ /\ Write(<<op, n>>)
         /\ xs' = [xs EXCEPT ![t].known = v]
         /\ swallowed' = IF torn THEN swallowed \cup {t} ELSE swallowed
         /\ UNCHANGED <<stage, todo, counter, crashes>>
      \/ /\ WriteFails
         /\ xs' = [xs EXCEPT ![t].known = "unsure"]
         /\ UNCHANGED <<stage, todo, counter, crashes, swallowed>>
      \/ Halt /\ HaltIn(<<op, n>>) /\ xs' = Forgotten
  BY <1>3 DEF Decide
<1>. QED
  BY <1>5, <1>7, <1>8, <1>9

(* x::~x.                                                                  *)
LEMMA DropStep ==
  ASSUME TxInv, NEW t \in DOMAIN xs, Drop(t)
  PROVE  TxInv'
<1>1. /\ LogTypeOK /\ Kept /\ Running /\ Counted /\ ToAbort /\ Cost /\ Left
      /\ stage = "open" /\ xs[t].known = "running"
      /\ xs' = [xs EXCEPT ![t].known = "left"]
      /\ UNCHANGED <<file, torn, stage, todo, counter, failures, swallowed>>
  BY DEF TxInv, Drop
<1>2. "left" \in Known
  BY DEF Known
<1>3. /\ xs' \in Seq(Tx) /\ DOMAIN xs' = DOMAIN xs
      /\ \A u \in DOMAIN xs : /\ xs'[u].id = xs[u].id
                              /\ xs'[u].known = IF u = t THEN "left" ELSE xs[u].known
  BY <1>1, <1>2, Learnt
<1>4. Ids' = Ids /\ \A i : State(i)' = State(i)
  BY <1>1 DEF Ids, State, LinesOf
<1>5. LogTypeOK'
  BY <1>1, <1>3 DEF LogTypeOK
<1>6. \A u \in DOMAIN xs : Present(u)' <=> Present(u)
  BY <1>1, <1>3 DEF Present
<1>7. Kept'
  BY <1>1, <1>3, <1>4, <1>6 DEF Kept
<1>8. Running'
  <2> SUFFICES ASSUME NEW u \in DOMAIN xs, Present(u)'
               PROVE  /\ xs[u].id < counter /\ u \notin swallowed
                      /\ \A w \in DOMAIN xs : w # u /\ xs[w].id = xs[u].id =>
                           xs'[w].known = "lost" \/ w \in swallowed
    BY <1>1, <1>3 DEF Running
  <2>1. Present(u)
    BY <1>6
  <2>2. /\ xs[u].id < counter /\ u \notin swallowed
        /\ \A w \in DOMAIN xs : w # u /\ xs[w].id = xs[u].id =>
             xs[w].known = "lost" \/ w \in swallowed
    BY <1>1, <2>1 DEF Running
  <2>3. t \notin swallowed
    BY <1>1 DEF Running, Present
  <2>. QED
    BY <1>1, <1>3, <2>2, <2>3
<1>9. Counted' /\ ToAbort'
  BY <1>1, <1>4 DEF Counted, ToAbort
<1>10. Cost'
  <2>1. (\E u \in DOMAIN xs' : xs'[u].known = "running")
          => \E u \in DOMAIN xs : xs[u].known = "running"
    BY <1>3
  <2>2. Cardinality(swallowed) \in Nat /\ failures \in Nat
    BY <1>1, TxOf
  <2>. QED
    BY <1>1, <2>1, <2>2 DEF Cost, One
<1>11. Left'
  <2>1. PICK J \in SUBSET Nat :
          IsFiniteSet(J) /\ Cardinality(J) <= 1 + 2 * failures /\ LeftWhenOpen(J)
    BY <1>1 DEF Left
  <2>2. LeftWhenOpen(J)'
    BY <1>1, <1>3, <1>4, <2>1 DEF LeftWhenOpen
  <2>. QED
    BY <1>1, <2>1, <2>2 DEF Left
<1>. QED
  BY <1>5, <1>7, <1>8, <1>9, <1>10, <1>11 DEF TxInv

(* log::open reads the file.                                               *)
LEMMA OpenStep ==
  ASSUME TxInv, open
  PROVE  TxInv'
<1>1. /\ LogTypeOK /\ Kept /\ Running /\ Cost
      /\ stage = "closed" /\ stage' = "sync" /\ counter' = Counter /\ todo' = Begun
      /\ UNCHANGED <<file, torn, xs, failures, swallowed>>
  BY DEF TxInv, open
<1>2. file \in Seq(Line) /\ failures \in Nat
  BY <1>1 DEF LogTypeOK
<1>3. Counter \in Nat /\ \A i \in Ids : i \in Nat /\ i < Counter
  BY <1>2, CounterPast
<1>4. /\ Begun \in Seq(Nat)
      /\ \A k \in 1..Len(Begun) : State(Begun[k]) = "begin"
      /\ \A i \in Ids : State(i) = "begin" => \E k \in 1..Len(Begun) : Begun[k] = i
  BY <1>2, BegunFound
<1>5. Ids' = Ids /\ \A i : State(i)' = State(i)
  BY <1>1 DEF Ids, State, LinesOf
<1>6. LogTypeOK'
  BY <1>1, <1>3, <1>4 DEF LogTypeOK
<1>7. Kept' /\ Running' /\ Cost'
  BY <1>1, <1>5 DEF Kept, Running, Present, Cost
<1>8. Counted'
  BY <1>1, <1>3, <1>5 DEF Counted
<1>9. DOMAIN todo' = 1..Len(Begun)
  BY <1>1, <1>4
<1>10. ToAbort'
  BY <1>1, <1>4, <1>5, <1>9 DEF ToAbort
<1>11. Left'
  <2>1. LeftBySync({})'
    BY <1>1, <1>4, <1>5, <1>9 DEF LeftBySync
  <2>2. {} \in SUBSET Nat /\ IsFiniteSet({}) /\ Cardinality({}) = 0
    BY FS_EmptySet
  <2>3. 0 + One(torn) <= 1 + 2 * failures
    BY <1>2 DEF One
  <2>4. stage' = "sync" /\ torn' = torn /\ failures' = failures
    BY <1>1
  <2>5. \E J \in SUBSET Nat :
          /\ IsFiniteSet(J) /\ Cardinality(J) + One(torn) <= 1 + 2 * failures
          /\ LeftBySync(J)'
    BY <2>1, <2>2, <2>3
  <2>. QED
    BY <2>4, <2>5 DEF Left, LeftBySync
<1>. QED
  BY <1>6, <1>7, <1>8, <1>10, <1>11 DEF TxInv

(* sync aborts what is begun.                                              *)
LEMMA SyncStep ==
  ASSUME TxInv, sync
  PROVE  TxInv'
<1>1. LogTypeOK /\ Kept /\ Running /\ Counted /\ ToAbort /\ Cost /\ Left /\ stage = "sync"
  BY DEF TxInv, sync
<1>2. /\ \A t \in DOMAIN xs : ~Present(t)
      /\ Cardinality(swallowed) \in Nat /\ failures \in Nat /\ torn \in BOOLEAN
  BY <1>1, TxOf DEF Running, LogTypeOK
<1>3. CASE /\ todo = <<>> /\ stage' = "open"
           /\ UNCHANGED <<file, torn, todo, counter, xs, crashes, failures, swallowed>>
  <2>1. Ids' = Ids /\ \A i : State(i)' = State(i)
    BY <1>3 DEF Ids, State, LinesOf
  <2>2. LogTypeOK' /\ Kept' /\ Running' /\ Cost'
    BY <1>1, <1>2, <1>3, <2>1 DEF LogTypeOK, Kept, Running, Present, Cost
  <2>3. Counted' /\ ToAbort'
    BY <1>1, <1>3, <2>1 DEF Counted, ToAbort
  <2>4. Left'
    <3>1. PICK J \in SUBSET Nat :
            /\ IsFiniteSet(J) /\ Cardinality(J) + One(torn) <= 1 + 2 * failures
            /\ LeftBySync(J)
      BY <1>1 DEF Left
    <3>2. LeftWhenOpen(J)'
      BY <1>3, <2>1, <3>1 DEF LeftBySync, LeftWhenOpen
    <3>3. Cardinality(J) <= 1 + 2 * failures'
      <4>1. Cardinality(J) \in Nat
        BY <3>1, FS_CardinalityType
      <4>. QED
        BY <1>2, <1>3, <3>1, <4>1 DEF One
    <3>. QED
      BY <1>3, <3>1, <3>2, <3>3 DEF Left
  <2>. QED
    BY <2>2, <2>3, <2>4 DEF TxInv
<1>4. ASSUME todo # <<>>
      PROVE  /\ Head(todo) \in Nat /\ Tail(todo) \in Seq(Nat)
             /\ State(Head(todo)) \in {"begin", "abort"}
             /\ \A k \in DOMAIN Tail(todo) : \E l \in DOMAIN todo : todo[l] = Tail(todo)[k]
             /\ \A l \in DOMAIN todo : todo[l] = Head(todo)
                                       \/ \E k \in DOMAIN Tail(todo) : Tail(todo)[k] = todo[l]
  <2>1. /\ todo \in Seq(Nat) /\ Len(todo) \in Nat \ {0} /\ DOMAIN todo = 1..Len(todo)
        /\ Head(todo) = todo[1] /\ Tail(todo) \in Seq(Nat)
        /\ DOMAIN Tail(todo) = 1..(Len(todo) - 1)
        /\ \A k \in 1..(Len(todo) - 1) : Tail(todo)[k] = todo[k + 1]
        /\ \A k \in 1..Len(todo) : todo[k] \in Nat
    BY <1>1, <1>4 DEF LogTypeOK
  <2>2. 1 \in DOMAIN todo /\ todo[1] \in Nat
    BY <2>1
  <2>3. State(Head(todo)) \in {"begin", "abort"}
    BY <1>1, <2>1, <2>2 DEF ToAbort
  <2>4. \A k \in 1..(Len(todo) - 1) : k + 1 \in 1..Len(todo)
    BY <2>1
  <2>5. ASSUME NEW l \in DOMAIN todo, l # 1
        PROVE  \E k \in DOMAIN Tail(todo) : Tail(todo)[k] = todo[l]
    <3>1. l - 1 \in 1..(Len(todo) - 1) /\ (l - 1) + 1 = l
      BY <2>1, <2>5
    <3>. QED
      BY <2>1, <3>1
  <2>. QED
    BY <2>1, <2>2, <2>3, <2>4, <2>5
<1>5. CASE todo # <<>> /\ Halt /\ HaltIn(<<"abort", Head(todo)>>) /\ UNCHANGED xs
  <2>1. PICK n \in Nat : n = Head(todo)
    BY <1>4, <1>5
  <2>2. ASSUME NEW t \in DOMAIN xs, xs[t].id = n, xs[t].known \in {"committed", "aborted"},
               t \notin swallowed
        PROVE  xs[t].known = "aborted"
    <3>1. State(n) # "commit"
      BY <1>4, <1>5, <2>1
    <3>. QED
      BY <1>1, <2>1, <2>2, <3>1 DEF Kept
  <2>3. "abort" \in Operation /\ HaltIn(<<"abort", n>>) /\ Halt /\ xs' = xs /\ stage # "open"
    BY <1>1, <1>5, <2>1 DEF Operation
  <2>. QED
    BY <2>2, <2>3, Cut
<1>6. CASE /\ todo # <<>>
           /\ Write(<<"abort", Head(todo)>>) \/ WriteFails
           /\ todo' = Tail(todo)
           /\ UNCHANGED <<stage, counter, xs, crashes, swallowed>>
  <2>1. PICK n \in Nat : n = Head(todo)
    BY <1>4, <1>6
  <2>2. "abort" \in Operation /\ (Write(<<"abort", n>>) \/ WriteFails)
    BY <1>6, <2>1 DEF Operation
  <2>3. /\ file' \in Seq(Line) /\ torn' \in BOOLEAN
        /\ failures' \in Nat /\ failures <= failures'
        /\ Ids' = Ids \/ Ids' = Ids \cup {n}
        /\ \A i : State(i)' = State(i) \/ (i = n /\ State(i)' = "abort")
    BY <1>1, <2>2, LineTried
  <2>4. State(n) \in {"begin", "abort"} /\ n \in Ids /\ Ids' = Ids
    <3>1. State(n) \in {"begin", "abort"}
      BY <1>4, <1>6, <2>1
    <3>2. State(n) \in Operation
      BY <3>1 DEF Operation
    <3>3. n \in Ids
      BY <3>2, Decided
    <3>. QED
      BY <2>3, <3>1, <3>3
  <2>5. LogTypeOK'
    <3>1. todo' \in Seq(Nat)
      BY <1>4, <1>6
    <3>. QED
      BY <1>1, <1>6, <2>3, <3>1 DEF LogTypeOK
  <2>6. Kept'
    <3> SUFFICES ASSUME NEW t \in DOMAIN xs, NEW i \in Nat, xs[t].id = i
                 PROVE  /\ xs[t].known = "committed" /\ t \notin swallowed => State(i)' = "commit"
                        /\ xs[t].known = "aborted" /\ t \notin swallowed => State(i)' = "abort"
      BY <1>2, <1>6 DEF Kept, Present
    <3>1. /\ xs[t].known = "committed" /\ t \notin swallowed => State(i) = "commit"
          /\ xs[t].known = "aborted" /\ t \notin swallowed => State(i) = "abort"
      BY <1>1 DEF Kept
    <3>. QED
      BY <2>3, <2>4, <3>1
  <2>7. Running'
    BY <1>2, <1>6 DEF Running, Present
  <2>8. Counted'
    BY <1>1, <1>6, <2>4 DEF Counted
  <2>9. ToAbort'
    <3> SUFFICES ASSUME NEW k \in DOMAIN todo', NEW i \in Nat, todo'[k] = i
                 PROVE  State(i)' \in {"begin", "abort"}
      BY <1>1, <1>6 DEF ToAbort
    <3>1. PICK l \in DOMAIN todo : todo[l] = i
      BY <1>4, <1>6
    <3>2. State(i) \in {"begin", "abort"}
      BY <1>1, <3>1 DEF ToAbort
    <3>. QED
      BY <2>3, <3>2
  <2>10. Cost'
    <3>1. ~\E t \in DOMAIN xs' : xs'[t].known = "running"
      BY <1>2, <1>6 DEF Present
    <3>2. Cardinality(swallowed) <= failures
      BY <1>1, <1>2 DEF Cost, One
    <3>3. Cardinality(swallowed) + 0 <= failures'
      BY <1>2, <2>3, <3>2
    <3>. QED
      BY <1>6, <3>1, <3>3 DEF Cost, One
  <2>11. Left'
    <3>1. PICK J \in SUBSET Nat :
            /\ IsFiniteSet(J) /\ Cardinality(J) + One(torn) <= 1 + 2 * failures
            /\ LeftBySync(J)
      BY <1>1 DEF Left
    <3>2. Cardinality(J) \in Nat
      BY <3>1, FS_CardinalityType
    <3>3. ASSUME NEW i \in Ids', State(i)' = "begin"
          PROVE  /\ (\E k \in DOMAIN todo' : todo'[k] = i) \/ i \in J \/ i = n
                 /\ State(n)' = "abort" => (\E k \in DOMAIN todo' : todo'[k] = i) \/ i \in J
      <4>1. i \in Ids /\ State(i) = "begin"
        BY <2>3, <2>4, <3>3
      <4>2. (\E k \in DOMAIN todo : todo[k] = i) \/ i \in J
        BY <3>1, <4>1 DEF LeftBySync
      <4>3. (\E k \in DOMAIN todo : todo[k] = i) => i = n \/ \E k \in DOMAIN todo' : todo'[k] = i
        BY <1>4, <1>6, <2>1
      <4>. QED
        BY <3>3, <4>2, <4>3
    <3>4. stage' = "sync"
      BY <1>1, <1>6
    <3>5. ASSUME NEW K \in SUBSET Nat, IsFiniteSet(K),
                 Cardinality(K) + One(torn') <= 1 + 2 * failures',
                 \A i \in Ids' : State(i)' = "begin" =>
                   (\E k \in DOMAIN todo' : todo'[k] = i) \/ i \in K
          PROVE  Left'
      BY <3>4, <3>5 DEF Left, LeftBySync
    <3>6. J \cup {n} \in SUBSET Nat /\ IsFiniteSet(J \cup {n})
          /\ Cardinality(J \cup {n}) \in Nat /\ Cardinality(J \cup {n}) <= Cardinality(J) + 1
      <4>1. CASE n \in J
        <5>1. J \cup {n} = J
          BY <4>1
        <5>. QED
          BY <3>1, <3>2, <5>1
      <4>2. CASE n \notin J
        BY <3>1, <3>2, <4>2, FS_AddElement
      <4>. QED
        BY <4>1, <4>2
    <3>7. CASE WriteFails
      <4>1. failures' = failures + 1
        BY <1>1, <3>7, LineFailed
      <4>2. One(torn) \in 0..1 /\ One(torn') \in 0..1
        BY DEF One
      <4>3. Cardinality(J \cup {n}) + One(torn') <= 1 + 2 * failures'
        BY <1>2, <3>1, <3>2, <3>6, <4>1, <4>2
      <4>. QED
        BY <3>3, <3>5, <3>6, <4>3
    <3>8. CASE Write(<<"abort", n>>)
      <4>1. /\ torn' = FALSE /\ failures' = failures
            /\ \A i : State(i)' = IF ~torn /\ i = n THEN "abort" ELSE State(i)
        BY <1>1, <2>2, <3>8, LineWritten
      <4>2. CASE torn
        <5>1. Cardinality(J \cup {n}) + One(torn') <= 1 + 2 * failures'
          BY <1>2, <3>1, <3>2, <3>6, <4>1, <4>2 DEF One
        <5>. QED
          BY <3>3, <3>5, <3>6, <5>1
      <4>3. CASE ~torn
        <5>1. Cardinality(J) + One(torn') <= 1 + 2 * failures' /\ State(n)' = "abort"
          BY <1>2, <3>1, <3>2, <4>1, <4>3 DEF One
        <5>. QED
          BY <3>1, <3>3, <3>5, <5>1
      <4>. QED
        BY <4>2, <4>3
    <3>. QED
      BY <2>2, <3>7, <3>8
  <2>. QED
    BY <2>5, <2>6, <2>7, <2>8, <2>9, <2>10, <2>11 DEF TxInv
<1>. QED
  BY <1>3, <1>5, <1>6 DEF sync

(* The process stops between two writes.                                   *)
LEMMA StopStep ==
  ASSUME TxInv, Stop
  PROVE  TxInv'
<1>1. LogTypeOK /\ Halt /\ xs' = Forgotten /\ UNCHANGED <<file, torn>>
  BY DEF TxInv, Stop
<1>2. \A i : State(i)' = State(i)
  BY <1>1 DEF State, LinesOf
<1>3. file' \in Seq(Line) /\ torn' \in BOOLEAN
  BY <1>1 DEF LogTypeOK
<1>4. /\ xs' \in Seq(Tx) /\ DOMAIN xs' = DOMAIN xs
      /\ \A t \in DOMAIN xs :
           /\ xs'[t].id = xs[t].id
           /\ \/ xs'[t].known = "lost"
              \/ xs'[t].known = xs[t].known /\ ~Present(t)
  BY <1>1, ForgottenOf
<1>. QED
  BY <1>1, <1>2, <1>3, <1>4, Halted

(* The invariant of every behaviour of the log.                            *)
LEMMA TxInvariant == TxLogSpec => []TxInv
<1>1. TxInit => TxInv
  <2> SUFFICES ASSUME TxInit PROVE TxInv
    OBVIOUS
  <2>1. LogTypeOK
    <3>1. <<>> \in Seq(Line) /\ <<>> \in Seq(Tx) /\ <<>> \in Seq(Nat) /\ 0 \in Nat
      OBVIOUS
    <3>. QED
      BY <3>1 DEF TxInit, LogTypeOK
  <2>2. DOMAIN xs = {}
    BY DEF TxInit
  <2>3. Cost
    <3>1. Cardinality({}) = 0
      BY FS_EmptySet
    <3>. QED
      BY <3>1 DEF TxInit, Cost, One
  <2>. QED
    BY <2>1, <2>2, <2>3 DEF TxInit, TxInv, Kept, Running, Counted, ToAbort, Left
<1>2. TxInv /\ [TxNext]_txVars => TxInv'
  <2> SUFFICES ASSUME TxInv, [TxNext]_txVars PROVE TxInv'
    OBVIOUS
  <2>1. CASE UNCHANGED txVars
    <3>1. Ids' = Ids /\ \A i : State(i)' = State(i)
      BY <2>1 DEF txVars, Ids, State, LinesOf
    <3>2. LogTypeOK' /\ Kept' /\ Running' /\ Cost'
      BY <2>1, <3>1 DEF txVars, TxInv, LogTypeOK, Kept, Running, Present, Cost
    <3>3. Counted' /\ ToAbort' /\ Left'
      BY <2>1, <3>1 DEF txVars, TxInv, Counted, ToAbort, Left, LeftBySync, LeftWhenOpen
    <3>. QED
      BY <3>2, <3>3 DEF TxInv
  <2>2. ASSUME NEW t \in DOMAIN xs, commit(t) \/ abort(t) PROVE TxInv'
    <3>1. /\ "commit" \in Operation /\ "abort" \in Operation
          /\ "committed" \in Known /\ "aborted" \in Known
      BY DEF Operation, Known
    <3>2. CASE commit(t)
      <4>1. Decide(t, <<"commit", xs[t].id>>, "committed")
        BY <3>2 DEF commit
      <4>. QED
        BY <3>1, <4>1, DecideStep
    <3>3. CASE abort(t)
      <4>1. Decide(t, <<"abort", xs[t].id>>, "aborted")
        BY <3>3 DEF abort
      <4>. QED
        BY <3>1, <4>1, DecideStep
    <3>. QED
      BY <2>2, <3>2, <3>3
  <2>. QED
    BY <2>1, <2>2, BeginStep, DropStep, OpenStep, SyncStep, StopStep DEF TxNext
<1>. QED
  BY <1>1, <1>2, PTL DEF TxLogSpec

(* OutcomeKept: what commit and abort returned is what every later recovery *)
(* finds, except that each failed write may cost one transaction its       *)
(* outcome; a commit that returned an error is not found committed; and a  *)
(* recovery leaves at most one transaction undecided, and two more for     *)
(* each failed write.                                                      *)
THEOREM OutcomesKept == TxLogSpec => []OutcomeKept
<1>1. TxInv => OutcomeKept
  <2> SUFFICES ASSUME TxInv PROVE OutcomeKept
    OBVIOUS
  <2>1. LogTypeOK /\ Kept /\ Cost /\ Left
    BY DEF TxInv
  <2>2. TxTypeOK
    BY <2>1 DEF LogTypeOK, TxTypeOK, Line, Tx
  <2>3. Cardinality(swallowed) \in Nat /\ failures \in Nat
        /\ \A t \in DOMAIN xs : xs[t].id \in Nat
    BY <2>1, TxOf
  <2>4. RecoveryComplete
    <3> DEFINE left == {i \in Ids : /\ State(i) = "begin"
                                    /\ \A t \in DOMAIN xs : xs[t].id = i => xs[t].known = "lost"}
    <3> SUFFICES ASSUME stage = "open" PROVE Cardinality(left) <= 1 + 2 * failures
      BY DEF RecoveryComplete
    <3>1. PICK J \in SUBSET Nat :
            IsFiniteSet(J) /\ Cardinality(J) <= 1 + 2 * failures /\ LeftWhenOpen(J)
      BY <2>1 DEF Left
    <3>2. left \subseteq J
      BY <3>1 DEF LeftWhenOpen
    <3> HIDE DEF left
    <3>3. /\ Cardinality(left) <= Cardinality(J)
          /\ Cardinality(left) \in Nat /\ Cardinality(J) \in Nat
      BY <3>1, <3>2, FS_Subset, FS_CardinalityType
    <3>. QED
      BY <2>3, <3>1, <3>3
  <2>5. Cardinality(swallowed) <= failures
    BY <2>1, <2>3 DEF Cost, One
  <2>6. ASSUME NEW t \in DOMAIN xs
        PROVE  /\ xs[t].known = "committed" /\ t \notin swallowed => State(xs[t].id) = "commit"
               /\ xs[t].known = "aborted" /\ t \notin swallowed => State(xs[t].id) # "commit"
               /\ xs[t].known \in {"running", "left", "unsure"} => State(xs[t].id) # "commit"
    BY <2>1, <2>3 DEF Kept, Present
  <2>. QED
    BY <2>2, <2>4, <2>5, <2>6 DEF OutcomeKept
<1>. QED
  BY <1>1, TxInvariant, PTL

-----------------------------------------------------------------------------
(* The feed of events                                                      *)
(*                                                                         *)
(* What the pointers reach is treated first, for any pointers, so that the *)
(* lemmas hold of the list before and after a step.  ListInv says that the *)
(* list is what it should be; WalkInv, what is ahead of the event thread.  *)

(* No shell is the null pointer, and no account; the bound is a number.    *)
Distinct == Null \notin Shell \cup Acct /\ MaxEvents \in Nat

-----------------------------------------------------------------------------
(* What pointers reach                                                     *)

Pointers == [Shell -> Pointer]

ClosedUnder(n, C) == \A a \in C : n[a] \in C \cup {Null}

Reach(n, p) ==
  {b \in Shell : \A C \in SUBSET Shell : p \in C \cup {Null} /\ ClosedUnder(n, C) => b \in C}

(* It is the least set that contains the start and is closed.              *)
LEMMA ReachLeast ==
  ASSUME NEW n, NEW p, NEW C \in SUBSET Shell, p \in C \cup {Null}, ClosedUnder(n, C)
  PROVE  Reach(n, p) \subseteq C
BY DEF Reach

(* What is reached is closed under the pointers, and contains the start.   *)
LEMMA ReachClosed ==
  ASSUME NEW n \in Pointers, NEW p \in Pointer
  PROVE  /\ Reach(n, p) \subseteq Shell
         /\ p \in Reach(n, p) \cup {Null}
         /\ ClosedUnder(n, Reach(n, p))
<1>1. p \in Reach(n, p) \cup {Null}
  BY DEF Reach, Pointer
<1>2. ASSUME NEW a \in Reach(n, p), n[a] # Null PROVE n[a] \in Reach(n, p)
  <2>1. n[a] \in Shell
    BY <1>2 DEF Pointers, Pointer, Reach
  <2>2. ASSUME NEW C \in SUBSET Shell, p \in C \cup {Null}, ClosedUnder(n, C) PROVE n[a] \in C
    BY <1>2, <2>2 DEF Reach, ClosedUnder
  <2>. QED
    BY <2>1, <2>2 DEF Reach
<1>. QED
  BY <1>1, <1>2 DEF Reach, ClosedUnder

(* From a shell it reaches itself and what is reached from the next.       *)
LEMMA ReachNext ==
  ASSUME Distinct, NEW n \in Pointers, NEW p \in Shell
  PROVE  /\ n[p] \in Pointer
         /\ p \in Reach(n, p)
         /\ Reach(n, n[p]) \subseteq Reach(n, p)
<1>1. n[p] \in Pointer /\ p \in Reach(n, p) /\ ClosedUnder(n, Reach(n, p))
  BY ReachClosed DEF Pointers, Pointer, Distinct
<1>2. n[p] \in Reach(n, p) \cup {Null}
  BY <1>1 DEF ClosedUnder
<1>. QED
  BY <1>1, <1>2, ReachLeast DEF Reach

(* A pointer past a shell reaches no more than the pointer to it did, and  *)
(* makes no cycle.                                                         *)
LEMMA Shortcut ==
  ASSUME Distinct, NEW n \in Pointers, NEW c \in Shell, NEW q \in Pointer,
         q # Null => n[q] = c,
         NEW m, m = [b \in Shell |-> IF b = q THEN n[c] ELSE n[b]]
  PROVE  /\ m \in Pointers
         /\ \A p \in Pointer : Reach(m, p) \subseteq Reach(n, p)
         /\ \A b \in Shell : b \notin Reach(n, n[b]) => b \notin Reach(m, m[b])
<1>1. m \in Pointers
  BY DEF Pointers
<1>2. ASSUME NEW p \in Pointer PROVE Reach(m, p) \subseteq Reach(n, p)
  <2>1. ClosedUnder(n, Reach(n, p)) /\ p \in Reach(n, p) \cup {Null} /\ Reach(n, p) \subseteq Shell
    BY ReachClosed
  <2>2. ClosedUnder(m, Reach(n, p))
    BY <2>1 DEF ClosedUnder, Distinct, Pointers
  <2>. QED
    BY <2>1, <2>2, ReachLeast
<1>3. ASSUME NEW b \in Shell, b \notin Reach(n, n[b]) PROVE b \notin Reach(m, m[b])
  <2>1. CASE b # q
    BY <1>2, <1>3, <2>1 DEF Pointers
  <2>2. CASE b = q
    <3>1. n[b] = c /\ m[b] = n[c]
      BY <2>2 DEF Distinct
    <3>2. Reach(m, n[c]) \subseteq Reach(n, n[c])
      BY <1>2 DEF Pointers
    <3>3. Reach(n, n[c]) \subseteq Reach(n, c)
      BY ReachNext
    <3>. QED
      BY <1>3, <3>1, <3>2, <3>3
  <2>. QED
    BY <2>1, <2>2
<1>. QED
  BY <1>1, <1>2, <1>3

-----------------------------------------------------------------------------
(* Doubly linked lists                                                     *)

(* From h, n leads through exactly the shells of L, and v leads back.      *)
List(n, v, h, L) ==
  /\ n \in Pointers /\ v \in Pointers /\ h \in Pointer
  /\ Reach(n, h) = L
  /\ h # Null => v[h] = Null
  /\ \A b \in L : n[b] # Null => v[n[b]] = b

(* The members are shells, with the first and the next of each among them. *)
LEMMA ListMembers ==
  ASSUME Distinct, NEW n, NEW v, NEW h, NEW L, List(n, v, h, L)
  PROVE  /\ L \subseteq Shell
         /\ h \in L \cup {Null}
         /\ ClosedUnder(n, L)
BY ReachClosed DEF List

(* Every shell but the first has one before it.                            *)
LEMMA ListPrevious ==
  ASSUME Distinct, NEW n, NEW v, NEW h, NEW L, List(n, v, h, L), NEW b \in L
  PROVE  /\ b = h => v[b] = Null
         /\ b # h => v[b] \in L /\ n[v[b]] = b
<1>1. b = h => v[b] = Null
  BY ListMembers DEF List, Distinct
<1>2. ASSUME b # h PROVE \E a \in L : n[a] = b
  <2> SUFFICES ASSUME \A a \in L : n[a] # b PROVE FALSE
    OBVIOUS
  <2>1. h \in (L \ {b}) \cup {Null} /\ ClosedUnder(n, L \ {b}) /\ L \ {b} \in SUBSET Shell
    BY <1>2, ListMembers DEF ClosedUnder
  <2>. QED
    BY <2>1, ReachLeast DEF List
<1>3. ASSUME NEW a \in L, n[a] = b PROVE v[b] = a
  BY <1>3, ListMembers DEF List, Distinct
<1>. QED
  BY <1>1, <1>2, <1>3

(* No shell of the list is reached again from the next one.                *)
LEMMA ListAcyclic ==
  ASSUME Distinct, NEW n, NEW v, NEW h, NEW L, List(n, v, h, L), NEW b \in L
  PROVE  b \notin Reach(n, n[b])
<1> SUFFICES ASSUME b \in Reach(n, n[b]) PROVE FALSE
  OBVIOUS
<1> DEFINE C == Reach(n, n[b])
<1>1. n \in Pointers /\ n[b] \in Pointer /\ L \subseteq Shell
  BY ListMembers DEF List, Pointers
<1>2. C \subseteq Shell /\ n[b] \in C \cup {Null} /\ ClosedUnder(n, C)
  BY <1>1, ReachClosed
<1>3. C \subseteq L
  <2>1. n[b] \in L \cup {Null} /\ ClosedUnder(n, L) /\ L \in SUBSET Shell
    BY ListMembers DEF ClosedUnder
  <2>. QED
    BY <2>1, ReachLeast
<1> HIDE DEF C
<1>4. ASSUME NEW a \in C PROVE \E y \in C : n[y] = a
  <2> SUFFICES ASSUME \A y \in C : n[y] # a PROVE FALSE
    OBVIOUS
  <2>1. n[b] # a
    BY DEF C
  <2>2. n[b] \in (C \ {a}) \cup {Null} /\ ClosedUnder(n, C \ {a}) /\ C \ {a} \in SUBSET Shell
    BY <1>2, <2>1 DEF ClosedUnder
  <2>3. Reach(n, n[b]) \subseteq C \ {a}
    BY <2>2, ReachLeast
  <2>. QED
    BY <2>3 DEF C
<1>5. \A a \in C : a # h /\ v[a] \in C
  BY <1>2, <1>3, <1>4, ListMembers DEF List, Distinct
<1>6. h \in (L \ C) \cup {Null} /\ ClosedUnder(n, L \ C) /\ L \ C \in SUBSET Shell
  BY <1>1, <1>5, ListMembers DEF ClosedUnder, List
<1>7. L \subseteq L \ C
  BY <1>6, ReachLeast DEF List
<1>. QED
  BY <1>7 DEF C

(* server::link: a shell that is not in the list becomes its first.        *)
LEMMA LinkList ==
  ASSUME Distinct, NEW n, NEW v, NEW h, NEW L, List(n, v, h, L),
         NEW c \in Shell, c \notin L,
         NEW m, m = [n EXCEPT ![c] = h],
         NEW w, w = [b \in Shell |-> IF b = c THEN Null ELSE IF b = h THEN c ELSE v[b]]
  PROVE  List(m, w, c, L \cup {c})
<1>1. m \in Pointers /\ w \in Pointers /\ c \in Pointer
  BY DEF List, Pointers, Pointer
<1>2. \A b \in L : b # c /\ m[b] = n[b]
  BY ListMembers DEF List, Pointers
<1>3. m[c] = h
  BY DEF List, Pointers
<1>4. Reach(m, c) \subseteq L \cup {c}
  <2>1. ClosedUnder(m, L \cup {c}) /\ L \cup {c} \in SUBSET Shell
    BY <1>2, <1>3, ListMembers DEF ClosedUnder
  <2>. QED
    BY <2>1, ReachLeast
<1>5. L \cup {c} \subseteq Reach(m, c)
  <2> DEFINE C == Reach(m, c)
  <2>1. c \in C /\ ClosedUnder(m, C) /\ C \subseteq Shell
    BY <1>1, ReachClosed DEF Distinct
  <2> HIDE DEF C
  <2>2. h \in (C \cap L) \cup {Null} /\ ClosedUnder(n, C \cap L) /\ C \cap L \in SUBSET Shell
    BY <1>2, <1>3, <2>1, ListMembers DEF ClosedUnder
  <2>3. L \subseteq C \cap L
    BY <2>2, ReachLeast DEF List
  <2>. QED
    BY <2>1, <2>3 DEF C
<1>6. w[c] = Null
  OBVIOUS
<1>7. ASSUME NEW b \in L \cup {c}, m[b] # Null PROVE w[m[b]] = b
  BY <1>2, <1>3, <1>7, ListMembers DEF List, Distinct, ClosedUnder
<1>. QED
  BY <1>1, <1>4, <1>5, <1>6, <1>7 DEF List

(* server::unlink: the others remain, in a list.                           *)
LEMMA UnlinkList ==
  ASSUME Distinct, NEW n, NEW v, NEW h, NEW L, List(n, v, h, L), NEW c \in L,
         NEW m, m = [b \in Shell |-> IF b = v[c] THEN n[c] ELSE n[b]],
         NEW w, w = [b \in Shell |-> IF b = n[c] THEN v[c] ELSE v[b]],
         NEW k, k = IF c = h THEN n[c] ELSE h
  PROVE  List(m, w, k, L \ {c})
<1>1. /\ n \in Pointers /\ v \in Pointers /\ h \in Pointer /\ Reach(n, h) = L
      /\ L \subseteq Shell /\ c \in Shell
  BY ListMembers DEF List
<1>2. n[c] \in Pointer /\ v[c] \in Pointer
  BY <1>1 DEF Pointers
<1>3. m \in Pointers /\ w \in Pointers /\ k \in Pointer
  BY <1>1, <1>2 DEF Pointers
<1>4. n[c] # c
  <2>1. c \notin Reach(n, n[c])
    BY ListAcyclic
  <2>2. n[c] = c => c \in Reach(n, n[c])
    BY <1>1, ReachNext
  <2>. QED
    BY <2>1, <2>2
<1>5. n[c] \in (L \ {c}) \cup {Null}
  BY <1>4, ListMembers DEF ClosedUnder
<1>6. /\ c = h => v[c] = Null
      /\ c # h => v[c] \in L \ {c} /\ n[v[c]] = c
  BY <1>4, ListPrevious
<1>7. ASSUME NEW b \in L \ {c}
      PROVE  /\ b # v[c] => m[b] = n[b] /\ n[b] # c
             /\ b = v[c] => m[b] = n[c]
             /\ n[b] \in L \cup {Null}
             /\ n[b] # Null => v[n[b]] = b
  <2>1. b \in Shell /\ n[b] \in L \cup {Null} /\ (n[b] # Null => v[n[b]] = b)
    BY <1>1, ListMembers DEF ClosedUnder, List
  <2>. QED
    BY <1>1, <2>1 DEF Distinct
<1>8. Reach(m, k) \subseteq L \ {c}
  <2>1. k \in (L \ {c}) \cup {Null}
    BY <1>5, ListMembers
  <2>2. ClosedUnder(m, L \ {c})
    BY <1>5, <1>7 DEF ClosedUnder
  <2>. QED
    BY <1>1, <2>1, <2>2, ReachLeast
<1>9. L \ {c} \subseteq Reach(m, k)
  <2> DEFINE C == Reach(m, k)
             D == (C \cap L) \cup (IF c = h \/ v[c] \in C THEN {c} ELSE {})
  <2>1. k \in C \cup {Null} /\ ClosedUnder(m, C) /\ C \subseteq Shell
    BY <1>3, ReachClosed
  <2> HIDE DEF C
  <2>2. h \in D \cup {Null}
    BY <2>1, ListMembers
  <2>3. n[c] \in C \cup {Null} \/ c \notin D
    <3>1. CASE c = h
      BY <2>1, <3>1
    <3>2. CASE c # h /\ v[c] \in C
      BY <1>6, <1>7, <2>1, <3>2 DEF ClosedUnder
    <3>3. CASE c # h /\ v[c] \notin C
      BY <1>8, <3>3 DEF C
    <3>. QED
      BY <3>1, <3>2, <3>3
  <2>4. ClosedUnder(n, D)
    <3> SUFFICES ASSUME NEW a \in D PROVE n[a] \in D \cup {Null}
      BY DEF ClosedUnder
    <3>1. CASE a = c
      BY <1>5, <2>3, <3>1
    <3>2. CASE a # c /\ a = v[c]
      BY <1>1, <1>6, <3>2, ListMembers DEF Distinct
    <3>3. CASE a # c /\ a # v[c]
      <4>1. a \in C /\ a \in L \ {c} /\ m[a] \in C \cup {Null}
        BY <2>1, <3>3 DEF ClosedUnder
      <4>. QED
        BY <1>7, <3>3, <4>1
    <3>. QED
      BY <3>1, <3>2, <3>3
  <2>5. D \in SUBSET Shell
    BY <1>1
  <2>6. L \subseteq D
    BY <1>1, <2>2, <2>4, <2>5, ReachLeast
  <2>. QED
    BY <2>6 DEF C
<1>10. k # Null => w[k] = Null
  <2>1. CASE c = h
    BY <1>1, <1>2, <1>6, <2>1 DEF Pointer
  <2>2. CASE c # h /\ h # Null
    <3>1. v[h] = Null /\ h \in Shell
      BY <1>1, <2>2 DEF List, Pointer
    <3>2. h # n[c]
      BY <1>1, <2>2, <3>1 DEF List, Distinct
    <3>. QED
      BY <2>2, <3>1, <3>2
  <2>. QED
    BY <2>1, <2>2
<1>11. ASSUME NEW b \in L \ {c}, m[b] # Null PROVE w[m[b]] = b
  <2>1. CASE b = v[c]
    BY <1>1, <1>5, <1>7, <1>11, <2>1
  <2>2. CASE b # v[c]
    <3>1. m[b] = n[b] /\ v[n[b]] = b /\ n[b] \in Shell
      BY <1>1, <1>7, <1>11, <2>2
    <3>2. n[b] # n[c]
      BY <1>1, <1>11, <3>1 DEF List
    <3>. QED
      BY <3>1, <3>2
  <2>. QED
    BY <2>1, <2>2
<1>. QED
  BY <1>3, <1>8, <1>9, <1>10, <1>11 DEF List

-----------------------------------------------------------------------------
(* The list of clients                                                     *)

ListInv ==
  /\ FeedTypeOK
  /\ Len(events) <= MaxEvents
  /\ List(next, prev, client_list, live)
  /\ at \in {"lock", "advance"} => cursor # Null

(* A list that is what it should be is intact.                             *)
LEMMA ListInvSuffices == ListInv => ClientListIntact
BY DEF ListInv, List, ClientListIntact, From, Reach, ClosedUnder

(* link puts a connection at the head of the list.                         *)
LEMMA LinkStep ==
  ASSUME Distinct, ListInv, NEW c \in Shell, c \notin live, link(c)
  PROVE  /\ List(next', prev', client_list', live')
         /\ client_list' \in Pointer /\ next' \in Pointers /\ prev' \in Pointers /\ live' \subseteq Shell
<1>1. List(next, prev, client_list, live)
  BY DEF ListInv
<1>2. List([next EXCEPT ![c] = client_list],
           [b \in Shell |-> IF b = c THEN Null ELSE IF b = client_list THEN c ELSE prev[b]],
           c, live \cup {c})
  BY <1>1, LinkList
<1>3. List(next', prev', client_list', live')
  BY <1>2 DEF link
<1>. QED
  BY <1>3, ListMembers DEF List

(* unlink takes a connection out, wherever in the list it is.              *)
LEMMA UnlinkStep ==
  ASSUME Distinct, ListInv, NEW c \in live, unlink(c)
  PROVE  /\ List(next', prev', client_list', live')
         /\ client_list' \in Pointer /\ next' \in Pointers /\ prev' \in Pointers /\ live' \subseteq Shell
<1>1. List(next, prev, client_list, live)
  BY DEF ListInv
<1>2. List([b \in Shell |-> IF b = prev[c] THEN next[c] ELSE next[b]],
           [b \in Shell |-> IF b = next[c] THEN prev[c] ELSE prev[b]],
           IF c = client_list THEN next[c] ELSE client_list, live \ {c})
  BY <1>1, UnlinkList
<1>3. List(next', prev', client_list', live')
  BY <1>2 DEF unlink
<1>. QED
  BY <1>3, ListMembers DEF List

(* The rows that a command or a trader can append.                         *)
LEMMA AppendRowsStep ==
  ASSUME Distinct, ListInv, NEW new \in Seq(Acct \cup {Null}), AppendRows(new)
  PROVE  /\ events' \in Seq(Acct \cup {Null})
         /\ Len(events') \in Nat /\ Len(events') <= MaxEvents /\ Len(events) <= Len(events')
         /\ \A i \in 1 .. Len(events) : events'[i] = events[i]
BY ConcatProperties, LenProperties DEF AppendRows, ListInv, FeedTypeOK, Distinct

(* What an action posts is no row, or one.                                 *)
LEMMA RowsToPost ==
  ASSUME NEW new \in {<<>>} \cup {<<u>> : u \in Acct \cup {Null}}
  PROVE  new \in Seq(Acct \cup {Null})
<1>1. CASE new = <<>>
  BY <1>1
<1>2. ASSUME NEW u \in Acct \cup {Null} PROVE <<u>> \in Seq(Acct \cup {Null})
  OBVIOUS
<1>. QED
  BY <1>1, <1>2

(* One case per action.  What the list is concerned with is the linking    *)
(* and unlinking; the rest are types.                                      *)
LEMMA ListStep ==
  ASSUME Distinct, ListInv, [FeedNext]_feedState
  PROVE  ListInv'
<1> USE DEF ListInv, FeedTypeOK
<1> DEFINE Shells == /\ live' \subseteq Shell /\ next' \in Pointers /\ prev' \in Pointers
                     /\ client_list' \in Pointer
                     /\ List(next', prev', client_list', live')
<1>0. UNCHANGED listVars => Shells
  BY DEF listVars, List
<1>1. ASSUME NEW c \in Shell, Connect(c) PROVE ListInv'
  <2>1. Shells
    BY <1>1, LinkStep DEF Connect
  <2>2. recycled' \in BOOLEAN
    BY <1>1 DEF Connect, Walking
  <2>3. /\ status' \in [Shell -> BOOLEAN] /\ acct' \in [Shell -> Acct \cup {Null}]
        /\ locked' \subseteq Shell
        /\ events' = events /\ pc' = pc /\ told' = told /\ named' = named
        /\ at' = at /\ event_id' = event_id /\ current' = current /\ cursor' = cursor
    BY <1>1 DEF Connect, feedVars
  <2>. QED
    BY <2>1, <2>2, <2>3 DEF Pointers
<1>2. ASSUME NEW c \in live, Hangup(c) PROVE ListInv'
  <2>1. Shells
    BY <1>2, UnlinkStep DEF Hangup
  <2>2. /\ pc' \in [Shell -> {"idle", "busy", "named", "signal"}]
        /\ told' \in [Shell -> 0 .. MaxEvents] /\ named' \in [Shell -> SUBSET Acct]
    BY <1>2 DEF Hangup, Forget, Distinct
  <2>3. /\ events' = events /\ status' = status /\ acct' = acct /\ locked' = locked
        /\ at' = at /\ event_id' = event_id /\ current' = current /\ cursor' = cursor
        /\ recycled' = recycled
    BY <1>2 DEF Hangup, feedVars
  <2>. QED
    BY <2>1, <2>2, <2>3 DEF Pointers
<1>3. ASSUME NEW c \in live, Command(c) PROVE ListInv'
  BY <1>0, <1>3 DEF Command, listVars, feedVars, history
<1>4. ASSUME NEW c \in live, NEW u \in Acct, LoginName(c, u) PROVE ListInv'
  <2>1. named' \in [Shell -> SUBSET Acct]
    BY <1>4 DEF LoginName
  <2>. QED
    BY <1>0, <1>4, <2>1 DEF LoginName, listVars, feedVars
<1>5. ASSUME NEW c \in live, LoginStatus(c) PROVE ListInv'
  BY <1>0, <1>5 DEF LoginStatus, Finish, listVars, feedVars, history
<1>6. ASSUME NEW c \in live, NEW good \in BOOLEAN, Respond(c, good) PROVE ListInv'
  BY <1>0, <1>6 DEF Respond, Finish, listVars, feedVars, history
<1>7. ASSUME NEW c \in live, NEW new \in {<<>>} \cup {<<u>> : u \in Acct \cup {Null}}, Post(c, new)
      PROVE  ListInv'
  <2>1. AppendRows(new) /\ new \in Seq(Acct \cup {Null})
    BY <1>7, RowsToPost DEF Post
  <2>2. events' \in Seq(Acct \cup {Null}) /\ Len(events') <= MaxEvents
    BY <2>1, AppendRowsStep
  <2>. QED
    BY <1>0, <1>7, <2>2 DEF Post, Finish, listVars, feedVars, history
<1>8. ASSUME NEW c \in live, Exit(c) PROVE ListInv'
  <2>1. Shells
    BY <1>8, UnlinkStep DEF Exit
  <2>2. /\ pc' \in [Shell -> {"idle", "busy", "named", "signal"}]
        /\ told' \in [Shell -> 0 .. MaxEvents] /\ named' \in [Shell -> SUBSET Acct]
    BY <1>8 DEF Exit, Forget, Distinct
  <2>3. /\ events' = events /\ status' = status /\ acct' = acct /\ locked' = locked
        /\ at' = at /\ event_id' = event_id /\ current' = current /\ cursor' = cursor
        /\ recycled' = recycled
    BY <1>8 DEF Exit, feedVars
  <2>. QED
    BY <2>1, <2>2, <2>3 DEF Pointers
<1>9. ASSUME NEW c \in live, event_update(c) PROVE ListInv'
  BY <1>0, <1>9 DEF event_update, listVars, history
<1>10. ASSUME NEW u \in Acct \cup {Null}, TraderPost(<<u>>) PROVE ListInv'
  <2>1. AppendRows(<<u>>) /\ <<u>> \in Seq(Acct \cup {Null})
    BY <1>10 DEF TraderPost
  <2>2. events' \in Seq(Acct \cup {Null}) /\ Len(events') <= MaxEvents
    BY <2>1, AppendRowsStep
  <2>. QED
    BY <1>0, <1>10, <2>2 DEF TraderPost, listVars, shellVars, feedVars, history
<1>11. CASE SpuriousWakeup \/ Wait
  BY <1>0, <1>11 DEF SpuriousWakeup, Wait, OfShells, listVars, shellVars
<1>12. CASE FirstLook
  <2>1. event_id' \in 0 .. MaxEvents + 1
    BY <1>12 DEF FirstLook, Distinct
  <2>. QED
    BY <1>0, <1>12, <2>1 DEF FirstLook, OfShells, listVars, shellVars
<1>13. CASE Read
  <2>1. Len(events) \in Nat
    OBVIOUS
  <2>2. event_id' \in 0 .. MaxEvents + 1 /\ current' \in 0 .. MaxEvents
    BY <1>13, <2>1 DEF Read, Take, Leave, Distinct
  <2>3. at' \in {"ready", "walk"} /\ cursor' \in Pointer /\ recycled' \in BOOLEAN
    BY <1>13 DEF Read, Take, Leave, Pointer
  <2>. QED
    BY <1>0, <1>13, <2>2, <2>3 DEF Read, OfShells, listVars, shellVars
<1>14. CASE Test
  <2>1. CASE Leave("ready") \/ Leave("read")
    <3>1. /\ at' \in {"ready", "read"} /\ current' = 0 /\ cursor' = Null /\ recycled' = FALSE
          /\ UNCHANGED <<OfShells, event_id>>
      BY <1>14, <2>1 DEF Test, Leave
    <3>2. /\ current' \in 0 .. MaxEvents /\ cursor' \in Pointer
          /\ at' \in {"ready", "wait", "read", "walk", "lock", "advance"}
      BY <3>1 DEF Pointer, Distinct
    <3>3. recycled' \in BOOLEAN
      BY <3>1, Zenon
    <3>. QED
      BY <1>0, <3>1, <3>2, <3>3 DEF OfShells, listVars, shellVars
  <2>2. CASE cursor # Null /\ at' = "lock" /\ UNCHANGED <<current, cursor, recycled>>
    BY <1>0, <1>14, <2>2 DEF Test, OfShells, listVars, shellVars
  <2>. QED
    BY <1>14, <2>1, <2>2 DEF Test
<1>15. CASE Tell
  BY <1>0, <1>15 DEF Tell, listVars, shellVars
<1>16. CASE Advance
  <2>1. cursor' \in Pointer
    BY <1>16 DEF Advance, Pointer
  <2>. QED
    BY <1>0, <1>16, <2>1, SMTT(30) DEF Advance, OfShells, listVars, shellVars
<1>17. CASE UNCHANGED feedState
  BY <1>0, <1>17, SMTT(30) DEF feedState, listVars, shellVars, feedVars, history
<1>. QED
  BY <1>1, <1>2, <1>3, <1>4, <1>5, <1>6, <1>7, <1>8, <1>9, <1>10, <1>11, <1>12, <1>13, <1>14,
     <1>15, <1>16, <1>17 DEF FeedNext, ShellStep, EventThread

(* The server's list of clients is exactly the doubly linked list of the   *)
(* shells that have a thread, however many connect and go in whatever      *)
(* order: FeedSpec stays well typed and keeps ClientListIntact.            *)
LEMMA ListInvariant ==
  ASSUME Distinct
  PROVE  FeedSpec => []ListInv
<1>1. FeedInit => ListInv
  <2> SUFFICES ASSUME FeedInit PROVE ListInv
    OBVIOUS
  <2>1. FeedTypeOK /\ Len(events) <= MaxEvents /\ at \notin {"lock", "advance"}
    <3>1. events \in Seq(Acct \cup {Null}) /\ Len(events) = 0
      BY DEF FeedInit
    <3>2. status \in [Shell -> BOOLEAN]
      BY DEF FeedInit
    <3>3. recycled \in BOOLEAN
      BY Zenon DEF FeedInit
    <3>4. named \in [Shell -> SUBSET Acct] /\ told \in [Shell -> 0 .. MaxEvents]
      BY DEF FeedInit, Distinct
    <3>. QED
      BY <3>1, <3>2, <3>3, <3>4 DEF FeedInit, FeedTypeOK, Pointer, Distinct
  <2>2. Reach(next, Null) = {}
    <3>1. Null \in {} \cup {Null} /\ ClosedUnder(next, {}) /\ {} \in SUBSET Shell
      BY DEF ClosedUnder
    <3>. QED
      BY <3>1, ReachLeast
  <2>3. List(next, prev, client_list, live)
    BY <2>2 DEF FeedInit, List, Pointers, Pointer
  <2>. QED
    BY <2>1, <2>3 DEF ListInv
<1>2. ListInv /\ [FeedNext]_feedState => ListInv'
  BY ListStep
<1>. QED
  BY <1>1, <1>2, PTL DEF FeedSpec

(* Through logins, exits and shells whose memory is used again, the list   *)
(* that next and prev link from client_list is a list of just the          *)
(* connected clients, read alike in both directions: nobody is lost from   *)
(* it, and it has no cycle to walk for ever.                               *)
THEOREM ClientListStaysIntact == FeedSpec => []ClientListIntact
<1>1. Distinct
  BY NullAssumption, MaxEventsAssumption DEF Distinct
<1>2. FeedSpec => []ListInv
  BY <1>1, ListInvariant
<1>. QED
  BY <1>2, ListInvSuffices, PTL

-----------------------------------------------------------------------------
(* The walk                                                                *)

(* The shell the thread has still to tell, and the event.                  *)
Ahead == IF at = "advance" THEN next[cursor] ELSE cursor

(* Nobody has been told of an event that is not read yet, and a connection  *)
(* has named the account it is logged in to.                               *)
Heard ==
  /\ \A b \in Shell : told[b] = 0 \/ told[b] < event_id
  /\ \A b \in live : acct[b] \in named[b] \cup {Null}

(* The event that is being told is one that was read, of an account.       *)
Telling == Walking => current \in 1 .. event_id - 1 /\ current <= Len(events) /\ events[current] # Null

(* Who is reached from where the thread is has not been told of the event  *)
(* and is reached once, whether it is still in the list or not.            *)
Untold ==
  Walking /\ ~recycled =>
    \A b \in Reach(next, Ahead) : told[b] < current /\ b \notin Reach(next, next[b])

Tested == at = "lock" /\ ~recycled /\ cursor \in live => events[current] \in named[cursor]

WalkInv == ListInv /\ Heard /\ Telling /\ Untold /\ Tested

(* Steps that leave alone what the thread sees ahead.                      *)
LEMMA WalkUnmoved ==
  ASSUME Distinct, WalkInv,
         UNCHANGED <<next, live, at, event_id, current, cursor, told, recycled>>,
         Len(events') \in Nat, Len(events) <= Len(events'),
         \A i \in 1 .. Len(events) : events'[i] = events[i],
         \A b \in live : acct'[b] \in named'[b] \cup {Null},
         \A b \in Shell : named[b] \subseteq named'[b]
  PROVE  Heard' /\ Telling' /\ Untold' /\ Tested'
<1>1. Len(events) \in Nat
  BY DEF WalkInv, ListInv, FeedTypeOK
<1>2. Heard'
  BY DEF WalkInv, Heard
<1>3. Walking => current \in 1 .. Len(events) /\ events'[current] = events[current]
  BY <1>1 DEF WalkInv, ListInv, FeedTypeOK, Telling
<1>4. Telling'
  BY <1>1, <1>3 DEF WalkInv, Telling, Walking
<1>5. Untold'
  BY DEF WalkInv, Untold, Walking, Ahead, Reach, ClosedUnder
<1>6. Tested'
  BY <1>3 DEF WalkInv, Tested, Walking, ListInv, FeedTypeOK
<1>. QED
  BY <1>2, <1>4, <1>5, <1>6

(* When a client goes, what is ahead does not grow.                        *)
LEMMA UnlinkAhead ==
  ASSUME Distinct, WalkInv, NEW c \in live, unlink(c), Forget(c),
         UNCHANGED <<events, acct, at, event_id, current, cursor, recycled>>
  PROVE  Heard' /\ Telling' /\ Untold' /\ Tested'
<1>1. /\ List(next, prev, client_list, live) /\ next \in Pointers /\ prev \in Pointers
      /\ c \in Shell /\ live \subseteq Shell
  BY DEF WalkInv, ListInv, List, FeedTypeOK
<1>2. /\ told' = [told EXCEPT ![c] = 0] /\ named' = [named EXCEPT ![c] = {}]
      /\ live' = live \ {c}
      /\ next' = [b \in Shell |-> IF b = prev[c] THEN next[c] ELSE next[b]]
  BY DEF unlink, Forget
<1>3. prev[c] \in Pointer /\ (prev[c] # Null => next[prev[c]] = c)
  BY <1>1, ListPrevious DEF Pointers
<1>4. /\ next' \in Pointers
      /\ \A p \in Pointer : Reach(next', p) \subseteq Reach(next, p)
      /\ \A b \in Shell : b \notin Reach(next, next[b]) => b \notin Reach(next', next'[b])
  <2> DEFINE q == prev[c]
  <2>1. q \in Pointer /\ (q # Null => next[q] = c)
    BY <1>3
  <2>2. next' = [b \in Shell |-> IF b = q THEN next[c] ELSE next[b]]
    BY <1>2
  <2> HIDE DEF q
  <2>. QED
    BY <1>1, <2>1, <2>2, Shortcut
<1>5. told \in [Shell -> 0 .. MaxEvents] /\ named \in [Shell -> SUBSET Acct]
  BY DEF WalkInv, ListInv, FeedTypeOK
<1>6. Heard' /\ Telling' /\ Tested'
  BY <1>1, <1>2, <1>5 DEF WalkInv, Heard, Telling, Tested, Walking
<1>7. Walking => Reach(next', Ahead') \subseteq Reach(next, Ahead)
  <2> SUFFICES ASSUME Walking PROVE Reach(next', Ahead') \subseteq Reach(next, Ahead)
    OBVIOUS
  <2>1. cursor \in Pointer /\ (at = "advance" => cursor \in Shell)
    BY DEF WalkInv, ListInv, FeedTypeOK, Pointer
  <2>2. CASE at = "advance" /\ cursor = prev[c]
    <3>1. Ahead = c /\ Ahead' = next[c]
      BY <1>2, <1>3, <2>1, <2>2 DEF Ahead, Distinct
    <3>2. next[c] \in Pointer /\ Reach(next, next[c]) \subseteq Reach(next, c)
      BY <1>1, ReachNext
    <3>. QED
      BY <1>4, <3>1, <3>2
  <2>3. CASE ~(at = "advance" /\ cursor = prev[c])
    <3>1. Ahead' = Ahead /\ Ahead \in Pointer
      BY <1>1, <1>2, <2>1, <2>3 DEF Ahead, Pointers
    <3>. QED
      BY <1>4, <3>1
  <2>. QED
    BY <2>2, <2>3
<1>8. Untold'
  <2> SUFFICES ASSUME Walking, ~recycled, NEW b \in Reach(next', Ahead')
               PROVE  told'[b] < current /\ b \notin Reach(next', next'[b])
    BY DEF Untold, Walking
  <2>1. b \in Reach(next, Ahead) /\ b \in Shell
    BY <1>7 DEF Reach
  <2>2. told[b] < current /\ b \notin Reach(next, next[b]) /\ current \in Nat /\ current > 0
    BY <2>1 DEF WalkInv, Untold, Telling, ListInv, FeedTypeOK, Distinct
  <2>. QED
    BY <1>2, <1>4, <1>5, <2>1, <2>2
<1>. QED
  BY <1>6, <1>8

(* The steps of the thread that walk.                                      *)
LEMMA ReadStep ==
  ASSUME Distinct, WalkInv, Read
  PROVE  Heard' /\ Telling' /\ Untold' /\ Tested'
<1>1. /\ at = "read" /\ event_id # 0 /\ events' = events /\ next' = next /\ prev' = prev
      /\ client_list' = client_list /\ live' = live
      /\ acct' = acct /\ told' = told /\ named' = named
  BY DEF Read, OfShells, listVars, shellVars
<1>2. /\ List(next, prev, client_list, live) /\ next \in Pointers /\ client_list \in Pointer
      /\ Len(events) \in Nat /\ event_id \in Nat /\ told \in [Shell -> Nat]
  BY DEF WalkInv, ListInv, FeedTypeOK, Distinct, List
<1>3. CASE at' = "walk"
  <2>1. /\ event_id <= Len(events) /\ events[event_id] # Null
        /\ current' = event_id /\ cursor' = client_list /\ event_id' = event_id + 1
    BY <1>3 DEF Read, Take, Leave
  <2>2. Heard' /\ Telling' /\ Tested'
    BY <1>1, <1>2, <1>3, <2>1 DEF WalkInv, Heard, Telling, Tested, Walking
  <2>3. Ahead' = client_list
    BY <1>3, <2>1 DEF Ahead
  <2>4. ASSUME NEW b \in Reach(next, client_list)
        PROVE  told[b] < event_id /\ b \notin Reach(next, next[b])
    <3>1. b \in live /\ b \in Shell
      BY <2>4, <1>2 DEF List, Reach
    <3>2. b \notin Reach(next, next[b])
      BY <1>2, <3>1, ListAcyclic
    <3>3. told[b] < event_id
      BY <1>1, <1>2, <3>1 DEF WalkInv, Heard
    <3>. QED
      BY <3>2, <3>3
  <2>5. Untold'
    BY <1>1, <2>1, <2>3, <2>4 DEF Untold
  <2>. QED
    BY <2>2, <2>5
<1>4. CASE at' # "walk"
  <2>1. at' = "ready" /\ (event_id' = event_id \/ event_id' = event_id + 1)
    BY <1>4 DEF Read, Take, Leave
  <2>2. Heard'
    BY <1>1, <1>2, <2>1 DEF WalkInv, Heard
  <2>. QED
    BY <2>1, <2>2 DEF Telling, Untold, Tested, Walking
<1>. QED
  BY <1>3, <1>4

(* A shell that is told is behind the thread when it advances.             *)
LEMMA TellStep ==
  ASSUME Distinct, WalkInv, Tell
  PROVE  Heard' /\ Telling' /\ Untold' /\ Tested'
<1>1. /\ at = "lock" /\ at' = "advance" /\ Walking /\ cursor \in Shell /\ Ahead = cursor
      /\ told' = IF cursor \in live THEN [told EXCEPT ![cursor] = current] ELSE told
      /\ events' = events /\ next' = next /\ live' = live /\ acct' = acct /\ named' = named
      /\ event_id' = event_id /\ current' = current /\ cursor' = cursor /\ recycled' = recycled
  BY DEF Tell, listVars, shellVars, Walking, Ahead, WalkInv, ListInv, FeedTypeOK, Pointer
<1>2. /\ next \in Pointers /\ told \in [Shell -> Nat] /\ live \subseteq Shell
      /\ current \in Nat /\ event_id \in Nat /\ current < event_id
  BY <1>1 DEF WalkInv, ListInv, FeedTypeOK, Distinct, List, Telling
<1>3. Heard' /\ Telling' /\ Tested'
  BY <1>1, <1>2 DEF WalkInv, Heard, Telling, Tested, Walking
<1>4. Ahead' = next[cursor]
  BY <1>1 DEF Ahead
<1>5. ASSUME ~recycled, NEW b \in Reach(next, next[cursor])
      PROVE  told'[b] < current /\ b \notin Reach(next, next[b])
  <2>1. cursor \in Reach(next, cursor) /\ b \in Reach(next, cursor) /\ b \in Shell
    BY <1>1, <1>2, <1>5, ReachNext DEF Reach
  <2>2. /\ cursor \notin Reach(next, next[cursor])
        /\ told[b] < current /\ b \notin Reach(next, next[b])
    BY <1>1, <1>5, <2>1 DEF WalkInv, Untold
  <2>3. b # cursor
    BY <1>5, <2>2
  <2>. QED
    BY <1>1, <1>2, <2>1, <2>2, <2>3
<1>6. Untold'
  BY <1>1, <1>4, <1>5 DEF Untold
<1>. QED
  BY <1>3, <1>6

(* The test of a shell leaves true what is ahead of the thread.            *)
LEMMA TestStep ==
  ASSUME Distinct, WalkInv, Test
  PROVE  Heard' /\ Telling' /\ Untold' /\ Tested'
<1>1. /\ at = "walk" /\ Walking /\ event_id' = event_id
      /\ events' = events /\ next' = next /\ live' = live
      /\ acct' = acct /\ told' = told /\ named' = named
  BY DEF Test, OfShells, listVars, shellVars, Walking
<1>2. Heard'
  BY <1>1 DEF WalkInv, Heard
<1>3. CASE Leave("ready") \/ Leave("read")
  <2>1. at' \notin {"walk", "lock", "advance"}
    BY <1>3 DEF Leave
  <2>. QED
    BY <1>2, <2>1 DEF Telling, Untold, Tested, Walking
<1>4. CASE /\ acct[cursor] = events[current] /\ at' = "lock"
           /\ UNCHANGED <<current, cursor, recycled>>
  <2>1. /\ current' = current /\ cursor' = cursor /\ recycled' = recycled
        /\ Ahead' = Ahead
    BY <1>1, <1>4 DEF Ahead
  <2>2. Telling'
    BY <1>1, <2>1 DEF WalkInv, Telling
  <2>3. Untold'
    BY <1>1, <2>1 DEF WalkInv, Untold
  <2>4. Tested'
    BY <1>1, <1>4, <2>1 DEF WalkInv, Heard, Telling, Tested
  <2>. QED
    BY <1>2, <2>2, <2>3, <2>4
<1>. QED
  BY <1>3, <1>4 DEF Test

(* So does going on from a shell.                                          *)
LEMMA AdvanceStep ==
  ASSUME Distinct, WalkInv, Advance
  PROVE  Heard' /\ Telling' /\ Untold' /\ Tested'
<1>1. /\ at = "advance" /\ at' = "walk" /\ cursor' = next[cursor] /\ Walking
      /\ event_id' = event_id /\ current' = current /\ recycled' = recycled
      /\ events' = events /\ next' = next /\ live' = live
      /\ acct' = acct /\ told' = told /\ named' = named
      /\ Ahead' = Ahead
  BY DEF Advance, OfShells, listVars, shellVars, Walking, Ahead
<1>. QED
  BY <1>1 DEF WalkInv, Heard, Telling, Untold, Tested

(* Whatever is ahead of the event thread stays so through each step.       *)
LEMMA WalkStep ==
  ASSUME Distinct, WalkInv, [FeedNext]_feedState
  PROVE  WalkInv'
<1> DEFINE Goal == Heard' /\ Telling' /\ Untold' /\ Tested'
<1>0. /\ ListInv' /\ live \subseteq Shell /\ Len(events) \in Nat
      /\ told \in [Shell -> Nat] /\ event_id \in Nat
      /\ acct \in [Shell -> Acct \cup {Null}] /\ named \in [Shell -> SUBSET Acct]
  BY ListStep DEF WalkInv, ListInv, FeedTypeOK, Distinct
<1> DEFINE Carried ==
      /\ UNCHANGED <<next, live, at, event_id, current, cursor, told, recycled>>
      /\ Len(events') \in Nat /\ Len(events) <= Len(events')
      /\ \A i \in 1 .. Len(events) : events'[i] = events[i]
<1>a. ASSUME Carried, acct' = acct, named' = named PROVE Goal
  BY <1>0, <1>a, WalkUnmoved DEF WalkInv, Heard
<1>1. ASSUME NEW c \in Shell, Connect(c) PROVE Goal
  <2>1. /\ at' = at /\ event_id' = event_id /\ current' = current
        /\ events' = events /\ told' = told /\ named' = named
        /\ live' = live \cup {c} /\ acct' = [acct EXCEPT ![c] = Null]
    BY <1>1 DEF Connect, link, feedVars
  <2>2. Walking => recycled'
    BY <1>1 DEF Connect
  <2>3. Heard' /\ Telling'
    BY <1>0, <2>1 DEF WalkInv, Heard, Telling, Walking
  <2>. QED
    BY <2>1, <2>2, <2>3 DEF Untold, Tested, Walking
<1>2. ASSUME NEW c \in live, Hangup(c) \/ Exit(c) PROVE Goal
  <2>1. /\ unlink(c) /\ Forget(c)
        /\ UNCHANGED <<events, acct, at, event_id, current, cursor, recycled>>
    BY <1>2 DEF Hangup, Exit, feedVars
  <2>. QED
    BY <2>1, UnlinkAhead
<1>3. ASSUME NEW c \in live, Command(c) PROVE Goal
  <2>1. Carried /\ acct' = acct /\ named' = named
    BY <1>0, <1>3 DEF Command, listVars, feedVars, history
  <2>. QED
    BY <1>a, <2>1
<1>4. ASSUME NEW c \in live, NEW u \in Acct, LoginName(c, u) PROVE Goal
  <2>1. Carried /\ acct' = [acct EXCEPT ![c] = u] /\ named' = [named EXCEPT ![c] = @ \cup {u}]
    BY <1>0, <1>4 DEF LoginName, listVars, feedVars
  <2>2. /\ \A b \in live : acct'[b] \in named'[b] \cup {Null}
        /\ \A b \in Shell : named[b] \subseteq named'[b]
    BY <1>0, <2>1 DEF WalkInv, Heard
  <2>. QED
    BY <2>1, <2>2, WalkUnmoved
<1>5. ASSUME NEW c \in live, LoginStatus(c) PROVE Goal
  <2>1. Carried /\ acct' = acct /\ named' = named
    BY <1>0, <1>5 DEF LoginStatus, listVars, feedVars, history
  <2>. QED
    BY <1>a, <2>1
<1>6. ASSUME NEW c \in live, NEW good \in BOOLEAN, Respond(c, good) PROVE Goal
  <2>1. Carried /\ acct' = [acct EXCEPT ![c] = IF good THEN @ ELSE Null] /\ named' = named
    BY <1>0, <1>6 DEF Respond, listVars, feedVars, history
  <2>2. /\ \A b \in live : acct'[b] \in named'[b] \cup {Null}
        /\ \A b \in Shell : named[b] \subseteq named'[b]
    BY <1>0, <2>1 DEF WalkInv, Heard
  <2>. QED
    BY <2>1, <2>2, WalkUnmoved
<1>7. ASSUME NEW c \in live, NEW new \in {<<>>} \cup {<<u>> : u \in Acct \cup {Null}}, Post(c, new)
      PROVE  Goal
  <2>1. /\ AppendRows(new) /\ new \in Seq(Acct \cup {Null}) /\ acct' = acct /\ named' = named
        /\ UNCHANGED <<next, live, at, event_id, current, cursor, told, recycled>>
    BY <1>7, RowsToPost DEF Post, listVars, feedVars, history
  <2>2. Carried
    BY <2>1, AppendRowsStep DEF WalkInv
  <2>. QED
    BY <1>a, <2>1, <2>2
<1>8. ASSUME NEW c \in live, event_update(c) PROVE Goal
  <2>1. /\ events' = events /\ UNCHANGED <<next, live, event_id, current, cursor, told, recycled>>
        /\ acct' = acct /\ named' = named
    BY <1>8 DEF event_update, listVars, history
  <2>2. CASE at = "wait"
    <3>1. at' = "read"
      BY <1>8, <2>2 DEF event_update
    <3>. QED
      BY <2>1, <3>1 DEF WalkInv, Heard, Telling, Untold, Tested, Walking
  <2>3. CASE at # "wait"
    <3>1. at' = at
      BY <1>8, <2>3 DEF event_update
    <3>2. Carried
      BY <1>0, <2>1, <3>1
    <3>. QED
      BY <1>a, <2>1, <3>2
  <2>. QED
    BY <2>2, <2>3
<1>9. ASSUME NEW u \in Acct \cup {Null}, TraderPost(<<u>>) PROVE Goal
  <2>1. /\ AppendRows(<<u>>) /\ <<u>> \in Seq(Acct \cup {Null}) /\ acct' = acct /\ named' = named
        /\ UNCHANGED <<next, live, at, event_id, current, cursor, told, recycled>>
    BY <1>9 DEF TraderPost, listVars, shellVars, feedVars, history
  <2>2. Carried
    BY <2>1, AppendRowsStep DEF WalkInv
  <2>. QED
    BY <1>a, <2>1, <2>2
<1>10. ASSUME SpuriousWakeup \/ Wait \/ FirstLook PROVE Goal
  <2>1. /\ at' \in {"read", "wait"} /\ told' = told /\ live' = live /\ acct' = acct
        /\ named' = named /\ event_id' \in Nat /\ event_id <= event_id'
    BY <1>0, <1>10 DEF SpuriousWakeup, Wait, FirstLook, OfShells, listVars, shellVars
  <2>2. Heard'
    BY <1>0, <2>1 DEF WalkInv, Heard
  <2>. QED
    BY <2>1, <2>2 DEF Telling, Untold, Tested, Walking
<1>11. ASSUME UNCHANGED feedState PROVE Goal
  <2>1. Carried /\ acct' = acct /\ named' = named
    BY <1>0, <1>11 DEF feedState, listVars, shellVars, feedVars, history
  <2>. QED
    BY <1>a, <2>1
<1> HIDE DEF Carried
<1>12. Goal
  BY <1>1, <1>2, <1>3, <1>4, <1>5, <1>6, <1>7, <1>8, <1>9, <1>10, <1>11,
     ReadStep, TestStep, TellStep, AdvanceStep DEF FeedNext, ShellStep, EventThread
<1>. QED
  BY <1>0, <1>12 DEF WalkInv

(* What is ahead of the event thread, in every state.                      *)
LEMMA WalkInvariant ==
  ASSUME Distinct
  PROVE  FeedSpec => []WalkInv
<1>1. FeedInit /\ ListInv => WalkInv
  BY DEF FeedInit, WalkInv, Heard, Telling, Untold, Tested, Walking
<1>2. WalkInv /\ [FeedNext]_feedState => WalkInv'
  BY WalkStep
<1>. QED
  BY <1>1, <1>2, ListInvariant, PTL DEF FeedSpec

(* A connection is told of an event once, in the order of the events, and  *)
(* only of events of an account it has named, although the thread that     *)
(* tells it follows the list without a lock while connections come and go, *)
(* unless a connection got a gone one's memory during the walk.            *)
THEOREM EventsToldOnce == FeedSpec => ToldOnce
<1> DEFINE Told == at = "lock" /\ at' = "advance" /\ cursor \in live
                     => \/ told[cursor] < current /\ events[current] \in named[cursor]
                        \/ recycled
<1>0. Distinct
  BY NullAssumption, MaxEventsAssumption DEF Distinct
<1>1. WalkInv => Told
  <2> SUFFICES ASSUME WalkInv, at = "lock", cursor \in live, ~recycled
               PROVE  told[cursor] < current /\ events[current] \in named[cursor]
    OBVIOUS
  <2>1. Walking /\ Ahead = cursor /\ cursor \in Shell /\ next \in Pointers
    BY DEF Walking, Ahead, WalkInv, ListInv, FeedTypeOK, List
  <2>2. cursor \in Reach(next, Ahead)
    BY <1>0, <2>1, ReachNext
  <2>. QED
    BY <2>1, <2>2 DEF WalkInv, Untold, Tested
<1>2. FeedSpec => []WalkInv
  BY <1>0, WalkInvariant
<1>. QED
  BY <1>1, <1>2, PTL DEF ToldOnce
=============================================================================
