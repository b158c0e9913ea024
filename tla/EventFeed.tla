------------------------------ MODULE EventFeed -----------------------------
(***************************************************************************)
(* The feed of events of bif/server.cc: one thread of the server reads the *)
(* events of the database one after another and tells the connected        *)
(* clients of them, while shells (bif/shell.cc) connect, log in, issue     *)
(* commands and go away.                                                   *)
(*                                                                         *)
(* The thread walks the list of clients without the server's lock.  What   *)
(* it then finds depends on memory, so a shell is a piece of memory here:  *)
(* it is linked into the list when a client connects, and when the client  *)
(* has gone it keeps its contents until the next connection gets it.       *)
(***************************************************************************)
EXTENDS Naturals, Sequences, FiniteSets

CONSTANTS
  Shell,      \* pieces of memory that can hold a bif::shell
  Acct,       \* accounts
  Null,       \* the null pointer, and the account of a client not logged in
  MaxEvents   \* bound of the model: the events of a run

ASSUME NullAssumption == Null \notin Shell \cup Acct
ASSUME MaxEventsAssumption == MaxEvents \in Nat

VARIABLES
  events,      \* committed rows of event_type: event i is of account events[i]
  client_list, next, prev,   \* the server's list of shells
  live,        \* the shells that have a thread
  status,      \* STATUS_AUTHENTICATED or not
  acct,        \* the account named by login
  locked,      \* shells whose mutex is held
  pc,          \* what the thread of each shell is doing
  at,          \* what the event thread is doing
  event_id,    \* the server's event_id: the event to read next, 0 at first
  current,     \* the event being told
  cursor,      \* the shell the event thread has reached
  told,        \* the last event each connection was told of
  named,       \* the accounts each connection has named
  recycled     \* a connection got a gone one's memory during this walk

listVars  == <<client_list, next, prev, live>>
shellVars == <<status, acct, locked, pc>>
feedVars  == <<at, event_id, current, cursor>>
history   == <<told, named, recycled>>
feedState == <<events, listVars, shellVars, feedVars, history>>

Pointer == Shell \cup {Null}

FeedTypeOK ==
  /\ events \in Seq(Acct \cup {Null})
  /\ client_list \in Pointer /\ next \in [Shell -> Pointer] /\ prev \in [Shell -> Pointer]
  /\ live \subseteq Shell /\ locked \subseteq Shell
  /\ status \in [Shell -> BOOLEAN]
  /\ acct \in [Shell -> Acct \cup {Null}]
  /\ pc \in [Shell -> {"idle", "busy", "named", "signal"}]
  /\ at \in {"ready", "wait", "read", "walk", "lock", "advance"}
  /\ event_id \in 0 .. MaxEvents + 1 /\ current \in 0 .. MaxEvents
  /\ cursor \in Pointer
  /\ told \in [Shell -> 0 .. MaxEvents]
  /\ named \in [Shell -> SUBSET Acct]
  /\ recycled \in BOOLEAN

-----------------------------------------------------------------------------
(* The list of clients.  link and unlink run under the server's mutex.     *)

link(c) ==
  /\ next' = [next EXCEPT ![c] = client_list]
  /\ prev' = [b \in Shell |-> IF b = c THEN Null
                              ELSE IF b = client_list THEN c ELSE prev[b]]
  /\ client_list' = c
  /\ live' = live \cup {c}

(* Mutant: the shell after the one that goes keeps its prev, as after      *)
(* session::link.                                                          *)
unlinkForward(c) ==
  /\ next' = [b \in Shell |-> IF b = prev[c] THEN next[c] ELSE next[b]]
  /\ client_list' = IF c = client_list THEN next[c] ELSE client_list
  /\ live' = live \ {c}
  /\ UNCHANGED prev

(* The pointers of the shell itself stay as they are.                      *)
unlink(c) ==
  /\ next' = [b \in Shell |-> IF b = prev[c] THEN next[c] ELSE next[b]]
  /\ prev' = [b \in Shell |-> IF b = next[c] THEN prev[c] ELSE prev[b]]
  /\ client_list' = IF c = client_list THEN next[c] ELSE client_list
  /\ live' = live \ {c}

Walking == at \in {"walk", "lock", "advance"}

(* The server accepts a connection.                                        *)
Connect(c) ==
  /\ c \notin live
  /\ link(c)
  /\ status' = [status EXCEPT ![c] = FALSE]
  /\ acct' = [acct EXCEPT ![c] = Null]
  /\ locked' = locked \ {c}
  /\ recycled' = Walking
  /\ UNCHANGED <<events, pc, feedVars, told, named>>

Forget(c) ==
  /\ pc' = [pc EXCEPT ![c] = "idle"]
  /\ told' = [told EXCEPT ![c] = 0]
  /\ named' = [named EXCEPT ![c] = {}]

(* The client is gone: the thread of the shell ends between two commands.  *)
Hangup(c) ==
  /\ pc[c] = "idle"
  /\ unlink(c)
  /\ Forget(c)
  /\ UNCHANGED <<events, status, acct, locked, feedVars, recycled>>

-----------------------------------------------------------------------------
(* Commands.  A shell runs each under its own mutex, and calls             *)
(* event_update when it has given the mutex back.                          *)

Command(c) ==
  /\ pc[c] = "idle"
  /\ c \notin locked
  /\ locked' = locked \cup {c}
  /\ pc' = [pc EXCEPT ![c] = "busy"]
  /\ UNCHANGED <<events, listVars, status, acct, feedVars, history>>

Finish(c) ==
  /\ locked' = locked \ {c}
  /\ pc' = [pc EXCEPT ![c] = "signal"]

(* cmd_login names the account first and takes back the status after it.   *)
LoginName(c, u) ==
  /\ pc[c] = "busy"
  /\ acct' = [acct EXCEPT ![c] = u]
  /\ named' = [named EXCEPT ![c] = @ \cup {u}]
  /\ pc' = [pc EXCEPT ![c] = "named"]
  /\ UNCHANGED <<events, listVars, status, locked, feedVars, told, recycled>>

LoginStatus(c) ==
  /\ pc[c] = "named"
  /\ status' = [status EXCEPT ![c] = FALSE]
  /\ Finish(c)
  /\ UNCHANGED <<events, listVars, acct, feedVars, history>>

(* cmd_respond, with a signature that verifies or not.                     *)
Respond(c, good) ==
  /\ pc[c] = "busy"
  /\ ~status[c]
  /\ acct[c] # Null
  /\ status' = [status EXCEPT ![c] = good]
  /\ acct' = [acct EXCEPT ![c] = IF good THEN @ ELSE Null]
  /\ Finish(c)
  /\ UNCHANGED <<events, listVars, feedVars, history>>

(* The rows a transaction appends to the events get the next identifiers:  *)
(* the last page of event_type stays locked until it commits.              *)
AppendRows(new) ==
  /\ Len(events) + Len(new) <= MaxEvents
  /\ events' = events \o new

(* Any other command, with the events that it commits.                     *)
Post(c, new) ==
  /\ pc[c] = "busy"
  /\ AppendRows(new)
  /\ Finish(c)
  /\ UNCHANGED <<listVars, status, acct, feedVars, history>>

(* cmd_exit deletes the shell while its mutex is held.                     *)
Exit(c) ==
  /\ pc[c] = "busy"
  /\ unlink(c)
  /\ Forget(c)
  /\ UNCHANGED <<events, status, acct, locked, feedVars, recycled>>

(* A trader commits a trade.  Nobody calls event_update.                   *)
TraderPost(new) ==
  /\ AppendRows(new)
  /\ UNCHANGED <<listVars, shellVars, feedVars, history>>

-----------------------------------------------------------------------------
(* The event thread                                                        *)

OfShells == <<events, listVars, shellVars, told, named>>

(* Its local variables are set while it walks the list, and cleared here    *)
(* when it stops.                                                          *)
Leave(place) ==
  /\ at' = place
  /\ current' = 0 /\ cursor' = Null /\ recycled' = FALSE

Wait ==
  /\ at = "ready"
  /\ at' = "wait"
  /\ UNCHANGED <<OfShells, event_id, current, cursor, recycled>>

(* event_update wakes the thread if it is waiting, and is lost otherwise.  *)
event_update(c) ==
  /\ pc[c] = "signal"
  /\ pc' = [pc EXCEPT ![c] = "idle"]
  /\ at' = IF at = "wait" THEN "read" ELSE at
  /\ UNCHANGED <<events, listVars, status, acct, locked, event_id, current, cursor, history>>

SpuriousWakeup ==
  /\ at = "wait"
  /\ at' = "read"
  /\ UNCHANGED <<OfShells, event_id, current, cursor, recycled>>

(* The first time, the thread starts after the last event, or, when        *)
(* get_last_event fails (its result is ignored), at the first one.         *)
FirstLook ==
  /\ at = "read" /\ event_id = 0
  /\ event_id' \in {Len(events) + 1, 1}
  /\ UNCHANGED <<OfShells, at, current, cursor, recycled>>

Take ==
  /\ event_id <= Len(events)
  /\ IF events[event_id] = Null
       THEN Leave("ready")
       ELSE /\ at' = "walk"
            /\ current' = event_id /\ cursor' = client_list
            /\ UNCHANGED recycled

(* Mutant: event_id is not advanced.                                       *)
ReadAgain ==
  /\ at = "read" /\ event_id # 0
  /\ Take \/ (event_id > Len(events) /\ Leave("ready"))
  /\ UNCHANGED <<OfShells, event_id>>

(* One transaction reads the next event, if there is one.  An event of no  *)
(* account is nobody's: the thread waits again.                            *)
Read ==
  /\ at = "read" /\ event_id # 0
  /\ \/ Take /\ event_id' = event_id + 1
     \/ event_id > Len(events) /\ Leave("ready") /\ UNCHANGED event_id
  /\ UNCHANGED OfShells

(* The test of a shell, without its mutex.  At a shell that is not the     *)
(* event's the thread goes to the next event; at the end of the list it    *)
(* waits, whether or not there is a next event.                            *)
Test ==
  /\ at = "walk"
  /\ \/ cursor = Null /\ Leave("ready")
     \/ /\ cursor # Null
        /\ ~status[cursor] \/ acct[cursor] # events[current]
        /\ Leave("read")
     \/ /\ cursor # Null
        /\ status[cursor] /\ acct[cursor] = events[current]
        /\ at' = "lock" /\ UNCHANGED <<current, cursor, recycled>>
  /\ UNCHANGED <<OfShells, event_id>>

(* Then the thread locks the shell, writes, and unlocks it.  What it writes *)
(* to a shell that is gone is lost.                                        *)
Tell ==
  /\ at = "lock"
  /\ cursor \notin locked
  /\ told' = IF cursor \in live THEN [told EXCEPT ![cursor] = current] ELSE told
  /\ at' = "advance"
  /\ UNCHANGED <<events, listVars, shellVars, event_id, current, cursor, named, recycled>>

Advance ==
  /\ at = "advance"
  /\ cursor' = next[cursor]
  /\ at' = "walk"
  /\ UNCHANGED <<OfShells, event_id, current, recycled>>

-----------------------------------------------------------------------------
FeedInit ==
  /\ events = <<>>
  /\ client_list = Null
  /\ next = [c \in Shell |-> Null] /\ prev = [c \in Shell |-> Null]
  /\ live = {}
  /\ status = [c \in Shell |-> FALSE]
  /\ acct = [c \in Shell |-> Null]
  /\ locked = {}
  /\ pc = [c \in Shell |-> "idle"]
  /\ at = "ready" /\ event_id = 0 /\ current = 0 /\ cursor = Null
  /\ told = [c \in Shell |-> 0]
  /\ named = [c \in Shell |-> {}]
  /\ recycled = FALSE

ShellStep(c) ==
  \/ \E u \in Acct : LoginName(c, u)
  \/ LoginStatus(c)
  \/ \E good \in BOOLEAN : Respond(c, good)
  \/ \E new \in {<<>>} \cup {<<u>> : u \in Acct \cup {Null}} : Post(c, new)
  \/ Exit(c)
  \/ event_update(c)

EventThread == Wait \/ FirstLook \/ Read \/ Test \/ Tell \/ Advance

FeedNext ==
  \/ \E c \in Shell : Connect(c)
  \/ \E c \in live : Hangup(c) \/ Command(c) \/ ShellStep(c)
  \/ \E u \in Acct \cup {Null} : TraderPost(<<u>>)
  \/ SpuriousWakeup
  \/ EventThread

FeedSpec == FeedInit /\ [][FeedNext]_feedState

(* The event thread is scheduled.                                          *)
FeedFairness == WF_feedState(EventThread)

FeedFairSpec == FeedSpec /\ FeedFairness

-----------------------------------------------------------------------------
(* Properties                                                              *)

(* Shells reached from p along next: those of every set that p is in and   *)
(* that next does not lead out of.                                         *)
From(p) ==
  {b \in Shell :
     \A C \in SUBSET Shell :
       p \in C \cup {Null} /\ (\A a \in C : next[a] \in C \cup {Null}) => b \in C}

(* Every variable has its type, and the list of clients, whose pointers the *)
(* event thread follows, is a doubly linked list of exactly the shells that *)
(* have a thread, however many connect and go in whatever order, by exit   *)
(* or by a broken connection.                                              *)
ClientListIntact ==
  /\ FeedTypeOK
  /\ From(client_list) = live
  /\ client_list # Null => prev[client_list] = Null
  /\ \A b \in live : next[b] # Null => prev[next[b]] = b

(* A connection is told of an event once, in the order of the events, and  *)
(* only if it has named the account of the event: although the thread tests *)
(* a shell before it waits for its mutex, although a login may change the  *)
(* account meanwhile, and whoever connects and goes while the thread walks *)
(* the list, as long as no connection gets the memory of one that has gone *)
(* during the walk.                                                        *)
ToldOnce ==
  [][at = "lock" /\ at' = "advance" /\ cursor \in live
       => \/ told[cursor] < current /\ events[current] \in named[cursor]
          \/ recycled]_feedState

(* One wake-up is good for one event at least: if the thread is woken      *)
(* again and again it reads every event after its first, whatever signals  *)
(* were lost.                                                              *)
PendingEventRead ==
  ([]<><<SpuriousWakeup \/ \E c \in Shell : at = "wait" /\ event_update(c)>>_feedState)
     => \A i \in 1 .. MaxEvents :
          []((event_id # 0 /\ i <= Len(events)) => <>(event_id > i))
=============================================================================
