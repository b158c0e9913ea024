------------------------------ MODULE Shutdown ------------------------------
(***************************************************************************)
(* The command shutdown of bif/shell.cc.  The shell that runs it locks     *)
(* every other shell, so that none is in the middle of a command, tells    *)
(* each client goodbye, cancels its thread and closes its socket, unlocks  *)
(* them again and ends the process.                                        *)
(*                                                                         *)
(* Every shell runs its commands under its own mutex.  The three walks are *)
(* made without the server's mutex, so a connection that arrives meanwhile *)
(* enters the list in front of them, and a shell that goes away is deleted *)
(* under them: by its command exit, with its mutex held, or because its    *)
(* client has hung up, whoever holds its mutex.                            *)
(*                                                                         *)
(* A walk at a deleted shell uses freed memory.  It may find what was      *)
(* there, wait for a mutex that nobody unlocks, meet the next connection   *)
(* in the same memory, or end the process.                                 *)
(***************************************************************************)
EXTENDS Naturals, Sequences

CONSTANTS
  Shell,      \* connections; each comes once
  Superuser,  \* those that are logged on as a superuser
  Null        \* the null pointer

ASSUME ShellAssumption == Null \notin Shell /\ Superuser \subseteq Shell

VARIABLES
  clients,    \* the server's list, its head first; who has gone keeps its place
  gone,       \* shells that have been deleted
  holder,     \* the shell whose thread holds the mutex of each shell, or Null
  phase,      \* what its thread does: "idle", a command, a walk, or "ready" to exit
  place,      \* where its walk is
  cancelled,  \* shells whose thread has been cancelled
  goodbye,    \* shells whose client has been told goodbye
  late,       \* shells that came when a shutdown was under way
  up          \* the process runs

shutVars == <<clients, gone, holder, phase, place, cancelled, goodbye, late, up>>

Walk == {"locking", "parting", "unlocking", "unlocked"}

Came == {clients[i] : i \in DOMAIN clients}

Connected == Came \ gone

(* The first shell in the list after the n-th place.                       *)
Following(n) ==
  LET there == {i \in DOMAIN clients : i > n /\ clients[i] \notin gone}
  IN  IF there = {} THEN Null ELSE clients[CHOOSE i \in there : \A j \in there : i <= j]

client_list == Following(0)

Index(c) == CHOOSE i \in DOMAIN clients : clients[i] = c

After(c) == Following(Index(c))

-----------------------------------------------------------------------------
Runs(c) == up /\ c \in Connected \ cancelled

Connect(c) ==
  /\ up
  /\ c \notin Came
  /\ clients' = <<c>> \o clients
  /\ late' = IF \E b \in Shell : phase[b] \in Walk \cup {"ready"} THEN late \cup {c} ELSE late
  /\ UNCHANGED <<gone, holder, phase, place, cancelled, goodbye, up>>

(* The client has hung up: the thread, reading its next line, deletes the  *)
(* shell, which a shutdown may have locked.                                *)
Hangup(c) ==
  /\ Runs(c) /\ phase[c] = "idle"
  /\ gone' = gone \cup {c}
  /\ UNCHANGED <<clients, holder, phase, place, cancelled, goodbye, late, up>>

Command(c) ==
  /\ Runs(c)
  /\ phase[c] = "idle" /\ holder[c] = Null
  /\ phase' = [phase EXCEPT ![c] = "busy"]
  /\ holder' = [holder EXCEPT ![c] = c]
  /\ UNCHANGED <<clients, gone, place, cancelled, goodbye, late, up>>

(* Mutant: the command returns with its shell locked.                      *)
FinishLocked(c) ==
  /\ Runs(c) /\ phase[c] = "busy"
  /\ phase' = [phase EXCEPT ![c] = "idle"]
  /\ UNCHANGED <<clients, gone, holder, place, cancelled, goodbye, late, up>>

Finish(c) ==
  /\ Runs(c) /\ phase[c] = "busy"
  /\ phase' = [phase EXCEPT ![c] = "idle"]
  /\ holder' = [holder EXCEPT ![c] = Null]
  /\ UNCHANGED <<clients, gone, place, cancelled, goodbye, late, up>>

(* The command waits for somebody else, with its shell locked: a line is   *)
(* relayed and the other server has not answered, a row is locked by the   *)
(* open transaction of another client, or the client does not read.        *)
Wait(c) ==
  /\ Runs(c) /\ phase[c] = "busy"
  /\ phase' = [phase EXCEPT ![c] = "waiting"]
  /\ UNCHANGED <<clients, gone, holder, place, cancelled, goodbye, late, up>>

(* What it waited for has come, and it ends.                               *)
Answered(c) ==
  /\ Runs(c) /\ phase[c] = "waiting"
  /\ phase' = [phase EXCEPT ![c] = "idle"]
  /\ holder' = [holder EXCEPT ![c] = Null]
  /\ UNCHANGED <<clients, gone, place, cancelled, goodbye, late, up>>

(* The shell is deleted inside its own command and never unlocked.         *)
cmd_exit(c) ==
  /\ Runs(c) /\ phase[c] = "busy"
  /\ phase' = [phase EXCEPT ![c] = "idle"]
  /\ gone' = gone \cup {c}
  /\ UNCHANGED <<clients, holder, place, cancelled, goodbye, late, up>>

(* The command is shutdown, and its transaction has found the flag.        *)
cmd_shutdown(c) ==
  /\ Runs(c) /\ phase[c] = "busy"
  /\ c \in Superuser
  /\ phase' = [phase EXCEPT ![c] = "locking"]
  /\ place' = [place EXCEPT ![c] = client_list]
  /\ UNCHANGED <<clients, gone, holder, cancelled, goodbye, late, up>>

(* The end of one of the three walks.                                      *)
Turn(c, then) ==
  /\ place[c] = Null
  /\ phase' = [phase EXCEPT ![c] = then]
  /\ place' = [place EXCEPT ![c] = client_list]

Move(c) ==
  /\ place[c] \in Connected
  /\ place' = [place EXCEPT ![c] = After(place[c])]

(* Mutant: a shell that is busy is passed over.                            *)
LockFree(c) ==
  /\ Runs(c) /\ phase[c] = "locking"
  /\ \/ Turn(c, "parting") /\ UNCHANGED holder
     \/ /\ Move(c) /\ UNCHANGED phase
        /\ holder' = IF holder[place[c]] = Null THEN [holder EXCEPT ![place[c]] = c]
                     ELSE holder
  /\ UNCHANGED <<clients, gone, cancelled, goodbye, late, up>>

(* The walk waits for the mutex of each shell but its own, takes it, and   *)
(* goes on.                                                                *)
Lock(c) ==
  /\ Runs(c) /\ phase[c] = "locking"
  /\ \/ Turn(c, "parting") /\ UNCHANGED holder
     \/ /\ place[c] = c \/ (place[c] # Null /\ holder[place[c]] = c)
        /\ Move(c) /\ UNCHANGED <<phase, holder>>
     \/ /\ place[c] \in Connected \ {c}
        /\ holder[place[c]] = Null
        /\ holder' = [holder EXCEPT ![place[c]] = c]
        /\ UNCHANGED <<phase, place>>
  /\ UNCHANGED <<clients, gone, cancelled, goodbye, late, up>>

(* A thread that has been cancelled does not delete its shell any more.    *)
Farewell(c) ==
  /\ Runs(c) /\ phase[c] = "parting"
  /\ \/ Turn(c, "unlocking") /\ UNCHANGED <<goodbye, cancelled>>
     \/ /\ Move(c) /\ UNCHANGED phase
        /\ goodbye' = goodbye \cup {place[c]}
        /\ cancelled' = cancelled \cup ({place[c]} \ {c})
  /\ UNCHANGED <<clients, gone, holder, late, up>>

(* The walk unlocks every shell, whoever locked it, and goes on.           *)
Unlock(c) ==
  /\ Runs(c)
  /\ \/ phase[c] = "unlocking" /\ Turn(c, "ready") /\ UNCHANGED holder
     \/ /\ phase[c] = "unlocking" /\ place[c] \in Connected
        /\ phase' = [phase EXCEPT ![c] = "unlocked"]
        /\ holder' = IF place[c] = c THEN holder ELSE [holder EXCEPT ![place[c]] = Null]
        /\ UNCHANGED place
     \/ /\ phase[c] = "unlocked" /\ Move(c)
        /\ phase' = [phase EXCEPT ![c] = "unlocking"]
        /\ UNCHANGED holder
  /\ UNCHANGED <<clients, gone, cancelled, goodbye, late, up>>

(* The walk is at a shell that has been deleted.  What it finds there may  *)
(* be as it was, or belong to a connection that came since, shell and      *)
(* thread; the access may also end the process, or never return.           *)
UseFreed(c) ==
  /\ Runs(c) /\ phase[c] \in Walk /\ place[c] \in gone
  /\ \/ up' = FALSE /\ UNCHANGED <<place, cancelled>>
     \/ /\ UNCHANGED up
        /\ \E to \in {After(place[c])} \cup {clients[i] : i \in 1 .. Index(place[c]) - 1} :
             place' = [place EXCEPT ![c] = to]
        /\ \E hit \in SUBSET late :
             cancelled' = IF phase[c] = "parting" THEN cancelled \cup hit ELSE cancelled
  /\ UNCHANGED <<clients, gone, holder, phase, goodbye, late>>

(* barterd's death: the process exits, and every socket is closed.         *)
bif_shutdown(c) ==
  /\ Runs(c) /\ phase[c] = "ready"
  /\ up' = FALSE
  /\ UNCHANGED <<clients, gone, holder, phase, place, cancelled, goodbye, late>>

-----------------------------------------------------------------------------
ShutInit ==
  /\ clients = <<>> /\ gone = {}
  /\ holder = [c \in Shell |-> Null]
  /\ phase = [c \in Shell |-> "idle"]
  /\ place = [c \in Shell |-> Null]
  /\ cancelled = {} /\ goodbye = {} /\ late = {}
  /\ up = TRUE

ShutdownStep(c) == Lock(c) \/ Farewell(c) \/ Unlock(c) \/ bif_shutdown(c)

ClientStep(c) ==
  \/ Connect(c) \/ Hangup(c)
  \/ Command(c) \/ Wait(c) \/ Answered(c) \/ cmd_exit(c) \/ cmd_shutdown(c)

ShutNext == \E c \in Shell : ClientStep(c) \/ Finish(c) \/ ShutdownStep(c) \/ UseFreed(c)

ShutSpec == ShutInit /\ [][ShutNext]_shutVars

(* A command that waits for nobody ends, and a shutdown that waits for a   *)
(* mutex that is free again and again gets it: a shell without a command   *)
(* waits for its client.  A client takes the line goodbye.                 *)
ShutFairness ==
  \A c \in Shell : WF_shutVars(Finish(c)) /\ SF_shutVars(ShutdownStep(c))

ShutFairSpec == ShutSpec /\ ShutFairness

-----------------------------------------------------------------------------
(* Properties                                                              *)

(* No thread is cancelled in the middle of a command, which would leave a  *)
(* transaction open and half an answer, except on connections that came    *)
(* after the shells were locked.                                           *)
CommandsNotCut ==
  [][\A c \in cancelled' \ cancelled : phase[c] = "idle" \/ c \in late]_cancelled

(* If no command waits for ever for somebody else, a shutdown ends the     *)
(* process, whatever commands run and connections come and go; and by then *)
(* every client has been told goodbye who is connected and was there when  *)
(* the shutdown began.  This is so unless a shell goes away just when the  *)
(* walk has reached it, or another shutdown begins, which may wait for the *)
(* first as the first waits for it.                                        *)
ShutdownEnds ==
  (\A b \in Shell : []<>(phase[b] # "waiting"))
    => \A c \in Shell :
         phase[c] = "locking" ~>
           \/ ~up /\ Connected \subseteq goodbye \cup late
           \/ place[c] \in gone
           \/ \E b \in Shell \ {c} : phase[b] \in Walk
=============================================================================
