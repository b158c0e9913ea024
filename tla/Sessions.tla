------------------------------ MODULE Sessions ------------------------------
(***************************************************************************)
(* Sessions with other servers (bif/session.cc, bif/client.cc, and connect,*)
(* reconnect, disconnect and the relay of process in bif/shell.cc).  A     *)
(* session is an object on the heap, in the list session_list that no lock *)
(* protects; it outlives its shell, so that a later shell reconnects to it *)
(* by its id, and several shells may be in one session.  expire_sessions   *)
(* has no caller.                                                          *)
(*                                                                         *)
(* A Cell is a place for a session on the heap.  A freed cell keeps what it*)
(* held until new takes it again; once the program uses a freed cell, or   *)
(* walks a list that has no end, the run stops in undefined.               *)
(***************************************************************************)
EXTENDS Naturals, Sequences, FiniteSets

CONSTANTS
  Client,     \* shells, each the successive clients of one place
  Cell,       \* places for a session
  NULL,       \* the NULL pointer
  MaxId,      \* bound: sessions made
  MaxCmd,     \* bound: commands relayed
  MaxEvent    \* bound: events that another server sends on its own

ASSUME CellAssumption == IsFiniteSet(Cell) /\ NULL \notin Cell

VARIABLES
  mem,        \* the cells: live, next, prev, id
  head,       \* session_list
  ses,        \* the session of each shell
  doing,      \* where each shell is
  making,     \* the session that connect is making
  handed,     \* the ids that clients were told
  made,       \* sessions made so far
  wire,       \* per cell, the commands on their way and the messages to read
  messages,   \* per cell, client.messages, newest first
  waits,      \* the command whose answer each shell waits for
  relayed,    \* what each shell last relayed to its client
  issued,     \* commands relayed so far
  raced, outOfOrder, shared,   \* history: see below
  undefined

wireVars == <<wire, messages>>
sessionVars == <<mem, head, ses, doing, making, handed, made, wire, messages, waits,
                 relayed, issued, raced, outOfOrder, shared, undefined>>

Fresh == [out |-> <<>>, stream |-> <<>>, posted |-> 0]
Event(k) == [kind |-> "event", n |-> k, before |-> 0]
Answer(k, b) == [kind |-> "answer", n |-> k, before |-> b]
End == [kind |-> "end", n |-> 0, before |-> 0]
Silent == [cmd |-> 0, answer |-> 0, events |-> <<>>, before |-> 0]

Live(c) == c # NULL /\ mem[c].live
Others(s, c) == {t \in Client \ {s} : ses[t] = c}

(* The walk of find_session: the cell after i steps.                       *)
Step[i \in 0..Cardinality(Cell)] ==
  IF i = 0 THEN head
  ELSE IF Step[i - 1] = NULL THEN NULL ELSE mem[Step[i - 1]].next

(* The walk comes to step i over live cells only, none of which has the id.*)
Reaches(i, id) == \A j \in 0..(i - 1) : Live(Step[j]) /\ mem[Step[j]].id # id

Finds(id, c) == \E i \in DOMAIN Step : Reaches(i, id) /\ Step[i] = c /\ Live(c) /\ mem[c].id = id
FindsNone(id) == \E i \in DOMAIN Step : Reaches(i, id) /\ Step[i] = NULL

-----------------------------------------------------------------------------
(* session::session reads session_list into next,                          *)
New(s) ==
  /\ ~undefined /\ doing[s] = "idle" /\ ses[s] = NULL
  /\ made < MaxId
  /\ \E c \in Cell :
       /\ ~mem[c].live
       /\ mem' = [mem EXCEPT ![c] = [live |-> TRUE, next |-> head, prev |-> NULL,
                                     id |-> made + 1]]
       /\ making' = [making EXCEPT ![s] = c]
       /\ wire' = [wire EXCEPT ![c] = Fresh]
       /\ messages' = [messages EXCEPT ![c] = <<>>]
  /\ made' = made + 1
  /\ doing' = [doing EXCEPT ![s] = "link"]
  /\ UNCHANGED <<head, ses, handed, waits, relayed, issued, raced, outOfOrder, shared, undefined>>

(* Mutant: the session before is lost.                                     *)
linkLoses(s) ==
  /\ ~undefined /\ doing[s] = "link"
  /\ head' = making[s]
  /\ mem' = [mem EXCEPT ![making[s]].next = NULL]
  /\ raced' = (raced \/ mem[making[s]].next # head)
  /\ doing' = [doing EXCEPT ![s] = "prev"]
  /\ UNCHANGED <<ses, making, handed, made, wire, messages, waits, relayed, issued,
                 outOfOrder, shared, undefined>>

(* link writes session_list.  raced: it changed since it was read,         *)
link_session(s) ==
  /\ ~undefined /\ doing[s] = "link"
  /\ head' = making[s]
  /\ raced' = (raced \/ mem[making[s]].next # head)
  /\ doing' = [doing EXCEPT ![s] = "prev"]
  /\ UNCHANGED <<mem, ses, making, handed, made, wire, messages, waits, relayed, issued,
                 outOfOrder, shared, undefined>>

(* or before link sets the prev of the session that it then finds there,   *)
(* usually its own, which it clears: the session before never learns of    *)
(* this one.                                                               *)
link_prev(s) ==
  /\ ~undefined /\ doing[s] = "prev"
  /\ LET set == IF head = NULL THEN mem ELSE [mem EXCEPT ![head].prev = making[s]]
     IN  mem' = [set EXCEPT ![making[s]].prev = NULL]
  /\ undefined' = (head # NULL /\ ~Live(head))
  /\ raced' = (raced \/ head # making[s])
  /\ doing' = [doing EXCEPT ![s] = "connect"]
  /\ UNCHANGED <<head, ses, making, handed, made, wire, messages, waits, relayed, issued,
                 outOfOrder, shared>>

(* delete: unlink, and the memory is freed.  outOfOrder: a session was     *)
(* deleted that was not the newest, which leaves it in the list.  shared:  *)
(* another shell is still in the session.                                  *)
Delete(s, c) ==
  LET p == mem[c].prev
      n == mem[c].next
      linked == [mem EXCEPT ![c].live = FALSE]
      skipped == IF p = NULL THEN linked ELSE [linked EXCEPT ![p].next = n]
  IN  /\ mem' = IF n = NULL \/ ~Live(n) THEN skipped ELSE [skipped EXCEPT ![n].prev = p]
      /\ undefined' = (n # NULL /\ ~Live(n))
      /\ head' = IF head = c THEN n ELSE head
      /\ outOfOrder' = (outOfOrder \/ head # c)
      /\ shared' = (shared \/ Others(s, c) # {})
      /\ UNCHANGED raced

(* cmd_connect once client.connect has read the welcome of the other       *)
(* server, or has failed.                                                  *)
cmd_connect(s) ==
  /\ ~undefined /\ doing[s] = "connect"
  /\ doing' = [doing EXCEPT ![s] = "idle"]
  /\ making' = [making EXCEPT ![s] = NULL]
  /\ \/ /\ ses' = [ses EXCEPT ![s] = making[s]]
        /\ handed' = handed \cup {mem[making[s]].id}
        /\ UNCHANGED <<mem, head, raced, outOfOrder, shared, undefined>>
     \/ Delete(s, making[s]) /\ UNCHANGED <<ses, handed>>
  /\ UNCHANGED <<made, wire, messages, waits, relayed, issued>>

(* cmd_reconnect: any shell that knows the id, with whoever else is in the *)
(* session.                                                                *)
cmd_reconnect(s) ==
  /\ ~undefined /\ doing[s] = "idle" /\ ses[s] = NULL
  /\ \E id \in handed :
       \/ /\ \E c \in Cell : Finds(id, c) /\ ses' = [ses EXCEPT ![s] = c]
          /\ UNCHANGED undefined
       \/ FindsNone(id) /\ UNCHANGED <<ses, undefined>>
       \/ /\ ~FindsNone(id) /\ ~\E c \in Cell : Finds(id, c)
          /\ undefined' = TRUE /\ UNCHANGED ses
  /\ UNCHANGED <<mem, head, doing, making, handed, made, wire, messages, waits, relayed, issued,
                 raced, outOfOrder, shared>>

(* The shell uses a session that another shell deleted.                    *)
UseFreed(s) ==
  /\ ~undefined /\ ses[s] # NULL /\ ~Live(ses[s])
  /\ undefined' = TRUE
  /\ UNCHANGED <<mem, head, ses, doing, making, handed, made, wire, messages, waits, relayed,
                 issued, raced, outOfOrder, shared>>

cmd_disconnect(s) ==
  /\ ~undefined /\ doing[s] = "idle" /\ Live(ses[s])
  /\ ses' = [ses EXCEPT ![s] = NULL]
  /\ Delete(s, ses[s])
  /\ UNCHANGED <<doing, making, handed, made, wire, messages, waits, relayed, issued>>

(* exit, or the client is gone: ~shell leaves the session for reconnect.   *)
Quit(s) ==
  /\ ~undefined /\ doing[s] = "idle" /\ ses[s] # NULL
  /\ ses' = [ses EXCEPT ![s] = NULL]
  /\ relayed' = [relayed EXCEPT ![s] = Silent]
  /\ UNCHANGED <<mem, head, doing, making, handed, made, wire, messages, waits, issued,
                 raced, outOfOrder, shared, undefined>>

(* process writes the line to the other server.  shared: another shell     *)
(* waits for an answer in the same session.                                *)
Relay(s) ==
  /\ ~undefined /\ doing[s] = "idle" /\ Live(ses[s])
  /\ issued < MaxCmd
  /\ issued' = issued + 1
  /\ wire' = [wire EXCEPT ![ses[s]].out = Append(@, issued + 1)]
  /\ waits' = [waits EXCEPT ![s] = issued + 1]
  /\ doing' = [doing EXCEPT ![s] = "read"]
  /\ shared' = (shared \/ \E t \in Others(s, ses[s]) : doing[t] = "read")
  /\ UNCHANGED <<mem, head, ses, making, handed, made, messages, relayed, raced, outOfOrder,
                 undefined>>

(* Mutant: the list of messages holds the last one.                        *)
read_messageLast(s) ==
  LET c == ses[s]
      m == Head(wire[c].stream)
  IN  /\ ~undefined /\ doing[s] = "read" /\ Live(c)
      /\ wire[c].stream # <<>> /\ m.kind # "end"
      /\ wire' = [wire EXCEPT ![c].stream = Tail(@)]
      /\ \/ /\ m.kind = "event"
            /\ messages' = [messages EXCEPT ![c] = <<m.n>>]
            /\ UNCHANGED <<doing, relayed>>
         \/ /\ m.kind = "answer"
            /\ relayed' = [relayed EXCEPT ![s] = [cmd |-> waits[s], answer |-> m.n,
                                            events |-> messages[c], before |-> m.before]]
            /\ doing' = [doing EXCEPT ![s] = "idle"] /\ UNCHANGED messages
      /\ UNCHANGED <<ses, making, handed, made, waits, issued, mem, head, raced,
                     outOfOrder, shared, undefined>>

(* read_message, one message: an asynchronous one goes to the front of     *)
(* messages, which process relays with every answer and never empties; an  *)
(* answer ends the command; the end of the connection ends the session.    *)
read_message(s) ==
  LET c == ses[s]
      m == Head(wire[c].stream)
  IN  /\ ~undefined /\ doing[s] = "read" /\ Live(c)
      /\ wire[c].stream # <<>>
      /\ \/ /\ m.kind = "event"
            /\ wire' = [wire EXCEPT ![c].stream = Tail(@)]
            /\ messages' = [messages EXCEPT ![c] = <<m.n>> \o @]
            /\ UNCHANGED <<mem, head, ses, doing, relayed, raced, outOfOrder, shared, undefined>>
         \/ /\ m.kind = "answer"
            /\ wire' = [wire EXCEPT ![c].stream = Tail(@)]
            /\ relayed' = [relayed EXCEPT ![s] = [cmd |-> waits[s], answer |-> m.n,
                                            events |-> messages[c], before |-> m.before]]
            /\ doing' = [doing EXCEPT ![s] = "idle"]
            /\ UNCHANGED <<mem, head, ses, messages, raced, outOfOrder, shared, undefined>>
         \/ /\ m.kind = "end"
            /\ ses' = [ses EXCEPT ![s] = NULL]
            /\ Delete(s, c)
            /\ relayed' = [relayed EXCEPT ![s] = Silent]
            /\ doing' = [doing EXCEPT ![s] = "idle"]
            /\ UNCHANGED wireVars
      /\ UNCHANGED <<making, handed, made, waits, issued>>

(* The other server (external): it answers the commands of a connection in *)
(* their order, sends events between the answers, and may go away.         *)
Remote(c) ==
  /\ ~undefined /\ Live(c) /\ mem[c].id \in handed
  /\ End \notin {wire[c].stream[i] : i \in DOMAIN wire[c].stream}
  /\ \/ /\ wire[c].out # <<>>
        /\ wire' = [wire EXCEPT ![c].out = Tail(@),
                                ![c].stream = Append(@, Answer(Head(wire[c].out), wire[c].posted))]
     \/ /\ wire[c].posted < MaxEvent
        /\ wire' = [wire EXCEPT ![c].posted = @ + 1,
                                ![c].stream = Append(@, Event(wire[c].posted + 1))]
     \/ wire' = [wire EXCEPT ![c].stream = Append(@, End)]
  /\ UNCHANGED <<mem, head, ses, doing, making, handed, made, messages, waits, relayed, issued,
                 raced, outOfOrder, shared, undefined>>

-----------------------------------------------------------------------------
SessionsInit ==
  /\ mem = [c \in Cell |-> [live |-> FALSE, next |-> NULL, prev |-> NULL, id |-> 0]]
  /\ head = NULL
  /\ ses = [s \in Client |-> NULL] /\ making = [s \in Client |-> NULL]
  /\ doing = [s \in Client |-> "idle"]
  /\ handed = {} /\ made = 0 /\ issued = 0
  /\ wire = [c \in Cell |-> Fresh] /\ messages = [c \in Cell |-> <<>>]
  /\ waits = [s \in Client |-> 0] /\ relayed = [s \in Client |-> Silent]
  /\ raced = FALSE /\ outOfOrder = FALSE /\ shared = FALSE /\ undefined = FALSE

SessionsNext ==
  \/ \E s \in Client :
       \/ New(s) \/ link_session(s) \/ link_prev(s) \/ cmd_connect(s) \/ cmd_reconnect(s)
       \/ cmd_disconnect(s) \/ Quit(s) \/ Relay(s) \/ read_message(s) \/ UseFreed(s)
  \/ \E c \in Cell : Remote(c)

SessionsSpec == SessionsInit /\ [][SessionsNext]_sessionVars

-----------------------------------------------------------------------------
(* Properties                                                              *)

(* Unless two connects interleaved in link, a session other than the newest *)
(* was deleted, or a shell deleted a session that another shell is in, the *)
(* program uses no freed memory, and reconnect finds every session whose id *)
(* was told to a client and that still exists, and says "no such session"  *)
(* of the others: losing the connection, failing to connect and leaving a  *)
(* session behind are safe by themselves.                                  *)
SessionsFindable ==
  ~raced /\ ~outOfOrder /\ ~shared =>
    /\ ~undefined
    /\ \A id \in handed :
         IF \E c \in Cell : Live(c) /\ mem[c].id = id
           THEN \E c \in Cell : Finds(id, c)
           ELSE FindsNone(id)

(* Unless two shells had commands in one session at the same time, or one  *)
(* deleted it under the other, the answer that a shell relays is the answer *)
(* to the command it relayed, with every event that the other server sent  *)
(* in the session before that answer, to this shell or to an earlier one,  *)
(* newest first.                                                           *)
AnswerOwn ==
  ~shared => \A s \in Client :
    /\ relayed[s].answer = relayed[s].cmd
    /\ relayed[s].events = [i \in 1..relayed[s].before |-> relayed[s].before + 1 - i]
=============================================================================
