------------------------------ MODULE EventLog ------------------------------
(***************************************************************************)
(* The event tables of dBarter (bom/event.cc) as the commands of Ledger    *)
(* fill them, event_send, and the commands that read them: event_list,     *)
(* event_read and event_last.                                              *)
(*                                                                         *)
(* Ledger says which events a transaction writes; here they get serial     *)
(* numbers, in the order they are written, and rows in two tables: the     *)
(* accounts of each event and, the other way round, the events of each     *)
(* account.  Nothing ever deletes a row of either.                         *)
(***************************************************************************)
EXTENDS Ledger, Sequences

SE == INSTANCE SequencesExt

CONSTANT MaxEvents   \* bound of the model: no command takes the log further

ASSUME MaxEventsAssumption == MaxEvents \in Nat
(* The events of a command are numbered, so its value list must end.       *)
ASSUME DenomAssumption == IsFiniteSet(Denom)

VARIABLES
  log,        \* event_type, event_data and event_acct: row i is event i
  acctEvent   \* acct_event: the pairs <<account, event number>>

logVars == <<log, acctEvent>>
eventVars == <<ledgerVars, logVars>>

LogTypeOK ==
  /\ DOMAIN log = 1..Len(log)
  /\ Len(log) <= MaxEvents
  /\ \A i \in DOMAIN log : log[i].accts \subseteq Acct
  /\ acctEvent \subseteq Acct \X DOMAIN log

-----------------------------------------------------------------------------
(* Writing                                                                 *)

(* A command writes its events in this order: acct::destroy starts with    *)
(* its own, a note's comes after those of the value that goes in or out.   *)
Rank(kind) ==
  CASE kind = "acct_destroy" -> 0
    [] kind \in {"credit", "debit", "event_sent"} -> 1
    [] OTHER -> 2

(* The orders in which the events of a transaction may be written: those   *)
(* of the values of a list, or of the notes of an account, in any order.   *)
Orders(events) ==
  {s \in SE!SetToSeqs(events) :
     \A i, j \in DOMAIN s : i < j => Rank(s[i].kind) <= Rank(s[j].kind)}

(* Mutant: the reverse table is written for the last event only.           *)
WriteLast(s) ==
  /\ Len(log) + Len(s) <= MaxEvents
  /\ log' = log \o s
  /\ acctEvent' = acctEvent \cup
       UNION {s[i].accts \X {Len(log) + i} : i \in DOMAIN s \cap {Len(s)}}

(* event::gen_id, set_data, set_type and set_acct_list for the events of   *)
(* s: the numbers follow the last one in the table.                        *)
Write(s) ==
  /\ Len(log) + Len(s) <= MaxEvents
  /\ log' = log \o s
  /\ acctEvent' = acctEvent \cup UNION {s[i].accts \X {Len(log) + i} : i \in DOMAIN s}

(* A command of the ledger and the events it writes.                       *)
LoggedCommand ==
  /\ LedgerNext
  /\ \E s \in Orders(posted') : Write(s)

Message(kind, of, u, w) == Event(kind, {of}, [from |-> u, to |-> w])

(* event_send: one event for the sender, one for the recipient.            *)
EventSend(u, w) ==
  /\ w \in acctPublic
  /\ Write(<<Message("event_sent", u, u, w), Message("event_received", w, u, w)>>)
  /\ posted' = {}
  /\ UNCHANGED <<acctVars, acctValue, denomVars, noteVars>>

-----------------------------------------------------------------------------
(* Reading                                                                 *)

(* get_event_list of the caller's own account, within bounds.              *)
event_list(u, lb, ub) == {i \in lb..ub : <<u, i>> \in acctEvent}

(* The caller must be one of the event's accounts or, if the event has     *)
(* any, a superuser.                                                       *)
event_read(u, i) ==
  IF i \notin DOMAIN log THEN [code |-> "notfound"]
  ELSE IF acctFlags[u] = None THEN [code |-> "db"]
  ELSE IF u \in log[i].accts \/ (log[i].accts # {} /\ Super(u))
    THEN [code |-> "success", event |-> log[i]]
  ELSE [code |-> "noauth"]

(* get_last_event, for a superuser: the number of the last row.            *)
event_last(u) ==
  IF acctFlags[u] = None THEN [code |-> "db"]
  ELSE IF ~Super(u) THEN [code |-> "noauth"]
  ELSE IF log = <<>> THEN [code |-> "notfound"]
  ELSE [code |-> "success", id |-> Len(log)]

-----------------------------------------------------------------------------
LogInit == log = <<>> /\ acctEvent = {}

EventInit == LedgerInit /\ LogInit

EventNext == LoggedCommand \/ \E u \in acctPromise, w \in Acct : EventSend(u, w)

EventSpec == EventInit /\ [][EventNext]_eventVars

-----------------------------------------------------------------------------
(* Properties                                                              *)

Readable(u, i) == event_read(u, i).code = "success"

(* event_list and event_read decide from different tables who an event     *)
(* concerns: an existing account can read every event of its list, and an  *)
(* ordinary one finds in its list every event it can read.                 *)
EventListExact ==
  /\ LogTypeOK
  /\ \A u \in acctPublic :
       LET listed == event_list(u, 1, MaxEvents) IN
       /\ \A i \in listed : Readable(u, i)
       /\ ~Super(u) => \A i \in DOMAIN log : Readable(u, i) => i \in listed

(* The events about account w that u finds: w's own list, or, for a        *)
(* superuser, all up to event_last; then those after w was last destroyed. *)
Found(u, w) ==
  {i \in IF u = w THEN event_list(u, 1, MaxEvents) ELSE 1..event_last(u).id :
     Readable(u, i) /\ event_read(u, i).event.accts = {w}}

History(u, w) ==
  {i \in Found(u, w) :
     \A j \in Found(u, w) : event_read(u, j).event.kind = "acct_destroy" => j < i}

(* A client that lists and reads the events of its account, and a          *)
(* superuser that reads everything up to event_last, know the balance:     *)
(* what was credited less what was debited since the account was last      *)
(* destroyed is what acct_value holds, through notes withdrawn and         *)
(* deposited, destruction, and creation under the same name.               *)
HistoryExplainsBalance ==
  \A u, w \in acctPublic, d \in Denom :
    (u = w \/ Super(u)) /\ log # <<>> =>
      LET of(kind) == {i \in History(u, w) : /\ event_read(u, i).event.kind = kind
                                             /\ event_read(u, i).event.object.denom = d}
          sum(S) == Total([i \in S |-> event_read(u, i).event.object.quant])
      IN  acctValue[w][d] = sum(of("credit")) (-) sum(of("debit"))
=============================================================================
