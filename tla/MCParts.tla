------------------------------- MODULE MCParts ------------------------------
(***************************************************************************)
(* Small instances for TLC of the parts of dBarter that share no state:    *)
(* the daemon, the feed of events, sessions with other servers, the log of *)
(* dx, the text protocol and the text of quantities.  A behaviour chooses  *)
(* one part, which takes all its steps; the others stay as they began.     *)
(***************************************************************************)
EXTENDS Daemon, EventFeed, Sessions, TxLog, Wire, QuantityText, TLC

ASSUME BoundAssumption == {MaxId, MaxCmd, MaxEvent, MaxBegun, MaxCrashes} \subseteq Nat

VARIABLE part  \* the part that moves

(* A whole part with a fraction, and decimals with and without leading     *)
(* zeros; their sums and differences include integers.                     *)
MCAmounts == {<<4, 3>>, <<1, 20>>, <<5, 2>>}

Vars == <<part, daemonVars, feedState, sessionVars, txVars, lineVars, textVars>>

(* Bounds of the sessions: three of them and no commands, two and one      *)
(* command, or many messages in one at a time.  When two shells have shared *)
(* a session no property says anything any more: then there is just one.   *)
MCUsed     == Cardinality({c \in Cell : mem'[c].id # 0})
MCPosted   == \E c \in Cell : wire'[c].posted # 0
MCSessions ==
  /\ shared => made' = 1
  /\ \/ issued' = 0 /\ ~MCPosted
     \/ made' <= 2 /\ issued' <= 1 /\ ~MCPosted
     \/ made' <= 2 /\ MCUsed <= 1

(* Bound of the log: crashes and failed writes together.                   *)
MCLog == crashes' + failures' <= 3

(* Bounds of the feed: two events of one account, or one with both accounts *)
(* in use.                                                                 *)
MCOneEvent == Len(events') <= 1
MCOneAcct  ==
  \E u \in Acct : /\ \A i \in DOMAIN events' : events'[i] \in {u, Null}
                  /\ \A c \in Shell : named'[c] \subseteq {u}

MCInit ==
  /\ part \in {"daemon", "feed", "sessions", "log", "wire", "text"}
  /\ DaemonInit /\ FeedInit /\ SessionsInit /\ TxInit /\ WireInit /\ TextInit

MCNext ==
  /\ UNCHANGED part
  /\ \/ /\ part = "daemon" /\ DaemonNext
        /\ UNCHANGED <<feedState, sessionVars, txVars, lineVars, textVars>>
     \/ /\ part = "feed" /\ FeedNext
        /\ MCOneEvent \/ MCOneAcct
        /\ UNCHANGED <<daemonVars, sessionVars, txVars, lineVars, textVars>>
     \/ /\ part = "sessions" /\ SessionsNext
        /\ MCSessions
        /\ UNCHANGED <<daemonVars, feedState, txVars, lineVars, textVars>>
     \/ /\ part = "log" /\ TxNext
        /\ MCLog
        /\ UNCHANGED <<daemonVars, feedState, sessionVars, lineVars, textVars>>
     \/ /\ part = "wire" /\ WireNext
        /\ UNCHANGED <<daemonVars, feedState, sessionVars, txVars, textVars>>
     \/ /\ part = "text" /\ TextNext
        /\ UNCHANGED <<daemonVars, feedState, sessionVars, txVars, lineVars>>

MCSpec == MCInit /\ [][MCNext]_Vars

(* Pieces of memory, accounts and clients are interchangeable.             *)
MCSymmetry == Permutations(Shell) \cup Permutations(Acct) \cup Permutations(Client)
=============================================================================
