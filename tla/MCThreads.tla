------------------------------ MODULE MCThreads -----------------------------
(***************************************************************************)
(* Small instances for TLC of the parts of the server whose threads must   *)
(* not wait for ever: the readers-writer lock, the traders of the market,  *)
(* the feed of events and the command shutdown.  A behaviour chooses one   *)
(* part, which takes all its steps, fairly; the others stay as they began: *)
(* what one of them does to the state of another is in none of them.       *)
(***************************************************************************)
EXTENDS MCMarket, MutexRW, Shutdown

CONSTANTS FeedShell, FeedAcct, MaxEvents

ASSUME NullAssumption == Null \notin FeedShell \cup FeedAcct

VARIABLES
  part,      \* the part that moves
  events, first, after, prev, live, status, acct, locked, doing, at,
  event_id, current, cursor, told, named, recycled

F == INSTANCE EventFeed WITH
  Shell <- FeedShell, Acct <- FeedAcct, pc <- doing, client_list <- first, next <- after

feed == <<events, first, after, prev, live, status, acct, locked, doing, at,
          event_id, current, cursor, told, named, recycled>>

(* Bounds of the feed: one event, or MaxEvents as long as the other shells *)
(* have gone without a login.                                              *)
MCFeed ==
  \/ Len(events') <= 1
  \/ \E f \in FeedShell : \A c \in FeedShell \ {f} : c \notin live' /\ acct'[c] = Null

MCInit ==
  /\ part \in {"mutex", "market", "feed", "shutdown"}
  /\ MutexInit /\ MCStart /\ F!FeedInit /\ ShutInit

MCNext ==
  /\ UNCHANGED part
  /\ \/ part = "mutex" /\ MutexNext /\ UNCHANGED <<vars, feed, shutVars>>
     \/ part = "market" /\ MCTrading /\ UNCHANGED <<mvars, feed, shutVars>>
     \/ part = "feed" /\ F!FeedNext /\ MCFeed /\ UNCHANGED <<mvars, vars, shutVars>>
     \/ part = "shutdown" /\ ShutNext /\ UNCHANGED <<mvars, vars, feed>>

(* The fairness of the part that moves.                                    *)
MCFairness ==
  /\ \A t \in Thread : WF_mvars(part = "mutex" /\ Return(t))
  /\ \A p \in Pair : /\ WF_vars(part = "market" /\ MarketSignal(p))
                     /\ WF_vars(part = "market" /\ TraderStep(p))
  /\ WF_feed(part = "feed" /\ F!EventThread)
  /\ \A c \in Shell : /\ WF_shutVars(part = "shutdown" /\ Finish(c))
                      /\ SF_shutVars(part = "shutdown" /\ ShutdownStep(c))

MCSpec == MCInit /\ [][MCNext]_<<part, mvars, vars, feed, shutVars>> /\ MCFairness

-----------------------------------------------------------------------------
(* A property of an instance, under the name it has in its module.          *)

(* EventFeed: a thread that is woken again and again reads every event.    *)
PendingEventRead == F!PendingEventRead
=============================================================================
