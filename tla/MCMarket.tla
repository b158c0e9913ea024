------------------------------ MODULE MCMarket ------------------------------
(***************************************************************************)
(* Small instances of Market for TLC.  They start from a database in which *)
(* Root has created the other accounts and both denominations, credited    *)
(* every account with MaxBalance of each denomination, and last set the    *)
(* flags of an account (a command that writes no event).                   *)
(***************************************************************************)
EXTENDS Market, TLC

MCUnit == {One}
MCUnits == {<<1, 1>>, <<2, 1>>}
MCNoFlags == {{}}
MCSuperFlags == {{}, {"super"}}

(* Offers are interchangeable, and so are the denominations of MCStart.     *)
MCSymmetry == Permutations(Offer) \cup Permutations(Denom)

MCStart ==
  /\ acctPublic = Acct
  /\ acctFlags = [u \in Acct |-> IF u = Root THEN {"super"} ELSE {}]
  /\ acctModulus = [u \in Acct |-> "usable"]
  /\ acctPromise = Acct
  /\ acctValue = [u \in Acct |-> [d \in Denom |-> <<MaxBalance, 1>>]]
  /\ denomIssuer = [d \in Denom |-> Root]
  /\ issuerDenom = {Root} \X Denom
  /\ noteIssuer = [n \in Note |-> None]
  /\ noteValue = [n \in Note |-> Empty]
  /\ acctNote = {}
  /\ minted = {}
  /\ posted = {}
  /\ BookInit

(* The commands that move value between balances, notes and offers, while   *)
(* accounts come, go and gain or lose their flags, and barterd restarts.   *)
(* The one offer of the instance meets no other: its traders only end.     *)
MCSystem ==
  \/ (AcctCommand \/ NoteCommand) /\ UNCHANGED <<bookVars, threadVars>>
  \/ OfferCommand
  \/ \E p \in Pair : MarketSignal(p) \/ TraderExit(p)
  \/ Restart

MCSystemSpec == MCStart /\ [][MCSystem]_vars

(* Offers and traders, with accounts that are destroyed under them; the    *)
(* other commands of the ledger are left to the instance above.            *)
MCTrading ==
  \/ OfferCommand
  \/ \E p \in Pair : MarketSignal(p) \/ TraderStep(p)
  \/ \E w \in Acct : AcctDestroy(Root, w) /\ UNCHANGED <<bookVars, threadVars>>

(* With restarts, and the fairness of what goes on running.                *)
MCRestartSpec == MCStart /\ [][MCTrading \/ Restart]_vars /\ Fairness
=============================================================================
