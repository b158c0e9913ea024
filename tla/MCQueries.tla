----------------------------- MODULE MCQueries ------------------------------
(* Small instances of Queries and EventLog for TLC.                        *)
EXTENDS Queries, EventLog, TLC

VARIABLE part  \* "rows", "log" or "book": the instance that a behaviour is of

allVars == <<queryVars, logVars, part>>

MCUnit == {One}
MCUnits == {<<1, 1>>, <<2, 1>>}
MCFlagSets == {{}, {"issuer"}, {"super"}}

(* Root has created a denomination, given itself one unit of it, destroyed  *)
(* it, and last set a flag.                                                *)
MCRowsStart ==
  /\ acctPublic = {Root}
  /\ acctFlags = [u \in Acct |-> IF u = Root THEN {"super"} ELSE None]
  /\ acctModulus = [u \in Acct |-> IF u = Root THEN "usable" ELSE None]
  /\ acctPromise = {Root}
  /\ acctValue = [u \in Acct |-> [d \in Denom |-> IF u = Root THEN One ELSE Zero]]
  /\ denomIssuer = [d \in Denom |-> None]
  /\ issuerDenom = {}
  /\ noteIssuer = [n \in Note |-> None]
  /\ noteValue = [n \in Note |-> Empty]
  /\ acctNote = {}
  /\ minted = {}
  /\ posted = {}
  /\ TextInit({Root}, {})

(* credit and debit are left to MCLedger.                                  *)
MCRowsNext ==
  \/ TextCommand
  \/ SetCommand /\ UNCHANGED <<bookVars, threadVars, textVars>>
  \/ NoteCommand /\ UNCHANGED <<bookVars, threadVars, textVars>>

(* The descriptive rows of what a command of the ledger creates and removes. *)
MCTextFollows ==
  /\ acctText' = [w \in Acct |-> IF w \in acctPublic' \ acctPublic THEN {} ELSE acctText[w]]
  /\ denomText' = [d \in Denom |-> IF denomIssuer'[d] = None THEN None
                                   ELSE IF denomIssuer[d] = None THEN {} ELSE denomText[d]]
  /\ UNCHANGED acctSecret

(* The log of events, from the empty database, without issuers.            *)
MCLogNext ==
  /\ EventNext
  /\ \A w \in Acct : acctFlags'[w] \in {None, {}, {"super"}}
  /\ MCTextFollows

MCInit ==
  /\ \/ part = "rows" /\ MCRowsStart
     \/ part = "log" /\ LedgerInit /\ TextInit({Root}, {})
  /\ BookInit /\ LogInit

MCNext ==
  \/ part = "rows" /\ MCRowsNext /\ UNCHANGED <<logVars, part>>
  \/ part = "log" /\ MCLogNext /\ UNCHANGED <<bookVars, threadVars, part>>

MCSpec == MCInit /\ [][MCNext]_allVars

(* Offers and traders, with accounts that are destroyed under them, from   *)
(* the database that MCMarket starts from.                                 *)
MCBookStart ==
  /\ acctPublic = Acct
  /\ acctFlags = [u \in Acct |-> IF u = Root THEN {"super"} ELSE {}]
  /\ acctModulus = [u \in Acct |-> "usable"]
  /\ acctPromise = Acct
  /\ acctValue = [u \in Acct |-> [d \in Denom |-> <<MaxBalance, 1>>]]
  /\ denomIssuer = [d \in Denom |-> Root]
  /\ issuerDenom = {Root} \X Denom
  /\ noteIssuer = [n \in Note |-> None]
  /\ noteValue = [n \in Note |-> Empty]
  /\ acctNote = {}
  /\ minted = {}
  /\ posted = {}
  /\ BookInit
  /\ TextInit(Acct, Denom)

MCBookInit == part = "book" /\ MCBookStart /\ LogInit

MCBookNext ==
  \/ BookCommand
  \/ \E w \in Acct : RemoveAcct(Root, w) /\ UNCHANGED <<bookVars, threadVars>>

MCBookSpec == MCBookInit /\ [][MCBookNext /\ UNCHANGED <<logVars, part>>]_allVars

(* Offers are interchangeable, and so are the denominations of MCBookStart. *)
MCSymmetry == Permutations(Offer) \cup Permutations(Denom)
=============================================================================
