------------------------------- MODULE Market -------------------------------
(***************************************************************************)
(* The market of dBarter on top of its ledger: offers (bom/offer.cc), the  *)
(* commands offer_create and offer_destroy (bif/shell.cc), and the trader  *)
(* threads (bif/market.cc, bif/trader.cc) that execute offers against each *)
(* other.                                                                  *)
(*                                                                         *)
(* offer_create commits its offer and only then tells the market, which    *)
(* starts a trader thread for the pair of denominations.  A trader runs    *)
(* one transaction per trade until the best offers no longer cross, then   *)
(* ends.  What is in the database survives a restart of barterd; shells    *)
(* that have yet to signal and traders do not, and no trader is started    *)
(* by a restart.                                                           *)
(***************************************************************************)
EXTENDS Ledger

CONSTANT Offer   \* offer identifiers; gen_id never yields one twice

ASSUME OfferAssumption == None \notin Offer

VARIABLES
  offerIssuer,    \* offer_issuer
  offerAsk,       \* offer_ask_value
  offerBid,       \* offer_bid_value
  acctOffer,      \* acct_offer: the pairs <<account, offer>>
  offerIndex,     \* offer_index: what each pair of denominations trades at
  offersMinted,   \* identifiers that gen_id has already yielded
  signalled,      \* shells between the commit of an offer and market::signal
  traders         \* running trader threads

bookVars   == <<offerIssuer, offerAsk, offerBid, acctOffer, offerIndex, offersMinted>>
threadVars == <<signalled, traders>>
vars == <<ledgerVars, bookVars, threadVars>>

Value == [denom : Denom, quant : Positive]

ASSUME ValueAssumption == None \notin Value

(* <<ask, bid>>: the key of offer_index and the two denominations of a     *)
(* trader.                                                                 *)
Pair == {p \in Denom \X Denom : p[1] # p[2]}

Opposite(p) == <<p[2], p[1]>>

IndexRow == [pair : Pair, offer : Offer, ratio : Positive]

MarketTypeOK ==
  /\ offerIssuer \in [Offer -> Acct \cup {None}]
  /\ offerAsk \in [Offer -> Value \cup {None}]
  /\ offerBid \in [Offer -> Value \cup {None}]
  /\ acctOffer \subseteq Acct \X Offer
  /\ offerIndex \subseteq IndexRow
  /\ offersMinted \subseteq Offer
  /\ signalled \in [Pair -> Nat]
  /\ traders \in [Pair -> Nat]

Single(v) == [d \in {v.denom} |-> v.quant]

-----------------------------------------------------------------------------
(* Offers                                                                  *)

PairOf(o) == <<offerAsk[o].denom, offerBid[o].denom>>

(* The rows that find_best_offer may return for a pair: the lowest ratio   *)
(* of ask to bid.  Rows with equal ratios are kept in no particular order. *)
Best(p) ==
  {r \in offerIndex : r.pair = p /\ \A s \in offerIndex : s.pair = p => r.ratio \preceq s.ratio}

Crossing(r, s) == (r.ratio (\X) s.ratio) \preceq One

Crossed(p) == \E r \in Best(p), s \in Best(Opposite(p)) : Crossing(r, s)

(* Mutant: the row is looked for under the key of the opposite pair.       *)
IndexRowsSwapped(S) == {r \in offerIndex : r.offer \in S /\ r.pair = Opposite(PairOf(r.offer))}

(* The rows that offer::del_index finds for the offers of S.               *)
IndexRows(S) == {r \in offerIndex : r.offer \in S /\ r.pair = PairOf(r.offer)}

(* offer::destroy for the offers of S, after the values of the others have *)
(* become asks and bids.                                                   *)
DestroyOffers(S, asks, bids) ==
  /\ offerAsk' = [o \in Offer |-> IF o \in S THEN None ELSE asks[o]]
  /\ offerBid' = [o \in Offer |-> IF o \in S THEN None ELSE bids[o]]
  /\ offerIssuer' = [o \in Offer |-> IF o \in S THEN None ELSE offerIssuer[o]]
  /\ acctOffer' = acctOffer \ {<<offerIssuer[o], o>> : o \in S}
  /\ offerIndex' = offerIndex \ IndexRows(S)
  /\ UNCHANGED offersMinted

(* Mutant: the market is not signalled.                                    *)
OweNoSignal(p) == UNCHANGED signalled

(* The shell has yet to signal the market.                                 *)
OweSignal(p) == signalled' = [signalled EXCEPT ![p] = @ + 1]

OfferCreate(u, ask, bid, o) ==
  LET pair == <<ask.denom, bid.denom>> IN
  /\ pair \in Pair
  /\ o \notin offersMinted
  /\ CanDebit(u, Single(bid))
  /\ acctValue' = [acctValue EXCEPT ![u] = Withdraw(@, Single(bid))]
  /\ WithinBound(acctValue'[u])
  /\ offerIssuer' = [offerIssuer EXCEPT ![o] = u]
  /\ acctOffer' = acctOffer \cup {<<u, o>>}
  /\ offerBid' = [offerBid EXCEPT ![o] = bid]
  /\ offerAsk' = [offerAsk EXCEPT ![o] = ask]
  /\ offerIndex' = offerIndex \cup
       {[pair |-> pair, offer |-> o, ratio |-> ask.quant (/) bid.quant]}
  /\ offersMinted' = offersMinted \cup {o}
  /\ OweSignal(pair)
  /\ posted' = Moves("debit", u, Single(bid)) \cup {Event("offer_create", {u}, o)}
  /\ UNCHANGED <<acctVars, denomVars, noteVars, traders>>

(* Mutant: what the offer asks for is paid back.                           *)
RefundAsk(o) == Single(offerAsk[o])

Refund(o) == Single(offerBid[o])

(* The bid goes to whoever destroys the offer, its issuer or a superuser.  *)
OfferDestroy(u, o) ==
  /\ offerIssuer[o] # None
  /\ u = offerIssuer[o] \/ Super(u)
  /\ acctValue' = [acctValue EXCEPT ![u] = Deposit(@, Refund(o))]
  /\ DestroyOffers({o}, offerAsk, offerBid)
  /\ posted' = Moves("credit", u, Refund(o))
               \cup {Event("offer_destroy", {offerIssuer[o]}, o)}
  /\ UNCHANGED <<acctVars, denomVars, noteVars, threadVars>>

-----------------------------------------------------------------------------
(* The market and its traders                                              *)

MarketSignal(p) ==
  /\ signalled[p] > 0
  /\ signalled' = [signalled EXCEPT ![p] = @ - 1]
  /\ traders' = [traders EXCEPT ![p] = @ + 1]
  /\ UNCHANGED <<ledgerVars, bookVars>>

(* Mutant: both offers are always executed whole.                          *)
ThetasWhole(o, x) == <<One, One>>

(* Mutant: the same part of both offers is executed.                       *)
ThetasEqual(o, x) ==
  LET theta == IF offerBid[o].quant \prec offerAsk[x].quant
                 THEN offerBid[o].quant (/) offerAsk[x].quant
               ELSE IF offerBid[x].quant \prec offerAsk[o].quant
                 THEN offerBid[x].quant (/) offerAsk[o].quant
               ELSE One
  IN  <<theta, theta>>

(* The parts of offers o and x that a trade between them executes: the one *)
(* that runs out first is executed whole.                                  *)
Thetas(o, x) ==
  IF offerBid[o].quant \prec offerAsk[x].quant
    THEN <<One, offerBid[o].quant (/) offerAsk[x].quant>>
  ELSE IF offerBid[x].quant \prec offerAsk[o].quant
    THEN <<offerBid[x].quant (/) offerAsk[o].quant, One>>
  ELSE <<One, One>>

(* Mutant: the part is taken of what is left.                              *)
PartLate(v, theta) == [v EXCEPT !.quant = @ (-) (@ (\X) theta)]

Part(v, theta) == [v EXCEPT !.quant = @ (\X) theta]

(* Mutant: theta is subtracted as if it were a quantity.                   *)
RestUnscaled(v, theta) == [v EXCEPT !.quant = @ (-) theta]

Rest(v, theta) == [v EXCEPT !.quant = @ (-) (@ (\X) theta)]

(* trader::execute and the commit after it.  Each issuer is credited what  *)
(* it asked for, in proportion to the part executed; what the bids are     *)
(* worth beyond that is credited to nobody (market.cc has it commented     *)
(* out).  The index keeps the ratio an offer was created with.             *)
Trade(p) ==
  /\ traders[p] > 0
  /\ \E r \in Best(p), s \in Best(Opposite(p)) :
       LET o     == r.offer
           x     == s.offer
           theta == [y \in {o, x} |-> IF y = o THEN Thetas(o, x)[1] ELSE Thetas(o, x)[2]]
           asks  == [y \in Offer |-> IF y \in {o, x} THEN Rest(offerAsk[y], theta[y])
                                                     ELSE offerAsk[y]]
           bids  == [y \in Offer |-> IF y \in {o, x} THEN Rest(offerBid[y], theta[y])
                                                     ELSE offerBid[y]]
           gain  == [y \in {o, x} |-> Single(Part(offerAsk[y], theta[y]))]
           done  == {y \in {o, x} : bids[y].quant = Zero}
           paid  == [acctValue EXCEPT ![offerIssuer[o]] = Deposit(@, gain[o])]
       IN  /\ Crossing(r, s)
           /\ acctValue' = [paid EXCEPT ![offerIssuer[x]] = Deposit(@, gain[x])]
           /\ DestroyOffers(done, asks, bids)
           /\ posted' = Moves("credit", offerIssuer[o], gain[o])
                        \cup Moves("credit", offerIssuer[x], gain[x])
                        \cup {Event("offer_destroy", {}, y) : y \in done}
  /\ UNCHANGED <<acctVars, denomVars, noteVars, threadVars>>

(* Mutant: the trader ends after whichever trade.                          *)
TraderExitEarly(p) ==
  /\ traders[p] > 0
  /\ traders' = [traders EXCEPT ![p] = @ - 1]
  /\ UNCHANGED <<ledgerVars, bookVars, signalled>>

(* The best offers do not cross: the trader's thread ends.                 *)
TraderExit(p) ==
  /\ traders[p] > 0
  /\ ~Crossed(p)
  /\ traders' = [traders EXCEPT ![p] = @ - 1]
  /\ UNCHANGED <<ledgerVars, bookVars, signalled>>

(* barterd stops, or crashes, and is started again on the same database.   *)
Restart ==
  /\ signalled' = [p \in Pair |-> 0]
  /\ traders' = [p \in Pair |-> 0]
  /\ UNCHANGED <<ledgerVars, bookVars>>

-----------------------------------------------------------------------------
BookInit ==
  /\ offerIssuer = [o \in Offer |-> None]
  /\ offerAsk = [o \in Offer |-> None]
  /\ offerBid = [o \in Offer |-> None]
  /\ acctOffer = {}
  /\ offerIndex = {}
  /\ offersMinted = {}
  /\ signalled = [p \in Pair |-> 0]
  /\ traders = [p \in Pair |-> 0]

Init == LedgerInit /\ BookInit

CommandValue == [denom : Denom, quant : Amounts]

OfferCommand ==
  \E u \in acctPromise, o \in Offer :
    \/ \E ask, bid \in CommandValue : OfferCreate(u, ask, bid, o)
    \/ OfferDestroy(u, o)

LedgerCommand == LedgerNext /\ UNCHANGED <<bookVars, threadVars>>

TraderStep(p) == Trade(p) \/ TraderExit(p)

(* What happens while barterd runs.                                        *)
Running ==
  \/ LedgerCommand
  \/ OfferCommand
  \/ \E p \in Pair : MarketSignal(p) \/ TraderStep(p)

Next == Running \/ Restart

Spec == Init /\ [][Next]_vars

(* A shell that has committed an offer goes on to signal the market, and a *)
(* trader's thread is scheduled: an aborted transaction is tried again.    *)
Fairness == \A p \in Pair : WF_vars(MarketSignal(p)) /\ WF_vars(TraderStep(p))

-----------------------------------------------------------------------------
(* Properties                                                              *)

Live == {o \in Offer : offerIssuer[o] # None}

(* The five tables of an offer agree, whatever creations, cancellations    *)
(* and partial fills went before: an offer has all its rows or none,       *)
(* acct_offer lists exactly the offers of each issuer, and every offer has *)
(* exactly one index row, under its own pair.                              *)
OfferTablesAgree ==
  /\ MarketTypeOK
  /\ \A o \in Offer : /\ offerAsk[o] = None <=> o \notin Live
                      /\ offerBid[o] = None <=> o \notin Live
  /\ acctOffer = {<<offerIssuer[o], o>> : o \in Live}
  /\ {r.offer : r \in offerIndex} = Live
  /\ \A r, s \in offerIndex : r.offer = s.offer => r = s
  /\ \A r \in offerIndex : r.pair = PairOf(r.offer)

(* Every pair whose best offers cross has a trader, or a shell about to    *)
(* start one: signals that come after the commit, and traders that end as  *)
(* others start, leave no executable offer behind.  A restart does.        *)
CrossedBookAttended ==
  \A p \in Pair :
    Crossed(p) => \E q \in {p, Opposite(p)} : signalled[q] > 0 \/ traders[q] > 0

(* All the value of denomination d: balances, notes and the bids that      *)
(* offers hold.                                                            *)
Escrow(d) ==
  Total([o \in Live |-> IF offerBid[o].denom = d THEN offerBid[o].quant ELSE Zero])

Wealth(d) == Supply(d) (+) Escrow(d)

(* Value changes only in credit, in debit and in acct_destroy, which erases *)
(* a portfolio with its debts, and in a trade, which loses the part of the *)
(* bids that is credited to nobody and never makes any.  Creating and      *)
(* cancelling offers preserves it: an offer cancelled after a partial fill *)
(* gives back the whole of what it still bids.                             *)
WealthAccounted ==
  [][\A d \in Denom :
       \/ Wealth(d)' = Wealth(d)
       \/ Wealth(d)' \prec Wealth(d) /\ \E p \in Pair : Trade(p)
       \/ TransferCommand
       \/ \E u \in acctPromise, w \in Acct : AcctDestroy(u, w)]_<<acctValue, noteValue, offerBid>>

Bidden(o) == IF offerBid[o] = None THEN Zero ELSE offerBid[o].quant
Asked(o)  == IF offerAsk[o] = None THEN Zero ELSE offerAsk[o].quant

(* The step executes offer o, in part or whole (a cancelled offer is not   *)
(* executed).                                                              *)
Executed(o) ==
  /\ Bidden(o)' \prec Bidden(o)
  /\ ~\E u \in Acct : Event("offer_destroy", {u}, o) \in posted'

(* No issuer pays more than its limit: over all its offers that a step     *)
(* executes, it is credited exactly what it asked for in exchange for the  *)
(* same part of what it bid, so partial fills never drift from the price   *)
(* the offer was made at.                                                  *)
LimitPriceHonoured ==
  [][\A o \in Live : Executed(o) =>
       /\ (Asked(o) (-) Asked(o)') (\X) Bidden(o)
            = (Bidden(o) (-) Bidden(o)') (\X) Asked(o)
       /\ \A d \in Denom :
            acctValue'[offerIssuer[o]][d] (-) acctValue[offerIssuer[o]][d]
              = Total([y \in {z \in Live : offerIssuer[z] = offerIssuer[o] /\ Executed(z)
                                           /\ offerAsk[z].denom = d}
                         |-> Asked(y) (-) Asked(y)'])]_offerBid

(* A trade fills at least one of its two offers completely, so a trader    *)
(* ends after at most as many trades as there are offers.                  *)
TradeFillsAnOffer ==
  [][(\E o \in Live : Executed(o)) => \E o \in Live : Executed(o) /\ o \notin Live']_offerBid

(* With commands, offers, traders and restarts together, value is neither  *)
(* made nor lost, each change of a balance has its event, and no balance   *)
(* is overdrawn without authority.                                         *)
SystemAccounted == WealthAccounted /\ AuditTrail /\ OverdraftAuthorised

(* html/manual/fifi.html: "An offer is automatically executed when a       *)
(* viable counter-offer is made."                                          *)
OffersExecuted == \A p \in Pair : Crossed(p) ~> ~Crossed(p)
=============================================================================
