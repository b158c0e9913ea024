----------------------------- MODULE MarketProofs -----------------------------
(***************************************************************************)
(* Theorems about offers and the traders that execute them, on top of the  *)
(* ledger, for any accounts, denominations, offers and amounts.            *)
(*                                                                         *)
(* MarketInv is inductive.  It holds all of LedgerInv, since offers move   *)
(* balances too, and of the tables of offers that they agree, that an      *)
(* offer that exists has spent its identifier, and that the index is       *)
(* finite, so that a pair that has offers has a best one.  RatioExact adds *)
(* that the ratio an offer is indexed by is still the price it asks, which *)
(* is what tells that a trade hands over no more than was bid.             *)
(***************************************************************************)
EXTENDS Market, LedgerProofs

BookInv ==
  /\ OfferTablesAgree
  /\ Live \subseteq offersMinted
  /\ IsFiniteSet(offerIndex)

MarketInv == LedgerInv /\ BookInv

-----------------------------------------------------------------------------
(* Offers and their parts                                                  *)

(* An offer that exists asks and bids something positive, and its index    *)
(* row is the one of its pair.                                             *)
LEMMA LiveOffer ==
  ASSUME BookInv, NEW o \in Live
  PROVE  /\ o \in Offer /\ offerIssuer[o] \in Acct
         /\ offerAsk[o] \in Value /\ offerBid[o] \in Value
         /\ offerAsk[o] # None /\ offerBid[o] # None
BY DEF BookInv, OfferTablesAgree, MarketTypeOK, Live

LEMMA IndexedOffer ==
  ASSUME BookInv, NEW r \in offerIndex
  PROVE  /\ r.offer \in Live /\ r.pair = PairOf(r.offer)
         /\ r.pair \in Pair /\ r.ratio \in Positive
BY DEF BookInv, OfferTablesAgree, MarketTypeOK, IndexRow

(* The part of a value that is executed, and the rest.                     *)
LEMMA PartAndRest ==
  ASSUME NEW v \in Value, NEW theta \in Positive
  PROVE  /\ Part(v, theta) \in Value /\ Part(v, theta).denom = v.denom
         /\ Rest(v, theta).denom = v.denom
         /\ Rest(v, theta).quant = v.quant (-) (v.quant (\X) theta)
         /\ theta = One => Rest(v, theta).quant = Zero
         /\ theta \prec One => /\ Rest(v, theta) \in Value
                               /\ Rest(v, theta).quant \prec v.quant
                               /\ Rest(v, theta).quant # Zero
<1>1. v.quant \in Positive /\ v.denom \in Denom
  BY DEF Value
<1>2. v.quant (\X) theta \in Positive
  BY <1>1, TimesPositive
<1>3. /\ theta = One => v.quant (-) (v.quant (\X) theta) = Zero
      /\ theta \prec One => /\ v.quant (-) (v.quant (\X) theta) \in Positive
                            /\ v.quant (-) (v.quant (\X) theta) \prec v.quant
  BY <1>1, RestOfPart
<1>4. Zero \notin Positive
  BY DEF Zero, Positive
<1> DEFINE part == v.quant (\X) theta
           rest == v.quant (-) part
<1>5. /\ Part(v, theta) = [v EXCEPT !.quant = part]
      /\ Rest(v, theta) = [v EXCEPT !.quant = rest]
  BY DEF Part, Rest
<1> HIDE DEF part, rest
<1>6. /\ [v EXCEPT !.quant = part].denom = v.denom
      /\ [v EXCEPT !.quant = rest].denom = v.denom
      /\ [v EXCEPT !.quant = rest].quant = rest
      /\ part \in Positive => [v EXCEPT !.quant = part] \in Value
      /\ rest \in Positive => [v EXCEPT !.quant = rest] \in Value
  BY DEF Value
<1>7. /\ part \in Positive
      /\ theta = One => rest = Zero
      /\ theta \prec One => rest \in Positive /\ rest \prec v.quant
  BY <1>2, <1>3 DEF part, rest
<1>8. rest = v.quant (-) (v.quant (\X) theta)
  BY DEF rest, part
<1>. QED
  BY <1>4, <1>5, <1>6, <1>7, <1>8

(* Destroying some of the offers, when the others keep denominations and   *)
(* positive values, leaves tables that agree.                              *)
LEMMA DestroyKeeps ==
  ASSUME BookInv, NEW S \in SUBSET Live, NEW asks, NEW bids, DestroyOffers(S, asks, bids),
         \A o \in Offer \ Live : asks[o] = None /\ bids[o] = None,
         \A o \in Live \ S :
           /\ asks[o] \in Value /\ asks[o].denom = offerAsk[o].denom
           /\ bids[o] \in Value /\ bids[o].denom = offerBid[o].denom,
         signalled' \in [Pair -> Nat], traders' \in [Pair -> Nat]
  PROVE  /\ BookInv'
         /\ Live' = Live \ S
         /\ offerIndex' \subseteq offerIndex
<1>1. /\ \A o \in Offer : /\ offerAsk'[o] = IF o \in S THEN None ELSE asks[o]
                          /\ offerBid'[o] = IF o \in S THEN None ELSE bids[o]
                          /\ offerIssuer'[o] = IF o \in S THEN None ELSE offerIssuer[o]
      /\ acctOffer' = acctOffer \ {<<offerIssuer[o], o>> : o \in S}
      /\ offerIndex' = offerIndex \ IndexRows(S)
      /\ offersMinted' = offersMinted
  BY DEF DestroyOffers
<1>2. offerIssuer' \in [Offer -> Acct \cup {None}]
  <2>1. \A o \in Offer : offerIssuer[o] \in Acct \cup {None}
    BY DEF BookInv, OfferTablesAgree, MarketTypeOK
  <2>. QED
    BY <2>1 DEF DestroyOffers
<1>3. Live' = Live \ S /\ S \subseteq Offer /\ Live \subseteq Offer
  BY <1>1 DEF Live
<1>4. \A r \in offerIndex : r \in offerIndex' <=> r.offer \notin S
  BY <1>1, IndexedOffer DEF IndexRows
<1>5. ASSUME NEW o \in Live \ S
      PROVE  /\ offerAsk'[o] = asks[o] /\ offerBid'[o] = bids[o]
             /\ PairOf(o)' = PairOf(o)
  BY <1>1, <1>3, <1>5 DEF PairOf
<1>6. ASSUME NEW o \in Offer
      PROVE  /\ offerAsk'[o] = None <=> o \notin Live'
             /\ offerBid'[o] = None <=> o \notin Live'
             /\ offerAsk'[o] = None \/ offerAsk'[o] \in Value
             /\ offerBid'[o] = None \/ offerBid'[o] \in Value
  BY <1>1, <1>3, ValueAssumption
<1>7. acctOffer' = {<<offerIssuer'[o], o>> : o \in Live'}
  <2>1. acctOffer = {<<offerIssuer[o], o>> : o \in Live}
    BY DEF BookInv, OfferTablesAgree
  <2>2. \A o \in Live' : o \in Live /\ o \notin S /\ offerIssuer'[o] = offerIssuer[o]
    BY <1>1, <1>3
  <2>. QED
    BY <1>1, <1>3, <2>1, <2>2
<1>8. {r.offer : r \in offerIndex'} = Live'
  <2>1. {r.offer : r \in offerIndex} = Live
    BY DEF BookInv, OfferTablesAgree
  <2>. QED
    BY <1>1, <1>3, <1>4, <2>1
<1>9. \A r \in offerIndex' : r.pair = PairOf(r.offer)'
  BY <1>1, <1>4, <1>5, IndexedOffer
<1>10. IsFiniteSet(offerIndex')
  BY <1>1, FS_Subset DEF BookInv
<1>11. MarketTypeOK'
  <2>1. /\ offerAsk' = [o \in Offer |-> offerAsk'[o]]
        /\ offerBid' = [o \in Offer |-> offerBid'[o]]
    BY <1>1 DEF DestroyOffers
  <2>2. /\ offerAsk' \in [Offer -> Value \cup {None}]
        /\ offerBid' \in [Offer -> Value \cup {None}]
    BY <1>6, <2>1
  <2>. QED
    BY <1>1, <1>2, <2>2 DEF BookInv, OfferTablesAgree, MarketTypeOK
<1>. QED
  BY <1>1, <1>3, <1>6, <1>7, <1>8, <1>9, <1>10, <1>11 DEF BookInv, OfferTablesAgree

(* A new offer takes an identifier that was never used, so it overwrites   *)
(* no row.                                                                 *)
LEMMA CreateKeeps ==
  ASSUME MarketInv, NEW u \in Acct, NEW ask \in CommandValue, NEW bid \in CommandValue,
         NEW o \in Offer, OfferCreate(u, ask, bid, o)
  PROVE  /\ BookInv'
         /\ o \notin Live /\ Live' = Live \cup {o}
         /\ \A y \in Live : /\ offerAsk'[y] = offerAsk[y] /\ offerBid'[y] = offerBid[y]
                            /\ offerIssuer'[y] = offerIssuer[y]
<1> DEFINE pair == <<ask.denom, bid.denom>>
           row  == [pair |-> pair, offer |-> o, ratio |-> ask.quant (/) bid.quant]
<1>1. /\ ask \in Value /\ bid \in Value /\ ask # None /\ bid # None
      /\ ask.quant \in Positive /\ bid.quant \in Positive
  BY AmountsAssumption, ValueAssumption DEF CommandValue, Value
<1>2. pair \in Pair /\ row \in IndexRow
  <2>1. pair \in Pair
    BY DEF OfferCreate
  <2>2. ask.quant (/) bid.quant \in Positive
    BY <1>1, OverPositive
  <2>. QED
    BY <2>1, <2>2 DEF IndexRow
<1>3. row.pair = pair /\ row.offer = o
  OBVIOUS
<1>4. u # None
  BY NoneAssumption
<1>5. /\ BookInv /\ OfferTablesAgree /\ MarketTypeOK
      /\ o \notin Live /\ Live \subseteq Offer
  BY DEF MarketInv, BookInv, OfferTablesAgree, OfferCreate, Live
<1>6. /\ offerIssuer' = [offerIssuer EXCEPT ![o] = u]
      /\ acctOffer' = acctOffer \cup {<<u, o>>}
      /\ offerBid' = [offerBid EXCEPT ![o] = bid]
      /\ offerAsk' = [offerAsk EXCEPT ![o] = ask]
      /\ offerIndex' = offerIndex \cup {row}
      /\ offersMinted' = offersMinted \cup {o}
      /\ signalled' = [signalled EXCEPT ![pair] = @ + 1]
      /\ traders' = traders
  BY DEF OfferCreate, OweSignal
<1>7. Live' = Live \cup {o}
  BY <1>4, <1>5, <1>6 DEF Live, MarketTypeOK
<1>8. \A y \in Offer : /\ offerAsk'[y] = IF y = o THEN ask ELSE offerAsk[y]
                       /\ offerBid'[y] = IF y = o THEN bid ELSE offerBid[y]
                       /\ offerIssuer'[y] = IF y = o THEN u ELSE offerIssuer[y]
  BY <1>5, <1>6 DEF MarketTypeOK
<1>9. MarketTypeOK'
  <2>1. /\ offerIssuer' \in [Offer -> Acct \cup {None}]
        /\ offerAsk' \in [Offer -> Value \cup {None}]
        /\ offerBid' \in [Offer -> Value \cup {None}]
        /\ acctOffer' \subseteq Acct \X Offer
        /\ offersMinted' \subseteq Offer
    BY <1>1, <1>5, <1>6 DEF MarketTypeOK
  <2>2. signalled' \in [Pair -> Nat] /\ traders' \in [Pair -> Nat]
    BY <1>2, <1>5, <1>6 DEF MarketTypeOK
  <2>3. offerIndex' \subseteq IndexRow
    BY <1>2, <1>5, <1>6 DEF MarketTypeOK
  <2>. QED
    BY <2>1, <2>2, <2>3 DEF MarketTypeOK
<1> HIDE DEF row
<1>10. \A y \in Offer : /\ offerAsk'[y] = None <=> y \notin Live'
                        /\ offerBid'[y] = None <=> y \notin Live'
  BY <1>1, <1>5, <1>7, <1>8 DEF OfferTablesAgree
<1>11. acctOffer' = {<<offerIssuer'[y], y>> : y \in Live'}
  BY <1>5, <1>6, <1>7, <1>8 DEF OfferTablesAgree
<1>12. {r.offer : r \in offerIndex'} = Live'
  BY <1>3, <1>5, <1>6, <1>7 DEF OfferTablesAgree
<1>13. \A r, s \in offerIndex' : r.offer = s.offer => r = s
  BY <1>3, <1>5, <1>6, IndexedOffer DEF OfferTablesAgree
<1>14. \A r \in offerIndex' : r.pair = PairOf(r.offer)'
  BY <1>3, <1>5, <1>6, <1>8, IndexedOffer DEF PairOf
<1>15. IsFiniteSet(offerIndex')
  BY <1>5, <1>6, FS_AddElement DEF BookInv
<1>16. Live' \subseteq offersMinted'
  BY <1>5, <1>6, <1>7 DEF BookInv
<1>. QED
  BY <1>5, <1>7, <1>8, <1>9, <1>10, <1>11, <1>12, <1>13, <1>14, <1>15, <1>16
     DEF BookInv, OfferTablesAgree

-----------------------------------------------------------------------------
(* A trade                                                                 *)

(* The values of the offers after the parts to of o and tx of x are        *)
(* executed.                                                               *)
After(values, o, to, x, tx) ==
  [y \in Offer |-> IF y = o THEN Rest(values[o], to)
                   ELSE IF y = x THEN Rest(values[x], tx) ELSE values[y]]

(* The portfolios after their issuers have been credited.                  *)
Paid(o, to, x, tx) ==
  [[acctValue EXCEPT ![offerIssuer[o]] = Deposit(@, Single(Part(offerAsk[o], to)))]
     EXCEPT ![offerIssuer[x]] = Deposit(@, Single(Part(offerAsk[x], tx)))]

(* The parts of a trade: one at least is the whole, neither is more.       *)
Parts(to, tx) ==
  /\ to \in Positive /\ tx \in Positive
  /\ to = One \/ to \prec One
  /\ tx = One \/ tx \prec One
  /\ to = One \/ tx = One

TradeOf(o, to, x, tx, done) ==
  /\ o \in Live /\ x \in Live /\ o # x
  /\ PairOf(x) = Opposite(PairOf(o)) /\ PairOf(o) \in Pair
  /\ \E r, s \in offerIndex : r.offer = o /\ s.offer = x /\ Crossing(r, s)
  /\ Thetas(o, x) = <<to, tx>> /\ Parts(to, tx)
  /\ done = {y \in {o, x} : (IF y = o THEN to ELSE tx) = One}
  /\ DestroyOffers(done, After(offerAsk, o, to, x, tx), After(offerBid, o, to, x, tx))
  /\ acctValue' = Paid(o, to, x, tx)
  /\ posted' = Moves("credit", offerIssuer[o], Single(Part(offerAsk[o], to)))
               \cup Moves("credit", offerIssuer[x], Single(Part(offerAsk[x], tx)))
               \cup {Event("offer_destroy", {}, y) : y \in done}

LEMMA ThetasParts ==
  ASSUME BookInv, NEW o \in Live, NEW x \in Live
  PROVE  /\ Thetas(o, x) = <<Thetas(o, x)[1], Thetas(o, x)[2]>>
         /\ Parts(Thetas(o, x)[1], Thetas(o, x)[2])
<1>1. /\ offerBid[o].quant \in Positive /\ offerAsk[x].quant \in Positive
      /\ offerBid[x].quant \in Positive /\ offerAsk[o].quant \in Positive
  BY LiveOffer DEF Value
<1>2. One \in Positive
  BY DEF One, Positive, Quantity
<1> DEFINE a == offerBid[o].quant (/) offerAsk[x].quant
           b == offerBid[x].quant (/) offerAsk[o].quant
<1>3. /\ a \in Positive /\ (offerBid[o].quant \prec offerAsk[x].quant => a \prec One)
      /\ b \in Positive /\ (offerBid[x].quant \prec offerAsk[o].quant => b \prec One)
  BY <1>1, OverPositive
<1>4. Thetas(o, x) = IF offerBid[o].quant \prec offerAsk[x].quant THEN <<One, a>>
                     ELSE IF offerBid[x].quant \prec offerAsk[o].quant THEN <<b, One>>
                     ELSE <<One, One>>
  BY DEF Thetas
<1> HIDE DEF a, b
<1>. QED
  BY <1>2, <1>3, <1>4 DEF Parts

LEMMA TradeIsOf ==
  ASSUME MarketInv, NEW p \in Pair, Trade(p)
  PROVE  \E o, x \in Live, to, tx \in Positive, done \in SUBSET Live : TradeOf(o, to, x, tx, done)
<1>1. BookInv
  BY DEF MarketInv
<1>2. PICK r \in Best(p), s \in Best(Opposite(p)) :
       LET o     == r.offer
           x     == s.offer
           theta == [y \in {o, x} |-> IF y = o THEN Thetas(o, x)[1] ELSE Thetas(o, x)[2]]
           asks  == [y \in Offer |-> IF y \in {o, x} THEN Rest(offerAsk[y], theta[y])
                                                     ELSE offerAsk[y]]
           bids  == [y \in Offer |-> IF y \in {o, x} THEN Rest(offerBid[y], theta[y])
                                                     ELSE offerBid[y]]
           gain  == [y \in {o, x} |-> Single(Part(offerAsk[y], theta[y]))]
           done  == {y \in {o, x} : bids[y].quant = Zero}
           paid  == [acctValue EXCEPT ![offerIssuer[o]] = Deposit(@, gain[o])]
       IN  /\ Crossing(r, s)
           /\ acctValue' = [paid EXCEPT ![offerIssuer[x]] = Deposit(@, gain[x])]
           /\ DestroyOffers(done, asks, bids)
           /\ posted' = Moves("credit", offerIssuer[o], gain[o])
                        \cup Moves("credit", offerIssuer[x], gain[x])
                        \cup {Event("offer_destroy", {}, y) : y \in done}
  BY DEF Trade
<1> DEFINE o     == r.offer
           x     == s.offer
           to    == Thetas(o, x)[1]
           tx    == Thetas(o, x)[2]
           theta == [y \in {o, x} |-> IF y = o THEN to ELSE tx]
           asks  == [y \in Offer |-> IF y \in {o, x} THEN Rest(offerAsk[y], theta[y])
                                                     ELSE offerAsk[y]]
           bids  == [y \in Offer |-> IF y \in {o, x} THEN Rest(offerBid[y], theta[y])
                                                     ELSE offerBid[y]]
           gain  == [y \in {o, x} |-> Single(Part(offerAsk[y], theta[y]))]
           done  == {y \in {o, x} : bids[y].quant = Zero}
           paid  == [acctValue EXCEPT ![offerIssuer[o]] = Deposit(@, gain[o])]
<1>3. /\ o \in Live /\ x \in Live /\ o # x
      /\ PairOf(o) \in Pair /\ PairOf(x) = Opposite(PairOf(o))
      /\ \E a, b \in offerIndex : a.offer = o /\ b.offer = x /\ Crossing(a, b)
  <2>1. /\ r \in offerIndex /\ r.pair = p
        /\ s \in offerIndex /\ s.pair = Opposite(p)
    BY DEF Best
  <2>2. p # Opposite(p)
    BY DEF Pair, Opposite
  <2>3. Crossing(r, s)
    BY <1>2
  <2>4. r.offer \in Live /\ s.offer \in Live /\ r.pair = PairOf(r.offer) /\ s.pair = PairOf(s.offer)
    BY <1>1, <2>1, IndexedOffer
  <2>. QED
    BY <2>1, <2>2, <2>3, <2>4
<1>4. /\ acctValue' = [paid EXCEPT ![offerIssuer[x]] = Deposit(@, gain[x])]
      /\ DestroyOffers(done, asks, bids)
      /\ posted' = Moves("credit", offerIssuer[o], gain[o])
                   \cup Moves("credit", offerIssuer[x], gain[x])
                   \cup {Event("offer_destroy", {}, y) : y \in done}
  BY <1>2
<1> HIDE DEF o, x
<1>5. Parts(to, tx) /\ Thetas(o, x) = <<to, tx>>
  BY <1>1, <1>3, ThetasParts
<1> HIDE DEF to, tx
<1>6. theta[o] = to /\ theta[x] = tx
  BY <1>3
<1>7. gain[o] = Single(Part(offerAsk[o], to)) /\ gain[x] = Single(Part(offerAsk[x], tx))
  BY <1>6
<1>8. asks = After(offerAsk, o, to, x, tx) /\ bids = After(offerBid, o, to, x, tx)
  BY <1>3, <1>6 DEF After
<1>9. done = {y \in {o, x} : (IF y = o THEN to ELSE tx) = One}
  <2>1. offerBid[o] \in Value /\ offerBid[x] \in Value /\ o \in Offer /\ x \in Offer
    BY <1>1, <1>3, LiveOffer
  <2>2. bids[o].quant = Zero <=> to = One
    BY <1>5, <1>8, <1>3, <2>1, PartAndRest DEF Parts, After
  <2>3. bids[x].quant = Zero <=> tx = One
    BY <1>5, <1>8, <1>3, <2>1, PartAndRest DEF Parts, After
  <2> HIDE DEF bids
  <2>. QED
    BY <1>3, <2>2, <2>3
<1>10. acctValue' = Paid(o, to, x, tx)
  BY <1>4, <1>7 DEF Paid
<1>11. posted' = Moves("credit", offerIssuer[o], Single(Part(offerAsk[o], to)))
                 \cup Moves("credit", offerIssuer[x], Single(Part(offerAsk[x], tx)))
                 \cup {Event("offer_destroy", {}, y) : y \in done}
  BY <1>4, <1>7
<1>12. TradeOf(o, to, x, tx, done)
  <2>1. DestroyOffers(done, After(offerAsk, o, to, x, tx), After(offerBid, o, to, x, tx))
    BY <1>4, <1>8
  <2> HIDE DEF done
  <2>. QED
    BY <1>3, <1>5, <1>9, <1>10, <1>11, <2>1 DEF TradeOf
<1>13. done \in SUBSET Live
  BY <1>3
<1> HIDE DEF done
<1>. QED
  BY <1>3, <1>5, <1>12, <1>13 DEF Parts

LEMMA TradeKeeps ==
  ASSUME MarketInv, NEW o, NEW x, NEW to, NEW tx, NEW done, TradeOf(o, to, x, tx, done),
         UNCHANGED threadVars
  PROVE  /\ BookInv'
         /\ Live' = Live \ done /\ done \in SUBSET {o, x} /\ done # {}
         /\ offerIndex' \subseteq offerIndex
<1>1. BookInv
  BY DEF MarketInv
<1>2. /\ o \in Live /\ x \in Live /\ o # x /\ Parts(to, tx)
      /\ done = {y \in {o, x} : (IF y = o THEN to ELSE tx) = One}
      /\ DestroyOffers(done, After(offerAsk, o, to, x, tx), After(offerBid, o, to, x, tx))
  BY DEF TradeOf
<1> DEFINE asks == After(offerAsk, o, to, x, tx)
           bids == After(offerBid, o, to, x, tx)
<1>3. /\ \A y \in Offer : asks[y] = IF y = o THEN Rest(offerAsk[o], to)
                                    ELSE IF y = x THEN Rest(offerAsk[x], tx) ELSE offerAsk[y]
      /\ \A y \in Offer : bids[y] = IF y = o THEN Rest(offerBid[o], to)
                                    ELSE IF y = x THEN Rest(offerBid[x], tx) ELSE offerBid[y]
  BY DEF After
<1>4. DestroyOffers(done, asks, bids)
  BY <1>2
<1> HIDE DEF asks, bids
<1>5. \A y \in Offer \ Live : asks[y] = None /\ bids[y] = None
  BY <1>1, <1>2, <1>3 DEF BookInv, OfferTablesAgree
<1>6. ASSUME NEW y \in Live \ done
      PROVE  /\ asks[y] \in Value /\ asks[y].denom = offerAsk[y].denom
             /\ bids[y] \in Value /\ bids[y].denom = offerBid[y].denom
  <2>1. offerAsk[y] \in Value /\ offerBid[y] \in Value /\ y \in Offer
    BY <1>1, LiveOffer
  <2>2. CASE y \in {o, x}
    <3>1. PICK theta \in Positive : /\ theta \prec One
                                    /\ asks[y] = Rest(offerAsk[y], theta)
                                    /\ bids[y] = Rest(offerBid[y], theta)
      BY <1>2, <1>3, <1>6, <2>1, <2>2 DEF Parts
    <3>. QED
      BY <2>1, <3>1, PartAndRest
  <2>3. CASE y \notin {o, x}
    BY <1>3, <2>1, <2>3
  <2>. QED
    BY <2>2, <2>3
<1>7. signalled' \in [Pair -> Nat] /\ traders' \in [Pair -> Nat]
  BY <1>1 DEF BookInv, OfferTablesAgree, MarketTypeOK, threadVars
<1>8. done \in SUBSET {o, x} /\ done # {} /\ done \in SUBSET Live
  BY <1>2 DEF Parts
<1>. QED
  BY <1>1, <1>4, <1>5, <1>6, <1>7, <1>8, DestroyKeeps

-----------------------------------------------------------------------------
(* The invariant                                                           *)

(* A list of one value.                                                    *)
LEMMA SingleValue ==
  ASSUME NEW v \in Value
  PROVE  /\ DOMAIN Single(v) = {v.denom} /\ v.denom \in Denom
         /\ Single(v)[v.denom] = v.quant /\ v.quant \in Positive
         /\ \A d \in DOMAIN Single(v) : Single(v)[d] \in Quantity
BY DEF Single, Value, Positive

LEMMA SingleIsList ==
  ASSUME NEW v \in CommandValue
  PROVE  Single(v) \in ValueLists /\ v \in Value
<1>1. v.denom \in Denom /\ v.quant \in Amounts /\ v \in Value
  BY AmountsAssumption DEF CommandValue, Value
<1>2. Single(v) \in [{v.denom} -> Amounts]
  BY <1>1 DEF Single
<1>3. {v.denom} \in (SUBSET Denom) \ {{}}
  BY <1>1
<1>. QED
  BY <1>1, <1>2, <1>3 DEF ValueLists

(* Transactions that change balances only keep the invariant of the ledger. *)
LEMMA BalancesOnly ==
  ASSUME LedgerInv, UNCHANGED <<acctVars, denomVars, noteVars>>,
         acctValue' \in [Acct -> Portfolio]
  PROVE  LedgerInv'
<1>1. TypeOK'
  BY DEF LedgerInv, TypeOK, acctVars, denomVars, noteVars
<1>2. NoteIndexExact' /\ IdentifiersSpent' /\ NotesHoldNoDebt' /\ NotesBacked'
  BY NotesUntouched DEF acctVars
<1>3. DenomIndexComplete' /\ ModulusOfExisting'
  BY DEF LedgerInv, acctVars, denomVars, DenomIndexComplete, ModulusOfExisting
<1>. QED
  BY <1>1, <1>2, <1>3 DEF LedgerInv

(* What leaves the tables of offers alone.                                 *)
LEMMA BookUntouched ==
  ASSUME BookInv, UNCHANGED bookVars, signalled' \in [Pair -> Nat], traders' \in [Pair -> Nat]
  PROVE  BookInv'
<1>1. /\ offerIssuer' = offerIssuer /\ offerAsk' = offerAsk /\ offerBid' = offerBid
      /\ acctOffer' = acctOffer /\ offerIndex' = offerIndex /\ offersMinted' = offersMinted
  BY DEF bookVars
<1>2. Live' = Live /\ MarketTypeOK'
  BY <1>1 DEF BookInv, OfferTablesAgree, Live, MarketTypeOK
<1>3. \A r \in offerIndex : PairOf(r.offer)' = PairOf(r.offer)
  BY <1>1 DEF PairOf
<1>. QED
  BY <1>1, <1>2, <1>3 DEF BookInv, OfferTablesAgree

(* The balances after a trade.                                             *)
LEMMA PaidPortfolios ==
  ASSUME MarketInv, NEW o \in Live, NEW x \in Live, NEW to \in Positive, NEW tx \in Positive
  PROVE  Paid(o, to, x, tx) \in [Acct -> Portfolio]
<1>1. acctValue \in [Acct -> Portfolio] /\ BookInv
  BY DEF MarketInv, LedgerInv, TypeOK
<1>2. ASSUME NEW y \in Live, NEW theta \in Positive, NEW q \in Portfolio
      PROVE  Deposit(q, Single(Part(offerAsk[y], theta))) \in Portfolio
  <2>1. Part(offerAsk[y], theta) \in Value
    BY <1>1, LiveOffer, PartAndRest
  <2>. QED
    BY <2>1, SingleValue, DepositPortfolio
<1>3. offerIssuer[o] \in Acct /\ offerIssuer[x] \in Acct
  BY <1>1, LiveOffer
<1> DEFINE paid == [acctValue EXCEPT ![offerIssuer[o]] = Deposit(@, Single(Part(offerAsk[o], to)))]
<1>4. paid \in [Acct -> Portfolio]
  BY <1>1, <1>2, <1>3
<1>5. Paid(o, to, x, tx) = [paid EXCEPT ![offerIssuer[x]] = Deposit(@, Single(Part(offerAsk[x], tx)))]
  BY DEF Paid
<1> HIDE DEF paid
<1>. QED
  BY <1>2, <1>3, <1>4, <1>5

(* Cancelling an offer.                                                    *)
LEMMA CancelKeeps ==
  ASSUME MarketInv, NEW u \in Acct, NEW o \in Offer, OfferDestroy(u, o)
  PROVE  /\ MarketInv' /\ o \in Live /\ Live' = Live \ {o} /\ offerIndex' \subseteq offerIndex
         /\ \A y \in Live \ {o} : offerBid'[y] = offerBid[y] /\ offerAsk'[y] = offerAsk[y]
<1>1. /\ BookInv /\ LedgerInv /\ o \in Live
      /\ DestroyOffers({o}, offerAsk, offerBid)
      /\ acctValue' = [acctValue EXCEPT ![u] = Deposit(@, Refund(o))]
      /\ UNCHANGED <<acctVars, denomVars, noteVars, threadVars>>
  BY DEF OfferDestroy, MarketInv, Live
<1>2. acctValue' \in [Acct -> Portfolio]
  <2>1. acctValue \in [Acct -> Portfolio]
    BY <1>1 DEF LedgerInv, TypeOK
  <2>2. Deposit(acctValue[u], Refund(o)) \in Portfolio
    BY <1>1, <2>1, LiveOffer, SingleValue, DepositPortfolio DEF Refund
  <2>. QED
    BY <1>1, <2>1, <2>2
<1>3. signalled' \in [Pair -> Nat] /\ traders' \in [Pair -> Nat]
  BY <1>1 DEF BookInv, OfferTablesAgree, MarketTypeOK, threadVars
<1>4. \A y \in Offer \ Live : offerAsk[y] = None /\ offerBid[y] = None
  BY <1>1 DEF BookInv, OfferTablesAgree
<1>5. BookInv' /\ Live' = Live \ {o} /\ offerIndex' \subseteq offerIndex
  BY <1>1, <1>3, <1>4, LiveOffer, DestroyKeeps
<1>6. LedgerInv'
  BY <1>1, <1>2, BalancesOnly
<1>7. \A y \in Live \ {o} : offerBid'[y] = offerBid[y] /\ offerAsk'[y] = offerAsk[y]
  BY <1>1, LiveOffer DEF DestroyOffers
<1>. QED
  BY <1>1, <1>5, <1>6, <1>7 DEF MarketInv

(* One step per command and per step of a thread.                          *)
LEMMA MarketStep == MarketInv /\ [Next]_vars => MarketInv'
<1> SUFFICES ASSUME MarketInv, [Next]_vars PROVE MarketInv'
  OBVIOUS
<1>0. /\ LedgerInv /\ BookInv /\ acctPromise \subseteq Acct
      /\ acctValue \in [Acct -> Portfolio]
      /\ signalled \in [Pair -> Nat] /\ traders \in [Pair -> Nat]
  BY DEF MarketInv, LedgerInv, TypeOK, BookInv, OfferTablesAgree, MarketTypeOK
<1>1. CASE LedgerCommand
  <2>1. LedgerInv'
    BY <1>0, <1>1, LedgerStep DEF LedgerCommand
  <2>2. BookInv'
    BY <1>0, <1>1, BookUntouched DEF LedgerCommand, threadVars
  <2>. QED
    BY <2>1, <2>2 DEF MarketInv
<1>2. ASSUME NEW u \in acctPromise, NEW o \in Offer, NEW ask \in CommandValue,
             NEW bid \in CommandValue, OfferCreate(u, ask, bid, o)
      PROVE  MarketInv'
  <2>1. u \in Acct
    BY <1>0
  <2>2. acctValue' \in [Acct -> Portfolio]
    <3>1. acctValue' = [acctValue EXCEPT ![u] = Withdraw(@, Single(bid))]
      BY <1>2 DEF OfferCreate
    <3>2. Withdraw(acctValue[u], Single(bid)) \in Portfolio
      BY <1>0, <2>1, SingleIsList, SingleValue, WithdrawPortfolio
    <3>. QED
      BY <1>0, <3>1, <3>2
  <2>3. LedgerInv'
    BY <1>0, <1>2, <2>2, BalancesOnly DEF OfferCreate
  <2>4. BookInv'
    BY <1>2, <2>1, CreateKeeps
  <2>. QED
    BY <2>3, <2>4 DEF MarketInv
<1>3. ASSUME NEW u \in acctPromise, NEW o \in Offer, OfferDestroy(u, o) PROVE MarketInv'
  BY <1>0, <1>3, CancelKeeps
<1>4. ASSUME NEW p \in Pair, MarketSignal(p) \/ TraderExit(p) PROVE MarketInv'
  <2>1. signalled' \in [Pair -> Nat] /\ traders' \in [Pair -> Nat]
    BY <1>0, <1>4 DEF MarketSignal, TraderExit
  <2>2. UNCHANGED bookVars /\ UNCHANGED ledgerVars
    BY <1>4 DEF MarketSignal, TraderExit
  <2>3. UNCHANGED <<acctVars, denomVars, noteVars>> /\ acctValue' = acctValue
    BY <2>2 DEF ledgerVars
  <2>4. LedgerInv'
    BY <1>0, <2>3, BalancesOnly
  <2>. QED
    BY <1>0, <2>1, <2>2, <2>4, BookUntouched DEF MarketInv
<1>5. ASSUME NEW p \in Pair, Trade(p) PROVE MarketInv'
  <2>1. PICK o, x \in Live, to, tx \in Positive, done \in SUBSET Live :
               TradeOf(o, to, x, tx, done)
    BY <1>5, TradeIsOf
  <2>2. UNCHANGED <<acctVars, denomVars, noteVars>> /\ UNCHANGED threadVars
    BY <1>5 DEF Trade
  <2>3. BookInv'
    BY <2>1, <2>2, TradeKeeps
  <2>4. acctValue' \in [Acct -> Portfolio]
    BY <2>1, PaidPortfolios DEF TradeOf
  <2>5. LedgerInv'
    BY <1>0, <2>2, <2>4, BalancesOnly
  <2>. QED
    BY <2>3, <2>5 DEF MarketInv
<1>6. CASE Restart \/ UNCHANGED vars
  <2>1. UNCHANGED bookVars /\ UNCHANGED ledgerVars
    BY <1>6 DEF Restart, vars
  <2>2. signalled' \in [Pair -> Nat] /\ traders' \in [Pair -> Nat]
    BY <1>0, <1>6 DEF Restart, vars, threadVars
  <2>3. UNCHANGED <<acctVars, denomVars, noteVars>> /\ acctValue' = acctValue
    BY <2>1 DEF ledgerVars
  <2>4. LedgerInv'
    BY <1>0, <2>3, BalancesOnly
  <2>. QED
    BY <1>0, <2>1, <2>2, <2>4, BookUntouched DEF MarketInv
<1>. QED
  BY <1>1, <1>2, <1>3, <1>4, <1>5, <1>6 DEF Next, Running, OfferCommand, TraderStep

LEMMA MarketInit == Init => MarketInv
<1> SUFFICES ASSUME Init PROVE MarketInv
  OBVIOUS
<1>1. LedgerInv
  BY LedgerInvInit DEF Init
<1>2. MarketTypeOK /\ Live = {}
  BY DEF Init, BookInit, MarketTypeOK, Live
<1>3. OfferTablesAgree /\ IsFiniteSet(offerIndex)
  BY <1>2, FS_EmptySet DEF Init, BookInit, OfferTablesAgree
<1>. QED
  BY <1>1, <1>2, <1>3 DEF MarketInv, BookInv

LEMMA MarketInvariant == Spec => []MarketInv
BY MarketInit, MarketStep, PTL DEF Spec

(* The tables of an offer agree, through any creations, cancellations and  *)
(* partial fills, whatever becomes of the accounts and denominations that  *)
(* the offers are about, and through restarts of barterd.                  *)
THEOREM OfferTables == Spec => []OfferTablesAgree
<1>1. MarketInv => OfferTablesAgree
  BY DEF MarketInv, BookInv
<1>. QED
  BY <1>1, MarketInvariant, PTL

(* What holds of the tables of the ledger holds with offers and traders.   *)
THEOREM LedgerUnderMarket == Spec => [](TypeOK /\ NoteIndexExact /\ DenomIndexComplete /\ NotesBacked)
<1>1. MarketInv => TypeOK /\ NoteIndexExact /\ DenomIndexComplete /\ NotesBacked
  BY DEF MarketInv, LedgerInv
<1>. QED
  BY <1>1, MarketInvariant, PTL

-----------------------------------------------------------------------------
(* Crossed books                                                           *)

(* A pair that has offers has a best one.                                  *)
LEMMA BestExists ==
  ASSUME BookInv, NEW p \in Pair, \E r \in offerIndex : r.pair = p
  PROVE  \E r \in offerIndex : r \in Best(p)
<1> DEFINE S == {r \in offerIndex : r.pair = p}
           f == [r \in S |-> r.ratio]
<1>1. IsFiniteSet(S) /\ S # {}
  BY FS_Subset DEF BookInv
<1>2. f \in [S -> Quantity]
  BY IndexedOffer, PositiveParts
<1> HIDE DEF f
<1>3. \E m \in S : \A y \in S : f[m] \preceq f[y]
  BY <1>1, <1>2, LeastOfFinite
<1>. QED
  BY <1>3 DEF f, Best

(* When offers go, no book becomes crossed that was not: the best offers   *)
(* that are left are no better than those there were.                      *)
LEMMA CrossedBefore ==
  ASSUME BookInv, offerIndex' \subseteq offerIndex, NEW p \in Pair, Crossed(p)'
  PROVE  Crossed(p)
<1>1. PICK r \in offerIndex', s \in offerIndex' :
        r.pair = p /\ s.pair = Opposite(p) /\ Crossing(r, s)
  BY DEF Crossed, Best, Crossing
<1>2. Opposite(p) \in Pair
  BY DEF Opposite, Pair
<1>3. PICK a \in offerIndex : a \in Best(p)
  BY <1>1, BestExists
<1>4. PICK b \in offerIndex : b \in Best(Opposite(p))
  BY <1>1, <1>2, BestExists
<1>5. a.ratio \preceq r.ratio /\ b.ratio \preceq s.ratio
  BY <1>1, <1>3, <1>4 DEF Best
<1>6. /\ a.ratio \in Positive /\ b.ratio \in Positive
      /\ r.ratio \in Positive /\ s.ratio \in Positive
  BY <1>1, IndexedOffer
<1>7. (a.ratio (\X) b.ratio) \preceq (r.ratio (\X) s.ratio)
  BY <1>5, <1>6, TimesMonotone
<1>8. /\ a.ratio (\X) b.ratio \in Quantity /\ r.ratio (\X) s.ratio \in Quantity
      /\ One \in Quantity
  BY <1>6, TimesPositive, PositiveParts DEF One, Quantity
<1>9. Crossing(a, b)
  BY <1>1, <1>7, <1>8, TotalOrder DEF Crossing
<1>. QED
  BY <1>3, <1>4, <1>9 DEF Crossed

(* A book is crossed seen from either side.                                *)
LEMMA CrossedOpposite ==
  ASSUME BookInv, NEW p \in Pair
  PROVE  /\ Opposite(p) \in Pair /\ Opposite(Opposite(p)) = p
         /\ Crossed(Opposite(p)) <=> Crossed(p)
<1>1. Opposite(p) \in Pair /\ Opposite(Opposite(p)) = p
  BY DEF Opposite, Pair
<1>2. ASSUME NEW r \in offerIndex, NEW s \in offerIndex PROVE Crossing(r, s) <=> Crossing(s, r)
  <2>1. r.ratio (\X) s.ratio = s.ratio (\X) r.ratio
    BY IndexedOffer, TimesPositive
  <2>. QED
    BY <2>1 DEF Crossing
<1>3. \A q : Best(q) \subseteq offerIndex
  BY DEF Best
<1>. QED
  BY <1>1, <1>2, <1>3 DEF Crossed

(* barterd as long as it runs.                                             *)
RunningSpec == Init /\ [][Running]_vars

Attended(p) == \E q \in {p, Opposite(p)} : signalled[q] > 0 \/ traders[q] > 0

LEMMA AttendedStep ==
  ASSUME MarketInv, CrossedBookAttended, [Running]_vars
  PROVE  CrossedBookAttended'
<1>0. /\ BookInv /\ acctPromise \subseteq Acct
      /\ signalled \in [Pair -> Nat] /\ traders \in [Pair -> Nat]
  BY DEF MarketInv, LedgerInv, TypeOK, BookInv, OfferTablesAgree, MarketTypeOK
<1> SUFFICES ASSUME NEW p \in Pair, Crossed(p)' PROVE Attended(p)'
  BY DEF CrossedBookAttended, Attended
<1>1. Crossed(p) => Attended(p)
  BY DEF CrossedBookAttended, Attended
<1>2. Opposite(p) \in Pair /\ Opposite(Opposite(p)) = p /\ (Crossed(Opposite(p)) <=> Crossed(p))
  BY <1>0, CrossedOpposite
<1>3. ASSUME offerIndex' \subseteq offerIndex, UNCHANGED threadVars PROVE Attended(p)'
  BY <1>0, <1>1, <1>3, CrossedBefore DEF Attended, threadVars
<1>4. CASE LedgerCommand \/ UNCHANGED vars
  BY <1>3, <1>4 DEF LedgerCommand, vars, bookVars
<1>5. ASSUME NEW u \in acctPromise, NEW o \in Offer, NEW ask \in CommandValue,
             NEW bid \in CommandValue, OfferCreate(u, ask, bid, o)
      PROVE  Attended(p)'
  <2> DEFINE pair == <<ask.denom, bid.denom>>
             row  == [pair |-> pair, offer |-> o, ratio |-> ask.quant (/) bid.quant]
  <2>1. /\ offerIndex' = offerIndex \cup {row} /\ pair \in Pair
        /\ signalled' = [signalled EXCEPT ![pair] = @ + 1] /\ traders' = traders
    BY <1>5 DEF OfferCreate, OweSignal
  <2>2. row.pair = pair
    OBVIOUS
  <2> HIDE DEF row, pair
  <2>3. CASE pair \in {p, Opposite(p)}
    BY <1>0, <2>1, <2>3 DEF Attended
  <2>4. CASE pair \notin {p, Opposite(p)}
    <3>1. ASSUME NEW q \in {p, Opposite(p)} PROVE Best(q)' = Best(q)
      BY <2>1, <2>2, <2>4, <3>1 DEF Best
    <3>2. Crossed(p)
      BY <3>1 DEF Crossed, Crossing
    <3>3. \A q \in {p, Opposite(p)} : signalled'[q] = signalled[q] /\ traders'[q] = traders[q]
      BY <1>0, <1>2, <2>1, <2>4
    <3>. QED
      BY <1>1, <3>2, <3>3 DEF Attended
  <2>. QED
    BY <2>3, <2>4
<1>6. ASSUME NEW u \in acctPromise, NEW o \in Offer, OfferDestroy(u, o) PROVE Attended(p)'
  BY <1>0, <1>3, <1>6, CancelKeeps DEF OfferDestroy
<1>7. ASSUME NEW q \in Pair, MarketSignal(q) PROVE Attended(p)'
  <2>1. /\ offerIndex' = offerIndex /\ signalled[q] > 0
        /\ signalled' = [signalled EXCEPT ![q] = @ - 1]
        /\ traders' = [traders EXCEPT ![q] = @ + 1]
    BY <1>7 DEF MarketSignal, bookVars
  <2>2. Attended(p)
    BY <1>0, <1>1, <2>1, CrossedBefore
  <2>3. PICK z \in {p, Opposite(p)} : signalled[z] > 0 \/ traders[z] > 0
    BY <2>2 DEF Attended
  <2>4. signalled'[z] > 0 \/ traders'[z] > 0
    BY <1>0, <1>2, <2>1, <2>3
  <2>. QED
    BY <2>4 DEF Attended
<1>8. ASSUME NEW q \in Pair, TraderExit(q) PROVE Attended(p)'
  <2>1. /\ offerIndex' = offerIndex /\ ~Crossed(q)
        /\ signalled' = signalled /\ traders' = [traders EXCEPT ![q] = @ - 1]
    BY <1>8 DEF TraderExit, bookVars
  <2>2. Crossed(p) /\ Crossed(Opposite(p))
    BY <1>0, <1>2, <2>1, CrossedBefore
  <2>3. q \notin {p, Opposite(p)}
    BY <2>1, <2>2
  <2>4. \A z \in {p, Opposite(p)} : signalled'[z] = signalled[z] /\ traders'[z] = traders[z]
    BY <1>0, <1>2, <2>1, <2>3
  <2>. QED
    BY <1>1, <2>2, <2>4 DEF Attended
<1>9. ASSUME NEW q \in Pair, Trade(q) PROVE Attended(p)'
  <2>1. PICK o, x \in Live, to, tx \in Positive, done \in SUBSET Live :
               TradeOf(o, to, x, tx, done)
    BY <1>9, TradeIsOf
  <2>2. UNCHANGED threadVars
    BY <1>9 DEF Trade
  <2>. QED
    BY <1>3, <2>1, <2>2, TradeKeeps
<1>. QED
  BY <1>4, <1>5, <1>6, <1>7, <1>8, <1>9 DEF Running, OfferCommand, TraderStep

(* While barterd runs, no crossed book is left alone: a pair whose best    *)
(* offers cross has a trader, or a shell about to start one, although      *)
(* shells signal after their commits and traders end meanwhile.            *)
THEOREM CrossedBooksAttended == RunningSpec => []CrossedBookAttended
<1>1. Init => CrossedBookAttended
  BY DEF Init, BookInit, CrossedBookAttended, Crossed, Best
<1>2. RunningSpec => []MarketInv
  <2>1. [Running]_vars => [Next]_vars
    BY DEF Next
  <2>. QED
    BY <2>1, MarketInit, MarketStep, PTL DEF RunningSpec
<1>3. MarketInv /\ CrossedBookAttended /\ [Running]_vars => CrossedBookAttended'
  BY AttendedStep
<1>. QED
  BY <1>1, <1>2, <1>3, PTL DEF RunningSpec

-----------------------------------------------------------------------------
(* What a step does to offers                                              *)

(* What changes balances or offers.                                        *)
LEMMA MarketActions ==
  ASSUME MarketInv, [Next]_vars
  PROVE  \/ LedgerCommand
         \/ \E u \in Acct, o \in Offer, ask, bid \in CommandValue : OfferCreate(u, ask, bid, o)
         \/ \E u \in Acct, o \in Offer : OfferDestroy(u, o)
         \/ \E o, x \in Live, to, tx \in Positive, done \in SUBSET Live :
              /\ TradeOf(o, to, x, tx, done)
              /\ UNCHANGED <<acctVars, denomVars, noteVars, threadVars>>
              /\ \E p \in Pair : Trade(p)
         \/ UNCHANGED ledgerVars /\ UNCHANGED bookVars
<1>0. acctPromise \subseteq Acct
  BY DEF MarketInv, LedgerInv, TypeOK
<1>1. CASE OfferCommand
  BY <1>0, <1>1 DEF OfferCommand
<1>2. ASSUME NEW p \in Pair, Trade(p)
      PROVE  \E o, x \in Live, to, tx \in Positive, done \in SUBSET Live :
               /\ TradeOf(o, to, x, tx, done)
               /\ UNCHANGED <<acctVars, denomVars, noteVars, threadVars>>
               /\ \E q \in Pair : Trade(q)
  <2>1. UNCHANGED <<acctVars, denomVars, noteVars, threadVars>> /\ \E q \in Pair : Trade(q)
    BY <1>2 DEF Trade
  <2>. QED
    BY <1>2, <2>1, TradeIsOf
<1>3. ASSUME \/ \E p \in Pair : MarketSignal(p) \/ TraderExit(p)
             \/ Restart
             \/ UNCHANGED vars
      PROVE  UNCHANGED ledgerVars /\ UNCHANGED bookVars
  BY <1>3 DEF MarketSignal, TraderExit, Restart, vars
<1>. QED
  BY <1>1, <1>2, <1>3 DEF Next, Running, TraderStep

(* What a trade takes of either of its offers.                             *)
LEMMA TradeOfOffer ==
  ASSUME BookInv, NEW o, NEW x, NEW to, NEW tx, NEW done, TradeOf(o, to, x, tx, done),
         NEW y \in {o, x}, NEW theta, theta = IF y = o THEN to ELSE tx
  PROVE  /\ Bidden(y) = offerBid[y].quant /\ Bidden(y) \in Positive
         /\ Asked(y) = offerAsk[y].quant /\ Asked(y) \in Positive
         /\ Bidden(y)' = Bidden(y) (-) (Bidden(y) (\X) theta)
         /\ Asked(y)' = Asked(y) (-) (Asked(y) (\X) theta)
         /\ Bidden(y)' \prec Bidden(y)
         /\ theta \in Positive /\ (theta = One \/ theta \prec One)
         /\ y \in done <=> theta = One
<1>1. /\ o \in Live /\ x \in Live /\ o # x /\ Parts(to, tx)
      /\ done = {z \in {o, x} : (IF z = o THEN to ELSE tx) = One}
      /\ DestroyOffers(done, After(offerAsk, o, to, x, tx), After(offerBid, o, to, x, tx))
  BY DEF TradeOf
<1>2. /\ theta \in Positive /\ (theta = One \/ theta \prec One)
      /\ y \in done <=> theta = One
  BY <1>1 DEF Parts
<1>3. /\ y \in Offer /\ offerAsk[y] \in Value /\ offerBid[y] \in Value
      /\ offerAsk[y] # None /\ offerBid[y] # None
      /\ offerAsk[y].quant \in Positive /\ offerBid[y].quant \in Positive
  BY <1>1, LiveOffer DEF Value
<1>4. /\ offerBid'[y] = IF y \in done THEN None ELSE Rest(offerBid[y], theta)
      /\ offerAsk'[y] = IF y \in done THEN None ELSE Rest(offerAsk[y], theta)
  BY <1>1, <1>3 DEF DestroyOffers, After
<1>5. Bidden(y) = offerBid[y].quant /\ Asked(y) = offerAsk[y].quant
  BY <1>3 DEF Bidden, Asked
<1>6. CASE theta = One
  <2>1. /\ offerBid[y].quant (-) (offerBid[y].quant (\X) One) = Zero
        /\ offerAsk[y].quant (-) (offerAsk[y].quant (\X) One) = Zero
    BY <1>3, RestOfPart DEF One, Positive, Quantity
  <2>2. Bidden(y)' = Zero /\ Asked(y)' = Zero
    BY <1>2, <1>4, <1>6 DEF Bidden, Asked
  <2>3. Zero \prec offerBid[y].quant
    BY <1>3 DEF Zero, \prec, Positive, Quantity
  <2>. QED
    BY <1>2, <1>3, <1>5, <1>6, <2>1, <2>2, <2>3
<1>7. CASE theta # One
  <2>1. /\ Rest(offerBid[y], theta) \in Value /\ Rest(offerAsk[y], theta) \in Value
        /\ Rest(offerBid[y], theta).quant = offerBid[y].quant (-) (offerBid[y].quant (\X) theta)
        /\ Rest(offerAsk[y], theta).quant = offerAsk[y].quant (-) (offerAsk[y].quant (\X) theta)
        /\ Rest(offerBid[y], theta).quant \prec offerBid[y].quant
    BY <1>2, <1>3, <1>7, PartAndRest
  <2>2. /\ Bidden(y)' = Rest(offerBid[y], theta).quant
        /\ Asked(y)' = Rest(offerAsk[y], theta).quant
    BY <1>2, <1>4, <1>7, <2>1, ValueAssumption DEF Bidden, Asked
  <2>. QED
    BY <1>2, <1>3, <1>5, <2>1, <2>2
<1>. QED
  BY <1>6, <1>7

(* An offer that is not touched is not executed.                           *)
LEMMA KeptNotExecuted ==
  ASSUME BookInv, NEW o \in Live, offerBid'[o] = offerBid[o]
  PROVE  ~Executed(o)
<1>1. Bidden(o)' = Bidden(o)
  BY DEF Bidden
<1>2. Bidden(o) \in Quantity
  <2>1. offerBid[o] # None /\ offerBid[o].quant \in Positive
    BY LiveOffer DEF Value
  <2>. QED
    BY <2>1, PositiveParts DEF Bidden
<1>. QED
  BY <1>1, <1>2, NotLessThanItself DEF Executed

(* A trade executes its two offers and no other.                           *)
LEMMA TradeExecutes ==
  ASSUME BookInv, NEW o, NEW x, NEW to, NEW tx, NEW done, TradeOf(o, to, x, tx, done),
         NEW y \in Live
  PROVE  Executed(y) <=> y \in {o, x}
<1>1. CASE y \in {o, x}
  <2>1. PICK theta : theta = IF y = o THEN to ELSE tx
    OBVIOUS
  <2>2. Bidden(y)' \prec Bidden(y)
    BY <1>1, <2>1, TradeOfOffer
  <2>3. ASSUME NEW u \in Acct, Event("offer_destroy", {u}, y) \in posted' PROVE FALSE
    <3>1. ASSUME NEW w, NEW v PROVE Event("offer_destroy", {u}, y) \notin Moves("credit", w, v)
      BY DEF Moves, Event
    <3>2. Event("offer_destroy", {u}, y) \notin {Event("offer_destroy", {}, z) : z \in done}
      BY DEF Event
    <3>. QED
      BY <2>3, <3>1, <3>2 DEF TradeOf
  <2>. QED
    BY <1>1, <2>2, <2>3 DEF Executed
<1>2. CASE y \notin {o, x}
  <2>1. offerBid'[y] = offerBid[y]
    BY <1>2, LiveOffer DEF TradeOf, DestroyOffers, After
  <2>. QED
    BY <1>2, <2>1, KeptNotExecuted
<1>. QED
  BY <1>1, <1>2

(* Whatever executes an offer is a trade.                                  *)
LEMMA ExecutedIsTrade ==
  ASSUME MarketInv, [Next]_vars, NEW y \in Live, Executed(y)
  PROVE  \E o, x \in Live, to, tx \in Positive, done \in SUBSET Live :
           TradeOf(o, to, x, tx, done)
<1>0. BookInv
  BY DEF MarketInv
<1>1. CASE LedgerCommand \/ UNCHANGED bookVars
  BY <1>0, <1>1, KeptNotExecuted DEF LedgerCommand, bookVars
<1>2. ASSUME NEW u \in Acct, NEW o \in Offer, NEW ask \in CommandValue, NEW bid \in CommandValue,
             OfferCreate(u, ask, bid, o)
      PROVE  FALSE
  BY <1>0, <1>2, CreateKeeps, KeptNotExecuted
<1>3. ASSUME NEW u \in Acct, NEW o \in Offer, OfferDestroy(u, o) PROVE FALSE
  <2>1. CASE y # o
    BY <1>0, <1>3, <2>1, CancelKeeps, KeptNotExecuted
  <2>2. CASE y = o
    <3>1. Event("offer_destroy", {offerIssuer[y]}, y) \in posted' /\ offerIssuer[y] \in Acct
      BY <1>0, <1>3, <2>2, LiveOffer DEF OfferDestroy
    <3>. QED
      BY <3>1 DEF Executed
  <2>. QED
    BY <2>1, <2>2
<1>. QED
  BY <1>1, <1>2, <1>3, MarketActions

(* Every trade executes one of its two offers whole, which is then gone:   *)
(* trader::execute takes the part that the smaller of the two allows, so a *)
(* trader cannot go on for ever with ever smaller parts.                   *)
THEOREM TradesFillOffers == Spec => TradeFillsAnOffer
<1>1. ASSUME MarketInv, [Next]_vars, NEW y \in Live, Executed(y)
      PROVE  \E o \in Live : Executed(o) /\ o \notin Live'
  <2>1. PICK o \in Live, x \in Live, to \in Positive, tx \in Positive, done \in SUBSET Live :
               TradeOf(o, to, x, tx, done)
    BY <1>1, ExecutedIsTrade
  <2>2. BookInv /\ Parts(to, tx) /\ done = {z \in {o, x} : (IF z = o THEN to ELSE tx) = One}
        /\ o # x
    BY <1>1, <2>1 DEF MarketInv, TradeOf
  <2>3. PICK z \in {o, x} : z \in done
    BY <2>2 DEF Parts
  <2>4. z \notin Live'
    BY <2>1, <2>3 DEF TradeOf, DestroyOffers, Live
  <2>. QED
    BY <2>1, <2>2, <2>3, <2>4, TradeExecutes
<1>2. MarketInv /\ [Next]_vars
        => [(\E o \in Live : Executed(o)) => \E o \in Live : Executed(o) /\ o \notin Live']_offerBid
  BY <1>1
<1>. QED
  BY <1>2, MarketInvariant, PTL DEF Spec, TradeFillsAnOffer

-----------------------------------------------------------------------------
(* What a step does to balances                                            *)

(* What a trade credits, balance by balance.  The two issuers may be the   *)
(* same, the two denominations never are.                                  *)
Gain(y, theta) == offerAsk[y].quant (\X) theta

LEMMA DepositPart ==
  ASSUME NEW v \in Value, NEW theta, NEW q, NEW d \in Denom
  PROVE  Deposit(q, Single(Part(v, theta)))[d] =
           IF d = v.denom THEN q[d] (+) (v.quant (\X) theta) ELSE q[d]
BY DEF Deposit, Single, Part, Value

LEMMA TradeBalances ==
  ASSUME MarketInv, NEW o, NEW x, NEW to, NEW tx, NEW done, TradeOf(o, to, x, tx, done)
  PROVE  /\ offerAsk[o].denom # offerAsk[x].denom
         /\ offerBid[o].denom = offerAsk[x].denom /\ offerBid[x].denom = offerAsk[o].denom
         /\ Gain(o, to) \in Positive /\ Gain(x, tx) \in Positive
         /\ offerIssuer[o] \in Acct /\ offerIssuer[x] \in Acct
         /\ \A u \in Acct, d \in Denom :
              acctValue'[u][d] =
                IF u = offerIssuer[o] /\ d = offerAsk[o].denom
                  THEN acctValue[u][d] (+) Gain(o, to)
                ELSE IF u = offerIssuer[x] /\ d = offerAsk[x].denom
                  THEN acctValue[u][d] (+) Gain(x, tx)
                ELSE acctValue[u][d]
<1>1. /\ BookInv /\ acctValue \in [Acct -> Portfolio]
      /\ o \in Live /\ x \in Live /\ to \in Positive /\ tx \in Positive
      /\ PairOf(x) = Opposite(PairOf(o)) /\ PairOf(o) \in Pair
      /\ acctValue' = Paid(o, to, x, tx)
  BY DEF MarketInv, LedgerInv, TypeOK, TradeOf, Parts
<1>2. /\ offerAsk[o].denom # offerAsk[x].denom
      /\ offerBid[o].denom = offerAsk[x].denom /\ offerBid[x].denom = offerAsk[o].denom
  BY <1>1 DEF PairOf, Opposite, Pair
<1>3. /\ offerIssuer[o] \in Acct /\ offerAsk[o] \in Value /\ offerAsk[o].quant \in Positive
      /\ offerIssuer[x] \in Acct /\ offerAsk[x] \in Value /\ offerAsk[x].quant \in Positive
  BY <1>1, LiveOffer DEF Value
<1>4. Gain(o, to) \in Positive /\ Gain(x, tx) \in Positive
  BY <1>1, <1>3, TimesPositive DEF Gain
<1>5. PICK a, b : /\ a = Single(Part(offerAsk[o], to)) /\ b = Single(Part(offerAsk[x], tx))
  OBVIOUS
<1>6. acctValue' = [[acctValue EXCEPT ![offerIssuer[o]] = Deposit(@, a)]
                      EXCEPT ![offerIssuer[x]] = Deposit(@, b)]
  BY <1>1, <1>5 DEF Paid
<1>7. ASSUME NEW u \in Acct
      PROVE  acctValue'[u] =
               IF u = offerIssuer[x]
                 THEN IF u = offerIssuer[o] THEN Deposit(Deposit(acctValue[u], a), b)
                      ELSE Deposit(acctValue[u], b)
               ELSE IF u = offerIssuer[o] THEN Deposit(acctValue[u], a) ELSE acctValue[u]
  BY <1>1, <1>3, <1>6
<1>8. ASSUME NEW q, NEW d \in Denom
      PROVE  /\ Deposit(q, a)[d] = IF d = offerAsk[o].denom THEN q[d] (+) Gain(o, to) ELSE q[d]
             /\ Deposit(q, b)[d] = IF d = offerAsk[x].denom THEN q[d] (+) Gain(x, tx) ELSE q[d]
  <2>1. /\ Deposit(q, Single(Part(offerAsk[o], to)))[d]
             = IF d = offerAsk[o].denom THEN q[d] (+) Gain(o, to) ELSE q[d]
        /\ Deposit(q, Single(Part(offerAsk[x], tx)))[d]
             = IF d = offerAsk[x].denom THEN q[d] (+) Gain(x, tx) ELSE q[d]
    <3>1. Deposit(q, Single(Part(offerAsk[o], to)))[d]
             = IF d = offerAsk[o].denom THEN q[d] (+) Gain(o, to) ELSE q[d]
      BY <1>3, DepositPart DEF Gain
    <3>2. Deposit(q, Single(Part(offerAsk[x], tx)))[d]
             = IF d = offerAsk[x].denom THEN q[d] (+) Gain(x, tx) ELSE q[d]
      BY <1>3, DepositPart DEF Gain
    <3>. QED
      BY <3>1, <3>2
  <2>. QED
    BY <1>5, <2>1
<1>9. ASSUME NEW u \in Acct, NEW d \in Denom
       PROVE  acctValue'[u][d] =
                IF u = offerIssuer[o] /\ d = offerAsk[o].denom
                  THEN acctValue[u][d] (+) Gain(o, to)
                ELSE IF u = offerIssuer[x] /\ d = offerAsk[x].denom
                  THEN acctValue[u][d] (+) Gain(x, tx)
                ELSE acctValue[u][d]
  BY <1>2, <1>7, <1>8
<1>. QED
  BY <1>2, <1>3, <1>4, <1>9

(* Creating an offer debits its bid, under the test of acct::debit;        *)
(* cancelling one and trading credit only.                                 *)
LEMMA MarketOverdraft ==
  ASSUME MarketInv, [Next]_vars, NEW u \in Acct, NEW d \in Denom
  PROVE  OverdraftStep(u, d)
<1>1. LedgerInv /\ BookInv /\ TypeOK /\ acctValue[u][d] \in Quantity
  BY DEF MarketInv, LedgerInv, TypeOK, Portfolio
<1>2. CASE acctValue'[u][d] = acctValue[u][d]
  BY <1>1, <1>2, NotLessThanItself DEF OverdraftStep
<1>3. ASSUME NEW g \in Positive, acctValue'[u][d] = acctValue[u][d] (+) g
      PROVE  OverdraftStep(u, d)
  BY <1>1, <1>3, PlusNotLess DEF OverdraftStep
<1>4. CASE LedgerCommand
  BY <1>1, <1>4, OverdraftSteps DEF LedgerCommand
<1>5. ASSUME NEW w \in Acct, NEW o \in Offer, NEW ask \in CommandValue, NEW bid \in CommandValue,
             OfferCreate(w, ask, bid, o)
      PROVE  OverdraftStep(u, d)
  <2>1. /\ CanDebit(w, Single(bid)) /\ Single(bid) \in ValueLists
        /\ acctValue' = [acctValue EXCEPT ![w] = Withdraw(@, Single(bid))]
    BY <1>5, SingleIsList DEF OfferCreate
  <2>2. CASE u = w
    BY <1>1, <2>1, <2>2, DebitAuthorised DEF OverdraftStep
  <2>3. CASE u # w
    BY <1>1, <1>2, <2>1, <2>3 DEF TypeOK
  <2>. QED
    BY <2>2, <2>3
<1>6. ASSUME NEW w \in Acct, NEW o \in Offer, OfferDestroy(w, o) PROVE OverdraftStep(u, d)
  <2>1. /\ acctValue' = [acctValue EXCEPT ![w] = Deposit(@, Single(offerBid[o]))]
        /\ offerBid[o].quant \in Positive
    BY <1>1, <1>6, CancelKeeps, LiveOffer DEF OfferDestroy, Refund, Value
  <2>2. acctValue'[u][d] = IF u = w /\ d = offerBid[o].denom
                             THEN acctValue[u][d] (+) offerBid[o].quant ELSE acctValue[u][d]
    BY <1>1, <2>1 DEF TypeOK, Portfolio, Deposit, Single
  <2>. QED
    BY <1>2, <1>3, <2>1, <2>2
<1>7. ASSUME NEW o \in Live, NEW x \in Live, NEW to, NEW tx, NEW done,
             TradeOf(o, to, x, tx, done)
      PROVE  OverdraftStep(u, d)
  <2>1. /\ Gain(o, to) \in Positive /\ Gain(x, tx) \in Positive
        /\ acctValue'[u][d] \in {acctValue[u][d] (+) Gain(o, to), acctValue[u][d] (+) Gain(x, tx),
                                 acctValue[u][d]}
    BY <1>7, TradeBalances
  <2>. QED
    BY <1>2, <1>3, <2>1
<1>8. CASE UNCHANGED ledgerVars
  BY <1>2, <1>8 DEF ledgerVars
<1>. QED
  BY <1>4, <1>5, <1>6, <1>7, <1>8, MarketActions

(* With offers and traders too, no balance goes lower and below zero but   *)
(* by a debit command or under the authority that acct::debit asks for:    *)
(* in particular no trade overdraws an account, whatever became of its     *)
(* flags since it made its offer.                                          *)
THEOREM MarketOverdrafts == Spec => OverdraftAuthorised
<1>1. MarketInv /\ [Next]_vars
        => [\A u \in Acct, d \in Denom :
              acctValue'[u][d] \prec acctValue[u][d] /\ acctValue'[u][d] \prec Zero
                => MayOverdraw(u, d) \/ TransferCommand]_acctValue
  BY MarketOverdraft DEF OverdraftStep
<1>. QED
  BY <1>1, MarketInvariant, PTL DEF Spec, OverdraftAuthorised

(* Every step of the market explains what it does to a balance.            *)
LEMMA MarketAudit ==
  ASSUME MarketInv, BalancesReduced, [Next]_vars, ~UNCHANGED ledgerVars,
         NEW u \in Acct, NEW d \in Denom
  PROVE  AuditStep(u, d)
<1>1. LedgerInv /\ BookInv /\ TypeOK /\ Reduced(acctValue[u][d])
  BY DEF MarketInv, LedgerInv, BalancesReduced
<1>2. CASE LedgerCommand
  BY <1>1, <1>2, AuditSteps DEF LedgerCommand
<1>3. ASSUME NEW w \in Acct, NEW o \in Offer, NEW ask \in CommandValue, NEW bid \in CommandValue,
             OfferCreate(w, ask, bid, o)
      PROVE  AuditStep(u, d)
  <2>1. PICK X : X = {Event("offer_create", {w}, o)}
    OBVIOUS
  <2>2. \A e \in X : e.kind \notin {"credit", "debit"}
    BY <2>1 DEF Event
  <2>3. PICK v : v = Single(bid)
    OBVIOUS
  <2>4. \A c \in DOMAIN v : v[c] \in Quantity
    BY <2>3, SingleIsList, SingleValue
  <2>5. acctValue' = [acctValue EXCEPT ![w] = Withdraw(@, v)] /\ posted' = Moves("debit", w, v) \cup X
    BY <1>3, <2>1, <2>3 DEF OfferCreate
  <2>. QED
    BY <1>1, <2>2, <2>4, <2>5, WithdrawRecorded DEF AuditStep
<1>4. ASSUME NEW w \in Acct, NEW o \in Offer, OfferDestroy(w, o) PROVE AuditStep(u, d)
  <2>1. PICK X : X = {Event("offer_destroy", {offerIssuer[o]}, o)}
    OBVIOUS
  <2>2. \A e \in X : e.kind \notin {"credit", "debit"}
    BY <2>1 DEF Event
  <2>3. PICK v : v = Refund(o)
    OBVIOUS
  <2>4. \A c \in DOMAIN v : v[c] \in Quantity
    BY <1>1, <1>4, <2>3, CancelKeeps, LiveOffer, SingleValue DEF Refund
  <2>5. /\ acctValue' = [acctValue EXCEPT ![w] = Deposit(@, v)]
        /\ posted' = Moves("credit", w, v) \cup X
    BY <1>4, <2>1, <2>3 DEF OfferDestroy
  <2>. QED
    BY <1>1, <2>2, <2>4, <2>5, DepositRecorded DEF AuditStep
<1>5. ASSUME NEW o \in Live, NEW x \in Live, NEW to, NEW tx, NEW done,
             TradeOf(o, to, x, tx, done)
      PROVE  AuditStep(u, d)
  <2> DEFINE mo == Event("credit", {offerIssuer[o]},
                         [denom |-> offerAsk[o].denom, quant |-> Gain(o, to)])
             mx == Event("credit", {offerIssuer[x]},
                         [denom |-> offerAsk[x].denom, quant |-> Gain(x, tx)])
             X  == {Event("offer_destroy", {}, y) : y \in done}
  <2>1. \A y, theta, w : offerAsk[y] \in Value =>
          Moves("credit", w, Single(Part(offerAsk[y], theta))) =
            {Event("credit", {w}, [denom |-> offerAsk[y].denom, quant |-> Gain(y, theta)])}
    BY DEF Moves, Single, Part, Gain, Value
  <2>2. posted' = {mo} \cup {mx} \cup X
    <3>1. offerAsk[o] \in Value /\ offerAsk[x] \in Value
      BY <1>1, LiveOffer
    <3>. QED
      BY <1>5, <2>1, <3>1 DEF TradeOf
  <2>3. /\ mo.kind = "credit" /\ mo.accts = {offerIssuer[o]} /\ mo.object.denom = offerAsk[o].denom
        /\ mx.kind = "credit" /\ mx.accts = {offerIssuer[x]} /\ mx.object.denom = offerAsk[x].denom
        /\ \A e \in X : e.kind = "offer_destroy"
    BY DEF Event
  <2>4. /\ u = offerIssuer[o] /\ d = offerAsk[o].denom
              => mo = Event("credit", {u}, [denom |-> d, quant |-> Gain(o, to)])
        /\ u = offerIssuer[x] /\ d = offerAsk[x].denom
              => mx = Event("credit", {u}, [denom |-> d, quant |-> Gain(x, tx)])
    OBVIOUS
  <2> HIDE DEF mo, mx, X
  <2>5. \A e : e \in MovesOf(u, d)' <=>
          \/ u = offerIssuer[o] /\ d = offerAsk[o].denom /\ e = mo
          \/ u = offerIssuer[x] /\ d = offerAsk[x].denom /\ e = mx
    BY <2>2, <2>3 DEF MovesOf
  <2>6. /\ offerAsk[o].denom # offerAsk[x].denom
        /\ Gain(o, to) \in Quantity /\ Gain(x, tx) \in Quantity
        /\ acctValue'[u][d] =
             IF u = offerIssuer[o] /\ d = offerAsk[o].denom
               THEN acctValue[u][d] (+) Gain(o, to)
             ELSE IF u = offerIssuer[x] /\ d = offerAsk[x].denom
               THEN acctValue[u][d] (+) Gain(x, tx)
             ELSE acctValue[u][d]
    BY <1>5, TradeBalances, PositiveParts
  <2>7. CASE u = offerIssuer[o] /\ d = offerAsk[o].denom
    <3>1. MovesOf(u, d)' = {mo}
      BY <2>5, <2>6, <2>7
    <3>. QED
      BY <1>1, <2>4, <2>6, <2>7, <3>1, CreditRecorded DEF AuditStep
  <2>8. CASE u = offerIssuer[x] /\ d = offerAsk[x].denom
    <3>1. MovesOf(u, d)' = {mx}
      BY <2>5, <2>6, <2>8
    <3>. QED
      BY <1>1, <2>4, <2>6, <2>8, <3>1, CreditRecorded DEF AuditStep
  <2>9. CASE ~ \/ u = offerIssuer[o] /\ d = offerAsk[o].denom
               \/ u = offerIssuer[x] /\ d = offerAsk[x].denom
    <3>1. MovesOf(u, d)' = {}
      BY <2>5, <2>9
    <3>. QED
      BY <1>1, <2>6, <2>9, <3>1, NothingRecorded DEF AuditStep
  <2>. QED
    BY <2>7, <2>8, <2>9
<1>. QED
  BY <1>2, <1>3, <1>4, <1>5, MarketActions

(* With offers and traders too, every change of a balance has its events:  *)
(* the debit of an offer's bid, its refund, and the two credits of a       *)
(* trade, in what the event log says of either issuer.                     *)
THEOREM MarketAudited == Spec => AuditTrail
<1>1. Init => BalancesReduced
  <2>1. Reduced(Zero)
    BY EmptyPortfolio, ReducedResults
  <2>. QED
    BY <2>1 DEF Init, LedgerInit, BalancesReduced, Empty
<1>2. MarketInv /\ BalancesReduced /\ [Next]_vars => BalancesReduced'
  <2>1. MarketInv /\ BalancesReduced /\ [Next]_vars /\ ~UNCHANGED ledgerVars => BalancesReduced'
    BY MarketAudit DEF BalancesReduced, AuditStep, Explained
  <2>2. BalancesReduced /\ UNCHANGED ledgerVars => BalancesReduced'
    BY DEF BalancesReduced, ledgerVars
  <2>. QED
    BY <2>1, <2>2
<1>3. MarketInv /\ BalancesReduced /\ [Next]_vars
        => [\A u \in Acct, d \in Denom :
              \/ acctValue'[u][d] = acctValue[u][d] (+) Recorded(u, d)'
              \/ Event("acct_destroy", {u}, u) \in posted']_ledgerVars
  BY MarketAudit DEF AuditStep, Explained
<1>. QED
  BY <1>1, <1>2, <1>3, MarketInvariant, PTL DEF Spec, AuditTrail

-----------------------------------------------------------------------------
(* Limit prices                                                            *)

(* The offers of u that a step executes and that ask for d.                *)
Filled(u, d) ==
  {z \in Live : offerIssuer[z] = u /\ Executed(z) /\ offerAsk[z].denom = d}

(* The issuer of either offer of a trade is credited exactly what the      *)
(* offer then asks less.                                                   *)
LEMMA TradeAtLimit ==
  ASSUME MarketInv, NEW o, NEW x, NEW to, NEW tx, NEW done, TradeOf(o, to, x, tx, done),
         NEW u \in Acct, NEW d \in Denom
  PROVE  acctValue'[u][d] (-) acctValue[u][d]
           = Total([y \in Filled(u, d) |-> Asked(y) (-) Asked(y)'])
<1>1. BookInv /\ acctValue[u][d] \in Quantity /\ o \in Live /\ x \in Live /\ o # x
  BY DEF MarketInv, LedgerInv, TypeOK, Portfolio, TradeOf
<1>2. Filled(u, d) = {z \in {o, x} : offerIssuer[z] = u /\ offerAsk[z].denom = d}
  BY <1>1, TradeExecutes DEF Filled
<1>3. PICK f : f = [y \in Filled(u, d) |-> Asked(y) (-) Asked(y)']
  OBVIOUS
<1>4. ASSUME NEW y \in {o, x}, NEW theta, theta = IF y = o THEN to ELSE tx,
             Filled(u, d) = {y}, acctValue'[u][d] = acctValue[u][d] (+) Gain(y, theta)
      PROVE  acctValue'[u][d] (-) acctValue[u][d] = Total(f)
  <2>1. /\ Asked(y) \in Positive /\ theta \in Positive /\ Gain(y, theta) = Asked(y) (\X) theta
        /\ Asked(y)' = Asked(y) (-) (Asked(y) (\X) theta)
    BY <1>1, <1>4, TradeOfOffer DEF Gain
  <2>2. Gain(y, theta) \in Quantity
    BY <2>1, TimesPositive, PositiveParts
  <2>3. Asked(y) (-) Asked(y)' = Canonical[Gain(y, theta)]
    BY <2>1, EqualParts
  <2>4. Canonical[Gain(y, theta)] \in Quantity
        /\ Canonical[Canonical[Gain(y, theta)]] = Canonical[Gain(y, theta)]
    BY <2>2, CanonicalEqual
  <2>5. f \in [{y} -> Quantity] /\ f[y] = Canonical[Gain(y, theta)]
    BY <1>3, <1>4, <2>3, <2>4
  <2>6. Total(f) = Canonical[Gain(y, theta)]
    BY <2>4, <2>5, TotalOne
  <2>. QED
    BY <1>1, <1>4, <2>2, <2>6, PlusMinus
<1>5. /\ offerAsk[o].denom # offerAsk[x].denom
      /\ acctValue'[u][d] =
           IF u = offerIssuer[o] /\ d = offerAsk[o].denom
             THEN acctValue[u][d] (+) Gain(o, to)
           ELSE IF u = offerIssuer[x] /\ d = offerAsk[x].denom
             THEN acctValue[u][d] (+) Gain(x, tx)
           ELSE acctValue[u][d]
  BY TradeBalances
<1>6. CASE u = offerIssuer[o] /\ d = offerAsk[o].denom
  <2>1. Filled(u, d) = {o}
    BY <1>2, <1>5, <1>6
  <2>. QED
    BY <1>3, <1>4, <1>5, <1>6, <2>1
<1>7. CASE u = offerIssuer[x] /\ d = offerAsk[x].denom
  <2>1. Filled(u, d) = {x}
    BY <1>2, <1>5, <1>7
  <2>2. tx = IF x = o THEN to ELSE tx
    BY <1>1
  <2>. QED
    BY <1>3, <1>4, <1>5, <1>7, <2>1, <2>2
<1>8. CASE ~ \/ u = offerIssuer[o] /\ d = offerAsk[o].denom
             \/ u = offerIssuer[x] /\ d = offerAsk[x].denom
  <2>1. Filled(u, d) = {}
    BY <1>2, <1>8
  <2>2. f \in [{} -> Quantity]
    BY <1>3, <2>1
  <2>3. Total(f) = Zero
    BY <2>2, FS_EmptySet, TotalReduced
  <2>. QED
    BY <1>1, <1>3, <1>5, <1>8, <2>3, MinusItself
<1>. QED
  BY <1>6, <1>7, <1>8

(* Partial fills never drift from the price an offer was made at, and what *)
(* an issuer is credited in a denomination is exactly what its executed    *)
(* offers asked for, also when both offers of a trade are its own.         *)
THEOREM LimitPrices == Spec => LimitPriceHonoured
<1>1. ASSUME MarketInv, [Next]_vars, NEW y \in Live, Executed(y)
      PROVE  /\ (Asked(y) (-) Asked(y)') (\X) Bidden(y) = (Bidden(y) (-) Bidden(y)') (\X) Asked(y)
             /\ \A d \in Denom :
                  acctValue'[offerIssuer[y]][d] (-) acctValue[offerIssuer[y]][d]
                    = Total([z \in Filled(offerIssuer[y], d) |-> Asked(z) (-) Asked(z)'])
  <2>1. PICK o \in Live, x \in Live, to \in Positive, tx \in Positive, done \in SUBSET Live :
               TradeOf(o, to, x, tx, done)
    BY <1>1, ExecutedIsTrade
  <2>2. BookInv /\ y \in {o, x} /\ offerIssuer[y] \in Acct
    BY <1>1, <2>1, TradeExecutes, LiveOffer DEF MarketInv
  <2>3. PICK theta : theta = IF y = o THEN to ELSE tx
    OBVIOUS
  <2>4. /\ Bidden(y) \in Positive /\ Asked(y) \in Positive /\ theta \in Positive
        /\ Bidden(y)' = Bidden(y) (-) (Bidden(y) (\X) theta)
        /\ Asked(y)' = Asked(y) (-) (Asked(y) (\X) theta)
    BY <2>1, <2>2, <2>3, TradeOfOffer
  <2>5. (Asked(y) (-) Asked(y)') (\X) Bidden(y) = (Bidden(y) (-) Bidden(y)') (\X) Asked(y)
    BY <2>4, EqualParts
  <2>. QED
    BY <1>1, <2>1, <2>2, <2>5, TradeAtLimit
<1>2. MarketInv /\ [Next]_vars
        => [\A o \in Live : Executed(o) =>
              /\ (Asked(o) (-) Asked(o)') (\X) Bidden(o)
                   = (Bidden(o) (-) Bidden(o)') (\X) Asked(o)
              /\ \A d \in Denom :
                   acctValue'[offerIssuer[o]][d] (-) acctValue[offerIssuer[o]][d]
                     = Total([y \in {z \in Live : offerIssuer[z] = offerIssuer[o] /\ Executed(z)
                                                  /\ offerAsk[z].denom = d}
                                |-> Asked(y) (-) Asked(y)'])]_offerBid
  BY <1>1 DEF Filled
<1>. QED
  BY <1>2, MarketInvariant, PTL DEF Spec, LimitPriceHonoured

-----------------------------------------------------------------------------
(* The price in the index                                                  *)

(* The index keeps the ratio an offer was created with.  It stays the      *)
(* price of what is left of the offer, since every fill takes the same     *)
(* part of what it asks and of what it bids: that two ratios cross then    *)
(* says that the bids cover what is asked for them.                        *)
RatioExact ==
  \A r \in offerIndex :
    r.ratio (\X) offerBid[r.offer].quant = Canonical[offerAsk[r.offer].quant]

LEMMA RatioStep ==
  ASSUME MarketInv, RatioExact, [Next]_vars
  PROVE  RatioExact'
<1>0. BookInv
  BY DEF MarketInv
<1>1. ASSUME offerIndex' \subseteq offerIndex,
             \A r \in offerIndex' : /\ offerBid'[r.offer] = offerBid[r.offer]
                                    /\ offerAsk'[r.offer] = offerAsk[r.offer]
      PROVE  RatioExact'
  BY <1>1 DEF RatioExact
<1>2. CASE LedgerCommand \/ UNCHANGED bookVars
  BY <1>1, <1>2 DEF LedgerCommand, bookVars
<1>3. ASSUME NEW u \in Acct, NEW o \in Offer, NEW ask \in CommandValue, NEW bid \in CommandValue,
             OfferCreate(u, ask, bid, o)
      PROVE  RatioExact'
  <2> DEFINE row == [pair |-> <<ask.denom, bid.denom>>, offer |-> o,
                     ratio |-> ask.quant (/) bid.quant]
  <2>1. /\ offerIndex' = offerIndex \cup {row} /\ o \notin Live
        /\ \A y \in Live : offerAsk'[y] = offerAsk[y] /\ offerBid'[y] = offerBid[y]
    BY <1>3, CreateKeeps DEF OfferCreate
  <2>2. offerAsk'[o] = ask /\ offerBid'[o] = bid
    BY <1>0, <1>3 DEF OfferCreate, BookInv, OfferTablesAgree, MarketTypeOK
  <2>3. ask.quant \in Positive /\ bid.quant \in Positive
    BY SingleIsList, SingleValue
  <2>4. (ask.quant (/) bid.quant) (\X) bid.quant = Canonical[ask.quant]
    BY <2>3, OverTimes
  <2>5. row.offer = o /\ row.ratio = ask.quant (/) bid.quant
    OBVIOUS
  <2> HIDE DEF row
  <2>6. ASSUME NEW r \in offerIndex'
        PROVE  r.ratio (\X) offerBid'[r.offer].quant = Canonical[offerAsk'[r.offer].quant]
    <3>1. CASE r = row
      BY <2>2, <2>4, <2>5, <3>1
    <3>2. CASE r \in offerIndex
      <4>1. r.offer \in Live
        BY <1>0, <3>2, IndexedOffer
      <4>. QED
        BY <2>1, <3>2, <4>1 DEF RatioExact
    <3>. QED
      BY <2>1, <3>1, <3>2
  <2>. QED
    BY <2>6 DEF RatioExact
<1>4. ASSUME NEW u \in Acct, NEW o \in Offer, OfferDestroy(u, o) PROVE RatioExact'
  <2>1. /\ BookInv' /\ Live' = Live \ {o} /\ offerIndex' \subseteq offerIndex
        /\ \A y \in Live \ {o} : offerBid'[y] = offerBid[y] /\ offerAsk'[y] = offerAsk[y]
    BY <1>4, CancelKeeps DEF MarketInv
  <2>2. \A r \in offerIndex' : r.offer \in Live'
    BY <2>1 DEF BookInv, OfferTablesAgree
  <2>. QED
    BY <1>1, <2>1, <2>2
<1>5. ASSUME NEW o \in Live, NEW x \in Live, NEW to, NEW tx, NEW done,
             TradeOf(o, to, x, tx, done), UNCHANGED threadVars
      PROVE  RatioExact'
  <2>1. BookInv' /\ Live' = Live \ done /\ offerIndex' \subseteq offerIndex
    BY <1>5, TradeKeeps
  <2>2. \A r \in offerIndex' : r.offer \in Live'
    BY <2>1 DEF BookInv, OfferTablesAgree
  <2>3. ASSUME NEW r \in offerIndex'
        PROVE  r.ratio (\X) offerBid'[r.offer].quant = Canonical[offerAsk'[r.offer].quant]
    <3>1. PICK y \in Live : y = r.offer /\ y \notin done
      BY <2>1, <2>2
    <3>2. r.ratio (\X) offerBid[y].quant = Canonical[offerAsk[y].quant] /\ r.ratio \in Positive
      BY <1>0, <2>1, <3>1, IndexedOffer DEF RatioExact
    <3>3. CASE y \notin {o, x}
      BY <1>0, <1>5, <3>1, <3>2, <3>3, LiveOffer DEF TradeOf, DestroyOffers, After
    <3>4. CASE y \in {o, x}
      <4>1. PICK theta : theta = IF y = o THEN to ELSE tx
        OBVIOUS
      <4>2. /\ Bidden(y) = offerBid[y].quant /\ Bidden(y) \in Positive
            /\ Asked(y) = offerAsk[y].quant /\ Asked(y) \in Positive
            /\ Bidden(y)' = Bidden(y) (-) (Bidden(y) (\X) theta)
            /\ Asked(y)' = Asked(y) (-) (Asked(y) (\X) theta)
            /\ theta \in Positive
        BY <1>0, <1>5, <3>4, <4>1, TradeOfOffer
      <4>3. Bidden(y)' = offerBid'[y].quant /\ Asked(y)' = offerAsk'[y].quant
        <5>1. offerBid'[y] # None /\ offerAsk'[y] # None
          BY <2>1, <3>1 DEF BookInv, OfferTablesAgree, Live
        <5>. QED
          BY <5>1 DEF Bidden, Asked
      <4>4. r.ratio (\X) (Bidden(y) (-) (Bidden(y) (\X) theta))
              = Canonical[Asked(y) (-) (Asked(y) (\X) theta)]
        BY <3>2, <4>2, RestScaled
      <4>. QED
        BY <3>1, <4>2, <4>3, <4>4
    <3>. QED
      BY <3>3, <3>4
  <2>. QED
    BY <2>3 DEF RatioExact
<1>6. CASE UNCHANGED ledgerVars /\ UNCHANGED bookVars
  BY <1>2, <1>6
<1>. QED
  BY <1>2, <1>3, <1>4, <1>5, <1>6, MarketActions

(* A fill never moves the price that the index sorts an offer by, although *)
(* trader::execute rewrites what the offer asks and bids and not its row.  *)
THEOREM RatioInvariant == Spec => []RatioExact
<1>1. Init => RatioExact
  BY DEF Init, BookInit, RatioExact
<1>2. MarketInv /\ RatioExact /\ [Next]_vars => RatioExact'
  BY RatioStep
<1>. QED
  BY <1>1, <1>2, MarketInvariant, PTL DEF Spec

(* What the issuers of a trade are credited, the bids of the other side    *)
(* pay for.                                                                *)
LEMMA TradePays ==
  ASSUME MarketInv, RatioExact, NEW o, NEW x, NEW to, NEW tx, NEW done,
         TradeOf(o, to, x, tx, done)
  PROVE  /\ Gain(o, to) \preceq (Bidden(x) (\X) tx)
         /\ Gain(x, tx) \preceq (Bidden(o) (\X) to)
<1>0. /\ BookInv /\ o \in Live /\ x \in Live /\ o # x /\ Thetas(o, x) = <<to, tx>>
  BY DEF MarketInv, TradeOf
<1>1. PICK r \in offerIndex, s \in offerIndex : r.offer = o /\ s.offer = x /\ Crossing(r, s)
  BY DEF TradeOf
<1>2. PICK a, b, c, d : /\ a = offerAsk[o].quant /\ b = offerBid[o].quant
                        /\ c = offerAsk[x].quant /\ d = offerBid[x].quant
  OBVIOUS
<1>3. a \in Positive /\ b \in Positive /\ c \in Positive /\ d \in Positive
  BY <1>0, <1>2, LiveOffer DEF Value
<1>4. /\ r.ratio \in Positive /\ s.ratio \in Positive
      /\ r.ratio (\X) b = Canonical[a] /\ s.ratio (\X) d = Canonical[c]
      /\ (r.ratio (\X) s.ratio) \preceq One
  BY <1>0, <1>1, <1>2, IndexedOffer DEF RatioExact, Crossing
<1>5. a (\X) c \preceq b (\X) d
  BY <1>3, <1>4, CrossingCovers
<1>6. <<to, tx>> = IF b \prec c THEN <<One, b (/) c>>
                   ELSE IF d \prec a THEN <<d (/) a, One>> ELSE <<One, One>>
  BY <1>0, <1>2 DEF Thetas
<1>7. a (\X) to \preceq d (\X) tx /\ c (\X) tx \preceq b (\X) to
  BY <1>3, <1>5, <1>6, PartsCover
<1>8. Bidden(o) = b /\ Bidden(x) = d
  BY <1>0, <1>2, LiveOffer DEF Bidden
<1>. QED
  BY <1>2, <1>7, <1>8 DEF Gain

-----------------------------------------------------------------------------
(* Wealth                                                                  *)

(* What offer o holds of denomination d.                                   *)
Holds(o, d) == IF offerBid[o].denom = d THEN offerBid[o].quant ELSE Zero

Held(d) == [o \in Live |-> Holds(o, d)]

LEMMA EscrowParts ==
  ASSUME BookInv, NEW d \in Denom
  PROVE  /\ IsFiniteSet(Live) /\ Held(d) \in [Live -> Quantity]
         /\ Escrow(d) = Total(Held(d))
         /\ Reduced(Escrow(d)) /\ Escrow(d) \in Quantity
<1>1. IsFiniteSet(Live)
  <2>1. PICK f : f = [r \in offerIndex |-> r.offer]
    OBVIOUS
  <2>2. IsFiniteSet(offerIndex) /\ Live = {r.offer : r \in offerIndex}
    BY DEF BookInv, OfferTablesAgree
  <2>3. f \in Surjection(offerIndex, Live)
    BY <2>1, <2>2 DEF Surjection
  <2>. QED
    BY <2>2, <2>3, FS_Surjection
<1>2. \A o \in Live : offerBid[o].quant \in Quantity
  <2>1. \A o \in Live : offerBid[o].quant \in Positive
    BY DEF BookInv, OfferTablesAgree, MarketTypeOK, Live, Value
  <2>. QED
    BY <2>1, PositiveParts
<1>3. PICK held : held = Held(d)
  OBVIOUS
<1>4. held \in [Live -> Quantity]
  BY <1>2, <1>3, EmptyPortfolio DEF Held, Holds
<1>5. Reduced(Total(held))
  BY <1>1, <1>4, TotalReduced
<1>6. Escrow(d) = Total(held)
  BY <1>3 DEF Escrow, Held, Holds
<1>. QED
  BY <1>1, <1>3, <1>4, <1>5, <1>6 DEF Reduced

(* The same of the state after a step.                                     *)
LEMMA EscrowPartsNext ==
  ASSUME BookInv', NEW d \in Denom
  PROVE  /\ IsFiniteSet(Live') /\ Held(d)' \in [Live' -> Quantity]
         /\ Escrow(d)' = Total(Held(d)')
         /\ Reduced(Escrow(d)') /\ Escrow(d)' \in Quantity
<1>1. IsFiniteSet(Live')
  <2>1. PICK f : f = [r \in offerIndex' |-> r.offer]
    OBVIOUS
  <2>2. IsFiniteSet(offerIndex') /\ Live' = {r.offer : r \in offerIndex'}
    BY DEF BookInv, OfferTablesAgree
  <2>3. f \in Surjection(offerIndex', Live')
    BY <2>1, <2>2 DEF Surjection
  <2>. QED
    BY <2>2, <2>3, FS_Surjection
<1>2. \A o \in Live' : offerBid'[o].quant \in Quantity
  <2>1. \A o \in Live' : offerBid'[o].quant \in Positive
    BY DEF BookInv, OfferTablesAgree, MarketTypeOK, Live, Value
  <2>. QED
    BY <2>1, PositiveParts
<1>3. PICK held : held = Held(d)'
  OBVIOUS
<1>4. held \in [Live' -> Quantity]
  BY <1>2, <1>3, EmptyPortfolio DEF Held, Holds
<1>5. Reduced(Total(held))
  BY <1>1, <1>4, TotalReduced
<1>6. Escrow(d)' = Total(held)
  BY <1>3 DEF Escrow, Held, Holds
<1>. QED
  BY <1>1, <1>3, <1>4, <1>5, <1>6 DEF Reduced

(* The supply when one balance alone changes.                              *)
LEMMA SupplyShift ==
  ASSUME TypeOK, TypeOK', noteValue' = noteValue, NEW u \in Acct, NEW d \in Denom,
         NEW g \in Quantity, acctValue'[u][d] = acctValue[u][d] (+) g,
         \A w \in Acct \ {u} : acctValue'[w][d] = acctValue[w][d]
  PROVE  Supply(d) \in Quantity /\ Supply(d)' = Supply(d) (+) g
<1>1. PICK r \in Quantity : /\ Total(Balances(d)) = acctValue[u][d] (+) r
                            /\ Total(Balances(d))' = acctValue'[u][d] (+) r
  BY BalanceChange
<1>2. PICK h \in Quantity : h = Total(Holdings(d))
  BY SupplyParts
<1>3. Holdings(d)' = Holdings(d)
  BY DEF Holdings
<1>4. PICK a \in Quantity : a = acctValue[u][d]
  BY DEF TypeOK, Portfolio
<1>5. Supply(d) = (a (+) r) (+) h /\ Supply(d)' = ((a (+) g) (+) r) (+) h
  <2>1. Supply(d) = Total(Balances(d)) (+) Total(Holdings(d))
    BY SupplyParts
  <2>2. Supply(d)' = Total(Balances(d))' (+) Total(Holdings(d))'
    BY DEF Supply, Balances, Holdings
  <2>. QED
    BY <1>1, <1>2, <1>3, <1>4, <2>1, <2>2
<1>6. a (+) r \in Quantity /\ (a (+) r) (+) h \in Quantity
  BY PlusQuantity
<1>7. (a (+) g) (+) r = (a (+) r) (+) g
  BY Swap
<1>8. ((a (+) r) (+) g) (+) h = ((a (+) r) (+) h) (+) g
  BY <1>6, Swap
<1>. QED
  BY <1>5, <1>6, <1>7, <1>8

LEMMA SupplyKept ==
  ASSUME TypeOK, noteValue' = noteValue, NEW d \in Denom,
         \A w \in Acct : acctValue'[w][d] = acctValue[w][d]
  PROVE  Supply(d)' = Supply(d)
<1>1. Balances(d)' = Balances(d) /\ Holdings(d)' = Holdings(d)
  BY DEF Balances, Holdings
<1>2. /\ Supply(d) = Total(Balances(d)) (+) Total(Holdings(d))
      /\ Supply(d)' = Total(Balances(d))' (+) Total(Holdings(d))'
  BY DEF Supply, Balances, Holdings
<1>. QED
  BY <1>1, <1>2

(* Creating an offer moves its bid from a balance into the offer.          *)
LEMMA CreateKeepsWealth ==
  ASSUME MarketInv, MarketInv', NEW u \in Acct, NEW o \in Offer, NEW ask \in CommandValue,
         NEW bid \in CommandValue, OfferCreate(u, ask, bid, o), NEW d \in Denom
  PROVE  Wealth(d)' = Wealth(d)
<1>1. /\ BookInv /\ BookInv' /\ TypeOK /\ TypeOK' /\ noteValue' = noteValue
      /\ acctValue \in [Acct -> Portfolio]
      /\ acctValue' = [acctValue EXCEPT ![u] = Withdraw(@, Single(bid))]
  BY DEF MarketInv, LedgerInv, TypeOK, OfferCreate, noteVars
<1>2. /\ bid.denom \in Denom /\ bid.quant \in Quantity
  BY SingleIsList, SingleValue, PositiveParts
<1>3. /\ o \notin Live /\ Live' = Live \cup {o} /\ offerBid'[o] = bid
      /\ \A y \in Live : offerBid'[y] = offerBid[y]
  <2>1. offerBid'[o] = bid
    BY <1>1 DEF OfferCreate, BookInv, OfferTablesAgree, MarketTypeOK
  <2>. QED
    BY <2>1, CreateKeeps
<1>4. PICK e \in Quantity : e = Escrow(d) /\ Reduced(e)
  BY <1>1, EscrowParts
<1>5. Escrow(d)' = Holds(o, d)' (+) e
  <2>1. PICK f : f = Held(d)'
    OBVIOUS
  <2>2. f \in [Live' -> Quantity] /\ IsFiniteSet(Live') /\ Escrow(d)' = Total(f)
    BY <1>1, <2>1, EscrowPartsNext
  <2>3. Total(f) = f[o] (+) Total([y \in Live' \ {o} |-> f[y]])
    BY <1>3, <2>2, TotalRest
  <2>4. [y \in Live' \ {o} |-> f[y]] = Held(d)
    BY <1>3, <2>1 DEF Held, Holds
  <2>5. f[o] = Holds(o, d)'
    BY <1>3, <2>1 DEF Held
  <2>6. e = Total(Held(d))
    BY <1>1, <1>4, EscrowParts
  <2>. QED
    BY <2>2, <2>3, <2>4, <2>5, <2>6
<1>6. PICK p \in Quantity : p = Supply(d)
  BY <1>1, SupplyParts, PlusQuantity
<1>7. \A w \in Acct \ {u} : acctValue'[w][d] = acctValue[w][d]
  BY <1>1
<1>8. CASE bid.denom = d
  <2>1. PICK n \in Quantity : n = Zero (-) bid.quant
    BY <1>2, EmptyPortfolio, MinusQuantity
  <2>2. acctValue'[u][d] = acctValue[u][d] (-) bid.quant /\ acctValue[u][d] \in Quantity
    BY <1>1, <1>8 DEF Withdraw, Single, Portfolio
  <2>3. acctValue'[u][d] = acctValue[u][d] (+) n
    BY <1>2, <2>1, <2>2, MinusIsPlus
  <2>4. Supply(d)' = p (+) n
    BY <1>1, <1>6, <1>7, <2>1, <2>3, SupplyShift
  <2>5. Holds(o, d)' = bid.quant
    BY <1>3, <1>8 DEF Holds
  <2>6. (p (+) (Zero (-) bid.quant)) (+) (bid.quant (+) e) = p (+) e
    BY <1>2, MovedAcross
  <2>. QED
    BY <1>4, <1>5, <1>6, <2>1, <2>4, <2>5, <2>6 DEF Wealth
<1>9. CASE bid.denom # d
  <2>1. acctValue'[u][d] = acctValue[u][d]
    BY <1>1, <1>9 DEF Withdraw, Single
  <2>2. Supply(d)' = Supply(d)
    BY <1>1, <1>7, <2>1, SupplyKept
  <2>3. Holds(o, d)' = Zero
    BY <1>3, <1>9 DEF Holds
  <2>4. Zero (+) e = e
    BY <1>4, PlusZero DEF Reduced
  <2>. QED
    BY <1>4, <1>5, <2>2, <2>3, <2>4 DEF Wealth
<1>. QED
  BY <1>8, <1>9

(* Cancelling an offer moves what it still bids into a balance.            *)
LEMMA CancelKeepsWealth ==
  ASSUME MarketInv, NEW u \in Acct, NEW o \in Offer, OfferDestroy(u, o), NEW d \in Denom
  PROVE  Wealth(d)' = Wealth(d)
<1>1. /\ MarketInv' /\ o \in Live /\ Live' = Live \ {o}
      /\ \A y \in Live \ {o} : offerBid'[y] = offerBid[y]
  BY CancelKeeps
<1>2. /\ BookInv /\ BookInv' /\ TypeOK /\ TypeOK' /\ noteValue' = noteValue
      /\ acctValue \in [Acct -> Portfolio]
      /\ acctValue' = [acctValue EXCEPT ![u] = Deposit(@, Single(offerBid[o]))]
  BY <1>1 DEF MarketInv, LedgerInv, TypeOK, OfferDestroy, noteVars, Refund
<1>3. offerBid[o].denom \in Denom /\ offerBid[o].quant \in Quantity
  BY <1>1, <1>2, LiveOffer, PositiveParts DEF Value
<1>4. PICK e \in Quantity : e = Escrow(d)' /\ Reduced(e)
  BY <1>2, EscrowPartsNext
<1>5. Escrow(d) = Holds(o, d) (+) e
  <2>1. PICK f : f = Held(d)
    OBVIOUS
  <2>2. f \in [Live -> Quantity] /\ IsFiniteSet(Live) /\ Escrow(d) = Total(f)
    BY <1>2, <2>1, EscrowParts
  <2>3. Total(f) = f[o] (+) Total([y \in Live \ {o} |-> f[y]])
    BY <1>1, <2>2, TotalRest
  <2>4. [y \in Live \ {o} |-> f[y]] = Held(d)'
    BY <1>1, <2>1 DEF Held, Holds
  <2>5. f[o] = Holds(o, d)
    BY <1>1, <2>1 DEF Held
  <2>6. e = Total(Held(d)')
    BY <1>2, <1>4, EscrowPartsNext
  <2>. QED
    BY <2>2, <2>3, <2>4, <2>5, <2>6
<1>6. PICK p \in Quantity : p = Supply(d)
  BY <1>2, SupplyParts, PlusQuantity
<1>7. \A w \in Acct \ {u} : acctValue'[w][d] = acctValue[w][d]
  BY <1>2
<1>8. CASE offerBid[o].denom = d
  <2>1. acctValue'[u][d] = acctValue[u][d] (+) offerBid[o].quant
    BY <1>2, <1>8 DEF Deposit, Single
  <2>2. Supply(d)' = p (+) offerBid[o].quant
    BY <1>2, <1>3, <1>6, <1>7, <2>1, SupplyShift
  <2>3. Holds(o, d) = offerBid[o].quant
    BY <1>8 DEF Holds
  <2>4. (p (+) offerBid[o].quant) (+) e = p (+) (offerBid[o].quant (+) e)
    BY <1>3, PlusAssociates
  <2>. QED
    BY <1>4, <1>5, <1>6, <2>2, <2>3, <2>4 DEF Wealth
<1>9. CASE offerBid[o].denom # d
  <2>1. acctValue'[u][d] = acctValue[u][d]
    BY <1>2, <1>9 DEF Deposit, Single
  <2>2. Supply(d)' = Supply(d)
    BY <1>2, <1>7, <2>1, SupplyKept
  <2>3. Holds(o, d) = Zero
    BY <1>9 DEF Holds
  <2>4. Zero (+) e = e
    BY <1>4, PlusZero DEF Reduced
  <2>. QED
    BY <1>4, <1>5, <2>2, <2>3, <2>4 DEF Wealth
<1>. QED
  BY <1>8, <1>9

(* One side of a trade: u is credited g and offer z gives c, no less, of   *)
(* the same denomination.  K is what the offers of before hold after it.   *)
LEMMA SideLoss ==
  ASSUME MarketInv, MarketInv', noteValue' = noteValue, NEW d \in Denom,
         NEW K \in [Live -> Quantity], Escrow(d)' = Total(K),
         NEW u \in Acct, NEW g \in Quantity, NEW c \in Quantity, g \preceq c,
         acctValue'[u][d] = acctValue[u][d] (+) g,
         \A w \in Acct \ {u} : acctValue'[w][d] = acctValue[w][d],
         NEW z \in Live, K[z] = Holds(z, d) (-) c,
         \A y \in Live \ {z} : K[y] = Holds(y, d)
  PROVE  Wealth(d)' = Wealth(d) \/ Wealth(d)' \prec Wealth(d)
<1>1. TypeOK /\ TypeOK' /\ BookInv
  BY DEF MarketInv, LedgerInv
<1>2. PICK p \in Quantity : p = Supply(d) /\ Supply(d)' = p (+) g
  BY <1>1, SupplyShift
<1>3. PICK held \in [Live -> Quantity] : held = Held(d)
  BY <1>1, EscrowParts
<1>4. IsFiniteSet(Live) /\ Escrow(d) = Total(held)
  BY <1>1, <1>3, EscrowParts
<1>5. held[z] = Holds(z, d) /\ \A y \in Live \ {z} : held[y] = K[y]
  BY <1>3 DEF Held
<1>6. PICK r \in Quantity : Total(held) = held[z] (+) r /\ Total(K) = K[z] (+) r
  BY <1>4, <1>5, TotalChange
<1>7. PICK q \in Quantity : q = held[z]
  BY <1>3
<1>8. Wealth(d) = p (+) (q (+) r) /\ Wealth(d)' = (p (+) g) (+) ((q (-) c) (+) r)
  BY <1>2, <1>4, <1>5, <1>6, <1>7 DEF Wealth
<1>9. \/ (p (+) g) (+) ((q (-) c) (+) r) = p (+) (q (+) r)
      \/ (p (+) g) (+) ((q (-) c) (+) r) \prec p (+) (q (+) r)
  BY LossOnly
<1>. QED
  BY <1>8, <1>9

(* What the offers of before a trade hold after it.                        *)
HeldAfter(d) == [y \in Live |-> IF offerBid[y].denom = d THEN Bidden(y)' ELSE Zero]

LEMMA EscrowAfter ==
  ASSUME MarketInv, MarketInv', NEW o, NEW x, NEW to, NEW tx, NEW done,
         TradeOf(o, to, x, tx, done), UNCHANGED threadVars, NEW d \in Denom
  PROVE  /\ HeldAfter(d) \in [Live -> Quantity]
         /\ Escrow(d)' = Total(HeldAfter(d))
         /\ \A y \in Live \ {o, x} : HeldAfter(d)[y] = Holds(y, d)
<1>1. /\ BookInv /\ BookInv' /\ o \in Live /\ x \in Live
      /\ Live' = Live \ done /\ done \in SUBSET {o, x}
  BY TradeKeeps DEF MarketInv, TradeOf
<1>2. PICK K : K = HeldAfter(d)
  OBVIOUS
<1>3. ASSUME NEW y \in Live \ {o, x}
      PROVE  offerBid'[y] = offerBid[y] /\ Bidden(y)' = offerBid[y].quant
             /\ offerBid[y].quant \in Quantity
  <2>1. offerBid'[y] = offerBid[y]
    BY <1>1, LiveOffer DEF TradeOf, DestroyOffers, After
  <2>2. offerBid[y] # None /\ offerBid[y].quant \in Positive
    BY <1>1, LiveOffer DEF Value
  <2>. QED
    BY <2>1, <2>2, PositiveParts DEF Bidden
<1>4. ASSUME NEW y \in {o, x}
      PROVE  /\ Bidden(y)' \in Quantity
             /\ y \in done => Bidden(y)' = Zero
             /\ y \notin done => /\ offerBid'[y].denom = offerBid[y].denom
                                 /\ Bidden(y)' = offerBid'[y].quant
  <2>1. PICK theta : theta = IF y = o THEN to ELSE tx
    OBVIOUS
  <2>2. /\ Bidden(y) \in Positive /\ theta \in Positive
        /\ Bidden(y)' = Bidden(y) (-) (Bidden(y) (\X) theta)
    BY <1>1, <2>1, TradeOfOffer
  <2>3. Bidden(y) (-) (Bidden(y) (\X) theta) \in Quantity
    BY <2>2, TimesPositive, PositiveParts, MinusQuantity
  <2>4. y \in done => Bidden(y)' = Zero
    <3>1. y \in Offer
      BY <1>1, LiveOffer
    <3>2. y \in done => offerBid'[y] = None
      BY <3>1 DEF TradeOf, DestroyOffers
    <3>. QED
      BY <3>2 DEF Bidden
  <2>5. ASSUME y \notin done
        PROVE  offerBid'[y].denom = offerBid[y].denom /\ Bidden(y)' = offerBid'[y].quant
    <3>1. offerBid[y] \in Value /\ y \in Offer
      BY <1>1, LiveOffer
    <3>2. offerBid'[y] = Rest(offerBid[y], theta)
      BY <1>1, <2>1, <2>5, <3>1 DEF TradeOf, DestroyOffers, After
    <3>3. Rest(offerBid[y], theta).denom = offerBid[y].denom
      BY <2>2, <3>1, PartAndRest
    <3>4. offerBid'[y] # None
      BY <1>1, <2>5 DEF BookInv, OfferTablesAgree, Live
    <3>. QED
      BY <3>2, <3>3, <3>4 DEF Bidden
  <2>. QED
    BY <2>2, <2>3, <2>4, <2>5
<1>5. K \in [Live -> Quantity]
  BY <1>2, <1>3, <1>4, EmptyPortfolio DEF HeldAfter
<1>6. \A y \in done : K[y] = Zero
  BY <1>1, <1>2, <1>4 DEF HeldAfter
<1>7. Held(d)' = [y \in Live \ done |-> K[y]]
  BY <1>1, <1>2, <1>3, <1>4 DEF Held, Holds, HeldAfter
<1>8. Total(K) = Total([y \in Live \ done |-> K[y]])
  <2>1. IsFiniteSet(Live)
    BY <1>1, EscrowParts
  <2>2. o \in Live /\ x \in Live /\ done \in SUBSET {o, x}
    BY <1>1
  <2>. QED
    BY SMTT(30), <1>5, <1>6, <2>1, <2>2, TotalDropTwo
<1>9. Escrow(d)' = Total(Held(d)')
  BY <1>1, EscrowPartsNext
<1>10. \A y \in Live \ {o, x} : K[y] = Holds(y, d)
  BY <1>2, <1>3 DEF HeldAfter, Holds
<1>. QED
  BY <1>2, <1>5, <1>7, <1>8, <1>9, <1>10

LEMMA TradeNeverMakesValue ==
  ASSUME MarketInv, MarketInv', RatioExact, NEW o, NEW x, NEW to, NEW tx, NEW done,
         TradeOf(o, to, x, tx, done), UNCHANGED <<noteVars, threadVars>>, NEW d \in Denom
  PROVE  Wealth(d)' = Wealth(d) \/ Wealth(d)' \prec Wealth(d)
<1>1. /\ BookInv /\ BookInv' /\ TypeOK /\ TypeOK' /\ o \in Live /\ x \in Live /\ o # x
      /\ noteValue' = noteValue /\ UNCHANGED threadVars
  BY DEF MarketInv, LedgerInv, TradeOf, noteVars
<1>2. PICK K \in [Live -> Quantity] : K = HeldAfter(d)
  BY <1>1, EscrowAfter
<1>3. Escrow(d)' = Total(K) /\ \A y \in Live \ {o, x} : K[y] = Holds(y, d)
  BY <1>1, <1>2, EscrowAfter
<1>4. /\ offerAsk[o].denom # offerAsk[x].denom
      /\ offerBid[o].denom = offerAsk[x].denom /\ offerBid[x].denom = offerAsk[o].denom
      /\ Gain(o, to) \in Quantity /\ Gain(x, tx) \in Quantity
      /\ offerIssuer[o] \in Acct /\ offerIssuer[x] \in Acct
      /\ \A u \in Acct :
           acctValue'[u][d] =
             IF u = offerIssuer[o] /\ d = offerAsk[o].denom
               THEN acctValue[u][d] (+) Gain(o, to)
             ELSE IF u = offerIssuer[x] /\ d = offerAsk[x].denom
               THEN acctValue[u][d] (+) Gain(x, tx)
             ELSE acctValue[u][d]
  BY TradeBalances, PositiveParts
<1>5. /\ Gain(o, to) \preceq (Bidden(x) (\X) tx)
      /\ Gain(x, tx) \preceq (Bidden(o) (\X) to)
  BY TradePays
<1>6. /\ Bidden(o) = offerBid[o].quant /\ Bidden(o) (\X) to \in Quantity
      /\ Bidden(o)' = Bidden(o) (-) (Bidden(o) (\X) to)
      /\ Bidden(x) = offerBid[x].quant /\ Bidden(x) (\X) tx \in Quantity
      /\ Bidden(x)' = Bidden(x) (-) (Bidden(x) (\X) tx)
  <2>1. /\ Bidden(o) = offerBid[o].quant /\ Bidden(o) \in Positive /\ to \in Positive
        /\ Bidden(o)' = Bidden(o) (-) (Bidden(o) (\X) to)
    BY <1>1, TradeOfOffer
  <2>2. tx = IF x = o THEN to ELSE tx
    BY <1>1
  <2>3. /\ Bidden(x) = offerBid[x].quant /\ Bidden(x) \in Positive /\ tx \in Positive
        /\ Bidden(x)' = Bidden(x) (-) (Bidden(x) (\X) tx)
    BY <1>1, <2>2, TradeOfOffer
  <2>. QED
    BY <2>1, <2>3, TimesPositive, PositiveParts
<1>7. CASE d = offerAsk[o].denom
  <2>1. K[x] = Holds(x, d) (-) (Bidden(x) (\X) tx) /\ K[o] = Holds(o, d)
    BY <1>1, <1>2, <1>4, <1>6, <1>7 DEF HeldAfter, Holds
  <2>2. \A y \in Live \ {x} : K[y] = Holds(y, d)
    BY <1>3, <2>1
  <2>3. /\ acctValue'[offerIssuer[o]][d] = acctValue[offerIssuer[o]][d] (+) Gain(o, to)
        /\ \A w \in Acct \ {offerIssuer[o]} : acctValue'[w][d] = acctValue[w][d]
    BY <1>4, <1>7
  <2>. QED
    BY <1>1, <1>3, <1>4, <1>5, <1>6, <2>1, <2>2, <2>3, SideLoss
<1>8. CASE d = offerAsk[x].denom
  <2>1. K[o] = Holds(o, d) (-) (Bidden(o) (\X) to) /\ K[x] = Holds(x, d)
    BY <1>1, <1>2, <1>4, <1>6, <1>8 DEF HeldAfter, Holds
  <2>2. \A y \in Live \ {o} : K[y] = Holds(y, d)
    BY <1>3, <2>1
  <2>3. /\ acctValue'[offerIssuer[x]][d] = acctValue[offerIssuer[x]][d] (+) Gain(x, tx)
        /\ \A w \in Acct \ {offerIssuer[x]} : acctValue'[w][d] = acctValue[w][d]
    BY <1>4, <1>8
  <2>. QED
    BY <1>1, <1>3, <1>4, <1>5, <1>6, <2>1, <2>2, <2>3, SideLoss
<1>9. CASE d # offerAsk[o].denom /\ d # offerAsk[x].denom
  <2>1. K[o] = Holds(o, d) /\ K[x] = Holds(x, d)
    BY <1>1, <1>2, <1>4, <1>9 DEF HeldAfter, Holds
  <2>2. \A y \in Live : K[y] = Holds(y, d)
    BY <1>3, <2>1
  <2>3. K = Held(d)
    BY <1>2, <2>2 DEF Held, HeldAfter
  <2>4. Escrow(d)' = Escrow(d)
    BY <1>1, <1>3, <2>3, EscrowParts
  <2>5. Supply(d)' = Supply(d)
    BY <1>1, <1>4, <1>9, SupplyKept
  <2>. QED
    BY <2>4, <2>5 DEF Wealth
<1>. QED
  BY <1>7, <1>8, <1>9

(* Commands of the ledger leave the offers alone.                          *)
LEMMA WealthSteps ==
  ASSUME MarketInv, RatioExact, [Next]_vars, NEW d \in Denom
  PROVE  \/ Wealth(d)' = Wealth(d)
         \/ Wealth(d)' \prec Wealth(d) /\ \E p \in Pair : Trade(p)
         \/ TransferCommand
         \/ \E u \in acctPromise, w \in Acct : AcctDestroy(u, w)
<1>0. MarketInv' /\ LedgerInv /\ TypeOK'
  BY MarketStep DEF MarketInv, LedgerInv
<1>1. ASSUME UNCHANGED bookVars PROVE Escrow(d)' = Escrow(d)
  BY <1>1 DEF bookVars, Escrow, Live
<1>2. CASE LedgerCommand
  <2>1. \/ Supply(d)' = Supply(d)
        \/ TransferCommand
        \/ \E u \in acctPromise, w \in Acct : AcctDestroy(u, w)
    BY <1>0, <1>2, SupplySteps DEF LedgerCommand
  <2>2. Escrow(d)' = Escrow(d)
    BY <1>1, <1>2 DEF LedgerCommand
  <2>. QED
    BY <2>1, <2>2 DEF Wealth
<1>3. CASE UNCHANGED ledgerVars /\ UNCHANGED bookVars
  <2>1. acctValue' = acctValue /\ noteValue' = noteValue
    BY <1>3 DEF ledgerVars, noteVars
  <2>2. Supply(d)' = Supply(d)
    BY <1>0, <2>1, SupplyKept DEF LedgerInv
  <2>. QED
    BY <1>1, <1>3, <2>2 DEF Wealth
<1>4. ASSUME NEW o \in Live, NEW x \in Live, NEW to, NEW tx, NEW done,
             TradeOf(o, to, x, tx, done), UNCHANGED <<acctVars, denomVars, noteVars, threadVars>>
      PROVE  Wealth(d)' = Wealth(d) \/ Wealth(d)' \prec Wealth(d)
  BY <1>0, <1>4, TradeNeverMakesValue
<1>. QED
  BY <1>0, <1>2, <1>3, <1>4, CreateKeepsWealth, CancelKeepsWealth, MarketActions

(* Over balances, notes and offers together, value is made and destroyed   *)
(* by credit, debit and acct_destroy alone, and a trade may lose some but  *)
(* never makes any: whatever the sequence of fills and cancellations, an   *)
(* offer gives back no more than it holds.                                 *)
THEOREM WealthKept == Spec => WealthAccounted
<1>1. MarketInv /\ RatioExact /\ [Next]_vars
        => [\A d \in Denom :
              \/ Wealth(d)' = Wealth(d)
              \/ Wealth(d)' \prec Wealth(d) /\ \E p \in Pair : Trade(p)
              \/ TransferCommand
              \/ \E u \in acctPromise, w \in Acct : AcctDestroy(u, w)
           ]_<<acctValue, noteValue, offerBid>>
  BY WealthSteps
<1>. QED
  BY <1>1, MarketInvariant, RatioInvariant, PTL DEF Spec, WealthAccounted

(* The whole system, from its tables to its traders, keeps account of all  *)
(* value: nothing in it is made, moved or overdrawn but as the commands    *)
(* report it.                                                              *)
THEOREM WholeSystemAccounted == Spec => SystemAccounted
BY WealthKept, MarketAudited, MarketOverdrafts DEF SystemAccounted
=============================================================================
