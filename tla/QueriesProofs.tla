---------------------------- MODULE QueriesProofs ----------------------------
(***************************************************************************)
(* Theorems about what clients read: the commands that query the tables    *)
(* of the ledger and of the market, and the log of events.                 *)
(***************************************************************************)
EXTENDS Queries, EventLog, MarketProofs

-----------------------------------------------------------------------------
(* The tests of a query                                                    *)

(* The first test that fails gives the answer.                             *)
LEMMA FirstFailure ==
  ASSUME NEW n \in Nat, NEW tests, NEW data, DOMAIN tests = 1 .. n,
         NEW i \in 1 .. n, ~tests[i][1], \A j \in 1 .. n : j < i => tests[j][1]
  PROVE  Answer(tests, data) = [code |-> tests[i][2]]
<1> DEFINE failed == {j \in DOMAIN tests : ~tests[j][1]}
<1>1. i \in failed /\ \A j \in failed : i <= j
  OBVIOUS
<1>2. \A k \in failed : (\A j \in failed : k <= j) => k = i
  <2> SUFFICES ASSUME NEW k \in failed, \A j \in failed : k <= j PROVE k = i
    OBVIOUS
  <2>1. k <= i /\ i <= k /\ k \in Int /\ i \in Int
    BY <1>1
  <2>. QED
    BY <2>1
<1>3. (CHOOSE k \in failed : \A j \in failed : k <= j) = i
  BY <1>1, <1>2
<1>4. failed # {}
  BY <1>1
<1>. QED
  BY <1>3, <1>4 DEF Answer

LEMMA FirstTestFails ==
  ASSUME NEW n \in Nat, NEW tests, NEW data, DOMAIN tests = 1 .. n, 1 \in 1 .. n, ~tests[1][1]
  PROVE  Answer(tests, data) = [code |-> tests[1][2]]
<1>1. \A j \in 1 .. n : j < 1 => tests[j][1]
  OBVIOUS
<1>2. ASSUME NEW i, i = 1 PROVE Answer(tests, data) = [code |-> tests[i][2]]
  <2>1. i \in 1 .. n /\ ~tests[i][1] /\ \A j \in 1 .. n : j < i => tests[j][1]
    BY <1>1, <1>2
  <2>. QED
    BY <2>1, FirstFailure
<1>. QED
  BY <1>2

LEMMA NoFailure ==
  ASSUME NEW n \in Nat, NEW tests, NEW data, DOMAIN tests = 1 .. n,
         \A j \in 1 .. n : tests[j][1]
  PROVE  Answer(tests, data) = [code |-> "success", data |-> data]
BY DEF Answer

(* A set of positions has a first one.                                     *)
LEMMA FirstPosition ==
  ASSUME NEW n \in Nat, NEW S \in SUBSET (1 .. n), S # {}
  PROVE  \E i \in S : \A j \in S : i <= j
<1>1. IsFiniteSet(S)
  <2>1. IsFiniteSet(1 .. n)
    BY FS_Interval
  <2>. QED
    BY <2>1, FS_Subset
<1> DEFINE f == [i \in S |-> <<i, 1>>]
<1>2. f \in [S -> Quantity] /\ \A i \in S : f[i] = <<i, 1>>
  BY DEF Quantity
<1>3. \A i, j \in S : f[i] \preceq f[j] => i <= j
  BY <1>2 DEF \preceq
<1> HIDE DEF f
<1>. QED
  BY ZenonT(40), <1>1, <1>2, <1>3, LeastOfFinite

(* A query gives up with a database error only at a row that is missing    *)
(* although no earlier test has failed.                                    *)
LEMMA NoDatabaseError ==
  ASSUME NEW n \in Nat, NEW tests, NEW data, DOMAIN tests = 1 .. n,
         \A i \in 1 .. n :
           tests[i][1] \/ tests[i][2] # "db" \/ \E j \in 1 .. n : j < i /\ ~tests[j][1]
  PROVE  Answer(tests, data).code # "db"
<1>1. CASE \A i \in 1 .. n : tests[i][1]
  BY <1>1, NoFailure
<1>2. CASE ~\A i \in 1 .. n : tests[i][1]
  <2> DEFINE failed == {i \in 1 .. n : ~tests[i][1]}
  <2>1. PICK i \in failed : \A j \in failed : i <= j
    BY <1>2, FirstPosition
  <2>2. \A j \in 1 .. n : j < i => tests[j][1]
    BY <2>1
  <2>3. Answer(tests, data) = [code |-> tests[i][2]]
    BY <2>1, <2>2, FirstFailure
  <2>. QED
    BY <2>1, <2>2, <2>3
<1>. QED
  BY <1>1, <1>2

(* A query that succeeds prints its data.                                  *)
LEMMA SuccessfulAnswer ==
  ASSUME NEW n \in Nat, NEW tests, NEW data, DOMAIN tests = 1 .. n,
         \A i \in 1 .. n : tests[i][2] # "success",
         Answer(tests, data).code = "success"
  PROVE  Answer(tests, data).data = data
<1>1. CASE \A i \in 1 .. n : tests[i][1]
  BY <1>1, NoFailure
<1>2. CASE ~\A i \in 1 .. n : tests[i][1]
  <2> DEFINE failed == {i \in 1 .. n : ~tests[i][1]}
  <2>1. PICK i \in failed : \A j \in failed : i <= j
    BY <1>2, FirstPosition
  <2>2. \A j \in 1 .. n : j < i => tests[j][1]
    BY <2>1
  <2>3. Answer(tests, data) = [code |-> tests[i][2]]
    BY <2>1, <2>2, FirstFailure
  <2>. QED
    BY <2>1, <2>3
<1>. QED
  BY <1>1, <1>2

-----------------------------------------------------------------------------
(* The rows that queries read                                              *)

(* Flags and a modulus are there exactly while the account is, its promise *)
(* for ever, its secret no longer than it; a denomination has a promise    *)
(* exactly while it has an issuer.                                         *)
RowsExact ==
  /\ QueriesTypeOK
  /\ \A w \in Acct : acctFlags[w] # None <=> w \in acctPublic
  /\ acctPublic \subseteq acctPromise
  /\ acctSecret \subseteq acctPublic
  /\ \A d \in Denom : denomText[d] # None <=> denomIssuer[d] # None

QueriesInv == MarketInv /\ RatioExact /\ RowsExact

(* A command that writes a descriptive row only.                           *)
LEMMA DescriptionOnly ==
  ASSUME MarketInv, RatioExact,
         UNCHANGED <<acctVars, acctValue, denomVars, noteVars, bookVars, threadVars>>
  PROVE  MarketInv' /\ RatioExact'
<1> USE DEF acctVars, denomVars, noteVars, bookVars, threadVars
<1>1. LedgerInv'
  BY DEF MarketInv, LedgerInv, TypeOK, NoteIndexExact, DenomIndexComplete, NotesBacked,
         IdentifiersSpent, ModulusOfExisting, NotesHoldNoDebt
<1>2. BookInv'
  BY DEF MarketInv, BookInv, OfferTablesAgree, MarketTypeOK, Live, PairOf
<1>3. RatioExact'
  BY DEF RatioExact
<1>. QED
  BY <1>1, <1>2, <1>3 DEF MarketInv

(* The commands of the market, with the descriptive rows they write.       *)
LEMMA QueriesSteps ==
  ASSUME [QueriesNext]_queryVars
  PROVE  [Next]_vars \/ UNCHANGED <<acctVars, acctValue, denomVars, noteVars, bookVars, threadVars>>
<1>1. CASE TextCommand
  <2>1. PICK u \in acctPromise, w \in Acct, d \in Denom, T \in SUBSET Text :
          \/ CreateAcct(u, w) \/ RemoveAcct(u, w)
          \/ AcctSetPromise(u, w, T) \/ AcctSetSecret(u, w)
          \/ CreateDenom(u, d) \/ RemoveDenom(u, d)
          \/ DenomSetPromise(u, d, T)
    BY <1>1 DEF TextCommand
  <2>2. UNCHANGED <<bookVars, threadVars>>
    BY <1>1 DEF TextCommand
  <2>3. CASE AcctSetPromise(u, w, T) \/ AcctSetSecret(u, w) \/ DenomSetPromise(u, d, T)
    BY <2>2, <2>3 DEF AcctSetPromise, AcctSetSecret, DenomSetPromise
  <2>4. CASE CreateAcct(u, w) \/ RemoveAcct(u, w)
    <3>1. AcctCommand
      BY <2>4 DEF AcctCommand, CreateAcct, RemoveAcct
    <3>. QED
      BY <2>2, <3>1 DEF Next, Running, LedgerCommand, LedgerNext
  <2>5. CASE CreateDenom(u, d) \/ RemoveDenom(u, d)
    <3>1. DenomCommand
      BY <2>5 DEF DenomCommand, CreateDenom, RemoveDenom
    <3>. QED
      BY <2>2, <3>1 DEF Next, Running, LedgerCommand, LedgerNext
  <2>. QED
    BY <2>1, <2>3, <2>4, <2>5
<1>2. CASE PlainCommand
  <2>1. SetCommand => AcctCommand \/ DenomCommand
    BY DEF SetCommand, AcctCommand, DenomCommand
  <2>. QED
    BY <1>2, <2>1 DEF PlainCommand, Next, Running, LedgerCommand, LedgerNext
<1>3. CASE BookCommand \/ Restart
  BY <1>3 DEF BookCommand, Next, Running
<1>4. CASE UNCHANGED queryVars
  BY <1>4 DEF queryVars
<1>. QED
  BY <1>1, <1>2, <1>3, <1>4 DEF QueriesNext

(* Offers and their traders leave accounts and denominations alone.        *)
LEMMA BookKeepsRows ==
  ASSUME (BookCommand \/ Restart)
  PROVE  UNCHANGED <<acctVars, denomVars>>
<1>1. OfferCommand => UNCHANGED <<acctVars, denomVars>>
  <2>1. ASSUME NEW u, NEW o, NEW ask, NEW bid, OfferCreate(u, ask, bid, o)
        PROVE  UNCHANGED <<acctVars, denomVars>>
    BY <2>1, Zenon DEF OfferCreate
  <2>2. ASSUME NEW u, NEW o, OfferDestroy(u, o) PROVE UNCHANGED <<acctVars, denomVars>>
    BY <2>2, Zenon DEF OfferDestroy
  <2>. QED
    BY <2>1, <2>2, Zenon DEF OfferCommand
<1>2. ASSUME NEW p \in Pair, MarketSignal(p) \/ TraderStep(p) PROVE UNCHANGED <<acctVars, denomVars>>
  <2>1. Trade(p) => UNCHANGED <<acctVars, denomVars>>
    BY DEF Trade
  <2>2. MarketSignal(p) \/ TraderExit(p) => UNCHANGED <<acctVars, denomVars>>
    BY DEF MarketSignal, TraderExit, ledgerVars
  <2>. QED
    BY <1>2, <2>1, <2>2 DEF TraderStep
<1>3. Restart => UNCHANGED <<acctVars, denomVars>>
  BY DEF Restart, ledgerVars
<1>. QED
  BY <1>1, <1>2, <1>3 DEF BookCommand

LEMMA RowsStep ==
  ASSUME TypeOK, RowsExact, [QueriesNext]_queryVars
  PROVE  RowsExact'
<1> USE DEF acctVars, denomVars, textVars
<1>1. ASSUME UNCHANGED <<acctVars, denomVars, textVars>> PROVE RowsExact'
  BY <1>1 DEF RowsExact, QueriesTypeOK
<1>2. acctPromise \subseteq Acct
  BY DEF TypeOK
<1>3. \A F \in SUBSET Flag : F # None
  BY NoneAssumption
<1>4. \A T \in SUBSET Text : T # None
  BY TextAssumption
<1>5. ASSUME NEW u \in acctPromise, NEW w \in Acct, CreateAcct(u, w) PROVE RowsExact'
  BY <1>3, <1>4, <1>5 DEF RowsExact, QueriesTypeOK, TypeOK, CreateAcct, AcctCreate
<1>6. ASSUME NEW u \in acctPromise, NEW w \in Acct, RemoveAcct(u, w) PROVE RowsExact'
  BY <1>6 DEF RowsExact, QueriesTypeOK, TypeOK, RemoveAcct, AcctDestroy, DestroyAcct
<1>7. ASSUME NEW u \in acctPromise, NEW w \in Acct, NEW T \in SUBSET Text,
             AcctSetPromise(u, w, T) \/ AcctSetSecret(u, w)
      PROVE  RowsExact'
  <2>1. CASE AcctSetPromise(u, w, T)
    BY <1>4, <2>1 DEF RowsExact, QueriesTypeOK, TypeOK, AcctSetPromise, MaySetAcct
  <2>2. CASE AcctSetSecret(u, w)
    BY <2>2 DEF RowsExact, QueriesTypeOK, AcctSetSecret, MaySetAcct
  <2>. QED
    BY <1>7, <2>1, <2>2
<1>8. ASSUME NEW u \in acctPromise, NEW d \in Denom, CreateDenom(u, d) \/ RemoveDenom(u, d)
      PROVE  RowsExact'
  <2>1. u \in Acct /\ u # None
    BY <1>2, NoneAssumption
  <2>2. CASE CreateDenom(u, d)
    BY <1>4, <2>1, <2>2 DEF RowsExact, QueriesTypeOK, TypeOK, CreateDenom, DenomCreate, SetDenomIssuer
  <2>3. CASE RemoveDenom(u, d)
    BY <2>3 DEF RowsExact, QueriesTypeOK, TypeOK, RemoveDenom, DenomDestroy
  <2>. QED
    BY <1>8, <2>2, <2>3
<1>9. ASSUME NEW u \in acctPromise, NEW d \in Denom, NEW T \in SUBSET Text, DenomSetPromise(u, d, T)
      PROVE  RowsExact'
  BY <1>4, <1>9 DEF RowsExact, QueriesTypeOK, DenomSetPromise
<1>10. CASE TextCommand
  BY <1>5, <1>6, <1>7, <1>8, <1>9, <1>10 DEF TextCommand
<1>11. CASE PlainCommand
  <2>1. CASE TransferCommand \/ NoteCommand
    BY ZenonT(40), <1>1, <1>11, <2>1
       DEF PlainCommand, TransferCommand, NoteCommand, Credit, Debit, NoteWithdraw, NoteDeposit
  <2>2. ASSUME NEW u \in acctPromise, NEW w \in Acct, NEW F \in FlagSets, AcctSetFlags(u, w, F),
               UNCHANGED textVars
        PROVE  RowsExact'
    BY <1>3, <2>2, FlagSetsAssumption DEF RowsExact, QueriesTypeOK, TypeOK, AcctSetFlags
  <2>3. ASSUME NEW u \in acctPromise, NEW w \in Acct, NEW m, AcctSetModulus(u, w, m),
               UNCHANGED textVars
        PROVE  RowsExact'
    BY <2>3 DEF RowsExact, QueriesTypeOK, AcctSetModulus
  <2>4. ASSUME NEW u \in acctPromise, NEW d \in Denom, NEW w \in Acct, DenomSetIssuer(u, d, w),
               UNCHANGED textVars
        PROVE  RowsExact'
    BY <2>4, NoneAssumption DEF RowsExact, QueriesTypeOK, TypeOK, DenomSetIssuer, SetDenomIssuer
  <2>. QED
    BY <1>11, <2>1, <2>2, <2>3, <2>4 DEF PlainCommand, SetCommand
<1>12. CASE BookCommand \/ (Restart /\ UNCHANGED textVars)
  <2>1. UNCHANGED <<acctVars, denomVars>>
    BY <1>12, BookKeepsRows
  <2>2. UNCHANGED textVars
    BY <1>12 DEF BookCommand
  <2>. QED
    BY <1>1, <2>1, <2>2
<1>13. CASE UNCHANGED queryVars
  BY <1>1, <1>13 DEF queryVars, vars, ledgerVars
<1>. QED
  BY <1>10, <1>11, <1>12, <1>13 DEF QueriesNext

LEMMA QueriesInvariant == QueriesSpec => []QueriesInv
<1>1. QueriesInit => QueriesInv
  <2>1. QueriesInit => MarketInv /\ RatioExact
    BY MarketInit DEF QueriesInit, Init, BookInit, RatioExact
  <2>2. QueriesInit => RowsExact
    BY RootAssumption, NoneAssumption, TextAssumption
       DEF QueriesInit, Init, LedgerInit, TextInit, RowsExact, QueriesTypeOK, Flag
  <2>. QED
    BY <2>1, <2>2 DEF QueriesInv
<1>2. QueriesInv /\ [QueriesNext]_queryVars => QueriesInv'
  <2> SUFFICES ASSUME QueriesInv, [QueriesNext]_queryVars PROVE QueriesInv'
    OBVIOUS
  <2>1. RowsExact'
    BY RowsStep DEF QueriesInv, MarketInv, LedgerInv
  <2>2. MarketInv' /\ RatioExact'
    BY QueriesSteps, MarketStep, RatioStep, DescriptionOnly DEF QueriesInv
  <2>. QED
    BY <2>1, <2>2 DEF QueriesInv
<1>. QED
  BY <1>1, <1>2, PTL DEF QueriesSpec

-----------------------------------------------------------------------------
(* No query of an existing account meets a missing row                     *)

LEMMA AcctReadAnswered ==
  ASSUME QueriesInv, NEW u \in acctPublic, NEW w \in Acct
  PROVE  acct_read(u, w).code # "db"
<1>1. w \in acctPublic =>
        acctModulus[w] # None /\ acctText[w] # None /\ acctFlags[w] # None
  BY DEF QueriesInv, MarketInv, LedgerInv, ModulusOfExisting, RowsExact, QueriesTypeOK
<1>2. acctFlags[u] # None
  BY DEF QueriesInv, MarketInv, LedgerInv, TypeOK, RowsExact
<1> DEFINE t == << <<w \in acctPublic, "notfound">>,
                   <<acctModulus[w] # None, "db">>,
                   <<acctText[w] # None, "db">>,
                   <<acctFlags[w] # None, "db">>,
                   <<acctFlags[u] # None, "db">> >>
<1>3. DOMAIN t = 1 .. 5 /\ 5 \in Nat /\ 1 \in 1 .. 5
  OBVIOUS
<1>4. \A i \in 1 .. 5 : i = 1 \/ i = 2 \/ i = 3 \/ i = 4 \/ i = 5
  OBVIOUS
<1>5. /\ t[1][1] = (w \in acctPublic) /\ t[1][2] = "notfound"
      /\ t[2][1] = (acctModulus[w] # None)
      /\ t[3][1] = (acctText[w] # None)
      /\ t[4][1] = (acctFlags[w] # None)
      /\ t[5][1] = (acctFlags[u] # None)
  OBVIOUS
<1> HIDE DEF t
<1>6. \A i \in 1 .. 5 : t[i][1] \/ t[i][2] # "db" \/ \E j \in 1 .. 5 : j < i /\ ~t[j][1]
  <2>1. CASE w \in acctPublic
    BY <1>1, <1>2, <1>4, <1>5, <2>1
  <2>2. CASE w \notin acctPublic
    <3>1. ~t[1][1] /\ t[1][2] # "db"
      BY <1>5, <2>2
    <3>2. \A i \in 1 .. 5 : i = 1 \/ 1 < i
      OBVIOUS
    <3>. QED
      BY <1>3, <3>1, <3>2
  <2>. QED
    BY <2>1, <2>2
<1>7. \A data : Answer(t, data).code # "db"
  BY <1>3, <1>6, NoDatabaseError
<1>. QED
  BY <1>7 DEF t, acct_read

(* The three tests of a listing.                                           *)
LEMMA ListingTests ==
  ASSUME NEW u, NEW w
  PROVE  /\ DOMAIN About(u, w) = 1 .. 3
         /\ \A i \in 1 .. 3 : i = 1 \/ i = 2 \/ i = 3
         /\ About(u, w)[1][1] = (u = w \/ acctFlags[u] # None)
         /\ About(u, w)[2][1] = (u = w \/ Super(u)) /\ About(u, w)[2][2] = "noauth"
         /\ About(u, w)[3][1] = (u = w \/ w \in acctPublic) /\ About(u, w)[3][2] = "notfound"
BY DEF About

LEMMA NoteListAnswered ==
  ASSUME QueriesInv, NEW u \in acctPublic, NEW w \in Acct
  PROVE  note_list(u, w).code # "db"
<1>1. acctFlags[u] # None
  BY DEF QueriesInv, MarketInv, LedgerInv, TypeOK, RowsExact
<1> DEFINE t == About(u, w)
<1>2. DOMAIN t = 1 .. 3 /\ 3 \in Nat /\ t[2][2] = "noauth" /\ t[3][2] = "notfound"
  BY ListingTests
<1>3. t[1][1]
  BY <1>1, ListingTests
<1>4. \A i \in 1 .. 3 : i = 1 \/ i = 2 \/ i = 3
  OBVIOUS
<1> HIDE DEF t
<1>5. \A i \in 1 .. 3 : t[i][1] \/ t[i][2] # "db"
  BY <1>2, <1>3, <1>4
<1>6. \A data : Answer(t, data).code # "db"
  BY <1>2, <1>5, NoDatabaseError
<1>. QED
  BY <1>6 DEF t, note_list

LEMMA NoteReadAnswered ==
  ASSUME QueriesInv, NEW n \in Note
  PROVE  note_read_signed(n).code # "db"
<1>1. noteIssuer[n] # None =>
        noteIssuer[n] \in {w \in Acct : acctModulus[w] # None} /\ noteIssuer[n] \in acctPublic
  BY DEF QueriesInv, MarketInv, LedgerInv, NotesBacked, TypeOK
<1> DEFINE t == << <<noteIssuer[n] # None, "notfound">>,
                   <<noteIssuer[n] \in {w \in Acct : acctModulus[w] # None}, "db">>,
                   <<noteIssuer[n] \in acctPublic, "db">>,
                   <<noteIssuer[n] \in {w \in Acct : acctModulus[w] = "usable"}, "noauth">> >>
<1>2. DOMAIN t = 1 .. 4 /\ 4 \in Nat /\ 1 \in 1 .. 4
  OBVIOUS
<1>3. \A i \in 1 .. 4 : i = 1 \/ i = 2 \/ i = 3 \/ i = 4
  OBVIOUS
<1>4. /\ t[1][1] = (noteIssuer[n] # None) /\ t[1][2] = "notfound"
      /\ t[2][1] = (noteIssuer[n] \in {w \in Acct : acctModulus[w] # None})
      /\ t[3][1] = (noteIssuer[n] \in acctPublic)
      /\ t[4][2] = "noauth"
  OBVIOUS
<1> HIDE DEF t
<1>5. \A i \in 1 .. 4 : t[i][1] \/ t[i][2] # "db" \/ \E j \in 1 .. 4 : j < i /\ ~t[j][1]
  <2>1. CASE noteIssuer[n] # None
    BY <1>1, <1>3, <1>4, <2>1
  <2>2. CASE noteIssuer[n] = None
    <3>1. ~t[1][1] /\ t[1][2] # "db"
      BY <1>4, <2>2
    <3>2. \A i \in 1 .. 4 : i = 1 \/ 1 < i
      OBVIOUS
    <3>. QED
      BY <1>2, <3>1, <3>2
  <2>. QED
    BY <2>1, <2>2
<1>6. \A data : Answer(t, data).code # "db"
  BY <1>2, <1>5, NoDatabaseError
<1>. QED
  BY <1>6 DEF t, note_read_signed

(* A denomination and an offer are read as soon as they exist.             *)
LEMMA DenomRead ==
  ASSUME QueriesInv, NEW d \in Denom
  PROVE  /\ denomIssuer[d] = None => denom_read(d) = [code |-> "notfound"]
         /\ denomIssuer[d] # None =>
              denom_read(d) = [code |-> "success",
                               data |-> [issuer |-> denomIssuer[d], promise |-> denomText[d]]]
<1>1. denomIssuer[d] # None => denomText[d] # None
  BY DEF QueriesInv, RowsExact
<1> DEFINE t == << <<denomIssuer[d] # None, "notfound">>, <<denomText[d] # None, "db">> >>
<1>2. /\ DOMAIN t = 1 .. 2 /\ 2 \in Nat /\ 1 \in 1 .. 2
      /\ \A i \in 1 .. 2 : (i = 1 \/ i = 2) /\ ~(i < 1)
  OBVIOUS
<1>3. /\ t[1][1] = (denomIssuer[d] # None) /\ t[1][2] = "notfound"
      /\ t[2][1] = (denomText[d] # None)
  OBVIOUS
<1> HIDE DEF t
<1>4. denomIssuer[d] = None => ~t[1][1]
  BY <1>3
<1>5. denomIssuer[d] # None => \A i \in 1 .. 2 : t[i][1]
  BY <1>1, <1>2, <1>3
<1>6. /\ denomIssuer[d] = None => \A data : Answer(t, data) = [code |-> "notfound"]
      /\ denomIssuer[d] # None => \A data : Answer(t, data) = [code |-> "success", data |-> data]
  <2>1. ASSUME denomIssuer[d] = None, NEW data PROVE Answer(t, data) = [code |-> "notfound"]
    <3>1. ~t[1][1]
      BY <1>4, <2>1
    <3>2. Answer(t, data) = [code |-> t[1][2]]
      BY <1>2, <3>1, FirstTestFails
    <3>. QED
      BY <1>3, <3>2
  <2>2. ASSUME denomIssuer[d] # None, NEW data PROVE Answer(t, data) = [code |-> "success", data |-> data]
    <3>1. \A i \in 1 .. 2 : t[i][1]
      BY <1>5, <2>2
    <3>. QED
      BY <1>2, <3>1, NoFailure
  <2>. QED
    BY <2>1, <2>2
<1>. QED
  BY <1>6 DEF t, denom_read

LEMMA OfferRead ==
  ASSUME QueriesInv, NEW u, NEW o \in Offer
  PROVE  /\ o \notin Live => offer_read(u, o) = [code |-> "notfound"]
         /\ o \in Live =>
              offer_read(u, o) = [code |-> "success",
                                  data |-> [mine |-> offerIssuer[o] = u,
                                            ask |-> offerAsk[o], bid |-> offerBid[o]]]
<1>1. /\ o \in Live <=> offerIssuer[o] # None
      /\ o \in Live => offerBid[o] # None /\ offerAsk[o] # None
  BY DEF QueriesInv, MarketInv, BookInv, OfferTablesAgree, Live
<1> DEFINE t == << <<offerIssuer[o] # None, "notfound">>,
                   <<offerBid[o] # None, "db">>,
                   <<offerAsk[o] # None, "db">> >>
<1>2. /\ DOMAIN t = 1 .. 3 /\ 3 \in Nat /\ 1 \in 1 .. 3
      /\ \A i \in 1 .. 3 : (i = 1 \/ i = 2 \/ i = 3) /\ ~(i < 1)
  OBVIOUS
<1>3. /\ t[1][1] = (offerIssuer[o] # None) /\ t[1][2] = "notfound"
      /\ t[2][1] = (offerBid[o] # None) /\ t[3][1] = (offerAsk[o] # None)
  OBVIOUS
<1> HIDE DEF t
<1>4. o \notin Live => ~t[1][1]
  BY <1>1, <1>3
<1>5. o \in Live => \A i \in 1 .. 3 : t[i][1]
  BY <1>1, <1>2, <1>3
<1>6. /\ o \notin Live => \A data : Answer(t, data) = [code |-> "notfound"]
      /\ o \in Live => \A data : Answer(t, data) = [code |-> "success", data |-> data]
  <2>1. ASSUME o \notin Live, NEW data PROVE Answer(t, data) = [code |-> "notfound"]
    <3>1. ~t[1][1]
      BY <1>4, <2>1
    <3>2. Answer(t, data) = [code |-> t[1][2]]
      BY <1>2, <3>1, FirstTestFails
    <3>. QED
      BY <1>3, <3>2
  <2>2. ASSUME o \in Live, NEW data PROVE Answer(t, data) = [code |-> "success", data |-> data]
    <3>1. \A i \in 1 .. 3 : t[i][1]
      BY <1>5, <2>2
    <3>. QED
      BY <1>2, <3>1, NoFailure
  <2>. QED
    BY <2>1, <2>2
<1>. QED
  BY <1>6 DEF t, offer_read

(* Whatever accounts, denominations, notes and offers are created, changed *)
(* and destroyed in whatever order, an account that exists is never        *)
(* answered with the database error that ends its transaction.             *)
THEOREM EveryQueryAnswered == QueriesSpec => []QueriesAnswered
<1>1. QueriesInv => QueriesAnswered
  <2> SUFFICES ASSUME QueriesInv PROVE QueriesAnswered
    OBVIOUS
  <2>1. QueriesTypeOK
    BY DEF QueriesInv, RowsExact
  <2>2. \A d \in Denom : denom_read(d).code # "db"
    BY DenomRead
  <2>3. \A u, o \in Offer : offer_read(u, o).code # "db"
    BY OfferRead
  <2>. QED
    BY <2>1, <2>2, <2>3, AcctReadAnswered, NoteListAnswered, NoteReadAnswered, OfferRead
       DEF QueriesAnswered
<1>. QED
  BY <1>1, QueriesInvariant, PTL

-----------------------------------------------------------------------------
(* What is listed can be read                                              *)

(* A listing of one's own account is always answered.                      *)
LEMMA OwnListing ==
  ASSUME NEW u, NEW data
  PROVE  Answer(About(u, u), data) = [code |-> "success", data |-> data]
<1> DEFINE t == About(u, u)
<1>1. /\ DOMAIN t = 1 .. 3 /\ 3 \in Nat /\ \A i \in 1 .. 3 : i = 1 \/ i = 2 \/ i = 3
      /\ t[1][1] /\ t[2][1] /\ t[3][1]
  BY ListingTests
<1> HIDE DEF t
<1>2. \A i \in 1 .. 3 : t[i][1]
  BY <1>1
<1>3. Answer(t, data) = [code |-> "success", data |-> data]
  BY <1>1, <1>2, NoFailure
<1>. QED
  BY <1>3 DEF t

LEMMA OwnNoteRead ==
  ASSUME NEW u, NEW m, noteIssuer[m] # None, noteIssuer[m] = u
  PROVE  note_read(u, m) = [code |-> "success", data |-> [issuer |-> noteIssuer[m], value |-> Payout(m)]]
<1> DEFINE t == << <<noteIssuer[m] # None, "notfound">>, <<noteIssuer[m] = u, "noauth">> >>
<1>1. DOMAIN t = 1 .. 2 /\ 2 \in Nat
  OBVIOUS
<1>2. \A i \in 1 .. 2 : t[i][1]
  <2>1. /\ t[1][1] = (noteIssuer[m] # None) /\ t[2][1] = (noteIssuer[m] = u)
        /\ \A i \in 1 .. 2 : i = 1 \/ i = 2
    OBVIOUS
  <2> HIDE DEF t
  <2>. QED
    BY <2>1
<1> HIDE DEF t
<1>3. ASSUME NEW data PROVE Answer(t, data) = [code |-> "success", data |-> data]
  BY <1>1, <1>2, NoFailure
<1>4. note_read(u, m) = Answer(t, [issuer |-> noteIssuer[m], value |-> Payout(m)])
  BY Zenon DEF t, note_read
<1>. QED
  BY <1>3, <1>4, Zenon

(* An account reads every note of its list and finds value in it, and      *)
(* every denomination that reads as its own is in its list; a search finds *)
(* the denominations that exist and whose promise, read in the next        *)
(* command, contains the text, although the two commands start from        *)
(* different tables.                                                       *)
THEOREM ListedIsReadable == QueriesSpec => []ListsReadable
<1>1. ASSUME QueriesInv, NEW u \in acctPublic, NEW n \in note_list(u, u).data
      PROVE  note_read(u, n).code = "success" /\ note_read(u, n).data.value # <<>>
  <2>1. note_list(u, u).data = NotesOf(u)
    BY OwnListing DEF note_list
  <2>2. n \in Note /\ noteIssuer[n] = u /\ noteIssuer[n] # None
    BY <1>1, <2>1 DEF NotesOf, QueriesInv, MarketInv, LedgerInv, NoteIndexExact
  <2>3. PICK d \in Denom : noteValue[n][d] \in Positive
    BY <1>1, <2>2 DEF QueriesInv, MarketInv, LedgerInv, NotesBacked
  <2>4. noteValue[n][d] # Zero
    BY <2>3 DEF Positive, Zero
  <2>5. d \in DOMAIN Payout(n)
    BY <2>4 DEF Payout
  <2>6. Payout(n) # <<>>
    <3>1. DOMAIN <<>> = 1 .. 0
      OBVIOUS
    <3>2. \A i : i \notin 1 .. 0
      OBVIOUS
    <3>. QED
      BY <2>5, <3>1, <3>2
  <2>7. note_read(u, n) = [code |-> "success", data |-> [issuer |-> noteIssuer[n], value |-> Payout(n)]]
    BY <2>2, OwnNoteRead
  <2>. QED
    BY <2>6, <2>7
<1>2. ASSUME QueriesInv, NEW t \in Text
      PROVE  denom_search(t) = {d \in denom_list_all :
                                  denom_read(d).code = "success" /\ t \in denom_read(d).data.promise}
  <2>1. ASSUME NEW d \in Denom
        PROVE  d \in denom_search(t) <=> /\ d \in denom_list_all
                                         /\ denom_read(d).code = "success"
                                         /\ t \in denom_read(d).data.promise
    <3>1. denomText[d] # None <=> denomIssuer[d] # None
      BY <1>2 DEF QueriesInv, RowsExact
    <3>2. CASE denomIssuer[d] = None
      BY <3>1, <3>2 DEF denom_search, denom_list_all
    <3>3. CASE denomIssuer[d] # None
      <4>1. denom_read(d) = [code |-> "success",
                             data |-> [issuer |-> denomIssuer[d], promise |-> denomText[d]]]
        BY <1>2, <3>3, DenomRead
      <4>. QED
        BY <3>1, <3>3, <4>1 DEF denom_search, denom_list_all
    <3>. QED
      BY <3>2, <3>3
  <2>2. denom_search(t) \subseteq Denom /\ denom_list_all \subseteq Denom
    BY DEF denom_search, denom_list_all
  <2>. QED
    BY <2>1, <2>2
<1>3. ASSUME QueriesInv, NEW u \in acctPublic, NEW d \in denom_list_all,
             denom_read(d).data.issuer = u
      PROVE  d \in denom_list(u, u).data
  <2>1. d \in Denom /\ denomIssuer[d] # None
    BY <1>3 DEF denom_list_all
  <2>2. denomText[d] # None
    BY <1>3, <2>1 DEF QueriesInv, RowsExact
  <2>3. denom_read(d) = [code |-> "success",
                         data |-> [issuer |-> denomIssuer[d], promise |-> denomText[d]]]
    BY <1>3, <2>1, DenomRead
  <2>4. denomIssuer[d] = u
    BY <1>3, <2>3
  <2>5. <<u, d>> \in issuerDenom
    BY <1>3, <2>1, <2>4 DEF QueriesInv, MarketInv, LedgerInv, DenomIndexComplete
  <2>6. denom_list(u, u).data = {e \in Denom : <<u, e>> \in issuerDenom}
    BY OwnListing DEF denom_list
  <2>. QED
    BY <2>1, <2>5, <2>6
<1>4. QueriesInv => ListsReadable
  BY <1>1, <1>2, <1>3 DEF ListsReadable
<1>. QED
  BY <1>4, QueriesInvariant, PTL

-----------------------------------------------------------------------------
(* What a new account shows                                                *)

(* What is answered about accounts that exist.                             *)
ReadsFully ==
  /\ \A u, w \in acctPublic :
       acct_read(u, w).data = [flags |-> acctFlags[w], promise |-> acctText[w],
                               modulus |-> acctModulus[w], secret |-> Super(u) /\ w \in acctSecret]
  /\ \A w \in acctPublic : note_list(w, w).data = {n \in Note : noteIssuer[n] = w}

LEMMA ExistingRead ==
  ASSUME QueriesInv
  PROVE  ReadsFully
<1>0. \A w \in acctPublic : /\ acctModulus[w] # None /\ acctText[w] # None
                            /\ acctFlags[w] # None
  BY DEF QueriesInv, MarketInv, LedgerInv, TypeOK, ModulusOfExisting, RowsExact, QueriesTypeOK
<1>1. ASSUME NEW u \in acctPublic, NEW w \in acctPublic
      PROVE  acct_read(u, w).data = [flags |-> acctFlags[w], promise |-> acctText[w],
                               modulus |-> acctModulus[w], secret |-> Super(u) /\ w \in acctSecret]
  <2> DEFINE t == << <<w \in acctPublic, "notfound">>,
                     <<acctModulus[w] # None, "db">>,
                     <<acctText[w] # None, "db">>,
                     <<acctFlags[w] # None, "db">>,
                     <<acctFlags[u] # None, "db">> >>
  <2>1. DOMAIN t = 1 .. 5 /\ 5 \in Nat /\ \A i \in 1 .. 5 : i = 1 \/ i = 2 \/ i = 3 \/ i = 4 \/ i = 5
    OBVIOUS
  <2>2. /\ t[1][1] = (w \in acctPublic) /\ t[2][1] = (acctModulus[w] # None)
        /\ t[3][1] = (acctText[w] # None) /\ t[4][1] = (acctFlags[w] # None)
        /\ t[5][1] = (acctFlags[u] # None)
    OBVIOUS
  <2> HIDE DEF t
  <2>3. \A i \in 1 .. 5 : t[i][1]
    BY <1>0, <2>1, <2>2
  <2>4. ASSUME NEW data PROVE Answer(t, data).data = data
    <3>1. Answer(t, data) = [code |-> "success", data |-> data]
      BY <2>1, <2>3, NoFailure
    <3>. QED
      BY <3>1
  <2>. QED
    BY <2>4 DEF t, acct_read
<1>2. ASSUME NEW w \in acctPublic
      PROVE  note_list(w, w).data = {n \in Note : noteIssuer[n] = w}
  <2>1. note_list(w, w).data = NotesOf(w)
    BY OwnListing DEF note_list
  <2>2. w # None
    BY NoneAssumption DEF QueriesInv, MarketInv, LedgerInv, TypeOK
  <2>. QED
    BY <2>1, <2>2 DEF NotesOf, QueriesInv, MarketInv, LedgerInv, NoteIndexExact
<1>. QED
  BY <1>1, <1>2 DEF ReadsFully

(* An account appears by acct_create only.                                 *)
LEMMA AccountsAppear ==
  ASSUME [QueriesNext]_queryVars, NEW w \in acctPublic' \ acctPublic
  PROVE  \E u \in acctPromise : CreateAcct(u, w)
<1> USE DEF acctVars
<1>1. ASSUME NEW u \in acctPromise, NEW x \in Acct, NEW d \in Denom, NEW T \in SUBSET Text,
             \/ CreateAcct(u, x) \/ RemoveAcct(u, x)
             \/ AcctSetPromise(u, x, T) \/ AcctSetSecret(u, x)
             \/ CreateDenom(u, d) \/ RemoveDenom(u, d)
             \/ DenomSetPromise(u, d, T)
      PROVE  CreateAcct(u, x) /\ w = x
  <2>1. CASE CreateAcct(u, x)
    BY <2>1 DEF CreateAcct, AcctCreate
  <2>2. CASE RemoveAcct(u, x)
    BY <2>2 DEF RemoveAcct, AcctDestroy, DestroyAcct
  <2>3. CASE \/ AcctSetPromise(u, x, T) \/ AcctSetSecret(u, x)
             \/ CreateDenom(u, d) \/ RemoveDenom(u, d) \/ DenomSetPromise(u, d, T)
    BY <2>3 DEF AcctSetPromise, AcctSetSecret, CreateDenom, DenomCreate, RemoveDenom, DenomDestroy,
                DenomSetPromise
  <2>. QED
    BY <1>1, <2>1, <2>2, <2>3
<1>2. CASE TextCommand
  BY <1>1, <1>2 DEF TextCommand
<1>3. CASE PlainCommand
  <2>1. TransferCommand \/ NoteCommand => UNCHANGED acctPublic
    BY DEF TransferCommand, NoteCommand, Credit, Debit, NoteWithdraw, NoteDeposit
  <2>2. SetCommand => UNCHANGED acctPublic
    BY DEF SetCommand, AcctSetFlags, AcctSetModulus, DenomSetIssuer
  <2>. QED
    BY <1>3, <2>1, <2>2 DEF PlainCommand
<1>4. CASE BookCommand \/ Restart
  BY <1>4, BookKeepsRows
<1>5. CASE UNCHANGED queryVars
  BY <1>5 DEF queryVars, vars, ledgerVars
<1>. QED
  BY <1>2, <1>3, <1>4, <1>5 DEF QueriesNext

(* An account disappears by acct_destroy only.                             *)
LEMMA AccountsDisappear ==
  ASSUME [QueriesNext]_queryVars, NEW w \in acctPublic \ acctPublic'
  PROVE  \E u \in acctPromise : RemoveAcct(u, w)
<1> USE DEF acctVars
<1>1. ASSUME NEW u \in acctPromise, NEW x \in Acct, NEW d \in Denom, NEW T \in SUBSET Text,
             \/ CreateAcct(u, x) \/ RemoveAcct(u, x)
             \/ AcctSetPromise(u, x, T) \/ AcctSetSecret(u, x)
             \/ CreateDenom(u, d) \/ RemoveDenom(u, d)
             \/ DenomSetPromise(u, d, T)
      PROVE  RemoveAcct(u, x) /\ w = x
  <2>1. CASE CreateAcct(u, x)
    BY <2>1 DEF CreateAcct, AcctCreate
  <2>2. CASE RemoveAcct(u, x)
    BY <2>2 DEF RemoveAcct, AcctDestroy, DestroyAcct
  <2>3. CASE \/ AcctSetPromise(u, x, T) \/ AcctSetSecret(u, x)
             \/ CreateDenom(u, d) \/ RemoveDenom(u, d) \/ DenomSetPromise(u, d, T)
    BY <2>3 DEF AcctSetPromise, AcctSetSecret, CreateDenom, DenomCreate, RemoveDenom, DenomDestroy,
                DenomSetPromise
  <2>. QED
    BY <1>1, <2>1, <2>2, <2>3
<1>2. CASE TextCommand
  BY <1>1, <1>2 DEF TextCommand
<1>3. CASE PlainCommand
  <2>1. TransferCommand \/ NoteCommand => UNCHANGED acctPublic
    BY DEF TransferCommand, NoteCommand, Credit, Debit, NoteWithdraw, NoteDeposit
  <2>2. SetCommand => UNCHANGED acctPublic
    BY DEF SetCommand, AcctSetFlags, AcctSetModulus, DenomSetIssuer
  <2>. QED
    BY <1>3, <2>1, <2>2 DEF PlainCommand
<1>4. CASE BookCommand \/ Restart
  BY <1>4, BookKeepsRows
<1>5. CASE UNCHANGED queryVars
  BY <1>5 DEF queryVars, vars, ledgerVars
<1>. QED
  BY <1>2, <1>3, <1>4, <1>5 DEF QueriesNext

(* What one reads of one's own balance are its rows that are not zero.     *)
LEMMA OwnBalance ==
  ASSUME NEW w
  PROVE  balance(w, w).data
           = {<<d, acctValue[w][d]>> : d \in {e \in Denom : acctValue[w][e] # Zero}}
<1> DEFINE rows == {<<d, acctValue[w][d]>> : d \in {e \in Denom : acctValue[w][e] # Zero}}
<1>1. Answer(About(w, w), rows) = [code |-> "success", data |-> rows]
  BY OwnListing
<1>2. balance(w, w) = Answer(About(w, w), rows)
  BY DEF balance
<1> HIDE DEF rows
<1>3. balance(w, w).data = rows
  BY <1>1, <1>2
<1>. QED
  BY <1>3 DEF rows

(* An account created under a name that was used before shows no secret,   *)
(* promise, flag or note of its predecessor, whose secret and notes went   *)
(* with it and whose promise is overwritten; and its balance is what came  *)
(* to the name since, for the predecessor's went with it.                  *)
THEOREM NewAcctShowsNothing == QueriesSpec => NewAcctReadsNew
<1> DEFINE Rows(w) == {<<d, acctValue[w][d]>> : d \in {e \in Denom : acctValue[w][e] # Zero}}
           OwnRows == \A w \in Acct : balance(w, w).data = Rows(w)
<1>1. ASSUME QueriesInv, QueriesInv', ReadsFully', OwnRows, OwnRows', [QueriesNext]_queryVars,
             NEW w \in acctPublic' \ acctPublic, NEW u \in acctPublic
      PROVE  /\ acct_read(u, w)'.data
                  = [flags |-> {}, promise |-> {}, modulus |-> "usable", secret |-> FALSE]
             /\ note_list(w, w).data' = {}
             /\ balance(w, w).data' = balance(w, w).data
  <2>1. PICK c \in acctPromise : CreateAcct(c, w)
    BY <1>1, AccountsAppear
  <2>2. acctPublic \subseteq Acct /\ w \in Acct /\ w # None /\ u \in acctPublic'
    BY <1>1, <2>1, NoneAssumption
       DEF QueriesInv, MarketInv, LedgerInv, TypeOK, CreateAcct, AcctCreate
  <2>3. /\ acctFlags'[w] = {} /\ acctText'[w] = {} /\ acctModulus'[w] = "usable"
        /\ w \notin acctSecret' /\ noteIssuer' = noteIssuer /\ acctValue' = acctValue
    BY <1>1, <2>1, <2>2
       DEF CreateAcct, AcctCreate, QueriesInv, RowsExact, QueriesTypeOK, MarketInv, LedgerInv, TypeOK,
           noteVars
  <2>4. \A n \in Note : noteIssuer[n] # w
    BY <1>1, <2>2 DEF QueriesInv, MarketInv, LedgerInv, NotesBacked
  <2>5. acct_read(u, w)'.data = [flags |-> acctFlags'[w], promise |-> acctText'[w],
                                 modulus |-> acctModulus'[w],
                                 secret |-> Super(u)' /\ w \in acctSecret']
    BY <1>1, <2>2 DEF ReadsFully
  <2>6. note_list(w, w).data' = {n \in Note : noteIssuer'[n] = w}
    BY <1>1, <2>2 DEF ReadsFully
  <2>7. balance(w, w).data' = balance(w, w).data
    <3>1. balance(w, w).data = Rows(w) /\ balance(w, w).data' = Rows(w)'
      BY <1>1, <2>2
    <3>2. Rows(w)' = Rows(w)
      BY <2>3
    <3>. QED
      BY <3>1, <3>2
  <2>. QED
    BY <2>3, <2>4, <2>5, <2>6, <2>7
<1>2. ASSUME QueriesInv, OwnRows', [QueriesNext]_queryVars, NEW w \in acctPublic \ acctPublic'
      PROVE  balance(w, w).data' = {}
  <2>1. PICK c \in acctPromise : RemoveAcct(c, w)
    BY <1>2, AccountsDisappear
  <2>2. w \in Acct
    BY <1>2 DEF QueriesInv, MarketInv, LedgerInv, TypeOK
  <2>3. acctValue' = [acctValue EXCEPT ![w] = Empty] /\ acctValue \in [Acct -> Portfolio]
    BY <1>2, <2>1 DEF RemoveAcct, AcctDestroy, DestroyAcct, QueriesInv, MarketInv, LedgerInv, TypeOK
  <2>4. \A e \in Denom : acctValue'[w][e] = Zero
    BY <2>2, <2>3 DEF Empty
  <2>5. Rows(w)' = {}
    BY <2>4
  <2>. QED
    BY <1>2, <2>2, <2>5
<1>3. QueriesInv /\ QueriesInv' /\ ReadsFully' /\ OwnRows /\ OwnRows' /\ [QueriesNext]_queryVars
        => [/\ \A w \in acctPublic' \ acctPublic, u \in acctPublic :
                 /\ acct_read(u, w)'.data
                      = [flags |-> {}, promise |-> {}, modulus |-> "usable", secret |-> FALSE]
                 /\ note_list(w, w).data' = {}
                 /\ balance(w, w).data' = balance(w, w).data
            /\ \A w \in acctPublic \ acctPublic' : balance(w, w).data' = {}]_queryVars
  BY <1>1, <1>2
<1>4. OwnRows
  BY OwnBalance
<1>5. QueriesInv => ReadsFully
  BY ExistingRead
<1> HIDE DEF OwnRows
<1>. QED
  BY <1>3, <1>4, <1>5, QueriesInvariant, PTL DEF QueriesSpec, NewAcctReadsNew

-----------------------------------------------------------------------------
(* The list of offers of a pair                                            *)

(* An enumeration of a finite set without repetitions misses nothing.      *)
LEMMA Enumeration ==
  ASSUME NEW S, IsFiniteSet(S), NEW s \in [1 .. Cardinality(S) -> S],
         \A i, j \in 1 .. Cardinality(S) : i # j => s[i] # s[j]
  PROVE  \A x \in S : \E i \in 1 .. Cardinality(S) : s[i] = x
<1> DEFINE D == 1 .. Cardinality(S)
<1>1. Cardinality(S) \in Nat
  BY FS_CardinalityType
<1>2. IsFiniteSet(D) /\ Cardinality(D) = Cardinality(S)
  <2>1. 1 \in Int /\ Cardinality(S) \in Int
    BY <1>1
  <2>2. IsFiniteSet(D) /\ Cardinality(D) = IF 1 > Cardinality(S) THEN 0 ELSE Cardinality(S) - 1 + 1
    BY <2>1, FS_Interval
  <2>. QED
    BY <1>1, <2>2
<1>3. s \in Injection(D, S)
  BY DEF Injection, IsInjective
<1>4. s \in Surjection(D, S)
  BY <1>2, <1>3, FS_Injection
<1>. QED
  BY <1>4 DEF Surjection

LEMMA SequencesOf ==
  ASSUME NEW S, NEW s \in Sq!SetToSeqs(S)
  PROVE  /\ s \in [1 .. Cardinality(S) -> S]
         /\ \A i, j \in 1 .. Cardinality(S) : i # j => s[i] # s[j]
<1>1. Sq!Cardinality(S) = Cardinality(S)
  BY DEF Sq!Cardinality, Cardinality
<1>. QED
  BY <1>1 DEF Sq!SetToSeqs

LEMMA ListedRows ==
  ASSUME BookInv, NEW p, NEW s \in Listed(p)
  PROVE  /\ \A i \in DOMAIN s : s[i] \in offerIndex /\ s[i].pair = p
         /\ \A i, j \in DOMAIN s : i < j => s[i] # s[j] /\ s[i].ratio \preceq s[j].ratio
         /\ \A r \in offerIndex : r.pair = p => \E i \in DOMAIN s : s[i] = r
<1> DEFINE S == {r \in offerIndex : r.pair = p}
<1>1. IsFiniteSet(S)
  BY FS_Subset DEF BookInv
<1>2. /\ s \in [1 .. Cardinality(S) -> S]
      /\ \A i, j \in 1 .. Cardinality(S) : i # j => s[i] # s[j]
      /\ \A i, j \in DOMAIN s : i < j => s[i].ratio \preceq s[j].ratio
  BY SequencesOf DEF Listed
<1>3. \A i, j \in 1 .. Cardinality(S) : i < j => i # j
  <2>1. Cardinality(S) \in Nat
    BY <1>1, FS_CardinalityType
  <2>. QED
    BY <2>1
<1> HIDE DEF S
<1>4. \A x \in S : \E i \in 1 .. Cardinality(S) : s[i] = x
  BY <1>1, <1>2, Enumeration
<1>. QED
  BY <1>2, <1>3, <1>4 DEF S

(* The price an offer asks now, after any partial fills, is the ratio it   *)
(* is indexed by.                                                          *)
LEMMA PriceIsRatio ==
  ASSUME QueriesInv, NEW r \in offerIndex, NEW price,
         price = offerAsk[r.offer].quant (/) offerBid[r.offer].quant
  PROVE  /\ r.ratio \in Positive /\ price \in Positive
         /\ r.ratio \preceq price /\ price \preceq r.ratio
<1>1. BookInv /\ RatioExact
  BY DEF QueriesInv, MarketInv
<1>2. PICK a, b, q : a = offerAsk[r.offer].quant /\ b = offerBid[r.offer].quant /\ q = r.ratio
  OBVIOUS
<1>3. a \in Positive /\ b \in Positive /\ q \in Positive
  BY <1>1, <1>2, IndexedOffer, LiveOffer DEF Value
<1>4. price = a (/) b /\ price \in Positive
  BY <1>2, <1>3, OverPositive
<1>5. q (\X) b = price (\X) b
  BY <1>1, <1>2, <1>3, <1>4, OverTimes DEF RatioExact
<1>6. q (\X) b \preceq price (\X) b /\ price (\X) b \preceq q (\X) b
  <2>1. q (\X) b \in Quantity
    BY <1>3, TimesPositive, PositiveParts
  <2>2. q (\X) b \preceq q (\X) b
    BY <2>1, TotalOrder
  <2>. QED
    BY <1>5, <2>2
<1>7. q \preceq price /\ price \preceq q
  BY <1>3, <1>4, <1>6, TimesCancel
<1>. QED
  BY <1>2, <1>3, <1>4, <1>7

LEMMA PairListed ==
  ASSUME QueriesInv, NEW p \in Pair, NEW s \in Listed(p), NEW q,
         q = [i \in DOMAIN s |-> s[i].offer]
  PROVE  LET price(o) == offerAsk[o].quant (/) offerBid[o].quant
         IN  /\ Sq!ToSet(q) = {o \in Live : PairOf(o) = p}
             /\ \A i, j \in DOMAIN q : i < j => q[i] # q[j] /\ price(q[i]) \preceq price(q[j])
<1> DEFINE price(o) == offerAsk[o].quant (/) offerBid[o].quant
<1>1. BookInv
  BY DEF QueriesInv, MarketInv
<1>2. /\ \A i \in DOMAIN s : s[i] \in offerIndex /\ s[i].pair = p
      /\ \A i, j \in DOMAIN s : i < j => s[i] # s[j] /\ s[i].ratio \preceq s[j].ratio
      /\ \A r \in offerIndex : r.pair = p => \E i \in DOMAIN s : s[i] = r
  BY <1>1, ListedRows
<1>3. Sq!ToSet(q) = {s[i].offer : i \in DOMAIN s}
  BY DEF Sq!ToSet
<1>4. Sq!ToSet(q) = {o \in Live : PairOf(o) = p}
  <2>1. ASSUME NEW i \in DOMAIN s PROVE s[i].offer \in Live /\ PairOf(s[i].offer) = p
    BY <1>1, <1>2, IndexedOffer
  <2>2. ASSUME NEW o \in Live, PairOf(o) = p PROVE \E i \in DOMAIN s : s[i].offer = o
    <3>1. PICK r \in offerIndex : r.offer = o
      BY <1>1 DEF BookInv, OfferTablesAgree
    <3>2. r.pair = p
      BY <1>1, <2>2, <3>1, IndexedOffer
    <3>. QED
      BY <1>2, <3>1, <3>2
  <2>. QED
    BY <1>3, <2>1, <2>2
<1>5. ASSUME NEW i \in DOMAIN s, NEW j \in DOMAIN s, i < j
      PROVE  s[i].offer # s[j].offer /\ price(s[i].offer) \preceq price(s[j].offer)
  <2>1. s[i].offer # s[j].offer
    BY <1>1, <1>2, <1>5 DEF BookInv, OfferTablesAgree
  <2>2. PICK a, b : a = price(s[i].offer) /\ b = price(s[j].offer)
    OBVIOUS
  <2>3. a \in Positive /\ a \preceq s[i].ratio /\ s[i].ratio \in Positive
    BY <1>2, <2>2, PriceIsRatio
  <2>4. b \in Positive /\ s[j].ratio \preceq b /\ s[j].ratio \in Positive
    BY <1>2, <2>2, PriceIsRatio
  <2>5. s[i].ratio \preceq s[j].ratio
    BY <1>2, <1>5
  <2>6. a \preceq s[j].ratio
    BY <2>3, <2>4, <2>5, TotalOrder, PositiveParts
  <2>7. a \preceq b
    BY <2>3, <2>4, <2>6, TotalOrder, PositiveParts
  <2>. QED
    BY <2>1, <2>2, <2>7
<1>. QED
  BY <1>4, <1>5

(* The list of a pair names every offer of it once, the cheapest first at  *)
(* what it asks and bids after any partial fills, though the command reads *)
(* them in the order of the ratios they were created with; the list of     *)
(* one's own offers names those that can be read as one's own.             *)
THEOREM BookInOrder == QueriesSpec => []BookListedInOrder
<1>1. ASSUME QueriesInv, NEW p \in Pair, NEW answer \in offer_list_by_denom(p),
             answer.code = "success"
      PROVE  LET s == answer.data
                 price(o) == offerAsk[o].quant (/) offerBid[o].quant
             IN  /\ Sq!ToSet(s) = {o \in Live : PairOf(o) = p}
                 /\ \A i, j \in DOMAIN s : i < j => s[i] # s[j] /\ price(s[i]) \preceq price(s[j])
  <2>1. PICK s \in Listed(p) :
          answer = Answer(<< <<denomIssuer[p[1]] # None, "notfound">>,
                             <<denomIssuer[p[2]] # None, "notfound">> >>,
                          [i \in DOMAIN s |-> s[i].offer])
    BY DEF offer_list_by_denom
  <2>2. PICK q : q = [i \in DOMAIN s |-> s[i].offer]
    OBVIOUS
  <2> DEFINE t == << <<denomIssuer[p[1]] # None, "notfound">>,
                     <<denomIssuer[p[2]] # None, "notfound">> >>
  <2>3. answer = Answer(t, q)
    BY <2>1, <2>2, Zenon
  <2>4. /\ DOMAIN t = 1 .. 2 /\ 2 \in Nat
        /\ t[1][2] = "notfound" /\ t[2][2] = "notfound"
    OBVIOUS
  <2> HIDE DEF t
  <2>5. \A i \in 1 .. 2 : t[i][2] # "success"
    <3>1. \A i \in 1 .. 2 : i = 1 \/ i = 2
      OBVIOUS
    <3>. QED
      BY <2>4, <3>1
  <2>6. Answer(t, q).code = "success"
    BY <1>1, <2>3
  <2>7. answer.data = q
    BY <2>3, <2>4, <2>5, <2>6, SuccessfulAnswer
  <2>. QED
    BY <1>1, <2>2, <2>7, PairListed
<1>2. ASSUME QueriesInv, NEW u \in acctPublic, NEW o \in offer_list(u, u).data
      PROVE  offer_read(u, o).code = "success" /\ offer_read(u, o).data.mine
  <2>1. offer_list(u, u).data = {x \in Offer : <<u, x>> \in acctOffer}
    BY OwnListing DEF offer_list
  <2>2. o \in Offer /\ o \in Live /\ offerIssuer[o] = u
    BY <1>2, <2>1 DEF QueriesInv, MarketInv, BookInv, OfferTablesAgree
  <2>3. offer_read(u, o) = [code |-> "success",
                            data |-> [mine |-> offerIssuer[o] = u,
                                      ask |-> offerAsk[o], bid |-> offerBid[o]]]
    BY <1>2, <2>2, OfferRead
  <2>4. offer_read(u, o).code = "success" /\ offer_read(u, o).data.mine = (offerIssuer[o] = u)
    BY <2>3
  <2>. QED
    BY <2>2, <2>4, Zenon
<1>3. QueriesInv => BookListedInOrder
  BY <1>1, <1>2 DEF BookListedInOrder
<1>. QED
  BY <1>3, QueriesInvariant, PTL

-----------------------------------------------------------------------------
(* The log of events                                                       *)

(* The events that a transaction may write.                                *)
Writable(e) ==
  /\ e.accts \subseteq Acct
  /\ e.kind \in {"credit", "debit"} => e.object.quant \in Quantity

(* l is a list of events that record who they concern and how much.        *)
IsLog(l) ==
  /\ l \in Seq({l[i] : i \in DOMAIN l})
  /\ \A i \in DOMAIN l : Writable(l[i])

(* What a transaction writes follows what was there.                       *)
Follows(t, l, n, s) ==
  /\ IsLog(t) /\ Len(t) = Len(l) + n
  /\ DOMAIN l \subseteq DOMAIN t
  /\ \A i \in DOMAIN l : t[i] = l[i]
  /\ \A k \in DOMAIN t \ DOMAIN l : \E i \in 1 .. n : k = Len(l) + i /\ t[k] = s[i]
  /\ \A i \in 1 .. n : /\ Len(l) + i \in DOMAIN t \ DOMAIN l
                       /\ t[Len(l) + i] = s[i]
                       /\ \A j \in DOMAIN l : j < Len(l) + i /\ ~(Len(l) + i < j)

LEMMA Concatenation ==
  ASSUME NEW A, NEW l \in Seq(A), NEW n \in Nat, NEW s \in [1 .. n -> A]
  PROVE  /\ l \o s \in Seq(A) /\ Len(l \o s) = Len(l) + n
         /\ \A i \in 1 .. Len(l) : (l \o s)[i] = l[i]
         /\ \A i \in 1 .. n : (l \o s)[Len(l) + i] = s[i]
<1>1. s \in Seq(A) /\ Len(s) = n
  OBVIOUS
<1>. QED
  BY <1>1

LEMMA LogGrows ==
  ASSUME NEW l, IsLog(l), NEW P, NEW n \in Nat, NEW s \in [1 .. n -> P], \A e \in P : Writable(e)
  PROVE  Follows(l \o s, l, n, s)
<1> DEFINE A == {l[i] : i \in DOMAIN l} \cup P
           t == l \o s
<1>1. Len(l) \in Nat /\ DOMAIN l = 1 .. Len(l) /\ l \in Seq(A)
  BY DEF IsLog
<1>2. s \in [1 .. n -> A]
  OBVIOUS
<1> HIDE DEF A
<1>3. /\ t \in Seq(A) /\ Len(t) = Len(l) + n
      /\ \A i \in 1 .. Len(l) : t[i] = l[i]
      /\ \A i \in 1 .. n : t[Len(l) + i] = s[i]
  BY SMTT(30), <1>1, <1>2, Concatenation
<1> HIDE DEF t
<1>4. DOMAIN t = 1 .. (Len(l) + n)
  BY <1>3
<1>5. \A k \in 1 .. (Len(l) + n) : k \in 1 .. Len(l) \/ \E i \in 1 .. n : k = Len(l) + i
  <2> SUFFICES ASSUME NEW k \in 1 .. (Len(l) + n), k \notin 1 .. Len(l)
               PROVE  \E i \in 1 .. n : k = Len(l) + i
    OBVIOUS
  <2>1. k - Len(l) \in 1 .. n /\ k = Len(l) + (k - Len(l))
    BY <1>1
  <2>. QED
    BY <2>1
<1>6. \A i \in 1 .. n : /\ Len(l) + i \in DOMAIN t \ DOMAIN l
                        /\ \A j \in DOMAIN l : j < Len(l) + i /\ ~(Len(l) + i < j)
  BY <1>1, <1>4
<1>7. \A k \in DOMAIN t \ DOMAIN l : \E i \in 1 .. n : k = Len(l) + i /\ t[k] = s[i]
  <2> SUFFICES ASSUME NEW k \in DOMAIN t \ DOMAIN l
               PROVE  \E i \in 1 .. n : k = Len(l) + i /\ t[k] = s[i]
    OBVIOUS
  <2>1. PICK i \in 1 .. n : k = Len(l) + i
    BY <1>1, <1>4, <1>5
  <2>. QED
    BY <1>3, <2>1
<1>8. DOMAIN l \subseteq DOMAIN t
  BY <1>1, <1>4
<1>9. IsLog(t)
  <2>1. t \in Seq({t[i] : i \in DOMAIN t})
    BY <1>3
  <2>2. \A k \in DOMAIN l : Writable(t[k])
    BY <1>1, <1>3 DEF IsLog
  <2>3. \A k \in DOMAIN t \ DOMAIN l : Writable(t[k])
    BY <1>7
  <2>. QED
    BY <2>1, <2>2, <2>3 DEF IsLog
<1>10. \A i \in DOMAIN l : t[i] = l[i]
  BY <1>1, <1>3
<1>11. Follows(t, l, n, s)
  BY <1>3, <1>6, <1>7, <1>8, <1>9, <1>10 DEF Follows
<1>. QED
  BY <1>11 DEF t

(* The credits (or debits) of w in d since w was last destroyed, and what  *)
(* they add up to.                                                         *)
Since(l, w, k, d) ==
  {i \in DOMAIN l :
     /\ l[i].kind = k /\ l[i].accts = {w} /\ l[i].object.denom = d
     /\ \A j \in DOMAIN l : l[j].kind = "acct_destroy" /\ l[j].accts = {w} => j < i}

Booked(l, w, k, d) == Total([i \in Since(l, w, k, d) |-> l[i].object.quant])

LEMMA BookedQuantity ==
  ASSUME NEW l, IsLog(l), NEW w, NEW k \in {"credit", "debit"}, NEW d
  PROVE  /\ IsFiniteSet(Since(l, w, k, d))
         /\ [i \in Since(l, w, k, d) |-> l[i].object.quant] \in [Since(l, w, k, d) -> Quantity]
         /\ Reduced(Booked(l, w, k, d)) /\ Booked(l, w, k, d) \in Quantity
<1>1. DOMAIN l = 1 .. Len(l) /\ Len(l) \in Nat
  BY DEF IsLog
<1>2. IsFiniteSet(1 .. Len(l))
  BY <1>1, FS_Interval
<1>3. IsFiniteSet(Since(l, w, k, d))
  <2>1. Since(l, w, k, d) \in SUBSET (1 .. Len(l))
    BY <1>1 DEF Since
  <2>. QED
    BY <1>2, <2>1, FS_Subset
<1>4. \A i \in Since(l, w, k, d) : l[i].object.quant \in Quantity
  BY DEF Since, IsLog, Writable
<1>5. [i \in Since(l, w, k, d) |-> l[i].object.quant] \in [Since(l, w, k, d) -> Quantity]
  BY <1>4
<1>6. Reduced(Total([i \in Since(l, w, k, d) |-> l[i].object.quant]))
  BY <1>3, <1>5, TotalReduced
<1>. QED
  BY <1>3, <1>5, <1>6 DEF Booked, Reduced

Moved(e, w, k, d) == e.kind = k /\ e.accts = {w} /\ e.object.denom = d

Erases(e, w) == e.kind = "acct_destroy" /\ e.accts = {w}

(* The events of P, in the order of s, come after l.                       *)
Writes(t, l, P, n, s) ==
  /\ IsLog(l) /\ Follows(t, l, n, s)
  /\ n \in Nat /\ s \in [1 .. n -> P]
  /\ \A e \in P : Writable(e)
  /\ \A i, j \in 1 .. n : i # j => s[i] # s[j]
  /\ \A e \in P : \E i \in 1 .. n : s[i] = e

(* Without a new move in d, and with w not destroyed, nothing is added.    *)
LEMMA NothingBooked ==
  ASSUME NEW t, NEW l, NEW P, NEW n, NEW s, Writes(t, l, P, n, s),
         NEW w, NEW k \in {"credit", "debit"}, NEW d,
         \A e \in P : ~Moved(e, w, k, d) /\ ~Erases(e, w)
  PROVE  Booked(t, w, k, d) = Booked(l, w, k, d)
<1>0. /\ IsLog(l) /\ Follows(t, l, n, s)
      /\ n \in Nat /\ s \in [1 .. n -> P]
      /\ \A e \in P : Writable(e)
      /\ \A i, j \in 1 .. n : i # j => s[i] # s[j]
      /\ \A e \in P : \E i \in 1 .. n : s[i] = e
  BY Zenon DEF Writes
<1>1. /\ DOMAIN l \subseteq DOMAIN t
      /\ \A i \in DOMAIN l : t[i] = l[i]
      /\ \A j \in DOMAIN t \ DOMAIN l : \E i \in 1 .. n : j = Len(l) + i /\ t[j] = s[i]
  BY <1>0, Zenon DEF Follows
<1>2. \A j \in DOMAIN t \ DOMAIN l : ~Moved(t[j], w, k, d) /\ ~Erases(t[j], w)
  BY <1>0, <1>1
<1>3. Since(t, w, k, d) = Since(l, w, k, d)
  BY <1>1, <1>2 DEF Since, Moved, Erases
<1>4. \A i \in Since(l, w, k, d) : t[i] = l[i]
  BY <1>1 DEF Since
<1>. QED
  BY <1>3, <1>4 DEF Booked

LEMMA TotalWith ==
  ASSUME NEW D, IsFiniteSet(D), NEW f \in [D -> Quantity], NEW x \in D,
         NEW h, h = [j \in D \ {x} |-> f[j]]
  PROVE  Total(f) = f[x] (+) Total(h)
BY TotalRest

(* One new move adds its quantity.                                         *)
LEMMA OneBooked ==
  ASSUME NEW t, NEW l, NEW P, NEW n, NEW s, Writes(t, l, P, n, s),
         NEW w, NEW k \in {"credit", "debit"}, NEW d, NEW m \in P,
         \A e \in P : Moved(e, w, k, d) <=> e = m,
         \A e \in P : ~Erases(e, w)
  PROVE  Booked(t, w, k, d) = m.object.quant (+) Booked(l, w, k, d)
<1>0. /\ IsLog(l) /\ Follows(t, l, n, s)
      /\ n \in Nat /\ s \in [1 .. n -> P]
      /\ \A e \in P : Writable(e)
      /\ \A i, j \in 1 .. n : i # j => s[i] # s[j]
      /\ \A e \in P : \E i \in 1 .. n : s[i] = e
  BY Zenon DEF Writes
<1>1. /\ IsLog(t) /\ DOMAIN l \subseteq DOMAIN t
      /\ \A i \in DOMAIN l : t[i] = l[i]
      /\ \A j \in DOMAIN t \ DOMAIN l : \E i \in 1 .. n : j = Len(l) + i /\ t[j] = s[i]
      /\ \A i \in 1 .. n : /\ Len(l) + i \in DOMAIN t \ DOMAIN l
                           /\ t[Len(l) + i] = s[i]
                           /\ \A j \in DOMAIN l : j < Len(l) + i
  BY <1>0, Zenon DEF Follows
<1>2. PICK i \in 1 .. n : s[i] = m
  BY <1>0
<1>3. PICK x : x = Len(l) + i
  OBVIOUS
<1>4. x \in DOMAIN t /\ x \notin DOMAIN l /\ t[x] = m /\ \A j \in DOMAIN l : j < x
  BY <1>1, <1>2, <1>3
<1>5. \A j \in DOMAIN t \ DOMAIN l : (Moved(t[j], w, k, d) <=> j = x) /\ ~Erases(t[j], w)
  <2> SUFFICES ASSUME NEW j \in DOMAIN t \ DOMAIN l
               PROVE  (Moved(t[j], w, k, d) <=> j = x) /\ ~Erases(t[j], w)
    OBVIOUS
  <2>1. PICK h \in 1 .. n : j = Len(l) + h /\ t[j] = s[h]
    BY <1>1
  <2>2. s[h] \in P /\ s[i] \in P /\ (h # i => s[h] # s[i])
    BY <1>0
  <2>3. ~Erases(t[j], w)
    BY <2>1, <2>2
  <2>4. CASE h = i
    <3>1. j = x
      BY <1>3, <2>1, <2>4
    <3>. QED
      BY <1>2, <2>1, <2>2, <2>3, <2>4, <3>1
  <2>5. CASE h # i
    <3>1. s[h] # m
      BY <1>2, <2>2, <2>5
    <3>2. ~Moved(t[j], w, k, d)
      BY <2>1, <2>2, <3>1
    <3>3. j # x
      BY <1>4, <2>1, <3>1
    <3>. QED
      BY <2>3, <3>2, <3>3
  <2>. QED
    BY <2>4, <2>5
<1>6. Since(t, w, k, d) = Since(l, w, k, d) \cup {x} /\ x \notin Since(l, w, k, d)
  <2>1. x \in Since(t, w, k, d)
    <3>1. Moved(t[x], w, k, d)
      BY <1>4, <1>5
    <3>2. \A j \in DOMAIN t : Erases(t[j], w) => j < x
      BY <1>4, <1>5
    <3>. QED
      BY <1>4, <3>1, <3>2 DEF Since, Moved, Erases
  <2>2. ASSUME NEW j, j # x PROVE j \in Since(t, w, k, d) <=> j \in Since(l, w, k, d)
    <3>1. CASE j \in DOMAIN l
      BY <1>1, <1>5, <3>1 DEF Since, Erases
    <3>2. CASE j \notin DOMAIN l
      BY <1>5, <2>2, <3>2 DEF Since, Moved
    <3>. QED
      BY <3>1, <3>2
  <2>3. x \notin Since(l, w, k, d)
    BY <1>4 DEF Since
  <2>. QED
    BY <2>1, <2>2, <2>3
<1>7. PICK D, E : D = Since(t, w, k, d) /\ E = Since(l, w, k, d)
  OBVIOUS
<1>8. PICK f : f = [j \in D |-> t[j].object.quant]
  OBVIOUS
<1>9. IsFiniteSet(D) /\ f \in [D -> Quantity] /\ x \in D
  BY <1>0, <1>1, <1>6, <1>7, <1>8, BookedQuantity
<1>10. PICK h : h = [j \in D \ {x} |-> f[j]]
  OBVIOUS
<1>11. D \ {x} = E
  BY <1>6, <1>7
<1>12. h = [j \in E |-> l[j].object.quant]
  <2>1. \A j \in E : f[j] = l[j].object.quant
    BY <1>1, <1>7, <1>8, <1>11 DEF Since
  <2>. QED
    BY <1>10, <1>11, <2>1
<1>13. f[x] = m.object.quant
  BY <1>4, <1>8, <1>9
<1>14. Total(f) = f[x] (+) Total(h)
  BY <1>9, <1>10, TotalWith
<1>. QED
  BY <1>7, <1>8, <1>12, <1>13, <1>14 DEF Booked

(* When w is destroyed and no move of it is written, nothing is left.      *)
LEMMA ErasedBooked ==
  ASSUME NEW t, NEW l, NEW P, NEW n, NEW s, Writes(t, l, P, n, s),
         NEW w, NEW k \in {"credit", "debit"}, NEW d, \E e \in P : Erases(e, w),
         \A e \in P : ~Moved(e, w, k, d)
  PROVE  Booked(t, w, k, d) = Zero
<1>0. /\ IsLog(l) /\ Follows(t, l, n, s)
      /\ n \in Nat /\ s \in [1 .. n -> P]
      /\ \A e \in P : Writable(e)
      /\ \A i, j \in 1 .. n : i # j => s[i] # s[j]
      /\ \A e \in P : \E i \in 1 .. n : s[i] = e
  BY Zenon DEF Writes
<1>1. /\ IsLog(t)
      /\ \A j \in DOMAIN t \ DOMAIN l : \E i \in 1 .. n : j = Len(l) + i /\ t[j] = s[i]
      /\ \A i \in 1 .. n : /\ Len(l) + i \in DOMAIN t \ DOMAIN l
                           /\ t[Len(l) + i] = s[i]
                           /\ \A j \in DOMAIN l : ~(Len(l) + i < j)
  BY <1>0, Zenon DEF Follows
<1>2. PICK i \in 1 .. n : Erases(s[i], w)
  BY <1>0
<1>3. PICK x : x = Len(l) + i
  OBVIOUS
<1>4. x \in DOMAIN t /\ Erases(t[x], w) /\ \A j \in DOMAIN l : ~(x < j)
  BY <1>1, <1>2, <1>3
<1>5. \A j \in DOMAIN t : j \in DOMAIN l \/ ~Moved(t[j], w, k, d)
  BY <1>0, <1>1
<1>6. Since(t, w, k, d) = {}
  BY <1>4, <1>5 DEF Since, Moved, Erases
<1>7. PICK f : f = [j \in Since(t, w, k, d) |-> t[j].object.quant]
  OBVIOUS
<1>8. IsFiniteSet(Since(t, w, k, d)) /\ f \in [Since(t, w, k, d) -> Quantity]
  BY <1>1, <1>7, BookedQuantity
<1>9. Total(f) = Zero
  BY <1>6, <1>8, TotalReduced
<1>. QED
  BY <1>7, <1>9 DEF Booked

(* What a command does to the balance of w in d, and what it writes of it. *)
MoveStep(w, d) ==
  \/ /\ MovesOf(w, d)' = {} /\ acctValue'[w][d] = acctValue[w][d]
     /\ \A e \in posted' : ~Erases(e, w)
  \/ /\ \E k \in {"credit", "debit"}, q \in Quantity :
          /\ MovesOf(w, d)' = {Event(k, {w}, [denom |-> d, quant |-> q])}
          /\ acctValue'[w][d] = IF k = "credit" THEN acctValue[w][d] (+) q ELSE acctValue[w][d] (-) q
     /\ \A e \in posted' : ~Erases(e, w)
  \/ /\ MovesOf(w, d)' = {} /\ acctValue'[w][d] = Zero
     /\ \E e \in posted' : Erases(e, w)

LEMMA ListMoves ==
  ASSUME TypeOK, NEW k \in {"credit", "debit"}, NEW x \in Acct, NEW v, NEW X,
         NEW w \in Acct, NEW d \in Denom,
         \A c \in DOMAIN v : v[c] \in Quantity,
         acctValue' = [acctValue EXCEPT ![x] = IF k = "credit" THEN Deposit(@, v) ELSE Withdraw(@, v)],
         posted' = Moves(k, x, v) \cup X,
         \A e \in X : e.kind \notin {"credit", "debit", "acct_destroy"}
  PROVE  MoveStep(w, d)
<1>1. MovesOf(w, d)' = IF w = x /\ d \in DOMAIN v
                         THEN {Event(k, {w}, [denom |-> d, quant |-> v[d]])} ELSE {}
  <2>1. \A e \in X : e.kind \notin {"credit", "debit"}
    OBVIOUS
  <2>. QED
    BY <2>1, ListRecorded
<1>2. \A e \in posted' : ~Erases(e, w)
  <2>1. \A e \in Moves(k, x, v) : e.kind = k
    BY DEF Moves, Event
  <2>. QED
    BY <2>1 DEF Erases
<1>3. /\ w # x => acctValue'[w][d] = acctValue[w][d]
      /\ w = x /\ d \notin DOMAIN v => acctValue'[w][d] = acctValue[w][d]
      /\ w = x /\ d \in DOMAIN v =>
           acctValue'[w][d] = IF k = "credit" THEN acctValue[w][d] (+) v[d] ELSE acctValue[w][d] (-) v[d]
  <2>1. CASE k = "credit"
    BY <2>1 DEF TypeOK, Portfolio, Deposit
  <2>2. CASE k = "debit"
    BY <2>2 DEF TypeOK, Portfolio, Withdraw
  <2>. QED
    BY <2>1, <2>2
<1>4. CASE w = x /\ d \in DOMAIN v
  <2>1. v[d] \in Quantity
    BY <1>4
  <2>2. /\ MovesOf(w, d)' = {Event(k, {w}, [denom |-> d, quant |-> v[d]])}
        /\ acctValue'[w][d] = IF k = "credit" THEN acctValue[w][d] (+) v[d] ELSE acctValue[w][d] (-) v[d]
    BY <1>1, <1>3, <1>4
  <2>. QED
    BY <1>2, <2>1, <2>2 DEF MoveStep
<1>5. CASE ~(w = x /\ d \in DOMAIN v)
  <2>1. MovesOf(w, d)' = {} /\ acctValue'[w][d] = acctValue[w][d]
    BY <1>1, <1>3, <1>5
  <2>. QED
    BY <1>2, <2>1 DEF MoveStep
<1>. QED
  BY <1>4, <1>5

LEMMA LedgerMoves ==
  ASSUME LedgerInv, LedgerNext, NEW w \in Acct, NEW d \in Denom
  PROVE  MoveStep(w, d)
<1>1. TypeOK /\ acctPromise \subseteq Acct
  BY DEF LedgerInv, TypeOK
<1>2. ASSUME acctValue'[w][d] = acctValue[w][d],
             \A e \in posted' : e.kind \notin {"credit", "debit"} /\ ~Erases(e, w)
      PROVE  MoveStep(w, d)
  <2>1. MovesOf(w, d)' = {}
    BY <1>2 DEF MovesOf
  <2>. QED
    BY <1>2, <2>1 DEF MoveStep
<1>3. CASE AcctCommand
  <2>1. ASSUME NEW x \in acctPromise, NEW y \in Acct, AcctDestroy(x, y) PROVE MoveStep(w, d)
    <3>1. \A e \in posted' : e.kind \notin {"credit", "debit"}
      BY <2>1 DEF AcctDestroy, Event
    <3>2. CASE w # y
      <4>1. acctValue'[w][d] = acctValue[w][d]
        BY <1>1, <2>1, <3>2 DEF AcctDestroy, DestroyAcct, TypeOK
      <4>2. \A e \in posted' : ~Erases(e, w)
        BY <2>1, <3>2 DEF AcctDestroy, Event, Erases
      <4>. QED
        BY <1>2, <3>1, <4>1, <4>2
    <3>3. CASE w = y
      <4>1. acctValue'[w][d] = Zero
        BY <1>1, <2>1, <3>3 DEF AcctDestroy, DestroyAcct, TypeOK, Empty
      <4>2. \E e \in posted' : Erases(e, w)
        <5>1. Event("acct_destroy", {w}, w) \in posted'
          BY <2>1, <3>3 DEF AcctDestroy
        <5>2. Erases(Event("acct_destroy", {w}, w), w)
          BY DEF Erases, Event
        <5>. QED
          BY <5>1, <5>2
      <4>3. MovesOf(w, d)' = {}
        BY <3>1 DEF MovesOf
      <4>. QED
        BY <4>1, <4>2, <4>3 DEF MoveStep
    <3>. QED
      BY <3>2, <3>3
  <2>2. ASSUME NEW x \in acctPromise, NEW y \in Acct,
               \/ AcctCreate(x, y)
               \/ \E F \in FlagSets : AcctSetFlags(x, y, F)
               \/ \E m \in {"usable", "unusable"} : AcctSetModulus(x, y, m)
        PROVE  MoveStep(w, d)
    BY <1>2, <2>2 DEF AcctCreate, AcctSetFlags, AcctSetModulus, Event, Erases
  <2>. QED
    BY <1>3, <2>1, <2>2 DEF AcctCommand
<1>4. CASE DenomCommand
  BY <1>2, <1>4 DEF DenomCommand, DenomCreate, DenomSetIssuer, DenomDestroy, Event, Erases
<1>5. CASE TransferCommand
  <2>1. PICK u \in acctPromise, x \in Acct, v \in ValueLists : Credit(u, x, v) \/ Debit(u, x, v)
    BY <1>5 DEF TransferCommand
  <2>2. \A c \in DOMAIN v : v[c] \in Quantity
    BY ValueListPositive, PositiveParts
  <2>3. PICK X : X = {}
    OBVIOUS
  <2>4. \A e \in X : e.kind \notin {"credit", "debit", "acct_destroy"}
    BY <2>3
  <2>5. CASE Credit(u, x, v)
    <3>1. posted' = Moves("credit", x, v) \cup X /\ acctValue' = [acctValue EXCEPT ![x] = Deposit(@, v)]
      BY <2>3, <2>5 DEF Credit
    <3>. QED
      BY <1>1, <2>2, <2>4, <3>1, ListMoves
  <2>6. CASE Debit(u, x, v)
    <3>1. posted' = Moves("debit", x, v) \cup X /\ acctValue' = [acctValue EXCEPT ![x] = Withdraw(@, v)]
      BY <2>3, <2>6 DEF Debit
    <3>. QED
      BY <1>1, <2>2, <2>4, <3>1, ListMoves
  <2>. QED
    BY <2>1, <2>5, <2>6
<1>6. CASE NoteCommand
  <2>1. PICK x \in acctPromise, n \in Note :
          (\E v \in ValueLists : NoteWithdraw(x, v, n)) \/ NoteDeposit(x, n)
    BY <1>6 DEF NoteCommand
  <2>2. x \in Acct
    BY <1>1
  <2>3. ASSUME NEW v \in ValueLists, NoteWithdraw(x, v, n) PROVE MoveStep(w, d)
    <3>1. \A c \in DOMAIN v : v[c] \in Quantity
      BY ValueListPositive, PositiveParts
    <3>2. PICK X : X = {Event("note_create", {x}, n)}
      OBVIOUS
    <3>3. \A e \in X : e.kind \notin {"credit", "debit", "acct_destroy"}
      BY <3>2 DEF Event
    <3>4. posted' = Moves("debit", x, v) \cup X /\ acctValue' = [acctValue EXCEPT ![x] = Withdraw(@, v)]
      BY <2>3, <3>2 DEF NoteWithdraw
    <3>. QED
      BY <1>1, <2>2, <3>1, <3>3, <3>4, ListMoves
  <2>4. ASSUME NoteDeposit(x, n) PROVE MoveStep(w, d)
    <3>1. PICK v : v = Payout(n)
      OBVIOUS
    <3>2. \A c \in DOMAIN v : v[c] \in Quantity
      BY <1>1, <3>1 DEF Payout, TypeOK, Portfolio
    <3>3. PICK X : X = {Event("note_destroy", {noteIssuer[n]}, n)}
      OBVIOUS
    <3>4. \A e \in X : e.kind \notin {"credit", "debit", "acct_destroy"}
      BY <3>3 DEF Event
    <3>5. posted' = Moves("credit", x, v) \cup X /\ acctValue' = [acctValue EXCEPT ![x] = Deposit(@, v)]
      BY <2>4, <3>1, <3>3 DEF NoteDeposit
    <3>. QED
      BY <1>1, <2>2, <3>2, <3>4, <3>5, ListMoves
  <2>. QED
    BY <2>1, <2>3, <2>4
<1>. QED
  BY <1>3, <1>4, <1>5, <1>6 DEF LedgerNext

LEMMA FiniteImage ==
  ASSUME NEW S, IsFiniteSet(S), NEW f, DOMAIN f = S
  PROVE  IsFiniteSet({f[x] : x \in S})
<1> DEFINE T == {f[x] : x \in S}
           g == [x \in S |-> f[x]]
<1>1. g \in Surjection(S, T)
  BY DEF Surjection
<1>. QED
  BY <1>1, FS_Surjection

(* A command writes finitely many events, since its value list ends and    *)
(* an account has finitely many notes.                                     *)
LEMMA MovesWritable ==
  ASSUME NEW k \in {"credit", "debit"}, NEW x \in Acct, NEW v, DOMAIN v \subseteq Denom,
         \A c \in DOMAIN v : v[c] \in Quantity
  PROVE  IsFiniteSet(Moves(k, x, v)) /\ \A e \in Moves(k, x, v) : Writable(e)
<1>1. IsFiniteSet(DOMAIN v)
  BY DenomAssumption, FS_Subset
<1>2. PICK f : f = [c \in DOMAIN v |-> Event(k, {x}, [denom |-> c, quant |-> v[c]])]
  OBVIOUS
<1>3. Moves(k, x, v) = {f[c] : c \in DOMAIN v}
  BY <1>2 DEF Moves
<1>4. IsFiniteSet({f[c] : c \in DOMAIN v})
  <2>1. PICK D : D = DOMAIN v
    OBVIOUS
  <2>2. DOMAIN f = D /\ IsFiniteSet(D)
    BY <1>1, <1>2, <2>1
  <2>3. IsFiniteSet({f[c] : c \in D})
    BY <2>2, FiniteImage
  <2>. QED
    BY <2>1, <2>3
<1>5. \A e \in Moves(k, x, v) : Writable(e)
  BY DEF Moves, Event, Writable
<1>. QED
  BY <1>3, <1>4, <1>5

LEMMA PostedWritable ==
  ASSUME LedgerInv, LedgerNext
  PROVE  IsFiniteSet(posted') /\ \A e \in posted' : Writable(e)
<1>1. TypeOK /\ acctPromise \subseteq Acct
  BY DEF LedgerInv, TypeOK
<1>2. ASSUME NEW b, Writable(b), posted' = {} \/ posted' = {b}
      PROVE  IsFiniteSet(posted') /\ \A e \in posted' : Writable(e)
  <2>1. IsFiniteSet({b}) /\ IsFiniteSet({})
    BY FS_Singleton, FS_EmptySet
  <2>2. \A e \in posted' : e = b
    BY <1>2
  <2>3. \A e \in posted' : Writable(e)
    BY <1>2, <2>2, Zenon
  <2>. QED
    BY <1>2, <2>1, <2>3
<1>3. ASSUME NEW e, Writable(e), NEW k \in {"credit", "debit"}, NEW x \in Acct, NEW v,
             DOMAIN v \subseteq Denom, \A c \in DOMAIN v : v[c] \in Quantity,
             posted' = Moves(k, x, v) \/ posted' = Moves(k, x, v) \cup {e}
      PROVE  IsFiniteSet(posted') /\ \A y \in posted' : Writable(y)
  <2>1. IsFiniteSet(Moves(k, x, v)) /\ \A y \in Moves(k, x, v) : Writable(y)
    BY <1>3, MovesWritable
  <2>2. IsFiniteSet(Moves(k, x, v) \cup {e})
    BY <2>1, FS_AddElement
  <2>. QED
    BY <1>3, <2>1, <2>2
<1>4. CASE AcctCommand
  <2>1. ASSUME NEW x \in acctPromise, NEW y \in Acct, AcctDestroy(x, y)
        PROVE  IsFiniteSet(posted') /\ \A e \in posted' : Writable(e)
    <3>1. PICK N : N = NotesOf(y)
      OBVIOUS
    <3>2. IsFiniteSet(N)
      BY <3>1, IdentifiersAssumption, FS_Subset DEF NotesOf
    <3>3. PICK f : f = [n \in N |-> Event("note_destroy", {}, n)]
      OBVIOUS
    <3>4. IsFiniteSet({f[n] : n \in N})
      BY <3>2, <3>3, FiniteImage
    <3>5. posted' = {f[n] : n \in N} \cup {Event("acct_destroy", {y}, y)}
      BY <2>1, <3>1, <3>3 DEF AcctDestroy
    <3>6. IsFiniteSet(posted')
      BY <3>4, <3>5, FS_AddElement
    <3>7. \A e \in posted' : Writable(e)
      BY <3>3, <3>5 DEF Event, Writable
    <3>. QED
      BY <3>6, <3>7
  <2>2. ASSUME NEW x \in acctPromise, NEW y \in Acct,
               \/ AcctCreate(x, y)
               \/ \E F \in FlagSets : AcctSetFlags(x, y, F)
               \/ \E m \in {"usable", "unusable"} : AcctSetModulus(x, y, m)
        PROVE  IsFiniteSet(posted') /\ \A e \in posted' : Writable(e)
    <3>1. PICK b : b = Event("acct_create", {y}, y)
      OBVIOUS
    <3>2. Writable(b)
      BY <3>1 DEF Event, Writable
    <3>3. posted' = {} \/ posted' = {b}
      BY <2>2, <3>1 DEF AcctCreate, AcctSetFlags, AcctSetModulus
    <3>. QED
      BY <1>2, <3>2, <3>3
  <2>. QED
    BY <1>4, <2>1, <2>2 DEF AcctCommand
<1>5. CASE DenomCommand
  <2>1. PICK x \in Acct, y \in Denom : posted' \in {{}, {Event("denom_create", {x}, y)},
                                                  {Event("denom_destroy", {}, y)}}
    BY <1>1, <1>5 DEF DenomCommand, DenomCreate, DenomSetIssuer, DenomDestroy
  <2>2. Writable(Event("denom_create", {x}, y)) /\ Writable(Event("denom_destroy", {}, y))
    BY DEF Event, Writable
  <2>. QED
    BY <1>2, <2>1, <2>2
<1>6. CASE TransferCommand
  <2>1. PICK u \in acctPromise, x \in Acct, v \in ValueLists : Credit(u, x, v) \/ Debit(u, x, v)
    BY <1>6 DEF TransferCommand
  <2>2. DOMAIN v \subseteq Denom /\ \A c \in DOMAIN v : v[c] \in Quantity
    BY ValueListPositive, PositiveParts
  <2>3. posted' = Moves("credit", x, v) \/ posted' = Moves("debit", x, v)
    BY <2>1 DEF Credit, Debit
  <2>4. PICK k \in {"credit", "debit"} : posted' = Moves(k, x, v)
    BY <2>3
  <2>. QED
    BY <2>2, <2>4, MovesWritable
<1>7. CASE NoteCommand
  <2>1. PICK x \in acctPromise, n \in Note :
          (\E v \in ValueLists : NoteWithdraw(x, v, n)) \/ NoteDeposit(x, n)
    BY <1>7 DEF NoteCommand
  <2>2. x \in Acct
    BY <1>1
  <2>3. ASSUME NEW v \in ValueLists, NoteWithdraw(x, v, n)
        PROVE  IsFiniteSet(posted') /\ \A e \in posted' : Writable(e)
    <3>1. DOMAIN v \subseteq Denom /\ \A c \in DOMAIN v : v[c] \in Quantity
      BY ValueListPositive, PositiveParts
    <3>2. PICK e : e = Event("note_create", {x}, n)
      OBVIOUS
    <3>3. Writable(e)
      BY <2>2, <3>2 DEF Event, Writable
    <3>4. posted' = Moves("debit", x, v) \cup {e}
      BY <2>3, <3>2 DEF NoteWithdraw
    <3>. QED
      BY <1>3, <2>2, <3>1, <3>3, <3>4
  <2>4. ASSUME NoteDeposit(x, n)
        PROVE  IsFiniteSet(posted') /\ \A e \in posted' : Writable(e)
    <3>1. PICK v : v = Payout(n)
      OBVIOUS
    <3>2. DOMAIN v \subseteq Denom /\ \A c \in DOMAIN v : v[c] \in Quantity
      BY <1>1, <3>1 DEF Payout, TypeOK, Portfolio
    <3>3. PICK e : e = Event("note_destroy", {noteIssuer[n]}, n)
      OBVIOUS
    <3>4. Writable(e)
      <4>1. noteIssuer[n] \in Acct
        BY <1>1, <2>4 DEF NoteDeposit, TypeOK
      <4>. QED
        BY <3>3, <4>1 DEF Event, Writable
    <3>5. posted' = Moves("credit", x, v) \cup {e}
      BY <2>4, <3>1, <3>3 DEF NoteDeposit
    <3>. QED
      BY <1>3, <2>2, <3>2, <3>4, <3>5
  <2>. QED
    BY <2>1, <2>3, <2>4
<1>. QED
  BY <1>4, <1>5, <1>6, <1>7 DEF LedgerNext

(* The two tables agree on who an event concerns.                          *)
LogTables ==
  /\ IsLog(log)
  /\ Len(log) <= MaxEvents
  /\ acctEvent \subseteq Acct \X DOMAIN log
  /\ \A u \in Acct, i \in DOMAIN log : <<u, i>> \in acctEvent <=> u \in log[i].accts

(* A balance is what the log has of credits less what it has of debits.    *)
BalanceBooked(w, d) ==
  acctValue[w][d] = Booked(log, w, "credit", d) (-) Booked(log, w, "debit", d)

LogInv ==
  /\ LedgerInv
  /\ BalancesReduced
  /\ LogTables
  /\ \A u \in acctPublic : acctFlags[u] # None
  /\ \A w \in Acct, d \in Denom : BalanceBooked(w, d)

LEMMA WriteStep ==
  ASSUME LogTables, NEW P, NEW n \in Nat, NEW s \in [1 .. n -> P], \A e \in P : Writable(e),
         Write(s)
  PROVE  Follows(log', log, n, s) /\ LogTables'
<1>1. s \in Seq(P) /\ Len(s) = n /\ DOMAIN s = 1 .. n
  OBVIOUS
<1>2. PICK t : t = log'
  OBVIOUS
<1>3. Follows(t, log, n, s)
  <2>1. IsLog(log) /\ t = log \o s
    BY <1>2 DEF LogTables, Write
  <2>. QED
    BY <2>1, LogGrows
<1>4. /\ IsLog(t) /\ Len(t) = Len(log) + n
      /\ DOMAIN log \subseteq DOMAIN t
      /\ \A i \in DOMAIN log : t[i] = log[i]
      /\ \A k \in DOMAIN t \ DOMAIN log : \E i \in 1 .. n : k = Len(log) + i /\ t[k] = s[i]
      /\ \A i \in 1 .. n : Len(log) + i \in DOMAIN t \ DOMAIN log /\ t[Len(log) + i] = s[i]
  BY <1>3, Zenon DEF Follows
<1>5. /\ Len(log) + n <= MaxEvents
      /\ acctEvent' = acctEvent \cup UNION {s[i].accts \X {Len(log) + i} : i \in 1 .. n}
  BY <1>1 DEF Write
<1>6. \A i \in 1 .. n : s[i].accts \subseteq Acct
  BY DEF Writable
<1>7. \A x : x \in acctEvent' <=>
        x \in acctEvent \/ \E i \in 1 .. n : \E a \in s[i].accts : x = <<a, Len(log) + i>>
  BY <1>5
<1>8. acctEvent' \subseteq Acct \X DOMAIN t
  <2> SUFFICES ASSUME NEW x \in acctEvent' PROVE x \in Acct \X DOMAIN t
    OBVIOUS
  <2>1. CASE x \in acctEvent
    BY <1>4, <2>1 DEF LogTables
  <2>2. ASSUME NEW i \in 1 .. n, NEW a \in s[i].accts, x = <<a, Len(log) + i>>
        PROVE  x \in Acct \X DOMAIN t
    BY <1>4, <1>6, <2>2
  <2>. QED
    BY <1>7, <2>1, <2>2
<1>9. \A u \in Acct, k \in DOMAIN t : <<u, k>> \in acctEvent' <=> u \in t[k].accts
  <2>1. ASSUME NEW u \in Acct, NEW k \in DOMAIN t
        PROVE  <<u, k>> \in acctEvent' <=> u \in t[k].accts
    <3>1. CASE k \in DOMAIN log
      <4>1. \A i \in 1 .. n : k # Len(log) + i
        BY <1>4, <3>1
      <4>2. <<u, k>> \in acctEvent' <=> <<u, k>> \in acctEvent
        BY <1>7, <4>1
      <4>. QED
        BY <1>4, <3>1, <4>2 DEF LogTables
    <3>2. CASE k \notin DOMAIN log
      <4>1. PICK j \in 1 .. n : k = Len(log) + j /\ t[k] = s[j]
        BY <1>4, <3>2
      <4>2. <<u, k>> \notin acctEvent
        BY <3>2 DEF LogTables
      <4>3. \A i \in 1 .. n : k = Len(log) + i => s[i] = s[j]
        BY <1>4, <4>1
      <4>4. <<u, k>> \in acctEvent' <=> u \in s[j].accts
        <5>1. ASSUME u \in s[j].accts PROVE <<u, k>> \in acctEvent'
          BY <1>7, <4>1, <5>1
        <5>2. ASSUME <<u, k>> \in acctEvent' PROVE u \in s[j].accts
          <6>1. PICK i \in 1 .. n : \E a \in s[i].accts : <<u, k>> = <<a, Len(log) + i>>
            BY <1>7, <4>2, <5>2
          <6>2. u \in s[i].accts /\ k = Len(log) + i
            BY <6>1
          <6>. QED
            BY <4>3, <6>2
        <5>. QED
          BY <5>1, <5>2
      <4>. QED
        BY <4>1, <4>4
    <3>. QED
      BY <3>1, <3>2
  <2>. QED
    BY <2>1, Zenon
<1>10. LogTables'
  BY <1>2, <1>4, <1>5, <1>8, <1>9 DEF LogTables
<1>. QED
  BY <1>2, <1>3, <1>10

(* The orders in which a set of events may be written.                     *)
LEMMA OrdersOf ==
  ASSUME NEW P, IsFiniteSet(P), NEW s \in Orders(P)
  PROVE  \E n \in Nat : /\ s \in [1 .. n -> P]
                        /\ \A i, j \in 1 .. n : i # j => s[i] # s[j]
                        /\ \A e \in P : \E i \in 1 .. n : s[i] = e
<1>1. SE!Cardinality(P) = Cardinality(P)
  BY DEF SE!Cardinality, Cardinality
<1>2. /\ s \in [1 .. Cardinality(P) -> P]
      /\ \A i, j \in 1 .. Cardinality(P) : i # j => s[i] # s[j]
  BY <1>1 DEF Orders, SE!SetToSeqs
<1>3. \A e \in P : \E i \in 1 .. Cardinality(P) : s[i] = e
  BY <1>2, Enumeration
<1>4. Cardinality(P) \in Nat
  BY FS_CardinalityType
<1>. QED
  BY <1>2, <1>3, <1>4

(* What a command does to a balance shows in the log.                      *)
LEMMA BookedStep ==
  ASSUME LogInv, NEW n, NEW s, Writes(log', log, posted', n, s),
         NEW w \in Acct, NEW d \in Denom, MoveStep(w, d)
  PROVE  BalanceBooked(w, d)'
<1>1. PICK t, P, M : t = log' /\ P = posted' /\ M = MovesOf(w, d)'
  OBVIOUS
<1>2. PICK C, D, E, F : /\ C = Booked(log, w, "credit", d) /\ D = Booked(log, w, "debit", d)
                        /\ E = Booked(t, w, "credit", d) /\ F = Booked(t, w, "debit", d)
  OBVIOUS
<1>3. Writes(t, log, P, n, s)
  BY <1>1
<1>4. IsLog(log)
  BY DEF LogInv, LogTables
<1>5. C \in Quantity /\ D \in Quantity /\ Reduced(C) /\ Reduced(D)
  BY <1>2, <1>4, BookedQuantity
<1>6. acctValue[w][d] = C (-) D
  BY <1>2 DEF LogInv, BalanceBooked
<1>7. BalanceBooked(w, d)' <=> acctValue'[w][d] = E (-) F
  BY <1>1, <1>2 DEF BalanceBooked
<1>8. \A e : e \in M <=> e \in P /\ (Moved(e, w, "credit", d) \/ Moved(e, w, "debit", d))
  BY <1>1 DEF MovesOf, Moved
<1>9. CASE M = {} /\ acctValue'[w][d] = acctValue[w][d] /\ \A e \in P : ~Erases(e, w)
  <2>1. \A e \in P : ~Moved(e, w, "credit", d) /\ ~Erases(e, w)
    BY <1>8, <1>9
  <2>2. \A e \in P : ~Moved(e, w, "debit", d) /\ ~Erases(e, w)
    BY <1>8, <1>9
  <2>3. E = C
    BY <1>2, <1>3, <2>1, NothingBooked
  <2>4. F = D
    BY <1>2, <1>3, <2>2, NothingBooked
  <2>. QED
    BY <1>6, <1>7, <1>9, <2>3, <2>4
<1>10. ASSUME NEW q \in Quantity, NEW m, M = {m}, \A e \in P : ~Erases(e, w),
              m = Event("credit", {w}, [denom |-> d, quant |-> q]),
              acctValue'[w][d] = acctValue[w][d] (+) q
       PROVE  BalanceBooked(w, d)'
  <2>0. m.object.quant = q /\ Moved(m, w, "credit", d) /\ ~Moved(m, w, "debit", d)
    BY <1>10 DEF Event, Moved
  <2>1. m \in P /\ m.object.quant = q
    BY <1>8, <1>10, <2>0
  <2>2. \A e \in P : Moved(e, w, "credit", d) <=> e = m
    BY <1>8, <1>10, <2>0, <2>1
  <2>3. \A e \in P : ~Moved(e, w, "debit", d) /\ ~Erases(e, w)
    BY <1>8, <1>10, <2>0, <2>1
  <2>4. E = q (+) C
    <3>1. \A e \in P : ~Erases(e, w)
      BY <1>10
    <3>2. E = m.object.quant (+) C
      BY <1>2, <1>3, <2>1, <2>2, <3>1, OneBooked
    <3>. QED
      BY <2>1, <3>2
  <2>5. F = D
    BY <1>2, <1>3, <2>3, NothingBooked
  <2>6. (q (+) C) (-) D = (C (-) D) (+) q
    BY <1>5, <1>10, Entries
  <2>. QED
    BY <1>6, <1>7, <1>10, <2>4, <2>5, <2>6
<1>11. ASSUME NEW q \in Quantity, NEW m, M = {m}, \A e \in P : ~Erases(e, w),
              m = Event("debit", {w}, [denom |-> d, quant |-> q]),
              acctValue'[w][d] = acctValue[w][d] (-) q
       PROVE  BalanceBooked(w, d)'
  <2>0. m.object.quant = q /\ Moved(m, w, "debit", d) /\ ~Moved(m, w, "credit", d)
    BY <1>11 DEF Event, Moved
  <2>1. m \in P /\ m.object.quant = q
    BY <1>8, <1>11, <2>0
  <2>2. \A e \in P : Moved(e, w, "debit", d) <=> e = m
    BY <1>8, <1>11, <2>0, <2>1
  <2>3. \A e \in P : ~Moved(e, w, "credit", d) /\ ~Erases(e, w)
    BY <1>8, <1>11, <2>0, <2>1
  <2>4. F = q (+) D
    BY SMTT(30), <1>2, <1>3, <1>11, <2>1, <2>2, OneBooked
  <2>5. E = C
    BY <1>2, <1>3, <2>3, NothingBooked
  <2>6. C (-) (q (+) D) = (C (-) D) (-) q
    BY <1>5, <1>11, Entries
  <2>. QED
    BY <1>6, <1>7, <1>11, <2>4, <2>5, <2>6
<1>12. CASE M = {} /\ acctValue'[w][d] = Zero /\ \E e \in P : Erases(e, w)
  <2>1. \A e \in P : ~Moved(e, w, "credit", d) /\ ~Moved(e, w, "debit", d)
    BY <1>8, <1>12
  <2>2. E = Zero
    BY <1>2, <1>3, <1>12, <2>1, ErasedBooked
  <2>3. F = Zero
    BY <1>2, <1>3, <1>12, <2>1, ErasedBooked
  <2>4. Zero (-) Zero = Zero
    <3>1. Reduced(Zero)
      BY <1>5, ReducedResults
    <3>. QED
      BY <3>1, PlusZero DEF Reduced
  <2>. QED
    BY <1>7, <1>12, <2>2, <2>3, <2>4
<1>13. \/ M = {} /\ acctValue'[w][d] = acctValue[w][d] /\ \A e \in P : ~Erases(e, w)
       \/ /\ \E k \in {"credit", "debit"}, q \in Quantity :
               /\ M = {Event(k, {w}, [denom |-> d, quant |-> q])}
               /\ acctValue'[w][d] = IF k = "credit" THEN acctValue[w][d] (+) q
                                                     ELSE acctValue[w][d] (-) q
          /\ \A e \in P : ~Erases(e, w)
       \/ M = {} /\ acctValue'[w][d] = Zero /\ \E e \in P : Erases(e, w)
  BY <1>1 DEF MoveStep
<1>14. ASSUME NEW k \in {"credit", "debit"}, NEW q \in Quantity, \A e \in P : ~Erases(e, w),
              M = {Event(k, {w}, [denom |-> d, quant |-> q])},
              acctValue'[w][d] = IF k = "credit" THEN acctValue[w][d] (+) q
                                                 ELSE acctValue[w][d] (-) q
       PROVE  BalanceBooked(w, d)'
  <2>1. PICK m : m = Event(k, {w}, [denom |-> d, quant |-> q]) /\ M = {m}
    BY <1>14
  <2>2. CASE k = "credit"
    <3>1. acctValue'[w][d] = acctValue[w][d] (+) q
      BY <1>14, <2>2
    <3>. QED
      BY <1>10, <1>14, <2>1, <2>2, <3>1
  <2>3. CASE k = "debit"
    <3>1. acctValue'[w][d] = acctValue[w][d] (-) q
      BY <1>14, <2>3
    <3>. QED
      BY <1>11, <1>14, <2>1, <2>3, <3>1
  <2>. QED
    BY <2>2, <2>3
<1>. QED
  BY <1>9, <1>12, <1>13, <1>14

LEMMA FlagsStep ==
  ASSUME LedgerInv, LedgerNext, \A u \in acctPublic : acctFlags[u] # None
  PROVE  \A u \in acctPublic' : acctFlags'[u] # None
<1>1. acctFlags \in [Acct -> {None} \cup SUBSET Flag] /\ acctPublic \subseteq Acct
  BY DEF LedgerInv, TypeOK
<1>2. CASE AcctCommand
  <2>1. PICK u \in acctPromise, w \in Acct :
          \/ AcctCreate(u, w)
          \/ AcctDestroy(u, w)
          \/ \E F \in FlagSets : AcctSetFlags(u, w, F)
          \/ \E m \in {"usable", "unusable"} : AcctSetModulus(u, w, m)
    BY <1>2 DEF AcctCommand
  <2>2. CASE AcctCreate(u, w)
    BY <1>1, <2>2, NoneAssumption DEF AcctCreate
  <2>3. CASE AcctDestroy(u, w)
    BY <1>1, <2>3 DEF AcctDestroy, DestroyAcct
  <2>4. ASSUME NEW F \in FlagSets, AcctSetFlags(u, w, F)
        PROVE  \A x \in acctPublic' : acctFlags'[x] # None
    <3>1. F # None
      BY NoneAssumption, FlagSetsAssumption
    <3>2. \A x \in acctPublic : acctFlags'[x] = IF x = w THEN F ELSE acctFlags[x]
      BY <1>1, <2>4 DEF AcctSetFlags
    <3>. QED
      BY <2>4, <3>1, <3>2 DEF AcctSetFlags
  <2>5. ASSUME NEW m \in {"usable", "unusable"}, AcctSetModulus(u, w, m)
        PROVE  \A x \in acctPublic' : acctFlags'[x] # None
    BY <2>5 DEF AcctSetModulus
  <2>. QED
    BY <2>1, <2>2, <2>3, <2>4, <2>5
<1>3. CASE DenomCommand \/ TransferCommand \/ NoteCommand
  BY <1>3 DEF DenomCommand, DenomCreate, DenomSetIssuer, DenomDestroy, TransferCommand,
              Credit, Debit, NoteCommand, NoteWithdraw, NoteDeposit, acctVars
<1>. QED
  BY <1>2, <1>3 DEF LedgerNext

LEMMA CommandLogged == ASSUME LogInv, LoggedCommand PROVE LogInv'
<1>1. LedgerInv /\ BalancesReduced /\ LogTables /\ LedgerNext
  BY DEF LogInv, LoggedCommand
<1>2. LedgerInv'
  BY <1>1, LedgerStep
<1>3. BalancesReduced'
  BY <1>1, AuditSteps DEF BalancesReduced, AuditStep, Explained
<1>4. \A u \in acctPublic' : acctFlags'[u] # None
  BY <1>1, FlagsStep DEF LogInv
<1>5. PICK P : P = posted'
  OBVIOUS
<1>6. IsFiniteSet(P) /\ \A e \in P : Writable(e)
  BY <1>1, <1>5, PostedWritable
<1>7. PICK s \in Orders(P) : Write(s)
  BY <1>5 DEF LoggedCommand
<1>8. PICK n \in Nat :
        /\ s \in [1 .. n -> P]
        /\ \A i, j \in 1 .. n : i # j => s[i] # s[j]
        /\ \A e \in P : \E i \in 1 .. n : s[i] = e
  BY <1>6, OrdersOf
<1>9. Follows(log', log, n, s) /\ LogTables'
  BY <1>1, <1>6, <1>7, <1>8, WriteStep
<1>10. Writes(log', log, posted', n, s)
  <2>1. IsLog(log)
    BY <1>1 DEF LogTables
  <2>2. Writes(log', log, P, n, s)
    BY <1>6, <1>8, <1>9, <2>1, Zenon DEF Writes
  <2>. QED
    BY <1>5, <2>2
<1>11. \A w \in Acct, d \in Denom : BalanceBooked(w, d)'
  BY <1>1, <1>10, LedgerMoves, BookedStep
<1>. QED
  BY <1>2, <1>3, <1>4, <1>9, <1>11 DEF LogInv

LEMMA MessageLogged ==
  ASSUME LogInv, NEW u \in acctPromise, NEW w \in Acct, EventSend(u, w)
  PROVE  LogInv'
<1>1. LedgerInv /\ BalancesReduced /\ LogTables /\ u \in Acct /\ IsLog(log)
  BY DEF LogInv, LedgerInv, TypeOK, LogTables
<1>2. UNCHANGED <<acctVars, acctValue, denomVars, noteVars>>
  BY DEF EventSend
<1>3. LedgerInv' /\ BalancesReduced'
  <2>1. UNCHANGED <<acctPublic, acctFlags, acctModulus, acctPromise, acctValue, denomIssuer,
                    issuerDenom, noteIssuer, noteValue, acctNote, minted>>
    BY <1>2 DEF acctVars, denomVars, noteVars
  <2>2. TypeOK' = TypeOK /\ NoteIndexExact' = NoteIndexExact
    BY <2>1 DEF TypeOK, NoteIndexExact
  <2>3. DenomIndexComplete' = DenomIndexComplete /\ NotesBacked' = NotesBacked
    BY <2>1 DEF DenomIndexComplete, NotesBacked
  <2>4. IdentifiersSpent' = IdentifiersSpent /\ ModulusOfExisting' = ModulusOfExisting
    BY <2>1 DEF IdentifiersSpent, ModulusOfExisting
  <2>5. NotesHoldNoDebt' = NotesHoldNoDebt
    BY <2>1 DEF NotesHoldNoDebt
  <2>6. LedgerInv'
    BY <1>1, <2>2, <2>3, <2>4, <2>5 DEF LedgerInv
  <2>. QED
    BY <1>1, <2>1, <2>6 DEF BalancesReduced
<1>4. PICK a, b, s : /\ a = Message("event_sent", u, u, w) /\ b = Message("event_received", w, u, w)
                     /\ s = <<a, b>>
  OBVIOUS
<1>5. /\ Writable(a) /\ Writable(b) /\ a # b
      /\ a.kind \notin {"credit", "debit", "acct_destroy"}
      /\ b.kind \notin {"credit", "debit", "acct_destroy"}
  BY <1>1, <1>4 DEF Message, Event, Writable
<1>6. /\ s \in [1 .. 2 -> {a, b}]
      /\ \A i, j \in 1 .. 2 : i # j => s[i] # s[j]
      /\ \A e \in {a, b} : \E i \in 1 .. 2 : s[i] = e
  <2>1. s = [i \in 1 .. 2 |-> IF i = 1 THEN a ELSE b]
    BY <1>4
  <2>2. s[1] = a /\ s[2] = b /\ \A i \in 1 .. 2 : i = 1 \/ i = 2
    BY <1>4
  <2>. QED
    BY <1>5, <2>1, <2>2
<1>7. PICK P : P = {a, b}
  OBVIOUS
<1>8. \A e \in P : Writable(e) /\ e.kind \notin {"credit", "debit", "acct_destroy"}
  BY <1>5, <1>7
<1>9. Follows(log', log, 2, s) /\ LogTables'
  <2>1. Write(s)
    BY <1>4 DEF EventSend
  <2>2. s \in [1 .. 2 -> P] /\ 2 \in Nat
    BY <1>6, <1>7
  <2>. QED
    BY <1>1, <1>8, <2>1, <2>2, WriteStep
<1>10. Writes(log', log, P, 2, s)
  BY <1>1, <1>6, <1>7, <1>8, <1>9 DEF Writes
<1>11. ASSUME NEW x \in Acct, NEW d \in Denom PROVE BalanceBooked(x, d)'
  <2>1. ASSUME NEW k \in {"credit", "debit"}
        PROVE  Booked(log', x, k, d) = Booked(log, x, k, d)
    <3>1. \A e \in P : ~Moved(e, x, k, d) /\ ~Erases(e, x)
      BY <1>8 DEF Moved, Erases
    <3>. QED
      BY <1>10, <3>1, NothingBooked
  <2>2. acctValue'[x][d] = acctValue[x][d]
    BY <1>2
  <2>3. BalanceBooked(x, d)
    BY DEF LogInv
  <2>. QED
    BY <2>1, <2>2, <2>3 DEF BalanceBooked
<1>12. \A x \in acctPublic' : acctFlags'[x] # None
  BY <1>2 DEF LogInv, acctVars
<1>. QED
  BY <1>3, <1>9, <1>11, <1>12 DEF LogInv

LEMMA LogInvariant == EventSpec => []LogInv
<1>1. EventInit => LogInv
  <2> SUFFICES ASSUME EventInit PROVE LogInv
    OBVIOUS
  <2>1. LedgerInit /\ log = <<>> /\ acctEvent = {}
    BY DEF EventInit, LogInit
  <2>2. LedgerInv
    BY <2>1, LedgerInvInit
  <2>3. BalancesReduced
    <3>1. Reduced(Zero)
      BY EmptyPortfolio, ReducedResults
    <3>. QED
      BY <2>1, <3>1 DEF LedgerInit, BalancesReduced, Empty
  <2>4. IsLog(log) /\ DOMAIN log = {}
    BY <2>1 DEF IsLog
  <2>5. LogTables
    BY <2>1, <2>4, MaxEventsAssumption DEF LogTables
  <2>6. \A u \in acctPublic : acctFlags[u] # None
    <3>1. acctPublic = {Root} /\ acctFlags[Root] = {"super"} /\ Root \in Acct
      BY <2>1, RootAssumption DEF LedgerInit
    <3>2. {"super"} \in SUBSET Flag
      BY DEF Flag
    <3>. QED
      BY <3>1, <3>2, NoneAssumption
  <2>7. ASSUME NEW w \in Acct, NEW d \in Denom PROVE BalanceBooked(w, d)
    <3>1. ASSUME NEW k \in {"credit", "debit"} PROVE Booked(log, w, k, d) = Zero
      <4>1. Since(log, w, k, d) = {}
        BY <2>4 DEF Since
      <4>2. PICK f : f = [i \in Since(log, w, k, d) |-> log[i].object.quant]
        OBVIOUS
      <4>3. IsFiniteSet({}) /\ f \in [{} -> Quantity]
        BY <4>1, <4>2, FS_EmptySet
      <4>4. Total(f) = Zero
        BY <4>3, TotalReduced
      <4>. QED
        BY <4>2, <4>4 DEF Booked
    <3>2. acctValue[w][d] = Zero
      BY <2>1 DEF LedgerInit, Empty
    <3>3. Zero (-) Zero = Zero
      <4>1. Reduced(Zero)
        BY EmptyPortfolio, ReducedResults
      <4>. QED
        BY <4>1, PlusZero DEF Reduced
    <3>. QED
      BY <3>1, <3>2, <3>3 DEF BalanceBooked
  <2>. QED
    BY <2>2, <2>3, <2>5, <2>6, <2>7 DEF LogInv
<1>2. LogInv /\ [EventNext]_eventVars => LogInv'
  <2>1. ASSUME LogInv, EventNext PROVE LogInv'
    BY <2>1, CommandLogged, MessageLogged DEF EventNext
  <2>2. ASSUME LogInv, UNCHANGED eventVars PROVE LogInv'
    <3>1. UNCHANGED <<acctPublic, acctFlags, acctModulus, acctPromise, acctValue, denomIssuer,
                      issuerDenom, noteIssuer, noteValue, acctNote, minted, log, acctEvent>>
      BY <2>2 DEF eventVars, ledgerVars, logVars, acctVars, denomVars, noteVars
    <3>2. LedgerInv'
      BY <2>2, LedgerStep DEF LogInv, eventVars
    <3>3. BalancesReduced' /\ LogTables'
      BY <2>2, <3>1 DEF LogInv, BalancesReduced, LogTables
    <3>4. \A w \in Acct, d \in Denom : BalanceBooked(w, d)'
      BY <2>2, <3>1 DEF LogInv, BalanceBooked
    <3>. QED
      BY <2>2, <3>1, <3>2, <3>3, <3>4 DEF LogInv
  <2>. QED
    BY <2>1, <2>2
<1>. QED
  BY <1>1, <1>2, PTL DEF EventSpec

(* What event_read answers a caller that exists.                           *)
LEMMA ReadableBy ==
  ASSUME LogInv, NEW u \in acctPublic, NEW i
  PROVE  /\ Readable(u, i) <=>
              i \in DOMAIN log /\ (u \in log[i].accts \/ (log[i].accts # {} /\ Super(u)))
         /\ Readable(u, i) => event_read(u, i).event = log[i]
BY DEF LogInv, Readable, event_read

(* event_list and event_read agree: an account can read every event of its *)
(* list, and an ordinary one finds in its list every event it can read     *)
(* (bom/event.cc keeps both tables from one list of accounts).             *)
THEOREM EventLists == EventSpec => []EventListExact
<1>1. ASSUME LogInv PROVE EventListExact
  <2>1. LogTables /\ acctPublic \subseteq Acct
    BY <1>1 DEF LogInv, LedgerInv, TypeOK
  <2>2. DOMAIN log = 1 .. Len(log) /\ Len(log) \in Nat /\ Len(log) <= MaxEvents
    BY <2>1 DEF LogTables, IsLog
  <2>3. LogTypeOK
    BY <2>1, <2>2 DEF LogTypeOK, LogTables, IsLog, Writable
  <2>4. ASSUME NEW u \in acctPublic, NEW i \in event_list(u, 1, MaxEvents) PROVE Readable(u, i)
    <3>1. <<u, i>> \in acctEvent /\ i \in DOMAIN log
      BY <2>1, <2>4 DEF event_list, LogTables
    <3>2. u \in log[i].accts
      BY <2>1, <3>1 DEF LogTables
    <3>. QED
      BY <1>1, <3>1, <3>2, ReadableBy
  <2>5. ASSUME NEW u \in acctPublic, ~Super(u), NEW i \in DOMAIN log, Readable(u, i)
        PROVE  i \in event_list(u, 1, MaxEvents)
    <3>1. u \in log[i].accts
      BY <1>1, <2>5, ReadableBy
    <3>2. <<u, i>> \in acctEvent
      BY <2>1, <3>1 DEF LogTables
    <3>3. i \in 1 .. MaxEvents
      BY <2>2, MaxEventsAssumption
    <3>. QED
      BY <3>2, <3>3 DEF event_list
  <2>. QED
    BY <2>3, <2>4, <2>5 DEF EventListExact
<1>. QED
  BY <1>1, LogInvariant, PTL

(* A client that reads the events of its account, and a superuser that     *)
(* reads all, can work out a balance: the credits less the debits since    *)
(* the account was last destroyed (bom/event.cc).                          *)
THEOREM HistoryBalances == EventSpec => []HistoryExplainsBalance
<1>1. ASSUME LogInv, NEW u \in acctPublic, NEW w \in acctPublic, NEW d \in Denom,
             u = w \/ Super(u), log # <<>>
      PROVE  LET of(kind) == {i \in History(u, w) : /\ event_read(u, i).event.kind = kind
                                                    /\ event_read(u, i).event.object.denom = d}
                 sum(S) == Total([i \in S |-> event_read(u, i).event.object.quant])
             IN  acctValue[w][d] = sum(of("credit")) (-) sum(of("debit"))
  <2> DEFINE of(kind) == {i \in History(u, w) : /\ event_read(u, i).event.kind = kind
                                                /\ event_read(u, i).event.object.denom = d}
             sum(S) == Total([i \in S |-> event_read(u, i).event.object.quant])
  <2>1. LogTables /\ u \in Acct /\ w \in Acct /\ acctFlags[u] # None
    BY <1>1 DEF LogInv, LedgerInv, TypeOK
  <2>2. DOMAIN log = 1 .. Len(log) /\ Len(log) \in Nat /\ Len(log) <= MaxEvents
    BY <2>1 DEF LogTables, IsLog
  <2>3. \A i : i \in Found(u, w) <=> i \in DOMAIN log /\ log[i].accts = {w}
    <3>1. ASSUME NEW i \in Found(u, w) PROVE i \in DOMAIN log /\ log[i].accts = {w}
      <4>1. Readable(u, i) /\ event_read(u, i).event.accts = {w}
        BY <3>1 DEF Found
      <4>. QED
        BY <1>1, <4>1, ReadableBy
    <3>2. ASSUME NEW i \in DOMAIN log, log[i].accts = {w} PROVE i \in Found(u, w)
      <4>1. Readable(u, i)
        BY <1>1, <3>2, ReadableBy
      <4>2. event_read(u, i).event = log[i]
        BY <1>1, <4>1, ReadableBy
      <4>3. CASE u = w
        <5>1. <<u, i>> \in acctEvent
          BY <2>1, <3>2, <4>3 DEF LogTables
        <5>2. i \in 1 .. MaxEvents
          BY <2>2, MaxEventsAssumption
        <5>. QED
          BY <3>2, <4>1, <4>2, <4>3, <5>1, <5>2 DEF Found, event_list
      <4>4. CASE u # w
        <5>1. event_last(u).id = Len(log)
          BY <1>1, <2>1, <4>4 DEF event_last
        <5>. QED
          BY <2>2, <3>2, <4>1, <4>2, <4>4, <5>1 DEF Found
      <4>. QED
        BY <4>3, <4>4
    <3>. QED
      BY <3>1, <3>2
  <2>4. \A i \in Found(u, w) : event_read(u, i).event = log[i]
    <3>1. \A i \in Found(u, w) : Readable(u, i)
      BY DEF Found
    <3>. QED
      BY <1>1, <3>1, ReadableBy
  <2>5. ASSUME NEW k PROVE of(k) = Since(log, w, k, d)
    <3>1. \A i : i \in of(k) <=>
            /\ i \in Found(u, w) /\ log[i].kind = k /\ log[i].object.denom = d
            /\ \A j \in Found(u, w) : log[j].kind = "acct_destroy" => j < i
      BY <2>4 DEF History
    <3>2. \A i : i \in of(k) <=> i \in Since(log, w, k, d)
      BY <2>3, <3>1 DEF Since
    <3> HIDE DEF of
    <3>. QED
      BY <3>2
  <2>6. ASSUME NEW k PROVE sum(of(k)) = Booked(log, w, k, d)
    <3>1. \A i \in Since(log, w, k, d) : event_read(u, i).event = log[i]
      BY <2>3, <2>4 DEF Since
    <3>2. sum(Since(log, w, k, d)) = Booked(log, w, k, d)
      BY <3>1 DEF Booked
    <3>. QED
      BY <2>5, <3>2
  <2>7. acctValue[w][d] = Booked(log, w, "credit", d) (-) Booked(log, w, "debit", d)
    BY <1>1, <2>1 DEF LogInv, BalanceBooked
  <2> HIDE DEF of, sum
  <2>8. acctValue[w][d] = sum(of("credit")) (-) sum(of("debit"))
    BY <2>6, <2>7
  <2>. QED
    BY <2>8 DEF of, sum
<1>2. LogInv => HistoryExplainsBalance
  BY <1>1 DEF HistoryExplainsBalance
<1>. QED
  BY <1>2, LogInvariant, PTL
=============================================================================
