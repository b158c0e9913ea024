----------------------------- MODULE LedgerProofs -----------------------------
(***************************************************************************)
(* Theorems about the ledger, for any denominations and amounts and any    *)
(* finite numbers of accounts and notes (finite because their balances are *)
(* summed; nothing else needs it).                                         *)
(*                                                                         *)
(* TypeOK is inductive.  The invariants of the reverse tables and of the   *)
(* notes are parts of LedgerInv, which is.  From it follow the action      *)
(* properties: balances go below zero only where the code allows it, value *)
(* is conserved, and the events posted add up to what they report.         *)
(***************************************************************************)
EXTENDS Ledger, QuantityProofs

(* A value list names some denomination, each with a positive amount.      *)
LEMMA ValueListPositive ==
  ASSUME NEW v \in ValueLists
  PROVE  /\ DOMAIN v \subseteq Denom /\ DOMAIN v # {}
         /\ \A d \in DOMAIN v : v[d] \in Positive
<1>1. PICK D \in (SUBSET Denom) \ {{}} : v \in [D -> Amounts]
  BY DEF ValueLists
<1> QED BY <1>1, AmountsAssumption

(* The portfolio of a new account, and what an absent row of acct_value or *)
(* note_value stands for.                                                  *)
LEMMA EmptyPortfolio == Empty \in Portfolio /\ Zero \in Quantity
BY DEF Empty, Portfolio, Zero, Quantity

(* Crediting a list of values to a portfolio gives a portfolio.            *)
LEMMA DepositPortfolio ==
  ASSUME NEW p \in Portfolio, NEW v, \A d \in DOMAIN v : v[d] \in Quantity
  PROVE  Deposit(p, v) \in Portfolio
<1>1. \A d \in Denom : d \in DOMAIN v => p[d] (+) v[d] \in Quantity
  BY PlusQuantity DEF Portfolio
<1> QED BY <1>1 DEF Deposit, Portfolio

(* Debiting a list of values from a portfolio gives a portfolio.           *)
LEMMA WithdrawPortfolio ==
  ASSUME NEW p \in Portfolio, NEW v, \A d \in DOMAIN v : v[d] \in Quantity
  PROVE  Withdraw(p, v) \in Portfolio
<1>1. \A d \in Denom : d \in DOMAIN v => p[d] (-) v[d] \in Quantity
  BY MinusQuantity DEF Portfolio
<1> QED BY <1>1 DEF Withdraw, Portfolio

(* note::destroy keeps the types of the tables of notes.                   *)
LEMMA DestroyNotesType ==
  ASSUME TypeOK, NEW N \in SUBSET Note, DestroyNotes(N)
  PROVE  /\ noteIssuer' \in [Note -> Acct \cup {None}]
         /\ noteValue' \in [Note -> Portfolio]
         /\ acctNote' \subseteq Acct \X Note
BY EmptyPortfolio DEF TypeOK, DestroyNotes

(* Every table keeps its type in every transaction.                        *)
LEMMA TypeStep == TypeOK /\ [LedgerNext]_ledgerVars => TypeOK'
<1> SUFFICES ASSUME TypeOK, [LedgerNext]_ledgerVars PROVE TypeOK'
  OBVIOUS
<1> USE DEF acctVars, denomVars, noteVars
<1>1. CASE UNCHANGED ledgerVars
  BY <1>1 DEF TypeOK, ledgerVars
<1>2. ASSUME NEW u \in acctPromise, NEW w \in Acct, AcctCreate(u, w) PROVE TypeOK'
  BY <1>2 DEF TypeOK, AcctCreate
<1>3. ASSUME NEW u \in acctPromise, NEW w \in Acct, AcctDestroy(u, w) PROVE TypeOK'
  <2>1. NotesOf(w) \in SUBSET Note
    BY DEF NotesOf
  <2> QED BY <1>3, <2>1, DestroyNotesType, EmptyPortfolio DEF TypeOK, AcctDestroy, DestroyAcct
<1>4. ASSUME NEW u \in acctPromise, NEW w \in Acct, NEW F \in FlagSets, AcctSetFlags(u, w, F)
      PROVE TypeOK'
  BY <1>4, FlagSetsAssumption DEF TypeOK, AcctSetFlags
<1>5. ASSUME NEW u \in acctPromise, NEW w \in Acct, NEW m \in {"usable", "unusable"},
             AcctSetModulus(u, w, m)
      PROVE TypeOK'
  BY <1>5 DEF TypeOK, AcctSetModulus
<1>6. ASSUME NEW u \in acctPromise, NEW d \in Denom, DenomCreate(u, d) PROVE TypeOK'
  BY <1>6 DEF TypeOK, DenomCreate, SetDenomIssuer
<1>7. ASSUME NEW u \in acctPromise, NEW d \in Denom, NEW w \in Acct, DenomSetIssuer(u, d, w)
      PROVE TypeOK'
  BY <1>7 DEF TypeOK, DenomSetIssuer, SetDenomIssuer
<1>8. ASSUME NEW u \in acctPromise, NEW d \in Denom, DenomDestroy(u, d) PROVE TypeOK'
  BY <1>8 DEF TypeOK, DenomDestroy
<1>9. ASSUME NEW u \in acctPromise, NEW w \in Acct, NEW v \in ValueLists,
             Credit(u, w, v) \/ Debit(u, w, v)
      PROVE TypeOK'
  <2>1. \A d \in DOMAIN v : v[d] \in Quantity
    BY ValueListPositive DEF Positive
  <2>2. /\ Deposit(acctValue[w], v) \in Portfolio
        /\ Withdraw(acctValue[w], v) \in Portfolio
    BY <2>1, DepositPortfolio, WithdrawPortfolio DEF TypeOK
  <2> QED BY <1>9, <2>2 DEF TypeOK, Credit, Debit
<1>10. ASSUME NEW u \in acctPromise, NEW n \in Note, NEW v \in ValueLists, NoteWithdraw(u, v, n)
       PROVE TypeOK'
  <2>1. u \in Acct
    BY DEF TypeOK
  <2>2. \A d \in DOMAIN v : v[d] \in Quantity
    BY ValueListPositive DEF Positive
  <2>3. /\ Deposit(Empty, v) \in Portfolio
        /\ Withdraw(acctValue[u], v) \in Portfolio
    BY <2>1, <2>2, DepositPortfolio, WithdrawPortfolio, EmptyPortfolio DEF TypeOK
  <2> QED BY <1>10, <2>1, <2>3 DEF TypeOK, NoteWithdraw
<1>11. ASSUME NEW u \in acctPromise, NEW n \in Note, NoteDeposit(u, n) PROVE TypeOK'
  <2>1. u \in Acct
    BY DEF TypeOK
  <2>2. \A d \in DOMAIN Payout(n) : Payout(n)[d] \in Quantity
    BY DEF TypeOK, Portfolio, Payout
  <2>3. Deposit(acctValue[u], Payout(n)) \in Portfolio
    BY <2>1, <2>2, DepositPortfolio DEF TypeOK
  <2> QED BY <1>11, <2>1, <2>3, DestroyNotesType DEF TypeOK, NoteDeposit
<1> QED
  BY <1>1, <1>2, <1>3, <1>4, <1>5, <1>6, <1>7, <1>8, <1>9, <1>10, <1>11
     DEF LedgerNext, AcctCommand, DenomCommand, TransferCommand, NoteCommand

(* In every reachable state of the ledger each table of bom/ has its type: *)
(* no sequence of commands puts anything but accounts in the issuer        *)
(* tables, and balances and notes stay exact rationals with a positive     *)
(* denominator.                                                            *)
THEOREM TypeInvariant == LedgerSpec => []TypeOK
<1>1. LedgerInit => TypeOK
  BY EmptyPortfolio, RootAssumption DEF LedgerInit, TypeOK, Flag
<1> QED BY <1>1, TypeStep, PTL DEF LedgerSpec

-----------------------------------------------------------------------------
(* The invariants of the notes and the denominations need more of the      *)
(* state than they speak of: a note that exists has spent its identifier   *)
(* (so that the one note_withdraw takes has no rows), an account has a     *)
(* modulus row exactly while it exists (so that what note_withdraw asks of *)
(* the modulus says something of the account), and notes hold no debts.    *)
IdentifiersSpent == \A n \in Note : noteIssuer[n] # None => n \in minted

ModulusOfExisting == \A u \in Acct : acctModulus[u] # None <=> u \in acctPublic

NotesHoldNoDebt == \A n \in Note, d \in Denom : noteValue[n][d] \in Positive \cup {Zero}

LedgerInv ==
  /\ TypeOK
  /\ NoteIndexExact
  /\ DenomIndexComplete
  /\ NotesBacked
  /\ IdentifiersSpent
  /\ ModulusOfExisting
  /\ NotesHoldNoDebt

(* A note that is withdrawn holds what was debited and nothing else.       *)
LEMMA NewNote ==
  ASSUME NEW v \in ValueLists
  PROVE  /\ \A d \in Denom : Deposit(Empty, v)[d] \in Positive \cup {Zero}
         /\ \E d \in Denom : Deposit(Empty, v)[d] \in Positive
<1>1. \A d \in DOMAIN v : Zero (+) v[d] \in Positive
  BY ValueListPositive, ZeroPlusPositive
<1>2. \A d \in Denom : Deposit(Empty, v)[d] = IF d \in DOMAIN v THEN Zero (+) v[d] ELSE Zero
  BY DEF Deposit, Empty
<1>3. PICK d \in DOMAIN v : d \in Denom
  BY ValueListPositive
<1> QED BY <1>1, <1>2, <1>3

(* Destroying notes keeps everything the invariant says of notes, provided *)
(* that accounts change only in ways that leave the other issuers alone.   *)
LEMMA DestroyNotesKeeps ==
  ASSUME LedgerInv, NEW N \in SUBSET Note, DestroyNotes(N),
         \A n \in N : noteIssuer[n] # None,
         \A n \in Note \ N : noteIssuer[n] # None =>
           /\ noteIssuer[n] \in acctPublic'
           /\ acctModulus'[noteIssuer[n]] # None
  PROVE  NoteIndexExact' /\ NotesBacked' /\ IdentifiersSpent' /\ NotesHoldNoDebt'
<1> USE DEF LedgerInv
<1>1. /\ \A n \in Note : noteIssuer'[n] = IF n \in N THEN None ELSE noteIssuer[n]
      /\ \A n \in Note : noteValue'[n] = IF n \in N THEN Empty ELSE noteValue[n]
      /\ acctNote' = acctNote \ {<<noteIssuer[n], n>> : n \in N}
      /\ minted' = minted
  BY DEF DestroyNotes
<1>2. NoteIndexExact'
  BY <1>1 DEF NoteIndexExact
<1>3. NotesBacked'
  BY <1>1 DEF NotesBacked
<1>4. IdentifiersSpent'
  BY <1>1 DEF IdentifiersSpent
<1>5. NotesHoldNoDebt'
  BY <1>1 DEF NotesHoldNoDebt, Empty
<1> QED BY <1>2, <1>3, <1>4, <1>5

(* Commands that touch no note and remove no account keep what the         *)
(* invariant says of notes.                                                *)
LEMMA NotesUntouched ==
  ASSUME LedgerInv, UNCHANGED noteVars, acctPublic \subseteq acctPublic',
         \A u \in Acct : acctModulus[u] # None => acctModulus'[u] # None
  PROVE  NoteIndexExact' /\ NotesBacked' /\ IdentifiersSpent' /\ NotesHoldNoDebt'
<1>1. NoteIndexExact' /\ IdentifiersSpent' /\ NotesHoldNoDebt'
  BY DEF LedgerInv, noteVars, NoteIndexExact, IdentifiersSpent, NotesHoldNoDebt
<1>2. NotesBacked'
  BY DEF LedgerInv, noteVars, NotesBacked, TypeOK
<1> QED BY <1>1, <1>2

(* The invariant is inductive: one step per command of bif/shell.cc.       *)
LEMMA LedgerStep == LedgerInv /\ [LedgerNext]_ledgerVars => LedgerInv'
<1> SUFFICES ASSUME LedgerInv, [LedgerNext]_ledgerVars PROVE LedgerInv'
  OBVIOUS
<1> USE DEF acctVars, denomVars
<1> DEFINE Notes  == NoteIndexExact /\ NotesBacked /\ IdentifiersSpent /\ NotesHoldNoDebt
           Others == DenomIndexComplete /\ ModulusOfExisting
<1>1. TypeOK /\ TypeOK'
  BY TypeStep DEF LedgerInv
<1>2. CASE UNCHANGED ledgerVars
  BY <1>2 DEF LedgerInv, ledgerVars, noteVars, TypeOK, NoteIndexExact, DenomIndexComplete,
              NotesBacked, IdentifiersSpent, ModulusOfExisting, NotesHoldNoDebt
<1>3. ASSUME NEW u \in acctPromise, NEW w \in Acct, AcctCreate(u, w) PROVE Notes' /\ Others'
  <2>1. Notes'
    BY <1>1, <1>3, NotesUntouched, NoneAssumption DEF AcctCreate, TypeOK
  <2>2. Others'
    BY <1>1, <1>3, NoneAssumption
       DEF AcctCreate, LedgerInv, DenomIndexComplete, ModulusOfExisting, TypeOK
  <2> QED BY <2>1, <2>2
<1>4. ASSUME NEW u \in acctPromise, NEW w \in Acct, AcctDestroy(u, w) PROVE Notes' /\ Others'
  <2>1. NotesOf(w) = {n \in Note : noteIssuer[n] = w} /\ w # None
    BY NoneAssumption DEF LedgerInv, NoteIndexExact, NotesOf
  <2>2. \A n \in Note \ NotesOf(w) : noteIssuer[n] # None =>
          /\ noteIssuer[n] \in acctPublic'
          /\ acctModulus'[noteIssuer[n]] # None
    BY <1>1, <1>4, <2>1 DEF AcctDestroy, DestroyAcct, LedgerInv, NotesBacked, TypeOK
  <2>3. Notes'
    BY <1>4, <2>1, <2>2, DestroyNotesKeeps DEF AcctDestroy, DestroyAcct
  <2>4. Others'
    BY <1>1, <1>4 DEF AcctDestroy, DestroyAcct, LedgerInv, DenomIndexComplete, ModulusOfExisting, TypeOK
  <2> QED BY <2>3, <2>4
<1>5. ASSUME NEW u \in acctPromise, NEW w \in Acct, NEW F \in FlagSets, AcctSetFlags(u, w, F)
      PROVE Notes' /\ Others'
  <2>1. Notes'
    BY <1>5, NotesUntouched DEF AcctSetFlags
  <2>2. Others'
    BY <1>5 DEF AcctSetFlags, LedgerInv, DenomIndexComplete, ModulusOfExisting
  <2> QED BY <2>1, <2>2
<1>6. ASSUME NEW u \in acctPromise, NEW w \in Acct, NEW m \in {"usable", "unusable"},
             AcctSetModulus(u, w, m)
      PROVE Notes' /\ Others'
  <2>1. m # None
    BY NoneAssumption
  <2>2. Notes'
    BY <1>1, <1>6, <2>1, NotesUntouched DEF AcctSetModulus, TypeOK
  <2>3. Others'
    BY <1>1, <1>6, <2>1
       DEF AcctSetModulus, LedgerInv, DenomIndexComplete, ModulusOfExisting, TypeOK
  <2> QED BY <2>2, <2>3
<1>7. ASSUME NEW u \in acctPromise, NEW d \in Denom, NEW w \in Acct, SetDenomIssuer(d, w),
             UNCHANGED <<acctVars, noteVars>>
      PROVE Notes' /\ Others'
  <2>1. Notes'
    BY <1>7, NotesUntouched
  <2>2. Others'
    BY <1>1, <1>7
       DEF SetDenomIssuer, LedgerInv, DenomIndexComplete, ModulusOfExisting, TypeOK
  <2> QED BY <2>1, <2>2
<1>8. ASSUME NEW u \in acctPromise, NEW d \in Denom, DenomDestroy(u, d) PROVE Notes' /\ Others'
  <2>1. Notes'
    BY <1>8, NotesUntouched DEF DenomDestroy
  <2>2. Others'
    BY <1>1, <1>8
       DEF DenomDestroy, LedgerInv, DenomIndexComplete, ModulusOfExisting, TypeOK
  <2> QED BY <2>1, <2>2
<1>9. ASSUME UNCHANGED <<acctVars, denomVars, noteVars>> PROVE Notes' /\ Others'
  <2>1. Notes'
    BY <1>9, NotesUntouched
  <2>2. Others'
    BY <1>9 DEF LedgerInv, DenomIndexComplete, ModulusOfExisting
  <2> QED BY <2>1, <2>2
<1>10. ASSUME NEW u \in acctPromise, NEW n \in Note, NEW v \in ValueLists, NoteWithdraw(u, v, n)
       PROVE Notes' /\ Others'
  <2>1. u \in Acct /\ u \in acctPublic /\ u # None /\ acctModulus[u] # None
    BY <1>1, <1>10, NoneAssumption DEF NoteWithdraw, TypeOK, LedgerInv, ModulusOfExisting
  <2>2. noteIssuer[n] = None
    BY <1>10 DEF NoteWithdraw, LedgerInv, IdentifiersSpent
  <2>3. /\ \A k \in Note : noteIssuer'[k] = IF k = n THEN u ELSE noteIssuer[k]
        /\ \A k \in Note : noteValue'[k] = IF k = n THEN Deposit(Empty, v) ELSE noteValue[k]
        /\ acctNote' = acctNote \cup {<<u, n>>}
        /\ minted' = minted \cup {n}
        /\ UNCHANGED <<acctVars, denomVars>>
    BY <1>1, <1>10 DEF NoteWithdraw, TypeOK
  <2>4. NoteIndexExact'
    BY <2>1, <2>2, <2>3 DEF LedgerInv, NoteIndexExact
  <2>5. NotesBacked'
    BY <2>1, <2>3, NewNote DEF LedgerInv, NotesBacked
  <2>6. IdentifiersSpent' /\ NotesHoldNoDebt'
    BY <2>3, NewNote DEF LedgerInv, IdentifiersSpent, NotesHoldNoDebt
  <2>7. Others'
    BY <2>3 DEF LedgerInv, DenomIndexComplete, ModulusOfExisting
  <2> QED BY <2>4, <2>5, <2>6, <2>7
<1>11. ASSUME NEW u \in acctPromise, NEW n \in Note, NoteDeposit(u, n) PROVE Notes' /\ Others'
  <2>1. /\ noteIssuer[n] # None
        /\ DestroyNotes({n})
        /\ UNCHANGED <<acctVars, denomVars>>
    BY <1>11 DEF NoteDeposit
  <2>2. Notes'
    BY <2>1, DestroyNotesKeeps DEF LedgerInv, NotesBacked
  <2>3. Others'
    BY <2>1 DEF LedgerInv, DenomIndexComplete, ModulusOfExisting
  <2> QED BY <2>2, <2>3
<1>12. LedgerNext => Notes' /\ Others'
  <2>1. ASSUME AcctCommand PROVE Notes' /\ Others'
    BY <2>1, <1>3, <1>4, <1>5, <1>6 DEF AcctCommand
  <2>2. ASSUME DenomCommand PROVE Notes' /\ Others'
    BY <2>2, <1>1, <1>7, <1>8 DEF DenomCommand, DenomCreate, DenomSetIssuer, TypeOK
  <2>3. ASSUME TransferCommand PROVE Notes' /\ Others'
    BY <2>3, <1>9 DEF TransferCommand, Credit, Debit
  <2>4. ASSUME NoteCommand PROVE Notes' /\ Others'
    BY <2>4, <1>10, <1>11 DEF NoteCommand
  <2> QED BY <2>1, <2>2, <2>3, <2>4 DEF LedgerNext
<1> QED BY <1>1, <1>2, <1>12 DEF LedgerInv

LEMMA LedgerInvInit == LedgerInit => LedgerInv
<1> SUFFICES ASSUME LedgerInit PROVE LedgerInv
  OBVIOUS
<1>1. TypeOK
  BY EmptyPortfolio, RootAssumption DEF LedgerInit, TypeOK, Flag
<1>2. NoteIndexExact /\ DenomIndexComplete /\ NotesBacked /\ IdentifiersSpent
  BY DEF LedgerInit, NoteIndexExact, DenomIndexComplete, NotesBacked, IdentifiersSpent
<1>3. ModulusOfExisting /\ NotesHoldNoDebt
  BY NoneAssumption DEF LedgerInit, ModulusOfExisting, NotesHoldNoDebt, Empty
<1> QED BY <1>1, <1>2, <1>3 DEF LedgerInv

(* The invariant holds in every reachable state.                           *)
LEMMA LedgerInvariant == LedgerSpec => []LedgerInv
BY LedgerInvInit, LedgerStep, PTL DEF LedgerSpec

(* acct_note mirrors note_issuer in every reachable state: note_list shows *)
(* exactly the notes of an account, and acct_destroy, which works from     *)
(* that list, destroys them all.                                           *)
THEOREM NoteIndex == LedgerSpec => []NoteIndexExact
<1>1. LedgerInv => NoteIndexExact
  BY DEF LedgerInv
<1> QED BY <1>1, LedgerInvariant, PTL

(* Every denomination is in issuer_denom under its present issuer, through *)
(* any creations, moves and destructions (denom::set_issuer,               *)
(* denom::del_issuer).                                                     *)
THEOREM DenomIndex == LedgerSpec => []DenomIndexComplete
<1>1. LedgerInv => DenomIndexComplete
  BY DEF LedgerInv
<1> QED BY <1>1, LedgerInvariant, PTL

(* In every reachable state a note that exists holds value, and its issuer *)
(* exists and has a modulus row, as note_deposit needs; whatever accounts  *)
(* are destroyed, created again or still in use by connections.            *)
THEOREM BackedNotes == LedgerSpec => []NotesBacked
<1>1. LedgerInv => NotesBacked
  BY DEF LedgerInv
<1> QED BY <1>1, LedgerInvariant, PTL

-----------------------------------------------------------------------------
(* What a step may do to the balance of u in d.                            *)
OverdraftStep(u, d) ==
  acctValue'[u][d] \prec acctValue[u][d] /\ acctValue'[u][d] \prec Zero
    => MayOverdraw(u, d) \/ TransferCommand

(* The order of quantities is irreflexive.                                 *)
LEMMA NotLessThanItself == ASSUME NEW p \in Quantity PROVE ~ (p \prec p)
BY DEF Quantity, \prec

(* acct::debit: a balance that it takes below zero is one that the account *)
(* may overdraw.                                                           *)
LEMMA DebitAuthorised ==
  ASSUME TypeOK, NEW u \in Acct, NEW d \in Denom, NEW v \in ValueLists, CanDebit(u, v),
         acctValue' = [acctValue EXCEPT ![u] = Withdraw(@, v)]
  PROVE  acctValue'[u][d] \prec acctValue[u][d] /\ acctValue'[u][d] \prec Zero
           => MayOverdraw(u, d)
<1>1. acctValue[u][d] \in Quantity
  BY DEF TypeOK, Portfolio
<1>2. acctValue'[u][d] = IF d \in DOMAIN v THEN acctValue[u][d] (-) v[d] ELSE acctValue[u][d]
  BY DEF TypeOK, Withdraw
<1>3. CASE d \notin DOMAIN v
  BY <1>1, <1>2, <1>3, NotLessThanItself
<1>4. CASE d \in DOMAIN v /\ v[d] \preceq acctValue[u][d]
  <2>1. v[d] \in Quantity
    BY <1>4, ValueListPositive DEF Positive
  <2> QED BY <1>1, <1>2, <1>4, <2>1, MinusNotNegative
<1>5. CASE d \in DOMAIN v /\ MayOverdraw(u, d)
  BY <1>5
<1> QED BY <1>3, <1>4, <1>5 DEF CanDebit

(* Depositing a note lowers no balance.                                    *)
LEMMA PayoutNeverLowers ==
  ASSUME TypeOK, NotesHoldNoDebt, NEW u \in Acct, NEW n \in Note, NEW d \in Denom,
         acctValue' = [acctValue EXCEPT ![u] = Deposit(@, Payout(n))]
  PROVE  ~ (acctValue'[u][d] \prec acctValue[u][d])
<1>1. acctValue[u][d] \in Quantity
  BY DEF TypeOK, Portfolio
<1>2. acctValue'[u][d] = IF noteValue[n][d] # Zero THEN acctValue[u][d] (+) noteValue[n][d]
                                                   ELSE acctValue[u][d]
  BY DEF TypeOK, Deposit, Payout
<1>3. CASE noteValue[n][d] # Zero
  <2>1. noteValue[n][d] \in Positive
    BY <1>3 DEF NotesHoldNoDebt
  <2> QED BY <1>1, <1>2, <1>3, <2>1, PlusNotLess
<1>4. CASE noteValue[n][d] = Zero
  BY <1>1, <1>2, <1>4, NotLessThanItself
<1> QED BY <1>3, <1>4

(* The step property OverdraftAuthorised, for one account and              *)
(* denomination.                                                           *)
LEMMA OverdraftSteps ==
  ASSUME LedgerInv, [LedgerNext]_ledgerVars, NEW u \in Acct, NEW d \in Denom
  PROVE  OverdraftStep(u, d)
<1>1. TypeOK /\ NotesHoldNoDebt /\ acctValue[u][d] \in Quantity
  BY DEF LedgerInv, TypeOK, Portfolio
<1>2. CASE acctValue'[u] = acctValue[u]
  BY <1>1, <1>2, NotLessThanItself DEF OverdraftStep
<1>3. CASE UNCHANGED ledgerVars
  BY <1>2, <1>3 DEF ledgerVars
<1>4. CASE AcctCommand
  <2>1. ASSUME NEW x \in acctPromise, NEW w \in Acct, AcctDestroy(x, w)
        PROVE OverdraftStep(u, d)
    <3>1. CASE u # w
      BY <1>1, <1>2, <2>1, <3>1 DEF AcctDestroy, DestroyAcct, TypeOK
    <3>2. CASE u = w
      <4>1. acctValue'[u][d] = Zero
        BY <1>1, <2>1, <3>2 DEF AcctDestroy, DestroyAcct, TypeOK, Empty
      <4> QED BY <4>1, NotLessThanItself, EmptyPortfolio DEF OverdraftStep
    <3> QED BY <3>1, <3>2
  <2> QED
    BY <1>2, <1>4, <2>1 DEF AcctCommand, AcctCreate, AcctSetFlags, AcctSetModulus
<1>5. CASE DenomCommand
  BY <1>2, <1>5 DEF DenomCommand, DenomCreate, DenomSetIssuer, DenomDestroy
<1>6. CASE TransferCommand
  BY <1>6 DEF OverdraftStep
<1>7. CASE NoteCommand
  <2>1. PICK x \in acctPromise, n \in Note :
          \/ \E v \in ValueLists : NoteWithdraw(x, v, n)
          \/ NoteDeposit(x, n)
    BY <1>7 DEF NoteCommand
  <2>2. x \in Acct
    BY <1>1 DEF TypeOK
  <2>3. CASE u # x
    BY <1>1, <1>2, <2>1, <2>3 DEF NoteWithdraw, NoteDeposit, TypeOK
  <2>4. ASSUME u = x, NEW v \in ValueLists, NoteWithdraw(x, v, n) PROVE OverdraftStep(u, d)
    BY <1>1, <2>4, DebitAuthorised DEF NoteWithdraw, OverdraftStep
  <2>5. ASSUME u = x, NoteDeposit(x, n) PROVE OverdraftStep(u, d)
    BY <1>1, <2>5, PayoutNeverLowers DEF NoteDeposit, OverdraftStep
  <2> QED BY <2>1, <2>3, <2>4, <2>5
<1> QED BY <1>3, <1>4, <1>5, <1>6, <1>7 DEF LedgerNext

(* In every behaviour of the ledger, a step that leaves a balance lower    *)
(* and negative is a debit command or is made under an account that is     *)
(* then a superuser or the issuer of the denomination (the test in         *)
(* acct::debit).                                                           *)
THEOREM Overdrafts == LedgerSpec => OverdraftAuthorised
<1>1. LedgerInv /\ [LedgerNext]_ledgerVars
        => [\A u \in Acct, d \in Denom : OverdraftStep(u, d)]_acctValue
  BY OverdraftSteps
<1> QED
  BY <1>1, LedgerInvariant, PTL DEF LedgerSpec, OverdraftAuthorised, OverdraftStep

-----------------------------------------------------------------------------
(* Conservation of value.                                                  *)
Balances(d) == [u \in Acct |-> acctValue[u][d]]
Holdings(d) == [n \in Note |-> noteValue[n][d]]

LEMMA SupplyParts ==
  ASSUME TypeOK, NEW d \in Denom
  PROVE  /\ Balances(d) \in [Acct -> Quantity] /\ Holdings(d) \in [Note -> Quantity]
         /\ IsFiniteSet(Acct) /\ IsFiniteSet(Note)
         /\ Supply(d) = Total(Balances(d)) (+) Total(Holdings(d))
         /\ Total(Balances(d)) \in Quantity /\ Total(Holdings(d)) \in Quantity
<1>1. Balances(d) \in [Acct -> Quantity] /\ Holdings(d) \in [Note -> Quantity]
  BY DEF TypeOK, Portfolio, Balances, Holdings
<1>2. Total(Balances(d)) \in Quantity /\ Total(Holdings(d)) \in Quantity
  BY <1>1, IdentifiersAssumption, TotalReduced DEF Reduced
<1>3. Supply(d) = Total(Balances(d)) (+) Total(Holdings(d))
  BY DEF Supply, Balances, Holdings
<1>. QED
  BY <1>1, <1>2, <1>3, IdentifiersAssumption

(* The sum of the balances when that of u alone changes.                   *)
LEMMA BalanceChange ==
  ASSUME TypeOK, TypeOK', NEW u \in Acct, NEW d \in Denom,
         \A w \in Acct \ {u} : acctValue'[w][d] = acctValue[w][d]
  PROVE  \E r \in Quantity : /\ Total(Balances(d)) = acctValue[u][d] (+) r
                             /\ Total(Balances(d))' = acctValue'[u][d] (+) r
<1>1. PICK f \in [Acct -> Quantity] : f = Balances(d)
  BY SupplyParts
<1>2. PICK h \in [Acct -> Quantity] : h = Balances(d)'
  BY DEF TypeOK, Portfolio, Balances
<1>3. f[u] = acctValue[u][d] /\ h[u] = acctValue'[u][d] /\ \A w \in Acct \ {u} : f[w] = h[w]
  BY <1>1, <1>2 DEF Balances
<1>4. \E r \in Quantity : Total(f) = f[u] (+) r /\ Total(h) = h[u] (+) r
  BY <1>3, IdentifiersAssumption, TotalChange
<1>. QED
  BY <1>1, <1>2, <1>3, <1>4

LEMMA HoldingChange ==
  ASSUME TypeOK, TypeOK', NEW n \in Note, NEW d \in Denom,
         \A m \in Note \ {n} : noteValue'[m][d] = noteValue[m][d]
  PROVE  \E r \in Quantity : /\ Total(Holdings(d)) = noteValue[n][d] (+) r
                             /\ Total(Holdings(d))' = noteValue'[n][d] (+) r
<1>1. PICK f \in [Note -> Quantity] : f = Holdings(d)
  BY SupplyParts
<1>2. PICK h \in [Note -> Quantity] : h = Holdings(d)'
  BY DEF TypeOK, Portfolio, Holdings
<1>3. f[n] = noteValue[n][d] /\ h[n] = noteValue'[n][d] /\ \A m \in Note \ {n} : f[m] = h[m]
  BY <1>1, <1>2 DEF Holdings
<1>4. \E r \in Quantity : Total(f) = f[n] (+) r /\ Total(h) = h[n] (+) r
  BY <1>3, IdentifiersAssumption, TotalChange
<1>. QED
  BY <1>1, <1>2, <1>3, <1>4

(* Withdrawing a note and depositing one move value between a balance and  *)
(* the note.                                                               *)
LEMMA NotesMoveValue ==
  ASSUME LedgerInv, TypeOK', NEW u \in Acct, NEW n \in Note, NEW d \in Denom,
         (\E v \in ValueLists : NoteWithdraw(u, v, n)) \/ NoteDeposit(u, n)
  PROVE  Supply(d)' = Supply(d)
<1>1. TypeOK /\ IdentifiersSpent /\ NotesBacked
  BY DEF LedgerInv
<1>2. /\ acctValue[u][d] \in Quantity /\ noteValue[n][d] \in Quantity
      /\ acctValue \in [Acct -> Portfolio] /\ noteValue \in [Note -> Portfolio]
  BY <1>1 DEF TypeOK, Portfolio
<1>3. /\ \A w \in Acct \ {u} : acctValue'[w][d] = acctValue[w][d]
      /\ \A m \in Note \ {n} : noteValue'[m][d] = noteValue[m][d]
  BY <1>2 DEF NoteWithdraw, NoteDeposit, DestroyNotes
<1>4. PICK r \in Quantity : /\ Total(Balances(d)) = acctValue[u][d] (+) r
                            /\ Total(Balances(d))' = acctValue'[u][d] (+) r
  BY <1>1, <1>3, BalanceChange
<1>5. PICK s \in Quantity : /\ Total(Holdings(d)) = noteValue[n][d] (+) s
                            /\ Total(Holdings(d))' = noteValue'[n][d] (+) s
  BY <1>1, <1>3, HoldingChange
<1>6. /\ Supply(d) = (acctValue[u][d] (+) r) (+) (noteValue[n][d] (+) s)
      /\ Supply(d)' = (acctValue'[u][d] (+) r) (+) (noteValue'[n][d] (+) s)
  BY <1>4, <1>5 DEF Supply, Balances, Holdings
<1>7. ASSUME NEW v \in ValueLists, NoteWithdraw(u, v, n) PROVE Supply(d)' = Supply(d)
  <2>1. noteValue[n][d] = Zero
    BY <1>1, <1>7 DEF NoteWithdraw, IdentifiersSpent, NotesBacked, Empty
  <2>2. /\ acctValue'[u][d] = IF d \in DOMAIN v THEN acctValue[u][d] (-) v[d]
                                                ELSE acctValue[u][d]
        /\ noteValue'[n][d] = IF d \in DOMAIN v THEN Zero (+) v[d] ELSE Zero
    BY <1>2, <1>7 DEF NoteWithdraw, Withdraw, Deposit, Empty
  <2>3. d \in DOMAIN v => v[d] \in Quantity
    BY ValueListPositive, PositiveParts
  <2>. QED
    BY <1>2, <1>6, <2>1, <2>2, <2>3, MovedOut
<1>8. ASSUME NoteDeposit(u, n) PROVE Supply(d)' = Supply(d)
  <2>1. /\ acctValue'[u][d] = IF noteValue[n][d] # Zero THEN acctValue[u][d] (+) noteValue[n][d]
                                                        ELSE acctValue[u][d]
        /\ noteValue'[n][d] = Zero
    BY <1>2, <1>8 DEF NoteDeposit, DestroyNotes, Deposit, Payout, Empty
  <2>. QED
    BY <1>2, <1>6, <2>1, MovedIn
<1>. QED
  BY <1>7, <1>8

LEMMA SupplySteps ==
  ASSUME LedgerInv, TypeOK', [LedgerNext]_ledgerVars, NEW d \in Denom
  PROVE  \/ Supply(d)' = Supply(d)
         \/ TransferCommand
         \/ \E u \in acctPromise, w \in Acct : AcctDestroy(u, w)
<1>1. CASE NoteCommand
  <2>1. PICK u \in acctPromise, n \in Note :
          (\E v \in ValueLists : NoteWithdraw(u, v, n)) \/ NoteDeposit(u, n)
    BY <1>1 DEF NoteCommand
  <2>2. u \in Acct
    BY DEF LedgerInv, TypeOK
  <2>. QED
    BY <2>1, <2>2, NotesMoveValue
<1>2. CASE UNCHANGED <<acctValue, noteValue>>
  BY <1>2 DEF Supply
<1>3. CASE DenomCommand \/ UNCHANGED ledgerVars
  BY <1>2, <1>3 DEF DenomCommand, DenomCreate, DenomSetIssuer, DenomDestroy, noteVars, ledgerVars
<1>4. CASE AcctCommand
  BY <1>2, <1>4 DEF AcctCommand, AcctCreate, AcctSetFlags, AcctSetModulus, noteVars
<1>. QED
  BY <1>1, <1>3, <1>4 DEF LedgerNext

(* Value is made and destroyed by credit, debit and acct_destroy alone,    *)
(* however many accounts and notes there are: what acct::debit and         *)
(* note::set_portfolio take from one table and put in the other is the     *)
(* same sum, in exact arithmetic.                                          *)
THEOREM Conservation == LedgerSpec => SupplyConserved
<1>1. LedgerInv /\ LedgerInv' /\ [LedgerNext]_ledgerVars
        => [(\E d \in Denom : Supply(d)' # Supply(d))
              => \/ TransferCommand
                 \/ \E u \in acctPromise, w \in Acct : AcctDestroy(u, w)]_<<acctValue, noteValue>>
  <2>1. LedgerInv' => TypeOK'
    BY DEF LedgerInv
  <2>. QED
    BY <2>1, SupplySteps
<1>. QED
  BY <1>1, LedgerInvariant, PTL DEF LedgerSpec, SupplyConserved

-----------------------------------------------------------------------------
(* The event log explains the balances.                                    *)

(* Balances are what arithmetic leaves, reduced fractions; otherwise a     *)
(* balance plus nothing could be another fraction than the balance.        *)
BalancesReduced == \A u \in Acct, d \in Denom : Reduced(acctValue[u][d])

MovesOf(u, d) == {e \in posted : e.kind \in {"credit", "debit"} /\ e.accts = {u}
                                 /\ e.object.denom = d}

Net(e) == IF e.kind = "credit" THEN e.object.quant ELSE Zero (-) e.object.quant

LEMMA RecordedNothing ==
  ASSUME NEW u, NEW d, MovesOf(u, d)' = {}
  PROVE  Recorded(u, d)' = Zero
<1>1. PICK f : f = [e \in MovesOf(u, d)' |-> Net(e)]
  OBVIOUS
<1>2. Recorded(u, d)' = Total(f)
  BY <1>1 DEF Recorded, MovesOf, Net
<1>3. f \in [{} -> Quantity]
  BY <1>1
<1>. QED
  BY <1>2, <1>3, FS_EmptySet, TotalReduced

LEMMA RecordedOne ==
  ASSUME NEW u, NEW d, NEW m, MovesOf(u, d)' = {m}, Net(m) \in Quantity
  PROVE  Recorded(u, d)' = Canonical[Net(m)]
<1>1. PICK f : f = [e \in {m} |-> Net(e)]
  OBVIOUS
<1>2. Recorded(u, d)' = Total(f)
  BY <1>1 DEF Recorded, MovesOf, Net
<1>3. f \in [{m} -> Quantity] /\ f[m] = Net(m)
  BY <1>1
<1>. QED
  BY <1>2, <1>3, TotalOne

(* What the balance of u in d must be after a step, and that it is still   *)
(* reduced.                                                                *)
Explained(u, d) ==
  /\ acctValue'[u][d] = acctValue[u][d] (+) Recorded(u, d)'
  /\ Reduced(acctValue'[u][d])

LEMMA NothingRecorded ==
  ASSUME NEW u, NEW d, Reduced(acctValue[u][d]), acctValue'[u][d] = acctValue[u][d],
         MovesOf(u, d)' = {}
  PROVE  Explained(u, d)
BY RecordedNothing, PlusZero DEF Explained, Reduced

LEMMA CreditRecorded ==
  ASSUME NEW u, NEW d, NEW q \in Quantity, Reduced(acctValue[u][d]),
         MovesOf(u, d)' = {Event("credit", {u}, [denom |-> d, quant |-> q])},
         acctValue'[u][d] = acctValue[u][d] (+) q
  PROVE  Explained(u, d)
<1> DEFINE m == Event("credit", {u}, [denom |-> d, quant |-> q])
<1>1. Net(m) = q
  BY DEF Net, Event
<1>2. MovesOf(u, d)' = {m}
  OBVIOUS
<1> HIDE DEF m
<1>3. Recorded(u, d)' = Canonical[q]
  BY <1>1, <1>2, RecordedOne
<1>4. acctValue[u][d] \in Quantity
  BY DEF Reduced
<1>5. acctValue[u][d] (+) Canonical[q] = acctValue[u][d] (+) q
  BY <1>4, PlusCanonical
<1>6. Reduced(acctValue[u][d] (+) q)
  BY <1>4, ReducedResults
<1>. QED
  BY <1>3, <1>5, <1>6 DEF Explained

LEMMA DebitRecorded ==
  ASSUME NEW u, NEW d, NEW q \in Quantity, Reduced(acctValue[u][d]),
         MovesOf(u, d)' = {Event("debit", {u}, [denom |-> d, quant |-> q])},
         acctValue'[u][d] = acctValue[u][d] (-) q
  PROVE  Explained(u, d)
<1> DEFINE m == Event("debit", {u}, [denom |-> d, quant |-> q])
<1>1. Net(m) = Zero (-) q
  BY DEF Net, Event
<1>2. MovesOf(u, d)' = {m}
  OBVIOUS
<1> HIDE DEF m
<1>3. Zero \in Quantity /\ Zero (-) q \in Quantity
  BY MinusQuantity DEF Zero, Quantity
<1>4. Recorded(u, d)' = Canonical[Zero (-) q]
  BY <1>1, <1>2, <1>3, RecordedOne
<1>5. Recorded(u, d)' = Zero (-) q
  BY <1>3, <1>4, PlusCanonical
<1>6. acctValue[u][d] (-) q = acctValue[u][d] (+) (Zero (-) q)
  BY MinusIsPlus DEF Reduced
<1>. QED
  BY <1>5, <1>6, ReducedResults DEF Explained, Reduced

(* The credits or debits of one list of values.                            *)
LEMMA ListRecorded ==
  ASSUME NEW kind \in {"credit", "debit"}, NEW w, NEW v, NEW X, NEW u, NEW d,
         posted' = Moves(kind, w, v) \cup X,
         \A e \in X : e.kind \notin {"credit", "debit"}
  PROVE  MovesOf(u, d)' = IF u = w /\ d \in DOMAIN v
                            THEN {Event(kind, {u}, [denom |-> d, quant |-> v[d]])} ELSE {}
<1> DEFINE m(c) == Event(kind, {w}, [denom |-> c, quant |-> v[c]])
<1>1. \A c : /\ m(c).kind = kind /\ m(c).accts = {w} /\ m(c).object.denom = c
  BY DEF Event
<1>2. \A e : e \in posted' <=> e \in X \/ \E c \in DOMAIN v : e = m(c)
  BY DEF Moves
<1> HIDE DEF m
<1>3. \A e : e \in MovesOf(u, d)' <=> u = w /\ d \in DOMAIN v /\ e = m(d)
  BY <1>1, <1>2 DEF MovesOf
<1>4. MovesOf(u, d)' = IF u = w /\ d \in DOMAIN v THEN {m(d)} ELSE {}
  BY <1>3
<1>. QED
  BY <1>4 DEF m

LEMMA DepositRecorded ==
  ASSUME TypeOK, BalancesReduced, NEW w \in Acct, NEW v, NEW X, NEW u \in Acct, NEW d \in Denom,
         \A c \in DOMAIN v : v[c] \in Quantity,
         acctValue' = [acctValue EXCEPT ![w] = Deposit(@, v)],
         posted' = Moves("credit", w, v) \cup X,
         \A e \in X : e.kind \notin {"credit", "debit"}
  PROVE  Explained(u, d)
<1>1. MovesOf(u, d)' = IF u = w /\ d \in DOMAIN v
                         THEN {Event("credit", {u}, [denom |-> d, quant |-> v[d]])} ELSE {}
  BY ListRecorded
<1>2. acctValue'[u][d] = IF u = w /\ d \in DOMAIN v THEN acctValue[u][d] (+) v[d]
                                                    ELSE acctValue[u][d]
  BY DEF TypeOK, Portfolio, Deposit
<1>3. Reduced(acctValue[u][d])
  BY DEF BalancesReduced
<1>4. CASE u = w /\ d \in DOMAIN v
  BY <1>1, <1>2, <1>3, <1>4, CreditRecorded
<1>5. CASE ~(u = w /\ d \in DOMAIN v)
  BY <1>1, <1>2, <1>3, <1>5, NothingRecorded
<1>. QED
  BY <1>4, <1>5

LEMMA WithdrawRecorded ==
  ASSUME TypeOK, BalancesReduced, NEW w \in Acct, NEW v, NEW X, NEW u \in Acct, NEW d \in Denom,
         \A c \in DOMAIN v : v[c] \in Quantity,
         acctValue' = [acctValue EXCEPT ![w] = Withdraw(@, v)],
         posted' = Moves("debit", w, v) \cup X,
         \A e \in X : e.kind \notin {"credit", "debit"}
  PROVE  Explained(u, d)
<1>1. MovesOf(u, d)' = IF u = w /\ d \in DOMAIN v
                         THEN {Event("debit", {u}, [denom |-> d, quant |-> v[d]])} ELSE {}
  BY ListRecorded
<1>2. acctValue'[u][d] = IF u = w /\ d \in DOMAIN v THEN acctValue[u][d] (-) v[d]
                                                    ELSE acctValue[u][d]
  BY DEF TypeOK, Portfolio, Withdraw
<1>3. Reduced(acctValue[u][d])
  BY DEF BalancesReduced
<1>4. CASE u = w /\ d \in DOMAIN v
  BY <1>1, <1>2, <1>3, <1>4, DebitRecorded
<1>5. CASE ~(u = w /\ d \in DOMAIN v)
  BY <1>1, <1>2, <1>3, <1>5, NothingRecorded
<1>. QED
  BY <1>4, <1>5

(* Every command explains what it does to a balance.                       *)
AuditStep(u, d) ==
  Explained(u, d) \/ (Event("acct_destroy", {u}, u) \in posted' /\ Reduced(acctValue'[u][d]))

LEMMA AuditSteps ==
  ASSUME LedgerInv, BalancesReduced, LedgerNext, NEW u \in Acct, NEW d \in Denom
  PROVE  AuditStep(u, d)
<1>1. TypeOK /\ NotesHoldNoDebt /\ acctPromise \subseteq Acct /\ Reduced(acctValue[u][d])
  BY DEF LedgerInv, TypeOK, BalancesReduced
<1>2. ASSUME acctValue'[u][d] = acctValue[u][d],
             \A e \in posted' : e.kind \notin {"credit", "debit"}
      PROVE  AuditStep(u, d)
  <2>1. MovesOf(u, d)' = {}
    BY <1>2 DEF MovesOf
  <2>. QED
    BY <1>1, <1>2, <2>1, NothingRecorded DEF AuditStep
<1>3. CASE AcctCommand
  <2>1. ASSUME NEW x \in acctPromise, NEW w \in Acct, AcctDestroy(x, w) PROVE AuditStep(u, d)
    <3>1. CASE u # w
      <4>1. acctValue'[u][d] = acctValue[u][d]
        BY <1>1, <2>1, <3>1 DEF AcctDestroy, DestroyAcct, TypeOK
      <4>2. \A e \in posted' : e.kind \notin {"credit", "debit"}
        BY <2>1 DEF AcctDestroy, Event
      <4>. QED
        BY <1>2, <4>1, <4>2
    <3>2. CASE u = w
      <4>1. acctValue'[u][d] = Zero
        BY <1>1, <2>1, <3>2 DEF AcctDestroy, DestroyAcct, TypeOK, Empty
      <4>2. Event("acct_destroy", {u}, u) \in posted'
        BY <2>1, <3>2 DEF AcctDestroy
      <4>3. Reduced(Zero)
        BY EmptyPortfolio, ReducedResults
      <4>. QED
        BY <4>1, <4>2, <4>3 DEF AuditStep
    <3>. QED
      BY <3>1, <3>2
  <2>2. ASSUME NEW x \in acctPromise, NEW w \in Acct,
               \/ AcctCreate(x, w)
               \/ \E F \in FlagSets : AcctSetFlags(x, w, F)
               \/ \E m \in {"usable", "unusable"} : AcctSetModulus(x, w, m)
        PROVE  AuditStep(u, d)
    BY <1>2, <2>2 DEF AcctCreate, AcctSetFlags, AcctSetModulus, Event
  <2>. QED
    BY <1>3, <2>1, <2>2 DEF AcctCommand
<1>4. CASE DenomCommand
  BY <1>2, <1>4 DEF DenomCommand, DenomCreate, DenomSetIssuer, DenomDestroy, Event
<1>5. CASE TransferCommand
  <2>1. PICK x \in acctPromise, w \in Acct, v \in ValueLists : Credit(x, w, v) \/ Debit(x, w, v)
    BY <1>5 DEF TransferCommand
  <2>2. \A c \in DOMAIN v : v[c] \in Quantity
    BY ValueListPositive, PositiveParts
  <2>3. PICK X : X = {}
    OBVIOUS
  <2>4. CASE Credit(x, w, v)
    <3>1. /\ posted' = Moves("credit", w, v) \cup X /\ acctValue' = [acctValue EXCEPT ![w] = Deposit(@, v)]
          /\ \A e \in X : e.kind \notin {"credit", "debit"}
      BY <2>3, <2>4 DEF Credit
    <3>2. Explained(u, d)
      BY <1>1, <2>2, <3>1, DepositRecorded
    <3>. QED
      BY <3>2 DEF AuditStep
  <2>5. CASE Debit(x, w, v)
    <3>1. /\ posted' = Moves("debit", w, v) \cup X /\ acctValue' = [acctValue EXCEPT ![w] = Withdraw(@, v)]
          /\ \A e \in X : e.kind \notin {"credit", "debit"}
      BY <2>3, <2>5 DEF Debit
    <3>2. Explained(u, d)
      BY <1>1, <2>2, <3>1, WithdrawRecorded
    <3>. QED
      BY <3>2 DEF AuditStep
  <2>. QED
    BY <2>1, <2>4, <2>5
<1>6. CASE NoteCommand
  <2>1. PICK x \in acctPromise, n \in Note :
          (\E v \in ValueLists : NoteWithdraw(x, v, n)) \/ NoteDeposit(x, n)
    BY <1>6 DEF NoteCommand
  <2>2. x \in Acct
    BY <1>1
  <2>3. ASSUME NEW v \in ValueLists, NoteWithdraw(x, v, n) PROVE AuditStep(u, d)
    <3>1. \A c \in DOMAIN v : v[c] \in Quantity
      BY ValueListPositive, PositiveParts
    <3>2. Event("note_create", {x}, n).kind \notin {"credit", "debit"}
      BY DEF Event
    <3>. QED
      BY <1>1, <2>2, <2>3, <3>1, <3>2, WithdrawRecorded DEF NoteWithdraw, AuditStep
  <2>4. ASSUME NoteDeposit(x, n) PROVE AuditStep(u, d)
    <3>1. \A c \in DOMAIN Payout(n) : Payout(n)[c] \in Quantity
      BY <1>1 DEF Payout, TypeOK, Portfolio
    <3>2. Event("note_destroy", {noteIssuer[n]}, n).kind \notin {"credit", "debit"}
      BY DEF Event
    <3>. QED
      BY ZenonT(40), <1>1, <2>2, <2>4, <3>1, <3>2, DepositRecorded DEF NoteDeposit, AuditStep
  <2>. QED
    BY <2>1, <2>3, <2>4
<1>. QED
  BY <1>3, <1>4, <1>5, <1>6 DEF LedgerNext

(* Whatever changes a balance writes the credits and debits that add up to *)
(* the change (acct::credit and acct::debit write one each), except        *)
(* acct_destroy, which writes that.                                        *)
THEOREM Audit == LedgerSpec => AuditTrail
<1>1. LedgerInit => BalancesReduced
  <2>1. Reduced(Zero)
    BY EmptyPortfolio, ReducedResults
  <2>. QED
    BY <2>1 DEF LedgerInit, BalancesReduced, Empty
<1>2. LedgerInv /\ BalancesReduced /\ [LedgerNext]_ledgerVars => BalancesReduced'
  <2>1. LedgerInv /\ BalancesReduced /\ LedgerNext => BalancesReduced'
    BY AuditSteps DEF BalancesReduced, AuditStep, Explained
  <2>2. BalancesReduced /\ UNCHANGED ledgerVars => BalancesReduced'
    BY DEF BalancesReduced, ledgerVars
  <2>. QED
    BY <2>1, <2>2
<1>3. LedgerInv /\ BalancesReduced /\ [LedgerNext]_ledgerVars
        => [\A u \in Acct, d \in Denom :
              \/ acctValue'[u][d] = acctValue[u][d] (+) Recorded(u, d)'
              \/ Event("acct_destroy", {u}, u) \in posted']_ledgerVars
  BY AuditSteps DEF AuditStep, Explained
<1>. QED
  BY <1>1, <1>2, <1>3, LedgerInvariant, PTL DEF LedgerSpec, AuditTrail
=============================================================================
