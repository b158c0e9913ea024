------------------------------- MODULE Ledger -------------------------------
(***************************************************************************)
(* The ledger of dBarter: accounts, denominations, balances and notes, as  *)
(* the tables of bom/ hold them and as the commands of bif/shell.cc change *)
(* them.                                                                   *)
(*                                                                         *)
(* Every command runs in one Berkeley DB transaction under two-phase       *)
(* locking; its effect on the tables is therefore one action.  A command   *)
(* that is refused, or whose transaction is aborted, changes nothing and   *)
(* is no action.                                                           *)
(*                                                                         *)
(* A command is issued by a connection that is logged on as some account.  *)
(* A connection outlives its account, so the caller is any account that    *)
(* has ever existed: these are the keys of the table acct_promise, whose   *)
(* rows nothing deletes.                                                   *)
(***************************************************************************)
EXTENDS Quantity

CONSTANTS
  Acct,        \* account identifiers
  Denom,       \* denomination identifiers
  Note,        \* note identifiers; gen_id never yields one twice
  Root,        \* the account barterd creates in an empty database
  None,        \* "no row" in a table
  Amounts,     \* the quantities a command may name
  FlagSets,    \* the values acct_set may give to an account's flags
  MaxBalance   \* bound of the model: no command takes a balance further

Flag == {"super", "issuer"}

ASSUME RootAssumption == Root \in Acct
ASSUME NoneAssumption ==
  None \notin Acct \cup {"usable", "unusable"} /\ \A F \in SUBSET Flag : None # F
ASSUME AmountsAssumption == Amounts \subseteq Positive
ASSUME FlagSetsAssumption == FlagSets \subseteq SUBSET Flag
ASSUME MaxBalanceAssumption == MaxBalance \in Nat
(* Identifiers are words of a command line, which holds LINE_LENGTH_MAX    *)
(* characters.                                                             *)
ASSUME IdentifiersAssumption == IsFiniteSet(Acct) /\ IsFiniteSet(Note)

VARIABLES
  acctPublic,   \* accounts with a row in acct_public: the ones that exist
  acctFlags,    \* acct_flags
  acctModulus,  \* acct_modulus: no row, a modulus > 0 or a useless one
  acctPromise,  \* accounts with a row in acct_promise
  acctValue,    \* acct_value: balances; a missing row is Zero
  denomIssuer,  \* denom_issuer
  issuerDenom,  \* issuer_denom: the pairs <<account, denom>>
  noteIssuer,   \* note_issuer
  noteValue,    \* note_value; a missing row is Zero
  acctNote,     \* acct_note: the pairs <<account, note>>
  minted,       \* identifiers that gen_id has already yielded
  posted        \* the events written by the last transaction

acctVars  == <<acctPublic, acctFlags, acctModulus, acctPromise>>
denomVars == <<denomIssuer, issuerDenom>>
noteVars  == <<noteIssuer, noteValue, acctNote, minted>>
ledgerVars == <<acctVars, acctValue, denomVars, noteVars, posted>>

Portfolio == [Denom -> Quantity]

Empty == [d \in Denom |-> Zero]

(* The value list of a command: duplicates of a denomination are merged,   *)
(* so it is a function from the denominations named to their quantities.   *)
ValueLists == UNION {[D -> Amounts] : D \in (SUBSET Denom) \ {{}}}

TypeOK ==
  /\ acctPublic \subseteq Acct
  /\ acctFlags \in [Acct -> {None} \cup SUBSET Flag]
  /\ acctModulus \in [Acct -> {None, "usable", "unusable"}]
  /\ acctPromise \subseteq Acct
  /\ acctValue \in [Acct -> Portfolio]
  /\ denomIssuer \in [Denom -> Acct \cup {None}]
  /\ issuerDenom \subseteq Acct \X Denom
  /\ noteIssuer \in [Note -> Acct \cup {None}]
  /\ noteValue \in [Note -> Portfolio]
  /\ acctNote \subseteq Acct \X Note

-----------------------------------------------------------------------------
(* Helpers                                                                 *)

Has(u, F) == acctFlags[u] # None /\ acctFlags[u] \cap F # {}

Super(u) == Has(u, {"super"})

Event(kind, accts, object) == [kind |-> kind, accts |-> accts, object |-> object]

(* Mutant: every event is that of a credit.                                *)
MovesAsCredits(kind, u, v) ==
  {Event("credit", {u}, [denom |-> d, quant |-> v[d]]) : d \in DOMAIN v}

(* The events of acct::credit or acct::debit for each value of a list.     *)
Moves(kind, u, v) ==
  {Event(kind, {u}, [denom |-> d, quant |-> v[d]]) : d \in DOMAIN v}

Deposit(p, v) == [d \in Denom |-> IF d \in DOMAIN v THEN p[d] (+) v[d] ELSE p[d]]

Withdraw(p, v) == [d \in Denom |-> IF d \in DOMAIN v THEN p[d] (-) v[d] ELSE p[d]]

(* acct::debit lets a balance become negative only for a superuser and for *)
(* the issuer of the denomination.                                         *)
MayOverdraw(u, d) ==
  \/ Super(u)
  \/ Has(u, {"issuer"}) /\ denomIssuer[d] = u

(* Mutant: debit asks for the issuer flag, not whose the denomination is.  *)
CanDebitAnyIssuer(u, v) ==
  \A d \in DOMAIN v : v[d] \preceq acctValue[u][d] \/ Has(u, {"super", "issuer"})

CanDebit(u, v) ==
  \A d \in DOMAIN v : v[d] \preceq acctValue[u][d] \/ MayOverdraw(u, d)

WithinBound(p) ==
  \A d \in Denom : <<-MaxBalance, 1>> \preceq p[d] /\ p[d] \preceq <<MaxBalance, 1>>

(* Mutant: the row of the reverse table is made from the previous issuer.  *)
SetDenomIssuerLate(d, u) ==
  /\ denomIssuer' = [denomIssuer EXCEPT ![d] = u]
  /\ issuerDenom' = issuerDenom \cup {<<denomIssuer[d], d>>}

(* Mutant: the reverse table is written for a new denomination only.       *)
SetDenomIssuerOnce(d, u) ==
  /\ denomIssuer' = [denomIssuer EXCEPT ![d] = u]
  /\ issuerDenom' = IF denomIssuer[d] = None THEN issuerDenom \cup {<<u, d>>}
                                             ELSE issuerDenom

(* denom::set_issuer: the row of the previous issuer in issuer_denom stays. *)
SetDenomIssuer(d, u) ==
  /\ denomIssuer' = [denomIssuer EXCEPT ![d] = u]
  /\ issuerDenom' = issuerDenom \cup {<<u, d>>}

(* Mutant: the row of the reverse table is left behind.                    *)
DestroyNotesForwardOnly(N) ==
  /\ noteIssuer' = [n \in Note |-> IF n \in N THEN None ELSE noteIssuer[n]]
  /\ noteValue' = [n \in Note |-> IF n \in N THEN Empty ELSE noteValue[n]]
  /\ UNCHANGED <<acctNote, minted>>

(* Mutant: the event is written but no row is deleted.                     *)
DestroyNotesNot(N) == UNCHANGED noteVars

(* note::destroy for every note of N.                                      *)
DestroyNotes(N) ==
  /\ noteIssuer' = [n \in Note |-> IF n \in N THEN None ELSE noteIssuer[n]]
  /\ noteValue' = [n \in Note |-> IF n \in N THEN Empty ELSE noteValue[n]]
  /\ acctNote' = acctNote \ {<<noteIssuer[n], n>> : n \in N}
  /\ UNCHANGED minted

-----------------------------------------------------------------------------
(* Accounts                                                                *)

AcctCreate(u, w) ==
  /\ Super(u)
  /\ w \notin acctPublic
  /\ acctPublic' = acctPublic \cup {w}
  /\ acctFlags' = [acctFlags EXCEPT ![w] = {}]
  /\ acctModulus' = [acctModulus EXCEPT ![w] = "usable"]
  /\ acctPromise' = acctPromise \cup {w}
  /\ posted' = {Event("acct_create", {w}, w)}
  /\ UNCHANGED <<acctValue, denomVars, noteVars>>

AcctSetFlags(u, w, F) ==
  /\ w \in acctPublic
  /\ Super(u)
  /\ acctFlags' = [acctFlags EXCEPT ![w] = F]
  /\ posted' = {}
  /\ UNCHANGED <<acctPublic, acctModulus, acctPromise, acctValue, denomVars, noteVars>>

(* The new modulus is parsed without a check, zero and negative included.  *)
AcctSetModulus(u, w, m) ==
  /\ w \in acctPublic
  /\ acctFlags[u] # None
  /\ Super(u) \/ u = w
  /\ acctModulus' = [acctModulus EXCEPT ![w] = m]
  /\ posted' = {}
  /\ UNCHANGED <<acctPublic, acctFlags, acctPromise, acctValue, denomVars, noteVars>>

(* Mutant: the notes of an account are left alone.                         *)
NotesOfNone(w) == {}

NotesOf(w) == {n \in Note : <<w, n>> \in acctNote}

(* acct::destroy: with the account go its notes and the value they hold;   *)
(* its offers and its denominations are left alone.                        *)
DestroyAcct(w) ==
  /\ DestroyNotes(NotesOf(w))
  /\ acctValue' = [acctValue EXCEPT ![w] = Empty]
  /\ acctPublic' = acctPublic \ {w}
  /\ acctModulus' = [acctModulus EXCEPT ![w] = None]
  /\ acctFlags' = [acctFlags EXCEPT ![w] = None]
  /\ UNCHANGED acctPromise

AcctDestroy(u, w) ==
  /\ Super(u)
  /\ u # w
  /\ w \in acctPublic
  /\ DestroyAcct(w)
  /\ posted' = {Event("acct_destroy", {w}, w)}
               \cup {Event("note_destroy", {}, n) : n \in NotesOf(w)}
  /\ UNCHANGED denomVars

-----------------------------------------------------------------------------
(* Denominations                                                           *)

DenomCreate(u, d) ==
  /\ denomIssuer[d] = None
  /\ Has(u, {"issuer", "super"})
  /\ SetDenomIssuer(d, u)
  /\ posted' = {Event("denom_create", {u}, d)}
  /\ UNCHANGED <<acctVars, acctValue, noteVars>>

(* denom_set of the attribute issuer; the new issuer need not exist.       *)
DenomSetIssuer(u, d, w) ==
  /\ denomIssuer[d] # None
  /\ Super(u)
  /\ SetDenomIssuer(d, w)
  /\ posted' = {}
  /\ UNCHANGED <<acctVars, acctValue, noteVars>>

(* Balances, notes and offers in the denomination are left alone.          *)
DenomDestroy(u, d) ==
  /\ Super(u)
  /\ denomIssuer[d] # None
  /\ denomIssuer' = [denomIssuer EXCEPT ![d] = None]
  /\ issuerDenom' = issuerDenom \ {<<denomIssuer[d], d>>}
  /\ posted' = {Event("denom_destroy", {}, d)}
  /\ UNCHANGED <<acctVars, acctValue, noteVars>>

-----------------------------------------------------------------------------
(* Balances                                                                *)

(* What cmd_credit and cmd_debit ask of their caller u, of the account w   *)
(* and of the value list v.                                                *)
MayTransfer(u, w, v) ==
  /\ w \in acctPublic
  /\ Super(u)
  /\ \A d \in DOMAIN v : denomIssuer[d] # None

Credit(u, w, v) ==
  /\ MayTransfer(u, w, v)
  /\ acctValue' = [acctValue EXCEPT ![w] = Deposit(@, v)]
  /\ WithinBound(acctValue'[w])
  /\ posted' = Moves("credit", w, v)
  /\ UNCHANGED <<acctVars, denomVars, noteVars>>

(* debit_forced: the balance may become negative.                          *)
Debit(u, w, v) ==
  /\ MayTransfer(u, w, v)
  /\ acctValue' = [acctValue EXCEPT ![w] = Withdraw(@, v)]
  /\ WithinBound(acctValue'[w])
  /\ posted' = Moves("debit", w, v)
  /\ UNCHANGED <<acctVars, denomVars, noteVars>>

-----------------------------------------------------------------------------
(* Notes                                                                   *)

NoteWithdraw(u, v, n) ==
  /\ n \notin minted
  /\ acctModulus[u] = "usable"
  /\ CanDebit(u, v)
  /\ acctValue' = [acctValue EXCEPT ![u] = Withdraw(@, v)]
  /\ WithinBound(acctValue'[u])
  /\ noteIssuer' = [noteIssuer EXCEPT ![n] = u]
  /\ noteValue' = [noteValue EXCEPT ![n] = Deposit(Empty, v)]
  /\ acctNote' = acctNote \cup {<<u, n>>}
  /\ minted' = minted \cup {n}
  /\ posted' = Moves("debit", u, v) \cup {Event("note_create", {u}, n)}
  /\ UNCHANGED <<acctVars, denomVars>>

(* note::get_portfolio: the rows of note_value, as a list of values.       *)
Payout(n) == [d \in {e \in Denom : noteValue[n][e] # Zero} |-> noteValue[n][d]]

(* The bearer of note n signs its challenge with the issuer's key, which   *)
(* is checked against the modulus the issuer has now.                      *)
NoteDeposit(u, n) ==
  /\ noteIssuer[n] # None
  /\ acctModulus[noteIssuer[n]] = "usable"
  /\ acctValue' = [acctValue EXCEPT ![u] = Deposit(@, Payout(n))]
  /\ DestroyNotes({n})
  /\ posted' = Moves("credit", u, Payout(n))
               \cup {Event("note_destroy", {noteIssuer[n]}, n)}
  /\ UNCHANGED <<acctVars, denomVars>>

-----------------------------------------------------------------------------
(* barterd on an empty database: the root account and nothing else.        *)
LedgerInit ==
  /\ acctPublic = {Root}
  /\ acctFlags = [u \in Acct |-> IF u = Root THEN {"super"} ELSE None]
  /\ acctModulus = [u \in Acct |-> IF u = Root THEN "usable" ELSE None]
  /\ acctPromise = {Root}
  /\ acctValue = [u \in Acct |-> Empty]
  /\ denomIssuer = [d \in Denom |-> None]
  /\ issuerDenom = {}
  /\ noteIssuer = [n \in Note |-> None]
  /\ noteValue = [n \in Note |-> Empty]
  /\ acctNote = {}
  /\ minted = {}
  /\ posted = {}

AcctCommand ==
  \E u \in acctPromise, w \in Acct :
    \/ AcctCreate(u, w)
    \/ AcctDestroy(u, w)
    \/ \E F \in FlagSets : AcctSetFlags(u, w, F)
    \/ \E m \in {"usable", "unusable"} : AcctSetModulus(u, w, m)

DenomCommand ==
  \E u \in acctPromise, d \in Denom :
    \/ DenomCreate(u, d)
    \/ \E w \in Acct : DenomSetIssuer(u, d, w)
    \/ DenomDestroy(u, d)

TransferCommand ==
  \E u \in acctPromise, w \in Acct, v \in ValueLists :
    Credit(u, w, v) \/ Debit(u, w, v)

NoteCommand ==
  \E u \in acctPromise, n \in Note :
    \/ \E v \in ValueLists : NoteWithdraw(u, v, n)
    \/ NoteDeposit(u, n)

LedgerNext == AcctCommand \/ DenomCommand \/ TransferCommand \/ NoteCommand

LedgerSpec == LedgerInit /\ [][LedgerNext]_ledgerVars

-----------------------------------------------------------------------------
(* Properties                                                              *)

(* Every note is listed by note_list of its issuer and nothing else is: the *)
(* reverse table acct_note mirrors note_issuer through withdrawals,        *)
(* deposits and the destruction of accounts.                               *)
NoteIndexExact == acctNote = {<<noteIssuer[n], n>> : n \in {m \in Note : noteIssuer[m] # None}}

(* Every denomination is listed by denom_list of its present issuer,       *)
(* however often denom_set has moved it from one issuer to another.        *)
DenomIndexComplete ==
  \A d \in Denom : denomIssuer[d] # None => <<denomIssuer[d], d>> \in issuerDenom

(* A note that exists can still be paid out: its issuer exists and has a   *)
(* modulus row (note_deposit fails without one) and the note holds value;  *)
(* value is in no note that does not exist.  An account destroyed while a  *)
(* connection is logged on as it, or created again, must not break this.   *)
NotesBacked ==
  \A n \in Note :
    IF noteIssuer[n] # None
      THEN /\ noteIssuer[n] \in acctPublic
           /\ acctModulus[noteIssuer[n]] # None
           /\ \E d \in Denom : noteValue[n][d] \in Positive
      ELSE noteValue[n] = Empty

(* All the value of denomination d: balances and notes.                    *)
Supply(d) ==
  Total([u \in Acct |-> acctValue[u][d]]) (+) Total([n \in Note |-> noteValue[n][d]])

(* Value is made and destroyed by credit, debit and acct_destroy alone:    *)
(* no sequence of withdrawals and deposits, by whichever connections,      *)
(* multiplies a note or loses one.                                         *)
SupplyConserved ==
  [][(\E d \in Denom : Supply(d)' # Supply(d))
       => \/ TransferCommand
          \/ \E u \in acctPromise, w \in Acct : AcctDestroy(u, w)]_<<acctValue, noteValue>>

(* Net of the credit and debit events of the last transaction.             *)
Recorded(u, d) ==
  LET moves == {e \in posted : e.kind \in {"credit", "debit"} /\ e.accts = {u}
                               /\ e.object.denom = d}
  IN  Total([e \in moves |-> IF e.kind = "credit" THEN e.object.quant
                                                  ELSE Zero (-) e.object.quant])

(* The event log explains the balances: whatever changes a balance writes  *)
(* credit and debit events that add up to the change, except that          *)
(* destroying an account erases its portfolio under one acct_destroy.      *)
AuditTrail ==
  [][\A u \in Acct, d \in Denom :
       \/ acctValue'[u][d] = acctValue[u][d] (+) Recorded(u, d)'
       \/ Event("acct_destroy", {u}, u) \in posted']_ledgerVars

(* A balance goes below zero only under an account allowed to issue the    *)
(* denomination, or by a debit command: depositing, destroying and         *)
(* trading never do, and a revoked flag or a moved denomination counts     *)
(* from the next command on.                                               *)
OverdraftAuthorised ==
  [][\A u \in Acct, d \in Denom :
       acctValue'[u][d] \prec acctValue[u][d] /\ acctValue'[u][d] \prec Zero
         => MayOverdraw(u, d) \/ TransferCommand]_acctValue

-----------------------------------------------------------------------------
(* What the manual says and the code does not do                           *)

(* html/manual/4.html, denom_list: "Lists all denominations for which you  *)
(* are the issuer", and so no others.                                      *)
DenomListExact ==
  \A u \in Acct, d \in Denom : <<u, d>> \in issuerDenom => denomIssuer[d] = u

(* html/manual/4.html, user_destroy: "Removes a user from the system".     *)
RemovedAcctHoldsNothing ==
  \A u \in Acct \ acctPublic : acctValue[u] = Empty
=============================================================================
