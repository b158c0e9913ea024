------------------------------ MODULE Queries -------------------------------
(***************************************************************************)
(* The commands of bif/shell.cc that only read: what they answer, from the *)
(* tables of Ledger and Market and from the descriptive rows that nothing  *)
(* but these commands reads (promises and secret keys).                    *)
(*                                                                         *)
(* A query reads many tables, one row after another, and gives up with a   *)
(* database error at the first row that is missing.  It runs in one        *)
(* transaction and changes nothing, so its answer is a function of the     *)
(* state: an operator here, named as the command is.                       *)
(*                                                                         *)
(* A promise is free text; a search asks whether a text is part of it.     *)
(* It is represented by the set of searched texts that are part of it.     *)
(***************************************************************************)
EXTENDS Market

Sq == INSTANCE SequencesExt

CONSTANT Text  \* what denom_search looks for

ASSUME TextAssumption == \A T \in SUBSET Text : None # T

VARIABLES
  acctText,    \* acct_promise: the promise of each account, None without a row
  acctSecret,  \* accounts with a row in acct_secret
  denomText    \* denom_promise: likewise for denominations

textVars == <<acctText, acctSecret, denomText>>
queryVars == <<vars, textVars>>

QueriesTypeOK ==
  /\ acctText \in [Acct -> {None} \cup SUBSET Text]
  /\ acctSecret \subseteq Acct
  /\ denomText \in [Denom -> {None} \cup SUBSET Text]
  /\ acctPromise = {w \in Acct : acctText[w] # None}

-----------------------------------------------------------------------------
(* The commands that write descriptive rows                                *)

(* The rows of a new account: an empty promise and no secret.              *)
CreateAcct(u, w) ==
  /\ AcctCreate(u, w)
  /\ acctText' = [acctText EXCEPT ![w] = {}]
  /\ UNCHANGED <<acctSecret, denomText>>

(* Mutant: the secret is left for the next account of the name.            *)
RemoveAcctKeepSecret(u, w) == AcctDestroy(u, w) /\ UNCHANGED textVars

(* acct::destroy deletes the secret; it leaves the promise.                *)
RemoveAcct(u, w) ==
  /\ AcctDestroy(u, w)
  /\ acctSecret' = acctSecret \ {w}
  /\ UNCHANGED <<acctText, denomText>>

(* acct_set of the attribute w, by a superuser or the account itself.      *)
MaySetAcct(u, w) == w \in acctPublic /\ acctFlags[u] # None /\ (Super(u) \/ u = w)

AcctSetPromise(u, w, T) ==
  /\ MaySetAcct(u, w)
  /\ acctText' = [acctText EXCEPT ![w] = T]
  /\ posted' = {}
  /\ UNCHANGED <<acctVars, acctValue, denomVars, noteVars, acctSecret, denomText>>

AcctSetSecret(u, w) ==
  /\ MaySetAcct(u, w)
  /\ acctSecret' = acctSecret \cup {w}
  /\ posted' = {}
  /\ UNCHANGED <<acctVars, acctValue, denomVars, noteVars, acctText, denomText>>

(* Mutant: a new denomination gets no promise row.                         *)
CreateDenomBare(u, d) == DenomCreate(u, d) /\ UNCHANGED textVars

CreateDenom(u, d) ==
  /\ DenomCreate(u, d)
  /\ denomText' = [denomText EXCEPT ![d] = {}]
  /\ UNCHANGED <<acctText, acctSecret>>

RemoveDenom(u, d) ==
  /\ DenomDestroy(u, d)
  /\ denomText' = [denomText EXCEPT ![d] = None]
  /\ UNCHANGED <<acctText, acctSecret>>

DenomSetPromise(u, d, T) ==
  /\ denomIssuer[d] # None
  /\ Super(u) \/ (Has(u, {"issuer"}) /\ denomIssuer[d] = u)
  /\ denomText' = [denomText EXCEPT ![d] = T]
  /\ posted' = {}
  /\ UNCHANGED <<acctVars, acctValue, denomVars, noteVars, acctText, acctSecret>>

-----------------------------------------------------------------------------
(* Answers                                                                 *)

(* The tests of a command in the order it makes them, each with the answer *)
(* it gives when the test fails, and the data it prints when none does.    *)
Answer(tests, data) ==
  LET failed == {i \in DOMAIN tests : ~tests[i][1]}
  IN  IF failed = {} THEN [code |-> "success", data |-> data]
                     ELSE [code |-> tests[CHOOSE i \in failed : \A j \in failed : i <= j][2]]

(* acct_read is for anybody, about any account; it reads the flags of the  *)
(* caller, since a secret is shown to a superuser only.                    *)
acct_read(u, w) ==
  Answer(<< <<w \in acctPublic, "notfound">>,
            <<acctModulus[w] # None, "db">>,
            <<acctText[w] # None, "db">>,
            <<acctFlags[w] # None, "db">>,
            <<acctFlags[u] # None, "db">> >>,
         [flags |-> acctFlags[w], promise |-> acctText[w], modulus |-> acctModulus[w],
          secret |-> Super(u) /\ w \in acctSecret])

(* A listing of one's own account asks nothing; of another account, it     *)
(* asks that the caller be a superuser and the account exist.              *)
About(u, w) ==
  << <<u = w \/ acctFlags[u] # None, "db">>,
     <<u = w \/ Super(u), "noauth">>,
     <<u = w \/ w \in acctPublic, "notfound">> >>

balance(u, w) == Answer(About(u, w), {<<d, acctValue[w][d]>> : d \in {e \in Denom : acctValue[w][e] # Zero}})

note_list(u, w) == Answer(About(u, w), NotesOf(w))

denom_list(u, w) == Answer(About(u, w), {d \in Denom : <<w, d>> \in issuerDenom})

(* The list is that of the caller, whichever account was asked for.        *)
offer_list(u, w) == Answer(About(u, w), {o \in Offer : <<u, o>> \in acctOffer})

(* Without a signature, a note is shown to its issuer.                     *)
note_read(u, n) ==
  Answer(<< <<noteIssuer[n] # None, "notfound">>,
            <<noteIssuer[n] = u, "noauth">> >>,
         [issuer |-> noteIssuer[n], value |-> Payout(n)])

(* With the signature of its issuer, to anybody.                           *)
note_read_signed(n) ==
  Answer(<< <<noteIssuer[n] # None, "notfound">>,
            <<noteIssuer[n] \in {w \in Acct : acctModulus[w] # None}, "db">>,
            <<noteIssuer[n] \in acctPublic, "db">>,
            <<noteIssuer[n] \in {w \in Acct : acctModulus[w] = "usable"}, "noauth">> >>,
         [issuer |-> noteIssuer[n], value |-> Payout(n)])

denom_read(d) ==
  Answer(<< <<denomIssuer[d] # None, "notfound">>,
            <<denomText[d] # None, "db">> >>,
         [issuer |-> denomIssuer[d], promise |-> denomText[d]])

denom_list_all == {d \in Denom : denomIssuer[d] # None}

denom_search(t) == {d \in Denom : denomText[d] # None /\ t \in denomText[d]}

(* The issuer of an offer is shown to the issuer alone.                    *)
offer_read(u, o) ==
  Answer(<< <<offerIssuer[o] # None, "notfound">>,
            <<offerBid[o] # None, "db">>,
            <<offerAsk[o] # None, "db">> >>,
         [mine |-> offerIssuer[o] = u, ask |-> offerAsk[o], bid |-> offerBid[o]])

(* The orders in which find_all_offers may meet the rows of a pair (those  *)
(* of equal ratio in any order), after the command has reversed the list.  *)
Listed(p) ==
  {s \in Sq!SetToSeqs({r \in offerIndex : r.pair = p}) :
     \A i, j \in DOMAIN s : i < j => s[i].ratio \preceq s[j].ratio}

(* One answer for each order the rows may have.                            *)
offer_list_by_denom(p) ==
  {Answer(<< <<denomIssuer[p[1]] # None, "notfound">>,
             <<denomIssuer[p[2]] # None, "notfound">> >>,
          [i \in DOMAIN s |-> s[i].offer]) : s \in Listed(p)}

-----------------------------------------------------------------------------
TextInit(existing, issued) ==
  /\ acctText = [w \in Acct |-> IF w \in existing THEN {} ELSE None]
  /\ acctSecret = {}
  /\ denomText = [d \in Denom |-> IF d \in issued THEN {} ELSE None]

TextCommand ==
  /\ \E u \in acctPromise, w \in Acct, d \in Denom, T \in SUBSET Text :
       \/ CreateAcct(u, w) \/ RemoveAcct(u, w)
       \/ AcctSetPromise(u, w, T) \/ AcctSetSecret(u, w)
       \/ CreateDenom(u, d) \/ RemoveDenom(u, d)
       \/ DenomSetPromise(u, d, T)
  /\ UNCHANGED <<bookVars, threadVars>>

(* acct_set and denom_set of the attributes that other commands read.      *)
SetCommand ==
  \/ \E u \in acctPromise, w \in Acct :
       \/ \E F \in FlagSets : AcctSetFlags(u, w, F)
       \/ \E m \in {"usable", "unusable"} : AcctSetModulus(u, w, m)
  \/ \E u \in acctPromise, d \in Denom, w \in Acct : DenomSetIssuer(u, d, w)

(* The commands that write no descriptive row.                             *)
PlainCommand ==
  /\ SetCommand \/ TransferCommand \/ NoteCommand
  /\ UNCHANGED <<bookVars, threadVars, textVars>>

BookCommand ==
  /\ OfferCommand \/ \E p \in Pair : MarketSignal(p) \/ TraderStep(p)
  /\ UNCHANGED textVars

QueriesInit == Init /\ TextInit({Root}, {})

QueriesNext == TextCommand \/ PlainCommand \/ BookCommand \/ (Restart /\ UNCHANGED textVars)

QueriesSpec == QueriesInit /\ [][QueriesNext]_queryVars

-----------------------------------------------------------------------------
(* Properties                                                              *)

(* An account that exists is never answered with a database error, which   *)
(* would end its transaction: every query finds all the rows it reads,     *)
(* written and deleted by different commands, once it has found that its   *)
(* object exists.                                                          *)
QueriesAnswered ==
  /\ QueriesTypeOK
  /\ \A u \in acctPublic :
       /\ \A w \in Acct : acct_read(u, w).code # "db" /\ note_list(u, w).code # "db"
       /\ \A n \in Note : note_read_signed(n).code # "db"
       /\ \A d \in Denom : denom_read(d).code # "db"
       /\ \A o \in Offer : offer_read(u, o).code # "db"

(* What a list of one's notes or a search names can be read in the next    *)
(* command, and what can be read is listed.  The list of one's notes names *)
(* one's own, which hold value.  denom_search walks the table of promises, *)
(* and denom_read and denom_list_all start from the table of issuers: a    *)
(* search finds exactly the existing denominations whose promise, read     *)
(* now, contains the text.  denom_list names every denomination that       *)
(* denom_read shows as the caller's own, however it came to the caller;    *)
(* it is not said to name no other, for it goes on naming those that       *)
(* denom_set has given to somebody else, and these are not even readable   *)
(* once they are destroyed (bom/denom.cc:224 deletes the row of the last   *)
(* issuer only; DenomListExact of Ledger).                                 *)
ListsReadable ==
  /\ \A u \in acctPublic :
       /\ \A n \in note_list(u, u).data :
            note_read(u, n).code = "success" /\ note_read(u, n).data.value # <<>>
       /\ \A d \in denom_list_all :
            denom_read(d).data.issuer = u => d \in denom_list(u, u).data
  /\ \A t \in Text :
       denom_search(t) = {d \in denom_list_all :
                            denom_read(d).code = "success" /\ t \in denom_read(d).data.promise}

(* The first of the offers of a pair is the one a client quotes            *)
(* (html/quote.cgi) and the next trader executes: the list names every     *)
(* offer of the pair once, the cheapest, at what it asks and bids now,     *)
(* first, after any partial fills.  The list of one's own offers names     *)
(* those that can be read as one's own.                                    *)
BookListedInOrder ==
  /\ \A p \in Pair : \A answer \in offer_list_by_denom(p) :
       answer.code = "success" =>
         LET s == answer.data
             price(o) == offerAsk[o].quant (/) offerBid[o].quant
         IN  /\ Sq!ToSet(s) = {o \in Live : PairOf(o) = p}
             /\ \A i, j \in DOMAIN s : i < j => s[i] # s[j] /\ price(s[i]) \preceq price(s[j])
  /\ \A u \in acctPublic : \A o \in offer_list(u, u).data :
       offer_read(u, o).code = "success" /\ offer_read(u, o).data.mine

(* An account created under a name that was used before shows nothing its  *)
(* predecessor had set: no secret, no promise, no flag and no note.  Its   *)
(* balance is not always empty: acct_destroy takes the balance with the    *)
(* account, but acct_create leaves the rows of the name as they are, and   *)
(* so it shows what connections of the removed account have deposited      *)
(* meanwhile (RemovedAcctHoldsNothing of Ledger), and nothing older.       *)
NewAcctReadsNew ==
  [][/\ \A w \in acctPublic' \ acctPublic, u \in acctPublic :
          /\ acct_read(u, w)'.data
               = [flags |-> {}, promise |-> {}, modulus |-> "usable", secret |-> FALSE]
          /\ note_list(w, w).data' = {}
          /\ balance(w, w).data' = balance(w, w).data
     /\ \A w \in acctPublic \ acctPublic' : balance(w, w).data' = {}]_queryVars
=============================================================================
