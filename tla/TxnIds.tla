------------------------------- MODULE TxnIds -------------------------------
(***************************************************************************)
(* Identifiers of client transactions (bom/tid.cc).  txn_create writes a   *)
(* row with the identifier it answers in the transaction it leaves open,   *)
(* so that txn_read finds the row once the transaction has committed: a    *)
(* client that lost its connection, or the server, before the answer to    *)
(* txn_commit can ask for it.                                              *)
(***************************************************************************)
EXTENDS ShellTxn

CONSTANTS
  Superuser,   \* clients that may read the identifiers of others
  MaxTid       \* bound of the model: identifiers given out in a run

ASSUME TidAssumption == Superuser \subseteq Client /\ MaxTid \in Nat

VARIABLES
  tids,    \* committed rows of tid_acct: pairs of a client and a number
  made,    \* identifiers a client has been given
  current, \* the identifier of the open transaction, 0 without one
  heard    \* identifiers with what the client was told of their end

tidVars == <<tids, made, current, heard>>
allVars == <<txnVars, tidVars>>

Tid == Client \X (1 .. MaxTid)

(* The identifiers given out so far.                                       *)
Given == {i \in Tid : i[2] <= made[i[1]]}

-----------------------------------------------------------------------------
(* Mutant: the row is written in a transaction of its own.                 *)
NewTidAtOnce(c) ==
  /\ txn_create(c) /\ Cardinality(Given) < MaxTid
  /\ made' = [made EXCEPT ![c] = @ + 1]
  /\ current' = [current EXCEPT ![c] = made[c] + 1]
  /\ tids' = tids \cup {<<c, made[c] + 1>>}
  /\ UNCHANGED heard

(* tid::gen_id, set_acct and set_command in the new transaction.           *)
NewTid(c) ==
  /\ txn_create(c) /\ Cardinality(Given) < MaxTid
  /\ made' = [made EXCEPT ![c] = @ + 1]
  /\ current' = [current EXCEPT ![c] = made[c] + 1]
  /\ UNCHANGED <<tids, heard>>

(* What a client may hear of the end of its transaction, or not.           *)
Hear(c, outcome) ==
  \/ heard' = heard \cup {<<<<c, current[c]>>, outcome>>}
  \/ UNCHANGED heard

NoTid(c) == current' = [current EXCEPT ![c] = 0]

(* txn_commit: the row is published with the rest of the transaction, or   *)
(* dropped with it.                                                        *)
CommitTid(c) ==
  /\ \E ok \in BOOLEAN :
       /\ cmd_txn_commit(c, ok)
       /\ tids' = IF ok THEN tids \cup {<<c, current[c]>>} ELSE tids
       /\ Hear(c, IF ok THEN "committed" ELSE "aborted")
  /\ NoTid(c)
  /\ UNCHANGED made

(* Every other end of a client's transaction drops the row.  After an      *)
(* error the client hears nothing of its transaction (see Fail).           *)
DropTid(c) ==
  /\ \/ c \in parent /\ (cmd_txn_abort(c) \/ Aborted(c)) /\ Hear(c, "aborted")
     \/ c \in parent /\ Fail(c) /\ UNCHANGED heard
  /\ NoTid(c)
  /\ UNCHANGED <<tids, made>>

RestartTids ==
  /\ Restart
  /\ current' = [c \in Client |-> 0]
  /\ UNCHANGED <<tids, made, heard>>

(* The commands that leave the transaction as it is.                       *)
OtherStep(c) ==
  /\ \/ \E command \in Command : Issue(c, command)
     \/ Access(c) \/ Wait(c) \/ Detect(c) \/ Retry(c)
     \/ Finish(c) \/ Refuse(c) \/ Forget(c)
     \/ c \notin parent /\ Fail(c)
  /\ UNCHANGED tidVars

(* txn_read by client u.  The row of an open transaction is locked: its    *)
(* own commands read it, others wait.                                      *)
txn_read(u, i) ==
  LET open == i[2] # 0 /\ current[i[1]] = i[2] IN
  CASE open /\ u # i[1] -> "waits"
    [] ~open /\ i \notin tids -> "notfound"
    [] (open \/ i \in tids) /\ u \in {i[1]} \cup Superuser -> "success"
    [] OTHER -> "noauth"

-----------------------------------------------------------------------------
TidInit ==
  /\ TxnInit
  /\ tids = {} /\ heard = {}
  /\ made = [c \in Client |-> 0] /\ current = [c \in Client |-> 0]

TidNext ==
  \/ \E c \in Client : NewTid(c) \/ CommitTid(c) \/ DropTid(c) \/ OtherStep(c)
  \/ RestartTids

TidSpec == TidInit /\ [][TidNext]_allVars

-----------------------------------------------------------------------------
(* Properties                                                              *)

(* txn_read tells how a transaction ended, to its client and to a          *)
(* superuser alike: what a client was told of the end of its transaction   *)
(* is what txn_read answers ever after, through aborts by deadlock, lost   *)
(* connections, failing commits and restarts.                              *)
ReadTellsOutcome ==
  \A i \in Tid, u \in Client :
    (u = i[1] \/ u \in Superuser) =>
      /\ <<i, "committed">> \in heard => txn_read(u, i) = "success"
      /\ <<i, "aborted">> \in heard => txn_read(u, i) = "notfound"
=============================================================================
