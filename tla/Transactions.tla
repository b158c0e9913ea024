---------------------------- MODULE Transactions ----------------------------
(***************************************************************************)
(* What html/manual/4.html promises of txn_create, txn_commit and          *)
(* txn_abort: the commands between them are one transaction, whose work is *)
(* published whole or dropped whole.  A command outside of them is a       *)
(* transaction of its own.                                                 *)
(***************************************************************************)
CONSTANTS Client, Row, Nobody

VARIABLES
  committed,   \* the client whose work each row holds
  open,        \* the clients that are between txn_create and its end
  work         \* the rows each client has changed and not published

view == <<committed, open, work>>

TransactionsInit ==
  /\ committed = [r \in Row |-> Nobody]
  /\ open = {}
  /\ work = [c \in Client |-> {}]

Open(c) == open' = open \cup {c} /\ UNCHANGED <<committed, work>>

Work(c) ==
  /\ \E R \in SUBSET Row : work' = [work EXCEPT ![c] = R \cup @]
  /\ UNCHANGED <<committed, open>>

Publish(c) ==
  /\ committed' = [r \in Row |-> IF r \in work[c] THEN c ELSE committed[r]]
  /\ open' = open \ {c}
  /\ work' = [work EXCEPT ![c] = {}]

Drop(C) ==
  /\ open' = open \ C
  /\ work' = [c \in Client |-> IF c \in C THEN {} ELSE work[c]]
  /\ UNCHANGED committed

TransactionsNext ==
  \/ \E c \in Client : Open(c) \/ Work(c) \/ Publish(c)
  \/ \E C \in SUBSET Client : Drop(C)

TransactionsSpec == TransactionsInit /\ [][TransactionsNext]_view
=============================================================================
