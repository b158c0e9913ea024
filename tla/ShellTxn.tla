------------------------------ MODULE ShellTxn ------------------------------
(***************************************************************************)
(* How the commands of bif/shell.cc use Berkeley DB transactions: the      *)
(* macros begin_transaction, abort_transaction, commit_transaction and     *)
(* error_check, and the commands txn_create, txn_commit and txn_abort with *)
(* which a client makes one transaction of several commands.               *)
(*                                                                         *)
(* A command is the sequence of rows it locks and writes.  The database is *)
(* external: two-phase locking, waiting in the order of arrival, and at    *)
(* every conflict a search for a cycle whose oldest transaction is told    *)
(* EAGAIN (DB_LOCK_OLDEST, bom/db.cc).  All locks exclude each other here, *)
(* those that only read included.                                          *)
(***************************************************************************)
EXTENDS Naturals, Sequences, FiniteSets, SequencesExt

CONSTANTS
  Client,    \* connections, each with its shell
  Row,       \* rows of the database (or pages: what a lock covers)
  Script,    \* the commands: sequences of rows
  Opening,   \* the rows of txn_create: flags of the account, the new identifier
  Nobody,    \* no owner
  Lost,      \* the owner of what a transaction has locked that is never ended
  Faulty,    \* whether an operation may fail with an error that is not EAGAIN
  Leaky      \* whether the commands that forget their transaction are issued

ASSUME ScriptAssumption == Script \cup Opening \subseteq Seq(Row)
ASSUME OwnerAssumption == {Nobody, Lost} \cap Client = {} /\ Nobody # Lost
ASSUME FlagAssumption == Faulty \in BOOLEAN /\ Leaky \in BOOLEAN

VARIABLES
  committed,  \* the client whose command last wrote each row and committed
  owner,      \* the transaction (that of a client, or Lost) that locks a row
  queue,      \* the clients that wait for a row
  age,        \* the clients that have a transaction, the oldest first
  draft,      \* the rows each transaction has written
  parent,     \* shell::parent is not null
  doing,      \* the command of each shell, Idle between two
  at,         \* how far it has come
  victim,     \* clients whose operation returns EAGAIN
  told        \* clients whose last replies put them inside a transaction

dbVars    == <<committed, owner, queue, age, draft>>
shellVars == <<parent, doing, at, victim>>
txnVars   == <<dbVars, shellVars, told>>

Command == ({"plain"} \X Script) \cup ({"create"} \X Opening)

Idle == <<"none", <<>>>>

TxnTypeOK ==
  /\ committed \in [Row -> Client \cup {Nobody}]
  /\ owner \in [Row -> Client \cup {Nobody, Lost}]
  /\ queue \in [Row -> Seq(Client)]
  /\ age \in Seq(Client)
  /\ draft \in [Client -> SUBSET Row]
  /\ parent \subseteq Client
  /\ doing \in [Client -> Command \cup {Idle}]
  /\ at \in [Client -> Nat]
  /\ victim \subseteq Client
  /\ told \subseteq Client

-----------------------------------------------------------------------------
(* The database                                                            *)

Busy(c) == doing[c] # Idle
Needs(c) == doing[c][2][at[c]]
Unfinished(c) == Busy(c) /\ at[c] <= Len(doing[c][2])
Waiting(c) == Unfinished(c) /\ \E i \in DOMAIN queue[Needs(c)] : queue[Needs(c)][i] = c

(* The clients that c waits for, directly or not.                          *)
WaitsFor(c) ==
  LET step(C) == {owner[Needs(b)] : b \in {a \in C : a \in Client /\ Waiting(a)}}
      reach[n \in 0 .. Cardinality(Client)] ==
        IF n = 0 THEN {} ELSE reach[n - 1] \cup step({c} \cup reach[n - 1])
  IN  reach[Cardinality(Client)]

Older(c, d) ==
  \E i, j \in DOMAIN age : age[i] = c /\ age[j] = d /\ i < j

(* The locks of a transaction that ends go to whoever waits first.           *)
Release(c) ==
  /\ owner' = [r \in Row |->
                IF owner[r] # c THEN owner[r]
                ELSE IF queue[r] = <<>> THEN Nobody ELSE Head(queue[r])]
  /\ queue' = [r \in Row |-> IF owner[r] = c /\ queue[r] # <<>> THEN Tail(queue[r])
                             ELSE queue[r]]
  /\ draft' = [draft EXCEPT ![c] = {}]

txn_abort(c) == Release(c) /\ UNCHANGED committed

txn_commit(c) ==
  /\ Release(c)
  /\ committed' = [r \in Row |-> IF r \in draft[c] THEN c ELSE committed[r]]

-----------------------------------------------------------------------------
(* A command begins: in the parent transaction, or in a new one.           *)

Issue(c, command) ==
  /\ ~Busy(c)
  /\ command[1] = "create" => c \notin parent
  /\ doing' = [doing EXCEPT ![c] = command]
  /\ at' = [at EXCEPT ![c] = 1]
  /\ age' = IF c \in parent THEN age ELSE Append(age, c)
  /\ UNCHANGED <<committed, owner, queue, draft, parent, victim, told>>

Reply(c) ==
  /\ doing' = [doing EXCEPT ![c] = Idle]
  /\ at' = [at EXCEPT ![c] = 0]
  /\ victim' = victim \ {c}

(* An operation on the next row.                                           *)
Access(c) ==
  /\ Unfinished(c) /\ c \notin victim
  /\ owner[Needs(c)] \in {Nobody, c}
  /\ owner' = [owner EXCEPT ![Needs(c)] = c]
  /\ draft' = [draft EXCEPT ![c] = @ \cup {Needs(c)}]
  /\ at' = [at EXCEPT ![c] = @ + 1]
  /\ UNCHANGED <<committed, queue, age, parent, doing, victim, told>>

Wait(c) ==
  /\ Unfinished(c) /\ c \notin victim /\ ~Waiting(c)
  /\ owner[Needs(c)] \notin {Nobody, c}
  /\ queue' = [queue EXCEPT ![Needs(c)] = Append(@, c)]
  /\ UNCHANGED <<committed, owner, age, draft, shellVars, told>>

(* The search for a deadlock: one of the oldest in each cycle is told.     *)
Detect(c) ==
  /\ Waiting(c) /\ c \in WaitsFor(c)
  /\ WaitsFor(c) \cap victim = {}
  /\ \A d \in WaitsFor(c) : ~Older(d, c)
  /\ queue' = [queue EXCEPT ![Needs(c)] = RemoveFirst(@, c)]
  /\ victim' = victim \cup {c}
  /\ UNCHANGED <<committed, owner, age, draft, parent, doing, at, told>>

(* Mutant: the command is tried again without txn_abort.                   *)
RetryHolding(c) ==
  /\ c \in victim /\ c \notin parent
  /\ at' = [at EXCEPT ![c] = 1]
  /\ victim' = victim \ {c}
  /\ UNCHANGED <<dbVars, parent, doing, told>>

(* error_check on EAGAIN in a command of its own transaction: a new one is *)
(* begun and the command starts again at its label.                        *)
Retry(c) ==
  /\ c \in victim /\ c \notin parent
  /\ txn_abort(c)
  /\ age' = Append(RemoveFirst(age, c), c)
  /\ at' = [at EXCEPT ![c] = 1]
  /\ victim' = victim \ {c}
  /\ UNCHANGED <<parent, doing, told>>

(* The transaction of c ends, and is no longer among the active ones.      *)
Over(c) == age' = RemoveFirst(age, c)

(* error_check on EAGAIN in a client's transaction: CODE_ERR_ABORTED.      *)
Aborted(c) ==
  /\ c \in victim /\ c \in parent
  /\ txn_abort(c) /\ Over(c)
  /\ parent' = parent \ {c}
  /\ told' = told \ {c}
  /\ Reply(c)

(* error_check on any other error: parent is cleared before it is tested,  *)
(* so the client reads CODE_ERR_DB whether or not it had a transaction.    *)
Fail(c) ==
  /\ Faulty
  /\ Unfinished(c) /\ c \notin victim /\ ~Waiting(c)
  /\ txn_abort(c) /\ Over(c)
  /\ parent' = parent \ {c}
  /\ Reply(c)
  /\ UNCHANGED told

(* A command finds something wrong.  abort_transaction does nothing in a   *)
(* client's transaction, and what the command has written stays in it.     *)
Refuse(c) ==
  /\ Unfinished(c) /\ c \notin victim /\ ~Waiting(c)
  /\ IF c \in parent THEN UNCHANGED dbVars ELSE txn_abort(c) /\ Over(c)
  /\ Reply(c)
  /\ UNCHANGED <<parent, told>>

(* event_send without a recipient, event_last and txn_create without the   *)
(* permission: the command returns and nobody ends its transaction.        *)
Forget(c) ==
  /\ Leaky
  /\ Unfinished(c) /\ c \notin victim /\ ~Waiting(c)
  /\ IF c \in parent THEN UNCHANGED dbVars
     ELSE /\ owner' = [r \in Row |-> IF owner[r] = c THEN Lost ELSE owner[r]]
          /\ draft' = [draft EXCEPT ![c] = {}]
          /\ Over(c)
          /\ UNCHANGED <<committed, queue>>
  /\ Reply(c)
  /\ UNCHANGED <<parent, told>>

(* Mutant: commit_transaction does not ask for a parent.                   *)
FinishAlone(c) ==
  /\ Busy(c) /\ ~Unfinished(c)
  /\ doing[c][1] = "plain"
  /\ txn_commit(c) /\ Over(c)
  /\ Reply(c)
  /\ UNCHANGED <<parent, told>>

(* commit_transaction at the end of a command.                             *)
Finish(c) ==
  /\ Busy(c) /\ ~Unfinished(c)
  /\ doing[c][1] = "plain"
  /\ IF c \in parent THEN UNCHANGED dbVars ELSE txn_commit(c) /\ Over(c)
  /\ Reply(c)
  /\ UNCHANGED <<parent, told>>

(* cmd_txn_create keeps its transaction as the parent of what follows.     *)
txn_create(c) ==
  /\ Busy(c) /\ ~Unfinished(c)
  /\ doing[c][1] = "create"
  /\ parent' = parent \cup {c}
  /\ told' = told \cup {c}
  /\ Reply(c)
  /\ UNCHANGED dbVars

(* txn_commit, which may fail and is then answered with CODE_ERR_ABORTED.  *)
cmd_txn_commit(c, ok) ==
  /\ ~Busy(c) /\ c \in parent
  /\ ok \/ Faulty
  /\ IF ok THEN txn_commit(c) ELSE txn_abort(c)
  /\ Over(c)
  /\ parent' = parent \ {c}
  /\ told' = told \ {c}
  /\ UNCHANGED <<doing, at, victim>>

(* Mutant: the connection leaves its transaction open.                     *)
LeaveOpen(c) ==
  /\ ~Busy(c) /\ c \in parent
  /\ parent' = parent \ {c}
  /\ told' = told \ {c}
  /\ UNCHANGED <<dbVars, doing, at, victim>>

(* txn_abort, and the destructor of a shell whose client has gone.         *)
cmd_txn_abort(c) ==
  /\ ~Busy(c) /\ c \in parent
  /\ txn_abort(c) /\ Over(c)
  /\ parent' = parent \ {c}
  /\ told' = told \ {c}
  /\ UNCHANGED <<doing, at, victim>>

(* barterd stops or crashes; recovery undoes what was not committed.       *)
Restart ==
  /\ owner' = [r \in Row |-> Nobody]
  /\ queue' = [r \in Row |-> <<>>]
  /\ age' = <<>>
  /\ draft' = [c \in Client |-> {}]
  /\ parent' = {} /\ victim' = {} /\ told' = {}
  /\ doing' = [c \in Client |-> Idle]
  /\ at' = [c \in Client |-> 0]
  /\ UNCHANGED committed

-----------------------------------------------------------------------------
TxnInit ==
  /\ committed = [r \in Row |-> Nobody]
  /\ owner = [r \in Row |-> Nobody]
  /\ queue = [r \in Row |-> <<>>]
  /\ age = <<>>
  /\ draft = [c \in Client |-> {}]
  /\ parent = {} /\ victim = {} /\ told = {}
  /\ doing = [c \in Client |-> Idle]
  /\ at = [c \in Client |-> 0]

(* What the thread of a shell does by itself, in a command.                *)
Run(c) ==
  \/ Access(c) \/ Wait(c) \/ Detect(c) \/ Retry(c) \/ Aborted(c)
  \/ Finish(c) \/ txn_create(c)

End(c) == (\E ok \in BOOLEAN : cmd_txn_commit(c, ok)) \/ cmd_txn_abort(c)

(* Without errors of the database and commands that forget.                *)
SoundNext ==
  \/ \E c \in Client :
       \/ \E command \in Command : Issue(c, command)
       \/ Run(c) \/ Refuse(c) \/ End(c)
  \/ Restart

TxnNext == SoundNext \/ \E c \in Client : Fail(c) \/ Forget(c)

TxnSpec == TxnInit /\ [][TxnNext]_txnVars

(* Shells are scheduled, and a client that has a transaction ends it.      *)
TxnFairness == \A c \in Client : WF_txnVars(Run(c)) /\ SF_txnVars(End(c))

SoundSpec == TxnInit /\ [][SoundNext]_txnVars /\ TxnFairness

-----------------------------------------------------------------------------
(* Properties                                                              *)

(* Every row is locked by a command that is running or by a client's       *)
(* transaction, or by one that a command forgot; what is written and not   *)
(* committed is locked; nobody waits for a free row.                       *)
LocksAccounted ==
  /\ TxnTypeOK
  /\ \A r \in Row : owner[r] \in {Nobody, Lost} \/ Busy(owner[r]) \/ owner[r] \in parent
  /\ \A c \in Client : draft[c] \subseteq {r \in Row : owner[r] = c}
  /\ \A r \in Row : owner[r] = Nobody => queue[r] = <<>>
  /\ \A c \in Client : (Busy(c) \/ c \in parent) <=> \E i \in DOMAIN age : age[i] = c

T == INSTANCE Transactions WITH open <- told, work <- draft

(* html/manual/4.html, txn_create: "All commands after txn_create and      *)
(* before txn_commit or txn_abort will be treated as a transaction": it is *)
(* published whole or dropped whole, and only when the client is told that *)
(* it has ended.                                                           *)
TreatedAsTransaction == T!TransactionsSpec

S == INSTANCE Transactions WITH open <- parent, work <- draft

(* Whatever fails, what is written to the database is the work of whole    *)
(* transactions as the shell has them: that of one it ends with an error   *)
(* is dropped, rows of commands before the failing one included.  Only the *)
(* client may be mistaken about where the transaction ended.               *)
WholeOrNothing == S!TransactionsSpec

(* Commands are always answered: conflicts end, and never go on for ever   *)
(* with shells that make victims of one another and start again, although  *)
(* the oldest transaction is chosen each time.  (A command may be a victim *)
(* for ever while others come and are answered.)                           *)
CommandsAnswered ==
  \/ []<>(\A c \in Client : ~Busy(c))
  \/ []<><<\E c \in Client : Busy(c) /\ ~Busy(c)'>>_doing
=============================================================================
