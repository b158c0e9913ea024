# A formal model of dBarter

dBarter is a server (`barterd`) for accounts, denominations of value, bearer
notes and a market of offers.  Clients talk to it over TCP in a line protocol;
the data is kept in Berkeley DB.  This directory holds TLA+ models of the
server's state and operations, TLC configurations that check them on small
instances, and TLAPS proofs of theorems about them.

Paths below are relative to `src/`; manual pages are `html/manual/*.html`.

## The system

### Components

| Component | Code | State | Operations |
|---|---|---|---|
| exact rationals | `dmath/bq.cc` | — | four operations, order, text form |
| integers, RSA | `dmath/bz.cc`, `dmath/rsa.cc` | — | arithmetic, signatures |
| threads | `dthread/` | a mutex, a condition, `readers`, `writers` | lock, wait, signal; `rlock`, `wlock`, ... |
| transaction log | `dx/` | a file of begin/commit/abort lines, a table of states | begin, commit, abort, recovery |
| ledger | `bom/acct.cc`, `denom.cc`, `note.cc` | tables `acct_*`, `denom_*`, `issuer_denom`, `note_*` | credit, debit, set, delete, destroy; the commands that read |
| offers | `bom/offer.cc` | `offer_issuer`, `offer_ask_value`, `offer_bid_value`, `acct_offer`, `offer_index` | create, best offer, destroy, list |
| events | `bom/event.cc` | `event_type`, `event_data`, `event_acct`, `acct_event` | append, read, list, last |
| shell | `bif/shell.cc`, `bom/tid.cc` | one thread per connection: account, client transaction (`parent`), its identifier | 50 commands |
| market, traders | `bif/market.cc`, `bif/trader.cc` | threads, one per signal | signal, execute |
| server | `bif/server.cc` | list of shells, event counter | accept, event thread |
| sessions | `bif/session.cc`, `client.cc`, `site.cc`, `message.cc` | connections to other servers | connect, reconnect, relay, disconnect |
| text protocol | `bif/common.cc`, `bif/shell.cc` | bytes on their way | encode, cut into lines, decode |
| daemon | `barterd/barterd.cc`, `bom/db.cc` | pid file, directory lock | start, create root, shut down |
| bindings, web, tools | `perl/`, `html/`, `tools/`, `bin/` | none of the server's | clients of the protocol |
| vendored | `contrib/` | — | Berkeley DB and GMP headers |

### How they interact

A shell reads a command, opens a Berkeley DB transaction (or uses the one the
client has opened), reads and writes tables through `bom/`, writes an event for
each change, and commits.  If Berkeley DB picks the transaction as a deadlock
victim it is aborted and the command starts again.  `offer_create` tells the
market after its commit; the market starts a thread that executes offers of
that pair against each other, a transaction per trade, until the best ones no
longer cross.  An event that is committed wakes the event thread, which writes
to the connected clients concerned.  A shell in a session relays its client's
lines to another server and the answers back.  `shutdown` stops everything;
what is committed survives.

### What is hard, and what makes each part correct

* **Ledger.**  A fact is kept in several tables (an issuer table and its
  reverse), updated by different commands in different orders; connections
  outlive the account they are logged on as; flags and issuers change between
  commands.  Correct when the tables agree, every note can be paid out, value is
  neither made nor lost, every change of a balance is explained by events,
  balances go negative only where that is authorised, no query of an existing
  account meets a missing row, and a client that reads its events knows its
  balance.
* **Market.**  Traders and shells run concurrently, offers are filled in part,
  rows are spread over five tables, signals come after commits and are lost by
  a crash.  Correct when the tables agree after any fills, each issuer gets the
  price it asked or better, no value is made, every executable offer has a
  thread that will execute it, and traders end.
* **Transactions of shells.**  Commands are refused halfway, made victims,
  started again, fail, or forget their transaction; a client makes one
  transaction of several of them and may lose the answer to its commit.  Correct
  when work is published whole or not at all, every lock has an owner, commands
  are answered, and the outcome of a commit can be asked for.
* **Event thread, list of clients, shutdown.**  The thread waits without a
  predicate and walks a list that others change, without the lock; shutdown
  walks it three times, while shells connect, hang up, exit with their mutex
  held, or wait in a command for somebody else.  Correct when the list stays a
  list, a connection is told of its events once and in order, no signalled event
  is left unread for ever, and shutdown cuts no command and ends.
* **Lock.**  Counters, one condition for readers and writers, one signal for
  many waiters.  Correct when it excludes, loses no wake-up, and is taken when
  free.
* **Sessions.**  An unlocked list of objects on the heap, shared by shells.
  Correct when sessions are found, answers are one's own and no event is lost.
* **Log of `dx/`.**  Crashes inside writes and inside recovery, and writes that
  fail halfway in a process that goes on.  Correct when what was answered stays
  true.
* **Daemon.**  A pid file tested before it is written, a kernel lock, scripts
  beside it.  Correct when one process at a time has the database.
* **Text.**  Any character may be in an argument, any quantity in a row.
  Correct when what is read is what was written.

`PROJECT.json` lists each hazard at the line where it bites.

## The modules

| Module | Models | Notes |
|---|---|---|
| `Quantity` | `dmath/bq.cc` | rationals in canonical form; equality of pairs is equality of numbers |
| `QuantityText` | the text of quantities and values: `bq_to_string`, `string_to_bq`, `bom/value.cc` | extends `Quantity` |
| `Ledger` | the commands of `bif/shell.cc` on accounts, denominations, balances and notes, and `bom/` below them | one action per command |
| `EventLog` | `bom/event.cc`, `event_send`, `event_list`, `event_read`, `event_last` | extends `Ledger`: the events its commands post |
| `Market` | `offer_create`, `offer_destroy`, `bom/offer.cc`, `bif/market.cc`, `bif/trader.cc` | extends `Ledger`: the same balances |
| `Queries` | the commands that read, promises and secrets | extends `Market`: the same tables |
| `Transactions` | what the manual says of `txn_create`, `txn_commit`, `txn_abort` | abstract |
| `ShellTxn` | the transaction macros of `bif/shell.cc` on a database with locks and deadlocks | implements `Transactions`, as the code has them |
| `TxnIds` | `bom/tid.cc`, `txn_read` | extends `ShellTxn` |
| `EventFeed` | `bif/server.cc`: list of clients, event thread; login and exit | |
| `Shutdown` | the command `shutdown` | |
| `ReadersWriters` | what a readers-writer lock promises | abstract |
| `MutexRW` | `dthread/mutex_rw.cc` | implements `ReadersWriters` |
| `Sessions` | `bif/session.cc`, `bif/client.cc`, connect, reconnect, disconnect, relay | |
| `TxLog` | `dx/log.cc`, `dx/x.cc` | |
| `Wire` | `bif/common.cc` (encoding, decoding), `shell_read_line` | |
| `Daemon` | `barterd/barterd.cc`, `barterd.start`, `barterd.stop`, the lock in `bom/db.cc` | |
| `MC*` | small instances | |
| `QuantityProofs`, `LedgerProofs`, `MarketProofs`, `QueriesProofs`, `TxnProofs`, `ThreadsProofs`, `PartsProofs`, `TextProofs` | theorems | each extends the modules it is about |

An operator whose comment begins with "Mutant:" is a plausible mistake in the
definition that follows it.  No specification uses it; `PROJECT.json` says which
property refutes it.

### Ledger

Each variable is a table, as a function from its keys (`None`, or `Zero` for a
balance, where there is no row) or, for the tables with duplicate keys, a set of
pairs.  `minted` is not a table: it remembers the identifiers that `gen_id` has
yielded, taken never to repeat (`gen_id` joins the time in seconds and one
`rand()`).  `posted` is the set of events of the last transaction.

An action is a command that succeeds: all it reads and writes between
`begin_transaction` and `commit_transaction`.  This rests on one assumption
about Berkeley DB: under two-phase locking, transactions are serializable.  A
refused or aborted command changes nothing.  A command inside a client's own
transaction is different (its refusal does not undo what it wrote): that is the
subject of `ShellTxn`.

A command's caller is any account in `acctPromise`, the accounts that ever
existed: `acct_destroy` leaves connections that are logged on alone, and the
checks of later commands read the tables.  `Super` and `Has` are false for an
account without a flags row, as `get_flags` then fails and the command with it.

Quantities are exact; the amounts a command names come from the constant
`Amounts`, positive as every command checks.  `QuantityText` says for which
quantities this is so: a balance is always read back exactly, a bid only while
its text needs no padding.  RSA is abstracted to whether the modulus of an
account can be used: a missing one, or one that `acct_set` has set to something
useless, makes `note_withdraw` and `note_deposit` fail.

### Queries and EventLog

A command that only reads is an operator, named as the command, that yields the
code and the data of its answer; it gives up with a database error at the first
row that is missing, as the code does.  `Queries` adds the rows that the
ledger's checks never read.  A promise is represented by the set of searched
texts that are part of it.  `EventLog` numbers the events of each transaction of
`Ledger`, in the order the code writes them, and writes both tables of rows.

### Market

`Trade(p)` is `trader::execute` for the pair `p` and the commit after it, which
Berkeley DB makes one step; `TraderExit(p)` is the last, aborted round of
`trader::process`.  `signalled` counts the shells that have committed an offer
and not yet called `market::signal`; `traders` counts threads.  Several traders
may run on one pair.  Ties between offers of equal ratio are broken arbitrarily:
`offer_index` sorts duplicates by ratio and Berkeley DB promises no order for
equal ones.  `Restart` is a crash or a shutdown followed by a start: tables
survive, threads do not, and the code in `market.cc` that would find the crossed
pairs at start-up is disabled.

### ShellTxn, TxnIds

A command is a sequence of rows that it locks and writes (`Script`; for
`txn_create`, `Opening`).  The database is
external, modelled as the code configures it: exclusive locks, waiting in the
order of arrival, the oldest transaction of a cycle told `EAGAIN`.  `Retry`,
`Aborted`, `Fail`, `Refuse`, `Forget`, `Finish` are the ways the macros
`error_check`, `abort_transaction` and `commit_transaction` (or the lack of
them) end an attempt, inside and outside of a client's transaction.  `told` is
what the client believes.  `Transactions` is instantiated twice: with what the
client believes (`TreatedAsTransaction`) and with what the shell has
(`WholeOrNothing`).  `TxnIds` adds the row that `txn_create` writes and
`txn_read` finds.

### EventFeed, Shutdown

A shell is a piece of memory, linked into the list while its client is
connected; when the client is gone the memory keeps its contents until the next
connection gets it.  `Test`, `Tell` and `Advance` are the unlocked test, the
write under the shell's mutex, and the unlocked step along the list.
`recycled` remembers that memory changed hands during a walk, after which
`ToldOnce` promises nothing.

`Shutdown` takes the three walks of the command one shell at a time, with other
shells connecting, running commands, hanging up (`Hangup`: the thread deletes
its shell, whoever holds its mutex) and exiting (`cmd_exit`: the shell is
deleted with its mutex held).  A command may wait for somebody else with its
mutex held (`Wait`, `Answered`): for the answer of another server, for a row
that another client's open transaction has locked, or for its own client to
read.  A shell that is gone keeps its place in `clients`, so that a walk that
stands at it has somewhere to stand; what the walk does next is `UseFreed`,
since the behaviour of the code is then undefined: it goes on as if nothing had
happened, goes on from a connection that came later and has the memory, ends the
process, or never returns.  The action is not fair, so the last outcome is there
too.

### MutexRW

An action is a call, or the part of a call from one `wait` to the next, because
the class holds its mutex in between.  `pc` says where a thread is; a thread
that has been woken has still to get the mutex and test the counters again.

### Sessions, TxLog, Wire, Daemon

`Sessions` has cells of memory instead of objects, so that a pointer may name a
freed or a reused one; three history variables name the interleavings after
which the code's behaviour is not defined (two connects in `link`, whose reading
of `session_list`, writing of it and writing of `prev` are three steps; a
session other than the newest deleted; a session deleted under another shell),
and `undefined` is where the run then stops.  The other server is external.

`TxLog` is one process at a time on one file.  A write succeeds, fails with
nothing or a part of the line written and returns an error (`WriteFails`), or is
where the process stops (`Halt`, `HaltIn`); a cut line and the next are one
unreadable line.  `swallowed` remembers the transactions whose `commit` or
`abort` was joined to a line that a failed write had left: `commit` returns 0
and the next recovery aborts them.  `OutcomeKept` counts them, at most one per
failed write, and promises the outcome of all others.  `sync` gives up at a line
of more than 256 words, for which 255 writes in a row must have left a piece of
a line; `TornAssumption` keeps crashes and failed writes together below that.

`Wire` tells nine characters apart and carries commands as the bytes of their
encodings.  `ArgMax` stands for the 256 arguments that `decode_string` takes; a
command that has more is answered `parse error`.

`Daemon` starts several processes at once, with `barterd.stop` as two steps and
a crash anywhere.  The accept loop is a step after the transaction that finds or
makes the root account.

## The runs

| Run | Instance | Shows |
|---|---|---|
| `ledger` | 2 accounts, 1 denomination, 2 notes, amounts {1}, balances within ±1, flags none, issuer or super | `TypeOK`; `NoteIndexExact`, `DenomIndexComplete`: reverse tables; `NotesBacked`; `SupplyConserved`; `AuditTrail`; `OverdraftAuthorised` |
| `queries` | as `ledger` with 1 note and 1 promise text; or the log of events, `MaxEvents` 5 | `QueriesAnswered`, `ListsReadable`, `NewAcctReadsNew`; `EventListExact`, `HistoryExplainsBalance` |
| `market_trading` | 2 accounts, 2 denominations, 3 offers, amounts {1, 2}, balances up to 2 | the book: `OfferTablesAgree`, `CrossedBookAttended`, `BookListedInOrder`; trading: `WealthAccounted`, `LimitPriceHonoured`, `TradeFillsAnOffer` |
| `market_system` | 2 accounts, 2 denominations, 1 note, 1 offer, amounts {1}, flags none or super, restarts | `SystemAccounted`: value moving through balances, notes and offers together |
| `shell_txn` | 3 clients, 2 commands that can deadlock with one another and with a client's transaction, no database errors (`SoundSpec`), fair | `TreatedAsTransaction`, `CommandsAnswered` |
| `txn_ids` | 2 clients, 2 commands, 3 client transactions, database errors, failing commits, commands that forget | `LocksAccounted`, `WholeOrNothing`, `ReadTellsOutcome` |
| `threads` | `MutexRW` with 4 threads; `Market` with 2 offers; `EventFeed` with 2 shells, 1 account, 2 events; `Shutdown` with 3 shells, two of them superusers'; each fair | `NoLostWakeup`, `ImplementsReadersWriters`, `FreeLockTaken`; `OffersExecuted`; `PendingEventRead`; `CommandsNotCut`, `ShutdownEnds` |
| `parts` | `Daemon` with 3 processes; `EventFeed` with 2 shells, 2 accounts, 2 events; `Sessions` with 2 shells, 3 cells; `TxLog` with 3 transactions, 3 crashes and failed writes together; `Wire`; `QuantityText` | `OneServer`, `PidFileExplained`; `ClientListIntact`, `ToldOnce`; `SessionsFindable`, `AnswerOwn`; `OutcomeKept`; `ExecutedAsSent`; `QuantitiesKept` |
| `market_restart` | as the market of `threads`, with restarts | *violated*: a finding |
| `shell_txn_fault` | 2 clients with database errors | *violated*: a finding |
| `ledger_denom_list`, `ledger_removed` | 2 accounts, 1 denomination, 1 note | *violated*: findings |

**Parts.**  `parts`, `threads` and `queries` each hold several instances that
share no state.  The variable `part` chooses one at the start; its steps are
those of its module, and all else stays as it began.  A property of one part is
therefore checked on just the behaviours of its module, and trivially true of
the others.  Nothing is claimed there about two parts together; the components
that do interact are composed where they share state (`Ledger`, `Market`,
`Queries`, `EventLog`; `ShellTxn`, `TxnIds`).

**Bounds.**  Two accounts are a superuser and another, with every assignment of
flags reached by commands; the other account can be made a superuser and destroy
`Root`, so both are destroyed and created again.  Two notes let one be issued
while another is paid out or destroyed.  One denomination is enough for the
ledger, whose commands treat the values of a list independently; the market runs
have two, with both directions of trade.  Three offers are the least for a
partial fill followed by a second counter-offer at another price, and for three
ratios (1/2, 1, 2) on either side; with amounts {1, 2} trades are partial on
either side and whole on both.  `MaxBalance` bounds balances that commands
increase; credits from deposits and trades are not guarded by it.  `Offer` and
`Note` bound the identifiers that are ever used.  `MaxEvents` (5 in the log)
lets an account be created, credited, destroyed and created again; that it is
credited once more takes a sixth event, which only the theorem `HistoryBalances`
reaches.  In the feed 2 events are the least for one to be told while another
arrives, and `MCOneEvent`, `MCOneAcct` and `MCFeed` keep to one event where a
second account or a second login is in play.  Three clients are the least for a
victim to retry behind a waiting third.  Four threads are the least for a signal
that wakes one of two waiting readers or writers while another thread comes in.
`MaxTid`, `MaxBegun`, `MaxCrashes`, `MaxFailures`, `MaxId`, `MaxCmd`,
`MaxEvent`, `MaxSent` and `MaxArgs` bound what is counted; three transactions
with two crashes and one failed write, or two failed writes and one crash
(`MCLog`), reach a line cut in recovery after a line cut in a write, and two
commits swallowed before the recovery that undoes them.  `MCSessions` allows
three sessions at once without traffic, two with one command, or one after the
other with all the messages; once two shells share a session, after which
nothing is promised, no other is made.  `Wire` carries one command with
arguments of up to two characters (`MaxWord`), or two with arguments of at most
one (`Short`), or one argument more than `ArgMax` 2 allows (`Wide`); `LineMax` 9
puts the greatest line among them, so that both lengths at the boundary occur.
`Shutdown` has two superusers, so that one shutdown meets another, and a third
shell that may come late, hang up, exit or wait.  Each connection comes once.
`QuantityText` adds and takes 4/3, 1/20 and 5/2: a fraction, decimals that begin
with zero, and whole parts.

The market runs start from a database in which both accounts exist and hold
value (`MCStart`, `MCBookStart`), reached by the commands of the ledger;
`market_trading` leaves out the ledger's commands other than `acct_destroy`, and
`market_system` those the market does not depend on.  The rows of `queries`
start from one that had a denomination (`MCRowsStart`).  `CHECK_DEADLOCK FALSE`
is set where the bounds (spent identifiers, no account left with flags) or a
shutdown can stop the model.

**Symmetry.**  Notes, offers and accounts other than `Root` are interchangeable
in the modules, and so are pieces of memory and accounts of the feed, and the
denominations of the market's starting states.  Runs with liveness properties
use none.

**Fairness.**  Nothing is assumed of clients but what is said here.

* Market: a shell that has committed goes on to signal, and a trader's thread is
  scheduled, each weakly fair: pthreads are scheduled preemptively, and an
  aborted transaction is tried again at once.
* `MutexRW`: a woken thread eventually obtains the mutex (weak); not that a
  holder ever unlocks.
* `EventFeed`: the event thread is scheduled (weak); `PendingEventRead` has as
  its premise that the thread is woken again and again.
* `ShellTxn`: a shell in a command is scheduled (weak), and a client that has a
  transaction open ends it (strong, as others may make it a victim meanwhile):
  without that, its locks would rightly make the others wait for ever.
* `Shutdown`: a command that waits for nobody ends (weak), and the walk obtains
  a mutex that is free again and again (strong: a shell without a command waits
  for its client, which no scheduler hurries), its clients taking the line
  `goodbye` that it writes them.  That a command which waits for somebody else
  is ever answered is not assumed: it is the premise of `ShutdownEnds`, which a
  server in a session, or a client with an open transaction, can fail.  Nothing
  is fair about connecting, hanging up, exiting, or what follows the use of
  freed memory.

### What the violated runs show

* `ledger_denom_list`: `denom_set` leaves the previous issuer's row in
  `issuer_denom` (`bom/denom.cc:186-237`), so `denom_list` shows denominations
  of others.
* `ledger_removed`: a destroyed account still logged on can be given value.
* `market_restart`: offers that cross are not executed after a restart, until
  another offer on the pair arrives.
* `shell_txn_fault`: `error_check` clears `parent` on a database error before it
  tests it (`bif/shell.cc:354`); the client is told of the error but not that
  its transaction is gone, and its next commands commit one by one.

### Other departures from the documentation

Met while modelling; the models do what the code does.

* An issuer may not credit its own denomination (`bif/shell.cc:1262`), which
  `4.html:209-210` allows.
* A client that connects while `shutdown` walks the list may be cut off without
  a word, and two shutdowns that run at once wait for each other for ever
  (`bif/shell.cc:1732-1737`; `4.html:27-28`).  `CommandsNotCut` says what
  holds of the others, for any number of superusers (theorem `NoCommandCut`),
  and `ShutdownEnds` what holds of one that meets no other.
* `shutdown` can also wait for ever, or use freed memory, because of one shell:
  `exit` deletes the shell with its mutex held (`bif/shell.cc:1693-1700`), and a
  command that is relayed to a silent server keeps its mutex (193-195).
  `ShutdownEnds` excuses just these: the walk stands at a shell that is gone, or
  a command waits for ever.
* `denom_list` may name a denomination that nobody can read: one given away by
  `denom_set` and then destroyed, whose stale row stays (`bom/denom.cc:224`).
  `ListsReadable` therefore says of `denom_list` only that it leaves out none of
  one's own.
* A new account may have a balance: what connections of a removed account of the
  same name deposited after `acct_destroy`, which `acct_create` does not clear.
  `NewAcctReadsNew` says that it has no other.
* `dx::x::commit` may return 0 and the transaction be aborted at the next start:
  if a write before it failed halfway, its line is joined to what that left
  (`dx/log.cc:75`).
* `offer_list` of another account lists the caller's offers
  (`bif/shell.cc:2454`, against the usage text at 2419); `offer_list_by_denom`
  and one's own list are right (`BookListedInOrder`).
* `event_list` lists the caller's own events, also for a superuser, who may read
  all (`bif/shell.cc:1839`; `4.html:85-86`: "which the user has permission to
  read").  For ordinary accounts it lists just those (`EventListExact`).
* The decimals of a bid are padded with spaces, not zeros, by the `%0<n>s` of
  `dmath/bq.cc:279` on the build's C library, and the offer's value is then not
  read back exactly (`fifi.html:106-107`).  `QuantitiesKept` says
  when it is exact.

## The proofs

All proofs are checked by TLAPS with Z3, Zenon and, for the temporal steps, LS4.
Each module proves facts about steps first; its theorems, at the end of each
part, combine them with the specification.

`QuantityProofs`.  A finite non-empty set of integers has a maximum
(`MaxIsGreatest`, from the well-foundedness of strict inclusion on finite sets);
so the greatest common divisor that `Canonical` divides by exists, reducing a
fraction keeps the rational (`CanonicalForm`), and fractions of equal value
reduce to one pair (`CanonicalUnique`: the least denominator of a value divides
all its others, which `LowestTerms` shows by division with rest).  On this rest
the laws of the operations and of the order that the other modules use.  Sums
over accounts, notes and offers are folds: that `MapThenFoldSet` is well defined
on finite sets, and does not depend on the element it chooses, is shown by a
least counterexample under inclusion, which needs no induction theorem;
`TotalRest` takes one value out of a sum.

`LedgerProofs`, for any denominations and amounts and finite sets of accounts
and notes, under the assumptions named in `Ledger` (`Root` is an account, `None`
is none of the values stored, amounts are positive, flags are sets of flags):

* `TypeInvariant`: `TypeOK` is inductive as it stands.
* `NoteIndex`, `DenomIndex`, `BackedNotes`: these are parts of `LedgerInv`,
  which adds what they need to be inductive.  `IdentifiersSpent` (a note that
  exists is in `minted`) tells that a new note replaces no other;
  `ModulusOfExisting` (a modulus row exactly while the account exists) turns the
  check of the modulus in `note_withdraw` into the existence of the issuer; and
  `NoteIndexExact` is what lets `acct_destroy`, which reads the reverse table,
  destroy all the notes of an account.
* `Overdrafts`: from `LedgerInv` and the arithmetic of `QuantityProofs`, the
  action property `OverdraftAuthorised`.  `NotesHoldNoDebt` tells that deposits
  lower no balance.
* `Conservation`: what leaves one table arrives in the other, so
  `SupplyConserved`, with sums over any finite numbers of accounts and notes.
* `Audit`: `AuditTrail` compares quantities for equality, so it needs to know
  that balances are in lowest terms (`BalancesReduced`, inductive).

`MarketProofs`, for any finite or infinite set of offers, under the assumptions
of `Ledger` and that `None` is neither an offer nor a value.  `MarketInv` is
`LedgerInv`, as offers move the ledger's balances, with `BookInv`:
`OfferTablesAgree`; that an offer that exists has spent its identifier; and that
the index is finite, so that a pair that has offers has a best one.

* `OfferTables`, `LedgerUnderMarket`: parts of `MarketInv`, under restarts too.
* `CrossedBooksAttended`: for `RunningSpec`, the steps of `Spec` without
  `Restart`, after which it is false (`market_restart`).  A pair that comes to
  be crossed does so by an offer whose shell has yet to signal; and a trader
  ends only on seeing its pair not crossed, which is then so from either side.
* `TradesFillOffers`, `LimitPrices`: a trade's parts are the smaller of the two
  offers, whole, and the share of the other that its own ratio gives.
* `MarketOverdrafts`, `MarketAudited`: the ledger's two properties, with trades,
  whose two pairs of credits may be to one account.
* `RatioInvariant`, `WealthKept`: `trader::execute` rewrites what an offer asks
  and bids, not its row in the index.  `RatioExact` says that the ratio in the
  row is still the price.  It is what shows that the two ratios of a crossed
  pair make each part given cover what the other asks (`CrossingCovers`): a
  trade may lose value and never makes any.
* `WholeSystemAccounted`: the three together, as `market_system` checks them.

`QueriesProofs`, for any texts, with the assumptions of `Market`; the theorems
on the log also take it that there are finitely many denominations
(`DenomAssumption`), as a command numbers the events of its list of values.

* `EveryQueryAnswered`, `ListedIsReadable`: a query makes tests in turn and
  reads rows whose absence it would answer with an error of the database
  (`Answer`). `RowsExact` says which rows exist together: flags and modulus
  exactly while the account does, a promise for ever, the text of a denomination
  while it has an issuer.  With it no test of a row fails that an earlier test
  has not covered. `ListedIsReadable` takes `denom_list` from
  `DenomIndexComplete`, so in one direction only.
* `NewAcctShowsNothing`: for an account created under a name used before, also
  that creating it changes no balance and that removing one leaves none
  (`AccountsDisappear`: only `acct_destroy` removes one, and it takes the
  balance along), so that what the name holds was given to it in between.
* `BookInOrder`: a book is a permutation of the rows of the index in the order
  of their ratios; that it is in the order of the prices now asked needs
  `RatioExact` (`PriceIsRatio`), and that it is complete that an injection of
  `1..n` into a set of `n` rows reaches them all (`Enumeration`).
* `EventLists`, `HistoryBalances`: `LogInv` has the two tables of events in step
  (`LogTables`) and each balance equal to what is `Booked` as credits less
  debits: the sums over `Since`, the moves after the account's last
  destruction.  A command writes at most one move of an account in a
  denomination, or destroys the account and writes none (`LedgerMoves`); what is
  written then adds to one of the sums (`OneBooked`), to neither
  (`NothingBooked`), or clears both (`ErasedBooked`), in whatever order the
  events are numbered.  What a client finds by reading is `Since`.

`TxnProofs`, for any clients, rows and scripts.  `TxnInv` says that queues are
waited in once and only for rows of others (`QueuesSound`), that locks are held
by a command, a client's transaction or a forgotten one (`OwnersActive`), that
uncommitted rows are locked by their writer (`DraftsLocked`), and that the
database's ages are those of just the transactions there are (`AgesExact`).

* `LocksAlwaysAccounted` follows from it, for `TxnSpec` with all its failures.
* `AlwaysWholeOrNothing`, `SoundlyTreatedAsTransaction`: each step of `ShellTxn`
  is a step of `Transactions` or a stutter; for the second, `ToldTheTruth` (the
  client believes it has a transaction exactly when the shell has) is invariant
  when the database does not fail.
* `ReadAlwaysTellsOutcome`: `TidInv` says that a transaction is open exactly
  while its identifier is current, and that what is written or heard of an
  identifier is of one that has ended.  `TidSpecIsTxnSpec` carries the rest
  over.

`ThreadsProofs`, the lock, for any finite set of threads: `MutexTypeInvariant`;
`MutualExclusion` and `WakeupsKept`, whose invariants are inductive once the
counters are known to count the holders; and `Refinement`: each step adds one
holder, removes one or changes none (`StepEffect`), which is an action of
`ReadersWriters` or a stutter.

`ThreadsProofs`, the command `shutdown`, for any set of connections, any of them
superusers, that come, hang up and exit: `NoCommandCut`.  Two shutdowns may lock
at once, and a walk unlocks shells it has not locked, so that only one ever gets
past its first walk is the heart of the proof.  `Met` names the shells a walk
meets for sure: those behind its own in the list, and those that came before any
shutdown, as long as they are there.  While all are still locking, each holds
the shells it has met, which have no command (`Own`, `Locked`).  Of two that
lock, the one in front must pass the other, and does not pass one that holds its
own mutex; so the one that gets through has nobody past it (`Behind`), stays
alone and keeps its mutex (`Alone`), and whoever it met stays without a command
until cancelled (`Cut`).  A shell that goes, even one that is locked or that a
walk stands at, takes none of this from the others: the step along the list
passes over nobody who is there (`FollowingIs`, `MovesBy`), nor does a walk that
uses freed memory (`StraysNotBy`), which only late connections can be cancelled
by.

`PartsProofs`, the daemon, for any set of processes: the inductive invariant
`DaemonInv` is the types, `LockIsServer` (a process is in the database exactly
while it holds the kernel's lock) and `PidFileExplained`.  `OneServerAlways`
follows from `LockIsServer`; the pid file takes no part in it, so removing it at
the wrong time does no harm.  `PidFileAlwaysExplained` is a part of it.
`RootFirst`: `RootKept` says that the root account is there from the transaction
that finds or makes it to the accept loop, though any daemon that serves could
destroy it; by `LockIsServer` none serves meanwhile.

`PartsProofs`, sessions, for any number of shells and any finite heap
(`CellAssumption`).  Both theorems are about runs without the interleavings that
the history variables name, and their invariants say so:

* `SessionsFound`: in such a run the list is a stack.  `Listed`: the cells from
  `session_list` on are distinct live sessions in the order they were linked,
  none has a `prev`, and every other live session is being connected by one
  shell (`SessionsMade`, `SessionsHeld`).  `unlink` then removes the head
  (`DeletedNewest`), which is the only removal it does right.  Between the two
  writes of `link` the list is already the new one, and its first session sets
  its own `prev` and clears it.  `Walked` finds
  the n-th cell of the walk by induction on n, which `CountsUp` gives: a set of
  numbers that has 0 and, below k, the successor of every number it has, has
  every number up to k.  The library's theorem of this kind takes an operator
  and cannot be used; this one takes a set, and follows from the pigeonhole
  principle.
* `AnswersOwn`: what is read of a connection and what is still on its way are
  one sequence (`InOrder`): the k-th event read or to be read is event k, the
  answer says how many were sent before it, and nothing follows the end.
  `Awaited`: the one command written and not yet answered is that of the one
  shell that reads.

`PartsProofs`, the log of `dx/`, for any number of transactions, and crashes and
failed writes within `TornAssumption`: `OutcomesKept`, from `TxInv`.  `Kept`: a
verdict that a caller was told is the last line of its transaction, unless that
line was swallowed.  `Running`: a transaction that this process began has its
identifier to itself.  `Cost`: each failed write pays for one swallowed line, or
for one that is still to come; a crash pays for none, as the process that comes
after it writes a line before it has anything to commit.  `Counted`: the counter
is past every identifier in the file.  `ToAbort`: `sync` has no committed
transaction on its list.  `Left`: the transactions begun and not decided that
escape `sync` are at most one, whose line was joined to a torn one, and two for
each failed write.  What a line, a truncated file or an opening does
to them are the lemmas `LineRead`, `LineWritten`, `LineCut`, `CounterPast` and
`BegunFound`; the last two go by `CountsUp`, along the lines of the file and
along the recursive function `Undecided`.

`PartsProofs`, the feed of events, for any shells, accounts and events, provided
the null pointer is neither a shell nor an account.  What pointers reach is the
least set closed under `next`, and the lemmas on linking and unlinking hold for
any pointers.

* `ClientListStaysIntact`: `ListInv` gives the list, for connections that come
  and go while the thread is anywhere in it.
* `EventsToldOnce`: `WalkInv` adds what is ahead of the thread.  From the shell
  where it is, even one that has left the list, it reaches only shells not yet
  told of the event, none of them twice (`Untold`).

`TextProofs`, quantities as text, for any amounts in lowest terms, as
`string_to_bq` and the operations leave every quantity (`AmountAssumption`):
`QuantitiesReadBack`, from `TextInv`.  The loops of `dmath/bq.cc` are recursive
functions, and that such a function exists for arguments without bound is itself
to be shown: `TailRecursion` gives it for any loop, from what the loop reaches.
`DecimalRound` and `ShiftedRound` are then one round of `to_decimal` and of the
shift that reads decimals.  A round of the first leaves the number as it is once
it is shifted by one digit more (`RoundShifts`), so the decimals shifted back
are the number (`DecimalShifts`); and since the sign is set apart and the whole
part added, an integer, decimals or a fraction are read as what was written
(`ReadBack`).  `TextInv` adds that what the texts stand for is in lowest terms,
as equality of quantities is equality of pairs, and that a bid without padding
has no quotes.

`TextProofs`, commands as lines, for words, commands and lines of any length and
any bounds (`LineAssumption`), also on the number of arguments:
`CommandsCross`, in two parts.

* A line gives back its command (`CommandRead`).  `Leads` says that reading a
  text takes the decoder from one place to another, and `ReadOn` that texts read
  one after the other do so too; `EscapeRead`, `QuotedRead`, `BareRead` and
  `WordRead` build a command from its characters up.  The digits of an escape
  stay in the decoder and do no harm.  `DecodedByRun` is the step from there to
  `decode_string`, and `Joined` that to the encoder.  No encoding has a line
  feed in it.
* The stream is whole lines, found again by cutting it (`WireInv`, `Cuts`):
  those of the commands after the first k.  So a line feed in it ends a command
  (`FeedEndsCommand`), reading cuts where a command ends (`LineRead`, `CutOff`)
  and sending adds one piece (`CutOn`).  k is the number of answers until a line
  is swallowed, which only a line of `LineMax` - 1 or `LineMax` characters does
  to the next; from there on k may be ahead of the answers, but never behind.

Both go by `Least`: the least round, character or line at which something would
fail is not the first, and the one before it succeeds.

Every invariant and every action property of a passing run, and the refinements,
are theorems.  Only model-checked is liveness, which is out of the prover's
reach (`OffersExecuted`, `FreeLockTaken`, `CommandsAnswered`,
`PendingEventRead`, `ShutdownEnds`).

## Not modelled

* Integers and RSA: GMP's arithmetic, on numbers TLC cannot enumerate.
* Sockets, environment and pthread wrappers: system calls without a state of
  their own.  The commands `help`, `whoami` and `client_list` keep no state.
* Perl bindings, web pages and tools: clients of the protocol.
* Vendored headers, and memory management, except where a list of shells or
  sessions is walked without a lock.
* A thread that a shutdown cancels while it is deleting its shell, and so inside
  the server's mutex (`bif/shell.cc:275-287`).
* More than one process on a file of `dx/`: the second would abort what the
  first has begun.  `log` offers `lock_rw` to its callers and does not call it.
* Hazards of the code that no property covers: what a refused command had
  written inside a client's transaction, which is committed with the rest
  (`bif/shell.cc:302`); clients that are never told of an event, because the
  walk leaves out those behind the first that is not the addressee
  (`bif/server.cc:205`); identifiers of notes and offers that `gen_id` repeats
  within a second (`bom/note.cc:594`; the models take them as fresh); a last
  superuser that clears its own flag (`bif/shell.cc:615`); the size of the
  buffer for a decimal text (`dmath/bq.cc:252`); the unused result of `sv->open`
  (`barterd/barterd.cc:95`); sessions that nothing expires
  (`bif/session.cc:29`); and the unused result of a trader's `txn_commit`
  (`bif/trader.cc:211`), which could only matter on a database error.

What could still be added: a composition of `ShellTxn` with the signal of the
market, which `offer_create` inside a client's transaction sends before the
commit (`bif/shell.cc:2686`).
