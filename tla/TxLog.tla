-------------------------------- MODULE TxLog -------------------------------
(***************************************************************************)
(* The transaction log of dx/ (log.cc, x.cc): a file to which begin,       *)
(* commit and abort append one line each, and whose lines log::open reads  *)
(* back after a crash, aborting every transaction that is still begun.     *)
(*                                                                         *)
(* One process has the file open at a time.  It may stop before, in the    *)
(* middle of or after any write, and a write may fail, with nothing or a   *)
(* part of the line written, after which the process goes on.  A line that *)
(* was cut short has no newline, so the next line written is joined to it, *)
(* and sync ignores the result: it does not consist of two words the first *)
(* of which is an operation.                                               *)
(***************************************************************************)
EXTENDS Naturals, Sequences, FiniteSets

CONSTANTS
  MaxBegun,     \* bound of the model: transactions begun in a run
  MaxCrashes,   \* bound of the model: crashes in a run
  MaxFailures   \* bound of the model: writes that fail in a run

(* decode_command takes up to 256 words, and sync gives up at a line that  *)
(* it refuses.  Every crash and every failed write leaves at most one piece *)
(* of a line, which adds at most one word to the line it is joined to, so  *)
(* that no line has more.                                                  *)
ASSUME TornAssumption ==
  /\ MaxCrashes \in Nat /\ MaxFailures \in Nat
  /\ MaxCrashes + MaxFailures <= 254

VARIABLES
  file,      \* the complete lines: <<operation, id>>, or Joined
  torn,      \* an incomplete line follows them
  stage,     \* "closed", "sync" (open aborts what is begun) or "open"
  todo,      \* the transactions that sync has still to abort
  counter,   \* log::counter: the next identifier
  xs,        \* every transaction begun: its id and what its caller knows
  crashes,
  failures,  \* writes that failed
  swallowed  \* history: transactions whose last line ended a torn one

txVars == <<file, torn, stage, todo, counter, xs, crashes, failures, swallowed>>

Operation == {"begin", "commit", "abort"}

Joined == <<"joined", 0>>

(* "unsure": commit or abort returned an error.                            *)
Known == {"running", "left", "committed", "aborted", "unsure", "lost"}

TxTypeOK ==
  /\ file \in Seq((Operation \X Nat) \cup {Joined})
  /\ torn \in BOOLEAN
  /\ stage \in {"closed", "sync", "open"}
  /\ todo \in Seq(Nat)
  /\ counter \in Nat
  /\ xs \in Seq([id : Nat, known : Known])
  /\ failures \in Nat
  /\ swallowed \subseteq DOMAIN xs

-----------------------------------------------------------------------------
(* What sync reads                                                         *)

LinesOf(i) == {k \in DOMAIN file : file[k] # Joined /\ file[k][2] = i}

(* log::state after sync: x_begin, x_commit and x_abort overwrite it, so   *)
(* the last line decides.                                                  *)
State(i) ==
  IF LinesOf(i) = {} THEN "null"
  ELSE file[CHOOSE k \in LinesOf(i) : \A l \in LinesOf(i) : l <= k][1]

Ids == {file[k][2] : k \in {l \in DOMAIN file : file[l] # Joined}}

(* Mutant: only x_begin moves the counter.                                 *)
CounterOfBegins ==
  LET begun == {file[k][2] : k \in {l \in DOMAIN file : file[l][1] = "begin"}}
  IN  IF begun = {} THEN 0 ELSE 1 + CHOOSE i \in begun : \A j \in begun : j <= i

(* log::counter after sync: any line moves it past its id.                 *)
Counter == IF Ids = {} THEN 0 ELSE 1 + CHOOSE i \in Ids : \A j \in Ids : j <= i

(* The transactions from i on that are begun, by id.                       *)
Undecided[i \in 0..Counter] ==
  IF i = Counter THEN <<>>
  ELSE (IF State(i) = "begin" THEN <<i>> ELSE <<>>) \o Undecided[i + 1]

Begun == Undecided[0]

-----------------------------------------------------------------------------
(* Writes                                                                  *)

Write(line) ==
  /\ file' = Append(file, IF torn THEN Joined ELSE line)
  /\ torn' = FALSE
  /\ UNCHANGED failures

(* log::write returns an error: the file has nothing or a part of the line. *)
WriteFails ==
  /\ failures < MaxFailures
  /\ failures' = failures + 1
  /\ torn' \in {torn, TRUE}
  /\ UNCHANGED file

(* The process stops: with nothing written, with a part of the line, or    *)
(* with all of it, in which case the caller does not learn that.           *)
Halt ==
  /\ crashes < MaxCrashes
  /\ crashes' = crashes + 1
  /\ stage' = "closed"
  /\ todo' = <<>>
  /\ counter' = 0
  /\ UNCHANGED <<failures, swallowed>>

HaltIn(line) ==
  \/ UNCHANGED <<file, torn>>
  \/ torn' = TRUE /\ UNCHANGED file
  \/ Write(line)

(* What the callers know of their transactions when the process has gone.  *)
Forgotten == [t \in DOMAIN xs |->
                IF xs[t].known \in {"running", "left", "unsure"}
                  THEN [xs[t] EXCEPT !.known = "lost"] ELSE xs[t]]

(* x::begin: new_x_id, then the line.  The transaction is begun even if it *)
(* returns the error of the write.                                         *)
begin ==
  /\ stage = "open" /\ Len(xs) < MaxBegun
  /\ LET line == <<"begin", counter>> IN
     \/ /\ Write(line) \/ WriteFails
        /\ counter' = counter + 1
        /\ xs' = Append(xs, [id |-> counter, known |-> "running"])
        /\ UNCHANGED <<stage, todo, crashes, swallowed>>
     \/ Halt /\ HaltIn(line) /\ xs' = Forgotten

(* The transaction is over, whether or not its line could be written.      *)
Decide(t, line, known) ==
  /\ stage = "open" /\ xs[t].known = "running"
  /\ \/ /\ Write(line)
        /\ xs' = [xs EXCEPT ![t].known = known]
        /\ swallowed' = IF torn THEN swallowed \cup {t} ELSE swallowed
        /\ UNCHANGED <<stage, todo, counter, crashes>>
     \/ /\ WriteFails
        /\ xs' = [xs EXCEPT ![t].known = "unsure"]
        /\ UNCHANGED <<stage, todo, counter, crashes, swallowed>>
     \/ Halt /\ HaltIn(line) /\ xs' = Forgotten

(* x::commit.                                                              *)
commit(t) == Decide(t, <<"commit", xs[t].id>>, "committed")

(* x::abort, and x::begin of a transaction object that is begun.           *)
abort(t) == Decide(t, <<"abort", xs[t].id>>, "aborted")

(* x::~x: the transaction object goes and its transaction stays begun.     *)
Drop(t) ==
  /\ stage = "open" /\ xs[t].known = "running"
  /\ xs' = [xs EXCEPT ![t].known = "left"]
  /\ UNCHANGED <<file, torn, stage, todo, counter, crashes, failures, swallowed>>

(* log::open reads the file.                                               *)
open ==
  /\ stage = "closed"
  /\ stage' = "sync"
  /\ counter' = Counter
  /\ todo' = Begun
  /\ UNCHANGED <<file, torn, xs, crashes, failures, swallowed>>

(* sync aborts what is begun, one line each, whatever x::abort returns, and *)
(* open returns.                                                           *)
sync ==
  /\ stage = "sync"
  /\ \/ /\ todo = <<>>
        /\ stage' = "open"
        /\ UNCHANGED <<file, torn, todo, counter, xs, crashes, failures, swallowed>>
     \/ /\ todo # <<>>
        /\ Write(<<"abort", Head(todo)>>) \/ WriteFails
        /\ todo' = Tail(todo)
        /\ UNCHANGED <<stage, counter, xs, crashes, swallowed>>
     \/ /\ todo # <<>>
        /\ Halt /\ HaltIn(<<"abort", Head(todo)>>)
        /\ UNCHANGED xs

(* The process stops between two writes.                                   *)
Stop ==
  /\ stage # "closed"
  /\ Halt
  /\ xs' = Forgotten
  /\ UNCHANGED <<file, torn>>

-----------------------------------------------------------------------------
TxInit ==
  /\ file = <<>> /\ torn = FALSE
  /\ stage = "closed" /\ todo = <<>> /\ counter = 0
  /\ xs = <<>> /\ crashes = 0
  /\ failures = 0 /\ swallowed = {}

TxNext ==
  \/ begin
  \/ \E t \in DOMAIN xs : commit(t) \/ abort(t) \/ Drop(t)
  \/ open \/ sync \/ Stop

TxLogSpec == TxInit /\ [][TxNext]_txVars

-----------------------------------------------------------------------------
(* Properties                                                              *)

(* A recovery leaves at most one of the transactions it found begun        *)
(* without its abort, the one whose line was joined to a torn one, and two *)
(* more for each write that failed: its own, and the one joined to it.     *)
(* The next recovery aborts them.                                          *)
RecoveryComplete ==
  LET left == {i \in Ids : /\ State(i) = "begin"
                           /\ \A t \in DOMAIN xs : xs[t].id = i => xs[t].known = "lost"}
  IN  stage = "open" => Cardinality(left) <= 1 + 2 * failures

(* What commit or abort returned is final: sync finds a transaction that   *)
(* was committed committed, and none that was aborted, after any number of *)
(* crashes, torn lines and recoveries, its own crash in the middle         *)
(* included, and although identifiers are given out again whose lines are  *)
(* not found; nor one whose commit returned an error.  The exception is    *)
(* the transaction that ends next after a write that failed without a      *)
(* crash: its line is joined to the torn one and commit returns 0.  Each   *)
(* failed write costs at most one transaction its outcome; a crash, which  *)
(* tears a line just as well, costs none.                                  *)
OutcomeKept ==
  /\ TxTypeOK /\ RecoveryComplete
  /\ Cardinality(swallowed) <= failures
  /\ \A t \in DOMAIN xs :
       /\ xs[t].known = "committed" /\ t \notin swallowed => State(xs[t].id) = "commit"
       /\ xs[t].known = "aborted" /\ t \notin swallowed => State(xs[t].id) # "commit"
       /\ xs[t].known \in {"running", "left", "unsure"} => State(xs[t].id) # "commit"
=============================================================================
