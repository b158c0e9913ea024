------------------------------ MODULE TxnProofs ------------------------------
(***************************************************************************)
(* Theorems about the transactions of the shells and their identifiers,    *)
(* for any clients, rows and commands, whatever the database does.         *)
(*                                                                         *)
(* TxnInv is inductive.  From it follow LocksAccounted, the refinement of  *)
(* the abstract Transactions, and, with what TidInv says of identifiers,   *)
(* ReadTellsOutcome.                                                       *)
(***************************************************************************)
EXTENDS TxnIds, SequenceTheorems, TLAPS

-----------------------------------------------------------------------------
(* Sequences without repetitions                                           *)

(* The range of a sequence, by its indices.                                *)
LEMMA Members ==
  ASSUME NEW A, NEW s \in Seq(A)
  PROVE  /\ DOMAIN s = 1 .. Len(s) /\ Len(s) \in Nat
         /\ Range(s) \subseteq A
         /\ \A x : x \in Range(s) <=> \E i \in 1 .. Len(s) : s[i] = x
         /\ s = <<>> <=> Range(s) = {}
<1>1. DOMAIN s = 1 .. Len(s) /\ Len(s) \in Nat
  OBVIOUS
<1>2. \A x : x \in Range(s) <=> \E i \in 1 .. Len(s) : s[i] = x
  BY <1>1 DEF Range
<1>3. s # <<>> => s[1] \in Range(s)
  BY <1>1, <1>2, EmptySeq
<1>. QED
  BY <1>1, <1>2, <1>3

(* Appending what is not there yet.                                        *)
LEMMA AppendOnce ==
  ASSUME NEW A, NEW s \in Seq(A), NEW e \in A, IsInjective(s), e \notin Range(s)
  PROVE  /\ Append(s, e) \in Seq(A)
         /\ IsInjective(Append(s, e))
         /\ Range(Append(s, e)) = Range(s) \cup {e}
<1> DEFINE t == Append(s, e)
<1>1. /\ t \in Seq(A) /\ Len(t) = Len(s) + 1
      /\ \A i \in 1 .. Len(s) : t[i] = s[i]
      /\ t[Len(s) + 1] = e
  BY AppendProperties
<1> HIDE DEF t
<1>2. IsInjective(t)
  BY <1>1, Members DEF IsInjective
<1>3. Range(t) = Range(s) \cup {e}
  <2>1. \A x : x \in Range(t) <=> \E i \in 1 .. Len(s) + 1 : t[i] = x
    BY <1>1, Members
  <2>2. \A x : x \in Range(s) <=> \E i \in 1 .. Len(s) : s[i] = x
    BY Members
  <2>3. Len(s) \in Nat
    BY Members
  <2>. QED
    BY <1>1, <2>1, <2>2, <2>3
<1>. QED
  BY <1>1, <1>2, <1>3 DEF t

(* Taking the head off.                                                    *)
LEMMA TailOnce ==
  ASSUME NEW A, NEW s \in Seq(A), s # <<>>, IsInjective(s)
  PROVE  /\ Head(s) \in Range(s) /\ Head(s) \in A
         /\ Tail(s) \in Seq(A)
         /\ IsInjective(Tail(s))
         /\ Range(Tail(s)) = Range(s) \ {Head(s)}
<1> DEFINE t == Tail(s)
<1>1. /\ t \in Seq(A) /\ Len(t) = Len(s) - 1 /\ Head(s) = s[1] /\ 1 \in 1 .. Len(s)
      /\ \A i \in 1 .. Len(t) : t[i] = s[i + 1]
  BY HeadTailProperties, Members
<1> HIDE DEF t
<1>4. /\ DOMAIN t = 1 .. Len(t) /\ DOMAIN s = 1 .. Len(s) /\ Len(s) \in Nat
      /\ \A i, j \in 1 .. Len(s) : s[i] = s[j] => i = j
  BY SMTT(30), <1>1, Members DEF IsInjective
<1>2. IsInjective(t)
  BY <1>1, <1>4 DEF IsInjective
<1>3. Range(t) = Range(s) \ {s[1]}
  <2>1. \A i \in 1 .. Len(s) : i # 1 => i - 1 \in 1 .. Len(t) /\ t[i - 1] = s[i]
    BY <1>1, Members
  <2>2. ASSUME NEW i \in 1 .. Len(t) PROVE t[i] \in Range(s) /\ t[i] # s[1]
    BY <1>1, <1>4, Members
  <2>3. \A x : x \in Range(t) <=> \E i \in 1 .. Len(t) : t[i] = x
    BY <1>1, Members
  <2>4. \A x : x \in Range(s) <=> \E i \in 1 .. Len(s) : s[i] = x
    BY Members
  <2>. QED
    BY SMTT(30), <2>1, <2>2, <2>3, <2>4
<1>. QED
  BY <1>1, <1>2, <1>3, Members DEF t

(* RemoveFirst, where there is no second.                                  *)
LEMMA RemoveOnce ==
  ASSUME NEW A, NEW s \in Seq(A), NEW e, IsInjective(s)
  PROVE  /\ RemoveFirst(s, e) \in Seq(A)
         /\ IsInjective(RemoveFirst(s, e))
         /\ Range(RemoveFirst(s, e)) = Range(s) \ {e}
<1>1. CASE ~\E i \in 1 .. Len(s) : s[i] = e
  BY <1>1, Members DEF RemoveFirst
<1>2. CASE \E i \in 1 .. Len(s) : s[i] = e
  <2>1. PICK k \in 1 .. Len(s) : s[k] = e
    BY <1>2
  <2>2. {i \in 1 .. Len(s) : s[i] = e} = {k}
    BY <2>1, Members DEF IsInjective
  <2>3. SelectInSeq(s, LAMBDA v : v = e) = k
    BY <2>2 DEF SelectInSeq, Min
  <2> DEFINE a == SubSeq(s, 1, k - 1)
             b == SubSeq(s, k + 1, Len(s))
             t == a \o b
  <2>4. RemoveFirst(s, e) = t
    BY <1>2, <2>3 DEF RemoveFirst, RemoveAt
  <2>5. /\ a \in Seq(A) /\ Len(a) = k - 1 /\ \A i \in 1 .. k - 1 : a[i] = s[i]
        /\ b \in Seq(A) /\ Len(b) = Len(s) - k /\ \A i \in 1 .. Len(s) - k : b[i] = s[i + k]
    BY SubSeqProperties, Members
  <2> HIDE DEF a, b
  <2>6. /\ t \in Seq(A) /\ Len(t) = Len(s) - 1 /\ Len(s) \in Nat
        /\ \A i \in 1 .. Len(s) - 1 : t[i] = IF i < k THEN s[i] ELSE s[i + 1]
    <3>1. /\ t \in Seq(A) /\ Len(t) = Len(a) + Len(b)
          /\ \A i \in 1 .. Len(a) + Len(b) : t[i] = IF i <= Len(a) THEN a[i] ELSE b[i - Len(a)]
      BY <2>5, ConcatProperties
    <3>2. Len(s) \in Nat
      BY Members
    <3> HIDE DEF t
    <3>3. ASSUME NEW i \in 1 .. Len(s) - 1 PROVE t[i] = IF i < k THEN s[i] ELSE s[i + 1]
      <4>1. t[i] = IF i <= k - 1 THEN a[i] ELSE b[i - (k - 1)]
        BY <2>5, <3>1, <3>2
      <4>2. CASE i < k
        BY <2>5, <3>2, <4>1, <4>2
      <4>3. CASE ~(i < k)
        <5>1. i - (k - 1) \in 1 .. Len(s) - k /\ (i - (k - 1)) + k = i + 1
          BY <3>2, <4>3
        <5>. QED
          BY <2>5, <4>1, <4>3, <5>1
      <4>. QED
        BY <4>2, <4>3
    <3>. QED
      BY <2>5, <3>1, <3>2, <3>3
  <2> HIDE DEF t
  <2>10. \A x : x \in Range(t) <=> \E i \in 1 .. Len(s) - 1 : t[i] = x
    BY <2>6, Members
  <2>11. \A x : x \in Range(s) <=> \E i \in 1 .. Len(s) : s[i] = x
    BY Members
  <2>12. \A i, j \in 1 .. Len(s) : s[i] = s[j] => i = j
    BY Members DEF IsInjective
  <2>7. IsInjective(t)
    <3>1. DOMAIN t = 1 .. Len(s) - 1
      BY <2>6, Members
    <3>. QED
      BY <2>6, <2>12, <3>1 DEF IsInjective
  <2>8. Range(t) \subseteq Range(s) \ {e}
    BY <2>1, <2>6, <2>10, <2>11, <2>12
  <2>9. ASSUME NEW x \in Range(s), x # e PROVE x \in Range(t)
    <3>1. PICK i \in 1 .. Len(s) : s[i] = x
      BY Members
    <3>2. CASE i < k
      BY <2>6, <2>10, <3>1, <3>2
    <3>3. CASE i > k
      <4>1. i - 1 \in 1 .. Len(s) - 1 /\ ~(i - 1 < k) /\ (i - 1) + 1 = i
        BY <2>6, <3>3
      <4>. QED
        BY <2>6, <2>10, <3>1, <4>1
    <3>. QED
      BY <2>1, <2>9, <3>1, <3>2, <3>3
  <2>. QED
    BY <2>4, <2>6, <2>7, <2>8, <2>9
<1>. QED
  BY <1>1, <1>2

-----------------------------------------------------------------------------
(* The inductive invariant                                                 *)

(* Who waits for a row has come to it in a command, is no victim, and waits*)
(* in no other queue and there once; the row is locked by another.         *)
QueuesSound ==
  \A r \in Row :
    /\ IsInjective(queue[r])
    /\ \A c \in Range(queue[r]) :
         /\ Unfinished(c) /\ Needs(c) = r
         /\ c \notin victim
         /\ owner[r] \notin {Nobody, c}

CommandsBegun ==
  /\ \A c \in Client : Busy(c) => at[c] # 0
  /\ \A c \in victim : Unfinished(c)

OwnersActive ==
  \A r \in Row : owner[r] \in {Nobody, Lost} \/ Busy(owner[r]) \/ owner[r] \in parent

DraftsLocked == \A c \in Client : draft[c] \subseteq {r \in Row : owner[r] = c}

AgesExact ==
  /\ IsInjective(age)
  /\ Range(age) = {c \in Client : Busy(c) \/ c \in parent}

TxnInv ==
  /\ TxnTypeOK
  /\ QueuesSound
  /\ CommandsBegun
  /\ OwnersActive
  /\ DraftsLocked
  /\ AgesExact

(* A queue is empty exactly when nobody is in it.                          *)
LEMMA QueueMembers ==
  ASSUME TxnTypeOK, NEW r \in Row
  PROVE  /\ queue[r] \in Seq(Client)
         /\ queue[r] = <<>> <=> Range(queue[r]) = {}
         /\ Range(queue[r]) \subseteq Client
<1>1. queue[r] \in Seq(Client)
  BY DEF TxnTypeOK
<1>. QED
  BY <1>1, Members

(* The invariant says what LocksAccounted says.                            *)
LEMMA TxnInvSuffices == TxnInv => LocksAccounted
<1> SUFFICES ASSUME TxnInv PROVE LocksAccounted
  OBVIOUS
<1> USE DEF TxnInv
<1>1. \A r \in Row : owner[r] = Nobody => queue[r] = <<>>
  BY QueueMembers DEF QueuesSound
<1>2. \A c \in Client : (Busy(c) \/ c \in parent) <=> \E i \in DOMAIN age : age[i] = c
  <2>1. age \in Seq(Client)
    BY DEF TxnTypeOK
  <2>. QED
    BY <2>1, Members DEF AgesExact
<1>. QED
  BY <1>1, <1>2 DEF LocksAccounted, OwnersActive, DraftsLocked

(* A database without transactions, at the start and after a crash.        *)
Quiet ==
  /\ owner = [r \in Row |-> Nobody]
  /\ queue = [r \in Row |-> <<>>]
  /\ age = <<>>
  /\ draft = [c \in Client |-> {}]
  /\ parent = {} /\ victim = {} /\ told = {}
  /\ doing = [c \in Client |-> Idle]
  /\ at = [c \in Client |-> 0]

LEMMA QuietSound == Quiet /\ committed \in [Row -> Client \cup {Nobody}] => TxnInv
<1> SUFFICES ASSUME Quiet, committed \in [Row -> Client \cup {Nobody}] PROVE TxnInv
  OBVIOUS
<1>1. Range(<<>>) = {} /\ IsInjective(<<>>)
  BY DEF Range, IsInjective
<1>2. TxnTypeOK
  BY EmptySeq DEF Quiet, TxnTypeOK
<1>3. QueuesSound
  BY <1>1 DEF Quiet, QueuesSound
<1>. QED
  BY <1>1, <1>2, <1>3
  DEF Quiet, TxnInv, CommandsBegun, OwnersActive, DraftsLocked, AgesExact, Busy

(* The row that a command has come to.                                     *)
LEMMA NeedsRow ==
  ASSUME TxnTypeOK, CommandsBegun, NEW c \in Client, Unfinished(c)
  PROVE  Needs(c) \in Row
<1>1. PICK s \in Script \cup Opening : doing[c][2] = s
  BY DEF TxnTypeOK, Command, Unfinished, Busy
<1>2. s \in Seq(Row)
  BY ScriptAssumption
<1>3. at[c] \in 1 .. Len(s)
  BY <1>1, <1>2, LenProperties DEF TxnTypeOK, CommandsBegun, Unfinished
<1>. QED
  BY <1>1, <1>2, <1>3, ElementOfSeq DEF Needs

(* Who does not wait is in no queue.                                       *)
LEMMA NotQueued ==
  ASSUME TxnInv, NEW c \in Client, c \in victim \/ ~Unfinished(c) \/ ~Waiting(c)
  PROVE  \A r \in Row : c \notin Range(queue[r])
<1> SUFFICES ASSUME NEW r \in Row, c \in Range(queue[r]) PROVE FALSE
  OBVIOUS
<1>1. Unfinished(c) /\ Needs(c) = r /\ c \notin victim
  BY DEF TxnInv, QueuesSound
<1>2. \E i \in DOMAIN queue[r] : queue[r][i] = c
  BY QueueMembers, Members DEF TxnInv
<1>. QED
  BY <1>1, <1>2 DEF Waiting

(* What a transaction that ends leaves: none of its locks and none of its  *)
(* rows, and each queue without the one whose turn it is.                  *)
LEMMA ReleaseEffect ==
  ASSUME TxnInv, NEW c \in Client, \A r \in Row : c \notin Range(queue[r]), Release(c)
  PROVE  /\ owner' \in [Row -> Client \cup {Nobody, Lost}]
         /\ queue' \in [Row -> Seq(Client)]
         /\ draft' = [draft EXCEPT ![c] = {}]
         /\ \A r \in Row :
              /\ owner'[r] # c
              /\ owner[r] # c => owner'[r] = owner[r]
              /\ owner'[r] \in {Nobody, owner[r]} \cup Range(queue[r])
              /\ IsInjective(queue'[r])
              /\ Range(queue'[r]) \subseteq Range(queue[r])
              /\ owner'[r] = Nobody => Range(queue'[r]) = {}
              /\ owner'[r] \notin Range(queue'[r])
<1> USE DEF TxnInv
<1>1. ASSUME NEW r \in Row, owner[r] = c, queue[r] # <<>>
      PROVE  /\ Head(queue[r]) \in Range(queue[r]) /\ Head(queue[r]) \in Client
             /\ Tail(queue[r]) \in Seq(Client)
             /\ IsInjective(Tail(queue[r]))
             /\ Range(Tail(queue[r])) = Range(queue[r]) \ {Head(queue[r])}
  BY <1>1, QueueMembers, TailOnce DEF QueuesSound
<1>2. ASSUME NEW r \in Row
      PROVE  /\ owner'[r] \in Client \cup {Nobody, Lost}
             /\ queue'[r] \in Seq(Client)
  BY <1>1, QueueMembers DEF Release, TxnTypeOK
<1>3. ASSUME NEW r \in Row
      PROVE  /\ owner'[r] # c
             /\ owner[r] # c => owner'[r] = owner[r]
             /\ owner'[r] \in {Nobody, owner[r]} \cup Range(queue[r])
             /\ IsInjective(queue'[r])
             /\ Range(queue'[r]) \subseteq Range(queue[r])
             /\ owner'[r] = Nobody => Range(queue'[r]) = {}
             /\ owner'[r] \notin Range(queue'[r])
  <2>1. CASE owner[r] # c
    BY <2>1, QueueMembers DEF Release, TxnTypeOK, QueuesSound
  <2>2. CASE owner[r] = c /\ queue[r] = <<>>
    BY <2>2, QueueMembers, OwnerAssumption DEF Release, TxnTypeOK, QueuesSound
  <2>3. CASE owner[r] = c /\ queue[r] # <<>>
    BY <1>1, <2>3, OwnerAssumption DEF Release, TxnTypeOK
  <2>. QED
    BY <2>1, <2>2, <2>3
<1>. QED
  BY <1>2, <1>3 DEF Release

(* The step of client c changes nothing in the shells of the others.       *)
OthersAlone(c) ==
  \A b \in Client \ {c} :
    /\ doing'[b] = doing[b] /\ at'[b] = at[b]
    /\ b \in victim' <=> b \in victim
    /\ b \in parent' <=> b \in parent

(* Then a client in a queue, other than c, is where it was.                *)
LEMMA OthersWait ==
  ASSUME TxnInv, NEW c \in Client, OthersAlone(c), NEW b \in Client \ {c}
  PROVE  /\ Busy(b)' <=> Busy(b)
         /\ Unfinished(b)' <=> Unfinished(b)
         /\ Needs(b)' = Needs(b)
BY DEF OthersAlone, Busy, Unfinished, Needs

(* The end of a transaction keeps the locks accounted for: whoever gets a  *)
(* lock was waiting for it in a command.                                   *)
LEMMA ReleaseKeeps ==
  ASSUME TxnInv, NEW c \in Client, \A r \in Row : c \notin Range(queue[r]), Release(c),
         OthersAlone(c)
  PROVE  QueuesSound' /\ OwnersActive' /\ DraftsLocked'
<1> USE DEF TxnInv
<1>0. \A r \in Row :
        /\ owner'[r] \in (Client \cup {Nobody, Lost}) \ {c}
        /\ owner[r] # c => owner'[r] = owner[r]
        /\ owner'[r] \in {Nobody, owner[r]} \cup Range(queue[r])
        /\ IsInjective(queue'[r])
        /\ Range(queue'[r]) \subseteq Range(queue[r])
        /\ owner'[r] = Nobody => Range(queue'[r]) = {}
        /\ owner'[r] \notin Range(queue'[r])
  BY ReleaseEffect
<1>1. QueuesSound'
  <2> SUFFICES ASSUME NEW r \in Row
               PROVE  /\ IsInjective(queue'[r])
                      /\ \A b \in Range(queue'[r]) :
                           /\ Unfinished(b)' /\ Needs(b)' = r
                           /\ b \notin victim'
                           /\ owner'[r] \notin {Nobody, b}
    BY DEF QueuesSound
  <2>1. ASSUME NEW b \in Range(queue'[r])
        PROVE  /\ Unfinished(b)' /\ Needs(b)' = r
               /\ b \notin victim'
               /\ owner'[r] \notin {Nobody, b}
    <3>1. b \in Range(queue[r]) /\ b \in Client \ {c}
      BY <1>0, QueueMembers
    <3>2. Unfinished(b) /\ Needs(b) = r /\ b \notin victim
      BY <3>1 DEF QueuesSound
    <3>3. owner'[r] \notin {Nobody, b}
      BY <1>0
    <3>. QED
      BY <3>1, <3>2, <3>3, OthersWait DEF OthersAlone
  <2>. QED
    BY <1>0, <2>1
<1>2. OwnersActive'
  <2> SUFFICES ASSUME NEW r \in Row, NEW b, b = owner'[r], b \notin {Nobody, Lost}
               PROVE  Busy(b)' \/ b \in parent'
    BY DEF OwnersActive, Busy
  <2>1. b \in Client \ {c}
    BY <1>0
  <2>2. Busy(b) \/ b \in parent
    BY <1>0, <2>1 DEF OwnersActive, QueuesSound, Unfinished
  <2>. QED
    BY <2>1, <2>2, OthersWait DEF OthersAlone
<1>3. DraftsLocked'
  BY <1>0 DEF DraftsLocked, TxnTypeOK, Release
<1>. QED
  BY <1>1, <1>2, <1>3

(* So does a step that leaves the locks as they are, if the transaction    *)
(* that had them is still there.                                           *)
LEMMA LocksKept ==
  ASSUME TxnInv, NEW c \in Client, \A r \in Row : c \notin Range(queue[r]),
         UNCHANGED <<owner, queue, draft>>, OthersAlone(c),
         Busy(c) \/ c \in parent => Busy(c)' \/ c \in parent'
  PROVE  QueuesSound' /\ OwnersActive' /\ DraftsLocked'
<1> USE DEF TxnInv
<1>1. QueuesSound'
  <2> SUFFICES ASSUME NEW r \in Row, NEW b \in Range(queue[r])
               PROVE  /\ Unfinished(b)' /\ Needs(b)' = r
                      /\ b \notin victim'
                      /\ owner[r] \notin {Nobody, b}
    BY DEF QueuesSound
  <2>1. b \in Client \ {c}
    BY QueueMembers
  <2>. QED
    BY <2>1, OthersWait DEF QueuesSound, OthersAlone
<1>2. OwnersActive'
  <2> SUFFICES ASSUME NEW r \in Row, owner[r] \notin {Nobody, Lost}
               PROVE  Busy(owner[r])' \/ owner[r] \in parent'
    BY DEF OwnersActive
  <2>1. owner[r] \in Client /\ (Busy(owner[r]) \/ owner[r] \in parent)
    BY DEF TxnTypeOK, OwnersActive
  <2>. QED
    BY <2>1, OthersWait DEF OthersAlone
<1>3. DraftsLocked'
  BY DEF DraftsLocked
<1>. QED
  BY <1>1, <1>2, <1>3

(* What remains of the commands under way and of the active transactions.  *)
LEMMA CommandsKept ==
  ASSUME TxnInv, NEW c \in Client, OthersAlone(c), victim' \subseteq Client,
         Busy(c)' => at'[c] # 0, c \in victim' => Unfinished(c)'
  PROVE  CommandsBegun'
BY OthersWait DEF TxnInv, CommandsBegun, OthersAlone

LEMMA AgesKept ==
  ASSUME TxnInv, NEW c \in Client, OthersAlone(c), parent' \subseteq Client,
         \/ age' = age /\ (Busy(c)' \/ c \in parent' <=> Busy(c) \/ c \in parent)
         \/ age' = RemoveFirst(age, c) /\ ~Busy(c)' /\ c \notin parent'
         \/ age' = Append(age, c) /\ ~Busy(c) /\ c \notin parent /\ Busy(c)'
         \/ age' = Append(RemoveFirst(age, c), c) /\ Busy(c)'
  PROVE  AgesExact' /\ age' \in Seq(Client)
<1> DEFINE Active == {b \in Client : Busy(b) \/ b \in parent}
<1>1. age \in Seq(Client) /\ IsInjective(age) /\ Range(age) = Active
  BY DEF TxnInv, TxnTypeOK, AgesExact
<1>2. \A b \in Client \ {c} : (Busy(b) \/ b \in parent)' <=> (Busy(b) \/ b \in parent)
  BY OthersWait DEF OthersAlone
<1> DEFINE s == RemoveFirst(age, c)
<1>3. s \in Seq(Client) /\ IsInjective(s) /\ Range(s) = Active \ {c}
  BY <1>1, RemoveOnce
<1>4. CASE age' = age /\ (Busy(c)' \/ c \in parent' <=> Busy(c) \/ c \in parent)
  BY <1>1, <1>2, <1>4 DEF AgesExact
<1>5. CASE age' = RemoveFirst(age, c) /\ ~Busy(c)' /\ c \notin parent'
  BY <1>2, <1>3, <1>5 DEF AgesExact
<1>6. CASE age' = Append(age, c) /\ ~Busy(c) /\ c \notin parent /\ Busy(c)'
  <2>1. c \notin Range(age)
    BY <1>1, <1>6
  <2>2. age' \in Seq(Client) /\ IsInjective(age') /\ Range(age') = Active \cup {c}
    BY <1>1, <1>6, <2>1, AppendOnce
  <2>. QED
    BY <1>2, <1>6, <2>2 DEF AgesExact
<1>7. CASE age' = Append(RemoveFirst(age, c), c) /\ Busy(c)'
  <2>1. c \notin Range(s)
    BY <1>3
  <2> HIDE DEF s
  <2>2. Append(s, c) \in Seq(Client) /\ IsInjective(Append(s, c))
        /\ Range(Append(s, c)) = (Active \ {c}) \cup {c}
    BY <1>3, <2>1, AppendOnce
  <2>3. age' = Append(s, c)
    BY <1>7 DEF s
  <2>. QED
    BY <1>2, <1>7, <2>2, <2>3 DEF AgesExact
<1>. QED
  BY <1>4, <1>5, <1>6, <1>7

-----------------------------------------------------------------------------
(* One step for each thing a shell does                                    *)

(* A command begins.                                                       *)
LEMMA IssueStep ==
  ASSUME TxnInv, NEW c \in Client, NEW command \in Command, Issue(c, command)
  PROVE  TxnInv'
<1> USE DEF TxnInv, Issue
<1>1. OthersAlone(c)
  BY DEF OthersAlone, TxnTypeOK
<1>2. \A r \in Row : c \notin Range(queue[r])
  BY NotQueued DEF Unfinished
<1>3. Busy(c)' /\ at'[c] = 1 /\ c \notin victim'
  <2>1. command # Idle
    BY DEF Command, Idle
  <2>. QED
    BY <2>1 DEF TxnTypeOK, Busy, CommandsBegun, Unfinished
<1>4. QueuesSound' /\ OwnersActive' /\ DraftsLocked'
  BY <1>1, <1>2, <1>3, LocksKept
<1>5. CommandsBegun'
  BY <1>1, <1>3, CommandsKept DEF TxnTypeOK
<1>6. AgesExact' /\ age' \in Seq(Client)
  BY <1>1, <1>3, AgesKept DEF TxnTypeOK
<1>7. TxnTypeOK'
  BY <1>6 DEF TxnTypeOK
<1>. QED
  BY <1>4, <1>5, <1>6, <1>7

(* It locks and writes a row, in the only step that takes a free lock.     *)
LEMMA AccessStep ==
  ASSUME TxnInv, NEW c \in Client, Access(c)
  PROVE  TxnInv'
<1> USE DEF TxnInv, Access
<1> DEFINE n == Needs(c)
<1>1. OthersAlone(c)
  BY DEF OthersAlone, TxnTypeOK
<1>2. n \in Row
  BY NeedsRow
<1>3. Busy(c) /\ Busy(c)' /\ at'[c] # 0 /\ c \notin victim'
  BY DEF TxnTypeOK, Busy, Unfinished
<1>4. Range(queue[n]) = {} \/ owner[n] = c
  BY <1>2, QueueMembers DEF QueuesSound
<1>5. c \notin Range(queue[n]) /\ \A r \in Row : c \in Range(queue[r]) => r = n
  BY <1>2, <1>4 DEF QueuesSound
<1> HIDE DEF n
<1>6. QueuesSound'
  <2> SUFFICES ASSUME NEW r \in Row, NEW b \in Range(queue[r])
               PROVE  /\ Unfinished(b)' /\ Needs(b)' = r
                      /\ b \notin victim'
                      /\ owner'[r] \notin {Nobody, b}
    BY DEF QueuesSound
  <2>1. b \in Client \ {c}
    BY <1>5, QueueMembers
  <2>2. owner'[r] \notin {Nobody, b}
    BY <1>2, <2>1, OwnerAssumption DEF n, QueuesSound, TxnTypeOK
  <2>. QED
    BY <1>1, <2>1, <2>2, OthersWait DEF QueuesSound
<1>7. OwnersActive'
  <2> SUFFICES ASSUME NEW r \in Row, NEW b, b = owner'[r], b \notin {Nobody, Lost}
               PROVE  Busy(b)' \/ b \in parent'
    BY DEF OwnersActive, Busy
  <2>1. CASE b = c
    BY <1>3, <2>1
  <2>2. CASE b # c
    <3>1. b \in Client \ {c} /\ (Busy(b) \/ b \in parent)
      BY <1>2, <2>2 DEF n, TxnTypeOK, OwnersActive
    <3>. QED
      BY <1>1, <3>1, OthersWait
  <2>. QED
    BY <2>1, <2>2
<1>8. DraftsLocked'
  <2> SUFFICES ASSUME NEW b \in Client, NEW r \in draft'[b] PROVE r \in Row /\ owner'[r] = b
    BY DEF DraftsLocked
  <2>1. CASE b = c
    BY <1>2, <2>1 DEF n, DraftsLocked, TxnTypeOK
  <2>2. CASE b # c
    BY <1>2, <2>2, OwnerAssumption DEF n, DraftsLocked, TxnTypeOK
  <2>. QED
    BY <2>1, <2>2
<1>9. CommandsBegun'
  BY <1>1, <1>3, CommandsKept DEF TxnTypeOK
<1>10. AgesExact'
  BY <1>1, <1>3, AgesKept DEF TxnTypeOK
<1>11. TxnTypeOK'
  BY <1>2 DEF n, TxnTypeOK
<1>. QED
  BY <1>6, <1>7, <1>8, <1>9, <1>10, <1>11

(* It waits behind those who came before.                                  *)
LEMMA WaitStep ==
  ASSUME TxnInv, NEW c \in Client, Wait(c)
  PROVE  TxnInv'
<1> USE DEF TxnInv, Wait, shellVars
<1> DEFINE n == Needs(c)
<1>1. n \in Row
  BY NeedsRow
<1>2. \A r \in Row : c \notin Range(queue[r])
  BY NotQueued
<1> HIDE DEF n
<1>3. /\ Append(queue[n], c) \in Seq(Client)
      /\ IsInjective(Append(queue[n], c))
      /\ Range(Append(queue[n], c)) = Range(queue[n]) \cup {c}
  BY <1>1, <1>2, QueueMembers, AppendOnce DEF QueuesSound
<1>4. queue' = [queue EXCEPT ![n] = Append(queue[n], c)]
  BY DEF n
<1>5. TxnTypeOK'
  BY <1>1, <1>3, <1>4 DEF TxnTypeOK
<1>6. QueuesSound'
  <2> SUFFICES ASSUME NEW r \in Row
               PROVE  /\ IsInjective(queue'[r])
                      /\ \A b \in Range(queue'[r]) :
                           /\ Unfinished(b) /\ Needs(b) = r
                           /\ b \notin victim
                           /\ owner[r] \notin {Nobody, b}
    BY DEF QueuesSound, Unfinished, Busy, Needs
  <2>1. CASE r # n
    BY <1>1, <1>4, <2>1 DEF TxnTypeOK, QueuesSound
  <2>2. CASE r = n
    <3>1. queue'[r] = Append(queue[n], c)
      BY <1>1, <1>4, <2>2 DEF TxnTypeOK
    <3>. QED
      BY <1>1, <1>3, <2>2, <3>1 DEF n, QueuesSound
  <2>. QED
    BY <2>1, <2>2
<1>7. OwnersActive' /\ DraftsLocked' /\ CommandsBegun' /\ AgesExact'
  BY DEF OwnersActive, DraftsLocked, CommandsBegun, AgesExact, Unfinished, Busy
<1>. QED
  BY <1>5, <1>6, <1>7

(* The database makes a victim of it, which waits no more.                 *)
LEMMA DetectStep ==
  ASSUME TxnInv, NEW c \in Client, Detect(c)
  PROVE  TxnInv'
<1> USE DEF TxnInv, Detect
<1> DEFINE n == Needs(c)
<1>1. n \in Row /\ Unfinished(c)
  BY NeedsRow DEF Waiting
<1> HIDE DEF n
<1>2. /\ RemoveFirst(queue[n], c) \in Seq(Client)
      /\ IsInjective(RemoveFirst(queue[n], c))
      /\ Range(RemoveFirst(queue[n], c)) = Range(queue[n]) \ {c}
  BY <1>1, QueueMembers, RemoveOnce DEF QueuesSound
<1>3. queue' = [queue EXCEPT ![n] = RemoveFirst(queue[n], c)]
  BY DEF n
<1>4. TxnTypeOK'
  BY <1>1, <1>2, <1>3 DEF TxnTypeOK
<1>5. QueuesSound'
  <2> SUFFICES ASSUME NEW r \in Row
               PROVE  /\ IsInjective(queue'[r])
                      /\ \A b \in Range(queue'[r]) :
                           /\ Unfinished(b) /\ Needs(b) = r
                           /\ b \notin victim \cup {c}
                           /\ owner[r] \notin {Nobody, b}
    BY DEF QueuesSound, Unfinished, Busy, Needs
  <2>1. CASE r # n
    BY <1>1, <1>3, <2>1 DEF n, TxnTypeOK, QueuesSound
  <2>2. CASE r = n
    <3>1. queue'[r] = RemoveFirst(queue[n], c)
      BY <1>1, <1>3, <2>2 DEF TxnTypeOK
    <3>. QED
      BY <1>1, <1>2, <2>2, <3>1 DEF QueuesSound
  <2>. QED
    BY <2>1, <2>2
<1>6. OwnersActive' /\ DraftsLocked' /\ CommandsBegun' /\ AgesExact'
  BY <1>1 DEF OwnersActive, DraftsLocked, CommandsBegun, AgesExact, Unfinished, Busy
<1>. QED
  BY <1>4, <1>5, <1>6

(* What the ends of a transaction have in common: the locks are released,  *)
(* the client is idle afterwards, and in no transaction.                   *)
LEMMA EndStep ==
  ASSUME TxnInv, NEW c \in Client, \A r \in Row : c \notin Range(queue[r]),
         Release(c), Over(c), OthersAlone(c),
         committed' \in [Row -> Client \cup {Nobody}],
         doing' \in [Client -> Command \cup {Idle}], doing'[c] = Idle,
         at' \in [Client -> Nat],
         parent' = parent \ {c}, victim' = victim \ {c}, told' \subseteq Client
  PROVE  TxnInv'
<1> USE DEF TxnInv
<1>1. ~Busy(c)' /\ c \notin parent' /\ c \notin victim'
  BY DEF Busy
<1>2. QueuesSound' /\ OwnersActive' /\ DraftsLocked'
  BY ReleaseKeeps
<1>3. CommandsBegun'
  BY <1>1, CommandsKept DEF TxnTypeOK
<1>4. AgesExact' /\ age' \in Seq(Client)
  BY <1>1, AgesKept DEF TxnTypeOK, Over
<1>5. TxnTypeOK'
  BY <1>4, ReleaseEffect DEF TxnTypeOK
<1>. QED
  BY <1>2, <1>3, <1>4, <1>5

(* What the commands have in common that leave their transaction open.     *)
LEMMA StayStep ==
  ASSUME TxnInv, NEW c \in Client, Busy(c), ~Waiting(c), UNCHANGED dbVars, Reply(c),
         parent' \in {parent, parent \cup {c}}, c \in parent', told' \subseteq Client
  PROVE  TxnInv'
<1> USE DEF TxnInv, dbVars, Reply
<1>1. OthersAlone(c)
  BY DEF OthersAlone, TxnTypeOK
<1>2. \A r \in Row : c \notin Range(queue[r])
  BY NotQueued
<1>3. ~Busy(c)' /\ c \notin victim'
  BY DEF Busy, TxnTypeOK
<1>4. QueuesSound' /\ OwnersActive' /\ DraftsLocked'
  BY <1>1, <1>2, LocksKept
<1>5. CommandsBegun'
  BY <1>1, <1>3, CommandsKept DEF TxnTypeOK
<1>6. AgesExact'
  BY <1>1, AgesKept DEF TxnTypeOK
<1>7. TxnTypeOK'
  BY DEF TxnTypeOK
<1>. QED
  BY <1>4, <1>5, <1>6, <1>7

(* A victim starts again, in a new transaction.                            *)
LEMMA RetryStep ==
  ASSUME TxnInv, NEW c \in Client, Retry(c)
  PROVE  TxnInv'
<1> USE DEF TxnInv, Retry, txn_abort
<1>1. OthersAlone(c)
  BY DEF OthersAlone, TxnTypeOK
<1>2. \A r \in Row : c \notin Range(queue[r])
  BY NotQueued
<1>3. Busy(c) /\ Busy(c)' /\ at'[c] = 1 /\ c \notin victim'
  BY DEF TxnTypeOK, CommandsBegun, Unfinished, Busy
<1>4. QueuesSound' /\ OwnersActive' /\ DraftsLocked'
  BY <1>1, <1>2, ReleaseKeeps
<1>5. CommandsBegun'
  BY <1>1, <1>3, CommandsKept DEF TxnTypeOK
<1>6. AgesExact' /\ age' \in Seq(Client)
  BY <1>1, <1>3, AgesKept DEF TxnTypeOK
<1>7. TxnTypeOK'
  BY <1>2, <1>6, ReleaseEffect DEF TxnTypeOK
<1>. QED
  BY <1>4, <1>5, <1>6, <1>7

(* The other ends of a command.                                            *)
LEMMA AnswerStep ==
  ASSUME TxnInv, NEW c \in Client,
         Aborted(c) \/ Fail(c) \/ Refuse(c) \/ Forget(c) \/ Finish(c) \/ txn_create(c)
  PROVE  TxnInv'
<1> USE DEF TxnInv
<1>1. \A r \in Row : c \notin Range(queue[r])
  BY NotQueued DEF Aborted, Fail, Refuse, Forget, Finish, txn_create, Unfinished
<1>2. Reply(c)
  BY DEF Aborted, Fail, Refuse, Forget, Finish, txn_create
<1>3. /\ doing' \in [Client -> Command \cup {Idle}] /\ doing'[c] = Idle
      /\ at' \in [Client -> Nat]
      /\ victim' = victim \ {c}
      /\ parent' \subseteq parent \cup {c} /\ parent \subseteq parent' \cup {c}
        => OthersAlone(c)
  BY <1>2 DEF Reply, TxnTypeOK, OthersAlone
<1>4. CASE Aborted(c)
  BY <1>1, <1>3, <1>4, EndStep DEF Aborted, txn_abort, TxnTypeOK
<1>5. CASE Fail(c)
  BY <1>1, <1>3, <1>5, EndStep DEF Fail, txn_abort, TxnTypeOK
<1>6. CASE Refuse(c) /\ c \notin parent
  BY <1>1, <1>3, <1>6, EndStep DEF Refuse, txn_abort, TxnTypeOK
<1>7. CASE Finish(c) /\ c \notin parent
  <2>1. committed' \in [Row -> Client \cup {Nobody}]
    BY <1>7 DEF Finish, txn_commit, TxnTypeOK
  <2>. QED
    BY <1>1, <1>3, <1>7, <2>1, EndStep DEF Finish, txn_commit, TxnTypeOK
<1>8. CASE (Refuse(c) \/ Forget(c) \/ Finish(c)) /\ c \in parent
  BY <1>2, <1>8, StayStep DEF Refuse, Forget, Finish, TxnTypeOK, Waiting, Unfinished
<1>9. CASE txn_create(c)
  BY <1>2, <1>9, StayStep DEF txn_create, TxnTypeOK, Waiting
<1>10. CASE Forget(c) /\ c \notin parent
  <2> USE <1>10 DEF Forget
  <2>1. OthersAlone(c) /\ ~Busy(c)' /\ c \notin victim'
    BY <1>3 DEF Busy
  <2>2. QueuesSound'
    <3> SUFFICES ASSUME NEW r \in Row, NEW b \in Range(queue[r])
                 PROVE  /\ Unfinished(b)' /\ Needs(b)' = r
                        /\ b \notin victim'
                        /\ owner'[r] \notin {Nobody, b}
      BY DEF QueuesSound
    <3>1. b \in Client \ {c}
      BY <1>1, QueueMembers
    <3>2. owner'[r] \notin {Nobody, b}
      BY <3>1, OwnerAssumption DEF QueuesSound, TxnTypeOK
    <3>. QED
      BY <2>1, <3>1, <3>2, OthersWait DEF QueuesSound, OthersAlone
  <2>3. OwnersActive'
    <3> SUFFICES ASSUME NEW r \in Row, NEW b, b = owner'[r], b \notin {Nobody, Lost}
                 PROVE  Busy(b)' \/ b \in parent'
      BY DEF OwnersActive, Busy
    <3>1. b \in Client \ {c} /\ (Busy(b) \/ b \in parent)
      BY DEF TxnTypeOK, OwnersActive
    <3>. QED
      BY <2>1, <3>1, OthersWait
  <2>4. DraftsLocked'
    <3> SUFFICES ASSUME NEW b \in Client, NEW r \in draft'[b] PROVE r \in Row /\ owner'[r] = b
      BY DEF DraftsLocked
    <3>1. b # c /\ r \in draft[b]
      BY DEF TxnTypeOK
    <3>. QED
      BY <3>1 DEF DraftsLocked
  <2>5. CommandsBegun'
    BY <1>3, <2>1, CommandsKept DEF TxnTypeOK
  <2>6. AgesExact' /\ age' \in Seq(Client)
    BY <2>1, AgesKept DEF Over, TxnTypeOK
  <2>7. owner' \in [Row -> Client \cup {Nobody, Lost}] /\ draft' \in [Client -> SUBSET Row]
    BY DEF TxnTypeOK
  <2>8. TxnTypeOK'
    BY <1>3, <2>6, <2>7 DEF TxnTypeOK
  <2>. QED
    BY <2>2, <2>3, <2>4, <2>5, <2>6, <2>8
<1>. QED
  BY <1>4, <1>5, <1>6, <1>7, <1>8, <1>9, <1>10

(* The two commands that end the transaction of a client.                  *)
LEMMA ClientEndStep ==
  ASSUME TxnInv, NEW c \in Client, (\E ok \in BOOLEAN : cmd_txn_commit(c, ok)) \/ cmd_txn_abort(c)
  PROVE  TxnInv'
<1> USE DEF TxnInv
<1>1. /\ ~Busy(c) /\ Over(c) /\ parent' = parent \ {c} /\ told' = told \ {c}
      /\ UNCHANGED <<doing, at, victim>>
      /\ txn_commit(c) \/ txn_abort(c)
  BY DEF cmd_txn_commit, cmd_txn_abort
<1>2. Release(c) /\ committed' \in [Row -> Client \cup {Nobody}]
  BY <1>1 DEF txn_commit, txn_abort, TxnTypeOK
<1>3. c \notin victim
  BY <1>1 DEF CommandsBegun, Unfinished
<1>4. (\A r \in Row : c \notin Range(queue[r])) /\ OthersAlone(c) /\ doing[c] = Idle
  BY <1>1, NotQueued DEF Unfinished, OthersAlone, Busy
<1>. QED
  BY <1>1, <1>2, <1>3, <1>4, EndStep DEF TxnTypeOK

(* TxnInv is inductive.                                                    *)
LEMMA TxnStep == TxnInv /\ [TxnNext]_txnVars => TxnInv'
<1>1. ASSUME TxnInv, UNCHANGED txnVars PROVE TxnInv'
  BY <1>1
  DEF TxnInv, TxnTypeOK, QueuesSound, CommandsBegun, OwnersActive, DraftsLocked, AgesExact,
      Unfinished, Busy, Needs, txnVars, dbVars, shellVars
<1>2. ASSUME TxnInv, Restart PROVE TxnInv'
  <2>1. (Quiet /\ committed \in [Row -> Client \cup {Nobody}])'
    BY <1>2 DEF Restart, Quiet, TxnInv, TxnTypeOK
  <2>. QED
    BY <2>1, QuietSound, PTL
<1>3. ASSUME TxnInv, NEW c \in Client, Run(c) PROVE TxnInv'
  BY <1>3, AccessStep, WaitStep, DetectStep, RetryStep, AnswerStep DEF Run
<1>4. ASSUME TxnInv, NEW c \in Client, End(c) PROVE TxnInv'
  BY <1>4, ClientEndStep DEF End
<1>5. ASSUME TxnInv, NEW c \in Client, Refuse(c) \/ Fail(c) \/ Forget(c) PROVE TxnInv'
  BY <1>5, AnswerStep
<1>. QED
  BY <1>1, <1>2, <1>3, <1>4, <1>5, IssueStep DEF TxnNext, SoundNext

LEMMA TxnInvariant == TxnSpec => []TxnInv
<1>1. TxnInit => TxnInv
  BY QuietSound DEF TxnInit, Quiet
<1>. QED
  BY <1>1, TxnStep, PTL DEF TxnSpec

(* Whatever fails, is forgotten or is chosen as a victim, every lock is    *)
(* held by a command under way, by a client's transaction, or by one that  *)
(* a command forgot; uncommitted rows are locked; nobody waits for a free  *)
(* row; and the database knows just the transactions that the shells have. *)
THEOREM LocksAlwaysAccounted == TxnSpec => []LocksAccounted
BY TxnInvariant, TxnInvSuffices, PTL

-----------------------------------------------------------------------------
(* The refinement of the abstract Transactions                             *)

(* The end of a transaction of one client, as the shells have them, is a   *)
(* step of the abstract one.                                               *)
LEMMA DropStep ==
  ASSUME TxnTypeOK, NEW c \in Client, txn_abort(c), parent' = parent \ {c}
  PROVE  S!Drop({c})
BY DEF S!Drop, txn_abort, Release, TxnTypeOK

LEMMA PublishStep ==
  ASSUME TxnTypeOK, NEW c \in Client, txn_commit(c), parent' = parent \ {c}
  PROVE  S!Publish(c)
BY DEF S!Publish, txn_commit, Release, TxnTypeOK

(* Every step of the shells and the database is a step of the abstract     *)
(* transactions or changes nothing that they see.                          *)
LEMMA TransactionsStep ==
  TxnInv /\ [TxnNext]_txnVars => [S!TransactionsNext]_(S!view)
<1> SUFFICES ASSUME TxnInv, [TxnNext]_txnVars PROVE [S!TransactionsNext]_(S!view)
  OBVIOUS
<1> DEFINE Stutter == UNCHANGED <<committed, parent, draft>>
<1>1. /\ \A C \in SUBSET Client : S!Drop(C) => S!TransactionsNext
      /\ \A c \in Client : S!Open(c) \/ S!Work(c) \/ S!Publish(c) => S!TransactionsNext
      /\ Stutter => UNCHANGED S!view
  BY DEF S!TransactionsNext, S!view
<1>2. TxnTypeOK /\ CommandsBegun
  BY DEF TxnInv
<1> DEFINE Allowed == Stutter \/ S!TransactionsNext
<1> HIDE DEF Stutter
<1>3. ASSUME NEW c \in Client, NEW command \in Command, Issue(c, command) PROVE Allowed
  BY <1>3 DEF Issue, Stutter
<1>4. ASSUME NEW c \in Client, Access(c) PROVE Allowed
  <2>1. S!Work(c)
    <3>1. draft' = [draft EXCEPT ![c] = {Needs(c)} \cup @]
      BY <1>4 DEF Access
    <3>2. {Needs(c)} \in SUBSET Row
      BY <1>2, <1>4, NeedsRow DEF Access
    <3>. QED
      BY <1>4, <3>1, <3>2 DEF S!Work, Access
  <2>. QED
    BY <1>1, <2>1
<1>5. ASSUME NEW c \in Client, Wait(c) \/ Detect(c) PROVE Allowed
  BY <1>5 DEF Wait, Detect, shellVars, Stutter
<1>6. ASSUME NEW c \in Client, Retry(c) \/ Aborted(c) \/ Fail(c) \/ cmd_txn_abort(c)
      PROVE  Allowed
  <2>1. txn_abort(c) /\ parent' = parent \ {c}
    BY <1>6 DEF Retry, Aborted, Fail, cmd_txn_abort
  <2>. QED
    BY <1>1, <1>2, <2>1, DropStep
<1>7. ASSUME NEW c \in Client, Refuse(c) \/ Finish(c) PROVE Allowed
  <2>1. CASE c \in parent
    BY <1>7, <2>1 DEF Refuse, Finish, dbVars, Stutter
  <2>2. CASE c \notin parent
    <3>1. (txn_abort(c) \/ txn_commit(c)) /\ parent' = parent \ {c}
      BY <1>7, <2>2 DEF Refuse, Finish
    <3>. QED
      BY <1>1, <1>2, <3>1, DropStep, PublishStep
  <2>. QED
    BY <2>1, <2>2
<1>8. ASSUME NEW c \in Client, Forget(c) PROVE Allowed
  <2>1. CASE c \in parent
    BY <1>8, <2>1 DEF Forget, dbVars, Stutter
  <2>2. CASE c \notin parent
    <3>1. /\ draft' = [draft EXCEPT ![c] = {}]
          /\ parent' = parent \ {c} /\ committed' = committed
      BY <1>8, <2>2 DEF Forget
    <3>2. S!Drop({c})
      BY <1>2, <3>1 DEF S!Drop, TxnTypeOK
    <3>. QED
      BY <1>1, <3>2
  <2>. QED
    BY <2>1, <2>2
<1>9. ASSUME NEW c \in Client, txn_create(c) PROVE Allowed
  <2>1. S!Open(c)
    BY <1>9 DEF txn_create, dbVars, S!Open
  <2>. QED
    BY <1>1, <2>1
<1>10. ASSUME NEW c \in Client, NEW ok \in BOOLEAN, cmd_txn_commit(c, ok) PROVE Allowed
  BY <1>1, <1>2, <1>10, DropStep, PublishStep DEF cmd_txn_commit
<1>11. ASSUME Restart PROVE Allowed
  <2>1. S!Drop(Client)
    BY <1>2, <1>11 DEF Restart, S!Drop, TxnTypeOK
  <2>. QED
    BY <1>1, <2>1
<1>12. ASSUME UNCHANGED txnVars PROVE Allowed
  BY <1>12 DEF txnVars, dbVars, shellVars, Stutter
<1>13. Allowed
  BY <1>3, <1>4, <1>5, <1>6, <1>7, <1>8, <1>9, <1>10, <1>11, <1>12
  DEF TxnNext, SoundNext, Run, End
<1>. QED
  BY <1>1, <1>13

(* Through victims, retries, errors of the database, refused commands,     *)
(* commands that forget their transaction, and crashes, what reaches the   *)
(* database is the work of whole transactions as the shells have them.     *)
THEOREM AlwaysWholeOrNothing == TxnSpec => WholeOrNothing
<1>1. TxnInit => S!TransactionsInit
  BY DEF TxnInit, S!TransactionsInit
<1>. QED
  BY <1>1, TransactionsStep, TxnInvariant, PTL DEF TxnSpec, WholeOrNothing, S!TransactionsSpec

(* Without errors of the database, what the client has been told of its    *)
(* transaction is what the shell has.                                      *)
ToldTheTruth == told = parent

LEMMA ToldStep == TxnInv /\ ToldTheTruth /\ [SoundNext]_txnVars => ToldTheTruth'
BY DEF ToldTheTruth, SoundNext, Run, End, Issue, Access, Wait, Detect, Retry, Aborted, Refuse,
       Finish, txn_create, cmd_txn_commit, cmd_txn_abort, Restart, txnVars, shellVars

(* And then the manual's promise is kept to the client: the commands after *)
(* txn_create and before the end it is told of are one transaction.        *)
THEOREM SoundlyTreatedAsTransaction == SoundSpec => TreatedAsTransaction
<1>1. TxnInit => T!TransactionsInit /\ ToldTheTruth
  BY DEF TxnInit, T!TransactionsInit, ToldTheTruth
<1>2. [SoundNext]_txnVars => [TxnNext]_txnVars
  BY DEF TxnNext
<1>3. ToldTheTruth /\ ToldTheTruth' /\ [S!TransactionsNext]_(S!view)
        => [T!TransactionsNext]_(T!view)
  BY DEF ToldTheTruth, S!TransactionsNext, S!view, S!Open, S!Work, S!Publish, S!Drop,
         T!TransactionsNext, T!view, T!Open, T!Work, T!Publish, T!Drop
<1>4. SoundSpec => TxnInit /\ [][SoundNext]_txnVars
  BY DEF SoundSpec
<1>5. TxnInit /\ [][SoundNext]_txnVars => []TxnInv
  BY <1>2, TxnInvariant, PTL DEF TxnSpec
<1>. QED
  BY <1>1, <1>2, <1>3, <1>4, <1>5, ToldStep, TransactionsStep, PTL
  DEF TreatedAsTransaction, T!TransactionsSpec

-----------------------------------------------------------------------------
(* The identifiers of transactions                                         *)

(* A transaction is open exactly when it has an identifier, the last that  *)
(* its client was given; what is written of an identifier, in the database *)
(* or to the client, is written when its transaction ends, and agrees.     *)
TidInv ==
  /\ made \in [Client -> Nat] /\ current \in [Client -> Nat]
  /\ \A c \in Client :
       /\ c \in parent <=> current[c] # 0
       /\ current[c] <= made[c]
       /\ \A n \in Nat : <<c, n>> \in tids => n \in 1 .. made[c] /\ n # current[c]
       /\ \A n \in Nat, o \in {"committed", "aborted"} :
            <<<<c, n>>, o>> \in heard =>
              /\ n \in 1 .. made[c] /\ n # current[c]
              /\ o = "committed" <=> <<c, n>> \in tids

(* The end of a transaction whose identifier becomes a row, or does not.   *)
LEMMA TidEndStep ==
  ASSUME TidInv, NEW c \in Client, c \in parent, parent' = parent \ {c},
         NEW o \in {"committed", "aborted"}, Hear(c, o), NoTid(c), UNCHANGED made,
         tids' = IF o = "committed" THEN tids \cup {<<c, current[c]>>} ELSE tids
  PROVE  TidInv'
<1>1. /\ current[c] # 0
      /\ current' \in [Client -> Nat] /\ current'[c] = 0
      /\ \A b \in Client \ {c} : current'[b] = current[b]
  BY DEF TidInv, NoTid
<1>2. ASSUME NEW b \in Client, NEW n \in Nat, <<b, n>> \in tids'
      PROVE  n \in 1 .. made[b] /\ n # current'[b]
  <2>1. CASE <<b, n>> \in tids
    BY <1>1, <2>1 DEF TidInv
  <2>2. CASE b = c /\ n = current[c]
    BY <1>1, <2>2 DEF TidInv
  <2>. QED
    BY <1>2, <2>1, <2>2
<1>3. ASSUME NEW b \in Client, NEW n \in Nat, NEW p \in {"committed", "aborted"},
             <<<<b, n>>, p>> \in heard'
      PROVE  /\ n \in 1 .. made[b] /\ n # current'[b]
             /\ p = "committed" <=> <<b, n>> \in tids'
  <2>1. CASE <<<<b, n>>, p>> \in heard
    <3>1. n \in 1 .. made[b] /\ n # current[b] /\ (p = "committed" <=> <<b, n>> \in tids)
      BY <2>1 DEF TidInv
    <3>2. <<b, n>> \in tids' <=> <<b, n>> \in tids
      BY <3>1
    <3>3. n # current'[b]
      BY <1>1, <2>1, <3>1 DEF TidInv
    <3>. QED
      BY <3>1, <3>2, <3>3
  <2>2. CASE b = c /\ n = current[c] /\ p = o
    <3>1. <<c, n>> \notin tids /\ n \in 1 .. made[c]
      BY <2>2 DEF TidInv
    <3>. QED
      BY <1>1, <2>2, <3>1
  <2>. QED
    BY <1>3, <2>1, <2>2 DEF Hear
<1>4. \A b \in Client : (b \in parent' <=> current'[b] # 0) /\ current'[b] <= made[b]
  BY <1>1 DEF TidInv
<1>. QED
  BY <1>1, <1>2, <1>3, <1>4 DEF TidInv

(* TidInv is inductive; it speaks of the transactions by parent alone.     *)
LEMMA TidStep == TidInv /\ [TidNext]_allVars => TidInv'
<1> SUFFICES ASSUME TidInv, [TidNext]_allVars PROVE TidInv'
  OBVIOUS
<1>1. ASSUME NEW c \in Client, NewTid(c) PROVE TidInv'
  BY <1>1 DEF NewTid, txn_create, TidInv
<1>2. ASSUME NEW c \in Client, CommitTid(c) PROVE TidInv'
  <2>1. PICK ok \in BOOLEAN :
          /\ cmd_txn_commit(c, ok)
          /\ tids' = IF ok THEN tids \cup {<<c, current[c]>>} ELSE tids
          /\ Hear(c, IF ok THEN "committed" ELSE "aborted")
    BY <1>2 DEF CommitTid
  <2>2. c \in parent /\ parent' = parent \ {c}
    BY <2>1 DEF cmd_txn_commit
  <2>. QED
    BY <1>2, <2>1, <2>2, TidEndStep DEF CommitTid
<1>3. ASSUME NEW c \in Client, DropTid(c) PROVE TidInv'
  <2>1. /\ c \in parent /\ parent' = parent \ {c}
        /\ NoTid(c) /\ UNCHANGED <<tids, made>>
    BY <1>3 DEF DropTid, cmd_txn_abort, Aborted, Fail
  <2>2. Hear(c, "aborted")
    BY <1>3 DEF DropTid, Hear
  <2>. QED
    BY <2>1, <2>2, TidEndStep
<1>4. ASSUME RestartTids PROVE TidInv'
  <2>1. /\ parent' = {} /\ UNCHANGED <<tids, made, heard>>
        /\ current' \in [Client -> Nat] /\ \A c \in Client : current'[c] = 0
    BY <1>4 DEF RestartTids, Restart
  <2>. QED
    BY SMTT(30), <2>1 DEF TidInv
<1>5. ASSUME NEW c \in Client, OtherStep(c) PROVE TidInv'
  <2>1. parent' = parent
    BY <1>5 DEF OtherStep, Issue, Access, Wait, Detect, Retry, Finish, Refuse, Forget, Fail,
                shellVars
  <2>. QED
    BY <1>5, <2>1 DEF OtherStep, tidVars, TidInv
<1>6. CASE UNCHANGED allVars
  BY <1>6 DEF allVars, tidVars, txnVars, shellVars, TidInv
<1>. QED
  BY <1>1, <1>2, <1>3, <1>4, <1>5, <1>6 DEF TidNext

(* With their identifiers the shells take the steps they take without.     *)
THEOREM TidSpecIsTxnSpec == TidSpec => TxnSpec
<1>1. TidInit => TxnInit
  BY DEF TidInit
<1>2. ASSUME TidNext PROVE TxnNext
  <2>1. ASSUME NEW c \in Client, NewTid(c) \/ CommitTid(c) PROVE TxnNext
    BY <2>1 DEF NewTid, CommitTid, TxnNext, SoundNext, Run, End
  <2>2. ASSUME NEW c \in Client, DropTid(c) PROVE TxnNext
    BY <2>2 DEF DropTid, TxnNext, SoundNext, Run, End
  <2>3. ASSUME NEW c \in Client, OtherStep(c) PROVE TxnNext
    BY <2>3 DEF OtherStep, TxnNext, SoundNext, Run
  <2>4. RestartTids => TxnNext
    BY DEF RestartTids, TxnNext, SoundNext
  <2>. QED
    BY <1>2, <2>1, <2>2, <2>3, <2>4 DEF TidNext
<1>3. UNCHANGED allVars => UNCHANGED txnVars
  BY DEF allVars
<1>. QED
  BY <1>1, <1>2, <1>3, PTL DEF TidSpec, TxnSpec

(* txn_read answers what the client was told, or would have been told, of  *)
(* the end of its transaction, to the client and to every superuser, after *)
(* deadlocks, lost connections, failing commits and crashes.               *)
THEOREM ReadAlwaysTellsOutcome == TidSpec => []ReadTellsOutcome
<1>1. TidInit => TidInv
  BY DEF TidInit, TxnInit, TidInv
<1>2. TidInv => ReadTellsOutcome
  <2> SUFFICES ASSUME TidInv, NEW i \in Tid, NEW u \in Client, u = i[1] \/ u \in Superuser
               PROVE  /\ <<i, "committed">> \in heard => txn_read(u, i) = "success"
                      /\ <<i, "aborted">> \in heard => txn_read(u, i) = "notfound"
    BY DEF ReadTellsOutcome
  <2>1. PICK c \in Client, n \in Nat : i = <<c, n>>
    BY TidAssumption DEF Tid
  <2>2. <<i, "committed">> \in heard => current[i[1]] # i[2] /\ i \in tids
    BY <2>1 DEF TidInv
  <2>3. <<i, "aborted">> \in heard => current[i[1]] # i[2] /\ i \notin tids
    BY <2>1 DEF TidInv
  <2>. QED
    BY <2>2, <2>3 DEF txn_read
<1>. QED
  BY <1>1, <1>2, TidStep, PTL DEF TidSpec
=============================================================================
