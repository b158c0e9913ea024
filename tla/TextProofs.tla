----------------------------- MODULE TextProofs -----------------------------
(***************************************************************************)
(* What is written can be read again.  The text of a quantity, for any     *)
(* quantities: the balance and the offers hold the numbers they stand for. *)
(* A command on the connection, for words, commands and lines of any       *)
(* length: what the shell executes is what was sent.                       *)
(*                                                                         *)
(* Loops over digits and over characters are functions of a number of      *)
(* rounds; what holds after each round is shown by the least round after   *)
(* which it would not (Least).                                             *)
(***************************************************************************)
EXTENDS Wire, QuantityText, QuantityProofs, SequenceTheorems

(* A set of numbers that is not empty has a least one: the way in which    *)
(* induction is done here.                                                 *)
LEMMA Least ==
  ASSUME NEW S \in SUBSET Nat, S # {}
  PROVE  \E m \in S : \A n \in S : m <= n
<1>1. PICK k \in S : TRUE
  OBVIOUS
<1> DEFINE T == {-n : n \in S \cap 0..k}
<1>2. T \in SUBSET Int /\ IsFiniteSet(T) /\ T # {}
  <2>1. T \subseteq (-k)..0 /\ -k \in Int
    OBVIOUS
  <2>2. IsFiniteSet((-k)..0)
    BY <2>1, FS_Interval
  <2>3. IsFiniteSet(T)
    BY <2>1, <2>2, FS_Subset
  <2>4. -k \in T
    OBVIOUS
  <2>. QED
    BY <2>1, <2>3, <2>4
<1> DEFINE g == Max(T)
<1>3. g \in T /\ \A y \in T : g >= y
  <2> HIDE DEF T
  <2>. QED
    BY <1>2, MaxIsGreatest
<1>4. PICK m \in S \cap 0..k : g = -m
  <2> HIDE DEF g
  <2>. QED
    BY <1>3
<1>5. \A n \in S : m <= n
  <2> SUFFICES ASSUME NEW n \in S PROVE m <= n
    OBVIOUS
  <2>1. CASE n \in 0..k
    <3>1. -n \in T
      BY <2>1
    <3>2. -m >= -n
      BY <1>3, <1>4, <3>1
    <3>. QED
      BY <3>2
  <2>2. CASE n \notin 0..k
    BY <2>2
  <2>. QED
    BY <2>1, <2>2
<1>. QED
  BY <1>5

-----------------------------------------------------------------------------
(* Quantities as text                                                      *)

(* A loop that takes steps s as long as they change something, and returns *)
(* out of where it ends, is a recursive function.                          *)
LEMMA TailRecursion ==
  ASSUME NEW D, NEW s \in [D -> D], NEW out
  PROVE  \E g : g = [x \in D |-> IF s[x] = x THEN out[x] ELSE g[s[x]]]
<1> DEFINE Closed(C) == \A y \in C : s[y] \in C
           Orbit(x) == {y \in D : \A C \in SUBSET D : x \in C /\ Closed(C) => y \in C}
           End(x) == {y \in Orbit(x) : s[y] = y}
           g == [x \in D |-> out[Pick(End(x))]]
<1>1. ASSUME NEW x \in D, s[x] = x PROVE Pick(End(x)) = x
  <2>1. Closed({x}) /\ {x} \in SUBSET D
    BY <1>1
  <2>2. Orbit(x) \subseteq {x}
    BY <2>1
  <2>3. x \in Orbit(x)
    OBVIOUS
  <2>4. End(x) = {x}
    BY <1>1, <2>2, <2>3
  <2>. QED
    BY <2>4, PickIn
<1>2. ASSUME NEW x \in D, s[x] # x PROVE End(x) = End(s[x])
  <2>1. ASSUME NEW y \in Orbit(s[x]) PROVE y \in Orbit(x)
    OBVIOUS
  <2>2. ASSUME NEW y \in Orbit(x), y # x PROVE y \in Orbit(s[x])
    <3> SUFFICES ASSUME NEW C \in SUBSET D, s[x] \in C, Closed(C) PROVE y \in C
      OBVIOUS
    <3>1. Closed(C \cup {x}) /\ C \cup {x} \in SUBSET D /\ x \in C \cup {x}
      OBVIOUS
    <3>2. y \in C \cup {x}
      BY <3>1
    <3>. QED
      BY <2>2, <3>2
  <2> HIDE DEF Orbit
  <2>. QED
    BY <1>2, <2>1, <2>2
<1>3. ASSUME NEW x \in D PROVE g[x] = IF s[x] = x THEN out[x] ELSE g[s[x]]
  <2>1. g[x] = out[Pick(End(x))]
    OBVIOUS
  <2>2. g[s[x]] = out[Pick(End(s[x]))]
    OBVIOUS
  <2> HIDE DEF g, End
  <2>. QED
    BY <1>1, <1>2, <2>1, <2>2
<1>4. g = [x \in D |-> g[x]]
  OBVIOUS
<1>5. g = [x \in D |-> IF s[x] = x THEN out[x] ELSE g[s[x]]]
  <2> HIDE DEF g
  <2>. QED
    BY <1>3, <1>4
<1>. QED
  BY <1>5

Ten == <<10, 1>>

(* Dividing by ten.                                                        *)
LEMMA OverTen ==
  ASSUME NEW q \in Quantity
  PROVE  /\ <<q[1], q[2] * 10>> \in Quantity
         /\ q (/) Ten = Canonical[<<q[1], q[2] * 10>>] /\ q (/) Ten \in Quantity
<1>1. <<q, Ten>> \in Quantity \X Positive
  BY DEF Ten, Positive, Quantity
<1>2. q (/) Ten = Canonical[<<q[1] * 1, q[2] * 10>>]
  BY <1>1 DEF (/), Over, Ten
<1>3. q[1] * 1 = q[1] /\ <<q[1], q[2] * 10>> \in Quantity
  BY DEF Quantity
<1>. QED
  BY <1>2, <1>3, CanonicalForm

(* The loop that shifts a number to the right, round by round.             *)
LEMMA ShiftedRound ==
  ASSUME NEW q \in Quantity, NEW n \in Nat
  PROVE  Shifted[<<q, n>>] = IF n = 0 THEN q ELSE Shifted[<<q (/) Ten, n - 1>>]
<1> DEFINE D == Quantity \X Nat
           s == [x \in D |-> IF x[2] = 0 THEN x ELSE <<x[1] (/) Ten, x[2] - 1>>]
           out == [x \in D |-> x[1]]
           Body(f, x) == IF x[2] = 0 THEN x[1] ELSE f[<<x[1] (/) Ten, x[2] - 1>>]
<1>1. s \in [D -> D]
  <2>1. \A x \in D : x[1] (/) Ten \in Quantity
    BY OverTen
  <2>2. \A x \in D : x[2] # 0 => <<x[1] (/) Ten, x[2] - 1>> \in D
    BY <2>1
  <2> HIDE DEF D
  <2>. QED
    BY <2>2
<1>2. ASSUME NEW x \in D PROVE /\ s[x] = x <=> x[2] = 0
                               /\ x[2] # 0 => s[x] = <<x[1] (/) Ten, x[2] - 1>>
                               /\ out[x] = x[1]
  OBVIOUS
<1>3. PICK g : g = [x \in D |-> IF s[x] = x THEN out[x] ELSE g[s[x]]]
  <2> HIDE DEF D, s, out
  <2>. QED
    BY <1>1, TailRecursion
<1>4. g = [x \in D |-> Body(g, x)]
  <2> HIDE DEF D, s, out
  <2>. QED
    BY <1>2, <1>3
<1>5. Shifted = [x \in D |-> Body(Shifted, x)]
  BY <1>4 DEF Shifted, Ten
<1>6. \A x \in D : Shifted[x] = Body(Shifted, x)
  BY <1>5
<1>7. <<q, n>> \in D
  OBVIOUS
<1>. QED
  BY <1>6, <1>7

Fractions == Nat \X (Nat \ {0}) \X Nat

(* One round of _to_decimal: a factor 5 or 2 less in the denominator.      *)
LEMMA DecimalRound ==
  ASSUME NEW x \in Fractions
  PROVE  to_decimal[x] =
           CASE x[2] % 5 = 0 -> to_decimal[<<x[1] * 2, x[2] \div 5, x[3] + 1>>]
             [] x[2] % 5 # 0 /\ x[2] % 2 = 0 -> to_decimal[<<x[1] * 5, x[2] \div 2, x[3] + 1>>]
             [] OTHER -> x
<1> DEFINE Step(y) == IF y[2] % 5 = 0 THEN <<y[1] * 2, y[2] \div 5, y[3] + 1>>
                      ELSE IF y[2] % 2 = 0 THEN <<y[1] * 5, y[2] \div 2, y[3] + 1>>
                      ELSE y
           s == [y \in Fractions |-> Step(y)]
           out == [y \in Fractions |-> y]
           Body(f, y) ==
             CASE y[2] % 5 = 0 -> f[<<y[1] * 2, y[2] \div 5, y[3] + 1>>]
               [] y[2] % 5 # 0 /\ y[2] % 2 = 0 -> f[<<y[1] * 5, y[2] \div 2, y[3] + 1>>]
               [] OTHER -> y
<1>1. \A n \in Nat \ {0} : /\ n % 5 = 0 => n \div 5 \in Nat \ {0}
                           /\ n % 2 = 0 => n \div 2 \in Nat \ {0}
  OBVIOUS
<1>2. ASSUME NEW y \in Fractions PROVE Step(y) \in Fractions
  BY <1>1 DEF Fractions
<1>3. s \in [Fractions -> Fractions]
  <2> HIDE DEF Step
  <2>. QED
    BY <1>2
<1>4. ASSUME NEW y \in Fractions
      PROVE  /\ y[2] % 5 = 0 => Step(y) # y /\ Step(y) = <<y[1] * 2, y[2] \div 5, y[3] + 1>>
             /\ y[2] % 5 # 0 /\ y[2] % 2 = 0 =>
                  Step(y) # y /\ Step(y) = <<y[1] * 5, y[2] \div 2, y[3] + 1>>
             /\ y[2] % 5 # 0 /\ y[2] % 2 # 0 => Step(y) = y
  <2>1. y[3] + 1 # y[3]
    BY DEF Fractions
  <2>. QED
    BY <2>1
<1>5. PICK g : g = [y \in Fractions |-> IF s[y] = y THEN out[y] ELSE g[s[y]]]
  <2> HIDE DEF s, out
  <2>. QED
    BY <1>3, TailRecursion
<1>6. ASSUME NEW f, NEW y \in Fractions
      PROVE  (IF s[y] = y THEN out[y] ELSE f[s[y]]) = Body(f, y)
  <2>1. s[y] = Step(y) /\ out[y] = y
    OBVIOUS
  <2> HIDE DEF s, out, Step
  <2>. QED
    BY <1>4, <2>1
<1>7. g = [y \in Fractions |-> Body(g, y)]
  <2> HIDE DEF s, out, Body
  <2>. QED
    BY <1>5, <1>6
<1>8. to_decimal = [y \in Fractions |-> Body(to_decimal, y)]
  BY <1>7 DEF to_decimal, Fractions
<1>9. \A y \in Fractions : to_decimal[y] = Body(to_decimal, y)
  <2> HIDE DEF Body
  <2>. QED
    BY <1>8
<1>. QED
  BY <1>9

(* A round moves a factor of ten from the denominator to the exponent.     *)
LEMMA RoundShifts ==
  ASSUME NEW x \in Fractions, NEW a \in Nat, NEW b \in Nat \ {0}, a * b = 10, x[2] % b = 0
  PROVE  LET y == <<x[1] * a, x[2] \div b, x[3] + 1>>
         IN  /\ y \in Fractions
             /\ Shifted[<<Canonical[<<y[1], y[2]>>], y[3]>>]
                  = Shifted[<<Canonical[<<x[1], x[2]>>], x[3]>>]
<1> DEFINE n == x[1]  m == x[2]  d == m \div b  q == Canonical[<<n * a, d>>]
<1>1. n \in Nat /\ m \in Nat /\ m > 0 /\ x[3] \in Nat /\ b > 0
  BY DEF Fractions
<1>2. d \in Int /\ d * b = m
  <2>1. m \in Int /\ m % b = 0
    BY <1>1
  <2> HIDE DEF m
  <2>. QED
    BY <2>1, ExactQuotient
<1>3. d \in Nat \ {0}
  <2> HIDE DEF d, m
  <2>1. d \in Nat /\ d > 0
    BY <1>1, <1>2, PositiveFactor
  <2>. QED
    BY <2>1
<1>4. n * a \in Nat /\ <<n * a, d>> \in Quantity /\ <<n, m>> \in Quantity
  BY <1>1, <1>3 DEF Quantity
<1>5. q \in Quantity /\ q[1] * d = (n * a) * q[2]
  <2>1. q \in Quantity /\ Same(q, <<n * a, d>>)
    BY <1>4, CanonicalSame
  <2>. QED
    BY <2>1 DEF Same
<1>6. q (/) Ten = Canonical[<<n, m>>]
  <2>1. q (/) Ten = Canonical[<<q[1], q[2] * 10>>] /\ <<q[1], q[2] * 10>> \in Quantity
    BY <1>5, OverTen
  <2>2. q[1] * m = n * (q[2] * 10)
    <3>1. q[1] \in Int /\ q[2] \in Int
      BY <1>5 DEF Quantity
    <3> HIDE DEF q, d, n, m
    <3>2. q[1] * m = (q[1] * d) * b
      BY <1>1, <1>2, <1>3, <3>1
    <3>3. ((n * a) * q[2]) * b = n * (q[2] * (a * b))
      BY <1>1, <3>1
    <3>. QED
      BY <1>5, <3>2, <3>3
  <2>3. Same(<<q[1], q[2] * 10>>, <<n, m>>)
    BY <2>2 DEF Same
  <2> HIDE DEF q, n, m
  <2>. QED
    BY <2>1, <2>3, <1>4, CanonicalUnique
<1>7. Shifted[<<q, x[3] + 1>>] = Shifted[<<q (/) Ten, x[3]>>]
  <2>1. x[3] + 1 \in Nat /\ x[3] + 1 # 0 /\ (x[3] + 1) - 1 = x[3]
    BY <1>1
  <2> HIDE DEF q
  <2>. QED
    BY <2>1, <1>5, ShiftedRound
<1>. QED
  BY <1>1, <1>3, <1>4, <1>6, <1>7 DEF Fractions

(* The decimals that _to_decimal finds are read back as the fraction it    *)
(* was given.                                                              *)
LEMMA DecimalShifts ==
  ASSUME NEW x \in Fractions
  PROVE  /\ to_decimal[x] \in Fractions
         /\ Shifted[<<Canonical[<<to_decimal[x][1], to_decimal[x][2]>>], to_decimal[x][3]>>]
              = Shifted[<<Canonical[<<x[1], x[2]>>], x[3]>>]
<1> DEFINE Value(y) == Shifted[<<Canonical[<<y[1], y[2]>>], y[3]>>]
           Good(y) == to_decimal[y] \in Fractions /\ Value(to_decimal[y]) = Value(y)
           S == {y[2] : y \in {z \in Fractions : ~Good(z)}}
<1>1. SUFFICES S = {}
  <2> HIDE DEF Good
  <2>1. Good(x)
    BY <1>1
  <2>. QED
    BY <2>1 DEF Good
<1> SUFFICES ASSUME S # {} PROVE FALSE
  OBVIOUS
<1>2. PICK m \in S : \A n \in S : m <= n
  <2>1. S \in SUBSET Nat
    <3> HIDE DEF Good
    <3>. QED
      BY DEF Fractions
  <2> HIDE DEF S
  <2>. QED
    BY <2>1, Least
<1>3. PICK y \in Fractions : y[2] = m /\ ~Good(y)
  <2> HIDE DEF Good
  <2>. QED
    BY <1>2
<1>4. y[2] \in Nat /\ y[2] > 0
  BY DEF Fractions
<1>5. ASSUME NEW a \in {2, 5}, NEW b \in {2, 5}, a * b = 10, y[2] % b = 0,
             to_decimal[y] = to_decimal[<<y[1] * a, y[2] \div b, y[3] + 1>>]
      PROVE  FALSE
  <2> DEFINE z == <<y[1] * a, y[2] \div b, y[3] + 1>>
  <2>1. z \in Fractions /\ Value(z) = Value(y)
    BY <1>5, RoundShifts
  <2>2. z[2] < y[2]
    BY <1>4, <1>5
  <2>3. z[2] \notin S
    <3>1. z[2] \in Nat /\ m = y[2]
      BY <1>3, <2>1 DEF Fractions
    <3> HIDE DEF S, z
    <3>. QED
      BY <1>2, <1>4, <2>2, <3>1
  <2>4. Good(z)
    <3> HIDE DEF z, Good
    <3>. QED
      BY <2>1, <2>3
  <2>5. Good(y)
    <3> HIDE DEF Value
    <3>. QED
      BY <1>5, <2>1, <2>4
  <2>. QED
    BY <1>3, <2>5
<1>6. CASE y[2] % 5 = 0
  <2>1. to_decimal[y] = to_decimal[<<y[1] * 2, y[2] \div 5, y[3] + 1>>]
    BY <1>6, DecimalRound
  <2>. QED
    BY <1>5, <1>6, <2>1
<1>7. CASE y[2] % 5 # 0 /\ y[2] % 2 = 0
  <2>1. to_decimal[y] = to_decimal[<<y[1] * 5, y[2] \div 2, y[3] + 1>>]
    BY <1>7, DecimalRound
  <2>. QED
    BY <1>5, <1>7, <2>1
<1>8. CASE y[2] % 5 # 0 /\ y[2] % 2 # 0
  <2>1. to_decimal[y] = y
    BY <1>8, DecimalRound
  <2>. QED
    BY <1>3, <2>1
<1>. QED
  BY <1>6, <1>7, <1>8

(* A number and its opposite are in lowest terms together.                 *)
LEMMA ReducedOpposite ==
  ASSUME NEW q \in Quantity, Reduced(q)
  PROVE  Reduced(<<-q[1], q[2]>>) /\ Reduced(<<Abs(q[1]), q[2]>>)
<1>1. q = <<q[1], q[2]>> /\ q[1] \in Int /\ q[2] \in Int /\ q[2] > 0
  BY DEF Quantity
<1> DEFINE r == <<-q[1], q[2]>>  c == Canonical[r]  o == <<-c[1], c[2]>>
<1>2. r \in Quantity /\ r[1] = -q[1] /\ r[2] = q[2]
  BY <1>1 DEF Quantity
<1>3. c \in Quantity /\ Same(c, r) /\ c[1] \in Int /\ c[2] \in Int /\ c[2] > 0
  BY <1>2, CanonicalSame DEF Quantity
<1>4. o \in Quantity /\ o[1] = -c[1] /\ o[2] = c[2]
  BY <1>3 DEF Quantity
<1>5. c[1] * q[2] = (-q[1]) * c[2]
  BY <1>2, <1>3 DEF Same
<1>6. Canonical[o] = q
  <2>1. (-c[1]) * q[2] = q[1] * c[2]
    <3> HIDE DEF c
    <3>. QED
      BY <1>1, <1>3, <1>5
  <2>2. Same(o, q)
    BY <1>4, <2>1 DEF Same
  <2> HIDE DEF o
  <2>. QED
    BY <2>2, <1>4, CanonicalUnique DEF Reduced
<1>7. PICK g \in Nat \ {0} : q[2] * g = c[2]
  <2> HIDE DEF o, c
  <2>. QED
    BY <1>4, <1>6, CanonicalForm
<1>8. PICK h \in Nat \ {0} : c[2] * h = q[2]
  <2> HIDE DEF r
  <2>. QED
    BY <1>2, CanonicalForm
<1> HIDE DEF c
<1>9. c[2] = q[2]
  <2>1. c[2] <= q[2]
    <3>1. q[2] * 1 <= q[2] * g
      BY <1>1
    <3>2. c[2] * 1 <= c[2] * h
      BY <1>3
    <3>. QED
      BY <1>3, <1>8, <3>2
  <2>2. q[2] <= c[2]
    <3>1. q[2] * 1 <= q[2] * g
      BY <1>1
    <3>. QED
      BY <1>1, <1>7, <3>1
  <2>. QED
    BY <1>1, <1>3, <2>1, <2>2
<1>10. c[1] = -q[1]
  <2>1. c[1] * q[2] = (-q[1]) * q[2] /\ -q[1] \in Int
    BY <1>1, <1>5, <1>9
  <2>. QED
    BY <1>1, <1>3, <2>1, TimesOrder
<1>11. c = r
  BY <1>1, <1>3, <1>9, <1>10 DEF Quantity
<1>12. Reduced(r)
  BY <1>2, <1>11 DEF Reduced, c
<1>. QED
  BY <1>1, <1>12 DEF Abs

(* An integer is in lowest terms.                                          *)
LEMMA ReducedInteger ==
  ASSUME NEW n \in Int
  PROVE  <<n, 1>> \in Quantity /\ Canonical[<<n, 1>>] = <<n, 1>>
<1> DEFINE f == <<n, 1>>  c == Canonical[f]
<1>1. f \in Quantity
  BY DEF Quantity
<1>2. PICK g \in Nat \ {0} : c[1] * g = n /\ c[2] * g = 1
  BY <1>1, CanonicalForm
<1>3. c \in Quantity
  BY <1>1, CanonicalForm
<1> HIDE DEF c
<1>4. c[1] \in Int /\ c[2] \in Nat \ {0} /\ c = <<c[1], c[2]>>
  BY <1>3 DEF Quantity
<1>5. g = 1
  <2>1. 1 * g <= c[2] * g
    BY <1>4
  <2>. QED
    BY <1>2, <2>1
<1>6. c[1] = n /\ c[2] = 1
  BY <1>2, <1>4, <1>5
<1>. QED
  BY <1>1, <1>4, <1>6 DEF c

(* What is written of a number is read back as that number: with decimals  *)
(* or as a fraction, padded or not, negative or not.                       *)
LEMMA ReadBack ==
  ASSUME NEW q \in Quantity, Reduced(q)
  PROVE  string_to_bq(bq_to_string(q)) = q
<1> DEFINE n == Abs(q[1])  m == q[2]  w == n \div m  r == n % m
<1>1. q = <<q[1], m>> /\ q[1] \in Int /\ n \in Nat /\ m \in Nat /\ m > 0
  BY DEF Quantity, Abs
<1>2. w \in Nat /\ r \in Nat /\ n = w * m + r
  <2> HIDE DEF n, m
  <2>1. w \in Int /\ r \in Nat /\ r < m /\ n = w * m + r
    BY <1>1
  <2>2. w >= 0
    <3> HIDE DEF w, r
    <3>1. w <= -1 => w * m <= (-1) * m
      BY <1>1, <2>1, TimesOrder
    <3>. QED
      BY <1>1, <2>1, <3>1
  <2>. QED
    BY <2>1, <2>2
<1>3. <<n, m>> \in Quantity /\ Canonical[<<n, m>>] = <<n, m>>
  BY ReducedOpposite DEF Reduced
<1>4. <<r, m>> \in Quantity /\ <<w, 1>> \in Quantity
  <2> HIDE DEF r, w, m
  <2>. QED
    BY <1>1, <1>2 DEF Quantity
<1>5. ASSUME NEW p \in Quantity, Same(p, <<r, m>>) PROVE <<w, 1>> (+) p = <<n, m>>
  <2>1. p[1] \in Int /\ p[2] \in Int /\ p[1] * m = r * p[2]
    BY <1>5 DEF Same, Quantity
  <2> HIDE DEF n, m, w, r
  <2>2. Added(<<w, 1>>, p) = <<w * p[2] + p[1], p[2]>>
    BY <1>2, <2>1 DEF Added
  <2>3. (w * p[2] + p[1]) * m = n * p[2]
    <3>1. (w * p[2] + p[1]) * m = (w * m) * p[2] + p[1] * m
      BY <1>1, <1>2, <2>1
    <3>2. (w * m + r) * p[2] = (w * m) * p[2] + r * p[2]
      BY <1>1, <1>2, <2>1
    <3>. QED
      BY <1>2, <2>1, <3>1, <3>2
  <2>4. Same(Added(<<w, 1>>, p), <<n, m>>)
    BY <2>2, <2>3 DEF Same
  <2>. QED
    BY <2>4, <1>3, <1>4, Operations, CanonicalUnique
<1>6. ASSUME NEW t, t.neg = (q[1] < 0) PROVE Signed(t, <<n, m>>) = q
  <2>1. CASE q[1] < 0
    <3>1. n = -q[1] /\ -n = q[1]
      BY <1>1, <2>1 DEF Abs
    <3>2. Signed(t, <<n, m>>) = <<-n, m>>
      BY <1>6, <2>1 DEF Signed
    <3> HIDE DEF n, m
    <3>. QED
      BY <1>1, <3>1, <3>2
  <2>2. CASE ~(q[1] < 0)
    <3>1. n = q[1]
      BY <2>2 DEF Abs
    <3>2. Signed(t, <<n, m>>) = <<n, m>>
      BY <1>6, <2>2 DEF Signed
    <3> HIDE DEF n, m
    <3>. QED
      BY <1>1, <3>1, <3>2
  <2>. QED
    BY <2>1, <2>2
<1> DEFINE text(kind, a, b, e) ==
             [neg |-> q[1] < 0, whole |-> w, kind |-> kind, num |-> a, den |-> b, width |-> e]
           d == to_decimal[<<r, IF r = 0 THEN 1 ELSE m, 0>>]
<1>7. CASE r = 0
  <2> DEFINE t == text("integer", 0, 1, 0)
  <2>1. bq_to_string(q) = t
    BY <1>7 DEF bq_to_string
  <2>2. string_to_bq(t) = Signed(t, <<w, 1>> (+) Zero)
    BY DEF string_to_bq
  <2>3. Zero \in Quantity /\ Same(Zero, <<r, m>>)
    BY <1>1, <1>7 DEF Zero, Quantity, Same
  <2>4. t.neg = (q[1] < 0)
    OBVIOUS
  <2> HIDE DEF t, n, m, w, r
  <2>. QED
    BY <2>1, <2>2, <2>3, <2>4, <1>5, <1>6
<1>8. CASE r # 0 /\ d[2] = 1
  <2> DEFINE t == text("decimal", d[1], 1, d[3])
  <2>1. bq_to_string(q) = t
    BY <1>8 DEF bq_to_string
  <2>2. string_to_bq(t) = Signed(t, <<w, 1>> (+) Shifted[<<<<d[1], 1>>, d[3]>>])
    BY DEF string_to_bq
  <2>3. <<r, m, 0>> \in Fractions /\ d = to_decimal[<<r, m, 0>>]
    <3>1. r \in Nat /\ m \in Nat \ {0} /\ r # 0
      BY <1>1, <1>2, <1>8
    <3> HIDE DEF r, m
    <3>2. <<r, m, 0>> \in Fractions
      BY <3>1 DEF Fractions
    <3>3. (IF r = 0 THEN 1 ELSE m) = m
      BY <3>1
    <3>. QED
      BY <3>2, <3>3
  <2>4. /\ d \in Fractions
        /\ Shifted[<<Canonical[<<d[1], d[2]>>], d[3]>>] = Shifted[<<Canonical[<<r, m>>], 0>>]
    <3> HIDE DEF d, r, m
    <3>. QED
      BY <2>3, DecimalShifts
  <2>5. Canonical[<<d[1], d[2]>>] = <<d[1], 1>>
    <3> HIDE DEF d
    <3>1. d[1] \in Int /\ d[2] = 1
      BY <1>8, <2>4 DEF Fractions
    <3>. QED
      BY <3>1, ReducedInteger
  <2>6. Canonical[<<r, m>>] \in Quantity /\ Same(Canonical[<<r, m>>], <<r, m>>)
    BY <1>4, CanonicalSame
  <2>7. Shifted[<<Canonical[<<r, m>>], 0>>] = Canonical[<<r, m>>]
    BY <2>6, ShiftedRound
  <2>8. t.neg = (q[1] < 0)
    OBVIOUS
  <2> HIDE DEF t, d, n, m, w, r
  <2>. QED
    BY <2>1, <2>2, <2>4, <2>5, <2>6, <2>7, <2>8, <1>5, <1>6
<1>9. CASE r # 0 /\ d[2] # 1
  <2> DEFINE t == text("fraction", r, m, 0)
  <2>1. bq_to_string(q) = t
    BY <1>9 DEF bq_to_string
  <2>2. string_to_bq(t) = Signed(t, <<w, 1>> (+) Canonical[<<r, m>>])
    BY DEF string_to_bq
  <2>3. Canonical[<<r, m>>] \in Quantity /\ Same(Canonical[<<r, m>>], <<r, m>>)
    BY <1>4, CanonicalSame
  <2>4. t.neg = (q[1] < 0)
    OBVIOUS
  <2> HIDE DEF t, d, n, m, w, r
  <2>. QED
    BY <2>1, <2>2, <2>3, <2>4, <1>5, <1>6
<1>. QED
  BY <1>7, <1>8, <1>9

(* The inductive invariant of the texts: what they amount to is in lowest  *)
(* terms, and a bid without padding has no quotes.                         *)
TextInv ==
  /\ Reduced(exact) /\ string_to_bq(balance) = exact
  /\ ~padded => ~bid.quoted /\ Reduced(offered) /\ string_to_bq(bid.text) = offered

(* Balances, and bids without padding, are read back as they are, for any  *)
(* amounts and after any number of credits, debits and fills.              *)
THEOREM QuantitiesReadBack == TextSpec => []QuantitiesKept
<1>1. TextInit => TextInv
  <2>1. Reduced(Zero)
    BY ReducedInteger, ReducedResults DEF Zero
  <2>2. string_to_bq(bq_to_string(Zero)) = Zero
    BY <2>1, ReadBack DEF Reduced
  <2>3. bq_to_string(Zero).kind = "integer"
    BY DEF bq_to_string, Zero, Abs
  <2>4. /\ value_to_string(Zero).text = bq_to_string(Zero)
        /\ ~value_to_string(Zero).quoted
    BY <2>3 DEF value_to_string, HasSpace
  <2>. QED
    BY <2>1, <2>2, <2>4 DEF TextInit, TextInv
<1>2. TextInv /\ [TextNext]_textVars => TextInv'
  <2> SUFFICES ASSUME TextInv, [TextNext]_textVars PROVE TextInv'
    OBVIOUS
  <2>1. CASE UNCHANGED textVars
    BY <2>1 DEF TextInv, textVars
  <2>2. ASSUME NEW q \in Amounts, Credit(q) \/ Debit(q) PROVE TextInv'
    <3>1. q \in Quantity /\ exact \in Quantity
      BY AmountAssumption DEF TextInv, Reduced
    <3>2. \/ exact' = exact (+) q /\ balance' = bq_to_string(exact (+) q)
          \/ exact' = exact (-) q /\ balance' = bq_to_string(exact (-) q)
      BY <2>2 DEF Credit, Debit, SetBalance, TextInv
    <3>3. Reduced(exact') /\ balance' = bq_to_string(exact')
      BY <3>1, <3>2, ReducedResults
    <3>4. string_to_bq(balance') = exact'
      BY <3>3, ReadBack DEF Reduced
    <3>. QED
      BY <2>2, <3>3, <3>4 DEF Credit, Debit, SetBalance, TextInv
  <2>3. ASSUME NEW q \in Quantity, Reduced(q), bid' = value_to_string(q), offered' = q,
               bid'.quoted => padded', UNCHANGED <<balance, exact>>
        PROVE  TextInv'
    <3>1. string_to_bq(bq_to_string(q)) = q
      BY <2>3, ReadBack
    <3>2. bid'.text = bq_to_string(q)
      BY <2>3 DEF value_to_string
    <3>. QED
      BY <2>3, <3>1, <3>2 DEF TextInv
  <2>4. ASSUME NEW q \in Amounts, OfferCreate(q) PROVE TextInv'
    <3>1. q \in Quantity /\ Reduced(q)
      BY AmountAssumption DEF Reduced
    <3>. QED
      BY <2>3, <2>4, <3>1 DEF OfferCreate
  <2>5. ASSUME NEW q \in Amounts, Fill(q) PROVE TextInv'
    <3>1. CASE padded'
      BY <2>5, <3>1 DEF Fill, TextInv
    <3>2. CASE ~padded'
      <4>1. ~padded /\ offered \in Quantity /\ q \in Quantity
        BY <2>5, <3>2, AmountAssumption DEF Fill, TextInv, Reduced
      <4>2. string_to_value(bid) = offered
        BY <4>1 DEF TextInv, string_to_value
      <4>3. Reduced(offered (-) q) /\ offered (-) q \in Quantity
        BY <4>1, ReducedResults DEF Reduced
      <4>. QED
        BY <2>3, <2>5, <4>2, <4>3 DEF Fill
    <3>. QED
      BY <3>1, <3>2
  <2>. QED
    BY <2>1, <2>2, <2>4, <2>5 DEF TextNext
<1>3. TextInv => QuantitiesKept
  BY DEF TextInv, QuantitiesKept, string_to_value
<1>. QED
  BY <1>1, <1>2, <1>3, PTL DEF TextSpec

-----------------------------------------------------------------------------
(* Commands as lines                                                       *)

(* Characters that are neither a line feed nor left as a control character.*)
Plain == Char \ {LF, SOH}

(* What is computed step by step: joining a sequence of sequences.         *)
LEMMA Joined ==
  ASSUME NEW X, NEW seqs \in Seq(Seq(X))
  PROVE  \E f \in [0..Len(seqs) -> Seq(X)] :
           /\ f[0] = <<>>
           /\ \A i \in 1..Len(seqs) : f[i] = f[i - 1] \o seqs[i]
           /\ Sq!FlattenSeq(seqs) = f[Len(seqs)]
<1> DEFINE n == Len(seqs)
           Upto(m, f) == /\ f \in [0..m -> Seq(X)]
                         /\ f[0] = <<>>
                         /\ \A i \in 1..m : f[i] = f[i - 1] \o seqs[i]
           Missing == {m \in 0..n : ~\E f : Upto(m, f)}
<1>0. n \in Nat /\ \A i \in 1..n : seqs[i] \in Seq(X)
  OBVIOUS
<1>1. Missing = {}
  <2> SUFFICES ASSUME Missing # {} PROVE FALSE
    OBVIOUS
  <2>1. PICK m \in Missing : \A i \in Missing : m <= i
    <3>1. Missing \in SUBSET Nat
      <4>1. 0..n \in SUBSET Nat
        BY <1>0
      <4>. QED
        BY <4>1
    <3> HIDE DEF Missing
    <3>. QED
      BY <3>1, Least
  <2>2. CASE m = 0
    <3>1. Upto(0, [i \in 0..0 |-> <<>>])
      OBVIOUS
    <3>. QED
      BY <2>2, <3>1
  <2>3. CASE m # 0
    <3>0. m \in 0..n /\ ~\E f : Upto(m, f)
      OBVIOUS
    <3>1. m \in 1..n /\ m - 1 \in 0..n /\ m - 1 \notin Missing
      <4> HIDE DEF Missing, n
      <4>. QED
        BY <1>0, <2>1, <2>3, <3>0
    <3>2. PICK f : Upto(m - 1, f)
      BY <3>1
    <3> DEFINE g == [i \in 0..m |-> IF i = m THEN f[m - 1] \o seqs[m] ELSE f[i]]
    <3>3. /\ f \in [0..(m - 1) -> Seq(X)] /\ f[0] = <<>>
          /\ \A i \in 1..(m - 1) : f[i] = f[i - 1] \o seqs[i]
      BY <3>2
    <3>4. g \in [0..m -> Seq(X)]
      <4>1. seqs[m] \in Seq(X) /\ f[m - 1] \in Seq(X) /\ m \in Nat
        BY <1>0, <3>1, <3>3
      <4>2. f[m - 1] \o seqs[m] \in Seq(X)
        BY <4>1
      <4>3. \A i \in 0..m : i # m => f[i] \in Seq(X)
        BY <3>3, <4>1
      <4>. QED
        BY <4>2, <4>3
    <3>5. ASSUME NEW i \in 1..m PROVE g[i] = g[i - 1] \o seqs[i]
      <4>0. m \in Nat /\ i - 1 \in 0..m /\ i \in 0..m /\ i - 1 # m
        BY <1>0, <3>1
      <4>1. g[i - 1] = f[i - 1]
        BY <4>0
      <4>2. CASE i = m
        BY <4>0, <4>1, <4>2
      <4>3. CASE i # m
        <5>1. g[i] = f[i] /\ i \in 1..(m - 1)
          BY <4>0, <4>3
        <5>. QED
          BY <3>3, <4>1, <5>1
      <4>. QED
        BY <4>2, <4>3
    <3>6. g[0] = <<>>
      BY <1>0, <3>1, <3>3
    <3>7. Upto(m, g)
      <4> HIDE DEF g, n
      <4>. QED
        BY <3>4, <3>5, <3>6
    <3>. QED
      <4> HIDE DEF g, Upto
      <4>. QED
        BY <3>0, <3>7
  <2>. QED
    BY <2>2, <2>3
<1>2. PICK f : Upto(n, f)
  <2>1. n \in 0..n /\ n \notin Missing
    <3> HIDE DEF Missing, n
    <3>. QED
      BY <1>0, <1>1
  <2> HIDE DEF Upto
  <2>. QED
    BY <2>1
<1>3. Sq!FlattenSeq(seqs) = f[n]
  <2>1. CASE n = 0
    BY <1>2, <2>1 DEF Sq!FlattenSeq
  <2>2. CASE n # 0
    <3> DEFINE Is(h) == h = [i \in 1..n |-> IF i = 1 THEN seqs[i] ELSE h[i - 1] \o seqs[i]]
               h == CHOOSE h : Is(h)
    <3>0. 1 \in 1..n /\ f[0] = <<>> /\ \A i \in 1..n : f[i] = f[i - 1] \o seqs[i]
      <4>1. 1 \in 1..n
        <5> HIDE DEF n
        <5>. QED
          BY <1>0, <2>2
      <4>. QED
        BY <1>2, <4>1
    <3>1. f[1] = seqs[1]
      <4>1. f[1] = f[0] \o seqs[1] /\ seqs[1] \in Seq(X)
        <5> HIDE DEF n
        <5>1. f[1] = f[1 - 1] \o seqs[1] /\ seqs[1] \in Seq(X)
          BY <1>0, <3>0, Zenon
        <5>2. 1 - 1 = 0
          OBVIOUS
        <5>. QED
          BY <5>1, <5>2
      <4>2. <<>> \o seqs[1] = seqs[1]
        BY <4>1
      <4>. QED
        BY <3>0, <4>1, <4>2
    <3>2. Is([i \in 1..n |-> f[i]])
      <4> DEFINE e == [i \in 1..n |-> f[i]]
      <4>1. ASSUME NEW i \in 1..n, i # 1 PROVE e[i] = e[i - 1] \o seqs[i]
        <5>1. i - 1 \in 1..n
          BY <1>0, <4>1
        <5>2. e[i] = f[i] /\ e[i - 1] = f[i - 1]
          BY <5>1
        <5>. QED
          BY <3>0, <5>2
      <4>2. e[1] = seqs[1] /\ \A i \in 1..n : e[i] = f[i]
        BY <3>0, <3>1
      <4>3. \A i \in 1..n : f[i] = IF i = 1 THEN seqs[i] ELSE e[i - 1] \o seqs[i]
        <5> HIDE DEF e, n
        <5>. QED
          BY <4>1, <4>2
      <4>4. e = [i \in 1..n |-> IF i = 1 THEN seqs[i] ELSE e[i - 1] \o seqs[i]]
        BY <4>3
      <4>. QED
        BY <4>4
    <3>3. Is(h)
      <4> HIDE DEF Is
      <4>. QED
        BY <3>2
    <3>4. Sq!FlattenSeq(seqs) = h[n]
      BY <2>2 DEF Sq!FlattenSeq
    <3> DEFINE Off == {i \in 1..n : h[i] # f[i]}
    <3>5. Off = {}
      <4> HIDE DEF h
      <4> SUFFICES ASSUME Off # {} PROVE FALSE
        OBVIOUS
      <4>1. PICK m \in Off : \A i \in Off : m <= i
        <5>1. Off \in SUBSET Nat
          OBVIOUS
        <5> HIDE DEF Off
        <5>. QED
          BY <5>1, Least
      <4>2. CASE m = 1
        BY <3>1, <3>3, <4>1, <4>2
      <4>3. CASE m # 1
        <5>1. m - 1 \in 1..n /\ m - 1 \notin Off
          BY <1>0, <4>1, <4>3
        <5>2. h[m] = h[m - 1] \o seqs[m]
          BY <3>3, <4>1, <4>3
        <5>. QED
          BY <1>2, <4>1, <5>1, <5>2
      <4>. QED
        BY <4>2, <4>3
    <3> HIDE DEF h
    <3>. QED
      BY <1>0, <2>2, <3>4, <3>5
  <2>. QED
    BY <2>1, <2>2
<1>. QED
  BY <1>2, <1>3

(* Reading the characters of w, the decoder goes from s to t.              *)
Runs(s, w, r)  == r[0] = s /\ \A i \in 1..Len(w) : r[i] = Decode(r[i - 1], w[i])
Leads(s, w, t) == \E r : Runs(s, w, r) /\ r[Len(w)] = t

(* The decoder reads one text after the other.                             *)
LEMMA ReadOn ==
  ASSUME NEW X, NEW v \in Seq(X), NEW w \in Seq(X), NEW s, NEW t, NEW u,
         Leads(s, v, t), Leads(t, w, u)
  PROVE  Leads(s, v \o w, u)
<1>1. PICK p : Runs(s, v, p) /\ p[Len(v)] = t
  BY DEF Leads
<1>2. PICK q : Runs(t, w, q) /\ q[Len(w)] = u
  BY DEF Leads
<1> DEFINE m == Len(v)
           n == Len(w)
           r == [i \in 0..(m + n) |-> IF i <= m THEN p[i] ELSE q[i - m]]
<1>3. m \in Nat /\ n \in Nat /\ Len(v \o w) = m + n
  OBVIOUS
<1>4. ASSUME NEW i \in 1..(m + n) PROVE r[i] = Decode(r[i - 1], (v \o w)[i])
  <2>1. CASE i <= m
    <3>1. (v \o w)[i] = v[i] /\ r[i] = p[i] /\ r[i - 1] = p[i - 1]
      BY <1>3, <2>1
    <3>. QED
      BY <1>1, <1>3, <2>1, <3>1 DEF Runs
  <2>2. CASE i > m
    <3>1. (v \o w)[i] = w[i - m] /\ r[i] = q[i - m] /\ i - m \in 1..n
      BY <1>3, <2>2
    <3>2. q[i - m] = Decode(q[i - m - 1], w[i - m])
      BY <1>2, <3>1 DEF Runs
    <3>3. r[i - 1] = q[i - m - 1]
      <4>1. CASE i - 1 = m
        BY <1>1, <1>2, <1>3, <4>1 DEF Runs
      <4>2. CASE i - 1 # m
        <5>1. i - 1 \in 0..(m + n) /\ ~(i - 1 <= m) /\ (i - 1) - m = i - m - 1
          BY <1>3, <2>2, <4>2
        <5>. QED
          BY <5>1
      <4>. QED
        BY <4>1, <4>2
    <3>. QED
      BY <3>1, <3>2, <3>3
  <2>. QED
    BY <1>3, <2>1, <2>2
<1>5. r[0] = s
  BY <1>1, <1>3 DEF Runs
<1>6. r[m + n] = u
  <2>1. CASE n = 0
    BY <1>1, <1>2, <1>3, <2>1 DEF Runs
  <2>2. CASE n # 0
    BY <1>2, <1>3, <2>2
  <2>. QED
    BY <2>1, <2>2
<1> HIDE DEF r
<1>. QED
  BY <1>3, <1>4, <1>5, <1>6 DEF Leads, Runs

(* The decoder reads one character.                                        *)
LEMMA ReadOne ==
  ASSUME NEW s, NEW c
  PROVE  Leads(s, <<c>>, Decode(s, c))
<1> DEFINE r == [i \in 0..1 |-> IF i = 0 THEN s ELSE Decode(s, c)]
<1>1. Runs(s, <<c>>, r) /\ r[Len(<<c>>)] = Decode(s, c)
  BY DEF Runs
<1>. QED
  BY <1>1 DEF Leads

(* decode_string is the decoder, read out where it ends.                   *)
LEMMA DecodedByRun ==
  ASSUME NEW X, NEW w \in Seq(X), NEW t, Leads(Decoder, w, t)
  PROVE  decode_string(w) = ReadOut(t)
<1> DEFINE n == Len(w)
           Is(h) == h = [i \in 0..n |-> IF i = 0 THEN Decoder ELSE Decode(h[i - 1], w[i])]
           h == CHOOSE h : Is(h)
<1>1. PICK r : Runs(Decoder, w, r) /\ r[n] = t
  BY DEF Leads
<1>2. n \in Nat
  OBVIOUS
<1>3. Is([i \in 0..n |-> r[i]])
  BY <1>1, <1>2 DEF Runs
<1>4. Is(h)
  <2> HIDE DEF Is
  <2>. QED
    BY <1>3
<1>5. h[n] = t
  <2> HIDE DEF h
  <2> DEFINE Off == {i \in 0..n : h[i] # r[i]}
  <2>1. Off = {}
    <3> SUFFICES ASSUME Off # {} PROVE FALSE
      OBVIOUS
    <3>1. PICK m \in Off : \A i \in Off : m <= i
      <4>1. Off \in SUBSET Nat
        OBVIOUS
      <4> HIDE DEF Off
      <4>. QED
        BY <4>1, Least
    <3>2. CASE m = 0
      BY <1>1, <1>2, <1>4, <3>1, <3>2 DEF Runs
    <3>3. CASE m # 0
      <4>1. m \in 1..n /\ m - 1 \in 0..n /\ m - 1 \notin Off
        BY <1>2, <3>1, <3>3
      <4>2. h[m] = Decode(h[m - 1], w[m])
        BY <1>4, <4>1
      <4>3. r[m] = Decode(r[m - 1], w[m])
        BY <1>1, <4>1 DEF Runs
      <4>. QED
        BY <3>1, <4>1, <4>2, <4>3
    <3>. QED
      BY <3>2, <3>3
  <2>. QED
    BY <1>1, <1>2, <2>1
<1>6. decode_string(w) = ReadOut(h[n])
  BY DEF decode_string
<1> HIDE DEF h
<1>. QED
  BY <1>5, <1>6

(* The decoder reads two characters.                                       *)
LEMMA ReadTwo ==
  ASSUME NEW s, NEW b, NEW c
  PROVE  Leads(s, <<b, c>>, Decode(Decode(s, b), c))
<1> DEFINE r == [i \in 0..2 |-> CASE i = 0 -> s [] i = 1 -> Decode(s, b)
                                  [] OTHER -> Decode(Decode(s, b), c)]
<1>1. r[0] = s /\ r[1] = Decode(s, b) /\ r[2] = Decode(Decode(s, b), c)
  OBVIOUS
<1> HIDE DEF r
<1>2. Runs(s, <<b, c>>, r)
  BY <1>1 DEF Runs
<1>. QED
  BY <1>1, <1>2 DEF Leads

(* The decoder reads four characters.                                      *)
LEMMA ReadFour ==
  ASSUME NEW s, NEW b, NEW c, NEW d, NEW e
  PROVE  Leads(s, <<b, c, d, e>>, Decode(Decode(Decode(Decode(s, b), c), d), e))
<1> DEFINE w == <<b, c, d, e>>
           r == [i \in 0..4 |-> CASE i = 0 -> s [] i = 1 -> Decode(s, b)
                                  [] i = 2 -> Decode(Decode(s, b), c)
                                  [] i = 3 -> Decode(Decode(Decode(s, b), c), d)
                                  [] OTHER -> Decode(Decode(Decode(Decode(s, b), c), d), e)]
<1>1. /\ r[0] = s /\ r[1] = Decode(r[0], b) /\ r[2] = Decode(r[1], c)
      /\ r[3] = Decode(r[2], d) /\ r[4] = Decode(r[3], e)
      /\ r[4] = Decode(Decode(Decode(Decode(s, b), c), d), e)
  OBVIOUS
<1>2. Len(w) = 4 /\ w[1] = b /\ w[2] = c /\ w[3] = d /\ w[4] = e
  OBVIOUS
<1> HIDE DEF r, w
<1>3. \A i \in 1..4 : r[i] = Decode(r[i - 1], w[i])
  <2>1. 1 - 1 = 0 /\ 2 - 1 = 1 /\ 3 - 1 = 2 /\ 4 - 1 = 3
    OBVIOUS
  <2>. QED
    BY <1>1, <1>2, <2>1
<1>4. Runs(s, w, r)
  BY <1>1, <1>2, <1>3 DEF Runs
<1>. QED
  BY <1>1, <1>2, <1>4 DEF Leads, w

(* The decoder in a given place, with these arguments behind it and this   *)
(* part of the next one.                                                   *)
In(at, args, arg, digits) ==
  [at |-> at, args |-> args, arg |-> arg, digits |-> digits]

(* What the steps of the decoder are made of, in these terms.              *)
LEMMA StateChanges ==
  ASSUME NEW a, NEW args, NEW arg, NEW d
  PROVE  /\ \A b : Goto(In(a, args, arg, d), b) = In(b, args, arg, d)
         /\ \A c : Add(In(a, args, arg, d), c) = In("quoted", args, Append(arg, c), d)
         /\ EndArg(In(a, args, arg, d)) = In("gap", Append(args, arg), <<>>, d)
<1> DEFINE s == In(a, args, arg, d)
<1>1. ASSUME NEW b PROVE Goto(s, b) = In(b, args, arg, d)
  BY DEF Goto, In
<1>2. ASSUME NEW c PROVE Add(s, c) = In("quoted", args, Append(arg, c), d)
  <2>1. ASSUME NEW x PROVE [s EXCEPT !.arg = x, !.at = "quoted"] = In("quoted", args, x, d)
    <3>1. [s EXCEPT !.arg = x] = In(a, args, x, d)
      BY DEF In
    <3>2. [In(a, args, x, d) EXCEPT !.at = "quoted"] = In("quoted", args, x, d)
      BY DEF In
    <3>3. [s EXCEPT !.arg = x, !.at = "quoted"] = [[s EXCEPT !.arg = x] EXCEPT !.at = "quoted"]
      OBVIOUS
    <3>. QED
      BY <3>1, <3>2, <3>3
  <2>2. s.arg = arg
    BY DEF In
  <2> HIDE DEF s
  <2>. QED
    BY <2>1, <2>2 DEF Add
<1>3. EndArg(s) = In("gap", Append(args, arg), <<>>, d)
  <2>1. ASSUME NEW x PROVE [s EXCEPT !.args = x, !.arg = <<>>, !.at = "gap"] = In("gap", x, <<>>, d)
    <3>1. [s EXCEPT !.args = x] = In(a, x, arg, d)
      BY DEF In
    <3>2. [In(a, x, arg, d) EXCEPT !.arg = <<>>] = In(a, x, <<>>, d)
      BY DEF In
    <3>3. [In(a, x, <<>>, d) EXCEPT !.at = "gap"] = In("gap", x, <<>>, d)
      BY DEF In
    <3>4. [s EXCEPT !.args = x, !.arg = <<>>, !.at = "gap"] =
            [[[s EXCEPT !.args = x] EXCEPT !.arg = <<>>] EXCEPT !.at = "gap"]
      OBVIOUS
    <3>. QED
      BY <3>1, <3>2, <3>3, <3>4
  <2>2. s.arg = arg /\ s.args = args
    BY DEF In
  <2> HIDE DEF s
  <2>. QED
    BY <2>1, <2>2 DEF EndArg
<1>. QED
  BY <1>1, <1>2, <1>3

(* Between quotes, the decoder takes an escape back to what it stands for. *)
LEMMA EscapeRead ==
  ASSUME NEW args, NEW arg \in Seq(Char), NEW c \in Char, NEW d
  PROVE  /\ Escape(c) \in Seq(Plain)
         /\ \E e : Leads(In("quoted", args, arg, d), Escape(c),
                         In("quoted", args, Append(arg, c), e))
<1> DEFINE s == In("quoted", args, arg, d)
<1>1. CASE c = LF
  <2>1. Escape(c) = <<Slash, "n">>
    BY <1>1 DEF Escape, LF, SOH, Quote, Slash
  <2>2. Decode(s, Slash) = In("escape", args, arg, d)
    <3>1. Decode(s, Slash) = Goto(s, "escape")
      BY DEF In, Decode, InQuotes, Slash, Quote, Control, LF, SOH, CR
    <3>. QED
      BY <3>1, StateChanges
  <2>3. Decode(In("escape", args, arg, d), "n") = In("quoted", args, Append(arg, LF), d)
    <3>1. Decode(In("escape", args, arg, d), "n") = Add(In("escape", args, arg, d), LF)
      BY DEF In, Decode, AfterSlash, Slash, Quote, Digit
    <3>. QED
      BY <3>1, StateChanges
  <2>4. Leads(s, <<Slash, "n">>, In("quoted", args, Append(arg, LF), d))
    BY <2>2, <2>3, ReadTwo
  <2>5. Slash \in Plain /\ "n" \in Plain
    BY DEF Plain, Char, Letter, Slash, LF, SOH
  <2>. QED
    BY <1>1, <2>1, <2>4, <2>5
<1>2. CASE c = SOH
  <2> DEFINE s1 == In("escape", args, arg, d)
             s2 == In("hex", args, arg, <<>>)
             s3 == In("hex", args, arg, <<"0">>)
             s4 == In("quoted", args, Append(arg, SOH), <<"0">>)
  <2>1. Escape(c) = <<Slash, "x", "0", "1">>
    BY <1>2 DEF Escape, LF, SOH, Quote, Slash
  <2>2. Decode(s, Slash) = s1
    <3>1. Decode(s, Slash) = Goto(s, "escape")
      BY DEF In, Decode, InQuotes, Slash, Quote, Control, LF, SOH, CR
    <3>. QED
      BY <3>1, StateChanges
  <2>3. Decode(s1, "x") = s2
    <3>1. Decode(s1, "x") = AfterSlash(s1, "x")
      BY DEF In, Decode
    <3>2. AfterSlash(s1, "x") = [s1 EXCEPT !.at = "hex", !.digits = <<>>]
      BY DEF AfterSlash, Slash, Quote, Digit
    <3>. QED
      BY <3>1, <3>2 DEF In
  <2>4. Decode(s2, "0") = s3
    <3>1. Append(<<>>, "0") = <<"0">> /\ Len(<<"0">> \o <<"0">>) = 2
      OBVIOUS
    <3>2. Decode(s2, "0") = CodeDigit(s2, "0")
      BY DEF In, Decode
    <3>3. CodeDigit(s2, "0") = [s2 EXCEPT !.digits = <<"0">>]
      <4>1. s2.digits = <<>> /\ s2.at = "hex"
        BY DEF In
      <4> HIDE DEF s2
      <4>. QED
        <5> DEFINE digits == Append(s2.digits, "0")
                   value  == IF s2.at = "hex" THEN <<"0">> \o digits ELSE digits
        <5>1. digits = <<"0">> /\ Len(value) = 2
          BY <3>1, <4>1
        <5>2. CodeDigit(s2, "0") =
                CASE "0" \notin Digit -> Goto(s2, "failed")
                  [] "0" \in Digit /\ Len(value) < 3 -> [s2 EXCEPT !.digits = digits]
                  [] "0" \in Digit /\ value = <<"0", "0", "0">> -> EndArg(s2)
                  [] OTHER -> Add(s2, IF value = <<"0", "0", "1">> THEN SOH ELSE "other")
          BY DEF CodeDigit
        <5>3. value # <<"0", "0", "0">>
          <6>1. Len(<<"0", "0", "0">>) = 3
            OBVIOUS
          <6> HIDE DEF value
          <6>. QED
            BY <5>1, <6>1
        <5>4. "0" \in Digit
          BY DEF Digit
        <5> HIDE DEF digits, value
        <5>5. Len(value) < 3
          BY <5>1
        <5>6. CodeDigit(s2, "0") = [s2 EXCEPT !.digits = digits]
          <6> DEFINE x == [s2 EXCEPT !.digits = digits]
          <6>1. CodeDigit(s2, "0") =
                  CASE "0" \notin Digit -> Goto(s2, "failed")
                    [] "0" \in Digit /\ Len(value) < 3 -> x
                    [] "0" \in Digit /\ value = <<"0", "0", "0">> -> EndArg(s2)
                    [] OTHER -> Add(s2, IF value = <<"0", "0", "1">> THEN SOH ELSE "other")
            BY <5>2
          <6> HIDE DEF x
          <6>2. CodeDigit(s2, "0") = x
            BY <5>3, <5>4, <5>5, <6>1
          <6>. QED
            BY <6>2 DEF x
        <5>. QED
          BY <5>1, <5>6
    <3>. QED
      BY <3>2, <3>3 DEF In
  <2>5. Decode(s3, "1") = s4
    <3>1. Append(<<"0">>, "1") = <<"0", "1">>
      <4> DEFINE u == Append(<<"0">>, "1")
                 z == <<"0", "1">>
      <4>1. u \in Seq(Digit) /\ Len(u) = 2 /\ u[1] = "0" /\ u[2] = "1"
        BY DEF Digit
      <4>2. z \in Seq(Digit) /\ Len(z) = 2 /\ z[1] = "0" /\ z[2] = "1"
        BY DEF Digit
      <4> HIDE DEF u, z
      <4>3. \A i \in 1..Len(u) : u[i] = z[i]
        BY <4>1, <4>2
      <4>4. u = z
        BY <4>1, <4>2, <4>3, SeqEqual
      <4>. QED
        BY <4>4 DEF u, z
    <3>5. <<"0">> \o <<"0", "1">> = <<"0", "0", "1">> /\ Len(<<"0", "0", "1">>) = 3
      <4> DEFINE u == <<"0">> \o <<"0", "1">>
                 z == <<"0", "0", "1">>
      <4>1. u \in Seq(Digit) /\ Len(u) = 3 /\ u[1] = "0" /\ u[2] = "0" /\ u[3] = "1"
        BY DEF Digit
      <4>2. z \in Seq(Digit) /\ Len(z) = 3 /\ z[1] = "0" /\ z[2] = "0" /\ z[3] = "1"
        BY DEF Digit
      <4> HIDE DEF u, z
      <4>3. \A i \in 1..Len(u) : u[i] = z[i]
        BY <4>1, <4>2
      <4>4. u = z
        BY <4>1, <4>2, <4>3, SeqEqual
      <4>. QED
        BY <4>2, <4>4 DEF u, z
    <3>4. <<"0", "0", "1">> # <<"0", "0", "0">>
      <4>1. <<"0", "0", "1">>[3] # <<"0", "0", "0">>[3]
        OBVIOUS
      <4>. QED
        BY <4>1
    <3>2. Decode(s3, "1") = CodeDigit(s3, "1")
      BY DEF In, Decode
    <3>3. CodeDigit(s3, "1") = Add(s3, SOH)
      <4>1. s3.digits = <<"0">> /\ s3.at = "hex"
        BY DEF In
      <4> HIDE DEF s3
      <4>. QED
        <5> DEFINE digits == Append(s3.digits, "1")
                   value  == IF s3.at = "hex" THEN <<"0">> \o digits ELSE digits
        <5>1. value = <<"0", "0", "1">> /\ Len(value) = 3
          BY <3>1, <3>5, <4>1
        <5>2. CodeDigit(s3, "1") =
                CASE "1" \notin Digit -> Goto(s3, "failed")
                  [] "1" \in Digit /\ Len(value) < 3 -> [s3 EXCEPT !.digits = digits]
                  [] "1" \in Digit /\ value = <<"0", "0", "0">> -> EndArg(s3)
                  [] OTHER -> Add(s3, IF value = <<"0", "0", "1">> THEN SOH ELSE "other")
          BY DEF CodeDigit
        <5>3. "1" \in Digit
          BY DEF Digit
        <5> HIDE DEF digits, value
        <5>. QED
          BY <3>4, <5>1, <5>2, <5>3
    <3>. QED
      BY <3>2, <3>3, StateChanges
  <2>6. Leads(s, <<Slash, "x", "0", "1">>, s4)
    <3> HIDE DEF s, s1, s2, s3, s4
    <3>. QED
      BY <2>2, <2>3, <2>4, <2>5, ReadFour
  <2>7. Slash \in Plain /\ "x" \in Plain /\ "0" \in Plain /\ "1" \in Plain
    BY DEF Plain, Char, Letter, Digit, Slash, LF, SOH
  <2>8. <<Slash, "x", "0", "1">> \in Seq(Plain)
    BY <2>7
  <2>. QED
    BY <1>2, <2>1, <2>6, <2>8
<1>3. CASE c \in {Quote, Slash}
  <2> DEFINE s1 == In("escape", args, arg, d)
             s2 == In("quoted", args, Append(arg, c), d)
  <2>1. Escape(c) = <<Slash, c>>
    BY <1>3 DEF Escape, LF, SOH, Quote, Slash
  <2>2. Decode(s, Slash) = s1
    <3>1. Decode(s, Slash) = Goto(s, "escape")
      BY DEF In, Decode, InQuotes, Slash, Quote, Control, LF, SOH, CR
    <3>. QED
      BY <3>1, StateChanges
  <2>3. Decode(s1, c) = s2
    <3>1. Decode(s1, c) = Add(s1, c)
      BY <1>3 DEF In, Decode, AfterSlash, Quote, Slash, Digit
    <3>. QED
      BY <3>1, StateChanges
  <2> HIDE DEF s, s1, s2
  <2>4. Leads(s, <<Slash, c>>, s2)
    BY <2>2, <2>3, ReadTwo
  <2>5. Slash \in Plain /\ c \in Plain
    BY <1>3 DEF Plain, Char, Slash, Quote, LF, SOH
  <2>6. <<Slash, c>> \in Seq(Plain)
    BY <2>5
  <2>. QED
    BY <2>1, <2>4, <2>6 DEF s, s2
<1>4. CASE c \notin {LF, SOH, Quote, Slash}
  <2>1. Escape(c) = <<c>>
    BY <1>4 DEF Escape
  <2>2. Decode(s, c) = In("quoted", args, Append(arg, c), d)
    <3>1. c \notin Control
      BY <1>4 DEF Control, Char, Letter, Digit, Space, Quote, Slash, CR, LF, SOH
    <3>2. Decode(s, c) = Add(s, c)
      BY <1>4, <3>1 DEF In, Decode, InQuotes
    <3>. QED
      BY <3>2, StateChanges
  <2>3. c \in Plain
    BY <1>4 DEF Plain
  <2>. QED
    BY <2>1, <2>2, <2>3, ReadOne
<1>. QED
  BY <1>1, <1>2, <1>3, <1>4

(* Nothing is read in no time.                                             *)
LEMMA ReadNone ==
  ASSUME NEW s
  PROVE  Leads(s, <<>>, s)
<1> DEFINE r == [i \in {0} |-> s]
<1>1. Runs(s, <<>>, r) /\ r[Len(<<>>)] = s
  BY DEF Runs
<1>. QED
  BY <1>1 DEF Leads

(* The beginning of a sequence, one element at a time.                     *)
LEMMA Beginning ==
  ASSUME NEW X, NEW w \in Seq(X)
  PROVE  /\ SubSeq(w, 1, 0) = <<>> /\ SubSeq(w, 1, Len(w)) = w
         /\ \A i \in 1..Len(w) : /\ SubSeq(w, 1, i) = Append(SubSeq(w, 1, i - 1), w[i])
                                 /\ SubSeq(w, 1, i - 1) \in Seq(X) /\ w[i] \in X
<1> DEFINE n == Len(w)
<1>0. n \in Nat /\ \A i \in 1..n : w[i] \in X
  OBVIOUS
<1>1. ASSUME NEW i \in 0..n
      PROVE  /\ SubSeq(w, 1, i) \in Seq(X) /\ Len(SubSeq(w, 1, i)) = i
             /\ \A k \in 1..i : SubSeq(w, 1, i)[k] = w[k]
  <2>1. \A k \in 1..i : w[k] \in X
    BY <1>0
  <2>2. i \in Int
    BY <1>0
  <2>3. /\ SubSeq(w, 1, i) \in Seq(X) /\ Len(SubSeq(w, 1, i)) = IF 1 <= i THEN i - 1 + 1 ELSE 0
        /\ \A k \in 1..(i - 1 + 1) : SubSeq(w, 1, i)[k] = w[1 + k - 1]
    BY <2>1, <2>2, SubSeqProperties
  <2>4. i \in Nat
    BY <1>0
  <2>. QED
    BY <2>3, <2>4
<1>2. SubSeq(w, 1, n) = w
  BY <1>0, <1>1, SeqEqual
<1>3. SubSeq(w, 1, 0) = <<>>
  <2>1. SubSeq(w, 1, 0) \in Seq(X) /\ Len(SubSeq(w, 1, 0)) = 0
    BY <1>0, <1>1
  <2>. QED
    BY <2>1
<1>4. ASSUME NEW i \in 1..n PROVE SubSeq(w, 1, i) = Append(SubSeq(w, 1, i - 1), w[i])
  <2> DEFINE u == SubSeq(w, 1, i)
             v == SubSeq(w, 1, i - 1)
             z == Append(v, w[i])
  <2>1. i \in 0..n /\ i - 1 \in 0..n /\ w[i] \in X /\ i \in Nat
    BY <1>0
  <2>2. u \in Seq(X) /\ Len(u) = i /\ \A k \in 1..i : u[k] = w[k]
    BY <1>1, <2>1
  <2>3. v \in Seq(X) /\ Len(v) = i - 1 /\ \A k \in 1..(i - 1) : v[k] = w[k]
    BY <1>1, <2>1
  <2> HIDE DEF u, v
  <2>4. /\ z \in Seq(X) /\ Len(z) = Len(v) + 1 /\ z[Len(v) + 1] = w[i]
        /\ \A k \in 1..Len(v) : z[k] = v[k]
    BY <2>1, <2>3, AppendProperties
  <2>5. Len(z) = i /\ z[i] = w[i] /\ \A k \in 1..(i - 1) : z[k] = v[k]
    BY <2>1, <2>3, <2>4
  <2> HIDE DEF z
  <2>6. \A k \in 1..Len(u) : u[k] = z[k]
    BY <2>1, <2>2, <2>3, <2>5
  <2>7. u = z
    BY <2>2, <2>4, <2>5, <2>6, SeqEqual
  <2>. QED
    BY <2>7 DEF u, v, z
<1>5. \A i \in 1..n : SubSeq(w, 1, i - 1) \in Seq(X)
  <2>1. \A i \in 1..n : i - 1 \in 0..n
    BY <1>0
  <2>. QED
    BY <1>1, <2>1
<1>. QED
  BY <1>0, <1>2, <1>3, <1>4, <1>5

(* Between quotes, the decoder takes a whole argument back.                *)
LEMMA QuotedRead ==
  ASSUME NEW args, NEW w \in Seq(Char), NEW d
  PROVE  LET all == Sq!FlattenSeq([i \in DOMAIN w |-> Escape(w[i])])
         IN  /\ all \in Seq(Plain)
             /\ \E e : Leads(In("quoted", args, <<>>, d), all, In("quoted", args, w, e))
<1> DEFINE n == Len(w)
           seqs == [i \in DOMAIN w |-> Escape(w[i])]
           s == In("quoted", args, <<>>, d)
<1>0. n \in Nat /\ DOMAIN w = 1..n /\ \A i \in 1..n : w[i] \in Char
  OBVIOUS
<1>1. \A i \in 1..n : seqs[i] = Escape(w[i]) /\ Escape(w[i]) \in Seq(Plain)
  <2>1. \A c \in Char : Escape(c) \in Seq(Plain)
    <3>1. <<>> \in Seq(Char)
      OBVIOUS
    <3>. QED
      BY <3>1, EscapeRead
  <2>. QED
    BY <1>0, <2>1
<1>2. seqs \in Seq(Seq(Plain)) /\ Len(seqs) = n
  <2>1. seqs = [i \in 1..n |-> Escape(w[i])]
    BY <1>0
  <2>2. \A i \in 1..n : Escape(w[i]) \in Seq(Plain)
    BY <1>1
  <2> HIDE DEF n
  <2>. QED
    BY <1>0, <2>1, <2>2
<1>3. PICK f \in [0..n -> Seq(Plain)] : /\ f[0] = <<>>
                                        /\ \A i \in 1..n : f[i] = f[i - 1] \o seqs[i]
                                        /\ Sq!FlattenSeq(seqs) = f[n]
  <2> HIDE DEF seqs, n
  <2>. QED
    BY <1>2, Joined
<1> DEFINE Read(i) == \E e : Leads(s, f[i], In("quoted", args, SubSeq(w, 1, i), e))
           Unread == {i \in 0..n : ~Read(i)}
<1>4. ASSUME NEW i \in 1..n, Read(i - 1) PROVE Read(i)
  <2> DEFINE v == SubSeq(w, 1, i - 1)
  <2>1. PICK e : Leads(s, f[i - 1], In("quoted", args, v, e))
    BY <1>4
  <2>2. v \in Seq(Char) /\ w[i] \in Char /\ SubSeq(w, 1, i) = Append(v, w[i])
    BY Beginning
  <2>3. PICK g : Leads(In("quoted", args, v, e), Escape(w[i]),
                       In("quoted", args, Append(v, w[i]), g))
    <3> HIDE DEF v
    <3>. QED
      BY <2>2, EscapeRead
  <2>4. f[i] = f[i - 1] \o Escape(w[i])
    BY <1>1, <1>3
  <2>5. f[i - 1] \in Seq(Plain) /\ Escape(w[i]) \in Seq(Plain)
    <3>1. i - 1 \in 0..n
      BY <1>0
    <3>. QED
      BY <1>1, <1>3, <3>1
  <2> HIDE DEF v, s
  <2>6. Leads(s, f[i - 1] \o Escape(w[i]), In("quoted", args, Append(v, w[i]), g))
    BY <2>1, <2>3, <2>5, ReadOn
  <2>7. Leads(s, f[i], In("quoted", args, SubSeq(w, 1, i), g))
    BY <2>2, <2>4, <2>6
  <2>. QED
    BY <2>7
<1>5. Read(0)
  <2>1. SubSeq(w, 1, 0) = <<>>
    BY Beginning
  <2>2. Leads(s, <<>>, s)
    BY ReadNone
  <2>. QED
    BY <1>3, <2>1, <2>2
<1>6. Unread = {}
  <2> SUFFICES ASSUME Unread # {} PROVE FALSE
    OBVIOUS
  <2> HIDE DEF Read, n
  <2>1. PICK m \in Unread : \A i \in Unread : m <= i
    <3>1. Unread \in SUBSET Nat
      BY <1>0
    <3> HIDE DEF Unread
    <3>. QED
      BY <3>1, Least
  <2>2. m \in 0..n /\ ~Read(m) /\ m # 0
    BY <1>5
  <2>3. m \in 1..n /\ m - 1 \in 0..n /\ m - 1 \notin Unread
    <3> HIDE DEF Unread
    <3>. QED
      BY <1>0, <2>1, <2>2
  <2>4. Read(m - 1)
    BY <2>3
  <2>. QED
    BY <1>4, <2>2, <2>3, <2>4
<1>7. Read(n)
  <2> HIDE DEF Read, n
  <2>1. n \in 0..n
    BY <1>0
  <2>. QED
    BY <1>6, <2>1
<1>8. SubSeq(w, 1, n) = w
  BY Beginning
<1>9. f[n] \in Seq(Plain)
  BY <1>0, <1>3
<1>. QED
  BY <1>3, <1>7, <1>8, <1>9

(* Without quotes, the decoder takes an argument as it is.                 *)
LEMMA BareRead ==
  ASSUME NEW args, NEW w \in Seq(Char), NEW d, ~NeedsQuotes(w)
  PROVE  /\ w \in Seq(Plain)
         /\ Leads(In("gap", args, <<>>, d), w, In("bare", args, w, d))
<1> DEFINE n == Len(w)
           Letters == Char \ (Control \cup {Space, Quote})
           r == [i \in 0..n |-> IF i = 0 THEN In("gap", args, <<>>, d)
                                         ELSE In("bare", args, SubSeq(w, 1, i), d)]
<1>0. n \in Nat /\ n # 0 /\ \A i \in 1..n : w[i] \in Char
  BY DEF NeedsQuotes
<1>1. ASSUME NEW i \in 1..n PROVE w[i] \in Letters /\ w[i] \in Plain
  <2>1. w[i] \notin Control \cup {Space, Quote} /\ w[i] \in Char
    BY <1>0 DEF NeedsQuotes
  <2>. QED
    BY <2>1 DEF Plain, Control
<1>2. w \in Seq(Plain)
  <2>1. w = [i \in 1..n |-> w[i]]
    OBVIOUS
  <2>. QED
    BY <1>0, <1>1, <2>1
<1>3. ASSUME NEW at \in {"gap", "bare"}, NEW v, NEW c \in Letters
      PROVE  Decode(In(at, args, v, d), c) = In("bare", args, Append(v, c), d)
  <2>1. c \notin Control /\ c # Space /\ c # Quote /\ c # LF
    BY <1>3 DEF Control
  <2>2. Decode(In(at, args, v, d), c) = OutsideQuotes(In(at, args, v, d), c)
    BY DEF Decode, In
  <2>3. OutsideQuotes(In(at, args, v, d), c) = Goto(Add(In(at, args, v, d), c), "bare")
    BY <2>1 DEF OutsideQuotes
  <2>. QED
    BY <2>2, <2>3, StateChanges
<1>4. ASSUME NEW i \in 1..n PROVE r[i] = Decode(r[i - 1], w[i])
  <2>1. i \in 0..n /\ i - 1 \in 0..n /\ i # 0
    BY <1>0
  <2>2. r[i] = In("bare", args, SubSeq(w, 1, i), d)
    BY <2>1
  <2>3. SubSeq(w, 1, i) = Append(SubSeq(w, 1, i - 1), w[i])
    BY Beginning
  <2>4. CASE i = 1
    <3>1. i - 1 = 0 /\ SubSeq(w, 1, i - 1) = <<>>
      BY <2>4, Beginning
    <3>2. r[i - 1] = In("gap", args, SubSeq(w, 1, i - 1), d)
      BY <2>1, <3>1
    <3> DEFINE v == SubSeq(w, 1, i - 1)
    <3> HIDE DEF r, v, Letters
    <3>3. Decode(In("gap", args, v, d), w[i]) = In("bare", args, Append(v, w[i]), d)
      BY <1>1, <1>3
    <3>. QED
      BY <2>2, <2>3, <3>2, <3>3 DEF v
  <2>5. CASE i # 1
    <3>1. i - 1 # 0
      BY <1>0, <2>5
    <3>2. r[i - 1] = In("bare", args, SubSeq(w, 1, i - 1), d)
      BY <2>1, <3>1
    <3> DEFINE v == SubSeq(w, 1, i - 1)
    <3> HIDE DEF r, v, Letters
    <3>3. Decode(In("bare", args, v, d), w[i]) = In("bare", args, Append(v, w[i]), d)
      BY <1>1, <1>3
    <3>. QED
      BY <2>2, <2>3, <3>2, <3>3 DEF v
  <2>. QED
    BY <2>4, <2>5
<1>5. r[0] = In("gap", args, <<>>, d) /\ r[n] = In("bare", args, w, d)
  <2>1. SubSeq(w, 1, n) = w
    BY Beginning
  <2>2. 0 \in 0..n /\ n \in 0..n
    BY <1>0
  <2>. QED
    BY <1>0, <2>1, <2>2
<1> HIDE DEF r
<1>6. Runs(In("gap", args, <<>>, d), w, r)
  BY <1>4, <1>5 DEF Runs
<1>. QED
  BY <1>2, <1>5, <1>6 DEF Leads

(* An argument, quoted or not, is what the decoder has of it at its end.   *)
LEMMA WordRead ==
  ASSUME NEW args, NEW w \in Seq(Char), NEW d
  PROVE  /\ EncodeWord(w) \in Seq(Plain)
         /\ \E e : Leads(In("gap", args, <<>>, d), EncodeWord(w), In("bare", args, w, e))
<1>1. CASE ~NeedsQuotes(w)
  <2>1. EncodeWord(w) = w
    BY <1>1 DEF EncodeWord
  <2>. QED
    BY <1>1, <2>1, BareRead
<1>2. CASE NeedsQuotes(w)
  <2> DEFINE all == Sq!FlattenSeq([i \in DOMAIN w |-> Escape(w[i])])
             s0 == In("gap", args, <<>>, d)
             s1 == In("quoted", args, <<>>, d)
  <2>1. EncodeWord(w) = <<Quote>> \o all \o <<Quote>>
    BY <1>2 DEF EncodeWord
  <2>2. all \in Seq(Plain) /\ \E e : Leads(s1, all, In("quoted", args, w, e))
    BY QuotedRead
  <2>3. PICK e : Leads(s1, all, In("quoted", args, w, e))
    BY <2>2
  <2> DEFINE s2 == In("quoted", args, w, e)
             s3 == In("bare", args, w, e)
  <2>4. Decode(s0, Quote) = s1
    <3>1. Decode(s0, Quote) = OutsideQuotes(s0, Quote)
      BY DEF Decode, In
    <3>2. OutsideQuotes(s0, Quote) = Goto(s0, "quoted")
      BY DEF OutsideQuotes, Quote, Space, Control, LF, SOH, CR
    <3>. QED
      BY <3>1, <3>2, StateChanges
  <2>5. Decode(s2, Quote) = s3
    <3>1. Decode(s2, Quote) = InQuotes(s2, Quote)
      BY DEF Decode, In
    <3>2. InQuotes(s2, Quote) = Goto(s2, "bare")
      BY DEF InQuotes, Quote, Slash, Control, LF, SOH, CR
    <3>. QED
      BY <3>1, <3>2, StateChanges
  <2>6. Quote \in Plain
    BY DEF Plain, Char, Quote, LF, SOH
  <2>7. <<Quote>> \in Seq(Plain)
    BY <2>6
  <2> HIDE DEF all, s0, s1, s2, s3
  <2>8. Leads(s0, <<Quote>>, s1) /\ Leads(s2, <<Quote>>, s3)
    BY <2>4, <2>5, ReadOne
  <2>9. Leads(s0, <<Quote>> \o all, s2) /\ <<Quote>> \o all \in Seq(Plain)
    BY <2>2, <2>3, <2>7, <2>8, ReadOn, ConcatProperties DEF s2
  <2>10. Leads(s0, <<Quote>> \o all \o <<Quote>>, s3) /\ <<Quote>> \o all \o <<Quote>> \in Seq(Plain)
    BY <2>7, <2>8, <2>9, ReadOn, ConcatProperties
  <2>. QED
    BY <2>1, <2>10 DEF s0, s3
<1>. QED
  BY <1>1, <1>2

(* A line gives back the arguments it was made of, unless they are too     *)
(* many, and no character in it ends a line.                               *)
LEMMA CommandRead ==
  ASSUME NEW args \in Seq(Seq(Char)), args # <<>>
  PROVE  /\ encode_string(args) \in Seq(Plain)
         /\ decode_string(encode_string(args)) =
              IF Len(args) <= ArgMax THEN [ok |-> TRUE, args |-> args] ELSE [ok |-> FALSE]
<1> DEFINE n == Len(args)
           piece(i) == EncodeWord(args[i]) \o IF i < n THEN <<Space>> ELSE <<>>
           seqs == [i \in DOMAIN args |-> piece(i)]
           Before(i) == SubSeq(args, 1, i)
<1>0. n \in Nat /\ n # 0 /\ DOMAIN args = 1..n /\ \A i \in 1..n : args[i] \in Seq(Char)
  OBVIOUS
<1>s. Space \in Plain /\ <<Space>> \in Seq(Plain) /\ <<>> \in Seq(Plain)
  <2>1. Space \in Plain
    BY DEF Plain, Char, Space, LF, SOH
  <2>. QED
    BY <2>1
<1>1. ASSUME NEW i \in 1..n
      PROVE  /\ EncodeWord(args[i]) \in Seq(Plain) /\ piece(i) \in Seq(Plain)
             /\ i = n => piece(i) = EncodeWord(args[i])
             /\ i < n => piece(i) = EncodeWord(args[i]) \o <<Space>>
  <2>1. EncodeWord(args[i]) \in Seq(Plain)
    BY <1>0, WordRead
  <2>2. i = n => piece(i) = EncodeWord(args[i])
    BY <1>0, <2>1, ConcatEmptySeq
  <2>3. i < n => piece(i) = EncodeWord(args[i]) \o <<Space>>
    OBVIOUS
  <2>4. EncodeWord(args[i]) \o <<Space>> \in Seq(Plain)
    BY <1>s, <2>1, ConcatProperties
  <2>5. i = n \/ i < n
    <3> HIDE DEF n
    <3>. QED
      BY <1>0
  <2>6. piece(i) \in Seq(Plain)
    <3> HIDE DEF piece
    <3>. QED
      BY <2>1, <2>2, <2>3, <2>4, <2>5
  <2>. QED
    BY <2>1, <2>2, <2>3, <2>6
<1>2. seqs \in Seq(Seq(Plain)) /\ Len(seqs) = n /\ \A i \in 1..n : seqs[i] = piece(i)
  <2> HIDE DEF n, piece
  <2>1. seqs = [i \in 1..n |-> piece(i)]
    BY <1>0
  <2>. QED
    BY <1>0, <1>1, <2>1
<1>3. encode_string(args) = Sq!FlattenSeq(seqs)
  BY DEF encode_string
<1>4. PICK f \in [0..n -> Seq(Plain)] : /\ f[0] = <<>>
                                        /\ \A i \in 1..n : f[i] = f[i - 1] \o seqs[i]
                                        /\ Sq!FlattenSeq(seqs) = f[n]
  <2> HIDE DEF seqs, n
  <2>. QED
    BY <1>2, Joined
<1> HIDE DEF seqs, piece
<1> DEFINE Read(i) == \E e : Leads(Decoder, f[i], In("gap", Before(i), <<>>, e))
           Unread == {i \in 0..(n - 1) : ~Read(i)}
<1>5. Read(0)
  <2>1. Before(0) = <<>>
    BY Beginning
  <2>2. Decoder = In("gap", <<>>, <<>>, <<>>)
    BY DEF Decoder, In
  <2>. QED
    BY <1>4, <2>1, <2>2, ReadNone
<1>6. ASSUME NEW i \in 1..n, Read(i - 1)
      PROVE  \E e : Leads(Decoder, f[i - 1] \o EncodeWord(args[i]), In("bare", Before(i - 1), args[i], e))
  <2> DEFINE v == Before(i - 1)
             x == EncodeWord(args[i])
             s == Decoder
  <2>1. PICK e : Leads(s, f[i - 1], In("gap", v, <<>>, e))
    BY <1>6
  <2>2. PICK g : Leads(In("gap", v, <<>>, e), x, In("bare", v, args[i], g))
    <3> HIDE DEF v
    <3>. QED
      BY <1>0, WordRead
  <2>3. f[i - 1] \in Seq(Plain) /\ x \in Seq(Plain)
    <3>1. i - 1 \in 0..n
      BY <1>0
    <3>. QED
      BY <1>1, <1>4, <3>1
  <2> HIDE DEF v, s, x
  <2>4. Leads(s, f[i - 1] \o x, In("bare", v, args[i], g))
    BY <2>1, <2>2, <2>3, ReadOn
  <2>. QED
    BY <2>4 DEF v, s, x
<1>7. ASSUME NEW i \in 1..n, i < n, Read(i - 1) PROVE Read(i)
  <2> DEFINE v == Before(i - 1)
             x == EncodeWord(args[i])
  <2>1. PICK e : Leads(Decoder, f[i - 1], In("gap", v, <<>>, e))
    BY <1>7
  <2>2. PICK g : Leads(In("gap", v, <<>>, e), x, In("bare", v, args[i], g))
    <3> HIDE DEF v
    <3>. QED
      BY <1>0, WordRead
  <2>3. Decode(In("bare", v, args[i], g), Space) = In("gap", Append(v, args[i]), <<>>, g)
    <3> HIDE DEF v
    <3>1. Decode(In("bare", v, args[i], g), Space) = OutsideQuotes(In("bare", v, args[i], g), Space)
      BY DEF Decode, In
    <3>2. OutsideQuotes(In("bare", v, args[i], g), Space) = EndArg(In("bare", v, args[i], g))
      BY DEF OutsideQuotes, In, Space, LF, SOH, CR, Control, Quote
    <3>. QED
      BY <3>1, <3>2, StateChanges
  <2>4. Before(i) = Append(v, args[i])
    BY Beginning
  <2>5. Leads(In("bare", v, args[i], g), <<Space>>, In("gap", Before(i), <<>>, g))
    BY <2>3, <2>4, ReadOne
  <2>6. f[i - 1] \in Seq(Plain) /\ x \in Seq(Plain)
    <3>1. i - 1 \in 0..n
      BY <1>0
    <3>. QED
      BY <1>1, <1>4, <3>1
  <2>7. f[i] = f[i - 1] \o (x \o <<Space>>)
    BY <1>1, <1>2, <1>4, <1>7
  <2> DEFINE s0 == Decoder
             s1 == In("gap", v, <<>>, e)
             s2 == In("bare", v, args[i], g)
             s3 == In("gap", Before(i), <<>>, g)
             space == <<Space>>
             y == x \o space
  <2>8. Leads(s0, f[i - 1], s1) /\ Leads(s1, x, s2) /\ Leads(s2, space, s3)
    BY <2>1, <2>2, <2>5
  <2>9. space \in Seq(Plain)
    BY <1>s
  <2> HIDE DEF s0, s1, s2, s3, x, space
  <2>10. Leads(s1, y, s3) /\ y \in Seq(Plain)
    BY <2>6, <2>8, <2>9, ReadOn, ConcatProperties
  <2> HIDE DEF y
  <2>11. Leads(s0, f[i - 1] \o y, s3)
    BY <2>6, <2>8, <2>10, ReadOn
  <2>. QED
    BY <2>7, <2>11 DEF s0, s3, space, y
<1>8. Unread = {}
  <2> SUFFICES ASSUME Unread # {} PROVE FALSE
    OBVIOUS
  <2> HIDE DEF Read, n
  <2>1. PICK m \in Unread : \A i \in Unread : m <= i
    <3>1. Unread \in SUBSET Nat
      BY <1>0
    <3> HIDE DEF Unread
    <3>. QED
      BY <3>1, Least
  <2>2. m \in 0..(n - 1) /\ ~Read(m) /\ m # 0
    BY <1>5
  <2>3. m \in 1..n /\ m < n /\ m - 1 \in 0..(n - 1) /\ m - 1 \notin Unread
    <3> HIDE DEF Unread
    <3>. QED
      BY <1>0, <2>1, <2>2
  <2>4. Read(m - 1)
    BY <2>3
  <2>. QED
    BY <1>7, <2>2, <2>3, <2>4
<1>9. PICK e : Leads(Decoder, f[n - 1] \o EncodeWord(args[n]), In("bare", Before(n - 1), args[n], e))
  <2> HIDE DEF Read, n
  <2>1. n \in 1..n /\ n - 1 \in 0..(n - 1)
    BY <1>0
  <2>2. Read(n - 1)
    BY <1>8, <2>1
  <2>. QED
    BY <1>6, <2>1, <2>2
<1>10. f[n] = f[n - 1] \o EncodeWord(args[n])
  <2>1. n \in 1..n
    BY <1>0
  <2>. QED
    BY <1>1, <1>2, <1>4, <2>1
<1> DEFINE t == In("bare", Before(n - 1), args[n], e)
           line == encode_string(args)
<1>11. line \in Seq(Plain) /\ Leads(Decoder, line, t)
  <2>1. f[n] \in Seq(Plain)
    BY <1>0, <1>4
  <2>. QED
    BY <1>3, <1>4, <1>9, <1>10, <2>1
<1>12. t.at = "bare" /\ EndArg(t) = In("gap", Append(Before(n - 1), args[n]), <<>>, e)
  <2> DEFINE b == Before(n - 1)
             a == args[n]
  <2> HIDE DEF b, a
  <2>1. EndArg(In("bare", b, a, e)) = In("gap", Append(b, a), <<>>, e)
    BY StateChanges
  <2>2. In("bare", b, a, e).at = "bare"
    BY DEF In
  <2>. QED
    BY <2>1, <2>2 DEF a, b
<1>13. Append(Before(n - 1), args[n]) = args
  <2>1. n \in 1..n
    BY <1>0
  <2>. QED
    BY <2>1, Beginning
<1>14. EndArg(t).at = "gap" /\ EndArg(t).args = args
  <2>1. EndArg(t) = In("gap", args, <<>>, e)
    BY <1>12, <1>13
  <2>2. In("gap", args, <<>>, e).at = "gap" /\ In("gap", args, <<>>, e).args = args
    BY DEF In
  <2>. QED
    BY <2>1, <2>2
<1> HIDE DEF t, line
<1>15. decode_string(line) = ReadOut(t)
  BY <1>11, DecodedByRun
<1>16. decode_string(line) =
         IF Len(args) <= ArgMax THEN [ok |-> TRUE, args |-> args] ELSE [ok |-> FALSE]
  BY <1>12, <1>14, <1>15 DEF ReadOut
<1>. QED
  BY <1>11, <1>16 DEF line

-----------------------------------------------------------------------------
(* Of the commands cmds, the first k are no longer in the stream s, and    *)
(* the line of each later one ends at b: the stream is cut there.          *)
Cuts(cmds, s, k, b) ==
  /\ b \in [k..Len(cmds) -> Nat] /\ b[k] = 0 /\ b[Len(cmds)] = Len(s)
  /\ \A j \in (k + 1)..Len(cmds) :
       /\ b[j] = b[j - 1] + Len(encode_string(cmds[j])) + 2
       /\ \A i \in 1..Len(encode_string(cmds[j])) :
            s[b[j - 1] + i] = encode_string(cmds[j])[i]
       /\ s[b[j] - 1] = CR /\ s[b[j]] = LF

Command  == Seq(Seq(Char)) \ {<<>>}
Sendable == Char \cup {CR}

(* Later cuts are further on.                                              *)
LEMMA CutsApart ==
  ASSUME NEW cmds \in Seq(Command), NEW s, NEW k \in 0..Len(cmds), NEW b, Cuts(cmds, s, k, b),
         NEW i \in k..Len(cmds), NEW j \in k..Len(cmds), i < j
  PROVE  b[i] + 2 <= b[j]
<1> DEFINE n == Len(cmds)
           Bad == {m \in (i + 1)..n : ~(b[i] + 2 <= b[m])}
<1>0. n \in Nat /\ k \in Nat /\ i \in Nat /\ i >= k
  OBVIOUS
<1>1. \A m \in k..n : b[m] \in Nat
  BY DEF Cuts
<1>2. ASSUME NEW m \in (k + 1)..n PROVE b[m - 1] + 2 <= b[m]
  <2>1. encode_string(cmds[m]) \in Seq(Plain)
    <3>1. cmds[m] \in Command
      BY <1>0
    <3>. QED
      BY <3>1, CommandRead DEF Command
  <2>2. Len(encode_string(cmds[m])) \in Nat
    BY <2>1
  <2>3. b[m] = b[m - 1] + Len(encode_string(cmds[m])) + 2
    BY DEF Cuts
  <2>4. m - 1 \in k..n
    BY <1>0
  <2> HIDE DEF n
  <2>. QED
    BY <1>1, <2>2, <2>3, <2>4
<1>3. Bad = {}
  <2> HIDE DEF n
  <2> SUFFICES ASSUME Bad # {} PROVE FALSE
    OBVIOUS
  <2>1. PICK m \in Bad : \A l \in Bad : m <= l
    <3>1. Bad \in SUBSET Nat
      BY <1>0
    <3> HIDE DEF Bad
    <3>. QED
      BY <3>1, Least
  <2>2. m \in (i + 1)..n /\ ~(b[i] + 2 <= b[m])
    OBVIOUS
  <2>3. m \in (k + 1)..n /\ m \in k..n /\ m - 1 \in k..n /\ m \in Nat
    BY <1>0, <2>2
  <2>4. CASE m - 1 = i
    BY <1>2, <2>2, <2>3, <2>4
  <2>5. CASE m - 1 # i
    <3>1. m - 1 \in (i + 1)..n /\ m - 1 \notin Bad
      <4>1. m - 1 \in (i + 1)..n /\ ~(m <= m - 1)
        BY <1>0, <2>2, <2>3, <2>5
      <4> HIDE DEF Bad
      <4>. QED
        BY <2>1, <4>1
    <3>2. b[i] + 2 <= b[m - 1]
      BY <3>1
    <3>3. b[m - 1] + 2 <= b[m]
      BY <1>2, <2>3
    <3>4. i \in k..n
      BY <1>0, <2>2
    <3>5. b[i] \in Nat /\ b[m - 1] \in Nat /\ b[m] \in Nat
      BY <1>1, <2>3, <3>4
    <3>. QED
      BY SMTT(30), <2>2, <3>2, <3>3, <3>5
  <2>. QED
    BY <2>4, <2>5
<1>4. j \in (i + 1)..n
  <2> HIDE DEF n
  <2>1. j \in k..n
    BY DEF n
  <2>. QED
    BY <1>0, <2>1
<1>. QED
  BY <1>3, <1>4

(* A line feed in the stream is the end of a command, and no argument's.   *)
LEMMA FeedEndsCommand ==
  ASSUME NEW cmds \in Seq(Command), NEW s \in Seq(Sendable),
         NEW k \in 0..Len(cmds), NEW b, Cuts(cmds, s, k, b), NEW from \in Nat \ {0}
  PROVE  LineEnds(s, from) = {b[j] : j \in {j \in (k + 1)..Len(cmds) : b[j] > from}}
<1> DEFINE n == Len(cmds)
<1>0. n \in Nat /\ k \in Nat /\ k \in k..n /\ n \in k..n
  OBVIOUS
<1>1. b[k] = 0 /\ b[n] = Len(s) /\ Len(s) \in Nat /\ \A m \in k..n : b[m] \in Nat
  BY DEF Cuts
<1>2. ASSUME NEW p \in LineEnds(s, from)
      PROVE  \E j \in (k + 1)..n : p = b[j] /\ b[j] > from
  <2>1. p \in (from + 1)..Len(s) /\ s[p] = LF
    BY DEF LineEnds
  <2>2. p \in Nat /\ p > from /\ p > 0 /\ p <= Len(s)
    BY <1>1, <2>1
  <2> DEFINE T == {j \in k..n : p <= b[j]}
  <2>3. PICK m \in T : \A j \in T : m <= j
    <3>1. T \in SUBSET Nat /\ n \in T
      BY <1>0, <1>1, <2>2
    <3> HIDE DEF T
    <3>. QED
      BY <3>1, Least
  <2>4. m \in k..n /\ p <= b[m] /\ m # k
    BY <1>1, <2>2
  <2>5. m \in (k + 1)..n /\ m - 1 \in k..n /\ m - 1 \notin T
    <3> HIDE DEF T, n
    <3>1. m \in Nat /\ ~(m <= m - 1)
      BY <1>0, <2>4
    <3>. QED
      BY <1>0, <2>3, <2>4, <3>1
  <2> DEFINE line == encode_string(cmds[m])
             i == p - b[m - 1]
  <2>6. b[m - 1] < p /\ b[m - 1] \in Nat /\ b[m] \in Nat
    BY <1>1, <2>2, <2>4, <2>5
  <2>7. line \in Seq(Plain)
    <3>1. cmds[m] \in Command
      BY <1>0, <2>5
    <3>. QED
      BY <3>1, CommandRead DEF Command
  <2>8. b[m] = b[m - 1] + Len(line) + 2 /\ s[b[m] - 1] = CR
        /\ \A l \in 1..Len(line) : s[b[m - 1] + l] = line[l]
    BY <2>5 DEF Cuts
  <2>9. ~(i \in 1..Len(line))
    <3> SUFFICES ASSUME i \in 1..Len(line) PROVE FALSE
      OBVIOUS
    <3>1. line[i] \in Plain
      BY <2>7
    <3>2. b[m - 1] + i = p
      BY <2>2, <2>6
    <3>3. s[p] = line[i]
      BY <2>8, <3>2
    <3>. QED
      BY <2>1, <3>1, <3>3 DEF Plain
  <2>10. p # b[m] - 1
    BY <2>1, <2>8 DEF CR, LF
  <2>11. Len(line) \in Nat
    BY <2>7
  <2>12. p = b[m]
    <3> DEFINE x == b[m - 1]
               y == b[m]
               l == Len(line)
    <3>1. /\ x \in Nat /\ y \in Nat /\ l \in Nat /\ p \in Nat
          /\ x < p /\ p <= y /\ y = x + l + 2 /\ ~(p - x \in 1..l) /\ p # y - 1
      BY <2>2, <2>4, <2>6, <2>8, <2>9, <2>10, <2>11
    <3> HIDE DEF x, y, l
    <3>2. p = y
      BY <3>1
    <3>. QED
      BY <3>2 DEF y
  <2>. QED
    BY <2>2, <2>5, <2>12
<1>3. ASSUME NEW j \in (k + 1)..n, b[j] > from
      PROVE  b[j] \in LineEnds(s, from)
  <2>1. j \in k..n /\ j \in Nat
    BY <1>0
  <2>2. b[j] <= Len(s)
    <3>1. CASE j = n
      BY <1>1, <3>1
    <3>2. CASE j # n
      <4>1. j < n
        <5> HIDE DEF n
        <5>. QED
          BY <1>0, <2>1, <3>2
      <4>2. b[j] + 2 <= b[n]
        BY <1>0, <2>1, <4>1, CutsApart
      <4>. QED
        BY <1>0, <1>1, <2>1, <4>2
    <3>. QED
      BY <3>1, <3>2
  <2>3. s[b[j] - 1] = CR /\ s[b[j]] = LF
    BY DEF Cuts
  <2>4. b[j] \in Nat
    BY <1>1, <2>1
  <2>5. b[j] \in (from + 1)..Len(s)
    BY <1>1, <1>3, <2>2, <2>4
  <2>. QED
    BY <2>3, <2>5 DEF LineEnds
<1>. QED
  BY <1>2, <1>3

(* The first of a set of positions.                                        *)
LEMMA FirstIsLeast ==
  ASSUME NEW S \in SUBSET Nat, S # {}
  PROVE  First(S) \in S /\ \A j \in S : First(S) <= j
  BY Least DEF First

(* What is left after a cut is cut as before.                              *)
LEMMA CutOff ==
  ASSUME NEW cmds \in Seq(Command), NEW s \in Seq(Sendable),
         NEW k \in 0..Len(cmds), NEW b, Cuts(cmds, s, k, b), NEW m \in (k + 1)..Len(cmds)
  PROVE  /\ Rest(s, b[m] + 1) \in Seq(Sendable)
         /\ \E c : Cuts(cmds, Rest(s, b[m] + 1), m, c)
<1> DEFINE n == Len(cmds)
           rest == Rest(s, b[m] + 1)
           c == [j \in m..n |-> b[j] - b[m]]
<1>0. n \in Nat /\ k \in Nat /\ m \in Nat /\ m \in k..n /\ n \in k..n /\ m \in m..n /\ n \in m..n
  OBVIOUS
<1>1. b[n] = Len(s) /\ Len(s) \in Nat /\ \A j \in k..n : b[j] \in Nat
  BY DEF Cuts
<1>2. ASSUME NEW j \in m..n PROVE j \in k..n /\ b[j] \in Nat /\ b[m] <= b[j]
  <2>1. j \in k..n
    BY <1>0
  <2>2. CASE j = m
    BY <1>1, <2>1, <2>2
  <2>3. CASE j # m
    <3>1. m < j
      BY <1>0, <2>3
    <3>2. b[m] + 2 <= b[j]
      BY <1>0, <2>1, <3>1, CutsApart
    <3>. QED
      BY <1>0, <1>1, <2>1, <3>2
  <2>. QED
    BY <2>2, <2>3, <1>1, <2>1
<1>3. b[m] \in Nat /\ b[m] <= Len(s)
  BY <1>0, <1>1, <1>2
<1>4. /\ rest \in Seq(Sendable) /\ Len(rest) = Len(s) - b[m]
      /\ \A i \in 1..(Len(s) - b[m]) : rest[i] = s[b[m] + i]
  <2>1. \A i \in (b[m] + 1)..Len(s) : s[i] \in Sendable
    BY <1>3
  <2>2. b[m] + 1 \in Int /\ Len(s) \in Int
    BY <1>1, <1>3
  <2>3. /\ rest \in Seq(Sendable)
        /\ Len(rest) = IF b[m] + 1 <= Len(s) THEN Len(s) - (b[m] + 1) + 1 ELSE 0
        /\ \A i \in 1..(Len(s) - (b[m] + 1) + 1) : rest[i] = s[b[m] + 1 + i - 1]
    BY SMTT(30), <2>1, <2>2, SubSeqProperties DEF Rest
  <2> DEFINE x == b[m]
             l == Len(s)
  <2>4. x \in Nat /\ l \in Nat /\ x <= l
    BY <1>1, <1>3
  <2> HIDE DEF x, l, rest
  <2>5. /\ Len(rest) = IF x + 1 <= l THEN l - (x + 1) + 1 ELSE 0
        /\ \A i \in 1..(l - (x + 1) + 1) : rest[i] = s[x + 1 + i - 1]
    BY <2>3 DEF x, l
  <2>6. Len(rest) = l - x
    BY <2>4, <2>5
  <2>7. \A i \in 1..(l - x) : rest[i] = s[x + i]
    <3>1. l - (x + 1) + 1 = l - x
      BY <2>4
    <3>2. \A i \in 1..(l - x) : x + 1 + i - 1 = x + i
      BY <2>4
    <3>. QED
      BY <2>5, <3>1, <3>2
  <2>. QED
    BY <2>3, <2>6, <2>7 DEF x, l
<1>5. /\ c \in [m..n -> Nat] /\ c[m] = 0 /\ c[n] = Len(rest)
  <2>1. \A j \in m..n : b[j] - b[m] \in Nat
    BY <1>2, <1>3
  <2> HIDE DEF rest, n
  <2>. QED
    BY <1>0, <1>1, <1>3, <1>4, <2>1
<1>6. ASSUME NEW j \in (m + 1)..n
      PROVE  /\ c[j] = c[j - 1] + Len(encode_string(cmds[j])) + 2
             /\ \A i \in 1..Len(encode_string(cmds[j])) :
                  rest[c[j - 1] + i] = encode_string(cmds[j])[i]
             /\ rest[c[j] - 1] = CR /\ rest[c[j]] = LF
  <2> DEFINE line == encode_string(cmds[j])
  <2>1. j \in (k + 1)..n /\ j \in m..n /\ j - 1 \in m..n /\ j \in Nat
    BY <1>0
  <2>2. /\ b[j] = b[j - 1] + Len(line) + 2
        /\ \A i \in 1..Len(line) : s[b[j - 1] + i] = line[i]
        /\ s[b[j] - 1] = CR /\ s[b[j]] = LF
    BY <2>1 DEF Cuts
  <2>3. Len(line) \in Nat
    <3>1. cmds[j] \in Command
      BY <1>0, <2>1
    <3>2. line \in Seq(Plain)
      BY <3>1, CommandRead DEF Command
    <3>. QED
      BY <3>2
  <2>4. c[j] = b[j] - b[m] /\ c[j - 1] = b[j - 1] - b[m]
    BY <2>1
  <2>5. b[j] \in Nat /\ b[j - 1] \in Nat /\ b[m] <= b[j - 1] /\ b[j] <= Len(s)
    <3>1. CASE j = n
      BY <1>1, <1>2, <2>1, <3>1
    <3>2. CASE j # n
      <4>1. j < n
        <5> HIDE DEF n
        <5>. QED
          BY <1>0, <2>1, <3>2
      <4>2. b[j] + 2 <= b[n]
        BY <1>0, <1>2, <2>1, <4>1, CutsApart
      <4>. QED
        BY <1>0, <1>1, <1>2, <2>1, <4>2
    <3>. QED
      BY <3>1, <3>2
  <2> HIDE DEF line, c, rest, n
  <2>6. c[j] = c[j - 1] + Len(line) + 2
    <3> DEFINE x == b[m]
               y == b[j - 1]
               z == b[j]
               l == Len(line)
    <3>1. x \in Nat
      BY <1>1, <1>3
    <3>2. y \in Nat /\ z \in Nat /\ l \in Nat /\ z = y + l + 2
      BY <2>2, <2>3, <2>5
    <3>3. c[j] = z - x /\ c[j - 1] = y - x
      BY <2>4
    <3> HIDE DEF x, y, z, l
    <3>4. z - x = (y - x) + l + 2
      BY <3>1, <3>2
    <3>. QED
      BY <3>3, <3>4 DEF l
  <2>9. /\ \A i \in 1..Len(line) : /\ c[j - 1] + i \in 1..(Len(s) - b[m])
                                     /\ b[m] + (c[j - 1] + i) = b[j - 1] + i
        /\ c[j] - 1 \in 1..(Len(s) - b[m]) /\ b[m] + (c[j] - 1) = b[j] - 1
        /\ c[j] \in 1..(Len(s) - b[m]) /\ b[m] + c[j] = b[j]
    <3> DEFINE x == b[m]
               y == b[j - 1]
               z == b[j]
               u == c[j - 1]
               v == c[j]
               l == Len(line)
               h == Len(s)
    <3>1. /\ x \in Nat /\ y \in Nat /\ z \in Nat /\ l \in Nat /\ h \in Nat
          /\ x <= y /\ z = y + l + 2 /\ z <= h /\ u = y - x /\ v = z - x
      BY <1>1, <1>3, <2>2, <2>3, <2>4, <2>5
    <3> HIDE DEF x, y, z, u, v, l, h
    <3>2. /\ \A i \in 1..l : u + i \in 1..(h - x) /\ x + (u + i) = y + i
          /\ v - 1 \in 1..(h - x) /\ x + (v - 1) = z - 1
          /\ v \in 1..(h - x) /\ x + v = z
      BY <3>1
    <3>. QED
      BY <3>2 DEF x, y, z, u, v, l, h
  <2>7. ASSUME NEW i \in 1..Len(line) PROVE rest[c[j - 1] + i] = line[i]
    <3>1. c[j - 1] + i \in 1..(Len(s) - b[m]) /\ b[m] + (c[j - 1] + i) = b[j - 1] + i
      BY <2>9
    <3>. QED
      BY <1>4, <2>2, <3>1
  <2>8. rest[c[j] - 1] = CR /\ rest[c[j]] = LF
    <3>1. /\ c[j] - 1 \in 1..(Len(s) - b[m]) /\ b[m] + (c[j] - 1) = b[j] - 1
          /\ c[j] \in 1..(Len(s) - b[m]) /\ b[m] + c[j] = b[j]
      BY <2>9
    <3>. QED
      BY <1>4, <2>2, <3>1
  <2>. QED
    BY <2>6, <2>7, <2>8 DEF line
<1> HIDE DEF c, rest
<1>7. Cuts(cmds, rest, m, c)
  BY <1>5, <1>6 DEF Cuts
<1>. QED
  BY <1>4, <1>7 DEF rest

(* shell_read_line takes whole lines off the stream, and of a command that *)
(* does not take the next one with it, just its own.                       *)
LEMMA LineRead ==
  ASSUME NEW cmds \in Seq(Command), NEW s \in Seq(Sendable),
         NEW k \in 0..Len(cmds), NEW b, Cuts(cmds, s, k, b), Readable(s)
  PROVE  /\ k + 1 \in 1..Len(cmds)
         /\ ReadLine(s).rest \in Seq(Sendable)
         /\ \E m \in (k + 1)..Len(cmds) :
              /\ \E c : Cuts(cmds, ReadLine(s).rest, m, c)
              /\ LET line == encode_string(cmds[k + 1])
                 IN  Len(line) \notin {LineMax - 1, LineMax} =>
                       /\ m = k + 1
                       /\ IF Len(line) + 1 < LineMax
                            THEN ReadLine(s).read /\ ReadLine(s).line = line
                            ELSE ~ReadLine(s).read
<1> DEFINE n == Len(cmds)
           line == encode_string(cmds[k + 1])
           ends == LineEnds(s, 1)
           end == First(ends)
           later == LineEnds(s, LineMax + 2)
<1>0. n \in Nat /\ k \in Nat /\ k \in k..n /\ n \in k..n /\ LineMax \in Nat \ {0}
  BY LineAssumption
<1>1. b[k] = 0 /\ b[n] = Len(s) /\ Len(s) \in Nat /\ \A j \in k..n : b[j] \in Nat
  BY DEF Cuts
<1>2. /\ ends = {b[j] : j \in {j \in (k + 1)..n : b[j] > 1}}
      /\ later = {b[j] : j \in {j \in (k + 1)..n : b[j] > LineMax + 2}}
  <2>1. 1 \in Nat \ {0} /\ LineMax + 2 \in Nat \ {0}
    BY <1>0
  <2>. QED
    BY SMTT(30), <2>1, FeedEndsCommand
<1>3. ends # {} /\ (end - 1 < LineMax \/ later # {})
  BY DEF Readable
<1>4. k + 1 \in 1..n /\ k + 1 \in (k + 1)..n /\ k + 1 \in k..n
  <2>1. \E j \in (k + 1)..n : TRUE
    BY <1>2, <1>3
  <2> HIDE DEF n
  <2>. QED
    BY <1>0, <2>1
<1>5. line \in Seq(Plain) /\ Len(line) \in Nat
  <2>1. cmds[k + 1] \in Command
    BY <1>4
  <2>2. line \in Seq(Plain)
    BY <2>1, CommandRead DEF Command
  <2>. QED
    BY <2>2
<1>6. b[k + 1] = Len(line) + 2 /\ \A i \in 1..Len(line) : s[i] = line[i]
  <2>1. k + 1 - 1 = k
    BY <1>0
  <2>2. /\ b[k + 1] = b[k + 1 - 1] + Len(line) + 2
        /\ \A i \in 1..Len(line) : s[b[k + 1 - 1] + i] = line[i]
    <3>1. \A j \in (k + 1)..n :
            /\ b[j] = b[j - 1] + Len(encode_string(cmds[j])) + 2
            /\ \A i \in 1..Len(encode_string(cmds[j])) :
                 s[b[j - 1] + i] = encode_string(cmds[j])[i]
      BY DEF Cuts
    <3>2. k + 1 \in (k + 1)..n
      BY <1>4
    <3> HIDE DEF n, ends, later
    <3>. QED
      BY <3>1, <3>2
  <2> HIDE DEF line
  <2>3. b[k + 1 - 1] = 0
    BY <1>1, <2>1
  <2>4. \A i \in 1..Len(line) : b[k + 1 - 1] + i = i
    BY <1>5, <2>3
  <2>. QED
    BY <1>5, <2>2, <2>3, <2>4
<1>7. ASSUME NEW j \in (k + 1)..n PROVE b[k + 1] <= b[j] /\ (j # k + 1 => b[k + 1] < b[j])
  <2>1. j \in k..n /\ b[j] \in Nat /\ b[k + 1] \in Nat
    BY <1>0, <1>1, <1>4
  <2>2. CASE j = k + 1
    BY <2>1, <2>2
  <2>3. CASE j # k + 1
    <3>1. k + 1 < j
      BY <1>0, <2>3
    <3>2. b[k + 1] + 2 <= b[j]
      BY <1>4, <2>1, <3>1, CutsApart
    <3>. QED
      BY <2>1, <2>3, <3>2
  <2>. QED
    BY <2>2, <2>3
<1>8. ends \in SUBSET Nat /\ later \in SUBSET Nat
  <2>1. \A j \in (k + 1)..n : b[j] \in Nat
    BY <1>0, <1>1
  <2>. QED
    BY <1>2, <2>1
<1>9. end = b[k + 1]
  <2>1. b[k + 1] > 1 /\ b[k + 1] \in Nat
    BY <1>5, <1>6
  <2>2. b[k + 1] \in ends
    BY <1>2, <1>4, <2>1
  <2>3. end \in ends /\ end <= b[k + 1]
    <3> HIDE DEF ends
    <3>. QED
      BY <1>3, <1>8, <2>2, FirstIsLeast
  <2>4. b[k + 1] <= end /\ end \in Nat
    <3> HIDE DEF end
    <3>. QED
      BY <1>2, <1>7, <1>8, <2>3
  <2>. QED
    BY <2>1, <2>3, <2>4
<1> HIDE DEF ends, line
<1>10. CASE end - 1 < LineMax
  <2>1. ReadLine(s) = [read |-> TRUE, line |-> SubSeq(s, 1, end - 2), rest |-> Rest(s, end + 1)]
    BY <1>10 DEF ReadLine, ends
  <2>2. ReadLine(s).read /\ ReadLine(s).line = SubSeq(s, 1, end - 2)
        /\ ReadLine(s).rest = Rest(s, b[k + 1] + 1)
    <3> HIDE DEF end
    <3> DEFINE l == SubSeq(s, 1, end - 2)
               q == Rest(s, end + 1)
    <3>1. ReadLine(s) = [read |-> TRUE, line |-> l, rest |-> q]
      BY <2>1
    <3> HIDE DEF l, q
    <3>2. ReadLine(s).read = TRUE /\ ReadLine(s).line = l /\ ReadLine(s).rest = q
      BY <3>1
    <3>. QED
      BY <1>9, <3>2 DEF l, q
  <2>3. Rest(s, b[k + 1] + 1) \in Seq(Sendable) /\ \E c : Cuts(cmds, Rest(s, b[k + 1] + 1), k + 1, c)
    BY <1>4, CutOff
  <2>4. Len(line) + 1 < LineMax /\ end - 2 = Len(line)
    <3> HIDE DEF end
    <3>. QED
      BY <1>0, <1>5, <1>6, <1>9, <1>10
  <2>5. SubSeq(s, 1, Len(line)) = line
    <3> DEFINE l == Len(line)
               u == SubSeq(s, 1, l)
    <3>1. \A i \in 1..l : s[i] \in Plain
      BY <1>5, <1>6
    <3>2. u \in Seq(Plain) /\ Len(u) = (IF 1 <= l THEN l - 1 + 1 ELSE 0)
          /\ \A i \in 1..(l - 1 + 1) : u[i] = s[1 + i - 1]
      BY <1>5, <3>1, SubSeqProperties
    <3> HIDE DEF u
    <3>3. Len(u) = l /\ \A i \in 1..l : u[i] = s[i]
      <4> HIDE DEF l
      <4>1. l \in Nat
        BY <1>5 DEF l
      <4>. QED
        BY <3>2, <4>1
    <3>4. u = line
      BY <1>5, <1>6, <3>2, <3>3, SeqEqual
    <3>. QED
      BY <3>4 DEF u
  <2>6. ReadLine(s).line = line
    BY <2>2, <2>4, <2>5
  <2>. QED
    BY <1>4, <2>2, <2>3, <2>4, <2>6 DEF line
<1>11. CASE ~(end - 1 < LineMax)
  <2> DEFINE next == First(later)
  <2>1. ReadLine(s) = [read |-> FALSE, rest |-> Rest(s, next + 1)]
    BY <1>11 DEF ReadLine, ends
  <2>2. ~ReadLine(s).read /\ ReadLine(s).rest = Rest(s, next + 1)
    BY <2>1
  <2>3. next \in later /\ \A j \in later : next <= j
    <3> HIDE DEF later
    <3>. QED
      BY <1>3, <1>8, <1>11, FirstIsLeast
  <2>4. PICK m \in (k + 1)..n : next = b[m]
    BY <1>2, <2>3
  <2>5. Rest(s, b[m] + 1) \in Seq(Sendable) /\ \E c : Cuts(cmds, Rest(s, b[m] + 1), m, c)
    BY CutOff
  <2>6. ~(Len(line) + 1 < LineMax)
    <3> HIDE DEF end
    <3>. QED
      BY <1>0, <1>5, <1>6, <1>9, <1>11
  <2>7. ASSUME Len(line) \notin {LineMax - 1, LineMax} PROVE m = k + 1
    <3>1. b[k + 1] > LineMax + 2
      BY <1>0, <1>5, <1>6, <2>6, <2>7
    <3>2. b[k + 1] \in later
      BY <1>2, <1>4, <3>1
    <3>3. b[m] <= b[k + 1] /\ b[m] \in Nat /\ b[k + 1] \in Nat
      <4>1. m \in k..n
        BY <1>0
      <4>. QED
        BY <1>1, <1>4, <2>3, <2>4, <3>2, <4>1
    <3>. QED
      BY <1>7, <3>3
  <2> HIDE DEF next
  <2>8. ReadLine(s).rest = Rest(s, b[m] + 1)
    BY <2>2, <2>4
  <2>. QED
    BY <1>4, <2>2, <2>5, <2>6, <2>7, <2>8 DEF line
<1>. QED
  BY <1>10, <1>11

(* A command that is sent is one more piece of the stream.                 *)
LEMMA CutOn ==
  ASSUME NEW cmds \in Seq(Command), NEW s \in Seq(Sendable),
         NEW k \in 0..Len(cmds), NEW b, Cuts(cmds, s, k, b), NEW args \in Command
  PROVE  LET on == s \o encode_string(args) \o <<CR, LF>>
         IN  on \in Seq(Sendable) /\ \E c : Cuts(Append(cmds, args), on, k, c)
<1> DEFINE n == Len(cmds)
           line == encode_string(args)
           l == Len(line)
           h == Len(s)
           on == s \o line \o <<CR, LF>>
           more == Append(cmds, args)
           c == [j \in k..(n + 1) |-> IF j = n + 1 THEN h + l + 2 ELSE b[j]]
<1>0. n \in Nat /\ k \in Nat /\ k <= n /\ h \in Nat
  OBVIOUS
<1>1. b[k] = 0 /\ b[n] = h /\ \A j \in k..n : b[j] \in Nat
  BY DEF Cuts
<1>2. line \in Seq(Plain) /\ l \in Nat
  <2>1. line \in Seq(Plain)
    BY CommandRead DEF Command
  <2>. QED
    BY <2>1
<1>3. LF \in Sendable /\ CR \in Sendable /\ Plain \subseteq Sendable
  BY DEF Sendable, Plain, Char
<1>4. /\ on \in Seq(Sendable) /\ Len(on) = h + l + 2
      /\ \A i \in 1..h : on[i] = s[i]
      /\ \A i \in 1..l : on[h + i] = line[i]
      /\ on[h + l + 1] = CR /\ on[h + l + 2] = LF
  <2> DEFINE u == s \o line
             crlf == <<CR, LF>>
  <2>1. line \in Seq(Sendable)
    BY <1>2, <1>3
  <2>2. crlf \in Seq(Sendable) /\ Len(crlf) = 2 /\ crlf[1] = CR /\ crlf[2] = LF
    BY <1>3
  <2> HIDE DEF line, crlf
  <2>3. /\ u \in Seq(Sendable) /\ Len(u) = h + l
        /\ \A i \in 1..(h + l) : u[i] = IF i <= h THEN s[i] ELSE line[i - h]
    BY <2>1, ConcatProperties
  <2> HIDE DEF u
  <2>4. /\ u \o crlf \in Seq(Sendable) /\ Len(u \o crlf) = Len(u) + Len(crlf)
        /\ \A i \in 1..(Len(u) + Len(crlf)) :
             (u \o crlf)[i] = IF i <= Len(u) THEN u[i] ELSE crlf[i - Len(u)]
    <3>1. u \in Seq(Sendable) /\ crlf \in Seq(Sendable)
      BY <2>2, <2>3
    <3>. QED
      BY ONLY <3>1, ConcatProperties
  <2> DEFINE v == u \o crlf
  <2>5. on = v
    BY DEF u, crlf
  <2> HIDE DEF on, v, l, h
  <2>6. /\ v \in Seq(Sendable) /\ Len(v) = h + l + 2
        /\ \A i \in 1..(h + l + 2) : v[i] = IF i <= h + l THEN u[i] ELSE crlf[i - (h + l)]
    BY <1>0, <1>2, <2>2, <2>3, <2>4 DEF v
  <2>7. \A i \in 1..h : v[i] = s[i]
    BY <1>0, <1>2, <2>3, <2>6
  <2>8. \A i \in 1..l : v[h + i] = line[i]
    <3> SUFFICES ASSUME NEW i \in 1..l PROVE v[h + i] = line[i]
      OBVIOUS
    <3>1. h + i \in 1..(h + l) /\ h + i \in 1..(h + l + 2) /\ ~(h + i <= h) /\ (h + i) - h = i
          /\ h + i <= h + l
      BY <1>0, <1>2
    <3>2. v[h + i] = u[h + i]
      BY <2>6, <3>1
    <3>3. u[h + i] = line[(h + i) - h]
      BY <2>3, <3>1
    <3>. QED
      BY <3>1, <3>2, <3>3
  <2>9. v[h + l + 1] = CR /\ v[h + l + 2] = LF
    <3>1. /\ h + l + 1 \in 1..(h + l + 2) /\ ~(h + l + 1 <= h + l) /\ (h + l + 1) - (h + l) = 1
          /\ h + l + 2 \in 1..(h + l + 2) /\ ~(h + l + 2 <= h + l) /\ (h + l + 2) - (h + l) = 2
      BY <1>0, <1>2
    <3>2. v[h + l + 1] = crlf[(h + l + 1) - (h + l)] /\ v[h + l + 2] = crlf[(h + l + 2) - (h + l)]
      BY <2>6, <3>1
    <3>. QED
      BY <2>2, <3>1, <3>2
  <2>. QED
    BY <2>5, <2>6, <2>7, <2>8, <2>9
<1>5. Len(more) = n + 1 /\ more[n + 1] = args /\ \A j \in 1..n : more[j] = cmds[j]
  OBVIOUS
<1> HIDE DEF line, on, more, n, h, l
<1>6. c \in [k..(n + 1) -> Nat] /\ c[k] = 0 /\ c[n + 1] = Len(on)
  <2>1. \A j \in k..(n + 1) : j # n + 1 => b[j] \in Nat
    BY <1>0, <1>1
  <2>2. h + l + 2 \in Nat
    BY <1>0, <1>2
  <2>. QED
    BY <1>0, <1>1, <1>4, <2>1, <2>2
<1>7. ASSUME NEW j \in (k + 1)..(n + 1)
      PROVE  /\ c[j] = c[j - 1] + Len(encode_string(more[j])) + 2
             /\ \A i \in 1..Len(encode_string(more[j])) :
                  on[c[j - 1] + i] = encode_string(more[j])[i]
             /\ on[c[j] - 1] = CR /\ on[c[j]] = LF
  <2>1. j - 1 \in k..(n + 1) /\ j - 1 # n + 1 /\ j \in k..(n + 1) /\ j - 1 \in k..n
    BY <1>0
  <2>2. c[j - 1] = b[j - 1]
    BY <2>1
  <2>3. CASE j = n + 1
    <3>1. c[j] = h + l + 2 /\ c[j - 1] = h
      <4>1. j - 1 = n
        BY <1>0, <2>3
      <4>. QED
        BY <1>1, <2>1, <2>2, <2>3, <4>1
    <3>2. encode_string(more[j]) = line
      BY <1>5, <2>3 DEF line
    <3>3. l = Len(line) /\ h + l + 2 - 1 = h + l + 1
      BY <1>0, <1>2 DEF l
    <3> DEFINE e == encode_string(more[j])
    <3> HIDE DEF c
    <3>4. e = line /\ Len(e) = l
      BY <3>2, <3>3
    <3> HIDE DEF e
    <3>5. /\ c[j] = c[j - 1] + Len(e) + 2
          /\ on[c[j] - 1] = CR /\ on[c[j]] = LF
      <4>1. h + l + 2 = h + Len(e) + 2
        BY <3>4
      <4>2. on[h + l + 2 - 1] = CR /\ on[h + l + 2] = LF
        BY <1>4, <3>3
      <4>3. c[j] = c[j - 1] + Len(e) + 2
        BY <3>1, <4>1
      <4>4. on[c[j] - 1] = CR /\ on[c[j]] = LF
        <5>1. c[j] - 1 = h + l + 2 - 1
          BY <1>0, <1>2, <3>1
        <5> DEFINE x == c[j] - 1
                   y == h + l + 2 - 1
        <5>2. x = y
          BY <5>1
        <5> HIDE DEF x, y
        <5>3. on[x] = on[y] /\ on[c[j]] = on[h + l + 2]
          BY <3>1, <5>2
        <5>. QED
          BY <4>2, <5>3 DEF x, y
      <4>. QED
        BY <4>3, <4>4
    <3>6. \A i \in 1..Len(e) : on[c[j - 1] + i] = e[i]
      BY <1>4, <3>1, <3>4
    <3>. QED
      BY <3>5, <3>6 DEF e
  <2>4. CASE j # n + 1
    <3>1. j \in (k + 1)..n /\ j \in 1..n /\ j \in k..n
      BY <1>0, <2>4
    <3>2. c[j] = b[j] /\ more[j] = cmds[j]
      BY <1>5, <2>1, <2>4, <3>1
    <3> DEFINE e == encode_string(cmds[j])
    <3>3. /\ b[j] = b[j - 1] + Len(e) + 2
          /\ \A i \in 1..Len(e) : s[b[j - 1] + i] = e[i]
          /\ s[b[j] - 1] = CR /\ s[b[j]] = LF
      BY <3>1 DEF Cuts, n
    <3>4. Len(e) \in Nat
      <4>1. cmds[j] \in Command
        BY <3>1 DEF n
      <4>2. e \in Seq(Plain)
        BY <4>1, CommandRead DEF Command
      <4>. QED
        BY <4>2
    <3>5. b[j] <= h
      <4>1. CASE j = n
        BY <1>0, <1>1, <4>1
      <4>2. CASE j # n
        <5>1. j < n /\ n \in k..n
          BY <1>0, <3>1, <4>2
        <5>2. b[j] + 2 <= b[n]
          BY <3>1, <5>1, CutsApart DEF n
        <5>. QED
          BY <1>0, <1>1, <3>1, <5>2
      <4>. QED
        BY <4>1, <4>2
    <3>6. b[j] \in Nat /\ b[j - 1] \in Nat
      BY <1>1, <2>1, <3>1
    <3> HIDE DEF c, e
    <3>7. /\ \A i \in 1..Len(e) : b[j - 1] + i \in 1..h
          /\ b[j] - 1 \in 1..h /\ b[j] \in 1..h
      <4> DEFINE x == b[j - 1]
                 y == b[j]
                 z == Len(e)
      <4>1. x \in Nat /\ y \in Nat /\ z \in Nat /\ h \in Nat /\ y = x + z + 2 /\ y <= h
        BY <1>0, <3>3, <3>4, <3>5, <3>6
      <4> HIDE DEF x, y, z
      <4>2. (\A i \in 1..z : x + i \in 1..h) /\ y - 1 \in 1..h /\ y \in 1..h
        BY <4>1
      <4>. QED
        BY <4>2 DEF x, y, z
    <3>8. /\ \A i \in 1..Len(e) : on[b[j - 1] + i] = e[i]
          /\ on[b[j] - 1] = CR /\ on[b[j]] = LF
      BY <1>4, <3>3, <3>7
    <3>. QED
      BY <2>2, <3>2, <3>3, <3>8 DEF e
  <2>. QED
    BY <2>3, <2>4
<1> HIDE DEF c
<1>8. Cuts(more, on, k, c)
  BY <1>5, <1>6, <1>7 DEF Cuts
<1>. QED
  BY <1>4, <1>8 DEF on, more, line

(* No command up to the j-th takes the next one with it.                   *)
Clean(cmds, j) == \A i \in 1..j : ~Swallowing(cmds[i])

(* The stream is whole lines of the last commands, and as long as no line  *)
(* has been swallowed, of those that have no answer yet.                   *)
WireInv ==
  /\ sent \in Seq(Command) /\ stream \in Seq(Sendable) /\ \E V : answers \in Seq(V)
  /\ Len(answers) <= Len(sent)
  /\ \A j \in 1..Len(answers) : Clean(sent, j) => answers[j] = Expected(sent[j])
  /\ \E k \in Len(answers)..Len(sent) :
       /\ Clean(sent, Len(answers)) => k = Len(answers)
       /\ \E b : Cuts(sent, stream, k, b)

(* What the model sends are commands.                                      *)
LEMMA CommandsSent ==
  ASSUME NEW max \in Nat
  PROVE  Commands(max) \subseteq Command
<1>1. ASSUME NEW w \in Words(max) PROVE w \in Seq(Char)
  <2>1. PICK k \in 0..max : w \in [1..k -> Char]
    BY DEF Words
  <2>2. k \in Nat
    OBVIOUS
  <2>. QED
    BY <2>1, <2>2
<1>2. ASSUME NEW args \in Commands(max) PROVE args \in Command
  <2>1. PICK k \in 1..MaxArgs : args \in [1..k -> Words(max)]
    BY DEF Commands
  <2>2. k \in Nat /\ k # 0
    BY LineAssumption
  <2>3. args \in [1..k -> Seq(Char)]
    BY <1>1, <2>1
  <2>4. args \in Seq(Seq(Char)) /\ Len(args) = k
    BY <2>2, <2>3
  <2>5. args # <<>>
    BY <2>2, <2>4
  <2>. QED
    BY <2>4, <2>5 DEF Command
<1>. QED
  BY <1>2

(* And so are those with an argument too many.                             *)
LEMMA WideSent == Wide \subseteq Command
<1> SUFFICES ASSUME NEW args \in Wide PROVE args \in Command
  OBVIOUS
<1> DEFINE k == ArgMax + 1
<1>1. k \in Nat /\ k # 0
  BY LineAssumption
<1>2. PICK w \in Words(1) : args = [i \in 1..k |-> w]
  BY DEF Wide
<1>3. w \in Seq(Char)
  <2>1. PICK l \in 0..1 : w \in [1..l -> Char]
    BY DEF Words
  <2>. QED
    BY <2>1
<1> HIDE DEF k
<1>4. args \in Seq(Seq(Char)) /\ Len(args) = k
  BY <1>1, <1>2, <1>3
<1>. QED
  BY <1>1, <1>4 DEF Command

(* A command that is sent comes behind those on their way.                 *)
LEMMA SendKeeps ==
  ASSUME WireInv, NEW args \in Command, Send(args)
  PROVE  WireInv'
<1> DEFINE n == Len(sent)
           a == Len(answers)
<1>1. PICK V : answers \in Seq(V)
  BY DEF WireInv
<1>2. a \in Nat /\ n \in Nat /\ a <= n /\ sent \in Seq(Command) /\ stream \in Seq(Sendable)
  BY <1>1 DEF WireInv
<1>3. PICK k \in a..n : (Clean(sent, a) => k = a) /\ \E b : Cuts(sent, stream, k, b)
  BY DEF WireInv
<1>4. PICK b : Cuts(sent, stream, k, b)
  BY <1>3
<1>5. /\ sent' = Append(sent, args) /\ answers' = answers
      /\ stream' = stream \o encode_string(args) \o <<CR, LF>>
  BY DEF Send
<1>6. k \in 0..n /\ k \in a..(n + 1)
  BY <1>2
<1>7. stream' \in Seq(Sendable) /\ \E c : Cuts(sent', stream', k, c)
  BY <1>2, <1>4, <1>5, <1>6, CutOn
<1>8. sent' \in Seq(Command) /\ Len(sent') = n + 1 /\ \A i \in 1..n : sent'[i] = sent[i]
  BY <1>2, <1>5
<1> HIDE DEF a, n
<1>9. \A j \in 0..n : Clean(sent', j) <=> Clean(sent, j)
  <2>1. \A j \in 0..n : \A i \in 1..j : i \in 1..n
    BY <1>2
  <2>2. \A j \in 0..n : \A i \in 1..j : sent'[i] = sent[i]
    BY <1>8, <2>1
  <2>. QED
    BY <2>2 DEF Clean
<1>10. ASSUME NEW j \in 1..a, Clean(sent', j) PROVE answers'[j] = Expected(sent'[j])
  <2>1. j \in 0..n /\ j \in 1..n
    BY <1>2
  <2>2. Clean(sent, j) /\ sent'[j] = sent[j]
    BY <1>8, <1>9, <1>10, <2>1
  <2>3. answers[j] = Expected(sent[j])
    BY <1>10, <2>2 DEF WireInv, a
  <2>. QED
    BY <1>5, <2>2, <2>3
<1>11. Len(answers') = a /\ a <= n + 1 /\ a \in 0..n
  BY <1>2, <1>5 DEF a
<1>12. Clean(sent', a) => k = a
  BY <1>3, <1>9, <1>11
<1>13. /\ Len(answers') <= Len(sent')
       /\ \A j \in 1..Len(answers') : Clean(sent', j) => answers'[j] = Expected(sent'[j])
       /\ k \in Len(answers')..Len(sent') /\ (Clean(sent', Len(answers')) => k = Len(answers'))
  BY <1>6, <1>8, <1>10, <1>11, <1>12
<1>14. \E W : answers' \in Seq(W)
  BY <1>1, <1>5
<1>. QED
  BY <1>7, <1>8, <1>13, <1>14 DEF WireInv

(* What the shell makes of a line, once it is read.                        *)
Answer(r) ==
  IF ~r.read THEN [code |-> "line too long"]
  ELSE IF ~decode_string(r.line).ok THEN [code |-> "parse error"]
  ELSE [code |-> "command", args |-> decode_string(r.line).args]

(* The shell answers the next command, or one that is no longer clean.     *)
LEMMA ReceiveKeeps ==
  ASSUME WireInv, Receive
  PROVE  WireInv'
<1> DEFINE n == Len(sent)
           a == Len(answers)
           r == ReadLine(stream)
<1>1. PICK V : answers \in Seq(V)
  BY DEF WireInv
<1>2. a \in Nat /\ n \in Nat /\ a <= n /\ sent \in Seq(Command) /\ stream \in Seq(Sendable)
  BY <1>1 DEF WireInv
<1>3. PICK k \in a..n : (Clean(sent, a) => k = a) /\ \E b : Cuts(sent, stream, k, b)
  BY DEF WireInv
<1>4. PICK b : Cuts(sent, stream, k, b)
  BY <1>3
<1>5. Readable(stream) /\ stream' = r.rest /\ answers' = Append(answers, Answer(r)) /\ sent' = sent
  BY DEF Receive, Answer
<1>6. k \in 0..n /\ k \in Nat /\ a <= k
  BY <1>2
<1> DEFINE line == encode_string(sent[k + 1])
<1>7. k + 1 \in 1..n /\ r.rest \in Seq(Sendable)
  BY <1>2, <1>4, <1>5, <1>6, LineRead
<1>8. PICK m \in (k + 1)..n :
        /\ \E c : Cuts(sent, r.rest, m, c)
        /\ Len(line) \notin {LineMax - 1, LineMax} =>
             /\ m = k + 1
             /\ IF Len(line) + 1 < LineMax THEN r.read /\ r.line = line ELSE ~r.read
  BY <1>2, <1>4, <1>5, <1>6, LineRead
<1>9. ASSUME Clean(sent, a + 1) PROVE m = a + 1 /\ Answer(r) = Expected(sent[a + 1])
  <2>1. k = a
    <3>1. \A i \in 1..a : i \in 1..(a + 1)
      BY <1>2
    <3>. QED
      BY <1>3, <1>9, <3>1 DEF Clean
  <2>2. ~Swallowing(sent[k + 1])
    <3>1. k + 1 \in 1..(a + 1)
      BY <1>2, <2>1
    <3>. QED
      BY <1>9, <3>1 DEF Clean
  <2>3. Len(line) \notin {LineMax - 1, LineMax}
    BY <2>2 DEF Swallowing
  <2>4. decode_string(line) =
          IF Len(sent[k + 1]) <= ArgMax THEN [ok |-> TRUE, args |-> sent[k + 1]] ELSE [ok |-> FALSE]
    <3>1. sent[k + 1] \in Command
      BY <1>2, <1>7
    <3>. QED
      BY <3>1, CommandRead DEF Command
  <2>5. Len(line) \in Nat /\ Len(sent[k + 1]) \in Nat /\ LineMax \in Nat /\ ArgMax \in Nat
    <3>1. sent[k + 1] \in Command
      BY <1>2, <1>7
    <3>2. sent[k + 1] \in Seq(Seq(Char)) /\ sent[k + 1] # <<>>
      BY <3>1 DEF Command
    <3>3. line \in Seq(Plain)
      BY <3>2, CommandRead
    <3>. QED
      BY <3>2, <3>3, LineAssumption
  <2> HIDE DEF r
  <2>6. CASE Len(line) + 1 < LineMax
    <3>1. r.read /\ r.line = line
      BY <1>8, <2>3, <2>6
    <3>4. ~(Len(line) + 1 >= LineMax) /\ (Len(sent[k + 1]) > ArgMax <=> ~(Len(sent[k + 1]) <= ArgMax))
      BY <2>5, <2>6
    <3>2. CASE Len(sent[k + 1]) <= ArgMax
      <4> DEFINE d == decode_string(line)
      <4>1. d = [ok |-> TRUE, args |-> sent[k + 1]]
        BY <2>4, <3>2
      <4> HIDE DEF d
      <4>2. d.ok = TRUE /\ d.args = sent[k + 1]
        BY <4>1
      <4>3. Answer(r) = [code |-> "command", args |-> sent[k + 1]]
        BY <3>1, <4>2 DEF Answer, d
      <4>4. Expected(sent[k + 1]) = [code |-> "command", args |-> sent[k + 1]]
        BY <3>2, <3>4, Zenon DEF Expected
      <4>. QED
        BY <1>8, <2>1, <2>3, <4>3, <4>4
    <3>3. CASE ~(Len(sent[k + 1]) <= ArgMax)
      <4> DEFINE d == decode_string(line)
      <4>1. d = [ok |-> FALSE]
        BY <2>4, <3>3
      <4> HIDE DEF d
      <4>2. ~d.ok
        BY <4>1
      <4>3. Answer(r) = [code |-> "parse error"]
        BY <3>1, <4>2 DEF Answer, d
      <4>4. Expected(sent[k + 1]) = [code |-> "parse error"]
        BY <3>3, <3>4, Zenon DEF Expected
      <4>. QED
        BY <1>8, <2>1, <2>3, <4>3, <4>4
    <3>. QED
      BY <3>2, <3>3
  <2>7. CASE ~(Len(line) + 1 < LineMax)
    <3>1. ~r.read
      BY <1>8, <2>3, <2>7
    <3>2. Answer(r) = [code |-> "line too long"]
      BY <3>1 DEF Answer
    <3>3. Len(line) + 1 >= LineMax
      BY <2>5, <2>7
    <3>4. Expected(sent[k + 1]) = [code |-> "line too long"]
      BY <3>3, Zenon DEF Expected
    <3>. QED
      BY <1>8, <2>1, <2>3, <3>2, <3>4
  <2>. QED
    BY <2>6, <2>7
<1> HIDE DEF r, line
<1>10. PICK W : answers \in Seq(W) /\ Answer(r) \in W
  <2>1. answers \in Seq(V \cup {Answer(r)}) /\ Answer(r) \in V \cup {Answer(r)}
    BY <1>1
  <2>. QED
    BY <2>1
<1>11. /\ answers' \in Seq(W) /\ Len(answers') = a + 1 /\ answers'[a + 1] = Answer(r)
       /\ \A j \in 1..a : answers'[j] = answers[j]
  BY <1>5, <1>10, AppendProperties
<1>12. a + 1 <= n /\ m \in (a + 1)..n
  <2> HIDE DEF a, n
  <2>. QED
    BY <1>2, <1>6, <1>7
<1>13. ASSUME NEW j \in 1..(a + 1), Clean(sent, j) PROVE answers'[j] = Expected(sent[j])
  <2>1. CASE j = a + 1
    BY <1>9, <1>11, <1>13, <2>1
  <2>2. CASE j # a + 1
    <3>1. j \in 1..a
      <4> HIDE DEF a
      <4>. QED
        BY <1>2, <2>2
    <3>2. answers[j] = Expected(sent[j])
      BY <1>13, <3>1 DEF WireInv
    <3>. QED
      BY <1>11, <3>1, <3>2
  <2>. QED
    BY <2>1, <2>2
<1> HIDE DEF a, n
<1>14. /\ Len(answers') <= Len(sent')
       /\ \A j \in 1..Len(answers') : Clean(sent', j) => answers'[j] = Expected(sent'[j])
       /\ m \in Len(answers')..Len(sent') /\ (Clean(sent', Len(answers')) => m = Len(answers'))
  <2>1. Len(answers') = a + 1 /\ Len(sent') = n /\ sent' = sent
    BY <1>5, <1>11 DEF n
  <2>2. Clean(sent', a + 1) => m = a + 1
    BY <1>9, <2>1
  <2>3. \A j \in 1..(a + 1) : Clean(sent', j) => answers'[j] = Expected(sent'[j])
    BY <1>13, <2>1
  <2>. QED
    BY <1>12, <2>1, <2>2, <2>3
<1>15. sent' \in Seq(Command) /\ stream' \in Seq(Sendable) /\ \E c : Cuts(sent', stream', m, c)
  BY <1>2, <1>5, <1>7, <1>8
<1>. QED
  BY <1>11, <1>14, <1>15 DEF WireInv

(* Every command that has not too many arguments and whose line is not too *)
(* long is executed as it was sent, and every other is refused: the encoder*)
(* and the decoder agree on every argument, and the lines are found again  *)
(* in the stream.                                                          *)
THEOREM CommandsCross == WireSpec => []ExecutedAsSent
<1>1. WireInit => WireInv
  <2> SUFFICES ASSUME WireInit PROVE WireInv
    OBVIOUS
  <2>1. sent = <<>> /\ stream = <<>> /\ answers = <<>>
    BY DEF WireInit
  <2>2. Cuts(<<>>, <<>>, 0, [j \in 0..0 |-> 0])
    BY DEF Cuts
  <2>3. <<>> \in Seq(Command) /\ <<>> \in Seq(Sendable) /\ Len(<<>>) = 0
    OBVIOUS
  <2>4. 0 \in 0..0 /\ 1..0 = {}
    OBVIOUS
  <2>. QED
    BY <2>1, <2>2, <2>3, <2>4 DEF WireInv
<1>2. WireInv /\ [WireNext]_lineVars => WireInv'
  <2> SUFFICES ASSUME WireInv, [WireNext]_lineVars PROVE WireInv'
    OBVIOUS
  <2>1. CASE Receive
    BY <2>1, ReceiveKeeps
  <2>2. ASSUME NEW args \in Commands(MaxWord) \cup Brief, Send(args) PROVE WireInv'
    <3>1. 1 \in Nat /\ MaxWord \in Nat
      BY LineAssumption
    <3>2. args \in Command
      BY <3>1, CommandsSent, WideSent DEF Brief
    <3>. QED
      BY <2>2, <3>2, SendKeeps
  <2>3. CASE UNCHANGED lineVars
    <3>1. sent' = sent /\ stream' = stream /\ answers' = answers
      BY <2>3 DEF lineVars
    <3>. QED
      BY <3>1 DEF WireInv
  <2>4. CASE WireNext
    BY <2>1, <2>2, <2>4 DEF WireNext
  <2>. QED
    BY <2>3, <2>4
<1>3. WireInv => ExecutedAsSent
  <2> SUFFICES ASSUME WireInv PROVE ExecutedAsSent
    OBVIOUS
  <2>1. Len(answers) <= Len(sent)
    BY DEF WireInv
  <2>2. PICK V : answers \in Seq(V)
    BY DEF WireInv
  <2>3. DOMAIN answers = 1..Len(answers)
    BY <2>2
  <2>4. \A k \in DOMAIN answers : Clean(sent, k) => answers[k] = Expected(sent[k])
    BY <2>3 DEF WireInv
  <2>. QED
    BY <2>1, <2>4 DEF ExecutedAsSent, Clean
<1>. QED
  BY <1>1, <1>2, <1>3, PTL DEF WireSpec
=============================================================================
