---------------------------- MODULE QuantityProofs ----------------------------
(***************************************************************************)
(* Facts about the exact rationals of dmath, for all quantities: they are  *)
(* closed under the four operations, which respect the order and obey the  *)
(* laws of a field as far as they are used.  Reducing a fraction does not  *)
(* change which rational it is (CanonicalForm), and two fractions of the   *)
(* same value are reduced to the same pair (CanonicalUnique), so equality  *)
(* of quantities is equality of numbers; the rest is arithmetic on         *)
(* numerators and denominators.                                            *)
(*                                                                         *)
(* The last part is about Total, the sum of a function's values, which     *)
(* is a fold: it does not depend on the order in which the fold chooses    *)
(* the keys (TotalRest).                                                   *)
(***************************************************************************)
EXTENDS Quantity, FiniteSetTheorems, TLAPS

(* A finite set of integers that is not empty has a greatest element.      *)
LEMMA MaxIsGreatest ==
  ASSUME NEW S \in SUBSET Int, IsFiniteSet(S), S # {}
  PROVE  Max(S) \in S /\ \A y \in S : Max(S) >= y
<1> DEFINE Above(x) == {y \in S : y > x}
           T == {Above(x) : x \in S}
<1>1. T # {} /\ T \subseteq FiniteSubsetsOf(S)
  <2>1. FiniteSubsetsOf(S) = SUBSET S
    BY FS_FiniteSubsetsOfFinite
  <2>2. \A x \in S : Above(x) \in SUBSET S
    OBVIOUS
  <2>3. \E x : x \in S
    OBVIOUS
  <2> HIDE DEF Above
  <2> QED BY <2>1, <2>2, <2>3
<1>2. PICK A \in T : \A B \in T : <<B, A>> \notin StrictSubsetOrdering(S)
  <2> HIDE DEF T
  <2> QED BY <1>1, FS_StrictSubsetOrderingWellFounded, WFMin
<1>3. PICK m \in S : A = Above(m)
  OBVIOUS
<1>4. \A y \in S : m >= y
  <2> SUFFICES ASSUME NEW y \in S, y > m PROVE FALSE
    OBVIOUS
  <2>1. Above(y) \subseteq Above(m)
    <3> SUFFICES ASSUME NEW z \in S, z > y PROVE z > m
      OBVIOUS
    <3> QED OBVIOUS
  <2>2. y \in Above(m) /\ y \notin Above(y)
    OBVIOUS
  <2>3. Above(y) \in T /\ Above(y) \in SUBSET S /\ Above(m) \in SUBSET S
    OBVIOUS
  <2> HIDE DEF Above
  <2> QED BY <2>1, <2>2, <2>3, <1>2, <1>3 DEF StrictSubsetOrdering
<1> QED BY <1>4 DEF Max

(* The greatest common divisor that Canonical divides by exists.           *)
LEMMA GreatestDivisor ==
  ASSUME NEW f \in Quantity
  PROVE  LET g == Max(CommonDivisors(f))
         IN  g \in Nat \ {0} /\ f[1] % g = 0 /\ f[2] % g = 0
<1> USE DEF Quantity
<1>1. 1 \in CommonDivisors(f)
  BY DEF CommonDivisors
<1>2. CommonDivisors(f) \subseteq 1..f[2]
  BY DEF CommonDivisors
<1>3. IsFiniteSet(CommonDivisors(f))
  <2>1. f[2] \in Int /\ IsFiniteSet(1..f[2])
    BY FS_Interval
  <2> QED BY <1>2, <2>1, FS_Subset
<1>4. Max(CommonDivisors(f)) \in CommonDivisors(f)
  BY <1>1, <1>2, <1>3, MaxIsGreatest
<1> QED BY <1>4 DEF CommonDivisors

(* Dividing by a divisor can be undone.                                    *)
LEMMA ExactQuotient ==
  ASSUME NEW n \in Int, NEW g \in Nat \ {0}, n % g = 0
  PROVE  n \div g \in Int /\ (n \div g) * g = n
OBVIOUS

(* A factor of a positive product with a positive number is positive.      *)
LEMMA PositiveFactor ==
  ASSUME NEW b \in Int, NEW g \in Nat \ {0}, b * g > 0
  PROVE  b > 0
<1> SUFFICES ASSUME b <= 0 PROVE b * g <= 0
  OBVIOUS
<1> QED OBVIOUS

(* Reducing a fraction keeps the rational: f is Canonical[f] multiplied    *)
(* out by some g.                                                          *)
LEMMA CanonicalForm ==
  ASSUME NEW f \in Quantity
  PROVE  /\ Canonical[f] \in Quantity
         /\ \E g \in Nat \ {0} : /\ Canonical[f][1] * g = f[1]
                                 /\ Canonical[f][2] * g = f[2]
<1> DEFINE g == Max(CommonDivisors(f))
<1>1. g \in Nat \ {0} /\ f[1] % g = 0 /\ f[2] % g = 0
  BY GreatestDivisor
<1>2. Canonical[f] = <<f[1] \div g, f[2] \div g>>
  BY DEF Canonical
<1> HIDE DEF g
<1>3. f[1] \in Int /\ f[2] \in Int /\ f[2] > 0
  BY DEF Quantity
<1>4. f[1] \div g \in Int /\ (f[1] \div g) * g = f[1]
  BY <1>1, <1>3, ExactQuotient
<1>5. f[2] \div g \in Int /\ (f[2] \div g) * g = f[2]
  BY <1>1, <1>3, ExactQuotient
<1>6. f[2] \div g > 0
  BY <1>1, <1>3, <1>5, PositiveFactor
<1> QED BY <1>1, <1>2, <1>4, <1>5, <1>6 DEF Quantity

(* The sum of two quantities is a quantity.                                *)
LEMMA PlusQuantity ==
  ASSUME NEW p \in Quantity, NEW q \in Quantity
  PROVE  p (+) q \in Quantity
<1>1. <<p[1] * q[2] + q[1] * p[2], p[2] * q[2]>> \in Quantity
  BY DEF Quantity
<1>2. p (+) q = Canonical[<<p[1] * q[2] + q[1] * p[2], p[2] * q[2]>>]
  BY DEF (+), Plus, Operands
<1> QED BY <1>1, <1>2, CanonicalForm

(* The difference of two quantities is a quantity.                         *)
LEMMA MinusQuantity ==
  ASSUME NEW p \in Quantity, NEW q \in Quantity
  PROVE  p (-) q \in Quantity
<1>1. <<p[1] * q[2] - q[1] * p[2], p[2] * q[2]>> \in Quantity
  BY DEF Quantity
<1>2. p (-) q = Canonical[<<p[1] * q[2] - q[1] * p[2], p[2] * q[2]>>]
  BY DEF (-), Minus, Operands
<1> QED BY <1>1, <1>2, CanonicalForm

(* Nothing plus a positive quantity is positive.                           *)
LEMMA ZeroPlusPositive ==
  ASSUME NEW q \in Positive
  PROVE  Zero (+) q \in Positive
<1> DEFINE f == <<Zero[1] * q[2] + q[1] * Zero[2], Zero[2] * q[2]>>
<1>1. f \in Quantity /\ f[1] > 0
  BY DEF Quantity, Positive, Zero
<1>2. Zero (+) q = Canonical[f]
  <2>1. Zero \in Quantity /\ q \in Quantity
    BY DEF Zero, Positive, Quantity
  <2> QED BY <2>1 DEF (+), Plus, Operands
<1> HIDE DEF f
<1>3. PICK g \in Nat \ {0} : Canonical[f][1] * g = f[1]
  BY <1>1, CanonicalForm
<1>4. Canonical[f] \in Quantity /\ Canonical[f][1] \in Int
  BY <1>1, CanonicalForm DEF Quantity
<1>5. Canonical[f][1] > 0
  BY <1>1, <1>3, <1>4, PositiveFactor
<1> QED BY <1>2, <1>4, <1>5 DEF Positive

(* Adding a positive quantity never makes a quantity smaller.              *)
LEMMA PlusNotLess ==
  ASSUME NEW p \in Quantity, NEW q \in Positive
  PROVE  ~ (p (+) q \prec p)
<1> DEFINE f == <<p[1] * q[2] + q[1] * p[2], p[2] * q[2]>>
           c == Canonical[f]
<1>1. /\ p[1] \in Int /\ p[2] \in Int /\ p[2] > 0
      /\ q[1] \in Int /\ q[1] > 0 /\ q[2] \in Int /\ q[2] > 0
      /\ q \in Quantity
  BY DEF Quantity, Positive
<1>2. f \in Quantity
  BY <1>1 DEF Quantity
<1>3. p (+) q = c
  BY <1>1 DEF (+), Plus, Operands
<1>4. PICK g \in Nat \ {0} : c[1] * g = f[1] /\ c[2] * g = f[2]
  BY <1>2, CanonicalForm
<1>5. c[1] \in Int /\ c[2] \in Int
  BY <1>2, CanonicalForm DEF Quantity
<1> HIDE DEF c
<1>6. (c[1] * p[2] - p[1] * c[2]) * g = q[1] * p[2] * p[2]
  <2>1. c[1] * p[2] * g = f[1] * p[2]
    BY <1>1, <1>4, <1>5
  <2>2. p[1] * c[2] * g = p[1] * f[2]
    BY <1>1, <1>4, <1>5
  <2>3. f[1] * p[2] - p[1] * f[2] = q[1] * p[2] * p[2]
    BY <1>1
  <2> QED BY <2>1, <2>2, <2>3, <1>1, <1>4, <1>5
<1>7. q[1] * p[2] * p[2] > 0
  BY <1>1
<1>8. c[1] * p[2] - p[1] * c[2] > 0
  BY <1>1, <1>5, <1>6, <1>7, PositiveFactor
<1> QED BY <1>3, <1>8, <1>1, <1>5 DEF \prec

(* Taking no more than there is leaves nothing negative.                   *)
LEMMA MinusNotNegative ==
  ASSUME NEW p \in Quantity, NEW q \in Quantity, q \preceq p
  PROVE  ~ (p (-) q \prec Zero)
<1> DEFINE f == <<p[1] * q[2] - q[1] * p[2], p[2] * q[2]>>
           c == Canonical[f]
<1>1. /\ p[1] \in Int /\ p[2] \in Int /\ p[2] > 0
      /\ q[1] \in Int /\ q[2] \in Int /\ q[2] > 0
  BY DEF Quantity
<1>2. f \in Quantity
  BY <1>1 DEF Quantity
<1>3. f[1] >= 0
  BY <1>1 DEF \preceq
<1>4. p (-) q = c
  BY DEF (-), Minus, Operands
<1>5. PICK g \in Nat \ {0} : c[1] * g = f[1]
  BY <1>2, CanonicalForm
<1>6. c[1] \in Int /\ c[2] \in Int
  BY <1>2, CanonicalForm DEF Quantity
<1> HIDE DEF c, f
<1>7. c[1] >= 0
  BY <1>3, <1>5, <1>6
<1> QED BY <1>4, <1>6, <1>7 DEF \prec, Zero

-----------------------------------------------------------------------------
(* The order, products and quotients                                       *)

(* Multiplying by a positive number respects the order and can be undone.  *)
LEMMA TimesOrder ==
  ASSUME NEW a \in Int, NEW b \in Int, NEW g \in Int, g > 0
  PROVE  /\ a <= b <=> a * g <= b * g
         /\ a < b <=> a * g < b * g
         /\ a = b <=> a * g = b * g
<1>1. a < b => a * g < b * g
  <2>1. (b - a) * g = b * g - a * g
    OBVIOUS
  <2>2. b - a > 0 => (b - a) * g > 0
    <3> DEFINE k == b - a
    <3>1. k \in Int
      OBVIOUS
    <3> HIDE DEF k
    <3>2. k > 0 => k * g > 0
      BY <3>1
    <3>. QED
      BY <3>2 DEF k
  <2>. QED
    BY <2>1, <2>2
<1>2. b < a => b * g < a * g
  <2>1. (a - b) * g = a * g - b * g
    OBVIOUS
  <2>2. a - b > 0 => (a - b) * g > 0
    <3> DEFINE k == a - b
    <3>1. k \in Int
      OBVIOUS
    <3> HIDE DEF k
    <3>2. k > 0 => k * g > 0
      BY <3>1
    <3>. QED
      BY <3>2 DEF k
  <2>. QED
    BY <2>1, <2>2
<1>3. a * g \in Int /\ b * g \in Int /\ (a = b => a * g = b * g)
  OBVIOUS
<1>. QED
  BY <1>1, <1>2, <1>3

(* The same rational, in lowest terms or not.                              *)
Same(p, q) == p[1] * q[2] = q[1] * p[2]

LEMMA CanonicalSame ==
  ASSUME NEW f \in Quantity
  PROVE  Canonical[f] \in Quantity /\ Same(Canonical[f], f)
<1> DEFINE c == Canonical[f]
<1>1. c \in Quantity
  BY CanonicalForm
<1>2. PICK g \in Nat \ {0} : c[1] * g = f[1] /\ c[2] * g = f[2]
  BY CanonicalForm
<1> HIDE DEF c
<1>3. c[1] \in Int /\ c[2] \in Int
  BY <1>1 DEF Quantity
<1>4. c[1] * f[2] = f[1] * c[2]
  BY <1>2, <1>3
<1>. QED
  BY <1>1, <1>4 DEF Same, c

(* The order does not tell them apart.                                     *)
LEMMA SameOrder ==
  ASSUME NEW c \in Quantity, NEW f \in Quantity, NEW h \in Quantity, Same(c, f)
  PROVE  /\ c \preceq h <=> f \preceq h
         /\ h \preceq c <=> h \preceq f
         /\ c \prec h <=> f \prec h
         /\ h \prec c <=> h \prec f
<1>1. /\ c[1] \in Int /\ c[2] \in Int /\ c[2] > 0
      /\ f[1] \in Int /\ f[2] \in Int /\ f[2] > 0
      /\ h[1] \in Int /\ h[2] \in Int /\ h[2] > 0
  BY DEF Quantity
<1> DEFINE ch == c[1] * h[2]  hc == h[1] * c[2]
           fh == f[1] * h[2]  hf == h[1] * f[2]
<1>2. ch \in Int /\ hc \in Int /\ fh \in Int /\ hf \in Int
  BY <1>1
<1>3. ch * f[2] = fh * c[2]
  <2>1. ch * f[2] = (c[1] * f[2]) * h[2]
    BY <1>1
  <2>2. fh * c[2] = (f[1] * c[2]) * h[2]
    BY <1>1
  <2>. QED
    BY <2>1, <2>2 DEF Same
<1>4. hc * f[2] = hf * c[2]
  BY <1>1
<1> HIDE DEF ch, hc, fh, hf
<1>5. /\ ch <= hc <=> fh <= hf
      /\ hc <= ch <=> hf <= fh
      /\ ch < hc <=> fh < hf
      /\ hc < ch <=> hf < fh
  <2>1. /\ ch <= hc <=> ch * f[2] <= hc * f[2]
        /\ hc <= ch <=> hc * f[2] <= ch * f[2]
        /\ ch < hc <=> ch * f[2] < hc * f[2]
        /\ hc < ch <=> hc * f[2] < ch * f[2]
    BY <1>1, <1>2, TimesOrder
  <2>2. /\ fh <= hf <=> fh * c[2] <= hf * c[2]
        /\ hf <= fh <=> hf * c[2] <= fh * c[2]
        /\ fh < hf <=> fh * c[2] < hf * c[2]
        /\ hf < fh <=> hf * c[2] < fh * c[2]
    BY <1>1, <1>2, TimesOrder
  <2>. QED
    BY <2>1, <2>2, <1>3, <1>4
<1>. QED
  BY <1>5 DEF ch, hc, fh, hf, \preceq, \prec

(* Any two quantities are comparable, and the order is transitive.         *)
LEMMA TotalOrder ==
  ASSUME NEW p \in Quantity, NEW q \in Quantity, NEW r \in Quantity
  PROVE  /\ p \preceq q \/ q \preceq p
         /\ p \prec q <=> ~(q \preceq p)
         /\ p \preceq q /\ q \preceq r => p \preceq r
<1>1. /\ p[1] \in Int /\ p[2] \in Int /\ p[2] > 0
      /\ q[1] \in Int /\ q[2] \in Int /\ q[2] > 0
      /\ r[1] \in Int /\ r[2] \in Int /\ r[2] > 0
  BY DEF Quantity
<1>2. /\ p[1] * q[2] \in Int /\ q[1] * p[2] \in Int /\ q[1] * r[2] \in Int
      /\ r[1] * q[2] \in Int /\ p[1] * r[2] \in Int /\ r[1] * p[2] \in Int
  BY <1>1
<1>3. ASSUME p[1] * q[2] <= q[1] * p[2], q[1] * r[2] <= r[1] * q[2]
      PROVE  p[1] * r[2] <= r[1] * p[2]
  <2>1. (p[1] * q[2]) * r[2] <= (q[1] * p[2]) * r[2]
    BY <1>1, <1>2, <1>3, TimesOrder
  <2>2. (q[1] * r[2]) * p[2] <= (r[1] * q[2]) * p[2]
    BY <1>1, <1>2, <1>3, TimesOrder
  <2>3. (p[1] * q[2]) * r[2] = (p[1] * r[2]) * q[2]
    BY <1>1
  <2>4. (q[1] * p[2]) * r[2] = (q[1] * r[2]) * p[2]
    BY <1>1
  <2>5. (r[1] * q[2]) * p[2] = (r[1] * p[2]) * q[2]
    BY <1>1
  <2>6. (p[1] * r[2]) * q[2] \in Int /\ (r[1] * p[2]) * q[2] \in Int /\ (q[1] * r[2]) * p[2] \in Int
    BY <1>1
  <2>7. (p[1] * r[2]) * q[2] <= (r[1] * p[2]) * q[2]
    BY <2>1, <2>2, <2>3, <2>4, <2>5, <2>6
  <2>. QED
    BY <1>1, <1>2, <2>7, TimesOrder
<1>. QED
  BY <1>2, <1>3 DEF \preceq, \prec

(* Canonical[f] has the sign of f, and there is one zero.                  *)
LEMMA CanonicalSign ==
  ASSUME NEW f \in Quantity
  PROVE  /\ f[1] > 0 => Canonical[f] \in Positive
         /\ f[1] = 0 => Canonical[f] = Zero
<1>1. ASSUME f[1] > 0 PROVE Canonical[f] \in Positive
  <2>1. PICK g \in Nat \ {0} : Canonical[f][1] * g = f[1]
    BY CanonicalForm
  <2>2. Canonical[f] \in Quantity /\ Canonical[f][1] \in Int
    BY CanonicalForm DEF Quantity
  <2>. QED
    BY <1>1, <2>1, <2>2, PositiveFactor DEF Positive
<1>2. ASSUME f[1] = 0 PROVE Canonical[f] = Zero
  <2> DEFINE S == CommonDivisors(f)
  <2>1. f[2] \in Nat \ {0} /\ f[2] \in 1 .. f[2]
    BY DEF Quantity
  <2>2. f[2] \in S
    <3>1. 0 % f[2] = 0 /\ f[2] % f[2] = 0
      BY <2>1
    <3>. QED
      BY <1>2, <2>1, <3>1 DEF CommonDivisors
  <2>3. S \in SUBSET Int /\ S \subseteq 1 .. f[2]
    BY <2>1 DEF CommonDivisors
  <2>4. IsFiniteSet(S)
    <3>1. IsFiniteSet(1 .. f[2])
      BY <2>1, FS_Interval
    <3>. QED
      BY <2>3, <3>1, FS_Subset
  <2>5. Max(S) \in S /\ \A y \in S : Max(S) >= y
    BY <2>2, <2>3, <2>4, MaxIsGreatest
  <2>6. Max(S) = f[2]
    BY <2>1, <2>2, <2>3, <2>5
  <2>7. Canonical[f] = <<f[1] \div f[2], f[2] \div f[2]>>
    BY <2>6 DEF Canonical
  <2>8. 0 \div f[2] = 0 /\ f[2] \div f[2] = 1
    BY <2>1
  <2>. QED
    BY <1>2, <2>7, <2>8 DEF Zero
<1>. QED
  BY <1>1, <1>2

(* The numerators and denominators before mpq_canonicalize.                *)
Product(p, q)  == <<p[1] * q[1], p[2] * q[2]>>
Quotient(p, q) == <<p[1] * q[2], p[2] * q[1]>>

LEMMA PositiveParts ==
  ASSUME NEW q \in Positive
  PROVE  /\ q \in Quantity
         /\ q[1] \in Int /\ q[1] > 0
         /\ q[2] \in Int /\ q[2] > 0
BY DEF Positive, Quantity

LEMMA TimesPositive ==
  ASSUME NEW p \in Positive, NEW q \in Positive
  PROVE  /\ Product(p, q) \in Quantity
         /\ p (\X) q \in Positive
         /\ Same(p (\X) q, Product(p, q))
         /\ p (\X) q = q (\X) p
<1>1. p \in Quantity /\ q \in Quantity
  BY PositiveParts
<1>2. /\ Product(p, q) \in Quantity /\ Product(p, q)[1] > 0
      /\ Product(p, q) = Product(q, p)
  BY PositiveParts DEF Product, Quantity
<1>3. p (\X) q = Canonical[Product(p, q)] /\ q (\X) p = Canonical[Product(q, p)]
  BY <1>1 DEF (\X), Times, Operands, Product
<1>. QED
  BY <1>2, <1>3, CanonicalSame, CanonicalSign

LEMMA OverPositive ==
  ASSUME NEW p \in Positive, NEW q \in Positive
  PROVE  /\ Quotient(p, q) \in Quantity
         /\ p (/) q \in Positive
         /\ Same(p (/) q, Quotient(p, q))
         /\ p \prec q => p (/) q \prec One
<1>1. p \in Quantity /\ q \in Quantity
  BY PositiveParts
<1>2. Quotient(p, q) \in Quantity /\ Quotient(p, q)[1] > 0
  BY PositiveParts DEF Quotient, Quantity
<1>3. p (/) q = Canonical[Quotient(p, q)]
  BY <1>1 DEF (/), Over, Quotient
<1>4. p (/) q \in Positive /\ p (/) q \in Quantity /\ Same(p (/) q, Quotient(p, q))
  BY <1>2, <1>3, CanonicalSame, CanonicalSign
<1>5. p \prec q => Quotient(p, q) \prec One
  BY PositiveParts DEF \prec, Quotient, One
<1>6. One \in Quantity
  BY DEF One, Quantity
<1>. QED
  BY <1>2, <1>4, <1>5, <1>6, SameOrder

(* Products of positive quantities grow with their factors.                *)
LEMMA TimesMonotone ==
  ASSUME NEW p \in Positive, NEW q \in Positive, NEW r \in Positive, NEW s \in Positive,
         p \preceq r, q \preceq s
  PROVE  p (\X) q \preceq r (\X) s
<1>1. /\ p[1] \in Int /\ p[2] \in Int /\ p[2] > 0 /\ p[1] > 0
      /\ q[1] \in Int /\ q[2] \in Int /\ q[2] > 0 /\ q[1] > 0
      /\ r[1] \in Int /\ r[2] \in Int /\ r[2] > 0 /\ r[1] > 0
      /\ s[1] \in Int /\ s[2] \in Int /\ s[2] > 0 /\ s[1] > 0
  BY PositiveParts
<1> DEFINE a == p[1] * r[2]  b == r[1] * p[2]
           c == q[1] * s[2]  d == s[1] * q[2]
<1>2. a \in Int /\ b \in Int /\ c \in Int /\ d \in Int /\ a > 0 /\ b > 0 /\ c > 0 /\ d > 0
  BY <1>1
<1>3. a <= b /\ c <= d
  BY DEF \preceq
<1>4. (p[1] * q[1]) * (r[2] * s[2]) = a * c
  BY <1>1
<1>5. (r[1] * s[1]) * (p[2] * q[2]) = d * b
  BY <1>1
<1> HIDE DEF a, b, c, d
<1>6. a * c <= d * b
  <2>1. a * c <= b * c
    BY <1>2, <1>3, TimesOrder
  <2>2. c * b <= d * b
    BY <1>2, <1>3, TimesOrder
  <2>3. b * c = c * b /\ a * c \in Int /\ b * c \in Int /\ d * b \in Int
    BY <1>2
  <2>. QED
    BY <2>1, <2>2, <2>3
<1>7. Product(p, q) \preceq Product(r, s)
  BY <1>4, <1>5, <1>6 DEF Product, \preceq
<1>8. /\ p (\X) q \in Quantity /\ Product(p, q) \in Quantity /\ Same(p (\X) q, Product(p, q))
      /\ r (\X) s \in Quantity /\ Product(r, s) \in Quantity /\ Same(r (\X) s, Product(r, s))
  BY TimesPositive, PositiveParts
<1>9. p (\X) q \preceq Product(r, s)
  BY <1>7, <1>8, SameOrder
<1>. QED
  BY <1>8, <1>9, SameOrder

(* What is left of a quantity when the part theta of it is taken: nothing  *)
(* if theta is the whole, and something, but less, if it is not.           *)
LEMMA RestOfPart ==
  ASSUME NEW q \in Positive, NEW theta \in Positive
  PROVE  /\ theta = One => q (-) (q (\X) theta) = Zero
         /\ theta \prec One => /\ q (-) (q (\X) theta) \in Positive
                               /\ q (-) (q (\X) theta) \prec q
<1> DEFINE t == q (\X) theta
           f == <<q[1] * t[2] - t[1] * q[2], q[2] * t[2]>>
<1>1. t \in Positive /\ Same(t, Product(q, theta)) /\ Product(q, theta) \in Quantity
  BY TimesPositive
<1> HIDE DEF t
<1>2. /\ q \in Quantity /\ q[1] \in Int /\ q[1] > 0 /\ q[2] \in Int /\ q[2] > 0
      /\ theta \in Quantity /\ theta[1] \in Int /\ theta[1] > 0 /\ theta[2] \in Int /\ theta[2] > 0
      /\ t \in Quantity /\ t[1] \in Int /\ t[1] > 0 /\ t[2] \in Int /\ t[2] > 0
  BY <1>1, PositiveParts
<1>3. t[1] * q[2] \in Int /\ q[1] * t[2] \in Int /\ q[2] * t[2] \in Int /\ q[2] * t[2] > 0
  BY <1>2
<1>4. f \in Quantity
  BY <1>3 DEF Quantity
<1>5. q (-) t = Canonical[f]
  BY <1>2 DEF (-), Minus, Operands
<1>6. (t[1] * q[2]) * theta[2] = (q[1] * t[2]) * theta[1]
  <2>1. t[1] * (q[2] * theta[2]) = (q[1] * theta[1]) * t[2]
    BY <1>1 DEF Same, Product
  <2>. QED
    BY <1>2, <2>1
<1>7. ASSUME theta = One PROVE q (-) t = Zero
  <2>1. t[1] * q[2] = q[1] * t[2]
    BY <1>3, <1>6, <1>7 DEF One
  <2>2. f[1] = 0
    BY <1>3, <2>1
  <2>. QED
    BY <1>4, <1>5, <2>2, CanonicalSign
<1>8. ASSUME theta \prec One PROVE q (-) t \in Positive /\ q (-) t \prec q
  <2>1. theta[1] < theta[2]
    BY <1>2, <1>8 DEF One, \prec
  <2>2. t[1] * q[2] < q[1] * t[2]
    <3> DEFINE x == t[1] * q[2]  y == q[1] * t[2]
    <3>1. x \in Int /\ y \in Int /\ y > 0 /\ x * theta[2] = y * theta[1]
      BY <1>2, <1>3, <1>6
    <3> HIDE DEF x, y
    <3>2. theta[1] * y < theta[2] * y
      BY <1>2, <2>1, <3>1, TimesOrder
    <3>3. x * theta[2] < y * theta[2]
      BY <1>2, <3>1, <3>2
    <3>4. x < y
      BY <1>2, <3>1, <3>3, TimesOrder
    <3>. QED
      BY <3>4 DEF x, y
  <2>3. f[1] > 0
    BY <1>3, <2>2
  <2>4. q (-) t \in Positive /\ q (-) t \in Quantity /\ Same(q (-) t, f)
    BY <1>4, <1>5, <2>3, CanonicalSame, CanonicalSign
  <2>5. f \prec q
    <3> DEFINE u == q[1] * t[2]  v == t[1] * q[2]
    <3>1. u \in Int /\ v \in Int /\ v > 0
      BY <1>2
    <3>2. f[1] * q[2] = (u - v) * q[2] /\ q[1] * f[2] = u * q[2]
      BY <1>2
    <3> HIDE DEF u, v
    <3>3. (u - v) * q[2] < u * q[2]
      BY <1>2, <3>1, TimesOrder
    <3>. QED
      BY <3>2, <3>3 DEF \prec
  <2>. QED
    BY <1>2, <1>4, <2>4, <2>5, SameOrder
<1>. QED
  BY <1>7, <1>8 DEF t

(* Of finitely many things with a quantity each, one has the least.        *)
LEMMA LeastOfFinite ==
  ASSUME NEW S, IsFiniteSet(S), S # {}, NEW f \in [S -> Quantity]
  PROVE  \E m \in S : \A y \in S : f[m] \preceq f[y]
<1> DEFINE Below(x) == {y \in S : f[y] \prec f[x]}
           T == {Below(x) : x \in S}
<1>1. T # {} /\ T \subseteq FiniteSubsetsOf(S)
  <2>1. FiniteSubsetsOf(S) = SUBSET S
    BY FS_FiniteSubsetsOfFinite
  <2>2. \A x \in S : Below(x) \in SUBSET S
    OBVIOUS
  <2>3. \E x : x \in S
    OBVIOUS
  <2> HIDE DEF Below
  <2> QED BY <2>1, <2>2, <2>3
<1>2. PICK A \in T : \A B \in T : <<B, A>> \notin StrictSubsetOrdering(S)
  <2> HIDE DEF T
  <2> QED BY <1>1, FS_StrictSubsetOrderingWellFounded, WFMin
<1>3. PICK m \in S : A = Below(m)
  OBVIOUS
<1>4. ASSUME NEW y \in S PROVE f[m] \preceq f[y]
  <2> SUFFICES ASSUME f[y] \prec f[m] PROVE FALSE
    BY TotalOrder
  <2>2. Below(y) \subseteq Below(m)
    <3> SUFFICES ASSUME NEW z \in S, f[z] \prec f[y] PROVE f[z] \prec f[m]
      OBVIOUS
    <3>1. f[z] \in Quantity /\ f[y] \in Quantity /\ f[m] \in Quantity
      OBVIOUS
    <3>2. f[m] \preceq f[z] => f[m] \preceq f[y]
      BY <3>1, TotalOrder
    <3> QED BY <3>1, <3>2, TotalOrder
  <2>3. y \in Below(m) /\ y \notin Below(y)
    BY TotalOrder
  <2>4. Below(y) \in T /\ Below(y) \in SUBSET S /\ Below(m) \in SUBSET S
    OBVIOUS
  <2> HIDE DEF Below
  <2> QED BY <2>2, <2>3, <2>4, <1>2, <1>3 DEF StrictSubsetOrdering
<1> QED BY <1>4

-----------------------------------------------------------------------------
(* Equal rationals have equal canonical forms.                             *)

(* The denominators, up to that of f, of the rational f.                   *)
Denominators(f) == {y \in 1 .. f[2] : \E x \in Int : x * f[2] = f[1] * y}

(* Multiples leave no remainder.                                           *)
LEMMA MultipleDivides ==
  ASSUME NEW x \in Int, NEW g \in Nat \ {0}
  PROVE  (x * g) % g = 0
<1> DEFINE n == x * g  q == n \div g  r == n % g
<1>1. n \in Int /\ q \in Int /\ r \in Int /\ n = q * g + r /\ 0 <= r /\ r < g
  <2>1. n \in Int
    OBVIOUS
  <2> HIDE DEF n
  <2>. QED
    BY <2>1
<1>2. r = (x - q) * g
  <2>1. x * g = q * g + r
    BY <1>1
  <2> HIDE DEF q, r, n
  <2>. QED
    BY <1>1, <2>1
<1> DEFINE k == x - q
<1>3. k \in Int
  BY <1>1
<1> HIDE DEF k
<1>4. r = k * g
  BY <1>2 DEF k
<1> HIDE DEF r, q, n
<1>5. k <= 0
  <2>1. k >= 1 => k * g >= 1 * g
    BY <1>3, TimesOrder
  <2>. QED
    BY <1>1, <1>3, <1>4, <2>1
<1>6. k >= 0
  <2>1. k < 0 => k * g < 0 * g
    BY <1>3, TimesOrder
  <2>. QED
    BY <1>1, <1>3, <1>4, <2>1
<1>7. r = 0
  BY <1>3, <1>4, <1>5, <1>6
<1>. QED
  BY <1>7 DEF r, n

(* The least denominator divides them all.                                 *)
LEMMA LowestTerms ==
  ASSUME NEW f \in Quantity
  PROVE  \E x \in Int, y \in Nat \ {0} : \A h \in Quantity :
           Same(h, f) => \E k \in Nat \ {0} : h[1] = k * x /\ h[2] = k * y
<1> DEFINE D == Denominators(f)
           w == [y \in D |-> <<y, 1>>]
<1>1. f[1] \in Int /\ f[2] \in Nat /\ f[2] > 0
  BY DEF Quantity
<1>2. IsFiniteSet(D) /\ f[2] \in D /\ D \subseteq 1 .. f[2]
  <2>1. f[1] * f[2] = f[1] * f[2] /\ f[2] \in 1 .. f[2]
    BY <1>1
  <2>2. f[2] \in D /\ D \subseteq 1 .. f[2]
    BY <1>1, <2>1 DEF Denominators
  <2>3. IsFiniteSet(1 .. f[2])
    BY <1>1, FS_Interval
  <2>. QED
    BY <2>2, <2>3, FS_Subset
<1>3. w \in [D -> Quantity]
  BY <1>1, <1>2 DEF Quantity
<1> HIDE DEF w, D
<1>4. PICK y \in D : \A z \in D : w[y] \preceq w[z]
  BY <1>2, <1>3, LeastOfFinite
<1>5. \A z \in D : y <= z
  BY <1>1, <1>2, <1>4 DEF w, \preceq
<1>6. PICK x \in Int : x * f[2] = f[1] * y
  BY DEF D, Denominators
<1>7. y \in Nat \ {0} /\ y <= f[2]
  BY <1>1, <1>2
<1>8. ASSUME NEW h \in Quantity, Same(h, f)
      PROVE  \E k \in Nat \ {0} : h[1] = k * x /\ h[2] = k * y
  <2> DEFINE k == h[2] \div y
             r == h[2] % y
  <2>1. h[1] \in Int /\ h[2] \in Nat /\ h[2] > 0 /\ h[1] * f[2] = f[1] * h[2]
    BY <1>8 DEF Same, Quantity
  <2>2. k \in Int /\ r \in Int /\ h[2] = k * y + r /\ 0 <= r /\ r < y
    BY <1>7, <2>1
  <2> HIDE DEF k, r
  <2>3. (h[1] - k * x) * f[2] = f[1] * r
    <3>1. (h[1] - k * x) * f[2] = h[1] * f[2] - k * (x * f[2])
      BY <1>1, <2>1, <2>2
    <3>2. f[1] * h[2] - k * (f[1] * y) = f[1] * r
      BY <1>1, <1>7, <2>1, <2>2
    <3>. QED
      BY <1>6, <2>1, <3>1, <3>2
  <2>4. r = 0
    <3> SUFFICES ASSUME r # 0 PROVE FALSE
      OBVIOUS
    <3>1. r \in 1 .. f[2] /\ h[1] - k * x \in Int
      BY <1>1, <1>7, <2>1, <2>2
    <3>2. r \in D
      BY <2>3, <3>1 DEF D, Denominators
    <3>. QED
      BY <1>5, <1>7, <2>2, <3>2
  <2>5. h[1] - k * x = 0
    <3> DEFINE m == h[1] - k * x
    <3>1. m \in Int /\ m * f[2] = 0
      BY <1>1, <2>1, <2>2, <2>3, <2>4
    <3> HIDE DEF m
    <3>2. m = 0 <=> m * f[2] = 0 * f[2]
      BY <1>1, <3>1, TimesOrder
    <3>. QED
      BY <1>1, <3>1, <3>2 DEF m
  <2>6. k > 0
    <3>1. k * y > 0
      <4> DEFINE m == k * y
      <4>1. m \in Int
        BY <1>7, <2>2
      <4>2. h[2] = m + r
        BY <2>2
      <4> HIDE DEF m
      <4>3. m > 0
        BY <2>1, <2>4, <4>1, <4>2
      <4>. QED
        BY <4>3 DEF m
    <3>. QED
      BY <1>7, <2>2, <3>1, PositiveFactor
  <2>7. h[1] = k * x /\ h[2] = k * y
    BY <1>7, <2>1, <2>2, <2>4, <2>5
  <2>. QED
    BY <2>2, <2>6, <2>7
<1>. QED
  BY <1>7, <1>8

(* Fractions of the same value have one canonical form, that of            *)
(* mpq_canonicalize: mpq_equal, which compares numerator with numerator    *)
(* and denominator with denominator, compares numbers.                     *)
THEOREM CanonicalUnique ==
  ASSUME NEW f \in Quantity, NEW h \in Quantity, Same(f, h)
  PROVE  Canonical[f] = Canonical[h]
<1>1. PICK x \in Int, y \in Nat \ {0} : \A e \in Quantity :
           Same(e, f) => \E k \in Nat \ {0} : e[1] = k * x /\ e[2] = k * y
  BY LowestTerms
<1>2. ASSUME NEW e \in Quantity, Same(e, f) PROVE Canonical[e] = <<x, y>>
  <2> DEFINE g == Max(CommonDivisors(e))
             c == Canonical[e]
  <2>1. g \in Nat \ {0} /\ e[1] % g = 0 /\ e[2] % g = 0
    BY GreatestDivisor
  <2>2. c = <<e[1] \div g, e[2] \div g>>
    BY DEF Canonical
  <2>3. c \in Quantity /\ Same(c, e)
    BY CanonicalSame
  <2>4. \A d \in CommonDivisors(e) : g >= d
    <3>1. CommonDivisors(e) \in SUBSET Int /\ 1 \in CommonDivisors(e)
          /\ CommonDivisors(e) \subseteq 1 .. e[2]
      BY DEF CommonDivisors, Quantity
    <3>2. IsFiniteSet(1 .. e[2])
      BY FS_Interval DEF Quantity
    <3>3. IsFiniteSet(CommonDivisors(e))
      BY <3>1, <3>2, FS_Subset
    <3>. QED
      BY <3>1, <3>3, MaxIsGreatest
  <2>5. e[1] \in Int /\ e[2] \in Int /\ e[2] \in Nat /\ e[2] > 0
    BY DEF Quantity
  <2> HIDE DEF g
  <2>6. c[1] * g = e[1] /\ c[2] * g = e[2]
    <3>1. e[1] \div g \in Int /\ (e[1] \div g) * g = e[1]
      BY <2>1, <2>5, ExactQuotient
    <3>2. e[2] \div g \in Int /\ (e[2] \div g) * g = e[2]
      BY <2>1, <2>5, ExactQuotient
    <3> HIDE DEF c
    <3>3. c[1] = e[1] \div g /\ c[2] = e[2] \div g
      BY <2>2
    <3>. QED
      BY <3>1, <3>2, <3>3
  <2> HIDE DEF c
  <2>7. Same(c, f)
    <3>1. /\ c[1] \in Int /\ c[2] \in Int /\ f[1] \in Int /\ f[2] \in Int
          /\ c[1] * e[2] = e[1] * c[2] /\ e[1] * f[2] = f[1] * e[2]
      BY <1>2, <2>3 DEF Same, Quantity
    <3>2. (c[1] * f[2]) * e[2] = (f[1] * c[2]) * e[2]
      <4>1. (c[1] * f[2]) * e[2] = (c[1] * e[2]) * f[2]
        BY <2>5, <3>1
      <4>2. (e[1] * c[2]) * f[2] = (e[1] * f[2]) * c[2]
        BY <2>5, <3>1
      <4>3. (f[1] * e[2]) * c[2] = (f[1] * c[2]) * e[2]
        BY <2>5, <3>1
      <4>. QED
        BY <3>1, <4>1, <4>2, <4>3
    <3>3. c[1] * f[2] \in Int /\ f[1] * c[2] \in Int
      BY <3>1
    <3>. QED
      BY <2>5, <3>2, <3>3, TimesOrder DEF Same
  <2>8. PICK k \in Nat \ {0} : c[1] = k * x /\ c[2] = k * y
    BY <1>1, <2>3, <2>7
  <2>9. k = 1
    <3> DEFINE m == g * k
    <3>1. m \in Nat \ {0}
      BY <2>1, <2>8
    <3>2. e[1] = x * m /\ e[2] = y * m
      BY <2>1, <2>6, <2>8
    <3> HIDE DEF m
    <3>3. e[1] % m = 0 /\ e[2] % m = 0
      BY <1>1, <3>1, <3>2, MultipleDivides
    <3>4. m <= e[2]
      <4>1. 1 * m <= y * m
        BY <1>1, <3>1, TimesOrder
      <4>. QED
        BY <3>1, <3>2, <4>1
    <3>5. m \in CommonDivisors(e)
      BY <2>5, <3>1, <3>3, <3>4 DEF CommonDivisors
    <3>6. g * k <= g
      BY <2>1, <2>4, <3>1, <3>5 DEF m
    <3>7. k * g <= 1 * g
      BY <2>1, <2>8, <3>6
    <3>. QED
      BY <2>1, <2>8, <3>7, TimesOrder
  <2>10. c = <<c[1], c[2]>>
    BY <2>3 DEF Quantity
  <2>. QED
    BY <2>8, <2>9, <2>10 DEF c
<1>3. Same(f, f) /\ Same(h, f)
  BY DEF Same
<1>. QED
  BY <1>2, <1>3

-----------------------------------------------------------------------------
(* Arithmetic: equal rationals give equal results, so sums and differences *)
(* may be rearranged as those of numbers.                                  *)

(* The fractions that Plus and Minus reduce.                               *)
Added(p, q)      == <<p[1] * q[2] + q[1] * p[2], p[2] * q[2]>>
Subtracted(p, q) == <<p[1] * q[2] - q[1] * p[2], p[2] * q[2]>>

LEMMA Operations ==
  ASSUME NEW p \in Quantity, NEW q \in Quantity
  PROVE  /\ Added(p, q) \in Quantity /\ p (+) q = Canonical[Added(p, q)]
         /\ Subtracted(p, q) \in Quantity /\ p (-) q = Canonical[Subtracted(p, q)]
         /\ Product(p, q) \in Quantity /\ p (\X) q = Canonical[Product(p, q)]
<1>1. /\ Added(p, q) \in Quantity /\ Subtracted(p, q) \in Quantity
      /\ Product(p, q) \in Quantity
  BY DEF Added, Subtracted, Product, Quantity
<1>2. <<p, q>> \in Operands
  BY DEF Operands
<1>3. p (+) q = Canonical[Added(p, q)]
  BY <1>2 DEF (+), Plus, Added
<1>4. p (-) q = Canonical[Subtracted(p, q)]
  BY <1>2 DEF (-), Minus, Subtracted
<1>5. p (\X) q = Canonical[Product(p, q)]
  BY <1>2 DEF (\X), Times, Product
<1>. QED
  BY <1>1, <1>3, <1>4, <1>5

LEMMA SameTransitive ==
  ASSUME NEW p \in Quantity, NEW q \in Quantity, NEW r \in Quantity, Same(p, q), Same(q, r)
  PROVE  Same(p, r)
<1>1. /\ p[1] \in Int /\ p[2] \in Int /\ q[1] \in Int /\ q[2] \in Int /\ q[2] > 0
      /\ r[1] \in Int /\ r[2] \in Int
      /\ p[1] * q[2] = q[1] * p[2] /\ q[1] * r[2] = r[1] * q[2]
  BY DEF Same, Quantity
<1>2. (p[1] * r[2]) * q[2] = (r[1] * p[2]) * q[2]
  <2>1. (p[1] * r[2]) * q[2] = (p[1] * q[2]) * r[2]
    BY <1>1
  <2>2. (q[1] * p[2]) * r[2] = (q[1] * r[2]) * p[2]
    BY <1>1
  <2>3. (r[1] * q[2]) * p[2] = (r[1] * p[2]) * q[2]
    BY <1>1
  <2>. QED
    BY <1>1, <2>1, <2>2, <2>3
<1> DEFINE a == p[1] * r[2]  b == r[1] * p[2]
<1>3. a \in Int /\ b \in Int /\ q[2] \in Int /\ a * q[2] = b * q[2]
  BY <1>1, <1>2
<1> HIDE DEF a, b
<1>4. a = b
  BY <1>1, <1>3, TimesOrder
<1>. QED
  BY <1>4 DEF Same, a, b

(* Whether two fractions are the same rational shows in their reductions.  *)
LEMMA CanonicalEqual ==
  ASSUME NEW p \in Quantity, NEW q \in Quantity
  PROVE  /\ Same(p, q) <=> Canonical[p] = Canonical[q]
         /\ Canonical[p] \in Quantity /\ Canonical[Canonical[p]] = Canonical[p]
<1>1. /\ Canonical[p] \in Quantity /\ Same(Canonical[p], p)
      /\ Canonical[q] \in Quantity /\ Same(Canonical[q], q)
  BY CanonicalSame
<1>2. Canonical[Canonical[p]] = Canonical[p]
  BY <1>1, CanonicalUnique
<1>3. ASSUME Canonical[p] = Canonical[q] PROVE Same(p, q)
  <2>1. Same(p, Canonical[p])
    BY <1>1 DEF Same
  <2>. QED
    BY <1>1, <1>3, <2>1, SameTransitive
<1>. QED
  BY <1>1, <1>2, <1>3, CanonicalUnique

(* The operations depend on the rationals alone.                           *)
LEMMA Congruence ==
  ASSUME NEW p \in Quantity, NEW q \in Quantity, NEW r \in Quantity, NEW s \in Quantity,
         Same(p, q), Same(r, s)
  PROVE  p (+) r = q (+) s /\ p (-) r = q (-) s /\ p (\X) r = q (\X) s
<1>1. /\ p[1] \in Int /\ p[2] \in Int /\ q[1] \in Int /\ q[2] \in Int
      /\ r[1] \in Int /\ r[2] \in Int /\ s[1] \in Int /\ s[2] \in Int
      /\ p[1] * q[2] = q[1] * p[2] /\ r[1] * s[2] = s[1] * r[2]
  BY DEF Same, Quantity
<1>2. (p[1] * r[2]) * (q[2] * s[2]) = (q[1] * s[2]) * (p[2] * r[2])
  <2>1. (p[1] * r[2]) * (q[2] * s[2]) = (p[1] * q[2]) * (r[2] * s[2])
    BY <1>1
  <2>2. (q[1] * s[2]) * (p[2] * r[2]) = (q[1] * p[2]) * (r[2] * s[2])
    BY <1>1
  <2>. QED
    BY <1>1, <2>1, <2>2
<1>3. (r[1] * p[2]) * (q[2] * s[2]) = (s[1] * q[2]) * (p[2] * r[2])
  <2>1. (r[1] * p[2]) * (q[2] * s[2]) = (r[1] * s[2]) * (p[2] * q[2])
    BY <1>1
  <2>2. (s[1] * q[2]) * (p[2] * r[2]) = (s[1] * r[2]) * (p[2] * q[2])
    BY <1>1
  <2>. QED
    BY <1>1, <2>1, <2>2
<1>4. (p[1] * r[1]) * (q[2] * s[2]) = (q[1] * s[1]) * (p[2] * r[2])
  <2>1. (p[1] * r[1]) * (q[2] * s[2]) = (p[1] * q[2]) * (r[1] * s[2])
    BY <1>1
  <2>2. (q[1] * s[1]) * (p[2] * r[2]) = (q[1] * p[2]) * (s[1] * r[2])
    BY <1>1
  <2>. QED
    BY <1>1, <2>1, <2>2
<1> DEFINE a == p[1] * r[2]  b == r[1] * p[2]  c == q[1] * s[2]  d == s[1] * q[2]
           m == q[2] * s[2]  n == p[2] * r[2]
<1>5. /\ a \in Int /\ b \in Int /\ c \in Int /\ d \in Int /\ m \in Int /\ n \in Int
      /\ a * m = c * n /\ b * m = d * n
  BY <1>1, <1>2, <1>3
<1>6. /\ Added(p, r) = <<a + b, n>> /\ Added(q, s) = <<c + d, m>>
      /\ Subtracted(p, r) = <<a - b, n>> /\ Subtracted(q, s) = <<c - d, m>>
  BY DEF Added, Subtracted
<1> HIDE DEF a, b, c, d, m, n
<1>7. (a + b) * m = (c + d) * n /\ (a - b) * m = (c - d) * n
  <2>1. (a + b) * m = a * m + b * m /\ (c + d) * n = c * n + d * n
    BY <1>5
  <2>2. (a - b) * m = a * m - b * m /\ (c - d) * n = c * n - d * n
    BY <1>5
  <2>. QED
    BY <1>5, <2>1, <2>2
<1>8. Same(Added(p, r), Added(q, s)) /\ Same(Subtracted(p, r), Subtracted(q, s))
  BY <1>6, <1>7 DEF Same
<1>9. Same(Product(p, r), Product(q, s))
  <2> DEFINE x == p[1] * r[1]  y == q[1] * s[1]
  <2>1. x * m = y * n
    BY <1>4 DEF m, n
  <2>2. Product(p, r) = <<x, n>> /\ Product(q, s) = <<y, m>>
    BY DEF Product, m, n
  <2> HIDE DEF x, y
  <2>. QED
    BY <2>1, <2>2 DEF Same
<1>. QED
  BY <1>8, <1>9, Operations, CanonicalUnique

(* Addition is commutative and associative, and Zero and subtraction are   *)
(* what they should be, up to the fraction that stands for a rational.     *)
LEMMA PlusCommutes ==
  ASSUME NEW p \in Quantity, NEW q \in Quantity
  PROVE  p (+) q = q (+) p
<1>1. Added(p, q) = Added(q, p)
  BY DEF Added, Quantity
<1>. QED
  BY <1>1, Operations

LEMMA PlusAssociates ==
  ASSUME NEW p \in Quantity, NEW q \in Quantity, NEW r \in Quantity
  PROVE  (p (+) q) (+) r = p (+) (q (+) r)
<1>1. /\ Added(p, q) \in Quantity /\ Same(p (+) q, Added(p, q)) /\ p (+) q \in Quantity
      /\ Added(q, r) \in Quantity /\ Same(q (+) r, Added(q, r)) /\ q (+) r \in Quantity
      /\ Same(p, p) /\ Same(r, r)
  BY Operations, CanonicalSame DEF Same
<1>2. (p (+) q) (+) r = Added(p, q) (+) r /\ p (+) (q (+) r) = p (+) Added(q, r)
  BY <1>1, Congruence
<1>3. Added(Added(p, q), r) = Added(p, Added(q, r))
  <2>1. /\ p[1] \in Int /\ p[2] \in Int /\ q[1] \in Int /\ q[2] \in Int
        /\ r[1] \in Int /\ r[2] \in Int
    BY DEF Quantity
  <2>2. (p[1] * q[2] + q[1] * p[2]) * r[2] + r[1] * (p[2] * q[2])
          = p[1] * (q[2] * r[2]) + (q[1] * r[2] + r[1] * q[2]) * p[2]
    BY <2>1
  <2>3. (p[2] * q[2]) * r[2] = p[2] * (q[2] * r[2])
    BY <2>1
  <2>. QED
    BY <2>2, <2>3 DEF Added
<1>. QED
  BY <1>1, <1>2, <1>3, Operations

-----------------------------------------------------------------------------
(* Sums of functions.  Total folds addition over a set in an order that    *)
(* nothing is known of.  That the fold is defined at all, and that the     *)
(* order is of no account, is shown by looking at a least set for which it *)
(* would fail.                                                             *)

Pick(S) == CHOOSE x \in S : TRUE

(* g[S] is the sum that the fold makes for S.                              *)
Folds(f, g, S) == g[S] = IF S = {} THEN Zero ELSE f[Pick(S)] (+) g[S \ {Pick(S)}]

LEMMA LeastSubset ==
  ASSUME NEW D, IsFiniteSet(D), NEW T \in SUBSET (SUBSET D), T # {}
  PROVE  \E A \in T : \A B \in T : B \subseteq A => B = A
<1>1. FiniteSubsetsOf(D) = SUBSET D
  BY FS_FiniteSubsetsOfFinite
<1>2. PICK A \in T : \A B \in T : <<B, A>> \notin StrictSubsetOrdering(D)
  BY <1>1, FS_StrictSubsetOrderingWellFounded, WFMin
<1>3. ASSUME NEW B \in T, B \subseteq A PROVE B = A
  BY <1>2, <1>3 DEF StrictSubsetOrdering
<1>. QED
  BY <1>3

LEMMA PickIn == ASSUME NEW S, S # {} PROVE Pick(S) \in S
BY DEF Pick

(* Two folds of f agree wherever both are defined.                         *)
FoldOf(f, g, D) == \A S \in SUBSET D : Folds(f, g, S)

LEMMA FoldsAgree ==
  ASSUME NEW D, IsFiniteSet(D), NEW f, NEW g, NEW h, FoldOf(f, g, D), FoldOf(f, h, D)
  PROVE  \A S \in SUBSET D : g[S] = h[S]
<1> DEFINE T == {S \in SUBSET D : g[S] # h[S]}
<1> SUFFICES ASSUME T # {} PROVE FALSE
  OBVIOUS
<1>1. PICK A \in T : \A B \in T : B \subseteq A => B = A
  <2> HIDE DEF T
  <2>1. T \in SUBSET (SUBSET D)
    BY DEF T
  <2>. QED
    BY <2>1, LeastSubset
<1>2. A \in SUBSET D /\ g[A] # h[A] /\ Folds(f, g, A) /\ Folds(f, h, A)
  BY DEF FoldOf
<1>3. A # {}
  BY <1>2 DEF Folds
<1> DEFINE B == A \ {Pick(A)}
<1>4. B \in SUBSET D /\ B \subseteq A /\ B # A
  BY <1>2, <1>3, PickIn
<1>5. g[B] = h[B]
  BY <1>1, <1>4
<1>. QED
  BY <1>2, <1>3, <1>5 DEF Folds

(* A finite function has a fold.                                           *)
LEMMA FoldExists ==
  ASSUME NEW D, IsFiniteSet(D), NEW f
  PROVE  \E g : g = [S \in SUBSET D |-> g[S]] /\ \A S \in SUBSET D : Folds(f, g, S)
<1> DEFINE Good(A) == \E g : g = [S \in SUBSET A |-> g[S]] /\ \A S \in SUBSET A : Folds(f, g, S)
           T == {A \in SUBSET D : ~Good(A)}
<1> SUFFICES ASSUME T # {} PROVE FALSE
  OBVIOUS
<1>1. PICK A \in T : \A B \in T : B \subseteq A => B = A
  <2> HIDE DEF T
  <2>1. T \in SUBSET (SUBSET D)
    BY DEF T
  <2>. QED
    BY <2>1, LeastSubset
<1>2. A \in SUBSET D /\ ~Good(A)
  OBVIOUS
<1>3. \A B \in SUBSET A : B # A => Good(B)
  BY <1>1
<1> HIDE DEF T, Good
<1> DEFINE G(B) == CHOOSE g : g = [S \in SUBSET B |-> g[S]] /\ \A S \in SUBSET B : Folds(f, g, S)
           h == [S \in SUBSET A |->
                   IF S = {} THEN Zero
                   ELSE f[Pick(S)] (+) G(S \ {Pick(S)})[S \ {Pick(S)}]]
<1>4. ASSUME NEW B \in SUBSET A, B # A, NEW S \in SUBSET B PROVE Folds(f, G(B), S)
  BY <1>3, <1>4 DEF Good
<1> HIDE DEF G
<1>5. ASSUME NEW B \in SUBSET A, B # A PROVE h[B] = G(B)[B]
  <2>1. CASE B = {}
    <3>1. Folds(f, G(B), B)
      BY <1>4, <1>5
    <3>. QED
      BY <2>1, <3>1 DEF Folds
  <2>2. CASE B # {}
    <3> DEFINE C == B \ {Pick(B)}
    <3>1. C \in SUBSET B /\ C \in SUBSET A /\ C # A
      BY <1>5
    <3>2. IsFiniteSet(C)
      BY <1>2, <3>1, FS_Subset
    <3>3. FoldOf(f, G(B), C) /\ FoldOf(f, G(C), C)
      BY <1>4, <1>5, <3>1 DEF FoldOf
    <3>4. G(B)[C] = G(C)[C]
      <4> HIDE DEF C
      <4>. QED
        BY <3>2, <3>3, FoldsAgree
    <3>5. G(B)[B] = f[Pick(B)] (+) G(B)[C]
      BY <1>4, <1>5, <2>2 DEF Folds
    <3>. QED
      BY <2>2, <3>4, <3>5
  <2>. QED
    BY <2>1, <2>2
<1>6. ASSUME NEW S \in SUBSET A PROVE Folds(f, h, S)
  <2>1. CASE S = {}
    BY <2>1 DEF Folds
  <2>2. CASE S # {}
    <3> DEFINE C == S \ {Pick(S)}
    <3>1. C \in SUBSET A /\ C # A
      BY <2>2, PickIn
    <3>2. h[C] = G(C)[C]
      BY <1>5, <3>1
    <3>3. h[S] = f[Pick(S)] (+) G(C)[C]
      BY <2>2
    <3> HIDE DEF h
    <3>. QED
      BY <2>2, <3>2, <3>3 DEF Folds
  <2>. QED
    BY <2>1, <2>2
<1>7. h = [S \in SUBSET A |-> h[S]]
  OBVIOUS
<1> HIDE DEF h
<1>. QED
  BY <1>2, <1>6, <1>7 DEF Good

(* Total is the value of a fold.                                           *)
LEMMA TotalFolds ==
  ASSUME NEW D, IsFiniteSet(D), NEW f, DOMAIN f = D
  PROVE  \E g : (\A S \in SUBSET D : Folds(f, g, S)) /\ Total(f) = g[D]
<1> DEFINE Sums(g) == g = [S \in SUBSET DOMAIN f |->
                             IF S = {} THEN Zero
                             ELSE f[CHOOSE x \in S : TRUE] (+) g[S \ {CHOOSE x \in S : TRUE}]]
           total == CHOOSE g : Sums(g)
<1>1. PICK g : g = [S \in SUBSET D |-> g[S]] /\ \A S \in SUBSET D : Folds(f, g, S)
  BY FoldExists
<1>2. Sums(g)
  BY <1>1 DEF Folds, Pick
<1>3. Total(f) = total[DOMAIN f]
  BY Zenon DEF Total, FoldFunction, FoldFunctionOnSet, MapThenFoldSet
<1>4. Sums(total)
  <2> HIDE DEF Sums
  <2>. QED
    BY <1>2
<1> HIDE DEF total
<1>5. \A S \in SUBSET D : Folds(f, total, S)
  BY <1>4 DEF Folds, Pick
<1>. QED
  BY <1>3, <1>5

(* Sums are reduced fractions.                                             *)
Reduced(q) == q \in Quantity /\ Canonical[q] = q

LEMMA ReducedResults ==
  ASSUME NEW p \in Quantity, NEW q \in Quantity
  PROVE  Reduced(p (+) q) /\ Reduced(p (-) q) /\ Reduced(Canonical[p]) /\ Reduced(Zero)
<1>1. Zero \in Quantity /\ Zero[1] = 0
  BY DEF Zero, Quantity
<1>2. Canonical[Zero] = Zero
  BY <1>1, CanonicalSign
<1>. QED
  BY <1>1, <1>2, Operations, CanonicalEqual DEF Reduced

LEMMA FoldReduced ==
  ASSUME NEW D, IsFiniteSet(D), NEW f \in [D -> Quantity], NEW g,
         \A S \in SUBSET D : Folds(f, g, S)
  PROVE  \A S \in SUBSET D : Reduced(g[S])
<1> DEFINE T == {S \in SUBSET D : ~Reduced(g[S])}
<1> SUFFICES ASSUME T # {} PROVE FALSE
  OBVIOUS
<1>1. PICK A \in T : \A B \in T : B \subseteq A => B = A
  <2> HIDE DEF T
  <2>1. T \in SUBSET (SUBSET D)
    BY DEF T
  <2>. QED
    BY <2>1, LeastSubset
<1>2. A \in SUBSET D /\ ~Reduced(g[A]) /\ Folds(f, g, A)
  OBVIOUS
<1>3. A # {}
  <2>1. Reduced(Zero)
    BY ReducedResults DEF Zero, Quantity
  <2>. QED
    BY <1>2, <2>1 DEF Folds
<1> DEFINE B == A \ {Pick(A)}
<1>4. B \in SUBSET D /\ B \subseteq A /\ B # A /\ Pick(A) \in D
  BY <1>2, <1>3, PickIn
<1>5. Reduced(g[B])
  BY <1>1, <1>4
<1>6. g[A] = f[Pick(A)] (+) g[B]
  BY <1>2, <1>3 DEF Folds
<1>7. f[Pick(A)] \in Quantity /\ g[B] \in Quantity
  BY <1>4, <1>5 DEF Reduced
<1>. QED
  BY <1>2, <1>6, <1>7, ReducedResults

(* Any element may be added last.                                          *)
LEMMA FoldRest ==
  ASSUME NEW D, IsFiniteSet(D), NEW f \in [D -> Quantity], NEW g,
         \A S \in SUBSET D : Folds(f, g, S)
  PROVE  \A S \in SUBSET D : \A x \in S : g[S] = f[x] (+) g[S \ {x}]
<1> DEFINE T == {S \in SUBSET D : \E x \in S : g[S] # f[x] (+) g[S \ {x}]}
<1> SUFFICES ASSUME T # {} PROVE FALSE
  OBVIOUS
<1>1. PICK A \in T : \A B \in T : B \subseteq A => B = A
  <2> HIDE DEF T
  <2>1. T \in SUBSET (SUBSET D)
    BY DEF T
  <2>. QED
    BY <2>1, LeastSubset
<1>2. PICK x \in A : g[A] # f[x] (+) g[A \ {x}]
  OBVIOUS
<1>3. A \in SUBSET D /\ A # {}
  OBVIOUS
<1>4. \A B \in SUBSET A : B # A => \A y \in B : g[B] = f[y] (+) g[B \ {y}]
  BY <1>1
<1> HIDE DEF T
<1> DEFINE p == Pick(A)
<1>5. p \in A /\ g[A] = f[p] (+) g[A \ {p}]
  BY <1>3, PickIn DEF Folds
<1> HIDE DEF p
<1>6. p # x
  BY <1>2, <1>5
<1> DEFINE r == g[(A \ {x}) \ {p}]
<1>7. g[A \ {p}] = f[x] (+) r
  <2>1. (A \ {p}) \ {x} = (A \ {x}) \ {p}
    OBVIOUS
  <2>. QED
    BY <1>4, <1>5, <1>6, <2>1
<1>8. g[A \ {x}] = f[p] (+) r
  BY <1>4, <1>5, <1>6
<1>9. f[p] \in Quantity /\ f[x] \in Quantity /\ r \in Quantity
  BY <1>3, <1>5, FoldReduced DEF Reduced
<1> HIDE DEF r
<1>10. f[p] (+) (f[x] (+) r) = f[x] (+) (f[p] (+) r)
  <2>1. (f[p] (+) f[x]) (+) r = f[p] (+) (f[x] (+) r)
    BY <1>9, PlusAssociates
  <2>2. (f[x] (+) f[p]) (+) r = f[x] (+) (f[p] (+) r)
    BY <1>9, PlusAssociates
  <2>3. f[p] (+) f[x] = f[x] (+) f[p]
    BY <1>9, PlusCommutes
  <2>. QED
    BY <2>1, <2>2, <2>3
<1>. QED
  BY <1>2, <1>5, <1>7, <1>8, <1>10

LEMMA TotalReduced ==
  ASSUME NEW D, IsFiniteSet(D), NEW f \in [D -> Quantity]
  PROVE  Reduced(Total(f)) /\ (D = {} => Total(f) = Zero)
<1>1. PICK g : (\A S \in SUBSET D : Folds(f, g, S)) /\ Total(f) = g[D]
  BY TotalFolds
<1>2. Reduced(g[D])
  BY <1>1, FoldReduced
<1>3. D = {} => g[D] = Zero
  BY <1>1 DEF Folds
<1>. QED
  BY <1>1, <1>2, <1>3

(* A sum is any one of the values added to the sum of the rest.            *)
THEOREM TotalRest ==
  ASSUME NEW D, IsFiniteSet(D), NEW f \in [D -> Quantity], NEW x \in D
  PROVE  Total(f) = f[x] (+) Total([y \in D \ {x} |-> f[y]])
<1>1. PICK g : (\A S \in SUBSET D : Folds(f, g, S)) /\ Total(f) = g[D]
  BY TotalFolds
<1>2. PICK E : E = D \ {x}
  OBVIOUS
<1>3. PICK e : e = [y \in E |-> f[y]]
  OBVIOUS
<1>4. IsFiniteSet(E) /\ E \in SUBSET D
  BY <1>2, FS_Subset
<1>5. PICK h : (\A S \in SUBSET E : Folds(e, h, S)) /\ Total(e) = h[E]
  BY <1>3, <1>4, TotalFolds
<1>6. ASSUME NEW S \in SUBSET E PROVE Folds(e, g, S)
  <2>1. Folds(f, g, S)
    BY <1>1, <1>4
  <2>2. S # {} => e[Pick(S)] = f[Pick(S)]
    BY <1>3, PickIn
  <2>. QED
    BY <2>1, <2>2 DEF Folds
<1>7. \A S \in SUBSET E : g[S] = h[S]
  <2>1. FoldOf(e, g, E) /\ FoldOf(e, h, E)
    BY <1>5, <1>6 DEF FoldOf
  <2>. QED
    BY <1>4, <2>1, FoldsAgree
<1>8. g[D] = f[x] (+) g[E]
  BY <1>1, <1>2, FoldRest
<1>. QED
  BY <1>1, <1>2, <1>3, <1>5, <1>7, <1>8

(* The sums of two functions that differ at x alone.                       *)
LEMMA TotalChange ==
  ASSUME NEW D, IsFiniteSet(D), NEW f \in [D -> Quantity], NEW h \in [D -> Quantity],
         NEW x \in D, \A y \in D \ {x} : f[y] = h[y]
  PROVE  \E r \in Quantity : Total(f) = f[x] (+) r /\ Total(h) = h[x] (+) r
<1>1. PICK e : e = [y \in D \ {x} |-> f[y]]
  OBVIOUS
<1>2. PICK E : E = D \ {x}
  OBVIOUS
<1>3. IsFiniteSet(E)
  BY <1>2, FS_Subset
<1>4. e \in [E -> Quantity]
  BY <1>1, <1>2
<1>5. Total(e) \in Quantity
  BY <1>3, <1>4, TotalReduced DEF Reduced
<1>6. Total(f) = f[x] (+) Total(e)
  BY <1>1, TotalRest
<1>7. Total(h) = h[x] (+) Total(e)
  <2>1. e = [y \in D \ {x} |-> h[y]]
    BY <1>1
  <2>. QED
    BY <2>1, TotalRest
<1>. QED
  BY <1>5, <1>6, <1>7

LEMMA PlusZero ==
  ASSUME NEW p \in Quantity
  PROVE  /\ p (+) Zero = Canonical[p] /\ Zero (+) p = Canonical[p]
         /\ p (-) Zero = Canonical[p]
<1>1. Zero \in Quantity
  BY DEF Zero, Quantity
<1>2. p[1] \in Int /\ p[2] \in Int /\ p = <<p[1], p[2]>>
  BY DEF Quantity
<1>3. Added(p, Zero) = p /\ Subtracted(p, Zero) = p
  <2>1. p[1] * 1 + 0 * p[2] = p[1] /\ p[2] * 1 = p[2] /\ p[1] * 1 - 0 * p[2] = p[1]
    BY <1>2
  <2>. QED
    BY <1>2, <2>1 DEF Added, Subtracted, Zero
<1>4. p (+) Zero = Canonical[p] /\ p (-) Zero = Canonical[p]
  <2>1. p (+) Zero = Canonical[Added(p, Zero)] /\ p (-) Zero = Canonical[Subtracted(p, Zero)]
    BY <1>1, Operations
  <2>. QED
    BY <1>3, <2>1
<1>. QED
  BY <1>1, <1>4, PlusCommutes

(* Only the rational counts.                                               *)
LEMMA PlusCanonical ==
  ASSUME NEW p \in Quantity, NEW q \in Quantity
  PROVE  /\ Canonical[p] (+) q = p (+) q /\ q (+) Canonical[p] = q (+) p
         /\ Canonical[p] (-) q = p (-) q /\ q (-) Canonical[p] = q (-) p
         /\ Canonical[p (+) q] = p (+) q /\ Canonical[p (-) q] = p (-) q
<1>1. Canonical[p] \in Quantity /\ Same(Canonical[p], p) /\ Same(q, q)
  BY CanonicalSame DEF Same
<1>. QED
  BY <1>1, Congruence, ReducedResults DEF Reduced

LEMMA MinusPlus ==
  ASSUME NEW p \in Quantity, NEW q \in Quantity
  PROVE  (p (-) q) (+) q = Canonical[p]
<1>1. /\ p[1] \in Int /\ p[2] \in Int /\ q[1] \in Int /\ q[2] \in Int
  BY DEF Quantity
<1>2. /\ Subtracted(p, q) \in Quantity /\ p (-) q = Canonical[Subtracted(p, q)]
  BY Operations
<1>3. (p (-) q) (+) q = Subtracted(p, q) (+) q
  BY <1>2, PlusCanonical
<1>4. Same(Added(Subtracted(p, q), q), p)
  <2> DEFINE s == p[1] * q[2]  t == q[1] * p[2]  m == p[2] * q[2]
  <2>1. /\ s \in Int /\ t \in Int /\ m \in Int
        /\ q[1] * m = t * q[2] /\ p[1] * (m * q[2]) = (s * q[2]) * p[2]
    BY <1>1
  <2>2. Subtracted(p, q) = <<s - t, m>>
    BY DEF Subtracted
  <2> HIDE DEF s, t, m
  <2>3. Added(Subtracted(p, q), q) = <<(s - t) * q[2] + q[1] * m, m * q[2]>>
    BY <2>2 DEF Added
  <2>4. (s - t) * q[2] + q[1] * m = s * q[2]
    <3>1. (s - t) * q[2] = s * q[2] - t * q[2]
      BY <1>1, <2>1
    <3>. QED
      BY <1>1, <2>1, <3>1
  <2>. QED
    BY <2>1, <2>3, <2>4 DEF Same
<1>. QED
  BY <1>2, <1>3, <1>4, Operations, CanonicalUnique

LEMMA MinusIsPlus ==
  ASSUME NEW p \in Quantity, NEW q \in Quantity
  PROVE  p (-) q = p (+) (Zero (-) q)
<1>1. /\ p[1] \in Int /\ p[2] \in Int /\ q[1] \in Int /\ q[2] \in Int
      /\ Zero \in Quantity
  BY DEF Quantity, Zero
<1>2. /\ Subtracted(Zero, q) \in Quantity /\ Zero (-) q = Canonical[Subtracted(Zero, q)]
  BY <1>1, Operations
<1>3. p (+) (Zero (-) q) = p (+) Subtracted(Zero, q)
  BY <1>2, PlusCanonical
<1>4. Added(p, Subtracted(Zero, q)) = Subtracted(p, q)
  <2>1. Subtracted(Zero, q) = <<-q[1], q[2]>>
    <3>1. 0 * q[2] - q[1] * 1 = -q[1] /\ 1 * q[2] = q[2]
      BY <1>1
    <3>. QED
      BY <3>1 DEF Subtracted, Zero
  <2>2. p[1] * q[2] + (-q[1]) * p[2] = p[1] * q[2] - q[1] * p[2]
    BY <1>1
  <2>. QED
    BY <2>1, <2>2 DEF Added, Subtracted
<1>. QED
  BY <1>2, <1>3, <1>4, Operations

(* What may be rearranged in a sum of two sums.                            *)
LEMMA Interchange ==
  ASSUME NEW p \in Quantity, NEW q \in Quantity, NEW r \in Quantity, NEW s \in Quantity
  PROVE  (p (+) q) (+) (r (+) s) = (p (+) r) (+) (q (+) s)
<1>1. /\ p (+) q \in Quantity /\ r (+) s \in Quantity /\ p (+) r \in Quantity
      /\ q (+) s \in Quantity /\ q (+) r \in Quantity /\ q (+) (r (+) s) \in Quantity
  BY PlusQuantity
<1>2. (p (+) q) (+) (r (+) s) = p (+) (q (+) (r (+) s))
  BY <1>1, PlusAssociates
<1>3. q (+) (r (+) s) = r (+) (q (+) s)
  <2>1. (q (+) r) (+) s = q (+) (r (+) s) /\ (r (+) q) (+) s = r (+) (q (+) s)
    BY PlusAssociates
  <2>. QED
    BY <2>1, PlusCommutes
<1>4. (p (+) r) (+) (q (+) s) = p (+) (r (+) (q (+) s))
  BY <1>1, PlusAssociates
<1>. QED
  BY <1>2, <1>3, <1>4

(* What leaves one sum and enters another.                                 *)
LEMMA MovedOut ==
  ASSUME NEW a \in Quantity, NEW v \in Quantity, NEW r \in Quantity, NEW s \in Quantity
  PROVE  ((a (-) v) (+) r) (+) ((Zero (+) v) (+) s) = (a (+) r) (+) (Zero (+) s)
<1>1. /\ Zero \in Quantity /\ a (-) v \in Quantity /\ Zero (+) v \in Quantity
      /\ r (+) s \in Quantity /\ Canonical[a] \in Quantity
  BY PlusQuantity, MinusQuantity, CanonicalForm DEF Zero, Quantity
<1>2. ((a (-) v) (+) r) (+) ((Zero (+) v) (+) s) = ((a (-) v) (+) (Zero (+) v)) (+) (r (+) s)
  BY <1>1, Interchange
<1>3. (a (-) v) (+) (Zero (+) v) = Canonical[a]
  <2>1. Zero (+) v = Canonical[v]
    BY PlusZero
  <2>2. (a (-) v) (+) Canonical[v] = (a (-) v) (+) v
    BY <1>1, PlusCanonical
  <2>. QED
    BY <2>1, <2>2, MinusPlus
<1>4. Canonical[a] = a (+) Zero
  BY PlusZero
<1>5. (a (+) Zero) (+) (r (+) s) = (a (+) r) (+) (Zero (+) s)
  BY <1>1, Interchange
<1>. QED
  BY <1>2, <1>3, <1>4, <1>5

LEMMA MovedIn ==
  ASSUME NEW a \in Quantity, NEW v \in Quantity, NEW r \in Quantity, NEW s \in Quantity
  PROVE  ((a (+) v) (+) r) (+) (Zero (+) s) = (a (+) r) (+) (v (+) s)
<1>1. Zero \in Quantity /\ a (+) v \in Quantity
  BY PlusQuantity DEF Zero, Quantity
<1>2. ((a (+) v) (+) r) (+) (Zero (+) s) = ((a (+) v) (+) Zero) (+) (r (+) s)
  BY <1>1, Interchange
<1>3. (a (+) v) (+) Zero = a (+) v
  BY <1>1, PlusZero, PlusCanonical
<1>. QED
  BY <1>2, <1>3, Interchange

-----------------------------------------------------------------------------
(* Sums and differences compared.                                          *)
LEMMA PlusMinus ==
  ASSUME NEW p \in Quantity, NEW q \in Quantity
  PROVE  (p (+) q) (-) q = Canonical[p] /\ (q (+) p) (-) q = Canonical[p]
<1>1. /\ Zero \in Quantity /\ Zero (-) q \in Quantity /\ p (+) q \in Quantity
      /\ Canonical[p] \in Quantity
  BY PlusQuantity, MinusQuantity, CanonicalForm DEF Zero, Quantity
<1>2. (p (+) q) (-) q = (p (+) q) (+) (Zero (-) q)
  BY <1>1, MinusIsPlus
<1>3. (p (+) q) (+) (Zero (-) q) = p (+) (q (+) (Zero (-) q))
  BY <1>1, PlusAssociates
<1>4. q (+) (Zero (-) q) = Zero
  <2>1. (Zero (-) q) (+) q = Canonical[Zero]
    BY <1>1, MinusPlus
  <2>2. Canonical[Zero] = Zero
    BY <1>1, ReducedResults DEF Reduced
  <2>. QED
    BY <1>1, <2>1, <2>2, PlusCommutes
<1>. QED
  BY <1>2, <1>3, <1>4, PlusZero, PlusCommutes

LEMMA PartTaken ==
  ASSUME NEW p \in Quantity, NEW g \in Quantity
  PROVE  p (-) (p (-) g) = Canonical[g]
<1> DEFINE r == p (-) g
<1>1. r \in Quantity /\ p (-) r \in Quantity
  BY MinusQuantity
<1>2. r (+) g = Canonical[p]
  BY MinusPlus
<1> HIDE DEF r
<1>3. Canonical[p] (-) r = p (-) r
  BY <1>1, PlusCanonical
<1>4. (r (+) g) (-) r = Canonical[g]
  BY <1>1, PlusMinus
<1>. QED
  BY <1>2, <1>3, <1>4 DEF r

LEMMA PlusPositive ==
  ASSUME NEW p \in Quantity, NEW k \in Positive
  PROVE  p \prec p (+) k
<1>1. k \in Quantity /\ p[1] \in Int /\ p[2] \in Int /\ p[2] > 0
      /\ k[1] \in Int /\ k[1] > 0 /\ k[2] \in Int /\ k[2] > 0
  BY DEF Positive, Quantity
<1>2. p \prec Added(p, k)
  <2> DEFINE t == p[2] * p[2]
  <2>1. t \in Int /\ t > 0
    <3>1. 0 * p[2] < p[2] * p[2]
      BY <1>1, TimesOrder
    <3>. QED
      BY <1>1, <3>1
  <2>2. 0 < k[1] * t
    <3>1. t \in Nat \ {0}
      BY <2>1
    <3> HIDE DEF t
    <3>2. 0 * t < k[1] * t
      BY <1>1, <2>1, TimesOrder
    <3>. QED
      BY <2>1, <3>2
  <2>3. (p[1] * k[2] + k[1] * p[2]) * p[2] = p[1] * (p[2] * k[2]) + k[1] * t
    BY <1>1
  <2>4. p[1] * (p[2] * k[2]) \in Int /\ k[1] * t \in Int
    BY <1>1, <2>1
  <2> HIDE DEF t
  <2>. QED
    BY <2>2, <2>3, <2>4 DEF Added, \prec
<1>3. Added(p, k) \in Quantity /\ p (+) k \in Quantity /\ Same(p (+) k, Added(p, k))
  BY <1>1, Operations, CanonicalSame
<1>. QED
  BY <1>2, <1>3, SameOrder

LEMMA MinusPositive ==
  ASSUME NEW p \in Quantity, NEW q \in Quantity, q \preceq p
  PROVE  p (-) q = Zero \/ p (-) q \in Positive
<1>1. /\ p[1] \in Int /\ p[2] \in Int /\ q[1] \in Int /\ q[2] \in Int
      /\ q[1] * p[2] <= p[1] * q[2]
  BY DEF Quantity, \preceq
<1>2. p[1] * q[2] - q[1] * p[2] = 0 \/ p[1] * q[2] - q[1] * p[2] > 0
  BY <1>1
<1>3. Subtracted(p, q)[1] = 0 \/ Subtracted(p, q)[1] > 0
  BY <1>2 DEF Subtracted
<1>. QED
  BY <1>3, Operations, CanonicalSign

-----------------------------------------------------------------------------
(* Products and quotients of positive quantities.                          *)
LEMMA TimesAssociates ==
  ASSUME NEW p \in Quantity, NEW q \in Quantity, NEW r \in Quantity
  PROVE  (p (\X) q) (\X) r = p (\X) (q (\X) r)
<1>1. /\ Product(p, q) \in Quantity /\ Same(p (\X) q, Product(p, q)) /\ p (\X) q \in Quantity
      /\ Product(q, r) \in Quantity /\ Same(q (\X) r, Product(q, r)) /\ q (\X) r \in Quantity
      /\ Same(p, p) /\ Same(r, r)
  BY Operations, CanonicalSame DEF Same
<1>2. (p (\X) q) (\X) r = Product(p, q) (\X) r /\ p (\X) (q (\X) r) = p (\X) Product(q, r)
  BY <1>1, Congruence
<1>3. Product(Product(p, q), r) = Product(p, Product(q, r))
  <2>1. /\ p[1] \in Int /\ p[2] \in Int /\ q[1] \in Int /\ q[2] \in Int
        /\ r[1] \in Int /\ r[2] \in Int
    BY DEF Quantity
  <2>2. (p[1] * q[1]) * r[1] = p[1] * (q[1] * r[1]) /\ (p[2] * q[2]) * r[2] = p[2] * (q[2] * r[2])
    BY <2>1
  <2>. QED
    BY <2>2 DEF Product
<1>. QED
  BY <1>1, <1>2, <1>3, Operations

LEMMA TimesCanonical ==
  ASSUME NEW p \in Quantity, NEW q \in Quantity
  PROVE  /\ Canonical[p] (\X) q = p (\X) q /\ q (\X) Canonical[p] = q (\X) p
         /\ p (\X) q = q (\X) p /\ p (\X) q \in Quantity
<1>1. Canonical[p] \in Quantity /\ Same(Canonical[p], p) /\ Same(q, q)
  BY CanonicalSame DEF Same
<1>2. Product(p, q) = Product(q, p)
  BY DEF Product, Quantity
<1>3. Canonical[p] (\X) q = p (\X) q /\ q (\X) Canonical[p] = q (\X) p
  BY <1>1, Congruence
<1>4. /\ Product(p, q) \in Quantity /\ p (\X) q = Canonical[Product(p, q)]
      /\ q (\X) p = Canonical[Product(q, p)]
  BY Operations
<1>5. p (\X) q = q (\X) p /\ p (\X) q \in Quantity
  BY <1>2, <1>4, CanonicalSame
<1>. QED
  BY <1>3, <1>5

LEMMA OverTimes ==
  ASSUME NEW p \in Positive, NEW q \in Positive
  PROVE  (p (/) q) (\X) q = Canonical[p] /\ p (\X) One = Canonical[p]
<1>1. /\ p \in Quantity /\ p[1] \in Int /\ p[2] \in Int /\ p = <<p[1], p[2]>>
      /\ q \in Quantity /\ q[1] \in Int /\ q[2] \in Int /\ One \in Quantity
  BY DEF Positive, Quantity, One
<1>2. /\ Quotient(p, q) \in Quantity /\ p (/) q \in Quantity
      /\ Same(p (/) q, Quotient(p, q)) /\ Same(q, q)
  BY OverPositive, PositiveParts DEF Same
<1>3. (p (/) q) (\X) q = Quotient(p, q) (\X) q
  BY <1>1, <1>2, Congruence
<1>4. Quotient(p, q) (\X) q = Canonical[Product(Quotient(p, q), q)]
      /\ Product(Quotient(p, q), q) \in Quantity
  BY <1>1, <1>2, Operations
<1>5. Same(Product(Quotient(p, q), q), p)
  <2>1. ((p[1] * q[2]) * q[1]) * p[2] = p[1] * ((p[2] * q[1]) * q[2])
    BY <1>1
  <2>. QED
    BY <2>1 DEF Same, Product, Quotient
<1>6. Product(p, One) = p
  <2>1. p[1] * 1 = p[1] /\ p[2] * 1 = p[2]
    BY <1>1
  <2>. QED
    BY <1>1, <2>1 DEF Product, One
<1>7. p (\X) One = Canonical[Product(p, One)]
  BY <1>1, Operations
<1>. QED
  BY <1>1, <1>3, <1>4, <1>5, <1>6, <1>7, CanonicalUnique

LEMMA TimesCancel ==
  ASSUME NEW p \in Positive, NEW q \in Positive, NEW r \in Positive, p (\X) r \preceq q (\X) r
  PROVE  p \preceq q
<1>1. /\ p[1] \in Int /\ p[2] \in Int /\ q[1] \in Int /\ q[2] \in Int
      /\ r[1] \in Int /\ r[1] > 0 /\ r[2] \in Int /\ r[2] > 0
  BY PositiveParts
<1>2. /\ p (\X) r \in Quantity /\ Product(p, r) \in Quantity /\ Same(p (\X) r, Product(p, r))
      /\ q (\X) r \in Quantity /\ Product(q, r) \in Quantity /\ Same(q (\X) r, Product(q, r))
  BY TimesPositive, PositiveParts
<1>3. Product(p, r) \preceq Product(q, r)
  <2>1. Product(p, r) \preceq q (\X) r
    BY <1>2, SameOrder
  <2>. QED
    BY <1>2, <2>1, SameOrder
<1> DEFINE a == p[1] * q[2]  b == q[1] * p[2]  g == r[1] * r[2]
<1>4. a \in Int /\ b \in Int /\ g \in Int /\ g > 0
  <2>1. 0 * r[2] < r[1] * r[2]
    BY <1>1, TimesOrder
  <2>. QED
    BY <1>1, <2>1
<1>5. (p[1] * r[1]) * (q[2] * r[2]) = a * g /\ (q[1] * r[1]) * (p[2] * r[2]) = b * g
  BY <1>1
<1>6. a * g <= b * g
  BY <1>3, <1>5 DEF Product, \preceq
<1> HIDE DEF a, b, g
<1>7. a <= b
  BY <1>4, <1>6, TimesOrder
<1>. QED
  BY <1>7 DEF a, b, \preceq

-----------------------------------------------------------------------------
(* Sums of one number, and differences of a number with itself.            *)
LEMMA TotalOne ==
  ASSUME NEW m, NEW f \in [{m} -> Quantity]
  PROVE  Total(f) = Canonical[f[m]]
<1>1. Total(f) = f[m] (+) Total([y \in {m} \ {m} |-> f[y]])
  BY FS_Singleton, TotalRest
<1>2. PICK e : e = [y \in {m} \ {m} |-> f[y]]
  OBVIOUS
<1>3. e \in [{} -> Quantity]
  BY <1>2
<1>4. Total(e) = Zero
  BY <1>3, FS_EmptySet, TotalReduced
<1>. QED
  BY <1>1, <1>2, <1>4, PlusZero

LEMMA MinusItself ==
  ASSUME NEW p \in Quantity
  PROVE  p (-) p = Zero
<1>1. Subtracted(p, p)[1] = 0
  BY DEF Subtracted, Quantity
<1>. QED
  BY <1>1, Operations, CanonicalSign

(* Equal parts of two numbers are to each other as the numbers are.        *)
LEMMA EqualParts ==
  ASSUME NEW p \in Positive, NEW q \in Positive, NEW theta \in Positive
  PROVE  /\ p (-) (p (-) (p (\X) theta)) = Canonical[p (\X) theta]
         /\ (p (-) (p (-) (p (\X) theta))) (\X) q = (q (-) (q (-) (q (\X) theta))) (\X) p
<1>1. /\ p \in Quantity /\ q \in Quantity /\ theta \in Quantity
      /\ p (\X) theta \in Quantity /\ q (\X) theta \in Quantity
      /\ q (\X) theta = theta (\X) q
  BY PositiveParts, TimesPositive
<1>2. /\ p (-) (p (-) (p (\X) theta)) = Canonical[p (\X) theta]
      /\ q (-) (q (-) (q (\X) theta)) = Canonical[q (\X) theta]
  BY <1>1, PartTaken
<1>3. Canonical[p (\X) theta] (\X) q = p (\X) (theta (\X) q)
  BY <1>1, TimesCanonical, TimesAssociates
<1>4. Canonical[q (\X) theta] (\X) p = p (\X) (q (\X) theta)
  BY <1>1, TimesCanonical
<1>. QED
  BY <1>1, <1>2, <1>3, <1>4

-----------------------------------------------------------------------------
(* Products of differences.                                                *)
LEMMA TimesMinus ==
  ASSUME NEW r \in Quantity, NEW p \in Quantity, NEW q \in Quantity
  PROVE  r (\X) (p (-) q) = (r (\X) p) (-) (r (\X) q)
<1>1. /\ r[1] \in Int /\ r[2] \in Int /\ p[1] \in Int /\ p[2] \in Int
      /\ q[1] \in Int /\ q[2] \in Int
  BY DEF Quantity
<1>2. /\ Subtracted(p, q) \in Quantity /\ Same(p (-) q, Subtracted(p, q)) /\ p (-) q \in Quantity
      /\ Product(r, p) \in Quantity /\ Same(r (\X) p, Product(r, p)) /\ r (\X) p \in Quantity
      /\ Product(r, q) \in Quantity /\ Same(r (\X) q, Product(r, q)) /\ r (\X) q \in Quantity
      /\ Same(r, r)
  BY Operations, CanonicalSame DEF Same
<1>3. /\ r (\X) (p (-) q) = r (\X) Subtracted(p, q)
      /\ (r (\X) p) (-) (r (\X) q) = Product(r, p) (-) Product(r, q)
  BY <1>2, Congruence
<1>4. Same(Product(r, Subtracted(p, q)), Subtracted(Product(r, p), Product(r, q)))
  <2> DEFINE n == r[1] * (p[1] * q[2] - q[1] * p[2])
             m == p[2] * q[2]
  <2>1. (r[1] * p[1]) * (r[2] * q[2]) - (r[1] * q[1]) * (r[2] * p[2]) = r[2] * n
    BY <1>1
  <2>2. (r[2] * p[2]) * (r[2] * q[2]) = r[2] * (r[2] * m)
    BY <1>1
  <2>3. n \in Int /\ m \in Int
    BY <1>1
  <2> HIDE DEF n, m
  <2>4. n * (r[2] * (r[2] * m)) = (r[2] * n) * (r[2] * m)
    BY <1>1, <2>3
  <2>5. n * ((r[2] * p[2]) * (r[2] * q[2]))
          = ((r[1] * p[1]) * (r[2] * q[2]) - (r[1] * q[1]) * (r[2] * p[2])) * (r[2] * m)
    BY <2>1, <2>2, <2>4
  <2>. QED
    BY <2>5 DEF n, m, Same, Product, Subtracted
<1>5. /\ Product(r, Subtracted(p, q)) \in Quantity
      /\ r (\X) Subtracted(p, q) = Canonical[Product(r, Subtracted(p, q))]
  BY <1>2, Operations
<1>6. /\ Subtracted(Product(r, p), Product(r, q)) \in Quantity
      /\ Product(r, p) (-) Product(r, q) = Canonical[Subtracted(Product(r, p), Product(r, q))]
  BY <1>2, Operations
<1>. QED
  BY <1>3, <1>4, <1>5, <1>6, CanonicalUnique

(* What is left of a price is the price of what is left.                   *)
LEMMA RestScaled ==
  ASSUME NEW r \in Positive, NEW p \in Positive, NEW q \in Positive, NEW theta \in Positive,
         r (\X) q = Canonical[p]
  PROVE  r (\X) (q (-) (q (\X) theta)) = Canonical[p (-) (p (\X) theta)]
<1>1. /\ r \in Quantity /\ p \in Quantity /\ q \in Quantity /\ theta \in Quantity
      /\ q (\X) theta \in Quantity /\ p (\X) theta \in Quantity
  BY PositiveParts, TimesPositive
<1>2. r (\X) (q (-) (q (\X) theta)) = (r (\X) q) (-) (r (\X) (q (\X) theta))
  BY <1>1, TimesMinus
<1>3. r (\X) (q (\X) theta) = p (\X) theta
  <2>1. r (\X) (q (\X) theta) = (r (\X) q) (\X) theta
    BY <1>1, TimesAssociates
  <2>. QED
    BY <1>1, <2>1, TimesCanonical
<1>4. /\ Canonical[p] (-) (p (\X) theta) = p (-) (p (\X) theta)
      /\ Canonical[p (-) (p (\X) theta)] = p (-) (p (\X) theta)
  BY <1>1, PlusCanonical
<1>. QED
  BY <1>2, <1>3, <1>4

(* If b buys a at the ratio r, d buys c at s, and the two ratios cross,    *)
(* then what either part that is traded gives covers what the other asks.  *)
LEMMA CrossingCovers ==
  ASSUME NEW a \in Positive, NEW b \in Positive, NEW c \in Positive, NEW d \in Positive,
         NEW r \in Positive, NEW s \in Positive,
         r (\X) b = Canonical[a], s (\X) d = Canonical[c], (r (\X) s) \preceq One
  PROVE  a (\X) c \preceq b (\X) d
<1>1. /\ a \in Quantity /\ b \in Quantity /\ c \in Quantity /\ d \in Quantity
      /\ r \in Quantity /\ s \in Quantity /\ One \in Quantity /\ One \in Positive
  BY PositiveParts DEF One, Quantity, Positive
<1>2. /\ r (\X) s \in Positive /\ b (\X) d \in Positive /\ r (\X) s \in Quantity
      /\ b (\X) d \in Quantity /\ s (\X) b = b (\X) s /\ s (\X) b \in Quantity
      /\ s (\X) d \in Quantity /\ b (\X) s \in Quantity
  BY <1>1, TimesPositive, PositiveParts
<1>3. (r (\X) s) (\X) (b (\X) d) = a (\X) c
  <2>1. (r (\X) s) (\X) (b (\X) d) = r (\X) (s (\X) (b (\X) d))
    BY <1>1, <1>2, TimesAssociates
  <2>2. s (\X) (b (\X) d) = (s (\X) b) (\X) d /\ (b (\X) s) (\X) d = b (\X) (s (\X) d)
    BY <1>1, TimesAssociates
  <2>3. r (\X) (b (\X) (s (\X) d)) = (r (\X) b) (\X) (s (\X) d)
    BY <1>1, <1>2, TimesAssociates
  <2>4. Canonical[c] \in Quantity
    BY <1>1, CanonicalSame
  <2>5. Canonical[a] (\X) Canonical[c] = a (\X) Canonical[c] /\ a (\X) Canonical[c] = a (\X) c
    BY <1>1, <2>4, TimesCanonical
  <2>. QED
    BY <1>2, <2>1, <2>2, <2>3, <2>5
<1>4. (b (\X) d) \preceq (b (\X) d)
  BY <1>2, TotalOrder
<1>5. (r (\X) s) (\X) (b (\X) d) \preceq One (\X) (b (\X) d)
  BY <1>1, <1>2, <1>4, TimesMonotone
<1>6. One (\X) (b (\X) d) = b (\X) d
  <2>1. One (\X) (b (\X) d) = Canonical[b (\X) d]
    BY <1>1, <1>2, OverTimes, TimesPositive
  <2>2. Product(b, d) \in Quantity /\ b (\X) d = Canonical[Product(b, d)]
    BY <1>1, Operations
  <2>. QED
    BY <2>1, <2>2, CanonicalEqual
<1>. QED
  BY <1>3, <1>5, <1>6

(* The smaller of what is given and what is asked is traded whole, and the *)
(* same value of the other.                                                *)
LEMMA ShareCovers ==
  ASSUME NEW a \in Positive, NEW b \in Positive, NEW c \in Positive, NEW d \in Positive,
         a (\X) c \preceq b (\X) d
  PROVE  /\ a (\X) One \preceq d (\X) (b (/) c)
         /\ c (\X) (b (/) c) \preceq b (\X) One
<1>1. /\ a \in Quantity /\ b \in Quantity /\ c \in Quantity /\ d \in Quantity
      /\ a (\X) One = Canonical[a] /\ b (\X) One = Canonical[b]
      /\ b (/) c \in Positive /\ (b (/) c) (\X) c = Canonical[b]
  BY PositiveParts, OverPositive, OverTimes
<1>2. c (\X) (b (/) c) \preceq b (\X) One
  <2>1. c (\X) (b (/) c) = Canonical[b] /\ Canonical[b] \in Quantity
    BY <1>1, TimesPositive, CanonicalSame
  <2>. QED
    BY <1>1, <2>1, TotalOrder
<1>3. a (\X) One \in Positive /\ d (\X) (b (/) c) \in Positive
  BY <1>1, TimesPositive DEF One, Positive, Quantity
<1>4. (a (\X) One) (\X) c = a (\X) c
  BY <1>1, TimesCanonical
<1>5. (d (\X) (b (/) c)) (\X) c = b (\X) d
  <2>1. (d (\X) (b (/) c)) (\X) c = d (\X) ((b (/) c) (\X) c)
    BY <1>1, PositiveParts, TimesAssociates
  <2>2. d (\X) Canonical[b] = d (\X) b /\ d (\X) b = b (\X) d
    BY <1>1, TimesCanonical
  <2>. QED
    BY <1>1, <2>1, <2>2
<1>. QED
  BY <1>2, <1>3, <1>4, <1>5, TimesCancel

(* What the two sides of a trade pay covers what they are credited.        *)
LEMMA PartsCover ==
  ASSUME NEW a \in Positive, NEW b \in Positive, NEW c \in Positive, NEW d \in Positive,
         a (\X) c \preceq b (\X) d, NEW to, NEW tx,
         <<to, tx>> = IF b \prec c THEN <<One, b (/) c>>
                      ELSE IF d \prec a THEN <<d (/) a, One>> ELSE <<One, One>>
  PROVE  a (\X) to \preceq d (\X) tx /\ c (\X) tx \preceq b (\X) to
<1>1. CASE b \prec c
  <2>1. to = One /\ tx = b (/) c
    BY <1>1
  <2>. QED
    BY <2>1, ShareCovers
<1>2. CASE ~(b \prec c) /\ d \prec a
  <2>1. to = d (/) a /\ tx = One
    BY <1>2
  <2>2. c (\X) a \preceq d (\X) b
    BY TimesPositive
  <2>. QED
    BY <2>1, <2>2, ShareCovers
<1>3. CASE ~(b \prec c) /\ ~(d \prec a)
  <2>1. to = One /\ tx = One
    BY <1>3
  <2>2. /\ a \in Quantity /\ b \in Quantity /\ c \in Quantity /\ d \in Quantity
        /\ a (\X) One = Canonical[a] /\ b (\X) One = Canonical[b]
        /\ c (\X) One = Canonical[c] /\ d (\X) One = Canonical[d]
    BY PositiveParts, OverTimes
  <2>3. a \preceq d /\ c \preceq b
    BY <1>3, <2>2, TotalOrder
  <2>4. /\ Canonical[a] \in Quantity /\ Same(Canonical[a], a)
        /\ Canonical[b] \in Quantity /\ Same(Canonical[b], b)
        /\ Canonical[c] \in Quantity /\ Same(Canonical[c], c)
        /\ Canonical[d] \in Quantity /\ Same(Canonical[d], d)
    BY <2>2, CanonicalSame
  <2>5. Canonical[a] \preceq d /\ Canonical[c] \preceq b
    BY <2>2, <2>3, <2>4, SameOrder
  <2>6. Canonical[a] \preceq Canonical[d] /\ Canonical[c] \preceq Canonical[b]
    BY <2>2, <2>4, <2>5, SameOrder
  <2>. QED
    BY <2>1, <2>2, <2>6
<1>. QED
  BY <1>1, <1>2, <1>3

-----------------------------------------------------------------------------
(* Moving value between two sums.                                          *)
LEMMA Swap ==
  ASSUME NEW p \in Quantity, NEW q \in Quantity, NEW r \in Quantity
  PROVE  (p (+) q) (+) r = (p (+) r) (+) q
<1>1. (p (+) q) (+) r = p (+) (q (+) r) /\ (p (+) r) (+) q = p (+) (r (+) q)
  BY PlusAssociates
<1>. QED
  BY <1>1, PlusCommutes

(* g is added on one side and c, which is no less, taken from the other:   *)
(* the whole stays the same or becomes less.                               *)
LEMMA LossOnly ==
  ASSUME NEW p \in Quantity, NEW q \in Quantity, NEW r \in Quantity,
         NEW g \in Quantity, NEW c \in Quantity, g \preceq c
  PROVE  LET before == p (+) (q (+) r)
             after  == (p (+) g) (+) ((q (-) c) (+) r)
         IN  after = before \/ after \prec before
<1> DEFINE before == p (+) (q (+) r)
           after  == (p (+) g) (+) ((q (-) c) (+) r)
<1>1. PICK n \in Quantity : n = Zero (-) c
  BY MinusQuantity DEF Zero, Quantity
<1>2. PICK k \in Quantity : k = c (-) g
  BY MinusQuantity
<1>3. PICK v \in Quantity : v = q (+) r
  BY PlusQuantity
<1>4. Zero \in Quantity
  BY DEF Zero, Quantity
<1>5. after = (p (+) v) (+) (g (+) n)
  <2>1. q (-) c = q (+) n
    BY <1>1, MinusIsPlus
  <2>2. (q (+) n) (+) r = v (+) n
    BY <1>1, <1>3, Swap
  <2>3. (p (+) g) (+) (v (+) n) = (p (+) v) (+) (g (+) n)
    BY <1>1, <1>3, Interchange
  <2>. QED
    BY <2>1, <2>2, <2>3
<1>6. (g (+) n) (+) k = Zero
  <2>1. (g (+) n) (+) k = (g (+) k) (+) n
    BY <1>1, <1>2, Swap
  <2>2. g (+) k = Canonical[c]
    <3>1. (c (-) g) (+) g = Canonical[c]
      BY MinusPlus
    <3>. QED
      BY <1>2, <3>1, PlusCommutes
  <2>3. Canonical[c] (+) n = c (+) n
    BY <1>1, PlusCanonical
  <2>4. c (+) n = c (-) c
    BY <1>1, MinusIsPlus
  <2>. QED
    BY <2>1, <2>2, <2>3, <2>4, MinusItself
<1>7. /\ p (+) v \in Quantity /\ g (+) n \in Quantity
      /\ (p (+) v) (+) (g (+) n) \in Quantity /\ before = p (+) v
  BY <1>1, <1>3, PlusQuantity
<1> HIDE DEF before, after
<1>8. after (+) k = before
  <2>1. after (+) k = (p (+) v) (+) ((g (+) n) (+) k)
    BY <1>2, <1>5, <1>7, PlusAssociates
  <2>2. (p (+) v) (+) Zero = Canonical[p (+) v]
    BY <1>7, PlusZero
  <2>3. Canonical[p (+) v] = p (+) v
    BY <1>3, PlusCanonical
  <2>. QED
    BY <1>6, <1>7, <2>1, <2>2, <2>3
<1>9. after = before \/ after \prec before
  <2>1. k = Zero \/ k \in Positive
    BY <1>2, MinusPositive
  <2>2. CASE k = Zero
    <3>1. after (+) Zero = Canonical[after]
      BY <1>5, <1>7, PlusZero
    <3>2. Canonical[after] = after
      BY <1>5, <1>7, PlusCanonical
    <3>. QED
      BY <1>8, <2>2, <3>1, <3>2
  <2>3. CASE k \in Positive
    <3>1. after \prec after (+) k
      BY <1>5, <1>7, <2>3, PlusPositive
    <3>. QED
      BY <1>8, <3>1
  <2>. QED
    BY <2>1, <2>2, <2>3
<1>. QED
  BY <1>9 DEF before, after

(* c is taken from one side and added on the other.                        *)
LEMMA MovedAcross ==
  ASSUME NEW p \in Quantity, NEW q \in Quantity, NEW c \in Quantity
  PROVE  (p (+) (Zero (-) c)) (+) (c (+) q) = p (+) q
<1>1. PICK n \in Quantity : n = Zero (-) c
  BY MinusQuantity DEF Zero, Quantity
<1>2. (p (+) n) (+) (q (+) c) = (p (+) q) (+) (n (+) c)
  BY <1>1, Interchange
<1>3. n (+) c = Zero
  <2>1. n (+) c = Canonical[Zero]
    BY <1>1, MinusPlus DEF Zero, Quantity
  <2>2. Zero (+) Zero = Canonical[Zero] /\ Zero (-) Zero = Canonical[Zero] /\ Zero (-) Zero = Zero
    BY PlusZero, MinusItself DEF Zero, Quantity
  <2>. QED
    BY <2>1, <2>2
<1>4. (p (+) q) (+) Zero = p (+) q
  <2>1. (p (+) q) (+) Zero = Canonical[p (+) q]
    BY PlusQuantity, PlusZero
  <2>2. Canonical[p (+) q] = p (+) q
    BY PlusCanonical
  <2>. QED
    BY <2>1, <2>2
<1>. QED
  BY <1>1, <1>2, <1>3, <1>4, PlusCommutes

-----------------------------------------------------------------------------
(* A sum does not change when zeroes are left out.                         *)
LEMMA TotalDrop ==
  ASSUME NEW D, IsFiniteSet(D), NEW f \in [D -> Quantity], NEW x \in D, f[x] = Zero
  PROVE  Total(f) = Total([y \in D \ {x} |-> f[y]])
<1>1. PICK h : h = [y \in D \ {x} |-> f[y]]
  OBVIOUS
<1>2. h \in [D \ {x} -> Quantity] /\ IsFiniteSet(D \ {x})
  BY <1>1, FS_Subset
<1>3. Reduced(Total(h))
  BY <1>2, TotalReduced
<1>4. Total(f) = Zero (+) Total(h)
  BY <1>1, TotalRest
<1>. QED
  BY <1>1, <1>3, <1>4, PlusZero DEF Reduced

LEMMA TotalDropTwo ==
  ASSUME NEW D, IsFiniteSet(D), NEW f \in [D -> Quantity], NEW x \in D, NEW z \in D,
         NEW T \in SUBSET {x, z}, \A y \in T : f[y] = Zero
  PROVE  Total(f) = Total([y \in D \ T |-> f[y]])
<1>1. T = {} \/ T = {x} \/ T = {z} \/ (x # z /\ T = {x, z})
  OBVIOUS
<1>2. CASE T = {}
  <2>1. f = [y \in D \ T |-> f[y]]
    BY <1>2
  <2>. QED
    BY <2>1
<1>3. CASE T = {x}
  BY <1>3, TotalDrop
<1>4. CASE T = {z}
  BY <1>4, TotalDrop
<1>5. CASE x # z /\ T = {x, z}
  <2>1. PICK h : h = [y \in D \ {x} |-> f[y]]
    OBVIOUS
  <2>2. PICK E : E = D \ {x}
    OBVIOUS
  <2>3. h \in [E -> Quantity] /\ IsFiniteSet(E) /\ z \in E /\ h[z] = Zero
    BY <1>5, <2>1, <2>2, FS_Subset
  <2>4. Total(h) = Total([y \in E \ {z} |-> h[y]])
    BY <2>3, TotalDrop
  <2>5. [y \in E \ {z} |-> h[y]] = [y \in D \ T |-> f[y]]
    BY <1>5, <2>1, <2>2
  <2>6. Total(f) = Total(h)
    BY <1>5, <2>1, TotalDrop
  <2>. QED
    BY <2>4, <2>5, <2>6
<1>. QED
  BY <1>1, <1>2, <1>3, <1>4, <1>5

(* One more amount on either side of an account.                           *)
LEMMA Entries ==
  ASSUME NEW p \in Quantity, NEW q \in Quantity, NEW r \in Quantity
  PROVE  /\ (r (+) p) (-) q = (p (-) q) (+) r
         /\ p (-) (r (+) q) = (p (-) q) (-) r
<1>1. /\ Zero \in Quantity /\ Zero (-) q \in Quantity /\ p (-) q \in Quantity
      /\ r (+) p \in Quantity /\ r (+) q \in Quantity
  BY PlusQuantity, MinusQuantity, ReducedResults DEF Reduced
<1>2. (r (+) p) (-) q = (p (-) q) (+) r
  <2>1. (r (+) p) (-) q = r (+) (p (+) (Zero (-) q))
    BY <1>1, MinusIsPlus, PlusAssociates
  <2>2. r (+) (p (+) (Zero (-) q)) = r (+) (p (-) q)
    BY MinusIsPlus
  <2>. QED
    BY <1>1, <2>1, <2>2, PlusCommutes
<1> DEFINE x == p (-) (r (+) q)
           y == (p (-) q) (-) r
<1>3. x \in Quantity /\ y \in Quantity /\ Canonical[x] = x /\ Canonical[y] = y
  BY <1>1, MinusQuantity, PlusCanonical
<1>4. x (+) (r (+) q) = Canonical[p]
  BY <1>1, MinusPlus
<1>5. y (+) (r (+) q) = Canonical[p]
  <2>1. y (+) (r (+) q) = (y (+) r) (+) q
    BY <1>3, PlusAssociates
  <2>2. y (+) r = p (-) q
    <3>1. y (+) r = Canonical[p (-) q]
      BY <1>1, MinusPlus
    <3>. QED
      BY <3>1, PlusCanonical
  <2>3. (p (-) q) (+) q = Canonical[p]
    BY MinusPlus
  <2>. QED
    BY <2>1, <2>2, <2>3
<1> HIDE DEF x, y
<1>6. x = y
  <2>1. (x (+) (r (+) q)) (-) (r (+) q) = x /\ (y (+) (r (+) q)) (-) (r (+) q) = y
    BY <1>1, <1>3, PlusMinus
  <2>. QED
    BY <1>4, <1>5, <2>1
<1>. QED
  BY <1>2, <1>6 DEF x, y
=============================================================================
