------------------------------ MODULE Quantity ------------------------------
(***************************************************************************)
(* Exact rational quantities: class bq of dmath, a wrapper of GMP's mpq.   *)
(* A quantity is a pair <<numerator, denominator>> that is always in       *)
(* canonical form (mpq_canonicalize ends every operator of bq.cc), so that *)
(* two quantities are equal exactly when the pairs are.                    *)
(*                                                                         *)
(* Nothing here is recursive, so that modules with proofs may extend it.   *)
(* The operations are functions, whose arguments TLC evaluates once.       *)
(***************************************************************************)
EXTENDS Integers, FiniteSetsExt

Quantity == Int \X (Nat \ {0})
Positive == {q \in Quantity : q[1] > 0}

Zero == <<0, 1>>
One  == <<1, 1>>

CommonDivisors(f) == {g \in 1..f[2] : f[1] % g = 0 /\ f[2] % g = 0}

(* The fraction f in lowest terms.                                         *)
Canonical[f \in Quantity] ==
  LET g == Max(CommonDivisors(f)) IN <<f[1] \div g, f[2] \div g>>

Operands == Quantity \X Quantity

Plus[x \in Operands] ==
  LET p == x[1]  q == x[2] IN Canonical[<<p[1] * q[2] + q[1] * p[2], p[2] * q[2]>>]

Minus[x \in Operands] ==
  LET p == x[1]  q == x[2] IN Canonical[<<p[1] * q[2] - q[1] * p[2], p[2] * q[2]>>]

Times[x \in Operands] ==
  LET p == x[1]  q == x[2] IN Canonical[<<p[1] * q[1], p[2] * q[2]>>]

(* Division, only ever by a positive quantity in the code modelled here.   *)
Over[x \in Quantity \X Positive] ==
  LET p == x[1]  q == x[2] IN Canonical[<<p[1] * q[2], p[2] * q[1]>>]

p (+) q == Plus[<<p, q>>]
p (-) q == Minus[<<p, q>>]
p (\X) q == Times[<<p, q>>]
p (/) q == Over[<<p, q>>]

p \prec q   == p[1] * q[2] < q[1] * p[2]
p \preceq q == p[1] * q[2] <= q[1] * p[2]

(* The sum of the values of f, a function on a finite set.                 *)
Total(f) == FoldFunction(LAMBDA p, q : p (+) q, Zero, f)
=============================================================================
