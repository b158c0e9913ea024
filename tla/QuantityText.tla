---------------------------- MODULE QuantityText ----------------------------
(***************************************************************************)
(* The text form in which quantities are stored and sent: bq_to_string and *)
(* string_to_bq (dmath/bq.cc), and the text of a value around them,        *)
(* value_to_string and string_to_value (bom/value.cc).  Balances and notes *)
(* are stored as the text of a quantity, the two sides of an offer as the  *)
(* text of a value.                                                        *)
(*                                                                         *)
(* A text is a record of its parts.  The decimals are written with the     *)
(* conversion %0<width>s, which the C library of the build (ARCH,          *)
(* i386-linux) pads with spaces; mpz_set_str skips white space and refuses *)
(* quotes, and string_to_bq ignores the refusal when it reads decimals.    *)
(***************************************************************************)
EXTENDS Quantity

CONSTANTS
  Amounts,    \* quantities that commands name
  MaxBalance  \* bound of the model: the size of a balance

ASSUME AmountAssumption ==
  /\ \A q \in Amounts : q \in Quantity /\ Canonical[q] = q
  /\ MaxBalance \in Nat

VARIABLES
  balance,  \* a row of acct_value: the text of a balance
  bid,      \* a row of offer_bid_value: the text of the value an offer bids
  exact,    \* what the balance amounts to
  offered,  \* what is left of the bid
  padded    \* a text of this offer has contained a space

textVars == <<balance, bid, exact, offered, padded>>

-----------------------------------------------------------------------------
(* Writing                                                                 *)

(* _to_decimal: numerator, denominator and exponent once the factors 5 and *)
(* 2 are out of the denominator.                                           *)
to_decimal[x \in Nat \X (Nat \ {0}) \X Nat] ==
  LET num == x[1]  den == x[2]  exp == x[3] IN
  CASE den % 5 = 0 -> to_decimal[<<num * 2, den \div 5, exp + 1>>]
    [] den % 5 # 0 /\ den % 2 = 0 -> to_decimal[<<num * 5, den \div 2, exp + 1>>]
    [] OTHER -> x

Digits[k \in Nat] == IF k < 10 THEN 1 ELSE 1 + Digits[k \div 10]

Abs(n) == IF n < 0 THEN -n ELSE n

(* bq_to_string: an integer, decimals if the fraction has finitely many,   *)
(* or whole part and fraction.                                             *)
bq_to_string(q) ==
  LET whole == Abs(q[1]) \div q[2]
      num   == Abs(q[1]) % q[2]
      d     == to_decimal[<<num, IF num = 0 THEN 1 ELSE q[2], 0>>]
      text(kind, a, b, w) == [neg |-> q[1] < 0, whole |-> whole, kind |-> kind,
                              num |-> a, den |-> b, width |-> w]
  IN  CASE num = 0 -> text("integer", 0, 1, 0)
        [] num # 0 /\ d[2] = 1 -> text("decimal", d[1], 1, d[3])
        [] OTHER -> text("fraction", num, q[2], 0)

HasSpace(t) == t.kind = "decimal" /\ Digits[t.num] < t.width

-----------------------------------------------------------------------------
(* Reading                                                                 *)

(* The loop r /= 10, as often as there are characters.                     *)
Shifted[x \in Quantity \X Nat] ==
  IF x[2] = 0 THEN x[1] ELSE Shifted[<<x[1] (/) <<10, 1>>, x[2] - 1>>]

Signed(t, q) == IF t.neg THEN <<-q[1], q[2]>> ELSE q

(* Mutant: the decimals are counted without their padding.                 *)
string_to_bqDigits(t) ==
  Signed(t, <<t.whole, 1>> (+)
    CASE t.kind = "integer"  -> Zero
      [] t.kind = "decimal"  -> Shifted[<<<<t.num, 1>>, Digits[t.num]>>]
      [] t.kind = "fraction" -> Canonical[<<t.num, t.den>>])

string_to_bq(t) ==
  Signed(t, <<t.whole, 1>> (+)
    CASE t.kind = "integer"  -> Zero
      [] t.kind = "decimal"  -> Shifted[<<<<t.num, 1>>, t.width>>]
      [] t.kind = "fraction" -> Canonical[<<t.num, t.den>>])

(* value_to_string puts quotes around a text with a space.                 *)
value_to_string(q) == [text |-> bq_to_string(q), quoted |-> HasSpace(bq_to_string(q))]

(* string_to_value hands the quotes to string_to_bq, which then reads no   *)
(* number on either side of the point.                                     *)
string_to_value(v) == IF v.quoted THEN Zero ELSE string_to_bq(v.text)

-----------------------------------------------------------------------------
(* acct::credit and debit_forced of a row of acct_value.                   *)
SetBalance(q) ==
  /\ balance' = bq_to_string(q)
  /\ UNCHANGED <<bid, offered, padded>>

Within(q) == Abs(q[1]) <= MaxBalance * q[2]

Credit(q) ==
  /\ Within(exact (+) q)
  /\ SetBalance(string_to_bq(balance) (+) q)
  /\ exact' = exact (+) q

Debit(q) ==
  /\ Within(exact (-) q)
  /\ SetBalance(string_to_bq(balance) (-) q)
  /\ exact' = exact (-) q

(* offer::set_bid_value of a new offer.                                    *)
OfferCreate(q) ==
  /\ bid' = value_to_string(q)
  /\ offered' = q
  /\ padded' = bid'.quoted
  /\ UNCHANGED <<balance, exact>>

(* A trade takes the part q of the bid: get_bid_value, then set_bid_value. *)
Fill(q) ==
  /\ q \prec string_to_value(bid)
  /\ bid' = value_to_string(string_to_value(bid) (-) q)
  /\ offered' = offered (-) q
  /\ padded' = (padded \/ bid'.quoted)
  /\ UNCHANGED <<balance, exact>>

TextInit ==
  /\ balance = bq_to_string(Zero) /\ exact = Zero
  /\ bid = value_to_string(Zero) /\ offered = Zero
  /\ padded = FALSE

TextNext == \E q \in Amounts : Credit(q) \/ Debit(q) \/ OfferCreate(q) \/ Fill(q)

TextSpec == TextInit /\ [][TextNext]_textVars

-----------------------------------------------------------------------------
(* Properties                                                              *)

(* A balance survives any number of credits and debits, each of which      *)
(* reads its text and writes a new one: whatever its sign, and whether the *)
(* text is decimal, padded or a fraction, the exact amount is read back.   *)
(* So is an offer's bid, fill after fill, as long as none of its texts     *)
(* needs padding.                                                          *)
QuantitiesKept ==
  /\ string_to_bq(balance) = exact
  /\ ~padded => string_to_value(bid) = offered
=============================================================================
