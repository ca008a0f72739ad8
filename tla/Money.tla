-------------------------------- MODULE Money --------------------------------
(***************************************************************************)
(* ParseCents (internal/money): a decimal amount string to integer cents,  *)
(* refusing instead of overflowing.  MaxInt stands for math.MaxInt64; the  *)
(* model keeps the guard's own arithmetic, which avoids computing w*100+f  *)
(* before it is known to fit.                                              *)
(***************************************************************************)
EXTENDS Integers

CONSTANT MaxInt

\* The guard subtracts two decimals from MaxInt before dividing: 99 must fit.
ASSUME MaxIntAssumption == MaxInt \in Nat /\ MaxInt >= 99

ParseError == -1   \* the error return of ParseCents

(***************************************************************************)
(* An amount string: does it match amountRe, the value of the digits       *)
(* before the point, how many digits follow it, and their value.  The      *)
(* empty string is not well formed.                                        *)
(***************************************************************************)
Fraction == {<<0, 0>>} \cup ({1} \X (0..9)) \cup ({2} \X (0..99))

Amount == [wellFormed : BOOLEAN, whole : Nat, frac : Fraction]

\* frac padded to two digits: "" is 00, "5" is 50
padded(a) == IF a.frac[1] = 1 THEN a.frac[2] * 10 ELSE a.frac[2]

\* Mutant: the guard ignores the fraction.
overflows_WholeOnly(w, f) == w > MaxInt \div 100

overflows(w, f) == w > (MaxInt - f) \div 100

ParseCents(a) ==
  IF ~a.wellFormed \/ a.whole > MaxInt \/ overflows(a.whole, padded(a))
  THEN ParseError
  ELSE a.whole * 100 + padded(a)

-----------------------------------------------------------------------------
(***************************************************************************)
(* The reference: the number of hundredths the string denotes.             *)
(***************************************************************************)
Hundredths(a) ==
  a.whole * 100 + (CASE a.frac[1] = 0 -> 0
                     [] a.frac[1] = 1 -> 10 * a.frac[2]
                     [] a.frac[1] = 2 -> a.frac[2])

\* What ParseCents must return: those hundredths, or an error when they do not fit.
ExactCents(a) ==
  IF a.wellFormed /\ Hundredths(a) <= MaxInt THEN Hundredths(a) ELSE ParseError
=============================================================================
