---------------------------- MODULE InputsProofs ----------------------------
(***************************************************************************)
(* ParseCents is exact for every integer width of at least two digits, so  *)
(* for math.MaxInt64, which TLC cannot reach, and the validator and the    *)
(* provider agree on every gift, whatever vouchers there are.              *)
(***************************************************************************)
EXTENDS MCInputs, TLAPS

\* The two digits after the point.
LEMMA PaddedDigits ==
  ASSUME NEW a \in Amount
  PROVE  /\ a.whole \in Nat
         /\ padded(a) \in 0..99
         /\ Hundredths(a) = a.whole * 100 + padded(a)
<1>1. /\ a.whole \in Nat
      /\ \/ a.frac[1] = 0 /\ a.frac[2] = 0
         \/ a.frac[1] = 1 /\ a.frac[2] \in 0..9
         \/ a.frac[1] = 2 /\ a.frac[2] \in 0..99
  BY DEF Amount, Fraction
<1>2. CASE a.frac[1] = 0 /\ a.frac[2] = 0
  BY <1>1, <1>2 DEF padded, Hundredths
<1>3. CASE a.frac[1] = 1 /\ a.frac[2] \in 0..9
  BY <1>1, <1>3 DEF padded, Hundredths
<1>4. CASE a.frac[1] = 2 /\ a.frac[2] \in 0..99
  BY <1>1, <1>4 DEF padded, Hundredths
<1> QED
  BY <1>1, <1>2, <1>3, <1>4

(***************************************************************************)
(* The guard w > (MaxInt - f) / 100, which never leaves the integer width, *)
(* refuses exactly the amounts whose cents do not fit.                     *)
(***************************************************************************)
LEMMA GuardIsExact ==
  ASSUME NEW w \in Nat, NEW f \in 0..99
  PROVE  overflows(w, f) <=> w * 100 + f > MaxInt
<1>1. MaxInt \in Nat /\ MaxInt - f \in Nat
  BY MaxIntAssumption
<1> DEFINE n == MaxInt - f
           q == n \div 100
<1>2. q \in Nat /\ 100 * q <= n /\ n < 100 * q + 100
  BY <1>1
<1> QED
  BY <1>1, <1>2 DEF overflows

(***************************************************************************)
(* ParseCents returns the exact cents of every well-formed amount that     *)
(* fits and an error for every other string, for every width.              *)
(***************************************************************************)
THEOREM ParseCentsIsExact == \A a \in Amount : ParseCents(a) = ExactCents(a)
<1> SUFFICES ASSUME NEW a \in Amount PROVE ParseCents(a) = ExactCents(a)
  OBVIOUS
<1>1. /\ a.whole \in Nat
      /\ padded(a) \in 0..99
      /\ Hundredths(a) = a.whole * 100 + padded(a)
  BY PaddedDigits
<1>2. overflows(a.whole, padded(a)) <=> Hundredths(a) > MaxInt
  BY <1>1, GuardIsExact
<1>3. a.whole > MaxInt => Hundredths(a) > MaxInt
  BY <1>1, MaxIntAssumption
<1> QED
  BY <1>1, <1>2, <1>3, MaxIntAssumption DEF ParseCents, ExactCents

(***************************************************************************)
(* So what the run of MCInputs shows of ParseCents for one small MaxInt    *)
(* holds for every MaxInt.                                                 *)
(***************************************************************************)
THEOREM EveryAmountIsExact == Spec => []ParsedExactly
<1> DEFINE Inv == /\ stage \in {"submitted", "accepted", "rejected", "extracted",
                                "returned", "parsed"}
                  /\ stage \in {"returned", "parsed"} => item \in Amount
                  /\ ParsedExactly
<1>1. Init => Inv
  <2>1. MaxWhole \in Nat /\ MaxInt \in Nat
    BY MaxIntAssumption DEF MaxWhole
  <2>2. AmountsAround \subseteq Amount
    BY <2>1 DEF AmountsAround, Amount
  <2> QED
    BY <2>2 DEF Init, ParsedExactly
<1>2. Inv /\ [Next]_vars => Inv'
  <2> SUFFICES ASSUME Inv, [Next]_vars PROVE Inv'
    OBVIOUS
  <2>1. item' = item
    BY DEF Next, Validate, Extract, Parse, Finished, vars
  <2>2. ExactCents(item)' = ExactCents(item)
    BY <2>1 DEF ExactCents, Hundredths
  <2>3. CASE Validate
    BY <2>1, <2>3 DEF Validate, ParsedExactly
  <2>4. CASE Extract
    BY <2>1, <2>4 DEF Extract, ParsedExactly
  <2>5. CASE Parse
    BY <2>1, <2>2, <2>5, ParseCentsIsExact DEF Parse, ParsedExactly
  <2>6. CASE UNCHANGED vars
    BY <2>1, <2>2, <2>6 DEF ParsedExactly, vars
  <2> QED
    BY <2>3, <2>4, <2>5, <2>6 DEF Next, Finished
<1> QED
  BY <1>1, <1>2, PTL DEF Spec

-----------------------------------------------------------------------------
\* What a gift has been through at each stage.
GiftsThrough ==
  /\ stage \in {"submitted", "accepted", "extracted"} => item \in Gift
  /\ stage \in {"accepted", "extracted"} => ValidateGift(item)
  /\ stage = "extracted" => result = extractVoucherHash(item)

\* Every gift that reaches a stage got there through the checks of the stages before.
LEMMA GiftsGoThrough == Spec => []GiftsThrough
<1>1. Init => GiftsThrough
  BY DEF Init, GiftsThrough
<1>2. GiftsThrough /\ [Next]_vars => GiftsThrough'
  <2> SUFFICES ASSUME GiftsThrough, [Next]_vars PROVE GiftsThrough'
    OBVIOUS
  <2> USE DEF GiftsThrough
  <2>1. item' = item
    BY DEF Next, Validate, Extract, Parse, Finished, vars
  <2>2. /\ ValidateGift(item)' = ValidateGift(item)
        /\ extractVoucherHash(item)' = extractVoucherHash(item)
    BY <2>1 DEF ValidateGift, extractVoucherHash, IsLink, IsTrustedGiftHost
  <2>3. CASE Validate
    BY <2>1, <2>2, <2>3 DEF Validate
  <2>4. CASE Extract
    BY <2>1, <2>2, <2>4 DEF Extract
  <2>5. CASE Parse
    BY <2>1, <2>2, <2>5 DEF Parse
  <2>6. CASE UNCHANGED vars
    BY <2>1, <2>2, <2>6 DEF vars
  <2> QED BY <2>3, <2>4, <2>5, <2>6 DEF Next, Finished
<1> QED BY <1>1, <1>2, PTL DEF Spec

(***************************************************************************)
(* The provider refuses what the validator accepted only for want of a     *)
(* hash in the link (ValidateGift, extractVoucherHash).                    *)
(***************************************************************************)
THEOREM ChecksAlwaysAgree == Spec => []ChecksAgree
<1>1. GiftsThrough => ChecksAgree
  <2> SUFFICES ASSUME GiftsThrough, stage = "extracted", result = NoHash
               PROVE  IsLink(item) /\ item.v = NoHash
    BY DEF ChecksAgree
  <2>1. item \in Gift /\ ValidateGift(item) /\ extractVoucherHash(item) = NoHash
    BY DEF GiftsThrough
  <2>2. CASE IsLink(item)
    BY <2>1, <2>2 DEF ValidateGift, extractVoucherHash
  <2>3. CASE ~IsLink(item)
    <3>1. item.prefix = "none" /\ item.codeOk /\ item.v = NoHash
      BY <2>1, <2>3 DEF Gift, IsLink, ValidateGift, extractVoucherHash
    <3> QED BY <2>1, <3>1 DEF Gift
  <2> QED BY <2>2, <2>3
<1> QED BY GiftsGoThrough, <1>1, PTL
=============================================================================
