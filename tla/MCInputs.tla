------------------------------ MODULE MCInputs ------------------------------
(***************************************************************************)
(* The pure functions a redemption goes through.  Every kind of gift is    *)
(* submitted to the validator and, when it is accepted, to the provider,   *)
(* in the order TwService.Redeem and Client.Redeem do; every amount around *)
(* the overflow boundary of a small MaxInt is parsed as record does.       *)
(***************************************************************************)
EXTENDS GiftLink, Money

MaxWhole == MaxInt \div 100 + 2   \* two past the largest whole part that fits

\* Amounts as TrueMoney may return them, the largest around MaxInt itself.
AmountsAround ==
  [wellFormed : BOOLEAN, whole : (0..MaxWhole) \cup {MaxInt, MaxInt + 1}, frac : Fraction]

VARIABLES item,    \* the gift or the amount
          stage,   \* how far it got
          result   \* the hash extracted or the cents parsed

vars == <<item, stage, result>>

Init ==
  \/ item \in Gift /\ stage = "submitted" /\ result = NoHash
  \/ item \in AmountsAround /\ stage = "returned" /\ result = ParseError

Validate ==
  /\ stage = "submitted"
  /\ stage' = IF ValidateGift(item) THEN "accepted" ELSE "rejected"
  /\ UNCHANGED <<item, result>>

Extract ==
  /\ stage = "accepted"
  /\ result' = extractVoucherHash(item)
  /\ stage' = "extracted"
  /\ UNCHANGED item

Parse ==
  /\ stage = "returned"
  /\ result' = ParseCents(item)
  /\ stage' = "parsed"
  /\ UNCHANGED item

Finished == stage \in {"rejected", "extracted", "parsed"} /\ UNCHANGED vars

Next == Validate \/ Extract \/ Parse \/ Finished

Spec == Init /\ [][Next]_vars

-----------------------------------------------------------------------------
(***************************************************************************)
(* The provider refuses what the validator accepted for one reason only: a *)
(* link without a voucher hash.  The host check cannot drift between       *)
(* ValidateGift and extractVoucherHash (the promise of IsTrustedGiftHost's *)
(* comment in validator.go).                                               *)
(***************************************************************************)
ChecksAgree ==
  (stage = "extracted" /\ result = NoHash) => (IsLink(item) /\ item.v = NoHash)

(***************************************************************************)
(* ParseCents accepts exactly the well-formed amounts whose cents fit in   *)
(* the integer width, up to MaxInt itself, and returns those cents without *)
(* rounding; every other string is an error.                               *)
(***************************************************************************)
ParsedExactly == stage = "parsed" => result = ExactCents(item)
=============================================================================
