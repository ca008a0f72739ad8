------------------------------ MODULE MCRedeem ------------------------------
(***************************************************************************)
(* Small instances of Redeem.  Two gifts name the same voucher, a bare     *)
(* code and a link, so that the same voucher can be asked for under two    *)
(* coalescing keys; a third is a trusted link without a hash.              *)
(***************************************************************************)
EXTENDS Redeem, TLC

CONSTANTS v1, id1

BareCode == [prefix |-> "none", codeOk |-> TRUE, tooLong |-> FALSE,
             parses |-> TRUE, host |-> <<>>, v |-> v1]

Link(v) == [prefix |-> "https", codeOk |-> FALSE, tooLong |-> FALSE,
            parses |-> TRUE, host |-> <<"name", ".", Domain>>, v |-> v]

TwoNames == {BareCode, Link(v1)}
MCGifts  == {BareCode, Link(v1), Link(NoHash)}

Parsable   == [wellFormed |-> TRUE, whole |-> 1, frac |-> <<1, 5>>]
Unparsable == [wellFormed |-> FALSE, whole |-> 0, frac |-> <<0, 0>>]

OneAmount == {Parsable}
MCAmounts == {Parsable, Unparsable}

MCCents     == 0..MaxInt
MCVoucherID == [v \in Vouchers |-> id1]
OneShare    == [v \in Vouchers |-> 1]

Symmetry == Permutations(Requests) \cup Permutations(Instances) \cup Permutations(ValidPhones)
=============================================================================
