------------------------------ MODULE GiftLink ------------------------------
(***************************************************************************)
(* The two checks a gift goes through before TrueMoney is called: the      *)
(* validator's (internal/validator) and the provider's own extraction of   *)
(* the voucher hash (internal/provider/truemoney).  A gift is a string in  *)
(* the code; here it is a record of the facts the two checks look at.      *)
(***************************************************************************)
EXTENDS SequencesExt

CONSTANTS Vouchers,   \* voucher hashes a gift can name
          NoHash      \* the empty hash

ASSUME NoHashAssumption == NoHash \notin Vouchers

(***************************************************************************)
(* What url.Parse finds as u.Host: up to three of the pieces below, one    *)
(* after the other.  <<"name", ".", Domain>> is a subdomain,               *)
(* <<"name", Domain>> a name that ends in truemoney.com without the dot    *)
(* before it, <<Domain, ":443">> a host with its port.                     *)
(***************************************************************************)
Domain == "truemoney.com"
Hosts  == SeqOf({Domain, "name", ".", ":443"}, 3)

(***************************************************************************)
(* prefix : the literal scheme prefix, "none" for a bare code;             *)
(* codeOk : giftRe matches (20-60 alphanumerics), so never for a link;     *)
(* tooLong: longer than maxGiftLinkLen;  parses: url.Parse succeeds;       *)
(* v      : the "v" query parameter of a link, or the code itself.         *)
(***************************************************************************)
Gift == {g \in [prefix  : {"none", "http", "https"},
                codeOk  : BOOLEAN,
                tooLong : BOOLEAN,
                parses  : BOOLEAN,
                host    : Hosts,
                v       : Vouchers \cup {NoHash}] :
           IF g.prefix = "none" THEN g.codeOk => g.v # NoHash ELSE ~g.codeOk}

IsLink(g) == g.prefix \in {"http", "https"}

IsTrustedGiftHost(host) == host = <<Domain>> \/ IsSuffix(<<".", Domain>>, host)

\* Mutant: the host is compared only in the provider.
ValidateGift_AnyHost(g) ==
  IF IsLink(g)
  THEN ~g.tooLong /\ g.parses /\ g.host # <<>>
  ELSE g.codeOk

ValidateGift(g) ==
  IF IsLink(g)
  THEN ~g.tooLong /\ g.parses /\ g.host # <<>> /\ IsTrustedGiftHost(g.host)
  ELSE g.codeOk

(***************************************************************************)
(* NoHash stands for every error return: an unparsable link, an untrusted  *)
(* host, or no "v" parameter.                                              *)
(***************************************************************************)
extractVoucherHash(g) ==
  IF ~IsLink(g)
  THEN g.v
  ELSE IF g.parses /\ IsTrustedGiftHost(g.host) THEN g.v ELSE NoHash
=============================================================================
