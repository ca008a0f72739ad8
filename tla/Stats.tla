-------------------------------- MODULE Stats --------------------------------
(***************************************************************************)
(* What the statistics store promises the redeem service (the statsStore   *)
(* interface and the comments of both stores): a redemption is counted     *)
(* once per voucher reference, an empty reference always counts, failures  *)
(* are never deduplicated, and nothing is ever taken back.  The PostgreSQL *)
(* store is shown to implement it in PgStats.                              *)
(***************************************************************************)
EXTENDS Integers

CONSTANTS Refs,     \* voucher references TrueMoney can return
          NoRef,    \* the empty reference
          Cents     \* amounts, in cents, a redemption can have

ASSUME StatsAssumption == NoRef \notin Refs /\ Cents \subseteq Nat

VARIABLES refs,     \* references already counted (recorded_refs)
          count,    \* tw_count
          cents,    \* tw_amount_cents
          errors    \* tw_error_count

statsVars == <<refs, count, cents, errors>>

StatsTypeOK ==
  /\ refs \subseteq Refs
  /\ count \in Nat
  /\ cents \in Nat
  /\ errors \in Nat

StatsInit == refs = {} /\ count = 0 /\ cents = 0 /\ errors = 0

\* Mutant: the duplicate check is missing.
RecordTw_NoDedup(amountCents, ref) ==
  /\ refs' = refs \cup ({ref} \ {NoRef})
  /\ count' = count + 1
  /\ cents' = cents + amountCents
  /\ UNCHANGED errors

\* The new voucher is counted, or the known one leaves everything as it is.
RecordTw(amountCents, ref) ==
  IF ref \in refs
  THEN UNCHANGED statsVars
  ELSE /\ refs' = refs \cup ({ref} \ {NoRef})
       /\ count' = count + 1
       /\ cents' = cents + amountCents
       /\ UNCHANGED errors

RecordTwError == errors' = errors + 1 /\ UNCHANGED <<refs, count, cents>>

StatsNext ==
  \/ \E amountCents \in Cents, ref \in Refs \cup {NoRef} : RecordTw(amountCents, ref)
  \/ RecordTwError

StatsSpec == StatsInit /\ [][StatsNext]_statsVars
=============================================================================
