---------------------------- MODULE RedeemProofs ----------------------------
(***************************************************************************)
(* Proofs about Redeem, for any number of processes, requests, phones,     *)
(* gifts and vouchers, and any number of crashes and disconnects.  IInv is *)
(* inductive; the safety properties follow from it.  What the books say    *)
(* rests on it too, and on the laws of finite sums at the end.             *)
(***************************************************************************)
EXTENDS Redeem, FiniteSetTheorems, TLAPS

-----------------------------------------------------------------------------
(***************************************************************************)
(* The coalescing key is one of the keys of the map, and two jobs of one   *)
(* process have the same key only if they are the same job.                *)
(***************************************************************************)
LEMMA KeyType ==
  ASSUME NEW p \in Phones, NEW g \in Gifts
  PROVE  twCoalesceKey(p, g) \in Keys
BY DEF twCoalesceKey, Keys

\* Equal keys come from equal phones and gifts.
LEMMA KeyInjective ==
  ASSUME NEW p \in Phones, NEW g \in Gifts, NEW q \in Phones, NEW h \in Gifts,
         twCoalesceKey(p, g) = twCoalesceKey(q, h)
  PROVE  p = q /\ g = h
BY DEF twCoalesceKey

\* The hash of a submitted gift is a voucher or missing.
LEMMA HashType ==
  ASSUME NEW g \in Gifts
  PROVE  extractVoucherHash(g) \in Vouchers \cup {NoHash}
<1>1. g.v \in Vouchers \cup {NoHash}
  BY RedeemAssumption DEF Gift
<1> QED
  BY <1>1 DEF extractVoucherHash

\* The mappings of errors yield outcomes of the right kind.
LEMMA BusinessErrorType ==
  ASSUME NEW code
  PROVE  /\ mapBusinessError(code) \in Outcome
         /\ mapBusinessError(code).status \in {404, 409, 422}
BY DEF mapBusinessError, Failure, Outcome

\* A failed POST is a 5xx that names the fault.
LEMMA CallErrorType ==
  ASSUME NEW why \in CallFaults
  PROVE  /\ callError(why) \in Outcome
         /\ callError(why).status \in {500, 502, 504}
         /\ callError(why).why = why
BY DEF callError, Failure, Outcome

\* What fails validation is a 422.
LEMMA InvalidType == Invalid \in Outcome /\ Invalid.status = 422
BY DEF Invalid, Failure, Outcome

\* What ParseCents accepts fits; what record adds is a natural number.
LEMMA CentsOfType ==
  ASSUME NEW a \in Amounts
  PROVE  CentsOf(a) \in Nat
<1>1. a \in Amount
  BY RedeemAssumption
<1>2. a.whole \in Nat /\ a.frac[1] \in 0..2 /\ a.frac[2] \in 0..99
  BY <1>1 DEF Amount, Fraction
<1>3. padded(a) \in Nat
  BY <1>2 DEF padded
<1>4. a.whole * 100 + padded(a) \in Nat
  BY <1>2, <1>3
<1> QED
  BY <1>4 DEF CentsOf, ParseCents, ParseError
-----------------------------------------------------------------------------
(***************************************************************************)
(* Every action keeps the inductive invariant: one lemma per action, one   *)
(* step per conjunct of IInv.                                              *)
(***************************************************************************)
\* A request that fails validation (TwService.Redeem) waits for nobody.
LEMMA RedeemInvalidStep ==
  ASSUME IInv, NEW r \in Requests, NEW i \in Instances, NEW p \in Phones, NEW g \in Gifts,
         RedeemInvalid(r, i, p, g)
  PROVE  IInv'
<1>1. TypeOK'
  BY InvalidType DEF IInv, TypeOK, StatsTypeOK, Job, RedeemInvalid, callVars,
     upVars, statsVars
<1>2. Arrival'
  BY DEF IInv, TypeOK, Arrival, Job, RedeemInvalid, callVars
<1>3. MapIsCalls'
  BY DEF IInv, Arrival, MapIsCalls, UnderWay, KeyOf, RedeemInvalid, callVars
<1>4. PostIsCall'
  BY DEF IInv, TypeOK, Arrival, PostIsCall, RedeemInvalid, callVars, upVars
<1>5. ReturnedVerdict'
  BY DEF IInv, TypeOK, ReturnedVerdict, Verdict, RedeemInvalid, callVars,
     upVars, statsVars
<1>6. WaitsForOwn'
  BY DEF IInv, TypeOK, Arrival, WaitsForOwn, Answered, Job, RedeemInvalid, callVars
<1> QED
  BY <1>1, <1>2, <1>3, <1>4, <1>5, <1>6 DEF IInv

\* Entering the map: the new call is the only one under way for its key.
LEMMA DoLeadStep ==
  ASSUME IInv, NEW r \in Requests, NEW i \in Instances, NEW p \in Phones, NEW g \in Gifts,
         DoLead(r, i, p, g)
  PROVE  IInv'
<1>1. TypeOK'
  BY DEF IInv, TypeOK, StatsTypeOK, Job, DoLead, upVars, statsVars
<1>2. Arrival'
  BY DEF IInv, TypeOK, Arrival, Job, DoLead
<1> DEFINE key == twCoalesceKey(p, g)
<1>k. key \in Keys /\ flight[i][key] = None /\ fn[r] = "none"
  BY KeyType DEF IInv, Arrival, DoLead
<1>j. /\ fn'[r] = "open"
      /\ job'[r] \in Job
      /\ job'[r].inst = i
      /\ twCoalesceKey(job'[r].phone, job'[r].gift) = key
  BY DEF IInv, TypeOK, Job, DoLead
<1>f. \A j \in Instances, k \in Keys :
        flight'[j][k] = IF j = i /\ k = key THEN r ELSE flight[j][k]
  BY <1>k DEF IInv, TypeOK, DoLead
<1>o. \A c \in Requests \ {r} : fn'[c] = fn[c] /\ job'[c] = job[c]
  BY DEF IInv, TypeOK, DoLead
<1>3. MapIsCalls'
  <2>1. ASSUME NEW j \in Instances, NEW k \in Keys, flight'[j][k] # None
        PROVE  LET c == flight'[j][k]
               IN  /\ fn'[c] \in {"open", "sent", "returned"}
                   /\ job'[c] \in Job
                   /\ job'[c].inst = j
                   /\ twCoalesceKey(job'[c].phone, job'[c].gift) = k
    <3>1. CASE j = i /\ k = key
      BY <3>1, <1>f, <1>j
    <3>2. CASE ~(j = i /\ k = key)
      <4>1. flight[j][k] \in Requests \ {r} /\ flight'[j][k] = flight[j][k]
        BY <2>1, <3>2, <1>f, <1>k DEF IInv, TypeOK, MapIsCalls, UnderWay
      <4> QED
        BY <2>1, <4>1, <1>o DEF IInv, MapIsCalls, UnderWay, KeyOf
    <3> QED
      BY <3>1, <3>2
  <2>2. ASSUME NEW c \in Requests
        PROVE  /\ fn'[c] # "none" => job'[c] \in Job
               /\ fn'[c] \in {"open", "sent", "returned"} =>
                    flight'[job'[c].inst][twCoalesceKey(job'[c].phone, job'[c].gift)] = c
    <3>1. CASE c = r
      BY <3>1, <1>k, <1>j, <1>f
    <3>2. CASE c # r
      <4>1. UnderWay(c) => /\ job[c] \in Job
                           /\ flight[job[c].inst][KeyOf(c)] = c
                           /\ KeyOf(c) \in Keys
        BY KeyType DEF IInv, MapIsCalls, UnderWay, KeyOf, Job
      <4> QED
        BY <3>2, <4>1, <1>o, <1>f, <1>k, RedeemAssumption
           DEF IInv, MapIsCalls, UnderWay, KeyOf, Job
    <3> QED
      BY <3>1, <3>2
  <2> QED
    BY <2>1, <2>2 DEF MapIsCalls, UnderWay, KeyOf
<1>4. PostIsCall'
  BY DEF IInv, Arrival, PostIsCall, DoLead, upVars
<1>5. ReturnedVerdict'
  BY DEF IInv, TypeOK, ReturnedVerdict, Verdict, DoLead, upVars, statsVars
<1>6. WaitsForOwn'
  <2> SUFFICES ASSUME NEW s \in Requests
               PROVE  /\ leader'[s] # None =>
                           /\ fn'[leader'[s]] # "none"
                           /\ job'[s] \in Job
                           /\ job'[leader'[s]] = job'[s]
                      /\ pc'[s] = "wait" => leader'[s] # None
                      /\ Answered(s)' =>
                           IF leader'[s] = None
                           THEN out'[s] = Invalid
                           ELSE /\ fn'[leader'[s]] = "published"
                                /\ out'[s] = val'[leader'[s]]
    BY DEF WaitsForOwn
  <2>1. CASE s = r
    BY <2>1, <1>j, RedeemAssumption DEF IInv, TypeOK, Answered, DoLead
  <2>2. CASE s # r
    BY <2>2, <1>k DEF IInv, TypeOK, WaitsForOwn, Answered, DoLead
  <2> QED
    BY <2>1, <2>2
<1> QED
  BY <1>1, <1>2, <1>3, <1>4, <1>5, <1>6 DEF IInv

\* A follower joins a call that is under way for its own key.
LEMMA DoJoinStep ==
  ASSUME IInv, NEW r \in Requests, NEW i \in Instances, NEW p \in Phones, NEW g \in Gifts,
         DoJoin(r, i, p, g)
  PROVE  IInv'
<1>1. TypeOK'
  BY KeyType DEF IInv, TypeOK, StatsTypeOK, Job, DoJoin, upVars, statsVars
<1>2. Arrival'
  BY DEF IInv, TypeOK, Arrival, Job, DoJoin
<1>3. MapIsCalls'
  BY DEF IInv, Arrival, MapIsCalls, UnderWay, KeyOf, DoJoin
<1>4. PostIsCall'
  BY DEF IInv, Arrival, PostIsCall, DoJoin, upVars
<1>5. ReturnedVerdict'
  BY DEF IInv, TypeOK, ReturnedVerdict, Verdict, DoJoin, upVars, statsVars
<1>6. WaitsForOwn'
  BY KeyType, KeyInjective DEF IInv, TypeOK, Arrival, MapIsCalls, UnderWay,
     KeyOf, WaitsForOwn, Answered, Job, DoJoin
<1> QED
  BY <1>1, <1>2, <1>3, <1>4, <1>5, <1>6 DEF IInv

\* extractVoucherHash failed: no POST exists for the call.
LEMMA CallRejectedStep ==
  ASSUME IInv, NEW c \in Requests,
         CallRejected(c)
  PROVE  IInv'
<1>1. TypeOK'
  BY InvalidType DEF IInv, TypeOK, StatsTypeOK, Job, CallRejected, upVars,
     statsVars
<1>2. Arrival'
  BY DEF IInv, TypeOK, Arrival, CallRejected, upVars, statsVars
<1>3. MapIsCalls'
  BY DEF IInv, TypeOK, MapIsCalls, UnderWay, KeyOf, CallRejected, upVars,
     statsVars
<1>4. PostIsCall'
  BY DEF IInv, TypeOK, PostIsCall, CallRejected, upVars, statsVars
<1>5. ReturnedVerdict'
  BY InvalidType DEF IInv, TypeOK, PostIsCall, ReturnedVerdict, Verdict,
     CallRejected, upVars
<1>6. WaitsForOwn'
  BY DEF IInv, TypeOK, WaitsForOwn, Answered, CallRejected, upVars, statsVars
<1> QED
  BY <1>1, <1>2, <1>3, <1>4, <1>5, <1>6 DEF IInv

\* The request could not be made: no POST exists for the call.
LEMMA CallNotMadeStep ==
  ASSUME IInv, NEW c \in Requests,
         CallNotMade(c)
  PROVE  IInv'
<1>1. TypeOK'
  BY CallErrorType DEF IInv, TypeOK, StatsTypeOK, CallNotMade, upVars, statsVars
<1>2. Arrival'
  BY DEF IInv, TypeOK, Arrival, CallNotMade, upVars, statsVars
<1>3. MapIsCalls'
  BY DEF IInv, TypeOK, MapIsCalls, UnderWay, KeyOf, CallNotMade, upVars,
     statsVars
<1>4. PostIsCall'
  BY DEF IInv, TypeOK, PostIsCall, CallNotMade, upVars, statsVars
<1>5. ReturnedVerdict'
  BY CallErrorType DEF IInv, TypeOK, PostIsCall, ReturnedVerdict, Verdict,
     CallNotMade, upVars
<1>6. WaitsForOwn'
  BY DEF IInv, TypeOK, WaitsForOwn, Answered, CallNotMade, upVars, statsVars
<1> QED
  BY <1>1, <1>2, <1>3, <1>4, <1>5, <1>6 DEF IInv

\* The POST is sent, with a hash.
LEMMA CallSentStep ==
  ASSUME IInv, NEW c \in Requests,
         CallSent(c)
  PROVE  IInv'
<1>1. TypeOK'
  BY DEF IInv, TypeOK, StatsTypeOK, CallSent, statsVars
<1>2. Arrival'
  BY DEF IInv, TypeOK, Arrival, CallSent, statsVars
<1>3. MapIsCalls'
  BY DEF IInv, TypeOK, MapIsCalls, UnderWay, KeyOf, CallSent, statsVars
<1>4. PostIsCall'
  BY DEF IInv, TypeOK, MapIsCalls, PostIsCall, CallSent
<1>5. ReturnedVerdict'
  BY DEF IInv, TypeOK, ReturnedVerdict, Verdict, CallSent, statsVars
<1>6. WaitsForOwn'
  BY DEF IInv, TypeOK, WaitsForOwn, Answered, CallSent, statsVars
<1> QED
  BY <1>1, <1>2, <1>3, <1>4, <1>5, <1>6 DEF IInv

\* A success is returned only once TrueMoney took a share.
LEMMA CallSucceedsStep ==
  ASSUME IInv, NEW c \in Requests,
         CallSucceeds(c)
  PROVE  IInv'
<1>v. VoucherID[extractVoucherHash(job[c].gift)] \in Refs
  BY HashType, RedeemAssumption DEF IInv, TypeOK, PostIsCall, Job, CallSucceeds
<1>o. val'[c] \in Outcome
  BY <1>v DEF IInv, TypeOK, Outcome, CallSucceeds
<1>1. TypeOK'
  BY <1>o DEF IInv, TypeOK, StatsTypeOK, CallSucceeds, upVars, statsVars
<1>2. Arrival'
  BY DEF IInv, TypeOK, Arrival, CallSucceeds, upVars, statsVars
<1>3. MapIsCalls'
  BY DEF IInv, TypeOK, MapIsCalls, UnderWay, KeyOf, CallSucceeds, upVars,
     statsVars
<1>4. PostIsCall'
  BY DEF IInv, TypeOK, PostIsCall, CallSucceeds, upVars, statsVars
<1>5. ReturnedVerdict'
  BY RedeemAssumption, HashType DEF IInv, TypeOK, PostIsCall, ReturnedVerdict,
     Verdict, Job, Outcome, CallSucceeds, upVars
<1>6. WaitsForOwn'
  BY DEF IInv, TypeOK, WaitsForOwn, Answered, CallSucceeds, upVars, statsVars
<1> QED
  BY <1>1, <1>2, <1>3, <1>4, <1>5, <1>6 DEF IInv

\* A refusal is returned only once TrueMoney has refused.
LEMMA CallRefusedStep ==
  ASSUME IInv, NEW c \in Requests,
         CallRefused(c)
  PROVE  IInv'
<1>1. TypeOK'
  BY BusinessErrorType DEF IInv, TypeOK, StatsTypeOK, CallRefused, upVars,
     statsVars
<1>2. Arrival'
  BY DEF IInv, TypeOK, Arrival, CallRefused, upVars, statsVars
<1>3. MapIsCalls'
  BY DEF IInv, TypeOK, MapIsCalls, UnderWay, KeyOf, CallRefused, upVars,
     statsVars
<1>4. PostIsCall'
  BY DEF IInv, TypeOK, PostIsCall, CallRefused, upVars, statsVars
<1>v. /\ val'[c] \in Outcome
      /\ val'[c].status \in {404, 409, 422}
      /\ wire'[c] \notin {"pending", "SUCCESS"}
  BY BusinessErrorType, RedeemAssumption DEF IInv, TypeOK, CallRefused, upVars
<1>5. ReturnedVerdict'
  BY <1>v DEF IInv, TypeOK, ReturnedVerdict, Verdict, CallRefused, upVars
<1>6. WaitsForOwn'
  BY DEF IInv, TypeOK, WaitsForOwn, Answered, CallRefused, upVars, statsVars
<1> QED
  BY <1>1, <1>2, <1>3, <1>4, <1>5, <1>6 DEF IInv

\* A failed POST is answered 5xx, so the verdict stays open.
LEMMA CallFailsStep ==
  ASSUME IInv, NEW c \in Requests, NEW why,
         CallFails(c, why)
  PROVE  IInv'
<1>1. TypeOK'
  BY CallErrorType DEF IInv, TypeOK, StatsTypeOK, CallFails, upVars,
     CtxCanceled, statsVars
<1>2. Arrival'
  BY DEF IInv, TypeOK, Arrival, CallFails, upVars, statsVars
<1>3. MapIsCalls'
  BY DEF IInv, TypeOK, MapIsCalls, UnderWay, KeyOf, CallFails, upVars,
     statsVars
<1>4. PostIsCall'
  BY DEF IInv, TypeOK, PostIsCall, CallFails, upVars, statsVars
<1>5. ReturnedVerdict'
  BY CallErrorType DEF IInv, TypeOK, ReturnedVerdict, Verdict, CallFails,
     upVars, CtxCanceled
<1>6. WaitsForOwn'
  BY DEF IInv, TypeOK, WaitsForOwn, Answered, CallFails, upVars, statsVars
<1> QED
  BY <1>1, <1>2, <1>3, <1>4, <1>5, <1>6 DEF IInv

\* doCall removes the entry of the call that ends, and no other.
LEMMA PublishStep ==
  ASSUME IInv, NEW c \in Requests,
         Publish(c)
  PROVE  IInv'
<1>1. TypeOK'
  BY DEF IInv, TypeOK, StatsTypeOK, Publish, upVars, statsVars
<1>2. Arrival'
  BY DEF IInv, TypeOK, Arrival, Publish, upVars, statsVars
<1>3. MapIsCalls'
  BY DEF IInv, TypeOK, MapIsCalls, UnderWay, KeyOf, Publish, upVars, statsVars
<1>4. PostIsCall'
  BY DEF IInv, TypeOK, PostIsCall, Publish, upVars, statsVars
<1>5. ReturnedVerdict'
  BY DEF IInv, TypeOK, ReturnedVerdict, Verdict, Publish, upVars, statsVars
<1>6. WaitsForOwn'
  BY DEF IInv, TypeOK, WaitsForOwn, Answered, Publish, upVars, statsVars
<1> QED
  BY <1>1, <1>2, <1>3, <1>4, <1>5, <1>6 DEF IInv

\* A waiter takes the result of the call it waited for.
LEMMA DoReturnsStep ==
  ASSUME IInv, NEW r \in Requests,
         DoReturns(r)
  PROVE  IInv'
<1>1. TypeOK'
  BY DEF IInv, TypeOK, StatsTypeOK, WaitsForOwn, DoReturns, callVars, upVars,
     statsVars
<1>2. Arrival'
  BY DEF IInv, TypeOK, Arrival, DoReturns, callVars, upVars, statsVars
<1>3. MapIsCalls'
  BY DEF IInv, TypeOK, MapIsCalls, UnderWay, KeyOf, DoReturns, callVars,
     upVars, statsVars
<1>4. PostIsCall'
  BY DEF IInv, TypeOK, PostIsCall, DoReturns, callVars, upVars, statsVars
<1>5. ReturnedVerdict'
  BY DEF IInv, TypeOK, ReturnedVerdict, Verdict, DoReturns, callVars, upVars,
     statsVars
<1>6. WaitsForOwn'
  BY DEF IInv, TypeOK, WaitsForOwn, Answered, DoReturns, callVars, upVars,
     statsVars
<1> QED
  BY <1>1, <1>2, <1>3, <1>4, <1>5, <1>6 DEF IInv

\* Recording a success keeps the totals natural numbers.
LEMMA RecordStep ==
  ASSUME IInv, NEW r \in Requests,
         Record(r)
  PROVE  IInv'
<1>a. out[r] \in Outcome /\ out[r].amount \in Amounts /\ out[r].ref \in Refs \cup {NoRef}
  <2>1. leader[r] # None /\ out[r] = val[leader[r]] /\ fn[leader[r]] = "published"
    BY InvalidType DEF IInv, WaitsForOwn, Answered, Record
  <2>2. leader[r] \in Requests
    BY <2>1 DEF IInv, TypeOK
  <2> QED
    BY <2>1, <2>2 DEF IInv, ReturnedVerdict, Verdict, Outcome, Record
<1>c. CentsOf(out[r].amount) \in Nat
  BY <1>a, CentsOfType
<1>s. StatsTypeOK'
  BY <1>a, <1>c DEF IInv, TypeOK, StatsTypeOK, Record, RecordTw, statsVars
<1>1. TypeOK'
  BY <1>s DEF IInv, TypeOK, Record, callVars, upVars
<1>2. Arrival'
  BY DEF IInv, TypeOK, Arrival, Record, callVars, upVars
<1>3. MapIsCalls'
  BY DEF IInv, TypeOK, MapIsCalls, UnderWay, KeyOf, Record, callVars, upVars
<1>4. PostIsCall'
  BY DEF IInv, TypeOK, PostIsCall, Record, callVars, upVars
<1>5. ReturnedVerdict'
  BY DEF IInv, TypeOK, ReturnedVerdict, Verdict, Record, callVars, upVars
<1>6. WaitsForOwn'
  BY DEF IInv, TypeOK, WaitsForOwn, Answered, Record, callVars, upVars
<1> QED
  BY <1>1, <1>2, <1>3, <1>4, <1>5, <1>6 DEF IInv

\* Recording a failure touches the error counter only.
LEMMA RecordErrorStep ==
  ASSUME IInv, NEW r \in Requests,
         RecordError(r)
  PROVE  IInv'
<1>1. TypeOK'
  BY DEF IInv, TypeOK, StatsTypeOK, RecordError, callVars, RecordTwError,
     upVars
<1>2. Arrival'
  BY DEF IInv, TypeOK, Arrival, RecordError, callVars, upVars
<1>3. MapIsCalls'
  BY DEF IInv, TypeOK, MapIsCalls, UnderWay, KeyOf, RecordError, callVars,
     upVars
<1>4. PostIsCall'
  BY DEF IInv, TypeOK, PostIsCall, RecordError, callVars, upVars
<1>5. ReturnedVerdict'
  BY DEF IInv, TypeOK, ReturnedVerdict, Verdict, RecordError, callVars, upVars
<1>6. WaitsForOwn'
  BY DEF IInv, TypeOK, WaitsForOwn, Answered, RecordError, callVars, upVars
<1> QED
  BY <1>1, <1>2, <1>3, <1>4, <1>5, <1>6 DEF IInv

\* A failing store changes nothing but the request itself.
LEMMA RecordFailsStep ==
  ASSUME IInv, NEW r \in Requests,
         RecordFails(r)
  PROVE  IInv'
<1>1. TypeOK'
  BY DEF IInv, TypeOK, StatsTypeOK, RecordFails, callVars, upVars, statsVars
<1>2. Arrival'
  BY DEF IInv, TypeOK, Arrival, RecordFails, callVars, upVars, statsVars
<1>3. MapIsCalls'
  BY DEF IInv, TypeOK, MapIsCalls, UnderWay, KeyOf, RecordFails, callVars,
     upVars, statsVars
<1>4. PostIsCall'
  BY DEF IInv, TypeOK, PostIsCall, RecordFails, callVars, upVars, statsVars
<1>5. ReturnedVerdict'
  BY DEF IInv, TypeOK, ReturnedVerdict, Verdict, RecordFails, callVars,
     upVars, statsVars
<1>6. WaitsForOwn'
  BY DEF IInv, TypeOK, WaitsForOwn, Answered, RecordFails, callVars, upVars,
     statsVars
<1> QED
  BY <1>1, <1>2, <1>3, <1>4, <1>5, <1>6 DEF IInv

\* Answering changes nothing but the request itself.
LEMMA RespondStep ==
  ASSUME IInv, NEW r \in Requests,
         Respond(r)
  PROVE  IInv'
<1>1. TypeOK'
  BY DEF IInv, TypeOK, StatsTypeOK, Respond, callVars, upVars, statsVars
<1>2. Arrival'
  BY DEF IInv, TypeOK, Arrival, Respond, callVars, upVars, statsVars
<1>3. MapIsCalls'
  BY DEF IInv, TypeOK, MapIsCalls, UnderWay, KeyOf, Respond, callVars, upVars,
     statsVars
<1>4. PostIsCall'
  BY DEF IInv, TypeOK, PostIsCall, Respond, callVars, upVars, statsVars
<1>5. ReturnedVerdict'
  BY DEF IInv, TypeOK, ReturnedVerdict, Verdict, Respond, callVars, upVars,
     statsVars
<1>6. WaitsForOwn'
  BY DEF IInv, TypeOK, WaitsForOwn, Answered, Respond, callVars, upVars,
     statsVars
<1> QED
  BY <1>1, <1>2, <1>3, <1>4, <1>5, <1>6 DEF IInv

\* A late success contradicts no verdict: none was final while it was pending.
LEMMA TrueMoneyRedeemsStep ==
  ASSUME IInv, NEW c \in Requests,
         TrueMoneyRedeems(c)
  PROVE  IInv'
<1>1. TypeOK'
  BY HashType DEF IInv, TypeOK, StatsTypeOK, PostIsCall, Job, Codes,
     TrueMoneyRedeems, callVars, statsVars
<1>2. Arrival'
  BY DEF IInv, TypeOK, Arrival, TrueMoneyRedeems, callVars, statsVars
<1>3. MapIsCalls'
  BY DEF IInv, TypeOK, MapIsCalls, UnderWay, KeyOf, TrueMoneyRedeems,
     callVars, statsVars
<1>4. PostIsCall'
  BY DEF IInv, TypeOK, PostIsCall, TrueMoneyRedeems, callVars, statsVars
<1>5. ReturnedVerdict'
  BY DEF IInv, TypeOK, ReturnedVerdict, Verdict, TrueMoneyRedeems, callVars,
     statsVars
<1>6. WaitsForOwn'
  BY DEF IInv, TypeOK, WaitsForOwn, Answered, TrueMoneyRedeems, callVars,
     statsVars
<1> QED
  BY <1>1, <1>2, <1>3, <1>4, <1>5, <1>6 DEF IInv

\* A late refusal contradicts no verdict either.
LEMMA TrueMoneyRefusesStep ==
  ASSUME IInv, NEW c \in Requests, NEW code \in Refusals,
         TrueMoneyRefuses(c, code)
  PROVE  IInv'
<1>1. TypeOK'
  BY RedeemAssumption DEF IInv, TypeOK, StatsTypeOK, Job, Codes,
     TrueMoneyRefuses, callVars, statsVars
<1>2. Arrival'
  BY DEF IInv, TypeOK, Arrival, TrueMoneyRefuses, callVars, statsVars
<1>3. MapIsCalls'
  BY DEF IInv, TypeOK, MapIsCalls, UnderWay, KeyOf, TrueMoneyRefuses,
     callVars, statsVars
<1>4. PostIsCall'
  BY DEF IInv, TypeOK, PostIsCall, TrueMoneyRefuses, callVars, statsVars
<1>5. ReturnedVerdict'
  BY DEF IInv, TypeOK, ReturnedVerdict, Verdict, TrueMoneyRefuses, callVars,
     statsVars
<1>6. WaitsForOwn'
  BY DEF IInv, TypeOK, WaitsForOwn, Answered, TrueMoneyRefuses, callVars,
     statsVars
<1> QED
  BY <1>1, <1>2, <1>3, <1>4, <1>5, <1>6 DEF IInv

\* A disconnect changes no call.
LEMMA ClientGoneStep ==
  ASSUME IInv, NEW r \in Requests,
         ClientGone(r)
  PROVE  IInv'
<1>1. TypeOK'
  BY DEF IInv, TypeOK, StatsTypeOK, ClientGone, callVars, upVars, statsVars
<1>2. Arrival'
  BY DEF IInv, TypeOK, Arrival, ClientGone, callVars, upVars, statsVars
<1>3. MapIsCalls'
  BY DEF IInv, TypeOK, MapIsCalls, UnderWay, KeyOf, ClientGone, callVars,
     upVars, statsVars
<1>4. PostIsCall'
  BY DEF IInv, TypeOK, PostIsCall, ClientGone, callVars, upVars, statsVars
<1>5. ReturnedVerdict'
  BY DEF IInv, TypeOK, ReturnedVerdict, Verdict, ClientGone, callVars, upVars,
     statsVars
<1>6. WaitsForOwn'
  BY DEF IInv, TypeOK, WaitsForOwn, Answered, ClientGone, callVars, upVars,
     statsVars
<1> QED
  BY <1>1, <1>2, <1>3, <1>4, <1>5, <1>6 DEF IInv

\* A crash empties the map together with the calls it lists.
LEMMA CrashStep ==
  ASSUME IInv, NEW i \in Instances,
         Crash(i)
  PROVE  IInv'
<1>1. TypeOK'
  BY RedeemAssumption DEF IInv, TypeOK, StatsTypeOK, Job, Crash, upVars,
     statsVars
<1>2. Arrival'
  BY DEF IInv, TypeOK, Arrival, Crash, upVars, statsVars
<1>3. MapIsCalls'
  BY DEF IInv, TypeOK, MapIsCalls, UnderWay, KeyOf, Crash, upVars, statsVars
<1>4. PostIsCall'
  BY DEF IInv, TypeOK, PostIsCall, Crash, upVars, statsVars
<1>5. ReturnedVerdict'
  BY DEF IInv, TypeOK, ReturnedVerdict, Verdict, Crash, upVars, statsVars
<1>6. WaitsForOwn'
  BY DEF IInv, TypeOK, WaitsForOwn, Answered, Crash, upVars, statsVars
<1> QED
  BY <1>1, <1>2, <1>3, <1>4, <1>5, <1>6 DEF IInv

-----------------------------------------------------------------------------
\* Initially nothing has arrived and the maps are empty.
LEMMA InitIInv == Init => IInv
BY RedeemAssumption
   DEF Init, StatsInit, IInv, TypeOK, StatsTypeOK, Arrival, MapIsCalls, UnderWay,
       KeyOf, PostIsCall, ReturnedVerdict, WaitsForOwn, Answered

\* IInv is inductive.
LEMMA NextIInv == IInv /\ [Next]_vars => IInv'
<1> SUFFICES ASSUME IInv, [Next]_vars PROVE IInv'
  OBVIOUS
<1>1. CASE \E r \in Requests, i \in Instances, p \in Phones, g \in Gifts :
             Arrives(r, i, p, g)
  BY <1>1, RedeemInvalidStep, DoLeadStep, DoJoinStep DEF Arrives
<1>2. CASE \E c \in Requests : CallBegins(c) \/ CallEnds(c) \/ Publish(c)
  BY <1>2, CallRejectedStep, CallNotMadeStep, CallSentStep, CallSucceedsStep, CallRefusedStep,
     CallFailsStep, PublishStep DEF CallBegins, CallEnds
<1>3. CASE \E r \in Requests : DoReturns(r) \/ Books(r) \/ Respond(r) \/ ClientGone(r)
  BY <1>3, DoReturnsStep, RecordStep, RecordErrorStep, RecordFailsStep, RespondStep,
     ClientGoneStep DEF Books
<1>4. CASE \E c \in Requests :
             TrueMoneyRedeems(c) \/ \E code \in Refusals : TrueMoneyRefuses(c, code)
  BY <1>4, TrueMoneyRedeemsStep, TrueMoneyRefusesStep
<1>5. CASE \E i \in Instances : Crash(i)
  BY <1>5, CrashStep
<1>6. CASE UNCHANGED vars
  BY <1>6 DEF vars, callVars, upVars, statsVars, IInv, TypeOK, StatsTypeOK, Arrival,
     MapIsCalls, UnderWay, KeyOf, PostIsCall, ReturnedVerdict, Verdict, WaitsForOwn,
     Answered
<1> QED
  BY <1>1, <1>2, <1>3, <1>4, <1>5, <1>6 DEF Next, Finished

\* The inductive invariant holds in every reachable state.
THEOREM Inductive == Spec => []IInv
BY InitIInv, NextIInv, PTL DEF Spec

-----------------------------------------------------------------------------
(***************************************************************************)
(* The values of all variables stay in their types; in particular the      *)
(* statistics stay natural numbers whatever amount TrueMoney returns.      *)
(***************************************************************************)
THEOREM TypeCorrect == Spec => []TypeOK
<1>1. IInv => TypeOK
  BY DEF IInv
<1> QED
  BY <1>1, Inductive, PTL

(***************************************************************************)
(* Coalescing works: one process never has two calls to TrueMoney under    *)
(* way for the same phone and gift (CoalescedTwProvider.Redeem).           *)
(***************************************************************************)
THEOREM OneCallAtATime == Spec => []SingleUpstreamCall
<1>1. IInv => SingleUpstreamCall
  BY DEF IInv, MapIsCalls, UnderWay, KeyOf, SingleUpstreamCall
<1> QED
  BY <1>1, Inductive, PTL

(***************************************************************************)
(* A 200 is backed by a share of the caller's own voucher, taken for the   *)
(* caller's own phone, whichever request made the call.                    *)
(***************************************************************************)
THEOREM SuccessIsPaid == Spec => []PaidToCaller
<1>1. ASSUME IInv PROVE PaidToCaller
  <2> SUFFICES ASSUME NEW r \in Requests, Answered(r), out[r].status = 200
               PROVE  /\ Spent(leader[r])
                      /\ job[leader[r]].phone = job[r].phone
                      /\ extractVoucherHash(job[leader[r]].gift)
                           = extractVoucherHash(job[r].gift)
    BY DEF PaidToCaller
  <2>1. leader[r] # None /\ out[r] = val[leader[r]] /\ fn[leader[r]] = "published"
    BY <1>1, InvalidType DEF IInv, WaitsForOwn
  <2>2. leader[r] \in Requests /\ job[leader[r]] = job[r]
    BY <1>1, <2>1 DEF IInv, TypeOK, WaitsForOwn
  <2> QED
    BY <1>1, <2>1, <2>2 DEF IInv, ReturnedVerdict, Verdict, Spent
<1> QED
  BY <1>1, Inductive, PTL

(***************************************************************************)
(* A 404, 409 or 422 means that the call took nothing and never will.      *)
(***************************************************************************)
THEOREM RefusalsAreFinal == Spec => []RefusalIsFinal
<1>1. ASSUME IInv PROVE RefusalIsFinal
  <2> SUFFICES ASSUME NEW r \in Requests, Answered(r), leader[r] # None,
                      out[r].status \in {404, 409, 422}
               PROVE  wire[leader[r]] \notin {"pending", "SUCCESS"}
    BY DEF RefusalIsFinal
  <2>1. /\ leader[r] \in Requests
        /\ out[r] = val[leader[r]]
        /\ fn[leader[r]] = "published"
    BY <1>1 DEF IInv, TypeOK, WaitsForOwn
  <2> QED
    BY <1>1, <2>1 DEF IInv, ReturnedVerdict, Verdict
<1> QED
  BY <1>1, Inductive, PTL

(***************************************************************************)
(* Everyone who shared a call that spent a voucher is told so, unless the  *)
(* connection to TrueMoney failed; no client's disconnect can change that. *)
(***************************************************************************)
THEOREM SpendsAreReported == Spec => []SpendReported
<1>1. ASSUME IInv PROVE SpendReported
  <2> SUFFICES ASSUME NEW r \in Requests, Answered(r), leader[r] # None,
                      Spent(leader[r])
               PROVE  out[r].status = 200 \/ out[r].why \in CallFaults \ {"request"}
    BY DEF SpendReported
  <2>1. /\ leader[r] \in Requests
        /\ out[r] = val[leader[r]]
        /\ fn[leader[r]] = "published"
    BY <1>1 DEF IInv, TypeOK, WaitsForOwn
  <2>2. val[leader[r]] \in Outcome /\ Verdict(leader[r])
    BY <1>1, <2>1 DEF IInv, ReturnedVerdict
  <2>3. val[leader[r]].status \in {200, 404, 409, 422, 500, 502, 504}
    BY <2>2 DEF Outcome
  <2> QED
    BY <2>1, <2>2, <2>3 DEF Verdict, Spent
<1> QED
  BY <1>1, Inductive, PTL

(***************************************************************************)
(* No result is replayed: a request never joins a call that has already    *)
(* given its result to somebody.                                           *)
(***************************************************************************)
THEOREM NothingReplayed == Spec => NoReplay
<1> DEFINE Fresh ==
      \A r, s \in Requests :
        pc[r] = "idle" /\ pc'[r] = "wait" /\ Answered(s) => leader'[r] # leader[s]
<1>1. ASSUME IInv, [Next]_vars PROVE Fresh
  <2> SUFFICES ASSUME NEW r \in Requests, NEW s \in Requests,
                      pc[r] = "idle", pc'[r] = "wait", Answered(s)
               PROVE  leader'[r] # leader[s]
    OBVIOUS
  <2>1. \E i \in Instances, p \in Phones, g \in Gifts :
          DoLead(r, i, p, g) \/ DoJoin(r, i, p, g)
    <3>1. CASE \E q \in Requests, i \in Instances, p \in Phones, g \in Gifts :
                 Arrives(q, i, p, g)
      BY <1>1, <3>1 DEF IInv, TypeOK, Arrives, RedeemInvalid, DoLead, DoJoin
    <3>2. CASE \E c \in Requests : CallBegins(c) \/ CallEnds(c) \/ Publish(c)
      BY <3>2 DEF CallBegins, CallRejected, CallNotMade, CallSent, CallEnds, CallSucceeds,
         CallRefused, CallFails, Publish
    <3>3. CASE \E q \in Requests : DoReturns(q) \/ Books(q) \/ Respond(q) \/ ClientGone(q)
      BY <1>1, <3>3 DEF IInv, TypeOK, DoReturns, Books, Record, RecordError,
         RecordFails, Respond, ClientGone
    <3>4. CASE \E c \in Requests :
                 TrueMoneyRedeems(c) \/ \E code \in Refusals : TrueMoneyRefuses(c, code)
      BY <3>4 DEF TrueMoneyRedeems, TrueMoneyRefuses
    <3>5. CASE \E i \in Instances : Crash(i)
      BY <3>5 DEF Crash
    <3>6. CASE UNCHANGED vars
      BY <3>6 DEF vars
    <3> QED
      BY <1>1, <3>1, <3>2, <3>3, <3>4, <3>5, <3>6 DEF Next, Finished
  <2>2. PICK i \in Instances, p \in Phones, g \in Gifts :
          DoLead(r, i, p, g) \/ DoJoin(r, i, p, g)
    BY <2>1
  <2>3. leader'[r] \in Requests /\ fn[leader'[r]] # "published"
    <3>1. CASE DoLead(r, i, p, g)
      BY <1>1, <3>1 DEF IInv, TypeOK, Arrival, DoLead
    <3>2. CASE DoJoin(r, i, p, g)
      BY <1>1, <3>2, KeyType DEF IInv, TypeOK, MapIsCalls, UnderWay, DoJoin
    <3> QED
      BY <2>2, <3>1, <3>2
  <2> QED
    BY <1>1, <2>3, RedeemAssumption DEF IInv, WaitsForOwn
<1> QED
  BY <1>1, Inductive, PTL DEF Spec, NoReplay

-----------------------------------------------------------------------------
(***************************************************************************)
(* Laws of the sum over a finite set, by minimal counterexample: every     *)
(* non-empty set of subsets of a finite set has a smallest one.            *)
(***************************************************************************)
Pick(s) == CHOOSE x \in s : TRUE

\* h gives the sum of g over every subset of U, as SumFunctionOnSet computes it.
Sums(h, g, U) ==
  h = [s \in SUBSET U |-> IF s = {} THEN 0 ELSE g[Pick(s)] + h[s \ {Pick(s)}]]

\* SumFunctionOnSet is the value for the whole set.
LEMMA SumUnfolds ==
  ASSUME NEW g, NEW U
  PROVE  SumFunctionOnSet(g, U) = (CHOOSE h : Sums(h, g, U))[U]
BY DEF SumFunctionOnSet, FoldFunctionOnSet, MapThenFoldSet, Sums, Pick

\* The well-foundedness of inclusion among the subsets of a finite set.
LEMMA SmallestSet ==
  ASSUME NEW U, IsFiniteSet(U), NEW T, T \subseteq SUBSET U, T # {}
  PROVE  \E s \in T : \A t \in T : t \subseteq s => t = s
<1>1. T \subseteq FiniteSubsetsOf(U)
  BY FS_Subset DEF FiniteSubsetsOf
<1>2. IsWellFoundedOn(StrictSubsetOrdering(U), FiniteSubsetsOf(U))
  BY FS_StrictSubsetOrderingWellFounded
<1>3. PICK s \in T : \A t \in T : ~(<<t, s>> \in StrictSubsetOrdering(U))
  BY <1>1, <1>2, WFMin
<1> QED
  BY <1>3 DEF StrictSubsetOrdering

\* Sums of functions that agree on a set agree on all of its subsets.
LEMMA SumsAgree ==
  ASSUME NEW U, IsFiniteSet(U), NEW V, U \subseteq V, NEW g, NEW f,
         \A x \in U : g[x] = f[x], NEW h, NEW k, Sums(h, g, U), Sums(k, f, V)
  PROVE  \A s \in SUBSET U : h[s] = k[s]
<1> DEFINE T == {s \in SUBSET U : h[s] # k[s]}
<1> SUFFICES ASSUME T # {} PROVE FALSE
  OBVIOUS
<1>1. PICK s \in T : \A t \in T : t \subseteq s => t = s
  <2>1. T \subseteq SUBSET U
    OBVIOUS
  <2> HIDE DEF T
  <2> QED
    BY <2>1, SmallestSet
<1>2. s \in SUBSET U /\ s \in SUBSET V /\ h[s] # k[s]
  OBVIOUS
<1>3. /\ h[s] = IF s = {} THEN 0 ELSE g[Pick(s)] + h[s \ {Pick(s)}]
      /\ k[s] = IF s = {} THEN 0 ELSE f[Pick(s)] + k[s \ {Pick(s)}]
  BY <1>2 DEF Sums
<1>4. s # {}
  BY <1>2, <1>3
<1>5. Pick(s) \in s
  BY <1>4 DEF Pick
<1>6. s \ {Pick(s)} \in SUBSET U /\ s \ {Pick(s)} \subseteq s /\ s \ {Pick(s)} # s
  BY <1>2, <1>5
<1>7. h[s \ {Pick(s)}] = k[s \ {Pick(s)}]
  BY <1>1, <1>6
<1>8. g[Pick(s)] = f[Pick(s)]
  BY <1>2, <1>5
<1> QED
  BY <1>2, <1>3, <1>4, <1>7, <1>8

\* A finite set has a sum: SumFunctionOnSet satisfies its recursive equation.
LEMMA SumsExist ==
  ASSUME NEW U, IsFiniteSet(U), NEW g
  PROVE  \E h : Sums(h, g, U)
<1> DEFINE K(t) == CHOOSE h : Sums(h, g, t)
           T == {t \in SUBSET U : ~\E h : Sums(h, g, t)}
<1> SUFFICES ASSUME T # {} PROVE FALSE
  OBVIOUS
<1>1. PICK V \in T : \A t \in T : t \subseteq V => t = V
  <2>1. T \subseteq SUBSET U
    OBVIOUS
  <2> HIDE DEF T
  <2> QED
    BY <2>1, SmallestSet
<1>2. V \in SUBSET U /\ ~\E h : Sums(h, g, V)
  OBVIOUS
<1>3. ASSUME NEW t \in SUBSET V, t # V
      PROVE  IsFiniteSet(t) /\ Sums(K(t), g, t)
  <2>1. t \in SUBSET U /\ t \notin T
    BY <1>1, <1>2, <1>3
  <2>2. \E h : Sums(h, g, t)
    BY <2>1
  <2>3. IsFiniteSet(t)
    BY <2>1, FS_Subset
  <2> QED
    BY <2>2, <2>3
<1> DEFINE h == [s \in SUBSET V |->
                   IF s = {} THEN 0 ELSE g[Pick(s)] + K(s \ {Pick(s)})[s \ {Pick(s)}]]
<1>4. ASSUME NEW t \in SUBSET V, t # V
      PROVE  h[t] = K(t)[t]
  <2>1. IsFiniteSet(t) /\ Sums(K(t), g, t)
    BY <1>3, <1>4
  <2> HIDE DEF K
  <2>2. K(t)[t] = IF t = {} THEN 0 ELSE g[Pick(t)] + K(t)[t \ {Pick(t)}]
    <3> DEFINE k == K(t)
    <3>1. Sums(k, g, t)
      BY <2>1
    <3> HIDE DEF k
    <3>2. k[t] = IF t = {} THEN 0 ELSE g[Pick(t)] + k[t \ {Pick(t)}]
      BY <3>1 DEF Sums
    <3> QED
      BY <3>2 DEF k
  <2>3. CASE t = {}
    BY <2>2, <2>3
  <2>4. CASE t # {}
    <3> DEFINE u == t \ {Pick(t)}
    <3>1. Pick(t) \in t
      BY <2>4 DEF Pick
    <3>2. u \in SUBSET V /\ u # V /\ u \subseteq t
      BY <1>4, <3>1
    <3>3. IsFiniteSet(u) /\ Sums(K(u), g, u)
      BY <1>3, <3>2
    <3> HIDE DEF u
    <3>4. K(u)[u] = K(t)[u]
      BY <2>1, <3>2, <3>3, SumsAgree
    <3> QED
      BY <2>2, <2>4, <3>4 DEF u
  <2> QED
    BY <2>3, <2>4
<1>5. ASSUME NEW s \in SUBSET V, s # {}
      PROVE  h[s \ {Pick(s)}] = K(s \ {Pick(s)})[s \ {Pick(s)}]
  <2>1. Pick(s) \in s
    BY <1>5 DEF Pick
  <2>2. s \ {Pick(s)} \in SUBSET V /\ s \ {Pick(s)} # V
    BY <2>1
  <2> HIDE DEF h, K
  <2> QED
    BY <1>4, <2>2
<1>6. Sums(h, g, V)
  <2> HIDE DEF K
  <2>1. h = [s \in SUBSET V |-> IF s = {} THEN 0 ELSE g[Pick(s)] + h[s \ {Pick(s)}]]
    BY <1>5
  <2> HIDE DEF h
  <2> QED
    BY <2>1 DEF Sums
<1> QED
  BY <1>2, <1>6

\* Any element may be added last.
LEMMA SumsCommute ==
  ASSUME NEW U, IsFiniteSet(U), NEW g, \A x \in U : g[x] \in Nat, NEW h, Sums(h, g, U)
  PROVE  \A s \in SUBSET U : h[s] \in Nat /\ \A x \in s : h[s] = g[x] + h[s \ {x}]
<1> DEFINE Good(s) == h[s] \in Nat /\ \A x \in s : h[s] = g[x] + h[s \ {x}]
           T == {s \in SUBSET U : ~Good(s)}
<1> SUFFICES ASSUME T # {} PROVE FALSE
  OBVIOUS
<1>1. PICK s \in T : \A t \in T : t \subseteq s => t = s
  <2>1. T \subseteq SUBSET U
    OBVIOUS
  <2> HIDE DEF T
  <2> QED
    BY <2>1, SmallestSet
<1>2. s \in SUBSET U /\ ~Good(s)
  BY <1>1
<1>3. \A t \in SUBSET U : t \subseteq s /\ t # s => Good(t)
  BY <1>1
<1> DEFINE y == Pick(s)
<1>4. h[s] = IF s = {} THEN 0 ELSE g[y] + h[s \ {y}]
  BY <1>2 DEF Sums
<1>5. s # {}
  BY <1>2, <1>4
<1>6. y \in s
  BY <1>5 DEF Pick
<1> HIDE DEF y, T
<1>7. Good(s \ {y}) /\ g[y] \in Nat
  BY <1>2, <1>3, <1>6
<1>8. h[s] = g[y] + h[s \ {y}] /\ h[s] \in Nat
  BY <1>4, <1>5, <1>7
<1>9. ASSUME NEW x \in s, x # y PROVE h[s] = g[x] + h[s \ {x}]
  <2>1. Good(s \ {x}) /\ Good((s \ {x}) \ {y}) /\ g[x] \in Nat
    BY <1>2, <1>3, <1>9
  <2>2. (s \ {x}) \ {y} = (s \ {y}) \ {x}
    OBVIOUS
  <2>3. h[s \ {x}] = g[y] + h[(s \ {x}) \ {y}]
    BY <1>6, <1>9, <2>1
  <2>4. h[s \ {y}] = g[x] + h[(s \ {x}) \ {y}]
    BY <1>7, <1>9, <2>2
  <2> QED
    BY <1>7, <1>8, <2>1, <2>3, <2>4
<1> QED
  BY <1>2, <1>8, <1>9

\* The sum over a set with one more element.
LEMMA SumGrows ==
  ASSUME NEW U, IsFiniteSet(U), NEW x, x \notin U, NEW g, NEW f,
         \A y \in U : g[y] = f[y], \A y \in U \cup {x} : g[y] \in Nat
  PROVE  SumFunctionOnSet(g, U \cup {x}) = SumFunctionOnSet(f, U) + g[x]
<1> DEFINE V == U \cup {x}
           h == CHOOSE k : Sums(k, g, V)
           l == CHOOSE k : Sums(k, f, U)
<1>1. IsFiniteSet(V) /\ U \subseteq V /\ V \ {x} = U /\ x \in V
  BY FS_AddElement
<1> HIDE DEF V
<1>2. Sums(h, g, V) /\ Sums(l, f, U)
  BY <1>1, SumsExist
<1>3. h[V] = SumFunctionOnSet(g, V) /\ l[U] = SumFunctionOnSet(f, U)
  BY SumUnfolds
<1> HIDE DEF h, l
<1>4. \A y \in V : g[y] \in Nat
  BY DEF V
<1>5. h[V] = g[x] + h[U] /\ h[U] \in Nat
  <2>1. \A s \in SUBSET V : h[s] \in Nat /\ \A y \in s : h[s] = g[y] + h[s \ {y}]
    BY <1>1, <1>2, <1>4, SumsCommute
  <2> QED
    BY <1>1, <2>1
<1>6. l[U] = h[U]
  BY <1>1, <1>2, SumsAgree
<1> QED
  BY <1>1, <1>3, <1>4, <1>5, <1>6 DEF V

-----------------------------------------------------------------------------
(***************************************************************************)
(* The strengthening under which BooksAreTrue is inductive: nothing is     *)
(* booked before record runs, what a call returns as reference is that of  *)
(* the voucher it spent, and what was counted was a success.               *)
(***************************************************************************)
BookedByRecord ==
  \A r \in Requests : pc[r] \in {"idle", "wait", "record"} => booked[r] = "no"

ReferenceIsOwn ==
  \A c \in Requests :
    fn[c] \in {"returned", "published"} /\ val[c].status = 200 =>
      val[c].ref \in {VoucherID[extractVoucherHash(job[c].gift)], NoRef}

CountedSucceeded ==
  \A r \in Counted : out[r].amount \in Amounts /\ out[r].ref \in Refs \cup {NoRef}

BooksStand ==
  /\ IsFiniteSet(Counted) /\ IsFiniteSet(Failed)
  /\ CountedSucceeded
  /\ BooksAreTrue

BInv == BookedByRecord /\ ReferenceIsOwn /\ BooksStand

\* The amounts that the requests counted stand for.
Credit == [r \in Counted |-> CentsOf(out[r].amount)]

\* SumFunction over the whole of a function.
LEMMA CreditSum == SumFunction(Credit) = SumFunctionOnSet(Credit, Counted)
BY DEF SumFunction, Credit

(***************************************************************************)
(* Steps that book nothing leave the books true: a share once taken is     *)
(* never given back, and answers that were counted do not change.          *)
(***************************************************************************)
LEMMA NothingBooked ==
  ASSUME BooksStand, booked' = booked, UNCHANGED statsVars,
         \A r \in Counted : out'[r] = out[r],
         \A c \in Requests : Spent(c) => Spent(c)' /\ job'[c] = job[c]
  PROVE  BooksStand'
<1>1. Counted' = Counted /\ Failed' = Failed
  BY DEF Counted, Failed
<1>2. refs' = refs /\ count' = count /\ cents' = cents /\ errors' = errors
  BY DEF statsVars
<1>3. Credit' = Credit
  BY <1>1 DEF Credit
<1>4. BooksAreTrue'
  <2>1. /\ count' = Cardinality(Counted') /\ errors' = Cardinality(Failed')
        /\ cents' = SumFunction(Credit')
    BY <1>1, <1>2, <1>3 DEF BooksStand, BooksAreTrue, Credit
  <2>2. refs' = {out'[r].ref : r \in Counted'} \ {NoRef}
    BY <1>1, <1>2 DEF BooksStand, BooksAreTrue
  <2>3. \A r, s \in Counted' : out'[r].ref = out'[s].ref => r = s \/ out'[r].ref = NoRef
    BY <1>1 DEF BooksStand, BooksAreTrue
  <2>4. \A ref \in refs' : \E c \in Requests :
          Spent(c)' /\ VoucherID[extractVoucherHash(job'[c].gift)] = ref
    BY <1>2 DEF BooksStand, BooksAreTrue
  <2> QED
    BY <2>1, <2>2, <2>3, <2>4 DEF BooksAreTrue, Credit
<1> QED
  BY <1>1, <1>4 DEF BooksStand, CountedSucceeded

\* Recording a success: counted once for each reference (TwService.record).
LEMMA SuccessBooked ==
  ASSUME IInv, BInv, NEW r \in Requests, Record(r)
  PROVE  BooksStand'
<1> DEFINE c == leader[r]
<1>1. c # None /\ out[r] = val[c] /\ fn[c] = "published"
  BY InvalidType DEF IInv, WaitsForOwn, Answered, Record
<1>2. c \in Requests /\ booked[r] = "no" /\ r \notin Counted /\ r \notin Failed
  BY <1>1 DEF IInv, TypeOK, BInv, BookedByRecord, Record, Counted, Failed
<1>3. /\ out[r].amount \in Amounts /\ out[r].ref \in Refs \cup {NoRef} /\ Spent(c)
      /\ out[r].ref \in {VoucherID[extractVoucherHash(job[c].gift)], NoRef}
  BY <1>1, <1>2 DEF IInv, ReturnedVerdict, Verdict, Outcome, Record, Spent, BInv,
     ReferenceIsOwn
<1>4. /\ out' = out /\ job' = job /\ wire' = wire
      /\ booked \in [Requests -> {"no", "counted", "duplicate", "error", "dropped"}]
      /\ booked' = [booked EXCEPT ![r] = IF out[r].ref \in refs THEN "duplicate"
                                         ELSE "counted"]
  BY DEF Record, upVars, IInv, TypeOK
<1>5. Failed' = Failed
  BY <1>2, <1>4 DEF Failed
<1>6. CASE out[r].ref \in refs
  <2>1. Counted' = Counted
    BY <1>2, <1>4, <1>6 DEF Counted
  <2>2. refs' = refs /\ count' = count /\ cents' = cents /\ errors' = errors
    BY <1>6 DEF Record, RecordTw, statsVars
  <2>3. Credit' = Credit
    BY <1>4, <2>1 DEF Credit
  <2>4. BooksAreTrue'
    BY <1>4, <1>5, <2>1, <2>2, <2>3 DEF BInv, BooksStand, BooksAreTrue, Credit, Spent
  <2> QED
    BY <1>4, <1>5, <2>1, <2>4 DEF BInv, BooksStand, CountedSucceeded
<1>7. CASE out[r].ref \notin refs
  <2>1. Counted' = Counted \cup {r}
    BY <1>2, <1>4, <1>7 DEF Counted
  <2>2. /\ refs' = refs \cup ({out[r].ref} \ {NoRef}) /\ count' = count + 1
        /\ cents' = cents + CentsOf(out[r].amount) /\ errors' = errors
    BY <1>7 DEF Record, RecordTw
  <2>3. /\ IsFiniteSet(Counted) /\ IsFiniteSet(Failed) /\ CountedSucceeded
        /\ count = Cardinality(Counted)
        /\ cents = SumFunction(Credit)
        /\ errors = Cardinality(Failed)
        /\ refs = {out[q].ref : q \in Counted} \ {NoRef}
        /\ \A q, s \in Counted : out[q].ref = out[s].ref => q = s \/ out[q].ref = NoRef
        /\ \A ref \in refs : \E d \in Requests :
             Spent(d) /\ VoucherID[extractVoucherHash(job[d].gift)] = ref
    BY DEF BInv, BooksStand, BooksAreTrue, Credit
  <2>4. IsFiniteSet(Counted') /\ count' = Cardinality(Counted')
    BY <1>2, <2>1, <2>2, <2>3, FS_AddElement
  <2>5. CountedSucceeded'
    BY <1>3, <1>4, <2>1, <2>3 DEF CountedSucceeded
  <2>6. cents' = SumFunction(Credit')
    <3> DEFINE g == Credit'
               f == Credit
               U == Counted
    <3>1. \A y \in U : g[y] = f[y]
      BY <1>4, <2>1 DEF Credit
    <3>2. \A y \in U \cup {r} : g[y] = CentsOf(out[y].amount) /\ out[y].amount \in Amounts
      BY <1>3, <1>4, <2>1, <2>3 DEF Credit, CountedSucceeded
    <3>3. \A y \in U \cup {r} : g[y] \in Nat
      BY <3>2, CentsOfType
    <3>4. g[r] = CentsOf(out[r].amount)
      BY <3>2
    <3>5. SumFunction(Credit') = SumFunctionOnSet(g, U \cup {r})
          /\ cents = SumFunctionOnSet(f, U)
      BY <2>1, <2>3, CreditSum DEF SumFunction, Credit
    <3> HIDE DEF g, f, U
    <3>6. SumFunctionOnSet(g, U \cup {r}) = SumFunctionOnSet(f, U) + g[r]
      <4>1. IsFiniteSet(U) /\ r \notin U
        BY <1>2, <2>3 DEF U
      <4> QED
        BY <3>1, <3>3, <4>1, SumGrows
    <3> QED
      BY <2>2, <3>4, <3>5, <3>6
  <2>7. refs' = {out'[q].ref : q \in Counted'} \ {NoRef}
    BY <1>4, <2>1, <2>2, <2>3
  <2>8. \A q, s \in Counted' : out'[q].ref = out'[s].ref => q = s \/ out'[q].ref = NoRef
    BY <1>4, <1>7, <2>1, <2>3
  <2>9. \A ref \in refs' : \E d \in Requests :
          Spent(d)' /\ VoucherID[extractVoucherHash(job'[d].gift)] = ref
    BY <1>2, <1>3, <1>4, <2>2, <2>3 DEF Spent
  <2>10. BooksAreTrue'
    BY <1>5, <2>2, <2>3, <2>4, <2>6, <2>7, <2>8, <2>9 DEF BooksAreTrue, Credit
  <2> QED
    BY <1>5, <2>3, <2>4, <2>5, <2>10 DEF BooksStand
<1> QED
  BY <1>6, <1>7

\* Recording a failure: counted for each request (TwService.recordTwError).
LEMMA FailureBooked ==
  ASSUME IInv, BInv, NEW r \in Requests, RecordError(r)
  PROVE  BooksStand'
<1>1. booked[r] = "no" /\ r \notin Failed
  BY DEF BInv, BookedByRecord, RecordError, Failed
<1>2. /\ out' = out /\ job' = job /\ wire' = wire
      /\ booked \in [Requests -> {"no", "counted", "duplicate", "error", "dropped"}]
      /\ booked' = [booked EXCEPT ![r] = "error"]
      /\ errors' = errors + 1 /\ refs' = refs /\ count' = count /\ cents' = cents
  BY DEF RecordError, RecordTwError, upVars, IInv, TypeOK
<1>3. Counted' = Counted /\ Failed' = Failed \cup {r}
  BY <1>1, <1>2 DEF Counted, Failed
<1>4. IsFiniteSet(Failed') /\ errors' = Cardinality(Failed')
  BY <1>1, <1>2, <1>3, FS_AddElement DEF BInv, BooksStand, BooksAreTrue
<1>5. Credit' = Credit
  BY <1>2, <1>3 DEF Credit
<1>6. BooksAreTrue'
  BY <1>2, <1>3, <1>4, <1>5 DEF BInv, BooksStand, BooksAreTrue, Credit, Spent
<1> QED
  BY <1>2, <1>3, <1>4, <1>6 DEF BInv, BooksStand, CountedSucceeded

\* The store fails: neither total changes.
LEMMA FailedToBook ==
  ASSUME IInv, BInv, NEW r \in Requests, RecordFails(r)
  PROVE  BooksStand'
<1>1. booked[r] = "no"
  BY DEF BInv, BookedByRecord, RecordFails
<1>2. /\ out' = out /\ job' = job /\ wire' = wire
      /\ booked \in [Requests -> {"no", "counted", "duplicate", "error", "dropped"}]
      /\ booked' = [booked EXCEPT ![r] = "dropped"]
      /\ errors' = errors /\ refs' = refs /\ count' = count /\ cents' = cents
  BY DEF RecordFails, statsVars, upVars, IInv, TypeOK
<1>3. Counted' = Counted /\ Failed' = Failed
  BY <1>1, <1>2 DEF Counted, Failed
<1>4. Credit' = Credit
  BY <1>2, <1>3 DEF Credit
<1>5. BooksAreTrue'
  BY <1>2, <1>3, <1>4 DEF BInv, BooksStand, BooksAreTrue, Credit, Spent
<1> QED
  BY <1>2, <1>3, <1>5 DEF BInv, BooksStand, CountedSucceeded

\* The arrival of a request.
LEMMA ArrivalBooks ==
  ASSUME IInv, BInv, NEW r \in Requests, NEW i \in Instances, NEW p \in Phones,
         NEW g \in Gifts, Arrives(r, i, p, g)
  PROVE  BInv'
<1>1. /\ pc[r] = "idle" /\ pc' = [pc EXCEPT ![r] = pc'[r]]
      /\ booked' = booked /\ wire' = wire /\ val' = val /\ UNCHANGED statsVars
      /\ \A q \in Requests \ {r} : out'[q] = out[q] /\ job'[q] = job[q] /\ fn'[q] = fn[q]
      /\ fn'[r] \in {"none", "open"}
  BY DEF Arrives, RedeemInvalid, DoLead, DoJoin, callVars, upVars, IInv, TypeOK, Arrival
<1>2. booked[r] = "no" /\ wire[r] = "none"
  BY <1>1 DEF BInv, BookedByRecord, IInv, Arrival, PostIsCall
<1>3. BookedByRecord'
  BY <1>1, <1>2 DEF BInv, BookedByRecord, IInv, TypeOK
<1>4. ReferenceIsOwn'
  BY <1>1 DEF BInv, ReferenceIsOwn
<1>5. BooksStand'
  <2>1. \A q \in Counted : out'[q] = out[q]
    BY <1>1, <1>2 DEF Counted
  <2>2. \A c \in Requests : Spent(c) => Spent(c)' /\ job'[c] = job[c]
    BY <1>1, <1>2 DEF Spent
  <2> QED
    BY <1>1, <2>1, <2>2, NothingBooked DEF BInv
<1> QED
  BY <1>3, <1>4, <1>5 DEF BInv

\* The steps of a call; a success carries the reference of its own voucher.
LEMMA CallBooks ==
  ASSUME IInv, BInv, NEW c \in Requests, CallBegins(c) \/ CallEnds(c) \/ Publish(c)
  PROVE  BInv'
<1>1. pc' = pc /\ job' = job /\ out' = out /\ booked' = booked /\ UNCHANGED statsVars
  BY DEF CallBegins, CallEnds, CallRejected, CallNotMade, CallSent, CallSucceeds, CallRefused, CallFails,
     Publish
<1>2. \A d \in Requests : Spent(d) => Spent(d)'
  BY DEF CallBegins, CallEnds, CallRejected, CallNotMade, CallSent, CallSucceeds, CallRefused, CallFails,
     Publish, upVars, Spent, IInv, TypeOK, PostIsCall
<1>3. BookedByRecord'
  BY <1>1 DEF BInv, BookedByRecord
<1>4. ReferenceIsOwn'
  <2>1. \A d \in Requests \ {c} : fn'[d] = fn[d] /\ val'[d] = val[d]
    BY DEF CallBegins, CallEnds, CallRejected, CallNotMade, CallSent, CallSucceeds, CallRefused,
       CallFails, Publish, IInv, TypeOK
  <2>2. fn'[c] \in {"returned", "published"} /\ val'[c].status = 200 =>
          val'[c].ref \in {VoucherID[extractVoucherHash(job[c].gift)], NoRef}
    <3>1. CASE CallRejected(c)
      BY <3>1, InvalidType DEF CallRejected, IInv, TypeOK
    <3>2. CASE CallSent(c)
      BY <3>2 DEF CallSent, IInv, TypeOK
    <3>3. CASE CallSucceeds(c)
      BY <3>3 DEF CallSucceeds, IInv, TypeOK
    <3>4. CASE CallRefused(c)
      BY <3>4, BusinessErrorType DEF CallRefused, IInv, TypeOK
    <3>5. ASSUME NEW why, CallFails(c, why)
          PROVE  val'[c].status # 200
      BY <3>5, CallErrorType DEF CallFails, CtxCanceled, IInv, TypeOK
    <3>6. CASE Publish(c)
      BY <3>6 DEF Publish, BInv, ReferenceIsOwn, IInv, TypeOK
    <3>7. CASE CallNotMade(c)
      BY <3>7, CallErrorType DEF CallNotMade, IInv, TypeOK
    <3> QED
      BY <3>1, <3>2, <3>3, <3>4, <3>5, <3>6, <3>7 DEF CallBegins, CallEnds
  <2> QED
    BY <1>1, <2>1, <2>2 DEF BInv, ReferenceIsOwn
<1>5. BooksStand'
  BY <1>1, <1>2, NothingBooked DEF BInv
<1> QED
  BY <1>3, <1>4, <1>5 DEF BInv

\* The rest of the handler.
LEMMA HandlerBooks ==
  ASSUME IInv, BInv, NEW r \in Requests,
         DoReturns(r) \/ Books(r) \/ Respond(r) \/ ClientGone(r)
  PROVE  BInv'
<1>1. job' = job /\ fn' = fn /\ val' = val /\ wire' = wire
  BY DEF DoReturns, Books, Record, RecordError, RecordFails, Respond, ClientGone, callVars,
     upVars
<1>2. ReferenceIsOwn'
  BY <1>1 DEF BInv, ReferenceIsOwn
<1>3. BookedByRecord'
  BY DEF BInv, BookedByRecord, DoReturns, Books, Record, RecordError, RecordFails, Respond,
     ClientGone, IInv, TypeOK
<1>4. BooksStand'
  <2>1. CASE Books(r)
    BY <2>1, SuccessBooked, FailureBooked, FailedToBook DEF Books
  <2>2. CASE DoReturns(r) \/ Respond(r) \/ ClientGone(r)
    <3>1. booked' = booked /\ UNCHANGED statsVars
      BY <2>2 DEF DoReturns, Respond, ClientGone
    <3>2. \A q \in Counted : out'[q] = out[q]
      BY <2>2 DEF DoReturns, Respond, ClientGone, Counted, BInv, BookedByRecord, IInv, TypeOK
    <3>3. \A c \in Requests : Spent(c) => Spent(c)' /\ job'[c] = job[c]
      BY <1>1 DEF Spent
    <3> QED
      BY <3>1, <3>2, <3>3, NothingBooked DEF BInv
  <2> QED
    BY <2>1, <2>2
<1> QED
  BY <1>2, <1>3, <1>4 DEF BInv

\* TrueMoney never takes a success back, and a crash touches no book.
LEMMA OutsideBooks ==
  ASSUME IInv, BInv,
         \/ \E c \in Requests :
              TrueMoneyRedeems(c) \/ \E code \in Refusals : TrueMoneyRefuses(c, code)
         \/ \E i \in Instances : Crash(i)
  PROVE  BInv'
<1>1. job' = job /\ val' = val /\ out' = out /\ booked' = booked /\ UNCHANGED statsVars
  BY DEF TrueMoneyRedeems, TrueMoneyRefuses, Crash, callVars
<1>2. \A d \in Requests : Spent(d) => Spent(d)'
  BY DEF TrueMoneyRedeems, TrueMoneyRefuses, Crash, upVars, Spent, IInv, TypeOK
<1>3. \A d \in Requests :
        /\ pc'[d] \in {"idle", "wait", "record"} => pc'[d] = pc[d]
        /\ fn'[d] \in {"returned", "published"} => fn'[d] = fn[d]
  BY DEF TrueMoneyRedeems, TrueMoneyRefuses, Crash, callVars
<1>4. BookedByRecord' /\ ReferenceIsOwn'
  BY <1>1, <1>3 DEF BInv, BookedByRecord, ReferenceIsOwn
<1>5. BooksStand'
  BY <1>1, <1>2, NothingBooked DEF BInv
<1> QED
  BY <1>4, <1>5 DEF BInv

(***************************************************************************)
(* The books tell the truth for any number of requests: the totals are the *)
(* numbers and the sum of what was counted, each reference is counted once *)
(* and was spent (TwService.record, recordTwError and the store).          *)
(***************************************************************************)
THEOREM BooksAreAlwaysTrue == Spec => []BooksAreTrue
<1>1. Init => BInv
  <2> SUFFICES ASSUME Init PROVE BInv
    OBVIOUS
  <2>1. Counted = {} /\ Failed = {}
    BY DEF Init, Counted, Failed
  <2>2. IsFiniteSet({}) /\ Cardinality({}) = 0
    BY FS_EmptySet
  <2>3. SumFunction(Credit) = 0
    <3> DEFINE h == CHOOSE k : Sums(k, Credit, {})
    <3>1. Sums(h, Credit, {})
      BY <2>2, SumsExist
    <3>2. SumFunction(Credit) = h[{}]
      BY <2>1, CreditSum, SumUnfolds
    <3> HIDE DEF h
    <3> QED
      BY <3>1, <3>2 DEF Sums
  <2>4. BooksAreTrue
    BY <2>1, <2>2, <2>3 DEF Init, StatsInit, BooksAreTrue, Credit
  <2> QED
    BY <2>1, <2>2, <2>4 DEF Init, BInv, BookedByRecord, ReferenceIsOwn, BooksStand,
       CountedSucceeded
<1>2. IInv /\ BInv /\ [Next]_vars => BInv'
  <2> SUFFICES ASSUME IInv, BInv, [Next]_vars PROVE BInv'
    OBVIOUS
  <2>1. CASE UNCHANGED vars
    <3>1. /\ pc' = pc /\ job' = job /\ fn' = fn /\ val' = val /\ wire' = wire /\ out' = out
          /\ booked' = booked /\ UNCHANGED statsVars
      BY <2>1 DEF vars, callVars, upVars
    <3>2. BooksStand'
      BY <3>1, NothingBooked DEF BInv, Spent
    <3> QED
      BY <3>1, <3>2 DEF BInv, BookedByRecord, ReferenceIsOwn
  <2> QED
    BY <2>1, ArrivalBooks, CallBooks, HandlerBooks, OutsideBooks DEF Next, Finished
<1>3. BInv => BooksAreTrue
  BY DEF BInv, BooksStand
<1> QED
  BY Inductive, <1>1, <1>2, <1>3, PTL DEF Spec
=============================================================================
