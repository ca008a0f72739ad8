------------------------------- MODULE Redeem -------------------------------
(***************************************************************************)
(* Redemption of TrueMoney gifts by several API instances: TwService       *)
(* (validate, redeem, record), CoalescedTwProvider (singleflight per       *)
(* (phone, gift) inside one process) and truemoney.Client (one POST, its   *)
(* failures and the mapping of its answers), against a TrueMoney that may  *)
(* answer late or never, clients that disconnect and processes that crash. *)
(*                                                                         *)
(* A request is one HTTP request to the API.  A call of the singleflight   *)
(* group is named by the request that leads it.                            *)
(***************************************************************************)
EXTENDS FiniteSets, FiniteSetsExt, GiftLink, Money, Stats

CONSTANTS Instances, Requests, None,
          Phones, ValidPhones,     \* phone strings, the ones phoneRe matches
          Gifts,                   \* gifts clients submit
          Amounts,                 \* amount strings TrueMoney returns
          VoucherID,               \* voucher_id of each voucher
          InitStock,               \* shares of each voucher still unspent
          Refusals,                \* status codes TrueMoney refuses with
          CallFaults,              \* ways in which a call can fail
          MaxGone, MaxCrashes      \* bounds on disconnects and on crashes

ASSUME RedeemAssumption ==
  /\ None \notin Requests
  /\ ValidPhones \subseteq Phones
  /\ Gifts \subseteq Gift
  /\ Amounts \subseteq Amount
  /\ VoucherID \in [Vouchers -> Refs]
  /\ InitStock \in [Vouchers -> Nat]
  /\ Refusals \subseteq {"VOUCHER_NOT_FOUND", "INVALID_LINK", "TARGET_NOT_FOUND",
                   "VOUCHER_OUT_OF_STOCK", "OTHER"}
  /\ CallFaults \subseteq {"request", "deadline", "transport", "read", "parse"}
  /\ "deadline" \in CallFaults
  /\ MaxGone \in Nat
  /\ MaxCrashes \in Nat
  /\ Cents = 0..MaxInt

VARIABLES
  pc,       \* where each request is in its handler
  job,      \* instance, phone and gift of each request that arrived
  leader,   \* leader[r]: the call r waits for (the *call Do returned)
  flight,   \* singleflight's map g.m of each instance
  fn,       \* progress of the call led by each request
  val,      \* what that call returned: c.val and c.err
  wire,     \* TrueMoney's view of the POST of each call
  stock,    \* TrueMoney: shares left of each voucher
  out,      \* what the handler answers to each request
  booked,   \* what the statistics store did with each request
  gone,     \* requests whose client has disconnected
  crashes

callVars == <<leader, flight, fn, val>>
upVars   == <<wire, stock>>
vars     == <<pc, job, callVars, upVars, out, booked, gone, crashes, statsVars>>

Codes == {"SUCCESS"} \cup Refusals

Keys == Phones \X Gifts

Job == [inst : Instances, phone : Phones, gift : Gifts]

Outcome == [status : {200, 404, 409, 422, 500, 502, 504},
            why    : {"answer", "invalid", "canceled"} \cup CallFaults,
            amount : Amounts \cup {None}, ref : Refs \cup {NoRef}]

Failure(status, why) ==
  [status |-> status, why |-> why, amount |-> None, ref |-> NoRef]

Invalid == Failure(422, "invalid")

-----------------------------------------------------------------------------
ValidateTwRedeem(phone, gift) == phone \in ValidPhones /\ ValidateGift(gift)

\* Mutant: the phone is left out of the key.
twCoalesceKey_GiftOnly(phone, gift) == <<CHOOSE p \in Phones : TRUE, gift>>

\* SHA-256 of "tw|phone|gift": the pair itself, taken as collision free.
twCoalesceKey(phone, gift) == <<phone, gift>>

KeyOf(r) == twCoalesceKey(job[r].phone, job[r].gift)

\* Mutant: the call runs under the leader's own request context.
CtxCanceled_Inherited(c) == c \in gone

\* context.WithoutCancel: the leader's disconnect does not reach the call.
CtxCanceled(c) == FALSE

mapBusinessError(code) ==
  CASE code \in {"VOUCHER_NOT_FOUND", "INVALID_LINK", "TARGET_NOT_FOUND"}
         -> Failure(404, "answer")
    [] code = "VOUCHER_OUT_OF_STOCK" -> Failure(409, "answer")
    [] OTHER -> Failure(422, "answer")

\* Mutant: an unreadable answer is mapped like a code TrueMoney sent.
callError_EmptyCode(why) ==
  CASE why = "deadline" -> Failure(504, why)
    [] why = "parse"    -> mapBusinessError("OTHER")
    [] OTHER            -> Failure(502, why)

(***************************************************************************)
(* The error Client.Redeem returns, as writeServiceError answers it.  That *)
(* the request cannot be made ("request") and a failed read of the body    *)
(* are not joined with ErrBadGateway: they are a 500.                      *)
(* (A read that fails on the deadline is the "deadline" case.)             *)
(***************************************************************************)
callError(why) ==
  CASE why = "deadline"            -> Failure(504, why)
    [] why \in {"request", "read"} -> Failure(500, why)
    [] OTHER                       -> Failure(502, why)

\* Mutant: the error of ParseCents is ignored.
CentsOf_Unchecked(amount) == ParseCents(amount)

CentsOf(amount) ==
  LET parsed == ParseCents(amount) IN IF parsed = ParseError THEN 0 ELSE parsed

-----------------------------------------------------------------------------
Init ==
  /\ pc = [r \in Requests |-> "idle"]
  /\ job = [r \in Requests |-> None]
  /\ leader = [r \in Requests |-> None]
  /\ flight = [i \in Instances |-> [k \in Keys |-> None]]
  /\ fn = [r \in Requests |-> "none"]
  /\ val = [r \in Requests |-> None]
  /\ wire = [r \in Requests |-> "none"]
  /\ stock = InitStock
  /\ out = [r \in Requests |-> None]
  /\ booked = [r \in Requests |-> "no"]
  /\ gone = {}
  /\ crashes = 0
  /\ StatsInit

-----------------------------------------------------------------------------
(***************************************************************************)
(* TwService.Redeem and singleflight.Group.Do up to the point where the    *)
(* request leads a call or waits for one.  Looking the key up and entering *)
(* the map are one step: Do holds g.mu over both.                          *)
(***************************************************************************)
RedeemInvalid(r, i, phone, gift) ==
  /\ pc[r] = "idle"
  /\ ~ValidateTwRedeem(phone, gift)
  /\ job' = [job EXCEPT ![r] = [inst |-> i, phone |-> phone, gift |-> gift]]
  /\ out' = [out EXCEPT ![r] = Invalid]
  /\ pc' = [pc EXCEPT ![r] = "record"]
  /\ UNCHANGED <<callVars, upVars, booked, gone, crashes, statsVars>>

\* Mutant: the map is not consulted, so every request makes its own call.
DoLead_NoLookup(r, i, phone, gift) ==
  /\ pc[r] = "idle"
  /\ ValidateTwRedeem(phone, gift)
  /\ job' = [job EXCEPT ![r] = [inst |-> i, phone |-> phone, gift |-> gift]]
  /\ flight' = [flight EXCEPT ![i][twCoalesceKey(phone, gift)] = r]
  /\ leader' = [leader EXCEPT ![r] = r]
  /\ fn' = [fn EXCEPT ![r] = "open"]
  /\ pc' = [pc EXCEPT ![r] = "wait"]
  /\ UNCHANGED <<val, upVars, out, booked, gone, crashes, statsVars>>

DoLead(r, i, phone, gift) ==
  /\ pc[r] = "idle"
  /\ ValidateTwRedeem(phone, gift)
  /\ flight[i][twCoalesceKey(phone, gift)] = None
  /\ job' = [job EXCEPT ![r] = [inst |-> i, phone |-> phone, gift |-> gift]]
  /\ flight' = [flight EXCEPT ![i][twCoalesceKey(phone, gift)] = r]
  /\ leader' = [leader EXCEPT ![r] = r]
  /\ fn' = [fn EXCEPT ![r] = "open"]
  /\ pc' = [pc EXCEPT ![r] = "wait"]
  /\ UNCHANGED <<val, upVars, out, booked, gone, crashes, statsVars>>

DoJoin(r, i, phone, gift) ==
  /\ pc[r] = "idle"
  /\ ValidateTwRedeem(phone, gift)
  /\ flight[i][twCoalesceKey(phone, gift)] # None
  /\ job' = [job EXCEPT ![r] = [inst |-> i, phone |-> phone, gift |-> gift]]
  /\ leader' = [leader EXCEPT ![r] = flight[i][twCoalesceKey(phone, gift)]]
  /\ pc' = [pc EXCEPT ![r] = "wait"]
  /\ UNCHANGED <<flight, fn, val, upVars, out, booked, gone, crashes, statsVars>>

-----------------------------------------------------------------------------
(***************************************************************************)
(* truemoney.Client.Redeem, run by the leader.                             *)
(***************************************************************************)
CallRejected(c) ==
  /\ fn[c] = "open"
  /\ extractVoucherHash(job[c].gift) = NoHash
  /\ val' = [val EXCEPT ![c] = Invalid]
  /\ fn' = [fn EXCEPT ![c] = "returned"]
  /\ UNCHANGED <<pc, job, leader, flight, upVars, out, booked, gone, crashes, statsVars>>

\* json.Marshal or http.NewRequestWithContext fails: nothing is sent.
CallNotMade(c) ==
  /\ fn[c] = "open"
  /\ extractVoucherHash(job[c].gift) # NoHash
  /\ "request" \in CallFaults
  /\ val' = [val EXCEPT ![c] = callError("request")]
  /\ fn' = [fn EXCEPT ![c] = "returned"]
  /\ UNCHANGED <<pc, job, leader, flight, upVars, out, booked, gone, crashes, statsVars>>

CallSent(c) ==
  /\ fn[c] = "open"
  /\ extractVoucherHash(job[c].gift) # NoHash
  /\ wire' = [wire EXCEPT ![c] = "pending"]
  /\ fn' = [fn EXCEPT ![c] = "sent"]
  /\ UNCHANGED <<pc, job, leader, flight, val, stock, out, booked, gone, crashes, statsVars>>

CallSucceeds(c) ==
  /\ fn[c] = "sent"
  /\ wire[c] = "SUCCESS"
  /\ \E amount \in Amounts,
        ref \in {VoucherID[extractVoucherHash(job[c].gift)], NoRef} :
       val' = [val EXCEPT ![c] = [status |-> 200, why |-> "answer",
                                  amount |-> amount, ref |-> ref]]
  /\ fn' = [fn EXCEPT ![c] = "returned"]
  /\ UNCHANGED <<pc, job, leader, flight, upVars, out, booked, gone, crashes, statsVars>>

CallRefused(c) ==
  /\ fn[c] = "sent"
  /\ wire[c] \in Refusals
  /\ val' = [val EXCEPT ![c] = mapBusinessError(wire[c])]
  /\ fn' = [fn EXCEPT ![c] = "returned"]
  /\ UNCHANGED <<pc, job, leader, flight, upVars, out, booked, gone, crashes, statsVars>>

\* Mutant: the POST has no timeout.
CallFails_NoTimeout(c, why) ==
  /\ fn[c] = "sent"
  /\ why \in CallFaults \ {"request", "deadline"}
  /\ val' = [val EXCEPT ![c] = callError(why)]
  /\ fn' = [fn EXCEPT ![c] = "returned"]
  /\ UNCHANGED <<pc, job, leader, flight, upVars, out, booked, gone, crashes, statsVars>>

(***************************************************************************)
(* The POST times out, breaks, or is answered by something that cannot be  *)
(* read or parsed, whatever TrueMoney has done or will still do with it.   *)
(***************************************************************************)
CallFails(c, why) ==
  /\ fn[c] = "sent"
  /\ why \in (CallFaults \ {"request"}) \cup (IF CtxCanceled(c) THEN {"canceled"} ELSE {})
  /\ val' = [val EXCEPT ![c] = callError(why)]
  /\ fn' = [fn EXCEPT ![c] = "returned"]
  /\ UNCHANGED <<pc, job, leader, flight, upVars, out, booked, gone, crashes, statsVars>>

\* Mutant: the result stays in the map, as a cache would keep it.
Publish_KeepEntry(c) ==
  /\ fn[c] = "returned"
  /\ fn' = [fn EXCEPT ![c] = "published"]
  /\ UNCHANGED <<pc, job, leader, flight, val, upVars, out, booked, gone, crashes, statsVars>>

\* doCall's epilogue: the waiters are released and the key leaves the map.
Publish(c) ==
  /\ fn[c] = "returned"
  /\ fn' = [fn EXCEPT ![c] = "published"]
  /\ flight' = [flight EXCEPT ![job[c].inst][KeyOf(c)] = None]
  /\ UNCHANGED <<pc, job, leader, val, upVars, out, booked, gone, crashes, statsVars>>

-----------------------------------------------------------------------------
(***************************************************************************)
(* The rest of TwService.Redeem and of the handler.                        *)
(***************************************************************************)
DoReturns(r) ==
  /\ pc[r] = "wait"
  /\ fn[leader[r]] = "published"
  /\ out' = [out EXCEPT ![r] = val[leader[r]]]
  /\ pc' = [pc EXCEPT ![r] = "record"]
  /\ UNCHANGED <<job, callVars, upVars, booked, gone, crashes, statsVars>>

\* record: a success reaches the store, with its amount in cents.
Record(r) ==
  /\ pc[r] = "record"
  /\ out[r].status = 200
  /\ RecordTw(CentsOf(out[r].amount), out[r].ref)
  /\ booked' = [booked EXCEPT ![r] = IF out[r].ref \in refs THEN "duplicate" ELSE "counted"]
  /\ pc' = [pc EXCEPT ![r] = "reply"]
  /\ UNCHANGED <<job, callVars, upVars, out, gone, crashes>>

RecordError(r) ==
  /\ pc[r] = "record"
  /\ out[r].status # 200
  /\ RecordTwError
  /\ booked' = [booked EXCEPT ![r] = "error"]
  /\ pc' = [pc EXCEPT ![r] = "reply"]
  /\ UNCHANGED <<job, callVars, upVars, out, gone, crashes>>

\* The store fails: a warning is logged and the operation goes on.
RecordFails(r) ==
  /\ pc[r] = "record"
  /\ booked' = [booked EXCEPT ![r] = "dropped"]
  /\ pc' = [pc EXCEPT ![r] = "reply"]
  /\ UNCHANGED <<job, callVars, upVars, out, gone, crashes, statsVars>>

Respond(r) ==
  /\ pc[r] = "reply"
  /\ pc' = [pc EXCEPT ![r] = "done"]
  /\ UNCHANGED <<job, callVars, upVars, out, booked, gone, crashes, statsVars>>

-----------------------------------------------------------------------------
(***************************************************************************)
(* TrueMoney (external), modelled from what the client relies on: a POST   *)
(* that was sent is processed at most once, at any later time, whether or  *)
(* not the sender still waits; it succeeds only while the voucher has a    *)
(* share left, and may be refused at any time.                             *)
(***************************************************************************)
TrueMoneyRedeems(c) ==
  LET v == extractVoucherHash(job[c].gift) IN
  /\ wire[c] = "pending"
  /\ stock[v] > 0
  /\ stock' = [stock EXCEPT ![v] = @ - 1]
  /\ wire' = [wire EXCEPT ![c] = "SUCCESS"]
  /\ UNCHANGED <<pc, job, callVars, out, booked, gone, crashes, statsVars>>

TrueMoneyRefuses(c, code) ==
  /\ wire[c] = "pending"
  /\ wire' = [wire EXCEPT ![c] = code]
  /\ UNCHANGED <<pc, job, callVars, stock, out, booked, gone, crashes, statsVars>>

\* The client of r closes its connection: r.Context() is cancelled.
ClientGone(r) ==
  /\ pc[r] \in {"wait", "record", "reply"}
  /\ r \notin gone
  /\ Cardinality(gone) < MaxGone
  /\ gone' = gone \cup {r}
  /\ UNCHANGED <<pc, job, callVars, upVars, out, booked, crashes, statsVars>>

(***************************************************************************)
(* A process dies and is restarted: its requests, its calls and its        *)
(* singleflight map are gone, what it sent and what it recorded is not.    *)
(***************************************************************************)
Crash(i) ==
  /\ crashes < MaxCrashes
  /\ crashes' = crashes + 1
  /\ pc' = [r \in Requests |->
              IF pc[r] \in {"wait", "record", "reply"} /\ job[r].inst = i
              THEN "lost" ELSE pc[r]]
  /\ fn' = [r \in Requests |->
              IF fn[r] \in {"open", "sent", "returned"} /\ job[r].inst = i
              THEN "dead" ELSE fn[r]]
  /\ flight' = [flight EXCEPT ![i] = [k \in Keys |-> None]]
  /\ UNCHANGED <<job, leader, val, upVars, out, booked, gone, statsVars>>

\* Every request was answered or lost with its process: nothing is left to do.
Finished ==
  /\ \A r \in Requests : pc[r] \in {"done", "lost"}
  /\ UNCHANGED vars

-----------------------------------------------------------------------------
Arrives(r, i, phone, gift) ==
  \/ RedeemInvalid(r, i, phone, gift)
  \/ DoLead(r, i, phone, gift)
  \/ DoJoin(r, i, phone, gift)

CallBegins(c) == CallRejected(c) \/ CallNotMade(c) \/ CallSent(c)

CallEnds(c) ==
  \/ CallSucceeds(c)
  \/ CallRefused(c)
  \/ \E why \in CallFaults \cup {"canceled"} : CallFails(c, why)

Books(r) == Record(r) \/ RecordError(r) \/ RecordFails(r)

Next ==
  \/ \E r \in Requests, i \in Instances, phone \in Phones, gift \in Gifts :
       Arrives(r, i, phone, gift)
  \/ \E c \in Requests : CallBegins(c) \/ CallEnds(c) \/ Publish(c)
  \/ \E r \in Requests : DoReturns(r) \/ Books(r) \/ Respond(r) \/ ClientGone(r)
  \/ \E c \in Requests :
       TrueMoneyRedeems(c) \/ \E code \in Refusals : TrueMoneyRefuses(c, code)
  \/ \E i \in Instances : Crash(i)
  \/ Finished

Spec == Init /\ [][Next]_vars

(***************************************************************************)
(* The steps of the process itself are taken sooner or later: goroutines   *)
(* are scheduled, the POST is bounded by the client's 30 s timeout and by  *)
(* the 35 s of the call's context, and the store's calls return.  Nothing  *)
(* is assumed of clients, of TrueMoney or of crashes.                      *)
(***************************************************************************)
Fairness ==
  /\ \A c \in Requests : /\ WF_vars(CallBegins(c))
                         /\ WF_vars(CallFails(c, "deadline"))
                         /\ WF_vars(Publish(c))
  /\ \A r \in Requests : /\ WF_vars(DoReturns(r))
                         /\ WF_vars(Books(r))
                         /\ WF_vars(Respond(r))

FairSpec == Spec /\ Fairness

-----------------------------------------------------------------------------
TypeOK ==
  /\ pc \in [Requests -> {"idle", "wait", "record", "reply", "done", "lost"}]
  /\ job \in [Requests -> Job \cup {None}]
  /\ leader \in [Requests -> Requests \cup {None}]
  /\ flight \in [Instances -> [Keys -> Requests \cup {None}]]
  /\ fn \in [Requests -> {"none", "open", "sent", "returned", "published", "dead"}]
  /\ val \in [Requests -> Outcome \cup {None}]
  /\ wire \in [Requests -> {"none", "pending"} \cup Codes]
  /\ stock \in [Vouchers -> Nat]
  /\ out \in [Requests -> Outcome \cup {None}]
  /\ booked \in [Requests -> {"no", "counted", "duplicate", "error", "dropped"}]
  /\ gone \subseteq Requests
  /\ crashes \in 0..MaxCrashes
  /\ StatsTypeOK

Answered(r) == pc[r] \in {"record", "reply", "done"}

\* Call c took a share of its voucher.
Spent(c) == wire[c] = "SUCCESS"

(***************************************************************************)
(* A burst of duplicates costs one upstream call: inside one process, two  *)
(* different calls under way are never for the same phone and gift, even   *)
(* when one starts as the other ends (CoalescedTwProvider's promise).      *)
(***************************************************************************)
SingleUpstreamCall ==
  \A c, d \in Requests :
    /\ fn[c] \in {"open", "sent", "returned"}
    /\ fn[d] \in {"open", "sent", "returned"}
    /\ job[c] = job[d]
    => c = d

(***************************************************************************)
(* Financial results are never replayed: a request does not join a call    *)
(* whose result some other request has already been given (the comment on  *)
(* CoalescedTwProvider; docs/architecture.md, no cached results).          *)
(***************************************************************************)
NoReplay ==
  [][\A r, s \in Requests :
       pc[r] = "idle" /\ pc'[r] = "wait" /\ Answered(s) => leader'[r] # leader[s]]_vars

(***************************************************************************)
(* Whoever is told 200 was paid: the call it shared took a share of the    *)
(* very voucher it submitted, for the very phone it submitted, although    *)
(* the call may have been made by another client's request.                *)
(***************************************************************************)
PaidToCaller ==
  \A r \in Requests :
    Answered(r) /\ out[r].status = 200 =>
      /\ Spent(leader[r])
      /\ job[leader[r]].phone = job[r].phone
      /\ extractVoucherHash(job[leader[r]].gift) = extractVoucherHash(job[r].gift)

(***************************************************************************)
(* Whoever is told 404, 409 or 422 lost nothing: the call behind the       *)
(* answer took no share and TrueMoney will not take one later.  A 5xx      *)
(* leaves it open (mapBusinessError, Client.Redeem's error returns).       *)
(***************************************************************************)
RefusalIsFinal ==
  \A r \in Requests :
    Answered(r) /\ out[r].status \in {404, 409, 422} /\ leader[r] # None =>
      wire[leader[r]] \notin {"pending", "SUCCESS"}

(***************************************************************************)
(* A spent voucher is reported as spent to everyone who waited, unless the *)
(* connection to TrueMoney itself failed: the disconnect of the client     *)
(* that leads the call must not take the answer from the others            *)
(* (context.WithoutCancel in CoalescedTwProvider.Redeem).                  *)
(***************************************************************************)
SpendReported ==
  \A r \in Requests :
    Answered(r) /\ leader[r] # None =>
      (Spent(leader[r]) => out[r].status = 200 \/ out[r].why \in CallFaults \ {"request"})

Counted == {r \in Requests : booked[r] = "counted"}

Failed == {r \in Requests : booked[r] = "error"}

(***************************************************************************)
(* The books tell the truth: the totals are those of the requests counted, *)
(* every reference is counted for one request only, however many shared    *)
(* its call or redeemed on another instance, and each of them was spent.   *)
(***************************************************************************)
BooksAreTrue ==
  /\ count = Cardinality(Counted)
  /\ cents = SumFunction([r \in Counted |-> CentsOf(out[r].amount)])
  /\ errors = Cardinality(Failed)
  /\ refs = {out[r].ref : r \in Counted} \ {NoRef}
  /\ \A r, s \in Counted : out[r].ref = out[s].ref => r = s \/ out[r].ref = NoRef
  /\ \A ref \in refs : \E c \in Requests :
       Spent(c) /\ VoucherID[extractVoucherHash(job[c].gift)] = ref

(***************************************************************************)
(* Every request that arrives is answered unless its process dies: nobody  *)
(* waits for ever in Do, even if TrueMoney never answers.                  *)
(***************************************************************************)
EveryoneAnswered ==
  \A r \in Requests : pc[r] # "idle" ~> pc[r] \in {"done", "lost"}

-----------------------------------------------------------------------------
(***************************************************************************)
(* The inductive invariant behind the safety properties.                   *)
(***************************************************************************)
UnderWay(c) == fn[c] \in {"open", "sent", "returned"}

\* A request that has not arrived owns nothing; one that has knows its job.
Arrival ==
  \A r \in Requests :
    IF pc[r] = "idle"
    THEN leader[r] = None /\ fn[r] = "none"
    ELSE job[r] \in Job

\* The singleflight map of a process holds exactly the calls under way in it.
MapIsCalls ==
  /\ \A i \in Instances, k \in Keys :
       flight[i][k] # None =>
         LET c == flight[i][k]
         IN  UnderWay(c) /\ job[c] \in Job /\ job[c].inst = i /\ KeyOf(c) = k
  /\ \A c \in Requests :
       /\ fn[c] # "none" => job[c] \in Job
       /\ UnderWay(c) => flight[job[c].inst][KeyOf(c)] = c

\* A POST exists only for a call that got past the extraction of the hash.
PostIsCall ==
  \A c \in Requests :
    /\ fn[c] \in {"none", "open"} => wire[c] = "none"
    /\ wire[c] # "none" => /\ job[c] \in Job
                          /\ extractVoucherHash(job[c].gift) # NoHash

\* What a call returned agrees with what TrueMoney did, now and later.
Verdict(c) ==
  /\ val[c].status = 200 => wire[c] = "SUCCESS" /\ val[c].amount \in Amounts
  /\ val[c].status \in {404, 409, 422} => wire[c] \notin {"pending", "SUCCESS"}
  /\ val[c].status \in {500, 502, 504} =>
       /\ val[c].why \in CallFaults
       /\ val[c].why = "request" => wire[c] = "none"

ReturnedVerdict ==
  \A c \in Requests :
    fn[c] \in {"returned", "published"} => val[c] \in Outcome /\ Verdict(c)

\* A request waits for a call made for its own phone and gift, and answers
\* with what that call returned.
WaitsForOwn ==
  \A r \in Requests :
    /\ leader[r] # None =>
         /\ fn[leader[r]] # "none"
         /\ job[r] \in Job
         /\ job[leader[r]] = job[r]
    /\ pc[r] = "wait" => leader[r] # None
    /\ Answered(r) =>
         IF leader[r] = None
         THEN out[r] = Invalid
         ELSE fn[leader[r]] = "published" /\ out[r] = val[leader[r]]

IInv == TypeOK /\ Arrival /\ MapIsCalls /\ PostIsCall /\ ReturnedVerdict /\ WaitsForOwn
=============================================================================
