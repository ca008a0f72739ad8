------------------------------ MODULE Pipeline ------------------------------
(***************************************************************************)
(* What a request passes before and after its service: the middlewares of  *)
(* each route as NewRouter mounts them, the decoding of its input and the  *)
(* status it is answered with, under a configuration that Load accepted.   *)
(* Requests run concurrently, one step per middleware.  A limiter counts   *)
(* in windows that end at any time, and one in Redis may count a request   *)
(* more than once (MemoryLimiter and RedisLimiter have their insides), the *)
(* services are Redeem and Keys, and keys do not change (Keys has the      *)
(* races with revocation).                                                 *)
(***************************************************************************)
EXTENDS Integers, Sequences, SequencesExt

\* The handlers that read a body, those that read the path, those under /keys.
BodyOps == {"RedeemPost", "Create"}
ParamOps == {"RedeemGet", "Revoke", "Rotate"}
KeyOps == {"Create", "List", "Revoke", "Rotate"}
Ops == BodyOps \cup ParamOps \cup {"List", "Stats"}

CONSTANTS Slots,      \* requests under way at a time
          Requested,  \* operations that clients request
          Clients,    \* addresses of clients
          Proxy,      \* the address of the reverse proxy
          Row,        \* secret of each key the store has |-> its row
          None,
          MaxRuns,    \* runs of the limiter's script for one request
          Configs     \* environments the process may be started in

\* config.Config, as far as the limiters and validate look at it.
Config == [ipOn : BOOLEAN, ipMax : Int, ipWindow : Int, trustProxy : BOOLEAN,
           keyOn : BOOLEAN, memberMax : Int, partnerMax : Int, window : Int,
           redis : BOOLEAN, production : BOOLEAN, seed : BOOLEAN]

\* A request and how far it got.
Request == [st     : {"auth", "limit", "scope", "handler", "service", "done"},
            op     : Ops,
            client : Clients \cup {None},
            secret : DOMAIN Row \cup {None},
            status : {None, 200, 400, 401, 403, 429, 500},
            called : BOOLEAN]

ASSUME PipelineAssumption ==
  /\ Requested \subseteq Ops
  /\ Configs \subseteq Config
  /\ Proxy \notin Clients
  /\ MaxRuns \in Nat \ {0}
  /\ None \notin DOMAIN Row \cup Nat \cup Request

VARIABLES
  cfg,       \* config.Config, as the environment gives it
  up,        \* whether the process serves
  req,       \* the request in each slot, or None
  used,      \* what each limiter has counted per bucket in its window
  passed,    \* history: requests of a client past the IP limiter in its window
  served,    \* history: requests of a key past its limiter in its window
  retried    \* history: what the requests of a client or key were counted by
             \* a limiter beyond once each in its window

vars == <<cfg, up, req, used, passed, served, retried>>

Secrets == DOMAIN Row
Limiters == {"ip", "member", "partner"}
Buckets == Clients \cup {Proxy} \cup Secrets

Init ==
  /\ cfg \in Configs
  /\ up = "load"
  /\ req = [q \in Slots |-> None]
  /\ used = [l \in Limiters |-> [b \in Buckets |-> 0]]
  /\ passed = [c \in Clients |-> 0]
  /\ served = [k \in Secrets |-> 0]
  /\ retried = [l \in Limiters |-> [b \in Buckets |-> 0]]

-----------------------------------------------------------------------------
\* Mutant: the window of the key limiters is not checked.
validate_NoWindow(c) ==
  /\ c.keyOn => c.memberMax >= 1 /\ c.partnerMax >= 1
  /\ c.ipOn => c.ipMax >= 1 /\ c.ipWindow > 0
  /\ c.production => c.seed

\* Mutant: the window of the IP limiter is not checked.
validate_NoIPWindow(c) ==
  /\ c.keyOn => c.memberMax >= 1 /\ c.partnerMax >= 1 /\ c.window > 0
  /\ c.ipOn => c.ipMax >= 1
  /\ c.production => c.seed

validate(c) ==
  /\ c.keyOn => c.memberMax >= 1 /\ c.partnerMax >= 1 /\ c.window > 0
  /\ c.ipOn => c.ipMax >= 1 /\ c.ipWindow > 0
  /\ c.production => c.seed

\* config.Load: the process serves or exits.
Load ==
  /\ up = "load"
  /\ up' = IF validate(cfg) THEN "serve" ELSE "exited"
  /\ UNCHANGED <<cfg, req, used, passed, served, retried>>

\* X-Forwarded-For as it arrives: what the client sent, and behind the proxy
\* the address of the client after it.
Forwarded(client, sent) == IF cfg.trustProxy THEN Append(sent, client) ELSE sent

\* r.RemoteAddr.
RemoteAddr(client) == IF cfg.trustProxy THEN Proxy ELSE client

\* Mutant: the first entry of X-Forwarded-For.
clientIP_First(remote, xff) ==
  IF cfg.trustProxy /\ xff # <<>> THEN Head(xff) ELSE remote

clientIP(remote, xff) ==
  IF cfg.trustProxy /\ xff # <<>> THEN Last(xff) ELSE remote

MaxOf(l) ==
  CASE l = "ip" -> cfg.ipMax [] l = "member" -> cfg.memberMax [] l = "partner" -> cfg.partnerMax

\* The tier of a key's rank.
TierOf(k) == IF Row[k].rank = "partner" THEN "partner" ELSE "member"

\* How often Allow may count one request: the client library runs a script
\* whose reply it does not get again.
Runs == IF cfg.redis THEN 1..MaxRuns ELSE {1}

\* A window that is not positive has ended by the next request.
Counted(l, b, n) ==
  IF (IF l = "ip" THEN cfg.ipWindow ELSE cfg.window) > 0 THEN used[l][b] + n ELSE n

\* Counts from the limit on are alike.
AtMost(l, n) == IF n > MaxOf(l) THEN MaxOf(l) ELSE n

\* Limiter.Allow: the request is counted whether or not it is let pass.
Allows(l, b, n) == Counted(l, b, n) <= MaxOf(l)

Count(l, b, n) == used' = [used EXCEPT ![l][b] = AtMost(l, Counted(l, b, n))]

\* The history of counting a request of x more than once.
Retried(l, x, n) == retried' = [retried EXCEPT ![l][x] = AtMost(l, @ + n - 1)]

\* The first WriteHeader decides the status.
Answered(r, status) ==
  [r EXCEPT !.st = "done", !.status = IF @ = None THEN status ELSE @]

-----------------------------------------------------------------------------
\* RateLimitIP, the first middleware of every route that can refuse.
RateLimitIP(q, op, client, secret, sent, n) ==
  LET ip   == clientIP(RemoteAddr(client), Forwarded(client, sent))
      next == [st |-> IF op = "Stats" THEN "handler" ELSE "auth", op |-> op,
               client |-> client, secret |-> secret, status |-> None, called |-> FALSE]
      pass == cfg.ipOn => Allows("ip", ip, n)
  IN  /\ up = "serve"
      /\ req[q] = None
      /\ IF cfg.ipOn THEN Count("ip", ip, n) /\ Retried("ip", client, n)
                     ELSE UNCHANGED <<used, retried>>
      /\ req' = [req EXCEPT ![q] = IF pass THEN [next EXCEPT !.client = None]
                                   ELSE Answered(next, 429)]
      /\ passed' = [passed EXCEPT ![client] = IF cfg.ipOn /\ pass THEN @ + 1 ELSE @]
      /\ UNCHANGED <<cfg, up, served>>

\* Auth, where None is a missing key.  An unknown key and a store that fails
\* are answered alike.
Auth(q) ==
  LET r == req[q] IN
  /\ r # None /\ r.st = "auth"
  /\ \/ req' = [req EXCEPT ![q] = Answered(r, 401)]
     \/ /\ r.secret \in Secrets
        /\ req' = [req EXCEPT ![q] = IF Row[r.secret].active
                                     THEN [r EXCEPT !.st = "limit"] ELSE Answered(r, 403)]
  /\ UNCHANGED <<cfg, up, used, passed, served, retried>>

\* RateLimit: the tier of the key's rank, none for admins.
RateLimit(q, n) ==
  LET r    == req[q]
      k    == r.secret
      tier == TierOf(k)
      on   == cfg.keyOn /\ Row[k].rank # "admin"
      pass == on => Allows(tier, k, n)
  IN  /\ r # None /\ r.st = "limit"
      /\ IF on THEN Count(tier, k, n) /\ Retried(tier, k, n)
               ELSE UNCHANGED <<used, retried>>
      /\ req' = [req EXCEPT ![q] =
                   IF pass THEN [r EXCEPT !.st = IF r.op \in KeyOps THEN "scope" ELSE "handler"]
                           ELSE Answered(r, 429)]
      /\ served' = [served EXCEPT ![k] = IF on /\ pass THEN @ + 1 ELSE @]
      /\ UNCHANGED <<cfg, up, passed>>

\* Mutant: an empty scope list grants every scope.
hasScope_EmptyGrants(scopes, required) == scopes = {} \/ required \in scopes

hasScope(scopes, required) == required \in scopes

\* RequireScope("admin").
RequireScope(q) ==
  LET r == req[q] IN
  /\ r # None /\ r.st = "scope"
  /\ req' = [req EXCEPT ![q] = IF hasScope(Row[r.secret].scopes, "admin")
                               THEN [r EXCEPT !.st = "handler"] ELSE Answered(r, 403)]
  /\ UNCHANGED <<cfg, up, used, passed, served, retried>>

\* pathParam and idParam: the path cannot be unescaped or the id is no positive
\* int64, or the handler goes on.
pathParam(r) == {Answered(r, 400), [r EXCEPT !.st = "service"]}

\* decodeJSON: after one value of the right shape a body may hold something that
\* does not decode, nothing, or a second value that does (an empty object or
\* null), for which a 400 is written but nil returned.
decodeJSON(r) == {Answered(r, 400), [r EXCEPT !.st = "service"],
                  [r EXCEPT !.st = "service", !.status = 400]}

\* The handler reads its input.
Decode(q) ==
  LET r == req[q] IN
  /\ r # None /\ r.st = "handler"
  /\ \E s \in CASE r.op \in BodyOps  -> decodeJSON(r)
              [] r.op \in ParamOps -> pathParam(r)
              [] OTHER             -> {[r EXCEPT !.st = "service"]} :
       req' = [req EXCEPT ![q] = s]
  /\ UNCHANGED <<cfg, up, used, passed, served, retried>>

\* The service runs and the handler answers with its result or its error (whose
\* statuses are in Redeem: no service returns an error that becomes 400, 401,
\* 403 or 429), or Recover answers a panic.
Serve(q) ==
  LET r == [req[q] EXCEPT !.called = TRUE] IN
  /\ req[q] # None /\ req[q].st = "service"
  /\ \E status \in {200, 500} : req' = [req EXCEPT ![q] = Answered(r, status)]
  /\ UNCHANGED <<cfg, up, used, passed, served, retried>>

Leave(q) ==
  /\ req[q] # None /\ req[q].st = "done"
  /\ req' = [req EXCEPT ![q] = None]
  /\ UNCHANGED <<cfg, up, used, passed, served, retried>>

\* The window of a bucket ends; the histories start again with their own.
WindowEnds(l, b) ==
  /\ used[l][b] > 0
  /\ used' = [used EXCEPT ![l][b] = 0]
  /\ retried' = [retried EXCEPT ![l][b] = 0]
  /\ passed' = IF l = "ip" /\ b \in Clients THEN [passed EXCEPT ![b] = 0] ELSE passed
  /\ served' = IF l # "ip" /\ b \in Secrets THEN [served EXCEPT ![b] = 0] ELSE served
  /\ UNCHANGED <<cfg, up, req>>

Next ==
  \/ Load
  \/ \E q \in Slots :
       \/ \E op \in Requested, client \in Clients, secret \in Secrets \cup {None},
             sent \in {<<>>} \cup {<<f>> : f \in Clients}, n \in Runs :
            RateLimitIP(q, op, client, secret, sent, n)
       \/ \E n \in Runs : RateLimit(q, n)
       \/ Auth(q) \/ RequireScope(q) \/ Decode(q) \/ Serve(q) \/ Leave(q)
  \/ \E l \in Limiters, b \in Buckets : WindowEnds(l, b)

Spec == Init /\ [][Next]_vars

-----------------------------------------------------------------------------
(***************************************************************************)
(* No client gets more requests past the IP limiter, and so to the store,  *)
(* than the limit of a window, whatever X-Forwarded-For it sends           *)
(* (RateLimitIP: "unauthenticated traffic cannot exhaust the API store").  *)
(***************************************************************************)
ClientBudget ==
  up = "serve" /\ cfg.ipOn => \A c \in Clients : passed[c] <= cfg.ipMax

(***************************************************************************)
(* No key that is not an admin's gets more requests past its limiter than  *)
(* its tier allows in a window, from however many addresses and on         *)
(* whichever routes, in any configuration that Load accepts (RateLimit,    *)
(* validate).                                                              *)
(***************************************************************************)
TierBudget ==
  up = "serve" /\ cfg.keyOn =>
    \A k \in Secrets :
      CASE Row[k].rank = "member"  -> served[k] <= cfg.memberMax
        [] Row[k].rank = "partner" -> served[k] <= cfg.partnerMax
        [] OTHER -> TRUE

(***************************************************************************)
(* A request that was refused with 401, 403 or 429 has reached no service, *)
(* and the key services run only for an active key with the admin scope    *)
(* (hasScope: "an empty scope list grants nothing").                       *)
(***************************************************************************)
Entitled ==
  \A q \in Slots :
    req[q] # None /\ req[q].called =>
      /\ req[q].status \notin {401, 403, 429}
      /\ req[q].op # "Stats" => req[q].secret \in Secrets /\ Row[req[q].secret].active
      /\ req[q].op \in KeyOps => "admin" \in Row[req[q].secret].scopes

(***************************************************************************)
(* Whoever is answered 429 has used up its window itself: what the limiter *)
(* let pass of this very client or key, and what a script that was run     *)
(* again counted its requests more than once, come to the limit.  No other *)
(* client and no other key has a part in it, behind the proxy or not, in   *)
(* any configuration that Load accepts (clientIP, RateLimit, validate).    *)
(* The in-memory limiter counts each request once, so with it nobody is    *)
(* refused who was not let pass the full number of times.                  *)
(***************************************************************************)
RefusedForOwnTraffic ==
  [][\A q \in Slots :
       req'[q] # req[q] /\ req'[q] # None /\ req'[q].status = 429 =>
         IF req[q] = None
         THEN LET c == req'[q].client
              IN  passed[c] + retried'["ip"][c] >= cfg.ipMax
         ELSE LET k == req[q].secret
                  l == TierOf(k)
              IN  served[k] + retried'[l][k] >= MaxOf(l)]_vars

(***************************************************************************)
(* A request that is answered 400 has reached no service                   *)
(* (docs/security.md: "malformed payloads are rejected with `400`").       *)
(***************************************************************************)
RejectedBodyDoesNothing ==
  \A q \in Slots : req[q] # None /\ req[q].status = 400 => ~req[q].called
=============================================================================
