--------------------------- MODULE PipelineProofs ---------------------------
(***************************************************************************)
(* The properties of Pipeline for any number of requests under way,        *)
(* clients, keys and configurations.  IInv is inductive.                   *)
(***************************************************************************)
EXTENDS Pipeline, TLAPS

\* The types of the variables.
Types ==
  /\ cfg \in Config
  /\ up \in {"load", "serve", "exited"}
  /\ req \in [Slots -> Request \cup {None}]
  /\ used \in [Limiters -> [Buckets -> Nat]]
  /\ passed \in [Clients -> Nat]
  /\ served \in [Secrets -> Nat]
  /\ retried \in [Limiters -> [Buckets -> Nat]]

\* Only a process whose configuration was accepted has requests, or had any.
Serves ==
  /\ up = "serve" => validate(cfg)
  /\ up # "serve" => /\ \A q \in Slots : req[q] = None
                     /\ \A c \in Clients : passed[c] = 0
                     /\ \A k \in Secrets : served[k] = 0
                     /\ \A l \in Limiters, b \in Buckets : used[l][b] = 0 /\ retried[l][b] = 0

\* What the middlewares before a stage have established.
Established(r) ==
  /\ r.st \in {"auth", "limit", "scope"} => r.op # "Stats"
  /\ r.st \in {"limit", "scope", "handler", "service"} \/ r.called =>
       (r.op # "Stats" => r.secret \in Secrets /\ Row[r.secret].active)
  /\ r.st \in {"handler", "service"} \/ r.called =>
       (r.op \in KeyOps => "admin" \in Row[r.secret].scopes)
  /\ r.st # "done" => ~r.called /\ r.status \in {None, 400}
  /\ r.called => r.status \notin {401, 403, 429}

AllEstablished == \A q \in Slots : req[q] # None => Established(req[q])

(***************************************************************************)
(* A limiter with this limit has counted n of somebody of whom it let p    *)
(* pass, and whose requests it counted m more than once each.              *)
(***************************************************************************)
Spent(n, p, m, limit) ==
  /\ n = IF p + m > limit THEN limit ELSE p + m
  /\ p <= limit

\* The IP limiter counts a client by its own address, and within its limit.
CountsClients ==
  up = "serve" /\ cfg.ipOn =>
    \A c \in Clients : Spent(used["ip"][c], passed[c], retried["ip"][c], cfg.ipMax)

\* The key limiters count a key in its own tier only, and within its limit.
CountsKeys ==
  \A k \in Secrets :
    /\ \A l \in {"member", "partner"} : l # TierOf(k) => used[l][k] = 0
    /\ up = "serve" /\ cfg.keyOn =>
         Spent(used[TierOf(k)][k], served[k], retried[TierOf(k)][k], MaxOf(TierOf(k)))

IInv == Types /\ Serves /\ AllEstablished /\ CountsClients /\ CountsKeys

-----------------------------------------------------------------------------
\* What is appended to a sequence is its last element.
LEMMA LastAppended ==
  ASSUME NEW S, NEW s \in Seq(S), NEW x \in S
  PROVE  Append(s, x) # <<>> /\ Append(s, x)[Len(Append(s, x))] = x
<1>1. Len(s) \in Nat /\ Len(Append(s, x)) = Len(s) + 1
  OBVIOUS
<1>2. Append(s, x)[Len(s) + 1] = x
  OBVIOUS
<1>3. Len(<<>>) = 0
  OBVIOUS
<1>4. Append(s, x) # <<>>
  BY <1>1, <1>3
<1> QED
  BY <1>1, <1>2, <1>4

\* The address a request is counted under is its client's, whatever it sent.
LEMMA CountedAsClient ==
  ASSUME cfg \in Config, NEW client \in Clients,
         NEW sent \in {<<>>} \cup {<<f>> : f \in Clients}
  PROVE  clientIP(RemoteAddr(client), Forwarded(client, sent)) = client
<1>0. sent \in Seq(Clients)
  <2>1. CASE sent = <<>>
    BY <2>1
  <2>2. CASE sent \in {<<f>> : f \in Clients}
    <3>1. PICK f \in Clients : sent = <<f>>
      BY <2>2
    <3> QED BY <3>1
  <2> QED BY <2>1, <2>2
<1>1. CASE cfg.trustProxy
  <2>1. /\ Append(sent, client) # <<>>
        /\ Append(sent, client)[Len(Append(sent, client))] = client
    BY <1>0, LastAppended
  <2> QED BY <1>1, <2>1 DEF clientIP, Forwarded, RemoteAddr, Last
<1>2. CASE ~cfg.trustProxy
  BY <1>2 DEF clientIP, Forwarded, RemoteAddr
<1> QED BY <1>1, <1>2

\* Answering a request that has no status, or the 400 of its body.
LEMMA AnsweredType ==
  ASSUME NEW r \in Request, NEW status \in {200, 400, 401, 403, 429, 500}
  PROVE  /\ Answered(r, status) \in Request
         /\ Answered(r, status).st = "done"
         /\ Answered(r, status).status = IF r.status = None THEN status ELSE r.status
         /\ Answered(r, status).called = r.called
         /\ Answered(r, status).op = r.op
         /\ Answered(r, status).secret = r.secret
         /\ Answered(r, status).client = r.client
<1> DEFINE final == IF r.status = None THEN status ELSE r.status
           y     == [r EXCEPT !.st = "done"]
<1>1. final \in {None, 200, 400, 401, 403, 429, 500}
  BY DEF Request
<1>2. Answered(r, status) = [y EXCEPT !.status = final]
  BY DEF Answered
<1>3. /\ y \in Request /\ y.st = "done" /\ y.called = r.called
      /\ y.op = r.op /\ y.secret = r.secret /\ y.client = r.client
  BY DEF Request
<1> HIDE DEF final, y
<1>4. Answered(r, status) \in Request
  BY <1>1, <1>2, <1>3 DEF Request
<1>5. Answered(r, status).status = final
  BY <1>1, <1>2, <1>3 DEF Request
<1>6. /\ Answered(r, status).st = y.st /\ Answered(r, status).called = y.called
      /\ Answered(r, status).op = y.op /\ Answered(r, status).secret = y.secret
      /\ Answered(r, status).client = y.client
  BY <1>1, <1>2, <1>3 DEF Request
<1> QED BY <1>3, <1>4, <1>5, <1>6 DEF final

\* A refusal establishes nothing.
LEMMA RefusedEstablished ==
  ASSUME NEW r \in Request, Established(r), r.st # "done",
         NEW status \in {400, 401, 403, 429}
  PROVE  /\ Answered(r, status) \in Request
         /\ Established(Answered(r, status))
BY AnsweredType DEF Established

\* A step that gives one slot such a request keeps what was established.
LEMMA SlotKeeps ==
  ASSUME IInv, NEW q \in Slots, NEW x, x = None \/ (x \in Request /\ Established(x)),
         req' = [req EXCEPT ![q] = x]
  PROVE  req' \in [Slots -> Request \cup {None}] /\ AllEstablished'
<1>1. req \in [Slots -> Request \cup {None}] /\ \A p \in Slots : req[p] # None => Established(req[p])
  BY DEF IInv, Types, AllEstablished
<1>2. req' \in [Slots -> Request \cup {None}]
  BY <1>1
<1>3. \A p \in Slots : req'[p] # None => Established(req'[p])
  BY <1>1
<1> QED BY <1>2, <1>3 DEF AllEstablished, Established

\* A request under way, and the process it is in.
LEMMA UnderWay ==
  ASSUME IInv, NEW q \in Slots, req[q] # None
  PROVE  /\ req[q] \in Request
         /\ Established(req[q])
         /\ up = "serve" /\ validate(cfg)
BY DEF IInv, Types, AllEstablished, Serves

-----------------------------------------------------------------------------
(***************************************************************************)
(* The steps that count nothing.                                           *)
(***************************************************************************)
LEMMA QuietStep ==
  ASSUME IInv, UNCHANGED <<cfg, up, used, passed, served, retried>>, up = "serve",
         req' \in [Slots -> Request \cup {None}], AllEstablished'
  PROVE  IInv'
<1>1. Types' /\ Serves'
  BY DEF IInv, Types, Serves, validate
<1>2. CountsClients' /\ CountsKeys'
  BY DEF IInv, CountsClients, CountsKeys, Spent, MaxOf, TierOf
<1> QED BY <1>1, <1>2 DEF IInv

\* Auth establishes an active key.
LEMMA AuthStep ==
  ASSUME IInv, NEW q \in Slots, Auth(q)
  PROVE  IInv'
<1> DEFINE r == req[q]
<1>1. /\ r # None /\ r.st = "auth" /\ r \in Request /\ Established(r) /\ up = "serve"
      /\ UNCHANGED <<cfg, up, used, passed, served, retried>>
  BY UnderWay DEF Auth
<1>2. ASSUME NEW status \in {401, 403}, req' = [req EXCEPT ![q] = Answered(r, status)]
      PROVE  IInv'
  <2>1. Answered(r, status) \in Request /\ Established(Answered(r, status))
    BY <1>1, RefusedEstablished
  <2>2. req' \in [Slots -> Request \cup {None}] /\ AllEstablished'
    BY <1>2, <2>1, SlotKeeps
  <2> QED BY <1>1, <2>2, QuietStep
<1>3. ASSUME r.secret \in Secrets, Row[r.secret].active,
             req' = [req EXCEPT ![q] = [r EXCEPT !.st = "limit"]]
      PROVE  IInv'
  <2>1. [r EXCEPT !.st = "limit"] \in Request /\ Established([r EXCEPT !.st = "limit"])
    BY <1>1, <1>3 DEF Request, Established
  <2>2. req' \in [Slots -> Request \cup {None}] /\ AllEstablished'
    BY <1>3, <2>1, SlotKeeps
  <2> QED BY <1>1, <2>2, QuietStep
<1> QED BY <1>2, <1>3 DEF Auth

\* RequireScope establishes the scope.
LEMMA ScopeStep ==
  ASSUME IInv, NEW q \in Slots, RequireScope(q)
  PROVE  IInv'
<1> DEFINE r == req[q]
<1>1. /\ r # None /\ r.st = "scope" /\ r \in Request /\ Established(r) /\ up = "serve"
      /\ UNCHANGED <<cfg, up, used, passed, served, retried>>
  BY UnderWay DEF RequireScope
<1>2. CASE hasScope(Row[r.secret].scopes, "admin")
  <2>1. [r EXCEPT !.st = "handler"] \in Request /\ Established([r EXCEPT !.st = "handler"])
    BY <1>1, <1>2 DEF Request, Established, hasScope
  <2>2. req' \in [Slots -> Request \cup {None}] /\ AllEstablished'
    BY <1>2, <2>1, SlotKeeps DEF RequireScope
  <2> QED BY <1>1, <2>2, QuietStep
<1>3. CASE ~hasScope(Row[r.secret].scopes, "admin")
  <2>1. Answered(r, 403) \in Request /\ Established(Answered(r, 403))
    BY <1>1, RefusedEstablished
  <2>2. req' \in [Slots -> Request \cup {None}] /\ AllEstablished'
    BY <1>3, <2>1, SlotKeeps DEF RequireScope
  <2> QED BY <1>1, <2>2, QuietStep
<1> QED BY <1>2, <1>3

\* What a handler makes of its input.
LEMMA Inputs ==
  ASSUME NEW q \in Slots, Decode(q)
  PROVE  \E x \in {Answered(req[q], 400), [req[q] EXCEPT !.st = "service"],
                   [req[q] EXCEPT !.st = "service", !.status = 400]} :
           req' = [req EXCEPT ![q] = x]
<1> DEFINE r  == req[q]
           s1 == [r EXCEPT !.st = "service"]
           s2 == [r EXCEPT !.st = "service", !.status = 400]
           inputs == CASE r.op \in BodyOps  -> decodeJSON(r)
                       [] r.op \in ParamOps -> pathParam(r)
                       [] OTHER             -> {s1}
<1>1. inputs \subseteq {Answered(r, 400), s1, s2}
  <2>1. CASE r.op \in BodyOps
    BY <2>1 DEF decodeJSON, BodyOps, ParamOps
  <2>2. CASE r.op \in ParamOps
    BY <2>2 DEF pathParam, BodyOps, ParamOps
  <2>3. CASE r.op \notin BodyOps \cup ParamOps
    BY <2>3
  <2> QED BY <2>1, <2>2, <2>3
<1>2. PICK x \in inputs : req' = [req EXCEPT ![q] = x]
  BY DEF Decode
<1>3. x \in {Answered(r, 400), s1, s2}
  BY <1>1
<1> HIDE DEF s1, s2
<1>4. \E y \in {Answered(r, 400), s1, s2} : req' = [req EXCEPT ![q] = y]
  BY <1>2, <1>3
<1> QED BY <1>4 DEF s1, s2

\* Reading the body or the path changes nothing that was established.
LEMMA DecodeStep ==
  ASSUME IInv, NEW q \in Slots, Decode(q)
  PROVE  IInv'
<1> DEFINE r == req[q]
           s1 == [r EXCEPT !.st = "service"]
           s2 == [r EXCEPT !.st = "service", !.status = 400]
<1>1. /\ r # None /\ r.st = "handler" /\ r \in Request /\ Established(r) /\ up = "serve"
      /\ UNCHANGED <<cfg, up, used, passed, served, retried>>
  BY UnderWay DEF Decode
<1>2. PICK x \in {Answered(r, 400), s1, s2} : req' = [req EXCEPT ![q] = x]
  BY Inputs, Zenon
<1>3. x \in Request /\ Established(x)
  <2>1. Answered(r, 400) \in Request /\ Established(Answered(r, 400))
    BY <1>1, RefusedEstablished
  <2>2. s1 \in Request /\ Established(s1)
    BY <1>1 DEF Request, Established
  <2>3. s2 \in Request /\ Established(s2)
    <3>1. s2 = [s1 EXCEPT !.status = 400]
      OBVIOUS
    <3>2. s1.st = "service" /\ s1.op = r.op /\ s1.secret = r.secret /\ s1.called = r.called
      BY <1>1 DEF Request
    <3> HIDE DEF s1, s2
    <3>3. /\ s2 \in Request /\ s2.status = 400
          /\ s2.st = s1.st /\ s2.op = s1.op /\ s2.secret = s1.secret /\ s2.called = s1.called
      BY <2>2, <3>1 DEF Request
    <3>4. Established(s2)
      BY <1>1, <3>2, <3>3 DEF Established
    <3> QED BY <3>3, <3>4
  <2> QED BY <1>2, <2>1, <2>2, <2>3
<1>4. req' \in [Slots -> Request \cup {None}] /\ AllEstablished'
  BY <1>2, <1>3, SlotKeeps
<1> QED BY <1>1, <1>4, QuietStep

\* The service runs on what was established.
LEMMA ServeStep ==
  ASSUME IInv, NEW q \in Slots, Serve(q)
  PROVE  IInv'
<1> DEFINE r == [req[q] EXCEPT !.called = TRUE]
<1>1. /\ req[q] # None /\ req[q].st = "service" /\ req[q] \in Request /\ Established(req[q])
      /\ up = "serve" /\ UNCHANGED <<cfg, up, used, passed, served, retried>>
  BY UnderWay DEF Serve
<1>2. PICK status \in {200, 500} : req' = [req EXCEPT ![q] = Answered(r, status)]
  BY DEF Serve
<1>3. /\ r \in Request /\ r.called /\ r.op = req[q].op /\ r.secret = req[q].secret
      /\ r.status = req[q].status
  <2>1. \A c \in BOOLEAN : \A x : x = [req[q] EXCEPT !.called = c] =>
          /\ x \in Request /\ x.called = c /\ x.op = req[q].op
          /\ x.secret = req[q].secret /\ x.status = req[q].status
    BY <1>1 DEF Request
  <2> QED BY <2>1
<1> HIDE DEF r
<1>4. /\ Answered(r, status) \in Request
      /\ Answered(r, status).st = "done"
      /\ Answered(r, status).status \in {200, 500, 400}
      /\ Answered(r, status).op = req[q].op
      /\ Answered(r, status).secret = req[q].secret
  BY <1>1, <1>3, AnsweredType DEF Established
<1>5. Established(Answered(r, status))
  BY <1>1, <1>4 DEF Established
<1>6. req' \in [Slots -> Request \cup {None}] /\ AllEstablished'
  BY <1>2, <1>4, <1>5, SlotKeeps
<1> QED BY <1>1, <1>6, QuietStep

\* A request that leaves takes its claims with it.
LEMMA LeaveStep ==
  ASSUME IInv, NEW q \in Slots, Leave(q)
  PROVE  IInv'
<1>1. req' \in [Slots -> Request \cup {None}] /\ AllEstablished'
  BY SlotKeeps DEF Leave
<1> QED BY <1>1, UnderWay, QuietStep DEF Leave

-----------------------------------------------------------------------------
(***************************************************************************)
(* The steps that count, and those that start and end the counting.        *)
(***************************************************************************)
LEMMA LoadStep ==
  ASSUME IInv, Load
  PROVE  IInv'
<1>1. Types' /\ AllEstablished'
  BY DEF IInv, Types, AllEstablished, Established, Load
<1>2. Serves'
  BY DEF IInv, Serves, Load, validate
<1>3. ASSUME up' = "serve"
      PROVE  /\ \A c \in Clients : passed'[c] = 0
             /\ \A k \in Secrets : served'[k] = 0
             /\ \A l \in Limiters, b \in Buckets : used'[l][b] = 0 /\ retried'[l][b] = 0
  BY <1>3 DEF IInv, Serves, Load
<1>4. CountsClients'
  <2> SUFFICES ASSUME up' = "serve", cfg'.ipOn, NEW c \in Clients
               PROVE  Spent(used'["ip"][c], passed'[c], retried'["ip"][c], cfg'.ipMax)
    BY DEF CountsClients
  <2>1. cfg' = cfg /\ cfg.ipMax \in Int /\ cfg.ipMax >= 1
    BY DEF Load, validate, IInv, Types, Config
  <2>2. used'["ip"][c] = 0 /\ passed'[c] = 0 /\ retried'["ip"][c] = 0
    BY <1>3 DEF Limiters, Buckets
  <2> QED BY <2>1, <2>2 DEF Spent
<1>5. CountsKeys'
  <2> SUFFICES ASSUME NEW k \in Secrets
               PROVE  /\ \A l \in {"member", "partner"} : l # TierOf(k) => used'[l][k] = 0
                      /\ up' = "serve" /\ cfg.keyOn =>
                           Spent(used'[TierOf(k)][k], served'[k], retried'[TierOf(k)][k],
                                 MaxOf(TierOf(k)))
    BY DEF Load, CountsKeys, TierOf, MaxOf
  <2>1. \A l \in {"member", "partner"} : l # TierOf(k) => used'[l][k] = 0
    BY DEF IInv, CountsKeys, Load
  <2>2. ASSUME up' = "serve", cfg.keyOn
        PROVE  Spent(used'[TierOf(k)][k], served'[k], retried'[TierOf(k)][k], MaxOf(TierOf(k)))
    <3>1. MaxOf(TierOf(k)) \in Int /\ MaxOf(TierOf(k)) >= 1
      BY <2>2 DEF Load, validate, IInv, Types, Config, MaxOf, TierOf
    <3>2. used'[TierOf(k)][k] = 0 /\ served'[k] = 0 /\ retried'[TierOf(k)][k] = 0
      BY <1>3, <2>2 DEF Limiters, Buckets, TierOf
    <3> QED BY <3>1, <3>2 DEF Spent
  <2> QED BY <2>1, <2>2
<1> QED BY <1>1, <1>2, <1>4, <1>5 DEF IInv

\* Changing one number of a table of them.
LEMMA PutOne ==
  ASSUME NEW f \in [Limiters -> [Buckets -> Nat]], NEW l \in Limiters, NEW b \in Buckets,
         NEW n \in Nat, NEW g, g = [f EXCEPT ![l][b] = n]
  PROVE  /\ g \in [Limiters -> [Buckets -> Nat]]
         /\ g[l][b] = n
         /\ \A k \in Limiters, c \in Buckets : k # l \/ c # b => g[k][c] = f[k][c]
<1>1. g = [f EXCEPT ![l] = [f[l] EXCEPT ![b] = n]]
  OBVIOUS
<1>2. [f[l] EXCEPT ![b] = n] \in [Buckets -> Nat]
  OBVIOUS
<1> QED BY <1>1, <1>2

(***************************************************************************)
(* What a limiter whose window is positive does to its counts when it      *)
(* counts a request n times under its owner, and to the history.           *)
(***************************************************************************)
LEMMA CountSome ==
  ASSUME IInv, NEW l \in Limiters, NEW b \in Buckets, NEW n \in Runs,
         MaxOf(l) \in Nat, Count(l, b, n), Retried(l, b, n),
         Counted(l, b, n) = used[l][b] + n, NEW p \in Nat,
         Spent(used[l][b], p, retried[l][b], MaxOf(l))
  PROVE  /\ used' \in [Limiters -> [Buckets -> Nat]]
         /\ retried' \in [Limiters -> [Buckets -> Nat]]
         /\ \A k \in Limiters, c \in Buckets :
              k # l \/ c # b => used'[k][c] = used[k][c] /\ retried'[k][c] = retried[k][c]
         /\ Spent(used'[l][b], IF Allows(l, b, n) THEN p + 1 ELSE p, retried'[l][b], MaxOf(l))
         /\ ~Allows(l, b, n) => p + retried'[l][b] >= MaxOf(l)
<1> DEFINE max == MaxOf(l)
           u == used[l][b]
           m == retried[l][b]
           v == AtMost(l, u + n)
           w == AtMost(l, m + n - 1)
<1>1. n \in Nat \ {0} /\ u \in Nat /\ m \in Nat /\ max \in Nat
  BY PipelineAssumption DEF Runs, IInv, Types
<1>2. /\ v = IF u + n > max THEN max ELSE u + n
      /\ w = IF m + n - 1 > max THEN max ELSE m + n - 1
  BY DEF AtMost
<1>3. v \in Nat /\ w \in Nat
  BY <1>1, <1>2
<1>4. /\ used' = [used EXCEPT ![l][b] = v] /\ used \in [Limiters -> [Buckets -> Nat]]
      /\ retried' = [retried EXCEPT ![l][b] = w] /\ retried \in [Limiters -> [Buckets -> Nat]]
  BY DEF Count, Retried, IInv, Types
<1>5. Allows(l, b, n) <=> u + n <= max
  BY DEF Allows
<1>6. u = IF p + m > max THEN max ELSE p + m
  BY DEF Spent
<1>7. p <= max
  BY DEF Spent
<1> HIDE DEF max, u, m, v, w
<1>8. /\ used' \in [Limiters -> [Buckets -> Nat]] /\ used'[l][b] = v
      /\ \A k \in Limiters, c \in Buckets : k # l \/ c # b => used'[k][c] = used[k][c]
  BY <1>3, <1>4, PutOne
<1>9. /\ retried' \in [Limiters -> [Buckets -> Nat]] /\ retried'[l][b] = w
      /\ \A k \in Limiters, c \in Buckets : k # l \/ c # b => retried'[k][c] = retried[k][c]
  BY <1>3, <1>4, PutOne
<1>10. CASE u + n <= max
  <2>1. v = u + n /\ u = p + m /\ w = m + n - 1 /\ p + 1 <= max
    BY <1>1, <1>2, <1>6, <1>7, <1>10
  <2>2. Spent(v, p + 1, w, max)
    BY <1>1, <1>10, <2>1 DEF Spent
  <2> QED BY <1>5, <1>8, <1>9, <1>10, <2>2 DEF max
<1>11. CASE ~(u + n <= max)
  <2>1. v = max /\ p + w >= max
    BY <1>1, <1>2, <1>6, <1>7, <1>11
  <2>2. Spent(v, p, w, max)
    BY <1>1, <1>3, <1>7, <2>1 DEF Spent
  <2> QED BY <1>5, <1>8, <1>9, <1>11, <2>1, <2>2 DEF max
<1> QED BY <1>10, <1>11

\* The end of a window resets a count and its history together.
LEMMA WindowStep ==
  ASSUME IInv, NEW l \in Limiters, NEW b \in Buckets, WindowEnds(l, b)
  PROVE  IInv'
<1>0. /\ used \in [Limiters -> [Buckets -> Nat]] /\ used[l][b] > 0
      /\ retried \in [Limiters -> [Buckets -> Nat]]
      /\ used' = [used EXCEPT ![l][b] = 0] /\ retried' = [retried EXCEPT ![l][b] = 0]
      /\ UNCHANGED <<cfg, up, req>>
  BY DEF IInv, Types, WindowEnds
<1>1. /\ used' \in [Limiters -> [Buckets -> Nat]] /\ retried' \in [Limiters -> [Buckets -> Nat]]
      /\ used'[l][b] = 0 /\ retried'[l][b] = 0
      /\ \A k \in Limiters, c \in Buckets :
           k # l \/ c # b => used'[k][c] = used[k][c] /\ retried'[k][c] = retried[k][c]
  <2>1. 0 \in Nat
    OBVIOUS
  <2> QED BY <1>0, <2>1, PutOne
<1>2. /\ passed \in [Clients -> Nat] /\ served \in [Secrets -> Nat]
      /\ passed' = IF l = "ip" /\ b \in Clients THEN [passed EXCEPT ![b] = 0] ELSE passed
      /\ served' = IF l # "ip" /\ b \in Secrets THEN [served EXCEPT ![b] = 0] ELSE served
  BY DEF IInv, Types, WindowEnds
<1>3. passed' \in [Clients -> Nat] /\ served' \in [Secrets -> Nat]
  BY <1>2
<1>4. \A c \in Clients : passed'[c] = IF l = "ip" /\ c = b THEN 0 ELSE passed[c]
  BY <1>2
<1>5. \A k \in Secrets : served'[k] = IF l # "ip" /\ k = b THEN 0 ELSE served[k]
  BY <1>2
<1>6. Types' /\ AllEstablished'
  BY <1>0, <1>1, <1>3 DEF IInv, Types, AllEstablished, Established
<1>7. Serves'
  <2>1. up = "serve"
    BY <1>0 DEF IInv, Serves
  <2> QED BY <1>0, <2>1 DEF IInv, Serves, validate
<1>8. CountsClients'
  <2>1. SUFFICES ASSUME up = "serve", cfg.ipOn, NEW c \in Clients
                 PROVE  Spent(used'["ip"][c], passed'[c], retried'["ip"][c], cfg.ipMax)
    BY <1>0 DEF CountsClients
  <2>2. Spent(used["ip"][c], passed[c], retried["ip"][c], cfg.ipMax)
    BY <2>1 DEF IInv, CountsClients
  <2>3. "ip" \in Limiters /\ c \in Buckets /\ cfg.ipMax \in Int /\ cfg.ipMax >= 1
    BY <2>1 DEF Limiters, Buckets, IInv, Types, Config, Serves, validate
  <2>4. CASE l = "ip" /\ c = b
    <3>1. passed'[c] = 0 /\ used'["ip"][c] = 0 /\ retried'["ip"][c] = 0
      BY <1>1, <1>4, <2>4
    <3> QED BY <2>3, <3>1 DEF Spent
  <2>5. CASE ~(l = "ip" /\ c = b)
    <3>1. /\ passed'[c] = passed[c] /\ used'["ip"][c] = used["ip"][c]
          /\ retried'["ip"][c] = retried["ip"][c]
      BY <1>1, <1>4, <2>3, <2>5
    <3> QED BY <2>2, <3>1
  <2> QED BY <2>4, <2>5
<1>9. CountsKeys'
  <2>1. SUFFICES ASSUME NEW k \in Secrets
                 PROVE  /\ \A m \in {"member", "partner"} : m # TierOf(k) => used'[m][k] = 0
                        /\ up = "serve" /\ cfg.keyOn =>
                             Spent(used'[TierOf(k)][k], served'[k], retried'[TierOf(k)][k],
                                   MaxOf(TierOf(k)))
    BY <1>0 DEF CountsKeys, TierOf, MaxOf
  <2>2. /\ \A m \in {"member", "partner"} : m # TierOf(k) => used[m][k] = 0
        /\ up = "serve" /\ cfg.keyOn =>
             Spent(used[TierOf(k)][k], served[k], retried[TierOf(k)][k], MaxOf(TierOf(k)))
    BY DEF IInv, CountsKeys
  <2>3. /\ TierOf(k) \in {"member", "partner"} /\ k \in Buckets
        /\ {"member", "partner"} \subseteq Limiters /\ "ip" \notin {"member", "partner"}
        /\ MaxOf(TierOf(k)) \in Int
        /\ up = "serve" /\ cfg.keyOn => MaxOf(TierOf(k)) >= 1
    BY DEF TierOf, Buckets, Limiters, MaxOf, IInv, Types, Config, Serves, validate
  <2>4. CASE l # "ip" /\ k = b
    <3>1. l = TierOf(k)
      BY <1>0, <2>2, <2>4 DEF Limiters
    <3>2. served'[k] = 0 /\ used'[TierOf(k)][k] = 0 /\ retried'[TierOf(k)][k] = 0
      BY <1>1, <1>5, <2>4, <3>1
    <3>3. \A m \in {"member", "partner"} : m # TierOf(k) => used'[m][k] = 0
      BY <1>1, <2>2, <2>3, <3>1
    <3> QED BY <2>3, <3>2, <3>3 DEF Spent
  <2>5. CASE ~(l # "ip" /\ k = b)
    <3>1. served'[k] = served[k]
      BY <1>5, <2>5
    <3>2. \A m \in {"member", "partner"} : used'[m][k] = used[m][k] /\ retried'[m][k] = retried[m][k]
      BY <1>1, <2>3, <2>5
    <3> QED BY <2>2, <2>3, <3>1, <3>2
  <2> QED BY <2>4, <2>5
<1> QED BY <1>6, <1>7, <1>8, <1>9 DEF IInv

\* What the IP limiter has counted of a client.
LEMMA ClientBucket ==
  ASSUME IInv, up = "serve", cfg.ipOn, NEW client \in Clients, NEW n \in Runs
  PROVE  /\ "ip" \in Limiters /\ client \in Buckets /\ MaxOf("ip") = cfg.ipMax
         /\ cfg.ipMax \in Nat /\ Counted("ip", client, n) = used["ip"][client] + n
         /\ passed[client] \in Nat
         /\ Spent(used["ip"][client], passed[client], retried["ip"][client], MaxOf("ip"))
<1>1. "ip" \in Limiters /\ client \in Buckets /\ MaxOf("ip") = cfg.ipMax
  BY DEF Limiters, Buckets, MaxOf
<1>2. cfg.ipMax \in Nat /\ cfg.ipWindow > 0 /\ passed[client] \in Nat
  BY DEF IInv, Types, Config, Serves, validate
<1>3. Spent(used["ip"][client], passed[client], retried["ip"][client], cfg.ipMax)
  BY DEF IInv, CountsClients
<1> QED BY <1>1, <1>2, <1>3 DEF Counted

\* RateLimitIP counts the client it lets pass.
LEMMA IPStep ==
  ASSUME IInv, NEW q \in Slots, NEW op \in Requested, NEW client \in Clients,
         NEW secret \in Secrets \cup {None},
         NEW sent \in {<<>>} \cup {<<f>> : f \in Clients},
         NEW n \in Runs, RateLimitIP(q, op, client, secret, sent, n)
  PROVE  IInv'
<1> DEFINE next == [st |-> IF op = "Stats" THEN "handler" ELSE "auth", op |-> op,
                    client |-> client, secret |-> secret, status |-> None, called |-> FALSE]
           pass == cfg.ipOn => Allows("ip", client, n)
<1>1. clientIP(RemoteAddr(client), Forwarded(client, sent)) = client
  BY CountedAsClient DEF IInv, Types
<1>2. /\ up = "serve" /\ req[q] = None
      /\ IF cfg.ipOn THEN Count("ip", client, n) /\ Retried("ip", client, n)
                     ELSE UNCHANGED <<used, retried>>
      /\ req' = [req EXCEPT ![q] = IF pass THEN [next EXCEPT !.client = None]
                                   ELSE Answered(next, 429)]
      /\ passed' = [passed EXCEPT ![client] = IF cfg.ipOn /\ pass THEN @ + 1 ELSE @]
      /\ UNCHANGED <<cfg, up, served>>
  BY <1>1 DEF RateLimitIP
<1>3. next \in Request /\ Established(next) /\ next.st # "done"
  <2>1. op \in Ops /\ secret \in DOMAIN Row \cup {None}
    BY PipelineAssumption DEF Secrets
  <2>2. next \in Request
    BY <2>1 DEF Request
  <2>3. Established(next)
    BY DEF Established, KeyOps
  <2> QED BY <2>2, <2>3
<1>4. [next EXCEPT !.client = None] \in Request /\ Established([next EXCEPT !.client = None])
  <2> DEFINE x == [next EXCEPT !.client = None]
  <2> HIDE DEF next
  <2>1. /\ x \in Request /\ x.st = next.st /\ x.op = next.op /\ x.secret = next.secret
        /\ x.status = next.status /\ x.called = next.called
    BY <1>3 DEF Request
  <2> HIDE DEF x
  <2>2. x \in Request /\ Established(x)
    BY <1>3, <2>1 DEF Established
  <2> QED BY <2>2 DEF x
<1>5. Answered(next, 429) \in Request /\ Established(Answered(next, 429))
  <2> HIDE DEF next
  <2> QED BY <1>3, RefusedEstablished
<1>6. req' \in [Slots -> Request \cup {None}] /\ AllEstablished'
  <2> HIDE DEF next, pass
  <2> DEFINE x == IF pass THEN [next EXCEPT !.client = None] ELSE Answered(next, 429)
  <2>1. x \in Request /\ Established(x)
    BY <1>4, <1>5
  <2>2. req' = [req EXCEPT ![q] = x]
    BY <1>2
  <2> HIDE DEF x
  <2> QED BY <2>1, <2>2, SlotKeeps
<1> HIDE DEF next
<1>7. CASE ~cfg.ipOn
  <2>1. UNCHANGED <<used, passed, retried>>
    <3>1. passed \in [Clients -> Nat] /\ passed' = [passed EXCEPT ![client] = @]
      BY <1>2, <1>7 DEF IInv, Types
    <3> QED BY <1>2, <1>7, <3>1
  <2> QED BY <1>2, <1>6, <2>1, QuietStep
<1>8. CASE cfg.ipOn
  <2> DEFINE p == passed[client]
  <2>1. /\ "ip" \in Limiters /\ client \in Buckets /\ MaxOf("ip") = cfg.ipMax
        /\ cfg.ipMax \in Nat /\ Counted("ip", client, n) = used["ip"][client] + n
        /\ p \in Nat /\ Spent(used["ip"][client], p, retried["ip"][client], MaxOf("ip"))
    BY <1>2, <1>8, ClientBucket
  <2>2. Count("ip", client, n) /\ Retried("ip", client, n)
    BY <1>2, <1>8
  <2>3. /\ passed \in [Clients -> Nat]
        /\ passed' = [passed EXCEPT ![client] = IF Allows("ip", client, n) THEN p + 1 ELSE p]
    BY <1>2, <1>8 DEF IInv, Types
  <2>4. passed' \in [Clients -> Nat]
    BY <2>3
  <2>5. /\ passed'[client] = IF Allows("ip", client, n) THEN p + 1 ELSE p
        /\ \A c \in Clients : c # client => passed'[c] = passed[c]
    BY <2>3
  <2> HIDE DEF p
  <2>6. /\ used' \in [Limiters -> [Buckets -> Nat]]
        /\ retried' \in [Limiters -> [Buckets -> Nat]]
        /\ \A k \in Limiters, c \in Buckets :
             k # "ip" \/ c # client => used'[k][c] = used[k][c] /\ retried'[k][c] = retried[k][c]
        /\ Spent(used'["ip"][client], IF Allows("ip", client, n) THEN p + 1 ELSE p,
                 retried'["ip"][client], MaxOf("ip"))
    BY <2>1, <2>2, CountSome
  <2>7. Types' /\ Serves'
    BY <1>2, <1>6, <2>4, <2>6 DEF IInv, Types, Serves, validate
  <2>8. CountsClients'
    <3>1. ASSUME NEW c \in Clients
          PROVE  Spent(used'["ip"][c], passed'[c], retried'["ip"][c], cfg.ipMax)
      <4>1. CASE c = client
        BY <2>1, <2>5, <2>6, <4>1
      <4>2. CASE c # client
        <5>1. Spent(used["ip"][c], passed[c], retried["ip"][c], cfg.ipMax) /\ c \in Buckets
          BY <1>2, <1>8 DEF IInv, CountsClients, Buckets
        <5> QED BY <2>1, <2>5, <2>6, <4>2, <5>1
      <4> QED BY <4>1, <4>2
    <3> QED BY <1>2, <3>1 DEF CountsClients
  <2>9. CountsKeys'
    <3>1. \A k \in Secrets, l \in {"member", "partner"} :
            used'[l][k] = used[l][k] /\ retried'[l][k] = retried[l][k]
      BY <2>6 DEF Limiters, Buckets
    <3>2. \A k \in Secrets : TierOf(k) \in {"member", "partner"}
      BY DEF TierOf
    <3>3. \A l : MaxOf(l)' = MaxOf(l)
      BY <1>2 DEF MaxOf
    <3>4. \A k \in Secrets : TierOf(k)' = TierOf(k)
      BY DEF TierOf
    <3> QED BY <1>2, <3>1, <3>2, <3>3, <3>4 DEF IInv, CountsKeys
  <2> QED BY <1>6, <2>7, <2>8, <2>9 DEF IInv
<1> QED BY <1>7, <1>8

\* What a request in RateLimit has to its credit.
LEMMA AtLimiter ==
  ASSUME IInv, NEW q \in Slots, req[q] # None, req[q].st = "limit", NEW n \in Runs
  PROVE  LET k == req[q].secret
             l == TierOf(k)
         IN  /\ req[q] \in Request /\ Established(req[q]) /\ up = "serve" /\ k \in Secrets
             /\ l \in Limiters /\ k \in Buckets /\ l \in {"member", "partner"}
             /\ served[k] \in Nat
             /\ cfg.keyOn => /\ Counted(l, k, n) = used[l][k] + n
                             /\ MaxOf(l) \in Nat
                             /\ Spent(used[l][k], served[k], retried[l][k], MaxOf(l))
<1> DEFINE k == req[q].secret
           l == TierOf(k)
<1>1. req[q] \in Request /\ Established(req[q]) /\ up = "serve" /\ validate(cfg)
  BY UnderWay
<1>2. k \in Secrets
  BY <1>1 DEF Established
<1>3. l \in Limiters /\ k \in Buckets /\ l \in {"member", "partner"} /\ l # "ip"
  BY <1>2 DEF TierOf, Limiters, Buckets
<1>4. served[k] \in Nat
  BY <1>2 DEF IInv, Types
<1>5. ASSUME cfg.keyOn
      PROVE  Counted(l, k, n) = used[l][k] + n /\ MaxOf(l) \in Nat
  <2>1. cfg.window > 0 /\ cfg.memberMax \in Nat /\ cfg.partnerMax \in Nat
    BY <1>1, <1>5 DEF validate, IInv, Types, Config
  <2> QED BY <1>3, <2>1 DEF Counted, MaxOf
<1>6. ASSUME cfg.keyOn PROVE Spent(used[l][k], served[k], retried[l][k], MaxOf(l))
  BY <1>1, <1>2, <1>6 DEF IInv, CountsKeys
<1> QED BY <1>1, <1>2, <1>3, <1>4, <1>5, <1>6

\* RateLimit counts the key it lets pass.
LEMMA LimitStep ==
  ASSUME IInv, NEW q \in Slots, NEW n \in Runs, RateLimit(q, n)
  PROVE  IInv'
<1> DEFINE r    == req[q]
           k    == r.secret
           tier == TierOf(k)
           on   == cfg.keyOn /\ Row[k].rank # "admin"
           pass == on => Allows(tier, k, n)
           x    == IF pass THEN [r EXCEPT !.st = IF r.op \in KeyOps THEN "scope" ELSE "handler"]
                           ELSE Answered(r, 429)
<1>1. /\ r # None /\ r.st = "limit"
      /\ IF on THEN Count(tier, k, n) /\ Retried(tier, k, n) ELSE UNCHANGED <<used, retried>>
      /\ req' = [req EXCEPT ![q] = x]
      /\ served' = [served EXCEPT ![k] = IF on /\ pass THEN @ + 1 ELSE @]
      /\ UNCHANGED <<cfg, up, passed>>
  BY DEF RateLimit
<1>2. /\ r \in Request /\ Established(r) /\ up = "serve" /\ k \in Secrets
      /\ tier \in Limiters /\ k \in Buckets /\ tier \in {"member", "partner"}
      /\ served[k] \in Nat
      /\ on => /\ Counted(tier, k, n) = used[tier][k] + n
               /\ MaxOf(tier) \in Nat
               /\ Spent(used[tier][k], served[k], retried[tier][k], MaxOf(tier))
  BY <1>1, AtLimiter
<1>3. x \in Request /\ Established(x)
  <2> DEFINE st == IF r.op \in KeyOps THEN "scope" ELSE "handler"
             y  == [r EXCEPT !.st = st]
  <2>1. st \in {"scope", "handler"} /\ (st = "handler" => r.op \notin KeyOps)
    OBVIOUS
  <2>2. Answered(r, 429) \in Request /\ Established(Answered(r, 429))
    BY <1>1, <1>2, RefusedEstablished
  <2>3. x = IF pass THEN y ELSE Answered(r, 429)
    OBVIOUS
  <2> HIDE DEF st, x, pass, r
  <2>4. /\ y \in Request /\ y.st = st /\ y.op = r.op /\ y.secret = r.secret
        /\ y.status = r.status /\ y.called = r.called
    BY <1>2, <2>1 DEF Request
  <2> HIDE DEF y
  <2>5. Established(y)
    BY <1>1, <1>2, <2>1, <2>4 DEF Established
  <2> QED BY <2>2, <2>3, <2>4, <2>5
<1>4. req' \in [Slots -> Request \cup {None}] /\ AllEstablished'
  <2> HIDE DEF x, r
  <2> QED BY <1>1, <1>3, SlotKeeps
<1> HIDE DEF x, r
<1>5. CASE ~on
  <2>1. served \in [Secrets -> Nat] /\ served' = [served EXCEPT ![k] = @]
    BY <1>1, <1>5 DEF IInv, Types
  <2>2. UNCHANGED <<used, served, retried>>
    BY <1>1, <1>5, <2>1
  <2> QED BY <1>1, <1>2, <1>4, <2>2, QuietStep
<1>6. CASE on
  <2> DEFINE p == served[k]
  <2>1. /\ tier \in Limiters /\ k \in Buckets /\ p \in Nat /\ MaxOf(tier) \in Nat
        /\ Count(tier, k, n) /\ Retried(tier, k, n) /\ Counted(tier, k, n) = used[tier][k] + n
        /\ Spent(used[tier][k], p, retried[tier][k], MaxOf(tier))
    BY <1>1, <1>2, <1>6
  <2>2. /\ served \in [Secrets -> Nat]
        /\ served' = [served EXCEPT ![k] = IF Allows(tier, k, n) THEN p + 1 ELSE p]
    BY <1>1, <1>6 DEF IInv, Types
  <2>3. cfg.keyOn
    BY <1>6
  <2> HIDE DEF tier, on, pass
  <2>4. served' \in [Secrets -> Nat]
    <3> DEFINE m == IF Allows(tier, k, n) THEN p + 1 ELSE p
    <3>1. m \in Nat
      BY <2>1
    <3> HIDE DEF m
    <3>2. served' = [served EXCEPT ![k] = m]
      BY <2>2 DEF m
    <3> QED BY <2>2, <3>1, <3>2
  <2>5. /\ served'[k] = IF Allows(tier, k, n) THEN p + 1 ELSE p
        /\ \A j \in Secrets : j # k => served'[j] = served[j]
    BY <1>2, <2>2
  <2> HIDE DEF p
  <2>6. /\ used' \in [Limiters -> [Buckets -> Nat]]
        /\ retried' \in [Limiters -> [Buckets -> Nat]]
        /\ \A l \in Limiters, b \in Buckets :
             l # tier \/ b # k => used'[l][b] = used[l][b] /\ retried'[l][b] = retried[l][b]
        /\ Spent(used'[tier][k], IF Allows(tier, k, n) THEN p + 1 ELSE p,
                 retried'[tier][k], MaxOf(tier))
    BY <2>1, CountSome
  <2>7. Types' /\ Serves'
    BY <1>1, <1>2, <1>4, <2>4, <2>6 DEF IInv, Types, Serves, validate
  <2>8. CountsClients'
    <3>1. \A c \in Clients : used'["ip"][c] = used["ip"][c] /\ retried'["ip"][c] = retried["ip"][c]
      BY <1>2, <2>6 DEF Limiters, Buckets
    <3> QED BY <1>1, <3>1 DEF IInv, CountsClients
  <2>9. CountsKeys'
    <3>1. ASSUME NEW j \in Secrets
          PROVE  /\ \A l \in {"member", "partner"} : l # TierOf(j) => used'[l][j] = 0
                 /\ Spent(used'[TierOf(j)][j], served'[j], retried'[TierOf(j)][j],
                          MaxOf(TierOf(j)))
      <4>1. /\ \A l \in {"member", "partner"} : l # TierOf(j) => used[l][j] = 0
            /\ Spent(used[TierOf(j)][j], served[j], retried[TierOf(j)][j], MaxOf(TierOf(j)))
        BY <1>2, <2>3 DEF IInv, CountsKeys
      <4>2. /\ TierOf(j) \in {"member", "partner"} /\ j \in Buckets
            /\ {"member", "partner"} \subseteq Limiters
        BY DEF TierOf, Buckets, Limiters
      <4>3. CASE j = k
        <5>1. TierOf(j) = tier
          BY <4>3 DEF tier
        <5>2. Spent(used'[TierOf(j)][j], served'[j], retried'[TierOf(j)][j], MaxOf(TierOf(j)))
          BY <2>5, <2>6, <4>3, <5>1
        <5>3. \A l \in {"member", "partner"} : l # TierOf(j) => used'[l][j] = 0
          BY <2>6, <4>1, <4>2, <4>3, <5>1
        <5> QED BY <5>2, <5>3
      <4>4. CASE j # k
        <5>1. served'[j] = served[j]
          BY <2>5, <4>4
        <5>2. \A l \in {"member", "partner"} :
                used'[l][j] = used[l][j] /\ retried'[l][j] = retried[l][j]
          BY <2>6, <4>2, <4>4
        <5> QED BY <4>1, <4>2, <5>1, <5>2
      <4> QED BY <4>3, <4>4
    <3>2. \A l : MaxOf(l)' = MaxOf(l)
      BY <1>1 DEF MaxOf
    <3>3. \A j \in Secrets : TierOf(j)' = TierOf(j)
      BY DEF TierOf
    <3> QED BY <3>1, <3>2, <3>3 DEF CountsKeys
  <2> QED BY <1>4, <2>7, <2>8, <2>9 DEF IInv
<1> QED BY <1>5, <1>6

-----------------------------------------------------------------------------
\* Before Load nothing has been counted.
LEMMA InitIInv == Init => IInv
<1> SUFFICES ASSUME Init PROVE IInv
  OBVIOUS
<1>1. Types
  BY PipelineAssumption DEF Init, Types
<1>2. Serves /\ AllEstablished
  BY DEF Init, Serves, AllEstablished
<1>3. CountsClients
  BY DEF Init, CountsClients
<1>4. CountsKeys
  BY DEF Init, CountsKeys, TierOf, Limiters, Buckets
<1> QED BY <1>1, <1>2, <1>3, <1>4 DEF IInv

\* IInv is inductive.
LEMMA NextIInv == IInv /\ [Next]_vars => IInv'
<1> SUFFICES ASSUME IInv, [Next]_vars PROVE IInv'
  OBVIOUS
<1>1. CASE UNCHANGED vars
  BY <1>1 DEF vars, IInv, Types, Serves, validate, AllEstablished, Established,
              CountsClients, CountsKeys, Spent, TierOf, MaxOf
<1>2. CASE Next
  BY <1>2, LoadStep, IPStep, AuthStep, LimitStep, ScopeStep, DecodeStep, ServeStep,
     LeaveStep, WindowStep DEF Next
<1> QED BY <1>1, <1>2

\* Every reachable state satisfies IInv.
THEOREM Inductive == Spec => []IInv
BY InitIInv, NextIInv, PTL DEF Spec

\* No client exceeds its budget, whatever addresses it forwards (RateLimitIP).
THEOREM ClientsAreLimited == Spec => []ClientBudget
<1>1. IInv => ClientBudget
  BY DEF IInv, CountsClients, Spent, ClientBudget
<1> QED BY Inductive, <1>1, PTL

\* No key exceeds the budget of its tier (RateLimit, validate).
THEOREM KeysAreLimited == Spec => []TierBudget
<1>1. IInv => TierBudget
  <2> SUFFICES ASSUME IInv, up = "serve", cfg.keyOn, NEW k \in Secrets
               PROVE  CASE Row[k].rank = "member"  -> served[k] <= cfg.memberMax
                        [] Row[k].rank = "partner" -> served[k] <= cfg.partnerMax
                        [] OTHER -> TRUE
    BY DEF TierBudget
  <2>1. served[k] <= MaxOf(TierOf(k))
    BY DEF IInv, CountsKeys, Spent
  <2>2. CASE Row[k].rank = "member"
    BY <2>1, <2>2 DEF TierOf, MaxOf
  <2>3. CASE Row[k].rank = "partner"
    BY <2>1, <2>3 DEF TierOf, MaxOf
  <2>4. CASE Row[k].rank \notin {"member", "partner"}
    BY <2>4
  <2> QED BY <2>2, <2>3, <2>4
<1> QED BY Inductive, <1>1, PTL

\* Services run only for requests that were entitled to them (Auth, RequireScope).
THEOREM ServedAreEntitled == Spec => []Entitled
<1>1. IInv => Entitled
  BY DEF IInv, AllEstablished, Established, Entitled
<1> QED BY Inductive, <1>1, PTL

-----------------------------------------------------------------------------
\* What RefusedForOwnTraffic says of the request in a slot.
OwnTraffic(q) ==
  req'[q] # req[q] /\ req'[q] # None /\ req'[q].status = 429 =>
    IF req[q] = None
    THEN LET c == req'[q].client
         IN  passed[c] + retried'["ip"][c] >= cfg.ipMax
    ELSE LET k == req[q].secret
             l == TierOf(k)
         IN  served[k] + retried'[l][k] >= MaxOf(l)

\* A request that is answered otherwise, or goes on, says nothing.
LEMMA NotRefused ==
  ASSUME IInv, NEW q \in Slots, NEW x, req' = [req EXCEPT ![q] = x],
         x = None \/ x.status # 429
  PROVE  \A p \in Slots : OwnTraffic(p)
<1>1. req'[q] = x /\ \A p \in Slots : p # q => req'[p] = req[p]
  BY DEF IInv, Types
<1> QED BY <1>1 DEF OwnTraffic

\* The statuses a request is answered with outside the limiters.
LEMMA OtherStatus ==
  ASSUME NEW r \in Request, r.status \in {None, 400}, NEW status \in {200, 400, 401, 403, 500}
  PROVE  Answered(r, status).status # 429
<1>1. Answered(r, status).status = IF r.status = None THEN status ELSE r.status
  BY AnsweredType
<1> QED BY <1>1, PipelineAssumption

\* A client that RateLimitIP refuses has used up its window.
LEMMA RefusedByIP ==
  ASSUME IInv, NEW q \in Slots, NEW op \in Requested, NEW client \in Clients,
         NEW secret \in Secrets \cup {None},
         NEW sent \in {<<>>} \cup {<<f>> : f \in Clients},
         NEW n \in Runs, RateLimitIP(q, op, client, secret, sent, n)
  PROVE  \A p \in Slots : OwnTraffic(p)
<1> DEFINE next == [st |-> IF op = "Stats" THEN "handler" ELSE "auth", op |-> op,
                    client |-> client, secret |-> secret, status |-> None, called |-> FALSE]
           pass == cfg.ipOn => Allows("ip", client, n)
<1>1. clientIP(RemoteAddr(client), Forwarded(client, sent)) = client
  BY CountedAsClient DEF IInv, Types
<1>2. /\ up = "serve" /\ req[q] = None
      /\ cfg.ipOn => Count("ip", client, n) /\ Retried("ip", client, n)
      /\ req' = [req EXCEPT ![q] = IF pass THEN [next EXCEPT !.client = None]
                                   ELSE Answered(next, 429)]
  BY <1>1 DEF RateLimitIP
<1>3. next \in Request /\ next.status = None /\ next.client = client
  BY PipelineAssumption DEF Request, Secrets
<1> HIDE DEF next
<1>4. CASE pass
  <2> DEFINE x == [next EXCEPT !.client = None]
  <2>1. x.status # 429
    BY <1>3, PipelineAssumption DEF Request
  <2>2. req' = [req EXCEPT ![q] = x]
    BY <1>2, <1>4
  <2> HIDE DEF x
  <2> QED BY <2>1, <2>2, NotRefused
<1>5. CASE ~pass
  <2>1. Answered(next, 429).client = client
    BY <1>3, AnsweredType
  <2>2. req'[q] = Answered(next, 429) /\ \A p \in Slots : p # q => req'[p] = req[p]
    BY <1>2, <1>5 DEF IInv, Types
  <2>3. cfg.ipOn /\ ~Allows("ip", client, n)
    BY <1>5
  <2>4. /\ "ip" \in Limiters /\ client \in Buckets /\ MaxOf("ip") = cfg.ipMax
        /\ cfg.ipMax \in Nat /\ Counted("ip", client, n) = used["ip"][client] + n
        /\ passed[client] \in Nat
        /\ Spent(used["ip"][client], passed[client], retried["ip"][client], MaxOf("ip"))
    BY <1>2, <2>3, ClientBucket
  <2>5. passed[client] + retried'["ip"][client] >= cfg.ipMax
    <3>1. passed[client] + retried'["ip"][client] >= MaxOf("ip")
      BY <1>2, <2>3, <2>4, CountSome
    <3> QED BY <2>4, <3>1
  <2>6. OwnTraffic(q)
    BY <1>2, <2>1, <2>2, <2>5 DEF OwnTraffic
  <2>7. \A p \in Slots : p # q => OwnTraffic(p)
    BY <2>2 DEF OwnTraffic
  <2> QED BY <2>6, <2>7
<1> QED BY <1>4, <1>5

\* A key that RateLimit refuses has used up its window.
LEMMA RefusedByTier ==
  ASSUME IInv, NEW q \in Slots, NEW n \in Runs, RateLimit(q, n)
  PROVE  \A p \in Slots : OwnTraffic(p)
<1> DEFINE r    == req[q]
           k    == r.secret
           tier == TierOf(k)
           on   == cfg.keyOn /\ Row[k].rank # "admin"
           pass == on => Allows(tier, k, n)
           y    == [r EXCEPT !.st = IF r.op \in KeyOps THEN "scope" ELSE "handler"]
<1>1. /\ r # None /\ r.st = "limit"
      /\ on => Count(tier, k, n) /\ Retried(tier, k, n)
      /\ req' = [req EXCEPT ![q] = IF pass THEN y ELSE Answered(r, 429)]
  BY DEF RateLimit
<1>2. /\ r \in Request /\ Established(r) /\ up = "serve" /\ k \in Secrets
      /\ tier \in Limiters /\ k \in Buckets /\ tier \in {"member", "partner"}
      /\ served[k] \in Nat
      /\ on => /\ Counted(tier, k, n) = used[tier][k] + n
               /\ MaxOf(tier) \in Nat
               /\ Spent(used[tier][k], served[k], retried[tier][k], MaxOf(tier))
  BY <1>1, AtLimiter
<1>3. CASE pass
  <2>1. y.status = r.status
    BY <1>2 DEF Request
  <2>2. y.status # 429
    BY <1>1, <1>2, <2>1, PipelineAssumption DEF Established
  <2>3. req' = [req EXCEPT ![q] = y]
    BY <1>1, <1>3
  <2> HIDE DEF y
  <2> QED BY <2>2, <2>3, NotRefused
<1>4. CASE ~pass
  <2>1. req'[q] = Answered(r, 429) /\ \A p \in Slots : p # q => req'[p] = req[p]
    BY <1>1, <1>4 DEF IInv, Types
  <2>2. on /\ ~Allows(tier, k, n)
    BY <1>4
  <2>3. served[k] + retried'[tier][k] >= MaxOf(tier)
    BY <1>1, <1>2, <2>2, CountSome
  <2> QED BY <1>1, <2>1, <2>3 DEF OwnTraffic
<1> QED BY <1>3, <1>4

\* No other step answers 429.
LEMMA RefusedElsewhere ==
  ASSUME IInv, NEW q \in Slots,
         Auth(q) \/ RequireScope(q) \/ Decode(q) \/ Serve(q) \/ Leave(q)
  PROVE  \A p \in Slots : OwnTraffic(p)
<1> DEFINE r == req[q]
<1>1. r # None
  BY DEF Auth, RequireScope, Decode, Serve, Leave
<1>2. r \in Request /\ Established(r)
  BY <1>1, UnderWay
<1>3. ASSUME r.status \in {None, 400}, NEW st, req' = [req EXCEPT ![q] = [r EXCEPT !.st = st]]
      PROVE  \A p \in Slots : OwnTraffic(p)
  <2> DEFINE y == [r EXCEPT !.st = st]
  <2>1. y.status # 429
    BY <1>2, <1>3, PipelineAssumption DEF Request
  <2>2. req' = [req EXCEPT ![q] = y]
    BY <1>3
  <2> HIDE DEF y
  <2> QED BY <2>1, <2>2, NotRefused
<1>4. ASSUME r.status \in {None, 400}, NEW status \in {200, 400, 401, 403, 500},
             req' = [req EXCEPT ![q] = Answered(r, status)]
      PROVE  \A p \in Slots : OwnTraffic(p)
  <2> DEFINE y == Answered(r, status)
  <2>1. y.status # 429
    BY <1>2, <1>4, OtherStatus
  <2>2. req'[q] = y /\ \A p \in Slots : p # q => req'[p] = req[p]
    BY <1>4 DEF IInv, Types
  <2> HIDE DEF y
  <2> QED BY <2>1, <2>2 DEF OwnTraffic
<1>5. CASE Auth(q) \/ RequireScope(q)
  <2>1. r.status \in {None, 400}
    BY <1>2, <1>5 DEF Established, Auth, RequireScope
  <2>2. \/ \E st \in {"limit", "handler"} : req' = [req EXCEPT ![q] = [r EXCEPT !.st = st]]
        \/ \E status \in {401, 403} : req' = [req EXCEPT ![q] = Answered(r, status)]
    BY <1>5 DEF Auth, RequireScope
  <2> QED BY <1>3, <1>4, <2>1, <2>2
<1>6. CASE Decode(q)
  <2> DEFINE s2 == [r EXCEPT !.st = "service", !.status = 400]
             s1 == [r EXCEPT !.st = "service"]
  <2>2. PICK x \in {Answered(r, 400), s1, s2} : req' = [req EXCEPT ![q] = x]
    BY <1>6, Inputs
  <2>3. r.status \in {None, 400}
    BY <1>2, <1>6 DEF Established, Decode
  <2>4. CASE req' = [req EXCEPT ![q] = s2]
    <3>1. s2.status # 429
      BY <1>2 DEF Request
    <3> HIDE DEF s2
    <3> QED BY <2>4, <3>1, NotRefused
  <2>5. CASE req' = [req EXCEPT ![q] = s1]
    BY <1>3, <2>3, <2>5
  <2>6. CASE req' = [req EXCEPT ![q] = Answered(r, 400)]
    BY <1>4, <2>3, <2>6
  <2> HIDE DEF s1, s2
  <2> QED BY <2>2, <2>4, <2>5, <2>6
<1>7. CASE Serve(q)
  <2> DEFINE y == [r EXCEPT !.called = TRUE]
  <2>1. r.status \in {None, 400}
    BY <1>2, <1>7 DEF Established, Serve
  <2>2. \A c \in BOOLEAN : \A x : x = [r EXCEPT !.called = c] =>
          x \in Request /\ x.status = r.status
    BY <1>2 DEF Request
  <2>3. y \in Request /\ y.status = r.status
    BY <2>2
  <2>4. PICK status \in {200, 500} : req' = [req EXCEPT ![q] = Answered(y, status)]
    BY <1>7 DEF Serve
  <2> HIDE DEF y
  <2> DEFINE x == Answered(y, status)
  <2>5. x.status # 429
    BY <2>1, <2>3, OtherStatus
  <2>6. req'[q] = x /\ \A p \in Slots : p # q => req'[p] = req[p]
    BY <2>4 DEF IInv, Types
  <2> HIDE DEF x
  <2> QED BY <2>5, <2>6 DEF OwnTraffic
<1>8. CASE Leave(q)
  BY <1>8, NotRefused DEF Leave
<1> QED BY <1>5, <1>6, <1>7, <1>8

(***************************************************************************)
(* Whoever is refused has used up its window itself, with what the limiter *)
(* let pass of it and with what a script that was run again counted it     *)
(* more than once (clientIP, RateLimit, validate).                         *)
(***************************************************************************)
THEOREM RefusalsAreOwn == Spec => RefusedForOwnTraffic
<1> DEFINE A == \A q \in Slots :
                  req'[q] # req[q] /\ req'[q] # None /\ req'[q].status = 429 =>
                    IF req[q] = None
                    THEN LET c == req'[q].client
                         IN  passed[c] + retried'["ip"][c] >= cfg.ipMax
                    ELSE LET k == req[q].secret
                             l == TierOf(k)
                         IN  served[k] + retried'[l][k] >= MaxOf(l)
<1>1. IInv /\ [Next]_vars => [A]_vars
  <2> SUFFICES ASSUME IInv, Next PROVE \A q \in Slots : OwnTraffic(q)
    BY DEF OwnTraffic
  <2>1. CASE req' = req
    BY <2>1 DEF OwnTraffic
  <2>2. CASE req' # req
    BY <2>2, RefusedByIP, RefusedByTier, RefusedElsewhere DEF Next, Load, WindowEnds
  <2> QED BY <2>1, <2>2
<1> QED BY Inductive, <1>1, PTL DEF Spec, RefusedForOwnTraffic
=============================================================================
