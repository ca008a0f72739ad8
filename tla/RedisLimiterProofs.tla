------------------------- MODULE RedisLimiterProofs -------------------------
(***************************************************************************)
(* The properties of RedisLimiter for any number of processes and keys,    *)
(* any limit, window and resolution of the clock.  IInv is inductive.      *)
(***************************************************************************)
EXTENDS RedisLimiter, FiniteSetTheorems, TLAPS

\* An admission as the log has it.
Admission == [by : Processes \cup {"redis"}, at : Nat]

Types ==
  /\ now \in Nat
  /\ redis \in [Keys -> Counter \cup {None}]
  /\ fallback \in [Processes -> [Keys -> Bucket \cup {None}]]
  /\ log \in [Keys -> Seq(Admission)]
  /\ retryAt \in [Keys -> Nat \cup {None}]
  /\ flushes \in Nat
  /\ evictions \in [Processes -> [Keys -> Nat]]

\* The log holds no time that is still to come.
Past == \A k \in Keys : \A j \in DOMAIN log[k] : log[k][j].at <= now

\* A counter that Redis has is running, and ends at most half a second after a
\* client that it refused was told to come back.
Expires ==
  \A k \in Keys : redis[k] # None =>
    /\ redis[k].expireAt > now /\ redis[k].expireAt <= now + ttl
    /\ retryAt[k] # None => redis[k].expireAt <= retryAt[k] + Second \div 2

-----------------------------------------------------------------------------
\* The admissions in h by one limiter since t, and those of them up to a time.
Since(h, who, t) == {j \in DOMAIN h : h[j].by = who /\ h[j].at >= t}
Within(h, who, from, to) == {j \in DOMAIN h : h[j].by = who /\ h[j].at \in from..to}

\* What a count says about admissions: the rest are refused.
Capped(n) == IF n > Max THEN Max ELSE n

(***************************************************************************)
(* A window of length T that began at start has admitted at most c, and m  *)
(* were admitted in the stretch of that length before it.  Stated from the *)
(* present backwards, so that it does not matter which window admitted.    *)
(***************************************************************************)
Paced(h, who, start, T, c, m) ==
  \A t \in Int :
    /\ t > start => Cardinality(Since(h, who, t)) <= c
    /\ t > start - T => Cardinality(Since(h, who, t)) <= c + m

\* No stretch of length T has more than n admissions.
Budget(h, who, T, n) ==
  \A t \in Int : Cardinality(Within(h, who, t, t + T - 1)) <= n

\* Redis, with its counter c at a time: every counter that it lost may have
\* left a window's worth behind.
KeyPaced(c, h, time, lost) ==
  /\ c # None =>
       Paced(h, "redis", c.expireAt - ttl, ttl, Capped(c.count), (1 + lost) * Max)
  /\ c = None =>
       \A t \in Int : t > time - ttl => Cardinality(Since(h, "redis", t)) <= (1 + lost) * Max
  /\ Budget(h, "redis", ttl, (2 + lost) * Max)

RedisPaced == \A k \in Keys : KeyPaced(redis[k], log[k], now, flushes)

IInv == Types /\ Past /\ Expires /\ RedisPaced

-----------------------------------------------------------------------------
(***************************************************************************)
(* Arithmetic.                                                             *)
(***************************************************************************)
LEMMA Division ==
  ASSUME NEW n \in Int, NEW s \in Nat \ {0}
  PROVE  n \div s \in Int /\ s * (n \div s) <= n /\ n < s * (n \div s) + s
OBVIOUS

\* EXPIRE is given at least one second.
LEMMA TtlPositive == ttl \in Nat \ {0}
<1>1. Window \in Nat \ {0} /\ Second \in Nat \ {0}
  BY RedisAssumption
<1>2. CASE Window < Second
  BY <1>1, <1>2 DEF ttl
<1>3. CASE Window >= Second
  <2> DEFINE q == Window \div Second
  <2>1. q \in Int /\ Second * q <= Window /\ Window < Second * q + Second
    BY <1>1, Division
  <2>2. q * Second = Second * q /\ Second * q \in Int
    BY <1>1, <2>1
  <2>3. Second * q > 0
    BY <1>1, <1>3, <2>1, <2>2
  <2> QED BY <1>1, <1>3, <2>2, <2>3 DEF ttl
<1> QED BY <1>1, <1>2, <1>3

\* Rounding TTL to the nearest second loses at most half a second.
LEMMA Rounding ==
  ASSUME NEW rest \in Nat, NEW secs, secs = (rest + Second \div 2) \div Second
  PROVE  RetryAfter(secs) \in Nat /\ rest <= RetryAfter(secs) + Second \div 2
<1>1. Second \in Nat \ {0}
  BY RedisAssumption
<1> DEFINE half == Second \div 2
<1>2. half \in Nat /\ 2 * half <= Second /\ Second <= 2 * half + 1
  BY <1>1
<1> HIDE DEF half
<1>3. /\ secs \in Int /\ Second * secs <= rest + half /\ rest + half < Second * secs + Second
      /\ Second * secs \in Int
  BY <1>1, <1>2, Division DEF half
<1>4. rest <= Second * secs + half
  BY <1>1, <1>2, <1>3
<1>5. CASE secs < 1
  <2>1. Second * secs <= 0
    BY <1>1, <1>3, <1>5
  <2>2. RetryAfter(secs) = Second
    BY <1>1, <1>5 DEF RetryAfter
  <2> QED BY <1>1, <1>2, <1>4, <2>1, <2>2 DEF half
<1>6. CASE secs >= 1
  <2>1. RetryAfter(secs) = Second * secs
    BY <1>3, <1>6 DEF RetryAfter
  <2>2. Second * secs >= 0
    BY <1>1, <1>3, <1>6
  <2> QED BY <1>2, <1>3, <1>4, <2>1, <2>2 DEF half
<1> QED BY <1>3, <1>5, <1>6

-----------------------------------------------------------------------------
(***************************************************************************)
(* Counting admissions.                                                    *)
(***************************************************************************)
LEMMA TimesAreNumbers ==
  ASSUME NEW h \in Seq(Admission)
  PROVE  \A j \in DOMAIN h : h[j].at \in Nat
<1>1. \A j \in DOMAIN h : h[j] \in Admission
  OBVIOUS
<1> QED BY <1>1 DEF Admission

\* A history has finitely many admissions.
LEMMA Finite ==
  ASSUME NEW h \in Seq(Admission), NEW who, NEW from, NEW to
  PROVE  /\ IsFiniteSet(Since(h, who, from)) /\ IsFiniteSet(Within(h, who, from, to))
         /\ Cardinality(Since(h, who, from)) \in Nat
         /\ Cardinality(Within(h, who, from, to)) \in Nat
<1>1. DOMAIN h = 1..Len(h) /\ Len(h) \in Nat
  OBVIOUS
<1>2. IsFiniteSet(DOMAIN h)
  BY <1>1, FS_Interval
<1>3. Since(h, who, from) \subseteq DOMAIN h /\ Within(h, who, from, to) \subseteq DOMAIN h
  BY DEF Since, Within
<1>4. IsFiniteSet(Since(h, who, from)) /\ IsFiniteSet(Within(h, who, from, to))
  BY <1>2, <1>3, FS_Subset
<1> QED BY <1>4, FS_CardinalityType

\* A stretch has no more admissions than there were since it began.
LEMMA WithinSince ==
  ASSUME NEW h \in Seq(Admission), NEW who, NEW from \in Int, NEW to \in Int
  PROVE  Cardinality(Within(h, who, from, to)) <= Cardinality(Since(h, who, from))
<1>1. \A j \in DOMAIN h : h[j].at \in Nat
  BY TimesAreNumbers
<1>2. Within(h, who, from, to) \subseteq Since(h, who, from)
  BY <1>1 DEF Within, Since
<1> QED BY <1>2, Finite, FS_Subset

\* What one more admission adds.
LEMMA OneMore ==
  ASSUME NEW h \in Seq(Admission), NEW a \in Admission, NEW who, NEW from \in Int, NEW to \in Int
  PROVE  /\ Append(h, a) \in Seq(Admission)
         /\ Cardinality(Since(Append(h, a), who, from)) <= Cardinality(Since(h, who, from)) + 1
         /\ a.by # who \/ a.at < from => Since(Append(h, a), who, from) = Since(h, who, from)
         /\ a.by # who \/ a.at \notin from..to =>
              Within(Append(h, a), who, from, to) = Within(h, who, from, to)
<1> DEFINE g == Append(h, a)
           n == Len(h) + 1
<1>1. /\ g \in Seq(Admission) /\ DOMAIN g = DOMAIN h \cup {n} /\ n \notin DOMAIN h
      /\ g[n] = a /\ \A j \in DOMAIN h : g[j] = h[j]
  OBVIOUS
<1>2. a.at \in Nat
  BY DEF Admission
<1> HIDE DEF g, n
<1>3. a.by # who \/ a.at < from => Since(g, who, from) = Since(h, who, from)
  BY <1>1, <1>2 DEF Since
<1>4. a.by # who \/ a.at \notin from..to => Within(g, who, from, to) = Within(h, who, from, to)
  BY <1>1, <1>2 DEF Within
<1>5. Cardinality(Since(g, who, from)) <= Cardinality(Since(h, who, from)) + 1
  <2>1. /\ IsFiniteSet(Since(h, who, from)) /\ Cardinality(Since(h, who, from)) \in Nat
        /\ IsFiniteSet(Since(g, who, from)) /\ Cardinality(Since(g, who, from)) \in Nat
    BY <1>1, Finite
  <2> DEFINE A == Since(h, who, from) \cup {n}
  <2>2. /\ IsFiniteSet(A)
        /\ Cardinality(A) \in {Cardinality(Since(h, who, from)), Cardinality(Since(h, who, from)) + 1}
    BY <2>1, FS_AddElement
  <2>3. Since(g, who, from) \subseteq A
    BY <1>1 DEF Since
  <2> HIDE DEF A
  <2>4. Cardinality(Since(g, who, from)) <= Cardinality(A)
    BY <2>2, <2>3, FS_Subset
  <2> QED BY <2>1, <2>2, <2>4
<1> QED BY <1>1, <1>3, <1>4, <1>5 DEF g

\* A window that is full in neither sense.
LEMMA PacedMore ==
  ASSUME NEW h \in Seq(Admission), NEW who, NEW start \in Int, NEW T \in Nat,
         NEW c \in Nat, NEW m \in Nat, NEW d \in Nat, c <= d,
         Paced(h, who, start, T, c, m)
  PROVE  Paced(h, who, start, T, d, m)
<1> SUFFICES ASSUME NEW t \in Int
             PROVE  /\ t > start => Cardinality(Since(h, who, t)) <= d
                    /\ t > start - T => Cardinality(Since(h, who, t)) <= d + m
  BY DEF Paced
<1>1. Cardinality(Since(h, who, t)) \in Nat
  BY Finite
<1> QED BY <1>1 DEF Paced

\* An admission that is counted keeps the pace.
LEMMA PacedAppend ==
  ASSUME NEW h \in Seq(Admission), NEW a \in Admission, NEW start \in Int, NEW T \in Nat,
         NEW c \in Nat, NEW m \in Nat, Paced(h, a.by, start, T, c, m)
  PROVE  Paced(Append(h, a), a.by, start, T, c + 1, m)
<1> SUFFICES ASSUME NEW t \in Int
             PROVE  /\ t > start => Cardinality(Since(Append(h, a), a.by, t)) <= c + 1
                    /\ t > start - T => Cardinality(Since(Append(h, a), a.by, t)) <= c + 1 + m
  BY DEF Paced
<1>1. /\ Cardinality(Since(h, a.by, t)) \in Nat
      /\ Cardinality(Since(Append(h, a), a.by, t)) <= Cardinality(Since(h, a.by, t)) + 1
      /\ Cardinality(Since(Append(h, a), a.by, t)) \in Nat
  BY Finite, OneMore
<1> QED BY <1>1 DEF Paced

\* An admission by another limiter does not matter.
LEMMA PacedOther ==
  ASSUME NEW h \in Seq(Admission), NEW a \in Admission, NEW who, a.by # who,
         NEW start \in Int, NEW T \in Nat, NEW c \in Nat, NEW m \in Nat,
         Paced(h, who, start, T, c, m)
  PROVE  Paced(Append(h, a), who, start, T, c, m)
<1>1. \A t \in Int : Since(Append(h, a), who, t) = Since(h, who, t)
  BY OneMore
<1> QED BY <1>1 DEF Paced

\* Nor does it matter to the budget.
LEMMA BudgetOther ==
  ASSUME NEW h \in Seq(Admission), NEW a \in Admission, NEW who, a.by # who,
         NEW T \in Nat, NEW n \in Nat, Budget(h, who, T, n)
  PROVE  Budget(Append(h, a), who, T, n)
<1>1. \A t \in Int : Within(Append(h, a), who, t, t + T - 1) = Within(h, who, t, t + T - 1)
  <2>1. \A t \in Int : t + T - 1 \in Int
    OBVIOUS
  <2> QED BY <2>1, OneMore
<1> QED BY <1>1 DEF Budget

\* A window that is not full has room in every stretch that it is part of.
LEMMA BudgetAppend ==
  ASSUME NEW h \in Seq(Admission), NEW a \in Admission, NEW start \in Int, NEW T \in Nat,
         NEW c \in Nat, NEW m \in Nat, NEW n \in Nat,
         Paced(h, a.by, start, T, c, m), start <= a.at, c + 1 + m <= n, Budget(h, a.by, T, n)
  PROVE  Budget(Append(h, a), a.by, T, n)
<1> SUFFICES ASSUME NEW t \in Int
             PROVE  Cardinality(Within(Append(h, a), a.by, t, t + T - 1)) <= n
  BY DEF Budget
<1>0. a.at \in Nat /\ Append(h, a) \in Seq(Admission) /\ t + T - 1 \in Int
  BY DEF Admission
<1>1. CASE a.at \in t..(t + T - 1)
  <2>1. t > start - T
    BY <1>0, <1>1
  <2>2. Cardinality(Since(h, a.by, t)) <= c + m
    BY <2>1 DEF Paced
  <2>3. /\ Cardinality(Since(h, a.by, t)) \in Nat
        /\ Cardinality(Since(Append(h, a), a.by, t)) \in Nat
        /\ Cardinality(Within(Append(h, a), a.by, t, t + T - 1)) \in Nat
    BY <1>0, Finite
  <2>4. Cardinality(Since(Append(h, a), a.by, t)) <= Cardinality(Since(h, a.by, t)) + 1
    BY OneMore
  <2>5. Cardinality(Within(Append(h, a), a.by, t, t + T - 1))
          <= Cardinality(Since(Append(h, a), a.by, t))
    BY <1>0, WithinSince
  <2> QED BY <2>2, <2>3, <2>4, <2>5
<1>2. CASE a.at \notin t..(t + T - 1)
  <2>1. Within(Append(h, a), a.by, t, t + T - 1) = Within(h, a.by, t, t + T - 1)
    BY <1>0, <1>2, OneMore
  <2> QED BY <2>1 DEF Budget
<1> QED BY <1>1, <1>2

\* A window that begins now, after the admissions of h.
LEMMA PacedNew ==
  ASSUME NEW h \in Seq(Admission), NEW who, NEW start \in Int, NEW T \in Nat, NEW m \in Nat,
         \A j \in DOMAIN h : h[j].at <= start,
         \A t \in Int : t > start - T => Cardinality(Since(h, who, t)) <= m
  PROVE  Paced(h, who, start, T, 0, m)
<1> SUFFICES ASSUME NEW t \in Int
             PROVE  /\ t > start => Cardinality(Since(h, who, t)) <= 0
                    /\ t > start - T => Cardinality(Since(h, who, t)) <= 0 + m
  BY DEF Paced
<1>1. CASE t > start
  <2>1. Since(h, who, t) = {}
    <3>1. \A j \in DOMAIN h : h[j].at \in Nat
      BY TimesAreNumbers
    <3> QED BY <1>1, <3>1 DEF Since
  <2>2. Cardinality(Since(h, who, t)) = 0
    BY <2>1, FS_EmptySet
  <2> QED BY <1>1, <2>2
<1>2. CASE ~(t > start)
  BY <1>2
<1> QED BY <1>1, <1>2

-----------------------------------------------------------------------------
(***************************************************************************)
(* The steps of Redis.                                                     *)
(***************************************************************************)
LEMMA Budgets ==
  ASSUME Types
  PROVE  /\ (1 + flushes) * Max \in Nat /\ (2 + flushes) * Max \in Nat
         /\ (2 + flushes) * Max = (1 + flushes) * Max + Max
         /\ Max \in Nat \ {0}
<1>1. Max \in Nat \ {0} /\ flushes \in Nat
  BY RedisAssumption DEF Types
<1> QED BY <1>1

\* What the script leaves, and that it does not move the end of a window.
LEMMA Script ==
  ASSUME IInv, NEW k \in Keys
  PROVE  /\ allowScript(k) \in Counter
         /\ allowScript(k).expireAt > now /\ allowScript(k).expireAt <= now + ttl
         /\ redis[k] = None => allowScript(k).count = 1 /\ allowScript(k).expireAt = now + ttl
         /\ redis[k] # None => /\ redis[k] \in Counter
                               /\ allowScript(k).expireAt = redis[k].expireAt
                               /\ allowScript(k).count = INCR(redis[k].count)
<1> DEFINE c == allowScript(k)
<1>0. now \in Nat /\ ttl \in Nat \ {0} /\ Max \in Nat \ {0}
  BY TtlPositive, RedisAssumption DEF IInv, Types
<1>1. CASE redis[k] = None
  <2>1. c = [count |-> 1, expireAt |-> now + ttl]
    BY <1>1 DEF allowScript
  <2> QED BY <1>0, <1>1, <2>1 DEF Counter
<1>2. CASE redis[k] # None
  <2>1. redis[k] \in Counter /\ redis[k].expireAt > now /\ redis[k].expireAt <= now + ttl
    BY <1>2 DEF IInv, Types, Expires
  <2> DEFINE n == INCR(redis[k].count)
  <2>2. n \in 1..(Max + 1)
    BY <1>0, <2>1 DEF Counter, INCR
  <2>3. c = [redis[k] EXCEPT !.count = n]
    BY <1>2 DEF allowScript
  <2> HIDE DEF n
  <2>4. c \in Counter /\ c.expireAt = redis[k].expireAt /\ c.count = n
    BY <2>1, <2>2, <2>3 DEF Counter
  <2> QED BY <1>2, <2>1, <2>4 DEF n
<1> QED BY <1>1, <1>2

\* What was admitted in the window that the script counts in, before this request.
LEMMA ScriptPaced ==
  ASSUME IInv, NEW k \in Keys
  PROVE  LET c == allowScript(k) IN
         /\ c.count <= Max => Paced(log[k], "redis", c.expireAt - ttl, ttl, c.count - 1, (1 + flushes) * Max)
         /\ Paced(log[k], "redis", c.expireAt - ttl, ttl, Capped(c.count), (1 + flushes) * Max)
<1> DEFINE c == allowScript(k)
           m == (1 + flushes) * Max
           start == c.expireAt - ttl
<1>0. /\ now \in Nat /\ ttl \in Nat /\ m \in Nat /\ Max \in Nat \ {0} /\ log[k] \in Seq(Admission)
      /\ c \in Counter /\ start \in Int /\ c.count \in 1..(Max + 1)
  BY Budgets, TtlPositive, Script DEF IInv, Types, Counter
<1>1. KeyPaced(redis[k], log[k], now, flushes)
  BY DEF IInv, RedisPaced
<1>2. CASE redis[k] = None
  <2>1. c.count = 1 /\ start = now
    BY <1>0, <1>2, Script
  <2>2. Paced(log[k], "redis", start, ttl, 0, m)
    <3>1. \A j \in DOMAIN log[k] : log[k][j].at <= start
      BY <2>1 DEF IInv, Past
    <3>2. \A t \in Int : t > start - ttl => Cardinality(Since(log[k], "redis", t)) <= m
      BY <1>1, <1>2, <2>1 DEF KeyPaced
    <3> HIDE DEF start, m, c
    <3> QED BY <1>0, <3>1, <3>2, PacedNew
  <2> HIDE DEF start, m, c
  <2>3. Paced(log[k], "redis", start, ttl, 1, m)
    BY <1>0, <2>2, PacedMore
  <2> QED BY <1>0, <2>1, <2>2, <2>3 DEF Capped, start, m, c
<1>3. CASE redis[k] # None
  <2> DEFINE n == redis[k].count
  <2>1. c.count = INCR(n) /\ start = redis[k].expireAt - ttl /\ n \in 1..(Max + 1)
    BY <1>0, <1>3, Script DEF Counter
  <2>2. Paced(log[k], "redis", start, ttl, Capped(n), m)
    BY <1>1, <1>3, <2>1 DEF KeyPaced
  <2> HIDE DEF start, m, c, n
  <2>3. c.count <= Max => Capped(n) = c.count - 1
    BY <1>0, <2>1 DEF INCR, Capped
  <2>4. Capped(n) \in Nat /\ Capped(c.count) \in Nat /\ Capped(n) <= Capped(c.count)
    BY <1>0, <2>1 DEF INCR, Capped
  <2>5. Paced(log[k], "redis", start, ttl, Capped(c.count), m)
    BY <1>0, <2>2, <2>4, PacedMore
  <2> QED BY <2>2, <2>3, <2>5 DEF start, m, c
<1> QED BY <1>2, <1>3

\* The script has run and nobody was admitted.
LEMMA RefusedStep ==
  ASSUME IInv, NEW k \in Keys, redis' = [redis EXCEPT ![k] = allowScript(k)],
         UNCHANGED <<now, fallback, log, flushes, evictions>>, NEW told \in Nat \cup {None},
         retryAt' = [retryAt EXCEPT ![k] = told],
         told # None => allowScript(k).expireAt <= told + Second \div 2
  PROVE  IInv'
<1> DEFINE c == allowScript(k)
<1>1. /\ c \in Counter /\ c # None /\ c.expireAt > now /\ c.expireAt <= now + ttl
      /\ redis'[k] = c /\ retryAt'[k] = told
      /\ \A j \in Keys : j # k => redis'[j] = redis[j] /\ retryAt'[j] = retryAt[j]
  BY Script, RedisAssumption DEF IInv, Types
<1>2. Paced(log[k], "redis", c.expireAt - ttl, ttl, Capped(c.count), (1 + flushes) * Max)
  BY ScriptPaced
<1> HIDE DEF c
<1>3. Types' /\ Past'
  <2>1. redis' \in [Keys -> Counter \cup {None}]
    BY <1>1 DEF IInv, Types, c
  <2>2. retryAt' \in [Keys -> Nat \cup {None}]
    BY DEF IInv, Types
  <2> QED BY <2>1, <2>2 DEF IInv, Types, Past
<1>4. Expires'
  <2>1. ASSUME NEW j \in Keys, redis'[j] # None
        PROVE  /\ redis'[j].expireAt > now /\ redis'[j].expireAt <= now + ttl
               /\ retryAt'[j] # None => redis'[j].expireAt <= retryAt'[j] + Second \div 2
    <3>1. CASE j = k
      BY <1>1, <3>1 DEF c
    <3>2. CASE j # k
      BY <1>1, <2>1, <3>2 DEF IInv, Expires
    <3> QED BY <3>1, <3>2
  <2> QED BY <2>1 DEF Expires, ttl
<1>5. RedisPaced'
  <2>1. ASSUME NEW j \in Keys PROVE KeyPaced(redis'[j], log[j], now, flushes)
    <3>1. KeyPaced(redis[j], log[j], now, flushes)
      BY DEF IInv, RedisPaced
    <3>2. CASE j = k
      BY <1>1, <1>2, <3>1, <3>2 DEF KeyPaced
    <3>3. CASE j # k
      BY <1>1, <3>1, <3>3
    <3> QED BY <3>2, <3>3
  <2> QED BY <2>1 DEF RedisPaced
<1> QED BY <1>3, <1>4, <1>5 DEF IInv

\* The log of one key gets one more entry, of this moment.
LEMMA LogGrows ==
  ASSUME IInv, NEW k \in Keys, NEW who \in Processes \cup {"redis"},
         Admitted(k, who), UNCHANGED now
  PROVE  /\ log' \in [Keys -> Seq(Admission)] /\ Past'
         /\ [by |-> who, at |-> now] \in Admission
         /\ log'[k] = Append(log[k], [by |-> who, at |-> now])
         /\ \A j \in Keys : log[j] \in Seq(Admission) /\ (j # k => log'[j] = log[j])
<1> DEFINE a == [by |-> who, at |-> now]
<1>1. now \in Nat /\ log \in [Keys -> Seq(Admission)] /\ a \in Admission
  BY DEF IInv, Types, Admission
<1>2. log' = [log EXCEPT ![k] = Append(log[k], a)]
  BY DEF Admitted
<1> HIDE DEF a
<1>3. /\ log' \in [Keys -> Seq(Admission)] /\ log'[k] = Append(log[k], a)
      /\ \A j \in Keys : log[j] \in Seq(Admission) /\ (j # k => log'[j] = log[j])
  BY <1>1, <1>2
<1>4. Past'
  <2>1. ASSUME NEW j \in Keys, NEW i \in DOMAIN log'[j] PROVE log'[j][i].at <= now
    <3>1. CASE j # k
      BY <1>3, <2>1, <3>1 DEF IInv, Past
    <3>2. CASE j = k /\ i = Len(log[k]) + 1
      <4>1. log'[j][i] = a
        BY <1>3, <3>2
      <4> QED BY <1>1, <4>1 DEF a
    <3>3. CASE j = k /\ i # Len(log[k]) + 1
      <4>1. i \in DOMAIN log[k] /\ log'[j][i] = log[k][i]
        BY <1>1, <1>3, <2>1, <3>3
      <4> QED BY <4>1 DEF IInv, Past
    <3> QED BY <3>1, <3>2, <3>3
  <2> QED BY <2>1 DEF Past
<1> QED BY <1>1, <1>3, <1>4 DEF a

\* Redis admits.
LEMMA AdmittedStep ==
  ASSUME IInv, NEW k \in Keys, redis' = [redis EXCEPT ![k] = allowScript(k)],
         allowScript(k).count <= Max, Admitted(k, "redis"),
         UNCHANGED <<now, fallback, flushes, evictions>>,
         retryAt' = [retryAt EXCEPT ![k] = IF redis[k] = None THEN None ELSE @]
  PROVE  IInv'
<1> DEFINE c == allowScript(k)
           a == [by |-> "redis", at |-> now]
           m == (1 + flushes) * Max
           start == c.expireAt - ttl
<1>1. /\ c \in Counter /\ c # None /\ c.expireAt > now /\ c.expireAt <= now + ttl
      /\ redis'[k] = c /\ \A j \in Keys : j # k => redis'[j] = redis[j]
  BY Script, RedisAssumption DEF IInv, Types
<1>2. /\ log' \in [Keys -> Seq(Admission)] /\ Past' /\ a \in Admission
      /\ log'[k] = Append(log[k], a)
      /\ \A j \in Keys : log[j] \in Seq(Admission) /\ (j # k => log'[j] = log[j])
  BY LogGrows
<1>3. /\ m \in Nat /\ (2 + flushes) * Max \in Nat /\ (2 + flushes) * Max = m + Max
      /\ Max \in Nat \ {0} /\ ttl \in Nat /\ start \in Int /\ start <= now
      /\ c.count \in 1..Max /\ a.by = "redis" /\ a.at = now
  <2>1. /\ m \in Nat /\ (2 + flushes) * Max \in Nat /\ (2 + flushes) * Max = m + Max
        /\ Max \in Nat \ {0} /\ ttl \in Nat
    BY Budgets, TtlPositive DEF IInv
  <2>2. now \in Nat /\ c.expireAt \in Nat /\ c.count \in 1..(Max + 1) /\ c.count <= Max
    BY <1>1 DEF IInv, Types, Counter
  <2> HIDE DEF c, m
  <2>3. start \in Int /\ start <= now /\ c.count \in 1..Max
    BY <1>1, <2>1, <2>2
  <2> QED BY <2>1, <2>3
<1>4. Paced(log[k], "redis", start, ttl, c.count - 1, m)
  BY <1>3, ScriptPaced
<1>5. redis' \in [Keys -> Counter \cup {None}] /\ retryAt' \in [Keys -> Nat \cup {None}]
  <2>1. redis' \in [Keys -> Counter \cup {None}]
    BY <1>1 DEF IInv, Types
  <2>2. retryAt' \in [Keys -> Nat \cup {None}]
    BY DEF IInv, Types
  <2> QED BY <2>1, <2>2
<1>6. Expires'
  <2>1. ASSUME NEW j \in Keys, redis'[j] # None
        PROVE  /\ redis'[j].expireAt > now /\ redis'[j].expireAt <= now + ttl
               /\ retryAt'[j] # None => redis'[j].expireAt <= retryAt'[j] + Second \div 2
    <3>1. CASE j = k
      <4>1. redis'[k].expireAt > now /\ redis'[k].expireAt <= now + ttl
        BY <1>1
      <4>2. ASSUME retryAt'[k] # None
            PROVE  redis'[k].expireAt <= retryAt'[k] + Second \div 2
        <5>1. redis[k] # None /\ retryAt'[k] = retryAt[k]
          BY <4>2 DEF IInv, Types
        <5>2. c.expireAt = redis[k].expireAt
          BY <5>1, Script
        <5> QED BY <1>1, <4>2, <5>1, <5>2 DEF IInv, Expires
      <4> QED BY <3>1, <4>1, <4>2
    <3>2. CASE j # k
      <4>1. retryAt'[j] = retryAt[j]
        BY <3>2 DEF IInv, Types
      <4> QED BY <1>1, <2>1, <3>2, <4>1 DEF IInv, Expires
    <3> QED BY <3>1, <3>2
  <2> QED BY <2>1 DEF Expires, ttl
<1>7. RedisPaced'
  <2>1. ASSUME NEW j \in Keys PROVE KeyPaced(redis'[j], log'[j], now, flushes)
    <3>1. KeyPaced(redis[j], log[j], now, flushes)
      BY DEF IInv, RedisPaced
    <3>2. CASE j = k
      <4> DEFINE b == c.count - 1
      <4>1. b \in Nat /\ b + 1 = c.count /\ b + 1 + m <= (2 + flushes) * Max /\ Capped(c.count) = c.count
        BY <1>3 DEF Capped
      <4>2. Budget(log[k], a.by, ttl, (2 + flushes) * Max) /\ Paced(log[k], a.by, start, ttl, b, m)
        BY <1>3, <1>4, <3>1, <3>2 DEF KeyPaced
      <4>3. log[k] \in Seq(Admission) /\ start <= a.at
        BY <1>2, <1>3
      <4> HIDE DEF a, b, c, start, m
      <4>4. Paced(Append(log[k], a), a.by, start, ttl, b + 1, m)
        BY <1>2, <1>3, <4>1, <4>2, <4>3, PacedAppend
      <4>5. Budget(Append(log[k], a), a.by, ttl, (2 + flushes) * Max)
        BY <1>2, <1>3, <4>1, <4>2, <4>3, BudgetAppend
      <4>6. /\ Paced(log'[k], "redis", c.expireAt - ttl, ttl, Capped(c.count), (1 + flushes) * Max)
            /\ Budget(log'[k], "redis", ttl, (2 + flushes) * Max)
        BY <1>2, <1>3, <4>1, <4>4, <4>5 DEF start, m
      <4> QED BY <1>1, <3>2, <4>6 DEF KeyPaced
    <3>3. CASE j # k
      BY <1>1, <1>2, <3>1, <3>3
    <3> QED BY <3>2, <3>3
  <2> QED BY <2>1 DEF RedisPaced
<1> QED BY <1>2, <1>5, <1>6, <1>7 DEF IInv, Types

\* The script, with and without its reply, keeps IInv.
LEMMA AllowStep ==
  ASSUME IInv, NEW k \in Keys, Allow(k) \/ ReplyLost(k)
  PROVE  IInv'
<1> DEFINE c == allowScript(k)
<1>1. /\ c \in Counter /\ c.expireAt > now
      /\ redis[k] # None => c.expireAt = redis[k].expireAt
      /\ redis[k] = None => c.count = 1
  BY Script
<1>2. CASE ReplyLost(k) \/ (Allow(k) /\ ~(c.count > Max))
  <2> DEFINE told == IF redis[k] = None THEN None ELSE retryAt[k]
  <2>1. /\ redis' = [redis EXCEPT ![k] = c] /\ retryAt' = [retryAt EXCEPT ![k] = told]
        /\ UNCHANGED <<now, fallback, flushes, evictions>>
        /\ UNCHANGED log \/ (c.count <= Max /\ Admitted(k, "redis"))
    BY <1>2 DEF ReplyLost, Allow
  <2>2. /\ told \in Nat \cup {None}
        /\ told # None => c.expireAt <= told + Second \div 2
    BY <1>1 DEF IInv, Types, Expires
  <2>3. CASE UNCHANGED log
    <3> HIDE DEF told
    <3> QED BY <2>1, <2>2, <2>3, RefusedStep
  <2>4. CASE c.count <= Max /\ Admitted(k, "redis")
    BY <2>1, <2>4, AdmittedStep
  <2> QED BY <2>1, <2>3, <2>4
<1>3. CASE Allow(k) /\ c.count > Max
  <2> DEFINE rest == c.expireAt - now
             told == now + RetryAfter(TTL(c))
  <2>0. now \in Nat /\ c.expireAt \in Nat /\ c.count \in Nat /\ Max \in Nat \ {0}
    BY <1>1, RedisAssumption DEF IInv, Types, Counter
  <2>1. /\ redis' = [redis EXCEPT ![k] = c] /\ retryAt' = [retryAt EXCEPT ![k] = told]
        /\ UNCHANGED <<now, fallback, log, flushes, evictions>>
    BY <1>3, <2>0 DEF Allow
  <2>2. rest \in Nat /\ TTL(c) = (rest + Second \div 2) \div Second
    BY <1>1, <2>0 DEF TTL
  <2>3. RetryAfter(TTL(c)) \in Nat /\ rest <= RetryAfter(TTL(c)) + Second \div 2
    BY <2>2, Rounding
  <2>4. told \in Nat \cup {None} /\ c.expireAt <= told + Second \div 2
    <3>1. Second \div 2 \in Int
      BY RedisAssumption
    <3> QED BY <2>0, <2>3, <3>1
  <2> HIDE DEF told
  <2> QED BY <2>1, <2>4, RefusedStep
<1> QED BY <1>2, <1>3

-----------------------------------------------------------------------------
(***************************************************************************)
(* The limiter of a process.                                               *)
(***************************************************************************)
LEMMA EnteredTypes ==
  ASSUME IInv, NEW p \in Processes, NEW k \in Keys, NEW b \in Memory(p)!Entered(k)
  PROVE  /\ b \in [Keys -> Bucket \cup {None}] /\ b[k] \in Bucket
         /\ b[k] = IF fallback[p][k] # None THEN fallback[p][k]
                   ELSE [count |-> 0, resetAt |-> now + Window]
         /\ \A j \in Keys : j # k => b[j] \in {fallback[p][j], None}
<1> DEFINE B == [Keys -> Bucket \cup {None}]
           new == [count |-> 0, resetAt |-> now + Window]
<1>1. fallback[p] \in B /\ new \in Bucket
  BY RedisAssumption DEF IInv, Types, Bucket
<1>2. CASE fallback[p][k] # None
  BY <1>1, <1>2 DEF Memory!Entered
<1>3. CASE fallback[p][k] = None
  <2> DEFINE q == Memory(p)!purge(fallback[p])
  <2>1. q \in B /\ \A j \in Keys : q[j] \in {fallback[p][j], None}
    BY <1>1 DEF Memory!purge
  <2>2. ASSUME NEW r \in Memory(p)!Room
        PROVE  r \in B /\ \A j \in Keys : r[j] \in {fallback[p][j], None}
    <3>1. r = fallback[p] \/ r = q \/ \E o \in Memory(p)!Oldest(q) : r = [q EXCEPT ![o] = None]
      BY DEF Memory!Room
    <3> HIDE DEF q
    <3> QED BY <1>1, <2>1, <3>1
  <2>3. PICK r \in Memory(p)!Room : b = [r EXCEPT ![k] = new]
    BY <1>3 DEF Memory!Entered
  <2> HIDE DEF new
  <2>4. b \in B /\ b[k] = new /\ \A j \in Keys : j # k => b[j] = r[j]
    BY <1>1, <2>2, <2>3
  <2> QED BY <1>1, <1>3, <2>2, <2>4 DEF new
<1> QED BY <1>2, <1>3

\* What a change of the map to b is charged to each key.
LEMMA ChargedTo ==
  ASSUME IInv, NEW p \in Processes, NEW k \in Keys, NEW b \in Memory(p)!Entered(k)
  PROVE  /\ Memory(p)!Charged(b) \in [Keys -> Nat]
         /\ \A j \in Keys :
              Memory(p)!Charged(b)[j] =
                IF fallback[p][j] # None /\ fallback[p][j].resetAt > now /\ b[j] = None
                THEN evictions[p][j] + 1 ELSE evictions[p][j]
<1>1. evictions[p] \in [Keys -> Nat]
  BY DEF IInv, Types
<1> QED BY <1>1 DEF Memory!Charged, Memory!Present, Memory!Running

\* The operators of the fall-back limiter yield buckets.
LEMMA CountedTypes ==
  ASSUME IInv, NEW p \in Processes, NEW e \in Bucket
  PROVE  /\ Memory(p)!Renewed(e) \in Bucket
         /\ Memory(p)!Counted(e) \in Bucket
         /\ Memory(p)!Counted(e).resetAt = e.resetAt
         /\ Memory(p)!Counted(e).count = INCR(e.count)
<1>1. Memory(p)!Renewed(e) \in Bucket
  BY RedisAssumption DEF IInv, Types, Bucket, Memory!Renewed
<1> DEFINE n == INCR(e.count)
<1>2. n \in 0..(Max + 1) /\ Memory(p)!Counted(e) = [e EXCEPT !.count = n]
  BY RedisAssumption DEF Bucket, INCR, Memory!Counted
<1> HIDE DEF n
<1>3. /\ Memory(p)!Counted(e) \in Bucket /\ Memory(p)!Counted(e).resetAt = e.resetAt
      /\ Memory(p)!Counted(e).count = n
  BY <1>2 DEF Bucket
<1> QED BY <1>1, <1>3 DEF n

\* A process admits by its own limiter, which is not Redis's business.
LEMMA FallbackStep ==
  ASSUME IInv, NEW p \in Processes, NEW k \in Keys, AllowFallback(p, k)
  PROVE  IInv'
<1>1. UNCHANGED <<now, redis, retryAt, flushes>> /\ (UNCHANGED log \/ Admitted(k, p))
  BY DEF AllowFallback
<1>2. fallback' \in [Processes -> [Keys -> Bucket \cup {None}]]
  <2> DEFINE B == [Keys -> Bucket \cup {None}]
  <2>1. PICK b \in Memory(p)!Entered(k) :
          fallback' = [fallback EXCEPT ![p] =
                         [b EXCEPT ![k] = Memory(p)!Counted(Memory(p)!Renewed(b[k]))]]
    BY DEF AllowFallback
  <2> DEFINE e == Memory(p)!Counted(Memory(p)!Renewed(b[k]))
  <2>2. b \in B /\ e \in Bucket
    BY EnteredTypes, CountedTypes
  <2>3. fallback \in [Processes -> B]
    BY DEF IInv, Types
  <2> HIDE DEF e
  <2>4. [b EXCEPT ![k] = e] \in B
    BY <2>2
  <2> HIDE DEF B
  <2>5. fallback' \in [Processes -> B]
    BY <2>1, <2>3, <2>4 DEF e
  <2> QED BY <2>5 DEF B
<1>3. evictions' \in [Processes -> [Keys -> Nat]]
  <2>1. PICK b \in Memory(p)!Entered(k) :
          evictions' = [evictions EXCEPT ![p] = Memory(p)!Charged(b)]
    BY DEF AllowFallback
  <2> DEFINE f == Memory(p)!Charged(b)
             F == [Keys -> Nat]
  <2>2. f \in F /\ evictions \in [Processes -> F]
    BY ChargedTo DEF IInv, Types
  <2> HIDE DEF f, F
  <2>3. evictions' \in [Processes -> F]
    BY <2>1, <2>2 DEF f
  <2> QED BY <2>3 DEF F
<1>4. Expires'
  BY <1>1 DEF IInv, Expires, ttl
<1>5. CASE UNCHANGED log
  <2>1. RedisPaced'
    <3>1. \A j \in Keys : KeyPaced(redis'[j], log'[j], now', flushes')
      BY <1>1, <1>5 DEF IInv, RedisPaced
    <3> QED BY <3>1 DEF RedisPaced
  <2> QED BY <1>1, <1>2, <1>3, <1>4, <1>5, <2>1 DEF IInv, Types, Past
<1>6. CASE Admitted(k, p)
  <2> DEFINE a == [by |-> p, at |-> now]
  <2>1. /\ log' \in [Keys -> Seq(Admission)] /\ Past' /\ a \in Admission /\ a.by # "redis"
        /\ log'[k] = Append(log[k], a)
        /\ \A j \in Keys : log[j] \in Seq(Admission) /\ (j # k => log'[j] = log[j])
    BY <1>1, <1>6, LogGrows, RedisAssumption
  <2> HIDE DEF a
  <2>2. ASSUME NEW j \in Keys PROVE KeyPaced(redis[j], log'[j], now, flushes)
    <3>1. KeyPaced(redis[j], log[j], now, flushes)
      BY DEF IInv, RedisPaced
    <3>2. CASE j # k
      BY <2>1, <3>1, <3>2
    <3>3. CASE j = k
      <4> DEFINE h == log[k]
                 m == (1 + flushes) * Max
                 n == (2 + flushes) * Max
      <4>1. m \in Nat /\ n \in Nat /\ ttl \in Nat /\ Max \in Nat \ {0} /\ h \in Seq(Admission)
        BY <2>1, Budgets, TtlPositive DEF IInv
      <4>2. Budget(h, "redis", ttl, n)
        BY <3>1, <3>3 DEF KeyPaced
      <4> HIDE DEF h, m, n
      <4>3. Budget(Append(h, a), "redis", ttl, n)
        BY <2>1, <4>1, <4>2, BudgetOther
      <4>4. \A t \in Int : Since(Append(h, a), "redis", t) = Since(h, "redis", t)
        BY <2>1, <4>1, OneMore
      <4>5. Append(h, a) = log'[k]
        BY <2>1 DEF h
      <4> QED BY <3>1, <3>3, <4>3, <4>4, <4>5 DEF KeyPaced, Paced, h, m, n
    <3> QED BY <3>2, <3>3
  <2>3. RedisPaced'
    BY <1>1, <2>2 DEF RedisPaced
  <2> QED BY <1>1, <1>2, <1>3, <1>4, <2>1, <2>3 DEF IInv, Types
<1> QED BY <1>1, <1>5, <1>6

\* A Redis that comes back empty is charged to flushes.
LEMMA RestartStep ==
  ASSUME IInv, RedisRestart
  PROVE  IInv'
<1>1. /\ redis' = [k \in Keys |-> None] /\ flushes' = flushes + 1 /\ flushes \in Nat
      /\ UNCHANGED <<now, fallback, log, retryAt, evictions>>
  BY DEF RedisRestart, IInv, Types
<1>2. Types' /\ Past' /\ Expires'
  BY <1>1 DEF IInv, Types, Past, Expires
<1>3. ASSUME NEW k \in Keys PROVE KeyPaced(None, log[k], now, flushes + 1)
  <2> DEFINE c == redis[k]
             h == log[k]
             m == (1 + flushes) * Max
             n == (2 + flushes) * Max
  <2>1. /\ m \in Nat /\ n = m + Max /\ n \in Nat /\ Max \in Nat \ {0} /\ ttl \in Nat
        /\ (1 + (flushes + 1)) * Max = n /\ (2 + (flushes + 1)) * Max = n + Max
        /\ h \in Seq(Admission) /\ now \in Nat
    <3>1. /\ m \in Nat /\ n = m + Max /\ n \in Nat /\ Max \in Nat \ {0} /\ ttl \in Nat
      BY Budgets, TtlPositive DEF IInv
    <3>2. (1 + (flushes + 1)) * Max = n /\ (2 + (flushes + 1)) * Max = n + Max
      BY <1>1, <3>1
    <3> QED BY <3>1, <3>2 DEF IInv, Types
  <2>2. KeyPaced(c, h, now, flushes) /\ c \in Counter \cup {None}
    BY DEF IInv, RedisPaced, Types
  <2>3. Budget(h, "redis", ttl, n)
    BY <2>2 DEF KeyPaced
  <2>4. c # None => Paced(h, "redis", c.expireAt - ttl, ttl, Capped(c.count), m)
    BY <2>2 DEF KeyPaced
  <2>5. c = None => \A t \in Int : t > now - ttl => Cardinality(Since(h, "redis", t)) <= m
    BY <2>2 DEF KeyPaced
  <2>6. c # None => c.expireAt \in Nat /\ c.expireAt <= now + ttl /\ c.count \in Nat
    BY <2>1, <2>2 DEF IInv, Expires, Counter
  <2> HIDE DEF c, h, m, n
  <2>7. ASSUME NEW t \in Int, t > now - ttl
        PROVE  Cardinality(Since(h, "redis", t)) <= n
    <3>1. Cardinality(Since(h, "redis", t)) \in Nat
      BY <2>1, Finite
    <3>2. CASE c = None
      BY <2>1, <2>5, <2>7, <3>1, <3>2
    <3>3. CASE c # None
      <4>1. Capped(c.count) \in Nat /\ Capped(c.count) <= Max /\ t > c.expireAt - ttl - ttl
        BY <2>1, <2>6, <2>7, <3>3 DEF Capped
      <4>2. Cardinality(Since(h, "redis", t)) <= Capped(c.count) + m
        BY <2>4, <3>3, <4>1 DEF Paced
      <4> QED BY <2>1, <3>1, <4>1, <4>2
    <3> QED BY <3>2, <3>3
  <2>8. Budget(h, "redis", ttl, n + Max)
    <3>1. ASSUME NEW t \in Int PROVE Cardinality(Within(h, "redis", t, t + ttl - 1)) <= n + Max
      <4>1. Cardinality(Within(h, "redis", t, t + ttl - 1)) \in Nat
        BY <2>1, Finite
      <4> QED BY <2>1, <2>3, <4>1 DEF Budget
    <3> QED BY <3>1 DEF Budget
  <2> QED BY <2>1, <2>7, <2>8 DEF KeyPaced, h
<1>4. RedisPaced'
  BY <1>1, <1>3 DEF RedisPaced
<1> QED BY <1>2, <1>4 DEF IInv

\* As time goes by counters expire and the past stays.
LEMMA TickStep ==
  ASSUME IInv, Tick
  PROVE  IInv'
<1>1. /\ now' = now + 1 /\ now \in Nat /\ UNCHANGED <<fallback, log, retryAt, flushes, evictions>>
      /\ redis' \in [Keys -> Counter \cup {None}]
      /\ \A k \in Keys : redis'[k] = IF redis[k] # None /\ redis[k].expireAt <= now + 1
                                     THEN None ELSE redis[k]
  BY DEF Tick, IInv, Types
<1>0. ttl \in Nat \ {0} /\ \A k \in Keys : redis[k] # None => redis[k].expireAt \in Nat
  BY TtlPositive DEF IInv, Types, Counter
<1>2. Types'
  BY <1>1 DEF IInv, Types
<1>3. Past'
  <2>1. \A k \in Keys : \A j \in DOMAIN log[k] : log[k][j].at \in Nat /\ log[k][j].at <= now
    BY TimesAreNumbers DEF IInv, Types, Past
  <2> QED BY <1>1, <2>1 DEF Past
<1>4. Expires'
  <2>1. ASSUME NEW k \in Keys, redis'[k] # None
        PROVE  /\ redis'[k].expireAt > now + 1 /\ redis'[k].expireAt <= now + 1 + ttl
               /\ retryAt[k] # None => redis'[k].expireAt <= retryAt[k] + Second \div 2
    <3>1. redis'[k] = redis[k] /\ redis[k].expireAt > now + 1 /\ redis[k] # None
      BY <1>0, <1>1, <2>1
    <3> QED BY <1>0, <1>1, <3>1 DEF IInv, Expires
  <2> QED BY <1>1, <2>1 DEF Expires, ttl
<1>5. ASSUME NEW k \in Keys PROVE KeyPaced(redis'[k], log[k], now + 1, flushes)
  <2> DEFINE c == redis[k]
             h == log[k]
             m == (1 + flushes) * Max
  <2>1. m \in Nat /\ Max \in Nat \ {0} /\ h \in Seq(Admission) /\ Max <= m
    <3>1. m \in Nat /\ Max \in Nat \ {0} /\ h \in Seq(Admission) /\ flushes \in Nat
      BY Budgets DEF IInv, Types
    <3>2. m = flushes * Max + Max /\ flushes * Max \in Nat
      BY <3>1
    <3> QED BY <3>1, <3>2
  <2>2. KeyPaced(c, h, now, flushes)
    BY DEF IInv, RedisPaced
  <2>3. CASE redis'[k] = c
    BY <1>0, <1>1, <2>2, <2>3 DEF KeyPaced
  <2>4. CASE redis'[k] = None /\ c # None
    <3>1. c.expireAt <= now + 1 /\ c.expireAt \in Nat
      BY <1>0, <1>1, <2>4
    <3>2. \A t \in Int : t > (now + 1) - ttl => Cardinality(Since(h, "redis", t)) <= m
      <4> TAKE t \in Int
      <4> HAVE t > (now + 1) - ttl
      <4>1. t > c.expireAt - ttl
        BY <1>0, <1>1, <3>1
      <4>2. Cardinality(Since(h, "redis", t)) <= Capped(c.count)
        BY <2>2, <2>4, <4>1 DEF KeyPaced, Paced
      <4>3. Capped(c.count) <= Max /\ Capped(c.count) \in Nat
        <5>1. c \in Counter
          BY <2>4 DEF IInv, Types
        <5> QED BY <2>1, <5>1 DEF Capped, Counter
      <4>4. Cardinality(Since(h, "redis", t)) \in Nat
        BY <2>1, Finite
      <4> HIDE DEF m, c, h
      <4> QED BY <2>1, <4>2, <4>3, <4>4
    <3>3. Budget(h, "redis", ttl, (2 + flushes) * Max)
      BY <2>2 DEF KeyPaced
    <3>4. KeyPaced(None, h, now + 1, flushes)
      BY <3>2, <3>3, Zenon DEF KeyPaced
    <3> QED BY <2>4, <3>4
  <2> QED BY <1>1, <2>3, <2>4
<1>6. RedisPaced'
  BY <1>1, <1>5 DEF RedisPaced
<1> QED BY <1>2, <1>3, <1>4, <1>6 DEF IInv

-----------------------------------------------------------------------------
\* Initially Redis is empty.
LEMMA InitIInv == Init => IInv
<1> SUFFICES ASSUME Init PROVE IInv
  OBVIOUS
<1>1. Types /\ Past /\ Expires
  BY DEF Init, Types, Past, Expires
<1>2. ASSUME NEW k \in Keys PROVE KeyPaced(redis[k], log[k], now, flushes)
  <2>1. \A who, from, to : Since(<<>>, who, from) = {} /\ Within(<<>>, who, from, to) = {}
    BY DEF Since, Within
  <2>2. \A who, from, to : /\ Cardinality(Since(<<>>, who, from)) = 0
                          /\ Cardinality(Within(<<>>, who, from, to)) = 0
    BY <2>1, FS_EmptySet
  <2>3. (1 + flushes) * Max \in Nat /\ (2 + flushes) * Max \in Nat
    BY <1>1, Budgets
  <2>4. redis[k] = None /\ log[k] = <<>>
    BY DEF Init
  <2>5. \A t \in Int : Cardinality(Since(log[k], "redis", t)) <= (1 + flushes) * Max
    BY <2>2, <2>3, <2>4
  <2>6. Budget(log[k], "redis", ttl, (2 + flushes) * Max)
    BY <2>2, <2>3, <2>4 DEF Budget
  <2> QED BY <2>4, <2>5, <2>6 DEF KeyPaced
<1> QED BY <1>1, <1>2 DEF IInv, RedisPaced

\* IInv is inductive.
LEMMA NextIInv == IInv /\ [Next]_vars => IInv'
<1> SUFFICES ASSUME IInv, [Next]_vars PROVE IInv'
  OBVIOUS
<1>1. CASE UNCHANGED vars
  <2>1. Types' /\ Past' /\ Expires'
    BY <1>1 DEF vars, IInv, Types, Past, Expires, ttl
  <2>2. RedisPaced'
    <3>1. \A k \in Keys : KeyPaced(redis'[k], log'[k], now', flushes')
      BY <1>1 DEF vars, IInv, RedisPaced
    <3> QED BY <3>1 DEF RedisPaced
  <2> QED BY <2>1, <2>2 DEF IInv
<1>2. CASE Next
  BY <1>2, AllowStep, FallbackStep, RestartStep, TickStep DEF Next
<1> QED BY <1>1, <1>2

\* Every reachable state satisfies IInv.
THEOREM Inductive == Spec => []IInv
BY InitIInv, NextIInv, PTL DEF Spec

\* A client that Redis refused and that waits as it was told finds its counter
\* gone (allowScript, writeRateLimitError).
THEOREM RetryAfterIsHonoured == Spec => []RetryAfterHonoured
<1>1. IInv => RetryAfterHonoured
  <2> SUFFICES ASSUME IInv, NEW k \in Keys, retryAt[k] # None,
                      now >= retryAt[k] + Second \div 2, redis[k] # None
               PROVE  FALSE
    BY DEF RetryAfterHonoured
  <2>1. /\ now \in Nat /\ retryAt[k] \in Nat /\ redis[k].expireAt \in Nat
        /\ Second \div 2 \in Int
    BY RedisAssumption DEF IInv, Types, Counter
  <2>2. redis[k].expireAt > now /\ redis[k].expireAt <= retryAt[k] + Second \div 2
    BY DEF IInv, Expires
  <2> QED BY <2>1, <2>2
<1> QED BY Inductive, <1>1, PTL

-----------------------------------------------------------------------------
(***************************************************************************)
(* The budget of each process, with the entry e of its in-memory limiter:  *)
(* every running window that was evicted may have left a window's worth    *)
(* behind.                                                                 *)
(***************************************************************************)
BucketPaced(e, h, p, time, lost) ==
  /\ e # None =>
       /\ e.resetAt <= time + Window
       /\ Paced(h, p, e.resetAt - Window, Window, Capped(e.count), (1 + lost) * Max)
  /\ e = None =>
       \A t \in Int : t > time - Window => Cardinality(Since(h, p, t)) <= (1 + lost) * Max
  /\ Budget(h, p, Window, (2 + lost) * Max)

FallbackPaced ==
  \A p \in Processes, k \in Keys :
    BucketPaced(fallback[p][k], log[k], p, now, evictions[p][k])

\* The bounds in windows' worths, one eviction more included.
LEMMA Shares ==
  ASSUME NEW lost \in Nat
  PROVE  /\ Max \in Nat \ {0} /\ (1 + lost) * Max \in Nat /\ (2 + lost) * Max \in Nat
         /\ (1 + lost) * Max >= Max /\ (2 + lost) * Max = (1 + lost) * Max + Max
         /\ (1 + (lost + 1)) * Max = (2 + lost) * Max
         /\ (2 + (lost + 1)) * Max = (2 + lost) * Max + Max
<1>1. Max \in Nat \ {0}
  BY RedisAssumption
<1>2. lost * Max \in Nat /\ (1 + lost) * Max = lost * Max + Max
  BY <1>1
<1> QED BY <1>1, <1>2

\* A window that has ended leaves at most its own admissions behind.
LEMMA EndedWindow ==
  ASSUME NEW h \in Seq(Admission), NEW p, NEW time \in Nat, NEW lost \in Nat, NEW e \in Bucket,
         BucketPaced(e, h, p, time, lost), e.resetAt <= time
  PROVE  \A t \in Int : t > time - Window => Cardinality(Since(h, p, t)) <= (1 + lost) * Max
<1> DEFINE m == (1 + lost) * Max
<1>1. Window \in Nat /\ Max \in Nat \ {0} /\ m \in Nat /\ m >= Max
  BY Shares, RedisAssumption
<1>2. /\ e # None /\ e.resetAt \in Nat /\ Capped(e.count) \in Nat /\ Capped(e.count) <= Max
  BY <1>1, RedisAssumption DEF Bucket, Capped
<1>3. Paced(h, p, e.resetAt - Window, Window, Capped(e.count), m)
  BY <1>2 DEF BucketPaced
<1> HIDE DEF m
<1>4. ASSUME NEW t \in Int, t > time - Window PROVE Cardinality(Since(h, p, t)) <= m
  <2>1. t > e.resetAt - Window
    BY <1>1, <1>2, <1>4
  <2>2. Cardinality(Since(h, p, t)) <= Capped(e.count) /\ Cardinality(Since(h, p, t)) \in Nat
    BY <1>3, <2>1, Finite DEF Paced
  <2> QED BY <1>1, <1>2, <2>2
<1> QED BY <1>4 DEF m

\* An entry is dropped, for nothing if its window has ended.
LEMMA Dropped ==
  ASSUME NEW h \in Seq(Admission), NEW p, NEW time \in Nat, NEW lost \in Nat, NEW e \in Bucket,
         BucketPaced(e, h, p, time, lost)
  PROVE  BucketPaced(None, h, p, time, IF e.resetAt > time THEN lost + 1 ELSE lost)
<1> DEFINE m == (1 + lost) * Max
           n == (2 + lost) * Max
<1>1. /\ Window \in Nat /\ Max \in Nat \ {0} /\ m \in Nat /\ n \in Nat /\ n = m + Max
      /\ (1 + (lost + 1)) * Max = n /\ (2 + (lost + 1)) * Max = n + Max
  BY Shares, RedisAssumption
<1>2. e # None /\ e.resetAt \in Nat /\ Capped(e.count) \in Nat /\ Capped(e.count) <= Max
  BY <1>1, RedisAssumption DEF Bucket, Capped
<1>3. /\ e.resetAt <= time + Window /\ Budget(h, p, Window, n)
      /\ Paced(h, p, e.resetAt - Window, Window, Capped(e.count), m)
  BY <1>2 DEF BucketPaced
<1>4. CASE e.resetAt > time
  <2> HIDE DEF m, n
  <2>1. ASSUME NEW t \in Int, t > time - Window PROVE Cardinality(Since(h, p, t)) <= n
    <3>1. t > e.resetAt - Window - Window
      BY <1>1, <1>2, <1>3, <2>1
    <3>2. /\ Cardinality(Since(h, p, t)) <= Capped(e.count) + m
          /\ Cardinality(Since(h, p, t)) \in Nat
      BY <1>3, <3>1, Finite DEF Paced
    <3> QED BY <1>1, <1>2, <3>2
  <2>2. ASSUME NEW t \in Int PROVE Cardinality(Within(h, p, t, t + Window - 1)) <= n + Max
    <3>1. /\ Cardinality(Within(h, p, t, t + Window - 1)) <= n
          /\ Cardinality(Within(h, p, t, t + Window - 1)) \in Nat
      BY <1>3, Finite DEF Budget
    <3> QED BY <1>1, <3>1
  <2>3. BucketPaced(None, h, p, time, lost + 1)
    BY <1>1, <2>1, <2>2 DEF BucketPaced, Budget
  <2> QED BY <1>4, <2>3
<1>5. CASE ~(e.resetAt > time)
  <2>1. e.resetAt <= time
    BY <1>2, <1>5
  <2>2. \A t \in Int : t > time - Window => Cardinality(Since(h, p, t)) <= m
    BY <2>1, EndedWindow
  <2>3. BucketPaced(None, h, p, time, lost)
    BY <1>3, <2>2, Zenon DEF BucketPaced
  <2> QED BY <1>5, <2>3
<1> QED BY <1>4, <1>5

\* The entry that a request is counted in, before it is counted.
LEMMA RenewedPaced ==
  ASSUME IInv, FallbackPaced,
         NEW p \in Processes, NEW k \in Keys, NEW b \in Memory(p)!Entered(k),
         NEW r, r = Memory(p)!Renewed(b[k]),
         NEW m, m = (1 + evictions[p][k]) * Max
  PROVE  /\ r \in Bucket /\ r.resetAt > now /\ r.resetAt <= now + Window
         /\ Paced(log[k], p, r.resetAt - Window, Window, Capped(r.count), m)
<1> DEFINE e   == fallback[p][k]
           h   == log[k]
           new == [count |-> 0, resetAt |-> now + Window]
<1>1. /\ now \in Nat /\ Window \in Nat \ {0} /\ Max \in Nat \ {0} /\ h \in Seq(Admission)
      /\ b[k] \in Bucket /\ r \in Bucket /\ evictions[p][k] \in Nat /\ m \in Nat
  <2>1. evictions[p][k] \in Nat
    BY DEF IInv, Types
  <2> QED BY <2>1, Shares, EnteredTypes, CountedTypes, RedisAssumption DEF IInv, Types
<1>2. BucketPaced(e, h, p, now, evictions[p][k])
  BY DEF FallbackPaced
<1>3. new \in Bucket /\ new.count = 0 /\ new.resetAt = now + Window /\ Capped(0) = 0
  BY <1>1 DEF Bucket, Capped
<1>4. b[k] = IF e # None THEN e ELSE new
  BY EnteredTypes
<1>5. ASSUME \A t \in Int : t > now - Window => Cardinality(Since(h, p, t)) <= m
      PROVE  Paced(h, p, now, Window, 0, m)
  <2>1. \A j \in DOMAIN h : h[j].at <= now
    BY DEF IInv, Past
  <2> HIDE DEF h
  <2> QED BY <1>1, <1>5, <2>1, PacedNew
<1>6. ASSUME r = new, Paced(h, p, now, Window, 0, m)
      PROVE  /\ r.resetAt > now /\ r.resetAt <= now + Window
             /\ Paced(h, p, r.resetAt - Window, Window, Capped(r.count), m)
  <2>1. r.resetAt = now + Window /\ r.count = 0 /\ r.resetAt - Window = now
    BY <1>1, <1>3, <1>6
  <2> QED BY <1>1, <1>3, <1>6, <2>1
<1>7. CASE e = None
  <2>1. r = new
    BY <1>1, <1>3, <1>4, <1>7 DEF Memory!Renewed
  <2> QED BY <1>1, <1>2, <1>5, <1>6, <1>7, <2>1 DEF BucketPaced
<1>8. CASE e # None /\ now >= e.resetAt
  <2>1. r = new
    BY <1>4, <1>8 DEF Memory!Renewed
  <2>2. e \in Bucket /\ e.resetAt \in Nat
    BY <1>1, <1>4, <1>8 DEF Bucket
  <2>3. e.resetAt <= now
    BY <1>1, <1>8, <2>2
  <2>4. \A t \in Int : t > now - Window => Cardinality(Since(h, p, t)) <= m
    <3> HIDE DEF e, h
    <3> QED BY <1>1, <1>2, <2>2, <2>3, EndedWindow
  <2> QED BY <1>1, <1>5, <1>6, <2>1, <2>4
<1>9. CASE e # None /\ ~(now >= e.resetAt)
  <2>1. r = e
    BY <1>4, <1>9 DEF Memory!Renewed
  <2>2. e.resetAt \in Nat
    BY <1>1, <1>4, <1>9 DEF Bucket
  <2> QED BY <1>1, <1>2, <1>9, <2>1, <2>2 DEF BucketPaced
<1> QED BY <1>7, <1>8, <1>9

\* Admissions by another limiter leave a process's own alone.
LEMMA OthersAdmit ==
  ASSUME NEW h \in Seq(Admission), NEW a \in Admission, NEW p, a.by # p, NEW e, NEW time,
         NEW lost \in Nat, BucketPaced(e, h, p, time, lost)
  PROVE  BucketPaced(e, Append(h, a), p, time, lost)
<1> DEFINE n == (2 + lost) * Max
<1>1. \A t \in Int : Since(Append(h, a), p, t) = Since(h, p, t)
  BY OneMore
<1>2. Window \in Nat /\ n \in Nat /\ Budget(h, p, Window, n)
  BY Shares, RedisAssumption DEF BucketPaced
<1> HIDE DEF n
<1>3. Budget(Append(h, a), p, Window, n)
  BY <1>2, BudgetOther
<1> QED BY <1>1, <1>3 DEF BucketPaced, Paced, n

\* The limiter of a process keeps its budget, of the key that it answers and of
\* the keys whose windows it drops.
LEMMA FallbackKeeps ==
  ASSUME IInv, FallbackPaced, NEW p \in Processes, NEW k \in Keys, AllowFallback(p, k)
  PROVE  FallbackPaced'
<1>1. PICK b \in Memory(p)!Entered(k) :
        LET e == Memory(p)!Counted(Memory(p)!Renewed(b[k])) IN
        /\ fallback' = [fallback EXCEPT ![p] = [b EXCEPT ![k] = e]]
        /\ evictions' = [evictions EXCEPT ![p] = Memory(p)!Charged(b)]
        /\ \/ e.count > Max /\ UNCHANGED log
           \/ e.count <= Max /\ Admitted(k, p)
  BY DEF AllowFallback
<1> DEFINE r == Memory(p)!Renewed(b[k])
           e == Memory(p)!Counted(r)
           h == log[k]
           a == [by |-> p, at |-> now]
           start == r.resetAt - Window
           lost == evictions[p][k]
           m == (1 + lost) * Max
           n == (2 + lost) * Max
<1>2. /\ r \in Bucket /\ r.resetAt > now /\ r.resetAt <= now + Window
      /\ Paced(h, p, start, Window, Capped(r.count), m)
  BY RenewedPaced
<1>3. e \in Bucket /\ e.resetAt = r.resetAt /\ e.count = INCR(r.count)
  BY <1>2, CountedTypes
<1>4. /\ b \in [Keys -> Bucket \cup {None}] /\ fallback \in [Processes -> [Keys -> Bucket \cup {None}]]
      /\ b[k] # None /\ \A j \in Keys : j # k => b[j] \in {fallback[p][j], None}
  <2>1. b[k] \in Bucket
    BY EnteredTypes
  <2> QED BY <2>1, EnteredTypes, RedisAssumption DEF IInv, Types
<1> HIDE DEF r
<1>5. /\ fallback'[p][k] = e
      /\ \A j \in Keys : j # k => fallback'[p][j] = b[j]
      /\ \A s \in Processes : s # p => fallback'[s] = fallback[s]
  <2>1. fallback' = [fallback EXCEPT ![p] = [b EXCEPT ![k] = e]]
    BY <1>1 DEF r
  <2> HIDE DEF e
  <2> QED BY <1>4, <2>1
<1>6. now' = now
  BY DEF AllowFallback
<1>7. /\ Max \in Nat \ {0} /\ Window \in Nat \ {0} /\ now \in Nat /\ h \in Seq(Admission)
      /\ r.resetAt \in Nat /\ r.count \in 0..(Max + 1) /\ start \in Int /\ start <= now
      /\ lost \in Nat /\ m \in Nat /\ n \in Nat /\ n = m + Max
  <2>1. /\ Max \in Nat \ {0} /\ Window \in Nat \ {0} /\ now \in Nat /\ h \in Seq(Admission)
        /\ r.resetAt \in Nat /\ r.count \in 0..(Max + 1) /\ lost \in Nat
    BY <1>2, RedisAssumption DEF IInv, Types, Bucket
  <2>2. m \in Nat /\ n \in Nat /\ n = m + Max
    BY <2>1, Shares
  <2>3. start \in Int /\ start <= now
    BY <1>2, <2>1
  <2> QED BY <2>1, <2>2, <2>3
<1>8. e # None
  BY <1>3, RedisAssumption
<1> HIDE DEF e, start, lost, m, n
<1>9. BucketPaced(fallback[p][k], h, p, now, lost)
  BY DEF FallbackPaced, lost
<1>10. /\ evictions'[p][k] = lost
       /\ \A j \in Keys :
            evictions'[p][j] =
              IF fallback[p][j] # None /\ fallback[p][j].resetAt > now /\ b[j] = None
              THEN evictions[p][j] + 1 ELSE evictions[p][j]
       /\ \A s \in Processes : s # p => evictions'[s] = evictions[s]
  <2>1. evictions'[p] = Memory(p)!Charged(b) /\ \A s \in Processes : s # p => evictions'[s] = evictions[s]
    BY <1>1 DEF IInv, Types
  <2> QED BY <1>4, <2>1, ChargedTo DEF lost
<1>11. ASSUME NEW j \in Keys, j # k
       PROVE  BucketPaced(fallback'[p][j], log[j], p, now, evictions'[p][j])
  <2> DEFINE f == fallback[p][j]
             g == log[j]
             l == evictions[p][j]
  <2>1. BucketPaced(f, g, p, now, l) /\ g \in Seq(Admission) /\ l \in Nat /\ f \in Bucket \cup {None}
    BY DEF FallbackPaced, IInv, Types
  <2>2. fallback'[p][j] \in {f, None}
    BY <1>4, <1>5, <1>11
  <2>3. CASE fallback'[p][j] = f
    <3>1. evictions'[p][j] = l
      BY <1>5, <1>10, <1>11, <2>3
    <3> QED BY <2>1, <2>3, <3>1
  <2>4. CASE f # None /\ fallback'[p][j] = None
    <3>1. f \in Bucket /\ b[j] = None
      BY <1>5, <1>11, <2>1, <2>4
    <3>2. evictions'[p][j] = IF f.resetAt > now THEN l + 1 ELSE l
      BY <1>10, <2>4, <3>1
    <3> HIDE DEF f, g, l
    <3>3. BucketPaced(None, g, p, now, IF f.resetAt > now THEN l + 1 ELSE l)
      BY <1>7, <2>1, <3>1, Dropped
    <3> QED BY <2>4, <3>2, <3>3 DEF g
  <2> QED BY <2>2, <2>3, <2>4
<1>12. CASE e.count > Max /\ UNCHANGED log
  <2>1. Capped(r.count) \in Nat /\ Capped(e.count) \in Nat /\ Capped(r.count) <= Capped(e.count)
    BY <1>3, <1>7 DEF INCR, Capped
  <2>2. Paced(h, p, start, Window, Capped(e.count), m)
    BY <1>2, <1>7, <2>1, PacedMore
  <2>3. BucketPaced(e, h, p, now, lost)
    BY <1>2, <1>3, <1>8, <1>9, <2>2 DEF BucketPaced, start, m
  <2>4. ASSUME NEW s \in Processes, NEW j \in Keys
        PROVE  BucketPaced(fallback'[s][j], log'[j], s, now', evictions'[s][j])
    <3>1. CASE s = p /\ j = k
      BY <1>5, <1>6, <1>10, <1>12, <2>3, <3>1
    <3>2. CASE s = p /\ j # k
      BY <1>6, <1>11, <1>12, <3>2
    <3>3. CASE s # p
      BY <1>5, <1>6, <1>10, <1>12, <3>3 DEF FallbackPaced
    <3> QED BY <3>1, <3>2, <3>3
  <2> QED BY <2>4 DEF FallbackPaced
<1>13. CASE e.count <= Max /\ Admitted(k, p)
  <2>1. /\ a \in Admission /\ a.by = p /\ a.at = now /\ log'[k] = Append(h, a)
        /\ \A j \in Keys : log[j] \in Seq(Admission) /\ (j # k => log'[j] = log[j])
    BY <1>6, <1>13, LogGrows
  <2> HIDE DEF a
  <2>2. /\ Capped(r.count) \in Nat /\ Capped(r.count) + 1 = Capped(e.count)
        /\ Capped(r.count) + 1 + m <= n
    BY <1>3, <1>7, <1>13 DEF INCR, Capped
  <2>3. Paced(h, a.by, start, Window, Capped(r.count), m) /\ Budget(h, a.by, Window, n)
    BY <1>2, <1>9, <2>1 DEF BucketPaced, n
  <2> DEFINE c == Capped(r.count)
  <2> HIDE DEF c, h
  <2>4. Paced(Append(h, a), a.by, start, Window, c + 1, m)
    BY <1>7, <2>1, <2>2, <2>3, PacedAppend DEF c
  <2>5. Budget(Append(h, a), a.by, Window, n)
    BY <1>7, <2>1, <2>2, <2>3, BudgetAppend DEF c
  <2>6. BucketPaced(e, Append(h, a), p, now, lost)
    BY <1>2, <1>3, <1>8, <2>1, <2>2, <2>4, <2>5 DEF BucketPaced, start, c, m, n
  <2>7. ASSUME NEW s \in Processes, NEW j \in Keys
        PROVE  BucketPaced(fallback'[s][j], log'[j], s, now', evictions'[s][j])
    <3>1. CASE s = p /\ j = k
      BY <1>5, <1>6, <1>10, <2>1, <2>6, <3>1
    <3>2. CASE s = p /\ j # k
      BY <1>6, <1>11, <2>1, <3>2
    <3>3. CASE s # p /\ j # k
      BY <1>5, <1>6, <1>10, <2>1, <3>3 DEF FallbackPaced
    <3>4. CASE s # p /\ j = k
      <4>1. BucketPaced(fallback[s][k], h, s, now, evictions[s][k]) /\ evictions[s][k] \in Nat
        BY DEF FallbackPaced, h, IInv, Types
      <4>2. BucketPaced(fallback[s][k], Append(h, a), s, now, evictions[s][k])
        BY <1>7, <2>1, <3>4, <4>1, OthersAdmit
      <4> QED BY <1>5, <1>6, <1>10, <2>1, <3>4, <4>2
    <3> QED BY <3>1, <3>2, <3>3, <3>4
  <2> QED BY <2>7 DEF FallbackPaced
<1> QED BY <1>1, <1>12, <1>13 DEF e, r

\* So do the other steps.
LEMMA OthersKeep ==
  ASSUME IInv, FallbackPaced, [Next]_vars,
         ~ \E p \in Processes, k \in Keys : AllowFallback(p, k)
  PROVE  FallbackPaced'
<1>1. fallback' = fallback /\ evictions' = evictions
  BY DEF Next, Allow, ReplyLost, RedisRestart, Tick, vars
<1>2. CASE UNCHANGED <<now, log>>
  <2>1. ASSUME NEW p \in Processes, NEW k \in Keys
        PROVE  BucketPaced(fallback'[p][k], log'[k], p, now', evictions'[p][k])
    BY <1>1, <1>2 DEF FallbackPaced
  <2> QED BY <2>1 DEF FallbackPaced
<1>3. ASSUME NEW k \in Keys, Admitted(k, "redis"), UNCHANGED now
      PROVE  FallbackPaced'
  <2> DEFINE a == [by |-> "redis", at |-> now]
  <2>1. /\ a \in Admission /\ a.by = "redis" /\ log'[k] = Append(log[k], a)
        /\ \A j \in Keys : log[j] \in Seq(Admission) /\ (j # k => log'[j] = log[j])
    BY <1>3, LogGrows
  <2> HIDE DEF a
  <2>2. ASSUME NEW p \in Processes, NEW j \in Keys
        PROVE  BucketPaced(fallback'[p][j], log'[j], p, now', evictions'[p][j])
    <3>1. BucketPaced(fallback[p][j], log[j], p, now, evictions[p][j]) /\ evictions[p][j] \in Nat
      BY DEF FallbackPaced, IInv, Types
    <3>2. CASE j # k
      BY <1>1, <1>3, <2>1, <3>1, <3>2
    <3>3. CASE j = k
      <4>1. p # "redis"
        BY RedisAssumption
      <4>2. BucketPaced(fallback[p][k], Append(log[k], a), p, now, evictions[p][k])
        BY <2>1, <3>1, <3>3, <4>1, OthersAdmit
      <4> QED BY <1>1, <1>3, <2>1, <3>3, <4>2
    <3> QED BY <3>2, <3>3
  <2> QED BY <2>2 DEF FallbackPaced
<1>4. CASE Tick
  <2>1. now' = now + 1 /\ log' = log /\ now \in Nat /\ Window \in Nat
    BY <1>4, RedisAssumption DEF Tick, IInv, Types
  <2>2. ASSUME NEW p \in Processes, NEW k \in Keys
        PROVE  BucketPaced(fallback[p][k], log[k], p, now + 1, evictions[p][k])
    <3> DEFINE e == fallback[p][k]
               l == evictions[p][k]
    <3>1. BucketPaced(e, log[k], p, now, l)
      BY DEF FallbackPaced
    <3>2. e # None => e.resetAt \in Nat
      BY DEF IInv, Types, Bucket
    <3> HIDE DEF e, l
    <3>3. e # None => e.resetAt <= (now + 1) + Window
      BY <2>1, <3>1, <3>2 DEF BucketPaced
    <3>4. \A t \in Int : t > (now + 1) - Window => t > now - Window
      BY <2>1
    <3>5. e = None =>
            \A t \in Int : t > (now + 1) - Window =>
              Cardinality(Since(log[k], p, t)) <= (1 + l) * Max
      BY <3>1, <3>4 DEF BucketPaced
    <3>6. BucketPaced(e, log[k], p, now + 1, l)
      BY <3>1, <3>3, <3>5, Zenon DEF BucketPaced
    <3> QED BY <3>6 DEF e, l
  <2> QED BY <1>1, <2>1, <2>2 DEF FallbackPaced
<1> QED BY <1>2, <1>3, <1>4 DEF Next, Allow, ReplyLost, RedisRestart, vars

\* Initially no process has fallen back.
LEMMA InitFallback == Init => FallbackPaced
<1> SUFFICES ASSUME Init, NEW p \in Processes, NEW k \in Keys
             PROVE  BucketPaced(fallback[p][k], log[k], p, now, evictions[p][k])
  BY DEF FallbackPaced
<1>1. fallback[p][k] = None /\ log[k] = <<>> /\ evictions[p][k] = 0 /\ Max \in Nat \ {0}
  BY RedisAssumption DEF Init
<1>2. \A who, from, to : Since(<<>>, who, from) = {} /\ Within(<<>>, who, from, to) = {}
  BY DEF Since, Within
<1>3. \A who, from, to : /\ Cardinality(Since(<<>>, who, from)) = 0
                        /\ Cardinality(Within(<<>>, who, from, to)) = 0
  BY <1>2, FS_EmptySet
<1>4. 0 <= (1 + 0) * Max /\ 0 <= (2 + 0) * Max
  BY <1>1
<1> QED BY <1>1, <1>3, <1>4 DEF BucketPaced, Budget

(***************************************************************************)
(* Redis keeps its budget, and so does each process that falls back: for   *)
(* any number of keys, with a window's worth for each loss of the counters *)
(* and for each running window that the in-memory limiter evicted.         *)
(***************************************************************************)
THEOREM BudgetsDegradeGracefully == Spec => []DegradedBudget
<1>1. IInv /\ FallbackPaced /\ [Next]_vars => FallbackPaced'
  BY FallbackKeeps, OthersKeep
<1>2. IInv /\ FallbackPaced => DegradedBudget
  <2> SUFFICES ASSUME IInv, FallbackPaced, NEW k \in Keys, NEW t \in 0..now
               PROVE  /\ Cardinality(AdmittedBy(k, "redis", t, t + ttl - 1)) <= (2 + flushes) * Max
                      /\ \A p \in Processes :
                           Cardinality(AdmittedBy(k, p, t, t + Window - 1))
                             <= (2 + evictions[p][k]) * Max
    BY DEF DegradedBudget
  <2>1. \A who, from, to : AdmittedBy(k, who, from, to) = Within(log[k], who, from, to)
    BY DEF AdmittedBy, Within
  <2>2. t \in Int
    BY DEF IInv, Types
  <2>3. Budget(log[k], "redis", ttl, (2 + flushes) * Max)
    BY DEF IInv, RedisPaced, KeyPaced
  <2>4. \A p \in Processes : Budget(log[k], p, Window, (2 + evictions[p][k]) * Max)
    BY DEF FallbackPaced, BucketPaced
  <2> QED BY <2>1, <2>2, <2>3, <2>4 DEF Budget
<1> QED BY InitFallback, Inductive, <1>1, <1>2, PTL DEF Spec
=============================================================================
