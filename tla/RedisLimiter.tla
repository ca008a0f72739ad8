---------------------------- MODULE RedisLimiter ----------------------------
(***************************************************************************)
(* The Redis-backed limiter (internal/ratelimit/redislimit/limiter.go) as  *)
(* several processes use it: one counter per key in a shared Redis, and in *)
(* each process an in-memory limiter that takes over whenever the script   *)
(* fails.  Redis (external) runs the script atomically.  Its reply may be  *)
(* lost, after which the client library runs the script again or gives up, *)
(* and Redis may come back without its data.  Time is a discrete clock     *)
(* with Second ticks to a second, because EXPIRE and TTL round to seconds. *)
(***************************************************************************)
EXTENDS Integers, FiniteSets, Sequences

CONSTANTS Keys, None,
          Processes,
          Max,          \* requests allowed per window
          Window,       \* the configured window, in ticks
          Second,       \* ticks per second
          MaxBuckets,   \* buckets of the fall-back limiter
          MaxTime,      \* bound on the clock
          LastCall,     \* bound on the time of each key's requests
          MaxCalls,     \* bound on the admissions of one key
          MaxFlushes    \* bound on the times Redis loses its data

\* A counter as Redis keeps it, and a bucket of the in-memory limiter.
Counter == [count : 1..(Max + 1), expireAt : Nat]
Bucket  == [count : 0..(Max + 1), resetAt : Nat]

ASSUME RedisAssumption ==
  /\ {Max, Window, Second, MaxBuckets} \subseteq Nat \ {0}
  /\ "redis" \notin Processes
  /\ None \notin Nat \cup Counter \cup Bucket

VARIABLES
  now,
  redis,      \* Redis: the counter of each key and when it expires, or None
  fallback,   \* the buckets of each process's in-memory limiter
  log,        \* history: per key, who admitted a request when
  retryAt,    \* history: when the last refusal of the counter's window told
              \* the key to come back
  flushes,    \* history: how often Redis lost its data
  evictions   \* history: per process, how often its in-memory limiter dropped
              \* a running window of the key

vars == <<now, redis, fallback, log, retryAt, flushes, evictions>>

\* The in-memory limiter of process p, for its operators on the bucket map.
Memory(p) == INSTANCE MemoryLimiter
               WITH buckets <- fallback[p], calls <- log,
                    evictions <- evictions[p]

Init ==
  /\ now = 0
  /\ redis = [k \in Keys |-> None]
  /\ fallback = [p \in Processes |-> [k \in Keys |-> None]]
  /\ log = [k \in Keys |-> <<>>]
  /\ retryAt = [k \in Keys |-> None]
  /\ flushes = 0
  /\ evictions = [p \in Processes |-> [k \in Keys |-> 0]]

-----------------------------------------------------------------------------
\* The EXPIRE argument: whole seconds, at least one.
ttl == IF Window < Second THEN Second ELSE (Window \div Second) * Second

\* INCR.  The count is only ever compared with Max: it is kept at Max + 1.
INCR(n) == IF n > Max THEN n ELSE n + 1

\* Mutant: EXPIRE runs on every request.
allowScript_EveryTime(k) ==
  [count |-> IF redis[k] = None THEN 1 ELSE INCR(redis[k].count), expireAt |-> now + ttl]

\* INCR, and EXPIRE when the counter is new.
allowScript(k) ==
  IF redis[k] = None
  THEN [count |-> 1, expireAt |-> now + ttl]
  ELSE [redis[k] EXCEPT !.count = INCR(@)]

\* TTL: the remaining seconds, rounded to the nearest.
TTL(c) == (c.expireAt - now + Second \div 2) \div Second

\* writeRateLimitError: at least one second.
RetryAfter(secs) == Second * (IF secs < 1 THEN 1 ELSE secs)

Admitted(k, who) ==
  /\ Len(log[k]) < MaxCalls
  /\ log' = [log EXCEPT ![k] = Append(@, [by |-> who, at |-> now])]

\* Allow(key) with the script's reply.
Allow(k) ==
  LET c == allowScript(k) IN
  /\ redis' = [redis EXCEPT ![k] = c]
  /\ \/ /\ c.count > Max
        /\ retryAt' = [retryAt EXCEPT ![k] = now + RetryAfter(TTL(c))]
        /\ UNCHANGED log
     \/ /\ c.count <= Max
        /\ retryAt' = [retryAt EXCEPT ![k] = IF redis[k] = None THEN None ELSE @]
        /\ Admitted(k, "redis")
  /\ UNCHANGED <<now, fallback, flushes, evictions>>

\* The script runs but its reply is lost: the client library runs it again or
\* Allow falls back, which are steps of their own.
ReplyLost(k) ==
  /\ redis' = [redis EXCEPT ![k] = allowScript(k)]
  /\ retryAt' = [retryAt EXCEPT ![k] = IF redis[k] = None THEN None ELSE @]
  /\ UNCHANGED <<now, fallback, log, flushes, evictions>>

\* Mutant: without Redis every request is let through.
AllowFallback_Open(p, k) ==
  /\ Admitted(k, p)
  /\ UNCHANGED <<now, redis, fallback, retryAt, flushes, evictions>>

\* Allow(key) when the script failed: the process's own limiter decides.
AllowFallback(p, k) ==
  /\ \E b \in Memory(p)!Entered(k) :
       LET e == Memory(p)!Counted(Memory(p)!Renewed(b[k])) IN
       /\ fallback' = [fallback EXCEPT ![p] = [b EXCEPT ![k] = e]]
       /\ evictions' = [evictions EXCEPT ![p] = Memory(p)!Charged(b)]
       /\ \/ e.count > Max /\ UNCHANGED log
          \/ e.count <= Max /\ Admitted(k, p)
  /\ UNCHANGED <<now, redis, retryAt, flushes>>

\* Redis is restarted without its data.
RedisRestart ==
  /\ flushes < MaxFlushes
  /\ flushes' = flushes + 1
  /\ redis' = [k \in Keys |-> None]
  /\ UNCHANGED <<now, fallback, log, retryAt, evictions>>

\* Time passes, and Redis drops the counters that expire.
Tick ==
  /\ now < MaxTime
  /\ now' = now + 1
  /\ redis' = [k \in Keys |->
                 IF redis[k] # None /\ redis[k].expireAt <= now + 1 THEN None ELSE redis[k]]
  /\ UNCHANGED <<fallback, log, retryAt, flushes, evictions>>

Next ==
  \/ \E k \in {j \in Keys : now <= LastCall[j]} :
       Allow(k) \/ ReplyLost(k) \/ \E p \in Processes : AllowFallback(p, k)
  \/ RedisRestart
  \/ Tick

Spec == Init /\ [][Next]_vars

-----------------------------------------------------------------------------
\* The admissions of k by one limiter at the times from..to.
AdmittedBy(k, who, from, to) ==
  {j \in DOMAIN log[k] : log[k][j].by = who /\ log[k][j].at \in from..to}

(***************************************************************************)
(* The limit never disappears: over any stretch of time shorter than a     *)
(* window, Redis admits a key at most two windows' worth, and one more for *)
(* each time it lost its counters, and each process that has to fall back  *)
(* two windows' worth of its own, and one more for each running window of  *)
(* the key that its full limiter evicted, however often Redis fails and    *)
(* returns (New: "on error the limit degrades to a single-instance         *)
(* in-memory budget for that process").                                    *)
(***************************************************************************)
DegradedBudget ==
  \A k \in Keys, t \in 0..now :
    /\ Cardinality(AdmittedBy(k, "redis", t, t + ttl - 1)) <= (2 + flushes) * Max
    /\ \A p \in Processes :
         Cardinality(AdmittedBy(k, p, t, t + Window - 1)) <= (2 + evictions[p][k]) * Max

(***************************************************************************)
(* A client that Redis refused and that waits as long as Retry-After says, *)
(* and half a second more for the rounding of TTL, finds its counter gone, *)
(* whatever refused requests, requests of other processes and lost replies *)
(* did to it in the meantime (allowScript sets the expiry once).           *)
(***************************************************************************)
RetryAfterHonoured ==
  \A k \in Keys :
    retryAt[k] # None /\ now >= retryAt[k] + Second \div 2 => redis[k] = None
=============================================================================
