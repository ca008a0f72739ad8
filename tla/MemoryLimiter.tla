---------------------------- MODULE MemoryLimiter ----------------------------
(***************************************************************************)
(* The in-memory fixed-window rate limiter (internal/ratelimit/limiter.go):*)
(* Allow under its mutex, with the purge of expired buckets and the        *)
(* eviction of the oldest one that bound its memory.  Time is a discrete   *)
(* clock that advances between calls.                                      *)
(***************************************************************************)
EXTENDS Integers, FiniteSets, Sequences

CONSTANTS Keys,         \* bucket keys ("ip:..." and "key:...")
          None,
          Max,          \* requests allowed per window
          Window,       \* length of a window
          MaxBuckets,   \* buckets kept at most (10000 in the code)
          MaxTime,      \* bound on the clock
          MaxCalls      \* bound on the requests of one key

ASSUME LimiterAssumption ==
  /\ Max \in Nat \ {0}
  /\ Window \in Nat \ {0}
  /\ MaxBuckets \in Nat \ {0}
  /\ MaxTime \in Nat
  /\ MaxCalls \in Nat

\* count is only ever compared with Max: values beyond Max + 1 are kept there.
Entry == [count : 0..(Max + 1), resetAt : Nat]

ASSUME NoneAssumption == None \notin Entry

VARIABLES
  now,
  buckets,    \* the entry of each key, or None when the map has none
  calls,      \* history: the requests each key has made
  log,        \* history: the times at which each key was admitted
  retryAt,    \* history: when the last refusal told the key to come back
  evictions   \* history: how often a running window of the key was dropped

vars == <<now, buckets, calls, log, retryAt, evictions>>

Present(b) == {k \in Keys : b[k] # None}

Running(e) == e.resetAt > now

Init ==
  /\ now = 0
  /\ buckets = [k \in Keys |-> None]
  /\ calls = [k \in Keys |-> 0]
  /\ log = [k \in Keys |-> <<>>]
  /\ retryAt = [k \in Keys |-> None]
  /\ evictions = [k \in Keys |-> 0]

-----------------------------------------------------------------------------
\* purge: the buckets whose window ended before now are dropped.
purge(b) == [k \in Keys |-> IF b[k] # None /\ now > b[k].resetAt THEN None ELSE b[k]]

\* Mutant: the bucket that resets last is dropped.
Oldest_Latest(b) ==
  {o \in Present(b) : \A k \in Present(b) : b[k].resetAt <= b[o].resetAt}

\* The keys evictOldest may pick: ties are broken by Go's map order.
Oldest(b) == {o \in Present(b) : \A k \in Present(b) : b[o].resetAt <= b[k].resetAt}

Full(b) == Cardinality(Present(b)) >= MaxBuckets

\* Mutant: a map that is still full after the purge grows.
Room_NoEviction == {IF Full(buckets) THEN purge(buckets) ELSE buckets}

\* The maps in which a new key may be entered.
Room ==
  IF ~Full(buckets)
  THEN {buckets}
  ELSE IF ~Full(purge(buckets))
       THEN {purge(buckets)}
       ELSE {[purge(buckets) EXCEPT ![o] = None] : o \in Oldest(purge(buckets))}

\* The map once Allow has found or made the entry of k.
Entered(k) ==
  IF buckets[k] # None
  THEN {buckets}
  ELSE {[b EXCEPT ![k] = [count |-> 0, resetAt |-> now + Window]] : b \in Room}

\* Mutant: at the very end of its window an entry is not yet reset.
Renewed_StrictlyAfter(e) ==
  IF now > e.resetAt THEN [count |-> 0, resetAt |-> now + Window] ELSE e

\* Mutant: the count is reset, the end of the window is not moved.
Renewed_SameEnd(e) ==
  IF now >= e.resetAt THEN [count |-> 0, resetAt |-> e.resetAt] ELSE e

Renewed(e) ==
  IF now >= e.resetAt THEN [count |-> 0, resetAt |-> now + Window] ELSE e

\* Mutant: the window starts again with every request.
Counted_Sliding(e) ==
  [count |-> IF e.count > Max THEN e.count ELSE e.count + 1, resetAt |-> now + Window]

\* e.count++, also for a request that is refused.
Counted(e) == [e EXCEPT !.count = IF @ > Max THEN @ ELSE @ + 1]

\* The evictions of each key once the map is b.
Charged(b) ==
  [j \in Keys |-> IF j \in Present(buckets) /\ Running(buckets[j]) /\ b[j] = None
                  THEN evictions[j] + 1 ELSE evictions[j]]

(***************************************************************************)
(* Allow(key), with the history of what it answered.                       *)
(***************************************************************************)
Allow(k) ==
  /\ calls[k] < MaxCalls
  /\ calls' = [calls EXCEPT ![k] = @ + 1]
  /\ \E b \in Entered(k) :
       LET e == Counted(Renewed(b[k])) IN
       /\ buckets' = [b EXCEPT ![k] = e]
       /\ IF e.count > Max
          THEN /\ retryAt' = [retryAt EXCEPT ![k] = e.resetAt]
               /\ UNCHANGED log
          ELSE /\ retryAt' = [retryAt EXCEPT ![k] = None]
               /\ log' = [log EXCEPT ![k] = Append(@, now)]
       /\ evictions' = Charged(b)
       /\ UNCHANGED now

Tick ==
  /\ now < MaxTime
  /\ now' = now + 1
  /\ UNCHANGED <<buckets, calls, log, retryAt, evictions>>

Next == (\E k \in Keys : Allow(k)) \/ Tick

Spec == Init /\ [][Next]_vars

-----------------------------------------------------------------------------
TypeOK ==
  /\ now \in 0..MaxTime
  /\ buckets \in [Keys -> Entry \cup {None}]
  /\ calls \in [Keys -> 0..MaxCalls]
  /\ log \in [Keys -> Seq(Nat)]
  /\ retryAt \in [Keys -> Nat \cup {None}]
  /\ evictions \in [Keys -> Nat]

(***************************************************************************)
(* The limiter's memory is bounded, whatever keys arrive and even when     *)
(* every window is still running (evictOldest's promise).                  *)
(***************************************************************************)
MemoryBound == Cardinality(Present(buckets)) <= MaxBuckets

\* The last n admissions of k happened at or after time t.
LastSince(k, n, t) ==
  /\ Len(log[k]) >= n
  /\ \A j \in (Len(log[k]) - n + 1)..Len(log[k]) : log[k][j] >= t

(***************************************************************************)
(* Nobody is refused for less than the budget: a key that is over its      *)
(* limit was really admitted Max times within the last Window, evictions,  *)
(* purges and refused requests notwithstanding (Allow).                    *)
(***************************************************************************)
RefusalIsEarned ==
  \A k \in Present(buckets) :
    buckets[k].count > Max => LastSince(k, Max, buckets[k].resetAt - Window)

(***************************************************************************)
(* The inductive strengthening: the map is finite, a window ends at most   *)
(* Window from now, what its entry has counted, up to Max, was admitted    *)
(* since it began, and a refused key was told the end of the window that   *)
(* it is still in unless that window has been dropped.                     *)
(***************************************************************************)
Budgeted(k, e) ==
  /\ e.resetAt <= now + Window
  /\ LastSince(k, IF e.count > Max THEN Max ELSE e.count, e.resetAt - Window)

CountsAreAdmissions == \A k \in Present(buckets) : Budgeted(k, buckets[k])

ToldTheEnd ==
  \A k \in Present(buckets) : retryAt[k] # None => retryAt[k] = buckets[k].resetAt

IInv ==
  /\ TypeOK
  /\ IsFiniteSet(Present(buckets))
  /\ MemoryBound
  /\ CountsAreAdmissions
  /\ ToldTheEnd

(***************************************************************************)
(* The budget holds over any stretch of time of length Window: never more  *)
(* than two windows' worth, plus one for each time a running window of the *)
(* key was evicted.                                                        *)
(***************************************************************************)
SlidingBudget ==
  \A k \in Keys :
    LET n == (2 + evictions[k]) * Max
    IN  \A j \in 1..Len(log[k]) : j + n <= Len(log[k]) => log[k][j + n] >= log[k][j] + Window

(***************************************************************************)
(* A client that waits as long as a refusal told it to is admitted at its  *)
(* next request, whatever other keys did to the map in the meantime        *)
(* (Allow's second result).                                                *)
(***************************************************************************)
RetryAfterHonoured ==
  [][\A k \in Keys :
       retryAt[k] # None /\ retryAt[k] <= now /\ calls'[k] # calls[k] =>
         retryAt'[k] = None]_vars

(***************************************************************************)
(* A running window is forgotten only when all windows are running, and    *)
(* then it is one that would end first (purge before evictOldest).         *)
(***************************************************************************)
EvictsSoonest ==
  [][\A k, j \in Keys :
       /\ {k, j} \subseteq Present(buckets)
       /\ Running(buckets[k])
       /\ buckets'[k] = None
       => Running(buckets[j]) /\ buckets[k].resetAt <= buckets[j].resetAt]_vars
=============================================================================
