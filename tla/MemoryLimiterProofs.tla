------------------------ MODULE MemoryLimiterProofs ------------------------
(***************************************************************************)
(* Proofs about MemoryLimiter for any set of keys, infinite ones included, *)
(* any limit, window and capacity.  IInv is inductive.                     *)
(***************************************************************************)
EXTENDS MemoryLimiter, FiniteSetTheorems, TLAPS

Entries == [Keys -> Entry \cup {None}]

-----------------------------------------------------------------------------
\* Reaching the end of a window and counting a request yield entries.
LEMMA CountedType ==
  ASSUME NEW e \in Entry, now \in Nat
  PROVE  /\ Renewed(e) \in Entry
         /\ Counted(e) \in Entry
         /\ Counted(Renewed(e)) \in Entry
         /\ Counted(e).resetAt = e.resetAt
         /\ Counted(e).count = IF e.count > Max THEN e.count ELSE e.count + 1
BY LimiterAssumption DEF Renewed, Counted, Entry

(***************************************************************************)
(* purge only removes keys, and leaves the other entries alone; no entry   *)
(* it leaves has ended before now.                                         *)
(***************************************************************************)
LEMMA PurgeShrinks ==
  ASSUME NEW b \in Entries
  PROVE  /\ purge(b) \in Entries
         /\ \A k \in Keys : purge(b)[k] \in {b[k], None}
         /\ Present(purge(b)) \subseteq Present(b)
         /\ \A k \in Keys : purge(b)[k] = None /\ b[k] # None => now > b[k].resetAt
BY DEF purge, Entries, Present

(***************************************************************************)
(* What Room returns: a part of the map with space for one more key.       *)
(***************************************************************************)
LEMMA RoomShrinks ==
  ASSUME IInv, NEW b \in Room
  PROVE  /\ b \in Entries
         /\ \A k \in Keys : b[k] \in {buckets[k], None}
         /\ IsFiniteSet(Present(b))
         /\ Cardinality(Present(b)) \in Nat
         /\ Cardinality(Present(b)) < MaxBuckets
<1> DEFINE p == purge(buckets)
<1>1. buckets \in Entries /\ IsFiniteSet(Present(buckets))
  BY DEF IInv, TypeOK, Entries
<1>2. /\ p \in Entries
      /\ \A k \in Keys : p[k] \in {buckets[k], None}
      /\ Present(p) \subseteq Present(buckets)
  BY <1>1, PurgeShrinks
<1>3. IsFiniteSet(Present(p)) /\ Cardinality(Present(p)) <= Cardinality(Present(buckets))
  BY <1>1, <1>2, FS_Subset
<1>4. Cardinality(Present(p)) \in Nat /\ Cardinality(Present(buckets)) \in Nat
  BY <1>1, <1>3, FS_CardinalityType
<1>5. CASE b = buckets /\ ~Full(buckets)
  BY <1>1, <1>4, <1>5, LimiterAssumption DEF Full
<1>6. CASE b = p /\ ~Full(p)
  BY <1>2, <1>3, <1>4, <1>6, LimiterAssumption DEF Full
<1>7. ASSUME NEW o \in Oldest(p), b = [p EXCEPT ![o] = None]
      PROVE  /\ b \in Entries
             /\ \A k \in Keys : b[k] \in {buckets[k], None}
             /\ IsFiniteSet(Present(b))
             /\ Cardinality(Present(b)) \in Nat
             /\ Cardinality(Present(b)) < MaxBuckets
  <2>1. o \in Present(p) /\ o \in Keys
    BY <1>7 DEF Oldest, Present
  <2>2. b \in Entries /\ \A k \in Keys : b[k] = IF k = o THEN None ELSE p[k]
    BY <1>2, <1>7, <2>1 DEF Entries
  <2>3. Present(b) = Present(p) \ {o}
    BY <2>1, <2>2 DEF Present
  <2>4. IsFiniteSet(Present(b)) /\ Cardinality(Present(b)) = Cardinality(Present(p)) - 1
    BY <1>3, <2>1, <2>3, FS_RemoveElement
  <2>5. Cardinality(Present(b)) \in Nat
    BY <2>4, FS_CardinalityType
  <2>6. Cardinality(Present(buckets)) <= MaxBuckets
    BY DEF IInv, MemoryBound
  <2> QED
    BY <1>2, <1>3, <1>4, <2>2, <2>4, <2>5, <2>6, LimiterAssumption
<1> QED
  BY <1>5, <1>6, <1>7 DEF Room

-----------------------------------------------------------------------------
\* The entry of k once Allow has found or made it.
LEMMA EnteredMap ==
  ASSUME IInv, NEW k \in Keys, NEW b \in Entered(k)
  PROVE  /\ b \in Entries
         /\ b[k] \in Entry
         /\ \A j \in Keys \ {k} : b[j] \in {buckets[j], None}
         /\ \/ buckets[k] # None /\ b = buckets
            \/ buckets[k] = None /\ b[k] = [count |-> 0, resetAt |-> now + Window]
         /\ IsFiniteSet(Present(b))
         /\ Cardinality(Present(b)) <= MaxBuckets
<1>1. buckets \in Entries /\ IsFiniteSet(Present(buckets)) /\ now \in Nat
  BY DEF IInv, TypeOK, Entries
<1>2. CASE buckets[k] # None
  <2>1. b = buckets /\ b[k] \in Entry
    BY <1>1, <1>2 DEF Entered, Entries
  <2> QED
    BY <1>1, <1>2, <2>1 DEF IInv, MemoryBound
<1>3. CASE buckets[k] = None
  <2> DEFINE e == [count |-> 0, resetAt |-> now + Window]
  <2>1. PICK r \in Room : b = [r EXCEPT ![k] = e]
    BY <1>3 DEF Entered
  <2>2. /\ r \in Entries
        /\ \A j \in Keys : r[j] \in {buckets[j], None}
        /\ IsFiniteSet(Present(r))
        /\ Cardinality(Present(r)) \in Nat
        /\ Cardinality(Present(r)) < MaxBuckets
    BY RoomShrinks
  <2>3. e \in Entry /\ e # None
    BY <1>1, LimiterAssumption, NoneAssumption DEF Entry
  <2>4. b \in Entries /\ \A j \in Keys : b[j] = IF j = k THEN e ELSE r[j]
    BY <2>1, <2>2, <2>3 DEF Entries
  <2>5. Present(b) = Present(r) \cup {k} /\ k \notin Present(r)
    BY <1>3, <2>2, <2>3, <2>4 DEF Present
  <2>6. IsFiniteSet(Present(b)) /\ Cardinality(Present(b)) = Cardinality(Present(r)) + 1
    BY <2>2, <2>5, FS_AddElement
  <2> QED
    BY <1>3, <2>2, <2>3, <2>4, <2>6, LimiterAssumption
<1> QED
  BY <1>2, <1>3

\* Admissions of k can only grow by one that happens now.
LEMMA LogGrows ==
  ASSUME NEW k \in Keys, log \in [Keys -> Seq(Nat)], now \in Nat,
         NEW n \in Nat, NEW t \in Int, t <= now, LastSince(k, n, t),
         log' = [log EXCEPT ![k] = Append(@, now)]
  PROVE  LastSince(k, n + 1, t)' /\ log' \in [Keys -> Seq(Nat)]
<1>1. log[k] \in Seq(Nat) /\ log'[k] = Append(log[k], now)
  OBVIOUS
<1>2. /\ Len(log'[k]) = Len(log[k]) + 1
      /\ \A j \in 1..Len(log[k]) : log'[k][j] = log[k][j]
      /\ log'[k][Len(log[k]) + 1] = now
  BY <1>1
<1>3. Len(log[k]) \in Nat /\ Len(log[k]) >= n
  BY <1>1 DEF LastSince
<1>4. ASSUME NEW j \in (Len(log'[k]) - (n + 1) + 1)..Len(log'[k])
      PROVE  log'[k][j] >= t
  <2>1. CASE j = Len(log[k]) + 1
    BY <1>2, <2>1
  <2>2. CASE j # Len(log[k]) + 1
    <3>1. j \in (Len(log[k]) - n + 1)..Len(log[k]) /\ j \in 1..Len(log[k])
      BY <1>2, <1>3, <1>4, <2>2
    <3> QED
      BY <1>2, <3>1 DEF LastSince
  <2> QED
    BY <2>1, <2>2
<1>5. log' \in [Keys -> Seq(Nat)]
  OBVIOUS
<1> QED
  BY <1>2, <1>3, <1>4, <1>5 DEF LastSince

(***************************************************************************)
(* The answer Allow gives k keeps the part of IInv that is about k, and a  *)
(* refusal never comes at or after the time the last one gave.             *)
(***************************************************************************)
LEMMA AnswerIsBudgeted ==
  ASSUME IInv, NEW k \in Keys, Allow(k)
  PROVE  /\ buckets'[k] \in Entry
         /\ Budgeted(k, buckets[k])'
         /\ retryAt'[k] # None => retryAt'[k] = buckets'[k].resetAt
         /\ log' \in [Keys -> Seq(Nat)]
         /\ \A j \in Keys \ {k} : log'[j] = log[j] /\ retryAt'[j] = retryAt[j]
         /\ retryAt' \in [Keys -> Nat \cup {None}]
         /\ retryAt[k] # None /\ retryAt[k] <= now => retryAt'[k] = None
<1>1. PICK b \in Entered(k) :
        LET e == Counted(Renewed(b[k])) IN
        /\ buckets' = [b EXCEPT ![k] = e]
        /\ IF e.count > Max
           THEN /\ retryAt' = [retryAt EXCEPT ![k] = e.resetAt]
                /\ UNCHANGED log
           ELSE /\ retryAt' = [retryAt EXCEPT ![k] = None]
                /\ log' = [log EXCEPT ![k] = Append(@, now)]
  BY DEF Allow
<1> DEFINE r == Renewed(b[k])
           e == Counted(r)
<1>2. /\ b \in Entries
      /\ b[k] \in Entry
      /\ \/ buckets[k] # None /\ b = buckets
         \/ buckets[k] = None /\ b[k] = [count |-> 0, resetAt |-> now + Window]
  BY EnteredMap
<1>3. /\ now \in Nat /\ now' = now
      /\ log \in [Keys -> Seq(Nat)]
      /\ retryAt \in [Keys -> Nat \cup {None}]
  BY DEF IInv, TypeOK, Allow
<1>4. r \in Entry /\ e \in Entry /\ e.resetAt = r.resetAt
      /\ e.count = IF r.count > Max THEN r.count ELSE r.count + 1
  BY <1>2, <1>3, CountedType
<1>5. buckets'[k] = e
  BY <1>1, <1>2 DEF Entries
<1>6. Budgeted(k, r)
  <2>1. ASSUME NEW x \in Entry, x.count = 0, x.resetAt = now + Window
        PROVE  Budgeted(k, x)
    BY <1>3, <2>1, LimiterAssumption DEF Budgeted, LastSince, Entry
  <2>2. CASE now >= b[k].resetAt
    <3>1. r = [count |-> 0, resetAt |-> now + Window]
      BY <2>2 DEF Renewed
    <3> QED
      BY <1>4, <2>1, <3>1
  <2>3. CASE ~(now >= b[k].resetAt)
    <3>1. r = b[k]
      BY <2>3 DEF Renewed
    <3>2. CASE buckets[k] # None /\ b = buckets
      BY <3>1, <3>2 DEF IInv, CountsAreAdmissions, Present
    <3>3. CASE b[k] = [count |-> 0, resetAt |-> now + Window]
      BY <1>2, <2>1, <3>1, <3>3
    <3> QED
      BY <1>2, <3>2, <3>3
  <2> QED
    BY <2>2, <2>3
<1>7. ASSUME retryAt[k] # None, retryAt[k] <= now
      PROVE  r.count = 0
  <2>1. now >= b[k].resetAt \/ b[k].count = 0
    BY <1>2, <1>3, <1>7 DEF IInv, ToldTheEnd, Present
  <2> QED
    BY <2>1 DEF Renewed
<1>8. CASE e.count > Max
  <2>1. retryAt' = [retryAt EXCEPT ![k] = e.resetAt] /\ log' = log
    BY <1>1, <1>8
  <2>2. r.count >= Max /\ r.count # 0
    BY <1>4, <1>8, LimiterAssumption DEF Entry
  <2>3. Budgeted(k, buckets[k])'
    BY <1>3, <1>4, <1>5, <1>6, <1>8, <2>1, <2>2, LimiterAssumption
       DEF Budgeted, LastSince, Entry
  <2>4. retryAt' \in [Keys -> Nat \cup {None}] /\ retryAt'[k] = e.resetAt
    BY <1>3, <1>4, <2>1 DEF Entry
  <2> QED
    BY <1>3, <1>4, <1>5, <1>7, <2>1, <2>2, <2>3, <2>4
<1>9. CASE ~(e.count > Max)
  <2>1. retryAt' = [retryAt EXCEPT ![k] = None]
        /\ log' = [log EXCEPT ![k] = Append(@, now)]
    BY <1>1, <1>9
  <2>2. /\ r.count \in Nat /\ r.count <= Max /\ e.count = r.count + 1
        /\ r.resetAt \in Nat
    BY <1>4, <1>9, LimiterAssumption DEF Entry
  <2>3. r.resetAt - Window \in Int /\ r.resetAt - Window <= now
        /\ LastSince(k, r.count, r.resetAt - Window)
    BY <1>3, <1>6, <2>2, LimiterAssumption DEF Budgeted
  <2>4. ASSUME NEW n \in Nat, NEW t \in Int, n = r.count, t = r.resetAt - Window
        PROVE  LastSince(k, n + 1, t)' /\ log' \in [Keys -> Seq(Nat)]
    <3>1. t <= now /\ LastSince(k, n, t)
      BY <2>3, <2>4
    <3> HIDE DEF r, e
    <3> QED
      BY <1>3, <2>1, <3>1, LogGrows
  <2>5. PICK n \in Nat, t \in Int : n = r.count /\ t = r.resetAt - Window
    BY <2>2, <2>3
  <2>6. LastSince(k, n + 1, t)' /\ log' \in [Keys -> Seq(Nat)]
    BY <2>4, <2>5
  <2>7. Budgeted(k, buckets[k])'
    <3>1. buckets'[k].count = n + 1 /\ buckets'[k].resetAt - Window = t
          /\ ~(buckets'[k].count > Max)
      BY <1>4, <1>5, <1>9, <2>2, <2>5
    <3>2. buckets'[k].resetAt <= now + Window
      BY <1>4, <1>5, <1>6 DEF Budgeted
    <3> HIDE DEF r, e
    <3> QED
      BY <1>3, <2>6, <3>1, <3>2 DEF Budgeted
  <2> QED
    BY <1>3, <1>4, <1>5, <2>1, <2>6, <2>7
<1> QED
  BY <1>8, <1>9

-----------------------------------------------------------------------------
\* Making room drops a running window only if all are running, the first to end.
LEMMA RoomDropsSoonest ==
  ASSUME IInv, NEW b \in Room, NEW k \in Present(buckets), NEW j \in Present(buckets),
         Running(buckets[k]), b[k] = None
  PROVE  Running(buckets[j]) /\ buckets[k].resetAt <= buckets[j].resetAt
<1> DEFINE p == purge(buckets)
<1>1. /\ buckets \in Entries /\ IsFiniteSet(Present(buckets)) /\ now \in Nat
      /\ k \in Keys /\ j \in Keys /\ buckets[k] # None
      /\ buckets[k] \in Entry /\ buckets[j] \in Entry
  BY DEF IInv, TypeOK, Entries, Present
<1>2. /\ \A i \in Keys : p[i] \in {buckets[i], None}
      /\ Present(p) \subseteq Present(buckets)
  BY <1>1, PurgeShrinks
<1>3. p[k] = buckets[k]
  BY <1>1 DEF purge, Running, Entry
<1>4. Full(p) /\ k \in Oldest(p)
  <2>1. PICK o \in Oldest(p) : b = [p EXCEPT ![o] = None] /\ Full(p)
    BY <1>1, <1>3 DEF Room
  <2>2. p \in Entries
    BY <1>1, PurgeShrinks
  <2> QED
    BY <1>1, <1>3, <2>1, <2>2 DEF Entries
<1>5. Present(p) = Present(buckets)
  <2>1. Cardinality(Present(buckets)) <= MaxBuckets /\ Cardinality(Present(p)) >= MaxBuckets
    BY <1>4 DEF IInv, MemoryBound, Full
  <2>2. IsFiniteSet(Present(p)) /\ Cardinality(Present(p)) <= Cardinality(Present(buckets))
    BY <1>1, <1>2, FS_Subset
  <2>3. Cardinality(Present(p)) \in Nat /\ Cardinality(Present(buckets)) \in Nat
    BY <1>1, <2>2, FS_CardinalityType
  <2>4. Cardinality(Present(p)) = Cardinality(Present(buckets))
    BY <2>1, <2>2, <2>3, LimiterAssumption
  <2> QED
    BY <1>1, <1>2, <2>4, FS_Subset
<1>6. p[j] = buckets[j] /\ j \in Present(p)
  BY <1>1, <1>2, <1>5 DEF Present
<1>7. buckets[k].resetAt <= buckets[j].resetAt
  BY <1>3, <1>4, <1>6 DEF Oldest
<1> QED
  BY <1>1, <1>7 DEF Running, Entry

-----------------------------------------------------------------------------
\* Initially the map is empty.
LEMMA InitIInv == Init => IInv
<1> SUFFICES ASSUME Init PROVE IInv
  OBVIOUS
<1>1. Present(buckets) = {}
  BY DEF Init, Present
<1>2. IsFiniteSet(Present(buckets)) /\ Cardinality(Present(buckets)) = 0
  BY <1>1, FS_EmptySet
<1>3. TypeOK
  BY LimiterAssumption DEF Init, TypeOK
<1> QED
  BY <1>1, <1>2, <1>3, LimiterAssumption
     DEF IInv, MemoryBound, CountsAreAdmissions, ToldTheEnd

\* Allow keeps the invariant, of the key it answers and of the others.
LEMMA AllowIInv ==
  ASSUME IInv, NEW k \in Keys, Allow(k)
  PROVE  IInv'
<1>1. PICK b \in Entered(k) : buckets' = [b EXCEPT ![k] = Counted(Renewed(b[k]))]
  BY DEF Allow
<1>2. /\ b \in Entries
      /\ b[k] \in Entry
      /\ \A j \in Keys \ {k} : b[j] \in {buckets[j], None}
      /\ IsFiniteSet(Present(b))
      /\ Cardinality(Present(b)) <= MaxBuckets
  BY EnteredMap
<1>3. /\ buckets'[k] \in Entry
      /\ Budgeted(k, buckets[k])'
      /\ retryAt'[k] # None => retryAt'[k] = buckets'[k].resetAt
      /\ log' \in [Keys -> Seq(Nat)]
      /\ \A j \in Keys \ {k} : log'[j] = log[j] /\ retryAt'[j] = retryAt[j]
      /\ retryAt' \in [Keys -> Nat \cup {None}]
  BY AnswerIsBudgeted
<1>4. buckets' \in Entries /\ \A j \in Keys \ {k} : buckets'[j] = b[j]
  BY <1>1, <1>2, <1>3 DEF Entries
<1>5. Present(buckets)' = Present(b)
  BY <1>2, <1>3, <1>4, NoneAssumption DEF Present
<1>6. now' = now /\ now \in 0..MaxTime
  BY DEF Allow, IInv, TypeOK
<1>7. TypeOK'
  <2>1. calls' \in [Keys -> 0..MaxCalls]
    <3>1. calls \in [Keys -> 0..MaxCalls] /\ calls[k] < MaxCalls
          /\ calls' = [calls EXCEPT ![k] = @ + 1]
      BY DEF Allow, IInv, TypeOK
    <3>2. calls[k] + 1 \in 0..MaxCalls
      BY <3>1, LimiterAssumption
    <3> QED
      BY <3>1, <3>2
  <2>2. evictions' \in [Keys -> Nat]
    BY DEF Allow, Charged, IInv, TypeOK
  <2> QED
    BY <1>3, <1>4, <1>6, <2>1, <2>2 DEF TypeOK, Entries
<1>8. IsFiniteSet(Present(buckets))' /\ MemoryBound'
  BY <1>2, <1>5 DEF MemoryBound
<1>9. ASSUME NEW j \in Present(buckets)', j # k
      PROVE  /\ Budgeted(j, buckets[j])'
             /\ retryAt'[j] # None => retryAt'[j] = buckets'[j].resetAt
  <2>1. j \in Keys /\ buckets'[j] = buckets[j] /\ buckets[j] # None
    BY <1>2, <1>4, <1>9 DEF Present
  <2>2. Budgeted(j, buckets[j])
        /\ (retryAt[j] # None => retryAt[j] = buckets[j].resetAt)
    BY <2>1 DEF IInv, CountsAreAdmissions, ToldTheEnd, Present
  <2> QED
    BY <1>3, <1>6, <1>9, <2>1, <2>2 DEF Budgeted, LastSince
<1>10. CountsAreAdmissions' /\ ToldTheEnd'
  BY <1>3, <1>9 DEF CountsAreAdmissions, ToldTheEnd
<1> QED
  BY <1>7, <1>8, <1>10 DEF IInv

\* As time goes by no window ends later.
LEMMA TickIInv ==
  ASSUME IInv, Tick
  PROVE  IInv'
<1>1. /\ now \in Nat /\ now' = now + 1 /\ now' \in 0..MaxTime
      /\ buckets' = buckets /\ log' = log /\ retryAt' = retryAt
  BY LimiterAssumption DEF Tick, IInv, TypeOK
<1>2. Present(buckets)' = Present(buckets)
  BY <1>1 DEF Present
<1>3. TypeOK'
  BY <1>1 DEF Tick, IInv, TypeOK
<1>4. CountsAreAdmissions'
  <2> SUFFICES ASSUME NEW k \in Present(buckets) PROVE Budgeted(k, buckets[k])'
    BY <1>2 DEF CountsAreAdmissions
  <2>1. Budgeted(k, buckets[k]) /\ buckets[k] \in Entry
    BY DEF IInv, TypeOK, CountsAreAdmissions, Present
  <2> QED
    BY <1>1, <2>1, LimiterAssumption DEF Budgeted, LastSince, Entry
<1> QED
  BY <1>1, <1>2, <1>3, <1>4 DEF IInv, MemoryBound, ToldTheEnd

(***************************************************************************)
(* IInv is an invariant of the limiter.                                    *)
(***************************************************************************)
THEOREM Inductive == Spec => []IInv
<1>1. IInv /\ [Next]_vars => IInv'
  <2> SUFFICES ASSUME IInv, [Next]_vars PROVE IInv'
    OBVIOUS
  <2>1. ASSUME NEW k \in Keys, Allow(k) PROVE IInv'
    BY <2>1, AllowIInv
  <2>2. CASE Tick
    BY <2>2, TickIInv
  <2>3. CASE UNCHANGED vars
    BY <2>3 DEF IInv, TypeOK, MemoryBound, CountsAreAdmissions, ToldTheEnd, Budgeted,
               LastSince, Present, vars
  <2> QED
    BY <2>1, <2>2, <2>3 DEF Next
<1> QED
  BY InitIInv, <1>1, PTL DEF Spec

(***************************************************************************)
(* However many keys arrive, the map never holds more than MaxBuckets of   *)
(* them (Allow, purge and evictOldest).                                    *)
(***************************************************************************)
THEOREM MemoryIsBounded == Spec => []MemoryBound
<1>1. IInv => MemoryBound
  BY DEF IInv
<1> QED
  BY Inductive, <1>1, PTL

(***************************************************************************)
(* A key over its limit was admitted Max times within its window (Allow).  *)
(***************************************************************************)
THEOREM RefusalsAreEarned == Spec => []RefusalIsEarned
<1>1. IInv => RefusalIsEarned
  BY DEF IInv, CountsAreAdmissions, Budgeted, RefusalIsEarned
<1> QED
  BY Inductive, <1>1, PTL

(***************************************************************************)
(* A client that comes back when it was told to is admitted (Allow).       *)
(***************************************************************************)
THEOREM RetryAfterIsHonoured == Spec => RetryAfterHonoured
<1> DEFINE A == \A k \in Keys :
                  retryAt[k] # None /\ retryAt[k] <= now /\ calls'[k] # calls[k] =>
                    retryAt'[k] = None
<1>1. IInv /\ [Next]_vars => [A]_vars
  <2> SUFFICES ASSUME IInv, Next PROVE A
    OBVIOUS
  <2>1. ASSUME NEW j \in Keys, Allow(j) PROVE A
    <3>1. calls' = [calls EXCEPT ![j] = @ + 1] /\ calls \in [Keys -> 0..MaxCalls]
      BY <2>1 DEF Allow, IInv, TypeOK
    <3>2. retryAt[j] # None /\ retryAt[j] <= now => retryAt'[j] = None
      BY <2>1, AnswerIsBudgeted
    <3> QED
      BY <3>1, <3>2
  <2>2. CASE Tick
    BY <2>2 DEF Tick
  <2> QED
    BY <2>1, <2>2 DEF Next
<1> QED
  BY Inductive, <1>1, PTL DEF Spec, RetryAfterHonoured

(***************************************************************************)
(* A running window is dropped only when every window is running, and then *)
(* one that ends first (purge before evictOldest).                         *)
(***************************************************************************)
THEOREM SoonestIsEvicted == Spec => EvictsSoonest
<1> DEFINE A == \A k, j \in Keys :
                  /\ {k, j} \subseteq Present(buckets)
                  /\ Running(buckets[k])
                  /\ buckets'[k] = None
                  => Running(buckets[j]) /\ buckets[k].resetAt <= buckets[j].resetAt
<1>1. IInv /\ [Next]_vars => [A]_vars
  <2> SUFFICES ASSUME IInv, Next,
                      NEW k \in Present(buckets), NEW j \in Present(buckets),
                      Running(buckets[k]), buckets'[k] = None
               PROVE  Running(buckets[j]) /\ buckets[k].resetAt <= buckets[j].resetAt
    BY DEF Present
  <2>1. buckets[k] # None /\ k \in Keys
    BY DEF Present
  <2>2. PICK i \in Keys : Allow(i)
    BY <2>1 DEF Next, Tick
  <2>3. PICK b \in Entered(i) : buckets' = [b EXCEPT ![i] = Counted(Renewed(b[i]))]
    BY <2>2 DEF Allow
  <2>4. b \in Entries /\ buckets'[i] \in Entry
    BY <2>2, EnteredMap, AnswerIsBudgeted
  <2>5. k # i /\ b[k] = None
    BY <2>1, <2>3, <2>4, NoneAssumption DEF Entries
  <2>6. PICK r \in Room : b = [r EXCEPT ![i] = [count |-> 0, resetAt |-> now + Window]]
    BY <2>1, <2>5 DEF Entered
  <2>7. r[k] = None
    BY <2>1, <2>5, <2>6, RoomShrinks DEF Entries
  <2> QED
    BY <2>6, <2>7, RoomDropsSoonest
<1> QED
  BY Inductive, <1>1, PTL DEF Spec, EvictsSoonest

-----------------------------------------------------------------------------
(***************************************************************************)
(* The budget over any stretch of length Window.  What is paced is the     *)
(* sequence of a key's admissions.                                         *)
(***************************************************************************)
\* All but the last n of the admissions s happened by time t.
By(s, n, t) == \A j \in 1..Len(s) : j + n <= Len(s) => s[j] <= t

Sorted(s) == \A i, j \in 1..Len(s) : i <= j => s[i] <= s[j]

\* Of n + 1 admissions in a row the first and the last are w apart.
Apart(s, n, w) == \A j \in 1..Len(s) : j + n <= Len(s) => s[j + n] >= s[j] + w

\* Admissions that evictions may have cost on top of those of the current window.
Earlier(n) == (1 + n) * Max

\* The admissions that the entry e stands for.
Admitted(e) == IF e.count > Max THEN Max ELSE e.count

(***************************************************************************)
(* The window before that of an entry, and all of its predecessors that    *)
(* were not evicted, lie a Window and more before it began; without an     *)
(* entry, they lie a Window before now.                                    *)
(***************************************************************************)
PacedEntry(s, n, e) ==
  /\ By(s, Admitted(e), e.resetAt - Window)
  /\ By(s, Admitted(e) + Earlier(n), e.resetAt - Window - Window)

Paced(k) ==
  /\ Sorted(log[k])
  /\ By(log[k], 0, now)
  /\ Apart(log[k], Earlier(evictions[k]) + Max, Window)
  /\ IF buckets[k] = None
     THEN By(log[k], Earlier(evictions[k]), now - Window)
     ELSE PacedEntry(log[k], evictions[k], buckets[k])

AllPaced == \A k \in Keys : Paced(k)

-----------------------------------------------------------------------------
\* Arithmetic of the allowance.
LEMMA EarlierGrows ==
  ASSUME NEW n \in Nat
  PROVE  /\ Earlier(n) \in Nat
         /\ Earlier(n) >= Max
         /\ Earlier(n + 1) = Earlier(n) + Max
         /\ (2 + n) * Max = Earlier(n) + Max
<1>1. n * Max \in Nat /\ Max \in Nat
  BY LimiterAssumption
<1>2. (1 + n) * Max = n * Max + Max
  BY <1>1
<1>3. (1 + (n + 1)) * Max = n * Max + Max + Max /\ (2 + n) * Max = n * Max + Max + Max
  BY <1>1
<1> QED
  BY <1>1, <1>2, <1>3 DEF Earlier

\* Leaving out more of them, or waiting longer, keeps the rest in the past.
LEMMA ByWeaker ==
  ASSUME NEW s \in Seq(Nat), NEW m \in Nat, NEW n \in Nat, m <= n,
         NEW t \in Int, NEW u \in Int, t <= u, By(s, m, t)
  PROVE  By(s, n, u)
<1> SUFFICES ASSUME NEW j \in 1..Len(s), j + n <= Len(s) PROVE s[j] <= u
  BY DEF By
<1>1. s[j] \in Nat /\ Len(s) \in Nat
  OBVIOUS
<1>2. s[j] <= t
  BY <1>1 DEF By
<1> QED
  BY <1>1, <1>2

\* Of n + 1 sorted admissions, more of them are still further apart.
LEMMA ApartWeaker ==
  ASSUME NEW s \in Seq(Nat), NEW m \in Nat, NEW n \in Nat, m <= n, NEW w \in Nat,
         Sorted(s), Apart(s, m, w)
  PROVE  Apart(s, n, w)
<1> SUFFICES ASSUME NEW j \in 1..Len(s), j + n <= Len(s) PROVE s[j + n] >= s[j] + w
  BY DEF Apart
<1>1. /\ Len(s) \in Nat
      /\ j + m \in 1..Len(s) /\ j + n \in 1..Len(s) /\ j + m <= j + n /\ j + m <= Len(s)
  OBVIOUS
<1>2. s[j] \in Nat /\ s[j + m] \in Nat /\ s[j + n] \in Nat
  BY <1>1
<1>3. s[j + m] >= s[j] + w
  BY <1>1 DEF Apart
<1>4. s[j + m] <= s[j + n]
  BY <1>1 DEF Sorted
<1>5. \A a, b, c \in Nat : b >= a + w /\ b <= c => c >= a + w
  OBVIOUS
<1> QED
  BY <1>2, <1>3, <1>4, <1>5, Zenon

\* One more admission, at time x.
LEMMA OneMore ==
  ASSUME NEW s \in Seq(Nat), NEW x \in Nat, NEW r, r = Append(s, x)
  PROVE  /\ \A n \in Nat, t \in Int : By(s, n, t) => By(r, n + 1, t)
         /\ Sorted(s) /\ By(s, 0, x) => Sorted(r) /\ By(r, 0, x)
         /\ \A n \in Nat, w \in Nat :
              Apart(s, n + 1, w) /\ By(s, n, x - w) => Apart(r, n + 1, w)
<1>a. Len(s) \in Nat /\ \A j \in 1..Len(s) : s[j] \in Nat
  OBVIOUS
<1>b. Len(r) = Len(s) + 1
  OBVIOUS
<1>c. r[Len(s) + 1] = x
  OBVIOUS
<1>d. \A j \in 1..Len(s) : r[j] = s[j]
  OBVIOUS
<1>1. /\ Len(s) \in Nat /\ Len(r) = Len(s) + 1 /\ r[Len(s) + 1] = x
      /\ \A j \in 1..Len(s) : r[j] = s[j] /\ s[j] \in Nat
  BY <1>a, <1>b, <1>c, <1>d
<1>2. ASSUME NEW n \in Nat, NEW t \in Int, By(s, n, t) PROVE By(r, n + 1, t)
  <2> SUFFICES ASSUME NEW j \in 1..Len(r), j + (n + 1) <= Len(r) PROVE r[j] <= t
    BY DEF By
  <2>1. j \in 1..Len(s) /\ j + n <= Len(s)
    BY <1>1
  <2> QED
    BY <1>1, <1>2, <2>1 DEF By
<1>3. ASSUME Sorted(s), By(s, 0, x) PROVE Sorted(r) /\ By(r, 0, x)
  <2>1. \A j \in 1..Len(s) : s[j] <= x
    BY <1>1, <1>3 DEF By
  <2>2. \A j \in 1..Len(r) : r[j] <= x
    BY <1>1, <2>1
  <2>3. By(r, 0, x)
    BY <2>2 DEF By
  <2>4. ASSUME NEW i \in 1..Len(r), NEW j \in 1..Len(r), i <= j PROVE r[i] <= r[j]
    <3>1. CASE j = Len(s) + 1
      BY <1>1, <2>2, <3>1
    <3>2. CASE j # Len(s) + 1
      <4>1. i \in 1..Len(s) /\ j \in 1..Len(s)
        BY <1>1, <2>4, <3>2
      <4>2. s[i] <= s[j]
        BY <1>3, <2>4, <4>1 DEF Sorted
      <4> QED
        BY <1>1, <4>1, <4>2
    <3> QED
      BY <3>1, <3>2
  <2> QED
    BY <2>3, <2>4 DEF Sorted
<1>4. ASSUME NEW n \in Nat, NEW w \in Nat, Apart(s, n + 1, w), By(s, n, x - w)
      PROVE  Apart(r, n + 1, w)
  <2> SUFFICES ASSUME NEW j \in 1..Len(r), j + (n + 1) <= Len(r)
               PROVE  r[j + (n + 1)] >= r[j] + w
    BY DEF Apart
  <2>1. j \in 1..Len(s) /\ r[j] = s[j] /\ s[j] \in Nat /\ j + n <= Len(s)
    BY <1>1
  <2>2. CASE j + (n + 1) = Len(r)
    <3>1. s[j] <= x - w
      BY <1>4, <2>1 DEF By
    <3> QED
      BY <1>1, <2>1, <2>2, <3>1
  <2>3. CASE j + (n + 1) # Len(r)
    <3>1. j + (n + 1) \in 1..Len(s) /\ j + (n + 1) <= Len(s)
      <4>1. j \in Nat /\ j >= 1 /\ j + (n + 1) # Len(s) + 1 /\ j + n <= Len(s)
        BY <1>1, <2>1, <2>3
      <4>2. \A p, q, m \in Nat : p + q <= m /\ p + (q + 1) # m + 1 => p + (q + 1) <= m
        OBVIOUS
      <4>3. j + (n + 1) <= Len(s)
        BY <1>1, <4>1, <4>2, Zenon
      <4> QED
        BY <1>1, <4>1, <4>3
    <3>2. s[j + (n + 1)] >= s[j] + w
      BY <1>4, <2>1, <3>1 DEF Apart
    <3> QED
      BY <1>1, <2>1, <3>1, <3>2
  <2> QED
    BY <2>2, <2>3
<1> QED
  BY <1>2, <1>3, <1>4

-----------------------------------------------------------------------------
\* How many evictions Allow(k) charges to each key.
LEMMA EvictionsCharged ==
  ASSUME IInv, NEW k \in Keys, NEW b \in Entered(k),
         evictions' = Charged(b)
  PROVE  /\ evictions'[k] = evictions[k]
         /\ \A j \in Keys :
              \/ evictions'[j] = evictions[j]
              \/ /\ evictions'[j] = evictions[j] + 1
                 /\ buckets[j] # None /\ b[j] = None
         /\ \A j \in Keys :
              buckets[j] # None /\ b[j] = None /\ evictions'[j] = evictions[j] =>
                buckets[j].resetAt <= now
<1>1. b[k] \in Entry /\ buckets \in Entries /\ evictions \in [Keys -> Nat] /\ now \in Nat
  BY EnteredMap DEF IInv, TypeOK, Entries
<1>2. b[k] # None
  BY <1>1, NoneAssumption
<1>3. ASSUME NEW j \in Keys, buckets[j] # None, b[j] = None, evictions'[j] = evictions[j]
      PROVE  buckets[j].resetAt <= now
  <2>1. j \in Present(buckets) /\ buckets[j] \in Entry /\ evictions[j] \in Nat
    BY <1>1, <1>3 DEF Present, Entries
  <2>2. ~Running(buckets[j])
    BY <1>3, <2>1 DEF Charged
  <2> QED
    BY <1>1, <2>1, <2>2 DEF Running, Entry
<1> QED
  BY <1>2, <1>3 DEF Charged, Present

\* The entry that Allow counts in, found, made or renewed, is paced.
LEMMA RenewedIsPaced ==
  ASSUME IInv, NEW k \in Keys, Paced(k), NEW b \in Entered(k)
  PROVE  PacedEntry(log[k], evictions[k], Renewed(b[k]))
<1> DEFINE s == log[k]
           n == evictions[k]
           new == [count |-> 0, resetAt |-> now + Window]
<1>1. /\ b[k] \in Entry
      /\ \/ buckets[k] # None /\ b = buckets
         \/ buckets[k] = None /\ b[k] = new
  BY EnteredMap
<1>2. s \in Seq(Nat) /\ n \in Nat /\ now \in Nat /\ Window \in Nat /\ Max \in Nat
  BY LimiterAssumption DEF IInv, TypeOK
<1>3. Earlier(n) \in Nat /\ Earlier(n) >= Max
  BY <1>2, EarlierGrows
<1>4. /\ By(s, 0, now)
      /\ buckets[k] = None => By(s, Earlier(n), now - Window)
      /\ buckets[k] # None => PacedEntry(s, n, buckets[k])
  BY DEF Paced
<1> HIDE DEF s, n
<1>5. ASSUME By(s, Earlier(n), now - Window) PROVE PacedEntry(s, n, new)
  <2>1. Admitted(new) = 0 /\ new.resetAt - Window = now
    BY <1>2 DEF Admitted
  <2>2. 0 + Earlier(n) = Earlier(n)
    BY <1>3
  <2> HIDE DEF new
  <2> QED
    BY <1>4, <1>5, <2>1, <2>2 DEF PacedEntry
<1>6. CASE buckets[k] = None
  <2>1. Renewed(b[k]) = new
    BY <1>1, <1>6 DEF Renewed
  <2> QED
    BY <1>4, <1>5, <1>6, <2>1 DEF s, n
<1>7. CASE buckets[k] # None
  <2>1. b[k] = buckets[k] /\ PacedEntry(s, n, b[k])
    BY <1>1, <1>4, <1>7
  <2>2. CASE now >= b[k].resetAt
    <3>1. Renewed(b[k]) = new
      BY <2>2 DEF Renewed
    <3>2. /\ Admitted(b[k]) \in Nat /\ Admitted(b[k]) <= Earlier(n)
          /\ b[k].resetAt - Window \in Int /\ b[k].resetAt - Window <= now - Window
      BY <1>1, <1>2, <1>3, <2>2 DEF Admitted, Entry
    <3>3. By(s, Earlier(n), now - Window)
      <4>1. By(s, Admitted(b[k]), b[k].resetAt - Window)
        BY <2>1 DEF PacedEntry
      <4>2. now - Window \in Int
        BY <1>2
      <4> QED
        BY <1>2, <1>3, <3>2, <4>1, <4>2, ByWeaker
    <3> QED
      BY <1>5, <3>1, <3>3 DEF s, n
  <2>3. CASE ~(now >= b[k].resetAt)
    BY <2>1, <2>3 DEF Renewed, s, n
  <2> QED
    BY <2>2, <2>3
<1> QED
  BY <1>6, <1>7

\* Allow keeps the key it answers paced.
LEMMA AnswerIsPaced ==
  ASSUME IInv, NEW k \in Keys, Paced(k), Allow(k)
  PROVE  Paced(k)'
<1>1. PICK b \in Entered(k) :
        LET e == Counted(Renewed(b[k])) IN
        /\ buckets' = [b EXCEPT ![k] = e]
        /\ IF e.count > Max
           THEN UNCHANGED log
           ELSE log' = [log EXCEPT ![k] = Append(@, now)]
        /\ evictions' = Charged(b)
  BY DEF Allow
<1> DEFINE s == log[k]
           n == evictions[k]
           r == Renewed(b[k])
           e == Counted(r)
           a == Admitted(r)
           S == r.resetAt - Window
<1>2. b \in Entries /\ b[k] \in Entry
  BY EnteredMap
<1>3. /\ s \in Seq(Nat) /\ n \in Nat /\ now \in Nat /\ Window \in Nat
      /\ Max \in Nat /\ Max >= 1 /\ now' = now /\ log \in [Keys -> Seq(Nat)]
  BY LimiterAssumption DEF IInv, TypeOK, Allow
<1>4. Earlier(n) \in Nat
  BY <1>3, EarlierGrows
<1>5. /\ r \in Entry /\ e \in Entry /\ e.resetAt = r.resetAt
      /\ e.count = IF r.count > Max THEN r.count ELSE r.count + 1
  BY <1>2, <1>3, CountedType
<1>6. buckets'[k] = e /\ e # None
  BY <1>1, <1>2, <1>5, NoneAssumption DEF Entries
<1>7. evictions'[k] = n
  BY <1>1, EvictionsCharged
<1>8. By(s, a, S) /\ By(s, a + Earlier(n), S - Window)
  BY RenewedIsPaced DEF PacedEntry
<1>9. Sorted(s) /\ By(s, 0, now) /\ Apart(s, Earlier(n) + Max, Window)
  BY DEF Paced
<1>10. a \in 0..Max /\ S \in Int /\ S - Window \in Int
  BY <1>3, <1>5 DEF Admitted, Entry
<1>11. S <= now
  <2>1. buckets'[k].resetAt <= now' + Window
    BY AnswerIsBudgeted DEF Budgeted
  <2> QED
    BY <1>3, <1>5, <1>6, <2>1 DEF Entry
<1>12. CASE e.count > Max
  <2>1. log'[k] = s
    BY <1>1, <1>12
  <2>2. Admitted(e) = a
    BY <1>3, <1>5, <1>12 DEF Admitted, Entry
  <2>3. PacedEntry(s, n, e)
    BY <1>5, <1>8, <2>2 DEF PacedEntry
  <2> HIDE DEF s, n, e
  <2> QED
    BY <1>3, <1>6, <1>7, <1>9, <2>1, <2>3 DEF Paced
<1>13. CASE ~(e.count > Max)
  <2> DEFINE t == log'[k]
  <2>1. t = Append(s, now)
    BY <1>1, <1>3, <1>13
  <2>2. Admitted(e) = a + 1 /\ a + 1 <= Max
    BY <1>3, <1>5, <1>13 DEF Admitted, Entry
  <2> HIDE DEF s, n, r, e, a, S, t
  <2>3. By(t, a + 1, S) /\ By(t, a + Earlier(n) + 1, S - Window)
    <3>1. a \in Nat /\ a + Earlier(n) \in Nat
      BY <1>4, <1>10
    <3> QED
      BY <1>3, <1>8, <1>10, <2>1, <3>1, OneMore
  <2>4. PacedEntry(t, n, e)
    <3>1. a + Earlier(n) + 1 = a + 1 + Earlier(n)
      BY <1>4, <1>10
    <3>2. e.resetAt - Window = S
      BY <1>5 DEF S
    <3> QED
      BY <2>2, <2>3, <3>1, <3>2 DEF PacedEntry
  <2>5. Sorted(t) /\ By(t, 0, now)
    BY <1>3, <1>9, <2>1, OneMore
  <2>6. Apart(t, Earlier(n) + Max, Window)
    <3>1. PICK m \in Nat : m = Earlier(n) + Max - 1
      BY <1>3, <1>4
    <3>2. m + 1 = Earlier(n) + Max /\ a + Earlier(n) <= m /\ a + Earlier(n) \in Nat
      BY <1>3, <1>4, <1>10, <2>2, <3>1
    <3>3. By(s, m, now - Window)
      <4>1. now - Window \in Int /\ S - Window <= now - Window
        BY <1>3, <1>10, <1>11
      <4> QED
        BY <1>3, <1>8, <1>10, <3>2, <4>1, ByWeaker
    <3>4. Apart(s, m + 1, Window)
      BY <1>9, <3>2
    <3>5. Apart(t, m + 1, Window)
      BY <1>3, <2>1, <3>3, <3>4, OneMore
    <3> QED
      BY <3>2, <3>5
  <2> QED
    BY <1>3, <1>6, <1>7, <2>4, <2>5, <2>6 DEF Paced, t
<1> QED
  BY <1>12, <1>13

\* What Allow does to the entries of the other keys keeps them paced.
LEMMA OthersStayPaced ==
  ASSUME IInv, NEW k \in Keys, NEW i \in Keys \ {k}, Paced(i), Allow(k)
  PROVE  Paced(i)'
<1>1. PICK b \in Entered(k) :
        /\ buckets' = [b EXCEPT ![k] = Counted(Renewed(b[k]))]
        /\ evictions' = Charged(b)
  BY DEF Allow
<1> DEFINE s == log[i]
           n == evictions[i]
           e == buckets[i]
<1>2. b \in Entries /\ b[i] \in {e, None}
  BY EnteredMap
<1>3. /\ s \in Seq(Nat) /\ n \in Nat /\ now \in Nat /\ Window \in Nat
      /\ Max \in Nat /\ now' = now /\ buckets \in Entries
  BY LimiterAssumption DEF IInv, TypeOK, Allow, Entries
<1>4. log'[i] = s
  BY AnswerIsBudgeted
<1>5. buckets'[i] = b[i]
  BY <1>1, <1>2 DEF Entries
<1>6. /\ Earlier(n) \in Nat /\ Earlier(n) >= Max
      /\ Earlier(n + 1) = Earlier(n) + Max
  BY <1>3, EarlierGrows
<1>7. /\ evictions'[i] = n \/ (evictions'[i] = n + 1 /\ e # None /\ b[i] = None)
      /\ e # None /\ b[i] = None /\ evictions'[i] = n => e.resetAt <= now
  BY <1>1, EvictionsCharged
<1>8. Sorted(s) /\ By(s, 0, now) /\ Apart(s, Earlier(n) + Max, Window)
  BY DEF Paced
<1>9. CASE b[i] = e
  <2>1. evictions'[i] = n
    BY <1>7, <1>9
  <2> QED
    BY <1>3, <1>4, <1>5, <1>9, <2>1 DEF Paced
<1>10. CASE e # None /\ b[i] = None
  <2>1. By(s, Admitted(e), e.resetAt - Window)
        /\ By(s, Admitted(e) + Earlier(n), e.resetAt - Window - Window)
    BY <1>10 DEF Paced, PacedEntry
  <2>2. /\ e \in Entry /\ Admitted(e) \in Nat /\ Admitted(e) <= Max
        /\ e.resetAt - Window \in Int /\ e.resetAt - Window - Window \in Int
    BY <1>3, <1>10 DEF Entries, Entry, Admitted
  <2>3. now - Window \in Int
    BY <1>3
  <2> HIDE DEF s, n, e
  <2>4. CASE evictions'[i] = n
    <3>1. Admitted(e) <= Earlier(n) /\ e.resetAt - Window <= now - Window
      BY <1>3, <1>6, <1>7, <1>10, <2>2, <2>4 DEF Entry
    <3>2. By(s, Earlier(n), now - Window)
      BY <1>3, <1>6, <2>1, <2>2, <2>3, <3>1, ByWeaker
    <3> QED
      BY <1>3, <1>4, <1>5, <1>8, <1>10, <2>4, <3>2 DEF Paced
  <2>5. CASE evictions'[i] = n + 1
    <3>1. /\ Earlier(n + 1) \in Nat /\ Admitted(e) + Earlier(n) \in Nat
          /\ Admitted(e) + Earlier(n) <= Earlier(n + 1)
      BY <1>3, <1>6, <2>2
    <3>2. e.resetAt - Window - Window <= now - Window
      <4>1. e.resetAt <= now + Window
        BY <1>10 DEF IInv, CountsAreAdmissions, Budgeted, Present, e
      <4> QED
        BY <1>3, <2>2, <4>1 DEF Entry
    <3>3. By(s, Earlier(n + 1), now - Window)
      BY <1>3, <2>1, <2>2, <2>3, <3>1, <3>2, ByWeaker
    <3>4. Apart(s, Earlier(n + 1) + Max, Window)
      <4>1. /\ Earlier(n) + Max \in Nat /\ Earlier(n + 1) + Max \in Nat
            /\ Earlier(n) + Max <= Earlier(n + 1) + Max
        BY <1>3, <1>6
      <4> QED
        BY <1>3, <1>8, <4>1, ApartWeaker
    <3> QED
      BY <1>3, <1>4, <1>5, <1>8, <1>10, <2>5, <3>3, <3>4 DEF Paced
  <2> QED
    BY <1>7, <2>4, <2>5
<1> QED
  BY <1>2, <1>9, <1>10

\* As time goes by, what was in the past stays there.
LEMMA TickIsPaced ==
  ASSUME IInv, NEW k \in Keys, Paced(k), Tick
  PROVE  Paced(k)'
<1> DEFINE s == log[k]
           n == evictions[k]
<1>1. /\ s \in Seq(Nat) /\ n \in Nat /\ now \in Nat /\ Window \in Nat /\ now' = now + 1
      /\ buckets' = buckets /\ log' = log /\ evictions' = evictions
  BY LimiterAssumption DEF IInv, TypeOK, Tick
<1>2. Earlier(n) \in Nat
  BY <1>1, EarlierGrows
<1>3. By(s, 0, now) => By(s, 0, now')
  BY <1>1, ByWeaker
<1>4. By(s, Earlier(n), now - Window) => By(s, Earlier(n), now' - Window)
  <2>1. now - Window \in Int /\ now' - Window \in Int /\ now - Window <= now' - Window
    BY <1>1
  <2> HIDE DEF s, n
  <2> QED
    BY <1>1, <1>2, <2>1, ByWeaker
<1> QED
  BY <1>1, <1>3, <1>4 DEF Paced

(***************************************************************************)
(* Over any stretch of time of length Window a key is admitted at most     *)
(* two windows' worth of requests, plus one for each time a running window *)
(* of it was evicted (Allow, purge and evictOldest).                       *)
(***************************************************************************)
THEOREM BudgetSlides == Spec => []SlidingBudget
<1>1. Init => AllPaced
  <2> SUFFICES ASSUME Init, NEW k \in Keys PROVE Paced(k)
    BY DEF AllPaced
  <2>1. log[k] = <<>> /\ buckets[k] = None
    BY DEF Init
  <2> QED
    BY <2>1 DEF Paced, Sorted, By, Apart
<1>2. IInv /\ AllPaced /\ [Next]_vars => AllPaced'
  <2> SUFFICES ASSUME IInv, AllPaced, [Next]_vars, NEW i \in Keys PROVE Paced(i)'
    BY DEF AllPaced
  <2>1. Paced(i)
    BY DEF AllPaced
  <2>2. ASSUME NEW k \in Keys, Allow(k) PROVE Paced(i)'
    BY <2>1, <2>2, AnswerIsPaced, OthersStayPaced
  <2>3. CASE Tick
    BY <2>1, <2>3, TickIsPaced
  <2>4. CASE UNCHANGED vars
    BY <2>1, <2>4 DEF Paced, vars
  <2> QED
    BY <2>2, <2>3, <2>4 DEF Next
<1>3. IInv /\ AllPaced => SlidingBudget
  <2> SUFFICES ASSUME IInv, AllPaced, NEW k \in Keys
               PROVE  LET n == (2 + evictions[k]) * Max
                      IN  \A j \in 1..Len(log[k]) :
                            j + n <= Len(log[k]) => log[k][j + n] >= log[k][j] + Window
    BY DEF SlidingBudget
  <2>1. evictions[k] \in Nat
    BY DEF IInv, TypeOK
  <2>2. (2 + evictions[k]) * Max = Earlier(evictions[k]) + Max
    BY <2>1, EarlierGrows
  <2>3. Apart(log[k], (2 + evictions[k]) * Max, Window)
    BY <2>2 DEF AllPaced, Paced
  <2> QED
    BY <2>3, Zenon DEF Apart
<1> QED
  BY Inductive, <1>1, <1>2, <1>3, PTL DEF Spec
=============================================================================
