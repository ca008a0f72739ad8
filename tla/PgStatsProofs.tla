--------------------------- MODULE PgStatsProofs ---------------------------
(***************************************************************************)
(* The PostgreSQL store implements the promise stated in Stats, for any    *)
(* number of workers, vouchers and calls.                                  *)
(***************************************************************************)
EXTENDS PgStats, TLAPS

\* Every record of the transactions is well typed, also after an update.
LEMMA NewRowType ==
  ASSUME TypeOK, NEW w \in Workers
  PROVE  NewRow(w) \in Row
BY DEF TypeOK, Tx, Row, NewRow

\* Initially nothing is counted and no transaction is open.
LEMMA InitIInv == Init => IInv
BY PgStatsAssumption
   DEF Init, Idle, NoRow, IInv, TypeOK, Tx, Row, LockedRow, UniqueInsert, Pending,
       AckedIsCounted

\* Opening a transaction or a statement locks and changes nothing.
LEMMA RecordTwStep ==
  ASSUME IInv, NEW w \in Workers, NEW amount \in Cents, NEW ref \in Refs \cup {NoRef},
         RecordTw(w, amount, ref)
  PROVE  IInv'
<1>1. TypeOK'
  BY PgStatsAssumption DEF IInv, TypeOK, Tx, Row, NoRow, RecordTw, rows
<1>2. LockedRow'
  BY DEF IInv, TypeOK, LockedRow, RecordTw, rows
<1>3. UniqueInsert'
  BY PgStatsAssumption DEF IInv, TypeOK, UniqueInsert, Pending, RecordTw, rows
<1>4. AckedIsCounted'
  BY DEF IInv, AckedIsCounted, RecordTw, rows
<1> QED
  BY <1>1, <1>2, <1>3, <1>4 DEF IInv

\* The same for the counting of a failure; the idle record has no reference.
LEMMA RecordTwErrorStep ==
  ASSUME IInv, NEW w \in Workers, RecordTwError(w)
  PROVE  IInv'
<1>1. TypeOK'
  BY PgStatsAssumption DEF IInv, TypeOK, Tx, RecordTwError, rows
<1>2. LockedRow'
  BY DEF IInv, TypeOK, Tx, LockedRow, RecordTwError, rows
<1>3. UniqueInsert'
  BY DEF IInv, TypeOK, Tx, UniqueInsert, Pending, RecordTwError, rows
<1>4. AckedIsCounted'
  BY DEF IInv, AckedIsCounted, RecordTwError, rows
<1> QED
  BY <1>1, <1>2, <1>3, <1>4 DEF IInv

\* An insert that wins is the only uncommitted row of its reference.
LEMMA InsertStep ==
  ASSUME IInv, NEW w \in Workers, Insert(w)
  PROVE  IInv'
<1>1. TypeOK'
  BY DEF IInv, TypeOK, Tx, Insert, rows
<1>2. LockedRow'
  BY DEF IInv, TypeOK, Tx, LockedRow, Insert, rows
<1>3. UniqueInsert'
  BY DEF IInv, TypeOK, Tx, UniqueInsert, Pending, Insert, rows
<1>4. AckedIsCounted'
  BY DEF IInv, AckedIsCounted, Insert, rows
<1> QED
  BY <1>1, <1>2, <1>3, <1>4 DEF IInv

\* An insert that loses has seen a committed reference.
LEMMA InsertConflictStep ==
  ASSUME IInv, NEW w \in Workers, InsertConflict(w)
  PROVE  IInv'
<1>1. TypeOK'
  BY DEF IInv, TypeOK, Tx, InsertConflict, rows
<1>2. LockedRow'
  BY DEF IInv, TypeOK, Tx, LockedRow, InsertConflict, rows
<1>3. UniqueInsert'
  BY DEF IInv, TypeOK, Tx, UniqueInsert, Pending, InsertConflict, rows
<1>4. AckedIsCounted'
  BY DEF IInv, AckedIsCounted, InsertConflict, rows
<1> QED
  BY <1>1, <1>2, <1>3, <1>4 DEF IInv

\* The UPDATE computes the new row from the committed one, under the lock.
LEMMA UpdateStep ==
  ASSUME IInv, NEW w \in Workers, Update(w)
  PROVE  IInv'
<1>1. TypeOK'
  BY NewRowType DEF IInv, TypeOK, Tx, Update, rows
<1>2. LockedRow'
  BY PgStatsAssumption DEF IInv, TypeOK, Tx, Row, LockedRow, UniqueInsert, NewRow, Update, rows
<1>3. UniqueInsert'
  BY DEF IInv, TypeOK, Tx, UniqueInsert, Pending, Update, rows
<1>4. AckedIsCounted'
  BY DEF IInv, AckedIsCounted, Update, rows
<1> QED
  BY <1>1, <1>2, <1>3, <1>4 DEF IInv

\* Only the holder of the lock changes the totals, so nobody else's pending row
\* is out of date; the reference it commits was pending nowhere else.
LEMMA CommitStep ==
  ASSUME IInv, NEW w \in Workers, NEW ok \in BOOLEAN, Commit(w, ok)
  PROVE  IInv'
<1>1. TypeOK'
  BY PgStatsAssumption DEF IInv, TypeOK, Tx, Row, Idle, NoRow, Commit, rows
<1>2. LockedRow'
  BY PgStatsAssumption DEF IInv, TypeOK, Tx, Row, LockedRow, Idle, Commit, rows
<1>3. UniqueInsert'
  BY PgStatsAssumption DEF IInv, TypeOK, Tx, UniqueInsert, Pending, Idle, Commit, rows
<1>4. AckedIsCounted'
  BY DEF IInv, TypeOK, UniqueInsert, AckedIsCounted, Commit, rows
<1> QED
  BY <1>1, <1>2, <1>3, <1>4 DEF IInv

\* A rollback gives the lock and the reference back.
LEMMA AbortStep ==
  ASSUME IInv, NEW w \in Workers, Abort(w)
  PROVE  IInv'
<1>1. TypeOK'
  BY PgStatsAssumption DEF IInv, TypeOK, Tx, Row, Idle, NoRow, Abort, rows
<1>2. LockedRow'
  BY PgStatsAssumption DEF IInv, TypeOK, Tx, LockedRow, Idle, Abort, rows
<1>3. UniqueInsert'
  BY DEF IInv, TypeOK, Tx, UniqueInsert, Pending, Idle, Abort, rows
<1>4. AckedIsCounted'
  BY DEF IInv, AckedIsCounted, Abort, rows
<1> QED
  BY <1>1, <1>2, <1>3, <1>4 DEF IInv

\* IInv is inductive.
LEMMA NextIInv == IInv /\ [Next]_vars => IInv'
<1> SUFFICES ASSUME IInv, [Next]_vars PROVE IInv'
  OBVIOUS
<1>1. ASSUME NEW w \in Workers,
             \/ \E amount \in Cents, ref \in Refs \cup {NoRef} : RecordTw(w, amount, ref)
             \/ RecordTwError(w)
             \/ Insert(w) \/ InsertConflict(w) \/ Update(w) \/ Ends(w) \/ Abort(w)
      PROVE  IInv'
  BY <1>1, RecordTwStep, RecordTwErrorStep, InsertStep, InsertConflictStep, UpdateStep,
     CommitStep, AbortStep DEF Ends
<1>2. CASE UNCHANGED vars
  BY <1>2 DEF vars, rows, IInv, TypeOK, LockedRow, UniqueInsert, Pending, AckedIsCounted
<1> QED
  BY <1>1, <1>2 DEF Next, Finished

\* The inductive invariant holds in every reachable state.
THEOREM Inductive == Spec => []IInv
BY InitIInv, NextIInv, PTL DEF Spec

(***************************************************************************)
(* What a caller was told is recorded stays recorded: every acknowledged   *)
(* reference is in recorded_refs (countOnce).                              *)
(***************************************************************************)
THEOREM AckedCounted == Spec => []AckedIsCounted
<1>1. IInv => AckedIsCounted
  BY DEF IInv
<1> QED
  BY <1>1, Inductive, PTL

-----------------------------------------------------------------------------
(***************************************************************************)
(* A step of the store is a step of Stats or changes none of its totals.   *)
(***************************************************************************)
LEMMA StepImplements == IInv /\ [Next]_vars => [S!StatsNext]_(S!statsVars)
<1> SUFFICES ASSUME IInv, [Next]_vars PROVE [S!StatsNext]_(S!statsVars)
  OBVIOUS
<1>1. ASSUME NEW w \in Workers, NEW ok \in BOOLEAN, Commit(w, ok)
      PROVE  [S!StatsNext]_(S!statsVars)
  <2>1. CASE tx[w].pc = "duplicate"
    BY <1>1, <2>1 DEF Commit, rows, S!statsVars
  <2>2. CASE tx[w].pc = "updated"
    <3>1. tx[w].ref \in Refs \cup {NoRef} /\ tx[w].ref \notin refs
      BY <2>2, PgStatsAssumption DEF IInv, TypeOK, Tx, UniqueInsert, Pending
    <3>2. CASE /\ tx[w].row.count = count + 1
               /\ tx[w].row.cents = cents + tx[w].amount
               /\ tx[w].row.errors = errors
               /\ tx[w].amount \in Cents
      BY <1>1, <2>2, <3>1, <3>2 DEF Commit, S!StatsNext, S!RecordTw
    <3>3. CASE /\ tx[w].row.count = count
               /\ tx[w].row.cents = cents
               /\ tx[w].row.errors = errors + 1
               /\ tx[w].ref = NoRef
      BY <1>1, <2>2, <3>3 DEF Commit, S!StatsNext, S!RecordTwError
    <3> QED
      BY <2>2, <3>2, <3>3 DEF IInv, LockedRow
  <2> QED
    BY <1>1, <2>1, <2>2 DEF Commit
<1>2. ASSUME NEW w \in Workers,
             \/ \E amount \in Cents, ref \in Refs \cup {NoRef} : RecordTw(w, amount, ref)
             \/ RecordTwError(w)
             \/ Insert(w) \/ InsertConflict(w) \/ Update(w) \/ Abort(w)
      PROVE  UNCHANGED S!statsVars
  BY <1>2 DEF RecordTw, RecordTwError, Insert, InsertConflict, Update, Abort, rows,
     S!statsVars
<1>3. CASE UNCHANGED vars
  BY <1>3 DEF vars, rows, S!statsVars
<1> QED
  BY <1>1, <1>2, <1>3 DEF Next, Ends, Finished

(***************************************************************************)
(* The store implements the promise of Stats: whatever the interleaving,   *)
(* the failures and the lost acknowledgements, the totals only change by   *)
(* counting one new voucher or one failure (StatsStore.RecordTw).          *)
(***************************************************************************)
THEOREM StoreImplementsStats == Spec => ImplementsStats
<1>1. Init => S!StatsInit
  BY DEF Init, S!StatsInit
<1> QED
  BY <1>1, StepImplements, Inductive, PTL DEF Spec, ImplementsStats, S!StatsSpec
=============================================================================
