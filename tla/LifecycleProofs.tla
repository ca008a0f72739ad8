--------------------------- MODULE LifecycleProofs ---------------------------
(***************************************************************************)
(* Migrations take effect once and in order, and no replica serves on an   *)
(* incomplete schema, for any number of replicas and migrations and        *)
(* without relying on the advisory lock.                                   *)
(***************************************************************************)
EXTENDS Lifecycle, TLAPS

\* The rows of schema_migrations are the numbers of the committed migrations.
LEMMA AppliedIsPrefix ==
  ASSUME effects \in Seq(1..Versions), OnceInOrder
  PROVE  Applied = 1..Len(effects)
BY DEF Applied, OnceInOrder

\* The first state satisfies the invariant.
LEMMA InitIInv == Init => IInv
<1> SUFFICES ASSUME Init PROVE IInv
  OBVIOUS
<1> USE LifecycleAssumption DEF Init
<1>1. TypeOK
  BY DEF TypeOK, Pcs, Progress
<1>2. OnceInOrder
  BY DEF OnceInOrder
<1>3. LoopIsBehind /\ OneApplies /\ ReportsStay
  BY DEF LoopIsBehind, OneApplies, ReportsStay
<1> QED BY <1>1, <1>2, <1>3 DEF IInv

\* A commit adds the first missing migration, and no other replica is at it.
LEMMA CommitStep ==
  ASSUME IInv, NEW r \in Replicas, Commit(r) \/ CommitUnacknowledged(r)
  PROVE  IInv'
<1> USE LifecycleAssumption
<1>1. /\ pc[r] = "commit" /\ tx[r] = at[r]
      /\ at[r] = Len(effects) + 1 /\ at[r] <= Versions
      /\ effects' = Append(effects, at[r])
      /\ tx' = [tx EXCEPT ![r] = 0]
  BY DEF IInv, LoopIsBehind, Commit, CommitUnacknowledged, Statement
<1>2. effects \in Seq(1..Versions) /\ at[r] \in 1..Versions
  BY <1>1 DEF IInv, TypeOK
<1>3. /\ effects' \in Seq(1..Versions)
      /\ Len(effects') = Len(effects) + 1
      /\ \A j \in 1..Len(effects) : effects'[j] = effects[j]
      /\ effects'[Len(effects) + 1] = at[r]
  BY <1>1, <1>2
<1>4. TypeOK'
  <2>1. CASE Commit(r)
    BY <2>1, <1>1, <1>3 DEF Commit, Goto, IInv, TypeOK, Pcs, Migrating
  <2>2. CASE CommitUnacknowledged(r)
    BY <2>2, <1>1, <1>3 DEF CommitUnacknowledged, Goto, runVars, IInv, TypeOK, Pcs, Migrating
  <2> QED BY <2>1, <2>2
<1>5. OnceInOrder'
  BY <1>1, <1>2, <1>3 DEF IInv, OnceInOrder
<1>6. \A s \in Replicas : s # r => pc'[s] = pc[s] /\ pc[s] # "commit" /\ at'[s] = at[s] /\ tx'[s] = tx[s]
  BY <1>1 DEF Commit, CommitUnacknowledged, Goto, runVars, IInv, TypeOK, OneApplies
<1>7. pc'[r] \in {"check", "unlock"} /\ (pc'[r] = "check" => at'[r] = at[r] + 1) /\ tx'[r] = 0
  BY <1>1 DEF Commit, CommitUnacknowledged, Goto, IInv, TypeOK
<1>8. LoopIsBehind'
  <2> SUFFICES ASSUME NEW s \in Replicas
               PROVE  /\ pc'[s] \in {"check", "apply", "commit"} => at'[s] <= Len(effects') + 1
                      /\ pc'[s] \in {"apply", "commit"} => at'[s] <= Versions
                      /\ pc'[s] = "commit" => tx'[s] = at'[s] /\ at'[s] = Len(effects') + 1
                      /\ pc'[s] # "commit" => tx'[s] = 0
    BY DEF LoopIsBehind
  <2> at[s] \in Nat /\ Len(effects) \in Nat
    BY <1>2 DEF IInv, TypeOK
  <2>1. CASE s = r
    BY <2>1, <1>1, <1>3, <1>7
  <2>2. CASE s # r
    BY <2>2, <1>3, <1>6 DEF IInv, LoopIsBehind
  <2> QED BY <2>1, <2>2
<1>9. OneApplies'
  BY <1>6, <1>7 DEF OneApplies
<1>10. ReportsStay'
  <2>1. \A s \in Replicas : ~migrated[s]
    BY <1>1, <1>2 DEF IInv, ReportsStay
  <2>2. migrated' = migrated
    BY DEF Commit, CommitUnacknowledged, runVars
  <2> QED BY <2>1, <2>2, <1>6, <1>7 DEF IInv, ReportsStay
<1> QED BY <1>4, <1>5, <1>8, <1>9, <1>10 DEF IInv

\* The INSERT finds the first missing migration and no other transaction at it.
LEMMA ApplyStep ==
  ASSUME IInv, NEW r \in Replicas, apply(r)
  PROVE  IInv'
<1> USE LifecycleAssumption DEF apply, Statement, Goto, runVars
<1>1. effects' = effects /\ effects \in Seq(1..Versions) /\ Len(effects) \in Nat
  BY DEF IInv, TypeOK
<1>2. at[r] = Len(effects) + 1 /\ at[r] \in 1..Versions
  <2>1. at[r] \notin 1..Len(effects)
    BY AppliedIsPrefix, <1>1 DEF IInv
  <2>2. at[r] <= Len(effects) + 1 /\ at[r] <= Versions /\ at[r] \in Nat /\ at[r] >= 1
    BY DEF IInv, LoopIsBehind, TypeOK
  <2> QED BY <2>1, <2>2, <1>1
<1>3. \A s \in Replicas : pc[s] # "commit"
  BY <1>2 DEF IInv, LoopIsBehind
<1>4. TypeOK'
  BY <1>1, <1>2 DEF IInv, TypeOK, Pcs, Migrating
<1>5. OnceInOrder'
  BY <1>1 DEF IInv, OnceInOrder
<1>6. LoopIsBehind'
  BY <1>1, <1>2, <1>3 DEF IInv, TypeOK, LoopIsBehind
<1>7. OneApplies'
  BY <1>3 DEF IInv, TypeOK, OneApplies
<1>8. ReportsStay'
  BY <1>1 DEF IInv, TypeOK, ReportsStay
<1> QED BY <1>4, <1>5, <1>6, <1>7, <1>8 DEF IInv

\* What every step of the loop that leaves the database alone keeps.
LEMMA Unmoved ==
  ASSUME IInv, effects' = effects
  PROVE  /\ effects \in Seq(1..Versions) /\ Len(effects) \in 0..Versions
         /\ Applied = 1..Len(effects)
         /\ OnceInOrder'
<1>1. effects \in Seq(1..Versions) /\ Len(effects) \in Nat
  BY DEF IInv, TypeOK
<1>2. Applied = 1..Len(effects)
  BY AppliedIsPrefix, <1>1 DEF IInv
<1>3. OnceInOrder'
  BY DEF IInv, OnceInOrder
<1>4. Len(effects) <= Versions
  <2>1. CASE Len(effects) = 0
    BY <2>1, LifecycleAssumption
  <2>2. CASE Len(effects) # 0
    <3>1. Len(effects) \in DOMAIN effects
      BY <1>1, <2>2
    <3>2. effects[Len(effects)] = Len(effects)
      BY <3>1 DEF IInv, OnceInOrder
    <3>3. effects[Len(effects)] \in 1..Versions
      BY <3>1, <1>1, LifecycleAssumption
    <3> QED BY <1>1, <3>2, <3>3, LifecycleAssumption
  <2> QED BY <2>1, <2>2
<1> QED BY <1>1, <1>2, <1>3, <1>4, LifecycleAssumption

\* The loop begins at the first migration.
LEMMA CreateStep ==
  ASSUME IInv, NEW r \in Replicas, CreateTable(r)
  PROVE  IInv'
<1> USE LifecycleAssumption DEF CreateTable, Statement, Goto, dbVars
<1>1. effects' = effects /\ tx' = tx
  OBVIOUS
<1>2. OnceInOrder' /\ Len(effects) \in Nat
  BY Unmoved, <1>1
<1>3. TypeOK'
  BY <1>1 DEF IInv, TypeOK, Pcs, Migrating
<1>4. LoopIsBehind'
  BY <1>1, <1>2 DEF IInv, TypeOK, LoopIsBehind
<1>5. OneApplies'
  BY DEF IInv, TypeOK, OneApplies
<1>6. ReportsStay'
  BY <1>1 DEF IInv, TypeOK, ReportsStay
<1> QED BY <1>2, <1>3, <1>4, <1>5, <1>6 DEF IInv

\* The loop passes over a migration only when its row is there.
LEMMA CheckStep ==
  ASSUME IInv, NEW r \in Replicas, isApplied(r)
  PROVE  IInv'
<1> USE LifecycleAssumption DEF isApplied, Statement, Goto, dbVars
<1>1. effects' = effects /\ tx' = tx /\ migrated' = migrated
  OBVIOUS
<1>2. /\ OnceInOrder' /\ Len(effects) \in 0..Versions
      /\ Applied = 1..Len(effects)
  BY Unmoved, <1>1
<1>3. CASE at[r] \in Applied
  <2>1. at' = [at EXCEPT ![r] = @ + 1] /\ pc' = pc
    BY <1>3
  <2>2. at[r] + 1 \in 1..(Versions + 1) /\ at[r] + 1 <= Len(effects) + 1
    BY <1>2, <1>3
  <2>3. TypeOK'
    BY <1>1, <2>1, <2>2 DEF IInv, TypeOK
  <2>4. LoopIsBehind'
    BY <1>1, <1>2, <2>1, <2>2 DEF IInv, TypeOK, LoopIsBehind
  <2>5. OneApplies' /\ ReportsStay'
    BY <1>1, <2>1 DEF IInv, OneApplies, ReportsStay
  <2> QED BY <1>2, <2>3, <2>4, <2>5 DEF IInv
<1>4. CASE at[r] \notin Applied
  <2>1. pc' = [pc EXCEPT ![r] = "apply"] /\ at' = at /\ pc[r] = "check" /\ at[r] <= Versions
    BY <1>4
  <2>3. TypeOK'
    BY <1>1, <2>1 DEF IInv, TypeOK, Pcs, Migrating
  <2>4. LoopIsBehind'
    BY <1>1, <2>1 DEF IInv, TypeOK, LoopIsBehind
  <2>5. OneApplies' /\ ReportsStay'
    BY <1>1, <2>1 DEF IInv, TypeOK, OneApplies, ReportsStay
  <2> QED BY <1>2, <2>3, <2>4, <2>5 DEF IInv
<1> QED BY <1>3, <1>4

\* The loop ends only when every migration has its row.
LEMMA MigratedStep ==
  ASSUME IInv, NEW r \in Replicas, Migrated(r)
  PROVE  IInv'
<1> USE LifecycleAssumption DEF Migrated, Goto, dbVars
<1>1. effects' = effects /\ tx' = tx /\ at' = at
  OBVIOUS
<1>2. OnceInOrder' /\ Len(effects) \in 0..Versions
  BY Unmoved, <1>1
<1>3. Len(effects) = Versions
  <2>1. at[r] <= Len(effects) + 1 /\ at[r] \in 1..(Versions + 1) /\ at[r] > Versions
    BY DEF IInv, LoopIsBehind, TypeOK
  <2> QED BY <2>1, <1>2
<1>4. TypeOK'
  BY <1>1 DEF IInv, TypeOK, Pcs, Migrating
<1>5. LoopIsBehind'
  BY <1>1 DEF IInv, TypeOK, LoopIsBehind
<1>6. OneApplies'
  BY DEF IInv, TypeOK, OneApplies
<1>7. ReportsStay'
  BY <1>1, <1>3 DEF IInv, TypeOK, ReportsStay
<1> QED BY <1>2, <1>4, <1>5, <1>6, <1>7 DEF IInv

\* Where the steps outside the loop lead.
Labels == Pcs \ {"check", "apply", "commit"}

\* What the other steps of a replica do to what the invariant speaks of.
Elsewhere(r, label) ==
  /\ effects' = effects
  /\ tx' \in {tx, [tx EXCEPT ![r] = 0]}
  /\ pc[r] = "commit" => tx' = [tx EXCEPT ![r] = 0]
  /\ at' = at
  /\ pc' = [pc EXCEPT ![r] = label]
  /\ label \in {"boot", "serve", "drain"} => migrated[r] /\ migrated' = migrated
  /\ migrated' \in {migrated, [migrated EXCEPT ![r] = FALSE]}

\* Such a step keeps what the invariant says about migrations.
LEMMA ElsewhereKeeps ==
  ASSUME IInv, NEW r \in Replicas, NEW label \in Labels, Elsewhere(r, label)
  PROVE  OnceInOrder' /\ LoopIsBehind' /\ OneApplies' /\ ReportsStay'
<1> USE DEF Elsewhere, Labels
<1>1. OnceInOrder'
  BY DEF IInv, OnceInOrder
<1>2. LoopIsBehind'
  BY DEF IInv, TypeOK, LoopIsBehind
<1>3. OneApplies'
  BY DEF IInv, TypeOK, OneApplies
<1>4. ReportsStay'
  BY DEF IInv, TypeOK, ReportsStay
<1> QED BY <1>1, <1>2, <1>3, <1>4

\* The steps of a replica outside the loop.
Outside(r) ==
  \/ Start(r) \/ NewPool(r) \/ Lock(r) \/ Unlock(r) \/ ServerStarts(r) \/ Stop(r)
  \/ StatementFails(r) \/ ServerFails(r) \/ Crash(r)

\* They are such steps.
LEMMA OutsideIsElsewhere ==
  ASSUME IInv, NEW r \in Replicas, Outside(r)
  PROVE  \E label \in Labels : Elsewhere(r, label)
<1> USE DEF Goto, runVars, dbVars, Elsewhere, Statement
<1>0. pc[r] \in {"boot", "serve", "drain"} => migrated[r]
  BY DEF IInv, ReportsStay
<1>a. /\ {"connect", "lock", "create", "unlock", "boot", "serve"} \subseteq Labels
      /\ {"drain", "close", "closing", "down"} \subseteq Labels
  BY DEF Labels, Pcs, Migrating
<1>1. CASE Start(r)
  <2>1. Elsewhere(r, "connect")
    BY <1>1 DEF Start
  <2> QED BY <2>1, <1>a
<1>2. CASE NewPool(r)
  <2>1. Elsewhere(r, "lock")
    BY <1>2 DEF NewPool
  <2> QED BY <2>1, <1>a
<1>3. CASE Lock(r)
  <2>1. Elsewhere(r, "create")
    BY <1>3 DEF Lock
  <2> QED BY <2>1, <1>a
<1>4. CASE Unlock(r)
  <2>1. Elsewhere(r, IF migrated[r] THEN "boot" ELSE "close")
    BY <1>4 DEF Unlock
  <2> QED BY <2>1, <1>a
<1>5. CASE ServerStarts(r)
  <2>1. Elsewhere(r, "serve")
    BY <1>0, <1>5 DEF ServerStarts
  <2> QED BY <2>1, <1>a
<1>6. CASE Shutdown(r)
  <2>1. Elsewhere(r, "drain")
    BY <1>0, <1>6 DEF Shutdown
  <2> QED BY <2>1, <1>a
<1>7. CASE ShutdownReturns(r) \/ ServerFails(r)
  <2>1. Elsewhere(r, "close")
    BY <1>7 DEF ShutdownReturns, ServerFails
  <2> QED BY <2>1, <1>a
<1>8. CASE Close(r)
  <2>1. Elsewhere(r, "closing")
    BY <1>8 DEF Close
  <2> QED BY <2>1, <1>a
<1>9. CASE Exit(r) \/ Crash(r)
  <2>1. Elsewhere(r, "down")
    BY <1>9 DEF Exit, Crash, Ends
  <2> QED BY <2>1, <1>a
<1>10. CASE StatementFails(r)
  <2>1. Elsewhere(r, IF pc[r] \in {"connect", "lock"} THEN "close" ELSE "unlock")
    BY <1>10 DEF StatementFails
  <2> QED BY <2>1, <1>a
<1> QED
  BY <1>1, <1>2, <1>3, <1>4, <1>5, <1>6, <1>7, <1>8, <1>9, <1>10 DEF Outside, Stop

\* They keep the types.
LEMMA OutsideTypes ==
  ASSUME TypeOK, NEW r \in Replicas, Outside(r)
  PROVE  TypeOK'
<1> USE LifecycleAssumption DEF Goto, runVars, dbVars, Pcs, Migrating, TypeOK
<1>1. CASE Start(r)
  BY <1>1 DEF Start
<1>2. CASE NewPool(r)
  BY <1>2 DEF NewPool
<1>3. CASE Lock(r)
  BY <1>3 DEF Lock
<1>4. CASE Unlock(r)
  BY <1>4 DEF Unlock
<1>5. CASE ServerStarts(r)
  BY <1>5 DEF ServerStarts
<1>6. CASE Shutdown(r) \/ Close(r)
  BY <1>6 DEF Shutdown, Close
<1>7. CASE ShutdownReturns(r)
  BY <1>7 DEF ShutdownReturns
<1>8. CASE StatementFails(r)
  BY <1>8 DEF StatementFails
<1>9. CASE ServerFails(r)
  BY <1>9 DEF ServerFails
<1>10. CASE Exit(r) \/ Crash(r)
  <2>1. PICK label \in {"dropped", "crashed"} : Ends(r, label)
    BY <1>10 DEF Exit, Crash
  <2>2. req' \in [Requests -> [on : Replicas \cup {None}, st : Progress]]
    BY <2>1 DEF Ends, Progress
  <2> QED BY <2>1, <2>2 DEF Ends
<1> QED
  BY <1>1, <1>2, <1>3, <1>4, <1>5, <1>6, <1>7, <1>8, <1>9, <1>10 DEF Outside, Stop

\* Signals, lost sessions and requests touch nothing the migrations rest on.
LEMMA AsideStep ==
  ASSUME IInv,
         \/ \E r \in Replicas : Signal(r) \/ SessionEnds(r)
         \/ \E q \in Requests : Handler(q) \/ \E r \in Replicas : Accept(q, r)
         \/ UNCHANGED vars
  PROVE  IInv'
<1>1. /\ pc' = pc /\ at' = at /\ tx' = tx /\ effects' = effects /\ migrated' = migrated
      /\ forced' = forced /\ starts' = starts
  BY DEF Signal, SessionEnds, Handler, Spend, BeginRecord, EndRecord, Answer, Moves,
         Accept, vars, runVars, dbVars
<1>2. OnceInOrder' /\ LoopIsBehind' /\ OneApplies' /\ ReportsStay'
  BY <1>1 DEF IInv, OnceInOrder, LoopIsBehind, OneApplies, ReportsStay
<1>3. signal' \in [Replicas -> BOOLEAN] /\ lock' \in Replicas \cup {None}
  BY DEF Signal, SessionEnds, Handler, Spend, BeginRecord, EndRecord, Answer, Moves,
         Accept, vars, runVars, dbVars, IInv, TypeOK
<1>4. req' \in [Requests -> [on : Replicas \cup {None}, st : Progress]]
  <2>1. CASE req' = req
    BY <2>1 DEF IInv, TypeOK
  <2>2. CASE \E q \in Requests : \E to \in Progress : req' = [req EXCEPT ![q].st = to]
    BY <2>2 DEF IInv, TypeOK
  <2>3. CASE \E q \in Requests : \E r \in Replicas : Accept(q, r)
    BY <2>3 DEF Accept, IInv, TypeOK, Progress
  <2> QED
    BY <2>1, <2>2, <2>3 DEF Signal, SessionEnds, Handler, Spend, BeginRecord, EndRecord,
       Answer, Moves, Progress, vars
<1> QED BY <1>1, <1>2, <1>3, <1>4 DEF IInv, TypeOK

\* The invariant is inductive.
THEOREM Inductive == Spec => []IInv
<1>1. IInv /\ [Next]_vars => IInv'
  <2> SUFFICES ASSUME IInv, [Next]_vars PROVE IInv'
    OBVIOUS
  <2>1. ASSUME NEW r \in Replicas, Outside(r) PROVE IInv'
    BY <2>1, OutsideIsElsewhere, ElsewhereKeeps, OutsideTypes DEF IInv
  <2>2. ASSUME NEW r \in Replicas, Commit(r) \/ CommitUnacknowledged(r) PROVE IInv'
    BY <2>2, CommitStep
  <2>3. ASSUME NEW r \in Replicas, apply(r) PROVE IInv'
    BY <2>3, ApplyStep
  <2>4. ASSUME NEW r \in Replicas, CreateTable(r) \/ isApplied(r) \/ Migrated(r) PROVE IInv'
    BY <2>4, CreateStep, CheckStep, MigratedStep
  <2>5. CASE \/ \E r \in Replicas : Signal(r) \/ SessionEnds(r)
             \/ \E q \in Requests : Handler(q) \/ \E r \in Replicas : Accept(q, r)
             \/ UNCHANGED vars
    BY <2>5, AsideStep
  <2> QED BY <2>1, <2>2, <2>3, <2>4, <2>5 DEF Next, Migrate, Outside
<1> QED BY InitIInv, <1>1, PTL DEF Spec

\* The variables have their types, at every number of replicas and migrations.
THEOREM TypeCorrect == Spec => []TypeOK
<1>1. IInv => TypeOK
  BY DEF IInv
<1> QED BY Inductive, <1>1, PTL

\* Every migration takes effect at most once and in order, whoever holds the
\* advisory lock when (Migrate, apply).
THEOREM MigrationsOnceInOrder == Spec => []OnceInOrder
<1>1. IInv => OnceInOrder
  BY DEF IInv
<1> QED BY Inductive, <1>1, PTL

\* No replica serves on an incomplete schema (run, Migrate).
THEOREM ServesOnlyMigrated == Spec => []ServesMigrated
<1>1. IInv => ServesMigrated
  <2> SUFFICES ASSUME IInv, NEW r \in Replicas, pc[r] \in {"boot", "serve", "drain"}
               PROVE  Applied = 1..Versions
    BY DEF ServesMigrated
  <2>1. Len(effects) = Versions
    BY DEF IInv, ReportsStay
  <2>2. Applied = 1..Len(effects)
    BY AppliedIsPrefix DEF IInv, TypeOK
  <2> QED BY <2>1, <2>2
<1> QED BY Inductive, <1>1, PTL

-----------------------------------------------------------------------------
(***************************************************************************)
(* Requests and the shutdown.                                              *)
(***************************************************************************)
Running == {"called", "spent", "recording", "recorded", "unbooked"}

\* A handler runs only in a process that serves or stops, and once the server
\* has stopped only if it was not waited for.
Attended(q) ==
  req[q].st \in Running =>
    /\ req[q].on \in Replicas
    /\ pc[req[q].on] \in {"serve", "drain", "close", "closing"}
    /\ pc[req[q].on] \in {"close", "closing"} => forced[req[q].on]

AllAttended == \A q \in Requests : Attended(q)

\* A step of a replica without requests, or one that leaves them where they are.
LEMMA ReplicaKeeps ==
  ASSUME TypeOK, AllAttended, NEW r \in Replicas, UNCHANGED req,
         \A s \in Replicas : s # r => pc'[s] = pc[s] /\ forced'[s] = forced[s],
         \/ pc[r] \notin {"serve", "drain", "close", "closing"}
         \/ /\ pc'[r] \in {"serve", "drain", "close", "closing"}
            /\ pc'[r] \in {"close", "closing"} => Active(r) = {} \/ forced'[r]
  PROVE  AllAttended'
<1> SUFFICES ASSUME NEW q \in Requests, req[q].st \in Running
             PROVE  /\ req[q].on \in Replicas
                    /\ pc'[req[q].on] \in {"serve", "drain", "close", "closing"}
                    /\ pc'[req[q].on] \in {"close", "closing"} => forced'[req[q].on]
  BY DEF AllAttended, Attended
<1>1. /\ req[q].on \in Replicas
      /\ pc[req[q].on] \in {"serve", "drain", "close", "closing"}
      /\ pc[req[q].on] \in {"close", "closing"} => forced[req[q].on]
  BY DEF AllAttended, Attended
<1>2. CASE req[q].on = r
  <2>1. q \in Active(r)
    BY <1>2 DEF Active, Running
  <2> QED BY <1>1, <1>2, <2>1
<1>3. CASE req[q].on # r
  BY <1>1, <1>3
<1> QED BY <1>2, <1>3

\* A step of a handler that has begun.
LEMMA HandlerKeeps ==
  ASSUME TypeOK, AllAttended, UNCHANGED <<pc, forced>>,
         NEW q \in Requests, req[q].st \in Running, NEW to,
         req' = [req EXCEPT ![q].st = to]
  PROVE  AllAttended'
<1>1. /\ \A p \in Requests : p # q => req'[p] = req[p]
      /\ req'[q].on = req[q].on /\ req'[q].st = to
  BY DEF TypeOK
<1> QED BY <1>1 DEF AllAttended, Attended

\* Whatever step is taken.
LEMMA AttendedStep ==
  ASSUME TypeOK, AllAttended, [Next]_vars
  PROVE  AllAttended'
<1> USE DEF Goto, runVars, dbVars, Statement
<1>1. CASE UNCHANGED vars
  BY <1>1 DEF vars, AllAttended, Attended
<1>2. ASSUME NEW r \in Replicas,
             \/ Start(r) \/ NewPool(r) \/ Lock(r) \/ CreateTable(r) \/ isApplied(r) \/ apply(r)
             \/ Commit(r) \/ Migrated(r) \/ Unlock(r) \/ ServerStarts(r)
             \/ CommitUnacknowledged(r) \/ StatementFails(r)
      PROVE  AllAttended'
  <2>1. /\ pc[r] \notin {"serve", "drain", "close", "closing"} /\ UNCHANGED req
        /\ \A s \in Replicas : s # r => pc'[s] = pc[s] /\ forced'[s] = forced[s]
    BY <1>2 DEF Start, NewPool, Lock, CreateTable, isApplied, apply, Commit, Migrated, Unlock,
                ServerStarts, CommitUnacknowledged, StatementFails, Migrating, TypeOK
  <2> QED BY <2>1, ReplicaKeeps
<1>3. ASSUME NEW r \in Replicas, Signal(r) \/ SessionEnds(r)
      PROVE  AllAttended'
  BY <1>3 DEF Signal, SessionEnds, AllAttended, Attended
<1>4. ASSUME NEW r \in Replicas, Shutdown(r) \/ ShutdownReturns(r) \/ Close(r) \/ ServerFails(r)
      PROVE  AllAttended'
  <2>1. CASE Shutdown(r)
    BY <2>1, ReplicaKeeps DEF Shutdown, TypeOK
  <2>2. CASE ShutdownReturns(r)
    BY <2>2, ReplicaKeeps DEF ShutdownReturns, TypeOK
  <2>3. CASE Close(r)
    <3>1. Active(r) = {} \/ forced[r]
      BY <2>3 DEF Close, AllAttended, Attended, Active, Running
    <3> QED BY <2>3, <3>1, ReplicaKeeps DEF Close, TypeOK
  <2>4. CASE ServerFails(r)
    BY <2>4, ReplicaKeeps DEF ServerFails, TypeOK
  <2> QED BY <1>4, <2>1, <2>2, <2>3, <2>4
<1>5. ASSUME NEW r \in Replicas, Exit(r) \/ Crash(r)
      PROVE  AllAttended'
  <2>1. PICK label \in {"dropped", "crashed"} : Ends(r, label)
    BY <1>5 DEF Exit, Crash
  <2>2. ASSUME NEW q \in Requests, req'[q].st \in Running
        PROVE  req'[q] = req[q] /\ req[q].on # r
    BY <2>1, <2>2 DEF Ends, Active, Running
  <2>3. \A s \in Replicas : s # r => pc'[s] = pc[s] /\ forced'[s] = forced[s]
    BY <2>1 DEF Ends, TypeOK
  <2> QED BY <2>2, <2>3 DEF AllAttended, Attended
<1>6. ASSUME NEW q \in Requests, Handler(q)
      PROVE  AllAttended'
  <2>1. PICK to : req' = [req EXCEPT ![q].st = to]
    BY <1>6 DEF Handler, Spend, BeginRecord, EndRecord, Answer, Moves
  <2>2. req[q].st \in Running /\ UNCHANGED <<pc, forced>>
    BY <1>6 DEF Handler, Spend, BeginRecord, EndRecord, Answer, Moves, Running
  <2> QED BY <2>1, <2>2, HandlerKeeps
<1>7. ASSUME NEW q \in Requests, NEW r \in Replicas, Accept(q, r)
      PROVE  AllAttended'
  <2>1. /\ \A p \in Requests : p # q => req'[p] = req[p]
        /\ req'[q].on = r /\ pc[r] = "serve" /\ UNCHANGED <<pc, forced>>
    BY <1>7 DEF Accept, TypeOK
  <2> QED BY <2>1 DEF AllAttended, Attended
<1> QED
  BY <1>1, <1>2, <1>3, <1>4, <1>5, <1>6, <1>7 DEF Next, Migrate, Stop

(***************************************************************************)
(* An orderly exit cuts off no request and refuses no record (Shutdown and *)
(* the deferred calls of run).                                             *)
(***************************************************************************)
THEOREM ExitsAreOrderly == Spec => OrderlyExit
<1> DEFINE A == \A q \in Requests :
                  /\ req'[q].st # req[q].st
                  /\ req'[q].st \in {"unbooked", "dropped"}
                  => forced[req[q].on]
<1>1. Init => AllAttended
  BY DEF Init, AllAttended, Attended, Running
<1>2. TypeOK /\ AllAttended /\ [Next]_vars => [A]_vars
  <2> SUFFICES ASSUME TypeOK, AllAttended, Next, NEW q \in Requests, req'[q].st # req[q].st,
                      req'[q].st \in {"unbooked", "dropped"}
               PROVE  forced[req[q].on]
    OBVIOUS
  <2>1. ASSUME NEW r \in Replicas, Exit(r) \/ Crash(r)
        PROVE  forced[req[q].on]
    <3>1. q \in Active(r) /\ pc[r] = "closing"
      BY <2>1 DEF Exit, Crash, Ends
    <3> QED BY <3>1 DEF AllAttended, Attended, Active, Running
  <2>2. ASSUME NEW p \in Requests, Handler(p)
        PROVE  forced[req[q].on]
    <3>1. BeginRecord(p) /\ pc[req[p].on] = "closing" /\ p = q
      BY <2>2 DEF Handler, Spend, BeginRecord, EndRecord, Answer, Moves, TypeOK
    <3> QED BY <3>1 DEF BeginRecord, Moves, AllAttended, Attended, Running
  <2>3. ASSUME NEW p \in Requests, NEW r \in Replicas, Accept(p, r)
        PROVE  forced[req[q].on]
    BY <2>3 DEF Accept, TypeOK
  <2>4. CASE UNCHANGED req
    BY <2>4
  <2> QED
    BY <2>1, <2>2, <2>3, <2>4 DEF Next, Migrate, Stop, Start, NewPool, Lock, CreateTable,
       isApplied, apply, Commit, Migrated, Unlock, ServerStarts, CommitUnacknowledged,
       StatementFails, SessionEnds, Signal, ServerFails, Shutdown, ShutdownReturns, Close
<1> QED BY <1>1, <1>2, AttendedStep, TypeCorrect, PTL DEF Spec, OrderlyExit
=============================================================================
