------------------------------ MODULE Lifecycle ------------------------------
(***************************************************************************)
(* The life of the API process (cmd/api/main.go): connect, migrate the     *)
(* database under an advisory lock, serve, and on a signal shut down and   *)
(* close the pool, on several replicas that share a PostgreSQL (external). *)
(* The lock belongs to a session of the pool, so it ends with the session  *)
(* while Migrate goes on, and stays when the deferred unlock runs on       *)
(* another session or under a cancelled context.  A request is followed    *)
(* through the steps that a shutdown can cut off; Redeem has the rest.     *)
(***************************************************************************)
EXTENDS Naturals, Sequences

CONSTANTS Replicas, Requests, None,
          Versions,    \* number of embedded migrations, applied in name order
          MaxStarts    \* bound on the starts of a replica

ASSUME LifecycleAssumption ==
  /\ None \notin Replicas
  /\ Versions \in Nat
  /\ MaxStarts \in Nat

VARIABLES
  pc,        \* where each replica is in run(), "down" when it does not run
  signal,    \* ctx is done: SIGINT or SIGTERM arrived
  at,        \* the migration its loop is at
  migrated,  \* Migrate's result
  forced,    \* history: the server stopped with requests under way
  starts,
  lock,      \* PostgreSQL: the replica whose session holds the advisory lock
  tx,        \* the version each replica's open transaction inserted, or 0
  effects,   \* history: the migrations committed, in commit order
  req        \* the replica and the progress of each request

runVars == <<signal, at, migrated, forced, starts>>
dbVars  == <<lock, tx, effects>>
vars    == <<pc, runVars, dbVars, req>>

Migrating == {"connect", "lock", "create", "check", "apply", "commit"}
Pcs == {"down", "unlock", "boot", "serve", "drain", "close", "closing"} \cup Migrating

Progress == {"idle", "called", "spent", "recording", "recorded", "unbooked",
             "answered", "dropped", "crashed"}

\* The rows of schema_migrations.
Applied == {effects[j] : j \in DOMAIN effects}

\* The requests whose handler runs in r.
Active(r) ==
  {q \in Requests :
     req[q].on = r /\ req[q].st \in {"called", "spent", "recording", "recorded", "unbooked"}}

Init ==
  /\ pc = [r \in Replicas |-> "down"]
  /\ signal = [r \in Replicas |-> FALSE]
  /\ at = [r \in Replicas |-> 1]
  /\ migrated = [r \in Replicas |-> FALSE]
  /\ forced = [r \in Replicas |-> FALSE]
  /\ starts = [r \in Replicas |-> 0]
  /\ lock = None
  /\ tx = [r \in Replicas |-> 0]
  /\ effects = <<>>
  /\ req = [q \in Requests |-> [on |-> None, st |-> "idle"]]

Goto(r, label) == pc' = [pc EXCEPT ![r] = label]

\* A statement under ctx begins only while the context is not done.
Statement(r, label) == pc[r] = label /\ ~signal[r]

-----------------------------------------------------------------------------
(***************************************************************************)
(* run and Migrate.                                                        *)
(***************************************************************************)
Start(r) ==
  /\ pc[r] = "down"
  /\ starts[r] < MaxStarts
  /\ starts' = [starts EXCEPT ![r] = @ + 1]
  /\ signal' = [signal EXCEPT ![r] = FALSE]
  /\ migrated' = [migrated EXCEPT ![r] = FALSE]
  /\ forced' = [forced EXCEPT ![r] = FALSE]
  /\ Goto(r, "connect")
  /\ UNCHANGED <<at, dbVars, req>>

NewPool(r) ==
  /\ Statement(r, "connect")
  /\ Goto(r, "lock")
  /\ UNCHANGED <<runVars, dbVars, req>>

\* pg_advisory_lock: waits while another session holds it.
Lock(r) ==
  /\ Statement(r, "lock")
  /\ lock = None
  /\ lock' = r
  /\ Goto(r, "create")
  /\ UNCHANGED <<runVars, tx, effects, req>>

\* CREATE TABLE IF NOT EXISTS, and the names in order.
CreateTable(r) ==
  /\ Statement(r, "create")
  /\ at' = [at EXCEPT ![r] = 1]
  /\ Goto(r, "check")
  /\ UNCHANGED <<signal, migrated, forced, starts, dbVars, req>>

\* Mutant: the loop goes one past the last migration.
isApplied_PastEnd(r) ==
  /\ Statement(r, "check")
  /\ at[r] <= Versions + 1
  /\ IF at[r] \in Applied
     THEN at' = [at EXCEPT ![r] = @ + 1] /\ UNCHANGED pc
     ELSE Goto(r, "apply") /\ UNCHANGED at
  /\ UNCHANGED <<signal, migrated, forced, starts, dbVars, req>>

isApplied(r) ==
  /\ Statement(r, "check")
  /\ at[r] <= Versions
  /\ IF at[r] \in Applied
     THEN at' = [at EXCEPT ![r] = @ + 1] /\ UNCHANGED pc
     ELSE Goto(r, "apply") /\ UNCHANGED at
  /\ UNCHANGED <<signal, migrated, forced, starts, dbVars, req>>

\* Mutant: schema_migrations has no primary key.
apply_NoKey(r) ==
  /\ Statement(r, "apply")
  /\ tx' = [tx EXCEPT ![r] = at[r]]
  /\ Goto(r, "commit")
  /\ UNCHANGED <<runVars, lock, effects, req>>

(***************************************************************************)
(* apply: the migration and its row in one transaction.  The INSERT waits  *)
(* for another transaction that inserted the same version, and fails on a  *)
(* committed one (StatementFails).                                         *)
(***************************************************************************)
apply(r) ==
  /\ Statement(r, "apply")
  /\ at[r] \notin Applied
  /\ \A s \in Replicas : tx[s] # at[r]
  /\ tx' = [tx EXCEPT ![r] = at[r]]
  /\ Goto(r, "commit")
  /\ UNCHANGED <<runVars, lock, effects, req>>

\* BeginFunc's COMMIT.
Commit(r) ==
  /\ Statement(r, "commit")
  /\ effects' = Append(effects, tx[r])
  /\ tx' = [tx EXCEPT ![r] = 0]
  /\ at' = [at EXCEPT ![r] = @ + 1]
  /\ Goto(r, "check")
  /\ UNCHANGED <<signal, migrated, forced, starts, lock, req>>

\* The COMMIT is carried out but reported as failed.
CommitUnacknowledged(r) ==
  /\ pc[r] = "commit"
  /\ effects' = Append(effects, tx[r])
  /\ tx' = [tx EXCEPT ![r] = 0]
  /\ Goto(r, "unlock")
  /\ UNCHANGED <<runVars, lock, req>>

\* The loop ends: Migrate returns nil.
Migrated(r) ==
  /\ pc[r] = "check"
  /\ at[r] > Versions
  /\ migrated' = [migrated EXCEPT ![r] = TRUE]
  /\ Goto(r, "unlock")
  /\ UNCHANGED <<signal, at, forced, starts, dbVars, req>>

\* A statement returns an error; an open transaction is rolled back.
StatementFails(r) ==
  /\ pc[r] \in Migrating
  /\ tx' = [tx EXCEPT ![r] = 0]
  /\ Goto(r, IF pc[r] \in {"connect", "lock"} THEN "close" ELSE "unlock")
  /\ UNCHANGED <<runVars, lock, effects, req>>

\* Mutant: run serves although Migrate failed.
Unlock_ErrorIgnored(r) ==
  /\ pc[r] = "unlock"
  /\ lock' \in {lock} \cup (IF lock = r /\ ~signal[r] THEN {None} ELSE {})
  /\ Goto(r, "boot")
  /\ UNCHANGED <<runVars, tx, effects, req>>

\* The deferred pg_advisory_unlock, with its error and its result ignored: it
\* frees the lock unless ctx is done or the pool hands it another session.
Unlock(r) ==
  /\ pc[r] = "unlock"
  /\ lock' \in {lock} \cup (IF lock = r /\ ~signal[r] THEN {None} ELSE {})
  /\ Goto(r, IF migrated[r] THEN "boot" ELSE "close")
  /\ UNCHANGED <<runVars, tx, effects, req>>

\* Mutant: the pool of a process that serves keeps its connections for ever.
SessionEnds_NoLifetime(r) ==
  /\ pc[r] \notin {"boot", "serve", "drain"}
  /\ lock = r
  /\ lock' = None
  /\ UNCHANGED <<pc, runVars, tx, effects, req>>

\* The session with the lock is lost, or reaches MaxConnLifetime.
SessionEnds(r) ==
  /\ lock = r
  /\ lock' = None
  /\ UNCHANGED <<pc, runVars, tx, effects, req>>

-----------------------------------------------------------------------------
(***************************************************************************)
(* Serving and stopping.                                                   *)
(***************************************************************************)
\* server.New (the bootstrap of keys may fail and is only logged) and the
\* goroutine that serves.
ServerStarts(r) ==
  /\ pc[r] = "boot"
  /\ Goto(r, "serve")
  /\ UNCHANGED <<runVars, dbVars, req>>

Signal(r) ==
  /\ pc[r] # "down"
  /\ ~signal[r]
  /\ signal' = [signal EXCEPT ![r] = TRUE]
  /\ UNCHANGED <<pc, at, migrated, forced, starts, dbVars, req>>

\* ListenAndServe fails: run returns without waiting for requests.
ServerFails(r) ==
  /\ pc[r] = "serve"
  /\ forced' = [forced EXCEPT ![r] = TRUE]
  /\ Goto(r, "close")
  /\ UNCHANGED <<signal, at, migrated, starts, dbVars, req>>

\* Mutant: run returns on the signal without Shutdown.
Shutdown_Skipped(r) ==
  /\ pc[r] = "serve"
  /\ signal[r]
  /\ Goto(r, "close")
  /\ UNCHANGED <<runVars, dbVars, req>>

\* srv.Shutdown: no new requests.
Shutdown(r) ==
  /\ pc[r] = "serve"
  /\ signal[r]
  /\ Goto(r, "drain")
  /\ UNCHANGED <<runVars, dbVars, req>>

\* Shutdown returns: all requests are answered, or ShutdownTimeout has passed.
ShutdownReturns(r) ==
  /\ pc[r] = "drain"
  /\ forced' = [forced EXCEPT ![r] = Active(r) # {}]
  /\ Goto(r, "close")
  /\ UNCHANGED <<signal, at, migrated, starts, dbVars, req>>

\* The deferred calls: cleanup, and db.Close, which refuses new acquisitions.
Close(r) ==
  /\ pc[r] = "close"
  /\ Goto(r, "closing")
  /\ UNCHANGED <<runVars, dbVars, req>>

\* What a replica leaves behind: its sessions end, its handlers are cut off.
Ends(r, label) ==
  /\ lock' = IF lock = r THEN None ELSE lock
  /\ tx' = [tx EXCEPT ![r] = 0]
  /\ req' = [q \in Requests |-> IF q \in Active(r) THEN [on |-> r, st |-> label] ELSE req[q]]
  /\ signal' = [signal EXCEPT ![r] = FALSE]
  /\ Goto(r, "down")
  /\ UNCHANGED <<at, migrated, forced, starts, effects>>

\* db.Close returns once every connection is back, and the process exits.
Exit(r) ==
  /\ pc[r] = "closing"
  /\ \A q \in Active(r) : req[q].st # "recording"
  /\ Ends(r, "dropped")

Crash(r) ==
  /\ pc[r] # "down"
  /\ Ends(r, "crashed")

-----------------------------------------------------------------------------
(***************************************************************************)
(* A redemption, as far as the shutdown matters.                           *)
(***************************************************************************)
Moves(q, from, to) ==
  /\ req[q].st = from
  /\ req' = [req EXCEPT ![q].st = to]
  /\ UNCHANGED <<pc, runVars, dbVars>>

Accept(q, r) ==
  /\ pc[r] = "serve"
  /\ req[q].st = "idle"
  /\ req' = [req EXCEPT ![q] = [on |-> r, st |-> "called"]]
  /\ UNCHANGED <<pc, runVars, dbVars>>

\* The POST to TrueMoney ends.
Spend(q) == Moves(q, "called", "spent")

\* record acquires a connection, which a closed pool refuses.
BeginRecord(q) ==
  Moves(q, "spent", IF pc[req[q].on] = "closing" THEN "unbooked" ELSE "recording")

EndRecord(q) == Moves(q, "recording", "recorded")

Answer(q) == Moves(q, "recorded", "answered") \/ Moves(q, "unbooked", "answered")

-----------------------------------------------------------------------------
Migrate(r) ==
  \/ Lock(r) \/ CreateTable(r) \/ isApplied(r) \/ apply(r) \/ Commit(r)
  \/ Migrated(r) \/ Unlock(r)

Stop(r) == Shutdown(r) \/ ShutdownReturns(r) \/ Close(r) \/ Exit(r)

Handler(q) == Spend(q) \/ BeginRecord(q) \/ EndRecord(q) \/ Answer(q)

Next ==
  \/ \E r \in Replicas :
       \/ Start(r) \/ NewPool(r) \/ Migrate(r) \/ ServerStarts(r) \/ Stop(r)
       \/ CommitUnacknowledged(r) \/ StatementFails(r) \/ SessionEnds(r)
       \/ Signal(r) \/ ServerFails(r) \/ Crash(r)
  \/ \E q \in Requests : Handler(q) \/ \E r \in Replicas : Accept(q, r)

Spec == Init /\ [][Next]_vars

\* The statements that cannot succeed: ctx is done, or the row is there.
Doomed(r) == signal[r] \/ (pc[r] = "apply" /\ at[r] \in Applied)

(***************************************************************************)
(* Goroutines run, the database answers, TrueMoneyTimeout bounds the POST, *)
(* ShutdownTimeout the wait, and MaxConnLifetime the life of a session.    *)
(***************************************************************************)
Fairness ==
  /\ \A r \in Replicas :
       /\ WF_vars(NewPool(r) \/ Migrate(r) \/ ServerStarts(r))
       /\ WF_vars(Doomed(r) /\ StatementFails(r))
       /\ WF_vars(Stop(r))
       /\ WF_vars(SessionEnds(r))
  /\ \A q \in Requests : WF_vars(Handler(q))

FairSpec == Spec /\ Fairness

-----------------------------------------------------------------------------
TypeOK ==
  /\ pc \in [Replicas -> Pcs]
  /\ signal \in [Replicas -> BOOLEAN]
  /\ migrated \in [Replicas -> BOOLEAN]
  /\ forced \in [Replicas -> BOOLEAN]
  /\ at \in [Replicas -> 1..(Versions + 1)]
  /\ starts \in [Replicas -> 0..MaxStarts]
  /\ lock \in Replicas \cup {None}
  /\ tx \in [Replicas -> 0..Versions]
  /\ effects \in Seq(1..Versions)
  /\ req \in [Requests -> [on : Replicas \cup {None}, st : Progress]]

(***************************************************************************)
(* Each migration takes effect at most once and after all earlier ones,    *)
(* although the lock can be lost while Migrate runs, processes die, and    *)
(* commits are reported as failed (docs/architecture.md: "concurrent       *)
(* replicas never apply a migration twice").                               *)
(***************************************************************************)
OnceInOrder == \A j \in DOMAIN effects : effects[j] = j

(***************************************************************************)
(* A replica serves only on the complete schema, whoever applied it and    *)
(* whatever failed on the way (run returns on Migrate's error).            *)
(***************************************************************************)
ServesMigrated ==
  \A r \in Replicas : pc[r] \in {"boot", "serve", "drain"} => Applied = 1..Versions

(***************************************************************************)
(* The inductive strengthening: a replica's loop is never past the first   *)
(* migration that is missing, at most one transaction is about to apply it *)
(* although nothing is said of the lock, and what Migrate reported stays   *)
(* true.                                                                   *)
(***************************************************************************)
LoopIsBehind ==
  \A r \in Replicas :
    /\ pc[r] \in {"check", "apply", "commit"} => at[r] <= Len(effects) + 1
    /\ pc[r] \in {"apply", "commit"} => at[r] <= Versions
    /\ pc[r] = "commit" => tx[r] = at[r] /\ at[r] = Len(effects) + 1
    /\ pc[r] # "commit" => tx[r] = 0

OneApplies == \A r, s \in Replicas : pc[r] = "commit" /\ pc[s] = "commit" => r = s

ReportsStay ==
  \A r \in Replicas :
    /\ migrated[r] => Len(effects) = Versions
    /\ pc[r] \in {"boot", "serve", "drain"} => migrated[r]

IInv == TypeOK /\ OnceInOrder /\ LoopIsBehind /\ OneApplies /\ ReportsStay

(***************************************************************************)
(* An orderly exit cuts off no request and refuses no record: that takes a *)
(* shutdown that timed out or a server that failed (the order of Shutdown  *)
(* and the deferred calls in run).                                         *)
(***************************************************************************)
OrderlyExit ==
  [][\A q \in Requests :
       /\ req'[q].st # req[q].st
       /\ req'[q].st \in {"unbooked", "dropped"}
       => forced[req[q].on]]_vars

(***************************************************************************)
(* No replica waits for ever for the migration lock, not even behind one   *)
(* that serves with the lock still on a session of its pool, and a process *)
(* that is told to stop does stop (the deferred unlock, MaxConnLifetime,   *)
(* ShutdownTimeout).                                                       *)
(***************************************************************************)
GetsThrough ==
  \A r \in Replicas :
    /\ pc[r] = "lock" ~> pc[r] # "lock"
    /\ signal[r] ~> pc[r] = "down"
=============================================================================
