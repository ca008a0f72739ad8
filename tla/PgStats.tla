------------------------------- MODULE PgStats -------------------------------
(***************************************************************************)
(* The PostgreSQL statistics store (internal/repository/postgres/stats.go) *)
(* under concurrent callers of several instances: RecordTw as the          *)
(* transaction of countOnce, RecordTw with an empty reference and          *)
(* RecordTwError as single statements.  Calls and connections may fail at  *)
(* any step, and the acknowledgement of a commit may be lost.              *)
(*                                                                         *)
(* PostgreSQL (external) is modelled at READ COMMITTED from what the SQL   *)
(* relies on: an insert waits for another transaction's uncommitted row of *)
(* the same key; an UPDATE waits for the row lock and then reads the       *)
(* latest committed row; writes become visible at commit.                  *)
(***************************************************************************)
EXTENDS Integers

CONSTANTS Refs, NoRef, Cents,
          Workers,      \* goroutines calling the store, on all instances
          None,
          MaxCents,     \* largest BIGINT
          MaxCalls      \* bound on the calls made

ASSUME PgStatsAssumption ==
  /\ NoRef \notin Refs
  /\ Cents \subseteq Nat
  /\ None \notin Workers
  /\ MaxCents \in Nat
  /\ MaxCalls \in Nat

VARIABLES
  refs,                   \* recorded_refs, committed
  count, cents, errors,   \* the row of stats_totals, committed
  tx,                     \* what each worker's statement or transaction has done
  rowLock,                \* the worker holding the lock on the totals row
  acked,                  \* references some RecordTw returned nil for
  calls

rows == <<refs, count, cents, errors>>
vars == <<rows, tx, rowLock, acked, calls>>

\* The promise this store implements.
S == INSTANCE Stats WITH refs <- refs, count <- count, cents <- cents, errors <- errors

Row == [count : Nat, cents : Nat, errors : Nat]

NoRow == [count |-> 0, cents |-> 0, errors |-> 0]

Idle == [pc |-> "idle", ref |-> NoRef, amount |-> 0, row |-> NoRow]

Tx == [pc     : {"idle", "begun", "inserted", "duplicate", "single", "failed", "updated"},
       ref    : Refs \cup {NoRef},
       amount : Nat,
       row    : Row]

Init ==
  /\ refs = {} /\ count = 0 /\ cents = 0 /\ errors = 0
  /\ tx = [w \in Workers |-> Idle]
  /\ rowLock = None
  /\ acked = {}
  /\ calls = 0

-----------------------------------------------------------------------------
\* A worker's uncommitted row of recorded_refs with reference ref.
Pending(w, ref) == tx[w].pc \in {"inserted", "updated"} /\ tx[w].ref = ref

(***************************************************************************)
(* RecordTw, RecordTwError: a transaction for a voucher with a reference,  *)
(* a single UPDATE otherwise.  "failed" is the UPDATE of the error count.  *)
(***************************************************************************)
RecordTw(w, amount, ref) ==
  /\ tx[w].pc = "idle"
  /\ calls < MaxCalls
  /\ calls' = calls + 1
  /\ tx' = [tx EXCEPT ![w] = [pc |-> IF ref = NoRef THEN "single" ELSE "begun",
                              ref |-> ref, amount |-> amount, row |-> NoRow]]
  /\ UNCHANGED <<rows, rowLock, acked>>

RecordTwError(w) ==
  /\ tx[w].pc = "idle"
  /\ calls < MaxCalls
  /\ calls' = calls + 1
  /\ tx' = [tx EXCEPT ![w].pc = "failed"]
  /\ UNCHANGED <<rows, rowLock, acked>>

\* INSERT ... ON CONFLICT DO NOTHING: one row affected.
Insert(w) ==
  /\ tx[w].pc = "begun"
  /\ tx[w].ref \notin refs
  /\ \A u \in Workers \ {w} : ~Pending(u, tx[w].ref)
  /\ tx' = [tx EXCEPT ![w].pc = "inserted"]
  /\ UNCHANGED <<rows, rowLock, acked, calls>>

\* The same, no row affected: the UPDATE is skipped.
InsertConflict(w) ==
  /\ tx[w].pc = "begun"
  /\ tx[w].ref \in refs
  /\ tx' = [tx EXCEPT ![w].pc = "duplicate"]
  /\ UNCHANGED <<rows, rowLock, acked, calls>>

\* The row the UPDATE of worker w writes over the committed one.
NewRow(w) ==
  IF tx[w].pc = "failed"
  THEN [count |-> count, cents |-> cents, errors |-> errors + 1]
  ELSE [count |-> count + 1, cents |-> cents + tx[w].amount, errors |-> errors]

\* Mutant: the totals are read first and written back as plain values.
Update_ReadThenWrite(w) ==
  /\ tx[w].pc \in {"inserted", "single", "failed"}
  /\ NewRow(w).cents <= MaxCents
  /\ tx' = [tx EXCEPT ![w].row = NewRow(w), ![w].pc = "updated"]
  /\ rowLock' = w
  /\ UNCHANGED <<rows, acked, calls>>

\* UPDATE stats_totals SET x = x + ...: a BIGINT out of range is an error.
Update(w) ==
  /\ tx[w].pc \in {"inserted", "single", "failed"}
  /\ rowLock = None
  /\ NewRow(w).cents <= MaxCents
  /\ tx' = [tx EXCEPT ![w].row = NewRow(w), ![w].pc = "updated"]
  /\ rowLock' = w
  /\ UNCHANGED <<rows, acked, calls>>

\* Mutant: countOnce returns without committing.
Commit_Forgotten(w, ok) ==
  /\ tx[w].pc \in {"updated", "duplicate"}
  /\ rowLock' = IF rowLock = w THEN None ELSE rowLock
  /\ acked' = IF ok THEN acked \cup ({tx[w].ref} \ {NoRef}) ELSE acked
  /\ tx' = [tx EXCEPT ![w] = Idle]
  /\ UNCHANGED <<rows, calls>>

\* Commit, or the implicit commit of a single statement; ok: the caller hears.
Commit(w, ok) ==
  /\ \/ /\ tx[w].pc = "updated"
        /\ refs' = refs \cup ({tx[w].ref} \ {NoRef})
        /\ count' = tx[w].row.count
        /\ cents' = tx[w].row.cents
        /\ errors' = tx[w].row.errors
        /\ rowLock' = None
     \/ /\ tx[w].pc = "duplicate"
        /\ UNCHANGED <<rows, rowLock>>
  /\ acked' = IF ok THEN acked \cup ({tx[w].ref} \ {NoRef}) ELSE acked
  /\ tx' = [tx EXCEPT ![w] = Idle]
  /\ UNCHANGED calls

\* Mutant: the deferred Rollback is missing, so the transaction stays open.
Abort_NoRollback(w) ==
  /\ tx[w].pc # "idle"
  /\ tx' = [tx EXCEPT ![w] = Idle]
  /\ UNCHANGED <<rows, rowLock, acked, calls>>

\* A statement fails, the connection is lost, or the process dies.
Abort(w) ==
  /\ tx[w].pc # "idle"
  /\ tx' = [tx EXCEPT ![w] = Idle]
  /\ rowLock' = IF rowLock = w THEN None ELSE rowLock
  /\ UNCHANGED <<rows, acked, calls>>

\* The bound is used up and every call has ended.
Finished ==
  /\ calls = MaxCalls
  /\ \A w \in Workers : tx[w].pc = "idle"
  /\ UNCHANGED vars

Ends(w) == \E ok \in BOOLEAN : Commit(w, ok)

Overflows(w) ==
  tx[w].pc \in {"inserted", "single", "failed"} /\ NewRow(w).cents > MaxCents /\ Abort(w)

Next ==
  \/ \E w \in Workers :
       \/ \E amount \in Cents, ref \in Refs \cup {NoRef} : RecordTw(w, amount, ref)
       \/ RecordTwError(w)
       \/ Insert(w) \/ InsertConflict(w) \/ Update(w) \/ Ends(w) \/ Abort(w)
  \/ Finished

Spec == Init /\ [][Next]_vars

(***************************************************************************)
(* A statement that can proceed does; PostgreSQL grants locks in the order *)
(* they were asked for, so one that waits for a lock again and again       *)
(* released gets it.  Failures are never forced.                           *)
(***************************************************************************)
Fairness ==
  \A w \in Workers : /\ SF_vars(Insert(w) \/ InsertConflict(w))
                     /\ SF_vars(Update(w))
                     /\ WF_vars(Overflows(w))
                     /\ WF_vars(Ends(w))

FairSpec == Spec /\ Fairness

-----------------------------------------------------------------------------
TypeOK ==
  /\ refs \subseteq Refs
  /\ count \in Nat /\ cents \in Nat /\ errors \in Nat
  /\ tx \in [Workers -> Tx]
  /\ rowLock \in Workers \cup {None}
  /\ acked \subseteq Refs
  /\ calls \in 0..MaxCalls

(***************************************************************************)
(* The store keeps its promise: seen from outside, every committed change  *)
(* is one RecordTw of a voucher not counted before, or one RecordTwError,  *)
(* applied to the totals of that moment: no lost update, no double count.  *)
(***************************************************************************)
ImplementsStats == S!StatsSpec

(***************************************************************************)
(* A caller that was told nil can rely on it: the voucher is in the books, *)
(* also when it was skipped as a duplicate of a transaction that had not   *)
(* committed yet (countOnce's "insert wins the race").                     *)
(***************************************************************************)
AckedIsCounted == acked \subseteq refs

(***************************************************************************)
(* Every call of the store ends: transactions that wait for each other's   *)
(* reference and for the totals row never wait in a cycle, and an error    *)
(* return leaves no lock behind (the deferred Rollback of countOnce).      *)
(***************************************************************************)
EveryCallEnds == \A w \in Workers : tx[w].pc # "idle" ~> tx[w].pc = "idle"

-----------------------------------------------------------------------------
(***************************************************************************)
(* The inductive invariant behind the refinement.                          *)
(***************************************************************************)
\* The lock on the totals row belongs to the one worker that updated it, and
\* the row it is going to commit still is the committed row plus its own change.
LockedRow ==
  \A w \in Workers :
    /\ tx[w].pc = "updated" <=> rowLock = w
    /\ tx[w].pc = "updated" =>
         \/ /\ tx[w].row.count = count + 1
            /\ tx[w].row.cents = cents + tx[w].amount
            /\ tx[w].row.errors = errors
            /\ tx[w].amount \in Cents
         \/ /\ tx[w].row.count = count
            /\ tx[w].row.cents = cents
            /\ tx[w].row.errors = errors + 1
            /\ tx[w].ref = NoRef
    /\ tx[w].pc \in {"begun", "inserted", "single"} => tx[w].amount \in Cents

\* An uncommitted reference is new and inserted by one transaction only.
UniqueInsert ==
  \A w \in Workers :
    /\ tx[w].pc \in {"begun", "inserted", "duplicate"} => tx[w].ref # NoRef
    /\ tx[w].pc \in {"idle", "single", "failed"} => tx[w].ref = NoRef
    /\ tx[w].pc = "duplicate" => tx[w].ref \in refs
    /\ Pending(w, tx[w].ref) => tx[w].ref \notin refs
    /\ \A u \in Workers :
         Pending(w, tx[w].ref) /\ Pending(u, tx[w].ref) /\ tx[w].ref # NoRef => u = w

IInv == TypeOK /\ LockedRow /\ UniqueInsert /\ AckedIsCounted
=============================================================================
