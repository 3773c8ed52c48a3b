------------------------- MODULE LifecycleInvariant -------------------------
(***************************************************************************)
(* The inductive invariant of Lifecycle: what an instance knows of the     *)
(* schema in each phase, and where requests can be.                        *)
(***************************************************************************)
EXTENDS Lifecycle

\* Requests are away or at an instance, and the row is locked by who says so.
Placed ==
    /\ \A r \in Requests : where[r] = "away" <=> at[r] = None
    /\ \A r \in Requests : where[r] = "row" => row = r
    /\ row # None => where[row] = "row"

\* Who has read the last version, or serves, has seen the schema complete.
Migrated ==
    \A i \in Instances :
        /\ phase[i] = "migrate" /\ target[i] > Migrations => schema = Migrations
        /\ phase[i] \in {"serve", "drain", "close"} => schema = Migrations

\* Requests are at instances that have served, and those of an instance that
\* closes its pool have been given the whole of its timeout.
Graced ==
    \A r \in Requests : \A i \in Instances : at[r] = i =>
        /\ phase[i] \in {"serve", "drain", "close"}
        /\ phase[i] = "close" => elapsed[i] >= ShutdownTimeout

\* A pool never has more connections in use than it may open.
PoolBounded == \A i \in Instances : Cardinality(InUse(i)) <= MaxConns

ProcessInv == TypeOK /\ Placed /\ Migrated /\ Graced

\* The invariant of cmd/api, db.go and migrate.go: the safety properties of
\* Lifecycle follow from it.
Inv == ProcessInv /\ PoolBounded
=============================================================================
