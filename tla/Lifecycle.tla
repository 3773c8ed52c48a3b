----------------------------- MODULE Lifecycle -----------------------------
(***************************************************************************)
(* The processes that serve the API: they migrate the schema, serve with a *)
(* pool of connections, and drain when they are told to stop. cmd/api and  *)
(* internal/platform/db.                                                   *)
(*                                                                         *)
(* A transaction keeps one connection to its end and waits for a row that  *)
(* transactions of any instance share; a search takes a connection for     *)
(* each statement. Time is counted for an instance that is stopping only.  *)
(***************************************************************************)
EXTENDS Integers, FiniteSets

CONSTANTS
    Instances,          \* processes of cmd/api on one database
    Requests,           \* requests the clients have open at most
    MaxConns,           \* connections of a pool, 10 in the code
    Migrations,         \* migrations of the schema, 2 in the code
    Statements,         \* statements of a search
    ShutdownTimeout,    \* 15 seconds in the code
    KillAfters,         \* how long the platform may wait before it kills
    MaxStops,           \* bound: signals, failures to listen and crashes
    None

ASSUME LifecycleAssumption ==
    /\ MaxConns \in Nat \ {0} /\ Migrations \in Nat /\ Statements \in Nat \ {0}
    /\ ShutdownTimeout \in Nat \ {0} /\ KillAfters \subseteq Nat \ {0} /\ MaxStops \in Nat
    /\ IsFiniteSet(Requests) /\ None \notin Instances \cup Requests

VARIABLES
    schema,         \* migrations committed
    phase,          \* of each instance: down, migrate, serve, drain, close
    target,         \* the migration it is about to apply, 0 if it has to read
    elapsed,        \* since it was told to stop
    killAfter,      \* the platform's patience, the same in all of a behaviour
    stops,          \* signals, failures and crashes so far
    at,             \* the instance that serves a request
    where,          \* of each request: away, queue, conn, row, done
    left,           \* statements a search has left, 0 for a transaction
    row             \* the transaction that has locked the row

process == <<phase, target, elapsed, stops>>
request == <<at, where, left, row>>
vars    == <<schema, process, killAfter, request>>

Serving(i) == {r \in Requests : at[r] = i}

InUse(i) == {r \in Serving(i) : where[r] \in {"conn", "row"}}

-----------------------------------------------------------------------------
(* Requests *)

Goto(r, place) == where' = [where EXCEPT ![r] = place]

\* A handler starts; it needs a connection for its first statement.
Accept(i, r) ==
    /\ phase[i] = "serve"
    /\ where[r] = "away"
    /\ at' = [at EXCEPT ![r] = i]
    /\ left' \in {[left EXCEPT ![r] = n] : n \in {0, Statements}}
    /\ Goto(r, "queue")
    /\ UNCHANGED <<schema, process, killAfter, row>>

Acquire(r) ==
    /\ where[r] = "queue"
    /\ phase[at[r]] # "close"
    /\ Cardinality(InUse(at[r])) < MaxConns
    /\ Goto(r, "conn")
    /\ UNCHANGED <<schema, process, killAfter, at, left, row>>

\* A search gives its connection back after each statement.
Read(r) ==
    /\ where[r] = "conn"
    /\ left[r] > 0
    /\ left' = [left EXCEPT ![r] = @ - 1]
    /\ Goto(r, IF left[r] = 1 THEN "done" ELSE "queue")
    /\ UNCHANGED <<schema, process, killAfter, at, row>>

\* Mutant: the statement takes a connection from the pool, not the one of its
\* transaction.
LockRowByPool(r) ==
    /\ where[r] = "conn"
    /\ left[r] = 0
    /\ row = None
    /\ Cardinality(InUse(at[r])) < MaxConns
    /\ row' = r
    /\ Goto(r, "row")
    /\ UNCHANGED <<schema, process, killAfter, at, left>>

\* base.db finds the transaction in the context: no second connection.
LockRow(r) ==
    /\ where[r] = "conn"
    /\ left[r] = 0
    /\ row = None
    /\ row' = r
    /\ Goto(r, "row")
    /\ UNCHANGED <<schema, process, killAfter, at, left>>

\* Mutant: a transaction whose client is gone stays open.
RowKept(rs) == row

\* The row when the transactions of rs have ended.
Unlocked(rs) == IF row \in rs THEN None ELSE row

\* Commit, or what ends a handler early: a statement that fails, a client that
\* goes away, a pool that is closed. The connection goes back to the pool.
Finish(r) ==
    /\ where[r] \in {"queue", "conn", "row"}
    /\ row' = Unlocked({r})
    /\ Goto(r, "done")
    /\ UNCHANGED <<schema, process, killAfter, at, left>>

Commit(r) == where[r] = "row" /\ Finish(r)

Fail(r) == where[r] # "row" /\ Finish(r)

Refused(r) == where[r] = "queue" /\ phase[at[r]] = "close" /\ Finish(r)

Answer(r) ==
    /\ where[r] = "done"
    /\ Goto(r, "away")
    /\ at' = [at EXCEPT ![r] = None]
    /\ left' = [left EXCEPT ![r] = 0]
    /\ UNCHANGED <<schema, process, killAfter, row>>

-----------------------------------------------------------------------------
(* An instance starts *)

Enter(i, p) == phase' = [phase EXCEPT ![i] = p]

\* The platform starts it: configuration, a ping, then the migrations.
Start(i) ==
    /\ phase[i] = "down"
    /\ Enter(i, "migrate")
    /\ target' = [target EXCEPT ![i] = 0]
    /\ elapsed' = [elapsed EXCEPT ![i] = 0]
    /\ UNCHANGED <<schema, stops, killAfter, request>>

\* Mutant: the recorded version is not looked at, all migrations are applied.
NextFromFirst == 1

\* What goose takes for the next migration, from the version that is recorded.
NextMigration == schema + 1

\* Read before each migration, outside its transaction.
ReadVersion(i) ==
    /\ phase[i] = "migrate"
    /\ target[i] = 0
    /\ target' = [target EXCEPT ![i] = NextMigration]
    /\ UNCHANGED <<schema, phase, elapsed, stops, killAfter, request>>

\* Mutant: a migration that fails is logged, and the server starts.
AfterLostRaceServes(i) == Enter(i, "serve")

\* The migration has been applied by another instance: CREATE and DROP fail,
\* and the process with them.
AfterLostRace(i) == Enter(i, "down")

\* One migration, in a transaction of its own.
Migrate(i) ==
    /\ phase[i] = "migrate"
    /\ target[i] \in 1 .. Migrations
    /\ IF schema = target[i] - 1
       THEN /\ schema' = target[i]
            /\ target' = [target EXCEPT ![i] = 0]
            /\ UNCHANGED phase
       ELSE /\ AfterLostRace(i)
            /\ UNCHANGED <<schema, target>>
    /\ UNCHANGED <<elapsed, stops, killAfter, request>>

Serve(i) ==
    /\ phase[i] = "migrate"
    /\ target[i] > Migrations
    /\ Enter(i, "serve")
    /\ UNCHANGED <<schema, target, elapsed, stops, killAfter, request>>

-----------------------------------------------------------------------------
(* An instance stops *)

\* SIGTERM. A server drains; before it serves, the context ends its start, as
\* does an address that is taken.
Signal(i) ==
    /\ phase[i] \in {"migrate", "serve"}
    /\ stops < MaxStops
    /\ stops' = stops + 1
    /\ Enter(i, IF phase[i] = "serve" THEN "drain" ELSE "down")
    /\ UNCHANGED <<schema, target, elapsed, killAfter, request>>

Tick(i) ==
    /\ phase[i] \in {"drain", "close"}
    /\ elapsed[i] < killAfter
    /\ elapsed' = [elapsed EXCEPT ![i] = @ + 1]
    /\ UNCHANGED <<schema, phase, target, stops, killAfter, request>>

\* Mutant: Shutdown is given the context that the signal has ended.
TimedOutBySignal(i) == TRUE

TimedOut(i) == elapsed[i] >= ShutdownTimeout

\* srv.Shutdown returns: all answered, or its time is over. The deferred
\* pool.Close refuses connections from now on.
Shutdown(i) ==
    /\ phase[i] = "drain"
    /\ Serving(i) = {} \/ TimedOut(i)
    /\ Enter(i, "close")
    /\ UNCHANGED <<schema, target, elapsed, stops, killAfter, request>>

\* The process is gone, and with it what it was serving: a transaction without
\* its client is rolled back by the database.
Gone(i) ==
    /\ Enter(i, "down")
    /\ at' = [r \in Requests |-> IF at[r] = i THEN None ELSE at[r]]
    /\ where' = [r \in Requests |-> IF at[r] = i THEN "away" ELSE where[r]]
    /\ left' = [r \in Requests |-> IF at[r] = i THEN 0 ELSE left[r]]
    /\ row' = Unlocked(Serving(i))
    /\ UNCHANGED <<schema, target, elapsed, killAfter>>

\* pool.Close returns when every connection has been given back.
Exit(i) == phase[i] = "close" /\ InUse(i) = {} /\ Gone(i) /\ UNCHANGED stops

Kill(i) ==
    phase[i] \in {"drain", "close"} /\ elapsed[i] >= killAfter /\ Gone(i) /\ UNCHANGED stops

\* Out of memory, a host that fails: between two migrations, while it serves, or
\* while it drains.
Crash(i) ==
    /\ phase[i] # "down"
    /\ stops < MaxStops
    /\ stops' = stops + 1
    /\ Gone(i)

-----------------------------------------------------------------------------
Init ==
    /\ schema = 0
    /\ phase = [i \in Instances |-> "down"]
    /\ target = [i \in Instances |-> 0]
    /\ elapsed = [i \in Instances |-> 0]
    /\ killAfter \in KillAfters
    /\ stops = 0
    /\ at = [r \in Requests |-> None]
    /\ where = [r \in Requests |-> "away"]
    /\ left = [r \in Requests |-> 0]
    /\ row = None

Handle(r) == Read(r) \/ Commit(r) \/ Refused(r) \/ Answer(r)

Run(i) ==
    \/ Start(i) \/ ReadVersion(i) \/ Migrate(i) \/ Serve(i)
    \/ Tick(i) \/ Shutdown(i) \/ Exit(i) \/ Kill(i)

Next ==
    \/ \E i \in Instances, r \in Requests : Accept(i, r)
    \/ \E r \in Requests : Acquire(r) \/ LockRow(r) \/ Handle(r) \/ Fail(r)
    \/ \E i \in Instances : Run(i) \/ Signal(i) \/ Crash(i)

\* The pool and the database serve those who wait in order; a process runs, and
\* one that is down is started again.
Fairness ==
    /\ \A r \in Requests : SF_vars(Acquire(r)) /\ SF_vars(LockRow(r)) /\ WF_vars(Handle(r))
    /\ \A i \in Instances : WF_vars(Run(i))

Spec == Init /\ [][Next]_vars /\ Fairness

-----------------------------------------------------------------------------
(* Properties *)

\* The types of the variables of a process and of its requests.
TypeOK ==
    /\ schema \in 0 .. Migrations
    /\ phase \in [Instances -> {"down", "migrate", "serve", "drain", "close"}]
    /\ target \in [Instances -> 0 .. Migrations + 1]
    /\ elapsed \in [Instances -> Nat]
    /\ killAfter \in Nat
    /\ stops \in Nat
    /\ at \in [Requests -> Instances \cup {None}]
    /\ where \in [Requests -> {"away", "queue", "conn", "row", "done"}]
    /\ left \in [Requests -> 0 .. Statements]
    /\ row \in Requests \cup {None}

\* No request is served on a schema that is not complete, even when instances
\* start at once and one of them finds its migration applied (migrate.go:13).
ServesOnMigratedSchema ==
    \A r \in Requests : where[r] # "away" => schema = Migrations

Stopping(i) == phase[i] \in {"drain", "close"}

\* A process that has been told to stop, and does not crash on the way, leaves an
\* open request without an answer only when its time is over: its own timeout,
\* or the patience of the platform (main.go:92). A crash counts as a stop.
CutOnlyAfterGrace ==
    [][\A i \in Instances :
         Stopping(i) /\ phase'[i] = "down" /\ UNCHANGED stops /\ Serving(i) # {} =>
             elapsed[i] >= ShutdownTimeout \/ elapsed[i] >= killAfter]_vars

\* Every request ends, answered or cut: transactions that wait for the row with
\* all the connections of their pools never wait for each other (db.go:23).
RequestsSettle == \A r \in Requests : where[r] # "away" ~> where[r] = "away"

\* Every instance that is started serves in the end, though it may lose a race
\* of migrations, or crash between two of them, on the way and be started again.
EventuallyServes == \A i \in Instances : phase[i] = "down" ~> phase[i] = "serve"
=============================================================================
