-------------------------- MODULE LifecycleProofs --------------------------
(***************************************************************************)
(* Theorems about Lifecycle, for any number of instances, requests,        *)
(* connections and migrations, and any timeouts.                           *)
(***************************************************************************)
EXTENDS LifecycleInvariant, FiniteSetTheorems, TLAPS

-----------------------------------------------------------------------------
LEMMA InitProcess == Init => ProcessInv
BY LifecycleAssumption, SMT
   DEF Init, ProcessInv, TypeOK, Placed, Migrated, Graced, LifecycleAssumption

\* Steps of one request: it moves from a place to another at one instance.
LEMMA RequestSteps ==
    ASSUME ProcessInv, NEW r \in Requests,
           (\E i \in Instances : Accept(i, r)) \/ Acquire(r) \/ LockRow(r) \/ Handle(r) \/ Fail(r)
    PROVE  ProcessInv'
<1> USE LifecycleAssumption
        DEF ProcessInv, LifecycleAssumption, Goto, process, request
<1>1. ASSUME NEW i \in Instances, Accept(i, r)
      PROVE  ProcessInv'
  <2>1. TypeOK'
    BY <1>1, SMT DEF Accept, TypeOK
  <2>2. Placed'
    BY <1>1, SMT DEF Accept, TypeOK, Placed
  <2>3. Migrated' /\ Graced'
    BY <1>1, SMT DEF Accept, TypeOK, Migrated, Graced
  <2> QED BY <2>1, <2>2, <2>3
<1>2. CASE Acquire(r)
  <2>1. TypeOK'
    BY <1>2, SMT DEF Acquire, TypeOK
  <2>2. Placed'
    BY <1>2, SMT DEF Acquire, TypeOK, Placed
  <2>3. Migrated' /\ Graced'
    BY <1>2, SMT DEF Acquire, TypeOK, Migrated, Graced
  <2> QED BY <2>1, <2>2, <2>3
<1>3. CASE LockRow(r)
  <2>1. TypeOK'
    BY <1>3, SMT DEF LockRow, TypeOK
  <2>2. Placed'
    BY <1>3, SMT DEF LockRow, TypeOK, Placed
  <2>3. Migrated' /\ Graced'
    BY <1>3, SMT DEF LockRow, TypeOK, Migrated, Graced
  <2> QED BY <2>1, <2>2, <2>3
<1>4. CASE Read(r)
  <2>1. TypeOK'
    BY <1>4, SMT DEF Read, TypeOK
  <2>2. Placed'
    BY <1>4, SMT DEF Read, TypeOK, Placed
  <2>3. Migrated' /\ Graced'
    BY <1>4, SMT DEF Read, TypeOK, Migrated, Graced
  <2> QED BY <2>1, <2>2, <2>3
<1>5. CASE Finish(r)
  <2>1. TypeOK'
    BY <1>5, SMT DEF Finish, Unlocked, TypeOK
  <2>2. Placed'
    BY <1>5, SMT DEF Finish, Unlocked, TypeOK, Placed
  <2>3. Migrated' /\ Graced'
    BY <1>5, SMT DEF Finish, TypeOK, Migrated, Graced
  <2> QED BY <2>1, <2>2, <2>3
<1>6. CASE Answer(r)
  <2>1. TypeOK'
    BY <1>6, SMT DEF Answer, TypeOK
  <2>2. Placed'
    BY <1>6, SMT DEF Answer, TypeOK, Placed
  <2>3. Migrated' /\ Graced'
    BY <1>6, SMT DEF Answer, TypeOK, Migrated, Graced
  <2> QED BY <2>1, <2>2, <2>3
<1> QED BY <1>1, <1>2, <1>3, <1>4, <1>5, <1>6 DEF Handle, Commit, Fail, Refused

\* The process of an instance ends, and takes its requests with it.
LEMMA GoneStep ==
    ASSUME ProcessInv, NEW i \in Instances, Gone(i), stops' \in Nat
    PROVE  ProcessInv'
<1> USE LifecycleAssumption DEF ProcessInv, LifecycleAssumption, Gone, Enter
<1>1. TypeOK'
  BY SMT DEF Unlocked, TypeOK
<1>2. Placed'
  BY SMT DEF Unlocked, Serving, TypeOK, Placed
<1>3. Migrated' /\ Graced'
  BY SMT DEF TypeOK, Migrated, Graced
<1> QED BY <1>1, <1>2, <1>3

\* Steps of one instance.
LEMMA InstanceSteps ==
    ASSUME ProcessInv, NEW i \in Instances, Run(i) \/ Signal(i) \/ Crash(i)
    PROVE  ProcessInv'
<1> USE LifecycleAssumption DEF ProcessInv, LifecycleAssumption, Enter, request
<1>1. CASE Start(i)
  BY <1>1, SMT DEF Start, TypeOK, Placed, Migrated, Graced
<1>2. CASE ReadVersion(i)
  BY <1>2, SMT DEF ReadVersion, NextMigration, TypeOK, Placed, Migrated, Graced
<1>3. CASE Migrate(i)
  BY <1>3, SMT DEF Migrate, AfterLostRace, TypeOK, Placed, Migrated, Graced
<1>4. CASE Serve(i)
  BY <1>4, SMT DEF Serve, TypeOK, Placed, Migrated, Graced
<1>5. CASE Tick(i)
  BY <1>5, SMT DEF Tick, TypeOK, Placed, Migrated, Graced
<1>6. CASE Shutdown(i)
  <2>1. TypeOK' /\ Placed' /\ Migrated'
    BY <1>6, SMT DEF Shutdown, TypeOK, Placed, Migrated
  <2>2. Graced'
    BY <1>6, SMT DEF Shutdown, TimedOut, Serving, TypeOK, Graced
  <2> QED BY <2>1, <2>2
<1>7. CASE Exit(i) \/ Kill(i) \/ Crash(i)
  <2>1. stops' \in Nat /\ Gone(i)
    BY <1>7, SMT DEF Exit, Kill, Crash, TypeOK
  <2> QED BY <2>1, GoneStep
<1>8. CASE Signal(i)
  BY <1>8, SMT DEF Signal, TypeOK, Placed, Migrated, Graced
<1> QED BY <1>1, <1>2, <1>3, <1>4, <1>5, <1>6, <1>7, <1>8 DEF Run

LEMMA StepProcess == ProcessInv /\ [Next]_vars => ProcessInv'
<1> SUFFICES ASSUME ProcessInv, [Next]_vars PROVE ProcessInv'
  OBVIOUS
<1>1. CASE Next
  BY <1>1, RequestSteps, InstanceSteps DEF Next
<1>2. CASE UNCHANGED vars
  BY <1>2 DEF vars, process, request, ProcessInv, TypeOK, Placed, Migrated, Graced
<1> QED BY <1>1, <1>2

LEMMA ProcessInvariance == Spec => []ProcessInv
BY InitProcess, StepProcess, PTL DEF Spec

-----------------------------------------------------------------------------
(* The pool *)

\* Only Acquire takes a connection.
LEMMA ConnectionsReturned ==
    ASSUME ProcessInv, [Next]_vars, NEW i \in Instances,
           ~ \E r \in Requests : Acquire(r)
    PROVE  InUse(i)' \subseteq InUse(i)
<1> USE LifecycleAssumption
        DEF ProcessInv, LifecycleAssumption, InUse, Serving, Goto, Enter, process, request
<1>1. CASE \E r \in Requests : LockRow(r) \/ Read(r) \/ Finish(r) \/ Answer(r)
  BY <1>1, SMT DEF LockRow, Read, Finish, Answer, TypeOK
<1>2. CASE \E j \in Instances, r \in Requests : Accept(j, r)
  BY <1>2, SMT DEF Accept, TypeOK
<1>3. CASE \E j \in Instances : Gone(j)
  BY <1>3, SMT DEF Gone, TypeOK
<1>4. CASE UNCHANGED request
  BY <1>4
<1> QED
  BY <1>1, <1>2, <1>3, <1>4, SMT
     DEF Next, Handle, Commit, Fail, Refused, Run, Start, ReadVersion, Migrate, Serve, Tick,
         Shutdown, Exit, Kill, Crash, Signal, vars

LEMMA PoolStep == ProcessInv /\ PoolBounded /\ [Next]_vars => PoolBounded'
<1> SUFFICES ASSUME ProcessInv, PoolBounded, [Next]_vars, NEW i \in Instances
             PROVE  Cardinality(InUse(i)') <= MaxConns
  BY DEF PoolBounded
<1>1. IsFiniteSet(InUse(i)) /\ Cardinality(InUse(i)) \in Nat
  <2>1. InUse(i) \subseteq Requests
    BY DEF InUse, Serving
  <2> QED BY <2>1, LifecycleAssumption, FS_Subset, FS_CardinalityType DEF LifecycleAssumption
<1>2. MaxConns \in Nat
  BY LifecycleAssumption DEF LifecycleAssumption
<1>3. ASSUME NEW r \in Requests, Acquire(r)
      PROVE  Cardinality(InUse(i)') <= MaxConns
  <2>1. CASE at[r] = i
    <3>1. InUse(i)' = InUse(i) \cup {r}
      BY <1>3, <2>1 DEF Acquire, InUse, Serving, Goto, ProcessInv, TypeOK
    <3>2. Cardinality(InUse(i)) < MaxConns
      BY <1>3, <2>1 DEF Acquire
    <3>3. r \notin InUse(i)
      BY <1>3 DEF Acquire, InUse
    <3>4. Cardinality(InUse(i) \cup {r}) = Cardinality(InUse(i)) + 1
      BY <1>1, <3>3, FS_AddElement
    <3>5. Cardinality(InUse(i)') = Cardinality(InUse(i)) + 1
      BY <3>1, <3>4, Zenon
    <3> HIDE DEF InUse
    <3> QED BY <1>1, <1>2, <3>2, <3>5, SMT
  <2>2. CASE at[r] # i
    <3>1. InUse(i)' = InUse(i)
      BY <1>3, <2>2 DEF Acquire, InUse, Serving, Goto, ProcessInv, TypeOK
    <3> QED BY <3>1 DEF PoolBounded
  <2> QED BY <2>1, <2>2
<1>4. CASE ~ \E r \in Requests : Acquire(r)
  <2>1. InUse(i)' \subseteq InUse(i)
    BY <1>4, ConnectionsReturned
  <2>2. Cardinality(InUse(i)') \in Nat /\ Cardinality(InUse(i)') <= Cardinality(InUse(i))
    BY <1>1, <2>1, FS_Subset, FS_CardinalityType
  <2>3. Cardinality(InUse(i)) <= MaxConns
    BY DEF PoolBounded
  <2> QED BY <1>1, <1>2, <2>2, <2>3, SMT
<1> QED BY <1>3, <1>4

LEMMA InitPool == Init => PoolBounded
<1> SUFFICES ASSUME Init, NEW i \in Instances PROVE Cardinality(InUse(i)) <= MaxConns
  BY DEF PoolBounded
<1>1. InUse(i) = {}
  BY DEF Init, InUse, Serving
<1> QED BY <1>1, FS_EmptySet, LifecycleAssumption DEF LifecycleAssumption

\* What an instance knows of the schema in each phase, where requests can be,
\* and the bound of the pools, hold in every reachable state.
THEOREM LifecycleInvariance == Spec => []Inv
<1>1. Init => Inv
  BY InitProcess, InitPool DEF Inv
<1>2. Inv /\ [Next]_vars => Inv'
  BY StepProcess, PoolStep DEF Inv
<1> QED BY <1>1, <1>2, PTL DEF Spec

\* The variables of every process and request keep their types.
THEOREM LifecycleTypeCorrect == Spec => []TypeOK
<1>1. Inv => TypeOK
  BY DEF Inv, ProcessInv
<1> QED BY <1>1, LifecycleInvariance, PTL

\* The pool of cmd/api is never exceeded, whatever its requests do and however
\* the process ends (db.go:18).
THEOREM PoolNeverExceeded == Spec => []PoolBounded
<1>1. Inv => PoolBounded
  BY DEF Inv
<1> QED BY <1>1, LifecycleInvariance, PTL

\* No instance serves a schema that is not complete, however many of them
\* migrate at once, lose the race or crash (migrate.go:13).
THEOREM SchemaComplete == Spec => []ServesOnMigratedSchema
<1>1. ProcessInv => ServesOnMigratedSchema
  BY SMT DEF ProcessInv, TypeOK, Placed, Migrated, Graced, ServesOnMigratedSchema
<1> QED BY <1>1, ProcessInvariance, PTL

-----------------------------------------------------------------------------
(* Shutdown *)

\* A process that is stopping ends by Exit or by Kill, unless it crashes.
LEMMA StoppingEnds ==
    ASSUME ProcessInv, [Next]_vars, NEW i \in Instances, Stopping(i), phase'[i] = "down",
           UNCHANGED stops
    PROVE  Exit(i) \/ Kill(i)
<1> USE DEF Stopping, ProcessInv, TypeOK, Enter, Gone
<1>1. CASE \E j \in Instances : Run(j) \/ Signal(j) \/ Crash(j)
  BY <1>1, SMT
     DEF Run, Start, ReadVersion, Migrate, AfterLostRace, Serve, Tick, Shutdown, Exit, Kill,
         Signal, Crash
<1>2. CASE UNCHANGED phase
  BY <1>2
<1> QED
  BY <1>1, <1>2
     DEF Next, Accept, Acquire, LockRow, Handle, Read, Commit, Fail, Refused, Finish, Answer,
         vars, process

\* A process that is stopping, and does not crash, cuts a request only when its
\* time is over.
THEOREM NothingCutEarly == Spec => CutOnlyAfterGrace
<1> DEFINE Cut(i) ==
        Stopping(i) /\ phase'[i] = "down" /\ UNCHANGED stops /\ Serving(i) # {} =>
            elapsed[i] >= ShutdownTimeout \/ elapsed[i] >= killAfter
<1>1. ASSUME ProcessInv, [Next]_vars PROVE [\A i \in Instances : Cut(i)]_vars
  <2> SUFFICES ASSUME NEW i \in Instances,
                      Stopping(i), phase'[i] = "down", UNCHANGED stops,
                      Serving(i) # {}
               PROVE  elapsed[i] >= ShutdownTimeout \/ elapsed[i] >= killAfter
    OBVIOUS
  <2>1. PICK r \in Requests : at[r] = i
    BY DEF Serving
  <2>2. Exit(i) \/ Kill(i)
    BY <1>1, StoppingEnds
  <2> QED BY <1>1, <2>1, <2>2 DEF Exit, Kill, ProcessInv, Graced
<1> QED BY <1>1, ProcessInvariance, PTL DEF Spec, CutOnlyAfterGrace
=============================================================================
