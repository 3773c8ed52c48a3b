------------------------------- MODULE Outbox -------------------------------
(***************************************************************************)
(* The transactional outbox: reservations write their events to the table  *)
(* in their own transaction, and workers poll the table and send what they *)
(* claim. internal/adapter/postgres/outbox.go and internal/worker.         *)
(*                                                                         *)
(* A worker claims rows in one statement (a snapshot, then a row at a time *)
(* under FOR UPDATE SKIP LOCKED), sends them one by one, and marks them in *)
(* the same transaction: the marks are seen by nobody until the commit.    *)
(***************************************************************************)
EXTENDS Integers, FiniteSets

CONSTANTS
    Workers,        \* processes running Dispatcher.Run on one database
    References,     \* reservations
    MaxId,          \* bound: events the bigserial numbers
    Batch,          \* OUTBOX_BATCH_SIZE
    MaxAttempts,    \* maxAttempts, 5 in the code
    MaxAborts,      \* bound: dispatches that end without their commit
    None            \* no row

ASSUME OutboxAssumption ==
    /\ MaxId \in Nat /\ Batch \in Nat \ {0} /\ MaxAttempts \in Nat \ {0} /\ MaxAborts \in Nat
    /\ None \notin Nat

VARIABLES
    messages,       \* table outbox: the committed rows, by id
    nextId,         \* the sequence of outbox.id; an id is never given back
    inflight,       \* the row each reservation's transaction has inserted
    pc,             \* where each worker is
    scan,           \* rows of its claim's snapshot that it has not looked at
    claimed,        \* rows it has locked
    sent, failed,   \* rows it has marked
    aborts,         \* history: dispatches rolled back
    delivered,      \* history: how often the sender delivered a message
    failures        \* history: how often it refused it

table      == <<messages, nextId, inflight>>
workerVars == <<pc, scan, claimed, sent, failed>>
history    == <<aborts, delivered, failures>>
vars       == <<table, workerVars, history>>

Ids == 1 .. MaxId

Message == [reservation: References, type: {"confirmed", "cancelled"},
            published: BOOLEAN, attempts: 0 .. MaxAttempts]

ASSUME NoneAssumption == None \notin Message

Committed(r) == {i \in Ids : messages[i] # None /\ messages[i].reservation = r}

-----------------------------------------------------------------------------
(* The transactions of reservations *)

\* Publish, inside Reserve for the first event of a reservation and inside
\* Cancel for the second, which starts when the first has committed.
Publish(r) ==
    /\ inflight[r] = None
    /\ Cardinality(Committed(r)) < 2
    /\ nextId <= MaxId
    /\ inflight' = [inflight EXCEPT ![r] = nextId]
    /\ nextId' = nextId + 1
    /\ UNCHANGED <<messages, workerVars, history>>

NewMessage(r) ==
    [reservation |-> r, published |-> FALSE, attempts |-> 0,
     type |-> IF Committed(r) = {} THEN "confirmed" ELSE "cancelled"]

PublishEnds(r) ==
    /\ inflight[r] # None
    /\ messages' \in {messages, [messages EXCEPT ![inflight[r]] = NewMessage(r)]}
    /\ inflight' = [inflight EXCEPT ![r] = None]
    /\ UNCHANGED <<nextId, workerVars, history>>

-----------------------------------------------------------------------------
(* Dispatch *)

Goto(w, label) == pc' = [pc EXCEPT ![w] = label]

\* Mutant: a message that keeps failing is tried for ever.
Unpublished(i) == messages[i] # None /\ ~messages[i].published

\* WHERE published_at IS NULL AND attempts < maxAttempts
Eligible(i) ==
    /\ messages[i] # None
    /\ ~messages[i].published
    /\ messages[i].attempts < MaxAttempts

\* Mutant: the last in line first.
Last(ids) == CHOOSE i \in ids : \A j \in ids : j <= i

First(ids) == CHOOSE i \in ids : \A j \in ids : i <= j

\* The claim starts: its snapshot, in order of id.
Claim(w) ==
    /\ pc[w] = "claim"
    /\ scan' = [scan EXCEPT ![w] = {i \in Ids : Eligible(i)}]
    /\ Goto(w, "scan")
    /\ UNCHANGED <<table, claimed, sent, failed, history>>

\* Mutant: FOR UPDATE, as if nobody else could hold a row.
NeverLocked(w, i) == FALSE

LockedByOther(w, i) == \E v \in Workers \ {w} : i \in claimed[v]

\* Mutant: what the snapshot has found is taken as it stands.
TrustSnapshot(i) == TRUE

\* A row that changed since the snapshot is checked again before it is locked.
Recheck(i) == Eligible(i)

MoreToScan(w) == scan[w] # {} /\ Cardinality(claimed[w]) < Batch

ScanRow(w) ==
    LET i == First(scan[w]) IN
    /\ pc[w] = "scan"
    /\ MoreToScan(w)
    /\ scan' = [scan EXCEPT ![w] = @ \ {i}]
    /\ claimed' = IF LockedByOther(w, i) \/ ~Recheck(i)
                  THEN claimed
                  ELSE [claimed EXCEPT ![w] = @ \cup {i}]
    /\ UNCHANGED <<table, pc, sent, failed, history>>

Claimed(w) ==
    /\ pc[w] = "scan"
    /\ ~MoreToScan(w)
    /\ scan' = [scan EXCEPT ![w] = {}]
    /\ Goto(w, "send")
    /\ UNCHANGED <<table, claimed, sent, failed, history>>

Unsent(w) == claimed[w] \ (sent[w] \cup failed[w])

\* One turn of the send loop: the sender delivers the message, or refuses it.
Send(w) ==
    LET i == First(Unsent(w)) IN
    /\ pc[w] = "send"
    /\ Unsent(w) # {}
    /\ \/ /\ sent' = [sent EXCEPT ![w] = @ \cup {i}]
          /\ delivered' = [delivered EXCEPT ![i] = @ + 1]
          /\ UNCHANGED <<failed, failures>>
       \/ /\ failed' = [failed EXCEPT ![w] = @ \cup {i}]
          /\ failures' = [failures EXCEPT ![i] = @ + 1]
          /\ UNCHANGED <<sent, delivered>>
    /\ UNCHANGED <<table, pc, scan, claimed, aborts>>

\* Mutant: a failure counts against every message of the batch.
MarkBatch(w, i) ==
    [messages[i] EXCEPT !.published = i \in sent[w],
                        !.attempts = IF failed[w] # {} THEN @ + 1 ELSE @]

\* markSent and markFailed.
Mark(w, i) ==
    [messages[i] EXCEPT !.published = @ \/ i \in sent[w],
                        !.attempts = IF i \in failed[w] THEN @ + 1 ELSE @]

\* The end of the transaction: its row locks are released.
EndDispatch(w) ==
    /\ scan' = [scan EXCEPT ![w] = {}]
    /\ claimed' = [claimed EXCEPT ![w] = {}]
    /\ sent' = [sent EXCEPT ![w] = {}]
    /\ failed' = [failed EXCEPT ![w] = {}]

\* The commit. Run starts again at once after a full batch, or waits a tick.
Commit(w) ==
    /\ pc[w] = "send"
    /\ Unsent(w) = {}
    /\ messages' = [i \in Ids |-> IF i \in claimed[w] THEN Mark(w, i) ELSE messages[i]]
    /\ Goto(w, IF Cardinality(sent[w]) = Batch THEN "claim" ELSE "wait")
    /\ EndDispatch(w)
    /\ UNCHANGED <<nextId, inflight, history>>

Tick(w) ==
    /\ pc[w] = "wait"
    /\ Goto(w, "claim")
    /\ UNCHANGED <<table, scan, claimed, sent, failed, history>>

\* Mutant: Run returns the error of Dispatch, and the worker polls no more.
AbortStopsRun(w) ==
    /\ pc[w] \in {"scan", "send"}
    /\ aborts < MaxAborts
    /\ aborts' = aborts + 1
    /\ Goto(w, "stopped")
    /\ EndDispatch(w)
    /\ UNCHANGED <<table, delivered, failures>>

\* A statement or the commit fails, the context is cancelled, or the worker
\* dies and is started again: the marks are lost, what was sent stays sent.
Abort(w) ==
    /\ pc[w] \in {"scan", "send"}
    /\ aborts < MaxAborts
    /\ aborts' = aborts + 1
    /\ Goto(w, "wait")
    /\ EndDispatch(w)
    /\ UNCHANGED <<table, delivered, failures>>

-----------------------------------------------------------------------------
Init ==
    /\ messages = [i \in Ids |-> None]
    /\ nextId = 1
    /\ inflight = [r \in References |-> None]
    /\ pc = [w \in Workers |-> "claim"]
    /\ scan = [w \in Workers |-> {}]
    /\ claimed = [w \in Workers |-> {}]
    /\ sent = [w \in Workers |-> {}]
    /\ failed = [w \in Workers |-> {}]
    /\ aborts = 0
    /\ delivered = [i \in Ids |-> 0]
    /\ failures = [i \in Ids |-> 0]

Step(w) == Claim(w) \/ ScanRow(w) \/ Claimed(w) \/ Send(w) \/ Commit(w) \/ Tick(w)

Next ==
    \/ \E r \in References : Publish(r) \/ PublishEnds(r)
    \/ \E w \in Workers : Step(w) \/ Abort(w)

Spec == Init /\ [][Next]_vars

\* A worker that runs goes on: no statement of it waits for a lock, and its
\* ticker fires. Whether a message is delivered or refused is the sender's choice.
FairSpec == Spec /\ \A w \in Workers : WF_vars(Step(w))

-----------------------------------------------------------------------------
(* Properties *)

\* The types of the variables of outbox.go, with the bound of attempts.
TypeOK ==
    /\ messages \in [Ids -> Message \cup {None}]
    /\ nextId \in 1 .. MaxId + 1
    /\ inflight \in [References -> Ids \cup {None}]
    /\ pc \in [Workers -> {"claim", "scan", "send", "wait"}]
    /\ scan \in [Workers -> SUBSET Ids]
    /\ claimed \in [Workers -> SUBSET Ids]
    /\ sent \in [Workers -> SUBSET Ids]
    /\ failed \in [Workers -> SUBSET Ids]
    /\ aborts \in 0 .. MaxAborts
    /\ delivered \in [Ids -> Nat]
    /\ failures \in [Ids -> Nat]

\* A guest gets a message twice only when a dispatch ended between a send and
\* the commit: once more for each such dispatch, and never otherwise, although
\* the claim's snapshot may be older than another worker's commit.
DuplicatesOnlyByAborts ==
    \A i \in Ids : delivered[i] <= 1 + aborts

\* published_at is set on a message that was delivered, and only then is a
\* message left alone: before that it was refused MaxAttempts times, in
\* dispatches that committed. No message is given up for another one's failure.
LeftAloneForAReason ==
    \A i \in Ids : messages[i] # None =>
        /\ messages[i].published => delivered[i] > 0
        /\ messages[i].attempts <= failures[i]

\* A published message is never sent again, nor anything else done to it, by a
\* worker that saw it unpublished before.
PublishedIsFinal ==
    [][\A i \in Ids : (messages[i] # None /\ messages[i].published) =>
         /\ messages'[i] = messages[i]
         /\ delivered'[i] = delivered[i]
         /\ failures'[i] = failures[i]]_vars

Settled(i) ==
    /\ messages[i] # None
    /\ messages[i].published \/ messages[i].attempts = MaxAttempts

\* Every event that a reservation committed is delivered or given up, whatever
\* the messages before it do: a message that always fails does not stop the
\* queue behind it.
EveryMessageSettles == \A i \in Ids : messages[i] # None ~> Settled(i)

\* With one worker, as deployed, a guest hears of the cancellation before the
\* confirmation only when sending the confirmation has failed.
InOrderUnlessRefused ==
    \A i, j \in Ids :
        (/\ messages[i] # None /\ messages[i].type = "confirmed"
         /\ messages[j] # None /\ messages[j].type = "cancelled"
         /\ messages[i].reservation = messages[j].reservation
         /\ delivered[j] > 0) => delivered[i] > 0 \/ failures[i] > 0

\* The promise the table and the workers keep. An event is the message that a
\* committed transaction has inserted for it, and it has settled when that
\* message is marked so.
IdsOf(e) ==
    {i \in Ids : messages[i] # None /\ <<messages[i].reservation, messages[i].type>> = e}

MessageOf(e) == CHOOSE i \in IdsOf(e) : TRUE

Status(i) ==
    IF messages[i].published THEN "delivered"
    ELSE IF messages[i].attempts = MaxAttempts THEN "given up"
    ELSE "waiting"

Events == References \X {"confirmed", "cancelled"}

StatusOf == [e \in Events |-> IF IdsOf(e) = {} THEN "not yet" ELSE Status(MessageOf(e))]

Deliveries == [e \in Events |-> IF IdsOf(e) = {} THEN 0 ELSE delivered[MessageOf(e)]]

Refusals == [e \in Events |-> IF IdsOf(e) = {} THEN 0 ELSE failures[MessageOf(e)]]

Told == INSTANCE Delivery WITH status <- StatusOf, delivered <- Deliveries, refused <- Refusals

\* However workers claim, send, mark, abort and die: each event is one message,
\* delivered at least once or refused MaxAttempts times before it is left alone,
\* and left alone for ever after.
RefinesDelivery == Told!Spec
=============================================================================
