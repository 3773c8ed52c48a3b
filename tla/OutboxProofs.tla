---------------------------- MODULE OutboxProofs ----------------------------
(***************************************************************************)
(* What the outbox promises, for any number of workers, reservations and   *)
(* messages, any batch size and any number of aborted dispatches; and, for *)
(* one worker, the order of a reservation's messages.                      *)
(***************************************************************************)
EXTENDS OutboxInvariant, Orders

-----------------------------------------------------------------------------
(* Lists *)

\* Of the rows in a list one comes first.
LEMMA FirstOfIds ==
    ASSUME NEW ids \in SUBSET Ids, ids # {}
    PROVE  First(ids) \in ids /\ \A j \in ids : First(ids) <= j
<1>1. ids \subseteq Nat
  BY DEF Ids
<1>2. \E i \in ids : \A j \in ids : i <= j
  BY <1>1, LeastOfNumbers
<1> QED
  BY <1>2 DEF First

\* A row that has been marked stays a message, published if it was sent.
LEMMA Marked ==
    ASSUME TypeOK, NEW w \in Workers, NEW i \in Ids, Eligible(i)
    PROVE  /\ Mark(w, i) \in Message
           /\ Mark(w, i) # None
           /\ Mark(w, i).reservation = messages[i].reservation
           /\ Mark(w, i).type = messages[i].type
           /\ Mark(w, i).published <=> i \in sent[w]
           /\ Mark(w, i).attempts = IF i \in failed[w] THEN messages[i].attempts + 1
                                                       ELSE messages[i].attempts
<1>1. messages[i] \in Message /\ messages[i].published = FALSE /\ messages[i].attempts < MaxAttempts
  BY DEF TypeOK, Eligible, Message
<1> DEFINE published == messages[i].published \/ i \in sent[w]
           attempts == IF i \in failed[w] THEN messages[i].attempts + 1 ELSE messages[i].attempts
<1>2. published \in BOOLEAN /\ attempts \in 0 .. MaxAttempts /\ (published <=> i \in sent[w])
  BY <1>1, OutboxAssumption DEF Message
<1>3. Mark(w, i) = [messages[i] EXCEPT !.published = published, !.attempts = attempts]
  BY <1>1 DEF Mark, Message
<1> HIDE DEF published
<1>4. Mark(w, i) \in Message /\ Mark(w, i).published = published
  BY <1>1, <1>2, <1>3 DEF Message
<1>5. /\ Mark(w, i).reservation = messages[i].reservation
      /\ Mark(w, i).type = messages[i].type
      /\ Mark(w, i).attempts = attempts
  BY <1>1, <1>3 DEF Message
<1> QED
  BY <1>2, <1>4, <1>5, NoneAssumption

-----------------------------------------------------------------------------
(* The transactions of reservations *)

\* A transaction inserts a row with an id of its own.
LEMMA PublishInv ==
    ASSUME WorkInv, NEW r \in References, Publish(r)
    PROVE  WorkInv'
<1>1. /\ messages' = messages /\ UNCHANGED workerVars /\ UNCHANGED history
      /\ nextId \in Nat /\ nextId <= MaxId /\ nextId' = nextId + 1
      /\ inflight' = [inflight EXCEPT ![r] = nextId]
      /\ nextId \in Ids
  BY OutboxAssumption DEF Publish, WorkInv, TypeOK, Ids
<1>2. TypeOK'
  BY <1>1, OutboxAssumption DEF WorkInv, TypeOK, workerVars, history
<1>3. IdsInv'
  <2>1. \A i \in Ids : messages[i] # None => i < nextId /\ i \in Nat
    BY DEF WorkInv, IdsInv, Ids
  <2>2. messages[nextId] = None
    BY <1>1, <2>1
  <2>3. \A s \in References : inflight[s] # None => inflight[s] < nextId /\ inflight[s] \in Nat
    BY DEF WorkInv, IdsInv, TypeOK, Ids
  <2>4. nextId # None
    BY <1>1, OutboxAssumption
  <2>5. /\ inflight'[r] = nextId
        /\ \A s \in References \ {r} : inflight'[s] = inflight[s]
    BY <1>1 DEF WorkInv, TypeOK
  <2>6. \A i \in Ids : messages'[i] # None => i < nextId'
    BY <1>1, <2>1
  <2>7. ASSUME NEW s \in References, inflight'[s] # None
        PROVE  /\ inflight'[s] < nextId'
               /\ messages'[inflight'[s]] = None
               /\ \A t \in References \ {s} : inflight'[t] # inflight'[s]
    <3>1. CASE s = r
      BY <1>1, <2>2, <2>3, <2>4, <2>5, <3>1
    <3>2. CASE s # r
      BY <1>1, <2>3, <2>5, <2>7, <3>2 DEF WorkInv, IdsInv
    <3> QED
      BY <3>1, <3>2
  <2> QED
    BY <2>6, <2>7 DEF IdsInv
<1>4. ClaimsExclusive' /\ \A w \in Workers : WorkerInv(w)'
  BY <1>1 DEF WorkInv, ClaimsExclusive, WorkerInv, Eligible, workerVars
<1>5. \A i \in Ids : Accounts(i)'
  BY <1>1 DEF WorkInv, Accounts, Published, workerVars, history
<1> QED
  BY <1>2, <1>3, <1>4, <1>5 DEF WorkInv

\* The transaction ends, with its row or without.
LEMMA PublishEndsInv ==
    ASSUME WorkInv, NEW r \in References, PublishEnds(r)
    PROVE  WorkInv'
<1> DEFINE k == inflight[r]
<1>1. /\ k \in Ids /\ messages[k] = None /\ k < nextId
      /\ nextId' = nextId /\ UNCHANGED workerVars /\ UNCHANGED history
      /\ inflight' = [inflight EXCEPT ![r] = None]
      /\ messages' = messages \/ messages' = [messages EXCEPT ![k] = NewMessage(r)]
  BY DEF PublishEnds, WorkInv, TypeOK, IdsInv
<1>2. NewMessage(r) \in Message /\ NewMessage(r).published = FALSE /\ NewMessage(r).attempts = 0
  BY OutboxAssumption DEF NewMessage, Message
<1>3. \A i \in Ids \ {k} : messages'[i] = messages[i]
  BY <1>1 DEF WorkInv, TypeOK
<1>4. messages'[k] = None \/ messages'[k] = NewMessage(r)
  BY <1>1 DEF WorkInv, TypeOK
<1>5. TypeOK'
  BY <1>1, <1>2 DEF WorkInv, TypeOK, workerVars, history
<1>6. \A w \in Workers : k \notin claimed[w] /\ k \notin scan[w] /\ k \notin failed[w] /\ k \notin sent[w]
  BY <1>1 DEF WorkInv, WorkerInv, Eligible
<1>7. ASSUME NEW w \in Workers PROVE WorkerInv(w)'
  <2>1. WorkerInv(w) /\ claimed[w] \subseteq Ids /\ scan[w] \subseteq Ids
    BY DEF WorkInv, TypeOK
  <2>2. \A i \in claimed[w] \cup scan[w] : messages'[i] = messages[i]
    BY <1>3, <1>6, <2>1
  <2> QED
    BY <1>1, <2>1, <2>2 DEF WorkerInv, Eligible, workerVars
<1>8. IdsInv'
  <2>1. /\ inflight'[r] = None
        /\ \A s \in References \ {r} : inflight'[s] = inflight[s]
    BY <1>1 DEF WorkInv, TypeOK
  <2>2. \A s \in References : inflight'[s] # None =>
            s # r /\ inflight[s] # k /\ inflight[s] \in Ids
    BY <1>1, <2>1 DEF WorkInv, TypeOK, IdsInv
  <2>3. \A i \in Ids : messages'[i] # None => i < nextId'
    BY <1>1, <1>3 DEF WorkInv, IdsInv
  <2>4. ASSUME NEW s \in References, inflight'[s] # None
        PROVE  /\ inflight'[s] < nextId'
               /\ messages'[inflight'[s]] = None
               /\ \A t \in References \ {s} : inflight'[t] # inflight'[s]
    BY <1>1, <1>3, <2>1, <2>2, <2>4 DEF WorkInv, IdsInv
  <2> QED
    BY <2>3, <2>4 DEF IdsInv
<1>9. ASSUME NEW i \in Ids PROVE Accounts(i)'
  <2>1. Accounts(i) /\ delivered[i] \in Nat /\ failures[i] \in Nat /\ aborts \in Nat
    BY OutboxAssumption DEF WorkInv, TypeOK
  <2>2. CASE i # k
    BY <1>1, <1>3, <2>1, <2>2 DEF Accounts, Published, workerVars, history
  <2>3. CASE i = k
    BY <1>1, <1>2, <1>4, <1>6, <2>1, <2>3 DEF Accounts, Published, workerVars, history
  <2> QED
    BY <2>2, <2>3
<1>10. ClaimsExclusive'
  BY <1>1 DEF WorkInv, ClaimsExclusive, workerVars
<1> QED
  BY <1>5, <1>7, <1>8, <1>9, <1>10 DEF WorkInv

-----------------------------------------------------------------------------
(* A worker claims *)

\* The variables of a worker that another one's step does not touch.
Untouched(v) ==
    /\ pc'[v] = pc[v] /\ scan'[v] = scan[v] /\ claimed'[v] = claimed[v]
    /\ sent'[v] = sent[v] /\ failed'[v] = failed[v]

\* A step of w that writes and sends nothing preserves WorkInv when it leaves w well
\* and claims no row of another worker.
LEMMA QuietStep ==
    ASSUME WorkInv, NEW w \in Workers,
           UNCHANGED <<table, sent, failed, history>>,
           \A v \in Workers \ {w} : Untouched(v) /\ claimed'[w] \cap claimed[v] = {},
           pc' \in [Workers -> {"claim", "scan", "send", "wait"}],
           scan' \in [Workers -> SUBSET Ids], claimed' \in [Workers -> SUBSET Ids],
           WorkerInv(w)'
    PROVE  WorkInv'
<1>1. UNCHANGED <<messages, nextId, inflight, sent, failed, aborts, delivered, failures>>
  BY DEF table, history
<1>2. TypeOK'
  BY <1>1 DEF WorkInv, TypeOK
<1>3. \A v \in Workers : WorkerInv(v)'
  BY <1>1 DEF WorkInv, WorkerInv, Untouched, Eligible
<1>4. ClaimsExclusive'
  BY DEF WorkInv, ClaimsExclusive, Untouched
<1>5. IdsInv' /\ \A i \in Ids : Accounts(i)'
  BY <1>1 DEF WorkInv, IdsInv, Accounts, Published
<1> QED
  BY <1>2, <1>3, <1>4, <1>5 DEF WorkInv

\* The snapshot of a claim.
LEMMA ClaimInv ==
    ASSUME WorkInv, NEW w \in Workers, Claim(w)
    PROVE  WorkInv'
<1> USE DEF WorkInv, TypeOK
<1>1. /\ pc[w] = "claim" /\ pc'[w] = "scan"
      /\ scan'[w] = {i \in Ids : Eligible(i)} /\ claimed' = claimed
      /\ UNCHANGED <<table, sent, failed, history>>
      /\ pc' \in [Workers -> {"claim", "scan", "send", "wait"}]
      /\ scan' \in [Workers -> SUBSET Ids]
  BY DEF Claim, Goto
<1>2. \A v \in Workers \ {w} : Untouched(v) /\ claimed'[w] \cap claimed[v] = {}
  BY DEF Claim, Goto, Untouched, ClaimsExclusive
<1>3. WorkerInv(w)'
  BY <1>1 DEF WorkerInv, Eligible, table
<1> QED
  BY <1>1, <1>2, <1>3, QuietStep

\* What becomes of the next row of the snapshot: taken or passed over.
LEMMA RowScanned ==
    ASSUME WorkInv, NEW w \in Workers, ScanRow(w)
    PROVE  LET i == First(scan[w]) IN
           /\ i \in scan[w] /\ \A j \in scan[w] : i <= j
           /\ pc[w] = "scan" /\ pc' = pc
           /\ scan' = [scan EXCEPT ![w] = @ \ {i}]
           /\ \/ claimed' = claimed /\ (~Eligible(i) \/ LockedByOther(w, i))
              \/ /\ claimed' = [claimed EXCEPT ![w] = @ \cup {i}]
                 /\ Eligible(i) /\ ~LockedByOther(w, i)
           /\ UNCHANGED <<table, sent, failed, history>>
<1>1. scan[w] # {} /\ scan[w] \in SUBSET Ids
  BY DEF ScanRow, MoreToScan, WorkInv, TypeOK
<1>2. First(scan[w]) \in scan[w] /\ \A j \in scan[w] : First(scan[w]) <= j
  BY <1>1, FirstOfIds
<1> QED
  BY <1>2 DEF ScanRow, Recheck

LEMMA ScanRowInv ==
    ASSUME WorkInv, NEW w \in Workers, ScanRow(w)
    PROVE  WorkInv'
<1> DEFINE i == First(scan[w])
<1>1. /\ i \in scan[w] /\ pc[w] = "scan" /\ pc' = pc
      /\ scan' = [scan EXCEPT ![w] = @ \ {i}]
      /\ \/ claimed' = claimed
         \/ /\ claimed' = [claimed EXCEPT ![w] = @ \cup {i}]
            /\ Eligible(i) /\ ~LockedByOther(w, i)
      /\ UNCHANGED <<table, sent, failed, history>>
  BY RowScanned
<1> HIDE DEF i
<1> USE DEF WorkInv, TypeOK
<1>2. i \in Ids /\ scan' \in [Workers -> SUBSET Ids] /\ claimed' \in [Workers -> SUBSET Ids]
  BY <1>1
<1>3. \A v \in Workers \ {w} : Untouched(v) /\ claimed'[w] \cap claimed[v] = {}
  BY <1>1 DEF Untouched, ClaimsExclusive, LockedByOther
<1>4. WorkerInv(w)'
  <2>1. WorkerInv(w) /\ messages' = messages /\ sent' = sent /\ failed' = failed
    BY <1>1 DEF table
  <2>2. scan'[w] \subseteq scan[w] /\ claimed[w] \subseteq claimed'[w]
    BY <1>1
  <2>3. \A j \in claimed'[w] : Eligible(j)'
    BY <1>1, <2>1 DEF WorkerInv, Eligible
  <2> QED
    BY <1>1, <2>1, <2>2, <2>3 DEF WorkerInv
<1> QED
  BY <1>1, <1>2, <1>3, <1>4, QuietStep

\* The claim has its batch, or every row of its snapshot.
LEMMA ClaimedInv ==
    ASSUME WorkInv, NEW w \in Workers, Claimed(w)
    PROVE  WorkInv'
<1> USE DEF WorkInv, TypeOK
<1>1. /\ pc'[w] = "send" /\ scan'[w] = {} /\ claimed' = claimed
      /\ UNCHANGED <<table, sent, failed, history>>
      /\ pc' \in [Workers -> {"claim", "scan", "send", "wait"}]
      /\ scan' \in [Workers -> SUBSET Ids]
  BY DEF Claimed, Goto
<1>2. \A v \in Workers \ {w} : Untouched(v) /\ claimed'[w] \cap claimed[v] = {}
  BY DEF Claimed, Goto, Untouched, ClaimsExclusive
<1>3. WorkerInv(w)'
  BY <1>1 DEF WorkerInv, Eligible, table
<1> QED
  BY <1>1, <1>2, <1>3, QuietStep

LEMMA TickInv ==
    ASSUME WorkInv, NEW w \in Workers, Tick(w)
    PROVE  WorkInv'
<1> USE DEF WorkInv, TypeOK
<1>1. /\ pc[w] = "wait" /\ pc'[w] = "claim" /\ scan' = scan /\ claimed' = claimed
      /\ UNCHANGED <<table, sent, failed, history>>
      /\ pc' \in [Workers -> {"claim", "scan", "send", "wait"}]
  BY DEF Tick, Goto
<1>2. \A v \in Workers \ {w} : Untouched(v) /\ claimed'[w] \cap claimed[v] = {}
  BY DEF Tick, Goto, Untouched, ClaimsExclusive
<1>3. WorkerInv(w)'
  BY <1>1 DEF WorkerInv, Eligible, table
<1> QED
  BY <1>1, <1>2, <1>3, QuietStep

-----------------------------------------------------------------------------
(* A worker sends and commits *)

\* What is sent next: a message that this worker has locked, and that nobody
\* has delivered and not marked.
LEMMA MessageSent ==
    ASSUME WorkInv, NEW w \in Workers, Send(w)
    PROVE  LET i == First(Unsent(w)) IN
           /\ i \in claimed[w] /\ i \in Ids /\ Eligible(i)
           /\ \A j \in Unsent(w) : i <= j
           /\ \A v \in Workers : i \notin sent[v] /\ i \notin failed[v]
<1>1. Unsent(w) # {} /\ Unsent(w) \in SUBSET Ids
  BY DEF Send, Unsent, WorkInv, TypeOK
<1>2. First(Unsent(w)) \in Unsent(w) /\ \A j \in Unsent(w) : First(Unsent(w)) <= j
  BY <1>1, FirstOfIds
<1> QED
  BY <1>1, <1>2 DEF Unsent, WorkInv, WorkerInv, ClaimsExclusive

LEMMA SendInv ==
    ASSUME WorkInv, NEW w \in Workers, Send(w)
    PROVE  WorkInv'
<1> DEFINE i == First(Unsent(w))
<1>1. /\ i \in claimed[w] /\ i \in Ids /\ Eligible(i)
      /\ \A v \in Workers : i \notin sent[v] /\ i \notin failed[v]
  BY MessageSent
<1>2. /\ pc[w] = "send" /\ pc' = pc /\ scan' = scan /\ claimed' = claimed
      /\ UNCHANGED table /\ messages' = messages /\ aborts' = aborts
  BY DEF Send, table
<1>3. \/ /\ sent' = [sent EXCEPT ![w] = @ \cup {i}]
         /\ delivered' = [delivered EXCEPT ![i] = @ + 1]
         /\ failed' = failed /\ failures' = failures
      \/ /\ failed' = [failed EXCEPT ![w] = @ \cup {i}]
         /\ failures' = [failures EXCEPT ![i] = @ + 1]
         /\ sent' = sent /\ delivered' = delivered
  BY DEF Send
<1> HIDE DEF i
<1>4. TypeOK'
  BY <1>1, <1>2, <1>3 DEF WorkInv, TypeOK, table
<1>5. ASSUME NEW v \in Workers PROVE WorkerInv(v)'
  <2>1. WorkerInv(v) /\ WorkerInv(w)
    BY DEF WorkInv
  <2>2. \A j \in Ids : Eligible(j)' <=> Eligible(j)
    BY <1>2 DEF Eligible
  <2> QED
    BY <1>1, <1>2, <1>3, <2>1 DEF WorkerInv, Eligible, WorkInv, TypeOK
<1>6. ASSUME NEW j \in Ids PROVE Accounts(j)'
  <2>1. /\ Accounts(j) /\ delivered[j] \in Nat /\ failures[j] \in Nat /\ aborts \in Nat
        /\ messages[j] # None => messages[j].attempts \in Nat
    BY OutboxAssumption DEF WorkInv, TypeOK, Message
  <2>2. Published(j)' = Published(j)
    BY <1>2 DEF Published
  <2>3. CASE j # i
    <3>1. delivered'[j] = delivered[j] /\ failures'[j] = failures[j]
      BY <1>3, <2>3 DEF WorkInv, TypeOK
    <3>2. \A v \in Workers : (j \in sent'[v] <=> j \in sent[v]) /\ (j \in failed'[v] <=> j \in failed[v])
      BY <1>3, <2>3 DEF WorkInv, TypeOK
    <3> QED
      BY <1>2, <2>1, <2>2, <3>1, <3>2 DEF Accounts
  <2>4. CASE j = i
    <3>1. messages[j] # None /\ ~Published(j)
      BY <1>1, <2>4 DEF Eligible, Published
    <3>2. delivered[j] <= aborts /\ messages[j].attempts <= failures[j]
      BY <1>1, <2>1, <2>4, <3>1 DEF Accounts
    <3>3. CASE sent' = [sent EXCEPT ![w] = @ \cup {i}] /\ delivered' = [delivered EXCEPT ![i] = @ + 1]
               /\ failed' = failed /\ failures' = failures
      <4>1. j \in sent'[w] /\ delivered'[j] = delivered[j] + 1
        BY <2>4, <3>3, <1>1 DEF WorkInv, TypeOK
      <4>2. \A v \in Workers : j \notin failed'[v]
        BY <1>1, <2>4, <3>3
      <4> QED
        BY <1>2, <2>1, <2>2, <3>1, <3>2, <3>3, <4>1, <4>2 DEF Accounts
    <3>4. CASE failed' = [failed EXCEPT ![w] = @ \cup {i}] /\ failures' = [failures EXCEPT ![i] = @ + 1]
               /\ sent' = sent /\ delivered' = delivered
      <4>1. j \in failed'[w] /\ failures'[j] = failures[j] + 1
        BY <2>4, <3>4, <1>1 DEF WorkInv, TypeOK
      <4>2. \A v \in Workers : j \notin sent'[v]
        BY <1>1, <2>4, <3>4
      <4> QED
        BY <1>2, <2>1, <2>2, <3>1, <3>2, <3>4, <4>1, <4>2 DEF Accounts
    <3> QED
      BY <1>3, <3>3, <3>4
  <2> QED
    BY <2>3, <2>4
<1>7. IdsInv' /\ ClaimsExclusive'
  BY <1>2 DEF WorkInv, IdsInv, ClaimsExclusive, table
<1> QED
  BY <1>4, <1>5, <1>6, <1>7 DEF WorkInv


\* The end of a dispatch leaves its worker with nothing.
LEMMA DispatchEnded ==
    ASSUME WorkInv, NEW w \in Workers, NEW label \in {"claim", "wait"}, EndDispatch(w), Goto(w, label)
    PROVE  /\ pc' \in [Workers -> {"claim", "scan", "send", "wait"}]
           /\ scan' \in [Workers -> SUBSET Ids] /\ claimed' \in [Workers -> SUBSET Ids]
           /\ sent' \in [Workers -> SUBSET Ids] /\ failed' \in [Workers -> SUBSET Ids]
           /\ WorkerInv(w)' /\ ClaimsExclusive'
           /\ scan'[w] = {} /\ claimed'[w] = {} /\ sent'[w] = {} /\ failed'[w] = {}
           /\ \A v \in Workers \ {w} : Untouched(v)
<1> USE DEF WorkInv, TypeOK
<1>1. /\ scan'[w] = {} /\ claimed'[w] = {} /\ sent'[w] = {} /\ failed'[w] = {}
      /\ pc'[w] = label
      /\ \A v \in Workers \ {w} : Untouched(v)
  BY DEF EndDispatch, Goto, Untouched
<1>2. WorkerInv(w)'
  BY <1>1 DEF WorkerInv
<1>3. ClaimsExclusive'
  BY <1>1 DEF ClaimsExclusive, Untouched
<1> QED
  BY <1>1, <1>2, <1>3 DEF EndDispatch, Goto

\* The rows of a dispatch are marked.
LEMMA CommitInv ==
    ASSUME WorkInv, NEW w \in Workers, Commit(w)
    PROVE  WorkInv'
<1>1. /\ Unsent(w) = {} /\ UNCHANGED <<nextId, inflight, aborts, delivered, failures>>
      /\ messages' = [i \in Ids |-> IF i \in claimed[w] THEN Mark(w, i) ELSE messages[i]]
  BY DEF Commit, history
<1>2. PICK label \in {"claim", "wait"} : EndDispatch(w) /\ Goto(w, label)
  BY DEF Commit
<1>3. /\ pc' \in [Workers -> {"claim", "scan", "send", "wait"}]
      /\ scan' \in [Workers -> SUBSET Ids] /\ claimed' \in [Workers -> SUBSET Ids]
      /\ sent' \in [Workers -> SUBSET Ids] /\ failed' \in [Workers -> SUBSET Ids]
      /\ WorkerInv(w)' /\ ClaimsExclusive'
      /\ sent'[w] = {} /\ failed'[w] = {}
      /\ \A v \in Workers \ {w} : Untouched(v)
  BY <1>2, DispatchEnded
<1>4. /\ WorkerInv(w) /\ TypeOK /\ claimed[w] \subseteq Ids
      /\ sent[w] \cup failed[w] = claimed[w] /\ sent[w] \cap failed[w] = {}
  BY <1>1 DEF WorkInv, TypeOK, WorkerInv, Unsent
<1>5. \A i \in claimed[w] : Eligible(i) /\ messages'[i] = Mark(w, i)
  BY <1>1, <1>4 DEF WorkerInv
<1>6. \A i \in Ids \ claimed[w] : messages'[i] = messages[i]
  BY <1>1
<1>7. TypeOK'
  <2>1. \A i \in claimed[w] : Mark(w, i) \in Message
    BY <1>4, <1>5, Marked
  <2>2. messages' \in [Ids -> Message \cup {None}]
    BY <1>1, <1>4, <2>1 DEF TypeOK
  <2> QED
    BY <1>1, <1>3, <1>4, <2>2 DEF TypeOK
<1>8. ASSUME NEW v \in Workers PROVE WorkerInv(v)'
  <2>1. CASE v = w
    BY <1>3, <2>1
  <2>2. CASE v # w
    <3>1. WorkerInv(v) /\ Untouched(v) /\ claimed[v] \subseteq Ids /\ scan[v] \subseteq Ids
      BY <1>3, <2>2 DEF WorkInv, TypeOK
    <3>2. \A i \in claimed[v] : Eligible(i)'
      <4>1. \A i \in claimed[v] : i \notin claimed[w]
        BY <2>2 DEF WorkInv, ClaimsExclusive
      <4> QED
        BY <1>6, <3>1, <4>1 DEF WorkerInv, Eligible
    <3>3. \A i \in scan[v] : messages'[i] # None
      BY <1>4, <1>5, <1>6, <3>1, Marked DEF WorkerInv
    <3> QED
      BY <3>1, <3>2, <3>3 DEF WorkerInv, Untouched
  <2> QED
    BY <2>1, <2>2
<1>9. \A i \in Ids : messages'[i] = None <=> messages[i] = None
  BY <1>4, <1>5, <1>6, Marked DEF Eligible
<1>10. IdsInv'
  BY <1>1, <1>9 DEF WorkInv, IdsInv, TypeOK
<1>11. ASSUME NEW i \in Ids PROVE Accounts(i)'
  <2>1. /\ Accounts(i) /\ delivered[i] \in Nat /\ failures[i] \in Nat /\ aborts \in Nat
        /\ messages[i] # None => messages[i].attempts \in Nat
    BY OutboxAssumption DEF WorkInv, TypeOK, Message
  <2>2. CASE i \in claimed[w]
    <3>1. /\ messages'[i] # None /\ messages[i] # None /\ ~Published(i)
          /\ messages'[i].published <=> i \in sent[w]
          /\ messages'[i].attempts = IF i \in failed[w] THEN messages[i].attempts + 1
                                                        ELSE messages[i].attempts
      BY <1>4, <1>5, <2>2, Marked DEF Eligible, Published
    <3>2. \A v \in Workers : i \notin sent'[v] /\ i \notin failed'[v]
      BY <1>3, <2>2 DEF WorkInv, ClaimsExclusive, WorkerInv, Untouched
    <3>3. \A v \in Workers \ {w} : i \notin sent[v] /\ i \notin failed[v]
      BY <2>2 DEF WorkInv, ClaimsExclusive, WorkerInv
    <3>4. Published(i)' <=> i \in sent[w]
      BY <3>1 DEF Published
    <3>5. i \in failed[w] => messages[i].attempts < failures[i]
      BY <2>1, <3>1 DEF Accounts
    <3>6. messages[i].attempts <= failures[i]
      BY <2>1, <3>1 DEF Accounts
    <3>7. /\ i \in sent[w] => delivered[i] > 0 /\ delivered[i] <= aborts + 1
          /\ i \notin sent[w] => delivered[i] <= aborts
      BY <2>1, <3>1, <3>3 DEF Accounts
    <3> QED
      BY <1>1, <2>1, <3>1, <3>2, <3>4, <3>5, <3>6, <3>7 DEF Accounts
  <2>3. CASE i \notin claimed[w]
    <3>1. \A v \in Workers : (i \in sent'[v] <=> i \in sent[v]) /\ (i \in failed'[v] <=> i \in failed[v])
      BY <1>3, <1>4, <2>3 DEF Untouched
    <3>2. messages'[i] = messages[i] /\ Published(i)' = Published(i)
      BY <1>6, <2>3 DEF Published
    <3> QED
      BY <1>1, <2>1, <3>1, <3>2 DEF Accounts
  <2> QED
    BY <2>2, <2>3
<1> QED
  BY <1>3, <1>7, <1>8, <1>10, <1>11 DEF WorkInv

\* A dispatch that ends without its commit is what a second delivery takes.
LEMMA AbortInv ==
    ASSUME WorkInv, NEW w \in Workers, Abort(w)
    PROVE  WorkInv'
<1>1. /\ UNCHANGED <<messages, nextId, inflight, delivered, failures>>
      /\ aborts' = aborts + 1 /\ aborts < MaxAborts
      /\ EndDispatch(w) /\ Goto(w, "wait")
  BY DEF Abort, table
<1>2. /\ pc' \in [Workers -> {"claim", "scan", "send", "wait"}]
      /\ scan' \in [Workers -> SUBSET Ids] /\ claimed' \in [Workers -> SUBSET Ids]
      /\ sent' \in [Workers -> SUBSET Ids] /\ failed' \in [Workers -> SUBSET Ids]
      /\ WorkerInv(w)' /\ ClaimsExclusive'
      /\ sent'[w] = {} /\ failed'[w] = {}
      /\ \A v \in Workers \ {w} : Untouched(v)
  BY <1>1, DispatchEnded
<1>3. TypeOK'
  BY <1>1, <1>2, OutboxAssumption DEF WorkInv, TypeOK
<1>4. \A v \in Workers : WorkerInv(v)'
  BY <1>1, <1>2 DEF WorkInv, WorkerInv, Untouched, Eligible
<1>5. IdsInv'
  BY <1>1 DEF WorkInv, IdsInv
<1>6. ASSUME NEW i \in Ids PROVE Accounts(i)'
  <2>1. /\ Accounts(i) /\ delivered[i] \in Nat /\ failures[i] \in Nat /\ aborts \in Nat
        /\ messages[i] # None => messages[i].attempts \in Nat
    BY OutboxAssumption DEF WorkInv, TypeOK, Message
  <2>2. Published(i)' = Published(i)
    BY <1>1 DEF Published
  <2>3. \A v \in Workers : (i \in sent'[v] => i \in sent[v]) /\ (i \in failed'[v] => i \in failed[v])
    BY <1>2 DEF Untouched
  <2>4. delivered[i] <= aborts + 1
    BY <2>1 DEF Accounts
  <2> QED
    BY <1>1, <2>1, <2>2, <2>3, <2>4 DEF Accounts
<1> QED
  BY <1>2, <1>3, <1>4, <1>5, <1>6 DEF WorkInv

-----------------------------------------------------------------------------
(* The theorems for any number of workers *)

LEMMA NextWorkInv == WorkInv /\ [Next]_vars => WorkInv'
<1> SUFFICES ASSUME WorkInv, [Next]_vars PROVE WorkInv'
  OBVIOUS
<1>1. ASSUME NEW r \in References, Publish(r) \/ PublishEnds(r) PROVE WorkInv'
  BY <1>1, PublishInv, PublishEndsInv
<1>2. ASSUME NEW w \in Workers, Step(w) \/ Abort(w) PROVE WorkInv'
  BY <1>2, ClaimInv, ScanRowInv, ClaimedInv, SendInv, CommitInv, TickInv, AbortInv DEF Step
<1>3. CASE UNCHANGED vars
  BY <1>3 DEF vars, table, workerVars, history, WorkInv, TypeOK, ClaimsExclusive, WorkerInv, IdsInv,
              Accounts, Eligible, Published
<1> QED
  BY <1>1, <1>2, <1>3 DEF Next

LEMMA InitWorkInv == Init => WorkInv
<1> SUFFICES ASSUME Init PROVE WorkInv
  OBVIOUS
<1>1. TypeOK
  BY OutboxAssumption DEF Init, TypeOK, Ids
<1>2. ClaimsExclusive /\ \A w \in Workers : WorkerInv(w)
  BY DEF Init, ClaimsExclusive, WorkerInv
<1>3. IdsInv /\ \A i \in Ids : Accounts(i)
  BY DEF Init, IdsInv, Accounts, Published
<1> QED
  BY <1>1, <1>2, <1>3 DEF WorkInv

LEMMA WorkInvariance == Spec => []WorkInv
BY InitWorkInv, NextWorkInv, PTL DEF Spec

\* The variables keep their types, and no message is tried more than MaxAttempts
\* times.
THEOREM OutboxTypeCorrect == Spec => []TypeOK
<1>1. WorkInv => TypeOK
  BY DEF WorkInv
<1> QED
  BY <1>1, WorkInvariance, PTL

\* A message is delivered once, and once more at most for each dispatch that
\* ended without its commit.
THEOREM DuplicatesExplained == Spec => []DuplicatesOnlyByAborts
<1>1. WorkInv => DuplicatesOnlyByAborts
  <2> SUFFICES ASSUME WorkInv, NEW i \in Ids PROVE delivered[i] <= 1 + aborts
    BY DEF DuplicatesOnlyByAborts
  <2> QED
    BY OutboxAssumption DEF WorkInv, TypeOK, Accounts
<1> QED
  BY <1>1, WorkInvariance, PTL

\* A message that is left alone was delivered, or refused as often as its
\* attempts say.
THEOREM NothingGivenUpForAnother == Spec => []LeftAloneForAReason
<1>1. WorkInv => LeftAloneForAReason
  <2> SUFFICES ASSUME WorkInv, NEW i \in Ids, messages[i] # None
               PROVE  /\ messages[i].published => delivered[i] > 0
                      /\ messages[i].attempts <= failures[i]
    BY DEF LeftAloneForAReason
  <2>1. messages[i] \in Message /\ failures[i] \in Nat /\ Accounts(i)
    BY DEF WorkInv, TypeOK
  <2> QED
    BY <2>1 DEF Accounts, Published, Message
<1> QED
  BY <1>1, WorkInvariance, PTL

\* Nothing is done to a published message, whoever saw it unpublished.
THEOREM PublishedStays == Spec => PublishedIsFinal
<1> DEFINE Final == \A i \in Ids : (messages[i] # None /\ messages[i].published) =>
                        /\ messages'[i] = messages[i]
                        /\ delivered'[i] = delivered[i]
                        /\ failures'[i] = failures[i]
<1>1. WorkInv /\ [Next]_vars => [Final]_vars
  <2> SUFFICES ASSUME WorkInv, Next, NEW i \in Ids, messages[i] # None, messages[i].published
               PROVE  /\ messages'[i] = messages[i]
                      /\ delivered'[i] = delivered[i]
                      /\ failures'[i] = failures[i]
    OBVIOUS
  <2>1. ASSUME NEW r \in References, Publish(r) \/ PublishEnds(r)
        PROVE  messages'[i] = messages[i] /\ UNCHANGED history
    BY <2>1 DEF Publish, PublishEnds, WorkInv, TypeOK, IdsInv
  <2>2. \A w \in Workers : i \notin claimed[w]
    BY DEF WorkInv, WorkerInv, Eligible
  <2>3. ASSUME NEW w \in Workers, Send(w)
        PROVE  messages'[i] = messages[i] /\ delivered'[i] = delivered[i] /\ failures'[i] = failures[i]
    <3>1. First(Unsent(w)) # i
      BY <2>2, <2>3, MessageSent
    <3> QED
      BY <2>3, <3>1 DEF Send, table, WorkInv, TypeOK
  <2>4. ASSUME NEW w \in Workers, Commit(w)
        PROVE  messages'[i] = messages[i] /\ UNCHANGED history
    BY <2>2, <2>4 DEF Commit
  <2>5. ASSUME NEW w \in Workers, Claim(w) \/ ScanRow(w) \/ Claimed(w) \/ Tick(w) \/ Abort(w)
        PROVE  messages' = messages /\ delivered' = delivered /\ failures' = failures
    BY <2>5 DEF Claim, ScanRow, Claimed, Tick, Abort, table, history
  <2> QED
    BY <2>1, <2>3, <2>4, <2>5 DEF Next, Step, history
<1> QED
  BY <1>1, WorkInvariance, PTL DEF Spec, PublishedIsFinal


-----------------------------------------------------------------------------
(* An event and its message *)

\* What a message is about never changes.
SameEvents ==
    \A i \in Ids : /\ messages'[i] = None <=> messages[i] = None
                   /\ messages[i] # None => /\ messages'[i].type = messages[i].type
                                            /\ messages'[i].reservation = messages[i].reservation

LEMMA SameMessages ==
    ASSUME SameEvents
    PROVE  \A e : IdsOf(e)' = IdsOf(e) /\ MessageOf(e)' = MessageOf(e)
<1>1. \A e : IdsOf(e)' = IdsOf(e)
  BY DEF SameEvents, IdsOf
<1> QED
  BY <1>1 DEF MessageOf

\* A commit marks messages, and changes nothing of what they are about.
LEMMA MarksKeepEvents ==
    ASSUME WorkInv, NEW w \in Workers, Commit(w)
    PROVE  SameEvents
<1>1. \A i \in Ids : messages'[i] = IF i \in claimed[w] THEN Mark(w, i) ELSE messages[i]
  BY DEF Commit
<1>2. TypeOK /\ \A i \in claimed[w] : i \in Ids /\ Eligible(i)
  BY DEF WorkInv, TypeOK, WorkerInv
<1> QED
  BY <1>1, <1>2, Marked DEF SameEvents, Eligible

\* The messages of a reservation are a confirmation and a cancellation.
LEMMA CommittedMessages ==
    ASSUME TypeOK, NEW r \in References
    PROVE  /\ Committed(r) = IdsOf(<<r, "confirmed">>) \cup IdsOf(<<r, "cancelled">>)
           /\ IdsOf(<<r, "confirmed">>) \cap IdsOf(<<r, "cancelled">>) = {}
BY DEF TypeOK, Message, Committed, IdsOf

\* A transaction that writes a second event finds the first one, no more.
LEMMA PublishEvents ==
    ASSUME Inv, NEW r \in References, Publish(r)
    PROVE  EventsInv'
<1>1. UNCHANGED <<messages, failures>> /\ inflight' = [inflight EXCEPT ![r] = nextId]
  BY DEF Publish, history
<1>2. IdsOf(<<r, "cancelled">>) = {}
  <2> SUFFICES ASSUME IdsOf(<<r, "cancelled">>) # {} PROVE FALSE
    OBVIOUS
  <2>1. IdsOf(<<r, "confirmed">>) # {}
    BY DEF Inv, EventsInv
  <2>2. PICK i, j : i \in IdsOf(<<r, "confirmed">>) /\ j \in IdsOf(<<r, "cancelled">>)
    BY <2>1
  <2>3. {i, j} \in SUBSET Committed(r) /\ i # j
    BY <2>2, CommittedMessages DEF Inv, WorkInv
  <2>4. IsFiniteSet(Committed(r))
    <3>1. IsFiniteSet(Ids)
      BY FS_Interval, OutboxAssumption DEF Ids
    <3> QED
      BY <3>1, FS_Subset DEF Committed
  <2>5. Cardinality({i, j}) = 2
    <3>1. IsFiniteSet({i}) /\ Cardinality({i}) = 1
      BY FS_Singleton
    <3>2. {i, j} = {i} \cup {j} /\ j \notin {i}
      BY <2>3
    <3>3. Cardinality({i} \cup {j}) = Cardinality({i}) + 1
      BY <3>1, <3>2, FS_AddElement, Zenon
    <3> QED
      BY <3>1, <3>2, <3>3
  <2>6. Cardinality({i, j}) <= Cardinality(Committed(r)) /\ Cardinality(Committed(r)) \in Nat
    BY <2>3, <2>4, FS_Subset, FS_CardinalityType
  <2> QED
    BY <2>5, <2>6 DEF Publish
<1>3. \A e : IdsOf(e)' = IdsOf(e)
  BY <1>1 DEF IdsOf
<1>4. \A s \in References \ {r} : inflight'[s] = inflight[s]
  BY <1>1 DEF Inv, WorkInv, TypeOK
<1> QED
  BY <1>1, <1>2, <1>3, <1>4 DEF Inv, EventsInv

\* What the commit of a reservation's transaction adds is the event it lacks.
LEMMA EventAdded ==
    ASSUME Inv, NEW r \in References, PublishEnds(r), messages' # messages
    PROVE  \E k \in Ids, type \in {"confirmed", "cancelled"} :
              /\ messages[k] = None /\ messages'[k] \in Message
              /\ messages'[k].reservation = r /\ messages'[k].type = type
              /\ messages'[k].published = FALSE /\ messages'[k].attempts = 0
              /\ \A i \in Ids \ {k} : messages'[i] = messages[i]
              /\ IdsOf(<<r, type>>) = {} /\ IdsOf(<<r, type>>)' = {k}
              /\ \A f \in Events \ {<<r, type>>} : IdsOf(f)' = IdsOf(f)
              /\ type = "cancelled" => IdsOf(<<r, "confirmed">>) # {}
<1>1. PICK k \in Ids : /\ k = inflight[r] /\ messages[k] = None
                       /\ messages' = [messages EXCEPT ![k] = NewMessage(r)]
  BY DEF PublishEnds, Inv, WorkInv, TypeOK, IdsInv
<1>2. PICK type \in {"confirmed", "cancelled"} :
         /\ type = IF Committed(r) = {} THEN "confirmed" ELSE "cancelled"
         /\ NewMessage(r).type = type
  BY DEF NewMessage
<1>3. /\ NewMessage(r) \in Message /\ NewMessage(r).reservation = r
      /\ NewMessage(r).published = FALSE /\ NewMessage(r).attempts = 0
  BY OutboxAssumption DEF NewMessage, Message
<1>4. messages'[k] = NewMessage(r) /\ \A i \in Ids \ {k} : messages'[i] = messages[i]
  BY <1>1 DEF Inv, WorkInv, TypeOK
<1>5. messages'[k] # None
  BY <1>3, <1>4, NoneAssumption
<1>6. IdsOf(<<r, "cancelled">>) = {}
  BY <1>1, OutboxAssumption DEF PublishEnds, Inv, EventsInv
<1>7. Committed(r) = IdsOf(<<r, "confirmed">>)
  BY <1>6, CommittedMessages DEF Inv, WorkInv
<1>8. IdsOf(<<r, type>>) = {} /\ (type = "cancelled" => IdsOf(<<r, "confirmed">>) # {})
  BY <1>2, <1>6, <1>7
<1>9. IdsOf(<<r, type>>)' = {k}
  <2>1. k \in IdsOf(<<r, type>>)'
    BY <1>2, <1>3, <1>4, <1>5 DEF IdsOf
  <2>2. \A i \in Ids \ {k} : i \in IdsOf(<<r, type>>)' => i \in IdsOf(<<r, type>>)
    BY <1>4 DEF IdsOf
  <2> QED
    BY <1>8, <2>1, <2>2 DEF IdsOf
<1>10. ASSUME NEW f \in Events \ {<<r, type>>} PROVE IdsOf(f)' = IdsOf(f)
  <2>1. k \notin IdsOf(f)' /\ k \notin IdsOf(f)
    BY <1>1, <1>2, <1>3, <1>4 DEF IdsOf
  <2> QED
    BY <1>4, <2>1 DEF IdsOf
<1> QED
  BY <1>1, <1>2, <1>3, <1>4, <1>8, <1>9, <1>10

LEMMA PublishEndsEvents ==
    ASSUME Inv, NEW r \in References, PublishEnds(r)
    PROVE  EventsInv'
<1>1. UNCHANGED failures /\ inflight' = [inflight EXCEPT ![r] = None]
  BY DEF PublishEnds, history
<1>2. inflight'[r] = None /\ \A s \in References \ {r} : inflight'[s] = inflight[s]
  BY <1>1 DEF Inv, WorkInv, TypeOK
<1>3. CASE messages' = messages
  <2>1. \A e : IdsOf(e)' = IdsOf(e)
    BY <1>3 DEF IdsOf
  <2> QED
    BY <1>1, <1>2, <1>3, <2>1 DEF Inv, EventsInv
<1>4. CASE messages' # messages
  <2>1. PICK k \in Ids, type \in {"confirmed", "cancelled"} :
           /\ messages[k] = None
           /\ messages'[k].reservation = r /\ messages'[k].type = type
           /\ \A i \in Ids \ {k} : messages'[i] = messages[i]
           /\ IdsOf(<<r, type>>) = {} /\ IdsOf(<<r, type>>)' = {k}
           /\ \A f \in Events \ {<<r, type>>} : IdsOf(f)' = IdsOf(f)
           /\ type = "cancelled" => IdsOf(<<r, "confirmed">>) # {}
    BY <1>4, EventAdded
  <2> DEFINE e == <<r, type>>
  <2>2. ASSUME NEW i \in Ids, NEW j \in Ids,
               messages'[i] # None, messages'[j] # None,
               messages'[i].reservation = messages'[j].reservation,
               messages'[i].type = messages'[j].type
        PROVE  i = j
    <3>1. CASE i = k \/ j = k
      <4>1. messages'[i].reservation = r /\ messages'[i].type = type
        BY <2>1, <2>2, <3>1
      <4>2. i \in IdsOf(<<r, type>>)' /\ j \in IdsOf(<<r, type>>)'
        BY <2>2, <4>1 DEF IdsOf
      <4> QED
        BY <2>1, <4>2
    <3>2. CASE i # k /\ j # k
      BY <2>1, <2>2, <3>2 DEF Inv, EventsInv
    <3> QED
      BY <3>1, <3>2
  <2>3. \A s \in References : <<s, "confirmed">> \in Events /\ <<s, "cancelled">> \in Events
    BY DEF Events
  <2>4. ASSUME NEW s \in References, IdsOf(<<s, "cancelled">>)' # {}
        PROVE  IdsOf(<<s, "confirmed">>)' # {}
    <3>1. IdsOf(<<s, "confirmed">>) # {} => IdsOf(<<s, "confirmed">>)' # {}
      BY <2>1, <2>3
    <3>2. CASE <<s, "cancelled">> = e
      BY <2>1, <3>1, <3>2
    <3>3. CASE <<s, "cancelled">> # e
      BY <2>1, <2>3, <2>4, <3>1, <3>3 DEF Inv, EventsInv
    <3> QED
      BY <3>2, <3>3
  <2>5. ASSUME NEW s \in References, inflight'[s] # None
        PROVE  IdsOf(<<s, "cancelled">>)' = {}
    <3>1. s # r /\ inflight[s] # None
      BY <1>2, <2>5
    <3>2. <<s, "cancelled">> # e
      BY <3>1
    <3> QED
      BY <2>1, <2>3, <3>1, <3>2 DEF Inv, EventsInv
  <2>6. ASSUME NEW i \in Ids, messages'[i] = None PROVE failures'[i] = 0
    <3>1. messages[i] = None
      BY <2>1, <2>6
    <3> QED
      BY <1>1, <3>1 DEF Inv, EventsInv
  <2> QED
    BY <2>2, <2>4, <2>5, <2>6 DEF EventsInv
<1> QED
  BY <1>3, <1>4

\* The sender refuses only messages that there are.
LEMMA SendEvents ==
    ASSUME Inv, NEW w \in Workers, Send(w)
    PROVE  EventsInv'
<1> DEFINE k == First(Unsent(w))
<1>1. UNCHANGED <<messages, inflight>> /\ \A e : IdsOf(e)' = IdsOf(e)
  BY DEF Send, table, IdsOf
<1>2. k \in Ids /\ messages[k] # None
  BY MessageSent DEF Inv, Eligible
<1>3. \A i \in Ids \ {k} : failures'[i] = failures[i]
  BY <1>2 DEF Send, Inv, WorkInv, TypeOK
<1> QED
  BY <1>1, <1>2, <1>3 DEF Inv, EventsInv

\* Other steps keep what the messages are about, and what was refused of them.
LEMMA KeptEvents ==
    ASSUME Inv, SameEvents, UNCHANGED <<inflight, failures>>
    PROVE  EventsInv'
<1>1. \A e : IdsOf(e)' = IdsOf(e)
  BY SameMessages
<1>2. ASSUME NEW i \in Ids, NEW j \in Ids, messages'[i] # None, messages'[j] # None,
             messages'[i].reservation = messages'[j].reservation,
             messages'[i].type = messages'[j].type
      PROVE  i = j
  BY <1>2 DEF SameEvents, Inv, EventsInv
<1>3. \A i \in Ids : messages'[i] = None => failures'[i] = 0
  BY DEF SameEvents, Inv, EventsInv
<1> QED
  BY <1>1, <1>2, <1>3 DEF Inv, EventsInv

LEMMA NextEvents == Inv /\ [Next]_vars => EventsInv'
<1> SUFFICES ASSUME Inv, [Next]_vars PROVE EventsInv'
  OBVIOUS
<1>1. ASSUME NEW r \in References, Publish(r) \/ PublishEnds(r) PROVE EventsInv'
  BY <1>1, PublishEvents, PublishEndsEvents
<1>2. ASSUME UNCHANGED <<messages, inflight, failures>> PROVE EventsInv'
  BY <1>2, KeptEvents DEF SameEvents
<1>3. ASSUME NEW w \in Workers, Step(w) \/ Abort(w) PROVE EventsInv'
  <2>1. CASE Commit(w)
    BY <2>1, MarksKeepEvents, KeptEvents DEF Commit, history, Inv
  <2>2. CASE Claim(w) \/ ScanRow(w) \/ Claimed(w) \/ Tick(w) \/ Abort(w)
    BY <1>2, <2>2 DEF Claim, ScanRow, Claimed, Tick, Abort, table, history
  <2> QED
    BY <1>3, <2>1, <2>2, SendEvents DEF Step
<1>4. CASE UNCHANGED vars
  BY <1>2, <1>4 DEF vars, table, history
<1> QED
  BY <1>1, <1>3, <1>4 DEF Next

\* What workers know of the rows they have locked, how deliveries are accounted
\* for, and what is known of the messages of a reservation, hold for ever.
THEOREM OutboxInvariance == Spec => []Inv
<1>1. Init => Inv
  <2>1. Init => WorkInv
    BY InitWorkInv
  <2>2. Init => EventsInv
    BY DEF Init, EventsInv, IdsOf
  <2> QED
    BY <2>1, <2>2 DEF Inv
<1>2. Inv /\ [Next]_vars => Inv'
  BY NextWorkInv, NextEvents DEF Inv
<1> QED
  BY <1>1, <1>2, PTL DEF Spec

-----------------------------------------------------------------------------
(* Each step is a step of Delivery *)

\* What Delivery sees of an event is what the table and the sender know of its
\* one message.
Viewed ==
    \A e \in Events :
        /\ IdsOf(e) = {} => StatusOf[e] = "not yet" /\ Deliveries[e] = 0 /\ Refusals[e] = 0
        /\ \A i \in IdsOf(e) : /\ StatusOf[e] = Status(i)
                               /\ Deliveries[e] = delivered[i]
                               /\ Refusals[e] = failures[i]

LEMMA EventViewed == EventsInv => Viewed
<1> SUFFICES ASSUME EventsInv PROVE Viewed
  OBVIOUS
<1>1. ASSUME NEW e \in Events, NEW i \in IdsOf(e) PROVE MessageOf(e) = i
  <2>1. \A j \in IdsOf(e) : j = i
    BY <1>1 DEF IdsOf, EventsInv
  <2> QED
    BY <1>1, <2>1 DEF MessageOf
<1> QED
  BY <1>1 DEF Viewed, StatusOf, Deliveries, Refusals

LEMMA EventViewedNext == EventsInv' => Viewed'
BY EventViewed, PTL

\* A step that leaves the table and the sender alone is seen by nobody.
LEMMA NothingTold ==
    ASSUME UNCHANGED <<messages, delivered, failures>>
    PROVE  UNCHANGED <<StatusOf, Deliveries, Refusals>>
BY DEF StatusOf, Deliveries, Refusals, Status, IdsOf, MessageOf

\* The commit of a reservation's transaction is when its event happens.
LEMMA PublishEndsRefines ==
    ASSUME Inv, EventsInv', NEW r \in References, PublishEnds(r), messages' # messages
    PROVE  \E e \in Events : Told!Happen(e)
<1>1. PICK k \in Ids, type \in {"confirmed", "cancelled"} :
         /\ messages[k] = None
         /\ messages'[k].published = FALSE /\ messages'[k].attempts = 0
         /\ \A i \in Ids \ {k} : messages'[i] = messages[i]
         /\ IdsOf(<<r, type>>) = {} /\ IdsOf(<<r, type>>)' = {k}
         /\ \A f \in Events \ {<<r, type>>} : IdsOf(f)' = IdsOf(f)
         /\ type = "cancelled" => IdsOf(<<r, "confirmed">>) # {}
  BY EventAdded
<1> DEFINE e == <<r, type>>
<1>2. e \in Events /\ <<r, "confirmed">> \in Events
  BY DEF Events
<1>3. Viewed /\ Viewed' /\ UNCHANGED <<delivered, failures>>
  BY EventViewed, EventViewedNext DEF Inv, PublishEnds, history
<1>4. StatusOf[e] = "not yet" /\ Deliveries[e] = 0 /\ Refusals[e] = 0
  BY <1>1, <1>2, <1>3 DEF Viewed
<1>5. StatusOf'[e] = "waiting" /\ Deliveries'[e] = 0 /\ Refusals'[e] = 0
  <2>1. /\ StatusOf'[e] = Status(k)'
        /\ Deliveries'[e] = delivered[k] /\ Refusals'[e] = failures[k]
    BY <1>1, <1>2, <1>3 DEF Viewed
  <2>2. Status(k)' = "waiting"
    BY <1>1, OutboxAssumption DEF Status
  <2>3. delivered[k] = 0 /\ failures[k] = 0
    BY <1>1 DEF Inv, WorkInv, Accounts, EventsInv
  <2> QED
    BY <2>1, <2>2, <2>3
<1>6. ASSUME NEW f \in Events \ {e}
      PROVE  StatusOf'[f] = StatusOf[f] /\ Deliveries'[f] = Deliveries[f] /\ Refusals'[f] = Refusals[f]
  <2>1. IdsOf(f)' = IdsOf(f)
    BY <1>1
  <2>2. CASE IdsOf(f) = {}
    BY <1>3, <2>1, <2>2 DEF Viewed
  <2>3. ASSUME NEW i \in IdsOf(f)
        PROVE  StatusOf'[f] = StatusOf[f] /\ Deliveries'[f] = Deliveries[f] /\ Refusals'[f] = Refusals[f]
    <3>1. i \in Ids /\ messages[i] # None
      BY <2>3 DEF IdsOf
    <3>2. messages'[i] = messages[i] /\ Status(i)' = Status(i)
      BY <1>1, <3>1 DEF Status
    <3>3. /\ StatusOf[f] = Status(i)
          /\ Deliveries[f] = delivered[i] /\ Refusals[f] = failures[i]
      BY <1>3, <2>3 DEF Viewed
    <3>4. /\ StatusOf'[f] = Status(i)'
          /\ Deliveries'[f] = delivered'[i] /\ Refusals'[f] = failures'[i]
      BY <1>3, <2>1, <2>3 DEF Viewed
    <3> QED
      BY <1>3, <3>2, <3>3, <3>4
  <2> QED
    BY <2>2, <2>3
<1>7. /\ StatusOf' = [StatusOf EXCEPT ![e] = "waiting"]
      /\ Deliveries' = Deliveries /\ Refusals' = Refusals
  BY <1>4, <1>5, <1>6, <1>2 DEF StatusOf, Deliveries, Refusals
<1>8. e # <<r, "confirmed">> => StatusOf[<<r, "confirmed">>] # "not yet"
  <2> SUFFICES ASSUME type = "cancelled" PROVE StatusOf[<<r, "confirmed">>] # "not yet"
    OBVIOUS
  <2>1. PICK i : i \in IdsOf(<<r, "confirmed">>)
    BY <1>1
  <2>2. StatusOf[<<r, "confirmed">>] = Status(i)
    BY <1>2, <1>3, <2>1 DEF Viewed
  <2> QED
    BY <2>2 DEF Status
<1> QED
  BY <1>2, <1>4, <1>7, <1>8 DEF Told!Happen, Told!Confirmation

\* A send delivers a waiting event, or is refused.
LEMMA SendRefines ==
    ASSUME Inv, EventsInv', NEW w \in Workers, Send(w)
    PROVE  \E e \in Events : Told!Deliver(e) \/ Told!Refuse(e)
<1> DEFINE k == First(Unsent(w))
<1>1. k \in Ids /\ Eligible(k) /\ messages[k] \in Message
  BY MessageSent DEF Inv, WorkInv, TypeOK, Eligible
<1>2. PICK e \in Events : k \in IdsOf(e)
  BY <1>1 DEF Eligible, Message, Events, IdsOf
<1>3. Viewed /\ Viewed' /\ messages' = messages /\ \A f : IdsOf(f)' = IdsOf(f)
  BY EventViewed, EventViewedNext DEF Inv, Send, table, IdsOf
<1>4. StatusOf[e] = "waiting" /\ Deliveries[e] = delivered[k] /\ Refusals[e] = failures[k]
  <2>1. messages[k].attempts # MaxAttempts
    BY <1>1, OutboxAssumption DEF Eligible, Message
  <2>2. Status(k) = "waiting"
    BY <1>1, <2>1 DEF Status, Eligible
  <2> QED
    BY <1>2, <1>3, <2>2 DEF Viewed
<1>5. StatusOf' = StatusOf
  BY <1>3 DEF StatusOf, Status, IdsOf, MessageOf
<1>6. \A f \in Events \ {e} : k \notin IdsOf(f)
  BY <1>2 DEF IdsOf
<1>7. \/ delivered' = [delivered EXCEPT ![k] = @ + 1] /\ UNCHANGED failures
      \/ failures' = [failures EXCEPT ![k] = @ + 1] /\ UNCHANGED delivered
  BY DEF Send
<1> HIDE DEF k
<1>8. TypeOK
  BY DEF Inv, WorkInv
<1>9. CASE delivered' = [delivered EXCEPT ![k] = @ + 1] /\ UNCHANGED failures
  <2>1. Refusals' = Refusals
    BY <1>3, <1>9 DEF Refusals, IdsOf, MessageOf
  <2>2. Deliveries'[e] = Deliveries[e] + 1
    <3>1. Deliveries'[e] = delivered'[k]
      BY <1>2, <1>3 DEF Viewed
    <3>2. delivered'[k] = delivered[k] + 1
      BY <1>1, <1>8, <1>9 DEF TypeOK
    <3> QED
      BY <1>4, <3>1, <3>2
  <2>3. ASSUME NEW f \in Events \ {e} PROVE Deliveries'[f] = Deliveries[f]
    <3>1. \A i \in IdsOf(f) : delivered'[i] = delivered[i]
      BY <1>6, <1>8, <1>9 DEF TypeOK, IdsOf
    <3>2. \A i \in IdsOf(f) : Deliveries[f] = delivered[i] /\ Deliveries'[f] = delivered'[i]
      BY <1>3 DEF Viewed
    <3>3. IdsOf(f) = {} => Deliveries[f] = 0 /\ Deliveries'[f] = 0
      BY <1>3 DEF Viewed
    <3> QED
      BY <3>1, <3>2, <3>3
  <2>4. Deliveries' = [Deliveries EXCEPT ![e] = @ + 1]
    BY <2>2, <2>3 DEF Deliveries
  <2> QED
    BY <1>4, <1>5, <2>1, <2>4 DEF Told!Deliver
<1>10. CASE failures' = [failures EXCEPT ![k] = @ + 1] /\ UNCHANGED delivered
  <2>1. Deliveries' = Deliveries
    BY <1>3, <1>10 DEF Deliveries, IdsOf, MessageOf
  <2>2. Refusals'[e] = Refusals[e] + 1
    <3>1. Refusals'[e] = failures'[k]
      BY <1>2, <1>3 DEF Viewed
    <3>2. failures'[k] = failures[k] + 1
      BY <1>1, <1>8, <1>10 DEF TypeOK
    <3> QED
      BY <1>4, <3>1, <3>2
  <2>3. ASSUME NEW f \in Events \ {e} PROVE Refusals'[f] = Refusals[f]
    <3>1. \A i \in IdsOf(f) : failures'[i] = failures[i]
      BY <1>6, <1>8, <1>10 DEF TypeOK, IdsOf
    <3>2. \A i \in IdsOf(f) : Refusals[f] = failures[i] /\ Refusals'[f] = failures'[i]
      BY <1>3 DEF Viewed
    <3>3. IdsOf(f) = {} => Refusals[f] = 0 /\ Refusals'[f] = 0
      BY <1>3 DEF Viewed
    <3> QED
      BY <3>1, <3>2, <3>3
  <2>4. Refusals' = [Refusals EXCEPT ![e] = @ + 1]
    BY <2>2, <2>3 DEF Refusals
  <2> QED
    BY <1>4, <1>5, <2>1, <2>4 DEF Told!Refuse
<1> QED
  BY <1>7, <1>9, <1>10

\* A commit settles what it marks as sent, and what it marks as refused for the
\* last time.
LEMMA CommitRefines ==
    ASSUME Inv, EventsInv', NEW w \in Workers, Commit(w)
    PROVE  Told!Settle
<1>1. Viewed /\ Viewed' /\ \A e : IdsOf(e)' = IdsOf(e)
  BY EventViewed, EventViewedNext, MarksKeepEvents, SameMessages DEF Inv
<1>2. UNCHANGED <<Deliveries, Refusals>>
  BY MarksKeepEvents, SameMessages DEF Inv, Commit, history, Deliveries, Refusals
<1>3. StatusOf' \in [Told!Events -> {"not yet", "waiting", "delivered", "given up"}]
  BY DEF StatusOf, Status, Events, Told!Events
<1>4. ASSUME NEW e \in Events, StatusOf'[e] # StatusOf[e] PROVE Told!MaySettle(e, StatusOf'[e])
  <2>1. PICK i \in IdsOf(e) : TRUE
    BY <1>1, <1>4 DEF Viewed
  <2>2. /\ StatusOf[e] = Status(i) /\ StatusOf'[e] = Status(i)'
        /\ Deliveries[e] = delivered[i] /\ Refusals[e] = failures[i]
    BY <1>1 DEF Viewed
  <2>3. i \in Ids /\ messages[i] # None
    BY DEF IdsOf
  <2>4. i \in claimed[w]
    BY <1>4, <2>2, <2>3 DEF Commit, Status
  <2>5. Eligible(i) /\ messages[i] \in Message /\ messages'[i] = Mark(w, i) /\ Accounts(i)
    BY <2>3, <2>4 DEF Inv, WorkInv, TypeOK, WorkerInv, Commit
  <2>6. StatusOf[e] = "waiting"
    <3>1. messages[i].attempts # MaxAttempts
      BY <2>5, OutboxAssumption DEF Eligible, Message
    <3> QED
      BY <2>2, <2>5, <3>1 DEF Status, Eligible
  <2>7. CASE i \in sent[w]
    <3>1. Status(i)' = "delivered"
      BY <2>5, <2>7 DEF Status, Mark, Message, Eligible
    <3>2. delivered[i] > 0
      BY <2>5, <2>7 DEF Accounts
    <3> QED
      BY <2>2, <2>6, <3>1, <3>2 DEF Told!MaySettle
  <2>8. CASE i \in failed[w] /\ i \notin sent[w]
    <3>1. ~messages'[i].published /\ messages'[i].attempts = messages[i].attempts + 1
      BY <2>5, <2>8 DEF Mark, Message, Eligible
    <3>2. Status(i)' = "given up" /\ messages[i].attempts + 1 = MaxAttempts
      BY <1>4, <2>2, <2>6, <3>1 DEF Status
    <3>3. messages[i].attempts < failures[i]
      BY <2>3, <2>5, <2>8 DEF Accounts
    <3>4. failures[i] >= MaxAttempts
      <4>1. failures[i] \in Nat /\ messages[i].attempts \in Nat
        BY <2>3, <2>5, OutboxAssumption DEF Inv, WorkInv, TypeOK, Message
      <4>2. \A m, n \in Nat : m < n => n >= m + 1
        OBVIOUS
      <4> QED
        BY <3>2, <3>3, <4>1, <4>2
    <3> QED
      BY <2>2, <2>6, <3>2, <3>4 DEF Told!MaySettle
  <2> QED
    BY <2>4, <2>7, <2>8 DEF Commit, Unsent
<1> QED
  BY <1>2, <1>3, <1>4 DEF Told!Settle, Events, Told!Events

\* Whatever the workers do, each event is told until it has been delivered, or
\* refused MaxAttempts times, and never after that: Outbox implements Delivery.
THEOREM EventsAreTold == Spec => RefinesDelivery
<1>1. Init => Told!Init
  <2> SUFFICES ASSUME Init PROVE Told!Init
    OBVIOUS
  <2>1. \A e : IdsOf(e) = {}
    BY DEF Init, IdsOf
  <2> QED
    BY <2>1 DEF StatusOf, Deliveries, Refusals, Events, Told!Init, Told!Events
<1>2. Inv /\ Inv' /\ [Next]_vars => [Told!Next]_<<StatusOf, Deliveries, Refusals>>
  <2> SUFFICES ASSUME Inv, Inv', [Next]_vars
               PROVE  Told!Next \/ UNCHANGED <<StatusOf, Deliveries, Refusals>>
    OBVIOUS
  <2>1. EventsInv' /\ Events = Told!Events
    BY DEF Inv, Events, Told!Events
  <2>2. ASSUME NEW r \in References, Publish(r) \/ PublishEnds(r)
        PROVE  (\E e \in Events : Told!Happen(e)) \/ UNCHANGED <<StatusOf, Deliveries, Refusals>>
    <3>1. UNCHANGED <<delivered, failures>> /\ (messages' # messages => PublishEnds(r))
      BY <2>2 DEF Publish, PublishEnds, history
    <3> QED
      BY <2>1, <3>1, PublishEndsRefines, NothingTold
  <2>3. ASSUME NEW w \in Workers, Step(w) \/ Abort(w)
        PROVE  \/ Told!Settle
               \/ \E e \in Events : Told!Deliver(e) \/ Told!Refuse(e)
               \/ UNCHANGED <<StatusOf, Deliveries, Refusals>>
    <3>1. CASE Claim(w) \/ ScanRow(w) \/ Claimed(w) \/ Tick(w) \/ Abort(w)
      BY <3>1, NothingTold DEF Claim, ScanRow, Claimed, Tick, Abort, table, history
    <3> QED
      BY <2>1, <2>3, <3>1, SendRefines, CommitRefines DEF Step
  <2>4. CASE UNCHANGED vars
    BY <2>4, NothingTold DEF vars, table, history
  <2>5. CASE Next
    BY <2>1, <2>2, <2>3, <2>5 DEF Next, Told!Next
  <2> QED
    BY <2>4, <2>5
<1>3. UNCHANGED <<StatusOf, Deliveries, Refusals>> <=> UNCHANGED Told!vars
  BY DEF Told!vars
<1>4. Inv /\ Inv' /\ [Next]_vars => [Told!Next]_(Told!vars)
  BY <1>2, <1>3
<1> QED
  BY <1>1, <1>4, OutboxInvariance, PTL DEF Spec, RefinesDelivery, Told!Spec

\* An event that was delivered, or given up, is left alone for ever: no worker
\* sends it again, whatever snapshot it has claimed from.
THEOREM SettledStays ==
    Spec => [][\A e \in Events : StatusOf[e] \in {"delivered", "given up"} =>
                  /\ StatusOf'[e] = StatusOf[e]
                  /\ Deliveries'[e] = Deliveries[e]
                  /\ Refusals'[e] = Refusals[e]]_(Told!vars)
<1> DEFINE LeftAlone == \A e \in Events : StatusOf[e] \in {"delivered", "given up"} =>
                            /\ StatusOf'[e] = StatusOf[e]
                            /\ Deliveries'[e] = Deliveries[e]
                            /\ Refusals'[e] = Refusals[e]
<1>1. Told!Next => LeftAlone
  <2> SUFFICES ASSUME Told!Next, NEW e \in Events, StatusOf[e] \in {"delivered", "given up"}
               PROVE  /\ StatusOf'[e] = StatusOf[e]
                      /\ Deliveries'[e] = Deliveries[e]
                      /\ Refusals'[e] = Refusals[e]
    OBVIOUS
  <2>1. Events = Told!Events
    BY DEF Events, Told!Events
  <2>2. CASE Told!Settle
    BY <2>1, <2>2 DEF Told!Settle, Told!MaySettle
  <2>3. ASSUME NEW f \in Events, Told!Happen(f) \/ Told!Deliver(f) \/ Told!Refuse(f)
        PROVE  /\ StatusOf'[e] = StatusOf[e]
               /\ Deliveries'[e] = Deliveries[e]
               /\ Refusals'[e] = Refusals[e]
    <3>1. e # f
      BY <2>3 DEF Told!Happen, Told!Deliver, Told!Refuse
    <3>2. e \in DOMAIN StatusOf /\ e \in DOMAIN Deliveries /\ e \in DOMAIN Refusals
      BY DEF StatusOf, Deliveries, Refusals
    <3> QED
      BY <2>3, <3>1, <3>2 DEF Told!Happen, Told!Deliver, Told!Refuse
  <2> QED
    BY <2>1, <2>2, <2>3 DEF Told!Next
<1>2. [Told!Next]_(Told!vars) => [LeftAlone]_(Told!vars)
  BY <1>1
<1> QED
  BY <1>2, EventsAreTold, PTL DEF RefinesDelivery, Told!Spec

-----------------------------------------------------------------------------
(* The order of a reservation's messages, with one worker *)

\* What OrderInv says of a confirmation i and a cancellation j.
Ahead(i, j) ==
    /\ delivered[j] > 0 => Tried(i)
    /\ \A w \in Workers :
         /\ j \in claimed[w] => Tried(i) \/ i \in claimed[w]
         /\ j \in scan[w] => Tried(i) \/ i \in claimed[w] \/ i \in scan[w]

LEMMA EventsKept ==
    ASSUME EventsInOrder, SameEvents, inflight' = inflight
    PROVE  EventsInOrder' /\ \A i, j \in Ids : Before(i, j)' <=> Before(i, j)
<1>1. \A i, j \in Ids : Before(i, j)' <=> Before(i, j)
  BY DEF SameEvents, Before
<1>2. \A r \in References : Committed(r)' = Committed(r)
  BY DEF SameEvents, Committed
<1> QED
  BY <1>1, <1>2 DEF EventsInOrder

\* A step that keeps the events keeps the order if it keeps it for each pair.
LEMMA OrderKept ==
    ASSUME OrderInv, SameEvents, inflight' = inflight,
           \A i, j \in Ids : Before(i, j) /\ i < j /\ Ahead(i, j) => Ahead(i, j)'
    PROVE  OrderInv'
<1>1. EventsInOrder
  BY DEF OrderInv
<1>2. EventsInOrder' /\ \A i, j \in Ids : Before(i, j)' <=> Before(i, j)
  BY <1>1, EventsKept
<1>3. \A i, j \in Ids : Before(i, j) => i < j
  BY <1>1 DEF EventsInOrder
<1> QED
  BY <1>2, <1>3 DEF OrderInv, Ahead

\* A row gets the latest id yet.
LEMMA PublishOrder ==
    ASSUME WorkInv, OrderInv, NEW r \in References, Publish(r)
    PROVE  OrderInv'
<1>1. /\ UNCHANGED <<messages, scan, claimed, delivered, failures>>
      /\ inflight' = [inflight EXCEPT ![r] = nextId]
  BY DEF Publish, workerVars, history
<1>2. EventsInOrder'
  <2>1. \A i, j \in Ids : Before(i, j)' => i < j
    BY <1>1 DEF Before, OrderInv, EventsInOrder
  <2>2. ASSUME NEW s \in References, inflight'[s] # None, NEW i \in Committed(s)'
        PROVE  i < inflight'[s]
    <3>1. i \in Committed(s) /\ i < nextId
      BY <1>1, <2>2 DEF Committed, WorkInv, IdsInv
    <3>2. inflight'[s] = IF s = r THEN nextId ELSE inflight[s]
      BY <1>1 DEF WorkInv, TypeOK
    <3> QED
      BY <2>2, <3>1, <3>2 DEF OrderInv, EventsInOrder
  <2> QED
    BY <2>1, <2>2 DEF EventsInOrder
<1> QED
  BY <1>1, <1>2 DEF OrderInv, Before, Tried

\* A cancellation gets its row after its confirmation, and is not yet tried.
LEMMA PublishEndsOrder ==
    ASSUME WorkInv, OrderInv, NEW r \in References, PublishEnds(r)
    PROVE  OrderInv'
<1> DEFINE k == inflight[r]
<1>1. /\ k \in Ids /\ messages[k] = None /\ k # None
      /\ UNCHANGED <<scan, claimed, delivered, failures>>
      /\ inflight' = [inflight EXCEPT ![r] = None]
      /\ messages' = messages \/ messages' = [messages EXCEPT ![k] = NewMessage(r)]
  BY DEF PublishEnds, WorkInv, TypeOK, IdsInv, workerVars, history
<1>2. \A s \in References : inflight'[s] # None => s # r /\ inflight'[s] = inflight[s]
  BY <1>1 DEF WorkInv, TypeOK
<1>3. CASE messages' = messages
  BY <1>1, <1>2, <1>3 DEF OrderInv, EventsInOrder, Committed, Before, Tried
<1>4. CASE messages' = [messages EXCEPT ![k] = NewMessage(r)]
  <2>1. /\ messages'[k] = NewMessage(r) /\ NewMessage(r).reservation = r
        /\ NewMessage(r).type = IF Committed(r) = {} THEN "confirmed" ELSE "cancelled"
        /\ \A i \in Ids \ {k} : messages'[i] = messages[i]
    BY <1>1, <1>4 DEF WorkInv, TypeOK, NewMessage
  <2>2. \A i \in Committed(r) : i < k
    BY <1>1 DEF OrderInv, EventsInOrder
  <2>3. ASSUME NEW i \in Ids, NEW j \in Ids, Before(i, j)'
        PROVE  Before(i, j) \/ (j = k /\ i < j)
    <3>1. CASE i = k
      <4>1. j # k
        BY <2>1, <2>3, <3>1 DEF Before
      <4>2. j \in Committed(r)
        BY <2>1, <2>3, <3>1, <4>1 DEF Before, Committed
      <4> QED
        BY <2>1, <2>3, <3>1, <4>2 DEF Before
    <3>2. CASE i # k /\ j = k
      BY <2>1, <2>2, <2>3, <3>2 DEF Before, Committed
    <3>3. CASE i # k /\ j # k
      BY <2>1, <2>3, <3>3 DEF Before
    <3> QED
      BY <3>1, <3>2, <3>3
  <2>4. EventsInOrder'
    <3>1. \A s \in References \ {r} : Committed(s)' = Committed(s)
      BY <1>1, <2>1 DEF Committed
    <3>2. \A s \in References : inflight'[s] # None => \A i \in Committed(s)' : i < inflight'[s]
      BY <1>2, <3>1 DEF OrderInv, EventsInOrder
    <3> QED
      BY <2>3, <3>2 DEF OrderInv, EventsInOrder
  <2>5. delivered'[k] = 0 /\ \A w \in Workers : k \notin claimed'[w] /\ k \notin scan'[w]
    BY <1>1 DEF WorkInv, Accounts, WorkerInv, Eligible
  <2>6. ASSUME NEW i \in Ids, NEW j \in Ids, Before(i, j)' PROVE Ahead(i, j)'
    BY <1>1, <2>3, <2>5, <2>6 DEF OrderInv, Ahead, Tried
  <2> QED
    BY <2>4, <2>6 DEF OrderInv, Ahead
<1> QED
  BY <1>1, <1>3, <1>4

\* What the snapshot leaves out of two messages it should have has been tried.
LEMMA ClaimOrder ==
    ASSUME WorkInv, OrderInv, \A v, w \in Workers : v = w, NEW w \in Workers, Claim(w)
    PROVE  OrderInv'
<1>1. /\ UNCHANGED <<messages, inflight, claimed, delivered, failures>>
      /\ scan'[w] = {i \in Ids : Eligible(i)}
  BY DEF Claim, table, history, WorkInv, TypeOK
<1>2. ASSUME NEW i \in Ids, messages[i] # None, ~Eligible(i) PROVE Tried(i)
  <2>1. messages[i] \in Message /\ Accounts(i) /\ failures[i] \in Nat
    BY <1>2 DEF WorkInv, TypeOK
  <2>2. messages[i].published \/ messages[i].attempts = MaxAttempts
    BY <1>2, <2>1, OutboxAssumption DEF Eligible, Message
  <2>3. CASE messages[i].published
    BY <1>2, <2>1, <2>3 DEF Accounts, Published, Tried
  <2>4. CASE messages[i].attempts = MaxAttempts
    BY <1>2, <2>1, <2>4, OutboxAssumption DEF Accounts, Tried
  <2> QED
    BY <2>2, <2>3, <2>4
<1>3. ASSUME NEW i \in Ids, NEW j \in Ids, Before(i, j), Ahead(i, j) PROVE Ahead(i, j)'
  <2>1. messages[i] # None
    BY <1>3 DEF Before
  <2>2. Tried(i)' = Tried(i)
    BY <1>1 DEF Tried
  <2>3. Tried(i) \/ i \in scan'[w]
    BY <1>1, <1>2, <2>1
  <2> QED
    BY <1>1, <1>3, <2>2, <2>3 DEF Ahead
<1>4. SameEvents
  BY <1>1 DEF SameEvents
<1> QED
  BY <1>1, <1>3, <1>4, OrderKept

\* The snapshot is gone through in order, and nobody else holds its rows.
LEMMA ScanRowOrder ==
    ASSUME WorkInv, OrderInv, \A v, w \in Workers : v = w, NEW w \in Workers, ScanRow(w)
    PROVE  OrderInv'
<1> DEFINE k == First(scan[w])
<1>1. /\ k \in scan[w] /\ \A j \in scan[w] : k <= j
      /\ scan' = [scan EXCEPT ![w] = @ \ {k}]
      /\ \/ claimed' = claimed /\ (~Eligible(k) \/ LockedByOther(w, k))
         \/ claimed' = [claimed EXCEPT ![w] = @ \cup {k}]
      /\ UNCHANGED <<table, sent, failed, history>>
  BY RowScanned
<1> HIDE DEF k
<1>2. UNCHANGED <<messages, inflight, delivered, failures>> /\ SameEvents
  BY <1>1 DEF table, history, SameEvents
<1>3. ~LockedByOther(w, k)
  BY DEF LockedByOther
<1>4. k \in Ids
  BY <1>1 DEF WorkInv, TypeOK
<1>5. Tried(k) \/ Eligible(k)
  <2> SUFFICES ASSUME ~Eligible(k) PROVE Tried(k)
    OBVIOUS
  <2>1. messages[k] # None
    BY <1>1 DEF WorkInv, WorkerInv
  <2>2. messages[k] \in Message /\ Accounts(k) /\ failures[k] \in Nat
    BY <1>4, <2>1 DEF WorkInv, TypeOK
  <2>3. messages[k].published \/ messages[k].attempts = MaxAttempts
    BY <2>1, <2>2, OutboxAssumption DEF Eligible, Message
  <2>4. CASE messages[k].published
    BY <2>1, <2>2, <2>4 DEF Accounts, Published, Tried
  <2>5. CASE messages[k].attempts = MaxAttempts
    BY <2>1, <2>2, <2>5, OutboxAssumption DEF Accounts, Tried
  <2> QED
    BY <2>3, <2>4, <2>5
<1>6. /\ scan'[w] = scan[w] \ {k} /\ claimed[w] \subseteq claimed'[w]
      /\ claimed'[w] \subseteq claimed[w] \cup {k}
      /\ Tried(k) \/ k \in claimed'[w]
  BY <1>1, <1>3, <1>5 DEF WorkInv, TypeOK
<1>7. ASSUME NEW i \in Ids, NEW j \in Ids, Before(i, j), i < j, Ahead(i, j) PROVE Ahead(i, j)'
  <2>1. Tried(i)' = Tried(i) /\ delivered' = delivered
    BY <1>2 DEF Tried
  <2>2. j = k => i \notin scan[w]
    BY <1>1, <1>7 DEF Ids
  <2>3. j \in claimed'[w] => Tried(i) \/ i \in claimed'[w]
    BY <1>1, <1>6, <1>7, <2>2 DEF Ahead
  <2>4. j \in scan'[w] => Tried(i) \/ i \in claimed'[w] \/ i \in scan'[w]
    BY <1>6, <1>7 DEF Ahead
  <2> QED
    BY <1>7, <2>1, <2>3, <2>4 DEF Ahead
<1> QED
  BY <1>2, <1>7, OrderKept

\* What is sent first is the earlier message.
LEMMA SendOrder ==
    ASSUME WorkInv, OrderInv, \A v, w \in Workers : v = w, NEW w \in Workers, Send(w)
    PROVE  OrderInv'
<1> DEFINE k == First(Unsent(w))
<1>1. k \in claimed[w] /\ k \in Ids /\ \A j \in Unsent(w) : k <= j
  BY MessageSent
<1>2. \/ delivered' = [delivered EXCEPT ![k] = @ + 1] /\ failures' = failures
      \/ failures' = [failures EXCEPT ![k] = @ + 1] /\ delivered' = delivered
  BY DEF Send
<1> HIDE DEF k
<1>3. UNCHANGED <<messages, inflight, scan, claimed>> /\ SameEvents
  BY DEF Send, table, SameEvents
<1>4. \A i \in Ids : /\ delivered[i] \in Nat /\ failures[i] \in Nat
                     /\ delivered'[i] \in {delivered[i], delivered[i] + 1}
                     /\ failures'[i] \in {failures[i], failures[i] + 1}
  BY <1>2 DEF WorkInv, TypeOK
<1>5. \A i \in Ids : Tried(i) => Tried(i)'
  BY <1>4 DEF Tried
<1>6. ASSUME NEW i \in Ids, i \in sent[w] \cup failed[w] PROVE Tried(i)
  <2>1. Accounts(i) /\ Eligible(i) /\ failures[i] \in Nat /\ messages[i] \in Message
    BY <1>6 DEF WorkInv, TypeOK, WorkerInv, Eligible
  <2> QED
    BY <1>6, <2>1 DEF Accounts, Tried, Eligible, Message
<1>7. ASSUME NEW i \in Ids, NEW j \in Ids, Before(i, j), i < j, Ahead(i, j) PROVE Ahead(i, j)'
  <2>1. CASE j = k
    <3>1. i \notin Unsent(w)
      BY <1>1, <1>7, <2>1 DEF Ids
    <3>2. Tried(i) \/ i \in claimed[w]
      BY <1>1, <1>7, <2>1 DEF Ahead
    <3>3. Tried(i)
      BY <1>6, <3>1, <3>2 DEF Unsent
    <3> QED
      BY <1>5, <3>3 DEF Ahead
  <2>2. CASE j # k
    <3>1. delivered'[j] = delivered[j]
      BY <1>2, <2>2 DEF WorkInv, TypeOK
    <3> QED
      BY <1>3, <1>5, <1>7, <3>1 DEF Ahead
  <2> QED
    BY <2>1, <2>2
<1> QED
  BY <1>3, <1>7, OrderKept

\* A dispatch that ends leaves nothing to come to.
LEMMA DispatchEndOrder ==
    ASSUME WorkInv, OrderInv, \A v, w \in Workers : v = w, NEW w \in Workers, Commit(w) \/ Abort(w)
    PROVE  OrderInv'
<1>1. /\ \E label \in {"claim", "wait"} : EndDispatch(w) /\ Goto(w, label)
      /\ UNCHANGED <<inflight, delivered, failures>>
  BY DEF Commit, Abort, table, history
<1>2. scan'[w] = {} /\ claimed'[w] = {}
  BY <1>1, DispatchEnded
<1>3. SameEvents
  <2>1. CASE Commit(w)
    BY <2>1, MarksKeepEvents
  <2>2. CASE Abort(w)
    BY <2>2 DEF Abort, table, SameEvents
  <2> QED
    BY <2>1, <2>2
<1>4. \A i, j \in Ids : Ahead(i, j) => Ahead(i, j)'
  BY <1>1, <1>2 DEF Ahead, Tried
<1> QED
  BY <1>1, <1>3, <1>4, OrderKept

\* With one worker every step keeps the order.
LEMMA NextOrder ==
    ASSUME \A v, w \in Workers : v = w
    PROVE  WorkInv /\ OrderInv /\ [Next]_vars => OrderInv'
<1> SUFFICES ASSUME WorkInv, OrderInv, [Next]_vars PROVE OrderInv'
  OBVIOUS
<1>1. ASSUME NEW r \in References, Publish(r) \/ PublishEnds(r) PROVE OrderInv'
  BY <1>1, PublishOrder, PublishEndsOrder
<1>2. ASSUME NEW w \in Workers, Step(w) \/ Abort(w) PROVE OrderInv'
  <2>1. CASE Claimed(w) \/ Tick(w)
    <3>1. /\ UNCHANGED <<messages, inflight, claimed, delivered, failures>> /\ SameEvents
          /\ \A v \in Workers : scan'[v] \subseteq scan[v]
      BY <2>1 DEF Claimed, Tick, table, history, SameEvents, WorkInv, TypeOK
    <3>2. \A i, j \in Ids : Ahead(i, j) => Ahead(i, j)'
      <4> SUFFICES ASSUME NEW i \in Ids, NEW j \in Ids, Ahead(i, j) PROVE Ahead(i, j)'
        OBVIOUS
      <4>1. CASE Tick(w)
        BY <3>1, <4>1 DEF Tick, Ahead, Tried
      <4>2. CASE Claimed(w)
        <5>1. scan'[w] = {}
          BY <4>2 DEF Claimed, WorkInv, TypeOK
        <5> QED
          BY <3>1, <5>1 DEF Ahead, Tried
      <4> QED
        BY <2>1, <4>1, <4>2
    <3> QED
      BY <3>1, <3>2, OrderKept
  <2> QED
    BY <1>2, <2>1, ClaimOrder, ScanRowOrder, SendOrder, DispatchEndOrder DEF Step
<1>3. CASE UNCHANGED vars
  BY <1>3 DEF vars, table, workerVars, history, OrderInv, EventsInOrder, Before, Committed, Tried
<1> QED
  BY <1>1, <1>2, <1>3 DEF Next

\* With one worker, as deployed, its work goes by the order of events.
THEOREM WorkInOrder ==
    ASSUME \A v, w \in Workers : v = w
    PROVE  Spec => []OrderInv
<1>1. Init => OrderInv
  BY DEF Init, OrderInv, EventsInOrder, Before, Committed
<1>2. WorkInv /\ OrderInv /\ [Next]_vars => OrderInv'
  BY NextOrder
<1> QED
  BY <1>1, <1>2, WorkInvariance, PTL DEF Spec

\* With one worker a guest hears of the cancellation before the confirmation
\* only when sending the confirmation has failed.
THEOREM ConfirmedFirst ==
    ASSUME \A v, w \in Workers : v = w
    PROVE  Spec => []InOrderUnlessRefused
<1>1. OrderInv => InOrderUnlessRefused
  BY DEF OrderInv, InOrderUnlessRefused, Before, Tried
<1> QED
  BY <1>1, WorkInOrder, PTL

=============================================================================
