---------------------------- MODULE LedgerProofs ----------------------------
(***************************************************************************)
(* The transactions of Reservations implement Ledger, and what Ledger's    *)
(* steps keep true of keys, reservations, events and answers is therefore  *)
(* true of the code's tables.                                              *)
(***************************************************************************)
EXTENDS ReservationsProofs, SequenceTheorems

-----------------------------------------------------------------------------
(* The steps that can be seen *)

Visible == <<database, now, answers>>

\* All but five kinds of steps are seen by nobody.
LEMMA VisibleSteps ==
    ASSUME [Next]_vars
    PROVE  \/ UNCHANGED Visible
           \/ Tick
           \/ \E p \in Procs : \/ Replay(p)
                               \/ CommitReserve(p)
                               \/ CommitCancel(p)
                               \/ pc[p] = "lock" /\ req[p].op = "publish"
                                  /\ PublishAccepted(p) /\ CommitPublish(p)
<1>1. ASSUME NEW p \in Procs, Rollback(p) PROVE UNCHANGED Visible
  BY <1>1 DEF Rollback, Visible
<1>2. ASSUME NEW p \in Procs, Arrive(p) PROVE UNCHANGED Visible
  BY <1>2 DEF Arrive, ArriveReserve, ArriveCancel, ArrivePublish, Visible
<1>3. ASSUME NEW p \in Procs, Refuse(p) \/ Abort(p) \/ BreakDeadlock(p) PROVE UNCHANGED Visible
  BY <1>1, <1>3 DEF Refuse, Abort, BreakDeadlock
<1>4. ASSUME NEW p \in Procs,
             \/ Claim(p) \/ UpsertGuest(p) \/ New(p) \/ LockRow(p) \/ Move(p) \/ Create(p)
             \/ Decide(p) \/ MarkCancelled(p) \/ Release(p)
      PROVE  UNCHANGED Visible
  BY <1>1, <1>4 DEF Claim, UpsertGuest, New, LockRow, Move, Create, Decide, MarkCancelled,
                    Release, Visible
<1>5. ASSUME NEW p \in Procs, Publish(p)
      PROVE  \/ UNCHANGED Visible
             \/ pc[p] = "lock" /\ req[p].op = "publish" /\ PublishAccepted(p) /\ CommitPublish(p)
  BY <1>1, <1>5 DEF Publish
<1>6. CASE UNCHANGED vars
  BY <1>6 DEF vars, Visible
<1> QED
  BY <1>2, <1>3, <1>4, <1>5, <1>6 DEF Next, Step

-----------------------------------------------------------------------------
(* Each of them is a step of Ledger *)

\* Ledger counts the occupants of a night as the code's constraint means to.
LEMMA SameTerms ==
    /\ L!Rows = Rows
    /\ \A b : L!Nights(b) = Nights(b)
    /\ \A row : L!Occupants(row) = Occupants(row)
BY DEF L!Rows, Rows, L!Nights, Nights, L!Occupants, Occupants

\* The instance's Cardinality is the library's.
LEMMA SameCount == \A S : L!Cardinality(S) = Cardinality(S)
BY DEF L!Cardinality, Cardinality

\* A replay answers with the reservation the key names.
LEMMA ReplayRefines ==
    ASSUME Inv, NEW p \in Procs, Replay(p)
    PROVE  req[p].key \in Keys /\ L!Replay(req[p].key)
<1>1. req[p] \in ReserveRequest /\ keys[req[p].key] # None /\ SameRequest(p)
  BY DEF Replay, Inv, ProcInv, RequestFits, KeyHeld
<1> QED
  BY <1>1, Operations DEF Replay, L!Replay, L!Answer, Answer, SameRequest, database

\* A commit of Reserve takes a free room on every night, under a new key.
LEMMA ReserveRefines ==
    ASSUME Inv, NEW p \in Procs, CommitReserve(p)
    PROVE  /\ req[p].key \in Keys /\ req[p].body \in Bodies /\ ref[p] \in References
           /\ L!Reserve(req[p].key, req[p].body, ref[p])
<1> DEFINE k == req[p].key
           b == req[p].body
           r == ref[p]
<1>1. pc[p] = "commit" /\ req[p] \in ReserveRequest /\ Reserving(p) /\ Delta(p) = 1
  BY Operations DEF CommitReserve, Inv, ProcInv, RequestFits, Reserving, Delta
<1>2. k \in Keys /\ b \in Bodies /\ r \in References /\ keys[k] = None
      /\ res[p] = [body |-> b, status |-> "confirmed", cancelledAt |-> None]
      /\ reservations[r] = None
  BY <1>1, Operations DEF Inv, ProcInv, KeyHeld, Booking
<1>3. /\ LockedRows(p) = Nights(b) /\ Nights(b) \subseteq published
      /\ \A row \in Nights(b) : NotOversold(booked[row] + 1, allotment[row])
  <2>1. RowsHeld(p)
    BY DEF Inv, ProcInv
  <2>2. Nights(res[p].body) = Nights(b)
    BY <1>2
  <2> QED
    BY <1>1, <2>1, <2>2 DEF RowsHeld
<1>4. ASSUME NEW row \in Nights(b) PROVE L!RoomsLeft(row) >= 1
  <2>1. row \in Rows
    BY <1>2, NightsAreRows
  <2>2. booked[row] = Cardinality(Occupants(row)) /\ booked[row] \in Int /\ allotment[row] \in Int
    BY <2>1 DEF Inv, TypeOK, TablesInv, BookedCountsReservations
  <2>3. L!RoomsLeft(row) = allotment[row] - booked[row]
    BY <2>2, SameTerms, SameCount DEF L!RoomsLeft
  <2> QED
    BY <1>3, <2>2, <2>3 DEF NotOversold
<1>5. /\ reservations' = [reservations EXCEPT ![r] = res[p]]
      /\ keys' = [keys EXCEPT ![k] = [hash |-> b, reservation |-> r]]
      /\ outbox' = [outbox EXCEPT ![r] = Append(@, Confirmed)]
      /\ answers' \in {answers, answers \cup {Answer(p, r)}}
      /\ UNCHANGED <<published, allotment, now>>
  BY DEF CommitReserve
<1> QED
  BY <1>2, <1>3, <1>4, <1>5, SameTerms
     DEF L!Reserve, L!Tell, L!Answer, Answer, Confirmed

\* A commit of Cancel takes effect as of the moment it decided.
LEMMA CancelRefines ==
    ASSUME Inv, NEW p \in Procs, CommitCancel(p), now <= MaxTime
    PROVE  /\ ref[p] \in References /\ res[p].cancelledAt \in 0 .. MaxTime
           /\ L!Cancel(ref[p], res[p].cancelledAt)
<1> DEFINE r == ref[p]
           at == res[p].cancelledAt
<1>1. pc[p] = "commit" /\ req[p] \in CancelRequest /\ Cancelling(p)
  BY Operations DEF CommitCancel, Inv, ProcInv, RequestFits, Cancelling
<1>2. /\ r \in References /\ reservations[r] # None
      /\ res[p] \in Reservation /\ res[p].status = "cancelled"
      /\ reservations[r].body = res[p].body /\ reservations[r].status = "confirmed"
      /\ at \in Nat /\ at < CheckInTime(res[p].body) /\ at <= now /\ now \in Nat
  BY <1>1, Operations DEF Inv, TypeOK, ProcInv, CancelRead
<1>3. at \in 0 .. MaxTime
  BY <1>2, ClockAssumption
<1>4. /\ reservations' = [reservations EXCEPT ![r] = res[p]]
      /\ outbox' = [outbox EXCEPT ![r] = Append(@, Cancelled(p))]
      /\ UNCHANGED <<published, allotment, keys, now, answers>>
  BY DEF CommitCancel
<1>5. res[p] = [body |-> reservations[r].body, status |-> "cancelled", cancelledAt |-> at]
  BY <1>2 DEF Reservation
<1>6. Cancelled(p) =
        [type |-> "cancelled", refundable |-> L!Refundable(reservations[r].body, at)]
  BY <1>2 DEF Cancelled, Refundable, L!Refundable, CheckInTime
<1> QED
  BY <1>2, <1>3, <1>4, <1>5, <1>6 DEF L!Cancel, L!Tell, CheckInTime

\* A publish that the constraint accepts lowers no night below its guests.
LEMMA PublishRefines ==
    ASSUME Inv, NEW p \in Procs, pc[p] = "lock", req[p].op = "publish",
           PublishAccepted(p), CommitPublish(p)
    PROVE  \E rows \in SUBSET L!Rows, rooms \in {Int16(i.allotment) : i \in PublishInputs} :
               L!Publish(rows, rooms)
<1> DEFINE rooms == Int16(req[p].input.allotment)
<1>1. rooms \in {Int16(i.allotment) : i \in PublishInputs}
  BY Operations DEF Inv, ProcInv, RequestFits
<1> HIDE DEF rooms
<1>2. LockedRows(p) \in SUBSET L!Rows
  BY SameTerms DEF LockedRows
<1>3. ASSUME NEW row \in LockedRows(p) PROVE Cardinality(L!Occupants(row)) <= rooms
  <2>1. row \in Rows
    BY DEF LockedRows
  <2>2. booked[row] = Cardinality(Occupants(row))
    BY <2>1 DEF Inv, TablesInv, BookedCountsReservations
  <2>3. NotOversold(booked[row], rooms)
    BY DEF PublishAccepted, rooms
  <2> QED
    BY <2>2, <2>3, SameTerms DEF NotOversold
<1>4. L!Publish(LockedRows(p), rooms)
  BY <1>3, SameTerms, SameCount DEF CommitPublish, L!Publish, rooms
<1> QED
  BY <1>1, <1>2, <1>4

LEMMA StepRefines ==
    ASSUME Inv, now <= MaxTime, [Next]_vars
    PROVE  [L!Next]_(L!vars)
<1>1. CASE UNCHANGED Visible
  BY <1>1 DEF Visible, database, L!vars
<1>2. CASE Tick
  BY <1>2 DEF Tick, L!Tick, L!Next, database
<1>3. ASSUME NEW p \in Procs, Replay(p) PROVE L!Next
  BY <1>3, ReplayRefines DEF L!Next
<1>4. ASSUME NEW p \in Procs, CommitReserve(p) PROVE L!Next
  BY <1>4, ReserveRefines DEF L!Next
<1>5. ASSUME NEW p \in Procs, CommitCancel(p) PROVE L!Next
  BY <1>5, CancelRefines DEF L!Next
<1>6. ASSUME NEW p \in Procs, pc[p] = "lock", req[p].op = "publish",
             PublishAccepted(p), CommitPublish(p)
      PROVE  L!Next
  BY <1>6, PublishRefines DEF L!Next
<1> QED
  BY <1>1, <1>2, <1>3, <1>4, <1>5, <1>6, VisibleSteps

-----------------------------------------------------------------------------
(* The refinement *)

ClockBounded == now <= MaxTime

LEMMA ClockStays == Spec => []ClockBounded
<1>1. Init => ClockBounded
  BY ClockAssumption DEF Init, ClockBounded
<1>2. Inv /\ ClockBounded /\ [Next]_vars => ClockBounded'
  <2> SUFFICES ASSUME Inv, ClockBounded, [Next]_vars PROVE ClockBounded'
    OBVIOUS
  <2>1. now' = now \/ Tick
    BY VisibleSteps DEF Visible, Replay, CommitReserve, CommitCancel, CommitPublish
  <2> QED
    BY <2>1, ClockAssumption DEF ClockBounded, Tick, Inv, TypeOK
<1> QED
  BY <1>1, <1>2, Invariance, PTL DEF Spec

\* The transactions implement the promise: in effect every request happens at
\* once, at its commit, or not at all.
THEOREM Refinement == Spec => RefinesLedger
<1>1. Init => L!Init
  BY SameTerms DEF Init, L!Init
<1>2. Inv /\ ClockBounded /\ [Next]_vars => [L!Next]_(L!vars)
  BY StepRefines DEF ClockBounded
<1> QED
  BY <1>1, <1>2, Invariance, ClockStays, PTL DEF Spec, RefinesLedger, L!Spec

-----------------------------------------------------------------------------
(* What the steps of Ledger keep true *)

\* Appending to a reservation's events, of which there are one or two.
LEMMA Appended ==
    ASSUME NEW S, NEW x \in S, NEW y \in S
    PROVE  /\ Append(<<>>, x) = <<x>>
           /\ Append(<<x>>, y) = <<x, y>>
<1>1. ASSUME NEW s \in Seq(S), NEW t \in Seq(S), Len(s) = Len(t), \A i \in 1 .. Len(s) : s[i] = t[i]
      PROVE  s = t
  BY <1>1, SeqEqual
<1>2. Append(<<>>, x) = <<x>>
  <2>1. /\ Append(<<>>, x) \in Seq(S) /\ Len(Append(<<>>, x)) = 1 /\ Append(<<>>, x)[1] = x
    BY AppendProperties, <<>> \in Seq(S), Len(<<>>) = 0
  <2>2. <<x>> \in Seq(S) /\ Len(<<x>>) = 1 /\ <<x>>[1] = x
    OBVIOUS
  <2> QED
    BY <1>1, <2>1, <2>2
<1>3. Append(<<x>>, y) = <<x, y>>
  <2>1. /\ Append(<<x>>, y) \in Seq(S) /\ Len(Append(<<x>>, y)) = 2
        /\ Append(<<x>>, y)[1] = x /\ Append(<<x>>, y)[2] = y
    BY AppendProperties, <<x>> \in Seq(S), Len(<<x>>) = 1, <<x>>[1] = x
  <2>2. <<x, y>> \in Seq(S) /\ Len(<<x, y>>) = 2 /\ <<x, y>>[1] = x /\ <<x, y>>[2] = y
    OBVIOUS
  <2>3. \A i \in 1 .. 2 : Append(<<x>>, y)[i] = <<x, y>>[i]
    <3>1. \A i \in 1 .. 2 : i = 1 \/ i = 2
      OBVIOUS
    <3> QED
      BY <2>1, <2>2, <3>1, Zenon
  <2> QED
    BY <2>1, <2>2, <2>3, SeqEqual, Zenon
<1> QED
  BY <1>2, <1>3

HistoryInv ==
    /\ OneReservationPerKey
    /\ AnswersAgree
    /\ EventsTellHistory
    /\ CancelledInTime

\* A reservation is made under a new key and reference.
LEMMA ReserveKeeps ==
    ASSUME Inv, NEW k \in Keys, NEW b \in Bodies, NEW r \in References, L!Reserve(k, b, r), HistoryInv
    PROVE  HistoryInv'
<1> DEFINE made == [body |-> b, status |-> "confirmed", cancelledAt |-> None]
<1> USE DEF L!Reserve, L!Tell, L!Answer, HistoryInv
<1>1. /\ keys \in [Keys -> KeyRow \cup {None}]
      /\ reservations \in [References -> Reservation \cup {None}]
      /\ outbox \in [References -> Seq(Event)]
  BY DEF Inv, TypeOK
<1>2. /\ made # None
      /\ [hash |-> b, reservation |-> r] # None
  <2>1. made \in Reservation /\ [hash |-> b, reservation |-> r] \in KeyRow
    BY DEF Reservation, KeyRow
  <2> QED
    BY <2>1, NoneAssumption
<1>3. /\ reservations' = [reservations EXCEPT ![r] = made]
      /\ keys' = [keys EXCEPT ![k] = [hash |-> b, reservation |-> r]]
      /\ outbox' = [outbox EXCEPT ![r] = Append(@, Confirmed)]
      /\ reservations[r] = None /\ keys[k] = None /\ now' = now
  BY DEF Confirmed
<1>4. OneReservationPerKey'
  <2>1. \A j \in Keys : keys[j] = None \/ keys[j].reservation # r
    BY <1>3 DEF OneReservationPerKey
  <2>2. ASSUME NEW j \in Keys, keys'[j] # None
        PROVE  /\ reservations'[keys'[j].reservation] # None
               /\ reservations'[keys'[j].reservation].body = keys'[j].hash
    <3>1. CASE j = k
      BY <1>1, <1>2, <1>3, <3>1
    <3>2. CASE j # k
      <4>1. keys[j] # None /\ keys'[j] = keys[j] /\ keys[j].reservation \in References
        BY <1>1, <1>3, <2>2, <3>2 DEF KeyRow
      <4>2. reservations'[keys[j].reservation] = reservations[keys[j].reservation]
        BY <1>1, <1>3, <2>1, <4>1
      <4> QED
        BY <4>1, <4>2 DEF OneReservationPerKey
    <3> QED
      BY <3>1, <3>2
  <2>3. ASSUME NEW s \in References, reservations'[s] # None
        PROVE  \E i \in Keys : /\ keys'[i] # None /\ keys'[i].reservation = s
                               /\ \A j \in Keys \ {i} : keys'[j] = None \/ keys'[j].reservation # s
    <3>1. CASE s = r
      BY <1>1, <1>2, <1>3, <2>1, <3>1
    <3>2. CASE s # r
      <4>1. reservations[s] # None
        BY <1>1, <1>3, <2>3, <3>2
      <4>2. PICK i \in Keys : /\ keys[i] # None /\ keys[i].reservation = s
                              /\ \A j \in Keys \ {i} : keys[j] = None \/ keys[j].reservation # s
        BY <4>1 DEF OneReservationPerKey
      <4>3. i # k
        BY <1>3, <4>2
      <4>4. keys'[i] # None /\ keys'[i].reservation = s
        BY <1>1, <1>3, <4>2, <4>3
      <4>5. ASSUME NEW j \in Keys \ {i} PROVE keys'[j] = None \/ keys'[j].reservation # s
        BY <1>1, <1>3, <3>2, <4>2
      <4> QED
        BY <4>4, <4>5
    <3> QED
      BY <3>1, <3>2
  <2> QED
    BY <2>2, <2>3 DEF OneReservationPerKey
<1>5. AnswersAgree'
  <2>1. ASSUME NEW a \in answers
        PROVE  keys'[a.key] # None /\ keys'[a.key].reservation = a.reference
               /\ keys'[a.key].hash = a.body
    <3>1. a.key \in Keys /\ a.key # k
      BY <1>3 DEF Inv, TypeOK, AnswersAgree
    <3> QED
      BY <1>1, <1>3, <3>1 DEF AnswersAgree
  <2>2. \A a \in answers' : a \in answers \/ a = [key |-> k, body |-> b, reference |-> r]
    OBVIOUS
  <2> QED
    BY <1>1, <1>2, <1>3, <2>1, <2>2 DEF AnswersAgree
<1>6. EventsTellHistory'
  <2>1. outbox[r] = <<>>
    BY <1>3 DEF EventsTellHistory
  <2>2. outbox'[r] = <<Confirmed>>
    <3>1. outbox'[r] = Append(outbox[r], Confirmed)
      BY <1>1, <1>3
    <3> QED
      BY <2>1, <3>1, Appended, Confirmed \in Event DEF Confirmed, Event
  <2>3. reservations'[r] = made
    BY <1>1, <1>3
  <2>4. \A s \in References \ {r} : outbox'[s] = outbox[s] /\ reservations'[s] = reservations[s]
    BY <1>1, <1>3
  <2>5. made.status = "confirmed"
    OBVIOUS
  <2> HIDE DEF made
  <2> QED
    BY <1>2, <2>2, <2>3, <2>4, <2>5 DEF EventsTellHistory, CheckInTime
<1>7. CancelledInTime'
  BY <1>1, <1>2, <1>3 DEF CancelledInTime, CheckInTime
<1> QED
  BY <1>4, <1>5, <1>6, <1>7

\* A cancellation ends the history of its reservation.
LEMMA CancelKeeps ==
    ASSUME Inv, NEW r \in References, NEW at \in Nat, L!Cancel(r, at), HistoryInv
    PROVE  HistoryInv'
<1> DEFINE b == reservations[r].body
           ended == [body |-> b, status |-> "cancelled", cancelledAt |-> at]
           event == [type |-> "cancelled", refundable |-> L!Refundable(b, at)]
<1> USE DEF HistoryInv
<1>1. /\ reservations \in [References -> Reservation \cup {None}]
      /\ outbox \in [References -> Seq(Event)]
      /\ keys \in [Keys -> KeyRow \cup {None}]
  BY DEF Inv, TypeOK
<1>2. /\ reservations[r] # None /\ reservations[r].status = "confirmed"
      /\ at <= now /\ at < CheckInTime(b)
      /\ reservations' = [reservations EXCEPT ![r] = ended]
      /\ outbox' = [outbox EXCEPT ![r] = Append(@, event)]
      /\ keys' = keys /\ answers' = answers /\ now' = now
  BY DEF L!Cancel, L!Tell, CheckInTime
<1>3. b \in Bodies
  BY <1>1, <1>2 DEF Reservation
<1>4. ended # None
  <2>1. ended \in Reservation
    BY <1>3 DEF Reservation
  <2> QED
    BY <2>1, NoneAssumption
<1>5. /\ reservations'[r] = ended
      /\ \A s \in References \ {r} : reservations'[s] = reservations[s]
  BY <1>1, <1>2
<1>6. OneReservationPerKey'
  <2>1. \A s \in References : /\ reservations'[s] = None <=> reservations[s] = None
                              /\ reservations[s] # None => reservations'[s].body = reservations[s].body
    BY <1>2, <1>4, <1>5
  <2>2. \A k \in Keys : keys[k] # None => keys[k].reservation \in References
    BY <1>1 DEF KeyRow
  <2> QED
    BY <1>2, <2>1, <2>2 DEF OneReservationPerKey
<1>7. AnswersAgree'
  BY <1>2 DEF AnswersAgree
<1>8. EventsTellHistory'
  <2>1. outbox[r] = <<Confirmed>>
    BY <1>2 DEF EventsTellHistory
  <2>2. outbox'[r] = <<Confirmed, event>>
    <3>1. outbox'[r] = Append(outbox[r], event)
      BY <1>1, <1>2
    <3>2. event \in Event /\ Confirmed \in Event
      BY DEF L!Refundable, Event, Confirmed
    <3> QED
      BY <2>1, <3>1, <3>2, Appended
  <2>3. \A s \in References \ {r} : outbox'[s] = outbox[s]
    BY <1>1, <1>2
  <2>4. L!Refundable(b, at) = (at + RefundableFor[b.plan] < CheckInTime(b))
    <3>1. RefundableFor[b.plan] \in Int /\ CheckInTime(b) \in Int
      BY <1>3, BodiesAssumption, ClockAssumption DEF CheckInTime
    <3>2. L!Refundable(b, at) = (at < CheckInTime(b) - RefundableFor[b.plan])
      BY DEF L!Refundable, CheckInTime
    <3> HIDE DEF b
    <3> QED
      BY <3>1, <3>2
  <2>5. ended.status = "cancelled" /\ ended.cancelledAt = at /\ ended.body = b
    OBVIOUS
  <2> HIDE DEF b, ended
  <2>6. /\ reservations'[r] # None /\ reservations'[r].status # "confirmed"
        /\ reservations'[r].cancelledAt = at /\ reservations'[r].body = b
    BY <1>4, <1>5, <2>5
  <2>7. event = [type |-> "cancelled", refundable |->
                    reservations'[r].cancelledAt + RefundableFor[reservations'[r].body.plan]
                        < CheckInTime(reservations'[r].body)]
    BY <2>4, <2>6
  <2> HIDE DEF event
  <2> QED
    BY <1>5, <2>2, <2>3, <2>6, <2>7 DEF EventsTellHistory, CheckInTime
<1>9. CancelledInTime'
  BY <1>2, <1>4, <1>5 DEF CancelledInTime, CheckInTime
<1> QED
  BY <1>6, <1>7, <1>8, <1>9

LEMMA LedgerKeeps ==
    ASSUME Inv, HistoryInv, [L!Next]_(L!vars)
    PROVE  HistoryInv'
<1> USE DEF HistoryInv
<1>1. ASSUME NEW k \in Keys, NEW b \in Bodies, NEW r \in References, L!Reserve(k, b, r)
      PROVE  HistoryInv'
  BY <1>1, ReserveKeeps
<1>2. ASSUME NEW k \in Keys, L!Replay(k) PROVE HistoryInv'
  <2>1. AnswersAgree'
    BY <1>2 DEF L!Replay, L!Answer, AnswersAgree
  <2>2. UNCHANGED <<reservations, keys, outbox, now>>
    BY <1>2 DEF L!Replay
  <2> QED
    BY <2>1, <2>2 DEF OneReservationPerKey, EventsTellHistory, CancelledInTime,
                      CheckInTime
<1>3. ASSUME NEW r \in References, NEW at \in 0 .. MaxTime, L!Cancel(r, at) PROVE HistoryInv'
  BY <1>3, CancelKeeps
<1>4. CASE \E rows \in SUBSET L!Rows, rooms \in {Int16(i.allotment) : i \in PublishInputs} :
               L!Publish(rows, rooms)
  <2>1. UNCHANGED <<reservations, keys, outbox, now, answers>>
    BY <1>4 DEF L!Publish
  <2> QED
    BY <2>1 DEF OneReservationPerKey, AnswersAgree, EventsTellHistory, CancelledInTime,
                CheckInTime
<1>5. CASE L!Tick
  <2>1. UNCHANGED <<reservations, keys, outbox, answers>> /\ now' = now + 1
    BY <1>5 DEF L!Tick
  <2>2. CancelledInTime'
    <3>1. \A s \in References : reservations[s] # None /\ reservations[s].status # "confirmed"
              => reservations[s].cancelledAt \in Nat
      BY DEF CancelledInTime
    <3> QED
      BY <2>1, <3>1 DEF CancelledInTime, CheckInTime, Inv, TypeOK
  <2> QED
    BY <2>1, <2>2 DEF OneReservationPerKey, AnswersAgree, EventsTellHistory, CheckInTime
<1>6. CASE UNCHANGED L!vars
  BY <1>6 DEF L!vars, OneReservationPerKey, AnswersAgree, EventsTellHistory, CancelledInTime,
              CheckInTime
<1> QED
  BY <1>1, <1>2, <1>3, <1>4, <1>5, <1>6 DEF L!Next

LEMMA HistoryInvariance == Spec => []HistoryInv
<1>1. Init => HistoryInv
  BY DEF Init, HistoryInv, OneReservationPerKey, AnswersAgree, EventsTellHistory, CancelledInTime
<1>2. Inv /\ ClockBounded /\ HistoryInv /\ [Next]_vars => HistoryInv'
  BY StepRefines, LedgerKeeps DEF ClockBounded
<1> QED
  BY <1>1, <1>2, Invariance, ClockStays, PTL DEF Spec

\* A key names one reservation, of the body it came with, and a reservation
\* has one key, however often and wherever a request is retried.
THEOREM KeysAreFaithful == Spec => []OneReservationPerKey
BY HistoryInvariance, PTL DEF HistoryInv

\* All answers to a key name the reservation that the database keeps for it.
THEOREM AnswersAreTrue == Spec => []AnswersAgree
BY HistoryInvariance, PTL DEF HistoryInv

\* The outbox has the events of what was committed, in order, and no others,
\* each with the refund that the plan promises.
THEOREM EventsAreTrue == Spec => []EventsTellHistory
BY HistoryInvariance, PTL DEF HistoryInv

\* No reservation is cancelled after its stay has begun.
THEOREM CancelledBeforeTheStay == Spec => []CancelledInTime
BY HistoryInvariance, PTL DEF HistoryInv

\* Nothing that was committed is taken back or changed by a request that read
\* it before.
THEOREM NothingTakenBack == Spec => HistoryKept
<1>1. Inv /\ ClockBounded /\ [Next]_vars => [History]_vars
  <2> SUFFICES ASSUME Inv, ClockBounded, [Next]_vars PROVE History
    OBVIOUS
  <2>1. /\ keys \in [Keys -> KeyRow \cup {None}]
        /\ reservations \in [References -> Reservation \cup {None}]
    BY DEF Inv, TypeOK
  <2>2. ASSUME NEW k \in Keys, NEW b \in Bodies, NEW r \in References, L!Reserve(k, b, r)
        PROVE  History
    <3>1. [body |-> b, status |-> "confirmed", cancelledAt |-> None] \in Reservation
      BY DEF Reservation
    <3> QED
      BY <2>1, <2>2, <3>1, NoneAssumption DEF L!Reserve, History
  <2>3. ASSUME NEW r \in References, NEW at \in 0 .. MaxTime, L!Cancel(r, at)
        PROVE  History
    <3>1. reservations[r] \in Reservation
      BY <2>1, <2>3 DEF L!Cancel
    <3>2. [body |-> reservations[r].body, status |-> "cancelled", cancelledAt |-> at]
              \in Reservation
      BY <3>1 DEF Reservation
    <3> QED
      BY <2>1, <2>3, <3>2, NoneAssumption DEF L!Cancel, History
  <2>4. CASE UNCHANGED <<keys, reservations>>
    BY <2>4 DEF History
  <2>5. [L!Next]_(L!vars)
    BY StepRefines DEF ClockBounded
  <2>6. \/ \E k \in Keys, b \in Bodies, r \in References : L!Reserve(k, b, r)
        \/ \E r \in References, at \in 0 .. MaxTime : L!Cancel(r, at)
        \/ UNCHANGED <<keys, reservations>>
    BY <2>5 DEF L!Next, L!vars, L!Replay, L!Publish, L!Tick
  <2> QED
    BY <2>2, <2>3, <2>4, <2>6
<1> QED
  BY <1>1, Invariance, ClockStays, PTL DEF Spec, HistoryKept
=============================================================================
