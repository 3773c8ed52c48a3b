---------------------------- MODULE RatesProofs ----------------------------
(***************************************************************************)
(* Inv is an invariant of Rates, for any number of requests and any        *)
(* bodies; only bodies out of the order of dates wait in a circle; and the *)
(* upserts implement RateCalendar.                                         *)
(***************************************************************************)
EXTENDS RatesInvariant, Orders, FunctionTheorems

-----------------------------------------------------------------------------
(* Entries and rows *)

\* A body is a sequence of entries.
LEMMA BodyEntries ==
    ASSUME NEW body \in Bodies
    PROVE  /\ Len(body) \in Nat /\ DOMAIN body = 1 .. Len(body)
           /\ \A i \in DOMAIN body : body[i] \in Entries
BY RequestsAssumption

\* An accepted entry has a date, a price and a minimum stay; its row has the
\* price, and the minimum stay if that fits in 16 bits.
LEMMA RowOfEntry ==
    ASSUME NEW entry \in Entries, EntryAccepted(entry)
    PROVE  /\ entry.date \in Dates
           /\ Row(entry).price = Decoded(entry.price) /\ Row(entry).price \in Nat
           /\ Row(entry).minStay \in Int /\ Row(entry).minStay <= MaxMinStay
           /\ entry.minStay \in Nat
           /\ entry.minStay <= MaxMinStay => Row(entry).minStay = entry.minStay
           /\ RowAccepted(Row(entry)) => Row(entry) \in RateRow
<1>1. Decoded(entry.price) \in Int /\ Decoded(entry.minStay) \in Int
  BY DEF Decoded, Entries
<1>2. /\ Decoded(entry.price) \in Nat
      /\ entry.minStay \in Nat /\ Decoded(entry.minStay) = entry.minStay /\ entry.minStay >= 1
      /\ entry.date \in Dates
  BY <1>1 DEF EntryAccepted, Decoded, Entries
<1>3. /\ Int16(entry.minStay) \in Int /\ Int16(entry.minStay) <= MaxMinStay
      /\ entry.minStay <= MaxMinStay => Int16(entry.minStay) = entry.minStay
      /\ MaxMinStay \in Nat
  BY <1>2 DEF Int16, MaxMinStay
<1>4. Row(entry) = [price |-> Decoded(entry.price), minStay |-> Int16(entry.minStay),
                    closedToArrival |-> FALSE, closedToDeparture |-> FALSE]
  BY <1>2 DEF Row, Rate
<1>5. Row(entry).price = Decoded(entry.price) /\ Row(entry).minStay = Int16(entry.minStay)
  BY <1>4
<1>6. RowAccepted(Row(entry)) => Int16(entry.minStay) \in 1 .. MaxMinStay
  BY <1>3, <1>5 DEF RowAccepted
<1>7. RowAccepted(Row(entry)) => Row(entry) \in RateRow
  BY <1>2, <1>4, <1>6 DEF RateRow
<1> QED
  BY <1>2, <1>3, <1>5, <1>7

-----------------------------------------------------------------------------
(* Every step preserves Inv *)

Untouched(q) ==
    pc'[q] = pc[q] /\ request'[q] = request[q] /\ done'[q] = done[q] /\ held'[q] = held[q]

LEMMA UpsertKept ==
    ASSUME NEW q \in Procs, UpsertInv(q), Untouched(q)
    PROVE  UpsertInv(q)'
BY DEF UpsertInv, Untouched, Done

\* A request that is answered holds nothing.
LEMMA EndInv ==
    ASSUME Inv, NEW p \in Procs, NEW status \in {None, "204", "400", "404", "500"}, End(p, status),
           calendar' \in [RatePlans -> [Dates -> RateRow \cup {NoRate}]]
    PROVE  Inv'
<1>1. pc'[p] = "idle" /\ request'[p] = NoRequest /\ done'[p] = 0 /\ held'[p] = {}
  BY DEF End, Inv
<1>2. \A q \in Procs \ {p} : Untouched(q)
  BY DEF End, Inv, Untouched
<1>3. \A q \in Procs : UpsertInv(q)'
  <2>1. UpsertInv(p)'
    BY <1>1 DEF UpsertInv
  <2> QED
    BY <1>2, <2>1, UpsertKept DEF Inv
<1>4. LocksExclusive'
  BY <1>1, <1>2 DEF Inv, LocksExclusive, Untouched
<1>5. /\ pc' \in [Procs -> {"idle", "upsert"}]
      /\ request' \in [Procs -> [plan: RatePlans \cup {None}, body: Bodies \cup {<<>>}]]
      /\ done' \in [Procs -> Nat]
      /\ held' \in [Procs -> SUBSET (RatePlans \X Dates)]
      /\ answer' \in [Procs -> {None, "204", "400", "404", "500"}]
  BY DEF End, Inv, NoRequest
<1> QED
  BY <1>3, <1>4, <1>5 DEF Inv

\* A request is refused, or begins its upsert.
LEMMA ArriveInv ==
    ASSUME Inv, NEW p \in Procs, Arrive(p)
    PROVE  Inv'
<1>1. PICK plan \in RatePlans \cup {UnknownPlan}, body \in Bodies :
          /\ pc[p] = "idle"
          /\ IF Refusal(plan, body) # None
             THEN /\ answer' = [answer EXCEPT ![p] = Refusal(plan, body)]
                  /\ UNCHANGED <<pc, request>>
             ELSE /\ answer' = [answer EXCEPT ![p] = None]
                  /\ request' = [request EXCEPT ![p] = [plan |-> plan, body |-> body]]
                  /\ pc' = [pc EXCEPT ![p] = "upsert"]
          /\ UNCHANGED <<calendar, done, held>>
  BY DEF Arrive
<1>2. CASE Refusal(plan, body) # None
  <2>1. Refusal(plan, body) \in {"400", "404"}
    BY <1>2 DEF Refusal
  <2>2. \A q \in Procs : Untouched(q)
    BY <1>1, <1>2 DEF Untouched
  <2> QED
    BY <1>1, <1>2, <2>1, <2>2, UpsertKept DEF Inv, LocksExclusive
<1>3. CASE Refusal(plan, body) = None
  <2>1. body # <<>> /\ plan \in RatePlans /\ \A i \in DOMAIN body : EntryAccepted(body[i])
    BY <1>3, NoneAssumption DEF Refusal
  <2>2. /\ answer' = [answer EXCEPT ![p] = None]
        /\ request' = [request EXCEPT ![p] = [plan |-> plan, body |-> body]]
        /\ pc' = [pc EXCEPT ![p] = "upsert"]
        /\ UNCHANGED <<calendar, done, held>>
    BY <1>1, <1>3
  <2>3. done[p] = 0 /\ held[p] = {}
    BY <1>1 DEF Inv, UpsertInv
  <2>4. UpsertInv(p)'
    <3>1. pc'[p] = "upsert" /\ request'[p] = [plan |-> plan, body |-> body] /\ done'[p] = 0 /\ held'[p] = {}
      BY <2>2, <2>3 DEF Inv
    <3>2. Done(p)' = {}
      BY <3>1 DEF Done
    <3> QED
      BY <2>1, <3>1, <3>2, BodyEntries DEF UpsertInv
  <2>5. \A q \in Procs \ {p} : Untouched(q)
    BY <2>2 DEF Inv, Untouched
  <2>6. \A q \in Procs : UpsertInv(q)'
    BY <2>4, <2>5, UpsertKept DEF Inv
  <2>7. LocksExclusive'
    BY <2>2 DEF Inv, LocksExclusive
  <2> QED
    BY <2>1, <2>2, <2>6, <2>7 DEF Inv
<1> QED
  BY <1>2, <1>3

\* The entry whose turn it is.
LEMMA PendingEntry ==
    ASSUME Inv, NEW p \in Procs, pc[p] = "upsert", NEW i \in Pending(p)
    PROVE  /\ i = done[p] + 1 /\ i \in DOMAIN request[p].body
           /\ request[p].body[i] \in Entries /\ EntryAccepted(request[p].body[i])
<1>1. request[p].body \in Bodies /\ done[p] \in Nat
  BY DEF Inv, UpsertInv
<1>2. i = done[p] + 1 /\ done[p] < Len(request[p].body)
  BY DEF Pending
<1>3. i \in DOMAIN request[p].body
  BY <1>1, <1>2, BodyEntries
<1> QED
  BY <1>1, <1>2, <1>3, BodyEntries DEF Inv, UpsertInv

\* One more row.
LEMMA UpsertStepInv ==
    ASSUME Inv, NEW p \in Procs, Upsert(p)
    PROVE  Inv'
<1> DEFINE body == request[p].body
           plan == request[p].plan
<1>1. pc[p] = "upsert"
  BY DEF Upsert
<1>2. CASE End(p, "500") /\ UNCHANGED calendar
  BY <1>2, EndInv DEF Inv
<1>3. CASE \E i \in Pending(p) :
              /\ RowAccepted(Row(body[i])) /\ MayTouch(p, <<plan, body[i].date>>)
              /\ \A q \in Procs \ {p} : <<plan, body[i].date>> \notin held[q]
              /\ done' = [done EXCEPT ![p] = @ + 1]
              /\ held' = [held EXCEPT ![p] = @ \cup {<<plan, body[i].date>>}]
              /\ UNCHANGED <<calendar, pc, request, answer>>
  <2>1. PICK i \in Pending(p) :
              /\ RowAccepted(Row(body[i])) /\ MayTouch(p, <<plan, body[i].date>>)
              /\ \A q \in Procs \ {p} : <<plan, body[i].date>> \notin held[q]
              /\ done' = [done EXCEPT ![p] = @ + 1]
              /\ held' = [held EXCEPT ![p] = @ \cup {<<plan, body[i].date>>}]
              /\ UNCHANGED <<calendar, pc, request, answer>>
    BY <1>3
  <2>2. /\ i = done[p] + 1 /\ i \in DOMAIN body
        /\ body[i] \in Entries /\ EntryAccepted(body[i])
    BY <1>1, PendingEntry
  <2>3. body \in Bodies /\ plan \in RatePlans /\ done[p] \in Nat /\ Len(body) \in Nat
        /\ DOMAIN body = 1 .. Len(body)
    BY <1>1, BodyEntries DEF Inv, UpsertInv
  <2>4. body[i].date \in Dates
    BY <2>2, RowOfEntry
  <2>5. /\ done'[p] = i /\ held'[p] = held[p] \cup {<<plan, body[i].date>>}
        /\ pc'[p] = "upsert" /\ request'[p] = request[p]
        /\ \A q \in Procs \ {p} : Untouched(q)
    BY <1>1, <2>1, <2>2 DEF Inv, Untouched
  <2>6. Done(p)' = Done(p) \cup {i}
    BY <2>2, <2>3, <2>5 DEF Done
  <2>7. /\ held[p] = {<<plan, body[j].date>> : j \in Done(p)}
        /\ \A j, k \in Done(p) : body[j].date = body[k].date => j = k
        /\ \A j \in Done(p) : RowAccepted(Row(body[j]))
        /\ \A j \in DOMAIN body : EntryAccepted(body[j])
        /\ body # <<>>
    BY <1>1 DEF Inv, UpsertInv
  <2>8. \A j \in Done(p) : body[j].date # body[i].date
    BY <2>1, <2>7 DEF MayTouch
  <2>9. UpsertInv(p)'
    <3>1. held'[p] = {<<plan, body[j].date>> : j \in Done(p)'}
      BY <2>5, <2>6, <2>7
    <3>2. \A j, k \in Done(p)' : body[j].date = body[k].date => j = k
      BY <2>6, <2>7, <2>8
    <3>3. \A j \in Done(p)' : RowAccepted(Row(body[j]))
      BY <2>1, <2>6, <2>7
    <3>4. done'[p] \in 0 .. Len(body)
      BY <2>2, <2>3, <2>5
    <3> QED
      BY <2>3, <2>5, <2>7, <3>1, <3>2, <3>3, <3>4 DEF UpsertInv
  <2>10. \A q \in Procs : UpsertInv(q)'
    BY <2>5, <2>9, UpsertKept DEF Inv
  <2>11. LocksExclusive'
    <3>1. \A q \in Procs : q # p => held'[q] = held[q] /\ held[q] \cap held[p] = {}
      BY <2>5 DEF Inv, LocksExclusive, Untouched
    <3>2. \A q \in Procs : q # p => held'[q] \cap held'[p] = {}
      BY <2>1, <2>5, <3>1
    <3>3. \A q, r \in Procs : q # r /\ q # p /\ r # p => held'[q] \cap held'[r] = {}
      BY <3>1 DEF Inv, LocksExclusive
    <3> QED
      BY <3>2, <3>3 DEF LocksExclusive
  <2>12. done' \in [Procs -> Nat] /\ held' \in [Procs -> SUBSET (RatePlans \X Dates)]
    BY <2>1, <2>3, <2>4 DEF Inv
  <2> QED
    BY <2>1, <2>10, <2>11, <2>12 DEF Inv
<1> QED
  BY <1>2, <1>3 DEF Upsert

\* What is published is the row of each entry.
LEMMA PublishedRows ==
    ASSUME Inv, NEW p \in Procs, pc[p] = "upsert", Pending(p) = {}
    PROVE  LET body == request[p].body IN
           /\ body \in Bodies /\ request[p].plan \in RatePlans
           /\ DOMAIN Published(body) = {body[i].date : i \in DOMAIN body}
           /\ \A i \in DOMAIN body : /\ Published(body)[body[i].date] = Row(body[i])
                                     /\ Row(body[i]) \in RateRow
                                     /\ body[i] \in Entries /\ EntryAccepted(body[i])
                                     /\ body[i].date \in Dates
           /\ Publishable(body)
<1> DEFINE body == request[p].body
<1>1. /\ body \in Bodies /\ body # <<>> /\ request[p].plan \in RatePlans
      /\ done[p] \in 0 .. Len(body)
      /\ Len(body) \in Nat /\ DOMAIN body = 1 .. Len(body)
      /\ \A i \in DOMAIN body : body[i] \in Entries /\ EntryAccepted(body[i])
  BY BodyEntries DEF Inv, UpsertInv
<1>2. Done(p) = DOMAIN body
  <2>1. ~(done[p] < Len(request[p].body))
    BY DEF Pending
  <2>2. done[p] = Len(body)
    BY <1>1, <2>1
  <2> QED
    BY <1>1, <2>2 DEF Done
<1>3. /\ \A i, j \in DOMAIN body : body[i].date = body[j].date => i = j
      /\ \A i \in DOMAIN body : RowAccepted(Row(body[i]))
  BY <1>2 DEF Inv, UpsertInv
<1>4. DOMAIN Published(body) = {body[i].date : i \in DOMAIN body}
  BY DEF Published
<1>5. ASSUME NEW i \in DOMAIN body PROVE Published(body)[body[i].date] = Row(body[i])
  <2> DEFINE d == body[i].date
             last == CHOOSE k \in DOMAIN body :
                        /\ body[k].date = d
                        /\ \A j \in DOMAIN body : body[j].date = d => j <= k
  <2>1. Published(body)[d] = Row(body[last])
    BY DEF Published
  <2>2. \A j \in DOMAIN body : body[j].date = d => j <= i
    BY <1>1, <1>3
  <2>3. last \in DOMAIN body /\ body[last].date = d
    BY <2>2
  <2>4. last = i
    <3> HIDE DEF last
    <3> QED
      BY <1>3, <2>3
  <2> HIDE DEF last
  <2> QED
    BY <2>1, <2>4
<1>6. ASSUME NEW i \in DOMAIN body
      PROVE  /\ Row(body[i]) \in RateRow /\ body[i].date \in Dates
             /\ Row(body[i]).minStay \in 1 .. MaxMinStay
  <2> DEFINE entry == body[i]
  <2>1. entry \in Entries /\ EntryAccepted(entry) /\ RowAccepted(Row(entry))
    BY <1>1, <1>3
  <2> HIDE DEF entry
  <2>2. Row(entry) \in RateRow /\ entry.date \in Dates
    BY <2>1, RowOfEntry
  <2>3. Row(entry).minStay \in 1 .. MaxMinStay
    BY <2>2 DEF RateRow
  <2> QED
    BY <2>2, <2>3 DEF entry
<1> HIDE DEF body
<1>7. Publishable(body)
  BY <1>1, <1>3, <1>6 DEF Publishable
<1> QED
  BY <1>1, <1>4, <1>5, <1>6, <1>7 DEF body

\* The whole body, or nothing.
LEMMA CommitInv ==
    ASSUME Inv, NEW p \in Procs, Commit(p)
    PROVE  Inv'
<1> DEFINE body == request[p].body
           plan == request[p].plan
           new  == Published(body)
<1>1. PICK status \in {"204", "500", None} : End(p, status)
  BY DEF Commit
<1>2. /\ plan \in RatePlans
      /\ \A d \in DOMAIN new : new[d] \in RateRow
  <2>1. pc[p] = "upsert" /\ Pending(p) = {}
    BY DEF Commit
  <2>2. /\ plan \in RatePlans
        /\ DOMAIN new = {body[i].date : i \in DOMAIN body}
        /\ \A i \in DOMAIN body : new[body[i].date] = Row(body[i]) /\ Row(body[i]) \in RateRow
    BY <2>1, PublishedRows
  <2> HIDE DEF new
  <2> QED
    BY <2>2
<1>3. calendar' = [calendar EXCEPT ![plan] = [d \in Dates |-> IF d \in DOMAIN new THEN new[d] ELSE @[d]]]
  BY DEF Commit
<1> HIDE DEF new
<1>4. calendar' \in [RatePlans -> [Dates -> RateRow \cup {NoRate}]]
  BY <1>2, <1>3 DEF Inv
<1> QED
  BY <1>1, <1>4, EndInv

LEMMA NextInv == Inv /\ [Next]_vars => Inv'
<1> SUFFICES ASSUME Inv, [Next]_vars PROVE Inv'
  OBVIOUS
<1>1. ASSUME NEW p \in Procs, Fail(p) \/ BreakDeadlock(p) PROVE Inv'
  <2>1. PICK status \in {"500", None} : End(p, status) /\ UNCHANGED calendar
    BY <1>1 DEF Fail, BreakDeadlock
  <2> QED
    BY <2>1, EndInv DEF Inv
<1>2. CASE UNCHANGED vars
  BY <1>2 DEF vars, Inv, UpsertInv, Done, LocksExclusive
<1> QED
  BY <1>1, <1>2, ArriveInv, UpsertStepInv, CommitInv DEF Next

\* Inv holds in every reachable state of any instance of Rates.
THEOREM RatesInvariance == Spec => []Inv
<1>1. Init => Inv
  BY DEF Init, Inv, UpsertInv, LocksExclusive, NoRequest
<1>2. Inv /\ [Next]_vars => Inv'
  BY NextInv
<1> QED
  BY <1>1, <1>2, PTL DEF Spec

\* A request has locked as many rows as it has done entries: their dates differ.
LEMMA RowsCounted ==
    ASSUME Inv, NEW p \in Procs
    PROVE  Cardinality(held[p]) = done[p]
<1>1. CASE pc[p] = "idle"
  BY <1>1, FS_EmptySet DEF Inv, UpsertInv
<1>2. CASE pc[p] # "idle"
  <2> DEFINE row == [i \in Done(p) |-> <<request[p].plan, request[p].body[i].date>>]
  <2>1. /\ held[p] = {<<request[p].plan, request[p].body[i].date>> : i \in Done(p)}
        /\ \A i, j \in Done(p) : request[p].body[i].date = request[p].body[j].date => i = j
        /\ done[p] \in Nat
    BY <1>2 DEF Inv, UpsertInv
  <2>2. row \in Bijection(Done(p), held[p])
    <3>1. row \in [Done(p) -> held[p]]
      BY <2>1
    <3>2. \A i, j \in Done(p) : row[i] = row[j] => i = j
      BY <2>1
    <3>3. \A r \in held[p] : \E i \in Done(p) : row[i] = r
      BY <2>1
    <3> HIDE DEF row
    <3> QED
      BY <3>1, <3>2, <3>3, Fun_IsBij
  <2>3. IsFiniteSet(Done(p)) /\ Cardinality(Done(p)) = done[p]
    <3>1. 1 \in Int /\ done[p] \in Int
      BY <2>1
    <3>2. IsFiniteSet(1 .. done[p])
      BY <3>1, FS_Interval
    <3>3. Cardinality(1 .. done[p]) = IF 1 > done[p] THEN 0 ELSE done[p] - 1 + 1
      BY <3>1, FS_Interval
    <3> QED
      BY <2>1, <3>2, <3>3 DEF Done
  <2>4. ExistsBijection(Done(p), held[p])
    BY <2>2 DEF ExistsBijection
  <2> QED
    BY <2>3, <2>4, FS_Bijection
<1> QED
  BY <1>1, <1>2

\* Every reachable state of any instance of Rates is a state of the code.
THEOREM RatesTypeCorrect == Spec => []TypeOK
<1>1. Inv => TypeOK
  <2> SUFFICES ASSUME Inv PROVE TypeOK
    OBVIOUS
  <2>1. \A plan \in RatePlans, d \in Dates :
           \/ calendar[plan][d] = NoRate
           \/ calendar[plan][d].price \in Nat /\ calendar[plan][d].minStay \in 1 .. MaxMinStay
    <3> SUFFICES ASSUME NEW plan \in RatePlans, NEW d \in Dates, calendar[plan][d] # NoRate
                 PROVE  /\ calendar[plan][d].price \in Nat
                        /\ calendar[plan][d].minStay \in 1 .. MaxMinStay
      OBVIOUS
    <3>1. calendar[plan][d] \in RateRow
      BY DEF Inv
    <3> QED
      BY <3>1 DEF RateRow
  <2>2. \A p \in Procs : /\ held[p] \subseteq RatePlans \X Dates
                         /\ pc[p] = "idle" => held[p] = {} /\ request[p] = NoRequest
    BY DEF Inv, UpsertInv
  <2> QED
    BY <2>1, <2>2, RowsCounted DEF Inv, TypeOK
<1> QED
  BY <1>1, RatesInvariance, PTL

-----------------------------------------------------------------------------
(* Circles *)

\* The date of the entry whose turn it is.
NextDate(p) == request[p].body[done[p] + 1].date

\* A request waits only when it has an entry left, for a row that another holds.
LEMMA WaitingEntry ==
    ASSUME Inv, NEW p \in Procs, NEW q \in Procs, Waits(p, q)
    PROVE  /\ p # q /\ pc[p] = "upsert" /\ pc[q] = "upsert"
           /\ done[p] + 1 \in DOMAIN request[p].body
           /\ NextDate(p) \in Int
           /\ <<request[p].plan, NextDate(p)>> \in held[q]
<1>1. PICK i \in Pending(p) : <<request[p].plan, request[p].body[i].date>> \in held[q]
  BY DEF Waits
<1>2. pc[p] = "upsert" /\ p # q
  BY DEF Waits
<1>3. /\ i = done[p] + 1 /\ i \in DOMAIN request[p].body
      /\ request[p].body[i] \in Entries /\ EntryAccepted(request[p].body[i])
  BY <1>2, PendingEntry
<1>4. request[p].body[i].date \in Int
  BY <1>3, RowOfEntry, RequestsAssumption
<1>5. pc[q] = "upsert"
  BY <1>1 DEF Inv, UpsertInv
<1> QED
  BY <1>1, <1>2, <1>3, <1>4, <1>5 DEF NextDate

\* In a circle of requests in the order of dates, each waits for one that has
\* come to a later date.
LEMMA LaterDate ==
    ASSUME Inv, NEW p \in Procs, NEW q \in Procs, NEW s \in Procs,
           Waits(p, q), Waits(q, s), InDateOrder(request[q].body)
    PROVE  NextDate(p) < NextDate(q)
<1> DEFINE body == request[q].body
           next == done[q] + 1
<1>1. /\ pc[q] = "upsert" /\ next \in DOMAIN body
      /\ NextDate(p) \in Int /\ NextDate(q) \in Int
      /\ <<request[p].plan, NextDate(p)>> \in held[q]
      /\ q # s /\ <<request[q].plan, NextDate(q)>> \in held[s]
  BY WaitingEntry
<1>2. /\ held[q] = {<<request[q].plan, body[i].date>> : i \in Done(q)}
      /\ done[q] \in Nat /\ Len(body) \in Nat /\ DOMAIN body = 1 .. Len(body)
  BY <1>1, BodyEntries DEF Inv, UpsertInv
<1>3. PICK i \in Done(q) : NextDate(p) = body[i].date
  BY <1>1, <1>2
<1>4. i \in DOMAIN body /\ i < next
  BY <1>1, <1>2 DEF Done
<1>5. NextDate(p) <= NextDate(q)
  BY <1>1, <1>3, <1>4 DEF InDateOrder, NextDate
<1>6. NextDate(p) # NextDate(q)
  <2> SUFFICES ASSUME NextDate(p) = NextDate(q) PROVE FALSE
    OBVIOUS
  <2>1. <<request[q].plan, NextDate(q)>> \in held[q]
    BY <1>2, <1>3
  <2> QED
    BY <1>1, <2>1 DEF Inv, LocksExclusive
<1> QED
  BY <1>1, <1>5, <1>6

\* However many requests meet, they wait for each other in a circle only if the
\* body of one lists a later date before an earlier one.
THEOREM OnlyDisorderCircles == Spec => []OnlyDisorderDeadlocks
<1>1. Inv => OnlyDisorderDeadlocks
  <2> SUFFICES ASSUME Inv, NEW ps \in SUBSET Procs, Circle(ps),
                      \A p \in ps : InDateOrder(request[p].body)
               PROVE  FALSE
    BY DEF OnlyDisorderDeadlocks
  <2> DEFINE rank == [p \in ps |-> NextDate(p)]
  <2>1. ps # {} /\ \A p \in ps : \E q \in ps : Waits(p, q)
    BY DEF Circle
  <2>2. rank \in [ps -> Int]
    BY <2>1, WaitingEntry
  <2>3. IsFiniteSet(ps)
    BY RequestsAssumption, FS_Subset
  <2>4. PICK p \in ps : \A q \in ps : rank[q] <= rank[p]
    <3> HIDE DEF rank
    <3> QED
      BY <2>1, <2>2, <2>3, HighestRank
  <2>5. PICK q \in ps : Waits(p, q)
    BY <2>1
  <2>6. PICK s \in ps : Waits(q, s)
    BY <2>1
  <2>7. NextDate(p) < NextDate(q)
    BY <2>5, <2>6, LaterDate
  <2>8. rank[q] <= rank[p] /\ NextDate(p) \in Int /\ NextDate(q) \in Int
    BY <2>2, <2>4
  <2> QED
    BY <2>7, <2>8
<1> QED
  BY <1>1, RatesInvariance, PTL

-----------------------------------------------------------------------------
(* What is published *)

\* A commit publishes the whole body.
LEMMA CommitPublishes ==
    ASSUME Inv, NEW p \in Procs, Commit(p)
    PROVE  /\ pc[p] = "upsert" /\ request[p].plan \in RatePlans
           /\ request[p].body \in Bodies /\ Publishable(request[p].body)
           /\ Calendar!Publish(request[p].plan, Published(request[p].body))
           /\ \A i \in DOMAIN request[p].body :
                  Says(request[p].body[i], calendar'[request[p].plan][request[p].body[i].date])
<1> DEFINE body == request[p].body
           plan == request[p].plan
           new  == Published(body)
<1>1. pc[p] = "upsert" /\ Pending(p) = {}
  BY DEF Commit
<1>2. /\ plan \in RatePlans /\ body \in Bodies /\ Publishable(body)
      /\ DOMAIN new = {body[i].date : i \in DOMAIN body}
      /\ \A i \in DOMAIN body : /\ new[body[i].date] = Row(body[i])
                                /\ body[i] \in Entries /\ EntryAccepted(body[i])
                                /\ body[i].date \in Dates
  BY <1>1, PublishedRows
<1>3. calendar' = [calendar EXCEPT ![plan] = [d \in Dates |-> IF d \in DOMAIN new THEN new[d] ELSE @[d]]]
  BY DEF Commit
<1> HIDE DEF new
<1>4. ASSUME NEW i \in DOMAIN body PROVE Says(body[i], calendar'[plan][body[i].date])
  <2> DEFINE entry == body[i]
  <2>1. calendar'[plan][entry.date] = Row(entry)
    BY <1>2, <1>3 DEF Inv
  <2>2. entry \in Entries /\ EntryAccepted(entry)
    BY <1>2
  <2> HIDE DEF entry
  <2>3. /\ Row(entry).price = Decoded(entry.price) /\ Decoded(entry.minStay) = entry.minStay
        /\ entry.minStay <= MaxMinStay => Row(entry).minStay = entry.minStay
    BY <2>2, RowOfEntry, NoneAssumption DEF Decoded
  <2>4. Says(entry, calendar'[plan][entry.date])
    BY <2>1, <2>3 DEF Says
  <2> QED
    BY <2>4 DEF entry
<1>5. Calendar!Publish(plan, new)
  BY <1>3 DEF Calendar!Publish
<1> QED
  BY <1>1, <1>2, <1>4, <1>5 DEF new

\* Nothing else changes the calendar, and no other step ends an upsert with 204.
LEMMA OnlyCommitPublishes ==
    ASSUME Inv, [Next]_vars
    PROVE  \/ \E p \in Procs : /\ Commit(p)
                               /\ Ends(p) /\ answer'[p] \in {"204", "500", None}
                               /\ \A q \in Procs \ {p} : ~Ends(q)
           \/ /\ UNCHANGED calendar
              /\ \A q \in Procs : ~(Ends(q) /\ answer'[q] = "204")
<1>1. ASSUME NEW p \in Procs, NEW status \in {"500", None}, End(p, status)
      PROVE  \A q \in Procs : ~(Ends(q) /\ answer'[q] = "204")
  BY <1>1, NoneAssumption DEF End, Ends, Inv
<1>2. ASSUME NEW p \in Procs, Arrive(p)
      PROVE  /\ UNCHANGED calendar
             /\ \A q \in Procs : ~Ends(q)
  BY <1>2 DEF Arrive, Ends, Inv
<1>3. ASSUME NEW p \in Procs, Upsert(p)
      PROVE  UNCHANGED calendar /\ (End(p, "500") \/ UNCHANGED pc)
  BY <1>3 DEF Upsert
<1>4. ASSUME NEW p \in Procs, Fail(p) \/ BreakDeadlock(p)
      PROVE  UNCHANGED calendar /\ \E status \in {"500", None} : End(p, status)
  BY <1>4 DEF Fail, BreakDeadlock
<1>5. ASSUME NEW p \in Procs, Commit(p)
      PROVE  /\ Ends(p) /\ answer'[p] \in {"204", "500", None}
             /\ \A q \in Procs \ {p} : ~Ends(q)
  BY <1>5 DEF Commit, End, Ends, Inv
<1>6. CASE UNCHANGED vars
  BY <1>6 DEF vars, Ends
<1>7. CASE Next
  <2>1. PICK p \in Procs : Arrive(p) \/ Upsert(p) \/ Commit(p) \/ Fail(p) \/ BreakDeadlock(p)
    BY <1>7 DEF Next
  <2>2. CASE Upsert(p)
    BY <1>1, <1>3, <2>2 DEF Ends
  <2>3. CASE Fail(p) \/ BreakDeadlock(p)
    BY <1>1, <1>4, <2>3
  <2> QED
    BY <1>2, <1>5, <2>1, <2>2, <2>3
<1> QED
  BY <1>6, <1>7

\* A request is answered 204 only when each of its entries is what the calendar
\* says. The calendar changes only to the whole of the body of one request, which
\* may be answered 500 or not at all, but is never refused.
THEOREM AnswersHonest == Spec => AnswerMeansPublished
<1> DEFINE Step ==
        /\ \A p \in Procs : Ends(p) /\ answer'[p] = "204" => InForce(p)
        /\ calendar' # calendar =>
               \E p \in Procs : Ends(p) /\ InForce(p) /\ answer'[p] \in {"204", "500", None}
<1>1. Inv /\ [Next]_vars => Step
  <2> SUFFICES ASSUME Inv, [Next]_vars PROVE Step
    OBVIOUS
  <2>1. CASE \E p \in Procs : /\ Commit(p)
                              /\ Ends(p) /\ answer'[p] \in {"204", "500", None}
                              /\ \A q \in Procs \ {p} : ~Ends(q)
    <3>1. PICK p \in Procs : /\ Commit(p)
                             /\ Ends(p) /\ answer'[p] \in {"204", "500", None}
                             /\ \A q \in Procs \ {p} : ~Ends(q)
      BY <2>1
    <3>2. InForce(p)
      BY <3>1, CommitPublishes DEF InForce
    <3> QED
      BY <3>1, <3>2
  <2>2. CASE UNCHANGED calendar /\ \A q \in Procs : ~(Ends(q) /\ answer'[q] = "204")
    BY <2>2
  <2> QED
    BY <2>1, <2>2, OnlyCommitPublishes
<1> QED
  BY <1>1, RatesInvariance, PTL DEF Spec, AnswerMeansPublished

\* The upserts implement RateCalendar: however they interleave, fail and wait,
\* the calendar changes as if each request were served at once, and whole.
THEOREM UpsertsRefineCalendar == Spec => RefinesCalendar
<1>1. Init => Calendar!Init
  BY DEF Init, Calendar!Init
<1>2. Inv /\ [Next]_vars => [Calendar!Next]_calendar
  <2> SUFFICES ASSUME Inv, [Next]_vars PROVE [Calendar!Next]_calendar
    OBVIOUS
  <2>1. ASSUME NEW p \in Procs, Commit(p) PROVE Calendar!Next
    <3> DEFINE rates == Published(request[p].body)
    <3>1. /\ request[p].plan \in RatePlans /\ Calendar!Publish(request[p].plan, rates)
          /\ request[p].body \in {b \in Bodies : Publishable(b)}
      BY <2>1, CommitPublishes
    <3>2. rates \in {Published(body) : body \in {b \in Bodies : Publishable(b)}}
      BY <3>1
    <3> HIDE DEF rates
    <3> QED
      BY <3>1, <3>2 DEF Calendar!Next
  <2> QED
    BY <2>1, OnlyCommitPublishes
<1> QED
  BY <1>1, <1>2, RatesInvariance, PTL DEF Spec, RefinesCalendar, Calendar!Spec
=============================================================================
