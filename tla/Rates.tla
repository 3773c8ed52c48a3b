------------------------------- MODULE Rates -------------------------------
(***************************************************************************)
(* Staff publish rates: PUT .../rates, StaffService.SetRates and           *)
(* RateRepository.UpsertRates. A process is one request at any instance.   *)
(*                                                                         *)
(* The upsert is one statement and its own transaction. It takes the rows  *)
(* in the order of the body and keeps each locked to its end; the rows are *)
(* seen by others when it commits.                                         *)
(***************************************************************************)
EXTENDS Pricing, Sequences

CONSTANTS
    Procs,          \* requests being served at the same time
    RatePlans, Dates,
    Bodies,         \* the rates of a request, a sequence of entries
    UnknownPlan     \* a plan that is not in the catalogue

\* A price and a minimum stay are numbers, or missing.
Entries == [date: Dates \cup {None}, price: Int \cup {None}, minStay: Int \cup {None}]

ASSUME RequestsAssumption ==
    /\ IsFiniteSet(Procs)
    /\ Dates \subseteq Int
    /\ Bodies \subseteq Seq(Entries)
    /\ UnknownPlan \notin RatePlans

ASSUME NoneAssumption ==
    None \notin Int /\ None \notin {"204", "400", "404", "500"}

VARIABLES
    calendar,       \* table rate_calendar, as committed
    pc,             \* "idle" or "upsert"
    request,        \* the plan and the body a process is serving
    done,           \* how many rows its upsert has locked
    held,           \* the rows it has locked
    answer          \* the status of its last answer, None if nobody has got one

vars == <<calendar, pc, request, done, held, answer>>

Entry(date, price, minStay) ==
    [date |-> date, price |-> price, minStay |-> minStay]

NoRequest == [plan |-> None, body |-> <<>>]

-----------------------------------------------------------------------------
(* The handler and the service *)

\* JSON leaves a field that is missing at its zero value.
Decoded(field) == IF field = None THEN 0 ELSE field

\* The first entry that is refused decides, and all refusals are 400.
EntryAccepted(entry) ==
    /\ entry.date # None
    /\ Decoded(entry.minStay) >= 1
    /\ Decoded(entry.price) >= 0

\* What the service answers before it reaches the table, or None.
Refusal(plan, body) ==
    IF body = <<>> THEN "400"
    ELSE IF plan = UnknownPlan THEN "404"
    ELSE IF \E i \in DOMAIN body : ~EntryAccepted(body[i]) THEN "400"
    ELSE None

Arrive(p) ==
    \E plan \in RatePlans \cup {UnknownPlan}, body \in Bodies :
        /\ pc[p] = "idle"
        /\ IF Refusal(plan, body) # None
           THEN /\ answer' = [answer EXCEPT ![p] = Refusal(plan, body)]
                /\ UNCHANGED <<pc, request>>
           ELSE /\ answer' = [answer EXCEPT ![p] = None]
                /\ request' = [request EXCEPT ![p] = [plan |-> plan, body |-> body]]
                /\ pc' = [pc EXCEPT ![p] = "upsert"]
        /\ UNCHANGED <<calendar, done, held>>

-----------------------------------------------------------------------------
(* The upsert *)

\* The longest minimum stay a smallint holds.
MaxMinStay == 32767

\* The Go conversion int16(n).
Int16(n) == ((n + 32768) % 65536) - 32768

\* The row of rate_calendar an entry becomes: min_stay is narrowed to 16 bits.
Row(entry) == Rate(Decoded(entry.price), Int16(Decoded(entry.minStay)), FALSE, FALSE)

\* Mutant: the table has no CHECKs.
AnyRowAccepted(row) == TRUE

\* The CHECKs of the table.
RowAccepted(row) == row.price >= 0 /\ row.minStay >= 1

\* Mutant: the days are gathered in a map, whose order is anybody's guess.
PendingAnyOrder(p) ==
    {i \in DOMAIN request[p].body : <<request[p].plan, request[p].body[i].date>> \notin held[p]}

\* The entry whose turn it is.
Pending(p) == IF done[p] < Len(request[p].body) THEN {done[p] + 1} ELSE {}

\* Mutant: a date named twice is taken as it comes.
MayTouchAlways(p, row) == TRUE

\* ON CONFLICT DO UPDATE cannot change a row it has changed before.
MayTouch(p, row) == row \notin held[p]

\* Mutant: a request that fails leaves its rows locked.
EndForgets(p, status) ==
    /\ answer' = [answer EXCEPT ![p] = status]
    /\ pc' = [pc EXCEPT ![p] = "idle"]
    /\ request' = [request EXCEPT ![p] = NoRequest]
    /\ done' = [done EXCEPT ![p] = 0]
    /\ UNCHANGED held

\* The statement ends: locks go, and the request is answered.
End(p, status) ==
    /\ answer' = [answer EXCEPT ![p] = status]
    /\ pc' = [pc EXCEPT ![p] = "idle"]
    /\ request' = [request EXCEPT ![p] = NoRequest]
    /\ done' = [done EXCEPT ![p] = 0]
    /\ held' = [held EXCEPT ![p] = {}]

\* One row: refused by a CHECK, refused as changed before, or locked, when no
\* other transaction has it.
Upsert(p) ==
    \E i \in Pending(p) :
        LET entry == request[p].body[i]
            row   == <<request[p].plan, entry.date>>
        IN  /\ pc[p] = "upsert"
            /\ UNCHANGED calendar
            /\ IF ~RowAccepted(Row(entry)) \/ ~MayTouch(p, row)
               THEN End(p, "500")
               ELSE /\ \A q \in Procs \ {p} : row \notin held[q]
                    /\ done' = [done EXCEPT ![p] = @ + 1]
                    /\ held' = [held EXCEPT ![p] = @ \cup {row}]
                    /\ UNCHANGED <<pc, request, answer>>

\* A body as a calendar for the dates it names; the last of two entries wins.
Published(body) ==
    [d \in {body[i].date : i \in DOMAIN body} |->
        Row(body[CHOOSE i \in DOMAIN body :
                    /\ body[i].date = d
                    /\ \A j \in DOMAIN body : body[j].date = d => j <= i])]

\* The commit. Its answer may be lost on its way to the client, and so may, on
\* its way from the database, what tells Exec that it was made: a 500 then.
Commit(p) ==
    /\ pc[p] = "upsert"
    /\ Pending(p) = {}
    /\ LET new == Published(request[p].body)
       IN  calendar' = [calendar EXCEPT ![request[p].plan] =
               [d \in Dates |-> IF d \in DOMAIN new THEN new[d] ELSE @[d]]]
    /\ \E status \in {"204", "500", None} : End(p, status)

\* A statement that fails, a client that goes away, a process that dies: 500 if
\* anything, as mapError knows no error of this table.
Fail(p) ==
    /\ pc[p] = "upsert"
    /\ \E status \in {"500", None} : End(p, status)
    /\ UNCHANGED calendar

-----------------------------------------------------------------------------
(* Locks *)

Waits(p, q) ==
    /\ pc[p] = "upsert" /\ p # q
    /\ \E i \in Pending(p) : <<request[p].plan, request[p].body[i].date>> \in held[q]

Circle(ps) == ps # {} /\ \A p \in ps : \E q \in ps : Waits(p, q)

\* The database ends one request of a circle.
BreakDeadlock(p) ==
    /\ \E ps \in SUBSET Procs : p \in ps /\ Circle(ps)
    /\ End(p, "500")
    /\ UNCHANGED calendar

-----------------------------------------------------------------------------
Init ==
    /\ calendar = [plan \in RatePlans |-> [d \in Dates |-> NoRate]]
    /\ pc = [p \in Procs |-> "idle"]
    /\ request = [p \in Procs |-> NoRequest]
    /\ done = [p \in Procs |-> 0]
    /\ held = [p \in Procs |-> {}]
    /\ answer = [p \in Procs |-> None]

Serve(p) == Upsert(p) \/ Commit(p)

Next == \E p \in Procs : Arrive(p) \/ Upsert(p) \/ Commit(p) \/ Fail(p) \/ BreakDeadlock(p)

Spec == Init /\ [][Next]_vars

FairSpec == Spec /\ \A p \in Procs : SF_vars(Serve(p)) /\ WF_vars(BreakDeadlock(p))

-----------------------------------------------------------------------------
(* Properties *)

\* Types, and that a request which is not in the upsert holds no row.
TypeOK ==
    /\ \A plan \in RatePlans, d \in Dates :
           \/ calendar[plan][d] = NoRate
           \/ calendar[plan][d].price \in Nat /\ calendar[plan][d].minStay \in 1 .. MaxMinStay
    /\ pc \in [Procs -> {"idle", "upsert"}]
    /\ \A p \in Procs : /\ held[p] \subseteq RatePlans \X Dates
                        /\ Cardinality(held[p]) = done[p]
                        /\ pc[p] = "idle" => held[p] = {} /\ request[p] = NoRequest
    /\ answer \in [Procs -> {None, "204", "400", "404", "500"}]

\* Requests wait for each other in a circle only if one of them lists a later
\* date before an earlier one: bodies in the order of the calendar never do,
\* however many of them meet (UpsertRates, rates.go:84).
InDateOrder(body) == \A i, j \in DOMAIN body : i < j => body[i].date <= body[j].date

OnlyDisorderDeadlocks ==
    \A ps \in SUBSET Procs : Circle(ps) => \E p \in ps : ~InDateOrder(request[p].body)

\* Says leaves a minimum stay that does not fit in 16 bits to PublishedMinStay.
Says(entry, rate) ==
    /\ rate.price = Decoded(entry.price)
    /\ Decoded(entry.minStay) <= MaxMinStay => rate.minStay = entry.minStay

Ends(p) == pc[p] = "upsert" /\ pc'[p] = "idle"

InForce(p) ==
    \A i \in DOMAIN request[p].body :
        Says(request[p].body[i], calendar'[request[p].plan][request[p].body[i].date])

\* 204 is answered when every entry of the body, each of them, is what the
\* calendar says. The calendar may change as well for a request that is answered
\* 500 or not at all, but always to the whole of its body, and it never does for
\* one that is refused by 400 or 404 (UpsertRates, rates.go:93).
AnswerMeansPublished ==
    [][/\ \A p \in Procs : Ends(p) /\ answer'[p] = "204" => InForce(p)
       /\ calendar' # calendar =>
           \E p \in Procs : Ends(p) /\ InForce(p) /\ answer'[p] \in {"204", "500", None}]_vars

\* A body can be published if it names a date once and the rates fit the table.
Publishable(body) ==
    /\ body # <<>>
    /\ \A i, j \in DOMAIN body : body[i].date = body[j].date => i = j
    /\ \A i \in DOMAIN body : EntryAccepted(body[i]) /\ Row(body[i]).minStay \in 1 .. MaxMinStay

\* However the requests interleave, fail and break each other's deadlocks, the
\* calendar changes as if each were served at once, and whole.
Calendar == INSTANCE RateCalendar
    WITH Publications <- {Published(body) : body \in {b \in Bodies : Publishable(b)}}

RefinesCalendar == Calendar!Spec

\* Every request that publishes ends, whatever the order of its dates.
UpsertsEnd == \A p \in Procs : pc[p] = "upsert" ~> pc[p] = "idle"
=============================================================================
