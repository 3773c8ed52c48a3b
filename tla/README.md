# albergo in TLA+

Specifications, model-checking configurations and machine-checked proofs for
albergo, a booking engine: guests reserve and cancel stays, staff publish
inventory and rates, a worker sends what happened. What is hard about it is not
any one function. It is that three kinds of database transactions meet on the
same rows, are rolled back half way, are retried by clients that never got an
answer, and leave behind events that another process sends at least once.

    tlc -workers 2 -config ReservationsSafety.cfg MCReservations
    tlc -workers 2 -config Search.cfg MCSearch
    tlapm ReservationsProofs.tla        # and LedgerProofs, OutboxProofs, RatesProofs,
                                        # SearchProofs, LifecycleProofs, HttpProofs, Orders

## 1. The system

| component | source | state | operations |
|---|---|---|---|
| reservation service | `internal/app/reserve.go`, `internal/domain/booking` | none of its own: tables `reservations`, `reservation_nights`, `guests`, `idempotency_keys` | `Reserve`, `Cancel`, `ByReference` |
| inventory | `internal/adapter/postgres/inventory.go`, `internal/app/staff.go` | table `inventory`: rooms published and booked for a room type and night | `Reserve`, `Release` (one statement, `reserveSQL`), `UpsertAllotment`, `Allotments` |
| transactions | `internal/adapter/postgres/db.go` | a `pgx.Tx` in the context | `WithinTx`, `mapError` |
| idempotency | `internal/adapter/postgres/idempotency.go` | table `idempotency_keys` | `Claim`, `Record` |
| outbox | `internal/adapter/postgres/outbox.go` | table `outbox` | `Publish`, `Dispatch` |
| worker | `cmd/worker`, `internal/worker`, `internal/adapter/notify` | a ticker | `Dispatcher.Run`, `Send` |
| rates and prices | `internal/adapter/postgres/rates.go`, `internal/app/staff.go`, `internal/domain/pricing`, `internal/domain/shared/money.go` | table `rate_calendar` | `SetRates`, `Rates`, `Calculate`, `Validate` |
| availability search | `internal/app/availability.go`, `internal/domain/inventory` | none | `Search` |
| stays and dates | `internal/domain/shared/stay.go`, `date.go` | none | `NewStay`, `Dates`, `DaysUntil` |
| HTTP adapter | `internal/adapter/rest` | none | decoding, problem documents, staff key, recovery from panics |
| catalogue | `internal/adapter/postgres/catalog.go` | `properties`, `room_types`, `rate_plans`, changed by no operation | reads |
| processes | `cmd/api`, `cmd/worker`, `cmd/seed`, `internal/platform` | connection pool, migrations | start, drain, stop |

**How they interact.** An HTTP handler calls one service method. `Reserve` and
`Cancel` run in one transaction each (`WithinTx` puts it into the context, the
repositories find it there); `SetInventory` and `SetRates` are one statement
each, and the reads run on the pool. Nothing is shared between requests except
the database, so any number of API instances behave like one. `Reserve` and
`Cancel` write their event in the same transaction; the worker, another
process, polls it, sends, and marks what it sent in a transaction of its own.

**What is hard.**

- *Interleaving.* Transactions run at READ COMMITTED. `Cancel` reads a
  reservation without a lock and decides on it; `reserveSQL` takes its rows from
  a snapshot and locks them one by one, as does the publishing of inventory.
- *Failure.* Every statement, and the commit, can fail; a client may lose the
  answer of a commit and send the request again, with the same key, here or at
  another instance; a draw of `NewReference` may collide after rooms were taken.
- *Deadlock.* Five kinds of locks are held to the end of the transaction: a key,
  a guest, inventory rows, a reservation, and (in the worker) outbox rows.
- *Delivery.* A message may be refused, sent and forgotten, or sent out of order.
- *Staleness.* A search reads each plan's rates and rooms at different moments,
  and a booking reads rates before it waits for its nights.
- *Processes.* Instances migrate at once, share ten connections among requests
  that wait for rows, and are stopped with requests in flight.
- *Edges.* 16 bit counts, strict deadlines, a calendar day that does not begin at
  the same time at the property and in UTC.

`PROJECT.json` lists each hazard at its line, with the properties aimed at it.

**What makes it correct**, in the words the modules use:

| component | property |
|---|---|
| inventory | `BookedCountsReservations`, `NoOversell`, `ReleaseAccepted` |
| idempotency | `OneReservationPerKey`, `AnswersAgree` |
| cancellation | `HistoryKept`, `CancelledInTime` |
| events | `EventsTellHistory` |
| transactions | `OnlyCollisionsDeadlock`, `RequestsEnd`, and all of it: `RefinesLedger` |
| rates | `AnswerMeansPublished`, `OnlyDisorderDeadlocks`, `UpsertsEnd`, and all of it: `RefinesCalendar` |
| search and prices | `NothingLeftOut`, `OffersWereTrue`, `OfferHonoured`, `PaidAtAPublishedPrice` |
| HTTP adapter | `OneAnswer`, `StatusTellsEffect`, `StaffNeedsKey`, `DocumentedStatus` |
| processes | `ServesOnMigratedSchema`, `EventuallyServes`, `RequestsSettle`, `CutOnlyAfterGrace` |
| outbox and worker | `DuplicatesOnlyByAborts`, `LeftAloneForAReason`, `InOrderUnlessRefused`, `EveryMessageSettles`, and the promise to a guest: `RefinesDelivery` |

## 2. The modules

| module | what it is |
|---|---|
| `Ledger` | the promise: each request takes effect at once, on tables without counters or locks, or not at all |
| `Reservations` | the code: requests as transactions of statements that lock rows |
| `ReservationsInvariant` | what each transaction knows at each statement: the inductive invariant `Inv` |
| `ReservationsProofs` | the theorems about counters, rooms and locks of `Reservations` |
| `LedgerProofs` | `Reservations` implements `Ledger`, and what follows for keys, answers and events |
| `Orders` | two lemmas about orders that several proofs need |
| `MCReservations` | small instances of `Reservations`, and two sentences of the API description |
| `Delivery` | the promise to a guest: an event is told until it is delivered, or refused often enough, and never again |
| `Outbox` | the code of it: the table of events, the claim, the send loop, the worker |
| `OutboxInvariant` | what a worker knows of its batch, how sends are accounted for, the message of each event, and the order with one worker: `Inv`, `OrderInv` |
| `OutboxProofs` | the theorems about `Outbox`, which implements `Delivery` |
| `MCOutbox` | the symmetry of its instances |
| `Pricing` | stays, money and quotes, as operators |
| `RateCalendar` | the promise of publishing rates: all dates of a request at once, or none |
| `Rates` | the code of it: an upsert that locks rows in the order of its body |
| `RatesInvariant` | which rows an upsert has locked: the inductive invariant `Inv` |
| `RatesProofs` | the theorems about `Rates` |
| `MCRates` | bodies for `Rates`, and two sentences of the API description |
| `Search` | a search and a booking beside `Ledger` and `RateCalendar` |
| `SearchInvariant` | what a search has seen and has still to do, and the rooms left: the inductive invariant `Inv` |
| `SearchProofs` | the theorems about `Search` |
| `MCSearch` | a small hotel for `Search` |
| `Lifecycle` | instances of `cmd/api`: migrate, serve with a pool, drain |
| `LifecycleInvariant` | what an instance knows in each phase, and the bound of its pool: the inductive invariant `Inv` |
| `LifecycleProofs` | the theorems about `Lifecycle` |
| `MCLifecycle` | the patience of the platform |
| `Http` | a request on its way through router, key, checks and service |
| `HttpProofs` | its inductive invariant, and the theorems about `Http` |

`Search` composes the modules: the writers around a search are not copied from
`Reservations` and `Rates` but are `Ledger` and `RateCalendar`, which those two are
shown to implement. `Pricing` is extended by both `Rates` and `Search`.

### Reservations

A process is one HTTP request being served by any instance. One action is one
SQL statement that can wait for another transaction or be observed by one,
together with the Go code that follows it. `held` is the set of locks of the
transaction; `writes` are the counters it has changed and not committed; the
tables (`published`, `allotment`, `booked`, `reservations`, `keys`, `outbox`) are
the committed ones. Inserting a value into a unique index locks the value, which
is how PostgreSQL makes a second insert of an idempotency key, a guest or a
reference wait.

| action | code |
|---|---|
| `ArriveReserve`, `ArriveCancel`, `ArrivePublish` | the handler up to its first statement |
| `Claim` | `IdempotencyRepository.Claim`: fresh, another body, or a replay |
| `Replay` | `ByID` and the same 201 |
| `UpsertGuest` | `GuestRepository.Upsert` |
| `Refuse` | the refusals of `book`: catalogue, rates, stay restrictions, guest, occupancy |
| `New` | `booking.New` draws a reference; the snapshot of `reserveSQL` |
| `LockRow` | `ORDER BY stay_date FOR UPDATE`, one row |
| `Move` | the `UPDATE` of `reserveSQL`: `sold_out`, `no_inventory`, or the new counts |
| `Create` | `INSERT INTO reservations`, or `duplicate_reference` |
| `CommitReserve` | `Record`, `Publish`, commit; the answer may be lost |
| `Decide` | `ByReference` and `Reservation.Cancel` on what was read |
| `MarkCancelled` | `UPDATE ... AND status = 'confirmed'` |
| `Release` | `reserveSQL` again, with -1 |
| `CommitCancel` | `Publish` and commit |
| `Publish` | `UpsertAllotment`, on the rows it has locked |
| `Abort` | any error, a lost connection, a process that dies: rollback |
| `BreakDeadlock` | PostgreSQL ends one transaction of a circle of waiters |
| `Tick` | the clock |

Abstractions. A request's hash is its body. Prices, the catalogue and guest
names only decide whether `Refuse` happens, so it may happen to any request. A
statement that reads and cannot wait is part of the action before it. The three
ways of rolling back (an error of the service, a failure, a deadlock) end in the
same state; they are separate actions because they have separate guards and
fairness. `INSERT INTO reservation_nights`, `Record` and `Publish` lock only rows
of their own transaction, so they are part of the commit. Rows that a publish
inserts lock the same values as rows that it updates.

### Outbox

`Publish(r)` and `PublishEnds(r)` are the insert and the end of the transaction
around it: ids are given before the commit, so an id may become visible late.
A claim is a snapshot (`Claim`) and then a row at a time (`ScanRow`): skipped when
another worker holds it, checked again when it changed since the snapshot. `Send`
is one turn of the loop, `Commit` installs the marks, `Abort` loses them - an
error, SIGTERM during a batch, a crash. `Tick` is the ticker of `Dispatcher.Run`;
after a full batch `Commit` goes on at once.

`internal/adapter/notify` always succeeds; the deployed sender will not, so `Send`
delivers or refuses, as `Dispatch` provides for.

`Delivery` has one status for each event of a reservation and no rows, ids, batches
or workers. An event of `Delivery` is the message that a committed transaction has
inserted for it (`MessageOf`): it happens at that commit, is delivered or refused at
a `Send`, and is settled, perhaps with others, at the `Commit` that marks it. What a
worker claims, skips, and loses when it aborts is a stutter.

### Rates

A process is one `PUT .../rates`. `Arrive` is the handler and the checks of
`SetRates`; `Upsert` is one row of the statement, refused by a CHECK, refused
because the statement has changed it before, or locked; `Commit` installs all of
them, and is answered 204, 500 when the database could not say that it was made,
or nothing when the client is not reached; `Fail` and `BreakDeadlock` end it. Rows are taken in the order of the
body: nothing sorts them. A field the body leaves out is `None`, and `Decoded` is
what Go makes of it. The closed flags are carried through unchanged and are
left out; the currency is the property's.

### Pricing and Search

`QuoteError` and `Quote` are `Calculate`, in its order of refusals; `Validates` is
`Quote.Validate`; `Add` wraps at `MoneyBits`, so that a run with 4 bits meets
what 64 bits would. In `Search`, `Begin` is the handler with the catalogue, which
no operation changes; `ReadRates` and `ReadUnits` are the two statements for each
plan, with the Go code after them; `Answer` and `Leave` end the search. `BookRead`
is `book` up to where it can wait, `BookCommit` is `Ledger!Reserve` with the nights
of `ReservationRepository.Create`, and `Elsewhere` is any commit of the others.
`seen` and `priced` are history: what was true at each moment of the search, and
what was published at each moment since a booking read its rates. They are taken
from `calendar` as a whole and from `Ledger`'s own count of occupants, not from what
the statements of the search return.

### Lifecycle

`Start`, `ReadVersion`, `Migrate` and `Serve` are `run` of `cmd/api` with goose, which
reads the recorded version before each migration and has no lock around the
two. `Signal` is SIGTERM, `Shutdown` is `srv.Shutdown` returning, `Exit` is the
deferred `pool.Close` and the end of `main`, `Kill` is the platform. Requests are
of two kinds: a search takes a connection for each statement, a transaction
keeps one and waits for a row that all transactions share. `Finish` is a commit or
any error on the way. `Crash` is a process that dies without having been told to,
at any moment, also while it drains. Time is counted for an instance that is
stopping only.

### Http

One request at a time passes `RequireStaffKey`, the `Check`s of its handler in
their order, `Call` and `Write`, or `Panic`s; a request has any subset of the flaws its
handler looks for. What a service may answer is the table `Refusals`; that a
cancel is not answered 422 is `ReleaseAccepted` of `Reservations`.

## 3. The runs

| run | instance | states | shows |
|---|---|---|---|
| `reservations_safety` | 3 requests, 2 keys, 2 references, 2 nights, 2 stays that share one, publishes of 1, 0 and 65538 rooms | 782,256 | all safety properties of `Reservations`, `Inv`, and `RefinesLedger` |
| `reservations_liveness` | 2 requests, without symmetry | 176 thousand | `RequestsEnd` |
| `published_allotment` | 1 request | stops at the violation | finding 1 |
| `check_in_date` | 1 request, ticks of two hours | stops at the violation | finding 2 |
| `outbox_workers` | 2 workers, 3 events, batches of 2 | 992 thousand | delivery by several workers, `Inv` of `OutboxInvariant`, and `RefinesDelivery` |
| `outbox_one_worker` | 1 worker, 3 events, batches of 2 | 113 thousand | order, `OrderInv`, and that every message settles |
| `rates` | 3 requests, 1 plan, 3 dates, 8 bodies | 44 thousand | safety and liveness of `Rates`, `Inv`, and `RefinesCalendar` |
| `rates_min_stay` | 1 request | stops at the violation | finding 3 |
| `rates_required` | 1 request | stops at the violation | finding 4 |
| `search` | 3 plans, 2 nights, 5 requests, 2 commits of others | 237 thousand | what an offer and a price are worth, and `Inv` of `SearchInvariant` |
| `lifecycle` | 2 instances, 2 requests, 1 connection each, 2 migrations | 78 thousand | start, pool and shutdown, with liveness, and `Inv` of `LifecycleInvariant` |
| `http` | all operations, keys and sets of flaws | 969 | which status stands for what |

**Bounds.** Three requests are the least that put a booking, a cancel and a
publish, or three waiters for one row, into one behaviour; requests are reused
when they end, so a behaviour has any number of them. Two stays share night 2
and differ in length, which gives them a sold out night, a night without a row
and two orders of locks. Two references make collisions of `NewReference` common
rather than one in 32^6. Rooms per night are 0, 1 and, by the conversion of
65538, 2: enough for a last room, for a night that cannot be lowered, and for two
occupants. `MaxTime` is 1 with a day of one tick: at tick 0 both stays may be
cancelled and are refunded, at tick 1 one stay has begun and the other is
not refunded, its deadline being that very tick. In `Outbox`, three events of two
reservations include a confirmation and a cancellation of one of them with
another event between; a batch of two is full or not; `MaxAttempts` is 2 for
the code's 5, so that messages are given up; `MaxAborts` bounds the dispatches
that are rolled back. `delivered` and `failures` count for the properties and
never guard an action. Symmetry is used in the safety runs only: requests,
keys and references are interchangeable, guests and plans are not.

In `rates`, three bodies of two dates each close a circle of three waiters, one of
them out of the order of dates; the others name a date twice, wrap to a minimum
stay of one, and wrap to one that the table refuses. In `search`, two plans share a
room type and a third is stray, its room type another property's; the stays share night 2, and
rates and rooms begin closed, open, missing or scarce; staff open, close and
reprice single dates. `MaxWrites` bounds the commits beside a search to 2: one
between the reads of a plan and one between plans, or a booking and a publish
before it. Prices of 1 and 7 in 4 bits make the sum that wraps. In `lifecycle`, one
connection is a pool at its limit with two requests; the timeout of 2 ticks lies
between the two patiences of the platform, 1 and 3; `MaxStops` bounds signals and
crashes to 2, one for each instance, or one instance twice.

**Fairness.** `Reservations!FairSpec` has strong fairness of the steps of each
request: PostgreSQL grants a lock to its waiters in order, so a request
whose lock is free again and again gets it, and the scheduler runs what can
run. It has weak fairness of `BreakDeadlock`, as the deadlock detector ends one
of a circle of waiters after `deadlock_timeout`. Nothing forces a request to
arrive, to be refused or to fail. `Outbox!FairSpec` has weak fairness of a worker's
steps: its claim skips locked rows and never waits, and its ticker fires.
Whether a message is delivered is not assumed: it settles, delivered or given up.
`Rates!FairSpec` is that of `Reservations`: strong for the rows and the commit, weak
for the detector. `Lifecycle!Spec` has strong fairness of taking a connection and
the row, which pgxpool and PostgreSQL grant in order of arrival, and weak fairness
of the code of a request and of a process, of the restart of one that is down, and
of time. No request is forced to fail, nor any process to be stopped.

### Findings

1. **The allotment is narrowed to 16 bits** (`inventory.go:58`). The service
   refuses a negative count and nothing else; `int16(allotment)` stores 65538 as 2
   and answers 204, and turns 32768 to 65535 into a negative number, which the CHECK
   of the table refuses as an internal error. The API description allows any
   non-negative integer. Run `published_allotment`.
2. **The check in date begins at midnight UTC** (`reservation.go:90`). "Cancelling
   on or after the check in date is refused" holds in UTC only; at a property in
   Europe/Rome, the default of `properties.timezone`, which no Go code reads,
   the date begins an hour or two earlier, and cancels are accepted in between.
   Run `check_in_date`.
3. **The minimum stay is narrowed to 16 bits** (`rates.go:78`). As in finding 1:
   65537 nights are published as 1 and answered 204, and 32768 to 65536 fail as
   an internal error. Run `rates_min_stay`.
4. **Required fields are not required** (`handlers.go:237`). The API description
   requires `date`, `price_cents` and `min_stay` of a rate. The service misses a date
   or a minimum stay, whose zero it refuses; a price that is left out is zero, and
   the night is published for nothing. `PUT .../inventory` without an
   `allotment` closes its nights in the same way. Run `rates_required`.

Noticed beside the runs: a PUT is answered 404 for a room type or a rate plan that
is not in the catalogue (`staff.go:35`, `staff.go:46`), where the description lists
204, 400, 401 and, for inventory, 409. `DocumentedStatus` states it as one of its two
exceptions, so that any other answer that is not listed would violate it. Neither PUT
reads the property id of its path.

## 4. The proofs

Every safety property that a run checks, and the three refinements (`RefinesLedger`,
`RefinesCalendar`, `RefinesDelivery`), are theorems: they hold for every value of the
constants that satisfies the assumptions of the module. An inductive invariant
is an invariant of a run first, then proved: `Init` implies it and every step
preserves it, one lemma for each action; the properties follow from it. The
exception is `Http`, whose invariant is proved and in no run, since the run visits
every state it has anyway. Where a run checks `Inv` it does not check `TypeOK`
as well, which `Inv` implies (`TypeCorrect`, `OutboxTypeCorrect`, `RatesTypeCorrect`,
`LifecycleTypeCorrect`). `LocksInOrder` is inductive together with `Inv` and is proved
only, as are `PublishedIsFinal` and the consequences of a refinement; the runs check
what they stand on.

### Reservations and the ledger

| theorem | statement |
|---|---|
| `Invariance` | `Spec => []Inv` |
| `TypeCorrect` | `Spec => []TypeOK` |
| `CountsAreRight` | `Spec => []BookedCountsReservations` |
| `NeverOversold` | `Spec => []NoOversell` |
| `ReleaseNeverRefused` | `Spec => []ReleaseAccepted` |
| `LocksTakenInOrder` | `Spec => []LocksInOrder` |
| `OnlyCollisionsCircle` | `Spec => []OnlyCollisionsDeadlock` |
| `Refinement` | `Spec => RefinesLedger` |
| `KeysAreFaithful` | `Spec => []OneReservationPerKey` |
| `AnswersAreTrue` | `Spec => []AnswersAgree` |
| `EventsAreTrue` | `Spec => []EventsTellHistory` |
| `CancelledBeforeTheStay` | `Spec => []CancelledInTime` |
| `NothingTakenBack` | `Spec => HistoryKept` |

The first seven are in `ReservationsProofs`, the others in `LedgerProofs`. The
constants are any sets of requests, keys, guests, room types, plans and nights,
any stays, any published counts and any clock. Assumed is that references and
requests in flight are finitely many (counts are cardinalities, and of finitely
many requests one is the last in line); that a stay has a room type, a plan and
a guest that exist and at least one night; that a published range lies in the
nights that can be sold; that days, ticks and deadlines are naturals; and that
`None` is none of the values it stands beside.

*Counts.* `BookedCountsReservations` alone is not inductive: a commit
installs counters that were computed some statements earlier, and nothing in the
property says they still fit. `Inv` adds what a transaction relies on at each
statement. The rows it counted are locked by it (`RowsHeld`), all nights of its
stay are among them once `Move` is accepted, and `LocksExclusive` keeps every other
commit away from them, so `writes` is still `booked + Delta` at the commit. Its
reference was free and is locked (`Booking`); or, for a cancel, what it read is
still the stay, and confirmed since it was marked (`CancelRead`). Its key is
locked and new (`KeyHeld`). The commit then adds or removes exactly one occupant
of exactly the nights whose counters it changes. `ReleaseAccepted` needs
`StaysPublished` as well: rows of `inventory` are never deleted, so the nights
of a cancel are all there, each counts the reservation itself, and a count of at
least one can be lowered. Actions that leave the tables alone go through
`QuietStep`; the others through `CommitOfAnother`, which says which commits leave
the knowledge of the other requests intact. `AllNights` is what `Move` relies on
when it compares `RowsAffected` with the nights of the stay.

*Locks.* `LocksInOrder` says of a request at each statement which locks it may
have: what it waits for comes later than all it holds, in the order key, guest,
nights by date, reference. Each request that waits has a rank, and the one it
waits for a higher one, unless it has drawn a reference that a reservation has
already: so a circle without such a collision would have no highest rank, and
finitely many requests have one (`HighestRank` in `Orders`).

*Refinement.* Each commit is the step of `Ledger` with the same effect and every other
action a stutter; the ledger counts occupants where the code keeps counters,
which is `BookedCountsReservations`. The properties of keys, answers, events and
history are proved of the steps of `Ledger` and carried over, so that they are about
five abstract steps and not about eighteen concrete ones.

### Outbox

| theorem | statement |
|---|---|
| `OutboxInvariance` | `Spec => []Inv` |
| `OutboxTypeCorrect` | `Spec => []TypeOK` |
| `DuplicatesExplained` | `Spec => []DuplicatesOnlyByAborts` |
| `NothingGivenUpForAnother` | `Spec => []LeftAloneForAReason` |
| `PublishedStays` | `Spec => PublishedIsFinal` |
| `EventsAreTold` | `Spec => RefinesDelivery` |
| `SettledStays` | an event that was delivered or given up is left alone for ever |
| `WorkInOrder` | one worker: `Spec => []OrderInv` |
| `ConfirmedFirst` | one worker: `Spec => []InOrderUnlessRefused` |

for any workers, reservations and number of messages, any batch, any number of
attempts and of aborted dispatches. `DuplicatesOnlyByAborts` is not inductive: it has
to tell the delivery that a worker is about to mark from those that were lost.
`Accounts` does: a message that is published, or sent by a dispatch that has not
ended, was delivered once more at most than dispatches were aborted, and any other
not even that. It stands on `WorkerInv`: what is claimed stays eligible, because only
its claimer marks it. The last two theorems assume that all workers are the
same one, as `docker-compose.yml` deploys it; with two the property is false, since
one skips the confirmation that the other has locked and sends the
cancellation. `OrderInv` says that the worker comes to a cancellation only with its
confirmation tried or in the same dispatch; it needs `EventsInOrder`: the second
transaction of a reservation starts after the first has committed.

*Refinement.* `Inv` is `WorkInv`, which keeps workers apart and counts what they send, and
`EventsInv`, which makes the mapping to `Delivery` well defined: an event has one
message, a row that does not exist has not been refused, and while a reservation's
transaction is open its cancellation has no message, so that what a commit adds is
the event that is missing (`EventAdded`). `PublishEvents` is where the bound of two
events in `Publish` is used. A commit of a worker then settles only events that were
waiting, since what it has claimed was still eligible, and each for its reason,
which `Accounts` knows: what it marks as sent was delivered, and what reaches the last
attempt was refused as often (`CommitRefines`). `SettledStays` follows from the steps of
`Delivery` alone.

### Rates

| theorem | statement |
|---|---|
| `RatesInvariance` | `Spec => []Inv` |
| `RatesTypeCorrect` | `Spec => []TypeOK` |
| `OnlyDisorderCircles` | `Spec => []OnlyDisorderDeadlocks` |
| `AnswersHonest` | `Spec => AnswerMeansPublished` |
| `UpsertsRefineCalendar` | `Spec => RefinesCalendar` |

for finitely many requests at a time and any bodies: sequences of any length whose
prices and minimum stays are any integers, or missing. `Inv` says that an upsert
has locked exactly the rows of the entries it has done, each date once, and that
nobody else has them. At the commit all entries are done, so every date of the
body is named once and its row is the entry's (`PublishedRows`); the minimum stay is
the entry's when it fits in 16 bits. `AnswersHonest` then needs that only a commit
is answered 204 (`OnlyCommitPublishes`); the converse is false, since the
acknowledgement of a commit or the answer to it may be lost, and for those the
theorem says that the whole body is in force and that no refusal was sent.
In a circle of bodies in the order of dates each request waits for one that has
come to a later date (`LaterDate`), and again none of finitely many is at the latest.

### Search

| theorem | statement |
|---|---|
| `SearchInvariance` | `Spec => []Inv` |
| `EveryRoomOffered` | `Spec => []NothingLeftOut` |
| `OffersTrue` | `Spec => []OffersWereTrue` |
| `OffersHonoured` | `Spec => []OfferHonoured` |
| `PricesPublished` | `Spec => PaidAtAPublishedPrice` |
| `RoomsKeepToLedger` | `Spec => [][Rooms!Next]_ledger` |
| `RatesKeepToCalendar` | `Spec => [][Rates!Next]_calendar` |

for any catalogue, requests, rates and rooms and any number of commits of others.
Assumed is that a stay that is not refused has dates the tables can have, that
the property's list of plans names every plan of its room types, that references
are finitely many and that no refusal is nil. `Inv` follows the search: while it
runs, what it has seen includes what is true now (`SeenNow`); a plan that
could have been booked all along is offered or still to be looked at; the quote in
hand and each offer were seen, and stand until somebody commits. The work is in
two lemmas: `RatesReadSuffice`, that the rates between the two dates quote a stay
as the whole calendar does, and `UnitsAreFree`, that the units left, which the code
finds as the scarcest night when as many rows came back as the stay has nights,
are the rooms that could be booked one after the other. `Total` need not be
known for any of it: it is the same function of the same prices.

The last two theorems are about the composition: what is around a search is what the
writers are shown to implement, `Ledger` and `RateCalendar`, and nothing else.
They need `RoomsInv`, the second half of `Inv`: a booking that has read its rates is of a
stay and a plan that `Ledger` knows, however long it waits. `RoomsInv` also says that
no night has fewer than zero rooms left, which is `NoOversell` again, of the promise
itself and without a counter (`ReserveRooms`, `CancelRooms`, `PublishRooms`).

### Lifecycle

`LifecycleProofs` proves, for any instances, finitely many requests, any pool size,
number of migrations and timeouts, with `None` none of them:

| theorem | statement |
|---|---|
| `LifecycleInvariance` | `Spec => []Inv` |
| `LifecycleTypeCorrect` | `Spec => []TypeOK` |
| `PoolNeverExceeded` | `Spec => []PoolBounded` |
| `SchemaComplete` | `Spec => []ServesOnMigratedSchema` |
| `NothingCutEarly` | `Spec => CutOnlyAfterGrace` |

`ProcessInv` adds to the types what an instance knows in each phase. One that serves, or
has read a version beyond the last migration, has seen the schema complete, and
nothing takes a migration back (`Migrated`). One that closes its pool with requests
open has given them the whole of its timeout (`Graced`), and none is accepted
after that. `CutOnlyAfterGrace` follows because a process that is stopping
ends by `Exit` or `Kill`, or crashes, which counts among the `stops`. `PoolBounded`, the other half of `Inv`, is apart, since only
`Acquire` can disturb it: every other step shrinks the set of connections in use.

### Http

| theorem | statement |
|---|---|
| `HttpInvariance` | `Spec => []Inv` |
| `AnsweredOnce` | `Spec => []OneAnswer` |
| `StatusesTell` | `Spec => []StatusTellsEffect` |
| `NothingWithoutTheKey` | `Spec => []StaffNeedsKey` |
| `StatusesDocumented` | `Spec => []DocumentedStatus` |

`Inv` says what is known of a request at each place of its way: on the way to its
service it is unanswered, nothing has been done for it, and the checks that would
find its flaws are still ahead (`Waiting`, `Untouched`); beyond `RequireStaffKey` it has the key if it needs one (`KeyRight`); and an answer has
one of five stories (`Answered`): no key, a flaw, a success, a refusal of the service,
a failure. Each property is read off the five. `DocumentedStatus` covers all seven
operations and names its two exceptions: 500, which is a failure, and the 404 of a
PUT, which comes after the key and every check. The operations, flaws and refusals are
tables of the module, translated from the code, so the theorems are about this
adapter and no other, as is TLC's run; what the proof adds is the reason. The
tables are looked up in one lemma each, and a new row of them is a case there.

### Only model-checked

Liveness (`RequestsEnd`, `UpsertsEnd`, `EveryMessageSettles`,
`RequestsSettle`, `EventuallyServes`) stays with TLC: proofs about fairness and
ENABLED are beyond the prover. So does what `Total` computes: it is a fold over
the nights, and induction over data is beyond it too. That `Ledger`, `RateCalendar` and
`Delivery` promise what a guest is owed is for the reader to judge: they are
short for that purpose. The four findings are counterexamples, which TLC finds.

## 5. Not modelled

- Reading a reservation: `ByReference` reads a row and then its nights, which are
  written with it and never changed; the staff's list is one statement.
- Calendar arithmetic and parsing: days are numbers.
- E-mail addresses are normalised before the upsert: guests are values.
- JSON beyond fields that are missing; `/healthz`, `/readyz`, and the request log,
  which has no line for a request that panics.
- The start of the worker, which migrates nothing; its stop is an `Abort` of
  `Outbox`. The seed command.
- Several properties: the catalogue is fixed, and a plan either belongs to the
  property that is searched or does not.
- Currencies: a rate has its property's, so the refusals of a mixed sum cannot
  happen.
- Configuration and deployment. One thing was noticed in passing:
  `deploy/docker-compose.yml` gives the worker no `STAFF_API_KEY`, without
  which `config.Load` fails, so that the worker of that file does not start.
- Foreign keys: their KEY SHARE locks meet no update of a key column, so no
  statement waits for one.

## 6. Plan

Ordered by what the program can lose. All steps but the last are done.

1. `Ledger` and `Reservations`, with their safety and liveness runs.
2. `ReservationsInvariant` and the proof that counters are right and nights are
   never oversold.
3. `Outbox`, with one worker and with two.
4. The two runs about the API description of reservations and inventory.
5. `RateCalendar` and `Rates`, and two more runs about the description.
6. `Pricing`.
7. `Search`, composed with the promises of the writers.
8. `Lifecycle` and `Http`.
9. Proofs about `Reservations`: the order of locks, the refinement of `Ledger`, keys,
   answers, events and the time of a cancel.
10. Proofs about `Outbox`, `Rates` and `Search`.
11. `Delivery`, and the proof that `Outbox` implements it; proofs about `Http`, the pool of
    `Lifecycle`, and the composition of `Search`.
12. Left: the sum of a quote (`Total`), should a prover for induction over data be
    at hand, and the liveness properties.
