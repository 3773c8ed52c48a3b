---------------------------- MODULE HttpProofs ----------------------------
(***************************************************************************)
(* What an answer of the HTTP adapter means: which checks its request has  *)
(* passed, what its service came to, and what became of the tables.        *)
(***************************************************************************)
EXTENDS Http, SequenceTheorems, TLAPS

Elements(seq) == {seq[i] : i \in DOMAIN seq}

FlawNames == {"propertyID", "check_in", "check_out", "stay", "guests", "key missing",
              "key too long", "body", "roomTypeID", "ratePlanID", "from", "to"}

Statuses == {200, 201, 204, 400, 401, 404, 409, 422, 500}

\* Past RequireStaffKey, for the routes behind it.
KeyRight == request.op \in Staff => request.key = "right"

Untouched == outcome = None /\ effect = FALSE

\* A request on its way has every flaw it came with still ahead of it: the checks
\* it has passed found none.
Waiting ==
    /\ at = "key" => Untouched /\ statuses = <<>> /\ request.op \in Staff
    /\ at = "checks" => Untouched /\ statuses = <<>> /\ KeyRight
    /\ at \in {"key", "checks"} =>
           todo \in Seq(FlawNames) /\ request.flaws \subseteq Elements(todo)
    /\ at = "write" =>
           /\ statuses = <<>> /\ outcome = "ok" /\ request.flaws = {} /\ KeyRight
           /\ effect <=> request.op \in Changes

-----------------------------------------------------------------------------
(* The ways in which a request may have been answered *)

Unauthorised(status) ==
    status = 401 /\ request.op \in Staff /\ request.key # "right" /\ Untouched

FoundFlawed(status) ==
    status = 400 /\ request.flaws # {} /\ KeyRight /\ Untouched

Served(status) ==
    /\ status = Success[request.op] /\ outcome = "ok" /\ request.flaws = {} /\ KeyRight
    /\ effect <=> request.op \in Changes

Refused(status) ==
    /\ outcome \in Refusals[request.op] /\ status = StatusFor(outcome)
    /\ request.flaws = {} /\ KeyRight /\ effect = FALSE

Failed(status) ==
    /\ status = 500 /\ outcome = "internal"
    /\ effect => request.op \in Changes /\ request.flaws = {} /\ KeyRight

Answered(status) ==
    \/ Unauthorised(status)
    \/ FoundFlawed(status)
    \/ Served(status)
    \/ Refused(status)
    \/ Failed(status)

\* The inductive invariant of the adapter.
Inv ==
    /\ at \in {"away", "key", "checks", "write", "answered"}
    /\ effect \in BOOLEAN
    /\ at = "away" => Untouched /\ statuses = <<>>
    /\ at # "away" => request.op \in Operations /\ request.flaws \in Flawed(request.op)
    /\ Waiting
    /\ at = "answered" => \E status \in Statuses : statuses = <<status>> /\ Answered(status)
-----------------------------------------------------------------------------
(* Lists and tables *)

\* What is found in a list is found at its head or behind it.
LEMMA HeadOrTail ==
    ASSUME NEW S, NEW list \in Seq(S), list # <<>>
    PROVE  /\ Tail(list) \in Seq(S)
           /\ Elements(list) \subseteq {Head(list)} \cup Elements(Tail(list))
<1>1. /\ Len(list) \in Nat /\ Len(list) >= 1 /\ DOMAIN list = 1 .. Len(list)
      /\ Head(list) = list[1]
  BY EmptySeq
<1>2. /\ Tail(list) \in Seq(S)
      /\ DOMAIN Tail(list) = 1 .. (Len(list) - 1)
      /\ \A i \in 1 .. (Len(list) - 1) : Tail(list)[i] = list[i + 1]
  BY <1>1
<1>3. ASSUME NEW i \in 1 .. Len(list), i # 1 PROVE list[i] \in Elements(Tail(list))
  <2>1. i - 1 \in DOMAIN Tail(list) /\ Tail(list)[i - 1] = list[i]
    BY <1>1, <1>2, <1>3
  <2> QED
    BY <2>1 DEF Elements
<1> QED
  BY <1>1, <1>2, <1>3 DEF Elements

\* The handlers' checks are lists of names.
LEMMA ChecksAreLists ==
    ASSUME NEW op \in Operations
    PROVE  Checks[op] \in Seq(FlawNames)
<1>1. op \in {"availability", "reserve", "read", "cancel", "inventory", "rates", "list"}
  BY DEF Operations, Checks
<1>2. CASE op = "availability"
  BY <1>2 DEF Checks, FlawNames
<1>3. CASE op = "reserve"
  BY <1>3 DEF Checks, FlawNames
<1>4. CASE op = "read"
  BY <1>4 DEF Checks, FlawNames
<1>5. CASE op = "cancel"
  BY <1>5 DEF Checks, FlawNames
<1>6. CASE op = "inventory"
  BY <1>6 DEF Checks, FlawNames
<1>7. CASE op = "rates"
  BY <1>7 DEF Checks, FlawNames
<1>8. CASE op = "list"
  BY <1>8 DEF Checks, FlawNames
<1> QED
  BY <1>1, <1>2, <1>3, <1>4, <1>5, <1>6, <1>7, <1>8

\* No list has anything in it that its handler does not look for.
LEMMA FlawsAreAhead ==
    ASSUME NEW op \in Operations, NEW flaws \in Flawed(op)
    PROVE  flaws \subseteq Elements(Checks[op])
BY DEF Flawed, Elements

\* A service refuses with a 4xx that is not 401, and never by ok or internal.
LEMMA RefusalStatus ==
    ASSUME NEW op \in Operations, NEW kind \in Refusals[op]
    PROVE  /\ kind \in {"invalid", "not_found", "conflict", "unprocessable"}
           /\ StatusFor(kind) \in {400, 404, 409, 422}
BY DEF Operations, Checks, Refusals, StatusFor

LEMMA SuccessStatus ==
    ASSUME NEW op \in Operations
    PROVE  Success[op] \in {200, 201, 204}
BY DEF Success

-----------------------------------------------------------------------------
(* Every step preserves Inv *)

LEMMA ArriveInv ==
    ASSUME Arrive
    PROVE  Inv'
<1>1. PICK op \in Operations, key \in {"none", "wrong", "right"} : \E flaws \in Flawed(op) :
          /\ request' = [op |-> op, key |-> key, flaws |-> flaws]
          /\ at' = IF op \in Staff THEN "key" ELSE "checks"
          /\ todo' = Checks[op] /\ outcome' = None /\ effect' = FALSE /\ statuses' = <<>>
  BY DEF Arrive
<1>2. /\ request'.op = op /\ request'.flaws \in Flawed(op)
      /\ request'.flaws \subseteq Elements(todo') /\ todo' \in Seq(FlawNames)
  BY <1>1, FlawsAreAhead, ChecksAreLists
<1> QED
  BY <1>1, <1>2 DEF Inv, Waiting, Untouched, KeyRight, Elements

LEMMA RequireStaffKeyInv ==
    ASSUME Inv, RequireStaffKey
    PROVE  Inv'
<1>1. /\ at = "key" /\ statuses = <<>> /\ Untouched
      /\ request.op \in Operations /\ request.flaws \in Flawed(request.op)
      /\ UNCHANGED <<request, todo, outcome, effect>>
  BY DEF RequireStaffKey, Inv, Waiting
<1>2. CASE KeyAccepted(request.key)
  <2>1. at' = "checks" /\ statuses' = <<>> /\ KeyRight'
    BY <1>1, <1>2 DEF RequireStaffKey, KeyAccepted, KeyRight
  <2> QED
    BY <1>1, <2>1 DEF Inv, Waiting, Untouched, Elements
<1>3. CASE ~KeyAccepted(request.key)
  <2>1. at' = "answered" /\ statuses' = <<401>> /\ request'.key # "right"
    BY <1>1, <1>3 DEF RequireStaffKey, Problem, StatusFor, KeyAccepted
  <2>2. request.op \in Staff
    BY <1>1 DEF Inv, Waiting
  <2> QED
    BY <1>1, <2>1 DEF Inv, Waiting, Answered, Unauthorised, Untouched, Statuses
<1> QED
  BY <1>2, <1>3

\* A flaw that a check does not find is not at the head of the list, and so
\* still ahead.
LEMMA CheckInv ==
    ASSUME Inv, Check
    PROVE  Inv'
<1>1. /\ at = "checks" /\ statuses = <<>> /\ Untouched /\ KeyRight
      /\ request.op \in Operations /\ request.flaws \in Flawed(request.op)
      /\ todo \in Seq(FlawNames) /\ todo # <<>> /\ request.flaws \subseteq Elements(todo)
      /\ todo' = Tail(todo) /\ UNCHANGED <<request, outcome, effect>>
  BY DEF Check, Inv, Waiting
<1>2. CASE Head(todo) \in request.flaws
  <2>1. at' = "answered" /\ statuses' = <<400>> /\ request'.flaws # {}
    BY <1>1, <1>2 DEF Check, Problem, StatusFor
  <2> QED
    BY <1>1, <2>1 DEF Inv, Waiting, Answered, FoundFlawed, Untouched, KeyRight, Statuses
<1>3. CASE Head(todo) \notin request.flaws
  <2>1. at' = "checks" /\ statuses' = <<>>
    BY <1>1, <1>3 DEF Check
  <2>2. todo' \in Seq(FlawNames) /\ request'.flaws \subseteq Elements(todo')
    BY <1>1, <1>3, HeadOrTail
  <2>3. (Elements(todo))' = Elements(todo')
    BY DEF Elements
  <2> QED
    BY <1>1, <2>1, <2>2, <2>3 DEF Inv, Waiting, Untouched, KeyRight
<1> QED
  BY <1>2, <1>3

\* The service is called when no flaw is ahead: there is none.
LEMMA CallInv ==
    ASSUME Inv, Call
    PROVE  Inv'
<1>1. /\ at = "checks" /\ statuses = <<>> /\ KeyRight /\ todo = <<>>
      /\ request.op \in Operations /\ request.flaws \in Flawed(request.op)
      /\ request.flaws = {} /\ UNCHANGED <<request, todo>>
  BY DEF Call, Inv, Waiting, Elements
<1>2. CASE outcome' = "ok" /\ effect' = (request.op \in Changes) /\ at' = "write" /\ statuses' = statuses
  <2>1. effect' \in BOOLEAN
    BY <1>2
  <2>2. effect' <=> request.op \in Changes
    BY <1>2
  <2> QED
    BY <1>1, <1>2, <2>1, <2>2 DEF Inv, Waiting, KeyRight
<1>3. ASSUME NEW kind \in Refusals[request.op] \cup {"internal"}, outcome' = kind,
             effect' \in {FALSE, MayLeaveEffect(request.op, kind)}, Problem(kind, "write")
      PROVE  Inv'
  <2>1. at' = "answered" /\ statuses' = <<StatusFor(kind)>>
    BY <1>1, <1>3 DEF Problem
  <2>2. CASE kind = "internal"
    <3>1. StatusFor(kind) = 500
      BY <2>2 DEF StatusFor
    <3>2. (effect' => request.op \in Changes) /\ effect' \in BOOLEAN
      BY <1>3, <2>2 DEF MayLeaveEffect
    <3>3. Failed(500)'
      BY <1>1, <1>3, <2>2, <3>2 DEF Failed, KeyRight
    <3>4. Answered(500)' /\ statuses' = <<500>> /\ 500 \in Statuses
      BY <2>1, <3>1, <3>3 DEF Answered, Statuses
    <3> QED
      BY <1>1, <2>1, <3>2, <3>4 DEF Inv, Waiting
  <2>3. CASE kind # "internal"
    <3>1. kind \in Refusals[request.op] /\ StatusFor(kind) \in Statuses
      BY <1>1, <2>3, RefusalStatus DEF Statuses
    <3>2. effect' = FALSE
      BY <1>3, <2>3 DEF MayLeaveEffect
    <3> QED
      BY <1>1, <1>3, <2>1, <3>1, <3>2 DEF Inv, Waiting, Answered, Refused, KeyRight
  <2> QED
    BY <2>2, <2>3
<1> QED
  BY <1>2, <1>3 DEF Call

LEMMA WriteInv ==
    ASSUME Inv, Write
    PROVE  Inv'
<1>1. /\ at = "write" /\ statuses = <<>> /\ outcome = "ok" /\ request.flaws = {} /\ KeyRight
      /\ effect <=> request.op \in Changes
      /\ request.op \in Operations /\ request.flaws \in Flawed(request.op)
      /\ at' = "answered" /\ UNCHANGED <<request, todo, outcome, effect>>
  BY DEF Write, Inv, Waiting
<1>2. statuses' = <<Success[request.op]>>
  BY <1>1 DEF Write
<1>3. Success[request.op] \in Statuses
  BY <1>1, SuccessStatus DEF Statuses
<1> QED
  BY <1>1, <1>2, <1>3 DEF Inv, Waiting, Answered, Served, KeyRight

LEMMA PanicInv ==
    ASSUME Inv, Panic
    PROVE  Inv'
<1>1. /\ at \in {"key", "checks", "write"} /\ statuses = <<>>
      /\ request.op \in Operations /\ request.flaws \in Flawed(request.op)
      /\ at' = "answered" /\ outcome' = "internal" /\ UNCHANGED <<request, todo, effect>>
      /\ effect \in BOOLEAN
      /\ effect => request.op \in Changes /\ request.flaws = {} /\ KeyRight
  BY DEF Panic, Inv, Waiting, Untouched
<1>2. statuses' = <<500>>
  BY <1>1 DEF Panic
<1> QED
  BY <1>1, <1>2 DEF Inv, Waiting, Answered, Failed, KeyRight, Statuses

\* The adapter answers as Inv says, in every state it can be in.
THEOREM HttpInvariance == Spec => []Inv
<1>1. Init => Inv
  BY DEF Init, Inv, Waiting, Untouched
<1>2. Inv /\ [Next]_vars => Inv'
  <2> SUFFICES ASSUME Inv, [Next]_vars PROVE Inv'
    OBVIOUS
  <2>1. CASE UNCHANGED vars
    <3>1. \A status \in Statuses : Answered(status)' <=> Answered(status)
      BY <2>1 DEF vars, Answered, Unauthorised, FoundFlawed, Served, Refused, Failed, Untouched, KeyRight
    <3> QED
      BY <2>1, <3>1 DEF vars, Inv, Waiting, Untouched, KeyRight, Elements
  <2> QED
    BY <2>1, ArriveInv, RequireStaffKeyInv, CheckInv, CallInv, WriteInv, PanicInv DEF Next
<1> QED
  BY <1>1, <1>2, PTL DEF Spec

-----------------------------------------------------------------------------
(* What follows of an answer *)

\* A request is answered once, and by its service only if nothing is wrong with it.
THEOREM AnsweredOnce == Spec => []OneAnswer
<1>1. Inv => OneAnswer
  <2> SUFFICES ASSUME Inv PROVE OneAnswer
    OBVIOUS
  <2>1. CASE at = "answered"
    <3>1. PICK status \in Statuses : statuses = <<status>> /\ Answered(status)
      BY <2>1 DEF Inv
    <3>2. outcome = "ok" => request.flaws = {}
      <4>1. "ok" \notin Refusals[request.op]
        BY <2>1, RefusalStatus DEF Inv
      <4> QED
        BY <3>1, <4>1, NoneAssumption DEF Answered, Unauthorised, FoundFlawed, Served, Refused, Failed, Untouched
    <3> QED
      BY <2>1, <3>1, <3>2 DEF OneAnswer
  <2>2. CASE at # "answered"
    BY <2>2, NoneAssumption DEF Inv, Waiting, Untouched, OneAnswer
  <2> QED
    BY <2>1, <2>2
<1> QED
  BY <1>1, HttpInvariance, PTL

\* A success says that the change was made, a 4xx that none was.
THEOREM StatusesTell == Spec => []StatusTellsEffect
<1>1. Inv => StatusTellsEffect
  <2> SUFFICES ASSUME Inv, at = "answered"
               PROVE  /\ statuses[1] < 300 => effect = (request.op \in Changes)
                      /\ statuses[1] \in 400 .. 499 => ~effect
    BY DEF StatusTellsEffect
  <2>1. PICK status \in Statuses : statuses = <<status>> /\ Answered(status)
    BY DEF Inv
  <2>2. request.op \in Operations
    BY DEF Inv
  <2>3. Served(status) => status \in {200, 201, 204}
    BY <2>2, SuccessStatus DEF Served
  <2>4. Refused(status) => status \in {400, 404, 409, 422}
    BY <2>2, RefusalStatus DEF Refused
  <2>5. /\ status < 300 => (effect <=> request.op \in Changes)
        /\ status \in 400 .. 499 => ~effect
    BY <2>1, <2>3, <2>4 DEF Answered, Unauthorised, FoundFlawed, Served, Refused, Failed, Untouched
  <2>6. effect \in BOOLEAN
    BY DEF Inv
  <2>7. (effect <=> request.op \in Changes) => effect = (request.op \in Changes)
    BY <2>6
  <2> QED
    BY <2>1, <2>5, <2>7
<1> QED
  BY <1>1, HttpInvariance, PTL

\* Without the staff key no staff service is called, and the answer is the same
\* 401 whatever else is wrong, unless the process panics.
THEOREM NothingWithoutTheKey == Spec => []StaffNeedsKey
<1>1. Inv => StaffNeedsKey
  <2> SUFFICES ASSUME Inv, at # "away", request.op \in Staff, request.key # "right"
               PROVE  /\ ~effect /\ outcome \in {None, "internal"}
                      /\ at = "answered" => statuses[1] \in {401, 500}
    BY DEF StaffNeedsKey
  <2>1. ~KeyRight
    BY DEF KeyRight
  <2>2. CASE at = "answered"
    <3>1. PICK status \in Statuses : statuses = <<status>> /\ Answered(status)
      BY <2>2 DEF Inv
    <3> QED
      BY <2>1, <3>1 DEF Answered, Unauthorised, FoundFlawed, Served, Refused, Failed, Untouched, Inv
  <2>3. CASE at # "answered"
    BY <2>1, <2>3 DEF Inv, Waiting, Untouched
  <2> QED
    BY <2>2, <2>3
<1> QED
  BY <1>1, HttpInvariance, PTL

\* What a handler refuses is documented, and what its service does, but for the
\* 404 of a PUT.
LEMMA DocumentedTables ==
    ASSUME NEW op \in Operations
    PROVE  /\ Success[op] \in Documented[op]
           /\ \A kind \in Refusals[op] :
                  \/ StatusFor(kind) \in Documented[op]
                  \/ kind = "not_found" /\ StatusFor(kind) = 404 /\ op \in Puts
           /\ op \in Staff => 401 \in Documented[op]
           /\ Checks[op] # <<>> => 400 \in Documented[op]
<1> USE DEF Documented, Success, Operations, Checks, Refusals, StatusFor, Staff, Puts
<1>1. op \in {"availability", "reserve", "read", "cancel", "inventory", "rates", "list"}
  OBVIOUS
<1>2. CASE op = "availability"
  BY <1>2
<1>3. CASE op = "reserve"
  BY <1>3
<1>4. CASE op = "read"
  BY <1>4
<1>5. CASE op = "cancel"
  BY <1>5
<1>6. CASE op = "list"
  BY <1>6
<1>7. CASE op = "inventory"
  BY <1>7
<1>8. CASE op = "rates"
  BY <1>8
<1> QED
  BY <1>1, <1>2, <1>3, <1>4, <1>5, <1>6, <1>7, <1>8

\* Each of the seven operations is answered by a status the API description lists
\* for it, with two exceptions: 500, to a failure only, and the 404 that a PUT with
\* the key and without a flaw gets for what is not in the catalogue.
THEOREM StatusesDocumented == Spec => []DocumentedStatus
<1>1. Inv => DocumentedStatus
  <2> SUFFICES ASSUME Inv, at = "answered"
               PROVE  \/ statuses[1] \in Documented[request.op]
                      \/ statuses[1] = 500 /\ outcome = "internal"
                      \/ /\ statuses[1] = 404 /\ outcome = "not_found"
                         /\ request.op \in Puts /\ request.key = "right" /\ request.flaws = {}
    BY DEF DocumentedStatus
  <2>1. PICK status \in Statuses : statuses = <<status>> /\ Answered(status)
    BY DEF Inv
  <2>2. request.op \in Operations /\ (request.op \in Puts => request.op \in Staff)
    BY DEF Inv, Puts, Staff
  <2>3. CASE Unauthorised(status) \/ Served(status)
    BY <2>1, <2>2, <2>3, DocumentedTables DEF Unauthorised, Served
  <2>4. CASE FoundFlawed(status)
    <3>1. request.flaws \subseteq Elements(Checks[request.op])
      BY <2>2, FlawsAreAhead DEF Inv
    <3>2. Checks[request.op] # <<>>
      BY <2>4, <3>1 DEF FoundFlawed, Elements
    <3> QED
      BY <2>1, <2>2, <2>4, <3>2, DocumentedTables DEF FoundFlawed
  <2>5. CASE Refused(status)
    BY <2>1, <2>2, <2>5, DocumentedTables DEF Refused, KeyRight
  <2>6. CASE Failed(status)
    BY <2>1, <2>6 DEF Failed
  <2> QED
    BY <2>1, <2>3, <2>4, <2>5, <2>6 DEF Answered
<1> QED
  BY <1>1, HttpInvariance, PTL
=============================================================================
