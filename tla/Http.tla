-------------------------------- MODULE Http --------------------------------
(***************************************************************************)
(* The HTTP adapter: how a request passes the router, the staff key and    *)
(* the checks of its handler on the way to a service, and what becomes of  *)
(* each outcome. internal/adapter/rest.                                    *)
(*                                                                         *)
(* A handler checks one thing after the other and writes a problem at the  *)
(* first that fails. What the service does is one step here: it commits,   *)
(* refuses, or fails at a point that may be after its commit.              *)
(***************************************************************************)
EXTENDS Integers, Sequences

CONSTANT None       \* no outcome, no request

ASSUME NoneAssumption ==
    None \notin {"ok", "invalid", "not_found", "conflict", "unprocessable",
                 "unauthenticated", "internal"}

VARIABLES
    at,         \* where the request is
    request,    \* operation, staff key, and what is wrong with it
    todo,       \* the checks its handler has not made
    outcome,    \* history: what the service came to, None if it was not called
    effect,     \* has the service committed a change?
    statuses    \* written to the response, in order

vars == <<at, request, todo, outcome, effect, statuses>>

-----------------------------------------------------------------------------
(* The tables of the adapter *)

\* What a handler checks before it calls its service, in this order. All of
\* these are Invalid.
Checks == [
    availability |-> <<"propertyID", "check_in", "check_out", "stay", "guests">>,
    reserve      |-> <<"key missing", "key too long", "body", "stay">>,
    read         |-> <<>>,
    cancel       |-> <<>>,
    inventory    |-> <<"roomTypeID", "body">>,
    rates        |-> <<"ratePlanID", "body">>,
    list         |-> <<"propertyID", "from", "to">>]

Operations == DOMAIN Checks

\* The routes behind RequireStaffKey.
Staff == {"inventory", "rates", "list"}

Changes == {"reserve", "cancel", "inventory", "rates"}

\* The kinds of errors the services answer with, beside Internal. The 422 of a
\* release is not among those of a cancel: Reservations!ReleaseAccepted.
Refusals == [
    availability |-> {"invalid", "not_found"},
    reserve      |-> {"invalid", "not_found", "conflict", "unprocessable"},
    read         |-> {"not_found"},
    cancel       |-> {"not_found", "conflict"},
    inventory    |-> {"invalid", "not_found", "conflict"},
    rates        |-> {"invalid", "not_found"},
    list         |-> {"invalid"}]

\* Mutant: a kind is forgotten, and falls to the default.
StatusForgetful(kind) ==
    CASE kind = "invalid" -> 400
      [] kind = "not_found" -> 404
      [] kind = "conflict" -> 409
      [] kind = "unauthenticated" -> 401
      [] OTHER -> 500

\* statusFor
StatusFor(kind) ==
    CASE kind = "invalid" -> 400
      [] kind = "not_found" -> 404
      [] kind = "conflict" -> 409
      [] kind = "unprocessable" -> 422
      [] kind = "unauthenticated" -> 401
      [] OTHER -> 500

Success == [op \in Operations |-> CASE op = "reserve" -> 201
                                    [] op \in {"inventory", "rates"} -> 204
                                    [] OTHER -> 200]

-----------------------------------------------------------------------------
(* A request *)

Flawed(op) == SUBSET {Checks[op][i] : i \in DOMAIN Checks[op]}

Arrive ==
    \E op \in Operations, key \in {"none", "wrong", "right"} : \E flaws \in Flawed(op) :
        /\ at \in {"away", "answered"}
        /\ request' = [op |-> op, key |-> key, flaws |-> flaws]
        /\ at' = IF op \in Staff THEN "key" ELSE "checks"
        /\ todo' = Checks[op]
        /\ outcome' = None
        /\ effect' = FALSE
        /\ statuses' = <<>>

\* Mutant: the problem is written, and the handler goes on: no return.
ProblemGoesOn(kind, next) ==
    /\ statuses' = Append(statuses, StatusFor(kind))
    /\ at' = next

\* writeProblem, and the return after it.
Problem(kind, next) ==
    /\ statuses' = Append(statuses, StatusFor(kind))
    /\ at' = "answered"

\* Mutant: a token is enough, whatever it says.
KeyPresented(key) == key # "none"

\* bearerToken and the comparison of the hashes.
KeyAccepted(key) == key = "right"

RequireStaffKey ==
    /\ at = "key"
    /\ IF KeyAccepted(request.key)
       THEN at' = "checks" /\ UNCHANGED statuses
       ELSE Problem("unauthenticated", "checks")
    /\ UNCHANGED <<request, todo, outcome, effect>>

Check ==
    /\ at = "checks"
    /\ todo # <<>>
    /\ todo' = Tail(todo)
    /\ IF Head(todo) \in request.flaws
       THEN Problem("invalid", "checks")
       ELSE UNCHANGED <<at, statuses>>
    /\ UNCHANGED <<request, outcome, effect>>

\* Mutant: what a refused transaction has done stays.
RefusedMayLeaveEffect(op, kind) == op \in Changes

\* An error after the commit is Internal: the commit itself, whose answer may be
\* lost. All other errors roll back.
MayLeaveEffect(op, kind) == op \in Changes /\ kind = "internal"

Call ==
    /\ at = "checks"
    /\ todo = <<>>
    /\ \/ /\ outcome' = "ok"
          /\ effect' = (request.op \in Changes)
          /\ at' = "write"
          /\ UNCHANGED statuses
       \/ \E kind \in Refusals[request.op] \cup {"internal"} :
              /\ outcome' = kind
              /\ effect' \in {FALSE, MayLeaveEffect(request.op, kind)}
              /\ Problem(kind, "write")
    /\ UNCHANGED <<request, todo>>

\* writeJSON, or WriteHeader with no content.
Write ==
    /\ at = "write"
    /\ statuses' = Append(statuses, Success[request.op])
    /\ at' = "answered"
    /\ UNCHANGED <<request, todo, outcome, effect>>

\* A panic before the answer is written, perhaps after the commit: Recoverer.
Panic ==
    /\ at \in {"key", "checks", "write"}
    /\ statuses' = Append(statuses, 500)
    /\ outcome' = "internal"
    /\ at' = "answered"
    /\ UNCHANGED <<request, todo, effect>>

Init ==
    /\ at = "away"
    /\ request = None
    /\ todo = <<>>
    /\ outcome = None
    /\ effect = FALSE
    /\ statuses = <<>>

Next == Arrive \/ RequireStaffKey \/ Check \/ Call \/ Write \/ Panic

Spec == Init /\ [][Next]_vars

-----------------------------------------------------------------------------
(* Properties *)

\* A request is answered once, and the service is not called after a refusal:
\* in Go each writeProblem needs the return after it.
OneAnswer ==
    /\ Len(statuses) = (IF at = "answered" THEN 1 ELSE 0)
    /\ outcome = "ok" => request.flaws = {}

\* What a status says of the tables: a success that the change was made, a 4xx
\* that nothing was. Only 500 leaves it open, and only a retry tells.
StatusTellsEffect ==
    at = "answered" =>
        /\ statuses[1] < 300 => effect = (request.op \in Changes)
        /\ statuses[1] \in 400 .. 499 => ~effect

\* A staff service is reached with the key only, and whoever lacks it learns
\* nothing of his request: the answer is 401 however else it is flawed.
StaffNeedsKey ==
    at # "away" /\ request.op \in Staff /\ request.key # "right" =>
        /\ ~effect /\ outcome \in {None, "internal"}
        /\ at = "answered" => statuses[1] \in {401, 500}

\* What staff write.
Puts == {"inventory", "rates"}

\* The statuses src/api/openapi.yaml lists for each operation.
Documented == [
    availability |-> {200, 400, 404},
    reserve      |-> {201, 400, 404, 409, 422},
    read         |-> {200, 404},
    cancel       |-> {200, 404, 409},
    inventory    |-> {204, 400, 401, 409},
    rates        |-> {204, 400, 401},
    list         |-> {200, 400, 401}]

\* Two answers only are not listed: 500, to a failure and to nothing else, and
\* the 404 of a PUT, which staff get who have the key and whose request has no
\* flaw but a room type or a plan that does not exist (staff.go:35, 46).
DocumentedStatus ==
    at = "answered" =>
        \/ statuses[1] \in Documented[request.op]
        \/ statuses[1] = 500 /\ outcome = "internal"
        \/ /\ statuses[1] = 404 /\ outcome = "not_found"
           /\ request.op \in Puts /\ request.key = "right" /\ request.flaws = {}
=============================================================================
