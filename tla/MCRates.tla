------------------------------ MODULE MCRates ------------------------------
(* Small instances of Rates for TLC, and two sentences of the API description. *)
EXTENDS RatesInvariant

\* Bodies in order of date and one that is not, so that three requests wait in
\* a circle; a date named twice; minimum stays that wrap to one and below one.
MCBodies == {
    <<>>, <<Entry(1, -1, 1)>>,
    <<Entry(1, 1, 1), Entry(2, 1, 1)>>,
    <<Entry(2, 2, 1), Entry(3, 2, 1)>>,
    <<Entry(3, 1, 1), Entry(1, 1, 1)>>,
    <<Entry(1, 1, 1), Entry(1, 2, 1)>>,
    <<Entry(1, 1, 65537)>>, <<Entry(3, 1, 40000)>>}

MCDates == 1 .. 3

MCFewBodies == {<<Entry(1, 7, 65537)>>, <<Entry(1, None, 1)>>, <<Entry(1, None, None)>>}

Answered204(p) == pc[p] = "upsert" /\ pc'[p] = "idle" /\ answer'[p] = "204"

\* A rate of the body has the fields the API description requires of it:
\* decode cannot tell a price that is missing from a price of zero.
RequiredFields ==
    [][\A p \in Procs : Answered204(p) =>
         \A i \in DOMAIN request[p].body :
             None \notin {request[p].body[i].date, request[p].body[i].price,
                          request[p].body[i].minStay}]_vars

\* PUT .../rates answers 204 "published" when the minimum stay is the one the
\* body asked for: rates.go:78 narrows it to int16.
PublishedMinStay ==
    [][\A p \in Procs : Answered204(p) =>
         \A i \in DOMAIN request[p].body :
             LET entry == request[p].body[i] IN
             entry.minStay = calendar'[request[p].plan][entry.date].minStay]_vars
=============================================================================
