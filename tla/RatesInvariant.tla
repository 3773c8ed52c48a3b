--------------------------- MODULE RatesInvariant ---------------------------
(***************************************************************************)
(* The inductive invariant of Rates: an upsert has locked exactly the rows *)
(* of the entries it has done, each of them once.                          *)
(***************************************************************************)
EXTENDS Rates

RateRow == [price: Nat, minStay: 1 .. MaxMinStay, closedToArrival: {FALSE}, closedToDeparture: {FALSE}]

\* The entries of its body that p has done.
Done(p) == 1 .. done[p]

UpsertInv(p) ==
    LET body == request[p].body
        plan == request[p].plan
    IN  IF pc[p] = "idle" THEN request[p] = NoRequest /\ done[p] = 0 /\ held[p] = {}
        ELSE /\ plan \in RatePlans
             /\ body \in Bodies
             /\ body # <<>>
             /\ \A i \in DOMAIN body : EntryAccepted(body[i])
             /\ done[p] \in 0 .. Len(body)
             /\ held[p] = {<<plan, body[i].date>> : i \in Done(p)}
             /\ \A i, j \in Done(p) : body[i].date = body[j].date => i = j
             /\ \A i \in Done(p) : RowAccepted(Row(body[i]))

\* No two requests have locked the same row.
LocksExclusive == \A p, q \in Procs : p # q => held[p] \cap held[q] = {}

\* The invariant of UpsertRates, rates.go: the safety properties of Rates follow
\* from it.
Inv ==
    /\ calendar \in [RatePlans -> [Dates -> RateRow \cup {NoRate}]]
    /\ pc \in [Procs -> {"idle", "upsert"}]
    /\ request \in [Procs -> [plan: RatePlans \cup {None}, body: Bodies \cup {<<>>}]]
    /\ done \in [Procs -> Nat]
    /\ held \in [Procs -> SUBSET (RatePlans \X Dates)]
    /\ answer \in [Procs -> {None, "204", "400", "404", "500"}]
    /\ \A p \in Procs : UpsertInv(p)
    /\ LocksExclusive
=============================================================================
