---------------------------- MODULE RateCalendar ----------------------------
(***************************************************************************)
(* What publishing rates promises: a request changes every date it names,  *)
(* at once, or nothing.                                                    *)
(***************************************************************************)
CONSTANTS RatePlans, Dates, NoRate,
          Publications      \* what a request may ask: a rate for each of some dates

VARIABLE calendar           \* by rate plan and date

Init == calendar = [plan \in RatePlans |-> [d \in Dates |-> NoRate]]

Publish(plan, rates) ==
    calendar' = [calendar EXCEPT ![plan] =
                    [d \in Dates |-> IF d \in DOMAIN rates THEN rates[d] ELSE @[d]]]

Next == \E plan \in RatePlans, rates \in Publications : Publish(plan, rates)

Spec == Init /\ [][Next]_calendar
=============================================================================
