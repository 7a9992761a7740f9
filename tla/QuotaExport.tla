---------------------------- MODULE QuotaExport ----------------------------
(***************************************************************************)
(* What a quota collector promises to Prometheus, whatever the provider:   *)
(* every usage and every limit of an answer was measured for its series    *)
(* since the process started, and a series stays until the process dies.   *)
(* As long as requests have come one at a time it promises more: an answer *)
(* has every series, each with a usage and a limit from one measurement.   *)
(***************************************************************************)
CONSTANTS Series, Results, Requests
VARIABLES
    measured,  \* pairs of a series and a result that some scrape measured
    shown,     \* the series that there are
    answer,    \* per request, the answer: a usage and a limit per series
    overlapped \* have two requests been in flight together?

Nothing == [x \in {} |-> 0]
NoAnswer == [usage |-> Nothing, limit |-> Nothing]
NoAnswers == [r \in Requests |-> NoAnswer]

Init == measured = {} /\ shown = {} /\ answer = NoAnswers /\ overlapped = FALSE

Measure ==
    /\ measured \subseteq measured' /\ measured' \subseteq Series \X Results
    /\ UNCHANGED <<shown, answer, overlapped>>

Show ==
    /\ shown \subseteq shown' /\ shown' \subseteq {m[1] : m \in measured}
    /\ UNCHANGED <<measured, answer, overlapped>>

RequestsOverlap == overlapped' = TRUE /\ UNCHANGED <<measured, shown, answer>>

EachIsMeasured(a) ==
    /\ \A x \in DOMAIN a.usage : \E m \in measured : m[1] = x /\ m[2].current = a.usage[x]
    /\ \A x \in DOMAIN a.limit : \E m \in measured : m[1] = x /\ m[2].limit = a.limit[x]

PairsAreMeasured(a) ==
    \A x \in DOMAIN a.usage : \E m \in measured :
        m[1] = x /\ m[2].current = a.usage[x] /\ m[2].limit = a.limit[x]

Respond(r, a) ==
    /\ EachIsMeasured(a)
    /\ ~overlapped => DOMAIN a.usage = shown /\ DOMAIN a.limit = shown /\ PairsAreMeasured(a)
    /\ answer' = [answer EXCEPT ![r] = a]
    /\ UNCHANGED <<measured, shown, overlapped>>

Finish(r) ==
    /\ answer' = [answer EXCEPT ![r] = NoAnswer]
    /\ UNCHANGED <<measured, shown, overlapped>>

Restart == measured' = {} /\ shown' = {} /\ answer' = NoAnswers /\ overlapped' = FALSE

Next ==
    \/ Measure \/ Show \/ RequestsOverlap \/ Restart
    \/ \E r \in Requests : Respond(r, answer'[r]) \/ Finish(r)

Spec == Init /\ [][Next]_<<measured, shown, answer, overlapped>>
=============================================================================
