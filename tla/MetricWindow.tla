---------------------------- MODULE MetricWindow ----------------------------
(***************************************************************************)
(* The window of time that aws_monitor.go asks CloudWatch for, and the     *)
(* data point it takes from the answer: times and durations are integers   *)
(* of any unit.  Of several points CloudWatch sends the newest first, and  *)
(* the point of time t covers the period that begins at t.                 *)
(***************************************************************************)
EXTENDS Integers

NotConfigured == -1 \* of a rounding period that the job does not have
NoPoint == -1

\* The longest of a job's metrics, of the job or else the default.
InputLength(default, jobLength, lengths) ==
    LET length == IF jobLength > 0 THEN jobLength ELSE default
        all == {length} \cup lengths
    IN  CHOOSE l \in all : \A k \in all : k <= l

\* What the end of the window is rounded to, for metrics of one period.
RoundingPeriod(default, configured, period) ==
    IF configured # NotConfigured THEN configured
    ELSE IF period < default THEN period ELSE default

\* Go's Time.Round: to the nearest multiple, up when it is halfway.
RoundTime(t, d) == LET r == t % d IN IF r + r < d THEN t - r ELSE t + (d - r)

\* Mutant of RoundedNow: to the nearest multiple, not down.
RoundedNearest(now, rounding) == IF rounding > 0 THEN RoundTime(now, rounding) ELSE now

RoundedNow(now, rounding) ==
    IF rounding > 0 THEN RoundTime(now - rounding \div 2, rounding) ELSE now

Window(now, rounding, length, delay) ==
    [start |-> RoundedNow(now, rounding) - (length + delay),
     end |-> RoundedNow(now, rounding) - delay]

\* The newest point that begins in the window, the end excluded.
LastBegun(end, period) == ((end - 1) \div period) * period
Newest(w, period) ==
    IF LastBegun(w.end, period) >= w.start THEN LastBegun(w.end, period) ELSE NoPoint
=============================================================================
