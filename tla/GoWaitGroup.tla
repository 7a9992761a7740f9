---------------------------- MODULE GoWaitGroup ----------------------------
(***************************************************************************)
(* sync.WaitGroup of the Go runtime the code is built with (go 1.18): one  *)
(* word holding the counter and the number of waiters, and a semaphore.    *)
(* Here the waiters are the set of the callers asleep in Wait, and "woken" *)
(* those the semaphore released that have not run yet.  A Done that brings *)
(* the counter to zero with waiters asleep goes on, in a second step, to   *)
(* zero the word and release them (Release).                               *)
(***************************************************************************)
EXTENDS Integers

WaitGroups(Callers) ==
    [counter : Int, waiters : SUBSET Callers, woken : SUBSET Callers]

NewWaitGroup == [counter |-> 0, waiters |-> {}, woken |-> {}]

\* Between the decrement to zero and the reset of the word.
Releasing(g) == g.counter = 0 /\ g.waiters # {}

\* "WaitGroup misuse: Add called concurrently with Wait"
AddPanics(g) == Releasing(g)
\* "negative WaitGroup counter"
DonePanics(g) == g.counter <= 0
\* "WaitGroup is reused before previous Wait has returned"
WakePanics(g) == g.counter # 0 \/ g.waiters # {}

Add(g)     == [g EXCEPT !.counter = @ + 1]
Done(g)    == [g EXCEPT !.counter = @ - 1]
Release(g) == [counter |-> 0, waiters |-> {}, woken |-> g.woken \cup g.waiters]

WaitReturnsAtOnce(g) == g.counter = 0
Sleep(g, c) == [g EXCEPT !.waiters = @ \cup {c}]
Wake(g, c)  == [g EXCEPT !.woken = @ \ {c}]
=============================================================================
