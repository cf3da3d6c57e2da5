---------------------------- MODULE MCCounterUse ----------------------------
(* Instances of CounterUse for TLC. *)
EXTENDS CounterUse, TLC

CONSTANTS main, w1, w2, other, c1

Do(what)      == [op |-> what, ctr |-> c1]
By(what, n)   == [op |-> what, ctr |-> c1, by |-> n]
WaitFor(n)    == [op |-> "wait", ctr |-> c1, target |-> n]
Nothing       == [f \in {main, w1, w2, other} |-> <<>>]

\* Fork and join: two jobs, of which either can be done before the other is there.
ScriptForkJoin ==
  main :> <<Do("schedule"), Do("schedule"), WaitFor(0)>> @@
  w1 :> <<Do("finish")>> @@ w2 :> <<Do("finish")>> @@ Nothing

\* The counter as a latch: raised to 2 before the first job can lower it.
ScriptLatch ==
  main :> <<By("increment", 2), Do("submit"), Do("submit"), WaitFor(0)>> @@
  w1 :> <<Do("finish")>> @@ w2 :> <<Do("finish")>> @@ Nothing

\* Somebody else lowers it by 2 at any time, and it may wrap below 0.
ScriptWrap ==
  main :> <<By("increment", 3), Do("submit"), WaitFor(0)>> @@
  w1 :> <<Do("finish")>> @@ w2 :> <<By("decrement", 2)>> @@ Nothing

\* The wait may begin as the counter leaves its target, which it comes back to.
ScriptPassing ==
  main :> <<Do("schedule")>> @@ other :> <<WaitFor(1)>> @@
  w1 :> <<Do("schedule"), Do("finish")>> @@ Nothing

\* Two fibers wait for the same value.
ScriptTwoWaiters ==
  main :> <<Do("schedule"), WaitFor(0)>> @@ other :> <<WaitFor(0)>> @@
  w1 :> <<Do("finish")>> @@ Nothing

\* Two fibers wait for different values, while the value goes up and down.
ScriptContended ==
  main :> <<Do("schedule"), WaitFor(2)>> @@ other :> <<WaitFor(1)>> @@
  w1 :> <<Do("schedule"), Do("finish")>> @@ Nothing

\* More waits than slots, so that one may throw.
ScriptCrowded ==
  main :> <<Do("schedule"), Do("finish"), WaitFor(2)>> @@ other :> <<WaitFor(1)>> @@
  w1 :> <<WaitFor(0)>> @@ Nothing

AllScripts ==
  {ScriptForkJoin, ScriptLatch, ScriptWrap, ScriptPassing, ScriptTwoWaiters, ScriptContended,
   ScriptCrowded}
TwoWaitersOnly == {ScriptTwoWaiters}
=============================================================================
