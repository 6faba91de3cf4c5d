----------------------------- MODULE MCTmWheel ------------------------------
(* TmWheel on small wheels whose timers are interchangeable.               *)
EXTENDS TmWheel, TLC

\* Unit for a wheel of SLOT slots a ring.
Unit2 == [i \in 0 .. RING |-> 2 ^ i]

TimerSymmetry == Permutations(Timer)
=============================================================================
