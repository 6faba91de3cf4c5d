------------------------------- MODULE MCRsha -------------------------------
(* Instances of Rsha for model checking.                                   *)
EXTENDS Rsha

MCInterval == [m \in Modes |-> 1]
MCTimes == [m \in Modes |-> IF m = "idle" THEN 3 ELSE 2]

=============================================================================
