------------------------------- MODULE MCSmd -------------------------------
(* One normal service and one deamon, which while it starts has two pids,  *)
(* over so few pids that they compete for them.                            *)
EXTENDS Smd

TwoPids == 1 .. 2
=============================================================================
