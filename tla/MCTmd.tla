------------------------------- MODULE MCTmd --------------------------------
(* Tmd with arguments clients may send.                                    *)
EXTENDS Tmd

\* Delays a client may send, a negative one among them.
SignedDelays == {-1, 0, 2}
=============================================================================
