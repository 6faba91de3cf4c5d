------------------------------- MODULE MCSys -------------------------------
(* The three firmwares of the smallest product, each booted in vain twice  *)
(* before it is bad.                                                       *)
EXTENDS Sys

TwoVersions == 1 .. 2
=============================================================================
