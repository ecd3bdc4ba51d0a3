---------------------------- MODULE MCWorkQueue ----------------------------
(* Instances of WorkQueue for TLC: process and item ids are model values.      *)
(* No symmetry is declared: HpoItems and GatedItems tell items apart, and the   *)
(* liveness run could not use it.                                              *)
EXTENDS WorkQueue

CONSTANTS s1, s2, w1, a, b, None

=============================================================================
