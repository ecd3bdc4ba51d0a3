-------------------------- MODULE MCDirectSession --------------------------
(* Instances of DirectSession for TLC.  Executors are interchangeable.          *)
EXTENDS DirectSession, TLC

CONSTANTS e1, e2

Symmetry == Permutations(Executors)

=============================================================================
