-------------------------- MODULE MCResearchMemory --------------------------
(* A small instance of ResearchMemory: one experiment with one finished run;   *)
(* several runs of an experiment are left to the theorems.                      *)
EXTENDS ResearchMemory

CONSTANTS e1, r1, r2, analyzer, sanitizer

MCRunOf == [r \in Runs |-> e1]
=============================================================================
