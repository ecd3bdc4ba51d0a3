------------------------- MODULE MCSynthesisCohort -------------------------
(* Small instances of SynthesisCohort: `a` and `b` are new, `c` revises with  *)
(* the rule of `a`, `d` keeps its source's entry rule.                         *)
EXTENDS SynthesisCohort

CONSTANTS a, b, c, d, ruleA, ruleB, x, y

MCRuleOf == [i \in Ideas |-> IF i = b THEN ruleB ELSE ruleA]

\* `a` is traded on two routes, the others on one of them.
WideRoutes == [i \in Ideas |-> IF i = a THEN {x, y} ELSE IF i = b THEN {x} ELSE {y}]
WideLead   == [i \in Ideas |-> IF i \in {a, b} THEN x ELSE y]

\* Every idea is traded on one route.
OneRoute == [i \in Ideas |-> {x}]
OneLead  == [i \in Ideas |-> x]
=============================================================================
