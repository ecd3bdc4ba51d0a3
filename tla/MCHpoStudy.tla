----------------------------- MODULE MCHpoStudy -----------------------------
(* Small instances of HpoStudy. *)
EXTENDS HpoStudy

=============================================================================
