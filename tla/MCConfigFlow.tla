----------------------------- MODULE MCConfigFlow -----------------------------
(* ConfigFlow for TLC: neither the entries nor the forms are told apart.       *)
EXTENDS ConfigFlow, TLC

Symmetry == Permutations(Entries) \cup Permutations(Flows)
===============================================================================
