---------------------------- MODULE MCConnection ----------------------------
(* Instances of Connection for TLC. *)
EXTENDS Connection, TLC

CONSTANTS m1, m2, openai

AllServed == [m \in Models |-> Protocols]
SymModels == Permutations(Models)
SymBoth == Permutations(Models) \cup Permutations(Procs)
=============================================================================
