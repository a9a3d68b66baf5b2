----------------------------- MODULE MCGatewayRun -----------------------------
(* Instances of GatewayRun for TLC. *)
EXTENDS GatewayRun, TLC

CONSTANTS m1, m2, openai

AllServed == [m \in Models |-> Protocols]
SymModels == Permutations(Models)
=============================================================================
