------------------------------ MODULE MCEvidence ------------------------------
(* Instances of Evidence for TLC. *)
EXTENDS Evidence, TLC

CONSTANTS stream, tool, cancel

AgentLevels == (stream :> "required") @@ (tool :> "required") @@ (cancel :> "preferred")
Days == (stream :> 1) @@ (tool :> 2) @@ (cancel :> 1)
EqualDays == (stream :> 2) @@ (tool :> 2) @@ (cancel :> 2)
F(a, b, c) == (stream :> a) @@ (tool :> b) @@ (cancel :> c)
SomeFindings ==
  {F("supported", "supported", "supported"), F("supported", "supported", "unsupported"),
   F("supported", "unsupported", "supported")}
SomeClaims == {F("supported", "supported", "supported")}
Equals == Permutations(Versions) \cup Permutations(Impls)
=============================================================================
