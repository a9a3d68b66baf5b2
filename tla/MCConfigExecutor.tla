-------------------------- MODULE MCConfigExecutor --------------------------
(* Instances of ConfigExecutor for TLC. *)
EXTENDS ConfigExecutor, TLC

CONSTANTS f1, f2, hermes, codex

OneIntegration == (hermes :> {f1})
BothFiles == (hermes :> {f1, f2})
TwoIntegrations == (hermes :> {f1}) @@ (codex :> {f2})

StrictClock == {1}
SteppedBack == {1, -1}

(* Safety runs only: contents of one author are interchangeable, and so are *)
(* the files of one integration. *)
SymFiles == Permutations(Files) \cup Permutations(UserContents) \cup Permutations(ToolContents)
SymContents == Permutations(UserContents) \cup Permutations(ToolContents)
=============================================================================
