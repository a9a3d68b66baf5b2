--------------------------- MODULE MCCredentialFile ---------------------------
(* Instances of CredentialFile for TLC. *)
EXTENDS CredentialFile, TLC
SymProcs == Permutations(Procs)
=============================================================================
