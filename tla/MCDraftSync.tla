---------------------------- MODULE MCDraftSync ----------------------------
(* Instances of DraftSync for TLC. *)
EXTENDS DraftSync, TLC

Interchangeable == Permutations(Keys) \cup Permutations(Executors)
=============================================================================
