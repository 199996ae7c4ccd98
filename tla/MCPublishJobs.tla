--------------------------- MODULE MCPublishJobs ---------------------------
(* Instances of PublishJobs for TLC. *)
EXTENDS PublishJobs, TLC

Interchangeable == Permutations(Jobs) \cup Permutations(Handlers)
=============================================================================
