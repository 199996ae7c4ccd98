-------------------------- MODULE MCAccountLedger --------------------------
(* Instances of AccountLedger for TLC: three batches that overlap on the   *)
(* fields of a content and of an account day.                              *)
EXTENDS AccountLedger, TLC

CONSTANTS b1, b2, b3, day, video, plays, likes

OverlappingCells == [b \in Batches |->
  CASE b = b1 -> {<<day, plays>>, <<video, plays>>}
    [] b = b2 -> {<<video, plays>>, <<video, likes>>}
    [] OTHER  -> {<<day, likes>>, <<video, likes>>}]

SourcePriorities == [b \in Batches |-> IF b = b2 THEN 1 ELSE 3]

Users == Permutations(Requests)
=============================================================================
