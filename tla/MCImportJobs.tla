---------------------------- MODULE MCImportJobs ----------------------------
(* Instances of ImportJobs for TLC: good files, one with a dataset that a   *)
(* human must resolve, and one that cannot be read.                        *)
EXTENDS ImportJobs, TLC

CONSTANTS good, mixed, junk

MixedFirst  == {<<mixed, 1>>}
MixedSecond == {<<mixed, 2>>}

Executors == Permutations(Workers)
=============================================================================
