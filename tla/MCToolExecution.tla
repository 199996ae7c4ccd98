-------------------------- MODULE MCToolExecution --------------------------
(* Instances of ToolExecution for TLC: two runs write to one account.      *)
EXTENDS ToolExecution, TLC

CONSTANTS r1, r2, a1, s1, s2, pay, post, ask, look

RunOfCall == [c \in Calls |-> IF c \in {post, ask} THEN r2 ELSE r1]
OneRun     == [c \in Calls |-> r1]
OneAccount == [c \in Calls |-> a1]

OnlyPay == [c \in Calls |-> IF c = pay THEN s1 ELSE NoSkill]
Split   == [c \in Calls |-> IF c = post THEN s2 ELSE s1]

Executors == Permutations(Workers)
=============================================================================
