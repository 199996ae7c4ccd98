---------------------------- MODULE WriteLedger ----------------------------
(***************************************************************************)
(* What the durable tool executor promises of its write calls, whoever     *)
(* executes them and however often: a call that may not be repeated        *)
(* reaches the provider at most once, a success is final, and nothing that *)
(* reached the provider unrepeatably is ever reported as failed.           *)
(***************************************************************************)
EXTENDS Naturals

CONSTANTS Calls,  \* logical write calls
          Once,   \* those the provider must not be asked for twice
          Asked   \* those that a person decides instead of the provider

VARIABLES outcome,  \* what the ledger says of a call
          sent      \* requests for it that reached the provider

Outcomes == {"open", "success", "failed", "ambiguous"}

Init == /\ outcome = [c \in Calls |-> "open"]
        /\ sent    = [c \in Calls |-> 0]

Becomes(c, o) == outcome' = [outcome EXCEPT ![c] = o] /\ UNCHANGED sent

\* A request that may not be repeated is the only one of its call.
MaySend(c) == c \in Once => sent[c] = 0

\* The call is on its way, also when somebody has come to doubt it meanwhile.
Send(c) == /\ c \notin Asked
           /\ outcome[c] \in {"open", "ambiguous"} /\ MaySend(c)
           /\ sent' = [sent EXCEPT ![c] = @ + 1]
           /\ UNCHANGED outcome

Succeed(c) == /\ outcome[c] \in {"open", "ambiguous"} /\ sent[c] > 0
              /\ Becomes(c, "success")

\* Calls that a recovery finds are settled together, in one transaction.
Become(S, o) == /\ outcome' = [c \in Calls |-> IF c \in S THEN o ELSE outcome[c]]
                /\ UNCHANGED sent

Fail(S) == /\ \A c \in S : outcome[c] \in {"open", "ambiguous"} /\ MaySend(c)
           /\ Become(S, "failed")

Doubt(S) == (\A c \in S : outcome[c] = "open") /\ Become(S, "ambiguous")

Retry(c) == outcome[c] = "failed" /\ MaySend(c) /\ Becomes(c, "open")

Decide(c) == /\ c \in Asked /\ outcome[c] = "open"
             /\ Becomes(c, "success") \/ Becomes(c, "failed")

Next == \/ \E c \in Calls : \/ Send(c)
                            \/ Succeed(c)
                            \/ Retry(c)
                            \/ Decide(c)
        \/ \E S \in SUBSET Calls : Fail(S) \/ Doubt(S)

Spec == Init /\ [][Next]_<<outcome, sent>>
=============================================================================
