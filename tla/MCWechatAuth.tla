----------------------------- MODULE MCWechatAuth -----------------------------
(* Instances of WechatAuth for TLC. *)
EXTENDS WechatAuth, TLC

Interchangeable == Permutations(Orgs) \cup Permutations(Sessions) \cup Permutations(Workers)
=============================================================================
