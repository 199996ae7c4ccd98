-------------------------- MODULE MCCompositeSkills --------------------------
(* Instances of CompositeSkills for TLC. *)
EXTENDS CompositeSkills

Third == {3}
=============================================================================
