------------------------------- MODULE MCChat -------------------------------
(***************************************************************************)
(* Instances of Chat for TLC: ann opens the conversation twice, bob once.  *)
(***************************************************************************)
EXTENDS Chat, TLC

CONSTANTS ann, bob

MCMembers == {ann, bob}

MCOwner == 1 :> ann @@ 2 :> ann @@ 3 :> bob

MCSizes == {<<3, 0>>, <<2, 1>>}
=============================================================================
