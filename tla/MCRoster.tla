------------------------------ MODULE MCRoster ------------------------------
(***************************************************************************)
(* Instances of Roster for TLC: a chat each with two other members, and one *)
(* of the member with themselves.                                          *)
(***************************************************************************)
EXTENDS Roster, TLC

CONSTANTS me, ann, bob, c1, c2, c3

MCChats == {c1, c2, c3}

MCWith == c1 :> ann @@ c2 :> bob @@ c3 :> me
=============================================================================
