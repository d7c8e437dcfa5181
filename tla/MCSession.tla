------------------------------ MODULE MCSession ------------------------------
(***************************************************************************)
(* Instances of Session for TLC: two members who share a phone.            *)
(***************************************************************************)
EXTENDS Session, TLC

CONSTANTS ann, bob

MCMembers == {ann, bob}
=============================================================================
