---------------------------- MODULE MCNotePurchase ---------------------------
(***************************************************************************)
(* Instances of NotePurchase for TLC: two members with a phone each.       *)
(***************************************************************************)
EXTENDS NotePurchase, TLC

CONSTANTS ann, bob, phone, tablet

MCMembers == {ann, bob}

MCDevices == {phone, tablet}

TwoMembers == phone :> ann @@ tablet :> bob

PaymentSymmetry == Permutations(PaymentIds)
=============================================================================
