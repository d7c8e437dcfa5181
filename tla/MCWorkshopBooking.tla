-------------------------- MODULE MCWorkshopBooking --------------------------
(***************************************************************************)
(* Instances of WorkshopBooking for TLC: two phones of one member, and     *)
(* a workshop of another.                                                  *)
(***************************************************************************)
EXTENDS WorkshopBooking, TLC

CONSTANTS ann, bob, org,    \* members
          phone, tablet     \* devices

MCMembers == {ann, bob, org}

MCDevices == {phone, tablet}

OneMember == phone :> ann @@ tablet :> ann

OnePhone == phone :> ann

OrderSymmetry == Permutations(OrderIds)
=============================================================================
