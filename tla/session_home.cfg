SPECIFICATION Spec
CONSTANTS
    ann = ann
    bob = bob
    Members <- MCMembers
    Devices = {phone}
    NoMember = NoMember
    NoUser = NoUser
    Names = {n1, n2}
    Events = {}
INVARIANT UserKnownAtHome
