SPECIFICATION FairSpec
CONSTANTS
    ann = ann
    bob = bob
    Members <- MCMembers
    Devices = {phone}
    NoMember = NoMember
    NoUser = NoUser
    Names = {n1, n2}
    Events = {"kill", "error", "reject"}
INVARIANTS
    TypeOK
    ActsAsSignedIn
    AccountsHaveProfiles
    GreetingCurrent
PROPERTIES
    KnownAfterLaunch
