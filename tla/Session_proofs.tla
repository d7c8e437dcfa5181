--------------------------- MODULE Session_proofs ---------------------------
(***************************************************************************)
(* What holds of Session for any members, devices and names: the types,    *)
(* that thisUser is the member signed in, that every account has its       *)
(* document, and that the name in thisUser is the one that is saved.       *)
(***************************************************************************)
EXTENDS Session, TLAPS

-----------------------------------------------------------------------------
(***************************************************************************)
(* The invariant.                                                          *)
(***************************************************************************)
\* Where a member is signed in, and what does not outlive the application.
Screen(d) ==
    /\ signing[d] # "none" => root[d] = "landing" /\ auth[d] \in Members
    /\ root[d] = "home" => auth[d] \in Members
    /\ root[d] = "landing" /\ signing[d] = "none" => auth[d] = NoMember
    /\ root[d] = "off" =>
          /\ thisUser[d] = NoUser /\ asks[d] = {} /\ edits[d] = {}
          /\ \A x \in editing : x.device = d => x.live = FALSE

\* While the device is sure, every query is for the member signed in.
Identity(d) ==
    sure[d] => /\ thisUser[d] # NoUser => thisUser[d].member = auth[d]
               /\ \A a \in asks[d] : a.member = auth[d]

\* An older name is about to be replaced.
Current(d) ==
    thisUser[d] # NoUser /\ stale[d] = FALSE /\ thisUser[d].member \notin lost =>
        \/ thisUser[d] \in profiles \cup Unsaved(d)
        \/ Of(thisUser[d].member, asks[d]) # {}
        \/ \E x \in editing : x.device = d /\ x.user.member = thisUser[d].member

Inv ==
    /\ TypeOK /\ AccountsHaveProfiles
    /\ \A d \in Devices : Screen(d) /\ Identity(d) /\ Current(d)

-----------------------------------------------------------------------------
(***************************************************************************)
(* What queries find.                                                      *)
(***************************************************************************)
LEMMA SeenType ==
    ASSUME TypeOK, NEW d \in Devices, NEW m
    PROVE  /\ Unsaved(d) \subseteq User /\ Renamed(d) \subseteq User
           /\ Seen(d, m) \subseteq User /\ \A u \in Seen(d, m) : u.member = m
           /\ \A u \in Seen(d, m) : u \in profiles \cup Unsaved(d)
                  \/ \E x \in editing : x.device = d /\ x.user = u
<1>1. Unsaved(d) \subseteq User /\ Renamed(d) \subseteq User
    BY DEF TypeOK, Unsaved, Renamed, Adding, Editing
<1>2. profiles \cup Unsaved(d) \subseteq User
    BY <1>1 DEF TypeOK
<1>3. Seen(d, m) \subseteq Of(m, profiles \cup Unsaved(d)) \cup Of(m, Renamed(d))
    BY DEF Seen
<1>4. \A u \in Renamed(d) : \E x \in editing : x.device = d /\ x.user = u
    BY DEF Renamed
<1> QED  BY <1>1, <1>2, <1>3, <1>4 DEF Of

LEMMA NamesApart == "none" \notin Names /\ "in" \notin Names
BY SessionAssumption

-----------------------------------------------------------------------------
(***************************************************************************)
(* The types.                                                              *)
(***************************************************************************)
LEMMA RunningType ==
    ASSUME Inv, NEW d \in Devices, Running(d)
    PROVE  TypeOK'
<1> USE DEF storeVars, screenVars, flagVars
<1>0. TypeOK /\ Screen(d)
    BY DEF Inv
<1>1. CASE Launch(d)
    BY <1>0, <1>1 DEF Launch, TypeOK, Roots
<1>2. CASE SetRoot(d)
    BY <1>0, <1>2 DEF SetRoot, TypeOK, Roots, RootOf
<1>3. CASE Kill(d)
    <2>1. editing' \subseteq Editing
        <3>1. ASSUME NEW x \in editing
              PROVE  (IF x.device = d THEN [x EXCEPT !.live = FALSE] ELSE x) \in Editing
            BY <1>0 DEF TypeOK, Editing
        <3> QED  BY <1>3, <3>1 DEF Kill
    <2>2. lost' \subseteq Members
        BY <1>0, <1>3, NamesApart DEF Kill, TypeOK, Screen
    <2>3. /\ root' \in [Devices -> Roots] /\ signing' \in [Devices -> Signings]
          /\ thisUser' \in [Devices -> User \cup {NoUser}]
        BY <1>0, <1>3 DEF Kill, TypeOK, Roots, Signings
    <2>4. /\ tokenDue' \in [Devices -> BOOLEAN] /\ sure' \in [Devices -> BOOLEAN]
          /\ missed' \in [Devices -> BOOLEAN] /\ stale' \in [Devices -> BOOLEAN]
        BY <1>0, <1>3 DEF Kill, TypeOK
    <2>5. asks' \in [Devices -> SUBSET Ask] /\ edits' \in [Devices -> SUBSET User]
        BY <1>0, <1>3 DEF Kill, TypeOK
    <2> QED  BY <1>0, <1>3, <2>1, <2>2, <2>3, <2>4, <2>5 DEF Kill, Kept, TypeOK
<1>4. CASE TokenComes(d)
    <2>1. Heard(d) => [kind |-> "token", member |-> auth[d]] \in Ask
        BY <1>0 DEF Heard, TypeOK, Ask
    <2> QED  BY <1>0, <1>4, <2>1 DEF TokenComes, TypeOK
<1>5. CASE \E a \in asks[d] : Answered(d, a)
    <2>1. PICK a \in asks[d] : AskFinds(d, a) \/ AskMisses(d, a)
        BY <1>5 DEF Answered
    <2>2. asks' \in [Devices -> SUBSET Ask]
        BY <1>0, <2>1 DEF AskFinds, AskMisses, TypeOK
    <2>3. CASE AskFinds(d, a)
        <3>1. PICK u \in Seen(d, a.member) :
                  thisUser' = IF Sets(d, a) THEN [thisUser EXCEPT ![d] = u] ELSE thisUser
            BY <2>3 DEF AskFinds
        <3>2. thisUser' \in [Devices -> User \cup {NoUser}]
            BY <1>0, <3>1, SeenType DEF TypeOK
        <3>3. sure' \in [Devices -> BOOLEAN] /\ stale' \in [Devices -> BOOLEAN]
            BY <1>0, <2>3 DEF AskFinds, TypeOK
        <3> QED  BY <1>0, <2>2, <2>3, <3>2, <3>3 DEF AskFinds, TypeOK
    <2>4. CASE AskMisses(d, a)
        <3>1. missed' \in [Devices -> BOOLEAN] /\ stale' \in [Devices -> BOOLEAN]
            BY <1>0, <2>4 DEF AskMisses, TypeOK
        <3> QED  BY <1>0, <2>2, <2>4, <3>1 DEF AskMisses, TypeOK
    <2> QED  BY <2>1, <2>3, <2>4
<1> QED  BY <1>1, <1>2, <1>3, <1>4, <1>5 DEF Running

LEMMA SigningType ==
    ASSUME Inv, NEW d \in Devices, Signing(d)
    PROVE  TypeOK'
<1> USE DEF storeVars, screenVars, flagVars
<1>0. TypeOK /\ Screen(d)
    BY DEF Inv
<1>1. ASSUME NEW m \in Members, SignIn(d, m) PROVE TypeOK'
    BY <1>0, <1>1 DEF SignIn, TypeOK, Signings
<1>2. ASSUME NEW m \in Members, NEW n \in Names, SignUp(d, m, n) PROVE TypeOK'
    BY <1>0, <1>2 DEF SignUp, TypeOK, Signings
<1>3. CASE SignUpReturns(d)
    <2>1. auth[d] \in Members /\ signing[d] \in Names
        BY <1>0, <1>3, NamesApart DEF SignUpReturns, Screen
    <2>2. [device |-> d, user |-> [member |-> auth[d], name |-> signing[d]]] \in Adding
        BY <2>1 DEF Adding, User
    <2> QED  BY <1>0, <1>3, <2>2 DEF SignUpReturns, TypeOK, Signings, Roots, RootOf
<1>4. CASE SignInReturns(d)
    BY <1>0, <1>4 DEF SignInReturns, TypeOK, Signings, Roots, RootOf
<1>5. CASE SignOut(d)
    BY <1>0, <1>5 DEF SignOut, TypeOK, Roots, RootOf
<1> QED  BY <1>1, <1>2, <1>3, <1>4, <1>5 DEF Signing

LEMMA ProfileType ==
    ASSUME Inv, NEW d \in Devices, Profile(d)
    PROVE  TypeOK'
<1> USE DEF storeVars, screenVars, flagVars
<1>0. TypeOK /\ Screen(d)
    BY DEF Inv
<1>1. CASE OpenProfile(d)
    <2>1. [kind |-> "profile", member |-> auth[d]] \in Ask
        BY <1>0, <1>1 DEF OpenProfile, Screen, Ask
    <2> QED  BY <1>0, <1>1, <2>1 DEF OpenProfile, TypeOK
<1>2. ASSUME NEW n \in Names, Edit(d, n) PROVE TypeOK'
    <2>1. [member |-> auth[d], name |-> n] \in User
        BY <1>0, <1>2 DEF Edit, Screen, User
    <2> QED  BY <1>0, <1>2, <2>1 DEF Edit, TypeOK
<1>3. ASSUME NEW u \in edits[d], EditFinds(d, u) \/ EditMisses(d, u) PROVE TypeOK'
    <2>1. u \in User /\ edits' \in [Devices -> SUBSET User]
        BY <1>0, <1>3 DEF EditFinds, EditMisses, TypeOK
    <2>2. [device |-> d, user |-> u, live |-> TRUE] \in Editing
        BY <2>1 DEF Editing
    <2> QED  BY <1>0, <1>3, <2>1, <2>2 DEF EditFinds, EditMisses, TypeOK
<1> QED  BY <1>1, <1>2, <1>3 DEF Profile

LEMMA StoreType ==
    ASSUME Inv, Store
    PROVE  TypeOK'
<1> USE DEF storeVars, screenVars, flagVars
<1>0. TypeOK
    BY DEF Inv
<1>1. ASSUME NEW x \in adding, CommitProfile(x) \/ RefuseProfile(x) PROVE TypeOK'
    <2>1. x.user \in User /\ x.user.member \in Members
        BY <1>0 DEF TypeOK, Adding, User
    <2> QED  BY <1>0, <1>1, <2>1 DEF CommitProfile, RefuseProfile, TypeOK
<1>2. ASSUME NEW x \in editing, CommitEdit(x) PROVE TypeOK'
    <2>1. x.user \in User /\ x.device \in Devices
        BY <1>0 DEF TypeOK, Editing
    <2>2. FollowUp(x) \subseteq Ask
        BY <1>0, <2>1 DEF FollowUp, TypeOK, Ask
    <2>3. asks' \in [Devices -> SUBSET Ask]
        BY <1>0, <1>2, <2>1, <2>2 DEF CommitEdit, TypeOK
    <2>4. stale' \in [Devices -> BOOLEAN]
        BY <1>2 DEF CommitEdit
    <2>5. profiles' \subseteq User /\ editing' \subseteq Editing
        BY <1>0, <1>2, <2>1 DEF CommitEdit, TypeOK
    <2> QED  BY <1>0, <1>2, <2>3, <2>4, <2>5 DEF CommitEdit, TypeOK
<1>3. ASSUME NEW x \in editing, RefuseEdit(x) PROVE TypeOK'
    BY <1>0, <1>3 DEF RefuseEdit, TypeOK
<1> QED  BY <1>1, <1>2, <1>3 DEF Store

LEMMA NextType == ASSUME Inv, [Next]_vars PROVE TypeOK'
<1>1. CASE UNCHANGED vars
    BY <1>1 DEF Inv, TypeOK, vars, storeVars, screenVars, flagVars
<1> QED  BY <1>1, RunningType, SigningType, ProfileType, StoreType DEF Next

-----------------------------------------------------------------------------
(***************************************************************************)
(* The screens.                                                            *)
(***************************************************************************)
LEMMA ScreenStep ==
    ASSUME Inv, [Next]_vars, NEW p \in Devices
    PROVE  Screen(p)'
<1> USE DEF storeVars, screenVars, flagVars
<1>0. TypeOK /\ Screen(p) /\ \A d \in Devices : Screen(d)
    BY DEF Inv
<1>1. ASSUME NEW d \in Devices, Running(d) PROVE Screen(p)'
    <2>1. CASE Launch(d)
        BY <1>0, <2>1 DEF Launch, Screen, TypeOK
    <2>2. CASE SetRoot(d)
        BY <1>0, <2>2 DEF SetRoot, Screen, TypeOK, RootOf
    <2>3. CASE Kill(d)
        <3>1. CASE p = d
            <4>1. /\ root'[p] = "off" /\ signing'[p] = "none" /\ thisUser'[p] = NoUser
                  /\ asks'[p] = {} /\ edits'[p] = {}
                BY <1>0, <2>3, <3>1 DEF Kill, TypeOK
            <4>2. \A x \in editing' : x.device = d => x.live = FALSE
                BY <1>0, <2>3 DEF Kill, TypeOK, Editing
            <4> QED  BY <3>1, <4>1, <4>2 DEF Screen
        <3>2. CASE p # d
            <4>1. /\ root'[p] = root[p] /\ signing'[p] = signing[p] /\ auth'[p] = auth[p]
                  /\ thisUser'[p] = thisUser[p] /\ asks'[p] = asks[p] /\ edits'[p] = edits[p]
                BY <1>0, <2>3, <3>2 DEF Kill, TypeOK
            <4>2. \A x \in editing' : x.device = p => x \in editing
                BY <1>0, <2>3, <3>2 DEF Kill, TypeOK, Editing
            <4> QED  BY <1>0, <4>1, <4>2 DEF Screen
        <3> QED  BY <3>1, <3>2
    <2>4. CASE TokenComes(d)
        BY <1>0, <2>4 DEF TokenComes, Screen, TypeOK
    <2>5. ASSUME NEW a \in asks[d], AskFinds(d, a) PROVE Screen(p)'
        <3>1. asks[d] # {} /\ root[d] # "off"
            BY <1>0 DEF Screen
        <3>2. p # d => thisUser'[p] = thisUser[p] /\ asks'[p] = asks[p]
            BY <1>0, <2>5 DEF AskFinds, TypeOK
        <3> QED  BY <1>0, <2>5, <3>1, <3>2 DEF AskFinds, Screen
    <2>6. ASSUME NEW a \in asks[d], AskMisses(d, a) PROVE Screen(p)'
        BY <1>0, <2>6 DEF AskMisses, Screen, TypeOK
    <2> QED  BY <1>1, <2>1, <2>2, <2>3, <2>4, <2>5, <2>6 DEF Running, Answered
<1>2. ASSUME NEW d \in Devices, Signing(d) PROVE Screen(p)'
    <2>1. ASSUME NEW m \in Members, SignIn(d, m) PROVE Screen(p)'
        BY <1>0, <2>1 DEF SignIn, Screen, TypeOK
    <2>2. ASSUME NEW m \in Members, NEW n \in Names, SignUp(d, m, n) PROVE Screen(p)'
        BY <1>0, <2>2, NamesApart DEF SignUp, Screen, TypeOK
    <2>3. CASE SignUpReturns(d)
        BY <1>0, <2>3, NamesApart, SessionAssumption DEF SignUpReturns, Screen, TypeOK, RootOf
    <2>4. CASE SignInReturns(d)
        BY <1>0, <2>4, SessionAssumption DEF SignInReturns, Screen, TypeOK, RootOf
    <2>5. CASE SignOut(d)
        BY <1>0, <2>5 DEF SignOut, Screen, TypeOK, RootOf
    <2> QED  BY <1>2, <2>1, <2>2, <2>3, <2>4, <2>5 DEF Signing
<1>3. ASSUME NEW d \in Devices, Profile(d) PROVE Screen(p)'
    <2>1. CASE OpenProfile(d)
        BY <1>0, <2>1 DEF OpenProfile, Screen, TypeOK
    <2>2. ASSUME NEW n \in Names, Edit(d, n) PROVE Screen(p)'
        BY <1>0, <2>2 DEF Edit, Screen, TypeOK
    <2>3. ASSUME NEW u \in edits[d], EditFinds(d, u) PROVE Screen(p)'
        <3>1. root[d] # "off"
            BY <1>0 DEF Screen
        <3>2. root' = root /\ signing' = signing /\ auth' = auth /\ thisUser' = thisUser /\ asks' = asks
            BY <2>3 DEF EditFinds
        <3>3. \A x \in editing' : x \in editing \/ x.device = d
            BY <2>3 DEF EditFinds
        <3>4. p # d => edits'[p] = edits[p]
            BY <1>0, <2>3 DEF EditFinds, TypeOK
        <3> QED  BY <1>0, <3>1, <3>2, <3>3, <3>4 DEF Screen
    <2>4. ASSUME NEW u \in edits[d], EditMisses(d, u) PROVE Screen(p)'
        BY <1>0, <2>4 DEF EditMisses, Screen, TypeOK
    <2> QED  BY <1>3, <2>1, <2>2, <2>3, <2>4 DEF Profile
<1>4. CASE Store
    <2>1. ASSUME NEW x \in adding, CommitProfile(x) \/ RefuseProfile(x) PROVE Screen(p)'
        BY <1>0, <2>1 DEF CommitProfile, RefuseProfile, Screen
    <2>2. ASSUME NEW x \in editing, CommitEdit(x) PROVE Screen(p)'
        <3>1. x.device = p /\ root[p] = "off" => FollowUp(x) = {}
            BY <1>0 DEF Screen, FollowUp
        <3>2. asks'[p] = IF p = x.device THEN asks[p] \cup FollowUp(x) ELSE asks[p]
            BY <1>0, <2>2 DEF CommitEdit, TypeOK
        <3> QED  BY <1>0, <2>2, <3>1, <3>2 DEF CommitEdit, Screen
    <2>3. ASSUME NEW x \in editing, RefuseEdit(x) PROVE Screen(p)'
        BY <1>0, <2>3 DEF RefuseEdit, Screen
    <2> QED  BY <1>4, <2>1, <2>2, <2>3 DEF Store
<1>5. CASE UNCHANGED vars
    BY <1>0, <1>5 DEF vars, Screen
<1> QED  BY <1>1, <1>2, <1>3, <1>4, <1>5 DEF Next

-----------------------------------------------------------------------------
(***************************************************************************)
(* The member signed in. Where another can sign in nobody is, so that a    *)
(* device that is sure then knows and asks for nobody.                     *)
(***************************************************************************)
LEMMA NobodyKnown ==
    ASSUME Inv, NEW d \in Devices, sure[d], auth[d] = NoMember
    PROVE  thisUser[d] = NoUser /\ asks[d] = {}
<1>1. thisUser[d] \in User \cup {NoUser} /\ asks[d] \subseteq Ask /\ Identity(d)
    BY DEF Inv, TypeOK
<1>2. \A u \in User : u.member \in Members
    BY DEF User
<1>3. \A a \in Ask : a.member \in Members
    BY DEF Ask
<1> QED  BY <1>1, <1>2, <1>3, SessionAssumption DEF Identity

LEMMA IdentityStep ==
    ASSUME Inv, [Next]_vars, NEW p \in Devices
    PROVE  Identity(p)'
<1> USE DEF storeVars, screenVars, flagVars
<1>0. TypeOK /\ Identity(p) /\ Screen(p)
    BY DEF Inv
<1>a. ASSUME thisUser'[p] = thisUser[p], asks'[p] \subseteq asks[p], auth'[p] = auth[p],
             sure'[p] = sure[p]
      PROVE  Identity(p)'
    BY <1>0, <1>a DEF Identity
<1>1. ASSUME NEW d \in Devices, Running(d) PROVE Identity(p)'
    <2>1. CASE Launch(d)
        BY <1>0, <2>1 DEF Launch, Identity, Screen, TypeOK
    <2>2. CASE SetRoot(d)
        BY <1>a, <2>2 DEF SetRoot
    <2>3. CASE Kill(d)
        <3>1. CASE p = d
            <4>1. sure'[p] = FALSE
                BY <1>0, <2>3, <3>1 DEF Kill, TypeOK
            <4> QED  BY <4>1 DEF Identity
        <3>2. CASE p # d
            BY <1>0, <1>a, <2>3, <3>2 DEF Kill, TypeOK
        <3> QED  BY <3>1, <3>2
    <2>4. CASE TokenComes(d)
        BY <1>0, <2>4 DEF TokenComes, Identity, TypeOK
    <2>5. ASSUME NEW a \in asks[d], AskFinds(d, a) PROVE Identity(p)'
        <3>1. CASE p # d
            <4>1. thisUser'[p] = thisUser[p] /\ asks'[p] = asks[p] /\ sure'[p] = sure[p]
                BY <1>0, <2>5, <3>1 DEF AskFinds, TypeOK
            <4> QED  BY <1>a, <2>5, <4>1 DEF AskFinds
        <3>2. CASE p = d
            <4>1. auth'[p] = auth[p] /\ asks'[p] = asks[p] \ {a}
                BY <1>0, <2>5, <3>2 DEF AskFinds, TypeOK
            <4>2. sure'[p] => \A b \in asks[p] : b.member = auth[p]
                <5>1. sure'[p] = (sure[p] \/ \A b \in asks[p] : b.member = auth[p])
                    BY <1>0, <2>5, <3>2 DEF AskFinds, TypeOK
                <5> QED  BY <1>0, <5>1 DEF Identity
            <4>3. PICK u \in Seen(d, a.member) :
                      thisUser' = IF Sets(d, a) THEN [thisUser EXCEPT ![d] = u] ELSE thisUser
                BY <2>5 DEF AskFinds
            <4>4. u.member = a.member
                BY <1>0, <4>3, SeenType
            <4>5. thisUser'[p] = u \/ thisUser'[p] = NoUser
                BY <1>0, <3>2, <4>3 DEF Sets, TypeOK
            <4> QED  BY <2>5, <3>2, <4>1, <4>2, <4>4, <4>5 DEF Identity
        <3> QED  BY <3>1, <3>2
    <2>6. ASSUME NEW a \in asks[d], AskMisses(d, a) PROVE Identity(p)'
        BY <1>0, <1>a, <2>6 DEF AskMisses, TypeOK
    <2> QED  BY <1>1, <2>1, <2>2, <2>3, <2>4, <2>5, <2>6 DEF Running, Answered
<1>2. ASSUME NEW d \in Devices, Signing(d) PROVE Identity(p)'
    <2>1. ASSUME NEW m \in Members, SignIn(d, m) PROVE Identity(p)'
        <3>1. CASE p # d
            BY <1>0, <1>a, <2>1, <3>1 DEF SignIn, TypeOK
        <3>2. CASE p = d
            BY <1>0, <2>1, <3>2, NobodyKnown DEF SignIn, Screen, Identity
        <3> QED  BY <3>1, <3>2
    <2>2. ASSUME NEW m \in Members, NEW n \in Names, SignUp(d, m, n) PROVE Identity(p)'
        <3>1. CASE p # d
            BY <1>0, <1>a, <2>2, <3>1 DEF SignUp, TypeOK
        <3>2. CASE p = d
            BY <1>0, <2>2, <3>2, NobodyKnown DEF SignUp, Screen, Identity
        <3> QED  BY <3>1, <3>2
    <2>3. CASE SignUpReturns(d)
        BY <1>a, <2>3 DEF SignUpReturns
    <2>4. CASE SignInReturns(d)
        BY <1>a, <2>4 DEF SignInReturns
    <2>5. CASE SignOut(d)
        BY <1>0, <2>5 DEF SignOut, Identity, TypeOK
    <2> QED  BY <1>2, <2>1, <2>2, <2>3, <2>4, <2>5 DEF Signing
<1>3. ASSUME NEW d \in Devices, Profile(d) PROVE Identity(p)'
    <2>1. CASE OpenProfile(d)
        BY <1>0, <2>1 DEF OpenProfile, Identity, TypeOK
    <2>2. CASE ~OpenProfile(d)
        BY <1>a, <1>3, <2>2 DEF Profile, Edit, EditFinds, EditMisses
    <2> QED  BY <2>1, <2>2
<1>4. CASE Store
    <2>1. ASSUME NEW x \in editing, CommitEdit(x) PROVE Identity(p)'
        <3>1. asks'[p] = IF p = x.device THEN asks[p] \cup FollowUp(x) ELSE asks[p]
            BY <1>0, <2>1 DEF CommitEdit, TypeOK
        <3>2. \A a \in FollowUp(x) : a.member = auth[x.device]
            BY DEF FollowUp
        <3> QED  BY <1>0, <2>1, <3>1, <3>2 DEF CommitEdit, Identity
    <2> QED
        BY <1>a, <1>4, <2>1 DEF Store, CommitProfile, RefuseProfile, RefuseEdit
<1>5. CASE UNCHANGED vars
    BY <1>a, <1>5 DEF vars
<1> QED  BY <1>1, <1>2, <1>3, <1>4, <1>5 DEF Next

-----------------------------------------------------------------------------
(***************************************************************************)
(* The name. What thisUser says is saved, or queued on the device, or a    *)
(* query is to replace it, or a change of it is to be followed by one.     *)
(***************************************************************************)
LEMMA CurrentStays ==
    ASSUME NEW p \in Devices, Current(p), thisUser'[p] = thisUser[p],
           stale'[p] = FALSE => stale[p] = FALSE, lost \subseteq lost',
           profiles \cup Unsaved(p) \subseteq (profiles \cup Unsaved(p))',
           asks[p] \subseteq asks'[p],
           \A x \in editing : x.device = p =>
               \E y \in editing' : y.device = p /\ y.user = x.user
    PROVE  Current(p)'
BY DEF Current, Of

LEMMA UnsavedGrows ==
    ASSUME NEW p, adding \subseteq adding' PROVE Unsaved(p) \subseteq Unsaved(p)'
BY DEF Unsaved

LEMMA CurrentAsk ==
    ASSUME Inv, NEW d \in Devices, NEW a \in asks[d], Answered(d, a), NEW p \in Devices
    PROVE  Current(p)'
<1> USE DEF storeVars, screenVars, flagVars
<1>0. TypeOK /\ Current(p) /\ Unsaved(p) \subseteq Unsaved(p)'
    BY UnsavedGrows DEF Inv, Answered, AskFinds, AskMisses
<1>1. CASE p # d
    <2>1. profiles' = profiles /\ editing' = editing /\ lost' = lost
        BY DEF Answered, AskFinds, AskMisses
    <2>2. thisUser'[p] = thisUser[p] /\ asks'[p] = asks[p] /\ stale'[p] = stale[p]
        BY <1>0, <1>1 DEF Answered, AskFinds, AskMisses, TypeOK
    <2> QED  BY <1>0, <2>1, <2>2, CurrentStays
<1>2. CASE p = d /\ AskMisses(d, a)
    <2>1. stale'[p] = TRUE
        BY <1>0, <1>2 DEF AskMisses, TypeOK
    <2> QED  BY <2>1 DEF Current
<1>3. CASE p = d /\ AskFinds(d, a)
    <2>1. /\ profiles' = profiles /\ editing' = editing
          /\ stale'[p] = (stale[p] /\ ~Sets(d, a))
        BY <1>0, <1>3 DEF AskFinds, TypeOK
    <2>2. PICK u \in Seen(d, a.member) :
              thisUser' = IF Sets(d, a) THEN [thisUser EXCEPT ![d] = u] ELSE thisUser
        BY <1>3 DEF AskFinds
    <2>3. CASE ~Sets(d, a)
        <3>1. thisUser'[p] = NoUser
            BY <1>3, <2>2, <2>3 DEF Sets
        <3> QED  BY <3>1 DEF Current
    <2>4. CASE Sets(d, a)
        <3>1. thisUser'[p] = u
            BY <1>0, <1>3, <2>2, <2>4 DEF TypeOK
        <3>2. u \in profiles \cup Unsaved(p) \/ \E x \in editing : x.device = p /\ x.user = u
            BY <1>0, <1>3, SeenType
        <3> QED  BY <1>0, <2>1, <3>1, <3>2 DEF Current
    <2> QED  BY <2>3, <2>4
<1> QED  BY <1>1, <1>2, <1>3 DEF Answered

LEMMA CurrentStore ==
    ASSUME Inv, Store, NEW p \in Devices
    PROVE  Current(p)'
<1> USE DEF storeVars, screenVars, flagVars
<1>0. TypeOK /\ Current(p)
    BY DEF Inv
<1>1. ASSUME NEW x \in adding, CommitProfile(x) PROVE Current(p)'
    <2>1. profiles \cup Unsaved(p) \subseteq (profiles \cup Unsaved(p))'
        BY <1>1 DEF CommitProfile, Unsaved
    <2> QED  BY <1>0, <1>1, <2>1, CurrentStays DEF CommitProfile
<1>2. ASSUME NEW x \in adding, RefuseProfile(x) PROVE Current(p)'
    <2>1. \A u \in Unsaved(p) : u.member \notin lost' => u \in Unsaved(p)'
        BY <1>2 DEF RefuseProfile, Unsaved
    <2> QED  BY <1>0, <1>2, <2>1 DEF RefuseProfile, Current
<1>3. ASSUME NEW x \in editing, CommitEdit(x) PROVE Current(p)'
    <2> DEFINE m == x.user.member
    <2>0. x.device \in Devices /\ Unsaved(p)' = Unsaved(p)
        BY <1>0, <1>3 DEF TypeOK, Editing, CommitEdit, Unsaved
    <2>1. /\ profiles' = (profiles \ Of(m, profiles)) \cup {x.user}
          /\ editing' = editing \ {x} /\ lost' = lost /\ thisUser' = thisUser
          /\ asks' = [asks EXCEPT ![x.device] = @ \cup FollowUp(x)]
        BY <1>3 DEF CommitEdit
    <2>2. ASSUME stale'[p] = FALSE
          PROVE  stale[p] = FALSE /\ p = x.device /\ x.live /\ auth[p] = m
        <3>1. stale'[p] = (stale[p] \/ p # x.device \/ ~x.live \/ auth[p] # m)
            BY <1>3 DEF CommitEdit
        <3> QED  BY <1>0, <2>2, <3>1 DEF TypeOK
    <2>3. asks[p] \subseteq asks'[p]
        BY <1>0, <2>1 DEF TypeOK
    <2>4. CASE thisUser[p].member = m
        <3>1. ASSUME stale'[p] = FALSE PROVE Of(m, asks'[p]) # {}
            <4>1. auth[p] = m /\ p = x.device /\ x.live
                BY <2>2, <3>1
            <4>2. m \in Members
                BY <1>0 DEF TypeOK, Editing, User
            <4>3. [kind |-> "profile", member |-> m] \in FollowUp(x)
                BY <4>1, <4>2, SessionAssumption DEF FollowUp
            <4>4. [kind |-> "profile", member |-> m] \in asks'[p]
                BY <1>0, <2>1, <4>1, <4>3 DEF TypeOK
            <4> QED  BY <4>4 DEF Of
        <3> QED  BY <2>1, <2>4, <3>1 DEF Current
    <2>5. CASE thisUser[p].member # m
        <3>1. thisUser[p] \in profiles => thisUser[p] \in profiles'
            BY <2>1, <2>5 DEF Of
        <3>2. \A y \in editing : y.user.member = thisUser[p].member => y \in editing'
            BY <2>1, <2>5
        <3>3. Of(thisUser[p].member, asks[p]) \subseteq Of(thisUser[p].member, asks'[p])
            BY <2>3 DEF Of
        <3> QED  BY <1>0, <2>0, <2>1, <2>2, <3>1, <3>2, <3>3 DEF Current
    <2> QED  BY <2>4, <2>5
<1>4. ASSUME NEW x \in editing, RefuseEdit(x) PROVE Current(p)'
    <2>0. x.device \in Devices /\ Unsaved(p) \subseteq Unsaved(p)'
        BY <1>0, <1>4, UnsavedGrows DEF TypeOK, Editing, RefuseEdit
    <2>1. CASE p = x.device
        <3>1. stale'[p] = TRUE
            BY <1>0, <1>4, <2>1 DEF RefuseEdit, TypeOK
        <3> QED  BY <3>1 DEF Current
    <2>2. CASE p # x.device
        BY <1>0, <1>4, <2>0, <2>2, CurrentStays DEF RefuseEdit, TypeOK
    <2> QED  BY <2>1, <2>2
<1> QED  BY <1>1, <1>2, <1>3, <1>4 DEF Store

LEMMA CurrentStep ==
    ASSUME Inv, [Next]_vars, NEW p \in Devices
    PROVE  Current(p)'
<1> USE DEF storeVars, screenVars, flagVars
<1>0. TypeOK /\ Current(p)
    BY DEF Inv
<1>1. ASSUME NEW d \in Devices, Running(d) PROVE Current(p)'
    <2>1. CASE Launch(d) \/ SetRoot(d)
        <3>1. adding' = adding /\ profiles' = profiles /\ editing' = editing /\ lost' = lost
              /\ thisUser' = thisUser /\ asks' = asks /\ stale' = stale
            BY <2>1 DEF Launch, SetRoot
        <3> QED  BY <1>0, <3>1, UnsavedGrows, CurrentStays
    <2>2. CASE Kill(d)
        <3>1. CASE p = d
            <4>1. thisUser'[p] = NoUser
                BY <1>0, <2>2, <3>1 DEF Kill, TypeOK
            <4> QED  BY <4>1 DEF Current
        <3>2. CASE p # d
            <4>1. adding' = adding /\ profiles' = profiles /\ lost \subseteq lost'
                  /\ thisUser'[p] = thisUser[p] /\ asks'[p] = asks[p] /\ stale'[p] = stale[p]
                BY <1>0, <2>2, <3>2 DEF Kill, Kept, TypeOK
            <4>2. \A x \in editing : x.device = p => x \in editing'
                BY <2>2, <3>2 DEF Kill
            <4> QED  BY <1>0, <4>1, <4>2, UnsavedGrows, CurrentStays
        <3> QED  BY <3>1, <3>2
    <2>3. CASE TokenComes(d)
        <3>1. asks[p] \subseteq asks'[p]
            BY <1>0, <2>3 DEF TokenComes, TypeOK
        <3>2. adding' = adding /\ profiles' = profiles /\ editing' = editing /\ lost' = lost
              /\ thisUser' = thisUser /\ stale' = stale
            BY <2>3 DEF TokenComes
        <3> QED  BY <1>0, <3>1, <3>2, UnsavedGrows, CurrentStays
    <2>4. CASE \E a \in asks[d] : Answered(d, a)
        BY <2>4, CurrentAsk
    <2> QED  BY <1>1, <2>1, <2>2, <2>3, <2>4 DEF Running
<1>2. ASSUME NEW d \in Devices, Signing(d) PROVE Current(p)'
    <2>1. adding \subseteq adding' /\ profiles' = profiles /\ editing' = editing /\ lost' = lost
          /\ thisUser' = thisUser /\ asks' = asks /\ stale' = stale
        BY <1>2 DEF Signing, SignIn, SignUp, SignUpReturns, SignInReturns, SignOut
    <2> QED  BY <1>0, <2>1, UnsavedGrows, CurrentStays
<1>3. ASSUME NEW d \in Devices, Profile(d) PROVE Current(p)'
    <2>1. adding' = adding /\ profiles' = profiles /\ editing \subseteq editing' /\ lost' = lost
          /\ thisUser' = thisUser /\ stale' = stale
        BY <1>3 DEF Profile, OpenProfile, Edit, EditFinds, EditMisses
    <2>2. asks[p] \subseteq asks'[p]
        BY <1>0, <1>3 DEF Profile, OpenProfile, Edit, EditFinds, EditMisses, TypeOK
    <2> QED  BY <1>0, <2>1, <2>2, UnsavedGrows, CurrentStays
<1>4. CASE Store
    BY <1>4, CurrentStore
<1>5. CASE UNCHANGED vars
    BY <1>0, <1>5, UnsavedGrows, CurrentStays DEF vars
<1> QED  BY <1>1, <1>2, <1>3, <1>4, <1>5 DEF Next

-----------------------------------------------------------------------------
(***************************************************************************)
(* Accounts and documents.                                                 *)
(***************************************************************************)
HasProfile(m) ==
    \/ Of(m, profiles) # {}
    \/ \E x \in adding : x.user.member = m
    \/ \E d \in Devices : auth[d] = m /\ signing[d] \in Names

\* Steps that touch neither accounts nor what a member has.
LEMMA AccountsStay ==
    ASSUME AccountsHaveProfiles, accounts' = accounts, lost \subseteq lost',
           profiles' = profiles, adding' = adding, auth' = auth, signing' = signing
    PROVE  AccountsHaveProfiles'
BY DEF AccountsHaveProfiles, Of

LEMMA AccountsStep ==
    ASSUME Inv, [Next]_vars
    PROVE  AccountsHaveProfiles'
<1> USE DEF storeVars, screenVars, flagVars
<1>0. TypeOK /\ AccountsHaveProfiles /\ \A d \in Devices : Screen(d)
    BY DEF Inv
<1>1. ASSUME NEW d \in Devices, Kill(d) PROVE AccountsHaveProfiles'
    <2>1. \A e \in Devices : signing'[e] = IF e = d THEN "none" ELSE signing[e]
        BY <1>0, <1>1 DEF Kill, TypeOK
    <2>2. signing[d] \in Names => auth[d] \in lost'
        BY <1>1 DEF Kill
    <2>3. lost \subseteq lost' /\ accounts' = accounts /\ profiles' = profiles
          /\ adding' = adding /\ auth' = auth
        BY <1>1 DEF Kill, Kept
    <2> QED  BY <1>0, <2>1, <2>2, <2>3 DEF AccountsHaveProfiles, Of
<1>2. ASSUME NEW d \in Devices, Signing(d) PROVE AccountsHaveProfiles'
    <2> SUFFICES ASSUME NEW m \in accounts' \ lost' PROVE HasProfile(m)'
        BY DEF AccountsHaveProfiles, HasProfile, Of
    <2>1. lost' = lost /\ profiles' = profiles /\ adding \subseteq adding'
        BY <1>2 DEF Signing, SignIn, SignUp, SignUpReturns, SignInReturns, SignOut
    <2>2. ASSUME m \notin accounts PROVE HasProfile(m)'
        <3>1. PICK n \in Names : SignUp(d, m, n)
            BY <1>2, <2>2 DEF Signing, SignIn, SignUp, SignUpReturns, SignInReturns, SignOut
        <3>2. auth'[d] = m /\ signing'[d] \in Names
            BY <1>0, <3>1 DEF SignUp, TypeOK
        <3> QED  BY <3>2 DEF HasProfile
    <2>3. ASSUME m \in accounts, NEW e \in Devices, auth[e] = m, signing[e] \in Names
          PROVE  HasProfile(m)'
        <3>1. CASE e # d
            <4>1. auth'[e] = auth[e] /\ signing'[e] = signing[e]
                BY <1>0, <1>2, <3>1
                DEF Signing, SignIn, SignUp, SignUpReturns, SignInReturns, SignOut, TypeOK
            <4> QED  BY <2>3, <4>1 DEF HasProfile
        <3>2. CASE e = d
            <4>1. root[d] = "landing" /\ signing[d] # "none" /\ signing[d] # "in"
                BY <1>0, <2>3, <3>2, NamesApart DEF Screen
            <4>2. SignUpReturns(d)
                BY <1>2, <4>1 DEF Signing, SignIn, SignUp, SignInReturns, SignOut
            <4>3. [device |-> d, user |-> [member |-> m, name |-> signing[d]]] \in adding'
                BY <2>3, <3>2, <4>2 DEF SignUpReturns
            <4> QED  BY <4>3 DEF HasProfile
        <3> QED  BY <3>1, <3>2
    <2>4. ASSUME m \in accounts, Of(m, profiles) # {} \/ \E x \in adding : x.user.member = m
          PROVE  HasProfile(m)'
        BY <2>1, <2>4 DEF HasProfile, Of
    <2> QED  BY <1>0, <2>1, <2>2, <2>3, <2>4 DEF AccountsHaveProfiles
<1>3. ASSUME NEW x \in adding, CommitProfile(x) \/ RefuseProfile(x)
      PROVE  AccountsHaveProfiles'
    <2>1. /\ accounts' = accounts /\ auth' = auth /\ signing' = signing
          /\ lost \subseteq lost' /\ profiles \subseteq profiles' /\ adding' = adding \ {x}
          /\ x.user \in profiles' \/ x.user.member \in lost'
        BY <1>3 DEF CommitProfile, RefuseProfile
    <2> QED  BY <1>0, <2>1 DEF AccountsHaveProfiles, Of
<1>4. ASSUME NEW x \in editing, CommitEdit(x) PROVE AccountsHaveProfiles'
    <2>1. \A m : Of(m, profiles) # {} => Of(m, profiles') # {}
        BY <1>4 DEF CommitEdit, Of
    <2>2. /\ accounts' = accounts /\ auth' = auth /\ signing' = signing
          /\ lost' = lost /\ adding' = adding
        BY <1>4 DEF CommitEdit
    <2> QED  BY <1>0, <2>1, <2>2 DEF AccountsHaveProfiles, Of
<1>5. ASSUME NEW d \in Devices, Running(d), ~Kill(d) PROVE AccountsHaveProfiles'
    BY <1>0, <1>5, AccountsStay
    DEF Running, Launch, SetRoot, TokenComes, Answered, AskFinds, AskMisses
<1>6. ASSUME NEW d \in Devices, Profile(d) PROVE AccountsHaveProfiles'
    BY <1>0, <1>6, AccountsStay DEF Profile, OpenProfile, Edit, EditFinds, EditMisses
<1>7. ASSUME NEW x \in editing, RefuseEdit(x) PROVE AccountsHaveProfiles'
    BY <1>0, <1>7, AccountsStay DEF RefuseEdit
<1>8. CASE UNCHANGED vars
    BY <1>0, <1>8, AccountsStay DEF vars
<1> QED  BY <1>1, <1>2, <1>3, <1>4, <1>5, <1>6, <1>7, <1>8 DEF Next, Store

-----------------------------------------------------------------------------
LEMMA InvInit == Init => Inv
<1> SUFFICES ASSUME Init PROVE Inv
    OBVIOUS
<1>1. PICK n \in Names : profiles = [member : accounts, name : {n}]
    BY DEF Init
<1>2. accounts \subseteq Members /\ profiles \subseteq User
    BY <1>1 DEF Init, User
<1>3. TypeOK
    BY <1>2 DEF Init, TypeOK, Roots, Signings
<1>4. AccountsHaveProfiles
    <2>1. ASSUME NEW m \in accounts PROVE Of(m, profiles) # {}
        <3>1. [member |-> m, name |-> n] \in profiles
            BY <1>1
        <3> QED  BY <3>1 DEF Of
    <2> QED  BY <2>1 DEF AccountsHaveProfiles
<1>5. ASSUME NEW d \in Devices PROVE Screen(d) /\ Identity(d) /\ Current(d)
    BY DEF Init, Screen, Identity, Current
<1> QED  BY <1>3, <1>4, <1>5 DEF Inv

LEMMA InvStep == Inv /\ [Next]_vars => Inv'
BY NextType, ScreenStep, IdentityStep, CurrentStep, AccountsStep DEF Inv

LEMMA AlwaysInv == Spec => []Inv
BY InvInit, InvStep, PTL DEF Spec

\* The variables of the devices and of the store keep their types, for any
\* number of members, devices and names.
THEOREM SessionTypeCorrect == Spec => []TypeOK
<1>1. Inv => TypeOK
    BY DEF Inv
<1> QED  BY <1>1, AlwaysInv, PTL

\* thisUser is the member signed in from a launch to a sign-out, and again once
\* the next member is found and no query for another is under way (AppDelegate,
\* didReceiveRegistrationToken and updateToken).
THEOREM DevicesActAsSignedIn == Spec => []ActsAsSignedIn
<1>1. Inv => ActsAsSignedIn
    BY DEF Inv, Identity, ActsAsSignedIn
<1> QED  BY <1>1, AlwaysInv, PTL

\* An account has its document, or it is on the way, unless the application
\* ended or the server refused it in between (SignupViewController.signUptapped).
THEOREM AccountsAlwaysHaveProfiles == Spec => []AccountsHaveProfiles
<1>1. Inv => AccountsHaveProfiles
    BY DEF Inv
<1> QED  BY <1>1, AlwaysInv, PTL

\* With its queries answered, a device calls the member by the name that is
\* saved: no reply is older than the last change saved from there (EditProfile,
\* line 131, ProfileDetailViewController.editView).
THEOREM GreetingAlwaysCurrent == Spec => []GreetingCurrent
<1>1. Inv => GreetingCurrent
    <2> SUFFICES ASSUME Inv, NEW d \in Devices,
                        thisUser[d] # NoUser, ~stale[d], thisUser[d].member \notin lost,
                        Of(thisUser[d].member, asks[d]) = {},
                        \A x \in editing : x.user.member # thisUser[d].member
                 PROVE  thisUser[d] \in profiles \cup Unsaved(d)
        BY DEF GreetingCurrent
    <2>1. Current(d) /\ stale[d] = FALSE
        BY DEF Inv, TypeOK
    <2> QED  BY <2>1 DEF Current
<1> QED  BY <1>1, AlwaysInv, PTL
=============================================================================
