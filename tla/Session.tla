------------------------------- MODULE Session -------------------------------
(***************************************************************************)
(* Who is signed in on a device, and whom the application takes for that   *)
(* member: AppDelegate, the screens for signing up, in and out, and the    *)
(* profile screens.                                                        *)
(*                                                                         *)
(* Firebase remembers who is signed in (auth). AppDelegate's thisUser, from *)
(* which other screens take the member's name and document, is set by the  *)
(* reply to a query that the push token's callback sends when somebody is  *)
(* signed in; the profile screen replaces it where there is one. Only the  *)
(* end of the application clears it.                                       *)
(***************************************************************************)
EXTENDS Naturals, FiniteSets

CONSTANTS
    Members,
    Devices,
    NoMember,
    NoUser,
    Names,          \* what a member may be called
    Events          \* bound: what may happen besides the regular steps

ASSUME SessionAssumption ==
    /\ NoMember \notin Members
    /\ {"none", "in"} \cap Names = {}
    /\ NoUser \notin [member : Members, name : Names]
    /\ Events \subseteq {"kill", "error", "reject"}

VARIABLES
    accounts,   \* members with an account
    profiles,   \* the documents in users
    adding,     \* documents a device has added and the server not answered
    editing,    \* changes of a name the server has not answered
    lost,       \* for the properties: members whose document was not added,
                \* or refused
    \* Each device:
    root,       \* the root view controller, "off" when nothing runs
    auth,       \* Auth.auth().currentUser
    signing,    \* the completion of signIn or createUser that is to run
    thisUser,
    tokenDue,   \* the push token has not been reported since the launch
    asks,       \* queries for a member's document under way
    edits,      \* queries of EditProfile under way
    sure,       \* for the properties: nobody has signed out since the launch,
                \* or the member signed in has been found since, when no query
                \* for another was under way
    missed,     \* for the properties: a query of updateToken failed or found
                \* nothing since the launch
    stale       \* for the properties: the name was changed elsewhere, or a
                \* query or change failed, since a document was last found

storeVars == <<accounts, profiles, adding, editing, lost>>
screenVars == <<root, auth, signing>>
flagVars == <<sure, missed, stale>>
vars == <<storeVars, screenVars, thisUser, tokenDue, asks, edits, flagVars>>

-----------------------------------------------------------------------------
User == [member : Members, name : Names]

Adding == [device : Devices, user : User]

\* `live`: the application still runs that will hear of the answer.
Editing == [device : Devices, user : User, live : BOOLEAN]

\* "token": updateToken; "profile": getName. Bound: a device has one query of a
\* kind for a member under way, and one change of a name.
Ask == [kind : {"token", "profile"}, member : Members]

Roots == {"off", "splash", "landing", "home"}

\* What runs when Firebase has answered: nothing, setRoot after a sign-in, or
\* the rest of signUptapped with the name that was typed.
Signings == {"none", "in"} \cup Names

Of(m, S) == {u \in S : u.member = m}

Unsaved(d) == {x.user : x \in {y \in adding : y.device = d}}

Renamed(d) == {x.user : x \in {y \in editing : y.device = d}}

\* What the device's query for the member's document finds, its own writes
\* included: at most one document.
Seen(d, m) ==
    IF Of(m, profiles \cup Unsaved(d)) # {} /\ Of(m, Renamed(d)) # {}
    THEN Of(m, Renamed(d))
    ELSE Of(m, profiles \cup Unsaved(d))

\* setRoot. The administrator, who has a dashboard for a home and no profile
\* screen, is left out.
RootOf(m) == IF m = NoMember THEN "landing" ELSE "home"

Init ==
    /\ accounts \in SUBSET Members
    /\ \E n \in Names : profiles = [member : accounts, name : {n}]
    /\ adding = {} /\ editing = {} /\ lost = {}
    /\ root = [d \in Devices |-> "off"]
    /\ auth \in [Devices -> accounts \cup {NoMember}]
    /\ signing = [d \in Devices |-> "none"]
    /\ thisUser = [d \in Devices |-> NoUser]
    /\ tokenDue = [d \in Devices |-> FALSE]
    /\ asks = [d \in Devices |-> {}]
    /\ edits = [d \in Devices |-> {}]
    /\ sure = [d \in Devices |-> FALSE]
    /\ missed = [d \in Devices |-> FALSE]
    /\ stale = [d \in Devices |-> FALSE]

-----------------------------------------------------------------------------
(***************************************************************************)
(* Launch and end of the application.                                      *)
(***************************************************************************)
Launch(d) ==
    /\ root[d] = "off"
    /\ root' = [root EXCEPT ![d] = "splash"]
    /\ tokenDue' = [tokenDue EXCEPT ![d] = TRUE]
    /\ sure' = [sure EXCEPT ![d] = TRUE]
    /\ UNCHANGED <<storeVars, auth, signing, thisUser, asks, edits, missed, stale>>

\* setRoot, 0.9 seconds after the launch.
SetRoot(d) ==
    /\ root[d] = "splash"
    /\ root' = [root EXCEPT ![d] = RootOf(auth[d])]
    /\ UNCHANGED <<storeVars, auth, signing, thisUser, tokenDue, asks, edits, flagVars>>

\* Mutant: what is queued does not outlive the application.
KeptInMemory(d) == {x \in adding : x.device # d}

\* Firestore's queue is on disk.
Kept(d) == adding

\* Nothing remembers a completion that has not run.
Kill(d) ==
    /\ "kill" \in Events
    /\ root[d] # "off"
    /\ root' = [root EXCEPT ![d] = "off"]
    /\ signing' = [signing EXCEPT ![d] = "none"]
    /\ thisUser' = [thisUser EXCEPT ![d] = NoUser]
    /\ tokenDue' = [tokenDue EXCEPT ![d] = FALSE]
    /\ asks' = [asks EXCEPT ![d] = {}]
    /\ edits' = [edits EXCEPT ![d] = {}]
    /\ adding' = Kept(d)
    /\ editing' = {IF x.device = d THEN [x EXCEPT !.live = FALSE] ELSE x : x \in editing}
    /\ lost' = IF signing[d] \in Names THEN lost \cup {auth[d]} ELSE lost
    /\ sure' = [sure EXCEPT ![d] = FALSE]
    /\ missed' = [missed EXCEPT ![d] = FALSE]
    /\ stale' = [stale EXCEPT ![d] = FALSE]
    /\ UNCHANGED <<accounts, profiles, auth>>

-----------------------------------------------------------------------------
(***************************************************************************)
(* Signing up, in and out. The account is created and the member signed in *)
(* before the completion that adds the document runs.                      *)
(***************************************************************************)
SignUp(d, m, n) ==
    /\ root[d] = "landing" /\ signing[d] = "none"
    /\ m \notin accounts
    /\ accounts' = accounts \cup {m}
    /\ auth' = [auth EXCEPT ![d] = m]
    /\ signing' = [signing EXCEPT ![d] = n]
    /\ UNCHANGED <<profiles, adding, editing, lost, root, thisUser, tokenDue, asks,
                   edits, flagVars>>

SignUpReturns(d) ==
    /\ signing[d] \in Names
    /\ signing' = [signing EXCEPT ![d] = "none"]
    /\ adding' = adding \cup
          {[device |-> d, user |-> [member |-> auth[d], name |-> signing[d]]]}
    /\ root' = [root EXCEPT ![d] = RootOf(auth[d])]
    /\ UNCHANGED <<accounts, profiles, editing, lost, auth, thisUser, tokenDue, asks,
                   edits, flagVars>>

SignIn(d, m) ==
    /\ root[d] = "landing" /\ signing[d] = "none"
    /\ m \in accounts
    /\ auth' = [auth EXCEPT ![d] = m]
    /\ signing' = [signing EXCEPT ![d] = "in"]
    /\ UNCHANGED <<storeVars, root, thisUser, tokenDue, asks, edits, flagVars>>

SignInReturns(d) ==
    /\ signing[d] = "in"
    /\ signing' = [signing EXCEPT ![d] = "none"]
    /\ root' = [root EXCEPT ![d] = RootOf(auth[d])]
    /\ UNCHANGED <<storeVars, auth, thisUser, tokenDue, asks, edits, flagVars>>

\* logout, signout_tapped
SignOut(d) ==
    /\ root[d] = "home"
    /\ auth' = [auth EXCEPT ![d] = NoMember]
    /\ root' = [root EXCEPT ![d] = RootOf(NoMember)]
    /\ sure' = [sure EXCEPT ![d] = FALSE]
    /\ UNCHANGED <<storeVars, signing, thisUser, tokenDue, asks, edits, missed, stale>>

CommitProfile(x) ==
    /\ adding' = adding \ {x}
    /\ profiles' = profiles \cup {x.user}
    /\ UNCHANGED <<accounts, editing, lost, screenVars, thisUser, tokenDue, asks,
                   edits, flagVars>>

RefuseProfile(x) ==
    /\ "reject" \in Events
    /\ adding' = adding \ {x}
    /\ lost' = lost \cup {x.user.member}
    /\ UNCHANGED <<accounts, profiles, editing, screenVars, thisUser, tokenDue, asks,
                   edits, flagVars>>

-----------------------------------------------------------------------------
(***************************************************************************)
(* thisUser.                                                               *)
(***************************************************************************)
\* Mutant: a token that is reported before the first screen is not looked at.
HeardAtHome(d) == root[d] = "home"

Heard(d) == auth[d] # NoMember

\* didReceiveRegistrationToken is called after every launch, and whenever the
\* token changes.
TokenComes(d) ==
    /\ root[d] # "off"
    /\ tokenDue' = [tokenDue EXCEPT ![d] = FALSE]
    /\ asks' = IF Heard(d)
               THEN [asks EXCEPT ![d] = @ \cup {[kind |-> "token", member |-> auth[d]]}]
               ELSE asks
    /\ UNCHANGED <<storeVars, screenVars, thisUser, edits, flagVars>>

\* viewDidLoad of the profile screen: getName.
OpenProfile(d) ==
    /\ root[d] = "home"
    /\ asks' = [asks EXCEPT ![d] = @ \cup {[kind |-> "profile", member |-> auth[d]]}]
    /\ UNCHANGED <<storeVars, screenVars, thisUser, tokenDue, edits, flagVars>>

\* Mutant: the profile screen sets a user that is missing.
SetsMissing(d, a) == a.kind = "token" \/ thisUser[d] = NoUser

\* The profile screen replaces a user, but does not set one that is missing.
Sets(d, a) == a.kind = "token" \/ thisUser[d] # NoUser

AskFinds(d, a) ==
    /\ asks' = [asks EXCEPT ![d] = @ \ {a}]
    /\ \E u \in Seen(d, a.member) :
          thisUser' = IF Sets(d, a) THEN [thisUser EXCEPT ![d] = u] ELSE thisUser
    /\ sure' = [sure EXCEPT ![d] =
          @ \/ \A b \in asks[d] : b.member = auth[d]]
    /\ stale' = [stale EXCEPT ![d] = @ /\ ~Sets(d, a)]
    /\ UNCHANGED <<storeVars, screenVars, tokenDue, edits, missed>>

\* The query fails, or there is no document: thisUser stays what it is.
AskMisses(d, a) ==
    /\ "error" \in Events \/ Seen(d, a.member) = {}
    /\ asks' = [asks EXCEPT ![d] = @ \ {a}]
    /\ missed' = [missed EXCEPT ![d] = @ \/ a.kind = "token"]
    /\ stale' = [stale EXCEPT ![d] = TRUE]
    /\ UNCHANGED <<storeVars, screenVars, thisUser, tokenDue, edits, sure>>

-----------------------------------------------------------------------------
(***************************************************************************)
(* EditProfile: the document is looked for, then changed.                  *)
(***************************************************************************)
Edit(d, n) ==
    /\ root[d] = "home"
    /\ edits[d] \cup Renamed(d) = {}
    /\ Seen(d, auth[d]) # {}
    /\ edits' = [edits EXCEPT ![d] = @ \cup {[member |-> auth[d], name |-> n]}]
    /\ UNCHANGED <<storeVars, screenVars, thisUser, tokenDue, asks, flagVars>>

EditFinds(d, u) ==
    /\ edits' = [edits EXCEPT ![d] = @ \ {u}]
    /\ Seen(d, u.member) # {}
    /\ editing' = editing \cup {[device |-> d, user |-> u, live |-> TRUE]}
    /\ UNCHANGED <<accounts, profiles, adding, lost, screenVars, thisUser, tokenDue,
                   asks, flagVars>>

EditMisses(d, u) ==
    /\ "error" \in Events \/ Seen(d, u.member) = {}
    /\ edits' = [edits EXCEPT ![d] = @ \ {u}]
    /\ UNCHANGED <<storeVars, screenVars, thisUser, tokenDue, asks, flagVars>>

\* Mutants: the profile screen is not told; it asks also when nobody is signed
\* in any more.
NoFollowUp(x) == {}
FollowUpAnyway(x) ==
    IF x.live THEN {[kind |-> "profile", member |-> auth[x.device]]} ELSE {}

\* editView: getName, for whoever is signed in now.
FollowUp(x) ==
    IF x.live /\ auth[x.device] # NoMember
    THEN {[kind |-> "profile", member |-> auth[x.device]]} ELSE {}

\* A document is changed after it has been added.
CommitEdit(x) ==
    /\ Of(x.user.member, profiles) # {}
    /\ profiles' = (profiles \ Of(x.user.member, profiles)) \cup {x.user}
    /\ editing' = editing \ {x}
    /\ asks' = [asks EXCEPT ![x.device] = @ \cup FollowUp(x)]
    /\ stale' = [d \in Devices |-> stale[d] \/ d # x.device \/ ~x.live
                                     \/ auth[d] # x.user.member]
    /\ UNCHANGED <<accounts, adding, lost, screenVars, thisUser, tokenDue, edits, sure, missed>>

RefuseEdit(x) ==
    /\ "reject" \in Events
    /\ editing' = editing \ {x}
    /\ stale' = [stale EXCEPT ![x.device] = TRUE]
    /\ UNCHANGED <<accounts, profiles, adding, lost, screenVars, thisUser, tokenDue,
                   asks, edits, sure, missed>>

-----------------------------------------------------------------------------
Answered(d, a) == a \in asks[d] /\ (AskFinds(d, a) \/ AskMisses(d, a))

Running(d) ==
    \/ Launch(d) \/ SetRoot(d) \/ Kill(d) \/ TokenComes(d)
    \/ \E a \in asks[d] : Answered(d, a)

Signing(d) ==
    \/ \E m \in Members : SignIn(d, m) \/ \E n \in Names : SignUp(d, m, n)
    \/ SignUpReturns(d) \/ SignInReturns(d) \/ SignOut(d)

Profile(d) ==
    \/ OpenProfile(d) \/ \E n \in Names : Edit(d, n)
    \/ \E u \in edits[d] : EditFinds(d, u) \/ EditMisses(d, u)

Store ==
    \/ \E x \in adding : CommitProfile(x) \/ RefuseProfile(x)
    \/ \E x \in editing : CommitEdit(x) \/ RefuseEdit(x)

Next ==
    \/ \E d \in Devices : Running(d) \/ Signing(d) \/ Profile(d)
    \/ Store

Spec == Init /\ [][Next]_vars

\* Firebase reports the token after a launch, and Firestore answers queries.
Fairness ==
    \A d \in Devices :
        /\ WF_vars(tokenDue[d] /\ TokenComes(d))
        /\ \A a \in Ask : WF_vars(Answered(d, a))

FairSpec == Spec /\ Fairness

-----------------------------------------------------------------------------
(***************************************************************************)
(* Properties                                                              *)
(***************************************************************************)

\* The values of the variables are of the kinds declared above.
TypeOK ==
    /\ accounts \subseteq Members
    /\ profiles \subseteq User
    /\ adding \subseteq Adding
    /\ editing \subseteq Editing
    /\ lost \subseteq Members
    /\ root \in [Devices -> Roots]
    /\ auth \in [Devices -> Members \cup {NoMember}]
    /\ signing \in [Devices -> Signings]
    /\ thisUser \in [Devices -> User \cup {NoUser}]
    /\ tokenDue \in [Devices -> BOOLEAN]
    /\ asks \in [Devices -> SUBSET Ask]
    /\ edits \in [Devices -> SUBSET User]
    /\ sure \in [Devices -> BOOLEAN]
    /\ missed \in [Devices -> BOOLEAN]
    /\ stale \in [Devices -> BOOLEAN]

\* thisUser is the member signed in, unless the one before has signed out
\* since the launch; and it is again when the profile screen or the token's
\* callback has found the new one, while no query for the one before was under
\* way. A late reply to such a query brings the old member back (AppDelegate,
\* lines 163-172).
ActsAsSignedIn ==
    \A d \in Devices :
        sure[d] /\ thisUser[d] # NoUser => thisUser[d].member = auth[d]

\* A member with an account has a document, saved or queued, or the completion
\* of createUser is still to run: it is missing only when the application ended
\* between the two steps, or the server refused it (signUptapped).
AccountsHaveProfiles ==
    \A m \in accounts \ lost :
        \/ Of(m, profiles) # {}
        \/ \E x \in adding : x.user.member = m
        \/ \E d \in Devices : auth[d] = m /\ signing[d] \in Names

\* Once every query is answered, the application calls the member as the saved
\* document does: a change that was saved is followed by a query, and nothing
\* older overtakes it (EditProfile, line 131).
GreetingCurrent ==
    \A d \in Devices :
        thisUser[d] # NoUser /\ ~stale[d] =>
            LET m == thisUser[d].member IN
            (/\ m = auth[d] /\ m \notin lost /\ Of(m, asks[d]) = {}
             /\ \A x \in editing : x.user.member # m) =>
                thisUser[d] \in profiles \cup Unsaved(d)

\* A member with a document who starts the application signed in is known to
\* it before long, unless the query fails, or the member signs out.
KnownAfterLaunch ==
    \A d \in Devices, m \in Members :
        root[d] = "splash" /\ auth[d] = m /\ Of(m, profiles) # {} ~>
            thisUser[d] # NoUser \/ auth[d] # m \/ root[d] = "off" \/ missed[d]

\* Chat takes the member from thisUser without asking whether there is one
\* (`thisUser!`, Chat.swift, line 123): at home, with every query answered and
\* none failed, there is.
UserKnownAtHome ==
    \A d \in Devices :
        (root[d] = "home" /\ ~tokenDue[d] /\ asks[d] = {} /\ ~missed[d]) =>
            thisUser[d] # NoUser
=============================================================================
