-------------------------- MODULE NotesList_proofs --------------------------
(***************************************************************************)
(* What holds of NotesList for every set of notes and any number of loads: *)
(* the types, that the two lists are disjoint once the loads have ended,   *)
(* and that bought notes are listed, and stay listed, when no two loads    *)
(* overlapped.                                                             *)
(***************************************************************************)
EXTENDS NotesList, TLAPS

-----------------------------------------------------------------------------
(***************************************************************************)
(* Types.                                                                  *)
(***************************************************************************)
LEMMA NotesOfType ==
    ASSUME NEW S \in SUBSET Purchase
    PROVE  NotesOf(S) \subseteq NoteIds
BY DEF NotesOf, Purchase

LEMMA ActiveType ==
    ASSUME NEW s, NEW all \in SUBSET NoteIds, NEW mine \in SUBSET Purchase
    PROVE  Active(s, all, mine) \subseteq NoteIds
BY NotesOfType DEF Active

LEMMA InitType == Init => TypeOK
<1> SUFFICES ASSUME Init PROVE TypeOK
    OBVIOUS
<1>1. purchases \subseteq Purchase
    <2>1. CASE purchases = {}
        BY <2>1
    <2>2. CASE purchases # {}
        <3>1. PICK i \in PurchaseIds, n \in Posted : purchases = {[id |-> i, note |-> n]}
            BY <2>2 DEF Init, FirstIds
        <3> QED  BY <3>1 DEF Purchase, Posted
    <2> QED  BY <2>1, <2>2
<1>2. noteState \in [NoteIds -> {"new", "posted", "deleted"}]
    BY DEF Init
<1>3. /\ phase \in [Loads -> Phases]
      /\ due \in [Loads -> SUBSET Purchase]
      /\ got \in [Loads -> SUBSET Purchase]
      /\ page \in [Loads -> SUBSET NoteIds]
    BY DEF Init, Phases
<1> QED  BY <1>1, <1>2, <1>3 DEF Init, TypeOK

LEMMA ReplyType ==
    ASSUME TypeOK, NEW l \in Loads, Replies(l)
    PROVE  TypeOK'
<1> USE DEF TypeOK, storeVars, listVars, Goes, Phases
<1>1. CASE UserArrives(l)
    BY <1>1 DEF UserArrives
<1>2. CASE QueryFails(l)
    BY <1>2 DEF QueryFails
<1>3. CASE RecordsArrive(l)
    BY <1>3 DEF RecordsArrive
<1>4. ASSUME NEW p \in due[l], BoughtArrives(l, p) PROVE TypeOK'
    <2>1. p \in Purchase
        OBVIOUS
    <2>2. phase' \in [Loads -> Phases] /\ due' \in [Loads -> SUBSET Purchase]
        BY <1>4 DEF BoughtArrives
    <2>3. got' \in [Loads -> SUBSET Purchase]
        <3>1. CASE got' = [got EXCEPT ![l] = @ \cup {p}]
            BY <3>1, <2>1
        <3>2. CASE got' = [got EXCEPT ![l] = @] \/ got' = got
            BY <3>2
        <3> QED  BY <1>4, <3>1, <3>2 DEF BoughtArrives
    <2>4. disturbed' \in BOOLEAN
        BY <1>4 DEF BoughtArrives
    <2> QED  BY <1>4, <2>2, <2>3, <2>4 DEF BoughtArrives
<1>5. CASE ShowBought(l)
    BY <1>5, ActiveType DEF ShowBought
<1>6. CASE NotesArrive(l)
    BY <1>6 DEF NotesArrive, Posted
<1>7. CASE ShowNotes(l)
    <2>1. Others(l) \subseteq NoteIds
        BY DEF Others
    <2> QED  BY <1>7, <2>1, ActiveType DEF ShowNotes
<1> QED  BY <1>1, <1>2, <1>3, <1>4, <1>5, <1>6, <1>7 DEF Replies

LEMMA TouchType == TypeOK /\ Touches => TypeOK'
<1> SUFFICES ASSUME TypeOK, Touches PROVE TypeOK'
    OBVIOUS
<1> USE DEF TypeOK, storeVars, loadVars
<1>1. ASSUME NEW s \in {"allNote", "myNote"}, SwitchSegment(s) PROVE TypeOK'
    BY <1>1, ActiveType DEF SwitchSegment
<1>2. ASSUME NEW S \in Searches, Search(S) PROVE TypeOK'
    <2>1. filtered' \subseteq NoteIds
        BY <1>2, ActiveType DEF Search
    <2> QED  BY <1>2, <2>1 DEF Search
<1>3. ASSUME NEW n \in NoteIds, Select(n) PROVE TypeOK'
    BY <1>3 DEF Select
<1>4. CASE Back
    BY <1>4 DEF Back
<1> QED  BY <1>1, <1>2, <1>3, <1>4 DEF Touches

LEMMA StepType == TypeOK /\ [Next]_vars => TypeOK'
<1> SUFFICES ASSUME TypeOK, [Next]_vars PROVE TypeOK'
    OBVIOUS
<1> USE DEF TypeOK, Goes, Phases
<1>1. ASSUME NEW l \in Loads, OpenScreen(l) PROVE TypeOK'
    BY <1>1 DEF OpenScreen, Begin, storeVars
<1>2. ASSUME NEW l \in Loads, Replies(l) PROVE TypeOK'
    BY <1>2, ReplyType
<1>3. CASE Touches
    BY <1>3, TouchType
<1>4. ASSUME NEW i \in PurchaseIds, NEW l \in Loads, Buy(i, l) PROVE TypeOK'
    <2>1. [id |-> i, note |-> viewing] \in Purchase
        BY <1>4 DEF Buy, Purchase
    <2>2. purchases' \subseteq Purchase
        BY <1>4, <2>1 DEF Buy
    <2> QED  BY <1>4, <2>2 DEF Buy, Begin, listVars
<1>5. ASSUME NEW n \in NoteIds, NEW l \in Loads, PostNote(n, l) PROVE TypeOK'
    BY <1>5 DEF PostNote
<1>6. ASSUME NEW n \in NoteIds, DeleteNote(n) PROVE TypeOK'
    BY <1>6 DEF DeleteNote, loadVars, listVars
<1>7. CASE UNCHANGED vars
    BY <1>7 DEF vars, storeVars, loadVars, listVars
<1> QED  BY <1>1, <1>2, <1>3, <1>4, <1>5, <1>6, <1>7 DEF Next

\* The variables keep their types (ViewNotesViewController).
THEOREM ListTypeCorrect == Spec => []TypeOK
BY InitType, StepType, PTL DEF Spec

-----------------------------------------------------------------------------
(***************************************************************************)
(* The two lists. ListsDisjoint is inductive: whoever changes the bought   *)
(* notes goes on to the query that leaves them out.                        *)
(***************************************************************************)
LEMMA ReplyDisjoint ==
    ASSUME TypeOK, ListsDisjoint, NEW l \in Loads, Replies(l)
    PROVE  ListsDisjoint'
<1> USE DEF TypeOK, ListsDisjoint, NotesOf, listVars, Goes
<1>1. CASE UserArrives(l)
    BY <1>1 DEF UserArrives
<1>2. CASE QueryFails(l)
    BY <1>2 DEF QueryFails
<1>3. CASE RecordsArrive(l)
    BY <1>3 DEF RecordsArrive
<1>4. ASSUME NEW p \in due[l], BoughtArrives(l, p) PROVE ListsDisjoint'
    <2>1. phase[l] = "bought" /\ phase' \in [Loads -> Phases]
          /\ \A k \in Loads : k # l => phase'[k] = phase[k]
        BY <1>4 DEF BoughtArrives, Phases
    <2>2. (\A k \in Loads : phase'[k] \notin {"all", "result", "missed"})
             => \A k \in Loads : phase[k] \notin {"all", "result", "missed"}
        BY <2>1
    <2> QED  BY <1>4, <2>2 DEF BoughtArrives
<1>5. CASE ShowBought(l)
    BY <1>5 DEF ShowBought
<1>6. CASE NotesArrive(l)
    BY <1>6 DEF NotesArrive
<1>7. CASE ShowNotes(l)
    BY <1>7 DEF ShowNotes, Others
<1> QED  BY <1>1, <1>2, <1>3, <1>4, <1>5, <1>6, <1>7 DEF Replies

LEMMA StepDisjoint == TypeOK /\ ListsDisjoint /\ [Next]_vars => ListsDisjoint'
<1> SUFFICES ASSUME TypeOK, ListsDisjoint, [Next]_vars PROVE ListsDisjoint'
    OBVIOUS
<1> USE DEF TypeOK, ListsDisjoint, NotesOf, Goes
<1>1. ASSUME NEW l \in Loads, OpenScreen(l) PROVE ListsDisjoint'
    BY <1>1 DEF OpenScreen, Begin, Upcoming
<1>2. ASSUME NEW l \in Loads, Replies(l) PROVE ListsDisjoint'
    BY <1>2, ReplyDisjoint
<1>3. CASE Touches
    BY <1>3 DEF Touches, SwitchSegment, Search, Select, Back, loadVars
<1>4. ASSUME NEW i \in PurchaseIds, NEW l \in Loads, Buy(i, l) PROVE ListsDisjoint'
    BY <1>4 DEF Buy, Begin, Upcoming, listVars
<1>5. ASSUME NEW n \in NoteIds, NEW l \in Loads, PostNote(n, l) PROVE ListsDisjoint'
    BY <1>5 DEF PostNote
<1>6. ASSUME NEW n \in NoteIds, DeleteNote(n) PROVE ListsDisjoint'
    BY <1>6 DEF DeleteNote, loadVars, listVars
<1>7. CASE UNCHANGED vars
    BY <1>7 DEF vars, loadVars, listVars
<1> QED  BY <1>1, <1>2, <1>3, <1>4, <1>5, <1>6, <1>7 DEF Next

\* However the replies of loads overlap, no note is in both lists when the
\* loads that changed them have ended (loadNotes).
THEOREM ListsGetDisjoint == Spec => []ListsDisjoint
<1>1. Init => ListsDisjoint
    BY DEF Init, ListsDisjoint, NotesOf
<1> QED  BY <1>1, StepDisjoint, ListTypeCorrect, PTL DEF Spec

-----------------------------------------------------------------------------
(***************************************************************************)
(* The bought notes. What is displayed, recorded or collected has been     *)
(* posted before (KnownInv), and while loads do not overlap the one that   *)
(* is under way misses no record (LoadInv).                                *)
(***************************************************************************)
Known == {n \in NoteIds : noteState[n] # "new"}

KnownInv ==
    /\ notes \subseteq Known /\ filtered \subseteq Known
    /\ viewing \in Known \cup {NoNote}
    /\ NotesOf(purchases) \subseteq Known
    /\ myNotes \subseteq purchases
    /\ \A l \in Loads : /\ page[l] \subseteq Known
                        /\ due[l] \subseteq purchases /\ got[l] \subseteq purchases

\* Every record of an existing note is in S.
Listed(S) == \A p \in purchases : p.note \in Posted => p \in S

LoadInv ==
    ~disturbed =>
        /\ \A k, l \in Loads : Before(k) /\ Before(l) => k = l
        /\ \A l \in Loads : phase[l] = "bought" => Listed(due[l] \cup got[l])
        /\ \A l \in Loads : phase[l] = "joined" => Listed(got[l])
        /\ (opened /\ \A l \in Loads : ~Before(l) /\ phase[l] # "broken") => Listed(myNotes)

Inv == TypeOK /\ KnownInv /\ LoadInv

LEMMA InitInv == Init => Inv
<1> SUFFICES ASSUME Init PROVE Inv
    OBVIOUS
<1>1. TypeOK
    BY InitType
<1>2. NotesOf(purchases) \subseteq Known
    <2> SUFFICES ASSUME NEW p \in purchases PROVE p.note \in Known
        BY DEF NotesOf
    <2>1. PICK i \in PurchaseIds, n \in Posted : purchases = {[id |-> i, note |-> n]}
        BY DEF Init, FirstIds
    <2> QED  BY <2>1 DEF Posted, Known
<1>3. KnownInv
    BY <1>2 DEF Init, KnownInv
<1>4. LoadInv
    BY DEF Init, LoadInv, Before
<1> QED  BY <1>1, <1>3, <1>4 DEF Inv

\* What is known stays known, and what is displayed is chosen from it.
LEMMA ActiveKnown ==
    ASSUME KnownInv, NEW s, NEW all \in SUBSET Known, NEW mine \in SUBSET purchases
    PROVE  Active(s, all, mine) \subseteq Known
BY DEF KnownInv, Active, NotesOf

LEMMA ReplyKnown ==
    ASSUME Inv, NEW l \in Loads, Replies(l)
    PROVE  KnownInv'
<1> USE DEF KnownInv, Known, NotesOf, storeVars, listVars
<1>0. KnownInv /\ TypeOK
    BY DEF Inv
<1> USE <1>0 DEF TypeOK
<1>1. CASE UserArrives(l)
    BY <1>1 DEF UserArrives
<1>2. CASE QueryFails(l)
    BY <1>2 DEF QueryFails
<1>3. CASE RecordsArrive(l)
    BY <1>3 DEF RecordsArrive
<1>4. ASSUME NEW p \in due[l], BoughtArrives(l, p) PROVE KnownInv'
    <2>1. \A k \in Loads : due'[k] \subseteq due[k]
        BY <1>4 DEF BoughtArrives
    <2>2. \A k \in Loads : got'[k] \subseteq got[k] \cup {p}
        BY <1>4 DEF BoughtArrives
    <2>3. p \in purchases
        OBVIOUS
    <2>4. \A k \in Loads : due'[k] \subseteq purchases /\ got'[k] \subseteq got[k] \cup purchases
        BY <2>1, <2>2, <2>3
    <2> QED  BY <1>4, <2>4 DEF BoughtArrives
<1>5. CASE ShowBought(l)
    <2>1. filtered' \subseteq Known
        BY <1>5, ActiveKnown DEF ShowBought
    <2> QED  BY <1>5, <2>1 DEF ShowBought
<1>6. CASE NotesArrive(l)
    <2>1. Posted \subseteq Known
        BY DEF Posted
    <2> QED  BY <1>6, <2>1 DEF NotesArrive
<1>7. CASE ShowNotes(l)
    <2>1. Others(l) \subseteq Known
        BY DEF Others
    <2>2. filtered' \subseteq Known
        BY <1>7, <2>1, ActiveKnown DEF ShowNotes
    <2> QED  BY <1>7, <2>1, <2>2 DEF ShowNotes
<1> QED  BY <1>1, <1>2, <1>3, <1>4, <1>5, <1>6, <1>7 DEF Replies

LEMMA TouchKnown == Inv /\ Touches => KnownInv'
<1> SUFFICES ASSUME Inv, Touches PROVE KnownInv'
    OBVIOUS
<1>0. KnownInv /\ TypeOK
    BY DEF Inv
<1> USE <1>0 DEF KnownInv, Known, NotesOf, storeVars, loadVars
<1>1. ASSUME NEW s \in {"allNote", "myNote"}, SwitchSegment(s) PROVE KnownInv'
    <2>1. filtered' \subseteq Known
        BY <1>1, ActiveKnown DEF SwitchSegment
    <2> QED  BY <1>1, <2>1 DEF SwitchSegment
<1>2. ASSUME NEW S \in Searches, Search(S) PROVE KnownInv'
    <2>1. filtered' \subseteq Known
        BY <1>2, ActiveKnown DEF Search
    <2> QED  BY <1>2, <2>1 DEF Search
<1>3. ASSUME NEW n \in NoteIds, Select(n) PROVE KnownInv'
    BY <1>3 DEF Select
<1>4. CASE Back
    BY <1>4 DEF Back
<1> QED  BY <1>1, <1>2, <1>3, <1>4 DEF Touches

LEMMA StepKnown == Inv /\ [Next]_vars => KnownInv'
<1> SUFFICES ASSUME Inv, [Next]_vars PROVE KnownInv'
    OBVIOUS
<1>0. KnownInv /\ TypeOK
    BY DEF Inv
<1> USE <1>0 DEF KnownInv, Known, NotesOf, TypeOK
<1>1. ASSUME NEW l \in Loads, OpenScreen(l) PROVE KnownInv'
    BY <1>1 DEF OpenScreen, Begin, storeVars
<1>2. ASSUME NEW l \in Loads, Replies(l) PROVE KnownInv'
    BY <1>2, ReplyKnown
<1>3. CASE Touches
    BY <1>3, TouchKnown
<1>4. ASSUME NEW i \in PurchaseIds, NEW l \in Loads, Buy(i, l) PROVE KnownInv'
    <2>1. viewing \in Known
        BY <1>4 DEF Buy
    <2>2. /\ purchases \subseteq purchases'
          /\ \A p \in purchases' : p.note \in Known
        BY <1>4, <2>1 DEF Buy
    <2> QED  BY <1>4, <2>2 DEF Buy, Begin, listVars
<1>5. ASSUME NEW n \in NoteIds, NEW l \in Loads, PostNote(n, l) PROVE KnownInv'
    <2>1. \A k \in NoteIds : noteState[k] # "new" => noteState'[k] # "new"
        BY <1>5 DEF PostNote
    <2> QED  BY <1>5, <2>1 DEF PostNote
<1>6. ASSUME NEW n \in NoteIds, DeleteNote(n) PROVE KnownInv'
    <2>1. \A k \in NoteIds : noteState[k] # "new" => noteState'[k] # "new"
        BY <1>6 DEF DeleteNote
    <2> QED  BY <1>6, <2>1 DEF DeleteNote, loadVars, listVars
<1>7. CASE UNCHANGED vars
    BY <1>7 DEF vars, storeVars, loadVars, listVars
<1> QED  BY <1>1, <1>2, <1>3, <1>4, <1>5, <1>6, <1>7 DEF Next

LEMMA ReplyLoad ==
    ASSUME Inv, NEW l \in Loads, Replies(l)
    PROVE  LoadInv'
<1> SUFFICES ASSUME ~disturbed' PROVE LoadInv'
    BY DEF LoadInv
<1>a. UNCHANGED storeVars /\ opened' = opened
    BY DEF Replies, UserArrives, QueryFails, RecordsArrive, BoughtArrives,
           ShowBought, NotesArrive, ShowNotes, listVars
<1>b. disturbed' = disturbed \/ disturbed' = TRUE
    BY DEF Replies, UserArrives, QueryFails, RecordsArrive, BoughtArrives,
           ShowBought, NotesArrive, ShowNotes
<1>c. ~disturbed
    BY <1>b
<1>0. /\ TypeOK
      /\ purchases' = purchases /\ Posted' = Posted /\ opened' = opened
      /\ ~disturbed
    BY <1>a, <1>c DEF Inv, storeVars, Posted
<1>1. /\ \A j, k \in Loads : Before(j) /\ Before(k) => j = k
      /\ \A k \in Loads : phase[k] = "bought" => Listed(due[k] \cup got[k])
      /\ \A k \in Loads : phase[k] = "joined" => Listed(got[k])
      /\ (opened /\ \A k \in Loads : ~Before(k) /\ phase[k] # "broken") => Listed(myNotes)
    BY <1>0 DEF Inv, LoadInv
<1> USE <1>0, <1>1 DEF TypeOK, LoadInv, Listed, Before, Goes, listVars
<1>2. CASE UserArrives(l)
    BY <1>2 DEF UserArrives
<1>3. CASE QueryFails(l)
    BY <1>3 DEF QueryFails
<1>4. CASE RecordsArrive(l)
    BY <1>4 DEF RecordsArrive
<1>5. ASSUME NEW p \in due[l], BoughtArrives(l, p) PROVE LoadInv'
    <2>1. /\ phase[l] = "bought" /\ myNotes' = myNotes
          /\ due' = [due EXCEPT ![l] = @ \ {p}]
          /\ got' = [got EXCEPT ![l] = IF p.note \in Posted THEN @ \cup {p} ELSE @]
          /\ phase' = [phase EXCEPT ![l] = IF due[l] = {p} THEN "joined" ELSE "bought"]
        BY <1>5 DEF BoughtArrives, Joins
    <2>2. \A q \in purchases : q.note \in Posted => q \in due'[l] \cup got'[l]
        BY <2>1
    <2>3. CASE due[l] = {p}
        <3>1. phase' = [phase EXCEPT ![l] = "joined"] /\ due'[l] = {}
            BY <2>1, <2>3
        <3>2. \A k \in Loads : Before(k) => k = l
            BY <2>1
        <3> QED  BY <2>1, <2>2, <3>1, <3>2
    <2>4. CASE due[l] # {p}
        <3>1. phase' = phase
            BY <2>1, <2>4
        <3> QED  BY <2>1, <2>2, <3>1
    <2> QED  BY <2>3, <2>4
<1>6. CASE ShowBought(l)
    BY <1>6 DEF ShowBought
<1>7. CASE NotesArrive(l)
    BY <1>7 DEF NotesArrive
<1>8. CASE ShowNotes(l)
    BY <1>8 DEF ShowNotes
<1> QED  BY <1>2, <1>3, <1>4, <1>5, <1>6, <1>7, <1>8 DEF Replies

LEMMA StepLoad == Inv /\ [Next]_vars => LoadInv'
<1> SUFFICES ASSUME Inv, [Next]_vars PROVE LoadInv'
    OBVIOUS
<1>0. TypeOK /\ KnownInv /\ LoadInv
    BY DEF Inv
<1> USE <1>0 DEF TypeOK, LoadInv, Listed, Before, Goes, Posted
<1>1. ASSUME NEW l \in Loads, OpenScreen(l) PROVE LoadInv'
    BY <1>1 DEF OpenScreen, Begin, storeVars
<1>2. ASSUME NEW l \in Loads, Replies(l) PROVE LoadInv'
    BY <1>2, ReplyLoad
<1>3. CASE Touches
    BY <1>3 DEF Touches, SwitchSegment, Search, Select, Back, storeVars, loadVars
<1>4. ASSUME NEW i \in PurchaseIds, NEW l \in Loads, Buy(i, l) PROVE LoadInv'
    <2>1. phase' = [phase EXCEPT ![l] = "user"] /\ phase[l] = "idle"
          /\ (disturbed' \/ \A k \in Loads : ~Before(k))
        BY <1>4 DEF Buy, Begin, Upcoming
    <2> QED  BY <1>4, <2>1 DEF Buy, Begin, listVars
<1>5. ASSUME NEW n \in NoteIds, NEW l \in Loads, PostNote(n, l) PROVE LoadInv'
    <2>1. \A p \in purchases : p.note \in Posted' => p.note \in Posted
        <3>1. \A p \in purchases : p.note # n
            BY <1>5 DEF PostNote, KnownInv, Known, NotesOf
        <3> QED  BY <1>5, <3>1 DEF PostNote
    <2>2. /\ phase[l] = "idle" /\ phase' = [phase EXCEPT ![l] = "all"]
          /\ purchases' = purchases /\ myNotes' = myNotes /\ opened' = opened
          /\ due' = due /\ got' = got /\ disturbed' = disturbed
        BY <1>5 DEF PostNote, Upcoming
    <2> QED  BY <2>1, <2>2
<1>6. ASSUME NEW n \in NoteIds, DeleteNote(n) PROVE LoadInv'
    BY <1>6 DEF DeleteNote, loadVars, listVars
<1>7. CASE UNCHANGED vars
    BY <1>7 DEF vars, storeVars, loadVars, listVars
<1> QED  BY <1>1, <1>2, <1>3, <1>4, <1>5, <1>6, <1>7 DEF Next

LEMMA StepInv == Inv /\ [Next]_vars => Inv'
BY StepType, StepKnown, StepLoad DEF Inv

LEMMA Invariance == Spec => []Inv
BY InitInv, StepInv, PTL DEF Spec

\* With all replies in and no two loads overlapping, every record of a note
\* that still exists is in the member's list (purchasedNotes(userID:)).
THEOREM BoughtNotesListed == Spec => []BoughtAreListed
<1>1. Inv => BoughtAreListed
    BY DEF Inv, LoadInv, BoughtAreListed, Ended, Before, Listed
<1> QED  BY <1>1, Invariance, PTL

\* No load that did not overlap another takes an existing note out of the
\* member's list (the completion of loadUserReference).
THEOREM BoughtNotesStay == Spec => BoughtStayListed
<1>1. ASSUME Inv, [Next]_vars, ~disturbed'
      PROVE  {p \in myNotes : noteState'[p.note] = "posted"} \subseteq myNotes'
    <2>1. ASSUME NEW l \in Loads, ShowBought(l)
          PROVE  {p \in myNotes : noteState'[p.note] = "posted"} \subseteq myNotes'
        <3>1. Listed(got[l]) /\ myNotes \subseteq purchases
              /\ myNotes' = got[l] /\ noteState' = noteState
            BY <1>1, <2>1 DEF Inv, LoadInv, KnownInv, ShowBought, storeVars
        <3> QED  BY <1>1, <3>1 DEF Listed, Posted, Inv, TypeOK, Purchase
    <2>2. CASE ~\E l \in Loads : ShowBought(l)
        <3>1. myNotes' = myNotes
            BY <1>1, <2>2 DEF Next, OpenScreen, Replies, UserArrives, QueryFails,
               RecordsArrive, BoughtArrives, NotesArrive, ShowNotes, Touches,
               SwitchSegment, Search, Select, Back, Buy, PostNote, DeleteNote,
               listVars, vars
        <3> QED  BY <3>1
    <2> QED  BY <2>1, <2>2
<1>2. Inv /\ [Next]_vars
         => [~disturbed' =>
               {p \in myNotes : noteState'[p.note] = "posted"} \subseteq myNotes']_vars
    BY <1>1
<1> QED  BY <1>2, Invariance, PTL DEF Spec, BoughtStayListed
=============================================================================
