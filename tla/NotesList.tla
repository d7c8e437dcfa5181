------------------------------ MODULE NotesList ------------------------------
(***************************************************************************)
(* The screen with a member's notes and everybody's                        *)
(* (ViewNotesViewController.swift). A load asks for the account, then for  *)
(* the records of what the member has bought, then for each of those notes,*)
(* and when the last of them is answered for all notes, from which it      *)
(* leaves out the bought ones. A load begins when the screen opens and at  *)
(* every purchase, a new note begins one at its last query, and nothing    *)
(* keeps the replies of two loads apart.                                   *)
(***************************************************************************)
EXTENDS Naturals, FiniteSets

CONSTANTS
    NoteIds,        \* notes, posted already or yet to be
    NoNote,
    PurchaseIds,    \* bound: documents in the member's purchasedNotes, in their order
    Loads,          \* bound: loads of the screen, numbered as they begin
    Deletable,      \* bound: the notes their owners may delete
    Searches,       \* what a search text may match: sets of notes
    Events          \* bound: what may happen besides the regular steps

ASSUME ListAssumption ==
    /\ NoNote \notin NoteIds
    /\ PurchaseIds \subseteq Nat /\ Loads \subseteq Nat
    /\ Searches \subseteq SUBSET NoteIds
    /\ Deletable \subseteq NoteIds
    /\ Events \subseteq {"error"}

VARIABLES
    noteState,  \* of each note: "new", "posted" or "deleted"
    purchases,  \* the documents in purchasedNotes
    phase,      \* of each load: the reply it waits for
    due,        \* of each load: records whose note is not answered yet
    got,        \* of each load: records whose note was found (ns)
    page,       \* of each load: all notes, as the query found them (lnotes)
    disturbed,  \* for the properties: a load began while the records of another
                \* were not shown yet, or a bought note's query failed
    \* The screen:
    opened,
    myNotes,
    notes,
    segment,    \* noteTypeSegment: "allNote" or "myNote"
    filtered,   \* the notes on display
    viewing     \* the note whose details cover the list

storeVars == <<noteState, purchases>>
loadVars == <<phase, due, got, page, disturbed>>
listVars == <<opened, myNotes, notes, segment, filtered, viewing>>
vars == <<storeVars, loadVars, listVars>>

-----------------------------------------------------------------------------
Purchase == [id : PurchaseIds, note : NoteIds]

\* "user", "records", "bought", "all": the query in flight. "joined", "result":
\* a block is queued on the main thread. "nothing": no record was found and
\* nobody goes on; "broken": a query failed; "missed": the last one did.
Phases == {"idle", "user", "records", "bought", "joined", "all", "result",
           "shown", "nothing", "broken", "missed"}

Posted == {n \in NoteIds : noteState[n] = "posted"}

NotesOf(S) == {p.note : p \in S}

\* Mutant: the records themselves are displayed.
ActiveRecords(s, all, mine) == IF s = "allNote" THEN all ELSE mine

\* updateUpdateActiveNotes with the given segment and lists.
Active(s, all, mine) == IF s = "allNote" THEN all ELSE NotesOf(mine)

\* The least identifier.
FirstIds == {i \in PurchaseIds : \A j \in PurchaseIds : i <= j}

Init ==
    /\ noteState \in [NoteIds -> {"new", "posted"}]
    /\ purchases \in {{}} \cup {{[id |-> i, note |-> n]} : i \in FirstIds, n \in Posted}
    /\ phase = [l \in Loads |-> "idle"]
    /\ due = [l \in Loads |-> {}]
    /\ got = [l \in Loads |-> {}]
    /\ page = [l \in Loads |-> {}]
    /\ disturbed = FALSE
    /\ opened = FALSE
    /\ myNotes = {}
    /\ notes = {}
    /\ segment = "allNote"
    /\ filtered = {}
    /\ viewing = NoNote

-----------------------------------------------------------------------------
(***************************************************************************)
(* A load: loadUserReference, purchasedNotes(userID:), loadNotes.          *)
(***************************************************************************)
Goes(l, p) == phase' = [phase EXCEPT ![l] = p]

Before(l) == phase[l] \in {"user", "records", "bought", "joined"}

\* The next load to begin.
Upcoming(l) == phase[l] = "idle" /\ \A k \in Loads : k < l => phase[k] # "idle"

\* loadUserReference is called.
Begin(l) ==
    /\ Upcoming(l)
    /\ Goes(l, "user")
    /\ disturbed' = (disturbed \/ \E k \in Loads : Before(k))
    /\ UNCHANGED <<due, got, page>>

OpenScreen(l) ==
    /\ ~opened
    /\ opened' = TRUE
    /\ Begin(l)
    /\ UNCHANGED <<storeVars, myNotes, notes, segment, filtered, viewing>>

UserArrives(l) ==
    /\ phase[l] = "user"
    /\ Goes(l, "records")
    /\ UNCHANGED <<storeVars, due, got, page, disturbed, listVars>>

\* A query of the load fails, or finds no account: nobody goes on.
QueryFails(l) ==
    /\ "error" \in Events
    /\ \/ phase[l] \in {"user", "records"} /\ Goes(l, "broken")
       \/ phase[l] = "all" /\ Goes(l, "missed")
    /\ UNCHANGED <<storeVars, due, got, page, disturbed, listVars>>

\* The loop over the records asks for each note. Without a record it asks for
\* none, and the completion is called from their replies only.
RecordsArrive(l) ==
    /\ phase[l] = "records"
    /\ due' = [due EXCEPT ![l] = purchases]
    /\ Goes(l, IF purchases = {} THEN "nothing" ELSE "bought")
    /\ UNCHANGED <<storeVars, got, page, disturbed, listVars>>

\* Mutants: what is not found does not count; the first reply is enough.
JoinsWhenFound(l, p, found) == due[l] = {p} /\ found
JoinsAtFirst(l, p, found) == TRUE

\* counter == purchasedNotes.count, after the reply for record p.
Joins(l, p, found) == due[l] = {p}

\* A note that was deleted, or whose query failed, counts and is left out.
BoughtArrives(l, p) ==
    /\ phase[l] = "bought" /\ p \in due[l]
    /\ due' = [due EXCEPT ![l] = @ \ {p}]
    /\ \/ /\ got' = [got EXCEPT ![l] = IF p.note \in Posted THEN @ \cup {p} ELSE @]
          /\ Goes(l, IF Joins(l, p, p.note \in Posted) THEN "joined" ELSE "bought")
          /\ UNCHANGED disturbed
       \/ /\ "error" \in Events
          /\ Goes(l, IF Joins(l, p, FALSE) THEN "joined" ELSE "bought")
          /\ disturbed' = TRUE
          /\ UNCHANGED got
    /\ UNCHANGED <<storeVars, page, listVars>>

\* The completion, on the main thread: the bought notes are shown, and
\* loadNotes is called.
ShowBought(l) ==
    /\ phase[l] = "joined"
    /\ myNotes' = got[l]
    /\ filtered' = Active(segment, notes, got[l])
    /\ Goes(l, "all")
    /\ UNCHANGED <<storeVars, due, got, page, disturbed, opened, notes, segment, viewing>>

NotesArrive(l) ==
    /\ phase[l] = "all"
    /\ page' = [page EXCEPT ![l] = Posted]
    /\ Goes(l, "result")
    /\ UNCHANGED <<storeVars, due, got, disturbed, listVars>>

\* Mutant: the bought notes left out are those this load has found.
OthersOfLoad(l) == page[l] \ NotesOf(got[l])

\* purchasedNotesIds is read now, not when the query was sent.
Others(l) == page[l] \ NotesOf(myNotes)

ShowNotes(l) ==
    /\ phase[l] = "result"
    /\ notes' = Others(l)
    /\ filtered' = Active(segment, Others(l), myNotes)
    /\ Goes(l, "shown")
    /\ got' = [got EXCEPT ![l] = {}] /\ page' = [page EXCEPT ![l] = {}]
    /\ UNCHANGED <<storeVars, due, disturbed, opened, myNotes, segment, viewing>>

-----------------------------------------------------------------------------
(***************************************************************************)
(* The member.                                                             *)
(***************************************************************************)
Touchable == opened /\ viewing = NoNote

SwitchSegment(s) ==
    /\ Touchable
    /\ segment' = s
    /\ filtered' = Active(s, notes, myNotes)
    /\ UNCHANGED <<storeVars, loadVars, opened, myNotes, notes, viewing>>

\* filter(searchText:): the text matches the notes in S.
Search(S) ==
    /\ Touchable
    /\ filtered' = Active(segment, notes, myNotes) \cap S
    /\ UNCHANGED <<storeVars, loadVars, opened, myNotes, notes, segment, viewing>>

Select(n) ==
    /\ Touchable /\ n \in filtered
    /\ viewing' = n
    /\ UNCHANGED <<storeVars, loadVars, opened, myNotes, notes, segment, filtered>>

Back ==
    /\ viewing # NoNote
    /\ viewing' = NoNote
    /\ UNCHANGED <<storeVars, loadVars, opened, myNotes, notes, segment, filtered>>

\* A purchase on the details screen (updateNoteDownload): the delegate begins a
\* load, then the record is written, before the load's query for the records;
\* a details screen that does not know the account writes none.
Buy(i, l) ==
    /\ viewing # NoNote
    /\ \A j \in PurchaseIds : j < i <=> j \in {p.id : p \in purchases}
    /\ purchases' \in {purchases, purchases \cup {[id |-> i, note |-> viewing]}}
    /\ Begin(l)
    /\ UNCHANGED <<noteState, listVars>>

\* The member posts a note (postNote(_:note:added:)): loadNotes is called.
PostNote(n, l) ==
    /\ Touchable
    /\ noteState[n] = "new" /\ Upcoming(l)
    /\ noteState' = [noteState EXCEPT ![n] = "posted"]
    /\ Goes(l, "all")
    /\ UNCHANGED <<purchases, due, got, page, disturbed, opened, myNotes, notes,
                   segment, filtered, viewing>>

\* A note's owner deletes its document.
DeleteNote(n) ==
    /\ n \in Deletable
    /\ noteState[n] = "posted"
    /\ noteState' = [noteState EXCEPT ![n] = "deleted"]
    /\ UNCHANGED <<purchases, loadVars, listVars>>

-----------------------------------------------------------------------------
Replies(l) ==
    \/ UserArrives(l) \/ QueryFails(l) \/ RecordsArrive(l)
    \/ \E p \in due[l] : BoughtArrives(l, p)
    \/ ShowBought(l) \/ NotesArrive(l) \/ ShowNotes(l)

Touches ==
    \/ \E s \in {"allNote", "myNote"} : SwitchSegment(s)
    \/ \E S \in Searches : Search(S)
    \/ \E n \in NoteIds : Select(n)
    \/ Back

Next ==
    \/ \E l \in Loads : OpenScreen(l) \/ Replies(l)
    \/ Touches
    \/ \E i \in PurchaseIds, l \in Loads : Buy(i, l)
    \/ \E n \in NoteIds, l \in Loads : PostNote(n, l)
    \/ \E n \in NoteIds : DeleteNote(n)

Spec == Init /\ [][Next]_vars

\* Firestore answers every query, and the main thread runs every block.
Fairness == \A l \in Loads : WF_vars(Replies(l))

FairSpec == Spec /\ Fairness

-----------------------------------------------------------------------------
(***************************************************************************)
(* Properties                                                              *)
(***************************************************************************)

\* The values of the variables are of the kinds declared above.
TypeOK ==
    /\ noteState \in [NoteIds -> {"new", "posted", "deleted"}]
    /\ purchases \subseteq Purchase
    /\ phase \in [Loads -> Phases]
    /\ due \in [Loads -> SUBSET Purchase]
    /\ got \in [Loads -> SUBSET Purchase]
    /\ page \in [Loads -> SUBSET NoteIds]
    /\ disturbed \in BOOLEAN
    /\ opened \in BOOLEAN
    /\ myNotes \subseteq Purchase
    /\ notes \subseteq NoteIds
    /\ segment \in {"allNote", "myNote"}
    /\ filtered \subseteq NoteIds
    /\ viewing \in NoteIds \cup {NoNote}

\* A note is in one of the two lists only, once the loads that have changed
\* the list of bought notes have ended, however their replies overlap: the
\* bought notes are left out by the list as it is when the block runs
\* (loadNotes, lines 196-199).
ListsDisjoint ==
    (\A l \in Loads : phase[l] \notin {"all", "result", "missed"}) =>
        notes \cap NotesOf(myNotes) = {}

Ended(l) == phase[l] \in {"idle", "shown", "nothing"}

\* When no two loads were under way together and all replies are in, the
\* member finds every note that was bought and still exists.
BoughtAreListed ==
    (~disturbed /\ opened /\ \A l \in Loads : Ended(l)) =>
        {p \in purchases : p.note \in Posted} \subseteq myNotes

\* A note in the list of bought notes stays there as long as it exists, unless
\* two loads overlapped.
BoughtStayListed ==
    [][~disturbed' =>
          {p \in myNotes : noteState'[p.note] = "posted"} \subseteq myNotes']_vars

\* Every load comes to an end, also when a bought note has been deleted.
LoadsEnd ==
    \A l \in Loads : phase[l] # "idle" ~>
        phase[l] \in {"shown", "nothing", "broken", "missed"}

\* The list of all notes is asked for when the bought ones have been loaded
\* ("purchased are loaded now load all notes", line 98): with every reply in
\* and none failed, it has been shown.
AllNotesLoad ==
    (opened /\ \A l \in Loads : Ended(l)) => \E l \in Loads : phase[l] = "shown"
=============================================================================
