-------------------------------- MODULE Roster --------------------------------
(***************************************************************************)
(* The roster of a member's chats: VCChatRoster and its cells.             *)
(*                                                                         *)
(* A load of the roster is a query for the chats, then a query for each    *)
(* one's unread messages; the reply that makes their number that of the    *)
(* chats puts the list on display. A chat of the member with themselves is *)
(* asked nothing, so that the number is never reached. The table asks for  *)
(* the other member's name whenever it puts a chat in a cell, and cells are *)
(* used again while replies are under way.                                 *)
(***************************************************************************)
EXTENDS Naturals, Sequences, FiniteSets, SequencesExt

CONSTANTS
    Me,             \* the member whose roster it is
    Others,
    Chats,          \* bound: documents in Chats that name the member
    With,           \* the other user of a chat, the member perhaps
    Loads,          \* bound: loads under way
    Cells,
    NoChat,
    NoUser,
    MaxUnderWay,    \* bound: loads, and queries for a name under way for a cell
    Events          \* bound: what may happen besides the regular steps

ASSUME RosterAssumption ==
    /\ Me \notin Others
    /\ IsFiniteSet(Chats) /\ NoChat \notin Chats
    /\ With \in [Chats -> Others \cup {Me}]
    /\ NoUser \notin Others
    /\ Cardinality(Cells) >= Cardinality({c \in Chats : With[c] # Me})
    /\ MaxUnderWay \in Nat \ {0}
    /\ Events \subseteq {"error"}

VARIABLES
    chats,      \* the documents that a query finds
    opened,     \* the roster has been opened
    refreshing, \* the refresh control spins
    list,       \* VCChatRoster.chats
    load,       \* the variables of the loads' closures
    blocks,     \* results queued on the main thread
    cell,       \* the table's cells
    known       \* for the properties: the chats that every load which was to be
                \* shown when the list was last emptied has found

vars == <<chats, opened, refreshing, list, load, blocks, cell, known>>

-----------------------------------------------------------------------------
\* `found` is sds, `due` the chats whose unread messages are asked for, `cs`
\* those that have been counted: dataLoadCounter is its length.
Load == [step : {"idle", "query", "threads"}, found : SUBSET Chats,
         due : SUBSET Chats, cs : Seq(Chats)]

Idle == [step |-> "idle", found |-> {}, due |-> {}, cs |-> <<>>]

\* A query for the name in the cell; `old` is for the properties: one sent later
\* has been answered.
Ask == [chat : Chats, old : BOOLEAN]

\* `true` is for the properties: no reply has overtaken another, or failed, since
\* the cell last had its chat's.
Cell == [chat : Chats \cup {NoChat}, user : Others \cup {NoUser},
         asks : Seq(Ask), true : BOOLEAN]

\* Mutant: the member's chat with themselves is asked for too.
AskedAll(S) == S

\* The chats the loops of loadChatRoster and loadOtherUser find a user for.
Asked(S) == {c \in S : With[c] # Me}

Init ==
    /\ chats \in SUBSET Chats
    /\ opened = FALSE /\ refreshing = FALSE
    /\ list = <<>>
    /\ load = [l \in Loads |-> Idle]
    /\ blocks = <<>>
    /\ cell = [x \in Cells |-> [chat |-> NoChat, user |-> NoUser, asks |-> <<>>,
                                true |-> TRUE]]
    /\ known = {}

-----------------------------------------------------------------------------
(***************************************************************************)
(* The table. Every assignment to the list reloads it.                     *)
(***************************************************************************)
\* The cell of a row: cellForRowAt and loadOtherUser.
Dequeued(x, c) ==
    [cell[x] EXCEPT !.chat = c,
                    !.asks = IF c \in Asked(Chats)
                             THEN Append(@, [chat |-> c, old |-> FALSE]) ELSE @]

\* A row gets any of the cells.
Show(rows) ==
    /\ list' = rows
    /\ \E at \in {f \in [1 .. Len(rows) -> Cells] : IsInjective(f)} :
          cell' = [x \in Cells |->
                      IF \E i \in DOMAIN rows : at[i] = x
                      THEN Dequeued(x, rows[CHOOSE i \in DOMAIN rows : at[i] = x])
                      ELSE [cell[x] EXCEPT !.chat = NoChat]]

\* Mutant: a name that the cell has is kept.
NameKept(x, c) == IF cell[x].user = NoUser THEN With[c] ELSE cell[x].user

\* cell?.user = user
Name(x, c) == With[c]

\* The queries under way when the i-th is over.
Answered(asks, i) ==
    [j \in 1 .. i - 1 |-> [asks[j] EXCEPT !.old = TRUE]] \o SubSeq(asks, i + 1, Len(asks))

NameArrives(x, i) ==
    LET asks == cell[x].asks IN
    /\ cell' = [cell EXCEPT ![x] =
          [@ EXCEPT !.user = Name(x, asks[i].chat), !.true = ~asks[i].old,
                    !.asks = Answered(asks, i)]]
    /\ UNCHANGED <<chats, opened, refreshing, list, load, blocks, known>>

\* It fails, or finds no document.
NameFails(x, i) ==
    LET asks == cell[x].asks IN
    /\ "error" \in Events
    /\ cell' = [cell EXCEPT ![x].true = @ /\ asks[i].old, ![x].asks = Answered(asks, i)]
    /\ UNCHANGED <<chats, opened, refreshing, list, load, blocks, known>>

\* Bound: every load and touch may send one more query for each cell.
Room ==
    \A x \in Cells :
        Len(cell[x].asks) + Len(blocks) + Cardinality({l \in Loads : load[l].step # "idle"})
            < MaxUnderWay

\* didSelectRowAt sets the row's unread count, which reloads the table.
Select ==
    /\ list # <<>> /\ Room
    /\ Show(list)
    /\ refreshing' = FALSE
    /\ UNCHANGED <<chats, opened, load, blocks, known>>

-----------------------------------------------------------------------------
(***************************************************************************)
(* loadChatRoster.                                                         *)
(***************************************************************************)
\* Another member, another screen or another device adds a chat.
ChatAdded(c) ==
    /\ chats' = chats \cup {c}
    /\ UNCHANGED <<opened, refreshing, list, load, blocks, cell, known>>

Begin(l) ==
    /\ load[l].step = "idle" /\ Room
    /\ load' = [load EXCEPT ![l].step = "query"]
    /\ UNCHANGED <<chats, list, blocks, cell, known>>

OpenRoster(l) == ~opened /\ opened' = TRUE /\ Begin(l) /\ UNCHANGED refreshing

\* The list is pulled down; a control that spins does not notice.
Refresh(l) ==
    /\ opened /\ ~refreshing
    /\ refreshing' = TRUE
    /\ Begin(l) /\ UNCHANGED opened

ChatsFail(l) ==
    /\ "error" \in Events
    /\ load[l].step = "query"
    /\ load' = [load EXCEPT ![l] = Idle]
    /\ UNCHANGED <<chats, opened, refreshing, list, blocks, cell, known>>

\* "No chats": the refresh control is left spinning.
NoneFound(l) ==
    /\ load[l].step = "query" /\ chats = {}
    /\ load' = [load EXCEPT ![l] = Idle]
    /\ UNCHANGED <<chats, opened, refreshing, list, blocks, cell, known>>

\* What the loads that are still to be shown have found.
Pending(l) ==
    {load[k].found : k \in {j \in Loads \ {l} : load[j].step = "threads"}}
        \cup {Range(b) : b \in Range(blocks)}

\* A load for which no reply is due is over, joined or not.
ChatsArrive(l) ==
    /\ load[l].step = "query" /\ chats # {}
    /\ load' = [load EXCEPT ![l] =
          IF Asked(chats) = {} THEN Idle
          ELSE [step |-> "threads", found |-> chats, due |-> Asked(chats), cs |-> <<>>]]
    /\ known' = {c \in chats : \A S \in Pending(l) : c \in S}
    /\ Show(<<>>)
    /\ refreshing' = FALSE
    /\ UNCHANGED <<chats, opened, blocks>>

\* Mutant: a query that fails is not counted.
CountedIfFound(l, c, ok) == IF ok THEN Append(load[l].cs, c) ELSE load[l].cs

\* A chat whose query fails has no unread count, and counts too.
Counted(l, c, ok) == Append(load[l].cs, c)

\* Mutant: the counter is the screen's, not the load's.
JoinsAny(l, cs) ==
    Len(cs) + MapThenSumSet(LAMBDA k : Len(load[k].cs), Loads \ {l})
        = Cardinality(load[l].found)

\* dataLoadCounter == sds.count
Joins(l, cs) == Len(cs) = Cardinality(load[l].found)

ThreadArrives(l, c, ok) ==
    LET cs == Counted(l, c, ok)
        due == load[l].due \ {c} IN
    /\ load[l].step = "threads" /\ c \in load[l].due
    /\ load' = [load EXCEPT ![l] =
          IF due = {} THEN Idle ELSE [@ EXCEPT !.due = due, !.cs = cs]]
    /\ blocks' = IF Joins(l, cs) THEN Append(blocks, cs) ELSE blocks
    /\ UNCHANGED <<chats, opened, refreshing, list, cell, known>>

ShowChats ==
    /\ blocks # <<>>
    /\ blocks' = Tail(blocks)
    /\ Show(Head(blocks))
    /\ refreshing' = FALSE
    /\ UNCHANGED <<chats, opened, load, known>>

-----------------------------------------------------------------------------
ThreadReply(l) ==
    \E c \in Chats, ok \in {TRUE, "error" \notin Events} : ThreadArrives(l, c, ok)

NameReply(x) == \E i \in DOMAIN cell[x].asks : NameArrives(x, i) \/ NameFails(x, i)

Next ==
    \/ \E c \in Chats \ chats : ChatAdded(c)
    \/ \E l \in Loads :
          \/ OpenRoster(l) \/ Refresh(l)
          \/ ChatsFail(l) \/ NoneFound(l) \/ ChatsArrive(l) \/ ThreadReply(l)
    \/ \E x \in Cells : NameReply(x)
    \/ ShowChats
    \/ Select

Spec == Init /\ [][Next]_vars

\* Firestore answers the queries of a load, and the main thread runs its blocks.
Fairness ==
    /\ \A l \in Loads : WF_vars(ThreadReply(l))
    /\ WF_vars(ShowChats)

FairSpec == Spec /\ Fairness

-----------------------------------------------------------------------------
(***************************************************************************)
(* Properties                                                              *)
(***************************************************************************)

\* The values of the variables are of the kinds declared above.
TypeOK ==
    /\ chats \subseteq Chats
    /\ opened \in BOOLEAN /\ refreshing \in BOOLEAN
    /\ list \in Seq(Chats)
    /\ load \in [Loads -> Load]
    /\ blocks \in Seq(Seq(Chats))
    /\ cell \in [Cells -> Cell]
    /\ known \subseteq Chats

Quiet == blocks = <<>> /\ \A l \in Loads : load[l].step # "threads"

\* Between loads the roster shows every chat that each of the loads that
\* overlapped has found, and none twice; unless one of them is the member's with
\* themselves, for then it may show none at all (loadChatRoster, lines 65-88).
RosterComplete ==
    Quiet => /\ IsInjective(list)
             /\ known = Asked(known) => known \subseteq Range(list)

\* A load that found chats, none of them with the member themselves, ends with
\* a roster on display, whichever queries fail and however it is refreshed.
RosterShown ==
    \A l \in Loads :
        (load[l].step = "threads" /\ load[l].found = Asked(load[l].found)) ~> list # <<>>

\* When no name is under way a row names the other member of its chat, although
\* its cell was another's before, unless the last reply was overtaken by one
\* that was asked for later, or failed (cellForRowAt, lines 113-118).
RowsNamed ==
    \A x \in Cells :
        cell[x].asks = <<>> /\ cell[x].true /\ cell[x].chat \in Asked(Chats) =>
            cell[x].user = With[cell[x].chat]
=============================================================================
