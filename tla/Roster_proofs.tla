----------------------------- MODULE Roster_proofs -----------------------------
(***************************************************************************)
(* What holds of Roster for any chats, loads and cells: the types, that    *)
(* between loads the roster shows every chat the overlapping loads found   *)
(* and none twice, and that a cell names the other member of its chat.     *)
(***************************************************************************)
EXTENDS Roster, Integers, FiniteSetTheorems, SequenceTheorems, TLAPS

-----------------------------------------------------------------------------
(***************************************************************************)
(* The table. What putting rows in cells may do to any one of them.        *)
(***************************************************************************)
LEMMA AskedType == \A S : Asked(S) \subseteq S
BY DEF Asked

LEMMA AskedNamesOther ==
    ASSUME NEW c \in Asked(Chats)
    PROVE  c \in Chats /\ c # NoChat /\ With[c] \in Others
BY RosterAssumption DEF Asked

\* A cell that has no row any more.
Hidden(x) == [cell[x] EXCEPT !.chat = NoChat]

LEMMA DequeuedType ==
    ASSUME TypeOK, NEW x \in Cells, NEW c \in Chats
    PROVE  Dequeued(x, c) \in Cell
<1> DEFINE a == [chat |-> c, old |-> FALSE]
           asks == cell[x].asks
<1>1. cell[x] \in Cell /\ asks \in Seq(Ask) /\ a \in Ask
    BY DEF TypeOK, Cell, Ask
<1>2. Append(asks, a) \in Seq(Ask)
    BY <1>1
<1> DEFINE q == IF c \in Asked(Chats) THEN Append(asks, a) ELSE asks
<1>3. q \in Seq(Ask)
    BY <1>1, <1>2
<1>4. Dequeued(x, c) = [cell[x] EXCEPT !.chat = c, !.asks = q]
    BY DEF Dequeued
<1> HIDE DEF q
<1> QED  BY <1>1, <1>3, <1>4 DEF Cell

LEMMA ShowCells ==
    ASSUME TypeOK, NEW rows \in Seq(Chats), Show(rows)
    PROVE  /\ list' = rows
           /\ cell' \in [Cells -> Cell]
           /\ \A x \in Cells :
                 cell'[x] = Hidden(x) \/ \E c \in Chats : cell'[x] = Dequeued(x, c)
<1>1. PICK at \in [1 .. Len(rows) -> Cells] :
          cell' = [x \in Cells |->
                      IF \E i \in DOMAIN rows : at[i] = x
                      THEN Dequeued(x, rows[CHOOSE i \in DOMAIN rows : at[i] = x])
                      ELSE [cell[x] EXCEPT !.chat = NoChat]]
    BY DEF Show
<1>2. ASSUME NEW x \in Cells
      PROVE  /\ cell'[x] = Hidden(x) \/ \E c \in Chats : cell'[x] = Dequeued(x, c)
             /\ cell'[x] \in Cell
    <2>1. CASE \E i \in DOMAIN rows : at[i] = x
        <3> DEFINE i == CHOOSE j \in DOMAIN rows : at[j] = x
        <3>1. i \in DOMAIN rows
            BY <2>1
        <3>2. rows[i] \in Chats
            BY <3>1, ElementOfSeq, LenProperties
        <3>3. cell'[x] = Dequeued(x, rows[i])
            BY <1>1, <2>1
        <3> HIDE DEF i
        <3> QED  BY <3>2, <3>3, DequeuedType
    <2>2. CASE ~\E i \in DOMAIN rows : at[i] = x
        <3>1. cell'[x] = Hidden(x)
            BY <1>1, <2>2 DEF Hidden
        <3>2. Hidden(x) \in Cell
            BY DEF Hidden, Cell, TypeOK
        <3> QED  BY <3>1, <3>2
    <2> QED  BY <2>1, <2>2
<1>3. list' = rows
    BY DEF Show
<1>4. cell' = [x \in Cells |-> cell'[x]]
    BY <1>1
<1> QED  BY <1>2, <1>3, <1>4

\* The queries under way when the i-th is over: those sent before it are old.
LEMMA AnsweredAsks ==
    ASSUME NEW asks \in Seq(Ask), NEW i \in DOMAIN asks
    PROVE  /\ Answered(asks, i) \in Seq(Ask)
           /\ Len(Answered(asks, i)) = Len(asks) - 1
           /\ \A j \in 1 .. Len(asks) - 1 :
                 Answered(asks, i)[j] = IF j < i THEN [asks[j] EXCEPT !.old = TRUE]
                                        ELSE asks[j + 1]
<1> DEFINE n == Len(asks)
           e(j) == [asks[j] EXCEPT !.old = TRUE]
           s == [j \in 1 .. i - 1 |-> e(j)]
           t == SubSeq(asks, i + 1, n)
<1>1. n \in Nat /\ i \in 1 .. n /\ \A j \in 1 .. n : asks[j] \in Ask
    BY LenProperties, ElementOfSeq
<1>2. ASSUME NEW j \in 1 .. i - 1 PROVE e(j) \in Ask
    <2>1. asks[j] \in Ask
        BY <1>1
    <2> QED  BY <2>1 DEF Ask
<1>3. s \in Seq(Ask) /\ Len(s) = i - 1
    <2>1. i - 1 \in Nat /\ DOMAIN s = 1 .. i - 1
        BY <1>1
    <2>2. s \in Seq(Ask)
        <3>1. s \in [1 .. i - 1 -> Ask]
            BY <1>2
        <3> QED  BY <2>1, <3>1, SeqDef
    <2> QED  BY <2>1, <2>2, LenProperties
<1>4. /\ t \in Seq(Ask) /\ Len(t) = n - i
      /\ \A j \in 1 .. n - i : t[j] = asks[i + j]
    <2> HIDE DEF n
    <2>1. \A j \in i + 1 .. n : asks[j] \in Ask
        BY <1>1
    <2>2. i + 1 \in Int /\ n \in Int
        BY <1>1
    <2>3. /\ t \in Seq(Ask) /\ Len(t) = IF i + 1 =< n THEN n - (i + 1) + 1 ELSE 0
          /\ \A j \in 1 .. n - (i + 1) + 1 : t[j] = asks[i + 1 + j - 1]
        BY <2>1, <2>2, SubSeqProperties
    <2>4. Len(t) = n - i
        BY <1>1, <2>3
    <2>5. ASSUME NEW j \in 1 .. n - i PROVE t[j] = asks[i + j]
        <3>1. j \in 1 .. n - (i + 1) + 1 /\ i + 1 + j - 1 = i + j
            BY <1>1
        <3> QED  BY <2>3, <3>1
    <2> QED  BY <2>3, <2>4, <2>5
<1>5. \A j \in 1 .. i - 1 : s[j] = e(j)
    OBVIOUS
<1> HIDE DEF s, t, e, n
<1>6. /\ s \o t \in Seq(Ask) /\ Len(s \o t) = n - 1
      /\ \A j \in 1 .. n - 1 :
            (s \o t)[j] = IF j =< i - 1 THEN s[j] ELSE t[j - (i - 1)]
    <2>1. /\ s \o t \in Seq(Ask) /\ Len(s \o t) = Len(s) + Len(t)
          /\ \A j \in 1 .. Len(s) + Len(t) :
                (s \o t)[j] = IF j =< Len(s) THEN s[j] ELSE t[j - Len(s)]
        BY <1>3, <1>4, ConcatProperties
    <2>2. Len(s) + Len(t) = n - 1
        BY <1>1, <1>3, <1>4
    <2> QED  BY <1>3, <2>1, <2>2
<1>7. Answered(asks, i) = s \o t
    BY DEF Answered, s, t, e, n
<1>8. ASSUME NEW j \in 1 .. n - 1
      PROVE  (s \o t)[j] = IF j < i THEN e(j) ELSE asks[j + 1]
    <2>1. CASE j < i
        BY <1>1, <1>5, <1>6, <2>1
    <2>2. CASE ~(j < i)
        <3> DEFINE k == j - (i - 1)
        <3>1. k \in 1 .. n - i /\ i + k = j + 1 /\ ~(j =< i - 1)
            BY <1>1, <2>2
        <3>2. (s \o t)[j] = t[k]
            BY <1>6, <3>1
        <3> HIDE DEF k
        <3>3. t[k] = asks[j + 1]
            BY <1>4, <3>1
        <3> QED  BY <2>2, <3>2, <3>3
    <2> QED  BY <2>1, <2>2
<1> QED  BY <1>1, <1>6, <1>7, <1>8 DEF e, n

-----------------------------------------------------------------------------
(***************************************************************************)
(* Types.                                                                  *)
(***************************************************************************)
LEMMA InitType == Init => TypeOK
<1> SUFFICES ASSUME Init PROVE TypeOK
    OBVIOUS
<1>1. Idle \in Load
    BY EmptySeq DEF Idle, Load
<1>2. [chat |-> NoChat, user |-> NoUser, asks |-> <<>>, true |-> TRUE] \in Cell
    BY EmptySeq DEF Cell
<1> QED  BY <1>1, <1>2, EmptySeq DEF Init, TypeOK

LEMMA IdleType == Idle \in Load
BY EmptySeq DEF Idle, Load

\* A query for a name is sent for a chat with another member only.
AsksOthers ==
    \A x \in Cells : \A i \in DOMAIN cell[x].asks : cell[x].asks[i].chat \in Asked(Chats)

TypeInv == TypeOK /\ AsksOthers

\* A cell whose i-th query has found a name, or none.
Renamed(x, i) ==
    [cell[x] EXCEPT !.user = With[cell[x].asks[i].chat], !.true = ~cell[x].asks[i].old,
                    !.asks = Answered(cell[x].asks, i)]

NotRenamed(x, i) ==
    [cell[x] EXCEPT !.true = @ /\ cell[x].asks[i].old, !.asks = Answered(cell[x].asks, i)]

\* What a step may do to a cell.
CellStep(x) ==
    \/ cell'[x] = cell[x] \/ cell'[x] = Hidden(x)
    \/ \E c \in Chats : cell'[x] = Dequeued(x, c)
    \/ \E i \in DOMAIN cell[x].asks : cell'[x] \in {Renamed(x, i), NotRenamed(x, i)}

CellSteps == cell' = [x \in Cells |-> cell'[x]] /\ \A x \in Cells : CellStep(x)

LEMMA CellsStep ==
    ASSUME TypeOK, [Next]_vars
    PROVE  CellSteps
<1>1. cell = [x \in Cells |-> cell[x]]
    BY DEF TypeOK
<1>2. ASSUME UNCHANGED cell PROVE CellSteps
    BY <1>1, <1>2 DEF CellSteps, CellStep
<1>3. ASSUME NEW rows \in Seq(Chats), Show(rows) PROVE CellSteps
    BY <1>3, ShowCells DEF CellSteps, CellStep
<1>4. ASSUME NEW x \in Cells, NameReply(x) PROVE CellSteps
    <2>1. PICK i \in DOMAIN cell[x].asks : NameArrives(x, i) \/ NameFails(x, i)
        BY <1>4 DEF NameReply
    <2>2. \/ cell' = [cell EXCEPT ![x] = Renamed(x, i)]
          \/ cell' = [cell EXCEPT ![x] = NotRenamed(x, i)]
        <3>1. CASE NameArrives(x, i)
            BY <3>1 DEF NameArrives, Name, Renamed
        <3>2. CASE NameFails(x, i)
            BY <1>1, <3>2 DEF NameFails, NotRenamed, TypeOK, Cell
        <3> QED  BY <2>1, <3>1, <3>2
    <2>3. cell' = [y \in Cells |-> cell'[y]]
        BY <1>1, <2>2
    <2>4. ASSUME NEW y \in Cells PROVE CellStep(y)
        <3>1. CASE y = x
            BY <1>1, <2>2, <3>1 DEF CellStep
        <3>2. CASE y # x
            BY <1>1, <2>2, <3>2 DEF CellStep
        <3> QED  BY <3>1, <3>2
    <2> QED  BY <2>3, <2>4 DEF CellSteps
<1>5. CASE \E c \in Chats \ chats : ChatAdded(c)
    BY <1>2, <1>5 DEF ChatAdded
<1>6. ASSUME NEW l \in Loads,
             \/ OpenRoster(l) \/ Refresh(l)
             \/ ChatsFail(l) \/ NoneFound(l) \/ ChatsArrive(l) \/ ThreadReply(l)
      PROVE  CellSteps
    <2>1. CASE OpenRoster(l) \/ Refresh(l)
        BY <1>2, <2>1 DEF OpenRoster, Refresh, Begin
    <2>2. CASE ChatsFail(l) \/ NoneFound(l) \/ ThreadReply(l)
        BY <1>2, <2>2 DEF ChatsFail, NoneFound, ThreadReply, ThreadArrives
    <2>3. CASE ChatsArrive(l)
        BY <1>3, <2>3, EmptySeq DEF ChatsArrive
    <2> QED  BY <1>6, <2>1, <2>2, <2>3
<1>7. CASE ShowChats
    <2>1. Head(blocks) \in Seq(Chats)
        BY <1>7, HeadTailProperties DEF ShowChats, TypeOK
    <2> QED  BY <1>3, <1>7, <2>1 DEF ShowChats
<1>8. CASE Select
    BY <1>3, <1>8 DEF Select, TypeOK
<1>9. CASE UNCHANGED vars
    BY <1>2, <1>9 DEF vars
<1> QED  BY <1>4, <1>5, <1>6, <1>7, <1>8, <1>9 DEF Next

\* No step leaves the types of a cell, or sends a query for the member's own name.
LEMMA CellsType ==
    ASSUME TypeInv, [Next]_vars
    PROVE  cell' \in [Cells -> Cell] /\ AsksOthers'
<1> SUFFICES ASSUME NEW x \in Cells
             PROVE  /\ cell'[x] \in Cell
                    /\ \A i \in DOMAIN cell'[x].asks : cell'[x].asks[i].chat \in Asked(Chats)
    BY CellsStep DEF CellSteps, AsksOthers, TypeInv
<1> DEFINE asks == cell[x].asks
<1>1. cell[x] \in Cell /\ asks \in Seq(Ask)
    BY DEF TypeInv, TypeOK, Cell
<1>2. CellStep(x)
    BY CellsStep DEF CellSteps, TypeInv
<1>3. CASE cell'[x] = cell[x]
    BY <1>1, <1>3 DEF TypeInv, AsksOthers
<1>4. CASE cell'[x] = Hidden(x)
    BY <1>1, <1>4 DEF TypeInv, AsksOthers, Hidden, Cell
<1>5. ASSUME NEW c \in Chats, cell'[x] = Dequeued(x, c)
      PROVE  /\ cell'[x] \in Cell
             /\ \A i \in DOMAIN cell'[x].asks : cell'[x].asks[i].chat \in Asked(Chats)
    <2> DEFINE a == [chat |-> c, old |-> FALSE]
    <2>1. cell'[x] \in Cell
        BY <1>5, DequeuedType DEF TypeInv
    <2>2. cell'[x].asks = IF c \in Asked(Chats) THEN Append(asks, a) ELSE asks
        BY <1>1, <1>5 DEF Dequeued, Cell
    <2>3. ASSUME NEW i \in DOMAIN cell'[x].asks
          PROVE  cell'[x].asks[i].chat \in Asked(Chats)
        <3>1. CASE c \notin Asked(Chats)
            BY <2>2, <3>1 DEF TypeInv, AsksOthers
        <3>2. CASE c \in Asked(Chats)
            <4>1. a \in Ask
                BY DEF Ask
            <4> HIDE DEF a
            <4>2. /\ Append(asks, a) \in Seq(Ask)
                  /\ Len(Append(asks, a)) = Len(asks) + 1
                  /\ \A j \in 1 .. Len(asks) : Append(asks, a)[j] = asks[j]
                  /\ Append(asks, a)[Len(asks) + 1] = a
                BY <1>1, <4>1, AppendProperties
            <4>3. i \in 1 .. Len(asks) + 1 /\ Len(asks) \in Nat /\ DOMAIN asks = 1 .. Len(asks)
                BY <1>1, <2>2, <3>2, <4>2, LenProperties
            <4>4. CASE i = Len(asks) + 1
                BY <2>2, <3>2, <4>2, <4>4 DEF a
            <4>5. CASE i # Len(asks) + 1
                <5>1. i \in DOMAIN asks
                    BY <4>3, <4>5
                <5>2. cell'[x].asks[i] = asks[i]
                    BY <2>2, <3>2, <4>2, <4>3, <5>1
                <5> QED  BY <5>1, <5>2 DEF TypeInv, AsksOthers
            <4> QED  BY <4>4, <4>5
        <3> QED  BY <3>1, <3>2
    <2> QED  BY <2>1, <2>3
<1>6. ASSUME NEW i \in DOMAIN asks, cell'[x] \in {Renamed(x, i), NotRenamed(x, i)}
      PROVE  /\ cell'[x] \in Cell
             /\ \A j \in DOMAIN cell'[x].asks : cell'[x].asks[j].chat \in Asked(Chats)
    <2>1. asks[i] \in Ask /\ With[asks[i].chat] \in Others
        BY <1>1, AskedNamesOther, ElementOfSeq, LenProperties DEF TypeInv, AsksOthers
    <2>2. Answered(asks, i) \in Seq(Ask)
        BY <1>1, AnsweredAsks
    <2>3. cell'[x].asks = Answered(asks, i)
        BY <1>1, <1>6 DEF Renamed, NotRenamed, Cell
    <2>4. cell'[x] \in Cell
        <3>1. Renamed(x, i) \in Cell
            BY <1>1, <2>1, <2>2 DEF Renamed, Cell, Ask
        <3>2. NotRenamed(x, i) \in Cell
            BY <1>1, <2>1, <2>2 DEF NotRenamed, Cell, Ask
        <3> QED  BY <1>6, <3>1, <3>2
    <2>5. ASSUME NEW j \in DOMAIN Answered(asks, i)
          PROVE  Answered(asks, i)[j].chat \in Asked(Chats)
        <3>1. /\ Len(Answered(asks, i)) = Len(asks) - 1 /\ Len(asks) \in Nat
              /\ DOMAIN asks = 1 .. Len(asks)
            BY <1>1, AnsweredAsks, LenProperties
        <3>2. j \in 1 .. Len(asks) - 1
            BY <2>2, <3>1, LenProperties
        <3>3. Answered(asks, i)[j] = IF j < i THEN [asks[j] EXCEPT !.old = TRUE]
                                     ELSE asks[j + 1]
            BY <1>1, <3>2, AnsweredAsks
        <3>4. j \in DOMAIN asks /\ j + 1 \in DOMAIN asks
            BY <3>1, <3>2
        <3>5. asks[j] \in Ask /\ asks[j].chat \in Asked(Chats)
              /\ asks[j + 1].chat \in Asked(Chats)
            BY <1>1, <3>1, <3>4, ElementOfSeq DEF TypeInv, AsksOthers
        <3>6. [asks[j] EXCEPT !.old = TRUE].chat = asks[j].chat
            BY <3>5 DEF Ask
        <3> QED  BY <3>3, <3>5, <3>6
    <2> QED  BY <2>3, <2>4, <2>5
<1> QED  BY <1>2, <1>3, <1>4, <1>5, <1>6 DEF CellStep

\* The steps of a load.
LEMMA LoadsType ==
    ASSUME TypeOK, NEW l \in Loads,
           \/ OpenRoster(l) \/ Refresh(l)
           \/ ChatsFail(l) \/ NoneFound(l) \/ ChatsArrive(l) \/ ThreadReply(l)
    PROVE  /\ load' \in [Loads -> Load] /\ blocks' \in Seq(Seq(Chats))
           /\ known' \subseteq Chats /\ list' \in Seq(Chats)
           /\ opened' \in BOOLEAN /\ refreshing' \in BOOLEAN /\ chats' = chats
<1>1. load[l] \in Load /\ load[l].cs \in Seq(Chats)
    BY DEF TypeOK, Load
<1>2. CASE OpenRoster(l) \/ Refresh(l)
    <2>1. [load[l] EXCEPT !.step = "query"] \in Load
        BY <1>1 DEF Load
    <2>2. load' = [load EXCEPT ![l] = [load[l] EXCEPT !.step = "query"]]
        BY <1>2 DEF OpenRoster, Refresh, Begin
    <2>3. load' \in [Loads -> Load]
        BY <2>1, <2>2 DEF TypeOK
    <2> QED  BY <1>2, <2>3 DEF OpenRoster, Refresh, Begin, TypeOK
<1>3. CASE ChatsFail(l) \/ NoneFound(l)
    <2>1. load' \in [Loads -> Load]
        BY <1>3, IdleType DEF ChatsFail, NoneFound, TypeOK
    <2> QED  BY <1>3, <2>1 DEF ChatsFail, NoneFound, TypeOK
<1>4. CASE ChatsArrive(l)
    <2> DEFINE r == [step |-> "threads", found |-> chats, due |-> Asked(chats), cs |-> <<>>]
    <2>1. r \in Load
        BY AskedType, EmptySeq DEF Load, TypeOK
    <2>2. load' \in [Loads -> Load]
        BY <1>4, <2>1, IdleType DEF ChatsArrive, TypeOK
    <2>3. list' = <<>>
        BY <1>4, EmptySeq, ShowCells DEF ChatsArrive
    <2> QED  BY <1>4, <2>2, <2>3, EmptySeq DEF ChatsArrive, TypeOK
<1>5. CASE ThreadReply(l)
    <2>1. PICK c \in Chats, ok \in {TRUE, "error" \notin Events} : ThreadArrives(l, c, ok)
        BY <1>5 DEF ThreadReply
    <2> DEFINE cs == Append(load[l].cs, c)
               r == [load[l] EXCEPT !.due = load[l].due \ {c}, !.cs = cs]
    <2>2. cs \in Seq(Chats)
        BY <1>1
    <2>3. r \in Load
        BY <1>1, <2>2 DEF Load
    <2>4. load' \in [Loads -> Load]
        <3>1. load' = [load EXCEPT ![l] = Idle] \/ load' = [load EXCEPT ![l] = r]
            BY <2>1 DEF ThreadArrives, Counted
        <3> HIDE DEF r, cs
        <3> QED  BY <2>3, <3>1, IdleType DEF TypeOK
    <2>5. blocks' = blocks \/ blocks' = Append(blocks, cs)
        BY <2>1 DEF ThreadArrives, Counted
    <2>6. blocks' \in Seq(Seq(Chats))
        <3> HIDE DEF cs
        <3>1. blocks \in Seq(Seq(Chats))
            BY DEF TypeOK
        <3>2. Append(blocks, cs) \in Seq(Seq(Chats))
            BY <2>2, <3>1, AppendProperties
        <3> QED  BY <2>5, <3>1, <3>2
    <2> QED  BY <2>1, <2>4, <2>6 DEF ThreadArrives, TypeOK
<1> QED  BY <1>2, <1>3, <1>4, <1>5

LEMMA NextType == TypeInv /\ [Next]_vars => TypeInv'
<1> SUFFICES ASSUME TypeInv, [Next]_vars PROVE TypeInv'
    OBVIOUS
<1>1. cell' \in [Cells -> Cell] /\ AsksOthers'
    BY CellsType
<1>2. CASE \E c \in Chats \ chats : ChatAdded(c)
    BY <1>1, <1>2 DEF ChatAdded, TypeInv, TypeOK
<1>3. ASSUME NEW l \in Loads,
             \/ OpenRoster(l) \/ Refresh(l)
             \/ ChatsFail(l) \/ NoneFound(l) \/ ChatsArrive(l) \/ ThreadReply(l)
      PROVE  TypeInv'
    BY <1>1, <1>3, LoadsType DEF TypeInv, TypeOK
<1>4. ASSUME NEW x \in Cells, NameReply(x) PROVE TypeInv'
    BY <1>1, <1>4 DEF NameReply, NameArrives, NameFails, TypeInv, TypeOK
<1>5. CASE ShowChats
    <2>1. Head(blocks) \in Seq(Chats) /\ Tail(blocks) \in Seq(Seq(Chats))
        BY <1>5, HeadTailProperties DEF ShowChats, TypeInv, TypeOK
    <2>2. list' = Head(blocks)
        BY <1>5, <2>1, ShowCells DEF ShowChats, TypeInv
    <2> QED  BY <1>1, <1>5, <2>1, <2>2 DEF ShowChats, TypeInv, TypeOK
<1>6. CASE Select
    <2>1. list' = list
        BY <1>6, ShowCells DEF Select, TypeInv, TypeOK
    <2> QED  BY <1>1, <1>6, <2>1 DEF Select, TypeInv, TypeOK
<1>7. CASE UNCHANGED vars
    BY <1>1, <1>7 DEF vars, TypeInv, TypeOK
<1> QED  BY <1>2, <1>3, <1>4, <1>5, <1>6, <1>7 DEF Next

LEMMA TypeInvariant == Spec => []TypeInv
<1>1. Init => TypeInv
    <2> SUFFICES ASSUME Init PROVE AsksOthers
        BY InitType DEF TypeInv
    <2> QED  BY EmptySeq DEF Init, AsksOthers
<1> QED  BY <1>1, NextType, PTL DEF Spec

\* The variables keep their types: a name that arrives is another member's,
\* as loadOtherUser asks for no other (Chat.swift, lines 25-28).
THEOREM RosterTypeCorrect == Spec => []TypeOK
<1>1. TypeInv => TypeOK
    BY DEF TypeInv
<1> QED  BY <1>1, TypeInvariant, PTL

-----------------------------------------------------------------------------
(***************************************************************************)
(* Names. While the query for a cell's chat is under way and no later one  *)
(* has been answered, it is the last. Afterwards every query under way is  *)
(* old, so that the name that came is the chat's until an older reply      *)
(* overtakes, which clears `true`.                                         *)
(***************************************************************************)
\* The last query is for the cell's chat, and no later one has been answered.
NameDue(x) ==
    /\ cell[x].asks # <<>>
    /\ cell[x].asks[Len(cell[x].asks)].chat = cell[x].chat
    /\ ~cell[x].asks[Len(cell[x].asks)].old

\* The name has come, and what is under way is old.
NameCame(x) ==
    /\ \A i \in DOMAIN cell[x].asks : cell[x].asks[i].old
    /\ cell[x].true => cell[x].user = With[cell[x].chat]

CellsNamed ==
    \A x \in Cells : cell[x].chat \in Asked(Chats) => NameDue(x) \/ NameCame(x)

LEMMA AnsweredKeeps ==
    ASSUME NEW asks \in Seq(Ask), NEW i \in DOMAIN asks
    PROVE  LET rest == Answered(asks, i) IN
           /\ (\A j \in DOMAIN asks : asks[j].old) => \A j \in DOMAIN rest : rest[j].old
           /\ i = Len(asks) => \A j \in DOMAIN rest : rest[j].old
           /\ i # Len(asks) => rest # <<>> /\ rest[Len(rest)] = asks[Len(asks)]
<1> DEFINE rest == Answered(asks, i)
           n == Len(asks)
<1>1. n \in Nat /\ DOMAIN asks = 1 .. n /\ i \in 1 .. n /\ \A j \in 1 .. n : asks[j] \in Ask
    BY LenProperties, ElementOfSeq
<1>2. /\ rest \in Seq(Ask) /\ Len(rest) = n - 1
      /\ \A j \in 1 .. n - 1 : rest[j] = IF j < i THEN [asks[j] EXCEPT !.old = TRUE]
                                         ELSE asks[j + 1]
    BY AnsweredAsks
<1> HIDE DEF rest, n
<1>3. DOMAIN rest = 1 .. n - 1
    BY <1>2, LenProperties
<1>4. \A j \in 1 .. n : [asks[j] EXCEPT !.old = TRUE].old
    BY <1>1 DEF Ask
<1>5. ASSUME NEW j \in DOMAIN rest, j < i \/ asks[j + 1].old
      PROVE  rest[j].old
    <2>1. j \in 1 .. n - 1 /\ j \in 1 .. n
        BY <1>1, <1>3
    <2> QED  BY <1>2, <1>4, <1>5, <2>1
<1>6. ASSUME \A j \in DOMAIN asks : asks[j].old PROVE \A j \in DOMAIN rest : rest[j].old
    BY <1>1, <1>3, <1>5, <1>6
<1>7. ASSUME i = n PROVE \A j \in DOMAIN rest : rest[j].old
    BY <1>1, <1>3, <1>5, <1>7
<1>8. ASSUME i # n PROVE rest # <<>> /\ rest[Len(rest)] = asks[n]
    <2>1. n - 1 \in 1 .. n - 1 /\ ~(n - 1 < i) /\ n - 1 + 1 = n
        BY <1>1, <1>8
    <2> QED  BY <1>2, <2>1
<1> QED  BY <1>6, <1>7, <1>8 DEF rest, n

LEMMA CellsNamedKept == TypeInv /\ CellsNamed /\ [Next]_vars => CellsNamed'
<1> SUFFICES ASSUME TypeInv, CellsNamed, [Next]_vars,
                    NEW x \in Cells, cell'[x].chat \in Asked(Chats)
             PROVE  NameDue(x)' \/ NameCame(x)'
    BY DEF CellsNamed
<1> DEFINE asks == cell[x].asks
<1>1. cell[x] \in Cell /\ asks \in Seq(Ask)
    BY DEF TypeInv, TypeOK, Cell
<1>2. CellStep(x)
    BY CellsStep DEF CellSteps, TypeInv
<1>3. CASE cell'[x] = cell[x]
    BY <1>3 DEF CellsNamed, NameDue, NameCame
<1>4. CASE cell'[x] = Hidden(x)
    BY <1>1, <1>4, AskedNamesOther DEF Hidden, Cell
<1>5. ASSUME NEW c \in Chats, cell'[x] = Dequeued(x, c) PROVE NameDue(x)'
    <2> DEFINE a == [chat |-> c, old |-> FALSE]
    <2>1. cell'[x].chat = c /\ cell'[x].asks = Append(asks, a)
        BY <1>1, <1>5 DEF Dequeued, Cell
    <2>2. a \in Ask
        BY DEF Ask
    <2>3. /\ Append(asks, a) # <<>> /\ Len(Append(asks, a)) = Len(asks) + 1
          /\ Append(asks, a)[Len(asks) + 1] = a
        BY <1>1, <2>2, AppendProperties
    <2> QED  BY <2>1, <2>3 DEF NameDue
<1>6. ASSUME NEW i \in DOMAIN asks, cell'[x] \in {Renamed(x, i), NotRenamed(x, i)}
      PROVE  NameDue(x)' \/ NameCame(x)'
    <2> DEFINE rest == Answered(asks, i)
               n == Len(asks)
    <2>1. cell'[x].asks = rest /\ cell'[x].chat = cell[x].chat
        BY <1>1, <1>6 DEF Renamed, NotRenamed, Cell
    <2>2. /\ cell'[x] = Renamed(x, i) =>
                cell'[x].user = With[asks[i].chat] /\ cell'[x].true = ~asks[i].old
          /\ cell'[x] = NotRenamed(x, i) =>
                cell'[x].user = cell[x].user /\ cell'[x].true = (cell[x].true /\ asks[i].old)
        BY <1>1 DEF Renamed, NotRenamed, Cell
    <2>3. /\ (\A j \in DOMAIN asks : asks[j].old) => \A j \in DOMAIN rest : rest[j].old
          /\ i = n => \A j \in DOMAIN rest : rest[j].old
          /\ i # n => rest # <<>> /\ rest[Len(rest)] = asks[n]
        BY <1>1, AnsweredKeeps
    <2> HIDE DEF rest
    <2>4. CASE NameDue(x) /\ i # n
        BY <2>1, <2>3, <2>4 DEF NameDue
    <2>5. CASE NameDue(x) /\ i = n
        BY <1>6, <2>1, <2>2, <2>3, <2>5 DEF NameDue, NameCame
    <2>6. CASE NameCame(x)
        BY <1>6, <2>1, <2>2, <2>3, <2>6 DEF NameCame
    <2> QED  BY <2>1, <2>4, <2>5, <2>6 DEF CellsNamed
<1> QED  BY <1>2, <1>3, <1>4, <1>5, <1>6 DEF CellStep

\* When no name is under way for a cell, the name in it is the other member's of
\* its chat, unless the last reply was overtaken by a later one or failed
\* (cellForRowAt, lines 113-118).
THEOREM RowsNameTheirChat == Spec => []RowsNamed
<1>1. Init => CellsNamed
    <2> SUFFICES ASSUME Init, NEW x \in Cells PROVE cell[x].chat \notin Asked(Chats)
        BY DEF CellsNamed
    <2> QED  BY AskedNamesOther DEF Init
<1>2. CellsNamed => RowsNamed
    BY DEF CellsNamed, NameDue, NameCame, RowsNamed
<1> QED  BY <1>1, <1>2, TypeInvariant, CellsNamedKept, PTL DEF Spec

-----------------------------------------------------------------------------
(***************************************************************************)
(* Completeness. A load that waits for its replies, or whose result is     *)
(* queued, has found some chats: what it is going to show. Chats are only  *)
(* added, so that of two loads one has found all the other has; the one    *)
(* that found least decides what the list must have at rest.               *)
(***************************************************************************)
Threads == {l \in Loads : load[l].step = "threads"}

\* What the loads that are still to be shown have found.
Results == {load[l].found : l \in Threads} \cup {Range(b) : b \in Range(blocks)}

\* A chat that was asked for is either due or counted, and counted once.
LoadGood(l) ==
    /\ load[l].found \subseteq chats
    /\ load[l].due \subseteq Asked(load[l].found) /\ load[l].due # {}
    /\ IsInjective(load[l].cs)
    /\ Range(load[l].cs) = Asked(load[l].found) \ load[l].due
    /\ Len(load[l].cs) + Cardinality(load[l].due) = Cardinality(Asked(load[l].found))

LoadsGood == \A l \in Threads : LoadGood(l)

\* No list on display or in a block has a chat twice.
ListsGood ==
    /\ IsInjective(list)
    /\ \A b \in Range(blocks) : IsInjective(b) /\ Range(b) \subseteq chats

Chain == \A S, T \in Results : S \subseteq T \/ T \subseteq S

\* Every result that is to come has the known chats.
KnownFound == \A S \in Results : known \subseteq S

\* They are on display, or they are themselves such a result.
KnownComes == known = Asked(known) => known \subseteq Range(list) \/ known \in Results

ResultInv == LoadsGood /\ ListsGood /\ Chain /\ KnownFound /\ KnownComes

\* Of some sets of chats one is least in the order of inclusion.
LEMMA MinimalSubset ==
    ASSUME NEW U, IsFiniteSet(U), NEW F, F \subseteq SUBSET U, F # {}
    PROVE  \E S \in F : \A T \in F : T \subseteq S => T = S
<1> DEFINE All == SUBSET U
           R == StrictSubsetOrdering(U)
<1>1. IsWellFoundedOn(R, All)
    BY FS_FiniteSubsetsOfFinite, FS_StrictSubsetOrderingWellFounded, Zenon
<1>2. F \subseteq All
    OBVIOUS
<1>3. \A S, T \in F : ~(<<T, S>> \in R) => (T \subseteq S => T = S)
    BY DEF StrictSubsetOrdering
<1> HIDE DEF All, R
<1>4. \E S \in F : \A T \in F : ~(<<T, S>> \in R)
    BY ONLY <1>1, <1>2, F # {}, WFMin, Zenon
<1> QED  BY ONLY <1>3, <1>4, Zenon

\* Sequences without repetition.
LEMMA EmptyInjective == IsInjective(<<>>) /\ Range(<<>>) = {}
BY DEF IsInjective, Range

LEMMA AppendIsInjective ==
    ASSUME NEW S, NEW s \in Seq(S), NEW c \in S
    PROVE  /\ Range(Append(s, c)) = Range(s) \cup {c}
           /\ IsInjective(s) /\ c \notin Range(s) => IsInjective(Append(s, c))
<1> DEFINE t == Append(s, c)
           n == Len(s)
<1>1. n \in Nat /\ DOMAIN s = 1 .. n
    BY LenProperties
<1>2. /\ t \in Seq(S) /\ Len(t) = n + 1
      /\ \A i \in 1 .. n : t[i] = s[i]
      /\ t[n + 1] = c
    BY AppendProperties
<1> HIDE DEF t, n
<1>3. DOMAIN t = 1 .. n + 1
    BY <1>2, LenProperties
<1>4. 1 .. n + 1 = (1 .. n) \cup {n + 1}
    BY <1>1
<1>5. Range(t) = Range(s) \cup {c}
    BY <1>1, <1>2, <1>3, <1>4 DEF Range
<1>6. ASSUME IsInjective(s), c \notin Range(s) PROVE IsInjective(t)
    <2>1. \A i \in 1 .. n : t[i] # c
        BY <1>1, <1>2, <1>6 DEF Range
    <2>2. \A i, j \in 1 .. n : t[i] = t[j] => i = j
        BY <1>1, <1>2, <1>6 DEF IsInjective
    <2> QED  BY <1>2, <1>3, <1>4, <2>1, <2>2 DEF IsInjective
<1> QED  BY <1>5, <1>6 DEF t

LEMMA HeadAndTail ==
    ASSUME NEW S, NEW s \in Seq(S), s # <<>>
    PROVE  Head(s) \in Range(s) /\ Range(s) = {Head(s)} \cup Range(Tail(s))
<1> DEFINE t == Tail(s)
           n == Len(s)
<1>1. n \in Nat \ {0} /\ DOMAIN s = 1 .. n /\ Head(s) = s[1]
    BY LenProperties, EmptySeq
<1>2. t \in Seq(S) /\ Len(t) = n - 1 /\ \A i \in 1 .. n - 1 : t[i] = s[i + 1]
    BY HeadTailProperties
<1> HIDE DEF t, n
<1>3. DOMAIN t = 1 .. n - 1
    BY <1>2, LenProperties
<1>4. ASSUME NEW i \in DOMAIN s PROVE s[i] = s[1] \/ s[i] \in Range(t)
    <2>1. CASE i = 1
        BY <2>1
    <2>2. CASE i # 1
        <3>1. i - 1 \in 1 .. n - 1 /\ i - 1 + 1 = i
            BY <1>1, <2>2
        <3>2. t[i - 1] = s[i]
            BY <1>2, <3>1
        <3> QED  BY <1>3, <3>1, <3>2 DEF Range
    <2> QED  BY <2>1, <2>2
<1>5. ASSUME NEW i \in DOMAIN t PROVE t[i] \in Range(s)
    <2>1. i + 1 \in DOMAIN s /\ t[i] = s[i + 1]
        BY <1>1, <1>2, <1>3
    <2> QED  BY <2>1 DEF Range
<1>6. 1 \in DOMAIN s
    BY <1>1
<1> QED  BY <1>1, <1>4, <1>5, <1>6 DEF Range, t

LEMMA AskedFinite ==
    ASSUME TypeOK, NEW S \in SUBSET Chats
    PROVE  /\ IsFiniteSet(S) /\ IsFiniteSet(Asked(S))
           /\ Cardinality(S) \in Nat /\ Cardinality(Asked(S)) \in Nat
           /\ Cardinality(Asked(S)) >= Cardinality(S) => Asked(S) = S
<1>1. IsFiniteSet(S)
    BY RosterAssumption, FS_Subset
<1>2. Asked(S) \in SUBSET S
    BY AskedType
<1>3. IsFiniteSet(Asked(S)) /\ Cardinality(Asked(S)) =< Cardinality(S)
      /\ (Cardinality(S) = Cardinality(Asked(S)) => S = Asked(S))
    BY <1>1, <1>2, FS_Subset
<1>4. Cardinality(S) \in Nat /\ Cardinality(Asked(S)) \in Nat
    BY <1>1, <1>3, FS_CardinalityType
<1> QED  BY <1>1, <1>3, <1>4

LEMMA ResultsFound ==
    ASSUME LoadsGood, ListsGood
    PROVE  Results \subseteq SUBSET chats
BY DEF LoadsGood, LoadGood, ListsGood, Results

\* A step that only drops results which are not shown keeps what is known of them.
LEMMA ResultsKept ==
    ASSUME Chain, KnownFound, KnownComes,
           Results' \subseteq Results, \A S \in Results : S = Asked(S) => S \in Results',
           known' = known, list' = list
    PROVE  Chain' /\ KnownFound' /\ KnownComes'
<1>1. Chain' /\ KnownFound'
    BY DEF Chain, KnownFound
<1>2. KnownComes'
    <2> SUFFICES ASSUME known = Asked(known), ~(known \subseteq Range(list))
                 PROVE  known \in Results'
        BY DEF KnownComes, Asked
    <2> QED  BY DEF KnownComes
<1> QED  BY <1>1, <1>2

LEMMA OtherSteps ==
    ASSUME ResultInv, Threads' = Threads, \A k \in Threads : load'[k] = load[k],
           blocks' = blocks, list' = list, known' = known, chats \subseteq chats'
    PROVE  ResultInv'
<1>1. Results' = Results
    BY DEF Results
<1>2. LoadsGood'
    BY DEF ResultInv, LoadsGood, LoadGood, Asked
<1>3. ListsGood'
    BY DEF ResultInv, ListsGood
<1> QED  BY <1>1, <1>2, <1>3, ResultsKept DEF ResultInv

\* The reply for a chat's unread messages. The one that makes their number that of
\* the chats is the last, and then none was left out.
LEMMA ThreadReplyKeeps ==
    ASSUME TypeOK, ResultInv, NEW l \in Loads, ThreadReply(l)
    PROVE  ResultInv'
<1>1. PICK c \in Chats, ok \in {TRUE, "error" \notin Events} : ThreadArrives(l, c, ok)
    BY DEF ThreadReply
<1> DEFINE found == load[l].found
           cs == Append(load[l].cs, c)
           due == load[l].due \ {c}
<1>2. /\ load[l].step = "threads" /\ c \in load[l].due
      /\ load' = [load EXCEPT ![l] =
            IF due = {} THEN Idle ELSE [@ EXCEPT !.due = due, !.cs = cs]]
      /\ blocks' = IF Joins(l, cs) THEN Append(blocks, cs) ELSE blocks
      /\ UNCHANGED <<chats, list, known>>
    BY <1>1 DEF ThreadArrives, Counted
<1>3. /\ found \in SUBSET Chats /\ load[l].cs \in Seq(Chats) /\ blocks \in Seq(Seq(Chats))
      /\ l \in Threads /\ LoadGood(l) /\ load[l] \in Load
    BY <1>2 DEF TypeOK, Load, Threads, ResultInv, LoadsGood
<1>4. /\ IsFiniteSet(Asked(found)) /\ Cardinality(Asked(found)) \in Nat
      /\ Cardinality(found) \in Nat
      /\ Cardinality(Asked(found)) >= Cardinality(found) => Asked(found) = found
    BY <1>3, AskedFinite
<1>5. /\ Cardinality(due) = Cardinality(load[l].due) - 1 /\ Cardinality(due) \in Nat
      /\ Cardinality(load[l].due) \in Nat
      /\ Cardinality(due) = 0 <=> due = {}
    <2>1. IsFiniteSet(load[l].due)
        BY <1>3, <1>4, FS_Subset DEF LoadGood
    <2>2. IsFiniteSet(due) /\ Cardinality(due) = Cardinality(load[l].due) - 1
        BY <1>2, <2>1, FS_RemoveElement
    <2> QED  BY <2>1, <2>2, FS_CardinalityType, FS_EmptySet
<1>6. /\ cs \in Seq(Chats) /\ Len(cs) = Len(load[l].cs) + 1 /\ Len(load[l].cs) \in Nat
      /\ Range(cs) = Range(load[l].cs) \cup {c}
      /\ IsInjective(cs)
    <2>1. c \notin Range(load[l].cs)
        BY <1>2, <1>3 DEF LoadGood
    <2> QED  BY <1>3, <2>1, AppendProperties, AppendIsInjective, LenProperties DEF LoadGood
<1>7. Range(cs) = Asked(found) \ due
    BY <1>2, <1>3, <1>6 DEF LoadGood
<1>8. Len(cs) + Cardinality(due) = Cardinality(Asked(found))
    <2>1. Len(load[l].cs) + Cardinality(load[l].due) = Cardinality(Asked(found))
        BY <1>3 DEF LoadGood
    <2> HIDE DEF cs, due
    <2> QED  BY <1>5, <1>6, <2>1
<1> HIDE DEF cs, due
<1>9. Joins(l, cs) => due = {} /\ Asked(found) = found /\ Range(cs) = found
    BY <1>4, <1>5, <1>6, <1>7, <1>8 DEF Joins
<1>10. due = {} /\ Asked(found) = found => Joins(l, cs)
    BY <1>4, <1>5, <1>6, <1>8 DEF Joins
<1>11. Range(blocks') = IF Joins(l, cs) THEN Range(blocks) \cup {cs} ELSE Range(blocks)
    <2>1. Range(Append(blocks, cs)) = Range(blocks) \cup {cs}
        BY <1>3, <1>6, AppendIsInjective
    <2> QED  BY <1>2, <2>1
<1>12. /\ \A k \in Loads \ {l} : load'[k] = load[k]
       /\ due = {} => load'[l] = Idle
       /\ due # {} => load'[l] = [load[l] EXCEPT !.due = due, !.cs = cs]
    BY <1>2, <1>3 DEF TypeOK
<1>13. Threads' = IF due = {} THEN Threads \ {l} ELSE Threads
    <2>1. due = {} => load'[l].step = "idle"
        BY <1>12 DEF Idle
    <2>2. due # {} => load'[l].step = "threads"
        BY <1>2, <1>3, <1>12 DEF Load
    <2>3. \A k \in Loads \ {l} : k \in Threads' <=> k \in Threads
        BY <1>12 DEF Threads
    <2>4. l \in Threads' <=> due # {}
        BY <2>1, <2>2 DEF Threads
    <2>5. Threads' \subseteq Loads /\ Threads \subseteq Loads
        BY DEF Threads
    <2> HIDE DEF Threads
    <2>6. ASSUME due = {} PROVE Threads' = Threads \ {l}
        BY <2>3, <2>4, <2>5, <2>6
    <2>7. ASSUME due # {} PROVE Threads' = Threads
        <3>1. l \in Threads /\ l \in Threads'
            BY <1>3, <2>4, <2>7
        <3> QED  BY <2>3, <2>5, <3>1
    <2> QED  BY <2>6, <2>7
<1>14. /\ Results' \subseteq Results
       /\ \A S \in Results : S = Asked(S) => S \in Results'
    <2>1. CASE due # {}
        <3>1. \A k \in Threads : load'[k].found = load[k].found
            BY <1>3, <1>12, <2>1 DEF Threads, Load
        <3>2. Results' = Results
            BY <1>9, <1>11, <1>13, <2>1, <3>1 DEF Results
        <3> QED  BY <3>2
    <2>2. CASE due = {}
        <3>1. \A k \in Threads' : k \in Threads /\ load'[k] = load[k]
            BY <1>12, <1>13, <2>2 DEF Threads
        <3>2. Results' \subseteq Results
            BY <1>3, <1>9, <1>11, <3>1 DEF Results
        <3>3. ASSUME NEW S \in Results, S = Asked(S) PROVE S \in Results'
            <4>1. CASE S = found
                <5>1. Joins(l, cs) /\ Range(cs) = S /\ cs \in Range(blocks')
                    BY <1>9, <1>10, <1>11, <2>2, <3>3, <4>1
                <5> QED  BY <5>1 DEF Results
            <4>2. CASE S # found
                <5>1. CASE S \in {Range(b) : b \in Range(blocks)}
                    BY <1>11, <5>1 DEF Results
                <5>2. CASE S \notin {Range(b) : b \in Range(blocks)}
                    <6>1. PICK k \in Threads : S = load[k].found
                        BY <5>2 DEF Results
                    <6>2. k \in Threads' /\ load'[k] = load[k]
                        BY <1>12, <1>13, <2>2, <4>2, <6>1 DEF Threads
                    <6> QED  BY <6>1, <6>2 DEF Results
                <5> QED  BY <5>1, <5>2
            <4> QED  BY <4>1, <4>2
        <3> QED  BY <3>2, <3>3
    <2> QED  BY <2>1, <2>2
<1>15. LoadsGood'
    <2> SUFFICES ASSUME NEW k \in Threads' PROVE LoadGood(k)'
        BY DEF LoadsGood
    <2>1. CASE k # l
        <3>1. k \in Threads /\ load'[k] = load[k]
            BY <1>12, <1>13, <2>1 DEF Threads
        <3> QED  BY <1>2, <3>1 DEF ResultInv, LoadsGood, LoadGood, Asked
    <2>2. CASE k = l
        <3>1. due # {}
            BY <1>13, <2>2
        <3>2. load'[l].found = found /\ load'[l].due = due /\ load'[l].cs = cs
            BY <1>3, <1>12, <3>1 DEF Load
        <3>3. due \subseteq Asked(found) /\ found \subseteq chats
            BY <1>3 DEF LoadGood, due
        <3> QED  BY <1>2, <1>6, <1>7, <1>8, <2>2, <3>1, <3>2, <3>3 DEF LoadGood, Asked
    <2> QED  BY <2>1, <2>2
<1>16. ListsGood'
    BY <1>2, <1>3, <1>6, <1>9, <1>11 DEF ResultInv, ListsGood, LoadGood
<1> QED  BY <1>2, <1>14, <1>15, <1>16, ResultsKept DEF ResultInv

\* The reply to the query for the chats: what is known from now on is the least of
\* the results that are to come, this one among them.
LEMMA ChatsArriveKeeps ==
    ASSUME TypeOK, ResultInv, NEW l \in Loads, ChatsArrive(l)
    PROVE  ResultInv'
<1> DEFINE r == [step |-> "threads", found |-> chats, due |-> Asked(chats), cs |-> <<>>]
<1>1. /\ load[l].step = "query" /\ chats # {}
      /\ load' = [load EXCEPT ![l] = IF Asked(chats) = {} THEN Idle ELSE r]
      /\ known' = {c \in chats : \A S \in Pending(l) : c \in S}
      /\ list' = <<>> /\ chats' = chats /\ blocks' = blocks
    BY EmptySeq, ShowCells DEF ChatsArrive
<1>2. /\ \A k \in Loads \ {l} : load'[k] = load[k]
      /\ Asked(chats) = {} => load'[l] = Idle
      /\ Asked(chats) # {} => load'[l] = r
    BY <1>1 DEF TypeOK
<1>3. Threads \subseteq Loads \ {l} /\ Threads \subseteq Threads' /\ Threads' \subseteq Threads \cup {l}
    BY <1>1, <1>2 DEF Threads
<1>4. l \in Threads' <=> Asked(chats) # {}
    BY <1>2 DEF Threads, Idle
<1>5. \A k \in Threads : load'[k] = load[k]
    BY <1>2, <1>3
<1>6. Pending(l) = Results
    BY <1>3 DEF Pending, Results, Threads
<1>7. Results \subseteq SUBSET chats
    BY ResultsFound DEF ResultInv
<1>8. /\ Results \subseteq Results' /\ Results' \subseteq Results \cup {chats}
      /\ Asked(chats) # {} => chats \in Results'
    <2>1. Results \subseteq Results'
        BY <1>1, <1>3, <1>5 DEF Results
    <2>2. ASSUME NEW S \in Results' PROVE S \in Results \cup {chats}
        <3>1. CASE S \in {Range(b) : b \in Range(blocks)}
            BY <3>1 DEF Results
        <3>2. CASE S \notin {Range(b) : b \in Range(blocks)}
            <4>1. PICK k \in Threads' : S = load'[k].found
                BY <1>1, <3>2 DEF Results
            <4>2. CASE k \in Threads
                BY <1>5, <4>1, <4>2 DEF Results
            <4>3. CASE k \notin Threads
                BY <1>2, <1>3, <1>4, <4>1, <4>3
            <4> QED  BY <4>2, <4>3
        <3> QED  BY <3>1, <3>2
    <2>3. ASSUME Asked(chats) # {} PROVE chats \in Results'
        <3>1. l \in Threads' /\ load'[l].found = chats
            BY <1>2, <1>4, <2>3
        <3> QED  BY <3>1 DEF Results
    <2> QED  BY <2>1, <2>2, <2>3
<1>9. PICK M \in Results \cup {chats} :
          /\ \A T \in Results \cup {chats} : M \subseteq T
          /\ known' = M
    <2> DEFINE F == Results \cup {chats}
    <2>1. F \subseteq SUBSET Chats /\ F # {} /\ IsFiniteSet(Chats)
        BY <1>7, RosterAssumption DEF TypeOK
    <2>2. PICK M \in F : \A T \in F : T \subseteq M => T = M
        <3> HIDE DEF F
        <3> QED  BY <2>1, MinimalSubset
    <2>3. ASSUME NEW T \in F PROVE M \subseteq T
        <3>1. T \subseteq M \/ M \subseteq T
            BY <1>7, <2>2 DEF ResultInv, Chain
        <3> QED  BY <2>2, <3>1
    <2>4. known' = M
        BY <1>1, <1>6, <1>7, <2>2, <2>3
    <2> QED  BY <2>2, <2>3, <2>4
<1>10. Chain'
    BY <1>7, <1>8 DEF ResultInv, Chain
<1>11. KnownFound'
    BY <1>8, <1>9 DEF KnownFound
<1>12. KnownComes'
    <2> SUFFICES ASSUME M = Asked(M), M \notin Results' PROVE FALSE
        BY <1>9 DEF KnownComes, Asked
    <2>1. M = chats /\ Asked(chats) = {}
        BY <1>8, <1>9
    <2> QED  BY <1>1, <2>1
<1>13. LoadsGood'
    <2> SUFFICES ASSUME NEW k \in Threads' PROVE LoadGood(k)'
        BY DEF LoadsGood
    <2>1. CASE k \in Threads
        BY <1>1, <1>5, <2>1 DEF ResultInv, LoadsGood, LoadGood, Asked
    <2>2. CASE k \notin Threads
        <3>1. k = l /\ Asked(chats) # {} /\ load'[l] = r
            BY <1>2, <1>3, <1>4, <2>2
        <3>2. Cardinality(Asked(chats)) \in Nat /\ Len(<<>>) = 0
            BY AskedFinite, EmptySeq DEF TypeOK
        <3>3. Len(<<>>) + Cardinality(Asked(chats)) = Cardinality(Asked(chats))
            BY <3>2
        <3>4. /\ load'[k].found = chats /\ load'[k].due = Asked(chats)
              /\ load'[k].cs = <<>> /\ chats' = chats
            BY <1>1, <3>1
        <3>5. Asked(chats) \ Asked(chats) = {}
            OBVIOUS
        <3> QED  BY <3>1, <3>3, <3>4, <3>5, EmptyInjective DEF LoadGood, Asked
    <2> QED  BY <2>1, <2>2
<1>14. ListsGood'
    BY <1>1, EmptyInjective DEF ResultInv, ListsGood
<1> QED  BY <1>10, <1>11, <1>12, <1>13, <1>14 DEF ResultInv

\* The main thread puts a result on display, which has what is known.
LEMMA ShowChatsKeeps ==
    ASSUME TypeOK, ResultInv, ShowChats
    PROVE  ResultInv'
<1>1. blocks # <<>> /\ blocks \in Seq(Seq(Chats)) /\ Head(blocks) \in Seq(Chats)
    BY HeadTailProperties DEF TypeOK, ShowChats
<1>2. /\ blocks' = Tail(blocks) /\ list' = Head(blocks)
      /\ UNCHANGED <<chats, load, known>>
    BY <1>1, ShowCells DEF ShowChats
<1>3. Head(blocks) \in Range(blocks) /\ Range(blocks') \subseteq Range(blocks)
    BY <1>1, <1>2, HeadAndTail
<1>4. Threads' = Threads
    BY <1>2 DEF Threads
<1>5. Results' \subseteq Results
    BY <1>2, <1>3, <1>4 DEF Results
<1>6. Range(Head(blocks)) \in Results
    BY <1>3 DEF Results
<1>7. known' \subseteq Range(list')
    BY <1>2, <1>6 DEF ResultInv, KnownFound
<1>8. Chain' /\ KnownFound' /\ KnownComes'
    BY <1>2, <1>5, <1>7 DEF ResultInv, Chain, KnownFound, KnownComes
<1>9. LoadsGood'
    BY <1>2, <1>4 DEF ResultInv, LoadsGood, LoadGood, Asked
<1>10. ListsGood'
    BY <1>2, <1>3 DEF ResultInv, ListsGood
<1> QED  BY <1>8, <1>9, <1>10 DEF ResultInv

LEMMA NextResults == TypeOK /\ ResultInv /\ [Next]_vars => ResultInv'
<1> SUFFICES ASSUME TypeOK, ResultInv, [Next]_vars PROVE ResultInv'
    OBVIOUS
<1>1. ASSUME UNCHANGED <<load, blocks, list, known>>, chats \subseteq chats'
      PROVE  ResultInv'
    BY <1>1, OtherSteps DEF Threads
<1>2. CASE \E c \in Chats \ chats : ChatAdded(c)
    BY <1>1, <1>2 DEF ChatAdded
<1>3. ASSUME NEW l \in Loads,
             OpenRoster(l) \/ Refresh(l) \/ ChatsFail(l) \/ NoneFound(l)
      PROVE  ResultInv'
    <2>1. /\ UNCHANGED <<blocks, list, known, chats>> /\ load[l].step # "threads"
          /\ \/ load' = [load EXCEPT ![l] = Idle]
             \/ load' = [load EXCEPT ![l].step = "query"]
        BY <1>3 DEF OpenRoster, Refresh, Begin, ChatsFail, NoneFound
    <2>2. load[l] \in Load
        BY DEF TypeOK
    <2>3. load'[l].step # "threads"
        BY <2>1, <2>2 DEF TypeOK, Load, Idle
    <2>4. \A k \in Loads \ {l} : load'[k] = load[k]
        BY <2>1 DEF TypeOK
    <2>5. Threads' = Threads /\ \A k \in Threads : load'[k] = load[k]
        BY <2>1, <2>3, <2>4 DEF Threads
    <2> QED  BY <2>1, <2>5, OtherSteps
<1>4. ASSUME NEW l \in Loads, ChatsArrive(l) \/ ThreadReply(l) PROVE ResultInv'
    BY <1>4, ChatsArriveKeeps, ThreadReplyKeeps
<1>5. ASSUME NEW x \in Cells, NameReply(x) PROVE ResultInv'
    BY <1>1, <1>5 DEF NameReply, NameArrives, NameFails
<1>6. CASE ShowChats
    BY <1>6, ShowChatsKeeps
<1>7. CASE Select
    <2>1. list' = list
        BY <1>7, ShowCells DEF Select, TypeOK
    <2> QED  BY <1>1, <1>7, <2>1 DEF Select
<1>8. CASE UNCHANGED vars
    BY <1>1, <1>8 DEF vars
<1> QED  BY <1>2, <1>3, <1>4, <1>5, <1>6, <1>7, <1>8 DEF Next

LEMMA ResultsInvariant == Spec => []ResultInv
<1>1. Init => ResultInv
    <2> SUFFICES ASSUME Init PROVE ResultInv
        OBVIOUS
    <2>1. Threads = {}
        BY DEF Init, Threads, Idle
    <2>2. Range(blocks) = {} /\ list = <<>> /\ known = {}
        BY EmptyInjective DEF Init
    <2>3. Results = {}
        BY <2>1, <2>2 DEF Results
    <2> QED  BY <2>1, <2>2, <2>3, EmptyInjective
             DEF ResultInv, LoadsGood, ListsGood, Chain, KnownFound, KnownComes
<1>2. TypeInv => TypeOK
    BY DEF TypeInv
<1> QED  BY <1>1, <1>2, NextResults, TypeInvariant, PTL DEF Spec

\* Between loads the roster shows every chat that each of the loads that
\* overlapped has found, and none twice, whatever the order of the replies and
\* of the blocks on the main thread (loadChatRoster, lines 65-88).
THEOREM RosterIsComplete == Spec => []RosterComplete
<1>1. ResultInv => RosterComplete
    <2> SUFFICES ASSUME ResultInv, Quiet
                 PROVE  /\ IsInjective(list)
                        /\ known = Asked(known) => known \subseteq Range(list)
        BY DEF RosterComplete
    <2>1. Results = {}
        BY EmptyInjective DEF Quiet, Results, Threads
    <2> QED  BY <2>1 DEF ResultInv, ListsGood, KnownComes
<1> QED  BY <1>1, ResultsInvariant, PTL
=============================================================================
