----------------------------- MODULE Chat_proofs -----------------------------
(***************************************************************************)
(* What holds of Chat for every pair of members and any number of screens, *)
(* chats, snapshots and messages: the types, that no chat is added beside  *)
(* one that had to be found, that screens which look for their chat once   *)
(* there is one and all is quiet meet in it, that a snapshot keeps what    *)
(* earlier ones have brought, and that the mailbox is implemented.         *)
(***************************************************************************)
EXTENDS Chat, SequenceTheorems, WellFoundedInduction, TLAPS

-----------------------------------------------------------------------------
(***************************************************************************)
(* Types.                                                                  *)
(***************************************************************************)
\* A set of naturals that is not empty has a least element.
LEMMA LeastNatural ==
    ASSUME NEW S, S \subseteq Nat, S # {}
    PROVE  \E x \in S : \A y \in S : x =< y
<1> DEFINE Less == {p \in Nat \X Nat : p[1] < p[2]}
<1>1. IsWellFoundedOn(Less, Nat)
    BY NatLessThanWellFounded DEF OpToRel
<1>2. \A x, y \in Nat : <<y, x>> \notin Less => x =< y
    OBVIOUS
<1> HIDE DEF Less
<1>3. \E x \in S : \A y \in S : ~(<<y, x>> \in Less)
    BY <1>1, WFMin, Zenon
<1> QED  BY <1>2, <1>3

LEMMA FirstIsFound ==
    ASSUME TypeOK, NEW s \in Screens, reply[s] # {}
    PROVE  First(s) \in ChatIds
<1>1. Ids(reply[s]) \subseteq ChatIds
    BY DEF TypeOK, Ids, Chats
<1>2. Ids(reply[s]) # {} /\ ChatIds \subseteq Nat
    BY ChatAssumption DEF Ids
<1>3. \E x \in Ids(reply[s]) : \A y \in Ids(reply[s]) : x =< y
    BY <1>1, <1>2, LeastNatural
<1> QED  BY <1>1, <1>3 DEF First, Min

LEMMA SnapshotType ==
    ASSUME TypeOK, NEW s \in Screens
    PROVE  [docs |-> Thread(s), unread |-> Unread(s)] \in Snapshot
BY DEF TypeOK, Thread, Unread, Snapshot

\* What waits for the main thread, after a snapshot was added and taken off.
LEMMA ComingType ==
    ASSUME TypeOK, NEW s \in Screens, coming[s] # <<>>
    PROVE  /\ Head(coming[s]) = coming[s][1]
           /\ coming[s][1] \in Snapshot
           /\ Tail(coming[s]) \in Seq(Snapshot)
           /\ Len(coming[s]) \in Nat \ {0}
           /\ Len(Tail(coming[s])) = Len(coming[s]) - 1
           /\ \A i \in 1..Len(Tail(coming[s])) : Tail(coming[s])[i] = coming[s][i + 1]
<1>1. coming[s] \in Seq(Snapshot)
    BY DEF TypeOK
<1>2. Len(coming[s]) \in Nat \ {0}
    BY <1>1, EmptySeq
<1> QED  BY <1>1, <1>2, HeadTailProperties, ElementOfSeq

LEMMA DocumentIsMessage == Document \subseteq Message
BY DEF Document, Message

LEMMA AskType ==
    ASSUME TypeOK, NEW s \in Screens, Ask(s)
    PROVE  state' \in [Screens -> States] /\ fresh' \in [Screens -> BOOLEAN]
<1>1. state' \in [Screens -> States]
    BY DEF Ask, TypeOK, States
<1>2. fresh' \in [Screens -> BOOLEAN]
    <2>1. (Settled(s) \/ \E t \in Screens : fresh[t]) \in BOOLEAN
        BY DEF Settled
    <2> QED  BY <2>1, Zenon DEF Ask, TypeOK
<1> QED  BY <1>1, <1>2

LEMMA HandledType ==
    ASSUME TypeOK, NEW s \in Screens, NEW next \in States, Handled(s, next)
    PROVE  /\ state' \in [Screens -> States]
           /\ reply' \in [Screens -> SUBSET Chats]
           /\ told' \in [Members -> SUBSET SUBSET Chats]
BY DEF Handled, TypeOK

LEMMA SearchType ==
    ASSUME TypeOK, NEW s \in Screens, Search(s)
    PROVE  TypeOK'
<1> USE DEF TypeOK, storeVars, listVars
<1>1. CASE OpenScreen(s)
    <2>1. asked' \in [Screens -> SUBSET Chats]
        BY <1>1 DEF OpenScreen, AddedBy
    <2> QED  BY <1>1, <2>1, AskType DEF OpenScreen
<1>2. CASE BuildReply(s)
    <2>1. PICK S \in told[Owner[s]] : reply' = [reply EXCEPT ![s] = Found(s, S)]
        BY <1>2 DEF BuildReply
    <2>2. Found(s, S) \subseteq Chats
        <3>1. told[Owner[s]] \subseteq SUBSET Chats
            BY ChatAssumption
        <3> QED  BY <3>1 DEF Found, AddedBy
    <2> QED  BY <1>2, <2>1, <2>2 DEF BuildReply, States
<1>3. CASE AddChat(s)
    <2>1. "creating" \in States
        BY DEF States
    <2> QED  BY <1>3, <2>1, HandledType DEF AddChat, Chats
<1>4. CASE Attach(s)
    <2>1. "attached" \in States
        BY DEF States
    <2> QED  BY <1>4, <2>1, HandledType, FirstIsFound DEF Attach
<1>5. CASE ChatAdded(s)
    <2>1. state' \in [Screens -> States] /\ fresh' \in [Screens -> BOOLEAN]
        BY <1>5, AskType DEF ChatAdded, States
    <2> QED  BY <1>5, <2>1 DEF ChatAdded
<1> QED  BY <1>1, <1>2, <1>3, <1>4, <1>5 DEF Search

LEMMA ConverseType ==
    ASSUME TypeOK, NEW s \in Screens, Converse(s)
    PROVE  TypeOK'
<1> USE DEF TypeOK, storeVars, searchVars
<1>1. CASE Send(s)
    <2>1. PICK i \in MsgIds :
              LET m == [id |-> i, sender |-> Owner[s], chat |-> attached[s]] IN
              /\ typed' = [typed EXCEPT ![s] = @ \cup {m}]
              /\ sending' = sending \cup Outgoing(m)
        BY <1>1 DEF Send
    <2> DEFINE m == [id |-> i, sender |-> Owner[s], chat |-> attached[s]]
    <2>2. m \in Message /\ m.chat = attached[s]
        BY ChatAssumption DEF Message
    <2>3. Outgoing(m) \subseteq Document
        <3>1. CASE m.chat = NoChat
            BY <3>1 DEF Outgoing
        <3>2. CASE m.chat # NoChat
            <4>1. m \in Document
                BY <2>2, <3>2, ChatAssumption DEF Document
            <4> QED  BY <4>1, <3>2 DEF Outgoing
        <3> QED  BY <3>1, <3>2
    <2> HIDE DEF m
    <2> QED  BY <1>1, <2>1, <2>2, <2>3 DEF Send, m
<1>2. CASE BuildSnapshot(s)
    <2>1. coming' \in [Screens -> Seq(Snapshot)]
        BY <1>2, SnapshotType, AppendProperties DEF BuildSnapshot
    <2> QED  BY <1>2, <2>1 DEF BuildSnapshot
<1>3. CASE HandleSnapshot(s)
    <2>1. coming[s][1].docs \subseteq Document /\ coming[s][1].unread \subseteq Document
        BY <1>3, ComingType DEF HandleSnapshot, Snapshot
    <2> QED  BY <1>3, <2>1, ComingType DEF HandleSnapshot
<1>4. CASE CloseScreen(s) \/ SwipeAborted(s)
    <2>1. <<>> \in Seq(Snapshot)
        BY EmptySeq
    <2> QED  BY <1>4, <2>1 DEF CloseScreen, SwipeAborted, RemoveListener
<1> QED  BY <1>1, <1>2, <1>3, <1>4 DEF Converse

LEMMA DeviceType ==
    ASSUME TypeOK, NEW m \in Members, OnDevice(m)
    PROVE  TypeOK'
<1> USE DEF TypeOK, storeVars, listVars
<1>1. CASE ServerAnswers(m)
    BY <1>1 DEF ServerAnswers
<1>2. CASE QueryFails(m)
    BY <1>2 DEF QueryFails, States
<1>3. CASE AppKilled(m)
    <2>1. <<>> \in Seq(Snapshot)
        BY EmptySeq
    <2>2. /\ state' \in [Screens -> States]
          /\ visible' \in [Screens -> BOOLEAN]
          /\ listening' \in [Screens -> BOOLEAN]
        BY <1>3 DEF AppKilled, States
    <2>3. /\ coming' \in [Screens -> Seq(Snapshot)]
          /\ reply' \in [Screens -> SUBSET Chats]
          /\ typed' \in [Screens -> SUBSET Message]
          /\ told' \in [Members -> SUBSET SUBSET Chats]
        BY <1>3, <2>1 DEF AppKilled
    <2> QED  BY <1>3, <2>2, <2>3 DEF AppKilled
<1> QED  BY <1>1, <1>2, <1>3 DEF OnDevice

LEMMA AnswersType == TypeOK /\ Answers => TypeOK'
<1> SUFFICES ASSUME TypeOK, Answers PROVE TypeOK'
    OBVIOUS
<1> USE DEF TypeOK, searchVars, listVars
<1>1. CASE \E c \in creating : CommitChat(c) \/ RefuseChat(c)
    BY <1>1 DEF CommitChat, RefuseChat
<1>2. CASE \E m \in sending : CommitMessage(m) \/ RefuseMessage(m)
    BY <1>2 DEF CommitMessage, RefuseMessage
<1>3. CASE \E m \in marking : CommitRead(m)
    BY <1>3 DEF CommitRead
<1> QED  BY <1>1, <1>2, <1>3 DEF Answers

\* The types hold in every behaviour of the conversation.
THEOREM ChatTypeCorrect == Spec => []TypeOK
<1>1. Init => TypeOK
    BY EmptySeq DEF Init, TypeOK, States
<1>2. TypeOK /\ [Next]_vars => TypeOK'
    <2> SUFFICES ASSUME TypeOK, [Next]_vars PROVE TypeOK'
        OBVIOUS
    <2>1. CASE UNCHANGED vars
        BY <2>1 DEF vars, storeVars, searchVars, listVars, TypeOK
    <2>2. CASE Next
        BY <2>2, SearchType, ConverseType, DeviceType, AnswersType DEF Next
    <2> QED  BY <2>1, <2>2
<1> QED  BY <1>1, <1>2, PTL DEF Spec

-----------------------------------------------------------------------------
(***************************************************************************)
(* Chats. A screen adds one only when nothing was found; nothing it had to *)
(* find is missing in what it is handed.                                   *)
(***************************************************************************)
AllChats == chats \cup creating

\* The steps that touch the chats, a query, or a screen's choice of a chat.
LEMMA SearchSteps ==
    ASSUME [Next]_vars
    PROVE  \/ \E s \in Screens : Search(s)
           \/ \E m \in Members : OnDevice(m)
           \/ \E c \in creating : CommitChat(c) \/ RefuseChat(c)
           \/ UNCHANGED <<chats, creating, searchVars, state>>
<1>1. CASE UNCHANGED vars
    BY <1>1 DEF vars, storeVars
<1>2. CASE \E s \in Screens : Converse(s)
    BY <1>2 DEF Converse, Send, BuildSnapshot, HandleSnapshot, CloseScreen,
                SwipeAborted, storeVars
<1>3. CASE Answers
    BY <1>3 DEF Answers, CommitMessage, RefuseMessage, CommitRead
<1> QED  BY <1>1, <1>2, <1>3 DEF Next

\* What the server told a device while it has a query under way.
ToldInv ==
    \A m \in Members :
        /\ told[m] # {} => Searching(m) # {}
        /\ \A S \in told[m] : S \subseteq chats

\* The other members' chats that the query of a screen has to find.
Foreign(s) == {c \in asked[s] : Owner[c.screen] # Owner[s]}

AskedAt(s) ==
    /\ Foreign(s) \subseteq chats
    /\ state[s] = "asking" => \A S \in told[Owner[s]] : Foreign(s) \subseteq S
    /\ state[s] = "answered" => asked[s] \cap AllChats \subseteq reply[s]
    /\ state[s] = "creating" => Foreign(s) = {}

AskedInv == \A s \in Screens : AskedAt(s)

\* A step keeps AskedAt for a screen whose query it does not touch.
LEMMA AskedElsewhere ==
    ASSUME NEW t \in Screens, AskedAt(t),
           chats \subseteq chats',
           told'[Owner[t]] \subseteq told[Owner[t]],
           state'[t] = state[t], asked'[t] = asked[t],
           state[t] = "answered" => reply'[t] = reply[t],
           asked[t] \cap AllChats' \subseteq AllChats
    PROVE  AskedAt(t)'
<1>1. Foreign(t)' = Foreign(t)
    BY DEF Foreign
<1>2. state'[t] = "asking" => \A S \in told'[Owner[t]] : Foreign(t)' \subseteq S
    BY <1>1 DEF AskedAt
<1>3. state'[t] = "answered" => asked'[t] \cap AllChats' \subseteq reply'[t]
    <2> SUFFICES ASSUME state'[t] = "answered"
                 PROVE  asked'[t] \cap AllChats' \subseteq reply'[t]
        OBVIOUS
    <2>1. asked[t] \cap AllChats \subseteq reply[t]
        BY DEF AskedAt
    <2> HIDE DEF AllChats
    <2> QED  BY <2>1
<1> QED  BY <1>1, <1>2, <1>3 DEF AskedAt

\* A screen that may still add a chat has added none, or finds its own.
OwnChatInv ==
    \A s \in Screens, c \in AllChats : c.screen = s =>
        /\ state[s] # "new"
        /\ state[s] = "asking" => c \in chats
        /\ state[s] = "answered" => c \in reply[s]

SearchInv == ToldInv /\ AskedInv /\ OwnChatInv /\ ChatsAddedUnknowing

LEMMA OpenKeepsSearch ==
    ASSUME TypeOK, SearchInv, NEW s \in Screens, OpenScreen(s)
    PROVE  SearchInv'
<1> USE DEF SearchInv, TypeOK
<1>1. /\ UNCHANGED <<chats, creating, told, reply>>
      /\ state[s] = "new" /\ state'[s] = "asking"
      /\ \A t \in Screens : t # s => state'[t] = state[t] /\ asked'[t] = asked[t]
      /\ asked'[s] = AddedBy(Owner[s], AllChats)
                         \cup (IF Searching(Owner[s]) = {} THEN chats ELSE {})
    BY DEF OpenScreen, Ask, storeVars, AllChats
<1>2. \A m \in Members : Searching(m) \subseteq Searching(m)'
    BY <1>1 DEF Searching
<1>3. ToldInv'
    BY <1>1, <1>2 DEF ToldInv
<1>4. Foreign(s)' \subseteq IF Searching(Owner[s]) = {} THEN chats ELSE {}
    BY <1>1 DEF Foreign, AddedBy
<1>5. told[Owner[s]] # {} => Foreign(s)' = {}
    BY <1>4, ChatAssumption DEF ToldInv
<1>6. AskedInv'
    <2>2. AllChats' = AllChats
        BY <1>1 DEF AllChats
    <2>3. ASSUME NEW t \in Screens PROVE AskedAt(t)'
        <3>1. CASE t = s
            BY <1>1, <1>4, <1>5, <3>1 DEF AskedAt
        <3>2. CASE t # s
            BY <1>1, <2>2, <3>2, AskedElsewhere DEF AskedInv
        <3> QED  BY <3>1, <3>2
    <2> QED  BY <2>3 DEF AskedInv
<1>7. \A c \in AllChats : c.screen # s
    BY <1>1 DEF OwnChatInv
<1>8. OwnChatInv'
    BY <1>1, <1>7 DEF OwnChatInv, AllChats
<1>9. ChatsAddedUnknowing'
    BY <1>1, <1>7 DEF ChatsAddedUnknowing, AllChats, Chats
<1> QED  BY <1>3, <1>6, <1>8, <1>9

LEMMA BuildKeepsSearch ==
    ASSUME TypeOK, SearchInv, NEW s \in Screens, BuildReply(s)
    PROVE  SearchInv'
<1> USE DEF SearchInv, TypeOK
<1>1. PICK S \in told[Owner[s]] : reply' = [reply EXCEPT ![s] = Found(s, S)]
    BY DEF BuildReply
<1>2. /\ UNCHANGED <<chats, creating, told, asked>>
      /\ state[s] = "asking" /\ state'[s] = "answered"
      /\ reply'[s] = S \cup AddedBy(Owner[s], AllChats)
      /\ \A t \in Screens : t # s => state'[t] = state[t] /\ reply'[t] = reply[t]
    BY <1>1 DEF BuildReply, storeVars, AllChats, Found
<1>3. \A m \in Members : Searching(m)' = Searching(m)
    BY <1>2 DEF Searching
<1>4. ToldInv'
    BY <1>2, <1>3 DEF ToldInv
<1>5. AllChats' = AllChats /\ \A t \in Screens : Foreign(t)' = Foreign(t)
    BY <1>2 DEF AllChats, Foreign
<1>6. asked[s] \cap AllChats \subseteq reply'[s]
    BY <1>1, <1>2 DEF AskedInv, AskedAt, Foreign, AddedBy
<1>7. AskedInv'
    <2>1. ASSUME NEW t \in Screens PROVE AskedAt(t)'
        <3>1. CASE t = s
            BY <1>2, <1>5, <1>6, <3>1 DEF AskedInv, AskedAt
        <3>2. CASE t # s
            BY <1>2, <1>5, <3>2, AskedElsewhere DEF AskedInv
        <3> QED  BY <3>1, <3>2
    <2> QED  BY <2>1 DEF AskedInv
<1>8. OwnChatInv'
    BY <1>2, <1>5 DEF OwnChatInv, AddedBy
<1>9. ChatsAddedUnknowing'
    BY <1>2 DEF ChatsAddedUnknowing
<1> QED  BY <1>4, <1>7, <1>8, <1>9

LEMMA HandledKeepsTold ==
    ASSUME TypeOK, ToldInv, NEW s \in Screens, NEW next \in {"creating", "attached"},
           Handled(s, next), chats' = chats
    PROVE  /\ ToldInv'
           /\ \A m \in Members : told'[m] \subseteq told[m]
           /\ state[s] = "answered" /\ state'[s] = next
           /\ \A t \in Screens : t # s => state'[t] = state[t] /\ reply'[t] = reply[t]
<1> USE DEF TypeOK
<1>1. /\ state[s] = "answered" /\ state'[s] = next
      /\ \A t \in Screens : t # s => state'[t] = state[t] /\ reply'[t] = reply[t]
    BY DEF Handled
<1>2. \A m \in Members : told'[m] \in {told[m], {}}
    BY DEF Handled
<1>3. ASSUME NEW m \in Members, told'[m] # {} PROVE Searching(m)' # {}
    <2>1. told'[m] = told[m] /\ Searching(m) # {}
        BY <1>2, <1>3 DEF ToldInv
    <2>2. CASE Owner[s] # m
        BY <1>1, <2>1, <2>2 DEF Searching
    <2>3. CASE Owner[s] = m
        <3>1. Searching(m) # {s}
            BY <1>3, <2>3 DEF Handled
        <3>2. PICK t \in Searching(m) : t # s
            BY <2>1, <3>1
        <3> QED  BY <1>1, <3>2 DEF Searching
    <2> QED  BY <2>2, <2>3
<1>4. ToldInv'
    BY <1>2, <1>3 DEF ToldInv
<1> QED  BY <1>1, <1>2, <1>4

LEMMA AddKeepsSearch ==
    ASSUME TypeOK, SearchInv, NEW s \in Screens, AddChat(s)
    PROVE  SearchInv'
<1> USE DEF SearchInv, TypeOK
<1>1. PICK i \in ChatIds \ TakenIds :
          creating' = creating \cup {[id |-> i, screen |-> s]}
    BY DEF AddChat
<1> DEFINE e == [id |-> i, screen |-> s]
<1>2. /\ UNCHANGED <<chats, asked>>
      /\ reply[s] = {}
    BY DEF AddChat
<1>3. /\ ToldInv'
      /\ \A m \in Members : told'[m] \subseteq told[m]
      /\ state[s] = "answered" /\ state'[s] = "creating"
      /\ \A t \in Screens : t # s => state'[t] = state[t] /\ reply'[t] = reply[t]
    BY <1>2, HandledKeepsTold DEF AddChat
<1>4. e.screen = s /\ \A t \in Screens : e \notin asked[t]
    <2>1. \A t \in Screens : \A c \in asked[t] : c.id \in TakenIds
        BY DEF TakenIds, Ids
    <2> QED  BY <2>1
<1>5. AllChats' = AllChats \cup {e}
    BY <1>1, <1>2 DEF AllChats
<1> HIDE DEF e
<1>6. asked[s] \cap AllChats = {}
    BY <1>2, <1>3 DEF AskedInv, AskedAt
<1>7. \A t \in Screens : Foreign(t)' = Foreign(t)
    BY <1>2 DEF Foreign
<1>8. Foreign(s) = {}
    BY <1>6 DEF AskedInv, AskedAt, Foreign, AllChats
<1>9. AskedInv'
    <2>1. ASSUME NEW t \in Screens PROVE AskedAt(t)'
        <3>1. CASE t = s
            BY <1>2, <1>3, <1>7, <1>8, <3>1 DEF AskedAt
        <3>2. CASE t # s
            <4>1. told'[Owner[t]] \subseteq told[Owner[t]]
                BY <1>3, ChatAssumption
            <4>2. asked[t] \cap AllChats' \subseteq AllChats
                BY <1>4, <1>5
            <4> QED  BY <1>2, <1>3, <3>2, <4>1, <4>2, AskedElsewhere DEF AskedInv
        <3> QED  BY <3>1, <3>2
    <2> QED  BY <2>1 DEF AskedInv
<1>10. \A c \in AllChats : c.screen # s
    BY <1>2, <1>3 DEF OwnChatInv
<1>11. OwnChatInv'
    <2>1. ASSUME NEW t \in Screens, NEW c \in AllChats', c.screen = t
          PROVE  /\ state'[t] # "new"
                 /\ state'[t] = "asking" => c \in chats'
                 /\ state'[t] = "answered" => c \in reply'[t]
        <3>1. CASE t = s
            BY <1>3, <3>1
        <3>2. CASE t # s
            BY <1>2, <1>3, <1>4, <1>5, <2>1, <3>2 DEF OwnChatInv
        <3> QED  BY <3>1, <3>2
    <2> QED  BY <2>1 DEF OwnChatInv
<1>12. ChatsAddedUnknowing'
    <2>1. \A c \in AllChats : c \in Chats
        BY DEF AllChats
    <2>2. ASSUME NEW c \in AllChats', NEW d \in AllChats', c # d
          PROVE  c.screen # d.screen /\ c \notin asked'[d.screen]
        <3>1. CASE c \in AllChats /\ d \in AllChats
            BY <1>2, <2>2, <3>1 DEF ChatsAddedUnknowing, AllChats
        <3>2. CASE c = e /\ d \in AllChats
            BY <1>2, <1>4, <1>10, <2>1, <3>2 DEF Chats
        <3>3. CASE c \in AllChats /\ d = e
            BY <1>2, <1>4, <1>6, <1>10, <3>3
        <3> QED  BY <1>5, <2>2, <3>1, <3>2, <3>3
    <2> QED  BY <2>2 DEF ChatsAddedUnknowing, AllChats
<1> QED  BY <1>3, <1>9, <1>11, <1>12

LEMMA AttachKeepsSearch ==
    ASSUME TypeOK, SearchInv, NEW s \in Screens, Attach(s)
    PROVE  SearchInv'
<1> USE DEF SearchInv, TypeOK
<1>1. UNCHANGED <<chats, creating, asked>>
    BY DEF Attach, storeVars
<1>2. /\ ToldInv'
      /\ \A m \in Members : told'[m] \subseteq told[m]
      /\ state'[s] = "attached"
      /\ \A t \in Screens : t # s => state'[t] = state[t] /\ reply'[t] = reply[t]
    BY <1>1, HandledKeepsTold DEF Attach
<1>3. AllChats' = AllChats /\ \A t \in Screens : Foreign(t)' = Foreign(t)
    BY <1>1 DEF AllChats, Foreign
<1>4. AskedInv'
    <2>1. ASSUME NEW t \in Screens PROVE AskedAt(t)'
        <3>1. CASE t = s
            BY <1>1, <1>2, <1>3, <3>1 DEF AskedInv, AskedAt
        <3>2. CASE t # s
            <4>1. told'[Owner[t]] \subseteq told[Owner[t]]
                BY <1>2, ChatAssumption
            <4> QED  BY <1>1, <1>2, <1>3, <3>2, <4>1, AskedElsewhere DEF AskedInv
        <3> QED  BY <3>1, <3>2
    <2> QED  BY <2>1 DEF AskedInv
<1>5. OwnChatInv'
    BY <1>1, <1>2, <1>3 DEF OwnChatInv
<1>6. ChatsAddedUnknowing'
    BY <1>1 DEF ChatsAddedUnknowing
<1> QED  BY <1>2, <1>4, <1>5, <1>6

LEMMA AddedKeepsSearch ==
    ASSUME TypeOK, SearchInv, NEW s \in Screens, ChatAdded(s)
    PROVE  SearchInv'
<1> USE DEF SearchInv, TypeOK
<1>1. /\ UNCHANGED <<chats, creating, told, reply, asked>>
      /\ state[s] = "creating" /\ state'[s] \in {"asking", "failed"}
      /\ \A t \in Screens : t # s => state'[t] = state[t]
      /\ \A c \in creating : c.screen # s
    BY DEF ChatAdded, Ask, storeVars
<1>2. \A m \in Members : Searching(m) \subseteq Searching(m)'
    BY <1>1 DEF Searching
<1>3. ToldInv'
    BY <1>1, <1>2 DEF ToldInv
<1>4. AllChats' = AllChats /\ \A t \in Screens : Foreign(t)' = Foreign(t)
    BY <1>1 DEF AllChats, Foreign
<1>5. Foreign(s) = {}
    BY <1>1 DEF AskedInv, AskedAt
<1>6. AskedInv'
    <2>1. ASSUME NEW t \in Screens PROVE AskedAt(t)'
        <3>1. CASE t = s
            BY <1>1, <1>4, <1>5, <3>1 DEF AskedAt
        <3>2. CASE t # s
            BY <1>1, <1>4, <3>2, AskedElsewhere DEF AskedInv
        <3> QED  BY <3>1, <3>2
    <2> QED  BY <2>1 DEF AskedInv
<1>7. OwnChatInv'
    BY <1>1, <1>4 DEF OwnChatInv, AllChats
<1>8. ChatsAddedUnknowing'
    BY <1>1 DEF ChatsAddedUnknowing
<1> QED  BY <1>3, <1>6, <1>7, <1>8

LEMMA DeviceKeepsSearch ==
    ASSUME TypeOK, SearchInv, NEW m \in Members, OnDevice(m)
    PROVE  SearchInv'
<1> USE DEF SearchInv, TypeOK
<1>1. UNCHANGED <<chats, creating, asked>>
    BY DEF OnDevice, ServerAnswers, QueryFails, AppKilled, storeVars
<1>2. AllChats' = AllChats /\ \A t \in Screens : Foreign(t)' = Foreign(t)
    BY <1>1 DEF AllChats, Foreign
<1>3. ChatsAddedUnknowing'
    BY <1>1 DEF ChatsAddedUnknowing
<1>4. CASE ServerAnswers(m)
    <2>1. /\ UNCHANGED <<state, reply>>
          /\ Searching(m) # {}
          /\ told'[m] = {chats}
          /\ \A k \in Members : k # m => told'[k] = told[k]
        BY <1>4 DEF ServerAnswers
    <2>2. \A k \in Members : Searching(k)' = Searching(k)
        BY <2>1 DEF Searching
    <2>3. ToldInv'
        BY <1>1, <2>1, <2>2 DEF ToldInv
    <2>4. ASSUME NEW t \in Screens PROVE AskedAt(t)'
        <3>1. CASE Owner[t] = m
            BY <1>1, <1>2, <2>1, <3>1 DEF AskedInv, AskedAt
        <3>2. CASE Owner[t] # m
            BY <1>1, <1>2, <2>1, <3>2, ChatAssumption, AskedElsewhere DEF AskedInv
        <3> QED  BY <3>1, <3>2
    <2>5. OwnChatInv'
        BY <1>1, <1>2, <2>1 DEF OwnChatInv
    <2> QED  BY <1>3, <2>3, <2>4, <2>5 DEF AskedInv
<1>5. CASE QueryFails(m) \/ AppKilled(m)
    <2>1. /\ told'[m] = {}
          /\ \A k \in Members : k # m => told'[k] = told[k]
          /\ \A t \in Screens :
                \/ state'[t] = state[t] /\ reply'[t] = reply[t]
                \/ Owner[t] = m /\ state'[t] \in {"failed", "ended"}
        BY <1>5 DEF QueryFails, AppKilled
    <2>2. \A k \in Members : k # m => Searching(k)' = Searching(k)
        BY <2>1 DEF Searching
    <2>3. ToldInv'
        BY <1>1, <2>1, <2>2 DEF ToldInv
    <2>4. ASSUME NEW t \in Screens PROVE AskedAt(t)'
        <3>1. CASE state'[t] = state[t] /\ reply'[t] = reply[t]
            <4>1. told'[Owner[t]] \subseteq told[Owner[t]]
                BY <2>1, ChatAssumption
            <4> QED  BY <1>1, <1>2, <3>1, <4>1, AskedElsewhere DEF AskedInv
        <3>2. CASE state'[t] \in {"failed", "ended"}
            BY <1>1, <1>2, <3>2 DEF AskedInv, AskedAt
        <3> QED  BY <2>1, <3>1, <3>2
    <2>5. OwnChatInv'
        BY <1>1, <1>2, <2>1 DEF OwnChatInv
    <2> QED  BY <1>3, <2>3, <2>4, <2>5 DEF AskedInv
<1> QED  BY <1>4, <1>5 DEF OnDevice

LEMMA AnswerKeepsSearch ==
    ASSUME TypeOK, SearchInv, NEW c \in creating, CommitChat(c) \/ RefuseChat(c)
    PROVE  SearchInv'
<1> USE DEF SearchInv, TypeOK
<1>1. /\ UNCHANGED <<told, reply, asked, state>>
      /\ chats \subseteq chats'
      /\ chats' \cup creating' \subseteq AllChats
    BY DEF CommitChat, RefuseChat, searchVars, AllChats
<1>2. \A m \in Members : Searching(m)' = Searching(m)
    BY <1>1 DEF Searching
<1>3. ToldInv'
    BY <1>1, <1>2 DEF ToldInv
<1>4. AllChats' \subseteq AllChats
    BY <1>1 DEF AllChats
<1>5. AskedInv'
    BY <1>1, <1>4, AskedElsewhere DEF AskedInv
<1>6. OwnChatInv'
    BY <1>1, <1>4 DEF OwnChatInv
<1>7. ChatsAddedUnknowing'
    BY <1>1, <1>4 DEF ChatsAddedUnknowing, AllChats
<1> QED  BY <1>3, <1>5, <1>6, <1>7

LEMMA SearchStart == Init => SearchInv
BY DEF Init, SearchInv, ToldInv, AskedInv, AskedAt, Foreign, OwnChatInv,
       ChatsAddedUnknowing, AllChats

LEMMA SearchStep == TypeOK /\ SearchInv /\ [Next]_vars => SearchInv'
<1> SUFFICES ASSUME TypeOK, SearchInv, [Next]_vars PROVE SearchInv'
    OBVIOUS
<1>1. CASE UNCHANGED <<chats, creating, searchVars, state>>
    BY <1>1 DEF searchVars, SearchInv, ToldInv, Searching, AskedInv, AskedAt,
                Foreign, OwnChatInv, ChatsAddedUnknowing, AllChats
<1> QED  BY <1>1, SearchSteps, OpenKeepsSearch, BuildKeepsSearch, AddKeepsSearch,
            AttachKeepsSearch, AddedKeepsSearch, DeviceKeepsSearch,
            AnswerKeepsSearch DEF Search

\* A chat is added only beside chats that the query of its screen did not have to
\* find, on however many screens and over however many restarts.
THEOREM NoChatBesideOneFound == Spec => []ChatsAddedUnknowing
<1>1. SearchInv => ChatsAddedUnknowing
    BY DEF SearchInv
<1> QED  BY <1>1, SearchStart, SearchStep, ChatTypeCorrect, PTL DEF Spec

-----------------------------------------------------------------------------
(***************************************************************************)
(* The first chat. Once a screen looks for a chat when there is one and    *)
(* all is quiet, every reply holds all chats and none is added any more:   *)
(* the first one is the first for good.                                    *)
(***************************************************************************)
\* A screen takes a chat once.
AttachedOnce ==
    \A s \in Screens : attached[s] # NoChat => state[s] \in {"attached", "ended"}

Quiet ==
    /\ creating = {} /\ chats # {}
    /\ \A m \in Members : told[m] \subseteq {chats}
    /\ \A s \in Screens : state[s] = "answered" => reply[s] = chats

FreshInv ==
    /\ (\E s \in Screens : fresh[s]) => Quiet
    /\ \A s \in Screens :
          fresh[s] /\ attached[s] # NoChat => attached[s] = Min(Ids(chats))

LEMMA AttachedOnceStep == TypeOK /\ AttachedOnce /\ [Next]_vars => AttachedOnce'
<1> SUFFICES ASSUME TypeOK, AttachedOnce, [Next]_vars PROVE AttachedOnce'
    OBVIOUS
<1> USE DEF TypeOK, AttachedOnce
<1>1. ASSUME NEW s \in Screens, Search(s) PROVE AttachedOnce'
    <2>1. CASE OpenScreen(s)
        BY <2>1 DEF OpenScreen, Ask
    <2>2. CASE BuildReply(s)
        BY <2>2 DEF BuildReply
    <2>3. CASE AddChat(s)
        BY <2>3 DEF AddChat, Handled
    <2>4. CASE Attach(s)
        BY <2>4 DEF Attach, Handled
    <2>5. CASE ChatAdded(s)
        BY <2>5 DEF ChatAdded, Ask
    <2> QED  BY <1>1, <2>1, <2>2, <2>3, <2>4, <2>5 DEF Search
<1>2. ASSUME NEW m \in Members, OnDevice(m) PROVE AttachedOnce'
    BY <1>2 DEF OnDevice, ServerAnswers, QueryFails, AppKilled
<1>3. ASSUME NEW c \in creating, CommitChat(c) \/ RefuseChat(c) PROVE AttachedOnce'
    BY <1>3 DEF CommitChat, RefuseChat, searchVars
<1>4. CASE UNCHANGED <<chats, creating, searchVars, state>>
    BY <1>4 DEF searchVars
<1> QED  BY <1>1, <1>2, <1>3, <1>4, SearchSteps

\* A screen that asks is fresh only when it is quiet, or was before.
LEMMA AskKeepsFresh ==
    ASSUME TypeOK, ToldInv, FreshInv, NEW s \in Screens, Ask(s),
           state[s] \in {"new", "creating"}, attached[s] = NoChat,
           UNCHANGED <<chats, creating, told, reply, attached>>
    PROVE  FreshInv'
<1> USE DEF TypeOK
<1>1. /\ state'[s] = "asking"
      /\ \A t \in Screens : t # s => state'[t] = state[t] /\ fresh'[t] = fresh[t]
    BY DEF Ask
<1>2. fresh'[s] <=> Settled(s) \/ \E t \in Screens : fresh[t]
    BY DEF Ask
<1>3. Settled(s) => Quiet
    <2> SUFFICES ASSUME Settled(s) PROVE Quiet
        OBVIOUS
    <2>1. \A t \in Screens : state[t] \notin {"asking", "answered"}
        BY DEF Settled
    <2>2. \A m \in Members : told[m] = {}
        BY <2>1 DEF ToldInv, Searching
    <2> QED  BY <2>1, <2>2 DEF Settled, Quiet
<1>4. (\E t \in Screens : fresh'[t]) => Quiet
    BY <1>1, <1>2, <1>3 DEF FreshInv
<1>5. Quiet => Quiet'
    BY <1>1 DEF Quiet
<1>6. Min(Ids(chats))' = Min(Ids(chats))
    BY DEF Ids, Min
<1>7. \A t \in Screens :
          fresh'[t] /\ attached[t] # NoChat => attached[t] = Min(Ids(chats))
    BY <1>1 DEF FreshInv
<1> QED  BY <1>4, <1>5, <1>6, <1>7 DEF FreshInv

\* No other step makes a screen fresh; while one is, it stays quiet.
LEMMA FreshKept ==
    ASSUME FreshInv, UNCHANGED <<fresh, chats>>, Quiet => Quiet',
           \A s \in Screens : fresh[s] /\ attached'[s] # attached[s] =>
               attached'[s] = Min(Ids(chats))
    PROVE  FreshInv'
<1>1. Min(Ids(chats))' = Min(Ids(chats))
    BY DEF Ids, Min
<1> QED  BY <1>1 DEF FreshInv

LEMMA SearchKeepsFresh ==
    ASSUME TypeOK, ToldInv, AttachedOnce, FreshInv, NEW s \in Screens, Search(s)
    PROVE  FreshInv'
<1> USE DEF TypeOK
<1>1. CASE OpenScreen(s)
    <2>1. /\ Ask(s) /\ state[s] = "new"
          /\ UNCHANGED <<chats, creating, told, reply, attached>>
        BY <1>1 DEF OpenScreen, storeVars
    <2> QED  BY <2>1, AskKeepsFresh DEF AttachedOnce
<1>2. CASE BuildReply(s)
    <2>1. PICK S \in told[Owner[s]] : reply' = [reply EXCEPT ![s] = Found(s, S)]
        BY <1>2 DEF BuildReply
    <2>2. UNCHANGED <<chats, creating, told, attached, fresh>>
        BY <1>2 DEF BuildReply, storeVars
    <2>3. /\ reply'[s] = Found(s, S)
          /\ \A t \in Screens : t # s => state'[t] = state[t] /\ reply'[t] = reply[t]
        BY <1>2, <2>1 DEF BuildReply
    <2>4. Quiet => Found(s, S) = chats
        <3>1. Quiet => S = chats /\ creating = {}
            BY ChatAssumption DEF Quiet
        <3> QED  BY <3>1 DEF Found, AddedBy
    <2>5. Quiet => Quiet'
        BY <2>2, <2>3, <2>4 DEF Quiet
    <2> QED  BY <2>2, <2>5, FreshKept
<1>3. CASE AddChat(s)
    <2>1. ~Quiet
        BY <1>3 DEF AddChat, Handled, Quiet
    <2> QED  BY <1>3, <2>1 DEF AddChat, FreshInv
<1>4. CASE Attach(s)
    <2>1. UNCHANGED <<chats, creating, fresh>>
        BY <1>4 DEF Attach, storeVars
    <2>2. /\ state[s] = "answered" /\ state'[s] = "attached"
          /\ attached' = [attached EXCEPT ![s] = First(s)]
          /\ \A t \in Screens : t # s => state'[t] = state[t] /\ reply'[t] = reply[t]
          /\ \A m \in Members : told'[m] \in {told[m], {}}
        BY <1>4 DEF Attach, Handled
    <2>3. Quiet => Quiet'
        BY <2>1, <2>2 DEF Quiet
    <2>4. Quiet => First(s) = Min(Ids(chats))
        BY <2>2 DEF Quiet, First
    <2>5. \A t \in Screens : fresh[t] /\ attached'[t] # attached[t] =>
              attached'[t] = Min(Ids(chats))
        BY <2>2, <2>4 DEF FreshInv
    <2> QED  BY <2>1, <2>3, <2>5, FreshKept
<1>5. CASE ChatAdded(s)
    <2>1. /\ state[s] = "creating"
          /\ UNCHANGED <<chats, creating, told, reply, attached>>
        BY <1>5 DEF ChatAdded, storeVars
    <2>2. CASE Ask(s)
        BY <2>1, <2>2, AskKeepsFresh DEF AttachedOnce
    <2>3. CASE state' = [state EXCEPT ![s] = "failed"] /\ UNCHANGED fresh
        <3>1. Quiet => Quiet'
            BY <2>1, <2>3 DEF Quiet
        <3> QED  BY <2>1, <2>3, <3>1, FreshKept
    <2> QED  BY <1>5, <2>2, <2>3 DEF ChatAdded
<1> QED  BY <1>1, <1>2, <1>3, <1>4, <1>5 DEF Search

LEMMA RestKeepsFresh ==
    ASSUME TypeOK, FreshInv,
           \/ \E m \in Members : OnDevice(m)
           \/ \E c \in creating : CommitChat(c) \/ RefuseChat(c)
           \/ UNCHANGED <<chats, creating, searchVars, state>>
    PROVE  FreshInv'
<1> USE DEF TypeOK
<1>1. ASSUME NEW m \in Members, OnDevice(m) PROVE FreshInv'
    <2>1. UNCHANGED <<chats, creating, attached, fresh>>
        BY <1>1 DEF OnDevice, ServerAnswers, QueryFails, AppKilled, storeVars
    <2>2. Quiet => Quiet'
        <3>1. CASE ServerAnswers(m)
            BY <2>1, <3>1 DEF ServerAnswers, Quiet
        <3>2. CASE QueryFails(m)
            BY <2>1, <3>2 DEF QueryFails, Quiet
        <3>3. CASE AppKilled(m)
            BY <2>1, <3>3 DEF AppKilled, Quiet
        <3> QED  BY <1>1, <3>1, <3>2, <3>3 DEF OnDevice
    <2> QED  BY <2>1, <2>2, FreshKept
<1>2. ASSUME NEW c \in creating, CommitChat(c) \/ RefuseChat(c) PROVE FreshInv'
    BY <1>2 DEF CommitChat, RefuseChat, searchVars, FreshInv, Quiet
<1>3. CASE UNCHANGED <<chats, creating, searchVars, state>>
    <2>1. Quiet => Quiet'
        BY <1>3 DEF searchVars, Quiet
    <2> QED  BY <1>3, <2>1, FreshKept DEF searchVars
<1> QED  BY <1>1, <1>2, <1>3

\* Screens that look for their chat once there is one and all is quiet, on whichever
\* device, are in the same chat.
THEOREM FreshScreensInSameChat == Spec => []FreshScreensMeet
<1>1. Init => AttachedOnce /\ FreshInv
    BY DEF Init, FreshInv, AttachedOnce
<1>2. TypeOK /\ SearchInv /\ AttachedOnce /\ FreshInv /\ [Next]_vars => FreshInv'
    <2> SUFFICES ASSUME TypeOK, SearchInv, AttachedOnce, FreshInv, [Next]_vars
                 PROVE  FreshInv'
        OBVIOUS
    <2> QED  BY SearchSteps, SearchKeepsFresh, RestKeepsFresh DEF SearchInv
<1>3. FreshInv => FreshScreensMeet
    BY DEF FreshInv, FreshScreensMeet
<1> QED  BY <1>1, <1>2, <1>3, AttachedOnceStep, SearchStart, SearchStep,
            ChatTypeCorrect, PTL DEF Spec

-----------------------------------------------------------------------------
(***************************************************************************)
(* Messages. What a snapshot has brought of the other member is on the     *)
(* server, and marked or about to be; what is on its way or on the server  *)
(* stays from one snapshot to the next.                                    *)
(***************************************************************************)
\* NoChat is the chat of no document.
LEMMA DocumentHasChat == \A m \in Document : m.chat \in ChatIds /\ m.chat # NoChat
BY ChatAssumption DEF Document

Live == saved \cup sending

Marked == read \cup marking

\* What a snapshot of a screen holds.
GoodSnapshot(s, c) ==
    /\ \A d \in c.docs : /\ d.chat = attached[s]
                         /\ d.sender # Owner[s] =>
                                d \in saved /\ d \in c.unread \cup Marked
    /\ \A d \in c.unread : d \in c.docs /\ d.sender # Owner[s]
    /\ thread[s] \cap Live \subseteq c.docs

ThreadSafe(s) ==
    /\ \A d \in thread[s] : /\ d.chat = attached[s]
                            /\ d.sender # Owner[s] => d \in Marked
    /\ \A i \in 1..Len(coming[s]) :
          /\ GoodSnapshot(s, coming[s][i])
          /\ \A j \in 1..Len(coming[s]) :
                i < j => coming[s][i].docs \cap Live \subseteq coming[s][j].docs

\* A marked message has been brought to a screen of the member it was sent to.
MarkShown(d) ==
    \E s \in Screens : Owner[s] # d.sender /\ d \in thread[s]

ThreadInv ==
    /\ saved \cap sending = {}
    /\ Marked \subseteq saved
    /\ \A s \in Screens : ThreadSafe(s)
    /\ \A d \in Marked : MarkShown(d)

\* Steps that leave the screens' threads alone and make nothing live again.
LEMMA ThreadKept ==
    ASSUME TypeOK, ThreadInv,
           UNCHANGED thread,
           saved \subseteq saved', Marked' = Marked,
           saved' \cap sending' = {},
           \A s \in Screens :
               /\ coming'[s] \in {coming[s], <<>>}
               /\ attached'[s] = attached[s] \/ attached[s] = NoChat
               /\ thread[s] \cap Live' \subseteq Live
               /\ \A i \in 1..Len(coming[s]) :
                     coming[s][i].docs \cap Live' \subseteq Live
    PROVE  ThreadInv'
<1>1. ASSUME NEW s \in Screens PROVE ThreadSafe(s)'
    <2>1. ThreadSafe(s)
        BY DEF ThreadInv
    <2>2. \A d \in thread[s] : d.chat = attached'[s]
        BY <2>1, DocumentHasChat DEF TypeOK, ThreadSafe
    <2>3. \A d \in thread'[s] : /\ d.chat = attached'[s]
                                /\ d.sender # Owner[s] => d \in Marked'
        BY <2>1, <2>2 DEF ThreadSafe
    <2>4. CASE coming'[s] = <<>>
        <3>1. 1..Len(coming'[s]) = {}
            BY <2>4
        <3> QED  BY <2>3, <3>1 DEF ThreadSafe
    <2>5. CASE coming'[s] = coming[s]
        <3>1. coming[s] \in Seq(Snapshot)
            BY DEF TypeOK
        <3>2. ASSUME NEW i \in 1..Len(coming[s])
              PROVE  /\ GoodSnapshot(s, coming[s][i])'
                     /\ \A j \in 1..Len(coming[s]) : i < j =>
                           coming[s][i].docs \cap Live' \subseteq coming[s][j].docs
            <4> DEFINE c == coming[s][i]
            <4>1. c \in Snapshot
                BY <3>1, ElementOfSeq
            <4>2. GoodSnapshot(s, c) /\ c.docs \cap Live' \subseteq Live
                BY <2>1 DEF ThreadSafe
            <4>3. c' = c
                BY <2>5
            <4> HIDE DEF c
            <4>4. \A d \in c.docs : d.chat = attached'[s]
                BY <4>1, <4>2, DocumentHasChat DEF Snapshot, GoodSnapshot
            <4>5. \A d \in c.docs : d.sender # Owner[s] =>
                      d \in saved' /\ d \in c.unread \cup Marked'
                BY <4>2 DEF GoodSnapshot
            <4>6. thread'[s] \cap Live' \subseteq c.docs
                BY <4>2 DEF GoodSnapshot
            <4>7. GoodSnapshot(s, c)'
                BY <4>2, <4>3, <4>4, <4>5, <4>6 DEF GoodSnapshot
            <4>8. \A j \in 1..Len(coming[s]) : i < j =>
                      c.docs \cap Live' \subseteq coming[s][j].docs
                BY <2>1, <4>2 DEF ThreadSafe, c
            <4> QED  BY <2>5, <4>7, <4>8 DEF c
        <3> QED  BY <2>3, <2>5, <3>2 DEF ThreadSafe
    <2> QED  BY <2>4, <2>5
<1>2. \A d \in Marked' : MarkShown(d)'
    BY DEF ThreadInv, MarkShown
<1> QED  BY <1>1, <1>2 DEF ThreadInv

LEMMA SearchKeepsThread ==
    ASSUME TypeOK, AttachedOnce, ThreadInv, NEW s \in Screens, Search(s)
    PROVE  ThreadInv'
<1>1. UNCHANGED <<saved, sending, read, marking, thread, coming>>
    BY DEF Search, OpenScreen, BuildReply, AddChat, Attach, ChatAdded, storeVars, listVars
<1>2. \A t \in Screens : attached'[t] = attached[t] \/ attached[t] = NoChat
    <2>1. CASE Attach(s)
        BY <2>1 DEF Attach, Handled, AttachedOnce, TypeOK
    <2>2. CASE ~Attach(s)
        BY <2>2 DEF Search, OpenScreen, BuildReply, AddChat, ChatAdded
    <2> QED  BY <2>1, <2>2
<1> QED  BY <1>1, <1>2, ThreadKept DEF ThreadInv, Live, Marked

\* A message that is sent is in no thread and no snapshot yet.
LEMMA SendKeepsThread ==
    ASSUME TypeOK, ThreadInv, NEW s \in Screens, Send(s)
    PROVE  ThreadInv'
<1>1. PICK i \in MsgIds \ SentIds :
          LET m == [id |-> i, sender |-> Owner[s], chat |-> attached[s]] IN
          /\ typed' = [typed EXCEPT ![s] = @ \cup {m}]
          /\ sending' = sending \cup Outgoing(m)
    BY DEF Send
<1> DEFINE m == [id |-> i, sender |-> Owner[s], chat |-> attached[s]]
<1>2. UNCHANGED <<saved, read, marking, attached, thread, coming>>
    BY DEF Send, searchVars
<1>3. m.id \notin SentIds
    BY <1>1
<1>4. Live' \subseteq Live \cup {m} /\ sending' \subseteq sending \cup {m}
    BY <1>1, <1>2 DEF Live, Outgoing
<1> HIDE DEF m
<1>5. m \notin saved
    BY <1>3 DEF SentIds, Ids
<1>6. \A t \in Screens : m \notin thread[t]
    BY <1>3 DEF SentIds, Ids, Shown
<1>7. ASSUME NEW t \in Screens, NEW k \in 1..Len(coming[t])
      PROVE  m \notin coming[t][k].docs
    <2>1. coming[t] \in Seq(Snapshot)
        BY DEF TypeOK
    <2>2. coming[t][k] \in Range(coming[t])
        BY <2>1 DEF Range
    <2> QED  BY <1>3, <2>2 DEF SentIds, Ids
<1> QED  BY <1>2, <1>4, <1>5, <1>6, <1>7, ThreadKept DEF ThreadInv, Marked

LEMMA BuildKeepsThread ==
    ASSUME TypeOK, ThreadInv, NEW s \in Screens, BuildSnapshot(s)
    PROVE  ThreadInv'
<1> DEFINE new == [docs |-> Thread(s), unread |-> Unread(s)]
<1>1. /\ UNCHANGED <<saved, sending, read, marking, attached, thread>>
      /\ coming'[s] = Append(coming[s], new)
      /\ \A t \in Screens : t # s => coming'[t] = coming[t]
    BY DEF BuildSnapshot, storeVars, searchVars, TypeOK
<1>2. coming[s] \in Seq(Snapshot) /\ new \in Snapshot
    BY SnapshotType DEF TypeOK
<1>3. /\ Len(coming'[s]) = Len(coming[s]) + 1
      /\ Len(coming[s]) \in Nat
      /\ \A i \in 1..Len(coming[s]) : coming'[s][i] = coming[s][i]
      /\ coming'[s][Len(coming[s]) + 1] = new
    BY <1>1, <1>2, AppendProperties, LenProperties
<1>4. Live' = Live /\ Marked' = Marked /\ ThreadSafe(s)
    BY <1>1 DEF Live, Marked, ThreadInv
\* What is live and was brought by a snapshot of this chat is brought by this one.
<1>5. ASSUME NEW d \in Live, d.chat = attached[s], d.sender # Owner[s] => d \in saved
      PROVE  d \in Thread(s)
    BY <1>5 DEF Live, Thread
<1>6. GoodSnapshot(s, new)
    <2>1. \A d \in Thread(s) : /\ d.chat = attached[s]
                               /\ d.sender # Owner[s] =>
                                      d \in saved /\ d \in Unread(s) \cup Marked
        BY DEF Thread, Unread, Marked
    <2>2. \A d \in Unread(s) : d \in Thread(s) /\ d.sender # Owner[s]
        BY DEF Unread
    <2>3. thread[s] \cap Live \subseteq Thread(s)
        BY <1>4, <1>5 DEF ThreadSafe, ThreadInv
    <2> QED  BY <2>1, <2>2, <2>3 DEF GoodSnapshot
<1>7. \A i \in 1..Len(coming[s]) : coming[s][i].docs \cap Live \subseteq new.docs
    BY <1>4, <1>5 DEF ThreadSafe, GoodSnapshot
<1> HIDE DEF new
<1>8. ASSUME NEW i \in 1..Len(coming'[s])
      PROVE  /\ GoodSnapshot(s, coming[s][i])'
             /\ \A j \in 1..Len(coming'[s]) : i < j =>
                   coming'[s][i].docs \cap Live \subseteq coming'[s][j].docs
    <2>1. CASE i \in 1..Len(coming[s])
        <3>1. GoodSnapshot(s, coming[s][i])'
            BY <1>1, <1>3, <1>4, <2>1 DEF ThreadSafe, GoodSnapshot
        <3>2. ASSUME NEW j \in 1..Len(coming'[s]), i < j
              PROVE  coming'[s][i].docs \cap Live \subseteq coming'[s][j].docs
            <4>1. CASE j \in 1..Len(coming[s])
                BY <1>3, <1>4, <2>1, <3>2, <4>1 DEF ThreadSafe
            <4>2. CASE j = Len(coming[s]) + 1
                BY <1>3, <1>7, <2>1, <4>2
            <4> QED  BY <1>3, <4>1, <4>2
        <3> QED  BY <3>1, <3>2
    <2>2. CASE i = Len(coming[s]) + 1
        <3>1. GoodSnapshot(s, coming[s][i])'
            BY <1>1, <1>3, <1>4, <1>6, <2>2 DEF GoodSnapshot
        <3> QED  BY <1>3, <2>2, <3>1
    <2> QED  BY <1>3, <2>1, <2>2
<1>9. ThreadSafe(s)'
    BY <1>1, <1>4, <1>8 DEF ThreadSafe
<1>10. \A t \in Screens : t # s => ThreadSafe(t)'
    BY <1>1, <1>4 DEF ThreadInv, ThreadSafe, GoodSnapshot
<1>11. \A d \in Marked' : MarkShown(d)'
    BY <1>1, <1>4 DEF ThreadInv, MarkShown
<1> QED  BY <1>1, <1>4, <1>9, <1>10, <1>11 DEF ThreadInv

\* The thread and the snapshots that wait, after one was handled.
LEMMA HandleStep ==
    ASSUME TypeOK, ThreadInv, NEW s \in Screens, HandleSnapshot(s)
    PROVE  /\ UNCHANGED <<saved, sending, read, attached>>
           /\ coming[s][1] \in Snapshot
           /\ ThreadSafe(s) /\ GoodSnapshot(s, coming[s][1])
           /\ marking' = marking \cup coming[s][1].unread
           /\ thread'[s] = coming[s][1].docs
           /\ \A t \in Screens : t # s => thread'[t] = thread[t] /\ coming'[t] = coming[t]
           /\ Len(coming[s]) \in Nat \ {0}
           /\ Len(coming'[s]) = Len(coming[s]) - 1
           /\ \A i \in 1..Len(coming'[s]) : coming'[s][i] = coming[s][i + 1]
<1>1. coming[s] # <<>>
    BY DEF HandleSnapshot
<1>2. /\ Head(coming[s]) = coming[s][1]
      /\ coming[s][1] \in Snapshot
      /\ Len(coming[s]) \in Nat \ {0}
      /\ Len(Tail(coming[s])) = Len(coming[s]) - 1
      /\ \A i \in 1..Len(Tail(coming[s])) : Tail(coming[s])[i] = coming[s][i + 1]
    BY <1>1, ComingType
<1>3. /\ UNCHANGED <<saved, sending, read, attached>>
      /\ marking' = marking \cup coming[s][1].unread
      /\ thread'[s] = coming[s][1].docs
      /\ coming'[s] = Tail(coming[s])
      /\ \A t \in Screens : t # s => thread'[t] = thread[t] /\ coming'[t] = coming[t]
    BY <1>2 DEF HandleSnapshot, searchVars, TypeOK
<1>4. ThreadSafe(s) /\ GoodSnapshot(s, coming[s][1])
    BY <1>2 DEF ThreadInv, ThreadSafe
<1> QED  BY <1>2, <1>3, <1>4

LEMMA HandleKeepsThread ==
    ASSUME TypeOK, ThreadInv, NEW s \in Screens, HandleSnapshot(s)
    PROVE  ThreadInv'
<1> DEFINE new == coming[s][1]
<1>1. /\ UNCHANGED <<saved, sending, read, attached>>
      /\ ThreadSafe(s) /\ GoodSnapshot(s, new)
      /\ marking' = marking \cup new.unread
      /\ thread'[s] = new.docs
      /\ \A t \in Screens : t # s => thread'[t] = thread[t] /\ coming'[t] = coming[t]
      /\ Len(coming[s]) \in Nat \ {0}
      /\ Len(coming'[s]) = Len(coming[s]) - 1
      /\ \A i \in 1..Len(coming'[s]) : coming'[s][i] = coming[s][i + 1]
    BY HandleStep
<1>2. \A i \in 1..Len(coming'[s]) :
          new.docs \cap Live \subseteq coming[s][i + 1].docs
    BY <1>1 DEF ThreadSafe
<1> HIDE DEF new
<1>3. Live' = Live /\ Marked' = Marked \cup new.unread
    BY <1>1 DEF Live, Marked
<1>4. new.unread \subseteq saved
    BY <1>1 DEF GoodSnapshot
<1>5. ASSUME NEW i \in 1..Len(coming'[s])
      PROVE  /\ GoodSnapshot(s, coming[s][i])'
             /\ \A j \in 1..Len(coming'[s]) : i < j =>
                   coming'[s][i].docs \cap Live \subseteq coming'[s][j].docs
    <2>1. GoodSnapshot(s, coming[s][i + 1])
        BY <1>1 DEF ThreadSafe
    <2>2. GoodSnapshot(s, coming[s][i])'
        BY <1>1, <1>2, <1>3, <2>1 DEF GoodSnapshot
    <2>3. ASSUME NEW j \in 1..Len(coming'[s]), i < j
          PROVE  coming[s][i + 1].docs \cap Live \subseteq coming[s][j + 1].docs
        <3>1. i + 1 \in 1..Len(coming[s]) /\ j + 1 \in 1..Len(coming[s]) /\ i + 1 < j + 1
            BY <1>1, <2>3
        <3> QED  BY <1>1, <3>1 DEF ThreadSafe
    <2> QED  BY <1>1, <2>2, <2>3
<1>6. ThreadSafe(s)'
    BY <1>1, <1>3, <1>5 DEF ThreadSafe, GoodSnapshot
<1>7. \A t \in Screens : t # s => ThreadSafe(t)'
    BY <1>1, <1>3 DEF ThreadInv, ThreadSafe, GoodSnapshot
<1>8. ASSUME NEW d \in Marked' PROVE MarkShown(d)'
    <2>1. CASE d \in new.unread
        BY <1>1, <2>1 DEF GoodSnapshot, MarkShown
    <2>2. CASE d \in Marked
        <3>1. PICK t \in Screens : Owner[t] # d.sender /\ d \in thread[t]
            BY <2>2 DEF ThreadInv, MarkShown
        <3>2. t = s => d \in new.docs
            BY <1>1, <2>2, <3>1 DEF ThreadInv, GoodSnapshot, Live
        <3> QED  BY <1>1, <3>1, <3>2 DEF MarkShown
    <2> QED  BY <1>3, <2>1, <2>2
<1> QED  BY <1>1, <1>3, <1>4, <1>6, <1>7, <1>8 DEF ThreadInv

LEMMA RestKeepsThread ==
    ASSUME TypeOK, ThreadInv,
           \/ \E s \in Screens : CloseScreen(s) \/ SwipeAborted(s)
           \/ \E m \in Members : OnDevice(m)
           \/ UNCHANGED vars
    PROVE  ThreadInv'
<1>1. UNCHANGED <<saved, sending, read, marking, thread, attached>>
    BY DEF CloseScreen, SwipeAborted, OnDevice, ServerAnswers, QueryFails, AppKilled,
           vars, storeVars, searchVars, listVars
<1>2. \A s \in Screens : coming'[s] \in {coming[s], <<>>}
    BY DEF CloseScreen, SwipeAborted, RemoveListener, OnDevice, ServerAnswers,
           QueryFails, AppKilled, vars, listVars, TypeOK
<1> QED  BY <1>1, <1>2, ThreadKept DEF ThreadInv, Live, Marked

LEMMA AnswersKeepThread == TypeOK /\ ThreadInv /\ Answers => ThreadInv'
<1> SUFFICES ASSUME TypeOK, ThreadInv, Answers PROVE ThreadInv'
    OBVIOUS
<1> USE DEF Live, Marked, searchVars, listVars
<1>1. CASE \E c \in creating : CommitChat(c) \/ RefuseChat(c)
    BY <1>1, ThreadKept DEF CommitChat, RefuseChat, ThreadInv
<1>2. CASE \E m \in sending : CommitMessage(m) \/ RefuseMessage(m)
    BY <1>2, ThreadKept DEF CommitMessage, RefuseMessage, ThreadInv
<1>3. CASE \E m \in marking : CommitRead(m)
    <2>1. PICK m \in marking : CommitRead(m)
        BY <1>3
    <2> QED  BY <2>1, ThreadKept DEF CommitRead, ThreadInv
<1> QED  BY <1>1, <1>2, <1>3 DEF Answers

LEMMA ThreadInvariant == Spec => [](TypeOK /\ ThreadInv)
<1>1. Init => AttachedOnce /\ ThreadInv
    BY DEF Init, AttachedOnce, ThreadInv, ThreadSafe, Marked
<1>2. TypeOK /\ AttachedOnce /\ ThreadInv /\ [Next]_vars => ThreadInv'
    BY SearchKeepsThread, SendKeepsThread, BuildKeepsThread, HandleKeepsThread,
       RestKeepsThread, AnswersKeepThread
    DEF Next, Converse
<1> QED  BY <1>1, <1>2, AttachedOnceStep, ChatTypeCorrect, PTL DEF Spec

\* The steps that touch the messages or what the snapshots brought.
LEMMA ThreadSteps ==
    ASSUME [Next]_vars
    PROVE  \/ \E s \in Screens : Send(s) \/ HandleSnapshot(s)
           \/ \E d \in sending : CommitMessage(d) \/ RefuseMessage(d)
           \/ \E d \in marking : CommitRead(d)
           \/ UNCHANGED <<sending, saved, marking, read, thread>>
<1>1. CASE UNCHANGED vars
    BY <1>1 DEF vars, storeVars, listVars
<1>2. ASSUME NEW s \in Screens, Search(s)
      PROVE  UNCHANGED <<sending, saved, marking, read, thread>>
    BY <1>2 DEF Search, OpenScreen, BuildReply, AddChat, Attach, ChatAdded,
                storeVars, listVars
<1>3. ASSUME NEW s \in Screens, BuildSnapshot(s) \/ CloseScreen(s) \/ SwipeAborted(s)
      PROVE  UNCHANGED <<sending, saved, marking, read, thread>>
    BY <1>3 DEF BuildSnapshot, CloseScreen, SwipeAborted, storeVars
<1>4. ASSUME NEW m \in Members, OnDevice(m)
      PROVE  UNCHANGED <<sending, saved, marking, read, thread>>
    BY <1>4 DEF OnDevice, ServerAnswers, QueryFails, AppKilled, storeVars, listVars
<1>5. ASSUME NEW c \in creating, CommitChat(c) \/ RefuseChat(c)
      PROVE  UNCHANGED <<sending, saved, marking, read, thread>>
    BY <1>5 DEF CommitChat, RefuseChat, listVars
<1> QED  BY <1>1, <1>2, <1>3, <1>4, <1>5 DEF Next, Converse, Answers

\* A snapshot takes no message away that an earlier one has brought and that is on
\* the server or on its way, however many wait for the main thread.
THEOREM SnapshotsKeepThread == Spec => SnapshotKeepsThread
<1> DEFINE Keeps == \A s \in Screens :
                       \A m \in thread[s] \cap (sending \cup saved) :
                           m \in sending' \cup saved' => m \in thread'[s]
<1>1. TypeOK /\ ThreadInv /\ [Next]_vars => [Keeps]_vars
    <2> SUFFICES ASSUME TypeOK, ThreadInv, Next,
                        NEW t \in Screens,
                        NEW m \in thread[t] \cap (sending \cup saved)
                 PROVE  m \in thread'[t]
        OBVIOUS
    <2>1. ASSUME NEW s \in Screens, HandleSnapshot(s) PROVE m \in thread'[t]
        BY <2>1, HandleStep DEF GoodSnapshot, Live
    <2>2. ASSUME UNCHANGED thread PROVE m \in thread'[t]
        BY <2>2
    <2>3. \/ \E s \in Screens : HandleSnapshot(s)
          \/ UNCHANGED thread
        BY ThreadSteps DEF Send, CommitMessage, RefuseMessage, CommitRead, listVars
    <2> QED  BY <2>1, <2>2, <2>3
<1> QED  BY <1>1, ThreadInvariant, PTL DEF Spec, SnapshotKeepsThread

-----------------------------------------------------------------------------
(***************************************************************************)
(* The mailbox. What a member has received of the other is what snapshots  *)
(* have brought to the member's screens: handling one adds to it, and      *)
(* nothing takes from it.                                                  *)
(***************************************************************************)
\* A message of another member on a screen is received by the screen's member.
LEMMA ShownIsReceived ==
    ASSUME NEW m, NEW d
    PROVE  d \in Received(m) <=>
               /\ d.sender # m
               /\ \E s \in Screens : Owner[s] = m /\ d \in thread[s]
BY DEF Received

\* What anybody has received is marked or about to be, and nothing else is.
LEMMA MarkedIsReceived ==
    ASSUME TypeOK, ThreadInv
    PROVE  UNION {Received(k) : k \in Members} = Marked
<1>1. ASSUME NEW k \in Members, NEW d \in Received(k) PROVE d \in Marked
    <2>1. PICK s \in Screens : Owner[s] = k /\ d \in thread[s]
        BY ShownIsReceived
    <2>2. d.sender # k
        BY ShownIsReceived
    <2> QED  BY <2>1, <2>2 DEF ThreadInv, ThreadSafe
<1>2. ASSUME NEW d \in Marked PROVE \E k \in Members : d \in Received(k)
    <2>1. PICK s \in Screens : Owner[s] # d.sender /\ d \in thread[s]
        BY DEF ThreadInv, MarkShown
    <2>2. Owner[s] \in Members /\ d \in Received(Owner[s])
        BY <2>1, ChatAssumption, ShownIsReceived
    <2> QED  BY <2>2
<1> QED  BY <1>1, <1>2

LEMMA MailUnchanged ==
    UNCHANGED <<sending, saved, marking, read, thread>> => UNCHANGED Box!mailVars
<1> SUFFICES ASSUME UNCHANGED <<sending, saved, marking, read, thread>>
             PROVE  UNCHANGED Box!mailVars
    OBVIOUS
<1>1. \A m : Received(m)' = Received(m)
    BY DEF Received
<1> QED  BY <1>1 DEF Box!mailVars

\* A message that is typed before the chat is known is not in the mailbox.
LEMMA SendIsPost ==
    ASSUME TypeOK, NEW s \in Screens, Send(s)
    PROVE  (\E d \in Box!Mail : Box!Post(d)) \/ UNCHANGED Box!mailVars
<1>1. PICK i \in MsgIds \ SentIds :
          sending' = sending \cup
              Outgoing([id |-> i, sender |-> Owner[s], chat |-> attached[s]])
    BY DEF Send
<1> DEFINE m == [id |-> i, sender |-> Owner[s], chat |-> attached[s]]
<1>2. UNCHANGED <<saved, read, marking, thread>>
    BY DEF Send
<1>3. i \notin {e.id : e \in sending \cup saved}
    BY <1>1 DEF SentIds, Ids
<1>4. \A k : Received(k)' = Received(k)
    BY <1>2 DEF Received
<1>5. m.id = i /\ m.chat = attached[s] /\ (attached[s] # NoChat => m \in Box!Mail)
    BY ChatAssumption DEF TypeOK, Box!Mail
<1> HIDE DEF m
<1>6. CASE attached[s] # NoChat
    <2>1. sending' = sending \cup {m}
        BY <1>1, <1>5, <1>6 DEF Outgoing, m
    <2>2. Box!Post(m)
        BY <1>2, <1>3, <1>4, <1>5, <2>1 DEF Box!Post
    <2> QED  BY <1>5, <1>6, <2>2
<1>7. CASE attached[s] = NoChat
    <2>1. sending' = sending
        BY <1>1, <1>5, <1>7 DEF Outgoing, m
    <2> QED  BY <1>2, <1>4, <2>1 DEF Box!mailVars
<1> QED  BY <1>6, <1>7

\* Handling a snapshot receives the other member's messages in it.
LEMMA HandleReceives ==
    ASSUME TypeOK, ThreadInv, NEW s \in Screens, HandleSnapshot(s)
    PROVE  \E m \in Members : \E S \in SUBSET saved : Box!Receive(m, S)
<1> DEFINE o == Owner[s]
           c == coming[s][1]
           new == {d \in c.docs : d.sender # o}
<1>1. /\ UNCHANGED <<saved, sending, read>>
      /\ ThreadSafe(s) /\ GoodSnapshot(s, c)
      /\ marking' = marking \cup c.unread
      /\ thread'[s] = c.docs
      /\ \A t \in Screens : t # s => thread'[t] = thread[t]
    BY HandleStep
<1>2. o \in Members
    BY ChatAssumption
<1> HIDE DEF c
<1>3. new \subseteq saved /\ new \subseteq c.unread \cup Marked /\ c.unread \subseteq new
    BY <1>1 DEF GoodSnapshot
<1>4. \A d \in thread[s] : d.sender # o => d \in new
    BY <1>1 DEF ThreadInv, ThreadSafe, GoodSnapshot, Live
<1>5. Received(o)' = Received(o) \cup new
    BY <1>1, <1>4 DEF Received
<1>6. \A m : m # o => Received(m)' = Received(m)
    BY <1>1 DEF Received
<1> HIDE DEF new
<1>7. marking' \ read' =
          (marking \ read) \cup (new \ UNION {Received(k) : k \in Members})
    BY <1>1, <1>3, MarkedIsReceived DEF Marked
<1>8. UNION {[m \in Members |-> Received(m)][k] : k \in Members}
          = UNION {Received(k) : k \in Members}
    OBVIOUS
<1>9. [m \in Members |-> Received(m)]' =
          [[m \in Members |-> Received(m)] EXCEPT ![o] = @ \cup new]
    BY <1>2, <1>5, <1>6
<1>10. new \subseteq {d \in saved : d.sender # o}
    BY <1>3 DEF new
<1>11. Box!Receive(o, new)
    BY <1>1, <1>7, <1>8, <1>9, <1>10 DEF Box!Receive
<1> QED  BY <1>2, <1>3, <1>11

LEMMA AnswerIsMail ==
    ASSUME TypeOK,
           \/ \E d \in sending : CommitMessage(d) \/ RefuseMessage(d)
           \/ \E d \in marking : CommitRead(d)
    PROVE  Box!MailNext \/ UNCHANGED Box!mailVars
<1>1. sending \subseteq Box!Mail /\ marking \subseteq Box!Mail
    BY DEF TypeOK, Document, Box!Mail
<1>2. UNCHANGED thread => \A k : Received(k)' = Received(k)
    BY DEF Received
<1>3. ASSUME NEW d \in sending, CommitMessage(d) PROVE Box!Arrive(d)
    BY <1>2, <1>3 DEF CommitMessage, Box!Arrive, listVars
<1>4. ASSUME NEW d \in sending, RefuseMessage(d) PROVE Box!Refuse(d)
    BY <1>2, <1>4 DEF RefuseMessage, Box!Refuse, listVars
<1>5. ASSUME NEW d \in marking, CommitRead(d)
      PROVE  Box!Mark(d) \/ UNCHANGED Box!mailVars
    <2>1. /\ UNCHANGED <<sending, saved, thread>>
          /\ marking' = marking \ {d} /\ read' = read \cup {d}
        BY <1>5 DEF CommitRead, listVars
    <2>2. CASE d \in read
        <3>1. read' = read /\ marking' \ read' = marking \ read
            BY <2>1, <2>2
        <3> QED  BY <1>2, <2>1, <3>1 DEF Box!mailVars
    <2>3. CASE d \notin read
        <3>1. marking' \ read' = (marking \ read) \ {d}
            BY <2>1
        <3> QED  BY <1>2, <2>1, <2>3, <3>1 DEF Box!Mark
    <2> QED  BY <2>2, <2>3
<1> QED  BY <1>1, <1>3, <1>4, <1>5 DEF Box!MailNext

LEMMA MailStep ==
    TypeOK /\ ThreadInv /\ [Next]_vars => [Box!MailNext]_(Box!mailVars)
<1> SUFFICES ASSUME TypeOK, ThreadInv, [Next]_vars
             PROVE  Box!MailNext \/ UNCHANGED Box!mailVars
    OBVIOUS
<1>1. ASSUME NEW s \in Screens, Send(s) PROVE Box!MailNext \/ UNCHANGED Box!mailVars
    BY <1>1, SendIsPost DEF Box!MailNext
<1>2. ASSUME NEW s \in Screens, HandleSnapshot(s) PROVE Box!MailNext
    BY <1>2, HandleReceives DEF Box!MailNext
<1> QED  BY <1>1, <1>2, ThreadSteps, AnswerIsMail, MailUnchanged

\* Every step of the two members' screens is a step of the mailbox or invisible to
\* it: what is sent arrives once, a member receives what has arrived and keeps it,
\* and marks go with what is received (loadChat's listener, save).
THEOREM MailboxImplemented == Spec => ImplementsMailbox
<1>1. Init => Box!MailInit
    <2> SUFFICES ASSUME Init PROVE Box!MailInit
        OBVIOUS
    <2>1. \A m : Received(m) = {}
        BY DEF Init, Received
    <2> QED  BY <2>1 DEF Init, Box!MailInit
<1> QED  BY <1>1, MailStep, ThreadInvariant, PTL
         DEF Spec, ImplementsMailbox, Box!MailSpec
=============================================================================
