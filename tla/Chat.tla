-------------------------------- MODULE Chat --------------------------------
(***************************************************************************)
(* The conversation of two members: their ChatViewControllers and the      *)
(* Firestore collections Chats and Chats/<id>/thread.                      *)
(*                                                                         *)
(* A screen asks for the chats of its member. When none is with the other  *)
(* member it adds one, and asks again once the server has it; otherwise it *)
(* takes the first one and listens to its thread. A screen does not end    *)
(* with its view: the replies it waits for still find it, and a listener   *)
(* it adds after it has disappeared is removed by nobody.                  *)
(*                                                                         *)
(* The SDK builds a reply, and each snapshot of a thread, on a queue of    *)
(* its own, and the main thread handles it later: what the handler does it *)
(* does for what was true when the reply was built. Queries of a device    *)
(* that are under way together are one query for the SDK, and are answered *)
(* from the same view of the server.                                       *)
(* (The roster asks with the same query: a conversation that is opened     *)
(* while a refresh of the roster is under way is left out.)                *)
(*                                                                         *)
(* What a member's device has written and the server has not answered is   *)
(* in what that device's SDK builds, and outlives the application.         *)
(***************************************************************************)
EXTENDS Integers, Sequences, FiniteSets, FiniteSetsExt, Functions

CONSTANTS
    Members,    \* the two members, each with one device
    Screens,    \* bound: the ChatViewControllers that are ever created, numbered
                \* in the order in which a device creates them
    Owner,      \* the member on whose device the screen is
    ChatIds,    \* bound: identifiers of chats, in the order of the queries
    NoChat,     \* docReference is nil
    MsgIds,     \* bound: identifiers of the messages
    MaxComing,  \* bound: snapshots of a thread that wait for the main thread
    Sizes,      \* bound: the numbers of screens and of messages there are, in pairs
    Events      \* bound: what may happen besides the regular steps

ASSUME ChatAssumption ==
    /\ Screens \subseteq Nat
    /\ Owner \in [Screens -> Members]
    /\ ChatIds \subseteq Nat
    /\ NoChat \in Int \ ChatIds
    /\ MaxComing \in Nat \ {0}
    /\ Sizes \subseteq Nat \X Nat
    /\ Events \subseteq {"kill", "error", "reject", "swipe"}

VARIABLES
    chats,      \* the chats of the two members, on the server
    creating,   \* those that a device has added and the server not answered
    saved,      \* the messages on the server
    sending,    \* those that a device has added and the server not answered
    read,       \* the messages with isRead on the server
    marking,    \* those with isRead on the device of their reader only
    told,       \* of each device: the chats the server has told it of, while a
                \* query for them is under way; a set of one set of chats, or {}
    \* Each screen:
    state,
    visible,
    reply,      \* the chats in the reply that waits for the main thread
    attached,   \* docReference
    listening,  \* newMessageListner is registered
    coming,     \* the snapshots that wait for the main thread
    thread,     \* self.messages, as the last snapshot filled it,
    typed,      \* and what insertNewMessage has appended since
    asked,      \* for the properties: the chats its first query has to find
    fresh       \* for the properties: it looked for its chat when there was one
                \* already and no search or addition was under way, or later

storeVars == <<chats, creating, saved, sending, read, marking>>
searchVars == <<told, reply, attached, asked, fresh>>
listVars == <<coming, thread, typed>>
vars == <<storeVars, searchVars, listVars, state, visible, listening>>

-----------------------------------------------------------------------------
\* A chat names the screen that added it.
Chats == [id : ChatIds, screen : Screens]

\* A message whose chat is NoChat is on its sender's screen and nowhere else.
Message == [id : MsgIds, sender : Members, chat : ChatIds \cup {NoChat}]

Document == [id : MsgIds, sender : Members, chat : ChatIds]

\* What the listener is handed: the thread, and which of it is not read.
Snapshot == [docs : SUBSET Document, unread : SUBSET Document]

\* asking: until the reply is built; answered: until the main thread handles it;
\* ended: the application of the screen was killed.
States == {"new", "asking", "answered", "creating", "attached", "failed", "ended"}

Ids(S) == {x.id : x \in S}

\* self.messages
Shown(s) == thread[s] \cup typed[s]

AddedBy(m, S) == {c \in S : Owner[c.screen] = m}

\* The identifiers that somebody has or knows; the SDK draws them at random and
\* none comes twice.
TakenIds == Ids(chats \cup creating \cup UNION {reply[s] \cup asked[s] : s \in Screens})
               \cup {attached[s] : s \in Screens}

SentIds == Ids(saved \cup sending \cup
               UNION {Shown(s) \cup UNION {c.docs : c \in Range(coming[s])} : s \in Screens})

\* The screens whose query the SDK has still registered.
Searching(m) == {s \in Screens : Owner[s] = m /\ state[s] \in {"asking", "answered"}}

\* Mutant: the reply has what the server told and not what the device has added.
FoundOnServer(s, S) == S

\* The chats in a reply that is built when the server has told of S.
Found(s, S) == S \cup AddedBy(Owner[s], chats \cup creating)

\* Mutant: the chat that the member has added is preferred.
OwnFirst(s) ==
    LET own == AddedBy(Owner[s], reply[s]) IN
    Min(Ids(IF own # {} THEN own ELSE reply[s]))

\* The first of them, in the order of the query.
First(s) == Min(Ids(reply[s]))

\* Mutant: the listener asks for messages that are not read only.
ThreadUnread(s) ==
    {m \in saved \ read : m.chat = attached[s]} \cup
    {m \in sending : m.chat = attached[s] /\ m.sender = Owner[s]}

\* The documents of a snapshot that is built now.
Thread(s) ==
    {m \in saved : m.chat = attached[s]} \cup
    {m \in sending : m.chat = attached[s] /\ m.sender = Owner[s]}

\* Mutants: one's own messages are marked too; they are marked instead.
UnreadByAnyone(s) == Thread(s) \ (read \cup marking)
UnreadOwn(s) == {m \in Thread(s) \ (read \cup marking) : m.sender = Owner[s]}

\* The other member's messages in it that are not read, as this device knows.
Unread(s) == {m \in Thread(s) \ (read \cup marking) : m.sender # Owner[s]}

-----------------------------------------------------------------------------
Init ==
    /\ chats = {} /\ creating = {}
    /\ saved = {} /\ sending = {}
    /\ read = {} /\ marking = {}
    /\ told = [m \in Members |-> {}]
    /\ state = [s \in Screens |-> "new"]
    /\ visible = [s \in Screens |-> FALSE]
    /\ reply = [s \in Screens |-> {}]
    /\ attached = [s \in Screens |-> NoChat]
    /\ listening = [s \in Screens |-> FALSE]
    /\ coming = [s \in Screens |-> <<>>]
    /\ thread = [s \in Screens |-> {}]
    /\ typed = [s \in Screens |-> {}]
    /\ asked = [s \in Screens |-> {}]
    /\ fresh = [s \in Screens |-> FALSE]

(***************************************************************************)
(* loadChat asks for the chats. The server answers the device; the SDK     *)
(* builds a reply for each screen that asks from what it was told last and *)
(* what the device has added; the main thread handles it. The screen may   *)
(* have disappeared.                                                       *)
(***************************************************************************)
\* For the properties: there is a chat, and no other screen looks for one or adds
\* one.
Settled(s) ==
    /\ chats # {} /\ creating = {}
    /\ \A t \in Screens \ {s} : state[t] \notin {"asking", "answered"}

\* Bound: so many screens more and so many messages more.
Room(screens, messages) ==
    \E p \in Sizes :
        /\ Cardinality({s \in Screens : state[s] # "new"}) + screens <= p[1]
        /\ Cardinality(SentIds) + messages <= p[2]

Ask(s) ==
    /\ state' = [state EXCEPT ![s] = "asking"]
    /\ fresh' = [fresh EXCEPT ![s] = Settled(s) \/ \E t \in Screens : fresh[t]]

\* viewDidLoad ends in loadChat. A device shows one chat at a time.
OpenScreen(s) ==
    LET m == Owner[s] IN
    /\ state[s] = "new"
    /\ Room(1, 0)
    /\ \A t \in Screens : Owner[t] = m /\ t < s => state[t] # "new"
    /\ \A t \in Screens : Owner[t] = m => ~visible[t]
    /\ Ask(s)
    /\ visible' = [visible EXCEPT ![s] = TRUE]
    /\ asked' = [asked EXCEPT ![s] =
          AddedBy(m, chats \cup creating) \cup (IF Searching(m) = {} THEN chats ELSE {})]
    /\ UNCHANGED <<storeVars, listVars, told, reply, attached, listening>>

ServerAnswers(m) ==
    /\ Searching(m) # {}
    /\ told[m] # {chats}
    /\ told' = [told EXCEPT ![m] = {chats}]
    /\ UNCHANGED <<storeVars, listVars, state, visible, reply, attached, listening>>
    /\ UNCHANGED <<asked, fresh>>

BuildReply(s) ==
    /\ state[s] = "asking"
    /\ \E S \in told[Owner[s]] : reply' = [reply EXCEPT ![s] = Found(s, S)]
    /\ state' = [state EXCEPT ![s] = "answered"]
    /\ UNCHANGED <<storeVars, listVars, told, visible, attached, listening>>
    /\ UNCHANGED <<asked, fresh>>

\* An error goes to all that ask: the query is over.
QueryFails(m) ==
    /\ "error" \in Events
    /\ \E s \in Searching(m) : state[s] = "asking"
    /\ state' = [s \in Screens |->
          IF Owner[s] = m /\ state[s] = "asking" THEN "failed" ELSE state[s]]
    /\ told' = [told EXCEPT ![m] = {}]
    /\ UNCHANGED <<storeVars, listVars, visible, reply, attached, listening>>
    /\ UNCHANGED <<asked, fresh>>

\* A reply is handled and its query over; with the last one the SDK stops to
\* follow the chats.
Handled(s, next) ==
    /\ state[s] = "answered"
    /\ state' = [state EXCEPT ![s] = next]
    /\ reply' = [reply EXCEPT ![s] = {}]
    /\ told' = IF Searching(Owner[s]) = {s} THEN [told EXCEPT ![Owner[s]] = {}] ELSE told

\* createNewChat
AddChat(s) ==
    /\ reply[s] = {}
    /\ Handled(s, "creating")
    /\ \E i \in ChatIds \ TakenIds :
          creating' = creating \cup {[id |-> i, screen |-> s]}
    /\ UNCHANGED <<chats, saved, sending, read, marking, listVars>>
    /\ UNCHANGED <<visible, attached, listening, asked, fresh>>

Attach(s) ==
    /\ reply[s] # {}
    /\ Handled(s, "attached")
    /\ attached' = [attached EXCEPT ![s] = First(s)]
    /\ listening' = [listening EXCEPT ![s] = TRUE]
    /\ UNCHANGED <<storeVars, listVars, visible, asked, fresh>>

CommitChat(c) ==
    /\ c \in creating
    /\ creating' = creating \ {c}
    /\ chats' = chats \cup {c}
    /\ UNCHANGED <<saved, sending, read, marking, searchVars, listVars>>
    /\ UNCHANGED <<state, visible, listening>>

RefuseChat(c) ==
    /\ "reject" \in Events
    /\ c \in creating
    /\ creating' = creating \ {c}
    /\ UNCHANGED <<chats, saved, sending, read, marking, searchVars, listVars>>
    /\ UNCHANGED <<state, visible, listening>>

AddedChats(s) == {c \in chats : c.screen = s}

\* The completion of addDocument; when the application was killed nobody waits.
ChatAdded(s) ==
    /\ state[s] = "creating"
    /\ \A c \in creating : c.screen # s
    /\ IF AddedChats(s) # {} THEN Ask(s)
       ELSE state' = [state EXCEPT ![s] = "failed"] /\ UNCHANGED fresh
    /\ UNCHANGED <<storeVars, listVars, told, visible, reply, attached, listening, asked>>

(***************************************************************************)
(* Messages. One that is sent while docReference is nil is shown and not   *)
(* saved; the next snapshot takes it off the screen.                       *)
(***************************************************************************)
\* Mutant: docReference is taken to be there.
OutgoingAlways(m) == {m}

\* docReference?.collection("thread").addDocument
Outgoing(m) == IF m.chat = NoChat THEN {} ELSE {m}

Send(s) ==
    /\ visible[s]
    /\ Room(0, 1)
    /\ \E i \in MsgIds \ SentIds :
          LET m == [id |-> i, sender |-> Owner[s], chat |-> attached[s]] IN
          /\ typed' = [typed EXCEPT ![s] = @ \cup {m}]
          /\ sending' = sending \cup Outgoing(m)
    /\ UNCHANGED <<chats, creating, saved, read, marking, searchVars>>
    /\ UNCHANGED <<state, visible, listening, coming, thread>>

\* A device sends its writes in their order: a chat before its messages.
CommitMessage(m) ==
    /\ m \in sending
    /\ m.chat \notin Ids(AddedBy(m.sender, creating))
    /\ sending' = sending \ {m}
    /\ saved' = saved \cup {m}
    /\ UNCHANGED <<chats, creating, read, marking, searchVars, listVars>>
    /\ UNCHANGED <<state, visible, listening>>

RefuseMessage(m) ==
    /\ "reject" \in Events
    /\ m \in sending
    /\ sending' = sending \ {m}
    /\ UNCHANGED <<chats, creating, saved, read, marking, searchVars, listVars>>
    /\ UNCHANGED <<state, visible, listening>>

\* The SDK builds one when the documents change, and, as includeMetadataChanges
\* asks, when only what it knows of them does.
BuildSnapshot(s) ==
    /\ listening[s]
    /\ Len(coming[s]) < MaxComing
    /\ Thread(s) \cup Shown(s) # {} \/ Room(0, 1)
    /\ coming' = [coming EXCEPT ![s] =
          Append(@, [docs |-> Thread(s), unread |-> Unread(s)])]
    /\ UNCHANGED <<storeVars, searchVars, state, visible, listening, thread, typed>>

\* The listener: the screen shows the snapshot in place of all it has shown, and
\* marks as read what the other member has sent.
HandleSnapshot(s) ==
    /\ coming[s] # <<>>
    /\ LET next == Head(coming[s]) IN
          /\ thread' = [thread EXCEPT ![s] = next.docs]
          /\ typed' = [typed EXCEPT ![s] = {}]
          /\ marking' = marking \cup next.unread
    /\ coming' = [coming EXCEPT ![s] = Tail(@)]
    /\ UNCHANGED <<chats, creating, saved, sending, read, searchVars>>
    /\ UNCHANGED <<state, visible, listening>>

CommitRead(m) ==
    /\ m \in marking
    /\ marking' = marking \ {m}
    /\ read' = read \cup {m}
    /\ UNCHANGED <<chats, creating, saved, sending, searchVars, listVars>>
    /\ UNCHANGED <<state, visible, listening>>

(***************************************************************************)
(* viewWillDisappear removes the listener there is, which mutes it at      *)
(* once. It is also called when the member begins to swipe back and does   *)
(* not go on.                                                              *)
(***************************************************************************)
RemoveListener(s) ==
    /\ listening' = [listening EXCEPT ![s] = FALSE]
    /\ coming' = [coming EXCEPT ![s] = <<>>]

CloseScreen(s) ==
    /\ visible[s]
    /\ visible' = [visible EXCEPT ![s] = FALSE]
    /\ RemoveListener(s)
    /\ UNCHANGED <<storeVars, searchVars, state, thread, typed>>

SwipeAborted(s) ==
    /\ "swipe" \in Events
    /\ visible[s]
    /\ RemoveListener(s)
    /\ UNCHANGED <<storeVars, searchVars, state, visible, thread, typed>>

\* The screens of the member end; `thread` is kept, for the properties.
AppKilled(m) ==
    LET alive == {s \in Screens : Owner[s] = m /\ state[s] # "new"} IN
    /\ "kill" \in Events
    /\ \E s \in alive : state[s] # "ended"
    /\ state' = [s \in Screens |-> IF s \in alive THEN "ended" ELSE state[s]]
    /\ visible' = [s \in Screens |-> visible[s] /\ s \notin alive]
    /\ listening' = [s \in Screens |-> listening[s] /\ s \notin alive]
    /\ coming' = [s \in Screens |-> IF s \in alive THEN <<>> ELSE coming[s]]
    /\ reply' = [s \in Screens |-> IF s \in alive THEN {} ELSE reply[s]]
    /\ typed' = [s \in Screens |-> IF s \in alive THEN {} ELSE typed[s]]
    /\ told' = [told EXCEPT ![m] = {}]
    /\ UNCHANGED <<storeVars, attached, asked, fresh, thread>>

-----------------------------------------------------------------------------
Search(s) == OpenScreen(s) \/ BuildReply(s) \/ AddChat(s) \/ Attach(s) \/ ChatAdded(s)

Converse(s) == Send(s) \/ BuildSnapshot(s) \/ HandleSnapshot(s)
                  \/ CloseScreen(s) \/ SwipeAborted(s)

OnDevice(m) == ServerAnswers(m) \/ QueryFails(m) \/ AppKilled(m)

Answers ==
    \/ \E c \in creating : CommitChat(c) \/ RefuseChat(c)
    \/ \E m \in sending : CommitMessage(m) \/ RefuseMessage(m)
    \/ \E m \in marking : CommitRead(m)

Next ==
    \/ \E s \in Screens : Search(s) \/ Converse(s)
    \/ \E m \in Members : OnDevice(m)
    \/ Answers

Spec == Init /\ [][Next]_vars

\* The SDK tells a registered listener of every change, the main thread handles
\* what it is told, and a mark is sent again until the server answers.
Fairness ==
    /\ \A s \in Screens : WF_vars(BuildSnapshot(s)) /\ WF_vars(HandleSnapshot(s))
    /\ WF_vars(\E m \in marking : CommitRead(m))

FairSpec == Spec /\ Fairness

-----------------------------------------------------------------------------
(***************************************************************************)
(* Properties                                                              *)
(***************************************************************************)

\* The values of the variables are of the kinds declared above.
TypeOK ==
    /\ chats \subseteq Chats /\ creating \subseteq Chats
    /\ saved \subseteq Document /\ sending \subseteq Document
    /\ read \subseteq Document /\ marking \subseteq Document
    /\ told \in [Members -> SUBSET SUBSET Chats]
    /\ state \in [Screens -> States]
    /\ visible \in [Screens -> BOOLEAN]
    /\ reply \in [Screens -> SUBSET Chats]
    /\ attached \in [Screens -> ChatIds \cup {NoChat}]
    /\ listening \in [Screens -> BOOLEAN]
    /\ coming \in [Screens -> Seq(Snapshot)]
    /\ thread \in [Screens -> SUBSET Document]
    /\ typed \in [Screens -> SUBSET Message]
    /\ asked \in [Screens -> SUBSET Chats]
    /\ fresh \in [Screens -> BOOLEAN]

\* No screen adds two chats, and none adds one beside a chat that its query had
\* to find: one of its own device, or one the server had when no earlier query of
\* the device was under way. So two chats of a pair, or of one phone, come from
\* searches that overlapped, however often the conversation is left and opened
\* again before the server answers, and over a restart (loadChat, lines 188-203;
\* createNewChat).
ChatsAddedUnknowing ==
    \A c, e \in chats \cup creating :
        c # e => c.screen # e.screen /\ c \notin asked[e.screen]

\* Once a chat exists while nobody looks for one or adds one, every screen that
\* looks from then on is in the same chat, although the members, or one phone,
\* may have added several (loadChat takes the first of the query).
FreshScreensMeet ==
    \A s, t \in Screens :
        fresh[s] /\ fresh[t] /\ NoChat \notin {attached[s], attached[t]} =>
            attached[s] = attached[t]

\* Each snapshot replaces all that is shown, and was built some time before: it
\* may take off a message that was sent meanwhile, until the next, but none that
\* a snapshot has brought and that is on its way to the server or there (the
\* listener of loadChat, lines 221-234).
SnapshotKeepsThread ==
    [][\A s \in Screens :
          \A m \in thread[s] \cap (sending \cup saved) :
              m \in sending' \cup saved' => m \in thread'[s]]_vars

\* The messages of the other member that the member's screens have received.
Received(m) ==
    {d \in UNION {thread[s] : s \in {t \in Screens : Owner[t] = m}} : d.sender # m}

\* A mark that is made again, by another screen of the member, is no mark.
Box == INSTANCE Mailbox WITH received <- [m \in Members |-> Received(m)],
                             marking <- marking \ read

\* Every step sends one message or gives it its answer, shows a member messages
\* that have arrived with a mark due for each that nobody has received, makes one
\* such mark, or is invisible to the mailbox (the listener of loadChat, lines
\* 214-235; save, line 269).
ImplementsMailbox == Box!MailSpec

\* A swipe back was aborted on a screen that had found its chat.
Deaf(s) == visible[s] /\ attached[s] # NoChat /\ ~listening[s]

\* A message the server has is marked as read there once the other member has
\* the chat open and stays, unless a swipe back was aborted there: the screen
\* stays visible and hears of nothing any more (viewWillDisappear).
ReachesReader ==
    \A i \in MsgIds, s \in Screens :
        (/\ visible[s]
         /\ \E m \in saved : /\ m.id = i
                             /\ m.chat = attached[s]
                             /\ m.sender # Owner[s])
            ~> (~visible[s] \/ Deaf(s) \/ i \in Ids(read))
=============================================================================
