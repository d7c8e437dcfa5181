------------------------------- MODULE Mailbox -------------------------------
(***************************************************************************)
(* What the chat promises to the two members, without screens, queries,    *)
(* listeners or restarts: a message is sent once, arrives or is refused,   *)
(* and stays. A member receives what has arrived of the other's and keeps  *)
(* it, and with it owes the read marks, no more and no fewer; a mark is    *)
(* made only when it is owed, and once.                                    *)
(*                                                                         *)
(* Chat.tla is the program; it is shown to implement this one.             *)
(***************************************************************************)
CONSTANTS Members, ChatIds, MsgIds

VARIABLES sending,    \* the messages that are on their way
          saved,      \* those that have arrived
          received,   \* for each member, the other's messages it has received
          marking,    \* the messages whose read marks are owed
          read        \* those marked as read

mailVars == <<sending, saved, received, marking, read>>

Mail == [id : MsgIds, sender : Members, chat : ChatIds]

MailInit ==
    /\ sending = {} /\ saved = {}
    /\ received = [m \in Members |-> {}]
    /\ marking = {} /\ read = {}

\* No message on its way or arrived has the identity already.
Post(d) ==
    /\ d.id \notin {e.id : e \in sending \cup saved}
    /\ sending' = sending \cup {d}
    /\ UNCHANGED <<saved, received, marking, read>>

Arrive(d) ==
    /\ d \in sending
    /\ sending' = sending \ {d}
    /\ saved' = saved \cup {d}
    /\ UNCHANGED <<received, marking, read>>

Refuse(d) ==
    /\ d \in sending
    /\ sending' = sending \ {d}
    /\ UNCHANGED <<saved, received, marking, read>>

\* Messages of the other member that have arrived are received, and a mark is
\* owed for what nobody has received before.
Receive(m, S) ==
    /\ S \subseteq {d \in saved : d.sender # m}
    /\ received' = [received EXCEPT ![m] = @ \cup S]
    /\ marking' = marking \cup (S \ UNION {received[k] : k \in Members})
    /\ UNCHANGED <<sending, saved, read>>

Mark(d) ==
    /\ d \in marking
    /\ marking' = marking \ {d}
    /\ read' = read \cup {d}
    /\ UNCHANGED <<sending, saved, received>>

MailNext ==
    \/ \E d \in Mail : Post(d) \/ Arrive(d) \/ Refuse(d) \/ Mark(d)
    \/ \E m \in Members : \E S \in SUBSET saved : Receive(m, S)

MailSpec == MailInit /\ [][MailNext]_mailVars
=============================================================================
