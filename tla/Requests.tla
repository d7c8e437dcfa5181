------------------------------- MODULE Requests -------------------------------
(***************************************************************************)
(* Requests for communities and what becomes of them: the screen on which a *)
(* member sends one, the administrator's dashboard, on several devices, and *)
(* the details on which a request is accepted or rejected.                 *)
(*                                                                         *)
(* Accepting adds a community and deletes the request without waiting for  *)
(* either. Firestore keeps a device's writes in a queue on disk and applies *)
(* them in its order; the device's queries see them at once.               *)
(***************************************************************************)
EXTENDS Naturals, Sequences, FiniteSets, SequencesExt

CONSTANTS
    Devices,        \* where the administrator has signed in
    RequestIds,     \* bound: documents in Request, numbered in the order in
                    \* which a query finds them
    NoRequest,
    MaxRefused,     \* bound: writes the server refuses, repetitions apart
    Events          \* bound: what may happen besides the regular steps

ASSUME RequestAssumption ==
    /\ RequestIds \subseteq Nat /\ IsFiniteSet(RequestIds)
    /\ NoRequest \notin RequestIds
    /\ MaxRefused \in Nat
    /\ Events \subseteq {"kill", "error"}

VARIABLES
    requests,       \* the documents in Request
    submitted,      \* those ever sent
    communities,    \* the documents in Communities
    queue,          \* a device's writes the server has not answered
    refused,        \* for the properties: those it has refused
    rejected,       \* for the properties: requests rejected on some device
    twice,          \* for the properties: requests a device has accepted again
    \* Each device:
    page,
    rows,           \* AdminDashboard.requests
    loading,        \* the query of loadCommunities is on its way
    chosen,         \* CommunityDetailsViewController.doc
    index           \* and its index

storeVars == <<requests, submitted, communities, queue>>
flagVars == <<refused, rejected, twice>>
screenVars == <<page, rows, loading, chosen, index>>
vars == <<storeVars, flagVars, screenVars>>

-----------------------------------------------------------------------------
Pages == {"off", "list", "details"}

\* A community remembers which request it is made from, and where: the program
\* gives every one an identity of its own.
Community == [of : RequestIds, on : Devices]

Write == [op : {"add", "delete"}, of : RequestIds]

Deleting(d) == {w.of : w \in {v \in Range(queue[d]) : v.op = "delete"}}

\* Mutant: the device's own writes are not in the reply.
FoundOnServer(d) == requests

\* What the device's query finds.
Found(d) == requests \ Deleting(d)

Init ==
    /\ requests = {} /\ submitted = {} /\ communities = {}
    /\ queue = [d \in Devices |-> <<>>]
    /\ refused = {} /\ rejected = {} /\ twice = {}
    /\ page = [d \in Devices |-> "off"]
    /\ rows = [d \in Devices |-> <<>>]
    /\ loading = [d \in Devices |-> FALSE]
    /\ chosen = [d \in Devices |-> NoRequest]
    /\ index = [d \in Devices |-> 0]

-----------------------------------------------------------------------------
\* A member's request reaches the server.
Submit(r) ==
    /\ r \notin submitted
    /\ submitted' = submitted \cup {r}
    /\ requests' = requests \cup {r}
    /\ UNCHANGED <<communities, queue, flagVars, screenVars>>

\* Mutant: the rows stay until the reply comes.
RowsKept(s) == s

\* requests = []
Emptied(s) == <<>>

OpenDashboard(d) ==
    /\ page[d] = "off"
    /\ page' = [page EXCEPT ![d] = "list"]
    /\ loading' = [loading EXCEPT ![d] = TRUE]
    /\ UNCHANGED <<storeVars, flagVars, rows, chosen, index>>

\* The reply to loadCommunities appends the requests.
RequestsArrive(d) ==
    /\ loading[d]
    /\ loading' = [loading EXCEPT ![d] = FALSE]
    /\ \E s \in [1 .. Cardinality(Found(d)) -> Found(d)] :
          /\ \A i, j \in DOMAIN s : i < j => s[i] < s[j]
          /\ rows' = [rows EXCEPT ![d] = @ \o s]
    /\ UNCHANGED <<storeVars, flagVars, page, chosen, index>>

\* The dashboard stays empty until it is opened anew.
RequestsFail(d) ==
    /\ "error" \in Events
    /\ loading[d]
    /\ loading' = [loading EXCEPT ![d] = FALSE]
    /\ UNCHANGED <<storeVars, flagVars, page, rows, chosen, index>>

Select(d, i) ==
    /\ page[d] = "list" /\ i \in DOMAIN rows[d]
    /\ page' = [page EXCEPT ![d] = "details"]
    /\ chosen' = [chosen EXCEPT ![d] = rows[d][i]]
    /\ index' = [index EXCEPT ![d] = i]
    /\ UNCHANGED <<storeVars, flagVars, rows, loading>>

\* Mutant: the details are emptied, but not dismissed.
DelAtStays(d) ==
    /\ rows' = [rows EXCEPT ![d] = Emptied(RemoveAt(@, index[d]))]
    /\ loading' = [loading EXCEPT ![d] = TRUE]
    /\ chosen' = [chosen EXCEPT ![d] = NoRequest]
    /\ index' = [index EXCEPT ![d] = 1]
    /\ UNCHANGED page

\* delAt and the details' end.
DelAt(d) ==
    /\ rows' = [rows EXCEPT ![d] = Emptied(RemoveAt(@, index[d]))]
    /\ loading' = [loading EXCEPT ![d] = TRUE]
    /\ page' = [page EXCEPT ![d] = "list"]
    /\ chosen' = [chosen EXCEPT ![d] = NoRequest]
    /\ index' = [index EXCEPT ![d] = 0]

LeaveDetails(d) ==
    /\ page[d] = "details"
    /\ page' = [page EXCEPT ![d] = "list"]
    /\ chosen' = [chosen EXCEPT ![d] = NoRequest]
    /\ index' = [index EXCEPT ![d] = 0]
    /\ UNCHANGED <<storeVars, flagVars, rows, loading>>

\* Mutant: the request is deleted first.
DeleteFirst(r) == <<[op |-> "delete", of |-> r], [op |-> "add", of |-> r]>>

\* setData, then delete.
Acceptance(r) == <<[op |-> "add", of |-> r], [op |-> "delete", of |-> r]>>

Accept(d) ==
    LET r == chosen[d] IN
    /\ page[d] = "details"
    /\ queue' = [queue EXCEPT ![d] = @ \o Acceptance(r)]
    /\ twice' = IF \/ [op |-> "add", of |-> r] \in Range(queue[d])
                   \/ [of |-> r, on |-> d] \in communities
                THEN twice \cup {[of |-> r, on |-> d]} ELSE twice
    /\ DelAt(d)
    /\ UNCHANGED <<requests, submitted, communities, refused, rejected>>

Reject(d) ==
    LET r == chosen[d] IN
    /\ page[d] = "details"
    /\ queue' = [queue EXCEPT ![d] = Append(@, [op |-> "delete", of |-> r])]
    /\ rejected' = rejected \cup {r}
    /\ DelAt(d)
    /\ UNCHANGED <<requests, submitted, communities, refused, twice>>

Kill(d) ==
    /\ "kill" \in Events
    /\ page[d] # "off"
    /\ page' = [page EXCEPT ![d] = "off"]
    /\ rows' = [rows EXCEPT ![d] = <<>>]
    /\ loading' = [loading EXCEPT ![d] = FALSE]
    /\ chosen' = [chosen EXCEPT ![d] = NoRequest]
    /\ index' = [index EXCEPT ![d] = 0]
    /\ UNCHANGED <<storeVars, flagVars>>

-----------------------------------------------------------------------------
\* The first of a device's writes is applied, or refused.
Commit(d) ==
    LET w == Head(queue[d]) IN
    /\ queue[d] # <<>>
    /\ queue' = [queue EXCEPT ![d] = Tail(@)]
    /\ IF w.op = "add"
       THEN communities' = communities \cup {[of |-> w.of, on |-> d]} /\ UNCHANGED requests
       ELSE requests' = requests \ {w.of} /\ UNCHANGED communities
    /\ UNCHANGED <<submitted, flagVars, screenVars>>

Refuse(d) ==
    /\ queue[d] # <<>>
    /\ queue' = [queue EXCEPT ![d] = Tail(@)]
    /\ refused' = refused \cup {<<d, Head(queue[d])>>}
    /\ Cardinality(refused') <= MaxRefused
    /\ UNCHANGED <<requests, submitted, communities, rejected, twice, screenVars>>

-----------------------------------------------------------------------------
Dashboard(d) ==
    \/ OpenDashboard(d) \/ Kill(d)
    \/ RequestsArrive(d) \/ RequestsFail(d)
    \/ \E i \in DOMAIN rows[d] : Select(d, i)
    \/ LeaveDetails(d) \/ Accept(d) \/ Reject(d)

Next ==
    \/ \E r \in RequestIds : Submit(r)
    \/ \E d \in Devices : Dashboard(d) \/ Commit(d) \/ Refuse(d)

Spec == Init /\ [][Next]_vars

-----------------------------------------------------------------------------
(***************************************************************************)
(* Properties                                                              *)
(***************************************************************************)

\* The values of the variables are of the kinds declared above.
TypeOK ==
    /\ requests \subseteq submitted /\ submitted \subseteq RequestIds
    /\ communities \subseteq Community
    /\ queue \in [Devices -> Seq(Write)]
    /\ refused \subseteq Devices \X Write
    /\ rejected \subseteq RequestIds
    /\ twice \subseteq Community
    /\ page \in [Devices -> Pages]
    /\ rows \in [Devices -> Seq(RequestIds)]
    /\ loading \in [Devices -> BOOLEAN]
    /\ chosen \in [Devices -> RequestIds \cup {NoRequest}]
    /\ index \in [Devices -> Nat]

\* A request is gone only when it was rejected, or the community is there, or
\* was refused; also when the application ends, or the server refuses one of the
\* two writes of an acceptance (accept, lines 27-47).
AcceptedNotLost ==
    \A r \in submitted \ requests :
        \/ r \in rejected
        \/ \E c \in communities : c.of = r
        \/ \E d \in Devices : <<d, [op |-> "add", of |-> r]>> \in refused

\* A device does not accept a request a second time, although its list is loaded
\* before the deletion is saved; unless the deletion was refused.
AcceptedOnce ==
    \A c \in twice : <<c.on, [op |-> "delete", of |-> c.of]>> \in refused

\* The row that was touched is still where it was when its request is decided:
\* delAt removes it by its index (AdminDashboard, line 113), while other
\* devices decide the same requests. And no request has two rows.
RowsStay ==
    \A d \in Devices :
        /\ IsInjective(rows[d])
        /\ page[d] = "details" =>
              index[d] \in DOMAIN rows[d] /\ rows[d][index[d]] = chosen[d]
=============================================================================
