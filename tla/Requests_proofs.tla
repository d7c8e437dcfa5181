--------------------------- MODULE Requests_proofs ---------------------------
(***************************************************************************)
(* What holds of Requests for any devices and requests, and any number of  *)
(* refusals: the types, that a request which is gone was rejected or has   *)
(* become a community, that a device accepts it once, and that delAt       *)
(* removes the row that was touched.                                       *)
(***************************************************************************)
EXTENDS Requests, FiniteSetTheorems, TLAPS

-----------------------------------------------------------------------------
(***************************************************************************)
(* Queues whose first write leaves, and to which writes are appended.      *)
(***************************************************************************)
LEMMA TailFacts ==
    ASSUME NEW S, NEW q \in Seq(S), q # <<>>
    PROVE  /\ Tail(q) \in Seq(S) /\ 1 \in DOMAIN q /\ Head(q) = q[1]
           /\ \A i \in DOMAIN Tail(q) : i + 1 \in DOMAIN q /\ Tail(q)[i] = q[i + 1]
           /\ \A i \in DOMAIN q : i # 1 => i - 1 \in DOMAIN Tail(q) /\ Tail(q)[i - 1] = q[i]
<1>1. Len(q) \in Nat /\ Len(q) # 0 /\ DOMAIN q = 1 .. Len(q)
    OBVIOUS
<1>2. Tail(q) \in Seq(S) /\ Len(Tail(q)) = Len(q) - 1
    OBVIOUS
<1>3. DOMAIN Tail(q) = 1 .. (Len(q) - 1)
    BY <1>1, <1>2
<1>4. \A i \in 1 .. (Len(q) - 1) : Tail(q)[i] = q[i + 1]
    BY <1>1
<1> QED  BY <1>1, <1>2, <1>3, <1>4

LEMMA AppendFacts ==
    ASSUME NEW S, NEW q \in Seq(S), NEW a \in S
    PROVE  /\ Append(q, a) \in Seq(S)
           /\ DOMAIN Append(q, a) = DOMAIN q \cup {Len(q) + 1}
           /\ Append(q, a)[Len(q) + 1] = a
           /\ \A i \in DOMAIN q : Append(q, a)[i] = q[i]
           /\ \A i \in DOMAIN q : i \in Nat /\ i =< Len(q)
<1>1. Len(q) \in Nat /\ DOMAIN q = 1 .. Len(q)
    OBVIOUS
<1>2. Append(q, a) \in Seq(S) /\ Len(Append(q, a)) = Len(q) + 1
    OBVIOUS
<1>3. DOMAIN Append(q, a) = 1 .. (Len(q) + 1)
    BY <1>2
<1> QED  BY <1>1, <1>2, <1>3

LEMMA PairAppended ==
    ASSUME NEW S, NEW q \in Seq(S), NEW a \in S, NEW b \in S
    PROVE  q \o <<a, b>> = Append(Append(q, a), b)
OBVIOUS

-----------------------------------------------------------------------------
(***************************************************************************)
(* The invariant.                                                          *)
(***************************************************************************)
Add(r) == [op |-> "add", of |-> r]

Del(r) == [op |-> "delete", of |-> r]

\* A dashboard whose query is under way shows nothing, and what it shows are
\* different requests that have been sent.
RowsGood(d) ==
    /\ page[d] = "off" => ~loading[d] /\ rows[d] = <<>>
    /\ loading[d] => rows[d] = <<>>
    /\ \A i \in DOMAIN rows[d] : rows[d][i] \in submitted
    /\ \A i, j \in DOMAIN rows[d] : rows[d][i] = rows[d][j] => i = j
    /\ page[d] = "details" => index[d] \in DOMAIN rows[d] /\ rows[d][index[d]] = chosen[d]

\* What may explain that the request is gone.
Excused(r) ==
    \/ r \in rejected
    \/ \E c \in communities : c.of = r
    \/ \E d \in Devices : <<d, Add(r)>> \in refused

Excusable == {r \in RequestIds : Excused(r)}

\* Of the writes of a queue, about requests of S, a deletion is of a request in
\* E, or is behind its addition.
Explained(q, S, E) ==
    \A i \in DOMAIN q :
        /\ q[i].of \in S
        /\ q[i].op = "delete" =>
              q[i].of \in E \/ \E j \in DOMAIN q : j < i /\ q[j] = Add(q[i].of)

QueueGood(d) == Explained(queue[d], submitted, Excusable)

Queued(d, w) == \E i \in DOMAIN queue[d] : queue[d][i] = w

\* The device has accepted the request.
Accepted(d, r) == Queued(d, Add(r)) \/ [of |-> r, on |-> d] \in communities

\* The device does not show a request it has accepted, and its queries do not
\* find it, unless its deletion was refused.
Hidden(d, r) ==
    /\ Queued(d, Del(r)) \/ r \in submitted \ requests
    /\ \A i \in DOMAIN rows[d] : rows[d][i] # r

AcceptedGood(d) ==
    \A r \in RequestIds :
        Accepted(d, r) => <<d, Del(r)>> \in refused \/ Hidden(d, r)

Inv ==
    /\ TypeOK /\ AcceptedNotLost /\ AcceptedOnce
    /\ \A d \in Devices : RowsGood(d) /\ QueueGood(d) /\ AcceptedGood(d)

-----------------------------------------------------------------------------
(***************************************************************************)
(* What the dashboard does.                                                *)
(***************************************************************************)
\* The request under decision has been sent, and has a row.
LEMMA ChosenSent ==
    ASSUME Inv, NEW d \in Devices, page[d] = "details"
    PROVE  /\ chosen[d] \in submitted /\ chosen[d] \in RequestIds
           /\ \E i \in DOMAIN rows[d] : rows[d][i] = chosen[d]
BY DEF Inv, RowsGood, TypeOK

LEMMA DelAtType ==
    ASSUME TypeOK, NEW d \in Devices, DelAt(d)
    PROVE  /\ page' \in [Devices -> Pages] /\ rows' \in [Devices -> Seq(RequestIds)]
           /\ loading' \in [Devices -> BOOLEAN] /\ index' \in [Devices -> Nat]
           /\ chosen' \in [Devices -> RequestIds \cup {NoRequest}]
BY DEF DelAt, Emptied, TypeOK, Pages

LEMMA DelAtRows ==
    ASSUME TypeOK, NEW d \in Devices, DelAt(d), submitted' = submitted,
           NEW p \in Devices, RowsGood(p)
    PROVE  RowsGood(p)' /\ (rows'[p] = rows[p] \/ rows'[p] = <<>>)
<1>1. CASE p = d
    <2>1. rows'[p] = <<>> /\ page'[p] = "list"
        BY <1>1 DEF DelAt, Emptied, TypeOK
    <2> QED  BY <2>1 DEF RowsGood
<1>2. CASE p # d
    <2>1. /\ rows'[p] = rows[p] /\ page'[p] = page[p] /\ loading'[p] = loading[p]
          /\ chosen'[p] = chosen[p] /\ index'[p] = index[p]
        BY <1>2 DEF DelAt, TypeOK
    <2> QED  BY <2>1 DEF RowsGood
<1> QED  BY <1>1, <1>2

\* What a reply brings is a sequence of requests on the server, each once, and
\* none that the device is about to delete.
LEMMA ReplyRows ==
    ASSUME Inv, NEW d \in Devices, RequestsArrive(d)
    PROVE  /\ rows' \in [Devices -> Seq(RequestIds)]
           /\ \A p \in Devices : p # d => rows'[p] = rows[p]
           /\ \A i \in DOMAIN rows'[d] :
                  rows'[d][i] \in requests /\ ~Queued(d, Del(rows'[d][i]))
           /\ \A i, j \in DOMAIN rows'[d] : rows'[d][i] = rows'[d][j] => i = j
<1> DEFINE n == Cardinality(Found(d))
<1>1. PICK s \in [1 .. n -> Found(d)] :
          /\ \A i, j \in DOMAIN s : i < j => s[i] < s[j]
          /\ rows' = [rows EXCEPT ![d] = @ \o s]
    BY DEF RequestsArrive
<1>2. Found(d) \subseteq requests /\ requests \subseteq RequestIds
    BY DEF Found, Inv, TypeOK
<1>3. n \in Nat
    <2>1. IsFiniteSet(Found(d))
        BY <1>2, RequestAssumption, FS_Subset
    <2> QED  BY <2>1, FS_CardinalityType
<1> HIDE DEF n
<1>4. s \in Seq(RequestIds) /\ Len(s) = n /\ DOMAIN s = 1 .. n
    <2>1. s \in [1 .. n -> RequestIds]
        BY <1>2
    <2> QED  BY <1>3, <2>1
<1>5. rows[d] = <<>> /\ rows \in [Devices -> Seq(RequestIds)]
    BY DEF RequestsArrive, Inv, RowsGood, TypeOK
<1>6. rows'[d] = s
    <2>1. rows'[d] = <<>> \o s
        BY <1>1, <1>5
    <2> QED  BY <1>4, <2>1
<1>7. rows' \in [Devices -> Seq(RequestIds)] /\ \A p \in Devices : p # d => rows'[p] = rows[p]
    BY <1>1, <1>4, <1>5, <1>6
<1>8. ASSUME NEW i \in DOMAIN s PROVE s[i] \in requests /\ ~Queued(d, Del(s[i]))
    <2>1. s[i] \in Found(d)
        BY <1>4
    <2>2. ASSUME Queued(d, Del(s[i])) PROVE s[i] \in Deleting(d)
        <3>1. PICK k \in DOMAIN queue[d] : queue[d][k] = Del(s[i])
            BY <2>2 DEF Queued
        <3>2. queue[d][k] \in Range(queue[d])
            BY DEF Range
        <3>3. Del(s[i]).op = "delete" /\ Del(s[i]).of = s[i]
            BY DEF Del
        <3> HIDE DEF Del
        <3> QED  BY <3>1, <3>2, <3>3 DEF Deleting
    <2> QED  BY <1>2, <2>1, <2>2 DEF Found
<1>9. ASSUME NEW i \in DOMAIN s, NEW j \in DOMAIN s, s[i] = s[j] PROVE i = j
    <2>1. i \in Nat /\ j \in Nat /\ s[i] \in Nat /\ s[j] \in Nat
        <3>1. i \in 1 .. n /\ j \in 1 .. n
            BY <1>4
        <3>2. s[i] \in RequestIds /\ s[j] \in RequestIds
            BY <1>4
        <3>3. RequestIds \subseteq Nat
            BY RequestAssumption
        <3>4. i \in Nat /\ j \in Nat
            BY <1>3, <3>1
        <3> QED  BY <3>2, <3>3, <3>4
    <2>2. ~(i < j) /\ ~(j < i)
        BY <1>1, <1>9, <2>1
    <2> QED  BY <2>1, <2>2
<1> QED  BY <1>6, <1>7, <1>8, <1>9

-----------------------------------------------------------------------------
(***************************************************************************)
(* The types.                                                              *)
(***************************************************************************)
LEMMA DashboardType ==
    ASSUME Inv, NEW d \in Devices, Dashboard(d)
    PROVE  TypeOK'
<1> USE DEF storeVars, flagVars
<1>0. TypeOK
    BY DEF Inv
<1>1. CASE OpenDashboard(d)
    BY <1>0, <1>1 DEF OpenDashboard, TypeOK, Pages
<1>2. CASE Kill(d)
    BY <1>0, <1>2 DEF Kill, TypeOK, Pages
<1>3. CASE RequestsArrive(d)
    <2>1. rows' \in [Devices -> Seq(RequestIds)]
        BY <1>3, ReplyRows
    <2> QED  BY <1>0, <1>3, <2>1 DEF RequestsArrive, TypeOK
<1>4. CASE RequestsFail(d)
    BY <1>0, <1>4 DEF RequestsFail, TypeOK
<1>5. CASE \E i \in DOMAIN rows[d] : Select(d, i)
    <2>1. PICK i \in DOMAIN rows[d] : Select(d, i)
        BY <1>5
    <2>2. i \in Nat /\ rows[d][i] \in RequestIds
        BY <1>0 DEF TypeOK
    <2> QED  BY <1>0, <2>1, <2>2 DEF Select, TypeOK, Pages
<1>6. CASE LeaveDetails(d)
    BY <1>0, <1>6 DEF LeaveDetails, TypeOK, Pages
<1>7. CASE Accept(d)
    <2>1. chosen[d] \in RequestIds
        BY <1>7, ChosenSent DEF Accept
    <2>2. Acceptance(chosen[d]) \in Seq(Write)
        BY <2>1 DEF Acceptance, Write
    <2>3. queue' \in [Devices -> Seq(Write)]
        BY <1>0, <1>7, <2>2 DEF Accept, TypeOK
    <2>4. [of |-> chosen[d], on |-> d] \in Community
        BY <2>1 DEF Community
    <2>5. twice' \subseteq Community
        BY <1>0, <1>7, <2>4 DEF Accept, TypeOK
    <2> QED  BY <1>0, <1>7, <2>3, <2>5, DelAtType DEF Accept, TypeOK
<1>8. CASE Reject(d)
    <2>1. chosen[d] \in RequestIds
        BY <1>8, ChosenSent DEF Reject
    <2>2. [op |-> "delete", of |-> chosen[d]] \in Write
        BY <2>1 DEF Write
    <2>3. queue' \in [Devices -> Seq(Write)]
        BY <1>0, <1>8, <2>2 DEF Reject, TypeOK
    <2> QED  BY <1>0, <1>8, <2>1, <2>3, DelAtType DEF Reject, TypeOK
<1> QED  BY <1>1, <1>2, <1>3, <1>4, <1>5, <1>6, <1>7, <1>8 DEF Dashboard

LEMMA HeadType ==
    ASSUME TypeOK, NEW d \in Devices, queue[d] # <<>>,
           queue' = [queue EXCEPT ![d] = Tail(@)]
    PROVE  /\ Head(queue[d]) \in Write /\ queue' \in [Devices -> Seq(Write)]
           /\ Head(queue[d]) = queue[d][1] /\ 1 \in DOMAIN queue[d]
<1>1. queue[d] \in Seq(Write)
    BY DEF TypeOK
<1>2. /\ Tail(queue[d]) \in Seq(Write) /\ 1 \in DOMAIN queue[d]
      /\ Head(queue[d]) = queue[d][1]
    BY <1>1, TailFacts
<1> QED  BY <1>1, <1>2 DEF TypeOK

LEMMA CommitType ==
    ASSUME TypeOK, NEW d \in Devices, Commit(d) \/ Refuse(d)
    PROVE  TypeOK'
<1> USE DEF flagVars, screenVars
<1>1. /\ queue[d] # <<>> /\ queue' = [queue EXCEPT ![d] = Tail(@)]
    BY DEF Commit, Refuse
<1>2. Head(queue[d]) \in Write /\ queue' \in [Devices -> Seq(Write)]
    BY <1>1, HeadType
<1> DEFINE w == Head(queue[d])
<1>3. CASE Commit(d)
    <2>1. [of |-> w.of, on |-> d] \in Community
        BY <1>2 DEF Community, Write
    <2>2. communities' \subseteq Community /\ requests' \subseteq submitted
        BY <1>3, <2>1 DEF Commit, TypeOK
    <2> QED  BY <1>2, <1>3, <2>2 DEF Commit, TypeOK
<1>4. CASE Refuse(d)
    BY <1>2, <1>4 DEF Refuse, TypeOK
<1> QED  BY <1>3, <1>4

LEMMA NextType == ASSUME Inv, [Next]_vars PROVE TypeOK'
<1>0. TypeOK
    BY DEF Inv
<1>1. ASSUME NEW r \in RequestIds, Submit(r) PROVE TypeOK'
    BY <1>0, <1>1 DEF Submit, TypeOK, flagVars, screenVars
<1>2. CASE UNCHANGED vars
    BY <1>0, <1>2 DEF vars, storeVars, flagVars, screenVars, TypeOK
<1> QED  BY <1>0, <1>1, <1>2, DashboardType, CommitType DEF Next

-----------------------------------------------------------------------------
(***************************************************************************)
(* The rows.                                                               *)
(***************************************************************************)
LEMMA RowsStep ==
    ASSUME Inv, [Next]_vars, NEW p \in Devices
    PROVE  RowsGood(p)'
<1> USE DEF storeVars, flagVars, screenVars
<1>0. TypeOK /\ RowsGood(p)
    BY DEF Inv
<1>1. ASSUME UNCHANGED screenVars, submitted \subseteq submitted' PROVE RowsGood(p)'
    BY <1>0, <1>1 DEF RowsGood
<1>2. ASSUME NEW d \in Devices, Dashboard(d) PROVE RowsGood(p)'
    <2>1. CASE OpenDashboard(d)
        BY <1>0, <2>1 DEF OpenDashboard, RowsGood, TypeOK
    <2>2. CASE Kill(d)
        BY <1>0, <2>2 DEF Kill, RowsGood, TypeOK
    <2>3. CASE RequestsArrive(d)
        <3>1. /\ page' = page /\ submitted' = submitted /\ loading[d]
              /\ chosen' = chosen /\ index' = index
              /\ loading' = [loading EXCEPT ![d] = FALSE]
            BY <2>3 DEF RequestsArrive
        <3>2. CASE p # d
            <4>1. rows'[p] = rows[p] /\ loading'[p] = loading[p]
                BY <1>0, <2>3, <3>1, <3>2, ReplyRows DEF TypeOK
            <4> QED  BY <1>0, <3>1, <4>1 DEF RowsGood
        <3>3. CASE p = d
            <4>1. rows[d] = <<>> /\ page[d] # "details" /\ ~loading'[d]
                BY <1>0, <3>1, <3>3 DEF RowsGood, TypeOK
            <4>2. /\ \A i \in DOMAIN rows'[d] : rows'[d][i] \in submitted
                  /\ \A i, j \in DOMAIN rows'[d] : rows'[d][i] = rows'[d][j] => i = j
                BY <1>0, <2>3, ReplyRows DEF TypeOK
            <4>3. page[d] # "off"
                BY <1>0, <3>1, <3>3 DEF RowsGood
            <4> QED  BY <3>1, <3>3, <4>1, <4>2, <4>3 DEF RowsGood
        <3> QED  BY <3>2, <3>3
    <2>4. CASE RequestsFail(d)
        BY <1>0, <2>4 DEF RequestsFail, RowsGood, TypeOK
    <2>5. CASE \E i \in DOMAIN rows[d] : Select(d, i)
        BY <1>0, <2>5 DEF Select, RowsGood, TypeOK
    <2>6. CASE LeaveDetails(d)
        BY <1>0, <2>6 DEF LeaveDetails, RowsGood, TypeOK
    <2>7. CASE Accept(d) \/ Reject(d)
        BY <1>0, <2>7, DelAtRows DEF Accept, Reject
    <2> QED  BY <1>2, <2>1, <2>2, <2>3, <2>4, <2>5, <2>6, <2>7 DEF Dashboard
<1>3. ASSUME NEW d \in Devices, Commit(d) \/ Refuse(d) PROVE RowsGood(p)'
    BY <1>1, <1>3 DEF Commit, Refuse
<1>4. ASSUME NEW r \in RequestIds, Submit(r) PROVE RowsGood(p)'
    BY <1>1, <1>4 DEF Submit
<1>5. CASE UNCHANGED vars
    BY <1>1, <1>5 DEF vars
<1> QED  BY <1>2, <1>3, <1>4, <1>5 DEF Next

-----------------------------------------------------------------------------
(***************************************************************************)
(* The queues.                                                             *)
(***************************************************************************)
LEMMA ExcusedStays ==
    ASSUME NEW r, Excused(r), communities \subseteq communities',
           refused \subseteq refused', rejected \subseteq rejected'
    PROVE  Excused(r)'
BY DEF Excused

LEMMA ExplainedAppend ==
    ASSUME NEW S, NEW E, NEW q \in Seq(Write), Explained(q, S, E),
           NEW w \in Write, w.of \in S,
           w.op # "delete" \/ w.of \in E \/ \E j \in DOMAIN q : q[j] = Add(w.of)
    PROVE  Explained(Append(q, w), S, E)
<1> DEFINE t == Append(q, w)
<1>1. /\ DOMAIN t = DOMAIN q \cup {Len(q) + 1} /\ t[Len(q) + 1] = w
      /\ \A i \in DOMAIN q : t[i] = q[i] /\ i \in Nat /\ i < Len(q) + 1
    <2>1. Len(q) \in Nat
        OBVIOUS
    <2>2. \A i \in DOMAIN q : i \in Nat /\ i =< Len(q)
        BY AppendFacts
    <2>3. \A i \in DOMAIN q : i < Len(q) + 1
        BY <2>1, <2>2
    <2> QED  BY <2>2, <2>3, AppendFacts
<1> HIDE DEF t
<1> SUFFICES ASSUME NEW i \in DOMAIN t
             PROVE  /\ t[i].of \in S
                    /\ t[i].op = "delete" =>
                          t[i].of \in E \/ \E j \in DOMAIN t : j < i /\ t[j] = Add(t[i].of)
    BY DEF Explained, t
<1>2. CASE i \in DOMAIN q
    BY <1>1, <1>2 DEF Explained
<1>3. CASE i = Len(q) + 1
    BY <1>1, <1>3
<1> QED  BY <1>1, <1>2, <1>3

LEMMA ExplainedTail ==
    ASSUME NEW S, NEW E, NEW q \in Seq(Write), q # <<>>, Explained(q, S, E),
           \A r \in RequestIds : q[1] = Add(r) => r \in E
    PROVE  Explained(Tail(q), S, E)
<1> DEFINE t == Tail(q)
<1>1. /\ \A i \in DOMAIN t : i \in Nat /\ i + 1 \in DOMAIN q /\ t[i] = q[i + 1]
      /\ \A i \in DOMAIN q : i \in Nat /\ q[i] \in Write
      /\ \A i \in DOMAIN q : i # 1 => i - 1 \in DOMAIN t /\ t[i - 1] = q[i]
    <2>1. t \in Seq(Write)
        BY TailFacts
    <2>2. \A i \in DOMAIN t : i \in Nat
        BY <2>1
    <2>3. \A i \in DOMAIN q : i \in Nat /\ q[i] \in Write
        OBVIOUS
    <2> QED  BY <2>2, <2>3, TailFacts
<1> HIDE DEF t
<1> SUFFICES ASSUME NEW i \in DOMAIN t
             PROVE  /\ t[i].of \in S
                    /\ t[i].op = "delete" =>
                          t[i].of \in E \/ \E j \in DOMAIN t : j < i /\ t[j] = Add(t[i].of)
    BY DEF Explained, t
<1> DEFINE w == t[i]
<1>2. w.of \in S /\ w.of \in RequestIds
    BY <1>1 DEF Explained, Write
<1>3. w.op = "delete" => w.of \in E \/ \E j \in DOMAIN q : j < i + 1 /\ q[j] = Add(w.of)
    BY <1>1 DEF Explained
<1>4. ASSUME NEW j \in DOMAIN q, j < i + 1, q[j] = Add(w.of)
      PROVE  w.of \in E \/ \E k \in DOMAIN t : k < i /\ t[k] = Add(w.of)
    <2>1. CASE j = 1
        BY <1>2, <1>4, <2>1
    <2>2. CASE j # 1
        <3>1. j \in Nat /\ i \in Nat /\ j - 1 \in DOMAIN t /\ t[j - 1] = q[j]
            BY <1>1, <2>2
        <3>2. j - 1 < i
            BY <1>4, <3>1
        <3> QED  BY <1>4, <3>1, <3>2
    <2> QED  BY <2>1, <2>2
<1> QED  BY <1>2, <1>3, <1>4

\* The steps of a device on the queues: none, an acceptance, a rejection, or
\* that the first write leaves.
LEMMA QueueSteps ==
    ASSUME Inv, [Next]_vars, NEW p \in Devices
    PROVE  \/ queue'[p] = queue[p]
           \/ Accept(p) /\ queue'[p] = Append(Append(queue[p], Add(chosen[p])), Del(chosen[p]))
           \/ Reject(p) /\ queue'[p] = Append(queue[p], Del(chosen[p]))
           \/ (Commit(p) \/ Refuse(p)) /\ queue'[p] = Tail(queue[p]) /\ queue[p] # <<>>
<1> USE DEF storeVars, flagVars, screenVars
<1>0. queue \in [Devices -> Seq(Write)]
    BY DEF Inv, TypeOK
<1>1. ASSUME NEW d \in Devices, Accept(d)
      PROVE  \/ queue'[p] = queue[p]
             \/ p = d /\ queue'[p] = Append(Append(queue[p], Add(chosen[p])), Del(chosen[p]))
    <2>1. queue' = [queue EXCEPT ![d] = @ \o Acceptance(chosen[d])]
        BY <1>1 DEF Accept
    <2>2. CASE p # d
        BY <1>0, <2>1, <2>2
    <2>3. CASE p = d
        <3>1. Add(chosen[d]) \in Write /\ Del(chosen[d]) \in Write
            BY <1>1, ChosenSent DEF Accept, Add, Del, Write
        <3>2. Acceptance(chosen[d]) = <<Add(chosen[d]), Del(chosen[d])>>
            BY DEF Acceptance, Add, Del
        <3>3. queue'[p] = queue[p] \o <<Add(chosen[p]), Del(chosen[p])>>
            BY <1>0, <2>1, <2>3, <3>2
        <3> QED  BY <1>0, <2>3, <3>1, <3>3, PairAppended
    <2> QED  BY <2>2, <2>3
<1>2. ASSUME NEW d \in Devices, Reject(d)
      PROVE  \/ queue'[p] = queue[p]
             \/ p = d /\ queue'[p] = Append(queue[p], Del(chosen[p]))
    BY <1>0, <1>2 DEF Reject, Del
<1>3. ASSUME NEW d \in Devices, Commit(d) \/ Refuse(d)
      PROVE  \/ queue'[p] = queue[p]
             \/ p = d /\ queue'[p] = Tail(queue[p]) /\ queue[p] # <<>>
    BY <1>0, <1>3 DEF Commit, Refuse
<1>4. ASSUME NEW d \in Devices, Dashboard(d), ~Accept(d), ~Reject(d) PROVE queue' = queue
    BY <1>4 DEF Dashboard, OpenDashboard, Kill, RequestsArrive, RequestsFail, Select, LeaveDetails
<1>5. ASSUME NEW r \in RequestIds, Submit(r) PROVE queue' = queue
    BY <1>5 DEF Submit
<1>6. CASE UNCHANGED vars
    BY <1>6 DEF vars
<1> QED  BY <1>1, <1>2, <1>3, <1>4, <1>5, <1>6 DEF Next

\* No step takes back what explains that a request is gone.
LEMMA FlagsGrow ==
    ASSUME [Next]_vars
    PROVE  /\ communities \subseteq communities' /\ refused \subseteq refused'
           /\ rejected \subseteq rejected' /\ submitted \subseteq submitted'
<1> USE DEF storeVars, flagVars, screenVars
<1>1. ASSUME NEW d \in Devices, Dashboard(d)
      PROVE  communities' = communities /\ refused' = refused /\ submitted' = submitted
             /\ rejected \subseteq rejected'
    BY <1>1 DEF Dashboard, OpenDashboard, Kill, RequestsArrive, RequestsFail, Select,
                LeaveDetails, Accept, Reject
<1>2. ASSUME NEW d \in Devices, Commit(d) \/ Refuse(d)
      PROVE  /\ communities \subseteq communities' /\ refused \subseteq refused'
             /\ rejected' = rejected /\ submitted' = submitted
    BY <1>2 DEF Commit, Refuse
<1>3. ASSUME NEW r \in RequestIds, Submit(r)
      PROVE  communities' = communities /\ refused' = refused /\ rejected' = rejected
             /\ submitted \subseteq submitted'
    BY <1>3 DEF Submit
<1>4. CASE UNCHANGED vars
    BY <1>4 DEF vars
<1> QED  BY <1>1, <1>2, <1>3, <1>4 DEF Next

\* The first write explains itself when it leaves.
LEMMA HeadDone ==
    ASSUME Inv, NEW d \in Devices, Commit(d) \/ Refuse(d), queue[d] # <<>>, NEW r \in RequestIds
    PROVE  /\ queue[d][1] = Add(r) => Excused(r)'
           /\ queue[d][1] = Del(r) =>
                 r \notin requests' \/ <<d, Del(r)>> \in refused'
<1>0. queue[d] \in Seq(Write)
    BY DEF Inv, TypeOK
<1>1. Head(queue[d]) = queue[d][1]
    BY <1>0, TailFacts
<1>2. CASE Commit(d)
    <2>1. queue[d][1] = Add(r) => [of |-> r, on |-> d] \in communities'
        BY <1>1, <1>2 DEF Commit, Add
    <2>2. [of |-> r, on |-> d].of = r
        OBVIOUS
    <2>3. queue[d][1] = Del(r) => r \notin requests'
        BY <1>1, <1>2 DEF Commit, Del
    <2> QED  BY <2>1, <2>2, <2>3 DEF Excused
<1>3. CASE Refuse(d)
    BY <1>1, <1>3 DEF Refuse, Excused
<1> QED  BY <1>2, <1>3

LEMMA QueueStep ==
    ASSUME Inv, [Next]_vars, NEW p \in Devices
    PROVE  QueueGood(p)'
<1> DEFINE q == queue[p]
           S == submitted'
           E == Excusable'
<1>0. TypeOK /\ q \in Seq(Write) /\ \A i \in DOMAIN q : q[i] \in Write
    BY DEF Inv, TypeOK
<1>1. submitted \subseteq S /\ Excusable \subseteq E
    BY FlagsGrow, ExcusedStays DEF Excusable
<1> HIDE DEF S, E
<1>2. Explained(q, S, E)
    BY <1>1 DEF Inv, QueueGood, Explained
<1> SUFFICES Explained(queue'[p], S, E)
    BY DEF QueueGood, S, E
<1>3. CASE queue'[p] = q
    BY <1>2, <1>3
<1>4. CASE Accept(p) /\ queue'[p] = Append(Append(q, Add(chosen[p])), Del(chosen[p]))
    <2> DEFINE a == Add(chosen[p])
               b == Del(chosen[p])
    <2>1. chosen[p] \in submitted /\ chosen[p] \in RequestIds
        BY <1>4, ChosenSent DEF Accept
    <2>2. /\ a \in Write /\ a.op # "delete" /\ a.of \in S
          /\ b \in Write /\ b.of = chosen[p] /\ b.of \in S
        BY <1>1, <2>1 DEF Add, Del, Write
    <2> HIDE DEF a, b
    <2>3. Explained(Append(q, a), S, E)
        BY <1>0, <1>2, <2>2, ExplainedAppend
    <2>4. Append(q, a) \in Seq(Write) /\ \E j \in DOMAIN Append(q, a) : Append(q, a)[j] = a
        BY <1>0, <2>2, AppendFacts
    <2>5. \E j \in DOMAIN Append(q, a) : Append(q, a)[j] = Add(b.of)
        BY <2>2, <2>4 DEF a
    <2>6. Explained(Append(Append(q, a), b), S, E)
        BY <2>2, <2>3, <2>4, <2>5, ExplainedAppend
    <2> QED  BY <1>4, <2>6 DEF a, b
<1>5. CASE Reject(p) /\ queue'[p] = Append(q, Del(chosen[p]))
    <2> DEFINE b == Del(chosen[p])
    <2>1. chosen[p] \in submitted /\ chosen[p] \in RequestIds
        BY <1>5, ChosenSent DEF Reject
    <2>2. chosen[p] \in rejected'
        BY <1>5 DEF Reject
    <2>3. chosen[p] \in E
        BY <2>1, <2>2 DEF E, Excusable, Excused
    <2>4. b \in Write /\ b.of \in S /\ b.of \in E
        BY <1>1, <2>1, <2>3 DEF Del, Write
    <2> HIDE DEF b
    <2>5. Explained(Append(q, b), S, E)
        BY <1>0, <1>2, <2>4, ExplainedAppend
    <2> QED  BY <1>5, <2>5 DEF b
<1>6. CASE (Commit(p) \/ Refuse(p)) /\ queue'[p] = Tail(q) /\ q # <<>>
    <2>1. ASSUME NEW r \in RequestIds, q[1] = Add(r) PROVE r \in E
        BY <1>6, <2>1, HeadDone DEF E, Excusable
    <2> QED  BY <1>0, <1>2, <1>6, <2>1, ExplainedTail
<1> QED  BY <1>3, <1>4, <1>5, <1>6, QueueSteps

-----------------------------------------------------------------------------
(***************************************************************************)
(* Requests that are gone, and requests that are accepted again.           *)
(***************************************************************************)
\* Only a deletion that is saved takes a request away.
LEMMA RequestsShrink ==
    ASSUME Inv, [Next]_vars, NEW r
    PROVE  /\ r \in submitted' \ submitted => r \in requests'
           /\ r \in requests \ requests' =>
                 \E d \in Devices : Commit(d) /\ queue[d] # <<>> /\ queue[d][1].op = "delete"
                                     /\ queue[d][1].of = r
           /\ r \in submitted \ requests => r \in submitted' \ requests'
<1> USE DEF storeVars, flagVars, screenVars
<1>1. ASSUME NEW d \in Devices, Dashboard(d)
      PROVE  requests' = requests /\ submitted' = submitted
    BY <1>1 DEF Dashboard, OpenDashboard, Kill, RequestsArrive, RequestsFail, Select,
                LeaveDetails, Accept, Reject
<1>2. ASSUME NEW d \in Devices, Commit(d)
      PROVE  /\ submitted' = submitted /\ queue[d] # <<>>
             /\ \/ requests' = requests
                \/ queue[d][1].op = "delete" /\ requests' = requests \ {queue[d][1].of}
    <2>1. queue[d] \in Seq(Write) /\ queue[d] # <<>>
        BY <1>2 DEF Inv, TypeOK, Commit
    <2>2. Head(queue[d]) = queue[d][1] /\ Head(queue[d]) \in Write
        BY <2>1, TailFacts
    <2>3. Head(queue[d]).op \in {"add", "delete"}
        BY <2>2 DEF Write
    <2> QED  BY <1>2, <2>1, <2>2, <2>3 DEF Commit
<1>3. ASSUME NEW d \in Devices, Refuse(d)
      PROVE  requests' = requests /\ submitted' = submitted
    BY <1>3 DEF Refuse
<1>4. ASSUME NEW t \in RequestIds, Submit(t)
      PROVE  /\ t \notin submitted /\ submitted' = submitted \cup {t}
             /\ requests' = requests \cup {t}
    BY <1>4 DEF Submit
<1>5. CASE UNCHANGED vars
    BY <1>5 DEF vars
<1> QED  BY <1>1, <1>2, <1>3, <1>4, <1>5 DEF Next

LEMMA NotLostStep ==
    ASSUME Inv, [Next]_vars
    PROVE  AcceptedNotLost'
<1>0. \A r \in submitted \ requests : Excused(r)
    BY DEF Inv, AcceptedNotLost, Excused, Add
<1>1. \A r : Excused(r) => Excused(r)'
    BY FlagsGrow, ExcusedStays
<1>2. ASSUME NEW r \in submitted' \ requests' PROVE Excused(r)'
    <2>1. CASE r \in submitted \ requests
        BY <1>0, <1>1, <2>1
    <2>2. CASE r \in requests
        <3>1. PICK d \in Devices :
                  Commit(d) /\ queue[d] # <<>> /\ queue[d][1].op = "delete" /\ queue[d][1].of = r
            BY <1>2, <2>2, RequestsShrink
        <3>2. queue[d] \in Seq(Write)
            BY DEF Inv, TypeOK
        <3>3. 1 \in DOMAIN queue[d] /\ \A j \in DOMAIN queue[d] : ~(j < 1)
            <4>1. DOMAIN queue[d] = 1 .. Len(queue[d])
                BY <3>2
            <4>2. 1 \in DOMAIN queue[d]
                BY <3>1, <3>2, TailFacts
            <4> QED  BY <4>1, <4>2
        <3>4. r \in Excusable
            BY <3>1, <3>3 DEF Inv, QueueGood, Explained
        <3> QED  BY <1>1, <3>4 DEF Excusable
    <2>3. CASE r \notin submitted /\ r \notin requests
        BY <1>2, <2>3, RequestsShrink
    <2> QED  BY <2>1, <2>2, <2>3
<1> QED  BY <1>2 DEF AcceptedNotLost, Excused, Add

\* Nothing but an acceptance makes a device accept a request.
LEMMA AcceptedBefore ==
    ASSUME Inv, [Next]_vars, NEW p \in Devices, NEW r \in RequestIds, Accepted(p, r)'
    PROVE  Accepted(p, r) \/ (Accept(p) /\ r = chosen[p])
<1> USE DEF storeVars, flagVars, screenVars
<1>0. queue[p] \in Seq(Write)
    BY DEF Inv, TypeOK
<1>1. CASE [of |-> r, on |-> p] \in communities' \ communities
    <2>1. PICK d \in Devices : Commit(d) /\ communities' # communities
        BY <1>1 DEF Next, vars, Dashboard, OpenDashboard, Kill, RequestsArrive, RequestsFail,
                    Select, LeaveDetails, Accept, Reject, Refuse, Submit
    <2> DEFINE w == Head(queue[d])
    <2>2. queue[d] \in Seq(Write) /\ queue[d] # <<>>
        BY <2>1 DEF Inv, TypeOK, Commit
    <2>3. w = queue[d][1] /\ 1 \in DOMAIN queue[d] /\ w \in Write
        BY <2>2, TailFacts
    <2>4. w.op = "add" /\ communities' = communities \cup {[of |-> w.of, on |-> d]}
        BY <2>1 DEF Commit
    <2> HIDE DEF w
    <2>5. w.of = r /\ d = p
        BY <1>1, <2>4
    <2>6. w = Add(r)
        BY <2>3, <2>4, <2>5 DEF Write, Add
    <2> QED  BY <2>3, <2>5, <2>6 DEF Accepted, Queued
<1>2. CASE Queued(p, Add(r))'
    <2>1. PICK i \in DOMAIN queue'[p] : queue'[p][i] = Add(r)
        BY <1>2 DEF Queued, Add
    <2>2. CASE queue'[p] = queue[p]
        BY <2>1, <2>2 DEF Accepted, Queued
    <2>3. CASE Accept(p) /\ queue'[p] = Append(Append(queue[p], Add(chosen[p])), Del(chosen[p]))
        <3> DEFINE a == Add(chosen[p])
                   b == Del(chosen[p])
        <3>1. chosen[p] \in RequestIds
            BY <2>3, ChosenSent DEF Accept
        <3>2. a \in Write /\ b \in Write /\ b # Add(r) /\ (a = Add(r) => chosen[p] = r)
            BY <3>1 DEF Add, Del, Write
        <3> HIDE DEF a, b
        <3>3. /\ Append(queue[p], a) \in Seq(Write)
              /\ \A k \in DOMAIN Append(queue[p], a) :
                    \/ k \in DOMAIN queue[p] /\ Append(queue[p], a)[k] = queue[p][k]
                    \/ Append(queue[p], a)[k] = a
            BY <1>0, <3>2, AppendFacts
        <3>4. \/ i \in DOMAIN Append(queue[p], a) /\ queue'[p][i] = Append(queue[p], a)[i]
              \/ queue'[p][i] = b
            BY <2>1, <2>3, <3>2, <3>3, AppendFacts DEF a, b
        <3> QED  BY <2>1, <2>3, <3>2, <3>3, <3>4 DEF Accepted, Queued
    <2>4. CASE Reject(p) /\ queue'[p] = Append(queue[p], Del(chosen[p]))
        <3> DEFINE b == Del(chosen[p])
        <3>1. chosen[p] \in RequestIds
            BY <2>4, ChosenSent DEF Reject
        <3>2. b \in Write /\ b # Add(r)
            BY <3>1 DEF Add, Del, Write
        <3> HIDE DEF b
        <3>3. \/ i \in DOMAIN queue[p] /\ queue'[p][i] = queue[p][i]
              \/ queue'[p][i] = b
            BY <1>0, <2>1, <2>4, <3>2, AppendFacts DEF b
        <3> QED  BY <2>1, <3>2, <3>3 DEF Accepted, Queued
    <2>5. CASE queue'[p] = Tail(queue[p]) /\ queue[p] # <<>>
        BY <1>0, <2>1, <2>5, TailFacts DEF Accepted, Queued
    <2> QED  BY <2>2, <2>3, <2>4, <2>5, QueueSteps
<1> QED  BY <1>1, <1>2 DEF Accepted

\* A deletion stays in the queue until it is saved or refused.
LEMMA DeletionStays ==
    ASSUME Inv, [Next]_vars, NEW p \in Devices, NEW r \in RequestIds, Queued(p, Del(r))
    PROVE  Queued(p, Del(r))' \/ r \in submitted' \ requests' \/ <<p, Del(r)>> \in refused'
<1>0. queue[p] \in Seq(Write)
    BY DEF Inv, TypeOK
<1>1. PICK i \in DOMAIN queue[p] : queue[p][i] = Del(r)
    BY DEF Queued
<1>2. ASSUME NEW i2 \in DOMAIN queue'[p], queue'[p][i2] = Del(r)
      PROVE  Queued(p, Del(r))'
    BY <1>2 DEF Queued, Del
<1>3. CASE queue'[p] = queue[p]
    BY <1>1, <1>2, <1>3
<1>4. CASE Accept(p) /\ queue'[p] = Append(Append(queue[p], Add(chosen[p])), Del(chosen[p]))
    <2>1. Add(chosen[p]) \in Write /\ Del(chosen[p]) \in Write
        BY <1>4, ChosenSent DEF Accept, Add, Del, Write
    <2>2. /\ i \in DOMAIN Append(queue[p], Add(chosen[p]))
          /\ Append(queue[p], Add(chosen[p]))[i] = queue[p][i]
          /\ Append(queue[p], Add(chosen[p])) \in Seq(Write)
        BY <1>0, <2>1, AppendFacts
    <2>3. i \in DOMAIN queue'[p] /\ queue'[p][i] = queue[p][i]
        BY <1>4, <2>1, <2>2, AppendFacts
    <2> QED  BY <1>1, <1>2, <2>3
<1>5. CASE Reject(p) /\ queue'[p] = Append(queue[p], Del(chosen[p]))
    <2>1. Del(chosen[p]) \in Write
        BY <1>5, ChosenSent DEF Reject, Del, Write
    <2>2. i \in DOMAIN queue'[p] /\ queue'[p][i] = queue[p][i]
        BY <1>0, <1>5, <2>1, AppendFacts
    <2> QED  BY <1>1, <1>2, <2>2
<1>6. CASE (Commit(p) \/ Refuse(p)) /\ queue'[p] = Tail(queue[p]) /\ queue[p] # <<>>
    <2>1. CASE i = 1
        <3>1. Del(r).of = r
            BY DEF Del
        <3>2. r \in submitted
            BY <1>1, <3>1 DEF Inv, QueueGood, Explained
        <3> QED  BY <1>1, <1>6, <2>1, <3>2, HeadDone, FlagsGrow
    <2>2. CASE i # 1
        <3>1. i - 1 \in DOMAIN queue'[p] /\ queue'[p][i - 1] = queue[p][i]
            BY <1>0, <1>6, <2>2, TailFacts
        <3> QED  BY <1>1, <1>2, <3>1
    <2> QED  BY <2>1, <2>2
<1> QED  BY <1>3, <1>4, <1>5, <1>6, QueueSteps

\* A row is there already, or a query has found it.
LEMMA RowsBefore ==
    ASSUME Inv, [Next]_vars, NEW p \in Devices, NEW i \in DOMAIN rows'[p]
    PROVE  \/ \E j \in DOMAIN rows[p] : rows[p][j] = rows'[p][i]
           \/ /\ RequestsArrive(p)
              /\ rows'[p][i] \in requests /\ ~Queued(p, Del(rows'[p][i]))
<1> USE DEF storeVars, flagVars, screenVars
<1>0. TypeOK /\ RowsGood(p)
    BY DEF Inv
<1>1. CASE rows'[p] = rows[p]
    BY <1>1
<1>2. ASSUME NEW d \in Devices, Accept(d) \/ Reject(d)
      PROVE  rows'[p] = rows[p] \/ rows'[p] = <<>>
    BY <1>0, <1>2, DelAtRows DEF Accept, Reject
<1>3. ASSUME NEW d \in Devices, Kill(d)
      PROVE  rows'[p] = rows[p] \/ rows'[p] = <<>>
    BY <1>0, <1>3 DEF Kill, TypeOK
<1>4. ASSUME NEW d \in Devices, RequestsArrive(d), rows'[p] # rows[p]
      PROVE  rows'[p][i] \in requests /\ ~Queued(p, Del(rows'[p][i])) /\ p = d
    BY <1>4, ReplyRows
<1>5. ASSUME NEW d \in Devices, Dashboard(d) PROVE RequestsArrive(d) \/ rows' = rows
                                                  \/ Kill(d) \/ Accept(d) \/ Reject(d)
    BY <1>5 DEF Dashboard, OpenDashboard, RequestsFail, Select, LeaveDetails
<1>6. ASSUME NEW d \in Devices, Commit(d) \/ Refuse(d) PROVE rows' = rows
    BY <1>6 DEF Commit, Refuse
<1>7. ASSUME NEW r \in RequestIds, Submit(r) PROVE rows' = rows
    BY <1>7 DEF Submit
<1>8. CASE UNCHANGED vars
    BY <1>1, <1>8 DEF vars
<1> QED  BY <1>1, <1>2, <1>3, <1>4, <1>5, <1>6, <1>7, <1>8 DEF Next

LEMMA AcceptedStep ==
    ASSUME Inv, [Next]_vars, NEW p \in Devices
    PROVE  AcceptedGood(p)'
<1> SUFFICES ASSUME NEW r \in RequestIds, Accepted(p, r)', <<p, Del(r)>> \notin refused'
             PROVE  Hidden(p, r)'
    BY DEF AcceptedGood, Del
<1>0. TypeOK /\ RowsGood(p)
    BY DEF Inv
<1>1. CASE Accept(p) /\ r = chosen[p]
    <2>1. rows'[p] = <<>>
        BY <1>0, <1>1 DEF Accept, DelAt, Emptied, TypeOK
    <2>2. queue'[p] = queue[p] \o <<Add(r), Del(r)>> /\ queue[p] \in Seq(Write)
        BY <1>0, <1>1 DEF Accept, Acceptance, Add, Del, TypeOK
    <2>3. Add(r) \in Write /\ Del(r) \in Write
        BY DEF Add, Del, Write
    <2>4. /\ queue'[p] = Append(Append(queue[p], Add(r)), Del(r))
          /\ Append(queue[p], Add(r)) \in Seq(Write)
        BY <2>2, <2>3, PairAppended, AppendFacts
    <2> DEFINE x == Append(queue[p], Add(r))
    <2>5. \E i \in DOMAIN queue'[p] : queue'[p][i] = Del(r)
        <3> HIDE DEF x
        <3>1. x \in Seq(Write) /\ queue'[p] = Append(x, Del(r))
            BY <2>4 DEF x
        <3>2. Len(x) + 1 \in DOMAIN queue'[p] /\ queue'[p][Len(x) + 1] = Del(r)
            BY <2>3, <3>1, AppendFacts
        <3> QED  BY <3>2
    <2> QED  BY <2>1, <2>5 DEF Hidden, Queued, Del
<1>2. CASE Accepted(p, r)
    <2>1. Hidden(p, r)
        BY <1>2, FlagsGrow DEF Inv, AcceptedGood
    <2>2. Queued(p, Del(r))' \/ r \in submitted' \ requests'
        BY <2>1, DeletionStays, RequestsShrink DEF Hidden
    <2>3. \A i \in DOMAIN rows'[p] : rows'[p][i] # r
        BY <2>1, RowsBefore DEF Hidden
    <2> QED  BY <2>2, <2>3 DEF Hidden, Del
<1> QED  BY <1>1, <1>2, AcceptedBefore

LEMMA OnceStep ==
    ASSUME Inv, [Next]_vars
    PROVE  AcceptedOnce'
<1> USE DEF storeVars, flagVars, screenVars
<1>1. ASSUME NEW d \in Devices, Accept(d), NEW c \in twice' \ twice
      PROVE  <<c.on, [op |-> "delete", of |-> c.of]>> \in refused
    <2> DEFINE r == chosen[d]
    <2>1. /\ c = [of |-> r, on |-> d]
          /\ \/ [op |-> "add", of |-> r] \in Range(queue[d])
             \/ [of |-> r, on |-> d] \in communities
        BY <1>1 DEF Accept
    <2>2. r \in RequestIds /\ \E i \in DOMAIN rows[d] : rows[d][i] = r
        BY <1>1, ChosenSent DEF Accept
    <2>3. Accepted(d, r)
        BY <2>1 DEF Accepted, Queued, Add, Range
    <2>4. ~Hidden(d, r)
        BY <2>2 DEF Hidden
    <2> QED  BY <2>1, <2>2, <2>3, <2>4 DEF Inv, AcceptedGood, Del
<1>2. ASSUME ~(\E d \in Devices : Accept(d)) PROVE twice' = twice
    BY <1>2 DEF Next, vars, Dashboard, OpenDashboard, Kill, RequestsArrive, RequestsFail,
                Select, LeaveDetails, Reject, Commit, Refuse, Submit
<1> QED  BY <1>1, <1>2, FlagsGrow DEF Inv, AcceptedOnce

-----------------------------------------------------------------------------
LEMMA InvInit == Init => Inv
<1> SUFFICES ASSUME Init PROVE Inv
    OBVIOUS
<1>1. TypeOK
    BY DEF Init, TypeOK, Pages
<1>2. AcceptedNotLost /\ AcceptedOnce
    BY DEF Init, AcceptedNotLost, AcceptedOnce
<1>3. ASSUME NEW d \in Devices PROVE RowsGood(d) /\ QueueGood(d) /\ AcceptedGood(d)
    BY DEF Init, RowsGood, QueueGood, Explained, AcceptedGood, Accepted, Queued
<1> QED  BY <1>1, <1>2, <1>3 DEF Inv

LEMMA InvStep == Inv /\ [Next]_vars => Inv'
BY NextType, NotLostStep, OnceStep, RowsStep, QueueStep, AcceptedStep DEF Inv

LEMMA AlwaysInv == Spec => []Inv
BY InvInit, InvStep, PTL DEF Spec

\* The variables of the dashboards, of the queues and of the store keep their
\* types, for any number of devices and requests.
THEOREM RequestTypeCorrect == Spec => []TypeOK
<1>1. Inv => TypeOK
    BY DEF Inv
<1> QED  BY <1>1, AlwaysInv, PTL

\* A request is gone only if it was rejected, or its community is saved or was
\* refused: a device's queue keeps the addition before the deletion, whatever
\* ends the application (accept, lines 27-47).
THEOREM AcceptedAreNotLost == Spec => []AcceptedNotLost
<1>1. Inv => AcceptedNotLost
    BY DEF Inv
<1> QED  BY <1>1, AlwaysInv, PTL

\* A device accepts a request twice only after the server has refused to delete
\* it: its queries do not find what it is about to delete (loadCommunities).
THEOREM DevicesAcceptOnce == Spec => []AcceptedOnce
<1>1. Inv => AcceptedOnce
    BY DEF Inv
<1> QED  BY <1>1, AlwaysInv, PTL

\* The index that is handed to the details still leads delAt to the row that
\* was touched, and no request has two rows (AdminDashboard, line 113).
THEOREM RowsStayInPlace == Spec => []RowsStay
<1>1. Inv => RowsStay
    BY DEF Inv, RowsGood, RowsStay, IsInjective
<1> QED  BY <1>1, AlwaysInv, PTL
=============================================================================
