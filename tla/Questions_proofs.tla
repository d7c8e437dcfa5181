--------------------------- MODULE Questions_proofs ---------------------------
(***************************************************************************)
(* What holds of Questions for any members, titles, questions and answers: *)
(* the types, that an answer is saved under the title it was written for,  *)
(* that no question is asked again which the server had when Post was      *)
(* touched, and that the asker finds the question in the list.             *)
(***************************************************************************)
EXTENDS Questions, Integers, WellFoundedInduction, TLAPS

-----------------------------------------------------------------------------
(***************************************************************************)
(* Loads and the dictionary.                                               *)
(***************************************************************************)
LEMMA ReloadType ==
    ASSUME TypeOK, NEW m \in Members, Reload(m)
    PROVE  /\ list' \in [Members -> SUBSET Question]
           /\ ids' = ids /\ blocks' = blocks
           /\ loading' \in [Members -> Nat]
           /\ \A p \in Members : loading'[p] + Len(blocks'[p]) <= MaxLoads[p]
           /\ missed' \in [Members -> BOOLEAN]
<1>1. /\ list' = [list EXCEPT ![m] = {}] /\ loading' = [loading EXCEPT ![m] = @ + 1]
      /\ missed' = [missed EXCEPT ![m] = FALSE] /\ ids' = ids /\ blocks' = blocks
      /\ loading[m] + Len(blocks[m]) < MaxLoads[m]
    BY DEF Reload
<1>2. MaxLoads[m] \in Nat /\ Len(blocks[m]) \in Nat
    BY QuestionAssumption DEF TypeOK
<1>3. ASSUME NEW p \in Members
      PROVE  loading'[p] + Len(blocks'[p]) <= MaxLoads[p]
    <2>1. CASE p = m
        BY <1>1, <1>2, <2>1 DEF TypeOK
    <2>2. CASE p # m
        BY <1>1, <2>2 DEF TypeOK
    <2> QED  BY <2>1, <2>2
<1> QED  BY <1>1, <1>3 DEF TypeOK

\* A set of naturals that is not empty has a least element.
LEMMA LeastNatural ==
    ASSUME NEW S, S \subseteq Nat, S # {}
    PROVE  \E x \in S : \A y \in S : x =< y
<1> DEFINE Less == {p \in Nat \X Nat : p[1] < p[2]}
<1>1. IsWellFoundedOn(Less, Nat)
    BY NatLessThanWellFounded DEF OpToRel
<1>2. \A x, y \in Nat : <<y, x>> \notin Less => x =< y
    OBVIOUS
<1> HIDE DEF Less
<1>3. \E x \in S : \A y \in S : ~(<<y, x>> \in Less)
    BY <1>1, WFMin, Zenon
<1> QED  BY <1>2, <1>3

LEMMA OldestIsFound ==
    ASSUME NEW S \in SUBSET Question, S # {}
    PROVE  Oldest(S) \in S
<1> DEFINE N == {q.id : q \in S}
<1>1. \A q \in S : q.id \in Nat
    BY QuestionAssumption DEF Question
<1>2. N \subseteq Nat /\ N # {}
    <2>1. PICK q \in S : TRUE
        OBVIOUS
    <2>2. q.id \in N
        BY <2>1
    <2>3. N \subseteq Nat
        BY <1>1
    <2> QED  BY <2>2, <2>3
<1>3. PICK n \in N : \A y \in N : n =< y
    <2> HIDE DEF N
    <2> QED  BY <1>2, LeastNatural
<1>4. PICK q \in S : q.id = n
    BY <1>3
<1>5. \A p \in S : q.id =< p.id
    BY <1>3, <1>4
<1> QED  BY <1>4, <1>5 DEF Oldest

\* The questions of the title in the member's community.
Right(m, t) == {q \in Question : q.title = t /\ q.com = At[m]}

\* A question the member's screen may show.
Good(m, q) ==
    /\ q \in Question /\ q.com = At[m]
    /\ m \in Readers => ids[m][q.title] \in Right(m, q.title)

LEMMA VisibleType ==
    ASSUME TypeOK, NEW m \in Members
    PROVE  Visible(m) \subseteq Question /\ OfCommunity(m, Visible(m)) \subseteq Question
BY DEF TypeOK, Visible, Own, OfCommunity

\* A reply leaves or finds an entry, and finds one for every title it brings.
LEMMA DictionaryIsRight ==
    ASSUME TypeOK, NEW m \in Members, NEW t \in Titles
    PROVE  /\ IdsFound(m)[t] = ids[m][t] \/ IdsFound(m)[t] \in Right(m, t)
           /\ OfTitle(t, OfCommunity(m, Visible(m))) # {} => IdsFound(m)[t] \in Right(m, t)
<1> DEFINE F == OfTitle(t, OfCommunity(m, Visible(m)))
<1>1. F \subseteq Right(m, t)
    BY VisibleType DEF OfTitle, OfCommunity, Right
<1>2. F \subseteq Question
    BY <1>1 DEF Right
<1>3. IdsFound(m)[t] = IF F = {} THEN ids[m][t] ELSE Oldest(F)
    BY DEF IdsFound
<1> HIDE DEF F
<1>4. CASE F = {}
    BY <1>3, <1>4 DEF F
<1>5. CASE F # {}
    BY <1>1, <1>2, <1>3, <1>5, OldestIsFound DEF F
<1> QED  BY <1>4, <1>5

LEMMA DictionaryType ==
    ASSUME TypeOK, NEW m \in Members
    PROVE  IdsFound(m) \in [Titles -> Question \cup {NoQuestion}]
<1>1. ASSUME NEW t \in Titles PROVE IdsFound(m)[t] \in Question \cup {NoQuestion}
    BY DictionaryIsRight DEF TypeOK, Right
<1> QED  BY <1>1 DEF IdsFound

-----------------------------------------------------------------------------
(***************************************************************************)
(* The rows on display, or about to be, have an entry in the dictionary of *)
(* their title, and the details are opened with such an entry.             *)
(***************************************************************************)
ListGood(m) ==
    /\ \A q \in list[m] : Good(m, q)
    /\ \A i \in DOMAIN blocks[m] : \A q \in blocks[m][i] : Good(m, q)

DetailGood(m) ==
    page[m] = "detail" =>
        opened[m] \in Question /\ opened[m].com = At[m]
            /\ target[m] \in Right(m, opened[m].title)

Safe == TypeOK /\ \A m \in Members : ListGood(m) /\ DetailGood(m)

\* Post adds a draft whose question is late only if the server has the title
\* and no answer is on its way.
LEMMA PostedQuestion ==
    ASSUME TypeOK, NEW m \in Members, NEW i \in QuestionIds, NEW t \in Titles, Post(m, i, t)
    PROVE  \E q \in Question :
               /\ drafts' = drafts \cup {[question |-> q, step |-> "query"]}
               /\ q.title = t /\ q.by = m
               /\ q.late => /\ OfTitle(t, OfCommunity(m, questions)) # {}
                            /\ Replying(m, t) = {}
<1> DEFINE late == /\ OfTitle(t, OfCommunity(m, questions)) # {}
                   /\ Replying(m, t) = {}
<1> DEFINE q == [id |-> i, title |-> t, com |-> At[m], by |-> m, late |-> late]
<1>1. drafts' = drafts \cup {[question |-> q, step |-> "query"]}
    BY DEF Post
<1>2. late \in BOOLEAN
    OBVIOUS
<1>3. q.late => late
    <2>1. q.late = late
        OBVIOUS
    <2> HIDE DEF q, late
    <2> QED  BY <2>1
<1> HIDE DEF late
<1>4. q \in Question /\ q.title = t /\ q.by = m
    BY <1>2, QuestionAssumption DEF Question
<1> HIDE DEF q
<1> QED  BY <1>1, <1>3, <1>4 DEF late

LEMMA RepliesType ==
    ASSUME TypeOK, NEW m \in Members, Replies(m)
    PROVE  TypeOK'
<1> USE DEF storeVars, postVars, listVars, detailVars
<1>1. CASE QuestionsArrive(m)
    <2>1. /\ loading' = [loading EXCEPT ![m] = @ - 1] /\ loading[m] > 0
          /\ blocks' = [blocks EXCEPT ![m] = Append(@, OfCommunity(m, Visible(m)))]
          /\ ids' = IF m \in Readers THEN [ids EXCEPT ![m] = IdsFound(m)] ELSE ids
        BY <1>1 DEF QuestionsArrive
    <2>2. ids' \in [Members -> [Titles -> Question \cup {NoQuestion}]]
        BY <2>1, DictionaryType DEF TypeOK
    <2>3. /\ loading' \in [Members -> Nat]
          /\ blocks' \in [Members -> Seq(SUBSET Question)]
          /\ Len(blocks'[m]) = Len(blocks[m]) + 1
        BY <2>1, VisibleType DEF TypeOK
    <2>4. ASSUME NEW p \in Members
          PROVE  loading'[p] + Len(blocks'[p]) <= MaxLoads[p]
        <3>1. CASE p = m
            <4>1. loading[m] \in Nat /\ Len(blocks[m]) \in Nat /\ MaxLoads[m] \in Nat
                BY QuestionAssumption DEF TypeOK
            <4>2. loading'[m] = loading[m] - 1
                BY <2>1 DEF TypeOK
            <4> QED  BY <2>3, <3>1, <4>1, <4>2 DEF TypeOK
        <3>2. CASE p # m
            BY <2>1, <3>2 DEF TypeOK
        <3> QED  BY <3>1, <3>2
    <2> QED  BY <1>1, <2>2, <2>3, <2>4 DEF QuestionsArrive, TypeOK
<1>2. CASE QuestionsFail(m)
    <2>1. /\ loading' = [loading EXCEPT ![m] = @ - 1] /\ loading[m] > 0
          /\ missed' = [missed EXCEPT ![m] = TRUE] /\ blocks' = blocks
        BY <1>2 DEF QuestionsFail
    <2>2. ASSUME NEW p \in Members
          PROVE  loading'[p] + Len(blocks'[p]) <= MaxLoads[p]
        <3>1. CASE p = m
            <4>1. loading[m] \in Nat /\ Len(blocks[m]) \in Nat /\ MaxLoads[m] \in Nat
                BY QuestionAssumption DEF TypeOK
            <4>2. loading'[m] = loading[m] - 1
                BY <2>1 DEF TypeOK
            <4> QED  BY <2>1, <3>1, <4>1, <4>2 DEF TypeOK
        <3>2. CASE p # m
            BY <2>1, <3>2 DEF TypeOK
        <3> QED  BY <3>1, <3>2
    <2>3. loading' \in [Members -> Nat] /\ missed' \in [Members -> BOOLEAN]
        BY <2>1 DEF TypeOK
    <2> QED  BY <1>2, <2>1, <2>2, <2>3 DEF QuestionsFail, TypeOK
<1>3. CASE ShowQuestions(m)
    <2>1. /\ blocks[m] # <<>> /\ list' = [list EXCEPT ![m] = Head(blocks[m])]
          /\ blocks' = [blocks EXCEPT ![m] = Tail(@)] /\ loading' = loading
        BY <1>3 DEF ShowQuestions
    <2>2. /\ list' \in [Members -> SUBSET Question]
          /\ blocks' \in [Members -> Seq(SUBSET Question)]
          /\ Len(blocks'[m]) = Len(blocks[m]) - 1
        BY <2>1 DEF TypeOK
    <2>3. ASSUME NEW p \in Members
          PROVE  loading'[p] + Len(blocks'[p]) <= MaxLoads[p]
        <3>1. CASE p = m
            <4>1. loading[m] \in Nat /\ Len(blocks[m]) \in Nat /\ MaxLoads[m] \in Nat
                BY QuestionAssumption DEF TypeOK
            <4> QED  BY <2>1, <2>2, <3>1, <4>1 DEF TypeOK
        <3>2. CASE p # m
            BY <2>1, <3>2 DEF TypeOK
        <3> QED  BY <3>1, <3>2
    <2> QED  BY <1>3, <2>2, <2>3 DEF ShowQuestions, TypeOK
<1>4. CASE AnswersArrive(m)
    <2>1. Reload(m)
        BY <1>4 DEF AnswersArrive
    <2>2. waiting' \in [Members -> BOOLEAN]
        BY <1>4 DEF AnswersArrive, TypeOK
    <2> QED  BY <1>4, <2>1, <2>2, ReloadType DEF AnswersArrive, TypeOK
<1>5. CASE AnswersFail(m)
    BY <1>5 DEF AnswersFail, TypeOK
<1> QED  BY <1>1, <1>2, <1>3, <1>4, <1>5 DEF Replies

LEMMA TouchesType ==
    ASSUME Safe, NEW m \in Members, Touches(m)
    PROVE  TypeOK'
<1> USE DEF storeVars, postVars, listVars, detailVars
<1>0. TypeOK
    BY DEF Safe
<1>1. CASE OpenCommunity(m)
    <2>1. Reload(m) /\ page' \in [Members -> Pages]
        BY <1>0, <1>1 DEF OpenCommunity, TypeOK, Pages
    <2> QED  BY <1>0, <1>1, <2>1, ReloadType DEF OpenCommunity, TypeOK
<1>2. CASE LeaveCommunity(m)
    <2>1. /\ page' \in [Members -> Pages] /\ list' \in [Members -> SUBSET Question]
          /\ missed' \in [Members -> BOOLEAN]
        BY <1>0, <1>2 DEF LeaveCommunity, TypeOK, Pages
    <2>2. ids' \in [Members -> [Titles -> Question \cup {NoQuestion}]]
        BY <1>0, <1>2 DEF LeaveCommunity, TypeOK
    <2> QED  BY <1>0, <1>2, <2>1, <2>2 DEF LeaveCommunity, TypeOK
<1>3. CASE LeaveDetail(m)
    BY <1>0, <1>3 DEF LeaveDetail, TypeOK, Pages
<1>4. CASE \E i \in QuestionIds, t \in Titles : Post(m, i, t)
    <2>1. PICK q \in Question : drafts' = drafts \cup {[question |-> q, step |-> "query"]}
        BY <1>0, <1>4, PostedQuestion
    <2>2. drafts' \subseteq Draft
        BY <1>0, <2>1 DEF Draft, TypeOK
    <2> QED  BY <1>0, <1>4, <2>2 DEF Post, TypeOK
<1>5. CASE m \in Readers /\ \E q \in list[m] : Select(m, q)
    <2>1. PICK q \in list[m] : Select(m, q)
        BY <1>5
    <2>2. Good(m, q) /\ m \in Readers
        BY <1>5 DEF Safe, ListGood
    <2>3. q \in Question /\ Target(m, q) \in Question
        BY <2>2 DEF Good, Right, Target
    <2>4. /\ Reload(m) /\ page' \in [Members -> Pages]
          /\ opened' \in [Members -> Question \cup {NoQuestion}]
          /\ target' \in [Members -> Question \cup {NoQuestion}]
          /\ waiting' \in [Members -> BOOLEAN]
        BY <1>0, <2>1, <2>3 DEF Select, TypeOK, Pages
    <2> QED  BY <1>0, <2>1, <2>4, ReloadType DEF Select, TypeOK
<1>6. CASE \E i \in AnswerIds : PostAnswer(m, i)
    <2>1. PICK i \in AnswerIds : PostAnswer(m, i)
        BY <1>6
    <2>2. opened[m] \in Question /\ target[m] \in Question
        BY <2>1 DEF PostAnswer, Safe, DetailGood, Right
    <2>3. [id |-> i, doc |-> target[m], on |-> opened[m], by |-> m] \in Answer
        BY <2>2 DEF Answer
    <2> QED  BY <1>0, <2>1, <2>3 DEF PostAnswer, TypeOK
<1> QED  BY <1>1, <1>2, <1>3, <1>4, <1>5, <1>6 DEF Touches

LEMMA ChecksType ==
    ASSUME TypeOK, Checks
    PROVE  TypeOK'
<1> USE DEF storeVars, listVars, detailVars
<1>1. ASSUME NEW m \in Members, NEW t \in Titles, ServerAnswers(m, t) PROVE TypeOK'
    <2> DEFINE hit == OfTitle(t, OfCommunity(m, questions)) # {}
    <2>1. answered' = answered \cup {[by |-> m, title |-> t, hit |-> hit]}
        BY <1>1 DEF ServerAnswers
    <2>2. hit \in BOOLEAN
        OBVIOUS
    <2> HIDE DEF hit
    <2>3. answered' \subseteq Reply
        BY <2>1, <2>2 DEF TypeOK, Reply
    <2> QED  BY <1>1, <2>3 DEF ServerAnswers, TypeOK
<1>2. ASSUME NEW m \in Members, NEW t \in Titles, CheckFails(m, t) PROVE TypeOK'
    <2>1. drafts' \subseteq Draft /\ answered' \subseteq Reply
        BY <1>2 DEF CheckFails, TypeOK
    <2> QED  BY <1>2, <2>1 DEF CheckFails, TypeOK
<1>3. ASSUME NEW r \in answered, CheckAnswered(r) PROVE TypeOK'
    <2>1. \A d \in Asking(r.by, r.title) : d \in Draft
        BY DEF Asking, TypeOK
    <2>2. drafts' \subseteq Draft /\ answered' \subseteq Reply
        BY <1>3, <2>1 DEF CheckAnswered, TypeOK, Draft
    <2> QED  BY <1>3, <2>2 DEF CheckAnswered, TypeOK
<1>4. ASSUME NEW d \in drafts, CheckArrives(d) PROVE TypeOK'
    <2>0. d \in Draft /\ d.question \in Question /\ d.question.by \in Members
        BY DEF TypeOK, Draft, Question
    <2>1. CASE d.step = "free"
        <3>1. Reload(d.question.by) /\ adding' = adding \cup {d.question}
            BY <1>4, <2>1 DEF CheckArrives
        <3> QED  BY <2>0, <1>4, <3>1, ReloadType DEF CheckArrives, TypeOK
    <2>2. CASE d.step # "free"
        BY <1>4, <2>2 DEF CheckArrives, TypeOK
    <2> QED  BY <2>1, <2>2
<1> QED  BY <1>1, <1>2, <1>3, <1>4 DEF Checks

LEMMA CommitsType == ASSUME TypeOK, Commits PROVE TypeOK'
<1> USE DEF storeVars, postVars, listVars, detailVars
<1>1. CASE \E q \in adding : CommitQuestion(q) \/ RefuseQuestion(q)
    BY <1>1 DEF CommitQuestion, RefuseQuestion, TypeOK
<1>2. CASE \E a \in sending : CommitAnswer(a) \/ RefuseAnswer(a)
    <2>1. PICK a \in sending : CommitAnswer(a) \/ RefuseAnswer(a)
        BY <1>2
    <2>2. CASE CommitAnswer(a)
        <3>1. a.by \in Members /\ Reload(a.by)
            BY <2>2 DEF TypeOK, Answer, CommitAnswer
        <3> QED  BY <2>2, <3>1, ReloadType DEF CommitAnswer, TypeOK
    <2>3. CASE RefuseAnswer(a)
        BY <2>3 DEF RefuseAnswer, TypeOK
    <2> QED  BY <2>1, <2>2, <2>3
<1> QED  BY <1>1, <1>2 DEF Commits

LEMMA NextType == ASSUME Safe, [Next]_vars PROVE TypeOK'
<1>0. TypeOK
    BY DEF Safe
<1>1. CASE \E m \in Members : Replies(m) \/ Touches(m)
    BY <1>0, <1>1, RepliesType, TouchesType
<1>2. CASE Checks
    BY <1>0, <1>2, ChecksType
<1>3. CASE Commits
    BY <1>0, <1>3, CommitsType
<1>4. CASE UNCHANGED vars
    BY <1>0, <1>4 DEF TypeOK, vars, storeVars, postVars, listVars, detailVars
<1> QED  BY <1>1, <1>2, <1>3, <1>4 DEF Next

\* A row stays good while the entries of the dictionary stay or become right.
LEMMA GoodStays ==
    ASSUME NEW m, NEW q, Good(m, q),
           ids'[m][q.title] = ids[m][q.title] \/ ids'[m][q.title] \in Right(m, q.title)
    PROVE  Good(m, q)'
BY DEF Good, Right

LEMMA ListStays ==
    ASSUME NEW m \in Members, ListGood(m),
           list'[m] \subseteq list[m], blocks'[m] = blocks[m], ids'[m] = ids[m]
    PROVE  ListGood(m)'
BY GoodStays DEF ListGood

LEMMA DetailStays ==
    ASSUME NEW m \in Members, DetailGood(m),
           \/ page'[m] # "detail"
           \/ page'[m] = page[m] /\ opened'[m] = opened[m] /\ target'[m] = target[m]
    PROVE  DetailGood(m)'
BY DEF DetailGood, Right

LEMMA ReloadShows ==
    ASSUME TypeOK, NEW m \in Members, Reload(m), NEW p \in Members
    PROVE  list'[p] \subseteq list[p] /\ blocks'[p] = blocks[p] /\ ids'[p] = ids[p]
BY DEF Reload, TypeOK

LEMMA ArrivedGood ==
    ASSUME Safe, NEW m \in Members, QuestionsArrive(m), NEW p \in Members
    PROVE  ListGood(p)'
<1> USE DEF listVars
<1>0. TypeOK /\ ListGood(p)
    BY DEF Safe
<1>1. CASE p # m
    BY <1>0, <1>1, ListStays DEF QuestionsArrive, TypeOK
<1>2. CASE p = m
    <2> DEFINE F == OfCommunity(m, Visible(m))
    <2>1. /\ list' = list /\ blocks'[m] = Append(blocks[m], F)
          /\ blocks[m] \in Seq(SUBSET Question) /\ F \in SUBSET Question
        BY <1>0, VisibleType DEF QuestionsArrive, TypeOK
    <2>2. ids'[m] = IF m \in Readers THEN IdsFound(m) ELSE ids[m]
        BY <1>0 DEF QuestionsArrive, TypeOK
    <2>3. ASSUME NEW q, Good(m, q) PROVE Good(m, q)'
        <3>1. q.title \in Titles
            BY <2>3 DEF Good, Question
        <3> QED  BY <1>0, <2>2, <2>3, <3>1, DictionaryIsRight, GoodStays
    <2>4. ASSUME NEW q \in F PROVE Good(m, q)'
        <3>1. q \in Question /\ q.com = At[m] /\ q.title \in Titles
            BY <2>1 DEF OfCommunity, Question
        <3>2. OfTitle(q.title, F) # {}
            BY DEF OfTitle
        <3>3. m \in Readers => ids'[m][q.title] \in Right(m, q.title)
            BY <1>0, <2>2, <3>1, <3>2, DictionaryIsRight
        <3> QED  BY <3>1, <3>3 DEF Good, Right
    <2> HIDE DEF F
    <2>5. ASSUME NEW i \in DOMAIN blocks'[m]
          PROVE  blocks'[m][i] = F \/ (i \in DOMAIN blocks[m] /\ blocks'[m][i] = blocks[m][i])
        BY <2>1, <2>5
    <2>6. \A q \in list'[m] : Good(m, q)'
        BY <1>0, <1>2, <2>1, <2>3 DEF ListGood
    <2>7. \A i \in DOMAIN blocks'[m] : \A q \in blocks'[m][i] : Good(m, q)'
        BY <1>0, <1>2, <2>3, <2>4, <2>5 DEF ListGood
    <2> QED  BY <1>2, <2>6, <2>7 DEF ListGood
<1> QED  BY <1>1, <1>2

LEMMA ShownGood ==
    ASSUME Safe, NEW m \in Members, ShowQuestions(m), NEW p \in Members
    PROVE  ListGood(p)'
<1>0. TypeOK /\ ListGood(p)
    BY DEF Safe
<1>1. CASE p # m
    BY <1>0, <1>1, ListStays DEF ShowQuestions, TypeOK
<1>2. CASE p = m
    <2>1. /\ list'[m] = blocks[m][1] /\ blocks'[m] = Tail(blocks[m]) /\ ids' = ids
          /\ blocks[m] \in Seq(SUBSET Question) /\ blocks[m] # <<>>
        BY <1>0 DEF ShowQuestions, TypeOK
    <2>2. \A q : Good(m, q) => Good(m, q)'
        BY <2>1 DEF Good, Right
    <2>3. 1 \in DOMAIN blocks[m]
        BY <2>1
    <2>4. ASSUME NEW i \in DOMAIN blocks'[m]
          PROVE  i + 1 \in DOMAIN blocks[m] /\ blocks'[m][i] = blocks[m][i + 1]
        BY <2>1, <2>4
    <2> QED  BY <1>0, <1>2, <2>1, <2>2, <2>3, <2>4 DEF ListGood
<1> QED  BY <1>1, <1>2

LEMMA MemberGood ==
    ASSUME Safe, NEW m \in Members, Replies(m) \/ Touches(m), NEW p \in Members
    PROVE  ListGood(p)' /\ DetailGood(p)'
<1> USE DEF storeVars, postVars, listVars, detailVars
<1>0. TypeOK /\ ListGood(p) /\ DetailGood(p)
    BY DEF Safe
<1>1. CASE QuestionsArrive(m)
    BY <1>0, <1>1, ArrivedGood, DetailStays DEF QuestionsArrive
<1>2. CASE ShowQuestions(m)
    BY <1>0, <1>2, ShownGood, DetailStays DEF ShowQuestions
<1>3. CASE QuestionsFail(m)
    BY <1>0, <1>3, ListStays, DetailStays DEF QuestionsFail
<1>4. CASE AnswersArrive(m)
    BY <1>0, <1>4, ReloadShows, ListStays, DetailStays DEF AnswersArrive
<1>5. CASE AnswersFail(m)
    BY <1>0, <1>5, ListStays, DetailStays DEF AnswersFail
<1>6. CASE OpenCommunity(m)
    <2>1. page'[p] # "detail" \/ page'[p] = page[p]
        BY <1>0, <1>6 DEF OpenCommunity, TypeOK
    <2> QED  BY <1>0, <1>6, <2>1, ReloadShows, ListStays, DetailStays DEF OpenCommunity
<1>7. CASE LeaveCommunity(m)
    <2>1. page'[p] # "detail" \/ page'[p] = page[p]
        BY <1>0, <1>7 DEF LeaveCommunity, TypeOK
    <2>2. DetailGood(p)'
        BY <1>0, <1>7, <2>1, DetailStays DEF LeaveCommunity
    <2>3. CASE p # m
        BY <1>0, <1>7, <2>2, <2>3, ListStays DEF LeaveCommunity, TypeOK
    <2>4. CASE p = m
        <3>1. list'[m] = {} /\ blocks'[m] = <<>>
            BY <1>0, <1>7 DEF LeaveCommunity, TypeOK
        <3> QED  BY <2>2, <2>4, <3>1 DEF ListGood
    <2> QED  BY <2>3, <2>4
<1>8. CASE LeaveDetail(m)
    <2>1. \/ page'[p] # "detail"
          \/ page'[p] = page[p] /\ opened'[p] = opened[p] /\ target'[p] = target[p]
        BY <1>0, <1>8 DEF LeaveDetail, TypeOK
    <2>2. DetailGood(p)'
        BY <1>0, <2>1 DEF DetailGood, Right
    <2>3. ListGood(p)'
        BY <1>0, <1>8, ListStays DEF LeaveDetail
    <2> QED  BY <2>2, <2>3
<1>9. CASE \E i \in QuestionIds, t \in Titles : Post(m, i, t)
    BY <1>0, <1>9, ListStays, DetailStays DEF Post
<1>10. CASE m \in Readers /\ \E q \in list[m] : Select(m, q)
    <2>1. PICK q \in list[m] : Select(m, q)
        BY <1>10
    <2>2. ListGood(p)'
        BY <1>0, <2>1, ReloadShows, ListStays DEF Select
    <2>3. CASE p # m
        BY <1>0, <2>1, <2>2, <2>3, DetailStays DEF Select, TypeOK
    <2>4. CASE p = m
        <3>1. Good(m, q)
            BY DEF Safe, ListGood
        <3>2. opened'[m] = q /\ target'[m] = ids[m][q.title]
            BY <1>0, <2>1 DEF Select, Target, TypeOK
        <3> QED  BY <1>10, <2>2, <2>4, <3>1, <3>2 DEF DetailGood, Good, Right
    <2> QED  BY <2>3, <2>4
<1>11. CASE \E i \in AnswerIds : PostAnswer(m, i)
    BY <1>0, <1>11, ListStays, DetailStays DEF PostAnswer
<1> QED
    BY <1>1, <1>2, <1>3, <1>4, <1>5, <1>6, <1>7, <1>8, <1>9, <1>10, <1>11
    DEF Replies, Touches

LEMMA StoreGood ==
    ASSUME Safe, Checks \/ Commits \/ UNCHANGED vars,
           NEW p \in Members
    PROVE  ListGood(p)' /\ DetailGood(p)'
<1> USE DEF storeVars, postVars, listVars, detailVars
<1>0. TypeOK /\ ListGood(p) /\ DetailGood(p)
    BY DEF Safe
<1>1. CASE Checks
    <2>1. ASSUME NEW d \in drafts, CheckArrives(d), d.step = "free"
          PROVE  ListGood(p)' /\ DetailGood(p)'
        <3>1. d.question.by \in Members
            BY <1>0 DEF TypeOK, Draft, Question
        <3> QED
            BY <1>0, <2>1, <3>1, ReloadShows, ListStays, DetailStays DEF CheckArrives
    <2>2. ASSUME NEW d \in drafts, CheckArrives(d), d.step # "free"
          PROVE  ListGood(p)' /\ DetailGood(p)'
        BY <1>0, <2>2, ListStays, DetailStays DEF CheckArrives
    <2>3. ASSUME NEW r \in answered, CheckAnswered(r)
          PROVE  ListGood(p)' /\ DetailGood(p)'
        BY <1>0, <2>3, ListStays, DetailStays DEF CheckAnswered
    <2>4. ASSUME NEW m \in Members, NEW t \in Titles,
                 ServerAnswers(m, t) \/ CheckFails(m, t)
          PROVE  ListGood(p)' /\ DetailGood(p)'
        BY <1>0, <2>4, ListStays, DetailStays DEF ServerAnswers, CheckFails
    <2> QED  BY <1>1, <2>1, <2>2, <2>3, <2>4 DEF Checks
<1>2. CASE \E q \in adding : CommitQuestion(q) \/ RefuseQuestion(q)
    BY <1>0, <1>2, ListStays, DetailStays DEF CommitQuestion, RefuseQuestion
<1>3. CASE \E a \in sending : CommitAnswer(a)
    <2>1. PICK a \in sending : CommitAnswer(a)
        BY <1>3
    <2>2. a.by \in Members
        BY <1>0 DEF TypeOK, Answer
    <2> QED  BY <1>0, <2>1, <2>2, ReloadShows, ListStays, DetailStays DEF CommitAnswer
<1>4. CASE \E a \in sending : RefuseAnswer(a)
    BY <1>0, <1>4, ListStays, DetailStays DEF RefuseAnswer
<1>5. CASE UNCHANGED vars
    BY <1>0, <1>5, ListStays, DetailStays DEF vars
<1> QED  BY <1>1, <1>2, <1>3, <1>4, <1>5 DEF Commits

LEMMA SafeInit == Init => Safe
<1> SUFFICES ASSUME Init PROVE Safe
    OBVIOUS
<1>1. TypeOK
    <2>1. questions \subseteq Question
        BY QuestionAssumption DEF Init, Question
    <2>2. \A m \in Members : loading[m] + Len(blocks[m]) <= MaxLoads[m]
        <3>1. ASSUME NEW m \in Members PROVE loading[m] + Len(blocks[m]) <= MaxLoads[m]
            <4>1. loading[m] = 0 /\ blocks[m] = <<>> /\ MaxLoads[m] \in Nat
                BY QuestionAssumption DEF Init
            <4> QED  BY <4>1
        <3> QED  BY <3>1
    <2> QED  BY <2>1, <2>2 DEF Init, TypeOK, Pages
<1>2. ASSUME NEW m \in Members PROVE ListGood(m) /\ DetailGood(m)
    BY DEF Init, ListGood, DetailGood
<1> QED  BY <1>1, <1>2 DEF Safe

LEMMA SafeStep == Safe /\ [Next]_vars => Safe'
BY NextType, MemberGood, StoreGood DEF Next, Safe

LEMMA AlwaysSafe == Spec => []Safe
BY SafeInit, SafeStep, PTL DEF Spec

\* The variables of the screens and of the store keep their types, for any
\* members, titles and numbers of loads (Community.loadQuestions, post).
THEOREM QuestionTypeCorrect == Spec => []TypeOK
<1>1. Safe => TypeOK
    BY DEF Safe
<1> QED  BY <1>1, AlwaysSafe, PTL

\* An answer is saved under a question of the title and community of the one
\* its author had on display, however the loads of the list interleave with
\* the touches (Community.didSelectRowAt, AnswerQuestion.post).
THEOREM AnswersStayUnderTitle == Spec => []AnswersUnderTitle
<1>1. Init => AnswersUnderTitle
    BY DEF Init, AnswersUnderTitle
<1>2. Safe /\ AnswersUnderTitle /\ [Next]_vars => AnswersUnderTitle'
    <2> SUFFICES ASSUME Safe, AnswersUnderTitle, [Next]_vars PROVE AnswersUnderTitle'
        OBVIOUS
    <2> USE DEF storeVars, postVars, listVars, detailVars
    <2>1. ASSUME NEW m \in Members, NEW i \in AnswerIds, PostAnswer(m, i)
          PROVE  AnswersUnderTitle'
        <3>1. target[m] \in Right(m, opened[m].title) /\ opened[m].com = At[m]
            BY <2>1 DEF PostAnswer, Safe, DetailGood
        <3>2. target[m].title = opened[m].title /\ target[m].com = opened[m].com
            BY <3>1 DEF Right
        <3> QED  BY <2>1, <3>2 DEF PostAnswer, AnswersUnderTitle
    <2>2. ASSUME NEW m \in Members, Replies(m) PROVE AnswersUnderTitle'
        BY <2>2 DEF Replies, QuestionsArrive, QuestionsFail, ShowQuestions, AnswersArrive,
                    AnswersFail, AnswersUnderTitle
    <2>3. ASSUME NEW m \in Members, Touches(m) PROVE AnswersUnderTitle'
        BY <2>1, <2>3 DEF Touches, OpenCommunity, LeaveCommunity, LeaveDetail, Post, Select,
                          AnswersUnderTitle
    <2>4. CASE Checks
        BY <2>4 DEF Checks, ServerAnswers, CheckAnswered, CheckFails, CheckArrives,
                    AnswersUnderTitle
    <2>5. CASE Commits
        BY <2>5 DEF Commits, CommitQuestion, RefuseQuestion, CommitAnswer, RefuseAnswer,
                    AnswersUnderTitle
    <2>6. CASE UNCHANGED vars
        BY <2>6 DEF vars, AnswersUnderTitle
    <2> QED  BY <2>2, <2>3, <2>4, <2>5, <2>6 DEF Next
<1> QED  BY <1>1, <1>2, AlwaysSafe, PTL DEF Spec

-----------------------------------------------------------------------------
(***************************************************************************)
(* Titles asked before: the server keeps its questions, so an answer to a  *)
(* query sees at least those it had when Post was touched, unless it was   *)
(* on its way by then.                                                     *)
(***************************************************************************)
Has(d) ==
    OfTitle(d.question.title, OfCommunity(d.question.by, questions)) # {}

DraftGood(d) ==
    d.question.late =>
        /\ d.step # "free" /\ Has(d)
        /\ d.step = "query" =>
              \A r \in Replying(d.question.by, d.question.title) : r.hit

Asked == AskedOnce /\ \A d \in drafts : DraftGood(d)

LEMMA HasStays ==
    ASSUME NEW d, Has(d), questions \subseteq questions'
    PROVE  Has(d)'
BY DEF Has, OfTitle, OfCommunity

LEMMA DraftStays ==
    ASSUME NEW d, DraftGood(d), questions \subseteq questions', answered' \subseteq answered
    PROVE  DraftGood(d)'
BY HasStays DEF DraftGood, Replying

LEMMA AskedStays ==
    ASSUME Asked, drafts' \subseteq drafts, questions \subseteq questions',
           answered' \subseteq answered,
           questions' \cup adding' \subseteq questions \cup adding
    PROVE  Asked'
BY DraftStays DEF Asked, AskedOnce

LEMMA AskedByPost ==
    ASSUME TypeOK, Asked, NEW m \in Members, NEW i \in QuestionIds, NEW t \in Titles,
           Post(m, i, t)
    PROVE  Asked'
<1>1. PICK q \in Question :
          /\ drafts' = drafts \cup {[question |-> q, step |-> "query"]}
          /\ q.title = t /\ q.by = m
          /\ q.late => /\ OfTitle(t, OfCommunity(m, questions)) # {}
                       /\ Replying(m, t) = {}
    BY PostedQuestion
<1>2. questions' = questions /\ adding' = adding /\ answered' = answered
    BY DEF Post, storeVars
<1>3. DraftGood([question |-> q, step |-> "query"])
    BY <1>1 DEF DraftGood, Has
<1> QED  BY <1>1, <1>2, <1>3, DraftStays DEF Asked, AskedOnce

\* The server's answer holds the title that makes a draft late.
LEMMA AskedByAnswer ==
    ASSUME TypeOK, Asked, NEW m \in Members, NEW t \in Titles, ServerAnswers(m, t)
    PROVE  Asked'
<1> DEFINE hit == OfTitle(t, OfCommunity(m, questions)) # {}
           n == [by |-> m, title |-> t, hit |-> hit]
<1>1. /\ answered' = answered \cup {n} /\ drafts' = drafts
      /\ questions' = questions /\ adding' = adding
    BY DEF ServerAnswers, storeVars
<1>2. n.by = m /\ n.title = t /\ n.hit = hit
    OBVIOUS
<1> HIDE DEF n
<1>3. ASSUME NEW d \in drafts PROVE DraftGood(d)'
    <2>1. DraftGood(d)
        BY DEF Asked
    <2>2. Has(d)' = Has(d)
        BY <1>1 DEF Has, OfTitle, OfCommunity
    <2>3. CASE d.question.by = m /\ d.question.title = t
        <3>1. Has(d) => n.hit
            BY <1>2, <2>3 DEF Has
        <3> QED  BY <1>1, <2>1, <2>2, <3>1 DEF DraftGood, Replying
    <2>4. CASE ~(d.question.by = m /\ d.question.title = t)
        BY <1>1, <1>2, <2>1, <2>2, <2>4 DEF DraftGood, Replying
    <2> QED  BY <2>3, <2>4
<1> QED  BY <1>1, <1>3 DEF Asked, AskedOnce

\* A draft that is late is told that the title is taken.
LEMMA AskedByReply ==
    ASSUME TypeOK, Asked, NEW r \in answered, CheckAnswered(r)
    PROVE  Asked'
<1> DEFINE step == IF Taken(r) THEN "taken" ELSE "free"
<1>1. /\ drafts' = (drafts \ Asking(r.by, r.title))
                       \cup {[d EXCEPT !.step = step] : d \in Asking(r.by, r.title)}
      /\ answered' \subseteq answered
      /\ questions' = questions /\ adding' = adding
    BY DEF CheckAnswered, storeVars
<1>2. ASSUME NEW d \in Asking(r.by, r.title) PROVE DraftGood([d EXCEPT !.step = step])
    <2> DEFINE e == [d EXCEPT !.step = step]
    <2>1. d \in Draft /\ d \in drafts /\ d.step = "query"
          /\ d.question.by = r.by /\ d.question.title = r.title
        BY DEF Asking, TypeOK
    <2>2. e.question = d.question /\ e.step = step /\ step # "query"
        BY <2>1 DEF Draft
    <2> HIDE DEF e
    <2>3. DraftGood(d) /\ r \in Replying(d.question.by, d.question.title)
        BY <2>1 DEF Asked, Replying
    <2>4. d.question.late => r.hit /\ Has(d)
        BY <2>1, <2>3 DEF DraftGood
    <2>5. r.hit => step # "free"
        BY DEF Taken
    <2>6. DraftGood(e)
        BY <2>2, <2>4, <2>5 DEF DraftGood, Has
    <2> QED  BY <2>6 DEF e
<1> HIDE DEF step
<1>3. \A e \in drafts' : DraftGood(e)
    BY <1>1, <1>2 DEF Asked
<1> QED  BY <1>1, <1>3, DraftStays DEF Asked, AskedOnce

LEMMA AskedByCheck ==
    ASSUME TypeOK, Asked, Checks
    PROVE  Asked'
<1>1. ASSUME NEW m \in Members, NEW t \in Titles, CheckFails(m, t) PROVE Asked'
    BY <1>1, AskedStays DEF CheckFails, storeVars
<1>2. ASSUME NEW d \in drafts, CheckArrives(d) PROVE Asked'
    <2>1. questions' = questions /\ drafts' = drafts \ {d} /\ answered' = answered
        BY <1>2 DEF CheckArrives
    <2>2. CASE d.step = "free"
        <3>1. ~d.question.late
            BY <2>2 DEF Asked, DraftGood
        <3>2. adding' = adding \cup {d.question}
            BY <1>2, <2>2 DEF CheckArrives
        <3> QED  BY <2>1, <3>1, <3>2, DraftStays DEF Asked, AskedOnce
    <2>3. CASE d.step # "free"
        BY <1>2, <2>1, <2>3, AskedStays DEF CheckArrives
    <2> QED  BY <2>2, <2>3
<1> QED  BY <1>1, <1>2, AskedByAnswer, AskedByReply DEF Checks

\* A question whose title the server had in the community when Post was touched
\* is never added, whatever else is asked, saved or shown meanwhile, unless the
\* answer to an earlier touch's query was on its way (AskQuestion.post, lines
\* 93-104).
THEOREM TakenTitlesNotAsked == Spec => []AskedOnce
<1>1. Init => Asked
    <2> SUFFICES ASSUME Init PROVE Asked
        OBVIOUS
    <2>1. \A q \in Earlier : q.late = FALSE
        BY QuestionAssumption
    <2>2. questions \cup adding \subseteq Earlier /\ drafts = {}
        BY DEF Init
    <2> QED  BY <2>1, <2>2 DEF Asked, AskedOnce
<1>2. Safe /\ Asked /\ [Next]_vars => Asked'
    <2> SUFFICES ASSUME Safe, Asked, [Next]_vars PROVE Asked'
        OBVIOUS
    <2> USE DEF storeVars, postVars, listVars, detailVars
    <2>0. TypeOK
        BY DEF Safe
    <2>1. ASSUME NEW m \in Members, Replies(m) PROVE Asked'
        BY <2>1, AskedStays DEF Replies, QuestionsArrive, QuestionsFail, ShowQuestions,
                                AnswersArrive, AnswersFail
    <2>2. ASSUME NEW m \in Members, Touches(m) PROVE Asked'
        BY <2>0, <2>2, AskedByPost, AskedStays
        DEF Touches, OpenCommunity, LeaveCommunity, LeaveDetail, Select, PostAnswer
    <2>3. CASE Checks
        BY <2>0, <2>3, AskedByCheck
    <2>4. CASE Commits
        BY <2>4, AskedStays DEF Commits, CommitQuestion, RefuseQuestion, CommitAnswer,
                                RefuseAnswer
    <2>5. CASE UNCHANGED vars
        BY <2>5, AskedStays DEF vars
    <2> QED  BY <2>1, <2>2, <2>3, <2>4, <2>5 DEF Next
<1>3. Asked => AskedOnce
    BY DEF Asked
<1> QED  BY <1>1, <1>2, <1>3, AlwaysSafe, PTL DEF Spec

-----------------------------------------------------------------------------
(***************************************************************************)
(* The last result to be shown: with no query on its way, it has all that  *)
(* the member has asked.                                                   *)
(***************************************************************************)
Coming(m) == IF blocks[m] = <<>> THEN list[m] ELSE blocks[m][Len(blocks[m])]

Mine(m) == Own(m, OfCommunity(m, questions \cup adding))

OwnComing(m) ==
    page[m] # "closed" /\ loading[m] = 0 /\ ~missed[m] => Mine(m) \subseteq Coming(m)

LEMMA OwnStays ==
    ASSUME NEW m \in Members, OwnComing(m), Mine(m)' \subseteq Mine(m),
           page'[m] # "closed" => page[m] # "closed",
           loading'[m] = loading[m], missed'[m] = missed[m],
           list'[m] = list[m], blocks'[m] = blocks[m]
    PROVE  OwnComing(m)'
BY DEF OwnComing, Coming

\* A load under way makes the condition void, and for other members nothing
\* changes.
LEMMA ReloadOwn ==
    ASSUME TypeOK, NEW m \in Members, Reload(m), NEW p \in Members, OwnComing(p),
           p # m => Mine(p)' \subseteq Mine(p) /\ page'[p] = page[p]
    PROVE  OwnComing(p)'
<1>1. CASE p = m
    <2>1. loading[m] \in Nat /\ loading'[m] = loading[m] + 1
        BY DEF Reload, TypeOK
    <2> QED  BY <1>1, <2>1 DEF OwnComing
<1>2. CASE p # m
    BY <1>2, OwnStays DEF Reload, TypeOK
<1> QED  BY <1>1, <1>2

LEMMA MineStays ==
    ASSUME NEW m, questions' \cup adding' \subseteq questions \cup adding
    PROVE  Mine(m)' \subseteq Mine(m)
BY DEF Mine, Own, OfCommunity

LEMMA OwnArrives ==
    ASSUME TypeOK, NEW m \in Members, QuestionsArrive(m), NEW p \in Members, OwnComing(p)
    PROVE  OwnComing(p)'
<1>1. questions' = questions /\ adding' = adding /\ page' = page
      /\ list' = list /\ missed' = missed
    BY DEF QuestionsArrive, storeVars
<1>2. CASE p # m
    BY <1>1, <1>2, MineStays, OwnStays DEF QuestionsArrive, TypeOK
<1>3. CASE p = m
    <2> DEFINE F == OfCommunity(m, Visible(m))
    <2>1. blocks'[m] = Append(blocks[m], F) /\ blocks[m] \in Seq(SUBSET Question)
          /\ F \in SUBSET Question
        BY VisibleType DEF QuestionsArrive, TypeOK
    <2>2. Mine(m)' \subseteq F
        BY <1>1 DEF Mine, Own, OfCommunity, Visible
    <2> HIDE DEF F
    <2>3. Coming(m)' = F
        BY <2>1 DEF Coming
    <2> QED  BY <1>3, <2>2, <2>3 DEF OwnComing
<1> QED  BY <1>2, <1>3

LEMMA OwnShown ==
    ASSUME TypeOK, NEW m \in Members, ShowQuestions(m), NEW p \in Members, OwnComing(p)
    PROVE  OwnComing(p)'
<1>1. questions' = questions /\ adding' = adding /\ page' = page
      /\ loading' = loading /\ missed' = missed
    BY DEF ShowQuestions, storeVars
<1>2. CASE p # m
    BY <1>1, <1>2, MineStays, OwnStays DEF ShowQuestions, TypeOK
<1>3. CASE p = m
    <2>1. /\ list'[m] = blocks[m][1] /\ blocks'[m] = Tail(blocks[m])
          /\ blocks[m] \in Seq(SUBSET Question) /\ blocks[m] # <<>>
        BY DEF ShowQuestions, TypeOK
    <2>2. Coming(m)' = Coming(m)
        <3>1. CASE Len(blocks[m]) = 1
            BY <2>1, <3>1 DEF Coming
        <3>2. CASE Len(blocks[m]) # 1
            <4> DEFINE n == Len(blocks[m])
            <4>1. n \in Nat /\ n > 1
                <5>1. 1 \in 1..n /\ n \in Nat
                    BY <2>1
                <5>2. n # 1
                    BY <3>2
                <5> HIDE DEF n
                <5> QED  BY <5>1, <5>2
            <4>2. Len(blocks'[m]) = n - 1
                BY <2>1
            <4>3. blocks'[m][n - 1] = blocks[m][n]
                BY <2>1, <4>1
            <4>4. blocks'[m] # <<>>
                BY <4>1, <4>2
            <4> QED  BY <2>1, <4>2, <4>3, <4>4 DEF Coming
        <3> QED  BY <3>1, <3>2
    <2>3. Mine(m)' \subseteq Mine(m)
        BY <1>1, MineStays
    <2> QED  BY <1>1, <1>3, <2>2, <2>3 DEF OwnComing
<1> QED  BY <1>2, <1>3

LEMMA OwnOfMember ==
    ASSUME TypeOK, NEW m \in Members, Replies(m) \/ Touches(m), NEW p \in Members, OwnComing(p)
    PROVE  OwnComing(p)'
<1> USE DEF storeVars, postVars, listVars, detailVars
<1>0. questions' = questions /\ adding' = adding
    BY DEF Replies, Touches, QuestionsArrive, QuestionsFail, ShowQuestions, AnswersArrive,
           AnswersFail, OpenCommunity, LeaveCommunity, LeaveDetail, Post, Select, PostAnswer
<1>1. \A r : Mine(r)' \subseteq Mine(r)
    BY <1>0, MineStays
<1>2. CASE QuestionsArrive(m) \/ ShowQuestions(m)
    BY <1>2, OwnArrives, OwnShown
<1>3. CASE QuestionsFail(m)
    <2>1. CASE p # m
        BY <1>1, <1>3, <2>1, OwnStays DEF QuestionsFail, TypeOK
    <2>2. CASE p = m
        BY <1>3, <2>2 DEF QuestionsFail, OwnComing, TypeOK
    <2> QED  BY <2>1, <2>2
<1>4. CASE AnswersArrive(m)
    BY <1>1, <1>4, ReloadOwn DEF AnswersArrive
<1>5. CASE AnswersFail(m)
    BY <1>1, <1>5, OwnStays DEF AnswersFail
<1>6. CASE OpenCommunity(m)
    <2>1. p # m => page'[p] = page[p]
        BY <1>6 DEF OpenCommunity, TypeOK
    <2> QED  BY <1>1, <1>6, <2>1, ReloadOwn DEF OpenCommunity
<1>7. CASE LeaveCommunity(m)
    <2>1. CASE p # m
        BY <1>1, <1>7, <2>1, OwnStays DEF LeaveCommunity, TypeOK
    <2>2. CASE p = m
        BY <1>7, <2>2 DEF LeaveCommunity, OwnComing, TypeOK
    <2> QED  BY <2>1, <2>2
<1>8. CASE LeaveDetail(m)
    <2>1. page'[p] # "closed" => page[p] # "closed"
        BY <1>8 DEF LeaveDetail, TypeOK
    <2> QED  BY <1>1, <1>8, <2>1, OwnStays DEF LeaveDetail
<1>9. CASE \E i \in QuestionIds, t \in Titles : Post(m, i, t)
    BY <1>1, <1>9, OwnStays DEF Post
<1>10. CASE m \in Readers /\ \E q \in list[m] : Select(m, q)
    <2>1. p # m => page'[p] = page[p]
        BY <1>10 DEF Select, TypeOK
    <2> QED  BY <1>1, <1>10, <2>1, ReloadOwn DEF Select
<1>11. CASE \E i \in AnswerIds : PostAnswer(m, i)
    BY <1>1, <1>11, OwnStays DEF PostAnswer
<1> QED
    BY <1>2, <1>3, <1>4, <1>5, <1>6, <1>7, <1>8, <1>9, <1>10, <1>11 DEF Replies, Touches

LEMMA OwnOfStore ==
    ASSUME TypeOK, Checks \/ Commits \/ UNCHANGED vars,
           NEW p \in Members, OwnComing(p)
    PROVE  OwnComing(p)'
<1> USE DEF storeVars, postVars, listVars, detailVars
<1>1. CASE \E d \in drafts : CheckArrives(d) /\ d.step = "free"
    <2>1. PICK d \in drafts : CheckArrives(d) /\ d.step = "free"
        BY <1>1
    <2> DEFINE m == d.question.by
    <2>2. m \in Members /\ Reload(m) /\ page' = page
          /\ questions' = questions /\ adding' = adding \cup {d.question}
        BY <2>1 DEF CheckArrives, TypeOK, Draft, Question
    <2>3. p # m => Mine(p)' \subseteq Mine(p)
        BY <2>2 DEF Mine, Own, OfCommunity
    <2> QED  BY <2>2, <2>3, ReloadOwn
<1>2. CASE \E d \in drafts : CheckArrives(d) /\ d.step # "free"
    BY <1>2, MineStays, OwnStays DEF CheckArrives
<1>3. CASE \E r \in answered : CheckAnswered(r)
    BY <1>3, MineStays, OwnStays DEF CheckAnswered
<1>4. CASE \E m \in Members, t \in Titles : ServerAnswers(m, t) \/ CheckFails(m, t)
    BY <1>4, MineStays, OwnStays DEF ServerAnswers, CheckFails
<1>5. CASE \E q \in adding : CommitQuestion(q) \/ RefuseQuestion(q)
    <2>1. questions' \cup adding' \subseteq questions \cup adding
        BY <1>5 DEF CommitQuestion, RefuseQuestion
    <2> QED  BY <1>5, <2>1, MineStays, OwnStays DEF CommitQuestion, RefuseQuestion
<1>6. CASE \E a \in sending : CommitAnswer(a)
    <2>1. PICK a \in sending : CommitAnswer(a)
        BY <1>6
    <2>2. a.by \in Members
        BY DEF TypeOK, Answer
    <2> QED  BY <2>1, <2>2, MineStays, ReloadOwn DEF CommitAnswer
<1>7. CASE \E a \in sending : RefuseAnswer(a)
    BY <1>7, MineStays, OwnStays DEF RefuseAnswer
<1>8. CASE UNCHANGED vars
    BY <1>8, MineStays, OwnStays DEF vars
<1> QED  BY <1>1, <1>2, <1>3, <1>4, <1>5, <1>6, <1>7, <1>8 DEF Checks, Commits

\* When no load is under way and the last did not fail, the member's list has
\* every question the member has asked, saved or on its way: add() loads after
\* addData, and results are shown in the order they came (Community.add,
\* loadQuestions).
THEOREM OwnQuestionsAreListed == Spec => []OwnQuestionsListed
<1> DEFINE All == \A m \in Members : OwnComing(m)
<1>1. Init => All
    BY DEF Init, OwnComing
<1>2. Safe /\ All /\ [Next]_vars => All'
    BY OwnOfMember, OwnOfStore DEF Safe, Next
<1>3. All => OwnQuestionsListed
    BY DEF OwnComing, Coming, Mine, OwnQuestionsListed, Quiet
<1> HIDE DEF All
<1> QED  BY <1>1, <1>2, <1>3, AlwaysSafe, PTL DEF Spec
=============================================================================
