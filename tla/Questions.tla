------------------------------ MODULE Questions ------------------------------
(***************************************************************************)
(* The questions of a community and their answers: the screens Community,  *)
(* AskQuestion, QuestionDetail and AnswerQuestion on the members' phones,  *)
(* and the collections Questions and Questions/<id>/answers.               *)
(*                                                                         *)
(* A question is asked in two round trips: a query for its title, and, when*)
(* that finds none, the document. The list of questions is emptied when it *)
(* is asked for and filled when the reply's block runs; a dictionary from  *)
(* titles to documents, ids, is filled already when the reply comes. The   *)
(* document under which an answer is saved is looked up there by the title *)
(* of the row that was touched.                                            *)
(***************************************************************************)
EXTENDS Naturals, Sequences, FiniteSets, FiniteSetsExt

CONSTANTS
    Members,        \* each with one phone
    Communities,
    At,             \* the community whose screen a member opens
    Readers,        \* bound: the members who look at the details of questions
    Titles,
    QuestionIds,    \* bound: documents in Questions, in the order of createDate
    Earlier,        \* questions there may be already
    AnswerIds,      \* bound: documents in answers
    NoQuestion,
    MaxLoads,       \* bound: loads of a member's list under way
    Events          \* bound: what may happen besides the regular steps

ASSUME QuestionAssumption ==
    /\ At \in [Members -> Communities]
    /\ Readers \subseteq Members
    /\ QuestionIds \subseteq Nat
    /\ Earlier \subseteq [id : QuestionIds, title : Titles, com : Communities,
                         by : Members, late : {FALSE}]
    /\ MaxLoads \in [Members -> Nat \ {0}]
    /\ Events \subseteq {"error", "reject"}

VARIABLES
    questions,  \* the documents on the server
    adding,     \* those a phone has added and the server not answered
    answers,    \* the answers on the server
    sending,    \* those a phone has added and the server not answered
    drafts,     \* the runs of post whose query is under way or answered
    answered,   \* what the server has found for such queries, on its way
    \* Each member's phone:
    page,       \* the screen on top
    list,       \* Community.questions
    ids,        \* Community.ids, for the readers: others never look it up
    loading,    \* queries of loadQuestions on their way
    blocks,     \* their results, queued on the main thread
    opened,     \* QuestionDetail.question
    target,     \* QuestionDetail.docID
    waiting,    \* the query of loadAnswers is on its way
    missed      \* for the properties: the last list asked for was not found

storeVars == <<questions, adding, answers, sending>>
listVars == <<list, ids, loading, blocks, missed>>
detailVars == <<opened, target, waiting>>
postVars == <<drafts, answered>>
vars == <<storeVars, postVars, page, listVars, detailVars>>

-----------------------------------------------------------------------------
\* A question names who asked it. `late` is for the properties: the server had
\* one with the title when Post was touched, and no answer to the same query was
\* on its way from before.
Question == [id : QuestionIds, title : Titles, com : Communities,
             by : Members, late : BOOLEAN]

\* An answer is saved under the document `doc`, and was written on the screen
\* with the details of the question `on`.
Answer == [id : AnswerIds, doc : Question, on : Question, by : Members]

\* "query": the check is under way; "free", "taken": what it has found.
Draft == [question : Question, step : {"query", "free", "taken"}]

\* The server's answer to the query of a member's phone for a title.
Reply == [by : Members, title : Titles, hit : BOOLEAN]

Asking(m, t) == {d \in drafts : /\ d.step = "query"
                                /\ d.question.by = m /\ d.question.title = t}

Replying(m, t) == {r \in answered : r.by = m /\ r.title = t}

\* AskQuestion and AnswerQuestion are opened over "list" and "detail", and left
\* again, within Post and PostAnswer.
Pages == {"closed", "list", "detail"}

OfCommunity(m, S) == {q \in S : q.com = At[m]}

OfTitle(t, S) == {q \in S : q.title = t}

Own(m, S) == {x \in S : x.by = m}

\* Mutant: what the phone has added itself is not in the reply.
VisibleOnServer(m) == questions

\* What a query of the member's phone finds.
Visible(m) == questions \cup Own(m, adding)

\* The last one in descending order of createDate.
Oldest(S) == CHOOSE q \in S : \A p \in S : q.id <= p.id

\* Mutant: questions of other communities are taken too.
IdsOfAll(m) ==
    [t \in Titles |-> IF OfTitle(t, Visible(m)) = {} THEN ids[m][t]
                      ELSE Oldest(OfTitle(t, Visible(m)))]

\* ids as a reply leaves it: a later document replaces an earlier one.
IdsFound(m) ==
    LET found(t) == OfTitle(t, OfCommunity(m, Visible(m))) IN
    [t \in Titles |-> IF found(t) = {} THEN ids[m][t] ELSE Oldest(found(t))]

UsedIds == {q.id : q \in questions \cup adding} \cup {d.question.id : d \in drafts}

Init ==
    /\ questions \in SUBSET Earlier
    /\ adding = {} /\ answers = {} /\ sending = {} /\ drafts = {}
    /\ answered = {}
    /\ page = [m \in Members |-> "closed"]
    /\ list = [m \in Members |-> {}]
    /\ ids = [m \in Members |-> [t \in Titles |-> NoQuestion]]
    /\ loading = [m \in Members |-> 0]
    /\ blocks = [m \in Members |-> <<>>]
    /\ opened = [m \in Members |-> NoQuestion]
    /\ target = [m \in Members |-> NoQuestion]
    /\ waiting = [m \in Members |-> FALSE]
    /\ missed = [m \in Members |-> FALSE]

-----------------------------------------------------------------------------
(***************************************************************************)
(* The list: loadQuestions.                                                *)
(***************************************************************************)
\* loadQuestions is called.
Reload(m) ==
    /\ loading[m] + Len(blocks[m]) < MaxLoads[m]
    /\ list' = [list EXCEPT ![m] = {}]
    /\ loading' = [loading EXCEPT ![m] = @ + 1]
    /\ missed' = [missed EXCEPT ![m] = FALSE]
    /\ UNCHANGED <<ids, blocks>>

OpenCommunity(m) ==
    /\ page[m] = "closed"
    /\ page' = [page EXCEPT ![m] = "list"]
    /\ Reload(m)
    /\ UNCHANGED <<storeVars, postVars, detailVars>>

\* The screen is left; the next one starts anew. Bound: nothing that would call
\* it is under way.
LeaveCommunity(m) ==
    /\ page[m] = "list"
    /\ loading[m] = 0 /\ blocks[m] = <<>> /\ ~waiting[m]
    /\ Own(m, sending) = {} /\ \A d \in drafts : d.question.by # m
    /\ page' = [page EXCEPT ![m] = "closed"]
    /\ list' = [list EXCEPT ![m] = {}]
    /\ ids' = [ids EXCEPT ![m] = [t \in Titles |-> NoQuestion]]
    /\ missed' = [missed EXCEPT ![m] = FALSE]
    /\ UNCHANGED <<storeVars, postVars, loading, blocks, detailVars>>

QuestionsArrive(m) ==
    /\ loading[m] > 0
    /\ loading' = [loading EXCEPT ![m] = @ - 1]
    /\ ids' = IF m \in Readers THEN [ids EXCEPT ![m] = IdsFound(m)] ELSE ids
    /\ blocks' = [blocks EXCEPT ![m] = Append(@, OfCommunity(m, Visible(m)))]
    /\ UNCHANGED <<storeVars, postVars, page, list, missed, detailVars>>

QuestionsFail(m) ==
    /\ "error" \in Events
    /\ loading[m] > 0
    /\ loading' = [loading EXCEPT ![m] = @ - 1]
    /\ missed' = [missed EXCEPT ![m] = TRUE]
    /\ UNCHANGED <<storeVars, postVars, page, list, ids, blocks, detailVars>>

ShowQuestions(m) ==
    /\ blocks[m] # <<>>
    /\ list' = [list EXCEPT ![m] = Head(blocks[m])]
    /\ blocks' = [blocks EXCEPT ![m] = Tail(@)]
    /\ UNCHANGED <<storeVars, postVars, page, ids, loading, missed, detailVars>>

-----------------------------------------------------------------------------
(***************************************************************************)
(* Asking. The screen may be left while the check is under way, and Post   *)
(* may be touched again. The queries of one phone for one title share what *)
(* the server answers: one that joins them gets the answer on its way, too.*)
(***************************************************************************)
Post(m, i, t) ==
    LET late == /\ OfTitle(t, OfCommunity(m, questions)) # {}
                /\ Replying(m, t) = {}
        q == [id |-> i, title |-> t, com |-> At[m], by |-> m, late |-> late] IN
    /\ page[m] = "list" /\ \A j \in UsedIds : j < i
    /\ drafts' = drafts \cup {[question |-> q, step |-> "query"]}
    /\ UNCHANGED <<storeVars, answered, page, listVars, detailVars>>

ServerAnswers(m, t) ==
    /\ Asking(m, t) # {} /\ Replying(m, t) = {}
    /\ answered' = answered \cup
          {[by |-> m, title |-> t, hit |-> OfTitle(t, OfCommunity(m, questions)) # {}]}
    /\ UNCHANGED <<storeVars, drafts, page, listVars, detailVars>>

\* Mutant: the list on the screen is searched, which other members' questions
\* reach late.
TakenOnScreen(r) == OfTitle(r.title, list[r.by]) # {}

\* whereField("ID") and whereField("Title"): what the server answers and what
\* the phone has added itself, saved or not.
Taken(r) ==
    r.hit \/ OfTitle(r.title, OfCommunity(r.by, Own(r.by, questions \cup adding))) # {}

\* The reply is built for all that wait for it.
CheckAnswered(r) ==
    LET waits == Asking(r.by, r.title)
        step == IF Taken(r) THEN "taken" ELSE "free" IN
    /\ answered' = answered \ {r}
    /\ drafts' = (drafts \ waits) \cup {[d EXCEPT !.step = step] : d \in waits}
    /\ UNCHANGED <<storeVars, page, listVars, detailVars>>

CheckFails(m, t) ==
    /\ "error" \in Events
    /\ Asking(m, t) # {}
    /\ drafts' = drafts \ Asking(m, t)
    /\ answered' = answered \ Replying(m, t)
    /\ UNCHANGED <<storeVars, page, listVars, detailVars>>

\* addData, then the delegate's add().
CheckArrives(d) ==
    LET m == d.question.by IN
    /\ d.step # "query"
    /\ drafts' = drafts \ {d}
    /\ IF d.step = "free"
       THEN adding' = adding \cup {d.question} /\ Reload(m)
       ELSE UNCHANGED <<adding, listVars>>
    /\ UNCHANGED <<questions, answers, sending, answered, page, detailVars>>

CommitQuestion(q) ==
    /\ adding' = adding \ {q}
    /\ questions' = questions \cup {q}
    /\ UNCHANGED <<answers, sending, postVars, page, listVars, detailVars>>

RefuseQuestion(q) ==
    /\ "reject" \in Events
    /\ adding' = adding \ {q}
    /\ UNCHANGED <<questions, answers, sending, postVars, page, listVars, detailVars>>

-----------------------------------------------------------------------------
(***************************************************************************)
(* The details of a question and its answers.                              *)
(***************************************************************************)
\* Mutant: the document is passed on when the screen has been presented.
TargetOfBefore(m, q) == target[m]

\* ids[titleX]
Target(m, q) == ids[m][q.title]

\* The row of a question is touched; viewDidLoad asks for the answers, and its
\* check() tells the list to load again. Bound: an earlier screen's query and
\* answer are over.
Select(m, q) ==
    /\ page[m] = "list"
    /\ page' = [page EXCEPT ![m] = "detail"]
    /\ q \in list[m] /\ ~waiting[m] /\ Own(m, sending) = {}
    /\ opened' = [opened EXCEPT ![m] = q]
    /\ target' = [target EXCEPT ![m] = Target(m, q)]
    /\ waiting' = [waiting EXCEPT ![m] = TRUE]
    /\ Reload(m)
    /\ UNCHANGED <<storeVars, postVars>>

\* The reply and the block it queues, which shows the answers and tells the list
\* to load, also when the screen has been left. The answers on display are left
\* out.
AnswersArrive(m) ==
    /\ waiting[m]
    /\ waiting' = [waiting EXCEPT ![m] = FALSE]
    /\ Reload(m)
    /\ UNCHANGED <<storeVars, postVars, page, opened, target>>

AnswersFail(m) ==
    /\ "error" \in Events
    /\ waiting[m]
    /\ waiting' = [waiting EXCEPT ![m] = FALSE]
    /\ UNCHANGED <<storeVars, postVars, page, listVars, opened, target>>

LeaveDetail(m) ==
    /\ page[m] = "detail"
    /\ page' = [page EXCEPT ![m] = "list"]
    /\ opened' = [opened EXCEPT ![m] = NoQuestion]
    /\ target' = [target EXCEPT ![m] = NoQuestion]
    /\ UNCHANGED <<storeVars, postVars, listVars, waiting>>

\* Bound: an earlier answer of the member has been answered by the server.
PostAnswer(m, i) ==
    /\ page[m] = "detail"
    /\ i \notin {a.id : a \in answers \cup sending} /\ Own(m, sending) = {}
    /\ sending' = sending \cup
          {[id |-> i, doc |-> target[m], on |-> opened[m], by |-> m]}
    /\ UNCHANGED <<questions, adding, answers, postVars, page, listVars, detailVars>>

\* The screen with the details tells the list to load, left or not.
CommitAnswer(a) ==
    /\ sending' = sending \ {a}
    /\ answers' = answers \cup {a}
    /\ Reload(a.by)
    /\ UNCHANGED <<questions, adding, postVars, page, opened, target, waiting>>

RefuseAnswer(a) ==
    /\ "reject" \in Events
    /\ sending' = sending \ {a}
    /\ UNCHANGED <<questions, adding, answers, postVars, page, listVars, detailVars>>

-----------------------------------------------------------------------------
Replies(m) ==
    \/ QuestionsArrive(m) \/ QuestionsFail(m) \/ ShowQuestions(m)
    \/ AnswersArrive(m) \/ AnswersFail(m)

Touches(m) ==
    \/ OpenCommunity(m) \/ LeaveCommunity(m) \/ LeaveDetail(m)
    \/ \E i \in QuestionIds, t \in Titles : Post(m, i, t)
    \/ m \in Readers /\ \E q \in list[m] : Select(m, q)
    \/ \E i \in AnswerIds : PostAnswer(m, i)

Checks ==
    \/ \E m \in Members, t \in Titles : ServerAnswers(m, t) \/ CheckFails(m, t)
    \/ \E r \in answered : CheckAnswered(r)
    \/ \E d \in drafts : CheckArrives(d)

Commits ==
    \/ \E q \in adding : CommitQuestion(q) \/ RefuseQuestion(q)
    \/ \E a \in sending : CommitAnswer(a) \/ RefuseAnswer(a)

Next ==
    \/ \E m \in Members : Replies(m) \/ Touches(m)
    \/ Checks
    \/ Commits

Spec == Init /\ [][Next]_vars

-----------------------------------------------------------------------------
(***************************************************************************)
(* Properties                                                              *)
(***************************************************************************)

\* The values of the variables are of the kinds declared above.
TypeOK ==
    /\ questions \subseteq Question /\ adding \subseteq Question
    /\ answers \subseteq Answer /\ sending \subseteq Answer
    /\ drafts \subseteq Draft /\ answered \subseteq Reply
    /\ page \in [Members -> Pages]
    /\ list \in [Members -> SUBSET Question]
    /\ ids \in [Members -> [Titles -> Question \cup {NoQuestion}]]
    /\ loading \in [Members -> Nat]
    /\ \A m \in Members : loading[m] + Len(blocks[m]) <= MaxLoads[m]
    /\ blocks \in [Members -> Seq(SUBSET Question)]
    /\ opened \in [Members -> Question \cup {NoQuestion}]
    /\ target \in [Members -> Question \cup {NoQuestion}]
    /\ waiting \in [Members -> BOOLEAN]
    /\ missed \in [Members -> BOOLEAN]

\* A question is not added when the server had one of its title in the
\* community already when Post was touched, whatever the screen showed then,
\* unless the answer to an earlier touch's query was on its way: of two
\* questions with one title each was asked before the other's was saved, or
\* with a query that was (post, lines 93-104).
AskedOnce == \A q \in questions \cup adding : ~q.late

\* An answer is saved under the question whose details its author saw, or
\* under one of the same title in the same community: the dictionary ids may
\* be ahead of the rows on display, and rows of equal titles share an entry
\* (Community, lines 70 and 119).
AnswersUnderTitle ==
    \A a \in answers \cup sending :
        a.doc.title = a.on.title /\ a.doc.com = a.on.com

Quiet(m) == page[m] # "closed" /\ loading[m] = 0 /\ blocks[m] = <<>> /\ ~missed[m]

\* A member who has asked a question finds it in the list when no load is
\* under way, saved or not: add() loads the list after addData has queued the
\* document, and no older result is shown after a newer one for good.
OwnQuestionsListed ==
    \A m \in Members : Quiet(m) =>
        Own(m, OfCommunity(m, questions \cup adding)) \subseteq list[m]
=============================================================================
