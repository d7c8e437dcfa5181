# AOUN: specifications, model checks and proofs

AOUN is an iOS application (Swift, UIKit) in which students share notes and
resources, book workshops, ask questions in communities and write to each
other. It has no server of its own: every screen reads and writes Cloud
Firestore directly, pays through Braintree's PayPal driver and keeps what it
read in its own properties. All that can go wrong therefore lies in what
happens between a query and its answer, between a payment and the documents
that record it, and between two devices that do not know of each other. This
directory holds TLA+ modules for those parts, the TLC configurations that
check them, and proofs that TLAPS checks for every value of the constants.

Paths below are relative to `src/AOUN/AOUN/`.

## 1. Inventory

| Component | State | Operations | Interacts with | What is hard | What makes it correct |
|---|---|---|---|---|---|
| Workshop booking (`Reema/WorkshopDetailsVC.swift`, `Shatha/PurchasedTicketView.swift`) | `user`, `tickets`, `myTickets`, the button, the picker; documents `Tickets` | load user, then tickets; book, pick, buy, confirm; PayPal; write the ticket | Firestore, PayPal, `AppDelegate.thisUser` | tickets read once, a late reply resetting the picker, the payment and the ticket are two steps | a ticket for each payment, for what was paid; the limit of three seats; distinct booking numbers; sold out means sold out |
| Note purchase (`detailedNoteViewController.swift`) | `user`, `purchased`, the button's title, the review button; `users/earned`, `users/*/purchasedNotes` | load user, check the purchase, download or pay, credit the seller, record the purchase, download | Firestore, PayPal, Storage | read-modify-write of `earned`; a check that answers twice; two writes after one payment | nobody pays twice for a note the screen knows; the seller gets what was paid and no more; only buyers review |
| Reviews (`Sara/PostReview.swift`) | `Reviews` documents | load, post | note screen | - | one list per note |
| Chat (`Rana/Chat.swift`) | `docReference`, `messages`, the listener; documents `Chats`, `thread` | find or add the chat, listen, send, mark as read, leave | Firestore, push notifications | searches that overlap, of two members or of one phone; replies and snapshots that are older than what they meet; messages before the chat is known; a listener that outlives its screen or dies before it | screens that look later are in the same chat; what was shown stays; read marks tell the truth |
| Chat roster (`Rana/CharRoster.swift`) | list of chats, a counter for each load, the table's cells | load the chats, count the unread messages of each, join, name the rows | chat | fan-in by counter, a chat of the member with themselves, cells used again while replies are under way | the roster appears, with each chat once and the right name |
| Notes list (`ViewNotesViewController.swift`) | notes, purchased notes, the filter | load user, purchased notes, notes, one after the other | note screen (delegate) | the next load hangs on a counter that may never be reached | the list appears |
| Booked workshops (`Reema/viewWorkshopViewController.swift`) | workshops, tickets | load all, load tickets, load the booked | booking | fan-in by counter, deleted workshops | as above |
| Session (`AppDelegate.swift`, login, sign-up, sign-out, profile edit) | `Auth.currentUser`, `thisUser`, `fcmToken` | sign in, sign up, sign out, token callback, edit | every screen | `thisUser` set by a callback and never cleared; account and document updated apart | `thisUser` is the member signed in |
| Communities (`Sara/RequestCommunityController.swift`, `Sara/CommunityDetailsViewController.swift`, `Shatha/AdminDashboard.swift`) | `Request`, `Communities`, the administrator's list | submit, accept, reject, load | - | addition and deletion not awaited, rows removed by index | no accepted request is lost, no device accepts one twice, the row removed is the one decided |
| Questions and answers (`Sara/*.swift`) | `Questions`, `answers`; the list, the dictionary from titles to documents | ask, answer, list | push notifications | check, then add; the list and the dictionary change at different times | no question whose title is taken; answers under the question they are for; the asker sees the question |
| Posting (`PostNoteViewController.swift`, `Reema/resPostViewController.swift`, `Reema/postWorkshopViewController.swift`) | text fields, Storage, documents | upload, then add the document | - | fields read again after the upload; names reused | the document describes the file |
| Profiles, resources, cells, helpers | lists that are displayed | load | - | overlapping loads | - |

`Pods/` is vendored. Some files of `Rana/Helpers`, `resPostViewController.swift`
in the root, `Rana/communityviewcontroller.swift`, `Shatha/VCDeleteNote.swift` and
`Rana/Notificationcode.swift` are older copies or commented out. The tests
(`AOUNTests`, `AOUNUITests`) are the empty templates. `PROJECT.json` lists the
components with their status and every hazard at its line.

## 2. Modules

| Module | Role |
|---|---|
| `TicketLedger` | abstract: a purchase is entered once, a ticket is issued once for it |
| `WorkshopBooking` | the booking of one workshop by several devices; implements `TicketLedger` |
| `NotePurchase` | the purchase of one note by several devices |
| `NotesList` | the screen with a member's notes and everybody's, several loads at once |
| `Mailbox` | abstract: a message is sent once and arrives or is refused; what a member receives has arrived and is kept; a mark is owed for each message received, and made once |
| `Chat` | the chat of one pair of members; implements `Mailbox` |
| `Roster` | the list of a member's chats and its cells |
| `Questions` | the questions of communities and their answers, on the members' phones |
| `Session` | who is signed in on a device, and whom the application takes for that member |
| `Requests` | requests for communities, and the dashboards on which they are decided |
| `MC*` | values for the constants of the runs, symmetry |
| `WorkshopBooking_proofs`, `NotePurchase_proofs`, `NotesList_proofs`, `Chat_proofs`, `Questions_proofs`, `Session_proofs`, `Requests_proofs`, `Roster_proofs` | theorems |

### How the code maps to state and actions

A *device* or *screen* is one instance of the view controller. UIKit and
Firestore call it back on the main thread, so that a handler is one action; what
interleaves is the handlers of several screens, the answers of the server and
the commit of queued writes. A Firestore write that is not awaited is put in a
set of queued writes (`writes`, `queued`, `sums`, `creating`, `sending`,
`marking`, `adding`, `editing`, `queue`) and becomes a document in a later step, or is refused where the
module has an action for that. A query is answered from the server's documents and
the device's own queued writes (the SDK's latency compensation); there is a
separate action for its error.

The SDK builds a reply on a queue of its own and dispatches it to the main thread,
and one reply goes to all queries of a device that are the same and under way
together. In between the device may queue writes, and other handlers may run. Where
the handler writes, or replaces what was added meanwhile, the two are separate
actions: the search, the thread and its snapshots in `Chat`, the
credit in `NotePurchase`, the check before a question in `Questions`, the page of notes
in `NotesList`, the blocks in `Roster` and `Questions`. Elsewhere a reply is built and handled
in one step: there the handler only keeps what it found, and the properties
hold as well for a reply that is older, because they count from the time of the next
query, or because what was found earlier is still there.

* **WorkshopBooking.** `load` follows `viewDidLoad` -> `loadUser` ->
  `loadTickets`; `seen` is the property `tickets`, `picked` is
  `purchaseTickets`, `enabled` the book button, `shown` the purchase view,
  `stage` the sheet and PayPal, `order` what the closure captured. `basis` in an
  order is a history variable: the purchases the screen knew of. It lets
  properties speak of purchases made one after the other.
* **NotePurchase.** `asks` and `checks` count the answers to
  `loadUserReference` and `purchased(note:_:)` still on their way (the code asks again
  after every download). `credits` holds the runs of `updatePrice`: "read" until the reply
  with the seller's document is built (`ReadEarned`), "seen" until it is handled
  (`QueueSum`), which writes the sum. `sums` are the sums a device has written and not yet sent,
  in their order; they survive the application, and the device's own reads see the last of
  them. `overlapped` is a history variable, true once a reply was built between
  another credit's reply and its write, or while another device had an unsent sum.
* **NotesList.** A *load* is one run of `loadUserReference`, `purchasedNotes(userID:)`
  and `loadNotes` (or of `loadNotes` alone after a new note); its `phase` names the
  reply or the block of the main thread it waits for, `due`, `got` and `page` are
  the closures' variables. `counter == purchasedNotes.count` is "no record is
  due any more", asked after a reply only. `disturbed` is a history variable: two loads
  overlapped or a bought note's query failed. `Buy` is the delegate call that
  `NotePurchase` makes when it records a purchase.
* **Chat.** `chats`/`creating`, `saved`/`sending` and `read`/`marking` are the
  documents and the queued writes. `state` follows `loadChat` and `createNewChat`: "asking"
  until the reply is built (`BuildReply`), "answered" until it is handled (`AddChat`, `Attach`), "creating"
  until the server has answered. `told` is what the server has told a device while a query of its is under
  way: a second query joins the first and may be answered from it. `attached` is `docReference`,
  `listening` the registration of the listener, `coming` the snapshots that wait for the main thread, `thread` and
  `typed` together `messages`: what the last snapshot brought, and what was sent since. `asked` and `fresh` are
  history variables: the chats a search has to find, and that it began when there was a chat and nobody else was
  looking for one or adding one.
* **Roster.** A load's `found` is `sds`, `cs` what its replies have appended to the
  closure's list (`dataLoadCounter` is its length), `due` the queries on their
  way. `blocks` are the results that `DispatchQueue.main.async` has queued. A cell
  keeps the name it was given until another arrives; `asks` are its queries, whose
  replies come in any order. `known` and `true` are history variables: what the last
  list must contain, and that no reply overtook another.
* **Questions.** `Reload` is `loadQuestions`, which five handlers call. The reply
  fills `ids`, the block it queues fills `list`, so that a row can be touched between
  the two. `drafts` are the runs of `post` from Post to `addData`; `answered` are the
  server's answers to their queries on the way: the queries of one phone for one title share one, so that
  a later touch of Post may be given an answer from before. `late`, a history
  variable, says that the title was taken when Post was touched and no such answer was on its way. `target` is `docID`,
  under which the answer is saved.
* **Session.** `auth` is what Firebase remembers over the end of the application, `signing`
  the completion of `signIn` or `createUser` that is still to run, `asks` and `edits` the
  queries of `updateToken`, `getName` and `EditProfile`. `sure`, `missed`, `stale` and
  `lost` are history variables: they name the circumstances in which the code promises
  nothing.
* **Requests.** `queue` is a device's Firestore queue, which is on disk and applied in order;
  `chosen` and `index` are the document and index that the details were given. `Accept`
  queues two writes, as the handler does. `refused`, `rejected` and `twice` are history
  variables.

### Abstractions

* One workshop, one note, one pair of members at a time: the documents of
  different ones are independent in the code.
* Queries are not answered from the offline cache alone.
* Equal queries of different view controllers are taken not to be under way together. The roster asks with the query
  of `Chat` when it is pulled down: a conversation opened while such a refresh is under way could
  be answered from the view the refresh was, like a second query of the chat screens themselves, which is modelled.
* PayPal's approval is the tokenisation; the application has no later step.
  Identities of orders and payments are fresh. The branch in which the driver
  returns neither an account nor an error is not taken by the version in `Pods`.
* Booking: the e-mail sheet after the alert appears only as its `dismiss`
  (`CloseScreen`).
* Notes: the texts of the list's label are left out. The seller does not buy the note (the button is hidden); a missing
  `users` document and refused writes are not modelled; `showDropIn`,
  `triggerPayPalCheckout` and `hackCheck` are dead code.
* Chat: a snapshot has all that the server has when it is built, and `MaxComing` bounds those that wait for the
  main thread. The order of the messages within the thread is left out (a thread is a
  set), so are the notification and a refused read mark, which the next snapshot
  repeats. The writes of a device keep only the order in which they need each
  other: a message after its chat.
* Roster: the numbers of unread messages. Rows get cells in any assignment without
  repetition. The chat a row opens is in `Chat`.
* Questions: the answers on display, the asker's name, the filter, notifications. The
  screens for asking and answering are part of `Post` and `PostAnswer`. `Readers`
  bounds the members who open a question: for the others `ids` is not kept.
* Session: the administrator, e-mail addresses and passwords, the token that is
  written to the member's document. A device has one query of a kind for a member
  under way and one change of a name.
* Requests: the texts, the list of communities that members see. Requests are
  numbered in the order of a query. A community is named by its request and device,
  as every `setData` creates a document of its own.

## 3. Runs

| Run | Instance | Shows |
|---|---|---|
| `booking_one_phone` | one member, one phone, 4 seats, 2 orders, picks 1..3; loads fail, the workshop starts | the picker stays in the allowance; approved purchases get their tickets when the account was loaded; the ledger is implemented |
| `booking_two_phones` | one member, phone and tablet, 4 seats, 2 orders; killed application, refused writes | tickets match payments; the limit and the booking numbers hold for purchases that saw each other |
| `booking_member_limit` | one phone, 9 seats | a violation: more than three seats with two purchases on one screen |
| `notes_two_phones` | one note, two devices, two payments | reviewers paid; earnings are bounded, and exact when credits do not overlap, although sums wait on a device; a recorded purchase is remembered (1.2 million states) |
| `notes_list` | 2 notes, one of which may be deleted, 2 records, 3 loads; failed queries | the lists are disjoint once loads have ended; bought notes are listed and stay unless loads overlapped; every load ends (0.5 million states) |
| `notes_list_first` | as above, 2 loads, no failure, no deletion | a violation: without a bought note no note is ever shown |
| `chat_pair` | ann with two screens, bob with one, one message; kill, errors, refusals, aborted swipe | chats are added twice only by overlapping searches; later screens meet; the mailbox is implemented (delivery, read marks); what snapshots have brought stays; read in the end on a screen that listens |
| `roster` | 3 chats, one of the member with themselves, 2 loads, 2 cells; failed queries | complete at rest; named rows; a load ends with a roster |
| `questions` | 2 members, one title, 2 questions beside an earlier one of another community, 1 answer; failed queries, refused writes | no title asked that was taken, unless an older answer was on its way; answers under a question of their community (with one title in the run, that of their title is shown by the theorem alone); the asker sees the question (3.7 million states) |
| `session` | 2 members, one phone, 2 names; kill, errors, refusals | whom the application takes for the member signed in, under which name, and that it knows before long |
| `session_home` | as above, no failure | a violation: at home with no `thisUser` |
| `requests` | 2 requests, phone and tablet; kill, errors, 2 refusals | no accepted request is lost or accepted again by a device; `delAt` removes the row that was touched |

*Bounds.* `OrderIds` and `PaymentIds` limit the purchases to two, which is what
it takes for two purchases to miss each other; two orders of three seats exceed both
the member's limit and a workshop of four seats. `MaxAsks` is the
number of account queries one screen has in flight; with one, a check asked before a
purchase may still be answered after it. Three loads of the notes list are what it takes for two to fill the list of bought notes at once: the member
needs a list to buy from, which the first or a posted note shows, and two more purchases or a late opening load
overlap. Loads and records are numbered in their order, which loses nothing.
In the chat two screens of one member and one of the other are the smallest instance in which a
member can add twice and both members can add; two chat identities let a second
chat come before or after the first in the query, which the instance reaches by either way. `Sizes` are pairs: three
screens and no message for the searches, two screens and one message for the thread; the two concerns meet only in
`docReference`, and the proofs need no such bound. `MaxComing` is one: a snapshot may be older than a message sent, a mark or a
farewell when it is handled. `MaxUnderWay` of the roster counts loads, their
results and the queries for a name of one cell: two let a reply overtake another, or a refresh
meet a load. `MaxLoads` of the questions is one for ann, who asks, and two for bob, whose loads overlap while
rows are touched; one title with two documents is what a
duplicate needs, and an older question of another community has the title too. `MaxRefused` is two:
both writes of one acceptance, or one of each device.

A chat screen is used once: opening the chat again is another screen, so `chat_pair` stops
when all have ended. On the roster a refresh that fails, or finds no chats, leaves the refresh
control spinning (`CharRoster.swift:57-62`), and a control that spins does not notice another pull: with
a list that is empty and every chat added nothing more can happen. Neither run checks deadlock; the others do.

*Symmetry* is used where the runs check no liveness and the elements do not differ:
orders, payments, dashboards.

*Fairness.* `FairSpec` of the booking assumes weak fairness of PayPal's return and of the commit
of a queued ticket: the driver calls its completion handler, and Firestore keeps
a queued write until the server has it. Neither is assumed for a killed
application. `FairSpec` of the chat assumes that the SDK builds a snapshot for a listener that is registered
(`BuildSnapshot`), that the main thread handles it (`HandleSnapshot`), and that a read mark is committed (`CommitRead`); no query, no
chat and no message is under fairness. `FairSpec` of the notes list and of the roster assume that
a load's queries are answered, with an error perhaps, and that the main thread runs its blocks.
`FairSpec` of the session assumes that Firebase reports the push token after a launch and that
queries are answered. Users are under no fairness.

*Mutants.* Each property of a passing run has a mutant in `PROJECT.json`: a plausible
bug in a mapped definition under which the run finds the property violated.

## 4. Proofs

| Theorem | Module | Inductive invariant |
|---|---|---|
| `TypeCorrect`, `TicketsArePaidFor`, `PicksWithinAllowance`, `SerialBuyersWithinLimit`, `SerialNumbersDiffer`, `LedgerImplemented` | `WorkshopBooking_proofs` | `TypeInv`; `PickInv`, `PaymentInv`, `SerialInv` |
| `NoteTypeCorrect`, `SellerNotOvercredited`, `NoCreditLost`, `OnlyPayersReview`, `PurchasesRemembered` | `NotePurchase_proofs` | `MoneyInv`; `SerialInv`, `RecordInv` |
| `ListTypeCorrect`, `ListsGetDisjoint`, `BoughtNotesListed`, `BoughtNotesStay` | `NotesList_proofs` | `ListsDisjoint`; `KnownInv`, `LoadInv` |
| `QuestionTypeCorrect`, `TakenTitlesNotAsked`, `AnswersStayUnderTitle`, `OwnQuestionsAreListed` | `Questions_proofs` | `Safe`; `Asked`, `OwnComing` |
| `SessionTypeCorrect`, `DevicesActAsSignedIn`, `AccountsAlwaysHaveProfiles`, `GreetingAlwaysCurrent` | `Session_proofs` | `Inv`: `Screen`, `Identity`, `Current` |
| `RequestTypeCorrect`, `AcceptedAreNotLost`, `DevicesAcceptOnce`, `RowsStayInPlace` | `Requests_proofs` | `Inv`: `RowsGood`, `QueueGood`, `AcceptedGood` |
| `RosterTypeCorrect`, `RosterIsComplete`, `RowsNameTheirChat` | `Roster_proofs` | `TypeInv`; `ResultInv`, `CellsNamed` |
| `ChatTypeCorrect`, `NoChatBesideOneFound`, `FreshScreensInSameChat`, `SnapshotsKeepThread`, `MailboxImplemented` | `Chat_proofs` | `TypeOK`, `SearchInv`, `FreshInv`, `ThreadInv` |

The assumptions are those named in the modules: finiteness and typing of the
constants, nothing about their size.

* `TicketsPaidFor` is not inductive: a ticket is made from `paid` and `order` of a
  screen, so `PaymentInv` says that a screen whose checkout was approved holds an
  approved purchase of its own member with the seats of its order, that no two screens hold
  the same, and that none of them has a ticket yet. With it every step of the booking is a step
  of the ledger or leaves it alone: PayPal's approval enters a purchase, the
  commit of a ticket issues one.
* `PickedWithinAllowance` needs that a screen shows no picker beyond the
  allowance when the tickets arrive, because `reloadData` sets one seat.
* `SerialLimit` and `SerialBookingIds` speak of the tickets on the server, but what decides is when
  orders are made. `SerialInv` follows a purchase from "Book" to PayPal's approval: its screen keeps
  the tickets it had loaded, its seats fit what they leave, and they do not make the limit
  already (`ScreenSafe`). No order has the identity of a later one in its basis, so in
  a serial set the last has all the others (`LastOfSerial`): the member's seats stay within
  the limit, and no two bases have the same size (`OrdersSafe`), which is the number
  in the ticket's `bookingID` (`NumbersSafe`). The sum `Seats` is a recursive function that `MapThenSumSet`
  chooses; that there is one, and that a sum is the same in whatever order it is taken, is proved by
  induction over the subsets of a finite set (`SubsetInduction`, `SumExists`, `SeatsRemove`).
* `SerialEarnings` needs that the unsent sums are all one device's and go up by the price from what the
  server has: the first to be sent adds the price. A reply that is not handled yet adds it to the last of them, and
  there is one such reply at most (`Serial`).
* `EarnedBounded` needs a budget. At any time a part of the payments has been
  *spent*: the sum on the server, and each sum about to be written, are at most
  the price times the payments spent, and the credits under way are for others.
  A lost update only lowers the sum.
* `ReviewersPaid` needs that every record, queued or saved, has a payer;
  `PaidScreenRemembers` that an answer on its way will find the record.
* `ListsDisjoint` is inductive: whoever changes the bought notes goes on to the
  query that leaves them out. `BoughtAreListed` needs `LoadInv`: while loads do not
  overlap there is one that has not shown its notes yet, at most, and it holds every
  record of a note that exists; and `KnownInv`, that nothing recorded or displayed
  is still to be posted.
* `ChatsAddedUnknowing` needs that what a search has to find is in every view the server gives the device while the
  search is under way, and then in its reply (`AskedInv`): chats are not taken away, a view is forgotten with the last
  query that shared it (`ToldInv`), and the device's own chats are in every reply it builds. A screen that can still add
  has added none, or finds its own (`OwnChatInv`).
* `FreshScreensMeet` needs that once a screen is fresh it stays quiet (`Quiet`, in `FreshInv`): every view and every reply has all
  chats, so that nobody adds one any more and the least identifier, which the screens take, stays the least.
* `SnapshotKeepsThread` needs an order among the snapshots that wait for the main thread: each has every message, on its way
  or saved, of those before it and of what the screen shows (`GoodSnapshot`, `ThreadSafe`). `ImplementsMailbox` needs
  that what a waiting snapshot has of the other member is saved, and marked already or about to be by this snapshot, and that
  every mark is for a message that a screen of its reader was brought (`MarkShown`), so that the marks are those of what was
  received (`MarkedIsReceived`). With it every step of the chat is one of the mailbox or
  invisible to it: a screen that is attached posts, the server's answers are arrivals, refusals and marks, a snapshot that is handled
  receives; the search for the chat, building, leaving, swiping and a killed application change nothing.
* `AnswersUnderTitle` needs that every row on display, or in a block that is to be
  displayed, has an entry of its title and community in `ids`, which a reply may replace
  but never drops, and that the details were opened with such an entry (`ListGood`, `DetailGood`).
  The type invariant needs it too: without an entry `docID` would be nil.
* `AskedOnce` needs that a draft whose title was taken is still going to find it: documents
  of other members are not deleted, and an answer that is on its way for such a draft says so, because it was made after
  Post was touched (`DraftGood`).
* `OwnQuestionsListed` needs that the *last* result to be shown has the member's own
  questions, when no query is on its way (`OwnComing`): `add()` loads after `addData`.
* `ActsAsSignedIn` needs that every query of a device that is sure is for the member signed
  in, and that nobody is where another can sign in (`Screen`). `GreetingCurrent`
  needs that an older name is about to be replaced by a query, or by one that follows
  the change of the name (`Current`).
* `AcceptedNotLost` needs that in each queue a deletion is behind the addition of its request,
  unless that is explained already (`Explained`). `AcceptedOnce` needs that a request a device has accepted
  is neither in its rows nor found by its queries (`Hidden`).
* `RosterComplete` needs that chats are only added, so that what the loads still to be shown, and the
  blocks still to run, have found is a chain under inclusion (`Chain`). The least of a
  finite nonempty set of them exists (`MinimalSubset`), and `known`, emptied when a query is answered, is that
  least one: every result shown from then on has it, and so has the list when no result is left
  (`KnownFound`, `KnownComes`). What is counted and what is due are together the chats a load has asked for
  (`LoadsGood`), so that the counter reaches their number only in a load that found no chat of the member with
  themselves, and then the list has all that was found, each once (`ListsGood`).
* `RowsNamed` needs that among the queries under way for a cell the last is for the chat it shows, as long
  as that has not been answered, and that every query still under way afterwards is old: one of them that
  arrives makes `true` false, and the next assignment of a chat sends a query again (`NameDue`, `NameCame`).

Every safety property of every passing run is the statement of a theorem above. Only model-checked
are the liveness properties `PaidGetsTicket`, `ReachesReader`, `LoadsEnd`, `KnownAfterLaunch` and
`RosterShown`, which are out of the prover's reach, as is anything about ENABLED; and the findings of the runs
that end in a violation, which are single behaviours.

## 5. Findings

Three runs end in a violation and stand for what the application itself says, in a constant, in a
comment or by unwrapping an optional. `PROJECT.json` quotes the lines:

* `booking_member_limit`: the limit of three seats (`Reema/WorkshopDetailsVC.swift:16`);
* `notes_list_first`: all notes are loaded after the bought ones (`ViewNotesViewController.swift:98`);
* `session_home`: the chat unwraps `thisUser` (`Rana/Chat.swift:123`).

Other deviations are plain from one handler, so that no run is spent on them:

* "Sold Out" is said for zero seats and not for fewer (`Reema/WorkshopDetailsVC.swift:172`);
* the sheet shows the price in USD and the request takes the number in SAR (`detailedNoteViewController.swift:139`);
* a message typed before the chat is known is labelled "Sent" and not written (`Rana/Chat.swift:269`);
* the refresh control keeps spinning (`Rana/CharRoster.swift:57-62`);
* a roster with a chat of the member with themselves is never joined (`Rana/CharRoster.swift:65-88`).

Some need several steps. The modules contain them, and the properties name them as their exceptions:

* two chats for one pair: both members search before either chat is saved, or one member leaves the conversation and
  opens it again before the first reply is handled, and both screens add one, although the comment at
  `Rana/Chat.swift:201` says that there is none then. Members who took their chat before the other
  was added stay in different ones until they open the conversation again;
* a snapshot built before the member touched Send takes the message off the screen until the next snapshot
  (`Rana/Chat.swift:221`);
* a swipe back that is aborted removes the listener: the screen stays and hears of nothing (`Rana/Chat.swift:159`);
* an answer to the newer of two questions of one title is saved under the older, while the details load the answers of
  the question that was touched (`Sara/CommunityListViewController.swift:119`, `Sara/QuestionDetail.swift:64`);
* Post touched twice before its check is answered asks the question twice (`Sara/AskQuestion.swift:93`), and so do two members
  at once;
* overlapping loads of the notes may leave a bought note off the list (`ViewNotesViewController.swift:301`); the credits of
  overlapping purchases may be lost (`detailedNoteViewController.swift:167`), as is one whose
  application is killed; a payment may end without a ticket or a record
  (`Reema/WorkshopDetailsVC.swift:275`, `detailedNoteViewController.swift:264`).

## 6. Not modelled

* **Booked workshops.** `loadBookedWorkshops` joins by the same counter as the notes list and
  the roster, with fewer ways to overlap; the other screens display what they are given.
* **Reviews.** `PostReview` adds a document and the note screen lists them: two independent steps with
  nothing to compose them with.
* **Posting.** The upload and the document are two requests, and the fields are read again between
  them. What matters there is the content of a file and of text fields, which the
  properties would have to restate.
* **Profiles and resources.** Each load replaces one list and displays it.
* **Composition.** `WorkshopBooking` and `Chat` take `ThisUser` as a constant of the device: a
  screen reads it once when it opens. `Session` says when it is the member signed in.
* **Cells, scenes, helpers, copies that are not compiled, `Pods/`**: layout, dead code, vendored code.
