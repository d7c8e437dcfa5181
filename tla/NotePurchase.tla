---------------------------- MODULE NotePurchase ----------------------------
(***************************************************************************)
(* Buying one note: the screen detailedNoteViewController on each device,  *)
(* the PayPal checkout, the documents purchasedNotes that record who has   *)
(* bought the note, and the amount `earned` in the seller's document.      *)
(*                                                                         *)
(* The screen asks for the account document, then for the purchase record, *)
(* when it opens and again after every completed download. purchased(note:)*)
(* reports false at once and true when the record is found, so what a tap  *)
(* on the button does depends on which replies are in. A payment credits   *)
(* the seller by reading `earned` and writing the sum back. The reply with *)
(* `earned` is built on a thread of the store, the callback that writes    *)
(* the sum runs later on the main one, and the server has it later still:  *)
(* other credits' steps, of this device and of others, come between them.  *)
(***************************************************************************)
EXTENDS Integers, FiniteSets, Sequences

CONSTANTS
    Members,
    Devices,
    AuthUser,       \* Auth.auth().currentUser of each device; not the seller
    Price,          \* note.price, in hundredths of a riyal
    PaymentIds,     \* bound: identities of the approved payments
    NoPayment,
    MaxAsks,        \* bound: account queries a screen has in flight
    Events          \* bound: what may happen besides the regular steps

ASSUME NoteAssumption ==
    /\ AuthUser \in [Devices -> Members]
    /\ Price \in Nat \ {0}
    /\ NoPayment \notin PaymentIds
    /\ MaxAsks \in Nat \ {0}
    /\ Events \subseteq {"kill", "error"}

VARIABLES
    owners,     \* members with a document for the note in purchasedNotes
    earned,     \* users.earned of the seller
    payments,   \* the payments PayPal approved
    queued,     \* per device: a document for purchasedNotes is not answered yet
    credits,    \* runs of updatePrice that wait for the seller's document
    sums,       \* per device: the sums it has written, not yet sent
    credited,   \* for the properties: how many sums the server has
    overlapped, \* for the properties: one read between another's read and
                \* write, or while another device's sum was not yet sent
    \* The screen of each device:
    open,
    hasUser,    \* self.user is set
    asks,       \* account queries in flight
    checks,     \* queries of purchased(note:) in flight
    purchased,
    title,      \* of the button: "pay" (Pay & Download) or "download"
    reviewable, \* addReview is visible
    stage,      \* what covers the screen
    paid,       \* the payment PayPal's handler reports
    fetching,   \* a download is in flight
    recorded    \* for the properties: this screen has recorded a purchase,
                \* and no query for the record has failed since

storeVars == <<owners, earned, payments, queued, credits, sums, credited, overlapped>>
queryVars == <<open, hasUser, asks, checks>>
buttonVars == <<purchased, title, reviewable, recorded>>
coverVars == <<stage, paid, fetching>>
vars == <<storeVars, queryVars, buttonVars, coverVars>>

-----------------------------------------------------------------------------
Payment == [id : PaymentIds, user : Members, amount : Nat]

\* updatePrice: "read" until the reply with the seller's document is built,
\* then "seen" until it is handled.
Credit == [id : PaymentIds, device : Devices, step : {"read", "seen"},
           sum : Nat]

Stages == {"none", "sheet", "paypal", "approved"}

Ids(S) == {p.id : p \in S}

\* Mutants: the device's unsent sums are ignored; the price of every credit
\* the device has begun is counted, that of the one being read included.
EarnedOnServer(d) == earned
EarnedTwice(d) ==
    earned + Price * (Len(sums[d]) + Cardinality({c \in credits : c.device = d}))

\* What a device reads: its own last unsent sum hides the server's.
EarnedSeen(d) == IF sums[d] = <<>> THEN earned ELSE sums[d][Len(sums[d])]

\* Mutants: anyone's record counts; a record still queued does not.
FoundAny(d) == owners # {} \/ queued[d]
FoundOnServer(d) == AuthUser[d] \in owners

\* The query of purchased(note:) finds a document.
Found(d) == AuthUser[d] \in owners \/ queued[d]

Touchable(d) == open[d] /\ stage[d] = "none"

Init ==
    /\ owners = {}
    /\ earned = 0
    /\ payments = {}
    /\ queued = [d \in Devices |-> FALSE]
    /\ credits = {}
    /\ sums = [d \in Devices |-> <<>>]
    /\ credited = 0
    /\ overlapped = FALSE
    /\ open = [d \in Devices |-> FALSE]
    /\ hasUser = [d \in Devices |-> FALSE]
    /\ asks = [d \in Devices |-> 0]
    /\ checks = [d \in Devices |-> 0]
    /\ purchased = [d \in Devices |-> FALSE]
    /\ title = [d \in Devices |-> "pay"]
    /\ reviewable = [d \in Devices |-> FALSE]
    /\ recorded = [d \in Devices |-> FALSE]
    /\ stage = [d \in Devices |-> "none"]
    /\ paid = [d \in Devices |-> NoPayment]
    /\ fetching = [d \in Devices |-> FALSE]

\* A screen is created with one account query, or is gone.
ResetScreen(d, opens) ==
    /\ open' = [open EXCEPT ![d] = opens]
    /\ hasUser' = [hasUser EXCEPT ![d] = FALSE]
    /\ asks' = [asks EXCEPT ![d] = IF opens THEN 1 ELSE 0]
    /\ checks' = [checks EXCEPT ![d] = 0]
    /\ purchased' = [purchased EXCEPT ![d] = FALSE]
    /\ title' = [title EXCEPT ![d] = "pay"]
    /\ reviewable' = [reviewable EXCEPT ![d] = FALSE]
    /\ recorded' = [recorded EXCEPT ![d] = FALSE]
    /\ stage' = [stage EXCEPT ![d] = "none"]
    /\ paid' = [paid EXCEPT ![d] = NoPayment]
    /\ fetching' = [fetching EXCEPT ![d] = FALSE]

OpenScreen(d) ==
    /\ ~open[d]
    /\ ResetScreen(d, TRUE)
    /\ UNCHANGED storeVars

CloseScreen(d) ==
    /\ Touchable(d)
    /\ ResetScreen(d, FALSE)
    /\ UNCHANGED storeVars

(***************************************************************************)
(* The replies the screen waits for.                                       *)
(***************************************************************************)
\* updateReviewButton: the query for the record starts and false is reported
\* at once. The title of the button is left as it is.
UserArrives(d) ==
    /\ asks[d] > 0
    /\ checks[d] < MaxAsks
    /\ asks' = [asks EXCEPT ![d] = @ - 1]
    /\ hasUser' = [hasUser EXCEPT ![d] = TRUE]
    /\ checks' = [checks EXCEPT ![d] = @ + 1]
    /\ purchased' = [purchased EXCEPT ![d] = FALSE]
    /\ reviewable' = [reviewable EXCEPT ![d] = FALSE]
    /\ UNCHANGED <<storeVars, coverVars, open, title, recorded>>

UserFails(d) ==
    /\ "error" \in Events
    /\ asks[d] > 0
    /\ asks' = [asks EXCEPT ![d] = @ - 1]
    /\ UNCHANGED <<storeVars, buttonVars, coverVars, open, hasUser, checks>>

\* true is reported when a record is found, and nothing when there is none.
CheckArrives(d) ==
    /\ checks[d] > 0
    /\ checks' = [checks EXCEPT ![d] = @ - 1]
    /\ purchased' = [purchased EXCEPT ![d] = @ \/ Found(d)]
    /\ reviewable' = [reviewable EXCEPT ![d] = @ \/ Found(d)]
    /\ title' = IF Found(d) THEN [title EXCEPT ![d] = "download"] ELSE title
    /\ UNCHANGED <<storeVars, coverVars, open, hasUser, asks, recorded>>

CheckFails(d) ==
    /\ "error" \in Events
    /\ checks[d] > 0
    /\ checks' = [checks EXCEPT ![d] = @ - 1]
    /\ purchased' = [purchased EXCEPT ![d] = FALSE]
    /\ reviewable' = [reviewable EXCEPT ![d] = FALSE]
    /\ recorded' = [recorded EXCEPT ![d] = FALSE]
    /\ UNCHANGED <<storeVars, coverVars, open, hasUser, asks, title>>

(***************************************************************************)
(* The button, the sheet and PayPal.                                       *)
(***************************************************************************)
TouchDownload(d) ==
    /\ Touchable(d)
    /\ IF purchased[d]
       THEN fetching' = [fetching EXCEPT ![d] = TRUE] /\ UNCHANGED stage
       ELSE stage' = [stage EXCEPT ![d] = "sheet"] /\ UNCHANGED fetching
    /\ UNCHANGED <<storeVars, queryVars, buttonVars, paid>>

CancelSheet(d) ==
    /\ stage[d] = "sheet"
    /\ stage' = [stage EXCEPT ![d] = "none"]
    /\ UNCHANGED <<storeVars, queryVars, buttonVars, paid, fetching>>

ConfirmPurchase(d) ==
    /\ stage[d] = "sheet"
    /\ stage' = [stage EXCEPT ![d] = "paypal"]
    /\ UNCHANGED <<storeVars, queryVars, buttonVars, paid, fetching>>

\* The request asks for the price in riyals, as an amount of dollars.
PayPalApproves(d) ==
    /\ stage[d] = "paypal"
    /\ \E i \in PaymentIds \ Ids(payments) :
          /\ payments' = payments \cup
                 {[id |-> i, user |-> AuthUser[d], amount |-> Price]}
          /\ paid' = [paid EXCEPT ![d] = i]
    /\ stage' = [stage EXCEPT ![d] = "approved"]
    /\ UNCHANGED <<owners, earned, queued, credits, sums, credited, overlapped>>
    /\ UNCHANGED <<queryVars, buttonVars, fetching>>

\* Mutant: the payment is forgotten before updatePrice has it.
CreditAfterReset(d) == [id |-> NoPayment, device |-> d, step |-> "read", sum |-> 0]

\* updatePrice is called: it asks for the seller's document.
NewCredit(d) == [id |-> paid[d], device |-> d, step |-> "read", sum |-> 0]

\* updateNoteDownload gives up when self.user is nil.
Records(d) == hasUser[d]

\* updatePrice, updateNoteDownload, and the download, as PayPal succeeds.
PayPalReturns(d) ==
    /\ stage[d] = "approved"
    /\ credits' = credits \cup {NewCredit(d)}
    /\ queued' = [queued EXCEPT ![d] = @ \/ Records(d)]
    /\ recorded' = [recorded EXCEPT ![d] = @ \/ Records(d)]
    /\ purchased' = [purchased EXCEPT ![d] = TRUE]
    /\ title' = [title EXCEPT ![d] = "download"]
    /\ fetching' = [fetching EXCEPT ![d] = TRUE]
    /\ stage' = [stage EXCEPT ![d] = "none"]
    /\ paid' = [paid EXCEPT ![d] = NoPayment]
    /\ UNCHANGED <<owners, earned, payments, sums, credited, overlapped>>
    /\ UNCHANGED <<queryVars, reviewable>>

\* The alert that follows has one button, which dismisses the screen.
PayPalFails(d) ==
    /\ stage[d] = "paypal"
    /\ ResetScreen(d, FALSE)
    /\ UNCHANGED storeVars

(***************************************************************************)
(* The download and the share sheet, which is presented only on a screen   *)
(* that nothing covers. After a completed share the alert "Downloaded!"    *)
(* asks for the account again; after a canceled one nothing is asked.      *)
(***************************************************************************)
FileArrives(d) ==
    /\ fetching[d]
    /\ fetching' = [fetching EXCEPT ![d] = FALSE]
    /\ UNCHANGED <<storeVars, buttonVars, open, hasUser, checks, stage, paid>>
    /\ \/ UNCHANGED asks
       \/ /\ stage[d] = "none"
          /\ asks[d] < MaxAsks
          /\ asks' = [asks EXCEPT ![d] = @ + 1]

(***************************************************************************)
(* The store. A queued record or sum is sent until the server has it.      *)
(***************************************************************************)
CommitRecord(d) ==
    /\ queued[d]
    /\ queued' = [queued EXCEPT ![d] = FALSE]
    /\ owners' = owners \cup {AuthUser[d]}
    /\ UNCHANGED <<earned, payments, credits, sums, credited, overlapped>>
    /\ UNCHANGED <<queryVars, buttonVars, coverVars>>

\* The reply with the seller's document is built.
ReadEarned(c) ==
    /\ c.step = "read"
    /\ credits' = (credits \ {c}) \cup
          {[c EXCEPT !.step = "seen", !.sum = EarnedSeen(c.device) + Price]}
    /\ overlapped' = \/ overlapped
                      \/ \E e \in credits : e.step = "seen"
                      \/ \E d \in Devices \ {c.device} : sums[d] # <<>>
    /\ UNCHANGED <<owners, earned, payments, queued, sums, credited>>
    /\ UNCHANGED <<queryVars, buttonVars, coverVars>>

ReadEarnedFails(c) ==
    /\ "error" \in Events
    /\ c.step = "read"
    /\ credits' = credits \ {c}
    /\ UNCHANGED <<owners, earned, payments, queued, sums, credited, overlapped>>
    /\ UNCHANGED <<queryVars, buttonVars, coverVars>>

\* The reply is handled: the sum is written.
QueueSum(c) ==
    /\ c.step = "seen"
    /\ credits' = credits \ {c}
    /\ sums' = [sums EXCEPT ![c.device] = Append(@, c.sum)]
    /\ UNCHANGED <<owners, earned, payments, queued, credited, overlapped>>
    /\ UNCHANGED <<queryVars, buttonVars, coverVars>>

\* A device sends its sums in the order it wrote them.
WriteEarned(d) ==
    /\ sums[d] # <<>>
    /\ earned' = Head(sums[d])
    /\ sums' = [sums EXCEPT ![d] = Tail(@)]
    /\ credited' = credited + 1
    /\ UNCHANGED <<owners, payments, queued, credits, overlapped>>
    /\ UNCHANGED <<queryVars, buttonVars, coverVars>>

\* What is queued survives; a reply that is not handled is lost.
AppKilled(d) ==
    /\ "kill" \in Events
    /\ ResetScreen(d, FALSE)
    /\ credits' = {c \in credits : c.device # d}
    /\ UNCHANGED <<owners, earned, payments, queued, sums, credited, overlapped>>

-----------------------------------------------------------------------------
Replies(d) == UserArrives(d) \/ UserFails(d) \/ CheckArrives(d) \/ CheckFails(d)

Buying(d) == TouchDownload(d) \/ CancelSheet(d) \/ ConfirmPurchase(d)
                \/ PayPalApproves(d) \/ PayPalReturns(d) \/ PayPalFails(d)

Crediting == \E c \in credits :
                ReadEarned(c) \/ ReadEarnedFails(c) \/ QueueSum(c)

Next ==
    \/ \E d \in Devices :
          \/ OpenScreen(d) \/ CloseScreen(d) \/ AppKilled(d)
          \/ Replies(d) \/ Buying(d) \/ FileArrives(d)
          \/ CommitRecord(d) \/ WriteEarned(d)
    \/ Crediting

Spec == Init /\ [][Next]_vars

-----------------------------------------------------------------------------
(***************************************************************************)
(* Properties                                                              *)
(***************************************************************************)

\* The values of the variables are of the kinds declared above.
TypeOK ==
    /\ owners \subseteq Members
    /\ earned \in Nat
    /\ payments \subseteq Payment
    /\ queued \in [Devices -> BOOLEAN]
    /\ credits \subseteq Credit
    /\ sums \in [Devices -> Seq(Nat)]
    /\ credited \in Nat
    /\ overlapped \in BOOLEAN
    /\ open \in [Devices -> BOOLEAN]
    /\ hasUser \in [Devices -> BOOLEAN]
    /\ asks \in [Devices -> 0..MaxAsks]
    /\ checks \in [Devices -> 0..MaxAsks]
    /\ purchased \in [Devices -> BOOLEAN]
    /\ title \in [Devices -> {"pay", "download"}]
    /\ reviewable \in [Devices -> BOOLEAN]
    /\ recorded \in [Devices -> BOOLEAN]
    /\ stage \in [Devices -> Stages]
    /\ paid \in [Devices -> PaymentIds \cup {NoPayment}]
    /\ fetching \in [Devices -> BOOLEAN]

\* Whoever may review the note has paid for it: the button appears only after
\* the member's own record was found, and records are only written after
\* PayPal's approval (detailedNoteViewController.swift, updateReviewButton).
ReviewersPaid ==
    \A d \in Devices : reviewable[d] =>
        \E p \in payments : p.user = AuthUser[d]

\* The seller is never credited more than the approved payments come to,
\* however the reads and writes of updatePrice interleave.
EarnedBounded == earned <= Price * Cardinality(payments)

\* While no reply with `earned` was built between another credit's reply and
\* its write, nor while another device's sum was unsent, no sum is lost: the
\* seller has the price once for every sum the server was sent, although a
\* device may write several before it is connected (updatePrice).
SerialEarnings == ~overlapped => earned = Price * credited

\* A screen that has recorded a purchase knows it again once its queries are
\* answered, although each account reply first reports "not purchased" and the
\* record may still be queued (purchased(note:), updateNoteDownload).
PaidScreenRemembers ==
    \A d \in Devices :
        recorded[d] /\ asks[d] = 0 /\ checks[d] = 0 => purchased[d]
=============================================================================
