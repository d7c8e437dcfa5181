--------------------------- MODULE WorkshopBooking ---------------------------
(***************************************************************************)
(* Buying seats of one workshop: the screen WorkshopDetailsVC with its     *)
(* PurchaseTicketView on each device, the PayPal checkout, and the         *)
(* Firestore collection Tickets the screens read once and append to.       *)
(*                                                                         *)
(* A screen reads the account document, then the tickets of the workshop,  *)
(* and from them decides whether the "Book" button stays enabled and how   *)
(* many seats the picker offers. Nothing is read again: a purchase made on *)
(* the screen, and every ticket other devices add, is unknown to it. The   *)
(* two replies arrive at any moment, also while the purchase view, the     *)
(* confirmation sheet or PayPal covers the screen. A ticket is a document  *)
(* write that the Firestore SDK queues on the device and sends again until *)
(* the server answers, even over a restart of the application.             *)
(***************************************************************************)
EXTENDS Integers, FiniteSets, FiniteSetsExt

CONSTANTS
    Members,        \* documents of the collection users
    Devices,
    AuthUser,       \* Auth.auth().currentUser of each device
    ThisUser,       \* appDelegate.thisUser of each device
    Organizer,      \* the member who posted the workshop (workshop.uid)
    Capacity,       \* workshop.numberOfAvailableSeats
    Price,          \* price of a seat, in whole riyals; 0 for a free workshop
    OrderIds,       \* bound: identities of the approved purchases
    NoOrder,        \* "not approved yet"
    Picks,          \* bound: the numbers of seats members choose to pick
    Events          \* bound: what may happen besides the regular steps

ASSUME BookingAssumption ==
    /\ AuthUser \in [Devices -> Members]
    /\ ThisUser \in [Devices -> Members]
    /\ Organizer \in Members
    /\ Capacity \in Nat
    /\ Price \in Nat
    /\ NoOrder \notin OrderIds
    /\ Picks \subseteq 1..3
    /\ Events \subseteq {"kill", "reject", "load", "start"}

K_MaxAllowedTicket == 3

VARIABLES
    tickets,    \* documents of the collection Tickets with this workshop
    writes,     \* per device: tickets queued by setData and not answered
    approved,   \* the purchases PayPal approved
    started,    \* the workshop's dateTime has passed
    \* The screen of each device and the purchase view on it:
    load,       \* how far loadUser and loadTickets have come
    seen,       \* self.tickets
    enabled,    \* bookButton.isEnabled
    shown,      \* the purchase view is visible
    picked,     \* its purchaseTickets
    loadedFirst,\* "Book" was pressed after the tickets were loaded
    \* What covers the screen of each device:
    stage,      \* none, the sheet, PayPal, PayPal's approval, the alert
    order,      \* the purchase the sheet and PayPal's handlers captured
    paid        \* the identity of the approved purchase

storeVars == <<tickets, writes, approved>>

screenVars == <<load, seen, enabled, shown, picked, loadedFirst>>

checkoutVars == <<stage, order, paid>>

vars == <<storeVars, screenVars, checkoutVars, started>>

-----------------------------------------------------------------------------
(***************************************************************************)
(* Records. A ticket names the approved purchase it was written for; the   *)
(* number is the counter in its bookingID. What the basis of an order is   *)
(* concerns the properties only: the tickets its screen had loaded, or     *)
(* {NoOrder} when "Book" was pressed before they were loaded.              *)
(***************************************************************************)
SeatCounts == 1..K_MaxAllowedTicket

Basis == SUBSET (OrderIds \cup {NoOrder})

Ticket == [id : OrderIds, user : Members, seats : SeatCounts,
           number : Nat \ {0}]

Order == [seats : SeatCounts, basis : Basis]

Approval == [id : OrderIds, user : Members, seats : SeatCounts, basis : Basis]

\* closed: no screen; user, tickets: waiting for that reply; nouser, failed:
\* that reply was an error or empty; ready: checkAvailability has run.
LoadStates == {"closed", "user", "nouser", "tickets", "failed", "ready"}

Stages == {"none", "sheet", "paypal", "approved", "canceled"}

NoDraft == [seats |-> 1, basis |-> {}]

Ids(S) == {t.id : t \in S}

Seats(S) == MapThenSumSet(LAMBDA t : t.seats, S)

\* self.myTickets: the loaded tickets of the device's member.
MyTickets(d) == {t \in seen[d] : t.user = AuthUser[d]}

\* Mutant: the seats already bought are forgotten.
AllowedWithoutHistory(d) == K_MaxAllowedTicket

\* allowedTickets(_:), which the picker offers as its rows.
Allowed(d) == K_MaxAllowedTicket - Seats(MyTickets(d))

\* Mutant: a purchase waits for the tickets as well as for the account.
HasTickets(d) == load[d] = "ready"

\* self.user is set once the account document has been read.
HasUser(d) == load[d] \in {"tickets", "failed", "ready"}

\* Nothing covers the screen: its controls take touches.
Touchable(d) == load[d] # "closed" /\ stage[d] = "none"

-----------------------------------------------------------------------------
Init ==
    /\ tickets = {}
    /\ writes = [d \in Devices |-> {}]
    /\ approved = {}
    /\ started = FALSE
    /\ load = [d \in Devices |-> "closed"]
    /\ seen = [d \in Devices |-> {}]
    /\ enabled = [d \in Devices |-> TRUE]
    /\ shown = [d \in Devices |-> FALSE]
    /\ picked = [d \in Devices |-> 1]
    /\ loadedFirst = [d \in Devices |-> FALSE]
    /\ stage = [d \in Devices |-> "none"]
    /\ order = [d \in Devices |-> NoDraft]
    /\ paid = [d \in Devices |-> NoOrder]

\* A screen is created, or is gone: nothing of its state is kept.
ResetScreen(d, state) ==
    /\ load' = [load EXCEPT ![d] = state]
    /\ seen' = [seen EXCEPT ![d] = {}]
    /\ enabled' = [enabled EXCEPT ![d] = TRUE]
    /\ shown' = [shown EXCEPT ![d] = FALSE]
    /\ picked' = [picked EXCEPT ![d] = 1]
    /\ loadedFirst' = [loadedFirst EXCEPT ![d] = FALSE]

ResetCheckout(d) ==
    /\ stage' = [stage EXCEPT ![d] = "none"]
    /\ order' = [order EXCEPT ![d] = NoDraft]
    /\ paid' = [paid EXCEPT ![d] = NoOrder]

Show(d, visible) == shown' = [shown EXCEPT ![d] = visible]

(***************************************************************************)
(* Opening the screen and the two replies it waits for.                    *)
(***************************************************************************)
OpenScreen(d) ==
    /\ load[d] = "closed"
    /\ ResetScreen(d, "user")
    /\ UNCHANGED <<storeVars, checkoutVars, started>>

UserLoads(d) ==
    /\ load[d] = "user"
    /\ load' = [load EXCEPT ![d] = "tickets"]
    /\ UNCHANGED <<storeVars, checkoutVars, started>>
    /\ UNCHANGED <<seen, enabled, shown, picked, loadedFirst>>

\* An error or no document: self.user stays nil and no tickets are asked for.
UserMissing(d) ==
    /\ "load" \in Events
    /\ load[d] = "user"
    /\ load' = [load EXCEPT ![d] = "nouser"]
    /\ UNCHANGED <<storeVars, checkoutVars, started>>
    /\ UNCHANGED <<seen, enabled, shown, picked, loadedFirst>>

\* Mutant: "Reached Limit" is forgotten.
BlocksWithoutLimit(d, S) == Capacity - Seats(S) = 0 \/ started

\* What checkAvailability disables the button for.
Blocks(d, S) ==
    \/ Capacity - Seats(S) = 0
    \/ started
    \/ Seats({t \in S : t.user = AuthUser[d]}) = K_MaxAllowedTicket

\* Mutant: reloading leaves what was picked before.
ReloadKeepsPick(d) == UNCHANGED picked

\* checkAvailability ends by reloading the purchase view: one seat is picked.
ReloadView(d) == picked' = [picked EXCEPT ![d] = 1]

\* The reply holds the server's documents and the device's own queued ones.
TicketsArrive(d) ==
    /\ load[d] = "tickets"
    /\ load' = [load EXCEPT ![d] = "ready"]
    /\ seen' = [seen EXCEPT ![d] = tickets \cup writes[d]]
    /\ enabled' = [enabled EXCEPT ![d] = ~Blocks(d, tickets \cup writes[d])]
    /\ ReloadView(d)
    /\ UNCHANGED <<storeVars, checkoutVars, started, shown, loadedFirst>>

TicketsFail(d) ==
    /\ "load" \in Events
    /\ load[d] = "tickets"
    /\ load' = [load EXCEPT ![d] = "failed"]
    /\ UNCHANGED <<storeVars, checkoutVars, started>>
    /\ UNCHANGED <<seen, enabled, shown, picked, loadedFirst>>

(***************************************************************************)
(* The purchase view.                                                      *)
(***************************************************************************)
\* The button is hidden from the organizer, as appDelegate.thisUser has it.
BookSeat(d) ==
    /\ Touchable(d)
    /\ enabled[d]
    /\ ThisUser[d] # Organizer
    /\ Show(d, TRUE)
    /\ loadedFirst' = [loadedFirst EXCEPT ![d] = (load[d] = "ready")]
    /\ UNCHANGED <<storeVars, checkoutVars, started>>
    /\ UNCHANGED <<load, seen, enabled, picked>>

PickSeats(d) ==
    /\ Touchable(d)
    /\ shown[d]
    /\ \E n \in Picks :
          /\ n <= Allowed(d)
          /\ picked' = [picked EXCEPT ![d] = n]
    /\ UNCHANGED <<storeVars, checkoutVars, started>>
    /\ UNCHANGED <<load, seen, enabled, shown, loadedFirst>>

CloseView(d) ==
    /\ Touchable(d)
    /\ shown[d]
    /\ Show(d, FALSE)
    /\ loadedFirst' = [loadedFirst EXCEPT ![d] = FALSE]
    /\ UNCHANGED <<storeVars, checkoutVars, started>>
    /\ UNCHANGED <<load, seen, enabled, picked>>

\* Setting purchaseTickets enables the button whenever the cost is positive,
\* whatever the allowance is. The sheet captures the number of seats.
Buy(d) ==
    /\ Touchable(d)
    /\ shown[d]
    /\ picked[d] * Price > 0
    /\ stage' = [stage EXCEPT ![d] = "sheet"]
    /\ order' = [order EXCEPT ![d] =
                    [seats |-> picked[d],
                     basis |-> IF loadedFirst[d] THEN Ids(seen[d])
                                                 ELSE {NoOrder}]]
    /\ Show(d, FALSE)
    /\ loadedFirst' = [loadedFirst EXCEPT ![d] = FALSE]
    /\ UNCHANGED <<storeVars, started, paid, load, seen, enabled, picked>>

(***************************************************************************)
(* The confirmation sheet and PayPal.                                      *)
(***************************************************************************)
ConfirmPurchase(d) ==
    /\ stage[d] = "sheet"
    /\ stage' = [stage EXCEPT ![d] = "paypal"]
    /\ UNCHANGED <<storeVars, screenVars, started, order, paid>>

CancelSheet(d) ==
    /\ stage[d] = "sheet"
    /\ ResetCheckout(d)
    /\ UNCHANGED <<storeVars, screenVars, started>>

\* The approval is PayPal's; the application learns of it in PayPalReturns.
PayPalApproves(d) ==
    /\ stage[d] = "paypal"
    /\ \E i \in OrderIds \ Ids(approved) :
          /\ approved' = approved \cup
                 {[id |-> i, user |-> AuthUser[d],
                   seats |-> order[d].seats, basis |-> order[d].basis]}
          /\ paid' = [paid EXCEPT ![d] = i]
    /\ stage' = [stage EXCEPT ![d] = "approved"]
    /\ UNCHANGED <<tickets, writes, screenVars, started, order>>

\* Mutants: the counter starts at 0; it counts the tickets not yet answered.
BookingNumberFromZero(d) == Cardinality(seen[d])
BookingNumberOfQueue(d) == Cardinality(writes[d]) + 1

\* bookingID: the counter is taken from the tickets the screen has loaded.
BookingNumber(d) == Cardinality(seen[d]) + 1

\* Mutants: the seats are read from the picker when PayPal has answered; the
\* ticket is filed under the workshop's uid.
TicketAsPickedNow(d) == [id |-> paid[d], user |-> AuthUser[d],
                         seats |-> picked[d], number |-> BookingNumber(d)]
TicketOfOrganizer(d) == [id |-> paid[d], user |-> Organizer,
                         seats |-> order[d].seats, number |-> BookingNumber(d)]

NewTicket(d) == [id |-> paid[d], user |-> AuthUser[d],
                 seats |-> order[d].seats, number |-> BookingNumber(d)]

\* updatePurchase gives up without a word when self.user is nil.
PayPalReturns(d) ==
    /\ stage[d] = "approved"
    /\ writes' = IF HasUser(d)
                 THEN [writes EXCEPT ![d] = @ \cup {NewTicket(d)}]
                 ELSE writes
    /\ ResetCheckout(d)
    /\ UNCHANGED <<tickets, approved, screenVars, started>>

\* An error, or the member cancelled on PayPal's page: an alert is shown.
PayPalFails(d) ==
    /\ stage[d] = "paypal"
    /\ stage' = [stage EXCEPT ![d] = "canceled"]
    /\ UNCHANGED <<storeVars, screenVars, started, order, paid>>

\* "Ok" on that alert dismisses the whole screen.
DismissCanceled(d) ==
    /\ stage[d] = "canceled"
    /\ ResetCheckout(d)
    /\ ResetScreen(d, "closed")
    /\ UNCHANGED <<storeVars, started>>

(***************************************************************************)
(* The server's answer to a queued ticket. Neither answer changes what the *)
(* screen has loaded; a refusal is only printed.                           *)
(***************************************************************************)
CommitTicket(d, t) ==
    /\ t \in writes[d]
    /\ tickets' = tickets \cup {t}
    /\ writes' = [writes EXCEPT ![d] = @ \ {t}]
    /\ UNCHANGED <<approved, screenVars, checkoutVars, started>>

RejectTicket(d, t) ==
    /\ "reject" \in Events
    /\ t \in writes[d]
    /\ writes' = [writes EXCEPT ![d] = @ \ {t}]
    /\ UNCHANGED <<tickets, approved, screenVars, checkoutVars, started>>

(***************************************************************************)
(* Leaving the screen, the end of the application, and time.               *)
(***************************************************************************)
CloseScreen(d) ==
    /\ Touchable(d)
    /\ ResetScreen(d, "closed")
    /\ UNCHANGED <<storeVars, checkoutVars, started>>

\* The queued writes are on the device's disk and survive.
AppKilled(d) ==
    /\ "kill" \in Events
    /\ load[d] # "closed"
    /\ ResetScreen(d, "closed")
    /\ ResetCheckout(d)
    /\ UNCHANGED <<storeVars, started>>

WorkshopStarts ==
    /\ "start" \in Events
    /\ ~started
    /\ started' = TRUE
    /\ UNCHANGED <<storeVars, screenVars, checkoutVars>>

-----------------------------------------------------------------------------
Loading(d) == OpenScreen(d) \/ UserLoads(d) \/ UserMissing(d)
                 \/ TicketsArrive(d) \/ TicketsFail(d)

Choosing(d) == BookSeat(d) \/ PickSeats(d) \/ CloseView(d) \/ Buy(d)

Paying(d) == ConfirmPurchase(d) \/ CancelSheet(d) \/ PayPalApproves(d)
                \/ PayPalReturns(d) \/ PayPalFails(d) \/ DismissCanceled(d)

Answered(d) == \E t \in writes[d] : CommitTicket(d, t) \/ RejectTicket(d, t)

Leaving(d) == CloseScreen(d) \/ AppKilled(d)

Next ==
    \/ \E d \in Devices : Loading(d) \/ Choosing(d) \/ Paying(d)
                             \/ Answered(d) \/ Leaving(d)
    \/ WorkshopStarts

Spec == Init /\ [][Next]_vars

\* PayPal's completion handler is called, and the SDK sends a queued document
\* again until the server answers. Members are under no obligation.
Fairness ==
    \A d \in Devices : WF_vars(PayPalReturns(d)) /\ WF_vars(Answered(d))

FairSpec == Spec /\ Fairness

-----------------------------------------------------------------------------
(***************************************************************************)
(* Properties                                                              *)
(***************************************************************************)

\* The values of the variables are of the kinds declared above.
TypeOK ==
    /\ tickets \subseteq Ticket
    /\ writes \in [Devices -> SUBSET Ticket]
    /\ approved \subseteq Approval
    /\ started \in BOOLEAN
    /\ load \in [Devices -> LoadStates]
    /\ seen \in [Devices -> SUBSET Ticket]
    /\ enabled \in [Devices -> BOOLEAN]
    /\ shown \in [Devices -> BOOLEAN]
    /\ picked \in [Devices -> SeatCounts]
    /\ loadedFirst \in [Devices -> BOOLEAN]
    /\ stage \in [Devices -> Stages]
    /\ order \in [Devices -> Order]
    /\ paid \in [Devices -> OrderIds \cup {NoOrder}]

AllTickets == tickets \cup UNION {writes[d] : d \in Devices}

PaidFor(t) == \E o \in approved : /\ o.id = t.id
                                  /\ o.user = t.user
                                  /\ o.seats = t.seats

\* Every ticket, on the server or still queued, is for an approved purchase,
\* of the member who paid and for the seats that were paid; a purchase has at
\* most one ticket. The number of seats is captured when "Buy" is pressed and
\* used after PayPal's answer, while the reply with the tickets resets the
\* picker in between (WorkshopDetailsVC.swift, paymentAction, updatePurchase).
TicketsPaidFor ==
    /\ \A t \in AllTickets : PaidFor(t)
    /\ \A t, u \in AllTickets : t.id = u.id => t = u
    /\ \A d, e \in Devices : d # e => writes[d] \cap writes[e] = {}
    /\ \A d \in Devices : writes[d] \cap tickets = {}

\* A screen that has loaded the tickets never has more seats picked than its
\* member may still buy, one seat excepted, although the picker could be used
\* before the tickets were there (PurchasedTicketView.swift, reloadData).
PickedWithinAllowance ==
    \A d \in Devices : load[d] = "ready" =>
        picked[d] = 1 \/ picked[d] <= Allowed(d)

\* Purchases made one after the other: each was ordered on a screen whose
\* "Book" was pressed after its tickets were loaded, and of two purchases one
\* was among the tickets the other's screen had loaded.
Serial(orders) ==
    /\ \A o \in orders : NoOrder \notin o.basis
    /\ \A o, p \in orders : o # p => o.id \in p.basis \/ p.id \in o.basis

OrdersOf(m) == {o \in approved : o.user = m}

TicketsOf(m) == {t \in tickets : t.user = m}

\* A member whose purchases were made one after the other holds no more than
\* K_MaxAllowedTicket seats, on whatever devices they were made.
SerialLimit ==
    \A m \in Members : Serial(OrdersOf(m)) =>
        Seats(TicketsOf(m)) <= K_MaxAllowedTicket

\* When the purchases of all members were made one after the other, their
\* tickets have different booking identifiers (bookingID counts the tickets
\* the screen has loaded, not those on the server).
SerialBookingIds ==
    Serial(approved) => \A t, u \in tickets : t.number = u.number => t = u

\* Once PayPal has approved the purchase of a screen that knows its member,
\* the ticket gets to the server, when the application is not killed before
\* PayPal's answer and the server does not refuse the document.
PaidGetsTicket ==
    \A i \in OrderIds :
        (\E d \in Devices : /\ stage[d] = "approved"
                            /\ paid[d] = i
                            /\ load[d] \notin {"user", "nouser"})
            ~> (i \in Ids(tickets))

\* The ledger this module implements: the approved purchases are its account,
\* the documents on the server are the tickets it has issued.
Bare(S) == {[id |-> t.id, user |-> t.user, seats |-> t.seats] : t \in S}

Ledger == INSTANCE TicketLedger
              WITH MaxSeats <- K_MaxAllowedTicket,
                   account <- Bare(approved), issued <- Bare(tickets)

\* Every step enters one new purchase, issues the ticket of one that has none,
\* or is invisible to the ledger.
ImplementsLedger == Ledger!LedgerSpec

\* The limit as the code names it (K_MaxAllowedTicket) and as the purchase
\* view words it ("you can now buy ... more").
MemberLimit ==
    \A m \in Members : Seats(TicketsOf(m)) <= K_MaxAllowedTicket
=============================================================================
