----------------------- MODULE WorkshopBooking_proofs -----------------------
(***************************************************************************)
(* What holds of WorkshopBooking for every set of members, devices and     *)
(* purchases: the types, that tickets and approved purchases correspond,   *)
(* that a loaded screen offers no more than the allowance, that purchases  *)
(* made one after another keep to the limit and get different numbers, and *)
(* that every step is one of the ledger's or invisible to it.              *)
(***************************************************************************)
EXTENDS WorkshopBooking, FiniteSetTheorems, Integers, TLAPS

-----------------------------------------------------------------------------
(***************************************************************************)
(* Types. bookingID counts the loaded tickets, so the type of a ticket     *)
(* rests on the sets of tickets being finite; and it is only written for a *)
(* device whose purchase has an identity.                                  *)
(***************************************************************************)
FiniteTickets ==
    /\ IsFiniteSet(tickets)
    /\ \A d \in Devices : IsFiniteSet(writes[d]) /\ IsFiniteSet(seen[d])

\* PayPal's answer is on its way to the device.
Returning(d) == stage[d] = "approved"

ReturningNamed == \A d \in Devices : Returning(d) => paid[d] \in OrderIds

TypeInv == TypeOK /\ FiniteTickets /\ ReturningNamed

LEMMA TypeInit == Init => TypeInv
<1> SUFFICES ASSUME Init PROVE TypeInv
    OBVIOUS
<1>1. NoDraft \in Order
    BY DEF NoDraft, Order, Basis, SeatCounts, K_MaxAllowedTicket
<1>2. TypeOK
    <2>1. 1 \in SeatCounts
        BY DEF SeatCounts, K_MaxAllowedTicket
    <2>2. "closed" \in LoadStates /\ "none" \in Stages
        BY DEF LoadStates, Stages
    <2> QED  BY <1>1, <2>1, <2>2 DEF Init, TypeOK
<1>3. FiniteTickets /\ ReturningNamed
    BY FS_EmptySet DEF Init, FiniteTickets, ReturningNamed, Returning
<1> QED  BY <1>2, <1>3 DEF TypeInv

LEMMA ResetScreenType ==
    ASSUME TypeOK, NEW d \in Devices, NEW state \in LoadStates,
           ResetScreen(d, state)
    PROVE  /\ load' \in [Devices -> LoadStates]
           /\ seen' \in [Devices -> SUBSET Ticket]
           /\ enabled' \in [Devices -> BOOLEAN]
           /\ shown' \in [Devices -> BOOLEAN]
           /\ picked' \in [Devices -> SeatCounts]
           /\ loadedFirst' \in [Devices -> BOOLEAN]
           /\ \A e \in Devices : seen'[e] \in {{}, seen[e]}
BY DEF TypeOK, ResetScreen, SeatCounts, K_MaxAllowedTicket

LEMMA ResetCheckoutType ==
    ASSUME TypeOK, NEW d \in Devices, ResetCheckout(d)
    PROVE  /\ stage' \in [Devices -> Stages]
           /\ order' \in [Devices -> Order]
           /\ paid' \in [Devices -> OrderIds \cup {NoOrder}]
           /\ stage'[d] = "none"
           /\ \A e \in Devices \ {d} : /\ stage'[e] = stage[e]
                                       /\ order'[e] = order[e]
                                       /\ paid'[e] = paid[e]
BY DEF TypeOK, ResetCheckout, Stages, NoDraft, Order, Basis, SeatCounts,
       K_MaxAllowedTicket

LEMMA LoadingType ==
    ASSUME TypeInv, NEW d \in Devices, Loading(d)
    PROVE  TypeInv'
<1> USE DEF TypeInv, FiniteTickets, ReturningNamed, Returning,
            storeVars, checkoutVars
<1>1. CASE OpenScreen(d)
    BY <1>1, ResetScreenType, FS_EmptySet
    DEF OpenScreen, TypeOK, LoadStates
<1>2. CASE UserLoads(d)
    BY <1>2 DEF UserLoads, TypeOK, LoadStates
<1>3. CASE UserMissing(d)
    BY <1>3 DEF UserMissing, TypeOK, LoadStates
<1>4. CASE TicketsArrive(d)
    <2>1. IsFiniteSet(tickets \cup writes[d])
        BY FS_Union
    <2>2. enabled' \in [Devices -> BOOLEAN]
        <3>1. CASE Blocks(d, tickets \cup writes[d])
            BY <1>4, <3>1 DEF TicketsArrive, TypeOK
        <3>2. CASE ~Blocks(d, tickets \cup writes[d])
            BY <1>4, <3>2 DEF TicketsArrive, TypeOK
        <3> QED  BY <3>1, <3>2
    <2> QED
        BY <1>4, <2>1, <2>2
        DEF TicketsArrive, ReloadView, TypeOK, LoadStates, SeatCounts, K_MaxAllowedTicket
<1>5. CASE TicketsFail(d)
    BY <1>5 DEF TicketsFail, TypeOK, LoadStates
<1> QED  BY <1>1, <1>2, <1>3, <1>4, <1>5 DEF Loading

LEMMA ChoosingType ==
    ASSUME TypeInv, NEW d \in Devices, Choosing(d)
    PROVE  TypeInv'
<1> USE DEF TypeInv, TypeOK, FiniteTickets, ReturningNamed, Returning,
            storeVars, checkoutVars
<1>1. CASE BookSeat(d)
    <2>1. loadedFirst' \in [Devices -> BOOLEAN]
        <3>1. CASE load[d] = "ready"
            BY <1>1, <3>1 DEF BookSeat
        <3>2. CASE load[d] # "ready"
            BY <1>1, <3>2 DEF BookSeat
        <3> QED  BY <3>1, <3>2
    <2> QED  BY <1>1, <2>1 DEF BookSeat, Show
<1>2. CASE PickSeats(d)
    BY <1>2, BookingAssumption DEF PickSeats, SeatCounts, K_MaxAllowedTicket
<1>3. CASE CloseView(d)
    BY <1>3 DEF CloseView, Show
<1>4. CASE Buy(d)
    <2>1. Ids(seen[d]) \in Basis /\ {NoOrder} \in Basis
        BY DEF Ids, Ticket, Basis
    <2>2. order' \in [Devices -> Order]
        BY <1>4, <2>1 DEF Buy, Order
    <2> QED  BY <1>4, <2>2 DEF Buy, Show, Stages
<1> QED  BY <1>1, <1>2, <1>3, <1>4 DEF Choosing

LEMMA PayingType ==
    ASSUME TypeInv, NEW d \in Devices, Paying(d)
    PROVE  TypeInv'
<1> USE DEF TypeInv, FiniteTickets, ReturningNamed, Returning,
            storeVars, screenVars
<1>1. CASE ConfirmPurchase(d)
    BY <1>1 DEF ConfirmPurchase, TypeOK, Stages
<1>2. CASE CancelSheet(d)
    BY <1>2, ResetCheckoutType DEF CancelSheet, TypeOK
<1>3. CASE PayPalApproves(d)
    <2>1. approved' \subseteq Approval
        <3>1. /\ AuthUser[d] \in Members
              /\ order[d].seats \in SeatCounts
              /\ order[d].basis \in Basis
            BY BookingAssumption DEF TypeOK, Order
        <3> QED  BY <1>3, <3>1 DEF PayPalApproves, Approval, TypeOK
    <2>2. /\ paid' \in [Devices -> OrderIds \cup {NoOrder}]
          /\ paid'[d] \in OrderIds
          /\ \A e \in Devices \ {d} : paid'[e] = paid[e]
        BY <1>3 DEF PayPalApproves, TypeOK
    <2> QED  BY <1>3, <2>1, <2>2 DEF PayPalApproves, TypeOK, Stages
<1>4. CASE PayPalReturns(d)
    <2>1. writes' \in [Devices -> SUBSET Ticket]
          /\ \A e \in Devices : IsFiniteSet(writes'[e])
        <3> DEFINE t == NewTicket(d)
        <3>1. CASE HasUser(d)
            <4>1. BookingNumber(d) \in Nat \ {0}
                BY FS_CardinalityType DEF BookingNumber
            <4>2. t \in Ticket
                BY <1>4, <4>1, BookingAssumption
                DEF PayPalReturns, NewTicket, Ticket, Order, TypeOK
            <4>3. IsFiniteSet(writes[d] \cup {t})
                BY FS_AddElement
            <4>4. writes' = [writes EXCEPT ![d] = @ \cup {t}]
                BY <1>4, <3>1 DEF PayPalReturns
            <4> QED  BY <4>2, <4>3, <4>4 DEF TypeOK
        <3>2. CASE ~HasUser(d)
            BY <1>4, <3>2 DEF PayPalReturns, TypeOK
        <3> QED  BY <3>1, <3>2
    <2> QED  BY <1>4, <2>1, ResetCheckoutType DEF PayPalReturns, TypeOK
<1>5. CASE PayPalFails(d)
    BY <1>5 DEF PayPalFails, TypeOK, Stages
<1>6. CASE DismissCanceled(d)
    BY <1>6, ResetCheckoutType, ResetScreenType, FS_EmptySet
    DEF DismissCanceled, TypeOK, LoadStates
<1> QED  BY <1>1, <1>2, <1>3, <1>4, <1>5, <1>6 DEF Paying

LEMMA OtherType ==
    ASSUME TypeInv,
           \/ \E d \in Devices : Answered(d) \/ Leaving(d)
           \/ WorkshopStarts
    PROVE  TypeInv'
<1> USE DEF TypeInv, FiniteTickets, ReturningNamed, Returning,
            storeVars, screenVars, checkoutVars
<1>1. ASSUME NEW d \in Devices, NEW t \in writes[d], CommitTicket(d, t)
      PROVE  TypeInv'
    <2>1. IsFiniteSet(tickets \cup {t}) /\ IsFiniteSet(writes[d] \ {t})
        BY FS_AddElement, FS_RemoveElement
    <2> QED  BY <1>1, <2>1 DEF CommitTicket, TypeOK
<1>2. ASSUME NEW d \in Devices, NEW t \in writes[d], RejectTicket(d, t)
      PROVE  TypeInv'
    <2>1. IsFiniteSet(writes[d] \ {t})
        BY FS_RemoveElement
    <2> QED  BY <1>2, <2>1 DEF RejectTicket, TypeOK
<1>3. ASSUME NEW d \in Devices, CloseScreen(d)
      PROVE  TypeInv'
    BY <1>3, ResetScreenType, FS_EmptySet DEF CloseScreen, TypeOK, LoadStates
<1>4. ASSUME NEW d \in Devices, AppKilled(d)
      PROVE  TypeInv'
    BY <1>4, ResetScreenType, ResetCheckoutType, FS_EmptySet
    DEF AppKilled, TypeOK, LoadStates
<1>5. CASE WorkshopStarts
    BY <1>5 DEF WorkshopStarts, TypeOK
<1> QED  BY <1>1, <1>2, <1>3, <1>4, <1>5 DEF Answered, Leaving

LEMMA TypeNext == TypeInv /\ [Next]_vars => TypeInv'
<1> SUFFICES ASSUME TypeInv, [Next]_vars PROVE TypeInv'
    OBVIOUS
<1>1. CASE Next
    BY <1>1, LoadingType, ChoosingType, PayingType, OtherType DEF Next
<1>2. CASE UNCHANGED vars
    BY <1>2 DEF vars, storeVars, screenVars, checkoutVars,
                TypeInv, TypeOK, FiniteTickets, ReturningNamed, Returning
<1> QED  BY <1>1, <1>2

LEMMA TypeInvariant == Spec => []TypeInv
BY TypeInit, TypeNext, PTL DEF Spec

\* The variables keep to their types whatever the replies and the checkout
\* do: in particular a ticket is only written for a purchase that has an
\* identity, and the counter in its bookingID is a positive number
\* (WorkshopDetailsVC.swift, updatePurchase and bookingID).
THEOREM TypeCorrect == Spec => []TypeOK
BY TypeInvariant, PTL DEF TypeInv

-----------------------------------------------------------------------------
(***************************************************************************)
(* Payments and tickets. TicketsPaidFor is not inductive alone: that the   *)
(* ticket PayPalReturns writes is the first for its purchase rests on the  *)
(* purchase of a device waiting for PayPal's answer having none yet.       *)
(***************************************************************************)
ApprovedOnce == \A o, p \in approved : o.id = p.id => o = p

ReturningPaid ==
    \A d \in Devices : Returning(d) =>
        /\ \E o \in approved : /\ o.id = paid[d]
                               /\ o.user = AuthUser[d]
                               /\ o.seats = order[d].seats
        /\ \A t \in AllTickets : t.id # paid[d]
        /\ \A e \in Devices \ {d} : Returning(e) => paid[e] # paid[d]

\* The inductive invariant behind TicketsPaidFor.
PaymentInv == ApprovedOnce /\ ReturningPaid /\ TicketsPaidFor

LEMMA PaymentInit == Init => PaymentInv
BY DEF Init, PaymentInv, ApprovedOnce, ReturningPaid, Returning,
       TicketsPaidFor, AllTickets

\* A step that leaves the store alone and brings no answer of PayPal.
Quiet ==
    /\ UNCHANGED storeVars
    /\ \A e \in Devices : Returning(e)' =>
          Returning(e) /\ paid'[e] = paid[e] /\ order'[e] = order[e]

LEMMA QuietPayment == PaymentInv /\ Quiet => PaymentInv'
BY DEF PaymentInv, Quiet, storeVars, ApprovedOnce, ReturningPaid, Returning,
       TicketsPaidFor, AllTickets, PaidFor

LEMMA QuietSteps ==
    ASSUME TypeInv, NEW d \in Devices,
           \/ Loading(d) \/ Choosing(d) \/ Leaving(d)
           \/ ConfirmPurchase(d) \/ CancelSheet(d)
           \/ PayPalFails(d) \/ DismissCanceled(d)
    PROVE  Quiet
<1> USE DEF Quiet, Returning, checkoutVars, TypeInv, TypeOK
<1>1. CASE Loading(d)
    BY <1>1 DEF Loading, OpenScreen, UserLoads, UserMissing, TicketsArrive,
                TicketsFail
<1>2. CASE Choosing(d)
    BY <1>2 DEF Choosing, BookSeat, PickSeats, CloseView, Buy
<1>3. CASE Leaving(d)
    BY <1>3, ResetCheckoutType DEF Leaving, CloseScreen, AppKilled
<1>4. CASE ConfirmPurchase(d)
    BY <1>4 DEF ConfirmPurchase
<1>5. CASE CancelSheet(d)
    BY <1>5, ResetCheckoutType DEF CancelSheet
<1>6. CASE PayPalFails(d)
    BY <1>6 DEF PayPalFails
<1>7. CASE DismissCanceled(d)
    BY <1>7, ResetCheckoutType DEF DismissCanceled
<1> QED  BY <1>1, <1>2, <1>3, <1>4, <1>5, <1>6, <1>7

\* PayPal approves: the new identity is that of no purchase, so of no ticket.
LEMMA ApprovesPayment ==
    ASSUME TypeInv, PaymentInv, NEW d \in Devices, PayPalApproves(d)
    PROVE  PaymentInv'
<1> USE DEF PaymentInv
<1>1. PICK i \in OrderIds \ Ids(approved) :
         /\ approved' = approved \cup
                {[id |-> i, user |-> AuthUser[d],
                  seats |-> order[d].seats, basis |-> order[d].basis]}
         /\ paid' = [paid EXCEPT ![d] = i]
    BY DEF PayPalApproves
<1>2. /\ AllTickets' = AllTickets
      /\ UNCHANGED <<tickets, writes, order>>
      /\ stage' = [stage EXCEPT ![d] = "approved"]
    BY DEF PayPalApproves, AllTickets
<1>3. \A o \in approved : o.id # i
    BY DEF Ids
<1>4. ApprovedOnce'
    BY <1>1, <1>3 DEF ApprovedOnce
<1>5. TicketsPaidFor'
    BY <1>1, <1>2 DEF TicketsPaidFor, PaidFor
<1>6. \A t \in AllTickets : t.id # i
    BY <1>3 DEF TicketsPaidFor, PaidFor
<1>7. \A e \in Devices : Returning(e) => paid[e] # i
    BY <1>3 DEF ReturningPaid
<1>8. ReturningPaid'
    <2> SUFFICES ASSUME NEW e \in Devices, Returning(e)'
                 PROVE  /\ \E o \in approved' : /\ o.id = paid'[e]
                                                /\ o.user = AuthUser[e]
                                                /\ o.seats = order'[e].seats
                        /\ \A t \in AllTickets' : t.id # paid'[e]
                        /\ \A f \in Devices \ {e} :
                              Returning(f)' => paid'[f] # paid'[e]
        BY DEF ReturningPaid
    <2>1. CASE e = d
        <3>1. paid'[d] = i /\ \A f \in Devices \ {d} : paid'[f] = paid[f]
            BY <1>1 DEF TypeInv, TypeOK
        <3>2. \E o \in approved' : /\ o.id = i
                                   /\ o.user = AuthUser[d]
                                   /\ o.seats = order'[d].seats
            <4> DEFINE new == [id |-> i, user |-> AuthUser[d],
                               seats |-> order[d].seats,
                               basis |-> order[d].basis]
            <4>1. new \in approved'
                BY <1>1
            <4>2. new.id = i /\ new.user = AuthUser[d] /\ new.seats = order'[d].seats
                BY <1>2
            <4> QED  BY <4>1, <4>2
        <3>3. \A f \in Devices \ {d} : Returning(f)' => Returning(f)
            BY <1>2 DEF Returning, TypeInv, TypeOK
        <3> QED  BY <1>2, <1>6, <1>7, <2>1, <3>1, <3>2, <3>3
    <2>2. CASE e # d
        <3>1. Returning(e) /\ paid'[e] = paid[e] /\ order'[e] = order[e]
            BY <1>1, <1>2, <2>2 DEF Returning, TypeInv, TypeOK
        <3> QED
            BY <1>1, <1>2, <1>7, <3>1
            DEF ReturningPaid, Returning, TypeInv, TypeOK
    <2> QED  BY <2>1, <2>2
<1> QED  BY <1>4, <1>5, <1>8

\* The answer arrives: the ticket queued is the first with that identity.
LEMMA ReturnsPayment ==
    ASSUME TypeInv, PaymentInv, NEW d \in Devices, PayPalReturns(d)
    PROVE  PaymentInv'
<1> USE DEF PaymentInv
<1>1. UNCHANGED <<tickets, approved>> /\ ResetCheckout(d) /\ Returning(d)
    BY DEF PayPalReturns, Returning
<1>2. \A e \in Devices : Returning(e)' =>
         e # d /\ Returning(e) /\ paid'[e] = paid[e] /\ order'[e] = order[e]
    BY <1>1, ResetCheckoutType DEF Returning, TypeInv
<1>3. CASE ~HasUser(d)
    <2>1. UNCHANGED <<tickets, writes, approved>>
        BY <1>1, <1>3 DEF PayPalReturns
    <2>2. Quiet
        BY <1>2, <2>1 DEF Quiet, storeVars
    <2> QED  BY <2>2, QuietPayment
<1>4. CASE HasUser(d)
    <2> DEFINE new == NewTicket(d)
    <2>1. writes' = [writes EXCEPT ![d] = @ \cup {new}]
        BY <1>4 DEF PayPalReturns
    <2>2. PaidFor(new) /\ \A t \in AllTickets : t.id # new.id
        BY <1>1 DEF ReturningPaid, PaidFor, NewTicket
    <2>3. new \notin AllTickets /\ new.id = paid[d]
        BY <2>2 DEF NewTicket
    <2> HIDE DEF new
    <2>4. /\ writes'[d] = writes[d] \cup {new}
          /\ \A e \in Devices \ {d} : writes'[e] = writes[e]
        BY <2>1 DEF TypeInv, TypeOK
    <2>5. AllTickets' = AllTickets \cup {new}
        BY <1>1, <2>4 DEF AllTickets
    <2>6. \A t \in AllTickets' : PaidFor(t)'
        BY <1>1, <2>2, <2>5 DEF TicketsPaidFor, PaidFor
    <2>7. \A t, u \in AllTickets' : t.id = u.id => t = u
        BY <2>2, <2>5 DEF TicketsPaidFor
    <2>8. /\ \A e, f \in Devices : e # f => writes'[e] \cap writes'[f] = {}
          /\ \A e \in Devices : writes'[e] \cap tickets' = {}
        BY <1>1, <2>3, <2>4 DEF TicketsPaidFor, AllTickets
    <2>9. ReturningPaid'
        <3> SUFFICES ASSUME NEW e \in Devices, Returning(e)'
                     PROVE  /\ \E o \in approved' : /\ o.id = paid'[e]
                                                    /\ o.user = AuthUser[e]
                                                    /\ o.seats = order'[e].seats
                            /\ \A t \in AllTickets' : t.id # paid'[e]
                            /\ \A f \in Devices \ {e} :
                                  Returning(f)' => paid'[f] # paid'[e]
            BY DEF ReturningPaid
        <3>1. paid[e] # paid[d]
            BY <1>1, <1>2 DEF ReturningPaid
        <3>2. \A t \in AllTickets' : t.id # paid'[e]
            BY <1>2, <2>3, <2>5, <3>1 DEF ReturningPaid
        <3> QED  BY <1>1, <1>2, <3>2 DEF ReturningPaid
    <2> QED
        BY <1>1, <2>6, <2>7, <2>8, <2>9 DEF ApprovedOnce, TicketsPaidFor
<1> QED  BY <1>3, <1>4

\* The server's answers only move a ticket or take it away.
LEMMA AnsweredPayment ==
    ASSUME TypeInv, PaymentInv, NEW d \in Devices, Answered(d)
    PROVE  PaymentInv'
<1> USE DEF PaymentInv
<1>1. PICK t \in writes[d] :
         /\ tickets' = tickets \/ tickets' = tickets \cup {t}
         /\ writes' = [writes EXCEPT ![d] = @ \ {t}]
         /\ UNCHANGED <<approved, checkoutVars>>
    BY DEF Answered, CommitTicket, RejectTicket
<1>2. /\ writes'[d] = writes[d] \ {t}
      /\ \A e \in Devices \ {d} : writes'[e] = writes[e]
    BY <1>1 DEF TypeInv, TypeOK
<1>3. AllTickets' \subseteq AllTickets
    BY <1>1, <1>2 DEF AllTickets
<1>4. /\ \A e, f \in Devices : e # f => writes'[e] \cap writes'[f] = {}
      /\ \A e \in Devices : writes'[e] \cap tickets' = {}
    BY <1>1, <1>2 DEF TicketsPaidFor
<1>5. TicketsPaidFor'
    BY <1>1, <1>3, <1>4 DEF TicketsPaidFor, PaidFor
<1>6. ReturningPaid'
    BY <1>1, <1>3 DEF ReturningPaid, Returning, checkoutVars
<1> QED  BY <1>1, <1>5, <1>6 DEF ApprovedOnce

LEMMA PaymentNext == TypeInv /\ PaymentInv /\ [Next]_vars => PaymentInv'
<1> SUFFICES ASSUME TypeInv, PaymentInv, [Next]_vars PROVE PaymentInv'
    OBVIOUS
<1>1. ASSUME NEW d \in Devices, Loading(d) \/ Choosing(d) \/ Leaving(d)
      PROVE  PaymentInv'
    BY <1>1, QuietSteps, QuietPayment
<1>2. ASSUME NEW d \in Devices, Paying(d)
      PROVE  PaymentInv'
    BY <1>2, QuietSteps, QuietPayment, ApprovesPayment, ReturnsPayment DEF Paying
<1>3. ASSUME NEW d \in Devices, Answered(d)
      PROVE  PaymentInv'
    BY <1>3, AnsweredPayment
<1>4. CASE WorkshopStarts \/ UNCHANGED vars
    <2>1. Quiet
        BY <1>4 DEF WorkshopStarts, Quiet, Returning, vars, checkoutVars
    <2> QED  BY <2>1, QuietPayment
<1> QED  BY <1>1, <1>2, <1>3, <1>4 DEF Next

LEMMA PaymentInvariant == Spec => []PaymentInv
<1>1. TypeInv /\ PaymentInv /\ [Next]_vars => PaymentInv'
    BY PaymentNext
<1> QED  BY <1>1, PaymentInit, TypeInvariant, PTL DEF Spec

\* Every ticket, on the server or still queued, is for an approved purchase,
\* of the member and for the seats that were paid, and a purchase has one
\* ticket at most, however the replies, the sheet, PayPal's answer and the
\* end of the application interleave (WorkshopDetailsVC.swift, updatePurchase).
THEOREM TicketsArePaidFor == Spec => []TicketsPaidFor
BY PaymentInvariant, PTL DEF PaymentInv

-----------------------------------------------------------------------------
(***************************************************************************)
(* The picker. Before the tickets are there a screen has loaded none, and  *)
(* more seats than one are picked only within the allowance.               *)
(***************************************************************************)
PickInv == \A d \in Devices : picked[d] = 1 \/ picked[d] <= Allowed(d)

LEMMA PickNext == TypeInv /\ PickInv /\ [Next]_vars => PickInv'
<1> SUFFICES ASSUME TypeInv, PickInv, [Next]_vars, NEW e \in Devices
             PROVE  picked'[e] = 1 \/ picked'[e] <= Allowed(e)'
    BY DEF PickInv
<1> USE DEF TypeInv, TypeOK, screenVars
<1> DEFINE Kept(f) == picked'[f] = picked[f] /\ seen'[f] = seen[f]
<1>1. CASE Kept(e)
    BY <1>1 DEF PickInv, Allowed, MyTickets
<1>2. ASSUME NEW d \in Devices, NEW state \in LoadStates,
             ResetScreen(d, state)
      PROVE  picked'[e] = 1 \/ Kept(e)
    BY <1>2 DEF ResetScreen
<1>3. ASSUME NEW d \in Devices, Loading(d)
      PROVE  picked'[e] = 1 \/ Kept(e)
    BY <1>2, <1>3 DEF Loading, OpenScreen, UserLoads, UserMissing,
                      TicketsArrive, ReloadView, TicketsFail, LoadStates
<1>4. ASSUME NEW d \in Devices, Choosing(d)
      PROVE  picked'[e] = 1 \/ picked'[e] <= Allowed(e)'
    <2>1. CASE PickSeats(d)
        <3>1. PICK n \in Picks : n <= Allowed(d) /\ picked' = [picked EXCEPT ![d] = n]
            BY <2>1 DEF PickSeats
        <3>2. Allowed(e)' = Allowed(e)
            BY <2>1 DEF PickSeats, Allowed, MyTickets
        <3> QED  BY <3>1, <3>2 DEF PickInv
    <2>2. CASE ~PickSeats(d)
        BY <1>1, <1>4, <2>2 DEF Choosing, BookSeat, CloseView, Buy
    <2> QED  BY <2>1, <2>2
<1>5. ASSUME NEW d \in Devices, Paying(d)
      PROVE  picked'[e] = 1 \/ Kept(e)
    BY <1>2, <1>5
    DEF Paying, ConfirmPurchase, CancelSheet, PayPalApproves, PayPalReturns,
        PayPalFails, DismissCanceled, LoadStates
<1>6. ASSUME NEW d \in Devices, Leaving(d)
      PROVE  picked'[e] = 1 \/ Kept(e)
    BY <1>2, <1>6 DEF Leaving, CloseScreen, AppKilled, LoadStates
<1>7. ASSUME \/ \E d \in Devices : Answered(d)
             \/ WorkshopStarts
             \/ UNCHANGED vars
      PROVE  Kept(e)
    BY <1>7 DEF Answered, CommitTicket, RejectTicket, WorkshopStarts, vars
<1> QED  BY <1>1, <1>3, <1>4, <1>5, <1>6, <1>7 DEF Next

\* A screen that has loaded the tickets never has more seats picked than its
\* member may still buy, one excepted, although the picker worked before they
\* were there (PurchasedTicketView.swift, reloadData).
THEOREM PicksWithinAllowance == Spec => []PickedWithinAllowance
<1>1. Init => PickInv
    BY DEF Init, PickInv
<1>2. TypeInv /\ PickInv /\ [Next]_vars => PickInv'
    BY PickNext
<1>3. PickInv => PickedWithinAllowance
    BY DEF PickInv, PickedWithinAllowance
<1> QED  BY <1>1, <1>2, <1>3, TypeInvariant, PTL DEF Spec

-----------------------------------------------------------------------------
(***************************************************************************)
(* Seats. MapThenSumSet is a recursive function over the subsets of a set, *)
(* chosen by what defines it. That there is one is shown by induction over *)
(* the subsets, and that the seats of a set do not depend on the order in  *)
(* which its elements are taken.                                           *)
(***************************************************************************)
\* Of some subsets of a finite set one is least in the order of inclusion.
LEMMA MinimalSubset ==
    ASSUME NEW U, IsFiniteSet(U), NEW F, F \subseteq SUBSET U, F # {}
    PROVE  \E S \in F : \A T \in F : T \subseteq S => T = S
<1> DEFINE All == SUBSET U
           R == StrictSubsetOrdering(U)
<1>1. IsWellFoundedOn(R, All)
    BY FS_FiniteSubsetsOfFinite, FS_StrictSubsetOrderingWellFounded, Zenon
<1>2. F \subseteq All
    OBVIOUS
<1>3. \A S, T \in F : ~(<<T, S>> \in R) => (T \subseteq S => T = S)
    BY DEF StrictSubsetOrdering
<1> HIDE DEF All, R
<1>4. \E S \in F : \A T \in F : ~(<<T, S>> \in R)
    BY ONLY <1>1, <1>2, F # {}, WFMin, Zenon
<1> QED  BY ONLY <1>3, <1>4, Zenon

\* Induction over the subsets of a finite set.
LEMMA SubsetInduction ==
    ASSUME NEW U, IsFiniteSet(U), NEW P,
           \A S \in SUBSET U :
               (\A T \in SUBSET S : T # S => T \in P) => S \in P
    PROVE  \A S \in SUBSET U : S \in P
<1> DEFINE Bad == {S \in SUBSET U : S \notin P}
<1> SUFFICES ASSUME Bad # {} PROVE FALSE
    OBVIOUS
<1>1. Bad \subseteq SUBSET U
    OBVIOUS
<1>2. PICK S \in Bad : \A T \in Bad : T \subseteq S => T = S
    <2> HIDE DEF Bad
    <2> QED  BY ONLY <1>1, IsFiniteSet(U), Bad # {}, MinimalSubset
<1>3. PICK T \in SUBSET S : T # S /\ T \notin P
    BY <1>2
<1> QED  BY <1>2, <1>3

\* The element that is taken from s, and the recursion over the subsets of S.
OneOf(s) == CHOOSE x \in s : TRUE
SumStep(g, S) == [s \in SUBSET S |->
                     IF s = {} THEN 0 ELSE OneOf(s).seats + g[s \ {OneOf(s)}]]
SumFn(S) == CHOOSE g : g = SumStep(g, S)

\* Seats is the value of that function at the whole set.
LEMMA SeatsIsSum == \A S : Seats(S) = SumFn(S)[S]
BY DEF Seats, MapThenSumSet, MapThenFoldSet, SumFn, SumStep, OneOf

\* The functions for two sets agree on what is a subset of both.
LEMMA Agreement ==
    ASSUME NEW S, NEW U, IsFiniteSet(U), U \subseteq S,
           NEW g, g = SumStep(g, S), NEW h, h = SumStep(h, U)
    PROVE  g[U] = h[U]
<1> DEFINE P == {T \in SUBSET U : g[T] = h[T]}
<1>1. ASSUME NEW T \in SUBSET U, \A V \in SUBSET T : V # T => V \in P
      PROVE  T \in P
    <2>1. CASE T = {}
        <3>1. g[T] = 0
            BY <2>1 DEF SumStep
        <3>2. h[T] = 0
            BY <2>1 DEF SumStep
        <3> QED  BY <3>1, <3>2
    <2>2. CASE T # {}
        <3> DEFINE x == OneOf(T)
                   V == T \ {x}
        <3>1. x \in T
            BY <2>2 DEF OneOf
        <3>2. g[T] = x.seats + g[V]
            BY <2>2 DEF SumStep
        <3>3. h[T] = x.seats + h[V]
            BY <2>2 DEF SumStep
        <3>4. V \in P
            BY <1>1, <3>1
        <3> QED  BY <3>2, <3>3, <3>4
    <2> QED  BY <2>1, <2>2
<1> HIDE DEF P
<1>2. U \in P
    BY <1>1, SubsetInduction
<1> QED  BY <1>2 DEF P

\* What defines the function has a solution, so the chosen one is one.
LEMMA SumExists ==
    ASSUME NEW U, IsFiniteSet(U)
    PROVE  \A S \in SUBSET U : SumFn(S) = SumStep(SumFn(S), S)
<1> DEFINE P == {S \in SUBSET U : SumFn(S) = SumStep(SumFn(S), S)}
<1>1. ASSUME NEW S \in SUBSET U, \A T \in SUBSET S : T # S => T \in P
      PROVE  S \in P
    <2> DEFINE Val(T) == SumFn(T)[T]
               g == [T \in SUBSET S |->
                        IF T = {} THEN 0 ELSE OneOf(T).seats + Val(T \ {OneOf(T)})]
    <2>1. ASSUME NEW T \in SUBSET S, T # S PROVE g[T] = Val(T)
        <3>1. T \in P /\ SumFn(T) = SumStep(SumFn(T), T)
            BY <1>1, <2>1
        <3>2. CASE T = {}
            <4>1. SumFn(T)[T] = 0
                BY <3>1, <3>2 DEF SumStep
            <4> QED  BY <3>2, <4>1
        <3>3. CASE T # {}
            <4> DEFINE V == T \ {OneOf(T)}
            <4>1. OneOf(T) \in T
                BY <3>3 DEF OneOf
            <4>2. V \in SUBSET S /\ V # S /\ V \subseteq T
                BY <2>1, <4>1
            <4>3. SumFn(V) = SumStep(SumFn(V), V)
                BY <1>1, <4>2
            <4>4. IsFiniteSet(V)
                BY <4>2, FS_Subset
            <4>5. SumFn(T)[V] = SumFn(V)[V]
                <5> HIDE DEF V
                <5> QED  BY <3>1, <4>2, <4>3, <4>4, Agreement
            <4>6. SumFn(T)[T] = OneOf(T).seats + SumFn(T)[V]
                <5> DEFINE h == SumFn(T)
                <5>1. h = SumStep(h, T)
                    BY <3>1
                <5> HIDE DEF h
                <5>2. h[T] = SumStep(h, T)[T]
                    BY <5>1
                <5>3. SumStep(h, T)[T] = OneOf(T).seats + h[V]
                    BY <3>3 DEF SumStep
                <5> QED  BY <5>2, <5>3 DEF h
            <4> QED  BY <3>3, <4>5, <4>6
        <3> QED  BY <3>2, <3>3
    <2>2. g = SumStep(g, S)
        <3>1. ASSUME NEW T \in SUBSET S, T # {}
              PROVE  g[T] = OneOf(T).seats + g[T \ {OneOf(T)}]
            <4> DEFINE V == T \ {OneOf(T)}
            <4>1. OneOf(T) \in T
                BY <3>1 DEF OneOf
            <4>2. V \in SUBSET S /\ V # S
                BY <4>1
            <4>3. g[V] = Val(V)
                BY <2>1, <4>2
            <4> QED  BY <3>1, <4>3
        <3>2. \A T \in SUBSET S : g[T] = SumStep(g, S)[T]
            <4> TAKE T \in SUBSET S
            <4>1. CASE T = {}
                BY <4>1 DEF SumStep
            <4>2. CASE T # {}
                <5>1. g[T] = OneOf(T).seats + g[T \ {OneOf(T)}]
                    BY <3>1, <4>2
                <5> HIDE DEF g
                <5> QED  BY <4>2, <5>1 DEF SumStep
            <4> QED  BY <4>1, <4>2
        <3>3. g = [T \in SUBSET S |-> g[T]]
            OBVIOUS
        <3>4. SumStep(g, S) = [T \in SUBSET S |-> SumStep(g, S)[T]]
            BY DEF SumStep
        <3> HIDE DEF g
        <3> QED  BY <3>2, <3>3, <3>4
    <2>3. \E h : h = SumStep(h, S)
        <3> HIDE DEF g
        <3> QED  BY <2>2
    <2> QED  BY <2>3 DEF SumFn
<1> HIDE DEF P
<1>2. \A S \in SUBSET U : S \in P
    BY <1>1, SubsetInduction
<1> QED  BY <1>2 DEF P

LEMMA SeatsEmpty == Seats({}) = 0
<1> DEFINE g == SumFn({})
<1>1. g = SumStep(g, {})
    BY SumExists, FS_EmptySet
<1> HIDE DEF g
<1>2. g[{}] = SumStep(g, {})[{}]
    BY <1>1
<1>3. SumStep(g, {})[{}] = 0
    BY DEF SumStep
<1> QED  BY <1>2, <1>3, SeatsIsSum DEF g

LEMMA SeatsPick ==
    ASSUME NEW S, IsFiniteSet(S), S # {}
    PROVE  OneOf(S) \in S /\ Seats(S) = OneOf(S).seats + Seats(S \ {OneOf(S)})
<1> DEFINE V == S \ {OneOf(S)}
           g == SumFn(S)
           h == SumFn(V)
<1>1. V \subseteq S /\ IsFiniteSet(V)
    BY FS_Subset
<1>2. g = SumStep(g, S) /\ h = SumStep(h, V)
    BY <1>1, SumExists
<1> HIDE DEF g, h, V
<1>3. h[V] = g[V]
    BY <1>1, <1>2, Agreement
<1>4. g[S] = SumStep(g, S)[S]
    BY <1>2
<1>5. SumStep(g, S)[S] = OneOf(S).seats + g[V]
    BY DEF SumStep, V
<1>6. OneOf(S) \in S
    BY DEF OneOf
<1> QED  BY <1>3, <1>4, <1>5, <1>6, SeatsIsSum DEF g, h, V

\* A finite set of records with a number of seats.
Counted(S) == IsFiniteSet(S) /\ \A t \in S : t.seats \in Nat

LEMMA SeatsType ==
    ASSUME NEW U, Counted(U)
    PROVE  Seats(U) \in Nat
<1> DEFINE P == {S \in SUBSET U : Seats(S) \in Nat}
<1>1. ASSUME NEW S \in SUBSET U, \A T \in SUBSET S : T # S => T \in P
      PROVE  S \in P
    <2>1. CASE S = {}
        BY <2>1, SeatsEmpty
    <2>2. CASE S # {}
        <3>1. OneOf(S) \in S /\ Seats(S) = OneOf(S).seats + Seats(S \ {OneOf(S)})
            BY <2>2, FS_Subset, SeatsPick DEF Counted
        <3>2. Seats(S \ {OneOf(S)}) \in Nat
            BY <1>1, <3>1
        <3> QED  BY <3>1, <3>2 DEF Counted
    <2> QED  BY <2>1, <2>2
<1> HIDE DEF P
<1>2. U \in P
    BY <1>1, SubsetInduction DEF Counted
<1> QED  BY <1>2 DEF P

\* Any element can be taken first.
LEMMA SeatsRemove ==
    ASSUME NEW U, Counted(U)
    PROVE  \A y \in U : Seats(U) = y.seats + Seats(U \ {y})
<1> DEFINE P == {S \in SUBSET U : \A y \in S : Seats(S) = y.seats + Seats(S \ {y})}
<1>1. ASSUME NEW S \in SUBSET U, \A T \in SUBSET S : T # S => T \in P,
             NEW y \in S
      PROVE  Seats(S) = y.seats + Seats(S \ {y})
    <2> DEFINE x == OneOf(S)
    <2>1. x \in S /\ Seats(S) = x.seats + Seats(S \ {x})
        BY FS_Subset, SeatsPick DEF Counted
    <2> HIDE DEF x
    <2>2. CASE x = y
        BY <2>1, <2>2
    <2>3. CASE x # y
        <3> DEFINE R == S \ {x, y}
        <3>1. Seats(S \ {x}) = y.seats + Seats((S \ {x}) \ {y})
            <4>1. S \ {x} \in P
                BY <1>1, <2>1
            <4> QED  BY <2>3, <4>1
        <3>2. Seats(S \ {y}) = x.seats + Seats((S \ {y}) \ {x})
            <4>1. S \ {y} \in P
                BY <1>1
            <4> QED  BY <2>1, <2>3, <4>1
        <3>3. (S \ {x}) \ {y} = R /\ (S \ {y}) \ {x} = R
            OBVIOUS
        <3>4. Seats(R) \in Nat
            BY FS_Subset, SeatsType DEF Counted
        <3>5. x.seats \in Nat /\ y.seats \in Nat
            BY <2>1 DEF Counted
        <3> HIDE DEF R
        <3> QED  BY <2>1, <3>1, <3>2, <3>3, <3>4, <3>5
    <2> QED  BY <2>2, <2>3
<1>2. \A S \in SUBSET U : (\A T \in SUBSET S : T # S => T \in P) => S \in P
    BY <1>1
<1> HIDE DEF P
<1>3. U \in P
    BY <1>2, SubsetInduction DEF Counted
<1> QED  BY <1>3 DEF P

LEMMA SeatsAdd ==
    ASSUME NEW S, Counted(S), NEW t, t.seats \in Nat, t \notin S
    PROVE  Counted(S \cup {t}) /\ Seats(S \cup {t}) = Seats(S) + t.seats
<1>1. Counted(S \cup {t})
    BY FS_AddElement DEF Counted
<1>2. (S \cup {t}) \ {t} = S
    OBVIOUS
<1>3. Seats(S \cup {t}) = t.seats + Seats(S)
    <2>1. t \in S \cup {t}
        OBVIOUS
    <2> DEFINE V == S \cup {t}
    <2>2. Seats(V) = t.seats + Seats(V \ {t})
        <3> HIDE DEF V
        <3> QED  BY <1>1, <2>1, SeatsRemove DEF V
    <2> QED  BY <1>2, <2>2
<1> QED  BY <1>1, <1>3, SeatsType

\* Every member of U has one of its own in W with as many seats.
LEMMA SeatsMatched ==
    ASSUME NEW U, Counted(U), NEW W, Counted(W),
           \A s, t \in U : s.id = t.id => s = t,
           \A s \in U : \E t \in W : t.id = s.id /\ t.seats = s.seats
    PROVE  Seats(U) =< Seats(W)
<1> DEFINE Image(S) == {t \in W : \E s \in S : t.id = s.id /\ t.seats = s.seats}
           P == {S \in SUBSET U :
                   \A V \in SUBSET W : Image(S) \subseteq V => Seats(S) =< Seats(V)}
<1>1. ASSUME NEW S \in SUBSET U, \A T \in SUBSET S : T # S => T \in P,
             NEW V \in SUBSET W, Image(S) \subseteq V
      PROVE  Seats(S) =< Seats(V)
    <2>1. Counted(V) /\ Seats(V) \in Nat
        BY FS_Subset, SeatsType DEF Counted
    <2>2. CASE S = {}
        BY <2>1, <2>2, SeatsEmpty
    <2>3. CASE S # {}
        <3>1. PICK s \in S : TRUE
            BY <2>3
        <3>2. PICK t \in W : t.id = s.id /\ t.seats = s.seats
            BY <3>1
        <3>3. t \in V
            BY <1>1, <3>2
        <3>4. Seats(V) = t.seats + Seats(V \ {t})
            BY <2>1, <3>3, SeatsRemove
        <3>5. Seats(S) = s.seats + Seats(S \ {s})
            BY FS_Subset, SeatsRemove DEF Counted
        <3>6. Seats(S \ {s}) =< Seats(V \ {t})
            <4>1. S \ {s} \in P /\ V \ {t} \in SUBSET W
                BY <1>1, <3>1
            <4>2. Image(S \ {s}) \subseteq V \ {t}
                BY <1>1, <3>1, <3>2
            <4> QED  BY <4>1, <4>2
        <3>7. /\ Seats(S \ {s}) \in Nat /\ Seats(V \ {t}) \in Nat
              /\ s.seats \in Nat
            BY <2>1, FS_Subset, SeatsType DEF Counted
        <3> QED  BY <3>2, <3>4, <3>5, <3>6, <3>7
    <2> QED  BY <2>2, <2>3
<1>2. \A S \in SUBSET U : (\A T \in SUBSET S : T # S => T \in P) => S \in P
    BY <1>1
<1>3. U \in P
    <2> HIDE DEF P
    <2> QED  BY <1>2, SubsetInduction DEF Counted
<1> QED  BY <1>3

-----------------------------------------------------------------------------
(***************************************************************************)
(* Purchases one after another. A screen whose "Book" was pressed after    *)
(* its tickets were loaded keeps them until PayPal answers, and its order  *)
(* fits what they leave. When orders are serial, the last one was made     *)
(* with the tickets of all the others on its screen.                       *)
(***************************************************************************)
\* Of the tickets the screen has loaded, its member's do not make the limit.
NotAtLimit(d) == Seats(MyTickets(d)) # K_MaxAllowedTicket

ScreenSafe(d) ==
    /\ \A t \in seen[d] : PaidFor(t)
    /\ \A t, u \in seen[d] : t.id = u.id => t = u
    /\ load[d] = "ready" /\ enabled[d] => NotAtLimit(d)
    /\ loadedFirst[d] => load[d] = "ready" /\ NotAtLimit(d)
    /\ stage[d] # "none" /\ NoOrder \notin order[d].basis =>
          /\ load[d] = "ready"
          /\ NotAtLimit(d)
          /\ order[d].basis = Ids(seen[d])
          /\ order[d].seats = 1 \/ order[d].seats <= Allowed(d)

OrdersSafe ==
    /\ IsFiniteSet(approved) /\ IsFiniteSet(Ids(approved))
    /\ \A o \in approved : NoOrder \notin o.basis => o.basis \subseteq Ids(approved)
    /\ \A m \in Members : Serial(OrdersOf(m)) =>
          Seats(OrdersOf(m)) <= K_MaxAllowedTicket
    /\ Serial(approved) =>
          /\ \A o \in approved : Cardinality(o.basis) < Cardinality(Ids(approved))
          /\ \A o, p \in approved :
                Cardinality(o.basis) = Cardinality(p.basis) => o = p

NumbersSafe ==
    /\ \A t \in AllTickets : \E o \in approved :
          /\ o.id = t.id
          /\ NoOrder \notin o.basis => t.number = Cardinality(o.basis) + 1
    /\ \A d \in Devices : Returning(d) =>
          \E o \in approved : o.id = paid[d] /\ o.basis = order[d].basis

SerialInv == (\A d \in Devices : ScreenSafe(d)) /\ OrdersSafe /\ NumbersSafe

\* The screen keeps what it has loaded, and its order.
Kept(d) ==
    /\ load'[d] = load[d] /\ seen'[d] = seen[d]
    /\ enabled'[d] = enabled[d] /\ loadedFirst'[d] = loadedFirst[d]
    /\ \/ stage'[d] = "none"
       \/ stage[d] # "none" /\ order'[d] = order[d]

\* The screen has not loaded the tickets.
Unready(d) ==
    /\ load'[d] # "ready" /\ ~loadedFirst'[d]
    /\ seen'[d] \subseteq seen[d]
    /\ \/ stage'[d] = "none"
       \/ load[d] # "ready" /\ stage[d] # "none" /\ order'[d] = order[d]

LEMMA ScreenStays ==
    ASSUME NEW d \in Devices, ScreenSafe(d), approved \subseteq approved',
           Kept(d) \/ Unready(d)
    PROVE  ScreenSafe(d)'
<1>1. \A t : PaidFor(t) => PaidFor(t)'
    BY DEF PaidFor
<1>2. CASE Kept(d)
    <2>1. MyTickets(d)' = MyTickets(d)
        BY <1>2 DEF Kept, MyTickets
    <2>2. NotAtLimit(d)' = NotAtLimit(d) /\ Allowed(d)' = Allowed(d)
        BY <2>1 DEF NotAtLimit, Allowed
    <2> QED  BY <1>1, <1>2, <2>2 DEF Kept, ScreenSafe
<1>3. CASE Unready(d)
    BY <1>1, <1>3 DEF Unready, ScreenSafe
<1> QED  BY <1>2, <1>3

LEMMA LoadingSafe ==
    ASSUME TypeInv, PaymentInv, NEW d \in Devices, ScreenSafe(d), Loading(d)
    PROVE  /\ ScreenSafe(d)'
           /\ \A e \in Devices : e # d => Kept(e)
<1> USE DEF TypeInv, TypeOK, checkoutVars, storeVars
<1>1. \A e \in Devices : e # d => Kept(e)
    BY DEF Loading, OpenScreen, UserLoads, UserMissing, TicketsArrive,
           TicketsFail, ResetScreen, Kept
<1>2. approved' = approved
    BY DEF Loading, OpenScreen, UserLoads, UserMissing, TicketsArrive, TicketsFail
<1>3. CASE ~TicketsArrive(d)
    <2>1. Unready(d)
        BY <1>3 DEF Loading, OpenScreen, UserLoads, UserMissing, TicketsFail,
                    ResetScreen, Unready, ScreenSafe
    <2> QED  BY <1>1, <1>2, <2>1, ScreenStays
<1>4. CASE TicketsArrive(d)
    <2> DEFINE S == tickets \cup writes[d]
               own == {t \in S : t.user = AuthUser[d]}
    <2>1. /\ seen'[d] = S /\ ~loadedFirst'[d]
          /\ enabled'[d] = ~Blocks(d, S)
          /\ stage'[d] = stage[d] /\ order'[d] = order[d]
          /\ load[d] = "tickets"
        BY <1>4 DEF TicketsArrive, ScreenSafe
    <2>2. S \subseteq AllTickets
        BY DEF AllTickets
    <2>3. \A t \in seen'[d] : PaidFor(t)'
        BY <1>2, <2>1, <2>2 DEF PaymentInv, TicketsPaidFor, PaidFor
    <2>4. \A t, u \in seen'[d] : t.id = u.id => t = u
        BY <2>1, <2>2 DEF PaymentInv, TicketsPaidFor
    <2>5. MyTickets(d)' = own
        BY <2>1 DEF MyTickets
    <2>6. enabled'[d] => NotAtLimit(d)'
        BY <2>1, <2>5 DEF Blocks, NotAtLimit
    <2>7. ~(stage'[d] # "none" /\ NoOrder \notin order'[d].basis)
        BY <2>1 DEF ScreenSafe
    <2> QED  BY <1>1, <2>1, <2>3, <2>4, <2>6, <2>7 DEF ScreenSafe
<1> QED  BY <1>3, <1>4

LEMMA ChoosingSafe ==
    ASSUME TypeInv, PickInv, NEW d \in Devices, ScreenSafe(d), Choosing(d)
    PROVE  /\ ScreenSafe(d)'
           /\ \A e \in Devices : e # d => Kept(e)
<1> USE DEF TypeInv, TypeOK, checkoutVars, storeVars
<1>1. \A e \in Devices : e # d => Kept(e)
    BY DEF Choosing, BookSeat, PickSeats, CloseView, Buy, Kept
<1>2. /\ UNCHANGED <<approved, load, seen, enabled>>
      /\ stage[d] = "none"
    BY DEF Choosing, BookSeat, PickSeats, CloseView, Buy, Touchable
<1>3. /\ MyTickets(d)' = MyTickets(d) /\ Allowed(d)' = Allowed(d)
      /\ NotAtLimit(d)' = NotAtLimit(d)
      /\ \A t : PaidFor(t)' = PaidFor(t)
    BY <1>2 DEF MyTickets, Allowed, NotAtLimit, PaidFor
<1>4. CASE BookSeat(d)
    <2>1. /\ enabled[d] /\ stage'[d] = "none"
          /\ loadedFirst'[d] = (load[d] = "ready")
        BY <1>2, <1>4 DEF BookSeat
    <2> QED  BY <1>1, <1>2, <1>3, <2>1, Zenon DEF ScreenSafe
<1>5. CASE PickSeats(d)
    <2>1. stage'[d] = "none" /\ loadedFirst' = loadedFirst
        BY <1>2, <1>5 DEF PickSeats
    <2> QED  BY <1>1, <1>2, <1>3, <2>1 DEF ScreenSafe
<1>6. CASE CloseView(d)
    <2>1. stage'[d] = "none" /\ ~loadedFirst'[d]
        BY <1>2, <1>6 DEF CloseView
    <2> QED  BY <1>1, <1>2, <1>3, <2>1 DEF ScreenSafe
<1>7. CASE Buy(d)
    <2>1. /\ order'[d].seats = picked[d]
          /\ order'[d].basis = IF loadedFirst[d] THEN Ids(seen[d]) ELSE {NoOrder}
          /\ ~loadedFirst'[d]
        BY <1>7 DEF Buy
    <2>2. picked[d] = 1 \/ picked[d] <= Allowed(d)
        BY DEF PickInv
    <2>3. NoOrder \notin order'[d].basis =>
              loadedFirst[d] /\ order'[d].basis = Ids(seen[d])
        BY <2>1
    <2> QED  BY <1>1, <1>2, <1>3, <2>1, <2>2, <2>3 DEF ScreenSafe
<1> QED  BY <1>4, <1>5, <1>6, <1>7 DEF Choosing

LEMMA PayingSafe ==
    ASSUME TypeInv, NEW d \in Devices, ScreenSafe(d), Paying(d) \/ Leaving(d)
    PROVE  /\ approved \subseteq approved'
           /\ Kept(d) \/ Unready(d)
           /\ \A e \in Devices : e # d => Kept(e)
<1> USE DEF TypeInv, TypeOK, storeVars, screenVars, checkoutVars
<1>1. CASE ConfirmPurchase(d) \/ PayPalApproves(d) \/ PayPalFails(d)
    BY <1>1 DEF ConfirmPurchase, PayPalApproves, PayPalFails, Kept
<1>2. CASE CancelSheet(d) \/ PayPalReturns(d)
    BY <1>2 DEF CancelSheet, PayPalReturns, ResetCheckout, Kept
<1>3. CASE DismissCanceled(d) \/ AppKilled(d)
    BY <1>3 DEF DismissCanceled, AppKilled, ResetCheckout, ResetScreen, Kept, Unready
<1>4. CASE CloseScreen(d)
    BY <1>4 DEF CloseScreen, Touchable, ResetScreen, Kept, Unready
<1> QED  BY <1>1, <1>2, <1>3, <1>4 DEF Paying, Leaving

LEMMA ScreensNext ==
    ASSUME TypeInv, PaymentInv, PickInv, \A d \in Devices : ScreenSafe(d), [Next]_vars
    PROVE  (\A d \in Devices : ScreenSafe(d)') /\ approved \subseteq approved'
<1>1. CASE UNCHANGED vars \/ WorkshopStarts \/ \E d \in Devices : Answered(d)
    <2>1. approved' = approved /\ \A d \in Devices : Kept(d)
        BY <1>1 DEF vars, storeVars, screenVars, checkoutVars, WorkshopStarts,
                    Answered, CommitTicket, RejectTicket, Kept
    <2> QED  BY <2>1, ScreenStays
<1>2. ASSUME NEW d \in Devices, Loading(d) \/ Choosing(d)
      PROVE  (\A e \in Devices : ScreenSafe(e)') /\ approved \subseteq approved'
    <2>1. approved' = approved
        BY <1>2, QuietSteps DEF Quiet, storeVars
    <2>2. ScreenSafe(d)' /\ \A e \in Devices : e # d => Kept(e)
        BY <1>2, LoadingSafe, ChoosingSafe
    <2> QED  BY <2>1, <2>2, ScreenStays
<1>3. ASSUME NEW d \in Devices, Paying(d) \/ Leaving(d)
      PROVE  (\A e \in Devices : ScreenSafe(e)') /\ approved \subseteq approved'
    BY <1>3, PayingSafe, ScreenStays
<1> QED  BY <1>1, <1>2, <1>3 DEF Next

\* The identities of a set of tickets are as many as the tickets.
LEMMA IdsCount ==
    ASSUME NEW S, IsFiniteSet(S), \A t, u \in S : t.id = u.id => t = u
    PROVE  Cardinality(Ids(S)) = Cardinality(S)
<1> DEFINE f == [t \in S |-> t.id]
<1>1. f \in [S -> Ids(S)] /\ \A t \in S : f[t] = t.id
    BY DEF Ids
<1>2. \A i \in Ids(S) : \E t \in S : f[t] = i
    BY DEF Ids
<1> HIDE DEF f
<1>3. f \in Bijection(S, Ids(S))
    BY <1>1, <1>2 DEF Bijection, Injection, Surjection, IsInjective
<1> QED  BY <1>3, FS_Bijection DEF ExistsBijection

\* A serial set of orders to which the last is added was serial, and the last
\* has all the others in its basis.
LEMMA LastOfSerial ==
    ASSUME NEW S, NEW B, NEW p, Serial(S \cup {p}), S \subseteq B, p \notin S,
           \A o \in B : NoOrder \notin o.basis => o.basis \subseteq Ids(B),
           p.id \notin Ids(B)
    PROVE  Serial(S) /\ NoOrder \notin p.basis /\ Ids(S) \subseteq p.basis
BY DEF Serial, Ids

\* The seats of a member who pays at last come to the limit, when the screen
\* had the member's other tickets and offered what they leave.
LEMMA LastWithinLimit ==
    ASSUME TypeInv, PaymentInv, SerialInv, NEW d \in Devices,
           stage[d] # "none", NoOrder \notin order[d].basis,
           Serial(OrdersOf(AuthUser[d])),
           Ids(OrdersOf(AuthUser[d])) \subseteq order[d].basis
    PROVE  Seats(OrdersOf(AuthUser[d])) + order[d].seats <= K_MaxAllowedTicket
<1> DEFINE m == AuthUser[d]
           O == OrdersOf(m)
           M == MyTickets(d)
<1> USE DEF TypeInv, TypeOK
<1>1. ScreenSafe(d) /\ OrdersSafe
    BY DEF SerialInv
<1>2. order[d].basis = Ids(seen[d]) /\ NotAtLimit(d)
    BY <1>1 DEF ScreenSafe
<1>3. Counted(M)
    <2>1. IsFiniteSet(M)
        BY FS_Subset DEF FiniteTickets, MyTickets
    <2>2. \A t \in M : t.seats \in Nat
        BY DEF MyTickets, Ticket, SeatCounts, K_MaxAllowedTicket
    <2> QED  BY <2>1, <2>2 DEF Counted
<1>4. Counted(O)
    <2>1. IsFiniteSet(O)
        BY <1>1, FS_Subset DEF OrdersSafe, OrdersOf
    <2>2. \A o \in O : o.seats \in Nat
        BY DEF OrdersOf, Approval, SeatCounts, K_MaxAllowedTicket
    <2> QED  BY <2>1, <2>2 DEF Counted
<1>5. Seats(O) =< Seats(M)
    <2>1. \A o, p \in O : o.id = p.id => o = p
        BY DEF PaymentInv, ApprovedOnce, OrdersOf
    <2>2. ASSUME NEW o \in O PROVE \E t \in M : t.id = o.id /\ t.seats = o.seats
        <3>1. o \in approved /\ o.user = m
            BY DEF OrdersOf
        <3>2. PICK t \in seen[d] : t.id = o.id
            BY <1>2 DEF Ids
        <3>3. PICK p \in approved : p.id = t.id /\ p.user = t.user /\ p.seats = t.seats
            BY <1>1 DEF ScreenSafe, PaidFor
        <3>4. p = o
            BY <3>1, <3>2, <3>3 DEF PaymentInv, ApprovedOnce
        <3> QED  BY <3>1, <3>2, <3>3, <3>4 DEF MyTickets
    <2> HIDE DEF O, M
    <2> QED  BY <1>3, <1>4, <2>1, <2>2, SeatsMatched
<1>6. Seats(M) =< Seats(O)
    <2>1. \A t, u \in M : t.id = u.id => t = u
        BY <1>1 DEF ScreenSafe, MyTickets
    <2>2. \A t \in M : \E o \in O : o.id = t.id /\ o.seats = t.seats
        BY <1>1 DEF ScreenSafe, PaidFor, MyTickets, OrdersOf
    <2> HIDE DEF O, M
    <2> QED  BY <1>3, <1>4, <2>1, <2>2, SeatsMatched
<1>7. Seats(O) <= K_MaxAllowedTicket
    BY <1>1, BookingAssumption DEF OrdersSafe
<1>8. Seats(O) \in Nat /\ Seats(M) \in Nat
    BY <1>3, <1>4, SeatsType
<1>9. Seats(M) # K_MaxAllowedTicket
    BY <1>2 DEF NotAtLimit
<1>10. order[d].seats = 1 \/ order[d].seats <= K_MaxAllowedTicket - Seats(M)
    BY <1>1 DEF ScreenSafe, Allowed
<1>11. order[d].seats \in Nat
    BY DEF Order, SeatCounts, K_MaxAllowedTicket
<1> HIDE DEF O, M
<1> QED  BY <1>5, <1>6, <1>7, <1>8, <1>9, <1>10, <1>11 DEF K_MaxAllowedTicket, O, M

LEMMA ApprovalSafe ==
    ASSUME TypeInv, PaymentInv, SerialInv, NEW d \in Devices, PayPalApproves(d)
    PROVE  OrdersSafe'
<1> USE DEF TypeInv, TypeOK
<1>1. PICK i \in OrderIds \ Ids(approved) :
         approved' = approved \cup
             {[id |-> i, user |-> AuthUser[d],
               seats |-> order[d].seats, basis |-> order[d].basis]}
    BY DEF PayPalApproves
<1> DEFINE new == [id |-> i, user |-> AuthUser[d],
                   seats |-> order[d].seats, basis |-> order[d].basis]
<1>2. /\ approved' = approved \cup {new}
      /\ new.id = i /\ new.user = AuthUser[d]
      /\ new.seats = order[d].seats /\ new.basis = order[d].basis
    BY <1>1
<1> HIDE DEF new
<1>3. ScreenSafe(d) /\ OrdersSafe /\ stage[d] # "none"
    BY DEF SerialInv, PayPalApproves
<1>4. /\ Ids(approved') = Ids(approved) \cup {i}
      /\ i \notin Ids(approved) /\ new \notin approved
    BY <1>1, <1>2 DEF Ids
<1>5. /\ IsFiniteSet(approved') /\ IsFiniteSet(Ids(approved'))
      /\ Cardinality(Ids(approved)) \in Nat
      /\ Cardinality(Ids(approved')) = Cardinality(Ids(approved)) + 1
    <2>1. IsFiniteSet(approved) /\ IsFiniteSet(Ids(approved))
        BY <1>3 DEF OrdersSafe
    <2>2. IsFiniteSet(approved \cup {new})
        BY <2>1, FS_AddElement
    <2>3. /\ IsFiniteSet(Ids(approved) \cup {i})
          /\ Cardinality(Ids(approved) \cup {i}) = Cardinality(Ids(approved)) + 1
        BY <1>4, <2>1, FS_AddElement
    <2>4. Cardinality(Ids(approved)) \in Nat
        BY <2>1, FS_CardinalityType
    <2> QED  BY <1>2, <1>4, <2>2, <2>3, <2>4
<1>6. NoOrder \notin new.basis => new.basis \subseteq Ids(approved)
    BY <1>2, <1>3 DEF ScreenSafe, PaidFor, Ids
<1>7. \A o \in approved' : NoOrder \notin o.basis => o.basis \subseteq Ids(approved')
    BY <1>2, <1>3, <1>4, <1>6 DEF OrdersSafe
<1>8. ASSUME NEW m \in Members, Serial(OrdersOf(m)')
      PROVE  Seats(OrdersOf(m)') <= K_MaxAllowedTicket
    <2>1. CASE m # AuthUser[d]
        <3>1. OrdersOf(m)' = OrdersOf(m)
            BY <1>2, <2>1 DEF OrdersOf
        <3> QED  BY <1>3, <1>8, <3>1 DEF OrdersSafe
    <2>2. CASE m = AuthUser[d]
        <3>1. OrdersOf(m)' = OrdersOf(m) \cup {new}
            BY <1>2, <2>2 DEF OrdersOf
        <3>2. OrdersOf(m) \subseteq approved /\ new \notin OrdersOf(m)
            BY <1>4 DEF OrdersOf
        <3>3. /\ Serial(OrdersOf(m)) /\ NoOrder \notin new.basis
              /\ Ids(OrdersOf(m)) \subseteq new.basis
            <4>1. Serial(OrdersOf(m) \cup {new})
                BY <1>8, <3>1
            <4> QED  BY <1>2, <1>3, <1>4, <3>2, <4>1, LastOfSerial DEF OrdersSafe
        <3>4. Seats(OrdersOf(m)) + new.seats <= K_MaxAllowedTicket
            BY <1>2, <1>3, <2>2, <3>3, LastWithinLimit
        <3>5. Counted(OrdersOf(m)) /\ new.seats \in Nat
            <4>1. IsFiniteSet(OrdersOf(m))
                BY <1>3, <3>2, FS_Subset DEF OrdersSafe
            <4> QED
                BY <1>2, <4>1 DEF Counted, OrdersOf, Approval, Order,
                                  SeatCounts, K_MaxAllowedTicket
        <3>6. Seats(OrdersOf(m) \cup {new}) = Seats(OrdersOf(m)) + new.seats
            BY <3>2, <3>5, SeatsAdd
        <3> QED  BY <3>1, <3>4, <3>6
    <2> QED  BY <2>1, <2>2
<1>9. ASSUME Serial(approved')
      PROVE  /\ \A o \in approved' : Cardinality(o.basis) < Cardinality(Ids(approved'))
             /\ \A o, p \in approved' :
                   Cardinality(o.basis) = Cardinality(p.basis) => o = p
    <2>1. /\ Serial(approved) /\ NoOrder \notin new.basis
          /\ Ids(approved) \subseteq new.basis
        BY <1>2, <1>3, <1>4, <1>9, LastOfSerial DEF OrdersSafe
    <2>2. new.basis = Ids(approved)
        BY <1>6, <2>1
    <2>3. \A o \in approved : /\ Cardinality(o.basis) \in Nat
                              /\ Cardinality(o.basis) < Cardinality(Ids(approved))
        <3>1. \A o \in approved : IsFiniteSet(o.basis)
            BY <1>3, <2>1, FS_Subset DEF OrdersSafe, Serial
        <3> QED  BY <1>3, <2>1, <3>1, FS_CardinalityType DEF OrdersSafe
    <2>4. \A o, p \in approved : Cardinality(o.basis) = Cardinality(p.basis) => o = p
        BY <1>3, <2>1 DEF OrdersSafe
    <2> QED  BY <1>2, <1>5, <2>2, <2>3, <2>4
<1> QED
    <2>1. \A m \in Members : Serial(OrdersOf(m)') => Seats(OrdersOf(m)') <= K_MaxAllowedTicket
        BY <1>8
    <2> QED  BY <1>5, <1>7, <1>9, <2>1 DEF OrdersSafe

\* A step that leaves the store alone, and approves nothing.
LEMMA QuietSerial ==
    ASSUME Quiet, OrdersSafe, NumbersSafe
    PROVE  OrdersSafe' /\ NumbersSafe'
<1>1. UNCHANGED <<approved, AllTickets>>
    BY DEF Quiet, storeVars, AllTickets
<1>2. OrdersSafe'
    BY <1>1 DEF OrdersSafe, OrdersOf, Ids
<1>3. NumbersSafe'
    BY <1>1 DEF Quiet, NumbersSafe
<1> QED  BY <1>2, <1>3

LEMMA ApprovalNumbers ==
    ASSUME TypeInv, NumbersSafe, NEW d \in Devices, PayPalApproves(d)
    PROVE  NumbersSafe'
<1> USE DEF TypeInv, TypeOK
<1>1. PICK i \in OrderIds \ Ids(approved) :
         /\ approved' = approved \cup
                {[id |-> i, user |-> AuthUser[d],
                  seats |-> order[d].seats, basis |-> order[d].basis]}
         /\ paid' = [paid EXCEPT ![d] = i]
    BY DEF PayPalApproves
<1> DEFINE new == [id |-> i, user |-> AuthUser[d],
                   seats |-> order[d].seats, basis |-> order[d].basis]
<1>2. new \in approved' /\ new.id = i /\ new.basis = order[d].basis
      /\ approved \subseteq approved'
    BY <1>1
<1> HIDE DEF new
<1>3. AllTickets' = AllTickets /\ order' = order
    BY DEF PayPalApproves, AllTickets
<1>4. paid'[d] = i /\ \A e \in Devices : e # d =>
          paid'[e] = paid[e] /\ (Returning(e)' => Returning(e))
    BY <1>1 DEF PayPalApproves, Returning
<1> QED  BY <1>2, <1>3, <1>4 DEF NumbersSafe

LEMMA ReturnNumbers ==
    ASSUME TypeInv, SerialInv, NEW d \in Devices, PayPalReturns(d)
    PROVE  NumbersSafe'
<1> USE DEF TypeInv, TypeOK
<1>1. /\ approved' = approved /\ ResetCheckout(d) /\ Returning(d)
      /\ ScreenSafe(d) /\ NumbersSafe /\ OrdersSafe
    BY DEF PayPalReturns, Returning, SerialInv
<1>2. \A e \in Devices : Returning(e)' =>
         Returning(e) /\ paid'[e] = paid[e] /\ order'[e] = order[e]
    BY <1>1, ResetCheckoutType DEF Returning
<1>3. AllTickets' \subseteq AllTickets \cup {NewTicket(d)}
    BY DEF PayPalReturns, AllTickets
<1>4. PICK o \in approved : o.id = paid[d] /\ o.basis = order[d].basis
    BY <1>1 DEF NumbersSafe
<1>5. /\ NewTicket(d).id = o.id
      /\ NoOrder \notin o.basis => NewTicket(d).number = Cardinality(o.basis) + 1
    <2>1. NewTicket(d).id = paid[d] /\ NewTicket(d).number = Cardinality(seen[d]) + 1
        BY DEF NewTicket, BookingNumber
    <2>2. ASSUME NoOrder \notin o.basis PROVE o.basis = Ids(seen[d])
        BY <1>1, <1>4, <2>2 DEF ScreenSafe, Returning
    <2>3. Cardinality(Ids(seen[d])) = Cardinality(seen[d])
        BY <1>1, IdsCount DEF FiniteTickets, ScreenSafe
    <2> QED  BY <1>4, <2>1, <2>2, <2>3
<1> QED  BY <1>1, <1>2, <1>3, <1>5 DEF NumbersSafe

LEMMA AnsweredSerial ==
    ASSUME TypeInv, OrdersSafe, NumbersSafe, NEW d \in Devices, Answered(d)
    PROVE  OrdersSafe' /\ NumbersSafe'
<1>1. PICK t \in writes[d] :
         /\ tickets' = tickets \/ tickets' = tickets \cup {t}
         /\ writes' = [writes EXCEPT ![d] = @ \ {t}]
         /\ UNCHANGED <<approved, checkoutVars>>
    BY DEF Answered, CommitTicket, RejectTicket
<1>2. AllTickets' \subseteq AllTickets
    BY <1>1 DEF AllTickets, TypeInv, TypeOK
<1>3. OrdersSafe'
    BY <1>1 DEF OrdersSafe, OrdersOf, Ids
<1>4. NumbersSafe'
    BY <1>1, <1>2 DEF NumbersSafe, Returning, checkoutVars
<1> QED  BY <1>3, <1>4

LEMMA SerialNext ==
    TypeInv /\ PaymentInv /\ PickInv /\ SerialInv /\ [Next]_vars => SerialInv'
<1> SUFFICES ASSUME TypeInv, PaymentInv, PickInv, SerialInv, [Next]_vars
             PROVE  OrdersSafe' /\ NumbersSafe'
    BY ScreensNext DEF SerialInv
<1> USE DEF SerialInv
<1>1. ASSUME NEW d \in Devices, Loading(d) \/ Choosing(d) \/ Leaving(d)
      PROVE  OrdersSafe' /\ NumbersSafe'
    BY <1>1, QuietSteps, QuietSerial
<1>2. ASSUME NEW d \in Devices, Paying(d)
      PROVE  OrdersSafe' /\ NumbersSafe'
    <2>1. CASE PayPalApproves(d)
        BY <2>1, ApprovalSafe, ApprovalNumbers
    <2>2. CASE PayPalReturns(d)
        <3>1. approved' = approved
            BY <2>2 DEF PayPalReturns
        <3>2. OrdersSafe'
            BY <3>1 DEF OrdersSafe, OrdersOf, Ids
        <3> QED  BY <2>2, <3>2, ReturnNumbers
    <2>3. CASE ~PayPalApproves(d) /\ ~PayPalReturns(d)
        BY <1>2, <2>3, QuietSteps, QuietSerial DEF Paying
    <2> QED  BY <2>1, <2>2, <2>3
<1>3. ASSUME NEW d \in Devices, Answered(d)
      PROVE  OrdersSafe' /\ NumbersSafe'
    BY <1>3, AnsweredSerial
<1>4. CASE WorkshopStarts \/ UNCHANGED vars
    <2>1. Quiet
        BY <1>4 DEF WorkshopStarts, Quiet, Returning, vars, checkoutVars
    <2> QED  BY <2>1, QuietSerial
<1> QED  BY <1>1, <1>2, <1>3, <1>4 DEF Next

LEMMA SerialInit == Init => SerialInv
<1> SUFFICES ASSUME Init PROVE SerialInv
    OBVIOUS
<1>1. \A d \in Devices : ScreenSafe(d)
    BY DEF Init, ScreenSafe
<1>2. Ids(approved) = {} /\ AllTickets = {} /\ \A m : OrdersOf(m) = {}
    BY DEF Init, Ids, AllTickets, OrdersOf
<1>3. OrdersSafe
    BY <1>2, FS_EmptySet, SeatsEmpty DEF Init, OrdersSafe, K_MaxAllowedTicket
<1>4. NumbersSafe
    BY <1>2 DEF Init, NumbersSafe, Returning
<1> QED  BY <1>1, <1>3, <1>4 DEF SerialInv

LEMMA SerialInvariant == Spec => [](TypeInv /\ PaymentInv /\ SerialInv)
<1>1. Init => PickInv
    BY DEF Init, PickInv
<1> QED
    BY <1>1, PickNext, SerialInit, SerialNext, TypeInvariant, PaymentInvariant, PTL
    DEF Spec

\* A member whose purchases were made one after the other, each on a screen
\* that had loaded the tickets when "Book" was pressed, never holds more than
\* K_MaxAllowedTicket seats, on whatever devices they were made.
THEOREM SerialBuyersWithinLimit == Spec => []SerialLimit
<1>1. TypeInv /\ PaymentInv /\ SerialInv => SerialLimit
    <2> SUFFICES ASSUME TypeInv, PaymentInv, SerialInv,
                        NEW m \in Members, Serial(OrdersOf(m))
                 PROVE  Seats(TicketsOf(m)) <= K_MaxAllowedTicket
        BY DEF SerialLimit
    <2> DEFINE T == TicketsOf(m)
               O == OrdersOf(m)
    <2>1. Counted(T)
        BY FS_Subset DEF Counted, TicketsOf, TypeInv, TypeOK, FiniteTickets,
                         Ticket, SeatCounts, K_MaxAllowedTicket
    <2>2. Counted(O)
        BY FS_Subset DEF Counted, OrdersOf, TypeInv, TypeOK, SerialInv, OrdersSafe,
                         Approval, SeatCounts, K_MaxAllowedTicket
    <2>3. /\ \A t, u \in T : t.id = u.id => t = u
          /\ \A t \in T : \E o \in O : o.id = t.id /\ o.seats = t.seats
        BY DEF TicketsOf, OrdersOf, PaymentInv, TicketsPaidFor, PaidFor, AllTickets
    <2>4. Seats(O) <= K_MaxAllowedTicket
        BY DEF SerialInv, OrdersSafe
    <2>5. Seats(T) \in Nat /\ Seats(O) \in Nat
        BY <2>1, <2>2, SeatsType
    <2> HIDE DEF T, O
    <2>6. Seats(T) =< Seats(O)
        BY <2>1, <2>2, <2>3, SeatsMatched
    <2> QED  BY <2>4, <2>5, <2>6 DEF K_MaxAllowedTicket, T
<1> QED  BY <1>1, SerialInvariant, PTL

\* When all purchases were made one after the other, no two tickets have the
\* same number in their bookingID, which counts the tickets the screen had
\* loaded when it was opened.
THEOREM SerialNumbersDiffer == Spec => []SerialBookingIds
<1>1. TypeInv /\ PaymentInv /\ SerialInv => SerialBookingIds
    <2> SUFFICES ASSUME TypeInv, PaymentInv, SerialInv, Serial(approved),
                        NEW t \in tickets, NEW u \in tickets, t.number = u.number
                 PROVE  t = u
        BY DEF SerialBookingIds
    <2>1. t \in AllTickets /\ u \in AllTickets
        BY DEF AllTickets
    <2>2. PICK o \in approved : o.id = t.id /\ t.number = Cardinality(o.basis) + 1
        BY <2>1 DEF SerialInv, NumbersSafe, Serial
    <2>3. PICK p \in approved : p.id = u.id /\ u.number = Cardinality(p.basis) + 1
        BY <2>1 DEF SerialInv, NumbersSafe, Serial
    <2>4. Cardinality(o.basis) \in Nat /\ Cardinality(p.basis) \in Nat
        <3>1. IsFiniteSet(o.basis) /\ IsFiniteSet(p.basis)
            BY FS_Subset DEF SerialInv, OrdersSafe, Serial
        <3> QED  BY <3>1, FS_CardinalityType
    <2>5. o = p
        <3> DEFINE a == Cardinality(o.basis)
                   b == Cardinality(p.basis)
        <3>1. a + 1 = b + 1 /\ a \in Nat /\ b \in Nat
            BY <2>2, <2>3, <2>4
        <3> HIDE DEF a, b
        <3>2. a = b
            BY <3>1
        <3> QED  BY <3>2 DEF SerialInv, OrdersSafe, a, b
    <2> QED  BY <2>1, <2>2, <2>3, <2>5 DEF PaymentInv, TicketsPaidFor
<1> QED  BY <1>1, SerialInvariant, PTL

-----------------------------------------------------------------------------
(***************************************************************************)
(* Refinement. Approvals and tickets, reduced to identity, member and      *)
(* seats, are the account and the issued tickets of the ledger.            *)
(***************************************************************************)
LEMMA ApproveStep ==
    ASSUME TypeInv, NEW d \in Devices, PayPalApproves(d)
    PROVE  \E p \in Ledger!Purchase : Ledger!Approve(p)
<1>1. PICK i \in OrderIds \ Ids(approved) :
         approved' = approved \cup
            {[id |-> i, user |-> AuthUser[d],
              seats |-> order[d].seats, basis |-> order[d].basis]}
    BY DEF PayPalApproves
<1> DEFINE p == [id |-> i, user |-> AuthUser[d], seats |-> order[d].seats]
<1>2. p \in Ledger!Purchase
    BY BookingAssumption
    DEF Ledger!Purchase, TypeInv, TypeOK, Order, SeatCounts
<1>3. Bare(approved)' = Bare(approved) \cup {p}
    <2> DEFINE new == [id |-> i, user |-> AuthUser[d],
                       seats |-> order[d].seats, basis |-> order[d].basis]
    <2>1. /\ new.id = p.id /\ new.user = p.user /\ new.seats = p.seats
          /\ approved' = approved \cup {new}
        BY <1>1
    <2> HIDE DEF new
    <2>2. p = [id |-> new.id, user |-> new.user, seats |-> new.seats]
        BY <2>1
    <2> HIDE DEF p
    <2> QED  BY <2>1, <2>2 DEF Bare
<1>4. p.id \notin {q.id : q \in Bare(approved)}
    BY DEF Bare, Ids
<1>5. Bare(tickets)' = Bare(tickets)
    BY DEF PayPalApproves, Bare
<1>6. Ledger!Approve(p)
    BY <1>3, <1>4, <1>5 DEF Ledger!Approve
<1> QED  BY <1>2, <1>6

LEMMA IssueStep ==
    ASSUME TypeInv, PaymentInv, NEW d \in Devices, NEW t \in writes[d],
           CommitTicket(d, t)
    PROVE  \E p \in Ledger!Purchase : Ledger!Issue(p)
<1> DEFINE p == [id |-> t.id, user |-> t.user, seats |-> t.seats]
<1>1. t \in AllTickets /\ t \notin tickets
    BY DEF AllTickets, PaymentInv, TicketsPaidFor
<1>2. p \in Ledger!Purchase
    BY DEF Ledger!Purchase, TypeInv, TypeOK, Ticket, SeatCounts
<1>3. p \in Bare(approved)
    BY <1>1 DEF PaymentInv, TicketsPaidFor, PaidFor, Bare
<1>4. p \notin Bare(tickets)
    BY <1>1 DEF PaymentInv, TicketsPaidFor, AllTickets, Bare
<1>5. Bare(tickets)' = Bare(tickets) \cup {p}
    BY DEF CommitTicket, Bare
<1>6. Bare(approved)' = Bare(approved)
    BY DEF CommitTicket, Bare
<1>7. Ledger!Issue(p)
    BY <1>3, <1>4, <1>5, <1>6 DEF Ledger!Issue
<1> QED  BY <1>2, <1>7

LEMMA LedgerStep ==
    TypeInv /\ PaymentInv /\ [Next]_vars
        => [Ledger!LedgerNext]_(Ledger!ledgerVars)
<1> SUFFICES ASSUME TypeInv, PaymentInv, [Next]_vars
             PROVE  Ledger!LedgerNext \/ UNCHANGED Ledger!ledgerVars
    OBVIOUS
<1>1. ASSUME UNCHANGED <<tickets, approved>>
      PROVE  UNCHANGED Ledger!ledgerVars
    BY <1>1 DEF Ledger!ledgerVars, Bare
<1>2. ASSUME NEW d \in Devices, Loading(d) \/ Choosing(d) \/ Leaving(d)
      PROVE  UNCHANGED <<tickets, approved>>
    BY <1>2, QuietSteps DEF Quiet, storeVars
<1>3. ASSUME NEW d \in Devices, Paying(d)
      PROVE  Ledger!LedgerNext \/ UNCHANGED <<tickets, approved>>
    <2>1. CASE PayPalApproves(d)
        BY <2>1, ApproveStep DEF Ledger!LedgerNext
    <2>2. CASE ~PayPalApproves(d)
        BY <1>3, <2>2, QuietSteps DEF Paying, PayPalReturns, Quiet, storeVars
    <2> QED  BY <2>1, <2>2
<1>4. ASSUME NEW d \in Devices, Answered(d)
      PROVE  Ledger!LedgerNext \/ UNCHANGED <<tickets, approved>>
    <2>1. PICK t \in writes[d] : CommitTicket(d, t) \/ RejectTicket(d, t)
        BY <1>4 DEF Answered
    <2>2. CASE CommitTicket(d, t)
        BY <2>2, IssueStep DEF Ledger!LedgerNext
    <2>3. CASE RejectTicket(d, t)
        BY <2>3 DEF RejectTicket
    <2> QED  BY <2>1, <2>2, <2>3
<1>5. CASE WorkshopStarts \/ UNCHANGED vars
    BY <1>1, <1>5 DEF WorkshopStarts, vars, storeVars
<1> QED  BY <1>1, <1>2, <1>3, <1>4, <1>5 DEF Next

\* Every step of the booking enters one newly approved purchase in the ledger,
\* issues the ticket of an approved purchase that has none, or is invisible to
\* it (WorkshopDetailsVC.swift, paymentAction to updatePurchase).
THEOREM LedgerImplemented == Spec => ImplementsLedger
<1>1. Init => Ledger!LedgerInit
    BY DEF Init, Ledger!LedgerInit, Bare
<1> QED
    BY <1>1, LedgerStep, TypeInvariant, PaymentInvariant, PTL
    DEF Spec, ImplementsLedger, Ledger!LedgerSpec
=============================================================================
