---------------------------- MODULE TicketLedger ----------------------------
(***************************************************************************)
(* What the booking of workshop seats promises, without screens, replies   *)
(* or retries: a purchase that PayPal approved is entered once in the      *)
(* account, and a ticket is issued only for such a purchase, at most once, *)
(* to the member who paid and for the seats that were paid.                *)
(*                                                                         *)
(* WorkshopBooking.tla is the program; it is shown to implement this one.  *)
(***************************************************************************)
EXTENDS Naturals

CONSTANTS Members,    \* the accounts of the application
          OrderIds,   \* identities of the approved purchases
          MaxSeats    \* the most seats one purchase may ask for

VARIABLES account,    \* the purchases PayPal approved
          issued      \* the purchases for which a ticket is on record

ledgerVars == <<account, issued>>

Purchase == [id : OrderIds, user : Members, seats : 1..MaxSeats]

LedgerInit == account = {} /\ issued = {}

\* A purchase is approved under an identity no other purchase has.
Approve(p) ==
    /\ p.id \notin {q.id : q \in account}
    /\ account' = account \cup {p}
    /\ UNCHANGED issued

\* A ticket is issued for an approved purchase that has none yet.
Issue(p) ==
    /\ p \in account \ issued
    /\ issued' = issued \cup {p}
    /\ UNCHANGED account

LedgerNext == \E p \in Purchase : Approve(p) \/ Issue(p)

LedgerSpec == LedgerInit /\ [][LedgerNext]_ledgerVars
=============================================================================
