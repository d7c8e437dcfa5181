------------------------- MODULE NotePurchase_proofs -------------------------
(***************************************************************************)
(* What holds of NotePurchase for all members, devices and payments: the   *)
(* types, that the seller is never credited more than was paid nor, while  *)
(* credits do not overlap, less; that who may review has paid, and that a  *)
(* screen knows a purchase it recorded.                                    *)
(***************************************************************************)
EXTENDS NotePurchase, FiniteSetTheorems, SequenceTheorems, TLAPS

-----------------------------------------------------------------------------
(***************************************************************************)
(* A payment is spent once updatePrice has read `earned` for it. Until     *)
(* then its identity is with PayPal's approval or with a credit that still *)
(* reads, and with one of them only. `earned`, the sums that were computed *)
(* and those that are unsent are all bounded by the spent payments.        *)
(***************************************************************************)
Reading == {c \in credits : c.step = "read"}

Seen == {c \in credits : c.step = "seen"}

\* The amounts that a device may read, or has computed from one it read.
Amounts ==
    {earned} \cup {c.sum : c \in Seen}
        \cup UNION {{sums[d][i] : i \in 1..Len(sums[d])} : d \in Devices}

Approving == {d \in Devices : stage[d] = "approved"}

Unspent == Ids(Reading) \cup {paid[d] : d \in Approving}

Spent == {p \in payments : p.id \notin Unspent}

Identities ==
    /\ \A p, q \in payments : p.id = q.id => p = q
    /\ \A c \in credits : c.id \in Ids(payments)
    /\ \A c, e \in credits : c.id = e.id => c = e
    /\ \A d \in Approving : paid[d] \in Ids(payments) \ Ids(credits)
    /\ \A d, e \in Approving : paid[d] = paid[e] => d = e

Budget ==
    /\ IsFiniteSet(payments)
    /\ \A a \in Amounts : a =< Price * Cardinality(Spent)

MoneyInv == TypeOK /\ Identities /\ Budget

LEMMA SpentFinite ==
    ASSUME Budget
    PROVE  /\ IsFiniteSet(Spent)
           /\ Cardinality(Spent) \in Nat
           /\ Cardinality(Spent) =< Cardinality(payments)
           /\ Cardinality(payments) \in Nat
BY FS_Subset, FS_CardinalityType DEF Budget, Spent

LEMMA TimesMonotone ==
    ASSUME NEW a \in Nat, NEW b \in Nat, a =< b
    PROVE  Price * a =< Price * b
<1>1. PICK k \in Nat : b = a + k
    <2>1. b - a \in Nat /\ b = a + (b - a)
        OBVIOUS
    <2> QED  BY <2>1
<1>2. Price * b = Price * a + Price * k /\ Price * a \in Nat /\ Price * k \in Nat
    BY <1>1, NoteAssumption
<1> QED  BY <1>2

LEMMA AmountsType ==
    ASSUME TypeOK
    PROVE  Amounts \subseteq Nat
<1>1. \A d \in Devices : sums[d] \in Seq(Nat)
    BY DEF TypeOK
<1>2. \A d \in Devices : \A i \in 1..Len(sums[d]) : sums[d][i] \in Nat
    BY <1>1
<1> QED  BY <1>2 DEF Amounts, Seen, TypeOK, Credit

LEMMA EarnedSeenIsAmount ==
    ASSUME TypeOK, NEW d \in Devices
    PROVE  EarnedSeen(d) \in Amounts /\ EarnedSeen(d) \in Nat
<1>1. CASE sums[d] = <<>>
    BY <1>1 DEF EarnedSeen, Amounts, TypeOK
<1>2. CASE sums[d] # <<>>
    <2>1. sums[d] \in Seq(Nat)
        BY DEF TypeOK
    <2>2. Len(sums[d]) \in 1..Len(sums[d])
        BY <1>2, <2>1, EmptySeq, LenProperties
    <2>3. EarnedSeen(d) = sums[d][Len(sums[d])]
        BY <1>2 DEF EarnedSeen
    <2>4. \A i \in 1..Len(sums[d]) : sums[d][i] \in Amounts
        BY DEF Amounts
    <2> QED  BY <2>2, <2>3, <2>4, AmountsType
<1> QED  BY <1>1, <1>2

\* A step that spends nothing, or gives a payment up, keeps the budget.
LEMMA BudgetKept ==
    ASSUME MoneyInv, UNCHANGED payments,
           Unspent' \subseteq Unspent,
           Amounts' \subseteq Amounts
    PROVE  Budget'
<1>1. Spent \subseteq Spent'
    BY DEF Spent
<1>2. /\ IsFiniteSet(Spent')
      /\ Cardinality(Spent) =< Cardinality(Spent')
      /\ Cardinality(Spent) \in Nat /\ Cardinality(Spent') \in Nat
    <2>1. IsFiniteSet(Spent')
        BY FS_Subset DEF MoneyInv, Budget, Spent
    <2> QED  BY <1>1, <2>1, FS_Subset, FS_CardinalityType
<1>3. Price * Cardinality(Spent) =< Price * Cardinality(Spent')
    BY <1>2, TimesMonotone
<1> DEFINE a == Price * Cardinality(Spent)
           b == Price * Cardinality(Spent')
<1>4. a \in Nat /\ b \in Nat /\ a =< b
    BY <1>2, <1>3, NoteAssumption
<1>5. \A n \in Amounts' : n \in Nat /\ n =< a
    BY AmountsType DEF MoneyInv, Budget
<1>6. \A n \in Amounts' : n =< b
    <2> HIDE DEF a, b
    <2> QED  BY <1>4, <1>5
<1> QED  BY <1>6 DEF MoneyInv, Budget

-----------------------------------------------------------------------------
(***************************************************************************)
(* Types.                                                                  *)
(***************************************************************************)
LEMMA ResetScreenType ==
    ASSUME TypeOK, NEW d \in Devices, NEW opens \in BOOLEAN,
           ResetScreen(d, opens)
    PROVE  /\ open' \in [Devices -> BOOLEAN]
           /\ hasUser' \in [Devices -> BOOLEAN]
           /\ asks' \in [Devices -> 0..MaxAsks]
           /\ checks' \in [Devices -> 0..MaxAsks]
           /\ purchased' \in [Devices -> BOOLEAN]
           /\ title' \in [Devices -> {"pay", "download"}]
           /\ reviewable' \in [Devices -> BOOLEAN]
           /\ recorded' \in [Devices -> BOOLEAN]
           /\ stage' \in [Devices -> Stages]
           /\ paid' \in [Devices -> PaymentIds \cup {NoPayment}]
           /\ fetching' \in [Devices -> BOOLEAN]
<1>1. 0 \in 0..MaxAsks /\ 1 \in 0..MaxAsks
    BY NoteAssumption
<1>2. (IF opens THEN 1 ELSE 0) \in 0..MaxAsks
    BY <1>1
<1>3. asks' \in [Devices -> 0..MaxAsks]
    BY <1>2 DEF TypeOK, ResetScreen
<1>4. open' \in [Devices -> BOOLEAN]
    BY Zenon DEF TypeOK, ResetScreen
<1> QED  BY <1>1, <1>3, <1>4 DEF TypeOK, ResetScreen, Stages

LEMMA ScreenType ==
    ASSUME TypeOK, NEW d \in Devices,
           OpenScreen(d) \/ CloseScreen(d) \/ PayPalFails(d) \/ AppKilled(d)
    PROVE  TypeOK'
<1>1. CASE OpenScreen(d)
    BY <1>1, ResetScreenType DEF OpenScreen, TypeOK, storeVars
<1>2. CASE CloseScreen(d)
    BY <1>2, ResetScreenType DEF CloseScreen, TypeOK, storeVars
<1>3. CASE PayPalFails(d)
    BY <1>3, ResetScreenType DEF PayPalFails, TypeOK, storeVars
<1>4. CASE AppKilled(d)
    BY <1>4, ResetScreenType DEF AppKilled, TypeOK
<1> QED  BY <1>1, <1>2, <1>3, <1>4

\* A query that is answered, and the tap that starts a download or the sheet.
LEMMA ReplyType ==
    ASSUME TypeOK, NEW d \in Devices,
           Replies(d) \/ FileArrives(d) \/ TouchDownload(d)
    PROVE  TypeOK'
<1> USE NoteAssumption DEF TypeOK
<1>1. CASE UserArrives(d)
    BY <1>1 DEF UserArrives, storeVars, coverVars
<1>2. CASE UserFails(d)
    BY <1>2 DEF UserFails, storeVars, buttonVars, coverVars
<1>3. CASE CheckArrives(d)
    <2>1. (purchased[d] \/ Found(d)) \in BOOLEAN /\ (reviewable[d] \/ Found(d)) \in BOOLEAN
        BY Zenon
    <2>2. purchased' \in [Devices -> BOOLEAN] /\ reviewable' \in [Devices -> BOOLEAN]
        BY <1>3, <2>1, Zenon DEF CheckArrives
    <2>3. title' \in [Devices -> {"pay", "download"}]
        BY <1>3 DEF CheckArrives
    <2> QED  BY <1>3, <2>2, <2>3 DEF CheckArrives, storeVars, coverVars
<1>4. CASE CheckFails(d)
    BY <1>4 DEF CheckFails, storeVars, coverVars
<1>5. CASE FileArrives(d)
    <2>1. asks' \in [Devices -> 0..MaxAsks]
        <3>1. CASE asks' = asks
            BY <3>1
        <3>2. CASE asks[d] < MaxAsks /\ asks' = [asks EXCEPT ![d] = @ + 1]
            <4>1. asks[d] + 1 \in 0..MaxAsks
                BY <3>2
            <4> QED  BY <3>2, <4>1
        <3> QED  BY <1>5, <3>1, <3>2 DEF FileArrives
    <2>2. UNCHANGED <<storeVars, buttonVars, open, hasUser, checks, stage, paid>>
        BY <1>5 DEF FileArrives
    <2>3. fetching' \in [Devices -> BOOLEAN]
        BY <1>5 DEF FileArrives
    <2> QED  BY <2>1, <2>2, <2>3 DEF storeVars, buttonVars
<1>6. CASE TouchDownload(d)
    BY <1>6 DEF TouchDownload, Stages, storeVars, queryVars, buttonVars
<1> QED  BY <1>1, <1>2, <1>3, <1>4, <1>5, <1>6 DEF Replies

LEMMA CheckoutType ==
    ASSUME MoneyInv, NEW d \in Devices,
           CancelSheet(d) \/ ConfirmPurchase(d) \/ PayPalApproves(d) \/ PayPalReturns(d)
    PROVE  TypeOK'
<1> USE DEF MoneyInv, TypeOK
<1>1. CASE CancelSheet(d)
    BY <1>1 DEF CancelSheet, Stages, storeVars, queryVars, buttonVars
<1>2. CASE ConfirmPurchase(d)
    BY <1>2 DEF ConfirmPurchase, Stages, storeVars, queryVars, buttonVars
<1>3. CASE PayPalApproves(d)
    <2>1. PICK i \in PaymentIds \ Ids(payments) :
              /\ payments' = payments \cup
                     {[id |-> i, user |-> AuthUser[d], amount |-> Price]}
              /\ paid' = [paid EXCEPT ![d] = i]
        BY <1>3 DEF PayPalApproves
    <2>2. [id |-> i, user |-> AuthUser[d], amount |-> Price] \in Payment
        BY NoteAssumption DEF Payment
    <2> QED  BY <1>3, <2>1, <2>2 DEF PayPalApproves, Stages, queryVars, buttonVars
<1>4. CASE PayPalReturns(d)
    <2>1. paid[d] \in PaymentIds
        BY <1>4 DEF PayPalReturns, Identities, Approving, Ids, Payment
    <2>2. NewCredit(d) \in Credit
        BY <2>1 DEF NewCredit, Credit
    <2>3. (queued[d] \/ Records(d)) \in BOOLEAN /\ (recorded[d] \/ Records(d)) \in BOOLEAN
        BY Zenon
    <2>4. queued' \in [Devices -> BOOLEAN] /\ recorded' \in [Devices -> BOOLEAN]
        BY <1>4, <2>3, Zenon DEF PayPalReturns
    <2> QED  BY <1>4, <2>2, <2>4 DEF PayPalReturns, Stages, queryVars
<1> QED  BY <1>1, <1>2, <1>3, <1>4

LEMMA StoreType ==
    ASSUME MoneyInv,
           (\E d \in Devices : CommitRecord(d) \/ WriteEarned(d)) \/ Crediting
    PROVE  TypeOK'
<1> USE DEF MoneyInv, TypeOK, queryVars, buttonVars, coverVars
<1>1. CASE \E d \in Devices : CommitRecord(d)
    <2>1. PICK d \in Devices : CommitRecord(d)
        BY <1>1
    <2>2. AuthUser[d] \in Members
        BY NoteAssumption
    <2>3. owners' \subseteq Members /\ queued' \in [Devices -> BOOLEAN]
        BY <2>1, <2>2 DEF CommitRecord
    <2> QED  BY <2>1, <2>3 DEF CommitRecord
<1>2. ASSUME NEW c \in credits, ReadEarned(c) PROVE TypeOK'
    <2>1. c.device \in Devices
        BY DEF Credit
    <2>2. EarnedSeen(c.device) \in Nat
        BY <2>1, EarnedSeenIsAmount
    <2>3. EarnedSeen(c.device) + Price \in Nat
        BY <2>2, NoteAssumption
    <2>4. [c EXCEPT !.step = "seen", !.sum = EarnedSeen(c.device) + Price] \in Credit
        BY <2>3 DEF Credit
    <2>5. overlapped' \in BOOLEAN
        BY <1>2, Zenon DEF ReadEarned
    <2> QED  BY <1>2, <2>4, <2>5 DEF ReadEarned
<1>3. ASSUME NEW c \in credits, ReadEarnedFails(c) PROVE TypeOK'
    BY <1>3 DEF ReadEarnedFails
<1>4. ASSUME NEW c \in credits, QueueSum(c) PROVE TypeOK'
    <2>1. c.device \in Devices /\ c.sum \in Nat
        BY DEF Credit
    <2>2. Append(sums[c.device], c.sum) \in Seq(Nat)
        BY <2>1, AppendProperties
    <2>3. sums' \in [Devices -> Seq(Nat)]
        BY <1>4, <2>2 DEF QueueSum
    <2> QED  BY <1>4, <2>3 DEF QueueSum
<1>5. ASSUME NEW d \in Devices, WriteEarned(d) PROVE TypeOK'
    <2>1. sums[d] \in Seq(Nat) /\ sums[d] # <<>>
        BY <1>5 DEF WriteEarned
    <2>2. Head(sums[d]) \in Nat /\ Tail(sums[d]) \in Seq(Nat)
        BY <2>1, HeadTailProperties
    <2>3. sums' \in [Devices -> Seq(Nat)] /\ earned' \in Nat /\ credited' \in Nat
        BY <1>5, <2>2 DEF WriteEarned
    <2> QED  BY <1>5, <2>3 DEF WriteEarned
<1> QED  BY <1>1, <1>2, <1>3, <1>4, <1>5 DEF Crediting

LEMMA NextType == MoneyInv /\ Next => TypeOK'
<1> SUFFICES ASSUME MoneyInv, Next PROVE TypeOK'
    OBVIOUS
<1>1. TypeOK
    BY DEF MoneyInv
<1> QED
    BY <1>1, ScreenType, ReplyType, CheckoutType, StoreType DEF Next, Buying

-----------------------------------------------------------------------------
(***************************************************************************)
(* Money. Most steps leave the payments, the seller's amount and the       *)
(* approvals alone, or give some of the latter up.                         *)
(***************************************************************************)
Quiet ==
    /\ UNCHANGED payments
    /\ credits' \subseteq credits
    /\ Amounts' \subseteq Amounts
    /\ Approving' \subseteq Approving
    /\ \A d \in Approving' : paid'[d] = paid[d]

LEMMA QuietStep ==
    ASSUME MoneyInv, TypeOK', Quiet
    PROVE  MoneyInv'
<1>1. Identities'
    BY DEF MoneyInv, Identities, Quiet, Ids
<1>2. Unspent' \subseteq Unspent
    BY DEF Quiet, Unspent, Ids, Reading
<1> QED  BY <1>1, <1>2, BudgetKept DEF MoneyInv, Quiet

\* Where the sums are left alone and no credit is added, no amount is new.
LEMMA SameAmounts ==
    ASSUME UNCHANGED <<earned, sums>>, Seen' \subseteq Seen
    PROVE  Amounts' \subseteq Amounts
BY DEF Amounts

LEMMA ScreensAreQuiet ==
    ASSUME TypeOK, NEW d \in Devices,
           \/ OpenScreen(d) \/ CloseScreen(d) \/ AppKilled(d)
           \/ Replies(d) \/ FileArrives(d) \/ CommitRecord(d)
           \/ TouchDownload(d) \/ CancelSheet(d) \/ ConfirmPurchase(d)
           \/ PayPalFails(d)
    PROVE  Quiet
<1> SUFFICES /\ UNCHANGED <<payments, earned, sums>> /\ credits' \subseteq credits
             /\ Approving' \subseteq Approving
             /\ \A e \in Approving' : paid'[e] = paid[e]
    BY SameAmounts DEF Quiet, Seen
<1> USE DEF Approving, TypeOK
<1>1. CASE OpenScreen(d) \/ CloseScreen(d) \/ PayPalFails(d)
    BY <1>1 DEF OpenScreen, CloseScreen, PayPalFails, ResetScreen, storeVars
<1>2. CASE AppKilled(d)
    BY <1>2 DEF AppKilled, ResetScreen
<1>3. CASE Replies(d) \/ FileArrives(d)
    BY <1>3 DEF Replies, UserArrives, UserFails, CheckArrives, CheckFails,
                FileArrives, storeVars, coverVars
<1>4. CASE CommitRecord(d)
    BY <1>4 DEF CommitRecord, coverVars
<1>5. CASE TouchDownload(d) \/ CancelSheet(d) \/ ConfirmPurchase(d)
    BY <1>5 DEF TouchDownload, CancelSheet, ConfirmPurchase, storeVars
<1> QED  BY <1>1, <1>2, <1>3, <1>4, <1>5

\* A sum that is queued was computed before, one that is sent was queued.
LEMMA SumsAreQuiet ==
    ASSUME TypeOK,
           \/ \E c \in credits : ReadEarnedFails(c) \/ QueueSum(c)
           \/ \E d \in Devices : WriteEarned(d)
    PROVE  Quiet
<1> SUFFICES /\ UNCHANGED <<payments, stage, paid>> /\ credits' \subseteq credits
             /\ Amounts' \subseteq Amounts
    BY DEF Quiet, Approving
<1>1. ASSUME NEW c \in credits, ReadEarnedFails(c)
      PROVE  /\ UNCHANGED <<payments, stage, paid>> /\ credits' \subseteq credits
             /\ Amounts' \subseteq Amounts
    BY <1>1, SameAmounts DEF ReadEarnedFails, coverVars, Seen
<1>2. ASSUME NEW c \in credits, QueueSum(c)
      PROVE  /\ UNCHANGED <<payments, stage, paid>> /\ credits' \subseteq credits
             /\ Amounts' \subseteq Amounts
    <2> DEFINE q == sums[c.device]
    <2>1. c.device \in Devices /\ c \in Seen /\ Seen' \subseteq Seen
        BY <1>2 DEF QueueSum, Seen, TypeOK, Credit
    <2>2. /\ q \in Seq(Nat) /\ c.sum \in Nat
          /\ sums' = [sums EXCEPT ![c.device] = Append(q, c.sum)]
          /\ earned' = earned
        BY <1>2, <2>1 DEF QueueSum, TypeOK, Credit
    <2>3. \A i \in 1..Len(Append(q, c.sum)) :
              \/ Append(q, c.sum)[i] = c.sum
              \/ i \in 1..Len(q) /\ Append(q, c.sum)[i] = q[i]
        BY <2>2
    <2>4. ASSUME NEW d \in Devices, NEW i \in 1..Len(sums'[d])
          PROVE  sums'[d][i] \in Amounts
        <3>1. CASE d = c.device
            <4>1. sums'[d] = Append(q, c.sum)
                BY <2>1, <2>2, <3>1 DEF TypeOK
            <4>2. c.sum \in Amounts /\ \A j \in 1..Len(q) : q[j] \in Amounts
                BY <2>1 DEF Amounts
            <4> QED  BY <2>3, <4>1, <4>2
        <3>2. CASE d # c.device
            BY <2>2, <3>2 DEF Amounts, TypeOK
        <3> QED  BY <3>1, <3>2
    <2>5. Amounts' \subseteq Amounts
        BY <2>1, <2>2, <2>4 DEF Amounts
    <2> QED  BY <1>2, <2>5 DEF QueueSum, coverVars
<1>3. ASSUME NEW d \in Devices, WriteEarned(d)
      PROVE  /\ UNCHANGED <<payments, stage, paid>> /\ credits' \subseteq credits
             /\ Amounts' \subseteq Amounts
    <2> DEFINE q == sums[d]
    <2>1. /\ q \in Seq(Nat) /\ q # <<>> /\ earned' = Head(q)
          /\ sums' = [sums EXCEPT ![d] = Tail(q)]
          /\ UNCHANGED credits
        BY <1>3 DEF WriteEarned, TypeOK
    <2>2. /\ Head(q) = q[1] /\ 1 \in 1..Len(q)
          /\ \A i \in 1..Len(Tail(q)) : i + 1 \in 1..Len(q) /\ Tail(q)[i] = q[i + 1]
        BY <2>1, EmptySeq, HeadTailProperties
    <2>3. \A i \in 1..Len(q) : q[i] \in Amounts
        BY DEF Amounts
    <2>4. ASSUME NEW e \in Devices, NEW i \in 1..Len(sums'[e])
          PROVE  sums'[e][i] \in Amounts
        <3>1. CASE e = d
            <4>1. sums'[e] = Tail(q)
                BY <2>1, <3>1 DEF TypeOK
            <4> QED  BY <2>2, <2>3, <4>1
        <3>2. CASE e # d
            BY <2>1, <3>2 DEF Amounts, TypeOK
        <3> QED  BY <3>1, <3>2
    <2>5. Amounts' \subseteq Amounts
        BY <2>1, <2>2, <2>3, <2>4 DEF Amounts, Seen
    <2> QED  BY <1>3, <2>5 DEF WriteEarned, coverVars
<1> QED  BY <1>1, <1>2, <1>3

LEMMA ApprovalKeepsMoney ==
    ASSUME MoneyInv, TypeOK', NEW d \in Devices, PayPalApproves(d)
    PROVE  MoneyInv'
<1>1. PICK i \in PaymentIds \ Ids(payments) :
          /\ payments' = payments \cup
                 {[id |-> i, user |-> AuthUser[d], amount |-> Price]}
          /\ paid' = [paid EXCEPT ![d] = i]
    BY DEF PayPalApproves
<1> DEFINE p == [id |-> i, user |-> AuthUser[d], amount |-> Price]
<1>2. payments' = payments \cup {p} /\ p.id = i
    BY <1>1
<1> HIDE DEF p
<1>3. /\ stage' = [stage EXCEPT ![d] = "approved"]
      /\ stage[d] = "paypal"
      /\ UNCHANGED <<earned, credits, sums>>
    BY DEF PayPalApproves
<1>4. Approving' = Approving \cup {d} /\ d \notin Approving
    BY <1>3 DEF Approving, MoneyInv, TypeOK
<1>5. paid'[d] = i /\ \A e \in Devices : e # d => paid'[e] = paid[e]
    BY <1>1 DEF MoneyInv, TypeOK
<1>6. \A q \in payments : q.id # i
    BY <1>1 DEF Ids
<1>7. Ids(payments') = Ids(payments) \cup {i}
    BY <1>2 DEF Ids
<1>8. i \notin Ids(credits)
    BY <1>1 DEF MoneyInv, Identities, Ids
<1>9. Identities'
    <2>1. \A q, r \in payments' : q.id = r.id => q = r
        BY <1>2, <1>6 DEF MoneyInv, Identities
    <2>2. /\ \A c \in credits' : c.id \in Ids(payments')
          /\ \A c, e \in credits' : c.id = e.id => c = e
        BY <1>3, <1>7 DEF MoneyInv, Identities
    <2>3. \A e \in Approving' : paid'[e] \in Ids(payments') \ Ids(credits')
        BY <1>3, <1>4, <1>5, <1>7, <1>8 DEF MoneyInv, Identities, Approving
    <2>4. \A e, f \in Approving' : paid'[e] = paid'[f] => e = f
        BY <1>1, <1>4, <1>5 DEF MoneyInv, Identities, Approving
    <2> QED  BY <2>1, <2>2, <2>3, <2>4 DEF Identities
<1>10. Spent' = Spent
    <2>1. Unspent' = Unspent \cup {i}
        BY <1>3, <1>4, <1>5 DEF Unspent, Reading, Approving
    <2> QED  BY <1>2, <1>6, <2>1 DEF Spent
<1>11. IsFiniteSet(payments')
    BY <1>2, FS_AddElement DEF MoneyInv, Budget
<1>12. Amounts' = Amounts
    BY <1>3 DEF Amounts, Seen
<1> QED  BY <1>9, <1>10, <1>11, <1>12 DEF MoneyInv, Budget

LEMMA ReturnKeepsMoney ==
    ASSUME MoneyInv, TypeOK', NEW d \in Devices, PayPalReturns(d)
    PROVE  MoneyInv'
<1> DEFINE c == NewCredit(d)
<1>1. c.id = paid[d] /\ c.step = "read"
    BY DEF NewCredit
<1>2. credits' = credits \cup {c}
    BY DEF PayPalReturns
<1> HIDE DEF c
<1>3. d \in Approving /\ Approving' = Approving \ {d}
    BY DEF PayPalReturns, Approving, MoneyInv, TypeOK
<1>4. \A e \in Approving' : paid'[e] = paid[e]
    BY <1>3 DEF PayPalReturns, Approving, MoneyInv, TypeOK
<1>5. UNCHANGED <<payments, earned, sums>>
    BY DEF PayPalReturns
<1>6. paid[d] \in Ids(payments) /\ paid[d] \notin Ids(credits)
    BY <1>3 DEF MoneyInv, Identities
<1>7. Identities'
    <2>1. Ids(credits') = Ids(credits) \cup {paid[d]}
        BY <1>1, <1>2 DEF Ids
    <2>2. \A e \in credits : e.id # paid[d]
        BY <1>6 DEF Ids
    <2>3. \A e, f \in credits' : e.id = f.id => e = f
        BY <1>1, <1>2, <2>2 DEF MoneyInv, Identities
    <2>4. \A e \in credits' : e.id \in Ids(payments')
        BY <1>1, <1>2, <1>5, <1>6 DEF MoneyInv, Identities
    <2>5. \A e \in Approving' : paid'[e] \in Ids(payments') \ Ids(credits')
        BY <1>3, <1>4, <1>5, <2>1 DEF MoneyInv, Identities
    <2> QED  BY <1>3, <1>4, <1>5, <2>3, <2>4, <2>5 DEF MoneyInv, Identities
<1>8. Unspent' \subseteq Unspent
    BY <1>1, <1>2, <1>3, <1>4 DEF Unspent, Reading, Ids
<1>9. Amounts' \subseteq Amounts
    BY <1>1, <1>2, <1>5, SameAmounts DEF Seen
<1> QED  BY <1>5, <1>7, <1>8, <1>9, BudgetKept DEF MoneyInv

\* A payment is spent when `earned` is read for it: the sum to write is at most
\* one price above what was spent before.
LEMMA ReadKeepsMoney ==
    ASSUME MoneyInv, TypeOK', NEW c \in credits, ReadEarned(c)
    PROVE  MoneyInv'
<1> DEFINE sum == EarnedSeen(c.device) + Price
           w == [c EXCEPT !.step = "seen", !.sum = sum]
<1>1. /\ credits' = (credits \ {c}) \cup {w}
      /\ c.step = "read"
      /\ UNCHANGED <<payments, earned, sums, stage, paid>>
    BY DEF ReadEarned, coverVars
<1>2. w.id = c.id /\ w.step = "seen" /\ w.sum = sum
    BY DEF MoneyInv, TypeOK, Credit
<1> HIDE DEF w
<1>3. EarnedSeen(c.device) \in Nat
      /\ EarnedSeen(c.device) =< Price * Cardinality(Spent)
    <2>1. c.device \in Devices
        BY DEF MoneyInv, TypeOK, Credit
    <2> QED  BY <2>1, EarnedSeenIsAmount DEF MoneyInv, Budget
<1>4. Identities'
    <2>1. Ids(credits') = Ids(credits)
        BY <1>1, <1>2 DEF Ids
    <2>2. \A e, f \in credits' : e.id = f.id => e = f
        BY <1>1, <1>2 DEF MoneyInv, Identities
    <2>3. \A e \in credits' : e.id \in Ids(payments')
        BY <1>1, <1>2 DEF MoneyInv, Identities
    <2> QED  BY <1>1, <2>1, <2>2, <2>3 DEF MoneyInv, Identities, Approving
<1>5. PICK p \in payments : p.id = c.id
    BY DEF MoneyInv, Identities, Ids
<1>6. Unspent' \subseteq Unspent \ {c.id}
    <2>1. Reading' = Reading \ {c}
        BY <1>1, <1>2 DEF Reading
    <2>2. Ids(Reading') \subseteq Ids(Reading) \ {c.id}
        BY <2>1 DEF Ids, Reading, MoneyInv, Identities
    <2>3. c.id \notin {paid[d] : d \in Approving}
        BY DEF MoneyInv, Identities, Ids
    <2> QED  BY <1>1, <2>2, <2>3 DEF Unspent, Approving
<1>7. p \notin Spent /\ Spent \cup {p} \subseteq Spent'
    <2>1. p.id \in Unspent
        BY <1>1, <1>5 DEF Unspent, Ids, Reading
    <2> QED  BY <1>1, <1>5, <1>6, <2>1 DEF Spent
<1>8. /\ Cardinality(Spent) \in Nat /\ Cardinality(Spent') \in Nat
      /\ Cardinality(Spent) + 1 =< Cardinality(Spent')
    <2>1. IsFiniteSet(Spent) /\ IsFiniteSet(Spent')
        BY <1>1, FS_Subset DEF MoneyInv, Budget, Spent
    <2>2. Cardinality(Spent \cup {p}) = Cardinality(Spent) + 1
        BY <1>7, <2>1, FS_AddElement
    <2>3. Cardinality(Spent \cup {p}) =< Cardinality(Spent')
        BY <1>7, <2>1, FS_Subset
    <2> QED  BY <2>1, <2>2, <2>3, FS_CardinalityType
<1> DEFINE a == Price * Cardinality(Spent)
           b == Price * Cardinality(Spent')
<1>9. a \in Nat /\ b \in Nat /\ a + Price =< b
    <2>1. Price * (Cardinality(Spent) + 1) =< b
        BY <1>8, TimesMonotone
    <2>2. Price * (Cardinality(Spent) + 1) = a + Price
        BY <1>8, NoteAssumption
    <2> QED  BY <1>8, <2>1, <2>2, NoteAssumption
<1>10. \A n \in Amounts : n \in Nat /\ n =< a
    BY AmountsType DEF MoneyInv, Budget
<1>11. Amounts' \subseteq Amounts \cup {sum}
    BY <1>1, <1>2 DEF Amounts, Seen
<1>12. sum =< b
    <2> HIDE DEF b
    <2> QED  BY <1>3, <1>9, NoteAssumption
<1>13. \A n \in Amounts' : n =< b
    <2> HIDE DEF a, b, sum
    <2> QED  BY <1>9, <1>10, <1>11, <1>12, NoteAssumption
<1> QED  BY <1>1, <1>4, <1>13 DEF MoneyInv, Budget

LEMMA MoneyInvariant == Spec => []MoneyInv
<1>1. Init => MoneyInv
    <2> SUFFICES ASSUME Init PROVE MoneyInv
        OBVIOUS
    <2>1. TypeOK
        <3>1. 0 \in 0..MaxAsks
            BY NoteAssumption
        <3>2. /\ asks \in [Devices -> 0..MaxAsks]
              /\ checks \in [Devices -> 0..MaxAsks]
            BY <3>1 DEF Init
        <3>3. paid \in [Devices -> PaymentIds \cup {NoPayment}]
            BY DEF Init
        <3>4. sums \in [Devices -> Seq(Nat)]
            BY EmptySeq DEF Init
        <3> QED  BY <3>2, <3>3, <3>4 DEF Init, TypeOK, Stages
    <2>2. Identities
        BY DEF Init, Identities, Approving
    <2>3. Budget
        <3>1. IsFiniteSet(payments) /\ Spent = {} /\ Amounts = {0}
            BY FS_EmptySet DEF Init, Spent, Amounts, Seen
        <3>2. Price * 0 = 0
            BY NoteAssumption
        <3> QED  BY <3>1, <3>2, FS_EmptySet DEF Init, Budget
    <2> QED  BY <2>1, <2>2, <2>3 DEF MoneyInv
<1>2. MoneyInv /\ [Next]_vars => MoneyInv'
    <2> SUFFICES ASSUME MoneyInv, [Next]_vars PROVE MoneyInv'
        OBVIOUS
    <2>1. CASE UNCHANGED vars
        <3>1. UNCHANGED <<payments, earned, credits, sums, stage, paid>> /\ TypeOK'
            BY <2>1 DEF vars, storeVars, queryVars, buttonVars, coverVars,
                        MoneyInv, TypeOK
        <3> QED  BY <3>1, SameAmounts, QuietStep DEF Quiet, Approving, Seen
    <2>2. CASE Next
        <3>1. TypeOK /\ TypeOK'
            BY <2>2, NextType DEF MoneyInv
        <3>2. ASSUME NEW d \in Devices, PayPalApproves(d) PROVE MoneyInv'
            BY <3>1, <3>2, ApprovalKeepsMoney
        <3>3. ASSUME NEW d \in Devices, PayPalReturns(d) PROVE MoneyInv'
            BY <3>1, <3>3, ReturnKeepsMoney
        <3>4. ASSUME NEW c \in credits, ReadEarned(c) PROVE MoneyInv'
            BY <3>1, <3>4, ReadKeepsMoney
        <3>5. ASSUME NEW c \in credits, ReadEarnedFails(c) \/ QueueSum(c)
              PROVE  MoneyInv'
            BY <3>1, <3>5, SumsAreQuiet, QuietStep
        <3>6. ASSUME NEW d \in Devices, WriteEarned(d) PROVE MoneyInv'
            BY <3>1, <3>6, SumsAreQuiet, QuietStep
        <3>7. ASSUME NEW d \in Devices,
                     \/ OpenScreen(d) \/ CloseScreen(d) \/ AppKilled(d)
                     \/ Replies(d) \/ FileArrives(d) \/ CommitRecord(d)
                     \/ TouchDownload(d) \/ CancelSheet(d) \/ ConfirmPurchase(d)
                     \/ PayPalFails(d)
              PROVE  MoneyInv'
            BY <3>1, <3>7, ScreensAreQuiet, QuietStep
        <3> QED  BY <2>2, <3>2, <3>3, <3>4, <3>5, <3>6, <3>7 DEF Next, Buying, Crediting
    <2> QED  BY <2>1, <2>2
<1> QED  BY <1>1, <1>2, PTL DEF Spec

\* The types hold in every behaviour of the purchase of a note.
THEOREM NoteTypeCorrect == Spec => []TypeOK
<1>1. MoneyInv => TypeOK
    BY DEF MoneyInv
<1> QED  BY <1>1, MoneyInvariant, PTL

\* However many devices credit the seller at once, and in whatever order, the
\* seller is never credited more than was paid.
THEOREM SellerNotOvercredited == Spec => []EarnedBounded
<1>1. MoneyInv => EarnedBounded
    <2> SUFFICES ASSUME MoneyInv PROVE EarnedBounded
        OBVIOUS
    <2>1. /\ Cardinality(Spent) \in Nat /\ Cardinality(payments) \in Nat
          /\ Cardinality(Spent) =< Cardinality(payments)
        BY SpentFinite DEF MoneyInv
    <2> DEFINE a == Price * Cardinality(Spent)
               b == Price * Cardinality(payments)
    <2>2. a \in Nat /\ b \in Nat /\ a =< b
        BY <2>1, TimesMonotone, NoteAssumption
    <2>3. earned \in Nat /\ earned =< a
        BY DEF MoneyInv, TypeOK, Budget, Amounts
    <2> HIDE DEF a
    <2> QED  BY <2>2, <2>3 DEF EarnedBounded
<1> QED  BY <1>1, MoneyInvariant, PTL

-----------------------------------------------------------------------------
(***************************************************************************)
(* Credits one after another. While no read has overlapped another credit, *)
(* the unsent sums are all one device's and go up in steps of the price    *)
(* from what the server has, so the one that is sent first adds exactly    *)
(* the price; at most one sum is computed and not yet queued, and it       *)
(* continues them.                                                         *)
(***************************************************************************)
InSteps(q) ==
    /\ q # <<>> => q[1] = earned + Price
    /\ \A i \in 1..(Len(q) - 1) : q[i + 1] = q[i] + Price

Serial ==
    /\ earned = Price * credited
    /\ \A d \in Devices : InSteps(sums[d])
    /\ \A d, e \in Devices : sums[d] # <<>> /\ sums[e] # <<>> => d = e
    /\ \A c, e \in Seen : c = e
    /\ \A c \in Seen :
          /\ c.sum = EarnedSeen(c.device) + Price
          /\ \A d \in Devices : sums[d] # <<>> => d = c.device

SerialInv == ~overlapped => Serial

\* Besides a read that is answered and a sum that is queued or sent, the only
\* step that touches these is a kill, which drops replies.
LEMMA OthersKeepSerial ==
    ASSUME TypeOK, SerialInv, [Next]_vars,
           ~ \E c \in credits : ReadEarned(c) \/ QueueSum(c),
           ~ \E d \in Devices : WriteEarned(d)
    PROVE  SerialInv'
<1> SUFFICES UNCHANGED <<earned, sums, credited, overlapped>> /\ Seen' \subseteq Seen
    BY DEF SerialInv, Serial, InSteps, EarnedSeen
<1> USE DEF Seen, storeVars
<1>1. CASE UNCHANGED vars
    BY <1>1 DEF vars
<1>2. ASSUME NEW d \in Devices,
             \/ OpenScreen(d) \/ CloseScreen(d) \/ AppKilled(d)
             \/ Replies(d) \/ Buying(d) \/ FileArrives(d) \/ CommitRecord(d)
      PROVE  UNCHANGED <<earned, sums, credited, overlapped>> /\ Seen' \subseteq Seen
    <2>1. CASE OpenScreen(d) \/ CloseScreen(d) \/ AppKilled(d)
        BY <2>1 DEF OpenScreen, CloseScreen, AppKilled
    <2>2. CASE Replies(d) \/ FileArrives(d) \/ CommitRecord(d)
        BY <2>2 DEF Replies, UserArrives, UserFails, CheckArrives, CheckFails,
                    FileArrives, CommitRecord
    <2>3. CASE PayPalReturns(d)
        BY <2>3 DEF PayPalReturns, NewCredit
    <2>4. CASE Buying(d) /\ ~PayPalReturns(d)
        BY <2>4 DEF Buying, TouchDownload, CancelSheet, ConfirmPurchase,
                    PayPalApproves, PayPalFails
    <2> QED  BY <1>2, <2>1, <2>2, <2>3, <2>4
<1>3. CASE Crediting
    <2>1. PICK c \in credits : ReadEarnedFails(c)
        BY <1>3 DEF Crediting
    <2> QED  BY <2>1 DEF ReadEarnedFails
<1> QED  BY <1>1, <1>2, <1>3 DEF Next

\* The sum that is computed lies the price above all that are unsent.
LEMMA ReadKeepsSerial ==
    ASSUME MoneyInv, SerialInv, NEW c \in credits, ReadEarned(c)
    PROVE  SerialInv'
<1> SUFFICES ASSUME ~overlapped' PROVE Serial'
    BY DEF SerialInv
<1> DEFINE n == [c EXCEPT !.step = "seen", !.sum = EarnedSeen(c.device) + Price]
<1>1. /\ credits' = (credits \ {c}) \cup {n}
      /\ UNCHANGED <<earned, sums, credited>>
      /\ ~overlapped /\ Seen = {}
      /\ \A d \in Devices : sums[d] # <<>> => d = c.device
    BY DEF ReadEarned, Seen
<1>2. n.device = c.device /\ n.step = "seen" /\ n.sum = EarnedSeen(c.device) + Price
    BY DEF MoneyInv, TypeOK, Credit
<1> HIDE DEF n
<1>3. Seen' = {n}
    BY <1>1, <1>2 DEF Seen
<1> QED  BY <1>1, <1>2, <1>3 DEF SerialInv, Serial, InSteps, EarnedSeen

\* The sum that is queued continues the device's unsent ones.
LEMMA QueueKeepsSerial ==
    ASSUME MoneyInv, SerialInv, NEW c \in credits, QueueSum(c)
    PROVE  SerialInv'
<1> SUFFICES ASSUME ~overlapped' PROVE Serial'
    BY DEF SerialInv
<1> DEFINE q == sums[c.device]
           new == Append(q, c.sum)
<1>1. /\ sums' = [sums EXCEPT ![c.device] = new]
      /\ UNCHANGED <<earned, credited>>
      /\ credits' = credits \ {c}
      /\ ~overlapped /\ c \in Seen
    BY DEF QueueSum, Seen
<1>2. Serial
    BY <1>1 DEF SerialInv
<1>3. Seen' = {}
    BY <1>1, <1>2 DEF Serial, Seen
<1>4. /\ c.device \in Devices /\ q \in Seq(Nat) /\ c.sum \in Nat
      /\ sums \in [Devices -> Seq(Nat)]
    BY DEF MoneyInv, TypeOK, Credit
<1>5. /\ Len(new) = Len(q) + 1 /\ new[Len(q) + 1] = c.sum
      /\ \A i \in 1..Len(q) : new[i] = q[i]
      /\ q = <<>> <=> Len(q) = 0
      /\ Len(q) \in Nat
    BY <1>4, AppendProperties, EmptySeq, LenProperties
<1>6. c.sum = (IF q = <<>> THEN earned ELSE q[Len(q)]) + Price
    BY <1>1, <1>2 DEF Serial, EarnedSeen
<1>7. InSteps(q)
    BY <1>2, <1>4 DEF Serial
<1> HIDE DEF q, new
<1>8. (new # <<>> => new[1] = earned + Price)
    BY <1>5, <1>6, <1>7 DEF InSteps
<1>9. ASSUME NEW i \in 1..(Len(new) - 1) PROVE new[i + 1] = new[i] + Price
    <2>1. CASE i = Len(q)
        BY <1>5, <1>6, <2>1
    <2>2. CASE i # Len(q)
        <3>1. i \in 1..(Len(q) - 1) /\ i + 1 \in 1..Len(q) /\ i \in 1..Len(q)
            BY <1>5, <2>2
        <3> QED  BY <1>5, <1>7, <3>1 DEF InSteps
    <2> QED  BY <2>1, <2>2
<1>10. ASSUME NEW d \in Devices PROVE InSteps(sums[d])'
    <2>1. CASE d = c.device
        BY <1>1, <1>4, <1>8, <1>9, <2>1 DEF InSteps
    <2>2. CASE d # c.device
        <3>1. sums'[d] = sums[d] /\ earned' = earned
            BY <1>1, <1>4, <2>2
        <3> QED  BY <1>2, <3>1 DEF Serial, InSteps
    <2> QED  BY <2>1, <2>2
<1>11. \A d \in Devices : sums'[d] # <<>> => d = c.device
    BY <1>1, <1>2, <1>4 DEF Serial
<1> QED  BY <1>1, <1>2, <1>3, <1>10, <1>11 DEF Serial

\* The first of the unsent sums is the price above what the server has.
LEMMA WriteKeepsSerial ==
    ASSUME MoneyInv, SerialInv, NEW d \in Devices, WriteEarned(d)
    PROVE  SerialInv'
<1> SUFFICES ASSUME ~overlapped' PROVE Serial'
    BY DEF SerialInv
<1> DEFINE q == sums[d]
           rest == Tail(q)
<1>1. /\ sums' = [sums EXCEPT ![d] = rest]
      /\ q # <<>> /\ earned' = Head(q) /\ credited' = credited + 1
      /\ UNCHANGED credits /\ ~overlapped
    BY DEF WriteEarned
<1>2. Serial
    BY <1>1 DEF SerialInv
<1>3. /\ q \in Seq(Nat) /\ sums \in [Devices -> Seq(Nat)]
      /\ earned \in Nat /\ credited \in Nat /\ Price \in Nat \ {0}
    BY NoteAssumption DEF MoneyInv, TypeOK
<1>4. /\ Head(q) = q[1] /\ Len(rest) = Len(q) - 1 /\ Len(q) \in Nat \ {0}
      /\ \A i \in 1..Len(rest) : rest[i] = q[i + 1]
      /\ rest \in Seq(Nat) /\ (rest = <<>> <=> Len(rest) = 0)
    <2>1. /\ Head(q) = q[1] /\ rest \in Seq(Nat) /\ Len(rest) = Len(q) - 1
          /\ \A i \in 1..Len(rest) : rest[i] = q[i + 1]
        BY <1>1, <1>3, HeadTailProperties
    <2>2. Len(q) \in Nat \ {0}
        BY <1>1, <1>3, EmptySeq, LenProperties
    <2>3. rest = <<>> <=> Len(rest) = 0
        <3> HIDE DEF rest
        <3> QED  BY <2>1, EmptySeq
    <2> QED  BY <2>1, <2>2, <2>3
<1>5. InSteps(q)
    BY <1>2 DEF Serial
<1> HIDE DEF q, rest
<1>6. earned' = earned + Price
    BY <1>1, <1>4, <1>5 DEF InSteps
<1>7. earned' = Price * credited'
    <2>1. Price * (credited + 1) = Price * credited + Price
        BY <1>3
    <2> QED  BY <1>1, <1>2, <1>6, <2>1 DEF Serial
<1>8. /\ rest # <<>> => rest[1] = earned' + Price
      /\ \A i \in 1..(Len(rest) - 1) : rest[i + 1] = rest[i] + Price
    <2>1. ASSUME rest # <<>> PROVE rest[1] = earned' + Price
        <3>1. 1 \in 1..Len(rest) /\ 1 \in 1..(Len(q) - 1)
            BY <1>4, <2>1
        <3>2. rest[1] = q[2] /\ q[2] = q[1] + Price
            BY <1>4, <1>5, <3>1 DEF InSteps
        <3> QED  BY <1>1, <1>4, <3>2
    <2>2. ASSUME NEW i \in 1..(Len(rest) - 1)
          PROVE  rest[i + 1] = rest[i] + Price
        <3>1. i \in 1..Len(rest) /\ i + 1 \in 1..Len(rest) /\ i + 1 \in 1..(Len(q) - 1)
            BY <1>4
        <3> QED  BY <1>4, <1>5, <3>1 DEF InSteps
    <2> QED  BY <2>1, <2>2
<1>9. \A e \in Devices : e # d => sums[e] = <<>>
    BY <1>1, <1>2 DEF Serial, q
<1>10. /\ sums'[d] = rest
       /\ \A e \in Devices : e # d => sums'[e] = <<>>
    BY <1>1, <1>3, <1>9
<1>11. \A e \in Devices : InSteps(sums[e])'
    <2>1. InSteps(sums[d])'
        BY <1>8, <1>10 DEF InSteps
    <2>2. \A i \in 1..(Len(<<>>) - 1) : FALSE
        OBVIOUS
    <2> QED  BY <1>10, <2>1, <2>2 DEF InSteps
<1>12. ASSUME NEW c \in Seen'
       PROVE  /\ c.device = d
              /\ c.sum = (IF rest = <<>> THEN earned' ELSE rest[Len(rest)]) + Price
    <2>1. c \in Seen /\ c.device = d
        BY <1>1, <1>2 DEF Serial, Seen, q
    <2>2. c.sum = q[Len(q)] + Price
        BY <1>1, <1>2, <2>1 DEF Serial, EarnedSeen, q
    <2>3. (IF rest = <<>> THEN earned' ELSE rest[Len(rest)]) = q[Len(q)]
        BY <1>1, <1>4
    <2> QED  BY <2>1, <2>2, <2>3
<1>13. \A c, e \in Seen' : c = e
    BY <1>1, <1>2 DEF Serial, Seen
<1> QED  BY <1>7, <1>10, <1>11, <1>12, <1>13 DEF Serial, EarnedSeen

\* While no read fell between another's read and its write, no sum is lost:
\* the seller has the price once for every sum that was sent.
THEOREM NoCreditLost == Spec => []SerialEarnings
<1>1. Init => SerialInv
    <2> SUFFICES ASSUME Init PROVE Serial
        BY DEF SerialInv
    <2>1. /\ earned = 0 /\ credited = 0 /\ Seen = {}
          /\ \A d \in Devices : sums[d] = <<>>
        BY DEF Init, Seen
    <2>2. Price * 0 = 0
        BY NoteAssumption
    <2>3. \A i \in 1..(Len(<<>>) - 1) : FALSE
        OBVIOUS
    <2> QED  BY <2>1, <2>2, <2>3 DEF Serial, InSteps
<1>2. MoneyInv /\ SerialInv /\ [Next]_vars => SerialInv'
    BY OthersKeepSerial, ReadKeepsSerial, QueueKeepsSerial, WriteKeepsSerial DEF MoneyInv
<1>3. SerialInv => SerialEarnings
    BY DEF SerialInv, Serial, SerialEarnings
<1> QED  BY <1>1, <1>2, <1>3, MoneyInvariant, PTL DEF Spec

-----------------------------------------------------------------------------
(***************************************************************************)
(* Records. A document for the note is written after the payment of its    *)
(* member only, and neither payments nor records ever go.                  *)
(***************************************************************************)
Payer(m) == \E p \in payments : p.user = m

\* What RecordInv asks of one device.
DeviceSafe(d) ==
    /\ queued[d] => Payer(AuthUser[d])
    /\ reviewable[d] => Payer(AuthUser[d])
    /\ stage[d] = "approved" => Payer(AuthUser[d])
    /\ recorded[d] => Found(d) /\ (purchased[d] \/ checks[d] > 0)

RecordInv ==
    /\ \A m \in owners : Payer(m)
    /\ \A d \in Devices : DeviceSafe(d)

\* The payments grow, and so does what the queries find.
Lasting ==
    /\ payments \subseteq payments'
    /\ owners \subseteq owners'
    /\ \A d \in Devices : queued[d] => queued'[d] \/ AuthUser[d] \in owners'

LEMMA LastingFacts ==
    ASSUME TypeOK, Lasting
    PROVE  /\ \A m \in Members : Payer(m) => Payer(m)'
           /\ \A d \in Devices : Found(d) => Found(d)'
BY DEF Lasting, Payer, Found

LEMMA EveryStepLasts == TypeOK /\ [Next]_vars => Lasting
<1> SUFFICES ASSUME TypeOK, [Next]_vars PROVE Lasting
    OBVIOUS
<1> USE DEF Lasting, TypeOK, storeVars
<1>1. CASE UNCHANGED vars
    BY <1>1 DEF vars
<1>2. ASSUME NEW d \in Devices, OpenScreen(d) \/ CloseScreen(d) \/ AppKilled(d)
      PROVE  Lasting
    BY <1>2 DEF OpenScreen, CloseScreen, AppKilled
<1>3. ASSUME NEW d \in Devices, Replies(d) \/ FileArrives(d) PROVE Lasting
    BY <1>3 DEF Replies, UserArrives, UserFails, CheckArrives, CheckFails, FileArrives
<1>4. ASSUME NEW d \in Devices, Buying(d), ~PayPalReturns(d) PROVE Lasting
    BY <1>4 DEF Buying, TouchDownload, CancelSheet, ConfirmPurchase,
                PayPalApproves, PayPalFails
<1>5. ASSUME NEW d \in Devices, PayPalReturns(d) PROVE Lasting
    <2>1. queued' = [queued EXCEPT ![d] = @ \/ Records(d)] /\ UNCHANGED <<payments, owners>>
        BY <1>5 DEF PayPalReturns
    <2>2. \A e \in Devices : queued[e] => queued'[e]
        BY <2>1, Zenon
    <2> QED  BY <2>1, <2>2
<1>6. ASSUME NEW d \in Devices, CommitRecord(d) PROVE Lasting
    BY <1>6 DEF CommitRecord
<1>7. CASE Crediting
    BY <1>7 DEF Crediting, ReadEarned, ReadEarnedFails, QueueSum
<1>8. ASSUME NEW d \in Devices, WriteEarned(d) PROVE Lasting
    BY <1>8 DEF WriteEarned
<1> QED  BY <1>1, <1>2, <1>3, <1>4, <1>5, <1>6, <1>7, <1>8 DEF Next

\* A step of another device leaves these alone.
Untouched(d) ==
    /\ queued'[d] = queued[d] /\ reviewable'[d] = reviewable[d]
    /\ stage'[d] = stage[d] /\ recorded'[d] = recorded[d]
    /\ purchased'[d] = purchased[d] /\ checks'[d] = checks[d]

LEMMA UntouchedSafe ==
    ASSUME TypeOK, Lasting, NEW d \in Devices, DeviceSafe(d), Untouched(d)
    PROVE  DeviceSafe(d)'
<1>1. Payer(AuthUser[d]) => Payer(AuthUser[d])'
    BY LastingFacts, NoteAssumption
<1>2. Found(d) => Found(d)'
    BY LastingFacts
<1> QED  BY <1>1, <1>2, Zenon DEF DeviceSafe, Untouched

\* A device's screen is created anew, or is gone.
LEMMA ResetSafe ==
    ASSUME TypeOK, Lasting, NEW d \in Devices, DeviceSafe(d),
           NEW opens, ResetScreen(d, opens), queued' = queued
    PROVE  /\ DeviceSafe(d)'
           /\ \A e \in Devices : e # d => Untouched(e)
<1>1. Payer(AuthUser[d]) => Payer(AuthUser[d])'
    BY LastingFacts, NoteAssumption
<1>2. /\ ~recorded'[d] /\ ~reviewable'[d] /\ stage'[d] = "none"
      /\ queued'[d] = queued[d]
    BY DEF ResetScreen, TypeOK
<1>3. DeviceSafe(d)'
    BY <1>1, <1>2 DEF DeviceSafe
<1>4. \A e \in Devices : e # d => Untouched(e)
    BY DEF ResetScreen, TypeOK, Untouched
<1> QED  BY <1>3, <1>4

LEMMA FoundHasPaid ==
    ASSUME TypeOK, RecordInv, NEW d \in Devices, Found(d)
    PROVE  Payer(AuthUser[d])
BY DEF RecordInv, DeviceSafe, Found

\* Every reply leaves the records alone and touches one screen.
LEMMA ReplySafe ==
    ASSUME TypeOK, RecordInv, NEW d \in Devices, Replies(d) \/ FileArrives(d)
    PROVE  /\ DeviceSafe(d)'
           /\ \A e \in Devices : e # d => Untouched(e)
<1> USE DEF TypeOK
<1>1. DeviceSafe(d) /\ UNCHANGED <<payments, owners, queued, stage>>
    BY DEF RecordInv, Replies, UserArrives, UserFails, CheckArrives,
           CheckFails, FileArrives, storeVars, coverVars
<1>2. Found(d)' = Found(d) /\ Payer(AuthUser[d])' = Payer(AuthUser[d])
    BY <1>1 DEF Found, Payer
<1>3. CASE UserArrives(d)
    <2>1. /\ ~reviewable'[d] /\ checks'[d] > 0 /\ recorded'[d] = recorded[d]
          /\ \A e \in Devices : e # d => Untouched(e)
        BY <1>3 DEF UserArrives, storeVars, coverVars, Untouched
    <2> QED  BY <1>1, <1>2, <2>1 DEF DeviceSafe
<1>4. CASE UserFails(d)
    BY <1>1, <1>2, <1>4 DEF UserFails, DeviceSafe, Untouched, storeVars, buttonVars
<1>5. CASE CheckArrives(d)
    <2>1. /\ purchased' = [purchased EXCEPT ![d] = @ \/ Found(d)]
          /\ reviewable' = [reviewable EXCEPT ![d] = @ \/ Found(d)]
          /\ checks' = [checks EXCEPT ![d] = @ - 1]
          /\ recorded' = recorded
        BY <1>5 DEF CheckArrives
    <2>2. /\ purchased'[d] = (purchased[d] \/ Found(d))
          /\ reviewable'[d] = (reviewable[d] \/ Found(d))
        BY <2>1, Zenon
    <2>3. Found(d) => Payer(AuthUser[d])
        BY FoundHasPaid
    <2>4. DeviceSafe(d)'
        BY <1>1, <1>2, <2>1, <2>2, <2>3, Zenon DEF DeviceSafe
    <2>5. \A e \in Devices : e # d => Untouched(e)
        BY <1>1, <2>1, Zenon DEF Untouched
    <2> QED  BY <2>4, <2>5
<1>6. CASE CheckFails(d)
    <2>1. /\ ~reviewable'[d] /\ ~recorded'[d]
          /\ \A e \in Devices : e # d => Untouched(e)
        BY <1>1, <1>6 DEF CheckFails, Untouched
    <2> QED  BY <1>1, <1>2, <2>1 DEF DeviceSafe
<1>7. CASE FileArrives(d)
    BY <1>1, <1>2, <1>7 DEF FileArrives, DeviceSafe, Untouched, buttonVars
<1> QED  BY <1>3, <1>4, <1>5, <1>6, <1>7 DEF Replies

\* On the way to PayPal, and back: a record is queued for a member who paid.
LEMMA BuyingSafe ==
    ASSUME TypeOK, Lasting, RecordInv, NEW d \in Devices, Buying(d)
    PROVE  /\ DeviceSafe(d)'
           /\ \A e \in Devices : e # d => Untouched(e)
<1> USE DEF TypeOK
<1>1. /\ DeviceSafe(d)
      /\ Found(d) => Found(d)'
      /\ Payer(AuthUser[d]) => Payer(AuthUser[d])'
    BY LastingFacts, NoteAssumption DEF RecordInv
<1>2. CASE TouchDownload(d) \/ CancelSheet(d) \/ ConfirmPurchase(d)
    <2>1. /\ stage'[d] # "approved" \/ stage'[d] = stage[d]
          /\ UNCHANGED <<queued, reviewable, recorded, purchased, checks>>
          /\ \A e \in Devices : e # d => Untouched(e)
        BY <1>2 DEF TouchDownload, CancelSheet, ConfirmPurchase, Untouched,
                    storeVars, queryVars, buttonVars
    <2> QED  BY <1>1, <2>1 DEF DeviceSafe
<1>3. CASE PayPalApproves(d)
    <2>1. Payer(AuthUser[d])'
        <3>1. PICK i \in PaymentIds :
                  payments' = payments \cup
                      {[id |-> i, user |-> AuthUser[d], amount |-> Price]}
            BY <1>3 DEF PayPalApproves
        <3> DEFINE q == [id |-> i, user |-> AuthUser[d], amount |-> Price]
        <3>2. q \in payments' /\ q.user = AuthUser[d]
            BY <3>1
        <3> HIDE DEF q
        <3> QED  BY <3>2 DEF Payer
    <2>2. /\ UNCHANGED <<queued, reviewable, recorded, purchased, checks>>
          /\ \A e \in Devices : e # d => Untouched(e)
        BY <1>3 DEF PayPalApproves, Untouched, queryVars, buttonVars
    <2> QED  BY <1>1, <2>1, <2>2 DEF DeviceSafe
<1>4. CASE PayPalReturns(d)
    <2>1. Payer(AuthUser[d])'
        BY <1>1, <1>4 DEF PayPalReturns, DeviceSafe
    <2>2. /\ queued' = [queued EXCEPT ![d] = @ \/ Records(d)]
          /\ recorded' = [recorded EXCEPT ![d] = @ \/ Records(d)]
          /\ UNCHANGED <<reviewable, checks, owners>>
        BY <1>4 DEF PayPalReturns, queryVars
    <2>3. purchased'[d] /\ \A e \in Devices : e # d => purchased'[e] = purchased[e]
        BY <1>4 DEF PayPalReturns
    <2>4. \A e \in Devices : e # d => stage'[e] = stage[e]
        BY <1>4 DEF PayPalReturns
    <2>5. /\ queued'[d] = (queued[d] \/ Records(d))
          /\ recorded'[d] = (recorded[d] \/ Records(d))
          /\ \A e \in Devices : e # d => queued'[e] = queued[e] /\ recorded'[e] = recorded[e]
        BY <2>2, Zenon
    <2>6. recorded'[d] => Found(d)'
        BY <1>1, <2>5, Zenon DEF Found, DeviceSafe
    <2>7. DeviceSafe(d)'
        BY <2>1, <2>3, <2>6, Zenon DEF DeviceSafe
    <2> QED  BY <2>2, <2>3, <2>4, <2>5, <2>7, Zenon DEF Untouched
<1>5. CASE PayPalFails(d)
    BY <1>1, <1>5, ResetSafe DEF PayPalFails, storeVars
<1> QED  BY <1>2, <1>3, <1>4, <1>5 DEF Buying

LEMMA RecordInvariant == Spec => [](TypeOK /\ RecordInv)
<1>1. Init => RecordInv
    BY DEF Init, RecordInv, DeviceSafe
<1>2. TypeOK /\ TypeOK' /\ RecordInv /\ [Next]_vars => RecordInv'
    <2> SUFFICES ASSUME TypeOK, TypeOK', RecordInv, [Next]_vars PROVE RecordInv'
        OBVIOUS
    <2>1. Lasting
        BY EveryStepLasts
    <2>2. \A m \in owners : Payer(m)'
        BY <2>1, LastingFacts DEF RecordInv, TypeOK
    <2>3. \A d \in Devices : Untouched(d) => DeviceSafe(d)'
        BY <2>1, UntouchedSafe DEF RecordInv
    <2>4. CASE UNCHANGED vars
        <3>1. owners' = owners /\ \A d \in Devices : Untouched(d)
            BY <2>4 DEF vars, storeVars, queryVars, buttonVars, coverVars, Untouched
        <3> QED  BY <2>2, <2>3, <3>1 DEF RecordInv
    <2>5. ASSUME NEW d \in Devices, OpenScreen(d) \/ CloseScreen(d) \/ AppKilled(d)
          PROVE  RecordInv'
        <3>1. PICK opens \in BOOLEAN : ResetScreen(d, opens)
            BY <2>5 DEF OpenScreen, CloseScreen, AppKilled
        <3>2. UNCHANGED <<queued, owners>>
            BY <2>5 DEF OpenScreen, CloseScreen, AppKilled, storeVars
        <3>3. DeviceSafe(d)' /\ \A e \in Devices : e # d => Untouched(e)
            BY <2>1, <3>1, <3>2, ResetSafe DEF RecordInv
        <3> QED  BY <2>2, <2>3, <3>2, <3>3 DEF RecordInv
    <2>6. ASSUME NEW d \in Devices, Replies(d) \/ FileArrives(d) PROVE RecordInv'
        <3>1. owners' = owners
            BY <2>6 DEF Replies, UserArrives, UserFails, CheckArrives,
                        CheckFails, FileArrives, storeVars
        <3> QED  BY <2>2, <2>3, <2>6, <3>1, ReplySafe DEF RecordInv
    <2>7. ASSUME NEW d \in Devices, Buying(d) PROVE RecordInv'
        <3>1. owners' = owners
            BY <2>7 DEF Buying, TouchDownload, CancelSheet, ConfirmPurchase,
                        PayPalApproves, PayPalReturns, PayPalFails, storeVars
        <3> QED  BY <2>1, <2>2, <2>3, <2>7, <3>1, BuyingSafe DEF RecordInv
    <2>8. ASSUME NEW d \in Devices, CommitRecord(d) PROVE RecordInv'
        <3>1. /\ queued[d] /\ ~queued'[d]
              /\ owners' = owners \cup {AuthUser[d]}
              /\ UNCHANGED <<payments, queryVars, buttonVars, coverVars>>
              /\ \A e \in Devices : e # d => queued'[e] = queued[e]
            BY <2>8 DEF CommitRecord, TypeOK
        <3>2. Payer(AuthUser[d])'
            BY <3>1 DEF RecordInv, DeviceSafe, Payer
        <3>3. DeviceSafe(d)'
            BY <3>1, <3>2 DEF RecordInv, DeviceSafe, Found,
                              queryVars, buttonVars, coverVars
        <3>4. \A e \in Devices : e # d => Untouched(e)
            BY <3>1 DEF Untouched, queryVars, buttonVars, coverVars
        <3> QED  BY <2>2, <2>3, <3>1, <3>2, <3>3, <3>4 DEF RecordInv
    <2>9. CASE Crediting \/ \E d \in Devices : WriteEarned(d)
        <3>1. owners' = owners /\ \A d \in Devices : Untouched(d)
            BY <2>9 DEF Crediting, ReadEarned, ReadEarnedFails, QueueSum,
                        WriteEarned, queryVars, buttonVars, coverVars, Untouched
        <3> QED  BY <2>2, <2>3, <3>1 DEF RecordInv
    <2> QED  BY <2>4, <2>5, <2>6, <2>7, <2>8, <2>9 DEF Next
<1> QED  BY <1>1, <1>2, NoteTypeCorrect, PTL DEF Spec

\* Whoever may review the note has paid for it, on whatever device.
THEOREM OnlyPayersReview == Spec => []ReviewersPaid
<1>1. RecordInv => ReviewersPaid
    BY DEF RecordInv, DeviceSafe, Payer, ReviewersPaid
<1> QED  BY <1>1, RecordInvariant, PTL

\* A screen that recorded a purchase knows it again when its queries are
\* answered.
THEOREM PurchasesRemembered == Spec => []PaidScreenRemembers
<1>1. TypeOK /\ RecordInv => PaidScreenRemembers
    BY DEF RecordInv, DeviceSafe, PaidScreenRemembers
<1> QED  BY <1>1, RecordInvariant, PTL
=============================================================================
