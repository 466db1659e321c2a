------------------------- MODULE PackPurchaseProofs -------------------------
(***************************************************************************)
(* What PackPurchase promises for any number of purchases and deliveries,  *)
(* any window and any clock.                                               *)
(***************************************************************************)
EXTENDS PackPurchase, TLAPS

\* What a delivery has in hand was paid at the provider, and is of a purchase
\* that has been made: the write that follows an unlocked read is of money
\* that exists, however stale the read.
ReadsArePaid == \A d \in Deliveries : read[d] # NoPurchase =>
  session[read[d]] = "completed"

\* A row without a purchase has no session; one that has is of the past.
RowsAreOfThePast == \A p \in Purchases :
  /\ Status(p) = "none" => session[p] = "unused" /\ purchase[p].paid = Never
  /\ purchase[p].bought <= now

IInv == TypeOK /\ ReadsArePaid /\ RowsAreOfThePast /\ HoursArePaidFor

\* The initial rows satisfy the inductive invariant.
LEMMA InitInv == Init => IInv
  BY TimesArePositive
     DEF Init, IInv, TypeOK, ReadsArePaid, RowsAreOfThePast, HoursArePaidFor, Status, Never

\* Every request, delivery, sweep and tick keeps it.
LEMMA NextInv == IInv /\ [Next]_vars => IInv'
<1> SUFFICES ASSUME IInv, [Next]_vars PROVE IInv'
  OBVIOUS
<1> USE NoPurchaseIsFresh, TimesArePositive
    DEF IInv, TypeOK, ReadsArePaid, RowsAreOfThePast, HoursArePaidFor, Status, Never
<1>1. ASSUME NEW p \in Purchases, Buy(p) PROVE IInv'
  BY <1>1 DEF Buy, New
<1>2. ASSUME NEW p \in Purchases, Pay(p) PROVE IInv'
  BY <1>2 DEF Pay
<1>3. ASSUME NEW p \in Purchases, Expire(p) PROVE IInv'
  BY <1>3 DEF Expire
<1>4. ASSUME NEW p \in Purchases, CancelMine(p) PROVE IInv'
  BY <1>4 DEF CancelMine, Closed, Cancelled
<1>5. ASSUME NEW p \in Purchases, HearExpired(p) PROVE IInv'
  BY <1>5 DEF HearExpired, Cancelled
<1>6. ASSUME NEW p \in Purchases, NEW d \in Deliveries, ReadPurchase(d, p) PROVE IInv'
  BY <1>6 DEF ReadPurchase, Activable
<1>7. ASSUME NEW p \in Purchases, OperatorCancels(p) PROVE IInv'
  BY <1>7 DEF OperatorCancels, Cancelled
<1>8. ASSUME NEW p \in Purchases, OperatorReactivates(p) PROVE IInv'
  BY <1>8 DEF OperatorReactivates
<1>9. ASSUME NEW p \in Purchases, OperatorDeletes(p) PROVE IInv'
  BY <1>9 DEF OperatorDeletes, Closed
<1>10. ASSUME NEW d \in Deliveries, WritePurchase(d) PROVE IInv'
  <2> DEFINE p == read[d]
  <2>1. p \in Purchases /\ session[p] = "completed"
    BY <1>10 DEF WritePurchase
  <2>2. CASE Status(p) = "deleted"
    BY <2>1, <2>2, <1>10 DEF WritePurchase
  <2>3. CASE Status(p) # "deleted"
    <3>1. purchase' = [purchase EXCEPT ![p] =
            [status |-> "active", bought |-> purchase[p].bought, paid |-> now]]
      BY <2>1, <2>3, <1>10 DEF WritePurchase, PaidAt
    <3>2. /\ read' = [read EXCEPT ![d] = NoPurchase]
          /\ answered' = answered \cup {p}
          /\ UNCHANGED <<now, session, granted>>
      BY <2>3, <1>10 DEF WritePurchase
    <3> QED  BY <2>1, <3>1, <3>2
  <2> QED  BY <2>2, <2>3
<1>11. CASE Sweep
  BY <1>11 DEF Sweep, Abandoned
<1>12. CASE Tick
  BY <1>12 DEF Tick
<1>13. CASE UNCHANGED vars
  BY <1>13 DEF vars
<1> QED
  BY <1>1, <1>2, <1>3, <1>4, <1>5, <1>6, <1>7, <1>8, <1>9, <1>10, <1>11, <1>12, <1>13
     DEF Next, Hear

\* The inductive invariant holds always.
THEOREM Invariance == Spec => []IInv
  BY InitInv, NextInv, PTL DEF Spec

\* Every reachable state is one of the types of the columns.
THEOREM TypeCorrect == Spec => []TypeOK
  BY Invariance, PTL DEF IInv

\* Nobody spends the hours of a pack that was not paid for, unless the
\* operator gave it to him, and a payment's time on a row is true.
THEOREM ActiveIsPaidFor == Spec => []HoursArePaidFor
  BY Invariance, PTL DEF IInv

-----------------------------------------------------------------------------
(* Money.  A sweep of a purchase that is paid, or may still be, is all     *)
(* that can lose it: without one, a paid purchase cannot leave `pending`   *)
(* but by its payment.                                                     *)

\* A sweep that leaves alone what can be paid, or was.
SweepsTheDead == Sweep => \A p \in Purchases : Abandoned(p) => session[p] = "expired"

MoneyInv == \A p \in Purchases :
  /\ session[p] = "completed" /\ Status(p) # "pending" => purchase[p].paid # Never
  /\ session[p] = "open" => Status(p) = "pending"
  /\ Status(p) # "none" => purchase[p].bought >= 1
  /\ p \in answered => purchase[p].paid # Never

\* If the sweep takes only dead sessions, every step keeps the money of the
\* purchases.
LEMMA NextKeepsMoney ==
  ASSUME IInv, MoneyInv, [Next]_vars, [SweepsTheDead]_vars
  PROVE  MoneyInv'
<1> USE NoPurchaseIsFresh, TimesArePositive
    DEF IInv, TypeOK, ReadsArePaid, RowsAreOfThePast, MoneyInv, Status, Never
<1>1. ASSUME NEW p \in Purchases, Buy(p) PROVE MoneyInv'
  BY <1>1 DEF Buy, New
<1>2. ASSUME NEW p \in Purchases, Pay(p) PROVE MoneyInv'
  BY <1>2 DEF Pay
<1>3. ASSUME NEW p \in Purchases, Expire(p) PROVE MoneyInv'
  BY <1>3 DEF Expire
<1>4. ASSUME NEW p \in Purchases, CancelMine(p) PROVE MoneyInv'
  BY <1>4 DEF CancelMine, Closed, Cancelled
<1>5. ASSUME NEW p \in Purchases, HearExpired(p) PROVE MoneyInv'
  BY <1>5 DEF HearExpired, Cancelled
<1>6. ASSUME NEW p \in Purchases, NEW d \in Deliveries, ReadPurchase(d, p) PROVE MoneyInv'
  BY <1>6 DEF ReadPurchase, Activable
<1>7. ASSUME NEW p \in Purchases, OperatorCancels(p) PROVE MoneyInv'
  BY <1>7 DEF OperatorCancels, Cancelled
<1>8. ASSUME NEW p \in Purchases, OperatorReactivates(p) PROVE MoneyInv'
  BY <1>8 DEF OperatorReactivates
<1>9. ASSUME NEW p \in Purchases, OperatorDeletes(p) PROVE MoneyInv'
  BY <1>9 DEF OperatorDeletes, Closed
<1>10. ASSUME NEW d \in Deliveries, WritePurchase(d) PROVE MoneyInv'
  <2> DEFINE p == read[d]
  <2>1. p \in Purchases /\ session[p] = "completed"
    BY <1>10 DEF WritePurchase
  <2>2. CASE Status(p) = "deleted"
    BY <2>1, <2>2, <1>10 DEF WritePurchase
  <2>3. CASE Status(p) # "deleted"
    <3>1. purchase' = [purchase EXCEPT ![p] =
            [status |-> "active", bought |-> purchase[p].bought, paid |-> now]]
      BY <2>1, <2>3, <1>10 DEF WritePurchase, PaidAt
    <3>2. /\ read' = [read EXCEPT ![d] = NoPurchase]
          /\ answered' = answered \cup {p}
          /\ UNCHANGED <<now, session, granted>>
      BY <2>3, <1>10 DEF WritePurchase
    <3> QED  BY <2>1, <3>1, <3>2
  <2> QED  BY <2>2, <2>3
<1>11. CASE Sweep
  BY <1>11 DEF Sweep, Abandoned, SweepsTheDead, vars
<1>12. CASE Tick
  BY <1>12 DEF Tick
<1>13. CASE UNCHANGED vars
  BY <1>13 DEF vars
<1> QED
  BY <1>1, <1>2, <1>3, <1>4, <1>5, <1>6, <1>7, <1>8, <1>9, <1>10, <1>11, <1>12, <1>13
     DEF Next, Hear

\* A payment that was answered is on its purchase, whatever the deliveries,
\* the customer, the operator and the clock do, as long as every sweep takes
\* only purchases whose session is dead.  holds.py:50 asks for no session, and
\* pack_swept_money shows the payment it loses: nothing else loses one.
THEOREM OnlyASweepLosesMoney == Spec /\ [][SweepsTheDead]_vars => []MoneyIsKept
<1>1. ASSUME Init PROVE MoneyInv
  <2> SUFFICES ASSUME NEW p \in Purchases
               PROVE  session[p] = "unused" /\ Status(p) = "none" /\ p \notin answered
    BY DEF MoneyInv
  <2> QED  BY <1>1 DEF Init, Status
<1>2. IInv /\ MoneyInv /\ [Next]_vars /\ [SweepsTheDead]_vars => MoneyInv'
  BY NextKeepsMoney
<1>3. MoneyInv => MoneyIsKept
  BY DEF MoneyInv, MoneyIsKept
<1> QED
  BY <1>1, <1>2, <1>3, Invariance, PTL DEF Spec
=============================================================================
