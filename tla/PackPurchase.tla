---------------------------- MODULE PackPurchase ----------------------------
(***************************************************************************)
(* A pack bought at Checkout: routers/packages.py, the pack's side of      *)
(* routers/webhooks.py, the abandoned-purchase sweep of holds.py, and the  *)
(* operator's update and delete of routers/admin/purchases.py.             *)
(*                                                                         *)
(* Every request but one locks the purchase's row before it looks, or is a *)
(* single UPDATE, and is one step here.  _activate_purchase reads the row  *)
(* without a lock and writes it later, so a delivery of the completion     *)
(* webhook is two steps, with anything in between.                         *)
(***************************************************************************)
EXTENDS Integers

CONSTANTS
  Purchases,      \* ids of the purchase rows
  Deliveries,     \* webhook deliveries that may be in hand at once
  NoPurchase,     \* a delivery that has none in hand
  Window,         \* PACKAGE_CHECKOUT_MINUTES
  Horizon         \* the last instant of the clock

ASSUME NoPurchaseIsFresh == NoPurchase \notin Purchases
ASSUME TimesArePositive == Window \in Nat \ {0} /\ Horizon \in Nat \ {0}

VARIABLES
  now,            \* the clock, from 1
  purchase,       \* user_package_purchases
  session,        \* its Checkout Session, at the provider
  answered,       \* purchases whose completion webhook was answered
  read,           \* the purchase each delivery read, found pending and unpaid
  granted         \* purchases the operator has reactivated

vars == <<now, purchase, session, answered, read, granted>>

Never == 0

TypeOK ==
  /\ now \in 1..Horizon
  /\ purchase \in [Purchases ->
       [status : {"none", "pending", "active", "cancelled", "deleted"},
        bought : 0..Horizon, paid : 0..Horizon]]
  /\ session \in [Purchases -> {"unused", "open", "completed", "expired"}]
  /\ answered \subseteq Purchases
  /\ read \in [Deliveries -> Purchases \cup {NoPurchase}]
  /\ granted \subseteq Purchases

Init ==
  /\ now = 1
  /\ purchase = [p \in Purchases |-> [status |-> "none", bought |-> 0, paid |-> Never]]
  /\ session = [p \in Purchases |-> "unused"]
  /\ answered = {}
  /\ read = [d \in Deliveries |-> NoPurchase]
  /\ granted = {}

Status(p) == purchase[p].status
Cancelled(p) == purchase' = [purchase EXCEPT ![p].status = "cancelled"]

-----------------------------------------------------------------------------
(* The customer and the provider.                                          *)

New_Default == [status |-> "active", bought |-> now, paid |-> Never]  \* mutant: the column's default
New == [status |-> "pending", bought |-> now, paid |-> Never]

Buy(p) ==
  /\ Status(p) = "none"
  /\ purchase' = [purchase EXCEPT ![p] = New]
  /\ session' = [session EXCEPT ![p] = "open"]
  /\ UNCHANGED <<now, answered, read, granted>>

Pay(p) == /\ session[p] = "open"
          /\ session' = [session EXCEPT ![p] = "completed"]
          /\ UNCHANGED <<now, purchase, answered, read, granted>>

Expire(p) == /\ session[p] = "open"
             /\ session' = [session EXCEPT ![p] = "expired"]
             /\ UNCHANGED <<now, purchase, answered, read, granted>>

\* A session that may still be paid is closed; one that was paid refuses.
Closed(p) == /\ session[p] # "completed"
             /\ session' = [session EXCEPT ![p] = "expired"]

CancelMine(p) ==
  /\ Status(p) = "pending"
  /\ Closed(p)
  /\ Cancelled(p)
  /\ UNCHANGED <<now, answered, read, granted>>

\* cancel_pending_purchase: the provider tells that the session expired.  It
\* is also how a cancel that died between closing the session and its commit
\* is made good.
HearExpired(p) ==
  /\ session[p] = "expired" /\ Status(p) = "pending"
  /\ Cancelled(p)
  /\ UNCHANGED <<now, session, answered, read, granted>>

-----------------------------------------------------------------------------
(* checkout.session.completed: _activate_purchase, an unlocked read and a  *)
(* write of what it decided.                                               *)

Activable(p) == Status(p) = "pending"

PaidAt_Expiry == now + Window  \* mutant: the wrong one of the row's times
PaidAt == now

ReadPurchase(d, p) ==
  /\ read[d] = NoPurchase /\ session[p] = "completed"
  /\ IF Activable(p)
     THEN /\ read' = [read EXCEPT ![d] = p]
          /\ UNCHANGED answered
     ELSE /\ answered' = answered \cup {p}
          /\ UNCHANGED read
  /\ UNCHANGED <<now, purchase, session, granted>>

\* Committed and answered in one step: get_db commits once the answer is out,
\* and a commit lost then is not modelled.
WritePurchase(d) ==
  LET p == read[d] IN
  /\ p # NoPurchase
  /\ IF Status(p) = "deleted" THEN UNCHANGED <<purchase, answered>>
     ELSE /\ purchase' = [purchase EXCEPT ![p] =
              [status |-> "active", bought |-> purchase[p].bought, paid |-> PaidAt]]
          /\ answered' = answered \cup {p}
  /\ read' = [read EXCEPT ![d] = NoPurchase]
  /\ UNCHANGED <<now, session, granted>>

-----------------------------------------------------------------------------
(* The sweeper and the operator.                                           *)

Abandoned_Today(p) ==  \* mutant: a missed sweep is never made up
  Status(p) = "pending" /\ purchase[p].bought = now - Window - 1
Abandoned(p) == Status(p) = "pending" /\ purchase[p].bought < now - Window

Sweep ==
  /\ \E p \in Purchases : Abandoned(p)
  /\ purchase' = [p \in Purchases |->
       IF Abandoned(p) THEN [purchase[p] EXCEPT !.status = "cancelled"] ELSE purchase[p]]
  /\ UNCHANGED <<now, session, answered, read, granted>>

OperatorCancels(p) == /\ Status(p) = "active"
                      /\ Cancelled(p)
                      /\ UNCHANGED <<now, session, answered, read, granted>>

OperatorReactivates(p) ==
  /\ Status(p) = "cancelled"
  /\ purchase' = [purchase EXCEPT ![p].status = "active"]
  /\ granted' = granted \cup {p}
  /\ UNCHANGED <<now, session, answered, read>>

OperatorDeletes(p) ==
  /\ Status(p) = "pending"
  /\ Closed(p)
  /\ purchase' = [purchase EXCEPT ![p].status = "deleted"]
  /\ UNCHANGED <<now, answered, read, granted>>

Tick == /\ now < Horizon
        /\ now' = now + 1
        /\ UNCHANGED <<purchase, session, answered, read, granted>>

-----------------------------------------------------------------------------
Hear(p) == \E d \in Deliveries : ReadPurchase(d, p)

Next == \/ \E p \in Purchases :
             \/ Buy(p) \/ Pay(p) \/ Expire(p) \/ CancelMine(p) \/ HearExpired(p) \/ Hear(p)
             \/ OperatorCancels(p) \/ OperatorReactivates(p) \/ OperatorDeletes(p)
        \/ \E d \in Deliveries : WritePurchase(d)
        \/ Sweep \/ Tick

Spec == Init /\ [][Next]_vars

\* Time passes and the sweeper runs every minute.
FairSpec == Spec /\ WF_vars(Tick) /\ WF_vars(Sweep)

-----------------------------------------------------------------------------
(* What is promised.                                                       *)

\* A payment whose webhook was answered is on its purchase.
MoneyIsKept == \A p \in Purchases : p \in answered => purchase[p].paid # Never

\* A purchase is `active`, its hours spendable, only once the provider has
\* the money, or because the operator says so; and a payment's time on a row
\* is between the purchase and now, of a session that was paid.
HoursArePaidFor == \A p \in Purchases :
  /\ Status(p) = "active" => session[p] = "completed" \/ p \in granted
  /\ purchase[p].paid # Never =>
       session[p] = "completed" /\ purchase[p].paid \in purchase[p].bought..now

\* "Never a dangling pending": a purchase left at Checkout for longer than the
\* window does not stay `pending`, however the sweeper's ticks fall.
NothingDangles == \A p \in Purchases :
  (Status(p) = "pending" /\ now > purchase[p].bought + Window) ~> Status(p) # "pending"
=============================================================================
