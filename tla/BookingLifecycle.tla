------------------------- MODULE BookingLifecycle -------------------------
(***************************************************************************)
(* A booking from its creation to its end: backend/app/routers/bookings.py,*)
(* webhooks.py, admin/bookings.py and admin/blocks.py, with the helpers    *)
(* they share (booking_validity, booking_cancellation,                     *)
(* cancellation_credit, the status rule of package_hours, the sweeper).    *)
(*                                                                         *)
(* One room and one customer, whose hour bank is a pack and the credits of *)
(* his cancelled bookings.  Each handler is one transaction and one step:  *)
(* it locks the booking's row before it looks and holds it to the commit.  *)
(* What several transactions do between each other's statements is the     *)
(* business of SlotRace (slots) and HourBank (hours).                      *)
(*                                                                         *)
(* A Checkout Session lives at the provider, which the customer may pay at *)
(* any time; the webhook that tells of it may come late, twice, after a    *)
(* later one, or never.                                                    *)
(***************************************************************************)
EXTENDS Integers, FiniteSets, Functions

CONSTANTS
  Bookings,       \* ids of the booking rows
  Slots,          \* the intervals on offer, each a set of hours
  Len,            \* hours in a slot
  PackHours,      \* hours of the customer's pack
  Pack,           \* its id among the sources of hours
  Hold,           \* BOOKING_HOLD_MINUTES
  Notice,         \* the 24 h of the cancellation rule
  Attempts,       \* cap on the Checkout Sessions opened for one booking
  Horizon,        \* the last instant of the clock
  OperatorMoves   \* the <<from, to>> an operator's update may ask for

ASSUME SlotsAreIntervals ==
  /\ Slots \subseteq SUBSET Nat
  /\ \A s \in Slots : Cardinality(s) = Len /\ s # {}
ASSUME BookingsAreFinite == IsFiniteSet(Bookings)   \* the rows of a table
ASSUME PackIsFresh == Pack \notin Bookings
ASSUME NamesDiffer == "blocked" \notin Bookings /\ "free" \notin Bookings
ASSUME TimesArePositive ==
  /\ PackHours \in Nat /\ Notice \in Nat
  /\ Len \in Nat \ {0} /\ Hold \in Nat \ {0} /\ Horizon \in Nat \ {0} /\ Attempts \in Nat \ {0}

VARIABLES
  now,            \* the clock, from 1
  booking,        \* the booking rows
  debit,          \* booking_package_debits: hours per booking and source
  credit,         \* the credit a cancelled booking became
  session,        \* the Checkout Sessions of each booking, at the provider
  heard,          \* the sessions whose completion webhook was answered
  blocked         \* the slots the operator has blocked

vars == <<now, booking, debit, credit, session, heard, blocked>>

Never == 0        \* no deadline, no payment
NoSlot == {}
Attempt == 1..Attempts

Statuses == {"none", "pending", "confirmed", "completed", "cancelled", "expired",
             "paid_unfulfilled", "deleted"}
Real == Statuses \ {"none", "deleted"}
HoldsHours == {"pending", "confirmed", "completed"}
HoldsSlot == {"pending", "confirmed"}
PaidAtCheckout == {"hourly", "mixed"}

ASSUME MovesAreStatuses == OperatorMoves \subseteq Real \X Real

Sources == Bookings \cup {Pack}
NoHours == [p \in Sources |-> 0]

BookingRow == [status   : Statuses,
               method   : {"hourly", "package", "mixed", "manual"},
               slot     : Slots \cup {NoSlot},
               share    : 0..Len,                  \* package_hours_used
               deadline : 0..Horizon + Hold,       \* hold_expires_at
               session  : 0..Attempts,             \* the session it waits for
               paid     : 0..Horizon]              \* paid_at

TypeOK ==
  /\ now \in 1..Horizon
  /\ booking \in [Bookings -> BookingRow]
  /\ debit \in [Bookings -> [Sources -> 0..Len]]
  /\ credit \in [Bookings -> {"none", "active", "cancelled"}]
  /\ session \in [Bookings -> [Attempt -> {"unused", "open", "completed", "expired"}]]
  /\ heard \subseteq Bookings \X Attempt
  /\ blocked \subseteq Slots

Init ==
  /\ now = 1
  /\ booking = [b \in Bookings |->
       [status |-> "none", method |-> "hourly", slot |-> NoSlot, share |-> 0,
        deadline |-> Never, session |-> 0, paid |-> Never]]
  /\ debit = [b \in Bookings |-> NoHours]
  /\ credit = [b \in Bookings |-> "none"]
  /\ session = [b \in Bookings |-> [n \in Attempt |-> "unused"]]
  /\ heard = {}
  /\ blocked = {}

-----------------------------------------------------------------------------
(* Slots.                                                                  *)

Overlap(s, t) == s \cap t # {}
Start(s) == CHOOSE h \in s : \A g \in s : h <= g

Lapsed(b) == /\ booking[b].status = "pending"
             /\ booking[b].deadline # Never /\ booking[b].deadline <= now

\* holds_slot: the row blocks its slot now.
Holds(b) == \/ booking[b].status = "confirmed"
            \/ booking[b].status = "pending" /\ ~Lapsed(b)

\* The lapsed holds expire_stale_holds flips before a slot is taken.
AllLapsed == {b \in Bookings : Lapsed(b)}
Stale(s) == {b \in AllLapsed : Overlap(booking[b].slot, s)}

Conflict_BookingsOnly(s, b) ==  \* mutant: has_conflicting_booking forgets blocks
  \E c \in Bookings \ {b} : Holds(c) /\ Overlap(booking[c].slot, s)
Conflict(s, b) == \/ \E c \in Bookings \ {b} : Holds(c) /\ Overlap(booking[c].slot, s)
                  \/ \E t \in blocked : Overlap(t, s)

-----------------------------------------------------------------------------
(* Hours.  A source is the pack or the credit of a cancelled booking; what *)
(* it has left is its total less what is debited from it (HourBank shows   *)
(* that the rows say so).  Which source the walk draws on first is         *)
(* HourBank's business: here any of them may give.                         *)

CreditHours(b) == Len - booking[b].share

Used(D, p) == SumFunction([b \in Bookings |-> D[b][p]])

Left_PackTotal(D, p) ==  \* mutant: what other bookings drew from the pack is not taken off it
  IF p = Pack THEN PackHours
  ELSE IF credit[p] = "active" THEN CreditHours(p) - Used(D, p) ELSE 0
Left_AnyCredit(D, p) ==  \* mutant: a credit the operator cancelled is spent all the same
  IF p = Pack THEN PackHours - Used(D, p)
  ELSE IF credit[p] # "none" THEN CreditHours(p) - Used(D, p) ELSE 0
Left(D, p) == IF p = Pack THEN PackHours - Used(D, p)
              ELSE IF credit[p] = "active" THEN CreditHours(p) - Used(D, p)
              ELSE 0

Bank(D) == SumFunction([p \in Sources |-> Left(D, p)])

\* How b may take hours: never from its own cancellation credit.
Draws(D, b, hours) == {d \in [Sources -> 0..hours] :
                         /\ SumFunction(d) = hours
                         /\ d[b] = 0
                         /\ \A p \in Sources : d[p] <= Left(D, p)}

\* The ledger once the holds of S have given their hours back.
Without(S) == [b \in Bookings |-> IF b \in S THEN NoHours ELSE debit[b]]

StatusAfter_Kept(S, b) == booking[b].status  \* mutant: an expiry frees the hours only
StatusAfter(S, b) == IF b \in S THEN "expired" ELSE booking[b].status

Settled_NotAgain(S, b, previous, new) ==  \* mutant: a reinstated booking takes no hours
  IF previous \in HoldsHours /\ new \notin HoldsHours
    THEN {[Without(S) EXCEPT ![b] = NoHours]}
  ELSE {Without(S)}

\* settle_status_change: the ledgers a status change may leave; none if the
\* hours it needs again are gone.
Settled(S, b, previous, new) ==
  IF previous \in HoldsHours /\ new \notin HoldsHours
    THEN {[Without(S) EXCEPT ![b] = NoHours]}
  ELSE IF new \in HoldsHours /\ previous \notin HoldsHours
    THEN {[Without(S) EXCEPT ![b] = d] : d \in Draws(Without(S), b, booking[b].share)}
  ELSE {Without(S)}

\* The rows after the holds of S expired and b became row.
Write(S, b, row) ==
  booking' = [c \in Bookings |-> IF c = b THEN row
                                 ELSE [booking[c] EXCEPT !.status = StatusAfter(S, c)]]

\* create_credit: the paid hours of a booking that is being cancelled.
Creditable(b, previous) == /\ previous \in {"confirmed", "completed"}
                           /\ booking[b].method \in {"hourly", "mixed", "manual"}
                           /\ CreditHours(b) > 0

CreditAfter(D, b, previous) ==
  IF Creditable(b, previous) /\ (credit[b] = "none" \/ Used(D, b) = 0)
  THEN [credit EXCEPT ![b] = "active"] ELSE credit

-----------------------------------------------------------------------------
(* The customer: POST, DELETE /bookings and POST /bookings/{id}/checkout.  *)

\* Any wish but "hourly" first flips every lapsed hold of the customer.
Create(b, s, wish) ==
  LET S == IF wish = "hourly" THEN Stale(s) ELSE AllLapsed
      W == Without(S)
      want == CASE wish = "hourly"  -> 0
                [] wish = "package" -> Len
                [] wish = "mixed"   -> IF Bank(W) < Len THEN Bank(W) ELSE Len
  IN
  /\ booking[b].status = "none"
  /\ Start(s) >= now /\ ~Conflict(s, b)
  /\ \E d \in Draws(W, b, want) :
       /\ debit' = [W EXCEPT ![b] = d]
       /\ Write(S, b, [status   |-> IF want = Len THEN "confirmed" ELSE "pending",
                       method   |-> CASE want = Len -> "package"
                                      [] want = 0   -> "hourly"
                                      [] OTHER      -> "mixed",
                       slot     |-> s,
                       share    |-> want,
                       deadline |-> IF want = Len THEN Never ELSE now + Hold,
                       session  |-> IF want = Len THEN 0 ELSE 1,
                       paid     |-> Never])
       /\ session' = IF want = Len THEN session ELSE [session EXCEPT ![b][1] = "open"]
  /\ UNCHANGED <<now, credit, heard, blocked>>

\* An unpaid hold may always be let go; it keeps its deadline.
Cancel(b) ==
  /\ booking[b].status \in HoldsSlot
  /\ \/ booking[b].status = "pending" /\ booking[b].deadline # Never
     \/ Start(booking[b].slot) - now >= Notice
  /\ Write({}, b, [booking[b] EXCEPT !.status = "cancelled"])
  /\ \E D \in Settled({}, b, booking[b].status, "cancelled") :
       /\ debit' = D
       /\ credit' = CreditAfter(D, b, booking[b].status)
  /\ UNCHANGED <<now, session, heard, blocked>>

\* The provider is asked to close a session; one already paid refuses.
Closed(b, n) == IF n # 0 /\ session[b][n] = "open"
                THEN [session EXCEPT ![b][n] = "expired"] ELSE session

Paid_Unchecked(b) == FALSE  \* mutant: a session that is already paid counts as closed
Paid(b) == booking[b].session # 0 /\ session[b][booking[b].session] = "completed"

\* "Pagar agora".  A live hold whose session is still open gets that one back:
\* nothing changes.
ClosedOnRetry_No(b) == session  \* mutant: the old session stays payable
ClosedOnRetry(b) == Closed(b, booking[b].session)

Resume(b) ==
  LET lapsed == booking[b].status = "expired" \/ Lapsed(b)
      S == IF lapsed THEN Stale(booking[b].slot) ELSE {}
      n == booking[b].session + 1
  IN
  /\ booking[b].method \in PaidAtCheckout
  /\ booking[b].status \in {"pending", "expired"}
  /\ Start(booking[b].slot) >= now
  /\ lapsed => ~Conflict(booking[b].slot, b)
  /\ ~Paid(b)
  /\ ~lapsed => booking[b].session = 0 \/ session[b][booking[b].session] # "open"
  /\ n \in Attempt
  /\ debit' \in Settled(S, b, StatusAfter(S, b), "pending")
  /\ Write(S, b, [booking[b] EXCEPT !.status = "pending", !.deadline = now + Hold,
                                    !.session = n])
  /\ session' = [ClosedOnRetry(b) EXCEPT ![b][n] = "open"]
  /\ UNCHANGED <<now, credit, heard, blocked>>

-----------------------------------------------------------------------------
(* The provider and its webhooks.                                          *)

Pay(b, n) == /\ session[b][n] = "open"
             /\ session' = [session EXCEPT ![b][n] = "completed"]
             /\ UNCHANGED <<now, booking, debit, credit, heard, blocked>>

SessionExpires(b, n) == /\ session[b][n] = "open"
                        /\ session' = [session EXCEPT ![b][n] = "expired"]
                        /\ UNCHANGED <<now, booking, debit, credit, heard, blocked>>

Payable_NotCancelled(b) ==  \* mutant: money for a hold let go is ignored
  booking[b].status \in {"pending", "expired"}
Payable_AnyDeadline(b) ==  \* mutant: a paid booking that was cancelled can be paid again
  booking[b].status \in {"pending", "expired", "cancelled"}
Payable(b) == /\ booking[b].deadline # Never \/ booking[b].status = "expired"
              /\ booking[b].status \in {"pending", "expired", "cancelled"}

PaidAt(b) == IF booking[b].paid = Never THEN now ELSE booking[b].paid

\* _confirm_booking of a payable hold.  A late payment takes the slot and the
\* hours again if both are still there, else the money is kept visible.
Confirm(b) ==
  LET late == booking[b].status # "pending" \/ Lapsed(b)
      S == IF late THEN Stale(booking[b].slot) ELSE {}
      previous == StatusAfter(S, b)
      again == Settled(S, b, previous, "confirmed")
      taken == late /\ (Conflict(booking[b].slot, b) \/ again = {})
      new == IF taken THEN "paid_unfulfilled" ELSE "confirmed"
  IN
  /\ debit' \in Settled(S, b, previous, new)
  /\ Write(S, b, [booking[b] EXCEPT !.status = new, !.deadline = Never, !.paid = PaidAt(b)])

\* checkout.session.completed: the row is looked up by the session it waits for.
\* Committed and answered in one step: get_db commits once the answer is out,
\* and a commit lost then is not modelled.
HearCompleted(b, n) ==
  /\ session[b][n] = "completed"
  /\ heard' = heard \cup {<<b, n>>}
  /\ IF booking[b].session = n /\ Payable(b)
     THEN Confirm(b)
     ELSE UNCHANGED <<booking, debit>>
  /\ UNCHANGED <<now, credit, session, blocked>>

\* expire_pending_hold: checkout.session.expired, or the customer backing out
\* of the stub's page, where a session stays payable and a page outlives it.
Forgo_AnyStatus(b) ==  \* mutant: an expiry that comes late undoes the confirmation
  booking[b].status \in {"pending", "confirmed"}
Forgo(b) == booking[b].status = "pending" /\ booking[b].deadline # Never

LetGo(b, n) ==
  /\ session[b][n] \in {"open", "expired"} \/ <<b, n>> \in heard
  /\ booking[b].session = n /\ Forgo(b)
  /\ debit' \in Settled({}, b, booking[b].status, "expired")
  /\ Write({}, b, [booking[b] EXCEPT !.status = "expired", !.deadline = now])
  /\ UNCHANGED <<now, credit, session, heard, blocked>>

\* The sweeper's pass, and the lazy expiry on a read of the customer's own.
Sweep ==
  /\ AllLapsed # {}
  /\ booking' = [b \in Bookings |-> [booking[b] EXCEPT !.status = StatusAfter(AllLapsed, b)]]
  /\ debit' = Without(AllLapsed)
  /\ UNCHANGED <<now, credit, session, heard, blocked>>

-----------------------------------------------------------------------------
(* The operator.                                                           *)

\* admin_update_booking: a move, a status, a note, in one request.  s is the
\* slot asked for (NoSlot: no move), to the status ("": none).  A move may flip
\* the very hold it moves.  All slots are of one length, so a move keeps the
\* booking's and settle_moved_booking has nothing to settle: what a resize does
\* to the share and the credit is HourBank's.
ReverseCredit_Live(D, b, previous, new) ==  \* mutant: reverse_credit is not called
  credit' = credit
ReverseCredit(D, b, previous, new) ==
  IF previous = "cancelled" /\ new \in HoldsHours /\ credit[b] # "none"
  THEN /\ Used(D, b) = 0
       /\ credit' = [credit EXCEPT ![b] = "cancelled"]
  ELSE credit' = credit

DeadlineAfter_Renewed(b, previous, new) ==  \* mutant: a note renews an unpaid hold
  IF new # "pending" \/ booking[b].method \notin PaidAtCheckout THEN Never
  ELSE IF previous = "pending" THEN booking[b].deadline + Hold ELSE now + Hold
DeadlineAfter(b, previous, new) ==
  IF new # "pending" \/ booking[b].method \notin PaidAtCheckout THEN Never
  ELSE IF previous = "pending" THEN booking[b].deadline ELSE now + Hold

Update(b, s, to, credited) ==
  LET moves == s # NoSlot
      slot == IF moves THEN s ELSE booking[b].slot
      takes == moves /\ booking[b].status \in HoldsSlot
      S1 == IF takes THEN Stale(slot) ELSE {}
      previous == StatusAfter(S1, b)
      new == IF to = "" THEN previous ELSE to
      enters == new \in HoldsSlot /\ previous \notin HoldsSlot
      S == IF enters THEN S1 \cup Stale(slot) ELSE S1
  IN
  /\ booking[b].status \in Real /\ <<booking[b].status, new>> \in OperatorMoves
  /\ moves => /\ Start(slot) >= now \/ Start(slot) >= Start(booking[b].slot)
              /\ Start(slot) + Len > now
  /\ takes \/ enters => ~Conflict(slot, b)
  /\ \E D \in Settled(S, b, previous, new) :
       /\ debit' = D
       /\ IF new = "cancelled" /\ previous # "cancelled"
          THEN credit' = IF credited THEN CreditAfter(D, b, previous) ELSE credit
          ELSE ReverseCredit(D, b, previous, new)
  /\ Write(S, b, [booking[b] EXCEPT !.status = new, !.slot = slot,
                                    !.deadline = DeadlineAfter(b, previous, new)])
  /\ UNCHANGED <<now, session, heard, blocked>>

\* mark-paid: the customer paid some other way.
MarkPaid(b) ==
  LET S == IF booking[b].status = "expired" THEN Stale(booking[b].slot) ELSE {} IN
  /\ booking[b].method \in PaidAtCheckout
  /\ \/ booking[b].status = "pending" /\ booking[b].deadline # Never
     \/ booking[b].status = "expired" /\ ~Conflict(booking[b].slot, b)
  /\ ~Paid(b)
  /\ debit' \in Settled(S, b, booking[b].status, "confirmed")
  /\ Write(S, b, [booking[b] EXCEPT !.status = "confirmed", !.method = "manual",
                                    !.deadline = Never, !.session = 0, !.paid = PaidAt(b)])
  /\ session' = Closed(b, booking[b].session)
  /\ UNCHANGED <<now, credit, heard, blocked>>

AdminCreate(b, s) ==
  /\ booking[b].status = "none"
  /\ Start(s) >= now /\ ~Conflict(s, b)
  /\ debit' = Without(Stale(s))
  /\ Write(Stale(s), b, [status |-> "confirmed", method |-> "manual", slot |-> s, share |-> 0,
                         deadline |-> Never, session |-> 0, paid |-> now])
  /\ UNCHANGED <<now, credit, session, heard, blocked>>

\* Hard delete, of an expired hold or a manual booking without debits.
Delete(b) ==
  /\ booking[b].status \in Real
  /\ IF booking[b].method = "manual" THEN debit[b] = NoHours
     ELSE booking[b].status = "expired"
  /\ ~Paid(b)
  /\ booking' = [booking EXCEPT ![b].status = "deleted"]
  /\ debit' = [debit EXCEPT ![b] = NoHours]
  /\ session' = Closed(b, booking[b].session)
  /\ UNCHANGED <<now, credit, heard, blocked>>

\* PUT /admin/purchases on a credit (K01).
CancelCredit(b) ==
  /\ credit[b] = "active"
  /\ credit' = [credit EXCEPT ![b] = "cancelled"]
  /\ UNCHANGED <<now, booking, debit, session, heard, blocked>>

ReactivateCredit(b) ==
  /\ credit[b] = "cancelled"
  /\ booking[b].status \in {"cancelled", "deleted"}
  /\ credit' = [credit EXCEPT ![b] = "active"]
  /\ UNCHANGED <<now, booking, debit, session, heard, blocked>>

\* POST and PUT /admin/blocks: the slots of B make way for s.
Block(B, s) ==
  /\ \A t \in blocked \ B : ~Overlap(t, s)
  /\ Start(s) + Len > now
  /\ \A b \in Bookings : Holds(b) => ~Overlap(booking[b].slot, s)
  /\ booking' = [b \in Bookings |-> [booking[b] EXCEPT !.status = StatusAfter(Stale(s), b)]]
  /\ debit' = Without(Stale(s))
  /\ blocked' = (blocked \ B) \cup {s}
  /\ UNCHANGED <<now, credit, session, heard>>

Unblock(s) ==
  /\ s \in blocked
  /\ blocked' = blocked \ {s}
  /\ UNCHANGED <<now, booking, debit, credit, session, heard>>

Tick == /\ now < Horizon
        /\ now' = now + 1
        /\ UNCHANGED <<booking, debit, credit, session, heard, blocked>>

-----------------------------------------------------------------------------
Customer(b) == \/ \E s \in Slots, wish \in {"hourly", "package", "mixed"} : Create(b, s, wish)
               \/ Cancel(b) \/ Resume(b)

Provider(b, n) == Pay(b, n) \/ SessionExpires(b, n) \/ HearCompleted(b, n) \/ LetGo(b, n)

Operator(b) == \/ \E s \in Slots \cup {NoSlot}, to \in Real \cup {""} :
                    \/ Update(b, s, to, TRUE)
                    \/ to = "cancelled" /\ Update(b, s, to, FALSE)
               \/ MarkPaid(b) \/ Delete(b)
               \/ \E s \in Slots : AdminCreate(b, s)
               \/ CancelCredit(b) \/ ReactivateCredit(b)

Next == \/ \E b \in Bookings : Customer(b) \/ Operator(b)
        \/ \E b \in Bookings, n \in Attempt : Provider(b, n)
        \/ \E s \in Slots : Block({}, s) \/ Unblock(s) \/ \E t \in blocked : Block({t}, s)
        \/ Sweep \/ Tick

Spec == Init /\ [][Next]_vars

\* The sweeper runs every minute for as long as the service does, and the
\* provider repeats a webhook until it is answered.
Fairness == /\ WF_vars(Sweep)
            /\ \A b \in Bookings, n \in Attempt : WF_vars(HearCompleted(b, n))

FairSpec == Spec /\ Fairness

-----------------------------------------------------------------------------
(* What is promised.                                                       *)

\* No slot is held twice, nor held while blocked.  Every row the EXCLUDE
\* constraint counts is looked at here, lapsed or not: the checks of the
\* handlers suffice, the constraint is only needed against races.
SlotHeldOnce ==
  \A b \in Bookings : booking[b].status \in HoldsSlot =>
    /\ \A c \in Bookings \ {b} : booking[c].status \in HoldsSlot =>
         ~Overlap(booking[b].slot, booking[c].slot)
    /\ \A s \in blocked : ~Overlap(booking[b].slot, s)

\* A booking's share is debited exactly while its status holds it, whichever
\* of the many ways in and out of a status it went.
ShareFollowsStatus ==
  \A b \in Bookings :
    SumFunction(debit[b]) = IF booking[b].status \in HoldsHours THEN booking[b].share ELSE 0

\* No source gives more hours than it has.
BankNeverOverdrawn ==
  /\ Used(debit, Pack) <= PackHours
  /\ \A b \in Bookings : Used(debit, b) <= CreditHours(b)

\* "The money is kept visible for a person to resolve, never dropped": once
\* its webhook is answered, a payment is on its booking.
MoneyIsKept == \A b \in Bookings, n \in Attempt :
  <<b, n>> \in heard => booking[b].paid # Never

\* The customer never holds both a booking and the hours it was paid with.
BookingOrCredit == \A b \in Bookings :
  booking[b].status \in HoldsHours => credit[b] # "active"

\* A booking is charged at most once: no two of its sessions are paid, and
\* none is once the operator has marked it as paid.
ChargedOnce == \A b \in Bookings :
  /\ \A m, n \in Attempt :
       session[b][m] = "completed" /\ session[b][n] = "completed" => m = n
  /\ booking[b].method = "manual" => \A n \in Attempt : session[b][n] # "completed"

\* A hold lapses only while it is unpaid.
PaidNeverLapses == \A b \in Bookings :
  booking[b].paid # Never => booking[b].status # "expired"

\* "A duplicate completion after a cancellation can never resurrect it": a
\* paid booking that was cancelled comes back only by the operator's hand.
CancelledStays == [][\A b \in Bookings :
  booking[b].status = "cancelled" /\ booking[b].paid # Never
    /\ booking'[b].status \notin {"cancelled", "deleted"} =>
  \E s \in Slots \cup {NoSlot}, to \in Real, credited \in BOOLEAN :
    Update(b, s, to, credited)]_vars

\* A confirmed booking leaves its slot only when the customer or the operator
\* says so; no deadline, sweep or webhook takes it away.
ConfirmedStays == [][\A b \in Bookings :
  booking[b].status = "confirmed" /\ booking'[b].status # "confirmed" =>
    \/ Cancel(b) \/ Delete(b)
    \/ \E s \in Slots \cup {NoSlot}, to \in Real, credited \in BOOLEAN :
         Update(b, s, to, credited)]_vars

\* The calendar: who holds an hour now.
Holder == [h \in UNION Slots |->
  IF \E s \in blocked : h \in s THEN "blocked"
  ELSE IF \E b \in Bookings : Holds(b) /\ h \in booking[b].slot
  THEN CHOOSE b \in Bookings : Holds(b) /\ h \in booking[b].slot
  ELSE "free"]

Calendar == INSTANCE SlotCalendar WITH holder <- Holder, Blocked <- "blocked", Free <- "free"

\* Every handler, sweep and tick of the clock is a step of the calendar: an
\* hour is never handed from one live holder to another, nor is a slot held
\* in part.
KeepsCalendar == Calendar!Spec

\* The hour bank: the pack, and the credits there are.
Worth == [p \in Sources |-> IF p = Pack THEN PackHours
                            ELSE IF credit[p] = "none" THEN 0 ELSE CreditHours(p)]
Active == [p \in Sources |-> p = Pack \/ credit[p] = "active"]

Accounts == INSTANCE HourLedger WITH worth <- Worth, open <- Active, held <- debit

\* Every handler, sweep and tick of the clock is a step of the hour ledger: a
\* booking turns into a credit, and a credit back into its booking, in one
\* move and with none of the credit's hours held by another booking.
KeepsLedger == Accounts!Spec

\* No abandoned hold keeps its slot, or its hours, for good.
HoldsLapse == \A b \in Bookings : Lapsed(b) ~> ~Lapsed(b)

\* What the customer paid is sooner or later on his booking.
PaymentsArrive == \A b \in Bookings, n \in Attempt :
  session[b][n] = "completed" ~> booking[b].paid # Never
=============================================================================
