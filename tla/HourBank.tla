------------------------------ MODULE HourBank ------------------------------
(***************************************************************************)
(* The prepaid-hours ledger of backend/app/package_hours.py, with the      *)
(* operator's edits of backend/app/routers/admin/purchases.py.             *)
(*                                                                         *)
(* One customer's purchases form an hour bank.  A request is one database  *)
(* transaction (READ COMMITTED, committed when the request ends); it locks *)
(* booking rows, then purchase rows one at a time (SELECT ... FOR UPDATE), *)
(* and what it writes stays private until it commits.  Every step below is *)
(* one such statement, so requests interleave between any two of them.     *)
(*                                                                         *)
(* Hours are whole units.  A booking here is what the ledger knows of it:  *)
(*   "none"      not created                                               *)
(*   "pending"   an unpaid hold, with hours reserved                       *)
(*   "confirmed" any other status of _HOLDS_HOURS                          *)
(*   "released"  cancelled, expired or paid_unfulfilled                    *)
(*                                                                         *)
(* A request is a sequence of such statements: it flips lapsed holds and   *)
(* gives their hours back, settles the hours of its own booking, perhaps   *)
(* flips once more in between, perhaps lets its booking go at the end.     *)
(*                                                                         *)
(* The one row a walk locks and never draws from, the cancellation credit  *)
(* of the very booking it reinstates, is BookingLifecycle's.               *)
(***************************************************************************)
EXTENDS Integers, FiniteSets, Functions

CONSTANTS
  Purchases,      \* ids of the purchase rows; the walk breaks ties by id
  Free,           \* those that cost nothing (a complimentary grant)
  Bookings,       \* ids of the booking rows
  Requests,       \* the database sessions that may be open at once
  NoRequest,      \* an unlocked row
  NoBooking,      \* a request that settles no booking of its own
  Sizes,          \* lengths a booking may have, in hours
  Grants,         \* sizes of a purchase, and amounts of an adjustment
  Editable,       \* purchases the operator may still adjust, cancel or delete
  Extendable,     \* purchases whose validity the operator may still extend
  Validity,       \* when each purchase may expire, as it is granted
  Asks,           \* what an update may ask of a status; "same" if nothing
  MaxTotal,       \* cap on hours_total (999.99 in the code)
  Latest,         \* the last instant the model's clock reaches
  Horizon         \* the last instant at which a purchase may expire

ASSUME PurchasesAreIds == Purchases \subseteq Nat
ASSUME ChosenPurchases == Free \cup Editable \cup Extendable \subseteq Purchases
ASSUME NullsAreFresh   == NoRequest \notin Requests /\ NoBooking \notin Bookings
ASSUME HoursArePositive == /\ Sizes \subseteq Nat \ {0}
                           /\ Grants \subseteq Nat \ {0}
                           /\ MaxTotal \in Nat
                           /\ Horizon \in Nat
ASSUME ClockStops == Latest \in 0..Horizon
ASSUME ValidityIsATime == Validity \in [Purchases -> SUBSET (0..Horizon)]
ASSUME UpdatesAsk == Asks \subseteq {"same", "pending", "confirmed", "released"}
ASSUME TablesAreFinite == IsFiniteSet(Bookings) /\ IsFiniteSet(Purchases)

VARIABLES
  now,            \* the clock
  purchase,       \* committed purchase rows
  booking,        \* committed booking rows
  debit,          \* committed booking_package_debits: hours per booking, purchase
  rowLock,        \* which request holds each purchase row
  bookingLock,    \* which request holds each booking row
  (* What each open request is doing, and has not committed.               *)
  phase,          \* where it is
  plan,           \* what it set out to do
  asked,          \* holds its UPDATE found lapsed, still to lock
  expiring,       \* bookings it flipped whose debits are still to be credited
  visiting,       \* the booking whose debits it is crediting
  todo,           \* purchase rows an unlocked read returned, still to lock
  order,          \* the expiries that read returned
  need,           \* hours still to draw, or to give back
  drawn,          \* hours its walk took from each purchase
  back,           \* hours it credited to each purchase
  gave            \* of those, the ones a shrinking booking gave back

rows    == <<purchase, booking, debit>>
locks   == <<rowLock, bookingLock>>
session == <<phase, plan, asked, expiring, visiting, todo, order, need, drawn, back, gave>>
vars    == <<now, rows, locks, session>>

Times == 0..Horizon

HoldsHours == {"pending", "confirmed"}

Phases == {"idle", "release", "walk", "giveback", "leave"}

PurchaseRow == [status : {"absent", "active", "cancelled", "deleted"},
                total : Int, used : Int, remaining : Int, expires : Times]

Row(st, t, u, left, e) ==
  [status |-> st, total |-> t, used |-> u, remaining |-> left, expires |-> e]

AbsentRow == Row("absent", 0, 0, 0, 0)

BookingRow == [state : {"none", "pending", "confirmed", "released"},
               share : Int, duration : Int]

Plan == [at       : Times,                      \* the clock it read when it began
         released : SUBSET Bookings,            \* the bookings it has let go
         target   : Bookings \cup {NoBooking},  \* the booking its hours are for
         becomes  : {"same", "pending", "confirmed", "released"},
         size     : Int,                        \* the target's new length
         whole    : BOOLEAN,                    \* all the hours or none
         again    : BOOLEAN]                    \* it flips once more before it draws

NoHours == [p \in Purchases |-> 0]

PlanFor(b, s, n, w, a) == [at |-> now, released |-> {}, target |-> b, becomes |-> s,
                           size |-> n, whole |-> w, again |-> a]

NoPlan == [at |-> 0, released |-> {}, target |-> NoBooking, becomes |-> "same",
           size |-> 0, whole |-> FALSE, again |-> FALSE]

TypeOK ==
  /\ now \in Times
  /\ purchase \in [Purchases -> PurchaseRow]
  /\ booking \in [Bookings -> BookingRow]
  /\ debit \in [Bookings -> [Purchases -> Int]]
  /\ rowLock \in [Purchases -> Requests \cup {NoRequest}]
  /\ bookingLock \in [Bookings -> Requests \cup {NoRequest}]
  /\ phase \in [Requests -> Phases]
  /\ plan \in [Requests -> Plan]
  /\ asked \in [Requests -> SUBSET Bookings]
  /\ expiring \in [Requests -> SUBSET Bookings]
  /\ visiting \in [Requests -> Bookings \cup {NoBooking}]
  /\ todo \in [Requests -> SUBSET Purchases]
  /\ order \in [Requests -> [Purchases -> Times]]
  /\ need \in [Requests -> Nat]
  /\ drawn \in [Requests -> [Purchases -> Int]]
  /\ back \in [Requests -> [Purchases -> Int]]
  /\ gave \in [Requests -> [Purchases -> Int]]

Init ==
  /\ now = 0
  /\ purchase = [p \in Purchases |-> AbsentRow]
  /\ booking = [b \in Bookings |-> [state |-> "none", share |-> 0, duration |-> 0]]
  /\ debit = [b \in Bookings |-> NoHours]
  /\ rowLock = [p \in Purchases |-> NoRequest]
  /\ bookingLock = [b \in Bookings |-> NoRequest]
  /\ phase = [r \in Requests |-> "idle"]
  /\ plan = [r \in Requests |-> NoPlan]
  /\ asked = [r \in Requests |-> {}]
  /\ expiring = [r \in Requests |-> {}]
  /\ visiting = [r \in Requests |-> NoBooking]
  /\ todo = [r \in Requests |-> {}]
  /\ order = [r \in Requests |-> NoHours]
  /\ need = [r \in Requests |-> 0]
  /\ drawn = [r \in Requests |-> NoHours]
  /\ back = [r \in Requests |-> NoHours]
  /\ gave = [r \in Requests |-> NoHours]

-----------------------------------------------------------------------------
(* Reading rows: committed values, and the request's own writes on top.    *)

Smaller_Unbounded(x, y) == x   \* mutant: min() forgotten, the whole balance is taken
Smaller(x, y) == IF x <= y THEN x ELSE y

CanLock_Anyway(r, p) == TRUE   \* mutant: SELECT without FOR UPDATE
CanLock(r, p) == rowLock[p] \in {r, NoRequest}

\* What the row's hours_remaining reads inside request r.
Balance(r, p) == purchase[p].remaining + back[r][p] - drawn[r][p]

Spendable(r, p) == /\ purchase[p].status = "active"
                   /\ purchase[p].expires > plan[r].at
                   /\ Balance(r, p) > 0

\* ORDER BY expires_at, id over the expiries the unlocked read returned.
Earlier(r, p, q) == \/ order[r][p] < order[r][q]
                    \/ order[r][p] = order[r][q] /\ p <= q

IsFirst_Latest(r, p) == p \in todo[r] /\ \A q \in todo[r] : Earlier(r, q, p) \* mutant: DESC
IsFirst_Unordered(r, p) == p \in todo[r]  \* mutant: no ORDER BY
IsFirst(r, p) == p \in todo[r] /\ \A q \in todo[r] : Earlier(r, p, q)

Expiries == [p \in Purchases |-> purchase[p].expires]

Drawn(b) == {p \in Purchases : debit[b][p] > 0}

\* An unlocked read of purchase rows, ordered by the expiries they had then.
ReadRows(r, P) == /\ todo' = [todo EXCEPT ![r] = P]
                  /\ order' = [order EXCEPT ![r] = Expiries]

\* SELECT ... FOR UPDATE of the next row; one that is gone locks nothing.
LockRow(r, p) ==
  /\ IsFirst(r, p) /\ CanLock(r, p)
  /\ rowLock' = IF purchase[p].status = "deleted" THEN rowLock
                ELSE [rowLock EXCEPT ![p] = r]
  /\ todo' = [todo EXCEPT ![r] = @ \ {p}]

-----------------------------------------------------------------------------
(* A request begins.  Every path that acquires a slot or spends hours first *)
(* flips the lapsed holds in its scope: a bulk UPDATE that locks one after  *)
(* another the rows its snapshot shows lapsed, and RETURNING names exactly  *)
(* those that it flipped.                                                   *)

Unlocked(b) == bookingLock[b] = NoRequest

Pending == {b \in Bookings : booking[b].state = "pending"}

\* The row lock of b, if the request asks for one, is its first statement.
Open(r, b, wanted, S) ==
  /\ phase[r] = "idle"
  /\ phase' = [phase EXCEPT ![r] = "release"]
  /\ plan' = [plan EXCEPT ![r] = wanted]
  /\ asked' = [asked EXCEPT ![r] = S]
  /\ bookingLock' = [c \in Bookings |-> IF c = b THEN r ELSE bookingLock[c]]
  /\ UNCHANGED <<now, rows, rowLock, expiring, visiting, todo, order, need, drawn, back, gave>>

\* The sweeper, or a lazy expiry on a read: hours go back, nothing is drawn.
BeginExpiry(r) ==
  \E S \in (SUBSET Pending) \ {{}} :
    Open(r, NoBooking, PlanFor(NoBooking, "same", 0, FALSE, FALSE), S)

\* redeem_hours (whole) or redeem_up_to for a booking about to be created.
\* The holds of the slot are flipped here, the customer's own before the walk.
BeginBooking(r) ==
  \E b \in Bookings, S \in SUBSET Pending, n \in Sizes, w \in BOOLEAN :
    /\ booking[b].state = "none" /\ Unlocked(b)
    /\ Open(r, b, PlanFor(b, "confirmed", n, w, TRUE), S)

\* A resumed hold, or late money: redebit_booking once the hold has let go of
\* its hours, which this very request may see to.
BeginRetake(r) ==
  \E b \in Bookings, S \in SUBSET Pending, s \in HoldsHours :
    /\ booking[b].state = "released" \/ b \in S
    /\ booking[b].share > 0 /\ Unlocked(b)
    /\ Open(r, b, PlanFor(b, s, booking[b].duration, TRUE, FALSE), S)

\* The operator's update: a move, a status, or both in one request; with its
\* own length and "released", the cancellation of a booking.  Lapsed holds are
\* flipped, its own perhaps among them, if the booking counts for the slot.
BeginUpdate(r) ==
  \E b \in Bookings, S \in SUBSET Pending, n \in Sizes,
     s \in Asks :
    /\ booking[b].state # "none" /\ booking[b].share > 0 /\ Unlocked(b)
    /\ booking[b].state = "released" => S = {}
    /\ Open(r, b, PlanFor(b, s, n, TRUE, TRUE), S)

\* Payment confirms a hold: the hours it reserved simply stay debited.
Pay ==
  \E b \in Bookings :
    /\ booking[b].state = "pending" /\ Unlocked(b)
    /\ booking' = [booking EXCEPT ![b].state = "confirmed"]
    /\ UNCHANGED <<now, purchase, debit, locks, session>>

\* Whatever becomes of a booking that never drew hours is no business of the
\* bank's.
Restate ==
  \E b \in Bookings, s \in {"confirmed", "released"} :
    /\ booking[b].state # "none" /\ booking[b].share = 0 /\ Unlocked(b)
    /\ booking' = [booking EXCEPT ![b].state = s]
    /\ UNCHANGED <<now, purchase, debit, locks, session>>

\* The UPDATE's next row: locked, looked at again, flipped if it still is one.
StillPending(b) == booking[b].state = "pending"

FlipHold(r) ==
  /\ \E b \in asked[r] :
       /\ bookingLock[b] \in {r, NoRequest}
       /\ asked' = [asked EXCEPT ![r] = @ \ {b}]
       /\ IF StillPending(b)
          THEN /\ bookingLock' = [bookingLock EXCEPT ![b] = r]
               /\ plan' = [plan EXCEPT ![r].released = @ \cup {b}]
               /\ expiring' = [expiring EXCEPT ![r] = @ \cup {b}]
          ELSE UNCHANGED <<bookingLock, plan, expiring>>
  /\ UNCHANGED <<now, rows, rowLock, phase, visiting, todo, order, need, drawn, back, gave>>

-----------------------------------------------------------------------------
(* release_debits: one booking after another, its debits in draw order.    *)

VisitBooking(r) ==
  /\ phase[r] = "release" /\ todo[r] = {} /\ asked[r] = {}
  /\ \E b \in expiring[r] :
       /\ visiting' = [visiting EXCEPT ![r] = b]
       /\ expiring' = [expiring EXCEPT ![r] = @ \ {b}]
       /\ ReadRows(r, Drawn(b))
  /\ UNCHANGED <<now, rows, locks, phase, plan, asked, need, drawn, back, gave>>

\* credit_hours: unconditional, whatever the purchase's status and expiry.
Credited(r, p) == debit[visiting[r]][p]

CreditRow(r) ==
  /\ phase[r] = "release"
  /\ \E p \in Purchases :
       /\ LockRow(r, p)
       /\ back' = [back EXCEPT ![r][p] = @ + Credited(r, p)]
  /\ UNCHANGED <<now, rows, bookingLock, phase, plan, asked, expiring, visiting, order, need, drawn, gave>>

ReleasedAll(r) == /\ phase[r] = "release"
                  /\ asked[r] = {} /\ expiring[r] = {} /\ todo[r] = {}

\* What the target is by now, its own hold perhaps flipped a moment ago.
Settles(r) == plan[r].target # NoBooking

HoldsNow(r) == /\ Settles(r) /\ plan[r].target \notin plan[r].released
               /\ booking[plan[r].target].state \in HoldsHours

Enters(r) == Settles(r) /\ ~HoldsNow(r) /\ plan[r].becomes \in HoldsHours

Shrinks(r) == HoldsNow(r) /\ plan[r].size < booking[plan[r].target].share

\* The hours it is to draw, or if it shrinks to give back: settle_moved_booking,
\* and what a booking that holds none has on record, capped at its new length.
Positive(x) == IF x > 0 THEN x ELSE 0

Extra(r) == Positive(plan[r].size - booking[plan[r].target].duration)

Asked(r) ==
  LET b == booking[plan[r].target] IN
  IF b.state = "none" THEN plan[r].size
  ELSE IF ~HoldsNow(r) THEN Smaller(b.share, plan[r].size)
  ELSE IF Shrinks(r) THEN b.share - plan[r].size
  ELSE Extra(r)

\* Holds are flipped once more: the customer's, before a new booking draws; the
\* slot's, by an update that puts its booking back.  Purchases may be locked.
FlipAgain(r) ==
  /\ ReleasedAll(r) /\ Enters(r) /\ plan[r].again
  /\ plan' = [plan EXCEPT ![r].again = FALSE]
  /\ \E S \in (SUBSET (Pending \ plan[r].released)) \ {{}} : asked' = [asked EXCEPT ![r] = S]
  /\ UNCHANGED <<now, rows, locks, phase, expiring, visiting, todo, order, need, drawn, back, gave>>

\* The hours of the target are settled now.
Settle(r, next, P) ==
  /\ ReleasedAll(r)
  /\ phase' = [phase EXCEPT ![r] = next]
  /\ need' = [need EXCEPT ![r] = Asked(r)]
  /\ ReadRows(r, P)
  /\ UNCHANGED <<now, rows, locks, plan, asked, expiring, visiting, drawn, back, gave>>

\* The candidate ids of _walk: an unlocked read that sees this request's own
\* writes and everybody's commits.
BeginWalk(r) ==
  /\ Enters(r) \/ (HoldsNow(r) /\ ~Shrinks(r))
  /\ Asked(r) > 0
  /\ Settle(r, "walk", {p \in Purchases : Spendable(r, p)})

\* One candidate: lock it, look again under the lock, draw what it can give.
Taken(r, p) == IF Spendable(r, p) THEN Smaller(Balance(r, p), need[r]) ELSE 0

WalkRow(r) ==
  /\ phase[r] = "walk" /\ need[r] > 0
  /\ \E p \in Purchases :
       /\ LockRow(r, p)
       /\ need' = [need EXCEPT ![r] = @ - Taken(r, p)]
       /\ drawn' = [drawn EXCEPT ![r][p] = @ + Taken(r, p)]
  /\ UNCHANGED <<now, rows, bookingLock, phase, plan, asked, expiring, visiting, order, back, gave>>

\* A shrinking booking: every affected row is locked in the walk's order ...
BeginGiveback(r) == Shrinks(r) /\ Settle(r, "giveback", Drawn(plan[r].target))

LockDebited(r) ==
  /\ phase[r] = "giveback"
  /\ \E p \in Purchases : LockRow(r, p)
  /\ UNCHANGED <<now, rows, bookingLock, phase, plan, asked, expiring, visiting, order, need,
                 drawn, back, gave>>

\* ... and then the surplus goes back in reverse order, latest expiry first.
CanGive(r) == {p \in Drawn(plan[r].target) : gave[r][p] = 0}

GivesNext_Soonest(r, p) ==     \* mutant: credited in draw order
  p \in CanGive(r) /\ \A q \in CanGive(r) : Earlier(r, p, q)
GivesNext(r, p) == p \in CanGive(r) /\ \A q \in CanGive(r) : Earlier(r, q, p)

GiveRow(r) ==
  /\ phase[r] = "giveback" /\ todo[r] = {} /\ need[r] > 0
  /\ \E p \in Purchases :
       /\ GivesNext(r, p)
       /\ LET give == Smaller(debit[plan[r].target][p], need[r])
          IN /\ need' = [need EXCEPT ![r] = @ - give]
             /\ gave' = [gave EXCEPT ![r][p] = give]
             /\ back' = [back EXCEPT ![r][p] = @ + give]
  /\ UNCHANGED <<now, rows, locks, phase, plan, asked, expiring, visiting, todo, order, drawn>>

\* A target that held hours is let go in the end, moved or not: release_debits
\* of what it has drawn by now.  (Of the rows read, those given back in full
\* are locked already, and get nothing more.)
Settled(r) ==
  \/ ReleasedAll(r) /\ (Settles(r) => Asked(r) = 0 \/ ~(HoldsNow(r) \/ Enters(r)))
  \/ phase[r] = "walk" /\ (need[r] = 0 \/ (todo[r] = {} /\ ~(plan[r].whole /\ Enters(r))))
  \/ phase[r] = "giveback" /\ todo[r] = {} /\ (need[r] = 0 \/ CanGive(r) = {})

Leaves(r) == HoldsNow(r) /\ plan[r].becomes = "released"

BeginLeave(r) ==
  /\ Settled(r) /\ Leaves(r)
  /\ phase' = [phase EXCEPT ![r] = "leave"]
  /\ plan' = [plan EXCEPT ![r].released = @ \cup {plan[r].target}]
  /\ ReadRows(r, {p \in Purchases : debit[plan[r].target][p] > 0 \/ drawn[r][p] > 0})
  /\ UNCHANGED <<now, rows, locks, asked, expiring, visiting, need, drawn, back, gave>>

LeaveRow(r) ==
  /\ phase[r] = "leave"
  /\ \E p \in Purchases :
       /\ LockRow(r, p)
       /\ back' = [back EXCEPT ![r][p] = @ + debit[plan[r].target][p] - gave[r][p]]
       /\ drawn' = [drawn EXCEPT ![r][p] = 0]
       /\ gave' = [gave EXCEPT ![r][p] = 0]
  /\ UNCHANGED <<now, rows, bookingLock, phase, plan, asked, expiring, visiting, order, need>>

-----------------------------------------------------------------------------
(* The request ends: its writes land together, or not at all.              *)

Done(r) == \/ Settled(r) /\ ~Leaves(r)
           \/ phase[r] = "leave" /\ todo[r] = {}

Close(r) ==
  /\ rowLock' = [p \in Purchases |-> IF rowLock[p] = r THEN NoRequest ELSE rowLock[p]]
  /\ bookingLock' = [b \in Bookings |-> IF bookingLock[b] = r THEN NoRequest ELSE bookingLock[b]]
  /\ phase' = [phase EXCEPT ![r] = "idle"]
  /\ plan' = [plan EXCEPT ![r] = NoPlan]
  /\ asked' = [asked EXCEPT ![r] = {}]
  /\ expiring' = [expiring EXCEPT ![r] = {}]
  /\ visiting' = [visiting EXCEPT ![r] = NoBooking]
  /\ todo' = [todo EXCEPT ![r] = {}]
  /\ order' = [order EXCEPT ![r] = NoHours]
  /\ need' = [need EXCEPT ![r] = 0]
  /\ drawn' = [drawn EXCEPT ![r] = NoHours]
  /\ back' = [back EXCEPT ![r] = NoHours]
  /\ gave' = [gave EXCEPT ![r] = NoHours]

\* What the target's row says once its hours are settled.
HeldHours(r) == HoldsNow(r) \/ phase[r] = "leave"

ShareAfter_Kept(r, b) ==       \* mutant: a shrink does not lower package_hours_used
  IF booking[b].state = "none" THEN plan[r].size - need[r]
  ELSE IF HeldHours(r) THEN booking[b].share + Extra(r) - need[r]
  ELSE Smaller(booking[b].share, plan[r].size)
ShareAfter(r, b) ==
  IF booking[b].state = "none" THEN plan[r].size - need[r]
  ELSE IF ~HeldHours(r) THEN Smaller(booking[b].share, plan[r].size)
  ELSE IF plan[r].size < booking[b].share THEN plan[r].size
  ELSE booking[b].share + Extra(r) - need[r]

StateAfter(r, b) ==
  IF booking[b].state = "none" THEN IF need[r] = 0 THEN "confirmed" ELSE "pending"
  ELSE IF ~(HoldsNow(r) \/ Enters(r)) THEN "released"
  ELSE IF plan[r].becomes = "same" THEN booking[b].state
  ELSE plan[r].becomes

BookingAfter(r, b) ==
  IF b = plan[r].target
  THEN [state |-> StateAfter(r, b), share |-> ShareAfter(r, b), duration |-> plan[r].size]
  ELSE IF b \in plan[r].released THEN [booking[b] EXCEPT !.state = "released"]
  ELSE booking[b]

\* The debit rows that stay, with what the target drew or gave back.
Kept_RowsKept(r, b, p) == debit[b][p]  \* mutant: release_debits does not delete the rows
Kept(r, b, p) == IF b \in plan[r].released THEN 0 ELSE debit[b][p]

DebitAfter(r, b, p) ==
  Kept(r, b, p) + (IF b = plan[r].target THEN drawn[r][p] - gave[r][p] ELSE 0)

RowAfter(r, p) == Row(purchase[p].status, purchase[p].total,
                      purchase[p].used - back[r][p] + drawn[r][p],
                      Balance(r, p), purchase[p].expires)

Commit(r) ==
  /\ Done(r)
  /\ purchase' = [p \in Purchases |-> RowAfter(r, p)]
  /\ debit' = [b \in Bookings |-> [p \in Purchases |-> DebitAfter(r, b, p)]]
  /\ booking' = [b \in Bookings |-> BookingAfter(r, b)]
  /\ Close(r)
  /\ UNCHANGED now

Short(r) == /\ phase[r] = "walk" /\ Enters(r) /\ plan[r].whole
            /\ need[r] > 0 /\ todo[r] = {}

\* Late money whose hours were spent meanwhile: _undo puts the draws back
\* under the locks, and the booking stays out of the ledger.
Undone_Kept(r) == drawn        \* mutant: the draws are not put back
Undone(r) == [drawn EXCEPT ![r] = NoHours]

Undo(r) ==
  /\ Short(r)
  /\ booking[plan[r].target].state # "none" /\ plan[r].becomes = "confirmed"
  /\ phase' = [phase EXCEPT ![r] = "release"]
  /\ plan' = [plan EXCEPT ![r].target = NoBooking]
  /\ drawn' = Undone(r)
  /\ UNCHANGED <<now, rows, locks, asked, expiring, visiting, todo, order, need, back, gave>>

Rollback(r) == Close(r) /\ UNCHANGED <<now, rows>>

\* The bank cannot cover the block: 409, nothing was written.
Refuse(r) == Short(r) /\ Rollback(r)

\* A lost slot race, a provider error, a dropped connection: anywhere.  The
\* webhook that loses its slot after a complete walk ends here as well: its
\* savepoint is undone, and the next attribute it reads of the booking, which
\* that has expired in the session, raises.
Fail(r) == phase[r] # "idle" /\ Rollback(r)

-----------------------------------------------------------------------------
(* Waiting for rows.                                                       *)

Wants(r, p) == /\ IsFirst(r, p)
               /\ \/ phase[r] \in {"release", "giveback", "leave"}
                  \/ phase[r] = "walk" /\ need[r] > 0

WaitsForRow(r, u) == \E p \in Purchases : Wants(r, p) /\ rowLock[p] = u /\ u # r

WaitsForHold(r, u) == \E b \in asked[r] : bookingLock[b] = u /\ u # r

Waits(r, u) == WaitsForRow(r, u) \/ WaitsForHold(r, u)

\* A set of requests in which everyone waits on another of the set.
Deadlock(C) == C # {} /\ \A r \in C : \E u \in C : Waits(r, u)

\* Postgres aborts one of them (40P01).
DeadlockVictim(r) == /\ \E C \in SUBSET Requests : r \in C /\ Deadlock(C)
                     /\ Rollback(r)

-----------------------------------------------------------------------------
(* The operator's edits: one row, locked, committed at once.               *)

Save_Unlocked(p, row) ==       \* mutant: the operator's edit takes no row lock
  /\ purchase' = [purchase EXCEPT ![p] = row]
  /\ UNCHANGED <<now, booking, debit, locks, session>>
Save(p, row) ==
  /\ rowLock[p] = NoRequest
  /\ purchase' = [purchase EXCEPT ![p] = row]
  /\ UNCHANGED <<now, booking, debit, locks, session>>

Edit(p, row) == p \in Editable /\ Save(p, row)

\* A purchase becomes spendable: paid for, or granted.
Grant(p) ==
  \E g \in Grants, e \in Validity[p] :
    /\ purchase[p].status = "absent" /\ e > now /\ g <= MaxTotal
    /\ Save(p, Row("active", g, 0, g, e))

Adjust(p) ==
  \E hours \in Grants \cup {-g : g \in Grants} :
    /\ purchase[p].status \in {"active", "cancelled"}
    /\ purchase[p].remaining + hours >= 0
    /\ purchase[p].total + hours <= MaxTotal
    /\ Edit(p, Row(purchase[p].status, purchase[p].total + hours, purchase[p].used,
                   purchase[p].remaining + hours, purchase[p].expires))

Extend(p) ==
  \E e \in Times :
    /\ p \in Extendable
    /\ purchase[p].status = "active" /\ e > now /\ e > purchase[p].expires
    /\ Save(p, [purchase[p] EXCEPT !.expires = e])

CancelPurchase(p) ==
  /\ purchase[p].status = "active"
  /\ Edit(p, Row("cancelled", purchase[p].total, purchase[p].used, 0, purchase[p].expires))

Reactivate(p) ==
  /\ purchase[p].status = "cancelled"
  /\ Edit(p, Row("active", purchase[p].total, purchase[p].used,
                 Positive(purchase[p].total - purchase[p].used), purchase[p].expires))

\* Only a purchase nobody paid for and no booking ever drew on.
DeletePurchase(p) ==
  /\ p \in Free /\ purchase[p].status \in {"active", "cancelled"}
  /\ \A b \in Bookings : debit[b][p] = 0
  /\ Edit(p, Row("deleted", 0, 0, 0, 0))

Tick == /\ now < Latest
        /\ now' = now + 1
        /\ UNCHANGED <<rows, locks, session>>

-----------------------------------------------------------------------------
Begin(r) == BeginExpiry(r) \/ BeginBooking(r) \/ BeginRetake(r) \/ BeginUpdate(r)

Work(r) == \/ FlipHold(r) \/ VisitBooking(r) \/ CreditRow(r) \/ FlipAgain(r)
           \/ BeginLeave(r) \/ LeaveRow(r)
           \/ BeginWalk(r) \/ WalkRow(r)
           \/ BeginGiveback(r) \/ LockDebited(r) \/ GiveRow(r)

End(r) == Commit(r) \/ Undo(r) \/ Refuse(r) \/ DeadlockVictim(r)

Operator(p) == \/ Grant(p) \/ Adjust(p) \/ Extend(p) \/ CancelPurchase(p)
               \/ Reactivate(p) \/ DeletePurchase(p)

Next == \/ \E r \in Requests : Begin(r) \/ Work(r) \/ End(r) \/ Fail(r)
        \/ \E p \in Purchases : Operator(p)
        \/ Pay \/ Restate \/ Tick

Spec == Init /\ [][Next]_vars

-----------------------------------------------------------------------------
(* What the ledger promises.                                               *)

\* hours_used + hours_remaining == hours_total on every purchase whose hours
\* can be spent, whatever the requests interleave, and no hour is sold twice
\* (package_hours.py, module docstring).  Cancelling a purchase forfeits what
\* was left of it, so a cancelled one may add up to less, never to more.
NeverOversold ==
  \A p \in Purchases :
    /\ purchase[p].remaining >= 0
    /\ purchase[p].used + purchase[p].remaining <= purchase[p].total
    /\ purchase[p].status = "active" =>
         purchase[p].used + purchase[p].remaining = purchase[p].total

\* "A debit can never exist without its booking": debit rows exist only while
\* the booking is in a status that holds its hours (models/package.py).
NoStrayDebits ==
  \A b \in Bookings : booking[b].state \notin HoldsHours =>
    \A p \in Purchases : debit[b][p] = 0

\* Every used hour of a purchase is held by some booking: a release, a shrink
\* or a deletion that lost one would leave hours_used above the debit rows.
UsedIsDebited ==
  \A p \in Purchases : purchase[p].used = SumFunction([b \in Bookings |-> debit[b][p]])

\* "Booking.package_hours_used equals the sum of these rows while they exist"
\* (models/package.py, BookingPackageDebit).
ShareIsDebited ==
  \A b \in Bookings : booking[b].state \in HoldsHours =>
    SumFunction(debit[b]) = booking[b].share

\* What a request has drawn and not committed is covered by the row it has
\* locked, and by no other: the second look under the lock is what _walk
\* relies on.
DrawsAreCovered ==
  \A r \in Requests, p \in Purchases :
    /\ Balance(r, p) >= 0
    /\ drawn[r][p] # 0 => rowLock[p] = r

\* "Spend the soonest-expiring hours first so nothing lapses unused": having
\* drawn on a purchase, the walk left nothing on one it locked before.
SoonestFirst ==
  \A r \in Requests, p, q \in Purchases :
    /\ phase[r] = "walk" /\ drawn[r][q] > 0
    /\ p # q /\ Earlier(r, p, q) /\ rowLock[p] = r
    => ~Spendable(r, p)

\* "Shrinking gives the surplus back in REVERSE draw order": a purchase gets
\* hours back only when every later-expiring one has got all of its own.
LatestBackFirst ==
  \A r \in Requests, p, q \in Purchases :
    /\ phase[r] = "giveback" /\ gave[r][p] > 0
    /\ p # q /\ Earlier(r, p, q)
    => gave[r][q] = debit[plan[r].target][q]

\* A request that has read purchase rows once, and holds only rows of that read.
ReadOnce(r) == IF phase[r] = "release" THEN \A b, c \in plan[r].released : b = c
               ELSE plan[r].released = {}

\* Two requests read the rows they wait for under different expiries.
Disagree(r, u, W) == \E p, q \in W : Earlier(r, p, q) /\ ~Earlier(u, p, q)

\* "Locks are taken in expiry order by every walker": requests that read their
\* rows once, and under the same expiries, never wait for rows in a circle.
OneOrderNoCircle ==
  \A C \in (SUBSET Requests) \ {{}} :
    (\A r \in C : \E u \in C : WaitsForRow(r, u)) =>
      \/ \E r \in C : ~ReadOnce(r)
      \/ \E r, u \in C : Disagree(r, u, {p \in Purchases : \E v \in C : Wants(v, p)})

\* What the customer's account is, seen from outside the transactions.
Worth == [p \in Purchases |-> purchase[p].total]
Active == [p \in Purchases |-> purchase[p].status = "active"]

Accounts == INSTANCE HourLedger WITH Sources <- Purchases, worth <- Worth, open <- Active,
                                    held <- debit

\* Whatever statements of other requests ran between its own, a request that
\* commits is one move of the ledger: the holds it flipped give back all their
\* hours, its booking draws or gives back, and every hour it drew is covered by
\* a purchase that is active and not overdrawn at the very commit.
KeepsLedger == Accounts!Spec
=============================================================================
