------------------------------ MODULE SlotRace ------------------------------
(***************************************************************************)
(* Who gets a slot when several requests want it at once: the statements   *)
(* of create_booking, resume_checkout, admin_update_booking, _confirm_     *)
(* booking, cancel_booking, create_block and the sweeper, interleaved.     *)
(*                                                                         *)
(* A request is one READ COMMITTED transaction.  It sees what others have  *)
(* committed and what it wrote itself; a row another request has written   *)
(* or locked makes it wait.  Nothing in the code keeps two requests from   *)
(* both finding a slot free: the EXCLUDE constraint on the booking rows,   *)
(* which counts every pending and confirmed row, decides between them when *)
(* the second one writes.  Requests that wait for each other are ended by  *)
(* the database: one of them gets an error.                                *)
(*                                                                         *)
(* A Checkout Session opened by a request that then fails is left out: its *)
(* link reached nobody, and its completion would name no booking.          *)
(***************************************************************************)
EXTENDS Integers, FiniteSets

CONSTANTS
  Bookings,       \* ids of the booking rows
  Slots,          \* the intervals on offer in the room, each a set of hours
  Blockable,      \* those the operator may block
  Requests,       \* the database sessions
  Hook,           \* the one that serves the provider's webhook
  NoRequest,      \* an unlocked row
  NoBooking,      \* the target of a block or a sweep
  Hold,           \* BOOKING_HOLD_MINUTES
  Horizon         \* the last instant of the clock

ASSUME SlotsAreIntervals == Slots \subseteq SUBSET Nat /\ Blockable \subseteq Slots
ASSUME HookIsARequest == Hook \in Requests
ASSUME NullsAreFresh == NoRequest \notin Requests /\ NoBooking \notin Bookings
ASSUME NamesDiffer == "free" \notin Bookings /\ "blocked" \notin Bookings
ASSUME TimesArePositive == Hold \in Nat \ {0} /\ Horizon \in Nat \ {0}

VARIABLES
  now,            \* the clock, from 1
  row,            \* committed booking rows
  blocked,        \* committed blocks
  payable,        \* bookings whose Checkout Session the customer may pay
  due,            \* bookings paid at the provider whose webhook is unanswered
  lock,           \* which request holds each booking row
  phase,          \* where each request is
  plan,           \* what it set out to do
  stale,          \* lapsed rows its UPDATE has still to flip
  flipped,        \* rows it has flipped to expired
  wrote           \* the status it gave its own booking, "" before it does

rows    == <<now, row, blocked, payable, due>>
session == <<phase, plan, stale, flipped, wrote>>
vars    == <<rows, lock, session>>

Never == 0
HoldsSlot == {"pending", "confirmed"}
Statuses == {"none", "pending", "confirmed", "cancelled", "expired", "paid_unfulfilled"}
Kinds == {"create", "resume", "revive", "pay", "cancel", "block", "sweep"}
Phases == {"idle", "lock", "expire", "flip", "blocks", "exclude", "done"}

Plan == [kind : Kinds, target : Bookings \cup {NoBooking}, slot : Slots \cup {{}},
         want : Statuses, at : 1..Horizon]

NoPlan == [kind |-> "sweep", target |-> NoBooking, slot |-> {}, want |-> "none", at |-> 1]

TypeOK ==
  /\ now \in 1..Horizon
  /\ row \in [Bookings -> [status : Statuses, slot : Slots \cup {{}},
                           deadline : 0..Horizon + Hold, paid : BOOLEAN]]
  /\ blocked \subseteq Slots
  /\ payable \subseteq Bookings /\ due \subseteq Bookings
  /\ lock \in [Bookings -> Requests \cup {NoRequest}]
  /\ phase \in [Requests -> Phases]
  /\ plan \in [Requests -> Plan]
  /\ stale \in [Requests -> SUBSET Bookings]
  /\ flipped \in [Requests -> SUBSET Bookings]
  /\ wrote \in [Requests -> Statuses \cup {""}]

Init ==
  /\ now = 1
  /\ row = [b \in Bookings |->
       [status |-> "none", slot |-> {}, deadline |-> Never, paid |-> FALSE]]
  /\ blocked = {}
  /\ payable = {} /\ due = {}
  /\ lock = [b \in Bookings |-> NoRequest]
  /\ phase = [r \in Requests |-> "idle"]
  /\ plan = [r \in Requests |-> NoPlan]
  /\ stale = [r \in Requests |-> {}]
  /\ flipped = [r \in Requests |-> {}]
  /\ wrote = [r \in Requests |-> ""]

-----------------------------------------------------------------------------
(* Reading.                                                                *)

Overlap(s, t) == s \cap t # {}

\* A pending row whose deadline is past at time t.
Lapsed(b, t) == /\ row[b].status = "pending"
                /\ row[b].deadline # Never /\ row[b].deadline <= t

Holds(b, t) == row[b].status \in HoldsSlot /\ ~Lapsed(b, t)

Unlocked(r, b) == lock[b] \in {r, NoRequest}

Slot(r) == plan[r].slot
Target(r) == plan[r].target

\* What request r sees of booking c's hold on the slot it wants.
SeesHold(r, c) == /\ c # Target(r)
                  /\ c \notin flipped[r]
                  /\ Holds(c, plan[r].at) /\ Overlap(row[c].slot, Slot(r))

-----------------------------------------------------------------------------
(* A request begins, and reads the clock once.                             *)

Start(r, kind, b, s, want, first) ==
  /\ phase[r] = "idle"
  /\ phase' = [phase EXCEPT ![r] = first]
  /\ plan' = [plan EXCEPT ![r] =
       [kind |-> kind, target |-> b, slot |-> s, want |-> want, at |-> now]]
  /\ UNCHANGED <<rows, stale, flipped, wrote>>

\* A new booking: an unpaid hold, or one that the bank or the operator pays.
BeginCreate(r) ==
  \E b \in Bookings, s \in Slots, want \in HoldsSlot :
    /\ row[b].status = "none" /\ lock[b] = NoRequest
    /\ Start(r, "create", b, s, want, "expire")
    /\ lock' = [lock EXCEPT ![b] = r]

\* "Pagar agora", a reinstatement, a cancellation: the row is locked first.
BeginOnRow(r) ==
  \E b \in Bookings :
    /\ row[b].status # "none"
    /\ \/ Start(r, "resume", b, row[b].slot, "pending", "lock")
       \/ Start(r, "revive", b, row[b].slot, "confirmed", "lock")
       \/ Start(r, "cancel", b, row[b].slot, "cancelled", "lock")
    /\ UNCHANGED lock

BeginPayment ==
  \E b \in due : /\ Start(Hook, "pay", b, row[b].slot, "confirmed", "lock")
                 /\ UNCHANGED lock

BeginBlock(r) ==
  \E s \in Blockable : /\ Start(r, "block", NoBooking, s, "none", "expire")
                       /\ UNCHANGED lock

\* One process sweeps at a time.
BeginSweep(r) == /\ \A q \in Requests : plan[q].kind = "sweep" => phase[q] = "idle"
                 /\ Start(r, "sweep", NoBooking, {}, "none", "expire")
                 /\ UNCHANGED lock

-----------------------------------------------------------------------------
(* It ends.                                                                *)

Close(r) ==
  /\ phase' = [phase EXCEPT ![r] = "idle"]
  /\ stale' = [stale EXCEPT ![r] = {}]
  /\ flipped' = [flipped EXCEPT ![r] = {}]
  /\ wrote' = [wrote EXCEPT ![r] = ""]
  /\ lock' = [b \in Bookings |-> IF lock[b] = r THEN NoRequest ELSE lock[b]]
  /\ plan' = [plan EXCEPT ![r] = NoPlan]

Rollback(r) == Close(r) /\ UNCHANGED rows

\* The look finds the slot taken: 409, and nothing of the request stays.  Money
\* is never told no: the booking becomes paid_unfulfilled.
Refuse_Raises(r) == Rollback(r)  \* mutant: money for a slot that is gone is an error
Refuse(r) ==
  IF plan[r].kind = "pay"
  THEN /\ wrote' = [wrote EXCEPT ![r] = "paid_unfulfilled"]
       /\ phase' = [phase EXCEPT ![r] = "done"]
       /\ UNCHANGED <<rows, lock, plan, stale, flipped>>
  ELSE Rollback(r)

NewDeadline_Twice(r, b) == plan[r].at + Hold + Hold  \* mutant: a hold lives twice its time
NewDeadline(r, b) == plan[r].at + Hold

FlippedAll(r) == phase[r] = "flip" /\ stale[r] = {}

\* Commit, with the webhook answered.
RowAfter(r, b) ==
  IF wrote[r] # "" /\ b = Target(r)
  THEN [status   |-> wrote[r],
        slot     |-> Slot(r),
        deadline |-> CASE wrote[r] = "pending"   -> NewDeadline(r, b)
                       [] wrote[r] = "cancelled" -> row[b].deadline
                       [] OTHER                  -> Never,
        paid     |-> row[b].paid \/ plan[r].kind = "pay"]
  ELSE IF b \in flipped[r] THEN [row[b] EXCEPT !.status = "expired"]
  ELSE row[b]

Commit(r) ==
  /\ phase[r] = "done" \/ (plan[r].kind = "sweep" /\ FlippedAll(r))
  /\ row' = [b \in Bookings |-> RowAfter(r, b)]
  /\ due' = IF plan[r].kind = "pay" THEN due \ {Target(r)} ELSE due
  /\ payable' = IF wrote[r] = "pending" THEN payable \cup {Target(r)} ELSE payable
  /\ Close(r)
  /\ UNCHANGED <<now, blocked>>

-----------------------------------------------------------------------------
(* What it does in between.                                                *)

\* SELECT ... FOR UPDATE: wait for the row, then read what it is now.
Acquire(r) == /\ phase[r] = "lock"
              /\ lock[Target(r)] = NoRequest

GoOn(r, next, status) ==
  /\ lock' = [lock EXCEPT ![Target(r)] = r]
  /\ phase' = [phase EXCEPT ![r] = next]
  /\ wrote' = [wrote EXCEPT ![r] = status]
  /\ UNCHANGED <<rows, plan, stale, flipped>>

LockToRetake(r) ==
  LET b == Target(r) IN
  /\ Acquire(r)
  /\ IF \/ plan[r].kind = "resume" /\ (row[b].status = "expired" \/ Lapsed(b, plan[r].at))
        \/ plan[r].kind = "revive" /\ row[b].status \in {"expired", "cancelled"}
     THEN GoOn(r, "expire", "")
     ELSE plan[r].kind \in {"resume", "revive"} /\ Rollback(r)

LockToCancel(r) ==
  /\ Acquire(r) /\ plan[r].kind = "cancel"
  /\ IF row[Target(r)].status \in HoldsSlot
     THEN GoOn(r, "done", "cancelled")
     ELSE Rollback(r)

\* A hold that may still be paid: with a deadline, or expired.
UnpaidHold(b) == \/ row[b].status = "expired"
                 \/ row[b].status \in {"pending", "cancelled"} /\ row[b].deadline # Never

\* Paid in time, paid late, or resolved already.
LockToPay(r) ==
  LET b == Target(r) IN
  /\ Acquire(r) /\ plan[r].kind = "pay"
  /\ IF ~UnpaidHold(b)
     THEN /\ due' = due \ {b}
          /\ Close(r)
          /\ UNCHANGED <<now, row, blocked, payable>>
     ELSE IF Holds(b, plan[r].at) THEN GoOn(r, "done", "confirmed")
     ELSE GoOn(r, "expire", "")

\* expire_stale_holds: the UPDATE finds the rows its snapshot shows lapsed ...
FindStale(r) ==
  /\ phase[r] = "expire"
  /\ phase' = [phase EXCEPT ![r] = "flip"]
  /\ stale' = [stale EXCEPT ![r] =
       {c \in Bookings : /\ Lapsed(c, plan[r].at)
                         /\ plan[r].kind = "sweep" \/ Overlap(row[c].slot, Slot(r))}]
  /\ UNCHANGED <<rows, lock, plan, flipped, wrote>>

\* ... and flips each one, if it still is once its lock is granted.
StillLapsed_Unchecked(r, c) == TRUE  \* mutant: rows are read first, then written by id
StillLapsed(r, c) == Lapsed(c, plan[r].at)

Flip(r) ==
  /\ phase[r] = "flip"
  /\ \E c \in stale[r] :
       /\ Unlocked(r, c)
       /\ stale' = [stale EXCEPT ![r] = @ \ {c}]
       /\ IF StillLapsed(r, c)
          THEN /\ flipped' = [flipped EXCEPT ![r] = @ \cup {c}]
               /\ lock' = [lock EXCEPT ![c] = r]
          ELSE UNCHANGED <<flipped, lock>>
  /\ UNCHANGED <<rows, phase, plan, wrote>>

\* has_conflicting_booking asks for bookings, then for blocks.
LookAtBookings(r) ==
  /\ FlippedAll(r) /\ plan[r].kind # "sweep"
  /\ IF \E c \in Bookings : SeesHold(r, c) THEN Refuse(r)
     ELSE /\ phase' = [phase EXCEPT ![r] = "blocks"]
          /\ UNCHANGED <<rows, lock, plan, stale, flipped, wrote>>

\* A session is closed before it is replaced, unless it was just paid.  Then
\* the booking's new version goes into the constraint's index ...
LookAtBlocks(r) ==
  /\ phase[r] = "blocks" /\ plan[r].kind # "block"
  /\ IF \/ \E s \in blocked : Overlap(s, Slot(r))
        \/ plan[r].kind = "resume" /\ Target(r) \in due
     THEN Refuse(r)
     ELSE /\ phase' = [phase EXCEPT ![r] = "exclude"]
          /\ wrote' = [wrote EXCEPT ![r] = plan[r].want]
          /\ payable' = IF plan[r].kind = "resume" THEN payable \ {Target(r)} ELSE payable
          /\ UNCHANGED <<now, row, blocked, due, lock, plan, stale, flipped>>

\* ... where it meets committed versions, and those of others still open.
Rival(r, c) == /\ c # Target(r) /\ c \notin flipped[r]
               /\ row[c].status \in HoldsSlot /\ Overlap(row[c].slot, Slot(r))

Rewrites(q, c) == c \in flipped[q] \/ (wrote[q] # "" /\ c = Target(q))

Others(r) == Requests \ {r}

AwaitedAt(r) == {q \in Others(r) :
  \/ \E c \in Bookings : Rival(r, c) /\ Rewrites(q, c)
  \/ wrote[q] \in HoldsSlot /\ Target(q) # Target(r) /\ Overlap(Slot(q), Slot(r))}

Lost_NoConstraint(r) == FALSE  \* mutant: the look before the write is all there is
Lost(r) == \E c \in Bookings : Rival(r, c) /\ \A q \in Others(r) : ~Rewrites(q, c)

\* To lose here is an error, for money too: undoing the webhook's savepoint
\* expires the booking in its session, and the next read of one of its
\* attributes raises.  The payment stays due, and the provider repeats it.
Exclude(r) ==
  /\ phase[r] = "exclude"
  /\ IF Lost(r) THEN Rollback(r)
     ELSE /\ AwaitedAt(r) = {}
          /\ phase' = [phase EXCEPT ![r] = "done"]
          /\ UNCHANGED <<rows, lock, plan, stale, flipped, wrote>>

\* A block goes in beside the other blocks: its own EXCLUDE keeps them apart.
CommitBlock(r) ==
  /\ phase[r] = "blocks" /\ plan[r].kind = "block"
  /\ IF \E s \in blocked : Overlap(s, Slot(r)) THEN Rollback(r)
     ELSE /\ blocked' = blocked \cup {Slot(r)}
          /\ row' = [b \in Bookings |-> RowAfter(r, b)]
          /\ Close(r)
          /\ UNCHANGED <<now, payable, due>>

-----------------------------------------------------------------------------
(* Waiting in a circle.                                                    *)

Holders(B) == {lock[b] : b \in B} \ {NoRequest}

WaitsFor(r) == CASE phase[r] = "lock"    -> Holders({Target(r)})
                 [] phase[r] = "flip"    -> Holders(stale[r])
                 [] phase[r] = "exclude" -> AwaitedAt(r)
                 [] OTHER                -> {}

Deadlocked(r) == \E S \in SUBSET Requests :
  /\ r \in S
  /\ \A q \in S : /\ (WaitsFor(q) \ {q}) \cap S # {}
                  /\ \E p \in S \ {q} : q \in WaitsFor(p)

\* A lost race if it is the constraint that waits, else an error: both are
\* rolled back.
Victim(r) == Deadlocked(r) /\ Rollback(r)

\* The client goes away, or its process dies, before the commit.
Abandon(r) == /\ phase[r] # "idle" /\ r # Hook
              /\ Rollback(r)

-----------------------------------------------------------------------------
(* The customer pays at the provider; time passes.                         *)

PayAtProvider ==
  \E b \in payable :
    /\ payable' = payable \ {b}
    /\ due' = due \cup {b}
    /\ UNCHANGED <<now, row, blocked, lock, session>>

Tick == /\ now < Horizon
        /\ now' = now + 1
        /\ UNCHANGED <<row, blocked, payable, due, lock, session>>

Begin(r) == BeginCreate(r) \/ BeginOnRow(r) \/ BeginBlock(r) \/ BeginSweep(r)

Work(r) == \/ LockToRetake(r) \/ LockToCancel(r) \/ LockToPay(r)
           \/ FindStale(r) \/ Flip(r)
           \/ LookAtBookings(r) \/ LookAtBlocks(r) \/ Exclude(r) \/ Victim(r)
           \/ Commit(r) \/ CommitBlock(r)

Next == \/ \E r \in Requests \ {Hook} : Begin(r) \/ Abandon(r)
        \/ \E r \in Requests : Work(r)
        \/ BeginPayment \/ PayAtProvider \/ Tick

Spec == Init /\ [][Next]_vars

-----------------------------------------------------------------------------
(* What is promised.                                                       *)

\* "Two concurrent requests can both pass the overlap SELECT, and only the
\* database can arbitrate": of the committed rows that hold a slot, lapsed or
\* not, no two overlap.
SlotHeldOnce ==
  \A b, c \in Bookings :
    b # c /\ row[b].status \in HoldsSlot /\ row[c].status \in HoldsSlot =>
      ~Overlap(row[b].slot, row[c].slot)

\* A hold whose payment has landed is never expired by a request that read it
\* while it was unpaid.
PaidNeverLapses == \A b \in Bookings : row[b].paid => row[b].status \notin {"pending", "expired"}

\* "Blocked time (A02) is unavailable to every booking path".
BlockedIsFree == \A b \in Bookings, s \in blocked :
  Holds(b, now) => ~Overlap(row[b].slot, s)

\* A block that has looked at the bookings, and a booking that has looked at
\* the blocks and takes hours of it, are both open: neither sees the other.
PassEachOther ==
  \E q, r \in Requests :
    /\ plan[q].kind = "block" /\ phase[q] = "blocks"
    /\ phase[r] \in {"exclude", "done"} /\ wrote[r] \in HoldsSlot
    /\ Overlap(Slot(r), Slot(q))

\* No money is dropped: however many races its booking loses meanwhile, the
\* webhook of a payment ends with the payment answered and on the books (unless
\* the booking was resolved without it), or it lost its slot at the very
\* constraint or in a circle of waits, and then nothing of it is committed and
\* the payment is still due.
PaymentsAreAnswered ==
  [][phase[Hook] # "idle" /\ phase'[Hook] = "idle" =>
       \/ /\ Target(Hook) \notin due'
          /\ row'[Target(Hook)].paid \/ ~UnpaidHold(Target(Hook))
       \/ /\ Deadlocked(Hook) \/ (phase[Hook] = "exclude" /\ Lost(Hook))
          /\ UNCHANGED rows]_vars

Holder == [h \in UNION Slots |->
  IF \E b \in Bookings : Holds(b, now) /\ h \in row[b].slot
  THEN CHOOSE b \in Bookings : Holds(b, now) /\ h \in row[b].slot
  ELSE "free"]

Calendar == INSTANCE SlotCalendar WITH holder <- Holder, Blocked <- "blocked", Free <- "free"

\* What the interleaved statements commit is, seen from outside, the calendar
\* that whole handlers keep.
KeepsCalendar == Calendar!Spec
=============================================================================
