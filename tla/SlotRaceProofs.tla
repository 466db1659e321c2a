--------------------------- MODULE SlotRaceProofs ---------------------------
(***************************************************************************)
(* What SlotRace promises for any number of bookings, slots and requests.  *)
(*                                                                         *)
(* The argument is the constraint's: a request that is done writing has no *)
(* rival among the committed rows, and no other that is done writing has   *)
(* its slot.  Row locks keep it so until it commits: what it flipped and   *)
(* what it writes is nobody else's.  A payment in time does not go through *)
(* the constraint again; that it needs no new place in the calendar is     *)
(* because its row still holds the slot when its lock is granted.          *)
(***************************************************************************)
EXTENDS SlotRace, TLAPS

Busy(r) == phase[r] \notin {"idle", "lock"}
OnRow == {"resume", "revive", "pay", "cancel"}
Writes == {"pending", "confirmed", "cancelled"}

\* What a request locked it keeps.
LocksKept(r) == /\ Busy(r) /\ Target(r) # NoBooking => lock[Target(r)] = r
                /\ \A c \in flipped[r] : lock[c] = r

\* What each kind of request does, and when.
Staged(r) ==
  /\ plan[r].kind \in {"block", "sweep"} <=> Target(r) = NoBooking
  /\ plan[r].kind \notin {"block", "sweep"} => plan[r].want \in Writes
  /\ plan[r].kind = "sweep" => phase[r] \in {"idle", "expire", "flip"}
  /\ plan[r].kind = "block" => phase[r] \in {"idle", "expire", "flip", "blocks"}
  /\ plan[r].kind = "block" => plan[r].slot \in Slots
  /\ plan[r].kind = "create" => phase[r] # "lock"
  /\ phase[r] = "idle" => plan[r].kind = "sweep"
  /\ plan[r].kind = "pay" => plan[r].want = "confirmed"
  /\ plan[r].kind = "cancel" => plan[r].want = "cancelled"
  /\ plan[r].want = "pending" => plan[r].kind \in {"create", "resume"}
  /\ phase[r] \in {"idle", "lock", "expire"} => flipped[r] = {}
  /\ IF phase[r] \in {"exclude", "done"}
     THEN \/ wrote[r] = plan[r].want
          \/ wrote[r] = "paid_unfulfilled" /\ phase[r] = "done"
     ELSE wrote[r] = ""

\* The row a request is about keeps its slot, and stays unpaid while a request
\* that found it so has it locked.
RowKept(r) ==
  /\ plan[r].kind = "create" => row[Target(r)].status = "none"
  /\ plan[r].kind \in OnRow => /\ row[Target(r)].status # "none"
                               /\ Slot(r) = row[Target(r)].slot
  /\ plan[r].kind = "resume" /\ Busy(r) => ~row[Target(r)].paid
  /\ \A c \in flipped[r] : ~row[c].paid

\* Done writing, it has no rival among the rows ...
DoneHolding(r) == phase[r] = "done" /\ wrote[r] \in HoldsSlot
Unrivalled(r) == DoneHolding(r) => \A c \in Bookings : ~Rival(r, c)

\* ... nor among the requests.
Apart(r, q) == DoneHolding(r) /\ DoneHolding(q) => ~Overlap(Slot(r), Slot(q))

\* Only rows that exist are paid for.
MoneyRows == \A b \in Bookings :
  row[b].status = "none" => b \notin payable \cup due /\ ~row[b].paid

Sessions == \A r \in Requests : /\ LocksKept(r) /\ Staged(r)
                                /\ RowKept(r) /\ Unrivalled(r)

IInv == /\ TypeOK /\ Sessions /\ MoneyRows /\ SlotHeldOnce /\ PaidNeverLapses
        /\ \A r, q \in Requests : r # q => Apart(r, q)

-----------------------------------------------------------------------------
(* Sessions of one request.                                                *)

\* What TypeOK says of one request.
LEMMA PlanTypes == ASSUME TypeOK, NEW r \in Requests
  PROVE  /\ plan[r] \in Plan /\ plan[r].kind \in Kinds
         /\ Target(r) \in Bookings \cup {NoBooking}
         /\ Slot(r) \in Slots \cup {{}}
         /\ plan[r].want \in Statuses /\ plan[r].at \in 1..Horizon
         /\ phase[r] \in Phases /\ flipped[r] \subseteq Bookings /\ stale[r] \subseteq Bookings
         /\ wrote[r] \in Statuses \cup {""}
  BY DEF TypeOK, Plan, Target, Slot

\* What TypeOK says of one row.
LEMMA RowTypes == ASSUME TypeOK, NEW b \in Bookings
  PROVE  /\ row[b].status \in Statuses /\ row[b].slot \in Slots \cup {{}}
         /\ row[b].deadline \in 0..Horizon + Hold /\ row[b].paid \in BOOLEAN
         /\ row[b] = [status |-> row[b].status, slot |-> row[b].slot,
                      deadline |-> row[b].deadline, paid |-> row[b].paid]
  BY DEF TypeOK

\* The plan of a request that is idle.
LEMMA NoPlanType == NoPlan \in Plan
<1>1. 1 \in 1..Horizon
  BY TimesArePositive
<1>2. "sweep" \in Kinds /\ "none" \in Statuses /\ {} \in Slots \cup {{}}
  BY DEF Kinds, Statuses
<1> QED  BY <1>1, <1>2 DEF NoPlan, Plan

\* The initial state: no rows, no requests.
LEMMA InitInv == Init => IInv
<1> SUFFICES ASSUME Init PROVE IInv
  OBVIOUS
<1>1. TypeOK
  <2>1. now \in 1..Horizon
    <3>1. now = 1
      BY DEF Init
    <3> QED  BY <3>1, TimesArePositive
  <2>2. [status |-> "none", slot |-> {}, deadline |-> Never, paid |-> FALSE]
          \in [status : Statuses, slot : Slots \cup {{}}, deadline : 0..Horizon + Hold,
               paid : BOOLEAN]
    BY TimesArePositive DEF Statuses, Never
  <2>3. row \in [Bookings -> [status : Statuses, slot : Slots \cup {{}},
                              deadline : 0..Horizon + Hold, paid : BOOLEAN]]
    BY <2>2 DEF Init
  <2>4. plan \in [Requests -> Plan]
    BY NoPlanType DEF Init
  <2>5. /\ blocked \subseteq Slots /\ payable \subseteq Bookings /\ due \subseteq Bookings
        /\ lock \in [Bookings -> Requests \cup {NoRequest}]
        /\ phase \in [Requests -> Phases]
        /\ stale \in [Requests -> SUBSET Bookings]
        /\ flipped \in [Requests -> SUBSET Bookings]
        /\ wrote \in [Requests -> Statuses \cup {""}]
    BY DEF Init, Phases
  <2> QED  BY <2>1, <2>3, <2>4, <2>5 DEF TypeOK
<1>2. \A r \in Requests : /\ phase[r] = "idle" /\ flipped[r] = {} /\ wrote[r] = ""
                          /\ plan[r] = NoPlan
  BY DEF Init
<1>3. \A r \in Requests : /\ plan[r].kind = "sweep" /\ Target(r) = NoBooking
                          /\ plan[r].want = "none"
  <2>1. NoPlan.kind = "sweep" /\ NoPlan.target = NoBooking /\ NoPlan.want = "none"
    BY DEF NoPlan
  <2> QED  BY <1>2, <2>1 DEF Target
<1>4. \A b \in Bookings : row[b].status = "none" /\ row[b].paid = FALSE
  BY DEF Init
<1>5. payable = {} /\ due = {}
  BY DEF Init
<1>6. Sessions
  BY <1>2, <1>3 DEF Sessions, LocksKept, Staged, RowKept, Unrivalled, DoneHolding, Busy, OnRow
<1>7. \A r, q \in Requests : Apart(r, q)
  BY <1>2 DEF Apart, DoneHolding
<1>10. MoneyRows /\ SlotHeldOnce /\ PaidNeverLapses
  BY <1>4, <1>5 DEF MoneyRows, SlotHeldOnce, PaidNeverLapses, HoldsSlot
<1> QED  BY <1>1, <1>6, <1>7, <1>10 DEF IInv

\* A request that does not move, and whose locks nobody takes, keeps them.
LEMMA LocksStay ==
  ASSUME NEW u \in Requests, LocksKept(u),
         Target(u) \in Bookings \cup {NoBooking}, flipped[u] \subseteq Bookings,
         Target(u)' = Target(u), flipped'[u] = flipped[u], Busy(u)' = Busy(u),
         \A c \in Bookings : lock[c] = u => lock'[c] = u
  PROVE  LocksKept(u)'
<1>1. Busy(u)' /\ Target(u)' # NoBooking => lock'[Target(u)'] = u
  BY DEF LocksKept
<1>2. \A c \in flipped'[u] : lock'[c] = u
  BY DEF LocksKept
<1> QED  BY <1>1, <1>2 DEF LocksKept

\* A step of one request that writes no row need only answer for itself.
LEMMA SessionStep ==
  ASSUME IInv, NEW r \in Requests, TypeOK', row' = row,
         payable' \subseteq payable, due' \subseteq due,
         \A u \in Requests \ {r} :
           /\ phase'[u] = phase[u] /\ plan'[u] = plan[u]
           /\ flipped'[u] = flipped[u] /\ wrote'[u] = wrote[u]
           /\ \A c \in Bookings : lock[c] = u => lock'[c] = u,
         LocksKept(r)', Staged(r)', RowKept(r)', Unrivalled(r)',
         \A q \in Requests \ {r} :
           DoneHolding(r)' /\ DoneHolding(q) => ~Overlap(Slot(r)', Slot(q))
  PROVE  IInv'
<1>1. \A u \in Requests \ {r} : /\ Target(u)' = Target(u) /\ Slot(u)' = Slot(u)
                                 /\ Busy(u)' = Busy(u) /\ DoneHolding(u)' = DoneHolding(u)
  BY DEF Target, Slot, Busy, DoneHolding
<1>2. ASSUME NEW u \in Requests \ {r}
      PROVE  LocksKept(u)' /\ Staged(u)' /\ RowKept(u)' /\ Unrivalled(u)'
  <2>1. LocksKept(u) /\ Staged(u) /\ RowKept(u) /\ Unrivalled(u)
    BY DEF IInv, Sessions
  <2>2. Target(u) \in Bookings \cup {NoBooking} /\ flipped[u] \subseteq Bookings
    BY PlanTypes DEF IInv
  <2>3. LocksKept(u)'
    BY <1>1, <2>1, <2>2, LocksStay
  <2>4. Staged(u)'
    BY <1>1, <2>1 DEF Staged
  <2>5. RowKept(u)'
    BY <1>1, <2>1 DEF RowKept
  <2>6. Unrivalled(u)'
    BY <1>1, <2>1 DEF Unrivalled, Rival
  <2> QED  BY <2>3, <2>4, <2>5, <2>6
<1>3. Sessions'
  BY <1>2 DEF Sessions
<1>4. \A u, q \in Requests : u # q => Apart(u, q)'
  BY <1>1 DEF IInv, Apart, Overlap
<1>5. MoneyRows' /\ SlotHeldOnce' /\ PaidNeverLapses'
  BY DEF IInv, MoneyRows, SlotHeldOnce, PaidNeverLapses
<1> QED  BY <1>3, <1>4, <1>5 DEF IInv

\* A request that ends and writes no row leaves the rows as they are.
LEMMA CloseInv ==
  ASSUME IInv, NEW r \in Requests, Close(r), now' = now, row' = row, blocked' = blocked,
         payable' = payable, due' \subseteq due
  PROVE  IInv'
<1> USE DEF Close
<1>1. TypeOK'
  BY NoPlanType DEF IInv, TypeOK, Phases
<1>2. /\ phase'[r] = "idle" /\ flipped'[r] = {} /\ wrote'[r] = "" /\ plan'[r] = NoPlan
      /\ \A u \in Requests \ {r} :
           /\ phase'[u] = phase[u] /\ plan'[u] = plan[u]
           /\ flipped'[u] = flipped[u] /\ wrote'[u] = wrote[u]
           /\ \A c \in Bookings : lock[c] = u => lock'[c] = u
  BY DEF IInv, TypeOK
<1>3. NoPlan.kind = "sweep" /\ NoPlan.target = NoBooking /\ NoPlan.want = "none"
  BY DEF NoPlan
<1>4. LocksKept(r)' /\ Staged(r)' /\ RowKept(r)' /\ Unrivalled(r)' /\ ~DoneHolding(r)'
  BY <1>2, <1>3 DEF LocksKept, Staged, RowKept, Unrivalled, DoneHolding, Busy, OnRow, Target
<1> QED  BY <1>1, <1>2, <1>4, SessionStep

\* A request that is rolled back leaves no trace but the locks it frees.
LEMMA RollbackInv == ASSUME IInv, NEW r \in Requests, Rollback(r) PROVE IInv'
  BY CloseInv DEF Rollback, rows

-----------------------------------------------------------------------------
(* A request begins.                                                       *)

\* A request begins with a plan its row allows; a new row it has to itself.
LEMMA StartInv ==
  ASSUME IInv, NEW r \in Requests, NEW kind \in Kinds, NEW b \in Bookings \cup {NoBooking},
         NEW s \in Slots \cup {{}}, NEW want \in Statuses, NEW first \in {"lock", "expire"},
         Start(r, kind, b, s, want, first),
         lock' \in [Bookings -> Requests \cup {NoRequest}],
         \A c \in Bookings, u \in Requests : lock[c] = u => lock'[c] = u,
         IF b = NoBooking THEN kind \in {"block", "sweep"}
         ELSE IF first = "expire"
         THEN kind = "create" /\ row[b].status = "none" /\ lock'[b] = r /\ want \in HoldsSlot
         ELSE kind \in OnRow /\ row[b].status # "none" /\ s = row[b].slot /\ want \in Writes,
         b = NoBooking => first = "expire",
         kind = "block" => s \in Slots,
         kind = "pay" => want = "confirmed",
         kind = "cancel" => want = "cancelled",
         want = "pending" => kind \in {"create", "resume"}
  PROVE  IInv'
<1> DEFINE P == [kind |-> kind, target |-> b, slot |-> s, want |-> want, at |-> now]
<1>1. P \in Plan
  BY DEF Plan, IInv, TypeOK
<1>2. /\ P.kind = kind /\ P.target = b /\ P.slot = s /\ P.want = want
  OBVIOUS
<1> HIDE DEF P
<1>3. /\ phase[r] = "idle"
      /\ phase' = [phase EXCEPT ![r] = first] /\ plan' = [plan EXCEPT ![r] = P]
      /\ now' = now /\ row' = row /\ blocked' = blocked /\ payable' = payable /\ due' = due
      /\ stale' = stale /\ flipped' = flipped /\ wrote' = wrote
  BY DEF Start, rows, P
<1>4. TypeOK'
  BY <1>1, <1>3 DEF IInv, TypeOK, Phases
<1>5. /\ phase'[r] = first /\ plan'[r] = P
      /\ flipped'[r] = {} /\ wrote'[r] = ""
      /\ \A u \in Requests \ {r} :
           /\ phase'[u] = phase[u] /\ plan'[u] = plan[u]
           /\ flipped'[u] = flipped[u] /\ wrote'[u] = wrote[u]
  BY <1>3 DEF IInv, TypeOK, Sessions, Staged
<1>6. LocksKept(r)'
  BY <1>2, <1>5 DEF LocksKept, Busy, Target
<1>7. Staged(r)'
  BY <1>2, <1>5, NullsAreFresh DEF Staged, Target, Writes, HoldsSlot, OnRow
<1>8. RowKept(r)'
  BY <1>2, <1>3, <1>5 DEF RowKept, Target, Slot, Busy, OnRow
<1>9. ~DoneHolding(r)' /\ Unrivalled(r)'
  BY <1>5 DEF Unrivalled, DoneHolding
<1>10. /\ payable' \subseteq payable /\ due' \subseteq due /\ row' = row
       /\ \A u \in Requests \ {r} :
           /\ phase'[u] = phase[u] /\ plan'[u] = plan[u]
           /\ flipped'[u] = flipped[u] /\ wrote'[u] = wrote[u]
           /\ \A c \in Bookings : lock[c] = u => lock'[c] = u
  BY <1>3, <1>5
<1>11. \A q \in Requests \ {r} :
         DoneHolding(r)' /\ DoneHolding(q) => ~Overlap(Slot(r)', Slot(q))
  BY <1>9
<1> HIDE DEF Start, IInv
<1> QED  BY <1>4, <1>6, <1>7, <1>8, <1>9, <1>10, <1>11, SessionStep

\* Every way a request begins is one of those.
LEMMA BeginInv == ASSUME IInv, NEW r \in Requests, Begin(r) PROVE IInv'
<1> USE DEF Kinds, Statuses, OnRow, Writes, HoldsSlot
<1>0. lock \in [Bookings -> Requests \cup {NoRequest}]
  BY DEF IInv, TypeOK
<1>1. CASE BeginCreate(r)
  <2> PICK b \in Bookings, s \in Slots, want \in HoldsSlot :
        /\ row[b].status = "none" /\ lock[b] = NoRequest
        /\ Start(r, "create", b, s, want, "expire")
        /\ lock' = [lock EXCEPT ![b] = r]
    BY <1>1 DEF BeginCreate
  <2>1. /\ lock' \in [Bookings -> Requests \cup {NoRequest}] /\ lock'[b] = r
        /\ \A c \in Bookings, u \in Requests : lock[c] = u => lock'[c] = u
    BY <1>0, NullsAreFresh
  <2> QED  BY <2>1, NullsAreFresh, StartInv
<1>2. CASE BeginOnRow(r)
  <2> PICK b \in Bookings :
        /\ row[b].status # "none"
        /\ \/ Start(r, "resume", b, row[b].slot, "pending", "lock")
           \/ Start(r, "revive", b, row[b].slot, "confirmed", "lock")
           \/ Start(r, "cancel", b, row[b].slot, "cancelled", "lock")
        /\ UNCHANGED lock
    BY <1>2 DEF BeginOnRow
  <2>1. row[b].slot \in Slots \cup {{}}
    BY RowTypes DEF IInv
  <2> QED  BY <1>0, <2>1, NullsAreFresh, StartInv
<1>3. CASE BeginBlock(r)
  BY <1>0, <1>3, NullsAreFresh, SlotsAreIntervals, StartInv DEF BeginBlock
<1>4. CASE BeginSweep(r)
  BY <1>0, <1>4, NullsAreFresh, StartInv DEF BeginSweep
<1> QED  BY <1>1, <1>2, <1>3, <1>4 DEF Begin

\* A webhook's payment is of a row that exists.
LEMMA BeginPaymentInv == ASSUME IInv, BeginPayment PROVE IInv'
<1> PICK b \in due : Start(Hook, "pay", b, row[b].slot, "confirmed", "lock") /\ UNCHANGED lock
  BY DEF BeginPayment
<1>1. /\ b \in Bookings /\ row[b].status # "none"
      /\ lock \in [Bookings -> Requests \cup {NoRequest}]
  BY DEF IInv, TypeOK, MoneyRows
<1>2. row[b].slot \in Slots \cup {{}}
  BY <1>1, RowTypes DEF IInv
<1> QED  BY <1>1, <1>2, HookIsARequest, NullsAreFresh, StartInv DEF Kinds, Statuses, OnRow, Writes

-----------------------------------------------------------------------------
(* Its row is locked.                                                      *)

\* A request that has waited is about one row, which is not new.
LEMMA WaitsOnRow == ASSUME IInv, NEW r \in Requests, phase[r] = "lock"
  PROVE  /\ Target(r) \in Bookings /\ plan[r].kind \in OnRow /\ plan[r].want \in Writes
         /\ row[Target(r)].status # "none" /\ Slot(r) = row[Target(r)].slot
         /\ flipped[r] = {}
<1>1. Staged(r) /\ RowKept(r)
  BY DEF IInv, Sessions
<1>2. Target(r) \in Bookings \cup {NoBooking} /\ plan[r].kind \in Kinds
  BY PlanTypes DEF IInv
<1> QED  BY <1>1, <1>2 DEF Staged, RowKept, OnRow, Kinds

\* The lock of its row is granted.  If it writes at once, and for a slot, its
\* row holds that slot: so nobody else does.
LEMMA GoOnInv ==
  ASSUME IInv, NEW r \in Requests, Acquire(r), NEW next \in {"expire", "done"},
         NEW status \in Statuses \cup {""}, GoOn(r, next, status),
         status = IF next = "done" THEN plan[r].want ELSE "",
         plan[r].kind = "resume" => ~row[Target(r)].paid,
         status \in HoldsSlot => row[Target(r)].status \in HoldsSlot
  PROVE  IInv'
<1> DEFINE b == Target(r)
<1>1. /\ phase[r] = "lock" /\ lock[b] = NoRequest
      /\ b \in Bookings /\ plan[r].kind \in OnRow /\ plan[r].want \in Writes
      /\ row[b].status # "none" /\ Slot(r) = row[b].slot /\ flipped[r] = {}
  BY WaitsOnRow DEF Acquire
<1>2. /\ lock' = [lock EXCEPT ![b] = r] /\ phase' = [phase EXCEPT ![r] = next]
      /\ wrote' = [wrote EXCEPT ![r] = status]
      /\ now' = now /\ row' = row /\ blocked' = blocked /\ payable' = payable /\ due' = due
      /\ plan' = plan /\ stale' = stale /\ flipped' = flipped
  BY DEF GoOn, rows
<1>3. b' = b /\ Slot(r)' = Slot(r)
  BY <1>2 DEF Target, Slot
<1> HIDE DEF b
<1>4. TypeOK'
  BY <1>1, <1>2 DEF IInv, TypeOK, Phases
<1>5. /\ phase'[r] = next /\ wrote'[r] = status /\ lock'[b] = r
      /\ \A u \in Requests \ {r} :
           /\ phase'[u] = phase[u] /\ plan'[u] = plan[u]
           /\ flipped'[u] = flipped[u] /\ wrote'[u] = wrote[u]
           /\ \A c \in Bookings : lock[c] = u => lock'[c] = u
  BY <1>1, <1>2, NullsAreFresh DEF IInv, TypeOK
<1>6. Staged(r) /\ RowKept(r)
  BY DEF IInv, Sessions
<1>7. LocksKept(r)'
  BY <1>1, <1>2, <1>3, <1>5 DEF LocksKept, b
<1>8. Staged(r)'
  BY <1>1, <1>2, <1>3, <1>5, <1>6 DEF Staged, OnRow, b
<1>9. RowKept(r)'
  BY <1>1, <1>2, <1>3, <1>5, <1>6 DEF RowKept, b
<1>10. DoneHolding(r)' => row[b].status \in HoldsSlot
  BY <1>5 DEF DoneHolding, b
<1>11. Unrivalled(r)'
  <2> SUFFICES ASSUME DoneHolding(r)', NEW c \in Bookings, Rival(r, c)' PROVE FALSE
    BY DEF Unrivalled
  <2>1. c # b /\ row[c].status \in HoldsSlot /\ Overlap(row[c].slot, row[b].slot)
    BY <1>1, <1>2, <1>3 DEF Rival, b
  <2> QED  BY <1>1, <1>10, <2>1 DEF IInv, SlotHeldOnce
<1>12. ASSUME NEW q \in Requests \ {r}, DoneHolding(r)', DoneHolding(q)
       PROVE  ~Overlap(Slot(r)', Slot(q))
  <2>1. LocksKept(q) /\ Staged(q) /\ Unrivalled(q)
    BY DEF IInv, Sessions
  <2>2. Target(q) # b
    BY <1>1, <1>12, <2>1, NullsAreFresh DEF LocksKept, Busy, DoneHolding
  <2>3. b \notin flipped[q]
    BY <1>1, <2>1, NullsAreFresh DEF LocksKept
  <2>4. ~Rival(q, b)
    BY <1>1, <1>12, <2>1 DEF Unrivalled
  <2> QED  BY <1>1, <1>3, <1>10, <1>12, <2>2, <2>3, <2>4 DEF Rival, Overlap
<1> HIDE DEF IInv
<1>13. payable' \subseteq payable /\ due' \subseteq due /\ row' = row
  BY <1>2
<1> QED  BY <1>4, <1>5, <1>7, <1>8, <1>9, <1>11, <1>12, <1>13, SessionStep

\* A hold to be taken again, as it is once it is locked.
LEMMA LockToRetakeInv == ASSUME IInv, NEW r \in Requests, LockToRetake(r) PROVE IInv'
<1>1. CASE Rollback(r)
  BY <1>1, RollbackInv
<1>2. CASE /\ GoOn(r, "expire", "")
           /\ plan[r].kind = "resume" =>
                row[Target(r)].status = "expired" \/ Lapsed(Target(r), plan[r].at)
  <2>1. Acquire(r)
    BY DEF LockToRetake
  <2>2. Target(r) \in Bookings
    BY <2>1, WaitsOnRow DEF Acquire
  <2>3. plan[r].kind = "resume" => ~row[Target(r)].paid
    BY <1>2, <2>2 DEF Lapsed, IInv, PaidNeverLapses
  <2> QED  BY <1>2, <2>1, <2>3, GoOnInv DEF HoldsSlot
<1> QED  BY <1>1, <1>2 DEF LockToRetake

\* A cancellation writes no slot.
LEMMA LockToCancelInv == ASSUME IInv, NEW r \in Requests, LockToCancel(r) PROVE IInv'
<1>1. CASE Rollback(r)
  BY <1>1, RollbackInv
<1>2. CASE GoOn(r, "done", "cancelled")
  <2>1. Acquire(r) /\ plan[r].kind = "cancel"
    BY DEF LockToCancel
  <2>2. plan[r].want = "cancelled"
    BY <2>1 DEF IInv, Sessions, Staged
  <2> QED  BY <1>2, <2>1, <2>2, GoOnInv DEF HoldsSlot, Statuses
<1> QED  BY <1>1, <1>2 DEF LockToCancel

\* A payment that is told already, in time, or late.
LEMMA LockToPayInv == ASSUME IInv, NEW r \in Requests, LockToPay(r) PROVE IInv'
<1> DEFINE b == Target(r)
<1>1. Acquire(r) /\ plan[r].kind = "pay" /\ plan[r].want = "confirmed"
  BY DEF LockToPay, IInv, Sessions, Staged
<1>2. CASE due' = due \ {b} /\ Close(r) /\ UNCHANGED <<now, row, blocked, payable>>
  BY <1>2, CloseInv
<1>3. CASE Holds(b, plan[r].at) /\ GoOn(r, "done", "confirmed")
  BY <1>1, <1>3, GoOnInv DEF Holds, Statuses
<1>4. CASE GoOn(r, "expire", "")
  BY <1>1, <1>4, GoOnInv DEF HoldsSlot
<1> QED  BY <1>2, <1>3, <1>4 DEF LockToPay

-----------------------------------------------------------------------------
(* It works on.                                                            *)

\* A request with its row locked goes on to another phase, and may decide what
\* it writes; if it is done, it has answered for its slot.
LEMMA WorkInv ==
  ASSUME IInv, NEW r \in Requests, Busy(r),
         NEW next \in {"flip", "blocks", "exclude", "done"}, NEW status \in Statuses \cup {""},
         phase' = [phase EXCEPT ![r] = next], wrote' = [wrote EXCEPT ![r] = status],
         now' = now, row' = row, blocked' = blocked, payable' \subseteq payable, due' = due,
         lock' = lock, plan' = plan, flipped' = flipped,
         stale' \in [Requests -> SUBSET Bookings],
         plan[r].kind = "sweep" => next = "flip",
         plan[r].kind = "block" => next \in {"flip", "blocks"},
         IF next \in {"exclude", "done"}
         THEN status = plan[r].want \/ (status = "paid_unfulfilled" /\ next = "done")
         ELSE status = "",
         next = "done" /\ status \in HoldsSlot =>
           /\ \A c \in Bookings : ~Rival(r, c)
           /\ \A q \in Requests \ {r} : DoneHolding(q) => ~Overlap(Slot(r), Slot(q))
  PROVE  IInv'
<1>1. TypeOK'
  BY DEF IInv, TypeOK, Phases
<1>2. /\ phase'[r] = next /\ wrote'[r] = status
      /\ \A u \in Requests \ {r} :
           /\ phase'[u] = phase[u] /\ plan'[u] = plan[u]
           /\ flipped'[u] = flipped[u] /\ wrote'[u] = wrote[u]
           /\ \A c \in Bookings : lock[c] = u => lock'[c] = u
  BY DEF IInv, TypeOK
<1>3. Target(r)' = Target(r) /\ Slot(r)' = Slot(r)
  BY DEF Target, Slot
<1>4. LocksKept(r) /\ Staged(r) /\ RowKept(r)
  BY DEF IInv, Sessions
<1>5. LocksKept(r)'
  BY <1>2, <1>3, <1>4 DEF LocksKept
<1>6. Staged(r)'
  BY <1>2, <1>3, <1>4 DEF Staged, Busy
<1>7. RowKept(r)'
  BY <1>2, <1>3, <1>4 DEF RowKept
<1>8. DoneHolding(r)' => next = "done" /\ status \in HoldsSlot
  BY <1>2 DEF DoneHolding
<1>9. Unrivalled(r)'
  BY <1>3, <1>8 DEF Unrivalled, Rival
<1>10. \A q \in Requests \ {r} :
         DoneHolding(r)' /\ DoneHolding(q) => ~Overlap(Slot(r)', Slot(q))
  BY <1>3, <1>8
<1>11. due' \subseteq due
  OBVIOUS
<1> HIDE DEF IInv
<1> QED  BY <1>1, <1>2, <1>5, <1>6, <1>7, <1>9, <1>10, <1>11, SessionStep

\* A refusal: the end of the request, or a payment's booking left unfulfilled.
LEMMA RefuseInv == ASSUME IInv, NEW r \in Requests, Busy(r), Refuse(r) PROVE IInv'
<1>1. CASE plan[r].kind = "pay"
  <2>1. /\ wrote' = [wrote EXCEPT ![r] = "paid_unfulfilled"]
        /\ phase' = [phase EXCEPT ![r] = "done"]
        /\ now' = now /\ row' = row /\ blocked' = blocked /\ payable' = payable /\ due' = due
        /\ lock' = lock /\ plan' = plan /\ stale' = stale /\ flipped' = flipped
    BY <1>1 DEF Refuse, rows
  <2>2. stale' \in [Requests -> SUBSET Bookings] /\ payable' \subseteq payable
    BY <2>1 DEF IInv, TypeOK
  <2> HIDE DEF IInv, Refuse
  <2> QED  BY <1>1, <2>1, <2>2, WorkInv DEF Statuses, HoldsSlot
<1>2. CASE plan[r].kind # "pay"
  BY <1>2, RollbackInv DEF Refuse
<1> QED  BY <1>1, <1>2

\* The snapshot of the UPDATE is taken.
LEMMA FindStaleInv == ASSUME IInv, NEW r \in Requests, FindStale(r) PROVE IInv'
<1> DEFINE S == {c \in Bookings : /\ Lapsed(c, plan[r].at)
                                  /\ plan[r].kind = "sweep" \/ Overlap(row[c].slot, Slot(r))}
<1>1. /\ phase[r] = "expire" /\ phase' = [phase EXCEPT ![r] = "flip"]
      /\ wrote' = wrote
      /\ now' = now /\ row' = row /\ blocked' = blocked /\ payable' = payable /\ due' = due
      /\ lock' = lock /\ plan' = plan /\ flipped' = flipped
  BY DEF FindStale, rows
<1>2. stale' = [stale EXCEPT ![r] = S] /\ S \subseteq Bookings
  BY Zenon DEF FindStale
<1> HIDE DEF S
<1>3. stale' \in [Requests -> SUBSET Bookings] /\ wrote \in [Requests -> Statuses \cup {""}]
  BY <1>1, <1>2 DEF IInv, TypeOK
<1>4. wrote[r] = "" /\ Busy(r)
  BY <1>1 DEF IInv, Sessions, Staged, Busy
<1>5. wrote' = [wrote EXCEPT ![r] = ""] /\ payable' \subseteq payable
  BY <1>1, <1>3, <1>4
<1> QED  BY <1>1, <1>3, <1>4, <1>5, WorkInv DEF HoldsSlot

\* A row that is flipped has lapsed, so it is unpaid, and is locked.
LEMMA FlipInv == ASSUME IInv, NEW r \in Requests, Flip(r) PROVE IInv'
<1> PICK c \in stale[r] :
      /\ Unlocked(r, c)
      /\ stale' = [stale EXCEPT ![r] = @ \ {c}]
      /\ IF StillLapsed(r, c)
         THEN /\ flipped' = [flipped EXCEPT ![r] = @ \cup {c}]
              /\ lock' = [lock EXCEPT ![c] = r]
         ELSE UNCHANGED <<flipped, lock>>
  BY DEF Flip
<1>1. /\ phase[r] = "flip" /\ phase' = phase /\ plan' = plan /\ wrote' = wrote
      /\ now' = now /\ row' = row /\ blocked' = blocked /\ payable' = payable /\ due' = due
  BY DEF Flip, rows
<1>2. c \in Bookings
  BY DEF IInv, TypeOK
<1>3. TypeOK'
  <2>1. stale' \in [Requests -> SUBSET Bookings]
    BY DEF IInv, TypeOK
  <2>2. /\ flipped' \in [Requests -> SUBSET Bookings]
        /\ lock' \in [Bookings -> Requests \cup {NoRequest}]
    <3>1. CASE StillLapsed(r, c)
      <4>1. /\ flipped' = [flipped EXCEPT ![r] = @ \cup {c}]
            /\ lock' = [lock EXCEPT ![c] = r]
        BY <3>1
      <4> QED  BY <1>2, <4>1 DEF IInv, TypeOK
    <3>2. CASE ~StillLapsed(r, c)
      BY <3>2 DEF IInv, TypeOK
    <3> QED  BY <3>1, <3>2
  <2> QED  BY <1>1, <2>1, <2>2 DEF IInv, TypeOK
<1>4. \A u \in Requests \ {r} :
        /\ flipped'[u] = flipped[u]
        /\ \A d \in Bookings : lock[d] = u => lock'[d] = u
  BY <1>2, NullsAreFresh DEF IInv, TypeOK, Unlocked
<1>5. \A d \in Bookings : lock[d] = r => lock'[d] = r
  BY <1>2 DEF IInv, TypeOK
<1>6. \A d \in flipped'[r] :
        d \in flipped[r] \/ (d = c /\ lock'[c] = r /\ Lapsed(c, plan[r].at))
  <2>1. CASE StillLapsed(r, c)
    <3>1. /\ flipped' = [flipped EXCEPT ![r] = @ \cup {c}]
          /\ lock' = [lock EXCEPT ![c] = r]
      BY <2>1
    <3> QED  BY <1>2, <2>1, <3>1 DEF IInv, TypeOK, StillLapsed
  <2>2. CASE ~StillLapsed(r, c)
    BY <2>2
  <2> QED  BY <2>1, <2>2
<1>7. LocksKept(r) /\ Staged(r) /\ RowKept(r)
  BY DEF IInv, Sessions
<1>8. Target(r)' = Target(r) /\ Slot(r)' = Slot(r)
  BY <1>1 DEF Target, Slot
<1>9. Target(r) \in Bookings \cup {NoBooking} /\ flipped[r] \subseteq Bookings
  BY PlanTypes DEF IInv
<1>10. LocksKept(r)'
  BY <1>1, <1>5, <1>6, <1>7, <1>8, <1>9 DEF LocksKept, Busy
<1>11. Staged(r)'
  BY <1>1, <1>7, <1>8 DEF Staged
<1>12. RowKept(r)'
  <2>1. Lapsed(c, plan[r].at) => ~row[c].paid
    BY <1>2 DEF Lapsed, IInv, PaidNeverLapses
  <2> QED  BY <1>1, <1>6, <1>7, <1>8, <2>1 DEF RowKept, Busy
<1>13. ~DoneHolding(r)' /\ Unrivalled(r)'
  BY <1>1 DEF Unrivalled, DoneHolding
<1>14. payable' \subseteq payable /\ due' \subseteq due
  BY <1>1
<1> HIDE DEF IInv
<1> QED  BY <1>1, <1>3, <1>4, <1>10, <1>11, <1>12, <1>13, <1>14, SessionStep

\* The slot looks free of bookings, or the request is refused.
LEMMA LookAtBookingsInv == ASSUME IInv, NEW r \in Requests, LookAtBookings(r) PROVE IInv'
<1>1. /\ phase[r] = "flip" /\ plan[r].kind # "sweep" /\ Busy(r)
      /\ Refuse(r) \/ /\ phase' = [phase EXCEPT ![r] = "blocks"]
                      /\ UNCHANGED <<rows, lock, plan, stale, flipped, wrote>>
  BY DEF LookAtBookings, FlippedAll, Busy
<1>2. CASE Refuse(r)
  BY <1>1, <1>2, RefuseInv
<1>3. CASE phase' = [phase EXCEPT ![r] = "blocks"]
             /\ UNCHANGED <<rows, lock, plan, stale, flipped, wrote>>
  <2>1. /\ now' = now /\ row' = row /\ blocked' = blocked /\ payable' = payable /\ due' = due
        /\ lock' = lock /\ plan' = plan /\ stale' = stale /\ flipped' = flipped /\ wrote' = wrote
    BY <1>3 DEF rows
  <2>2. wrote[r] = ""
    BY <1>1 DEF IInv, Sessions, Staged
  <2>3. /\ stale' \in [Requests -> SUBSET Bookings] /\ payable' \subseteq payable
        /\ wrote' = [wrote EXCEPT ![r] = ""]
    BY <2>1, <2>2 DEF IInv, TypeOK
  <2> HIDE DEF IInv
  <2> QED  BY <1>1, <1>3, <2>1, <2>3, WorkInv DEF HoldsSlot
<1> QED  BY <1>1, <1>2, <1>3

\* Free of blocks too, it decides what it writes.
LEMMA LookAtBlocksInv == ASSUME IInv, NEW r \in Requests, LookAtBlocks(r) PROVE IInv'
<1>1. /\ phase[r] = "blocks" /\ plan[r].kind # "block" /\ Busy(r)
  BY DEF LookAtBlocks, Busy
<1>2. CASE Refuse(r)
  BY <1>1, <1>2, RefuseInv
<1>3. CASE /\ phase' = [phase EXCEPT ![r] = "exclude"]
           /\ wrote' = [wrote EXCEPT ![r] = plan[r].want]
           /\ payable' \subseteq payable
           /\ UNCHANGED <<now, row, blocked, due, lock, plan, stale, flipped>>
  <2>1. stale' \in [Requests -> SUBSET Bookings] /\ plan[r].want \in Statuses
    BY <1>3, PlanTypes DEF IInv, TypeOK
  <2>2. plan[r].kind # "sweep"
    BY <1>1 DEF IInv, Sessions, Staged
  <2> HIDE DEF IInv
  <2> QED  BY <1>1, <1>3, <2>1, <2>2, WorkInv
<1> QED  BY <1>2, <1>3 DEF LookAtBlocks

\* The constraint lets it through: no committed row is in its way, or it would
\* have lost; no other request's is, or it would still wait.
LEMMA ExcludeInv == ASSUME IInv, NEW r \in Requests, Exclude(r) PROVE IInv'
<1>1. phase[r] = "exclude" /\ Busy(r)
  BY DEF Exclude, Busy
<1>2. CASE Rollback(r)
  BY <1>2, RollbackInv
<1>3. CASE /\ ~Lost(r) /\ AwaitedAt(r) = {}
           /\ phase' = [phase EXCEPT ![r] = "done"]
           /\ UNCHANGED <<rows, lock, plan, stale, flipped, wrote>>
  <2>1. /\ now' = now /\ row' = row /\ blocked' = blocked /\ payable' = payable /\ due' = due
        /\ lock' = lock /\ plan' = plan /\ stale' = stale /\ flipped' = flipped /\ wrote' = wrote
    BY <1>3 DEF rows
  <2>2. /\ wrote[r] = plan[r].want /\ plan[r].kind \notin {"sweep", "block"}
        /\ Target(r) # NoBooking /\ lock[Target(r)] = r
    BY <1>1 DEF IInv, Sessions, Staged, LocksKept
  <2>3. \A c \in Bookings : ~Rival(r, c)
    <3>1. \A q \in Requests \ {r}, c \in Bookings : ~(Rival(r, c) /\ Rewrites(q, c))
      BY <1>3 DEF AwaitedAt, Others
    <3> QED  BY <1>3, <3>1 DEF Lost, Others
  <2>4. ASSUME NEW q \in Requests \ {r}, DoneHolding(q) PROVE ~Overlap(Slot(r), Slot(q))
    <3>1. Target(q) # Target(r)
      BY <2>2, <2>4 DEF IInv, Sessions, LocksKept, DoneHolding, Busy
    <3>2. ~Overlap(Slot(q), Slot(r))
      BY <1>3, <2>4, <3>1 DEF AwaitedAt, Others, DoneHolding
    <3> QED  BY <3>2 DEF Overlap
  <2>5. /\ stale' \in [Requests -> SUBSET Bookings] /\ payable' \subseteq payable
        /\ wrote' = [wrote EXCEPT ![r] = plan[r].want] /\ plan[r].want \in Statuses
    BY <2>1, <2>2, PlanTypes DEF IInv, TypeOK
  <2> HIDE DEF IInv
  <2> QED  BY <1>1, <1>3, <2>1, <2>2, <2>3, <2>4, <2>5, WorkInv
<1> QED  BY <1>2, <1>3 DEF Exclude

\* The database ends a circle of waits.
LEMMA VictimInv == ASSUME IInv, NEW r \in Requests, Victim(r) PROVE IInv'
  BY RollbackInv DEF Victim

-----------------------------------------------------------------------------
(* It commits.                                                             *)

\* A hold's deadline is within Hold of the last instant.
LEMMA DeadlineTypes ==
  0 \in 0..Horizon + Hold /\ \A t \in 1..Horizon : t + Hold \in 0..Horizon + Hold
<1>1. Horizon \in Nat /\ Hold \in Nat
  BY TimesArePositive
<1>2. 0 \in 0..Horizon + Hold
  BY <1>1
<1>3. \A t \in 1..Horizon : t + Hold \in 0..Horizon + Hold
  BY <1>1
<1> QED  BY <1>2, <1>3

\* What a request leaves of its own row.
LEMMA OwnRow ==
  ASSUME IInv, NEW r \in Requests, NEW b \in Bookings, wrote[r] # "", b = Target(r)
  PROVE  \E d \in 0..Horizon + Hold :
           RowAfter(r, b) = [status |-> wrote[r], slot |-> Slot(r), deadline |-> d,
                             paid |-> row[b].paid \/ plan[r].kind = "pay"]
<1> DEFINE d == CASE wrote[r] = "pending"   -> NewDeadline(r, b)
                  [] wrote[r] = "cancelled" -> row[b].deadline
                  [] OTHER                  -> Never
<1>1. plan[r].at \in 1..Horizon
  BY PlanTypes DEF IInv
<1>2. row[b].deadline \in 0..Horizon + Hold
  BY RowTypes DEF IInv
<1>3. RowAfter(r, b) = [status |-> wrote[r], slot |-> Slot(r), deadline |-> d,
                        paid |-> row[b].paid \/ plan[r].kind = "pay"]
  BY DEF RowAfter
<1>4. d \in 0..Horizon + Hold
  <2>1. CASE wrote[r] = "pending"
    <3>1. d = plan[r].at + Hold
      BY <2>1 DEF NewDeadline
    <3>2. plan[r].at + Hold \in 0..Horizon + Hold
      BY <1>1, DeadlineTypes
    <3> HIDE DEF d
    <3> QED  BY <3>1, <3>2
  <2>2. CASE wrote[r] = "cancelled"
    <3>1. d = row[b].deadline
      BY <2>2
    <3> HIDE DEF d
    <3> QED  BY <1>2, <3>1
  <2>3. CASE wrote[r] \notin {"pending", "cancelled"}
    <3>1. d = 0
      BY <2>3 DEF Never
    <3>2. 0 \in 0..Horizon + Hold
      BY DeadlineTypes
    <3> HIDE DEF d
    <3> QED  BY <3>1, <3>2
  <2> QED  BY <2>1, <2>2, <2>3
<1> HIDE DEF d
<1> QED  BY <1>3, <1>4

\* A row made of its columns.
LEMMA RowOfColumns ==
  ASSUME NEW st \in Statuses, NEW sl \in Slots \cup {{}}, NEW d \in 0..Horizon + Hold,
         NEW p \in BOOLEAN
  PROVE  [status |-> st, slot |-> sl, deadline |-> d, paid |-> p]
           \in [status : Statuses, slot : Slots \cup {{}},
                deadline : 0..Horizon + Hold, paid : BOOLEAN]
  OBVIOUS

\* What it leaves of every row.
LEMMA RowAfterShape ==
  ASSUME IInv, NEW r \in Requests, NEW b \in Bookings
  PROVE  /\ RowAfter(r, b) \in [status : Statuses, slot : Slots \cup {{}},
                                deadline : 0..Horizon + Hold, paid : BOOLEAN]
         /\ wrote[r] # "" /\ b = Target(r) =>
              /\ RowAfter(r, b).status = wrote[r] /\ RowAfter(r, b).slot = Slot(r)
              /\ RowAfter(r, b).paid = (row[b].paid \/ plan[r].kind = "pay")
         /\ ~(wrote[r] # "" /\ b = Target(r)) /\ b \in flipped[r] =>
              /\ RowAfter(r, b).status = "expired" /\ RowAfter(r, b).slot = row[b].slot
              /\ RowAfter(r, b).paid = row[b].paid
         /\ ~(wrote[r] # "" /\ b = Target(r)) /\ b \notin flipped[r] =>
              RowAfter(r, b) = row[b]
<1>1. Slot(r) \in Slots \cup {{}} /\ wrote[r] \in Statuses \cup {""}
  BY PlanTypes DEF IInv
<1>2. row[b] \in [status : Statuses, slot : Slots \cup {{}},
                  deadline : 0..Horizon + Hold, paid : BOOLEAN]
  <2>1. row \in [Bookings -> [status : Statuses, slot : Slots \cup {{}},
                              deadline : 0..Horizon + Hold, paid : BOOLEAN]]
    BY DEF IInv, TypeOK
  <2> HIDE DEF IInv
  <2> QED  BY <2>1
<1>3. CASE wrote[r] # "" /\ b = Target(r)
  <2> DEFINE p == row[b].paid \/ plan[r].kind = "pay"
  <2>1. PICK d \in 0..Horizon + Hold :
          RowAfter(r, b) = [status |-> wrote[r], slot |-> Slot(r), deadline |-> d, paid |-> p]
    BY <1>3, OwnRow
  <2>2. p \in BOOLEAN /\ wrote[r] \in Statuses
    BY <1>1, <1>3
  <2> HIDE DEF p, IInv
  <2>3. RowAfter(r, b) \in [status : Statuses, slot : Slots \cup {{}},
                            deadline : 0..Horizon + Hold, paid : BOOLEAN]
    <3>1. [status |-> wrote[r], slot |-> Slot(r), deadline |-> d, paid |-> p]
            \in [status : Statuses, slot : Slots \cup {{}},
                 deadline : 0..Horizon + Hold, paid : BOOLEAN]
      BY <1>1, <2>2, RowOfColumns
    <3> QED  BY <2>1, <3>1
  <2>4. /\ RowAfter(r, b).status = wrote[r] /\ RowAfter(r, b).slot = Slot(r)
        /\ RowAfter(r, b).paid = p
    BY <2>1
  <2> QED  BY <1>3, <2>3, <2>4 DEF p
<1>4. CASE ~(wrote[r] # "" /\ b = Target(r)) /\ b \in flipped[r]
  <2>1. RowAfter(r, b) = [row[b] EXCEPT !.status = "expired"]
    BY <1>4 DEF RowAfter
  <2> HIDE DEF IInv
  <2>2. /\ RowAfter(r, b) \in [status : Statuses, slot : Slots \cup {{}},
                               deadline : 0..Horizon + Hold, paid : BOOLEAN]
        /\ RowAfter(r, b).status = "expired" /\ RowAfter(r, b).slot = row[b].slot
        /\ RowAfter(r, b).paid = row[b].paid
    BY <1>2, <2>1 DEF Statuses
  <2> QED  BY <1>4, <2>2
<1>5. CASE ~(wrote[r] # "" /\ b = Target(r)) /\ b \notin flipped[r]
  <2>1. RowAfter(r, b) = row[b]
    BY <1>5 DEF RowAfter
  <2> HIDE DEF IInv
  <2> QED  BY <1>2, <1>5, <2>1
<1> QED  BY <1>3, <1>4, <1>5

\* The rows a request writes when it commits are its own: it holds their locks,
\* and what it makes of them its checks allow.
LEMMA WriteInv ==
  ASSUME IInv, NEW r \in Requests, Busy(r), phase[r] = "done" \/ wrote[r] = "",
         row' = [b \in Bookings |-> RowAfter(r, b)], Close(r), now' = now,
         blocked' \subseteq Slots, due' \subseteq due,
         payable' = IF wrote[r] = "pending" THEN payable \cup {Target(r)} ELSE payable
  PROVE  IInv'
<1> DEFINE Own(b) == wrote[r] # "" /\ b = Target(r)
<1>1. /\ Target(r) \in Bookings \cup {NoBooking} /\ plan[r].kind \in Kinds
      /\ flipped[r] \subseteq Bookings
  BY PlanTypes DEF IInv
<1>2. LocksKept(r) /\ Staged(r) /\ RowKept(r) /\ Unrivalled(r)
  BY DEF IInv, Sessions
<1>3. ASSUME wrote[r] # ""
      PROVE  /\ phase[r] = "done" /\ Target(r) \in Bookings /\ lock[Target(r)] = r
             /\ wrote[r] \in Writes \cup {"paid_unfulfilled"}
             /\ plan[r].kind \in OnRow \cup {"create"}
             /\ wrote[r] = "pending" => ~row[Target(r)].paid /\ plan[r].kind # "pay"
  <2>1. phase[r] = "done" /\ plan[r].kind \notin {"block", "sweep"}
    BY <1>2, <1>3 DEF Staged
  <2>2. Target(r) \in Bookings /\ lock[Target(r)] = r
    BY <1>1, <1>2, <2>1 DEF Staged, LocksKept, Busy
  <2>3. wrote[r] \in Writes \cup {"paid_unfulfilled"}
    BY <1>2, <2>1 DEF Staged
  <2>4. plan[r].kind \in OnRow \cup {"create"}
    BY <1>1, <2>1 DEF Kinds, OnRow
  <2>5. wrote[r] = "pending" => plan[r].kind \in {"create", "resume"}
    BY <1>2, <2>1 DEF Staged
  <2>6. plan[r].kind \in {"create", "resume"} => ~row[Target(r)].paid
    BY <1>2, <2>2 DEF RowKept, IInv, MoneyRows
  <2> QED  BY <2>1, <2>2, <2>3, <2>4, <2>5, <2>6
<1>4. \A c \in flipped[r] : lock[c] = r /\ ~row[c].paid
  BY <1>2 DEF LocksKept, RowKept
<1>5. ASSUME NEW b \in Bookings
      PROVE  /\ row'[b] \in [status : Statuses, slot : Slots \cup {{}},
                             deadline : 0..Horizon + Hold, paid : BOOLEAN]
             /\ Own(b) => /\ row'[b].status = wrote[r] /\ row'[b].slot = Slot(r)
                          /\ row'[b].paid = (row[b].paid \/ plan[r].kind = "pay")
             /\ ~Own(b) /\ b \in flipped[r] =>
                  /\ row'[b].status = "expired" /\ row'[b].slot = row[b].slot
                  /\ row'[b].paid = row[b].paid
             /\ ~Own(b) /\ b \notin flipped[r] => row'[b] = row[b]
  <2>1. row'[b] = RowAfter(r, b)
    OBVIOUS
  <2> HIDE DEF IInv
  <2> QED  BY <2>1, RowAfterShape
<1>6. /\ phase'[r] = "idle" /\ flipped'[r] = {} /\ wrote'[r] = "" /\ plan'[r] = NoPlan
      /\ \A u \in Requests \ {r} :
           /\ phase'[u] = phase[u] /\ plan'[u] = plan[u]
           /\ flipped'[u] = flipped[u] /\ wrote'[u] = wrote[u]
           /\ \A c \in Bookings : lock[c] = u => lock'[c] = u
  BY DEF Close, IInv, TypeOK
<1>7. TypeOK'
  <2>1. row' \in [Bookings -> [status : Statuses, slot : Slots \cup {{}},
                               deadline : 0..Horizon + Hold, paid : BOOLEAN]]
    BY <1>5
  <2>2. payable' \subseteq Bookings /\ due' \subseteq Bookings
    BY <1>3 DEF IInv, TypeOK
  <2>3. /\ lock' \in [Bookings -> Requests \cup {NoRequest}]
        /\ phase' \in [Requests -> Phases]
        /\ stale' \in [Requests -> SUBSET Bookings]
        /\ flipped' \in [Requests -> SUBSET Bookings]
        /\ wrote' \in [Requests -> Statuses \cup {""}]
        /\ plan' \in [Requests -> Plan]
    BY NoPlanType DEF Close, IInv, TypeOK, Phases
  <2>4. now' \in 1..Horizon
    BY DEF IInv, TypeOK
  <2> QED  BY <2>1, <2>2, <2>3, <2>4 DEF TypeOK
<1> HIDE DEF Own
<1>8. \A b \in Bookings, u \in Requests \ {r} : lock[b] = u => row'[b] = row[b]
  BY <1>3, <1>4, <1>5 DEF Own
<1>9. MoneyRows'
  <2> SUFFICES ASSUME NEW b \in Bookings, row'[b].status = "none"
               PROVE  b \notin payable' \cup due' /\ ~row'[b].paid
    BY DEF MoneyRows
  <2>1. ~Own(b)
    BY <1>3, <1>5 DEF Own, Writes
  <2>2. row'[b] = row[b]
    BY <1>5, <2>1
  <2>3. b \notin payable \cup due /\ ~row[b].paid
    BY <2>2 DEF IInv, MoneyRows
  <2> QED  BY <2>1, <2>2, <2>3 DEF Own
<1>10. PaidNeverLapses'
  <2> SUFFICES ASSUME NEW b \in Bookings, row'[b].paid
               PROVE  row'[b].status \notin {"pending", "expired"}
    BY DEF PaidNeverLapses
  <2>1. CASE Own(b)
    BY <1>3, <1>5, <2>1 DEF Own, Writes
  <2>2. CASE ~Own(b)
    <3>1. b \notin flipped[r]
      BY <1>4, <1>5, <2>2
    <3>2. row'[b] = row[b]
      BY <1>5, <2>2, <3>1
    <3> QED  BY <3>2 DEF IInv, PaidNeverLapses
  <2> QED  BY <2>1, <2>2
<1>11. ASSUME NEW b \in Bookings, row'[b].status \in HoldsSlot
       PROVE  \/ Own(b) /\ DoneHolding(r) /\ row'[b].slot = Slot(r)
              \/ ~Own(b) /\ b \notin flipped[r] /\ row'[b] = row[b]
  BY <1>3, <1>5, <1>11 DEF Own, DoneHolding, HoldsSlot
<1>12. SlotHeldOnce'
  <2> SUFFICES ASSUME NEW b \in Bookings, NEW c \in Bookings, b # c,
                      row'[b].status \in HoldsSlot, row'[c].status \in HoldsSlot
               PROVE  row'[b].slot \cap row'[c].slot = {}
    BY DEF SlotHeldOnce, Overlap
  <2>1. ASSUME NEW x \in Bookings, NEW y \in Bookings, x # y, Own(x), DoneHolding(r),
               y \notin flipped[r], row[y].status \in HoldsSlot
        PROVE  row[y].slot \cap Slot(r) = {}
    BY <1>2, <2>1 DEF Unrivalled, Rival, Own, Overlap
  <2>2. CASE Own(b)
    <3>1. ~Own(c)
      BY <2>2 DEF Own
    <3>2. /\ DoneHolding(r) /\ row'[b].slot = Slot(r)
          /\ c \notin flipped[r] /\ row'[c] = row[c]
      BY <1>11, <2>2, <3>1
    <3> QED  BY <2>1, <2>2, <3>2
  <2>3. CASE Own(c)
    <3>1. ~Own(b)
      BY <2>3 DEF Own
    <3>2. /\ DoneHolding(r) /\ row'[c].slot = Slot(r)
          /\ b \notin flipped[r] /\ row'[b] = row[b]
      BY <1>11, <2>3, <3>1
    <3> QED  BY <2>1, <2>3, <3>2
  <2>4. CASE ~Own(b) /\ ~Own(c)
    <3>1. row'[b] = row[b] /\ row'[c] = row[c]
      BY <1>11, <2>4
    <3> QED  BY <3>1 DEF IInv, SlotHeldOnce, Overlap
  <2> QED  BY <2>2, <2>3, <2>4
<1>13. \A u \in Requests \ {r} : /\ Target(u)' = Target(u) /\ Slot(u)' = Slot(u)
                                 /\ Busy(u)' = Busy(u) /\ DoneHolding(u)' = DoneHolding(u)
  BY <1>6 DEF Target, Slot, Busy, DoneHolding
<1>14. ASSUME NEW u \in Requests \ {r}
       PROVE  LocksKept(u)' /\ Staged(u)' /\ RowKept(u)' /\ Unrivalled(u)'
  <2>1. LocksKept(u) /\ Staged(u) /\ RowKept(u) /\ Unrivalled(u)
    BY DEF IInv, Sessions
  <2>2. /\ Target(u) \in Bookings \cup {NoBooking} /\ flipped[u] \subseteq Bookings
        /\ phase'[u] = phase[u] /\ plan'[u] = plan[u]
        /\ flipped'[u] = flipped[u] /\ wrote'[u] = wrote[u]
    BY <1>6, PlanTypes DEF IInv
  <2>3. LocksKept(u)'
    <3>1. \A c \in Bookings : lock[c] = u => lock'[c] = u
      BY <1>6
    <3>2. Target(u)' = Target(u) /\ Busy(u)' = Busy(u)
      BY <1>13
    <3> QED  BY <2>1, <2>2, <3>1, <3>2, LocksStay
  <2>4. Staged(u)'
    BY <1>13, <2>1, <2>2 DEF Staged
  <2>5. Busy(u) /\ Target(u) # NoBooking => row'[Target(u)] = row[Target(u)]
    BY <1>8, <2>1, <2>2 DEF LocksKept
  <2>6. plan[u].kind = "create" => Busy(u) /\ Target(u) # NoBooking
    BY <2>1 DEF Staged, Busy
  <2>7. plan[u].kind \in OnRow => Target(u) \in Bookings
    BY <2>1, <2>2 DEF Staged, OnRow
  <2>8. ASSUME plan[u].kind \in OnRow
        PROVE  /\ row'[Target(u)].status # "none" /\ row'[Target(u)].slot = Slot(u)
    <3> DEFINE t == Target(u)
    <3>1. t \in Bookings /\ row[t].status # "none" /\ Slot(u) = row[t].slot
      BY <2>1, <2>7, <2>8 DEF RowKept
    <3>2. CASE Own(t)
      <4>1. row'[t].status = wrote[r] /\ row'[t].slot = Slot(r)
        BY <1>5, <3>1, <3>2
      <4>2. wrote[r] # "none" /\ plan[r].kind \in OnRow \cup {"create"}
        BY <1>3, <3>2 DEF Own, Writes
      <4>3. Slot(r) = row[t].slot
        BY <1>2, <3>1, <3>2, <4>2 DEF RowKept, Own
      <4> QED  BY <3>1, <4>1, <4>2, <4>3
    <3>3. CASE ~Own(t)
      BY <1>5, <3>1, <3>3
    <3> QED  BY <3>2, <3>3
  <2>9. \A c \in flipped[u] : row'[c] = row[c]
    BY <1>8, <2>1, <2>2 DEF LocksKept
  <2>10. RowKept(u)'
    <3>1. plan[u].kind = "create" => row'[Target(u)].status = "none"
      BY <2>1, <2>5, <2>6 DEF RowKept
    <3>2. plan[u].kind = "resume" /\ Busy(u) => ~row'[Target(u)].paid
      BY <2>1, <2>5, <2>7, NullsAreFresh DEF RowKept, OnRow
    <3>3. \A c \in flipped[u] : ~row'[c].paid
      BY <2>1, <2>9 DEF RowKept
    <3> QED  BY <1>13, <2>2, <2>8, <3>1, <3>2, <3>3 DEF RowKept
  <2>11. Unrivalled(u)'
    <3> SUFFICES ASSUME DoneHolding(u), NEW c \in Bookings, c # Target(u), c \notin flipped[u],
                        row'[c].status \in HoldsSlot
                 PROVE  row'[c].slot \cap Slot(u) = {}
      BY <1>13, <2>2 DEF Unrivalled, Rival, Overlap
    <3>1. CASE Own(c)
      <4>1. DoneHolding(r) /\ row'[c].slot = Slot(r)
        BY <1>11, <3>1
      <4>2. Apart(r, u)
        BY DEF IInv
      <4> QED  BY <4>1, <4>2 DEF Apart, Overlap
    <3>2. CASE ~Own(c)
      <4>1. row'[c] = row[c]
        BY <1>11, <3>2
      <4> QED  BY <2>1, <4>1 DEF Unrivalled, Rival, Overlap
    <3> QED  BY <3>1, <3>2
  <2> QED  BY <2>3, <2>4, <2>10, <2>11
<1>15. NoPlan.kind = "sweep" /\ NoPlan.target = NoBooking /\ NoPlan.want = "none"
  BY DEF NoPlan
<1>16. LocksKept(r)' /\ Staged(r)' /\ RowKept(r)' /\ Unrivalled(r)' /\ ~DoneHolding(r)'
  BY <1>6, <1>15 DEF LocksKept, Staged, RowKept, Unrivalled, DoneHolding, Busy, OnRow, Target
<1>17. Sessions'
  BY <1>14, <1>16 DEF Sessions
<1>18. \A u, q \in Requests : u # q => Apart(u, q)'
  BY <1>13, <1>16 DEF IInv, Apart, Overlap
<1> QED  BY <1>7, <1>9, <1>10, <1>12, <1>17, <1>18 DEF IInv

\* A booking's request, a payment's or a sweep commits.
LEMMA CommitInv == ASSUME IInv, NEW r \in Requests, Commit(r) PROVE IInv'
<1>1. /\ phase[r] = "done" \/ (plan[r].kind = "sweep" /\ phase[r] = "flip")
      /\ row' = [b \in Bookings |-> RowAfter(r, b)] /\ Close(r)
      /\ now' = now /\ blocked' = blocked /\ due' \subseteq due
      /\ payable' = IF wrote[r] = "pending" THEN payable \cup {Target(r)} ELSE payable
  BY DEF Commit, FlippedAll
<1>2. Busy(r) /\ (phase[r] = "done" \/ wrote[r] = "")
  BY <1>1 DEF Busy, IInv, Sessions, Staged
<1>3. blocked' \subseteq Slots
  BY <1>1 DEF IInv, TypeOK
<1> QED  BY <1>1, <1>2, <1>3, WriteInv

\* A block commits, and with it the lapsed holds it flipped.
LEMMA CommitBlockInv == ASSUME IInv, NEW r \in Requests, CommitBlock(r) PROVE IInv'
<1>1. CASE Rollback(r)
  BY <1>1, RollbackInv
<1>2. CASE ~Rollback(r)
  <2>1. /\ phase[r] = "blocks" /\ plan[r].kind = "block"
        /\ blocked' = blocked \cup {Slot(r)}
        /\ row' = [b \in Bookings |-> RowAfter(r, b)] /\ Close(r)
        /\ now' = now /\ payable' = payable /\ due' = due
    BY <1>2 DEF CommitBlock
  <2>2. Busy(r) /\ wrote[r] = "" /\ Slot(r) \in Slots
    BY <2>1 DEF Busy, IInv, Sessions, Staged, Slot
  <2>3. blocked' \subseteq Slots /\ due' \subseteq due
    BY <2>1, <2>2 DEF IInv, TypeOK
  <2>4. payable' = IF wrote[r] = "pending" THEN payable \cup {Target(r)} ELSE payable
    BY <2>1, <2>2
  <2> QED  BY <2>1, <2>2, <2>3, <2>4, WriteInv
<1> QED  BY <1>1, <1>2

-----------------------------------------------------------------------------
(* Every step.                                                             *)

\* A step in which no request takes part.
LEMMA OutsideInv ==
  ASSUME IInv, TypeOK', UNCHANGED <<row, lock, session>>,
         payable' \cup due' \subseteq payable \cup due
  PROVE  IInv'
<1>1. /\ row' = row /\ lock' = lock /\ phase' = phase /\ plan' = plan
      /\ flipped' = flipped /\ wrote' = wrote
  BY DEF session
<1>2. ASSUME NEW r \in Requests
      PROVE  LocksKept(r)' /\ Staged(r)' /\ RowKept(r)' /\ Unrivalled(r)'
  <2>1. LocksKept(r) /\ Staged(r) /\ RowKept(r) /\ Unrivalled(r)
    BY DEF IInv, Sessions
  <2>2. Target(r)' = Target(r) /\ Slot(r)' = Slot(r) /\ Busy(r)' = Busy(r)
    BY <1>1 DEF Target, Slot, Busy
  <2>3. LocksKept(r)' /\ RowKept(r)'
    BY <1>1, <2>1, <2>2 DEF LocksKept, RowKept
  <2>4. Staged(r)'
    BY <1>1, <2>1, <2>2 DEF Staged
  <2>5. Unrivalled(r)'
    BY <1>1, <2>1, <2>2 DEF Unrivalled, Rival, DoneHolding
  <2> QED  BY <2>3, <2>4, <2>5
<1>3. \A r, q \in Requests : r # q => Apart(r, q)'
  BY <1>1 DEF IInv, Apart, DoneHolding, Slot
<1>4. MoneyRows' /\ SlotHeldOnce' /\ PaidNeverLapses'
  BY <1>1 DEF IInv, MoneyRows, SlotHeldOnce, PaidNeverLapses
<1> QED  BY <1>2, <1>3, <1>4 DEF IInv, Sessions

\* The customer pays for a row that exists.
LEMMA PayAtProviderInv == ASSUME IInv, PayAtProvider PROVE IInv'
<1> PICK b \in payable : /\ payable' = payable \ {b} /\ due' = due \cup {b}
                         /\ UNCHANGED <<now, row, blocked, lock, session>>
  BY DEF PayAtProvider
<1>1. TypeOK'
  BY DEF IInv, TypeOK, session
<1> QED  BY <1>1, OutsideInv

\* Time passes.
LEMMA TickInv == ASSUME IInv, Tick PROVE IInv'
<1>1. now' \in 1..Horizon
  <2>1. now \in 1..Horizon /\ now < Horizon /\ now' = now + 1 /\ Horizon \in Nat
    BY TimesArePositive DEF Tick, IInv, TypeOK
  <2> QED  BY <2>1
<1>2. TypeOK'
  BY <1>1 DEF Tick, IInv, TypeOK, session
<1> QED  BY <1>2, OutsideInv DEF Tick

\* No step of any request breaks the invariant.
LEMMA NextInv == IInv /\ [Next]_vars => IInv'
<1> SUFFICES ASSUME IInv, [Next]_vars PROVE IInv'
  OBVIOUS
<1>1. ASSUME NEW r \in Requests \ {Hook}, Begin(r) \/ Abandon(r) PROVE IInv'
  BY <1>1, BeginInv, RollbackInv DEF Abandon
<1>2. ASSUME NEW r \in Requests, Work(r) PROVE IInv'
  <2>1. CASE LockToRetake(r)
    BY <2>1, LockToRetakeInv
  <2>2. CASE LockToCancel(r)
    BY <2>2, LockToCancelInv
  <2>3. CASE LockToPay(r)
    BY <2>3, LockToPayInv
  <2>4. CASE FindStale(r) \/ Flip(r)
    BY <2>4, FindStaleInv, FlipInv
  <2>5. CASE LookAtBookings(r) \/ LookAtBlocks(r)
    BY <2>5, LookAtBookingsInv, LookAtBlocksInv
  <2>6. CASE Exclude(r) \/ Victim(r)
    BY <2>6, ExcludeInv, VictimInv
  <2>7. CASE Commit(r) \/ CommitBlock(r)
    BY <2>7, CommitInv, CommitBlockInv
  <2> QED  BY <1>2, <2>1, <2>2, <2>3, <2>4, <2>5, <2>6, <2>7 DEF Work
<1>3. CASE BeginPayment \/ PayAtProvider \/ Tick
  BY <1>3, BeginPaymentInv, PayAtProviderInv, TickInv
<1>4. CASE UNCHANGED vars
  <2>1. UNCHANGED <<now, row, blocked, payable, due, lock, session>>
    BY <1>4 DEF vars, rows
  <2>2. TypeOK'
    BY <2>1 DEF IInv, TypeOK, session
  <2> QED  BY <2>1, <2>2, OutsideInv
<1> QED  BY <1>1, <1>2, <1>3, <1>4 DEF Next

\* The invariant of every behaviour, whatever the number of requests.
THEOREM Invariance == Spec => []IInv
  BY InitInv, NextInv, PTL DEF Spec

\* Every variable keeps its type: no request is left in a phase, or a row with
\* a deadline, that the handlers do not know.
THEOREM TypeCorrect == Spec => []TypeOK
<1>1. IInv => TypeOK
  BY DEF IInv
<1> QED  BY <1>1, Invariance, PTL

\* Of any number of requests that find a slot free at once, however their
\* statements interleave, die or are made victims, at most one ends holding it:
\* no two committed rows that hold a slot overlap.
THEOREM SlotsAreHeldOnce == Spec => []SlotHeldOnce
<1>1. IInv => SlotHeldOnce
  BY DEF IInv
<1> QED  BY <1>1, Invariance, PTL

\* A booking whose payment has landed is never flipped to expired by a request
\* that read it unpaid, nor put back to pending.
THEOREM MoneyNeverLapses == Spec => []PaidNeverLapses
<1>1. IInv => PaidNeverLapses
  BY DEF IInv
<1> QED  BY <1>1, Invariance, PTL

-----------------------------------------------------------------------------
(* Seen from outside: the calendar.                                        *)

\* What a request has flipped had lapsed when it looked, and still has: its
\* commit takes nobody's slot.
FlippedLapsed(r) == /\ plan[r].at <= now
                    /\ \A c \in flipped[r] : Lapsed(c, plan[r].at)

FlippedInv == \A r \in Requests : FlippedLapsed(r)

\* Request r ends, with its rows written or not.
Ends(r) == /\ Close(r) /\ now' = now
           /\ \/ row' = row
              \/ /\ row' = [b \in Bookings |-> RowAfter(r, b)]
                 /\ Busy(r) /\ (phase[r] = "done" \/ wrote[r] = "")

\* It begins, with the time on the clock.
Starts(r) == \E kind, b, s, want, first : Start(r, kind, b, s, want, first)

\* No request begins, flips or ends.
Quiet == row' = row /\ plan' = plan /\ flipped' = flipped

\* A refusal ends the request, or is quiet.
LEMMA RefuseKind == ASSUME NEW r \in Requests, Refuse(r) PROVE Ends(r) \/ (Quiet /\ now' = now)
  BY DEF Refuse, Rollback, Ends, Quiet, rows

\* Every step of a request is one of those.
LEMMA WorkKind == ASSUME IInv, NEW r \in Requests, Work(r)
  PROVE  Ends(r) \/ Flip(r) \/ (Quiet /\ now' = now)
<1>1. CASE LockToRetake(r) \/ LockToCancel(r) \/ LockToPay(r)
  BY <1>1 DEF LockToRetake, LockToCancel, LockToPay, GoOn, Rollback, Ends, Quiet, rows
<1>2. CASE FindStale(r)
  BY <1>2 DEF FindStale, Quiet, rows
<1>3. CASE LookAtBookings(r) \/ LookAtBlocks(r)
  <2>1. CASE Refuse(r)
    BY <2>1, RefuseKind
  <2>2. CASE ~Refuse(r)
    BY <1>3, <2>2 DEF LookAtBookings, LookAtBlocks, Quiet, rows
  <2> QED  BY <2>1, <2>2
<1>4. CASE Exclude(r) \/ Victim(r)
  BY <1>4 DEF Exclude, Victim, Rollback, Ends, Quiet, rows
<1>5. CASE Commit(r)
  BY <1>5 DEF Commit, FlippedAll, Ends, Busy, IInv, Sessions, Staged
<1>6. CASE CommitBlock(r)
  <2>1. CASE Rollback(r)
    BY <2>1 DEF Rollback, Ends, rows
  <2>2. CASE ~Rollback(r)
    BY <1>6, <2>2 DEF CommitBlock, Ends, Busy, IInv, Sessions, Staged
  <2> QED  BY <2>1, <2>2
<1>7. CASE Flip(r)
  BY <1>7
<1> QED  BY <1>1, <1>2, <1>3, <1>4, <1>5, <1>6, <1>7 DEF Work

\* The time on the clock is a number.
LEMMA ClockTypes == ASSUME IInv PROVE now \in 1..Horizon /\ now \in Int
<1>1. now \in 1..Horizon
  BY DEF IInv, TypeOK
<1> QED  BY <1>1, TimesArePositive

\* Every step is one of those, or the clock's.
LEMMA StepKind == ASSUME IInv, [Next]_vars
  PROVE  \/ \E r \in Requests : Ends(r) \/ Flip(r) \/ Starts(r)
         \/ Quiet /\ now' = now
         \/ Tick
<1>1. ASSUME NEW r \in Requests \ {Hook}, Begin(r) PROVE Starts(r)
  BY <1>1 DEF Begin, BeginCreate, BeginOnRow, BeginBlock, BeginSweep, Starts
<1>2. ASSUME NEW r \in Requests \ {Hook}, Abandon(r) PROVE Ends(r)
  BY <1>2 DEF Abandon, Rollback, Ends, rows
<1>3. CASE BeginPayment
  BY <1>3, HookIsARequest DEF BeginPayment, Starts
<1>4. CASE PayAtProvider
  BY <1>4 DEF PayAtProvider, Quiet, session
<1>5. CASE UNCHANGED vars
  BY <1>5 DEF vars, Quiet, rows, session
<1> QED  BY <1>1, <1>2, <1>3, <1>4, <1>5, WorkKind DEF Next

\* A request's commit writes no row that another has locked, and flips only
\* rows that have lapsed by the clock.
LEMMA EndWrites ==
  ASSUME IInv, FlippedInv, NEW r \in Requests, Ends(r), NEW b \in Bookings, row'[b] # row[b]
  PROVE  /\ lock[b] = r
         /\ \/ wrote[r] # "" /\ b = Target(r)
            \/ ~Holds(b, now) /\ row'[b].status = "expired"
<1>1. /\ row' = [c \in Bookings |-> RowAfter(r, c)]
      /\ Busy(r) /\ (phase[r] = "done" \/ wrote[r] = "")
  BY DEF Ends
<1>2. row'[b] = RowAfter(r, b)
  BY <1>1
<1>3. LocksKept(r) /\ Staged(r)
  BY DEF IInv, Sessions
<1>4. CASE wrote[r] # "" /\ b = Target(r)
  BY <1>1, <1>3, <1>4, NullsAreFresh DEF LocksKept
<1>5. CASE ~(wrote[r] # "" /\ b = Target(r))
  <2>1. b \in flipped[r] /\ row'[b].status = "expired"
    <3>1. CASE b \notin flipped[r]
      <4>1. RowAfter(r, b) = row[b]
        BY <1>5, <3>1, RowAfterShape
      <4> QED  BY <1>2, <4>1
    <3>2. CASE b \in flipped[r]
      <4>1. RowAfter(r, b).status = "expired"
        BY <1>5, <3>2, RowAfterShape
      <4> QED  BY <1>2, <3>2, <4>1
    <3> QED  BY <3>1, <3>2
  <2>2. Lapsed(b, plan[r].at) /\ plan[r].at <= now
    BY <2>1 DEF FlippedInv, FlippedLapsed
  <2>3. row[b].deadline \in Int /\ plan[r].at \in Int /\ now \in Int
    <3>1. row[b].deadline \in 0..Horizon + Hold /\ plan[r].at \in 1..Horizon
      BY RowTypes, PlanTypes DEF IInv
    <3> QED  BY <3>1, ClockTypes
  <2>4. Lapsed(b, now)
    BY <2>2, <2>3 DEF Lapsed
  <2> QED  BY <1>3, <2>1, <2>4 DEF LocksKept, Holds
<1> QED  BY <1>4, <1>5

\* A request that does not move keeps what it flipped.
LEMMA FlippedStay ==
  ASSUME IInv, FlippedInv, NEW u \in Requests, plan'[u] = plan[u], flipped'[u] = flipped[u],
         now' >= now, now' \in Int, \A c \in Bookings : lock[c] = u => row'[c] = row[c]
  PROVE  FlippedLapsed(u)'
<1>1. FlippedLapsed(u) /\ LocksKept(u) /\ flipped[u] \subseteq Bookings
  BY PlanTypes DEF FlippedInv, IInv, Sessions
<1>2. now \in Int /\ plan[u].at \in Int
  <2>1. now \in 1..Horizon /\ plan[u].at \in 1..Horizon
    BY PlanTypes DEF IInv, TypeOK
  <2> QED  BY <2>1
<1>3. \A c \in flipped'[u] : row'[c] = row[c] /\ Lapsed(c, plan[u].at)
  BY <1>1 DEF LocksKept, FlippedLapsed
<1>4. \A c \in flipped'[u] : Lapsed(c, plan[u].at)'
  BY <1>3 DEF Lapsed
<1> QED  BY <1>1, <1>2, <1>4 DEF FlippedLapsed

\* What is flipped has lapsed, whoever moves.
LEMMA FlippedNext == ASSUME IInv, FlippedInv, [Next]_vars PROVE FlippedInv'
<1>0. now \in 1..Horizon /\ now \in Int
  BY ClockTypes
<1>1. ASSUME NEW r \in Requests, Ends(r) PROVE FlippedInv'
  <2>1. /\ plan'[r] = NoPlan /\ flipped'[r] = {} /\ now' = now
        /\ \A u \in Requests \ {r} : plan'[u] = plan[u] /\ flipped'[u] = flipped[u]
    BY <1>1 DEF Ends, Close, IInv, TypeOK
  <2>2. NoPlan.at = 1
    BY DEF NoPlan
  <2>3. FlippedLapsed(r)'
    BY <1>0, <2>1, <2>2 DEF FlippedLapsed
  <2>4. ASSUME NEW u \in Requests \ {r} PROVE FlippedLapsed(u)'
    <3>1. \A c \in Bookings : lock[c] = u => row'[c] = row[c]
      BY <1>1, EndWrites
    <3> QED  BY <1>0, <2>1, <3>1, FlippedStay
  <2> QED  BY <2>3, <2>4 DEF FlippedInv
<1>2. ASSUME NEW r \in Requests, Starts(r) PROVE FlippedInv'
  <2>1. PICK kind, b, s, want, first : Start(r, kind, b, s, want, first)
    BY <1>2 DEF Starts
  <2>2. /\ phase[r] = "idle" /\ now' = now /\ row' = row /\ flipped' = flipped
        /\ plan'[r].at = now
        /\ \A u \in Requests \ {r} : plan'[u] = plan[u]
    BY <2>1 DEF Start, rows, IInv, TypeOK
  <2>3. flipped'[r] = {}
    BY <2>2 DEF IInv, Sessions, Staged
  <2>4. FlippedLapsed(r)'
    BY <1>0, <2>2, <2>3 DEF FlippedLapsed
  <2> QED  BY <1>0, <2>2, <2>4, FlippedStay DEF FlippedInv
<1>3. ASSUME NEW r \in Requests, Flip(r) PROVE FlippedInv'
  <2>1. PICK c \in stale[r] :
          \/ Lapsed(c, plan[r].at) /\ flipped' = [flipped EXCEPT ![r] = @ \cup {c}]
          \/ flipped' = flipped
    BY <1>3 DEF Flip, StillLapsed
  <2>2. now' = now /\ row' = row /\ plan' = plan
    BY <1>3 DEF Flip, rows
  <2>3. /\ \A u \in Requests \ {r} : flipped'[u] = flipped[u]
        /\ \A d \in flipped'[r] : d \in flipped[r] \/ Lapsed(d, plan[r].at)
    <3>1. flipped \in [Requests -> SUBSET Bookings]
      BY DEF IInv, TypeOK
    <3> QED  BY <2>1, <3>1
  <2>4. FlippedLapsed(r)'
    BY <2>2, <2>3 DEF FlippedInv, FlippedLapsed, Lapsed
  <2> QED  BY <1>0, <2>2, <2>3, <2>4, FlippedStay DEF FlippedInv
<1>4. CASE Quiet /\ now' = now
  BY <1>0, <1>4, FlippedStay DEF Quiet, FlippedInv
<1>5. CASE Tick
  BY <1>0, <1>5, FlippedStay DEF Tick, session, FlippedInv
<1> QED  BY <1>1, <1>2, <1>3, <1>4, <1>5, StepKind

\* Nothing is flipped to begin with.
LEMMA FlippedInit == Init => FlippedInv
<1> SUFFICES ASSUME Init PROVE FlippedInv
  OBVIOUS
<1>1. NoPlan.at = 1
  BY DEF NoPlan
<1>2. now = 1 /\ \A r \in Requests : plan[r] = NoPlan /\ flipped[r] = {}
  BY DEF Init
<1> QED  BY <1>1, <1>2 DEF FlippedInv, FlippedLapsed

\* The hours booking b has.
Has(b) == IF Holds(b, now) THEN row[b].slot ELSE {}

\* Holder is the one booking that has the hour, if one has.
HolderFits == \A h \in UNION Slots :
  /\ Holder[h] \in Bookings \cup {"free"}
  /\ \A b \in Bookings : Holder[h] = b <=> h \in Has(b)

\* No two bookings have an hour, so the choice in Holder is no choice.
LEMMA HolderIs == IInv => HolderFits
<1> SUFFICES ASSUME IInv, NEW h \in UNION Slots
             PROVE  /\ Holder[h] \in Bookings \cup {"free"}
                    /\ \A b \in Bookings : Holder[h] = b <=> h \in Has(b)
  BY DEF HolderFits
<1>1. \A b \in Bookings : h \in Has(b) <=> Holds(b, now) /\ h \in row[b].slot
  BY DEF Has
<1>2. ASSUME NEW b \in Bookings, NEW c \in Bookings, h \in Has(b), h \in Has(c) PROVE b = c
  BY <1>1, <1>2 DEF IInv, SlotHeldOnce, Overlap, Holds
<1>3. CASE \E b \in Bookings : h \in Has(b)
  <2>1. PICK b \in Bookings : Holds(b, now) /\ h \in row[b].slot
    BY <1>1, <1>3
  <2>2. Holder[h] = CHOOSE c \in Bookings : Holds(c, now) /\ h \in row[c].slot
    BY <2>1 DEF Holder
  <2>3. Holder[h] \in Bookings /\ h \in Has(Holder[h])
    BY <1>1, <2>1, <2>2
  <2> QED  BY <1>2, <2>3
<1>4. CASE ~\E b \in Bookings : h \in Has(b)
  BY <1>1, <1>4, NamesDiffer DEF Holder
<1> QED  BY <1>3, <1>4

\* Nor is it after a step.
LEMMA HolderIsNext == IInv' => HolderFits'
  BY HolderIs, PTL

\* One booking takes a slot, leaves it or moves.
LEMMA TakeStep ==
  ASSUME HolderFits, HolderFits', NEW b \in Bookings,
         \A c \in Bookings \ {b} : Has(c)' = Has(c), Has(b)' \in Slots \cup {{}}
  PROVE  Calendar!Next
<1> DEFINE H == Has(b)'
<1>1. ASSUME NEW h \in H PROVE Holder[h] \in {"free", b}
  <2>1. h \in UNION Slots
    BY <1>1
  <2> QED  BY <1>1, <2>1, NamesDiffer DEF HolderFits
<1>2. ASSUME NEW h \in UNION Slots
      PROVE  Holder'[h] = IF h \in H THEN b ELSE IF Holder[h] = b THEN "free" ELSE Holder[h]
  BY <1>2, NamesDiffer DEF HolderFits
<1>3. Holder' = [h \in UNION Slots |->
                   IF h \in H THEN b ELSE IF Holder[h] = b THEN "free" ELSE Holder[h]]
  <2>1. Holder' = [h \in UNION Slots |-> Holder'[h]]
    BY DEF Holder
  <2> HIDE DEF H
  <2> QED  BY <1>2, <2>1
<1> HIDE DEF H
<1>4. Calendar!Take(b, H)
  BY <1>1, <1>3 DEF Calendar!Take, Calendar!Hours
<1> QED  BY <1>4 DEF Calendar!Next, H

\* Some bookings let go, or none.
LEMMA LetGoStep ==
  ASSUME HolderFits, HolderFits', \A c \in Bookings : Has(c)' = Has(c) \/ Has(c)' = {}
  PROVE  Calendar!Next
<1> DEFINE S == {c \in Bookings : Has(c)' # Has(c)}
<1>2. ASSUME NEW h \in UNION Slots PROVE Holder'[h] = IF Holder[h] \in S THEN "free" ELSE Holder[h]
  <2>2. \A c \in Bookings : Holder'[h] = c => Holder[h] = c /\ c \notin S
    BY <1>2 DEF HolderFits
  <2>3. \A c \in Bookings : Holder[h] = c /\ c \notin S => Holder'[h] = c
    BY <1>2 DEF HolderFits
  <2>4. Holder[h] \in Bookings \cup {"free"} /\ Holder'[h] \in Bookings \cup {"free"}
    BY <1>2 DEF HolderFits
  <2>5. S \subseteq Bookings
    OBVIOUS
  <2> HIDE DEF S
  <2> QED  BY <2>2, <2>3, <2>4, <2>5, NamesDiffer
<1>3. Holder' = [h \in UNION Slots |-> IF Holder[h] \in S THEN "free" ELSE Holder[h]]
  <2>1. Holder' = [h \in UNION Slots |-> Holder'[h]]
    BY DEF Holder
  <2> HIDE DEF S
  <2> QED  BY <1>2, <2>1
<1>4. S \in SUBSET Bookings
  OBVIOUS
<1> HIDE DEF S
<1> QED  BY <1>3, <1>4 DEF Calendar!Next, Calendar!LetGo, Calendar!Hours

\* A row is written with a slot on offer.
LEMMA RowSlotNext == ASSUME IInv' PROVE \A b \in Bookings : row'[b].slot \in Slots \cup {{}}
  BY DEF IInv, TypeOK

\* The end of a request is a booking that takes its slot, Tick the holds that
\* lapse; no other step is seen in the calendar.
LEMMA CalendarStep ==
  ASSUME IInv, IInv', FlippedInv, [Next]_vars PROVE Calendar!Next
<1>1. HolderFits /\ HolderFits'
  BY HolderIs, HolderIsNext
<1>2. ASSUME row' = row, now' = now PROVE Calendar!Next
  BY <1>1, <1>2, LetGoStep DEF Has, Holds, Lapsed
<1>3. ASSUME NEW r \in Requests, Ends(r) PROVE Calendar!Next
  <2>1. now' = now
    BY <1>3 DEF Ends
  <2>2. ASSUME NEW c \in Bookings, ~(wrote[r] # "" /\ c = Target(r)) PROVE Has(c)' = Has(c)
    <3>1. CASE row'[c] = row[c]
      BY <2>1, <3>1 DEF Has, Holds, Lapsed
    <3>2. CASE row'[c] # row[c]
      <4>1. ~Holds(c, now) /\ row'[c].status = "expired"
        BY <1>3, <2>2, <3>2, EndWrites
      <4> QED  BY <4>1 DEF Has, Holds, HoldsSlot
    <3> QED  BY <3>1, <3>2
  <2>3. CASE Target(r) \in Bookings
    <3>1. PICK b \in Bookings : b = Target(r)
      BY <2>3
    <3>2. row'[b].slot \in Slots \cup {{}}
      BY RowSlotNext
    <3>3. Has(b)' \in Slots \cup {{}}
      BY <3>2 DEF Has
    <3>4. \A c \in Bookings \ {b} : Has(c)' = Has(c)
      BY <2>2, <3>1
    <3> QED  BY <1>1, <3>3, <3>4, TakeStep
  <2>4. CASE Target(r) \notin Bookings
    BY <1>1, <2>2, <2>4, LetGoStep
  <2> QED  BY <2>3, <2>4
<1>4. CASE Tick
  <2>1. now \in Int /\ now' = now + 1 /\ row' = row
    BY <1>4, ClockTypes DEF Tick
  <2>2. ASSUME NEW c \in Bookings PROVE Has(c)' = Has(c) \/ Has(c)' = {}
    <3>1. row[c].deadline \in Int
      <4>1. row[c].deadline \in 0..Horizon + Hold
        BY RowTypes DEF IInv
      <4> QED  BY <4>1
    <3>2. Lapsed(c, now) => Lapsed(c, now)'
      BY <2>1, <3>1 DEF Lapsed
    <3> QED  BY <2>1, <3>2 DEF Has, Holds
  <2> QED  BY <1>1, <2>2, LetGoStep
<1>5. ASSUME NEW r \in Requests, Flip(r) \/ Starts(r) PROVE Calendar!Next
  BY <1>2, <1>5 DEF Flip, Starts, Start, rows
<1> QED  BY <1>2, <1>3, <1>4, <1>5, StepKind DEF Quiet

\* The calendar begins free.
LEMMA CalendarInit == Init => Calendar!Init
<1> SUFFICES ASSUME Init PROVE Calendar!Init
  OBVIOUS
<1>1. \A b \in Bookings : row[b].status = "none"
  BY DEF Init
<1>2. \A b \in Bookings : ~Holds(b, now)
  BY <1>1 DEF Holds, HoldsSlot
<1> QED  BY <1>2 DEF Calendar!Init, Calendar!Hours, Holder

\* However the statements of any number of requests interleave, what they
\* commit is, seen from outside, the calendar that whole handlers keep: no hour
\* passes from one booking to another in one commit.
THEOREM ImplementsCalendar == Spec => KeepsCalendar
<1>1. IInv /\ FlippedInv /\ IInv' /\ [Next]_vars => [Calendar!Next]_Holder
  BY CalendarStep
<1>2. IInv /\ FlippedInv /\ [Next]_vars => FlippedInv'
  BY FlippedNext
<1> QED  BY <1>1, <1>2, CalendarInit, FlippedInit, Invariance, PTL
         DEF Spec, KeepsCalendar, Calendar!Spec

-----------------------------------------------------------------------------
(* Payments are answered.                                                  *)

\* The request that serves the provider serves payments only.
HookPays == phase[Hook] # "idle" => plan[Hook].kind = "pay"

\* One request's step is not another's.
LEMMA OthersStep ==
  ASSUME IInv, NEW r \in Requests, NEW q \in Requests \ {r},
         Begin(r) \/ Abandon(r) \/ Work(r)
  PROVE  phase'[q] = phase[q] /\ plan'[q] = plan[q]
<1> USE DEF Close, Rollback, Refuse, GoOn, Start
<1>0. phase \in [Requests -> Phases] /\ plan \in [Requests -> Plan]
  BY DEF IInv, TypeOK
<1>1. CASE Begin(r) \/ Abandon(r)
  BY <1>0, <1>1 DEF Begin, BeginCreate, BeginOnRow, BeginBlock, BeginSweep, Abandon
<1>2. CASE LockToRetake(r) \/ LockToCancel(r) \/ LockToPay(r)
  BY <1>0, <1>2 DEF LockToRetake, LockToCancel, LockToPay
<1>3. CASE FindStale(r) \/ Flip(r)
  BY <1>0, <1>3 DEF FindStale, Flip
<1>4. CASE LookAtBookings(r) \/ LookAtBlocks(r) \/ Exclude(r) \/ Victim(r)
  BY <1>0, <1>4 DEF LookAtBookings, LookAtBlocks, Exclude, Victim
<1>5. CASE Commit(r) \/ CommitBlock(r)
  BY <1>0, <1>5 DEF Commit, CommitBlock
<1> QED  BY <1>1, <1>2, <1>3, <1>4, <1>5 DEF Work

\* How a payment's request may end: answered, with the money on the books unless
\* the booking was resolved already; or undone, at the constraint or in a circle.
Answered ==
  \/ /\ Target(Hook) \notin due'
     /\ row'[Target(Hook)].paid \/ ~UnpaidHold(Target(Hook))
  \/ /\ Deadlocked(Hook) \/ (phase[Hook] = "exclude" /\ Lost(Hook))
     /\ UNCHANGED rows

\* A payment's request keeps its plan until it ends.
LEMMA HookWork ==
  ASSUME IInv, HookPays, Work(Hook)
  PROVE  /\ plan[Hook].kind = "pay"
         /\ phase'[Hook] # "idle" => plan'[Hook] = plan[Hook]
         /\ phase'[Hook] = "idle" => Answered
<1>0. /\ phase \in [Requests -> Phases] /\ plan \in [Requests -> Plan]
      /\ Hook \in Requests /\ Staged(Hook)
  BY HookIsARequest DEF IInv, TypeOK, Sessions
<1>1. plan[Hook].kind = "pay"
  <2>1. phase[Hook] # "idle"
    BY <1>0 DEF Work, LockToRetake, LockToCancel, LockToPay, Acquire, FindStale, Flip,
                LookAtBookings, FlippedAll, LookAtBlocks, Exclude, Victim, Deadlocked, WaitsFor,
                Commit, CommitBlock, Staged
  <2> QED  BY <2>1 DEF HookPays
<1>2. ASSUME Refuse(Hook) PROVE phase'[Hook] = "done" /\ plan'[Hook] = plan[Hook]
  BY <1>0, <1>1, <1>2 DEF Refuse
<1>3. CASE LockToRetake(Hook) \/ LockToCancel(Hook)
  BY <1>1, <1>3 DEF LockToRetake, LockToCancel
<1>4. CASE LockToPay(Hook)
  BY <1>0, <1>4 DEF LockToPay, GoOn, Close, Answered
<1>5. CASE FindStale(Hook) \/ Flip(Hook)
  BY <1>0, <1>1, <1>5 DEF FindStale, Flip
<1>6. CASE LookAtBookings(Hook) \/ LookAtBlocks(Hook)
  BY <1>0, <1>1, <1>2, <1>6 DEF LookAtBookings, LookAtBlocks
<1>7. CASE Exclude(Hook) \/ Victim(Hook)
  <2>1. CASE Rollback(Hook)
    <3>1. UNCHANGED rows
      BY <2>1 DEF Rollback
    <3>2. phase'[Hook] = "idle"
      BY <1>0, <2>1 DEF Rollback, Close
    <3>3. CASE Exclude(Hook)
      <4>1. phase' # [phase EXCEPT ![Hook] = "done"]
        BY <1>0, <3>2
      <4>2. phase[Hook] = "exclude" /\ Lost(Hook)
        BY <3>3, <4>1, Zenon DEF Exclude
      <4> QED  BY <1>1, <3>1, <3>2, <4>2 DEF Answered
    <3>4. CASE Victim(Hook)
      BY <1>1, <3>1, <3>2, <3>4 DEF Victim, Answered
    <3> QED  BY <1>7, <3>3, <3>4
  <2>2. CASE ~Rollback(Hook)
    BY <1>0, <1>1, <1>7, <2>2 DEF Exclude, Victim
  <2> QED  BY <2>1, <2>2
<1>8. CASE Commit(Hook)
  <2>1. phase'[Hook] = "idle" /\ Target(Hook) \notin due'
    BY <1>0, <1>1, <1>8 DEF Commit, Close
  <2>2. wrote[Hook] # "" /\ Target(Hook) \in Bookings
    <3>1. phase[Hook] = "done" /\ Target(Hook) # NoBooking /\ plan[Hook].want = "confirmed"
      BY <1>0, <1>1, <1>8 DEF Commit, Staged
    <3>2. wrote[Hook] \in {"confirmed", "paid_unfulfilled"}
      BY <1>0, <3>1 DEF Staged
    <3>3. Target(Hook) \in Bookings \cup {NoBooking}
      BY <1>0, PlanTypes DEF IInv, Target
    <3> QED  BY <3>1, <3>2, <3>3
  <2>3. row'[Target(Hook)] = RowAfter(Hook, Target(Hook))
    BY <1>8, <2>2 DEF Commit
  <2>4. RowAfter(Hook, Target(Hook)).paid
    <3>1. RowAfter(Hook, Target(Hook)).paid = (row[Target(Hook)].paid \/ plan[Hook].kind = "pay")
      BY <2>2 DEF RowAfter
    <3> QED  BY <1>1, <3>1, Zenon
  <2>5. row'[Target(Hook)].paid
    BY <2>3, <2>4, Zenon
  <2>6. Answered
    BY <2>1, <2>5, Zenon DEF Answered
  <2> QED  BY <1>1, <2>1, <2>6
<1>9. CASE CommitBlock(Hook)
  BY <1>1, <1>9 DEF CommitBlock
<1> QED  BY <1>1, <1>3, <1>4, <1>5, <1>6, <1>7, <1>8, <1>9 DEF Work

\* What becomes of a payment's request in a step of anybody.
LEMMA HookStep ==
  ASSUME IInv, HookPays, [Next]_vars
  PROVE  /\ HookPays'
         /\ phase[Hook] # "idle" /\ phase'[Hook] = "idle" => Answered
<1>0. /\ phase \in [Requests -> Phases] /\ plan \in [Requests -> Plan]
      /\ Hook \in Requests
  BY HookIsARequest DEF IInv, TypeOK
<1>1. ASSUME NEW r \in Requests \ {Hook}, Begin(r) \/ Abandon(r) \/ Work(r)
      PROVE  phase'[Hook] = phase[Hook] /\ plan'[Hook] = plan[Hook]
  BY <1>0, <1>1, OthersStep
<1>2. CASE Work(Hook)
  BY <1>2, HookWork DEF HookPays
<1>3. CASE BeginPayment
  BY <1>0, <1>3 DEF BeginPayment, Start, HookPays
<1>4. CASE PayAtProvider \/ Tick \/ UNCHANGED vars
  BY <1>4 DEF PayAtProvider, Tick, vars, session, HookPays
<1> QED  BY <1>1, <1>2, <1>3, <1>4 DEF Next, HookPays

\* No money is dropped, however many races its booking loses: the webhook of a
\* payment ends with the payment answered and on the books (or resolved before),
\* or it loses at the constraint or in a circle of waits, commits nothing, and
\* the payment stays due.
THEOREM MoneyIsAnswered == Spec => PaymentsAreAnswered
<1> DEFINE A == phase[Hook] # "idle" /\ phase'[Hook] = "idle" => Answered
<1>1. Init => HookPays
  BY HookIsARequest DEF Init, HookPays
<1>2. IInv /\ HookPays /\ [Next]_vars => HookPays' /\ [A]_vars
  BY HookStep
<1> QED  BY <1>1, <1>2, Invariance, PTL DEF Spec, PaymentsAreAnswered, Answered

-----------------------------------------------------------------------------
(* Blocks: nothing but passing each other puts a booking inside one.       *)

\* Request r runs one of its statements.
Moves(r) == \/ r # Hook /\ (Begin(r) \/ Abandon(r))
            \/ r = Hook /\ BeginPayment
            \/ Work(r)

\* Nobody does.
Still == PayAtProvider \/ Tick \/ UNCHANGED vars

\* A step is one request's, or nobody's.
LEMMA SomebodyMoves == ASSUME [Next]_vars PROVE Still \/ \E r \in Requests : Moves(r)
  BY HookIsARequest DEF Next, Still, Moves

\* One request's step leaves the others where they are.
LEMMA OneMoves ==
  ASSUME IInv, NEW r \in Requests, NEW q \in Requests \ {r}, Moves(r)
  PROVE  /\ phase'[q] = phase[q] /\ plan'[q] = plan[q]
         /\ stale'[q] = stale[q] /\ flipped'[q] = flipped[q] /\ wrote'[q] = wrote[q]
<1> USE DEF Close, Rollback, Refuse, GoOn, Start
<1>0. /\ phase \in [Requests -> Phases] /\ plan \in [Requests -> Plan]
      /\ stale \in [Requests -> SUBSET Bookings] /\ flipped \in [Requests -> SUBSET Bookings]
      /\ wrote \in [Requests -> Statuses \cup {""}]
  BY DEF IInv, TypeOK
<1>1. CASE Begin(r) \/ Abandon(r)
  BY <1>0, <1>1 DEF Begin, BeginCreate, BeginOnRow, BeginBlock, BeginSweep, Abandon
<1>2. CASE LockToRetake(r) \/ LockToCancel(r) \/ LockToPay(r)
  BY <1>0, <1>2 DEF LockToRetake, LockToCancel, LockToPay
<1>3. CASE FindStale(r) \/ Flip(r)
  BY <1>0, <1>3 DEF FindStale, Flip
<1>4. CASE LookAtBookings(r) \/ LookAtBlocks(r) \/ Exclude(r) \/ Victim(r)
  BY <1>0, <1>4 DEF LookAtBookings, LookAtBlocks, Exclude, Victim
<1>5. CASE Commit(r) \/ CommitBlock(r)
  BY <1>0, <1>5 DEF Commit, CommitBlock
<1>6. CASE r = Hook /\ BeginPayment
  BY <1>0, <1>6 DEF BeginPayment
<1> QED  BY <1>1, <1>2, <1>3, <1>4, <1>5, <1>6 DEF Moves, Work

\* Rows change by a commit only, and so does the block table.
LEMMA TablesChange ==
  ASSUME IInv, [Next]_vars
  PROVE  \/ row' = row /\ blocked' = blocked
         \/ \E r \in Requests :
              /\ row' = [b \in Bookings |-> RowAfter(r, b)]
              /\ Ends(r)
              /\ \/ Commit(r) /\ blocked' = blocked
                 \/ /\ CommitBlock(r) /\ plan[r].kind = "block" /\ phase[r] = "blocks"
                    /\ blocked' = blocked \cup {Slot(r)}
<1>1. CASE Still
  BY <1>1 DEF Still, PayAtProvider, Tick, vars, rows
<1>2. ASSUME NEW r \in Requests, Begin(r) \/ Abandon(r) \/ BeginPayment
      PROVE  row' = row /\ blocked' = blocked
  BY <1>2 DEF Begin, BeginCreate, BeginOnRow, BeginBlock, BeginSweep, BeginPayment, Start,
              Abandon, Rollback, rows
<1>3. ASSUME NEW r \in Requests,
             \/ LockToRetake(r) \/ LockToCancel(r) \/ LockToPay(r) \/ FindStale(r) \/ Flip(r)
             \/ LookAtBookings(r) \/ LookAtBlocks(r) \/ Exclude(r) \/ Victim(r)
      PROVE  row' = row /\ blocked' = blocked
  BY <1>3 DEF LockToRetake, LockToCancel, LockToPay, GoOn, FindStale, Flip, LookAtBookings,
              LookAtBlocks, Exclude, Victim, Refuse, Rollback, rows
<1>4. ASSUME NEW r \in Requests, Commit(r)
      PROVE  row' = [b \in Bookings |-> RowAfter(r, b)] /\ Ends(r) /\ blocked' = blocked
  BY <1>4 DEF Commit, FlippedAll, Ends, Busy, IInv, Sessions, Staged
<1>5. ASSUME NEW r \in Requests, CommitBlock(r)
      PROVE  \/ row' = row /\ blocked' = blocked
             \/ /\ row' = [b \in Bookings |-> RowAfter(r, b)] /\ Ends(r)
                /\ plan[r].kind = "block" /\ phase[r] = "blocks"
                /\ blocked' = blocked \cup {Slot(r)}
  <2>1. wrote[r] = ""
    BY <1>5 DEF CommitBlock, IInv, Sessions, Staged
  <2> QED  BY <1>5, <2>1 DEF CommitBlock, Rollback, Ends, Busy, rows
<1>6. CASE \E r \in Requests : Moves(r)
  BY <1>2, <1>3, <1>4, <1>5, <1>6 DEF Moves, Work
<1> QED  BY <1>1, <1>6, SomebodyMoves

-----------------------------------------------------------------------------
(* Which payments are on their way.                                        *)

\* Request r has looked at the blocks, and writes.
Writing(r) == phase[r] \in {"exclude", "done"}

\* The provider's request serves payments that are due, no other request serves
\* any, and a booking that is about to be unpaid again has none under way.
Payments == /\ HookPays
            /\ phase[Hook] # "idle" => Target(Hook) \in due
            /\ \A r \in Requests \ {Hook} : plan[r].kind # "pay"
            /\ \A r \in Requests : Writing(r) /\ wrote[r] = "pending" =>
                 Target(r) \notin payable \cup due

\* Only a commit of an unpaid hold makes a booking payable, and only answering
\* a payment takes it off those that are due.
LEMMA MoneyMoves ==
  ASSUME IInv, [Next]_vars, NEW c \in Bookings
  PROVE  /\ c \in payable' \cup due' =>
              \/ c \in payable \cup due
              \/ \E r \in Requests : Commit(r) /\ wrote[r] = "pending" /\ c = Target(r)
         /\ c \in due \ due' => \E r \in Requests : /\ phase'[r] = "idle" /\ plan[r].kind = "pay"
                                                  /\ Moves(r)
<1>0. phase \in [Requests -> Phases]
  BY DEF IInv, TypeOK
<1>1. CASE Still
  BY <1>1 DEF Still, PayAtProvider, Tick, vars, rows
<1>2. ASSUME NEW r \in Requests, Begin(r) \/ Abandon(r) \/ BeginPayment
      PROVE  payable' = payable /\ due' = due
  BY <1>2 DEF Begin, BeginCreate, BeginOnRow, BeginBlock, BeginSweep, BeginPayment, Start,
              Abandon, Rollback, rows
<1>3. ASSUME NEW r \in Requests,
             \/ LockToRetake(r) \/ LockToCancel(r) \/ FindStale(r) \/ Flip(r)
             \/ LookAtBookings(r) \/ LookAtBlocks(r) \/ Exclude(r) \/ Victim(r) \/ CommitBlock(r)
      PROVE  payable' \subseteq payable /\ due' = due
  BY <1>3 DEF LockToRetake, LockToCancel, GoOn, FindStale, Flip, LookAtBookings,
              LookAtBlocks, Exclude, Victim, CommitBlock, Refuse, Rollback, rows
<1>4. ASSUME NEW r \in Requests, LockToPay(r)
      PROVE  /\ payable' = payable /\ due' \subseteq due /\ plan[r].kind = "pay"
             /\ due' = due \/ phase'[r] = "idle"
  BY <1>0, <1>4 DEF LockToPay, GoOn, Close, rows
<1>5. ASSUME NEW r \in Requests, Commit(r)
      PROVE  /\ payable' \subseteq payable \cup (IF wrote[r] = "pending" THEN {Target(r)} ELSE {})
             /\ due' \subseteq due /\ phase'[r] = "idle"
             /\ due' = due \/ plan[r].kind = "pay"
  BY <1>0, <1>5 DEF Commit, Close
<1>6. ASSUME NEW r \in Requests, Moves(r)
      PROVE  /\ c \in payable' \cup due' =>
                  \/ c \in payable \cup due
                  \/ Commit(r) /\ wrote[r] = "pending" /\ c = Target(r)
             /\ c \in due \ due' => phase'[r] = "idle" /\ plan[r].kind = "pay"
  BY <1>2, <1>3, <1>4, <1>5, <1>6 DEF Moves, Work
<1> QED  BY <1>1, <1>6, SomebodyMoves

\* A request keeps its plan until it ends.
LEMMA PlanStays ==
  ASSUME IInv, NEW r \in Requests, Work(r) \/ Abandon(r)
  PROVE  plan'[r] = plan[r] \/ (plan'[r] = NoPlan /\ phase'[r] = "idle")
<1> USE DEF Close, Rollback, Refuse, GoOn
<1>0. phase \in [Requests -> Phases] /\ plan \in [Requests -> Plan]
  BY DEF IInv, TypeOK
<1>1. CASE LockToRetake(r) \/ LockToCancel(r) \/ LockToPay(r) \/ Abandon(r)
  BY <1>0, <1>1 DEF LockToRetake, LockToCancel, LockToPay, Abandon
<1>2. CASE FindStale(r) \/ Flip(r)
  BY <1>0, <1>2 DEF FindStale, Flip
<1>3. CASE LookAtBookings(r) \/ LookAtBlocks(r) \/ Exclude(r) \/ Victim(r)
  BY <1>0, <1>3 DEF LookAtBookings, LookAtBlocks, Exclude, Victim
<1>4. CASE Commit(r) \/ CommitBlock(r)
  BY <1>0, <1>4 DEF Commit, CommitBlock
<1> QED  BY <1>1, <1>2, <1>3, <1>4 DEF Work

\* What a request that writes has just done: looked at the blocks, waited for
\* the constraint, or been granted its row.
LEMMA WritingStep ==
  ASSUME IInv, NEW r \in Requests, Moves(r), Writing(r)', wrote'[r] \in HoldsSlot
  PROVE  /\ plan'[r] = plan[r] /\ blocked' = blocked
         /\ \/ LookAtBlocks(r) /\ ~Refuse(r)
            \/ Writing(r) /\ wrote'[r] = wrote[r] /\ payable' = payable /\ due' = due
            \/ /\ plan[r].kind = "pay" /\ wrote'[r] = "confirmed"
               /\ Acquire(r) /\ Holds(Target(r), plan[r].at)
<1>0. /\ phase \in [Requests -> Phases] /\ plan \in [Requests -> Plan]
      /\ wrote \in [Requests -> Statuses \cup {""}]
  BY DEF IInv, TypeOK
<1>1. ~Close(r)
  BY <1>0 DEF Close, Writing
<1>2. ~Refuse(r)
  <2>1. wrote' = [wrote EXCEPT ![r] = "paid_unfulfilled"] => wrote'[r] = "paid_unfulfilled"
    BY <1>0
  <2> QED  BY <1>1, <2>1 DEF Refuse, Rollback, HoldsSlot
<1>3. ~Begin(r) /\ ~(r = Hook /\ BeginPayment)
  <2>1. ASSUME NEW kind, NEW b, NEW s, NEW want, NEW first \in {"lock", "expire"},
               Start(r, kind, b, s, want, first)
        PROVE  FALSE
    BY <1>0, <2>1 DEF Start, Writing
  <2> QED  BY <2>1 DEF Begin, BeginCreate, BeginOnRow, BeginBlock, BeginSweep, BeginPayment
<1>4. ~Abandon(r) /\ ~Commit(r) /\ ~Victim(r) /\ ~LockToRetake(r)
  <2>1. ~Abandon(r) /\ ~Commit(r) /\ ~Victim(r)
    BY <1>1, <1>2 DEF Abandon, Rollback, Commit, Victim
  <2>2. ~LockToRetake(r)
    BY <1>0, <1>1 DEF LockToRetake, Rollback, GoOn, Writing
  <2> QED  BY <2>1, <2>2
<1>5. ~LockToCancel(r)
  BY <1>0, <1>1 DEF LockToCancel, Rollback, GoOn, HoldsSlot
<1>6. ~FindStale(r) /\ ~LookAtBookings(r)
  BY <1>0, <1>2 DEF FindStale, LookAtBookings, Writing
<1>7. ~Flip(r)
  BY <1>0 DEF Flip, Writing
<1>8. ~CommitBlock(r)
  <2>1. CASE Rollback(r)
    BY <1>1, <2>1 DEF Rollback
  <2> QED  BY <1>1, <2>1 DEF CommitBlock
<1>9. CASE LookAtBlocks(r)
  BY <1>2, <1>9 DEF LookAtBlocks
<1>10. CASE Exclude(r)
  BY <1>1, <1>10 DEF Exclude, Rollback, Writing, rows
<1>11. CASE LockToPay(r)
  BY <1>0, <1>1, <1>11 DEF LockToPay, GoOn, Writing, rows
<1> QED  BY <1>3, <1>4, <1>5, <1>6, <1>7, <1>8, <1>9, <1>10, <1>11 DEF Moves, Work

\* Payments stay what they are.
LEMMA PaymentsNext == ASSUME IInv, Payments, [Next]_vars PROVE Payments'
<1>0. /\ phase \in [Requests -> Phases] /\ plan \in [Requests -> Plan] /\ Hook \in Requests
      /\ due \subseteq Bookings /\ payable \subseteq Bookings
      /\ NoPlan.kind = "sweep"
  BY HookIsARequest DEF IInv, TypeOK, NoPlan
<1>1. HookPays'
  BY HookStep DEF Payments
<1>2. CASE Still
  <2>1. /\ phase' = phase /\ plan' = plan /\ wrote' = wrote
        /\ due \subseteq due' /\ payable' \cup due' \subseteq payable \cup due
    BY <1>2 DEF Still, PayAtProvider, Tick, vars, rows, session
  <2> QED  BY <1>0, <1>1, <2>1 DEF Payments, Writing, Target
<1>3. ASSUME NEW r \in Requests, Moves(r) PROVE Payments'
  <2>0. \A q \in Requests \ {r} : /\ phase'[q] = phase[q] /\ plan'[q] = plan[q]
                                  /\ wrote'[q] = wrote[q] /\ Target(q)' = Target(q)
    BY <1>3, OneMoves DEF Target
  <2>1. phase'[Hook] # "idle" => Target(Hook)' \in due'
    <3> SUFFICES ASSUME phase'[Hook] # "idle" PROVE Target(Hook)' \in due'
      OBVIOUS
    <3>1. CASE r = Hook /\ BeginPayment
      BY <1>0, <3>1 DEF BeginPayment, Start, Target, rows
    <3>2. CASE ~(r = Hook /\ BeginPayment)
      <4>1. phase[Hook] # "idle" /\ plan'[Hook] = plan[Hook]
        <5>1. CASE r # Hook
          BY <1>0, <2>0, <5>1
        <5>2. CASE r = Hook
          <6>1. Work(Hook)
            BY <1>3, <3>2, <5>2 DEF Moves
          <6>2. plan'[Hook] = plan[Hook] /\ plan[Hook].kind = "pay"
            BY <6>1, HookWork DEF Payments
          <6> QED  BY <1>0, <6>2 DEF IInv, Sessions, Staged
        <5> QED  BY <5>1, <5>2
      <4>2. Target(Hook) \in due /\ Target(Hook)' = Target(Hook)
        BY <4>1 DEF Payments, Target
      <4>3. ASSUME Target(Hook) \notin due' PROVE FALSE
        <5>1. PICK u \in Requests : phase'[u] = "idle" /\ plan[u].kind = "pay" /\ Moves(u)
          BY <1>0, <4>2, <4>3, MoneyMoves
        <5>2. u = Hook
          BY <5>1 DEF Payments
        <5> QED  BY <5>1, <5>2
      <4> QED  BY <4>2, <4>3
    <3> QED  BY <3>1, <3>2
  <2>2. \A q \in Requests \ {Hook} : plan'[q].kind # "pay"
    <3> SUFFICES ASSUME NEW q \in Requests \ {Hook} PROVE plan'[q].kind # "pay"
      OBVIOUS
    <3>1. CASE q # r
      BY <2>0, <3>1 DEF Payments
    <3>2. CASE q = r /\ Begin(q)
      <4>1. ASSUME NEW kind \in Kinds \ {"pay"}, NEW b, NEW s, NEW want, NEW first,
                   Start(q, kind, b, s, want, first)
            PROVE  plan'[q].kind # "pay"
        BY <1>0, <4>1 DEF Start
      <4> QED  BY <3>2, <4>1 DEF Begin, BeginCreate, BeginOnRow, BeginBlock, BeginSweep, Kinds
    <3>3. CASE q = r /\ ~Begin(q)
      <4>1. Work(q) \/ Abandon(q)
        BY <1>3, <3>3 DEF Moves
      <4> QED  BY <1>0, <4>1, PlanStays DEF Payments
    <3> QED  BY <3>1, <3>2, <3>3
  <2>3. ASSUME NEW q \in Requests, Writing(q)', wrote'[q] = "pending"
        PROVE  Target(q)' \notin payable' \cup due'
    <3>1. CASE q # r
      <4>1. Writing(q) /\ wrote[q] = "pending" /\ Target(q)' = Target(q)
        BY <2>0, <2>3, <3>1 DEF Writing
      <4>2. Target(q) \notin payable \cup due
        BY <4>1 DEF Payments
      <4>3. ASSUME NEW u \in Requests, Commit(u), wrote[u] = "pending", Target(q) = Target(u)
            PROVE  FALSE
        <5>1. LocksKept(u) /\ LocksKept(q) /\ Staged(u) /\ Staged(q)
          BY DEF IInv, Sessions
        <5>2. Busy(u) /\ Busy(q)
          BY <4>1, <4>3, <5>1 DEF Staged, Busy, Writing
        <5>3. Target(q) # NoBooking
          BY <4>1, <5>1 DEF Staged, Writing
        <5>4. u = q
          BY <4>3, <5>1, <5>2, <5>3 DEF LocksKept
        <5>5. phase'[q] = "idle"
          BY <1>0, <4>3, <5>4 DEF Commit, Close
        <5> QED  BY <2>3, <5>5 DEF Writing
      <4>4. Target(q) \in Bookings \cup {NoBooking}
        BY PlanTypes DEF IInv
      <4>5. payable' \subseteq Bookings /\ due' \subseteq Bookings
        <5>1. IInv'
          BY NextInv
        <5> QED  BY <5>1 DEF IInv, TypeOK
      <4> QED  BY <4>1, <4>2, <4>3, <4>4, <4>5, NullsAreFresh, MoneyMoves
    <3>2. CASE q = r
      <4>1. /\ plan'[q] = plan[q]
            /\ \/ LookAtBlocks(q) /\ ~Refuse(q)
               \/ Writing(q) /\ wrote'[q] = wrote[q] /\ payable' = payable /\ due' = due
        BY <1>3, <2>3, <3>2, WritingStep DEF HoldsSlot
      <4>2. Target(q)' = Target(q)
        BY <4>1 DEF Target
      <4>3. CASE LookAtBlocks(q) /\ ~Refuse(q)
        <5>1. plan[q].want = "pending"
          BY <2>3, <4>3 DEF LookAtBlocks, IInv, TypeOK
        <5>2. Staged(q) /\ RowKept(q)
          BY DEF IInv, Sessions
        <5>3. CASE plan[q].kind = "resume"
          BY <4>2, <4>3, <5>3 DEF LookAtBlocks
        <5>4. CASE plan[q].kind = "create"
          <6>1. row[Target(q)].status = "none" /\ Target(q) # NoBooking
            BY <5>2, <5>4 DEF RowKept, Staged
          <6>2. Target(q) \in Bookings
            BY <6>1, PlanTypes DEF IInv
          <6>3. Target(q) \notin payable \cup due
            BY <6>1, <6>2 DEF IInv, MoneyRows
          <6> QED  BY <4>2, <4>3, <5>4, <6>3 DEF LookAtBlocks
        <5> QED  BY <5>1, <5>2, <5>3, <5>4 DEF Staged
      <4>4. CASE Writing(q) /\ wrote'[q] = wrote[q] /\ payable' = payable /\ due' = due
        BY <2>3, <4>2, <4>4 DEF Payments
      <4> QED  BY <4>1, <4>3, <4>4
    <3> QED  BY <3>1, <3>2
  <2> QED  BY <1>1, <2>1, <2>2, <2>3 DEF Payments, Writing
<1> QED  BY <1>2, <1>3, SomebodyMoves

-----------------------------------------------------------------------------
(* What a block and a booking know of each other.                          *)

\* The provider's request is about the payment of b.
HookServes(b) == phase[Hook] # "idle" /\ Target(Hook) = b

\* b is an unpaid hold whose time had run out at t, and no payment of it that is
\* being served came in time.
OutOfTime(b, t) == Lapsed(b, t) /\ (HookServes(b) => Lapsed(b, plan[Hook].at))

\* Only such holds are left in blocked hours,
Overlooked == \A b \in Bookings, s \in blocked :
  row[b].status \in HoldsSlot /\ Overlap(row[b].slot, s) => OutOfTime(b, now)

\* only such holds a block has not seen, nor flipped or found to flip,
Looked(q) == plan[q].kind = "block" /\ phase[q] \in {"flip", "blocks"} =>
  /\ phase[q] = "blocks" => stale[q] = {}
  /\ \A b \in Bookings \ (stale[q] \cup flipped[q]) :
       /\ row[b].status \in HoldsSlot /\ Overlap(row[b].slot, Slot(q))
       /\ phase[q] = "blocks" \/ Lapsed(b, plan[q].at)
       => OutOfTime(b, plan[q].at)

\* and who has looked at the blocks is clear of those that are there.
Clear(r) == Writing(r) /\ wrote[r] \in HoldsSlot =>
  \A s \in blocked : ~Overlap(Slot(r), s)

BInv == Payments /\ Overlooked /\ \A r \in Requests : Looked(r) /\ Clear(r)

\* What is out of time stays so as the clock goes on.
LEMMA LaterOut ==
  ASSUME IInv, NEW b \in Bookings, NEW t \in Int, NEW u \in Int, t <= u, OutOfTime(b, t)
  PROVE  OutOfTime(b, u)
<1>1. row[b].deadline \in Int
  <2>1. row[b].deadline \in 0..Horizon + Hold
    BY RowTypes DEF IInv
  <2> QED  BY <2>1, DeadlineTypes, TimesArePositive
<1> QED  BY <1>1 DEF OutOfTime, Lapsed

\* A row nobody writes that is out of time stays so: a payment that begins to
\* be served now comes too late.
LEMMA OutStays ==
  ASSUME IInv, FlippedInv, Payments, [Next]_vars, NEW b \in Bookings, NEW t \in Int, t <= now,
         OutOfTime(b, t), row'[b] = row[b]
  PROVE  /\ Lapsed(b, t)'
         /\ HookServes(b)' => Lapsed(b, plan[Hook].at)'
<1>0. /\ phase \in [Requests -> Phases] /\ plan \in [Requests -> Plan] /\ Hook \in Requests
      /\ now \in Int
  BY HookIsARequest, ClockTypes DEF IInv, TypeOK
<1>1. Lapsed(b, t)'
  BY DEF OutOfTime, Lapsed
<1>2. Lapsed(b, now)
  BY <1>0, LaterOut DEF OutOfTime
<1>3. CASE phase'[Hook] = "idle"
  BY <1>1, <1>3 DEF HookServes
<1>4. CASE BeginPayment
  <2>1. plan'[Hook].at = now
    BY <1>0, <1>4 DEF BeginPayment, Start
  <2>2. Lapsed(b, plan[Hook].at)'
    BY <1>2, <2>1 DEF Lapsed
  <2> QED  BY <1>1, <2>2
<1>5. CASE phase[Hook] # "idle" /\ plan'[Hook] = plan[Hook]
  <2>1. HookServes(b)' => HookServes(b)
    BY <1>5 DEF HookServes, Target
  <2> QED  BY <1>1, <1>5, <2>1 DEF OutOfTime, Lapsed
<1>6. CASE phase[Hook] = phase'[Hook] /\ plan'[Hook] = plan[Hook]
  BY <1>3, <1>5, <1>6
<1>7. CASE Still
  BY <1>6, <1>7 DEF Still, PayAtProvider, Tick, vars, session
<1>8. ASSUME NEW r \in Requests, Moves(r), r # Hook
      PROVE  phase[Hook] = phase'[Hook] /\ plan'[Hook] = plan[Hook]
  BY <1>0, <1>8, OneMoves
<1>9. CASE Work(Hook)
  <2>1. phase'[Hook] # "idle" => plan'[Hook] = plan[Hook] /\ plan[Hook].kind = "pay"
    BY <1>9, HookWork DEF Payments
  <2>2. phase'[Hook] # "idle" => phase[Hook] # "idle"
    BY <1>0, <2>1 DEF IInv, Sessions, Staged
  <2> QED  BY <1>3, <1>5, <2>1, <2>2
<1> QED  BY <1>4, <1>6, <1>7, <1>8, <1>9, SomebodyMoves DEF Moves

\* A row that is written and holds a slot was written by a request that had
\* looked at the blocks; if it is unpaid, nobody serves a payment of it.
LEMMA NewHold ==
  ASSUME IInv, FlippedInv, Payments, [Next]_vars, NEW b \in Bookings, row'[b] # row[b],
         row'[b].status \in HoldsSlot
  PROVE  /\ blocked' = blocked
         /\ \E r \in Requests : /\ phase[r] = "done" /\ wrote[r] \in HoldsSlot
                                /\ Slot(r) = row'[b].slot /\ Commit(r)
         /\ row'[b].status = "pending" => ~HookServes(b)'
<1>0. phase \in [Requests -> Phases] /\ plan \in [Requests -> Plan] /\ Hook \in Requests
  BY HookIsARequest DEF IInv, TypeOK
<1>1. PICK r \in Requests :
        /\ row' = [c \in Bookings |-> RowAfter(r, c)] /\ Ends(r)
        /\ \/ Commit(r) /\ blocked' = blocked
           \/ plan[r].kind = "block" /\ phase[r] = "blocks"
  BY TablesChange
<1>2. wrote[r] # "" /\ b = Target(r)
  <2>1. "expired" \notin HoldsSlot
    BY DEF HoldsSlot
  <2> QED  BY <1>1, <2>1, EndWrites
<1>3. row'[b] = RowAfter(r, b)
  BY <1>1
<1>4. row'[b].status = wrote[r] /\ row'[b].slot = Slot(r)
  <2>1. RowAfter(r, b).status = wrote[r] /\ RowAfter(r, b).slot = Slot(r)
    BY <1>2, RowAfterShape
  <2> QED  BY <1>3, <2>1
<1>5. phase[r] = "done" /\ Commit(r) /\ blocked' = blocked
  <2>1. Staged(r)
    BY DEF IInv, Sessions
  <2> QED  BY <1>1, <1>2, <2>1 DEF Staged, Commit, FlippedAll
<1>6. ASSUME row'[b].status = "pending" PROVE ~HookServes(b)'
  <2>1. b \notin due
    BY <1>2, <1>4, <1>5, <1>6 DEF Payments, Writing
  <2>2. CASE r = Hook
    BY <1>0, <1>5, <2>2 DEF Commit, Close, HookServes
  <2>3. CASE r # Hook
    <3>1. phase'[Hook] = phase[Hook] /\ plan'[Hook] = plan[Hook]
      BY <1>0, <1>5, <2>3, OneMoves DEF Moves, Work
    <3> QED  BY <2>1, <3>1 DEF Payments, HookServes, Target
  <2> QED  BY <2>2, <2>3
<1> QED  BY <1>4, <1>5, <1>6

\* Blocked hours stay free but for holds out of time, unless the block and a
\* booking pass each other.
LEMMA OverlookedNext ==
  ASSUME IInv, FlippedInv, BInv, [Next]_vars PROVE Overlooked'
<1> SUFFICES ASSUME NEW b \in Bookings, NEW s \in blocked', row'[b].status \in HoldsSlot,
                    Overlap(row'[b].slot, s)
             PROVE  OutOfTime(b, now)'
  BY DEF Overlooked
<1>0. now \in Int /\ now' \in Int /\ now <= now'
  <2>1. IInv'
    BY NextInv
  <2>2. now' \in 1..Horizon
    BY <2>1 DEF IInv, TypeOK
  <2>3. now' = now \/ now' = now + 1
    BY StepKind DEF Ends, Starts, Start, Flip, rows, Tick
  <2> QED  BY <2>2, <2>3, ClockTypes, TimesArePositive
<1>1. row'[b] = row[b]
  <2> SUFFICES ASSUME row'[b] # row[b] PROVE FALSE
    OBVIOUS
  <2>1. /\ blocked' = blocked
        /\ \E r \in Requests : /\ phase[r] = "done" /\ wrote[r] \in HoldsSlot
                               /\ Slot(r) = row'[b].slot
    BY NewHold DEF BInv
  <2> QED  BY <2>1 DEF BInv, Clear, Writing
<1>2. OutOfTime(b, now)
  <2>1. CASE s \in blocked
    BY <1>1, <2>1 DEF BInv, Overlooked
  <2>2. CASE s \notin blocked
    <3>1. PICK q \in Requests :
            /\ row' = [c \in Bookings |-> RowAfter(q, c)]
            /\ plan[q].kind = "block" /\ phase[q] = "blocks" /\ s = Slot(q)
      BY <2>2, TablesChange
    <3>2. wrote[q] = ""
      BY <3>1 DEF IInv, Sessions, Staged
    <3>3. b \notin flipped[q]
      <4> SUFFICES ASSUME b \in flipped[q] PROVE FALSE
        OBVIOUS
      <4>1. RowAfter(q, b).status = "expired"
        BY <3>2, RowAfterShape
      <4> QED  BY <3>1, <4>1 DEF HoldsSlot
    <3>4. OutOfTime(b, plan[q].at)
      BY <1>1, <3>1, <3>3 DEF BInv, Looked
    <3>5. plan[q].at \in Int /\ plan[q].at <= now
      <4>1. plan[q].at \in 1..Horizon
        BY PlanTypes DEF IInv
      <4> QED  BY <4>1 DEF FlippedInv, FlippedLapsed
    <3> QED  BY <1>0, <3>4, <3>5, LaterOut
  <2> QED  BY <2>1, <2>2
<1>3. Lapsed(b, now)' /\ (HookServes(b)' => Lapsed(b, plan[Hook].at)')
  <2>1. row'[b].status = "pending" /\ row'[b].deadline # Never /\ row'[b].deadline <= now
    BY <1>1, <1>2 DEF OutOfTime, Lapsed
  <2>2. row[b].deadline \in Int
    <3>1. row[b].deadline \in 0..Horizon + Hold
      BY RowTypes DEF IInv
    <3> QED  BY <3>1, DeadlineTypes, TimesArePositive
  <2>3. Lapsed(b, now)'
    BY <1>0, <1>1, <2>1, <2>2 DEF Lapsed
  <2>4. HookServes(b)' => Lapsed(b, plan[Hook].at)'
    BY <1>0, <1>1, <1>2, OutStays DEF BInv
  <2> QED  BY <2>3, <2>4
<1> QED  BY <1>3 DEF OutOfTime

\* A row as one that looks will find it, after a step of somebody else.
LEMMA LookedStays ==
  ASSUME IInv, FlippedInv, BInv, ~PassEachOther, [Next]_vars, NEW q \in Requests,
         plan[q].kind = "block", phase[q] \in {"flip", "blocks"},
         phase'[q] = phase[q], plan'[q] = plan[q],
         NEW b \in Bookings \ (stale[q] \cup flipped[q]),
         row'[b].status \in HoldsSlot, Overlap(row'[b].slot, Slot(q)),
         phase[q] = "blocks" \/ Lapsed(b, plan[q].at)'
  PROVE  OutOfTime(b, plan[q].at)'
<1>0. plan[q].at \in Int /\ plan[q].at <= now
  <2>1. plan[q].at \in 1..Horizon
    BY PlanTypes DEF IInv
  <2> QED  BY <2>1 DEF FlippedInv, FlippedLapsed
<1>1. CASE row'[b] = row[b]
  <2>1. phase[q] = "blocks" \/ Lapsed(b, plan[q].at)
    BY <1>1 DEF Lapsed
  <2>2. OutOfTime(b, plan[q].at)
    BY <1>1, <2>1 DEF BInv, Looked
  <2>3. Lapsed(b, plan[q].at)
    BY <2>2 DEF OutOfTime
  <2>4. HookServes(b)' => Lapsed(b, plan[Hook].at)'
    BY <1>0, <1>1, <2>2, OutStays DEF BInv
  <2>5. Lapsed(b, plan[q].at)'
    BY <1>1, <2>3 DEF Lapsed
  <2> QED  BY <2>4, <2>5 DEF OutOfTime
<1>2. CASE row'[b] # row[b]
  <2>1. PICK r \in Requests : phase[r] = "done" /\ wrote[r] \in HoldsSlot /\ Slot(r) = row'[b].slot
    BY <1>2, NewHold DEF BInv
  <2>2. phase[q] # "blocks"
    BY <2>1 DEF PassEachOther
  <2>3. Lapsed(b, plan[q].at)' /\ row'[b].status = "pending"
    BY <2>2 DEF Lapsed
  <2>4. ~HookServes(b)'
    BY <1>2, <2>3, NewHold DEF BInv
  <2> QED  BY <2>3, <2>4 DEF OutOfTime
<1> QED  BY <1>1, <1>2

\* What a block has seen stays so, whoever moves.
LEMMA LookedNext ==
  ASSUME IInv, FlippedInv, BInv, ~PassEachOther, [Next]_vars, NEW q \in Requests
  PROVE  Looked(q)'
<1>0. /\ phase \in [Requests -> Phases] /\ plan \in [Requests -> Plan]
      /\ stale \in [Requests -> SUBSET Bookings] /\ flipped \in [Requests -> SUBSET Bookings]
  BY DEF IInv, TypeOK
<1> SUFFICES ASSUME plan'[q].kind = "block", phase'[q] \in {"flip", "blocks"}
             PROVE  Looked(q)'
  BY DEF Looked
<1>1. CASE /\ phase'[q] = phase[q] /\ plan'[q] = plan[q]
           /\ stale'[q] = stale[q] /\ flipped'[q] = flipped[q]
  <2>1. phase'[q] = "blocks" => stale'[q] = {}
    BY <1>1 DEF BInv, Looked
  <2>2. Slot(q)' = Slot(q)
    BY <1>1 DEF Slot
  <2>3. ASSUME NEW b \in Bookings \ (stale[q] \cup flipped[q]),
               row'[b].status \in HoldsSlot, Overlap(row'[b].slot, Slot(q)),
               phase[q] = "blocks" \/ Lapsed(b, plan[q].at)'
        PROVE  OutOfTime(b, plan[q].at)'
    BY <1>1, <2>3, LookedStays
  <2> QED  BY <1>1, <2>1, <2>2, <2>3 DEF Looked
<1>2. CASE Still
  BY <1>1, <1>2 DEF Still, PayAtProvider, Tick, vars, session
<1>3. ASSUME NEW r \in Requests, Moves(r), r # q PROVE Looked(q)'
  BY <1>1, <1>3, OneMoves
<1>4. CASE FindStale(q)
  <2>1. /\ phase'[q] = "flip" /\ row' = row /\ plan' = plan
        /\ stale'[q] = {c \in Bookings : /\ Lapsed(c, plan[q].at)
                                         /\ plan[q].kind = "sweep" \/ Overlap(row[c].slot, Slot(q))}
    BY <1>0, <1>4 DEF FindStale, rows
  <2>2. \A b \in Bookings : Lapsed(b, plan[q].at)' => Lapsed(b, plan[q].at)
    BY <2>1 DEF Lapsed
  <2>3. \A b \in Bookings \ stale'[q] :
          ~(Overlap(row'[b].slot, Slot(q)') /\ Lapsed(b, plan[q].at)')
    BY <2>1, <2>2 DEF Slot
  <2> QED  BY <2>1, <2>3 DEF Looked
<1>5. CASE Flip(q)
  <2>1. PICK c \in stale[q] :
          /\ stale'[q] = stale[q] \ {c}
          /\ \/ flipped'[q] = flipped[q] \cup {c}
             \/ flipped'[q] = flipped[q] /\ ~Lapsed(c, plan[q].at)
    BY <1>0, <1>5 DEF Flip, StillLapsed
  <2>2. phase[q] = "flip" /\ phase' = phase /\ plan' = plan /\ row' = row
    BY <1>5 DEF Flip, rows
  <2>3. ASSUME NEW b \in Bookings \ (stale'[q] \cup flipped'[q]),
               row'[b].status \in HoldsSlot, Overlap(row'[b].slot, Slot(q)'),
               Lapsed(b, plan[q].at)'
        PROVE  OutOfTime(b, plan[q].at)'
    <3>1. Lapsed(b, plan[q].at)
      BY <2>2, <2>3 DEF Lapsed
    <3>2. b \notin stale[q] \cup flipped[q]
      BY <2>1, <2>3, <3>1
    <3>3. plan[q].kind = "block" /\ Overlap(row'[b].slot, Slot(q))
      BY <2>2, <2>3 DEF Slot
    <3> QED  BY <2>2, <2>3, <3>2, <3>3, LookedStays
  <2> QED  BY <2>2, <2>3 DEF Looked
<1>6. CASE LookAtBookings(q)
  <2>1. /\ phase[q] = "flip" /\ stale[q] = {}
        /\ plan[q].kind # "sweep"
    BY <1>6 DEF LookAtBookings, FlippedAll
  <2>2. ~Refuse(q)
    BY <1>0 DEF Refuse, Rollback, Close
  <2>3. /\ phase'[q] = "blocks" /\ plan' = plan /\ row' = row /\ stale' = stale
        /\ flipped' = flipped
        /\ \A c \in Bookings : ~SeesHold(q, c)
    BY <1>0, <1>6, <2>2 DEF LookAtBookings, rows
  <2>4. plan[q].kind = "block" /\ Target(q) \notin Bookings
    BY <2>3, NullsAreFresh DEF IInv, Sessions, Staged
  <2>5. ASSUME NEW b \in Bookings \ flipped[q],
               row[b].status \in HoldsSlot, Overlap(row[b].slot, Slot(q))
        PROVE  OutOfTime(b, plan[q].at)
    <3>1. Lapsed(b, plan[q].at)
      BY <2>3, <2>4, <2>5 DEF SeesHold, Holds
    <3> QED  BY <2>1, <2>4, <2>5, <3>1 DEF BInv, Looked
  <2>6. \A b \in Bookings : OutOfTime(b, plan[q].at) => OutOfTime(b, plan[q].at)'
    <3> SUFFICES ASSUME NEW b \in Bookings, OutOfTime(b, plan[q].at)
                 PROVE  OutOfTime(b, plan[q].at)'
      OBVIOUS
    <3>1. plan[q].at \in Int /\ plan[q].at <= now
      <4>1. plan[q].at \in 1..Horizon
        BY PlanTypes DEF IInv
      <4> QED  BY <4>1 DEF FlippedInv, FlippedLapsed
    <3>2. HookServes(b)' => Lapsed(b, plan[Hook].at)'
      BY <2>3, <3>1, OutStays DEF BInv
    <3>3. Lapsed(b, plan[q].at)'
      BY <2>3 DEF OutOfTime, Lapsed
    <3> QED  BY <3>2, <3>3 DEF OutOfTime
  <2> QED  BY <2>1, <2>3, <2>5, <2>6 DEF Looked, Slot
<1>7. ASSUME Moves(q), ~FindStale(q), ~Flip(q), ~LookAtBookings(q) PROVE FALSE
  <2>0. ~Close(q)
    BY <1>0 DEF Close
  <2>1. ~Refuse(q)
    BY <1>0, <2>0 DEF Refuse, Rollback
  <2>2. ~Begin(q) /\ ~(q = Hook /\ BeginPayment)
    <3>1. ASSUME NEW kind, NEW b, NEW s, NEW want, NEW first \in {"lock", "expire"},
                 Start(q, kind, b, s, want, first)
          PROVE  FALSE
      BY <1>0, <3>1 DEF Start
    <3>2. ~Begin(q)
      BY <3>1 DEF Begin, BeginCreate, BeginOnRow, BeginBlock, BeginSweep
    <3>3. ~(q = Hook /\ BeginPayment)
      BY <3>1 DEF BeginPayment
    <3> QED  BY <3>2, <3>3
  <2>3. ~LockToRetake(q) /\ ~LockToCancel(q) /\ ~LockToPay(q)
    BY <1>0, <2>0 DEF LockToRetake, LockToCancel, LockToPay, GoOn, Rollback
  <2>4. ~LookAtBlocks(q) /\ ~Exclude(q)
    BY <1>0, <2>0, <2>1 DEF LookAtBlocks, Exclude, Rollback
  <2>5. ~Victim(q) /\ ~Abandon(q) /\ ~Commit(q) /\ ~CommitBlock(q)
    BY <2>0, <2>1 DEF Victim, Abandon, Commit, CommitBlock, Rollback
  <2> QED  BY <1>7, <2>2, <2>3, <2>4, <2>5 DEF Moves, Work
<1> QED  BY <1>2, <1>3, <1>4, <1>5, <1>6, <1>7, SomebodyMoves

\* Who writes stays clear of the blocks, unless one passes it.
LEMMA ClearNext ==
  ASSUME IInv, BInv, ~PassEachOther, [Next]_vars, NEW r \in Requests
  PROVE  Clear(r)'
<1> SUFFICES ASSUME Writing(r)', wrote'[r] \in HoldsSlot, NEW s \in blocked'
             PROVE  ~Overlap(Slot(r)', s)
  BY DEF Clear
<1>1. CASE /\ Writing(r) /\ wrote[r] = wrote'[r] /\ Slot(r)' = Slot(r)
  <2>1. CASE s \in blocked
    BY <1>1, <2>1 DEF BInv, Clear
  <2>2. CASE s \notin blocked
    <3>1. PICK q \in Requests : plan[q].kind = "block" /\ phase[q] = "blocks" /\ s = Slot(q)
      BY <2>2, TablesChange
    <3> QED  BY <1>1, <3>1 DEF PassEachOther, Writing
  <2> QED  BY <2>1, <2>2
<1>2. CASE Still
  BY <1>1, <1>2 DEF Still, PayAtProvider, Tick, vars, session, Writing, Slot
<1>3. ASSUME NEW q \in Requests, Moves(q), q # r PROVE ~Overlap(Slot(r)', s)
  BY <1>1, <1>3, OneMoves DEF Writing, Slot
<1>4. CASE Moves(r)
  <2>1. plan'[r] = plan[r] /\ blocked' = blocked /\ Slot(r)' = Slot(r)
    BY <1>4, WritingStep DEF Slot
  <2>2. CASE LookAtBlocks(r) /\ ~Refuse(r)
    BY <2>1, <2>2 DEF LookAtBlocks, Overlap
  <2>3. CASE Writing(r) /\ wrote'[r] = wrote[r]
    BY <1>1, <2>1, <2>3
  <2>4. CASE /\ plan[r].kind = "pay" /\ Acquire(r) /\ Holds(Target(r), plan[r].at)
    <3>1. r = Hook /\ phase[r] = "lock"
      BY <2>4 DEF BInv, Payments, Acquire
    <3>2. Target(r) \in Bookings /\ Slot(r) = row[Target(r)].slot
      BY <3>1, WaitsOnRow
    <3>3. HookServes(Target(r)) /\ ~Lapsed(Target(r), plan[Hook].at)
      BY <2>4, <3>1 DEF HookServes, Holds
    <3>4. row[Target(r)].status \in HoldsSlot
      BY <2>4 DEF Holds
    <3> QED  BY <2>1, <3>2, <3>3, <3>4 DEF BInv, Overlooked, OutOfTime
  <2> QED  BY <1>4, <2>2, <2>3, <2>4, WritingStep
<1> QED  BY <1>2, <1>3, <1>4, SomebodyMoves

\* To begin with there are no blocks and no requests.
LEMMA BlocksInit == Init => BInv
<1> SUFFICES ASSUME Init PROVE BInv
  OBVIOUS
<1>1. NoPlan.kind = "sweep"
  BY DEF NoPlan
<1>2. /\ blocked = {} /\ \A r \in Requests : phase[r] = "idle" /\ plan[r] = NoPlan
  BY DEF Init
<1> QED  BY <1>1, <1>2, HookIsARequest
         DEF BInv, Payments, HookPays, Overlooked, Looked, Clear, Writing

\* Blocked hours are free of bookings for as long as no block and no booking
\* pass each other: that is the one way through has_conflicting_booking's two
\* looks, whatever else interleaves.
THEOREM BlockedUnlessPassed == Spec /\ []~PassEachOther => []BlockedIsFree
<1>1. IInv /\ FlippedInv /\ BInv /\ ~PassEachOther /\ [Next]_vars => BInv'
  BY PaymentsNext, OverlookedNext, LookedNext, ClearNext DEF BInv
<1>2. BInv => BlockedIsFree
  BY DEF BInv, Overlooked, OutOfTime, BlockedIsFree, Holds
<1>3. IInv /\ FlippedInv /\ [Next]_vars => FlippedInv'
  BY FlippedNext
<1> QED  BY <1>1, <1>2, <1>3, BlocksInit, FlippedInit, Invariance, PTL DEF Spec
=============================================================================
