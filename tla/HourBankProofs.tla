-------------------------- MODULE HourBankProofs --------------------------
(* For every finite set of purchases, bookings and concurrent requests:    *)
(* the hours of a purchase are never sold twice, debit rows belong to      *)
(* bookings that hold their hours and add up to what is used and held, and *)
(* hours are spent and given back in the order of their expiry.            *)
EXTENDS HourBank, SumProofs

-----------------------------------------------------------------------------
(* The inductive invariant.  NeverOversold says nothing of the hours a     *)
(* request has moved and not committed, so it is not inductive: a commit   *)
(* preserves it only because those hours are covered by rows nobody else   *)
(* can write.                                                              *)

\* Uncommitted hours sit on rows their request has locked.
WritesAreLocked ==
  \A r \in Requests, p \in Purchases :
    rowLock[p] # r => back[r][p] = 0 /\ drawn[r][p] = 0

\* Inside a request, no balance is below zero.
BalancesCovered == \A r \in Requests, p \in Purchases : Balance(r, p) >= 0

DrawsAndDebitsCount ==
  /\ \A r \in Requests, p \in Purchases : drawn[r][p] >= 0
  /\ \A b \in Bookings, p \in Purchases : debit[b][p] >= 0

\* The bookings a request settles are the ones it has locked.
BookingsAreLocked ==
  \A r \in Requests, b \in Bookings :
    b \in plan[r].released \/ b \in expiring[r] \/ b = plan[r].target
      => bookingLock[b] = r

\* A request visits a booking it has flipped.
VisitsOwn ==
  \A r \in Requests :
    /\ phase[r] = "idle" => todo[r] = {}
    /\ phase[r] = "release" /\ todo[r] # {} => visiting[r] \in Bookings

\* Only a shrinking request gives hours back, no more than were debited.
GivesWhatWasDrawn ==
  \A r \in Requests, p \in Purchases :
    \/ gave[r][p] = 0
    \/ /\ phase[r] \in {"giveback", "leave"}
       /\ gave[r][p] > 0
       /\ gave[r][p] <= debit[plan[r].target][p]

ShrinkIsLocked ==
  \A r \in Requests : phase[r] \in {"giveback", "leave"} =>
    /\ plan[r].target \in Bookings
    /\ phase[r] = "giveback" =>
         \A p \in Purchases : debit[plan[r].target][p] > 0 =>
           p \in todo[r] \/ rowLock[p] = r

DeletedIsGone ==
  \A p \in Purchases : purchase[p].status = "deleted" =>
    /\ rowLock[p] = NoRequest
    /\ \A b \in Bookings : debit[b][p] = 0

Inv == /\ TypeOK /\ NeverOversold /\ NoStrayDebits
       /\ WritesAreLocked /\ BalancesCovered /\ DrawsAndDebitsCount
       /\ BookingsAreLocked /\ VisitsOwn /\ GivesWhatWasDrawn
       /\ ShrinkIsLocked /\ DeletedIsGone

-----------------------------------------------------------------------------
(* The ledger.  That the debit rows add up is said of committed rows, and  *)
(* a commit writes what its request has worked out: how much of every      *)
(* released booking it has credited, how much of its own booking's hours   *)
(* it has drawn or given back.  So the invariant says it of a request at   *)
(* work, from rows nobody else can write.                                  *)

\* What a request carries from one step to the next.
KeepsToPlan(r) ==
  /\ phase[r] = "idle" => plan[r] = NoPlan /\ expiring[r] = {} /\ asked[r] = {} /\ need[r] = 0
  /\ asked[r] # {} => phase[r] = "release" /\ todo[r] = {}
  /\ asked[r] \cap plan[r].released = {}
  /\ expiring[r] \subseteq plan[r].released
  /\ expiring[r] # {} => phase[r] = "release"
  /\ phase[r] = "release" /\ todo[r] # {} => visiting[r] \in plan[r].released \ expiring[r]
  /\ \A b \in plan[r].released : booking[b].state \in HoldsHours
  /\ Settles(r) =>
       /\ plan[r].size \in Nat
       /\ IF booking[plan[r].target].state = "none" THEN plan[r].becomes \in HoldsHours
          ELSE plan[r].whole
  /\ phase[r] = "walk" => Enters(r) \/ (HoldsNow(r) /\ ~Shrinks(r))
  /\ phase[r] = "giveback" => Shrinks(r)
  /\ phase[r] = "leave" => /\ plan[r].target \in plan[r].released
                          /\ plan[r].becomes = "released"
  /\ \A p \in Purchases : drawn[r][p] # 0 =>
       phase[r] \in {"walk", "leave"} /\ purchase[p].status = "active"
  /\ phase[r] = "leave" =>
       \A p \in Purchases \ todo[r] : drawn[r][p] = 0 /\ gave[r][p] = 0

\* The debits of p that the released bookings have been credited for: of the
\* one being visited, those whose row is no longer to do.
Returned(r, p) == [b \in Bookings |->
  IF /\ b \in plan[r].released \ expiring[r]
     /\ ~(phase[r] = "release" /\ b = visiting[r] /\ p \in todo[r])
     /\ ~(phase[r] = "leave" /\ b = plan[r].target /\ p \in todo[r])
  THEN debit[b][p] ELSE 0]

CreditsAddUp(r) ==
  \A p \in Purchases : back[r][p] = SumFunction(Returned(r, p)) + gave[r][p]

\* What is still to draw or to give back is what was asked for less what was
\* drawn or given back.
NeedIsLeft(r) ==
  Settles(r) =>
    /\ phase[r] = "release" => need[r] = 0
    /\ phase[r] \in {"walk", "giveback"} =>
         SumFunction(drawn[r]) + SumFunction(gave[r]) + need[r] = Asked(r)

\* While hours are still to give back, no row has given back only some of its own.
GivesAll(r) ==
  phase[r] = "giveback" /\ need[r] > 0 =>
    \A p \in Purchases : gave[r][p] \in {0, debit[plan[r].target][p]}

GivesLatestFirst(r) ==
  phase[r] = "giveback" => \A p, q \in Purchases :
    gave[r][p] > 0 /\ p # q /\ Earlier(r, p, q) => gave[r][q] = debit[plan[r].target][q]

\* What was drawn on comes before what is still to do; a row that was looked
\* at and has hours left is the one that ended the walk.
WalksInOrder(r) ==
  phase[r] = "walk" =>
    /\ \A q \in Purchases : drawn[r][q] # 0 =>
         q \notin todo[r] /\ \A p \in todo[r] : Earlier(r, q, p)
    /\ \A p \in Purchases : rowLock[p] = r /\ p \notin todo[r] /\ Spendable(r, p) =>
         /\ need[r] = 0
         /\ \A q \in Purchases : drawn[r][q] # 0 => q = p \/ Earlier(r, q, p)

Account(r) == /\ KeepsToPlan(r) /\ CreditsAddUp(r) /\ NeedIsLeft(r)
              /\ GivesAll(r) /\ GivesLatestFirst(r) /\ WalksInOrder(r)

DurationsCount == \A b \in Bookings : booking[b].duration >= 0

AbsentIsUnused ==
  \A p \in Purchases : purchase[p].status = "absent" => purchase[p].used = 0

Ledger == /\ \A r \in Requests : Account(r)
          /\ DurationsCount /\ AbsentIsUnused /\ UsedIsDebited /\ ShareIsDebited

-----------------------------------------------------------------------------
(* Each step keeps the rows and the locks in order.                         *)

USE DEF Times, Phases, HoldsHours, PurchaseRow, BookingRow, Plan, NoHours, NoPlan

\* An empty bank, and nobody at work.
LEMMA InitInv == Init => Inv
<1> SUFFICES ASSUME Init PROVE Inv
  OBVIOUS
<1> USE HoursArePositive, NullsAreFresh DEF Init, AbsentRow, Row
<1>1. TypeOK
  BY DEF TypeOK
<1>2. NeverOversold /\ NoStrayDebits
  BY DEF NeverOversold, NoStrayDebits
<1>3. WritesAreLocked /\ BalancesCovered /\ DrawsAndDebitsCount
  BY DEF WritesAreLocked, BalancesCovered, DrawsAndDebitsCount, Balance
<1>4. BookingsAreLocked /\ VisitsOwn
  BY DEF BookingsAreLocked, VisitsOwn
<1>5. GivesWhatWasDrawn /\ ShrinkIsLocked /\ DeletedIsGone
  BY DEF GivesWhatWasDrawn, ShrinkIsLocked, DeletedIsGone
<1> QED
  BY <1>1, <1>2, <1>3, <1>4, <1>5 DEF Inv

\* What locking row p does: it takes no other row away, and never holds one
\* that is gone.
RowTaken(r, p) ==
  /\ p \in todo[r]
  /\ todo' \in [Requests -> SUBSET Purchases]
  /\ \A u \in Requests, q \in Purchases : q \in todo[u] /\ q # p => q \in todo'[u]
  /\ \A u \in Requests : todo'[u] \subseteq todo[u]
  /\ \A u \in Requests \ {r} : todo'[u] = todo[u]
  /\ rowLock' \in [Purchases -> Requests \cup {NoRequest}]
  /\ \A u \in Requests, q \in Purchases : rowLock[q] = u => rowLock'[q] = u
  /\ purchase[p].status # "deleted" => rowLock'[p] = r
  /\ \A q \in Purchases : purchase[q].status = "deleted" => rowLock'[q] = NoRequest

\* SELECT ... FOR UPDATE takes a free row, or one the request has already.
LEMMA LockRowEffect ==
  ASSUME TypeOK, DeletedIsGone, NEW r \in Requests, NEW p \in Purchases, LockRow(r, p)
  PROVE  RowTaken(r, p)
  BY NullsAreFresh DEF RowTaken, LockRow, IsFirst, CanLock, TypeOK, DeletedIsGone

\* Opening a request moves no hours and locks no purchase row.
LEMMA OpenInv ==
  ASSUME Inv, NEW r \in Requests, NEW b \in Bookings \cup {NoBooking},
         NEW f \in Plan, NEW S \in SUBSET Bookings, Open(r, b, f, S),
         f.target = b, f.released = {},
         b \in Bookings => bookingLock[b] = NoRequest
  PROVE  Inv'
<1> USE NullsAreFresh DEF rows, locks, session, Open
<1>1. TypeOK'
  BY DEF Inv, TypeOK
<1>2. NeverOversold' /\ NoStrayDebits'
  BY DEF Inv, TypeOK, NeverOversold, NoStrayDebits
<1>3. WritesAreLocked' /\ BalancesCovered' /\ DrawsAndDebitsCount'
  BY DEF Inv, TypeOK, WritesAreLocked, BalancesCovered, DrawsAndDebitsCount, Balance
<1>4. BookingsAreLocked'
  BY DEF Inv, TypeOK, BookingsAreLocked
<1>5. VisitsOwn'
  <2>1. ASSUME NEW u \in Requests
        PROVE  /\ phase'[u] = "idle" => todo'[u] = {}
               /\ phase'[u] = "release" /\ todo'[u] # {} => visiting'[u] \in Bookings
    <3>1. CASE u = r
      BY <3>1 DEF Inv, TypeOK, VisitsOwn
    <3>2. CASE u # r
      BY <3>2 DEF Inv, TypeOK, VisitsOwn
    <3> QED
      BY <3>1, <3>2
  <2> QED
    BY <2>1 DEF VisitsOwn
<1>6. GivesWhatWasDrawn' /\ ShrinkIsLocked' /\ DeletedIsGone'
  BY DEF Inv, TypeOK, GivesWhatWasDrawn, ShrinkIsLocked, DeletedIsGone
<1> QED
  BY <1>1, <1>2, <1>3, <1>4, <1>5, <1>6 DEF Inv

\* One more row of the UPDATE: a booking is locked, no hours move.
LEMMA FlipHoldInv ==
  ASSUME Inv, Ledger, NEW r \in Requests, FlipHold(r)
  PROVE  Inv'
<1> USE NullsAreFresh DEF rows, locks, session
<1> PICK b \in asked[r] :
      /\ bookingLock[b] \in {r, NoRequest}
      /\ asked' = [asked EXCEPT ![r] = @ \ {b}]
      /\ IF StillPending(b)
         THEN /\ bookingLock' = [bookingLock EXCEPT ![b] = r]
              /\ plan' = [plan EXCEPT ![r].released = @ \cup {b}]
              /\ expiring' = [expiring EXCEPT ![r] = @ \cup {b}]
         ELSE UNCHANGED <<bookingLock, plan, expiring>>
  BY DEF FlipHold
<1>0. /\ UNCHANGED <<now, rows, rowLock, phase, visiting, todo, order, need, drawn, back, gave>>
      /\ b \in Bookings
  BY DEF FlipHold, Inv, TypeOK
<1>r. phase[r] = "release"
  BY DEF Ledger, Account, KeepsToPlan
<1>p. /\ plan' \in [Requests -> Plan]
      /\ \A u \in Requests : plan'[u].target = plan[u].target
      /\ \A u \in Requests \ {r} : plan'[u] = plan[u]
      /\ plan'[r].released \subseteq plan[r].released \cup {b}
      /\ ~StillPending(b) => plan'[r].released = plan[r].released
  <2>1. plan \in [Requests -> Plan]
    BY DEF Inv, TypeOK
  <2>2. CASE StillPending(b)
    <3>1. plan' = [plan EXCEPT ![r] = [plan[r] EXCEPT !.released = plan[r].released \cup {b}]]
      BY <2>1, <2>2
    <3>2. [plan[r] EXCEPT !.released = plan[r].released \cup {b}] \in Plan
      BY <1>0, <2>1
    <3> QED
      BY <2>1, <2>2, <3>1, <3>2
  <2> QED
    BY <2>1, <2>2
<1>b. /\ bookingLock' \in [Bookings -> Requests \cup {NoRequest}]
      /\ expiring' \in [Requests -> SUBSET Bookings]
      /\ \A u \in Requests, c \in Bookings : bookingLock[c] = u => bookingLock'[c] = u
      /\ \A u \in Requests \ {r} : expiring'[u] = expiring[u]
      /\ expiring'[r] \subseteq expiring[r] \cup {b}
      /\ IF StillPending(b) THEN bookingLock'[b] = r ELSE expiring'[r] = expiring[r]
  <2>1. /\ bookingLock \in [Bookings -> Requests \cup {NoRequest}]
        /\ expiring \in [Requests -> SUBSET Bookings]
        /\ bookingLock[b] \in {r, NoRequest}
    BY DEF Inv, TypeOK
  <2>2. CASE StillPending(b)
    <3>1. /\ bookingLock' = [bookingLock EXCEPT ![b] = r]
          /\ expiring' = [expiring EXCEPT ![r] = @ \cup {b}]
      BY <2>2
    <3>2. /\ bookingLock' \in [Bookings -> Requests \cup {NoRequest}]
          /\ \A u \in Requests, c \in Bookings : bookingLock[c] = u => bookingLock'[c] = u
          /\ bookingLock'[b] = r
      BY <1>0, <2>1, <3>1
    <3>3. /\ expiring' \in [Requests -> SUBSET Bookings]
          /\ \A u \in Requests \ {r} : expiring'[u] = expiring[u]
          /\ expiring'[r] \subseteq expiring[r] \cup {b}
      BY <1>0, <2>1, <3>1
    <3> QED
      BY <2>2, <3>2, <3>3
  <2>3. CASE ~StillPending(b)
    <3>1. bookingLock' = bookingLock /\ expiring' = expiring
      BY <2>3
    <3> QED
      BY <2>1, <2>3, <3>1
  <2> QED
    BY <2>2, <2>3
<1>1. TypeOK'
  BY <1>0, <1>p, <1>b DEF Inv, TypeOK
<1>2. NeverOversold' /\ NoStrayDebits' /\ WritesAreLocked' /\ DrawsAndDebitsCount'
  BY <1>0 DEF Inv, NeverOversold, NoStrayDebits, WritesAreLocked, DrawsAndDebitsCount
<1>3. BalancesCovered'
  BY <1>0 DEF Inv, BalancesCovered, Balance
<1>4. BookingsAreLocked'
  <2> SUFFICES ASSUME NEW u \in Requests, NEW c \in Bookings,
                      c \in plan'[u].released \/ c \in expiring'[u] \/ c = plan'[u].target
               PROVE  bookingLock'[c] = u
    BY DEF BookingsAreLocked
  <2>1. \/ c \in plan[u].released \/ c \in expiring[u] \/ c = plan[u].target
        \/ u = r /\ c = b /\ StillPending(b)
    BY <1>p, <1>b
  <2> QED
    BY <2>1, <1>b DEF Inv, BookingsAreLocked
<1>5. VisitsOwn' /\ DeletedIsGone'
  BY <1>0 DEF Inv, VisitsOwn, DeletedIsGone
<1>6. GivesWhatWasDrawn' /\ ShrinkIsLocked'
  BY <1>0, <1>r, <1>p DEF Inv, TypeOK, GivesWhatWasDrawn, ShrinkIsLocked
<1> QED
  BY <1>1, <1>2, <1>3, <1>4, <1>5, <1>6 DEF Inv

\* The second UPDATE is asked for: nothing is locked or written yet.
LEMMA FlipAgainInv ==
  ASSUME Inv, NEW r \in Requests, FlipAgain(r)
  PROVE  Inv'
<1> USE NullsAreFresh DEF rows, locks, session
<1>0. UNCHANGED <<now, rows, locks, phase, expiring, visiting, todo, order, need, drawn, back, gave>>
  BY DEF FlipAgain
<1>p. /\ plan' \in [Requests -> Plan]
      /\ \A u \in Requests : /\ plan'[u].target = plan[u].target
                              /\ plan'[u].released = plan[u].released
  <2>1. plan \in [Requests -> Plan]
    BY DEF Inv, TypeOK
  <2>2. plan' = [plan EXCEPT ![r] = [plan[r] EXCEPT !.again = FALSE]]
    BY <2>1 DEF FlipAgain
  <2>3. [plan[r] EXCEPT !.again = FALSE] \in Plan
    BY <2>1
  <2> QED
    BY <2>1, <2>2, <2>3
<1>a. asked' \in [Requests -> SUBSET Bookings]
  BY DEF FlipAgain, Pending, Inv, TypeOK
<1>1. TypeOK'
  BY <1>0, <1>p, <1>a DEF Inv, TypeOK
<1>2. NeverOversold' /\ NoStrayDebits' /\ WritesAreLocked' /\ DrawsAndDebitsCount'
  BY <1>0 DEF Inv, NeverOversold, NoStrayDebits, WritesAreLocked, DrawsAndDebitsCount
<1>3. BalancesCovered'
  BY <1>0 DEF Inv, BalancesCovered, Balance
<1>4. BookingsAreLocked' /\ VisitsOwn' /\ DeletedIsGone'
  BY <1>0, <1>p DEF Inv, BookingsAreLocked, VisitsOwn, DeletedIsGone
<1>5. GivesWhatWasDrawn' /\ ShrinkIsLocked'
  BY <1>0, <1>p DEF Inv, GivesWhatWasDrawn, ShrinkIsLocked
<1> QED
  BY <1>1, <1>2, <1>3, <1>4, <1>5 DEF Inv

\* The target is to be let go: the rows it drew on are read.
LEMMA BeginLeaveInv ==
  ASSUME Inv, NEW r \in Requests, BeginLeave(r)
  PROVE  Inv'
<1> USE NullsAreFresh DEF rows, locks, session
<1>0. /\ UNCHANGED <<now, rows, locks, asked, expiring, visiting, need, drawn, back, gave>>
      /\ phase' = [phase EXCEPT ![r] = "leave"]
      /\ plan[r].target \in Bookings
  BY DEF BeginLeave, Leaves, HoldsNow, Settles, Inv, TypeOK
<1>p. /\ plan' \in [Requests -> Plan]
      /\ \A u \in Requests : plan'[u].target = plan[u].target
      /\ \A u \in Requests \ {r} : plan'[u] = plan[u]
      /\ plan'[r].released = plan[r].released \cup {plan[r].target}
  <2>1. plan \in [Requests -> Plan]
    BY DEF Inv, TypeOK
  <2> DEFINE f == [plan[r] EXCEPT !.released = plan[r].released \cup {plan[r].target}]
  <2>2. plan' = [plan EXCEPT ![r] = f]
    BY <2>1 DEF BeginLeave
  <2>3. f \in Plan /\ f.target = plan[r].target
        /\ f.released = plan[r].released \cup {plan[r].target}
    BY <1>0, <2>1
  <2> HIDE DEF f
  <2> QED
    BY <2>1, <2>2, <2>3
<1>t. /\ todo' \in [Requests -> SUBSET Purchases] /\ order' \in [Requests -> [Purchases -> Times]]
      /\ \A u \in Requests \ {r} : todo'[u] = todo[u]
  BY DEF BeginLeave, ReadRows, Expiries, Inv, TypeOK
<1>1. TypeOK'
  BY <1>0, <1>p, <1>t DEF Inv, TypeOK
<1>2. NeverOversold' /\ NoStrayDebits' /\ WritesAreLocked' /\ DrawsAndDebitsCount'
  BY <1>0 DEF Inv, NeverOversold, NoStrayDebits, WritesAreLocked, DrawsAndDebitsCount
<1>3. BalancesCovered'
  BY <1>0 DEF Inv, BalancesCovered, Balance
<1>4. BookingsAreLocked'
  <2> SUFFICES ASSUME NEW u \in Requests, NEW c \in Bookings,
                      c \in plan'[u].released \/ c \in expiring'[u] \/ c = plan'[u].target
               PROVE  bookingLock'[c] = u
    BY DEF BookingsAreLocked
  <2>1. c \in plan[u].released \/ c \in expiring[u] \/ c = plan[u].target
    BY <1>0, <1>p
  <2> QED
    BY <2>1, <1>0 DEF Inv, BookingsAreLocked
<1>f. /\ phase'[r] = "leave"
      /\ \A u \in Requests \ {r} : phase'[u] = phase[u]
  BY <1>0 DEF Inv, TypeOK
<1>6. VisitsOwn' /\ DeletedIsGone'
  <2> SUFFICES ASSUME NEW u \in Requests
               PROVE  /\ phase'[u] = "idle" => todo'[u] = {}
                      /\ phase'[u] = "release" /\ todo'[u] # {} => visiting'[u] \in Bookings
    BY <1>0 DEF Inv, VisitsOwn, DeletedIsGone
  <2> QED
    BY <1>0, <1>f, <1>t DEF Inv, VisitsOwn
<1>5. GivesWhatWasDrawn' /\ ShrinkIsLocked'
  BY <1>0, <1>p, <1>t, <1>f DEF Inv, GivesWhatWasDrawn, ShrinkIsLocked
<1> QED
  BY <1>1, <1>2, <1>3, <1>4, <1>5, <1>6 DEF Inv

\* All the target holds of one row goes back, under the row's lock.
LEMMA LeaveRowInv ==
  ASSUME Inv, NEW r \in Requests, LeaveRow(r)
  PROVE  Inv'
<1> USE NullsAreFresh DEF rows, locks, session
<1> DEFINE b == plan[r].target
           left(p) == debit[b][p] - gave[r][p]
<1> PICK p \in Purchases :
      /\ LockRow(r, p)
      /\ back' = [back EXCEPT ![r][p] = @ + debit[plan[r].target][p] - gave[r][p]]
      /\ drawn' = [drawn EXCEPT ![r][p] = 0]
      /\ gave' = [gave EXCEPT ![r][p] = 0]
  BY DEF LeaveRow
<1>0. /\ phase[r] = "leave" /\ b \in Bookings
      /\ UNCHANGED <<now, rows, bookingLock, phase, plan, asked, expiring, visiting, order, need>>
  BY DEF LeaveRow, Inv, ShrinkIsLocked
<1>l. RowTaken(r, p)
  BY LockRowEffect DEF Inv
<1>g. /\ left(p) \in Nat /\ gave[r][p] \in Int /\ back[r][p] \in Int
      /\ debit[b][p] \in Int
      /\ purchase[p].status = "deleted" => left(p) = 0
  <2>1. gave[r][p] \in Int /\ back[r][p] \in Int /\ debit[b][p] \in Int
    BY <1>0 DEF Inv, TypeOK
  <2>2. debit[b][p] >= 0 /\ (gave[r][p] = 0 \/ (gave[r][p] > 0 /\ gave[r][p] <= debit[b][p]))
    BY <1>0 DEF Inv, GivesWhatWasDrawn, DrawsAndDebitsCount
  <2>3. purchase[p].status = "deleted" => debit[b][p] = 0
    BY <1>0 DEF Inv, DeletedIsGone
  <2> HIDE DEF b
  <2> QED
    BY <2>1, <2>2, <2>3
<1>b. /\ back' \in [Requests -> [Purchases -> Int]]
      /\ \A u \in Requests, q \in Purchases :
           back'[u][q] = IF u = r /\ q = p THEN back[u][q] + left(p) ELSE back[u][q]
  <2>1. back \in [Requests -> [Purchases -> Int]]
    BY DEF Inv, TypeOK
  <2> QED
    BY <2>1, <1>g
<1>d. /\ drawn' \in [Requests -> [Purchases -> Int]] /\ gave' \in [Requests -> [Purchases -> Int]]
      /\ \A u \in Requests, q \in Purchases :
           /\ drawn'[u][q] = IF u = r /\ q = p THEN 0 ELSE drawn[u][q]
           /\ gave'[u][q] = IF u = r /\ q = p THEN 0 ELSE gave[u][q]
  BY DEF Inv, TypeOK
<1> HIDE DEF left
<1>1. TypeOK'
  BY <1>0, <1>b, <1>d, <1>l DEF Inv, TypeOK, RowTaken
<1>2. NeverOversold' /\ NoStrayDebits' /\ BookingsAreLocked'
  BY <1>0 DEF Inv, NeverOversold, NoStrayDebits, BookingsAreLocked
<1>3. WritesAreLocked'
  BY <1>0, <1>b, <1>d, <1>g, <1>l DEF Inv, TypeOK, WritesAreLocked, RowTaken
<1>4. BalancesCovered'
  BY <1>0, <1>b, <1>d, <1>g DEF Inv, TypeOK, BalancesCovered, Balance, DrawsAndDebitsCount
<1>5. DrawsAndDebitsCount'
  BY <1>0, <1>d DEF Inv, DrawsAndDebitsCount
<1>6. VisitsOwn'
  BY <1>0, <1>l DEF Inv, VisitsOwn, RowTaken
<1>7. GivesWhatWasDrawn'
  BY <1>0, <1>d DEF Inv, GivesWhatWasDrawn
<1>8. ShrinkIsLocked'
  BY <1>0, <1>l DEF Inv, TypeOK, ShrinkIsLocked, RowTaken
<1>9. DeletedIsGone'
  BY <1>0, <1>l DEF Inv, DeletedIsGone, RowTaken
<1> QED
  BY <1>1, <1>2, <1>3, <1>4, <1>5, <1>6, <1>7, <1>8, <1>9 DEF Inv

\* The next flipped booking: its debit rows are read, nothing is written.
LEMMA VisitBookingInv ==
  ASSUME Inv, NEW r \in Requests, VisitBooking(r)
  PROVE  Inv'
<1> USE NullsAreFresh DEF rows, locks, session, VisitBooking, ReadRows, Drawn, Expiries
<1>1. TypeOK'
  BY DEF Inv, TypeOK
<1>2. NeverOversold' /\ NoStrayDebits' /\ WritesAreLocked' /\ DrawsAndDebitsCount'
  BY DEF Inv, NeverOversold, NoStrayDebits, WritesAreLocked, DrawsAndDebitsCount
<1>3. BalancesCovered'
  BY DEF Inv, BalancesCovered, Balance
<1>4. BookingsAreLocked' /\ VisitsOwn'
  BY DEF Inv, TypeOK, BookingsAreLocked, VisitsOwn
<1>5. GivesWhatWasDrawn' /\ ShrinkIsLocked' /\ DeletedIsGone'
  BY DEF Inv, TypeOK, GivesWhatWasDrawn, ShrinkIsLocked, BookingsAreLocked, DeletedIsGone
<1> QED
  BY <1>1, <1>2, <1>3, <1>4, <1>5 DEF Inv

\* A credit goes on a row the request now holds.
LEMMA CreditRowInv ==
  ASSUME Inv, NEW r \in Requests, CreditRow(r)
  PROVE  Inv'
<1> USE NullsAreFresh DEF rows, locks, session
<1> PICK p \in Purchases :
      LockRow(r, p) /\ back' = [back EXCEPT ![r][p] = @ + Credited(r, p)]
  BY DEF CreditRow
<1>0. /\ phase[r] = "release"
      /\ UNCHANGED <<now, rows, bookingLock, phase, plan, asked, expiring, visiting, order, need, drawn, gave>>
  BY DEF CreditRow
<1>l. RowTaken(r, p)
  BY LockRowEffect DEF Inv
\* What comes back is what the flipped booking had drawn on p.
<1>c. /\ Credited(r, p) \in Nat
      /\ purchase[p].status = "deleted" => Credited(r, p) = 0
  <2>1. visiting[r] \in Bookings
    BY <1>0, <1>l DEF Inv, VisitsOwn, RowTaken
  <2> QED
    BY <2>1 DEF Inv, TypeOK, Credited, DrawsAndDebitsCount, DeletedIsGone
<1>b. /\ back' \in [Requests -> [Purchases -> Int]]
      /\ \A u \in Requests, q \in Purchases :
           back'[u][q] = IF u = r /\ q = p THEN back[u][q] + Credited(r, p) ELSE back[u][q]
  <2>1. back \in [Requests -> [Purchases -> Int]]
    BY DEF Inv, TypeOK
  <2> HIDE DEF CreditRow
  <2> QED
    BY <2>1, <1>c
<1>1. TypeOK'
  BY <1>0, <1>b, <1>l DEF Inv, TypeOK, RowTaken
<1>2. NeverOversold' /\ NoStrayDebits' /\ DrawsAndDebitsCount' /\ BookingsAreLocked'
  BY <1>0 DEF Inv, NeverOversold, NoStrayDebits, DrawsAndDebitsCount, BookingsAreLocked
<1>3. WritesAreLocked'
  BY <1>0, <1>b, <1>c, <1>l DEF Inv, TypeOK, WritesAreLocked, DeletedIsGone, RowTaken
<1>4. BalancesCovered'
  BY <1>0, <1>b, <1>c DEF Inv, TypeOK, BalancesCovered, Balance
<1>5. VisitsOwn'
  BY <1>0, <1>l DEF Inv, VisitsOwn, RowTaken
<1>6. GivesWhatWasDrawn'
  BY <1>0 DEF Inv, GivesWhatWasDrawn
<1>7. ShrinkIsLocked'
  BY <1>0, <1>l DEF Inv, TypeOK, ShrinkIsLocked, RowTaken
<1>8. DeletedIsGone'
  BY <1>0, <1>l DEF Inv, DeletedIsGone, RowTaken
<1> QED
  BY <1>1, <1>2, <1>3, <1>4, <1>5, <1>6, <1>7, <1>8 DEF Inv

\* What a booking asks for is a number of hours.
LEMMA AskedIsHours ==
  ASSUME TypeOK, NEW r \in Requests, Settles(r)
  PROVE  Asked(r) \in Int
<1>1. /\ plan[r].target \in Bookings /\ plan[r].size \in Int
      /\ booking[plan[r].target] \in BookingRow
  BY DEF TypeOK, Settles
<1> QED
  BY <1>1 DEF Asked, Extra, Positive, Smaller

\* The candidates, or the rows of a shrinking booking, are read; nothing is
\* written.
LEMMA SettleInv ==
  ASSUME Inv, NEW r \in Requests, NEW next \in {"walk", "giveback"}, NEW P \in SUBSET Purchases,
         Settle(r, next, P), Settles(r), Asked(r) >= 0,
         next = "giveback" => P = Drawn(plan[r].target)
  PROVE  Inv'
<1> USE NullsAreFresh DEF rows, locks, session
<1>0. /\ phase[r] = "release" /\ plan[r].target \in Bookings
      /\ phase' = [phase EXCEPT ![r] = next]
      /\ todo' = [todo EXCEPT ![r] = P]
      /\ UNCHANGED <<now, rows, locks, plan, asked, expiring, visiting, drawn, back, gave>>
  BY DEF Settle, ReleasedAll, ReadRows, Settles, Inv, TypeOK
<1>1. TypeOK'
  <2>1. need' \in [Requests -> Nat]
    BY AskedIsHours DEF Settle, Inv, TypeOK
  <2>2. order' \in [Requests -> [Purchases -> Times]]
    BY DEF Settle, ReadRows, Expiries, Inv, TypeOK
  <2> QED
    BY <1>0, <2>1, <2>2 DEF Inv, TypeOK
<1>2. NeverOversold' /\ NoStrayDebits' /\ WritesAreLocked' /\ DrawsAndDebitsCount'
  BY <1>0 DEF Inv, NeverOversold, NoStrayDebits, WritesAreLocked, DrawsAndDebitsCount
<1>3. BalancesCovered'
  BY <1>0 DEF Inv, BalancesCovered, Balance
<1>4. BookingsAreLocked' /\ VisitsOwn'
  BY <1>0 DEF Inv, TypeOK, BookingsAreLocked, VisitsOwn
<1>5. GivesWhatWasDrawn' /\ DeletedIsGone'
  BY <1>0 DEF Inv, TypeOK, GivesWhatWasDrawn, DeletedIsGone
<1>6. ShrinkIsLocked'
  BY <1>0 DEF Inv, TypeOK, ShrinkIsLocked, Drawn
<1> QED
  BY <1>1, <1>2, <1>3, <1>4, <1>5, <1>6 DEF Inv

LEMMA BeginWalkInv ==
  ASSUME Inv, NEW r \in Requests, BeginWalk(r)
  PROVE  Inv'
<1>1. /\ Settle(r, "walk", {p \in Purchases : Spendable(r, p)})
      /\ Settles(r) /\ Asked(r) > 0
  BY DEF BeginWalk, Enters, HoldsNow
<1>2. Asked(r) \in Int
  BY <1>1, AskedIsHours DEF Inv
<1> QED
  BY <1>1, <1>2, SettleInv

\* A draw never exceeds the balance read under the lock.
LEMMA WalkRowInv ==
  ASSUME Inv, NEW r \in Requests, WalkRow(r)
  PROVE  Inv'
<1> USE NullsAreFresh DEF rows, locks, session
<1> PICK p \in Purchases :
      /\ LockRow(r, p)
      /\ need' = [need EXCEPT ![r] = @ - Taken(r, p)]
      /\ drawn' = [drawn EXCEPT ![r][p] = @ + Taken(r, p)]
  BY DEF WalkRow
<1>0. /\ phase[r] = "walk"
      /\ UNCHANGED <<now, rows, bookingLock, phase, plan, asked, expiring, visiting, order, back, gave>>
  BY DEF WalkRow
<1>l. RowTaken(r, p)
  BY LockRowEffect DEF Inv
\* The draw fits the balance and the hours still needed.
<1>t. /\ Taken(r, p) \in Nat
      /\ Taken(r, p) <= need[r]
      /\ Taken(r, p) > 0 => Taken(r, p) <= Balance(r, p)
      /\ purchase[p].status = "deleted" => Taken(r, p) = 0
  BY DEF Inv, TypeOK, Taken, Spendable, Smaller, Balance
<1>d. /\ drawn' \in [Requests -> [Purchases -> Int]]
      /\ \A u \in Requests, q \in Purchases :
           drawn'[u][q] = IF u = r /\ q = p THEN drawn[u][q] + Taken(r, p) ELSE drawn[u][q]
  <2>1. drawn \in [Requests -> [Purchases -> Int]]
    BY DEF Inv, TypeOK
  <2> QED
    BY <2>1, <1>t
<1>n. need' \in [Requests -> Nat]
  BY <1>t DEF Inv, TypeOK
<1>1. TypeOK'
  BY <1>0, <1>d, <1>n, <1>l DEF Inv, TypeOK, RowTaken
<1>2. NeverOversold' /\ NoStrayDebits' /\ BookingsAreLocked'
  BY <1>0 DEF Inv, NeverOversold, NoStrayDebits, BookingsAreLocked
<1>3. WritesAreLocked'
  BY <1>0, <1>d, <1>t, <1>l DEF Inv, TypeOK, WritesAreLocked, DeletedIsGone, RowTaken
<1>4. BalancesCovered'
  BY <1>0, <1>d, <1>t DEF Inv, TypeOK, BalancesCovered, Balance
<1>5. DrawsAndDebitsCount'
  BY <1>0, <1>d, <1>t DEF Inv, TypeOK, DrawsAndDebitsCount
<1>6. VisitsOwn'
  BY <1>0, <1>l DEF Inv, VisitsOwn, RowTaken
<1>7. GivesWhatWasDrawn'
  BY <1>0 DEF Inv, GivesWhatWasDrawn
<1>8. ShrinkIsLocked'
  BY <1>0, <1>l DEF Inv, TypeOK, ShrinkIsLocked, RowTaken
<1>9. DeletedIsGone'
  BY <1>0, <1>l DEF Inv, DeletedIsGone, RowTaken
<1> QED
  BY <1>1, <1>2, <1>3, <1>4, <1>5, <1>6, <1>7, <1>8, <1>9 DEF Inv

LEMMA BeginGivebackInv ==
  ASSUME Inv, NEW r \in Requests, BeginGiveback(r)
  PROVE  Inv'
<1>1. Settle(r, "giveback", Drawn(plan[r].target)) /\ Settles(r) /\ Shrinks(r)
  BY DEF BeginGiveback, Shrinks, HoldsNow
<1>2. /\ plan[r].target \in Bookings /\ plan[r].size \in Int
      /\ booking[plan[r].target] \in BookingRow
  BY <1>1 DEF Inv, TypeOK, Settles
<1>3. Asked(r) > 0
  <2> DEFINE b == booking[plan[r].target]
  <2>1. b.state # "none" /\ plan[r].size < b.share /\ b.share \in Int /\ HoldsNow(r)
    BY <1>1, <1>2 DEF Shrinks, HoldsNow
  <2>2. Asked(r) = b.share - plan[r].size
    BY <1>1, <2>1 DEF Asked
  <2> QED
    BY <1>2, <2>1, <2>2
<1>4. Drawn(plan[r].target) \in SUBSET Purchases
  BY DEF Drawn
<1>5. Asked(r) \in Int
  BY <1>1, AskedIsHours DEF Inv
<1> QED
  BY <1>1, <1>3, <1>4, <1>5, SettleInv

\* One more row of the shrinking booking is locked.
LEMMA LockDebitedInv ==
  ASSUME Inv, NEW r \in Requests, LockDebited(r)
  PROVE  Inv'
<1> USE NullsAreFresh DEF rows, locks, session
<1> PICK p \in Purchases : LockRow(r, p)
  BY DEF LockDebited
<1>0. /\ phase[r] = "giveback"
      /\ UNCHANGED <<now, rows, bookingLock, phase, plan, asked, expiring, visiting, order, need,
                     drawn, back, gave>>
  BY DEF LockDebited
<1>l. RowTaken(r, p)
  BY LockRowEffect DEF Inv
<1>1. TypeOK'
  BY <1>0, <1>l DEF Inv, TypeOK, RowTaken
<1>2. NeverOversold' /\ NoStrayDebits' /\ DrawsAndDebitsCount' /\ BookingsAreLocked'
  BY <1>0 DEF Inv, NeverOversold, NoStrayDebits, DrawsAndDebitsCount, BookingsAreLocked
<1>3. WritesAreLocked' /\ BalancesCovered'
  BY <1>0, <1>l DEF Inv, TypeOK, WritesAreLocked, BalancesCovered, Balance, RowTaken
<1>4. VisitsOwn'
  BY <1>0, <1>l DEF Inv, VisitsOwn, RowTaken
<1>5. GivesWhatWasDrawn'
  BY <1>0 DEF Inv, GivesWhatWasDrawn
<1>6. ShrinkIsLocked'
  BY <1>0, <1>l DEF Inv, TypeOK, ShrinkIsLocked, DeletedIsGone, RowTaken
<1>7. DeletedIsGone'
  BY <1>0, <1>l DEF Inv, DeletedIsGone, RowTaken
<1> QED
  BY <1>1, <1>2, <1>3, <1>4, <1>5, <1>6, <1>7 DEF Inv

\* Hours go back, no more than this booking had drawn.
LEMMA GiveRowInv ==
  ASSUME Inv, NEW r \in Requests, GiveRow(r)
  PROVE  Inv'
<1> USE NullsAreFresh DEF rows, locks, session
<1> DEFINE give(p) == Smaller(debit[plan[r].target][p], need[r])
<1> PICK p \in Purchases :
      /\ GivesNext(r, p)
      /\ need' = [need EXCEPT ![r] = @ - give(p)]
      /\ gave' = [gave EXCEPT ![r][p] = give(p)]
      /\ back' = [back EXCEPT ![r][p] = @ + give(p)]
  BY DEF GiveRow
<1>0. /\ phase[r] = "giveback" /\ todo[r] = {} /\ need[r] > 0
      /\ UNCHANGED <<now, rows, locks, phase, plan, asked, expiring, visiting, todo, order, drawn>>
  BY DEF GiveRow
<1>t. plan[r].target \in Bookings /\ rowLock[p] = r /\ debit[plan[r].target][p] > 0
  BY <1>0 DEF Inv, ShrinkIsLocked, GivesNext, CanGive, Drawn
<1>g. /\ give(p) \in Nat /\ give(p) > 0 /\ give(p) <= need[r]
      /\ give(p) <= debit[plan[r].target][p]
  BY <1>0, <1>t DEF Inv, TypeOK, Smaller
<1>b. /\ back' \in [Requests -> [Purchases -> Int]]
      /\ \A u \in Requests, q \in Purchases :
           back'[u][q] = IF u = r /\ q = p THEN back[u][q] + give(p) ELSE back[u][q]
  <2>1. back \in [Requests -> [Purchases -> Int]]
    BY DEF Inv, TypeOK
  <2> HIDE DEF give
  <2> QED
    BY <2>1, <1>g
<1>v. /\ gave' \in [Requests -> [Purchases -> Int]]
      /\ \A u \in Requests, q \in Purchases :
           gave'[u][q] = IF u = r /\ q = p THEN give(p) ELSE gave[u][q]
  <2>1. gave \in [Requests -> [Purchases -> Int]]
    BY DEF Inv, TypeOK
  <2> HIDE DEF give
  <2> QED
    BY <2>1, <1>g
<1>n. need' \in [Requests -> Nat]
  <2> HIDE DEF give
  <2> QED
    BY <1>g DEF Inv, TypeOK
<1> HIDE DEF give
<1>1. TypeOK'
  BY <1>0, <1>b, <1>v, <1>n DEF Inv, TypeOK
<1>2. NeverOversold' /\ NoStrayDebits' /\ DrawsAndDebitsCount' /\ BookingsAreLocked'
  BY <1>0 DEF Inv, NeverOversold, NoStrayDebits, DrawsAndDebitsCount, BookingsAreLocked
<1>3. WritesAreLocked'
  BY <1>0, <1>t, <1>b DEF Inv, TypeOK, WritesAreLocked
<1>4. BalancesCovered'
  BY <1>0, <1>b, <1>g DEF Inv, TypeOK, BalancesCovered, Balance
<1>5. VisitsOwn'
  BY <1>0 DEF Inv, VisitsOwn
<1>6. GivesWhatWasDrawn'
  BY <1>0, <1>v, <1>g DEF Inv, GivesWhatWasDrawn
<1>7. ShrinkIsLocked' /\ DeletedIsGone'
  BY <1>0 DEF Inv, ShrinkIsLocked, DeletedIsGone
<1> QED
  BY <1>1, <1>2, <1>3, <1>4, <1>5, <1>6, <1>7 DEF Inv

\* What ending a request does: it frees what it held and disturbs no other.
Closed(r) ==
  /\ \A q \in Purchases : rowLock[q] = NoRequest => rowLock'[q] = NoRequest
  /\ \A u \in Requests \ {r} :
       /\ \A q \in Purchases : rowLock'[q] = u <=> rowLock[q] = u
       /\ \A b \in Bookings : bookingLock'[b] = u <=> bookingLock[b] = u
       /\ phase'[u] = phase[u] /\ plan'[u] = plan[u] /\ expiring'[u] = expiring[u]
       /\ asked'[u] = asked[u] /\ visiting'[u] = visiting[u] /\ todo'[u] = todo[u]
       /\ drawn'[u] = drawn[u] /\ back'[u] = back[u] /\ gave'[u] = gave[u]
  /\ phase'[r] = "idle" /\ plan'[r] = NoPlan /\ expiring'[r] = {} /\ todo'[r] = {}
  /\ asked'[r] = {} /\ need'[r] = 0
  /\ \A q \in Purchases : drawn'[r][q] = 0 /\ back'[r][q] = 0 /\ gave'[r][q] = 0

ClosedShape(r) ==
  /\ rowLock' \in [Purchases -> Requests \cup {NoRequest}]
  /\ bookingLock' \in [Bookings -> Requests \cup {NoRequest}]
  /\ phase' \in [Requests -> Phases] /\ plan' \in [Requests -> Plan]
  /\ asked' \in [Requests -> SUBSET Bookings] /\ expiring' \in [Requests -> SUBSET Bookings]
  /\ visiting' \in [Requests -> Bookings \cup {NoBooking}]
  /\ todo' \in [Requests -> SUBSET Purchases]
  /\ order' \in [Requests -> [Purchases -> Times]]
  /\ need' \in [Requests -> Nat]
  /\ drawn' \in [Requests -> [Purchases -> Int]]
  /\ back' \in [Requests -> [Purchases -> Int]]
  /\ gave' \in [Requests -> [Purchases -> Int]]

\* The end of a request, committed or not, leaves it with nothing.
LEMMA CloseEffect ==
  ASSUME TypeOK, NEW r \in Requests, Close(r)
  PROVE  ClosedShape(r) /\ Closed(r)
<1> USE NullsAreFresh, HoursArePositive DEF Close, TypeOK
<1>1. /\ rowLock' \in [Purchases -> Requests \cup {NoRequest}]
      /\ bookingLock' \in [Bookings -> Requests \cup {NoRequest}]
  OBVIOUS
<1>2. /\ phase' \in [Requests -> Phases] /\ plan' \in [Requests -> Plan]
      /\ asked' \in [Requests -> SUBSET Bookings] /\ expiring' \in [Requests -> SUBSET Bookings]
      /\ visiting' \in [Requests -> Bookings \cup {NoBooking}]
      /\ todo' \in [Requests -> SUBSET Purchases]
  OBVIOUS
<1>3. /\ order' \in [Requests -> [Purchases -> Times]]
      /\ need' \in [Requests -> Nat]
      /\ drawn' \in [Requests -> [Purchases -> Int]]
      /\ back' \in [Requests -> [Purchases -> Int]]
      /\ gave' \in [Requests -> [Purchases -> Int]]
  OBVIOUS
<1>4. /\ \A q \in Purchases : rowLock[q] = NoRequest => rowLock'[q] = NoRequest
      /\ \A u \in Requests \ {r} :
           /\ \A q \in Purchases : rowLock'[q] = u <=> rowLock[q] = u
           /\ \A b \in Bookings : bookingLock'[b] = u <=> bookingLock[b] = u
  OBVIOUS
<1>5. \A u \in Requests \ {r} :
           /\ phase'[u] = phase[u] /\ plan'[u] = plan[u] /\ expiring'[u] = expiring[u]
           /\ asked'[u] = asked[u] /\ visiting'[u] = visiting[u] /\ todo'[u] = todo[u]
           /\ drawn'[u] = drawn[u] /\ back'[u] = back[u] /\ gave'[u] = gave[u]
  OBVIOUS
<1>6. /\ phase'[r] = "idle" /\ plan'[r] = NoPlan /\ expiring'[r] = {} /\ todo'[r] = {}
      /\ asked'[r] = {} /\ need'[r] = 0
      /\ \A q \in Purchases : drawn'[r][q] = 0 /\ back'[r][q] = 0 /\ gave'[r][q] = 0
  OBVIOUS
<1> HIDE DEF Close, TypeOK, Plan, Phases, NoHours, NoPlan, Times
<1> QED
  BY <1>1, <1>2, <1>3, <1>4, <1>5, <1>6 DEF ClosedShape, Closed

\* The writes land together, on rows and bookings the request holds.
LEMMA CommitInv ==
  ASSUME Inv, Ledger, NEW r \in Requests, Commit(r)
  PROVE  Inv'
<1> USE NullsAreFresh
<1>c. Close(r) /\ now' = now
  BY DEF Commit
<1>l. ClosedShape(r) /\ Closed(r)
  BY <1>c, CloseEffect DEF Inv
<1>p. /\ purchase' \in [Purchases -> PurchaseRow]
      /\ \A p \in Purchases :
           /\ purchase'[p].status = purchase[p].status
           /\ purchase'[p].total = purchase[p].total
           /\ purchase'[p].remaining = purchase[p].remaining + back[r][p] - drawn[r][p]
           /\ purchase'[p].used = purchase[p].used - back[r][p] + drawn[r][p]
  <2>1. purchase \in [Purchases -> PurchaseRow]
    BY DEF Inv, TypeOK
  <2>2. purchase' = [p \in Purchases |-> RowAfter(r, p)]
    BY DEF Commit
  <2>3. back \in [Requests -> [Purchases -> Int]] /\ drawn \in [Requests -> [Purchases -> Int]]
    BY DEF Inv, TypeOK
  <2> QED
    BY <2>1, <2>2, <2>3 DEF RowAfter, Row, Balance
<1>d. /\ debit' \in [Bookings -> [Purchases -> Int]]
      /\ \A b \in Bookings, p \in Purchases : debit'[b][p] = DebitAfter(r, b, p)
  <2>1. debit' = [b \in Bookings |-> [p \in Purchases |-> DebitAfter(r, b, p)]]
    BY DEF Commit
  <2>2. \A b \in Bookings, p \in Purchases : DebitAfter(r, b, p) \in Int
    BY DEF Inv, TypeOK, DebitAfter, Kept
  <2> QED
    BY <2>1, <2>2
\* A booking that is let go, or that stays out, has no hours in the end.
<1>k. KeepsToPlan(r) /\ Done(r)
  BY DEF Ledger, Account, Commit
<1>b. /\ booking' \in [Bookings -> BookingRow]
      /\ \A b \in Bookings :
           IF b = plan[r].target
           THEN booking'[b].state \in HoldsHours \/ \A p \in Purchases : debit'[b][p] = 0
           ELSE /\ b \in plan[r].released => booking'[b].state = "released"
                /\ b \notin plan[r].released => booking'[b] = booking[b]
  <2>1. booking \in [Bookings -> BookingRow] /\ plan[r] \in Plan /\ need[r] \in Nat
    BY DEF Inv, TypeOK
  <2>2. booking' = [b \in Bookings |-> BookingAfter(r, b)]
    BY DEF Commit
  <2>3. \A b \in Bookings : BookingAfter(r, b) \in BookingRow
    <3> SUFFICES ASSUME NEW b \in Bookings PROVE BookingAfter(r, b) \in BookingRow
      OBVIOUS
    <3>t. /\ booking[b].state \in {"none", "pending", "confirmed", "released"}
          /\ booking[b].share \in Int /\ booking[b].duration \in Int
          /\ plan[r].size \in Int
          /\ plan[r].becomes \in {"same", "pending", "confirmed", "released"}
      BY <2>1
    <3>1. CASE b = plan[r].target
      <4>1. StateAfter(r, b) \in {"none", "pending", "confirmed", "released"}
        <5>1. CASE booking[b].state = "none"
          BY <5>1 DEF StateAfter
        <5>2. CASE /\ booking[b].state # "none" /\ plan[r].becomes = "same"
                   /\ HoldsNow(r) \/ Enters(r)
          BY <5>2, <3>t DEF StateAfter
        <5>3. CASE /\ booking[b].state # "none" /\ plan[r].becomes # "same"
                   /\ HoldsNow(r) \/ Enters(r)
          <6>1. StateAfter(r, b) = plan[r].becomes
            BY <5>3 DEF StateAfter
          <6>2. booking[b].state # "none" /\ plan[r].becomes \in {"same", "pending", "confirmed", "released"}
            BY <5>3, <3>t
          <6> QED
            BY <5>3, <6>1, <6>2
        <5>4. CASE booking[b].state # "none" /\ ~(HoldsNow(r) \/ Enters(r))
          BY <5>4 DEF StateAfter
        <5> QED
          BY <5>1, <5>2, <5>3, <5>4
      <4>2. ShareAfter(r, b) \in Int
        <5>1. Extra(r) \in Int
          BY <3>1, <3>t DEF Extra, Positive
        <5>2. Smaller(booking[b].share, plan[r].size) \in Int
          BY <3>t DEF Smaller
        <5> QED
          BY <2>1, <3>t, <5>1, <5>2 DEF ShareAfter
      <4>3. BookingAfter(r, b) = [state |-> StateAfter(r, b), share |-> ShareAfter(r, b),
                                  duration |-> plan[r].size]
        BY <3>1 DEF BookingAfter
      <4> QED
        BY <3>t, <4>1, <4>2, <4>3
    <3>2. CASE b # plan[r].target
      BY <2>1, <3>2 DEF BookingAfter
    <3> QED
      BY <3>1, <3>2
  <2>4. ASSUME NEW b \in Bookings, b = plan[r].target, booking'[b].state \notin HoldsHours
        PROVE  \A p \in Purchases : debit'[b][p] = 0
    <3>1. booking'[b].state = StateAfter(r, b) /\ Settles(r)
      BY <2>2, <2>4, NullsAreFresh DEF BookingAfter, Settles
    <3>t. booking[b].state \in {"none", "pending", "confirmed", "released"}
          /\ plan[r].becomes \in {"same", "pending", "confirmed", "released"}
      BY <2>1
    <3>0. booking[b].state # "none"
      BY <2>4, <3>1 DEF StateAfter
    <3>2. ~Enters(r) /\ (HoldsNow(r) => plan[r].becomes = "released")
      <4>1. CASE HoldsNow(r) /\ plan[r].becomes = "same"
        <5>1. StateAfter(r, b) = booking[b].state
          BY <3>0, <4>1 DEF StateAfter
        <5>2. booking[b].state \in HoldsHours
          BY <2>4, <4>1 DEF HoldsNow
        <5> QED
          BY <5>1, <5>2, <3>1, <2>4
      <4>2. CASE ~(HoldsNow(r) /\ plan[r].becomes = "same") /\ (HoldsNow(r) \/ Enters(r))
        <5>0. plan[r].becomes # "same"
          BY <4>2 DEF Enters
        <5>1. StateAfter(r, b) = plan[r].becomes
          BY <3>0, <4>2, <5>0 DEF StateAfter
        <5>2. plan[r].becomes = "released"
          BY <5>1, <3>1, <2>4, <3>t, <4>2 DEF Enters
        <5> QED
          BY <5>2 DEF Enters
      <4> QED
        BY <4>1, <4>2
    <3>3. ~HoldsNow(r)
      <4> SUFFICES ASSUME HoldsNow(r) PROVE FALSE
        OBVIOUS
      <4>1. Leaves(r)
        BY <3>2 DEF Leaves
      <4>2. phase[r] = "leave"
        BY <1>k, <4>1 DEF Done
      <4> QED
        BY <1>k, <4>2 DEF KeepsToPlan, HoldsNow
    <3>4. \A p \in Purchases : drawn[r][p] = 0 /\ gave[r][p] = 0
      <4>1. phase[r] \in {"release", "leave"}
        BY <1>k, <3>2, <3>3 DEF KeepsToPlan, Shrinks, Done, Settled, ReleasedAll
      <4>2. CASE phase[r] = "release"
        BY <1>k, <4>2 DEF KeepsToPlan, Inv, GivesWhatWasDrawn
      <4>3. CASE phase[r] = "leave"
        BY <1>k, <4>3 DEF KeepsToPlan, Done, Settled, ReleasedAll
      <4> QED
        BY <4>1, <4>2, <4>3
    <3>5. \A p \in Purchases : Kept(r, b, p) = 0
      BY <2>1, <2>4, <3>1, <3>3 DEF Kept, HoldsNow, Inv, NoStrayDebits
    <3>6. \A p \in Purchases : DebitAfter(r, b, p) = 0
      BY <2>4, <3>4, <3>5 DEF DebitAfter
    <3> QED
      BY <1>d, <3>6
  <2>5. \A b \in Bookings : b # plan[r].target =>
          /\ b \in plan[r].released => booking'[b].state = "released"
          /\ b \notin plan[r].released => booking'[b] = booking[b]
    BY <2>1, <2>2 DEF BookingAfter
  <2> QED
    BY <2>2, <2>3, <2>4, <2>5
<1>1. TypeOK'
  BY <1>c, <1>p, <1>d, <1>b, <1>l DEF Inv, TypeOK, ClosedShape
<1>2. NeverOversold'
  BY <1>p DEF Inv, TypeOK, NeverOversold, BalancesCovered, Balance
<1>3. NoStrayDebits'
  <2> SUFFICES ASSUME NEW b \in Bookings, booking'[b].state \notin HoldsHours, NEW p \in Purchases
               PROVE  debit'[b][p] = 0
    BY DEF NoStrayDebits
  <2>1. CASE b = plan[r].target
    BY <2>1, <1>b
  <2>2. CASE b # plan[r].target
    <3>1. debit'[b][p] = (IF b \in plan[r].released THEN 0 ELSE debit[b][p]) + 0
      BY <2>2, <1>d DEF DebitAfter, Kept
    <3>2. b \notin plan[r].released => debit[b][p] = 0
      BY <2>2, <1>b DEF Inv, NoStrayDebits
    <3> QED
      BY <3>1, <3>2
  <2> QED
    BY <2>1, <2>2
<1>4. WritesAreLocked'
  BY <1>l DEF Inv, WritesAreLocked, Closed
<1>5. BalancesCovered'
  <2> SUFFICES ASSUME NEW u \in Requests, NEW p \in Purchases PROVE Balance(u, p)' >= 0
    BY DEF BalancesCovered
  <2>1. CASE u = r
    BY <2>1, <1>l, <1>p DEF Inv, TypeOK, BalancesCovered, Balance, Closed
  <2>2. CASE u # r /\ rowLock[p] = u
    BY <2>2, <1>l, <1>p DEF Inv, TypeOK, BalancesCovered, Balance, WritesAreLocked, Closed
  <2>3. CASE u # r /\ rowLock[p] # u
    BY <2>3, <1>l, <1>p DEF Inv, TypeOK, BalancesCovered, Balance, WritesAreLocked, Closed
  <2> QED
    BY <2>1, <2>2, <2>3
<1>6. DrawsAndDebitsCount'
  <2>1. \A u \in Requests, p \in Purchases : drawn'[u][p] >= 0
    BY <1>l DEF Inv, DrawsAndDebitsCount, Closed
  <2>2. \A b \in Bookings, p \in Purchases : DebitAfter(r, b, p) >= 0
    <3> SUFFICES ASSUME NEW b \in Bookings, NEW p \in Purchases PROVE DebitAfter(r, b, p) >= 0
      OBVIOUS
    <3>1. /\ drawn[r][p] \in Int /\ gave[r][p] \in Int /\ drawn[r][p] >= 0
          /\ (gave[r][p] = 0 \/ gave[r][p] <= debit[plan[r].target][p])
      BY DEF Inv, TypeOK, DrawsAndDebitsCount, GivesWhatWasDrawn
    <3>2. debit[b][p] \in Int /\ debit[b][p] >= 0
      BY DEF Inv, TypeOK, DrawsAndDebitsCount
    <3>3. CASE b # plan[r].target
      BY <3>2, <3>3 DEF DebitAfter, Kept
    <3>4. CASE b = plan[r].target /\ b \notin plan[r].released
      BY <3>1, <3>2, <3>4 DEF DebitAfter, Kept
    <3>5. CASE b = plan[r].target /\ b \in plan[r].released
      <4>1. gave[r][p] = 0
        <5>1. CASE phase[r] = "leave"
          BY <1>k, <5>1 DEF KeepsToPlan, Done, Settled, ReleasedAll
        <5>2. CASE phase[r] # "leave"
          <6>1. phase[r] # "giveback"
            BY <1>k, <3>5 DEF KeepsToPlan, Shrinks, HoldsNow
          <6> QED
            BY <5>2, <6>1 DEF Inv, GivesWhatWasDrawn
        <5> QED
          BY <5>1, <5>2
      <4> QED
        BY <3>1, <3>5, <4>1 DEF DebitAfter, Kept
    <3> QED
      BY <3>3, <3>4, <3>5
  <2> QED
    BY <2>1, <2>2, <1>d DEF DrawsAndDebitsCount
<1>7. BookingsAreLocked' /\ VisitsOwn'
  BY <1>l DEF Inv, BookingsAreLocked, VisitsOwn, NoPlan, Closed
\* Another request's target is a booking this one did not touch.
<1>o. \A u \in Requests \ {r}, p \in Purchases :
        phase[u] \in {"giveback", "leave"} => /\ plan[u].target \in Bookings
                                 /\ debit'[plan[u].target][p] = debit[plan[u].target][p]
  BY <1>d DEF Inv, TypeOK, ShrinkIsLocked, BookingsAreLocked, DebitAfter, Kept
<1>8. GivesWhatWasDrawn'
  BY <1>l, <1>o DEF Inv, GivesWhatWasDrawn, Closed
<1>9. ShrinkIsLocked'
  BY <1>l, <1>o DEF Inv, ShrinkIsLocked, Closed
<1>10. DeletedIsGone'
  <2> SUFFICES ASSUME NEW p \in Purchases, purchase[p].status = "deleted"
               PROVE  rowLock'[p] = NoRequest /\ \A b \in Bookings : debit'[b][p] = 0
    BY <1>p DEF DeletedIsGone
  <2>1. rowLock[p] = NoRequest /\ \A b \in Bookings : debit[b][p] = 0
    BY DEF Inv, DeletedIsGone
  <2>2. drawn[r][p] = 0
    BY <2>1 DEF Inv, WritesAreLocked
  <2>3. gave[r][p] = 0
    BY <2>1 DEF Inv, TypeOK, GivesWhatWasDrawn, ShrinkIsLocked
  <2> QED
    BY <2>1, <2>2, <2>3, <1>d, <1>l DEF DebitAfter, Kept, Closed
<1> QED
  BY <1>1, <1>2, <1>3, <1>4, <1>5, <1>6, <1>7, <1>8, <1>9, <1>10 DEF Inv

\* The draws are put back, and the target drops out.
LEMMA UndoInv ==
  ASSUME Inv, NEW r \in Requests, Undo(r)
  PROVE  Inv'
<1> USE NullsAreFresh DEF rows, locks, session
<1>0. /\ phase[r] = "walk" /\ todo[r] = {}
      /\ phase' = [phase EXCEPT ![r] = "release"]
      /\ UNCHANGED <<now, rows, locks, asked, expiring, visiting, todo, order, need, back, gave>>
  BY DEF Undo, Short
<1>p. /\ plan' \in [Requests -> Plan]
      /\ \A u \in Requests \ {r} : plan'[u] = plan[u]
      /\ plan'[r].released = plan[r].released /\ plan'[r].target = NoBooking
  <2>1. plan \in [Requests -> Plan]
    BY DEF Inv, TypeOK
  <2>2. plan' = [plan EXCEPT ![r] = [plan[r] EXCEPT !.target = NoBooking]]
    BY <2>1 DEF Undo
  <2>3. [plan[r] EXCEPT !.target = NoBooking] \in Plan
    BY <2>1
  <2> QED
    BY <2>1, <2>2, <2>3
<1>d. /\ drawn' \in [Requests -> [Purchases -> Int]]
      /\ \A u \in Requests \ {r} : drawn'[u] = drawn[u]
      /\ \A q \in Purchases : drawn'[r][q] = 0
  BY DEF Undo, Undone, Inv, TypeOK
<1>1. TypeOK'
  BY <1>0, <1>p, <1>d DEF Inv, TypeOK
<1>2. NeverOversold' /\ NoStrayDebits'
  BY <1>0 DEF Inv, NeverOversold, NoStrayDebits
<1>3. WritesAreLocked' /\ DrawsAndDebitsCount'
  BY <1>0, <1>d DEF Inv, WritesAreLocked, DrawsAndDebitsCount
<1>4. BalancesCovered'
  <2> SUFFICES ASSUME NEW u \in Requests, NEW q \in Purchases PROVE Balance(u, q)' >= 0
    BY DEF BalancesCovered
  <2>1. CASE u = r
    BY <2>1, <1>0, <1>d DEF Inv, TypeOK, BalancesCovered, Balance, DrawsAndDebitsCount
  <2>2. CASE u # r
    BY <2>2, <1>0, <1>d DEF Inv, BalancesCovered, Balance
  <2> QED
    BY <2>1, <2>2
<1>5. BookingsAreLocked'
  BY <1>0, <1>p DEF Inv, BookingsAreLocked
<1>6. VisitsOwn'
  BY <1>0, <1>p DEF Inv, TypeOK, VisitsOwn
<1>7. GivesWhatWasDrawn' /\ ShrinkIsLocked' /\ DeletedIsGone'
  BY <1>0, <1>p DEF Inv, TypeOK, GivesWhatWasDrawn, ShrinkIsLocked, DeletedIsGone
<1> QED
  BY <1>1, <1>2, <1>3, <1>4, <1>5, <1>6, <1>7 DEF Inv

\* A rollback forgets what was never committed.
LEMMA RollbackInv ==
  ASSUME Inv, NEW r \in Requests, Rollback(r)
  PROVE  Inv'
<1> USE NullsAreFresh
<1>c. Close(r) /\ UNCHANGED <<now, purchase, booking, debit>>
  BY DEF Rollback, rows
<1>l. ClosedShape(r) /\ Closed(r)
  BY <1>c, CloseEffect DEF Inv
<1>1. TypeOK'
  BY <1>c, <1>l DEF Inv, TypeOK, ClosedShape
<1>2. NeverOversold' /\ NoStrayDebits'
  BY <1>c DEF Inv, NeverOversold, NoStrayDebits
<1>3. WritesAreLocked' /\ DrawsAndDebitsCount'
  BY <1>c, <1>l DEF Inv, WritesAreLocked, DrawsAndDebitsCount, Closed
<1>4. BalancesCovered'
  <2> SUFFICES ASSUME NEW u \in Requests, NEW q \in Purchases PROVE Balance(u, q)' >= 0
    BY DEF BalancesCovered
  <2>1. CASE u = r
    BY <2>1, <1>c, <1>l DEF Inv, TypeOK, NeverOversold, Balance, Closed
  <2>2. CASE u # r
    BY <2>2, <1>c, <1>l DEF Inv, BalancesCovered, Balance, Closed
  <2> QED
    BY <2>1, <2>2
<1>5. BookingsAreLocked' /\ VisitsOwn'
  BY <1>l DEF Inv, BookingsAreLocked, VisitsOwn, NoPlan, Closed
<1>6. GivesWhatWasDrawn' /\ ShrinkIsLocked' /\ DeletedIsGone'
  BY <1>c, <1>l DEF Inv, GivesWhatWasDrawn, ShrinkIsLocked, DeletedIsGone, Closed
<1> QED
  BY <1>1, <1>2, <1>3, <1>4, <1>5, <1>6 DEF Inv

\* An operator's edit of one unlocked row that keeps its sums.
LEMMA SaveInv ==
  ASSUME Inv, NEW p \in Purchases, NEW row \in PurchaseRow, Save(p, row),
         row.remaining >= 0, row.used + row.remaining <= row.total,
         row.status = "active" => row.used + row.remaining = row.total,
         row.status = "deleted" => \A b \in Bookings : debit[b][p] = 0
  PROVE  Inv'
<1> USE NullsAreFresh DEF rows, locks, session
<1>0. rowLock[p] = NoRequest /\ UNCHANGED <<now, booking, debit, locks, session>>
  BY DEF Save
<1>p. /\ purchase' \in [Purchases -> PurchaseRow]
      /\ purchase'[p] = row
      /\ \A q \in Purchases \ {p} : purchase'[q] = purchase[q]
  BY DEF Save, Inv, TypeOK
<1>1. TypeOK'
  BY <1>0, <1>p DEF Inv, TypeOK
<1>2. NeverOversold' /\ NoStrayDebits'
  BY <1>0, <1>p DEF Inv, NeverOversold, NoStrayDebits
<1>3. WritesAreLocked' /\ DrawsAndDebitsCount' /\ BookingsAreLocked' /\ VisitsOwn'
  BY <1>0 DEF Inv, WritesAreLocked, DrawsAndDebitsCount, BookingsAreLocked, VisitsOwn
\* Nobody has uncommitted hours on a row nobody holds.
<1>4. BalancesCovered'
  <2> SUFFICES ASSUME NEW u \in Requests, NEW q \in Purchases PROVE Balance(u, q)' >= 0
    BY DEF BalancesCovered
  <2>1. CASE q = p
    BY <2>1, <1>0, <1>p DEF Inv, WritesAreLocked, Balance
  <2>2. CASE q # p
    BY <2>2, <1>0, <1>p DEF Inv, BalancesCovered, Balance
  <2> QED
    BY <2>1, <2>2
<1>5. GivesWhatWasDrawn' /\ ShrinkIsLocked' /\ DeletedIsGone'
  BY <1>0, <1>p DEF Inv, GivesWhatWasDrawn, ShrinkIsLocked, DeletedIsGone
<1> QED
  BY <1>1, <1>2, <1>3, <1>4, <1>5 DEF Inv

\* A booking without a share has no debits, whatever its state.
LEMMA NoShareNoDebits ==
  ASSUME Inv, Ledger, NEW b \in Bookings, booking[b].share = 0
  PROVE  \A p \in Purchases : debit[b][p] = 0
<1>1. CASE booking[b].state \notin HoldsHours
  BY <1>1 DEF Inv, NoStrayDebits
<1>2. CASE booking[b].state \in HoldsHours
  <2>1. SumFunction(debit[b]) = 0
    BY <1>2 DEF Ledger, ShareIsDebited
  <2>2. DOMAIN debit[b] = Purchases /\ \A p \in Purchases : debit[b][p] \in Nat
    BY DEF Inv, TypeOK, DrawsAndDebitsCount
  <2>3. \A p \in Purchases : debit[b][p] <= SumFunctionOnSet(debit[b], Purchases)
    BY <2>2, TablesAreFinite, SumCovers
  <2> QED
    BY <2>1, <2>2, <2>3, SumOfFunction
<1> QED
  BY <1>1, <1>2

\* A booking without a share is restated: it has no debits.
LEMMA RestateInv ==
  ASSUME Inv, Ledger, Restate
  PROVE  Inv'
<1> USE DEF rows, locks, session
<1>0. UNCHANGED <<now, purchase, debit, locks, session>>
  BY DEF Restate
<1> PICK b \in Bookings, st \in {"confirmed", "released"} :
      /\ booking[b].share = 0
      /\ booking' = [booking EXCEPT ![b].state = st]
  BY DEF Restate
<1>b. /\ booking' \in [Bookings -> BookingRow]
      /\ \A c \in Bookings \ {b} : booking'[c] = booking[c]
  <2>1. booking \in [Bookings -> BookingRow]
    BY DEF Inv, TypeOK
  <2>2. booking' = [booking EXCEPT ![b] = [booking[b] EXCEPT !.state = st]]
    BY <2>1
  <2>3. [booking[b] EXCEPT !.state = st] \in BookingRow
    BY <2>1
  <2> QED
    BY <2>1, <2>2, <2>3
<1>z. \A p \in Purchases : debit[b][p] = 0
  BY NoShareNoDebits
<1>1. TypeOK'
  BY <1>0, <1>b DEF Inv, TypeOK
<1>2. NoStrayDebits'
  BY <1>0, <1>b, <1>z DEF Inv, NoStrayDebits
<1>3. NeverOversold' /\ WritesAreLocked' /\ BalancesCovered' /\ DrawsAndDebitsCount'
  BY <1>0 DEF Inv, NeverOversold, WritesAreLocked, BalancesCovered, Balance, DrawsAndDebitsCount
<1>4. BookingsAreLocked' /\ VisitsOwn' /\ GivesWhatWasDrawn' /\ ShrinkIsLocked' /\ DeletedIsGone'
  BY <1>0 DEF Inv, BookingsAreLocked, VisitsOwn, GivesWhatWasDrawn, ShrinkIsLocked, DeletedIsGone
<1> QED
  BY <1>1, <1>2, <1>3, <1>4 DEF Inv

\* A paid hold keeps its hours.
LEMMA PayInv ==
  ASSUME Inv, Pay
  PROVE  Inv'
<1> USE DEF rows, locks, session
<1>0. UNCHANGED <<now, purchase, debit, locks, session>>
  BY DEF Pay
<1>b. /\ booking' \in [Bookings -> BookingRow]
      /\ \A b \in Bookings : booking'[b].state \in HoldsHours <=> booking[b].state \in HoldsHours
  <2> PICK b \in Bookings :
         /\ booking[b].state = "pending"
         /\ booking' = [booking EXCEPT ![b].state = "confirmed"]
    BY DEF Pay
  <2>1. booking \in [Bookings -> BookingRow]
    BY DEF Inv, TypeOK
  <2>2. booking' = [booking EXCEPT ![b] = [booking[b] EXCEPT !.state = "confirmed"]]
    BY <2>1
  <2>3. [booking[b] EXCEPT !.state = "confirmed"] \in BookingRow
    BY <2>1
  <2> QED
    BY <2>1, <2>2, <2>3
<1>1. TypeOK'
  BY <1>0, <1>b DEF Inv, TypeOK
<1>2. NoStrayDebits'
  BY <1>0, <1>b DEF Inv, NoStrayDebits
<1>3. NeverOversold' /\ WritesAreLocked' /\ BalancesCovered' /\ DrawsAndDebitsCount'
  BY <1>0 DEF Inv, NeverOversold, WritesAreLocked, BalancesCovered, Balance, DrawsAndDebitsCount
<1>4. BookingsAreLocked' /\ VisitsOwn' /\ GivesWhatWasDrawn' /\ ShrinkIsLocked' /\ DeletedIsGone'
  BY <1>0 DEF Inv, BookingsAreLocked, VisitsOwn, GivesWhatWasDrawn, ShrinkIsLocked, DeletedIsGone
<1> QED
  BY <1>1, <1>2, <1>3, <1>4 DEF Inv

\* Time passes.
LEMMA TickInv ==
  ASSUME Inv, Tick
  PROVE  Inv'
<1> USE DEF rows, locks, session
<1>1. TypeOK'
  BY HoursArePositive, ClockStops DEF Tick, Inv, TypeOK
<1>2. NeverOversold' /\ NoStrayDebits' /\ WritesAreLocked' /\ BalancesCovered'
  BY DEF Tick, Inv, NeverOversold, NoStrayDebits, WritesAreLocked, BalancesCovered, Balance
<1>3. DrawsAndDebitsCount' /\ BookingsAreLocked' /\ VisitsOwn'
  BY DEF Tick, Inv, DrawsAndDebitsCount, BookingsAreLocked, VisitsOwn
<1>4. GivesWhatWasDrawn' /\ ShrinkIsLocked' /\ DeletedIsGone'
  BY DEF Tick, Inv, GivesWhatWasDrawn, ShrinkIsLocked, DeletedIsGone
<1> QED
  BY <1>1, <1>2, <1>3, <1>4 DEF Inv

-----------------------------------------------------------------------------
(* Every way a request begins opens it with a plan it holds the locks for. *)

\* Every request begins by opening with a plan and, if it settles a booking,
\* that booking's lock.
Opens(r, b, f, S) ==
  /\ Open(r, b, f, S)
  /\ f \in Plan /\ f.target = b /\ f.released = {} /\ S \in SUBSET Bookings
  /\ b = NoBooking => S # {}
  /\ b \in Bookings =>
       /\ bookingLock[b] = NoRequest /\ f.size \in Nat
       /\ IF booking[b].state = "none" THEN f.becomes \in HoldsHours ELSE f.whole

LEMMA BeginOpens ==
  ASSUME Inv, Ledger, NEW r \in Requests, Begin(r)
  PROVE  \E b \in Bookings \cup {NoBooking} : \E f \in Plan, S \in SUBSET Bookings : Opens(r, b, f, S)
<1> USE NullsAreFresh DEF Unlocked, Pending
<1>t. /\ now \in Times /\ booking \in [Bookings -> BookingRow]
      /\ \A n \in Sizes : n \in Nat
      /\ \A b \in Bookings : booking[b].duration \in Nat
      /\ Asks \subseteq {"same", "pending", "confirmed", "released"}
  BY HoursArePositive, UpdatesAsk DEF Inv, TypeOK, Ledger, DurationsCount
<1>1. CASE BeginExpiry(r)
  <2> PICK S \in (SUBSET Pending) \ {{}} :
        Open(r, NoBooking, PlanFor(NoBooking, "same", 0, FALSE, FALSE), S)
    BY <1>1 DEF BeginExpiry
  <2> DEFINE f == PlanFor(NoBooking, "same", 0, FALSE, FALSE)
  <2>1. f \in Plan /\ f.target = NoBooking /\ f.released = {}
    BY <1>t DEF PlanFor
  <2>2. Open(r, NoBooking, f, S)
    OBVIOUS
  <2>4. S # {}
    OBVIOUS
  <2>5. S \in SUBSET Bookings
    OBVIOUS
  <2> HIDE DEF f
  <2>3. Opens(r, NoBooking, f, S)
    BY <2>1, <2>2, <2>4, <2>5 DEF Opens
  <2> QED
    BY <2>1, <2>3
<1>2. CASE BeginBooking(r)
  <2> PICK b \in Bookings, S \in SUBSET Pending, n \in Sizes, w \in BOOLEAN :
        /\ booking[b].state = "none" /\ bookingLock[b] = NoRequest
        /\ Open(r, b, PlanFor(b, "confirmed", n, w, TRUE), S)
    BY <1>2 DEF BeginBooking
  <2> DEFINE f == PlanFor(b, "confirmed", n, w, TRUE)
  <2>0. booking[b].state = "none"
    OBVIOUS
  <2>1. f \in Plan /\ f.target = b /\ f.released = {} /\ f.size \in Nat /\ f.becomes = "confirmed"
    BY <1>t DEF PlanFor
  <2>2. Open(r, b, f, S) /\ S \in SUBSET Bookings
    OBVIOUS
  <2> HIDE DEF f
  <2>3. Opens(r, b, f, S)
    BY <2>0, <2>1, <2>2 DEF Opens
  <2> QED
    BY <2>1, <2>3
<1>3. CASE BeginRetake(r)
  <2> PICK b \in Bookings, S \in SUBSET Pending, st \in HoldsHours :
        /\ booking[b].state = "released" \/ b \in S
        /\ bookingLock[b] = NoRequest
        /\ Open(r, b, PlanFor(b, st, booking[b].duration, TRUE, FALSE), S)
    BY <1>3 DEF BeginRetake
  <2> DEFINE f == PlanFor(b, st, booking[b].duration, TRUE, FALSE)
  <2>1. f \in Plan /\ f.target = b /\ f.released = {} /\ f.size \in Nat /\ f.whole
    BY <1>t DEF PlanFor
  <2>0. booking[b].state # "none"
    OBVIOUS
  <2>2. Open(r, b, f, S) /\ S \in SUBSET Bookings
    OBVIOUS
  <2> HIDE DEF f
  <2>3. Opens(r, b, f, S)
    BY <2>0, <2>1, <2>2 DEF Opens
  <2> QED
    BY <2>1, <2>3
<1>4. CASE BeginUpdate(r)
  <2> PICK b \in Bookings, S \in SUBSET Pending, n \in Sizes, st \in Asks :
        /\ booking[b].state # "none" /\ bookingLock[b] = NoRequest
        /\ Open(r, b, PlanFor(b, st, n, TRUE, TRUE), S)
    BY <1>4 DEF BeginUpdate
  <2> DEFINE f == PlanFor(b, st, n, TRUE, TRUE)
  <2>0. booking[b].state # "none"
    OBVIOUS
  <2>1. f \in Plan /\ f.target = b /\ f.released = {} /\ f.size \in Nat /\ f.whole
    BY <1>t DEF PlanFor
  <2>2. Open(r, b, f, S) /\ S \in SUBSET Bookings
    OBVIOUS
  <2> HIDE DEF f
  <2>3. Opens(r, b, f, S)
    BY <2>0, <2>1, <2>2 DEF Opens
  <2> QED
    BY <2>1, <2>3
<1> QED
  BY <1>1, <1>2, <1>3, <1>4 DEF Begin

LEMMA BeginInv ==
  ASSUME Inv, Ledger, NEW r \in Requests, Begin(r)
  PROVE  Inv'
<1> PICK b \in Bookings \cup {NoBooking}, f \in Plan, S \in SUBSET Bookings : Opens(r, b, f, S)
  BY BeginOpens
<1> QED
  BY OpenInv DEF Opens

\* Every edit of the operator writes a row whose hours still add up.
LEMMA OperatorInv ==
  ASSUME Inv, NEW p \in Purchases, Operator(p)
  PROVE  Inv'
<1> USE DEF Row
<1>t. /\ purchase[p] \in PurchaseRow /\ purchase[p].remaining >= 0
      /\ purchase[p].used + purchase[p].remaining <= purchase[p].total
      /\ purchase[p].status = "active" =>
           purchase[p].used + purchase[p].remaining = purchase[p].total
  BY DEF Inv, TypeOK, NeverOversold
<1>z. 0 \in Times /\ \A g \in Grants : g \in Nat
  BY HoursArePositive
<1>1. CASE Grant(p)
  <2> PICK g \in Grants, e \in Times : Save(p, Row("active", g, 0, g, e))
    BY <1>1, ValidityIsATime DEF Grant
  <2> QED
    BY <1>z, SaveInv
<1>2. CASE Adjust(p)
  <2> PICK hours \in Grants \cup {-g : g \in Grants} :
        /\ purchase[p].status \in {"active", "cancelled"}
        /\ purchase[p].remaining + hours >= 0
        /\ Save(p, Row(purchase[p].status, purchase[p].total + hours, purchase[p].used,
                       purchase[p].remaining + hours, purchase[p].expires))
    BY <1>2 DEF Adjust, Edit
  <2>1. hours \in Int
    BY <1>z
  <2> QED
    BY <1>t, <2>1, SaveInv
<1>3. CASE Extend(p)
  <2> PICK e \in Times :
        /\ purchase[p].status = "active"
        /\ Save(p, [purchase[p] EXCEPT !.expires = e])
    BY <1>3 DEF Extend
  <2>1. /\ [purchase[p] EXCEPT !.expires = e] \in PurchaseRow
        /\ [purchase[p] EXCEPT !.expires = e].status = "active"
        /\ [purchase[p] EXCEPT !.expires = e].total = purchase[p].total
        /\ [purchase[p] EXCEPT !.expires = e].used = purchase[p].used
        /\ [purchase[p] EXCEPT !.expires = e].remaining = purchase[p].remaining
    BY <1>t
  <2> QED
    BY <1>t, <2>1, SaveInv
<1>4. CASE CancelPurchase(p)
  BY <1>4, <1>t, SaveInv DEF CancelPurchase, Edit
<1>5. CASE Reactivate(p)
  BY <1>5, <1>t, SaveInv DEF Reactivate, Edit, Positive
<1>6. CASE DeletePurchase(p)
  BY <1>6, <1>z, SaveInv DEF DeletePurchase, Edit
<1> QED
  BY <1>1, <1>2, <1>3, <1>4, <1>5, <1>6 DEF Operator

\* One step per action.
LEMMA NextInv == Inv /\ Ledger /\ [Next]_vars => Inv'
<1> SUFFICES ASSUME Inv, Ledger, [Next]_vars PROVE Inv'
  OBVIOUS
<1>1. ASSUME NEW r \in Requests, Begin(r) PROVE Inv'
  BY <1>1, BeginInv
<1>2. ASSUME NEW r \in Requests, Work(r) PROVE Inv'
  BY <1>2, FlipHoldInv, FlipAgainInv, VisitBookingInv, CreditRowInv, BeginWalkInv, WalkRowInv,
     BeginGivebackInv, LockDebitedInv, GiveRowInv, BeginLeaveInv, LeaveRowInv DEF Work
<1>3. ASSUME NEW r \in Requests, End(r) \/ Fail(r) PROVE Inv'
  BY <1>3, CommitInv, UndoInv, RollbackInv DEF End, Refuse, DeadlockVictim, Fail
<1>4. ASSUME NEW p \in Purchases, Operator(p) PROVE Inv'
  BY <1>4, OperatorInv
<1>5. CASE Restate \/ Pay \/ Tick
  BY <1>5, RestateInv, PayInv, TickInv
<1>6. CASE UNCHANGED vars
  <2> USE <1>6 DEF vars, rows, locks, session
  <2>1. TypeOK' /\ NeverOversold' /\ NoStrayDebits'
    BY DEF Inv, TypeOK, NeverOversold, NoStrayDebits
  <2>2. WritesAreLocked' /\ BalancesCovered' /\ DrawsAndDebitsCount' /\ BookingsAreLocked'
    BY DEF Inv, WritesAreLocked, BalancesCovered, Balance, DrawsAndDebitsCount, BookingsAreLocked
  <2>3. VisitsOwn' /\ GivesWhatWasDrawn' /\ ShrinkIsLocked' /\ DeletedIsGone'
    BY DEF Inv, VisitsOwn, GivesWhatWasDrawn, ShrinkIsLocked, DeletedIsGone
  <2> QED
    BY <2>1, <2>2, <2>3 DEF Inv
<1> QED
  BY <1>1, <1>2, <1>3, <1>4, <1>5, <1>6 DEF Next

-----------------------------------------------------------------------------
(* The ledger's invariant, one step per action.                            *)

\* A sum over bookings, or over purchases, of which every term is 0.
LEMMA ZeroSums ==
  /\ \A f : DOMAIN f = Bookings /\ (\A b \in Bookings : f[b] = 0) => SumFunction(f) = 0
  /\ \A f : DOMAIN f = Purchases /\ (\A p \in Purchases : f[p] = 0) => SumFunction(f) = 0
<1>1. ASSUME NEW S, IsFiniteSet(S), NEW f, DOMAIN f = S, \A x \in S : f[x] = 0
      PROVE  SumFunction(f) = 0
  BY <1>1, SumOfFunction, SumOfZeros
<1> QED  BY <1>1, TablesAreFinite

\* What nobody else can touch: the request's own state, the bookings and the
\* rows it has locked.
Undisturbed(u) ==
  /\ phase'[u] = phase[u] /\ plan'[u] = plan[u] /\ asked'[u] = asked[u]
  /\ expiring'[u] = expiring[u] /\ visiting'[u] = visiting[u]
  /\ todo'[u] = todo[u] /\ order'[u] = order[u]
  /\ need'[u] = need[u] /\ drawn'[u] = drawn[u] /\ back'[u] = back[u] /\ gave'[u] = gave[u]
  /\ \A b \in Bookings : bookingLock[b] = u => booking'[b] = booking[b] /\ debit'[b] = debit[b]
  /\ \A p \in Purchases : rowLock[p] = u => purchase'[p] = purchase[p]
  /\ \A p \in Purchases : rowLock'[p] = u => rowLock[p] = u

\* What a request set out to do, and to which hours it comes, is its plan's
\* and its booking's.
LEMMA SamePlan ==
  ASSUME NEW u \in Requests, plan'[u] = plan[u],
         Settles(u) => booking'[plan[u].target] = booking[plan[u].target]
  PROVE  /\ Settles(u)' <=> Settles(u)
         /\ HoldsNow(u)' <=> HoldsNow(u)
         /\ Enters(u)' <=> Enters(u)
         /\ Shrinks(u)' <=> Shrinks(u)
         /\ Settles(u) => Asked(u)' = Asked(u)
<1>1. Settles(u)' <=> Settles(u)
  BY DEF Settles
<1>2. HoldsNow(u)' <=> HoldsNow(u)
  BY <1>1 DEF HoldsNow
<1>3. (Enters(u)' <=> Enters(u)) /\ (Shrinks(u)' <=> Shrinks(u))
  BY <1>1, <1>2 DEF Enters, Shrinks, HoldsNow
<1>4. ASSUME Settles(u) PROVE Asked(u)' = Asked(u)
  <2>1. Extra(u)' = Extra(u)
    BY <1>4 DEF Extra
  <2> QED  BY <1>2, <1>3, <1>4, <2>1 DEF Asked
<1> QED  BY <1>1, <1>2, <1>3, <1>4

\* A request's account depends on nothing else.
LEMMA Frame ==
  ASSUME Inv, NEW u \in Requests, Account(u), Undisturbed(u)
  PROVE  Account(u)'
<1> DEFINE b == plan[u].target
<1>1. \A c \in plan[u].released :
        c \in Bookings /\ booking'[c] = booking[c] /\ debit'[c] = debit[c]
  <2>1. \A c \in plan[u].released : c \in Bookings /\ bookingLock[c] = u
    BY DEF Inv, BookingsAreLocked, TypeOK
  <2> QED  BY <2>1 DEF Undisturbed
<1>2. b \in Bookings => booking'[b] = booking[b] /\ debit'[b] = debit[b] /\ bookingLock[b] = u
  BY DEF Inv, BookingsAreLocked, Undisturbed
<1>3. phase[u] \in {"giveback", "leave"} => b \in Bookings
  BY DEF Inv, ShrinkIsLocked
<1>s. /\ plan'[u] = plan[u] /\ (Settles(u) => b \in Bookings)
      /\ Settles(u) => booking'[b] = booking[b]
  BY <1>2 DEF Undisturbed, Settles, Inv, TypeOK
<1>4. /\ Settles(u)' <=> Settles(u)
      /\ HoldsNow(u)' <=> HoldsNow(u)
      /\ Enters(u)' <=> Enters(u)
      /\ Shrinks(u)' <=> Shrinks(u)
      /\ Settles(u) => Asked(u)' = Asked(u)
  BY <1>s, SamePlan
<1>6. \A p \in Purchases : drawn[u][p] # 0 => purchase'[p] = purchase[p]
  BY DEF Inv, WritesAreLocked, Undisturbed
<1>7. KeepsToPlan(u)'
  <2>1. KeepsToPlan(u)
    BY DEF Account
  <2> QED  BY <1>1, <1>4, <1>s, <1>6, <2>1 DEF KeepsToPlan, Undisturbed
<1>8. CreditsAddUp(u)'
  <2>1. \A p \in Purchases : Returned(u, p)' = Returned(u, p)
    BY <1>1 DEF Returned, Undisturbed
  <2> QED  BY <2>1 DEF Account, CreditsAddUp, Undisturbed
<1>9. NeedIsLeft(u)'
  BY <1>4 DEF Account, NeedIsLeft, Undisturbed
<1>10. GivesAll(u)'
  BY <1>2, <1>3 DEF Account, GivesAll, Undisturbed
<1>11. GivesLatestFirst(u)'
  <2>1. \A p, q \in Purchases : Earlier(u, p, q)' <=> Earlier(u, p, q)
    BY DEF Earlier, Undisturbed
  <2> QED  BY <1>2, <1>3, <2>1 DEF Account, GivesLatestFirst, Undisturbed
<1>12. WalksInOrder(u)'
  <2>1. \A p, q \in Purchases : Earlier(u, p, q)' <=> Earlier(u, p, q)
    BY DEF Earlier, Undisturbed
  <2>2. \A p \in Purchases : rowLock[p] = u => (Spendable(u, p)' <=> Spendable(u, p))
    BY DEF Spendable, Balance, Undisturbed
  <2>3. todo[u] \subseteq Purchases
    BY DEF Inv, TypeOK
  <2> QED  BY <2>1, <2>2, <2>3 DEF Account, WalksInOrder, Undisturbed
<1> QED  BY <1>7, <1>8, <1>9, <1>10, <1>11, <1>12 DEF Account

\* An empty bank, nobody at work.
LEMMA InitLedger == Init => Ledger
<1> SUFFICES ASSUME Init PROVE Ledger
  OBVIOUS
<1> USE HoursArePositive, NullsAreFresh DEF Init, AbsentRow, Row
<1>1. ASSUME NEW r \in Requests PROVE Account(r)
  <2>1. KeepsToPlan(r) /\ ~Settles(r)
    BY DEF KeepsToPlan, Settles
  <2>2. CreditsAddUp(r)
    <3> SUFFICES ASSUME NEW p \in Purchases PROVE back[r][p] = SumFunction(Returned(r, p)) + gave[r][p]
      BY DEF CreditsAddUp
    <3>1. DOMAIN Returned(r, p) = Bookings /\ \A b \in Bookings : Returned(r, p)[b] = 0
      BY DEF Returned
    <3>2. SumFunction(Returned(r, p)) = 0
      BY <3>1, ZeroSums
    <3> QED  BY <3>2
  <2>3. NeedIsLeft(r) /\ GivesAll(r) /\ GivesLatestFirst(r) /\ WalksInOrder(r)
    BY <2>1 DEF NeedIsLeft, GivesAll, GivesLatestFirst, WalksInOrder
  <2> QED  BY <2>1, <2>2, <2>3 DEF Account
<1>2. DurationsCount /\ AbsentIsUnused /\ ShareIsDebited
  BY DEF DurationsCount, AbsentIsUnused, ShareIsDebited
<1>3. UsedIsDebited
  <2> SUFFICES ASSUME NEW p \in Purchases
               PROVE purchase[p].used = SumFunction([b \in Bookings |-> debit[b][p]])
    BY DEF UsedIsDebited
  <2>1. \A b \in Bookings : [c \in Bookings |-> debit[c][p]][b] = 0
    OBVIOUS
  <2>2. SumFunction([b \in Bookings |-> debit[b][p]]) = 0
    BY <2>1, ZeroSums
  <2> QED  BY <2>2
<1> QED  BY <1>1, <1>2, <1>3 DEF Ledger

\* A step of one request that commits nothing.
LEMMA StepLedger ==
  ASSUME Inv, Ledger, NEW r \in Requests, UNCHANGED rows, Account(r)',
         \A u \in Requests \ {r} : Undisturbed(u)
  PROVE  Ledger'
<1>1. \A u \in Requests : Account(u)'
  BY Frame DEF Ledger
<1>2. DurationsCount' /\ AbsentIsUnused' /\ UsedIsDebited' /\ ShareIsDebited'
  BY DEF Ledger, DurationsCount, AbsentIsUnused, UsedIsDebited, ShareIsDebited, rows
<1> QED  BY <1>1, <1>2 DEF Ledger

\* What an account says of a request that neither draws nor gives back.
LEMMA Untouched ==
  ASSUME Inv, NEW r \in Requests, KeepsToPlan(r), phase[r] \in {"idle", "release"}
  PROVE  \A p \in Purchases : drawn[r][p] = 0 /\ gave[r][p] = 0
  BY DEF Inv, GivesWhatWasDrawn, KeepsToPlan

\* It opens with nothing flipped or credited yet.
LEMMA OpenLedger ==
  ASSUME Inv, Ledger, NEW r \in Requests, NEW b \in Bookings \cup {NoBooking},
         NEW f \in Plan, NEW S \in SUBSET Bookings, Opens(r, b, f, S)
  PROVE  Ledger'
<1> USE NullsAreFresh DEF rows, locks, session
<1>0. /\ phase[r] = "idle"
      /\ UNCHANGED <<now, purchase, booking, debit, rowLock, expiring, visiting, todo, order, need,
                     drawn, back, gave>>
      /\ phase'[r] = "release" /\ plan'[r] = f /\ asked'[r] = S /\ todo[r] = {}
  BY DEF Opens, Open, Inv, TypeOK, VisitsOwn
<1>k. Account(r)
  BY DEF Ledger
<1>f. /\ f.target = b /\ f.released = {} /\ expiring[r] = {} /\ need[r] = 0 /\ plan[r] = NoPlan
      /\ b \in Bookings =>
           /\ f.size \in Nat
           /\ IF booking[b].state = "none" THEN f.becomes \in HoldsHours ELSE f.whole
  BY <1>0, <1>k DEF Opens, Account, KeepsToPlan
<1>1. \A p \in Purchases : drawn'[r][p] = 0 /\ gave'[r][p] = 0
  BY <1>0, <1>k, Untouched DEF Account
<1>2. KeepsToPlan(r)'
  BY <1>0, <1>1, <1>f DEF KeepsToPlan, Settles
<1>3. CreditsAddUp(r)'
  <2>1. ASSUME NEW p \in Purchases PROVE back[r][p] = 0 /\ SumFunction(Returned(r, p)') = 0
    <3>1. /\ DOMAIN Returned(r, p) = Bookings /\ \A c \in Bookings : Returned(r, p)[c] = 0
          /\ DOMAIN Returned(r, p)' = Bookings /\ \A c \in Bookings : Returned(r, p)'[c] = 0
      BY <1>0, <1>f DEF Returned
    <3>2. SumFunction(Returned(r, p)) = 0 /\ SumFunction(Returned(r, p)') = 0
      BY <3>1, ZeroSums
    <3> QED  BY <1>0, <1>1, <1>k, <3>2 DEF Account, CreditsAddUp
  <2> QED  BY <1>0, <1>1, <2>1 DEF CreditsAddUp
<1>4. NeedIsLeft(r)'
  BY <1>0, <1>f DEF NeedIsLeft
<1>5. GivesLatestFirst(r)' /\ WalksInOrder(r)' /\ GivesAll(r)'
  BY <1>0 DEF GivesLatestFirst, WalksInOrder, GivesAll
<1>6. \A u \in Requests \ {r} : Undisturbed(u)
  BY DEF Undisturbed, Opens, Open, Inv, TypeOK
<1>7. Account(r)'
  BY <1>2, <1>3, <1>4, <1>5 DEF Account
<1> QED  BY <1>0, <1>6, <1>7, StepLedger

\* A row of the UPDATE: what is flipped holds hours, and is yet to be credited.
LEMMA FlipHoldLedger ==
  ASSUME Inv, Ledger, NEW r \in Requests, FlipHold(r)
  PROVE  Ledger'
<1> USE NullsAreFresh DEF rows, locks, session
<1> PICK b \in asked[r] :
      /\ bookingLock[b] \in {r, NoRequest}
      /\ asked' = [asked EXCEPT ![r] = @ \ {b}]
      /\ IF StillPending(b)
         THEN /\ bookingLock' = [bookingLock EXCEPT ![b] = r]
              /\ plan' = [plan EXCEPT ![r].released = @ \cup {b}]
              /\ expiring' = [expiring EXCEPT ![r] = @ \cup {b}]
         ELSE UNCHANGED <<bookingLock, plan, expiring>>
  BY DEF FlipHold
<1>0. /\ UNCHANGED <<now, rows, rowLock, phase, visiting, todo, order, need, drawn, back, gave>>
      /\ b \in Bookings /\ asked'[r] = asked[r] \ {b}
      /\ \A u \in Requests \ {r} : asked'[u] = asked[u]
  BY DEF FlipHold, Inv, TypeOK
<1>k. Account(r) /\ KeepsToPlan(r)
  BY DEF Ledger, Account
<1>r. /\ phase[r] = "release" /\ todo[r] = {} /\ b \notin plan[r].released
      /\ need[r] \in Nat /\ (Settles(r) => need[r] = 0)
  BY <1>k DEF Account, KeepsToPlan, NeedIsLeft, Inv, TypeOK
<1>p. /\ plan'[r].target = plan[r].target /\ plan'[r].size = plan[r].size
      /\ plan'[r].becomes = plan[r].becomes /\ plan'[r].whole = plan[r].whole
      /\ \A u \in Requests \ {r} : plan'[u] = plan[u] /\ expiring'[u] = expiring[u]
      /\ \/ /\ StillPending(b) /\ plan'[r].released = plan[r].released \cup {b}
            /\ expiring'[r] = expiring[r] \cup {b}
         \/ plan'[r].released = plan[r].released /\ expiring'[r] = expiring[r]
  <2>1. plan \in [Requests -> Plan] /\ expiring \in [Requests -> SUBSET Bookings]
    BY DEF Inv, TypeOK
  <2>2. CASE StillPending(b)
    <3>1. /\ plan' = [plan EXCEPT ![r] = [plan[r] EXCEPT !.released = plan[r].released \cup {b}]]
          /\ expiring' = [expiring EXCEPT ![r] = expiring[r] \cup {b}]
      BY <2>1, <2>2
    <3>2. /\ [plan[r] EXCEPT !.released = plan[r].released \cup {b}].target = plan[r].target
          /\ [plan[r] EXCEPT !.released = plan[r].released \cup {b}].size = plan[r].size
          /\ [plan[r] EXCEPT !.released = plan[r].released \cup {b}].becomes = plan[r].becomes
          /\ [plan[r] EXCEPT !.released = plan[r].released \cup {b}].whole = plan[r].whole
          /\ [plan[r] EXCEPT !.released = plan[r].released \cup {b}].released
               = plan[r].released \cup {b}
      BY <2>1
    <3> QED  BY <2>1, <2>2, <3>1, <3>2
  <2>3. CASE ~StillPending(b)
    BY <2>3
  <2> QED  BY <2>2, <2>3
<1>1. \A p \in Purchases : drawn[r][p] = 0 /\ gave[r][p] = 0
  BY <1>r, <1>k, Untouched
<1>2. KeepsToPlan(r)'
  BY <1>0, <1>1, <1>k, <1>r, <1>p DEF KeepsToPlan, Settles, StillPending
<1>3. CreditsAddUp(r)'
  <2>1. ASSUME NEW p \in Purchases PROVE Returned(r, p)' = Returned(r, p)
    BY <1>0, <1>r, <1>p DEF Returned
  <2> QED  BY <1>0, <1>k, <2>1 DEF Account, CreditsAddUp
<1>4. NeedIsLeft(r)'
  BY <1>0, <1>r, <1>p DEF NeedIsLeft, Settles
<1>5. GivesLatestFirst(r)' /\ WalksInOrder(r)' /\ GivesAll(r)'
  BY <1>0, <1>r DEF GivesLatestFirst, WalksInOrder, GivesAll
<1>6. \A u \in Requests \ {r} : Undisturbed(u)
  BY <1>0, <1>p DEF Undisturbed
<1>7. Account(r)'
  BY <1>2, <1>3, <1>4, <1>5 DEF Account
<1> QED  BY <1>0, <1>6, <1>7, StepLedger

\* The second UPDATE names holds that were not flipped before.
LEMMA FlipAgainLedger ==
  ASSUME Inv, Ledger, NEW r \in Requests, FlipAgain(r)
  PROVE  Ledger'
<1> USE NullsAreFresh DEF rows, locks, session
<1>0. /\ phase[r] = "release" /\ todo[r] = {} /\ expiring[r] = {}
      /\ UNCHANGED <<now, rows, locks, phase, expiring, visiting, todo, order, need, drawn, back, gave>>
      /\ asked'[r] \cap plan[r].released = {}
      /\ \A u \in Requests \ {r} : asked'[u] = asked[u]
  BY DEF FlipAgain, ReleasedAll, Inv, TypeOK
<1>k. Account(r) /\ KeepsToPlan(r)
  BY DEF Ledger, Account
<1>p. /\ plan'[r].target = plan[r].target /\ plan'[r].size = plan[r].size
      /\ plan'[r].becomes = plan[r].becomes /\ plan'[r].whole = plan[r].whole
      /\ plan'[r].released = plan[r].released
      /\ \A u \in Requests \ {r} : plan'[u] = plan[u]
  <2>1. plan \in [Requests -> Plan]
    BY DEF Inv, TypeOK
  <2>2. plan' = [plan EXCEPT ![r] = [plan[r] EXCEPT !.again = FALSE]]
    BY <2>1 DEF FlipAgain
  <2>3. /\ [plan[r] EXCEPT !.again = FALSE].target = plan[r].target
        /\ [plan[r] EXCEPT !.again = FALSE].size = plan[r].size
        /\ [plan[r] EXCEPT !.again = FALSE].becomes = plan[r].becomes
        /\ [plan[r] EXCEPT !.again = FALSE].whole = plan[r].whole
        /\ [plan[r] EXCEPT !.again = FALSE].released = plan[r].released
    BY <2>1
  <2> QED  BY <2>1, <2>2, <2>3
<1>1. \A p \in Purchases : drawn[r][p] = 0 /\ gave[r][p] = 0
  BY <1>0, <1>k, Untouched
<1>2. KeepsToPlan(r)'
  BY <1>0, <1>1, <1>k, <1>p DEF KeepsToPlan, Settles
<1>3. CreditsAddUp(r)'
  <2>1. ASSUME NEW p \in Purchases PROVE Returned(r, p)' = Returned(r, p)
    BY <1>0, <1>p DEF Returned
  <2> QED  BY <1>0, <1>k, <2>1 DEF Account, CreditsAddUp
<1>4. NeedIsLeft(r)'
  BY <1>0, <1>k, <1>p DEF Account, NeedIsLeft, Settles
<1>5. GivesLatestFirst(r)' /\ WalksInOrder(r)' /\ GivesAll(r)'
  BY <1>0 DEF GivesLatestFirst, WalksInOrder, GivesAll
<1>6. \A u \in Requests \ {r} : Undisturbed(u)
  BY <1>0, <1>p DEF Undisturbed
<1>7. Account(r)'
  BY <1>2, <1>3, <1>4, <1>5 DEF Account
<1> QED  BY <1>0, <1>6, <1>7, StepLedger

\* The next flipped booking has been credited for nothing yet.
LEMMA VisitBookingLedger ==
  ASSUME Inv, Ledger, NEW r \in Requests, VisitBooking(r)
  PROVE  Ledger'
<1> USE NullsAreFresh DEF rows, locks, session
<1> PICK b \in expiring[r] :
      /\ visiting' = [visiting EXCEPT ![r] = b]
      /\ expiring' = [expiring EXCEPT ![r] = @ \ {b}]
      /\ ReadRows(r, Drawn(b))
  BY DEF VisitBooking
<1>0. /\ phase[r] = "release" /\ todo[r] = {} /\ asked[r] = {} /\ b \in Bookings
      /\ UNCHANGED <<now, rows, locks, phase, plan, asked, need, drawn, back, gave>>
      /\ visiting'[r] = b /\ expiring'[r] = expiring[r] \ {b} /\ todo'[r] = Drawn(b)
  BY DEF VisitBooking, ReadRows, Inv, TypeOK
<1>k. Account(r)
  BY DEF Ledger
<1>s. /\ Settles(r)' <=> Settles(r)
      /\ HoldsNow(r)' <=> HoldsNow(r)
      /\ Enters(r)' <=> Enters(r)
      /\ Shrinks(r)' <=> Shrinks(r)
      /\ Settles(r) => Asked(r)' = Asked(r)
  BY <1>0, SamePlan
<1>1. \A p \in Purchases : drawn[r][p] = 0 /\ gave[r][p] = 0
  BY <1>0, <1>k, Untouched DEF Account
<1>2. KeepsToPlan(r)'
  BY <1>0, <1>1, <1>k, <1>s DEF Account, KeepsToPlan
<1>3. CreditsAddUp(r)'
  <2>1. ASSUME NEW p \in Purchases PROVE Returned(r, p)' = Returned(r, p)
    <3>1. p \in Drawn(b) \/ debit[b][p] = 0
      BY <1>0 DEF Inv, TypeOK, DrawsAndDebitsCount, Drawn
    <3>2. b \in plan[r].released
      BY <1>k DEF Account, KeepsToPlan
    <3> QED  BY <1>0, <3>1, <3>2 DEF Returned
  <2> QED  BY <1>0, <1>k, <2>1 DEF Account, CreditsAddUp
<1>4. NeedIsLeft(r)'
  BY <1>0, <1>k, <1>s DEF Account, NeedIsLeft
<1>5. GivesLatestFirst(r)' /\ WalksInOrder(r)' /\ GivesAll(r)'
  BY <1>0, <1>1 DEF GivesLatestFirst, WalksInOrder, GivesAll
<1>6. \A u \in Requests \ {r} : Undisturbed(u)
  BY <1>0 DEF Undisturbed, ReadRows, Inv, TypeOK
<1>7. Account(r)'
  BY <1>2, <1>3, <1>4, <1>5 DEF Account
<1> QED  BY <1>0, <1>6, <1>7, StepLedger

\* One row's debit is credited, and no longer to do.
LEMMA CreditRowLedger ==
  ASSUME Inv, Ledger, NEW r \in Requests, CreditRow(r)
  PROVE  Ledger'
<1> USE NullsAreFresh DEF rows, locks, session
<1> PICK p \in Purchases :
      LockRow(r, p) /\ back' = [back EXCEPT ![r][p] = @ + Credited(r, p)]
  BY DEF CreditRow
<1>0. /\ phase[r] = "release" /\ p \in todo[r]
      /\ UNCHANGED <<now, rows, bookingLock, phase, plan, asked, expiring, visiting, order, need, drawn, gave>>
      /\ todo'[r] = todo[r] \ {p}
  BY DEF CreditRow, LockRow, IsFirst, Inv, TypeOK
<1>k. Account(r)
  BY DEF Ledger
<1>v. visiting[r] \in plan[r].released \ expiring[r] /\ visiting[r] \in Bookings
  BY <1>0, <1>k DEF Account, KeepsToPlan, Inv, TypeOK
<1>c. Credited(r, p) \in Int /\ Credited(r, p) = debit[visiting[r]][p]
  BY <1>v DEF Credited, Inv, TypeOK
<1>b. \A q \in Purchases : back'[r][q] = IF q = p THEN back[r][q] + Credited(r, p) ELSE back[r][q]
  BY DEF Inv, TypeOK
<1>s. /\ Settles(r)' <=> Settles(r)
      /\ HoldsNow(r)' <=> HoldsNow(r)
      /\ Enters(r)' <=> Enters(r)
      /\ Shrinks(r)' <=> Shrinks(r)
      /\ Settles(r) => Asked(r)' = Asked(r)
  BY <1>0, SamePlan
<1>1. \A q \in Purchases : drawn[r][q] = 0 /\ gave[r][q] = 0
  BY <1>0, <1>k, Untouched DEF Account
<1>2. KeepsToPlan(r)'
  BY <1>0, <1>1, <1>k, <1>s DEF Account, KeepsToPlan
<1>3. CreditsAddUp(r)'
  <2>1. ASSUME NEW q \in Purchases, q # p PROVE Returned(r, q)' = Returned(r, q)
    BY <1>0, <2>1 DEF Returned
  <2>2. SumFunction(Returned(r, p)') = SumFunction(Returned(r, p)) + Credited(r, p)
    <3>1. /\ DOMAIN Returned(r, p) = Bookings /\ DOMAIN Returned(r, p)' = Bookings
          /\ Numeric(Returned(r, p), Bookings)
      BY DEF Returned, Numeric, Inv, TypeOK
    <3>2. \A x \in Bookings : Returned(r, p)'[x] =
            IF x = visiting[r] THEN Returned(r, p)[x] + Credited(r, p) ELSE Returned(r, p)[x]
      BY <1>0, <1>v, <1>c DEF Returned
    <3> HIDE DEF rows, locks, session
    <3> QED  BY <1>v, <1>c, <3>1, <3>2, TablesAreFinite, SumUpdates, SumOfFunction
  <2>3. SumFunction(Returned(r, p)) \in Int
    <3>1. DOMAIN Returned(r, p) = Bookings /\ Numeric(Returned(r, p), Bookings)
      BY DEF Returned, Numeric, Inv, TypeOK
    <3> QED  BY <3>1, TablesAreFinite, SumSteps, SumOfFunction
  <2> QED  BY <1>0, <1>1, <1>b, <1>c, <1>k, <2>1, <2>2, <2>3 DEF Account, CreditsAddUp
<1>4. NeedIsLeft(r)'
  BY <1>0, <1>k, <1>s DEF Account, NeedIsLeft
<1>5. GivesLatestFirst(r)' /\ WalksInOrder(r)' /\ GivesAll(r)'
  BY <1>0, <1>1 DEF GivesLatestFirst, WalksInOrder, GivesAll
<1>6. \A u \in Requests \ {r} : Undisturbed(u)
  BY <1>0 DEF Undisturbed, LockRow, Inv, TypeOK
<1>7. Account(r)'
  BY <1>2, <1>3, <1>4, <1>5 DEF Account
<1> QED  BY <1>0, <1>6, <1>7, StepLedger

\* The candidates are read: all that is to do can be drawn on, nothing else can.
LEMMA BeginWalkLedger ==
  ASSUME Inv, Ledger, NEW r \in Requests, BeginWalk(r)
  PROVE  Ledger'
<1> USE NullsAreFresh DEF rows, locks, session
<1>0. /\ phase[r] = "release" /\ todo[r] = {} /\ expiring[r] = {} /\ asked[r] = {} /\ Settles(r)
      /\ Enters(r) \/ (HoldsNow(r) /\ ~Shrinks(r))
      /\ need'[r] = Asked(r) /\ Asked(r) \in Int
      /\ UNCHANGED <<now, rows, locks, plan, asked, expiring, visiting, drawn, back, gave>>
      /\ phase'[r] = "walk" /\ todo'[r] = {p \in Purchases : Spendable(r, p)}
  <2>1. Settle(r, "walk", {p \in Purchases : Spendable(r, p)}) /\ Settles(r)
    BY DEF BeginWalk, Enters, HoldsNow
  <2>2. Asked(r) \in Int
    BY <2>1, AskedIsHours DEF Inv
  <2> QED  BY <2>1, <2>2 DEF BeginWalk, Settle, ReleasedAll, ReadRows, Inv, TypeOK
<1>k. Account(r)
  BY DEF Ledger
<1>s. /\ Settles(r)' <=> Settles(r)
      /\ HoldsNow(r)' <=> HoldsNow(r)
      /\ Enters(r)' <=> Enters(r)
      /\ Shrinks(r)' <=> Shrinks(r)
      /\ Settles(r) => Asked(r)' = Asked(r)
  BY <1>0, SamePlan
<1>1. \A p \in Purchases : drawn[r][p] = 0 /\ gave[r][p] = 0
  BY <1>0, <1>k, Untouched DEF Account
<1>2. KeepsToPlan(r)'
  BY <1>0, <1>1, <1>k, <1>s DEF Account, KeepsToPlan
<1>3. CreditsAddUp(r)'
  <2>1. ASSUME NEW p \in Purchases PROVE Returned(r, p)' = Returned(r, p)
    BY <1>0 DEF Returned
  <2> QED  BY <1>0, <1>k, <2>1 DEF Account, CreditsAddUp
<1>4. NeedIsLeft(r)'
  <2>1. SumFunction(drawn[r]) = 0 /\ SumFunction(gave[r]) = 0
    BY <1>1, ZeroSums DEF Inv, TypeOK
  <2> QED  BY <1>0, <1>s, <2>1 DEF NeedIsLeft
<1>5. GivesLatestFirst(r)' /\ GivesAll(r)'
  BY <1>0, <1>1 DEF GivesLatestFirst, GivesAll
<1>6. WalksInOrder(r)'
  BY <1>0, <1>1 DEF WalksInOrder, Spendable, Balance
<1>7. \A u \in Requests \ {r} : Undisturbed(u)
  BY <1>0 DEF Undisturbed, BeginWalk, Settle, ReadRows, Inv, TypeOK
<1>8. Account(r)'
  BY <1>2, <1>3, <1>4, <1>5, <1>6 DEF Account
<1> QED  BY <1>0, <1>7, <1>8, StepLedger

\* Earlier is a total order of the rows: by expiry, then by id.
LEMMA EarlierOrders ==
  ASSUME Inv, NEW r \in Requests, NEW p \in Purchases, NEW q \in Purchases,
         Earlier(r, p, q), Earlier(r, q, p)
  PROVE  p = q
  BY PurchasesAreIds, HoursArePositive DEF Earlier, Inv, TypeOK

\* One row is looked at: either it is emptied, or the walk has what it needs.
LEMMA WalkRowLedger ==
  ASSUME Inv, Ledger, NEW r \in Requests, WalkRow(r)
  PROVE  Ledger'
<1> USE NullsAreFresh DEF rows, locks, session
<1> PICK p \in Purchases :
      /\ LockRow(r, p)
      /\ need' = [need EXCEPT ![r] = @ - Taken(r, p)]
      /\ drawn' = [drawn EXCEPT ![r][p] = @ + Taken(r, p)]
  BY DEF WalkRow
<1>0. /\ phase[r] = "walk" /\ need[r] > 0 /\ IsFirst(r, p)
      /\ UNCHANGED <<now, rows, bookingLock, phase, plan, asked, expiring, visiting, order, back, gave>>
      /\ todo'[r] = todo[r] \ {p}
      /\ \A q \in Purchases : rowLock'[q] = r => rowLock[q] = r \/ q = p
  BY DEF WalkRow, LockRow, Inv, TypeOK
<1>s. /\ Settles(r)' <=> Settles(r)
      /\ HoldsNow(r)' <=> HoldsNow(r)
      /\ Enters(r)' <=> Enters(r)
      /\ Shrinks(r)' <=> Shrinks(r)
      /\ Settles(r) => Asked(r)' = Asked(r)
  BY <1>0, SamePlan
<1>k. Account(r)
  BY DEF Ledger
<1>t. /\ Taken(r, p) \in Int /\ Taken(r, p) >= 0 /\ Taken(r, p) <= need[r]
      /\ Taken(r, p) # 0 => purchase[p].status = "active"
      /\ Spendable(r, p) => Taken(r, p) = Balance(r, p) \/ Taken(r, p) = need[r]
      /\ Balance(r, p) \in Int
  BY DEF Inv, TypeOK, Taken, Spendable, Smaller, Balance
<1>d. /\ \A q \in Purchases : drawn'[r][q] = IF q = p THEN drawn[r][q] + Taken(r, p) ELSE drawn[r][q]
      /\ need'[r] = need[r] - Taken(r, p) /\ need[r] \in Int
      /\ DOMAIN drawn[r] = Purchases /\ DOMAIN drawn'[r] = Purchases
      /\ Numeric(drawn[r], Purchases)
  BY DEF Inv, TypeOK, Numeric
<1>z. drawn[r][p] = 0
  BY <1>0, <1>k DEF Account, WalksInOrder, IsFirst
<1>2. KeepsToPlan(r)'
  BY <1>0, <1>d, <1>t, <1>k, <1>s DEF Account, KeepsToPlan
<1>3. CreditsAddUp(r)'
  <2>1. ASSUME NEW q \in Purchases PROVE Returned(r, q)' = Returned(r, q)
    BY <1>0 DEF Returned
  <2> QED  BY <1>0, <1>k, <2>1 DEF Account, CreditsAddUp
<1>4. NeedIsLeft(r)'
  <2>1. SumFunction(drawn'[r]) = SumFunction(drawn[r]) + Taken(r, p)
    BY <1>d, <1>t, TablesAreFinite, SumUpdates, SumOfFunction
  <2>2. SumFunction(drawn[r]) \in Int /\ SumFunction(gave[r]) \in Int
    <3>1. DOMAIN gave[r] = Purchases /\ Numeric(gave[r], Purchases)
      BY DEF Inv, TypeOK, Numeric
    <3> QED  BY <3>1, <1>d, TablesAreFinite, SumSteps, SumOfFunction
  <2>4. gave'[r] = gave[r]
    BY <1>0
  <2>5. Settles(r) => SumFunction(drawn[r]) + SumFunction(gave[r]) + need[r] = Asked(r)
    BY <1>0, <1>k DEF Account, NeedIsLeft
  <2> QED  BY <1>0, <1>d, <1>s, <1>t, <2>1, <2>2, <2>4, <2>5 DEF NeedIsLeft
<1>5. GivesLatestFirst(r)' /\ GivesAll(r)'
  BY <1>0, <1>k DEF Account, GivesLatestFirst, GivesAll, Earlier
<1>6. WalksInOrder(r)'
  <2>0. WalksInOrder(r) /\ todo[r] \subseteq Purchases
    BY <1>k DEF Account, Inv, TypeOK
  <2>1. \A q, s \in Purchases : Earlier(r, q, s)' <=> Earlier(r, q, s)
    BY <1>0 DEF Earlier
  <2>2. ASSUME NEW q \in Purchases, drawn'[r][q] # 0
        PROVE  q \notin todo'[r] /\ \A s \in todo'[r] : Earlier(r, q, s)
    BY <1>0, <1>d, <2>0, <2>2 DEF WalksInOrder, IsFirst
  <2>3. ASSUME NEW s \in Purchases, rowLock'[s] = r, s \notin todo'[r], Spendable(r, s)'
        PROVE  s = p
    <3>1. CASE s # p
      <4>1. Spendable(r, s) /\ rowLock[s] = r /\ s \notin todo[r]
        BY <1>0, <1>d, <2>3, <3>1 DEF Spendable, Balance
      <4> QED  BY <1>0, <2>0, <4>1 DEF WalksInOrder
    <3> QED  BY <3>1
  <2>4. ASSUME Spendable(r, p)' PROVE need'[r] = 0
    <3>1. Balance(r, p)' = Balance(r, p) - Taken(r, p)
      BY <1>0, <1>d, <1>t DEF Balance, Inv, TypeOK
    <3>2. Spendable(r, p)
      BY <1>0, <1>t, <2>4, <3>1 DEF Spendable
    <3>3. Balance(r, p)' > 0
      BY <2>4 DEF Spendable
    <3> QED  BY <1>d, <1>t, <3>1, <3>2, <3>3
  <2>5. ASSUME NEW q \in Purchases, drawn'[r][q] # 0 PROVE q = p \/ Earlier(r, q, p)
    BY <1>0, <1>d, <2>0, <2>5 DEF WalksInOrder, IsFirst
  <2>6. phase'[r] = "walk" /\ todo'[r] \subseteq Purchases
    BY <1>0, <2>0
  <2> QED  BY <2>1, <2>2, <2>3, <2>4, <2>5, <2>6 DEF WalksInOrder
<1>7. \A u \in Requests \ {r} : Undisturbed(u)
  BY <1>0 DEF Undisturbed, LockRow, Inv, TypeOK
<1>8. Account(r)'
  BY <1>2, <1>3, <1>4, <1>5, <1>6 DEF Account
<1> QED  BY <1>0, <1>7, <1>8, StepLedger

\* The rows of a shrinking booking are read, none has given anything back.
LEMMA BeginGivebackLedger ==
  ASSUME Inv, Ledger, NEW r \in Requests, BeginGiveback(r)
  PROVE  Ledger'
<1> USE NullsAreFresh DEF rows, locks, session
<1>0. /\ phase[r] = "release" /\ todo[r] = {} /\ expiring[r] = {} /\ asked[r] = {} /\ Settles(r)
      /\ Shrinks(r) /\ need'[r] = Asked(r) /\ Asked(r) \in Int
      /\ UNCHANGED <<now, rows, locks, plan, asked, expiring, visiting, drawn, back, gave>>
      /\ phase'[r] = "giveback"
  <2>1. Settle(r, "giveback", Drawn(plan[r].target)) /\ Settles(r) /\ Shrinks(r)
    BY DEF BeginGiveback, Shrinks, HoldsNow
  <2>2. Asked(r) \in Int
    BY <2>1, AskedIsHours DEF Inv
  <2> QED  BY <2>1, <2>2 DEF Settle, ReleasedAll, ReadRows, Inv, TypeOK
<1>k. Account(r)
  BY DEF Ledger
<1>s. /\ Settles(r)' <=> Settles(r)
      /\ HoldsNow(r)' <=> HoldsNow(r)
      /\ Enters(r)' <=> Enters(r)
      /\ Shrinks(r)' <=> Shrinks(r)
      /\ Settles(r) => Asked(r)' = Asked(r)
  BY <1>0, SamePlan
<1>1. \A p \in Purchases : drawn[r][p] = 0 /\ gave[r][p] = 0
  BY <1>0, <1>k, Untouched DEF Account
<1>2. KeepsToPlan(r)'
  BY <1>0, <1>1, <1>k, <1>s DEF Account, KeepsToPlan
<1>3. CreditsAddUp(r)'
  <2>1. ASSUME NEW p \in Purchases PROVE Returned(r, p)' = Returned(r, p)
    BY <1>0 DEF Returned
  <2> QED  BY <1>0, <1>k, <2>1 DEF Account, CreditsAddUp
<1>4. NeedIsLeft(r)'
  <2>1. SumFunction(drawn[r]) = 0 /\ SumFunction(gave[r]) = 0
    BY <1>1, ZeroSums DEF Inv, TypeOK
  <2> QED  BY <1>0, <1>s, <2>1 DEF NeedIsLeft
<1>5. GivesLatestFirst(r)' /\ GivesAll(r)' /\ WalksInOrder(r)'
  BY <1>0, <1>1 DEF GivesLatestFirst, GivesAll, WalksInOrder
<1>7. \A u \in Requests \ {r} : Undisturbed(u)
  BY <1>0 DEF Undisturbed, BeginGiveback, Settle, ReadRows, Inv, TypeOK
<1>8. Account(r)'
  BY <1>2, <1>3, <1>4, <1>5 DEF Account
<1> QED  BY <1>0, <1>7, <1>8, StepLedger

\* One more of its rows is locked.
LEMMA LockDebitedLedger ==
  ASSUME Inv, Ledger, NEW r \in Requests, LockDebited(r)
  PROVE  Ledger'
<1> USE NullsAreFresh DEF rows, locks, session
<1> PICK p \in Purchases : LockRow(r, p)
  BY DEF LockDebited
<1>0. /\ phase[r] = "giveback"
      /\ UNCHANGED <<now, rows, bookingLock, phase, plan, asked, expiring, visiting, order, need,
                     drawn, back, gave>>
  BY DEF LockDebited
<1>s. /\ Settles(r)' <=> Settles(r)
      /\ HoldsNow(r)' <=> HoldsNow(r)
      /\ Enters(r)' <=> Enters(r)
      /\ Shrinks(r)' <=> Shrinks(r)
      /\ Settles(r) => Asked(r)' = Asked(r)
  BY <1>0, SamePlan
<1>k. Account(r)
  BY DEF Ledger
<1>2. KeepsToPlan(r)'
  BY <1>0, <1>k, <1>s DEF Account, KeepsToPlan
<1>3. CreditsAddUp(r)'
  <2>1. ASSUME NEW q \in Purchases PROVE Returned(r, q)' = Returned(r, q)
    BY <1>0 DEF Returned
  <2> QED  BY <1>0, <1>k, <2>1 DEF Account, CreditsAddUp
<1>4. NeedIsLeft(r)'
  BY <1>0, <1>k, <1>s DEF Account, NeedIsLeft
<1>5. GivesLatestFirst(r)' /\ GivesAll(r)' /\ WalksInOrder(r)'
  BY <1>0, <1>k DEF Account, GivesLatestFirst, GivesAll, WalksInOrder, Earlier
<1>7. \A u \in Requests \ {r} : Undisturbed(u)
  BY <1>0 DEF Undisturbed, LockRow, Inv, TypeOK
<1>8. Account(r)'
  BY <1>2, <1>3, <1>4, <1>5 DEF Account
<1> QED  BY <1>0, <1>7, <1>8, StepLedger

\* The last row that can give gives all it has, unless that ends it.
LEMMA GiveRowLedger ==
  ASSUME Inv, Ledger, NEW r \in Requests, GiveRow(r)
  PROVE  Ledger'
<1> USE NullsAreFresh DEF rows, locks, session
<1> DEFINE b == plan[r].target
           give(p) == Smaller(debit[b][p], need[r])
<1> PICK p \in Purchases :
      /\ GivesNext(r, p)
      /\ need' = [need EXCEPT ![r] = @ - give(p)]
      /\ gave' = [gave EXCEPT ![r][p] = give(p)]
      /\ back' = [back EXCEPT ![r][p] = @ + give(p)]
  BY DEF GiveRow
<1>0. /\ phase[r] = "giveback" /\ todo[r] = {} /\ need[r] > 0
      /\ UNCHANGED <<now, rows, locks, phase, plan, asked, expiring, visiting, todo, order, drawn>>
      /\ b \in Bookings
  BY DEF GiveRow, Inv, ShrinkIsLocked
<1>s. /\ Settles(r)' <=> Settles(r)
      /\ HoldsNow(r)' <=> HoldsNow(r)
      /\ Enters(r)' <=> Enters(r)
      /\ Shrinks(r)' <=> Shrinks(r)
      /\ Settles(r) => Asked(r)' = Asked(r)
  BY <1>0, SamePlan
<1>k. Account(r)
  BY DEF Ledger
<1>t. /\ debit[b][p] > 0 /\ gave[r][p] = 0
      /\ \A q \in Purchases : debit[b][q] > 0 /\ gave[r][q] = 0 => Earlier(r, q, p)
      /\ give(p) \in Int /\ give(p) > 0
      /\ give(p) = debit[b][p] \/ (need[r] = give(p) /\ need'[r] = 0)
  BY <1>0 DEF GivesNext, CanGive, Drawn, Smaller, Inv, TypeOK
<1>g. /\ need'[r] = need[r] - give(p) /\ need[r] \in Int
      /\ \A q \in Purchases : gave'[r][q] = IF q = p THEN gave[r][q] + give(p) ELSE gave[r][q]
      /\ \A q \in Purchases : back'[r][q] = IF q = p THEN back[r][q] + give(p) ELSE back[r][q]
      /\ DOMAIN gave[r] = Purchases /\ DOMAIN gave'[r] = Purchases
      /\ Numeric(gave[r], Purchases)
      /\ \A q \in Purchases : gave[r][q] \in Int /\ back[r][q] \in Int
  <2> HIDE DEF give
  <2>1. back \in [Requests -> [Purchases -> Int]] /\ gave \in [Requests -> [Purchases -> Int]]
        /\ need \in [Requests -> Nat]
    BY DEF Inv, TypeOK
  <2> QED  BY <1>t, <2>1 DEF Numeric
<1> HIDE DEF give
<1>2. KeepsToPlan(r)'
  BY <1>0, <1>k, <1>s DEF Account, KeepsToPlan
<1>3. CreditsAddUp(r)'
  <2>1. ASSUME NEW q \in Purchases PROVE Returned(r, q)' = Returned(r, q) /\ SumFunction(Returned(r, q)) \in Int
    <3>1. DOMAIN Returned(r, q) = Bookings /\ Numeric(Returned(r, q), Bookings)
      BY DEF Returned, Numeric, Inv, TypeOK
    <3>2. Returned(r, q)' = Returned(r, q)
      BY <1>0 DEF Returned
    <3> QED  BY <3>1, <3>2, TablesAreFinite, SumSteps, SumOfFunction
  <2> QED  BY <1>g, <1>t, <1>k, <2>1 DEF Account, CreditsAddUp
<1>4. NeedIsLeft(r)'
  <2>1. SumFunction(gave'[r]) = SumFunction(gave[r]) + give(p)
    <3>1. give(p) \in Int /\ Numeric(gave[r], Purchases)
      BY <1>g, <1>t
    <3>2. ASSUME NEW d \in Int, d = give(p)
          PROVE  SumFunctionOnSet(gave'[r], Purchases) = SumFunctionOnSet(gave[r], Purchases) + d
      <4>1. \A x \in Purchases : gave'[r][x] = IF x = p THEN gave[r][x] + d ELSE gave[r][x]
        BY <1>g, <3>2
      <4> QED  BY <3>1, <4>1, TablesAreFinite, SumUpdates
    <3> QED  BY <1>g, <3>1, <3>2, SumOfFunction
  <2>2. SumFunction(drawn[r]) \in Int /\ SumFunction(gave[r]) \in Int
    <3>1. DOMAIN drawn[r] = Purchases /\ Numeric(drawn[r], Purchases)
      BY DEF Inv, TypeOK, Numeric
    <3> QED  BY <3>1, <1>g, TablesAreFinite, SumSteps, SumOfFunction
  <2>4. drawn'[r] = drawn[r]
    BY <1>0
  <2>5. Settles(r) => SumFunction(drawn[r]) + SumFunction(gave[r]) + need[r] = Asked(r)
    BY <1>0, <1>k DEF Account, NeedIsLeft
  <2> QED  BY <1>0, <1>g, <1>s, <1>t, <2>1, <2>2, <2>4, <2>5 DEF NeedIsLeft
<1>5. GivesAll(r)'
  BY <1>0, <1>g, <1>t, <1>k DEF Account, GivesAll
<1>6. GivesLatestFirst(r)'
  <2> SUFFICES ASSUME NEW q \in Purchases, NEW s \in Purchases,
                      gave'[r][q] > 0, q # s, Earlier(r, q, s)
               PROVE  gave'[r][s] = debit[b][s]
    BY <1>0 DEF GivesLatestFirst, Earlier
  <2>1. GivesAll(r) /\ GivesLatestFirst(r)
    BY <1>k DEF Account
  <2>2. CASE q = p
    <3>1. ~Earlier(r, s, p)
      BY <2>2, EarlierOrders
    <3>2. debit[b][s] = 0 \/ gave[r][s] # 0
      BY <1>0, <1>t, <3>1 DEF Inv, TypeOK, DrawsAndDebitsCount
    <3>3. gave[r][s] = debit[b][s]
      BY <1>0, <2>1, <3>2 DEF GivesAll
    <3> QED  BY <1>g, <2>2, <3>3
  <2>3. CASE q # p
    <3>1. gave[r][q] > 0
      BY <1>g, <2>3
    <3>2. gave[r][s] = debit[b][s]
      BY <1>0, <2>1, <3>1 DEF GivesLatestFirst
    <3>3. s # p
      BY <1>t, <3>2
    <3> QED  BY <1>g, <3>2, <3>3
  <2> QED  BY <2>2, <2>3
<1>7. WalksInOrder(r)'
  BY <1>0 DEF WalksInOrder
<1>8. \A u \in Requests \ {r} : Undisturbed(u)
  BY <1>0 DEF Undisturbed, Inv, TypeOK
<1>9. Account(r)'
  BY <1>2, <1>3, <1>4, <1>5, <1>6, <1>7 DEF Account
<1> QED  BY <1>0, <1>8, <1>9, StepLedger

\* The target is let go: what it has given back or drawn is on rows to do.
LEMMA BeginLeaveLedger ==
  ASSUME Inv, Ledger, NEW r \in Requests, BeginLeave(r)
  PROVE  Ledger'
<1> USE NullsAreFresh DEF rows, locks, session
<1> DEFINE b == plan[r].target
           P == {p \in Purchases : debit[b][p] > 0 \/ drawn[r][p] > 0}
<1>k. Account(r) /\ KeepsToPlan(r)
  BY DEF Ledger, Account
<1>0. /\ HoldsNow(r) /\ Settles(r) /\ b \in Bookings /\ b \notin plan[r].released
      /\ plan[r].becomes = "released" /\ booking[b].state \in HoldsHours
      /\ phase[r] \in {"release", "walk", "giveback"}
      /\ UNCHANGED <<now, rows, locks, asked, expiring, visiting, need, drawn, back, gave>>
      /\ phase' = [phase EXCEPT ![r] = "leave"] /\ phase'[r] = "leave" /\ todo'[r] = P
  BY DEF BeginLeave, Settled, ReleasedAll, Leaves, HoldsNow, Settles, ReadRows, Inv, TypeOK
<1>e. /\ expiring[r] = {} /\ asked[r] = {}
      /\ phase[r] = "release" => todo[r] = {}
  BY <1>0, <1>k DEF BeginLeave, Settled, ReleasedAll, KeepsToPlan
<1>p. /\ plan'[r].target = b /\ plan'[r].size = plan[r].size
      /\ plan'[r].becomes = plan[r].becomes /\ plan'[r].whole = plan[r].whole
      /\ plan'[r].released = plan[r].released \cup {b}
      /\ \A u \in Requests \ {r} : plan'[u] = plan[u]
  <2> DEFINE f == [plan[r] EXCEPT !.released = plan[r].released \cup {b}]
  <2>1. plan \in [Requests -> Plan]
    BY DEF Inv, TypeOK
  <2>2. plan' = [plan EXCEPT ![r] = f]
    BY <2>1 DEF BeginLeave
  <2>3. /\ f.target = b /\ f.size = plan[r].size /\ f.becomes = plan[r].becomes
        /\ f.whole = plan[r].whole /\ f.released = plan[r].released \cup {b}
    BY <2>1
  <2> HIDE DEF f, b
  <2> QED  BY <2>1, <2>2, <2>3
<1>t. \A p \in Purchases :
        /\ debit[b][p] \in Nat /\ drawn[r][p] \in Nat /\ gave[r][p] \in Int
        /\ gave[r][p] = 0 \/ (gave[r][p] <= debit[b][p] /\ gave[r][p] > 0)
  <2>1. \A p \in Purchases : debit[b][p] \in Int /\ drawn[r][p] \in Int /\ gave[r][p] \in Int
    BY <1>0 DEF Inv, TypeOK
  <2>2. \A p \in Purchases : debit[b][p] >= 0 /\ drawn[r][p] >= 0
    BY <1>0 DEF Inv, DrawsAndDebitsCount
  <2>3. ASSUME NEW p \in Purchases
        PROVE  gave[r][p] = 0 \/ (gave[r][p] <= debit[b][p] /\ gave[r][p] > 0)
    <3>1. \/ gave[r][p] = 0
          \/ gave[r][p] > 0 /\ gave[r][p] <= debit[plan[r].target][p]
      BY DEF Inv, GivesWhatWasDrawn
    <3> QED  BY <3>1
  <2> HIDE DEF b
  <2> QED  BY <2>1, <2>2, <2>3
<1>1. \A p \in Purchases \ P : debit[b][p] = 0 /\ drawn[r][p] = 0 /\ gave[r][p] = 0
  BY <1>t
<1> HIDE DEF P
<1>2. KeepsToPlan(r)'
  <2>1. Settles(r)' <=> Settles(r)
    BY <1>p DEF Settles
  <2> QED  BY <1>0, <1>1, <1>e, <1>k, <1>p, <2>1 DEF KeepsToPlan
<1>3. CreditsAddUp(r)'
  <2>1. ASSUME NEW p \in Purchases PROVE Returned(r, p)' = Returned(r, p)
    BY <1>0, <1>1, <1>e, <1>p DEF Returned
  <2> QED  BY <1>0, <1>k, <2>1 DEF Account, CreditsAddUp
<1>4. NeedIsLeft(r)' /\ GivesLatestFirst(r)' /\ GivesAll(r)' /\ WalksInOrder(r)'
  BY <1>0 DEF NeedIsLeft, GivesLatestFirst, GivesAll, WalksInOrder
<1>6. \A u \in Requests \ {r} : Undisturbed(u)
  BY <1>0, <1>p DEF Undisturbed, BeginLeave, ReadRows, Inv, TypeOK
<1>7. Account(r)'
  BY <1>2, <1>3, <1>4 DEF Account
<1> QED  BY <1>0, <1>6, <1>7, StepLedger

\* A row of the target gives back all of its debit, and what was drawn on it.
LEMMA LeaveRowLedger ==
  ASSUME Inv, Ledger, NEW r \in Requests, LeaveRow(r)
  PROVE  Ledger'
<1> USE NullsAreFresh DEF rows, locks, session
<1> DEFINE b == plan[r].target
<1> PICK p \in Purchases :
      /\ LockRow(r, p)
      /\ back' = [back EXCEPT ![r][p] = @ + debit[plan[r].target][p] - gave[r][p]]
      /\ drawn' = [drawn EXCEPT ![r][p] = 0]
      /\ gave' = [gave EXCEPT ![r][p] = 0]
  BY DEF LeaveRow
<1>k. Account(r) /\ KeepsToPlan(r)
  BY DEF Ledger, Account
<1>0. /\ phase[r] = "leave" /\ b \in Bookings /\ p \in todo[r]
      /\ UNCHANGED <<now, rows, bookingLock, phase, plan, asked, expiring, visiting, order, need>>
      /\ todo'[r] = todo[r] \ {p}
  BY DEF LeaveRow, LockRow, IsFirst, Inv, TypeOK, ShrinkIsLocked
<1>e. b \in plan[r].released /\ expiring[r] = {}
  BY <1>0, <1>k DEF KeepsToPlan
<1>s. /\ Settles(r)' <=> Settles(r)
      /\ HoldsNow(r)' <=> HoldsNow(r)
      /\ Enters(r)' <=> Enters(r)
      /\ Shrinks(r)' <=> Shrinks(r)
      /\ Settles(r) => Asked(r)' = Asked(r)
  BY <1>0, SamePlan
<1>t. /\ debit[b][p] \in Int
      /\ \A q \in Purchases : back[r][q] \in Int /\ gave[r][q] \in Int
  BY <1>0 DEF Inv, TypeOK
<1>b. \A q \in Purchases :
        /\ back'[r][q] = IF q = p THEN back[r][q] + debit[b][p] - gave[r][p] ELSE back[r][q]
        /\ drawn'[r][q] = IF q = p THEN 0 ELSE drawn[r][q]
        /\ gave'[r][q] = IF q = p THEN 0 ELSE gave[r][q]
  BY DEF Inv, TypeOK
<1>2. KeepsToPlan(r)'
  BY <1>0, <1>b, <1>k, <1>s DEF KeepsToPlan
<1>3. CreditsAddUp(r)'
  <2>1. ASSUME NEW q \in Purchases, q # p PROVE Returned(r, q)' = Returned(r, q)
    BY <1>0, <2>1 DEF Returned
  <2>2. SumFunction(Returned(r, p)') = SumFunction(Returned(r, p)) + debit[b][p]
    <3>1. /\ DOMAIN Returned(r, p) = Bookings /\ DOMAIN Returned(r, p)' = Bookings
          /\ Numeric(Returned(r, p), Bookings)
      BY DEF Returned, Numeric, Inv, TypeOK
    <3>2. \A x \in Bookings : Returned(r, p)'[x] =
            IF x = b THEN Returned(r, p)[x] + debit[b][p] ELSE Returned(r, p)[x]
      BY <1>0, <1>e, <1>t DEF Returned
    <3> HIDE DEF rows, locks, session, b
    <3> QED  BY <1>0, <1>t, <3>1, <3>2, TablesAreFinite, SumUpdates, SumOfFunction
  <2>3. SumFunction(Returned(r, p)) \in Int
    <3>1. DOMAIN Returned(r, p) = Bookings /\ Numeric(Returned(r, p), Bookings)
      BY DEF Returned, Numeric, Inv, TypeOK
    <3> QED  BY <3>1, TablesAreFinite, SumSteps, SumOfFunction
  <2>4. \A q \in Purchases : back[r][q] = SumFunction(Returned(r, q)) + gave[r][q]
    BY <1>k DEF Account, CreditsAddUp
  <2> HIDE DEF b
  <2> QED  BY <1>b, <1>t, <2>1, <2>2, <2>3, <2>4 DEF CreditsAddUp
<1>4. NeedIsLeft(r)' /\ GivesLatestFirst(r)' /\ GivesAll(r)' /\ WalksInOrder(r)'
  BY <1>0 DEF NeedIsLeft, GivesLatestFirst, GivesAll, WalksInOrder
<1>6. \A u \in Requests \ {r} : Undisturbed(u)
  BY <1>0 DEF Undisturbed, LockRow, Inv, TypeOK
<1>7. Account(r)'
  BY <1>2, <1>3, <1>4 DEF Account
<1> QED  BY <1>0, <1>6, <1>7, StepLedger

\* The draws are put back, and there is no booking to settle.
LEMMA UndoLedger ==
  ASSUME Inv, Ledger, NEW r \in Requests, Undo(r)
  PROVE  Ledger'
<1> USE NullsAreFresh DEF rows, locks, session
<1>0. /\ phase[r] = "walk" /\ todo[r] = {} /\ phase'[r] = "release"
      /\ UNCHANGED <<now, rows, locks, asked, expiring, visiting, todo, order, need, back, gave>>
      /\ plan'[r].released = plan[r].released /\ plan'[r].target = NoBooking
      /\ \A p \in Purchases : drawn'[r][p] = 0 /\ gave[r][p] = 0
  <2>1. phase[r] = "walk" /\ todo[r] = {} /\ phase'[r] = "release"
    BY DEF Undo, Short, Inv, TypeOK
  <2>2. UNCHANGED <<now, rows, locks, asked, expiring, visiting, todo, order, need, back, gave>>
    BY DEF Undo
  <2>3. plan'[r].released = plan[r].released /\ plan'[r].target = NoBooking
    <3>1. plan \in [Requests -> Plan]
      BY DEF Inv, TypeOK
    <3>2. plan' = [plan EXCEPT ![r] = [plan[r] EXCEPT !.target = NoBooking]]
      BY <3>1 DEF Undo
    <3>3. /\ [plan[r] EXCEPT !.target = NoBooking].released = plan[r].released
          /\ [plan[r] EXCEPT !.target = NoBooking].target = NoBooking
      BY <3>1
    <3> QED  BY <3>1, <3>2, <3>3
  <2>4. \A p \in Purchases : drawn'[r][p] = 0 /\ gave[r][p] = 0
    BY <2>1 DEF Undo, Undone, Inv, TypeOK, GivesWhatWasDrawn
  <2> QED  BY <2>1, <2>2, <2>3, <2>4
<1>k. Account(r)
  BY DEF Ledger
<1>2. KeepsToPlan(r)' /\ ~Settles(r)'
  <2>1. ~Settles(r)'
    BY <1>0 DEF Settles
  <2> QED  BY <1>0, <1>k, <2>1 DEF Account, KeepsToPlan
<1>3. CreditsAddUp(r)'
  <2>1. ASSUME NEW q \in Purchases PROVE Returned(r, q)' = Returned(r, q)
    BY <1>0 DEF Returned
  <2> QED  BY <1>0, <1>k, <2>1 DEF Account, CreditsAddUp
<1>4. NeedIsLeft(r)' /\ GivesLatestFirst(r)' /\ GivesAll(r)' /\ WalksInOrder(r)'
  BY <1>0, <1>2 DEF NeedIsLeft, GivesLatestFirst, GivesAll, WalksInOrder
<1>7. \A u \in Requests \ {r} : Undisturbed(u)
  BY <1>0 DEF Undisturbed, Undo, Undone, Inv, TypeOK
<1>8. Account(r)'
  BY <1>2, <1>3, <1>4 DEF Account
<1> QED  BY <1>0, <1>7, <1>8, StepLedger

\* What ending a request leaves: an empty account, and everybody else's state.
LEMMA ClosedAccount ==
  ASSUME Inv, NEW r \in Requests, Close(r)
  PROVE  /\ Account(r)'
         /\ \A u \in Requests \ {r} :
              /\ phase'[u] = phase[u] /\ plan'[u] = plan[u] /\ asked'[u] = asked[u]
              /\ expiring'[u] = expiring[u] /\ visiting'[u] = visiting[u]
              /\ todo'[u] = todo[u] /\ order'[u] = order[u]
              /\ need'[u] = need[u] /\ drawn'[u] = drawn[u] /\ back'[u] = back[u]
              /\ gave'[u] = gave[u]
              /\ \A p \in Purchases : rowLock'[p] = u => rowLock[p] = u
<1> USE NullsAreFresh
<1>1. Closed(r)
  BY CloseEffect DEF Inv
<1>2. KeepsToPlan(r)' /\ ~Settles(r)'
  BY <1>1 DEF Closed, KeepsToPlan, Settles
<1>3. CreditsAddUp(r)'
  <2>1. ASSUME NEW p \in Purchases PROVE SumFunction(Returned(r, p)') = 0
    <3>1. DOMAIN Returned(r, p)' = Bookings /\ \A b \in Bookings : Returned(r, p)'[b] = 0
      BY <1>1 DEF Closed, Returned
    <3> QED  BY <3>1, ZeroSums
  <2> QED  BY <1>1, <2>1 DEF CreditsAddUp, Closed
<1>4. NeedIsLeft(r)' /\ GivesAll(r)' /\ GivesLatestFirst(r)' /\ WalksInOrder(r)'
  BY <1>1, <1>2 DEF NeedIsLeft, GivesAll, GivesLatestFirst, WalksInOrder, Closed
<1>5. \A u \in Requests \ {r} :
        /\ phase'[u] = phase[u] /\ plan'[u] = plan[u] /\ asked'[u] = asked[u]
        /\ expiring'[u] = expiring[u] /\ visiting'[u] = visiting[u]
        /\ todo'[u] = todo[u] /\ order'[u] = order[u]
        /\ need'[u] = need[u] /\ drawn'[u] = drawn[u] /\ back'[u] = back[u]
        /\ gave'[u] = gave[u]
        /\ \A p \in Purchases : rowLock'[p] = u => rowLock[p] = u
  BY DEF Close, Inv, TypeOK
<1> QED  BY <1>2, <1>3, <1>4, <1>5 DEF Account

\* At the end every released booking has been credited, and only a walk has
\* drawn, only a shrinking booking has given back.
LEMMA DoneAccount ==
  ASSUME Inv, NEW r \in Requests, Account(r), Done(r)
  PROVE  /\ expiring[r] = {} /\ (phase[r] \in {"release", "leave"} => todo[r] = {})
         /\ phase[r] \in {"release", "walk", "giveback", "leave"}
         /\ phase[r] # "walk" => \A p \in Purchases : drawn[r][p] = 0
         /\ phase[r] # "giveback" => \A p \in Purchases : gave[r][p] = 0
         /\ ~Settles(r) => \A p \in Purchases : drawn[r][p] = 0 /\ gave[r][p] = 0
<1>1. KeepsToPlan(r)
  BY DEF Account
<1>2. phase[r] \in {"release", "walk", "giveback", "leave"}
  BY DEF Done, Settled, ReleasedAll
<1>3. expiring[r] = {} /\ (phase[r] \in {"release", "leave"} => todo[r] = {})
  BY <1>1 DEF KeepsToPlan, Done, Settled, ReleasedAll
<1>4. phase[r] # "walk" => \A p \in Purchases : drawn[r][p] = 0
  BY <1>1, <1>2, <1>3 DEF KeepsToPlan
<1>5. phase[r] # "giveback" => \A p \in Purchases : gave[r][p] = 0
  BY <1>1, <1>2, <1>3 DEF KeepsToPlan, Inv, GivesWhatWasDrawn
<1>6. ~Settles(r) => phase[r] \notin {"walk", "giveback"}
  BY <1>1 DEF KeepsToPlan, Enters, Shrinks, HoldsNow
<1> QED  BY <1>2, <1>3, <1>4, <1>5, <1>6

\* What a commit writes to a purchase's used hours, it writes to its debits.
LEMMA CommitUsed ==
  ASSUME Inv, Ledger, NEW r \in Requests, Commit(r), NEW p \in Purchases
  PROVE  /\ purchase'[p].used = purchase[p].used - back[r][p] + drawn[r][p]
         /\ purchase'[p].used = SumFunction([b \in Bookings |-> debit[b][p]]')
<1> DEFINE D == [b \in Bookings |-> debit[b][p]]
           R == Returned(r, p)
           K == [b \in Bookings |-> IF b \in plan[r].released THEN 0 ELSE debit[b][p]]
           e == drawn[r][p] - gave[r][p]
           M == [b \in Bookings |-> IF b = plan[r].target /\ Settles(r) THEN e ELSE 0]
           Z == [b \in Bookings |-> 0]
           A == [b \in Bookings |-> debit'[b][p]]
<1>0. Account(r) /\ Done(r)
  BY DEF Commit, Ledger
<1>t. /\ \A b \in Bookings : debit[b][p] \in Int
      /\ drawn[r][p] \in Int /\ gave[r][p] \in Int /\ back[r][p] \in Int /\ e \in Int
      /\ purchase[p].used \in Int
  BY DEF Inv, TypeOK
<1>1. purchase'[p].used = purchase[p].used - back[r][p] + drawn[r][p]
  BY DEF Commit, RowAfter, Row
<1>2. \A b \in Bookings : debit'[b][p] = DebitAfter(r, b, p)
  BY DEF Commit
<1>3. /\ DOMAIN D = Bookings /\ DOMAIN R = Bookings /\ DOMAIN K = Bookings
      /\ DOMAIN M = Bookings /\ DOMAIN Z = Bookings /\ DOMAIN A = Bookings
  BY DEF Returned
<1>4. /\ Numeric(D, Bookings) /\ Numeric(R, Bookings) /\ Numeric(K, Bookings)
      /\ Numeric(M, Bookings) /\ Numeric(Z, Bookings)
  BY <1>t DEF Numeric, Returned
<1>5. \A b \in Bookings : K[b] = D[b] - R[b]
  BY <1>0, <1>t, DoneAccount DEF Returned
<1>6. \A b \in Bookings : A[b] = K[b] + M[b]
  BY <1>2, <1>t, NullsAreFresh DEF DebitAfter, Kept, Settles
<1>7. SumFunction(M) = e
  <2>1. CASE Settles(r)
    <3>1. plan[r].target \in Bookings
      BY <2>1 DEF Settles, Inv, TypeOK
    <3>2. \A b \in Bookings : M[b] = IF b = plan[r].target THEN Z[b] + e ELSE Z[b]
      BY <1>t, <2>1
    <3>3. SumFunction(Z) = 0
      BY ZeroSums
    <3>4. e \in Int
      BY <1>t
    <3> HIDE DEF M, Z, e
    <3>5. SumFunctionOnSet(M, Bookings) = SumFunctionOnSet(Z, Bookings) + e
      BY <1>4, <3>1, <3>2, <3>4, TablesAreFinite, SumUpdates
    <3> QED  BY <1>3, <3>3, <3>4, <3>5, SumOfFunction
  <2>2. CASE ~Settles(r)
    <3>1. e = 0
      BY <1>0, <2>2, DoneAccount
    <3>2. \A b \in Bookings : M[b] = 0
      BY <2>2
    <3> HIDE DEF M, e
    <3> QED  BY <1>3, <3>1, <3>2, ZeroSums
  <2> QED  BY <2>1, <2>2
<1>8. SumFunction(D) = purchase[p].used
  BY DEF Ledger, UsedIsDebited
<1>9. SumFunction(R) = back[r][p] - gave[r][p]
  <2>1. SumFunction(R) \in Int
    <3> HIDE DEF R
    <3> QED  BY <1>3, <1>4, TablesAreFinite, SumSteps, SumOfFunction
  <2>2. back[r][p] = SumFunction(R) + gave[r][p]
    BY <1>0 DEF Account, CreditsAddUp
  <2> QED  BY <1>t, <2>1, <2>2
<1>10. SumFunction(A) = (SumFunction(D) - SumFunction(R)) + SumFunction(M)
  <2> HIDE DEF D, R, K, M, A
  <2>1. SumFunction(K) = SumFunction(D) - SumFunction(R)
    BY <1>3, <1>4, <1>5, TablesAreFinite, SumSubtracts, SumOfFunction
  <2>2. SumFunction(A) = SumFunction(K) + SumFunction(M)
    BY <1>3, <1>4, <1>6, TablesAreFinite, SumAdds, SumOfFunction
  <2> QED  BY <2>1, <2>2
<1>11. SumFunction(A) = purchase[p].used - back[r][p] + drawn[r][p]
  <2> HIDE DEF D, R, K, M, A
  <2> QED  BY <1>t, <1>7, <1>8, <1>9, <1>10
<1> QED  BY <1>1, <1>11

\* The share the commit writes is what its debits come to.
LEMMA CommitShare ==
  ASSUME Inv, Ledger, NEW r \in Requests, Commit(r), Settles(r),
         StateAfter(r, plan[r].target) \in HoldsHours
  PROVE  SumFunction(debit'[plan[r].target]) = ShareAfter(r, plan[r].target)
<1> DEFINE b == plan[r].target
           SD == SumFunction(debit[b])
           DR == SumFunction(drawn[r])
           GV == SumFunction(gave[r])
           D == [p \in Purchases |-> Kept(r, b, p)]
           K == [p \in Purchases |-> D[p] + drawn[r][p]]
           SK == SumFunction(D)
<1>0. Account(r) /\ KeepsToPlan(r) /\ Done(r) /\ b \in Bookings
  BY DEF Commit, Ledger, Account, Settles, Inv, TypeOK
<1>t. /\ DOMAIN debit[b] = Purchases /\ DOMAIN drawn[r] = Purchases /\ DOMAIN gave[r] = Purchases
      /\ DOMAIN debit'[b] = Purchases
      /\ Numeric(debit[b], Purchases) /\ Numeric(drawn[r], Purchases) /\ Numeric(gave[r], Purchases)
      /\ \A p \in Purchases : debit[b][p] \in Nat /\ drawn[r][p] \in Nat /\ gave[r][p] \in Int
      /\ need[r] \in Nat /\ plan[r].size \in Nat /\ booking[b] \in BookingRow
      /\ booking[b].share \in Int /\ booking[b].duration \in Int
  BY <1>0 DEF Inv, TypeOK, Numeric, Commit, DrawsAndDebitsCount, KeepsToPlan
<1>d. /\ Numeric(D, Purchases) /\ Numeric(K, Purchases)
      /\ DOMAIN D = Purchases /\ DOMAIN K = Purchases
      /\ \A p \in Purchases : D[p] \in Nat /\ D[p] = Kept(r, b, p)
  BY <1>t DEF Numeric, Kept
<1>1. SK \in Int /\ DR \in Nat /\ GV \in Int /\ SD \in Int
  <2>1. SumFunctionOnSet(drawn[r], Purchases) \in Nat
    BY <1>t, TablesAreFinite, SumCovers
  <2>2. /\ SumFunctionOnSet(debit[b], Purchases) \in Int
        /\ SumFunctionOnSet(gave[r], Purchases) \in Int
    BY <1>t, TablesAreFinite, SumSteps
  <2> HIDE DEF D
  <2>3. SumFunctionOnSet(D, Purchases) \in Int
    BY <1>d, TablesAreFinite, SumSteps
  <2> QED  BY <1>t, <1>d, <2>1, <2>2, <2>3, SumOfFunction
<1>2. SumFunction(debit'[b]) = (SK + DR) - GV
  <2>1. \A p \in Purchases : debit'[b][p] = K[p] - gave[r][p]
    <3>1. \A p \in Purchases : debit'[b][p] = DebitAfter(r, b, p)
      BY <1>0 DEF Commit
    <3>2. \A p \in Purchases : DebitAfter(r, b, p) = Kept(r, b, p) + (drawn[r][p] - gave[r][p])
      BY <1>0 DEF DebitAfter
    <3>3. \A p \in Purchases : /\ Kept(r, b, p) \in Int /\ drawn[r][p] \in Int /\ gave[r][p] \in Int
                               /\ K[p] = Kept(r, b, p) + drawn[r][p]
      BY <1>t, <1>d
    <3> HIDE DEF K
    <3> QED  BY <3>1, <3>2, <3>3
  <2>2. \A p \in Purchases : K[p] = D[p] + drawn[r][p]
    OBVIOUS
  <2> HIDE DEF K, D
  <2>3. SumFunction(K) = SK + DR
    BY <1>d, <1>t, <2>2, TablesAreFinite, SumAdds, SumOfFunction
  <2>4. SumFunction(debit'[b]) = SumFunction(K) - GV
    BY <1>d, <1>t, <2>1, TablesAreFinite, SumSubtracts, SumOfFunction
  <2> QED  BY <2>3, <2>4
<1>3. /\ phase[r] # "walk" => DR = 0
      /\ phase[r] # "giveback" => GV = 0
      /\ phase[r] \in {"release", "walk", "giveback", "leave"}
  BY <1>0, <1>t, DoneAccount, ZeroSums
<1>4. /\ phase[r] = "release" => need[r] = 0
      /\ phase[r] \in {"walk", "giveback"} => DR + GV + need[r] = Asked(r)
  BY <1>0 DEF Account, NeedIsLeft
\* What was released, or held nothing, keeps no debit.
<1>5. ~HoldsNow(r) => SK = 0
  <2> SUFFICES ASSUME ~HoldsNow(r) PROVE SK = 0
    OBVIOUS
  <2>1. \A p \in Purchases : Kept(r, b, p) = 0
    BY <1>0 DEF HoldsNow, Kept, Inv, NoStrayDebits
  <2>2. \A p \in Purchases : D[p] = 0
    BY <2>1
  <2> HIDE DEF D
  <2> QED  BY <1>d, <2>2, ZeroSums
<1>6. HoldsNow(r) => SK = booking[b].share
  <2> SUFFICES ASSUME HoldsNow(r) PROVE SK = booking[b].share
    OBVIOUS
  <2>1. SD = booking[b].share
    BY <1>0 DEF HoldsNow, Ledger, ShareIsDebited
  <2>2. \A p \in Purchases : D[p] = debit[b][p]
    BY DEF HoldsNow, Kept
  <2> HIDE DEF D
  <2> QED  BY <1>d, <1>t, <2>1, <2>2, TablesAreFinite, SumAgrees, SumOfFunction
\* A new booking holds what it drew.
<1>7. CASE booking[b].state = "none"
  <2>1. ~HoldsNow(r) /\ Enters(r) /\ ~Shrinks(r)
    BY <1>0, <1>7 DEF KeepsToPlan, HoldsNow, Enters, Shrinks
  <2>2. phase[r] \in {"release", "walk"}
    BY <1>0, <1>3, <1>7, <2>1 DEF KeepsToPlan
  <2>3. Asked(r) = plan[r].size
    BY <1>7 DEF Asked
  <2>4. phase[r] = "release" => Asked(r) = 0
    BY <1>0, <2>1 DEF Done, Settled
  <2>5. ShareAfter(r, b) = plan[r].size - need[r]
    BY <1>7 DEF ShareAfter
  <2> HIDE DEF SK, SD, DR, GV
  <2>6. SK = 0 /\ GV = 0 /\ DR + need[r] = plan[r].size
    BY <1>1, <1>3, <1>4, <1>5, <1>t, <2>1, <2>2, <2>3, <2>4
  <2>7. (SK + DR) - GV = plan[r].size - need[r]
    BY <1>1, <1>t, <2>6
  <2> QED  BY <1>2, <2>5, <2>7
\* One that comes back takes all it had, at most its new length.
<1>8. CASE booking[b].state # "none" /\ ~HoldsNow(r)
  <2>1. Enters(r) /\ ~Shrinks(r)
    BY <1>8 DEF StateAfter, Shrinks
  <2>2. plan[r].whole
    BY <1>0, <1>8 DEF KeepsToPlan
  <2>3. phase[r] \in {"release", "walk"} /\ ~HeldHours(r)
    BY <1>0, <1>3, <1>8, <2>1 DEF KeepsToPlan, HeldHours, Enters
  <2>4. Asked(r) = ShareAfter(r, b)
    BY <1>8, <2>3 DEF Asked, ShareAfter
  <2>5. phase[r] = "release" => Asked(r) = 0
    BY <1>0, <2>1 DEF Done, Settled
  <2>6. need[r] = 0
    <3>1. CASE phase[r] = "release"
      BY <1>4, <3>1
    <3>2. CASE phase[r] = "walk"
      BY <1>0, <2>1, <2>2, <3>2 DEF Done, Settled, ReleasedAll
    <3> QED  BY <2>3, <3>1, <3>2
  <2> HIDE DEF SK, SD, DR, GV
  <2>7. SK = 0 /\ GV = 0 /\ DR = Asked(r)
    BY <1>1, <1>3, <1>4, <1>5, <1>8, <1>t, <2>3, <2>5, <2>6
  <2>8. (SK + DR) - GV = Asked(r)
    BY <1>1, <2>7
  <2> QED  BY <1>2, <2>4, <2>8
\* One that shrank holds its new length.
<1>9. CASE HoldsNow(r) /\ Shrinks(r)
  <2>1. b \notin plan[r].released /\ booking[b].state # "none" /\ plan[r].size < booking[b].share
    BY <1>9 DEF HoldsNow, Shrinks
  <2>2. Asked(r) = booking[b].share - plan[r].size
    BY <1>9, <2>1 DEF Asked
  <2>3. phase[r] = "giveback"
    <3>1. phase[r] # "leave"
      BY <1>0, <2>1 DEF KeepsToPlan
    <3>2. phase[r] # "walk"
      BY <1>0, <1>9 DEF KeepsToPlan, Enters
    <3>3. phase[r] # "release"
      <4>1. Asked(r) # 0
        BY <1>t, <2>1, <2>2
      <4> QED  BY <1>0, <1>9, <4>1 DEF Done, Settled
    <3> QED  BY <1>3, <3>1, <3>2, <3>3
  <2>4. ShareAfter(r, b) = plan[r].size
    BY <1>9, <2>1 DEF ShareAfter, HeldHours
  <2>5. need[r] = 0
    <3> SUFFICES ASSUME need[r] # 0 PROVE FALSE
      OBVIOUS
    <3>1. need[r] > 0 /\ CanGive(r) = {}
      BY <1>0, <1>t, <2>3 DEF Done, Settled, ReleasedAll
    <3>2. \A p \in Purchases : gave[r][p] = debit[b][p]
      BY <1>0, <1>t, <2>3, <3>1 DEF Account, GivesAll, CanGive, Drawn
    <3>3. GV = SD
      BY <1>t, <3>2, TablesAreFinite, SumAgrees, SumOfFunction
    <3>4. SD = booking[b].share
      BY <1>0, <1>9 DEF HoldsNow, Ledger, ShareIsDebited
    <3> HIDE DEF SK, SD, DR, GV
    <3> QED  BY <1>1, <1>3, <1>4, <1>t, <2>2, <2>3, <3>1, <3>3, <3>4
  <2> HIDE DEF SK, SD, DR, GV
  <2>6. SK = booking[b].share /\ DR = 0 /\ GV = booking[b].share - plan[r].size
    BY <1>1, <1>3, <1>4, <1>6, <1>9, <1>t, <2>2, <2>3, <2>5
  <2>7. (SK + DR) - GV = plan[r].size
    BY <1>1, <1>t, <2>6
  <2> QED  BY <1>2, <2>4, <2>7
\* One that grew holds as much more as it could draw.
<1>10. CASE HoldsNow(r) /\ ~Shrinks(r)
  <2>1. b \notin plan[r].released /\ booking[b].state # "none" /\ ~(plan[r].size < booking[b].share)
    BY <1>10 DEF HoldsNow, Shrinks
  <2>2. Asked(r) = Extra(r) /\ Extra(r) \in Int
    BY <1>10, <1>t, <2>1 DEF Asked, Extra, Positive
  <2>3. phase[r] \in {"release", "walk"}
    BY <1>0, <1>3, <1>10, <2>1 DEF KeepsToPlan
  <2>4. phase[r] = "release" => Asked(r) = 0
    BY <1>0, <1>10 DEF Done, Settled
  <2>5. ShareAfter(r, b) = booking[b].share + Extra(r) - need[r]
    BY <1>10, <2>1 DEF ShareAfter, HeldHours
  <2> HIDE DEF SK, SD, DR, GV
  <2>6. SK = booking[b].share /\ GV = 0 /\ DR + need[r] = Extra(r)
    BY <1>1, <1>3, <1>4, <1>6, <1>10, <1>t, <2>2, <2>3, <2>4
  <2>7. (SK + DR) - GV = booking[b].share + Extra(r) - need[r]
    BY <1>1, <1>t, <2>2, <2>6
  <2> QED  BY <1>2, <2>5, <2>7
<1> QED  BY <1>7, <1>8, <1>9, <1>10

\* The writes land together: used hours and debits, debits and shares.
LEMMA CommitLedger ==
  ASSUME Inv, Ledger, NEW r \in Requests, Commit(r)
  PROVE  Ledger'
<1> USE NullsAreFresh
<1>0. Account(r) /\ Done(r) /\ Close(r)
  BY DEF Commit, Ledger
<1>1. \A b \in Bookings : b \notin plan[r].released /\ b # plan[r].target =>
        booking'[b] = booking[b] /\ debit'[b] = debit[b]
  <2> SUFFICES ASSUME NEW b \in Bookings, b \notin plan[r].released, b # plan[r].target
               PROVE  booking'[b] = booking[b] /\ debit'[b] = debit[b]
    OBVIOUS
  <2>1. booking'[b] = booking[b]
    BY DEF Commit, BookingAfter
  <2>2. debit'[b] = [p \in Purchases |-> DebitAfter(r, b, p)]
    BY DEF Commit
  <2>3. debit[b] \in [Purchases -> Int]
    BY DEF Inv, TypeOK
  <2>4. \A p \in Purchases : DebitAfter(r, b, p) = debit[b][p]
    BY <2>3 DEF DebitAfter, Kept
  <2> QED  BY <2>1, <2>2, <2>3, <2>4
<1>2. \A u \in Requests \ {r} : Undisturbed(u)
  <2> SUFFICES ASSUME NEW u \in Requests \ {r} PROVE Undisturbed(u)
    OBVIOUS
  <2>1. \A b \in Bookings : bookingLock[b] = u => booking'[b] = booking[b] /\ debit'[b] = debit[b]
    BY <1>1 DEF Inv, BookingsAreLocked
  <2>2. ASSUME NEW p \in Purchases, rowLock[p] = u PROVE purchase'[p] = purchase[p]
    <3>1. back[r][p] = 0 /\ drawn[r][p] = 0
      BY <2>2 DEF Inv, WritesAreLocked
    <3> QED  BY <3>1 DEF Commit, RowAfter, Row, Balance, Inv, TypeOK
  <2> QED  BY <1>0, <2>1, <2>2, ClosedAccount DEF Undisturbed
<1>3. \A u \in Requests : Account(u)'
  BY <1>0, <1>2, ClosedAccount, Frame DEF Ledger
<1>4. UsedIsDebited'
  BY CommitUsed DEF UsedIsDebited
<1>5. AbsentIsUnused'
  <2> SUFFICES ASSUME NEW p \in Purchases, purchase'[p].status = "absent" PROVE purchase'[p].used = 0
    BY DEF AbsentIsUnused
  <2> DEFINE D == [b \in Bookings |-> debit[b][p]]
  <2>1. purchase[p].status = "absent" /\ purchase[p].used = 0
    BY DEF Commit, RowAfter, Row, Ledger, AbsentIsUnused
  <2>2. SumFunction(D) = 0
    BY <2>1 DEF Ledger, UsedIsDebited
  <2>3. DOMAIN D = Bookings /\ \A b \in Bookings : D[b] \in Nat /\ D[b] = debit[b][p]
    BY DEF Inv, TypeOK, DrawsAndDebitsCount
  <2>4. \A b \in Bookings : debit[b][p] = 0
    <3> HIDE DEF D
    <3>1. \A b \in Bookings : D[b] <= SumFunctionOnSet(D, Bookings)
      BY <2>3, TablesAreFinite, SumCovers
    <3> QED  BY <2>2, <2>3, <3>1, SumOfFunction
  <2>5. drawn[r][p] = 0
    BY <1>0, <2>1 DEF Account, KeepsToPlan
  <2>6. gave[r][p] = 0
    BY <2>4 DEF Inv, TypeOK, GivesWhatWasDrawn, ShrinkIsLocked
  <2>7. SumFunction(Returned(r, p)) = 0
    <3>1. DOMAIN Returned(r, p) = Bookings /\ \A b \in Bookings : Returned(r, p)[b] = 0
      BY <2>4 DEF Returned
    <3> QED  BY <3>1, ZeroSums
  <2>8. back[r][p] = 0
    BY <1>0, <2>6, <2>7 DEF Account, CreditsAddUp
  <2>9. purchase'[p].used = purchase[p].used - back[r][p] + drawn[r][p]
    BY CommitUsed, Zenon
  <2> QED  BY <2>1, <2>5, <2>8, <2>9
<1>6. ShareIsDebited'
  <2> SUFFICES ASSUME NEW b \in Bookings, booking'[b].state \in HoldsHours
               PROVE  SumFunction(debit'[b]) = booking'[b].share
    BY DEF ShareIsDebited
  <2>1. booking'[b] = BookingAfter(r, b)
    BY DEF Commit
  <2>2. CASE b = plan[r].target
    <3>1. Settles(r)
      BY <2>2 DEF Settles
    <3>2. booking'[b].share = ShareAfter(r, b) /\ booking'[b].state = StateAfter(r, b)
      BY <2>1, <2>2 DEF BookingAfter
    <3> QED  BY <2>2, <3>1, <3>2, CommitShare
  <2>3. CASE b # plan[r].target
    <3>1. b \notin plan[r].released
      BY <2>1, <2>3 DEF BookingAfter, Inv, TypeOK
    <3> QED  BY <1>1, <2>3, <3>1 DEF Ledger, ShareIsDebited
  <2> QED  BY <2>2, <2>3
<1>7. DurationsCount'
  <2> SUFFICES ASSUME NEW b \in Bookings PROVE booking'[b].duration >= 0
    BY DEF DurationsCount
  <2>1. booking'[b] = BookingAfter(r, b)
    BY DEF Commit
  <2>2. CASE b = plan[r].target
    <3>1. plan[r].size \in Nat
      BY <1>0, <2>2 DEF Settles, Account, KeepsToPlan
    <3> QED  BY <2>1, <2>2, <3>1 DEF BookingAfter
  <2>3. CASE b # plan[r].target
    BY <2>1, <2>3 DEF BookingAfter, Ledger, DurationsCount, Inv, TypeOK
  <2> QED  BY <2>2, <2>3
<1> QED  BY <1>3, <1>4, <1>5, <1>6, <1>7 DEF Ledger

\* A rollback leaves the committed rows alone.
LEMMA RollbackLedger ==
  ASSUME Inv, Ledger, NEW r \in Requests, Rollback(r)
  PROVE  Ledger'
<1>1. Close(r) /\ UNCHANGED rows
  BY DEF Rollback
<1>2. \A u \in Requests \ {r} : Undisturbed(u)
  BY <1>1, ClosedAccount DEF Undisturbed, rows
<1> QED  BY <1>1, <1>2, ClosedAccount, StepLedger

\* An operator's edit of a row nobody holds, which keeps its used hours.
LEMMA SaveLedger ==
  ASSUME Inv, Ledger, NEW p \in Purchases, NEW row, Save(p, row),
         row.used = purchase[p].used, row.status # "absent"
  PROVE  Ledger'
<1> USE NullsAreFresh DEF rows, locks, session
<1>0. rowLock[p] = NoRequest /\ UNCHANGED <<now, booking, debit, locks, session>>
  BY DEF Save
<1>p. purchase'[p] = row /\ \A q \in Purchases \ {p} : purchase'[q] = purchase[q]
  BY DEF Save, Inv, TypeOK
<1>1. \A u \in Requests : Account(u)'
  <2>1. \A u \in Requests : Undisturbed(u)
    BY <1>0, <1>p DEF Undisturbed
  <2> QED  BY <2>1, Frame DEF Ledger
<1>2. AbsentIsUnused' /\ UsedIsDebited'
  BY <1>0, <1>p DEF Ledger, AbsentIsUnused, UsedIsDebited
<1>3. ShareIsDebited' /\ DurationsCount'
  BY <1>0 DEF Ledger, ShareIsDebited, DurationsCount
<1> QED  BY <1>1, <1>2, <1>3 DEF Ledger

\* A deletion asks that no booking ever drew on the purchase: nothing is used.
LEMMA OperatorLedger ==
  ASSUME Inv, Ledger, NEW p \in Purchases, Operator(p)
  PROVE  Ledger'
<1> USE DEF Row
<1>t. purchase[p] \in PurchaseRow
  BY DEF Inv, TypeOK
<1>1. CASE Grant(p)
  <2> PICK g \in Grants, e \in Times : Save(p, Row("active", g, 0, g, e)) /\ purchase[p].status = "absent"
    BY <1>1, ValidityIsATime DEF Grant
  <2>1. purchase[p].used = 0
    BY DEF Ledger, AbsentIsUnused
  <2> QED  BY <2>1, SaveLedger
<1>2. CASE Adjust(p)
  BY <1>2, SaveLedger DEF Adjust, Edit
<1>3. CASE Extend(p)
  <2> PICK e \in Times : purchase[p].status = "active" /\ Save(p, [purchase[p] EXCEPT !.expires = e])
    BY <1>3 DEF Extend
  <2>1. /\ [purchase[p] EXCEPT !.expires = e].used = purchase[p].used
        /\ [purchase[p] EXCEPT !.expires = e].status = "active"
    BY <1>t
  <2> QED  BY <2>1, SaveLedger
<1>4. CASE CancelPurchase(p)
  BY <1>4, SaveLedger DEF CancelPurchase, Edit
<1>5. CASE Reactivate(p)
  BY <1>5, SaveLedger DEF Reactivate, Edit
<1>6. CASE DeletePurchase(p)
  <2>1. Save(p, Row("deleted", 0, 0, 0, 0)) /\ \A b \in Bookings : debit[b][p] = 0
    BY <1>6 DEF DeletePurchase, Edit
  <2>2. SumFunction([b \in Bookings |-> debit[b][p]]) = 0
    BY <2>1, ZeroSums
  <2>3. purchase[p].used = 0
    BY <2>2 DEF Ledger, UsedIsDebited
  <2> QED  BY <2>1, <2>3, SaveLedger
<1> QED  BY <1>1, <1>2, <1>3, <1>4, <1>5, <1>6 DEF Operator

\* A booking without a share is restated, or a hold is paid: no debit row
\* changes, and no booking a request has locked.
LEMMA RecordLedger ==
  ASSUME Inv, Ledger, Restate \/ Pay \/ Tick
  PROVE  Ledger'
<1> USE NullsAreFresh DEF rows, locks, session
<1>0. UNCHANGED <<purchase, debit, locks, session>>
  BY DEF Restate, Pay, Tick
<1>s. \A b \in Bookings :
        \/ booking'[b] = booking[b]
        \/ /\ bookingLock[b] = NoRequest
           /\ booking'[b].duration = booking[b].duration
           /\ booking'[b].state \in HoldsHours => SumFunction(debit[b]) = booking'[b].share
  <2>1. CASE Restate
    <3> PICK b \in Bookings, st \in {"confirmed", "released"} :
          /\ booking[b].share = 0 /\ bookingLock[b] = NoRequest
          /\ booking' = [booking EXCEPT ![b].state = st]
      BY <2>1 DEF Restate, Unlocked
    <3>1. \A p \in Purchases : debit[b][p] = 0
      BY NoShareNoDebits
    <3>2. DOMAIN debit[b] = Purchases
      BY DEF Inv, TypeOK
    <3>3. SumFunction(debit[b]) = 0
      BY <3>1, <3>2, ZeroSums
    <3>4. /\ booking'[b].duration = booking[b].duration /\ booking'[b].share = 0
          /\ \A c \in Bookings \ {b} : booking'[c] = booking[c]
      BY DEF Inv, TypeOK
    <3> QED  BY <3>3, <3>4
  <2>2. CASE Pay
    <3> PICK b \in Bookings :
          /\ booking[b].state = "pending" /\ bookingLock[b] = NoRequest
          /\ booking' = [booking EXCEPT ![b].state = "confirmed"]
      BY <2>2 DEF Pay, Unlocked
    <3>1. SumFunction(debit[b]) = booking[b].share
      BY DEF Ledger, ShareIsDebited
    <3>2. /\ booking'[b].duration = booking[b].duration
          /\ booking'[b].share = booking[b].share
          /\ \A c \in Bookings \ {b} : booking'[c] = booking[c]
      BY DEF Inv, TypeOK
    <3> QED  BY <3>1, <3>2
  <2>3. CASE Tick
    BY <2>3 DEF Tick
  <2> QED  BY <2>1, <2>2, <2>3
<1>1. \A u \in Requests : Account(u)'
  <2>1. \A u \in Requests : Undisturbed(u)
    BY <1>0, <1>s DEF Undisturbed
  <2> QED  BY <2>1, Frame DEF Ledger
<1>2. AbsentIsUnused' /\ UsedIsDebited'
  BY <1>0 DEF Ledger, AbsentIsUnused, UsedIsDebited
<1>3. ShareIsDebited' /\ DurationsCount'
  BY <1>0, <1>s DEF Ledger, ShareIsDebited, DurationsCount
<1> QED  BY <1>1, <1>2, <1>3 DEF Ledger

\* However a request begins, it opens with nothing flipped or credited.
LEMMA BeginLedger ==
  ASSUME Inv, Ledger, NEW r \in Requests, Begin(r)
  PROVE  Ledger'
<1> PICK b \in Bookings \cup {NoBooking}, f \in Plan, S \in SUBSET Bookings : Opens(r, b, f, S)
  BY BeginOpens
<1> QED  BY OpenLedger

\* One step per action.
LEMMA NextLedger == Inv /\ Ledger /\ [Next]_vars => Ledger'
<1> SUFFICES ASSUME Inv, Ledger, [Next]_vars PROVE Ledger'
  OBVIOUS
<1>1. ASSUME NEW r \in Requests, Begin(r) PROVE Ledger'
  BY <1>1, BeginLedger
<1>2. ASSUME NEW r \in Requests, Work(r) PROVE Ledger'
  BY <1>2, FlipHoldLedger, FlipAgainLedger, VisitBookingLedger, CreditRowLedger, BeginWalkLedger,
     WalkRowLedger, BeginGivebackLedger, LockDebitedLedger, GiveRowLedger, BeginLeaveLedger,
     LeaveRowLedger DEF Work
<1>3. ASSUME NEW r \in Requests, End(r) \/ Fail(r) PROVE Ledger'
  BY <1>3, CommitLedger, UndoLedger, RollbackLedger DEF End, Refuse, DeadlockVictim, Fail
<1>4. ASSUME NEW p \in Purchases, Operator(p) PROVE Ledger'
  BY <1>4, OperatorLedger
<1>5. CASE Restate \/ Pay \/ Tick
  BY <1>5, RecordLedger
<1>6. CASE UNCHANGED vars
  <2>1. \A u \in Requests : Undisturbed(u)
    BY <1>6 DEF Undisturbed, vars, rows, locks, session
  <2>2. \A u \in Requests : Account(u)'
    BY <2>1, Frame DEF Ledger
  <2>3. AbsentIsUnused' /\ UsedIsDebited' /\ ShareIsDebited' /\ DurationsCount'
    BY <1>6 DEF Ledger, AbsentIsUnused, UsedIsDebited, ShareIsDebited, DurationsCount, vars, rows
  <2> QED  BY <2>2, <2>3 DEF Ledger
<1> QED  BY <1>1, <1>2, <1>3, <1>4, <1>5, <1>6 DEF Next

\* The ledger's invariant of every reachable state.
THEOREM LedgerInvariance == Spec => [](Inv /\ Ledger)
<1>1. Init => Inv /\ Ledger
  BY InitInv, InitLedger
<1>2. (Inv /\ Ledger) /\ [Next]_vars => (Inv /\ Ledger)'
  BY NextInv, NextLedger
<1> QED  BY <1>1, <1>2, PTL DEF Spec

-----------------------------------------------------------------------------
(* What a reader wants of it.                                              *)

\* The rows, locks and uncommitted work always have the shape the code gives them.
THEOREM TypeCorrect == Spec => []TypeOK
<1>1. Inv /\ Ledger => TypeOK
  BY DEF Inv
<1> QED
  BY <1>1, LedgerInvariance, PTL

\* used + remaining == total on every spendable purchase, and never more than
\* total on any: however requests interleave, no prepaid hour is sold twice.
THEOREM HoursAreNeverOversold == Spec => []NeverOversold
<1>1. Inv /\ Ledger => NeverOversold
  BY DEF Inv
<1> QED
  BY <1>1, LedgerInvariance, PTL

\* Debit rows exist only while their booking's status holds hours.
THEOREM DebitsBelongToHolders == Spec => []NoStrayDebits
<1>1. Inv /\ Ledger => NoStrayDebits
  BY DEF Inv
<1> QED
  BY <1>1, LedgerInvariance, PTL

\* Every uncommitted draw is on a row the request has locked, and fits what
\* that row holds.
THEOREM UncommittedDrawsAreCovered == Spec => []DrawsAreCovered
<1>1. Inv /\ Ledger => DrawsAreCovered
  BY DEF Inv, WritesAreLocked, BalancesCovered, DrawsAreCovered
<1> QED
  BY <1>1, LedgerInvariance, PTL

\* Every used hour of a purchase is held by some booking, however releases,
\* shrinks, walks and deletions interleave: no hour is lost or counted twice.
THEOREM UsedHoursAreDebited == Spec => []UsedIsDebited
<1>1. Inv /\ Ledger => UsedIsDebited
  BY DEF Ledger
<1> QED  BY <1>1, LedgerInvariance, PTL

\* A booking that holds hours holds exactly what its debit rows add up to.
THEOREM SharesAreDebited == Spec => []ShareIsDebited
<1>1. Inv /\ Ledger => ShareIsDebited
  BY DEF Ledger
<1> QED  BY <1>1, LedgerInvariance, PTL

\* A walk that drew on a purchase has left nothing on one that expires sooner.
THEOREM SoonestExpiryIsSpentFirst == Spec => []SoonestFirst
<1>1. Inv /\ Ledger => SoonestFirst
  <2> SUFFICES ASSUME Inv, Ledger, NEW r \in Requests, NEW p \in Purchases, NEW q \in Purchases,
                      phase[r] = "walk", drawn[r][q] > 0, p # q, Earlier(r, p, q),
                      rowLock[p] = r, Spendable(r, p)
               PROVE  FALSE
    BY DEF SoonestFirst
  <2>1. WalksInOrder(r)
    BY DEF Ledger, Account
  <2>2. drawn[r][q] # 0
    OBVIOUS
  <2>3. Earlier(r, q, p)
    BY <2>1, <2>2 DEF WalksInOrder
  <2> QED  BY <2>3, EarlierOrders
<1> QED  BY <1>1, LedgerInvariance, PTL

\* A shrinking booking gives back to the latest-expiring purchases first.
THEOREM LatestExpiryIsRefilledFirst == Spec => []LatestBackFirst
<1>1. Inv /\ Ledger => LatestBackFirst
  BY DEF Ledger, Account, GivesLatestFirst, LatestBackFirst
<1> QED  BY <1>1, LedgerInvariance, PTL

-----------------------------------------------------------------------------
(* The ledger as seen from outside.  The statements of a transaction and   *)
(* the waits between them are stutters; a commit is one move.              *)

\* The abstract ledger's sum is the library's.
LEMMA AccountsSum == ASSUME NEW f PROVE Accounts!SumFunction(f) = SumFunction(f)
  BY DEF Accounts!SumFunction, SumFunction, SumFunctionOnSet, FoldFunctionOnSet, MapThenFoldSet,
         Accounts!SumFunctionOnSet, Accounts!FoldFunctionOnSet, Accounts!MapThenFoldSet

\* Hours used of a purchase are the hours bookings hold of it, and it was made
\* for at least as many.
Balanced ==
  /\ Worth \in [Purchases -> Nat] /\ Active \in [Purchases -> BOOLEAN]
  /\ debit \in [Bookings -> [Purchases -> Nat]]
  /\ \A p \in Purchases : /\ Accounts!Used(debit, p) = purchase[p].used
                          /\ purchase[p].used \in Nat
                          /\ purchase[p].used <= purchase[p].total

\* It holds of every state the invariant holds of.
LEMMA Holdings == Inv /\ Ledger => Balanced
<1> SUFFICES ASSUME Inv, Ledger PROVE Balanced
  OBVIOUS
<1>1. \A b \in Bookings, p \in Purchases : debit[b][p] \in Nat
  BY DEF Inv, TypeOK, DrawsAndDebitsCount
<1>2. ASSUME NEW p \in Purchases
      PROVE  /\ Accounts!Used(debit, p) = purchase[p].used
             /\ purchase[p].used \in Nat
             /\ purchase[p].used <= purchase[p].total
  <2> DEFINE D == [b \in Bookings |-> debit[b][p]]
  <2>1. DOMAIN D = Bookings /\ \A b \in Bookings : D[b] \in Nat
    BY <1>1
  <2>2. SumFunction(D) = purchase[p].used
    BY DEF Ledger, UsedIsDebited
  <2>3. Accounts!Used(debit, p) = SumFunction(D)
    BY AccountsSum DEF Accounts!Used
  <2>4. SumFunction(D) \in Nat
    <3> HIDE DEF D
    <3> QED  BY <2>1, TablesAreFinite, SumCovers, SumOfFunction
  <2> HIDE DEF D
  <2>5. purchase[p].remaining >= 0 /\ purchase[p].used + purchase[p].remaining <= purchase[p].total
    BY DEF Inv, NeverOversold
  <2>6. purchase[p].remaining \in Int /\ purchase[p].total \in Int /\ purchase[p].used \in Nat
    BY <2>2, <2>4 DEF Inv, TypeOK
  <2> QED  BY <2>2, <2>3, <2>5, <2>6
<1>3. Worth \in [Purchases -> Nat]
  <2>1. \A p \in Purchases : purchase[p].total \in Nat
    BY <1>2 DEF Inv, TypeOK
  <2> QED  BY <2>1 DEF Worth
<1>4. debit \in [Bookings -> [Purchases -> Nat]]
  BY <1>1 DEF Inv, TypeOK
<1> QED  BY <1>2, <1>3, <1>4 DEF Active, Balanced

\* And of the state after a step.
LEMMA NextHoldings == Inv /\ Ledger /\ [Next]_vars => Balanced'
<1>1. Inv /\ Ledger /\ [Next]_vars => Inv' /\ Ledger'
  BY NextInv, NextLedger
<1> QED  BY <1>1, Holdings, PTL

\* An empty bank is an empty ledger.
LEMMA InitAccounts == Init => Accounts!Init
  BY DEF Init, Accounts!Init, Worth, Active, AbsentRow, Row

\* A commit: the holds the request flipped give everything back, and its own
\* booking draws on locked, active rows, or gives back.
LEMMA CommitMoves ==
  ASSUME Inv, Ledger, NEW r \in Requests, Commit(r), Balanced'
  PROVE  Accounts!Move /\ UNCHANGED <<Worth, Active>>
<1> DEFINE S == plan[r].released
           b == plan[r].target
           W == Accounts!Without(S)
<1>0. Account(r) /\ Done(r) /\ S \in SUBSET Bookings
  BY DEF Commit, Ledger, Inv, TypeOK
<1>d. debit' \in [Bookings -> [Purchases -> Nat]]
  BY DEF Balanced
<1>1. \A p \in Purchases : /\ purchase'[p].total = purchase[p].total
                           /\ purchase'[p].status = purchase[p].status
  BY DEF Commit, RowAfter, Row
<1>2. UNCHANGED <<Worth, Active>>
  BY <1>1 DEF Worth, Active
<1>3. /\ W \in [Bookings -> [Purchases -> Int]]
      /\ \A c \in Bookings, p \in Purchases : W[c][p] = IF c \in S THEN 0 ELSE debit[c][p]
  BY DEF Accounts!Without, Inv, TypeOK
<1>4. \A c \in Bookings, p \in Purchases : debit'[c][p] = DebitAfter(r, c, p)
  BY DEF Commit
<1>5. \A c \in Bookings : c = b \/ debit'[c] = W[c]
  <2> SUFFICES ASSUME NEW c \in Bookings, c # b PROVE debit'[c] = W[c]
    OBVIOUS
  <2>1. \A p \in Purchases : debit'[c][p] = W[c][p]
    BY <1>3, <1>4 DEF DebitAfter, Kept, Inv, TypeOK
  <2>2. debit'[c] \in [Purchases -> Nat] /\ W[c] \in [Purchases -> Int]
    BY <1>3, <1>d
  <2> HIDE DEF W
  <2> QED  BY <2>1, <2>2
<1>6. Accounts!Move
  <2>1. CASE b \notin Bookings
    <3>1. debit' = W
      <4>1. \A c \in Bookings : debit'[c] = W[c]
        BY <1>5, <2>1
      <4> HIDE DEF W
      <4> QED  BY <1>3, <1>d, <4>1
    <3>2. Accounts!LetGo(S)
      BY <3>1 DEF Accounts!LetGo
    <3> QED  BY <1>0, <3>2 DEF Accounts!Move
  <2>2. CASE b \in Bookings
    <3>2. \A p \in Purchases : debit'[b][p] = W[b][p] + (drawn[r][p] - gave[r][p])
      BY <1>3, <1>4, <2>2 DEF DebitAfter, Kept
    <3>3. \A p \in Purchases : /\ drawn[r][p] \in Nat /\ gave[r][p] \in Nat
                               /\ W[b][p] \in Int /\ debit'[b][p] \in Int
      <4>1. \A p \in Purchases : drawn[r][p] \in Nat /\ gave[r][p] \in Nat
        <5>1. \A p \in Purchases : /\ drawn[r][p] \in Int /\ drawn[r][p] >= 0
                                   /\ gave[r][p] \in Int /\ (gave[r][p] = 0 \/ gave[r][p] > 0)
          BY DEF Inv, TypeOK, DrawsAndDebitsCount, GivesWhatWasDrawn
        <5> QED  BY <5>1
      <4>2. \A p \in Purchases : W[b][p] \in Int /\ debit'[b][p] \in Int
        <5> HIDE DEF W, b, S
        <5> QED  BY <1>3, <1>d, <2>2
      <4> QED  BY <4>1, <4>2
    <3>4. \/ \A p \in Purchases : drawn[r][p] = 0
          \/ \A p \in Purchases : gave[r][p] = 0
      BY <1>0, DoneAccount
    <3>5. \/ \A p \in Purchases : debit'[b][p] <= W[b][p]
          \/ \A p \in Purchases : debit'[b][p] >= W[b][p]
      <4> HIDE DEF W, b
      <4> QED  BY <3>2, <3>3, <3>4
    <3>6. ASSUME NEW p \in Purchases, debit'[b][p] > W[b][p]
          PROVE  Active[p] /\ Accounts!Used(debit', p) <= Worth[p]
      <4>1. drawn[r][p] # 0
        <5> HIDE DEF W, b
        <5> QED  BY <3>2, <3>3, <3>6
      <4>2. purchase[p].status = "active"
        BY <1>0, <4>1 DEF Account, KeepsToPlan
      <4> QED  BY <1>1, <4>2 DEF Worth, Active, Balanced
    <3>7. Accounts!Settle(S, b)
      <4> HIDE DEF W, b, S
      <4>1. \A c \in Bookings \ {b} : debit'[c] = W[c]
        BY <1>5
      <4> QED  BY <3>5, <3>6, <4>1 DEF Accounts!Settle, W, Balanced
    <3> QED  BY <1>0, <2>2, <3>7 DEF Accounts!Move
  <2> QED  BY <2>1, <2>2
<1> QED  BY <1>2, <1>6

\* The operator never takes a purchase below what bookings hold of it.
LEMMA OperatorEdits ==
  ASSUME Inv, Ledger, Balanced, NEW p \in Purchases, Operator(p)
  PROVE  Accounts!Edit(p)
<1>t. /\ purchase \in [Purchases -> PurchaseRow]
      /\ purchase[p].used \in Nat /\ purchase[p].used <= purchase[p].total
  BY DEF Inv, TypeOK, Balanced
<1>1. ASSUME NEW row, Save(p, row), row.total >= purchase[p].used
      PROVE  Accounts!Edit(p)
  <2>1. /\ UNCHANGED debit
        /\ purchase' = [purchase EXCEPT ![p] = row]
    BY <1>1 DEF Save
  <2>2. /\ purchase'[p] = row
        /\ \A q \in Purchases \ {p} : purchase'[q] = purchase[q]
    BY <1>t, <2>1
  <2> QED  BY <1>1, <1>t, <2>1, <2>2 DEF Accounts!Edit, Accounts!Others, Worth, Active, Balanced
<1>2. CASE Grant(p)
  <2> PICK g \in Grants, e \in Times : Save(p, Row("active", g, 0, g, e)) /\ purchase[p].status = "absent"
    BY <1>2, ValidityIsATime DEF Grant
  <2>1. purchase[p].used = 0
    BY DEF Ledger, AbsentIsUnused
  <2> QED  BY <1>1, <2>1, HoursArePositive DEF Row
<1>3. CASE Adjust(p)
  <2> PICK hours \in Grants \cup {-g : g \in Grants} :
        /\ purchase[p].remaining + hours >= 0
        /\ Save(p, Row(purchase[p].status, purchase[p].total + hours, purchase[p].used,
                       purchase[p].remaining + hours, purchase[p].expires))
    BY <1>3 DEF Adjust, Edit
  <2>1. hours \in Int
    BY HoursArePositive
  <2>2. purchase[p].total + hours >= purchase[p].used
    BY <1>t, <2>1 DEF Inv, NeverOversold
  <2> QED  BY <1>1, <2>2 DEF Row
<1>4. CASE Extend(p)
  <2> PICK e \in Times : Save(p, [purchase[p] EXCEPT !.expires = e])
    BY <1>4 DEF Extend
  <2>1. [purchase[p] EXCEPT !.expires = e].total = purchase[p].total
    BY <1>t
  <2>2. purchase[p].total >= purchase[p].used
    BY <1>t
  <2> QED  BY <1>1, <2>1, <2>2
<1>5. CASE CancelPurchase(p)
  BY <1>1, <1>5, <1>t DEF CancelPurchase, Edit, Row
<1>6. CASE Reactivate(p)
  BY <1>1, <1>6, <1>t DEF Reactivate, Edit, Row
<1>7. CASE DeletePurchase(p)
  <2>1. Save(p, Row("deleted", 0, 0, 0, 0)) /\ \A b \in Bookings : debit[b][p] = 0
    BY <1>7 DEF DeletePurchase, Edit
  <2>2. SumFunction([b \in Bookings |-> debit[b][p]]) = 0
    BY <2>1, ZeroSums
  <2>3. purchase[p].used = 0
    BY <2>2 DEF Ledger, UsedIsDebited
  <2> QED  BY <1>1, <2>1, <2>3 DEF Row
<1> QED  BY <1>2, <1>3, <1>4, <1>5, <1>6, <1>7 DEF Operator

\* Every step of the bank is a step of the ledger, or none.
LEMMA NextAccounts == Inv /\ Ledger /\ [Next]_vars => [Accounts!Next]_(Accounts!vars)
<1> SUFFICES ASSUME Inv, Ledger, [Next]_vars PROVE [Accounts!Next]_(Accounts!vars)
  OBVIOUS
<1>1. CASE \E r \in Requests : Commit(r)
  <2>1. Accounts!Move /\ UNCHANGED <<Worth, Active>>
    BY <1>1, NextHoldings, CommitMoves
  <2> QED  BY <2>1, NextHoldings DEF Accounts!Next, Balanced
<1>2. CASE \E p \in Purchases : Operator(p)
  <2>1. \E p \in Purchases : Accounts!Edit(p)
    BY <1>2, Holdings, OperatorEdits
  <2> QED  BY <2>1, NextHoldings DEF Accounts!Next, Balanced
<1>3. ASSUME UNCHANGED <<purchase, debit>> PROVE UNCHANGED Accounts!vars
  BY <1>3 DEF Accounts!vars, Worth, Active
<1>4. CASE ~(\E r \in Requests : Commit(r)) /\ ~(\E p \in Purchases : Operator(p))
  <2>1. ASSUME NEW r \in Requests, Begin(r) PROVE UNCHANGED <<purchase, debit>>
    BY <2>1 DEF Begin, BeginExpiry, BeginBooking, BeginRetake, BeginUpdate, Open, rows
  <2>2. ASSUME NEW r \in Requests, Work(r) PROVE UNCHANGED <<purchase, debit>>
    BY <2>2 DEF Work, FlipHold, FlipAgain, VisitBooking, CreditRow, Settle, BeginWalk, WalkRow,
                BeginGiveback, LockDebited, GiveRow, BeginLeave, LeaveRow, rows
  <2>3. ASSUME NEW r \in Requests, Undo(r) \/ Refuse(r) \/ DeadlockVictim(r) \/ Fail(r)
        PROVE  UNCHANGED <<purchase, debit>>
    BY <2>3 DEF Undo, Refuse, DeadlockVictim, Fail, Rollback, rows
  <2>4. CASE Restate \/ Pay \/ Tick \/ UNCHANGED vars
    BY <1>3, <2>4 DEF Restate, Pay, Tick, vars, rows
  <2> QED  BY <1>3, <1>4, <2>1, <2>2, <2>3, <2>4 DEF Next, End
<1> QED  BY <1>1, <1>2, <1>4

\* Whatever the concurrent statements, locks, waits and aborts, what the
\* committed rows show is the abstract ledger.
THEOREM ImplementsLedger == Spec => KeepsLedger
<1>1. Init => Accounts!Init
  BY InitAccounts
<1>2. Inv /\ Ledger /\ [Next]_vars => [Accounts!Next]_(Accounts!vars)
  BY NextAccounts
<1> QED  BY <1>1, <1>2, LedgerInvariance, PTL DEF Spec, KeepsLedger, Accounts!Spec

-----------------------------------------------------------------------------
(* No circle of walks.  It takes one more invariant: a request that reads  *)
(* rows once takes them in the order of that read.                         *)

\* A request that has still to flip a hold, to credit one or to settle its own
\* booking has locked nothing before it reads; what it locks after that comes
\* before all that is still to do.
InOrder(r) ==
  /\ phase[r] = "idle" => \A p \in Purchases : rowLock[p] # r
  /\ phase[r] = "release" /\ expiring[r] = plan[r].released
       /\ (Settles(r) \/ asked[r] # {} \/ expiring[r] # {}) =>
       \A p \in Purchases : rowLock[p] # r
  /\ ReadOnce(r) => \A p \in Purchases, q \in todo[r] : rowLock[p] = r => Earlier(r, p, q)

LocksInOrder == \A r \in Requests : InOrder(r)

\* What the others' steps leave alone.
Aside(u) == /\ phase'[u] = phase[u] /\ plan'[u] = plan[u] /\ asked'[u] = asked[u]
            /\ expiring'[u] = expiring[u] /\ todo'[u] = todo[u] /\ order'[u] = order[u]
            /\ \A p \in Purchases : rowLock'[p] = u => rowLock[p] = u

LEMMA AsideInOrder ==
  ASSUME NEW u \in Requests, InOrder(u), Aside(u)
  PROVE  InOrder(u)'
  BY DEF InOrder, Aside, Settles, ReadOnce, Earlier

\* One request's step, in which the others stand aside.
LEMMA StepInOrder ==
  ASSUME LocksInOrder, NEW r \in Requests, InOrder(r)', \A u \in Requests \ {r} : Aside(u)
  PROVE  LocksInOrder'
<1>1. \A u \in Requests \ {r} : InOrder(u)'
  BY AsideInOrder DEF LocksInOrder
<1> QED  BY <1>1 DEF LocksInOrder

\* Flipping holds locks no purchase.
LEMMA FlipsInOrder ==
  ASSUME Inv, Ledger, LocksInOrder, NEW r \in Requests,
         Begin(r) \/ FlipHold(r) \/ FlipAgain(r)
  PROVE  LocksInOrder'
<1> USE NullsAreFresh DEF locks
<1>k. KeepsToPlan(r) /\ InOrder(r) /\ plan \in [Requests -> Plan]
  BY DEF LocksInOrder, Ledger, Account, Inv, TypeOK
<1>1. CASE Begin(r)
  <2> PICK b \in Bookings \cup {NoBooking}, f \in Plan, S \in SUBSET Bookings : Opens(r, b, f, S)
    BY <1>1, BeginOpens
  <2>1. phase[r] = "idle" /\ todo[r] = {} /\ UNCHANGED <<rowLock, todo, order, expiring>>
    BY DEF Opens, Open, Inv, VisitsOwn
  <2>2. InOrder(r)'
    BY <1>k, <2>1 DEF InOrder, Opens, Open, Inv, TypeOK
  <2>3. \A u \in Requests \ {r} : Aside(u)
    BY <2>1 DEF Aside, Opens, Open, Inv, TypeOK
  <2> QED  BY <2>2, <2>3, StepInOrder
<1>2. CASE FlipHold(r)
  <2> PICK b \in asked[r] :
        /\ asked' = [asked EXCEPT ![r] = @ \ {b}]
        /\ IF StillPending(b)
           THEN /\ bookingLock' = [bookingLock EXCEPT ![b] = r]
                /\ plan' = [plan EXCEPT ![r].released = @ \cup {b}]
                /\ expiring' = [expiring EXCEPT ![r] = @ \cup {b}]
           ELSE UNCHANGED <<bookingLock, plan, expiring>>
    BY <1>2 DEF FlipHold
  <2>1. /\ phase[r] = "release" /\ todo[r] = {} /\ b \notin plan[r].released
        /\ UNCHANGED <<rowLock, phase, todo, order>>
    BY <1>2, <1>k DEF KeepsToPlan, FlipHold
  <2>2. /\ expiring'[r] = plan'[r].released => expiring[r] = plan[r].released
        /\ \A u \in Requests \ {r} : plan'[u] = plan[u] /\ expiring'[u] = expiring[u]
    <3>1. CASE StillPending(b)
      <4>1. /\ expiring'[r] = expiring[r] \cup {b}
            /\ plan'[r].released = plan[r].released \cup {b}
            /\ \A u \in Requests \ {r} : plan'[u] = plan[u] /\ expiring'[u] = expiring[u]
        BY <1>k, <3>1 DEF Inv, TypeOK
      <4>2. expiring[r] \subseteq plan[r].released
        BY <1>k DEF KeepsToPlan
      <4> QED  BY <2>1, <4>1, <4>2
    <3>2. CASE ~StillPending(b)
      BY <3>2
    <3> QED  BY <3>1, <3>2
  <2>3. InOrder(r)'
    BY <1>k, <2>1, <2>2 DEF InOrder
  <2>4. \A u \in Requests \ {r} : Aside(u)
    BY <2>1, <2>2 DEF Aside, Inv, TypeOK
  <2> QED  BY <2>3, <2>4, StepInOrder
<1>3. CASE FlipAgain(r)
  <2>1. /\ phase[r] = "release" /\ todo[r] = {} /\ Settles(r)
        /\ UNCHANGED <<rowLock, phase, expiring, todo, order>>
        /\ plan'[r].released = plan[r].released
        /\ \A u \in Requests \ {r} : plan'[u] = plan[u] /\ asked'[u] = asked[u]
    BY <1>3, <1>k DEF FlipAgain, ReleasedAll, Enters, Inv, TypeOK
  <2>2. InOrder(r)'
    BY <1>k, <2>1 DEF InOrder
  <2>3. \A u \in Requests \ {r} : Aside(u)
    BY <2>1 DEF Aside
  <2> QED  BY <2>2, <2>3, StepInOrder
<1> QED  BY <1>1, <1>2, <1>3

\* A request that reads rows holds none yet, or has read before.
LEMMA ReadsInOrder ==
  ASSUME Inv, Ledger, LocksInOrder, NEW r \in Requests,
         VisitBooking(r) \/ BeginWalk(r) \/ BeginGiveback(r) \/ BeginLeave(r)
  PROVE  LocksInOrder'
<1> USE NullsAreFresh DEF locks, ReadRows
<1>k. KeepsToPlan(r) /\ InOrder(r) /\ plan \in [Requests -> Plan]
  BY DEF LocksInOrder, Ledger, Account, Inv, TypeOK
<1>0. \A u \in Requests \ {r} : Aside(u)
  <2>1. CASE VisitBooking(r)
    BY <2>1 DEF Aside, VisitBooking, Inv, TypeOK
  <2>2. CASE BeginWalk(r) \/ BeginGiveback(r)
    BY <2>2 DEF Aside, BeginWalk, BeginGiveback, Settle, Inv, TypeOK
  <2>3. CASE BeginLeave(r)
    BY <2>3, <1>k DEF Aside, BeginLeave, Inv, TypeOK
  <2> QED  BY <2>1, <2>2, <2>3
<1>1. CASE VisitBooking(r)
  <2> PICK b \in expiring[r] : expiring' = [expiring EXCEPT ![r] = @ \ {b}]
    BY <1>1 DEF VisitBooking
  <2>1. /\ phase[r] = "release" /\ UNCHANGED <<rowLock, phase, plan>>
        /\ expiring'[r] = expiring[r] \ {b} /\ b \in plan[r].released
        /\ expiring[r] \subseteq plan[r].released
    BY <1>1, <1>k DEF VisitBooking, KeepsToPlan, Inv, TypeOK
  <2>2. ReadOnce(r) => \A p \in Purchases : rowLock[p] # r
    <3>1. ReadOnce(r) => expiring[r] = plan[r].released
      BY <2>1 DEF ReadOnce
    <3> QED  BY <1>k, <2>1, <3>1 DEF InOrder
  <2>3. (ReadOnce(r)' <=> ReadOnce(r)) /\ expiring'[r] # plan'[r].released
    BY <2>1 DEF ReadOnce
  <2>4. InOrder(r)'
    BY <2>1, <2>2, <2>3 DEF InOrder
  <2> QED  BY <1>0, <2>4, StepInOrder
<1>2. CASE BeginWalk(r) \/ BeginGiveback(r)
  <2>1. /\ phase[r] = "release" /\ UNCHANGED <<rowLock, plan>> /\ Settles(r)
        /\ phase'[r] \in {"walk", "giveback"}
    BY <1>2 DEF BeginWalk, BeginGiveback, Settle, ReleasedAll, Enters, Shrinks, HoldsNow, Inv, TypeOK
  <2>2. ReadOnce(r)' => \A p \in Purchases : rowLock[p] # r
    <3>1. ReadOnce(r)' => plan[r].released = {}
      BY <2>1 DEF ReadOnce
    <3>2. ReadOnce(r)' => expiring[r] = plan[r].released
      BY <1>k, <3>1 DEF KeepsToPlan
    <3> QED  BY <1>k, <2>1, <3>2 DEF InOrder
  <2>3. InOrder(r)'
    BY <2>1, <2>2 DEF InOrder
  <2> QED  BY <1>0, <2>3, StepInOrder
<1>3. CASE BeginLeave(r)
  <2>1. phase'[r] = "leave" /\ plan'[r].released # {}
    <3>1. plan' = [plan EXCEPT ![r] = [plan[r] EXCEPT !.released = @ \cup {plan[r].target}]]
      BY <1>3 DEF BeginLeave
    <3>2. [plan[r] EXCEPT !.released = @ \cup {plan[r].target}].released
            = plan[r].released \cup {plan[r].target}
      BY <1>k
    <3>3. plan'[r] = [plan[r] EXCEPT !.released = @ \cup {plan[r].target}]
      BY <1>k, <3>1
    <3> QED  BY <1>3, <3>2, <3>3 DEF BeginLeave, Inv, TypeOK
  <2>2. InOrder(r)'
    BY <2>1 DEF InOrder, ReadOnce
  <2> QED  BY <1>0, <2>2, StepInOrder
<1> QED  BY <1>1, <1>2, <1>3

\* The row a request locks comes first of those to do.
LEMMA LocksRowInOrder ==
  ASSUME Inv, Ledger, LocksInOrder, NEW r \in Requests,
         CreditRow(r) \/ WalkRow(r) \/ LockDebited(r) \/ LeaveRow(r)
  PROVE  LocksInOrder'
<1> USE NullsAreFresh DEF locks
<1>0. /\ UNCHANGED <<phase, plan, asked, expiring, order>>
      /\ \E p \in Purchases : LockRow(r, p)
  BY DEF CreditRow, WalkRow, LockDebited, LeaveRow
<1> PICK p \in Purchases : LockRow(r, p)
  BY <1>0
<1>1. /\ IsFirst(r, p) /\ todo'[r] = todo[r] \ {p}
      /\ \A q \in Purchases : rowLock'[q] = r => rowLock[q] = r \/ q = p
      /\ \A u \in Requests \ {r} :
           todo'[u] = todo[u] /\ \A q \in Purchases : rowLock'[q] = u => rowLock[q] = u
  BY DEF LockRow, Inv, TypeOK
<1>2. phase[r] # "idle" /\ todo[r] # {}
  BY <1>1 DEF IsFirst, Inv, VisitsOwn
<1>3. phase[r] = "release" => expiring[r] # plan[r].released
  BY <1>2 DEF Ledger, Account, KeepsToPlan
<1>4. ReadOnce(r)' => \A s \in Purchases, q \in todo'[r] : rowLock'[s] = r => Earlier(r, s, q)'
  BY <1>0, <1>1 DEF LocksInOrder, InOrder, ReadOnce, Earlier, IsFirst
<1>5. InOrder(r)'
  BY <1>0, <1>2, <1>3, <1>4 DEF InOrder
<1>6. \A u \in Requests \ {r} : Aside(u)
  BY <1>0, <1>1 DEF Aside
<1> QED  BY <1>5, <1>6, StepInOrder

\* What draws are put back keeps its locks, and asks for no more; who closes
\* gives all up.
LEMMA EndsInOrder ==
  ASSUME Inv, Ledger, LocksInOrder, NEW r \in Requests, End(r) \/ Fail(r)
  PROVE  LocksInOrder'
<1> USE NullsAreFresh DEF locks
<1>1. CASE Undo(r)
  <2>1. /\ UNCHANGED <<rowLock, asked, expiring, todo, order>> /\ todo[r] = {}
        /\ phase[r] = "walk" /\ phase'[r] = "release" /\ plan'[r].target = NoBooking
        /\ \A u \in Requests \ {r} : plan'[u] = plan[u] /\ phase'[u] = phase[u]
    BY <1>1 DEF Undo, Short, Inv, TypeOK
  <2>2. asked[r] = {} /\ expiring[r] = {}
    BY <2>1 DEF Ledger, Account, KeepsToPlan
  <2>3. InOrder(r)'
    BY <2>1, <2>2 DEF InOrder, Settles
  <2>4. \A u \in Requests \ {r} : Aside(u)
    BY <2>1 DEF Aside
  <2> QED  BY <2>3, <2>4, StepInOrder
<1>2. CASE Close(r)
  <2>1. Closed(r)
    BY <1>2, CloseEffect DEF Inv
  <2>2. \A p \in Purchases : rowLock'[p] # r
    BY <1>2 DEF Close, Inv, TypeOK
  <2>3. InOrder(r)'
    BY <2>1, <2>2 DEF InOrder, Closed
  <2>4. \A u \in Requests \ {r} : Aside(u)
    BY <1>2, ClosedAccount DEF Aside
  <2> QED  BY <2>3, <2>4, StepInOrder
<1> QED  BY <1>1, <1>2 DEF End, Fail, Commit, Refuse, DeadlockVictim, Rollback

LEMMA NextInOrder == Inv /\ Ledger /\ LocksInOrder /\ [Next]_vars => LocksInOrder'
<1> SUFFICES ASSUME Inv, Ledger, LocksInOrder, [Next]_vars PROVE LocksInOrder'
  OBVIOUS
<1> USE DEF rows, locks, session
<1>1. ASSUME NEW r \in Requests, Begin(r) \/ Work(r) PROVE LocksInOrder'
  <2>1. CASE GiveRow(r)
    <3>1. \A u \in Requests : Aside(u)
      BY <2>1 DEF GiveRow, Aside
    <3> QED  BY <3>1, AsideInOrder DEF LocksInOrder
  <2> QED  BY <1>1, <2>1, FlipsInOrder, ReadsInOrder, LocksRowInOrder DEF Work
<1>2. ASSUME NEW r \in Requests, End(r) \/ Fail(r) PROVE LocksInOrder'
  BY <1>2, EndsInOrder
<1>3. CASE (\E p \in Purchases : Operator(p)) \/ Pay \/ Restate \/ Tick \/ UNCHANGED vars
  <2>1. UNCHANGED <<locks, session>>
    BY <1>3 DEF Operator, Grant, Adjust, Extend, CancelPurchase, Reactivate, DeletePurchase, Edit,
                Save, Pay, Restate, Tick, vars
  <2>2. \A u \in Requests : Aside(u)
    BY <2>1 DEF Aside
  <2> QED  BY <2>2, AsideInOrder DEF LocksInOrder
<1> QED  BY <1>1, <1>2, <1>3 DEF Next

\* In a finite set that is not empty, a total order has a first element.
LEMMA FirstExists ==
  ASSUME NEW S, IsFiniteSet(S), S # {}, NEW R,
         \A x, y \in S : <<x, y>> \in R \/ <<y, x>> \in R,
         \A x, y, z \in S : <<x, y>> \in R /\ <<y, z>> \in R => <<x, z>> \in R
  PROVE  \E x \in S : \A y \in S : <<x, y>> \in R
<1> DEFINE Has(s) == \E x \in s : \A y \in s : <<x, y>> \in R
           G == {s \in SUBSET S : s = {} \/ Has(s)}
<1>1. {} \in G
  OBVIOUS
<1>2. ASSUME NEW s \in SUBSET S, NEW e \in s, s \ {e} \in G PROVE s \in G
  <2>1. CASE s \ {e} = {}
    <3>1. \A y \in s : y = e
      BY <2>1
    <3>2. <<e, e>> \in R
      OBVIOUS
    <3>3. Has(s)
      BY <3>1, <3>2
    <3> QED  BY <3>3
  <2>2. CASE s \ {e} # {}
    <3>1. PICK x \in s \ {e} : \A y \in s \ {e} : <<x, y>> \in R
      BY <1>2, <2>2
    <3>2. CASE <<x, e>> \in R
      <4>1. \A y \in s : <<x, y>> \in R
        BY <3>1, <3>2
      <4> QED  BY <4>1
    <3>3. CASE <<e, x>> \in R
      <4>1. <<e, e>> \in R
        OBVIOUS
      <4>2. \A y \in s : <<e, y>> \in R
        BY <3>1, <3>3, <4>1
      <4> QED  BY <4>2
    <3> QED  BY <3>2, <3>3
  <2> QED  BY <2>1, <2>2
<1> HIDE DEF G
<1>3. S \in G
  BY <1>1, <1>2, GrowingSets
<1> QED  BY <1>3 DEF G

\* Any rows have a last in the order of expiry, then id.
LEMMA LastExists ==
  ASSUME TypeOK, NEW r \in Requests, NEW P \in SUBSET Purchases, P # {}
  PROVE  \E p \in P : \A q \in P : Earlier(r, q, p)
<1> DEFINE Z == {e \in P \X P : Earlier(r, e[2], e[1])}
<1>0. IsFiniteSet(P)
  BY TablesAreFinite, FS_Subset
<1>1. \A p, q \in P : <<p, q>> \in Z <=> Earlier(r, q, p)
  OBVIOUS
<1>2. \A p \in P : p \in Nat /\ order[r][p] \in Nat
  BY PurchasesAreIds, HoursArePositive DEF TypeOK
<1>3. \A p, q \in P : Earlier(r, p, q) \/ Earlier(r, q, p)
  BY <1>2 DEF Earlier
<1>4. \A p, q, u \in P : Earlier(r, p, q) /\ Earlier(r, q, u) => Earlier(r, p, u)
  BY <1>2 DEF Earlier
<1> HIDE DEF Z
<1>5. \A p, q \in P : <<p, q>> \in Z \/ <<q, p>> \in Z
  BY <1>1, <1>3
<1>6. \A p, q, u \in P : <<p, q>> \in Z /\ <<q, u>> \in Z => <<p, u>> \in Z
  BY <1>1, <1>4
<1>7. \E p \in P : \A q \in P : <<p, q>> \in Z
  BY <1>0, <1>5, <1>6, FirstExists
<1> QED  BY <1>1, <1>7

\* Requests that read their rows once, under the same expiries, never wait in
\* a circle: whoever holds the last of the rows they wait for has nothing left
\* to wait for.
THEOREM NoCircleInOneOrder == Spec => []OneOrderNoCircle
<1>1. Inv /\ Ledger /\ LocksInOrder => OneOrderNoCircle
  <2> SUFFICES ASSUME Inv, LocksInOrder, NEW C \in SUBSET Requests, C # {},
                      \A r \in C : \E u \in C : WaitsForRow(r, u),
                      \A r \in C : ReadOnce(r),
                      \A r, u \in C : ~Disagree(r, u, {p \in Purchases : \E v \in C : Wants(v, p)})
               PROVE  FALSE
    BY DEF OneOrderNoCircle
  <2> DEFINE W == {p \in Purchases : \E v \in C : Wants(v, p)}
  <2>0. TypeOK
    BY DEF Inv
  <2>1. PICK r \in C : TRUE
    OBVIOUS
  <2>2. W # {} /\ W \in SUBSET Purchases
    BY <2>1 DEF WaitsForRow
  <2>3. PICK p \in W : \A q \in W : Earlier(r, q, p)
    <3> HIDE DEF W
    <3> QED  BY <2>0, <2>1, <2>2, LastExists
  <2>4. PICK v \in C : Wants(v, p)
    BY <2>3
  <2>5. PICK u \in C : rowLock[p] = u
    <3>1. PICK u \in C, q \in Purchases : Wants(v, q) /\ rowLock[q] = u
      BY <2>4 DEF WaitsForRow
    <3>2. Earlier(v, p, q) /\ Earlier(v, q, p)
      BY <2>4, <3>1 DEF Wants, IsFirst
    <3>3. p = q
      BY <2>0, <2>2, <2>3, <3>2, EarlierOrders
    <3> QED  BY <3>1, <3>3
  <2>6. PICK q \in W : Wants(u, q) /\ rowLock[q] # u
    BY <2>5 DEF WaitsForRow
  <2>7. Earlier(u, p, q)
    BY <2>2, <2>3, <2>5, <2>6 DEF LocksInOrder, InOrder, Wants, IsFirst
  <2>8. Earlier(u, q, p)
    <3>1. ~Disagree(r, u, W)
      BY <2>1, <2>5
    <3> HIDE DEF W
    <3> QED  BY <2>3, <2>6, <3>1 DEF Disagree
  <2>9. p = q
    BY <2>0, <2>2, <2>3, <2>5, <2>6, <2>7, <2>8, EarlierOrders
  <2> QED  BY <2>5, <2>6, <2>9
<1>2. Init => LocksInOrder
  BY NullsAreFresh DEF Init, LocksInOrder, InOrder
<1>3. Spec => []LocksInOrder
  <2>1. Inv /\ Ledger /\ LocksInOrder /\ [Next]_vars => LocksInOrder'
    BY NextInOrder
  <2> QED  BY <1>2, <2>1, LedgerInvariance, PTL DEF Spec
<1> QED  BY <1>1, <1>3, LedgerInvariance, PTL
=============================================================================
