------------------------ MODULE BookingLifecycleProofs ------------------------
(***************************************************************************)
(* What BookingLifecycle promises for any bookings, slots, hours and       *)
(* bounds: slots are held once, a booking is charged once, its hours are   *)
(* drawn exactly while its status holds them, no source gives more than it *)
(* has, and the money is on its booking as long as the operator's moves    *)
(* leave it there.                                                         *)
(***************************************************************************)
EXTENDS BookingLifecycle, SumProofs

\* The operator makes no unpaid hold of a booking that is none.
KeepsPaid == \A m \in OperatorMoves :
  m[2] \in {"pending", "expired"} => m[1] \in {"pending", "expired"}

\* What he cancelled he reinstates as it was.
KeepsCredits == KeepsPaid /\ \A m \in OperatorMoves :
  m[1] = "cancelled" => m[2] \in {"cancelled", "confirmed", "completed"}

\* He leaves a hold that may still be paid to its customer.
LeavesHolds == KeepsPaid /\ \A m \in OperatorMoves :
  /\ m[1] # "cancelled"
  /\ m[1] \in {"pending", "expired"} => m[2] \in {"pending", "expired"}

Methods == {"hourly", "package", "mixed", "manual"}

\* A booking's row; of the hours in it nothing is said.
IsRow(r) ==
  r \in [status: Statuses, method: Methods, slot: Slots \cup {NoSlot}, share: {r.share},
         deadline: Nat, session: 0 .. Attempts, paid: Nat]

Live == {"open", "completed"}

\* What is true of booking b whatever the others are.
Sessions(b) ==
  /\ session[b] \in [Attempt -> {"unused", "open", "completed", "expired"}]
  /\ booking[b].session # 0 => booking[b].method \in PaidAtCheckout
  /\ \A n \in Attempt : session[b][n] \in Live => n = booking[b].session

Money(b) ==
  /\ KeepsPaid /\ booking[b].paid # Never =>
       booking[b].status \notin {"pending", "expired"} /\ booking[b].deadline = Never
  /\ LeavesHolds =>
       /\ \A n \in Attempt : session[b][n] \in Live => booking[b].paid # Never \/ Payable(b)
       /\ \A n \in Attempt : <<b, n>> \in heard => booking[b].paid # Never

Credited(b) ==
  KeepsCredits =>
    /\ booking[b].status \in {"confirmed", "completed"} => booking[b].deadline = Never
    /\ credit[b] # "none" =>
         booking[b].status \notin {"none", "pending", "expired"} /\ booking[b].deadline = Never
    /\ credit[b] = "active" => booking[b].status \in {"cancelled", "deleted"}

Fresh(b) == booking[b].status = "none" => booking[b].session = 0 /\ booking[b].paid = Never

Sound(b) == IsRow(booking[b]) /\ Fresh(b) /\ Sessions(b) /\ Money(b) /\ Credited(b)

PerBooking(f) == f = [b \in Bookings |-> f[b]]

IInv ==
  /\ now \in Nat \ {0} /\ blocked \subseteq Slots
  /\ PerBooking(booking) /\ PerBooking(session) /\ PerBooking(credit)
  /\ \A b \in Bookings : Sound(b)
  /\ SlotHeldOnce

-------------------------------------------------------------------------------
(* Bookings a step is not about.                                           *)

\* A hold that has lapsed expires, and nothing else happens to it.
Flips(c) == Lapsed(c) /\ booking'[c] = [booking[c] EXCEPT !.status = "expired"]

Aside(c) ==
  /\ booking'[c] = booking[c] \/ Flips(c)
  /\ session'[c] = session[c] /\ credit'[c] = credit[c]
  /\ \A n \in Attempt : <<c, n>> \in heard' => <<c, n>> \in heard

\* The step is about booking b.
About(b) ==
  /\ now' = now /\ blocked' = blocked
  /\ PerBooking(booking') /\ PerBooking(session') /\ PerBooking(credit')
  /\ \A c \in Bookings \ {b} : Aside(c)

\* It keeps its slot, has none, or takes one and clears it.
Entitled(b) ==
  \/ booking'[b].status \notin HoldsSlot
  \/ booking[b].status \in HoldsSlot /\ booking'[b].slot = booking[b].slot
  \/ /\ ~Conflict(booking'[b].slot, b)
     /\ \A c \in Stale(booking'[b].slot) \ {b} : booking'[c].status = "expired"

\* A hold that expires stays as sound as it was.
LEMMA FlipIsRow ==
  ASSUME NEW r, IsRow(r), NEW x, x = [r EXCEPT !.status = "expired"]
  PROVE  /\ IsRow(x) /\ x.status = "expired" /\ x.method = r.method /\ x.slot = r.slot
         /\ x.share = r.share /\ x.deadline = r.deadline /\ x.session = r.session
         /\ x.paid = r.paid
  BY DEF IsRow, Statuses

\* A booking a step is not about stays as sound as it was.
LEMMA AsideSound ==
  ASSUME IInv, NEW c \in Bookings, Aside(c) PROVE Sound(c)'
<1>1. Sound(c)
  BY DEF IInv
<1>2. CASE booking'[c] = booking[c]
  BY <1>1, <1>2 DEF Aside, Sound, IsRow, Fresh, Sessions, Money, Credited, Payable
<1>3. CASE Flips(c)
  <2>1. booking[c].status = "pending" /\ booking[c].deadline # Never
    BY <1>3 DEF Flips, Lapsed
  <2>2. /\ IsRow(booking'[c]) /\ booking'[c].status = "expired"
        /\ booking'[c].method = booking[c].method /\ booking'[c].deadline = booking[c].deadline
        /\ booking'[c].session = booking[c].session /\ booking'[c].paid = booking[c].paid
    BY <1>1, <1>3, FlipIsRow DEF Flips, Sound, Statuses
  <2>3. IsRow(booking[c])' /\ Fresh(c)' /\ Sessions(c)'
    BY <1>1, <2>2 DEF Aside, Sound, IsRow, Fresh, Sessions
  <2>4. Money(c)'
    BY <1>1, <2>1, <2>2 DEF Aside, Sound, Money, Payable
  <2>5. Credited(c)'
    BY <1>1, <2>1, <2>2 DEF Aside, Sound, Credited
  <2> QED  BY <2>3, <2>4, <2>5 DEF Sound
<1> QED  BY <1>2, <1>3 DEF Aside

\* Of two bookings a step is not about, neither takes the other's slot.
LEMMA AsideSlot ==
  ASSUME IInv, NEW c \in Bookings, Aside(c), booking'[c].status \in HoldsSlot
  PROVE  booking'[c] = booking[c]
<1>1. ASSUME Flips(c) PROVE FALSE
  <2>1. booking'[c].status = "expired"
    BY <1>1, FlipIsRow DEF Flips, IInv, Sound, Statuses
  <2> QED  BY <2>1 DEF HoldsSlot
<1> QED  BY <1>1 DEF Aside

\* A step about one booking owes the invariant of that booking and its slot.
LEMMA AboutInv ==
  ASSUME IInv, NEW b \in Bookings, About(b), Sound(b)', Entitled(b) PROVE IInv'
<1>1. \A c \in Bookings : Sound(c)'
  BY AsideSound DEF About
<1>2. ASSUME NEW c \in Bookings \ {b}, booking'[b].status \in HoldsSlot, booking'[c].status \in HoldsSlot
      PROVE  ~Overlap(booking'[b].slot, booking'[c].slot)
  <2>1. booking'[c] = booking[c]
    BY <1>2, AsideSlot DEF About
  <2>2. CASE booking[b].status \in HoldsSlot /\ booking'[b].slot = booking[b].slot
    BY <1>2, <2>1, <2>2 DEF IInv, SlotHeldOnce
  <2>3. CASE /\ ~Conflict(booking'[b].slot, b)
             /\ \A d \in Stale(booking'[b].slot) \ {b} : booking'[d].status = "expired"
    <3>1. c \notin Stale(booking'[b].slot)
      BY <1>2, <2>3 DEF HoldsSlot
    <3>2. Holds(c) => ~Overlap(booking[c].slot, booking'[b].slot)
      BY <2>3 DEF Conflict
    <3>3. Holds(c) \/ Lapsed(c)
      BY <1>2, <2>1 DEF Holds, Lapsed, HoldsSlot
    <3>4. ~Overlap(booking[c].slot, booking'[b].slot)
      BY <3>1, <3>2, <3>3 DEF Stale, AllLapsed
    <3> QED  BY <2>1, <3>4 DEF Overlap
  <2> QED  BY <1>2, <2>2, <2>3 DEF Entitled
<1>3. ASSUME booking'[b].status \in HoldsSlot, NEW s \in blocked PROVE ~Overlap(booking'[b].slot, s)
  <2>1. CASE booking[b].status \in HoldsSlot /\ booking'[b].slot = booking[b].slot
    BY <1>3, <2>1 DEF IInv, SlotHeldOnce
  <2>2. CASE ~Conflict(booking'[b].slot, b)
    BY <1>3, <2>2 DEF Conflict, Overlap
  <2> QED  BY <1>3, <2>1, <2>2 DEF Entitled
<1>4. SlotHeldOnce'
  <2>1. ASSUME NEW c \in Bookings, NEW d \in Bookings \ {c}, booking'[c].status \in HoldsSlot,
               booking'[d].status \in HoldsSlot
        PROVE  ~Overlap(booking'[c].slot, booking'[d].slot)
    <3>1. CASE c = b
      BY <1>2, <2>1, <3>1
    <3>2. CASE d = b
      BY <1>2, <2>1, <3>2 DEF Overlap
    <3>3. CASE c # b /\ d # b
      BY <2>1, <3>3, AsideSlot DEF About, IInv, SlotHeldOnce
    <3> QED  BY <3>1, <3>2, <3>3
  <2>2. ASSUME NEW c \in Bookings, booking'[c].status \in HoldsSlot, NEW s \in blocked
        PROVE  ~Overlap(booking'[c].slot, s)
    BY <1>3, <2>2, AsideSlot DEF About, IInv, SlotHeldOnce
  <2> QED  BY <2>1, <2>2 DEF SlotHeldOnce, About, Overlap
<1> QED  BY <1>1, <1>4 DEF About, IInv

-------------------------------------------------------------------------------
(* The actions, one by one.                                                *)

\* What an action on b leaves alone of the others, rows apart.
Frame(b) ==
  /\ now' = now /\ blocked' = blocked
  /\ session' = [session EXCEPT ![b] = session'[b]] /\ credit' = [credit EXCEPT ![b] = credit'[b]]
  /\ \A c \in Bookings \ {b}, n \in Attempt : <<c, n>> \in heard' => <<c, n>> \in heard

\* A handler that writes one row, and flips what lapsed before, is about that row.
LEMMA WriteAbout ==
  ASSUME IInv, NEW b \in Bookings, NEW S \in SUBSET AllLapsed, NEW row, Write(S, b, row), Frame(b)
  PROVE  About(b) /\ booking'[b] = row /\ \A c \in S \ {b} : booking'[c].status = "expired"
<1>1. ASSUME NEW c \in Bookings \ {b} PROVE Aside(c) /\ (c \in S => booking'[c].status = "expired")
  <2>1. booking'[c] = [booking[c] EXCEPT !.status = StatusAfter(S, c)] /\ IsRow(booking[c])
    BY DEF Write, IInv, Sound
  <2>2. CASE c \in S
    <3>1. Flips(c)
      BY <2>1, <2>2 DEF StatusAfter, Flips, AllLapsed
    <3>2. booking'[c] = [booking[c] EXCEPT !.status = "expired"] /\ IsRow(booking[c])
      BY <2>1, <3>1 DEF Flips
    <3>3. booking'[c].status = "expired"
      BY <3>2, FlipIsRow
    <3> QED  BY <3>1, <3>3 DEF Aside, Frame, IInv, PerBooking
  <2>3. CASE c \notin S
    <3>1. booking'[c] = booking[c]
      BY <2>1, <2>3 DEF StatusAfter, IsRow
    <3> QED  BY <2>3, <3>1 DEF Aside, Frame, IInv, PerBooking
  <2> QED  BY <2>2, <2>3
<1>2. booking'[b] = row /\ PerBooking(booking')
  BY DEF Write, PerBooking
<1>3. PerBooking(session') /\ PerBooking(credit')
  BY DEF Frame, IInv, PerBooking
<1> QED  BY <1>1, <1>2, <1>3 DEF About, Frame, AllLapsed

\* The holds that make way are lapsed ones.
LEMMA StaleLapsed == ASSUME NEW s PROVE Stale(s) \subseteq AllLapsed
  BY DEF Stale

\* Deadlines set now are instants after 0, which is Never.
LEMMA StartsPositive ==
  ASSUME IInv
  PROVE  now + Hold \in Nat \ {0} /\ now \in Nat \ {0} /\ Hold \in Nat
  BY TimesArePositive DEF IInv

\* A customer books: a hold to be paid, or hours of the bank.
LEMMA CreateInv ==
  ASSUME IInv, NEW b \in Bookings, NEW s \in Slots, NEW wish, Create(b, s, wish) PROVE IInv' /\ About(b)
<1>1. PICK S, row :
        /\ S \in SUBSET AllLapsed /\ Stale(s) \subseteq S /\ Write(S, b, row)
        /\ row.slot = s /\ IsRow(row) /\ row.status \in HoldsSlot /\ row.paid = Never
        /\ \/ /\ row.method \in PaidAtCheckout /\ row.session = 1 /\ row.status = "pending"
              /\ row.deadline # Never /\ session' = [session EXCEPT ![b][1] = "open"]
           \/ row.session = 0 /\ session' = session /\ row.status = "confirmed" /\ row.deadline = Never
  <2> DEFINE
    S == IF wish = "hourly" THEN Stale(s) ELSE AllLapsed
    W == Without(S)
    want == CASE wish = "hourly"  -> 0
              [] wish = "package" -> Len
              [] wish = "mixed"   -> IF Bank(W) < Len THEN Bank(W) ELSE Len
    row == [status   |-> IF want = Len THEN "confirmed" ELSE "pending",
            method   |-> CASE want = Len -> "package" [] want = 0 -> "hourly" [] OTHER -> "mixed",
            slot     |-> s,
            share    |-> want,
            deadline |-> IF want = Len THEN Never ELSE now + Hold,
            session  |-> IF want = Len THEN 0 ELSE 1,
            paid     |-> Never]
  <2>1. S \in SUBSET AllLapsed /\ Stale(s) \subseteq S
    BY StaleLapsed
  <2>2. Write(S, b, row) /\ session' = (IF want = Len THEN session ELSE [session EXCEPT ![b][1] = "open"])
    BY DEF Create
  <2> HIDE DEF S, want
  <2>3. CASE want = Len
    <3>1. row = [status |-> "confirmed", method |-> "package", slot |-> s, share |-> want,
                 deadline |-> Never, session |-> 0, paid |-> Never]
      BY <2>3, TimesArePositive
    <3>2. IsRow(row) /\ row.slot = s /\ row.status = "confirmed" /\ row.paid = Never
          /\ row.session = 0 /\ row.deadline = Never
      <4> HIDE DEF row
      <4> QED  BY <3>1, TimesArePositive DEF IsRow, Statuses, Methods, Never
    <3> HIDE DEF row
    <3> QED  BY <2>1, <2>2, <2>3, <3>2 DEF HoldsSlot
  <2>4. CASE want # Len
    <3>1. PICK m \in PaidAtCheckout :
            row = [status |-> "pending", method |-> m, slot |-> s, share |-> want,
                   deadline |-> now + Hold, session |-> 1, paid |-> Never]
      BY <2>4 DEF PaidAtCheckout
    <3>2. IsRow(row) /\ row.slot = s /\ row.status = "pending" /\ row.paid = Never
          /\ row.session = 1 /\ row.deadline = now + Hold /\ row.method \in PaidAtCheckout
      <4> HIDE DEF row
      <4> QED  BY <3>1, TimesArePositive, StartsPositive DEF IsRow, Statuses, Methods, PaidAtCheckout, Never
    <3> HIDE DEF row
    <3> QED  BY <2>1, <2>2, <2>4, <3>2, StartsPositive DEF HoldsSlot, Never
  <2> QED  BY <2>3, <2>4
<1>2. /\ booking[b].status = "none" /\ ~Conflict(s, b) /\ credit' = credit /\ heard' = heard
      /\ now' = now /\ blocked' = blocked
  BY DEF Create
<1>3. Frame(b)
  BY <1>1, <1>2 DEF Frame, IInv, PerBooking
<1>4. About(b) /\ booking'[b] = row /\ \A c \in S \ {b} : booking'[c].status = "expired"
  BY <1>1, <1>3, WriteAbout
<1>5. Entitled(b)
  BY <1>1, <1>2, <1>4 DEF Entitled
<1>6. Sound(b) /\ booking[b].session = 0 /\ booking[b].paid = Never /\ 1 \in Attempt
  BY <1>2, TimesArePositive DEF IInv, Sound, Fresh, Attempt
<1>7. \A n \in Attempt : session[b][n] \notin Live /\ n # 0
  BY <1>6 DEF Sound, Sessions, Attempt
<1>8. \A n \in Attempt : session'[b][n] \in Live => n = row.session /\ row.status = "pending"
  BY <1>1, <1>6, <1>7 DEF IInv, PerBooking, Sound, Sessions, Live
<1>9. IsRow(booking[b])' /\ Fresh(b)'
  BY <1>1, <1>4 DEF Fresh, IsRow, HoldsSlot
<1>10. Sessions(b)'
  BY <1>1, <1>4, <1>6, <1>8 DEF Sound, Sessions, IInv, PerBooking
<1>11. Money(b)'
  BY <1>1, <1>2, <1>4, <1>6, <1>8 DEF Sound, Money, Payable
<1>12. Credited(b)'
  BY <1>1, <1>2, <1>4, <1>6 DEF Sound, Credited
<1> QED  BY <1>4, <1>5, <1>9, <1>10, <1>11, <1>12, AboutInv DEF Sound

\* A row whose status alone is changed.
LEMMA StatusRow ==
  ASSUME NEW r, IsRow(r), NEW st \in Statuses, NEW x, x = [r EXCEPT !.status = st]
  PROVE  /\ IsRow(x) /\ x.status = st /\ x.method = r.method /\ x.slot = r.slot
         /\ x.share = r.share /\ x.deadline = r.deadline /\ x.session = r.session
         /\ x.paid = r.paid
  BY DEF IsRow

\* A cancellation may leave a credit.
LEMMA CreditAfterIs ==
  ASSUME IInv, NEW b \in Bookings, NEW D, NEW previous, credit' = CreditAfter(D, b, previous)
  PROVE  /\ credit' = [credit EXCEPT ![b] = credit'[b]]
         /\ \/ credit'[b] = credit[b]
            \/ credit'[b] = "active" /\ previous \in {"confirmed", "completed"}
  BY DEF CreditAfter, Creditable, IInv, PerBooking

\* A cancellation closes the session it may, and credits what was paid.
LEMMA CancelInv == ASSUME IInv, NEW b \in Bookings, Cancel(b) PROVE IInv' /\ About(b)
<1> DEFINE row == [booking[b] EXCEPT !.status = "cancelled"]
<1>1. /\ booking[b].status \in HoldsSlot /\ Write({}, b, row) /\ session' = session
      /\ now' = now /\ heard' = heard /\ blocked' = blocked
      /\ \E D : credit' = CreditAfter(D, b, booking[b].status)
  BY DEF Cancel
<1>2. /\ credit' = [credit EXCEPT ![b] = credit'[b]]
      /\ \/ credit'[b] = credit[b]
         \/ credit'[b] = "active" /\ booking[b].status \in {"confirmed", "completed"}
  BY <1>1, CreditAfterIs
<1>3. Sound(b) /\ IsRow(booking[b])
  BY DEF IInv, Sound
<1>4. /\ IsRow(row) /\ row.status = "cancelled" /\ row.method = booking[b].method
      /\ row.deadline = booking[b].deadline /\ row.session = booking[b].session
      /\ row.paid = booking[b].paid
  BY <1>3, StatusRow DEF Statuses
<1> HIDE DEF row
<1>5. Frame(b)
  BY <1>1, <1>2 DEF Frame, IInv, PerBooking
<1>6. About(b) /\ booking'[b] = row
  BY <1>1, <1>5, WriteAbout
<1>7. Entitled(b)
  BY <1>4, <1>6 DEF Entitled, HoldsSlot
<1>8. IsRow(booking[b])' /\ Fresh(b)' /\ Sessions(b)'
  BY <1>1, <1>3, <1>4, <1>6 DEF Sound, Fresh, Sessions, IsRow
<1>9. Money(b)'
  BY <1>1, <1>3, <1>4, <1>6 DEF Sound, Money, Payable, HoldsSlot
<1>10. Credited(b)'
  BY <1>1, <1>2, <1>3, <1>4, <1>6 DEF Sound, Credited, HoldsSlot
<1> QED  BY <1>6, <1>7, <1>8, <1>9, <1>10, AboutInv DEF Sound

\* The provider is asked to close the session a booking waits for.
LEMMA ClosedIs ==
  ASSUME IInv, NEW b \in Bookings, NEW s, s = Closed(b, booking[b].session)
  PROVE  /\ PerBooking(s) /\ s[b] \in [Attempt -> {"unused", "open", "completed", "expired"}]
         /\ \A c \in Bookings \ {b} : s[c] = session[c]
         /\ \A n \in Attempt : s[b][n] \in Live => session[b][n] \in Live
         /\ ~Paid(b) => \A n \in Attempt : s[b][n] \notin Live
<1>1. /\ PerBooking(session) /\ Sessions(b) /\ booking[b].session \in 0 .. Attempts
  BY DEF IInv, Sound, IsRow
<1>2. CASE booking[b].session # 0 /\ session[b][booking[b].session] = "open"
  <2>1. booking[b].session \in Attempt
    BY <1>1, <1>2, TimesArePositive DEF Attempt
  <2>2. s = [session EXCEPT ![b] = [session[b] EXCEPT ![booking[b].session] = "expired"]]
    BY <1>2 DEF Closed
  <2>3. PerBooking(s) /\ s[b] = [session[b] EXCEPT ![booking[b].session] = "expired"]
        /\ \A c \in Bookings \ {b} : s[c] = session[c]
    BY <1>1, <2>2 DEF PerBooking
  <2> QED  BY <1>1, <2>1, <2>3 DEF Sessions, Live
<1>3. CASE ~(booking[b].session # 0 /\ session[b][booking[b].session] = "open")
  <2>1. s = session
    BY <1>3 DEF Closed
  <2>2. ASSUME ~Paid(b), NEW n \in Attempt PROVE session[b][n] \notin Live
    BY <1>1, <1>3, <2>2, TimesArePositive DEF Paid, Sessions, Live, Attempt
  <2> QED  BY <1>1, <2>1, <2>2 DEF Sessions
<1> QED  BY <1>2, <1>3

\* A hold is taken again, in time or lapsed, with a session in place of the old.
LEMMA ResumeInv == ASSUME IInv, NEW b \in Bookings, Resume(b) PROVE IInv' /\ About(b)
<1> DEFINE
  lapsed == booking[b].status = "expired" \/ Lapsed(b)
  S == IF lapsed THEN Stale(booking[b].slot) ELSE {}
  n == booking[b].session + 1
  row == [booking[b] EXCEPT !.status = "pending", !.deadline = now + Hold, !.session = n]
  old == ClosedOnRetry(b)
<1>1. /\ booking[b].method \in PaidAtCheckout /\ booking[b].status \in {"pending", "expired"}
      /\ (lapsed => ~Conflict(booking[b].slot, b)) /\ ~Paid(b) /\ n \in Attempt
      /\ Write(S, b, row) /\ session' = [old EXCEPT ![b][n] = "open"]
      /\ credit' = credit /\ now' = now /\ heard' = heard /\ blocked' = blocked
  BY DEF Resume
<1>2. Sound(b) /\ IsRow(booking[b])
  BY DEF IInv, Sound
<1>3. /\ row \in [status: {"pending"}, method: {booking[b].method}, slot: {booking[b].slot},
                   share: {booking[b].share}, deadline: {now + Hold}, session: {n},
                   paid: {booking[b].paid}]
  BY <1>2 DEF IsRow
<1>4. S \in SUBSET AllLapsed
  BY StaleLapsed
<1>5. /\ PerBooking(old) /\ old[b] \in [Attempt -> {"unused", "open", "completed", "expired"}]
      /\ \A c \in Bookings \ {b} : old[c] = session[c]
      /\ \A m \in Attempt : old[b][m] \notin Live
  BY <1>1, ClosedIs DEF ClosedOnRetry
<1> HIDE DEF row, n, S, old
<1>6. /\ row.status = "pending" /\ row.method = booking[b].method /\ row.slot = booking[b].slot
      /\ row.deadline = now + Hold /\ row.session = n /\ row.paid = booking[b].paid
      /\ IsRow(row)
  BY <1>1, <1>2, <1>3, StartsPositive DEF IsRow, Statuses, Attempt
<1>7. /\ session' = [session EXCEPT ![b] = session'[b]]
      /\ session'[b] = [old[b] EXCEPT ![n] = "open"]
  BY <1>1, <1>5 DEF IInv, PerBooking
<1>8. About(b) /\ booking'[b] = row /\ \A c \in S \ {b} : booking'[c].status = "expired"
  <2>1. Frame(b)
    BY <1>1, <1>7 DEF Frame, IInv, PerBooking
  <2> QED  BY <1>1, <1>4, <2>1, WriteAbout
<1>9. Entitled(b)
  BY <1>1, <1>6, <1>8 DEF Entitled, HoldsSlot, S
<1>10. session'[b] \in [Attempt -> {"unused", "open", "completed", "expired"}]
       /\ \A m \in Attempt : session'[b][m] \in Live => m = n
  BY <1>1, <1>5, <1>7 DEF Live
<1>11. IsRow(booking[b])' /\ Fresh(b)' /\ Sessions(b)'
  BY <1>1, <1>6, <1>8, <1>10 DEF Fresh, Sessions, IsRow
<1>12. Money(b)'
  BY <1>1, <1>2, <1>6, <1>8, StartsPositive DEF Sound, Money, Payable, Never
<1>13. Credited(b)'
  BY <1>1, <1>2, <1>6, <1>8 DEF Sound, Credited
<1> QED  BY <1>8, <1>9, <1>11, <1>12, <1>13, AboutInv DEF Sound

\* A payable hold is paid: it has its slot still, or takes it again, or the
\* money is kept without it.
LEMMA ConfirmInv ==
  ASSUME IInv, NEW b \in Bookings, Payable(b), Confirm(b),
         now' = now, credit' = credit, session' = session, blocked' = blocked,
         NEW n \in Attempt, heard' = heard \cup {<<b, n>>}
  PROVE  IInv' /\ About(b)
<1> DEFINE
  late == booking[b].status # "pending" \/ Lapsed(b)
  S == IF late THEN Stale(booking[b].slot) ELSE {}
  again == Settled(S, b, StatusAfter(S, b), "confirmed")
  taken == late /\ (Conflict(booking[b].slot, b) \/ again = {})
  new == IF taken THEN "paid_unfulfilled" ELSE "confirmed"
  row == [booking[b] EXCEPT !.status = new, !.deadline = Never, !.paid = PaidAt(b)]
<1>1. Write(S, b, row)
  BY DEF Confirm
<1>2. /\ new \in {"confirmed", "paid_unfulfilled"} /\ S \in SUBSET AllLapsed
      /\ new = "confirmed" /\ late => ~Conflict(booking[b].slot, b)
  BY StaleLapsed
<1>3. Sound(b) /\ IsRow(booking[b]) /\ PaidAt(b) \in Nat /\ PaidAt(b) # Never
  BY StartsPositive DEF IInv, Sound, PaidAt, IsRow, Never
<1>4. row \in [status: {new}, method: {booking[b].method}, slot: {booking[b].slot},
               share: {booking[b].share}, deadline: {Never}, session: {booking[b].session},
               paid: {PaidAt(b)}]
  BY <1>3 DEF IsRow
<1> HIDE DEF new, row, S
<1>5. /\ row.status = new /\ row.method = booking[b].method /\ row.slot = booking[b].slot
      /\ row.deadline = Never /\ row.session = booking[b].session /\ row.paid # Never
      /\ IsRow(row)
  BY <1>2, <1>3, <1>4 DEF IsRow, Statuses, Never
<1>6. About(b) /\ booking'[b] = row /\ \A c \in S \ {b} : booking'[c].status = "expired"
  <2>1. Frame(b)
    BY DEF Frame, IInv, PerBooking
  <2> QED  BY <1>1, <1>2, <2>1, WriteAbout
<1>7. Entitled(b)
  BY <1>2, <1>5, <1>6 DEF Entitled, HoldsSlot, S
<1>8. IsRow(booking[b])' /\ Fresh(b)' /\ Sessions(b)'
  BY <1>2, <1>3, <1>5, <1>6 DEF Sound, Fresh, Sessions, IsRow
<1>9. Money(b)'
  BY <1>2, <1>5, <1>6 DEF Money
<1>10. Credited(b)'
  BY <1>2, <1>3, <1>5, <1>6 DEF Sound, Credited, Payable
<1>11. IInv'
  BY <1>6, <1>7, <1>8, <1>9, <1>10, AboutInv DEF Sound
<1> QED  BY <1>6, <1>11

\* Nothing of the rows, the credits or the blocks changes.
LEMMA RowsKept ==
  ASSUME IInv, NEW b \in Bookings, booking' = booking, credit' = credit, now' = now,
         blocked' = blocked, session' = [session EXCEPT ![b] = session'[b]],
         \A c \in Bookings \ {b}, n \in Attempt : <<c, n>> \in heard' => <<c, n>> \in heard,
         Sessions(b)', Money(b)'
  PROVE  IInv' /\ About(b)
<1>1. About(b)
  BY DEF About, Aside, IInv, PerBooking
<1>2. Sound(b)' /\ Entitled(b)
  BY DEF IInv, Sound, IsRow, Fresh, Credited, Entitled
<1> QED  BY <1>1, <1>2, AboutInv

\* A completion is heard, in time, late, or again.
LEMMA HearCompletedInv ==
  ASSUME IInv, NEW b \in Bookings, NEW n \in Attempt, HearCompleted(b, n) PROVE IInv' /\ About(b)
<1>1. /\ session[b][n] = "completed" /\ heard' = heard \cup {<<b, n>>}
      /\ now' = now /\ credit' = credit /\ session' = session /\ blocked' = blocked
  BY DEF HearCompleted
<1>2. CASE booking[b].session = n /\ Payable(b)
  BY <1>1, <1>2, ConfirmInv DEF HearCompleted
<1>3. CASE ~(booking[b].session = n /\ Payable(b))
  <2>1. booking' = booking
    BY <1>3 DEF HearCompleted
  <2>2. Sound(b)
    BY DEF IInv
  <2>3. LeavesHolds => booking[b].paid # Never
    BY <1>1, <1>3, <2>2 DEF Sound, Sessions, Money, Live
  <2>4. Sessions(b)' /\ Money(b)'
    BY <1>1, <2>1, <2>2, <2>3 DEF Sound, Sessions, Money, Payable
  <2>5. session' = [session EXCEPT ![b] = session'[b]]
    BY <1>1 DEF IInv, PerBooking
  <2> QED  BY <1>1, <2>1, <2>4, <2>5, RowsKept
<1> QED  BY <1>2, <1>3

\* The session that is paid, or expires, is the one the booking waits for.
LEMMA ProviderInv ==
  ASSUME IInv, NEW b \in Bookings, NEW n \in Attempt, Pay(b, n) \/ SessionExpires(b, n) PROVE IInv' /\ About(b)
<1>1. PICK t \in {"completed", "expired"} : session' = [session EXCEPT ![b][n] = t]
  BY DEF Pay, SessionExpires
<1>2. /\ session[b][n] = "open" /\ booking' = booking /\ credit' = credit /\ now' = now
      /\ blocked' = blocked /\ heard' = heard
  BY DEF Pay, SessionExpires
<1>3. Sound(b) /\ session' = [session EXCEPT ![b] = session'[b]] /\ session'[b] = [session[b] EXCEPT ![n] = t]
  BY <1>1 DEF IInv, PerBooking
<1>4. Sessions(b)' /\ \A m \in Attempt : session'[b][m] \in Live => session[b][m] \in Live
  BY <1>2, <1>3 DEF Sound, Sessions, Live
<1>5. Money(b)'
  BY <1>2, <1>3, <1>4 DEF Sound, Money, Payable
<1> QED  BY <1>2, <1>3, <1>4, <1>5, RowsKept

\* A hold is let go: its session has expired, or its customer backs out.
LEMMA LetGoInv ==
  ASSUME IInv, NEW b \in Bookings, NEW n \in Attempt, LetGo(b, n) PROVE IInv' /\ About(b)
<1> DEFINE row == [booking[b] EXCEPT !.status = "expired", !.deadline = now]
<1>1. /\ booking[b].status = "pending" /\ booking[b].deadline # Never /\ Write({}, b, row)
      /\ now' = now /\ credit' = credit /\ session' = session /\ heard' = heard /\ blocked' = blocked
  BY DEF LetGo, Forgo
<1>2. Sound(b) /\ IsRow(booking[b])
  BY DEF IInv, Sound
<1>3. row \in [status: {"expired"}, method: {booking[b].method}, slot: {booking[b].slot},
               share: {booking[b].share}, deadline: {now}, session: {booking[b].session},
               paid: {booking[b].paid}]
  BY <1>2 DEF IsRow
<1> HIDE DEF row
<1>4. /\ row.status = "expired" /\ row.method = booking[b].method /\ row.deadline = now
      /\ row.session = booking[b].session /\ row.paid = booking[b].paid /\ IsRow(row)
  BY <1>2, <1>3, StartsPositive DEF IsRow, Statuses
<1>5. About(b) /\ booking'[b] = row
  <2>1. Frame(b)
    BY <1>1 DEF Frame, IInv, PerBooking
  <2> QED  BY <1>1, <2>1, WriteAbout
<1>6. Entitled(b)
  BY <1>4, <1>5 DEF Entitled, HoldsSlot
<1>7. IsRow(booking[b])' /\ Fresh(b)' /\ Sessions(b)'
  BY <1>1, <1>2, <1>4, <1>5 DEF Sound, Fresh, Sessions, IsRow
<1>8. Money(b)' /\ Credited(b)'
  BY <1>1, <1>2, <1>4, <1>5, StartsPositive DEF Sound, Money, Credited, Payable, Never
<1> QED  BY <1>5, <1>6, <1>7, <1>8, AboutInv DEF Sound

\* The operator records a payment by hand.
LEMMA MarkPaidInv == ASSUME IInv, NEW b \in Bookings, MarkPaid(b) PROVE IInv' /\ About(b)
<1> DEFINE
  S == IF booking[b].status = "expired" THEN Stale(booking[b].slot) ELSE {}
  row == [booking[b] EXCEPT !.status = "confirmed", !.method = "manual",
                            !.deadline = Never, !.session = 0, !.paid = PaidAt(b)]
<1>1. /\ \/ booking[b].status = "pending"
         \/ booking[b].status = "expired" /\ ~Conflict(booking[b].slot, b)
      /\ ~Paid(b) /\ Write(S, b, row) /\ session' = Closed(b, booking[b].session)
      /\ now' = now /\ credit' = credit /\ heard' = heard /\ blocked' = blocked
  BY DEF MarkPaid
<1>2. Sound(b) /\ IsRow(booking[b]) /\ PaidAt(b) \in Nat /\ PaidAt(b) # Never
  BY StartsPositive DEF IInv, Sound, PaidAt, IsRow, Never
<1>3. row \in [status: {"confirmed"}, method: {"manual"}, slot: {booking[b].slot},
               share: {booking[b].share}, deadline: {Never}, session: {0}, paid: {PaidAt(b)}]
  BY <1>2 DEF IsRow
<1>4. S \in SUBSET AllLapsed
  BY StaleLapsed
<1> HIDE DEF row, S
<1>5. /\ row.status = "confirmed" /\ row.method = "manual" /\ row.slot = booking[b].slot
      /\ row.deadline = Never /\ row.session = 0 /\ row.paid # Never /\ IsRow(row)
  BY <1>2, <1>3, TimesArePositive DEF IsRow, Statuses, Methods, Never
<1>6. /\ PerBooking(session') /\ session'[b] \in [Attempt -> {"unused", "open", "completed", "expired"}]
      /\ \A c \in Bookings \ {b} : session'[c] = session[c]
      /\ \A n \in Attempt : session'[b][n] \notin Live
  BY <1>1, ClosedIs
<1>7. About(b) /\ booking'[b] = row /\ \A c \in S \ {b} : booking'[c].status = "expired"
  <2>1. Frame(b)
    BY <1>1, <1>6 DEF Frame, IInv, PerBooking
  <2> QED  BY <1>1, <1>4, <2>1, WriteAbout
<1>8. Entitled(b)
  BY <1>1, <1>5, <1>7 DEF Entitled, HoldsSlot, S
<1>9. IsRow(booking[b])' /\ Fresh(b)' /\ Sessions(b)'
  BY <1>5, <1>6, <1>7 DEF Fresh, Sessions, IsRow
<1>10. Money(b)' /\ Credited(b)'
  BY <1>1, <1>2, <1>5, <1>7 DEF Sound, Money, Credited
<1> QED  BY <1>7, <1>8, <1>9, <1>10, AboutInv DEF Sound

\* The operator books for a customer.
LEMMA AdminCreateInv ==
  ASSUME IInv, NEW b \in Bookings, NEW s \in Slots, AdminCreate(b, s) PROVE IInv' /\ About(b)
<1> DEFINE row == [status |-> "confirmed", method |-> "manual", slot |-> s, share |-> 0,
                   deadline |-> Never, session |-> 0, paid |-> now]
<1>1. /\ booking[b].status = "none" /\ ~Conflict(s, b) /\ Write(Stale(s), b, row)
      /\ now' = now /\ credit' = credit /\ session' = session /\ heard' = heard /\ blocked' = blocked
  BY DEF AdminCreate
<1>2. /\ row.status = "confirmed" /\ row.method = "manual" /\ row.slot = s
      /\ row.deadline = Never /\ row.session = 0 /\ row.paid # Never /\ IsRow(row)
  BY StartsPositive, TimesArePositive DEF IsRow, Statuses, Methods, Never
<1> HIDE DEF row
<1>3. About(b) /\ booking'[b] = row /\ \A c \in Stale(s) \ {b} : booking'[c].status = "expired"
  <2>1. Frame(b) /\ Stale(s) \in SUBSET AllLapsed
    BY <1>1, StaleLapsed DEF Frame, IInv, PerBooking
  <2> QED  BY <1>1, <2>1, WriteAbout
<1>4. Entitled(b)
  BY <1>1, <1>2, <1>3 DEF Entitled
<1>5. Sound(b) /\ \A n \in Attempt : session[b][n] \notin Live
  BY <1>1 DEF IInv, Sound, Fresh, Sessions, Attempt
<1>6. IsRow(booking[b])' /\ Fresh(b)' /\ Sessions(b)'
  BY <1>1, <1>2, <1>3, <1>5 DEF Sound, Fresh, Sessions, IsRow
<1>7. Money(b)' /\ Credited(b)'
  BY <1>1, <1>2, <1>3, <1>5 DEF Sound, Money, Credited
<1> QED  BY <1>3, <1>4, <1>6, <1>7, AboutInv DEF Sound

\* A booking is deleted.
LEMMA DeleteInv == ASSUME IInv, NEW b \in Bookings, Delete(b) PROVE IInv' /\ About(b)
<1> DEFINE row == [booking[b] EXCEPT !.status = "deleted"]
<1>1. /\ ~Paid(b) /\ booking' = [booking EXCEPT ![b] = row] /\ session' = Closed(b, booking[b].session)
      /\ booking[b].status # "none"
      /\ now' = now /\ credit' = credit /\ heard' = heard /\ blocked' = blocked
  BY DEF Delete, Real
<1>2. Sound(b) /\ IsRow(booking[b])
  BY DEF IInv, Sound
<1>3. /\ IsRow(row) /\ row.status = "deleted" /\ row.method = booking[b].method
      /\ row.deadline = booking[b].deadline /\ row.session = booking[b].session
      /\ row.paid = booking[b].paid
  BY <1>2, StatusRow DEF Statuses
<1> HIDE DEF row
<1>4. /\ PerBooking(session') /\ session'[b] \in [Attempt -> {"unused", "open", "completed", "expired"}]
      /\ \A c \in Bookings \ {b} : session'[c] = session[c]
      /\ \A n \in Attempt : session'[b][n] \notin Live
  BY <1>1, ClosedIs
<1>5. About(b) /\ booking'[b] = row
  BY <1>1, <1>4 DEF About, Aside, IInv, PerBooking
<1>6. Entitled(b)
  BY <1>3, <1>5 DEF Entitled, HoldsSlot
<1>7. IsRow(booking[b])' /\ Fresh(b)' /\ Sessions(b)'
  BY <1>2, <1>3, <1>4, <1>5 DEF Sound, Fresh, Sessions, IsRow
<1>8. Money(b)' /\ Credited(b)'
  BY <1>1, <1>2, <1>3, <1>4, <1>5 DEF Sound, Money, Credited
<1> QED  BY <1>5, <1>6, <1>7, <1>8, AboutInv DEF Sound

\* A cancelled booking is turned into hours, or the hours taken back.
LEMMA CreditInv ==
  ASSUME IInv, NEW b \in Bookings, CancelCredit(b) \/ ReactivateCredit(b) PROVE IInv' /\ About(b)
<1>1. /\ booking' = booking /\ session' = session /\ now' = now /\ heard' = heard /\ blocked' = blocked
      /\ \/ credit' = [credit EXCEPT ![b] = "cancelled"] /\ credit[b] = "active"
         \/ /\ credit' = [credit EXCEPT ![b] = "active"] /\ credit[b] = "cancelled"
            /\ booking[b].status \in {"cancelled", "deleted"}
  BY DEF CancelCredit, ReactivateCredit
<1>2. About(b) /\ Entitled(b)
  BY <1>1 DEF About, Aside, Entitled, IInv, PerBooking
<1>3. Sound(b)
  BY DEF IInv
<1>4. IsRow(booking[b])' /\ Fresh(b)' /\ Sessions(b)' /\ Money(b)'
  BY <1>1, <1>3 DEF Sound, IsRow, Fresh, Sessions, Money, Payable
<1>5. Credited(b)'
  BY <1>1, <1>3 DEF Sound, Credited, IInv, PerBooking
<1> QED  BY <1>2, <1>4, <1>5, AboutInv DEF Sound

\* What the operator's move does: where the row goes from and to, the slot it
\* has then, and what becomes of its deadline and its credit.
LEMMA UpdateInv ==
  ASSUME IInv, NEW b \in Bookings, NEW s \in Slots \cup {NoSlot}, NEW to, NEW credited,
         Update(b, s, to, credited)
  PROVE  /\ IInv' /\ About(b)
         /\ to = "" /\ booking[b].status # "pending" => booking'[b].status = booking[b].status
<1> DEFINE
  moves == s # NoSlot
  slot == IF moves THEN s ELSE booking[b].slot
  takes == moves /\ booking[b].status \in HoldsSlot
  S1 == IF takes THEN Stale(slot) ELSE {}
  previous == StatusAfter(S1, b)
  new == IF to = "" THEN previous ELSE to
  enters == new \in HoldsSlot /\ previous \notin HoldsSlot
  S == IF enters THEN S1 \cup Stale(slot) ELSE S1
  row == [booking[b] EXCEPT !.status = new, !.slot = slot, !.deadline = DeadlineAfter(b, previous, new)]
<1>1. /\ booking[b].status \in Real /\ <<booking[b].status, new>> \in OperatorMoves
      /\ (takes \/ enters => ~Conflict(slot, b)) /\ Write(S, b, row)
      /\ now' = now /\ session' = session /\ heard' = heard /\ blocked' = blocked
  BY DEF Update
<1>2. \E D : IF new = "cancelled" /\ previous # "cancelled"
             THEN credit' = IF credited THEN CreditAfter(D, b, previous) ELSE credit
             ELSE ReverseCredit(D, b, previous, new)
  BY DEF Update
<1>3. Sound(b) /\ IsRow(booking[b]) /\ slot \in Slots \cup {NoSlot}
  BY DEF IInv, Sound, IsRow
<1>4. previous = booking[b].status \/ (previous = "expired" /\ booking[b].status = "pending")
  BY DEF StatusAfter, Stale, AllLapsed, Lapsed
<1>5. new \in Real /\ (to = "" /\ booking[b].status # "pending" => new = booking[b].status)
  BY <1>1, <1>4, MovesAreStatuses
<1>6. S \in SUBSET AllLapsed /\ (takes \/ enters => Stale(slot) \subseteq S)
  BY StaleLapsed
<1>7. slot = booking[b].slot \/ moves
  OBVIOUS
<1> DEFINE deadline == DeadlineAfter(b, previous, new)
<1>8. /\ new # "pending" => deadline = Never
      /\ new = "pending" /\ booking[b].method \in PaidAtCheckout /\ previous = "pending" =>
           deadline = booking[b].deadline
      /\ new = "pending" /\ booking[b].method \in PaidAtCheckout /\ previous # "pending" =>
           deadline = now + Hold
      /\ deadline \in Nat
  BY <1>3, StartsPositive DEF DeadlineAfter, Never, IsRow
<1>9. row \in [status: {new}, method: {booking[b].method}, slot: {slot}, share: {booking[b].share},
               deadline: {deadline}, session: {booking[b].session}, paid: {booking[b].paid}]
  BY <1>3 DEF IsRow
<1>10. moves /\ booking[b].status \in HoldsSlot => takes
  OBVIOUS
<1>11. new \in HoldsSlot /\ previous \notin HoldsSlot => enters
  OBVIOUS
<1> HIDE DEF row, deadline, S, new, previous, slot, S1, takes, enters, moves
<1>12. /\ row.status = new /\ row.method = booking[b].method /\ row.slot = slot
       /\ row.deadline = deadline /\ row.session = booking[b].session
       /\ row.paid = booking[b].paid /\ IsRow(row)
  BY <1>3, <1>5, <1>8, <1>9 DEF IsRow, Statuses, Real
<1>13. /\ credit' = [credit EXCEPT ![b] = credit'[b]]
       /\ \/ credit'[b] = credit[b]
             /\ (previous = "cancelled" /\ new \in HoldsHours => credit[b] = "none")
          \/ credit'[b] = "active" /\ new = "cancelled"
          \/ credit'[b] = "cancelled" /\ previous = "cancelled" /\ credit[b] # "none" /\ new \in HoldsHours
  <2>1. PICK D : IF new = "cancelled" /\ previous # "cancelled"
                 THEN credit' = IF credited THEN CreditAfter(D, b, previous) ELSE credit
                 ELSE ReverseCredit(D, b, previous, new)
    BY <1>2
  <2>2. CASE new = "cancelled" /\ previous # "cancelled"
    <3>1. credit' = CreditAfter(D, b, previous) \/ credit' = credit
      BY <2>1, <2>2
    <3> QED  BY <2>2, <3>1, CreditAfterIs DEF IInv, PerBooking
  <2>3. CASE ~(new = "cancelled" /\ previous # "cancelled")
    <3>1. ReverseCredit(D, b, previous, new)
      BY <2>1, <2>3
    <3> QED  BY <3>1 DEF ReverseCredit, IInv, PerBooking
  <2> QED  BY <2>2, <2>3
<1>14. About(b) /\ booking'[b] = row /\ \A c \in S \ {b} : booking'[c].status = "expired"
  <2>1. Frame(b)
    BY <1>1, <1>13 DEF Frame, IInv, PerBooking
  <2> QED  BY <1>1, <1>6, <2>1, WriteAbout
<1>15. Entitled(b)
  <2>1. CASE takes \/ enters
    BY <1>1, <1>6, <1>12, <1>14, <2>1 DEF Entitled
  <2>2. CASE ~takes /\ ~enters /\ new \in HoldsSlot
    <3>1. previous \in HoldsSlot /\ booking[b].status \in HoldsSlot
      BY <1>4, <1>11, <2>2 DEF HoldsSlot
    <3>2. slot = booking[b].slot
      BY <1>7, <1>10, <2>2, <3>1
    <3> QED  BY <1>12, <1>14, <3>1, <3>2 DEF Entitled
  <2>3. CASE new \notin HoldsSlot
    BY <1>12, <1>14, <2>3 DEF Entitled
  <2> QED  BY <2>1, <2>2, <2>3
<1>16. IsRow(booking[b])' /\ Fresh(b)' /\ Sessions(b)'
  BY <1>1, <1>3, <1>5, <1>12, <1>14 DEF Sound, Fresh, Sessions, IsRow, Real
<1>17. /\ KeepsPaid /\ new \in {"pending", "expired"} => booking[b].status \in {"pending", "expired"}
       /\ KeepsCredits /\ booking[b].status = "cancelled" => new \in {"cancelled", "confirmed", "completed"}
       /\ LeavesHolds => booking[b].status # "cancelled"
       /\ LeavesHolds /\ booking[b].status \in {"pending", "expired"} => new \in {"pending", "expired"}
       /\ KeepsCredits \/ LeavesHolds => KeepsPaid
  <2> DEFINE m == <<booking[b].status, new>>
  <2>1. m \in OperatorMoves /\ m[1] = booking[b].status /\ m[2] = new
    BY <1>1
  <2> HIDE DEF m
  <2> QED  BY <2>1 DEF KeepsPaid, KeepsCredits, LeavesHolds
<1>18. Money(b)'
  <2>1. ASSUME LeavesHolds, NEW n \in Attempt, session'[b][n] \in Live, booking[b].paid = Never
        PROVE  Payable(b)'
    <3>1. session[b][n] \in Live /\ Payable(b)
      BY <1>1, <1>3, <2>1 DEF Sound, Money
    <3>2. booking[b].method \in PaidAtCheckout
      BY <1>3, <3>1 DEF Sound, Sessions, Attempt
    <3>3. new \in {"pending", "expired"}
      BY <1>17, <2>1, <3>1 DEF Payable
    <3>4. new = "pending" => deadline # Never
      <4>1. previous = "pending" => booking[b].status = "pending"
        BY <1>4
      <4> QED  BY <1>8, <3>1, <3>2, <4>1, StartsPositive DEF Payable, Never
    <3> QED  BY <1>12, <1>14, <3>3, <3>4 DEF Payable
  <2>2. KeepsPaid /\ booking'[b].paid # Never =>
          booking'[b].status \notin {"pending", "expired"} /\ booking'[b].deadline = Never
    BY <1>3, <1>8, <1>12, <1>14, <1>17 DEF Sound, Money
  <2>3. LeavesHolds => \A n \in Attempt : <<b, n>> \in heard' => booking'[b].paid # Never
    BY <1>1, <1>3, <1>12, <1>14 DEF Sound, Money
  <2> QED  BY <1>12, <1>14, <2>1, <2>2, <2>3 DEF Money
<1>19. Credited(b)'
  <2>1. SUFFICES ASSUME KeepsCredits
                 PROVE  /\ new \in {"confirmed", "completed"} => deadline = Never
                        /\ credit'[b] # "none" =>
                             new \notin {"none", "pending", "expired"} /\ deadline = Never
                        /\ credit'[b] = "active" => new \in {"cancelled", "deleted"}
    BY <1>12, <1>14 DEF Credited
  <2>2. credit[b] # "none" => /\ booking[b].status \notin {"pending", "expired"}
                              /\ previous = booking[b].status
    BY <1>3, <1>4, <2>1 DEF Sound, Credited
  <2>3. credit[b] = "active" => booking[b].status = "cancelled"
    BY <1>1, <1>3, <2>1 DEF Sound, Credited, Real
  <2>4. new # "none"
    BY <1>5 DEF Real
  <2>5. credit'[b] # "none" => new \notin {"pending", "expired"}
    BY <1>13, <1>17, <2>1, <2>2 DEF HoldsHours
  <2>6. credit'[b] = "active" => new = "cancelled"
    BY <1>13, <1>17, <2>1, <2>2, <2>3 DEF HoldsHours
  <2> QED  BY <1>8, <2>4, <2>5, <2>6
<1>20. IInv'
  BY <1>14, <1>15, <1>16, <1>18, <1>19, AboutInv DEF Sound
<1> QED  BY <1>5, <1>12, <1>14, <1>20

-------------------------------------------------------------------------------
(* Steps about no booking, or about many.                                  *)

\* A step about no booking owes the invariant of the blocks only.
LEMMA AllAsideInv ==
  ASSUME IInv, \A c \in Bookings : Aside(c), now' = now, PerBooking(booking'), PerBooking(session'),
         PerBooking(credit'), blocked' \subseteq Slots,
         \A c \in Bookings : booking[c].status \in HoldsSlot /\ booking'[c] = booking[c] =>
           \A t \in blocked' : ~Overlap(booking[c].slot, t)
  PROVE  IInv'
<1>1. \A c \in Bookings : Sound(c)'
  BY AsideSound
<1>2. \A c \in Bookings : booking'[c].status \in HoldsSlot => booking'[c] = booking[c]
  BY AsideSlot
<1>3. SlotHeldOnce'
  <2>1. ASSUME NEW c \in Bookings, booking'[c].status \in HoldsSlot
        PROVE  /\ \A d \in Bookings \ {c} : booking'[d].status \in HoldsSlot =>
                    ~Overlap(booking'[c].slot, booking'[d].slot)
               /\ \A t \in blocked' : ~Overlap(booking'[c].slot, t)
    BY <1>2, <2>1 DEF IInv, SlotHeldOnce
  <2> QED  BY <2>1 DEF SlotHeldOnce, Overlap
<1> QED  BY <1>1, <1>3 DEF IInv

\* Holds that lapsed expire together.
LEMMA FlipAll ==
  ASSUME IInv, NEW S \in SUBSET AllLapsed,
         booking' = [b \in Bookings |-> [booking[b] EXCEPT !.status = StatusAfter(S, b)]],
         session' = session, credit' = credit, heard' = heard
  PROVE  /\ PerBooking(booking')
         /\ \A c \in Bookings : Aside(c) /\ (c \in S => booking'[c].status = "expired")
<1>1. ASSUME NEW c \in Bookings PROVE Aside(c) /\ (c \in S => booking'[c].status = "expired")
  <2>1. booking'[c] = [booking[c] EXCEPT !.status = StatusAfter(S, c)] /\ IsRow(booking[c])
    BY DEF IInv, Sound
  <2>2. CASE c \in S
    <3>1. Flips(c)
      BY <2>1, <2>2 DEF StatusAfter, Flips, AllLapsed
    <3>2. booking'[c] = [booking[c] EXCEPT !.status = "expired"] /\ IsRow(booking[c])
      BY <2>1, <3>1 DEF Flips
    <3>3. booking'[c].status = "expired"
      BY <3>2, FlipIsRow
    <3> QED  BY <3>1, <3>3 DEF Aside
  <2>3. CASE c \notin S
    <3>1. booking'[c] = booking[c]
      BY <2>1, <2>3 DEF StatusAfter, IsRow
    <3> QED  BY <2>3, <3>1 DEF Aside
  <2> QED  BY <2>2, <2>3
<1>2. PerBooking(booking')
  BY DEF PerBooking
<1> QED  BY <1>1, <1>2

\* The sweeper flips what has lapsed.
LEMMA SweepInv == ASSUME IInv, Sweep PROVE IInv' /\ \A c \in Bookings : Aside(c)
<1>1. PerBooking(booking') /\ \A c \in Bookings : Aside(c)
  BY FlipAll DEF Sweep
<1>2. \A c \in Bookings : booking[c].status \in HoldsSlot => \A t \in blocked : ~Overlap(booking[c].slot, t)
  BY DEF IInv, SlotHeldOnce
<1>3. IInv'
  BY <1>1, <1>2, AllAsideInv DEF Sweep, IInv
<1> QED  BY <1>1, <1>3

\* A block makes lapsed holds way for it, and needs the live ones gone.
LEMMA BlockInv ==
  ASSUME IInv, NEW B, NEW s \in Slots, Block(B, s) PROVE IInv' /\ \A c \in Bookings : Aside(c)
<1>1. /\ PerBooking(booking')
      /\ \A c \in Bookings : Aside(c) /\ (c \in Stale(s) => booking'[c].status = "expired")
  BY FlipAll, StaleLapsed DEF Block
<1>2. ASSUME NEW c \in Bookings, booking[c].status \in HoldsSlot, booking'[c] = booking[c], NEW t \in blocked'
      PROVE  ~Overlap(booking[c].slot, t)
  <2>1. CASE t \in blocked
    BY <1>2, <2>1 DEF IInv, SlotHeldOnce
  <2>2. CASE t = s
    <3>1. c \notin Stale(s)
      BY <1>1, <1>2 DEF HoldsSlot
    <3>2. Holds(c) \/ Lapsed(c)
      BY <1>2 DEF Holds, HoldsSlot
    <3> QED  BY <2>2, <3>1, <3>2 DEF Block, Stale, AllLapsed
  <2> QED  BY <1>2, <2>1, <2>2 DEF Block
<1>3. IInv'
  BY <1>1, <1>2, AllAsideInv DEF Block, IInv
<1> QED  BY <1>1, <1>3

\* A block is taken away.
LEMMA UnblockInv == ASSUME IInv, NEW s, Unblock(s) PROVE IInv' /\ \A c \in Bookings : Aside(c)
<1>1. \A c \in Bookings : Aside(c)
  BY DEF Unblock, Aside
<1>2. \A c \in Bookings : booking[c].status \in HoldsSlot => \A t \in blocked' : ~Overlap(booking[c].slot, t)
  BY DEF IInv, SlotHeldOnce, Unblock
<1>3. IInv'
  BY <1>1, <1>2, AllAsideInv DEF Unblock, IInv
<1> QED  BY <1>1, <1>3

\* The clock may go on.
LEMMA SameInv ==
  ASSUME IInv, booking' = booking, session' = session, credit' = credit, heard' = heard,
         blocked' = blocked, now' \in Nat \ {0}
  PROVE  IInv'
<1>1. ASSUME NEW c \in Bookings PROVE Sound(c)'
  BY DEF IInv, Sound, IsRow, Fresh, Sessions, Money, Credited, Payable
<1>2. SlotHeldOnce'
  BY DEF IInv, SlotHeldOnce
<1> QED  BY <1>1, <1>2 DEF IInv

\* No bookings to begin with.
LEMMA InitInv == Init => IInv
<1> SUFFICES ASSUME Init PROVE IInv
  OBVIOUS
<1>1. ASSUME NEW b \in Bookings PROVE Sound(b)
  <2>1. booking[b] = [status |-> "none", method |-> "hourly", slot |-> NoSlot, share |-> 0,
                      deadline |-> Never, session |-> 0, paid |-> Never]
    BY DEF Init
  <2>2. IsRow(booking[b])
    BY <2>1, TimesArePositive DEF IsRow, Statuses, Methods, Never
  <2>3. session[b] = [n \in Attempt |-> "unused"] /\ credit[b] = "none" /\ heard = {}
    BY DEF Init
  <2>4. Fresh(b) /\ Sessions(b) /\ Money(b) /\ Credited(b)
    BY <2>1, <2>3 DEF Fresh, Sessions, Money, Credited, Live
  <2> QED  BY <2>2, <2>4 DEF Sound
<1>2. SlotHeldOnce
  BY DEF Init, SlotHeldOnce, HoldsSlot
<1>3. PerBooking(booking) /\ PerBooking(session) /\ PerBooking(credit)
  BY DEF Init, PerBooking
<1> QED  BY <1>1, <1>2, <1>3 DEF Init, IInv

\* Every step, one by one.
LEMMA BookingStep ==
  ASSUME IInv, NEW b \in Bookings, Customer(b) \/ Operator(b) \/ \E n \in Attempt : Provider(b, n)
  PROVE  IInv' /\ About(b)
<1>1. CASE Customer(b)
  BY <1>1, CreateInv, CancelInv, ResumeInv DEF Customer
<1>2. CASE Operator(b)
  <2>1. ASSUME NEW s \in Slots \cup {NoSlot}, NEW to, NEW credited, Update(b, s, to, credited)
        PROVE  IInv' /\ About(b)
    BY <2>1, UpdateInv
  <2> QED  BY <1>2, <2>1, MarkPaidInv, DeleteInv, AdminCreateInv, CreditInv DEF Operator
<1>3. CASE \E n \in Attempt : Provider(b, n)
  BY <1>3, ProviderInv, HearCompletedInv, LetGoInv DEF Provider
<1> QED  BY <1>1, <1>2, <1>3

\* No step breaks the invariant.
LEMMA NextInv == IInv /\ [Next]_vars => IInv'
<1> SUFFICES ASSUME IInv, [Next]_vars PROVE IInv'
  OBVIOUS
<1>1. ASSUME NEW b \in Bookings, Customer(b) \/ Operator(b) \/ \E n \in Attempt : Provider(b, n)
      PROVE  IInv'
  BY <1>1, BookingStep
<1>2. ASSUME NEW s \in Slots, Block({}, s) \/ Unblock(s) \/ \E t \in blocked : Block({t}, s) PROVE IInv'
  BY <1>2, BlockInv, UnblockInv
<1>3. CASE Sweep
  BY <1>3, SweepInv
<1>4. CASE Tick
  BY <1>4, SameInv DEF Tick, IInv
<1>5. CASE UNCHANGED vars
  BY <1>5, SameInv DEF vars, IInv
<1> QED  BY <1>1, <1>2, <1>3, <1>4, <1>5 DEF Next

-------------------------------------------------------------------------------
(* What a step may not do.                                                 *)

\* A booking that is not pending changes its status by one of these only.
LEMMA StatusChanges ==
  ASSUME IInv, Next, NEW b \in Bookings,
         booking[b].status \notin {"none", "pending", "expired"},
         booking'[b].status # booking[b].status
  PROVE  \/ Cancel(b) \/ Delete(b) \/ Payable(b)
         \/ \E s \in Slots \cup {NoSlot}, to \in Real, credited \in BOOLEAN : Update(b, s, to, credited)
<1>1. ~Aside(b)
  BY DEF Aside, Flips, Lapsed
<1>2. ASSUME NEW c \in Bookings, Customer(c) \/ Operator(c) \/ \E n \in Attempt : Provider(c, n)
      PROVE  c = b
  BY <1>1, <1>2, BookingStep DEF About
<1>3. CASE Customer(b)
  BY <1>3 DEF Customer, Create, Resume
<1>4. CASE Operator(b)
  <2>1. ASSUME NEW s \in Slots \cup {NoSlot}, NEW to \in Real \cup {""}, NEW credited \in BOOLEAN,
               Update(b, s, to, credited)
        PROVE  to \in Real
    BY <2>1, UpdateInv
  <2>2. ~MarkPaid(b) /\ \A s : ~AdminCreate(b, s)
    BY DEF MarkPaid, AdminCreate
  <2>3. ~CancelCredit(b) /\ ~ReactivateCredit(b)
    BY DEF CancelCredit, ReactivateCredit
  <2> QED  BY <1>4, <2>1, <2>2, <2>3 DEF Operator
<1>5. ASSUME NEW n \in Attempt, Provider(b, n) PROVE Payable(b)
  BY <1>5 DEF Provider, Pay, SessionExpires, HearCompleted, LetGo, Forgo
<1>6. ~Sweep /\ ~Tick /\ \A s \in Slots : ~Unblock(s) /\ \A B : ~Block(B, s)
  BY <1>1, SweepInv, BlockInv, UnblockInv DEF Tick
<1> QED  BY <1>2, <1>3, <1>4, <1>5, <1>6 DEF Next

\* What takes a confirmed booking away.
LEMMA ConfirmedStep ==
  ASSUME IInv, Next, NEW b \in Bookings, booking[b].status = "confirmed", booking'[b].status # "confirmed"
  PROVE  \/ Cancel(b) \/ Delete(b)
         \/ \E s \in Slots \cup {NoSlot}, to \in Real, credited \in BOOLEAN : Update(b, s, to, credited)
  BY StatusChanges DEF Payable

\* What brings a cancelled and paid booking back.
LEMMA CancelledStep ==
  ASSUME KeepsPaid, IInv, Next, NEW b \in Bookings, booking[b].status = "cancelled", booking[b].paid # Never,
         booking'[b].status \notin {"cancelled", "deleted"}
  PROVE  \E s \in Slots \cup {NoSlot}, to \in Real, credited \in BOOLEAN : Update(b, s, to, credited)
<1>1. ~Payable(b)
  BY DEF IInv, Sound, Money, Payable
<1>2. ~Cancel(b)
  BY DEF Cancel, HoldsSlot
<1>3. ~Delete(b)
  <2>1. ASSUME Delete(b) PROVE booking'[b].status = "deleted"
    BY <2>1, StatusRow DEF Delete, IInv, Sound, PerBooking, Statuses
  <2> QED  BY <2>1
<1> QED  BY <1>1, <1>2, <1>3, StatusChanges

-------------------------------------------------------------------------------
(* The calendar.                                                           *)

\* The hours booking b has.
Has(b) == IF Holds(b) THEN booking[b].slot ELSE {}

HolderFits == \A h \in UNION Slots :
  /\ Holder[h] \in Bookings \cup {"blocked", "free"}
  /\ Holder[h] = "blocked" <=> \E s \in blocked : h \in s
  /\ \A b \in Bookings : Holder[h] = b <=> h \in Has(b)

\* No two have an hour, so the choice in Holder is no choice.
LEMMA HolderIs == IInv => HolderFits
<1> SUFFICES ASSUME IInv, NEW h \in UNION Slots
             PROVE  /\ Holder[h] \in Bookings \cup {"blocked", "free"}
                    /\ Holder[h] = "blocked" <=> \E s \in blocked : h \in s
                    /\ \A b \in Bookings : Holder[h] = b <=> h \in Has(b)
  BY DEF HolderFits
<1>1. \A b \in Bookings : h \in Has(b) <=> Holds(b) /\ h \in booking[b].slot
  BY DEF Has
<1>2. ASSUME NEW b \in Bookings, NEW c \in Bookings, h \in Has(b), h \in Has(c) PROVE b = c
  BY <1>1, <1>2 DEF IInv, SlotHeldOnce, Overlap, Holds, HoldsSlot
<1>3. ASSUME NEW b \in Bookings, NEW s \in blocked, h \in Has(b), h \in s PROVE FALSE
  BY <1>1, <1>3 DEF IInv, SlotHeldOnce, Overlap, Holds, HoldsSlot
<1>4. CASE \E s \in blocked : h \in s
  BY <1>3, <1>4, NamesDiffer DEF Holder
<1>5. CASE (~\E s \in blocked : h \in s) /\ \E b \in Bookings : h \in Has(b)
  <2>1. PICK b \in Bookings : Holds(b) /\ h \in booking[b].slot
    BY <1>1, <1>5
  <2>2. Holder[h] = CHOOSE c \in Bookings : Holds(c) /\ h \in booking[c].slot
    BY <1>5, <2>1 DEF Holder
  <2>3. Holder[h] \in Bookings /\ h \in Has(Holder[h])
    BY <1>1, <2>1, <2>2
  <2> QED  BY <1>2, <1>5, <2>3, NamesDiffer
<1>6. CASE (~\E s \in blocked : h \in s) /\ ~\E b \in Bookings : h \in Has(b)
  BY <1>1, <1>6, NamesDiffer DEF Holder
<1> QED  BY <1>4, <1>5, <1>6

\* Nor is it after a step.
LEMMA HolderIsNext == IInv' => HolderFits'
  BY HolderIs, PTL

\* A booking a step is not about keeps the hours it has.
LEMMA AsideHas ==
  ASSUME IInv, now' = now, NEW c \in Bookings, Aside(c) PROVE Has(c)' = Has(c)
<1>1. CASE booking'[c] = booking[c]
  BY <1>1 DEF Has, Holds, Lapsed
<1>2. CASE Flips(c)
  <2>1. ~Holds(c)
    BY <1>2 DEF Flips, Holds, Lapsed
  <2>2. booking'[c] = [booking[c] EXCEPT !.status = "expired"] /\ IsRow(booking[c])
    BY <1>2 DEF Flips, IInv, Sound
  <2>3. booking'[c].status = "expired"
    BY <2>2, FlipIsRow
  <2> QED  BY <2>1, <2>3 DEF Has, Holds
<1> QED  BY <1>1, <1>2 DEF Aside

\* One booking takes a slot, leaves it or moves.
LEMMA TakeStep ==
  ASSUME HolderFits, HolderFits', blocked' = blocked, NEW b \in Bookings,
         \A c \in Bookings \ {b} : Has(c)' = Has(c), Has(b)' \in Slots \cup {{}}
  PROVE  Calendar!Next
<1> DEFINE H == Has(b)'
<1>1. ASSUME NEW h \in H PROVE Holder[h] \in {"free", b}
  <2>1. h \in UNION Slots
    BY <1>1
  <2> QED  BY <1>1, <2>1, NamesDiffer DEF HolderFits
<1>2. ASSUME NEW h \in UNION Slots
      PROVE  Holder'[h] = IF h \in H THEN b ELSE IF Holder[h] = b THEN "free" ELSE Holder[h]
  BY <1>2, NamesDiffer DEF HolderFits
<1>3. Holder' = [h \in UNION Slots |-> IF h \in H THEN b ELSE IF Holder[h] = b THEN "free" ELSE Holder[h]]
  <2>1. Holder' = [h \in UNION Slots |-> Holder'[h]]
    BY DEF Holder
  <2> HIDE DEF H
  <2> QED  BY <1>2, <2>1
<1> HIDE DEF H
<1>4. Calendar!Take(b, H)
  BY <1>1, <1>3 DEF Calendar!Take, Calendar!Hours
<1> QED  BY <1>4 DEF Calendar!Next, H

\* The operator's blocks, put, moved and taken away.
LEMMA BlockedStep ==
  ASSUME HolderFits, HolderFits', blocked' \subseteq Slots, \A c \in Bookings : Has(c)' = Has(c)
  PROVE  Calendar!Next
<1> DEFINE H == UNION blocked'
<1>1. ASSUME NEW h \in H PROVE Holder[h] \in {"free", "blocked"}
  <2>1. h \in UNION Slots
    BY <1>1
  <2> QED  BY <1>1, <2>1, NamesDiffer DEF HolderFits
<1>2. ASSUME NEW h \in UNION Slots
      PROVE  Holder'[h] = IF h \in H THEN "blocked" ELSE IF Holder[h] = "blocked" THEN "free" ELSE Holder[h]
  <2>1. h \in H <=> Holder'[h] = "blocked"
    BY <1>2 DEF HolderFits
  <2>2. Holder[h] \in Bookings => Holder'[h] = Holder[h]
    BY <1>2 DEF HolderFits
  <2>3. Holder'[h] \in Bookings => Holder'[h] = Holder[h]
    BY <1>2 DEF HolderFits
  <2>4. Holder[h] \in Bookings \cup {"blocked", "free"} /\ Holder'[h] \in Bookings \cup {"blocked", "free"}
    BY <1>2 DEF HolderFits
  <2> HIDE DEF H
  <2> QED  BY <2>1, <2>2, <2>3, <2>4, NamesDiffer
<1>3. Holder' = [h \in UNION Slots |->
                   IF h \in H THEN "blocked" ELSE IF Holder[h] = "blocked" THEN "free" ELSE Holder[h]]
  <2>1. Holder' = [h \in UNION Slots |-> Holder'[h]]
    BY DEF Holder
  <2> HIDE DEF H
  <2> QED  BY <1>2, <2>1
<1>4. Calendar!Take("blocked", H)
  <2> HIDE DEF H
  <2> QED  BY <1>1, <1>3 DEF Calendar!Take, Calendar!Hours
<1> QED  BY <1>4 DEF Calendar!Next

\* The deadlines that pass with the clock.
LEMMA TickStep == ASSUME IInv, HolderFits, HolderFits', Tick PROVE Calendar!Next
<1> DEFINE S == {c \in Bookings : Has(c)' # Has(c)}
<1>1. ASSUME NEW c \in Bookings PROVE Has(c)' = Has(c) \/ Has(c)' = {}
  <2>1. Lapsed(c) => Lapsed(c)'
    BY DEF Tick, Lapsed, IInv, Sound, IsRow
  <2> QED  BY <2>1 DEF Has, Holds, Tick
<1>2. ASSUME NEW h \in UNION Slots PROVE Holder'[h] = IF Holder[h] \in S THEN "free" ELSE Holder[h]
  <2>1. Holder'[h] = "blocked" <=> Holder[h] = "blocked"
    BY <1>2 DEF HolderFits, Tick
  <2>2. \A c \in Bookings : Holder'[h] = c => Holder[h] = c /\ c \notin S
    BY <1>1, <1>2 DEF HolderFits
  <2>3. \A c \in Bookings : Holder[h] = c /\ c \notin S => Holder'[h] = c
    BY <1>2 DEF HolderFits
  <2>4. Holder[h] \in Bookings \cup {"blocked", "free"} /\ Holder'[h] \in Bookings \cup {"blocked", "free"}
    BY <1>2 DEF HolderFits
  <2>5. S \subseteq Bookings
    OBVIOUS
  <2> HIDE DEF S
  <2> QED  BY <2>1, <2>2, <2>3, <2>4, <2>5, NamesDiffer
<1>3. Holder' = [h \in UNION Slots |-> IF Holder[h] \in S THEN "free" ELSE Holder[h]]
  <2>1. Holder' = [h \in UNION Slots |-> Holder'[h]]
    BY DEF Holder
  <2> HIDE DEF S
  <2> QED  BY <1>2, <2>1
<1>4. S \in SUBSET Bookings
  OBVIOUS
<1> HIDE DEF S
<1> QED  BY <1>3, <1>4 DEF Calendar!Next, Calendar!LetGo, Calendar!Hours

\* Every step is a Take of one booking, a Take of the blocks, or a LetGo.
LEMMA CalendarStep == IInv /\ IInv' /\ [Next]_vars => [Calendar!Next]_Holder
<1> SUFFICES ASSUME IInv, IInv', [Next]_vars PROVE Calendar!Next \/ Holder' = Holder
  OBVIOUS
<1>1. HolderFits /\ HolderFits'
  BY HolderIs, HolderIsNext
<1>2. ASSUME NEW b \in Bookings, Customer(b) \/ Operator(b) \/ \E n \in Attempt : Provider(b, n)
      PROVE  Calendar!Next
  <2>1. About(b)
    BY <1>2, BookingStep
  <2>2. \A c \in Bookings \ {b} : Has(c)' = Has(c)
    BY <2>1, AsideHas DEF About
  <2>3. Has(b)' \in Slots \cup {{}}
    BY DEF IInv, Sound, IsRow, Has, NoSlot
  <2> QED  BY <1>1, <2>1, <2>2, <2>3, TakeStep DEF About
<1>3. ASSUME \A c \in Bookings : Aside(c), now' = now PROVE Calendar!Next
  <2>1. \A c \in Bookings : Has(c)' = Has(c)
    BY <1>3, AsideHas
  <2> QED  BY <1>1, <2>1, BlockedStep DEF IInv
<1>4. ASSUME NEW s \in Slots, NEW B, Block(B, s) \/ Unblock(s) PROVE Calendar!Next
  <2>1. \A c \in Bookings : Aside(c)
    BY <1>4, BlockInv, UnblockInv
  <2> QED  BY <1>3, <1>4, <2>1 DEF Block, Unblock
<1>5. CASE Sweep
  <2>1. \A c \in Bookings : Aside(c)
    BY <1>5, SweepInv
  <2> QED  BY <1>3, <1>5, <2>1 DEF Sweep
<1>6. CASE Tick
  BY <1>1, <1>6, TickStep
<1>7. CASE UNCHANGED vars
  BY <1>7 DEF vars, Holder, Holds, Lapsed
<1> QED  BY <1>2, <1>4, <1>5, <1>6, <1>7 DEF Next

\* The calendar begins free.
LEMMA CalendarInit == Init => Calendar!Init
  BY DEF Init, Calendar!Init, Calendar!Hours, Holder, Holds, Lapsed

-------------------------------------------------------------------------------
(* The hours: a second invariant, which stands on the first.  A status that *)
(* enters or leaves those that hold hours takes or returns the booking's    *)
(* share, so no source is drawn on beyond what it has.                      *)

\* What the ledger and the credits say of each other and of the rows.
HoursInv ==
  /\ TypeOK /\ ShareFollowsStatus /\ BankNeverOverdrawn
  /\ \A b \in Bookings : credit[b] = "none" => Used(debit, b) = 0
  /\ \A b \in Bookings : booking[b].status = "none" => credit[b] = "none"

Ledgers == [Bookings -> [Sources -> 0 .. Len]]

\* No source is overdrawn in ledger D, and no credit drawn on that is none.
Fits(D) ==
  /\ D \in Ledgers /\ Used(D, Pack) <= PackHours
  /\ \A p \in Bookings : Used(D, p) <= CreditHours(p) /\ (credit[p] = "none" => Used(D, p) = 0)

\* What booking b has in a ledger after the holds of S gave theirs back: what
\* it had, nothing, or hours that were left.
Gets(S, b, d) ==
  /\ d \in [Sources -> 0 .. Len]
  /\ \/ d \in {NoHours, Without(S)[b]}
     \/ Without(S)[b] = NoHours /\ \A p \in Sources : d[p] <= Left(Without(S), p)

\* There are finitely many sources, and the pack is not one of the bookings.
LEMMA SourcesAre ==
  /\ IsFiniteSet(Sources) /\ IsFiniteSet(Bookings) /\ Bookings \subseteq Sources
  /\ Pack \in Sources /\ Len \in Nat \ {0} /\ PackHours \in Nat
  /\ NoHours \in [Sources -> 0 .. Len] /\ \A p \in Sources : NoHours[p] = 0
  BY BookingsAreFinite, FS_AddElement, TimesArePositive DEF Sources, NoHours

\* The hours of a booking are natural numbers, and add up to 0 only if all are.
LEMMA HoursAdd ==
  ASSUME NEW d \in [Sources -> 0 .. Len]
  PROVE  /\ SumFunction(d) \in Nat /\ \A p \in Sources : d[p] \in Nat /\ d[p] <= SumFunction(d)
         /\ SumFunction(d) = 0 <=> d = NoHours
<1>1. SumFunction(d) = SumFunctionOnSet(d, Sources)
  BY SumOfFunction
<1>2. \A p \in Sources : d[p] \in Nat
  BY SourcesAre
<1>3. SumFunction(d) \in Nat /\ \A p \in Sources : d[p] <= SumFunction(d)
  BY <1>1, <1>2, SourcesAre, SumCovers
<1>4. ASSUME SumFunction(d) = 0 PROVE d = NoHours
  <2>1. \A p \in Sources : d[p] = 0
    BY <1>2, <1>3, <1>4
  <2> QED  BY <2>1 DEF NoHours
<1>5. ASSUME d = NoHours PROVE SumFunction(d) = 0
  BY <1>1, <1>5, SourcesAre, SumOfZeros
<1> QED  BY <1>2, <1>3, <1>4, <1>5

\* What is debited from a source.
LEMMA UsedIs ==
  ASSUME NEW D \in Ledgers, NEW p \in Sources
  PROVE  /\ Used(D, p) = SumFunctionOnSet([b \in Bookings |-> D[b][p]], Bookings)
         /\ Used(D, p) \in Nat /\ \A b \in Bookings : D[b][p] \in Nat /\ D[b][p] <= Used(D, p)
<1> DEFINE f == [b \in Bookings |-> D[b][p]]
<1>1. \A b \in Bookings : f[b] = D[b][p] /\ f[b] \in Nat
  BY SourcesAre DEF Ledgers
<1>2. SumFunction(f) = SumFunctionOnSet(f, Bookings)
  BY SumOfFunction
<1> HIDE DEF f
<1>3. SumFunctionOnSet(f, Bookings) \in Nat /\ \A b \in Bookings : f[b] <= SumFunctionOnSet(f, Bookings)
  BY <1>1, SourcesAre, SumCovers
<1>4. Used(D, p) = SumFunction(f)
  BY DEF Used, f
<1> QED  BY <1>1, <1>2, <1>3, <1>4 DEF f

\* Less is debited from it when no booking has more of it.
LEMMA UsedFalls ==
  ASSUME NEW D \in Ledgers, NEW E \in Ledgers, NEW p \in Sources, \A b \in Bookings : E[b][p] <= D[b][p]
  PROVE  Used(E, p) <= Used(D, p)
<1> DEFINE f == [b \in Bookings |-> D[b][p]]
           g == [b \in Bookings |-> E[b][p]]
           h == [b \in Bookings |-> D[b][p] - E[b][p]]
<1>1. \A b \in Bookings : f[b] \in Nat /\ g[b] \in Nat /\ h[b] \in Nat /\ h[b] = f[b] - g[b]
  BY SourcesAre DEF Ledgers
<1>2. /\ Used(D, p) = SumFunctionOnSet(f, Bookings) /\ Used(D, p) \in Nat
      /\ Used(E, p) = SumFunctionOnSet(g, Bookings) /\ Used(E, p) \in Nat
  BY UsedIs
<1> HIDE DEF f, g, h
<1>3. SumFunctionOnSet(h, Bookings) \in Nat
  BY <1>1, SourcesAre, SumCovers
<1>4. Numeric(f, Bookings) /\ Numeric(g, Bookings)
  BY <1>1 DEF Numeric
<1>5. SumFunctionOnSet(h, Bookings) = SumFunctionOnSet(f, Bookings) - SumFunctionOnSet(g, Bookings)
  BY <1>1, <1>4, SourcesAre, SumSubtracts
<1> QED  BY <1>2, <1>3, <1>5

\* A booking that had none of it takes hours of it.
LEMMA UsedGives ==
  ASSUME NEW D \in Ledgers, NEW b \in Bookings, D[b] = NoHours, NEW d \in [Sources -> 0 .. Len],
         NEW p \in Sources
  PROVE  Used([D EXCEPT ![b] = d], p) = Used(D, p) + d[p]
<1> DEFINE E == [D EXCEPT ![b] = d]
           f == [c \in Bookings |-> D[c][p]]
           g == [c \in Bookings |-> E[c][p]]
<1>1. d[p] \in Int /\ D[b][p] = 0 /\ E \in Ledgers
  BY SourcesAre DEF Ledgers
<1>2. ASSUME NEW c \in Bookings PROVE f[c] \in Int /\ g[c] = IF c = b THEN f[c] + d[p] ELSE f[c]
  <2>1. D[c][p] \in Int /\ E[c] = IF c = b THEN d ELSE D[c]
    BY <1>2, SourcesAre DEF Ledgers
  <2> HIDE DEF E
  <2> QED  BY <1>1, <1>2, <2>1
<1>3. Used(D, p) = SumFunctionOnSet(f, Bookings) /\ Used(E, p) = SumFunctionOnSet(g, Bookings)
  <2> HIDE DEF E
  <2> QED  BY <1>1, UsedIs
<1> HIDE DEF f, g, E
<1>4. Numeric(f, Bookings)
  BY <1>2 DEF Numeric
<1>5. ASSUME NEW x \in Int, x = d[p] PROVE SumFunctionOnSet(g, Bookings) = SumFunctionOnSet(f, Bookings) + x
  BY <1>2, <1>4, <1>5, SourcesAre, SumUpdates
<1>6. Used(E, p) = Used(D, p) + d[p]
  BY <1>1, <1>3, <1>5
<1> QED  BY <1>6 DEF E

\* What a booking did not have of the bank is a credit's worth.
LEMMA CreditHoursIs == ASSUME HoursInv, NEW b \in Bookings PROVE CreditHours(b) \in 0 .. Len
  BY SourcesAre DEF HoursInv, TypeOK, BookingRow, CreditHours

\* Expiries give hours back and take none.
LEMMA WithoutFits ==
  ASSUME HoursInv, NEW S
  PROVE  /\ debit \in Ledgers /\ Without(S) \in Ledgers /\ Fits(Without(S))
         /\ \A p \in Sources : Used(Without(S), p) \in Nat /\ Left(Without(S), p) \in Nat
<1>1. debit \in Ledgers
  BY DEF HoursInv, TypeOK, Ledgers
<1>2. Without(S) \in Ledgers
  BY <1>1, SourcesAre DEF Without, Ledgers
<1>3. ASSUME NEW p \in Sources
      PROVE  Used(Without(S), p) \in Nat /\ Used(debit, p) \in Nat /\ Used(Without(S), p) <= Used(debit, p)
  <2>1. \A b \in Bookings : Without(S)[b][p] <= debit[b][p]
    <3>1. ASSUME NEW b \in Bookings PROVE Without(S)[b][p] <= debit[b][p]
      <4>1. debit[b][p] \in Nat /\ NoHours[p] = 0
        BY <1>1, <1>3, <3>1, SourcesAre, UsedIs
      <4>2. Without(S)[b] = NoHours \/ Without(S)[b] = debit[b]
        BY <3>1 DEF Without
      <4> QED  BY <4>1, <4>2
    <3> QED  BY <3>1
  <2> QED  BY <1>1, <1>2, <1>3, <2>1, UsedFalls, UsedIs
<1>4. Used(debit, Pack) <= PackHours /\ \A p \in Bookings : Used(debit, p) <= CreditHours(p)
  BY DEF HoursInv, BankNeverOverdrawn
<1>5. \A p \in Bookings : CreditHours(p) \in Nat
  BY CreditHoursIs, SourcesAre
<1>6. Used(Without(S), Pack) <= PackHours
  BY <1>3, <1>4, SourcesAre
<1>7. ASSUME NEW p \in Bookings
      PROVE  Used(Without(S), p) <= CreditHours(p) /\ (credit[p] = "none" => Used(Without(S), p) = 0)
  BY <1>3, <1>4, <1>5, <1>7, SourcesAre DEF HoursInv
<1>8. ASSUME NEW p \in Sources PROVE Left(Without(S), p) \in Nat
  BY <1>3, <1>5, <1>6, <1>7, <1>8, SourcesAre DEF Left, Sources
<1> QED  BY <1>1, <1>2, <1>3, <1>6, <1>7, <1>8 DEF Fits

\* What a handler draws was left.
LEMMA GetsFits ==
  ASSUME HoursInv, NEW S, NEW b \in Bookings, NEW d, Gets(S, b, d)
  PROVE  Fits([Without(S) EXCEPT ![b] = d])
<1> DEFINE W == Without(S)
           E == [W EXCEPT ![b] = d]
<1>1. /\ W \in Ledgers /\ Fits(W)
      /\ \A p \in Sources : Used(W, p) \in Nat /\ Left(W, p) \in Nat
  BY WithoutFits
<1>2. d \in [Sources -> 0 .. Len] /\ E = [W EXCEPT ![b] = d]
  BY DEF Gets
<1>3. SUFFICES Fits(E)
  OBVIOUS
<1> HIDE DEF W, E
<1>4. E \in Ledgers /\ E[b] = d /\ \A c \in Bookings \ {b} : E[c] = W[c]
  BY <1>1, <1>2 DEF Ledgers
<1>5. CASE d \in {NoHours, W[b]}
  <2>1. ASSUME NEW p \in Sources PROVE Used(E, p) <= Used(W, p) /\ Used(E, p) \in Nat
    <3>1. \A c \in Bookings : E[c][p] <= W[c][p]
      <4>1. ASSUME NEW c \in Bookings PROVE E[c][p] <= W[c][p]
        <5>1. W[c][p] \in Nat /\ NoHours[p] = 0
          BY <1>1, <2>1, <4>1, SourcesAre, UsedIs
        <5>2. E[c] = NoHours \/ E[c] = W[c]
          BY <1>4, <1>5, <4>1
        <5> QED  BY <5>1, <5>2
      <4> QED  BY <4>1
    <3> QED  BY <1>1, <1>4, <2>1, <3>1, UsedFalls, UsedIs
  <2>2. Used(E, Pack) <= PackHours
    <3>1. Used(W, Pack) \in Nat /\ Used(W, Pack) <= PackHours /\ Pack \in Sources /\ PackHours \in Nat
      BY <1>1, SourcesAre DEF Fits
    <3>2. Used(E, Pack) <= Used(W, Pack) /\ Used(E, Pack) \in Nat
      BY <2>1, <3>1
    <3> QED  BY <3>1, <3>2
  <2>3. ASSUME NEW p \in Bookings
        PROVE  Used(E, p) <= CreditHours(p) /\ (credit[p] = "none" => Used(E, p) = 0)
    <3>1. /\ p \in Sources /\ Used(W, p) \in Nat /\ CreditHours(p) \in Int
          /\ Used(W, p) <= CreditHours(p) /\ (credit[p] = "none" => Used(W, p) = 0)
      BY <1>1, <2>3, CreditHoursIs, SourcesAre DEF Fits
    <3>2. Used(E, p) <= Used(W, p) /\ Used(E, p) \in Nat
      BY <2>1, <3>1
    <3> QED  BY <3>1, <3>2
  <2> QED  BY <1>4, <2>2, <2>3 DEF Fits
<1>6. CASE W[b] = NoHours /\ \A p \in Sources : d[p] <= Left(W, p)
  <2>1. ASSUME NEW p \in Sources
        PROVE  Used(E, p) = Used(W, p) + d[p] /\ d[p] \in Nat /\ d[p] <= Left(W, p)
    <3>1. E[b][p] = d[p] /\ d[p] \in Nat /\ d[p] <= Left(W, p)
      BY <1>2, <1>4, <1>6, <2>1, SourcesAre
    <3>2. Used([W EXCEPT ![b] = d], p) = Used(W, p) + d[p]
      <4>1. W \in Ledgers /\ W[b] = NoHours /\ d \in [Sources -> 0 .. Len] /\ p \in Sources /\ b \in Bookings
        BY <1>1, <1>2, <1>6, <2>1
      <4> QED  BY ONLY <4>1, UsedGives
    <3> QED  BY <1>2, <3>1, <3>2
  <2>2. Used(E, Pack) <= PackHours
    <3>1. Pack \in Sources /\ Left(W, Pack) = PackHours - Used(W, Pack) /\ PackHours \in Nat
      BY SourcesAre DEF Left
    <3>2. /\ Used(E, Pack) = Used(W, Pack) + d[Pack] /\ d[Pack] \in Nat
          /\ d[Pack] <= Left(W, Pack) /\ Used(W, Pack) \in Nat
      BY <1>1, <2>1, <3>1
    <3> QED  BY <3>1, <3>2
  <2>3. ASSUME NEW p \in Bookings
        PROVE  Used(E, p) <= CreditHours(p) /\ (credit[p] = "none" => Used(E, p) = 0)
    <3>1. /\ p \in Sources /\ Used(W, p) \in Nat /\ CreditHours(p) \in Int
          /\ Used(W, p) <= CreditHours(p) /\ (credit[p] = "none" => Used(W, p) = 0)
      BY <1>1, <2>3, CreditHoursIs, SourcesAre DEF Fits
    <3>2. Left(W, p) = IF credit[p] = "active" THEN CreditHours(p) - Used(W, p) ELSE 0
      BY <2>3, PackIsFresh DEF Left
    <3>3. Used(E, p) = Used(W, p) + d[p] /\ d[p] \in Nat /\ d[p] <= Left(W, p)
      BY <2>1, <3>1
    <3> QED  BY <3>1, <3>2, <3>3
  <2> QED  BY <1>4, <2>2, <2>3 DEF Fits
<1> QED  BY <1>5, <1>6 DEF Gets, W

\* The rows a handler leaves alone, or flips.
LEMMA WrittenRows ==
  ASSUME HoursInv, NEW b \in Bookings, NEW S, NEW row \in BookingRow, Write(S, b, row)
  PROVE  /\ booking' \in [Bookings -> BookingRow] /\ booking'[b] = row
         /\ \A c \in Bookings \ {b} : /\ booking'[c].status = StatusAfter(S, c)
                                      /\ booking'[c].share = booking[c].share
<1>1. \A c \in Bookings : booking[c] \in BookingRow
  BY DEF HoursInv, TypeOK
<1>2. ASSUME NEW c \in Bookings \ {b}
      PROVE  /\ booking'[c] \in BookingRow /\ booking'[c].status = StatusAfter(S, c)
             /\ booking'[c].share = booking[c].share
  <2>1. booking'[c] = [booking[c] EXCEPT !.status = StatusAfter(S, c)]
    BY DEF Write
  <2>2. StatusAfter(S, c) \in Statuses
    BY <1>1 DEF StatusAfter, BookingRow, Statuses
  <2> QED  BY <1>1, <2>1, <2>2 DEF BookingRow
<1>3. booking'[b] = row /\ booking' = [c \in Bookings |-> booking'[c]]
  BY DEF Write
<1> QED  BY <1>2, <1>3

\* A handler's step, seen from the ledger: the hours stay in order, and what
\* changed is one move, one edit, or nothing.
LedgerKept == HoursInv' /\ [Accounts!Next]_(Accounts!vars)

\* The abstract ledger's sum is the library's.
LEMMA AccountsUsed ==
  ASSUME NEW D, NEW p
  PROVE  Accounts!Used(D, p) = Used(D, p)
<1>1. ASSUME NEW f PROVE Accounts!SumFunction(f) = SumFunction(f)
  BY DEF Accounts!SumFunction, SumFunction, SumFunctionOnSet, FoldFunctionOnSet, MapThenFoldSet,
         Accounts!SumFunctionOnSet, Accounts!FoldFunctionOnSet, Accounts!MapThenFoldSet
<1> QED  BY <1>1 DEF Accounts!Used, Used

\* Every source has a worth, and is open or not.
Valued == Worth \in [Sources -> Nat] /\ Active \in [Sources -> BOOLEAN]

\* The invariant values them.
LEMMA WorthNow == HoursInv => Valued
<1> SUFFICES ASSUME HoursInv PROVE Valued
  OBVIOUS
<1>1. \A p \in Bookings : CreditHours(p) \in Nat
  BY CreditHoursIs, SourcesAre
<1> QED  BY <1>1, SourcesAre DEF Valued, Worth, Active, Sources

\* And does so after a step.
LEMMA WorthNext == HoursInv' => Valued'
  BY WorthNow, PTL

\* Hours a handler settles for one booking are one move of the ledger.
LEMMA GetsMoves ==
  ASSUME HoursInv, NEW S, S \subseteq AllLapsed, NEW b \in Bookings, NEW d, Gets(S, b, d),
         debit' = [Without(S) EXCEPT ![b] = d], Fits(debit')
  PROVE  Accounts!Move
<1> DEFINE W == Without(S)
<1>1. /\ W \in Ledgers /\ \A p \in Sources : Used(W, p) \in Nat
      /\ W = Accounts!Without(S) /\ S \in SUBSET Bookings
  BY WithoutFits DEF Without, NoHours, Accounts!Without, AllLapsed
<1> HIDE DEF W
<1>2. debit' \in [Bookings -> [Sources -> Nat]]
  BY SourcesAre DEF Fits, Ledgers
<1>3. debit'[b] = d /\ \A c \in Bookings \ {b} : debit'[c] = W[c]
  BY <1>1 DEF W, Ledgers
<1>4. \A p \in Sources : W[b][p] \in Nat /\ d[p] \in Nat /\ NoHours[p] = 0
  BY <1>1, <1>2, <1>3, SourcesAre DEF Ledgers
<1>5. \/ \A p \in Sources : d[p] <= W[b][p]
      \/ W[b] = NoHours /\ \A p \in Sources : d[p] <= Left(W, p)
  BY <1>4 DEF Gets, W
<1>6. ASSUME NEW p \in Sources, d[p] > W[b][p] PROVE Active[p] /\ Used(debit', p) <= Worth[p]
  <2>1. Left(W, p) > 0
    <3>1. d[p] <= Left(W, p)
      BY <1>4, <1>5, <1>6
    <3>2. Left(W, p) \in Nat
      BY <1>6, WithoutFits DEF W
    <3> QED  BY <1>4, <1>6, <3>1, <3>2
  <2>2. CASE p = Pack
    BY <2>2 DEF Fits, Worth, Active
  <2>3. CASE p # Pack
    <3>1. credit[p] = "active" /\ p \in Bookings
      BY <1>6, <2>1, <2>3 DEF Left, Sources
    <3> QED  BY <2>3, <3>1 DEF Fits, Worth, Active
  <2> QED  BY <2>2, <2>3
<1>7. Accounts!Settle(S, b)
  <2>1. \A p \in Sources : W[b] = NoHours => d[p] >= W[b][p]
    BY <1>4
  <2>2. \A p \in Sources : d[p] > W[b][p] => Active[p] /\ Accounts!Used(debit', p) <= Worth[p]
    BY <1>6, AccountsUsed
  <2> QED  BY <1>1, <1>2, <1>3, <1>5, <2>1, <2>2 DEF Accounts!Settle
<1> QED  BY <1>1, <1>7 DEF Accounts!Move

\* A handler that writes one row, flips what lapsed before, and settles the
\* hours of both.
LEMMA WriteHours ==
  ASSUME IInv, HoursInv, IInv', NEW b \in Bookings, NEW S, S \subseteq AllLapsed,
         NEW row \in BookingRow, Write(S, b, row), row.status # "none",
         row.share = booking[b].share \/ credit[b] = "none",
         now' = now, heard' \subseteq Bookings \X Attempt,
         credit' = [credit EXCEPT ![b] = credit'[b]],
         credit'[b] \in {credit[b], "active", "cancelled"},
         NEW d, Gets(S, b, d), debit' = [Without(S) EXCEPT ![b] = d],
         SumFunction(d) = IF row.status \in HoldsHours THEN row.share ELSE 0,
         credit'[b] # credit[b] => credit[b] = "none" \/ Used(debit', b) = 0
  PROVE  LedgerKept
<1>1. /\ booking' \in [Bookings -> BookingRow] /\ booking'[b] = row
      /\ \A c \in Bookings \ {b} : /\ booking'[c].status = StatusAfter(S, c)
                                   /\ booking'[c].share = booking[c].share
  BY WrittenRows
<1>2. Fits(debit') /\ debit'[b] = d /\ \A c \in Bookings \ {b} : debit'[c] = Without(S)[c]
  <2>1. Fits([Without(S) EXCEPT ![b] = d])
    BY GetsFits
  <2> QED  BY <2>1 DEF Without
<1>3. /\ credit \in [Bookings -> {"none", "active", "cancelled"}]
      /\ credit' \in [Bookings -> {"none", "active", "cancelled"}]
      /\ \A c \in Bookings : /\ c # b => credit'[c] = credit[c]
                            /\ credit'[c] = "none" => credit[c] = "none"
  BY DEF HoursInv, TypeOK
<1>4. TypeOK'
  <2>1. session' \in [Bookings -> [Attempt -> {"unused", "open", "completed", "expired"}]]
    BY DEF IInv, Sound, Sessions, PerBooking
  <2> QED  BY <1>1, <1>2, <1>3, <2>1 DEF HoursInv, TypeOK, IInv, Fits, Ledgers
<1>5. ShareFollowsStatus'
  <2>1. ASSUME NEW c \in Bookings, c # b
        PROVE  SumFunction(debit'[c]) = IF booking'[c].status \in HoldsHours THEN booking'[c].share ELSE 0
    <3>1. CASE c \in S
      BY <1>1, <1>2, <2>1, <3>1, SourcesAre, HoursAdd DEF Without, StatusAfter, HoldsHours
    <3>2. CASE c \notin S
      BY <1>1, <1>2, <2>1, <3>2 DEF Without, StatusAfter, HoursInv, ShareFollowsStatus
    <3> QED  BY <3>1, <3>2
  <2> QED  BY <1>1, <1>2, <2>1 DEF ShareFollowsStatus
<1>6. ASSUME NEW c \in Bookings
      PROVE  /\ Used(debit', c) <= CreditHours(c)'
             /\ credit'[c] = "none" => Used(debit', c) = 0
  <2>1. Used(debit', c) <= CreditHours(c) /\ (credit[c] = "none" => Used(debit', c) = 0)
    BY <1>2, <1>6 DEF Fits
  <2>2. CASE booking'[c].share = booking[c].share
    BY <1>3, <1>6, <2>1, <2>2 DEF CreditHours
  <2>3. CASE credit[c] = "none"
    <3>1. Used(debit', c) = 0 /\ booking'[c].share \in 0 .. Len
      BY <1>1, <1>6, <2>1, <2>3 DEF BookingRow
    <3> QED  BY <3>1, SourcesAre DEF CreditHours
  <2> QED  BY <1>1, <1>6, <2>2, <2>3
<1>7. BankNeverOverdrawn'
  BY <1>2, <1>6 DEF BankNeverOverdrawn, Fits
<1>8. ASSUME NEW c \in Bookings, booking'[c].status = "none" PROVE credit'[c] = "none"
  BY <1>1, <1>3, <1>8 DEF StatusAfter, HoursInv
<1>9. HoursInv'
  BY <1>4, <1>5, <1>6, <1>7, <1>8 DEF HoursInv
<1>10. Accounts!Move
  BY <1>2, GetsMoves
<1>11. Accounts!Others(b) /\ (credit'[b] = credit[b] => UNCHANGED <<Worth, Active>>)
  <2>1. ASSUME NEW c \in Bookings, credit'[c] = credit[c]
        PROVE  Worth'[c] = Worth[c] /\ Active'[c] = Active[c]
    <3>1. Active'[c] = Active[c]
      BY <2>1 DEF Active, Sources
    <3>2. credit[c] # "none" => booking'[c].share = booking[c].share
      BY <1>1, <2>1
    <3> QED  BY <2>1, <3>1, <3>2, PackIsFresh DEF Worth, CreditHours, Sources
  <2>2. Worth'[Pack] = Worth[Pack] /\ Active'[Pack] = Active[Pack] /\ Sources = Bookings \cup {Pack}
    BY DEF Worth, Active, Sources
  <2>3. \A p \in Sources : (p = b /\ credit'[b] # credit[b]) \/ (Worth'[p] = Worth[p] /\ Active'[p] = Active[p])
    BY <1>3, <2>1, <2>2
  <2>4. /\ Worth = [p \in Sources |-> Worth[p]] /\ Worth' = [p \in Sources |-> Worth'[p]]
        /\ Active = [p \in Sources |-> Active[p]] /\ Active' = [p \in Sources |-> Active'[p]]
    BY DEF Worth, Active
  <2> QED  BY <2>3, <2>4 DEF Accounts!Others
<1>12. credit'[b] # credit[b] => Accounts!Used(debit', b) = 0
  BY <1>2, AccountsUsed DEF Fits
<1>13. Accounts!Next
  BY <1>9, <1>10, <1>11, <1>12, WorthNext, SourcesAre DEF Accounts!Next, Accounts!Exchange, Valued
<1> QED  BY <1>9, <1>13 DEF LedgerKept

\* With the holds of S expired, each booking has the hours of its status.
LEMMA WithoutSum ==
  ASSUME HoursInv, NEW S, NEW b \in Bookings
  PROVE  /\ Without(S)[b] \in [Sources -> 0 .. Len]
         /\ SumFunction(Without(S)[b]) = IF StatusAfter(S, b) \in HoldsHours THEN booking[b].share ELSE 0
<1>1. debit[b] \in [Sources -> 0 .. Len]
  BY DEF HoursInv, TypeOK
<1>2. CASE b \in S
  BY <1>2, SourcesAre, HoursAdd DEF Without, StatusAfter, HoldsHours
<1>3. CASE b \notin S
  BY <1>1, <1>3 DEF Without, StatusAfter, HoursInv, ShareFollowsStatus
<1> QED  BY <1>2, <1>3

\* A booking whose status holds no hours has none.
LEMMA WithoutNone ==
  ASSUME HoursInv, NEW S, NEW b \in Bookings, StatusAfter(S, b) \notin HoldsHours
  PROVE  Without(S)[b] = NoHours
<1>1. Without(S)[b] \in [Sources -> 0 .. Len] /\ SumFunction(Without(S)[b]) = 0
  BY WithoutSum
<1> QED  BY <1>1, HoursAdd

\* settle_status_change leaves a booking the hours of its new status.
LEMMA SettledGets ==
  ASSUME HoursInv, NEW b \in Bookings, NEW S, NEW new,
         NEW D, D \in Settled(S, b, StatusAfter(S, b), new)
  PROVE  \E d : /\ Gets(S, b, d) /\ D = [Without(S) EXCEPT ![b] = d]
               /\ SumFunction(d) = IF new \in HoldsHours THEN booking[b].share ELSE 0
<1> DEFINE previous == StatusAfter(S, b)
<1>1. CASE previous \in HoldsHours /\ new \notin HoldsHours
  <2>1. D = [Without(S) EXCEPT ![b] = NoHours]
    BY <1>1 DEF Settled
  <2>2. Gets(S, b, NoHours) /\ SumFunction(NoHours) = 0
    BY SourcesAre, HoursAdd DEF Gets
  <2> QED  BY <1>1, <2>1, <2>2
<1>2. CASE new \in HoldsHours /\ previous \notin HoldsHours
  <2>1. PICK d \in Draws(Without(S), b, booking[b].share) : D = [Without(S) EXCEPT ![b] = d]
    BY <1>2 DEF Settled
  <2>2. /\ d \in [Sources -> 0 .. booking[b].share] /\ SumFunction(d) = booking[b].share
        /\ \A p \in Sources : d[p] <= Left(Without(S), p)
    BY DEF Draws
  <2>3. booking[b].share \in 0 .. Len
    BY DEF HoursInv, TypeOK, BookingRow
  <2>4. d \in [Sources -> 0 .. Len]
    BY <2>2, <2>3, SourcesAre
  <2>5. Without(S)[b] = NoHours
    BY <1>2, WithoutNone
  <2>6. Gets(S, b, d)
    BY <2>2, <2>4, <2>5 DEF Gets
  <2> QED  BY <1>2, <2>1, <2>2, <2>6
<1>3. CASE (previous \in HoldsHours) = (new \in HoldsHours)
  <2>1. D = Without(S)
    BY <1>3 DEF Settled
  <2>2. /\ Without(S)[b] \in [Sources -> 0 .. Len]
        /\ SumFunction(Without(S)[b]) = IF previous \in HoldsHours THEN booking[b].share ELSE 0
    BY WithoutSum
  <2>3. Gets(S, b, Without(S)[b])
    BY <2>2 DEF Gets
  <2>4. Without(S) = [Without(S) EXCEPT ![b] = Without(S)[b]]
    BY DEF Without
  <2> QED  BY <1>3, <2>1, <2>2, <2>3, <2>4
<1> QED  BY <1>1, <1>2, <1>3 DEF HoldsHours

\* A handler that changes a status and settles the hours by it.
LEMMA SettleHours ==
  ASSUME IInv, HoursInv, IInv', NEW b \in Bookings, NEW S, S \subseteq AllLapsed,
         NEW row \in BookingRow, Write(S, b, row), row.status # "none",
         row.share = booking[b].share, now' = now, heard' \subseteq Bookings \X Attempt,
         credit' = [credit EXCEPT ![b] = credit'[b]],
         credit'[b] \in {credit[b], "active", "cancelled"},
         credit'[b] # credit[b] => credit[b] = "none" \/ Used(debit', b) = 0,
         debit' \in Settled(S, b, StatusAfter(S, b), row.status)
  PROVE  LedgerKept
<1>1. PICK d : /\ Gets(S, b, d) /\ debit' = [Without(S) EXCEPT ![b] = d]
               /\ SumFunction(d) = IF row.status \in HoldsHours THEN booking[b].share ELSE 0
  BY SettledGets
<1> QED  BY <1>1, WriteHours

\* What the bank has left is never less than nothing.
LEMMA BankIs == ASSUME HoursInv, NEW S PROVE Bank(Without(S)) \in Nat
<1> DEFINE f == [p \in Sources |-> Left(Without(S), p)]
<1>1. \A p \in Sources : f[p] \in Nat
  BY WithoutFits
<1>2. SumFunction(f) = SumFunctionOnSet(f, Sources)
  BY SumOfFunction
<1> HIDE DEF f
<1>3. SumFunctionOnSet(f, Sources) \in Nat
  BY <1>1, SourcesAre, SumCovers
<1> QED  BY <1>2, <1>3 DEF Bank, f

-------------------------------------------------------------------------------
(* The hours, action by action.                                            *)

\* Rows, debits and credits as they were: the ledger does not move.
LEMMA SameAccounts ==
  ASSUME booking' = booking, debit' = debit, credit' = credit
  PROVE  UNCHANGED Accounts!vars
  BY DEF Accounts!vars, Worth, Active, CreditHours

\* Instants up to the end of the clock, and what holds of each row.
LEMMA HoursRow ==
  ASSUME HoursInv, NEW b \in Bookings
  PROVE  /\ booking[b] \in BookingRow /\ booking[b].share \in 0 .. Len
         /\ Never \in 0 .. Horizon + Hold /\ Never \in 0 .. Horizon
         /\ now \in 0 .. Horizon + Hold /\ now + Hold \in 0 .. Horizon + Hold
         /\ now \in 0 .. Horizon /\ PaidAt(b) \in 0 .. Horizon
         /\ heard \subseteq Bookings \X Attempt
         /\ credit = [credit EXCEPT ![b] = credit[b]]
<1>1. now \in 1 .. Horizon /\ booking[b] \in BookingRow /\ heard \subseteq Bookings \X Attempt
      /\ credit = [credit EXCEPT ![b] = credit[b]]
  BY DEF HoursInv, TypeOK
<1> QED  BY <1>1, TimesArePositive DEF BookingRow, PaidAt, Never

\* A customer books: what he draws of the bank was left in it.
LEMMA CreateHours ==
  ASSUME IInv, HoursInv, IInv', NEW b \in Bookings, NEW s \in Slots,
         NEW wish \in {"hourly", "package", "mixed"}, Create(b, s, wish)
  PROVE  LedgerKept
<1> DEFINE
  S == IF wish = "hourly" THEN Stale(s) ELSE AllLapsed
  W == Without(S)
  want == CASE wish = "hourly"  -> 0
            [] wish = "package" -> Len
            [] wish = "mixed"   -> IF Bank(W) < Len THEN Bank(W) ELSE Len
  row == [status   |-> IF want = Len THEN "confirmed" ELSE "pending",
          method   |-> CASE want = Len -> "package" [] want = 0 -> "hourly" [] OTHER -> "mixed",
          slot     |-> s,
          share    |-> want,
          deadline |-> IF want = Len THEN Never ELSE now + Hold,
          session  |-> IF want = Len THEN 0 ELSE 1,
          paid     |-> Never]
<1>1. PICK d \in Draws(W, b, want) : debit' = [W EXCEPT ![b] = d] /\ Write(S, b, row)
  BY DEF Create
<1>2. /\ booking[b].status = "none" /\ now' = now /\ credit' = credit /\ heard' = heard
  BY DEF Create
<1>3. want \in 0 .. Len
  BY BankIs, SourcesAre
<1>4. S \subseteq AllLapsed
  BY StaleLapsed
<1> HIDE DEF want, S
<1>5. row \in BookingRow /\ row.status \in {"pending", "confirmed"} /\ row.share = want
  <2>1. /\ now + Hold \in 0 .. Horizon + Hold /\ Never \in 0 .. Horizon + Hold /\ Never \in 0 .. Horizon
        /\ 0 \in 0 .. Attempts /\ 1 \in 0 .. Attempts
    BY HoursRow, TimesArePositive
  <2> QED  BY <1>3, <2>1 DEF BookingRow, Statuses
<1> HIDE DEF row
<1>6. StatusAfter(S, b) = "none"
  BY <1>2, <1>4 DEF StatusAfter, AllLapsed, Lapsed
<1>7. W[b] = NoHours /\ credit[b] = "none"
  BY <1>2, <1>6, WithoutNone DEF HoldsHours, HoursInv
<1>8. /\ d \in [Sources -> 0 .. want] /\ SumFunction(d) = want
      /\ \A p \in Sources : d[p] <= Left(W, p)
  BY DEF Draws
<1>9. d \in [Sources -> 0 .. Len]
  BY <1>3, <1>8, SourcesAre
<1>10. Gets(S, b, d)
  BY <1>7, <1>8, <1>9 DEF Gets
<1>11. credit' = [credit EXCEPT ![b] = credit'[b]] /\ credit'[b] = credit[b] /\ heard' \subseteq Bookings \X Attempt
  BY <1>2, HoursRow
<1> QED  BY <1>1, <1>2, <1>4, <1>5, <1>7, <1>8, <1>10, <1>11, WriteHours DEF HoldsHours

\* A customer cancels: his hours go back, and what he paid may become a credit.
LEMMA CancelHours == ASSUME IInv, HoursInv, IInv', NEW b \in Bookings, Cancel(b) PROVE LedgerKept
<1> DEFINE row == [booking[b] EXCEPT !.status = "cancelled"]
<1>1. PICK D : /\ D \in Settled({}, b, booking[b].status, "cancelled") /\ debit' = D
               /\ credit' = CreditAfter(D, b, booking[b].status)
  BY DEF Cancel
<1>2. Write({}, b, row) /\ now' = now /\ heard' = heard
  BY DEF Cancel
<1>3. row \in BookingRow /\ row.status = "cancelled" /\ row.share = booking[b].share
  BY HoursRow DEF BookingRow, Statuses
<1> HIDE DEF row
<1>4. credit' = [credit EXCEPT ![b] = credit'[b]] /\ credit'[b] \in {credit[b], "active", "cancelled"}
  BY <1>1, CreditAfterIs
<1>5. StatusAfter({}, b) = booking[b].status /\ heard' \subseteq Bookings \X Attempt
  BY <1>2, HoursRow DEF StatusAfter
<1>6. credit'[b] # credit[b] => credit[b] = "none" \/ Used(debit', b) = 0
  BY <1>1 DEF CreditAfter
<1> QED  BY <1>1, <1>2, <1>3, <1>4, <1>5, <1>6, SettleHours

\* "Pagar agora": a lapsed hold takes its hours again.
LEMMA ResumeHours == ASSUME IInv, HoursInv, IInv', NEW b \in Bookings, Resume(b) PROVE LedgerKept
<1> DEFINE
  lapsed == booking[b].status = "expired" \/ Lapsed(b)
  S == IF lapsed THEN Stale(booking[b].slot) ELSE {}
  n == booking[b].session + 1
  row == [booking[b] EXCEPT !.status = "pending", !.deadline = now + Hold, !.session = n]
<1>1. /\ n \in Attempt /\ Write(S, b, row) /\ debit' \in Settled(S, b, StatusAfter(S, b), "pending")
      /\ now' = now /\ credit' = credit /\ heard' = heard
  BY DEF Resume
<1>2. S \subseteq AllLapsed
  BY StaleLapsed
<1>3. n \in 0 .. Attempts
  BY <1>1, TimesArePositive DEF Attempt
<1> HIDE DEF S, n
<1>4. row \in BookingRow /\ row.status = "pending" /\ row.share = booking[b].share
  BY <1>3, HoursRow DEF BookingRow, Statuses
<1> HIDE DEF row
<1>5. credit' = [credit EXCEPT ![b] = credit'[b]] /\ credit'[b] = credit[b] /\ heard' \subseteq Bookings \X Attempt
  BY <1>1, HoursRow
<1> QED  BY <1>1, <1>2, <1>4, <1>5, SettleHours

\* A payment is heard: late, the hours are taken again or the money is kept.
LEMMA HearCompletedHours ==
  ASSUME IInv, HoursInv, IInv', NEW b \in Bookings, NEW n \in Attempt, HearCompleted(b, n)
  PROVE  LedgerKept
<1> DEFINE
  late == booking[b].status # "pending" \/ Lapsed(b)
  S == IF late THEN Stale(booking[b].slot) ELSE {}
  again == Settled(S, b, StatusAfter(S, b), "confirmed")
  taken == late /\ (Conflict(booking[b].slot, b) \/ again = {})
  new == IF taken THEN "paid_unfulfilled" ELSE "confirmed"
  row == [booking[b] EXCEPT !.status = new, !.deadline = Never, !.paid = PaidAt(b)]
<1>1. /\ now' = now /\ credit' = credit /\ heard' = heard \cup {<<b, n>>}
      /\ session' = session /\ blocked' = blocked
  BY DEF HearCompleted
<1>2. heard' \subseteq Bookings \X Attempt
  BY <1>1, HoursRow
<1>3. CASE booking[b].session = n /\ Payable(b)
  <2>1. Write(S, b, row) /\ debit' \in Settled(S, b, StatusAfter(S, b), new)
    BY <1>3 DEF HearCompleted, Confirm
  <2>2. new \in {"confirmed", "paid_unfulfilled"} /\ S \subseteq AllLapsed
    BY StaleLapsed
  <2> HIDE DEF new, S
  <2>3. row \in BookingRow /\ row.status = new /\ row.share = booking[b].share
    BY <2>2, HoursRow DEF BookingRow, Statuses
  <2> HIDE DEF row
  <2>4. credit' = [credit EXCEPT ![b] = credit'[b]] /\ credit'[b] = credit[b]
    BY <1>1, HoursRow
  <2> QED  BY <1>1, <1>2, <2>1, <2>2, <2>3, <2>4, SettleHours
<1>4. CASE ~(booking[b].session = n /\ Payable(b))
  <2>1. booking' = booking /\ debit' = debit
    BY <1>4 DEF HearCompleted
  <2>2. HoursInv'
    BY <1>1, <1>2, <2>1 DEF HoursInv, TypeOK, ShareFollowsStatus, BankNeverOverdrawn, CreditHours
  <2> QED  BY <1>1, <2>1, <2>2, SameAccounts DEF LedgerKept
<1> QED  BY <1>3, <1>4

\* A hold is let go: what it drew goes back.
LEMMA LetGoHours ==
  ASSUME IInv, HoursInv, IInv', NEW b \in Bookings, NEW n \in Attempt, LetGo(b, n) PROVE LedgerKept
<1> DEFINE row == [booking[b] EXCEPT !.status = "expired", !.deadline = now]
<1>1. /\ debit' \in Settled({}, b, booking[b].status, "expired") /\ Write({}, b, row)
      /\ now' = now /\ credit' = credit /\ heard' = heard
  BY DEF LetGo
<1>2. row \in BookingRow /\ row.status = "expired" /\ row.share = booking[b].share
  BY HoursRow DEF BookingRow, Statuses
<1> HIDE DEF row
<1>3. /\ credit' = [credit EXCEPT ![b] = credit'[b]] /\ credit'[b] = credit[b]
      /\ heard' \subseteq Bookings \X Attempt /\ StatusAfter({}, b) = booking[b].status
  BY <1>1, HoursRow DEF StatusAfter
<1> QED  BY <1>1, <1>2, <1>3, SettleHours

\* The operator records a payment by hand: an expired hold takes its hours again.
LEMMA MarkPaidHours == ASSUME IInv, HoursInv, IInv', NEW b \in Bookings, MarkPaid(b) PROVE LedgerKept
<1> DEFINE
  S == IF booking[b].status = "expired" THEN Stale(booking[b].slot) ELSE {}
  row == [booking[b] EXCEPT !.status = "confirmed", !.method = "manual",
                            !.deadline = Never, !.session = 0, !.paid = PaidAt(b)]
<1>1. /\ debit' \in Settled(S, b, booking[b].status, "confirmed") /\ Write(S, b, row)
      /\ now' = now /\ credit' = credit /\ heard' = heard
  BY DEF MarkPaid
<1>2. S \subseteq AllLapsed /\ StatusAfter(S, b) = booking[b].status
  BY StaleLapsed DEF StatusAfter, AllLapsed, Lapsed
<1> HIDE DEF S
<1>3. row \in BookingRow /\ row.status = "confirmed" /\ row.share = booking[b].share
  <2>1. 0 \in 0 .. Attempts
    BY TimesArePositive
  <2>2. row \in [status: {"confirmed"}, method: {"manual"}, slot: {booking[b].slot},
                 share: {booking[b].share}, deadline: {Never}, session: {0}, paid: {PaidAt(b)}]
    BY HoursRow DEF BookingRow
  <2> HIDE DEF row
  <2> QED  BY <2>1, <2>2, HoursRow DEF BookingRow, Statuses
<1> HIDE DEF row
<1>4. /\ credit' = [credit EXCEPT ![b] = credit'[b]] /\ credit'[b] = credit[b]
      /\ heard' \subseteq Bookings \X Attempt
  BY <1>1, HoursRow
<1> QED  BY <1>1, <1>2, <1>3, <1>4, SettleHours

\* The operator books for a customer, who pays no hours.
LEMMA AdminCreateHours ==
  ASSUME IInv, HoursInv, IInv', NEW b \in Bookings, NEW s \in Slots, AdminCreate(b, s) PROVE LedgerKept
<1> DEFINE row == [status |-> "confirmed", method |-> "manual", slot |-> s, share |-> 0,
                   deadline |-> Never, session |-> 0, paid |-> now]
           S == Stale(s)
<1>1. /\ booking[b].status = "none" /\ debit' = Without(S) /\ Write(S, b, row)
      /\ now' = now /\ credit' = credit /\ heard' = heard
  BY DEF AdminCreate
<1>2. S \subseteq AllLapsed
  BY StaleLapsed
<1> HIDE DEF S
<1>3. row \in BookingRow /\ row.status = "confirmed" /\ row.share = 0
  <2>1. /\ now \in 0 .. Horizon /\ Never \in 0 .. Horizon + Hold /\ 0 \in 0 .. Attempts /\ 0 \in 0 .. Len
    BY HoursRow, SourcesAre, TimesArePositive
  <2> QED  BY <2>1 DEF BookingRow, Statuses
<1> HIDE DEF row
<1>4. StatusAfter(S, b) = "none"
  BY <1>1, <1>2 DEF StatusAfter, AllLapsed, Lapsed
<1>5. Without(S)[b] = NoHours /\ credit[b] = "none"
  BY <1>1, <1>4, WithoutNone DEF HoldsHours, HoursInv
<1>6. debit' = [Without(S) EXCEPT ![b] = NoHours]
  BY <1>1, <1>5 DEF Without
<1>7. Gets(S, b, NoHours) /\ SumFunction(NoHours) = 0
  BY SourcesAre, HoursAdd DEF Gets
<1>8. /\ credit' = [credit EXCEPT ![b] = credit'[b]] /\ credit'[b] = credit[b]
      /\ heard' \subseteq Bookings \X Attempt
  BY <1>1, HoursRow
<1> QED  BY <1>1, <1>2, <1>3, <1>5, <1>6, <1>7, <1>8, WriteHours DEF HoldsHours

\* A booking is deleted, its hours with it.
LEMMA DeleteHours == ASSUME IInv, HoursInv, IInv', NEW b \in Bookings, Delete(b) PROVE LedgerKept
<1> DEFINE row == [booking[b] EXCEPT !.status = "deleted"]
<1>1. /\ booking' = [booking EXCEPT ![b] = row] /\ debit' = [debit EXCEPT ![b] = NoHours]
      /\ now' = now /\ credit' = credit /\ heard' = heard
  BY DEF Delete
<1>2. row \in BookingRow /\ row.status = "deleted" /\ row.share = booking[b].share
  BY HoursRow DEF BookingRow, Statuses
<1> HIDE DEF row
<1>3. Write({}, b, row)
  <2>1. \A c \in Bookings : booking[c] = [booking[c] EXCEPT !.status = StatusAfter({}, c)]
    BY DEF StatusAfter, HoursInv, TypeOK, BookingRow
  <2> QED  BY <1>1, <2>1 DEF Write, HoursInv, TypeOK
<1>4. debit' = [Without({}) EXCEPT ![b] = NoHours]
  BY <1>1 DEF Without, HoursInv, TypeOK
<1>5. Gets({}, b, NoHours) /\ SumFunction(NoHours) = 0
  BY SourcesAre, HoursAdd DEF Gets
<1>6. /\ credit' = [credit EXCEPT ![b] = credit'[b]] /\ credit'[b] = credit[b]
      /\ heard' \subseteq Bookings \X Attempt /\ {} \subseteq AllLapsed
  BY <1>1, HoursRow
<1> QED  BY <1>1, <1>2, <1>3, <1>4, <1>5, <1>6, WriteHours DEF HoldsHours

\* The operator's move: hours go back, or are taken again, by the statuses it
\* leads from and to, an own hold that lapsed included.
LEMMA UpdateHours ==
  ASSUME IInv, HoursInv, IInv', NEW b \in Bookings, NEW s \in Slots \cup {NoSlot}, NEW to, NEW credited,
         Update(b, s, to, credited)
  PROVE  LedgerKept
<1> DEFINE
  moves == s # NoSlot
  slot == IF moves THEN s ELSE booking[b].slot
  takes == moves /\ booking[b].status \in HoldsSlot
  S1 == IF takes THEN Stale(slot) ELSE {}
  previous == StatusAfter(S1, b)
  new == IF to = "" THEN previous ELSE to
  enters == new \in HoldsSlot /\ previous \notin HoldsSlot
  S == IF enters THEN S1 \cup Stale(slot) ELSE S1
  row == [booking[b] EXCEPT !.status = new, !.slot = slot, !.deadline = DeadlineAfter(b, previous, new)]
<1>1. /\ <<booking[b].status, new>> \in OperatorMoves /\ Write(S, b, row) /\ now' = now /\ heard' = heard
      /\ \E D \in Settled(S, b, previous, new) :
           /\ debit' = D
           /\ IF new = "cancelled" /\ previous # "cancelled"
              THEN credit' = IF credited THEN CreditAfter(D, b, previous) ELSE credit
              ELSE ReverseCredit(D, b, previous, new)
  BY DEF Update
<1>2. S \subseteq AllLapsed
  BY StaleLapsed
<1>3. new \in Real
  BY <1>1, MovesAreStatuses
<1>4. StatusAfter(S, b) = previous
  <2>1. CASE S = S1
    BY <2>1
  <2>2. CASE S # S1
    <3>1. previous \notin HoldsSlot /\ S1 \subseteq S
      BY <2>2
    <3>2. CASE b \in S1
      BY <3>1, <3>2 DEF StatusAfter
    <3>3. CASE b \notin S1
      <4>1. previous = booking[b].status
        BY <3>3 DEF StatusAfter
      <4>2. b \notin AllLapsed
        BY <3>1, <4>1 DEF AllLapsed, Lapsed, HoldsSlot
      <4> QED  BY <1>2, <4>1, <4>2 DEF StatusAfter
    <3> QED  BY <3>2, <3>3
  <2> QED  BY <2>1, <2>2
<1>5. slot \in Slots \cup {NoSlot} /\ DeadlineAfter(b, previous, new) \in 0 .. Horizon + Hold
  BY HoursRow DEF DeadlineAfter, BookingRow
<1>6. PICK D : /\ D \in Settled(S, b, previous, new) /\ debit' = D
               /\ IF new = "cancelled" /\ previous # "cancelled"
                  THEN credit' = IF credited THEN CreditAfter(D, b, previous) ELSE credit
                  ELSE ReverseCredit(D, b, previous, new)
  BY <1>1
<1> HIDE DEF new, previous, slot, S, S1, enters, takes, moves
<1>7. row \in BookingRow /\ row.status = new /\ row.share = booking[b].share
  BY <1>3, <1>5, HoursRow DEF BookingRow, Statuses, Real
<1> HIDE DEF row
<1>8. credit' = [credit EXCEPT ![b] = credit'[b]] /\ credit'[b] \in {credit[b], "active", "cancelled"}
  <2>1. CASE credit' = CreditAfter(D, b, previous)
    BY <2>1, CreditAfterIs
  <2>2. CASE credit' = credit
    BY <2>2, HoursRow
  <2>3. CASE ReverseCredit(D, b, previous, new)
    BY <2>3, HoursRow DEF ReverseCredit, HoursInv, TypeOK
  <2> QED  BY <1>6, <2>1, <2>2, <2>3
<1>9. heard' \subseteq Bookings \X Attempt /\ new # "none"
  BY <1>1, <1>3, HoursRow DEF Real
<1>10. credit'[b] # credit[b] => credit[b] = "none" \/ Used(debit', b) = 0
  BY <1>6 DEF CreditAfter, ReverseCredit
<1> QED  BY <1>1, <1>2, <1>4, <1>6, <1>7, <1>8, <1>9, <1>10, SettleHours

\* No row, and no hour of the ledger, changes.
LEMMA SameHours ==
  ASSUME HoursInv, IInv', booking' = booking, debit' = debit, now' \in 1 .. Horizon,
         heard' \subseteq Bookings \X Attempt,
         credit' \in [Bookings -> {"none", "active", "cancelled"}],
         \A c \in Bookings : credit'[c] = "none" <=> credit[c] = "none"
  PROVE  HoursInv'
<1>1. session' \in [Bookings -> [Attempt -> {"unused", "open", "completed", "expired"}]] /\ blocked' \subseteq Slots
  BY DEF IInv, Sound, Sessions, PerBooking
<1>2. TypeOK'
  BY <1>1 DEF HoursInv, TypeOK
<1> QED  BY <1>2 DEF HoursInv, ShareFollowsStatus, BankNeverOverdrawn, CreditHours

\* Holds that lapsed expire together and give their hours back.
LEMMA FlipHours ==
  ASSUME HoursInv, IInv', NEW S, S \subseteq AllLapsed, debit' = Without(S),
         booking' = [b \in Bookings |-> [booking[b] EXCEPT !.status = StatusAfter(S, b)]],
         now' = now, heard' = heard, credit' = credit
  PROVE  LedgerKept
<1>1. ASSUME NEW c \in Bookings
      PROVE  /\ booking'[c] \in BookingRow /\ booking'[c].status = StatusAfter(S, c)
             /\ booking'[c].share = booking[c].share
  <2>1. booking'[c] = [booking[c] EXCEPT !.status = StatusAfter(S, c)] /\ booking[c] \in BookingRow
    BY <1>1 DEF HoursInv, TypeOK
  <2>2. StatusAfter(S, c) \in Statuses
    BY <2>1 DEF StatusAfter, BookingRow, Statuses
  <2> QED  BY <2>1, <2>2 DEF BookingRow
<1>2. Fits(debit')
  BY WithoutFits
<1>3. session' \in [Bookings -> [Attempt -> {"unused", "open", "completed", "expired"}]] /\ blocked' \subseteq Slots
  BY DEF IInv, Sound, Sessions, PerBooking
<1>4. booking' \in [Bookings -> BookingRow]
  BY <1>1
<1>5. TypeOK'
  BY <1>2, <1>3, <1>4 DEF HoursInv, TypeOK, Fits, Ledgers
<1>6. ShareFollowsStatus'
  BY <1>1, WithoutSum DEF ShareFollowsStatus
<1>7. BankNeverOverdrawn' /\ \A c \in Bookings : credit'[c] = "none" => Used(debit', c) = 0
  BY <1>1, <1>2 DEF BankNeverOverdrawn, Fits, CreditHours
<1>8. \A c \in Bookings : booking'[c].status = "none" => credit'[c] = "none"
  BY <1>1 DEF StatusAfter, HoursInv
<1>9. HoursInv'
  BY <1>5, <1>6, <1>7, <1>8 DEF HoursInv
<1>10. Accounts!LetGo(S) /\ S \in SUBSET Bookings
  BY DEF Accounts!LetGo, Accounts!Without, Without, NoHours, AllLapsed
<1>11. UNCHANGED <<Worth, Active>>
  BY <1>1 DEF Worth, Active, CreditHours, Sources
<1>12. Accounts!Next
  BY <1>9, <1>10, <1>11, WorthNext DEF Accounts!Next, Accounts!Move, Valued
<1> QED  BY <1>9, <1>12 DEF LedgerKept

\* The operator cancels a credit, or takes that back: its hours are worth what
\* they were, and none is debited beyond that.
LEMMA CreditHoursKept ==
  ASSUME IInv, HoursInv, IInv', NEW b \in Bookings, CancelCredit(b) \/ ReactivateCredit(b)
  PROVE  LedgerKept
<1>1. /\ booking' = booking /\ debit' = debit /\ now' = now /\ heard' = heard
      /\ credit[b] # "none" /\ credit'[b] # "none"
      /\ \A c \in Bookings \ {b} : credit'[c] = credit[c]
      /\ credit' \in [Bookings -> {"none", "active", "cancelled"}]
  BY DEF CancelCredit, ReactivateCredit, HoursInv, TypeOK
<1>2. HoursInv'
  <2>1. now' \in 1 .. Horizon /\ heard' \subseteq Bookings \X Attempt
    BY <1>1 DEF HoursInv, TypeOK
  <2> QED  BY <1>1, <2>1, SameHours
<1>3. Worth' = Worth /\ \A p \in Sources \ {b} : Active'[p] = Active[p]
  BY <1>1 DEF Worth, Active, CreditHours, Sources
<1>4. Worth[b] >= Accounts!Used(debit, b)
  <2>1. Used(debit, b) <= CreditHours(b)
    BY DEF HoursInv, BankNeverOverdrawn
  <2>2. CreditHours(b) \in 0 .. Len /\ Used(debit, b) \in Nat
    <3>1. debit \in Ledgers
      BY DEF HoursInv, TypeOK, Ledgers
    <3> QED  BY <3>1, CreditHoursIs, UsedIs, SourcesAre
  <2>3. Worth[b] = CreditHours(b)
    BY <1>1, PackIsFresh DEF Worth, Sources
  <2> QED  BY <2>1, <2>2, <2>3, AccountsUsed, SourcesAre
<1>5. Accounts!Edit(b) /\ b \in Sources
  BY <1>1, <1>3, <1>4, SourcesAre DEF Accounts!Edit, Accounts!Others
<1> QED  BY <1>2, <1>5, WorthNext DEF LedgerKept, Accounts!Next, Valued

\* No hours to begin with.
LEMMA InitHours == Init => HoursInv
<1> SUFFICES ASSUME Init PROVE HoursInv
  OBVIOUS
<1>1. ASSUME NEW b \in Bookings
      PROVE  /\ booking[b] = [status |-> "none", method |-> "hourly", slot |-> NoSlot, share |-> 0,
                              deadline |-> Never, session |-> 0, paid |-> Never]
             /\ debit[b] = NoHours /\ credit[b] = "none"
  BY <1>1 DEF Init
<1>2. TypeOK
  <2>1. /\ Never \in 0 .. Horizon /\ Never \in 0 .. Horizon + Hold /\ 0 \in 0 .. Attempts /\ 0 \in 0 .. Len
        /\ 1 \in 1 .. Horizon
    BY SourcesAre, TimesArePositive DEF Never
  <2>2. \A b \in Bookings : booking[b] \in BookingRow
    BY <1>1, <2>1 DEF BookingRow, Statuses
  <2>3. booking \in [Bookings -> BookingRow]
    BY <2>2 DEF Init
  <2> QED  BY <2>1, <2>3, SourcesAre DEF Init, TypeOK
<1>3. ShareFollowsStatus
  BY <1>1, SourcesAre, HoursAdd DEF ShareFollowsStatus, HoldsHours
<1>4. ASSUME NEW p \in Sources PROVE Used(debit, p) = 0
  <2>1. debit \in Ledgers
    BY <1>2 DEF TypeOK, Ledgers
  <2>2. \A b \in Bookings : [c \in Bookings |-> debit[c][p]][b] = 0
    BY <1>1, <1>4, SourcesAre
  <2> QED  BY <1>4, <2>1, <2>2, UsedIs, SourcesAre, SumOfZeros
<1>5. BankNeverOverdrawn
  BY <1>1, <1>4, SourcesAre DEF BankNeverOverdrawn, CreditHours
<1> QED  BY <1>1, <1>2, <1>3, <1>4, <1>5, SourcesAre DEF HoursInv

\* No step breaks it.
LEMMA NextHours == IInv /\ IInv' /\ HoursInv /\ [Next]_vars => LedgerKept
<1> SUFFICES ASSUME IInv, IInv', HoursInv, [Next]_vars PROVE LedgerKept
  OBVIOUS
<1>1. /\ now \in 1 .. Horizon /\ heard \subseteq Bookings \X Attempt
      /\ credit \in [Bookings -> {"none", "active", "cancelled"}]
  BY DEF HoursInv, TypeOK
<1>2. ASSUME NEW b \in Bookings, Customer(b) PROVE LedgerKept
  BY <1>2, CreateHours, CancelHours, ResumeHours DEF Customer
<1>3. ASSUME NEW b \in Bookings, Operator(b) PROVE LedgerKept
  <2>1. CASE CancelCredit(b) \/ ReactivateCredit(b)
    BY <1>3, <2>1, CreditHoursKept
  <2>2. ASSUME NEW s \in Slots \cup {NoSlot}, NEW to, NEW credited, Update(b, s, to, credited) PROVE LedgerKept
    BY <1>3, <2>2, UpdateHours
  <2> QED  BY <1>3, <2>1, <2>2, MarkPaidHours, DeleteHours, AdminCreateHours DEF Operator
<1>4. ASSUME NEW b \in Bookings, NEW n \in Attempt, Provider(b, n) PROVE LedgerKept
  <2>1. CASE Pay(b, n) \/ SessionExpires(b, n)
    BY <1>1, <2>1, SameHours, SameAccounts DEF LedgerKept, Pay, SessionExpires
  <2> QED  BY <1>4, <2>1, HearCompletedHours, LetGoHours DEF Provider
<1>5. ASSUME NEW s \in Slots, NEW B, Block(B, s) PROVE LedgerKept
  BY <1>5, FlipHours, StaleLapsed DEF Block
<1>6. ASSUME NEW s \in Slots, Unblock(s) PROVE LedgerKept
  BY <1>1, <1>6, SameHours, SameAccounts DEF LedgerKept, Unblock
<1>7. CASE Sweep
  BY <1>7, FlipHours DEF Sweep
<1>8. CASE Tick
  <2>1. now' \in 1 .. Horizon
    BY <1>1, <1>8, TimesArePositive DEF Tick
  <2> QED  BY <1>1, <1>8, <2>1, SameHours, SameAccounts DEF LedgerKept, Tick
<1>9. CASE UNCHANGED vars
  BY <1>1, <1>9, SameHours, SameAccounts DEF LedgerKept, vars
<1> QED  BY <1>2, <1>3, <1>4, <1>5, <1>6, <1>7, <1>8, <1>9 DEF Next

-------------------------------------------------------------------------------
(* The theorems.                                                           *)

\* The invariant of every behaviour.
LEMMA InvAlways == Spec => []IInv
  BY InitInv, NextInv, PTL DEF Spec

\* The hours' part of the invariant of every behaviour.
LEMMA HoursAlways == Spec => []HoursInv
<1>1. IInv /\ IInv' /\ HoursInv /\ [Next]_vars => HoursInv'
  BY NextHours DEF LedgerKept
<1> QED  BY <1>1, InitHours, InvAlways, PTL DEF Spec

\* Every row, ledger, credit and session stays what the database allows, and
\* every instant written to a row is one of the clock.
THEOREM RowsAreTyped == Spec => []TypeOK
<1>1. HoursInv => TypeOK
  BY DEF HoursInv
<1> QED  BY <1>1, HoursAlways, PTL

\* Whatever the operator's moves, and however late, often or out of order the
\* webhooks come: what is debited for a booking is its share while its status
\* holds hours, and nothing otherwise.
THEOREM HoursFollowStatus == Spec => []ShareFollowsStatus
<1>1. HoursInv => ShareFollowsStatus
  BY DEF HoursInv
<1> QED  BY <1>1, HoursAlways, PTL

\* Nor does any run of bookings, cancellations, late payments and operator's
\* moves draw more from the pack, or from a credit, than its hours.
THEOREM NoSourceIsOverdrawn == Spec => []BankNeverOverdrawn
<1>1. HoursInv => BankNeverOverdrawn
  BY DEF HoursInv
<1> QED  BY <1>1, HoursAlways, PTL

\* For any bookings, slots and moves of the operator: no two bookings that may
\* hold a slot, lapsed or not, overlap each other or a block, by the checks of
\* the handlers alone.
THEOREM SlotsAreHeldOnce == Spec => []SlotHeldOnce
<1>1. IInv => SlotHeldOnce
  BY DEF IInv
<1> QED  BY <1>1, InvAlways, PTL

\* Whatever the operator does, no booking has two sessions that were paid, nor
\* one beside the payment he recorded by hand: the session a booking waits for
\* is the only one that can still be paid.
THEOREM ChargesAreSingle == Spec => []ChargedOnce
<1>1. IInv => ChargedOnce
  <2> SUFFICES ASSUME IInv, NEW b \in Bookings
               PROVE  /\ \A m, n \in Attempt :
                           session[b][m] = "completed" /\ session[b][n] = "completed" => m = n
                      /\ booking[b].method = "manual" => \A n \in Attempt : session[b][n] # "completed"
    BY DEF ChargedOnce
  <2>1. Sessions(b)
    BY DEF IInv, Sound
  <2> QED  BY <2>1 DEF Sessions, Live, Attempt, PaidAtCheckout
<1> QED  BY <1>1, InvAlways, PTL

\* As long as the operator makes no unpaid hold of another booking, a booking
\* that has been paid never expires.
THEOREM PaidHoldsStay == ASSUME KeepsPaid PROVE Spec => []PaidNeverLapses
<1>1. IInv => PaidNeverLapses
  BY DEF IInv, Sound, Money, PaidNeverLapses
<1> QED  BY <1>1, InvAlways, PTL

\* As long as he leaves a hold that may still be paid to its customer, the
\* money of every webhook that was answered is on its booking, however late it
\* came; booking_money_dropped shows the hypothesis is needed.
THEOREM MoneyIsKeptUntouched == ASSUME LeavesHolds PROVE Spec => []MoneyIsKept
<1>1. IInv => MoneyIsKept
  BY DEF IInv, Sound, Money, MoneyIsKept
<1> QED  BY <1>1, InvAlways, PTL

\* As long as he reinstates what he cancelled as it was, nobody has a booking
\* and the hours it was turned into.
THEOREM BookingsOrCredits == ASSUME KeepsCredits PROVE Spec => []BookingOrCredit
<1>1. IInv => BookingOrCredit
  BY DEF IInv, Sound, Credited, BookingOrCredit, HoldsHours
<1> QED  BY <1>1, InvAlways, PTL

\* Whatever the operator's moves, no sweep, deadline, webhook or other booking's
\* handler takes a confirmed booking away.
THEOREM ConfirmedAreLeft == Spec => ConfirmedStays
<1> DEFINE A == \A b \in Bookings :
      booking[b].status = "confirmed" /\ booking'[b].status # "confirmed" =>
        \/ Cancel(b) \/ Delete(b)
        \/ \E s \in Slots \cup {NoSlot}, to \in Real, credited \in BOOLEAN : Update(b, s, to, credited)
<1>1. IInv /\ [Next]_vars => [A]_vars
  BY ConfirmedStep
<1> QED  BY <1>1, InvAlways, PTL DEF Spec, ConfirmedStays

\* A paid booking that was cancelled comes back by the operator's hand only, if
\* he makes no unpaid hold of it.
THEOREM CancelledAreLeft == ASSUME KeepsPaid PROVE Spec => CancelledStays
<1> DEFINE A == \A b \in Bookings :
      booking[b].status = "cancelled" /\ booking[b].paid # Never
        /\ booking'[b].status \notin {"cancelled", "deleted"} =>
      \E s \in Slots \cup {NoSlot}, to \in Real, credited \in BOOLEAN : Update(b, s, to, credited)
<1>1. IInv /\ [Next]_vars => [A]_vars
  BY CancelledStep
<1> QED  BY <1>1, InvAlways, PTL DEF Spec, CancelledStays

\* Every handler, pass of the sweeper and tick of the clock is a step of the
\* abstract calendar, for any bookings and slots.
THEOREM ImplementsCalendar == Spec => KeepsCalendar
  BY CalendarInit, CalendarStep, InvAlways, PTL DEF Spec, KeepsCalendar, Calendar!Spec

\* Nor is there a handler, pass or tick that is no step of the abstract ledger:
\* hours move between a source and one booking at a time, and a booking turns
\* into a credit, or a credit back into its booking, in the same move.
THEOREM ImplementsLedger == Spec => KeepsLedger
<1>1. Init => Accounts!Init
  <2>1. \A b \in Bookings : credit[b] = "none" => Worth[b] = 0
    BY PackIsFresh DEF Worth, Sources
  <2> QED  BY InitHours, WorthNow DEF Init, Accounts!Init, NoHours, Valued
<1>2. IInv /\ IInv' /\ HoursInv /\ [Next]_vars => [Accounts!Next]_(Accounts!vars)
  BY NextHours DEF LedgerKept
<1> QED  BY <1>1, <1>2, HoursAlways, InvAlways, PTL DEF Spec, KeepsLedger, Accounts!Spec
================================================================================
