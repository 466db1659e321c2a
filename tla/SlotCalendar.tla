---------------------------- MODULE SlotCalendar ----------------------------
(***************************************************************************)
(* What a room's calendar promises, whatever the requests, payments,       *)
(* deadlines and operators behind it: every hour has one holder or none,   *)
(* a booking holds the whole of one slot or nothing, and an hour passes    *)
(* from one holder to another only by being free in between.               *)
(*                                                                         *)
(* BookingLifecycle implements it, one handler a step; SlotRace implements *)
(* it with the statements of concurrent transactions as steps.             *)
(***************************************************************************)
EXTENDS Naturals

CONSTANTS
  Bookings,       \* who may hold a slot
  Slots,          \* the intervals on offer, sets of hours
  Blocked,        \* the operator's blocks, as one holder that is no booking
  Free            \* no holder at all

VARIABLE holder   \* of each hour

Hours == UNION Slots

Init == holder = [h \in Hours |-> Free]

\* Deadlines pass: the holders of S all let go at one instant.
LetGo(S) == holder' = [h \in Hours |-> IF holder[h] \in S THEN Free ELSE holder[h]]

\* x has the hours H from now on, and no others.
Take(x, H) ==
  /\ \A h \in H : holder[h] \in {Free, x}
  /\ holder' = [h \in Hours |-> IF h \in H THEN x
                                ELSE IF holder[h] = x THEN Free ELSE holder[h]]

Next == \/ \E S \in SUBSET Bookings : LetGo(S)
        \/ \E b \in Bookings, s \in Slots \cup {{}} : Take(b, s)
        \/ \E T \in SUBSET Slots : Take(Blocked, UNION T)

Spec == Init /\ [][Next]_holder
=============================================================================
