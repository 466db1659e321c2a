------------------------ MODULE MCBookingLifecycle ------------------------
(* BookingLifecycle on small instances.                                    *)
EXTENDS BookingLifecycle, TLC

Symmetry == Permutations(Bookings)

Notes(S) == {<<x, x>> : x \in S}

\* What the operator's page offers for a booking that is not an unpaid hold,
\* with notes and moves of any that is not cancelled.
SafeMoves ==
  {<<"confirmed", "completed">>, <<"completed", "confirmed">>, <<"confirmed", "cancelled">>}
    \cup Notes({"pending", "confirmed", "completed", "expired", "paid_unfulfilled"})
    \cup {<<"pending", "expired">>}

\* The page's two buttons for an unpaid hold.
HoldMoves == {<<"pending", "confirmed">>, <<"pending", "cancelled">>}

\* Reinstating a cancelled booking: as it was, or as an unpaid hold.
ReinstatingMoves == SafeMoves \cup {<<"cancelled", "confirmed">>, <<"cancelled", "completed">>}

OverlappingSlots == {{2, 3}, {3, 4}}
OneSlot == {{2, 3}}
=============================================================================
