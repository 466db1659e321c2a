----------------------------- MODULE HourLedger -----------------------------
(***************************************************************************)
(* What the hour bank promises, whatever the locks, walks, commits and     *)
(* refusals behind it: hours pass between a source and a booking in one    *)
(* move, a booking that lets go gives back all it holds, and nothing is    *)
(* drawn on a source that is closed, or past what it is worth.             *)
(*                                                                         *)
(* HourBank implements it with the statements of concurrent transactions   *)
(* as steps; BookingLifecycle implements it one handler a step.            *)
(***************************************************************************)
EXTENDS Integers, Functions

CONSTANTS
  Bookings,       \* who may hold hours
  Sources         \* what they are drawn on: purchases, packs, credits

VARIABLES
  worth,          \* hours each source was made for
  open,           \* whether it may be drawn on
  held            \* hours each booking holds of each source

vars == <<worth, open, held>>

\* Hours of p that the bookings hold by the ledger H.
Used(H, p) == SumFunction([b \in Bookings |-> H[b][p]])

Init == /\ worth \in [Sources -> Nat]
        /\ open \in [Sources -> BOOLEAN]
        /\ held = [b \in Bookings |-> [p \in Sources |-> 0]]

\* The ledger once the bookings of S have given all their hours back.
Without(S) == [b \in Bookings |-> IF b \in S THEN [p \in Sources |-> 0] ELSE held[b]]

\* Holds lapse, at one instant.
LetGo(S) == held' = Without(S)

\* The holds of S lapse, and then b draws hours or gives some back.
Settle(S, b) ==
  /\ held' \in [Bookings -> [Sources -> Nat]]
  /\ \A c \in Bookings \ {b} : held'[c] = Without(S)[c]
  /\ \/ \A p \in Sources : held'[b][p] <= Without(S)[b][p]
     \/ \A p \in Sources : held'[b][p] >= Without(S)[b][p]
  /\ \A p \in Sources : held'[b][p] > Without(S)[b][p] =>
       open[p] /\ Used(held', p) <= worth[p]

Move == \E S \in SUBSET Bookings : LetGo(S) \/ \E b \in Bookings : Settle(S, b)

Others(p) == \A q \in Sources \ {p} : worth'[q] = worth[q] /\ open'[q] = open[q]

\* The operator edits a source: never below what is held of it.
Edit(p) == /\ UNCHANGED held
           /\ Others(p)
           /\ worth'[p] >= Used(held, p)

\* With a move, a source nobody holds hours of is opened or closed: a
\* cancelled booking becomes a credit, a reinstated one takes it back.
Exchange(p) == /\ Move
               /\ Others(p)
               /\ Used(held', p) = 0

Next == /\ worth' \in [Sources -> Nat]
        /\ open' \in [Sources -> BOOLEAN]
        /\ \/ Move /\ UNCHANGED <<worth, open>>
           \/ \E p \in Sources : Edit(p) \/ Exchange(p)

Spec == Init /\ [][Next]_vars
=============================================================================
