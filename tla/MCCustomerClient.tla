--------------------------- MODULE MCCustomerClient ---------------------------
(* One customer's tab over two slots of two hours.                          *)
EXTENDS CustomerClient

\* what: the hours of a lapsed booking the bank had paid.
Opening(hours, packs, slots, what, known) ==
  [bank |-> hours, paid |-> packs, lapsed |-> slots, share |-> what, signedIn |-> known]

\* No hours at all; or the customer has yet to sign in, to hours that cover a
\* slot and a booking that has lapsed, half of it out of the pack.
MCOpenings == {Opening(0, 0, {}, 0, TRUE), Opening(2, 0, {CHOOSE s \in Slots : TRUE}, 1, FALSE)}

\* Hours for half a slot, left of an older pack.
MCHalfASlot == {Opening(1, 0, {}, 0, TRUE)}
================================================================================
