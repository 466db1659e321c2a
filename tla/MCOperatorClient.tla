--------------------------- MODULE MCOperatorClient ---------------------------
(* One operator of two organisations, at one desk at a time.                *)
EXTENDS OperatorClient, TLC

Desk(steps, P, Q) == [pages |-> {Site} \cup P, follows |-> Q, steps |-> steps]

MCDesks ==
  {Desk(4, {<<"rooms", "detail">>, <<"spaces", "detail">>, <<"spaces", "list">>}, {OneOf("rooms")}),
   Desk(4, {<<"spaces", "detail">>, <<"spaces", "list">>}, {OneOf("spaces"), Public}),
   Desk(5, {<<"spaces", "new">>, <<"rooms", "list">>}, {Spaces}),
   Desk(3, {<<"bookings", "list">>, <<"bookings", "detail">>}, {ListOf("bookings"), OneOf("bookings")}),
   Desk(3, {<<"users", "list">>, <<"users", "detail">>, <<"users", "new">>}, {OneOf("users")}),
   Desk(4, {<<"packages", "list">>, <<"packages", "detail">>, <<"packages", "new">>}, {OneOf("packages")}),
   Desk(3, {<<"purchases", "list">>, <<"purchases", "detail">>}, {OneOf("purchases")}),
   Desk(4, {<<"support", "list">>, <<"support", "detail">>}, {OneOf("support"), HistoryOf("support")}),
   Desk(4, {<<"support", "list">>, <<"audit", "list">>}, {ListOf("support")}),
   Desk(5, {<<"organization", "detail">>}, {OneOf("organization")}),
   Desk(5, {<<"billing", "list">>, <<"dashboard", "list">>}, {ListOf("billing")}),
   Desk(4, {<<"calendar", "list">>}, {Mine, <<"calendar", "grid">>})}

Symmetry == Permutations(Orgs)
================================================================================
