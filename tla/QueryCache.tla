------------------------------ MODULE QueryCache ------------------------------
(***************************************************************************)
(* One entry of the browser's query cache (TanStack Query), as the hooks   *)
(* of src/frontend use it under the defaults of app/providers.tsx.  The    *)
(* library is outside the repository; these operators are what its         *)
(* documentation promises and the pages rely on.                           *)
(*                                                                         *)
(* A read is three steps: it is asked, the server answers it with what it  *)
(* holds at that moment, and the answer is delivered.  A snapshot is       *)
(* [n, v]: v is the data, n how many of this client's own changes the      *)
(* server had made when it answered.                                       *)
(***************************************************************************)
EXTENDS Integers

CONSTANT None

\* data: the last snapshot delivered; stale: invalidated, or older than staleTime;
\* flight and snap: the read on its way; passed: an invalidation met that
\* read and could not cancel it; late: the data came by such a read.
Empty == [data |-> None, stale |-> FALSE, failed |-> FALSE, flight |-> "idle",
          snap |-> None, passed |-> FALSE, late |-> FALSE]

Entries(V) ==
  [data: [n: Nat, v: V] \cup {None}, stale: BOOLEAN, failed: BOOLEAN,
   flight: {"idle", "asked", "answered"}, snap: [n: Nat, v: V] \cup {None},
   passed: BOOLEAN, late: BOOLEAN]

Has(e) == e.data # None

AtRest(e) == Has(e) /\ ~e.stale /\ e.flight = "idle"

\* A fetch joins the one in flight.
Ask(e) ==
  IF e.flight # "idle" THEN e
  ELSE [e EXCEPT !.flight = "asked", !.passed = FALSE,
                 !.failed = @ /\ Has(e)]

\* A component that shows the query mounts: fresh data is not read again.
Mount(e) == IF Has(e) /\ ~e.stale THEN e ELSE Ask(e)

\* invalidateQueries: a query on screen is read again, and a read of it in
\* flight is cancelled, unless it is the first one; others are only marked,
\* and a read in flight of theirs goes on.
Invalidate(e, shown) ==
  IF shown /\ (Has(e) \/ e.flight = "idle")
  THEN [e EXCEPT !.stale = Has(e), !.flight = "asked", !.snap = None,
                 !.passed = FALSE, !.failed = @ /\ Has(e)]
  ELSE [e EXCEPT !.stale = Has(e), !.passed = e.flight # "idle"]

Answer(e, s) == [e EXCEPT !.flight = "answered", !.snap = s]

Deliver(e) ==
  [e EXCEPT !.data = e.snap, !.stale = FALSE, !.failed = FALSE,
            !.flight = "idle", !.snap = None, !.late = e.passed, !.passed = FALSE]

Fail(e) == [e EXCEPT !.flight = "idle", !.snap = None, !.failed = TRUE, !.passed = FALSE]

\* staleTime passes; a query on screen is not read again for it.
Age(e) == [e EXCEPT !.stale = Has(e)]

\* The entry will not settle on data older than change number a, whatever
\* becomes of the read in flight.
Sound(e, a) ==
  /\ Has(e) /\ ~e.stale /\ ~e.late => e.data.n >= a
  /\ e.flight = "answered" /\ ~e.passed => e.snap.n >= a
================================================================================
