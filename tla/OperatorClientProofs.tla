------------------------- MODULE OperatorClientProofs -------------------------
(***************************************************************************)
(* What OperatorClient promises for any organisations, desks and bounds:   *)
(* nothing of another organisation is shown or sent, and a handler that is *)
(* through leaves no list older than its change, and one that waits, waits *)
(* for a read that is on its way.                                          *)
(***************************************************************************)
EXTENDS OperatorClient, QueryCacheProofs, FiniteSetTheorems

Entities == {"rooms", "spaces", "bookings", "users", "packages", "purchases", "support",
             "organization", "billing", "calendar"}

Families == Entities \cup {"history", "public"}

\* What a handler does after its request: it reads again, or goes elsewhere.
Targets == {ListOf(e) : e \in Entities} \cup {OneOf(e) : e \in Entities} \cup {None}
Steps == {s \in [tell: SUBSET Families, one: BOOLEAN, wait: BOOLEAN, go: Targets] :
            s.go # None => s.tell = {}}

\* Family f is read again by one of the steps, whole.
Covered(todo, f) == \E j \in DOMAIN todo : f \in todo[j].tell /\ ~todo[j].one

\* A handler: steps that cover what it owes, on a page of a tenant's own keys.
IsHandler(h) ==
  /\ h.then \in Seq(Steps)
  /\ \A f \in h.owes : Covered(h.then, f)
  /\ h.at[1] # "public" /\ h.at[2] \in {"list", "detail", "new"}
  /\ h.at = <<h.at[1], h.at[2]>>

-------------------------------------------------------------------------------
(* The handlers.                                                           *)

\* A step of either kind is a step.
LEMMA StepIsStep ==
  /\ \A f \in Families : Tell(f) \in Steps /\ TellOne(f) \in Steps
  /\ \A e \in Entities : Go(ListOf(e)) \in Steps /\ Go(OneOf(e)) \in Steps
  /\ Refresh \in Steps
<1>1. ASSUME NEW F \in SUBSET Families, NEW one \in BOOLEAN, NEW wait \in BOOLEAN
      PROVE  Step(F, one, wait) \in Steps
  <2>1. None \in Targets
    BY DEF Targets
  <2> QED  BY <1>1, <2>1 DEF Steps, Step
<1>2. ASSUME NEW p \in Targets PROVE Go(p) \in Steps
  BY <1>2 DEF Steps, Go
<1>3. \A f \in Families : Tell(f) \in Steps /\ TellOne(f) \in Steps
  <2>1. \A f \in Families : {f} \in SUBSET Families
    OBVIOUS
  <2> QED  BY <2>1, <1>1 DEF Tell, TellOne
<1>4. \A e \in Entities : ListOf(e) \in Targets /\ OneOf(e) \in Targets
  BY DEF Targets
<1>5. Refresh \in Steps
  <2>1. {"calendar", "bookings"} \in SUBSET Families
    BY DEF Families, Entities
  <2> QED  BY <2>1, <1>1 DEF Refresh
<1> QED  BY <1>2, <1>3, <1>4, <1>5

\* useCrud's invalidate covers its entity, its history, the spaces and the
\* public site, with or without an id.
LEMMA InvalidateCovers ==
  ASSUME NEW e \in Entities
  PROVE  /\ InvalidateOne(e) \in Seq(Steps) /\ InvalidateAll(e) \in Seq(Steps)
         /\ \A f \in Owes(e) : Covered(InvalidateOne(e), f) /\ Covered(InvalidateAll(e), f)
<1>1. e \in Families /\ "history" \in Families /\ "spaces" \in Families /\ "public" \in Families
  BY DEF Families, Entities
<1>2. InvalidateOne(e) \in Seq(Steps) /\ InvalidateAll(e) \in Seq(Steps)
  <2>1. /\ Tell(e) \in Steps /\ Tell("history") \in Steps /\ Tell("spaces") \in Steps
        /\ TellOne(e) \in Steps /\ Tell("public") \in Steps
    BY <1>1, StepIsStep
  <2> HIDE DEF Steps
  <2> QED  BY <2>1 DEF InvalidateOne, InvalidateAll
<1>3. \A f \in Owes(e) : f \in {e, "history", "spaces", "public"}
  <2>1. CASE e \in {"rooms", "spaces"}
    BY <2>1 DEF Owes
  <2>2. CASE e \notin {"rooms", "spaces"}
    BY <2>2 DEF Owes
  <2> QED  BY <2>1, <2>2
<1>4. /\ DOMAIN InvalidateOne(e) = 1 .. 5 /\ DOMAIN InvalidateAll(e) = 1 .. 4
      /\ InvalidateOne(e)[1] = Tell(e) /\ InvalidateAll(e)[1] = Tell(e)
      /\ InvalidateOne(e)[2] = Tell("history") /\ InvalidateAll(e)[2] = Tell("history")
      /\ InvalidateOne(e)[3] = Tell("spaces") /\ InvalidateAll(e)[3] = Tell("spaces")
      /\ InvalidateOne(e)[5] = Tell("public") /\ InvalidateAll(e)[4] = Tell("public")
  BY DEF InvalidateOne, InvalidateAll
<1>5. \A f : f \in Tell(f).tell /\ ~Tell(f).one
  BY DEF Tell, Step
<1>6. ASSUME NEW f \in Owes(e) PROVE Covered(InvalidateOne(e), f) /\ Covered(InvalidateAll(e), f)
  <2> HIDE DEF InvalidateOne, InvalidateAll
  <2>1. \E j \in {1, 2, 3, 5} : InvalidateOne(e)[j] = Tell(f)
    BY <1>3, <1>4
  <2>2. \E j \in {1, 2, 3, 4} : InvalidateAll(e)[j] = Tell(f)
    BY <1>3, <1>4
  <2> QED  BY <2>1, <2>2, <1>4, <1>5 DEF Covered
<1> QED  BY <1>2, <1>6

\* Steps that cover a family still do among more steps.
LEMMA AppendCovers ==
  ASSUME NEW s \in Seq(Steps), NEW x \in Steps, NEW f, Covered(s, f) PROVE Covered(Append(s, x), f)
  BY DEF Covered

\* What one half of a handler covers, the whole covers.
LEMMA ConcatCovers ==
  ASSUME NEW s \in Seq(Steps), NEW t \in Seq(Steps), NEW f, Covered(s, f) \/ Covered(t, f)
  PROVE  Covered(s \o t, f)
<1>1. CASE Covered(s, f)
  BY <1>1 DEF Covered
<1>2. CASE Covered(t, f)
  <2>1. PICK j \in DOMAIN t : f \in t[j].tell /\ ~t[j].one
    BY <1>2 DEF Covered
  <2>2. Len(s) + j \in DOMAIN (s \o t) /\ (s \o t)[Len(s) + j] = t[j]
    OBVIOUS
  <2> QED  BY <2>1, <2>2 DEF Covered
<1> QED  BY <1>1, <1>2

\* A handler whose steps are invalidate, then perhaps a page, or both and again.
LEMMA HandlerOk ==
  ASSUME NEW e \in Entities, NEW view \in {"list", "detail", "new"}, NEW via, NEW x \in Steps
  PROVE  /\ IsHandler(Handler(e, view, via, InvalidateOne(e)))
         /\ IsHandler(Handler(e, view, via, InvalidateAll(e)))
         /\ IsHandler(Handler(e, view, via, Append(InvalidateAll(e), x)))
         /\ IsHandler(Handler(e, view, via, Append(InvalidateAll(e), x) \o InvalidateOne(e)))
         /\ IsHandler(Handler(e, view, via, <<x>> \o InvalidateOne(e)))
<1> DEFINE all == InvalidateAll(e)  one == InvalidateOne(e)
<1>1. all \in Seq(Steps) /\ one \in Seq(Steps) /\ \A f \in Owes(e) : Covered(one, f) /\ Covered(all, f)
  BY InvalidateCovers
<1>2. e # "public"
  BY DEF Entities
<1>3. ASSUME NEW then \in Seq(Steps), \A f \in Owes(e) : Covered(then, f)
      PROVE  IsHandler(Handler(e, view, via, then))
  BY <1>2, <1>3 DEF IsHandler, Handler
<1> HIDE DEF all, one
<1>4. Append(all, x) \in Seq(Steps) /\ \A f \in Owes(e) : Covered(Append(all, x), f)
  BY <1>1, AppendCovers
<1>5. Append(all, x) \o one \in Seq(Steps) /\ \A f \in Owes(e) : Covered(Append(all, x) \o one, f)
  <2>1. Append(all, x) \o one \in Seq(Steps)
    BY <1>1, <1>4
  <2>2. \A f \in Owes(e) : Covered(Append(all, x) \o one, f)
    BY <1>1, <1>4, ConcatCovers
  <2> QED  BY <2>1, <2>2
<1>6. <<x>> \in Seq(Steps)
  OBVIOUS
<1>7. <<x>> \o one \in Seq(Steps) /\ \A f \in Owes(e) : Covered(<<x>> \o one, f)
  <2>1. <<x>> \o one \in Seq(Steps)
    BY <1>1, <1>6
  <2>2. \A f \in Owes(e) : Covered(<<x>> \o one, f)
    BY <1>1, <1>6, ConcatCovers
  <2> QED  BY <2>1, <2>2
<1>8. /\ IsHandler(Handler(e, view, via, one)) /\ IsHandler(Handler(e, view, via, all))
      /\ IsHandler(Handler(e, view, via, Append(all, x)))
      /\ IsHandler(Handler(e, view, via, Append(all, x) \o one))
      /\ IsHandler(Handler(e, view, via, <<x>> \o one))
  BY <1>1, <1>3, <1>4, <1>5, <1>7
<1> QED  BY <1>8 DEF all, one

\* The forms most handlers have.
LEMMA DetailOk == ASSUME NEW e \in Entities, NEW via PROVE IsHandler(Detail(e, via))
  BY HandlerOk, StepIsStep DEF Detail

\* Deleting a record.
LEMMA DeleteOk == ASSUME NEW e \in Entities PROVE IsHandler(Delete(e))
  BY HandlerOk, StepIsStep DEF Delete

\* Deleting records one after another.
LEMMA DeletesOk == ASSUME NEW e \in Entities PROVE IsHandler(Deletes(e))
<1> DEFINE then == Append(InvalidateAll(e), Go(ListOf(e)))
           more == InvalidateOne(e)
           h == Handler(e, "detail", "delete", then \o more)
<1>1. Delete(e) = [at |-> <<e, "detail">>, via |-> "delete", then |-> then, owes |-> Owes(e)]
  BY DEF Delete, Handler
<1>2. Deletes(e) = [Delete(e) EXCEPT !.then = @ \o more]
  BY DEF Deletes
<1>3. IsHandler(h)
  BY HandlerOk, StepIsStep
<1>4. h.then = then \o more /\ h.owes = Owes(e) /\ h.at = <<e, "detail">>
  BY DEF Handler
<1> HIDE DEF then, more, h
<1>5. Deletes(e).then = h.then /\ Deletes(e).owes = h.owes /\ Deletes(e).at = h.at
  BY <1>1, <1>2, <1>4
<1> QED  BY <1>3, <1>5 DEF IsHandler

\* A write made on the calendar.
LEMMA OnCalendarOk == ASSUME NEW via PROVE IsHandler(OnCalendar(via))
<1> DEFINE h == OnCalendar(via)
<1>1. /\ h.then = <<Refresh>> /\ h.owes = {"calendar", "bookings"} /\ h.at = <<"calendar", "list">>
  BY DEF OnCalendar, Handler
<1>2. Refresh \in Steps /\ Refresh.tell = {"calendar", "bookings"} /\ ~Refresh.one
  BY StepIsStep DEF Refresh, Step
<1>3. h.then \in Seq(Steps) /\ DOMAIN h.then = {1} /\ h.then[1] = Refresh
  BY <1>1, <1>2
<1> HIDE DEF h
<1>4. IsHandler(h)
  BY <1>1, <1>2, <1>3 DEF IsHandler, Covered
<1> QED  BY <1>4 DEF h

\* Handlers that owe and tell less than their entity's, or nothing.
LEMMA OtherHandlersOk == IsHandler(CreateSpace) /\ IsHandler(MarkInInbox)
<1>1. IsHandler(CreateSpace)
  <2>1. CreateSpace.then = <<>> /\ CreateSpace.owes = {} /\ CreateSpace.at = <<"spaces", "new">>
    BY DEF CreateSpace, Handler
  <2> QED  BY <2>1 DEF IsHandler
<1>2. IsHandler(MarkInInbox)
  <2>1. /\ MarkInInbox.then = <<Tell("support")>> /\ MarkInInbox.owes = {"support"}
        /\ MarkInInbox.at = <<"support", "list">>
    BY DEF MarkInInbox, Handler
  <2>2. Tell("support") \in Steps /\ Tell("support").tell = {"support"} /\ ~Tell("support").one
    BY StepIsStep DEF Families, Entities, Tell, Step
  <2> QED  BY <2>1, <2>2 DEF IsHandler, Covered
<1> QED  BY <1>1, <1>2

\* Every handler of every page.
LEMMA HandlersOk == \A h \in Handlers : IsHandler(h)
<1>1. \A e \in {"rooms", "spaces", "bookings", "users", "packages", "purchases", "support",
                "organization", "billing"} : e \in Entities
  BY DEF Entities
<1>2. \A h \in {SaveRoom, SaveHours, CopyDay, AddBlock, RemoveBlock, RoomPhotos, ActivateRoom} : IsHandler(h)
  BY <1>1, DetailOk DEF SaveRoom, SaveHours, CopyDay, AddBlock, RemoveBlock, RoomPhotos, ActivateRoom
<1>3. \A h \in {SaveSpace, SpacePhotos, CreateRoom, DuplicateHere, ToggleRoom, ActivateSpace} : IsHandler(h)
  BY <1>1, DetailOk DEF SaveSpace, SpacePhotos, CreateRoom, DuplicateHere, ToggleRoom, ActivateSpace
<1>4. \A h \in {Reschedule, SaveNotes, SetStatus, CorrectPrice, CancelBooking, MarkPaid} : IsHandler(h)
  BY <1>1, DetailOk DEF Reschedule, SaveNotes, SetStatus, CorrectPrice, CancelBooking, MarkPaid
<1>5. \A h \in {SaveUser, SetRole, GrantHours, ExtendValidity, AdjustHours, CancelPack, AnonymiseUser,
                SetPassword, SuspendUser, SendReset} : IsHandler(h)
  BY <1>1, DetailOk DEF SaveUser, SetRole, GrantHours, ExtendValidity, AdjustHours, CancelPack,
                        AnonymiseUser, SetPassword, SuspendUser, SendReset
<1>6. \A h \in {SavePackage, ActivatePackage, ExtendPurchase, SavePurchaseNote, AdjustPurchase,
                CancelPurchase, ReactivatePurchase, UpdateRequest} : IsHandler(h)
  BY <1>1, DetailOk DEF SavePackage, ActivatePackage, ExtendPurchase, SavePurchaseNote, AdjustPurchase,
                        CancelPurchase, ReactivatePurchase, UpdateRequest
<1>7. \A h \in {DeleteBooking, DeletePackage, DeleteUser, DeletePurchase, DeleteRequest} : IsHandler(h)
  BY <1>1, DeletesOk, DeleteOk
  DEF DeleteBooking, DeletePackage, DeleteUser, DeletePurchase, DeleteRequest
<1>8. \A h \in {DuplicateRoom, DeleteRoom, DeleteSpace} : IsHandler(h)
  BY <1>1, HandlerOk, StepIsStep DEF DuplicateRoom, DeleteRoom, DeleteSpace
<1>9. \A h \in {RemoveMember, CreateUser, CreatePackage} : IsHandler(h)
  BY <1>1, HandlerOk, StepIsStep DEF RemoveMember, CreateUser, CreatePackage
<1>10. \A h \in {SaveSettings, RegisterInvoice, EditInvoice, DeleteInvoice} : IsHandler(h)
  BY <1>1, HandlerOk, StepIsStep DEF SaveSettings, RegisterInvoice, EditInvoice, DeleteInvoice
<1>11. \A h \in {SheetAction, ConfirmMove, DeleteBlock, NewEntry} : IsHandler(h)
  BY OnCalendarOk DEF SheetAction, ConfirmMove, DeleteBlock, NewEntry
<1> HIDE DEF IsHandler
<1> QED
  BY <1>2, <1>3, <1>4, <1>5, <1>6, <1>7, <1>8, <1>9, <1>10, <1>11, OtherHandlersOk DEF Handlers

-------------------------------------------------------------------------------
(* The invariant.                                                          *)

\* A key of one organisation's, which the operator's other must not see.
Private(k) == k[3] # None /\ k[1] \notin {"public", "calendar"}

\* What is in an entry, or on its way to it, is its key's organisation's.
OwnEntry(k, e) ==
  /\ e.flight = "idle" => e.snap = None
  /\ e.flight # "idle" => e.snap \in [n: Nat, v: Orgs \cup {None}]
  /\ Private(k) => /\ Has(e) => e.data.v = k[3]
                   /\ e.flight # "idle" => e.snap.v = k[3]

\* What handler x still has to do for the entry e of key k: read it again, or
\* nothing more, because e keeps the change already.
Owed(x, k, e) ==
  x.stage \in {"sent", "served", "telling"} /\ k[1] \in x.h.owes =>
    Covered(x.todo, k[1]) \/ (x.stage = "telling" /\ Keeps(e, x.n))

\* Ids go to the organisation they are of.
OwnIds(x) == x.stage = "sent" /\ x.h.at[1] # "calendar" => x.of = x.org

IsCall(x, n) ==
  x \in [h: {x.h}, org: {x.org}, of: {x.of}, n: 0 .. n, stage: {x.stage}, todo: Seq(Steps),
         waits: {x.waits}]

GoodCall(x, c, n) == IsCall(x, n) /\ OwnIds(x) /\ \A k \in DOMAIN c : Owed(x, k, c[k])

Listed(cs) == Len(cs) \in Nat /\ DOMAIN cs = 1 .. Len(cs) /\ cs = [i \in DOMAIN cs |-> cs[i]]

IInv ==
  /\ org \in Orgs /\ applied \in Nat
  /\ DOMAIN cache = Keys(desk)
  /\ acked = [k \in DOMAIN cache |-> acked[k]]
  /\ \A k \in DOMAIN cache :
       acked[k] \in 0 .. applied /\ Keeps(cache[k], acked[k]) /\ OwnEntry(k, cache[k])
  /\ Listed(calls)
  /\ \A i \in DOMAIN calls : GoodCall(calls[i], cache, applied)

-------------------------------------------------------------------------------
(* The cache.                                                              *)

\* A cache c that keeps whatever the present one keeps.
Better(c) ==
  /\ DOMAIN c = DOMAIN cache
  /\ \A k \in DOMAIN cache :
       OwnEntry(k, c[k]) /\ \A a \in 0 .. applied : Keeps(cache[k], a) => Keeps(c[k], a)

AskedEntry(k, e) ==
  IF e.flight = "asked" /\ e.snap = None
  THEN [e EXCEPT !.snap = [n |-> 0, v |-> IF k[1] = "public" THEN None ELSE org]] ELSE e

\* No page but the calendar shows a private key of another organisation.
LEMMA ShowsOwn ==
  ASSUME org \in Orgs, NEW p, NEW c, NEW k \in Shows(p, org, c), Private(k) PROVE k[3] = org
<1>1. CASE p.at = <<"calendar", "list">>
  BY <1>1 DEF Shows, Private, KeyOf, Mine
<1>2. CASE p.at # <<"calendar", "list">>
  BY <1>2 DEF Shows, Private, KeyOf
<1> QED  BY <1>1, <1>2

\* Asking, of the organisation selected, keeps what was kept.
LEMMA AskedEntryKeeps ==
  ASSUME NEW k, NEW e, NEW a, Keeps(e, a) PROVE Keeps(AskedEntry(k, e), a)
  BY DEF AskedEntry, Keeps, IsEntry, Has, Sound

\* A read that is on its way has been asked.
LEMMA OwnAsked == ASSUME NEW k, NEW e, OwnEntry(k, e) PROVE AskedEntry(k, e) = e
  BY OperatorAssumption DEF AskedEntry, OwnEntry

\* A read asked anew is of the organisation selected.
LEMMA AskedOwn ==
  ASSUME org \in Orgs, NEW k, NEW e, NEW b, NEW shown, OwnEntry(k, e), IsEntry(e),
         Private(k) => k[3] = org
  PROVE  /\ OwnEntry(k, AskedEntry(k, Mount(e)))
         /\ OwnEntry(k, AskedEntry(k, Invalidate(e, shown)))
<1>1. AskedEntry(k, e) = e
  BY OwnAsked
<1>2. OwnEntry(k, AskedEntry(k, Mount(e)))
  BY <1>1, OperatorAssumption DEF OwnEntry, AskedEntry, Mount, Ask, Has, IsEntry, Private
<1>3. OwnEntry(k, AskedEntry(k, Invalidate(e, shown)))
  BY <1>1, OperatorAssumption DEF OwnEntry, AskedEntry, Invalidate, Has, IsEntry, Private
<1> QED  BY <1>2, <1>3

\* The present cache is as good as itself.
LEMMA SameBetter == ASSUME IInv PROVE Better(cache)
  BY DEF IInv, Better

\* Mounting a page.
LEMMA MountedBetter ==
  ASSUME IInv, NEW c, Better(c), NEW K, \A k \in K : Private(k) => k[3] = org
  PROVE  Better(Mounted(c, K))
<1>1. ASSUME NEW k \in DOMAIN cache
      PROVE  /\ Mounted(c, K)[k] = AskedEntry(k, IF k \in K THEN Mount(c[k]) ELSE c[k])
             /\ OwnEntry(k, c[k]) /\ IsEntry(c[k])
  <2>1. Keeps(c[k], acked[k])
    BY DEF IInv, Better
  <2> QED  BY <2>1 DEF Better, Mounted, Asked, AskedEntry, Keeps
<1>2. ASSUME NEW k \in DOMAIN cache PROVE OwnEntry(k, Mounted(c, K)[k])
  BY <1>1, AskedOwn, OwnAsked DEF IInv
<1>3. ASSUME NEW k \in DOMAIN cache, NEW a \in 0 .. applied, Keeps(cache[k], a)
      PROVE  Keeps(Mounted(c, K)[k], a)
  <2>1. Keeps(c[k], a)
    BY <1>3 DEF Better
  <2> QED  BY <1>1, <2>1, MountKeeps, AskedEntryKeeps
<1>4. DOMAIN Mounted(c, K) = DOMAIN cache
  BY DEF Better, Mounted, Asked
<1> QED  BY <1>2, <1>3, <1>4 DEF Better

\* Reading the keys K again: each keeps any change from then on.
LEMMA InvalidatedBetter ==
  ASSUME IInv, NEW K, NEW c,
         c = Asked([k \in DOMAIN cache |-> IF k \in K THEN Invalidate(cache[k], k \in Shown) ELSE cache[k]])
  PROVE  Better(c) /\ \A k \in K \cap DOMAIN cache : \A a : Keeps(c[k], a)
<1>1. ASSUME NEW k \in DOMAIN cache
      PROVE  /\ c[k] = AskedEntry(k, IF k \in K THEN Invalidate(cache[k], k \in Shown) ELSE cache[k])
             /\ OwnEntry(k, cache[k]) /\ IsEntry(cache[k]) /\ Keeps(cache[k], acked[k])
  BY DEF Asked, AskedEntry, IInv, Keeps
<1>2. ASSUME NEW k \in DOMAIN cache PROVE OwnEntry(k, c[k])
  <2>1. CASE k \in Shown
    <3>1. Private(k) => k[3] = org
      BY <2>1, ShowsOwn DEF Shown, IInv
    <3> QED  BY <1>1, <3>1, AskedOwn, OwnAsked DEF IInv
  <2>2. CASE k \notin Shown
    <3>1. OwnEntry(k, Invalidate(cache[k], k \in Shown))
      BY <1>1, <2>2 DEF Invalidate, OwnEntry, IsEntry, Has
    <3> QED  BY <1>1, <3>1, OwnAsked
  <2> QED  BY <2>1, <2>2
<1>3. ASSUME NEW k \in K \cap DOMAIN cache, NEW a PROVE Keeps(c[k], a)
  BY <1>1, InvalidateKeeps, AskedEntryKeeps
<1>4. ASSUME NEW k \in DOMAIN cache, NEW a \in 0 .. applied, Keeps(cache[k], a) PROVE Keeps(c[k], a)
  BY <1>1, <1>4, InvalidateKeeps, AskedEntryKeeps
<1>5. DOMAIN c = DOMAIN cache
  BY DEF Asked
<1> QED  BY <1>2, <1>3, <1>4, <1>5 DEF Better

\* Moving one entry.
LEMMA MoveBetter ==
  ASSUME IInv, NEW k \in DOMAIN cache, NEW e, OwnEntry(k, e),
         \A a \in 0 .. applied : Keeps(cache[k], a) => Keeps(e, a)
  PROVE  Better([cache EXCEPT ![k] = e])
  BY DEF IInv, Better

-------------------------------------------------------------------------------
(* The requests.                                                           *)

\* What every request owes stays settled as the cache gets better.
LEMMA GoodStays ==
  ASSUME IInv, NEW c, Better(c), NEW i \in DOMAIN calls, NEW W
  PROVE  GoodCall(calls[i], c, applied) /\ GoodCall([calls[i] EXCEPT !.waits = W], c, applied)
<1> DEFINE x == calls[i]  y == [x EXCEPT !.waits = W]
<1>1. IsCall(x, applied) /\ OwnIds(x)
  BY DEF IInv, GoodCall
<1>2. ASSUME NEW k \in DOMAIN c PROVE Owed(x, k, c[k])
  <2>1. Owed(x, k, cache[k]) /\ x.n \in 0 .. applied
    BY DEF IInv, GoodCall, IsCall, Better
  <2> QED  BY <2>1 DEF Owed, Better
<1> HIDE DEF x
<1>3. /\ IsCall(y, applied) /\ y.h = x.h /\ y.org = x.org /\ y.of = x.of /\ y.n = x.n
      /\ y.stage = x.stage /\ y.todo = x.todo
  BY <1>1 DEF IsCall
<1> HIDE DEF y
<1>4. GoodCall(x, c, applied) /\ GoodCall(y, c, applied)
  BY <1>1, <1>2, <1>3 DEF GoodCall, OwnIds, Owed
<1> QED  BY <1>4 DEF x, y

\* A handler that is through owes nothing.
LEMMA DoneIsGood == ASSUME NEW c, NEW n \in Nat PROVE GoodCall(Done, c, n)
  BY DEF GoodCall, Done, IsCall, OwnIds, Owed

\* A function on 1 .. n is a list.
LEMMA IsListed ==
  ASSUME NEW n \in Nat, NEW cs, DOMAIN cs = 1 .. n, cs = [j \in 1 .. n |-> cs[j]] PROVE Listed(cs)
<1>1. cs \in Seq({cs[j] : j \in 1 .. n})
  OBVIOUS
<1> QED  BY <1>1 DEF Listed

\* A list of requests is one still when its members change.
LEMMA ListedStays ==
  ASSUME Listed(calls), NEW i, NEW x, NEW K
  PROVE  /\ Listed([calls EXCEPT ![i] = x]) /\ DOMAIN [calls EXCEPT ![i] = x] = DOMAIN calls
         /\ Listed(Released(calls, K)) /\ DOMAIN Released(calls, K) = DOMAIN calls
<1>2. /\ DOMAIN [calls EXCEPT ![i] = x] = 1 .. Len(calls)
      /\ [calls EXCEPT ![i] = x] = [j \in 1 .. Len(calls) |-> [calls EXCEPT ![i] = x][j]]
  BY DEF Listed
<1>3. /\ DOMAIN Released(calls, K) = 1 .. Len(calls)
      /\ Released(calls, K) = [j \in 1 .. Len(calls) |-> Released(calls, K)[j]]
  BY DEF Listed, Released
<1> QED  BY <1>2, <1>3, IsListed DEF Listed

-------------------------------------------------------------------------------
(* The steps.                                                              *)

\* A step that only reads, and whom it releases.
LEMMA CacheInv ==
  ASSUME IInv, Better(cache'), UNCHANGED <<desk, applied, acked>>, org' \in Orgs,
         calls' = calls \/ \E K : calls' = Released(calls, K)
  PROVE  IInv'
<1>1. CASE calls' = calls
  <2>1. \A i \in DOMAIN calls : GoodCall(calls[i], cache', applied)
    BY GoodStays
  <2>2. \A k \in DOMAIN cache : acked[k] \in 0 .. applied /\ Keeps(cache'[k], acked[k]) /\ OwnEntry(k, cache'[k])
    BY DEF IInv, Better
  <2> QED  BY <1>1, <2>1, <2>2 DEF IInv, Better
<1>2. CASE \E K : calls' = Released(calls, K)
  <2>1. PICK K : calls' = Released(calls, K)
    BY <1>2
  <2>2. Listed(calls') /\ DOMAIN calls' = DOMAIN calls
    BY <2>1, ListedStays DEF IInv
  <2>3. ASSUME NEW i \in DOMAIN calls PROVE GoodCall(calls'[i], cache', applied)
    <3>1. calls'[i] = [calls[i] EXCEPT !.waits = calls[i].waits \ K]
      BY <2>1 DEF Released
    <3> QED  BY <3>1, GoodStays
  <2>4. \A k \in DOMAIN cache : acked[k] \in 0 .. applied /\ Keeps(cache'[k], acked[k]) /\ OwnEntry(k, cache'[k])
    BY DEF IInv, Better
  <2> QED  BY <2>2, <2>3, <2>4 DEF IInv, Better
<1> QED  BY <1>1, <1>2

\* A step that changes one request, perhaps while others are released and the
\* cache is read.
LEMMA CallInv ==
  ASSUME IInv, Better(cache'), UNCHANGED <<desk, org>>, NEW i \in DOMAIN calls, NEW x,
         \/ calls' = [calls EXCEPT ![i] = x]
         \/ \E K : calls' = [Released(calls, K) EXCEPT ![i] = x],
         applied' \in Nat, applied <= applied', GoodCall(x, cache', applied'),
         \/ acked' = acked
         \/ /\ acked' = [k \in DOMAIN cache |-> acked'[k]]
            /\ \A k \in DOMAIN cache : acked'[k] \in 0 .. applied' /\ Keeps(cache'[k], acked'[k])
  PROVE  IInv'
<1>1. Listed(calls') /\ DOMAIN calls' = DOMAIN calls
  <2>1. \A cs : Listed(cs) => Listed([cs EXCEPT ![i] = x])
    <3>1. SUFFICES ASSUME NEW cs, Listed(cs) PROVE Listed([cs EXCEPT ![i] = x])
      OBVIOUS
    <3>2. DOMAIN [cs EXCEPT ![i] = x] = 1 .. Len(cs)
      BY <3>1 DEF Listed
    <3>3. [cs EXCEPT ![i] = x] = [j \in 1 .. Len(cs) |-> [cs EXCEPT ![i] = x][j]]
      BY <3>1, <3>2 DEF Listed
    <3> QED  BY <3>1, <3>2, <3>3, IsListed DEF Listed
  <2> QED  BY <2>1, ListedStays DEF IInv
<1>2. ASSUME NEW j \in DOMAIN calls PROVE GoodCall(calls'[j], cache', applied')
  <2>1. CASE j = i
    <3>1. calls'[j] = x
      BY <2>1, ListedStays DEF IInv
    <3> QED  BY <3>1
  <2>2. CASE j # i
    <3>1. calls'[j] = calls[j] \/ \E K : calls'[j] = [calls[j] EXCEPT !.waits = calls[j].waits \ K]
      BY <2>2, ListedStays DEF IInv, Released
    <3>2. GoodCall(calls'[j], cache', applied)
      <4>1. \A W : GoodCall(calls[j], cache', applied) /\ GoodCall([calls[j] EXCEPT !.waits = W], cache', applied)
        BY GoodStays
      <4> QED  BY <3>1, <4>1
    <3> QED  BY <3>2 DEF GoodCall, IsCall, IInv
  <2> QED  BY <2>1, <2>2
<1>3. /\ acked' = [k \in DOMAIN cache |-> acked'[k]]
      /\ \A k \in DOMAIN cache : acked'[k] \in 0 .. applied' /\ Keeps(cache'[k], acked'[k])
  BY DEF IInv, Better
<1> QED  BY <1>1, <1>2, <1>3 DEF IInv, Better

\* A handler's next step settles what it was to settle: a family it has read
\* again keeps the change, the others are still ahead.
LEMMA AdvanceInv ==
  ASSUME IInv, NEW i \in DOMAIN calls, calls[i].stage \in {"served", "telling"}, NEW pg,
         Advance(i, pg), UNCHANGED <<desk, org, applied>>
  PROVE  IInv'
<1> DEFINE c == calls[i]  s == Head(c.todo)  K == Reach(s, c.org)
           y == [c EXCEPT !.todo = Tail(@), !.stage = "telling"]
<1>1. /\ IsCall(c, applied) /\ c.todo \in Seq(Steps) /\ c.n \in 0 .. applied
      /\ \A k \in DOMAIN cache : Owed(c, k, cache[k])
      /\ applied \in Nat
  BY DEF IInv, GoodCall, IsCall
<1>2. CASE c.todo = <<>>
  <2>1. /\ calls' = [calls EXCEPT ![i] = Done] /\ cache' = cache
        /\ acked' = [k \in DOMAIN acked |->
             IF k[1] \in c.h.owes /\ k[3] \in {c.org, None} THEN Most(acked[k], c.n) ELSE acked[k]]
    BY <1>2 DEF Advance
  <2>2. ASSUME NEW k \in DOMAIN cache
        PROVE  acked'[k] \in 0 .. applied /\ Keeps(cache[k], acked'[k])
    <3>1. acked[k] \in 0 .. applied /\ Keeps(cache[k], acked[k]) /\ k \in DOMAIN acked
      BY DEF IInv
    <3>2. k[1] \in c.h.owes => Keeps(cache[k], c.n)
      BY <1>1, <1>2 DEF Owed, Covered
    <3> QED  BY <1>1, <2>1, <3>1, <3>2 DEF Most
  <2>3. acked' = [k \in DOMAIN cache |-> acked'[k]]
    BY <2>1 DEF IInv
  <2>4. GoodCall(Done, cache', applied')
    BY <1>1, DoneIsGood
  <2>5. Better(cache')
    BY <2>1, SameBetter
  <2>6. applied' \in Nat /\ applied <= applied' /\ applied' = applied
    BY <1>1
  <2> HIDE DEF c
  <2> QED  BY <2>1, <2>2, <2>3, <2>4, <2>5, <2>6, CallInv
<1>3. CASE c.todo # <<>>
  <2>1. /\ s \in Steps /\ Tail(c.todo) \in Seq(Steps)
        /\ DOMAIN c.todo = 1 .. Len(c.todo) /\ s = c.todo[1]
        /\ \A j \in DOMAIN c.todo : j # 1 => j - 1 \in DOMAIN Tail(c.todo) /\ Tail(c.todo)[j - 1] = c.todo[j]
    BY <1>1, <1>3
  <2>2. ASSUME NEW f, Covered(c.todo, f) PROVE (f \in s.tell /\ ~s.one) \/ Covered(Tail(c.todo), f)
    BY <2>1, <2>2 DEF Covered
  <2>3. ASSUME NEW W PROVE
         LET z == [c EXCEPT !.todo = Tail(@), !.stage = "telling", !.waits = W]
         IN  /\ IsCall(z, applied) /\ z.h = c.h /\ z.n = c.n /\ z.stage = "telling" /\ z.todo = Tail(c.todo)
    <3> HIDE DEF c
    <3> QED  BY <1>1, <2>1 DEF IsCall
  <2>4. /\ IsCall(y, applied) /\ y.h = c.h /\ y.n = c.n /\ y.stage = "telling" /\ y.todo = Tail(c.todo)
    <3> HIDE DEF c
    <3> QED  BY <1>1, <2>1 DEF IsCall
  <2>5. CASE s.go # None
    <3>1. s.tell = {}
      BY <2>1, <2>5 DEF Steps
    <3>2. /\ calls' = [calls EXCEPT ![i] = y] /\ acked' = acked
          /\ cache' = Mounted(cache, Shows(page', org, cache))
      BY <1>3, <2>5 DEF Advance
    <3>3. Better(cache')
      <4>1. \A k \in Shows(page', org, cache) : Private(k) => k[3] = org
        BY ShowsOwn DEF IInv
      <4> QED  BY <3>2, <4>1, SameBetter, MountedBetter
    <3>4. ASSUME NEW k \in DOMAIN cache' PROVE Owed(y, k, cache'[k])
      <4>1. k \in DOMAIN cache /\ Owed(c, k, cache[k])
        BY <1>1, <3>3 DEF Better
      <4>2. SUFFICES ASSUME k[1] \in c.h.owes
                     PROVE  Covered(Tail(c.todo), k[1]) \/ Keeps(cache'[k], c.n)
        <5> HIDE DEF c, y
        <5> QED  BY <2>4 DEF Owed
      <4>3. Covered(c.todo, k[1]) \/ Keeps(cache[k], c.n)
        BY <4>1, <4>2 DEF Owed
      <4>4. CASE Covered(c.todo, k[1])
        BY <2>2, <3>1, <4>4
      <4>5. CASE Keeps(cache[k], c.n)
        BY <1>1, <3>3, <4>1, <4>5 DEF Better
      <4> QED  BY <4>3, <4>4, <4>5
    <3>5. GoodCall(y, cache', applied')
      <4> HIDE DEF y
      <4> QED  BY <2>4, <3>4 DEF GoodCall, OwnIds
    <3>6. applied' \in Nat /\ applied <= applied'
      BY <1>1
    <3> HIDE DEF y
    <3> QED  BY <3>2, <3>3, <3>5, <3>6, CallInv
  <2>6. CASE s.go = None
    <3> DEFINE W == IF s.wait THEN K \cap Shown ELSE {}
               z == [c EXCEPT !.todo = Tail(@), !.stage = "telling", !.waits = W]
    <3>1. /\ cache' = Asked([k \in DOMAIN cache |->
                               IF k \in K THEN Invalidate(cache[k], k \in Shown) ELSE cache[k]])
          /\ calls' = [Released(calls, K) EXCEPT
                         ![i].todo = Tail(@), ![i].stage = "telling", ![i].waits = W]
          /\ acked' = acked
      BY <1>3, <2>6 DEF Advance
    <3>2. Better(cache') /\ \A k \in K \cap DOMAIN cache : \A a : Keeps(cache'[k], a)
      <4> HIDE DEF K
      <4> QED  BY <3>1, InvalidatedBetter
    <3>3. calls' = [Released(calls, K) EXCEPT ![i] = z]
      <4>1. Released(calls, K)[i] = [c EXCEPT !.waits = @ \ K]
        BY DEF Released
      <4>2. calls' = [Released(calls, K) EXCEPT
              ![i] = [Released(calls, K)[i] EXCEPT !.todo = Tail(@), !.stage = "telling", !.waits = W]]
        BY <3>1
      <4>3. [[c EXCEPT !.waits = c.waits \ K] EXCEPT !.todo = Tail(@), !.stage = "telling", !.waits = W] = z
        <5> HIDE DEF W, K, c
        <5> QED  BY <1>1 DEF IsCall, z
      <4> QED  BY <4>1, <4>2, <4>3
    <3>4. ASSUME NEW k \in DOMAIN cache' PROVE Owed(z, k, cache'[k])
      <4>1. k \in DOMAIN cache /\ Owed(c, k, cache[k])
        BY <1>1, <3>2 DEF Better
      <4>2. k[1] \in s.tell /\ ~s.one => k \in K
        BY <4>1 DEF Reach
      <4>3. z.h = c.h /\ z.n = c.n /\ z.stage = "telling" /\ z.todo = Tail(c.todo)
        BY <2>3
      <4>4. SUFFICES ASSUME k[1] \in c.h.owes
                     PROVE  Covered(Tail(c.todo), k[1]) \/ Keeps(cache'[k], c.n)
        <5> HIDE DEF c, z
        <5> QED  BY <4>3 DEF Owed
      <4>5. Covered(c.todo, k[1]) \/ Keeps(cache[k], c.n)
        BY <4>1, <4>4 DEF Owed
      <4>6. CASE Covered(c.todo, k[1])
        <5>1. k \in K => Keeps(cache'[k], c.n)
          <6> HIDE DEF K, c
          <6> QED  BY <3>2, <4>1
        <5> QED  BY <2>2, <4>2, <4>6, <5>1
      <4>7. CASE Keeps(cache[k], c.n)
        BY <1>1, <3>2, <4>1, <4>7 DEF Better
      <4> QED  BY <4>5, <4>6, <4>7
    <3>5. GoodCall(z, cache', applied')
      <4>1. IsCall(z, applied) /\ z.stage = "telling"
        BY <2>3
      <4> HIDE DEF z
      <4> QED  BY <3>4, <4>1 DEF GoodCall, OwnIds
    <3>6. applied' \in Nat /\ applied <= applied'
      BY <1>1
    <3> HIDE DEF z, K
    <3> QED  BY <3>1, <3>2, <3>3, <3>5, <3>6, CallInv
  <2> QED  BY <2>5, <2>6
<1> QED  BY <1>2, <1>3

\* Before anything is read or sent.
LEMMA InitInv == Init => IInv
<1> SUFFICES ASSUME Init PROVE IInv
  OBVIOUS
<1>1. \A k \in DOMAIN cache : acked[k] = 0 /\ Keeps(cache[k], 0) /\ OwnEntry(k, cache[k])
  BY EmptyKeeps DEF Init, OwnEntry, Empty, Has
<1>2. Listed(calls) /\ DOMAIN calls = {}
  BY DEF Init, Listed
<1> QED  BY <1>1, <1>2 DEF Init, IInv

\* What the operator does on a page, or between pages.
LEMMA OpenInv == ASSUME IInv, NEW p, Open(p) PROVE IInv'
<1>1. \A k \in Shows(page', org, cache) : Private(k) => k[3] = org
  BY ShowsOwn DEF IInv
<1>2. Better(Mounted(cache, Shows(page', org, cache)))
  BY <1>1, SameBetter, MountedBetter
<1> QED  BY <1>2, CacheInv DEF Open, IInv

\* Forms, dialogs and what is on the page are no part of the invariant.
LEMMA AsideInv ==
  ASSUME IInv, UNCHANGED <<desk, cache, calls, applied, acked>>, org' \in Orgs PROVE IInv'
  BY SameBetter, CacheInv

\* The ids a page sends are of the organisation selected.
LEMMA SourceOwn ==
  ASSUME IInv, NEW h \in Handlers, h.at = page.at, h.at[1] # "calendar", Ready PROVE Source = org
<1>1. CASE page.at[2] = "new"
  BY <1>1 DEF Source
<1>2. CASE page.at[2] # "new"
  <2> DEFINE q == Subject(page.at)
  <2>1. IsHandler(h)
    BY HandlersOk
  <2>2. q \notin {Public, Mine} /\ q[1] \notin {"public", "calendar"} /\ q = <<q[1], q[2]>>
    BY <2>1 DEF IsHandler, Subject, Spaces, Public, Mine
  <2>3. q \in desk.follows /\ Has(cache[KeyOf(q, org)])
    BY <1>2 DEF Ready
  <2>4. KeyOf(q, org) \in DOMAIN cache
    BY <2>3 DEF IInv, Keys
  <2>5. KeyOf(q, org)[3] = org /\ Private(KeyOf(q, org))
    BY <2>2, OperatorAssumption DEF KeyOf, Private, IInv
  <2> QED  BY <1>2, <2>3, <2>4, <2>5 DEF Source, IInv, OwnEntry
<1> QED  BY <1>1, <1>2

\* A form is sent: its ids are of the organisation selected.
LEMMA SubmitInv == ASSUME IInv, NEW h \in Handlers, Submit(h) PROVE IInv'
<1> DEFINE x == [h |-> h, org |-> org, of |-> Source, n |-> 0, stage |-> "sent", todo |-> h.then, waits |-> {}]
           T == {calls[i] : i \in DOMAIN calls} \cup {x}
<1>1. GoodCall(x, cache, applied)
  <2>1. IsHandler(h) /\ h.at = page.at /\ Ready
    BY HandlersOk DEF Submit
  <2>2. h.at[1] # "calendar" => Source = org
    BY <2>1, SourceOwn
  <2>3. IsCall(x, applied)
    BY <2>1 DEF IsCall, IsHandler, IInv
  <2> QED  BY <2>1, <2>2, <2>3 DEF GoodCall, OwnIds, Owed, IsHandler
<1>2. calls \in Seq(T) /\ calls' = Append(calls, x)
  BY DEF IInv, Listed, Submit
<1> HIDE DEF x
<1>3. /\ DOMAIN calls' = 1 .. Len(calls) + 1 /\ calls'[Len(calls) + 1] = x
      /\ \A i \in 1 .. Len(calls) : calls'[i] = calls[i]
      /\ calls' \in Seq(T)
  BY <1>2
<1>4. calls' = [i \in 1 .. Len(calls) + 1 |-> calls'[i]] /\ Len(calls) + 1 \in Nat
  BY <1>3 DEF IInv, Listed
<1>5. Listed(calls')
  BY <1>3, <1>4, IsListed
<1>6. ASSUME NEW i \in DOMAIN calls' PROVE GoodCall(calls'[i], cache, applied)
  BY <1>1, <1>3 DEF IInv, Listed
<1> QED  BY <1>5, <1>6 DEF IInv, Submit

\* The server applies a change, or refuses; a request is given up.
LEMMA ServerAppliesInv == ASSUME IInv, NEW i \in DOMAIN calls, ServerApplies(i) PROVE IInv'
<1> DEFINE x == [calls[i] EXCEPT !.stage = "served", !.n = applied + 1]
<1>1. calls' = [calls EXCEPT ![i] = x] /\ applied' = applied + 1 /\ cache' = cache /\ acked' = acked
  BY DEF ServerApplies
<1>2. GoodCall(calls[i], cache, applied) /\ calls[i].stage = "sent" /\ applied \in Nat
  BY DEF IInv, ServerApplies
<1>3. GoodCall(x, cache, applied + 1)
  <2>1. IsCall(x, applied + 1) /\ x.stage = "served" /\ x.h = calls[i].h /\ x.todo = calls[i].todo
    <3>1. applied + 1 \in Nat /\ applied + 1 \in 0 .. applied + 1
      BY <1>2
    <3>2. IsCall(calls[i], applied + 1)
      BY <1>2 DEF GoodCall, IsCall
    <3> DEFINE m == applied + 1  y == calls[i]  g == "served"
    <3>3. x = [y EXCEPT !.stage = g, !.n = m] /\ m \in Nat /\ m \in 0 .. m /\ IsCall(y, m)
      BY <3>1, <3>2
    <3> HIDE DEF x, m, y, g
    <3>4. /\ x \in [h: {y.h}, org: {y.org}, of: {y.of}, n: 0 .. m, stage: {g}, todo: Seq(Steps),
                    waits: {y.waits}]
          /\ x.todo = y.todo
      BY <3>3 DEF IsCall
    <3>5. /\ x.h = y.h /\ x.org = y.org /\ x.of = y.of /\ x.stage = g
          /\ x.waits = y.waits
      BY <3>4
    <3>6. IsCall(x, m)
      BY <3>4, <3>5 DEF IsCall
    <3> QED  BY <3>4, <3>5, <3>6 DEF m, y, g
  <2> HIDE DEF x
  <2> QED  BY <1>2, <2>1 DEF GoodCall, OwnIds, Owed
<1> HIDE DEF x
<1>4. applied' \in Nat /\ applied <= applied' /\ GoodCall(x, cache', applied') /\ Better(cache')
  BY <1>1, <1>2, <1>3, SameBetter
<1> QED  BY <1>1, <1>4, CallInv DEF ServerApplies

\* The server refuses: nothing is owed.
LEMMA ServerRefusesInv == ASSUME IInv, NEW i \in DOMAIN calls, ServerRefuses(i) PROVE IInv'
<1> DEFINE x == [calls[i] EXCEPT !.stage = "refused"]
<1>1. calls' = [calls EXCEPT ![i] = x] /\ applied' = applied /\ cache' = cache /\ acked' = acked
  BY DEF ServerRefuses
<1>2. IsCall(calls[i], applied) /\ applied \in Nat
  BY DEF IInv, GoodCall
<1>3. GoodCall(x, cache, applied)
  <2>1. IsCall(x, applied) /\ x.stage = "refused"
    BY <1>2 DEF IsCall
  <2> HIDE DEF x
  <2> QED  BY <2>1 DEF GoodCall, OwnIds, Owed
<1> HIDE DEF x
<1>4. applied' \in Nat /\ applied <= applied' /\ GoodCall(x, cache', applied') /\ Better(cache')
  BY <1>1, <1>2, <1>3, SameBetter
<1> QED  BY <1>1, <1>4, CallInv DEF ServerRefuses

\* A handler whose request was refused, or is unheard, owes nothing.
LEMMA GivenUpInv ==
  ASSUME IInv, NEW i \in DOMAIN calls, calls' = [calls EXCEPT ![i] = Done],
         UNCHANGED <<desk, org, cache, applied, acked>>
  PROVE  IInv'
<1>1. applied' \in Nat /\ applied <= applied' /\ GoodCall(Done, cache', applied') /\ Better(cache')
  BY SameBetter, DoneIsGood DEF IInv
<1> QED  BY <1>1, CallInv

\* Reads are answered, arrive, fail and age.
LEMMA AnswerReadInv == ASSUME IInv, NEW k \in DOMAIN cache, AnswerRead(k) PROVE IInv'
<1> DEFINE s == [cache[k].snap EXCEPT !.n = applied]  e == Answer(cache[k], s)
<1>1. /\ OwnEntry(k, cache[k]) /\ IsEntry(cache[k]) /\ cache[k].flight = "asked" /\ applied \in Nat
      /\ cache' = [cache EXCEPT ![k] = e]
  BY DEF IInv, AnswerRead, Keeps
<1>2. s \in [n: Nat, v: Orgs \cup {None}] /\ s.n = applied /\ s.v = cache[k].snap.v
  BY <1>1 DEF OwnEntry
<1> HIDE DEF s
<1>3. OwnEntry(k, e)
  BY <1>1, <1>2 DEF OwnEntry, Answer, IsEntry, Has
<1>4. \A a \in 0 .. applied : Keeps(cache[k], a) => Keeps(e, a)
  BY <1>1, <1>2, AnswerKeeps
<1> HIDE DEF e
<1>5. Better(cache')
  BY <1>1, <1>3, <1>4, MoveBetter
<1> QED  BY <1>5, CacheInv DEF AnswerRead, IInv

\* A read answers.
LEMMA DeliverReadInv == ASSUME IInv, NEW k \in DOMAIN cache, DeliverRead(k) PROVE IInv'
<1> DEFINE e == Deliver(cache[k])  c == [cache EXCEPT ![k] = e]  K == Shows(page, org, c) \ Shown
<1>1. /\ OwnEntry(k, cache[k]) /\ IsEntry(cache[k]) /\ cache[k].flight = "answered"
      /\ cache' = Mounted(c, K) /\ calls' = Released(calls, {k})
  BY DEF IInv, DeliverRead, Keeps
<1>2. OwnEntry(k, e)
  BY <1>1 DEF OwnEntry, Deliver, IsEntry, Has
<1>3. \A a \in 0 .. applied : Keeps(cache[k], a) => Keeps(e, a)
  BY <1>1, DeliverKeeps
<1> HIDE DEF e
<1>4. Better(c)
  BY <1>2, <1>3, MoveBetter
<1>5. \A j \in K : Private(j) => j[3] = org
  BY ShowsOwn DEF IInv
<1> HIDE DEF c, K
<1>6. Better(cache')
  BY <1>1, <1>4, <1>5, MountedBetter
<1> QED  BY <1>1, <1>6, CacheInv DEF DeliverRead, IInv

\* A read fails.
LEMMA FailReadInv == ASSUME IInv, NEW k \in DOMAIN cache, FailRead(k) PROVE IInv'
<1> DEFINE e == Fail(cache[k])
<1>1. /\ OwnEntry(k, cache[k]) /\ IsEntry(cache[k]) /\ calls' = Released(calls, {k})
      /\ cache' = [cache EXCEPT ![k] = e]
  BY DEF IInv, FailRead, Keeps
<1>2. OwnEntry(k, e)
  BY <1>1 DEF OwnEntry, Fail, IsEntry, Has
<1>3. \A a \in 0 .. applied : Keeps(cache[k], a) => Keeps(e, a)
  BY FailKeeps
<1> HIDE DEF e
<1>4. Better(cache')
  BY <1>1, <1>2, <1>3, MoveBetter
<1> QED  BY <1>1, <1>4, CacheInv DEF FailRead, IInv

\* What was fresh is stale.
LEMMA MinutePassesInv == ASSUME IInv, MinutePasses PROVE IInv'
<1>1. ASSUME NEW k \in DOMAIN cache PROVE OwnEntry(k, Age(cache[k]))
  <2>1. OwnEntry(k, cache[k]) /\ IsEntry(cache[k])
    BY DEF IInv, Keeps
  <2> QED  BY <2>1 DEF OwnEntry, Age, IsEntry, Has
<1>2. Better(cache')
  BY <1>1, AgeKeeps DEF MinutePasses, Better
<1> QED  BY <1>2, CacheInv DEF MinutePasses, IInv

\* Every step, one by one.
LEMMA NextInv == IInv /\ [Next]_vars => IInv'
<1> SUFFICES ASSUME IInv, [Next]_vars PROVE IInv'
  OBVIOUS
<1>1. ASSUME NEW p \in Pages, Open(p) PROVE IInv'
  BY <1>1, OpenInv
<1>2. ASSUME NEW o \in Orgs, SwitchOrg(o) PROVE IInv'
  BY <1>2, AsideInv DEF SwitchOrg
<1>3. CASE Edit \/ CloseDialog
  BY <1>3, AsideInv DEF Edit, CloseDialog, IInv
<1>4. ASSUME NEW h \in Handlers, OpenDialog(h) PROVE IInv'
  BY <1>4, AsideInv DEF OpenDialog, IInv
<1>5. ASSUME NEW h \in Handlers, Submit(h) PROVE IInv'
  BY <1>5, SubmitInv
<1>6. ASSUME NEW i \in DOMAIN calls, ServerApplies(i) PROVE IInv'
  BY <1>6, ServerAppliesInv
<1>7. ASSUME NEW i \in DOMAIN calls, ServerRefuses(i) PROVE IInv'
  BY <1>7, ServerRefusesInv
<1>8. ASSUME NEW i \in DOMAIN calls, Refused(i) \/ Unnoticed(i) PROVE IInv'
  BY <1>8, GivenUpInv DEF Refused, Unnoticed
<1>9. ASSUME NEW i \in DOMAIN calls, Told(i) PROVE IInv'
  BY <1>9, AdvanceInv DEF Told
<1>10. ASSUME NEW i \in DOMAIN calls, Continue(i) PROVE IInv'
  BY <1>10, AdvanceInv DEF Continue
<1>11. ASSUME NEW k \in DOMAIN cache, AnswerRead(k) \/ DeliverRead(k) \/ FailRead(k) PROVE IInv'
  BY <1>11, AnswerReadInv, DeliverReadInv, FailReadInv
<1>12. CASE MinutePasses
  BY <1>12, MinutePassesInv
<1>13. CASE UNCHANGED vars
  BY <1>13, AsideInv DEF vars, IInv
<1> QED
  BY <1>1, <1>2, <1>3, <1>4, <1>5, <1>6, <1>7, <1>8, <1>9, <1>10, <1>11, <1>12, <1>13
  DEF Next, Operator, Answers, Reads

-------------------------------------------------------------------------------
(* What the invariant says of what the operator sees and sends.            *)

\* Off the calendar, what a page shows is kept under its organisation.
LEMMA PagesPrivate ==
  ASSUME NEW p, p[1] # "calendar", NEW q \in PageQueries(p), q # Public
  PROVE  q # Mine /\ q[1] \notin {"public", "calendar"}
<1> DEFINE
  OfLists == DashboardPage \cup BookingsPage \cup RoomsPage \cup SpacesPage \cup UsersPage
               \cup PackagesPage \cup PurchasesPage \cup InboxPage \cup AuditPage \cup BillingPage
  OfRecords == BookingPage \cup RoomPage \cup NewSpacePage \cup SpacePage \cup UserPage
                 \cup PackagePage \cup PurchasePage \cup RequestPage \cup SettingsPage
<1>1. p # <<"calendar", "list">>
  OBVIOUS
<1>2. q \in OfLists \cup OfRecords \cup {Public}
  BY <1>1 DEF PageQueries
<1>3. \A r \in OfLists : r # Mine /\ r[1] \notin {"public", "calendar"}
  BY DEF DashboardPage, BookingsPage, RoomsPage, SpacesPage, UsersPage, PackagesPage,
         PurchasesPage, InboxPage, AuditPage, BillingPage, ListOf, Spaces, Mine
<1>4. \A r \in OfRecords : r # Mine /\ r[1] \notin {"public", "calendar"}
  BY DEF BookingPage, RoomPage, NewSpacePage, SpacePage, UserPage, PackagePage, PurchasePage,
         RequestPage, SettingsPage, ListOf, OneOf, HistoryOf, Spaces, Mine
<1> HIDE DEF OfLists, OfRecords
<1> QED  BY <1>2, <1>3, <1>4

\* What is shown is in an entry.
LEMMA InvOwnTenant == IInv => OwnTenantShown
<1> SUFFICES ASSUME IInv PROVE OwnTenantShown
  OBVIOUS
<1>1. ASSUME page.at[1] # "calendar", NEW k \in Shown, k # KeyOf(Public, org), Has(cache[k])
      PROVE  cache[k].data.v = org
  <2>1. PICK q \in PageQueries(page.at) \cap desk.follows : k = KeyOf(q, org)
    <3>1. page.at # <<"calendar", "list">>
      BY <1>1
    <3> QED  BY <1>1, <3>1 DEF Shown, Shows
  <2>2. q # Public /\ q # Mine /\ q[1] \notin {"public", "calendar"}
    <3>1. q # Public
      BY <1>1, <2>1
    <3> QED  BY <1>1, <2>1, <3>1, PagesPrivate
  <2>3. k[3] = org /\ Private(k)
    BY <2>1, <2>2, OperatorAssumption DEF KeyOf, Private, IInv
  <2>4. k \in DOMAIN cache
    BY <2>1 DEF IInv, Keys
  <2> QED  BY <1>1, <2>3, <2>4 DEF IInv, OwnEntry
<1>2. \A i \in DOMAIN calls : calls[i].stage = "sent" /\ calls[i].h.at[1] # "calendar" =>
        calls[i].of = calls[i].org
  BY DEF IInv, GoodCall, OwnIds
<1> QED  BY <1>1, <1>2 DEF OwnTenantShown

\* What has settled keeps every change.
LEMMA InvOwnWrites == IInv => OwnWritesShown
  BY DEF IInv, Keeps, Sound, AtRest, OwnWritesShown

\* For any organisations, pages and bounds: off the calendar, what is on screen
\* and what is sent are of one organisation, whatever was cached, still on its
\* way or still running when the organisation was switched.
THEOREM OwnTenantTheorem == Spec => []OwnTenantShown
<1>1. Init => IInv
  BY InitInv
<1>2. IInv /\ [Next]_vars => IInv'
  BY NextInv
<1>3. IInv => OwnTenantShown
  BY InvOwnTenant
<1> QED  BY <1>1, <1>2, <1>3, PTL DEF Spec

\* For any organisations, pages and bounds: no list a handler was to refresh
\* settles on data older than its change, for every handler of the back office.
THEOREM OwnWritesTheorem == Spec => []OwnWritesShown
<1>1. Init => IInv
  BY InitInv
<1>2. IInv /\ [Next]_vars => IInv'
  BY NextInv
<1>3. IInv => OwnWritesShown
  BY InvOwnWrites
<1> QED  BY <1>1, <1>2, <1>3, PTL DEF Spec

-------------------------------------------------------------------------------
(* The tab itself: its type, what is waited for and what the server did.   *)

\* A page with its form and its dialog, of the n requests sent: the dialog is
\* one of the page's.
PageFits(pg, n) ==
  /\ pg \in [at: desk.pages, of: Orgs, dirty: BOOLEAN, dialog: [h: Handlers, call: 0 .. n] \cup {None}]
  /\ pg.dialog # None => pg.dialog.h.at = pg.at

\* The requests of the page mounted are its own.
PageOK ==
  /\ PageFits(page, Len(calls)) /\ here \subseteq DOMAIN calls
  /\ \A i \in here : calls[i].stage # "done" => calls[i].h.at = page.at

\* The requests on their way to the server.
Unanswered == {i \in DOMAIN calls : calls[i].stage = "sent"}

\* What was applied is answered, or its answer is on its way.
BoundsOK ==
  /\ desk \in Desks /\ spent \in Nat /\ Len(calls) + spent <= desk.steps /\ Len(calls) <= MaxWrites
  /\ applied + Cardinality(Unanswered) <= Len(calls)

\* A handler: it goes to pages of the desk and waits for reads on their way.
CallOK(x, c) ==
  /\ x.stage \in Stages /\ x.waits \subseteq DOMAIN c
  /\ x.stage # "done" => /\ x.h \in Handlers /\ x.org \in Orgs
                         /\ \A j \in DOMAIN x.todo : x.todo[j].go # None => x.todo[j].go \in desk.pages
  /\ \A k \in x.waits : c[k].flight # "idle"

\* A cache of what an organisation, or nobody in particular, reads.
Typed(c) == DOMAIN c = DOMAIN cache /\ \A k \in DOMAIN cache : c[k] \in Entries(Orgs \cup {None})

\* The second invariant, on top of the first.
TInv ==
  /\ IInv /\ PageOK /\ BoundsOK /\ Typed(cache)
  /\ \A i \in DOMAIN calls : CallOK(calls[i], cache)

\* It holds where the operator starts.
LEMMA InitTyped == Init => TInv
<1> SUFFICES ASSUME Init PROVE TInv
  OBVIOUS
<1>1. calls = <<>> /\ Len(calls) = 0 /\ DOMAIN calls = {}
  BY DEF Init
<1>2. PageOK
  BY <1>1, OperatorAssumption DEF Init, PageOK, PageFits, At
<1>3. BoundsOK
  <2>1. Unanswered = {} /\ Cardinality({}) = 0
    BY <1>1, FS_EmptySet DEF Unanswered
  <2> QED  BY <1>1, <2>1, OperatorAssumption DEF Init, BoundsOK
<1>4. Typed(cache)
  BY DEF Init, Typed, Empty, Entries
<1> QED  BY <1>1, <1>2, <1>3, <1>4, InitInv DEF TInv

\* The requests sent, and how many of them are not answered.
LEMMA RequestsAre ==
  ASSUME TInv
  PROVE  /\ Len(calls) \in Nat /\ DOMAIN calls = 1 .. Len(calls)
         /\ IsFiniteSet(Unanswered) /\ Cardinality(Unanswered) \in Nat
<1>1. Len(calls) \in Nat /\ DOMAIN calls = 1 .. Len(calls)
  BY DEF TInv, IInv, Listed
<1>2. IsFiniteSet(DOMAIN calls)
  BY <1>1, FS_Interval
<1>3. IsFiniteSet(Unanswered)
  BY <1>2, FS_Subset DEF Unanswered
<1> QED  BY <1>1, <1>3, FS_CardinalityType

-------------------------------------------------------------------------------
(* Entries keep their type, and a read on its way goes on.                 *)

\* The reads outside K that are on their way still are.
Flying(c, K) == \A k \in DOMAIN cache \ K : cache[k].flight # "idle" => c[k].flight # "idle"

\* Asking, joining a read and reading again.
LEMMA AskedTyped ==
  ASSUME org \in Orgs, NEW k, NEW e \in Entries(Orgs \cup {None})
  PROVE  /\ AskedEntry(k, e) \in Entries(Orgs \cup {None})
         /\ AskedEntry(k, e).flight = e.flight
  BY DEF AskedEntry, Entries

\* A component that mounts starts no read anew.
LEMMA MountFlies ==
  ASSUME NEW V, NEW e \in Entries(V)
  PROVE  /\ e.flight # "idle" => Mount(e).flight # "idle"
         /\ \A shown : shown \/ e.flight # "idle" => Invalidate(e, shown).flight # "idle"
<1>1. e.flight # "idle" => Mount(e).flight # "idle"
  BY DEF Entries, Mount, Ask
<1>2. ASSUME NEW shown, shown \/ e.flight # "idle" PROVE Invalidate(e, shown).flight # "idle"
  <2>1. CASE shown /\ (Has(e) \/ e.flight = "idle")
    <3>1. Invalidate(e, shown) = [e EXCEPT !.stale = Has(e), !.flight = "asked", !.snap = None,
                                           !.passed = FALSE, !.failed = @ /\ Has(e)]
      BY <2>1 DEF Invalidate
    <3> QED  BY <3>1 DEF Entries
  <2>2. CASE ~(shown /\ (Has(e) \/ e.flight = "idle"))
    <3>1. Invalidate(e, shown) = [e EXCEPT !.stale = Has(e), !.passed = e.flight # "idle"]
      BY <2>2 DEF Invalidate
    <3>2. e.flight # "idle"
      BY <1>2, <2>2
    <3> QED  BY <3>1, <3>2 DEF Entries
  <2> QED  BY <2>1, <2>2
<1> QED  BY <1>1, <1>2

\* Mounting a page, whatever it shows.
LEMMA MountedTyped ==
  ASSUME org \in Orgs, NEW c, Typed(c), NEW K
  PROVE  /\ Typed(Mounted(c, K))
         /\ \A k \in DOMAIN cache : c[k].flight # "idle" => Mounted(c, K)[k].flight # "idle"
<1>1. ASSUME NEW k \in DOMAIN cache
      PROVE  /\ Mounted(c, K)[k] \in Entries(Orgs \cup {None})
             /\ c[k].flight # "idle" => Mounted(c, K)[k].flight # "idle"
  <2> DEFINE e == IF k \in K THEN Mount(c[k]) ELSE c[k]
  <2>1. Mounted(c, K)[k] = AskedEntry(k, e)
    BY DEF Typed, Mounted, Asked, AskedEntry
  <2>2. c[k] \in Entries(Orgs \cup {None})
    BY DEF Typed
  <2>3. e \in Entries(Orgs \cup {None}) /\ (c[k].flight # "idle" => e.flight # "idle")
    BY <2>2, EntryMoves, MountFlies
  <2> HIDE DEF e
  <2> QED  BY <2>1, <2>3, AskedTyped
<1>2. DOMAIN Mounted(c, K) = DOMAIN cache
  BY DEF Typed, Mounted, Asked
<1> QED  BY <1>1, <1>2 DEF Typed

\* Reading the keys K again: those shown are then on their way.
LEMMA InvalidatedTyped ==
  ASSUME org \in Orgs, Typed(cache), NEW K, NEW c,
         c = Asked([k \in DOMAIN cache |-> IF k \in K THEN Invalidate(cache[k], k \in Shown) ELSE cache[k]])
  PROVE  /\ Typed(c) /\ Flying(c, {})
         /\ \A k \in DOMAIN cache \cap K \cap Shown : c[k].flight # "idle"
<1>1. ASSUME NEW k \in DOMAIN cache
      PROVE  /\ c[k] \in Entries(Orgs \cup {None})
             /\ cache[k].flight # "idle" \/ (k \in K /\ k \in Shown) => c[k].flight # "idle"
  <2> DEFINE e == IF k \in K THEN Invalidate(cache[k], k \in Shown) ELSE cache[k]
  <2>1. c[k] = AskedEntry(k, e)
    BY DEF Asked, AskedEntry
  <2>2. cache[k] \in Entries(Orgs \cup {None})
    BY DEF Typed
  <2>3. e \in Entries(Orgs \cup {None})
    BY <2>2, EntryMoves
  <2>4. cache[k].flight # "idle" \/ (k \in K /\ k \in Shown) => e.flight # "idle"
    BY <2>2, MountFlies
  <2> HIDE DEF e
  <2> QED  BY <2>1, <2>3, <2>4, AskedTyped
<1>2. DOMAIN c = DOMAIN cache
  BY DEF Asked
<1> QED  BY <1>1, <1>2 DEF Typed, Flying

\* Moving one entry.
LEMMA MoveTyped ==
  ASSUME Typed(cache), NEW k \in DOMAIN cache, NEW e \in Entries(Orgs \cup {None}),
         NEW c, c = [cache EXCEPT ![k] = e]
  PROVE  Typed(c) /\ Flying(c, {k}) /\ (cache[k].flight # "idle" /\ e.flight # "idle" => Flying(c, {}))
  BY DEF Typed, Flying

-------------------------------------------------------------------------------
(* Every step but the sending of a request.                                *)

\* Request j stays what it was, and waits no longer for the reads K.
Rests(j, K) ==
  /\ calls'[j].h = calls[j].h /\ calls'[j].org = calls[j].org
  /\ calls'[j].stage = calls[j].stage /\ calls'[j].todo = calls[j].todo
  /\ calls'[j].waits \subseteq calls[j].waits \ K

\* No request but i, if it is one, moves on.
Moved(i, K) ==
  /\ DOMAIN calls' = DOMAIN calls /\ Len(calls') = Len(calls)
  /\ \A j \in DOMAIN calls : j # i => Rests(j, K)

\* Request i moves on, and was not answered before if it was applied now.
MovesOn(i) ==
  /\ CallOK(calls'[i], cache') /\ calls'[i].stage # "sent"
  /\ calls'[i].stage # "done" => calls'[i].h = calls[i].h /\ calls[i].stage # "done"

\* Whom a read releases.
LEMMA ReleasedRests ==
  ASSUME TInv, NEW K, NEW i, NEW x,
         \/ calls' = Released(calls, K) \/ (calls' = calls /\ K = {})
         \/ calls' = [Released(calls, K) EXCEPT ![i] = x]
         \/ calls' = [calls EXCEPT ![i] = x] /\ K = {}
  PROVE  DOMAIN calls' = DOMAIN calls /\ \A j \in DOMAIN calls : j # i => Rests(j, K)
<1>1. ASSUME NEW j \in DOMAIN calls
      PROVE  LET y == [calls[j] EXCEPT !.waits = @ \ K]
             IN  /\ y.h = calls[j].h /\ y.org = calls[j].org /\ y.stage = calls[j].stage
                 /\ y.todo = calls[j].todo /\ y.waits = calls[j].waits \ K
  <2>1. IsCall(calls[j], applied)
    BY <1>1 DEF TInv, IInv, GoodCall
  <2> QED  BY <2>1 DEF IsCall
<1>2. DOMAIN calls' = DOMAIN calls
  BY DEF Released
<1>3. ASSUME NEW j \in DOMAIN calls, j # i PROVE Rests(j, K)
  <2>1. CASE calls' = Released(calls, K) \/ calls' = [Released(calls, K) EXCEPT ![i] = x]
    <3>1. calls'[j] = [calls[j] EXCEPT !.waits = @ \ K]
      BY <1>3, <2>1 DEF Released
    <3> QED  BY <1>1, <3>1 DEF Rests
  <2>2. CASE K = {} /\ (calls' = calls \/ calls' = [calls EXCEPT ![i] = x])
    <3>1. calls'[j] = calls[j]
      BY <1>3, <2>2
    <3> QED  BY <2>2, <3>1 DEF Rests
  <2> QED  BY <2>1, <2>2
<1> QED  BY <1>2, <1>3

\* A list of the same requests is as long.
LEMMA SameLength ==
  ASSUME TInv, IInv', DOMAIN calls' = DOMAIN calls PROVE Len(calls') = Len(calls)
<1>1. Len(calls) \in Nat /\ Len(calls') \in Nat /\ 1 .. Len(calls) = 1 .. Len(calls')
  BY DEF TInv, IInv, Listed
<1> QED  BY <1>1

\* What has to be seen of a step that sends nothing.
LEMMA MovingInv ==
  ASSUME TInv, IInv', desk' = desk, NEW i, NEW K, Moved(i, K), i \in DOMAIN calls => MovesOn(i),
         Typed(cache'), Flying(cache', K),
         PageFits(page', Len(calls)), here' \subseteq here, here' = {} \/ page'.at = page.at,
         \/ applied' = applied
         \/ applied' = applied + 1 /\ i \in DOMAIN calls /\ calls[i].stage = "sent",
         spent' \in Nat, Len(calls) + spent' <= desk.steps
  PROVE  TInv'
<1>1. Len(calls) \in Nat /\ IsFiniteSet(Unanswered) /\ Cardinality(Unanswered) \in Nat
  BY RequestsAre
<1>2. ASSUME NEW j \in DOMAIN calls' PROVE CallOK(calls[j], cache)'
  <2>1. CASE j = i
    BY <1>2, <2>1 DEF Moved, MovesOn, CallOK
  <2>2. CASE j # i
    <3>1. CallOK(calls[j], cache) /\ Rests(j, K)
      BY <1>2, <2>2 DEF TInv, Moved
    <3> QED  BY <3>1 DEF CallOK, Rests, Flying, Typed
  <2> QED  BY <2>1, <2>2
<1>3. ASSUME NEW j \in DOMAIN calls, calls'[j].stage # "done"
      PROVE  calls[j].stage # "done" /\ calls'[j].h = calls[j].h
  BY <1>3 DEF Moved, MovesOn, Rests
<1>4. PageOK'
  <2>1. PageFits(page, Len(calls))'
    BY DEF Moved, PageFits
  <2>2. here' \subseteq DOMAIN calls'
    BY DEF TInv, PageOK, Moved
  <2>3. ASSUME NEW j \in here', calls'[j].stage # "done" PROVE calls'[j].h.at = page'.at
    BY <1>3, <2>3 DEF TInv, PageOK
  <2> QED  BY <2>1, <2>2, <2>3 DEF PageOK
<1>5. BoundsOK'
  <2>1. Unanswered' = Unanswered \ {i}
    BY DEF Unanswered, Moved, MovesOn, Rests
  <2>2. Cardinality(Unanswered') = IF i \in Unanswered THEN Cardinality(Unanswered) - 1 ELSE Cardinality(Unanswered)
    BY <1>1, <2>1, FS_RemoveElement
  <2>3. applied' + Cardinality(Unanswered') <= applied + Cardinality(Unanswered)
    <3>1. applied \in Nat
      BY DEF TInv, IInv
    <3>2. CASE applied' = applied
      BY <1>1, <2>2, <3>1, <3>2
    <3>3. CASE applied' = applied + 1 /\ i \in DOMAIN calls /\ calls[i].stage = "sent"
      <4>1. i \in Unanswered
        BY <3>3 DEF Unanswered
      <4> QED  BY <1>1, <2>2, <3>1, <3>3, <4>1
    <3> QED  BY <3>2, <3>3
  <2>4. applied + Cardinality(Unanswered) <= Len(calls) /\ applied \in Nat /\ applied' \in Nat
    BY DEF TInv, IInv, BoundsOK
  <2>5. Cardinality(Unanswered') \in Int
    BY <1>1, <2>2
  <2>6. applied' + Cardinality(Unanswered') <= Len(calls')
    BY ONLY <1>1, <2>3, <2>4, <2>5, Moved(i, K) DEF Moved
  <2> QED  BY <2>6 DEF BoundsOK, TInv, Moved
<1>6. Typed(cache)'
  BY DEF Typed
<1> QED  BY <1>2, <1>4, <1>5, <1>6 DEF TInv

\* A step of the operator or of the cache: no request moves on, some are
\* released.
LEMMA AsideTyped ==
  ASSUME TInv, IInv', desk' = desk, applied' = applied, NEW K,
         calls' = Released(calls, K) \/ (calls' = calls /\ K = {}),
         Typed(cache'), Flying(cache', K),
         PageFits(page', Len(calls)), here' \subseteq here, here' = {} \/ page'.at = page.at,
         spent' \in Nat, Len(calls) + spent' <= desk.steps
  PROVE  TInv'
<1>1. DOMAIN calls' = DOMAIN calls /\ \A j \in DOMAIN calls : j # 0 => Rests(j, K)
  BY ReleasedRests
<1>2. Moved(0, K) /\ 0 \notin DOMAIN calls
  BY <1>1, SameLength, RequestsAre DEF Moved
<1> QED  BY <1>2, MovingInv

\* What stays as it is.
LEMMA Stays ==
  ASSUME TInv
  PROVE  /\ spent \in Nat /\ Len(calls) + spent <= desk.steps
         /\ desk \in Desks /\ desk.steps \in Nat /\ Len(calls) \in Nat
         /\ PageFits(page, Len(calls)) /\ Typed(cache) /\ Flying(cache, {})
         /\ org \in Orgs
  BY RequestsAre, OperatorAssumption DEF TInv, IInv, BoundsOK, PageOK, Flying

\* What is spent was there.
LEMMA SpendStays == ASSUME TInv, Spend PROVE spent' \in Nat /\ Len(calls) + spent' <= desk.steps
  BY Stays DEF Spend, MayStep

\* Another page, another organisation.
LEMMA OpenTyped == ASSUME TInv, IInv', NEW p, Open(p) PROVE TInv'
<1>1. /\ desk' = desk /\ applied' = applied /\ calls' = calls /\ here' = {} /\ page' = At(p, org)
      /\ cache' = Mounted(cache, Shows(page', org, cache)) /\ p \in desk.pages /\ Spend
  BY DEF Open
<1>2. PageFits(page', Len(calls))
  BY <1>1, Stays DEF PageFits, At
<1>3. Typed(cache') /\ Flying(cache', {})
  BY <1>1, Stays, MountedTyped DEF Flying
<1>4. spent' \in Nat /\ Len(calls) + spent' <= desk.steps
  BY <1>1, SpendStays
<1> QED  BY <1>1, <1>2, <1>3, <1>4, AsideTyped

\* A form, a dialog, or another organisation: what is mounted stays.
LEMMA PageTyped ==
  ASSUME TInv, IInv', UNCHANGED <<desk, here, cache, calls, applied, spent>>,
         PageFits(page', Len(calls)), page'.at = page.at
  PROVE  TInv'
  BY Stays, AsideTyped

\* A form is edited, a dialog opened or closed.
LEMMA FormTyped ==
  ASSUME TInv, IInv', Edit \/ CloseDialog \/ \E h \in Handlers : OpenDialog(h) PROVE TInv'
<1>1. PageFits(page, Len(calls)) /\ Len(calls) \in Nat
  BY Stays
<1>2. PageFits(page', Len(calls)) /\ page'.at = page.at
  <2>1. CASE Edit
    BY <1>1, <2>1 DEF Edit, PageFits
  <2>2. CASE CloseDialog
    BY <1>1, <2>2 DEF CloseDialog, PageFits
  <2>3. ASSUME NEW h \in Handlers, OpenDialog(h) PROVE PageFits(page', Len(calls)) /\ page'.at = page.at
    <3> DEFINE d == [h |-> h, call |-> 0]
    <3>1. d \in [h: Handlers, call: 0 .. Len(calls)] /\ d.h = h
      BY <1>1
    <3>2. page' = [page EXCEPT !.dialog = d] /\ h.at = page.at
      BY <2>3 DEF OpenDialog
    <3> HIDE DEF d
    <3> QED  BY <1>1, <3>1, <3>2 DEF PageFits
  <2> QED  BY <2>1, <2>2, <2>3
<1>3. UNCHANGED <<desk, here, cache, calls, applied, spent>>
  BY DEF Edit, CloseDialog, OpenDialog
<1> QED  BY <1>2, <1>3, PageTyped

\* A request is sent.
LEMMA SubmitTyped == ASSUME TInv, IInv', NEW h \in Handlers, Submit(h) PROVE TInv'
<1> DEFINE n == Len(calls) + 1
           x == [h |-> h, org |-> org, of |-> Source, n |-> 0, stage |-> "sent", todo |-> h.then, waits |-> {}]
           T == {calls[i] : i \in DOMAIN calls} \cup {x}
<1>1. /\ UNCHANGED <<desk, org, cache, applied, spent>> /\ h.at = page.at
      /\ Len(calls) < MaxWrites /\ MayStep
  BY DEF Submit
<1>2. /\ calls' = Append(calls, x) /\ here' = here \cup {Len(calls')}
      /\ page' = IF page.dialog = None THEN page ELSE [page EXCEPT !.dialog.call = Len(calls')]
  BY DEF Submit
<1>3. calls \in Seq(T)
  BY DEF TInv, IInv, Listed
<1>4. x.h = h /\ x.org = org /\ x.stage = "sent" /\ x.todo = h.then /\ x.waits = {}
  OBVIOUS
<1> HIDE DEF x, T
<1>5. /\ Len(calls) \in Nat /\ DOMAIN calls = 1 .. Len(calls) /\ Len(calls') = n /\ DOMAIN calls' = 1 .. n
      /\ calls'[n] = x /\ \A i \in DOMAIN calls : calls'[i] = calls[i]
  BY <1>2, <1>3
<1>6. /\ n \in Nat /\ n \in DOMAIN calls' /\ n \notin DOMAIN calls /\ DOMAIN calls' = DOMAIN calls \cup {n}
      /\ 0 .. Len(calls) \subseteq 0 .. n
  BY <1>5
<1> HIDE DEF n
<1>7. PageFits(page, Len(calls))
  BY Stays
<1>8. PageFits(page', n) /\ page'.at = page.at
  <2>1. CASE page.dialog = None
    BY <1>2, <1>6, <1>7, <2>1 DEF PageFits
  <2>2. CASE page.dialog # None
    <3>1. page' = [page EXCEPT !.dialog.call = n]
      BY <1>2, <1>5, <2>2
    <3>2. page.dialog \in [h: Handlers, call: 0 .. Len(calls)]
      BY <1>7, <2>2 DEF PageFits
    <3>3. [page.dialog EXCEPT !.call = n] \in [h: Handlers, call: 0 .. n]
          /\ [page.dialog EXCEPT !.call = n].h = page.dialog.h
      BY <1>6, <3>2
    <3>4. page' = [page EXCEPT !.dialog = [page.dialog EXCEPT !.call = n]]
      BY <3>1
    <3> QED  BY <1>7, <2>2, <3>3, <3>4 DEF PageFits
  <2> QED  BY <2>1, <2>2
<1>9. PageOK'
  <2>1. PageFits(page, Len(calls))'
    BY <1>1, <1>5, <1>8 DEF PageFits
  <2>2. here' \subseteq DOMAIN calls'
    BY <1>2, <1>5, <1>6 DEF TInv, PageOK
  <2>3. ASSUME NEW i \in here', calls'[i].stage # "done" PROVE calls'[i].h.at = page'.at
    <3>1. CASE i = n
      BY <1>1, <1>4, <1>5, <1>8, <3>1
    <3>2. CASE i # n
      <4>1. i \in here /\ calls'[i] = calls[i]
        BY <1>2, <1>5, <2>3, <3>2 DEF TInv, PageOK
      <4> QED  BY <1>8, <2>3, <4>1 DEF TInv, PageOK
    <3> QED  BY <3>1, <3>2
  <2> QED  BY <2>1, <2>2, <2>3 DEF PageOK
<1>10. BoundsOK'
  <2>1. Unanswered' = Unanswered \cup {n} /\ n \notin Unanswered
    BY <1>4, <1>5, <1>6 DEF Unanswered
  <2>2. Cardinality(Unanswered') = Cardinality(Unanswered) + 1 /\ Cardinality(Unanswered) \in Nat
    BY <2>1, RequestsAre, FS_AddElement
  <2>3. /\ applied \in Nat /\ applied + Cardinality(Unanswered) <= Len(calls)
        /\ spent \in Nat /\ desk \in Desks /\ desk.steps \in Nat
    BY OperatorAssumption DEF TInv, IInv, BoundsOK
  <2>4. applied' + Cardinality(Unanswered') <= Len(calls')
    BY <1>1, <1>5, <2>2, <2>3 DEF n
  <2>5. Len(calls') + spent' <= desk'.steps
    BY <1>1, <1>5, <2>3 DEF n, MayStep
  <2>6. Len(calls') <= MaxWrites
    BY <1>1, <1>5, OperatorAssumption DEF n
  <2> QED  BY <1>1, <2>3, <2>4, <2>5, <2>6 DEF BoundsOK
<1>11. CallOK(x, cache)
  <2>1. \A i \in DOMAIN h.then : h.then[i].go # None => h.then[i].go \in desk.pages
    <3>1. page.at \in desk.pages /\ desk \in Desks
      BY <1>7, Stays DEF PageFits
    <3> QED  BY <1>1, <3>1, OperatorAssumption
  <2> QED  BY <1>4, <2>1, Stays DEF CallOK, Stages
<1>12. ASSUME NEW i \in DOMAIN calls' PROVE CallOK(calls[i], cache)'
  BY <1>1, <1>5, <1>6, <1>11 DEF TInv, CallOK
<1> QED  BY <1>1, <1>9, <1>10, <1>12 DEF TInv, Typed

\* The server answers, or the request is given up.
LEMMA AnswerTyped ==
  ASSUME TInv, IInv', NEW i \in DOMAIN calls, NEW x, calls' = [calls EXCEPT ![i] = x],
         UNCHANGED <<desk, org, page, here, cache>>, CallOK(x, cache), x.stage # "sent",
         x.stage # "done" => x.h = calls[i].h /\ calls[i].stage # "done",
         applied' = applied \/ (applied' = applied + 1 /\ calls[i].stage = "sent"),
         spent' \in Nat, Len(calls) + spent' <= desk.steps
  PROVE  TInv'
<1>1. DOMAIN calls' = DOMAIN calls /\ \A j \in DOMAIN calls : j # i => Rests(j, {})
  BY ReleasedRests
<1>2. calls'[i] = x
  OBVIOUS
<1>3. Moved(i, {}) /\ MovesOn(i)
  BY <1>1, <1>2, SameLength DEF Moved, MovesOn
<1> QED  BY <1>3, Stays, MovingInv

\* Which requests are answered, refused, given up.
LEMMA AnswersTyped ==
  ASSUME TInv, IInv', NEW i \in DOMAIN calls,
         ServerApplies(i) \/ ServerRefuses(i) \/ Refused(i) \/ Unnoticed(i)
  PROVE  TInv'
<1>1. IsCall(calls[i], applied) /\ CallOK(calls[i], cache) /\ applied \in Nat
  BY DEF TInv, IInv, GoodCall
<1>2. CASE ServerApplies(i)
  <2> DEFINE x == [calls[i] EXCEPT !.stage = "served", !.n = applied + 1]
  <2>1. /\ calls' = [calls EXCEPT ![i] = x] /\ calls[i].stage = "sent" /\ applied' = applied + 1
        /\ UNCHANGED <<desk, org, page, here, cache, spent>>
    BY <1>2 DEF ServerApplies
  <2>2. /\ x.h = calls[i].h /\ x.org = calls[i].org /\ x.todo = calls[i].todo /\ x.waits = calls[i].waits
        /\ x.stage = "served"
    BY <1>1 DEF IsCall
  <2> HIDE DEF x
  <2>3. CallOK(x, cache)
    BY <1>1, <2>1, <2>2 DEF CallOK, Stages
  <2> QED  BY <2>1, <2>2, <2>3, Stays, AnswerTyped
<1>3. CASE ServerRefuses(i)
  <2> DEFINE x == [calls[i] EXCEPT !.stage = "refused"]
  <2>1. /\ calls' = [calls EXCEPT ![i] = x] /\ calls[i].stage \in {"sent", "served"} /\ applied' = applied
        /\ UNCHANGED <<desk, org, page, here, cache>> /\ (spent' = spent \/ Spend)
    BY <1>3 DEF ServerRefuses
  <2>2. /\ x.h = calls[i].h /\ x.org = calls[i].org /\ x.todo = calls[i].todo /\ x.waits = calls[i].waits
        /\ x.stage = "refused"
    BY <1>1 DEF IsCall
  <2> HIDE DEF x
  <2>3. CallOK(x, cache)
    BY <1>1, <2>1, <2>2 DEF CallOK, Stages
  <2>4. spent' \in Nat /\ Len(calls) + spent' <= desk.steps
    BY <2>1, Stays, SpendStays
  <2> QED  BY <2>1, <2>2, <2>3, <2>4, AnswerTyped
<1>4. CASE Refused(i) \/ Unnoticed(i)
  <2>1. calls' = [calls EXCEPT ![i] = Done] /\ UNCHANGED <<desk, org, page, here, cache, applied, spent>>
    BY <1>4 DEF Refused, Unnoticed
  <2>2. CallOK(Done, cache) /\ Done.stage = "done"
    BY DEF CallOK, Done, Stages
  <2> QED  BY <2>1, <2>2, Stays, AnswerTyped
<1> QED  BY <1>2, <1>3, <1>4

\* A handler's next step: it waits for what is read again on screen, and that
\* is on its way.
LEMMA AdvanceTyped ==
  ASSUME TInv, IInv', NEW i \in DOMAIN calls, calls[i].stage \in {"served", "telling"}, NEW pg,
         PageFits(pg, Len(calls)), pg.at = page.at,
         Advance(i, pg), UNCHANGED <<desk, org, applied, spent>>
  PROVE  TInv'
<1> DEFINE c == calls[i]  s == Head(c.todo)  K == Reach(s, c.org)
<1>1. IsCall(c, applied) /\ CallOK(c, cache) /\ c.todo \in Seq(Steps) /\ org \in Orgs
  BY DEF TInv, IInv, GoodCall, IsCall
<1>2. c.h \in Handlers /\ c.org \in Orgs /\ c.stage # "done" /\ c.stage # "sent"
  BY <1>1 DEF CallOK
<1>3. ASSUME NEW L, NEW x, CallOK(x, cache'), x.stage # "sent", x.stage # "done" => x.h = c.h,
             \/ calls' = [calls EXCEPT ![i] = x] /\ L = {}
             \/ calls' = [Released(calls, L) EXCEPT ![i] = x],
             Typed(cache'), Flying(cache', L),
             PageFits(page', Len(calls)), here' = {} \/ (here' = here /\ page'.at = page.at)
      PROVE  TInv'
  <2>1. DOMAIN calls' = DOMAIN calls /\ \A j \in DOMAIN calls : j # i => Rests(j, L)
    BY <1>3, ReleasedRests
  <2>2. calls'[i] = x
    BY <1>3 DEF Released
  <2>3. Moved(i, L) /\ MovesOn(i)
    BY <1>2, <1>3, <2>1, <2>2, SameLength DEF Moved, MovesOn
  <2>4. spent' \in Nat /\ Len(calls) + spent' <= desk.steps /\ here' \subseteq here
    BY <1>3, Stays
  <2> QED  BY <1>3, <2>3, <2>4, MovingInv
<1>4. CASE c.todo = <<>>
  <2>1. /\ calls' = [calls EXCEPT ![i] = Done] /\ cache' = cache /\ here' = here
        /\ page' = pg \/ page' = [pg EXCEPT !.dialog = None]
    BY <1>4 DEF Advance
  <2>2. PageFits(page', Len(calls)) /\ page'.at = page.at
    BY <2>1 DEF PageFits
  <2>3. CallOK(Done, cache) /\ Done.stage = "done"
    BY DEF CallOK, Done, Stages
  <2> HIDE DEF c
  <2> QED  BY <1>3, <2>1, <2>2, <2>3, Stays
<1>5. CASE c.todo # <<>>
  <2>1. /\ s = c.todo[1] /\ 1 \in DOMAIN c.todo
        /\ \A j \in DOMAIN Tail(c.todo) : j + 1 \in DOMAIN c.todo /\ Tail(c.todo)[j] = c.todo[j + 1]
    BY <1>1, <1>5
  <2>2. \A j \in DOMAIN Tail(c.todo) : Tail(c.todo)[j].go # None => Tail(c.todo)[j].go \in desk.pages
    BY <1>1, <1>2, <2>1 DEF CallOK
  <2>3. s.go # None => s.go \in desk.pages
    BY <1>1, <1>2, <2>1 DEF CallOK
  <2>4. CASE s.go # None
    <3> DEFINE y == [c EXCEPT !.todo = Tail(@), !.stage = "telling"]
    <3>1. /\ calls' = [calls EXCEPT ![i] = y] /\ page' = At(s.go, c.org) /\ here' = {}
          /\ cache' = Mounted(cache, Shows(page', org, cache))
      BY <1>5, <2>4 DEF Advance
    <3>2. y.h = c.h /\ y.org = c.org /\ y.stage = "telling" /\ y.todo = Tail(c.todo) /\ y.waits = c.waits
      <4> HIDE DEF c
      <4> QED  BY <1>1 DEF IsCall
    <3>3. Typed(cache') /\ Flying(cache', {})
      BY <1>1, <3>1, Stays, MountedTyped DEF Flying
    <3>4. PageFits(page', Len(calls))
      BY <1>2, <2>3, <2>4, <3>1 DEF PageFits, At
    <3> HIDE DEF y
    <3>5. CallOK(y, cache')
      <4>1. c.waits \subseteq DOMAIN cache /\ \A k \in c.waits : cache[k].flight # "idle"
        BY <1>1 DEF CallOK
      <4>2. y.waits \subseteq DOMAIN cache' /\ \A k \in y.waits : cache'[k].flight # "idle"
        BY <3>2, <3>3, <4>1 DEF Typed, Flying
      <4> HIDE DEF c
      <4> QED  BY <1>2, <2>2, <3>2, <4>2 DEF CallOK, Stages
    <3> HIDE DEF c
    <3> QED  BY <1>3, <3>1, <3>2, <3>3, <3>4, <3>5
  <2>5. CASE s.go = None
    <3> DEFINE W == IF s.wait THEN K \cap Shown ELSE {}
               z == [c EXCEPT !.todo = Tail(@), !.stage = "telling", !.waits = W]
    <3>1. /\ cache' = Asked([k \in DOMAIN cache |->
                               IF k \in K THEN Invalidate(cache[k], k \in Shown) ELSE cache[k]])
          /\ calls' = [Released(calls, K) EXCEPT
                         ![i].todo = Tail(@), ![i].stage = "telling", ![i].waits = W]
          /\ page' = pg /\ here' = here
      BY <1>5, <2>5 DEF Advance
    <3>2. K \subseteq DOMAIN cache
      BY DEF Reach
    <3>3. /\ Typed(cache') /\ Flying(cache', {})
          /\ \A k \in DOMAIN cache \cap K \cap Shown : cache'[k].flight # "idle"
      <4> HIDE DEF K
      <4> QED  BY <1>1, <3>1, Stays, InvalidatedTyped
    <3>4. calls' = [Released(calls, K) EXCEPT ![i] = z]
      <4>1. Released(calls, K)[i] = [c EXCEPT !.waits = @ \ K]
        BY DEF Released
      <4>2. calls' = [Released(calls, K) EXCEPT
              ![i] = [Released(calls, K)[i] EXCEPT !.todo = Tail(@), !.stage = "telling", !.waits = W]]
        BY <3>1
      <4>3. [[c EXCEPT !.waits = c.waits \ K] EXCEPT !.todo = Tail(@), !.stage = "telling", !.waits = W] = z
        <5> HIDE DEF W, K, c
        <5> QED  BY <1>1 DEF IsCall, z
      <4> QED  BY <4>1, <4>2, <4>3
    <3>5. z.h = c.h /\ z.org = c.org /\ z.stage = "telling" /\ z.todo = Tail(c.todo) /\ z.waits = W
      <4> HIDE DEF c, W
      <4> QED  BY <1>1 DEF IsCall
    <3>6. W \subseteq DOMAIN cache' /\ \A k \in W : cache'[k].flight # "idle"
      <4> HIDE DEF K
      <4> QED  BY <3>2, <3>3 DEF Typed
    <3> HIDE DEF z, W, K
    <3>7. CallOK(z, cache')
      <4> HIDE DEF c
      <4> QED  BY <1>2, <2>2, <3>5, <3>6 DEF CallOK, Stages
    <3>8. Flying(cache', K)
      BY <3>3 DEF Flying
    <3> HIDE DEF c
    <3> QED  BY <1>3, <3>1, <3>3, <3>4, <3>5, <3>7, <3>8
  <2> QED  BY <2>4, <2>5
<1> QED  BY <1>4, <1>5

\* The first step, with what the operator is told on the page.
LEMMA ToldTyped == ASSUME TInv, IInv', NEW i \in DOMAIN calls, Told(i) PROVE TInv'
<1> DEFINE h == calls[i].h
           pg == IF i \notin here THEN page
                 ELSE [page EXCEPT
                         !.dirty = @ /\ h.via # "form",
                         !.dialog = CASE h.via = "sheet" -> [h |-> h, call |-> i]
                                      [] h.via \in {"dialog", "entry"} /\ @ # None -> IF @.h = h THEN None ELSE @
                                      [] OTHER -> @]
<1>1. /\ calls[i].stage = "served" /\ Advance(i, pg) /\ UNCHANGED <<desk, org, applied, spent>>
  BY DEF Told
<1>2. PageFits(page, Len(calls)) /\ i \in 0 .. Len(calls) /\ h \in Handlers
  BY <1>1, Stays, RequestsAre DEF TInv, CallOK
<1>3. PageFits(pg, Len(calls)) /\ pg.at = page.at
  <2>1. CASE i \notin here
    BY <1>2, <2>1
  <2>2. CASE i \in here
    <3> DEFINE d == [h |-> h, call |-> i]
               e == CASE h.via = "sheet" -> d
                      [] h.via \in {"dialog", "entry"} /\ page.dialog # None ->
                           IF page.dialog.h = h THEN None ELSE page.dialog
                      [] OTHER -> page.dialog
               b == page.dirty /\ h.via # "form"
    <3>1. h.at = page.at
      BY <1>1, <2>2 DEF TInv, PageOK
    <3>2. d \in [h: Handlers, call: 0 .. Len(calls)] /\ d.h = h
      BY <1>2
    <3>3. e = d \/ e = None \/ e = page.dialog
      OBVIOUS
    <3>4. pg = [page EXCEPT !.dirty = b, !.dialog = e]
      BY <2>2
    <3>5. b \in BOOLEAN
      OBVIOUS
    <3> HIDE DEF pg, d, e, b, h
    <3>6. pg \in [at: {page.at}, of: {page.of}, dirty: {b}, dialog: {e}]
      BY <1>2, <3>4 DEF PageFits
    <3>7. pg.at = page.at /\ pg.of = page.of /\ pg.dirty = b /\ pg.dialog = e
      BY <3>6
    <3> QED  BY <1>2, <3>1, <3>2, <3>3, <3>5, <3>6, <3>7 DEF PageFits
  <2> QED  BY <2>1, <2>2
<1> HIDE DEF pg
<1> QED  BY <1>1, <1>3, AdvanceTyped

\* Reads are answered, arrive, fail and age.
LEMMA ReadsTyped ==
  ASSUME TInv, IInv', NEW k \in DOMAIN cache, AnswerRead(k) \/ DeliverRead(k) \/ FailRead(k)
  PROVE  TInv'
<1>1. /\ cache[k] \in Entries(Orgs \cup {None}) /\ OwnEntry(k, cache[k]) /\ Typed(cache)
      /\ applied \in Nat /\ org \in Orgs
  BY DEF TInv, IInv, Typed
<1>2. CASE AnswerRead(k)
  <2> DEFINE s == [cache[k].snap EXCEPT !.n = applied]  e == Answer(cache[k], s)
  <2>1. /\ cache[k].flight = "asked" /\ cache' = [cache EXCEPT ![k] = e]
        /\ UNCHANGED <<desk, org, page, here, calls, applied, spent>>
    BY <1>2 DEF AnswerRead
  <2>2. s \in [n: Nat, v: Orgs \cup {None}]
    BY <1>1, <2>1 DEF OwnEntry
  <2> HIDE DEF s
  <2>3. e \in Entries(Orgs \cup {None}) /\ e.flight # "idle"
    <3>1. e \in Entries(Orgs \cup {None})
      BY <1>1, <2>2, EntryMoves
    <3> QED  BY <1>1, <3>1 DEF Answer, Entries
  <2> HIDE DEF e
  <2>4. Typed(cache') /\ Flying(cache', {})
    BY <1>1, <2>1, <2>3, MoveTyped
  <2> QED  BY <2>1, <2>4, Stays, AsideTyped
<1>3. CASE DeliverRead(k)
  <2> DEFINE c == [cache EXCEPT ![k] = Deliver(@)]  L == Shows(page, org, c) \ Shown
  <2>1. /\ cache' = Mounted(c, L) /\ calls' = Released(calls, {k})
        /\ UNCHANGED <<desk, org, page, here, applied, spent>>
    BY <1>3 DEF DeliverRead
  <2>2. Typed(c) /\ Flying(c, {k})
    BY <1>1, EntryMoves, MoveTyped
  <2> HIDE DEF c, L
  <2>3. Typed(cache') /\ Flying(cache', {k})
    BY <1>1, <2>1, <2>2, MountedTyped DEF Flying
  <2> QED  BY <2>1, <2>3, Stays, AsideTyped
<1>4. CASE FailRead(k)
  <2>1. /\ cache' = [cache EXCEPT ![k] = Fail(@)] /\ calls' = Released(calls, {k}) /\ Spend
        /\ UNCHANGED <<desk, org, page, here, applied>>
    BY <1>4 DEF FailRead
  <2>2. Typed(cache') /\ Flying(cache', {k})
    BY <1>1, <2>1, EntryMoves, MoveTyped
  <2>3. spent' \in Nat /\ Len(calls) + spent' <= desk.steps
    BY <2>1, SpendStays
  <2> QED  BY <2>1, <2>2, <2>3, Stays, AsideTyped
<1> QED  BY <1>2, <1>3, <1>4

\* Data grows old.
LEMMA MinutePassesTyped == ASSUME TInv, IInv', MinutePasses PROVE TInv'
<1>1. /\ cache' = [k \in DOMAIN cache |-> Age(cache[k])] /\ Spend
      /\ UNCHANGED <<desk, org, page, here, calls, applied>>
  BY DEF MinutePasses
<1>2. ASSUME NEW k \in DOMAIN cache
      PROVE  Age(cache[k]) \in Entries(Orgs \cup {None}) /\ Age(cache[k]).flight = cache[k].flight
  <2>1. cache[k] \in Entries(Orgs \cup {None})
    BY DEF TInv, Typed
  <2>2. Age(cache[k]) \in Entries(Orgs \cup {None})
    BY <2>1, EntryMoves
  <2> QED  BY <2>1, <2>2 DEF Age, Entries
<1>3. Typed(cache') /\ Flying(cache', {})
  BY <1>1, <1>2 DEF Typed, Flying
<1>4. spent' \in Nat /\ Len(calls) + spent' <= desk.steps
  BY <1>1, SpendStays
<1> QED  BY <1>1, <1>3, <1>4, Stays, AsideTyped

\* The second invariant, step by step.
LEMMA NextTyped == TInv /\ [Next]_vars => TInv'
<1> SUFFICES ASSUME TInv, [Next]_vars PROVE TInv'
  OBVIOUS
<1>1. IInv'
  BY NextInv DEF TInv
<1>2. CASE Operator
  <2>1. ASSUME NEW p \in Pages, Open(p) PROVE TInv'
    BY <1>1, <2>1, OpenTyped
  <2>2. ASSUME NEW o \in Orgs, SwitchOrg(o) PROVE TInv'
    <3>1. UNCHANGED <<desk, page, here, cache, calls, applied, spent>>
      BY <2>2 DEF SwitchOrg
    <3> QED  BY <1>1, <3>1, Stays, PageTyped
  <2>3. ASSUME NEW h \in Handlers, Submit(h) PROVE TInv'
    BY <1>1, <2>3, SubmitTyped
  <2> QED  BY <1>1, <1>2, <2>1, <2>2, <2>3, FormTyped DEF Operator
<1>3. CASE Answers
  <2>1. PICK i \in DOMAIN calls :
          ServerApplies(i) \/ ServerRefuses(i) \/ Refused(i) \/ Told(i) \/ Unnoticed(i) \/ Continue(i)
    BY <1>3 DEF Answers
  <2>2. CASE Continue(i)
    <3>1. PageFits(page, Len(calls))
      BY Stays
    <3> QED  BY <1>1, <2>2, <3>1, AdvanceTyped DEF Continue
  <2> QED  BY <1>1, <2>1, <2>2, AnswersTyped, ToldTyped
<1>4. CASE Reads
  BY <1>1, <1>4, ReadsTyped, MinutePassesTyped DEF Reads
<1>5. CASE UNCHANGED vars
  <2>1. UNCHANGED <<desk, page, here, cache, calls, applied, spent>>
    BY <1>5 DEF vars
  <2> QED  BY <1>1, <2>1, Stays, PageTyped
<1> QED  BY <1>2, <1>3, <1>4, <1>5 DEF Next

\* For any organisations, desks and bounds: every variable has the shape the
\* code gives it, a dialog is its page's, and a handler that waits, waits for
\* a read that is on its way: nobody waits for an answer that has come.
THEOREM BackOfficeIsTyped == Spec => []TypeOK
<1>1. Init => TInv
  BY InitTyped
<1>2. TInv /\ [Next]_vars => TInv'
  BY NextTyped
<1>3. TInv => TypeOK
  <2> SUFFICES ASSUME TInv PROVE TypeOK
    OBVIOUS
  <2>1. applied \in 0 .. Len(calls)
    BY RequestsAre DEF TInv, IInv, BoundsOK
  <2>2. DOMAIN cache = Keys(desk) /\ acked \in [DOMAIN cache -> Nat] /\ org \in Orgs
    BY DEF TInv, IInv
  <2>3. ASSUME NEW i \in DOMAIN calls PROVE calls[i].n \in 0 .. applied /\ CallOK(calls[i], cache)
    BY DEF TInv, IInv, GoodCall, IsCall
  <2>4. /\ page.at \in desk.pages /\ page.of \in Orgs /\ page.dirty \in BOOLEAN
        /\ page.dialog # None => /\ page.dialog.h \in Handlers /\ page.dialog.h.at = page.at
                                 /\ page.dialog.call \in 0 .. Len(calls)
    BY DEF TInv, PageOK, PageFits
  <2> QED  BY <2>1, <2>2, <2>3, <2>4 DEF TInv, BoundsOK, PageOK, Typed, CallOK, TypeOK
<1> QED  BY <1>1, <1>2, <1>3, PTL DEF Spec
================================================================================
