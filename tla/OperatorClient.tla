---------------------------- MODULE OperatorClient ----------------------------
(***************************************************************************)
(* The back office (app/admin) in one tab of an operator who works for     *)
(* several organisations.  Each page shows some queries and has handlers:  *)
(* a request, then what useCrud's invalidate reads again, step by step,    *)
(* then perhaps another page.  The organisation is switched from the       *)
(* public site's navbar only, where no admin page is mounted; but the      *)
(* query cache and the handlers that are running outlive both.             *)
(*                                                                         *)
(* Of each entity an organisation has one record, which its copies stand   *)
(* for too.  Identical handlers of a page are one, so that another may be  *)
(* sent while one is on its way; the status a record must have for its     *)
(* buttons to be there is left to the server, which may always refuse.     *)
(***************************************************************************)
EXTENDS QueryCache, Sequences, FiniteSets

CONSTANTS Orgs,       \* the organisations the operator belongs to
          Desks,      \* [pages, follows, steps]: pages worked on together in one
                      \* behaviour, the queries followed (any other is read in no
                      \* time), and the bound on what MayStep counts
          MaxWrites   \* bound: requests sent in one behaviour

VARIABLES
  desk,     \* what this behaviour is about
  org,      \* the organisation selected
  page,     \* the page mounted
  here,     \* the requests it sent
  cache,    \* the query cache, by query and organisation
  calls,    \* every request sent, in order
  applied,  \* how many of them changed something
  acked,    \* per key: the last change the operator saw through
  spent     \* steps so far

vars == <<desk, org, page, here, cache, calls, applied, acked, spent>>

-------------------------------------------------------------------------------
(* What each page shows.  A query is <<family, part>>, its family the one   *)
(* useCrud invalidates.                                                     *)

Site == <<"site", "list">>

Spaces == <<"spaces", "list">>
ListOf(e) == <<e, "list">>
OneOf(e) == <<e, "detail">>
HistoryOf(e) == <<"history", e>>
Public == <<"public", "spaces">>
Mine == <<"spaces", "mine">>

DashboardPage  == {<<"dashboard", "all">>, <<"bookings", "recent">>}
BookingsPage   == {ListOf("bookings"), Spaces}
BookingPage    == {OneOf("bookings"), Spaces}
RoomsPage      == {Spaces}
RoomPage       == {OneOf("rooms"), HistoryOf("rooms")}
SpacesPage     == {Spaces}
NewSpacePage   == {OneOf("organization")}
SpacePage      == {OneOf("spaces"), HistoryOf("spaces")}
UsersPage      == {ListOf("users")}
UserPage       == {OneOf("users"), ListOf("packages"), HistoryOf("users")}
PackagesPage   == {ListOf("packages")}
PackagePage    == {OneOf("packages"), HistoryOf("packages")}
PurchasesPage  == {ListOf("purchases"), ListOf("packages")}
PurchasePage   == {OneOf("purchases"), HistoryOf("purchases")}
InboxPage      == {ListOf("support")}
RequestPage    == {OneOf("support"), HistoryOf("support")}
AuditPage      == {ListOf("audit"), <<"users", "actors">>}
BillingPage    == {ListOf("billing"), <<"billing", "invoices">>}
\* The e-mail card reads its status once more after a test message, which
\* changes no record: left out.
SettingsPage   == {OneOf("organization"), <<"email", "status">>}
CalendarPage   == {Mine, <<"calendar", "grid">>}

PageQueries(p) ==
  CASE p = Site                       -> {Public}
    [] p = <<"dashboard", "list">>    -> DashboardPage
    [] p = <<"bookings", "list">>     -> BookingsPage
    [] p = <<"bookings", "detail">>   -> BookingPage
    [] p = <<"rooms", "list">>        -> RoomsPage
    [] p = <<"rooms", "detail">>      -> RoomPage
    [] p = <<"spaces", "list">>       -> SpacesPage
    [] p = <<"spaces", "new">>        -> NewSpacePage
    [] p = <<"spaces", "detail">>     -> SpacePage
    [] p = <<"users", "list">>        -> UsersPage
    [] p = <<"users", "detail">>      -> UserPage
    [] p = <<"packages", "list">>     -> PackagesPage
    [] p = <<"packages", "detail">>   -> PackagePage
    [] p = <<"purchases", "list">>    -> PurchasesPage
    [] p = <<"purchases", "detail">>  -> PurchasePage
    [] p = <<"support", "list">>      -> InboxPage
    [] p = <<"support", "detail">>    -> RequestPage
    [] p = <<"audit", "list">>        -> AuditPage
    [] p = <<"billing", "list">>      -> BillingPage
    [] p = <<"organization", "detail">> -> SettingsPage
    [] p = <<"calendar", "list">>     -> CalendarPage
    [] OTHER                          -> {}

\* The query a page's requests take their ids from.
Subject(p) == IF p[1] = "calendar" THEN Mine
              ELSE IF p[1] = "rooms" /\ p[2] = "list" THEN Spaces ELSE p

KeyOf_NoTenant(q, o) == <<q[1], q[2], None>>  \* mutant: one cache for every organisation

\* ['admin', entity, org, ...].  The public site's key has no organisation, nor
\* has that of the spaces the calendar reads.
KeyOf(q, o) == <<q[1], q[2], IF q \in {Public, Mine} THEN None ELSE o>>

Keys(d) == {KeyOf(q, o) : q \in d.follows, o \in Orgs}

\* A record's page in another organisation than the record's is a 404.  The
\* calendar's grid is read for a space of those it found.
Shows(p, o, c) ==
  IF p.at[2] = "detail" /\ p.of # o THEN {}
  ELSE IF p.at = <<"calendar", "list">>
  THEN {KeyOf(Mine, o)} \cup
       (IF Has(c[KeyOf(Mine, o)]) THEN {<<"calendar", "grid", c[KeyOf(Mine, o)].data.v>>} ELSE {})
  ELSE {KeyOf(q, o) : q \in PageQueries(p.at) \cap desk.follows}

Shown == Shows(page, org, cache)

-------------------------------------------------------------------------------
(* What a handler does once its request has succeeded: steps that read a    *)
(* family again and wait for it (or do not), or that go to another page.    *)

Step(families, one, wait) == [tell |-> families, one |-> one, wait |-> wait, go |-> None]
Tell(f) == Step({f}, FALSE, TRUE)
TellOne(f) == Step({f}, TRUE, TRUE)
Refresh == Step({"calendar", "bookings"}, FALSE, FALSE)
Go(p) == [tell |-> {}, one |-> FALSE, wait |-> FALSE, go |-> p]

\* useCrud's invalidate(id) and invalidate().
InvalidateOne(e) == <<Tell(e), Tell("history"), Tell("spaces"), TellOne(e), Tell("public")>>
InvalidateAll(e) == <<Tell(e), Tell("history"), Tell("spaces"), Tell("public")>>

\* The families in which the operator expects to see a change to e: what the
\* handlers of its pages set out to read again.  So an invalidation overtaken,
\* lost or aimed at the wrong key shows, a family the code never thought of (a
\* booking on the dashboard) does not.
Owes(e) == CASE e \in {"rooms", "spaces"} -> {e, "history", "spaces", "public"}
             [] OTHER                     -> {e, "history"}

\* via: "form" is an EntityForm, "danger" and "delete" the two halves of a
\* DangerZone, "reason" a ReasonDialog, "dialog" any other, "sheet" and "entry"
\* those of the calendar, "local" a button whose onSuccess is mutate()'s own.
Handler(e, view, via, then) ==
  [at |-> <<e, view>>, via |-> via, then |-> then, owes |-> Owes(e)]
Detail(e, via) == Handler(e, "detail", via, InvalidateOne(e))
Delete(e) == Handler(e, "detail", "delete", Append(InvalidateAll(e), Go(ListOf(e))))
Deletes(e) == [Delete(e) EXCEPT !.then = @ \o InvalidateOne(e)]

SaveRoom        == Detail("rooms", "form")
SaveHours       == Detail("rooms", "button")
CopyDay         == Detail("rooms", "button")
AddBlock        == Detail("rooms", "button")
RemoveBlock     == Detail("rooms", "button")
RoomPhotos      == Detail("rooms", "button")
ActivateRoom    == Detail("rooms", "danger")
DuplicateRoom   == Handler("rooms", "detail", "button", Append(InvalidateAll("rooms"), Go(OneOf("rooms"))))
DeleteRoom      == Handler("rooms", "detail", "delete",
                           Append(InvalidateAll("rooms"), Go(OneOf("spaces"))) \o InvalidateOne("rooms"))

SaveSpace       == Detail("spaces", "form")
SpacePhotos     == Detail("spaces", "button")
CreateRoom      == Detail("spaces", "button")
DuplicateHere   == Detail("spaces", "button")
ToggleRoom      == Detail("spaces", "dialog")
ActivateSpace   == Detail("spaces", "danger")
DeleteSpace     == Handler("spaces", "detail", "delete", <<Go(ListOf("spaces"))>> \o InvalidateOne("spaces"))
CreateSpace     == [Handler("spaces", "new", "button", <<>>) EXCEPT !.owes = {}]

Reschedule      == Detail("bookings", "button")
SaveNotes       == Detail("bookings", "button")
SetStatus       == Detail("bookings", "button")
CorrectPrice    == Detail("bookings", "reason")
CancelBooking   == Detail("bookings", "reason")
MarkPaid        == Detail("bookings", "reason")
DeleteBooking   == Deletes("bookings")

SaveUser        == Detail("users", "form")
SetRole         == Detail("users", "dialog")
GrantHours      == Detail("users", "dialog")
ExtendValidity  == Detail("users", "dialog")
AdjustHours     == Detail("users", "dialog")
CancelPack      == Detail("users", "dialog")
AnonymiseUser   == Detail("users", "dialog")
SetPassword     == Detail("users", "dialog")
SuspendUser     == Detail("users", "button")
SendReset       == Detail("users", "button")
RemoveMember    == Handler("users", "detail", "dialog", Append(InvalidateAll("users"), Go(ListOf("users"))))
DeleteUser      == Delete("users")
CreateUser      == Handler("users", "new", "form", Append(InvalidateAll("users"), Go(OneOf("users"))))

SavePackage     == Detail("packages", "form")
ActivatePackage == Detail("packages", "danger")
DeletePackage   == Deletes("packages")
CreatePackage   == Handler("packages", "new", "form", Append(InvalidateAll("packages"), Go(OneOf("packages"))))

ExtendPurchase  == Detail("purchases", "dialog")
SavePurchaseNote == Detail("purchases", "button")
AdjustPurchase  == Detail("purchases", "reason")
CancelPurchase  == Detail("purchases", "reason")
ReactivatePurchase == Detail("purchases", "reason")
DeletePurchase  == Delete("purchases")

UpdateRequest   == Detail("support", "local")
DeleteRequest   == Delete("support")
MarkInInbox     == [Handler("support", "list", "button", <<Tell("support")>>) EXCEPT !.owes = {"support"}]

SaveSettings    == Handler("organization", "detail", "form", InvalidateAll("organization"))
RegisterInvoice == Handler("billing", "list", "dialog", InvalidateAll("billing"))
EditInvoice     == Handler("billing", "list", "dialog", InvalidateAll("billing"))
DeleteInvoice   == Handler("billing", "list", "dialog", InvalidateAll("billing"))

OnCalendar(via) == [Handler("calendar", "list", via, <<Refresh>>) EXCEPT !.owes = {"calendar", "bookings"}]
SheetAction     == OnCalendar("sheet")
ConfirmMove     == OnCalendar("dialog")
DeleteBlock     == OnCalendar("dialog")
NewEntry        == OnCalendar("entry")

Handlers ==
  {SaveRoom, SaveHours, CopyDay, AddBlock, RemoveBlock, RoomPhotos, ActivateRoom, DuplicateRoom,
   DeleteRoom, SaveSpace, SpacePhotos, CreateRoom, DuplicateHere, ToggleRoom, ActivateSpace,
   DeleteSpace, CreateSpace, Reschedule, SaveNotes, SetStatus, CorrectPrice, CancelBooking,
   MarkPaid, DeleteBooking, SaveUser, SetRole, GrantHours, ExtendValidity, AdjustHours, CancelPack,
   AnonymiseUser, SetPassword, SuspendUser, SendReset, RemoveMember, DeleteUser, CreateUser,
   SavePackage, ActivatePackage, DeletePackage, CreatePackage, ExtendPurchase, SavePurchaseNote,
   AdjustPurchase, CancelPurchase, ReactivatePurchase, DeletePurchase, UpdateRequest, DeleteRequest,
   MarkInInbox, SaveSettings, RegisterInvoice, EditInvoice, DeleteInvoice, SheetAction, ConfirmMove,
   DeleteBlock, NewEntry}

Dialogs == {"reason", "dialog", "sheet", "entry"}

ASSUME OperatorAssumption ==
  /\ None \notin Orgs /\ None \notin [n: Nat, v: Orgs \cup {None}] /\ MaxWrites \in Nat
  /\ \A d \in Desks :
       /\ Site \in d.pages /\ d.steps \in Nat
       /\ d.follows \subseteq UNION {PageQueries(p) : p \in d.pages}
       /\ \A h \in Handlers : h.at \in d.pages =>
            \A i \in DOMAIN h.then : h.then[i].go # None => h.then[i].go \in d.pages
       /\ <<"calendar", "list">> \in d.pages => CalendarPage \subseteq d.follows

-------------------------------------------------------------------------------
(* Requests and the cache.                                                 *)

Stages == {"sent", "served", "refused", "telling", "done"}

Done == [h |-> None, org |-> None, of |-> None, n |-> 0, stage |-> "done", todo |-> <<>>, waits |-> {}]

Pending(i) == i # 0 /\ calls[i].stage \in {"sent", "served", "refused"}

\* The flag that disables a handler's button, of the component that is mounted:
\* isPending outlasts what onSuccess awaits, and so does EntityForm's own; a
\* DangerZone's ends with its request and is shared by its two halves.
Busy(h) == \E i \in here : \/ calls[i].h = h /\ (Pending(i) \/ calls[i].stage = "telling")
                           \/ /\ h.via \in {"danger", "delete"} /\ Pending(i)
                              /\ calls[i].h.via \in {"danger", "delete"}

\* A read is asked of the organisation selected when it starts.
Asked(c) == [k \in DOMAIN c |->
  IF c[k].flight = "asked" /\ c[k].snap = None
  THEN [c[k] EXCEPT !.snap = [n |-> 0, v |-> IF k[1] = "public" THEN None ELSE org]] ELSE c[k]]

Mounted(c, K) == Asked([k \in DOMAIN c |-> IF k \in K THEN Mount(c[k]) ELSE c[k]])

\* The keys a step reads again: a family's in every organisation, one record's
\* in that of the handler.
Reach_Selected(s, o) ==  \* mutant: what is cached of another organisation is not marked
  {k \in DOMAIN cache : k[1] \in s.tell /\ k[3] \in {org, None} /\ (s.one => k[2] = "detail" /\ k[3] = o)}
Reach(s, o) == {k \in DOMAIN cache : k[1] \in s.tell /\ (s.one => k[2] = "detail" /\ k[3] = o)}

Released_Never(cs, K) == cs  \* mutant: a handler waits for a read that has ended
\* Nobody waits for a read that has ended, or has been started anew.
Released(cs, K) == [i \in DOMAIN cs |-> [cs[i] EXCEPT !.waits = @ \ K]]

Most(a, b) == IF a < b THEN b ELSE a

Pages == UNION {d.pages : d \in Desks}
At(p, o) == [at |-> p, of |-> o, dirty |-> FALSE, dialog |-> None]

-------------------------------------------------------------------------------
(* The operator.                                                           *)

\* Requests, pages opened and whatever happens without the operator.
MayStep == Len(calls) + spent < desk.steps
Spend == MayStep /\ spent' = spent + 1

\* A form with changes asks first whether to leave, unless it is being saved;
\* the answer is the operator's.
Open(p) ==
  /\ Spend
  /\ p \in desk.pages /\ p # page.at
  /\ page' = At(p, org) /\ here' = {}
  /\ cache' = Mounted(cache, Shows(page', org, cache))
  /\ UNCHANGED <<desk, org, calls, applied, acked>>

\* OrgSwitcher, on the public site.
SwitchOrg(o) ==
  /\ page.at = Site /\ o # org
  /\ org' = o
  /\ UNCHANGED <<desk, page, here, cache, calls, applied, acked, spent>>

\* The record, or the list, is there to work on.
Ready == page.at[2] # "new" =>
           Subject(page.at) \in desk.follows /\ Shown # {} /\ Has(cache[KeyOf(Subject(page.at), org)])
Source == IF page.at[2] = "new" THEN org ELSE cache[KeyOf(Subject(page.at), org)].data.v

Edit ==
  /\ \E h \in Handlers : h.at = page.at /\ h.via = "form"
  /\ Ready /\ ~page.dirty
  /\ page' = [page EXCEPT !.dirty = TRUE]
  /\ UNCHANGED <<desk, org, here, cache, calls, applied, acked, spent>>

OpenDialog(h) ==
  /\ h.at = page.at /\ h.via \in Dialogs /\ Ready /\ page.dialog = None
  /\ page' = [page EXCEPT !.dialog = [h |-> h, call |-> 0]]
  /\ UNCHANGED <<desk, org, here, cache, calls, applied, acked, spent>>

\* A ReasonDialog cannot be closed while its request is out.
CloseDialog ==
  /\ page.dialog # None
  /\ page.dialog.h.via = "reason" => ~Busy(page.dialog.h)
  /\ page' = [page EXCEPT !.dialog = None]
  /\ UNCHANGED <<desk, org, here, cache, calls, applied, acked, spent>>

Enabled(h) ==
  CASE h.via = "form"                 -> page.dirty /\ ~Busy(h)
    [] h.via \in {"button", "local"}  -> TRUE
    [] h.via \in {"danger", "delete"} -> ~Busy(h)
    [] h.via \in {"sheet", "entry"}   -> page.dialog # None /\ page.dialog.h = h /\ ~Pending(page.dialog.call)
    [] OTHER                          -> page.dialog # None /\ page.dialog.h = h /\ ~Busy(h)

Submit(h) ==
  /\ Len(calls) < MaxWrites /\ MayStep
  /\ h.at = page.at /\ Ready /\ Enabled(h)
  /\ calls' = Append(calls, [h |-> h, org |-> org, of |-> Source, n |-> 0, stage |-> "sent",
                             todo |-> h.then, waits |-> {}])
  /\ here' = here \cup {Len(calls')}
  /\ page' = IF page.dialog = None THEN page ELSE [page EXCEPT !.dialog.call = Len(calls')]
  /\ UNCHANGED <<desk, org, cache, applied, acked, spent>>

-------------------------------------------------------------------------------
(* What becomes of a request.  A handler runs on when its page is gone.     *)

\* The ids must be the organisation's own.
ServerApplies(i) ==
  /\ calls[i].stage = "sent" /\ calls[i].of = calls[i].org
  /\ applied' = applied + 1
  /\ calls' = [calls EXCEPT ![i].stage = "served", ![i].n = applied + 1]
  /\ UNCHANGED <<desk, org, page, here, cache, acked, spent>>

\* For whatever reason; or the answer is lost, and nobody knows what was done.
ServerRefuses(i) ==
  /\ calls[i].stage = "sent" \/ (calls[i].stage = "served" /\ Spend)
  /\ calls[i].stage = "sent" => UNCHANGED spent
  /\ calls' = [calls EXCEPT ![i].stage = "refused"]
  /\ UNCHANGED <<desk, org, page, here, cache, applied, acked>>

\* The form keeps its changes, the dialog stays open on the reason.
Refused(i) ==
  /\ calls[i].stage = "refused"
  /\ calls' = [calls EXCEPT ![i] = Done]
  /\ UNCHANGED <<desk, org, page, here, cache, applied, acked, spent>>

\* The next step of handler i, on page pg.
Advance(i, pg) ==
  LET c == calls[i]
      s == Head(c.todo)
      K == Reach(s, c.org)
  IN CASE c.todo = <<>> ->
            /\ calls' = [calls EXCEPT ![i] = Done]
            /\ acked' = [k \in DOMAIN acked |->
                 IF k[1] \in c.h.owes /\ k[3] \in {c.org, None} THEN Most(acked[k], c.n) ELSE acked[k]]
            /\ page' = IF c.h.via = "reason" /\ i \in here /\ pg.dialog # None /\ pg.dialog.h = c.h
                       THEN [pg EXCEPT !.dialog = None] ELSE pg
            /\ UNCHANGED <<here, cache>>
       [] c.todo # <<>> /\ s.go # None ->
            /\ page' = At(s.go, c.org) /\ here' = {}
            /\ cache' = Mounted(cache, Shows(page', org, cache))
            /\ calls' = [calls EXCEPT ![i].todo = Tail(@), ![i].stage = "telling"]
            /\ UNCHANGED acked
       [] OTHER ->
            /\ cache' = Asked([k \in DOMAIN cache |->
                               IF k \in K THEN Invalidate(cache[k], k \in Shown) ELSE cache[k]])
            /\ calls' = [Released(calls, K) EXCEPT
                           ![i].todo = Tail(@), ![i].stage = "telling",
                           ![i].waits = IF s.wait THEN K \cap Shown ELSE {}]
            /\ page' = pg /\ UNCHANGED <<here, acked>>

\* mutate()'s own onSuccess is called only for the last one of a component
\* that is still there.
Unheard(i) == calls[i].h.via = "local" /\ ~(i \in here /\ \A j \in here : calls[j].h = calls[i].h => j <= i)

\* The operator is told: the form is clean (whatever was typed meanwhile), the
\* dialog closes, the sheet comes back with the booking, and the first step
\* is taken.
Told(i) ==
  /\ calls[i].stage = "served" /\ ~Unheard(i)
  /\ LET h == calls[i].h
     IN Advance(i, IF i \notin here THEN page
                   ELSE [page EXCEPT
                           !.dirty = @ /\ h.via # "form",
                           !.dialog = CASE h.via = "sheet" -> [h |-> h, call |-> i]
                                        [] h.via \in {"dialog", "entry"} /\ @ # None -> IF @.h = h THEN None ELSE @
                                        [] OTHER -> @])
  /\ UNCHANGED <<desk, org, applied, spent>>

Unnoticed(i) ==
  /\ calls[i].stage = "served" /\ Unheard(i)
  /\ calls' = [calls EXCEPT ![i] = Done]
  /\ UNCHANGED <<desk, org, page, here, cache, applied, acked, spent>>

Continue(i) ==
  /\ calls[i].stage = "telling" /\ calls[i].waits = {}
  /\ Advance(i, page)
  /\ UNCHANGED <<desk, org, applied, spent>>

-------------------------------------------------------------------------------
(* Reads.                                                                  *)

\* The calendar of a space of one organisation is not another's to read; a list
\* is that of whoever asks.
AnswerRead(k) ==
  /\ cache[k].flight = "asked" /\ (k[1] = "calendar" => k[3] = cache[k].snap.v)
  /\ cache' = [cache EXCEPT ![k] = Answer(@, [@.snap EXCEPT !.n = applied])]
  /\ UNCHANGED <<desk, org, page, here, calls, applied, acked, spent>>

\* The grid is read once its spaces are there.
DeliverRead(k) ==
  /\ cache[k].flight = "answered"
  /\ LET c == [cache EXCEPT ![k] = Deliver(@)]
     IN cache' = Mounted(c, Shows(page, org, c) \ Shown)
  /\ calls' = Released(calls, {k})
  /\ UNCHANGED <<desk, org, page, here, applied, acked, spent>>

FailRead(k) ==
  /\ Spend /\ cache[k].flight # "idle"
  /\ cache' = [cache EXCEPT ![k] = Fail(@)]
  /\ calls' = Released(calls, {k})
  /\ UNCHANGED <<desk, org, page, here, applied, acked>>

\* A minute without a read.
MinutePasses ==
  /\ Spend /\ \E k \in DOMAIN cache : Has(cache[k]) /\ ~cache[k].stale
  /\ cache' = [k \in DOMAIN cache |-> Age(cache[k])]
  /\ UNCHANGED <<desk, org, page, here, calls, applied, acked>>

-------------------------------------------------------------------------------
Init ==
  /\ desk \in Desks /\ org \in Orgs
  /\ page = At(Site, org) /\ here = {}
  /\ cache = [k \in Keys(desk) |-> Empty] /\ acked = [k \in Keys(desk) |-> 0]
  /\ calls = <<>> /\ applied = 0 /\ spent = 0

Operator == \/ \E p \in Pages : Open(p)
            \/ \E o \in Orgs : SwitchOrg(o)
            \/ Edit \/ CloseDialog
            \/ \E h \in Handlers : OpenDialog(h) \/ Submit(h)

Answers == \E i \in DOMAIN calls :
  ServerApplies(i) \/ ServerRefuses(i) \/ Refused(i) \/ Told(i) \/ Unnoticed(i) \/ Continue(i)

Reads == \/ \E k \in DOMAIN cache : AnswerRead(k) \/ DeliverRead(k) \/ FailRead(k)
         \/ MinutePasses

Next == Operator \/ Answers \/ Reads

Spec == Init /\ [][Next]_vars

-------------------------------------------------------------------------------
(* Properties.                                                             *)

TypeOK ==
  /\ desk \in Desks /\ org \in Orgs /\ Len(calls) + spent <= desk.steps /\ spent \in Nat
  /\ page.at \in desk.pages /\ page.of \in Orgs /\ page.dirty \in BOOLEAN
  /\ page.dialog # None =>
       page.dialog.h \in Handlers /\ page.dialog.h.at = page.at /\ page.dialog.call \in 0 .. Len(calls)
  /\ here \subseteq DOMAIN calls
  /\ DOMAIN cache = Keys(desk) /\ \A k \in DOMAIN cache : cache[k] \in Entries(Orgs \cup {None})
  /\ acked \in [DOMAIN cache -> Nat] /\ applied \in 0 .. Len(calls)
  /\ Len(calls) <= MaxWrites
  /\ \A i \in DOMAIN calls :
       /\ calls[i].stage \in Stages /\ calls[i].waits \subseteq DOMAIN cache /\ calls[i].n \in 0 .. applied
       /\ calls[i].stage # "done" => calls[i].h \in Handlers /\ calls[i].org \in Orgs
       \* a wait is for a read that is on its way
       /\ \A k \in calls[i].waits : cache[k].flight # "idle"

\* useCrud.ts: "Keys are ['admin', <entity>, org, ...] so switching organisation
\* never shows another tenant's cache".  What is on screen is of the
\* organisation selected, and what a page sends goes to the organisation its
\* ids came from, however late a handler opened that page; the calendar, whose
\* spaces are cached without their organisation, is the exception.
OwnTenantShown ==
  /\ page.at[1] # "calendar" =>
       \A k \in Shown \ {KeyOf(Public, org)} : Has(cache[k]) => cache[k].data.v = org
  /\ \A i \in DOMAIN calls : calls[i].stage = "sent" /\ calls[i].h.at[1] # "calendar" =>
       calls[i].of = calls[i].org

\* Once a handler is through, no list, record, history or public page it was
\* to refresh settles on data older than its change, in any organisation and
\* in whatever order requests, reads and visits to other pages came.  As on
\* the customer's side, a read that could not be called back is the exception.
OwnWritesShown ==
  \A k \in DOMAIN cache : AtRest(cache[k]) /\ ~cache[k].late => cache[k].data.n >= acked[k]
================================================================================
