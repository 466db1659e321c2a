---------------------------- MODULE CustomerClient ----------------------------
(***************************************************************************)
(* One customer's browser tab: the rooms page with its calendar and        *)
(* booking modal, the dashboard and the packs page, over one query cache,  *)
(* and the two ways out of it (a Checkout page, and the way back).  The    *)
(* server is what the tab can tell of it: HourBank, BookingLifecycle and   *)
(* PackPurchase model it.                                                  *)
(*                                                                         *)
(* A slot is one block of one room; each lies on a day of its own, so that *)
(* showing a slot's day is one availability query.  Requests outlive the   *)
(* component that sent them, and only a full page load forgets them.       *)
(***************************************************************************)
EXTENDS QueryCache, Sequences

CONSTANTS Slots,      \* the slots somebody may look at
          Duration,   \* hours of a slot
          PackHours,  \* hours of the pack on sale
          Openings,   \* what the tab may find when it is opened
          MaxCalls,   \* bound: requests sent in one behaviour
          MaxSteps    \* bound: those, pages opened, days shown and whatever
                      \* happens without the customer

\* What the customer leaves for Checkout to pay.
Places == [what: {"pack", "booking"}, slot: Slots \cup {None}]

ASSUME CustomerAssumption ==
  /\ Duration \in Nat \ {0} /\ PackHours \in Nat \ {0}
  /\ Openings \subseteq [bank: Nat, paid: Nat, lapsed: SUBSET Slots, share: Nat, signedIn: BOOLEAN]
  /\ MaxCalls \in Nat /\ MaxSteps \in Nat
  /\ None \notin Slots /\ Slots \cap {"bookings", "bank", "purchases"} = {}
  /\ None \notin Places

VARIABLES
  \* the server
  taken,    \* Slots -> TRUE: somebody else's, or gone by
  mine,     \* Slots -> the customer's latest booking of it
  share,    \* Slots -> the pack hours it holds, or held until it lapsed
  bank,     \* spendable hours
  unpaid,   \* pack purchases awaiting payment
  paid,     \* ... paid, their webhook not yet heard
  applied,  \* how many of the tab's requests changed something
  \* the tab
  page, query, signedIn,
  cache,    \* the query cache
  calls,    \* every request sent, in order
  here,     \* those sent by the page now mounted
  day,      \* the day the calendar shows, None: no calendar
  reopen, awaiting,  \* SpaceRoomsView: the slot to select again, the pack to wait for
  modal,    \* the booking modal, or None
  dialog,   \* the dashboard's cancel dialog, or None
  leaving,  \* the Checkout location.assign has asked for, or None
  \* history
  acked,    \* per query: the last of the tab's own changes it was told of
  spent     \* pages, days and disturbances so far

server == <<taken, mine, share, bank, unpaid, paid>>
rooms  == <<day, reopen, awaiting, modal>>
view   == <<page, query, signedIn, here, dialog>>
vars == <<server, applied, view, cache, calls, rooms, leaving, acked, spent>>

-------------------------------------------------------------------------------
(* What the server holds and a read returns.                               *)

Ours == {"bookings", "bank", "purchases"}
Keys == Ours \cup Slots

Statuses == {"none", "hold", "booked", "expired"}
Held(s) == mine[s] \in {"hold", "booked"}
Free(s) == ~taken[s] /\ ~Held(s)

Holds(k) == CASE k = "bookings"  -> mine
              [] k = "bank"      -> bank
              [] k = "purchases" -> unpaid
              [] OTHER           -> Free(k)

\* Availability is not counted: a cancellation does not read it again.
Snapshot(k) == [n |-> IF k \in Ours THEN applied ELSE 0, v |-> Holds(k)]

\* The queries a page and what is open on it show.
Queries(p) == CASE p = "dashboard" -> {"bookings", "bank"}
                [] p = "packs"     -> {"purchases"}
                [] OTHER           -> {}
Visible == IF signedIn THEN Keys ELSE Slots
Shown == (Queries(page) \cup {day} \cup (IF modal # None THEN {"bank"} ELSE {})) \cap Visible

\* K: the queries of what mounts.
Mounted(c, K) == [k \in Keys |-> IF k \in K THEN Mount(c[k]) ELSE c[k]]
Invalidated(K) ==
  [k \in Keys |-> IF k \in K THEN Invalidate(cache[k], k \in Shown) ELSE cache[k]]

-------------------------------------------------------------------------------
(* The plan for paying the block, as the modal previews it.                *)

Least(a, b) == IF a < b THEN a ELSE b
Most(a, b) == IF a < b THEN b ELSE a

\* The bank covers all of the block, part of it or none.
Plan(h) == IF h >= Duration THEN "full" ELSE IF h > 0 THEN "partial" ELSE "none"

\* An unread bank counts as an empty one.
BankSeen(c) == IF Has(c["bank"]) THEN c["bank"].data.v ELSE 0
PlanSeen == Plan(BankSeen(cache))

\* "buy" is on offer only while the bank falls short.
Options(plan) == CASE plan = "full"    -> {"pack", "hourly"}
                   [] plan = "partial" -> {"pack", "hourly", "buy"}
                   [] OTHER            -> {"hourly", "buy"}

UsesPack == PlanSeen # "none" /\ modal.choice \in {None, "pack"}
Buying   == modal.choice = "buy" /\ "buy" \in Options(PlanSeen)
Method   == IF ~UsesPack THEN "hourly" ELSE IF PlanSeen = "full" THEN "package" ELSE "mixed"

Settled(c) == Plan(BankSeen(c)) # "none"

\* Back from buying a pack the bank does not show yet: the choice is withheld.
Waiting == /\ modal # None /\ awaiting /\ ~Settled(cache)
           /\ ~modal.timedOut /\ ~cache["bank"].failed

\* ... or the wait is over without it, and the customer is told so.
Unconfirmed == /\ modal # None /\ awaiting /\ ~Settled(cache)
               /\ modal.timedOut \/ cache["bank"].failed

-------------------------------------------------------------------------------
(* The bound.                                                              *)

MayStep == Len(calls) + spent < MaxSteps
Spend == MayStep /\ spent' = spent + 1

-------------------------------------------------------------------------------
(* Requests.                                                               *)

Ops == {"book", "buy", "cancel", "pay", "drop"}
Calls == [op: Ops, slot: Slots \cup {None}, how: {"package", "mixed", "hourly", None},
          stage: {"sent", "served", "told", "failed"},
          result: {None, "url", "done", "refused"}, n: Nat, live: BOOLEAN]

Gone == [op |-> "drop", slot |-> None, how |-> None, stage |-> "told", result |-> None,
         n |-> 0, live |-> FALSE]

\* The request is on its way: isPending, for the component that sent it.
Pending(i) == i # 0 /\ calls[i].stage \in {"sent", "served"}
Busy(op) == \E i \in here : calls[i].op = op /\ Pending(i)

Send(op, s, how) ==
  /\ Len(calls) < MaxCalls /\ MayStep
  /\ calls' = Append(calls, [op |-> op, slot |-> s, how |-> how, stage |-> "sent",
                             result |-> None, n |-> 0, live |-> TRUE])
Sent == Len(calls) + 1

\* What the server changes for a request, among what the tab reads: Serve*
\* below, one by one.
Touches(op) == CASE op \in {"book", "cancel", "pay"} -> {"bookings", "bank"}
                 [] op \in {"buy", "drop"}           -> {"purchases"}

\* What the answer's handler invalidates.  ['packages','me'] is a prefix of
\* the packs page's ['packages','me','bank'].
PacksMe == {"bank", "purchases"}
Invalidates_BookingsOnly(op) ==  \* mutant: a cancelled booking's hours are not read again
  CASE op = "book"   -> {"bookings"} \cup Slots \cup PacksMe
    [] op = "cancel" -> {"bookings"}
    [] op = "buy"    -> PacksMe
    [] op = "drop"   -> {"purchases"}
    [] OTHER         -> {}
Invalidates(op) == CASE op = "book"   -> {"bookings"} \cup Slots \cup PacksMe
                     [] op = "cancel" -> {"bookings"} \cup PacksMe
                     [] op = "buy"    -> PacksMe
                     [] op = "drop"   -> {"purchases"}
                     [] OTHER         -> {}
\* ... and on a refusal, which usually means the row moved on.
InvalidatesOnError(op) == IF op \in {"cancel", "pay"} THEN {"bookings"} ELSE {}

-------------------------------------------------------------------------------
(* The booking modal and the calendar's effects.                           *)

Fresh(s) == [slot |-> s, choice |-> None, create |-> 0, purchase |-> 0, timedOut |-> FALSE]

Reslot_ChoiceOnly(m, s) == [m EXCEPT !.slot = s, !.choice = None]  \* mutant: no mutation is reset

\* Another slot in the open modal: the choice and both mutations are forgotten.
Reslot(m, s) == [m EXCEPT !.slot = s, !.choice = None, !.create = 0, !.purchase = 0]

\* onSlotSelect: the modal opens on s, or moves to it.
ShowModal(s, c) ==
  IF modal = None
  THEN modal' = Fresh(s) /\ cache' = Mounted(c, {"bank"} \cap Visible)
  ELSE modal' = Reslot(modal, s) /\ cache' = c

Reselect_IfFree(r, d, c) ==  \* mutant: a slot taken meanwhile is left to be selected later
  IF r # None /\ d = r /\ Has(c[r]) /\ c[r].data.v
  THEN reopen' = None /\ ShowModal(r, c)
  ELSE reopen' = r /\ modal' = modal /\ cache' = c

\* The effect that selects the reopened slot again once its day has loaded:
\* free, the modal; taken or gone, the usual notice.  r: reopen, d: the day
\* shown, c: the cache it is drawn from.
Reselect(r, d, c) ==
  IF r # None /\ d = r /\ Has(c[r])
  THEN /\ reopen' = None
       /\ IF c[r].data.v THEN ShowModal(r, c) ELSE modal' = modal /\ cache' = c
  ELSE reopen' = r /\ modal' = modal /\ cache' = c

\* create resolved to a booking with nothing left to pay: only "Fechar" is left.
Confirmed == modal # None /\ modal.create # 0 /\ calls[modal.create].stage = "told"
             /\ calls[modal.create].result = "done"

Form == modal # None /\ ~Confirmed

\* The radios: withheld while the bank is polled, dead while a request is out.
Choose(choice) ==
  /\ Form /\ ~Waiting
  /\ choice \in Options(PlanSeen) /\ choice # modal.choice
  /\ ~Pending(modal.create) /\ ~Pending(modal.purchase)
  /\ modal' = [modal EXCEPT !.choice = choice]
  /\ UNCHANGED <<server, applied, view, cache, calls, day, reopen, awaiting, leaving, acked, spent>>

CanConfirm ==
  /\ Form /\ signedIn
  /\ ~Pending(modal.create) /\ ~Pending(modal.purchase)
  /\ ~Buying /\ ~Waiting

Confirm ==
  /\ CanConfirm
  /\ Send("book", modal.slot, Method)
  /\ modal' = [modal EXCEPT !.create = Sent]
  /\ UNCHANGED <<server, applied, view, cache, day, reopen, awaiting, leaving, acked, spent>>

\* "Comprar" under the pack's radio, listed once the bank has been read;
\* Checkout will come back to this slot.
BuyForSlot ==
  /\ Form /\ signedIn /\ Buying /\ ~Waiting
  /\ Has(cache["bank"])
  /\ ~Pending(modal.purchase)
  /\ Send("buy", modal.slot, None)
  /\ modal' = [modal EXCEPT !.purchase = Sent]
  /\ UNCHANGED <<server, applied, view, cache, day, reopen, awaiting, leaving, acked, spent>>

\* "Cancelar" is dead while the booking is being created, Escape and the
\* overlay never are; all forget the pack the customer was waiting for.
CloseModal ==
  /\ modal # None
  /\ modal' = None /\ awaiting' = FALSE
  /\ UNCHANGED <<server, applied, view, cache, calls, day, reopen, leaving, acked, spent>>

Polling_OnceRead ==  \* mutant: the wait starts with the first answer
  modal # None /\ awaiting /\ Has(cache["bank"]) /\ ~Settled(cache) /\ ~modal.timedOut

Polling == modal # None /\ awaiting /\ ~Settled(cache) /\ ~modal.timedOut

\* The 20 s timer of the effect that starts when the wait does.
TimesOut ==
  /\ Polling
  /\ modal' = [modal EXCEPT !.timedOut = TRUE]
  /\ UNCHANGED <<server, applied, view, cache, calls, day, reopen, awaiting, leaving, acked, spent>>

CheckBankAgain ==
  /\ Form /\ Unconfirmed
  /\ modal' = [modal EXCEPT !.timedOut = FALSE]
  /\ cache' = Invalidated(PacksMe)
  /\ UNCHANGED <<server, applied, view, calls, day, reopen, awaiting, leaving, acked, spent>>

\* refetchInterval, while the pack is awaited.
Poll ==
  /\ Polling /\ signedIn
  /\ cache["bank"].flight = "idle"
  /\ cache' = [cache EXCEPT !["bank"] = Ask(@)]
  /\ UNCHANGED <<server, applied, view, calls, rooms, leaving, acked, spent>>

-------------------------------------------------------------------------------
(* The rooms page.                                                         *)

\* A room's card, or ?room=: the calendar opens on the slot to select again,
\* or on today.
OpenCalendar(s) ==
  /\ page = "rooms" /\ day = None /\ modal = None
  /\ reopen # None => s = reopen
  /\ day' = s
  /\ Reselect(reopen, s, Mounted(cache, {s}))
  /\ UNCHANGED <<server, applied, view, calls, awaiting, leaving, acked, spent>>

Navigate(s) ==
  /\ Spend
  /\ page = "rooms" /\ day \notin {None, s} /\ modal = None
  /\ day' = s
  /\ Reselect(reopen, s, Mounted(cache, {s}))
  /\ UNCHANGED <<server, applied, view, calls, awaiting, leaving, acked>>

\* A drag on the grid; taken, past and closed hours only leave a notice.
PickSlot(s) ==
  /\ page = "rooms" /\ day = s /\ modal = None
  /\ Has(cache[s]) /\ cache[s].data.v
  /\ ShowModal(s, cache)
  /\ UNCHANGED <<server, applied, view, calls, day, reopen, awaiting, leaving, acked, spent>>

\* ?pagamento= and ?start=&end= are read once and stripped.  React may hold
\* this back until after the calendar is there: the calendar follows it.
ReadUrl ==
  /\ page = "rooms" /\ query # None
  /\ query' = None
  /\ awaiting' = (awaiting \/ query.outcome = "sucesso")
  /\ IF day = None
     THEN reopen' = query.slot /\ UNCHANGED <<day, modal, cache>>
     ELSE /\ day' = query.slot
          /\ Reselect(query.slot, query.slot, Mounted(cache, {query.slot}))
  /\ UNCHANGED <<server, applied, page, signedIn, here, dialog, calls, leaving, acked, spent>>

-------------------------------------------------------------------------------
(* The dashboard and the packs page.                                       *)

Listed(s) == IF Has(cache["bookings"]) THEN cache["bookings"].data.v[s] ELSE "none"

\* An expired booking can no longer be cancelled; the hours before its start
\* are not modelled, so a paid one always can.
Cancellable(s) == Listed(s) \in {"hold", "booked"}

OpenDialog(s) ==
  /\ page = "dashboard" /\ dialog = None /\ Cancellable(s)
  /\ dialog' = [slot |-> s, call |-> 0]
  /\ UNCHANGED <<server, applied, page, query, signedIn, here, cache, calls, rooms,
                 leaving, acked, spent>>

\* "Manter" is dead while the request is out; Escape closes the dialog anyway,
\* and forgets the request.
CloseDialog ==
  /\ dialog # None
  /\ dialog' = None
  /\ UNCHANGED <<server, applied, page, query, signedIn, here, cache, calls, rooms,
                 leaving, acked, spent>>

CancelBooking ==
  /\ dialog # None /\ ~Pending(dialog.call)
  /\ Send("cancel", dialog.slot, None)
  /\ dialog' = [dialog EXCEPT !.call = Sent]
  /\ here' = here \cup {Sent}
  /\ UNCHANGED <<server, applied, page, query, signedIn, cache, rooms, leaving, acked, spent>>

\* "Pagar agora", "Tentar pagar de novo": one such request at a time.
PayBooking(s) ==
  /\ page = "dashboard" /\ dialog = None /\ Listed(s) \in {"hold", "expired"}
  /\ ~Busy("pay")
  /\ Send("pay", s, None)
  /\ here' = here \cup {Sent}
  /\ UNCHANGED <<server, applied, page, query, signedIn, dialog, cache, rooms, leaving, acked, spent>>

PendingListed == Has(cache["purchases"]) /\ cache["purchases"].data.v > 0

\* PackageBuyButton: no return path, so Checkout comes back to the dashboard.
BuyPack ==
  /\ page = "packs" /\ signedIn /\ ~Busy("buy")
  /\ Send("buy", None, None)
  /\ here' = here \cup {Sent}
  /\ UNCHANGED <<server, applied, page, query, signedIn, dialog, cache, rooms, leaving, acked, spent>>

CancelPurchase ==
  /\ page = "packs" /\ PendingListed /\ ~Busy("drop")
  /\ Send("drop", None, None)
  /\ here' = here \cup {Sent}
  /\ UNCHANGED <<server, applied, page, query, signedIn, dialog, cache, rooms, leaving, acked, spent>>

\* The link of a pending purchase to its Checkout.
ResumePurchase ==
  /\ page = "packs" /\ PendingListed
  /\ leaving' = [what |-> "pack", slot |-> None]
  /\ UNCHANGED <<server, applied, view, cache, calls, rooms, acked, spent>>

-------------------------------------------------------------------------------
(* The answers.  A handler runs even when its component is gone.           *)

\* The tab is told of a change.
Hear(i) == acked' = [k \in Keys |-> IF k \in Touches(calls[i].op)
                                    THEN Most(acked[k], calls[i].n) ELSE acked[k]]

Arrived(i) == i \in DOMAIN calls /\ calls[i].stage = "served" /\ calls[i].live

\* The modal goes on showing what became of its requests.
Tell(i, stage) ==
  calls' = [calls EXCEPT ![i] =
    IF modal # None /\ i \in {modal.create, modal.purchase}
    THEN [@ EXCEPT !.stage = stage, !.n = 0] ELSE Gone]

\* bookingsApi.create: to Checkout if there is something to pay.
AnswerBook(i) ==
  /\ Arrived(i) /\ calls[i].op = "book" /\ calls[i].result # "refused"
  /\ Tell(i, "told") /\ Hear(i)
  /\ cache' = Invalidated(Invalidates("book"))
  /\ leaving' = IF calls[i].result = "url" THEN [what |-> "booking", slot |-> calls[i].slot]
                ELSE leaving
  /\ UNCHANGED <<server, applied, view, rooms, spent>>

AnswerBuy(i) ==
  /\ Arrived(i) /\ calls[i].op = "buy" /\ calls[i].result # "refused"
  /\ Tell(i, "told") /\ Hear(i)
  /\ cache' = Invalidated(Invalidates("buy"))
  /\ leaving' = [what |-> "pack", slot |-> calls[i].slot]
  /\ UNCHANGED <<server, applied, view, rooms, spent>>

\* The dialog closes, whichever booking it is open on by now.
AnswerCancel(i) ==
  /\ Arrived(i) /\ calls[i].op = "cancel" /\ calls[i].result # "refused"
  /\ Tell(i, "told") /\ Hear(i)
  /\ cache' = Invalidated(Invalidates("cancel"))
  /\ dialog' = IF i \in here THEN None ELSE dialog
  /\ UNCHANGED <<server, applied, page, query, signedIn, here, rooms, leaving, spent>>

\* Nothing is read again, although the booking and the bank may have changed:
\* the page is being left.
AnswerPay(i) ==
  /\ Arrived(i) /\ calls[i].op = "pay" /\ calls[i].result # "refused"
  /\ Tell(i, "told") /\ Hear(i)
  /\ cache' = Invalidated(Invalidates("pay"))
  /\ leaving' = [what |-> "booking", slot |-> calls[i].slot]
  /\ UNCHANGED <<server, applied, view, rooms, spent>>

AnswerDrop(i) ==
  /\ Arrived(i) /\ calls[i].op = "drop" /\ calls[i].result # "refused"
  /\ Tell(i, "told") /\ Hear(i)
  /\ cache' = Invalidated(Invalidates("drop"))
  /\ UNCHANGED <<server, applied, view, rooms, leaving, spent>>

\* A refusal, or an answer lost on the way: the change may have been made.
AnswerError(i) ==
  /\ Arrived(i)
  /\ IF calls[i].result = "refused" THEN UNCHANGED spent ELSE Spend
  /\ Tell(i, "failed")
  /\ cache' = Invalidated(InvalidatesOnError(calls[i].op))
  /\ UNCHANGED <<server, applied, view, rooms, leaving, acked>>

-------------------------------------------------------------------------------
(* Moving about.                                                           *)

\* Everything the pages keep in their components is gone.
Unmount ==
  /\ here' = {} /\ dialog' = None
  /\ day' = None /\ reopen' = None /\ awaiting' = FALSE /\ modal' = None

\* A link inside the site: the cache and the requests on their way stay.
GoTo(p) ==
  /\ Spend
  /\ page # "checkout" /\ leaving = None /\ p # page
  /\ p # "rooms" => signedIn
  /\ page' = p /\ query' = None
  /\ Unmount
  /\ cache' = Mounted(cache, Queries(p))
  /\ UNCHANGED <<server, applied, signedIn, calls, leaving, acked>>

\* The modal's link to sign in and back to this page, without the slot.
SignIn ==
  /\ modal # None /\ ~signedIn /\ leaving = None
  /\ signedIn' = TRUE /\ query' = None
  /\ Unmount
  /\ UNCHANGED <<server, applied, page, cache, calls, leaving, acked, spent>>

\* A page load: nothing of the old document is left to hear an answer.
Load(p, q) ==
  /\ page' = p /\ query' = q
  /\ Unmount
  /\ cache' = Mounted([k \in Keys |-> Empty], Queries(p) \cap Visible)
  /\ calls' = [i \in DOMAIN calls |-> IF calls[i].stage = "sent" THEN [calls[i] EXCEPT !.live = FALSE] ELSE Gone]
  /\ UNCHANGED acked

Unload ==
  /\ page # "checkout" /\ leaving # None
  /\ Spend
  /\ Load("checkout", None)
  /\ UNCHANGED <<server, applied, signedIn, leaving>>

Reload ==
  /\ page # "checkout" /\ leaving = None
  /\ Spend
  /\ Load(page, None)
  /\ UNCHANGED <<server, applied, signedIn, leaving>>

\* Checkout sends the customer back: to the slot a pack was bought for, with
\* the outcome, and to the dashboard from everything else.
Return(outcome) ==
  /\ page = "checkout"
  /\ leaving' = None
  /\ IF leaving.what = "pack" /\ leaving.slot # None
     THEN Load("rooms", [slot |-> leaving.slot, outcome |-> outcome])
     ELSE Load("dashboard", None)
  /\ UNCHANGED <<signedIn, applied, spent>>

\* A paid pack waits for its webhook.  A paid booking is confirmed by its own,
\* whose delays are BookingLifecycle's.
PayAtCheckout ==
  /\ Return("sucesso")
  /\ IF leaving.what = "pack"
     THEN unpaid > 0 /\ unpaid' = unpaid - 1 /\ paid' = paid + 1 /\ UNCHANGED mine
     ELSE /\ mine[leaving.slot] = "hold"
          /\ mine' = [mine EXCEPT ![leaving.slot] = "booked"] /\ UNCHANGED <<unpaid, paid>>
  /\ UNCHANGED <<taken, share, bank>>

LeaveCheckout == Return("cancelado") /\ UNCHANGED server

-------------------------------------------------------------------------------
(* The server's side.                                                      *)

\* A live hold; or a lapsed one, if its slot is free and the bank still has
\* the share it gave back.
CanResume(s) == \/ mine[s] = "hold"
                \/ mine[s] = "expired" /\ Free(s) /\ bank >= share[s]

CanServe_Hopeful(c) ==  \* mutant: the hours of a package booking are not checked
  CASE c.op = "book"   -> Free(c.slot)
    [] c.op = "cancel" -> Held(c.slot)
    [] c.op = "pay"    -> CanResume(c.slot)
    [] c.op = "drop"   -> unpaid > 0
    [] OTHER           -> TRUE

\* What the server has to say to a request.
CanServe(c) ==
  CASE c.op = "book"   -> Free(c.slot) /\ (c.how = "package" => bank >= Duration)
    [] c.op = "cancel" -> Held(c.slot)
    [] c.op = "pay"    -> CanResume(c.slot)
    [] c.op = "drop"   -> unpaid > 0
    [] OTHER           -> TRUE

\* Nobody hears what is replied to a page that was left.
Replied(c, result, n) ==
  IF c.live THEN [c EXCEPT !.stage = "served", !.how = None, !.result = result, !.n = n] ELSE Gone

Serve(i, op, result) ==
  /\ i \in DOMAIN calls /\ calls[i].stage = "sent" /\ calls[i].op = op /\ CanServe(calls[i])
  /\ applied' = applied + 1
  /\ calls' = [calls EXCEPT ![i] = Replied(@, result, applied + 1)]
  /\ UNCHANGED <<taken, view, cache, rooms, leaving, acked, spent>>

\* For a reason, or because it is busy, or the request did not get there.
Refuse(i) ==
  /\ i \in DOMAIN calls /\ calls[i].stage = "sent"
  /\ IF CanServe(calls[i]) THEN Spend ELSE UNCHANGED spent
  /\ calls' = [calls EXCEPT ![i] = Replied(@, "refused", 0)]
  /\ UNCHANGED <<server, applied, view, cache, rooms, leaving, acked>>

\* What is booked with the pack is settled, the rest is a hold to pay.
ServeBook(i) ==
  LET s == calls[i].slot
      h == CASE calls[i].how = "package" -> Duration
             [] calls[i].how = "mixed"   -> Least(bank, Duration)
             [] OTHER                    -> 0
  IN /\ Serve(i, "book", IF h = Duration THEN "done" ELSE "url")
     /\ bank' = bank - h
     /\ share' = [share EXCEPT ![s] = h]
     /\ mine' = [mine EXCEPT ![s] = IF h = Duration THEN "booked" ELSE "hold"]
     /\ UNCHANGED <<unpaid, paid>>

ServeBuy(i) ==
  /\ Serve(i, "buy", "url")
  /\ unpaid' = unpaid + 1
  /\ UNCHANGED <<mine, share, bank, paid>>

\* The share goes back to the bank, and paid hours become a credit.
ServeCancel(i) ==
  LET s == calls[i].slot
  IN /\ Serve(i, "cancel", "done")
     /\ bank' = bank + (IF mine[s] = "booked" THEN Duration ELSE share[s])
     /\ share' = [share EXCEPT ![s] = 0]
     /\ mine' = [mine EXCEPT ![s] = "none"]
     /\ UNCHANGED <<unpaid, paid>>

\* A hold gets a new Checkout; a lapsed one is a hold again, and takes its
\* share of the bank again.
ServePay(i) ==
  LET s == calls[i].slot
  IN /\ Serve(i, "pay", "url")
     /\ mine' = [mine EXCEPT ![s] = "hold"]
     /\ bank' = bank - (IF Held(s) THEN 0 ELSE share[s])
     /\ UNCHANGED <<share, unpaid, paid>>

ServeDrop(i) ==
  /\ Serve(i, "drop", "done")
  /\ unpaid' = unpaid - 1
  /\ UNCHANGED <<mine, share, bank, paid>>

\* An answer about availability may be old when it arrives no less than after.
ServeRead(k) ==
  /\ k \in Ours
  /\ cache[k].flight = "asked"
  /\ cache' = [cache EXCEPT ![k] = Answer(@, Snapshot(k))]
  /\ UNCHANGED <<server, applied, view, calls, rooms, leaving, acked, spent>>

\* The wait's timer is started anew if the bank has gone empty again.
DeliverRead(k) ==
  /\ cache[k].flight = IF k \in Ours THEN "answered" ELSE "asked"
  /\ LET c == [cache EXCEPT ![k] =
                  IF k \in Ours THEN Deliver(@)
                  ELSE [Deliver(Answer(@, Snapshot(k))) EXCEPT !.late = FALSE]]
     IN IF k \in Slots /\ k = day THEN Reselect(reopen, day, c)
        ELSE /\ cache' = c /\ UNCHANGED reopen
             /\ modal' = IF modal # None /\ awaiting /\ Settled(cache) /\ ~Settled(c)
                         THEN [modal EXCEPT !.timedOut = FALSE] ELSE modal
  /\ UNCHANGED <<server, applied, view, calls, day, awaiting, leaving, acked, spent>>

\* The webhook of a paid pack.
PackArrives ==
  /\ paid > 0 /\ paid' = paid - 1 /\ bank' = bank + PackHours
  /\ UNCHANGED <<taken, mine, share, unpaid, applied, view, cache, calls, rooms, leaving, acked, spent>>

-------------------------------------------------------------------------------
(* What happens without the customer.                                      *)

\* Only the wait for a pack asks whether a read failed.
FailRead ==
  /\ Spend /\ cache["bank"].flight # "idle"
  /\ cache' = [cache EXCEPT !["bank"] = Fail(@)]
  /\ UNCHANGED <<server, applied, view, calls, rooms, leaving, acked>>

\* A minute without a read.
MinutePasses ==
  /\ Spend /\ \E k \in Keys : Has(cache[k]) /\ ~cache[k].stale
  /\ cache' = [k \in Keys |-> Age(cache[k])]
  /\ UNCHANGED <<server, applied, view, calls, rooms, leaving, acked>>

OthersTake(s) ==
  /\ Spend /\ Free(s)
  /\ taken' = [taken EXCEPT ![s] = TRUE]
  /\ UNCHANGED <<mine, share, bank, unpaid, paid, applied, view, cache, calls, rooms, leaving, acked>>

HoldLapses(s) ==
  /\ Spend /\ mine[s] = "hold"
  /\ mine' = [mine EXCEPT ![s] = "expired"]
  /\ bank' = bank + share[s]
  /\ UNCHANGED <<taken, share, unpaid, paid, applied, view, cache, calls, rooms, leaving, acked>>

-------------------------------------------------------------------------------
\* A page load.
Init ==
  /\ \E o \in Openings :
       /\ bank = o.bank /\ paid = o.paid /\ signedIn = o.signedIn
       /\ mine = [s \in Slots |-> IF s \in o.lapsed THEN "expired" ELSE "none"]
       /\ share = [s \in Slots |-> IF s \in o.lapsed THEN o.share ELSE 0]
  /\ taken = [s \in Slots |-> FALSE]
  /\ unpaid = 0
  /\ applied = 0 /\ page = "rooms" /\ query = None
  /\ cache = [k \in Keys |-> Empty] /\ calls = <<>> /\ here = {}
  /\ day = None /\ reopen = None /\ awaiting = FALSE /\ modal = None /\ dialog = None
  /\ leaving = None /\ acked = [k \in Keys |-> 0] /\ spent = 0

Modal == \/ \E choice \in {"pack", "hourly", "buy"} : Choose(choice)
         \/ Confirm \/ BuyForSlot \/ CloseModal
         \/ TimesOut \/ CheckBankAgain \/ Poll
         \/ SignIn

Pages == \/ \E s \in Slots : OpenCalendar(s) \/ Navigate(s) \/ PickSlot(s)
         \/ ReadUrl
         \/ \E s \in Slots : OpenDialog(s) \/ PayBooking(s)
         \/ CloseDialog \/ CancelBooking
         \/ BuyPack \/ CancelPurchase \/ ResumePurchase
         \/ \E p \in {"rooms", "dashboard", "packs"} : GoTo(p)
         \/ Unload \/ Reload \/ PayAtCheckout \/ LeaveCheckout

Answers == \E i \in DOMAIN calls :
  AnswerBook(i) \/ AnswerBuy(i) \/ AnswerCancel(i) \/ AnswerPay(i) \/ AnswerDrop(i) \/ AnswerError(i)

Server == \/ \E i \in DOMAIN calls :
              ServeBook(i) \/ ServeBuy(i) \/ ServeCancel(i) \/ ServePay(i) \/ ServeDrop(i) \/ Refuse(i)
          \/ \E k \in Keys : ServeRead(k) \/ DeliverRead(k)
          \/ PackArrives

Outside == \/ FailRead
           \/ \E s \in Slots : OthersTake(s) \/ HoldLapses(s)
           \/ MinutePasses

Next == Modal \/ Pages \/ Answers \/ Server \/ Outside

\* Only the browser's timer is sure to fire.
Spec == Init /\ [][Next]_vars /\ WF_vars(TimesOut)

-------------------------------------------------------------------------------
(* Properties.                                                             *)

Modals == [slot: Slots, choice: {"pack", "hourly", "buy", None}, create: Nat, purchase: Nat,
           timedOut: BOOLEAN]

Values(k) == CASE k = "bookings"              -> [Slots -> Statuses]
               [] k \in {"bank", "purchases"} -> Nat
               [] OTHER                       -> BOOLEAN

\* Every variable has the shape the code gives it: what a component refers to
\* was sent, no count goes below nothing.
TypeOK ==
  /\ taken \in [Slots -> BOOLEAN] /\ mine \in [Slots -> Statuses]
  /\ share \in [Slots -> Nat] /\ bank \in Nat /\ unpaid \in Nat /\ paid \in Nat
  /\ applied \in Nat /\ spent \in Nat
  /\ page \in {"rooms", "dashboard", "packs", "checkout"} /\ signedIn \in BOOLEAN
  /\ query \in [slot: Slots, outcome: {"sucesso", "cancelado"}] \cup {None}
  /\ calls \in Seq(Calls) /\ here \subseteq DOMAIN calls
  /\ DOMAIN cache = Keys /\ \A k \in Keys : cache[k] \in Entries(Values(k))
  /\ acked \in [Keys -> Nat]
  /\ day \in Slots \cup {None} /\ reopen \in Slots \cup {None} /\ awaiting \in BOOLEAN
  /\ modal \in Modals \cup {None}
  /\ modal # None => {modal.create, modal.purchase} \subseteq 0 .. Len(calls)
  /\ dialog \in [slot: Slots, call: Nat] \cup {None}
  /\ dialog # None => dialog.call \in 0 .. Len(calls)
  /\ leaving \in Places \cup {None}

\* A list the tab believes current shows every change the tab itself was told
\* it had made: what a handler invalidates covers what its request changes,
\* whatever reads were on their way, unless the tab is leaving for Checkout:
\* the dashboard's pay handler counts on that and reads nothing again.
\* (BookingModal's onSuccess, the dashboard's, the packs page's.)  A first
\* read, or one of a page already left, that was on its way at that moment
\* cannot be called back: its data is "late", and the other exception.
OwnChangesShown ==
  leaving = None =>
    \A k \in Ours : AtRest(cache[k]) /\ ~cache[k].late => cache[k].data.n >= acked[k]

\* What the modal says of a booking or a purchase is about the slot it shows,
\* even when the slot came back under the customer's hands.
OutcomeIsForThisSlot ==
  modal # None => \A i \in {modal.create, modal.purchase} \ {0} : calls[i].slot = modal.slot

\* The slot a customer comes back for is answered once and at once: as soon as
\* its day has loaded it is selected or the customer told, whether the calendar,
\* the URL or the read came last, and never left to pop up later.
\* (BookingCalendar's reopen effect; SpaceRoomsView's pass over the URL.)
ReopenIsAnswered == reopen # None /\ day = reopen => ~Has(cache[reopen])

\* The wait for a pack comes to an end: hours, the timer or the customer.
WaitEnds == Waiting ~> ~Waiting

\* BookingModal.tsx says of awaitingPurchase that "the modal waits for the bank
\* to show it before the booking can be confirmed": nothing is confirmed while
\* the pack is not there and the customer has not been told.
WaitsForItsPack ==
  [][\A i \in DOMAIN calls' \ DOMAIN calls :
        calls'[i].op = "book" /\ awaiting => paid = 0 \/ Unconfirmed]_vars
================================================================================
