# FlowSpace, modelled in TLA+

FlowSpace rents rooms by the hour. A customer books a slot and pays at Stripe
Checkout, out of prepaid hours, or both; an operator runs the rooms, the packs
and the exceptions. The backend is a FastAPI service on PostgreSQL
(`src/backend/app`): no queue and no event log, one database transaction per
request, several requests and one sweeper at once, and a payment provider that
tells of payments when it likes. What must not go wrong is small and sharp: a
slot is held once, an hour is sold once, money is never lost, and nothing hangs.
The frontend (`src/frontend`, Next.js and TanStack Query) adds promises of its
own: what a tab shows as current is current as far as that tab can know, an
outcome is shown beside what it is about, and an operator of two organisations
never sees one in the other. This directory states those promises,
model-checks them on small instances and proves most of them for every instance.

## The system

### How it works together

* A **request** is one READ COMMITTED transaction, committed once its handler
  has returned; with the FastAPI version in use that is after the response was
  sent (`database.py:39-48`). The models take the commit and the answer as one
  step, see the end of this file. Rows are locked with `SELECT ... FOR UPDATE`; a bulk
  `UPDATE` locks the rows it changes. Two statements of one request see two
  different states of the database.
* A **booking** that waits for money is a *hold*: `pending` with
  `hold_expires_at`. A hold past its deadline has *lapsed*; it is `expired` by
  the next request that wants its slot or its customer's hours, by a read of
  its owner's, or by the sweeper.
* **Slots** are kept apart by a look (`has_conflicting_booking`) and, between
  concurrent requests, by an EXCLUDE constraint over pending and confirmed rows,
  whether lapsed or not.
* **Hours** are rows of `user_package_purchases` with used and remaining
  hours, and `booking_package_debits` that say which booking drew what. A
  cancelled paid booking becomes a purchase too, its *cancellation credit*.
* **Checkout Sessions** live at the provider. A webhook tells of their
  completion or expiry: late, twice, or after something newer.

* A **browser tab** keeps what it read in a query cache. A request outlives the
  page that sent it; its handler then *invalidates* the lists it touched, which
  are read again if they are on screen and marked if they are not. Only a full
  page load, to Checkout and back for instance, forgets all of it.

### Inventory

| Component | State it keeps | Operations | What is hard | What makes it correct |
|---|---|---|---|---|
| Hour bank (`package_hours.py`, `routers/admin/purchases.py`) | purchase rows, debit rows, the share on a booking | draw (all or what there is), release, re-debit, resize, undo; grant, adjust, extend, cancel, reactivate, delete | walks that lock row by row while others do; aborts half way | no hour is sold twice or lost; debits follow the booking's status; the order of spending and giving back |
| Bookings and holds (`routers/bookings.py`, `booking_cancellation.py`, `cancellation_credit.py`) | status, slot, deadline, session, `paid_at`, credit | create, cancel, resume checkout | a retry of a payment; credits across cancellations | one charge; booking or credit, not both |
| Webhooks (`routers/webhooks.py`, `routers/checkout_stub.py`) | what a payment did to a booking or a pack | completed, expired | late, repeated, reordered delivery; a race lost inside the handler | money is always recorded, and nothing is resurrected |
| Slot exclusivity (`booking_validity.py`, migration 0003) | who holds which hours | look, lazy expiry, the constraint | everything between the look and the commit; deadlock | no overlap; nobody paid is expired |
| Sweeper (`holds.py`) | - | expire lapsed holds, cancel abandoned purchases | races with payments | nothing dangles |
| Operator's bookings (`routers/admin/bookings.py`) | the same rows | create, move, change status, mark paid, delete | any status to any other, one of them while the hold it moves lapses | the same as all of the above |
| Blocks (`routers/admin/blocks.py`) | blocked intervals | create, move, delete | no constraint against bookings | blocked time is free of bookings |
| Packs (`routers/packages.py`) | a purchase and its session | buy, cancel, activate, expire | an unlocked read in the webhook | hours only for money; money never for nothing |
| Recurring series (`routers/recurrences.py`) | rows of one series | preview, create, edit, cancel | many inserts in one transaction | as for slots, all or nothing |
| Access codes (`locks.py`) | a table in one process | issue, revoke | a failing provider; order with the commit | a code only for a live booking's window |
| Rate limiting (`ratelimit.py`) | counters per window | check | the window's boundary | at most 2x the limit in any window's length |
| Auth, password reset | token version, reset links | issue, consume | two uses at once | a link is used once |
| Invoices, billing | invoices and their items | issue, list | two operators at once | nothing is invoiced twice |
| Customer's browser (`components/booking`, `components/spaces/SpaceRoomsView.tsx`, `app/dashboard`) | query cache, requests out, slot and choice of the modal, a slot to reopen, a pack to wait for | look, choose, book, buy a pack and come back, cancel, pay, sign in | answers in any order, components gone or moved to another slot when they come | own changes are shown; outcomes are about the slot on screen; a reopened slot is answered; a wait ends |
| Back office (`app/admin`, `components/admin`, `contexts/OrgContext.tsx`) | query cache by organisation, dialogs, unsaved forms, handlers running | some sixty writes, each with what it reads again and where it goes | handlers of pages long left, an organisation switched meanwhile | nothing of another organisation; own changes are shown |
| Catalogue, users, audit, e-mail, media, dashboard queries, rest of the frontend, site, infrastructure | - | - | no protocol between steps | - |

`PROJECT.json` lists every component with what of it is modelled, and every
hazard at its line.

## The modules

```
   SlotCalendar                HourLedger             what a calendar, and an
     ^      ^                   ^      ^              hour bank, promise
     |      |  refined by       |      |
     |      +----------------+  |      |
  SlotRace              BookingLifecycle  HourBank    PackPurchase
  one statement         one handler       one state-  one handler a step,
  a step: slots         a step            ment a      the webhook two
                                          step: hours
  SlotRaceProofs        BookingLifecycle- HourBank-   PackPurchaseProofs
                        Proofs            Proofs
          SumProofs (under HourBankProofs and BookingLifecycleProofs)
                                              sums over finite sets

                QueryCache                          one entry of the cache
                ^        ^   QueryCacheProofs
     CustomerClient    OperatorClient               one tab of a customer, and
     CustomerClientProofs    OperatorClientProofs   of an operator
```

The server is looked at three ways, because no single model of it is small.
`BookingLifecycle` has every handler and every status and takes each handler as
one step, which is what a row lock held from the first look to the commit makes
of it as far as *that booking* goes. What is not protected by that lock is what
several requests do to the same slot and to the same purchases: `SlotRace` and
`HourBank` cut the same handlers into their statements and interleave those.
They have the handlers' control and as little of the booking as slots, or hours,
need.

### HourBank

One customer's purchases and bookings, requests that are open at once. Committed
rows are `purchase`, `booking`, `debit`; `rowLock` and `bookingLock` are the row
locks; a request's uncommitted work is in `phase`, `plan`, `asked`, `expiring`,
`visiting`, `todo`, `order`, `need`, `drawn`, `back`, `gave`, and lands at
`Commit` or vanishes at `Fail`, `Refuse` or `DeadlockVictim`.

A request locks its booking row and reads the clock (`Open`), flips lapsed holds
and gives their hours back, settles the hours of its own booking, and may flip
once more in between:

| Code | Actions |
|---|---|
| `_expire_lapsed_holds`: rows its snapshot shows lapsed, each waited for, looked at again and flipped; then `release_debits` of those it flipped | `BeginExpiry` (or the beginning of any other request), `FlipHold`, `VisitBooking`, `CreditRow` |
| `create_booking`: `redeem_hours` or `redeem_up_to`, with the second flip of `bookings.py:228` while purchases are locked | `BeginBooking`, `FlipAgain`, `BeginWalk`, `WalkRow`, `Commit`, `Refuse` |
| `redebit_booking` (resumed hold, late money) | `BeginRetake`, ..., `Undo` for late money whose hours are gone |
| `admin_update_booking`: a move, a status or both in one transaction (`settle_moved_booking`, `settle_status_change`, the flip of a booking that enters its slot again); the cancellations, which are an update to the same length and `released` | `BeginUpdate`, `BeginGiveback`, `LockDebited`, `GiveRow`, `FlipAgain`, `BeginWalk`, `BeginLeave`, `LeaveRow` |
| `admin/purchases.py`, the grant of `admin/users.py` | `Grant`, `Adjust`, `Extend`, `CancelPurchase`, `Reactivate`, `DeletePurchase` |
| what becomes of a booking without effect on its hours | `Pay`, `Restate` |

A walk is modelled as the code does it: an unlocked read of candidates with the
expiries they had then, one lock after another in that order, and a second look
under each lock. The hours a walk may spend are those of purchases active and
unexpired at the instant the request read the clock.

A webhook that loses its slot at the constraint after a complete walk is `Fail`:
`begin_nested`'s rollback expires the booking in the session, the next read of
one of its attributes (`webhooks.py:195`, `package_hours.py:398`) raises under
asyncio, and the whole request is rolled back. `SlotRace` has the same request
from the side of the slot.

### BookingLifecycle

One room, one customer, a pack, credits, Checkout Sessions and webhooks.
`booking`, `debit`, `credit` and `blocked` are the tables, `session` the
provider's side, `heard` the completions that were answered (a history
variable: the code answers and forgets). Every handler is an action of the same
name: `Create`, `Cancel`, `Resume`; `Pay` and `SessionExpires` at the provider;
`HearCompleted`, `LetGo`; `Sweep`; `Update` (a move, a status or a note in one
request), `MarkPaid`, `AdminCreate`, `Delete`, `CancelCredit`,
`ReactivateCredit`, `Block`, `Unblock`. Lazy expiry, settlement of hours, the
deadline rule and the credit rule are part of the action that runs them. A booking is
moved to slots of the same length here, so `settle_moved_booking` has nothing to
settle; growing and shrinking are `HourBank`'s.

`OperatorMoves` says which status changes the operator asks for. The endpoint
takes any; the page offers few. With all of them at once several promises fail
for reasons listed under Findings, so each run names the moves it allows.

### SlotRace

The same slots under concurrency. A request goes through `lock` (its row),
`expire` and `flip` (the two halves of `expire_stale_holds`: the rows the
statement's snapshot shows lapsed, then each of them locked and looked at
again), the look at bookings, `blocks`, `exclude` (the write that the constraint
judges, waiting for other writers of overlapping rows) and `done`. `Victim` is
the database ending a circle of waits, `Abandon` a client that goes away. The
webhook's request, `Hook`, is not told no by the looks: `Refuse` turns a slot
they find taken into `paid_unfulfilled` (`webhooks.py:192-204`). At the
constraint itself it loses like everybody else: the code means to record
`paid_unfulfilled` there too, but after the savepoint's rollback it reads an
expired row (above), so the request ends as a 500 with nothing written, and the
payment stays due until the provider repeats the webhook and the look finds the
slot taken. `PaymentsAreAnswered` says so: an answered payment is on the books,
and one that is not answered was thrown out at the constraint or in a deadlock
with the rows as they were.

### SlotCalendar

Every hour has one holder or none; holders let go, and a booking or the blocks
take hours that are free. `BookingLifecycle` and `SlotRace` are both shown to
implement it (`KeepsCalendar`), under a mapping in which an hour belongs to the
live booking that covers it; the blocks are mapped only by `BookingLifecycle`,
since in `SlotRace` they do not exclude bookings (a finding).

### HourLedger

What each source of hours is worth, whether it is open, and what each booking
holds of it. In one move the holds that lapse give back all they have and at
most one booking draws or gives back, and a draw needs a source that is open and
not overdrawn by it; the operator edits one source at a time, never below what
is held of it; a source is opened or closed together with a move only if nobody
holds hours of it. `HourBank` implements it (`KeepsLedger`) through requests
that read, wait, lock and fall short between one another's statements: only a
commit is a move, and what the purchase rows say (used, remaining, status) is
mapped away but for the total and whether it is active. `BookingLifecycle`
implements it too, handler by handler, its sources being the pack and the
credits. So the two models of the same code agree on what hours are.

### PackPurchase

A pack from checkout to activation. Handlers are steps, but
`_activate_purchase` reads the row without locking it, so a delivery is
`ReadPurchase` and later `WritePurchase`, several deliveries being in hand at
once. `answered` and `granted` are history variables.

### QueryCache

One query as the pages use it. The library is not in the repository, so its
operators are marked external in `PROJECT.json`; they state what the hooks rely
on. A read is asked, answered and delivered in three steps, which is where a
change can come between. `n` in a snapshot counts the tab's own changes the
server had made when it answered, so that "older than the change" can be said.
`Invalidate` has the library's three cases: a query on screen is read again and
a read of it in flight is cancelled; the first read of a query is not
cancelled; a query that is not on screen is only marked, and its read goes on.
Data that comes by a read an invalidation could not call back is `late`.

### CustomerClient

One tab. The server is reduced to what the tab can tell of it: whose a slot is,
the bank, purchases unpaid and paid; `BookingLifecycle`, `HourBank` and
`PackPurchase` model how it comes to that.

| Code | Actions |
|---|---|
| `BookingCalendar.tsx`, `SpaceRoomsView.tsx` | `OpenCalendar`, `Navigate`, `PickSlot`, `ReadUrl` (the pass over `?pagamento=&start=&end=`); the effect that selects the reopened slot is `Reselect`, part of every action that can satisfy it |
| `BookingModal.tsx`, `useBookingPlan.ts`, `PackUpsell.tsx` | `Choose`, `Confirm`, `BuyForSlot`, `CloseModal`; the wait: `Poll`, `TimesOut`, `CheckBankAgain`; the effects of a changed slot: `Reslot` |
| `app/dashboard/page.tsx` | `OpenDialog`, `CloseDialog`, `CancelBooking`, `PayBooking` |
| `app/dashboard/packages/page.tsx`, `PackageBuyButton.tsx` | `BuyPack`, `CancelPurchase`, `ResumePurchase` |
| `onSuccess`, `onError` of each mutation | `AnswerBook`, `AnswerBuy`, `AnswerCancel`, `AnswerPay`, `AnswerDrop`, `AnswerError` |
| links, sign-in, `location.assign`, Checkout and back | `GoTo`, `SignIn`, `Unload`, `Reload`, `PayAtCheckout`, `LeaveCheckout` |
| the server and the world | `Serve...`, `Refuse`, `ServeRead`, `DeliverRead`, `PackArrives`, `FailRead`, `MinutePasses`, `OthersTake`, `HoldLapses` |

The payment plan (`planPayment`, `paymentOptions`) is `Plan`, `Options`,
`UsesPack`, `Method`. A request whose component is gone is still answered, and
its handler still invalidates; only its outcome has nowhere to be shown.

### OperatorClient

The back office is sixty handlers of one shape: a request, then `useCrud`'s
`invalidate` as one awaited step after another, then perhaps another page.
So the pages and the handlers are data (`PageQueries`, `Handlers`: one
definition per button of the code, with its page, the kind of component it is in,
its steps, and the families of lists it owes) and the actions run them: `Open`, `SwitchOrg`, `Edit`,
`OpenDialog`, `CloseDialog`, `Submit`; `ServerApplies`, `ServerRefuses`,
`Refused`; `Told`, `Continue` (a step of a handler), `Unnoticed` (an
`onSuccess` given to `mutate()` that is not called); the reads. A handler
remembers the organisation it was made for. The organisation is switched on the
public site only, where no admin page is mounted (`AdminShell` has no navbar),
but cache and running handlers are the same on both sides. What a handler owes
(`Owes`) is what the handlers of its entity set out to read again. So
`OwnWritesShown` catches an invalidation that is overtaken, lost or aimed at the
wrong key; it does not catch a family nobody thought of. Two such are known:
`CreateSpace` reads nothing again and owes nothing, and a booking changed on its
own page owes nothing to the dashboard, the calendar or the purchases.

## The runs

| Run | Instance | What it checks |
|---|---|---|
| `bank` | 2 purchases of 1 hour (one free, adjustable), 2 bookings of 1 or 2 hours, 2 requests | `NeverOversold`, `NoStrayDebits`, `UsedIsDebited`, `DrawsAreCovered`, `KeepsLedger` |
| `bank_order` | 2 purchases of 2 hours with two different expiries, the earlier one extendable, 2 bookings of 1 or 2 hours, 2 requests, a clock that passes the earlier expiry | `TypeOK`, `ShareIsDebited`, `SoonestFirst`, `LatestBackFirst`, `OneOrderNoCircle` |
| `booking_slots` | 2 bookings, 2 overlapping slots, clock to 3, reinstatements | `TypeOK`, `SlotHeldOnce`, `ShareFollowsStatus`, `BookingOrCredit`, `KeepsCalendar` |
| `booking_money` | 2 rival bookings, a pack of 1 hour, 2 sessions each, clock to 2, fair | `MoneyIsKept`, `ChargedOnce`, `PaidNeverLapses`, `BankNeverOverdrawn`, `CancelledStays`, `ConfirmedStays`, `KeepsLedger`, `HoldsLapse`, `PaymentsArrive` |
| `race_slots` | 2 bookings, 1 slot, 2 requests and the webhook's, clock to 2 | `TypeOK`, `SlotHeldOnce`, `PaidNeverLapses`, `PaymentsAreAnswered`, `KeepsCalendar` |
| `pack` | 2 purchases, 2 deliveries, clock to 4, fair | `TypeOK`, `HoursArePaidFor`, `NothingDangles` |
| `customer` | 2 slots of 2 hours, 2 requests, 1 more disturbance; an empty bank, or hours for a slot, a lapsed booking and nobody signed in | `TypeOK`, `OwnChangesShown`, `OutcomeIsForThisSlot`, `ReopenIsAnswered`, `WaitEnds` |
| `operator` | 2 organisations, 2 requests, 12 desks of pages worked on together | `TypeOK`, `OwnTenantShown`, `OwnWritesShown` |
| `booking_money_dropped`, `race_blocks`, `pack_swept_money`, `customer_pack_wait` | as small as shows it | one violated promise each |

Each property of a passing run has a *mutant*: a changed definition that stands
for a plausible bug (marked `mutant` beside the definition), with which TLC
finds the property violated in the same run.

### Why the bounds are enough

* Two requests, two purchases and two bookings: a hazard of the ledger is two
  parties meeting on a row, or one party half way through two rows. In `bank` a
  booking of 2 hours needs both purchases; sizes 1 and 2 make a move shrink and
  grow. A third request adds no new kind of meeting, and the proofs cover any
  number.
* `bank_order` has two expiries (`Validity`: the second id expires first), so
  the order of spending and of giving back is that of the expiries and not of
  the ids, until the operator extends the purchase to the other's day, also
  between a walk's read and its locks; then the ids decide. `Latest` lets the
  clock reach the earlier expiry, so an extension may come before it or after. `bank` has no use for two expiries, and has what the operator's edits
  and deletes need instead. `Asks` keeps the statuses an update may ask for to
  the one each run needs: letting a booking go in `bank`, confirming it again in
  `bank_order`; the proofs allow all.
* `race_slots` needs three requests: two that race for a slot and a webhook
  that comes late into the race; with two there is no circle of waits through
  the constraint and a row.
* The clock: a hold lives one instant, so an instant before, at and after the
  deadline exists. In `booking_slots` the clock passes the start of a slot.
* Two sessions per booking: the one that was replaced, and the one that replaced
  it. `Attempts` bounds `Resume` and nothing else.
* `customer`: two slots, since a modal can be on one and its request about the
  other; two requests, since a change and a read of the list it touches are two
  parties, a second change makes the first one's invalidation overlap with
  another; one step more for a page, a day, a failed read, a minute, another
  customer or a lost answer. A pack bought in the modal, paid and waited for is
  one request and one step (the page load), so a booking fits behind it. The
  proof of `OwnChangesShown` has none of these bounds.
* `operator`: a *desk* names the pages one behaviour moves between, the queries
  it follows and how many steps it takes (3 to 5, requests included); together
  the desks open every page that writes and run every handler, and put each
  page beside those its handlers lead to. Queries that are not followed are
  taken to be read at once. Two organisations are all a mix-up needs.
* `Horizon`, `Latest`, `MaxTotal`, `Attempts`, `Sizes`, `Grants`, `MaxCalls`, `MaxSteps`,
  `MaxWrites` and a desk's `steps` are the only bounds; `MaxTotal` stands for
  the code's 999.99.
* `CHECK_DEADLOCK FALSE` appears in the `pack` configurations, where every
  purchase comes to an end, and in those of the two clients, whose tab may be at
  Checkout for ever or out of steps. All others check that something can always
  happen.

### Fairness

* `BookingLifecycle!FairSpec`: weak fairness of `Sweep`, which a timer runs
  for as long as the service is up (`run_hold_sweeper`, it survives errors and
  goes on), and of each `HearCompleted(b, n)`, because the provider repeats a
  webhook until it is answered with success. No customer, operator, payment or
  session expiry is fair: they may never come. The clock is not fair either,
  `HoldsLapse` being about holds that have lapsed already.
* `PackPurchase!FairSpec`: weak fairness of `Sweep` and of `Tick`;
  `NothingDangles` rests on the age of a purchase. Deliveries are not fair: it
  must hold though no webhook ever comes.
* `CustomerClient!Spec`: weak fairness of `TimesOut` alone, a timer of the
  browser (`PACK_SETTLE_WAIT_MS`). Reads, answers, webhooks and the customer may
  never come: `WaitEnds` must hold without them.
* `OperatorClient` states none: its requests have no timeout, so a handler that
  awaits one may wait for ever.
* The liveness runs are without symmetry.

### Findings

Four promises of the repository's own comments do not hold; `PROJECT.json`
quotes each with what the run shows.

1. `booking_money_dropped`: an unpaid hold that the operator confirms or
   cancels stays payable, and the payment is dropped.
2. `race_blocks`: a block and a booking may pass each other. Nothing else puts
   a booking into blocked hours, which is a theorem (`BlockedUnlessPassed`).
3. `pack_swept_money`: a pack paid shortly before the sweep is lost.
4. `customer_pack_wait`: a customer with a few hours left who buys a pack for a
   slot comes back to a modal that takes the old hours for the new pack, and may
   be charged again for the rest.

Met while modelling and kept as notes only:

* late money may bring a cancelled booking back beside the credit it was turned
  into (`webhooks.py:183`, after the operator reopened and reactivated it);
* two deliveries of a pack's completion both write `paid_at`
  (`webhooks.py:252-257`, an unlocked read);
* walks may deadlock, against `package_hours.py:100-101` ("Locks are taken in
  expiry order by every walker, so two walks never deadlock"). The sentence
  holds of requests that read their rows once and under the same expiries, which
  is `OneOrderNoCircle`. It fails when an operator extends a purchase between
  two requests' reads (`Disagree`), and it fails for a request that holds
  purchases from a release when it walks, or lets several lapsed holds go
  (`booking_validity.py:191-195`), each in its own order of the rows
  (`ReadOnce`): with either condition dropped TLC finds the circle in seconds.
  The database ends it by aborting one of them, and `admin/bookings.py:355-363`
  expects it to;
* a webhook that loses its slot at the constraint ends as a 500 instead of a
  `paid_unfulfilled` row (`webhooks.py:186-197`, see `SlotRace`); no test loses
  the race that late. The provider's repetition repairs it;
* "Pagar agora" invalidates nothing (`app/dashboard/page.tsx:101-106`), though
  it may turn an expired booking into a hold and debit its pack hours again: the
  lists of the dashboard are stale until the tab has left for Checkout. Hence
  the exception `leaving` in `OwnChangesShown`, which fails without it;
* a credit's reversal is skipped when a cancelled booking comes back through
  `expired` (`admin/bookings.py:417-421`), and a paid booking put back to
  `pending` by the operator gets a deadline and lapses
  (`admin/bookings.py:442`): why the moves of the passing runs leave those
  detours out;
* a pack may be bought while a booking of the same modal is in flight
  (`PackUpsell.tsx:55` looks at the purchase only), three requests deep;
* the calendar of the back office caches its spaces without the organisation
  (`app/admin/calendar/page.tsx:84`), the exception in `OwnTenantShown`;
* a cancelled booking's slot stays "Ocupado" for a minute: `cancelMutation`
  does not invalidate `availability`; `CreateSpace` invalidates nothing; an
  `onSuccess` given to `mutate()` on the page of a help request is lost with the
  page; typing during a save is dropped when the answer resets the form.

## The proofs

tlapm checks them with Z3, Zenon and LS4.

**HourBankProofs**: from the assumptions of `HourBank` alone (ids are numbers,
null values are fresh, sizes and grants are positive, times are, and, for the
sums, the tables are finite), for any number of purchases, bookings and
requests, in three layers. The first, `Inv`, carries `TypeCorrect`,
`HoursAreNeverOversold`, `DebitsBelongToHolders`, `UncommittedDrawsAreCovered`.
`NeverOversold` is about committed rows and is not inductive: a commit keeps it
only if the hours the request moved are on rows nobody else could write
meanwhile and are covered by what those rows hold. `Inv` adds:

* `WritesAreLocked`: uncommitted hours sit on rows their request has locked;
* `BalancesCovered`: no balance is below zero as its request sees it;
* `DrawsAndDebitsCount`: draws and debits are not negative;
* `BookingsAreLocked`, `VisitsOwn`: a request settles what it has locked, and a
  released booking becomes one that holds hours only with a target's consent;
* `GivesWhatWasDrawn`, `ShrinkIsLocked`: a shrinking booking returns no more
  than it had drawn, to rows its request holds;
* `DeletedIsGone`: no lock and no debit is on a deleted row.

`LockRowEffect` and `CloseEffect` say once what locking a row and ending a
request do; one lemma per action shows that it keeps `Inv`, conjunct by
conjunct; `NextInv` puts them together.

The second, `Ledger`, is proved together with the first
(`LedgerInvariance`) and carries
`UsedHoursAreDebited` (`UsedIsDebited`), `SharesAreDebited` (`ShareIsDebited`),
`SoonestExpiryIsSpentFirst` (`SoonestFirst`) and `LatestExpiryIsRefilledFirst`
(`LatestBackFirst`). The two sums are of committed rows, and a commit keeps them
only if what the request is about to write adds up. So `Ledger` is of each
request its `Account`:

* `KeepsToPlan`: what it draws, gives and visits belongs to its plan and phase;
* `CreditsAddUp`: what it puts back on a row is what the bookings it releases
  and has visited had drawn on it, and nothing of a row still to come;
* `NeedIsLeft`: what it has drawn so far and what it still needs are the hours
  it set out to book; likewise for what it gives back;
* `GivesAll`, `GivesLatestFirst`, `WalksInOrder`: the order of its walk, of
  which the two promises about expiries are consequences.

`Frame` says that an account depends only on the request and on what it has
locked, so no other request's step disturbs it. `AbsentIsUnused` is for `Grant`.
TLC finds `Ledger` kept on both instances of the bank.

`ImplementsLedger` (`KeepsLedger`) stands on both. What a booking holds is its
debit rows, and by `UsedIsDebited` the sum of them is what the purchase row
calls used, so that a draw is covered follows from the balance the request saw
under its lock (`Balanced`). A commit is one move: what its request flipped is
emptied by the rows it deletes, and its own booking only draws or only gives
back (`CommitMoves`; `KeepsToPlan` says which). That the purchase is still
active *at the commit* needs one more fact than the balance: a request has drawn
only on rows that were active under its lock, and keeps the lock (part of
`KeepsToPlan`). Every statement but a commit or an edit of the operator's leaves
the ledger as it is.

`NoCircleInOneOrder` (`OneOrderNoCircle`) stands on the third, `LocksInOrder`: a
request that has read its rows once holds only rows that come before all it has
still to lock, by the expiries of that read. Of requests that wait in a circle
and read the same expiries of the rows they wait for, take the one that waits
for the last of those rows (`LastExists`): who holds it waits for one that comes
later still. The proof has no use for the number of requests or rows.

**SumProofs** is what those sums need: `SumFunction` of the community modules
folds a recursive function with CHOOSE, and nothing is known of it in the
prover's library. The library's induction theorems take a predicate as a
parameter, which the provers cannot instantiate; but that a well-founded
relation has a smallest element in every *set* (`WFMin`) can be used, and
`NumbersInSet` gets from it that a set with 0 and with every successor has all
numbers. With the set of sizes for which a claim holds, it follows that the
recursion is defined (`IterIs`), that it does not matter which element it takes
first (`AnyFirst`), and that sums add, subtract, update at one point and agree
where their terms do (`SumAdds`, `SumUpdates`, `SumCovers`).

**SlotRaceProofs**: `TypeCorrect`, `SlotsAreHeldOnce` (`SlotHeldOnce`),
`MoneyNeverLapses` (`PaidNeverLapses`), `MoneyIsAnswered`
(`PaymentsAreAnswered`) and `ImplementsCalendar` (`KeepsCalendar`), from the
assumptions of `SlotRace`, for
any number of bookings, slots and requests, which may begin, wait, lose, die or
be made victims at any statement. `SlotHeldOnce` speaks of committed rows; what
makes it inductive is what the constraint has promised the requests that have
not committed yet. `IInv` adds:

* `Unrivalled`, `Apart`: a request that is done writing a slot has no rival
  among the committed rows, and no other request that is done has its slot;
* `LocksKept`: what a request writes and what it flips it has locked, so no
  other commit touches it and the two facts above stay true until its own;
* `RowKept`: the row of a request keeps its slot while the request waits for it,
  is still absent for a new booking, and stays unpaid for a hold that is taken
  again;
* `Staged`: what each kind of request does, and when; `MoneyRows`: only rows
  that exist are paid for.

A payment in time writes `confirmed` without meeting the constraint again; it is
`Unrivalled` because its row still holds the slot when its lock is granted
(`GoOnInv`). `SessionStep` and `WriteInv` say once what a step that writes no
row, and a commit, owe to the other requests; one lemma per action cites them.

The refinement maps an hour to the booking that holds it by the clock. A request
is seen from outside only when it commits: then its own booking has its slot, by
`SlotHeldOnce` after the step an hour that was free or its own, and nothing else
changes, because what it flips had lapsed when it looked (`FlippedInv`) and is
locked since. `MoneyIsAnswered` needs that the request which serves the provider
serves payments only (`HookPays`), that nobody can abandon it, and that of all
the ways it may end only its commit takes the payment off the books of what is
due, with the row paid in the same step.

`BlockedUnlessPassed` is about the promise that does *not* hold. `PassEachOther`
is the state in which a block that has looked at the bookings and a booking that
has looked at the blocks are both open; in every behaviour without such a state
`BlockedIsFree` holds. So a lock on the room around the two looks and the
write would be enough, and nothing less obvious is hidden behind this race.
That is less plain than it seems: a payment in time writes `confirmed` without
looking at blocks, a block does not see holds that lapsed before it began, and
both go by the time their own request read. `BInv` says what a block may have
overlooked: holds that are `OutOfTime`, whose deadline was past when the block
read the clock and which no payment under way was in time for. It stays so
because a booking becomes unpaid again only when no payment of it is due or can
still be made (`Payments`), so one that begins to be served later is too late
for the hold. TLC finds `BInv` kept
under the same hypothesis.

**BookingLifecycleProofs**: `SlotsAreHeldOnce`, `ChargesAreSingle`,
`ConfirmedAreLeft` and `ImplementsCalendar` for any bookings and slots and
whatever the operator may do (`OperatorMoves`); `PaidHoldsStay`,
`MoneyIsKeptUntouched`, `BookingsOrCredits` and `CancelledAreLeft` under a
hypothesis on his moves. Nearly everything a handler does is about one booking:
the others at most lapse. `About` says so, and `AboutInv` and `AllAsideInv`
say once what is owed then. `IInv` is
`SlotHeldOnce` and, of each booking, `Sound`:

* `IsRow`, `Fresh`: the columns of its row, and that a new row has no history;
* `Sessions`: the session it waits for is the only one that can still be paid,
  and a booking that was paid, or recorded by hand, waits for none that can; of
  this `ChargedOnce` is a consequence, and alone it is not inductive;
* `Money`: the money of an answered webhook is on it, and what is paid does not
  lapse;
* `Credited`: hours it was turned into are there only while it holds nothing.

The hypotheses are about what the code lets the operator do by hand, and each is
needed: `KeepsPaid` (he makes no unpaid hold of a paid booking), `LeavesHolds`
(he does not touch a hold that may still be paid; `booking_money_dropped` shows
what becomes of the money if he does) and `KeepsCredits` (he reinstates a
cancelled booking as it was; the code checks the credit when he confirms it,
not when he makes it pending). The moves of the passing runs satisfy them.
`RowsAreTyped` (`TypeOK`), `HoursFollowStatus` (`ShareFollowsStatus`) and
`NoSourceIsOverdrawn` (`BankNeverOverdrawn`) hold whatever the operator does,
for any finite number of bookings (`BookingsAreFinite`). Their invariant
`HoursInv` is the three together, since a share fits its booking only because
the source it was drawn on had it, and that a credit nobody made or that is gone
has nothing drawn on it. Every handler first takes the shares of what has lapsed
from the ledger (`Without`) and then gives one booking what it had, nothing, or
hours that are left; `GetsFits` says that no source is overdrawn by that.
In the refinement of the calendar a step about one booking is that booking's
`Take`, a change of the blocks the blocks', and `Tick` a `LetGo` of what lapses.
`ImplementsLedger` (`KeepsLedger`) is proved with `HoursInv`, handler by
handler (`LedgerKept`): a handler that gives one booking what it had, nothing,
or hours that are left is a `Settle` (`GetsMoves`), and where a credit comes or
goes with it, nobody holds hours of that credit (`CreditHoursKept`).

**PackPurchaseProofs**: `TypeCorrect` and `ActiveIsPaidFor`
(`HoursArePaidFor`) for any number of purchases and simultaneous deliveries: the
strengthening is that what a delivery has read was paid (`ReadsArePaid`), so a
stale write is still of money that exists. `OnlyASweepLosesMoney`: in every
behaviour in which the sweeper takes only purchases whose session is dead
(`SweepsTheDead`), an answered payment is on its purchase. The hypothesis is on
the sweeper's steps alone, which come as often as they like; so the sweep of a
session that is still payable, or paid, which `pack_swept_money` shows, is the
only way to lose that money.

**QueryCacheProofs** has one lemma per operator of the cache: whatever is done
to an entry it *keeps* a change, that is, it will not settle on data older than
that change, whatever becomes of the read in flight. An invalidation makes any
entry keep any change the server has made. `EntryMoves` says the same of the
type of an entry, and that only a delivery puts data where there was none.

**CustomerClientProofs**: `OwnChangesTheorem` (`OwnChangesShown`), from the
assumptions of `CustomerClient`, for any slots, requests, pages and disturbances.
The property is about entries at rest and is not inductive: the read that will
make it false is still in flight. `IInv` adds that an entry keeps the last
change the tab was told of (`Fits`), and that no answer reports a change the
server has not made (`Numbered`). Each answer's lemma rests on what that
handler invalidates covering what its request touches (`Touches` against
`Invalidates`); a booking that forgot `['packages','me']` would fail there. The
one handler that does not cover it is `AnswerPay`, which is also the one that
leaves: the property and the invariant speak of a tab that is not `leaving`, and
the only end of leaving is `Unload`, after which nothing is cached.

The second invariant, `TInv`, is of the tab itself and carries `TabIsTyped`
(`TypeOK`), `OutcomesMatchTheSlot` (`OutcomeIsForThisSlot`) and
`ReopenedIsAnswered` (`ReopenIsAnswered`). None of them is inductive:

* an answer is told to the modal only if its component is still there, so the
  modal's requests must be *live* as well as about its slot (`RoomsOK`): what
  sends a request puts its slot into it, a page load ends the modal before it
  ends the requests, and a modal shown for another slot starts with none
  (`ModalHeard`);
* a request is for a slot of the house if it books, cancels or pays
  (`RequestsOK`), without which the server's tables would not keep their type;
* at Checkout the tab knows what it went there for (`PlaceOK`).

`Followed` says once what a step that sends nothing owes to the requests, and
`SentInv` what one that sends does. For `ReopenedIsAnswered` a step is *calm*
(`CalmStep`: it neither opens the day nor brings its data), forgets the slot or
the day (`ForgetStep`), or ends with the calendar's own effect (`ReselectStep`,
`SnapshotTyped`, `DeliverStep`), and only a delivery can be the step that brings
the data (`Kept`). TLC finds `TInv` kept on the instance of `customer`.

**OperatorClientProofs**: `OwnTenantTheorem` (`OwnTenantShown`) and
`OwnWritesTheorem` (`OwnWritesShown`), from the assumptions of `OperatorClient`,
for any organisations, pages and bounds and for every handler of the back
office. The first needs to know what is on its way before it is shown, the
second what a handler has still to do. `IInv` adds:

* `OwnEntry`: what is in an entry, or on its way to it, is of the organisation
  in the entry's key, since only a component that is mounted starts a read and
  the organisation is switched where no admin page is mounted;
* `Owed`: each family a running handler is to refresh is either ahead among its
  steps, whole and not one record of it, or keeps the handler's change already;
* `OwnIds`: a request that is out takes ids of its own organisation.

`HandlersOk` is the premise of all three: of each of the handlers, that its
steps cover what it owes (`Covered`) on a page whose keys name an organisation.
A handler that forgot a list, or that told only one record where it changed the
list, would fail there. `Better` says what an action may do to the cache
(`CacheInv`), and `CallInv` what it may do to one request.

`BackOfficeIsTyped` (`TypeOK`) stands on `IInv` and says more than types: a
dialog is of the page that is mounted, and a handler that waits, waits for reads
that are on their way, so nobody waits for an answer that has come. Its `TInv` adds:

* `PageOK`: a request that a mounted page sent and that still runs is one of
  that page's, which is why the sheet that reopens over a page is its own;
* `CallOK`: the pages a handler has still to open are of the desk, and what it
  waits for was shown when it was read again, which starts a read, and every
  step that ends a read releases whoever waits for it (`Flying`, `Rests`);
* `BoundsOK`: what was applied and what is still on its way are together no more
  than what was sent, since `applied <= Len(calls)` alone is not inductive.

`MovingInv` says what has to be seen of a step that sends nothing, and
`SubmitTyped` is the one that does. TLC finds `TInv` kept on the instance of `operator`.

**Only model-checked**: liveness under fairness (`HoldsLapse`,
`PaymentsArrive`, `NothingDangles`, `WaitEnds`), which is not in the prover's
reach. Every other invariant and action property of the passing runs is a
theorem.

## What the models leave out

* Hours are whole; the code has two decimals and rounds nowhere in the ledger.
* Prices, currency and amounts; with them the price overrides of the operator
  and the deletes that an amount of zero alone allows.
* Opening hours, minimum duration, the 24-hour day (`Notice` stands for the
  rule's 24 hours) and time zones.
* Several rooms and several customers: slots of different rooms never meet, and
  neither do the hours of different customers.
* A Checkout Session opened by a request that then fails: nobody has its link.
  A session closed by a request that then refuses (`mark-paid`,
  `resume_checkout`) is the provider's `SessionExpires`.
* Payment methods that complete a session before the money is there.
* A commit that fails after the response was sent (`database.py:43`): a webhook
  that was answered and then not committed would not be repeated. The commit and
  the answer are one step in every model.
* E-mails, access codes and audit rows that handlers produce on the way.
* In the customer's tab: the weekly series (parked behind a flag), several rooms
  (the slots lie on different days instead; the calendar's data is not keyed by
  room, so a room switch is a day switch), the 24-hour rule for cancelling, the
  back-forward cache and an answer to "Pagar agora" without a `checkout_url` (both
  would leave the stale lists of above on screen), reads after a reconnect, a pack that expires while the
  modal is open, other tabs. Availability carries no count of own changes: a
  cancellation does not read it again.
* In the back office: filters, search and downloads, the status a record must
  have for its buttons to show (the server refuses instead), remounts and page
  loads, the two phases of a `DangerZone` request, which is one here, and
  the second read of the e-mail card after a test message.
* The components listed in `PROJECT.json` as not modelled.

## Not modelled, and what would come next

In this order, the most important first:

1. `Recurrence`, composed with `SlotRace`'s statements: a series inserted in one
   transaction under the room's advisory lock, all occurrences or none, against
   one-off bookings; the series that ignores blocks. The feature is switched
   off in the frontend (`NEXT_PUBLIC_RECURRING_BOOKINGS_ENABLED`).
2. `AccessCode`: the table of one process, failing issue and revoke, a rollback
   after the provider was called, a restart; a code is only for a live booking.
3. `RateLimit`, `OpenHours` (days with a skipped or a repeated hour),
   `PasswordReset` and `Invoices`: small modules each, with no interaction with
   the core.

Never: the landing pages, the static site, translations, e-mail texts,
deployment and cloud resources. They are text, layout and single requests; no
state of theirs outlives a step.
