# A verification project for qognical

qognical is a booking server: visitors pick a slot of an event type, pay or wait
for an approval where the type asks for it, get a calendar event, a meeting link
and a link to cancel or move the booking. It is one Go process on PocketBase
(SQLite), and almost everything hard about it happens between two database calls:
requests, payment webhooks, a cleanup job and goroutines that call calendars all
work on one bookings table, and only some of them inside a transaction.

These TLA+ modules model that program, TLC checks them on small instances, and
TLAPS proves the central facts for every value of the constants.
`PROJECT.json` gives the source lines behind every definition, the properties of
every run, and a deliberate error for every property that makes it fail.

    tlc -workers 2 -config Store.cfg MCBookingStore         # a run, by its cfg and module
    tlapm BookingStoreProofs.tla                            # the proofs of a module

## 1. The system

### 1.1 Components

Paths are under `src/internal/`.

| Component | State | Operations | Module |
|---|---|---|---|
| State machine, `state` | none | `CanTransition`, initial, active, terminal | `BookingStatus` |
| Booking store, `store/store.go` | table `bookings`, payment columns | create, status, reschedule, payment result, event id, tokens | `BookingStore` |
| Booking pipeline, `pipeline` | none of its own; chains of store and provider calls | `Run`, `HandleApproval`, `HandleDecline`, `Cancel`, `Reschedule`, `OnPaymentSucceeded` | `BookingPipeline` |
| The check of a request, `pipeline.validate` and `FreeBusy` of the adapters | none; the host's own calendar is elsewhere | ask the calendar, page by page, take up or refuse what it answers | `BusyTime` |
| Intake forms, `intake` | none (a schema per event type) | `ParseSchema`, `Validate` | `Intake`, `IntakeForm` |
| Slot engine, `slot`, `timeutil` | none | `ComputeSlots` | `SlotEngine`, `SlotSearch` |
| Slot listing and host choice, `api/api.go`, `pipeline/host_select.go` | overrides, bookings, calendars (read) | list slots, pick a host, re-check at booking time | `SlotOffer` |
| Rate limiter, `ratelimit` | bucket per client, the time of the last collection | `Allow`, `gcLocked`, middleware | `RateLimiter` |
| Payment webhooks, `webhooks/inbound.go`, `adapters/stripe`, `adapters/paypal` | `webhook_events_inbound`, payment columns | create checkout, verify, deduplicate, dispatch | `PaymentWebhooks` |
| Outbound webhooks, `webhooks/outbound.go` | `webhooks_outbound`, `webhook_deliveries` | `Emit`, the minutely delivery run | `OutboundWebhooks` |
| Calendar integrations, `adapters/registry.go`, `store`, `cli`, `api/host.go` | `integrations`: active flag and credentials per provider | connect, set, delete, look up, rotate a token | `CalendarIntegrations` |
| Service tokens, `svctoken`, `api/admin.go` | `service_tokens` | issue, revoke, delete, verify, note the last use | `ServiceTokens` |
| Reminder job, `cron` | none: nothing records what was sent | `dispatchReminders` | `Reminders` |
| Erasure, `dsgvo` | none; the rows of one person | `anonymise` | in `Reminders` |
| Cleanup job, `cron` | none (`pending_since` of a booking) | `cleanupStuck` | in `BookingStore`, `BookingPipeline`, `PaymentWebhooks` |
| Manage and approval links, `token` | token id and generation in a booking | issue, verify, rotate | in `BookingPipeline` |
| Mails with an invitation, `notifier` | none; the entry in the invitee's calendar | confirm, reschedule, cancel | in `BookingPipeline` |

Not modelled: mail text, captcha, standalone meeting providers, the adapters'
wire formats and sign-in, the export of a person's data, encryption,
configuration, health, translations, static pages, the embed package. Section 7
says why.

### 1.2 How they interact

* **API → pipeline → store.** A booking request is a chain: pick a host and
  re-check its calendars (no transaction), create the row (transaction: conflict and
  capacity are asked again, the row is saved), then the confirm tail: create the
  calendar event, note its id, issue a token, send a mail, emit an event. Each
  link is a call of its own; a failure is logged and the chain goes on, or stops.
* **Goroutines.** A payment webhook is answered with 200 and processed in a
  goroutine, so is `Emit`; a click on an approval link and a payment result can
  therefore run with a request about the same booking.
* **Cron.** PocketBase's scheduler runs the cleanup (abandons bookings that waited
  too long for a payment), each five minutes the reminders and, each minute, the
  outbound deliveries. Erasure is a command, a process of its own on the same database.
* **Shared state.** Everything meets in the database. PocketBase runs
  `RunInTransaction` on one write connection: transactions are serial. A read
  followed by a `Save` *outside* one is two steps. `Save` writes the changed columns
  only, so a stale copy overwrites what it changed and nothing else.
* **The world.** Calendars change by themselves; payment services deliver events
  late, twice, and in any order; subscribers hang.

### 1.3 What is hard, and what should hold

| Where | Hazard | What should hold |
|---|---|---|
| store | read in one step, saved in a later one (`SetBookingPaymentResult`, `cleanupStuck`) | no two bookings of a host overlap, except by the one race there is |
| store | a class is filled by concurrent creations and by reschedules | seats are never exceeded for a class with one host |
| pipeline | cancel, reschedule, confirm tail and payment at once; provider failures; crash between links | calendar and bookings agree; one event per booking; the invitee's latest link works; one meeting room per group session |
| slots | touching hours, buffers, clock changes, windows, notice | listed means bookable and the reverse; buffers kept |
| limiter | idle buckets collected; two handlers and one clock | no more than a burst and the rate; an honest `Retry-After` |
| payments | delivery twice, late, reordered; crash after the answer | confirmed only if charged; nothing processed twice after an answer; a payment is recorded |
| outbound | a run cut off by its time limit; a crash between sending and noting | delivered means accepted; ended means not sent again; each delivery ends |
| integrations | lookup and connect at once; a rotated refresh token written back from a stale read | one active calendar; a reconnect is not overwritten |
| request check | the host's calendar changes between two pages, is cut off, cannot be read, or is not to be had | what is busy there is not given away |
| forms | false, blank, absent and unknown values; a wrong schema | accepted exactly what answers the schema |
| mails | the confirmation is written by another goroutine than the change and may come after it | the invitee's calendar ends up right |
| reminders | windows of late, missed or overlapping runs; a booking moved meanwhile; no record of what was sent | each reminder once, and in time |
| erasure | rows read before the transaction; a handler that saves what it read before | what is erased stays erased |
| tokens | revoked or expired between check and use; last use saved from a stale read | dead tokens do nothing; bindings hold |

`PROJECT.json` has the full list with lines, and a note for each hazard that no
property covers.

## 2. Modules and the code

One action is one step that no other goroutine can split: a transaction, a single
`Save` or read, or a call to a provider. An action's comment or its entry in `map`
names the function.

* **`BookingStatus`**: statuses and transitions of `state.go`, as a function.
* **`BookingStore`**: the table as functions of booking ids (`row`, `status`, `pay`);
  columns no property tells apart are left out. `ReserveBookingTx`, `UpdateStatus`,
  `SetBookingApproval`, `SetBookingDeclined` and `ReplaceStartEnd` are atomic, as their
  transactions make them. Payment results (`PaymentRead`, `PaymentSave`) and the cleanup
  (`CleanupRead`, `CleanupSave`) are split into read and save. Any host of a pool may
  be picked.
* **`HostCalendar`**: the abstract specification: every booking takes one slot of a
  host, may move it while it has it, and gives it back once; slots of one host do not
  overlap. `BookingStore` implements it (`ImplementsCalendar`), with the active single-attendee bookings of
  unpaid types as `held` and the ended ones as `released`; paid and group bookings go on
  beside them and take no abstract step.
* **`BookingPipeline`**: the chains, as workers with a task and its next step,
  over one table, the calendar's events and the mails sent. Every
  provider call may succeed, fail, or succeed with its answer lost; a crash drops
  all tasks. The store's guards are those of `BookingStore`, the flow of a booking
  (free, approval, paid, both, a seat in a group session, a fixed meeting link) is
  chosen at creation. Attendees of a session look for its meeting before they create
  one; a cancellation deletes the event it finds in its row. A mail may fail, and is then
  lost with the link in it, whose hash is stored already (`unsent`). `invite` is the entry the
  mails leave in the invitee's calendar, written in any order: a mail with a lower SEQUENCE
  changes nothing, and of those with the same one some programs keep the first and some
  the latest (DTSTAMP).
* **`BusyTime`**: one request against the host's own calendar, of any of four
  providers. Events are busy or free, near the slot or not, with times that can be read,
  cannot, or end before they begin; they come and go while Microsoft's pages are read.
* **`Intake`**: `ParseSchema` and `Validate` as operators; texts are values of which it is
  known whether they are blank, how long they are, and what numbers, dates or addresses
  they stand for; keys are taken as well-formed. **`IntakeForm`** is one submission: a form and what came in for it
  (`Schemas`, `Submissions`), the answer, and what it means for a value to answer a field.
* **`Reminders`**: the clock in minutes, runs with their window and the bookings they
  have read, a second read at each mail, failed mails, a handler with a stale row and
  the two steps of `anonymise`.
* **`SlotEngine`** / **`SlotOffer`**: `ComputeSlots` as sets and functions on
  minutes of a day in local time with at most one clock change, read as `time.Date` does. **`SlotSearch`** is one
  computation for one of `Queries`, and says what a slot is without windows or merging, by
  points in time and the clock on the host's wall. `SlotOffer` EXTENDS the engine with
  overrides, calendars, local bookings with a row for each attendee, the pool's union, `pickHost` and the
  booking-time check.
* **`RateLimiter`**: a handler reads the clock (`Arrive`), waits at most `Lag` for the lock
  and decides (`Grant`, `Deny`), collecting idle buckets every `GcEvery` seconds. Tokens are
  counted in units of one `Window`-th, which is exact. History variables count what one
  client was allowed, and what it was given beyond the rate.
* **`PaymentWebhooks`**: one booking, one checkout; the service's events are a set
  of messages delivered up to a bound. `VerifyWebhook` gives each event its meaning;
  the handler checks for a duplicate, saves the event and answers in steps; a task then
  dispatches. Stripe sessions and PayPal orders and subscriptions are `method`s.
* **`OutboundWebhooks`**: subscribers, deliveries, a run with its list of due
  deliveries, one request at a time, cut off when its time is up.
* **`CalendarIntegrations`**: one host's rows per provider. Ciphertexts are numbers;
  the compare-and-set on a rotated token compares them as the code does.
* **`ServiceTokens`**: tokens with scopes, bindings and expiry; a request finds and
  verifies its token, then notes its use, before its answer goes on, from a row it reads once more.
* **`MC*`**: values of constants, and the combinations (`Mix`) a run is kept to.
  `MCSlotEngine` has the queries; `MCBookingRequest` composes them with `BusyTime` and
  `IntakeForm`, whose names begin with `Busy` and `form` for that reason.
* **`*Proofs`**: `BookingStoreProofs`, `PipelineProofs`, `RateLimiterProofs`,
  `CalendarProofs`, `TokensProofs` and `PaymentProofs` are about the module of that name
  (`CalendarIntegrations`, `ServiceTokens` and `PaymentWebhooks` for the last three);
  `JobsProofs` is about `Reminders` and `OutboundWebhooks`; `RequestProofs` about
  `SlotSearch`, `SlotOffer`, `BusyTime` and `IntakeForm`.

History variables (marked `history` in the modules) record what no column shows,
such as who was charged or which calendar was connected last. No guard of code
reads one.

`SlotOffer` composes the engine with the store's queries; `BookingPipeline` and
`PaymentWebhooks` compose the state machine, the store's guards and the jobs at the
grain their races need; `BookingStore` composes store, cleanup and payment results.

## 3. Runs

| Run | Bounds | What it shows |
|---|---|---|
| `Store` | 5 event types: a call, a host-approved review, a class of two seats, a paid consult, a paid audit with approval; 2 hosts, 2 starts; either 3 bookings of unpaid types, or 2 of calls and paid types with payment results in flight (2 for a paid booking alone) | a class of one host is never overfilled; a double booking always involves a confirmed paid booking; only payments confirm paid bookings; the table implements `HostCalendar`; no payment is waited for without end |
| `DocNoDoubleBooking` | 2 bookings, free and paid, 1 host, 1 start | *violated*: see section 6 |
| `DocOneRoom` | 2 attendees of one session, 1 worker, no faults | *violated*: see section 6 |
| `PipeRaces` | either 1 booking of all six flows, 2 workers, and either failing calls, lost mails or 1 crash, 3 tokens (4 with none of them); or a session of 3 attendees whose handlers follow one another; workers are symmetric, and so are two of the attendees | the host's calendar in step, one event, the link works, changes announced, one meeting room, the invitee's calendar right |
| `Request` | a day of 6 units: every pair of hours in seven zones, five of them with a clock change on either side of Greenwich, and some hours with overrides, busy times, buffers, notice and horizon; or a calendar of up to 3 events, two of them of any kind, 2 pages, 1 change; or a form with one field of any kind (or two) and any values | the slots are sound and complete against a definition by points in time; busy times are heeded; a form is accepted exactly if it answers its schema |
| `Reminders` | reminders 4 and 1 minutes ahead; either 1 booking, a run every 2 minutes, 2 runs at once, clock to 8; or 2 bookings, erasure beside stale handlers, clock to 2 | nobody reminded twice, everybody in time, erased for good |
| `Offer` | a day of 4 units, 2 listed dates, 2 hosts, 4 types, 2 bookings | listed is bookable, bookable is listed, a class until it is full, buffers, pools |
| `RateLimit` | 2 clients, 2 handlers, burst 2, window 5, idle after 3, a wait of 1 for the lock, clock to 6; clients and handlers are symmetric | the rate, with what late refusals and dropped buckets give away; an honest `Retry-After` |
| `PayEvents` | 1 booking, every method, each event twice, 2 tasks, 1 crash | confirmed only if charged, no reprocessing, recording, release |
| `OutHooks` | 2 subscribers (one answers or refuses, one refuses or hangs), 1 event, 2 tries, 1 crash | delivered means accepted, ended means not sent again, and each delivery ends |
| `Calendars` | 4 providers, 2 workers, 4 credentials | one active, the last one connected, reconnects and rotations kept, lookups right |
| `Tokens` | 1 token, 2 grants, 2 requests, 2 hosts, any bookings visitors made before, clock to 2 | a dead token does nothing; bindings |

**Why the bounds are enough.** The races of this program are between two actors
over one row, or between two rows over one slot; two workers and two or three
bookings have all of them, and every action of every module fires. Three bookings
are needed to overfill a class of two seats. With starts 0 and 1, calls of length two and
other types of length one, bookings are in the same slot, overlap in part, touch,
and are apart. One payment that succeeds and one that fails are in flight together.
Tokens of the pipeline are three or four because a cancellation and each rescheduling
rotate the first one. A second crash or a third delivery repeats what
the first allowed, since a crash leaves nothing in memory and a duplicate is found by
its id. In `RateLimit` a clock of 6 has a window and a bucket dropped before it is full; without
either of the two gifts in `RateKept` the run finds it violated. Where
the bound is a real limit of what was checked, the proofs go beyond it: `Request` has at
most two hours and two busy times a day and one override, `PipeRaces` has one booking, or a
session without overlapping handlers, `Store` does not mix classes with payments,
`Reminders` has one booking for the job and two for erasure, `Calendars` one
host, `Tokens` one token at a time. `Offer` has two seats in its class and room for two
bookings, so that the class fills and a seat becomes free again; its clocks do not change and
no buffer is longer than a day, which is where `OfferHolds` claims something.

**Exceptions inside properties.** Some properties hold only where a race the code
does have did not take place; the comment of the property says which, by a variable
such as `raced`, `failed`, `calm` or `starved`, and section 6 lists them. They are stated that way
because the rest of the claim is worth keeping, not to hide the race.

### Properties worth reading first

* `ImplementsCalendar`, `NoUnpaidClash`, `ConfirmedOnlyByPayment` (`BookingStore`)
* `CalendarInStep`, `ManageLinkWorks`, `InviteRight` (`BookingPipeline`)
* `BusyHeeded` (`BusyTime`), `RemindedOnce`, `RemindedInTime`, `ErasedForGood` (`Reminders`)
* `SlotsSound`, `SlotsComplete` (`SlotSearch`), `OfferHolds`, `NothingHidden` (`SlotOffer`)
* `RateKept`, `RetryAfterHonest` (`RateLimiter`)
* `PaidOnlyIfCharged`, `AnsweredNotRepeated` (`PaymentWebhooks`)
* `ReconnectKept`, `LookupRight` (`CalendarIntegrations`), `NoUseOnceDead` (`ServiceTokens`)

## 4. Fairness

Two runs have liveness properties.

* `PaymentSettles` (`Store`): weak fairness of time (`Age`: a waiting booking
  gets older than the limit), of the cleanup's query and of its save of each booking
  it has read. The scheduler starts the job every ten minutes whatever happens, and a
  booking that is due stays due until it is settled. Payments and invitees are not
  fair: nobody has to pay.
* `DeliveryEnds` (`OutHooks`): weak fairness of time (a retry comes due), of the start
  of a run, which the scheduler triggers every minute, and of the run's next step
  (a request, or the saving of its result). Which request a run makes next is not
  fair, nor is what a subscriber answers: those that hang can use up a run's time, and
  deliveries starved that way are excepted. Crashes are bounded.

All other runs are safety only and need none. Deadlock is checked except where the
bounded world really comes to rest (every event delivered, every credential used, the
clock at its end, one computation made): `PipeRaces`, `DocOneRoom`,
`Request`, `Reminders`, `PayEvents`, `OutHooks`, `Calendars`, `Tokens`.

## 5. Proofs

Every invariant and action property of a passing run is a theorem for all values of the
constants; two about the listing have hypotheses, given below. Each is proved the same
way: an inductive invariant, named in the proof module, that holds at first, survives
every step, and implies the property.

### `BookingStoreProofs`

For any hosts, event types, starts, durations, capacities and finite set of bookings,
from `StoreAssumption` only.

The goal is `NoUnpaidClash`: when two single-attendee bookings of a host overlap, one of
them is a confirmed booking of a paid type. It is not inductive alone. A payment result
is saved with the status it read long ago, and the cleanup saves what it queried long
ago; were either able to touch an unpaid booking, it could bring a booking that had
given its slot back to life. `IInv` rules that out:

* `TypeOK`;
* `WritesPaid`: a payment result in flight is of a paid booking, and a checkout is
  only recorded on one read as `pending_payment`;
* `AgedPaid`: only paid bookings are old enough for the cleanup, and it has only
  read such;
* `Reachable`: no booking is `draft`, `processing` or `rescheduled`. The transition
  table would let those statuses become active ones; nothing writes them.

`NextApart` then takes two bookings that overlap after a step, and asks which of them
the step changed: a creation or a move has made the conflict query in the same
transaction; a status write never makes an inactive booking active; a payment save
makes it a confirmed paid booking, which the property allows.

* `StoreInvariant`, `TypeCorrect`: `Spec => []IInv`, and the type invariant.
* `UnpaidNeverClash`: `Spec => []NoUnpaidClash`.
* `FreeNeverDoubleBooked`: with `PaidTypes = {}`, `Spec => []NoDoubleBooking`. What
  `DocNoDoubleBooking` refutes is true of an installation without paid types: payments
  are the only way to a double booking.
* `PaidConfirmedByPayment`: `Spec => []ConfirmedOnlyByPayment`. The invariant `PayInv`
  adds `PaymentOrder`: which payment columns go with which statuses, and with what a
  result in flight has read, since a save is decided by what was read.
* `StoreImplementsCalendar`: `Spec => ImplementsCalendar`, the refinement of `HostCalendar`,
  with paid types, classes, payment results and the cleanup in the same table. A step
  concerns one booking (`Only`). If the calendars show it, the step is a take, a move or a
  release, and a take or a move has asked for all active bookings of the host
  (`FoundFree`); if not, the calendars stutter (`Unseen`). `IInv` is needed for the second
  half: without `WritesPaid` and `AgedPaid` a stale save could touch a slot that is shown.
* `SeatsNeverExceeded`: `Spec => []SeatsWithinCapacity`. A creation has counted the seats. A
  move has not, but it has found nobody else at the host, and all attendees are with
  one host (`AloneAtSlot`): it is alone in its new slot. A type with more hosts has no
  such bound, see section 6.

### `RateLimiterProofs`

For any clients, handlers, burst, window and collection interval.

* `LimiterTypeCorrect`: buckets stay within bounds.
* `RateBound`: `Spec => []RateKept`, for every `Lag` and `IdleAfter`. The burst and the
  rate hold but for two gifts, which `RateKept` bounds: a refusal by a clock older than the
  bucket's sets its time back, so that up to `Lag` seconds are refilled twice (an allowed
  request gives nothing: the bucket loses by the older clock what it regains), and a bucket
  dropped after `IdleAfter` gives what it still lacked. With `Lag = 0` and
  `Window <= IdleAfter` both are nothing. The invariant, `RateInv`, is a balance drawn at the
  bucket's own time (`Accounted`): what was spent and what is left came from the burst, from
  what was gained until then and from the gifts. It must be drawn there, not now, since a
  handler may still enter by an older clock; `LagKept` says by how much.
* `RetryIsHonest`: `Spec => []RetryAfterHonest`, also for every wait, since a
  promise is covered by the bucket it was computed from, or by a fresh one
  (`PromiseCovered`).

### `CalendarProofs`

For any number of requests, of credentials, and any calendars set by the operator.

* `IntegrationsTypeCorrect`: the type invariant, with `SecretsIssued`: what a row or a
  task holds was put in or rotated before. It is needed because a number not issued yet
  has no root, and would get one later.
* `OneCalendarActive`: `Spec => []OneActive`. Each transaction that connects a calendar
  ends by switching the others off, so what it read before does not matter.
* `ReconnectNotOverwritten`: `Spec => []ReconnectKept`. The invariant adds `SameRoot`: the
  refresh token a provider holds and the one it knows stored were rotated from the same
  credentials. The compare-and-set compares the row with the one known stored, so what
  is written has the root of what it replaces. `RootsKept` and `Derived` carry
  this through the steps of all other tasks.
* `RotationStored`, `LookupFindsActive`, `LastConnectedStays`: `Spec => []RotationKept`,
  `[]LookupRight` and `[]LastConnectedActive`. They share one invariant, `CalmKnows`: a task
  that nobody has interfered with knows of the table what is in it (`Knows`). A lookup has
  found what is active among the candidates it has asked for; a provider's stored
  token, and the row it is about to save to, are those of the active Microsoft row, so the compare-and-set
  succeeds; and a connection has read the row it saves, so its flag is or becomes
  TRUE. Whoever changes the table takes the calm of all others (`DisturbedNotCalm`); that
  needs `Idle` to be no worker, which `IntegrationsAssumption` says.

### `JobsProofs`

Reminders: for any bookings, kinds of reminder, interval, starts and runs at once.

* `RemindersTypeCorrect`: the type invariant, with `ErasingMade`: the command has only read
  rows that exist.
* `NobodyRemindedTwice`: `Spec => []RemindedOnce`. Nothing records what was sent, so the
  invariant is about windows: runs that begin in their minute begin an interval apart
  (`Spaced`), what a run has in hand or has sent starts in that run's window unless it was
  changed since (`TodoDue`, `SentDue`), and a window is as long as an interval.
* `AllRemindedInTime`: `Spec => []RemindedInTime`. The windows of the runs that have begun
  leave no gap before `next`; a booking that starts in one of them (`Covered`) was sent its
  reminder, or its mail failed, or a run has it still to read or to remind (`NoneMissed`).
  Once no run is left, one of the first two holds.
* `ErasedStays`: `Spec => []ErasedForGood`. A reason on a row that the command has read, and
  that it did not see, was written after that read (`ReasonIsRecent`), so what
  is left after its save is such a reason.

Deliveries: for any subscribers, events, replies and bounds.

* `OutboundTypeCorrect`, `MarkedWasAccepted`, `NothingSentOnceEnded`. The last is an action
  property. The invariant says what the run at work has in hand: each delivery at most
  once (`HandOnce`), and none that has ended (`HandOpen`), because the result of a request
  is saved before the next one is made and the query leaves ended ones out.

### `TokensProofs`

For any workers, hosts, event types and grants.

* `TokensTypeCorrect`, `DeadTokensUnused`, `TokensWithinBinding`. The notes of use are saved
  from a stale row; they change one column, so a token that is not good never becomes
  good again (`Kept`, for every step). A request that came with a dead token therefore
  fails its verification, whenever that takes place (`Fit`). What was booked was within the
  binding (`Bound`), and stays so since what a token was issued with does not change.

### `PaymentProofs`

For any bookings, deliveries, tasks and restarts.

* `PaymentTypeCorrect`, `PaidIsCharged`, `NoRepeatOnceAnswered`, `OutcomeReachesBooking`. An
  event that means success is only sent for money the provider has (`Told`); what was
  answered is recorded, so a later delivery ends at the check (`Answered`); and what is
  recorded has reached the booking, or a task that will save it has read the booking as
  waiting or has not read it yet (`Recorded`).

### `PipelineProofs`

For any bookings, workers, starts, flows and bounds on payments, crashes and tokens, from
`PipelineAssumption` and `IdleAssumption`. The last says that `Idle` is no task.

Every proof looks at a step twice: by its guard and task it is placed in its handler (the
`Moves` lemmas, `Onwards`), by its primed columns it is one of the few steps that change
each of them (`Changes`, `StepFrame`). Then:

* `BaseInvariant`, `PipelineTypeCorrect`, `ConfirmedBeforeEvent`: `Spec => []Base`, hence
  `[]TypeOK` and `[]EventOnlyOnceConfirmed`. `Base` says at which steps of its function
  a handler can be, what its step, the status, link and checkout say about the event type, and
  that nothing comes to the confirm tail before it was confirmed.
* `ChangesAreAnnounced`: `Spec => []ChangesAnnounced`, from `Announced`: a change is
  announced, or its handler is on the way to do it.
* `OneEventOnly`: `Spec => []OneEventPerBooking`. `Orderly` says who has an event's id, in the
  calendar, in the row or in a task (`Owns`): one booking, or attendees of a session. And a
  booking whose handler may yet create an event (`TailBound`) has none, has one such
  handler, and cannot start another (`CanStart`).
* `LinkAlwaysWorks`: `Spec => []ManageLinkWorks`. `Reachable` follows the hash in the row: it
  is one the invitee was given, one a failed mail was to bring, or one that a handler still
  holds on its way to the mail (`LinkKept`). That needs to know that a payment is saved by one handler (`OneSaver`) and not
  before the checkout (`FirstLinks`, `PaidOnce`), and that nothing confirms a booking that is
  being cancelled (`CancelledForGood`).
* `OneRoomOnly`: `Spec => []OneRoom`. If no two handlers of a session were at work together
  (`Apart`), all attendees with an event share it, and one without is still being
  created (`SessionInOrder`).
* `CalendarAlwaysInStep`: `Spec => []CalendarInStep`. `CalendarSteps` says what is missing
  from the calendar at each step of a handler: an event at another time than the booking
  has a rescheduling on the way to it, one of a cancelled booking a cancellation, and a
  confirmed booking without one a confirm tail.
* `InviteAlwaysRight`: `Spec => []InviteRight`. Of a booking no mail of which failed, the
  entry at the invitee is right, or a mail that will set it right has not been written yet
  (`EntriesRight`). Mails overtake each other, so
  this turns on which handlers may still write one (`Newborns`, `OneConfirms`).

### `RequestProofs`

Slots, listing, calendar check and forms: what is a search or a scan in the code is said
here for every input. The windows of a day are merged by a recursive function over a
sequence, and the times a whole pool is busy are cut out by another. What such a function
computes for every length is shown with sets: the lengths for which it is right contain 0
and the successor of each of their own, so they are all of them (`Inductive`, from `LeastOf`, which
is `WFMin` of the library for the order of `Nat`).

* `OfferedSlotsKept`: `SlotSpec => []SlotsSound`, for all queries. Merging adds no instant that no
  window had (`MergedMade`), a step back to the grid stays within the hours
  (`KeptHours`), and the clock of each instant of a slot is within them (`OnDutyInHours`).
* `KeepableSlotsOffered`: `SlotSpec => []SlotsComplete`. A stretch on duty all the while lies in
  one merged window (`MergedWhole`, `DutyInWindow`), and each mark of the grid in it is come by
  (`OnTheGrid`).
* `ListedSlotsKeepBuffers`: `Spec => []OfferKeepsBuffers`, whatever the clocks do.
* `ListedSlotsBookable`: `Spec => []OfferHolds`. The listing and the check read
  overrides and bookings for different ranges of time; an override that only one of them
  reads is of another day than the slot (`OverrideNear`, `SameWindows`). That is false on a day of
  25 hours, and a buffer longer than a day reaches past what the listing reads, so `OfferHolds`
  speaks of hosts whose clock does not change and of buffers after a meeting of at most a day,
  see section 6.
* `BookableSlotsListed`: `Spec => []NothingHidden`. For a pool, what
  is busy for all is busy for each of its hosts (`EachOneBusy`).
* `BusyAlwaysHeeded`: `BusySpec => []BusyHeeded`, for any calendar and size of page. What has been
  there from the start, and is not taken up, is on a page still to come (`PagesRead`): an
  event that comes pushes others back, which is harmless; one that goes pulls the first of the
  next page onto one already read, if it was before it, and that one event is excepted
  (`shifted`). Of the other three providers' busy times `BusyHeeded` claims only those that can be read, in
  an answer that is complete: the code does give the others away, see section 6.
* `FormCheckedRight`: `FormSpec => []FormRight`, for any forms and submissions. Field by field,
  passing is answering (`PassesIfAnswers`); that a choice comes once is said by the
  code with a map and here with a cardinality (`EachOnce`).

### Only model-checked

Liveness, `PaymentSettles` and `DeliveryEnds`, since it needs fairness and ENABLED, which
the prover does not have; and what the two `Doc` runs refute. What the engine does on days the
clock changes is proved as far as `ClockKeepsHours` goes; completeness on such days is claimed by neither.
## 6. Where the code and its documents disagree

Two disagreements have runs. `DocNoDoubleBooking`: `SECURITY.md:22` answers
"Doppelbuchung durch Race" with a transactional lock before the insert (INV-1).
`SetBookingPaymentResult` (`store.go:1288`) reads, checks the transition and saves
outside a transaction, without asking for conflicts; between read and save the cleanup
can abandon the booking and another booking take its slot. Both are confirmed. `DocOneRoom`: `pipeline.go:402` reuses
the meeting of a session's first attendee "so everyone joins the same room", but
`Cancel` deletes the meeting of whoever cancels (`pipeline.go:682`), and the others are
left with a link to one that is gone, which later attendees are sent as well.

The others met while modelling are excepted in the properties, or follow from the code
by reading; each is a place to look at when the code is next changed.

*Bookings and pipeline*
- The cleanup saves from a stale read: it can abandon a booking that was paid in between (`cron.go:104`, read at `:87`).
- That a status is terminal is only kept within a transaction: abandoned becomes confirmed by the race above.
- Conflicts are asked for single-attendee types; classes are not checked against other bookings, and rescheduling or pools can exceed a class's seats.
- Rescheduling one attendee of a group session leaves it in the session, whose meeting moves with it; and two attendees whose confirm tails overlap each create a meeting (`pipeline.go:403`).
- `ical.go:22` has SEQUENCE go up by one at each rescheduling; it is 1 at every one of them (`pipeline.go:747`), and at the cancellation. Of a booking changed twice, a calendar program that does not go by DTSTAMP keeps the first change: `Shows` claims nothing for it.
- A mail that fails is lost (`KNOWN_LIMITATIONS.md:38`), and with it the manage link: its hash has replaced the one before (`pipeline.go:539`, `approval.go:64`). After a failed confirmation no link the invitee has works; `ManageLinkWorks` and `InviteRight` except it.
- Rescheduling a booking that waits for an approval or a payment sends a CONFIRMED invitation, and no mail takes it back when the booking is declined or abandoned.
- `adapters.go:22` leaves an unavailable provider to a retry job; there is none, and a booking stays without its event.
- An event id noted after a cancellation leaves its event in the calendar (`pipeline.go:681` against `:680`).
- A confirmation after a cancellation gives a cancelled booking a working link: the confirm tail rotates whatever status the row has by then (`pipeline.go:525`), and so does a rescheduling (`:712`). `InviteRight` excepts it.
- A second event about one payment confirms again and makes a second calendar event (`pipeline.go:525`); `OneEventPerBooking` allows for one payment event.
- A cancelled booking's link stays valid (`pipeline.go:745` against `:662`); a token is not used up by its use (`SECURITY.md:28`, `api.go:596`).
- A confirmation after an approval is not announced to subscribers (`approval.go:83`, `docs/webhooks.md:24`); refunds are not either (`inbound.go:110`, `webhooks.md:27`).
- A paid booking with approval is confirmed by the approval and stays so, paid or not: the correction to `pending_payment` (`approval.go:72`) is refused by the transition table and the error dropped. Approvals never time out.

*Slots*
- A pool's slot is listed when the union of its hosts has it, though `pickHost` may find none at booking time (`store.go:434` against `:432`).
- The last listed day can be listed though an override closes it, and west of Greenwich an override counts for the wrong day (`api.go:297`; `slot.go:118` against `:48`; `slot_test.go:84`).
- `slot.go:9` has clock changes "just work". They do, unless hours begin or end at a time that is skipped or shown twice: `time.Date` reads a time shown twice as the second of the two east of Greenwich, as the first west of it, so that Berlin hours from 01:00 to 02:30 reach to the second 02:30 on the day the clock goes back, with slots off duty after the first. Or, on that day, they begin after the change with no mark of the grid between (`timeutil.go`, `AlignDown`): then a slot begins before the hours. `ClockKeepsHours` excepts both; it is a little wider than needed, since half of these hours are read well on one side of Greenwich.
- On a day of 25 hours the listing may not see an override that the check at booking time reads, and a buffer longer than a day may hide a booking from the listing; what is listed is then refused; `OfferHolds` excepts both.
- Buffers are not checked against local bookings when booking, nor at the edges of the range.

*Requests*
- The check of the host's calendar promises to refuse what cannot be read (`pipeline.go:590`). Google without the calendar in its answer (`google.go:186`), Graph without a schedule or with times that cannot be parsed (`msgraph.go:162`), and Nextcloud with a body that breaks off (`nextcloud.go:91`) or a line in another form (`nextcloud.go:267`) count as free time instead.
- Microsoft's pages shift when an event is removed while they are read; one behind it is passed over (`microsoft.go:213`).
- Classes and pools are not checked against external calendars at all, which the comment at `pipeline.go:595` says.
- `intake.go:61` has the host's settings refuse a broken schema; only a booking parses it (`pipeline.go:159`), so a broken one turns every booking away. A number given as "NaN" passes any minimum and maximum (`intake.go:208`).

*Reminders and erasure*
- `KNOWN_LIMITATIONS.md:48` expects a restart to send reminders again. Runs begin on the five-minute grid only, so a restart misses reminders and repeats none (`RemindedOnce`); a run that begins minutes late may repeat.
- A booking cancelled or moved between a run's query and its mail is reminded all the same: the status is not looked at again (`cron.go:63`).
- A reason given for a cancellation after `delete-data` read the row is left (`ErasedForGood` excepts it), and a second `delete-data` does not find the row, since its address is gone (`dsgvo.go:137`).
- Erasure leaves payloads of deliveries, the address in its own audit row (`dsgvo.go:163`) and the events in external calendars; `PRIVACY.md:41` promises logs of notifications in the export, which are not in it.

*Limits, payments, deliveries*
- Collecting buckets of an hourly limit gives up to half of their burst back (`ratelimit.go:103`, `CONFIGURATION.md:38`); a handler that reads the clock early, locks late and refuses moves a bucket's time back (`ratelimit.go:73`). `RateKept` bounds both.
- The same event delivered twice at the same moment is processed twice (`inbound.go:61`, `stripe.md:38`).
- A checkout session outlives its booking (`stripe.go:77` against `cron.go:88`): it can be paid after the slot is gone.
- PayPal orders are never captured by the program (`paypal.go:211`, `paypal.md`), so an approved order waits for the operator, and its capture's event names neither the booking nor the order.
- A subscriber that cannot be reached is never given up (`outbound.go:107`, `webhooks.md:77`); tries are counted for requests that were not sent (`outbound.go:105`).

*Integrations and tokens*
- A lookup that runs while the active calendar is switched finds none, and without a calendar a slot counts as free (`registry.go:169`).
- Connecting can switch on nothing from a stale read (`host.go:809`); the command line leaves two calendars active (`cli/integrations.go:114`).
- A token bound to a host books pool types for other hosts (`svctoken.go:9`) and does not see those bookings in its team page; the page's allowlist uses an operator the filter language lacks (`host.go:94`).

## 7. Limits

**Assumed.** Transactions are serial; a `Save` of an existing record writes changed
columns only and nothing for a removed one; owner and provider are unique in
`integrations`; the host's server answers a page of busy times, or all of them, at one moment; event types and hosts' hours do not change during a run; delivery runs
do not overlap; database calls do not fail in the payment and outbound modules
(in `BookingPipeline` provider calls and mails do). No clock skips midnight: from there
`AddDate` would walk the days by their last hour (`slot.go:137`).

**Abstracted.** Times are small integers; columns, mail and audit text, signatures,
encryption and token signatures are left out or are identities of distinct numbers;
rate tokens are exact where the code has floats; Stripe renewals (`invoice.paid`) are
left out since they concern no booking's slot.

**Not modelled.** The wire formats of adapters, sign-in and time zones of their
answers; standalone meeting providers and captcha (one call each, which succeeds or
fails, with nothing depending on it later); text and delivery of mails; the export (a
read); encryption (library calls); configuration, health, translations, pages, and the
embed package (pure, tested by examples). Editing of a host's own settings in
`api/host.go` is single saves of rows no other actor writes; the models hold them fixed.

## 8. Plan

Written in this order: `BookingStatus`, `BookingStore` with `HostCalendar`,
`BookingPipeline`, `SlotEngine`, `SlotOffer`, `RateLimiter`, `PaymentWebhooks`,
`OutboundWebhooks`, `CalendarIntegrations`, `ServiceTokens`, each with its run, and proofs
of the store, the limiter and the integrations; then group sessions, fixed links and
invitations in the pipeline, `Reminders` with erasure, `BusyTime`, `Intake`, and the proofs
of the refinement, reminders, erasure, deliveries, tokens, payments and lookups; then
`SlotSearch` and `IntakeForm`, taken out of the runs' modules so that they can be proved
about, and the proofs of the pipeline, the slots, the listing, the calendar check and the forms.

Next, models:
1. Two attendees of a session at work at the same time, with the properties that survive.
2. Payments with the store's conflict queries and classes in one table.
3. Standalone meeting providers, as a second call of the confirm tail.

Next, proofs:
1. `OfferHolds` and `NothingHidden` for hosts whose clock changes, on days it does not.
2. The statuses of `BookingPipeline` as a refinement of the transitions of `state.go`, with
   the abandoned booking that a late payment confirms as the one step beside them.
3. `SlotsComplete` on days of a clock change, from `ClockKeepsHours`.

