# HBT in TLA+

HBT is a platform for highway-bus operators: seats, bookings, payments,
tickets, boarding, trips, cargo and their offline use. Its rules live in a
Django backend on PostgreSQL (`src/backend/apps`); a business app and a passenger app
(`src/flutter`) are clients of its API. This directory holds TLA+
models of that code, the TLC runs that check them on small instances, and
theorems about them that TLAPS proves for every value of their constants.

To check a run: `tlc -config <cfg> <module>`; to check the proofs of a module:
`tlapm <module>.tla`. `PROJECT.json` lists the runs, a plausible bug for each
property (an operator marked "Mutant" in the module, used by no action) that the run
detects, the lines each definition stands for, the hazards, and the theorems.

## 1. Inventory

Paths are relative to `src/backend/apps` unless they start with `flutter`.

| Component | State it keeps | Operations | Interacts with |
|---|---|---|---|
| Seat locks (`bookings/seat_lock_services.py`) | one row per idempotency key: HELD, RELEASED, EXPIRED, CONSUMED, `expires_at`; a partial unique index admits one HELD lock per seat | acquire, extend, release, sweep | reservations (read), bookings (consume) |
| Bookings and reservations (`bookings/services.py`) | booking status and deadline, a reservation row per seat and segment | create, confirm, cancel, expire, corporate approve/reject | trip row (lock), payments, tickets, expiry loop |
| Tickets (`ticketing`) | ticket status; one active ticket per booking passenger (unique index) | issue, reissue, the gate's validate view | bookings, payments, boarding |
| Payments and refunds (`payments/services.py`) | payment records, intents, webhook events, refund requests | create, decide, initiate, webhook, reconcile, request/decide/pay/complete refund | booking confirmation, ticket issue and cancellation, cargo, invoices |
| Boarding (`boarding`) | boarding record per ticket and traveller | validate, board | tickets, trip status |
| Trips and dispatch (`scheduling`) | trip status, planned times, vehicle, driver, conductor, last stop | generate, create, edit, assign, transition, record stop | fleet and workforce status, sales |
| Closing and settlement (`operations`) | closing row, settlement, print jobs | close trip, settle cash, print | boarding, cargo, vehicle and driver |
| Offline synchronisation (`offline`) | devices, snapshots, operations by client id, change feed | enrol, revoke, snapshot, push, pull | calls the services above for each operation |
| Outbox of the business app (`flutter/hbt_business_app/lib/infrastructure/offline`) | queue of operations with an upload status, pull cursor | enqueue, push, pull, sign-out | offline synchronisation |
| Cargo (`cargo`) | shipments, custody events, claims | accept, assign to trip, custody transitions, allocations | trips, payments |
| Corporate booking (`bookings`, `payments`) | approvals, invoices | approve, reject, issue invoice, pay | bookings |
| Fares (`fares`) | fare versions, quotes | publish, quote, lock a quote | bookings, cargo |
| Notifications (`notifications`) | notifications, delivery attempts, pending work | notify, dispatch, retry | every service |
| Subscriptions (`subscriptions`) | subscription, invoices, payments, licences | trial, invoice, verify, deadline loop | tenancy |
| Tenancy, identity (`tenancy`, `identity`) | organizations, memberships, roles, tokens | administration, login | authorize every call |
| Master data (`network`, `locations`, `fleet`, `workforce`, `reference_data`, `passengers`) | routes, places, vehicles, layouts, staff, travellers | create, update | read by all |
| Feedback, branding, media, audit, core | content, audit rows | create, read | none that decides |
| Deployment (`src/devops`) | containers, worker loops | `scheduler` runs subscription deadlines, booking expiries and payment reconciliation, then sleeps 300 s, for ever | the services it runs |

**What is hard.** Requests run concurrently in several gunicorn workers, each
service function in a transaction at PostgreSQL's READ COMMITTED. What a
function decides is protected only by the rows it locks with
`select_for_update` and by unique indexes; much of the correctness hangs on *which*
row that is. Views often read a row before the transaction and pass it
on; `TripDetailView` (`scheduling/views.py:137`) reads a trip without a lock and saves all
its columns, so it can undo what services did in between. The worker loop, provider webhooks
and offline devices act late and again.

**What makes the core correct.**
- *Seats*: no two live bookings overlap on a seat; at most one holder of a seat;
  holds last their TTL and end for good; a booking and its reservations agree;
  overdue reservations give their seats back; nothing is sold while the trip is past READY.
- *Payments*: accepted money is the money its booking was confirmed with;
  refunds stay within the payment; of a payment shown as refunded nothing is left to refund.
- *Tickets and boarding*: one active ticket per traveller, boarding once, a closing
  whose boarded count stays true, a replaced ticket that stays out.
- *Trips*: no resource on two overlapping trips; no change of vehicle or driver after
  boarding began; what is shown in service is on the road. An edit of a trip
  (`TripDetailView`) breaks all three, and the properties say that nothing else does, but for
  two assignments at once.
- *Cargo*: a trip takes what its vehicle can carry and a shipment what it costs; nothing is
  under way on a closed trip; the cash of a shipment is settled once.
- *Offline*: an operation takes effect at most once; what the device is told is true
  and final; it is told eventually. Downloads skip no change and never put an older row
  over a newer one.
- *Subscriptions*: no time is billed twice; paid time is served; who has lapsed is
  suspended.
- *Push*: what was sent is not sent again by the dispatcher; what is queued is tried.

## 2. Modules and how they correspond to the code

A service function that locks every row it decides on is one step. One that
decides on rows it has not locked is split into a read and a write, with `tx`
(or `req`) holding what the worker has read, and a transaction's writes
happen at the step that commits them. A dying worker loses its transaction
(`Crash`, `CutOff`). Permissions, numbering, audit rows and notifications are left
out: they take no part in these decisions.

- **SeatInventory** is the abstract specification of seat sales: a cell is a seat
  and a leg between two consecutive stops; a sale takes free cells in one step,
  and a booking that ends gives all of its cells back in one step.
- **SeatBooking** is one trip's seat locks, bookings and reservations.
  `lock` is the lock table, keyed by seat and user, because both apps and the
  server derive the idempotency key from trip, seat and user; `booking` and `resv`
  are the booking and reservation tables; `tripRow` is the row lock of the trip,
  which `create_booking` and `transition_trip` take and `acquire_seat_lock` does not
  (its insert waits for it, because of the foreign key). `ReopenSales` is a save of
  `TripDetailView` that puts back the PLANNED or READY it read before the boarding. `create_booking` is
  `BookingStart`, `BookingCheck` or `BookingReject`, `BookingCommit`; acquire is
  `SelectSeat` and one of the `Acquire...` actions; `extend` and `release` write
  through the row that the view read (`ReadLock`). `issue_ticket` on its own request
  does not lock the booking: `IssueRead`, `IssueCommit`. Confirm, cancel and
  expire lock the booking row and are one step each. `Sold` maps the tables to
  the cells of SeatInventory.
- **BookingPayment** is the payments of one booking: recording, decision, provider
  intent, webhook, reconciliation and refunds. `decide_payment` locks the payment and
  the booking. `decide_refund` and `complete_refund` lock the refund only, so each is
  a read and a write. A provider's event has an id, and an id is handled once; events of
  several ids may say the same of one payment (`Webhook`). A sum of amounts (`Total`) is the
  number of their units. `Allocated` is what the code's balance subtracts: refunds that are
  approved, paid or completed. RECORDED and SUBMITTED are one status, `awaiting`. Boarding
  and the deadline of the booking appear as what they allow.
- **BookingAccount** is the abstract specification of that money: a booking is bought with
  one payment while it is open, money is promised back for that payment only and never more
  than was paid, no promise is taken back, and a booking that ended is not bought. When
  the money is paid out is not its matter.
  `Stage` and `Allocated` map BookingPayment to it.
- **TicketBoarding** is one traveller's tickets from issue to boarding and the
  closing of the trip. The gate's validate view runs in no transaction: `ViewRead`,
  `ViewWrite`. `closing` holds the stored TripClosing row. `EditTrip` is a save of
  `TripDetailView`: it puts back any status the trip has had (`past`) but CLOSED. Refunds have three states
  here; BookingPayment has the detail.
- **TripResources** is several trips with their planned times (`window`), vehicles and
  drivers. Each *service* locks its own trip's row (`RowFree`); an assignment reads the other
  trips, which it does not lock, so it is a read and a write. `TripDetailView` is the way
  to change a trip without a service: `EditRead` is its unlocked read and the new times
  it was sent, which no query compares with those of other trips; `EditSave` waits for a service
  that has locked the row and then writes every column, status, vehicle, driver and last stop
  as they were read. `edited` is a history variable: the trips such a save gave
  other times or another crew, when they had a crew or got one; `left` is another:
  the vehicles and drivers that a save took off a trip on the road. `closings` are the
  trips that have a TripClosing row, of which a trip has one; a trip that was
  closed and put back can therefore not be closed again. A conductor is assigned as a driver
  is, and is left out. Statuses that nothing sets (CANCELLED, DELAYED and others) are left
  out.
- **TripRoster** is the abstract specification of who runs which trip: in one step a trip
  that is not fixed gets a vehicle or driver that no trip of overlapping times has; a trip with
  both may be fixed, and keeps them. An edit makes a trip with a crew *loose*, and nothing
  is promised of loose trips; it may let a fixed trip go, with the crew it has; a trip nobody
  runs may be planned anew. `Fixed`, the trips that are no longer assignable, and `edited` map
  TripResources to it.
- **OfflineSync** is the upload half of offline synchronisation: enrolment, revocation,
  snapshots, and `SyncPushView` with `apply_sync_operation` per operation: look-up,
  insert under the unique index, handler, commit. What the handler does to the other
  components is one effect. The device's behaviour is the one that
  `src/docs/implementation/07-notification-offline-sync.md` requires (keep until answered,
  send again, oldest first), since the app's own queue is unfinished (section 6).
- **OperationLedger** is the abstract specification of that half: an id is decided once, the
  effect is part of the decision, and a device is told decisions and nothing else. `Decided`
  maps the rows of OfflineSync to it.
- **CargoCustody** is shipments, the trips that carry them and the cash paid for them.
  The request to assign reads the trip, with its vehicle, before anything is locked
  (`AssignOpen`); `assign_trip` then locks the shipment, reads the load of the trip and
  compares (`AssignRead`, `AssignWrite`). `transition_shipment` locks the shipment (`Move`), and
  for the step to IN_TRANSIT reads the trip too (`DepartRead`, `DepartWrite`);
  `decide_payment` locks the payment and reads the total paid (`ConfirmRead`,
  `ConfirmWrite`); `close_trip` locks the trip and reads its cargo (`CloseRead`,
  `CloseWrite`). `room` is what the trip's vehicle takes: `AssignVehicle` changes it
  without a look at the cargo, and so does a save of `TripDetailView` (`EditRead`, `EditSave`),
  which also puts back a trip's status. The table TRANSITIONS is `Following`, with the step from
  ACCEPTED to ASSIGNED that leaves a shipment without a trip. Each shipment weighs one unit and
  each payment is one unit, so a sum is the cardinality of a set; a vehicle whose limit is
  empty or zero takes everything, which is a large `room`. A shipment whose weight is
  empty is not compared with the limit and is left out. `overlapped` is a history variable:
  the trips and shipments whose limit two requests checked before either had written; `shrunk`
  is another: the trips that got less room while they had cargo or were being given some.
- **SubscriptionBilling** is one company's subscription and its invoices. The services lock
  what they change and are one step each. `process_subscription_deadlines` locks
  nothing and commits row by row: it reads the subscription (`PassRead`), saves every column
  of what it read (`PassSave`), and marks invoices overdue with one UPDATE
  (`PassMarksOverdue`). `overwritten` is a history variable: a pass has saved over a row that
  had changed since it read it.
- **ChangeFeed** is the download half of synchronisation. A service locks the row it changes
  (`LockRow`), `record_sync_change` draws the next sequence number
  (`Insert`), and others see the change at the end of the transaction (`Commit`).
  `Page` and `NextCursor` are `SyncPullView.get`. `late` is a history variable: the
  changes committed when the cursor had passed their number. The device is external,
  and behaves as `src/docs/implementation/07-notification-offline-sync.md` says.
- **Replica** is the abstract specification of that half, without numbers, pages or cursors:
  the versions of a row are committed one after the other, and what the device has of a row
  moves to later committed versions only.
- **PushDelivery** is push notifications: creation, `dispatch_push_batch`, which reads
  the ids of a batch without a lock (`PickBatch`), `dispatch_one_push`, which locks one
  notification and calls the provider in its transaction (`Send`, `CommitSend`), and
  `retry_notification`, which locks nothing (`RetryRead`, `RetryWrite`). `due` is the order
  of `available_at` among what the dispatcher would pick. Its names differ from those of
  ChangeFeed, so that one module can hold the proofs about both.
- The **...Proofs** modules hold the theorems of the module they are named after (those of
  an abstract specification are with the module that implements it, and those of PushDelivery
  in ChangeFeedProofs: both are about what reaches a device); the **MC...** modules hold
  instances for TLC.

The modules share their seams by assumption: SeatBooking treats a payment decision as
the step that confirms a booking and issues its ticket (in BookingPayment this is
`ApprovePayment`), TicketBoarding treats cancellation of the booking, whose seats
SeatBooking gives back, as the loss of `entitled`, and CargoCustody takes the trip's own
way from TripResources. The plan composes more of them.

## 3. Runs

| Run | Instance | What it shows |
|---|---|---|
| `seat_holds` | 2 users who both select the 1 seat, 1 booking request, 2 workers, TTL 2, clock 0..2, deadline 2, crashes | TypeOK; one holder of a seat; a hold that ended stays ended although `extend` and `release` write from an old read; no hold is taken before its TTL except by release, by its own booking, or by an extend that another overtook; a dated reservation is settled; every transaction ends |
| `seat_sales` | 2 seats, 2 booking requests, 3 stops (overlapping and adjoining segments), 2 workers, deadline 1 | no double booking; seats follow their booking; nothing sold while the trip is past READY, though saves of the trip put its status back; SeatBooking implements SeatInventory |
| `payments` | 2 payments of price 2, 2 refunds, 1 worker, 3 event ids of the provider, late, repeated under another id and in any order | kept money is the money the booking was confirmed with; refunds stay within the payment; of a REFUNDED payment nothing is left to refund; BookingPayment implements BookingAccount |
| `pay_overrefund` (violation) | 1 payment, 2 refunds, 2 workers | two approvals at once return more than was paid |
| `board_gate` | 3 tickets of a traveller, 2 gate requests, one trip up to its closing and beyond, edits of the trip | one active ticket; boards once; the boarded count is true while the trip is closed; a replaced ticket stays out |
| `trips_crews` | 3 trips, each planned for the same time or a later one, 2 vehicles, 1 driver, 1 stop, 1 assigning worker, 1 edit | of trips that no edit gave other times or crew, no two share a resource; IN_SERVICE means on the road, unless an edit took the vehicle off; the crew is fixed from boarding on, but for an edit; TripResources implements TripRoster |
| `trips_double` (violation) | 2 trips at the same time, 1 vehicle, 2 workers, no edits | two assignments at once share a vehicle |
| `device_sync` | 3 operations, 2 of them under one id, 1 that raises, 2 workers, 2 cut-offs | applied once; answers are true and agree; OfflineSync implements OperationLedger; each operation is answered |
| `cargo_custody` | 2 shipments of one trip, or 1 shipment with 2 trips or with 2 payments (`Sizes`); 2 workers, 1 edit; a vehicle takes one shipment or none; charge 1 | limits of trips and shipments hold unless two checks overlapped or the trip got less room; nothing is in transit, damaged or lost on a closed trip; cash is settled once |
| `deadlines` | 3 invoices, period 2, grace 1, due in 1, clock 0..6, passes that die | no time is billed twice and paid time is served, unless a pass saved over a newer row; a lapsed company is suspended |
| `feed` | 2 rows, 2 workers, 4 sequence numbers, pages of 2, lost answers | copies never go back; the cursor skips only what was committed behind it; everything else arrives; ChangeFeed implements Replica |
| `push` | 2 notifications, 2 workers, batches of 1, 2 attempts, crashes, retries, tokens that come and go | PushTypeOK; a sent notification stays sent unless a retry was decided before; a queued one is tried, or is behind a full batch of exhausted ones |

The type invariants of the other modules are proved (section 4) and are in no run.

**Why the bounds are enough.** Every safety property concerns at most two bookings,
holders, refunds, tickets, shipments, invoices, rows or requests, and the races need two
workers: one in the middle of a transaction and one between its read and its write. Three
stops give segments that overlap, contain one another and adjoin; with two there would be
one segment. A clock of 2 with a TTL of 2 lets a hold lapse, be extended and be extended by
an overtaken request. `seat_sales` has no selectors: holds only restrict sales, and
`seat_holds` has both. Price 2 allows partial and full refunds; three events let the
provider answer both payments and change its mind on one. Three tickets allow a ticket, its
replacement and one after that. In `device_sync`, each cut-off hits any step of a request,
and two let both a commit and the retry after it lose their response. With room for one shipment
and a charge of one, the second shipment and the second payment are the ones to refuse.
`Sizes` keeps `cargo_custody` to what one property needs at a time: two shipments that share a
trip for its limit, two payments of one shipment for its charge, two trips of one shipment
for the closings and settlements (2.3 million states); two shipments, two trips and one payment
together were checked once as well, without error. `trips_crews` has one edit, which is read before and saved
after anything else, and one driver, who goes through the same steps as a vehicle. Two trips
with two edits, and three trips with two drivers, were checked once as well, without error.
Three invoices over a clock of three periods let one be paid, one be refused and one become
overdue while a pass is under way. Four numbers with pages of two make a device ask
twice while two workers commit out of order. Two notifications with a batch of one are the
smallest queue in which one can be kept behind another. What section 4 proves holds
without bounds.

**History variables.** The code breaks some of what these components promise: two refunds
decided at once, two assignments of a trip's resources at once, two checks of a cargo limit at
once, a smaller vehicle for a trip that has cargo, an edit of a trip with a crew, and a
change committed behind the cursor or under a pass that has read the old row. The first two
have violation runs. For the others the property names the cause through a history variable
(`overlapped`, `shrunk`, `edited`, `left`, `overwritten`, `late`) and says that
nothing else breaks the promise. No guard reads such a variable, and a
mutant of each property breaks it without touching the variable.

**One decision at a time.** `payments` and `trips_crews` have one worker that decides
refunds and one that assigns. With two, `RefundsWithinPayment` and
`NoSharedResource` fail, as `pay_overrefund` and `trips_double` show; with one they hold, and
so do the two refinements: `RefundsWithinPayment` beside late events, completions and endings,
and `NoSharedResource` of the trips that no edit gave other times or another crew. One
dispatcher *can* make two trips share a vehicle, by an edit of planned times: the property
excepts those trips by name (`edited`), and section 5 describes it. The
theorems give a condition under which they hold with any number of workers
(`DecidedAlone`, `AssignedApart`), and show that one worker meets it for every value of the
other constants.

**Deadlock.** Most models end where the system's story ends (trip closed, all refunds
settled, all notifications sent), so their cfgs switch the check off. `device_sync`,
`deadlines` and `feed` never stop and keep it on.

**Fairness.**
- SeatBooking: the clock advances; `process_booking_expiries` runs for ever in the
  `scheduler` container (`src/devops/compose.production.yml`), so weak fairness of
  `ExpireBooking`; a transaction that can go on again and again does, for PostgreSQL queues the waiters
  of a row and gunicorn runs a request to its end, so strong fairness of
  `FinishStep`. No fairness for users, for crashes, for the start of boarding or for
  `sweep_expired_seat_locks`, which nothing schedules.
- OfflineSync: a device that can ask for a snapshot does, and one that can send again
  and again does, even if snapshots run out between (strong fairness of
  `Push`, some worker takes it); a worker goes on with its request. Cut-offs are
  finite. Users are not bound to queue anything, and the property is about a device
  that stays enrolled from some point on.
- SubscriptionBilling: the clock advances; the same container starts a pass every 300
  seconds, so weak fairness of `PassRead`. A pass may die at any step, any number of times, but
  not every pass does: strong fairness of `PassSave` and `PassMarksOverdue`.
- ChangeFeed: the device goes on asking (weak fairness of `Pull`), and not every answer is
  lost (strong fairness of `Store`). Writers are bound to nothing.
- PushDelivery: time passes (weak fairness of `BecomeDue`); the `push-worker` container runs
  `dispatch_push --limit 100` and sleeps five seconds, for ever (weak fairness of
  `PickBatch`); not every process that tries a notification dies at it (strong fairness of
  `Send` and `CommitSend`). Nothing is assumed of the staff or of the provider's answers.

## 4. Proofs

All theorems hold for any values of the constants that satisfy the named
assumptions next to the CONSTANTS, which the runs evaluate. Each module has an inductive
invariant (`IInv`, in SeatBookingProofs `SafeInv`), a lemma for each action, and
theorems that follow from it.

- **SeatBookingProofs.** `NeverSoldTwice`: in SeatInventory no cell has two owners.
  `TypeCorrect`. `NeverDoubleBooked` is not inductive by itself:
  when `BookingCommit` inserts, nothing in its guard says that the seats are free. `SafeInv`
  adds that a transaction about to insert holds the trip row (`RowHeld`), and
  that its conflict query still stands (`CheckStands`): no reservation that overlaps
  its segment is live, and its request id is unused. Only another `BookingCommit` could
  break that, and it would have to hold the trip row too. `RowBeforeSeats` says that a
  reservation has a booking. From `SafeInv` follow `SeatsAlwaysFollow` and `Implements`, the refinement of
  SeatInventory: `BookingCommit` is `Sell`, cancel and expire are `Return`, confirm and
  everything else stutter. The step from segments to cells is `OverlapIsCommonLeg`:
  two segments overlap exactly when they share a leg. `SeatsHaveOneHolder` states the
  partial unique index on held locks over users (`HolderIsOne`) before it
  counts them, since adding a user to a set without two members is a fact about equality.
  `NothingSoldAfterClose`, `EndedHoldsStayEnded` and `HoldsLastTheirTTL` are about steps. What they
  need of the state is that a transaction about to insert bookings still finds the trip
  on sale, because it holds the trip row (`SaleIsOpen`); that it judges holds by a time in the
  past (`ReadInThePast`); and, under `LockFates`, which steps may end a hold at all.
- **BookingPaymentProofs.** `TypeCorrect`, `MoneyAlwaysBuys`. That kept money is the money of
  the booking needs that a refund exists only for a payment that was confirmed (`RefundsAreBought`),
  also while a worker decides on it (`WorkIsOnRefunds`).
  `RefundsStayWithinPayment` and `RefundedLeavesNothing` hold for any number of workers under the
  condition `[]DecidedAlone`: no two refunds *of one payment* are being approved at once. Refunds
  of other payments, rejections, payouts, completions, provider events and crashes
  may come between. The code does not see to the condition, and `pay_overrefund` is
  what happens without it. The argument: a refund is locked by one worker and keeps the status
  that was read (`LockInv`); only an approval adds to a payment's sum
  (`OnlyApprovalsAllocate`), and it adds its own amount (`ApproveAdds`); so what was left when an approval
  began is still left when it writes (`RoomLeft`). `Refunds` must be finite for the sum to
  be a number. Under the same condition `FollowsAccount` is the refinement of BookingAccount:
  `ApprovePayment` is `Buy`, the write of an approval `Promise`, cancellation and expiry `End`,
  and every other step stutters; a rejection too, since it meets refunds only that allocate
  nothing (`OnlyApprovalsAllocate`). `AccountIsKept`: the account alone implies that only the buyer is
  refunded, and within the price. `OneManagerKeepsAccount`: one worker meets the condition. None of
  these says that the money of a REFUNDED payment has been paid out; it need not have been
  (section 5).
- **TicketBoardingProofs.** `TypeCorrect`, `TicketsAreUnique`, `TravellersBoardOnce`,
  `ClosingsStayTrue`, `ReplacedTicketsStayOut`. `ActiveIsOne` and `RecordIsOne` are the two
  unique indexes, on active tickets and on boarding records, stated over pairs; the counts
  follow. The gate's unlocked write (`ViewWrite`) may revive any ticket, and only the
  index keeps a second one from being active. Validation and boarding ask for a trip
  that still admits travellers, and an edit never leads to a closed trip, so while the trip
  is closed its boarded count is true.
- **TripResourcesProofs.** `TypeCorrect`, `CrewStays`, `ServiceIsOnRoad`. The strengthening
  is that a trip stays assignable while an assignment to it is under way, because every
  trip step and the save of an edit wait for its row (`LockedStaysAssignable`), and that only a
  planned trip lacks a vehicle or driver (`Crewed`), also among the rows that edits have read
  (`FormsCrewed`): a save puts back a row that once was one. `SaveWrites` is what a save
  may do to a trip.
  `ApartKeepsApart`: of the trips that no edit changed, no two that overlap share a resource as
  long as no two workers give one vehicle or driver to overlapping trips at once
  (`[]AssignedApart`); what a worker has checked then still holds of those trips when it
  writes (`NoClashAhead`), whatever other assignments, edits, boardings and
  crashes come between. `trips_double` shows that the condition is needed.
  `FollowsRoster` is the refinement of TripRoster under that condition: the *write* of an
  assignment is `GiveVehicle` or `GiveDriver`, whose guards are the checks made at its read; the
  start of boarding is `Fix`; a save is `Edit`, `Reschedule`, `Fix`, `LetGo` or nothing, by what it
  puts back; everything else stutters, the closing that frees a vehicle
  included. `RosterIsKept`: the roster alone implies `NoSharedResource`, and that a fixed trip keeps
  what it has until an edit changes it.
  `OneDispatcherKeepsApart`: one worker meets the condition, whatever edits there are; what it
  then has is `NoSharedResource` with its exception, and no more.
- **OfflineSyncProofs.** `TypeCorrect`, `EachIdAppliesOnce`, `AnswersAreTrue`,
  `AnswersAgree`. `IInv` says that effects follow rows (an operation took effect once if
  the row of its id is its own and applied, else never), that a transaction that has
  inserted a row is alone with its id and the row is not yet visible, and that
  every answer, given or on its way, is the one its row implies. Rows are never changed
  once committed, so answers never age. `FollowsLedger` is the refinement of OperationLedger:
  `Handle` is `Decide`, `Respond` is `Tell`, and everything else stutters, repeated and cut-off requests
  included. It needs that a row is found under the id of its own operation (`RowsMatch`).
  `LedgerIsKept`: the ledger alone implies `AppliedOnce`, `ToldTheTruth` and
  `OneAnswer`.
- **ChangeFeedProofs.** `TypeCorrect`, `NothingIsSkipped`, `CopiesOnlyAdvance`. A row's
  changes are numbered in the order of its versions (`LogOrdered`), since its lock is held from before
  the draw to the commit (`RowsLocked`, `Pending`); hence the newest change of a page
  is newer than the device's copy, which is itself a change at or below the cursor
  (`CopyKnown`), and an answer on its way has each change between the cursor and its
  next one that was not committed late (`AnswerComplete`). `InOrderSkipsNothing` and
  `SerialDrawsSkipNothing` do without the exception: nothing at all is skipped as long as no
  transaction overtakes another between draw and commit, in particular if no two that have drawn
  are open at once. They rest on the cursor being the number of a committed change
  (`PassedIsCommitted`). `FollowsReplica` is the refinement of Replica, without any condition: the
  end of a transaction is `Publish`, the store of an answer is `Refresh`; `ReplicaIsKept` is what
  Replica alone implies. For PushDelivery, `PushTypeCorrect`
  and `SentPushesStaySent`: what a worker sends is in the queue (`SendsWhatIsDue`) and nobody
  else sends it (`OneSender`), since the lock of the notification keeps out the retry and the other
  workers; so the commit that takes it out of the queue leaves nobody with a second
  send. The queue has no repetitions, which is why taking a notification out by its position
  takes it out altogether (`RemovedAt`).
- **SubscriptionBillingProofs.** `TypeCorrect`, `NoTimeBilledTwice`, `PaymentsCount`. There is
  one open invoice at most (`OneOpen`) and it begins where the row's period ends, so paying
  it moves the end of the period over its time only; what a pass has read is what the row
  was (`PassIsPast`), so if the row has not changed since, saving it changes the status alone.
  `UndisturbedPassHonoursBills` says it without the history variable: as long as nothing
  changes the row between the read and the save of a pass (`PassUndisturbed`), every period is
  billed once and served, and nobody is cut off early.
- **CargoCustodyProofs.** `TypeCorrect`, `LimitsAreKept`, `NothingLeftUnderWay`,
  `SettlementsAreDisjoint`. `LoadFits` and `PaidFits` say that a check
  under way which met no other still has room for its unit, and that a request which read the
  trip earlier has not seen more room than there is: both stay true of a trip unless it
  gets less room in the meantime. `CargoRides` is why the unlocked
  reads of `close_trip` do no harm: a shipment leaves only on a departed trip, and whoever closes
  a trip has found it arrived with its cargo resolved and holds its row, for which
  a save of an edit waits too. `CashTraced`: counted cash is confirmed and is for a shipment on the
  settled trip; a shipment never changes its trip and a confirmed payment not its shipment.
  `ApartKeepsLimits` does without the history variables: as long as no two checks of one limit
  overlap (`[]CheckedApart`) and no trip that has cargo, or is being given some, gets a vehicle
  with less room (`[][RoomStays]_vars`), every trip and shipment keeps its limit.

Model-checked only: liveness (`DeadlineIsEnforced`, `TransactionsEnd`,
`EveryItemIsAnswered`, `LapsedIsSuspended`, `EachChangeArrives`, `QueuedIsTried`), which needs
fairness and is beyond the prover. Every safety property and every refinement
that a run checks is a theorem, those of refunds and shared resources under the conditions
above. The conditions (`DecidedAlone`, `AssignedApart`, `CheckedApart`, `RoomStays`, `NoOvertaking`,
`DrawnAlone`, `PassUndisturbed`) are statements about what happens that the code does not enforce;
section 5 says what happens without them.

## 5. Where code and its own words differ

With a run:

1. **Two approved refunds exceed the payment** (`pay_overrefund`). The balance is read
   under the lock of the refund, not of the payment.
2. **A vehicle on two overlapping trips** (`trips_double`). The conflict query reads trips
   the transaction has not locked.

Seen while modelling, reachable in the models, without a run of their own:

- *Seat locks and the trip row.* `acquire_seat_lock` sweeps lock rows and then waits for the trip
  row; `create_booking` does it the other way round. PostgreSQL ends the deadlock by aborting
  one of them. The model has no row locks on lock rows, so the deadlock appears there as
  `Crash` only, and `TransactionsEnd` is not about it.
- *A lapsed hold blocks its user.* The idempotency key is unique and the same for each hold
  of a seat by a user, so a second hold of that seat fails validation.
- *A refunded ticket boards.* Refund completion leaves the boarding record, and the gate's
  view writes over the cancelled ticket.
- *An arrived trip that cannot be closed.* A traveller validated but not boarded blocks
  `close_trip`, and nothing resolves the record. So does cargo that was cancelled,
  returned, damaged or lost: `close_trip` accepts ARRIVED, READY and HANDED_OVER only.
- *Edits of a trip.* `TripDetailView` accepts new planned times for a trip that has a vehicle and
  a driver and does not look for conflicts, so one dispatcher alone can make two
  trips that share a vehicle overlap. It saves every column of a row it has not locked: a
  stale save puts back an old vehicle or driver after boarding began, or an old status.
  Then a boarding trip sells again (SeatBooking: `ReopenSales`), a closed one boards again
  (TicketBoarding: `EditTrip`) though its closing is stored, and a vehicle stays IN_SERVICE
  with no trip on the road. A trip put back after its closing cannot be closed again: the
  second TripClosing is refused.
- *An AVAILABLE vehicle on the road.* Closing a trip makes its vehicle and driver AVAILABLE even if
  another trip of theirs has departed. `InServiceMeansOnRoad` is the other direction only.
- *REFUNDED before it is paid out.* `complete_refund` (`payments/services.py:607`) makes a payment
  REFUNDED once nothing is left to refund, and what is left does not count refunds that are
  approved and not yet paid.
- *Cargo limits.* Two assignments to one trip (`cargo/services.py:306`) and two payments of one
  shipment (`payments/services.py:281`) compare with totals that leave out each other. And
  `assign_vehicle` (`scheduling/services.py:112`) gives a trip a smaller vehicle, or one that
  takes no cargo, without a look at the cargo it has.
- *Cargo assigned to no trip.* `transition_shipment` takes ACCEPTED cargo to ASSIGNED by itself.
- *Cargo that stays behind.* `assign_trip` does not ask for the trip's status, so a shipment can be put
  on a trip that has arrived or is closed, and stays ASSIGNED.
- *Unsettled cash.* A payment confirmed after the settlement of its trip is in no
  settlement, and a rejected settlement cannot be replaced.
- *The deadline pass writes old rows.* A payment, suspension or plan change between its read and
  its save is undone. An OVERDUE invoice can never be paid. The period's price is that
  of the current plan although verification switches to the scheduled one.
- *Changes lost behind the cursor.* A change whose number was drawn first may be committed last,
  and a device whose cursor has passed it never downloads it, though
  `src/docs/implementation/07-notification-offline-sync.md` calls the cursor monotonic.
- *Push sent twice.* The provider is called inside the transaction: a crash
  before the commit sends the notification again. A retry decided on an old read
  queues a notification that was sent since.
- *Push starved.* A notification that used up its attempts stays FAILED with its
  `available_at` in the past, so it is picked in every batch and tried beyond five
  attempts; a hundred of them fill the batch, and nothing behind them is sent. `expires_at` is set
  nowhere, so EXPIRED is unreachable.
- *Issue without a lock.* `issue_ticket` reads a booking it has not locked; a cancellation
  in between leaves an active ticket on a cancelled booking (SeatBooking: `IssueRead`,
  `CancelBooking`, `IssueCommit`).
- *Hold on a sold seat.* `acquire_seat_lock` can insert a hold on a seat that a booking took
  after its check. The sale is safe, since `create_booking` checks again under the trip row.
- A reservation created without `expires_at` never expires.
- A late success event reopens a payment that was confirmed; rejecting it then leaves
  its ticket active (`src/docs/workflows/003-payment-workflow.md:201` and
  `src/docs/modules/019-payment.md:244` say otherwise).
- A READY trip given another driver leaves the first one ASSIGNED, so he is eligible
  for no trip.
- An uploaded operation whose handler raises an exception the service does not catch (an amount
  that `Decimal` cannot read) makes each batch that contains it fail; no answer
  of such a batch reaches the device. `EveryItemIsAnswered` therefore excludes it, and
  the model keeps it in the other properties.

Outside the models, in the business app: its pull sends `after=` while the server reads `cursor`
(`sync_manager.dart:124`); it handles "create" and "update" where the server records "created"
and "updated"; it sends its installation id where the server expects the device's key; rows left
UPLOADING when the app dies are not sent again, and sign-out deletes unanswered operations
(`sync_upload_queue.dart`).

## 6. What is not modelled, and the plan

Not modelled in these components: corporate approval and invoices; conductors; schedules
and overdue reminders; receiving accounts, payment evidence and connectors; client event
ids at the gate; device identity of a seat lock; prices, policies, claims and payouts of
cargo; plans, prices and annual cycles of subscriptions; in-app notifications, read
marks and work items; printing; the advance of a settlement's status. A sync batch with
a malformed item is refused as a whole (400) before any of it is looked at; in OfflineSync every
item is well formed. The deadlines of SubscriptionBilling are always set, while their columns
may be null. Vehicles and drivers are taken as registered and AVAILABLE at the start. What an
administrator changes in the Django admin is no step of any model, and neither is a
change of a route's stops after sales: a reservation keeps the stop numbers it was sold with, and
`NoDoubleBooking` speaks of those. `ClosingStaysTrue` covers the boarded count, not the other
figures of a closing.
Tenancy, identity, master data, content, audit and the screens of the apps decide nothing
in these protocols beyond who may call.

The platform is written in Python (backend) and Dart (apps). The only JavaScript in the
repository is third-party code: the browser extensions in a Chrome profile saved with
test evidence under `src/uat-evidence`. It is no part of the platform, and no module
models it, so a share of JavaScript lines says nothing about this development. `map` in
`PROJECT.json` names the Python lines each definition stands for.

Next, in this order (where two questions share a module they share a run):

1. **TripSeats**: SeatBooking with TripResources and seat layouts: a vehicle with
   another layout assigned to a trip whose seats are sold.
2. **CorporateBilling**: approval of a booking, invoice, payment, and a rejection meanwhile.
3. **SyncOutbox**: the business app's queue, once its protocol agrees with the server's.
4. **FareQuote**: a quote locked once by a booking or shipment before it lapses.
5. In CargoCustody the advance and rejection of settlements; in SubscriptionBilling plans,
   prices and annual cycles.

Proofs: what is left is what the prover does not reach, the liveness properties. With the
modules above come their own: that a sold seat exists on the vehicle of its trip (TripSeats), and
that an invoice bills a booking that stands (CorporateBilling).
