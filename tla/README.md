# Verification of the smart-vending system

This directory is the verification project of the smart vending machine: a
three-slot cabinet with a customer kiosk on a Raspberry Pi, a Node/PostgreSQL
backend, PromptPay payments through Opn, staff workflows with local face
recognition, and an ESP32 that drives the locks. It holds TLA+ modules
translated from the source, the TLC configurations that check them on small
instances, and proofs that TLAPS checks for every instance.

`PROJECT.json` is the index: which definition stands for which lines, which run
checks which property, which defect each property would catch ("mutants"),
which hazards of the code they are aimed at, and where the code and its
documents disagree ("findings").

Running it, in this directory:

    tlc -workers 2 -config MCPayment.cfg MCPayment        # and MCPaymentTerminal
    tlc -workers 2 -config MCStorefront.cfg MCStorefront
    tlc -workers 2 -config MCStaff.cfg MCStaff            # and MCStaffEnded, MCStaffReregister
    tlc -workers 2 -config MCPurchase.cfg MCPurchase
    tlc -workers 2 -config MCRestock.cfg MCRestock
    tlc -workers 2 -config MCMonitor.cfg MCMonitor        # and MCMonitorClock
    tlc -workers 2 -config MCAlerts.cfg MCAlerts
    tlc -workers 2 -config MCReports.cfg MCReports
    tlapm Payment_proofs.tla
    tlapm Storefront_proofs.tla
    tlapm StaffKiosk_proofs.tla
    tlapm RestockUnlock_proofs.tla
    tlapm KioskPurchase_proofs.tla
    tlapm HardwareMonitor_proofs.tla
    tlapm AlertDelivery_proofs.tla
    tlapm OwnerReport_proofs.tla


## 1. The system

| Component | State it keeps | Operations | Talks to |
|---|---|---|---|
| Payments (`transaction.service.ts`, `payments/`) | `Transaction` rows, `Slot.status` | create, poll, webhook, cancel, claim of the sale notice | Opn (HTTP), PostgreSQL, LINE |
| Staff sessions (`kiosk-session.service.ts`) | `KioskSession` rows, one ACTIVE per machine | create, current, complete, cancel, bind employee | PostgreSQL; polled by the kiosk |
| Restock commit (`restock.service.ts`) | `RestockLog`, `Slot.status`, its session | commit, claim of the notice | PostgreSQL, LINE |
| Restock unlock grants (`restock-unlock.service.ts`) | none: signed grants of ten seconds | context, grant | reads sessions and open payments; redeemed by the Pi |
| Employee lifecycle (`employee-*.service.ts`) | `Employee` rows | create, (de)activate, register a face, draft delete, offboard | sessions, restock logs, the Pi through the kiosk |
| Slot administration (`admin-slot.service.ts`) | `Slot`, `Product` | configure a slot, list slots | refuses while a payment is open; payments are made for what a slot offers |
| Owner sales reports (`reports/`) | `ReportDelivery` rows | claim, send, mark | LINE; a scheduled job |
| Hardware monitoring (`hardware/`) | machine status, alert rows | heartbeat, offline evaluation, alert delivery | Pi relay, LINE |
| Pi unlock service (`edge/pi_unlock_service.py`) | in memory: outcomes by transaction, used nonces, restock door cycles, face lock and lockout | /unlock, /restock/unlock, /face/* | kiosk page, serial line |
| Serial link (`edge/serial_*.py`) | connection health and back-off | send, read status, recover | ESP32 |
| Pi cloud relay (`edge/pi_cloud_relay.py`) | heartbeat sequence | heartbeat loop, request forwarding | backend |
| Face recognition (`edge/face/`) | template files, scan registry | match, register, remove, cancel | pi_unlock_service |
| Firmware (`vending_esp32.ino`) | relay on/off and since when, debounced door sensors | UNLOCK, STATUS | Pi |
| Customer kiosk (`HomePage.tsx`) | screen; active payment with its fulfilment state in `localStorage` | buy, recover after reload, unlock, poll for staff sessions | backend, Pi |
| Staff and admin screens | screen | the staff workflows | backend, Pi |
| Request security, HTTP plumbing, scripts | none that changes | signatures, routing, SQL | |

What makes it hard, component by component, is the `hazards` list of
`PROJECT.json`, each at the line where it bites. In short:

* **Payments.** The handlers hold a charge retrieved before another handler
  wrote the row. Three kinds of handler (poll, webhook, cancellation) resolve
  one row in any order, creations race for one slot, and a restock refills
  slots in between. *Correct* means: an item is sold once; the slot tells who
  took it; the row says what the provider says; an outcome is final; one notice
  per sale; nothing stays open for ever.
* **Slot administration.** Slots may share a product row, payments point at the
  row for ever, and an administrator may edit at any moment. *Correct* means: an
  offer a customer is looking at stands, an edit changes one slot, and what was
  sold keeps its name.
* **Staff sessions, restock, employees.** Some transactions are serializable,
  others read a session at Read Committed and write it by id later. The facts
  that decide a deletion are on the Pi, and are reported through a page that
  may be gone. *Correct* means: one workflow at a time; an ended session
  authorises nothing; a restock is credited to the face that was recognised;
  offboarding is final; what is deleted was unused.
* **Restock unlock.** A signed grant outlives the facts it was issued on by up
  to ten seconds; nonces and door cycles are lost when the Pi restarts.
  *Correct* means: a grant opens one door once, a door is pulsed again only after
  it was open, and nothing opens once a grant could no longer be had and the
  last one has run out.
* **Purchase and unlock.** A paid customer gets the door opened once although
  the page reloads, the reply is lost, the Pi restarts or the serial line
  drops; *correct* means: never twice, and not never without a trace.
* **Reports and alerts.** Claims go stale, and retry keys run out, while their
  worker is still sending. *Correct* means: the owner receives a report or an
  alert once while its key is good, what is settled stays settled, and
  everything is settled in the end.
* **Hardware monitoring.** Heartbeats are duplicated, reordered and repeated
  after restarts. *Correct* means: an outage is announced once and cleared once, after a silence
  that was watched, and never for a machine that is heard.
* **Firmware, serial link.** A millisecond clock that wraps, one relay at a
  time; *correct* means: a relay is never on longer than its pulse.


## 2. What is modelled

| Module | What it is | Code |
|---|---|---|
| `Sale` | abstract: a shop whose slots hold one item each | what the payment backend promises |
| `Payment` | the payment backend, and what it promises (`KeepsPromise`) | `transaction.service.ts`, the Opn provider, `dispatchAfterClaim`, the slots of `commitRestock` |
| `Storefront` | extends `Payment` with what slots offer, and the administrator who changes it | `admin-slot.service.ts`, `slot.service.ts` |
| `StaffSession` | the backend's staff workflows | kiosk-session, restock, employee-management and employee-lifecycle services |
| `StaffKiosk` | composes it with the kiosk page and the Pi's face service | `HomePage.tsx`, `EmployeeFaceRegistration.tsx`, `/face/*` of `pi_unlock_service.py` |
| `KioskPurchase` | a purchase at the kiosk, down to the Pi; instantiates `Sale` | `HomePage.tsx`, `payment-flow.mjs`, `active-payment-recovery.mjs`, `/unlock` |
| `Cabinet` | the firmware, its relays, its clock and the doors | `vending_esp32.ino` |
| `RestockUnlock` | extends `Cabinet` with the restock screen, the backend's grants and the Pi that redeems them | `RestockMode.tsx`, `restock-unlock-cycle.mjs`, `restock-unlock.service.ts`, `/restock/unlock`, `serial_recovery.py` |
| `HardwareMonitor` | heartbeats and offline evaluation | `pi_cloud_relay.py`, `hardware-monitoring.service.ts` |
| `Notice` | abstract: messages the owner hears once while their key is good, and what becomes of them | what both kinds of delivery promise |
| `AlertDelivery` | delivery of hardware alerts; implements `Notice` | `deliverPendingHardwareAlerts` and its store |
| `SalesReport` | the arithmetic of a report: periods and buckets | `sales-report.ts` |
| `OwnerReport` | extends it with the delivery of a report; implements `Notice` | `owner-report.service.ts` |
| `PaymentInv`, `StorefrontInv`, `StaffInv`, `PurchaseInv`, `RestockInv`, `MonitorInv`, `AlertInv`, `ReportInv` | the inductive invariants | |
| `*_proofs` | the proofs; `Payment_proofs` has the refinement of `Sale` by `Payment` | |
| `MC*` | the instances TLC checks | |

The payment backend is seen twice. `Payment` is the code, and implements
`Sale` (`KeepsPromise`, proved as `Refinement`); `KioskPurchase` uses `Sale` as
its backend and adds the page, the storage and the Pi. So the kiosk is checked
against a backend of a few states, and what it relies on is what the backend
was shown to do. `Notice` is the other abstract specification: what the owner is
promised of a message, implemented by `AlertDelivery` and by `OwnerReport`, which
reach it in different ways. The cabinet is in `RestockUnlock`, where what a door does
matters; a purchase only commands it.

In the modules, an operator `X_word` that precedes a definition `X` and is
marked "Faulty" is `X` with a plausible defect. No definition uses it:
`PROJECT.json` names it, as "mutant", beside the property that finds it.

### 2.1 Payment

*State.* `payment[t]` is a row of `Transaction`, reduced to the columns that
decide something: slot, `paymentStatus`, whether the charge id is saved,
`providerStatus`, `customerCancelledAt`, `saleNotificationAttemptedAt`.
`slotStatus` is `Slot.status`. `charge[t]` is the provider's own record.
`request[r]` is a handler in progress: which one, the await it has reached, and
the report it carries. `settled` and `notices` are history.

*Steps.* Each database call of the store is one step, because each is one
statement or one serializable transaction. Each provider call is a step. Between
two awaits anything may run. `Abort` ends a handler at any await: the process
stops, the call throws, the reply fails validation.

| Code | Actions |
|---|---|
| `createPromptPayPayment` | `CreatePendingPayment`, then `ProviderAccepts`, `ProviderReplyLost` or `ProviderRefuses`, then `SaveProviderPayment` or `MarkProviderCreationFailed` |
| `getPaymentStatus`, webhook | `GetPaymentStatus`, `ReceiveWebhook`, then `RetrievePayment`, `ApplyProviderStatus`, `ClaimSaleNotification`, `SendSaleNotification` |
| `cancelPayment` | `BeginCancel`, then the same calls, then `AbandonPayment` |
| `commitRestock` (slots) | `CommitRestock` |
| provider, customer (external) | `CustomerPays`, `ChargeEnds` |

*Left out.* QR images, expiry dates, response layout, webhook signatures;
names and amounts are in `Storefront`.

*Storefront.* `product[p]` is a row of `Product`, `shelf[s]` is `Slot.productId`,
`order[t]` what the row of a payment keeps of its product. `OpenPayment` is the
creation of a payment with the product it is for, `ConfigureSlot` the
serializable transaction of `configureSlot`: the product is updated in place if
it is this slot's alone and was never ordered, and replaced by a new row
otherwise. Everything else a payment does is `Continue`, as in `Payment`. A
serialization failure is retried and then an error, which is no step. `Goods`
stands for a name, a price and a picture as the validation lets them through.

### 2.2 StaffSession and StaffKiosk

*State.* `employee`, `session` and `restockLog` are the rows; a session's
`elapsed` flag says that `expiresAt` has passed, and time does nothing else.
`request[r]` is a handler between its read and its write. `kiosk` is the page's
screen and session, `scan` the employee whose face the Pi is registering,
`template` the templates on the Pi, `matched` the Pi's signed statements "this
employee's face, this session".

*Steps.* A Serializable transaction is one step. The others are Read Committed:
a step that reads, and a later one that writes the row by its id
(`Transition`/`WriteStatus`, `ReadRestockSession`/`CommitRestock`,
`ReadRegistrationSession`/`CompleteFaceRegistration`), with the conditions of
the SQL `where` in the second step where the code has them. The marking of an
elapsed session as EXPIRED in `commitRestock` and `completeFaceRegistration` is
rolled back by the exception that follows it, so it is no step.

*What is assumed of the kiosk and the Pi.* Both run on the same computer, so a
call is served when the page makes it. A registration scan takes time and goes
on when its page is gone. A report to the backend is served later or never. The
page may leave a workflow at any moment: the session ended, a customer started
a purchase, the browser reloaded. The page's list of sessions it has already
taken up is ignored, so the model may take one up again, which a reload can do
too. There is one kiosk and one Pi, as in the pilot. `Veterans` are the
employees who were registered before the session table existed
(the `KioskSession` migration came after face registration).

*Left out.* Names, codes, the slots of a restock (module `Payment` has them),
the signature of the Pi's statement (`restock-authorization.ts` is a function of
its input), the failure lockout and the cancellation of a scan.

### 2.3 KioskPurchase

*State.* `stock` and `purchase` are the backend, by `INSTANCE Sale`; `orders`
and `cancels` are requests on their way to it. `saved` is the one entry of
`localStorage`: the sale and its fulfilment state. `page` is the screen and the
sale it shows; `attempted`, `awaits` and `cancelling` are the refs and promises
a reload loses. `calls`, `reply` and `outcome` are the unlock requests under
way, the answer the page has yet to read, and `unlock_transaction_outcomes`.
`commands`, `told` and `forgotten` are history.

| Code | Actions |
|---|---|
| `handleBuy`, `reconcileUnpersistedPayment` | `Buy`, `BuyAnswered`, `BuyFailed`, `Reconcile`, `ReconcileFails` |
| the payment poll | `Poll` |
| `handleCancelPayment` | `ClickCancel`, `CancelConfirmed`, `CancelRefused`, `CancelFailed` |
| `completeConfirmedPayment`, `handleConfirmedPaymentOnce` | `Complete`, `AttemptUnlock` (in the steps that reach them), `UnlockAnswered`, `UnlockReplyLost` |
| `recover` at startup | `Reload`, `RecoverOpen`, `RecoverTried` |
| closing timers | `Dismiss` |
| `/unlock` | `RepeatedUnlock`, `UnlockUnavailable`, `UnlockSent`, `UnlockRaises`, and `PiRestart` |
| backend (as `Sale`) | `OpenPayment`, `CancelPayment`, `PaymentResolves`, `Refill` |

`persistActivePayment` reads back what it wrote and may fail with or without
effect (`Persisted`); `clearActivePayment` may fail silently (`Clear`). The
answer to a status request is the state of the sale when the page acts on it:
"sold" and "abandoned" are final, and an old "open" only makes the page ask
again.

*Left out.* Layout, sounds, the slot list, the fields of the stored entry other
than sale and state.

### 2.4 Cabinet and RestockUnlock

*State.* In `Cabinet`: the relays that are on, the firmware's `activeSlot`,
`relayStartTime` and `millis` (unsigned, wraps at `ClockSize`), and the open
doors; `coil` counts how long the relay has been on. In `RestockUnlock`: the
session's status and an `obstacle` (a customer's payment is open, or the
employee is no longer active); the screen's door observations and unlock
cycles; `call[n]`, one press of a button with the grant it obtained; the
requests the Pi is serving, its used nonces and its door cycles; whether the
serial link is ready. `writes`, `unmoved` and `barredAt` are history.

| Code | Actions |
|---|---|
| `getContext`, grant of `restock-unlock.service.ts` | `Grant`, `GrantFails`, and the expiry a handler comes across (`Swept`) |
| `handleUnlockSlot`, `unlockRestockSlot` | `Press`, `Send`, `UnlockConfirmed`, `UnlockFails` |
| `applyRestockDoorObservations` | `Followed`, in `StatusRead` |
| commit, exit, `EXIT_STAFF`, reload | `Confirm`, `Exit`, `SessionGone`, `Reload` |
| `/restock/unlock` | `Receive` (up to the nonce), then `Unavailable`, `StatusFails`, `Refused`, `Open`, `OpenRaises` |
| `/hardware/status`, recovery thread | `StatusRead`, `StatusUnavailable`, `LinkVerified`, `LinkLost` |
| firmware | `HandleOpen`, `LoopPass`, `Setup` |

*What is assumed.* A request that was sent may be delivered any number of
times, at any later moment. The unit of time is five seconds; a pulse of 700 ms
is far shorter, so no unit passes while a relay is on, and inside a pulse the
firmware's own clock ticks. A request the Pi has accepted is served within
`ServeTime`. The Pi's clock may lag the backend's by `PiLag`. A door can only
open while its solenoid is energised and closes at any time. Nothing reports
the firmware's `ERROR:BUSY` to the handler that sent the command, as in the
code: the Pi then waits for a door that was not pulsed.

*Left out.* The signatures of the grants, debouncing of the sensors, the
back-off between two attempts to connect (the link comes up whenever it does).

### 2.5 HardwareMonitor

*State.* The row of `HardwareMachine`, the relay thread's last sequence, the
heartbeats on the wire or between their parsing and their transaction, the
evaluators' cycles with the time each took, the count of alert events. The Pi's
clock is the server's plus `skew`, which may jump. `reaching`, `sound` and
`watch` are history: whether every heartbeat so far was dealt with, whether the
Pi's clock was ever wrong, and since when somebody was evaluating.

| Code | Actions |
|---|---|
| heartbeat loop of `pi_cloud_relay.py` | `SendHeartbeat` (also by a relay that has restarted), `StepClock` |
| `parseHeartbeat`, `ingestHardwareHeartbeat` | `Parse`, `Ingest` |
| `evaluateOfflineMachines` | `StartCycle`, `Evaluate`, `AbortCycle` |

*Left out.* The fields a heartbeat carries for display, several machines
(transactions concern one).

### 2.6 AlertDelivery, SalesReport and OwnerReport

These are two ledgers of the same kind: a row is claimed by a conditional
update, sent to LINE under a retry key and marked. They differ in the
conditions. The mark of an alert asks for the claim of its own worker; that of
a report only for the status, so that it can meet the claim of another job.
What they promise is the same, and is the abstract module `Notice`: a message is
heard once while its key is good, is called sent only when it was heard, and
what is sent or left to a person stays so (`KeepsPromise` of both modules).

The promise ends with the key. The code uses a key for 24 hours, which is all
the time that LINE knows it, and compares the 24 hours with the time at which a
run began. A run that begins before they are over and sends after them is
therefore heard again, and `Notice` allows exactly this: a second `Announce` of
a message whose key has run out, by a run that was under way before. Nothing
bounds a run: a cycle takes its candidates one after another under one `now`,
and each may take ten seconds. Both modules have the limits as the code has
them (`Validity <= KeyLife`, equal in the runs), and runs that outlast both
claim and key.

*AlertDelivery.* `alert[a]` is a row, `worker[w]` a cycle with the await it
has reached, the time it took once at its start and the rows as its listing
read them; `line` is how often LINE has broadcast, and when last. `StartDelivery` sweeps
expired keys, then `SweepExhausted`, `List`, and for each candidate `Claim`,
`Send`, `Mark`; `Abort` is a stop or an exception at any await. LINE answers a
key it knows with the accepted request (external, modelled from how
the LINE providers treat a 409).

*SalesReport* is a set of operators: `Period`, `Reportable`, `Aggregate`. Money
is in satang, time in hours.

*OwnerReport.* `row` is the ledger row of the report, `job[j]` a run with what
it read and the report it computed. The claiming transaction runs at Read
Committed, so its statements are steps of their own: `ReadClaim`, then
`CreateRow`, `ReviewExpired` or `TakeClaim`. `Collect` computes the report from
the sales confirmed by then, and a sale may be confirmed while jobs run.
Afterwards come `Send` and `Mark`.

*Left out.* The layout of the messages, the rankings of products and of time
bands, and the slow movers: text that no decision depends on.


## 3. What the runs check

### payment_safety (`MCPayment.cfg`)

Two slots, two payments, three overlapping handlers; 469 039 states. Two
payments are enough for each pair of customers who compete for a slot, two
slots for each pair who do not; three handlers let a creation, a poll and a
cancellation or webhook of one row overlap, which is every pair of writers of a
row plus a bystander. The model needs no other bound: a row is created once.
`Symmetry` permutes rows, handlers and slots, and no property is temporal.

* `EveryItemIsSoldOnce`: who took the item and what the slot shows agree,
  although payments are confirmed after their customer left and slots are
  refilled meanwhile.
* `OutcomeIsTheProviders`, `OutcomeIsFinal`: a row says what its charge says and
  never takes it back, whatever the order in which reports are applied.
* `NotifiedAtMostOnce`.
* `KeepsPromise`: the backend implements `Sale`, under the refinement mapping
  `PurchaseView`; a slot has at most one open purchase there, which
  `OneOpenPayment` proves of the rows besides.

### storefront (`MCStorefront.cfg`)

Two slots that share a product when the database is filled, two more product
rows, two kinds of goods, one payment with two handlers, an administrator at
any moment, under `FairShopSpec`; 173 963 states. The shared product, one that
was ordered and one of a slot's own are all the cases `configureSlot` tells
apart, and two slots are enough for one to disturb the other. Product ids come
from a sequence and are not reused: when they are used up a slot keeps its
product, unless it is its own.

* `OpenOfferStands`: the offer a customer looks at is neither changed nor taken
  off sale before the payment is answered.
* `SoldAsDescribed`: the product row an order points at still says what was
  ordered, however often its slot was configured since; replies and notices
  read that row.
* `OneSlotAtATime`: an edit changes one slot's offer.
* `EveryPaymentIsAnswered`, `MoneyBecomesASale`: the fairness is that every
  handler's awaits return or throw (provider calls time out after ten seconds);
  the provider ends each charge, at the latest when its QR expires; the kiosk
  asks every two seconds for as long as the payment is open, and not every one
  of these polls fails (strong fairness of asking, retrieving and applying,
  because single ones may abort). Nothing is assumed of webhooks, customers,
  restocks or administrators. Then a payment whose charge was saved does not
  stay open, and money paid while the customer waits becomes a sale unless the
  customer cancels. A row whose process stopped before the charge was saved is
  excluded: it stays PENDING for ever, see the hazards.

### staff_safety (`MCStaff.cfg`)

Two employees (one registered before there were sessions), two sessions, two
overlapping handlers; 3 592 102 states. Every hazard of these workflows is a
pair: a handler that has read and one that writes, a session and its successor,
two faces for one session. Session ids are not reused, so two is also the bound
on the workflows of one behaviour. The proofs of section 4 have no such bound.

* `DeletedWasAnUnusedDraft`: when a record is deleted the Pi holds no template
  of it and never makes one again, and nothing was ever restocked in its name.
  It rests on three things together: one ACTIVE session at a time, the Pi's face
  lock, and the second look at the record when the report arrives.
* `RestockIsAttributed`: a restock is credited only to the employee whose face
  the Pi recognised for that very session, although two may authenticate and
  the commit re-reads nothing.
* `RegisteredFaceIsOnThePi`: the backend believes a face registered only while
  the Pi holds it or an offboarding has started, although the two records are
  written in different places, in either order, and either write may be lost.
* `OffboardingIsFinal`: no late handler gives anything back.

### purchase (`MCPurchase.cfg`)

One slot that is sold, refilled and sold again, two customers, one reload of
the page, one restart of the Pi; storage calls fail, with or without effect,
whenever they like, and replies and requests are lost or repeated. A second
customer is what a stale entry, a late reply or a late cancellation of the
first one could harm. What follows a second reload starts from the same
storage as what followed the first: a page remembers nothing else.

* `OpensOnceForASale`: a door is commanded once per confirmed sale and never
  for another. It rests on two memories that are lost at different moments: the
  entry in the storage covers a restart of the Pi, the Pi's outcomes cover a
  request that is delivered twice.
* `OneDoorPerItem`: what a refill puts into the slot is handed to one customer.
  This is the promise of the shop as a whole: the backend sells the item once
  and marks money that comes too late, and the page opens no door for it.
* `MarkBeforeCommand`: while the door may have been commanded and the customer
  has not been told, the storage holds the mark of the attempt; a reload then
  asks for assistance instead of trying again.
* `ScreenTellsTheTruth`: who is thanked was sent a command, and who is told
  that the payment failed was not.
* `PaidIsConcluded` (under `FairSpec`): a customer who waits and whose payment
  is confirmed is told how it went. The fairness: the page's timers run, its
  requests return, the Pi answers; and not every poll fails, also when the
  customer keeps pressing the cancel button, which suspends polling (hence
  strong fairness of `Poll`). Excepted is a reload that could not read the
  storage.

Deadlock is not checked: the assistance screen and a payment that could not be
reconciled stay until somebody reloads the page, and reloads are bounded.

### restock (`MCRestock.cfg`)

One slot, two presses of its button, a session that expires after three units
of five seconds, grants of two, `ServeTime` one, four units in all; the
firmware's clock has three values and a pulse takes two ticks, so it wraps in
and between pulses; 1 513 672 states. Reloads, restarts of the Pi and resets of
the microcontroller are not bounded. Two presses are a grant and its
successor, for a slot whose door cycle is shared by both; a second slot is too
many for TLC, and is covered by the proofs, which hold for any number of slots
and presses.

* `PulseIsBounded`: one relay at a time, released in time over the wrapping
  clock, through resets and refused commands.
* `GrantOpensOnce`: the nonces are purged while the service runs, and a nonce
  is forgotten only when its grant is worthless.
* `NoSecondPulse`: a slot is pulsed again only after its door was open, although
  the cycle is followed by whoever happens to read the doors' status.
* `NothingOpensLate`: after the session ended or expired, the employee was
  dismissed or a customer's payment was opened, nothing opens later than the
  life of a grant and the time to serve it. This is the exact bound: a grant
  is not checked again, and *can* open a door while a customer is paying for
  those seconds.

### monitor (`MCMonitor.cfg`)

Two evaluators, a Pi clock that is right or two minutes ahead, heartbeats and
cycles that take up to a minute, six minutes; 2 221 964 states. The limits are
the code's, in minutes: two of silence, two of confirmation, evaluations at
most ninety seconds apart (one whole minute). Six minutes are an outage, its
announcement and a recovery.

* `OneAlertPerOutage`: evaluators overlap and heartbeats arrive between a
  cycle's listing and its transaction, and yet each outage makes one alert and
  each recovery one.
* `OfflineAfterWatchedSilence`: a machine is announced OFFLINE only after the
  threshold and the confirmation, all of it watched: an outage of the backend
  does not become one of the machine.
* `NoFalseAlarm`: a relay whose heartbeats arrive is never announced OFFLINE,
  although steps of its clock within the tolerance make the backend refuse some
  of them. Without `sound`, this is false: see `monitor_clock`.

### alerts (`MCAlerts.cfg`)

Two workers (the server's loop and the scheduled job) and one alert; 122 606
states. A claim goes stale after one unit and a cycle may last two (`MaxCycle`),
so that one worker takes a row over while the other is still sending it. LINE
knows a key for three units, as long as the code uses it, so that a cycle which
began in time may send too late and be heard twice; both happen in this run.
Three attempts exhaust an alert. Time ends when every key has expired. Alerts do
not interact but through the order in which a worker takes them, so one is
enough; the proofs hold for any number.

* `KeepsPromise`: the owner hears of the alert once while its key is good, and
  what is sent or left to a person stays so, although replies are lost, workers
  stop, and claims are taken over.
* `MarksOwnAttempt`: a worker whose claim was taken over meanwhile decides
  nothing, because the mark asks for the time of its own claim.
* `EveryAlertIsSettled`: with weak fairness of starting and continuing cycles
  (both processes are periodic) and of time. A worker may stop at every step,
  and LINE fail every time.

### reports (`MCReports.cfg`)

Two jobs and the weekly report, with sales at both edges of the week and of its
first midnight, one abandoned by its customer and one confirmed while jobs run;
361 100 states. A claim goes stale after one unit and a run may last two, so that a
job is overtaken while it sends and marks the claim of another. A key is good for
two units, here and at LINE, so that a job which began in time may send too late;
the report is then broadcast twice, in this run too. From
`NextPeriod` the schedule derives another report, and the only thing that still
touches this one is the sweep of expired keys.

* `OwnerSawTheLedger`: takeovers send the ledger's key and payload, not what the
  job has computed itself, and LINE broadcasts it once while the key is good.
* `KeepsPromise`: marks are conditional on the status alone, which is enough
  for a settled row to stay settled.
* `EveryClaimIsSettled`: with weak fairness of the schedule and of time, a
  claim whose job stopped is settled by a later sweep.
* `ReportsAddUp`: the seven daily reports and the weekly one account for the
  same sales, each once, and time bands and weekdays partition them, for every
  subset of the sales.

### Disagreements between code and documents

* **payment_terminal**: a report applied late overwrites `providerStatus` of a
  FAILED or EXPIRED row (`docs/opn-payments.md:41` calls terminal results
  idempotent). `paymentStatus`, the slot and the notice are unaffected, as
  `OutcomeIsFinal` and the proofs show.
* **staff_ended**: a restock commit that read its session as ACTIVE commits
  after the session was cancelled or completed (`docs/project-spec.md:111`).
* **staff_reregister**: a registration session opened for an employee who was
  offboarded between the look-up and the insertion leads to a template of the
  offboarded employee on the Pi (`docs/project-spec.md:167`). The record itself
  stays offboarded (`OffboardingIsFinal`), so the face opens nothing. The
  window is the time between two database calls, so the handler has to stall
  while the kiosk completes an offboarding.
* **monitor_clock**: a Pi whose clock falls back by more than the threshold and
  the confirmation, as one without a battery-backed clock does when it boots,
  reaches the backend with every heartbeat and is announced OFFLINE, because
  all of them are refused as old (`docs/phase3-hardware-monitoring.md:44-46`
  says that the Pi's timestamp does not decide the online state).

One boundary of the code is part of what the passing runs allow, and not a run
of its own. `docs/phase2-owner-sales-reports.md:38` says of the sweep of expired
keys that it "prevents an uncertain old delivery from being rebroadcast as a new
request". It does, but for a run that is already under way: a report is claimed,
broadcast, and its reply lost; the job is run again within 24 hours, finds the
key unexpired at its `now` (`owner-report.service.ts:155`) and sends after the
24 hours are over (`:413`), when LINE no longer knows the key
(`docs/phase2-owner-sales-reports.md:138`). The same holds of alerts
(`hardware-monitoring.service.ts:268`, `:286`, `:320`). `OwnerSawTheLedger` and
`Notice` say "once while its key is good" for this reason. The schedule runs each
report once, so this takes a run by hand, or an alert that is still unsettled a
day after it was made.


## 4. What is proved

The proofs hold for any number of slots, payments, employees, sessions,
handlers, presses, evaluators, alerts, workers and jobs, and for any limits of
time that meet the named assumptions.

**Payment** (`Payment_proofs`; assumes that `Nil` is no id).
The safety properties are not inductive: they say nothing of the reports the
handlers carry across their awaits. `IInv` (module `PaymentInv`) adds that

* a report other than "pending" is still what the provider says when it is
  applied (`ReportHolds`), because the provider never takes a final status back;
* at most one handler creates a row's charge and at most one sends its notice
  (`OneCreatorOneSender`), because rows and claims are inserted conditionally;
* while a customer may still pay, the slot is AVAILABLE (`OpenMeansAvailable`),
  so two confirmations never meet on one item.

`Invariance` proves it for every step; `TypeCorrect`, `OneOpenPayment`,
`ItemsAreSoldOnce`, `OutcomeIsTrue` and `OneNotice` follow. `OutcomesAreFinal`
and `Refinement` (every step of the backend is a step of `Sale` or a stutter of
it) are proved step by step from the same invariant.

**Storefront** (`Storefront_proofs`; assumes `StorefrontAssumption`: product ids
are numbers and the first shelf holds products). `PaymentsGoOn` shows that every
behaviour of the storefront is one of `Payment`, so that all theorems of
`Payment_proofs` hold of it. `ShopInv` (module `StorefrontInv`) adds to the
properties that whatever a slot or an order points at was created (`ShelfInv`,
`OrderInv`): the next id of the sequence is then nobody's, and a new product
disturbs no slot and no order. That an open offer stands also needs
`PaymentsGoOn`'s invariant, because a payment is opened only in a free slot.
`OrdersAreKept`, `OpenOffersStand` and `OneOfferChanges` are the safety
properties of run `storefront`.

**Staff workflows** (`StaffKiosk_proofs`; assumes that `Nil` is no id and that
veterans are employees). Three facts carry `IInv` (module `StaffInv`):

* one session is ACTIVE at a time (`OneActive`), so while a draft deletion is
  active no registration may be accepted, and while the Pi answers it no scan
  runs: the report "no template" stays true for as long as its session can
  still delete the record (`AwaitInv` at "finalize");
* a template, or a scan that may make one, leaves a trace in the backend: the
  registered flag or a session of that employee (`EmployeeFacts`). Deletion
  asks for the absence of both, so a deleted record has no face;
* a handler at "bind", "commit" or "register" still holds what it read: sessions
  keep type and employee once these are set, and the Pi's statements are never
  withdrawn.

Most steps only let sessions end (`SessionsEvolve`) and keep what is known of
faces (`FacesKept`); the lemmas on these two relations discharge the parts of
the invariant that a step does not touch. `DraftsOnly`, `CreditWhereDue` and
`FacesAreReal` follow from `IInv`; `OffboardedForGood` is an action property:
each writer of an employee asks for a current one, except the completion of an
offboarding, which writes the same row again.

**A purchase at the kiosk** (`KioskPurchase_proofs`; assumes that `Nil` is no
sale and that sales are numbers). That a door opens once for a sale
(`OpensOnceForASale`) rests on two memories, neither of which is enough: the
Pi's outcomes answer a request that is repeated, but a restart of the Pi forgets
them; the mark in the storage keeps a reloaded page from asking again, but it
says nothing of requests still on their way. `IInv` (module `PurchaseInv`) joins
them:

* `TriedInv`: a sale is tried only once it is confirmed and its page is done
  with waiting, and as long as a request may still be served by a Pi that
  remembers nothing of it, nothing was commanded;
* `SavedInv`, `AwaitInv`: the stored entry of a sale that was tried carries the
  mark, and the page that awaits the Pi stays with that sale, whatever timer,
  poll or cancellation fires meanwhile;
* `RecoverInv`, `ToldInv`: a sale that was tried and whose customer has not been
  told is awaited, or is being recovered from the storage, unless a reload could
  not read it (`forgotten`).

`OpensOnce`, `MarkedFirst` and `ScreensTellTheTruth` follow. `OneDoor` needs
besides what the backend does, as far as `Sale` tells: a second invariant,
`ItemInv`, says that payments that are open, and sales since the last refill, do
not share a slot, and that a slot that was sold from is sold out. It is kept by
every step of `Sale`, and every step of the kiosk is one or leaves the backend
alone (`ShopStep`). As `Payment` implements `Sale` (`Refinement`), this ties the
opened door to the code of the backend. With `TypeCorrect` these are all the
invariants of run `purchase`.

**Restock unlock** (`RestockUnlock_proofs`; assumes `ClockAssumption`, a pulse
shorter than the range of the clock, `TimeAssumption`, and that `Nil` is neither
a slot nor a time). `IInv` (module `RestockInv`) has a part for each layer:

* `PulseInv`: the clock is `coil` ticks past the start of the pulse and has
  wrapped at most once, so the unsigned difference is `coil` and the relay is
  released when it reaches the pulse;
* `NonceInv`: a grant that is being served or has been is in `used` or has
  expired, and an expired one is not received again: so a purge of the nonces
  is harmless;
* `CycleInv`: a slot that was pulsed and whose door has not moved is
  WAITING_OPEN, whoever observed the doors since, because only an open door
  takes it out of that state;
* `TimeInv`: an outstanding grant expires at the latest `GrantTTL` after what
  forbids it began, because it was issued before, and never after the session.

`PulseBounded`, `OpensOnce`, `PulsesAlternate` and `OpensInTime` are all the
properties of run `restock`.

**Hardware monitor** (`HardwareMonitor_proofs`; assumes `TimeAssumption`: the
tolerance for the Pi's clock, and the minute between two heartbeats, are shorter
than the threshold and the confirmation together). The times an evaluation or a
heartbeat took may be old when its transaction runs, so neither the row's last
heartbeat nor its last evaluation only moves forward. `IInv` (module
`MonitorInv`) says what remains true:

* `RowInv`: a candidate for OFFLINE was silent for the threshold when it became
  one, since every recorded heartbeat clears it;
* `ReachingInv`: while every heartbeat is sent and dealt with in its unit and the
  Pi's clock is sound, the row is behind by at most the tolerance and one unit. A
  heartbeat may be refused as old, also because a restarted relay starts its
  sequence anew, but the bound on the sequences (`SeqBound`) shows that the clock
  has caught up with both within the tolerance;
* `WatchInv`: a candidate lies in the stretch that evaluators have been watching,
  and so will the one an evaluation under way may yet make.

`AlertsMatchOutages` and `NoAlarmWithoutCause` need no bound on delays.
`SilenceWasWatched` does, and names it in its statement (`DelaysAreShort`): no
heartbeat or evaluation may be under way for longer than the largest gap, or than
half the threshold, that is for a minute in the code. Without it an
evaluation that was overtaken by a later one and by a heartbeat of the past can
date the candidate before the watching began. The instance of run `monitor`
meets it.

**Alert delivery** (`AlertDelivery_proofs`; assumes `DeliveryAssumption`: LINE
knows a key at least as long as the code uses it, and a claim does not go stale at
once. How long a cycle lasts is not assumed). The heart of `IInv` (module
`AlertInv`) is `HoldInv`: from its claim to its mark a worker either still holds
the row, whose time and attempt are then its own unless a sweep has left the
alert to a person (`Holds`), or another has taken it over, and then the row has a
later time and a later attempt (`TakenOver`). Who takes over must have found the
claim stale, so that its own time is later; that is why a mark that asks for its
own time finds its own attempt (`StaleClaimsMarkNothing`). Several workers may be
sending one alert, each in an attempt of its own (`OneAttemptEach`). All use the
same key, and LINE forgets it no sooner than the code does:
`OnceWhileItsKeyIsGood`. `Refinement`: every step of a worker is a step of
`Notice`, because no worker claims or marks a row that is final, none marks
`sent` what LINE has not taken, and a worker that sends began its cycle with a
good key.

**Delivery of a report** (`OwnerReport_proofs`; assumes `ReportAssumption`: LINE
knows a key at least as long as the code uses it, and `NothingAssumption`: the
absent row is neither a row nor a set of sales. How long a job runs is not
assumed). Here a job does not hold the row: its claim may be taken over while it
sends, and its mark meets the claim of the other. What keeps the owner from a
second report is that both use the key and the report of the row. So `IInv`
(module `ReportInv`) says of each job only that the row it has read is still the
row but for its status and its claim (`SeenInv`) and that the key was good when
the job began (`KeyInv`), and of LINE that whatever it broadcast is no older than
the row (`LineInv`). A job that sends then finds its key known to LINE if
anything was broadcast, or run out (`SendFacts`). `LedgerIsTrue` follows, and
`Refinement`: every step of a job is a step of `Notice`.

**What a report says** (also `OwnerReport_proofs`; assumes `SaleAssumption`: the
sales are finitely many, each with a time and an amount in whole satang).
`NothingLostOrCountedTwice` shows that the seven daily reports of a week, its
time bands and its weekdays account for the same number of sales and the same
revenue as the weekly report, for every set of sales. It takes three steps. Revenue is a fold over a set of
sales; the library's induction over finite sets cannot be used, so each fact is
proved by its smallest counterexample (`SmallestSet`, from the well-foundedness
of strict subsets): that the fold's function exists and is unique (`SumExists`,
`SumsAgree`), that it does not matter which element is taken out first
(`TakeOut`), and hence that the parts of a partition add up (`PartsAddUp`).
Then, that bands and weekdays partition the reportable sales
(`TimeBandsAddUp`, `WeekdaysAddUp`). And that periods are what they should be:
`EverySaleHasItsReport` states that every moment lies in the daily period
of its own local day and in the weekly period of its own week, and in no other.

TLC checked each `IInv` on the instances of section 3 before it was proved.

Only model-checked: the liveness properties (`EveryPaymentIsAnswered`,
`MoneyBecomesASale`, `PaidIsConcluded`, `EveryAlertIsSettled`,
`EveryClaimIsSettled`), which hold under fairness and are beyond the proof
system. Every other property of a passing run is stated by a theorem.


## 5. What is not modelled, and why

* *Face recognition, camera, audio.* Image processing and matching are
  numerical. The failure lockout and the registry of cancelled scans decide how
  early a scan gives up; `StaffKiosk` lets each scan run to its end after its
  page has gone, which includes the outcome of a cancellation that came too
  late.
* *The notice of a restock.* The same conditional claim as the notice of a
  sale, in `Payment`.
* *Serial back-off, sensor debouncing.* The link may come up, and a door be
  seen, at any moment, which includes every back-off and delay.
* *Forwarding by the Pi relay, routing, signatures, SQL scripts.* No state of
  their own.
* *Message layout, QR images, the slot pages of the admin portal.* Data no
  decision depends on; the portal's calls of `configureSlot` may come at any
  moment in `Storefront`.

Hazards that no property covers are marked so in `PROJECT.json`: a payment row
whose process stopped before its charge was saved stays PENDING (nothing in the
code resolves it), and a notice whose process stopped after the claim is lost
(at most once by design).
