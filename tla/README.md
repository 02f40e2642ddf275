# Formal models of the ISP billing backend

The backend sells internet access for ISPs: PPPoE subscriptions and hotspot
packages. It keeps customers, subscriptions, vouchers, invoices and payments in
PostgreSQL, and it makes them true on MikroTik routers that mostly sit behind
NAT and can only be reached by a script on the router that polls the backend.
Payments are settled by another service (treasury) and arrive as NATS messages,
polls or callbacks; tenants and users belong to a third one (auth-api). FastAPI
handlers, background tasks, Celery beat tasks and NATS consumers all work on the
same rows, at the isolation level READ COMMITTED and, with a few exceptions,
without locks.

This directory holds TLA+ models of the parts where that is hard to get right,
TLC configurations that check them on small instances, and TLAPS proofs.

    tlc -workers 2 -config QueueSingleRun.cfg MCRouterCommandQueue
    tlapm RouterSyncProofs.tla

## The system

| Component | State | Operations | Module |
|---|---|---|---|
| Router command queue and agent (`services/router_agent.py`, `api/v1/router_agent.py`, `tasks/router_tasks.py`) | rows of `router_commands`; the batch a run of the script holds | queue, poll, execute, report, expire, reset stale | `RouterCommandQueue`, `CommandDelivery` |
| Subscription lifecycle and router sync (`modules/subscriptions/*`) | `status`, `end_date`, `is_router_synced`; the account on the router | create, activate, suspend, cancel, delete, renew, expire, churn-mark, purge, sync | `SubscriptionRouterSync` |
| Event outbox (`events/outbox.py`, `tasks/event_tasks.py`) | rows of `outbox_events`, the JetStream stream | record, select, publish, commit | `EventOutbox` |
| Hotspot purchase (`api/v1/portal/hotspot.py`, `events/consumer.py`, `utils/hotspot_username.py`, `services/hotspot_dashboard_bridge.py`) | purchases, username counters, vouchers, mirrored users and payments | buy, create intent, confirm (message, poll, callback), provision, mirror | `HotspotPurchase` |
| Hotspot vouchers (`api/v1/portal/hotspot.py`, `api/v1/business/vouchers.py`, `modules/subscriptions/expiry_manager.py`) | vouchers, their accounts and the commands for them | issue, edit, delete, redeem, log in, reconcile | `HotspotVoucher` |
| Billing (`modules/billing/*`, `tasks/billing_tasks.py`) | invoices, items, payments, their numbers | create, items and totals, pay, verify, bulk update, mark overdue | `InvoiceLedger` |
| Provisioning (`modules/provisioning/*`, `api/v1/provisioning/workflow.py`, `tasks/provisioning_tasks.py`) | sessions, executed commands, the router's configuration | create, start, execute, script, report, cancel, retry, time out, roll back | `RouterProvisioning` |
| Tenant and user mirroring (`events/consumer.py`, `core/sso.py`) | organizations, users, unacknowledged events | upsert tenant, upsert user, log in, start a trial | `TenantMirror` |
| PPPoE portal (`api/v1/portal/pppoe.py`, `services/treasury_topup.py`) | payments, intents, the latest subscription | renew, verify, extend | `PPPoERenewal` |
| Router registry, monitoring and VPN (`modules/routers/service.py`, `api/v1/network/routers.py`, `api/v1/provisioning/bootstrap.py`, `services/wireguard.py`) | rows of `routers`: name, address, port, agent token, tunnel address and key, status | create, upsert, delete, bootstrap script, enrol, register key, poll, sync status | `RouterRegistry` |
| Bandwidth, plans, gateways, auth, tenancy, tickets, analytics, ... | | CRUD, queries and I/O | none |

They meet in these places: whatever changes a router goes through the command
queue (subscriptions, vouchers, purchases, provisioning scripts, VPN enrolment)
or calls the router directly; a purchase records its events in the outbox and
makes the voucher whose life HotspotVoucher describes; a renewal in the portal
and the expiry task write the same subscription; the agent token that the
registry hands out is what polls and reports are accepted by.

`PROJECT.json` lists the components with their sources and the reason where one
is not modelled, the lines each definition stands for, and the hazards: the
places where something can go wrong that a test would hardly reach.

What is hard here:

* a handler reads a row, awaits something and writes later, with no lock, so
  another handler, task or report can act in between;
* SQLAlchemy writes only the columns that differ from what was loaded, so a lost
  update is often only half of one, and sessions keep their objects over a commit
  (`expire_on_commit=False`), so a copy can be arbitrarily old;
* one logical operation is several commits, with swallowed errors between them;
* commands, messages, callbacks and reports are lost, repeated and late;
* beat starts a task, and the router's scheduler a script, whether or not the
  previous one has ended;
* uniqueness is decided by a select and, only for some columns, by the database.

What makes the components correct:

* the queue: a success is only recorded for a command that was executed, results
  are final, retries are bounded, and no row is open
  for ever;
* subscriptions: what the row says (active, synced, expired) agrees with the
  account on the router and with the end date, and old commands never undo new ones;
* the outbox: an event whose transaction committed reaches the stream at least
  once, in order, and with no unexplained duplicate;
* purchases: paid customers get exactly one voucher with a username of their
  own, nobody else does, and revenue is booked once;
* vouchers: redeemed once, not cut off early, ended in time, and no access that
  the reconciler does not know of;
* the ledger: an invoice's columns agree with each other and with its payments,
  what is paid is activated, and numbers have no gaps;
* provisioning: one session per router, an end is an end, a rollback takes back
  what was done, what counts as provisioned was configured or reported so;
* mirroring: each tenant has one organization of its own that shows the
  last name it told, users are in their own tenant, trials start once;
* renewals: each payment buys its period once, and none is lost;
* the registry: one row per device, an agent that is not shut out, a tunnel both
  ends agree on, no router deleted under its customers.

## Modules

A property of most modules has the form "... unless": it names the overlaps or
failures under which the code does not keep its promise, as a value of a history
variable (`overlap`, `flaws`, `raced`, `overlaps`, `untracked`, `late`, `stale`, `crossed`,
...). Such a property says two things: that nothing else breaks the promise, and
where to look. The history variables are written by the actions, read by the
properties, and by guards only where a comment says "bound".

### RouterCommandQueue, CommandDelivery

The queue of one router. `status`, `priority`, `created_at`, `sent_at` and
`retry_count` are the columns of `router_commands`; `pc`, `batch`, `outcome` and
`loaded` are what each execution of the agent script, and the handler of the
report it posts, holds in memory. A poll is two actions (`PollSelect`,
`PollCommit`), a report is two (`ReportLoad`, `ReportCommit`) and the cleanup
task is two (`cleanup_expired_commands`, `reset_stale_sent_commands`), because
these are the places where other transactions get in. The answer to a poll can be
lost (`PollCommit(r, FALSE)`), a report can be lost (`ReportLost`), the router
can reboot, handlers and the task can die. `Flush` is the unit of work's rule
that a column is written only if its value differs from the loaded one.

`Runs` is the set of script executions that can be under way at once. The
scheduler does not wait for the last execution, and a report that arrives after
its run was given up acts like a second run, so both one and two runs are
checked. `shared` is history: the commands that two runs have held at the same
time. A row whose `expires_at` is NULL does not occur (`queue_command` always
sets it). The telemetry and the backup rows that polls and reports also store
have no effect on commands and are left out.

`CommandDelivery` is what callers may rely on: a submitted command is open until
it succeeds, fails for good or expires; it succeeds only if it was carried out;
failed attempts are counted, and success and failure are final, expiry is not.
`Delivery` in the queue module maps `status` to the verdict, `retry_count` to the
attempts and `executed` to what was carried out; `DeliversAsPromised` is the
abstract specification under that mapping. It holds for one run at a time.

### SubscriptionRouterSync

Extends the queue module: its actions are composed with what a command means for
a subscription and for the account on the router. `req` holds what a request
handler or task has in memory: the operation, the subscription, and the status
and flag as they were loaded. `Load` is the select; `Commit`, `ExpireCommit`,
`ChurnCommit` and `PurgeCommit` are the transactions; `Refresh` is the read of the
row after the commit, whose status the sync then uses; `SyncViaQueue` queues the
command for it (none for an inactive or pending row); `DirectCall`, `DirectCommit` and
`DirectUnreachable` are the path for a router without the agent, where an expiry
flushes its status, calls the router and commits, holding the row's lock all the
while (`Locked`), and the other operations call after their commit.

What the router does and what is reported are kept apart. `DirectCall(h, done, told)`:
the change may be made and the answer lost, and errors of the call for an account
that exists and shall be enabled are swallowed (`_update_user_profile`), so the
handler is told of a success and the flag is set. `ExecuteOnRouter(r, o, done)`: every
line of the `remove_user` script ignores its errors, so it reports a success whether
or not the account is gone. `ReportCommitSub` sets `is_router_synced` in the report's
transaction, for whatever command it reports.

Handlers, agent runs and commands overlap freely. The conditions are history:
`command[c].amid` are the actions of the subscription's commands that could still reach
the router when c was queued; `misreported` are the subscriptions whose flag was set
by the report of another command than the youngest, or was left set; `ignored`
those for which the router did not make the last change and nobody was told; `crossed`
those that were activated or renewed while a direct call for another state was under
way; `renewed` those whose last renewal met an expiry or a churn-mark that had loaded
the row. Each is taken back when the condition ends.

A row that was purged can be created again, with an id of its own: reports of older
commands no longer concern it. Usage counters, reminders and the backfill of NULL end
dates are not modelled; `update_subscription` with a new status acts like one of the
modelled operations.

### EventOutbox

`record_event`, `DomainCommit` and `DomainRollback` are the writing side: both
events of a purchase are recorded in its transaction. A publisher selects the
oldest waiting rows, connects, publishes them one at a time (a publish can raise
although the stream has stored the event) and commits all stamps and counters at
the end. A counter is written from the value that was loaded. Nothing keeps two
publishers apart; `overlap` says whether they may meet in this behaviour.

### HotspotPurchase

A purchase from `purchase_package` to the dashboard. The payment is confirmed by the
NATS consumer (`Deliver`; a message that is not acked is delivered again), the status
poll (`get_payment_status`, `TreasuryAnswers`) or the webhook, which takes the callback
at its word (`told`): it may come for a purchase that nobody paid, or before
`purchase_package` has its intent. A confirmation then runs
`_process_successful_payment`, whose commits are the actions `CredentialsCommit`,
`VoucherCommit`, `QueueCommit` and `BridgeCommit`; it can crash before each of them, and
`SwallowError` is the outer handler that marks the purchase completed. Selecting the
plan flushes the purchase (sessions autoflush), so from then to the next commit the
confirmation holds the row's lock (`RowFree`). Treasury is modelled from how the code
uses it. The organization has an active router; without one the bridge does nothing.

### HotspotVoucher

The life of a voucher and of its account. It is generated in the dashboard or bought,
redeemed (`redeem_voucher`: load, then commit), used to log in (load, router call,
commit), edited (status, the date to redeem it by, or both) and deleted;
`process_expired_hotspot_users` selects the oldest `BatchSize` used vouchers, disables
the account of each that is due and commits the batch as one. The account changes by
direct calls or by queued commands; `Outlook` is what it will be once the router has
caught up. `Churn` is the window of a plan without a duration. Router failures, lost
commands and dying requests or tasks are faults, bounded by `MaxFaults`.

### InvoiceLedger

Invoices with their items, payments and numbers. Each operation is split at its
commits, and the read of an invoice is kept apart from the commit that rests on
it. `_apply_payment_to_invoice` adds to the amount it read;
`_update_invoice_payment_status` sums the settled payments; `create_payment`
commits the payment before it applies it; `verify_payment` and the retried task
settle whatever status they find; `bulk_update_payment_status` sums but does not
activate. Numbers are COUNT + 1 of the month and unique. Six invoice statuses are
told apart as three: paid, overdue and the rest.

### RouterProvisioning

The sessions of one router. `job` is a request or task under way with its copy of the
session (`mem`): the background workflow that executes the commands one by one with
retries and verifies them, the script that the polling agent fetches instead (or, if
queueing it raises, the workflow after all), the router's reports, `cancel`, `retry`,
and the rollback task. A report is taken at its word: `provisioning_script_complete`
writes what it says over any status, and `provisioning_notify` calls
`store_router_credentials` first, which marks the router provisioned before anything but
the bootstrap was configured. `heard` remembers which sessions the router has reported
on. A rollback takes its commands in any order, since no command is given an
`execution_order`. `mon` is a run of the monitor, which sends the rollback tasks before
it commits the timeouts. The automatic rollback after a failed step is not in the model
because the code never performs one: it calls `get_api`, which the router service does
not have.

### TenantMirror

auth-api's tenants change and publish events that come in any order, again until
acknowledged, perhaps twice at once. `upsert` matches an organization by tenant
id, then uuid, then slug, settles the slug (`FirstFree`) and commits what its copy
changed, which the unique columns can refuse; then it starts a trial. A user event
or a login goes through `provision_sso_user`, with the user committed before the
link to the role. Organizations can also be created and renamed locally.

A tenant event may leave out the slug, the name or both. A missing name becomes
`IspProvider`, which is written like any other: `name` is 0 for a name given here, v
for the one that change v told, and `IspProvider` for the default. `saved` remembers
which changes were saved, so that an event counts as overtaken whether or not it
told a name.

### PPPoERenewal

A renewal in the portal: the payment is committed, the intent is created and its
id committed, the customer pays, the callback page has it verified. A
verification holds the payment's lock from its flush and the subscription's from
the flush of the new end date, over the call to the router, until its commit; what
it read before it does not read again. Against it run the expiry task and
renewals by the office (`OfficeLoad`, `OfficeCommit`), which set the end date to any
future one; `due` is where the office last put it, and a validity further for each
payment since. The subscription that would replace an expired one lacks
the `router_id` its table requires, so that branch always fails
(`RenewInactive`).

### RouterRegistry

Devices with a name and an organization, which stay theirs, and the table `routers`. A
creation checks for the address and the name (`CreateCheck`, two selects in one step,
since no property is about addresses), picks a port with a select of its own
(`PickPort`), then inserts; an upsert renames what it matches; a deletion looks for
subscriptions, waits for the device, then deletes. The bootstrap script is `ScriptLoad`,
`generate_agent_token`, `PickAddress` and `ReserveAddress`, each a transaction or a read
of its own on the copy of the row loaded first; the device that imports it fetches the
agent, configures the tunnel and registers its key, and any of these can be lost. An
address that cannot be added is only logged by the device, which posts its key all the
same: `missed` keeps such addresses. `list_peers` is what the WireGuard server is told.
`sync_router_status` judges by the rows it read at its start. A poll reads the row
(`PollLoad`) and saves it (`handle_poll`); it writes the status only if the copy was not
online, as the session sends only what has changed. Names are looked up over all
organizations by the script and the registration, as in the code. `crossed` records a
deletion while something else is under way, a rename, an insert between the name check
of another creation and its choice of a port, and two scripts of one router made under
each other.

### MC modules and proofs

`MC<Module>` instantiates a module for TLC. `<Module>Proofs` holds the theorems
about a module: there is one for the outbox, purchases, the ledger, the registry, the
mirror and provisioning. The theorems about the queue, its refinement of
`CommandDelivery` and the theorems about subscriptions, which build on those about the
queue, are together in `RouterSyncProofs`; those about vouchers and renewals are in
`AccessProofs`.

## Runs

| Run (cfg) | States | Checks |
|---|---|---|
| `queue_single_run` (`QueueSingleRun`) | 549k | Agent runs do not overlap; two commands, two priorities. `RetryBudget`: a command fails exactly when its attempts are used up. `ResultIsFinal`. `DeliversAsPromised`: the refinement of `CommandDelivery`. |
| `queue_overlapping_runs` (`QueueOverlappingRuns`) | 66k | Two runs race for a command. `SuccessMeansExecuted`; `OnlySharedIsRevised`: a recorded result is revised only if two runs have held its command at once; `EventuallySettled` under fairness. |
| `sync` (`Sync`) | 2.30M | Two handlers on one subscription, routers with and without the agent; commands that are retried, resent and overtaken. `SyncInv`: a synced active subscription has its account, without the agent an enabled one, and a subscription is expired only past its end, unless the history says why not. `LatestCommandDecides`: the youngest command that was executed decides, unless an opposite one could still reach the router when it was queued. |
| `sync_renewed_stays_disabled` (`SyncRenewedStaysDisabled`) | | **Violation** of `ActiveSyncedEnabled` on the agent path, with one handler, no error swallowed and nothing that could interfere: a renewal queues `create_user`, which leaves a disabled account disabled. |
| `outbox` (`Outbox`) | 294k | Two transactions and publishers one after the other, or one transaction and two publishers at once; a batch that splits a pair, and a crash. `OutboxInv`: no stamp without the event in the stream, no counter past its limit. `DuplicatesExplained`, `PaymentBeforeSubscriber`, and `EveryEventSettles` under fairness. |
| `purchase` (`Purchase`) | 289k | Two purchases confirmed one at a time, or one on which the consumer, polls and callbacks race; crashes anywhere. `VoucherInv`: one voucher each, names of their own, no account without a paid voucher. `FinishedIsMirrored`: revenue is booked once and the customer is on the dashboard. `CompletedHasVoucher`, and `PaidIsCompleted` under fairness. |
| `voucher_life_cycle` (`VoucherLifecycle`) | 687k | A voucher with two requests, faults on either router path and edits, next to one without a duration that fills the reconciler's batch of one. `RedeemInv`: redeemed once, no access that the reconciler does not know of. `WindowIsHonoured`: nobody is cut off early. `AccessEnds` under fairness. |
| `ledger` (`Ledger`) | 1.4M | Two invoices, two payments, two requests, two months. `InvoiceInv`: balance and totals add up. `PaidMatchesPayments`, `PaidIsActivated`, `NumbersGapless`. |
| `provisioning` (`Provisioning`) | 1.4M | Two sessions of a router, two jobs, two commands. `SessionInv`: one active session. `RollbackInv`: an owed rollback is not forgotten and one that is done was effective. `CompletedIsConfigured`, `EndedIsFinal`, and `ProgressEnds` under fairness. |
| `mirror` (`Mirror`) | 2.16M | Two tenants, a user, two handlers, a local organization or a renaming; events with and without slug and name. `MirrorInv`: users in their own tenant with the permissions of their role, trials once. `MirrorUpToDate`, `LinkIsStable`. `NoneIsRefusedForEver`: no event clashes with a unique column every time it comes. |
| `pppoe_renewal` (`Renewal`) | 453k | Two renewals, two requests, the expiry task and the office, which may set any date ahead. `RenewalInv`: what is completed was paid and has renewed something. `PaidTimeKept`: each payment extends once and no period is lost. `PaidTimeRuns`, and `PaidIsCompleted` under fairness. |
| `registry` (`Registry`) | 2.05M | Two devices, of one or two organizations and names, two requests at once. `RegistryInv`: one row per name in an organization, no router deleted under a subscription. `AgentAuthenticates`: fetching the script again does not shut out the agent. `TunnelAgrees`: the WireGuard server is told the address the script gave the device. `OfflineIsDeserved`. |

The type invariant of a module is a conjunct of the first invariant its run lists; the
queue's `TypeOK` is proved. Every property of a passing run has a mutant in
`PROJECT.json`: an operator of the module, marked "Mutation" there, that changes one
definition the way a bug would and makes TLC find the property violated.

### What is needed for the properties to hold

The conditions below are needed: TLC finds a counterexample without them.

* Queue: with two runs `ResultIsFinal`, `RetryBudget` and `DeliversAsPromised` fail; a
  result can be revised by the other run. `OnlySharedIsRevised` says that this happens
  only to commands that both have held.
* Subscriptions: `disable_user` (priority 2) overtakes a pending `create_user` (priority
  3), which then gives the customer access again; a late `remove_user` takes the account
  of a customer who has come back (both: `amid`). A late report of an earlier command
  marks the row synced (`misreported`). A failed removal and a failed update of an
  account are taken for successes (`ignored`). A renewal that commits between the expiry
  task's select and its write is overwritten (`renewed`), and a direct call under way
  undoes an activation that commits meanwhile (`crossed`).
* Purchases: when confirmations overlap, both find the purchase unconfirmed and make a
  voucher each, and both can read the same username counter. The webhook does not look
  at the status, so a repeated callback makes a second voucher with no overlap at all.
  It believes what it is told: a purchase that was never paid gets a voucher
  (`ProvisionedHasVoucher` therefore speaks of payments that treasury settled or a
  callback reported), and a late "failed" is written over a completed purchase, whose
  message is acked, so `PaidIsCompleted` excuses it. After a crash between the counter's
  commit and the voucher's, the purchase is completed without a voucher for good.
  Organizations that use the same prefix all start at C001, and `users.username` is
  unique over all of them: the second customer of that name gets a voucher and is not on
  the dashboard, nor is the revenue booked. `FinishedIsMirrored` excuses exactly that;
  the run has one organization, the theorem any number.
* Vouchers: access slips from the reconciler when the router cannot be reached (the
  voucher is marked expired all the same), when `hotspot_login` applies the date to
  redeem a voucher by to one that is in use (the column's comment says "Expiry before
  use"), by an edit in the dashboard, by a login with a voucher that was never redeemed,
  by a login under way while the voucher expires, and by a request that dies after
  calling the router. Two requests that have both loaded a voucher redeem it twice.
* Ledger: two requests with the same invoice in hand lose a payment; a crash after the
  payment's commit leaves the invoice open; a second `verify_payment` or a retried task
  credits twice; a bulk update settles without activating; a deleted item leaves the
  total; a payment taken back leaves the amount on the invoice, and one that an edit
  sets to completed is counted by the payments and not by the invoice.
* Provisioning: two requests, or a retry, which does not look at all, make two active
  sessions; a copy from before a session ended revives it; a rollback task that starts
  before the monitor commits finds nothing to do. A session is completed and the router
  marked with no command executed when the router says so: its bootstrap does, at once.
* Mirroring: an event that was overtaken brings back the old name, and one that tells
  none renames the organization to the default; once a slug has passed from one tenant
  to another, the match by slug takes over an organization that is linked already; two
  handlers or a crash leave a user without its role.
* Renewals: two verifications of one payment extend twice; of two renewals at once one
  is lost; a renewal under way with the expiry task is cut off. A payment for a
  subscription that has expired is never completed.
* Registry: of two requests that both find no row the second is stopped only if it
  picked its port before the first inserted: the two have then picked the same one, and
  it is unique. If the insert comes between the other's name check and its choice, or a
  deletion frees a port between the choices, both rows stay; and an upsert can give a
  row the name of another. An address that the device could not add is told to the
  server like one that it has; two scripts made under each other before there is a token
  make two tokens; a deletion, a rename or two scripts at once make the tunnel disagree;
  a subscription made while a deletion waits for the device goes with the router; a poll
  that is saved after the status task's read is overwritten, or leaves the status alone
  because it read the row while it was online.

### Bounds

| Bound | Value | Why it is enough |
|---|---|---|
| `Commands` | 1 to 3 | two rows are needed for order and priority, three for expire-renew sequences |
| `Runs`, `Handlers`, `Workers`, `Publishers`, `Requests`, `Jobs` | 1 or 2 | every race in this code is between two actors on one row |
| `Raced` | one | when actors overlap, the purchases or transactions are one: the race is on one row |
| `MaxRetries`, `MaxAttempts` | 1 to 2 | one retry and its exhaustion |
| `MaxTime`, `LastDay` with `Expiry`, `Stale`, `Period`, `Window`, `Validity` | 2 to 5 | rows expire, go stale, and are re-sent before they expire; two windows, or a renewal of a renewal, fit |
| `MaxCrashes`, `MaxFaults`, `FailureBound`, `MaxEvents`, `MaxCallbacks`, `MaxEdits` | 1 | each fault meets every state; two independent faults are not needed for any failure named above |
| `MaxOps` | 2 to 4 | subscriptions: an operation and two that meet; provisioning: two requests besides the reports; ledger: two payments on an invoice with items; registry: two rows, a script and a deletion |
| `Purchases`, `Payments`, `Invoices`, `Vouchers`, `Sessions`, `Tenants`, `Devices` | 2 | one to be right and one to be mixed up with |
| `MaxRows`, `MaxPort`, `MaxAddr` | 3, 2, 2 | a row made in place of a deleted one; ports and addresses run out |
| `Rows`, `MaxLocal` | 3, 1 | both tenants and a local organization |

`Operations` are the requests and tasks a run of the subscriptions has: all of them
without the agent; with it activate, expire, churn and purge in `sync`, which queue all
three commands, and activate, expire and renew in the violation. A subscription is
created again only when nobody holds the deleted row any more. An edit of a voucher
leaves its date or sets it to the present moment, which is past after a tick.

In the registry no request starts after something was crossed, and in the
provisioning none once two sessions are active: what is already under way goes
on. A device has one poll under way at a time.

Actors and ids are interchangeable; symmetry is used only in runs that check
safety. `CHECK_DEADLOCK FALSE` is set where the model really stops: when
everything is published, confirmed or handled, or the bounds are used up.

### Fairness

* Queue: time passes, beat keeps starting the cleanup task, and a run that was
  handed a batch ends, one way or another. Nothing makes a router poll, a command
  succeed or a report arrive.
* Outbox: beat starts the task every few seconds; a task with a connection comes
  to its end; NATS is not unreachable for ever (strong fairness of `Connect`).
  Nothing makes a publish succeed.
* Purchases: JetStream delivers a message again until it is acked, and a
  confirmation that is retried again and again is not stopped at the same place
  every time (strong fairness of `ReadCounter` and `CredentialsCommit` of some
  handler). Nothing makes a customer pay, a poll come or the voucher be committed.
* Vouchers: time passes, beat keeps starting the reconciler and a run comes to its
  end. Nothing makes the router answer or execute.
* Provisioning: clocks run and beat starts the monitor every five minutes. Nothing
  makes the workflow go on, the router report or the agent poll.
* Renewals: a request under way goes on, and the callback page asks until it has an
  answer. Nothing makes the customer pay or the expiry task run.

## Proofs

All hold for every value of the constants that satisfies the module's assumption.

RouterSyncProofs, on RouterCommandQueue (`QueueAssumption`: the limits are natural
numbers, retries and batches at least 1):

* `TypeCorrect`: `Spec => []TypeOK`. Its last conjunct, that a run past its poll
  has a command in hand, is what makes every `Head(batch[r])` meaningful.
* `SuccessIsEarned`: `Spec => []SuccessMeansExecuted`, for any number of
  overlapping runs. The invariant is not inductive: a report could carry a
  success for a command nobody executed. `OutcomeIsEarned` excludes that.
* `RevisionsAreShared`: `Spec => OnlySharedIsRevised`, for any number of runs. It
  rests on `BudgetInvariant`, which says of every command that no two runs have held
  at once: only one run holds it (`HeldOnce`); it is unsettled while it is in a batch
  (`BatchUnsettled`: else the UPDATE by id in `mark_commands_sent` would reopen a
  settled row); the attempts a report handler has loaded are still the row's
  (`LoadedIsFresh`: else it would write a counter that is too low); and it is failed
  exactly when its attempts are used up.
* `RetriesInBudget` and `ResultsAreFinal`, under `SingleRun`: an open command has
  an attempt left, a command is failed exactly when its attempts are used up, and
  a settled row is never changed. With one run nothing is ever shared
  (`NeverShared`), and the rest is `BudgetInvariant`.
* `QueueDelivers`, under `SingleRun`: the queue implements `CommandDelivery`. The
  step simulation needs `QueueInv`, the conjunction of the invariants above: a
  report is a success or a counted failure of the abstract command only if the row
  is not settled, the attempts it writes are one more than the row's, and what it
  reports was executed. Polls, resets and cleanups move rows between open and
  expired or are not seen.

RouterSyncProofs, on SubscriptionRouterSync (`SyncAssumption`: the priorities 2 and 3
that the sync uses exist, and "none" names no subscription):

* `SyncUsesQueue`: `SyncSpec => Spec`. Every step of the composition is a step of the
  queue or is not seen by it, so the theorems above hold of it as they stand.
* `SyncConsistent`, `RowsAreTrue` (`SyncInv`) and `YoungestDecides`
  (`LatestCommandDecides`) hold for any number of subscriptions, handlers, commands and
  overlapping agent runs, with and without the agent, and assume nothing of when
  operations start. The run has one agent run; the theorems show that overlapping runs
  do no harm here, because what they can revise is a result, not the order of effects.
  The invariant `Consistent` says that a command which is not open and in no run's
  hands is dead and stays so (`Settles`), and that an older command which is not dead
  is in the `amid` of every younger one (`Rows`): so what is retried, resent or reported
  late is named there. An executed youngest command has left its mark on the account
  (`CommandsOK`), and a flag that is set and not misreported rests on an executed
  `create_user` after the last removal (`RowTrue`, `Provided`). A handler on the direct
  path holds the row's status unless it was crossed, and has made the account usable
  before it writes the flag; one that expires or churn-marks has read a row past its
  end unless a renewal met it (`HandlerOK`).

EventOutboxProofs:

* `OutboxTypeCorrect`: types and limits; a publisher holds results only while it
  publishes (`HandsEmpty`).
* `PublishedIsSafe`: `Spec => []OutboxInv`, for any overlap of publishers.
  `SentIsInStream` says that what a publisher is about to stamp is in the stream
  already, which is why the commit at the end is safe.
* `PaymentComesFirst`: `Spec => []PaymentBeforeSubscriber`, for any overlap. The
  invariant `OrderInv` says of each batch that payment.received is in it ahead of
  subscriber.created, or was refused, sent or counted before: a batch that takes
  the oldest rows cannot have skipped it.
* `DuplicatesAreExplained`: `Spec => []DuplicatesExplained`. `CopyInv` says that
  without overlap one publisher works at a time, what it has loaded is still true,
  and one copy more than crashes and attempts is allowed only to an event that is
  stamped or about to be.

HotspotPurchaseProofs (`PurchaseAssumption`: `OrgOf` gives each purchase an
organization; nothing is assumed finite). The invariant `PurchaseInvariant`
proves has three parts:

* what is true however confirmations race: only a payment that treasury settled is
  announced, and only that or a callback completes a purchase (`Opened`), what a
  confirmation has learnt stays true (`Learnt`), vouchers and router accounts are backed
  by payments that were settled or reported and by committed vouchers (`Backed`), a
  payment is booked once (`Booked`), and a completed purchase has its voucher, or
  somebody about to make it, unless a confirmation was cut short (`Handed`);
* what is true without overlap: one confirmation is under way (`Serial`), the counter is
  above every name that was given out (`Names`), what the bridge read is still so
  (`Mirrored`);
* what is true without overlap and callbacks: a purchase that is being confirmed has no
  voucher yet (`Once`).

`VouchersCorrect`, `FinishedAreMirrored` and `CompletedHaveVouchers` follow.

InvoiceLedgerProofs (`LedgerAssumption`: the rows, the requests and the prices are
finite, as a table and a `numeric(10,2)` column are). `LedgerInvariant` adds to the
properties what each operation carries from its read to its commit (`Carries`), and
that a number under way was drawn as a count plus one (`Drawn`):

* `NumbersHaveNoGap`: a number that was drawn and is not taken can only be the next
  one, because those below it are taken; and the unique column refuses the others.
* `PaidIsWhatWasPaid`: the sums are folds of FiniteSetsExt over sets of payments and
  of requests. That a fold adds an element, takes one away and follows the change of
  one amount is proved for every finite set: the set of subsets for which it fails
  has a least element, which cannot be (`LeastSubset`, from the well-foundedness of
  the strict subset ordering).
* `InvoicesCorrect` and `PaidAreActivated`: columns that agree and what a paid invoice
  has set off, except where `flaws` says why not.

AccessProofs, on vouchers (`VoucherAssumption`: the vouchers are finite, and a column
that is not set is no time on the clock). `VoucherInvariant`:

* what the reconciler has loaded is still so: a row does not become unissued, and the
  time of a use stands unless two requests met, so what it puts behind it is over
  (`TaskOK`); on the direct path it is disabled too or known to have slipped;
* a voucher that was used is marked so and nobody is redeeming it, and of those who
  redeem another there is one, unless two requests met (`Once`). `RedemptionsAreTracked`
  needs this, and that a login goes on only with what it found active or used;
* a disable waits for the router only when the window is over (`Ended`), which carries
  `WindowsAreHonoured` over commands that are lost or swapped: they add no disable.

What becomes of an account once its commands are executed (`Outcome`) is stated by what
the queue holds instead of by a fold, so the facts that a command that joins the queue
has the last word and that executing the first one changes nothing (`LastCommand`,
`FirstCommand`) are proved for queues of any length; that it is the fold is an `ASSUME`
of the MC module, which TLC evaluates for queues of up to five commands.

AccessProofs, on renewals (`RenewalAssumption`: the validity is a positive number).
`RenewalInvariant` rests on the locks: of the verifications of one payment at most one
is past its flush, and of all at most one past the flush of the end date (`Locks`). To
it come what a verification knows of treasury, which is final (`JobKnowsTreasury`),
that a second one to get past the lock has been seen to race (`ExtendedIsCompleted`),
that a renewal alone writes the end date that is due (`OneRenewal`), and that an expiry
alone writes only what has run out (`ExpiryAlone`). `RenewalCorrect`,
`PaidTimeIsKept` and `PaidTimeDoesRun` follow.

RouterRegistryProofs (`RegistryAssumption`: devices and requests are finite).
`RegistryInvariant` says what each request, script, device and the status task hold
about the rows:

* `RegistryCorrect`: two creations of one name that have both picked a port cannot both
  commit unless a deletion came between, because both have picked the least free one and
  ports are unique; before its choice a creation has met no row of the name, unless one
  was inserted since its check (`Creations`); if the router of a deletion under way has
  a subscription now, it was made after the deletion had looked (`Deletions`).
* `AgentsAuthenticate`: the tokens that rows, scripts and agents hold are the row's
  (`Tokens`), unless scripts overlapped or the row was crossed.
* `TunnelsAgree`: the address a script carries is the row's, and the device has been
  told to add it before the server is told (`Tunnels`).
* `OfflineDeserved`: what the status task has read is still so, but for the polls that
  were saved after its read (`Polls`).

RouterProvisioningProofs (`ProvisioningAssumption`: the commands are numbered from 1 and
finite). `ProvisioningInvariant`:

* a job works on a session that has a row, remembers the status it has read or written,
  and the critical commands it has passed are recorded (`JobsOK`);
* without overlap one session is active (`OneActive`), which gives `SessionsAreSound`;
* whoever is about to mark the router has recorded every critical command or acts on a
  report (`JobOK`), so `CompletedIsConfigured` is inductive with it:
  `CompletedMeansConfigured`;
* what a rollback has still to take back is in its list, unless something was configured
  since it began (`Restores`), and the monitor has sent off the rollback of every
  session it is about to time out (`Owed`): together `RollbacksAreKept`.

`EndedStaysEnded` is an action property: of the steps that write a status, each that
finds a final one rests on a copy from before the end, on a report (`heard`) or on a
deletion.

TenantMirrorProofs (`MirrorAssumption`: a tenant's id is a UUID, so no slug, number or
NULL). `MirrorInvariant`:

* always: messages say what was true (`Messages`), rows are numbered without a gap and
  unique (`Table`), handlers and users refer to what exists (`Handling`), and users
  have the permissions of their role but for the named exceptions (`RoleIsLinked`);
* while no slug has passed from one tenant to another: what a handler or a user has
  found is its own, because a slug has one holder (`Owned`); a trial is started by the
  handler that created the row, which the unique uuid allows once (`Trials`); every
  change was saved or has an event that is still to be acknowledged (`AllSaved`), a
  name that a handler has read is that of a change that was saved (`Follows`), and a
  row shows the last name that was saved, or the default one if a later change told
  none (`Shown`; all of it `Names`).

`MirrorCorrect`, `MirrorIsUpToDate` and the action property `LinksAreStable` follow.
`EventsAreAccepted` also needs that `FirstFree` finds a slug: there is one suffix more
than there are rows, so by the pigeonhole principle they cannot all be taken
(`FirstFreeIsFree`). The proof of `MirrorIsUpToDate` shows that of the events only one which
was overtaken can spoil the mirror. Two handlers that save events of one tenant at the
same time do not: the older of the two either is overtaken or did not change the name.
A handler whose event tells no name and whose copy has the default already writes no
name, so the one another handler has just written stays; hence the second case of
`MirrorUpToDate`.

Each inductive invariant was checked with TLC on an instance like the run's before it
was proved.

Only model-checked:

* the liveness properties (`EventuallySettled`, `EveryEventSettles`, `PaidIsCompleted`,
  `AccessEnds`, `ProgressEnds`), because they need fairness;
* that `Outcome` is the fold of the commands' effects, which needs induction over data.

## Not modelled

* The device detection of `services/ping_monitor.py` and its WebSocket stream,
  which keep their state in the memory of one process. Reading it shows that
  `stop_monitoring` deletes its entry twice (the second is a `KeyError`), that a
  result stored by `mark_online` is removed when the cancelled loop ends, that two
  starts leave a loop that is not registered, and that a loop in another replica
  cannot be stopped.
* Of the registry: renames by PATCH, devices, backups, router actions, the status
  that `POST /routers/sync-all` and `sync_router` write on request (a second writer of
  OFFLINE beside the task, which asks the router directly and does not look at polls),
  a device that is given another name, and the limit on the number of routers, which
  only the create form enforces.
* The PPPoE webhook: it filters on a column `Payment` does not have.
* `sync_all_unsynced_subscriptions`, which nothing calls: an operation that commits
  its status and fails to queue the command leaves the router as it is. An expiry
  leaves `is_router_synced` set.
* Bandwidth: limits computed from a plan and sent to a router.
* Plans, gateways, authentication, RBAC, tenancy, tickets, leads, expenses,
  campaigns, e-mail, notifications, analytics, schemas, migrations, seeds: CRUD,
  queries, declarations and outgoing messages. They are the larger part of the
  repository by lines and keep no state that several actors work on in steps.
* Text: codes, messages, scripts, RouterOS syntax. What a command does is modelled,
  how it is written is not.

## Further work

A module for the device detection of `ping_monitor`.
