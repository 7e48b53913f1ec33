# FIS monitor: specifications, model checking and proofs

FIS monitor (`src/src/fis_monitor`, Python) is a program one user runs on one
machine. It polls a donor site for land lots, stores them in SQLite, shows them
in a browser over server-sent events and mails the new ones. One process, a
handful of threads: the scheduler, a backfill worker, the notifier, the full
scan, the session mail, the license check, a file watcher with its timers, the
pool of the web server and a browser executor. There is little arithmetic in it
and a lot of order: who may write what and when, what survives a crash, what a
stop may cut off. That is what the modules in this directory describe.

Paths below are relative to `src/src/fis_monitor` unless they start with `docs`.

1. [Inventory](#1-inventory)
2. [Modules and how they follow the code](#2-modules-and-how-they-follow-the-code)
3. [Runs, bounds, results](#3-runs-bounds-results)
4. [Fairness](#4-fairness)
5. [Proofs](#5-proofs)
6. [Where code and documentation disagree](#6-where-code-and-documentation-disagree)
7. [What is not modelled](#7-what-is-not-modelled)
8. [Plan](#8-plan)

## 1. Inventory

For each component: its state, its operations, whom it talks to, what is hard
about it, and what makes it right.

**Notification dispatcher** (`services/notifier_dispatcher.py`,
`infra/sqlite/repositories/notifications.py`, `services/dnd.py`).
State: a bounded in-memory queue of lots, the table `notifications` with one row
per (lot, channel, recipient), the DnD key. Operations: `dispatch` from the
monitor cycle; `consumer_loop`, one thread, which takes a lot and visits channels
and recipients, and, when the queue stays empty, sweeps rows that are still
pending; `_send_one` with its retries. Hard: each repository call commits by
itself and the process may die between any two of them; the mail server may have
accepted what the table does not know. Right: every row ends, the attempts of a
row are capped over all restarts, a duplicate needs a crash.

**SMTP delivery** (`infra/smtp/email_notifier.py`, `infra/smtp/host_policy.py`,
`infra/sqlite/repositories/smtp_credentials.py`). State: one row of credentials.
A mail resolves the host, asks the policy about each address, pins one and talks
to it with STARTTLS or implicit TLS. Hard: names resolve differently each time,
and the dialogue may break at any step, after the server took the mail too.
Right: only permitted addresses are connected to, and the verdict that closes a
row is true.

**Event bus and SSE** (`infra/sse/bus.py`, `infra/sse/subscriptions.py`,
`infra/sse/sse_stream.py`, `web/routes/events.py`). State: the list of
subscribers, a bounded queue each, the last event of each normal type (replayed
to a tab that attaches within a few seconds), the last of each critical type.
Any thread publishes; a tab subscribes, drains, leaves. Hard: a publication is
a snapshot, a slot write and one queue operation per tab, with no lock around the
whole. Right: no event twice, no reordering within one publisher, and each
addressed event accounted for.

**Backfill** (`services/backfill.py`, `services/paginated_list_fetcher.py`).
State: the running flag, the stop event, the progress record, the keys
`backfill.done` (the "galka") and `backfill.total_last`, the skip-set it keeps in
the monitor cycle. Operations: `start`, `start_resume`, `maybe_start`, `cancel`,
and the run itself in a thread of its own. Called by the lifespan, the login
callback, two routes and the scheduler. Hard: three entries race for one flag,
two stop events, a walk over pages that fails in many ways. Right: one run at a
time, an exact skip-set, and nothing recorded as done that was cut short.

**Monitor cycle** (`services/monitor_cycle.py`,
`infra/sqlite/repositories/cycles.py`). State: the one-place trigger queue, the
skip-set, the row of the cycle. `run_forever` waits for a trigger or the
interval, checks the galka and the skip-set, and runs a cycle: open the row,
fetch the head page, ask the backfill, enrich, upsert, dispatch, close the row.
Hard: it runs beside a backfill that it starts itself and is woken by. Right: no
request lost, no cycle before the first whole backfill, one dispatch per lot.

**Lot rows and enrichment** (`infra/sqlite/repositories/lots.py`,
`domain/diff.py`, `services/enrichment.py`, `infra/parsers/detail_parser.py`).
State: the row of a lot, its point in an R-tree, its history, the mark of what a
backfill brought. Three writers replace or mark the row, each with more or less
of its columns. Right: the point is the row's, the history explains the row.

**Full scan** (`services/full_scan.py`). Once a day: walk the whole catalogue,
then go through the stored active lots in batches and mark those it has not seen
inactive. Hard: the donor changes under the walk, the database under the
batches, and the walk ends silently. Right: nothing that is on the site is
removed; what is gone is removed in the end.

**HTTP client and list parser** (`infra/http/client.py`,
`infra/parsers/list_parser.py`). A get tries three times; what comes back is
parsed whatever its status. Hard: an error page, a login page, a page without a
table and one whose rows cannot be read must not be taken for the end of the
catalogue. No state.

**Configuration** (`infra/config_source.py`, `services/settings.py`,
`web/routes/settings.py`, `infra/sqlite/repositories/region_subscriptions.py`).
State: a JSON file, a snapshot of it in memory, one subscription row for each
subject of a chosen region, a debounce timer. `save` writes the file and swaps the
snapshot; a file watcher arms a timer that reads the file again. Hard: routes
run in a pool, an editor writes whenever it likes, the rows are written after the
lock. Right: at rest the snapshot is what the file says and the subscribed
subjects have their rows.

**Lifespan and supervisor** (`app.py`, `infra/thread_supervisor.py`,
`infra/sqlite/connection.py`). Start in order, stop in two phases (ADR-014): set
the stop events, cancel the backfill, join the threads for 35 s, close browser and
pools, close connections, stop the watcher, release the lock. Right: nothing is
left open when the lock is given back, and an expired license ends the process.

**Instance lock** (`infra/lock.py`). `flock` on a file that `release` also
unlinks. Hard: unlock, close and unlink are three steps of one process among
those of another. Right: one process per data directory.

**Database and migrations** (`infra/sqlite/init_db.py`, `migrations*.py`,
`docs/db/schema.sql`). A new database runs the schema script, an old one the chain
of steps from its version. Hard: the numbering of regions changed twice, tables
came and went, and a kill may come between any two statements that commit. Right:
whatever the start, the end is what the schema describes.

**License expiry** (`services/license_expiry.py`, `infra/shutdown_cell.py`,
`infra/uvicorn_shutdown.py`). A daily check that requests the shutdown once and
arms a watchdog that ends the process if the shutdown hangs.

**Login** (`services/login.py`, `infra/playwright/login.py`, `web/routes/auth.py`).
A single-flight lock around a browser job on a pool of one thread; hooks on
success. Hard: a callback attached late runs on the request's thread, and the
lock is free before the hooks have run. Right: lock, future and browser never
belong to different jobs, hooks come in order, every flight ends.

**Session mail** (`services/session_expired_email.py`). A guard key so that an
expiry is mailed once. Hard: the guard is set after the mails and deleted by the
login from another thread; the bus may cut the loop's subscription off. Right: one
mail for one loss, and no loss that stays silent.

**Onboarding** (`services/onboarding.py`, `web/routes/onboarding.py`,
`services/smtp_test.py`, `web/onboarding_gate.py`). Five steps with a guard each,
the gate with its cache. Hard: reads and writes of keys are transactions of their
own, on the event loop and in a pool at once. Right: a step that is stored was
earned.

**Queries, feed and front end** (`services/lot_query.py`,
`services/sse_view_filter.py`, `web/feed_context.py`, `web/static/app.js`). The feed
comes in keyset pages and as live cards from the stream; the filter is decided by
SQL for the one and by Python for the other. Hard: pages, cards, filter changes
and reconnects come in any order over a table that changes. Right: no lot is
skipped or shown twice, and both filters agree.

**The rest**: diagnostics, logging, licensing tools, wiring. No behaviour
that a state machine would make clearer.

Who calls whom:

    routes, login ──start/cancel──► Backfill ──upsert──► lots ◄──mark── Full scan
        │                            ▲     │               ▲ │
        │ request_run_now            │     │request_run_now│ └─ feed ──► tabs
        └──────────────► Monitor cycle ◄───┘               │
                           │  │ └─ maybe_start ────────────┘ upsert
                           │  └─ session.expired ─► Session mail ─► SMTP
                           │ dispatch
                           ▼
                       Dispatcher ──► notifications, SMTP, Event bus ──► tabs
                           ▲                                   ▲
    routes, editor ─► Configuration ─ snapshot, subscriptions   └─ every service
    onboarding ─► Configuration, SMTP test; its gate is in front of every page
    lifespan ─► takes the lock, migrates, starts, stops and closes all of these

`PROJECT.json` lists the hazards of this code at the lines where they bite, each
with the properties that would show it going wrong, or the reason there is none.

## 2. Modules and how they follow the code

| module | models | composes / refines |
|---|---|---|
| `NotificationStateMachine` | what the table promises for a row, whoever drives it | abstract |
| `SmtpDelivery` | credentials, host policy, dialogue, verdict (operators) | |
| `NotifierDispatcher` | dispatcher, table, DnD, suppression, crash, restart | a send is one of `SmtpDelivery`'s outcomes; implements `NotificationStateMachine` |
| `ThreadEventBus` | bus, subscriptions, a tab's reader | |
| `BackfillService` | backfill with its page walk | |
| `ListPage` | a get with its retries, the list parser, the verdict on a page (operators) | |
| `LotRow` | the row of a lot, its point, its history (operators) | extends `ListPage` |
| `MonitorCycle` | scheduler, cycle, lifespan | extends `BackfillService`, each of its steps is a step of it; and `LotRow` |
| `FullScan` | daily scan with its page walk | extends `ListPage` |
| `ConfigSource` | file, snapshot, reload, rows, settings requests | |
| `LoginService` | login and refresh jobs, hooks, cancel, shutdown | |
| `SessionExpiredEmail` | the loop, its guard, the login hook, restarts | |
| `Migrations` | what each version's database becomes (operators) | |
| `AppLifespan` | processes, lock file, startup, shutdown, license | extends `Migrations` |
| `OnboardingService` | the wizard, skip, test mail, the gate | |
| `LotQuery` | the two readings of a view filter, keyset pages (operators) | |
| `Feed` | one tab: pages, live cards, filter, stream | extends `LotQuery` |
| `*_proof` | theorems about the module they are named after | `MonitorCycle_proof` also about `BackfillService` and `LotRow`, `NotifierDispatcher_proof` about `SmtpDelivery`, `AppLifespan_proof` about `Migrations`; `ThreadEventBus_proof` also holds those of `SessionExpiredEmail`, `Web_proof` those of `OnboardingService` and `Feed` |
| `MC*` | what a configuration file cannot write down | |

In all of them a step is what the code does between two points where another
thread can be seen: one transaction, one critical section, one network call. A
local variable appears when it is carried over such a point. Exceptions are
actions of their own where the code tells them apart.

**NotifierDispatcher.** `status`, `attempt_no` are the rows, `aged` says which
pending rows are older than `recovery_age`. `pc` follows `consumer_loop`,
`_process_lot`, `_recover_pending`, `_retry_one` and `_send_one`: `loop`,
`channels`, `recipients`, `recover`, `sweep`, `check`, then `attempt`, `cap`,
`send`, `record`, `backoff`. `calls` and `acked` are history: what reached a
channel, and what it accepted. `Crash` and `ThreadDies` may come at every point;
only `Crash` and `Exit` are followed by a `Restart`, because nothing restarts a
supervised thread. A suppressed mail answers "ok" as in the code (`SendResult`).

**SmtpDelivery.** An address is kept as what the policy says of it, a dialogue as
the step it reached and the fault that ended it. `set_smtp_credentials` checks the
host when it is stored, `send` checks it again with another answer of DNS, and
`Classify` is the chain of `except` clauses of `_deliver`. `Accepted` is the
server's side of it: whether it took the mail. `MailOutcomes` is what the
dispatcher's `send` step chooses from, over every stored row, answer and dialogue.

**ThreadEventBus.** A publication is `Publish` (snapshot of the subscribers under the
lock), `StoreSlot`, then per tab `Put`, and on overflow `FindFull`, `DropOldest` and
`RetryPut` for the normal circuit, `PutTimesOut` and `ForceRemove` for the critical one.
Between `FindFull` and `DropOldest` the tab may drain its queue and another publisher
may drop from it too, so the event taken out may come from a queue that is no longer
full; `dropped` is the history of what was taken out, and for whom. `Subscribe`
registers and replays in one critical section. A tab reads with `WaitOne`, which
respects the alive flag, and `Drain`, which does not.

**BackfillService.** `run[w]` is the record of a worker thread: where it is, the
region, the rows of the page in hand, the total it has been shown, whether it
erred. `combined` is the event the walk obeys; it is set by the watcher thread
(`WatchStop`) some time after `stop` or the supervisor's event, and the verdict
(`Cancelled`) reads the two originals, as the code does. `maybe_start` is three
steps, because the decision is taken under the lock from values read before it,
and the run's last two steps (`Release`, `ClearProgress`) overlap the next run's first.

**MonitorCycle.** `mpc` follows `run_forever` and `run_cycle`. `BackfillService`'s
actions appear with the state they leave alone. `life` is the lifespan: `boot`,
`up`, `cancelled`, `stopping`, `closed`; the connections may be closed in the middle of
a cycle, whose reads and writes fail from then on (`Connected`). A gate that cannot be
read ends the thread for good (`SchedulerDies`), every other failure ends the cycle:
`OpenFails`, `FetchFails`, `BaselineFails`, `UnexpectedError`. `WasNew` is decided in the
transaction of the upsert; the dispatch is a later step, so a crash between them is
possible. The row of the cycle itself is not kept (section 7).

**LotRow.** One lot's tables: the row, `is_backfill`, the point, the history, and the
row as it was inserted. Every writer is one transaction that replaces or marks the row
from what it read there, and the writers share nothing else, so the orders they come in
are enumerated by the function `Tables` and looked at where a cycle is about to write.
`StoodAt` reads a field's value off the history. One column stands for each way a column
is treated.

**ConfigSource.** A request is `Post` (reads the snapshot) and `Save` (file, snapshot
and hash under the lock); the region rows follow, one at a time and outside the lock
(`InsertRow`, `DeleteRow`). The watcher's `OnEvent` cancels and arms a timer; the
timer's thread is `Fire`, `ClearPending`, `ReadFile`, `Dedup` or `ParseFails` or `Swap`.
A timer that has fired is not cancelled any more, so a second one may run beside it. The
hash is taken of the first 4 KB; `SameSample` lets `Dedup` take a file for the known one
when only what may lie behind them differs. `reader`, `missed`, `lapsed` and `failed`
are history and name the excuses of the properties: `missed` is set where nothing will
tell the process of the file any more. A macro-region is a set of subjects and two may
share one, which is where removing the right rows is difficult.

**FullScan and ListPage.** Lots are numbers, a newer lot is larger, and both lists
are ordered the same way, so `Slice(S, o, n)` is at once a page of the site and
`LIMIT n OFFSET o` of the table. `Publish` and `Withdraw` change the site at any
moment, `Store` is the cycle's upsert. What the walk makes of a page is
`ListPage!Verdict`: `get` folds three attempts, `parse` decides by the signs of a
login page, the `tbody` and the rows that can be read. The ways a walk can end are
separate actions with one common effect, `WalkEnds`: that they are not told apart
is the point.

**LoginService.** A request is four steps: `Request` takes the lock, `Submit` hands the
job to the pool (or `Refuse` gives the lock back), `Track` records the active future and
`Attach` its callback. The pool's thread runs from `Submit` on, so that a browser may be
open, or the job be over, while there is no active future yet. `job[j].pc` follows
a job: `locked`, `queued`, `launch`, the browser's stages, `ended`; then `_on_done` as
`Settle`, `Unlock`, `AnyHook`, `LoginHook`, on the worker's thread or on the caller's,
whichever `Attach` found. `AuthCancel` closes the browser that is open. The shutdown is
the lifespan's two phases as far as it touches jobs.

**SessionExpiredEmail.** `mail.pc` follows `_handle`. A cycle asks for a page
(`RequestPage`) and reads the answer later, perhaps with cookies that are good by
then; the login's export of cookies and its hook are two steps. `polling` says whether
cycles run at all and are answered: the galka, the region that the backfill walks and the donor
change it at any moment. A walk of the backfill or a scan may ask for a page without
it: both publish `session.expired` as a cycle does (`backfill.py:681`, `full_scan.py:358`,
`:413`). `torn`, `told` and `slipped` are history: they name the only excuses the
properties allow.

**AppLifespan and Migrations.** `inst[p]` is a process, `name` and `flock` the lock file
as the kernel sees it, a name that points to an inode and a lock on the inode, `db` the
database all processes share. A startup reads the version, then stamps, creates or
migrates; `GetConnection` and `OpenConnection` are the check and the opening of
`ConnectionProvider.get`, which `close_all` can come between. `StartFails` is an error
before there is a container, also one in the middle of the schema script, of which the
stamp has been committed (half its tables count as none); `ThreadsFail` is one after it,
which runs the whole shutdown. `license` and `watchdog` are the expiry thread and its
timer; arming it may fail (`ArmFails`), and the end of a process is two steps,
`CancelWatchdog` and, behind the flush of the logs, `Exit`. `dates` is history: the
dates of subscription in the database that was found. In `Migrations` a database is a
record of what the steps change, and `OldDatabase(v, ...)` is what a program of version
v leaves behind.

**OnboardingService.** The forms are coroutines that never await between reading
the form and answering, so the loop runs one of them at a time: actor `loop`;
`POST /advance` and `/skip-email` run in the pool: the actors of `Thread`. All go
through `ReadStep`, `Guard`, `GuardTime`, `WriteStep`, one transaction each. A
gated page that misses the cache is `PageState`, `PageUrl`, `PageStore`.

**LotQuery and Feed.** `Membership`, `Shown`, `AfterCursor` are the SQL, `EventFilter`
is the Python predicate, `Ordered` the `ORDER BY`. In `Feed` a request is two steps, the
server's read and the browser's swap; `InsertLive` is `_findInsertBefore` of `app.js`.
`stream` holds the snapshots a stream was opened with. The vendored htmx does not reopen
the stream when the filter changes (section 6), which is what `AfterFilterChanged` says.

Mutants stand before the definition they replace, with the suffix that says
what is wrong in them; each is a mistake one could make in that code.

## 3. Runs, bounds, results

| run | question | distinct states | result |
|---|---|---|---|
| `dispatcher` | cap, duplicates, true verdicts, refinement, every row and queued lot served | 188 688 | holds |
| `bus` | order, at most once, accounting | 2 451 304 | holds |
| `backfill` | single flight, progress, skip-set, verdict, every run ends | 424 220 | holds |
| `cycle` | dispatch, requests, the lot's row, beside the backfill | 484 542 | holds |
| `config` | snapshot, rows after serial changes, edits get in | 682 519 | holds |
| `scan` | whole walks are right; gone lots are marked | 695 291 | holds |
| `login` | one flight, hooks in order, every flight ends | 375 469 | holds |
| `mail` | one mail per loss, a loss is mailed | 779 584 | holds |
| `process` | one instance, connections, schema, expiry | 605 108 | holds |
| `onboarding` | steps earned, no false refusal, age of the gate's answer | 1 049 286 | holds |
| `lots` | order, nothing lost, stream and feed agree | 3 426 228 | holds |
| `scan_partial` | `full_scan.py:333`: a partial walk marks nothing | | violated |

Each property of a passing run has a mutant, a plausible bug under which TLC
finds the property violated. Every safety property of these runs is also a theorem
(section 5). The types of eight modules, and four further properties, are theorems
only and not repeated in the runs.

What the passing properties say:

- `CallsCapped`, `DuplicatesNeedFailures`: over all lives of the process a row
  costs at most `MAX_TOTAL_ATTEMPTS` deliveries, and one more than the number of
  crashes and thread deaths acknowledged ones. `VerdictsAreTrue`: a row is closed as
  sent only if the server took the mail, as failed for good only if it did not.
  `ImplementsStateMachine`: terminal rows stay so and are never sent.
  `PendingIsResolved`, `QueuedLotIsServed`: recovery and queue do not starve each
  other.
- `InOrderOnce`: replay and fan-out together never show a tab an event twice or
  out of its publisher's order. `AddressedIsAccounted`: an event is under way, read,
  queued, refused twice, taken out by another normal event meant for the same tab, or
  the tab is cut off; and no publication takes more than one event out of a queue.
- `SingleFlight`: one run, and the flag says so exactly. `ProgressHasRun`: the
  progress shown is that of a run. `SkipSetIsExact`: no exit leaves a region
  behind, which would silence it. `VerdictIsSound`: the galka and
  the total come from a run that nothing cut, although the walk obeys a different
  event than the verdict. `RunsEnd`.
- `OneDispatchPerLot`; `RequestIsServed`: a request starts a pass without the interval
  running out, whatever fails in the pass under way, unless the scheduler has ended.
  `PointsFollowRows`, `HistoryIsWhole`: after any order of writers the point is that of
  the row, the history leads from the insertion to the row, and the time of discovery
  stays.
- `SettledIsCurrent`: when nothing is under way, the snapshot is the file, with two
  reloads at once too. There are four exceptions, none of which leaves an event to tell:
  an edit before the observer started, one that differs only behind the hashed 4 KB, a
  file that could not be read, and a reading swapped in after a later one was through.
  Without the second or the last of them TLC finds the property violated.
  `SerialDiffsKeepRows`: changes applied one after the other leave the right rows,
  shared subjects and crashes included. `EditIsPickedUp`, with the same exceptions.
- `CleanScanIsRight`: a walk that read every page, with no withdrawal under it,
  marks no lot that has stayed on the site. `GoneIsMarked`: repeated scans remove
  what is gone for good in spite of the shifting offset.
- `OneFlight`: lock, future and browser never belong to two jobs; until a job's future
  is recorded the active one is none. `HooksComeFirst`: the flight is free before the hooks
  run, and yet they are over before the next job's browser. `LoginEnds`.
- `OneMailPerEpoch`: no recipient has two mails for one loss unless the process or
  the loop ended between a mail and the guard. `LossIsMailed`: while cycles run, a
  loss nobody was told of does not stay silent because of a guard left from an older one,
  except one that mails already under way set again behind a login, or whose hook failed
  or was lost.
- `OneInstance`: two processes run only after an unlink took the name of a file
  another had opened, which the code can do and the property names.
  `ClosedBeforeRelease`. `SchemaIsLatest`: whatever version was found, the database is
  exactly what the schema describes, each subscription with the date it had, or else
  exactly the stamp without tables, after a kill or failure of its creation.
  `ExpiryEnds`.
- `StepIsEarned`: what the stored step claims was done, whatever order the tabs and
  a crash came in. `RefusedOnlyLast`: a form that saved what its step needs is
  never told that it is missing. `CacheIsRecent`.
- `CardsInOrder`, `NothingLost`: keyset pages and live cards make one table, and a
  tab that loaded everything has every lot it was owed. `StreamMirrorsFeed`: the two
  implementations of the filter select the same lots.

Bounds and why they are enough:

- *dispatcher*: one lot, one address and the browser channel, so two channels and
  two slots; cap 3, two attempts per `_send_one`, queue of 1, one failure. Rows
  meet only in the one consumer, which handles them one by one; the cap is
  reached in the second visit, i.e. across recovery or restart. DNS lists up to two
  addresses, ports are one of each kind. The safety properties are proved for all
  values.
- *bus*: two publishers with two publications each, a queue of 2, one tab, two
  normal types, one of them transient, and a critical one: overflow needs three
  events in the queue of one tab, and tabs influence each other only by the time a
  slow critical put takes. Both properties are proved for all values. Publishers
  are interchangeable, hence the symmetry; no liveness is checked there.
- *backfill*: two workers, so the end of one run overlaps the next; one region
  (`maybe_start` and `start` walk one region), one lot, pages of one row, at most two
  pages: a page can be the last by being empty or by the limit. The site shows
  1 record or no count, the stored count goes up to 2, so the difference
  with the threshold 0 is below, at and above it.
- *cycle*: one worker, one page; the scheduler is the only caller of `maybe_start`.
  Longer walks are the subject of `backfill`. One lot is enough for
  `OneDispatchPerLot`, which speaks of one lot at a time, and the proof covers the
  rest. Its row has up to three transactions (`WRITES = 3`): insertion, loss and return
  of a value need three. The proof covers any number.
- *config*: two macro-regions and three subjects, one of them shared; one saver, two
  timers, two changes. Two timers are what it takes for a late one to clear the
  reference to a newer, and for two reloads to overlap. A second saver makes it four
  times as many states; two saves at once are covered by the proofs, which hold for any
  catalogue, savers and timers and cover both safety properties.
- *scan*: four lots, pages of one, a limit of three pages, batches of two, two
  changes by the donor and one fault. A walk of three pages has a middle page; a
  site of four lots exceeds the limit; two batches are needed for the offset to
  matter.
- *login*: two jobs, which is one more than the flight admits; a job's record is
  free again when its hooks are over.
- *mail*: two recipients, so that a crash can fall between two mails; two events in
  the queue, the second being the one that comes while the first is handled. The
  proof covers any number of recipients.
- *process*: two processes and two inodes, the least for a stolen name; three
  subjects with the shared one of two macro-regions, which is where the
  renumbering could go wrong; every version from 0 to one above the latest. The
  proofs cover any catalogue and any number of processes and inodes.
- *onboarding*: one request in the pool beside the loop is every pair of a
  form and an `/advance`; two of them in the pool differ from that only by reads.
  Two pages that miss the cache can store in either order; `CACHE_TTL` of one tick. The proofs
  cover any number of threads and pages and any TTL.
- *lots*: three lots, two of one date so that a cursor can fall between them, an
  old lot with a late id; pages of one; filters by region, by area and none; one
  change of the subscriptions, two events on their way. The proofs cover any finite
  set of lots, any filters the form accepts and any page size.

`CHECK_DEADLOCK FALSE` stands where the system may really stop: bounds on
publications, changes or faults are used up, or the process has been closed.

## 4. Fairness

- *dispatcher*: weak fairness of the consumer thread (it is scheduled, and each
  blocking call in it has a timeout: `queue.get`, `stop_event.wait`, SMTP) and of
  time (`Age`). None for dispatches, crashes, restarts or settings.
- *backfill*: weak fairness of each worker: every HTTP request times out. None for
  the stop-watcher, the callers, starts, cancels or the site's answers.
- *cycle*: weak fairness of the worker, its watcher and the scheduler. `IntervalElapses` has
  none: `RequestIsServed` must not depend on an interval of hours. A scheduler that has
  ended, by a stop or because its gate could not be read, owes nothing.
  `BackfillDecides` needs strong fairness only because `Worker` is finite: in the
  code there is always another thread to launch, in the model there is one again
  and again.
- *config*: weak fairness of the watcher and of every thread that has begun; none for
  posts and edits. Nothing is assumed of how long a reload takes against the debounce
  of 300 ms.
- *scan*: weak fairness of the scan's own steps (the scheduler wakes up every day)
  and of the restart. The failures are bounded, the donor's changes too:
  `GoneIsMarked` is about a lot that is gone for good on a site that is not empty.
- *login*: weak fairness of each job's own steps (`JobStep`): every browser
  operation has a timeout, and the threads of the pool and of the request are
  scheduled again; attaching the callback is one of these steps. None for requests,
  cancels, the shutdown or a restart.
- *mail*: weak fairness of the loop (SMTP has a timeout), of the answer to a page and
  of asking for one while cycles run (`polling /\ RequestPage`). Whether they run is left
  open: before the galka, or while the region is walked, no page may be asked for and no
  mail is owed. None for logins, settings, boots.
- *process*: weak fairness of the expiry thread's own steps and of the watchdog's
  timer. None of uvicorn or of the shutdown, which may hang: that is the question.
- *bus, onboarding, lots*: none; their properties are safety.

## 5. Proofs

The proof modules hold theorems for every value of the constants, under the
`ASSUME`s of the modules they extend: sizes are positive, sentinels lie outside
the sets they mark the absence in, `Lot` is finite where it is counted, a filter is
one that the form's validator lets through (`FeedAssumption`), the regions of a lot
are in the catalogue (`LotQueryAssumption`). The bounds of the runs (`WRITES`,
`MaxPending`, `Toggles`, `MaxPublished` and the like) are natural numbers there. Each
model has a theorem for its types: `TypeCorrect`, or `CycleTypeCorrect`,
`MailTypeCorrect`, `LifespanTypes`, `WizardTypeCorrect`, `FeedTypeCorrect` where a module holds
more than one or the run checks it too.

**NotifierDispatcher_proof**: `CallsAreCapped`,
`DuplicatesAreFailures`, `VerdictsHold`, `MailIsPinned`, `Refinement`. Inductive:
`IInv`. The cap is not inductive
as it stands: `CallsArePaid` says that each call was paid by an attempt committed
before it (`mark_attempt` precedes `send`), strictly so while at `send`.
Duplicates need `AcksAreRecorded`: an open row has at most as many
acknowledgements as there were failures, unless the one in hand is about to be
recorded. `InHand` ties both to where the consumer stands. `Refinement`: the rows
and the calls take a step of `NotificationStateMachine` or stutter; `Sent`
there asks for a call, which `CallsArePaid` supplies at `record`. The lemmas about
`SmtpDelivery` come first: `ConnectsToPermitted`, for whatever DNS answers at
either time, and `ClosingVerdictsAreTrue`, for a fault at whatever step.

**ThreadEventBus_proof**: `InOrder`, `Addressed`, `TransientSlot`. What a
tab has seen or will see (`Seen`, what it drained and what is queued) changes in four
ways (`SeenSteps`): a publication puts its event at the end, an overflow takes one
out of the middle, a new tab gets its replay, or it stays. Order needs `SeenInv`,
that nothing there is newer than its publisher's last publication, and
`UnseenInv`: an event that a publication still has to deliver to a tab is not
among what the tab has. That holds because the snapshot is taken before the slot
is stored, so that a tab in the snapshot cannot have had it replayed; the mutant
that swaps the two breaks `InOrderOnce`. `Addressed` follows an event through
`Underway` and `Accounted`: while its publication is underway the tab is awaited or to
be cut off, and from then on a step only moves the event from the tab to what it
lost. `DropInv` charges each drop to the publication that made it: it was meant for the
tab, and has made no other there, because it drops once between finding the queue full
and going on to the next tab.

The same module holds `OneMail`, about `SessionExpiredEmail`. A recipient
who is still to be mailed has had no mail in this epoch (`Unmailed`), unless the loop
was torn off between a mail and the guard; the login's hook ends the epoch by
clearing both.

**MonitorCycle_proof**, first the backfill: `AtMostOneRun`, `NoGhostRun`,
`NoRegionIsLeftBehind`, `DoneIsEarned`. `SingleFlight` is inductive with the equivalence
between the flag and the active workers. `SkipSetIsExact` needs `SkipSet`, which tells
the walking worker apart. `VerdictIsSound` needs `CutHasCause`: whatever stopped a walk
stays set until the verdict, since only a launch replaces the stop event and a launch
needs the flag.

Then the cycle beside it: `BackfillIsKept` shows that every behaviour of the
composition is one of `BackfillService`, so its theorems carry over
(`BackfillIsSafe`). Then `NoRequestIsLost` (the scheduler never lies down
while a request is open), `GalkaComesFirst` (no cycle before the first whole backfill),
`DispatchIsUnique`. The last rests on `Sent`: a lot that
was dispatched, or is about to be, is stored, and no step makes it absent again.

Last the row: `PointsAreRows`, `PastExplainsRow`, for any number of writes. `RowInv` is what
one write keeps: the point is the row's, and for each field the history is `Whole`, that
is, each line starts where the field stood (`StoodAt`), and the last of them ends at
the row. The diff of two rows is at most one line for each tracked field, so a write
appends at most one line about a field, from the old value to the new
(`WrittenKeeps`). `Tables` is a recursive function into sets; that it has values
(`TablesExist`, `TablesAre`) and that all of them satisfy `RowInv` (`RowsStayWhole`) is shown by
its least counterexample, since an induction theorem cannot be instantiated here.

**ConfigSource_proof**: `SettledSnapshot` for any number of savers and timers and
whatever the hashed sample holds. The invariant follows the last reading of the file
(`reader`), since an older one either is swapped in before that one is through, or sets
`missed`. `ReloadIsFresh`: what the last reader has in hand is the file, or somebody will
read it again. `StaleIsKnown`: a snapshot behind the file has one of the two ahead of it.
`HashIsCurrent`: the hash is that of the snapshot, or of a file that did not parse, so
that what `Dedup` passes over is in memory already.
`RowsAreKept` for any timers: as long as diffs did not overlap there is at most one
(`OneDiff`), what the snapshot asks for has its row or is among what that diff will
insert (`RowOrAdd`), and it deletes nothing the snapshot asks for (`DeletesSpare`),
which is where a subject of two regions matters: it is removed only with the last.
A start inserts what is missing, which makes up for a crash between two rows.

**FullScan_proof**: `CleanScan`. Reading by offset is an argument
about ranks, the rank of a lot being the number of newer ones. `WalkCovers`: on a
walk under which nothing was withdrawn, every listed lot whose rank on the site
lies below the pages read so far is in `ids`; reading the next page extends it,
and a publication only raises ranks (`PublishCovers`). The walk completes at a page
without rows, and behind such a page there is nothing: ranks have no gaps (`NoGap`,
from `RankGrows`, `RankOfNext` and the least natural of a set). So `ids` holds all
that was listed (`BatchCovers`), and a batch marks only what is not in `ids`
(`TodoIsMissing`).

**LoginService_proof**: `HooksFirst`, `SingleFlight`. `PoolInv` says that the one thread
of the pool holds at most one job past the queue (`Taken`) and that no job settles
before its callback is attached; with the types of the jobs it gives the order of hooks
and browsers without any lock between them. `SingleFlight` follows one job from the lock
to its settling, through the points at which it has a browser and no future yet, and
uses `PoolInv` for the browser.

**AppLifespan_proof**, first the chain of migrations by itself. `Shape` is the database
that step n leaves of one of version v: each step turns the shape before it into the
next, the shape of version 11 is the latest, and every old database has the shape
of its version (`OldIsShape`), so the chain ends in the latest database with the dates that were
there, each of them (`MigratedIsLatest`); only a version before 4 had none to keep. Then
the processes. `LifespanTypes`. `ConnectionsClosed`: no thread
of the program runs before the lifespan has started (`ConnInv`), so whoever is past
`close_all` with a connection owes it to a failed startup or to a thread that had
passed the provider's check. `SingleInstance`: who runs has the lock of the inode it
opened (`LockInv`), and as long as nothing was stolen that inode is the one with the name
(`NameInv`), hence the same for all. `SchemaLatest`: the tables are missing only while
somebody creates them, or for ever after a kill or a failure there (`DbInv`); everything
else a process may find is an old database, for which the chain is proved, and `dates`
ties what comes out to what was found.

**Web_proof**, the wizard: `StepsAreEarned` needs `EarnedInv`, that what an actor has read is
still earned when it writes: the things a guard asks for are only ever added, so a
step behind a guard that held once is earned for good, in whatever order they are
written. `OnlyLastIsRefused` needs `LoopInv`: the form saves before it asks, and nothing
takes away what it saved or overwrites the outcome of its own test while it runs.
`CacheStaysRecent` needs `GateInv`: from the read on, what a miss carries is as old as the
time it has spent, which is what it stores with it.

Web_proof, the feed. `SearchAnswers`: a page holds the first rows behind its cursor and
its new cursor is its last row, or there is none and nothing is left; so no row lies
between what was shown and what is asked next. `InsertLiveDoes`: cards in order stay in
order when `_findInsertBefore` puts one more among them; whether it was below the
trigger, so that a page may bring it again, is what `late` notes. `CardsStayInOrder` is
`CardInv`, and needs `TabInv`: the answer to a "load more" lies behind the cursor the
section still has. `NothingIsLost` follows each lot owed through `OwedInv`: it has its
card, is in the stream, lies behind the cursor, or is in the answer under way or behind
that. `StreamMirrors` is about the two operators: for an active lot of known area both
decide the same by cases of the bounds.

Only model-checked are the liveness properties (`PendingIsResolved`, `QueuedLotIsServed`,
`RunsEnd`, `RequestIsServed`, `EditIsPickedUp`, `GoneIsMarked`, `LoginEnds`, `LossIsMailed`,
`ExpiryEnds`): they rest on fairness, and thus on `ENABLED`, which is beyond this prover.

## 6. Where code and documentation disagree

Run `scan_partial` shows the one that costs most. `full_scan.py:333` promises that a
partial set of ids is never used to mark lots inactive. The fetcher it calls
ends silently on a failed request, on a page that cannot be read and at the page
limit (`paginated_list_fetcher.py:135`, `:149`, `:160`, `:207`), the scan takes the walk for a
whole one (`full_scan.py:351`), and every active lot behind that page is marked.

The models contain the following too, as the code has it. None of them has a run
of its own; where a property holds, it is one that allows for them.

*Dispatcher and mail.*

- The recovery sweep does not ask DnD (`notifier_dispatcher.py:402`), which
  `services/dnd.py:19` says is asked before every delivery. The comment at `:411` lets
  a lot dropped by DnD come again with its next event; a known lot has none.
- A suppressed lot answers ok and is recorded as sent (`:165`, against `:93`).
- A host that does not resolve for a moment raises `SmtpHostPolicyError`, which
  `_send_one` does not catch: the consumer thread ends, and nothing restarts it.
- A temporary refusal of a recipient (450) or of the login (454) closes the row for
  good; a permanent refusal of STARTTLS, or a server without AUTH, is tried again.
  The code of the implicit TLS banner is ignored.
- The comment at `host_policy.py:205` wants control back within the timeout;
  leaving the `with ThreadPoolExecutor` block joins the worker that hangs.

*Events.*

- A full queue drops its oldest event whatever its circuit, so normal events push
  out a critical one (`bus.py:219`, against ADR-008). By then it may be full no longer:
  the event is lost although there was room.
- An event published between a tab's page and its subscription is to be replayed
  (`bus.py:87`); between the snapshot and the slot write it is not (`bus.py:109`).

*Backfill, cycle, scan, lots.*

- The end of a run clears the progress flag of the next one, so the status says
  idle during a walk (`backfill.py:231`, against `:77`).
- The docstring `backfill.py:15` keeps the cycle away from a region being walked;
  the check is made once before the cycle, which may start the backfill itself and
  go on writing (`monitor_cycle.py:334`, `:615`).
- The gate of a pass is read outside of any `try` (`monitor_cycle.py:303`): one error of the
  state table, or the closed connections of a shutdown that waited 35 s (`app.py:390`,
  `:441`), ends the scheduler's thread, and nothing starts it again.
- A row of `cycles` whose close fails stays open for good (`monitor_cycle.py:1000`), while
  the docstring of `run_cycle` has bugs raised only after it is closed (`:433`).
- `maybe_start` reads its baseline before it takes the flag (`backfill.py:275`, against
  `:268`).
- The scan's offset runs over a list that its own batches shorten
  (`full_scan.py:491`, against `:4`): a lot that is gone may wait for a later scan.
- A changed `full_scan_time` counts only after the wait already begun is over,
  though `post_schedule` calls its reload automatic.
- Rows of a list that cannot be read are skipped, so their lots are not in `ids` and
  are marked; a page of nothing else counts as the end of the catalogue.
- Each cycle enriches the whole head page again, and a failed enrichment, or a
  backfill that lists the lot, replaces stored coordinates and details by NULL.
- `mark_inactive` writes no line of history while a reactivation does, so the
  history of `is_active` has gaps. `HistoryIsWhole` leaves that column out.
- `UpstreamError` of `docs/architecture/08-error-strategy.md:12` is never raised: the
  client returns an empty page (`infra/http/client.py:178`).

*Configuration.*

- The settings routes run in a pool of threads; the later of two saves undoes what
  the earlier changed (`settings.py:355`, against ADR-023).
- The region rows are written outside the lock; dropping a region and taking it
  back can end with the region and without its rows (`config_source.py:276`, `:308`).
- The duplicate check hashes the first 4 KB of a file that may have 1 MB
  (`config_source.py:489`): an edit behind them is taken for the known file.
- Nothing serialises two reloads. One that read the file before another may swap after
  it (`config_source.py:533`): the older reading is then in memory and its hash too, until
  the next event.
- ADR-023 says that `save` notifies subscribers; nobody subscribes.
- A save writes what the environment overrides into the file, because the routes
  start from `current()`.

*Process.*

- Nothing joins the backfill's thread before the connections are closed
  (`app.py:383`, `:441`, against `:379`).
- `release` unlinks a name that another process may already have opened and
  locked: two processes then hold a lock each (`infra/lock.py:128`).
- `docs/db/schema.sql:35` stamps the version before it creates the tables, and
  `executescript` commits as it goes: a kill, or an error of a later statement, leaves a
  stamped database without tables, which the next start takes for current
  (`init_db.py:91`, against the docstring at `:14`).
- An error while the watchdog is being armed (`license_expiry.py:332` to `:380`) is handled
  as an expiry by `run_forever`, which finds it handled already: neither the watchdog nor the
  request for a shutdown comes, and the program goes on without a license.
- Between the cancelling of the watchdog and `os._exit` (`app.py:473`, `:494`) a hang in
  `logging.shutdown` is nobody's to end; the comment at `:463` counts on the watchdog there.

*Login and session mail.*

- The success hooks publish an active session while cycles still wait for the
  backfill; the guard `_terminal_status_published` does not cover a publication that
  failed and was swallowed, nor a failing `close` of the repository.
- A cancel before the browser is registered answers 204 and is lost. A cookie
  export that fails still ends in success, with a backfill on stale cookies.
  `status()` may show an earlier outcome. `SessionMonitor.check` is never called.
- An answer "expired" of a page fetched before the login causes a mail after it.
  The guard set with no recipients silences one that is added later. The loop ends on
  a policy or database error, and never renews a subscription that was cut off.

*Onboarding.*

- The docstring of `advance` says it re-reads the step against a double tab; a slow
  `/advance` writes the step back over a later one. A failure written between another
  `/advance`'s reads can make an old success look fresh.
- The test mail of step 2, or one to the own mailbox, sets the key that step 4 asks
  for, which then never asks. Credentials that failed stay stored.
- The gate stores a torn pair of step and page and may redirect `/` to itself until
  its time is over.

*Feed.*

- After `filter-changed`, `app.js:181` writes `sse-connect` again and calls
  `htmx.process`; the vendored htmx compares a hash of the attributes, finds it
  unchanged and does nothing. The stream keeps the old filter until a reload,
  against ADR-052 (`docs/decisions/ADR-052-sse-view-filter-propagation.md:110`).
- "Load more" can bring a card that the stream has inserted below the cursor, against
  the comment in `_feed_more`. Lots stored between a page and its stream, beyond the
  one that is replayed, have no card until a reload.
- The stream's filter drops everything for an unknown subject, the feed ignores the
  subject; a lot without an area passes the stream and not the SQL; `only_new` does
  nothing. `GET /lots?regions=` compares codes with names and finds nothing.
- `toggle_archive` reads and writes in two transactions and loses one of two
  toggles.

## 7. What is not modelled

Inside the modelled components:

- dispatcher: the branches for an unknown channel and for a lot the repository
  does not know cannot be reached (channels are wired in `composition.py:448`,
  lots are never deleted); the publication after a failed mail.
- SMTP: the table of providers; a socket left open by a failed banner.
- bus: heartbeats, encoding, the limit on connections.
- backfill and cycle: publications; the watcher thread that stays behind when a
  state write raises; a thread that cannot be started; the row of a cycle and its
  close, which nothing reads to decide anything (failure to open it is modelled); the
  text of pages (an answer is nondeterministic); the
  count of active lots is the number of lots stored, and one more.
- enrichment: the pool and its timeout for each lot; an enrichment is an answer
  with or without each group of columns.
- list parser: the cap of 10 000 rows, and what a cell looks like.
- full scan: the fallback to a single page, which is not wired; the `except` at
  `full_scan.py:366`, which cannot be reached since the fetcher swallows the
  exceptions; a scan without regions, which returns at once; a cycle that stores
  a row it fetched before the lot was withdrawn.
- config: the environment overrides, subscribers, the dates of subscriptions; the
  size guard is one of the ways a read fails.
- login: what the browser shows is one of its answers; the rate limiter of the
  routes.
- migrations: what happens to columns that are not renumbered; a schema script that
  got through some of its tables is kept as one that got through none.
- onboarding: the validation of regions and recipients. `Guard` joins the reads of
  `onboarding.py:201` to `:216`, each a transaction of its own: what they look for is only
  ever added, so reading it later than the first of them can only find more.
- feed: calendar, archive, notes, counts, sounds and badges; pinning (`app.js:825`),
  which moves a card to the top of its zone in one tab, so that `CardsInOrder` is
  about tabs that pinned none.

Whole components: diagnostics and logging (their only state is files nobody reads
back), the licensing tools (cryptography without a state), the wiring. The
reasons are in `PROJECT.json` under "components".

## 8. Plan

Done: every component that a lot, a mail, a login or a process passes through.
Open, in this order:

1. An abstract bus (each tab owns a set of owed events) and an abstract lock (one
   holder, or none), with the refinements of `ThreadEventBus` and `AppLifespan`; the
   latter only up to the unlink.
2. The generator of the stream with its heartbeats and the connection limit, on top
   of `ThreadEventBus`.
3. What the user marks on a lot (archive, notes) beside the writers of its row.
4. The pool of the enrichment with its timeouts, as part of the cycle.
5. The verification of a license, as an operator against a reference definition.
