# AFRelay in TLA+

AFRelay is a FastAPI service that lets clients use the SOAP services of the
Argentine tax agency (AFIP) as a REST API.  Most of its endpoints *relay* a request:
they read an access ticket, make one SOAP call and return what came of it.  What
it keeps of its own, and what can go wrong over time, is in three places:
the *CAEA resilience queue* (a SQLite outbox from which invoicing codes are
requested in advance and locally issued invoices are reported later), the *access
tickets* it renews in the background, and an in-memory store of events.  This
directory models that logic, checks it with TLC and proves what matters most
about it with TLAPS.  Paths below are under `src/`.

## The system

| Part | State | Operations | Interacts with |
|---|---|---|---|
| Queue tables (`service/caea_resilience/repository.py`, `db.py`) | `caea_cycle`, `caea_invoice`, `afip_outbox` in SQLite, autocommit | one function per statement or two | everything below |
| Draining (`outbox_worker.py`) | the copied batch, the job in hand | `process_pending_outbox_jobs`: fetch, then claim, call, apply, mark per job | tables; AFIP through `wsfe_caea_controller.py` |
| Bootstrap (`bootstrap.py`) | none | normalise, ensure the current and next fortnight, drain | tables, draining; run at startup and every 6 h |
| Scheduler (`afip_token_scheduler.py`, `api/app.py`) | job table of APScheduler | outbox job every minute, bootstrap every 6 h, two token watchdogs every 5 min, each `max_instances=1` | the same event loop as the HTTP handlers |
| Queue endpoints (`api/wsfe_caea_resilience.py`, `api/ui_monitoring.py`) | none | solicitar, issue-local, retry, listings | tables, draining |
| Access tickets (`controllers/request_*_access_token_controller.py`, `xml_management/xml_builder.py`) | request, signature and ticket files | renew on the watchdog or on request | AFIP WSAA, NTP, all SOAP calls (they read the ticket) |
| Relaying endpoints (`api/wsfe.py`, `wspci.py`, `wsaa.py`, their controllers) | none | one SOAP call each | ticket files, SOAP clients |
| SOAP clients (`soap_client/`) | one client per WSDL | one call under a retry decorator, its exceptions turned into a result | AFIP |
| Readiness (`controllers/readiness_health_controller.py`) | none | the dummy method of both services | NTP, SOAP clients |
| Observability (`observability/`, `api/middleware/`) | bounded deques of log entries and events, the trace id of each context | trace, add, query, aggregate | all of the above emit events |
| Models, signing, JWT, UI | none | stateless | |

What is hard about it:

* **Interleaving.**  The minute job, the bootstrap job and any number of HTTP
  retries drain the same queue.  They share one event loop per process and yield
  to each other only while awaiting AFIP, exactly between claiming a job and
  recording its outcome.  Each works from rows it copied before its first await.
* **Several processes.**  `scripts/run_server.sh` starts `$WORKERS` of them on the
  same database, each with its own scheduler.
* **Crashes.**  The service runs under `Restart=on-failure` / `unless-stopped`, and
  every statement commits by itself, so a crash can fall between any two.
* **Failing calls and statements.**  AFIP refuses, defers (error 15006: the window
  is not open yet), faults or times out; a locked database raises.  Many of the errors
  of a call do not say whether AFIP has carried it out.
* **Time.**  Tickets expire, fortnights begin at midnight in Argentina while the
  clocks are in UTC, and four periods, two margins and two timeouts are set apart from each
  other.

What makes each part correct: the *queue* does what it has marked done, loses no
job and no invoice, and stops trying; *numbering* is dense and tells a number once;
*bootstrap* ensures the right fortnights early enough; a *ticket* never lapses while
AFIP can be reached; a *relayed* request is carried out once and answered truly; the
*log* shows every request once, and every failure somewhere.

## Modules

| Module | Models | Proofs |
|---|---|---|
| `CaeaOutbox` | tables, bootstrap, endpoints, draining, faults; refines `JobLifecycle` | `CaeaOutbox_proofs` |
| `JobLifecycle` | what the queue promises of a job | `JobLifecycle_proofs` |
| `CaeaNumbering` | how issue-local numbers, stores, queues and tells an invoice | `CaeaNumbering_proofs` |
| `DenseNumbering` | what numbering promises: each series is 1, 2, 3, ... | |
| `TokenRenewal` | one access ticket, its watchdog, requests, crashes, time | `TokenRenewal_proofs` |
| `CaeaCalendar` | fortnights and their window, the six-hourly bootstrap, AFIP's dates, outages | `CaeaCalendar_proofs` |
| `RequestLog` | the bounded request log, its pages and summaries | `RequestLog_proofs` |
| `RelayedCalls` | a request or job from the middleware to AFIP and back; refines `RequestLog` | `RelayedCalls_proofs` |
| `MCCaeaOutbox`, `MCCaeaNumbering`, `MCTokenRenewal`, `MCCaeaCalendar`, `MCRequestLog`, `MCRelayedCalls` | constants for TLC | |

### CaeaOutbox

A job is identified with the row it is for (`solicit:<cuit>:<periodo>:<orden>` and
`inform:...:<nro>` are unique keys), so `status`, `attempts`, `due` and `rowid` are
functions on `Cycle \cup Invoice`.  One action is one SQL statement.  `create_cycle`
is a transaction and therefore one action.  A coroutine is a `Task` with the locals
of the code: `todo` and `seen` are the copied batch and its `attempts`, `cur` the job
in hand, `pc` the next statement.

| Code | Actions |
|---|---|
| `bootstrap_caea_cycles_once` | `StartBootstrap`, `EnsureCycle`, `RunBootstrapped`, `EndRun` |
| `add_outbox_job` | `InsertJob`, `SelectJob`, `RequeueJob` |
| `queue_solicitar_caea`, `queue_issue_local_invoice`, `retry_outbox` | `QueueSolicitar`; `IssueLocal`, `CreateLocalInvoice`; `RetryOutbox` |
| `process_pending_outbox_jobs` | `Fetch` (in `RunOutboxJob`, `RetryOutbox`, `RunBootstrapped`), `Claim`, `Answer`, `Apply`, `MarkDone`, `MarkRetry`, `BlameTarget`, `EndRun` |
| a statement that raises; a process that dies | `DbError`; `Crash` |
| AFIP and the clock | `AfipRecovers`, `BecomesDue` |

`MayRun` is the event loop: within a process a task moves only while every other one
is idle or awaiting AFIP (`calling`).  Between processes nothing is excluded.
`Reply` abstracts a SOAP result to the four outcomes the worker tells apart.  Time is
one bit per job (`next_retry_at <= now`) that a retry clears and `BecomesDue` sets.
The window of cycles is fixed: a change of fortnight adds rows the old ones do not
depend on, and which it is, is `CaeaCalendar`'s.

It refines `JobLifecycle`, in which a job is asked for, granted by AFIP, applied and
done, in this order but any of it more than once.  `Rows` are the jobs
asked for, `Effects` the cycles with a code and the invoices informed, `Finished` the
rows marked done, and what needs a grant are the cycles.  `Claim`, `MarkRetry` and
`RequeueJob` are its `Reopen`, `BlameTarget` its `Undo`, which it allows only for a
job that is not done.

Abstracted: payloads, texts of errors, time stamps, event emission, and the
listings, which change nothing.

### CaeaNumbering

The same endpoint at the grain of the number: `Reserve` reads `MAX + 1` and stores
nothing, `Insert` is refused by the unique index if another process was faster,
`Enqueue` and `Answer` follow, and a crash can fall anywhere.  `CaeaOutbox` takes the
number of an invoice as given; this module is where it comes from.  It refines
`DenseNumbering` by mapping `issued` to the numbers in the table.

### TokenRenewal

One of the two tickets (WSFE's and WSPCI's code differ in file names).  `file` is
what a parser would find: nothing, a `torn` file, or a `ticket` with `left` ticks to
live.  A renewal is the watchdog's or a request's; it runs without a pause up to the
SOAP call (`calling`) and from its answer through truncating the file (`opening`,
`writing`), so overlapping renewals alternate only at the call, and only a crash
can show a torn file to anybody.

| Code | Actions |
|---|---|
| `run_job`, `run_wspci_job` | `RunWatchdog`: renew if missing or expiring soon; a torn file raises |
| `max_instances=1`; no `misfire_grace_time` | `SkipRun`; `MissRun` |
| `POST /wsaa/token`, `/wspci/token` | `RequestToken` |
| `generate_*_access_token`, `consult_afip_wsaa` | `CallLogin`, then `Granted` or `LoginFails` |
| `parse_and_save_loginticketresponse`, `save_xml` | `OpenFile`, `WriteFile` |
| the process, its volume, the clock | `StartService`, `Crash`; `LoseFile`; `Tick` |

Time is discrete: `Tick` counts `left`, `wait` (for the next run) and the
`patience` of every call down, and may not pass the moment something is due.  AFIP's
grant may be as old as the call.  Dropping late runs is APScheduler's doing
(grace time one second unless a job sets it), modelled as the code meets it.

### RequestLog

`log` is every entry ever added and the deque the part of it from `first` on.  An entry
is its time and whether the request was ok, which stands for whatever a filter looks
at.  `Record` is `add_request_log`, `Exchange` a request that ends (in
`record_http_exchange`), `FirstPage` and `NextPage` the handler of `/ui/logs`, and `Return`
the middleware logging that request as well.  `Page` is the slice of the reversed
list, by an entry's `Place` in it.  `wanted` is a ghost: what matched when the walk began.
Stopping when `page * page_size >= total` is the client's part.  `/ui/events` keeps and
cuts the other deque in the same way.  The clock is taken not to run backwards.

### CaeaCalendar

The other side of the queue: not the statements but the days.  `utc` is the clock
`bootstrap_cuit_cycles` reads, `ar` the date in Argentina, both moved on by every
`Tick`; `ResolveCycles` is the code's arithmetic on the one, and `Fortnight` of the other
is what it is measured by.  A job is reduced to what the days tell apart: `due`,
`tried` (failed, due again in the next tick, since no back-off exceeds an hour and a
few seconds), `later` (15006: due at 00:05 of the day AFIP opens), `failed` (any
failure may be the tenth) and `done`.

| Code | Actions |
|---|---|
| `bootstrap_caea_cycles_once`, `bootstrap_cuit_cycles`, `add_outbox_job` | `Bootstrap` with `EnsureCycles` and `ToQueue` |
| `hours=6`, no `misfire_grace_time` | `MissBootstrap` |
| `process_pending_outbox_jobs`, once a minute | `Attempt`, `Due`, `Outcome` |
| the clock; AFIP, its network and the ticket | `Tick`, with `Calls`; `Open` |

What AFIP opens when is modelled as the code meets it: an error that names the day,
from which on the request is granted; `Lead` is the number of days, which the model
takes to be the same for every fortnight.

### RelayedCalls

A `Task` is a request or one run of a scheduler's job that calls AFIP.  `Handlers` lists
the endpoints of `api/wsfe.py` and `wspci.py` by what they ask for, since they take the same steps:
`Accept` (the middleware), `Reject` (`verify_token`, validation) or `CallWithTicket`
(controller and `consult_afip_*` up to the await), `CallAnswered` or `CallFailed`, `Leave` (the
middleware again).  `CallLogin` is the ticket endpoint and `Probe`, `DummyAnswered`,
`DummyFailed` readiness.  `served` is a ghost: how often AFIP has carried out what the
task sent.  `AfipServes` may come before the failure of the same call, which is then
one that says nothing about it; after a `ConnectError` AFIP has not got anything.

The decorator is modelled as written: `Retryable`, `MaxTries` and `Again` are its
arguments, `Caught` the except clauses under it.  As the last of them names
`Exception`, `Again` is never true: no call is ever tried again.  `OncePerRequest`
is what hangs on it.  Without that clause an invoice whose connection is reset after
AFIP has authorised it would be sent again, under the number already taken.

Events are a set: which there are and whose they are, not how many.  The deque that
bounds them is `RequestLog`'s matter.  The middleware lets `/monitor` pass without a
trace id; no endpoint under it calls AFIP.  The process is not restarted, because the
logs and clients would be gone with it.

## What is checked

| Run | Instance | Shows |
|---|---|---|
| `outbox_faults` | 1 process, outbox and bootstrap job, 2 cycles, crashes and failing statements, 2 attempts | `TypeOK`, `DoneMeansApplied`, `CodeIsGranted`, `RetryBudget`, `DoneReopenedOnlyByOverlap`, `LifecycleSpec` |
| `outbox_invoices` | 1 process, bootstrap and requests, 1 cycle, 2 invoices, no faults | `EveryInvoiceQueued`, `IssuedUnderCode`, `ProcessingIsHeld`, `CyclesPreloaded`, `InvoicesSettled`, `LifecycleSpec` |
| `outbox_restart` | 1 process, 2 cycles, crashes | `RecoversUnlessOrphaned` |
| `numbering` | 3 handlers in 2 processes, 2 series, 2 numbers each | `TypeOK`, `NoGaps`, `ToldMeansQueued`, `ToldOnce`, `DenseSpec` |
| `outbox_orphan` | 1 process, 1 cycle, crashes | `CyclesPreloaded` is violated |
| `outbox_workers` | 2 processes, 3 runs, 1 cycle | `DoneMeansApplied` is violated |
| `token_timing` | default period 5 and margin 15, 2 requests, calls up to 2 ticks, 1 lost run | `TypeOK`, `NeverLapses`, `SavedIsFresh` |
| `token_restart` | period 2, calls up to 2 ticks, 1 request, crashes and lost files | `KeptUnlessTorn` |
| `calendar` | ticks of 3 hours, 20 days from each of 4 starts, outages up to 2 days, 1 dropped run of bootstrap | `TypeOK`, `WindowExact`, `CodeInTime` |
| `relay` | 2 requests of every kind and 1 job | `TypeOK`, `OncePerRequest`, `AnswerIsTrue`, `EventsTraced`, `FailuresLeaveTrace`, `EveryTaskEnds`, `LogSpec` |
| `request_log` | 1 client, 7 entries kept, pages of 2, 9 requests, 2 times | `TypeOK`, `NoneSkipped`, `SummaryExact` |
| `token_torn` | period 3, no requests, crashes | `TicketKept` is violated |

**Bounds.**  Two runs per process suffice for every overlap of one process, because a
third can only find the queue as one of the two left it; three writers to one job are
in `outbox_workers`, and the proofs of `RetryBudget` and `ProcessingIsHeld` are for any number.
Two cycles make a run continue after a job,
with a stale row for the second; a limit of two rows for bootstrap and one for
everything else makes both a whole and a cut batch happen, and a short run pass a long one.
`MaxAttempts` is 10 in the code; with 2 a job passes through its first and its last
attempt and the requeue, and stale counts disagree with the row.  Attempts in between
change nothing but the count, about which `RetryBudget` is proved for every maximum;
`outbox_invoices` with 3, run by hand, passes as well (220 358 states).
`MaxNumber` only stops requests for a series.
A ticket only has to outlive margin and call, so 18 ticks stand for twelve hours;
`MaxFails` bounds the runs lost in a row, which is what the timing is a function
of.  In `token_restart` a call lasts as long as the period, so runs are skipped too.
In `request_log` every page of a walk adds an entry itself, so that in a log just full the
oldest entry is gone with each page: a deque of three or four entries has lost whatever only a second page
would show by the time the walk ends, and `NoneSkipped` would ask nothing of that page.
With five the second page is needed, and with seven a third; then an entry that was there from the beginning
and still is has been shown by that page alone.  Nine requests let
the log drop entries during such a walk: a `NextPage` that shows nothing, a third page that is empty and
a second page that is empty once entries have gone are each found out.  The bounds on
entries and time end every behaviour, hence no check for deadlock.
In `calendar` the four starts lead over the turn of a year, the 29th of February and
the 28th of a year without one, and the middle of a month, at different hours; twenty
days hold a whole fortnight with the change before and after it.  An outage of two
days is longer than ten attempts take; one that has begun before the start stands for
an expired ticket in the first run of the queue as well.  `Slack`, the time after which a fortnight must have its
code, is the longest outage and as many periods of bootstrap as can be dropped with one
more; a new outage begins no earlier than that allows, for otherwise nothing could be
promised.  In the run `Slack + Recovery - 1` is 23 ticks and `Lead` 40, so `InTime` (below) holds; that is
what makes the code be there on the first day and not only at some time.  In `relay` two requests and a job are the pairs
that can take each other's trace id: two requests, and a request and a job.

**Fairness** (`CaeaOutbox!Fairness`).  Each task is strongly fair: the scheduler starts its jobs again
and again (`interval` triggers), the event loop serves every coroutine that can run in
turn, and each SOAP call ends because the HTTP transport has a timeout of 20 or 30
seconds.  Strong, because a ready coroutine is passed over while another one runs.
Retry times pass (weak).  No fairness is assumed of requests, crashes, failing
statements or AFIP; that AFIP answers well and the processes stay up is a premise
(`StaysUp`) of the properties that need it.

`TokenRenewal!Fairness`: the process is started again (`Restart=on-failure`), the
scheduler starts or drops what is due, a call ends, and time passes.  Weak fairness
is enough: time stands still until everything due has been done.  `MaxFails` is the
premise that not every renewal fails.

`RelayedCalls!Fairness`: a coroutine that can run is run, and a call ends, because every httpx
client has a timeout (20 s, 30 s for logins).  It bounds each wait for bytes,
not the whole call; that AFIP does not send an answer drop by drop for ever is taken
for granted.  AFIP itself is under no fairness, so `EveryTaskEnds` holds although it may never answer.

**The three violations.**

1. `outbox_orphan`.  `mark_outbox_processing` commits before the SOAP call, and no query
   ever selects a `processing` row again: not the fetch (`repository.py:252`), not the
   requeue of `add_outbox_job` (`repository.py:226`).  A process that dies during
   the call loses the job, and with it the cycle, which bootstrap goes on finding
   queued.  `outbox_restart` shows that this is the only place a crash does such harm.
2. `outbox_workers`.  The result and the job row are separate unconditional updates.
   With `WORKERS=2` a run that failed and a run that succeeded with the same job can
   alternate so that the job ends `done` and the cycle `error`.  In one process the
   event loop excludes it: `outbox_faults` checks that and `DoneApplied` proves it.
3. `token_torn`.  `save_xml` writes in place and `run_job` parses whatever exists before
   it decides to renew.  A process that dies during the write leaves a file on which
   every run raises; only a request to `/wsaa/token` helps.  `README.md` promises that
   a service that goes down has no problem with its tickets.  `token_restart` shows
   that nothing else stands in the way of that promise.

## What is proved

All theorems hold for every value of the constants: any sets of cycles, invoices, tasks
and processes, any limits, durations and `MaxAttempts`.  The assumptions are those named in the
modules (the row sets are finite and disjoint, the kinds of task disjoint).

| Theorem | Property | Needs |
|---|---|---|
| `TypeCorrect`, `TypesKept` | `TypeOK`, and a job in hand wherever one is used | |
| `Granted` | `CodeIsGranted` | between a good answer and its application AFIP's grant is in hand (`GrantInv`) |
| `Budget` | `RetryBudget` | no copied count ever reaches the maximum (`BudgetInv`), however stale |
| `IssuedUnder` | `IssuedUnderCode` | an issuing handler saw a code, and no statement removes one (`IssueInv`) |
| `DoneApplied` | `DoneMeansApplied`, `ASSUME OneProcess` | only one coroutine is between two awaits (`AppliedInv`) |
| `ProcessingHeld` | `ProcessingIsHeld`, `ASSUME ~MayCrash, ~DbMayFail` | the property is inductive over the types |
| `ReopenedByOverlap` | `DoneReopenedOnlyByOverlap`, `ASSUME OneProcess` | a job found failed is still failed when it is queued again (`RequeueInv`), which a second process could break |
| `InvoicesQueued` | `EveryInvoiceQueued`, `ASSUME ~MayCrash, ~DbMayFail` | an invoice without a row has a handler about to insert it (`RowInv`), and rows stay |
| `Invariant` | | dense series; a number chosen over taken ones; one owner per inserted number |
| `NumbersDense`, `ToldQueued`, `NumbersToldOnce` | `NoGaps`, `ToldMeansQueued`, `ToldOnce` | `Invariant` |
| `NumberTypes` | `CaeaNumbering!TypeOK` | |
| `ImplementsDense` | `DenseSpec` | an insert is an `Issue`, every other step a stutter |
| `SavedFresh` | `SavedIsFresh`, `ASSUME LongGrants` | a grant in hand outlives the margin (`GrantsLast`), crashes or not |
| `NeverLapsed` | `NeverLapses`, `ASSUME InTime, ~MayCrash` | `left` is above the margin less the runs lost, plus the wait (`SlackKept`) |
| `WalksComplete` | `NoneSkipped` | what is not yet shown lies beyond the pages given (`Ahead`), and places only grow (`PlaceGrows`) |
| `SummariesExact` | `SummaryExact` | log in order of time, deque its longest end that fits: one of deque and window holds the other (`EndsNested`) |
| `WindowAlwaysExact` | `WindowExact` | the clocks stay `Offset` apart (`Synchronous`), also over midnight, months and years (`NextAtHour`, `TimezoneRight`) |
| `CodeAlwaysInTime` | `CodeInTime`, `ASSUME InTime` of `CaeaCalendar_proofs` | how long the current and the next fortnight have been open without a code, against the ticks to a bootstrap that cannot be dropped (`Late`) |
| `ImplementsLifecycle` | `LifecycleSpec`, `ASSUME OneProcess` | `GrantInv`, `AppliedInv` and `RowInv` give each step its guard (`FillMoves`, `DrainMoves`) |
| `PromiseKept`, `QueueKeepsPromise` | | `JobLifecycle` keeps its `Promise`, so in one process the queue does |
| `UnmarkedLifecycle`, `AnyProcesses` | | the refinement with no job taken to be done, in any number of processes (`NextUnmarked`) |
| `TypesKept` of `CaeaCalendar` | its `TypeOK`: no job for a month there is not | `CyclesResolved` |
| `ServedOnce`, `AnswersTrue` | `OncePerRequest`, `AnswerIsTrue` | how far a task is says what it sent and AFIP served (`TaskInv`) |
| `EventsAlwaysTraced`, `FailuresTold` | `EventsTraced`, `FailuresLeaveTrace` | a coroutine's context holds its own trace id from `Accept` to `Leave` (`Traced`); an error leaves its event before it is answered (`TraceInv`) |
| `ImplementsLog` | `LogSpec`, `ASSUME IsFiniteSet(Request)` | a request leaves once, so the log never outgrows the requests |

`TokenRenewal`'s `InTime` says `CallTime < Period`, `(MaxFails + 1) * Period + CallTime <= Margin`, and
that a grant outlives margin and call.  `token_timing` with margin 11 in place of
15 loses its ticket, with 12 it does not (calls of 2 ticks), so the bound is tight; the defaults, 5 and 15 minutes,
tolerate one lost run and not two.  The invariant has to carry the wait along
because a run that finds the ticket good says nothing until the next one.

`CaeaCalendar`'s `InTime` says that `Slack + Recovery - 1` ticks fit into `Lead` days and
into thirteen, where `Recovery` is `(MaxMissed + 1) * Period` and `Slack` that and
`MaxOutage`.  Thirteen days is the shortest fortnight (16 to 28 February): bootstrap
asks for a fortnight only while the one before it lasts, however early AFIP opens it.  With
ticks of an hour, the code's period of six and no run dropped, outages of up to 109 hours
are allowed for if AFIP opens a fortnight five days ahead, of 301 hours from thirteen days on.  The argument: a fortnight AFIP has opened can only
be without its code while calls fail, or until the next run of bootstrap that cannot
be dropped (`Certain`), because only a job given up waits for bootstrap.  So one
outage, and a wait for bootstrap before and after it, bound the time (`Bounded`), and
a second outage comes too late.  `Late` says so of the next
fortnight since it was opened and of the current one since the service started, and is handed over at the turn
(`Opened`); that takes the lengths of all months.  The bound is tight: with Day = 5,
Lead = 5 and the other constants as in the run, TLC finds nothing with
`MaxOutage` = 18 (25 ticks in 25) and a late code with 19 (26 in 25).

`OneProcess` is needed: without it the property is false (`outbox_workers`).  The
numbering needs neither it nor the event loop: the order *read the maximum, insert under the
unique index, never delete* suffices, which is why `ChosenOver` (everything below a
chosen number is in the table) is stable whatever other processes insert.

`OneProcess` is also what `ImplementsLifecycle` needs, in two places: `MarkDone` finds the
effect of the job standing, and `BlameTarget` a job that is not done.  Both come from
`AppliedInv`: whoever is between two awaits is alone there.  Without `OneProcess` the
second violation remains.  `UnmarkedLifecycle` says that nothing else of the
lifecycle is broken: leaving the mark aside, any number of processes keep to the lifecycle, so what can be wrong between them is
what a row reports, never a code that was not granted or an effect nobody queued.

Only model-checked: liveness, which the prover does not reach, that is `CyclesPreloaded`,
`InvoicesSettled`, `RecoversUnlessOrphaned`, `KeptUnlessTorn` and `EveryTaskEnds`.  Every
other property of a passing run is a theorem.

## Not claimed

* That an informed invoice was accepted: the worker looks at the transport status of
  `FECAEARegInformativo` and not at errors in the body, and the model does the same.
* That inform jobs succeed in the end: after ten attempts nothing queues them again;
  `InvoicesSettled` only says they come to an end.
* That AFIP grants a ticket while an earlier one is still valid: the code assumes it, and
  the model lets a renewal fail for any reason.
* That a walk through the pages shows an entry once: its own requests move the entries,
  so unfiltered pages overlap.
* Anything about tickets with several worker processes, which write the same files.

* That AFIP grants a code on the day it has named, or `Lead` days ahead: this is taken
  from how the code reads error 15006.
* What readiness reports.  `README.md:12` says that the relay does not raise on errors
  outside its domain but returns them to the client; readiness with a service down, and
  any call without a ticket file, raise and are answered with 500.  `RelayedCalls`
  models that as the code has it (`raised`).

Other things met on the way, none of which a property depends on: the retry decorator
never retries (above); the ticket endpoint answers a failure with the status `"error
generating access token."`, not `"error"`; the alert for an expiring ticket begins 30
minutes ahead while the renewal begins 15 ahead, so that every ticket passes
through the alert.

## Not modelled

* **Alerts, operation counts, groups of errors, percentiles, token states**
  (`observability/store.py`).  Pure functions of the log and of the ticket files, computed
  on request; a property of them would restate their thresholds.
* **Request models and validation** (`api/models/`), **payload builders, XML, WSDL**:
  field by field, without state.  That a request may be refused there is `Reject`.
* **Signing, JWT, logging, the UI**: thin layers over libraries, and rendering.
* **Listings** of the queue: they change nothing.
* **The request file of a login**: written and read without a pause.
* **Several worker processes** with the same ticket files, and with a request log each.

## Order of the modules

`CaeaOutbox` came first, being where most state is and most can go wrong; `CaeaNumbering`
looks at one of its handlers more closely; `TokenRenewal` and `CaeaCalendar` add time, which the
outbox reduces to a bit; `RelayedCalls` adds the way to AFIP that all of them
use, and fills `RequestLog`.  `JobLifecycle` was written last, over a finished
`CaeaOutbox`.  What could follow: tickets shared by several processes.
