# dawatch, modelled and proved

`dawatch` polls the feed of the DeviantArt artists a user watches and pushes
each new deviation to the user's phone. A Kubernetes CronJob starts one process
per poll; a SQLite file on a volume is all that survives it. This directory
holds TLA+ models of that program (`src/script/src/dawatch/`), the TLC
configurations that check them and the TLAPS proofs of what holds for every
instance. `PROJECT.json` lists every run, the code lines behind every
definition, the hazards and the findings.

## The system

| Component | State it keeps | Operations | What makes it correct |
|---|---|---|---|
| `WatchService` (`service.py`), `dawatch seed` (`cli.py`) | locals of one run | fetch, decide on seeding, filter, seed or notify, finish | recorded only after delivery; success means everything fetched is handled; a first deployment is silent; nothing is dropped; nothing is pushed twice |
| `WatchedDeviationsSource` (`sources.py`) | offset, pages read, collected rows | request a page, examine a row, end of page | no row is skipped while the feed moves; the cap |
| `SqliteStore`, table `seen_deviations` (`store.py`) | one row per deviation, `notified_at` | `has_seen`, `is_empty`, `mark_seen` | a record is never lost |
| `NtfyNotifier` (`notifier.py`) | none | `send` | NotifyError whenever delivery is not certain |
| `RefreshTokenAuth` (`auth.py`) | token in memory, `_force_refresh` | `token`, `invalidate` | never hands out a dead token it knows of; exit 2 only when a retry cannot help |
| `SqliteStore`, table `token_cache` | access token, refresh token | load and save each | the two lifecycles are independent |
| `DeviantArtClient` (`client.py`) | attempt, `reauthed` | `get_json`, `_wait`, `_decode` | bounded attempts, one re-authentication, bounded sleep |
| `dawatch login` (`login.py`) | callback fields, state, verifier | consent flow, `validate_callback`, `exchange_code` | a code is exchanged only by the attempt the user consented to; the command ends |
| `PushgatewaySink` (`metrics.py`), alert rules (`k8s/monitoring`) | one registry per run; the gateway's last group | record, flush | a dead job is noticed; an alert means something |
| CronJob (`k8s/base/cronjob.yaml`), `make trigger` | jobs, pods, retries | start, retry, kill | one scheduled process at a time; a wedged run does not block the next |
| `cli.py` | none | `main`, exit codes, `doctor` | exit 2 is final until something was replaced; what `doctor` calls healthy can fetch |

They interact by calls inside one process, and across processes only through
the two SQLite tables, the refresh token in the environment (synced from
OpenBao) and the remote services. Every statement on the database is its own
transaction (`isolation_level=None`), so any two statements of a process can be
separated by a kill, an error, or a statement of another process.

What is hard about it: the feed moves while it is read in pages; a run may stop
between any two steps; a push cannot be undone and its answer can be lost; the
loop over a batch records newest first while the next fetch stops at the newest
recorded one; a refresh token dies when it is used; and `concurrencyPolicy:
Forbid` does not keep a manual job (`make trigger`) from running next to the
scheduled one. The `hazards` of `PROJECT.json` name each one at its line.

## Modules

| Module | Models |
|---|---|
| `WatchService` | `fetch`, `run`, the seed loop of `main`, the table `seen_deviations`, ntfy, and the feed |
| `DeliveryLedger` | abstract specification: deviations are announced, delivered, recorded |
| `TokenAuth` | `token`, `invalidate`, the refresh grant, the table `token_cache`, the token endpoint |
| `ApiClient` | `get_json` on top of `TokenAuth` (extends it): one call per page |
| `Login` | `run_consent_flow`, the callback server, the browser, the code exchange |
| `CommandLine` | `main` with all its commands on top of `Login` (extends it), against a deployment whose parts break and are repaired |
| `CronJob` | the scheduled and the manual Job: pods, deadlines, retries |
| `Monitoring` | `PushgatewaySink` in the pods of `CronJob` (extends it), the gateway, Prometheus and the two alert rules |
| `MCWatchService`, `MCTokenAuth`, `MCApiClient`, `MCCommandLine` | symmetry and constant values for TLC |
| `WatchService_proofs`, `_alone_proofs`, `_once_proofs`, `_dropped_proofs` | theorems about `WatchService` (the last two extend the second, which extends the first) |
| `TokenAuth_proofs`, `ApiClient_proofs`, `CommandLine_proofs`, `Monitoring_proofs` | theorems about the others |

Three modules compose components: `ApiClient` has the client and the
authentication share the token table between processes, `CommandLine` runs the
consent flow among the other commands, `Monitoring` has the schedule, the pods,
the gateway and the alerts.

### WatchService

A deviation is a number: the order in which it was posted. The feed is
`posted, posted - 1, ..., 1`, so the row at offset `o` is `posted - o`, and a
post (`Post`) shifts all offsets. Each process has a record of locals named as
in the code (`offset`, `pages_read`, `raw_results`, `collected`, `new`, ...) and
a `pc`:

| pc | place in the code | actions |
|---|---|---|
| `idle` | no process | `Start` |
| `page` | `fetch`, before `get_json` | `RequestPage`, `FetchFails` |
| `rows` | `fetch`, `for raw in raw_results` | `ExamineRow`, `EndOfPage` |
| `fetched` | `fetch` has returned | `UseFetched` |
| `filter` | the comprehension that builds `new` | `Filter`, `Dispatch` |
| `seed` | `_seed`, or the loop of `dawatch seed` | `SeedOne`, `Finish` |
| `report` | dry run | `Finish` |
| `notify`, `mark` | `_notify_all`, before `send` and before `mark_seen` | `Send`, `SendFails`, `Mark`, `Finish` |

`StoreFails` may replace any step that executes a statement, `Crash` any step.
Which faults a run includes is the constant `Faults`, so that each run says
under which faults a property holds. Four variables belong to nobody in the
code: `delivered` and `redelivered` are the user's phone, `backlog` is what was
posted before the deployment, and `baseline` and `covered` are the number of
posts when `record_success` was first called and at the start of the last run
that called it, which is what the staleness alert takes for "everything is fine
up to here". Rows that do not validate are the constant `Malformed`. Two
abstractions: `next_offset` is taken to be `offset + len(results)`, the value
the code computes when the field is missing; and rows never leave the feed
(a deviation deleted by its artist, an artist no longer watched) nor appear in
its middle (an artist newly watched).

### TokenAuth

Access and refresh tokens are numbered in the order the endpoint issues them;
`0` is `None`. `token()` is split where it reads or writes something shared:
`FromMemory`, or `NotInMemory`, which keeps the `now` that was read, and then
`FromStore` or `NeedsFresh`; `LoadRefreshToken`; the POST with its outcomes
(`Granted`, `InvalidGrant`, `Unreachable`, `AnswerLost`); `SaveRefreshToken`,
`SaveToken`. `StoreFails` may replace any statement, and `Crash` may come
anywhere. `Invalidated` is a 401 and `invalidate()`,
`Login` is `dawatch login` and the write to OpenBao. DeviantArt does not document whether the endpoint replaces a refresh token on use, so
`Rotates` is the set of what it may do at each refresh. `rejected` is a history
variable: the bearer that got the 401.

### ApiClient

`ApiClient` extends `TokenAuth` and adds the locals of `get_json` as `call`.
Its actions are conjunctions with those of `TokenAuth`: `Retry` is `Used` plus
an attempt, `Reauthenticate` is `Invalidated` plus `reauthed`, and so on. `sent`,
`slept` and `idle` count requests, seconds asleep, and seconds asleep after the
last attempt. A process may be killed anywhere, in a request and in a sleep too
(`KillProcess`).

### Login

An attempt is a number, and its random state, its PKCE verifier and the code
that DeviantArt issues for its tab are written as that number. A terminal goes
through `listen` and `read` (both in `handle_request`: waiting for a connection,
and for a request on it), `validate`, `exchange`, and one of four ends. `Begin`
clears the callback, binds the port and opens a tab; `BindFails` is the
`OSError` of a port that is taken. A tab outlives its attempt: `Consent` and
`Refuse` may come from an old one, or reach the server of another terminal.
`StrayRequest` is anything else that asks for a path (a favicon, a reload):
`do_GET` does not look at the path, so it uses up the one request the server
takes. `Connect` and `Disconnect` are a connection that sends nothing. `Timeout`
is `server.timeout`, which bounds the wait for a connection and not the wait for
a request on it. `Validate` is `validate_callback`, `Exchange` and
`ExchangeFails` are the outcomes of `exchange_code`.

### CommandLine

`world` says which parts of the deployment work; `Change` replaces it. Each
terminal has a process that goes from `settings` to `exit` through the checks of
its command: `login` and `store`, then `token`, `api`, `gateway` for `doctor`
(`CheckToken`, `CheckApi`, `CheckGateway`), `fetch` and `notify` for the others.
A run is only what decides its exit code here; what it does is `WatchService`.
`StoreFails` is a statement that fails after the store was opened.
Three history variables: `hopeless` (a process has ended in exit 2 and neither
settings nor refresh token were replaced since), and for each process `doomed`
(it started while `hopeless`) and `steady` (the world is as it was when it
started).

### CronJob and Monitoring

Time is a number of ticks. A tick is five minutes: both overlays patch the
schedule to `*/5 * * * *`, so `Period` is 1, and `activeDeadlineSeconds: 600` is
two ticks. A Job is `pending`, `running`, `flushing` (its pod has done its work
and is about to push) or `none`. `PodEnds` counts any exit code but 0 against
`backoffLimit`, since the manifest has no `podFailurePolicy`. `Trigger` deletes
the manual Job and creates another; `Forbid` does not look at it.

In `Monitoring` a run is one step, `Worked`, with one of the outcomes that
differ for the metrics. `Flush` is the push: a PUT that replaces the group, or
fails without changing the exit code. Time stamps are kept as ages up to `Old`,
and a gauge that was never set is old, as the time stamp 0 is. `Tick` is a
scrape and an evaluation of both rules. `scraped`, `rise` and `staleFor` are
what Prometheus remembers: the last sample of each series of
`dawatch_errors_total` (which may fall out of the window once the series is
gone), when `increase()` last saw one go up, and for how long the staleness
expression has been true. `clean` and `failed` are histories: the ages of the
last run that really was clean and of the last that recorded an error.

## Runs

Runs that pass:

| Run | Configuration | Shows |
|---|---|---|
| `faults` | `WatchService_faults` | one process at a time, every fault, `run`, `--dry-run` and `seed`: types and the page cap, silent first deployment, success is complete, implements `DeliveryLedger` |
| `overlap` | `WatchService_overlap` | two processes on one table: delivered before recorded; success is complete |
| `outage` | `WatchService_outage` | failing page requests: no fetch skips a row, nothing dropped, nothing seeded after a success, every usable deviation recorded in the end, and pushed if it was posted after the first success |
| `onepage` | `WatchService_onepage` | without paging, no deviation is pushed twice whatever fails but the answer of ntfy |
| `auth_faults` | `TokenAuth_faults` | every fault of authentication: types, exit 2 only when the process has nothing usable to load, rejected tokens stay unused, leeway |
| `auth_rotation` | `TokenAuth_rotation` | with no fault between the POST and the save, the chain of refresh tokens never breaks, rotated or not |
| `client` | `ApiClient_faults` | attempts, re-authentications and sleep are bounded; every process ends |
| `operations` | `Monitoring_operations` | pods that are killed or hang, failed pushes, dry runs, a gateway that loses its group: the time stamp never lies, a dead job is noticed, an error alert means an error, a wedged run does not block the schedule |
| `commands` | `CommandLine_commands` | all commands, with a second `dawatch login` beside them, old tabs, stray and silent connections, and a deployment that changes: codes are exchanged by their own attempt, exit 2 is permanent, `doctor` is right, every command ends |

Runs that end in a counterexample, each against a sentence of the repository
(quoted in `PROJECT.json`, `findings`):

| Run | Configuration | What the code does |
|---|---|---|
| `refused_send` | `WatchService_refused_send` | one refused push strands a deviation: the newer ones of its batch are marked, and fetches stop there |
| `fresh_login` | `TokenAuth_fresh_login` | the dead token in `token_cache` hides the new seed |
| `false_stale` | `Monitoring_false_stale` | one failed run right after a clean one pushes the time stamp 0, and `DawatchStale` fires |

More configurations, for the command line. All but the last two end in a
counterexample too:

| Configuration | What the code does | What is said of it |
|---|---|---|
| `WatchService_killed_run` | a run killed in its loop strands the older rest of the batch | design 2026-08-23, line 19: nothing is dropped "including when the process crashes mid-run" |
| `WatchService_paging_drift` | a post between two page requests: the row that moved to the next page is collected twice and pushed twice | `test_service.py:149`: "The core promise: no deviation is ever notified twice." |
| `WatchService_page_cap` | more new posts than five pages: the oldest are never fetched | `sources.py:95`: "a run after an outage still catches up" |
| `WatchService_overlapping_seed` | a manual job during the first seeding pushes the backlog | `test_service.py:55`: "A first deployment must not fire twenty notifications at once." |
| `WatchService_empty_feed` | a first run over an empty feed makes the next one seed real posts silently | `test_service.py:281`: such a run is a success, "establishing the baseline" |
| `TokenAuth_lost_volume` | once a refresh token was rotated, the seed in OpenBao is dead | `README.md:36`: "correct either way" |
| `TokenAuth_overlapping_refresh` | the slower of two refreshing processes exits 2, though a retry would work | `README.md:97`: "a `2` will never succeed on retry" |
| `TokenAuth_dry_run` | a dry run writes `token_cache` | `README.md:87`: "send and write nothing" |
| `ApiClient_slot` | one process can sleep for 900 seconds | `client.py:22`: the clamp is there so that no sleep holds a CronJob slot |
| `ApiClient_last_sleep` | it sleeps after the last attempt too | `client.py:99`: "Sleep before the next attempt" |
| `CommandLine_doctor_blind` | `doctor` never contacts ntfy, and takes any 200 of the API for an answer | `cli.py:160`: "Check every external dependency" |
| `Monitoring_exit2_retried` | a Job whose pod has ended in exit 2 is retried | `cli.py:137`: "Exit 2 tells the CronJob's backoffLimit not to bother trying again" |
| `Monitoring_silent_errors` | `increase()` has no sample before the first, and none after a reset to the same value: a run with errors may never show | `README.md:126`: "so a failing run still moves `dawatch_errors_total`" |
| `Monitoring_lost_group` | the gateway is rescheduled with its emptyDir: the rule has no sample, and never fires | `pushgateway.yaml:25`: "Metrics survive a Pushgateway restart" |
| `TokenAuth_overlap` | (passes) two processes refresh at once: rejected tokens and the leeway | both are theorems for any number of processes |
| `TokenAuth_stable` | (passes) if the endpoint never rotates, nothing ends in exit 2 | `README.md:36`: "correct either way" |

`NothingDropped`, `AtMostOnce`, `NoBrowserNeeded` and the others appear on both
sides: the passing run says under which conditions the promise is kept, the
failing ones name the single condition that breaks it.

Met on the way, without a run of their own: `doctor` exits 1 on a ConfigError
(`cli.py` catches it as any DawatchError), where the other commands exit 2; a
port that is taken ends `dawatch login` in a traceback; the Makefile's manual
job is a second process on the database, where `README.md:124` counts on "exactly
one process"; and the schedule of the prod overlay is every five minutes, whatever the
comment beside it says.

### Bounds

`WatchService`: `MaxPosts` of 5 with pages of 2 gives three pages, so that a
fetch can be shifted twice, stop at a seen row in any page, and meet the
malformed row at any place of a page; three deviations for two processes, because
every race is about one row, and its neighbours only decide where a fetch stops.
In `faults` the page cap is two pages, so that a backlog of 5 lies beyond it, and
fetches end at it; in `outage` it is three, the whole feed, and `NothingDropped` says
nothing of the feeds beyond it (`WatchService_page_cap`). `Backlogs` covers the empty
feed, less than a page, more than a page and more than the cap in `faults`, and less
than a page and a full page in `outage`, whose properties want a baseline.

`TokenAuth`: a lifetime of 3 with leeway 1 gives the three cases valid, within
the leeway, and expired; `MaxIssued` is large enough for a token to be refreshed,
rejected and refreshed again. Once `MaxIssued` is reached the endpoint answers no
more (`Unreachable`), which the code treats as an AuthError. `ApiClient` uses two
pages and two attempts: the bounds checked are formulas in both.

`CommandLine`: two terminals and `MaxAttempts` of 2, the least with an old tab
and with a taken port; `Worlds` has the healthy deployment and each broken part
(nine in all), between which `Change` goes back and forth without a bound. `dry_run`
is left out of `Commands` there, since its path to the exit code is that of `seed`.

`Monitoring`: one tick for the period, the deadlines, the `for`, the window and
the threshold, and one retry. The comparisons only need the ages on both sides of
each limit, and the properties proved about it hold for every value. `Outcomes`
leaves out `config` and `statement`: `config` has the effect of `fetch` on the metrics
(`Monitoring_exit2_retried` has it), and `statement` that of a clean dry run, a
pushed registry without success and without errors.

### Fairness

`FairSpec` of `WatchService`: weak fairness of `Start` (the
schedule keeps starting runs) and of the steps of a process that is not killed,
none for `Post`, `Crash` or any failure, and strong fairness of the page request
at each offset: a page that is requested again and again is answered in the
end, though any request may fail. `outage` therefore includes fetch failures. It
leaves out refused pushes and kills, which lose deviations for ever
(`refused_send`, `WatchService_killed_run`).

`FairClientSpec` of `ApiClient`:
weak fairness of each process's own steps, which the HTTP timeout justifies;
nothing is assumed about the clock, the endpoint or the API.

`FairSpec` of `CommandLine`: weak fairness of the steps of each process and of
its callback server. The HTTP clients have timeouts, `server.timeout` ends the
wait for a connection, and a browser closes a connection that it does not use;
that last assumption is about the browser, and without it `handle_request` would
hang. Nobody has to consent, repair anything, or start a command.

`FairSpec` of `Monitoring`: the clock ticks, the controller ends a Job that is
past its deadline, and, by strong fairness, it creates a scheduled Job and starts
its pod now and then although both are often disabled. Nothing is assumed of the
pods: each may hang for ever.

## Proofs

All theorems are for every value of the constants; the assumptions are the named
`ASSUME`s of the modules, which only give the constants their types.

**`WatchService_proofs`**: `TypeCorrect`, `DeliveredBeforeRecorded`
(`[]NotifiedMeansDelivered`) and `SuccessIsComplete` (`[]SuccessMeansHandled`),
for any number of processes and any faults. Neither of the last two is inductive.
The inductive invariant `IInv` adds, for each process, `Marks` (at `mark`, the
entry `new[i]` has been delivered) and `Accounts`, which follows a fetched
deviation from `collected` through the filter into `new` and from there into the
table: before position `i` of the filter it has a row or is in `new`; in the
loops, it has a row or its place in `new` is at `i` or later, unless an error has
been counted. `Accounts` mentions the table, which other processes write; the
argument that they cannot break it is the lemma `Monotone`: a row is never
deleted and a delivery never undone. `Others` is the step of another process,
`OwnStep` the step of the process itself, action by action. TLC has checked
`IInv` on the instances of `faults` and `overlap`.

The second half is about `fetch`: `FetchLeavesNoGap` (`[]NoGapInFetch`), again
for any number of processes. What the invariant `Fetching` adds is a frontier: of
what was in the feed when the run started, everything above the next row to be
examined is collected (`ReadAbove`). Within a page the frontier goes down with
`i`. Between two pages it is where the next page begins or above, because posts
only push a row to a higher offset (`PageFrom`).

**`WatchService_alone_proofs`**: what is true as long as no two processes share
the table (`OneAtATime`, an assumption of both theorems, since `overlapping_seed`
refutes the second without it and an overlapping `dawatch seed` the first).
`LedgerImplemented`: the program
implements `DeliveryLedger`. The invariant `Alone` says that what was fetched has
no row until the process writes one, so that seeding never takes back the record
of a notification. `QuietDeployment` (`[]FirstDeploymentQuiet`, without
`--no-seed`): the argument is that the first row ever written is at least as new
as the whole backlog (`Tops`), and that from then on every fetch stops at it,
since by the frontier above it cannot pass a row that it has not collected
(`Stops`, `NextIsHeaded`). Neither the kill of a seeding run nor the page cap can
change that.

**`WatchService_once_proofs`**: `PushedAtMostOnce` (`[]AtMostOnce`) for one
process, in every behaviour whose steps are `Calm` and in which no answer of ntfy
is lost. `Calm` is two conditions: nobody posts between two pages of a fetch
(`StillFeed`; `WatchService_paging_drift` is the counterexample without it), and
nothing ends the run between a push and its record (`RecordFollows`; a second push
in the next run is the design otherwise, as it is after a lost answer). Everything
else may fail and be killed, and the feed may have any number of pages. The
invariant: what is collected is newer than everything still to be examined
(`Descends`), so a list has no duplicates; the rest of `new` has no row; and what
has been delivered has a row or is about to be marked. `OnePageAtMostOnce` is the
case in which the constants alone imply both conditions, that of the run `onepage`.

**`WatchService_dropped_proofs`**: the other promise, again for one process.
`NothingIsDropped` (`[]NothingDropped`) has two conditions. `CapNotReached`: no
fetch ends at the page cap while the feed has more (`WatchService_page_cap`).
`BatchHandled`: from the first recorded success on, no push fails and no run ends
in the middle of a batch (`refused_send`, `WatchService_killed_run`). Fetches may
fail and be killed, runs may end between their batches, and before the baseline
everything may fail. The invariant follows what was posted after the baseline: it
has a row, or it is above everything that has one, or it is in the batch of the
running process. `OutageDropsNothing` draws the conclusion for the run `outage`
from the constants alone, with `CapUnreached`: for any number of processes and any
faults, a feed of at most `MAX_PAGES` full pages is read to its end, since a page
that promises more is full. `BaselineTakenOnce` (`NoSilentSeedAfterSuccess`) needs
none of `BatchHandled`: under every fault, no run seeds once a success was
recorded. Its conditions are the cap, no `dawatch seed` by hand, which seeds
whenever it is told to, and a feed that held a deviation that validates before
the deployment (`SomeBacklog`; `WatchService_empty_feed` is the counterexample).

**`TokenAuth_proofs`**: `AuthTypes`, `RejectedStaysUnused` (`[]RejectedNotReused`)
and `LeewayLeft` (`HandedOutWithLeeway`) for any number of processes that share
the row. `Sound` says that an access token in memory or in the store was issued
and expires when it says so or later; `Own` that a rejected token is neither in
memory nor, unless `force_refresh` is set, in the store; and `Unsaved`, the part
that makes it work across processes, that a token which was granted and not saved
yet is known to nobody else, so that saving it cannot bring back a rejected one.

`Exit2IsFinal` (`[]ConfigErrorIsFinal`) is about one process, under every fault
and any number of logins: what a process POSTs is what it would load again, the
stored refresh token or without one its seed, and what it was told to be dead is
dead (`Final`). Two processes refute it
(`TokenAuth_overlapping_refresh`). `NoBrowserNeeded` has two theorems, since
DeviantArt does not say which kind of endpoint it has. If it never rotates,
`StableTokenNeedsNoBrowser` needs a seed and a refresh token that does not die,
and nothing else: any number of processes, any other fault. If it may rotate,
`RotationNeedsNoBrowser` needs one process, a volume that stays
(`TokenAuth_lost_volume`), and `RotationSaved`: the answer that carries a rotated
token arrives, and neither a failing statement nor a kill comes before the
statement that saves it. TLC finds a counterexample as soon as one of these three
is allowed. The invariant `Kept` says that what the next process would load is
alive (`Backed`), except while the only living token is on its way to the store.
`RefusalsNeedNoBrowser` is the case of the run `auth_rotation`, from the constants
alone.

**`ApiClient_proofs`**: `ClientImplementsAuth`, by the simulation
`ClientStepIsStep`: every step of `get_json` with its retries is a step of
`TokenAuth` or leaves its variables alone. What was proved of `TokenAuth` carries
over (`ClientDropsRejected`). `CallsAreBounded` (`[]CallBounded`), from `Counted`:
the requests sent are the attempts used, and one more after a re-authentication.
`ClientTypes` (`[]ClientTypeOK`) and `SleepIsBounded` (`[]SleepBounded`) rest on
`OnPage`, that a process which asks for a token has a page left to fetch with it,
and `Slept`, the clamp once for each attempt used so far. Both have a hypothesis
about `2^n` for `n` below the number of attempts, since the provers have no law
for powers. `PowersAreNatural` is true for all constants: it says that such a
power is a natural number. `BackoffClamped` is a real condition: it says that the
power is at most the clamp, which holds for `DAWATCH_MAX_RETRIES` up to six, and
beyond that the code does sleep longer.

**`CommandLine_proofs`**: `CommandTypes`, `OwnCodes` (`[]OwnCodeOnly`), `Exit2Lasts`
(`[]ConfigErrorIsPermanent`), `DoctorIsRight` (`[]DoctorVouches`), for any number
of terminals and any set of worlds. For the first two the invariant says of each
flow that a callback with a code has the state of that code, whoever sent it. For
the others `Checked` lists what each process has found out, and ties it to the
world as long as the process is `steady`; `hopeless => Broken` is why exit 2 is
permanent.

**`Monitoring_proofs`**: `MonitoringTypes`, `TimestampIsTruthful`
(`[]TruthfulTimestamp`), `ErrorAlertIsEarned` (`[]ErrorAlertMeansError`).
`NoneTooYoung` bounds the age in every registry that may still be pushed by that
of the last clean run. `ErrorsAreRecent` follows an error from the registry of a
pod, which is as old as its Job at most, to the gateway and from the scrape to
`rise`.

Every invariant and action property of a passing run is the statement of a
theorem. Only model-checked: liveness under fairness, which is out of reach of the
provers used (`EventuallyRecorded`, `EventuallyPushed`, `ProcessEnds`,
`DeadJobNoticed`, `RunsAgain`, `EveryCommandEnds`). A hypothesis on the steps
(`Calm`, `BatchHandled`, `RotationSaved`) stands beside `Spec` as `[][...]_vars`:
the theorem is about all behaviours of the program in which no step breaks it.

## Not modelled

- The Daily Deviations source and the client-credentials grant: nothing in
  `cli.py` constructs them any more. The first is one request without a state;
  the second shares `token()` with what is modelled.
- The values of the settings, but for those that are constants of a module
  (retries, pages, the optional gateway): `Settings.load` succeeds or fails.
- Logging, the wording of notifications and the sanitising of their headers, and
  of the API models everything beyond "does the row validate".
- `next_offset` when it differs from `offset + len(results)`, or is not a number
  (a `ValueError` that no handler of `main` catches).
- The backoff of more than six retries, which exceeds the clamp for `Retry-After`.
- Test doubles, dashboards and cluster manifests: they have no behaviour of their
  own.
- A container of the Pushgateway that restarts in its pod and reads its persistence
  file (`pushgateway.yaml:27`), which is up to a minute old. A complete file restores
  the group, and nothing changes; a push of the last minute may be lost, as a failed
  push is. `Restart` is the other case, a new pod with an empty `emptyDir`.
- Corruption of the SQLite file, and a lock that is held longer than
  `busy_timeout`, are StoreErrors like any other.

## Plan

1. The invariants that carry the conditional theorems (`Kept`, `Descends`, `Slept`)
   as invariants of runs, and what the refinement of `TokenAuth` gives `ApiClient`
   beyond `ClientDropsRejected`: exit 2 and the chain of refresh tokens.
2. Rows that leave the feed or enter it in the middle, as when the user watches or
   stops watching an artist, and a `next_offset` chosen by the API.
3. A clock of WatchService runs in `Monitoring`: `Worked` as the composition with
   `WatchService`, if its state space can be made small enough.
