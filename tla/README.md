# Verification of undervolt-go-studio

TLA+ models, TLC configurations and TLAPS proofs for undervolt-go-studio: a
desktop program that monitors an Intel laptop and tunes it temporarily, through a
short-lived root helper that must put everything back.  Paths below are relative
to the repository, source lines refer to the commit the modules were written from.

Contents: 1 the system, 2 the modules, 3 the runs, 4 the proofs, 5 findings,
6 what is not modelled, 7 the plan.

## 1. The system

| Part | State it keeps | Operations | What makes it hard | What makes it correct |
|---|---|---|---|---|
| Transaction engine, `internal/tuning/transaction.go` | the active transaction, its record | `Apply`, `Rollback`, `Recover` | every driver call and every save of the record can fail, the process can be killed anywhere | a modified control is always named by a durable record; what is restored is stock; restoration is in reverse order and reports what it could not restore |
| Recovery store, session lock, `recovery.go`, `lock.go` | `recovery-v1.json`, a flock | `Save`, `Load`, `Remove`, lock | failures before and after the rename, records of an earlier boot, two helpers | one helper at a time; a record is old or new, never neither; a stale record is never replayed |
| Change sets and capabilities, `internal/tuning/{model,validate}.go` | none | `Normalize`, `ValidateChangeSet` | clamping, rounding, relations between controls | distinct, supported controls; PL1 at most PL2, changed or not |
| Discovery, `internal/tuning/discovery.go` | the latest run, capabilities | concurrent probes, superseded runs | results arrive in any order, two drivers report one control | the result does not depend on the order; a late run changes nothing |
| Drivers, `internal/tuning/intel/{powercap,policy,thermal,msr}` | handles on files and registers | probe, prepare, capture, apply, verify, restore | a control of several files fails halfway; files come and go; values are rounded | on failure put back or say so; the contract the engine relies on |
| Helper process, `cmd/helper` | the process, its signals | hydrate drivers, run the session | SIGPIPE, SIGKILL, signals during a write | ends with the desktop, and tries to restore before it does |
| Session server, `internal/privilege/session` | stage, transaction, lease, request IDs seen | one select over messages, lease, end of input, signals | all four race; the answer can fail to arrive | no modified hardware without a lease or a failed attempt; fatal errors restore first |
| Session client and launcher, `internal/privilege/client` | pending request, transaction, last rollback, renewal, close result | `Dial`, `Probe`, `Apply`, `Revert`, `Close`, reader and renewal goroutines | answers, events, renewals and timeouts race | what it believes of the hardware is never better than the truth; every call returns |
| Wire protocol, `internal/privilege/protocol` | none | encode, decode, deadlines | partial writes | messages in order, each direction |
| Desktop tuning service, `internal/ui/tune_service.go` | the session, `closed`, `recoveryNeeded` | `Discover`, `Apply`, `Revert`, `Close`, a watcher per session | `Close` interrupts an operation, watchers lag behind | modified hardware always has an owner; a successful `Close` or `Revert` means stock |
| Tune view model, `internal/ui/viewmodel/tune.go` | phase, draft, review | stage, review, apply, revert, events | events race with the return of calls; discovery goes on during a review | the phase never claims more than the service knows; what is written is what was shown |
| Telemetry scheduler and delivery, `internal/telemetry` | subscriptions, one worker per provider, streams | `Discover`, `Start`, `Subscribe`, `Close`, sampling, publishing, shutdown | wake-ups, timers, shutdown and consumers race; providers fail or hang | every subscription is sampled, no provider is asked too often, shutdown is final |
| History, `internal/telemetry/history` | a ring | append, snapshot, downsample | index arithmetic | newest samples in order, extrema kept |
| Live view models, `internal/ui/viewmodel/{overview,monitor}.go` | selection, rings, current values, a subscription | `Activate`, `Deactivate`, `SetMetricIDs`, `SetInterval`, a consumer goroutine | restarts race with the consumer | one consumer at a time, nothing lost across restarts |
| Event store, `internal/events` | a bounded log | append, subscribe | slow subscribers | newest entries in order |
| UI shell, pages, `LatestDispatcher`, `internal/ui` | selected page, one queued callback per page | page changes, rendering, closing | callbacks of a page that was left; the window closes on another goroutine | the newest state is shown, nothing is rendered after cancel, leaving comes to an end |
| Smoke harness, `cmd/tuning-smoke` | one engine, a report on disk | discover, recover, apply, observe, roll back, verify | failures and kills in the middle, leftovers of an earlier run | success means restored; the report is ahead of the hardware |
| Telemetry providers, `internal/providers/linuxfs` | the previous counters | discover, sample | parsing | - |
| Older program, `main.go`, `gui.go` | none | read and write registers | - | - |

How they interact.  The desktop process holds the tune view model, which calls the
desktop tuning service; the service dials a client, which launches the helper with
pkexec and speaks the wire protocol over two pipes; the helper's session server
calls the transaction engine; the engine calls the drivers and the recovery store.
Both processes discover the drivers' capabilities for themselves and review the same
change set.  The helper and the smoke harness exclude each other by the session lock.
Telemetry is independent of tuning and lives in the desktop process; live view models
subscribe to it, and pages render what view models, event store and tune view model
hand to their dispatchers.

PROJECT.json lists every component with its files and its status, and every hazard
at its line with the properties that watch it.

## 2. The modules

| Module | Models |
|---|---|
| `UndoJournal` | abstract: a control may be modified only while a durable record covers it |
| `TuningEngine`, `MCTuningEngine` | the engine, the recovery store and the lock, in any number of processes |
| `TuningEngineProofs` | the theorems about `TuningEngine` |
| `ControlContract` | abstract: what the engine may assume of the driver of one control |
| `DriverCall` | what drivers have in common: attributes that fail, vanish and come back, calls, kills |
| `PowercapDriver`, `PolicyDriver`, `ThermalDriver`, `MsrDriver` | the four drivers, file by file |
| `ControlDrivers`, `MCControlDrivers` | all of them behind one interface, against `ControlContract` |
| `ControlDriversProofs` | the theorems about `ControlDrivers` |
| `ChangeSets` | normalisation and review of a change set, as operators |
| `CapabilityReview`, `MCCapabilityReview` | discovery, view model, service and helper, from the first probe to the written values; uses `ChangeSets` |
| `CapabilityReviewProofs` | the theorems about `CapabilityReview` |
| `SmokeHarness`, `MCSmokeHarness` | the harness; drives `TuningEngine` (INSTANCE) and uses `ChangeSets` |
| `PrivilegedSession` | the session server, the client and the two pipes |
| `PrivilegedSessionProofs` | the theorems about `PrivilegedSession` |
| `DesktopTuneService`, `MCDesktopTuneService` | the service above the client |
| `DesktopTuneServiceProofs` | the theorems about `DesktopTuneService` |
| `TuneViewModel`, `MCTuneViewModel` | the view model and its page, composed with `DesktopTuneService` (INSTANCE) |
| `TuningUsersProofs` | the theorems about the two programs that tune: `TuneViewModel`, resting on those about `DesktopTuneService`, and `SmokeHarness`, resting on those about `TuningEngine` (both by INSTANCE) |
| `TelemetryScheduler`, `MCTelemetryScheduler` | the scheduler, its workers, the streams and their consumers |
| `LatestDispatcher`, `MetricHistory` | the dispatcher, the ring and the downsampling, as operators |
| `StudioPages`, `MCStudioPages` | live view models, event store, pages, navigation and closing, over those two |
| `MonitoringProofs` | the theorems about `TelemetryScheduler`, and what those about `StudioPages` rest on: lemmas about its rings, charts and dispatchers, the invariants, what each step does to the calls under way |
| `StudioPagesProofs` | the theorems about `StudioPages`; extends `MonitoringProofs` |

```
 SmokeHarness    TuneViewModel     StudioPages -- LatestDispatcher, MetricHistory
   |      |            |
   |      |     DesktopTuneService       CapabilityReview      TelemetryScheduler
   |      |            .                        |
   |      |     PrivilegedSession           ChangeSets -- ControlDrivers => ControlContract
   |      |            .                        |               .
   |   TuningEngine => UndoJournal ............ | ...............
   +--------------------------------------------+
 line: EXTENDS or INSTANCE     =>: refinement that is checked     dots: an interface taken over
```

Each layer takes from the one below what that layer's module shows of it:
`TuningEngine` knows a driver as `ControlContract` describes it, which
`ControlDrivers` implements; `PrivilegedSession` knows the engine by the outcomes of
`Begin`, `Rollback` and recovery; `DesktopTuneService` knows a session by the outcomes of
`Client.Apply`, `Revert` and `Close`, by its events, and by the ways a helper ends;
`TuneViewModel` takes the steps of `DesktopTuneService` themselves and adds what they
return and publish; `SmokeHarness` takes the steps of `TuningEngine` themselves.

Modules that one module of proofs extends have no name in common, which is why the
specifications of `TuneViewModel` and `StudioPages` are called `ViewSpec` and `PagesSpec`.

An operator named `Op_Fault` is a faulty variant of the operator `Op` that follows
it.  No specification uses it; with it in the place of `Op`, the property named in
PROJECT.json fails, which shows that the property watches that code.

### TuningEngine

`pc[p]` is the place of process `p` in `Recover`, `Apply` or `Rollback`: one step
per save of the record, per driver call and per loop iteration, because the process
may be killed between any two of them.  `mem[p]` is the record in memory, `disk` the
published one; `applied` holds the controls whose entry has `Applied` set.

- `Save(record, ok)`: a failure leaves the old record or has published the new one
  (`recovery.go` renames, then syncs the directory).  `Remove` likewise.
- `WriteControl`, `RestoreControl`: a write that fails may leave any value; a
  restore that fails may too, unless the control already held what it writes.
- `Start`, `Load`, `Recover*`, `RecoverEnd`: `cmd/helper` takes the lock and
  recovers before anything else; a record of another boot ends the helper.
- `Begin` (prepare and capture), `SaveRecord`, `Mark`, `Write`, `Activate`: `Apply`.
- `Rollback`, `Rollback*`, `RollbackEnd`: the same code for a failed `Apply`, for
  revert and close, and for a retry after an incomplete rollback.
- `Exit`, `Kill`, `Reboot`.

### PrivilegedSession

One step per iteration of the server's select: `Handle(m)` is the message case,
`LeaseExpires`, `EndOfInput` and `Signal` the others; `Answer` is the write that ends
most of them, which can time out or raise SIGPIPE.  In the client the steps are the
sections between locks and channel operations: `Call*` registers and writes a
request, `Return` takes its answer, `Timeout` gives up, `ReadLoop` is the reader,
`RenewTick` and `RenewWrite` are the renewal (which reads the transaction and writes
without holding the lock in between), `Waited` is the end of `Close`.
`attempted` is a history variable: since the transaction began, a rollback ran.

### DesktopTuneService

`op` is the operation that holds `applyMu` and where it is, `closer` the same for
`Close`; `sess[c]` is a client with its helper.  A step is what one goroutine does
between two releases of `service.mu`, or one call of the client.  `Watch` is
`watchSession`, which may lag behind by any number of events.

### TuneViewModel

`phase`, `sessionActive`, `pending` (the draft is not empty), `pendingValid`, `caps` and
`active` are the fields of `TuneState`; a capability set is its generation.  `calls[s]` is
a goroutine of `Apply` or `Revert`: inside the service, returned, or (`Revert` only)
between its two critical sections.  `Serve` is one step of the service's operation; the
event it publishes is appended to `stream` in the same step, and `Consume` is the
goroutine that reads it.  `Discovered` is `consumeDiscovery`, `ClickClose`,
`CloseService` and `EndClose` are `Close`.  The page contributes what a user can press:
`locked`, `canReview`, `canRevert`, and the modal review `dialog`.

`Prompt` is an assumption about the user: a click comes after what has already returned
or been published is written and rendered.  Without it a click could use a button of an
older rendering, for example a second Revert, whose result arrives after a whole new
session was applied.  Goroutines, helper, watcher and consumer are not slowed by it:
whatever is still in the service when the user acts may return in any order later.

### TelemetryScheduler

Everything under `scheduler.mu` is one step.  `worker[p].at` is the place in
`runProvider`; `wake[p]` the token in `runtime.wake`; `age` and `since` count ticks
since `lastAttempt` and `lastDelivery`, up to the longest interval, beyond which no
comparison in the code tells them apart.  So time is unbounded and the state finite.
A worker may be late by any number of ticks.  A sample whose context is done before
it starts fails: every provider checks `ctx.Err()` first.  Consumers subscribe only
to metrics of the published catalog, as the desktop does.

### Drivers

A behaviour of `ControlDrivers` is about one control: a limit of one or several powercap
zones, the preference of several CPU policies, the thermal offset, a voltage, a ratio
table.  `call` is the call that runs, with the loop index of the driver's own loop; every
read of a file is part of the step that depends on it, every write is a step with the
read that verifies it, because a kill or another failure may come between two files.
A write that fails leaves the old value, the new one or a leftover; attributes disappear
and come back (a CPU taken offline, an unloaded module).  `Probe` gives the capability,
from which the request is normalised with `ChangeSets`, so that what is reviewed and what
is prepared are compared.  A record outlives the process: a restart prepares a restore
from the record with what it then probes.  Voltages are in integers of 1/128 mV, so that
the rounding of `EncodeVoltageOffset` is exact; the ratio tables are sequences.

`ControlContract` is what `WriteControl` and `RestoreControl` of `TuningEngine` assume:
applying may leave the control anywhere, restoring only moves it towards the captured
value, and a restore that reports success has reached it.

### CapabilityReview

`streams[t]` is the discovery of activation `t` of the page: its goroutine, the probes
still running, what has been merged and what is published but not yet read.  `latest` is
`Discoverer.run`.  `vm`, `service` and `helper` are what the tune view model, the
service and the helper know.  A generation is the set itself: the code hashes it.
The review dialog is modal, but discovery, the helper and the firmware go on behind it.
`scope`, chosen at the start, keeps the user's choices apart (see section 3).
The hardware holds a level (`Levels`) in every field (`Fields`); the firmware moves it among
`Machines`.  What a driver reports of it to either process is the constant `Reports`, about
which the module assumes what the code ensures (section 4).

### SmokeHarness

`smoke.stage` is the place in `run` and `exerciseCase`; inside a recovery, an apply or a
rollback the steps are those of `TuningEngine`.  A control holds its distance from the
value at boot, which `Number` turns into what a driver reports.  `report` is the file of
`--output`.  Firmware may move controls, drivers may not answer, saves may fail, the run
may be killed and started again.

### StudioPages

A thread is the UI, the closing goroutine, a goroutine that changes the tune view model, or
the consumer of one subscription.  `todo[t]` is the list of calls thread `t` has still to
make; one step performs the head of it, which is one section under one lock or one channel
operation, and may put the calls it leads to in front.  So the order of calls within a
method is the code's, and everything else interleaves.  `queue` holds the callbacks given
to `fyne.Do`; the UI runs one when it is not handling an event.  `updates[d]` is a
`LatestDispatcher`, `shown[d]` what the page last rendered.  `vm[v]` are the live view
models with their rings, `subs[w]` the subscriptions with their channel of one place.
`Quit` and `StopTelemetry` are `Desktop.Close`, on a goroutine of its own.  `received`,
`late` and `renewed` are history variables: the samples received, whether two views of one
page may have overtaken each other or one was dropped because its page was left, whether
anything was submitted since the page was left.  A subscription begins on a goroutine of its
own, so `MonitorUp` and `LogsUp` wait for one of `Workers` that is free: the bound on
goroutines that TLC needs, and no restriction of what the theorems say of any `Workers`.

Three simplifications.  `Enter` is one step for the two accesses to `n.selected`
(`navigation.go:64`): in between the closing goroutine may set it to nil (`:76`), and
`Activate` then panics.  The orders that do not end in the panic are all there, since the
calls `Activate` makes are steps after `Enter`, and the properties are about a program that
goes on.  A page's commands are offered while it is selected, although its widgets stay on the
screen until a closing window is gone.  `StateOf` leaves out the monitor's interval and
whether it is active, which decide only how the age of a reading is labelled.

## 3. The runs

| Run | Instance | States | Shows |
|---|---|---|---|
| `engine` | 2 processes; pl1, pl2 (one order), voltage (later order); values stock, tuned, mixed; 3 faults, 1 reboot | 77 000 | what is modified is always covered by a durable record and restored in reverse order, through failures, kills and a reboot: `JournalCovers`, `SnapshotsAreStock`, `ReadyMeansStock`, `ReportIsComplete`, `StaleRecordKept`, `ReverseRestoration`, refinement of `UndoJournal`, `EventuallyStock` |
| `drivers` | one control of six kinds, 2 files where it has several, 2 faults | 434 000 | what the engine assumes of a driver, `ImplementsContract`; every failure has a cause, `FailureHasCause`; no file holds what nobody asked for, also after a kill, `FilesAreExplained`; success is what was reviewed, `AppliedAsReviewed` |
| `review` | 2 drivers for one control, 3 scopes, 1 fault | 1 364 000 | `MergeIsOrderFree`, `PageShowsItsVisit`, `WrittenAsShown`, `LimitsStayOrdered`, while probes, discoveries of two visits, helper and firmware interleave |
| `smoke` | 4 controls of 3 drivers, 3 machines, 2 runs, 2 faults, 1 reboot | 245 000 | `SuccessMeansRestored`, `ReportIsAhead`, with failures, kills and firmware that interferes |
| `session` | request limit 6, 7 messages, 2 failing rollbacks | 199 000 | what the client believes is never better than the truth, `ProofOfRollback`, `CloseIsHonest`, `IncompleteIsReported`; the helper restores before it ends, `OrderlyExit`, and ends, `HelperEnds`; `CallsReturn`, `LeaseBoundsTuning` |
| `desktop` | 3 sessions (symmetric), watchers 1 event behind | 1 060 000 | modified hardware has an owner, `TunedIsOwned`; `CloseIsFinal`, `RevertRestores` |
| `tune_view` | 2 sessions, 2 goroutines, watcher 1 and consumer 2 events behind, 1 attempt to close | 3 830 000 | `TunedIsShown`, `PhaseSettles`, in whatever order results and events arrive |
| `telemetry` | 2 providers, 2 consumers, intervals 1 and 2, one descriptor of 2, 2 failures open the circuit | 1 107 000 | `StopIsFinal`, `SafeCadence` |
| `telemetry_liveness` | 2 providers, one of which may hang, 2 consumers | 64 000 | no wake-up is lost, `EachIsSampled`; `StreamsClose` |
| `pages` | 11 scopes, 3 subscriptions, a ring of 5, 2 columns, a store of 2 | 275 000 | `NewestIsShown`, `HistoryIsNewest`, `ChartKeepsSpikes`, `CancelledIsDropped`, `LeavingEnds` |
| `session_pipe_loss`, `desktop_close` | as `session` and `desktop` | - | the findings of section 5 |

Bounds.  *Engine*: two processes are enough for one to take over from another, and
the lock admits no more at a time; three controls give an order within a driver and
between drivers; three faults allow a failing write, a failing restore and a kill (or
a failed save) in one history; a third value is what distinguishes a control that was
put back from one that was merely changed.  *Session*: seven messages allow hello,
probe, begin, a renewal, a revert, a second begin and a close, or the refusal of the
seventh by the limit of six (4096 in the code); two failing rollbacks allow a failed
retry.  *Desktop*: three sessions allow one being closed, one that replaced it and
one dialled for recovery, with watchers of the first two still behind.  *Tune view*: two
goroutines are an operation and one more click that is refused meanwhile; two sessions
one that was lost and one dialled for its recovery; the pending list is valid for the
complete and the privileged generation and not for the partial one, so a draft can
become invalid and valid again; a second attempt to close repeats the first.  The VIEW of
`MCTuneViewModel` hides how the last operation ended and the records of sessions nothing
refers to, which no later step and no checked property reads.  *Telemetry*: two
providers for the isolation of one from another and for the shared streams, two
consumers of one metric at different intervals for the demand to be their minimum,
and ticks up to the longest interval.  *Drivers*: two zones or policies, so that one is
written and the other not; limits on and off the step, policies with and without a common
choice, voltages at both ends of the range, at a half unit and out of it; two faults allow
a failing write and a failing undo, or a kill and a file that is gone.  *Review*: three
scopes: a page left and reopened while the runs of both visits go on; a review that a
probe, another generation or the firmware gets in the way of; a page reopened while or
after the helper answers.  Two drivers report the same control, as in the tests of the
discoverer.  The firmware moves the bound of a limit, or PL2 itself, which the review of
PL1 alone is checked against.  *Smoke*: three machines: PL1 above PL2; PL1 at its minimum and PL2 not
offered; only thermal limit and preference; two runs, because the second meets what the
first left; two faults and one reboot.  *Pages*: eleven scopes, each one page or pair of pages
with the inputs that matter to it (samples, commands, events, changes, a catalog, the
closing of the window), because their product adds nothing but states; a ring of five with
six samples wraps, two columns make a chart drop samples, a store of two forgets an event, and
three goroutines are the Logs page's, a consumer and another that is not awaited yet.

Deadlock is checked in `engine` and the telemetry runs.  It is off for the others, whose
systems end by design (the helper is gone, the service is closed, the harness has run, the
user does nothing more) or whose bounded inputs are used up; that none of them hangs where it should go on is
the subject of `HelperEnds`, `CallsReturn`, `PhaseSettles` and `LeavingEnds`.

A type invariant is checked for the engine, where proofs build on it; elsewhere the runs
are spent on properties that relate parts of the state, and a value of a wrong type makes
TLC stop in a guard or in one of those.

Fairness.
- *Engine* (`Fairness`): a running process goes on; a transaction is eventually
  rolled back (its lease), and an incomplete one retried unless the process ends; a
  user keeps starting helpers and lets one of them probe.  The code justifies only
  the first two; the third is what "recoverable" asks of its user.  Faults are finite.
- *Session* (`FairSpec`): the helper's loop, the reader, the renewal and the call in
  progress are scheduled, the lease timer fires.  Nothing makes the user call, a
  context expire or a process die.
- *Telemetry* (`Fairness`): goroutines run and time passes; a select with several
  ready cases takes each of them now and then (strong fairness of `Stop` only), as
  Go's random choice does; a provider answers, unless it is in `Hanging`.
- *Pages*: `WF_vars(System)` alone: some goroutine that can run does run.  It is weaker
  than what Go's scheduler gives each goroutine, and enough, because every call list is
  finite and the inputs are.

## 4. The proofs

Every theorem is about any value of the constants, from the assumptions of its module and
nothing else; TLC evaluates those assumptions in the runs, and checked the inductive
invariants on the instances of section 3 before they were proved.

### The engine, `TuningEngineProofs`

For every number of processes, controls, values, driver orders, faults and boots, from
`EngineAssumption`:

| Theorem | Property |
|---|---|
| `TypeCorrect` | `[]TypeOK` |
| `JournalAlwaysCovers` | `[]JournalCovers` |
| `SnapshotsAlwaysStock` | `[]SnapshotsAreStock` |
| `ReadyAlwaysStock` | `[]ReadyMeansStock` |
| `ReportAlwaysComplete` | `[]ReportIsComplete` |
| `StaleRecordAlwaysKept` | `StaleRecordKept` |
| `RestorationAlwaysReverse` | `ReverseRestoration` |
| `EngineImplementsUndoJournal` | `ImplementsUndoJournal` |

The argument has three layers, each inductive relative to the ones before it.  The lemmas of `SafeInv` are
stated for any set of controls that others have moved, which is empty here.

1. `TypeInv` is `TypeOK` with `Bounds`: at each label the loop index stands inside
   the entries, without which `Current(p)` means nothing.
2. `SafeInv`.  `DiskInv`: a record of this boot is an `OkRecord` (its snapshots are
   stock, everything off stock is in `applied`, its entries are distinct), and without
   such a record the hardware is at stock.  `ProcInv(p)`: a running process holds the
   lock; an idle one finds stock; from the capture to the end of a rollback its own
   record is an `OkRecord`; at "write" the control is already covered on disk; in a
   restore pass without a failure what is left to restore is below the loop index
   (`Within`).  `JournalCovers` alone is not inductive: that a new record may replace
   the old one needs "an idle process finds stock", which needs that a pass that ended
   without a failure restored everything.
3. `FreshInv`: a process past `Load` works beside no record of an earlier boot, which
   is what keeps such a record from being overwritten.

Two lemmas carry the concurrency: `OthersDown` (only the holder of the lock is not
"down") and `OneStep` (a step of `p` leaves what is known of the others), so that
each action is only checked against its own process.  The reverse order is `Within`
again (`ReverseStep`).  Refinement follows from
`SafeInv` and the fact that a step moves one control at a time (`OneControl`,
`RefineStep`).

### The drivers, `ControlDriversProofs`

For every limit, value, offer, offset, voltage and ratio table, every leftover of a failed
write and any number of faults, from `DriversAssumption` (values are what the files can
hold: natural numbers, voltage fields of 11 bits in `Words`, tables of ratios):

| Theorem | Property |
|---|---|
| `InvAlways`, `TypeCorrect` | `[]Inv`, `[](WorldOK /\ ProcessOK /\ RecordOK)` |
| `ContractAlwaysKept` | `ImplementsContract`, the refinement of `ControlContract` |
| `FilesAlwaysExplained` | `[]FilesAreExplained` |
| `AppliedAlwaysReviewed` | `[]AppliedAsReviewed` |
| `FailureAlwaysExcused` | `[]FailureHasCause` |

`Inv` adds to the types what ties the parts of a call together.  `Calling`: an `Apply` has
written every attribute before its loop index.  `Restoring`: a restore without a failure has
put back every one after its index, because it runs backwards.  `Explained`: an attribute
without a failed write holds the captured or the requested value; a voltage lies between the
two, and a step towards the goal never overshoots (`StepTowards`, `NoOvershoot`).  `Asking`: what is
asked fits the attributes of the operation, and for ratios the register still holds the table
they were checked against.  `Reporting`: what passes the review of the driver's own report is
accepted by its `Prepare`.  `Excuses`: a call that will fail has a cause already.  None of
the four properties is inductive without the first three: that a restore which reports
success has restored everything is a statement about a loop of which one iteration is a step.
The arithmetic of the voltage register (`FieldUnits`, `UnitsInjective`) and of the ratio table
(`Encoded`, `EncodedRatios`) is in lemmas of its own.

So the interface at which `TuningEngine` takes over from the drivers is not an
assumption: what `WriteControl` and `RestoreControl` say of a driver is `ControlContract`,
and the six kinds of control implement it.

### The smoke harness, `TuningUsersProofs`

For every machine, whatever its controls hold at boot, every number of runs, faults and
boots, whatever moves are made behind the harness's back, from `HarnessAssumption`:

| Theorem | Property |
|---|---|
| `InvHolds`, `TypeHolds` | `[]Inv`, `[](TypeOK /\ EngineProven!TypeOK)` |
| `SuccessHolds` | `[]SuccessMeansRestored` |
| `ReportHolds` | `[]ReportIsAhead` |
| `NeverRaisesHolds` | `[]NeverRaises` |

*The engine below.*  The engine's `SafeInv` says that whatever is off stock is covered by
the record; firmware that moves a control makes that false.  `TuningEngineProofs` therefore
proves its lemmas for a set `M` of controls that others may have moved (`Astray(M)`,
`SafeInv(M)`, for the engine alone with `M` empty), and `MovedSafe` lets `M` grow at
any time.  The harness takes the invariant over for `M = moved.ever` (`Sound`).

*The place in the run.*  `Placed` ties the stage to the engine's label, `InCase` says of
every stage inside a case that the case is one of those that `conservativeCases` makes of the
discovered capabilities, that it was reviewed, and that the engine works on it and nothing
else.  `Written` says that what the engine has passed holds what was reviewed, or was moved.

*The report.*  `Ahead` is the induction: the stage is "begun" or later only after the file
that says so was published, so that `ReportIsAhead` survives a kill at every step; `Clean`
says that outside a case without a record there is nothing to report.

*Success.*  A case that was verified found each of its controls as it was before (`Restored`);
the controls of two cases differ (`CaseIs`), so that later cases cannot undo it, and an error
that was recorded stays (`ErrorFree`).

*Never raised.*  A case writes one step down from the reading, or what the review made of
that.  The review raises a limit only up to its minimum, which by the assumption no reading is below;
it never changes a preference, and no preference saves more than the one asked for.  The exception is a PL1 above PL2.  It is what a case asks for, whatever happens around it, and
is proved without a run of its own.

`HarnessAssumption` states what the code gives: both power limits have one minimum
(`powercap/discovery.go:150` makes it 0), what is read at boot is within the range that is
offered, and the preference at boot is one of those listed.

### The session, `PrivilegedSessionProofs`

For every limit of requests, number of messages and number of failing rollbacks, from
`SessionAssumption` (bounds are numbers, `None` and `Lost` are none of the messages):

| Theorem | Property |
|---|---|
| `InvAlways`, `TypeCorrect` | `[](TypeOK /\ SessionInv)`, `[]TypeOK` |
| `ProofAlwaysHolds` | `[]ProofOfRollback` |
| `CloseAlwaysHonest` | `[]CloseIsHonest` |
| `IncompleteAlwaysReported` | `[]IncompleteIsReported` |
| `ExitAlwaysOrderly` | `[]OrderlyExit` |

What makes these hard is that the client reads what was true when it was sent.  `SessionInv`
therefore speaks about whole pipes.  `OneCall` and `OneAnswer`: while the helper runs, one
message or its one answer is under way, and it is the one the client waits for; everything
else there is a renewal or of the lease.  `Readiness`: what the client believes of the
handshake is so.  `Proven`: while a proof of a rollback is held or under way the hardware is
at stock, no transaction is active, and none is about to begin.  `IncompleteIsReported` needs
one more layer (`Reported`), inductive relative to `SessionInv`.

### The service, `DesktopTuneServiceProofs`

For every number of sessions and every lag of the watchers, from `ServiceAssumption`:

| Theorem | Property |
|---|---|
| `InvAlways`, `TypeCorrect` | `[]Inv`, `[]TypeOK` |
| `TunedAlwaysOwned` | `[]TunedIsOwned` |
| `CloseAlwaysFinal` | `[]CloseIsFinal` |
| `RevertAlwaysRestores` | `RevertRestores` |

`Attachment`: a helper that still waits for requests is the session that the service or its
operation holds; there is no other.  `Held`: a proof of restoration in a held session is of
the hardware as it is.  `Operating` and `Closes` say what each of the two actors may assume
of the other at every place in it.  `Settled` is `TunedIsOwned` with "modified" extended to
"modified, or a helper that still may modify", without which it is not inductive: a session
that is lost between two critical sections may still be tuning.

### The view model, `TuningUsersProofs`

For every number of sessions, goroutines and events under way, and whatever generations the
pending list is valid in, from `ViewAssumption`:

| Theorem | Property |
|---|---|
| `TuneInvAlways`, `ViewTypeCorrect` | `[]TuneInv`, `[](ViewTypeOK /\ ServiceProven!TypeOK)` |
| `TunedAlwaysShown` | `[]TunedIsShown` |
| `PhaseAlwaysSettles` | `[]PhaseSettles` |

A step of the composition is a step of the service or leaves it alone (`NextIsService`), so the
service's invariant is taken over with its proof (`ServiceKeeps`).  On top of it the argument
is about what is under way.  `ForgetsRestored`: whatever will make the view model forget a
session, an event that ends one or a Revert that returned, is on its way only while the
hardware is at stock and no `Apply` may still change that (`MayTune`); that an event in a
session's own queue is true needs `Announced`, inductive for the service.  `Shown`: a
modified machine is shown, or an event that shows it is in the stream, or the operation or
`Close` is about to say so.  `ClosedIsShown` covers the one path without an event, a session
discarded by an `Apply` that found the service closed.  `Settles`: a phase that waits has a
goroutine or an event that will change it; `Served`: the operation in the service is that of
exactly one goroutine.  The two properties speak of rest and are not inductive: at rest they
are what remains of `Shown` and `Settles`.  The argument uses `Prompt`, the assumption that
the user is slower than the program's bookkeeping, where a click starts a goroutine.

### Discovery and review, `CapabilityReviewProofs`

For every set of drivers, whatever they report of whatever hardware, every number of
discoveries, staged changes and interferences of the firmware:

| Theorem | Property |
|---|---|
| `InvAlways` | `[]Inv` |
| `MergeAlwaysOrderFree` | `[]MergeIsOrderFree` |
| `PageAlwaysShowsItsVisit` | `PageShowsItsVisit` |
| `WrittenAlwaysAsShown` | `[]WrittenAsShown` |
| `LimitsAlwaysOrdered` | `[]LimitsStayOrdered` |

`ReviewAssumption` says of the reports that a driver names itself and reports a control once,
that priorities differ (`discovery.go:138`), and that some register control is reported to the
helper whatever the machine is, for `requires_probe` only to the application: the helper has
the register driver, which answers for unknown models too (`cmd/helper/main.go:62`,
`msr/driver.go:40`), the application has `deferredIntelControls` in its place
(`tune_service.go:76`).  `LimitsAssumption`, made for `LimitsAlwaysOrdered`, says that
both limits can be read and are reported in watts as they are; of a limit that cannot be read
the code assumes nothing (`validate.go:96`), and neither does the theorem.

*The merge.*  `preferCapability` is the order of `Rank` (`PreferredIsRankedFirst`), so one
`Merge` keeps the best of what was merged and what is added (`MergeKeepsBest`).  `RunOK` says
of each run that the drivers which have answered are those it no longer waits for, none of
them twice (`OneRun`), and that `merged` is best (`IsBest`) among the answers taken; there is
only one such set, the reference (`BestIsReference`).  A complete set is best of all answers
because a run that has taken as many answers as there are drivers has taken them all, which
is the count of `Len(done)` and `waiting`.

*The visit.*  What a run publishes before a helper has answered is the best of its first
answers (`PartOK`): what was merged is the best of those taken, and answers that come later
do not change the first ones (`PartAnswers`).  `VisitsOK` says so of every run, also of an
earlier visit, whose sets may be published and not read yet; only the present visit's are
shown (`SetIsOfVisit`), because `consumeDiscovery` compares its token with
`activation` under the lock (`tune.go:349`).

*What is written.*  `WrittenAsShown` says nothing of the page, the service and the helper, so
that nothing of it is inductive.  The sets in streams, page and service are the application's
or the helper's (`AppMade`, `HelperMade`), and no set is both (`OriginsDiffer`).  In the
dialog the set may be replaced by a newer one while the rows stay, but then it is one of the
application, or the helper's, of which there is one generation with one review: `VmOK` says
the rows are the review of the page's set unless that is the application's, `ShownOK` the
same of what was sent.  The helper writes only if its own generation was sent, which then is
not the application's, so the rows are the review of the helper's own set.  It follows that
a desktop that has only its own set is always answered with a revised review first.

*The limits.*  A helper that has heard of all drivers has both limits in its set, as they are
unless the firmware interfered (`HelperOK`).  What the review expects of a limit
(`Effective`) is then what the limit holds after the write, asked for or not
(`LimitIsWritten`).

### The scheduler, `MonitoringProofs`

For every set of providers, metrics and consumers, every interval, backoff and limit, from
`SchedulerAssumption`: `TypeCorrect`; `StopAlwaysFinal`, `[]StopIsFinal`; `CadenceAlwaysSafe`,
`SafeCadence`.  Once every worker has stopped none starts again, and the streams close only
then (`StopInv`); the gap between two samples follows from what a sample may be due for.

### The pages, `StudioPagesProofs`

For every set of metrics, subscriptions and services, every capacity of a ring and of the
store, every number of columns and whatever the environment does, from `PagesAssumption`
(capacities are positive numbers, the UI and the closing goroutine are no other's thread, the
inputs are numbers and sets of what they are about):

| Theorem | Property |
|---|---|
| `PagesKept` | `[](Known /\ Claims /\ LogsKept /\ OneCallback)` |
| `CallbacksDropped` | `CancelledIsDropped` |
| `HistoriesKept`, `HistoryAlwaysNewest` | `[](RingsHold /\ Times)`, `[]HistoryIsNewest` |
| `ChartAlwaysKeeps` | `[]ChartKeepsSpikes` |
| `NewestKept`, `NewestAlwaysShown` | `[](Known /\ LogsKept /\ OneCallback /\ NewestArrives)`, `[]NewestIsShown` |

*What is under way.*  A thread's list of calls may have any length, but only its head acts.
`Known` is the types, and of the lists that a call which belongs to what has just been done
(`Urgent`: submit, dispatch, render, close, await) stands at the front, so that what is under
way on a thread is its head (`Leads`), with at most an await behind a close (`Shape`); and
that the UI alone renders and refreshes, and no consumer or service enters or leaves a page (`Roles`).  Every step is then of
one of four kinds, stated by what it does to the heads and to the rest: `CalmStep` leaves
both alone but for lists put in front, `FeedStep` moves samples and events, `HandStep` passes
a view from a thread to the dispatcher, to the queue, to the UI, `LinkStep` opens, closes or
awaits a subscription.  The invariants are proved over these four instead of over some forty
actions.

*Who holds a subscription.*  `Claims`: a subscription of a live view model that is not free is
held by that view model or by the one thread that still has to close or to await it, and only
one of the two.  `LogsKept`: the Logs page holds an open subscription, and one that is
starting has a thread that will start it.

*Callbacks.*  `OneCallback`: a dispatcher with a value pending has exactly one callback of its
present epoch, in the hands of a thread or in the queue; without one it has none.  It says why
`CancelledIsDropped` holds: a callback that renders is of the present epoch, which began after
the page was left, and its value was submitted in it.

*Histories.*  `RingsHold` compares every ring with the reference, the newest samples received.
The arithmetic of the ring (its first sample, the place of each, before and after one is
added) and of the chart (the columns cover the samples without overlapping, the positions of
each column's extremes, in order) are lemmas for any capacity and any number of columns.
`Times`: of the samples of a view model those in the rings are older than the one in the
channel, which is no newer than the clock.  It is inductive because of `Claims`: a view model
has no second subscription while its first one is running, until the window closes.

*The newest view.*  `NewestIsShown` speaks of rest; `NewestArrives` is what it is the rest
of: unless a view came late, the newest view of a dispatcher is about to be submitted, is
pending, is about to be rendered or is shown, and nothing that would overwrite it stands after it;
or somebody is about to make a newer one (`Renewing`: a queued look at the events, a wake-up
in the Logs page's channel, a refresh).  A step that makes a view while another thread holds
an older one is the race the property excepts (`late`); that the exception covers no more than this race and what is
dropped by leaving a page is visible in `View`, `Submit`, `Refresh` and `CancelUpdates`.

### What proving changed in the models

- `SessionAssumption`, `DriversAssumption` and `ViewAssumption` state what the modules had
  relied on silently.
- The refusal branch of `VoltageRestore` left part of the next state unspecified; it now keeps
  it.
- Two guards of the CASE in `Consume` overlapped, so that TLA+ left open which of them an
  event takes; TLC takes the first, as the code does, and the guards now say so.
- `ReviewAssumption` and `LimitsAssumption` state what `CapabilityReview` had relied on in
  its instance alone: no theorem about every `Reports` holds without them.  `Receive` names
  the stream it changes.
- `HarnessAssumption` and `EngineAssumption` state what `SmokeHarness` had relied on in its
  machines alone; its cases are put together without a filter, of whose results the provers know nothing.
- Filtered sequences of the drivers are written with `Kept`, about which lemmas can be proved,
  and the fields of the voltage mailbox are named (`Words`).
- A view that a thread still holds while its page is left is dropped when it is submitted
  (`components/latest.go`); `late` had not covered that, so that `NewestIsShown` was false of
  the model in general.  A scope was added in which it happens.
- `PagesAssumption` states what `StudioPages` had relied on in its instance alone, and
  a subscription waits for a goroutine that is free, where `CHOOSE` had been given an empty set.
- `SetCatalog`, the chart and the ring are written as functions of a position where
  they had been folds, of which the provers know nothing.

Every invariant and action property of every run is proved, and both refinements.  Only
model-checked is liveness (`EventuallyStock`, `HelperEnds`, `CallsReturn`, `LeaseBoundsTuning`,
`EachIsSampled`, `StreamsClose`, `LeavingEnds`), which rests on fairness and so on ENABLED, beyond
these provers.

## 5. Findings

Each is a run that TLC is expected to refute, with the sentence the code contradicts.

1. `session_pipe_loss`: a helper that answers `Begin` to a desktop that died is ended
   by SIGPIPE before its rollback (`session/server.go:215`).
2. `desktop_close`: a `Close` that interrupts an `Apply` can return nil with modified
   hardware, because `Apply` ignores that closing its session failed
   (`tune_service.go:191`).  `TunedIsOwned` and `CloseIsFinal` state this exception
   explicitly.

Behaviour of the code that the models contain and no property rules out, worth knowing
when changing it:

- *Session.*  A renewal already in the pipe when a rollback fails is an invalid message:
  it ends the session that was kept for a retry (`session/server.go:120`, `:221`), after
  one more attempt to restore.
- *Service.*  A `Close` that gives up waiting for an operation leaves the service closed,
  so the window stays open and nothing but closing can be retried (`tune_service.go:278`).
  A `Revert` that succeeds on a live session leaves `recoveryNeeded` as it was until the
  watcher sees its event.
- *View model.*  `Reset`, and a discovery that completes, set the phase to idle while
  `Apply` runs (`viewmodel/tune.go:164`), and the page says "hardware unchanged" of
  hardware that is being written, until the event of the operation arrives.  A second
  Revert that is refused because the first runs is shown as an incomplete rollback until
  the next event.  The goroutine of a confirmed `Apply` that starts only after another
  `Stage` and `Review` applies the second review before it is confirmed.  The first
  `Apply` of a session ends in a revised review whenever the helper sees more than the
  application does, which it does on machines with registers.
- *Review.*  A machine whose PL1 is above its PL2 has every change set refused, also one
  that touches neither.
- *Drivers.*  A powercap `Apply` that fails in its last reading leaves everything written,
  and the engine restores it.  Restoring a preference stops at the first policy that is
  gone, the others stay.  A voltage that the firmware left outside -250..0 mV cannot be
  stepped back by the driver.  The capture of ratios accepts a table that its restore refuses.
- *Smoke harness.*  Its power case raises PL2 on a machine whose PL1 is above it,
  which `NeverRaises` excepts; the test that no limit is raised (`main_test.go:320`) has them in order.  An `Apply` that fails with an
  incomplete rollback is not retried in the same run.  The read-only mode takes no lock.
- *Telemetry.*  The frame of one provider pushes the newest frame of another out of the
  stream they share, and what was lost counts as delivered (`scheduler.go:429`); the design
  document (section 7.3) only speaks of stale intermediate frames.  `Discover` does not wake
  workers for subscriptions made before it; no caller does that.
- *Pages.*  Notifications and snapshots are handed to a dispatcher outside the lock they
  were taken under, so of two an older one may stay shown until the next change
  (`NewestIsShown` excepts just that).  `Monitor.applySelection` renders past the
  dispatcher, so a queued older view may follow.  A reading that comes while the Tune page
  is being left shows with the next frame only.  Once the window closes, a page can be left on
  one goroutine and entered on another, so that a view model has two consumers for a moment
  and a history may be out of order; `HistoryIsNewest` excepts the closing window.  The page's own `active` flag and the
  selected page are read by the closing goroutine without a lock; a page entered at that
  moment may be nil when it is to be activated (`navigation.go:65`).

## 6. What is not modelled

- Input validation and parsing: JSON framing and size limits, file ownership checks,
  `/proc`, `/sys`, CPUID and the providers of telemetry, which are pure functions of what
  they read, but for the previous counters.
- The busy and plane bits of the voltage mailbox, the read-modify-write of `device.go` and
  the register list of `model.go`.
- Widgets and layout, among them the hardware page, the system summary, the timeline and
  the Tune page's own controls; effective and unverified values of a session, labels and
  error texts.
- The launcher, reduced to a helper that runs; both programs are of the same build.
- The older command line and its window (`main.go`, `gui.go`): a single-threaded program
  that writes registers directly, keeps nothing to restore from and shares no code with the
  Studio.  It makes up a sixth of the repository's Go code.
- The screenshot tool, the entry points, packaging and continuous integration.
- In `SmokeHarness`, the cases for voltages and ratios, which no driver offers to write.

## 7. The plan

The system is modelled as far as section 6 says, and every safety property of it is proved.
What would add to it, in this order:

1. The launcher: pkexec's dialog, its refusal and a desktop that is closed while it is open.
   `DesktopTuneService` has the outcomes of dialling, not the process behind them.
2. The widgets of the Tune page, whose rows are built from the view model's state and may be
   behind it (`pages/tune.go`); `Prompt` stands for them.
3. A scheduler whose stream loses frames of another provider less often (section 5), with
   the property that every provider's newest frame is delivered.
