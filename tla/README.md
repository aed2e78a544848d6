# Verification of steam-download-pumper

TLA+ models of this repository, checked by TLC on small instances, with proofs
checked by TLAPS for all values of the constants. Line numbers refer to files of
`src/`.

## 1. The system

A deployment downloads from public CDN sources through many addresses and
discards the data. Four programs share the work.

| part | code | state it keeps | operations | talks to |
|---|---|---|---|---|
| download helper | `cmd/discarder/main.go` | worker pool and its target, source list and its epochs, one breaker record per source | claim, fail, succeed, release; grow, shrink, reload, reap, stop | its parent: signals in, JSON lines out |
| line engine | `steam_pumper/engine.py` | helper process, source file, pending and confirmed generation, byte totals, source states | start, stop, poll, stage_sources, set_connections | helper; controller |
| controller | `steam_pumper/controller.py`, `metrics.py`, `topology.py` | lines, manual switch, pending source update, autoscaling | tick, start/stop, update_config | engines; refresh worker; web handlers |
| remote source client | `steam_pumper/remote_sources.py` | accepted manifest, etag, back-off; two files of `/data`; the worker's one result slot | load, refresh, request, poll_result, shutdown | OSS; controller |
| source publisher | `source_publisher/` | `state.json`, lock, retry and due times; the bucket | publication transaction, scheduler, publish-once | OSS; operator |
| fleet | `steam_pumper/fleet.py` | SQLite accounting, cursors, active lines, cooldowns | tick, schedule, SNMP accounting, import | engines; SNMP; web handlers |
| the rest | `manifestctl`, `sourceprobe`, `web.py`, `config.py`, scripts | — | — | — |

How they interact: the publisher writes signed, numbered lists to the bucket; the
client accepts newer ones and hands them to the controller over a one-place slot;
the controller stages a list on every line's engine; an engine writes it to a file
and sends SIGHUP; the helper reads the file, replaces its list, gives new sources
new epochs, and answers on its pipe with the generation it loaded; only when all
lines have answered does the controller report the revision as applied.

What is hard here: the helper is concurrent (workers and a select loop over
shared maps); everything between engine and helper is asynchronous, and either
side may die in between; the client and the publisher persist state in several
steps; results of old work arrive after the world has changed.

### What makes each component correct

* **helper** — a probe slot is never left taken; a result that comes too late
  touches no record of a source that has gone or come back; the pool settles on
  its target; every quarantined source is probed in the end.
* **engine and controller** — a revision is reported as applied only when every
  running helper uses its list; a generation always names one list; a staged
  list is applied in the end, or replaced by a newer one.
* **client** — no accepted list is lost or undone by a crash, a stale server or a
  late result; the etag never belongs to another list; new lists arrive.
* **run control** — the downloads follow the switch and the window, whatever start
  fails; the totals show no byte that nobody read, and today's only falls at
  midnight; a slow line gets its connections (it need not: see section 6).
* **probing** — a call ends at its deadline, whatever DNS and servers do; what it
  leaves behind does not starve the next; it reports only what it measured.
* **publisher** — the bucket only moves forward; releases never change; the state
  file never claims what the bucket does not show; each day gets one list, unless
  the clock is set back.
* **fleet** — bytes and seconds are accounted once, and completely while the
  router counts them on one interface; a line that failed serves its cooldown, no line outlives its
  list, young healthy lines are kept, and no room stays empty.

## 2. Plan

The order follows what would hurt most if it went wrong.

1. `SourceHealth`, `SourceBreaker`, `Discarder` — the helper. *done*
2. `SourceReload` — engine, helper boot and reload, pending update. *done*
3. `RemoteSource` — the client, its files and its thread. *done*
4. `Publisher` — the transaction and its scheduler. *done* (heartbeat and
   `health.json` are left)
5. `Fleet` and `FleetStore` — scheduling with cooldowns and SNMP results against
   running lines; accounting over gaps, resets and imports. *done* (the pool of
   sources, whose reload finding 10 describes, is left)
6. `RunControl` — windows, manual switch, reconfiguration, autoscaling against
   the real pool of a helper that restarts and whose resize signals merge, byte
   totals over restarts and the tracker. *done* (source states and epochs in the
   engine are left)
7. `ProbePool` — the threads, queue and deadline of candidate probing. *done*
8. Proofs: `Discarder_proofs`, `SourceReload_proofs`, `RemoteSource_proofs`,
   `RunControl_proofs`, `Publisher_proofs`, `ProbePool_proofs`, `Fleet_proofs` and
   `FleetStore_proofs` — every invariant and every action property that a run checks,
   and the refinement of `SourceBreaker`. *done*

Abstract specifications: `SourceBreaker` (what the breaker promises, implemented
by `Discarder`). A ledger of bytes and seconds without cursors, of which
`FleetStore` would be a refinement, is not written: the sums that
`FleetStore_proofs` bounds say what it would.

## 3. Modules

Each component module holds its state as variables, one action per operation or
per step that another actor may come between, and its properties; `MC*` modules
give constants their values, `*_proofs` modules hold theorems. Operators marked
`Mutant:` are deliberately wrong variants of the operator that follows them, used
to show that a property can fail; no specification refers to them.

### SourceHealth, Discarder, SourceBreaker

`SourceHealth` is `sourceHealth` as operators on one record: failures, level,
remaining wait, probe in flight. `retryAfter` is a countdown, because the code
only compares it with now; `Tick` lets all of them run down together.

`Discarder` is the process: `pc` and `job` for each worker slot, `states` and
`activeEpoch` for the two maps of `sourceHealth`, `sourceSet` for the atomic
list, `target` for `targetConnections`. A worker reads the list
(`ReadSources`), claims candidates one at a time in rotation (`Claim`,
`NothingAllowed`), downloads, and reports under the health lock with the epoch of
its claim (`RecordFailure`, `Complete`, `Abort`). The select loop handles one
signal or one exit at a time: `Grow`, `Shrink`, `Reload` (the list is stored, then
`Retain` runs under the lock: two steps), `CancelAll`, `Reap`. Shrink and reload
cancel a worker's context; the worker notices when it looks (`Abort`, `Wake`).

`SourceBreaker` says what an observer of one source sees: absent, healthy,
degraded, quarantined or probing, with a level. `BreakerSpec` is the refinement,
with the mode computed by the code's own `snapshotFor`.

### SourceReload

Per line: the engine's `pending` and `confirmed` generation, the file, the helper
(dead, booting, running, with what it has loaded), the signal that is pending, and
the lines in the pipe; for the controller the pending pool and revision and the
effective pool. `Tick` is the controller's tick up to the engines: result, advance,
stage (line by line, each step of which may fail), polls. The helper's boot is
split where a signal may meet it: file read, handler installed. Output left in the
pipe when a helper exits is lost exactly as `poll` loses it.

### RunControl

The other half of a tick: `CheckSchedule`, then `Drain` and `PollExit` for each line
(the two halves of `EngineProcess.poll`, between which a helper may exit), then
`Scale`; `NotDue` is a check whose seconds have not passed. `ManualStart`,
`ManualStop`, `UpdateHot` and `UpdateRestart` are the handlers, `WindowTurns` the
clock. Per line there is what the controller believes (`status`, `connections`,
`desired`), what the helper has (`process`, `pool`: target, workers, signals that
wait), and the way of its bytes: `bytes` read since it was started, the newest
record in `pipe`, `offset` and `total` of the engine, `lastRx` and `today` of the
tracker. `carried` is an observer: what all helpers of the line have read. Signals
that are sent together may merge; a helper without its handler ignores them or is
killed by them. A rate is `low`, `fit`, `high` or `unknown`: `NextCount` compares it
with 90 % and 115 % of the target and with nothing else.

### ProbePool

`Begin`, `Wait`, `Collect`, `Return` are the loop of `probe_candidates`; `Take`,
`Submit`, `Resolved`, `Redirected`, `Delivered`, `Refused`, `GiveUp` a probe thread;
`TakeTask`, `Answer` a resolver thread. A task is named by its probe: a probe has at
most one task that is not cancelled, and a cancelled one is told by its probe no
longer waiting (`Cancelled`), as it gives up only to end. Calls follow one another, as
the publisher makes them; the threads and tasks that one leaves behind run on under
the next.

### RemoteSource

The manager's memory, the two files, and the worker thread as `fetch`, `save`,
`commit`; `Restart` may come between any two and loads again
(`load_last_known_good`, with a verifier that may fail). `Save` has the outcomes
that `_atomic_write` has: nothing written, written, written and reported as
failed. `Tick` takes the result and requests the next refresh.

### Publisher

`Begin`, `Recover`, `Probe`, `PutRelease`, `VerifyRelease`, `PutLatest`,
`ConfirmLatest`, `Save` are `PublicationService.run` cut at its reads and writes;
`Boot`, `Wake`, `NoteSuccess`, `NoteFailure` are `run_scheduler`; `PublishOnce` is
the command. `runner` is the holder of the lock: since the scheduler holds it for
as long as it lives, manual runs happen only while no scheduler runs. The bucket
is a function from revisions to lists, and `latest`. Time is an integer; `Stamp`
is the formatted time, with the gaps it has because seconds stop at 59.
Assumed of the storage: a write has happened or has not when its client stops
waiting; reads return the last write.

### Fleet

`TickOnly` and `TickPolling` are `tick` without and with the polling of the
engines: take the SNMP results, judge the interfaces (`Judged`), stop the lines
that stall or are slow, start the SNMP thread, and `Schedule` if it is forced or
due. `Collect` is the SNMP thread; `Import`, `SetManualEnabled` and `Restart` come
between ticks, because `service_actions` and the handlers run on one thread. What
a sample says is one step older than the interfaces (`up`): it may have been read
for the list before an import. Time counts the age of lines, what is left of
cooldowns and the time since the last schedule, each up to where the code stops
telling values apart. Priorities are any order: `Pick` takes any candidates.
A tick is one step, so a thread that ends and is started again within one tick,
leaving two results, is not told apart from one that ends after it: the second
result would replace the judgement of the first.

### FleetStore

One account and one direction (both are accounted alike, and `record_snmp` treats
accounts independently): its row of `cursors`, its rows of `traffic` by minute,
and the interfaces that carry its name. `Sample` is `record_snmp` with one action
per branch: `FirstSample`, `MissingSample`, `ResetSample`, `MeasuredSample`.
`Booked` spreads an interval over its minutes with the code's rounding;
`Cleared`, `Estimate` and `Pruned` are the code's too. The router carries bytes,
loses and doubles interfaces, restarts counters with or without a mark, and
reboots. `carried` and `reading` remember what really happened, whatever
`record_snmp` made of it, for the properties to compare with: the bytes of the line,
and when an answer last showed its interface alone and how much the line had carried
then. `reading` is given up only for what the router or the line does: a counter that
restarts, a reboot, bytes on another interface, an answer that shows only another one,
or more bytes than the line can carry in the time that the host's clock shows. Times are whole units, and a minute has
`MinuteLength` of them. `now` is the clock of the host, which may be set back, `real`
the time that has passed. Assumed: every answer has a `sysUpTime`.

## 4. Runs

| run | what it shows |
|---|---|
| `discarder_safety` | two slots, two lists between which a reload switches, two signals: ownership of probes, no leftovers of delisted sources, pool size, no extension of quarantines; the breaker refinement; the pool settles |
| `discarder_rotation` | every quarantined source is probed, although another one always allows |
| `source_generations` | two lines: generations name lists and are heard; no helper has a list that is not in force, so that applied means loaded |
| `source_recovery` | one line, three revisions: pending updates are applied, engines come back |
| `remote_source` | three revisions, four faults: durability, consistency of the controller, etags, no rollback, arrival |
| `remote_source_backoff` | *violation*: a failed refresh that does not wait |
| `publisher` | two failed calls, deaths or lost volumes and one changed clock or candidate list over three days: each list is of another day than the one before it, of a later one unless the clock was set back |
| `fleet_store` | two interfaces of one name, two events, any rows missing, over three minutes: bytes and seconds accounted once, bytes completely while the router counts them on one interface, gaps unknown in full |
| `fleet` | two accounts, a day of four slots, stalls, flaps, failed reads and saves, imports, restarts: cooldowns served, lines fit list and slot, young lines kept, no room left empty |
| `control` | one line, a crash or failed start, two operator actions, lost and merged signals: totals invent nothing, today only falls at midnight, downloads follow the switches |
| `control_growth` | *violation*: a line that is always slow and never gets its connections |
| `probe_pool` | two calls that share one resolver thread: calls end at their deadline, later ones are served, reports are true |

### Bounds, and why they are enough

* `MaxConnections = 2`: every race of the helper is between two workers, or a
  worker and the loop. The two lists have one source each, so that a
  reload removes the source that workers are at, and another one brings it back; the
  rotation run has one list of two sources. `IndexPeriod` makes the rotation's index
  finite; it only matters modulo the length of a list. `MaxSignals = 2` gives
  each pair of signals in both orders; four would only repeat them.
  Delays are one tick.
* `SourceReload`: two lines, because a partial failure needs one that succeeds
  and one that does not; two revisions, for a second that overtakes the first; a
  third repeats the list of the second under a new revision.
* `RemoteSource`: three revisions, the third with the list of the second
  (`changed` is about lists, not revisions); four faults, so that a crash, a
  stale answer, a failed write and an unverifiable file can meet.
* `Publisher`: days of two ticks with the publish time at the second, minutes of
  two ticks so that counting on reaches a number no timestamp has, retries of
  1, 2 and 3 ticks; two faults and one change. `Grace` lets time run on after the
  last fault until retries have happened.

* `FleetStore`: minutes of two units and gaps of up to four, so that an interval
  lies within a minute, ends on its boundary or spans it, is estimated or too long
  to be, and outlives pruning. Two events of the router let a reset meet a
  reconnection, or each meet a changed account list or a clock that is set back. A ceiling of one byte a unit
  makes a jump by two implausible.
* `Fleet`: the slots have the order of the day in the code (10, 20, 10, 0 lines),
  with room for one of the two accounts, both, one and none. Rotation, slow window
  and cooldown take two units, a stall one, so that each can end before, with and
  after the others. The second list gives an account the other's port and drops
  the other, so that judgements, cooldowns and lines of the old list meet the new.

* `RunControl`: one line, since lines share only the start and the stop of all, and
  a tick takes them one after the other (the proofs are for any number; two lines
  without operator actions pass as well). Two connections, so that base and maximum
  differ; both bases and all rates; a fault and two operator actions, so that a
  reconfiguration or a stop meets a failed start or a crash; one unit of bytes is
  enough to be counted twice, or in the wrong place.
* `ProbePool`: a call of two candidates and one of one, two workers, one resolver and
  one place in its queue: with a task with the resolver and one in the queue the
  next has to wait, and the second call meets what the first has left. One redirect
  makes a probe resolve twice in a measurement, and each probe measures twice.

Every counter that the programs leave unbounded (epochs, revisions, failures,
signals, clock) has a named bound among the constants, or is capped where the
code saturates it.

### Fairness

* `Discarder`: goroutines are scheduled, downloads end (the transport has idle
  timeouts), the select loop runs, time passes.
* `SourceReload`: weak fairness for the controller's tick, the timers and the
  helper's handling of a signal; strong fairness for a booting helper reading its
  list and installing its handler. A boot takes milliseconds while staging is
  retried every five seconds and restarts back off, so that signals do not hit
  every single boot. Without it TLC shows a helper that is killed in each boot.
* `RemoteSource`: refreshes end (timeouts on all calls), ticks happen, time
  passes. Servers always send an etag.
* `Publisher`: calls end by the deadline, the loop runs, time passes. Nothing
  makes an operator start a scheduler: the liveness property is about one that is
  up.

* `Fleet`: ticks happen and time passes. Nothing is assumed of the SNMP thread,
  the router or the engines. `FleetStore` states safety only.
* `RunControl`: the loop ticks, and its schedule check comes due again and again
  (strong fairness, because `NotDue` may take its place); restart delays end; a
  helper that boots comes up in the end (strong fairness: a signal may kill it in its
  boot, but scale checks are ten seconds apart and restart delays double).
  `FairScaleSpec`, for the violation only, also gives the scaling and the helper
  all they could ask for: the line still need not grow.
* `ProbePool`: the threads of the publisher run. Nothing is assumed of DNS, servers or
  deadlines; `Served` names what it needs, a resolver that always gets free again.

Deadlock is checked in every run but `probe_pool`, where the calls are bounded and
nothing is left to do in the end. Where time is bounded, the end of the model's clock
is an explicit action (`Rest`).

The type invariants of `Discarder`, `RemoteSource`, `RunControl` and `FleetStore` are
proved and no run checks them; the others are small enough to be checked as well.

## 5. Proofs

TLAPS proves, for all values of the constants that satisfy the assumptions named
in the modules, every invariant and every action property that a passing run checks.
The type invariants say little by themselves; every proof needs them. Each inductive
invariant was checked by TLC on the instance of its run before it was proved.

The assumptions say what configuration and code guarantee: lists of sources that are
not empty, at least one slot in a day, positive lengths of minutes and days, a cooldown
that is not zero (`config.py:214`). `MaxOctets` is positive because the initial
counters are 0 or 1.

* `Discarder_proofs` — `TypeCorrect`, `ProbesAreOwned`, `DelistedForgotten`, for
  any number of workers, lists and sources and any delays. The inductive
  invariant (`Inv`) joins the three properties and adds that a record exists only
  with a failure in it and is probed only in quarantine. `ProbeOwned` has to say
  more than that some worker probes: the worker must hold the present epoch of
  the source, so that `Current` accepts its result and clears the slot; and that
  needs `NoRecordOutsideList`, because a delisted source has no epoch to hold.
  `PoolWithinTarget` needs only the types besides itself; its work is in counting: a
  reconciliation starts workers up to the target, those that are leaving included, and
  a shrink cancels the greatest id that stays, which exists (`GreatestMember`).
  `QuarantineKeepsTime` is a property of steps: a wait gets longer only where an
  owned probe failed or a source that is not quarantined is struck.
  `BreakerImplemented` is the refinement: under `Inv` every action of a worker, of
  the loop and of the clock leaves the phases alone or is one step of
  `SourceBreaker`. A release, a late result and a reload that keeps the source are
  stutters, and a result counts only under the epoch of its claim.
* `RemoteSource_proofs` — `TypeCorrect`, `DurableBeforeUseHolds`,
  `ControllerFollowsHolds`, `EtagHolds`, `NoRollback`, for any number of revisions
  and faults and any lists. The invariant orders what the controller knows, what
  the manager has accepted and what is on disk; says what a refresh may carry
  between `fetch`, `save` and `commit`; and says which envelope each etag, in
  memory and in the state file, belongs to. `NoRollback` is a step property under
  it.

* `RunControl_proofs` — `TypeCorrect`, `NothingInvented`, `TodayGrows`, for any
  number of lines, connections, bytes, faults and operator actions. That total and
  today stay within `carried` is not inductive: a byte is on its way through the
  helper, a record, the total and the sample, each of which survives other events
  (a stop keeps the offset, a crash moves it, a reconfiguration forgets all).
  `LineSound` says for each place what can still be added to today from there: that
  a total which has grown since the last sample fits into what was read and not
  counted (`Fits`), and that one which has fallen is the first of a helper none of
  whose bytes are in today (`NotCounted`). `SampleSound` says when tracker and
  total may differ at all, between the two halves of a poll; `TodayGrows` needs it,
  because a tracker falls only on a new day or when it is new.

* `SourceReload_proofs` — `TypeCorrect`, `GenerationsHold`, `NoListForgotten`, for any
  number of lines, revisions, lists, faults and operator actions. Generations are not
  trustworthy by themselves: an engine that could not be staged and whose helper
  restarts pairs the pending generation with its old list. `LineSound` follows a
  generation from the staged file to the answer: what has been answered
  (`HasAnswered`) or may still be (`MayAnswer`) comes from a helper that runs since the
  file was staged, and file and helper then have the exact list (`Carries`). `Ordered`
  relates the active, the pending and the accepted revision, so that `Settled` engines
  can be left as they are when the pending revision becomes active.

* `Publisher_proofs` — `TypeCorrect`, `BucketBacks`, `BucketForward`,
  `OneListForADay`, `NoDaySleptThrough`, for any lists, lengths of the day, publish
  times, retries, faults and changes. An attempt looks at the bucket once, in
  `Recover`; `StepSound` says what it may rely on at each later step: the revision
  it read still is the last, the day has no list yet, the release is verified. Since
  the lock keeps others out, a death between two steps leaves only states that the
  next `Recover` repairs. `DayInv` is added for `NoDaySleptThrough`: a
  recorded success has the lists of all days due by then behind it (`Covered`), and
  so has a sleep until its end (`SleepCovers`). It holds while the clock is not set
  back and the publish time is not midnight, as the property says. `ClockSound` is
  added for `OneListForADay`: until the clock is set back no list is from a later time
  than the attempt that goes on, so that a list of another day is one of a later day.
  A clock that is set back over midnight and comes back lets the code publish a second
  list for a day, with another day's in between (`service.py:144` only looks at the
  present one); consecutive lists are of different days even then.

* `ProbePool_proofs` — `TypeCorrect`, `ReportsAreTrue`, for any number of calls,
  candidates, workers, resolvers and redirects. A report is put together from futures
  while threads of earlier calls run on; `ReportSound` says that what was collected is
  what its own thread came to, unless the deadline cut it off, and `ProbesSound` that
  a thread ends well only after its last measurement.

* `Fleet_proofs` — `TypeCorrect`, `CooldownServed`, `ScheduledLines`,
  `MinimumRunHolds`, for any accounts, ports, lists, slots and durations. A tick works
  on lines and cooldowns that it has not stored yet. `Ready` says of them what the
  invariants say of the stored ones: it holds of what the polls hand over, and what
  follows in the tick turns it into the invariants of the next state. `OneResult` (the
  SNMP thread has handed over one result at most) is needed for the type of the results.
  `MinimumRunHolds` also counts: a slot with room for `n` keeps `n` of the young lines,
  or all.

* `FleetStore_proofs` — `TypeCorrect`, `BytesMeasuredOnce`, `NothingLost`,
  `GapsReported`, `SecondsAccountedOnce`, for any interfaces, lengths of the minute,
  look back, estimates, retention, ceilings and bounds. Two parts:
  - *Sums over rows.* What `_add_interval_traffic` gives to the minutes of an interval
    adds up to the amount, each share is at least 0, and shares of time that lie within
    a window are not more than the window (`SharesAddUp`, `FloorsFit`, `SharesOfTime`).
    From these, what a booking, a clearing and a pruning do to the sum of a column over
    any set of minutes (`BookedOver`, `ClearedOver`, `PrunedOver`). The community
    module's sum is a fold; `SumIsRecursive` equates it with a recursive function,
    which `SumsExist` shows to exist. The inductions are over sets ordered by
    inclusion (`SubsetInduction`, `UpwardInduction`), where the property is the set
    of those that have it, because the library's theorems that take an operator
    cannot be used.
  - *The inductive invariant.* `CursorSound` says from which counter bytes are counted;
    `MeasuredSound` adds to `MeasuredOnce` what the interface of the cursor has counted
    since, which the next sample will measure. `SampledSound` and `UnknownSound` make
    room for what the next sample will book: time since the baseline is not yet
    sampled, and what is unknown outside the minutes that it will clear leaves room
    for the gap. Since the clock may be set back to any time between baseline and last
    sample, and only minutes up to it are cleared, `UnknownSound` says so for every such
    time. `ReadingSound` ties what really happened to the cursor:
    while the interface counts on, the cursor is where it was read last, the difference
    to its counter is what the line has carried since, and nothing in the next answer
    looks like a reset (`NotRefused`). `GapSound` and the last part of `ReadingSound`
    hold as long as no row is pruned.

### What stays with TLC

Liveness under fairness is outside of what the prover does: `PoolSettles`,
`QuarantinedIsProbed`, `PendingIsApplied`, `EnginesComeBack`, `RevisionsArrive`,
`DaysArePublished`, `SlotIsFilled`, `SwitchObeyed`, `CallEnds` and `Served` are checked
on the instances of their runs only. So are the two violations.

## 6. Where the code and its documents differ

1. A truncated answer makes the client fetch again at once, on every tick
   (`remote_source_backoff`; `remote_sources.py:540`,
   `docs/aliyun-oss-source-list.md:9`).
2. A line whose rate is always low need not get more connections: the controller
   counts the connections it asked for, and what the helper has is less after a
   signal that met its boot, or after its restart (`control_growth`;
   `controller.py:564`, `README.md:158`).
3. Two workers can probe one quarantined source: a late success deletes the record
   with the probe in it (`main.go:347`, `docs/design.md:14`).
4. A quarantine can end after a second: a probe that fails after a success has
   cleared the failures quarantines again, and the next ordinary failure replaces
   its timer (`main.go:328`, `docs/design.md:14`).
5. A corrected candidate list cannot be published on the day of the incorrect one
   (`service.py:144`, `docs/publisher-docker.md:152`).
6. Byte totals fall when an engine is stopped and started again
   (`engine.py:290`, `docs/design.md:16`); today's total then undercounts.
7. Revisions that are counted on from the last one may be no timestamps, and then
   every client refuses them (`manifest.py:43`, `remote_sources.py:270`).
8. With a publish time just after midnight a late retry can count for the new day
   (`scheduler.py:206`).
9. After a failed verification at start the persisted revision no longer protects
   against older lists (`remote_sources.py:425`).
10. An empty answer ends a quarantine (`main.go:1062`).
11. Status events of a restarted helper are dropped until its epochs catch up
    (`engine.py:117`).
12. A changed pool does not reach running fleet lines: their helpers have no
    sources file and refuse the signal (`fleet.py:1044`, `fleet.py:1099`).
13. Whether a sample reschedules the fleet at once depends on whether the engines
    are polled in the same tick (`fleet.py:837`).

Only numbers 1 and 2 have a run that shows them. The models contain the behaviour of
3 to 6: each was seen in a counterexample or as the reason for the form of a
property. Numbers 7 to 13 were found while modelling.

## 7. Not modelled

What servers answer, cryptography, HTTP and HTML, configuration parsing, SNMP
encoding, shell and Docker files: pure input and output, or without behaviour over
time. Of the engine: parsed source states with their epochs, and the rest of a line
that is left in its buffer when a helper exits. Of the publisher: the heartbeat and
`health.json`. Of the fleet: priorities by traffic, debt and allocated time, the
source pool, the program's own byte counts (`record_download`, `record_runtime`),
business hours, reports.
