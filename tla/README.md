# Verification of marstek-prometheus-controller

TLA+ models of the controller that reads grid power from Prometheus and drives
one timed-discharge slot of a Marstek B2500 battery over MQTT, the TLC runs that
check them on small instances, and TLAPS proofs for every configuration that
`config.validate()` accepts with durations that are not negative. Paths are
relative to `src/`.

## 1. The system

| Part | Code | State | Operations | What makes it correct |
| --- | --- | --- | --- | --- |
| Control loop | `internal/controller/{controller,step,fallback,slotwrite}.go` | last command and its time, EMA, cached status, ready flag, soft-floor latch, pending echo | `Run`, `Step`, `fallback`, `commandIdle`, `publishNormalControl`, `suppressOrReassert` | the remembered command is what was last written; raises respect the hold time; nothing discharges below the floor; foreign slots survive; an outage ends in a stop |
| Blocked-output ladder | `internal/controller/{authority,escalation}.go` | blocked cycles, enable attempted, last restart, re-arm in progress, last surplus write | charging-mode, surplus, output-enable, re-arm, restart | a stuck device is remedied again and again; the restart is last; a re-arm always ends; flash writes are rate limited |
| Control law | `internal/controller/{helpers,highsoc}.go`, `step.go` | none (high-SoC stage, EMA kept by the loop) | smooth, floor, stage, target, ramp, snap | no watts the device would clamp; exports are cut at once |
| Top-charge idle | `internal/controller/topcharge.go` | active flag, five counters, cooldown | `update`, `reset`, `blockUntil` | no re-entry in the cooldown; no leftover counter ends a regime early |
| Status source | `internal/controller/statussource.go` | latest status, receipt time, a channel of one | `HandleMessage`, `LatestStatus`, `Poll` | no old status answers a poll; the loop never reads backwards; no status is lost |
| MQTT client | `internal/mqttclient/client.go` | connected flag, one queued publish, subscriptions | `Publish`, `Subscribe`, OnConnect and ConnectionLost callbacks | nothing duplicated, nothing forgotten, the subscription survives reconnects |
| Restart scheduler | `cmd/marstek-controller/main.go`, `internal/schedule` | parsed schedule, next instant, timer | `Parse`, `Next`, wait, `IsConnected`, `Publish(cd=10)` | no matching minute is skipped, none fires twice, the search gives up only if there is none |
| Device protocol | `internal/marstek/protocol.go` | none | build and parse payloads, normalise times | the five slots are preserved |
| Prometheus client | `internal/promclient` | none | primary and fallback query | a sample or an error |
| Configuration | `internal/config/config.go` | read-only settings | `Load`, `validate` | what it accepts is what the other parts assume |
| Process | `cmd/marstek-controller/main.go` | none that outlives it | `run` wires the parts; it may die and start again | the loop takes over a device in any state |
| HTTP, metrics | `internal/{httpserver,metrics}` | gauges and counters | serving | no decision reads them |
| Probe tools | `tools/marstek-probe` | none | manual scripts | not part of the controller |

Interaction: `Run` calls `Step` from a ticker. `Step` queries Prometheus
(primary, then the optional plug-sum query), reads the status cache (polling the
device if the cache is stale), and takes exactly one decision: remedy the
charging mode, remedy surplus feed-in, idle, a rung of the ladder, or normal
control. Each decision publishes at most one payload through the MQTT client.
paho's goroutines fill the status cache and change the connected flag; the
restart scheduler and the self-poll publish through the same client and its one
queue place.

What is hard: publishes that fail after the decision; a status that is older
than the last write; remedies that take several cycles and are interrupted;
one pending-echo memory for all kinds of writes; clocks (hold time, cooldowns,
rate limits) that many paths must keep; the unsynchronised steps between the
connected flag, the queue and paho; a queue place that four kinds of message
share; a process that forgets everything while the device goes on; a calendar
with changes of offset. `PROJECT.json` lists each hazard at its line with the
properties that cover it.

## 2. Modules

| Module | Models | Extends |
| --- | --- | --- |
| `DeviceProtocol` | statuses, slots, payloads, slot merge and comparison | |
| `ControlLaw` | the arithmetic from sample and status to watts | `DeviceProtocol` |
| `TopChargeIdle` | `topChargeIdleMachine`, methods as operators on a record | `ControlLaw` |
| `Controller` | the loop, the status cache, a publisher that accepts or refuses; all properties of the loop | `TopChargeIdle` |
| `CommandLedger` | abstract: what the loop promises about its schedule writes | |
| `System` | the loop with client, scheduler, device and a process that crashes | `Controller` |
| `Config` | `Load` and `validate()` as operators on a record | |
| `MCConfig` | the environment of an instance of `Controller`; `ASSUME`s that `Load` accepts it | `Controller`, `Config` |
| `MCController`, `MCSystem` | report and device sets for TLC | `MCConfig`; `System` as well |
| `MqttClient` | paho wrapper, both publishers, callbacks | |
| `StatusSource` | status cache, response channel, `Poll`, `readDeviceStatus` | |
| `Schedule` | cron fields, the search of `Next`, `runRestartScheduler` | |
| `MCSchedule` | a small calendar, specs and zones for TLC | `Schedule` |
| `ControlLawProofs` | lemmas on types, target and ramp | `TopChargeIdle`, `TLAPS` |
| `ControllerProofs` | type correctness, command invariant, write rules, refinement of the ledger | `Controller`, `ControlLawProofs` |
| `ControllerLadderProofs` | idle machine, flash and restart limits, exports | `ControllerProofs` |
| `SystemProofs` | the loop's guarantees across crashes, what reaches the device | `System`, `ControllerLadderProofs` |
| `ScheduleProofs` | the calendar, the search of `Next`, the restarts | `Schedule`, `TLAPS`, library theorems |
| `StatusSourceProofs` | poll answers, order of reads | `StatusSource`, `TLAPS` |
| `MqttClientProofs` | conservation and order of messages, subscription | `MqttClient`, `TLAPS` |
| `ConfigProofs` | what `validate()` guarantees the other modules | `Config`, `TLAPS` |

`Controller` composes four parts that run in one goroutine: law, idle machine,
ladder and loop. `MqttClient` and `StatusSource` look inside the calls the loop
makes, where other goroutines run; `System` puts the loop together with the
outside of those calls and with the device.

### State and actions of `Controller`

Variables carry the names of the fields of `Controller` and `MQTTStatusSource`;
where a group of fields is one record the declaration says so. `published` and
`sent` are history variables: no guard reads them.

| Action | Code |
| --- | --- |
| `Tick` | time; the ticker of `Run`, whose channel holds one tick |
| `Receive` | `HandleMessage` |
| `ReadCached`, `ReadPolled` | `readGridSample` and `readDeviceStatus` succeed; `updateSoCFloor` |
| `PrometheusDown`, `StatusHardFail` | `fallback` |
| `StatusFreeze` | failed poll, short silence |
| `RemediateChargingMode` | `ensureDeviceConfig` |
| `RemediateSurplus` | `ensureSurplusFeedIn` |
| `SoCFloorIdle`, `TopChargeIdling` | `commandIdle` in its two regimes |
| `RearmStart`, `RearmWait`, `RearmComplete` | the two-cycle slot re-arm |
| `NuclearRestart`, `EnableOutputs` | the other rungs |
| `SuppressOrReassert`, `PublishCommand` | `publishNormalControl` |

One `Step` is two actions, read and decide, with the values read in `cycle`.
Nothing else runs in between. That loses nothing: a status that arrives during a
Step is not read by the decision, so it commutes to just after it, and Step uses
one instant `now` throughout. Every action with a publish takes `ok`, whether the
publisher returned nil, and models both continuations.

### Refinement: `CommandLedger`

`ordered`, `writeAge` and `rearming` are the watts of the last schedule write, its
age, and whether a re-arm waits to be completed. Its actions are the promises: time
passes, a stop at any time (which alone may begin a re-arm), an order within the
configured range that raises only after the hold time or to end a re-arm, and
giving up a re-arm. `Controller!Ledger` instantiates it with the history of writes
as the refinement mapping; `ImplementsLedger` is its specification as a property of
the loop, checked in run `control` and proved as `LoopImplementsLedger`.

### State and actions of `System`

`System` extends `Controller` and adds the client as the loop sees it
(`connected`, `queue`, `held`: what an OnConnect callback took and has not flushed),
`link` (whether packets get through, which the client learns late), the `device`
and one report in `transit`.

| Action | Code |
| --- | --- |
| `SystemTick`, `SystemRead`, `SystemFreeze`, `SystemFallback`, `SystemDecide` | the actions of `Controller`; `ok` is `connected`, and what was published goes through `Hand` |
| `Hand` | `Publish`: sent, lost on a dead link, or put in the queue over what was there |
| `Emit`, `Report` | the device reports (external); `HandleMessage` |
| `Connect`, `Flush` | the two halves of the OnConnect callback; Steps may publish in between |
| `LinkDown`, `ConnectionLost` | external; the ConnectionLost callback |
| `ScheduledRestart` | `runRestartScheduler` publishes `cd=10` |
| `SwitchOff` | somebody stops the discharge in the vendor's app (external) |
| `Crash` | the process dies and `run()` starts again: everything but the device is as new |

A self-poll that fails without a connection leaves its `cd=1` in the queue
(`Polled`), over a queued write or stop.

The device is external: it applies each payload that reaches it and reports what it
does; a restart may or may not lose its volatile schedule.

### State and actions of `MqttClient`

`connected`, `pending` and `subs` are the client's fields. Each goroutine has a
program counter (`callback`, `pc`, `main`) and an action is what it does between
two points where another can run: an atomic access, a critical section, a call
into paho. `SchedulerCalls` contains the scheduler's precheck; `Check`, `Queue`
and `Send` are `Publish`. paho is external: `LinkUp`, `LinkDown`, and the
callbacks it starts in goroutines of their own, which therefore may run in any
order. A QoS 0 message sent without a session is lost.

### State and actions of `StatusSource`

`latest`, `latestAge` (the age of `receivedAt`) and `channel` (`pollResponseCh`)
are the source's fields; a status is the number of its arrival. `handler` says
where `HandleMessage` is, `step` where `readDeviceStatus` is; `used` and `outcome`
record what it returned.

| Action | Code |
| --- | --- |
| `Tick` | time; the ticker of `Run` |
| `Arrive` | paho starts `HandleMessage` for the next message |
| `Store`, `Forward` | its critical section; its non-blocking send |
| `UseCached`, `CallPoll` | `LatestStatus` and the staleness test |
| `Drain`, `PollPublished`, `PollFailed` | `Poll` up to its publish |
| `Answer`, `TimeOut` | the two arms of its select |

External: paho delivers the messages of a topic one at a time and in order, and
the device sends whenever it likes. Time passes only while no handler runs and
the loop is idle or waits: computing takes far less than a tick. `Controller`
keeps the coarser view, a status received between two steps and a poll that
succeeds or not; `StatusSource` shows what that view may rely on, that a
polled status is at least as new as the cached one was.

### State and actions of `Schedule`

`spec` and `zone` are the configuration, `sched` is what `Parse` makes of it,
`now` the clock, `state` where `runRestartScheduler` is, and `after`, `t`, `i` the
argument, candidate and iteration of `Next`. `fired` is a history variable.

| Action | Code |
| --- | --- |
| `SkipMonth`, `SkipDay`, `SkipHour`, `SkipMinute`, `Found` | one iteration of the loop in `Next` |
| `NotFound` | the cap is reached, or no month is valid: the zero time, the scheduler returns |
| `Tick` | time; the goroutine may run `MaxLate` minutes late |
| `Fire` | the timer; the next search starts from the present time |
| `Cancel` | `ctx.Done()` |

The calendar is external (`time`) and scaled by constants; months, leap years,
weekdays and one change of offset per zone keep their relations. `Date` does what
`time.Date` does with a wall-clock time that does not exist. `Fires` is the
reference: what a spec means, minute by minute, from its text and not from the
sets `Parse` builds.

### `Config`

`Default` is the record of `Load`'s fallbacks, `getEnv` takes a setting from the
environment or its default, `corrected` is what `validate()` changes and `accepted`
what it lets through. `MCConfig` writes the parameters of an instance as an
environment and assumes that `Load` accepts it unchanged, so TLC never
checks a configuration the program would not start with.

## 3. Abstractions

- Time is a count of ticks. Instants are ages, each capped where no comparison
  can tell more time apart (`StatusAgeCap`, `MinHoldTime`, the cooldowns).
  `blockedCycles` stops at `BlockedCap`, the largest value it is compared with.
- Watts are integers; the EMA is floored after each sample instead of kept as a
  float and rounded on use. Its sign is kept, which the export path tests.
- A slot's two times are one `window`: spelled with padding, without, or another
  one. `normaliseTime` is modelled; the text is not.
- The four foreign slots are one value of the set `Others`.
- Ports that are only ever summed are one field; `outs` is "both flags are 1".
- `validate()` requires the WiFi acknowledgement with the restart option, so the
  check at `authority.go:310` is folded into `NuclearRestartEnabled`.
- A cron field is a set of parts; splitting text into parts is left out. Instants
  of `Schedule` are whole minutes, and a search takes less than one.
- A float of the configuration is a fraction, NaN one with denominator 0. A text
  setting is what `validate()` asks of it.
- Metrics, logging and the fields only they read are left out.
- In `Controller` the device is free: it may report any status of `Statuses` at any
  time. Safety therefore holds for every reaction of the device, also for none. In
  `System` the device obeys what reaches it, because convergence is a promise about
  such a device.
- In `System` a Step is punctual (time passes only when no Step is due) and one
  OnConnect callback runs at a time; overlapping callbacks are in `MqttClient`.

## 4. Runs

Constants of all runs are plausible configurations scaled down: a few ticks for
each duration, watts that make ramp, delta, snap and clamp all matter. `MCConfig`
checks of each that the program would start with it.

| Run | Question | Bounds |
| --- | --- | --- |
| `control` | Do command memory, hold clock and last write agree, are raises paced, arming writes allowed, the other slots kept and exports cut, with every kind of failure? Does the loop implement `CommandLedger`? | 7 reports through the soft floor and the high-SoC stages, 3 samples, both grid sources, all faults; ramps of 60 W against a minimum of 80 W, so the snap happens; about 510,000 states |
| `ladder` | Are the rungs climbed in order, does a re-arm stay safe? | 5 reports, lost publishes, restart after 3 blocked cycles, interval of 2 ticks so that Step is not every tick |
| `top_charge` | Do cooldown, counters and flash interval hold through all exits? Does nothing arm the slot while idle is engaged? | 4 reports, 2 samples, EMA 1/2, outages and lost publishes, entry at 95 % SoC |
| `recovery` | Is a stuck device remedied again and again? Does every re-arm end? | fair loop, no faults |
| `system` | Does the loop take over and keep a real device through outages, lost, late and replaced messages, scheduled restarts, edits in the app and crashes? Does it then follow the house? | a device at 50 % with outputs off and a foreign charging mode, one at the soft floor and armed; samples -160 W and 160 W; one report in transit; about 270,000 states |
| `mqtt` | Is every message in exactly one place, does the queue only move forward, is the settled client subscribed? | 2 sessions, 2 messages per publisher, about 1.8 million states |
| `status` | Can a late or unrelated message be taken for an answer, the loop go back to an older status, a status be lost? | 3 messages, stale after 4 ticks, hard fail after 6, poll timeout 2, interval 2 |
| `schedule` | Does the search skip a matching minute, or stop although there is one? Does the timer restart the device in a wrong minute or twice? | hours of 2 minutes, days of 4 hours, weeks of 3 days, years of 2 months with a leap day every second; 12 specs, 4 zones, every start within 104 minutes, the timer a minute late, a cap of 111; about 175,000 states |
| `doc_*` | Four statements of the documentation that the code does not keep (section 6) | the smallest instance that shows it |

Why these bounds are enough: the code compares each duration with one age, so a
duration of two or three ticks already has "just before", "at" and "after"; two
reports before and after a change are what the debounce counters and the ladder
need, with thresholds of 2 and 3; two broker sessions give two callbacks that
overlap, and two messages give an older and a newer one; three statuses are one in
the cache, one late in the channel and one that answers. In `system` the device
has a single state that comes back after each disturbance, the samples are the two
extremes `FollowsGrid` speaks of, and SoC is fixed in each behaviour; top-charge
idle, surplus enforcement and the restart rung are switched off there, because
`top_charge`, `ladder` and `recovery` have them. A cron search has no memory but
its candidate, and 104 minutes contain both lengths of the short month, each
weekday in each month and the change of offset; with `MaxIterations` = 111, and not
less, the run meets the hypotheses of every theorem about the search. The proof
modules remove the bounds for all safety properties.

Each property of a passing run has a mutant: a variant of a mapped
definition, kept beside it with the comment "Mutant", under which the run fails.

### Properties

- `CommandIsOnTheWire`, `HoldClockIsLastWrite`, `RearmIsStopped`: ramp, delta,
  re-assert and hold time all work from `lastCommandWatts` and its time, which six
  paths update; they must describe the last accepted write.
- `RaiseRespectsHold`, `DischargeIsAllowed`, `SlotsPreserved`, `WritesUnclamped`:
  what a write may carry, whatever path made it. `RaiseRespectsHold` exempts one
  write, the second of a re-arm (`RearmCompletes`). `DischargeIsAllowed` is checked by
  three runs: `control` reaches it through foreign charging modes, `ladder` through
  the soft floor, `top_charge` through the idle machine. `SlotsPreserved` asks of a
  Step for the other slots of the newest status received, and of `fallback()` for
  those of the last status a Step has read, which may be older (`fallback.go:29`).
- `ImplementsLedger`: these promises together, as an abstract specification.
- `RestartIsLastResort`, `SurplusWritesSpaced`: the two costly writes.
- `NoEntryDuringCooldown`, `ExitCountersClear`: the idle machine.
- `ExportNeverOvershoots`: the export fast path against ramp and snap.
- `LadderEngages`, `RearmEnds`: progress of the ladder.
- `DeviceWithinLimits`: the same limits at the far end, on the device, behind queue,
  callback, dead link and crash.
- `Converges`: once nothing disturbs the system, the device comes to run what the
  loop believes it has commanded, and stays with it. Whatever went wrong before
  (a write lost on a dead link, an old one flushed over a newer one, a stop replaced
  in the queue by a self-poll, an edit in the app, a crash) is repaired.
- `FollowsGrid`: then the device is off if the house exports or the battery is at
  the floor, and gives its maximum if the house imports: neither the hold time that
  every re-assert restarts nor an awaited echo blocks the way for ever.
- `AnswerIsNew`, `ReadsMoveForward`: cache and channel are two ways for the same
  message; they must not be read in the wrong order.
- `EveryStatusIsSeen`: `Poll` throws away what it finds in the channel, but that is
  in the cache and still fresh at the next Step. It needs `StatusStaleAfter` ≥
  `StatusPollTimeout` + `ControlInterval`, as the defaults have it.
- `InOnePlace`, `QueueMovesForward`, `StatusSubscribed`: the client.
- `NothingSkipped`, `StopsOnlyIfNever`, `RestartsOnSchedule`: the search jumps over
  months, days and hours; no jump may pass a minute that `Fires`.

### Fairness

`FairSpec` assumes weak fairness of `Tick` (time passes) and of `Step`: the ticker
fires every `CONTROL_INTERVAL`, `Run` runs the Step it fired for, and every call in
it has a timeout. Nothing is assumed of the device, of the broker or of
Prometheus. `StatusSource!FairSpec` assumes the same of time and of
`readDeviceStatus`, and that a started `HandleMessage` goes on: it never blocks.
In `recovery` the controller's reads never fail because `Faults` is empty.
`LadderEngages` is conditional on what the device goes on reporting.

`System!Fairness` assumes that the loop ticks and runs its Steps, that paho
reconnects (`SetAutoReconnect`) and notices a dead link (keep-alive), and that a
started callback ends. It is weak fairness of these actions, written as the states
that cannot last, because each of them disables itself and only a crash, a step as
well, disables it otherwise. Not assumed: that the device ever reports by itself,
for the loop polls. The two properties say what holds once a link failure, crash,
edit, scheduled restart or failing Prometheus query no longer happens (`Calm`);
they may happen any number of times before.

## 5. Proofs

Assumed: only the named `ASSUME`s of the modules: what `validate()` checks, that
reports and samples are well formed, and that no duration is negative, which
`validate()` checks for `CONTROL_INTERVAL` only. TLC evaluates them in each run.
`AcceptedIsAssumed` derives those on parameters from `accepted`, so they are no
more than what the program starts with, with the exceptions its `Overlooked`
names: `MQTT_STATUS_STALE_AFTER`, the poll timeout and `MQTT_STATUS_HARD_FAIL_AFTER`
may be negative, and the two factors may be NaN.

- `TargetRange`, `RampedRange`, `ExportingRamp`: from any well-typed status and
  sample the target and the ramped command are 0 or in MIN..MAX, and while
  exporting the ramped command never exceeds the target.
- `TypeCorrect`: `TypeOK` is inductive. The lemmas on steps are about `LoopNext`, the
  loop with a publisher that may refuse any write, of which `Next` is the part that
  `Faults` allows; `System` uses them for its own publisher.
- `CommandCorrect`, of which `WritesWithinLimits`, `HoldClockCorrect` and
  `RearmStopsFirst` are parts: `CommandIsOnTheWire`, `WritesUnclamped`,
  `HoldClockIsLastWrite`, `RearmIsStopped`. They are not inductive one by one. A
  re-assert writes `lastCommandWatts`, so `WritesUnclamped` needs its range; a
  completed re-arm needs that its status is above the floor. `CommandInv` adds
  `CycleInv`: while a Step is in progress, `lastStatus` is the status it read and the
  newest received, and a clear floor latch means SoC above the floor. The step is proved through
  `StepEffect`: every decision keeps command and write, goes idle without a write,
  writes a stop, or writes watts of the command range under `Discharge`, and
  raises only after the hold time or to complete a re-arm (`RearmCompletes`).
- `RaisesArePaced`, `DischargesAreAllowed`, `OtherSlotsPreserved`: action
  properties read off `StepEffect` and `CommandInv`.
- `LoopImplementsLedger`: each step is one of the ledger's or a stutter. A write is
  classified by `StepEffect`: a stop is `Stop`, watts are an `Order`, whose guard is
  the hold time of `LedgerHold`; a re-arm that disappears without a write is
  `GiveUp`.
- `TopChargeCorrect`, `CountersCleared`: `MachineInv`, kept by every operator of the
  idle machine.
- `TopIdleNeverEngages`: if the high-SoC stages begin at or below the idle
  threshold and more than one sample is required, as the defaults have it, the
  idle regime is never entered. `Unengaged` adds that the entry count never gets
  past one: a sample that could count again lies in a stage, which resets the
  machine before it is updated.
- `SurplusIsRateLimited`: the controller's clock equals the age of the last
  accepted flash write.
- `RestartCorrect`: `RestartInv`: if an output-enable was attempted in this
  regime, or its echo is still awaited, then a remedy was accepted since the last
  restart. The second half is needed because an awaited echo counts as an attempt
  although nothing is sent, and the pending echo outlives a reset of the ladder.
- `ExportsAreCut`: from `ExportingRamp` and the effect of each decision.
- `StatusTypeCorrect`, `PollsAnsweredAnew`, `ReadsAreOrdered`: the last two are not
  inductive. `StatusInv` adds that a message being forwarded is the cached one and
  just received. The cache is fresh then, so no poll starts while an old message
  still has to be forwarded: what the drain leaves out cannot come in behind it.
  This needs that time does not pass within the handler.
- `MqttTypeCorrect`, `QueueIsOrdered`, `SettledIsSubscribed`, `MessagesConserved`, for
  any number of publishers, messages and sessions. `QueueInv`: the queued message
  is no newer than the last of its publisher. `SubInv`: while an open session has
  no subscription and the client believes it is connected, main or a callback is
  on its way to subscribe. `PlaceInv`: the places of a message exclude each other,
  and no two callbacks hold it.

The running system. A step of `System` is one of `LoopNext`, leaves the loop's
variables alone, or is `Crash`, after which `Init` holds (`SystemIsLoop`,
`CrashIsInit`). So whatever invariant the loop has, the system has.

- `SystemTypeCorrect`: `SystemTypeOK`. `SystemInv` adds the loop's invariants, on
  which the type of each payload depends, and `QueueInv`.
- `SystemLoopCorrect`, `SystemWritesCorrect`: the invariants and the action properties
  of the loop, in the system and in every life of the process. `published` and
  `sent` are history of one life: that a rate limit starts anew after a crash is
  what the code does, and these theorems do not say otherwise.
- `SystemImplementsLedger`: the ledger, set back by a crash.
- `DeviceStaysWithinLimits`, if the device is within the limits at first. Queue,
  callback, reports in transit and device carry nothing else; they are all fed by
  `LoopWrite`.
- `OtherSlotsSurvive`: the four slots the controller does not own change only if
  `fallback()` runs before the first status of a process (`ColdFallback`,
  `fallback.go:24-26`). `OthersInv` follows them through payloads, reports and the
  statuses the loop keeps. `OtherSlotsNeverInvented`: with such a fallback they are
  wiped, or come back with an old report, and nothing else. No run states these two:
  the runs have one value for the other slots.

`WireStep` proves the last three at once: a step keeps payloads in a set P and device
states in a set D if P has what the loop writes and D is closed under applying P.

The scheduler, for every calendar, spec and zone within the hypotheses below:

- `ScheduleTypeCorrect`: `TypeOK`, without hypotheses. A search stops only at its cap,
  because a parsed spec always has a valid month within a year.
- `RestartsAreScheduled` (`RestartsOnSchedule`): a search whose candidate is not past
  its argument stands still (`Stuck`) and cannot end in a wait, so what it waits for
  is later than the last restart and matches the sets `Parse` built.
- `SearchSkipsNothing` (`NothingSkipped`): each jump (month, day, hour, minute) lands
  no later than the next local time that is open in the sets, and the sets mean what
  the text means.
- `GivesUpBeyondItsCap` (`NoneInReach`): each iteration gains a minute, so a search
  that reports no instant has passed `MaxIterations` of them, less those that a
  change of offset repeats. It holds for every cap.
- `GivesUpOnNone` (`StopsOnlyIfNever`): with a cap that covers the days after which
  dates and weekdays repeat, a search that gives up has passed them all.
- `GivesUpOnNever`: if the cap covers twice as many, the spec never fires again,
  however late: the promise of `schedule.go:106` for good.

The last two need a count of iterations by days, not minutes. The invariant
`Counted` says that a search has used at most one iteration for each day it has
passed, what it may walk by the hour and minute on the present day (`Walk`), and
`Slack` for two exceptional days. A day that the sets of `Parse` close takes one
jump, and an open one usually ends the search: it holds a minute at which the spec
fires, and by `NothingSkipped` the search cannot pass it (`OpenDayLeft`). It can
only on the first day, where that minute may precede the argument of `Next`, and on
the day of the change of offset, which may leave it out. A search that reaches its
cap has thus passed the days the cap covers (`NoneCovered`), and nothing fires in
them. `FiresWithin` adds that this is enough for ever: under one offset, what fires
fires again after the repeat of dates and weekdays, and a zone has two offsets.

Hypotheses, each a condition on zones, specs or the cap that run `schedule` meets. The
second and third exclude exactly what section 6 says the code gets wrong:

- `CleanZones` (all but the first): a change of offset leaves out or repeats only
  local time within one hour of the clock. A zone that drops a whole day is excluded.
- `SundaysFirst` (from `SearchSkipsNothing` on): a day-of-week range that ends in "7"
  begins at "0", because `normaliseDOW` loses the Sunday of any other.
- `NoneStandsStill` (the three on giving up): a zone that goes forward is not west of
  UTC before it. What it excludes is the counterexample of run `doc_dst`.
- `CapCovers(days)` (`GivesUpOnNone`, `GivesUpOnNever`): `MaxIterations` is at least
  `days` + 3 × 1500 + 3, with the days of 24 hours and hours of 60 minutes of the code.
  Its cap is 4 × 366 × 1440 = 2,108,160. Dates and weekdays repeat after 1461 × 7 =
  10,227 days between two years without their leap day, and twice that needs 24,957
  iterations. Even 400 years of 146,097 days, the whole Gregorian cycle, taken 7
  times and twice, need 2,049,861.

The calendar is recursive (`DaysBefore`), and its lemmas need induction. The library's
induction theorems cannot be instantiated, but that a set of natural numbers has a
least element can be had without them, from the well-foundedness of strict inclusion
on finite sets (`LeastNatural`); the lemmas take the least counterexample.

Model-checked only:

- `Converges`, `FollowsGrid`, `LadderEngages`, `RearmEnds`, `EveryStatusIsSeen`: `ENABLED`
  and fairness are out of the prover's reach.

Every invariant and every action property of the runs is stated by a theorem.

## 6. Where the code and its documentation disagree

Each of these has a run in which TLC finds the counterexample.

- `doc_fallback`: `fallback.go:33` trusts the cached status. The loop writes a
  discharge, Prometheus fails before the next status is read, the cached status
  still shows the slot disabled: no stop is written, the command memory is
  cleared, and the battery keeps discharging for the whole outage.
- `doc_ladder`: `authority.go:132` compares unnormalised times; a device that
  spells them "0:0" never counts as blocked.
- `doc_flush`: `Publish` may queue just after the reconnect callback emptied the
  queue; the message waits for the next outage and is then sent as an old command.
- `doc_dst`: west of UTC the search for the next hour stands still in front of the
  hour that is left out in spring (`schedule.go:152`: `time.Date` returns the hour
  before). A daily restart after that hour is not found, and the scheduler stops for
  good.

Seen while modelling, without a run of their own. Control and device:

- The README offers top-charge idle (`README.md:120-122`), but with the default
  thresholds it is never entered: theorem `TopIdleNeverEngages`.
- `isValidTime` accepts "0:0" (`config.go:316`). With such a `SCHEDULE_START` the
  slot read back never equals the one wanted, and the loop writes in every cycle.
  Run `system` with `CfgWindow = "ragged"` violates `Converges` and `FollowsGrid`.
- `fallback` rebuilds the other slots from the status of the last Step
  (`fallback.go:29`), so it undoes a slot edit the device has reported since. Before
  any status was read it takes an empty one, "we have nothing to preserve anyway"
  (`fallback.go:24-26`): a controller started during a Prometheus outage overwrites
  the other slots of a device it has not heard yet, against `README.md:33-35`.
- A restart or flash write attempted without a connection is queued and sent later
  although its caller was told it failed (`client.go:184`): the rate limits do not
  count it. If the reconnected loop makes the write again before the callback has
  flushed the queued one, the two follow each other at once, against the minimum
  interval of `README.md:189`.
- A status that arrives after `LatestStatus` was read and before `Poll` drains the
  channel (`statussource.go:86`) cannot answer the poll. If the poll then fails,
  `readDeviceStatus` takes a hard fail although the cache is fresh (`step.go:226`).
- `README.md:133-134` says charging mode is not changed automatically;
  `authority.go:47` publishes `cd=17`. `MIN_HOLD_TIME` is described as the time between
  published commands (`README.md:165`), but a re-assert does not wait for it.
  `DEADBAND_WATTS` is to suppress commands (`README.md:159`) and only selects a
  reported state (`helpers.go:59`). `README.md:36` lists MQTT disconnection as a cause
  of the zero-discharge fallback; the code queues the command. `protocol.go:45`
  expects the 30 s of a restart to trigger the hard fail, whose default is 5 minutes.

Scheduler and configuration:

- The precheck of `IsConnected` is called load-bearing (`main.go:228-231`), but
  `Publish` reads the flag again: if the connection is lost in between, the restart
  replaces the queued write. `MqttClient` has this behaviour.
- `normaliseDOW` turns "5-7" into "5-6" (`schedule.go:231-232`) and drops Sunday, which
  `schedule.go:15` calls 7. `Schedule` translates this; the specs of `MCSchedule` name
  Sunday as a value only.
- The cap of `Next`, "~4 years of minutes", counts iterations, most of which skip a
  whole day or month, so that it reaches far beyond four years. `README.md:217` promises the later occurrence of an hour shown twice;
  in zones west of UTC a jump to it finds the earlier. If the wall clock is set back
  after a restart, the same minute is found again.
- `return cfg, cfg.validate()` (`config.go:191`) relies on an order of evaluation that
  Go does not fix; the compiler in use calls `validate()` first, and `Load` follows
  it. NaN passes every comparison of `validate()`.

## 7. Not modelled

The plan of this project was: `DeviceProtocol`, `ControlLaw`, `TopChargeIdle`,
`Controller`, `MqttClient`, `StatusSource` and their runs; the proofs of their safety;
the abstract `CommandLedger` and its refinement; `Schedule`; `System`; `Config`; the
proofs about `Schedule` and `System`. All of it is done. What is left out, and why:

- HTTP server, metrics, logging: they read the state and no decision reads them. The
  one unsynchronised variable, `ready`, only ever becomes true.
- Prometheus client: its two queries are a sample or an error to the loop; HTTP and
  JSON have no state.
- Text: parsing and formatting of payloads, times, cron fields and environment values.
- Start-up and shutdown: `run` builds the parts in a straight line. On a signal it
  waits for the loop and the HTTP server and disconnects; it writes no stop, so for
  the device a shutdown is what `Crash` is in `System`. The scheduler is not waited
  for, which changes nothing but that its last publish may fail.
- Probe tools: scripts for a person at a terminal.
- Two OnConnect callbacks at once in `System`, and a Step that overruns its ticker
  there: both would multiply a state space that is already near the limit of what
  TLC checks for liveness in minutes. `MqttClient` and `Controller` have them.
