---------------------------- MODULE Controller ----------------------------
(***************************************************************************)
(* The control loop of internal/controller: Run, Step and everything Step  *)
(* calls, with the status cache it reads and a publisher that accepts or   *)
(* refuses each write.                                                     *)
(*                                                                         *)
(* A Step is two actions: one reads the grid sample and the device status  *)
(* into `cycle`, the next takes the one decision Step takes for them.  A   *)
(* status that arrives in between changes nothing the decision reads, so   *)
(* it is the same as one that arrives just after it; Step works with one   *)
(* instant `now`, so no time passes either.                                *)
(*                                                                         *)
(* Instants are kept as ages in ticks (Never for the zero time.Time), each *)
(* capped at the duration it is compared with.  Left out: gauges, counters *)
(* and logging with the fields only they read (loggedFirmware,             *)
(* lastStatusWarnAt, loggedRestartBlocked, loggedSurplusFeedInBlocked),    *)
(* and stuckOutputRearmWatts, which statusSlotWatts can never return       *)
(* because re-arming requires a positive target.                           *)
(***************************************************************************)
EXTENDS TopChargeIdle

CONSTANTS
    Statuses,            \* the reports the device may send
    GridWatts,           \* the grid power samples Prometheus may return
    FallbackQuery,       \* GRID_POWER_FALLBACK_QUERY is configured
    Faults,              \* what may fail: "prometheus", "poll", "publish"
    StatusStaleAfter, StatusHardFailAfter, MinHoldTime,
    PersistToFlash, AllowFlashWrites,
    SurplusFeedInRecoveryMinInterval, SixHours,
    NuclearRestartEnabled, NuclearRestartBlockedCycles,
    NuclearRestartMinInterval

(* Statuses and samples are well formed; the rest is config.validate().    *)
ASSUME ControllerAssumption ==
    /\ Statuses \subseteq Status /\ GridWatts \subseteq Int
    /\ FallbackQuery \in BOOLEAN
    /\ Faults \subseteq {"prometheus", "poll", "publish"}
    /\ StatusStaleAfter \in Nat /\ StatusHardFailAfter \in Nat
    /\ MinHoldTime \in Nat /\ MinHoldTime >= ControlInterval
    /\ PersistToFlash \in BOOLEAN /\ AllowFlashWrites \in BOOLEAN
    /\ PersistToFlash => AllowFlashWrites
    /\ SurplusFeedInRecoveryMinInterval \in Nat /\ SixHours \in Nat \ {0}
    /\ NuclearRestartEnabled \in BOOLEAN
    /\ NuclearRestartBlockedCycles \in Nat \ {0}
    /\ NuclearRestartMinInterval \in Nat

VARIABLES
    timer,           \* ticks until Run's ticker fires
    due,             \* the ticker has fired and its Step has not run
    cycle,           \* what the Step in progress has read
    source,          \* MQTTStatusSource.latest
    sourceAge,       \* age of MQTTStatusSource.receivedAt
    smoothed, hasSmoothed,
    lastCommandWatts, lastCommandAge,
    ready,
    lastStatus, hasLastStatus,
    socFloorActive,
    topChargeIdle,
    escalation,
    highSoCStage,
    rearm,           \* stuckOutputRearm*
    pending,         \* authorityPending*
    surplusAge,      \* age of lastSurplusFeedInRecoveryAt
    \* History, read by no guard:
    published,       \* the last schedule write the publisher accepted
    sent             \* ages of the last accepted write of each kind

readVars    == <<source, sourceAge, lastStatus, hasLastStatus, socFloorActive>>
historyVars == <<published, sent>>
vars == <<timer, due, cycle, readVars, smoothed, hasSmoothed, lastCommandWatts,
          lastCommandAge, ready, topChargeIdle, escalation, highSoCStage, rearm,
          pending, surplusAge, historyVars>>

-----------------------------------------------------------------------------
(* Time. *)

Never == -1
Age == {Never} \cup Nat

(* An age one tick later, capped. *)
Older(age, cap) == IF age = Never \/ age >= cap THEN age ELSE age + 1

(* Has at least this long passed since an instant, if there was one?       *)
Elapsed(age, duration) == age = Never \/ age >= duration

Larger(a, b) == IF a > b THEN a ELSE b

stuckOutputRearmCooldown == Larger(2 * authorityPublishCooldown, Minute)

surplusMinInterval ==
    IF SurplusFeedInRecoveryMinInterval = 0 THEN SixHours
                                            ELSE SurplusFeedInRecoveryMinInterval

(* Past this the escalation counter passes every comparison. *)
BlockedCap == Larger(2, NuclearRestartBlockedCycles)

StatusAgeCap == Larger(StatusStaleAfter, StatusHardFailAfter) + 1

-----------------------------------------------------------------------------
(* Initial state: New(). *)

NoCycle == [on |-> FALSE, src |-> "primary", grid |-> 0, obs |-> "latest", st |-> ZeroStatus]

NoPending == [payload |-> NoPayload, age |-> Never, seen |-> FALSE]

NoWrite == BuildTimedDischargePayload(NoSlot, Wiped, FALSE)

NewEscalation == [blockedCycles |-> 0, enableAttempted |-> FALSE, restartAge |-> Never]

Init ==
    /\ timer = ControlInterval /\ due = TRUE /\ cycle = NoCycle
    /\ source = ZeroStatus /\ sourceAge = Never
    /\ smoothed = 0 /\ hasSmoothed = FALSE
    /\ lastCommandWatts = 0 /\ lastCommandAge = Never
    /\ ready = FALSE
    /\ lastStatus = ZeroStatus /\ hasLastStatus = FALSE
    /\ socFloorActive = FALSE
    /\ topChargeIdle = NewMachine
    /\ escalation = NewEscalation
    /\ highSoCStage = "inactive"
    /\ rearm = [pending |-> FALSE, startedAge |-> Never, lastAge |-> Never]
    /\ pending = NoPending
    /\ surplusAge = Never
    /\ published = NoWrite
    /\ sent = [write |-> Never, remedy |-> Never, surplus |-> Never, restart |-> Never]

-----------------------------------------------------------------------------
(* Publishing. *)

(* Publish returns nil or an error. *)
Acks == IF "publish" \in Faults THEN BOOLEAN ELSE {TRUE}

(* observedAt is the zero time, the receipt time of the cached status, or  *)
(* (after a self-poll) the start of this cycle.  `seen` says that          *)
(* authorityPendingSeenAt is the receipt time of the cached status.        *)
pendingEchoAwaited(p, payload, observed) ==
    /\ payload = p.payload /\ p.age # Never
    /\ observed = "zero" \/ (observed = "latest" /\ p.seen)
    /\ p.age < authorityPublishCooldown

clearPendingAuthorityPayload(p, payload) ==
    IF p.payload = payload THEN NoPending ELSE p

(* The publisher accepted payload (recordSuccessfulPublish).  A remedy is  *)
(* an attempt to unblock the outputs; a restart starts the count anew.     *)
Accepted(payload, observed, kind) ==
    /\ pending' = [payload |-> payload, age |-> 0, seen |-> observed = "latest"]
    /\ published' = IF payload.kind = "slots" THEN payload ELSE published
    /\ sent' = [sent EXCEPT
          !.write   = IF payload.kind = "slots" THEN 0 ELSE @,
          !.remedy  = IF kind \in {"output_enable", "stuck_output_rearm"} THEN 0
                      ELSE IF kind = "nuclear_restart" THEN Never ELSE @,
          !.surplus = IF kind = "surplus_feed_in" THEN 0 ELSE @,
          !.restart = IF kind = "nuclear_restart" THEN 0 ELSE @]

(* Nothing was accepted; p is the pending echo that remains. *)
NotAccepted(p) == pending' = p /\ UNCHANGED historyVars

Publish(p, payload, observed, kind, ok) ==
    IF ok THEN Accepted(payload, observed, kind) ELSE NotAccepted(p)

(* publishAuthorityPayload: nothing is sent while an echo is awaited.  Its *)
(* two results: was the payload published, and is the cycle handled?       *)
WasPublished(p, payload, observed, ok) == ok /\ ~pendingEchoAwaited(p, payload, observed)
WasHandled(p, payload, observed, ok)   == ok \/ pendingEchoAwaited(p, payload, observed)

publishAuthorityPayload(p, payload, observed, kind, ok) ==
    Publish(p, payload, observed, kind, WasPublished(p, payload, observed, ok))

recordCommandedWatts(watts) == lastCommandWatts' = watts /\ lastCommandAge' = 0

noteIdleWithoutPublish == lastCommandWatts' = 0 /\ UNCHANGED lastCommandAge

(* Mutant: the remembered command is compared, not the reported slot. *)
SlotMatches_Remembered(st, watts) == watts = lastCommandWatts

(* ensureControlledSlot, and whether it published or failed. *)
SlotMatches(st, watts) == controlledSlotMatches(CurrentSlot(st), desiredControlledSlot(watts))
EnsurePayload(st, watts) == buildSlotPayload(st, desiredControlledSlot(watts), FALSE)

ensureControlledSlot(p, watts, ok) ==
    LET payload == EnsurePayload(cycle.st, watts)
    IN  IF SlotMatches(cycle.st, watts)
        THEN NotAccepted(clearPendingAuthorityPayload(p, payload))
        ELSE publishAuthorityPayload(p, payload, cycle.obs, "controlled_slot", ok)

SlotPublished(p, watts, ok) ==
    /\ ~SlotMatches(cycle.st, watts)
    /\ WasPublished(p, EnsurePayload(cycle.st, watts), cycle.obs, ok)

SlotFailed(p, watts, ok) ==
    /\ ~SlotMatches(cycle.st, watts)
    /\ ~WasHandled(p, EnsurePayload(cycle.st, watts), cycle.obs, ok)

commandIdle(p, ok) ==
    /\ ensureControlledSlot(p, 0, ok)
    /\ IF SlotPublished(p, 0, ok) THEN recordCommandedWatts(0)
       ELSE IF SlotFailed(p, 0, ok) THEN UNCHANGED <<lastCommandWatts, lastCommandAge>>
       ELSE noteIdleWithoutPublish

resetEscalation == [escalation EXCEPT !.blockedCycles = 0, !.enableAttempted = FALSE]

-----------------------------------------------------------------------------
(* The environment: time, and status messages. *)

(* One tick.  A Step that is late finds one tick waiting, as with          *)
(* time.Ticker, whose channel holds one.                                   *)
Tick ==
    /\ ~cycle.on
    /\ timer' = IF timer = 1 THEN ControlInterval ELSE timer - 1
    /\ due' = (due \/ timer = 1)
    /\ sourceAge' = Older(sourceAge, StatusAgeCap)
    /\ lastCommandAge' = Older(lastCommandAge, MinHoldTime)
    /\ topChargeIdle' = Elapse(topChargeIdle)
    /\ escalation' = [escalation EXCEPT !.restartAge = Older(@, NuclearRestartMinInterval)]
    /\ rearm' = [rearm EXCEPT !.startedAge = Older(@, ControlInterval),
                              !.lastAge = Older(@, stuckOutputRearmCooldown)]
    /\ pending' = [pending EXCEPT !.age = Older(@, authorityPublishCooldown)]
    /\ surplusAge' = Older(surplusAge, surplusMinInterval)
    /\ sent' = [write   |-> Older(sent.write, MinHoldTime),
                remedy  |-> Older(sent.remedy, 1),
                surplus |-> Older(sent.surplus, surplusMinInterval),
                restart |-> Older(sent.restart, Larger(1, NuclearRestartMinInterval))]
    /\ UNCHANGED <<cycle, source, lastStatus, hasLastStatus, socFloorActive, smoothed,
                   hasSmoothed, lastCommandWatts, ready, highSoCStage, published>>

(* HandleMessage: a status arrives outside a self-poll.  A later receipt   *)
(* time is no longer the one the pending payload was published under.      *)
Receive ==
    /\ ~cycle.on
    /\ \E st \in Statuses : source' = st
    /\ sourceAge' = 0
    /\ pending' = [pending EXCEPT !.seen = FALSE]
    /\ UNCHANGED <<timer, due, cycle, lastStatus, hasLastStatus, socFloorActive, smoothed,
                   hasSmoothed, lastCommandWatts, lastCommandAge, ready, topChargeIdle,
                   escalation, highSoCStage, rearm, surplusAge, historyVars>>

-----------------------------------------------------------------------------
(* Step: reading the grid sample and the device status. *)

(* Where an accepted sample may come from: the plug-sum query is asked     *)
(* only when the primary query failed or was stale.                        *)
GridSources == {"primary"} \cup
               (IF FallbackQuery /\ "prometheus" \in Faults THEN {"fallback"} ELSE {})

StatusFresh == sourceAge # Never /\ sourceAge <= StatusStaleAfter

StatusSilent == sourceAge # Never /\ sourceAge > StatusHardFailAfter

(* Both reads succeeded with status st; what Step does with it before it   *)
(* takes any decision.                                                     *)
Read(st, obs) ==
    /\ due /\ ~cycle.on
    /\ due' = FALSE
    /\ \E src \in GridSources, w \in GridWatts :
          cycle' = [on |-> TRUE, src |-> src, grid |-> w, obs |-> obs, st |-> st]
    /\ lastStatus' = st /\ hasLastStatus' = TRUE
    /\ socFloorActive' = updateSoCFloor(socFloorActive, st)
    /\ UNCHANGED <<timer, smoothed, hasSmoothed, lastCommandWatts, lastCommandAge, ready,
                   topChargeIdle, escalation, highSoCStage, rearm, surplusAge, historyVars>>

ReadCached ==
    /\ StatusFresh
    /\ Read(source, "latest")
    /\ UNCHANGED <<source, sourceAge, pending>>

(* The cached status is missing or stale and a self-poll was answered.     *)
ReadPolled ==
    /\ ~StatusFresh
    /\ \E st \in Statuses : Read(st, "polled") /\ source' = st
    /\ sourceAge' = 0
    /\ pending' = [pending EXCEPT !.seen = FALSE]

(* Mutant: fallback() always starts from a zero status. *)
fallback_ZeroBase(ok) ==
    LET payload == buildSlotPayload(ZeroStatus, disabledControlledSlot, FALSE)
    IN  /\ due /\ ~cycle.on
        /\ due' = FALSE
        /\ topChargeIdle' = IF topChargeIdle.active THEN blockUntil(reset(topChargeIdle))
                                                    ELSE reset(topChargeIdle)
        /\ escalation' = resetEscalation
        /\ Publish(pending, payload, "zero", "fallback", ok)
        /\ IF ok THEN recordCommandedWatts(0) ELSE UNCHANGED <<lastCommandWatts, lastCommandAge>>
        /\ UNCHANGED <<timer, cycle, readVars, smoothed, hasSmoothed, ready, highSoCStage,
                       rearm, surplusAge>>

(* fallback(): disable the slot unless the cached status says it is.       *)
fallback(ok) ==
    LET base    == IF hasLastStatus THEN lastStatus ELSE ZeroStatus
        payload == buildSlotPayload(base, disabledControlledSlot, FALSE)
    IN  /\ due /\ ~cycle.on
        /\ due' = FALSE
        /\ topChargeIdle' = IF topChargeIdle.active THEN blockUntil(reset(topChargeIdle))
                                                    ELSE reset(topChargeIdle)
        /\ escalation' = resetEscalation
        /\ IF CurrentSlot(base) = disabledControlledSlot
           THEN NotAccepted(pending) /\ noteIdleWithoutPublish
           ELSE /\ Publish(pending, payload, "zero", "fallback", ok)
                /\ IF ok THEN recordCommandedWatts(0)
                         ELSE UNCHANGED <<lastCommandWatts, lastCommandAge>>
        /\ UNCHANGED <<timer, cycle, readVars, smoothed, hasSmoothed, ready, highSoCStage,
                       rearm, surplusAge>>

(* No fresh grid sample from either query. *)
PrometheusDown(ok) == "prometheus" \in Faults /\ fallback(ok)

(* The status has been silent for too long and the self-poll failed. *)
StatusHardFail(ok) == "poll" \in Faults /\ ~StatusFresh /\ StatusSilent /\ fallback(ok)

(* The self-poll failed but the silence is short: leave everything as is.  *)
StatusFreeze ==
    /\ "poll" \in Faults
    /\ due /\ ~cycle.on /\ ~StatusFresh /\ ~StatusSilent
    /\ due' = FALSE
    /\ UNCHANGED <<timer, cycle, readVars, smoothed, hasSmoothed, lastCommandWatts,
                   lastCommandAge, ready, topChargeIdle, escalation, highSoCStage, rearm,
                   pending, surplusAge, historyVars>>

-----------------------------------------------------------------------------
(* Step: the authority phase. *)

St == cycle.st

(* Every decision ends the Step. *)
EndCycle == cycle' = NoCycle /\ UNCHANGED <<timer, due, readVars>>

(* Mutant: the cycle goes on while the echo of the remedy is awaited. *)
ChargingModeWrong_UnlessAwaited ==
    St.cs # 0 /\ ~pendingEchoAwaited(pending, ChargingModePayload, cycle.obs)

ChargingModeWrong == St.cs # 0

(* ensureDeviceConfig. *)
RemediateChargingMode(ok) ==
    /\ cycle.on /\ ChargingModeWrong
    /\ EndCycle
    /\ publishAuthorityPayload(pending, ChargingModePayload, cycle.obs, "charging_mode", ok)
    /\ ready' = (ready \/ WasHandled(pending, ChargingModePayload, cycle.obs, ok))
    /\ UNCHANGED <<smoothed, hasSmoothed, lastCommandWatts, lastCommandAge, topChargeIdle,
                   escalation, highSoCStage, rearm, surplusAge>>

SurplusWanted == EnforceSurplusFeedIn /\ ~St.surplus

SurplusDue ==
    SurplusWanted /\ AllowFlashWrites /\ Elapsed(surplusAge, surplusMinInterval)

(* The pending echo once ensureDeviceConfig and ensureSurplusFeedIn have   *)
(* found nothing to remedy.                                                *)
PendingCharging == clearPendingAuthorityPayload(pending, ChargingModePayload)

PendingAuthority ==
    IF SurplusWanted THEN PendingCharging
    ELSE clearPendingAuthorityPayload(PendingCharging, SurplusFeedInPayload)

(* Mutant: the time of the flash write is not recorded. *)
RemediateSurplus_NoRecord(ok) ==
    /\ cycle.on /\ ~ChargingModeWrong /\ SurplusDue
    /\ EndCycle
    /\ publishAuthorityPayload(PendingCharging, SurplusFeedInPayload, "zero", "surplus_feed_in", ok)
    /\ ready' = (ready \/ WasHandled(PendingCharging, SurplusFeedInPayload, "zero", ok))
    /\ UNCHANGED <<smoothed, hasSmoothed, lastCommandWatts, lastCommandAge, topChargeIdle,
                   escalation, highSoCStage, rearm, surplusAge>>

(* ensureSurplusFeedIn: a flash write, rate limited. *)
RemediateSurplus(ok) ==
    /\ cycle.on /\ ~ChargingModeWrong /\ SurplusDue
    /\ EndCycle
    /\ publishAuthorityPayload(PendingCharging, SurplusFeedInPayload, "zero", "surplus_feed_in", ok)
    /\ surplusAge' = IF WasPublished(PendingCharging, SurplusFeedInPayload, "zero", ok)
                     THEN 0 ELSE surplusAge
    /\ ready' = (ready \/ WasHandled(PendingCharging, SurplusFeedInPayload, "zero", ok))
    /\ UNCHANGED <<smoothed, hasSmoothed, lastCommandWatts, lastCommandAge, topChargeIdle,
                   escalation, highSoCStage, rearm>>

-----------------------------------------------------------------------------
(* Step: the policy phase.  The values Step has computed by then: *)

NewSmoothed == smooth(smoothed, hasSmoothed, cycle.grid)

NewStage == highSoCStageForStatus(highSoCStage, St)

RawTarget == computeTarget(NewStage, cycle.src, St, NewSmoothed)

(* An active high-SoC stage resets the top-charge machine before it is     *)
(* updated.                                                                *)
NewTopChargeIdle ==
    LET t == IF NewStage # "inactive" THEN reset(topChargeIdle) ELSE topChargeIdle
    IN  update(t, St, cycle.grid, NewSmoothed)

Policy ==
    /\ cycle.on /\ ~ChargingModeWrong /\ ~SurplusDue
    /\ EndCycle
    /\ smoothed' = NewSmoothed /\ hasSmoothed' = TRUE
    /\ UNCHANGED surplusAge

SoCFloorIdle(ok) ==
    /\ socFloorActive
    /\ Policy
    /\ ready' = TRUE
    /\ topChargeIdle' = reset(topChargeIdle)
    /\ escalation' = resetEscalation
    /\ commandIdle(PendingAuthority, ok)
    /\ UNCHANGED <<highSoCStage, rearm>>

PolicyAboveFloor ==
    /\ ~socFloorActive
    /\ Policy
    /\ highSoCStage' = NewStage
    /\ topChargeIdle' = NewTopChargeIdle

TopChargeIdling(ok) ==
    /\ NewTopChargeIdle.active
    /\ PolicyAboveFloor
    /\ ready' = TRUE
    /\ escalation' = resetEscalation
    /\ commandIdle(PendingAuthority, ok)
    /\ UNCHANGED rearm

(* Mutant: the regime takes effect one cycle late. *)
Discharge_Late == ~(topChargeIdle.active /\ NewTopChargeIdle.active) /\ PolicyAboveFloor

Discharge == ~NewTopChargeIdle.active /\ PolicyAboveFloor

-----------------------------------------------------------------------------
(* Step: maybeEnsureOutputEnabled, the blocked-output ladder. *)

fullSoCStuckOutputCandidate ==
    RawTarget > 0 /\ St.soc >= 100 /\ St.out <= nearZeroOutputWatts

InRearm == rearm.pending /\ fullSoCStuckOutputCandidate

(* Mutant: the pending flag is forgotten. *)
clearStuckOutputRearm_KeepPending == [rearm EXCEPT !.startedAge = Never]

clearStuckOutputRearm == [rearm EXCEPT !.pending = FALSE, !.startedAge = Never]

(* maybeCompleteStuckOutputRearm, too early. *)
RearmWait ==
    /\ InRearm /\ rearm.startedAge < ControlInterval
    /\ Discharge
    /\ ready' = TRUE
    /\ NotAccepted(PendingAuthority)
    /\ UNCHANGED <<lastCommandWatts, lastCommandAge, escalation, rearm>>

(* maybeCompleteStuckOutputRearm: re-enable the slot. *)
RearmComplete(ok) ==
    LET payload == buildSlotPayload(St, desiredControlledSlot(RawTarget), FALSE)
    IN  /\ InRearm /\ rearm.startedAge >= ControlInterval
        /\ Discharge
        /\ publishAuthorityPayload(PendingAuthority, payload, "zero", "stuck_output_rearm", ok)
        /\ ready' = (ready \/ WasHandled(PendingAuthority, payload, "zero", ok))
        /\ IF WasPublished(PendingAuthority, payload, "zero", ok)
           THEN /\ rearm' = clearStuckOutputRearm
                /\ escalation' = [escalation EXCEPT !.enableAttempted = TRUE]
                /\ recordCommandedWatts(RawTarget)
           ELSE UNCHANGED <<rearm, escalation, lastCommandWatts, lastCommandAge>>

Delivering == St.out - St.solar > 0

SlotArmed == St.slot.enabled /\ St.slot.watts > 0

(* Mutant: the comparison is inverted. *)
SlotAsDesired_Inverted == ~controlledSlotMatches(St.slot, desiredControlledSlot(RawTarget))

(* The comparison of the controlled slot with the raw target is on the     *)
(* slot as the device spelled it.                                          *)
SlotAsDesired == controlledSlotMatches(St.slot, desiredControlledSlot(RawTarget))

(* The slot is armed for the target, yet the battery contributes nothing.  *)
Blocked ==
    /\ ~InRearm /\ RawTarget > 0
    /\ ~Delivering /\ SlotArmed /\ lastCommandWatts > 0
    /\ SlotAsDesired

noteBlockedCycle ==
    [escalation EXCEPT !.blockedCycles = IF @ < BlockedCap THEN @ + 1 ELSE @]

RearmDue ==
    /\ Blocked /\ noteBlockedCycle.blockedCycles >= 2
    /\ fullSoCStuckOutputCandidate
    /\ Elapsed(rearm.lastAge, stuckOutputRearmCooldown)

(* maybeStartStuckOutputRearm: disable the slot for one control interval.  *)
(* A re-arm that is pending for a status that is no candidate was cleared  *)
(* on the way here.                                                        *)
RearmStart(ok) ==
    LET payload == buildSlotPayload(St, disabledControlledSlot, FALSE)
    IN  /\ RearmDue
        /\ Discharge
        /\ publishAuthorityPayload(PendingAuthority, payload, "zero", "stuck_output_rearm", ok)
        /\ ready' = (ready \/ WasHandled(PendingAuthority, payload, "zero", ok))
        /\ IF WasPublished(PendingAuthority, payload, "zero", ok)
           THEN /\ rearm' = [pending |-> TRUE, startedAge |-> 0, lastAge |-> 0]
                /\ escalation' = [noteBlockedCycle EXCEPT !.enableAttempted = TRUE]
                /\ recordCommandedWatts(0)
           ELSE /\ rearm' = clearStuckOutputRearm
                /\ escalation' = noteBlockedCycle
                /\ UNCHANGED <<lastCommandWatts, lastCommandAge>>

(* Mutant: no remediation attempt is required. *)
NuclearDue_NoAttempt ==
    /\ Blocked /\ ~RearmDue
    /\ noteBlockedCycle.blockedCycles >= NuclearRestartBlockedCycles
    /\ NewSmoothed > ImportBiasWatts
    /\ NuclearRestartEnabled
    /\ NuclearRestartMinInterval > 0 => Elapsed(escalation.restartAge, NuclearRestartMinInterval)

(* config.validate() requires the WiFi acknowledgement with the enable.    *)
NuclearDue ==
    /\ Blocked /\ ~RearmDue
    /\ noteBlockedCycle.blockedCycles >= NuclearRestartBlockedCycles
    /\ escalation.enableAttempted
    /\ NewSmoothed > ImportBiasWatts
    /\ NuclearRestartEnabled
    /\ NuclearRestartMinInterval > 0 => Elapsed(escalation.restartAge, NuclearRestartMinInterval)

(* maybeNuclearRestartRecovery: restart the device. *)
NuclearRestart(ok) ==
    /\ NuclearDue
    /\ Discharge
    /\ Publish(PendingAuthority, RestartPayload, "zero", "nuclear_restart", ok)
    /\ escalation' = IF ok THEN [resetEscalation EXCEPT !.restartAge = 0] ELSE noteBlockedCycle
    /\ ready' = (ready \/ ok)
    /\ rearm' = clearStuckOutputRearm
    /\ UNCHANGED <<lastCommandWatts, lastCommandAge>>

EnableDue ==
    Blocked /\ ~RearmDue /\ ~NuclearDue /\ noteBlockedCycle.blockedCycles >= 2

(* The output-enable rung. *)
EnableOutputs(ok) ==
    LET handled == WasHandled(PendingAuthority, OutputEnablePayload, "zero", ok)
    IN  /\ EnableDue
        /\ Discharge
        /\ publishAuthorityPayload(PendingAuthority, OutputEnablePayload, "zero", "output_enable", ok)
        /\ escalation' = [noteBlockedCycle EXCEPT !.enableAttempted = @ \/ handled]
        /\ ready' = (ready \/ handled)
        /\ rearm' = clearStuckOutputRearm
        /\ UNCHANGED <<lastCommandWatts, lastCommandAge>>

-----------------------------------------------------------------------------
(* Step: publishNormalControl, reached when the ladder did not act. *)

(* Mutant: leaving the ladder keeps a re-arm pending. *)
NormalControl_KeepRearm ==
    /\ ~InRearm /\ ~RearmDue /\ ~NuclearDue /\ ~EnableDue
    /\ Discharge
    /\ escalation' = IF Blocked THEN noteBlockedCycle ELSE resetEscalation
    /\ UNCHANGED rearm

NormalControl ==
    /\ ~InRearm /\ ~RearmDue /\ ~NuclearDue /\ ~EnableDue
    /\ Discharge
    /\ escalation' = IF Blocked THEN noteBlockedCycle ELSE resetEscalation
    /\ rearm' = clearStuckOutputRearm

(* The pending echo when the ladder has been left: an output-enable is     *)
(* forgotten once the outputs are seen to work.                            *)
PendingControl ==
    IF /\ RawTarget > 0
       /\ Delivering \/ ~SlotArmed \/ lastCommandWatts <= 0
       /\ Delivering \/ St.outs
    THEN clearPendingAuthorityPayload(PendingAuthority, OutputEnablePayload)
    ELSE PendingAuthority

Exporting == NewSmoothed < 0 /\ ~allowExport(NewStage)

Ramped == rampedCommand(lastCommandWatts, RawTarget, Exporting)

DeltaSuppressed ==
    LET delta == abs(Ramped - lastCommandWatts)
    IN  delta = 0 \/ delta < deltaThreshold(Exporting)

(* Mutant: the export bypass also lets an increase through. *)
HoldSuppressed_AnyChange ==
    /\ ~Elapsed(lastCommandAge, MinHoldTime)
    /\ ~Exporting

HoldSuppressed ==
    /\ ~Elapsed(lastCommandAge, MinHoldTime)
    /\ ~(Exporting /\ Ramped < lastCommandWatts)

(* Mutant: a re-assert does not restart the hold time. *)
SuppressOrReassert_NoClock(ok) ==
    /\ DeltaSuppressed \/ HoldSuppressed
    /\ NormalControl
    /\ ensureControlledSlot(PendingControl, lastCommandWatts, ok)
    /\ ready' = (ready \/ ~SlotFailed(PendingControl, lastCommandWatts, ok))
    /\ UNCHANGED <<lastCommandWatts, lastCommandAge>>

(* Mutant: every suppressed change restarts the hold time. *)
SuppressOrReassert_AlwaysClock(ok) ==
    /\ DeltaSuppressed \/ HoldSuppressed
    /\ NormalControl
    /\ ensureControlledSlot(PendingControl, lastCommandWatts, ok)
    /\ ready' = (ready \/ ~SlotFailed(PendingControl, lastCommandWatts, ok))
    /\ lastCommandAge' = 0
    /\ UNCHANGED lastCommandWatts

(* suppressOrReassert: keep the command; write it again if the device's    *)
(* slot differs from it.                                                   *)
SuppressOrReassert(ok) ==
    /\ DeltaSuppressed \/ HoldSuppressed
    /\ NormalControl
    /\ ensureControlledSlot(PendingControl, lastCommandWatts, ok)
    /\ ready' = (ready \/ ~SlotFailed(PendingControl, lastCommandWatts, ok))
    /\ lastCommandAge' = IF SlotPublished(PendingControl, lastCommandWatts, ok)
                         THEN 0 ELSE lastCommandAge
    /\ UNCHANGED lastCommandWatts

(* Mutant: the command is recorded before the publisher has accepted it. *)
PublishCommand_RecordFirst(ok) ==
    LET payload == buildSlotPayload(St, desiredControlledSlot(Ramped), PersistToFlash)
    IN  /\ ~DeltaSuppressed /\ ~HoldSuppressed
        /\ NormalControl
        /\ Publish(PendingControl, payload, cycle.obs, "control", ok)
        /\ ready' = (ready \/ ok)
        /\ recordCommandedWatts(Ramped)

PublishCommand(ok) ==
    LET payload == buildSlotPayload(St, desiredControlledSlot(Ramped), PersistToFlash)
    IN  /\ ~DeltaSuppressed /\ ~HoldSuppressed
        /\ NormalControl
        /\ Publish(PendingControl, payload, cycle.obs, "control", ok)
        /\ ready' = (ready \/ ok)
        /\ IF ok THEN recordCommandedWatts(Ramped)
                 ELSE UNCHANGED <<lastCommandWatts, lastCommandAge>>

-----------------------------------------------------------------------------
Decide(ok) ==
    \/ RemediateChargingMode(ok) \/ RemediateSurplus(ok)
    \/ SoCFloorIdle(ok) \/ TopChargeIdling(ok)
    \/ RearmComplete(ok) \/ RearmStart(ok)
    \/ NuclearRestart(ok) \/ EnableOutputs(ok)
    \/ SuppressOrReassert(ok) \/ PublishCommand(ok)

Step ==
    \/ ReadCached \/ ReadPolled \/ StatusFreeze \/ RearmWait
    \/ \E ok \in Acks : PrometheusDown(ok) \/ StatusHardFail(ok) \/ Decide(ok)

Next == Tick \/ Receive \/ Step

Spec == Init /\ [][Next]_vars

(* Run's ticker keeps firing and the loop runs the Step it fired for.      *)
FairSpec == Spec /\ WF_vars(Tick) /\ WF_vars(Step)

-----------------------------------------------------------------------------
(* Properties. *)

Cycle == [on : BOOLEAN, src : {"primary", "fallback"}, grid : Int,
          obs : {"latest", "polled"}, st : Status]

PendingEcho == [payload : Payload, age : Age, seen : BOOLEAN]

Escalation == [blockedCycles : 0..BlockedCap, enableAttempted : BOOLEAN, restartAge : Age]

Rearm == [pending : BOOLEAN, startedAge : Age, lastAge : Age]

WriteAges == [write : Age, remedy : Age, surplus : Age, restart : Age]

(* Type invariant of the controller's fields, of the status cache and of   *)
(* the history.                                                            *)
TypeOK ==
    /\ timer \in 1..ControlInterval /\ due \in BOOLEAN /\ cycle \in Cycle
    /\ source \in Status /\ sourceAge \in Age
    /\ smoothed \in Int /\ hasSmoothed \in BOOLEAN
    /\ lastCommandWatts \in CommandRange /\ lastCommandAge \in Age
    /\ ready \in BOOLEAN
    /\ lastStatus \in Status /\ hasLastStatus \in BOOLEAN
    /\ socFloorActive \in BOOLEAN
    /\ topChargeIdle \in Machine
    /\ escalation \in Escalation
    /\ highSoCStage \in Stages
    /\ rearm \in Rearm
    /\ pending \in PendingEcho
    /\ surplusAge \in Age
    /\ published \in Payload
    /\ sent \in WriteAges

(* What a step put on the control topic. *)
WroteSlots  == sent'.write = 0 /\ sent.write # 0
Discharges  == WroteSlots /\ published'.slot.enabled
RestartSent == sent'.restart = 0 /\ sent.restart # 0
SurplusSent == sent'.surplus = 0 /\ sent.surplus # 0

(* A positive lastCommandWatts is what the last accepted schedule write    *)
(* armed: ramp, delta and re-assert all work from lastCommandWatts, so it  *)
(* must never run ahead of the writes, whatever publish failed, whatever   *)
(* idle, fallback or re-arm came in between.                               *)
CommandIsOnTheWire ==
    lastCommandWatts > 0 => published.slot = desiredControlledSlot(lastCommandWatts)

(* Every accepted schedule write arms watts the device does not clamp: the *)
(* minimum snap after the ramp, the export fast path and re-arming         *)
(* included.                                                               *)
WritesUnclamped ==
    published.slot.enabled => published.slot.watts \in MinOutputWatts..MaxOutputWatts

(* lastCommandTime is the time of the last accepted schedule write, from   *)
(* whichever of the six paths that write schedules it came; the hold time  *)
(* is measured from it.                                                    *)
HoldClockIsLastWrite == lastCommandAge = sent.write

(* While a re-arm waits to re-enable the slot, the controller knows that   *)
(* it commands nothing, and the last write is a stop.                      *)
RearmIsStopped ==
    rearm.pending => /\ lastCommandWatts = 0 /\ ~published.slot.enabled
                     /\ rearm.startedAge # Never

(* The second cycle of a re-arm: its stop is a control interval old and    *)
(* the device is as stuck as before.                                       *)
RearmCompletes == InRearm /\ rearm.startedAge >= ControlInterval

(* A write that raises the discharge comes at least MIN_HOLD_TIME after    *)
(* the previous schedule write, unless it completes a re-arm: neither a    *)
(* re-assert nor a failed, skipped or awaited stop opens a shortcut, nor   *)
(* a re-arm that is given up because the device delivers again.            *)
RaiseRespectsHold ==
    [][ WroteSlots /\ published'.slot.watts > published.slot.watts
        => RearmCompletes \/ Elapsed(sent.write, MinHoldTime) ]_vars

(* No write arms the slot in a cycle whose status has SoC at or below the  *)
(* soft floor or a foreign charging mode, or while top-charge idle is      *)
(* engaged, not even to complete a re-arm or to re-assert a command.       *)
DischargeIsAllowed ==
    [][ Discharges => /\ St.soc > softFloor(St) /\ St.cs = 0
                      /\ ~topChargeIdle'.active ]_vars

(* A schedule write carries the four other slots of the newest status that *)
(* has been received, be it the second of a re-arm or a re-assert of a     *)
(* command that is many statuses old; only fallback(), which reads none,   *)
(* carries those of the last status that a Step has read.                  *)
SlotsPreserved ==
    [][ WroteSlots => /\ cycle.on => published'.others = source.others
                      /\ hasLastStatus => published'.others = lastStatus.others ]_vars

(* A restart is the last resort: since the previous restart an             *)
(* output-enable or a re-arm was accepted by the publisher, the last       *)
(* schedule write armed the slot, and NUCLEAR_RESTART_MIN_INTERVAL has     *)
(* passed.                                                                 *)
RestartIsLastResort ==
    [][ RestartSent => /\ sent.remedy # Never
                       /\ published.slot.enabled
                       /\ Elapsed(sent.restart, NuclearRestartMinInterval) ]_vars

(* The surplus feed-in flash write is accepted at most once per            *)
(* SURPLUS_FEEDIN_RECOVERY_MIN_INTERVAL, whatever else is published        *)
(* between.                                                                *)
SurplusWritesSpaced ==
    [][ SurplusSent => Elapsed(sent.surplus, surplusMinInterval) ]_vars

(* Top-charge idle is not re-entered during the cooldown that a failed     *)
(* exit or a fallback started.                                             *)
NoEntryDuringCooldown == topChargeIdle.active => topChargeIdle.blockedFor = 0

(* Outside the regime every exit counter is 0.  Entering clears only two   *)
(* of the four, so a leftover would end the next regime early.             *)
ExitCountersClear ==
    ~topChargeIdle.active =>
        /\ topChargeIdle.socExitSamples = 0 /\ topChargeIdle.importSamples = 0
        /\ topChargeIdle.rawImportSamples = 0 /\ topChargeIdle.passThroughLostSamples = 0

(* While the house exports and the high-SoC stage does not allow it, a     *)
(* changed command is never above the target: the fast path undoes what    *)
(* the ramp adds, and the minimum snap cannot add it back.                 *)
ExportNeverOvershoots ==
    [][ cycle.on /\ Exporting /\ lastCommandWatts' # lastCommandWatts
        => lastCommandWatts' <= RawTarget ]_vars

(* Liveness, under FairSpec. *)

(* The device reports the commanded slot as armed and delivers nothing.    *)
StuckReport ==
    /\ lastCommandWatts > 0 /\ sourceAge # Never
    /\ source.cs = 0 /\ source.out = 0
    /\ CurrentSlot(source) = desiredControlledSlot(lastCommandWatts)

(* A device that stays stuck is remedied again and again. *)
LadderEngages == <>[]StuckReport => []<>(sent.remedy = 0)

(* A re-arm does not leave the slot disabled for good: it is completed or  *)
(* control is back to normal.                                              *)
RearmEnds == rearm.pending ~> ~rearm.pending

-----------------------------------------------------------------------------
(* The abstract specification. *)

(* The schedule writes of the loop, as a ledger sees them. *)
Ledger == INSTANCE CommandLedger WITH
    ordered  <- published.slot.watts,
    writeAge <- sent.write,
    rearming <- rearm.pending

(* Every step of the loop is one the ledger allows: reads, remedies, idle  *)
(* regimes, outages and failed publishes in any order never add up to a    *)
(* raise before the hold time, nor to a re-arm that did not begin with a   *)
(* stop.                                                                   *)
ImplementsLedger == Ledger!Spec

-----------------------------------------------------------------------------
(* What the documentation says and the code does not do. *)

(* fallback.go:12 and README item 5: fallback commands zero discharge.     *)
(* After a fallback that returned no error the last write is a stop.       *)
FallbackStops == [][ PrometheusDown(TRUE) => ~published'.slot.enabled ]_vars

=============================================================================
