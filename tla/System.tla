------------------------------- MODULE System -------------------------------
(***************************************************************************)
(* The running system: the control loop (module Controller), the MQTT      *)
(* client it publishes and polls through, the restart scheduler, the       *)
(* device, and a process that crashes and starts again, as run() of        *)
(* cmd/marstek-controller wires them.                                      *)
(*                                                                         *)
(* Here a publish is one step and the OnConnect callback two (what happens *)
(* inside them is module MqttClient): connected and queue are what         *)
(* internal/mqttclient keeps, held is what a callback has taken from the   *)
(* queue and not yet flushed, and link is whether packets get through,     *)
(* which the client learns late.                                           *)
(*                                                                         *)
(* External: the device.  It applies every payload that reaches it and     *)
(* reports what it does, slot times in its own spelling.                   *)
(***************************************************************************)
EXTENDS Controller

CONSTANTS
    Devices,            \* the states the device may be in at first
    ReportedWindow      \* how the device spells the configured window

ASSUME SystemAssumption == Devices \subseteq Status /\ ReportedWindow \in {"padded", "ragged"}

VARIABLES
    link,         \* packets reach the broker and the device
    connected,    \* mqttclient Client.connected
    queue,        \* mqttclient Client.pending
    held,         \* the publish an OnConnect callback has to flush
    device,       \* the device, as its reports show it
    transit       \* a report on its way to the controller, NoReport if none

clientVars == <<link, connected, queue, held>>
deviceVars == <<device, transit>>
systemVars == <<vars, clientVars, deviceVars>>

NoReport == ZeroStatus

(* cd=1: what Poll publishes.  It shares the control topic and the queue.  *)
StatusPoll == Plain("poll")

-----------------------------------------------------------------------------
(* The device. *)

(* What it delivers follows from its slot; a restart loses the volatile   *)
(* schedule or does not.                                                   *)
Settle(d) ==
    [d EXCEPT !.out = IF d.slot.enabled /\ d.outs THEN d.slot.watts ELSE 0]

NoDischarge(d) == Settle([d EXCEPT !.slot.enabled = FALSE, !.slot.watts = 0])

Apply(m) ==
    CASE m.kind = "slots" ->
            {Settle([device EXCEPT !.slot = [m.slot EXCEPT !.window = ReportedWindow],
                                   !.others = m.others])}
      [] m.kind = "charging_mode" -> {[device EXCEPT !.cs = 0]}
      [] m.kind = "surplus"       -> {[device EXCEPT !.surplus = TRUE]}
      [] m.kind = "outputs"       -> {Settle([device EXCEPT !.outs = TRUE])}
      [] m.kind = "restart"       -> {device, NoDischarge(device)}
      [] OTHER                    -> {device}

(* m reaches the device if the link is up, and is lost otherwise.          *)
Transmit(m) ==
    /\ device' \in IF link THEN Apply(m) ELSE {device}
    /\ UNCHANGED transit

(* Somebody takes the discharge off in the vendor's app. *)
SwitchOff ==
    /\ device.slot.enabled
    /\ device' = NoDischarge(device)
    /\ UNCHANGED <<vars, clientVars, transit>>

(* The device publishes a report.  It may arrive after a write that the    *)
(* device applies later.                                                   *)
Emit ==
    /\ link /\ transit = NoReport
    /\ transit' = device
    /\ UNCHANGED <<vars, clientVars, device>>

-----------------------------------------------------------------------------
(* Initial state. *)

SystemInit ==
    /\ Init
    /\ link = FALSE /\ connected = FALSE
    /\ queue = NoPayload /\ held = NoPayload
    /\ device \in Devices /\ transit = NoReport

-----------------------------------------------------------------------------
(* The connection. *)

(* Mutant: the queue is copied and not cleared. *)
Connect_KeepQueue ==
    /\ ~link /\ ~connected /\ held = NoPayload
    /\ link' = TRUE /\ connected' = TRUE
    /\ held' = queue
    /\ UNCHANGED <<vars, queue, deviceVars>>

(* A session opens; its callback sets the flag and takes the queue.        *)
Connect ==
    /\ ~link /\ ~connected /\ held = NoPayload
    /\ link' = TRUE /\ connected' = TRUE
    /\ held' = queue /\ queue' = NoPayload
    /\ UNCHANGED <<vars, deviceVars>>

(* The callback flushes what it took.  Steps that publish directly may     *)
(* come first, and the link may be gone again.                             *)
Flush ==
    /\ held # NoPayload
    /\ Transmit(held) /\ held' = NoPayload
    /\ UNCHANGED <<vars, link, connected, queue>>

LinkDown ==
    /\ link /\ link' = FALSE
    /\ transit' = NoReport
    /\ UNCHANGED <<vars, connected, queue, held, device>>

ConnectionLost ==
    /\ ~link /\ connected /\ connected' = FALSE
    /\ UNCHANGED <<vars, link, queue, held, deviceVars>>

-----------------------------------------------------------------------------
(* Publishing. *)

(* Publish: without a connection the payload replaces the queued one and   *)
(* the caller gets an error; on a dead link it is lost and the caller gets *)
(* none.                                                                   *)
Hand(m) ==
    IF connected THEN Transmit(m) /\ UNCHANGED queue
                 ELSE queue' = m /\ UNCHANGED deviceVars

Silent == UNCHANGED <<queue, deviceVars>>

(* publishAuthorityPayload and ensureControlledSlot, as the client sees    *)
(* them.                                                                   *)
HandAuthority(p, m, observed) == IF pendingEchoAwaited(p, m, observed) THEN Silent ELSE Hand(m)

HandSlot(p, watts) ==
    IF SlotMatches(St, watts) THEN Silent
    ELSE HandAuthority(p, EnsurePayload(St, watts), cycle.obs)

(* What a fallback hands to the client; q is the queue if it is nothing.   *)
HandFallback(q) ==
    LET base == IF hasLastStatus THEN lastStatus ELSE ZeroStatus
    IN  IF CurrentSlot(base) = disabledControlledSlot
        THEN queue' = q /\ UNCHANGED deviceVars
        ELSE Hand(buildSlotPayload(base, disabledControlledSlot, FALSE))

-----------------------------------------------------------------------------
(* The control loop, with the client for its publisher: a publish succeeds *)
(* when connected.                                                         *)

SystemTick ==
    /\ ~due /\ Tick
    /\ UNCHANGED <<clientVars, device, transit>>

(* A report arrives: HandleMessage. *)
Report ==
    /\ transit # NoReport
    /\ Receive /\ source' = transit
    /\ transit' = NoReport
    /\ UNCHANGED <<clientVars, device>>

Reachable == link /\ connected

SystemRead ==
    /\ \/ ReadCached
       \/ Reachable /\ ReadPolled /\ source' = device
    /\ UNCHANGED <<clientVars, deviceVars>>

(* The self-poll fails: without a connection it is queued like any other   *)
(* publish, over what was queued before.  A hard fail has polled as well.  *)
Polled == IF connected THEN queue ELSE StatusPoll

SystemFreeze ==
    /\ ~Reachable /\ StatusFreeze
    /\ queue' = Polled
    /\ UNCHANGED <<link, connected, held, deviceVars>>

SystemFallback ==
    /\ \/ PrometheusDown(connected) /\ HandFallback(queue)
       \/ ~Reachable /\ StatusHardFail(connected) /\ HandFallback(Polled)
    /\ UNCHANGED <<link, connected, held>>

(* Every decision of Step, with what it hands to the client. *)
SystemDecide ==
    LET reenable == buildSlotPayload(St, desiredControlledSlot(RawTarget), FALSE)
        disable  == buildSlotPayload(St, disabledControlledSlot, FALSE)
        command  == buildSlotPayload(St, desiredControlledSlot(Ramped), PersistToFlash)
        p        == PendingAuthority
    IN  /\ \/ /\ RemediateChargingMode(connected)
              /\ HandAuthority(pending, ChargingModePayload, cycle.obs)
           \/ /\ RemediateSurplus(connected)
              /\ HandAuthority(PendingCharging, SurplusFeedInPayload, "zero")
           \/ SoCFloorIdle(connected)    /\ HandSlot(p, 0)
           \/ TopChargeIdling(connected) /\ HandSlot(p, 0)
           \/ RearmWait                  /\ Silent
           \/ RearmComplete(connected)   /\ HandAuthority(p, reenable, "zero")
           \/ RearmStart(connected)      /\ HandAuthority(p, disable, "zero")
           \/ NuclearRestart(connected)  /\ Hand(RestartPayload)
           \/ EnableOutputs(connected)   /\ HandAuthority(p, OutputEnablePayload, "zero")
           \/ SuppressOrReassert(connected) /\ HandSlot(PendingControl, lastCommandWatts)
           \/ PublishCommand(connected)     /\ Hand(command)
        /\ UNCHANGED <<link, connected, held>>

SystemStep == SystemRead \/ SystemFreeze \/ SystemFallback \/ SystemDecide

-----------------------------------------------------------------------------
(* The restart scheduler and the process. *)

(* runRestartScheduler asks IsConnected first.                             *)
ScheduledRestart ==
    /\ connected
    /\ Hand(RestartPayload)
    /\ UNCHANGED <<vars, link, connected, held>>

(* The process dies and starts anew; the device goes on.  Nothing is       *)
(* persisted: the loop starts as New() makes it, the client with an empty  *)
(* queue.                                                                  *)
Crash ==
    /\ timer' = ControlInterval /\ due' = TRUE /\ cycle' = NoCycle
    /\ source' = ZeroStatus /\ sourceAge' = Never
    /\ smoothed' = 0 /\ hasSmoothed' = FALSE
    /\ lastCommandWatts' = 0 /\ lastCommandAge' = Never
    /\ ready' = FALSE
    /\ lastStatus' = ZeroStatus /\ hasLastStatus' = FALSE
    /\ socFloorActive' = FALSE /\ topChargeIdle' = NewMachine
    /\ escalation' = NewEscalation /\ highSoCStage' = "inactive"
    /\ rearm' = [pending |-> FALSE, startedAge |-> Never, lastAge |-> Never]
    /\ pending' = NoPending /\ surplusAge' = Never
    /\ published' = NoWrite
    /\ sent' = [write |-> Never, remedy |-> Never, surplus |-> Never, restart |-> Never]
    /\ link' = FALSE /\ connected' = FALSE
    /\ queue' = NoPayload /\ held' = NoPayload
    /\ transit' = NoReport
    /\ UNCHANGED device

-----------------------------------------------------------------------------
SystemNext ==
    \/ SystemTick \/ Emit \/ Report \/ SystemStep
    \/ Connect \/ Flush \/ LinkDown \/ ConnectionLost
    \/ SwitchOff \/ ScheduledRestart \/ Crash

(* Fairness: the loop keeps ticking and runs the Steps it ticks for, paho  *)
(* reconnects and runs its callbacks.  Each of these actions disables      *)
(* itself and is disabled by nothing else but a crash, so that weak        *)
(* fairness says which states cannot last.                                 *)
Fairness ==
    /\ []<>(due \/ cycle.on) /\ []<>~(due \/ cycle.on)     \* SystemTick, SystemStep
    /\ []<>(link \/ connected \/ held # NoPayload)         \* Connect
    /\ []<>(link \/ ~connected)                            \* ConnectionLost
    /\ []<>(held = NoPayload)                              \* Flush

SystemSpec == SystemInit /\ [][SystemNext]_systemVars /\ Fairness

-----------------------------------------------------------------------------
(* Properties. *)

(* Type invariant; a publish waits in the queue only while the client is   *)
(* not connected.                                                          *)
SystemTypeOK ==
    /\ link \in BOOLEAN /\ connected \in BOOLEAN
    /\ queue \in Payload /\ held \in Payload
    /\ queue # NoPayload => ~connected
    /\ device \in Status /\ transit \in Status

(* Whatever arms the device keeps within the limits, if the device itself  *)
(* did at first: a write that was lost, queued over a reconnect, merged    *)
(* into an old report or repeated after a crash is never one the device    *)
(* would clamp.                                                            *)
DeviceWithinLimits ==
    device.slot.enabled => device.slot.watts \in MinOutputWatts..MaxOutputWatts

(* From some moment on nothing disturbs the system. *)
Disturbance ==
    LinkDown \/ Crash \/ SwitchOff \/ ScheduledRestart
    \/ (SystemFallback /\ Reachable)

Calm == <>[][~Disturbance]_systemVars

(* The device runs what the loop believes it has commanded. *)
DeviceAsCommanded ==
    controlledSlotMatches(CurrentSlot(device), desiredControlledSlot(lastCommandWatts))

(* Once nothing disturbs the system any more, the device comes to run the  *)
(* commanded slot and stays with it: whatever was lost on a dead link,     *)
(* flushed late over a newer write, replaced in the queue by a self-poll   *)
(* or a stop, edited on the device or forgotten in a crash is repaired.    *)
Converges == Calm => <>[](~cycle.on => DeviceAsCommanded)

(* Every sample from some moment on is one of ws. *)
Steady(ws) == <>[][cycle'.on => cycle'.grid \in ws]_systemVars

Exports == {w \in GridWatts : w <= -MaxOutputWatts}
Imports == {w \in GridWatts : w >= MaxOutputWatts + ImportBiasWatts}

(* An undisturbed device is off for good if the house exports or the       *)
(* battery is at the soft floor, and gives all it may if the house imports *)
(* and the battery is above: no re-assert restarts the hold time for ever, *)
(* no awaited echo and no remembered command blocks the way.               *)
FollowsGrid ==
    /\ Calm /\ Steady(Exports) => <>[]~device.slot.enabled
    /\ Calm /\ <>[](device.soc <= softFloor(device)) => <>[]~device.slot.enabled
    /\ Calm /\ Steady(Imports) /\ <>[](device.soc >= resumeAt(device))
          => <>[](device.out = MaxOutputWatts)

=============================================================================
