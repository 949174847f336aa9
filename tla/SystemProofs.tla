---------------------------- MODULE SystemProofs ----------------------------
(***************************************************************************)
(* Theorems about the running system: what the control loop guarantees     *)
(* survives crashes and the MQTT client, and what reaches the device.      *)
(*                                                                         *)
(* A step of the system is a step of the loop, leaves the loop alone, or   *)
(* is a crash, after which the loop is as New() makes it.  What it does to *)
(* queue, callback and device is proved once, for any set of payloads and  *)
(* of device states that the loop's writes do not leave.                   *)
(***************************************************************************)
EXTENDS System, ControllerLadderProofs

-----------------------------------------------------------------------------
(* The loop inside the system. *)

(* A process that starts anew starts as the first one did. *)
LEMMA CrashIsInit == Crash => Init'
  BY DEF Crash, Init

(* Every step is one of the loop, none of the loop, or a crash. *)
LEMMA SystemIsLoop ==
  ASSUME connected \in BOOLEAN, [SystemNext]_systemVars
  PROVE  [LoopNext]_vars \/ Crash
  <1>1. CASE SystemTick \/ Report
    BY <1>1 DEF SystemTick, Report, LoopNext
  <1>2. CASE SystemRead \/ SystemFreeze
    BY <1>2 DEF SystemRead, SystemFreeze, LoopNext
  <1>3. CASE SystemFallback
    BY <1>3 DEF SystemFallback, LoopNext
  <1>4. CASE SystemDecide
    BY <1>4 DEF SystemDecide, LoopNext, Decide
  <1>5. CASE Emit \/ Connect \/ Flush \/ LinkDown \/ ConnectionLost
    BY <1>5 DEF Emit, Connect, Flush, LinkDown, ConnectionLost
  <1>6. CASE SwitchOff \/ ScheduledRestart \/ UNCHANGED systemVars
    BY <1>6 DEF SwitchOff, ScheduledRestart, systemVars
  <1> QED
    BY <1>1, <1>2, <1>3, <1>4, <1>5, <1>6 DEF SystemNext, SystemStep

-----------------------------------------------------------------------------
(* What the loop hands to the client. *)

(* A fixed command, or a schedule with the slot of a command and with the  *)
(* other slots of the last status read.                                    *)
LoopWrite(m) ==
    m.kind = "slots" =>
        /\ \E watts \in CommandRange : m.slot = desiredControlledSlot(watts)
        /\ m.others = IF hasLastStatus THEN lastStatus.others ELSE Wiped

(* Nothing reaches the device, and at most a self-poll is queued.          *)
Quiet ==
    /\ UNCHANGED deviceVars
    /\ queue' = queue \/ (queue' = StatusPoll /\ ~connected)

(* The loop hands one of its writes to the client.                         *)
HandsOver == \E m \in Payload : LoopWrite(m) /\ Hand(m)

(* A self-poll is a payload, and no schedule write. *)
LEMMA StatusPollType == StatusPoll \in Payload /\ StatusPoll.kind = "poll"
  <1>1. "poll" \in Kinds
    BY DEF Kinds
  <1> QED
    BY <1>1, PlainType DEF StatusPoll, Plain

(* A schedule that Step builds from the status it has read. *)
LEMMA StepWrite ==
  ASSUME TypeOK, CycleInv, cycle.on, NEW watts \in CommandRange, NEW flash \in BOOLEAN
  PROVE  LET m == buildSlotPayload(St, desiredControlledSlot(watts), flash)
         IN  m \in Payload /\ LoopWrite(m)
  <1>1. St \in Status /\ desiredControlledSlot(watts) \in Slot
    BY PolicyType, CommandType, DesiredSlotType
  <1> QED
    BY <1>1, SlotPayload DEF CycleInv, LoopWrite

(* A payload that an awaited echo may hold back is handed over or not.     *)
LEMMA AuthorityWrite ==
  ASSUME NEW p, NEW m \in Payload, NEW observed, LoopWrite(m), HandAuthority(p, m, observed)
  PROVE  Quiet \/ HandsOver
  BY DEF HandAuthority, Silent, Quiet, HandsOver, deviceVars

(* So is a slot that the device may have already. *)
LEMMA SlotWrite ==
  ASSUME TypeOK, CycleInv, cycle.on, NEW p, NEW watts \in CommandRange, HandSlot(p, watts)
  PROVE  Quiet \/ HandsOver
  <1>1. EnsurePayload(St, watts) \in Payload /\ LoopWrite(EnsurePayload(St, watts))
    BY StepWrite DEF EnsurePayload
  <1> QED
    BY <1>1, AuthorityWrite DEF HandSlot, Silent, Quiet, deviceVars

(* Every command but a schedule is a write of the loop. *)
LEMMA CommandWrite ==
  ASSUME NEW m \in {ChargingModePayload, SurplusFeedInPayload, OutputEnablePayload,
                    RestartPayload}
  PROVE  m \in Payload /\ LoopWrite(m)
  BY CommandPayloads DEF LoopWrite

(* A decision happens in a Step that has read a status, and hands over one *)
(* write at most.                                                          *)
LEMMA DecideWrites ==
  ASSUME TypeOK, CycleInv, SystemDecide
  PROVE  cycle.on /\ (Quiet \/ HandsOver)
  <1> USE DEF Discharge, PolicyAboveFloor, Policy
  <1>1. CASE RemediateChargingMode(connected)
             /\ HandAuthority(pending, ChargingModePayload, cycle.obs)
    BY <1>1, CommandWrite, AuthorityWrite DEF RemediateChargingMode
  <1>2. CASE RemediateSurplus(connected)
             /\ HandAuthority(PendingCharging, SurplusFeedInPayload, "zero")
    BY <1>2, CommandWrite, AuthorityWrite DEF RemediateSurplus
  <1>3. CASE (SoCFloorIdle(connected) \/ TopChargeIdling(connected))
             /\ HandSlot(PendingAuthority, 0)
    BY <1>3, ZeroCommand, SlotWrite DEF SoCFloorIdle, TopChargeIdling
  <1>4. CASE RearmWait /\ Silent
    BY <1>4 DEF RearmWait, Silent, Quiet, deviceVars
  <1>5. CASE RearmComplete(connected)
             /\ HandAuthority(PendingAuthority,
                    buildSlotPayload(St, desiredControlledSlot(RawTarget), FALSE), "zero")
    BY <1>5, PolicyType, StepWrite, AuthorityWrite DEF RearmComplete
  <1>6. CASE RearmStart(connected)
             /\ HandAuthority(PendingAuthority,
                    buildSlotPayload(St, disabledControlledSlot, FALSE), "zero")
    BY <1>6, ZeroCommand, DisabledIsZero, StepWrite, AuthorityWrite DEF RearmStart
  <1>7. CASE NuclearRestart(connected) /\ Hand(RestartPayload)
    BY <1>7, CommandWrite DEF NuclearRestart, HandsOver
  <1>8. CASE EnableOutputs(connected)
             /\ HandAuthority(PendingAuthority, OutputEnablePayload, "zero")
    BY <1>8, CommandWrite, AuthorityWrite DEF EnableOutputs
  <1>9. CASE SuppressOrReassert(connected) /\ HandSlot(PendingControl, lastCommandWatts)
    BY <1>9, SlotWrite DEF SuppressOrReassert, NormalControl, TypeOK
  <1>10. CASE PublishCommand(connected)
              /\ Hand(buildSlotPayload(St, desiredControlledSlot(Ramped), PersistToFlash))
    BY <1>10, PolicyType, StepWrite, ControllerAssumption
    DEF PublishCommand, NormalControl, HandsOver
  <1> QED
    BY <1>1, <1>2, <1>3, <1>4, <1>5, <1>6, <1>7, <1>8, <1>9, <1>10 DEF SystemDecide

(* A fallback stops the discharge with the other slots it knows of.        *)
LEMMA FallbackWrites ==
  ASSUME TypeOK, SystemFallback
  PROVE  Quiet \/ HandsOver
  <1> DEFINE base == IF hasLastStatus THEN lastStatus ELSE ZeroStatus
             m    == buildSlotPayload(base, disabledControlledSlot, FALSE)
  <1>1. base \in Status
    BY ZeroStatusType DEF TypeOK
  <1>2. m \in Payload /\ m.kind = "slots" /\ m.slot = desiredControlledSlot(0)
        /\ m.others = base.others
    BY <1>1, SlotPayload, DisabledSlotType, DisabledIsZero
  <1>3. m.others = IF hasLastStatus THEN lastStatus.others ELSE Wiped
    BY <1>2 DEF ZeroStatus
  <1>4. m \in Payload /\ LoopWrite(m)
    BY <1>2, <1>3, ZeroCommand DEF LoopWrite
  <1>5. ASSUME NEW q, q \in {queue, Polled}, HandFallback(q)
        PROVE  Quiet \/ HandsOver
    <2>1. CASE CurrentSlot(base) = disabledControlledSlot
      BY <1>5, <2>1 DEF HandFallback, Polled, Quiet
    <2>2. CASE CurrentSlot(base) # disabledControlledSlot
      <3>1. Hand(m)
        BY <1>5, <2>2 DEF HandFallback
      <3> QED
        BY <1>4, <3>1 DEF HandsOver
    <2> QED
      BY <2>1, <2>2
  <1> QED
    BY <1>5 DEF SystemFallback

-----------------------------------------------------------------------------
(* The way to the device. *)

(* Handing over a payload of P leaves queue in P and device in D, if       *)
(* applying it does.                                                       *)
LEMMA HandStep ==
  ASSUME NEW P, NEW D, NEW m \in P, Apply(m) \subseteq D, queue \in P, device \in D, Hand(m)
  PROVE  queue' \in P /\ device' \in D /\ transit' = transit
  BY DEF Hand, Transmit, deviceVars

(* One step of the system keeps payloads in P and device states in D if    *)
(* P contains what the loop writes, in this step at most, and D is closed  *)
(* under applying them.                                                    *)
LEMMA WireStep ==
  ASSUME TypeOK, CycleInv, connected \in BOOLEAN, [SystemNext]_systemVars,
         NEW P, NEW D,
         queue \in P, held \in P, device \in D, transit \in D \cup {NoReport},
         NoPayload \in P, StatusPoll \in P, RestartPayload \in P,
         \A m \in Payload : /\ LoopWrite(m)
                            /\ m.kind = "slots" => hasLastStatus \/ SystemFallback
                            => m \in P,
         \A m \in P : Apply(m) \subseteq D,
         NoDischarge(device) \in D
  PROVE  queue' \in P /\ held' \in P /\ device' \in D /\ transit' \in D \cup {NoReport}
  <1> USE DEF clientVars, deviceVars
  <1>1. CASE SystemTick \/ Report \/ SystemRead
    BY <1>1 DEF SystemTick, Report, SystemRead
  <1>2. CASE Quiet /\ UNCHANGED held
    BY <1>2 DEF Quiet
  <1>3. CASE HandsOver /\ (hasLastStatus \/ SystemFallback) /\ UNCHANGED held
    <2>1. PICK m \in Payload : LoopWrite(m) /\ Hand(m)
      BY <1>3 DEF HandsOver
    <2>2. m \in P
      BY <1>3, <2>1
    <2> QED
      BY <1>3, <2>1, <2>2, HandStep
  <1>4. CASE SystemFreeze
    BY <1>4 DEF SystemFreeze, Polled
  <1>5. CASE SystemFallback
    BY <1>2, <1>3, <1>5, FallbackWrites DEF SystemFallback
  <1>6. CASE SystemDecide
    <2>1. hasLastStatus /\ UNCHANGED held
      BY <1>6, DecideWrites DEF CycleInv, SystemDecide
    <2> QED
      BY <1>2, <1>3, <1>6, <2>1, DecideWrites
  <1>7. CASE Emit \/ Connect \/ LinkDown \/ ConnectionLost \/ SwitchOff
    BY <1>7 DEF Emit, Connect, LinkDown, ConnectionLost, SwitchOff
  <1>8. CASE Flush
    BY <1>8 DEF Flush, Transmit
  <1>9. CASE ScheduledRestart
    BY <1>9, HandStep DEF ScheduledRestart
  <1>10. CASE Crash \/ UNCHANGED systemVars
    BY <1>10 DEF Crash, systemVars
  <1> QED
    BY <1>1, <1>4, <1>5, <1>6, <1>7, <1>8, <1>9, <1>10 DEF SystemNext, SystemStep

(* A payload waits in the queue only without a connection: a publish with  *)
(* one goes out at once, and connecting empties the queue.                 *)
QueueInv ==
    /\ link \in BOOLEAN /\ connected \in BOOLEAN
    /\ queue # NoPayload => ~connected

(* What waits in the client's queue, over a step. *)
LEMMA QueueStep ==
  ASSUME TypeOK, CycleInv, QueueInv, [SystemNext]_systemVars
  PROVE  QueueInv'
  <1> USE DEF clientVars, deviceVars, QueueInv
  <1>1. CASE SystemTick \/ Report \/ SystemRead
    BY <1>1 DEF SystemTick, Report, SystemRead
  <1>2. CASE (Quiet \/ HandsOver) /\ UNCHANGED <<link, connected>>
    BY <1>2 DEF Quiet, HandsOver, Hand
  <1>3. CASE SystemFreeze
    BY <1>3 DEF SystemFreeze, Polled
  <1>4. CASE SystemFallback
    BY <1>2, <1>4, FallbackWrites DEF SystemFallback
  <1>5. CASE SystemDecide
    BY <1>2, <1>5, DecideWrites DEF SystemDecide
  <1>6. CASE Emit \/ Flush \/ SwitchOff \/ UNCHANGED systemVars
    BY <1>6 DEF Emit, Flush, SwitchOff, systemVars
  <1>7. CASE ScheduledRestart
    BY <1>7 DEF ScheduledRestart, Hand
  <1>8. CASE Connect
    BY <1>8, Zenon DEF Connect
  <1>9. CASE LinkDown
    BY <1>9, Zenon DEF LinkDown
  <1>10. CASE ConnectionLost
    BY <1>10, Zenon DEF ConnectionLost
  <1>11. CASE Crash
    BY <1>11, Zenon DEF Crash
  <1> QED
    BY <1>1, <1>3, <1>4, <1>5, <1>6, <1>7, <1>8, <1>9, <1>10, <1>11
    DEF SystemNext, SystemStep

-----------------------------------------------------------------------------
(* The invariant of the loop, across crashes. *)

LoopInv ==
    /\ TypeOK
    /\ CommandInv /\ MachineInv(topChargeIdle) /\ SurplusClock /\ RestartInv

(* The loop starts with it, ... *)
LEMMA LoopInit == Init => LoopInv
  <1>1. Init => SurplusClock
    BY DEF Init, SurplusClock
  <1> QED
    BY <1>1, TypeInit, CommandInit, MachineInit, RestartInit DEF LoopInv

(* ... every step of the system keeps it, and a crash starts it anew.      *)
LEMMA LoopStep ==
  ASSUME LoopInv, connected \in BOOLEAN, [SystemNext]_systemVars
  PROVE  LoopInv'
  <1>1. (Init => LoopInv)'
    BY LoopInit, PTL
  <1>2. CASE [LoopNext]_vars
    BY <1>2, TypeNext, CommandNext, MachineNext, SurplusNext, RestartNext DEF LoopInv
  <1>3. CASE Crash
    BY <1>1, <1>3, CrashIsInit
  <1> QED
    BY <1>2, <1>3, SystemIsLoop

-----------------------------------------------------------------------------
(* Types of what the client keeps and of the device. *)

(* The device reports a status whatever it delivers, ... *)
LEMMA SettleType ==
  ASSUME NEW d \in Status
  PROVE  Settle(d) \in Status /\ NoDischarge(d) \in Status
  <1>1. \A s \in Status : Settle(s) \in Status
    BY DEF Settle, Status, Slot
  <1>2. [d EXCEPT !.slot.enabled = FALSE, !.slot.watts = 0] \in Status
    <2>1. d.slot \in Slot
      BY DEF Status
    <2>2. \A b \in BOOLEAN, w \in Int : [d.slot EXCEPT !.enabled = b, !.watts = w] \in Slot
      BY <2>1 DEF Slot
    <2>3. \A s \in Slot : [d EXCEPT !.slot = s] \in Status
      BY DEF Status
    <2>4. [d EXCEPT !.slot.enabled = FALSE, !.slot.watts = 0]
            = [d EXCEPT !.slot = [d.slot EXCEPT !.enabled = FALSE, !.watts = 0]]
      BY <2>1 DEF Status
    <2>5. 0 \in Int
      OBVIOUS
    <2> QED
      BY <2>2, <2>3, <2>4, <2>5, Zenon
  <1> QED
    BY <1>1, <1>2 DEF NoDischarge

(* ... and whatever it is sent. *)
LEMMA ApplyType ==
  ASSUME NEW m \in Payload, device \in Status
  PROVE  Apply(m) \subseteq Status
  <1>1. [m.slot EXCEPT !.window = ReportedWindow] \in Slot
    BY SystemAssumption DEF Payload, Slot, Windows
  <1>2. [device EXCEPT !.slot = [m.slot EXCEPT !.window = ReportedWindow],
                       !.others = m.others] \in Status
    BY <1>1 DEF Payload, Status
  <1>3. /\ [device EXCEPT !.cs = 0] \in Status
        /\ \A b \in BOOLEAN : /\ [device EXCEPT !.surplus = b] \in Status
                              /\ [device EXCEPT !.outs = b] \in Status
    BY DEF Status
  <1>4. NoDischarge(device) \in Status
    BY SettleType
  <1>5. Settle([device EXCEPT !.slot = [m.slot EXCEPT !.window = ReportedWindow],
                              !.others = m.others]) \in Status
    BY <1>2, SettleType
  <1>6. Settle([device EXCEPT !.outs = TRUE]) \in Status
    BY <1>3, SettleType
  <1> HIDE DEF Status, Settle
  <1> QED
    BY <1>3, <1>4, <1>5, <1>6, Zenon DEF Apply

SystemInv ==
    /\ LoopInv /\ QueueInv
    /\ queue \in Payload /\ held \in Payload
    /\ device \in Status /\ transit \in Status

(* Everything starts well typed, ... *)
LEMMA SystemInvInit == SystemInit => SystemInv
  BY LoopInit, CommandPayloads, ZeroStatusType, SystemAssumption
  DEF SystemInit, SystemInv, QueueInv, NoReport

(* ... and stays so. *)
LEMMA SystemInvNext == SystemInv /\ [SystemNext]_systemVars => SystemInv'
  <1> SUFFICES ASSUME SystemInv, [SystemNext]_systemVars PROVE SystemInv'
    OBVIOUS
  <1>1. TypeOK /\ CycleInv /\ connected \in BOOLEAN
    BY DEF SystemInv, LoopInv, CommandInv, QueueInv
  <1>2. LoopInv' /\ QueueInv'
    BY <1>1, LoopStep, QueueStep DEF SystemInv
  <1>3. \A m \in Payload : Apply(m) \subseteq Status
    BY ApplyType DEF SystemInv
  <1>4. NoDischarge(device) \in Status
    BY SettleType DEF SystemInv
  <1>5. NoReport \in Status
    BY ZeroStatusType DEF NoReport
  <1>6. /\ queue' \in Payload /\ held' \in Payload
        /\ device' \in Status /\ transit' \in Status \cup {NoReport}
    BY <1>1, <1>3, <1>4, <1>5, WireStep, CommandPayloads, StatusPollType DEF SystemInv
  <1> QED
    BY <1>2, <1>5, <1>6 DEF SystemInv

(* Every reachable state of the system is well typed, and a payload waits  *)
(* in the queue only while there is no connection, whatever the order of   *)
(* publishes, callbacks, lost connections and crashes.                     *)
THEOREM SystemTypeCorrect == SystemSpec => []SystemTypeOK
  <1>1. SystemInv => SystemTypeOK
    BY DEF SystemInv, QueueInv, SystemTypeOK
  <1> QED
    BY <1>1, SystemInvInit, SystemInvNext, PTL DEF SystemSpec

(* What the loop guarantees with any publisher it guarantees in the        *)
(* system, in every life of the process: the remembered command is the     *)
(* last schedule write, which the device does not clamp and from which the *)
(* hold time counts, a re-arm has stopped the discharge, and the           *)
(* top-charge machine is in order.                                         *)
THEOREM SystemLoopCorrect ==
  SystemSpec => []( /\ TypeOK
                    /\ CommandIsOnTheWire /\ WritesUnclamped /\ HoldClockIsLastWrite
                    /\ RearmIsStopped /\ NoEntryDuringCooldown /\ ExitCountersClear )
  <1>1. SystemInv => /\ TypeOK
                     /\ CommandIsOnTheWire /\ WritesUnclamped /\ HoldClockIsLastWrite
                     /\ RearmIsStopped /\ NoEntryDuringCooldown /\ ExitCountersClear
    BY DEF SystemInv, LoopInv, CommandInv, MachineInv, NoEntryDuringCooldown, ExitCountersClear
  <1> QED
    BY <1>1, SystemInvInit, SystemInvNext, PTL DEF SystemSpec

(* A crash writes nothing, and forgets the history. *)
LEMMA CrashWritesNothing ==
  ASSUME TypeOK, Crash
  PROVE  /\ ~WroteSlots /\ ~RestartSent /\ ~SurplusSent
         /\ lastCommandWatts' <= RawTarget
  <1>1. sent'.write = Never /\ sent'.restart = Never /\ sent'.surplus = Never
    BY DEF Crash
  <1>2. lastCommandWatts' = 0 /\ RawTarget \in Nat
    BY PolicyType, CommandType DEF Crash
  <1>3. Never # 0 /\ 0 <= RawTarget
    BY <1>2 DEF Never
  <1> QED
    BY <1>1, <1>2, <1>3 DEF WroteSlots, RestartSent, SurplusSent

(* What no step of the loop does no step of the system does. *)
LEMMA LoopActions ==
  ASSUME LoopInv, connected \in BOOLEAN, [SystemNext]_systemVars
  PROVE  /\ WroteSlots /\ published'.slot.watts > published.slot.watts
              => RearmCompletes \/ Elapsed(sent.write, MinHoldTime)
         /\ Discharges => St.soc > softFloor(St) /\ St.cs = 0 /\ ~topChargeIdle'.active
         /\ WroteSlots => /\ cycle.on => published'.others = source.others
                          /\ hasLastStatus => published'.others = lastStatus.others
         /\ RestartSent => /\ sent.remedy # Never /\ published.slot.enabled
                           /\ Elapsed(sent.restart, NuclearRestartMinInterval)
         /\ SurplusSent => Elapsed(sent.surplus, surplusMinInterval)
         /\ cycle.on /\ Exporting /\ lastCommandWatts' # lastCommandWatts
              => lastCommandWatts' <= RawTarget
  <1> USE DEF LoopInv
  <1>1. CASE Crash
    BY <1>1, CrashWritesNothing DEF Discharges
  <1>2. CASE [LoopNext]_vars
    BY <1>2, RaiseStep, DischargeStep, OthersStep, RestartNext, SurplusNext, ExportStep
  <1> QED
    BY <1>1, <1>2, SystemIsLoop

(* The pacing of raises, the conditions for a discharge, the user's other  *)
(* slots, the rate limits of restart and surplus flash write and the       *)
(* export fast path hold in the system as in the loop alone: no report,    *)
(* publish or crash in between opens a shortcut.                           *)
THEOREM SystemWritesCorrect ==
  SystemSpec => /\ RaiseRespectsHold /\ DischargeIsAllowed /\ SlotsPreserved
                /\ RestartIsLastResort /\ SurplusWritesSpaced /\ ExportNeverOvershoots
  <1>1. SystemInv /\ [SystemNext]_systemVars =>
          /\ [ WroteSlots /\ published'.slot.watts > published.slot.watts
               => RearmCompletes \/ Elapsed(sent.write, MinHoldTime) ]_vars
          /\ [ Discharges => /\ St.soc > softFloor(St) /\ St.cs = 0
                             /\ ~topChargeIdle'.active ]_vars
          /\ [ WroteSlots => /\ cycle.on => published'.others = source.others
                             /\ hasLastStatus => published'.others = lastStatus.others ]_vars
          /\ [ RestartSent => /\ sent.remedy # Never
                              /\ published.slot.enabled
                              /\ Elapsed(sent.restart, NuclearRestartMinInterval) ]_vars
          /\ [ SurplusSent => Elapsed(sent.surplus, surplusMinInterval) ]_vars
          /\ [ cycle.on /\ Exporting /\ lastCommandWatts' # lastCommandWatts
               => lastCommandWatts' <= RawTarget ]_vars
    BY LoopActions DEF SystemInv, QueueInv
  <1> QED
    BY <1>1, SystemInvInit, SystemInvNext, PTL
    DEF SystemSpec, RaiseRespectsHold, DischargeIsAllowed, SlotsPreserved,
        RestartIsLastResort, SurplusWritesSpaced, ExportNeverOvershoots

(* Between crashes the system implements the ledger of the schedule        *)
(* writes, and after a crash the ledger is empty.                          *)
THEOREM SystemImplementsLedger ==
  SystemSpec => /\ Ledger!Init
                /\ [][Ledger!Next \/ (Crash /\ (Ledger!Init)')]_(Ledger!ledgerVars)
  <1>1. SystemInit => Ledger!Init
    BY LedgerInit DEF SystemInit
  <1>2. (Init => Ledger!Init)'
    BY LedgerInit, PTL
  <1>3. SystemInv /\ SystemInv' /\ [SystemNext]_systemVars =>
          [Ledger!Next \/ (Crash /\ (Ledger!Init)')]_(Ledger!ledgerVars)
    <2> SUFFICES ASSUME SystemInv, SystemInv', [SystemNext]_systemVars
                 PROVE  [Ledger!Next \/ (Crash /\ (Ledger!Init)')]_(Ledger!ledgerVars)
      OBVIOUS
    <2>1. CASE [LoopNext]_vars
      BY <2>1, LedgerStep DEF SystemInv, LoopInv
    <2>2. CASE Crash
      BY <1>2, <2>2, CrashIsInit
    <2> QED
      BY <2>1, <2>2, SystemIsLoop DEF SystemInv, QueueInv
  <1> QED
    BY <1>1, <1>3, SystemInvInit, SystemInvNext, PTL DEF SystemSpec

-----------------------------------------------------------------------------
(* What arms the device. *)

Limits == MinOutputWatts..MaxOutputWatts

(* A slot the device does not clamp. *)
Unclamped(slot) == slot.enabled => slot.watts \in Limits

UnclampedPayloads == {m \in Payload : m.kind = "slots" => Unclamped(m.slot)}
UnclampedDevices  == {d \in Status : Unclamped(d.slot)}

(* Settling leaves the slot alone. *)
LEMMA SettleSlot ==
  ASSUME NEW d \in Status
  PROVE  Settle(d).slot = d.slot /\ Settle(d).others = d.others
  BY DEF Settle, Status

(* Taking the discharge off disables the slot and leaves the others alone. *)
LEMMA NoDischargeSlot ==
  ASSUME NEW d \in Status
  PROVE  NoDischarge(d).slot.enabled = FALSE /\ NoDischarge(d).others = d.others
  <1> DEFINE e == [d EXCEPT !.slot.enabled = FALSE, !.slot.watts = 0]
  <1>1. e.slot.enabled = FALSE /\ e.others = d.others
    BY DEF Status, Slot
  <1>2. Settle(e).slot = e.slot /\ Settle(e).others = e.others
    BY DEF Settle, Status
  <1> QED
    BY <1>1, <1>2 DEF NoDischarge

(* Besides a restart only a schedule write changes the device's slots.     *)
LEMMA ApplySlot ==
  ASSUME NEW m \in Payload, device \in Status, NEW d \in Apply(m)
  PROVE  \/ /\ m.kind = "slots"
            /\ d.slot = [m.slot EXCEPT !.window = ReportedWindow] /\ d.others = m.others
         \/ d.slot = device.slot /\ d.others = device.others
         \/ d.slot.enabled = FALSE /\ d.others = device.others
  <1> DEFINE e == [device EXCEPT !.slot = [m.slot EXCEPT !.window = ReportedWindow],
                                 !.others = m.others]
  <1>1. e \in Status
    <2>1. [m.slot EXCEPT !.window = ReportedWindow] \in Slot
      BY SystemAssumption DEF Payload, Slot, Windows
    <2> QED
      BY <2>1 DEF Payload, Status
  <1>2. /\ e.slot = [m.slot EXCEPT !.window = ReportedWindow]
        /\ e.others = m.others
    BY DEF Status
  <1>3. Settle(e).slot = e.slot /\ Settle(e).others = e.others
    BY <1>1, SettleSlot
  <1> HIDE DEF e
  <1>4. CASE m.kind = "slots"
    BY <1>2, <1>3, <1>4 DEF Apply, e
  <1>5. CASE m.kind = "charging_mode"
    BY <1>5 DEF Apply, Status
  <1>6. CASE m.kind = "surplus"
    BY <1>6 DEF Apply, Status
  <1>7. CASE m.kind = "outputs"
    <2>1. [device EXCEPT !.outs = TRUE] \in Status
      <3>1. \A b \in BOOLEAN : [device EXCEPT !.outs = b] \in Status
        BY DEF Status
      <3> QED
        BY <3>1
    <2>2. /\ [device EXCEPT !.outs = TRUE].slot = device.slot
          /\ [device EXCEPT !.outs = TRUE].others = device.others
      BY DEF Status
    <2> QED
      BY <1>7, <2>1, <2>2, SettleSlot DEF Apply
  <1>8. CASE m.kind = "restart"
    BY <1>8, NoDischargeSlot DEF Apply
  <1>9. CASE m.kind \in {"none", "poll"}
    BY <1>9 DEF Apply
  <1> QED
    BY <1>4, <1>5, <1>6, <1>7, <1>8, <1>9 DEF Payload, Kinds

(* The loop, its commands and the device itself stay within the limits.    *)
LimitsInv ==
    /\ SystemInv
    /\ queue \in UnclampedPayloads /\ held \in UnclampedPayloads
    /\ device \in UnclampedDevices /\ transit \in UnclampedDevices

(* Fixed commands arm nothing, and the empty report shows no armed slot.   *)
LEMMA UnclampedConstants ==
  /\ {NoPayload, StatusPoll, RestartPayload} \subseteq UnclampedPayloads
  /\ NoReport \in UnclampedDevices
  <1>1. {NoPayload, StatusPoll, RestartPayload} \subseteq UnclampedPayloads
    BY CommandPayloads, StatusPollType DEF UnclampedPayloads
  <1>2. NoReport \in UnclampedDevices
    BY ZeroStatusType DEF NoReport, ZeroStatus, NoSlot, UnclampedDevices, Unclamped
  <1> QED
    BY <1>1, <1>2

(* Every command of the loop is within the limits. *)
LEMMA WritesAreUnclamped ==
  ASSUME NEW m \in Payload, LoopWrite(m)
  PROVE  m \in UnclampedPayloads
  <1> SUFFICES ASSUME m.kind = "slots" PROVE Unclamped(m.slot)
    BY DEF UnclampedPayloads
  <1>1. PICK watts \in CommandRange : m.slot = desiredControlledSlot(watts)
    BY DEF LoopWrite
  <1> QED
    BY <1>1, DesiredSlot DEF Unclamped, Limits

(* The device takes over what it is sent. *)
LEMMA ApplyUnclamped ==
  ASSUME NEW m \in UnclampedPayloads, device \in UnclampedDevices
  PROVE  Apply(m) \subseteq UnclampedDevices
  <1> SUFFICES ASSUME NEW d \in Apply(m) PROVE d \in UnclampedDevices
    OBVIOUS
  <1>1. m \in Payload /\ device \in Status /\ d \in Status
    BY ApplyType DEF UnclampedPayloads, UnclampedDevices
  <1>2. m.kind = "slots" => Unclamped([m.slot EXCEPT !.window = ReportedWindow])
    BY <1>1 DEF UnclampedPayloads, Unclamped, Payload, Slot
  <1>3. Unclamped(device.slot)
    BY DEF UnclampedDevices
  <1>4. Unclamped(d.slot)
    BY <1>1, <1>2, <1>3, ApplySlot DEF Unclamped
  <1> QED
    BY <1>1, <1>4 DEF UnclampedDevices

(* The device's limits, at the start. *)
LEMMA LimitsInit ==
  ASSUME \A d \in Devices : Unclamped(d.slot), SystemInit
  PROVE  LimitsInv
  BY SystemInvInit, UnclampedConstants, SystemAssumption
  DEF SystemInit, LimitsInv, UnclampedDevices

(* The device's limits, over a step. *)
LEMMA LimitsNext == LimitsInv /\ [SystemNext]_systemVars => LimitsInv'
  <1> SUFFICES ASSUME LimitsInv, [SystemNext]_systemVars PROVE LimitsInv'
    OBVIOUS
  <1>1. SystemInv /\ SystemInv'
    BY SystemInvNext DEF LimitsInv
  <1>2. TypeOK /\ CycleInv /\ connected \in BOOLEAN
    BY <1>1 DEF SystemInv, LoopInv, CommandInv, QueueInv
  <1>3. \A m \in UnclampedPayloads : Apply(m) \subseteq UnclampedDevices
    BY ApplyUnclamped DEF LimitsInv
  <1>4. NoDischarge(device) \in UnclampedDevices
    BY <1>1, SettleType, NoDischargeSlot DEF SystemInv, UnclampedDevices, Unclamped
  <1>5. /\ queue' \in UnclampedPayloads /\ held' \in UnclampedPayloads
        /\ device' \in UnclampedDevices
        /\ transit' \in UnclampedDevices \cup {NoReport}
    BY <1>2, <1>3, <1>4, WireStep, UnclampedConstants, WritesAreUnclamped DEF LimitsInv
  <1> QED
    BY <1>1, <1>5, UnclampedConstants DEF LimitsInv

(* A device that is within the limits at first stays within them: no late, *)
(* repeated or reordered write, and none made from an old report, arms it  *)
(* with power outside MIN_OUTPUT_WATTS..MAX_OUTPUT_WATTS.                  *)
THEOREM DeviceStaysWithinLimits ==
  ASSUME \A d \in Devices : d.slot.enabled => d.slot.watts \in MinOutputWatts..MaxOutputWatts
  PROVE  SystemSpec => []DeviceWithinLimits
  <1>1. SystemInit => LimitsInv
    BY LimitsInit DEF Unclamped, Limits
  <1>2. LimitsInv => DeviceWithinLimits
    BY DEF LimitsInv, UnclampedDevices, Unclamped, Limits, DeviceWithinLimits
  <1> QED
    BY <1>1, <1>2, LimitsNext, PTL DEF SystemSpec

-----------------------------------------------------------------------------
(* The four slots the controller does not own. *)

(* fallback() before any status was read, which starts from an empty one.  *)
ColdFallback == ~hasLastStatus /\ SystemFallback

PayloadsWith(O) == {m \in Payload : m.kind = "slots" => m.others \in O}
DevicesWith(O)  == {d \in Status : d.others \in O}

(* Everything that may come back to the device has its other slots in O:   *)
(* writes on their way, reports, and the statuses the loop keeps.          *)
OthersInv(O) ==
    /\ SystemInv
    /\ queue \in PayloadsWith(O) /\ held \in PayloadsWith(O)
    /\ device \in DevicesWith(O) /\ transit \in DevicesWith(O) \cup {NoReport}
    /\ sourceAge # Never => source.others \in O
    /\ hasLastStatus => lastStatus.others \in O

(* The statuses the loop keeps come from the device. *)
LEMMA KnownOthers ==
  ASSUME NEW O, OthersInv(O), [SystemNext]_systemVars
  PROVE  /\ (sourceAge # Never => source.others \in O)'
         /\ (hasLastStatus => lastStatus.others \in O)'
  <1> DEFINE Goal == /\ (sourceAge # Never => source.others \in O)'
                     /\ (hasLastStatus => lastStatus.others \in O)'
  <1> USE DEF OthersInv, DevicesWith
  <1>1. CASE UNCHANGED readVars
    BY <1>1 DEF readVars
  <1>2. CASE SystemTick
    <2>1. sourceAge \in Age
      BY DEF SystemInv, LoopInv, TypeOK
    <2>2. /\ sourceAge' = Older(sourceAge, StatusAgeCap)
          /\ UNCHANGED <<source, lastStatus, hasLastStatus>>
      BY <1>2 DEF SystemTick, Tick
    <2> QED
      BY <2>1, <2>2, OlderType
  <1>3. CASE Report
    BY <1>3 DEF Report, Receive
  <1>4. CASE ReadCached
    BY <1>4 DEF ReadCached, Read, StatusFresh
  <1>5. CASE ReadPolled /\ source' = device
    BY <1>5 DEF ReadPolled, Read
  <1>6. CASE SystemRead
    BY <1>4, <1>5, <1>6 DEF SystemRead
  <1>7. CASE SystemFreeze \/ SystemFallback
    BY <1>1, <1>7 DEF SystemFreeze, StatusFreeze, SystemFallback, PrometheusDown,
                      StatusHardFail, fallback
  <1>8. CASE SystemDecide
    BY <1>1, <1>8 DEF SystemDecide, RemediateChargingMode, RemediateSurplus, SoCFloorIdle,
                      TopChargeIdling, RearmWait, RearmComplete, RearmStart, NuclearRestart,
                      EnableOutputs, SuppressOrReassert, PublishCommand, NormalControl,
                      Discharge, PolicyAboveFloor, Policy, EndCycle
  <1>9. CASE Crash
    BY <1>9 DEF Crash
  <1>10. CASE UNCHANGED vars
    BY <1>1, <1>10 DEF vars
  <1>11. Emit \/ Connect \/ Flush \/ LinkDown \/ ConnectionLost \/ SwitchOff
           \/ ScheduledRestart \/ UNCHANGED systemVars
         => UNCHANGED vars
    BY DEF Emit, Connect, Flush, LinkDown, ConnectionLost, SwitchOff, ScheduledRestart,
           systemVars
  <1> QED
    BY <1>2, <1>3, <1>6, <1>7, <1>8, <1>9, <1>10, <1>11 DEF SystemNext, SystemStep

(* The device takes over the other slots it is sent, and keeps them in a   *)
(* restart.                                                                *)
LEMMA ApplyOthers ==
  ASSUME NEW O, NEW m \in PayloadsWith(O), device \in DevicesWith(O)
  PROVE  Apply(m) \subseteq DevicesWith(O)
  <1> SUFFICES ASSUME NEW d \in Apply(m) PROVE d \in DevicesWith(O)
    OBVIOUS
  <1>1. m \in Payload /\ device \in Status /\ d \in Status
    BY ApplyType DEF PayloadsWith, DevicesWith
  <1>2. d.others = device.others \/ (m.kind = "slots" /\ d.others = m.others)
    BY <1>1, ApplySlot
  <1> QED
    BY <1>1, <1>2 DEF PayloadsWith, DevicesWith

(* One step that is no cold fallback, or after which the wiped slots are   *)
(* no news.                                                                *)
LEMMA OthersNext ==
  ASSUME NEW O, OthersInv(O), [SystemNext]_systemVars, ColdFallback => Wiped \in O
  PROVE  OthersInv(O)'
  <1>1. SystemInv /\ SystemInv'
    BY SystemInvNext DEF OthersInv
  <1>2. TypeOK /\ CycleInv /\ connected \in BOOLEAN
    BY <1>1 DEF SystemInv, LoopInv, CommandInv, QueueInv
  <1>3. \A m \in Payload : /\ LoopWrite(m)
                           /\ m.kind = "slots" => hasLastStatus \/ SystemFallback
                           => m \in PayloadsWith(O)
    BY DEF LoopWrite, ColdFallback, PayloadsWith, OthersInv
  <1>4. \A m \in PayloadsWith(O) : Apply(m) \subseteq DevicesWith(O)
    BY ApplyOthers DEF OthersInv
  <1>5. NoDischarge(device) \in DevicesWith(O)
    BY <1>1, SettleType, NoDischargeSlot DEF OthersInv, DevicesWith
  <1>6. {NoPayload, StatusPoll, RestartPayload} \subseteq PayloadsWith(O)
    BY CommandPayloads, StatusPollType DEF PayloadsWith
  <1>7. /\ queue' \in PayloadsWith(O) /\ held' \in PayloadsWith(O)
        /\ device' \in DevicesWith(O) /\ transit' \in DevicesWith(O) \cup {NoReport}
    BY <1>2, <1>3, <1>4, <1>5, <1>6, WireStep DEF OthersInv
  <1> QED
    BY <1>1, <1>7, KnownOthers DEF OthersInv

(* At first the device's own slots are the only ones. *)
LEMMA OthersInit ==
  ASSUME NEW O, SystemInit, device.others \in O
  PROVE  OthersInv(O)
  <1>1. NoPayload \in PayloadsWith(O)
    BY CommandPayloads DEF PayloadsWith
  <1>2. sourceAge = Never /\ hasLastStatus = FALSE
    BY DEF SystemInit, Init
  <1> QED
    BY <1>1, <1>2, SystemInvInit, SystemAssumption DEF SystemInit, OthersInv, DevicesWith

(* The only thing that can change a slot the controller does not own is a  *)
(* fallback before the first status of a process.  Without one the four    *)
(* other slots survive every write, restart, crash and late report.        *)
THEOREM OtherSlotsSurvive ==
  ASSUME NEW o \in Others
  PROVE  SystemInit /\ device.others = o /\ [][SystemNext /\ ~ColdFallback]_systemVars
           => [](device.others = o)
  <1>1. SystemInit /\ device.others = o => OthersInv({o})
    BY OthersInit
  <1>2. OthersInv({o}) /\ [SystemNext /\ ~ColdFallback]_systemVars => OthersInv({o})'
    <2>1. ASSUME OthersInv({o}), UNCHANGED systemVars
          PROVE  ~ColdFallback \/ OthersInv({o})'
      BY <2>1, SystemInvNext
      DEF OthersInv, systemVars, vars, readVars, clientVars, deviceVars
    <2> QED
      BY <2>1, OthersNext
  <1>3. OthersInv({o}) => device.others = o
    BY DEF OthersInv, DevicesWith
  <1> QED
    BY <1>1, <1>2, <1>3, PTL

(* With one they are wiped all four, or come back: the device never has    *)
(* any but those it had at first or none at all.                           *)
THEOREM OtherSlotsNeverInvented ==
  ASSUME NEW o \in Others
  PROVE  SystemSpec /\ device.others = o => [](device.others \in {o, Wiped})
  <1>1. SystemInit /\ device.others = o => OthersInv({o, Wiped})
    BY OthersInit
  <1>2. OthersInv({o, Wiped}) /\ [SystemNext]_systemVars => OthersInv({o, Wiped})'
    BY OthersNext
  <1>3. OthersInv({o, Wiped}) => device.others \in {o, Wiped}
    BY DEF OthersInv, DevicesWith
  <1> QED
    BY <1>1, <1>2, <1>3, PTL DEF SystemSpec

=============================================================================
