-------------------------- MODULE ControllerProofs --------------------------
(***************************************************************************)
(* Theorems about Controller, for every configuration config.validate()    *)
(* accepts and every set of statuses, grid samples and faults.             *)
(*                                                                         *)
(* A step is one of the ten decisions, one of the reads and fallbacks, a   *)
(* tick or an arriving status.  What all schedule writes have in common is *)
(* proved once, for Publish and the operators built from it.               *)
(***************************************************************************)
EXTENDS Controller, ControlLawProofs

-----------------------------------------------------------------------------
(* Ages. *)

(* An age one tick later is an age, and is 0 only if it was before. *)
LEMMA OlderType ==
  ASSUME NEW age \in Age, NEW cap
  PROVE  /\ Older(age, cap) \in Age
         /\ Older(age, cap) = 0 => age = 0
         /\ Older(age, cap) = Never <=> age = Never
  BY DEF Older, Age, Never

(* The cap of the escalation counter is a natural number. *)
LEMMA BlockedCapType == BlockedCap \in Nat
  BY ControllerAssumption DEF BlockedCap, Larger

-----------------------------------------------------------------------------
(* Publishing. *)

(* Publishing keeps the pending echo and the history well typed, whether   *)
(* the publisher accepts the payload or not.                               *)
LEMMA PublishType ==
  ASSUME TypeOK, NEW p \in PendingEcho, NEW payload \in Payload, NEW observed, NEW kind,
         NEW ok \in BOOLEAN,
         \/ Publish(p, payload, observed, kind, ok)
         \/ publishAuthorityPayload(p, payload, observed, kind, ok)
  PROVE  pending' \in PendingEcho /\ published' \in Payload /\ sent' \in WriteAges
  <1>1. CASE Accepted(payload, observed, kind)
    <2>1. pending' \in PendingEcho
      BY <1>1 DEF Accepted, PendingEcho, Age
    <2>2. published' \in Payload
      BY <1>1 DEF Accepted, TypeOK
    <2>3. sent' \in WriteAges
      BY <1>1 DEF Accepted, TypeOK, WriteAges, Age, Never
    <2> QED
      BY <2>1, <2>2, <2>3
  <1>2. CASE NotAccepted(p)
    BY <1>2 DEF NotAccepted, historyVars, TypeOK
  <1> QED
    BY <1>1, <1>2 DEF Publish, publishAuthorityPayload

(* Forgetting the pending echo. *)
LEMMA ClearType ==
  ASSUME NEW p \in PendingEcho, NEW payload
  PROVE  clearPendingAuthorityPayload(p, payload) \in PendingEcho
  BY CommandPayloads DEF clearPendingAuthorityPayload, NoPending, PendingEcho, Age, Never

(* The pending echo at each point of a Step. *)
LEMMA PendingType ==
  ASSUME TypeOK
  PROVE  /\ pending \in PendingEcho /\ PendingCharging \in PendingEcho
         /\ PendingAuthority \in PendingEcho /\ PendingControl \in PendingEcho
  <1>1. pending \in PendingEcho
    BY DEF TypeOK
  <1>2. PendingCharging \in PendingEcho
    BY <1>1, ClearType DEF PendingCharging
  <1>3. PendingAuthority \in PendingEcho
    BY <1>2, ClearType DEF PendingAuthority
  <1>4. PendingControl \in PendingEcho
    BY <1>3, ClearType DEF PendingControl
  <1> QED
    BY <1>1, <1>2, <1>3, <1>4

(* Every command is an integer number of watts. *)
LEMMA CommandType == ASSUME NEW watts \in CommandRange PROVE watts \in Nat
  BY ControlLawAssumption DEF CommandRange

(* The values Step computes from what it has read. *)
LEMMA PolicyType ==
  ASSUME TypeOK
  PROVE  /\ St \in Status /\ NewSmoothed \in Int /\ NewStage \in Stages
         /\ RawTarget \in CommandRange /\ NewTopChargeIdle \in Machine
         /\ Exporting \in BOOLEAN /\ Ramped \in CommandRange
  <1>1. St \in Status /\ cycle.grid \in Int
    BY DEF TypeOK, St, Cycle
  <1>2. NewSmoothed \in Int
    BY <1>1, SmoothType DEF TypeOK, NewSmoothed
  <1>3. NewStage \in Stages
    BY StageType DEF NewStage
  <1>4. RawTarget \in CommandRange
    BY <1>1, <1>2, <1>3, TargetRange DEF RawTarget
  <1>5. NewTopChargeIdle \in Machine
    BY <1>1, <1>2, MachineType DEF TypeOK, NewTopChargeIdle
  <1>6. Exporting \in BOOLEAN
    BY DEF Exporting
  <1>7. Ramped \in CommandRange
    BY <1>4, <1>6, RampedRange DEF TypeOK, Ramped
  <1> QED
    BY <1>1, <1>2, <1>3, <1>4, <1>5, <1>6, <1>7

(* ensureControlledSlot. *)
LEMMA EnsureType ==
  ASSUME TypeOK, NEW p \in PendingEcho, NEW watts \in Int, NEW ok \in BOOLEAN,
         ensureControlledSlot(p, watts, ok)
  PROVE  pending' \in PendingEcho /\ published' \in Payload /\ sent' \in WriteAges
  <1>1. EnsurePayload(cycle.st, watts) \in Payload
    BY PolicyType, DesiredSlotType, SlotPayload DEF EnsurePayload, St
  <1>2. CASE SlotMatches(cycle.st, watts)
    BY <1>2, ClearType DEF ensureControlledSlot, NotAccepted, historyVars, TypeOK
  <1>3. CASE ~SlotMatches(cycle.st, watts)
    BY <1>1, <1>3, PublishType DEF ensureControlledSlot
  <1> QED
    BY <1>2, <1>3

(* The two ways in which a command is recorded. *)
LEMMA CommandRecorded ==
  ASSUME TypeOK, NEW watts \in CommandRange,
         \/ recordCommandedWatts(watts)
         \/ noteIdleWithoutPublish
         \/ UNCHANGED <<lastCommandWatts, lastCommandAge>>
  PROVE  lastCommandWatts' \in CommandRange /\ lastCommandAge' \in Age
  BY DEF TypeOK, recordCommandedWatts, noteIdleWithoutPublish, CommandRange, Age

(* Escalation and re-arm records stay typed under what Step does to them.  *)
LEMMA LadderType ==
  ASSUME TypeOK
  PROVE  /\ resetEscalation \in Escalation /\ noteBlockedCycle \in Escalation
         /\ \A e \in Escalation, b \in BOOLEAN : [e EXCEPT !.enableAttempted = b] \in Escalation
         /\ clearStuckOutputRearm \in Rearm
  <1>1. resetEscalation \in Escalation
    <2>1. escalation \in Escalation /\ 0 \in 0..BlockedCap
      BY BlockedCapType DEF TypeOK
    <2> QED
      BY <2>1 DEF resetEscalation, Escalation
  <1>2. noteBlockedCycle \in Escalation
    <2>1. /\ escalation \in Escalation
          /\ escalation.blockedCycles \in 0..BlockedCap
      BY DEF TypeOK, Escalation
    <2>2. \A n \in 0..BlockedCap : [escalation EXCEPT !.blockedCycles = n] \in Escalation
      BY <2>1 DEF Escalation
    <2>3. (IF escalation.blockedCycles < BlockedCap THEN escalation.blockedCycles + 1
           ELSE escalation.blockedCycles) \in 0..BlockedCap
      BY <2>1, BlockedCapType
    <2> QED
      BY <2>2, <2>3 DEF noteBlockedCycle
  <1>3. \A e \in Escalation, b \in BOOLEAN : [e EXCEPT !.enableAttempted = b] \in Escalation
    BY DEF Escalation
  <1>4. clearStuckOutputRearm \in Rearm
    BY DEF TypeOK, clearStuckOutputRearm, Rearm, Age
  <1> QED
    BY <1>1, <1>2, <1>3, <1>4

-----------------------------------------------------------------------------
(* Type correctness. *)

(* New() builds a well-typed controller. *)
LEMMA TypeInit == Init => TypeOK
  <1> SUFFICES ASSUME Init PROVE TypeOK
    OBVIOUS
  <1>1. ZeroStatus \in Status
    BY ZeroStatusType
  <1>2. timer \in 1..ControlInterval
    BY TopChargeIdleAssumption DEF Init
  <1>13. due \in BOOLEAN /\ ready \in BOOLEAN /\ hasSmoothed \in BOOLEAN
    BY DEF Init
  <1>3. cycle \in Cycle
    BY <1>1 DEF Init, NoCycle, Cycle
  <1>4. /\ source \in Status /\ sourceAge \in Age /\ lastStatus \in Status
        /\ hasLastStatus \in BOOLEAN /\ socFloorActive \in BOOLEAN
    BY <1>1 DEF Init, Age
  <1>5. /\ smoothed \in Int
        /\ lastCommandWatts \in CommandRange /\ lastCommandAge \in Age
    BY DEF Init, CommandRange, Age
  <1>6. topChargeIdle \in Machine
    BY NewMachineType DEF Init
  <1>7. escalation \in Escalation
    BY BlockedCapType DEF Init, NewEscalation, Escalation, Age
  <1>8. highSoCStage \in Stages /\ surplusAge \in Age
    BY DEF Init, Stages, Age
  <1>9. rearm \in Rearm
    BY DEF Init, Rearm, Age
  <1>10. pending \in PendingEcho
    BY CommandPayloads DEF Init, NoPending, PendingEcho, Age
  <1>11. published \in Payload
    BY NoSlotType, OthersAssumption
    DEF Init, NoWrite, BuildTimedDischargePayload, Payload, Kinds
  <1>12. sent \in WriteAges
    BY DEF Init, WriteAges, Age
  <1> QED
    BY <1>2, <1>3, <1>4, <1>5, <1>6, <1>7, <1>8, <1>9, <1>10, <1>11, <1>12, <1>13 DEF TypeOK

(* Time passes. *)
LEMMA TypeTick == TypeOK /\ Tick => TypeOK'
  <1> SUFFICES ASSUME TypeOK, Tick PROVE TypeOK'
    OBVIOUS
  <1>1. timer' \in 1..ControlInterval
    BY TopChargeIdleAssumption DEF Tick, TypeOK
  <1>2. due' \in BOOLEAN
    BY DEF Tick
  <1>3. /\ sourceAge' \in Age /\ lastCommandAge' \in Age /\ surplusAge' \in Age
    BY OlderType DEF Tick, TypeOK
  <1>4. topChargeIdle' \in Machine
    BY MachineType DEF Tick, TypeOK
  <1>5. escalation' \in Escalation
    BY OlderType DEF Tick, TypeOK, Escalation
  <1>6. rearm' \in Rearm
    BY OlderType DEF Tick, TypeOK, Rearm
  <1>7. pending' \in PendingEcho
    BY OlderType DEF Tick, TypeOK, PendingEcho
  <1>8. sent' \in WriteAges
    BY OlderType DEF Tick, TypeOK, WriteAges
  <1> QED
    BY <1>1, <1>2, <1>3, <1>4, <1>5, <1>6, <1>7, <1>8 DEF Tick, TypeOK

(* A status arrives. *)
LEMMA TypeReceive == TypeOK /\ Receive => TypeOK'
  <1> SUFFICES ASSUME TypeOK, Receive PROVE TypeOK'
    OBVIOUS
  <1>1. source' \in Status /\ sourceAge' \in Age
    BY ControllerAssumption DEF Receive, Age
  <1>2. pending' \in PendingEcho
    BY DEF Receive, TypeOK, PendingEcho
  <1> QED
    BY <1>1, <1>2 DEF Receive, TypeOK, historyVars

(* Both reads succeed. *)
LEMMA TypeRead == TypeOK /\ (ReadCached \/ ReadPolled) => TypeOK'
  <1>1. ASSUME TypeOK, NEW st \in Status, NEW obs \in {"latest", "polled"}, Read(st, obs),
               source' \in Status, sourceAge' \in Age, pending' \in PendingEcho
        PROVE  TypeOK'
    <2>1. cycle' \in Cycle
      <3>1. GridSources \subseteq {"primary", "fallback"}
        BY DEF GridSources
      <3> QED
        BY <1>1, <3>1, ControllerAssumption DEF Read, Cycle
    <2>2. due' \in BOOLEAN /\ lastStatus' \in Status /\ hasLastStatus' \in BOOLEAN
      BY <1>1 DEF Read
    <2>3. socFloorActive' \in BOOLEAN
      BY <1>1 DEF Read, updateSoCFloor
    <2> QED
      BY <1>1, <2>1, <2>2, <2>3 DEF Read, TypeOK, historyVars
  <1>2. TypeOK /\ ReadCached => TypeOK'
    BY <1>1 DEF ReadCached, TypeOK
  <1>3. ASSUME TypeOK, ReadPolled PROVE TypeOK'
    <2>1. PICK st \in Statuses : Read(st, "polled") /\ source' = st
      BY <1>3 DEF ReadPolled
    <2>2. st \in Status /\ 0 \in Age
      BY ControllerAssumption DEF Age
    <2>3. pending' \in PendingEcho
      BY <1>3 DEF ReadPolled, TypeOK, PendingEcho
    <2> QED
      BY <1>1, <1>3, <2>1, <2>2, <2>3 DEF ReadPolled
  <1> QED
    BY <1>2, <1>3

(* A read fails. *)
LEMMA TypeFallback == ASSUME NEW ok \in BOOLEAN PROVE TypeOK /\ fallback(ok) => TypeOK'
  <1> SUFFICES ASSUME TypeOK, fallback(ok) PROVE TypeOK'
    OBVIOUS
  <1> DEFINE base == IF hasLastStatus THEN lastStatus ELSE ZeroStatus
             payload == buildSlotPayload(base, disabledControlledSlot, FALSE)
  <1>1. base \in Status
    BY ZeroStatusType DEF TypeOK
  <1>2. payload \in Payload
    BY <1>1, SlotPayload, DisabledSlotType
  <1>3. 0 \in CommandRange
    BY DEF CommandRange
  <1>4. pending' \in PendingEcho /\ published' \in Payload /\ sent' \in WriteAges
    <2>1. CASE NotAccepted(pending)
      BY <2>1 DEF NotAccepted, historyVars, TypeOK
    <2>2. CASE Publish(pending, payload, "zero", "fallback", ok)
      BY <2>2, <1>2, PublishType DEF TypeOK
    <2> QED
      BY <2>1, <2>2 DEF fallback
  <1>5. lastCommandWatts' \in CommandRange /\ lastCommandAge' \in Age
    BY <1>3, CommandRecorded DEF fallback
  <1>6. topChargeIdle' \in Machine
    BY MachineType DEF fallback, TypeOK
  <1>7. escalation' \in Escalation
    BY LadderType DEF fallback
  <1> QED
    BY <1>4, <1>5, <1>6, <1>7 DEF fallback, readVars, TypeOK

(* A decision in the authority phase. *)
LEMMA TypeAuthority ==
  ASSUME NEW ok \in BOOLEAN
  PROVE  TypeOK /\ (RemediateChargingMode(ok) \/ RemediateSurplus(ok)) => TypeOK'
  <1> SUFFICES ASSUME TypeOK, RemediateChargingMode(ok) \/ RemediateSurplus(ok)
               PROVE  TypeOK'
    OBVIOUS
  <1>1. NoCycle \in Cycle
    BY ZeroStatusType DEF NoCycle, Cycle
  <1>2. pending' \in PendingEcho /\ published' \in Payload /\ sent' \in WriteAges
    BY PendingType, CommandPayloads, PublishType DEF RemediateChargingMode, RemediateSurplus
  <1>3. surplusAge' \in Age
    BY DEF RemediateChargingMode, RemediateSurplus, TypeOK, Age
  <1>4. ready' \in BOOLEAN
    BY DEF RemediateChargingMode, RemediateSurplus
  <1> QED
    BY <1>1, <1>2, <1>3, <1>4
    DEF RemediateChargingMode, RemediateSurplus, EndCycle, readVars, TypeOK

(* What every decision of the policy phase does to the type invariant: the *)
(* variables Policy assigns are typed, those EndCycle leaves alone too.    *)
PolicyTypes ==
    /\ timer' \in 1..ControlInterval /\ due' \in BOOLEAN /\ cycle' \in Cycle
    /\ source' \in Status /\ sourceAge' \in Age
    /\ smoothed' \in Int /\ hasSmoothed' \in BOOLEAN
    /\ lastStatus' \in Status /\ hasLastStatus' \in BOOLEAN
    /\ socFloorActive' \in BOOLEAN /\ surplusAge' \in Age

(* What the policy phase computes has its type. *)
LEMMA TypeOfPolicy == TypeOK /\ Policy => PolicyTypes
  <1> SUFFICES ASSUME TypeOK, Policy PROVE PolicyTypes
    OBVIOUS
  <1>1. NoCycle \in Cycle
    BY ZeroStatusType DEF NoCycle, Cycle
  <1>2. smoothed' \in Int
    BY PolicyType DEF Policy
  <1>3. hasSmoothed' \in BOOLEAN
    BY DEF Policy
  <1> QED
    BY <1>1, <1>2, <1>3 DEF Policy, EndCycle, readVars, TypeOK, PolicyTypes

(* commandIdle. *)
LEMMA TypeCommandIdle ==
  ASSUME TypeOK, NEW ok \in BOOLEAN, commandIdle(PendingAuthority, ok)
  PROVE  /\ pending' \in PendingEcho /\ published' \in Payload /\ sent' \in WriteAges
         /\ lastCommandWatts' \in CommandRange /\ lastCommandAge' \in Age
  <1>1. 0 \in CommandRange /\ 0 \in Int
    BY DEF CommandRange
  <1>2. pending' \in PendingEcho /\ published' \in Payload /\ sent' \in WriteAges
    BY <1>1, PendingType, EnsureType DEF commandIdle
  <1>3. \/ recordCommandedWatts(0) \/ noteIdleWithoutPublish
        \/ UNCHANGED <<lastCommandWatts, lastCommandAge>>
    BY DEF commandIdle
  <1> QED
    BY <1>1, <1>2, <1>3, CommandRecorded

(* Idling at the SoC floor or in the top-charge regime. *)
LEMMA TypeIdle ==
  ASSUME NEW ok \in BOOLEAN
  PROVE  TypeOK /\ (SoCFloorIdle(ok) \/ TopChargeIdling(ok)) => TypeOK'
  <1> SUFFICES ASSUME TypeOK, SoCFloorIdle(ok) \/ TopChargeIdling(ok) PROVE TypeOK'
    OBVIOUS
  <1>1. PolicyTypes
    BY TypeOfPolicy DEF SoCFloorIdle, TopChargeIdling, PolicyAboveFloor
  <1>2. /\ pending' \in PendingEcho /\ published' \in Payload /\ sent' \in WriteAges
        /\ lastCommandWatts' \in CommandRange /\ lastCommandAge' \in Age
    BY TypeCommandIdle DEF SoCFloorIdle, TopChargeIdling
  <1>3. topChargeIdle' \in Machine
    BY MachineType, PolicyType DEF SoCFloorIdle, TopChargeIdling, PolicyAboveFloor, TypeOK
  <1>4. highSoCStage' \in Stages
    BY PolicyType DEF SoCFloorIdle, TopChargeIdling, PolicyAboveFloor, TypeOK
  <1>5. escalation' \in Escalation
    BY LadderType DEF SoCFloorIdle, TopChargeIdling
  <1>6. ready' \in BOOLEAN /\ rearm' \in Rearm
    BY DEF SoCFloorIdle, TopChargeIdling, TypeOK
  <1> QED
    BY <1>1, <1>2, <1>3, <1>4, <1>5, <1>6 DEF PolicyTypes, TypeOK

(* Above the floor and outside the top-charge regime. *)
LEMMA TypeOfDischarge ==
  TypeOK /\ Discharge => PolicyTypes /\ topChargeIdle' \in Machine /\ highSoCStage' \in Stages
  BY TypeOfPolicy, PolicyType DEF Discharge, PolicyAboveFloor

(* The rungs of the blocked-output ladder. *)
LEMMA TypeRearm ==
  ASSUME NEW ok \in BOOLEAN
  PROVE  TypeOK /\ (RearmWait \/ RearmComplete(ok) \/ RearmStart(ok)) => TypeOK'
  <1> SUFFICES ASSUME TypeOK, RearmWait \/ RearmComplete(ok) \/ RearmStart(ok) PROVE TypeOK'
    OBVIOUS
  <1>1. PolicyTypes /\ topChargeIdle' \in Machine /\ highSoCStage' \in Stages
    BY TypeOfDischarge DEF RearmWait, RearmComplete, RearmStart
  <1>2. /\ St \in Status /\ RawTarget \in CommandRange /\ RawTarget \in Int
        /\ 0 \in CommandRange
    BY PolicyType, CommandType DEF CommandRange
  <1>3. /\ buildSlotPayload(St, desiredControlledSlot(RawTarget), FALSE) \in Payload
        /\ buildSlotPayload(St, disabledControlledSlot, FALSE) \in Payload
    BY <1>2, SlotPayload, DesiredSlotType, DisabledSlotType
  <1>4. pending' \in PendingEcho /\ published' \in Payload /\ sent' \in WriteAges
    <2>1. CASE RearmWait
      BY <2>1, PendingType DEF RearmWait, NotAccepted, historyVars, TypeOK
    <2>2. CASE RearmComplete(ok) \/ RearmStart(ok)
      BY <2>2, <1>3, PendingType, PublishType DEF RearmComplete, RearmStart
    <2> QED
      BY <2>1, <2>2
  <1>5. lastCommandWatts' \in CommandRange /\ lastCommandAge' \in Age
    BY <1>2, CommandRecorded DEF RearmWait, RearmComplete, RearmStart
  <1>6. escalation' \in Escalation
    BY LadderType DEF RearmWait, RearmComplete, RearmStart, TypeOK
  <1>7. rearm' \in Rearm
    <2>1. [pending |-> TRUE, startedAge |-> 0, lastAge |-> 0] \in Rearm
      BY DEF Rearm, Age
    <2> QED
      BY <2>1, LadderType DEF RearmWait, RearmComplete, RearmStart, TypeOK
  <1>8. ready' \in BOOLEAN
    BY DEF RearmWait, RearmComplete, RearmStart
  <1> QED
    BY <1>1, <1>4, <1>5, <1>6, <1>7, <1>8 DEF PolicyTypes, TypeOK

(* The restart and the output-enable rung keep the types. *)
LEMMA TypeEscalate ==
  ASSUME NEW ok \in BOOLEAN
  PROVE  TypeOK /\ (NuclearRestart(ok) \/ EnableOutputs(ok)) => TypeOK'
  <1> SUFFICES ASSUME TypeOK, NuclearRestart(ok) \/ EnableOutputs(ok) PROVE TypeOK'
    OBVIOUS
  <1>1. PolicyTypes /\ topChargeIdle' \in Machine /\ highSoCStage' \in Stages
    BY TypeOfDischarge DEF NuclearRestart, EnableOutputs
  <1>2. pending' \in PendingEcho /\ published' \in Payload /\ sent' \in WriteAges
    BY PendingType, CommandPayloads, PublishType DEF NuclearRestart, EnableOutputs
  <1>3. escalation' \in Escalation
    <2>1. \A e \in Escalation : [e EXCEPT !.restartAge = 0] \in Escalation
      BY DEF Escalation, Age
    <2>2. CASE NuclearRestart(ok)
      BY <2>1, <2>2, LadderType DEF NuclearRestart
    <2>3. CASE EnableOutputs(ok)
      <3> DEFINE tried == noteBlockedCycle.enableAttempted
                          \/ WasHandled(PendingAuthority, OutputEnablePayload, "zero", ok)
      <3>1. escalation' = [noteBlockedCycle EXCEPT !.enableAttempted = tried]
        BY <2>3 DEF EnableOutputs
      <3>2. tried \in BOOLEAN
        BY LadderType DEF Escalation, WasHandled
      <3> HIDE DEF tried
      <3> QED
        BY <3>1, <3>2, LadderType
    <2> QED
      BY <2>2, <2>3
  <1>4. rearm' \in Rearm
    BY LadderType DEF NuclearRestart, EnableOutputs
  <1>5. ready' \in BOOLEAN
    BY DEF NuclearRestart, EnableOutputs
  <1> QED
    BY <1>1, <1>2, <1>3, <1>4, <1>5
    DEF NuclearRestart, EnableOutputs, PolicyTypes, TypeOK

(* Normal control. *)
LEMMA TypeControl ==
  ASSUME NEW ok \in BOOLEAN
  PROVE  TypeOK /\ (SuppressOrReassert(ok) \/ PublishCommand(ok)) => TypeOK'
  <1> SUFFICES ASSUME TypeOK, SuppressOrReassert(ok) \/ PublishCommand(ok) PROVE TypeOK'
    OBVIOUS
  <1>1. PolicyTypes /\ topChargeIdle' \in Machine /\ highSoCStage' \in Stages
    BY TypeOfDischarge DEF SuppressOrReassert, PublishCommand, NormalControl
  <1>2. escalation' \in Escalation /\ rearm' \in Rearm
    BY LadderType DEF SuppressOrReassert, PublishCommand, NormalControl
  <1>3. ready' \in BOOLEAN
    BY DEF SuppressOrReassert, PublishCommand
  <1>4. Ramped \in CommandRange /\ Ramped \in Int
    BY PolicyType, CommandType
  <1>5. pending' \in PendingEcho /\ published' \in Payload /\ sent' \in WriteAges
    <2>1. CASE SuppressOrReassert(ok)
      <3>1. lastCommandWatts \in Int
        BY CommandType DEF TypeOK
      <3> QED
        BY <2>1, <3>1, PendingType, EnsureType DEF SuppressOrReassert
    <2>2. CASE PublishCommand(ok)
      <3>1. buildSlotPayload(St, desiredControlledSlot(Ramped), PersistToFlash) \in Payload
        BY <1>4, ControllerAssumption, PolicyType, SlotPayload, DesiredSlotType
      <3> QED
        BY <2>2, <3>1, PendingType, PublishType DEF PublishCommand
    <2> QED
      BY <2>1, <2>2
  <1>6. lastCommandWatts' \in CommandRange /\ lastCommandAge' \in Age
    <2>1. CASE SuppressOrReassert(ok)
      BY <2>1 DEF SuppressOrReassert, TypeOK, Age
    <2>2. CASE PublishCommand(ok)
      BY <2>2, <1>4, CommandRecorded DEF PublishCommand
    <2> QED
      BY <2>1, <2>2
  <1> QED
    BY <1>1, <1>2, <1>3, <1>5, <1>6 DEF PolicyTypes, TypeOK

(* A step of the loop whose publisher may take or refuse any write, which  *)
(* Next allows only with "publish" among Faults.                           *)
LoopNext ==
    \/ Tick \/ Receive \/ ReadCached \/ ReadPolled \/ StatusFreeze \/ RearmWait
    \/ \E ok \in BOOLEAN : PrometheusDown(ok) \/ StatusHardFail(ok) \/ Decide(ok)

(* Every step of the loop is one of these. *)
LEMMA NextIsLoop == [Next]_vars => [LoopNext]_vars
  BY DEF Next, Step, Acks, LoopNext

(* Every step keeps the types. *)
LEMMA TypeNext == TypeOK /\ [LoopNext]_vars => TypeOK'
  <1> SUFFICES ASSUME TypeOK, [LoopNext]_vars PROVE TypeOK'
    OBVIOUS
  <1>1. CASE Tick
    BY <1>1, TypeTick
  <1>2. CASE Receive
    BY <1>2, TypeReceive
  <1>3. CASE ReadCached \/ ReadPolled
    BY <1>3, TypeRead
  <1>4. CASE StatusFreeze
    BY <1>4 DEF StatusFreeze, readVars, historyVars, TypeOK
  <1>5. CASE RearmWait
    BY <1>5, TypeRearm
  <1>6. ASSUME NEW ok \in BOOLEAN, PrometheusDown(ok) \/ StatusHardFail(ok)
        PROVE  TypeOK'
    BY <1>6, TypeFallback DEF PrometheusDown, StatusHardFail
  <1>7. ASSUME NEW ok \in BOOLEAN, Decide(ok)
        PROVE  TypeOK'
    BY <1>7, TypeAuthority, TypeIdle, TypeRearm, TypeEscalate, TypeControl DEF Decide
  <1>8. CASE UNCHANGED vars
    BY <1>8 DEF vars, readVars, historyVars, TypeOK
  <1> QED
    BY <1>1, <1>2, <1>3, <1>4, <1>5, <1>6, <1>7, <1>8 DEF LoopNext

(* Every reachable state is well typed; in particular the command the      *)
(* controller remembers is 0 or within MIN_OUTPUT_WATTS..MAX_OUTPUT_WATTS  *)
(* through every ramp, re-assert, re-arm and fallback.                     *)
THEOREM TypeCorrect == Spec => []TypeOK
  BY TypeInit, TypeNext, NextIsLoop, PTL DEF Spec

-----------------------------------------------------------------------------
(* What a step does to the command and to the schedule on the device.      *)

(* A step leaves both alone, ... *)
Keeps ==
    /\ published' = published /\ sent'.write = sent.write
    /\ lastCommandWatts' = lastCommandWatts /\ lastCommandAge' = lastCommandAge

(* ... notes that the device is idle already, ... *)
GoesIdle ==
    /\ published' = published /\ sent'.write = sent.write
    /\ lastCommandWatts' = 0 /\ lastCommandAge' = lastCommandAge

(* ... or writes the schedule and records the command it wrote. *)
Writes(watts) ==
    /\ published'.slot = desiredControlledSlot(watts)
    /\ hasLastStatus => published'.others = lastStatus.others
    /\ sent'.write = 0
    /\ lastCommandWatts' = watts /\ lastCommandAge' = 0

(* The status a decision works with is the last one read and the newest    *)
(* received, and its SoC is above the floor unless the latch says          *)
(* otherwise.                                                              *)
CycleInv ==
    cycle.on => /\ hasLastStatus /\ lastStatus = St /\ source = St
                /\ ~socFloorActive => St.soc > softFloor(St)

(* The steps a decision or a fallback may be: a command other than 0 is    *)
(* written only while discharging is allowed, ends a re-arm, and is higher *)
(* than the last one only after the hold time or to complete a re-arm.     *)
StepEffect ==
    \/ Keeps /\ (rearm' = rearm \/ ~rearm'.pending)
    \/ GoesIdle /\ (rearm' = rearm \/ ~rearm'.pending)
    \/ Writes(0) /\ (rearm' = rearm \/ ~rearm'.pending \/ rearm'.startedAge = 0)
    \/ \E watts \in CommandRange :
          /\ Writes(watts) /\ ~rearm'.pending
          /\ Discharge
          /\ \/ RearmCompletes
             \/ Elapsed(lastCommandAge, MinHoldTime)
             \/ watts <= lastCommandWatts

(* The disabled slot is what a command of 0 asks for. *)
LEMMA DisabledIsZero == desiredControlledSlot(0) = disabledControlledSlot
  <1>1. ~(0 < 0) /\ (0 > 0) = FALSE
    OBVIOUS
  <1>2. (IF 0 < 0 THEN 0 ELSE 0) = 0
    OBVIOUS
  <1>3. desiredControlledSlot(0) = [enabled |-> 0 > 0, window |-> CfgWindow, watts |-> 0]
    BY <1>2, Zenon DEF desiredControlledSlot
  <1> QED
    BY <1>1, <1>3, Zenon DEF disabledControlledSlot

(* A command of another kind leaves the schedule alone. *)
LEMMA OtherPayload ==
  ASSUME TypeOK, NEW p, NEW payload \in Payload, NEW observed, NEW kind, NEW ok \in BOOLEAN,
         payload.kind # "slots",
         \/ Publish(p, payload, observed, kind, ok)
         \/ publishAuthorityPayload(p, payload, observed, kind, ok)
  PROVE  published' = published /\ sent'.write = sent.write
  <1>1. CASE Accepted(payload, observed, kind)
    BY <1>1 DEF Accepted, TypeOK, WriteAges
  <1>2. CASE NotAccepted(p)
    BY <1>2 DEF NotAccepted, historyVars
  <1> QED
    BY <1>1, <1>2 DEF Publish, publishAuthorityPayload

(* A schedule write replaces the schedule if it was published, and only    *)
(* then.                                                                   *)
LEMMA ScheduleWrite ==
  ASSUME TypeOK, NEW p, NEW payload \in Payload, NEW observed, NEW kind, NEW ok \in BOOLEAN,
         payload.kind = "slots", Publish(p, payload, observed, kind, ok)
  PROVE  /\ ok => published' = payload /\ sent'.write = 0
         /\ ~ok => published' = published /\ sent' = sent
  BY DEF Publish, Accepted, NotAccepted, historyVars, TypeOK, WriteAges

(* ensureControlledSlot writes the desired slot or changes nothing. *)
LEMMA EnsureEffect ==
  ASSUME TypeOK, NEW p, NEW watts \in Int, NEW ok \in BOOLEAN,
         ensureControlledSlot(p, watts, ok)
  PROVE  /\ SlotPublished(p, watts, ok) => /\ published'.slot = desiredControlledSlot(watts)
                                           /\ published'.others = St.others
                                           /\ sent'.write = 0
         /\ ~SlotPublished(p, watts, ok) => published' = published /\ sent' = sent
  <1> DEFINE payload == EnsurePayload(cycle.st, watts)
  <1>1. /\ payload \in Payload /\ payload.kind = "slots"
        /\ payload.slot = desiredControlledSlot(watts) /\ payload.others = St.others
    BY PolicyType, DesiredSlotType, SlotPayload DEF EnsurePayload, St
  <1>2. CASE SlotMatches(cycle.st, watts)
    BY <1>2 DEF ensureControlledSlot, NotAccepted, historyVars, SlotPublished
  <1>3. CASE ~SlotMatches(cycle.st, watts)
    <2>1. WasPublished(p, payload, cycle.obs, ok) \in BOOLEAN
      BY DEF WasPublished
    <2> QED
      BY <1>1, <1>3, <2>1, ScheduleWrite
      DEF ensureControlledSlot, publishAuthorityPayload, SlotPublished
  <1> QED
    BY <1>2, <1>3

(* commandIdle. *)
LEMMA IdleEffect ==
  ASSUME TypeOK, CycleInv, cycle.on, NEW p, NEW ok \in BOOLEAN, commandIdle(p, ok)
  PROVE  Keeps \/ GoesIdle \/ Writes(0)
  <1>1. ensureControlledSlot(p, 0, ok)
    BY DEF commandIdle
  <1>2. CASE SlotPublished(p, 0, ok)
    BY <1>1, <1>2, EnsureEffect
    DEF commandIdle, recordCommandedWatts, Writes, CycleInv
  <1>3. CASE ~SlotPublished(p, 0, ok)
    BY <1>1, <1>3, EnsureEffect
    DEF commandIdle, noteIdleWithoutPublish, Keeps, GoesIdle
  <1> QED
    BY <1>2, <1>3

(* fallback. *)
LEMMA FallbackEffect ==
  ASSUME TypeOK, NEW ok \in BOOLEAN, fallback(ok)
  PROVE  StepEffect
  <1> DEFINE base == IF hasLastStatus THEN lastStatus ELSE ZeroStatus
             payload == buildSlotPayload(base, disabledControlledSlot, FALSE)
  <1>1. base \in Status
    BY ZeroStatusType DEF TypeOK
  <1>2. /\ payload \in Payload /\ payload.kind = "slots"
        /\ payload.slot = desiredControlledSlot(0) /\ payload.others = base.others
    BY <1>1, SlotPayload, DisabledSlotType, DisabledIsZero
  <1>3. rearm' = rearm
    BY DEF fallback
  <1>4. Keeps \/ GoesIdle \/ Writes(0)
    <2>1. CASE CurrentSlot(base) = disabledControlledSlot
      BY <2>1 DEF fallback, NotAccepted, historyVars, noteIdleWithoutPublish, GoesIdle
    <2>2. CASE CurrentSlot(base) # disabledControlledSlot
      <3>1. Publish(pending, payload, "zero", "fallback", ok)
        BY <2>2 DEF fallback
      <3>2. IF ok THEN recordCommandedWatts(0) ELSE UNCHANGED <<lastCommandWatts, lastCommandAge>>
        BY <2>2 DEF fallback
      <3> HIDE DEF payload
      <3>3. /\ ok => published' = payload /\ sent'.write = 0
            /\ ~ok => published' = published /\ sent' = sent
        BY <3>1, <1>2, ScheduleWrite
      <3>4. payload.others = base.others
        BY <1>2
      <3> QED
        BY <3>2, <3>3, <3>4, <1>2 DEF recordCommandedWatts, Keeps, Writes
    <2> QED
      BY <2>1, <2>2
  <1> QED
    BY <1>3, <1>4 DEF StepEffect

(* The authority phase never touches the schedule. *)
LEMMA AuthorityEffect ==
  ASSUME TypeOK, NEW ok \in BOOLEAN, RemediateChargingMode(ok) \/ RemediateSurplus(ok)
  PROVE  Keeps /\ rearm' = rearm
  BY CommandPayloads, OtherPayload DEF RemediateChargingMode, RemediateSurplus, Keeps

(* A record whose pending flag was cleared has it cleared. *)
LEMMA RearmCleared ==
  TypeOK => ~clearStuckOutputRearm.pending
  BY DEF TypeOK, clearStuckOutputRearm, Rearm

(* The ladder. *)
LEMMA LadderEffect ==
  ASSUME TypeOK, CycleInv, NEW ok \in BOOLEAN,
         \/ RearmWait \/ RearmComplete(ok) \/ RearmStart(ok)
         \/ NuclearRestart(ok) \/ EnableOutputs(ok)
  PROVE  StepEffect
  <1>1. cycle.on
    BY DEF RearmWait, RearmComplete, RearmStart, NuclearRestart, EnableOutputs,
           Discharge, PolicyAboveFloor, Policy
  <1>2. St.others = lastStatus.others /\ St \in Status
    BY <1>1, PolicyType DEF CycleInv
  <1>3. CASE RearmWait
    BY <1>3 DEF RearmWait, NotAccepted, historyVars, Keeps, StepEffect
  <1>4. CASE RearmComplete(ok)
    <2> DEFINE payload == buildSlotPayload(St, desiredControlledSlot(RawTarget), FALSE)
               done == WasPublished(PendingAuthority, payload, "zero", ok)
    <2>1. /\ payload \in Payload /\ payload.kind = "slots"
          /\ payload.slot = desiredControlledSlot(RawTarget)
          /\ payload.others = lastStatus.others
      <3>1. desiredControlledSlot(RawTarget) \in Slot
        BY PolicyType, CommandType, DesiredSlotType
      <3> QED
        BY <1>2, <3>1, SlotPayload
    <2>2. /\ Publish(PendingAuthority, payload, "zero", "stuck_output_rearm", done)
          /\ IF done THEN rearm' = clearStuckOutputRearm /\ recordCommandedWatts(RawTarget)
                     ELSE UNCHANGED <<rearm, lastCommandWatts, lastCommandAge>>
          /\ RearmCompletes /\ Discharge /\ done \in BOOLEAN
      BY <1>4 DEF RearmComplete, publishAuthorityPayload, RearmCompletes, WasPublished
    <2> HIDE DEF payload, done
    <2>3. /\ done => published' = payload /\ sent'.write = 0
          /\ ~done => published' = published /\ sent' = sent
      BY <2>1, <2>2, ScheduleWrite
    <2>4. CASE done
      <3>1. Writes(RawTarget) /\ ~rearm'.pending
        BY <2>1, <2>2, <2>3, <2>4, RearmCleared DEF Writes, recordCommandedWatts
      <3> QED
        BY <3>1, <2>2, PolicyType DEF StepEffect
    <2>5. CASE ~done
      BY <2>2, <2>3, <2>5 DEF StepEffect, Keeps
    <2> QED
      BY <2>4, <2>5
  <1>5. CASE RearmStart(ok)
    <2> DEFINE payload == buildSlotPayload(St, disabledControlledSlot, FALSE)
               done == WasPublished(PendingAuthority, payload, "zero", ok)
    <2>1. /\ payload \in Payload /\ payload.kind = "slots"
          /\ payload.slot = desiredControlledSlot(0)
          /\ payload.others = lastStatus.others
      BY <1>2, DisabledSlotType, DisabledIsZero, SlotPayload
    <2>2. /\ Publish(PendingAuthority, payload, "zero", "stuck_output_rearm", done)
          /\ IF done THEN /\ rearm' = [pending |-> TRUE, startedAge |-> 0, lastAge |-> 0]
                          /\ recordCommandedWatts(0)
                     ELSE /\ rearm' = clearStuckOutputRearm
                          /\ UNCHANGED <<lastCommandWatts, lastCommandAge>>
          /\ done \in BOOLEAN
      BY <1>5 DEF RearmStart, publishAuthorityPayload, WasPublished
    <2> HIDE DEF payload, done
    <2>3. /\ done => published' = payload /\ sent'.write = 0
          /\ ~done => published' = published /\ sent' = sent
      BY <2>1, <2>2, ScheduleWrite
    <2>4. CASE done
      <3>1. Writes(0) /\ rearm'.startedAge = 0
        BY <2>1, <2>2, <2>3, <2>4 DEF Writes, recordCommandedWatts
      <3> QED
        BY <3>1 DEF StepEffect
    <2>5. CASE ~done
      BY <2>2, <2>3, <2>5, RearmCleared DEF StepEffect, Keeps
    <2> QED
      BY <2>4, <2>5
  <1>6. CASE NuclearRestart(ok) \/ EnableOutputs(ok)
    <2>1. published' = published /\ sent'.write = sent.write
      BY <1>6, CommandPayloads, OtherPayload DEF NuclearRestart, EnableOutputs
    <2> QED
      BY <1>6, <2>1, RearmCleared DEF NuclearRestart, EnableOutputs, Keeps, StepEffect
  <1> QED
    BY <1>3, <1>4, <1>5, <1>6

(* Normal control. *)
LEMMA ControlEffect ==
  ASSUME TypeOK, CycleInv, NEW ok \in BOOLEAN, SuppressOrReassert(ok) \/ PublishCommand(ok)
  PROVE  StepEffect
  <1>1. cycle.on /\ Discharge
    BY DEF SuppressOrReassert, PublishCommand, NormalControl, Discharge, PolicyAboveFloor, Policy
  <1>2. St.others = lastStatus.others /\ St \in Status
    BY <1>1, PolicyType DEF CycleInv
  <1>3. ~rearm'.pending
    BY RearmCleared DEF SuppressOrReassert, PublishCommand, NormalControl
  <1>4. CASE SuppressOrReassert(ok)
    <2>1. lastCommandWatts \in CommandRange /\ lastCommandWatts \in Int
      BY CommandType DEF TypeOK
    <2>2. ensureControlledSlot(PendingControl, lastCommandWatts, ok)
      BY <1>4 DEF SuppressOrReassert
    <2>3. CASE SlotPublished(PendingControl, lastCommandWatts, ok)
      <3>1. Writes(lastCommandWatts)
        BY <1>2, <1>4, <2>1, <2>2, <2>3, EnsureEffect DEF SuppressOrReassert, Writes
      <3>2. lastCommandWatts <= lastCommandWatts
        BY <2>1
      <3> QED
        BY <1>1, <1>3, <2>1, <3>1, <3>2 DEF StepEffect
    <2>4. CASE ~SlotPublished(PendingControl, lastCommandWatts, ok)
      BY <1>3, <1>4, <2>1, <2>2, <2>4, EnsureEffect DEF SuppressOrReassert, Keeps, StepEffect
    <2> QED
      BY <2>3, <2>4
  <1>5. CASE PublishCommand(ok)
    <2> DEFINE payload == buildSlotPayload(St, desiredControlledSlot(Ramped), PersistToFlash)
    <2>1. Ramped \in CommandRange /\ Ramped \in Int /\ lastCommandWatts \in Int
      BY PolicyType, CommandType DEF TypeOK
    <2>2. /\ payload \in Payload /\ payload.kind = "slots"
          /\ payload.slot = desiredControlledSlot(Ramped)
          /\ payload.others = lastStatus.others
      BY <1>2, <2>1, ControllerAssumption, DesiredSlotType, SlotPayload
    <2>3. /\ Publish(PendingControl, payload, cycle.obs, "control", ok)
          /\ IF ok THEN recordCommandedWatts(Ramped)
                   ELSE UNCHANGED <<lastCommandWatts, lastCommandAge>>
          /\ ~HoldSuppressed
      BY <1>5 DEF PublishCommand
    <2> HIDE DEF payload
    <2>4. /\ ok => published' = payload /\ sent'.write = 0
          /\ ~ok => published' = published /\ sent' = sent
      BY <2>2, <2>3, ScheduleWrite
    <2>5. Elapsed(lastCommandAge, MinHoldTime) \/ Ramped <= lastCommandWatts
      <3>1. ~HoldSuppressed
        BY <2>3
      <3>2. Elapsed(lastCommandAge, MinHoldTime) \/ Ramped < lastCommandWatts
        BY <3>1 DEF HoldSuppressed
      <3> HIDE DEF Elapsed
      <3> QED
        BY <3>2, <2>1
    <2>6. CASE ok
      <3>1. Writes(Ramped)
        BY <2>2, <2>3, <2>4, <2>6 DEF Writes, recordCommandedWatts
      <3> QED
        BY <1>1, <1>3, <2>1, <2>5, <3>1 DEF StepEffect
    <2>7. CASE ~ok
      BY <1>3, <2>3, <2>4, <2>7 DEF StepEffect, Keeps
    <2> QED
      BY <2>6, <2>7
  <1> QED
    BY <1>4, <1>5

(* Every step is a tick or an arriving status, a read, a step that changes *)
(* nothing, or has one of the four effects.                                *)
LEMMA NextEffect ==
  ASSUME TypeOK, CycleInv, LoopNext
  PROVE  Tick \/ Receive \/ ReadCached \/ ReadPolled \/ StatusFreeze \/ StepEffect
  <1>1. ASSUME NEW ok \in BOOLEAN, PrometheusDown(ok) \/ StatusHardFail(ok)
        PROVE  StepEffect
    BY <1>1, FallbackEffect DEF PrometheusDown, StatusHardFail
  <1>2. CASE RearmWait
    BY <1>2, LadderEffect
  <1>3. ASSUME NEW ok \in BOOLEAN, Decide(ok)
        PROVE  StepEffect
    <2>1. CASE RemediateChargingMode(ok) \/ RemediateSurplus(ok)
      BY <2>1, AuthorityEffect DEF StepEffect
    <2>2. CASE SoCFloorIdle(ok) \/ TopChargeIdling(ok)
      <3>1. cycle.on /\ rearm' = rearm /\ commandIdle(PendingAuthority, ok)
        BY <2>2 DEF SoCFloorIdle, TopChargeIdling, PolicyAboveFloor, Policy
      <3> QED
        BY <3>1, IdleEffect DEF StepEffect
    <2>3. CASE RearmComplete(ok) \/ RearmStart(ok) \/ NuclearRestart(ok) \/ EnableOutputs(ok)
      BY <2>3, LadderEffect
    <2>4. CASE SuppressOrReassert(ok) \/ PublishCommand(ok)
      BY <2>4, ControlEffect
    <2> QED
      BY <1>3, <2>1, <2>2, <2>3, <2>4 DEF Decide
  <1> QED
    BY <1>1, <1>2, <1>3 DEF LoopNext

-----------------------------------------------------------------------------
(* The inductive invariant of the command and the schedule. *)

CommandInv ==
    /\ CycleInv
    /\ CommandIsOnTheWire
    /\ WritesUnclamped
    /\ published.slot.watts >= 0
    /\ HoldClockIsLastWrite
    /\ RearmIsStopped

(* The command invariant holds before the first Step. *)
LEMMA CommandInit == Init => CommandInv
  <1> SUFFICES ASSUME Init PROVE CommandInv
    OBVIOUS
  <1>1. CycleInv
    BY DEF Init, NoCycle, CycleInv
  <1>2. published.slot.enabled = FALSE /\ published.slot.watts = 0
    BY DEF Init, NoWrite, BuildTimedDischargePayload, NoSlot
  <1>3. lastCommandWatts = 0 /\ lastCommandAge = sent.write /\ ~rearm.pending
    BY DEF Init
  <1> QED
    BY <1>1, <1>2, <1>3
    DEF CommandInv, CommandIsOnTheWire, WritesUnclamped, HoldClockIsLastWrite, RearmIsStopped

(* What a command asks for. *)
LEMMA DesiredSlot ==
  ASSUME NEW watts \in CommandRange
  PROVE  /\ desiredControlledSlot(watts).watts = watts
         /\ watts \in Nat
         /\ desiredControlledSlot(watts).enabled => watts \in MinOutputWatts..MaxOutputWatts
         /\ desiredControlledSlot(watts).enabled <=> watts # 0
  <1>1. watts \in Nat /\ (watts # 0 => watts \in MinOutputWatts..MaxOutputWatts)
    BY CommandType DEF CommandRange
  <1>2. (IF watts < 0 THEN 0 ELSE watts) = watts
    BY <1>1
  <1>3. desiredControlledSlot(watts) = [enabled |-> watts > 0, window |-> CfgWindow, watts |-> watts]
    BY <1>2, Zenon DEF desiredControlledSlot
  <1>4. /\ desiredControlledSlot(watts).watts = watts
        /\ desiredControlledSlot(watts).enabled = (watts > 0)
    BY <1>3
  <1>5. watts > 0 <=> watts # 0
    BY <1>1
  <1> QED
    BY <1>1, <1>4, <1>5

(* The invariant survives each of the four effects. *)
LEMMA EffectInv ==
  ASSUME TypeOK, TypeOK', CommandInv, CycleInv', StepEffect
  PROVE  CommandInv'
  <1>1. lastCommandWatts \in CommandRange
    BY DEF TypeOK
  <1>2. CASE Keeps /\ (rearm' = rearm \/ ~rearm'.pending)
    BY <1>2 DEF Keeps, CommandInv, CommandIsOnTheWire, WritesUnclamped,
                HoldClockIsLastWrite, RearmIsStopped
  <1>3. CASE GoesIdle /\ (rearm' = rearm \/ ~rearm'.pending)
    BY <1>3 DEF GoesIdle, CommandInv, CommandIsOnTheWire, WritesUnclamped,
                HoldClockIsLastWrite, RearmIsStopped
  <1>4. ASSUME NEW watts \in CommandRange, Writes(watts),
               \/ ~rearm'.pending
               \/ watts = 0 /\ (rearm' = rearm \/ rearm'.startedAge = 0)
        PROVE  CommandInv'
    <2>1. /\ published'.slot.watts = watts /\ watts \in Nat
          /\ published'.slot.enabled => watts \in MinOutputWatts..MaxOutputWatts
          /\ watts = 0 => ~published'.slot.enabled
      BY <1>4, DesiredSlot DEF Writes
    <2>2. lastCommandWatts' = watts /\ lastCommandAge' = sent'.write
      BY <1>4 DEF Writes
    <2>3. CommandIsOnTheWire'
      BY <1>4, <2>2 DEF Writes, CommandIsOnTheWire
    <2>4. WritesUnclamped' /\ published'.slot.watts >= 0
      BY <2>1 DEF WritesUnclamped
    <2>5. HoldClockIsLastWrite'
      BY <2>2 DEF HoldClockIsLastWrite
    <2>6. rearm'.pending => rearm'.startedAge # Never
      BY <1>4 DEF CommandInv, RearmIsStopped, Never
    <2>7. RearmIsStopped'
      BY <1>4, <2>1, <2>2, <2>6 DEF RearmIsStopped
    <2> QED
      BY <2>3, <2>4, <2>5, <2>7 DEF CommandInv
  <1>5. 0 \in CommandRange
    BY DEF CommandRange
  <1> QED
    BY <1>2, <1>3, <1>4, <1>5 DEF StepEffect

(* The latch: above the floor unless it is set. *)
LEMMA FloorLatch ==
  ASSUME NEW active \in BOOLEAN, NEW st \in Status, ~updateSoCFloor(active, st)
  PROVE  st.soc > softFloor(st)
  <1>1. st.soc \in Int /\ softFloor(st) \in Int
    BY ControlLawAssumption DEF softFloor, Status
  <1>2. ~(st.soc <= softFloor(st))
    BY DEF updateSoCFloor
  <1> QED
    BY <1>1, <1>2

(* What a Step has read agrees with the cached status and with the soft-   *)
(* floor latch until the Step ends.                                        *)
LEMMA CycleNext ==
  ASSUME TypeOK, CycleInv, [LoopNext]_vars
  PROVE  CycleInv'
  <1>1. ASSUME NEW st \in Status, NEW obs, Read(st, obs), source' = st
        PROVE  CycleInv'
    <2>1. cycle'.st = st /\ lastStatus' = st /\ hasLastStatus'
      BY <1>1 DEF Read
    <2>2. ~socFloorActive' => st.soc > softFloor(st)
      BY <1>1, FloorLatch DEF Read, TypeOK
    <2> QED
      BY <1>1, <2>1, <2>2 DEF CycleInv, St
  <1>2. CASE ReadCached
    BY <1>1, <1>2 DEF ReadCached, TypeOK
  <1>3. CASE ReadPolled
    BY <1>1, <1>3, ControllerAssumption DEF ReadPolled
  <1>4. ASSUME NEW ok \in BOOLEAN, PrometheusDown(ok) \/ StatusHardFail(ok)
        PROVE  CycleInv'
    BY <1>4 DEF PrometheusDown, StatusHardFail, fallback, readVars, CycleInv, St
  <1>5. ASSUME NEW ok \in BOOLEAN, Decide(ok) \/ RearmWait
        PROVE  CycleInv'
    <2>1. cycle' = NoCycle
      BY <1>5 DEF Decide, RearmWait, RemediateChargingMode, RemediateSurplus, SoCFloorIdle,
                  TopChargeIdling, RearmComplete, RearmStart, NuclearRestart, EnableOutputs,
                  SuppressOrReassert, PublishCommand, NormalControl, Discharge,
                  PolicyAboveFloor, Policy, EndCycle
    <2> QED
      BY <2>1 DEF CycleInv, NoCycle
  <1>6. CASE Tick \/ Receive
    BY <1>6 DEF Tick, Receive, CycleInv
  <1>7. CASE StatusFreeze \/ UNCHANGED vars
    BY <1>7 DEF StatusFreeze, vars, readVars, CycleInv, St
  <1> QED
    BY <1>2, <1>3, <1>4, <1>5, <1>6, <1>7 DEF LoopNext

(* Every step keeps the command invariant: time ages both clocks alike,    *)
(* and a decision has one of the effects of StepEffect.                    *)
LEMMA CommandNext ==
  ASSUME TypeOK, TypeOK', CommandInv, [LoopNext]_vars
  PROVE  CommandInv'
  <1>1. CycleInv'
    BY CycleNext DEF CommandInv
  <1>2. CASE Tick
    <2>1. sent'.write = Older(sent.write, MinHoldTime)
      BY <1>2 DEF Tick
    <2>2. /\ lastCommandAge' = Older(lastCommandAge, MinHoldTime)
          /\ UNCHANGED <<lastCommandWatts, published>>
      BY <1>2 DEF Tick
    <2>3. HoldClockIsLastWrite'
      BY <2>1, <2>2 DEF CommandInv, HoldClockIsLastWrite
    <2>4. /\ rearm'.pending = rearm.pending
          /\ rearm'.startedAge = Older(rearm.startedAge, ControlInterval)
      BY <1>2 DEF Tick, TypeOK, Rearm
    <2>5. rearm.startedAge \in Age
      BY DEF TypeOK, Rearm
    <2>6. RearmIsStopped'
      BY <2>2, <2>4, <2>5, OlderType DEF CommandInv, RearmIsStopped
    <2> QED
      BY <1>1, <2>2, <2>3, <2>6 DEF CommandInv, CommandIsOnTheWire, WritesUnclamped
  <1>3. CASE Receive \/ ReadCached \/ ReadPolled \/ StatusFreeze \/ UNCHANGED vars
    <2>1. UNCHANGED <<lastCommandWatts, lastCommandAge, rearm, published, sent>>
      BY <1>3 DEF Receive, ReadCached, ReadPolled, Read, StatusFreeze, vars, historyVars
    <2> QED
      BY <1>1, <2>1 DEF CommandInv, CommandIsOnTheWire, WritesUnclamped,
                        HoldClockIsLastWrite, RearmIsStopped
  <1>4. CASE StepEffect
    BY <1>1, <1>4, EffectInv
  <1> QED
    BY <1>2, <1>3, <1>4, NextEffect DEF CommandInv

(* The remembered command is on the device's control topic, within the     *)
(* limits, its age is the age of the last schedule write, and a pending    *)
(* re-arm has stopped the device.                                          *)
THEOREM CommandCorrect ==
  Spec => [](CommandIsOnTheWire /\ WritesUnclamped /\ HoldClockIsLastWrite /\ RearmIsStopped)
  <1>1. Init => TypeOK /\ CommandInv
    BY TypeInit, CommandInit
  <1>2. TypeOK /\ CommandInv /\ [LoopNext]_vars => (TypeOK /\ CommandInv)'
    BY TypeNext, CommandNext
  <1>3. TypeOK /\ CommandInv =>
          CommandIsOnTheWire /\ WritesUnclamped /\ HoldClockIsLastWrite /\ RearmIsStopped
    BY DEF CommandInv
  <1> QED
    BY <1>1, <1>2, <1>3, NextIsLoop, PTL DEF Spec

-----------------------------------------------------------------------------
(* Action properties of the schedule writes. *)

(* Only the four effects write the schedule. *)
LEMMA WritesAreEffects ==
  ASSUME TypeOK, CommandInv, [LoopNext]_vars, WroteSlots
  PROVE  /\ StepEffect
         /\ ~Keeps /\ ~GoesIdle
  <1>1. ~Keeps /\ ~GoesIdle
    BY DEF WroteSlots, Keeps, GoesIdle
  <1>2. ~Tick
    <2> SUFFICES ASSUME Tick PROVE FALSE
      OBVIOUS
    <2>1. sent'.write = Older(sent.write, MinHoldTime) /\ sent.write \in Age
      BY DEF Tick, TypeOK, WriteAges
    <2> QED
      BY <2>1, OlderType DEF WroteSlots
  <1>3. ~(Receive \/ ReadCached \/ ReadPolled \/ StatusFreeze \/ UNCHANGED vars)
    BY DEF Receive, ReadCached, ReadPolled, Read, StatusFreeze, vars, historyVars, WroteSlots
  <1> QED
    BY <1>1, <1>2, <1>3, NextEffect DEF CommandInv

(* A schedule write either stops the device or is an allowed discharge. *)
LEMMA WriteCases ==
  ASSUME TypeOK, CommandInv, [LoopNext]_vars, WroteSlots
  PROVE  \/ Writes(0)
         \/ \E watts \in CommandRange :
               /\ Writes(watts) /\ Discharge
               /\ \/ RearmCompletes
                  \/ Elapsed(lastCommandAge, MinHoldTime)
                  \/ watts <= lastCommandWatts
  BY WritesAreEffects DEF StepEffect

(* A stop is a command. *)
LEMMA ZeroCommand == 0 \in CommandRange
  BY DEF CommandRange

(* A step that writes more watts than the last write waited out the hold   *)
(* time or completes a re-arm.                                             *)
LEMMA RaiseStep ==
  ASSUME TypeOK, CommandInv, [LoopNext]_vars, WroteSlots,
         published'.slot.watts > published.slot.watts
  PROVE  RearmCompletes \/ Elapsed(sent.write, MinHoldTime)
  <1>1. published.slot.watts >= 0 /\ published.slot.watts \in Int
    BY DEF CommandInv, TypeOK, Payload, Slot
  <1>2. ~Writes(0)
    <2> SUFFICES ASSUME Writes(0) PROVE FALSE
      OBVIOUS
    <2>1. published'.slot.watts = 0
      BY ZeroCommand, DesiredSlot DEF Writes
    <2> QED
      BY <1>1, <2>1
  <1>3. PICK watts \in CommandRange :
          /\ Writes(watts)
          /\ \/ RearmCompletes
             \/ Elapsed(lastCommandAge, MinHoldTime)
             \/ watts <= lastCommandWatts
    BY <1>2, WriteCases
  <1>4. published'.slot.watts = watts /\ watts \in Nat
    BY <1>3, DesiredSlot DEF Writes
  <1>5. ~(watts <= lastCommandWatts)
    <2> SUFFICES ASSUME watts <= lastCommandWatts PROVE FALSE
      OBVIOUS
    <2>1. lastCommandWatts \in CommandRange /\ lastCommandWatts \in Nat
      BY CommandType DEF TypeOK
    <2>2. lastCommandWatts > 0
      BY <1>1, <1>4, <2>1
    <2>3. published.slot.watts = lastCommandWatts
      BY <2>1, <2>2, DesiredSlot DEF CommandInv, CommandIsOnTheWire
    <2> QED
      BY <1>4, <2>1, <2>3
  <1>6. lastCommandAge = sent.write
    BY DEF CommandInv, HoldClockIsLastWrite
  <1> QED
    BY <1>3, <1>5, <1>6

(* MIN_HOLD_TIME: nothing raises the discharge earlier, except the end of  *)
(* a re-arm; the pacing survives re-asserts, failed publishes and          *)
(* fallbacks.                                                              *)
THEOREM RaisesArePaced == Spec => RaiseRespectsHold
  <1>1. Init => TypeOK /\ CommandInv
    BY TypeInit, CommandInit
  <1>2. TypeOK /\ CommandInv /\ [LoopNext]_vars => (TypeOK /\ CommandInv)'
    BY TypeNext, CommandNext
  <1>3. TypeOK /\ CommandInv /\ [LoopNext]_vars =>
          [ WroteSlots /\ published'.slot.watts > published.slot.watts
            => RearmCompletes \/ Elapsed(sent.write, MinHoldTime) ]_vars
    BY RaiseStep
  <1> QED
    BY <1>1, <1>2, <1>3, NextIsLoop, PTL DEF Spec, RaiseRespectsHold

(* A step that writes an armed slot passed the soft floor, the charging    *)
(* mode and the idle regime.                                               *)
LEMMA DischargeStep ==
  ASSUME TypeOK, CommandInv, [LoopNext]_vars, Discharges
  PROVE  St.soc > softFloor(St) /\ St.cs = 0 /\ ~topChargeIdle'.active
  <1>1. ~Writes(0)
    BY ZeroCommand, DesiredSlot DEF Writes, Discharges
  <1>2. Discharge
    BY <1>1, WriteCases DEF Discharges
  <1>3. cycle.on /\ ~ChargingModeWrong /\ ~socFloorActive
    BY <1>2 DEF Discharge, PolicyAboveFloor, Policy
  <1>4. ~topChargeIdle'.active
    BY <1>2 DEF Discharge, PolicyAboveFloor
  <1> QED
    BY <1>3, <1>4 DEF CommandInv, CycleInv, ChargingModeWrong

(* No write arms the slot at or below the SoC floor, in a foreign charging *)
(* mode or in the top-charge regime: not to complete a re-arm, not to      *)
(* re-assert a command, not after any fallback.                            *)
THEOREM DischargesAreAllowed == Spec => DischargeIsAllowed
  <1>1. Init => TypeOK /\ CommandInv
    BY TypeInit, CommandInit
  <1>2. TypeOK /\ CommandInv /\ [LoopNext]_vars => (TypeOK /\ CommandInv)'
    BY TypeNext, CommandNext
  <1>3. TypeOK /\ CommandInv /\ [LoopNext]_vars =>
          [ Discharges => /\ St.soc > softFloor(St) /\ St.cs = 0
                          /\ ~topChargeIdle'.active ]_vars
    BY DischargeStep
  <1> QED
    BY <1>1, <1>2, <1>3, NextIsLoop, PTL DEF Spec, DischargeIsAllowed

(* A step that writes takes the other slots from the status it decides by, *)
(* which is the newest.                                                    *)
LEMMA OthersStep ==
  ASSUME TypeOK, CommandInv, [LoopNext]_vars, WroteSlots
  PROVE  /\ cycle.on => published'.others = source.others
         /\ hasLastStatus => published'.others = lastStatus.others
  <1>1. hasLastStatus => published'.others = lastStatus.others
    BY WriteCases DEF Writes
  <1> QED
    BY <1>1 DEF CommandInv, CycleInv

(* The user's other slots are written from the newest status received, and *)
(* by a fallback from the last one read.                                   *)
THEOREM OtherSlotsPreserved == Spec => SlotsPreserved
  <1>1. Init => TypeOK /\ CommandInv
    BY TypeInit, CommandInit
  <1>2. TypeOK /\ CommandInv /\ [LoopNext]_vars => (TypeOK /\ CommandInv)'
    BY TypeNext, CommandNext
  <1>3. TypeOK /\ CommandInv /\ [LoopNext]_vars =>
          [ WroteSlots => /\ cycle.on => published'.others = source.others
                          /\ hasLastStatus => published'.others = lastStatus.others ]_vars
    BY OthersStep
  <1> QED
    BY <1>1, <1>2, <1>3, NextIsLoop, PTL DEF Spec, SlotsPreserved

(* MIN_OUTPUT_WATTS and MAX_OUTPUT_WATTS bound every armed write.          *)
THEOREM WritesWithinLimits == Spec => []WritesUnclamped
  BY CommandCorrect, PTL

(* The hold time is measured from the last write of any path.              *)
THEOREM HoldClockCorrect == Spec => []HoldClockIsLastWrite
  BY CommandCorrect, PTL

(* Between the two cycles of a re-arm the device is stopped.               *)
THEOREM RearmStopsFirst == Spec => []RearmIsStopped
  BY CommandCorrect, PTL

-----------------------------------------------------------------------------
(* The loop implements the ledger. *)

(* The ledger starts with nothing ordered. *)
LEMMA LedgerInit == Init => Ledger!Init
  BY DEF Init, NoWrite, BuildTimedDischargePayload, NoSlot, Never, Ledger!Init, Ledger!Never

(* The ledger's clock is the controller's. *)
LEMMA LedgerHold ==
  /\ Ledger!HoldOver <=> Elapsed(sent.write, MinHoldTime)
  /\ Ledger!Never = Never
  BY DEF Ledger!HoldOver, Ledger!Never, Elapsed, Never

(* A write of the loop is one of the two writes of the ledger. *)
LEMMA LedgerWrite ==
  ASSUME TypeOK, TypeOK', CommandInv, NEW watts \in CommandRange, Writes(watts),
         \/ watts = 0
         \/ /\ ~rearm'.pending
            /\ rearm.pending \/ Elapsed(lastCommandAge, MinHoldTime) \/ watts <= lastCommandWatts
  PROVE  Ledger!Next
  <1>1. published'.slot.watts = watts /\ sent'.write = 0
    BY DesiredSlot DEF Writes
  <1>2. CASE watts = 0
    <2>1. rearm'.pending \in BOOLEAN
      BY Zenon DEF TypeOK, Rearm
    <2> QED
      BY <1>1, <1>2, <2>1 DEF Ledger!Stop, Ledger!Next
  <1>3. CASE watts # 0
    <2>1. watts \in MinOutputWatts..MaxOutputWatts /\ watts \in Nat
      BY <1>3, CommandType DEF CommandRange
    <2>2. lastCommandAge = sent.write
      BY DEF CommandInv, HoldClockIsLastWrite
    <2>3. watts <= lastCommandWatts => watts <= published.slot.watts
      <3>1. lastCommandWatts \in CommandRange /\ lastCommandWatts \in Nat
        BY CommandType DEF TypeOK
      <3>2. lastCommandWatts > 0 => published.slot.watts = lastCommandWatts
        BY <3>1, DesiredSlot DEF CommandInv, CommandIsOnTheWire
      <3> QED
        BY <1>3, <2>1, <3>1, <3>2
    <2>4. watts <= published.slot.watts \/ Ledger!HoldOver \/ rearm.pending
      BY <1>3, <2>2, <2>3, LedgerHold
    <2>5. rearm'.pending = FALSE
      BY <1>3, Zenon DEF TypeOK, Rearm
    <2>6. Ledger!Order(watts)
      BY <1>1, <2>4, <2>5 DEF Ledger!Order
    <2> QED
      BY <2>1, <2>6 DEF Ledger!Next
  <1> QED
    BY <1>2, <1>3

(* Every step of the loop is a step of the ledger, or none. *)
LEMMA LedgerStep ==
  ASSUME TypeOK, TypeOK', CommandInv, [LoopNext]_vars
  PROVE  [Ledger!Next]_(Ledger!ledgerVars)
  <1>1. CASE Tick
    <2>1. /\ sent'.write = Older(sent.write, MinHoldTime)
          /\ published' = published /\ rearm'.pending = rearm.pending
      BY <1>1 DEF Tick, TypeOK, Rearm
    <2>2. Ledger!Pass
      BY <2>1, LedgerHold DEF Ledger!Pass, Older
    <2> QED
      BY <2>2 DEF Ledger!Next
  <1>2. CASE Receive \/ ReadCached \/ ReadPolled \/ StatusFreeze \/ UNCHANGED vars
    <2>1. UNCHANGED <<rearm, published, sent>>
      BY <1>2 DEF Receive, ReadCached, ReadPolled, Read, StatusFreeze, vars, historyVars
    <2> QED
      BY <2>1 DEF Ledger!ledgerVars
  <1>3. CASE StepEffect
    <2>1. CASE (Keeps \/ GoesIdle) /\ (rearm' = rearm \/ ~rearm'.pending)
      <3>1. published' = published /\ sent'.write = sent.write
        BY <2>1 DEF Keeps, GoesIdle
      <3>2. CASE rearm' = rearm
        BY <3>1, <3>2 DEF Ledger!ledgerVars
      <3>3. CASE ~rearm'.pending
        <4>1. rearm'.pending = FALSE
          BY <3>3, Zenon DEF TypeOK, Rearm
        <4> QED
          BY <3>1, <4>1 DEF Ledger!GiveUp, Ledger!Next
      <3> QED
        BY <2>1, <3>2, <3>3
    <2>2. CASE Writes(0)
      BY <2>2, ZeroCommand, LedgerWrite
    <2>3. CASE \E watts \in CommandRange :
                  /\ Writes(watts) /\ ~rearm'.pending
                  /\ \/ rearm.pending
                     \/ Elapsed(lastCommandAge, MinHoldTime)
                     \/ watts <= lastCommandWatts
      BY <2>3, LedgerWrite
    <2> QED
      BY <1>3, <2>1, <2>2, <2>3 DEF StepEffect, RearmCompletes, InRearm
  <1> QED
    BY <1>1, <1>2, <1>3, NextEffect DEF CommandInv

(* The control loop implements the ledger: for every configuration, device *)
(* and sequence of faults, its schedule writes are the ledger's.           *)
THEOREM LoopImplementsLedger == Spec => ImplementsLedger
  <1>1. Init => TypeOK /\ CommandInv
    BY TypeInit, CommandInit
  <1>2. TypeOK /\ CommandInv /\ [LoopNext]_vars => (TypeOK /\ CommandInv)'
    BY TypeNext, CommandNext
  <1>3. TypeOK /\ CommandInv /\ [LoopNext]_vars => [Ledger!Next]_(Ledger!ledgerVars)
    BY TypeNext, LedgerStep
  <1> QED
    BY <1>1, <1>2, <1>3, LedgerInit, NextIsLoop, PTL DEF Spec, ImplementsLedger, Ledger!Spec

=============================================================================
