-------------------------- MODULE ControlLawProofs --------------------------
(***************************************************************************)
(* Facts about the pure operators of DeviceProtocol, ControlLaw and        *)
(* TopChargeIdle, for every configuration that config.validate() accepts:  *)
(* the types of what they return and the bounds the controller relies on.  *)
(***************************************************************************)
EXTENDS TopChargeIdle, TLAPS

-----------------------------------------------------------------------------
(* Slots, statuses and payloads. *)

(* The constant slots and statuses are well formed. *)
LEMMA NoSlotType == NoSlot \in Slot
  BY DEF NoSlot, Slot, Windows

(* marstek.Status{} is a status. *)
LEMMA ZeroStatusType == ZeroStatus \in Status
  BY NoSlotType, OthersAssumption DEF ZeroStatus, Status

(* Every slot the controller builds is a slot. *)
LEMMA DesiredSlotType ==
  ASSUME NEW watts \in Int
  PROVE  desiredControlledSlot(watts) \in Slot
  BY WindowAssumption DEF desiredControlledSlot, Slot, Windows

(* The disabled slot is a slot. *)
LEMMA DisabledSlotType == disabledControlledSlot \in Slot
  BY WindowAssumption DEF disabledControlledSlot, Slot, Windows

(* The commands without arguments are payloads. *)
LEMMA PlainType ==
  ASSUME NEW kind \in Kinds
  PROVE  Plain(kind) \in Payload
  BY NoSlotType, OthersAssumption DEF Plain, Payload

(* Each named command is a payload, and none of them is a schedule write. *)
LEMMA CommandPayloads ==
  /\ NoPayload \in Payload /\ NoPayload.kind = "none"
  /\ ChargingModePayload \in Payload /\ ChargingModePayload.kind = "charging_mode"
  /\ SurplusFeedInPayload \in Payload /\ SurplusFeedInPayload.kind = "surplus"
  /\ OutputEnablePayload \in Payload /\ OutputEnablePayload.kind = "outputs"
  /\ RestartPayload \in Payload /\ RestartPayload.kind = "restart"
  <1>1. {"none", "charging_mode", "surplus", "outputs", "restart"} \subseteq Kinds
    BY DEF Kinds
  <1>2. \A kind \in Kinds : Plain(kind) \in Payload
    BY PlainType
  <1>3. \A kind \in Kinds : Plain(kind).kind = kind
    BY DEF Plain
  <1> QED
    BY <1>1, <1>2, <1>3
    DEF NoPayload, ChargingModePayload, SurplusFeedInPayload, OutputEnablePayload,
        RestartPayload

(* A schedule write is a payload, and carries the desired slot and the     *)
(* four other slots of the status it was built from.                       *)
LEMMA SlotPayload ==
  ASSUME NEW st \in Status, NEW desired \in Slot, NEW flash \in BOOLEAN
  PROVE  /\ buildSlotPayload(st, desired, flash) \in Payload
         /\ buildSlotPayload(st, desired, flash).kind = "slots"
         /\ buildSlotPayload(st, desired, flash).slot = desired
         /\ buildSlotPayload(st, desired, flash).others = st.others
  BY DEF buildSlotPayload, BuildTimedDischargePayload, Payload, Kinds, Status

-----------------------------------------------------------------------------
(* The control law. *)

(* The moving average stays an integer. *)
LEMMA SmoothType ==
  ASSUME NEW previous \in Int, NEW hasPrevious \in BOOLEAN, NEW watts \in Int
  PROVE  smooth(previous, hasPrevious, watts) \in Int
  BY ControlLawAssumption DEF smooth

(* clampTargetWatts: whatever the arithmetic before it gives, the target   *)
(* is 0 or within the limits.                                              *)
LEMMA ClampRange ==
  ASSUME NEW watts \in Int
  PROVE  clampTargetWatts(watts) \in CommandRange
  BY ControlLawAssumption DEF clampTargetWatts, CommandRange

(* computeTarget: in every high-SoC stage and for both grid sources the    *)
(* raw target is a command the device does not clamp.                      *)
THEOREM TargetRange ==
  ASSUME NEW stage \in Stages, NEW src, NEW st \in Status, NEW smoothed \in Int
  PROVE  computeTarget(stage, src, st, smoothed) \in CommandRange
  BY ControlLawAssumption, ClampRange
  DEF computeTarget, computeRawTargetWithBias, solarTrace, Status, Stages, CommandRange

(* publishNormalControl's ramp, fast path and minimum snap map commands to *)
(* commands.                                                               *)
THEOREM RampedRange ==
  ASSUME NEW current \in CommandRange, NEW target \in CommandRange, NEW exporting \in BOOLEAN
  PROVE  rampedCommand(current, target, exporting) \in CommandRange
  BY ControlLawAssumption DEF rampedCommand, applyRamp, CommandRange

(* While exporting, the ramped command never exceeds the target: the snap  *)
(* to the minimum cannot undo the fast path.                               *)
THEOREM ExportingRamp ==
  ASSUME NEW current \in CommandRange, NEW target \in CommandRange
  PROVE  rampedCommand(current, target, TRUE) <= target
  BY ControlLawAssumption DEF rampedCommand, applyRamp, CommandRange

(* highSoCStageForStatus returns a stage. *)
LEMMA StageType ==
  ASSUME NEW stage, NEW st
  PROVE  highSoCStageForStatus(stage, st) \in Stages
  BY DEF highSoCStageForStatus, Stages

-----------------------------------------------------------------------------
(* The top-charge machine. *)

(* The cooldown after a failed exit is a duration. *)
LEMMA FailureCooldownType == failureCooldown \in Nat
  BY TopChargeIdleAssumption DEF failureCooldown, authorityPublishCooldown

(* The machine starts as a machine. *)
LEMMA NewMachineType == NewMachine \in Machine
  BY DEF NewMachine, Machine

(* Counting keeps a machine a machine. *)
LEMMA CountExitsType ==
  ASSUME NEW t \in Machine, NEW st \in Status, NEW grid \in Int, NEW smoothed \in Int
  PROVE  CountExits(t, st, grid, smoothed) \in Machine
  <1> DEFINE a == Count(t.socExitSamples, st.soc < NearFullIdleEnterPercent)
             b == Count(t.importSamples,
                        importExitEnabled /\ smoothed > NearFullIdleGridImportExitWatts)
             c == Count(t.rawImportSamples,
                        importExitEnabled /\ grid > NearFullIdleGridImportExitWatts)
             d == Count(t.passThroughLostSamples, ~healthy(st))
  <1>1. a \in Nat /\ b \in Nat /\ c \in Nat /\ d \in Nat
    BY DEF Count, Machine
  <1>2. CountExits(t, st, grid, smoothed) =
          [t EXCEPT !.socExitSamples = a, !.importSamples = b,
                    !.rawImportSamples = c, !.passThroughLostSamples = d]
    BY DEF CountExits
  <1> HIDE DEF a, b, c, d
  <1> QED
    BY <1>1, <1>2 DEF Machine

(* reset, blockUntil, Elapse and update map machines to machines. *)
LEMMA MachineType ==
  ASSUME NEW t \in Machine
  PROVE  /\ reset(t) \in Machine /\ blockUntil(t) \in Machine /\ Elapse(t) \in Machine
         /\ \A st \in Status, grid \in Int, smoothed \in Int :
               update(t, st, grid, smoothed) \in Machine
  <1>2. \A m \in Machine : reset(m) \in Machine
    BY DEF reset, NewMachine, Machine
  <1>3. \A m \in Machine : blockUntil(m) \in Machine
    BY FailureCooldownType DEF blockUntil, Machine
  <1>4. Elapse(t) \in Machine
    BY DEF Elapse, Machine
  <1>5. ASSUME NEW st \in Status, NEW grid \in Int, NEW smoothed \in Int
        PROVE  update(t, st, grid, smoothed) \in Machine
    <2>1. CountExits(t, st, grid, smoothed) \in Machine
      BY CountExitsType
    <2>2. UpdateActive(t, st, grid, smoothed) \in Machine
      BY <1>2, <1>3, <2>1 DEF UpdateActive
    <2>3. UpdateInactive(t, st, grid, smoothed) \in Machine
      <3> DEFINE n == Count(t.enterSamples, entryEligible(st, grid, smoothed))
      <3>1. n \in Nat
        BY DEF Count, Machine
      <3>2. [t EXCEPT !.enterSamples = n] \in Machine
        BY <3>1 DEF Machine
      <3>3. [t EXCEPT !.active = TRUE, !.enterSamples = 0,
                      !.socExitSamples = 0, !.importSamples = 0] \in Machine
        BY DEF Machine
      <3> HIDE DEF n
      <3> QED
        BY <3>2, <3>3 DEF UpdateInactive, n
    <2> QED
      BY <1>2, <2>2, <2>3 DEF update
  <1> QED
    BY <1>2, <1>3, <1>4, <1>5

=============================================================================
