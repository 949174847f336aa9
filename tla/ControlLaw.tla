---------------------------- MODULE ControlLaw ----------------------------
(***************************************************************************)
(* The control law: from a grid sample and a device status to the watts    *)
(* the next slot write should carry (internal/controller/helpers.go,       *)
(* highsoc.go and the arithmetic of step.go).  Every operator is pure.     *)
(*                                                                         *)
(* Watts and percentages are integers.  The code keeps the smoothed grid   *)
(* power in a float64; here it is floored to a whole watt after each       *)
(* sample, which keeps its sign when it is negative.                       *)
(***************************************************************************)
EXTENDS DeviceProtocol

CONSTANTS
    MinOutputWatts, MaxOutputWatts,       \* MIN_/MAX_OUTPUT_WATTS
    ImportBiasWatts,                      \* IMPORT_BIAS_WATTS
    RampUpWattsPerCycle, RampDownWattsPerCycle,
    MinCommandDeltaWatts, MinCommandDeltaWattsExporting,
    AlphaNum, AlphaDen,                   \* SMOOTHING_ALPHA as a fraction
    TraceNum, TraceDen,                   \* HIGH_SOC_SOLAR_TRACE_FACTOR
    BatterySoCFloorMarginPercent, BatterySoCHysteresisPercent,
    BatterySoCFloorFallbackPercent,
    HighSoCDisableImportBiasPercent, HighSoCAggressivePercent,
    HighSoCMaxPercent

(* What config.validate() guarantees about these parameters. *)
ASSUME ControlLawAssumption ==
    /\ MinOutputWatts \in Nat /\ MaxOutputWatts \in 0..800
    /\ MinOutputWatts <= MaxOutputWatts
    /\ ImportBiasWatts \in Int
    /\ RampUpWattsPerCycle \in Nat /\ RampDownWattsPerCycle \in Nat
    /\ MinCommandDeltaWatts \in Nat /\ MinCommandDeltaWattsExporting \in Nat
    /\ AlphaDen \in Nat \ {0} /\ AlphaNum \in 1..AlphaDen
    /\ TraceDen \in Nat \ {0} /\ TraceNum \in 1..TraceDen
    /\ BatterySoCFloorMarginPercent \in 0..30
    /\ BatterySoCHysteresisPercent \in 1..20
    /\ BatterySoCFloorFallbackPercent \in 5..50
    /\ HighSoCDisableImportBiasPercent \in 1..100
    /\ HighSoCAggressivePercent \in 1..100
    /\ HighSoCMaxPercent \in 1..100
    /\ HighSoCDisableImportBiasPercent <= HighSoCAggressivePercent
    /\ HighSoCAggressivePercent <= HighSoCMaxPercent

(* The watts a command may carry: nothing, or a value the device does not  *)
(* clamp.                                                                  *)
CommandRange == {0} \cup (MinOutputWatts..MaxOutputWatts)

abs(v) == IF v < 0 THEN -v ELSE v

(* At or below this an output counts as zero. *)
nearZeroOutputWatts ==
    LET half == MinOutputWatts \div 2 IN IF half < 20 THEN 20 ELSE half

(* One step of the exponential moving average. *)
smooth(previous, hasPrevious, watts) ==
    IF hasPrevious
    THEN (AlphaNum * watts + (AlphaDen - AlphaNum) * previous) \div AlphaDen
    ELSE watts

-----------------------------------------------------------------------------
(* The soft state-of-charge floor, a latch with hysteresis. *)

softFloor(st) ==
    IF st.dod > 0 THEN (100 - st.dod) + BatterySoCFloorMarginPercent
                  ELSE BatterySoCFloorFallbackPercent

resumeAt(st) == softFloor(st) + BatterySoCHysteresisPercent

(* Mutant: the floor itself does not latch. *)
updateSoCFloor_Strict(active, st) ==
    \/ st.soc < softFloor(st)
    \/ active /\ st.soc < resumeAt(st)

updateSoCFloor(active, st) ==
    \/ st.soc <= softFloor(st)
    \/ active /\ st.soc < resumeAt(st)

-----------------------------------------------------------------------------
(* The staged high-SoC policy and the raw target. *)

Stages == {"inactive", "net_zero", "aggressive", "max"}

allowExport(stage) == stage \in {"aggressive", "max"}

(* The max stage is sticky: it holds until SoC drops below the aggressive  *)
(* threshold.                                                              *)
highSoCStageForStatus(stage, st) ==
    IF \/ st.soc >= HighSoCMaxPercent
       \/ stage = "max" /\ st.soc >= HighSoCAggressivePercent THEN "max"
    ELSE IF st.soc >= HighSoCAggressivePercent        THEN "aggressive"
    ELSE IF st.soc >= HighSoCDisableImportBiasPercent THEN "net_zero"
    ELSE "inactive"

(* Mutant: the upper limit is not applied. *)
clampTargetWatts_NoMax(target) ==
    LET capped == IF target < 0 THEN 0 ELSE target
    IN  IF capped > 0 /\ capped < MinOutputWatts THEN MinOutputWatts ELSE capped

clampTargetWatts(target) ==
    LET capped == IF target < 0 THEN 0
                  ELSE IF target > MaxOutputWatts THEN MaxOutputWatts ELSE target
    IN  IF capped > 0 /\ capped < MinOutputWatts THEN MinOutputWatts ELSE capped

(* The plug-sum fallback query already excludes the battery's own output.  *)
computeRawTargetWithBias(src, st, smoothed, bias) ==
    clampTargetWatts((IF src = "fallback" THEN 0 ELSE st.out) + smoothed - bias)

(* math.Round(solar * factor); solar input is never negative when it       *)
(* matters, a negative report is dominated by the other candidate.         *)
solarTrace(st) == (2 * st.solar * TraceNum + TraceDen) \div (2 * TraceDen)

computeTarget(stage, src, st, smoothed) ==
    LET bias == IF stage = "inactive" THEN ImportBiasWatts ELSE 0
        base == computeRawTargetWithBias(src, st, smoothed, bias)
    IN  IF stage = "max" THEN MaxOutputWatts
        ELSE IF stage = "aggressive"
             THEN clampTargetWatts(IF base > solarTrace(st) THEN base ELSE solarTrace(st))
        ELSE base

-----------------------------------------------------------------------------
(* From the target to the next command. *)

(* A zero ramp limit means "unlimited". *)
applyRamp(current, target) ==
    LET up   == current + RampUpWattsPerCycle
        down == current - RampDownWattsPerCycle
    IN  IF target > current /\ RampUpWattsPerCycle > 0 /\ target > up THEN up
        ELSE IF target < current /\ RampDownWattsPerCycle > 0 /\ target < down THEN down
        ELSE target

(* publishNormalControl's ramp: the export fast path skips the ramp down,  *)
(* and a value below the device's minimum snaps to 0 or to the minimum.    *)
(* Mutant: a ramped value is sent as it is. *)
rampedCommand_NoSnap(current, target, exporting) ==
    LET ramp == applyRamp(current, target)
    IN  IF exporting /\ ramp > target THEN target ELSE ramp

(* Mutant: an export is ramped down like any other decrease. *)
rampedCommand_NoFastPath(current, target, exporting) ==
    LET ramp == applyRamp(current, target)
    IN  IF ramp > 0 /\ ramp < MinOutputWatts
        THEN (IF target = 0 THEN 0 ELSE MinOutputWatts)
        ELSE ramp

rampedCommand(current, target, exporting) ==
    LET ramp == applyRamp(current, target)
        fast == IF exporting /\ ramp > target THEN target ELSE ramp
    IN  IF fast > 0 /\ fast < MinOutputWatts
        THEN (IF target = 0 THEN 0 ELSE MinOutputWatts)
        ELSE fast

deltaThreshold(exporting) ==
    IF exporting THEN MinCommandDeltaWattsExporting ELSE MinCommandDeltaWatts

=============================================================================
