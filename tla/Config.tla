------------------------------- MODULE Config -------------------------------
(***************************************************************************)
(* internal/config: Load makes a configuration from the environment,       *)
(* validate() corrects two settings and refuses what the rest of the       *)
(* program does not expect.                                                *)
(*                                                                         *)
(* Durations are whole seconds.  A float64 is a fraction; one with         *)
(* denominator 0 is NaN, which strconv.ParseFloat accepts and which fails  *)
(* every comparison.  A text setting is reduced to what validate() asks:   *)
(* whether it is there, and whether it is a time or a cron expression      *)
(* (module Schedule).  Settings that nothing in these modules reads are    *)
(* left out.                                                               *)
(***************************************************************************)
EXTENDS Integers

Fraction(num, den) == [num |-> num, den |-> den]
Fractions == [num : Int, den : Nat]

TimeTexts == {"padded", "ragged", "bad"}

Settings ==
    [PrometheusBaseURL : BOOLEAN, MQTTBrokerURL : BOOLEAN, MarstekDeviceID : BOOLEAN,
     StatusStaleAfter : Int, StatusPollTimeout : Int, StatusHardFailAfter : Int,
     ControlInterval : Int, SmoothingAlpha : Fractions, ImportBiasWatts : Int,
     RampUpWattsPerCycle : Int, RampDownWattsPerCycle : Int,
     MinCommandDeltaWatts : Int, MinCommandDeltaWattsExporting : Int,
     MinHoldTime : Int, MinOutputWatts : Int, MaxOutputWatts : Int,
     AllowFlashWrites : BOOLEAN, PersistToFlash : BOOLEAN,
     ScheduleSlot : Int, ScheduleStart : TimeTexts, ScheduleEnd : TimeTexts,
     BatterySoCFloorMarginPercent : Int, BatterySoCHysteresisPercent : Int,
     BatterySoCFloorFallbackPercent : Int,
     NearFullIdleEnabled : BOOLEAN, NearFullIdleEnterPercent : Int,
     NearFullIdleConsecutiveSamples : Int,
     NearFullIdleGridImportExitWatts : Int, NearFullIdleGridImportExitSamples : Int,
     EnforceSurplusFeedIn : BOOLEAN,
     HighSoCDisableImportBiasPercent : Int, HighSoCAggressivePercent : Int,
     HighSoCMaxPercent : Int, HighSoCSolarTraceFactor : Fractions,
     SurplusFeedInRecoveryMinInterval : Int,
     DeviceRestartSchedule : {"", "cron", "bad"}, DeviceRestartTimezone : {"known", "bad"},
     NuclearRestartEnabled : BOOLEAN, NuclearRestartAckWiFiRecovery : BOOLEAN,
     NuclearRestartBlockedCycles : Int, NuclearRestartMinInterval : Int]

(* Load's fallbacks. *)
Default ==
    [PrometheusBaseURL |-> FALSE, MQTTBrokerURL |-> FALSE, MarstekDeviceID |-> FALSE,
     StatusStaleAfter |-> 120, StatusPollTimeout |-> 5, StatusHardFailAfter |-> 300,
     ControlInterval |-> 15, SmoothingAlpha |-> Fraction(1, 2), ImportBiasWatts |-> 50,
     RampUpWattsPerCycle |-> 150, RampDownWattsPerCycle |-> 300,
     MinCommandDeltaWatts |-> 25, MinCommandDeltaWattsExporting |-> 5,
     MinHoldTime |-> 30, MinOutputWatts |-> 80, MaxOutputWatts |-> 800,
     AllowFlashWrites |-> FALSE, PersistToFlash |-> FALSE,
     ScheduleSlot |-> 1, ScheduleStart |-> "padded", ScheduleEnd |-> "padded",
     BatterySoCFloorMarginPercent |-> 2, BatterySoCHysteresisPercent |-> 5,
     BatterySoCFloorFallbackPercent |-> 15,
     NearFullIdleEnabled |-> TRUE, NearFullIdleEnterPercent |-> 100,
     NearFullIdleConsecutiveSamples |-> 2,
     NearFullIdleGridImportExitWatts |-> 50, NearFullIdleGridImportExitSamples |-> 4,
     EnforceSurplusFeedIn |-> FALSE,
     HighSoCDisableImportBiasPercent |-> 90, HighSoCAggressivePercent |-> 95,
     HighSoCMaxPercent |-> 97, HighSoCSolarTraceFactor |-> Fraction(9, 10),
     SurplusFeedInRecoveryMinInterval |-> 21600,
     DeviceRestartSchedule |-> "", DeviceRestartTimezone |-> "known",
     NuclearRestartEnabled |-> FALSE, NuclearRestartAckWiFiRecovery |-> FALSE,
     NuclearRestartBlockedCycles |-> 6, NuclearRestartMinInterval |-> 21600]

(* getEnvInt, getEnvBool, ...: env holds what is set to something that can *)
(* be parsed; a value that cannot is replaced by the default, silently but *)
(* for a warning.                                                          *)
getEnv(env, key) == IF key \in DOMAIN env THEN env[key] ELSE Default[key]

(* NaN is neither at most 0 nor above 1. *)
outsideUnit(f) == f.den > 0 /\ (f.num <= 0 \/ f.num > f.den)

isValidTime(text) == text # "bad"

(* The two settings that validate() corrects instead of refusing them.     *)
corrected(c) ==
    [c EXCEPT !.MaxOutputWatts = IF @ > 800 THEN 800 ELSE @,
              !.MinHoldTime = IF @ < c.ControlInterval THEN c.ControlInterval ELSE @]

(* validate() and, with a schedule, Load's time zone find no error.        *)
accepted(c) ==
    /\ c.PrometheusBaseURL /\ c.MQTTBrokerURL /\ c.MarstekDeviceID
    /\ ~outsideUnit(c.SmoothingAlpha) /\ ~outsideUnit(c.HighSoCSolarTraceFactor)
    /\ c.MaxOutputWatts >= 0 /\ c.MinOutputWatts >= 0
    /\ c.MinOutputWatts <= c.MaxOutputWatts
    /\ c.ScheduleSlot \in 1..5
    /\ isValidTime(c.ScheduleStart) /\ isValidTime(c.ScheduleEnd)
    /\ c.PersistToFlash => c.AllowFlashWrites
    /\ c.ControlInterval > 0
    /\ c.RampUpWattsPerCycle >= 0 /\ c.RampDownWattsPerCycle >= 0
    /\ c.MinCommandDeltaWatts >= 0 /\ c.MinCommandDeltaWattsExporting >= 0
    /\ c.BatterySoCFloorMarginPercent \in 0..30
    /\ c.BatterySoCHysteresisPercent \in 1..20
    /\ c.BatterySoCFloorFallbackPercent \in 5..50
    /\ c.NearFullIdleEnterPercent \in 1..100
    /\ c.NearFullIdleConsecutiveSamples >= 1
    /\ c.NearFullIdleGridImportExitWatts >= 0 /\ c.NearFullIdleGridImportExitSamples >= 0
    /\ c.HighSoCDisableImportBiasPercent \in 1..100
    /\ c.HighSoCAggressivePercent \in 1..100 /\ c.HighSoCMaxPercent \in 1..100
    /\ c.HighSoCDisableImportBiasPercent <= c.HighSoCAggressivePercent
    /\ c.HighSoCAggressivePercent <= c.HighSoCMaxPercent
    /\ c.SurplusFeedInRecoveryMinInterval >= 0
    /\ c.DeviceRestartSchedule # "bad"
    /\ c.DeviceRestartSchedule # "" => c.DeviceRestartTimezone # "bad"
    /\ c.NuclearRestartEnabled => c.NuclearRestartAckWiFiRecovery
    /\ c.NuclearRestartBlockedCycles >= 1 /\ c.NuclearRestartMinInterval >= 0

(* What Load returns for an environment; it returns no error if accepted.  *)
Load(env) == corrected([key \in DOMAIN Default |-> getEnv(env, key)])

=============================================================================
