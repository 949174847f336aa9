---------------------------- MODULE ConfigProofs ----------------------------
(***************************************************************************)
(* Theorems about the configuration: what the rest of the program, and     *)
(* every other proof, assumes of its parameters holds for whatever Load    *)
(* accepts, with the exceptions that validate() leaves open.               *)
(***************************************************************************)
EXTENDS Config, TLAPS

(* The assumptions of ControlLaw, TopChargeIdle, Controller and            *)
(* StatusSource about the parameters that come from a configuration.       *)
ControlLawParameters(c) ==
    /\ c.MinOutputWatts \in Nat /\ c.MaxOutputWatts \in 0..800
    /\ c.MinOutputWatts <= c.MaxOutputWatts
    /\ c.ImportBiasWatts \in Int
    /\ c.RampUpWattsPerCycle \in Nat /\ c.RampDownWattsPerCycle \in Nat
    /\ c.MinCommandDeltaWatts \in Nat /\ c.MinCommandDeltaWattsExporting \in Nat
    /\ c.BatterySoCFloorMarginPercent \in 0..30
    /\ c.BatterySoCHysteresisPercent \in 1..20
    /\ c.BatterySoCFloorFallbackPercent \in 5..50
    /\ c.HighSoCDisableImportBiasPercent \in 1..100
    /\ c.HighSoCAggressivePercent \in 1..100
    /\ c.HighSoCMaxPercent \in 1..100
    /\ c.HighSoCDisableImportBiasPercent <= c.HighSoCAggressivePercent
    /\ c.HighSoCAggressivePercent <= c.HighSoCMaxPercent

Factor(f) == f.den \in Nat \ {0} /\ f.num \in 1..f.den

FactorParameters(c) == Factor(c.SmoothingAlpha) /\ Factor(c.HighSoCSolarTraceFactor)

TopChargeIdleParameters(c) ==
    /\ c.NearFullIdleEnabled \in BOOLEAN /\ c.EnforceSurplusFeedIn \in BOOLEAN
    /\ c.NearFullIdleEnterPercent \in 1..100
    /\ c.NearFullIdleConsecutiveSamples \in Nat \ {0}
    /\ c.NearFullIdleGridImportExitWatts \in Nat
    /\ c.NearFullIdleGridImportExitSamples \in Nat
    /\ c.ControlInterval \in Nat \ {0}

ControllerParameters(c) ==
    /\ c.MinHoldTime \in Nat /\ c.MinHoldTime >= c.ControlInterval
    /\ c.PersistToFlash \in BOOLEAN /\ c.AllowFlashWrites \in BOOLEAN
    /\ c.PersistToFlash => c.AllowFlashWrites
    /\ c.SurplusFeedInRecoveryMinInterval \in Nat
    /\ c.NuclearRestartEnabled \in BOOLEAN
    /\ c.NuclearRestartBlockedCycles \in Nat \ {0}
    /\ c.NuclearRestartMinInterval \in Nat
    /\ c.ScheduleStart \in {"padded", "ragged"}

StatusParameters(c) ==
    /\ c.StatusStaleAfter \in Nat /\ c.StatusPollTimeout \in Nat
    /\ c.StatusHardFailAfter \in Nat

(* What validate() does not look at: a negative duration, and NaN.         *)
Overlooked(c) ==
    \/ c.StatusStaleAfter < 0 \/ c.StatusPollTimeout < 0 \/ c.StatusHardFailAfter < 0
    \/ c.SmoothingAlpha.den = 0 \/ c.HighSoCSolarTraceFactor.den = 0

-----------------------------------------------------------------------------
(* The numbers of a configuration. *)
LEMMA SettingTypes ==
  ASSUME NEW c \in Settings
  PROVE  /\ c.MinOutputWatts \in Int /\ c.MaxOutputWatts \in Int /\ c.ImportBiasWatts \in Int
         /\ c.RampUpWattsPerCycle \in Int /\ c.RampDownWattsPerCycle \in Int
         /\ c.MinCommandDeltaWatts \in Int /\ c.MinCommandDeltaWattsExporting \in Int
         /\ c.NearFullIdleConsecutiveSamples \in Int
         /\ c.NearFullIdleGridImportExitWatts \in Int
         /\ c.NearFullIdleGridImportExitSamples \in Int
         /\ c.ControlInterval \in Int /\ c.MinHoldTime \in Int
         /\ c.SurplusFeedInRecoveryMinInterval \in Int
         /\ c.NuclearRestartBlockedCycles \in Int /\ c.NuclearRestartMinInterval \in Int
         /\ c.StatusStaleAfter \in Int /\ c.StatusPollTimeout \in Int
         /\ c.StatusHardFailAfter \in Int
  BY DEF Settings

(* Correcting a configuration caps the maximum and raises the hold time,   *)
(* and leaves what else is compared with them alone.                       *)
LEMMA CorrectedSettings ==
  ASSUME NEW c \in Settings
  PROVE  /\ corrected(c) \in Settings
         /\ corrected(c).MaxOutputWatts <= 800
         /\ corrected(c).MinHoldTime >= corrected(c).ControlInterval
  <1> DEFINE max  == IF c.MaxOutputWatts > 800 THEN 800 ELSE c.MaxOutputWatts
             hold == IF c.MinHoldTime < c.ControlInterval THEN c.ControlInterval
                                                          ELSE c.MinHoldTime
  <1>1. max \in Int /\ max <= 800 /\ hold \in Int /\ hold >= c.ControlInterval
    BY SettingTypes
  <1>2. corrected(c) = [c EXCEPT !.MaxOutputWatts = max, !.MinHoldTime = hold]
    BY DEF corrected
  <1> HIDE DEF max, hold
  <1>3. corrected(c) \in Settings
    <2>1. [c EXCEPT !.MaxOutputWatts = max, !.MinHoldTime = hold] \in Settings
      BY <1>1, ZenonT(120) DEF Settings
    <2> QED
      BY <1>2, <2>1
  <1>4. /\ corrected(c).MaxOutputWatts = max /\ corrected(c).MinHoldTime = hold
        /\ corrected(c).ControlInterval = c.ControlInterval
    BY <1>2 DEF Settings
  <1> QED
    BY <1>1, <1>3, <1>4

(* Every parameter assumption of the other modules holds for every         *)
(* configuration that Load accepts, except that three durations may be     *)
(* negative and two factors NaN (validate, config.go:194-314).             *)
THEOREM AcceptedIsAssumed ==
  ASSUME NEW c \in Settings, accepted(corrected(c)), ~Overlooked(corrected(c))
  PROVE  LET p == corrected(c)
         IN  /\ ControlLawParameters(p) /\ FactorParameters(p)
             /\ TopChargeIdleParameters(p) /\ ControllerParameters(p) /\ StatusParameters(p)
  <1> DEFINE p == corrected(c)
  <1>1. /\ p \in Settings /\ p.MaxOutputWatts <= 800 /\ p.MinHoldTime >= p.ControlInterval
        /\ accepted(p) /\ ~Overlooked(p)
    BY CorrectedSettings
  <1> HIDE DEF p
  <1>2. ControlLawParameters(p)
    <2>1. /\ p.MinOutputWatts >= 0 /\ p.MaxOutputWatts >= 0
          /\ p.MinOutputWatts <= p.MaxOutputWatts
          /\ p.RampUpWattsPerCycle >= 0 /\ p.RampDownWattsPerCycle >= 0
          /\ p.MinCommandDeltaWatts >= 0 /\ p.MinCommandDeltaWattsExporting >= 0
      BY <1>1 DEF accepted
    <2>2. /\ p.BatterySoCFloorMarginPercent \in 0..30
          /\ p.BatterySoCHysteresisPercent \in 1..20
          /\ p.BatterySoCFloorFallbackPercent \in 5..50
          /\ p.HighSoCDisableImportBiasPercent \in 1..100
          /\ p.HighSoCAggressivePercent \in 1..100 /\ p.HighSoCMaxPercent \in 1..100
          /\ p.HighSoCDisableImportBiasPercent <= p.HighSoCAggressivePercent
          /\ p.HighSoCAggressivePercent <= p.HighSoCMaxPercent
      BY <1>1 DEF accepted
    <2> QED
      BY <1>1, <2>1, <2>2, SettingTypes DEF ControlLawParameters
  <1>3. FactorParameters(p)
    <2>1. p.SmoothingAlpha \in Fractions /\ p.HighSoCSolarTraceFactor \in Fractions
      BY <1>1 DEF Settings
    <2>2. /\ ~outsideUnit(p.SmoothingAlpha) /\ p.SmoothingAlpha.den # 0
          /\ ~outsideUnit(p.HighSoCSolarTraceFactor) /\ p.HighSoCSolarTraceFactor.den # 0
      BY <1>1 DEF accepted, Overlooked
    <2>3. ASSUME NEW f \in Fractions, ~outsideUnit(f), f.den # 0
          PROVE  Factor(f)
      BY <2>3 DEF Factor, outsideUnit, Fractions
    <2> QED
      BY <2>1, <2>2, <2>3 DEF FactorParameters
  <1>4. TopChargeIdleParameters(p)
    <2>1. p.NearFullIdleEnabled \in BOOLEAN /\ p.EnforceSurplusFeedIn \in BOOLEAN
      BY <1>1, Zenon DEF Settings
    <2>2. /\ p.NearFullIdleEnterPercent \in 1..100 /\ p.NearFullIdleConsecutiveSamples >= 1
          /\ p.NearFullIdleGridImportExitWatts >= 0 /\ p.NearFullIdleGridImportExitSamples >= 0
          /\ p.ControlInterval > 0
      BY <1>1 DEF accepted
    <2> QED
      BY <1>1, <2>1, <2>2, SettingTypes DEF TopChargeIdleParameters
  <1>5. ControllerParameters(p)
    <2>1. p.ScheduleStart \in {"padded", "ragged"}
      BY <1>1 DEF Settings, TimeTexts, accepted, isValidTime
    <2>2. /\ p.PersistToFlash \in BOOLEAN /\ p.AllowFlashWrites \in BOOLEAN
          /\ p.NuclearRestartEnabled \in BOOLEAN
          /\ p.PersistToFlash => p.AllowFlashWrites
      BY <1>1, Zenon DEF Settings, accepted
    <2>3. /\ p.ControlInterval > 0 /\ p.SurplusFeedInRecoveryMinInterval >= 0
          /\ p.NuclearRestartBlockedCycles >= 1 /\ p.NuclearRestartMinInterval >= 0
      BY <1>1 DEF accepted
    <2>4. /\ p.MinHoldTime \in Nat /\ p.SurplusFeedInRecoveryMinInterval \in Nat
          /\ p.NuclearRestartBlockedCycles \in Nat \ {0} /\ p.NuclearRestartMinInterval \in Nat
      BY <1>1, <2>3, SettingTypes
    <2> QED
      BY <1>1, <2>1, <2>2, <2>4, Zenon DEF ControllerParameters
  <1>6. StatusParameters(p)
    BY <1>1, SettingTypes DEF Overlooked, StatusParameters
  <1> QED
    BY <1>2, <1>3, <1>4, <1>5, <1>6 DEF p

=============================================================================
