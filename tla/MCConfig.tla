------------------------------ MODULE MCConfig ------------------------------
(***************************************************************************)
(* The environment that starts the program with the parameters of an       *)
(* instance of Controller.                                                 *)
(***************************************************************************)
EXTENDS Controller, Config

Environment ==
    [PrometheusBaseURL |-> TRUE, MQTTBrokerURL |-> TRUE, MarstekDeviceID |-> TRUE,
     StatusStaleAfter |-> StatusStaleAfter, StatusPollTimeout |-> StatusPollTimeout,
     StatusHardFailAfter |-> StatusHardFailAfter,
     ControlInterval |-> ControlInterval, SmoothingAlpha |-> Fraction(AlphaNum, AlphaDen),
     ImportBiasWatts |-> ImportBiasWatts,
     RampUpWattsPerCycle |-> RampUpWattsPerCycle,
     RampDownWattsPerCycle |-> RampDownWattsPerCycle,
     MinCommandDeltaWatts |-> MinCommandDeltaWatts,
     MinCommandDeltaWattsExporting |-> MinCommandDeltaWattsExporting,
     MinHoldTime |-> MinHoldTime,
     MinOutputWatts |-> MinOutputWatts, MaxOutputWatts |-> MaxOutputWatts,
     AllowFlashWrites |-> AllowFlashWrites, PersistToFlash |-> PersistToFlash,
     ScheduleStart |-> CfgWindow,
     BatterySoCFloorMarginPercent |-> BatterySoCFloorMarginPercent,
     BatterySoCHysteresisPercent |-> BatterySoCHysteresisPercent,
     BatterySoCFloorFallbackPercent |-> BatterySoCFloorFallbackPercent,
     NearFullIdleEnabled |-> NearFullIdleEnabled,
     NearFullIdleEnterPercent |-> NearFullIdleEnterPercent,
     NearFullIdleConsecutiveSamples |-> NearFullIdleConsecutiveSamples,
     NearFullIdleGridImportExitWatts |-> NearFullIdleGridImportExitWatts,
     NearFullIdleGridImportExitSamples |-> NearFullIdleGridImportExitSamples,
     EnforceSurplusFeedIn |-> EnforceSurplusFeedIn,
     HighSoCDisableImportBiasPercent |-> HighSoCDisableImportBiasPercent,
     HighSoCAggressivePercent |-> HighSoCAggressivePercent,
     HighSoCMaxPercent |-> HighSoCMaxPercent,
     HighSoCSolarTraceFactor |-> Fraction(TraceNum, TraceDen),
     SurplusFeedInRecoveryMinInterval |-> SurplusFeedInRecoveryMinInterval,
     NuclearRestartEnabled |-> NuclearRestartEnabled,
     NuclearRestartAckWiFiRecovery |-> TRUE,
     NuclearRestartBlockedCycles |-> NuclearRestartBlockedCycles,
     NuclearRestartMinInterval |-> NuclearRestartMinInterval]

(* The program starts with it, and runs with exactly these parameters.     *)
ASSUME InstanceIsLoaded ==
    LET c == Load(Environment)
    IN  accepted(c) /\ \A key \in DOMAIN Environment : c[key] = Environment[key]

(* What has no default is enough to start the program, and the defaults    *)
(* meet the hypotheses of TopIdleNeverEngages (ControllerLadderProofs).    *)
ASSUME DefaultsAreLoaded ==
    LET c == Load([PrometheusBaseURL |-> TRUE, MQTTBrokerURL |-> TRUE,
                   MarstekDeviceID |-> TRUE])
    IN  /\ accepted(c) /\ ~accepted(Default)
        /\ c.HighSoCDisableImportBiasPercent <= c.NearFullIdleEnterPercent
        /\ c.NearFullIdleConsecutiveSamples > 1

=============================================================================
