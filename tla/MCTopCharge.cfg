SPECIFICATION Spec
CONSTANTS
    CfgWindow = "padded"
    Others = {"A", "B", "wiped"}
    Wiped = "wiped"
    MinOutputWatts = 80
    MaxOutputWatts = 160
    ImportBiasWatts = 0
    RampUpWattsPerCycle = 60
    RampDownWattsPerCycle = 0
    MinCommandDeltaWatts = 20
    MinCommandDeltaWattsExporting = 10
    AlphaNum = 1
    AlphaDen = 2
    TraceNum = 1
    TraceDen = 1
    BatterySoCFloorMarginPercent = 2
    BatterySoCHysteresisPercent = 3
    BatterySoCFloorFallbackPercent = 15
    HighSoCDisableImportBiasPercent = 100
    HighSoCAggressivePercent = 100
    HighSoCMaxPercent = 100
    NearFullIdleEnabled = TRUE
    EnforceSurplusFeedIn = TRUE
    NearFullIdleEnterPercent = 95
    NearFullIdleConsecutiveSamples = 2
    NearFullIdleGridImportExitWatts = 2
    NearFullIdleGridImportExitSamples = 2
    ControlInterval = 1
    StatusPollTimeout = 1
    Minute = 3
    Statuses <- TopChargeStatuses
    GridWatts <- TopChargeGrid
    FallbackQuery = FALSE
    Faults = {"prometheus", "publish"}
    StatusStaleAfter = 1
    StatusHardFailAfter = 2
    MinHoldTime = 2
    PersistToFlash = TRUE
    AllowFlashWrites = TRUE
    SurplusFeedInRecoveryMinInterval = 3
    SixHours = 6
    NuclearRestartEnabled = FALSE
    NuclearRestartBlockedCycles = 3
    NuclearRestartMinInterval = 6
INVARIANTS
    NoEntryDuringCooldown
    ExitCountersClear
PROPERTIES
    SurplusWritesSpaced
    DischargeIsAllowed
