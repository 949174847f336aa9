SPECIFICATION Spec
CONSTANTS
    CfgWindow = "padded"
    Others = {"A", "B", "wiped"}
    Wiped = "wiped"
    MinOutputWatts = 80
    MaxOutputWatts = 160
    ImportBiasWatts = 0
    RampUpWattsPerCycle = 60
    RampDownWattsPerCycle = 0
    MinCommandDeltaWatts = 20
    MinCommandDeltaWattsExporting = 10
    AlphaNum = 1
    AlphaDen = 1
    TraceNum = 1
    TraceDen = 1
    BatterySoCFloorMarginPercent = 2
    BatterySoCHysteresisPercent = 3
    BatterySoCFloorFallbackPercent = 15
    HighSoCDisableImportBiasPercent = 90
    HighSoCAggressivePercent = 95
    HighSoCMaxPercent = 97
    NearFullIdleEnabled = TRUE
    EnforceSurplusFeedIn = FALSE
    NearFullIdleEnterPercent = 100
    NearFullIdleConsecutiveSamples = 2
    NearFullIdleGridImportExitWatts = 50
    NearFullIdleGridImportExitSamples = 4
    ControlInterval = 1
    StatusPollTimeout = 1
    Minute = 4
    Statuses <- OutageStatuses
    GridWatts <- ControlGrid
    FallbackQuery = FALSE
    Faults = {"prometheus"}
    StatusStaleAfter = 1
    StatusHardFailAfter = 2
    MinHoldTime = 2
    PersistToFlash = FALSE
    AllowFlashWrites = FALSE
    SurplusFeedInRecoveryMinInterval = 3
    SixHours = 6
    NuclearRestartEnabled = FALSE
    NuclearRestartBlockedCycles = 3
    NuclearRestartMinInterval = 6
PROPERTIES
    FallbackStops
