SPECIFICATION SystemSpec
CONSTANTS
    Devices <- HomeDevice
    ReportedWindow = "padded"
    CfgWindow = "padded"
    Others = {"A"}
    Wiped = "A"
    MinOutputWatts = 80
    MaxOutputWatts = 160
    ImportBiasWatts = 0
    RampUpWattsPerCycle = 0
    RampDownWattsPerCycle = 0
    MinCommandDeltaWatts = 20
    MinCommandDeltaWattsExporting = 10
    AlphaNum = 1
    AlphaDen = 1
    TraceNum = 1
    TraceDen = 1
    BatterySoCFloorMarginPercent = 2
    BatterySoCHysteresisPercent = 3
    BatterySoCFloorFallbackPercent = 15
    HighSoCDisableImportBiasPercent = 90
    HighSoCAggressivePercent = 95
    HighSoCMaxPercent = 97
    NearFullIdleEnabled = FALSE
    EnforceSurplusFeedIn = FALSE
    NearFullIdleEnterPercent = 100
    NearFullIdleConsecutiveSamples = 2
    NearFullIdleGridImportExitWatts = 50
    NearFullIdleGridImportExitSamples = 4
    ControlInterval = 1
    StatusPollTimeout = 1
    Minute = 4
    Statuses <- HomeReports
    GridWatts <- SystemGrid
    FallbackQuery = FALSE
    Faults = {"prometheus", "poll"}
    StatusStaleAfter = 1
    StatusHardFailAfter = 2
    MinHoldTime = 2
    PersistToFlash = FALSE
    AllowFlashWrites = FALSE
    SurplusFeedInRecoveryMinInterval = 3
    SixHours = 6
    NuclearRestartEnabled = FALSE
    NuclearRestartBlockedCycles = 2
    NuclearRestartMinInterval = 6
INVARIANTS
    SystemTypeOK
    DeviceWithinLimits
PROPERTIES
    Converges
    FollowsGrid
