SPECIFICATION SensorSpec
CONSTANTS
    Channels <- MCChannels
    STALE_MS <- MCStale
    WINDOW_SAMPLES <- MCWindow
    TIME_SPAN = 4
    CYCLES_PER_MS = 2
    ChannelInputs <- MCInputs
INVARIANTS
    AgeIsExact
    VerdictIsOnReading
PROPERTIES
    SteadyStaysValid
    SilenceDetected
