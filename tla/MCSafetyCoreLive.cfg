SPECIFICATION MonitorSpec
CONSTANTS
    WATCHDOG_TIMEOUT_CYCLES = 3
    SEQUENCE_HALF_RANGE = 2
    MAX_INFERENCE_AGE_MS = 1
    PinSamples <- MCLivePins
    ArrivingFrames <- MCLiveFrames
PROPERTIES
    CanRecover
