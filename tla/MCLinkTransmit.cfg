SPECIFICATION TransmitSpec
CONSTANTS
    STATUS_LAST = 2
    SENSOR_LAST = 1
    BYTE_CYCLES = 1
    SEQUENCE_COUNT = 2
    StatusVectors <- MCVectors
    ResetVector = "idle"
    Samples <- MCSamples
    ResetSample = "zero"
    InputSamples <- MCInputs
    NoByte = NoByte
INVARIANTS
    StatusIsReported
PROPERTIES
    FramesIntact
    StatusSettles
    SensorServed
