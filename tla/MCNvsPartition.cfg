SPECIFICATION PartitionSpec
CONSTANTS
    body_a = body_a
    body_b = body_b
    lost = lost
    Bodies <- MCBodies
    SEQUENCE_LIMIT = 4
    Absent = Absent
    NoBlob = NoBlob
    Corrupt = Corrupt
    RING_SIZE = 2
    Events <- MCEvents
    SEQUENCE_MAX = 2
    MAX_ERASURES = 1
INVARIANTS
    PowerLossLeavesUsableStore
    ServedSurvivesPowerLoss
    ServedIsInstalled
    AckedKept
PROPERTIES
    MonotonicSpec
