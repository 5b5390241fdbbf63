SPECIFICATION MonitorSpec
CONSTANTS
    body_a = body_a
    Bodies <- MCBodies
    SEQUENCE_LIMIT = 3
    Absent = Absent
    Corrupt = Corrupt
    MAX_BOOTS = 2
    Packages <- MCPackages
    MAX_QUEUE = 2
    MAX_CHALLENGES = 3
    MAX_ENTRIES = 3
INVARIANTS
    PendingIsCurrent
    LedgerAccountsForDevice
    EvidenceIsTrue
