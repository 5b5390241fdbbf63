SPECIFICATION Spec
CONSTANTS
    station_a = station_a
    station_b = station_b
    key_a = key_a
    key_b = key_b
    Stations <- MCStations
    Keys <- MCKeys
    NoOne = NoOne
    Left = Left
    NoEvidence = NoEvidence
    MAX_SEQUENCE = 1
    MAX_ENTRIES = 4
    MAX_REQUESTS = 1
    MAX_REPORTS = 2
    MAX_INSTALLS = 2
    MAX_EDITS = 1
SYMMETRY Symmetry
CHECK_DEADLOCK FALSE
INVARIANTS
    LedgerVerifies
    EvidenceNamesItsPast
    EntriesHappened
PROPERTIES
    HistoryIsKept
