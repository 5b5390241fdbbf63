SPECIFICATION MonitorSpec
CONSTANTS
    RUNS = 2
    Absent = Absent
    Nominal <- MCNominal
    Contents <- MCContents
    ApprovalIds = {1}
    MAX_SEQUENCE = 3
    MAX_EDITS = 1
    MAX_DISCARDS = 1
PROPERTIES
    WrittenAsApproved
    DriftBlocksWrite
    NoStaleWrite
    ProfileTracesToEvidence
