SPECIFICATION MonitorSpec
CONSTANTS
    SEQUENCE_HALF_RANGE = 2
    READ_FRAMES = 2
    PENDING_CAPACITY = 2
    WINDOW_SIZE = 2
    LINK_LOSS = 1
    emergency = emergency
    Alarms <- MCAlarms
INVARIANTS
    NothingDropped
    AcceptedAlarmsRecorded
    WindowIsEarned
PROPERTIES
    GatesReopen
    LossIsNoticed
