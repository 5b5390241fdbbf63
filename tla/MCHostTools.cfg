CONSTANTS
  SEQUENCE_COUNT = 8
  MAX_PAYLOAD = 2
  MAX_BUFFER = 9
  CHUNK = 3
  MAX_SAMPLES = 2
  REQUIRED_HEARTBEATS = 1
  PROBES <- MCProbes
  FIRST_NUMBERS = {7}
  MAX_FRAMES = 3
  MAX_EARLY = 1
  MAX_BEATS = 2
  MAX_TROUBLE = 1
  STALE_AFTER = 1
  WAIT = 2
  POLL = 0
  DELAY = 0
  RESPONSE = 0
  MAX_REVISION = 2
  MAX_TIME = 5
  MAX_STARTS = 2
SPECIFICATION HostSpec
INVARIANTS
  NoFrameIsMissed
  PassMeansIntact
  EchoesAreOwn
  ShownStateIsRecent
  WaitsWithNewest
CHECK_DEADLOCK FALSE
