SPECIFICATION PathSpec
CONSTANTS
  BodySize = 4
  MaxLength = 41
  SEQ_MAX = 4
  ROC_MAX = 4
  WINDOW = 2
  RDB_BITS = 2
  RDB_LAST = 3
  Indices = {0, 1, 2, 3, 4, 5, 6, 7, 8, 10}
  RtcpIndices = {1, 2, 3, 4}
  Configs <- MCConfigs
  MKI_SIZE = 3
  Skips = {0, 1, 2}
  Rocs = {0, 1}
  MaxIndex = 6
  LastIndex = 10
  MaxRtp = 2
  MaxRtcp = 1
  BITS = 3
  V128_WORDS = 3
  Lengths = {1, 4, 6}
  BLOCK = 4
  CTR_MAX = 15
  Starts = {0, 1, 9}
  MaxLen = 13
  KeyLens = {20}
  TagLens = {4, 10}
  Pieces = {1, 50, 58, 64}
  MaxMsg = 130
  MaxMsgs = 2
  enc_xtn_hdr = {1, 15}
  OneByteOctets = {0, 17, 240}
  TwoByteOctets = {0, 1, 2}
  MaxWords = 2
INVARIANTS
  PartsTypeOK
  SegmentsAddUp
  NoReplay
  TimelyIsAccepted
  AcceptedOnceAndIntact
  IndexNotReused
  TrafficGoesOn
  ComputesItsReference
PROPERTIES
  ImplementsReceiver
CHECK_DEADLOCK FALSE
