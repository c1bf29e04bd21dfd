SPECIFICATION TextSpec
CONSTANTS
  OFF_WIDTH = 64
  PORT_MAX = 99
  max_header_size = 60
  ULLONG_MAX = 999
  Streams <- MCStreams
  Pieces = {1, 5}
  Alphabet = {"/", ":", "@", "a", "1", "[", "]", "?", "#", "%"}
  Starts <- MCStarts
  MaxMore = 3
  MAXMSG = 60
  URL_SIZE = 10
  Requests <- MCRequests
  Cuts = {12, 46}
  MaxRequests = 2
  Addr = {1, 2, 3, 4}
  NULL = 0
  Menus <- MCMenus
  CJSON_NESTING_LIMIT = 3
  INT_MAX = 40
  NUMBER_MAX = 4
  DEFAULT_SIZE = 4
  Trees <- MCTrees
  Sizes = {0, 1, 13}
  Fuels = {0, 1, 99}
  Damage = {34, 92, 93}
  Octets = {0, 127, 250}
  MaxOctets = 4
  MAX_PRINT_STRING_LEN = 6
  CIPHER_KEY_LEN = 3
  Junk = {61, 0}
  MaxTail = 3
INVARIANTS
  PartsTypeOK
  StreamPiecesDoNotMatter
  HttpIsUnderstood
  RequestsAreServed
  TreeIsTheDocument
  TextIsReadBack
  TextStaysInBuffers
CHECK_DEADLOCK FALSE
