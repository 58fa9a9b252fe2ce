SPECIFICATION ObjectsSpec
CONSTANTS
  Foreign = {m1, m2}
  Workers = {w1}
  NativeKeys = {k1, k2, k3}
  None = None
  Codes = {7}
  MaxRefs = 2
  MaxLost = 1
  ThreadFaults = {"pthread_create", "pthread_key_create"}
  OSWorkers = {o1, o2}
  OSMain = main
  OSSystems = {"amiga", "beos", "os2", "win"}
  MaxTlsKeys = 2
  MaxCleans = 4
  MaxId = 1
  MaxStores = 2
  MainStores = 1
  Keys = {1, 2, 3, 4, 5, 6, 7}
  NULL = NULL
  Pointers = {1, 2, 3}
  Values = {10, 20}
  TableSize = 2
  MaxList = 3
  Block = 4
  Field = 2
  Word = 32
  Quad = 64
  Lens = {1, 2, 3, 5, 8, 33}
  MaxMessage = 40
  Contents <- SomeContents
  SectionNames = {"s", "t"}
  ParameterNames = {"k", "l"}
  ParameterValues = {1, 2}
  MaxLines = 5
  Characters = {" ", "{", "}", "a"}
  MaxString = 6
  Octets = {0, 127}
  Hosts6 <- SomeHosts6
  Ports <- OnePort
  Extras = {0, 1}
  Procs = {p1, p2}
  NoProc = NoProc
  ByteValues = {m1, m2}
  ZeroByte = ZeroByte
  AskedSizes = {0, 2}
  MaxLen = 2
  PSizeLimit = 32
  Crashers = {p1}
SYMMETRY Symmetry
INVARIANTS NoUseAfterFree StartsComplete NothingLeaks OneTlsKey
INVARIANTS OneSlotPerKey ValuesDestroyed IdsUnique JoinWoken
INVARIANTS LookupAgrees BalancedWhenIdle ForeachRestores LookupIsLast DigestOfMessage
INVARIANTS ParametersFound ListsAgree AddressesAgree
PROPERTIES ImplementsFifo
