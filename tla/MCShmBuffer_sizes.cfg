SPECIFICATION BufferSpec
CONSTANTS
  Procs = {p1, p2}
  NoProc = NoProc
  ByteValues = {a, b}
  ZeroByte = ZeroByte
  AskedSizes = {1, 2}
  MaxLen = 2
  PSizeLimit = 32
  Crashers = {}
SYMMETRY Symmetry
PROPERTIES UnreadKept
