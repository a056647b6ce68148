SPECIFICATION Spec
CONSTANTS
  a = a  b = b  a1 = a1  a2 = a2  NULL = NULL
  Nodes = {a, b}
  Elements <- ElementsOf
  CRPL = 2
  Rate = 2
  SeqLimit = 0
  IvuMin = 1
  MaxPackets = 3
  MaxSeq = 2
  MaxIv = 4
  MaxCrashes = 1
  CrashAfter = {"nothing", "iv"}
  RplTimer = TRUE
  Prompt = TRUE
  Missing = {}
  Segmenting = {a}
CHECK_DEADLOCK FALSE
INVARIANTS NonceUnique NoReplay FreshAccepted
SYMMETRY Swaps
