CONSTANTS
  Configs <- MCConfigs
  Policy = {"friend", "<anonymous>"}
  Copiers = {g1, g2}
  Values = {x, y}
  CodecPools = {p1, p2, p3}
  Codecs = {c1, c2}
  Nil = Nil
  MaxBuffer = 2
  MaxErrors = 3
  Codes = {0, 5}
  Details = {d1, d2}
  OddDetails = {d2}
  None = None
  Callers = {a, b}
  CacheKeys = {k1, k2}
  k1 = k1
  k2 = k2
  MaxRetries = 1
  Wide = 8
  Narrow = 4
  Commands <- MCCommands
  Requests <- MCRequests
  Answers = {"down", "cut", "500", "json", "text", "redirect"}
SPECIFICATION Spec
CHECK_DEADLOCK FALSE
INVARIANTS HandlerGuarded LoggedOnce PanicContained
  CopyExact StatusFresh AddExclusive
  SuccessSound
PROPERTIES PanicNeedsRace InheritsNearest ReadBack
