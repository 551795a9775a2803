SPECIFICATION PartsSpec
CONSTANTS
  MsgLen <- MCMsgLen
  LenMod <- MCLenMod
  Frames <- MCFrames
  Heard <- MCHeard
  Texts <- MCTexts
  LineNums <- MCLineNums
  Nums <- MCNums
  Queries <- MCQueries
  d1 = d1
  d2 = d2
  Blank = Blank
  UasIds = {d1, d2}
  TickMod = 10
  LandTicks = 1
  SilentTicks = 1
  FrozenTicks = 1
  TsMax = 1
  RejectSlots = 2
  RejectTtl = 2
  StaleWriteTicks = 1
  RestartTicks = 1
  RetryTicks = 1
  MaxWait = 3
  Horizon = 7
  k1 = k1
  s1 = s1
  ApiKeys = {k1}
  Serials = {s1}
  BlMax = 2
  NoKey = NoKey
  NoSerial = NoSerial
  Stub = Stub
  Absent = Absent
  Forms <- MCForms
  Misses <- MCMisses
INVARIANTS
  PackParsed
  InBounds
  RelayKeeps
  JsonFits
  DnsAnswers
  RefusedWasAdded
  LatestRefused
  OneEntryPerPair
  ConfigTypeOK
  RoundTrip
PROPERTIES
  OnlyMixtures
  KeyKept
CHECK_DEADLOCK FALSE
