CONSTANTS
  a4 = a4  b4 = b4  blank = blank  noIface = noIface
  p1 = p1  p2 = p2
  phoneA = phoneA  phoneB = phoneB  phoneB2 = phoneB2  unnamed = unnamed
  noHost = noHost  noTimer = noTimer
  IP <- MCIP
  LinkLocal <- MCNone
  Blank = blank
  Iface = noIface
  NoIface = noIface
  Port <- MCPort
  Instance <- MCInstance
  NoHost = noHost
  Entry <- MCEntry
  Timeouts <- MCTimeouts
  Settle = 2
  ChanCap = 2
  MaxAnnounces = 2
  NoTimer = noTimer
  Unnamed = unnamed
  Reports <- MCReports
  Preferred <- MCPreferred
  ScanTimeout = 3
  MaxAdb = 2
SPECIFICATION ScanSpec
INVARIANTS
  MergeIsUnion
  NewestName
  PreferredFirst
  EmptyOnlyAfterTimeout
  LiveBound
