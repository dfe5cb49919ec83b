CONSTANTS
  a4 = a4  b4 = b4  b6 = b6  l6 = l6
  blank = blank  wlan = wlan  noIface = noIface
  p1 = p1  p2 = p2
  phoneA = phoneA  phoneA2 = phoneA2  phoneB = phoneB
  noHost = noHost  noTimer = noTimer
  IP <- MCIP
  LinkLocal <- MCLinkLocal
  Blank = blank
  Iface = noIface
  NoIface = noIface
  Port <- MCPort
  Instance <- MCInstance
  NoHost = noHost
  Entry <- MCEntry
  Timeouts <- MCTimeouts
  Settle = 2
  ChanCap = 2
  MaxAnnounces = 3
  NoTimer = noTimer
SPECIFICATION Spec
INVARIANTS
  TypeOK
  UniqueAddresses
  ReportsAllHeard
  InHeardOrder
  SettleBound
  NoEarlyReturn
PROPERTIES
  Terminates
  ImplementsDiscovery
