CONSTANTS
  a4 = a4  b4 = b4  l6 = l6
  blank = blank  wlan = wlan  noIface = noIface
  p1 = p1  p2 = p2
  studio = studio  stranger = stranger
  noHost = noHost  noTimer = noTimer
  IP <- MCIP
  LinkLocal <- MCLinkLocal
  Blank = blank
  Iface = wlan
  NoIface = noIface
  Port <- MCPort
  Instance <- MCInstance
  NoHost = noHost
  Entry <- MCEntry
  Timeouts <- MCTimeouts
  Settle = 2
  ChanCap = 2
  MaxAnnounces = 4
  NoTimer = noTimer
  wantInstance = studio
SPECIFICATION PairingSpec
INVARIANTS
  PairsWithScanner
  GivesUpLate
PROPERTIES
  PairingTerminates
