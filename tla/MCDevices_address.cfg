CONSTANTS
  a4 = a4  b4 = b4  blank = blank  noIface = noIface
  p1 = p1  p2 = p2
  phoneA = phoneA  phoneA2 = phoneA2  phoneB = phoneB
  serialA = serialA  serialC = serialC  noID = noID
  noDevice = noDevice  blankDevice = blankDevice
  noName = noName  noHost = noHost  pixel = pixel  noModel = noModel
  IP <- MCIP
  LinkLocal <- MCNone
  Blank = blank
  Iface = noIface
  NoIface = noIface
  Port <- MCPort
  Instance <- MCInstance
  NoHost = noHost
  ID <- MCID
  endpointID <- MCEndpointID
  NoID = noID
  NoDevice = noDevice
  BlankDevice = blankDevice
  Discoverable <- MCDiscoverable
  Model <- MCModel
  NoModel = noModel
  NoName = noName
  Lists <- MCLists
  Filters <- MCFilters
SPECIFICATION DevicesSpec
INVARIANT AddressSelectsItsRow
