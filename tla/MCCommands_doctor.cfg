CONSTANTS
  a4 = a4  b4 = b4  blank = blank  noIface = noIface
  p1 = p1  p2 = p2
  phoneA = phoneA  phoneB = phoneB  serialA = serialA  noID = noID
  noDevice = noDevice  blankDevice = blankDevice
  noName = noName  noHost = noHost  noExit = noExit
  IP <- MCIP
  LinkLocal <- MCNone
  Blank = blank
  Iface = noIface
  NoIface = noIface
  Port <- MCPort
  Instance <- MCInstance
  NoHost = noHost
  ID <- MCID
  endpointID <- MCEndpointID
  NoID = noID
  NoDevice = noDevice
  BlankDevice = blankDevice
  NoName = noName
  NoExit = noExit
  Options <- MCOptions
  Discoverable <- MCDiscoverable
  Trusts <- MCTrusts
  Servers <- MCServers
SPECIFICATION CommandsSpec
INVARIANT DoctorListsServices
