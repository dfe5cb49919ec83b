CONSTANTS
  noValue = noValue
  NoValue = noValue
  String <- MCString
  Lines <- MCLines
  Environments <- MCEnvironments
  trimmed <- MCTrimmed
  Bytes = 5
  Alphabets <- MCAlphabets
  Wanted <- MCWanted
  MaxRejected = 1
SPECIFICATION StartupSpec
INVARIANTS
  FlagsAnywhere
  AnswersAsAsked
  Unbiased
  OwnByteEach
PROPERTIES
  StartupEnds
