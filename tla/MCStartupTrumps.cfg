SPECIFICATION Spec
CONSTANTS
  Files <- MCFiles
  Main <- MCMain
  Deviant <- MCDeviant
  MaxOpen = 2
  Garbage = "?"
  NULL = NULL
  Width = 3
  MinBits = 1
  Quads <- MCQuads
  IpSpecs <- MCIpSpecs
  Numbers <- MCNumbers
  CountryOf <- MCCountryOf
  Options = {"-a", "-ax", "-F", "-t", "-t:", "-v", "--print-lfn", "--version", "addr"}
  MaxDeviations = 2
  BadRegexes = {"bad"}
  OldNames <- MCOldNames
INVARIANT
  AddressTrumps
CHECK_DEADLOCK FALSE
