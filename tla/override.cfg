SPECIFICATION DFairSpec
CONSTANTS
  Addresses = {a1, a2}
  LocalAddresses = {lo}
  Names <- MCNames
  Unset = Unset
  Retries = 3
  MaxCrashes = 0
  MaxFaults = 0
PROPERTIES
  UpWhateverName
CHECK_DEADLOCK FALSE
