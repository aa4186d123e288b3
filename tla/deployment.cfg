SPECIFICATION DFairSpec
CONSTANTS
  Addresses = {a1, a2}
  LocalAddresses = {lo}
  Names <- MCNames
  Unset = Unset
  Retries = 3
  MaxCrashes = 2
  MaxFaults = 1
INVARIANTS
  DTypeOK
  RegisteredReaches
  WholeOrNothing
PROPERTIES
  Up
CHECK_DEADLOCK FALSE
