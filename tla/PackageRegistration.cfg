SPECIFICATION Spec
CONSTANTS
  Installers = {p1, p2}
  Archives = {a1, a2}
  Invalid = {}
  Unplaced = {}
  Releases = {r}
  ReleaseOf <- SameRelease
  Nothing = Nothing
  MaxFaults = 0
PROPERTY RegistrationIsKept
CHECK_DEADLOCK FALSE
