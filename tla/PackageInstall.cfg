SPECIFICATION FairSpec
CONSTANTS
  Installers = {p1, p2}
  Archives = {a1, bad, odd}
  Invalid = {bad}
  Unplaced = {odd}
  Releases = {a1, bad}
  ReleaseOf <- OwnRelease
  Nothing = Nothing
  MaxFaults = 2
INVARIANT PublishedIsWhole
PROPERTY InstallationSucceeds
CHECK_DEADLOCK FALSE
