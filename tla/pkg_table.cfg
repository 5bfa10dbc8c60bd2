SPECIFICATION FairSpec
CONSTANTS
  b1 = b1
  r1 = r1
  r2 = r2
  u1 = u1
  u2 = u2
  l1 = l1
  NotInstalled = NotInstalled
  AllBundles = AllBundles
  NoUser = NoUser
  Free = Free
  Bundles = {b1}
  Users = {u1, u2}
  Versions = {1}
  DriversOf <- OnePackage
  FirstUser = u1
  Loaders = {l1}
  Clients = {}
  MaxEvents = 1
  MaxFaults = 1
  MaxChanges = 1
  Switchable = {u2}
  Changing = {u1}
INVARIANT TypeOK LocksHeld TableIsCurrent
PROPERTY TableSpec ChangesAreMatched ThreadsReturn
