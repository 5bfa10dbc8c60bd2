SPECIFICATION Spec
CONSTANTS
  d1 = d1
  d2 = d2
  r1 = r1
  r2 = r2
  b1 = b1
  b2 = b2
  u1 = u1
  u2 = u2
  c1 = c1
  c2 = c2
  NoDriver = NoDriver
  NoDevice = NoDevice
  NoArg = NoArg
  NoUser = NoUser
  AllBundles = AllBundles
  Devices = {d1}
  Drivers = {r1, r2}
  Users = {u1}
  Clients = {c1}
  Bundles = {b1, b2}
  FirstUser = u1
  BundleOf <- OwnBundles
  Matches <- AllMatch
  AccessAllowed <- AllAccess
  LaunchOnBind = {r2}
  UpdatableBundles = {b1}
  Switchable = {}
  MaxConns = 2
  MaxThreads = 1
  Faults = TRUE
  Replug = {d1}
  RepeatedAdds = FALSE
  Unloads = FALSE
  ColdBoot = FALSE
INVARIANT TypeOK
INVARIANT RemoteIsBacked
INVARIANT InfoIsOwn
INVARIANT ListedIsPlugged
PROPERTY SessionSpec
