SPECIFICATION Spec
CONSTANTS
  d1 = d1
  d2 = d2
  r1 = r1
  r2 = r2
  b1 = b1
  b2 = b2
  u1 = u1
  u2 = u2
  c1 = c1
  c2 = c2
  NoDriver = NoDriver
  NoDevice = NoDevice
  NoArg = NoArg
  NoUser = NoUser
  AllBundles = AllBundles
  Devices = {d1}
  Drivers = {r1}
  Users = {u1, u2}
  Clients = {}
  Bundles = {b1}
  FirstUser = u1
  BundleOf <- OneBundle
  Matches <- AllMatch
  AccessAllowed <- AllAccess
  LaunchOnBind = {}
  UpdatableBundles = {}
  Switchable = {u1, u2}
  MaxConns = 2
  MaxThreads = 4
  Faults = FALSE
  Replug = {}
  RepeatedAdds = FALSE
  Unloads = FALSE
  ColdBoot = TRUE
INVARIANT RowsAreCurrent
INVARIANT RemoteIsBacked
