SPECIFICATION FairSpec
CONSTANTS
  d1 = d1
  d2 = d2
  r1 = r1
  r2 = r2
  b1 = b1
  b2 = b2
  u1 = u1
  u2 = u2
  c1 = c1
  c2 = c2
  NoDriver = NoDriver
  NoDevice = NoDevice
  NoArg = NoArg
  NoUser = NoUser
  AllBundles = AllBundles
  Devices = {d1}
  Drivers = {r1}
  Users = {u1}
  Clients = {}
  Bundles = {b1}
  FirstUser = u1
  BundleOf <- OneBundle
  Matches <- AllMatch
  AccessAllowed <- AllAccess
  LaunchOnBind = {}
  UpdatableBundles = {}
  Switchable = {}
  MaxConns = 2
  MaxThreads = 0
  Faults = FALSE
  Replug = {d1}
  RepeatedAdds = FALSE
  Unloads = FALSE
  ColdBoot = FALSE
PROPERTY PluggedIsListed
CHECK_DEADLOCK FALSE
