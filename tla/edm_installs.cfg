SPECIFICATION FairSpec
CONSTANTS
  d1 = d1
  d2 = d2
  r1 = r1
  r2 = r2
  b1 = b1
  b2 = b2
  u1 = u1
  u2 = u2
  c1 = c1
  c2 = c2
  NoDriver = NoDriver
  NoDevice = NoDevice
  NoArg = NoArg
  NoUser = NoUser
  AllBundles = AllBundles
  Devices = {d1, d2}
  Drivers = {r1, r2}
  Users = {u1}
  Clients = {}
  Bundles = {b1, b2}
  FirstUser = u1
  BundleOf <- OwnBundles
  Matches <- OneForD1
  AccessAllowed <- AllAccess
  LaunchOnBind = {r1, r2}
  UpdatableBundles = {b1}
  Switchable = {}
  MaxConns = 1
  MaxThreads = 2
  Faults = FALSE
  Replug = {d1, d2}
  RepeatedAdds = FALSE
  Unloads = TRUE
  ColdBoot = TRUE
INVARIANT UnloadsWhenIdle
PROPERTY InstalledIsMatched
