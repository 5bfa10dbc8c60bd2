\* The JS and ArkTS bindings: two bind calls on one device, unbinding, a
\* death of the service, and the three queries.
CONSTANTS
  None = None
  Junk = Junk
  x1 = x1
  x2 = x2
  d1 = d1
  uid1 = uid1
  uid2 = uid2
  text = text
  MaxInterfaceDescs = 2
  MaxJsNumber = 8
  Data = {x1, x2}
  Devices = {d1}
  Worlds <- SomeWorlds
  Queries <- AllQueries
  MaxUnbinds = 1
  MaxDeaths = 1
CHECK_DEADLOCK FALSE
SPECIFICATION FairSpec
INVARIANT TypeOK
INVARIANT MapFollowsService
INVARIANT QueryShowsDevices
PROPERTY BindingSpec
PROPERTY BindSettles
PROPERTY UnbindSettles
