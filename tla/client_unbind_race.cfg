\* What an application is told while unbinding races the callbacks.
CONSTANTS
  None = None
  Junk = Junk
  x1 = x1
  x2 = x2
  d1 = d1
  uid1 = uid1
  uid2 = uid2
  text = text
  MaxInterfaceDescs = 2
  MaxJsNumber = 8
  Data = {x1, x2}
  Devices = {d1}
  Worlds <- SomeWorlds
  Queries <- AllQueries
  MaxUnbinds = 1
  MaxDeaths = 0
CHECK_DEADLOCK FALSE
SPECIFICATION Spec
INVARIANT ServiceExceptionIsReal
