\* One driver of each kind with its DDK library; the service dies twice.
CONSTANTS
  Drivers = {"hid", "hidraw", "usb", "descriptor", "scsi", "scsidata", "serial", "ashmem"}
  MaxDeaths <- DeathsOf
  MaxRecipients <- RecipientsOf
  HidIds = {1, 2}
  HidDevices = {1, 2}
  MaxFds = 3
  Addresses = {1, 2}
  MapSize = 3
  Buffers <- SomeBuffers
  ConfigInputs <- AllConfigs
  SenseInputs <- AllSense
  ConfigParser <- ParseUsbConfigDescriptor
  SenseParser <- ParseBasicSenseInfo
  USB_MAXINTERFACES = 3
  USB_MAXALTSETTING = 2
  USB_MAXENDPOINTS = 2
CHECK_DEADLOCK FALSE
SPECIFICATION FairSpec
INVARIANT TypeOK
INVARIANT CrashIsAnUnlockedRace
INVARIANT ProxyIsWatched
INVARIANT HidEntriesNameDevices
INVARIANT FdsAccounted
INVARIANT TransfersUseTheBuffer
INVARIANT ConfigAgrees
INVARIANT SenseAgrees
PROPERTY DeathNoticed
