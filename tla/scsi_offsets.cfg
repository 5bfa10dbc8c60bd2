\* A SCSI driver with used buffers at several offsets of one memory map.
CONSTANTS
  Drivers = {"scsidata"}
  MaxDeaths <- DeathsOf
  MaxRecipients <- RecipientsOf
  HidIds = {1, 2}
  HidDevices = {1, 2}
  MaxFds = 3
  Addresses = {1, 2}
  MapSize = 3
  Buffers <- SomeBuffers
  ConfigInputs <- AllConfigs
  SenseInputs <- AllSense
  ConfigParser <- ParseUsbConfigDescriptor
  SenseParser <- ParseBasicSenseInfo
  USB_MAXINTERFACES = 3
  USB_MAXALTSETTING = 2
  USB_MAXENDPOINTS = 2
CHECK_DEADLOCK FALSE
SPECIFICATION Spec
INVARIANT WriteSendsStored
