----------------------------- MODULE ClientTypes -----------------------------
(***************************************************************************)
(* What a client gets to see: the parcels between the service and a client *)
(* (driver_ext_mgr_types.cpp), the answers of the service's queries        *)
(* (driver_ext_mgr.cpp) and their conversion to values of the application  *)
(* by the two bindings, napi and taihe.  A parcel is a sequence of typed   *)
(* items; reading an item of another type gives Junk.                      *)
(***************************************************************************)
EXTENDS Naturals, Sequences, SequencesExt

CONSTANTS
  MaxInterfaceDescs, \* MAX_INTERFACE_DESC_SIZE
  MaxJsNumber,       \* MAX_JS_NUMBER: the largest integer a double holds exactly
  None,              \* undefined, nullptr or nullopt
  Junk               \* a value read from other data

ASSUME LimitsAssumption == MaxInterfaceDescs \in Nat /\ MaxJsNumber \in Nat

\* BusType
Invalid == 0
Usb     == 1
MaxBus  == 2

-----------------------------------------------------------------------------
(***************************************************************************)
(* Parcels.                                                                *)
(***************************************************************************)
Item(t, v)    == [type |-> t, value |-> v]
Read(p, i, t) == IF i <= Len(p) /\ p[i].type = t THEN p[i].value ELSE Junk

MarshalDevice(d) ==
  <<Item("u32", d.busType), Item("u64", d.deviceId), Item("string", d.description),
    Item("u16", d.productId), Item("u16", d.vendorId)>>

UnmarshalDevice(p) ==
  IF Read(p, 1, "u32") # Usb THEN None
  ELSE [busType |-> Usb, deviceId |-> Read(p, 2, "u64"),
        description |-> Read(p, 3, "string"), productId |-> Read(p, 4, "u16"),
        vendorId |-> Read(p, 5, "u16")]

MarshalInterfaceDesc(d) ==
  <<Item("u8", d.number), Item("u8", d.class), Item("u8", d.subClass), Item("u8", d.protocol)>>

MarshalDeviceInfo(d) ==
  <<Item("u64", d.deviceId), Item("bool", d.isDriverMatched), Item("string", d.driverUid),
    Item("u16", d.productId), Item("u16", d.vendorId), Item("u64", Len(d.interfaceDescList))>>
  \o FlattenSeq([i \in 1..Len(d.interfaceDescList) |->
                   MarshalInterfaceDesc(d.interfaceDescList[i])])

UnmarshalInterfaceDesc(p, i) ==
  [number |-> Read(p, i, "u8"), class |-> Read(p, i + 1, "u8"),
   subClass |-> Read(p, i + 2, "u8"), protocol |-> Read(p, i + 3, "u8")]

\* GetBusTypeByDeviceId: the low part of a device id; a device id is scaled
\* down to one digit of the bus type and the address above it.
GetBusTypeByDeviceId(id) == id % 4

UnmarshalDeviceInfo(p) ==
  LET n == Read(p, 6, "u64") IN
  IF GetBusTypeByDeviceId(Read(p, 1, "u64")) # Usb \/ n > MaxInterfaceDescs THEN None
  ELSE [deviceId |-> Read(p, 1, "u64"), isDriverMatched |-> Read(p, 2, "bool"),
        driverUid |-> Read(p, 3, "string"), productId |-> Read(p, 4, "u16"),
        vendorId |-> Read(p, 5, "u16"),
        interfaceDescList |-> [i \in 1..n |-> UnmarshalInterfaceDesc(p, 4 * i + 3)]]

MarshalDriverInfo(d) ==
  <<Item("u32", d.busType), Item("string", d.driverUid), Item("string", d.driverName),
    Item("string", d.bundleSize), Item("string", d.version), Item("string", d.description),
    Item("u16s", d.pids), Item("u16s", d.vids)>>

UnmarshalDriverInfo(p) ==
  IF Read(p, 1, "u32") # Usb THEN None
  ELSE [busType |-> Usb, driverUid |-> Read(p, 2, "string"), driverName |-> Read(p, 3, "string"),
        bundleSize |-> Read(p, 4, "string"), version |-> Read(p, 5, "string"),
        description |-> Read(p, 6, "string"), pids |-> Read(p, 7, "u16s"),
        vids |-> Read(p, 8, "u16s")]

\* The generated proxy reads a list and gives up at an item it cannot read.
Transfer(got) == IF None \in {got[i] : i \in DOMAIN got} THEN None ELSE got
TransferDevices(list) ==
  Transfer([i \in DOMAIN list |-> UnmarshalDevice(MarshalDevice(list[i]))])
TransferDeviceInfos(list) ==
  Transfer([i \in DOMAIN list |-> UnmarshalDeviceInfo(MarshalDeviceInfo(list[i]))])
TransferDriverInfos(list) ==
  Transfer([i \in DOMAIN list |-> UnmarshalDriverInfo(MarshalDriverInfo(list[i]))])

-----------------------------------------------------------------------------
(***************************************************************************)
(* The service's side of a query: who may ask, and what is answered.       *)
(***************************************************************************)
\* A caller: permission ACCESS_EXTENSIONAL_DEVICE_DRIVER, and system app or service.
QueryDeviceCode(caller, busType) ==
  IF ~caller.permitted THEN "NO_PERM" ELSE IF busType = Invalid THEN "INVALID_PARAM" ELSE "OK"
QueryInfoCode(caller) ==
  IF ~caller.system THEN "NOT_SYSTEM_APP" ELSE IF ~caller.permitted THEN "NO_PERM" ELSE "OK"

\* QueryDevice: the devices of the bus, of which USB devices are sent.
QueryDevice(devices, busType) ==
  LET known(d) == d.busType = busType /\ d.busType = Usb
      data(d)  == [busType |-> d.busType, deviceId |-> d.deviceId, description |-> d.description,
                   productId |-> d.productId, vendorId |-> d.vendorId]
      found    == SelectSeq(devices, known)
  IN [i \in 1..Len(found) |-> data(found[i])]

ParseToDeviceInfoData(d) ==
  [deviceId |-> d.deviceId, isDriverMatched |-> d.hasDriver,
   driverUid |-> IF d.hasDriver THEN d.driverUid ELSE None,
   productId |-> d.productId, vendorId |-> d.vendorId,
   interfaceDescList |-> d.interfaceDescList]

\* QueryDeviceInfo, of all devices or of one; those of other buses are left out.
QueryDeviceInfo(devices, isByDeviceId, id) ==
  LET wanted(d) == d.busType = Usb /\ (isByDeviceId => d.deviceId = id)
      found     == SelectSeq(devices, wanted)
  IN [i \in 1..Len(found) |-> ParseToDeviceInfoData(found[i])]

\* QueryDriverInfo, of all drivers or of one; ParseToDriverInfoData.
QueryDriverInfo(drivers, isByDriverUid, uid) ==
  LET wanted(d) == d.busType = Usb /\ (isByDriverUid => d.driverUid = uid)
  IN SelectSeq(drivers, wanted)

-----------------------------------------------------------------------------
(***************************************************************************)
(* Errors, as the application sees them.                                   *)
(***************************************************************************)
PERMISSION_DENIED         == 201
PERMISSION_NOT_SYSTEM_APP == 202
PARAMETER_ERROR           == 401
SERVICE_EXCEPTION         == 22900001
SERVICE_EXCEPTION_NEW     == 26300001
SERVICE_NOT_ALLOW_ACCESS  == 26300002
SERVICE_NOT_BOUND         == 26300003

\* ProxyRetTranslate: what a failed call of the proxy means.
ProxyRetTranslate(r) ==
  CASE r = "ERR_INVALID_VALUE" -> "INVALID_OBJECT"
    [] r = "ERR_INVALID_DATA"  -> "INVALID_PARAM"
    [] OTHER                   -> r

QueryDevicesError(r)    == IF r = "NO_PERM" THEN PERMISSION_DENIED ELSE SERVICE_EXCEPTION
QueryDeviceInfoError(r) ==
  CASE r = "NOT_SYSTEM_APP" -> PERMISSION_NOT_SYSTEM_APP
    [] r = "NO_PERM"        -> PERMISSION_DENIED
    [] OTHER                -> SERVICE_EXCEPTION_NEW
QueryDriverInfoError(r) ==
  CASE r = "NOT_SYSTEM_APP" -> PERMISSION_NOT_SYSTEM_APP
    [] r = "NO_PERM"        -> PERMISSION_DENIED
    [] OTHER                -> SERVICE_EXCEPTION_NEW
BindDeviceError(r)      == IF r = "NO_PERM" THEN PERMISSION_DENIED ELSE SERVICE_EXCEPTION
BindDriverError(r)      ==
  CASE r = "NO_PERM"          -> PERMISSION_DENIED
    [] r = "NOT_ALLOW_ACCESS" -> SERVICE_NOT_ALLOW_ACCESS
    [] OTHER                  -> SERVICE_EXCEPTION_NEW
UnbindDeviceError(r)    == IF r = "NO_PERM" THEN PERMISSION_DENIED ELSE SERVICE_EXCEPTION
UnbindDriverError(r)    ==
  CASE r = "NO_PERM"   -> PERMISSION_DENIED
    [] r = "NOT_BOUND" -> SERVICE_NOT_BOUND
    [] OTHER           -> SERVICE_EXCEPTION_NEW

\* "Use this error code when the service is exception."
ServiceExceptions == {SERVICE_EXCEPTION, SERVICE_EXCEPTION_NEW}

-----------------------------------------------------------------------------
(***************************************************************************)
(* Conversion to values of the application.                                *)
(***************************************************************************)
\* A number of JavaScript is a double.
JsNumber(n) == [kind |-> "number", value |-> IF n <= MaxJsNumber THEN n ELSE n - (n % 2)]
BigInt(n)   == [kind |-> "bigint", value |-> n]

\* Variant: every id is a number.
ToNumber(id) == JsNumber(id)

ConvertToJsDeviceId(id) == IF id > MaxJsNumber THEN BigInt(id) ELSE JsNumber(id)

\* ParseDeviceId: napi_get_value_int64, or the big integer as it is.
ParseDeviceId(v) == v.value

ConvertDeviceToJsDevice(d) == [d EXCEPT !.deviceId = ConvertToJsDeviceId(@)]

ConvertToJsUSBInterfaceDesc(d) == d

\* driverUid is only there when a driver is matched.
ConvertToJsDeviceInfo(d) ==
  [deviceId |-> ConvertToJsDeviceId(d.deviceId), isDriverMatched |-> d.isDriverMatched,
   driverUid |-> IF d.isDriverMatched THEN d.driverUid ELSE None,
   vendorId |-> d.vendorId, productId |-> d.productId,
   interfaceDescList |-> [i \in DOMAIN d.interfaceDescList |->
                            ConvertToJsUSBInterfaceDesc(d.interfaceDescList[i])]]

ConvertToJsDriverInfo(d) ==
  [busType |-> d.busType, driverUid |-> d.driverUid, driverName |-> d.driverName,
   driverSize |-> d.bundleSize, driverVersion |-> d.version, description |-> d.description,
   productIdList |-> d.pids, vendorIdList |-> d.vids]

\* The taihe binding passes ids as 64-bit integers.
TaiheDeviceId(id) == [kind |-> "long", value |-> id]

ConvertToDevice(d) == [d EXCEPT !.deviceId = TaiheDeviceId(@)]

ConvertToDeviceInfo(d) ==
  [deviceId |-> TaiheDeviceId(d.deviceId), isDriverMatched |-> d.isDriverMatched,
   driverUid |-> IF d.isDriverMatched THEN d.driverUid ELSE None,
   vendorId |-> d.vendorId, productId |-> d.productId,
   interfaceDescList |-> d.interfaceDescList]

ConvertToDriverInfo(d) ==
  [busType |-> Usb, driverUid |-> d.driverUid, driverName |-> d.driverName,
   driverSize |-> d.bundleSize, driverVersion |-> d.version, description |-> d.description,
   productIdList |-> d.pids, vendorIdList |-> d.vids]
=============================================================================
