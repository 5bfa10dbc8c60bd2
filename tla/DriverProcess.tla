--------------------------- MODULE DriverProcess ---------------------------
(***************************************************************************)
(* A driver's process and the DDK library it is linked with: HID, USB,     *)
(* SCSI, serial or shared memory (frameworks/ddk).  The driver's one       *)
(* thread calls the library's C functions; the IPC thread delivers death   *)
(* notices of the HDI service the library is a client of.                  *)
(*                                                                         *)
(* g_ddk is the instance of the service its proxy belongs to, 0 for null.  *)
(* A function that uses g_ddk does so twice: it tests it for null on       *)
(* entry, and calls through it later.  Between the two the service may die *)
(* and, unless the function holds g_mutex, the death notice may clear      *)
(* g_ddk: the call through a null pointer ends the process.                *)
(*                                                                         *)
(* The service, the kernel's mmap and file descriptors, and the driver's   *)
(* own code are external: they answer in every way the library allows for. *)
(***************************************************************************)
EXTENDS Integers, Sequences, FiniteSets, Functions, ScsiData

CONSTANTS Drivers,        \* the kinds of driver to check, a subset of DriverKinds
          MaxDeaths,      \* deaths of the service, for each kind of driver
          MaxRecipients,  \* death recipients registered with one instance, for each kind
          HidIds,         \* device ids of the HID service
          HidDevices,     \* what a HID driver creates: name and properties, one value
          MaxFds,         \* file descriptors
          Addresses,      \* where mmap can map
          MapSize,        \* size of a SCSI memory map
          Buffers,        \* the used buffers a SCSI driver chooses, as [offset, length]
          ConfigInputs,   \* what the USB service answers: configurations, with their bytes
          SenseInputs,    \* sense data, with its data and length
          ConfigParser(_),    \* UsbConfigDesc!ParseUsbConfigDescriptor
          SenseParser(_, _)   \* SenseData!ParseBasicSenseInfo

\* A kind of driver is a set of functions it calls: HID devices, HID handles, USB, parsing
\* descriptors, SCSI without and with transfers, serial, shared memory.
DriverKinds == {"hid", "hidraw", "usb", "descriptor", "scsi", "scsidata", "serial", "ashmem"}
Hid == {"hid", "hidraw"}
Usb == {"usb", "descriptor"}
Scsi == {"scsi", "scsidata"}

ASSUME BoundsAssumption ==
  /\ Drivers \subseteq DriverKinds
  /\ MaxDeaths \in [DriverKinds -> Nat]
  /\ MaxRecipients \in [DriverKinds -> Nat]
  /\ MaxFds \in Nat /\ MapSize \in Nat
  /\ Buffers \subseteq [offset : Nat, length : Nat]

VARIABLES
  driver,     \* the kind of this driver
  service,    \* [up, instance] of the HDI service
  g_ddk,
  recipient,  \* recipient_: the instance whose proxy got it, 0 for null
  watched,    \* death recipients of this process with each instance
  notices,    \* death notices on their way
  promised,   \* g_ddk came from a call that registered a recipient and said so
  g_mutex,    \* held by the driver's thread
  call,       \* the call the driver is in
  out,        \* what the last call gave the driver
  dev,        \* the driver's handle
  hid,        \* g_deviceMap, the service's devices, strayed: OH_Hid_DestroyDevice
  fds,        \* open file descriptors
  usb,        \* g_fdMap, the mapped addresses, the descriptors mmap's failure left behind
  mem,        \* the SCSI memory map and what the driver believes it holds
  ashmems     \* g_shareMemoryMap and the mapped ones

conn == <<service, g_ddk, recipient, watched, notices, promised>>
data == <<dev, hid, fds, usb, mem, ashmems>>
vars == <<driver, conn, g_mutex, call, out, data>>

Instances == 1..(MaxDeaths[driver] + 1)
Fds == 1..MaxFds
NoFd == 0
Codes == {"SUCCESS", "INIT_ERROR", "INVALID_PARAMETER", "INVALID_OPERATION", "SERVICE_ERROR",
          "MEMORY_ERROR", "IO_ERROR", "NO_PERM", "IPC_ERROR", "FAILURE", "NULL_PTR", "NONE"}
Idle == [op |-> "idle", step |-> "idle", arg |-> 0]
Nothing == [code |-> "NONE", kind |-> "none"]
NoDev == [open |-> FALSE, instance |-> 0, fd |-> NoFd, nonBlock |-> 0]
NoMem == [bytes |-> <<>>, offset |-> 0, bufferLength |-> 0, want |-> <<>>, before |-> <<>>]

Init ==
  /\ driver \in Drivers
  /\ service = [up |-> TRUE, instance |-> 1]
  /\ g_ddk = 0 /\ recipient = 0 /\ promised = FALSE
  /\ watched = [i \in Instances |-> 0] /\ notices = [i \in Instances |-> 0]
  /\ g_mutex = FALSE /\ call = Idle /\ out = Nothing
  /\ dev = NoDev /\ fds = {} /\ mem = NoMem
  /\ hid = [deviceMap |-> <<>>, devices |-> <<>>, strayed |-> FALSE]
  /\ usb = [g_fdMap |-> <<>>, mapped |-> {}, leaked |-> {}]
  /\ ashmems = [map |-> {}, address |-> {}]

------------------------------------------------------------------------------
(* Calls. *)

Serving(i) == service.up /\ service.instance = i
\* The service's answers to a call through g_ddk.
Answers == IF Serving(g_ddk) THEN {"SUCCESS", "IO_ERROR", "NO_PERM"} ELSE {"IPC_ERROR"}

\* TransToHidCode, TransToDdkErrCode and TransToUsbSerialCode; TransToUsbCode has no code for
\* a failed IPC and passes it on.
TransToCode(ret) ==
  IF ret = "IPC_ERROR" /\ driver \notin Usb THEN "SERVICE_ERROR" ELSE ret
\* ControlTransfer's default code.
TransToUsbCodeOr(ret, default) == IF ret = "IPC_ERROR" THEN default ELSE ret

NullCode == IF driver \in Usb THEN "INVALID_OPERATION" ELSE "INIT_ERROR"

CallFrom(kinds, op) == driver \in kinds /\ call = Idle
In(op, step) == call.op = op /\ call.step = step
Goto(op, step, arg) == call' = [op |-> op, step |-> step, arg |-> arg]

Return(code) == call' = Idle /\ out' = [code |-> code, kind |-> "none"]
ReturnWith(result) == call' = Idle /\ out' = result

\* A call through a null g_ddk.
Crash == /\ g_ddk = 0
         /\ call' = [call EXCEPT !.step = "crashed"]
         /\ UNCHANGED <<driver, conn, g_mutex, out, data>>

\* The tests every function that needs the service starts with.  valid says whether the
\* driver's own arguments pass.
Tests(op, valid, arg) ==
  /\ IF g_ddk = 0 THEN Return(NullCode)
     ELSE IF ~valid THEN Return("INVALID_PARAMETER")
     ELSE Goto(op, "use", arg) /\ out' = Nothing
  /\ UNCHANGED <<driver, conn, g_mutex, data>>

\* A function that tests, calls, and changes nothing else in this process.  The USB library
\* has no death recipient: nothing clears g_ddk in between.
Steady(kinds, op, valids) ==
  \/ CallFrom(kinds, op) /\ \E valid \in valids : Tests(op, valid, 0)
  \/ /\ In(op, "use") /\ g_ddk # 0
     /\ \E ret \in Answers : Return(TransToCode(ret))
     /\ UNCHANGED <<driver, conn, g_mutex, data>>

\* The same in a library whose death recipient may clear g_ddk.
Simple(kinds, op, valids) ==
  \/ Steady(kinds, op, valids)
  \/ In(op, "use") /\ Crash

\* The answer is copied into the driver's buffer: memcpy_s fails when it does not fit.
CopyFails(op) ==
  /\ In(op, "use") /\ Serving(g_ddk) /\ Return("MEMORY_ERROR")
  /\ UNCHANGED <<driver, conn, g_mutex, data>>
Fetching(kinds, op, valids) == Simple(kinds, op, valids) \/ CopyFails(op)

------------------------------------------------------------------------------
(* The service and its death. *)

\* IxxxDdk::Get
Get == IF service.up THEN service.instance ELSE 0

ServiceDies ==
  /\ service.up /\ service.instance <= MaxDeaths[driver]
  /\ service' = [service EXCEPT !.up = FALSE]
  /\ notices' = [notices EXCEPT ![service.instance] = @ + watched[service.instance]]
  /\ watched' = [watched EXCEPT ![service.instance] = 0]
  /\ hid' = [hid EXCEPT !.devices = <<>>]
  /\ UNCHANGED <<driver, g_ddk, recipient, promised, g_mutex, call, out, dev, fds, usb, mem,
                 ashmems>>

ServiceStarts ==
  /\ ~service.up
  /\ service' = [up |-> TRUE, instance |-> service.instance + 1]
  /\ UNCHANGED <<driver, g_ddk, recipient, watched, notices, promised, g_mutex, call, out, data>>

\* Variants of OnRemoteDied: without the lock, one that keeps g_ddk, and one that takes a
\* recipient away twice.
OnRemoteDiedUnlocked ==
  /\ \E i \in Instances :
       /\ notices[i] > 0
       /\ notices' = [notices EXCEPT ![i] = @ - 1]
       /\ g_ddk' = 0 /\ recipient' = 0 /\ promised' = FALSE /\ watched' = watched
  /\ UNCHANGED <<driver, service, g_mutex, call, out, data>>

OnRemoteDiedKeepsProxy ==
  /\ ~g_mutex /\ call.step # "crashed"
  /\ \E i \in Instances :
       /\ notices[i] > 0
       /\ notices' = [notices EXCEPT ![i] = @ - 1]
       /\ recipient' = 0
  /\ UNCHANGED <<driver, service, g_ddk, watched, promised, g_mutex, call, out, data>>

OnRemoteDiedRemovesTwice ==
  /\ ~g_mutex /\ call.step # "crashed"
  /\ \E i \in Instances :
       /\ notices[i] > 0
       /\ notices' = [notices EXCEPT ![i] = @ - 1]
       /\ watched' = IF g_ddk = 0 THEN watched ELSE [watched EXCEPT ![g_ddk] = @ - 1]
       /\ g_ddk' = 0 /\ recipient' = 0 /\ promised' = FALSE
  /\ UNCHANGED <<driver, service, g_mutex, call, out, data>>

\* The three DeathRecipient::OnRemoteDied.  It does not look whose death it is told of.
OnRemoteDied ==
  /\ ~g_mutex /\ call.step # "crashed"
  /\ \E i \in Instances :
       /\ notices[i] > 0
       /\ notices' = [notices EXCEPT ![i] = @ - 1]
       /\ IF g_ddk = 0 THEN UNCHANGED <<g_ddk, recipient, watched, promised>>
          ELSE /\ g_ddk' = 0
               /\ watched' = IF recipient = g_ddk /\ watched[g_ddk] > 0
                             THEN [watched EXCEPT ![g_ddk] = @ - 1] ELSE watched
               /\ recipient' = 0
               /\ promised' = FALSE
  /\ UNCHANGED <<driver, service, g_mutex, call, out, data>>

\* Variant: a recipient left from an earlier instance is taken to be enough.
AddDeathRecipientOnce(i) ==
  /\ recipient' = i
  /\ watched' = IF Serving(i) /\ recipient = 0 THEN [watched EXCEPT ![i] = @ + 1] ELSE watched

\* new DeathRecipient; remote->AddDeathRecipient fails when the service is dead.
AddDeathRecipient(i) ==
  /\ recipient' = i
  /\ watched' = IF Serving(i) THEN [watched EXCEPT ![i] = @ + 1] ELSE watched

------------------------------------------------------------------------------
(* Init and Release. *)

\* OH_ScsiPeripheral_Init, OH_UsbSerial_Init: none of it under g_mutex.
InitWatching ==
  LET op == "InitWatching" IN
  \/ /\ CallFrom(Scsi \union {"serial"}, op)
     /\ service.up => watched[service.instance] < MaxRecipients[driver]
     /\ g_ddk' = Get /\ promised' = FALSE
     /\ IF Get = 0 THEN Return("INIT_ERROR") ELSE Goto(op, "watch", 0) /\ out' = Nothing
     /\ UNCHANGED <<driver, service, recipient, watched, notices, g_mutex, data>>
  \/ In(op, "watch") /\ Crash
  \/ /\ In(op, "watch") /\ g_ddk # 0
     /\ AddDeathRecipient(g_ddk)
     /\ IF Serving(g_ddk) THEN promised' = TRUE /\ Goto(op, "use", 0) /\ out' = Nothing
        ELSE promised' = promised /\ Return("INIT_ERROR")
     /\ UNCHANGED <<driver, service, g_ddk, notices, g_mutex, data>>
  \/ In(op, "use") /\ Crash
  \/ /\ In(op, "use") /\ g_ddk # 0
     /\ \E ret \in Answers : Return(TransToCode(ret))
     /\ UNCHANGED <<driver, conn, g_mutex, data>>

OH_ScsiPeripheral_Init == driver \in Scsi /\ InitWatching
OH_UsbSerial_Init == driver = "serial" /\ InitWatching

\* OH_Hid_Init, OH_Usb_Init: no death recipient, and the HID library's devices are not
\* created again.
InitUnwatched ==
  LET op == "InitUnwatched" IN
  \/ /\ CallFrom(Hid \union Usb, op)
     /\ g_ddk' = Get /\ promised' = FALSE
     /\ IF Get = 0 THEN Return(NullCode) ELSE Goto(op, "use", 0) /\ out' = Nothing
     /\ UNCHANGED <<driver, service, recipient, watched, notices, g_mutex, data>>
  \/ In(op, "use") /\ Crash
  \/ /\ In(op, "use") /\ g_ddk # 0
     /\ \E ret \in Answers : Return(TransToCode(ret))
     /\ UNCHANGED <<driver, conn, g_mutex, data>>

OH_Hid_Init == driver \in Hid /\ InitUnwatched
OH_Usb_Init == driver \in Usb /\ InitUnwatched

\* g_ddk->Release(); g_ddk.clear().  The recipient stays registered.
ReleaseProxy(op) ==
  /\ In(op, "use") /\ g_ddk # 0
  /\ \E ret \in Answers : Return(TransToCode(ret))
  /\ g_ddk' = 0 /\ promised' = FALSE
  /\ UNCHANGED <<driver, service, recipient, watched, notices, g_mutex, data>>

ReleaseOf(kinds, op) ==
  \/ CallFrom(kinds, op) /\ Tests(op, TRUE, 0)
  \/ In(op, "use") /\ Crash
  \/ ReleaseProxy(op)

OH_Hid_Release == ReleaseOf(Hid, "OH_Hid_Release")
OH_ScsiPeripheral_Release == ReleaseOf({"scsi"}, "OH_ScsiPeripheral_Release")
OH_UsbSerial_Release == ReleaseOf({"serial"}, "OH_UsbSerial_Release")

\* The USB library first closes the descriptors of all maps; the maps stay.
CloseAll(op) ==
  /\ CallFrom({"usb"}, op) /\ g_ddk # 0
  /\ fds' = fds \ Range(usb.g_fdMap)
  /\ usb' = [usb EXCEPT !.g_fdMap = <<>>]
  /\ Goto(op, "use", 0) /\ out' = Nothing
  /\ UNCHANGED <<driver, conn, g_mutex, dev, hid, mem, ashmems>>

UsbReleaseOf(op) ==
  \/ CallFrom({"usb"}, op) /\ g_ddk = 0 /\ Tests(op, TRUE, 0)
  \/ CloseAll(op)
  \/ ReleaseProxy(op)

OH_Usb_Release == UsbReleaseOf("OH_Usb_Release")
OH_Usb_ReleaseResource == UsbReleaseOf("OH_Usb_ReleaseResource")

------------------------------------------------------------------------------
(* HID: the devices a driver creates.  These three functions hold g_mutex. *)

Put(f, k, v) == [x \in DOMAIN f \union {k} |-> IF x = k THEN v ELSE f[x]]

Invalid == -1

LockFor(kinds, op, arg) ==
  /\ CallFrom(kinds, op) /\ ~g_mutex
  /\ g_mutex' = TRUE
  /\ Goto(op, "connect", arg) /\ out' = Nothing
  /\ UNCHANGED <<driver, conn, data>>

Unlock(code) == g_mutex' = FALSE /\ Return(code)

\* Variant: the new ids are not stored.
RecreateKeepsIds(i) ==
  \E done \in SUBSET DOMAIN hid.deviceMap :
    \E id \in Injection(done, HidIds \ DOMAIN hid.devices) :
      hid' = [hid EXCEPT
        !.deviceMap = [k \in DOMAIN @ |->
          IF k \in done THEN [@[k] EXCEPT !.instance = i] ELSE @[k]],
        !.devices = [r \in DOMAIN @ \union Range(id) |->
          IF r \in DOMAIN @ THEN @[r]
          ELSE hid.deviceMap[CHOOSE k \in done : id[k] = r].tag]]

\* CreateDevice of every cached device; the order is the hash table's, the answers are not
\* looked at, and only a success changes realId.
Recreate(i) ==
  \E done \in SUBSET DOMAIN hid.deviceMap :
    \E id \in Injection(done, HidIds \ DOMAIN hid.devices) :
      hid' = [hid EXCEPT
        !.deviceMap = [k \in DOMAIN @ |->
          IF k \in done THEN [@[k] EXCEPT !.realId = id[k], !.instance = i] ELSE @[k]],
        !.devices = [r \in DOMAIN @ \union Range(id) |->
          IF r \in DOMAIN @ THEN @[r]
          ELSE hid.deviceMap[CHOOSE k \in done : id[k] = r].tag]]

Connect(op) ==
  \/ /\ In(op, "connect") /\ g_ddk # 0
     /\ Goto(op, "use", call.arg)
     /\ UNCHANGED <<driver, conn, g_mutex, out, data>>
  \/ /\ In(op, "connect") /\ g_ddk = 0 /\ Get = 0
     /\ Unlock("INVALID_OPERATION")
     /\ UNCHANGED <<driver, conn, data>>
  \/ /\ In(op, "connect") /\ g_ddk = 0 /\ Get # 0 /\ watched[Get] < MaxRecipients[driver]
     /\ g_ddk' = Get /\ promised' = FALSE
     /\ Recreate(Get)
     /\ Goto(op, "watch", call.arg)
     /\ UNCHANGED <<driver, service, recipient, watched, notices, g_mutex, out, dev, fds, usb,
                    mem, ashmems>>
  \/ /\ In(op, "watch")
     /\ AddDeathRecipient(g_ddk)
     /\ IF Serving(g_ddk)
        THEN promised' = TRUE /\ Goto(op, "use", call.arg) /\ UNCHANGED <<g_mutex, out>>
        ELSE promised' = FALSE /\ Unlock("INVALID_OPERATION")
     /\ UNCHANGED <<driver, service, g_ddk, notices, data>>

GetRealDeviceId(k) == IF k \in DOMAIN hid.deviceMap THEN hid.deviceMap[k].realId ELSE k

CacheDeviceInfor(id, tag) ==
  Put(hid.deviceMap, id, [tag |-> tag, realId |-> id, instance |-> g_ddk])

\* CheckHidDevice and the limits of the event properties: arg is the device, or Invalid.
OH_Hid_CreateDevice ==
  LET op == "OH_Hid_CreateDevice" IN
  \/ \E arg \in HidDevices \union {Invalid} : LockFor({"hid"}, op, arg)
  \/ Connect(op)
  \/ /\ In(op, "use") /\ call.arg = Invalid
     /\ Unlock("INVALID_PARAMETER")
     /\ UNCHANGED <<driver, conn, data>>
  \/ /\ In(op, "use") /\ call.arg # Invalid
     /\ IF g_ddk = 0 THEN Crash
        ELSE \E ret \in Answers :
               /\ Unlock(ret)
               /\ IF ret = "SUCCESS"
                  THEN \E id \in HidIds \ DOMAIN hid.devices :
                         hid' = [hid EXCEPT !.devices = Put(@, id, call.arg),
                                            !.deviceMap = CacheDeviceInfor(id, call.arg)]
                  ELSE hid' = hid
               /\ UNCHANGED <<driver, conn, dev, fds, usb, mem, ashmems>>

OH_Hid_EmitEvent ==
  LET op == "OH_Hid_EmitEvent" IN
  \/ \E arg \in HidIds \union {Invalid} : LockFor(Hid, op, arg)
  \/ Connect(op)
  \/ /\ In(op, "use") /\ call.arg = Invalid
     /\ Unlock("INVALID_PARAMETER")
     /\ UNCHANGED <<driver, conn, data>>
  \/ /\ In(op, "use") /\ call.arg # Invalid
     /\ IF g_ddk = 0 THEN Crash
        ELSE \E ret \in Answers :
               /\ ret = "SUCCESS" => GetRealDeviceId(call.arg) \in DOMAIN hid.devices
               /\ Unlock(ret)
               /\ UNCHANGED <<driver, conn, data>>

\* Not an id of the driver's, or one of a device whose re-creation failed: its realId is a number
\* of an earlier instance.
NamesNoDevice(id) ==
  \/ id \notin DOMAIN hid.deviceMap
  \/ ~Serving(hid.deviceMap[id].instance)

\* strayed: an id that names no device was destroyed, and the number the service got for it was
\* that of another cached device.
OH_Hid_DestroyDevice ==
  LET op == "OH_Hid_DestroyDevice"
      real == GetRealDeviceId(call.arg)
  IN
  \/ \E arg \in HidIds : LockFor({"hid"}, op, arg)
  \/ Connect(op)
  \/ /\ In(op, "use")
     /\ IF g_ddk = 0 THEN Crash
        ELSE \E ret \in Answers :
               /\ ret = "SUCCESS" => real \in DOMAIN hid.devices
               /\ Unlock(ret)
               /\ hid' = IF ret # "SUCCESS" THEN hid
                         ELSE [deviceMap |-> Restrict(hid.deviceMap,
                                                      DOMAIN hid.deviceMap \ {call.arg}),
                               devices |-> Restrict(hid.devices, DOMAIN hid.devices \ {real}),
                               strayed |->
                                 \/ hid.strayed
                                 \/ /\ NamesNoDevice(call.arg)
                                    /\ \E k \in DOMAIN hid.deviceMap \ {call.arg} :
                                         hid.deviceMap[k].realId = real]
               /\ UNCHANGED <<driver, conn, dev, fds, usb, mem, ashmems>>

------------------------------------------------------------------------------
(* Handles: HID, serial and SCSI.  None of these functions takes g_mutex. *)

FreeFds == Fds \ fds

\* The handle is allocated before the service is asked; a failed Open leaves it to the driver.
OpenOf(kinds, op) ==
  \/ CallFrom(kinds, op) /\ ~dev.open /\ \E valid \in BOOLEAN : Tests(op, valid, 0)
  \/ In(op, "use") /\ Crash
  \/ /\ In(op, "use") /\ g_ddk # 0
     /\ \E ret \in Answers :
          /\ Return(TransToCode(ret))
          /\ IF ret # "SUCCESS" THEN dev' = [NoDev EXCEPT !.open = TRUE] /\ fds' = fds
             ELSE \E fd \in IF driver \in Scsi THEN FreeFds ELSE {NoFd} :
                    /\ dev' = [NoDev EXCEPT !.open = TRUE, !.instance = g_ddk, !.fd = fd]
                    /\ fds' = fds \union ({fd} \ {NoFd})
     /\ UNCHANGED <<driver, conn, g_mutex, hid, usb, mem, ashmems>>

\* The handle goes whatever the service answers, but not when g_ddk is null; the SCSI one
\* closes its descriptor, which fails for the handle of a failed Open.
CloseOf(kinds, op) ==
  \/ CallFrom(kinds, op) /\ Tests(op, dev.open, 0)
  \/ In(op, "use") /\ Crash
  \/ /\ In(op, "use") /\ g_ddk # 0
     /\ \E ret \in Answers :
          Return(IF ret = "SUCCESS" /\ driver \in Scsi /\ dev.fd = NoFd THEN "IO_ERROR"
                 ELSE TransToCode(ret))
     /\ dev' = NoDev
     /\ fds' = fds \ {dev.fd}
     /\ UNCHANGED <<driver, conn, g_mutex, hid, usb, mem, ashmems>>

OH_Hid_Open == OpenOf({"hidraw"}, "OH_Hid_Open")
OH_Hid_Close == CloseOf({"hidraw"}, "OH_Hid_Close")
OH_UsbSerial_Open == OpenOf({"serial"}, "OH_UsbSerial_Open")
OH_UsbSerial_Close == CloseOf({"serial"}, "OH_UsbSerial_Close")
OH_ScsiPeripheral_Open == OpenOf(Scsi, "OH_ScsiPeripheral_Open")
OH_ScsiPeripheral_Close == CloseOf({"scsi"}, "OH_ScsiPeripheral_Close")

\* The handle keeps the mode the service has accepted.
OH_Hid_SetNonBlocking ==
  LET op == "OH_Hid_SetNonBlocking" IN
  \/ CallFrom({"hidraw"}, op) /\ \E mode \in {0, 1}, valid \in {dev.open, FALSE} :
                               Tests(op, valid, mode)
  \/ In(op, "use") /\ Crash
  \/ /\ In(op, "use") /\ g_ddk # 0
     /\ \E ret \in Answers :
          /\ Return(TransToCode(ret))
          /\ dev' = IF ret = "SUCCESS" THEN [dev EXCEPT !.nonBlock = call.arg] ELSE dev
     /\ UNCHANGED <<driver, conn, g_mutex, hid, fds, usb, mem, ashmems>>

\* The functions on a handle that leave the library's state alone.
WithHandle == {dev.open, FALSE}
OH_Hid_Write == Simple({"hidraw"}, "OH_Hid_Write", WithHandle)
OH_Hid_SendReport == Simple({"hidraw"}, "OH_Hid_SendReport", WithHandle)
OH_Hid_GetRawInfo == Simple({"hidraw"}, "OH_Hid_GetRawInfo", WithHandle)
OH_Hid_ReadTimeout == Fetching({"hidraw"}, "OH_Hid_ReadTimeout", WithHandle)
OH_Hid_Read == Fetching({"hidraw"}, "OH_Hid_Read", WithHandle)
OH_Hid_GetRawName == Fetching({"hidraw"}, "OH_Hid_GetRawName", WithHandle)
OH_Hid_GetPhysicalAddress == Fetching({"hidraw"}, "OH_Hid_GetPhysicalAddress", WithHandle)
OH_Hid_GetReport == Fetching({"hidraw"}, "OH_Hid_GetReport", WithHandle)
OH_Hid_GetReportDescriptor == Fetching({"hidraw"}, "OH_Hid_GetReportDescriptor", WithHandle)
\* memcpy_s is given the size of the answer as the size of the buffer: it does not fail.
OH_Hid_GetRawUniqueId == Simple({"hidraw"}, "OH_Hid_GetRawUniqueId", WithHandle)
OH_UsbSerial_Read == Fetching({"serial"}, "OH_UsbSerial_Read", WithHandle)
OH_UsbSerial_Write == Simple({"serial"}, "OH_UsbSerial_Write", WithHandle)
OH_UsbSerial_SetBaudRate == Simple({"serial"}, "OH_UsbSerial_SetBaudRate", WithHandle)
OH_UsbSerial_SetParams == Simple({"serial"}, "OH_UsbSerial_SetParams", WithHandle)
OH_UsbSerial_SetTimeout == Simple({"serial"}, "OH_UsbSerial_SetTimeout", WithHandle)
OH_UsbSerial_SetFlowControl == Simple({"serial"}, "OH_UsbSerial_SetFlowControl", WithHandle)
OH_UsbSerial_Flush == Simple({"serial"}, "OH_UsbSerial_Flush", WithHandle)
OH_UsbSerial_FlushInput == Simple({"serial"}, "OH_UsbSerial_FlushInput", WithHandle)
OH_UsbSerial_FlushOutput == Simple({"serial"}, "OH_UsbSerial_FlushOutput", WithHandle)
OH_ScsiPeripheral_TestUnitReady == Fetching({"scsi"}, "OH_ScsiPeripheral_TestUnitReady", WithHandle)
OH_ScsiPeripheral_ReadCapacity10 ==
  Fetching({"scsi"}, "OH_ScsiPeripheral_ReadCapacity10", WithHandle)
OH_ScsiPeripheral_RequestSense == Fetching({"scsi"}, "OH_ScsiPeripheral_RequestSense", WithHandle)
OH_ScsiPeripheral_Verify10 == Fetching({"scsi"}, "OH_ScsiPeripheral_Verify10", WithHandle)

------------------------------------------------------------------------------
(* USB: requests and memory maps. *)

OH_Usb_GetDeviceDescriptor == Steady({"usb"}, "OH_Usb_GetDeviceDescriptor", BOOLEAN)
OH_Usb_ClaimInterface == Steady({"usb"}, "OH_Usb_ClaimInterface", BOOLEAN)
OH_Usb_GetCurrentInterfaceSetting == Steady({"usb"}, "OH_Usb_GetCurrentInterfaceSetting", BOOLEAN)
OH_Usb_SendControlWriteRequest == Steady({"usb"}, "OH_Usb_SendControlWriteRequest", BOOLEAN)
OH_Usb_GetDevices == Steady({"usb"}, "OH_Usb_GetDevices", BOOLEAN)
OH_Usb_GetNonRootHubs == Steady({"usb"}, "OH_Usb_GetNonRootHubs", BOOLEAN)
OH_Usb_ReleaseInterface == Steady({"usb"}, "OH_Usb_ReleaseInterface", {TRUE})
OH_Usb_SelectInterfaceSetting == Steady({"usb"}, "OH_Usb_SelectInterfaceSetting", {TRUE})
\* An answer longer than the driver's buffer is INVALID_PARAMETER too.
OH_Usb_SendControlReadRequest ==
  \/ Steady({"usb"}, "OH_Usb_SendControlReadRequest", BOOLEAN)
  \/ CopyFails("OH_Usb_SendControlReadRequest")
  \/ In("OH_Usb_SendControlReadRequest", "use") /\ Serving(g_ddk) /\ Return("INVALID_PARAMETER")
     /\ UNCHANGED <<driver, conn, g_mutex, data>>
\* A map must exist, with the used part inside it.
OH_Usb_SendPipeRequest ==
  Steady({"usb"}, "OH_Usb_SendPipeRequest", {usb.mapped # {}, FALSE})
OH_Usb_SendPipeRequestWithAshmem ==
  Steady({"usb"}, "OH_Usb_SendPipeRequestWithAshmem", BOOLEAN)

OH_Usb_ControlTransfer ==
  LET op == "OH_Usb_ControlTransfer" IN
  \/ CallFrom({"usb"}, op) /\ \E valid \in BOOLEAN : Tests(op, valid, 0)
  \/ /\ In(op, "use")
     /\ \/ \E ret \in Answers : Return(TransToUsbCodeOr(ret, "IO_ERROR"))
        \/ Serving(g_ddk) /\ Return("MEMORY_ERROR")
     /\ UNCHANGED <<driver, conn, g_mutex, data>>

\* Variant: the entry of a destroyed map stays.
FdMapWith(a) == usb.g_fdMap

FdMapWithout(a) == Restrict(usb.g_fdMap, DOMAIN usb.g_fdMap \ {a})

\* The one function that does not test g_ddk.
OH_Usb_CreateDeviceMemMap ==
  LET op == "OH_Usb_CreateDeviceMemMap" IN
  \/ /\ CallFrom({"usb"}, op)
     /\ \/ Return("INVALID_PARAMETER")
        \/ Goto(op, "use", 0) /\ out' = Nothing
     /\ UNCHANGED <<driver, conn, g_mutex, data>>
  \/ In(op, "use") /\ Crash
  \/ /\ In(op, "use") /\ g_ddk # 0
     /\ \E ret \in Answers \ {"SUCCESS"} : Return(TransToCode(ret))
     /\ UNCHANGED <<driver, conn, g_mutex, data>>
  \/ \* mmap fails: the descriptor stays open
     /\ In(op, "use") /\ Serving(g_ddk)
     /\ \E fd \in FreeFds :
          /\ fds' = fds \union {fd}
          /\ usb' = [usb EXCEPT !.leaked = @ \union {fd}]
     /\ Return("MEMORY_ERROR")
     /\ UNCHANGED <<driver, conn, g_mutex, dev, hid, mem, ashmems>>
  \/ /\ In(op, "use") /\ Serving(g_ddk)
     /\ \E fd \in FreeFds, a \in Addresses \ usb.mapped :
          /\ fds' = (fds \ {usb.g_fdMap[x] : x \in DOMAIN usb.g_fdMap \intersect {a}})
                      \union {fd}
          /\ usb' = [usb EXCEPT !.g_fdMap = Put(@, a, fd), !.mapped = @ \union {a}]
     /\ Return("SUCCESS")
     /\ UNCHANGED <<driver, conn, g_mutex, dev, hid, mem, ashmems>>

\* Needs no service.  After OH_Usb_Release the map has no descriptor any more.
OH_Usb_DestroyDeviceMemMap ==
  /\ CallFrom({"usb"}, "OH_Usb_DestroyDeviceMemMap")
  /\ \/ \* null, or munmap fails
        Return("NONE") /\ UNCHANGED <<fds, usb>>
     \/ \E a \in usb.mapped :
          /\ fds' = fds \ {usb.g_fdMap[x] : x \in DOMAIN usb.g_fdMap \intersect {a}}
          /\ usb' = [usb EXCEPT !.g_fdMap = FdMapWithout(a), !.mapped = @ \ {a}]
          /\ Return("NONE")
  /\ UNCHANGED <<driver, conn, g_mutex, dev, hid, mem, ashmems>>

------------------------------------------------------------------------------
(* USB configurations and SCSI sense data: the "descriptor" driver. *)

\* The service's bytes are one of ConfigInputs.  The parser may never return.
OH_Usb_GetConfigDescriptor ==
  LET op == "OH_Usb_GetConfigDescriptor" IN
  \/ CallFrom({"descriptor"}, op) /\ \E valid \in BOOLEAN : Tests(op, valid, 0)
  \/ /\ In(op, "use")
     /\ \E ret \in Answers \ {"SUCCESS"} : Return(TransToCode(ret))
     /\ UNCHANGED <<driver, conn, g_mutex, data>>
  \/ /\ In(op, "use") /\ Serving(g_ddk)
     /\ \E c \in ConfigInputs :
          LET r == ConfigParser(c.bytes)
          IN /\ out' = [code |-> IF r.ret = 0 THEN "SUCCESS" ELSE "FAILURE", kind |-> "config",
                        input |-> c, result |-> r]
             /\ call' = IF r.returns THEN Idle ELSE [call EXCEPT !.step = "parsing"]
     /\ UNCHANGED <<driver, conn, g_mutex, data>>

\* FreeUsbConfigDescriptor on what *config was set to, whatever the code was.
OH_Usb_FreeConfigDescriptor ==
  /\ CallFrom({"descriptor"}, "OH_Usb_FreeConfigDescriptor")
  /\ out.kind = "config" /\ out.result.config # {}
  /\ Return("NONE")
  /\ UNCHANGED <<driver, conn, g_mutex, data>>

\* Needs no service.  This driver looks at one result before it asks for another.
OH_ScsiPeripheral_ParseBasicSenseInfo ==
  /\ CallFrom({"descriptor"}, "OH_ScsiPeripheral_ParseBasicSenseInfo") /\ out.kind = "none"
  /\ \E c \in SenseInputs :
       LET r == SenseParser(c.data, c.len)
       IN ReturnWith([code |-> IF r = {} THEN "INVALID_PARAMETER" ELSE "SUCCESS",
                      kind |-> "sense", input |-> c, result |-> r])
  /\ UNCHANGED <<driver, conn, g_mutex, data>>

------------------------------------------------------------------------------
(* SCSI: the shared memory map and the transfers through it. *)

OH_ScsiPeripheral_CreateDeviceMemMap ==
  /\ CallFrom(Scsi, "OH_ScsiPeripheral_CreateDeviceMemMap") /\ mem = NoMem
  /\ \/ Return("INVALID_PARAMETER") /\ mem' = mem
     \/ dev.fd # NoFd /\ Return("MEMORY_ERROR") /\ mem' = mem
     \/ /\ dev.fd # NoFd /\ Return("SUCCESS")
        /\ LET zeros == [i \in 1..MapSize |-> 0]
           IN mem' = [bytes |-> zeros, offset |-> 0, bufferLength |-> MapSize, want |-> zeros,
                      before |-> <<>>]
  /\ UNCHANGED <<driver, conn, g_mutex, dev, hid, fds, usb, ashmems>>

OH_ScsiPeripheral_DestroyDeviceMemMap ==
  /\ CallFrom({"scsi"}, "OH_ScsiPeripheral_DestroyDeviceMemMap")
  /\ \/ mem = NoMem /\ Return("INVALID_PARAMETER") /\ mem' = mem
     \/ mem # NoMem /\ Return("MEMORY_ERROR") /\ mem' = mem
     \/ mem # NoMem /\ Return("SUCCESS") /\ mem' = NoMem
  /\ UNCHANGED <<driver, conn, g_mutex, dev, hid, fds, usb, ashmems>>

Over(bytes, start, new) ==
  [i \in DOMAIN bytes |-> IF start < i /\ i <= start + Len(new) THEN new[i - start]
                          ELSE bytes[i]]

\* The driver chooses the used buffer and fills it: the byte at p is p.  want is what the
\* driver has put into the map, or had read into it.
DriverFillsBuffer ==
  /\ CallFrom({"scsidata"}, "DriverFillsBuffer") /\ mem # NoMem
  /\ \E b \in Buffers :
       LET new == [i \in 1..b.length |-> b.offset + i]
       IN mem' = [mem EXCEPT !.offset = b.offset, !.bufferLength = b.length, !.before = <<>>,
                             !.bytes = Over(@, b.offset, new), !.want = Over(@, b.offset, new)]
  /\ out' = Nothing
  /\ UNCHANGED <<driver, conn, g_mutex, call, dev, hid, fds, usb, ashmems>>

\* What the device has: its i-th byte is MapSize + i.
DeviceBytes(n) == [i \in 1..n |-> MapSize + i]

StartTransfer(op, valid) ==
  /\ CallFrom({"scsidata"}, op)
  /\ IF g_ddk = 0 THEN Return("INIT_ERROR") /\ mem' = mem
     ELSE IF ~valid \/ ~dev.open \/ mem = NoMem \/ ~ValidateMemMap(mem)
     THEN Return("INVALID_PARAMETER") /\ mem' = mem
     ELSE /\ mem' = [NormalizeMemMap(mem) EXCEPT !.before = UsedBuffer(mem)]
          /\ Goto(op, "use", 0) /\ out' = Nothing
  /\ UNCHANGED <<driver, conn, g_mutex, dev, hid, fds, usb, ashmems>>

\* A failed transfer returns at once: the map stays as NormalizeMemMap left it.
FailTransfer(op) ==
  /\ In(op, "use") /\ g_ddk # 0
  /\ \E ret \in Answers \ {"SUCCESS"} : Return(TransToCode(ret))
  /\ UNCHANGED <<driver, conn, g_mutex, data>>

\* n bytes are transferred; CopyResponse may fail after the map is restored.  What the driver
\* and the device can compare: did a read deliver the device's bytes in the used buffer, were
\* a write's bytes those of the used buffer at the call, were they those the driver had stored.
Transfers(op, dir) ==
  /\ In(op, "use") /\ Serving(g_ddk)
  /\ \E n \in 0..MapSize, code \in {"SUCCESS", "MEMORY_ERROR"} :
       LET done == RestoreMemMap([mem EXCEPT !.bytes =
                     IF dir = "read" THEN Over(@, 0, DeviceBytes(n)) ELSE @], n)
           k == IF n < mem.bufferLength THEN n ELSE mem.bufferLength
       IN /\ mem' = [done EXCEPT !.before = <<>>,
                                 !.want = IF dir = "read" THEN Over(@, mem.offset, DeviceBytes(k))
                                          ELSE @]
          /\ ReturnWith(
               [code |-> code, kind |-> dir,
                delivered |-> SubSeq(UsedBuffer(done), 1, k) = DeviceBytes(k),
                sentGiven |-> SubSeq(mem.bytes, 1, k) = SubSeq(mem.before, 1, k),
                sentStored |-> SubSeq(mem.bytes, 1, k)
                                 = SubSeq(UsedBuffer([mem EXCEPT !.bytes = mem.want]), 1, k)])
  /\ UNCHANGED <<driver, conn, g_mutex, dev, hid, fds, usb, ashmems>>

TransferOf(op, dir) ==
  \/ \E valid \in BOOLEAN : StartTransfer(op, valid)
  \/ In(op, "use") /\ Crash
  \/ FailTransfer(op)
  \/ Transfers(op, dir)

OH_ScsiPeripheral_Inquiry == TransferOf("OH_ScsiPeripheral_Inquiry", "read")
OH_ScsiPeripheral_Read10 == TransferOf("OH_ScsiPeripheral_Read10", "read")
OH_ScsiPeripheral_Write10 == TransferOf("OH_ScsiPeripheral_Write10", "write")
OH_ScsiPeripheral_SendRequestByCdb ==
  \E dir \in {"read", "write"} : TransferOf("OH_ScsiPeripheral_SendRequestByCdb", dir)

------------------------------------------------------------------------------
(* Shared memory: the functions of base/ddk_api.cpp, each under its own g_mutex. *)

AshmemCall == driver = "ashmem" /\ call = Idle
AshmemValidityCheck(fd) == fd \in ashmems.map

OH_DDK_CreateAshmem ==
  /\ AshmemCall
  /\ \/ \E code \in {"INVALID_PARAMETER", "FAILURE"} : Return(code) /\ UNCHANGED <<fds, ashmems>>
     \/ \E fd \in FreeFds :
          /\ Return("SUCCESS")
          /\ fds' = fds \union {fd}
          /\ ashmems' = [ashmems EXCEPT !.map = @ \union {fd}]
  /\ UNCHANGED <<driver, conn, g_mutex, dev, hid, usb, mem>>

\* PORT_MAX and MapAshmem may refuse.
OH_DDK_MapAshmem ==
  /\ AshmemCall
  /\ \/ Return("NULL_PTR") /\ ashmems' = ashmems
     \/ \E fd \in Fds :
          \/ ~AshmemValidityCheck(fd) /\ Return("FAILURE") /\ ashmems' = ashmems
          \/ AshmemValidityCheck(fd) /\ Return("INVALID_OPERATION") /\ ashmems' = ashmems
          \/ /\ AshmemValidityCheck(fd) /\ Return("SUCCESS")
             /\ ashmems' = [ashmems EXCEPT !.address = @ \union {fd}]
  /\ UNCHANGED <<driver, conn, g_mutex, dev, hid, fds, usb, mem>>

OH_DDK_UnmapAshmem ==
  /\ AshmemCall
  /\ \/ Return("NULL_PTR") /\ ashmems' = ashmems
     \/ \E fd \in Fds :
          \/ ~AshmemValidityCheck(fd) /\ Return("FAILURE") /\ ashmems' = ashmems
          \/ /\ AshmemValidityCheck(fd) /\ Return("SUCCESS")
             /\ ashmems' = [ashmems EXCEPT !.address = @ \ {fd}]
  /\ UNCHANGED <<driver, conn, g_mutex, dev, hid, fds, usb, mem>>

\* Erasing the entry drops the last reference: the memory is unmapped, its descriptor closed.
OH_DDK_DestroyAshmem ==
  /\ AshmemCall
  /\ \/ Return("NULL_PTR") /\ UNCHANGED <<fds, ashmems>>
     \/ \E fd \in Fds :
          \/ ~AshmemValidityCheck(fd) /\ Return("FAILURE") /\ UNCHANGED <<fds, ashmems>>
          \/ /\ AshmemValidityCheck(fd) /\ Return("SUCCESS")
             /\ fds' = fds \ {fd}
             /\ ashmems' = [map |-> ashmems.map \ {fd}, address |-> ashmems.address \ {fd}]
  /\ UNCHANGED <<driver, conn, g_mutex, dev, hid, usb, mem>>

------------------------------------------------------------------------------
HidCalls ==
  \/ OH_Hid_Init
  \/ OH_Hid_Release
  \/ OH_Hid_CreateDevice
  \/ OH_Hid_EmitEvent
  \/ OH_Hid_DestroyDevice
  \/ OH_Hid_Open
  \/ OH_Hid_Close
  \/ OH_Hid_SetNonBlocking
  \/ OH_Hid_Write
  \/ OH_Hid_SendReport
  \/ OH_Hid_GetRawInfo
  \/ OH_Hid_ReadTimeout
  \/ OH_Hid_Read
  \/ OH_Hid_GetRawName
  \/ OH_Hid_GetPhysicalAddress
  \/ OH_Hid_GetReport
  \/ OH_Hid_GetReportDescriptor
  \/ OH_Hid_GetRawUniqueId
UsbCalls ==
  \/ OH_Usb_Init
  \/ OH_Usb_Release
  \/ OH_Usb_ReleaseResource
  \/ OH_Usb_GetDeviceDescriptor
  \/ OH_Usb_ClaimInterface
  \/ OH_Usb_GetCurrentInterfaceSetting
  \/ OH_Usb_SendControlWriteRequest
  \/ OH_Usb_GetDevices
  \/ OH_Usb_GetNonRootHubs
  \/ OH_Usb_ReleaseInterface
  \/ OH_Usb_SelectInterfaceSetting
  \/ OH_Usb_SendControlReadRequest
  \/ OH_Usb_SendPipeRequest
  \/ OH_Usb_SendPipeRequestWithAshmem
  \/ OH_Usb_ControlTransfer
  \/ OH_Usb_CreateDeviceMemMap
  \/ OH_Usb_DestroyDeviceMemMap
  \/ OH_Usb_GetConfigDescriptor
  \/ OH_Usb_FreeConfigDescriptor
ScsiCalls ==
  \/ OH_ScsiPeripheral_Init
  \/ OH_ScsiPeripheral_Release
  \/ OH_ScsiPeripheral_Open
  \/ OH_ScsiPeripheral_Close
  \/ OH_ScsiPeripheral_TestUnitReady
  \/ OH_ScsiPeripheral_ReadCapacity10
  \/ OH_ScsiPeripheral_RequestSense
  \/ OH_ScsiPeripheral_Verify10
  \/ OH_ScsiPeripheral_ParseBasicSenseInfo
  \/ OH_ScsiPeripheral_CreateDeviceMemMap
  \/ OH_ScsiPeripheral_DestroyDeviceMemMap
  \/ OH_ScsiPeripheral_Inquiry
  \/ OH_ScsiPeripheral_Read10
  \/ OH_ScsiPeripheral_Write10
  \/ OH_ScsiPeripheral_SendRequestByCdb
SerialCalls ==
  \/ OH_UsbSerial_Init
  \/ OH_UsbSerial_Release
  \/ OH_UsbSerial_Open
  \/ OH_UsbSerial_Close
  \/ OH_UsbSerial_Read
  \/ OH_UsbSerial_Write
  \/ OH_UsbSerial_SetBaudRate
  \/ OH_UsbSerial_SetParams
  \/ OH_UsbSerial_SetTimeout
  \/ OH_UsbSerial_SetFlowControl
  \/ OH_UsbSerial_Flush
  \/ OH_UsbSerial_FlushInput
  \/ OH_UsbSerial_FlushOutput
AshmemCalls ==
  \/ OH_DDK_CreateAshmem
  \/ OH_DDK_MapAshmem
  \/ OH_DDK_UnmapAshmem
  \/ OH_DDK_DestroyAshmem

DriverCalls == HidCalls \/ UsbCalls \/ ScsiCalls \/ SerialCalls \/ AshmemCalls

Next ==
  \/ DriverCalls
  \/ DriverFillsBuffer
  \/ OnRemoteDied
  \/ ServiceDies
  \/ ServiceStarts

Spec == Init /\ [][Next]_vars

\* A call goes on until it returns, and the IPC thread gets g_mutex in the end although the
\* driver's thread may take it again and again.
FairSpec ==
  /\ Spec
  /\ WF_vars(call # Idle /\ DriverCalls)
  /\ SF_vars(OnRemoteDied)

------------------------------------------------------------------------------
(* Properties. *)

\* Types; the library's maps name only ids, descriptors and addresses there are, and no more
\* recipients and notices are counted than were registered.
TypeOK ==
  /\ driver \in DriverKinds
  /\ service \in [up : BOOLEAN, instance : Instances]
  /\ g_ddk \in {0} \union Instances /\ recipient \in {0} \union Instances
  /\ watched \in [Instances -> 0..MaxRecipients[driver]]
  /\ notices \in [Instances -> 0..MaxRecipients[driver]]
  /\ promised \in BOOLEAN /\ g_mutex \in BOOLEAN
  /\ call.step \in {"idle", "connect", "watch", "use", "parsing", "crashed"}
  /\ out.code \in Codes
  /\ dev \in [open : BOOLEAN, instance : {0} \union Instances, fd : {NoFd} \union Fds,
              nonBlock : {0, 1}]
  /\ DOMAIN hid.deviceMap \subseteq HidIds /\ DOMAIN hid.devices \subseteq HidIds
  /\ fds \subseteq Fds
  /\ DOMAIN usb.g_fdMap \subseteq Addresses /\ usb.mapped \subseteq Addresses
  /\ mem = NoMem \/ (Len(mem.bytes) = MapSize /\ Len(mem.want) = MapSize)
  /\ ashmems.map \subseteq Fds /\ ashmems.address \subseteq ashmems.map

\* The process dies of a null g_ddk only in a function that does not hold g_mutex, after a
\* death of the service, or in OH_Usb_CreateDeviceMemMap, which does not test it: Connect
\* and the rest of a HID call are one critical section against OnRemoteDied
\* (input_emit_event.cpp:110, :270).
CrashIsAnUnlockedRace ==
  call.step = "crashed" =>
    \/ call.op = "OH_Usb_CreateDeviceMemMap"
    \/ /\ call.op \notin {"OH_Hid_CreateDevice", "OH_Hid_EmitEvent", "OH_Hid_DestroyDevice"}
       /\ driver \in Hid \union Scsi \union {"serial"}
       /\ ~service.up \/ service.instance > 1

\* A proxy the library has promised to watch is watched as long as its service lives, however
\* Init, Release, restarts and late notices of earlier instances follow each other: a late
\* notice takes the recipient away only together with g_ddk (scsi_ddk_api.cpp:335).
ProxyIsWatched ==
  promised /\ Serving(g_ddk) => watched[g_ddk] > 0

\* A cached HID device that the living service has created names that device with its realId,
\* and shares the number with no other such entry, through deaths, re-creations under new ids and
\* destructions (input_emit_event.cpp:140).  Two things are outside: an entry whose re-creation
\* failed keeps a number of an earlier instance and names nothing; and once the driver has
\* destroyed such an id, or one it never had, and hit another device, that other entry is wrong
\* too (strayed).
HidEntriesNameDevices ==
  LET here == {k \in DOMAIN hid.deviceMap : Serving(hid.deviceMap[k].instance)}
      real(k) == hid.deviceMap[k].realId
  IN ~hid.strayed =>
       /\ \A k \in here : /\ real(k) \in DOMAIN hid.devices
                          /\ hid.devices[real(k)] = hid.deviceMap[k].tag
       /\ \A k, l \in here : real(k) = real(l) => k = l

\* Every open descriptor is held by exactly one record of the library, or is one of those a
\* failed mmap left behind, and no record holds a closed one: none is closed twice and none
\* is lost by Release, Destroy and Close in any order (usb_ddk_api.cpp:86, :418).
FdsAccounted ==
  LET handle == {dev.fd} \ {NoFd}
  IN /\ fds = Range(usb.g_fdMap) \union usb.leaked \union handle \union ashmems.map
     /\ \A a, b \in DOMAIN usb.g_fdMap : usb.g_fdMap[a] = usb.g_fdMap[b] => a = b
     /\ Range(usb.g_fdMap) \intersect usb.leaked = {}
     /\ DOMAIN usb.g_fdMap \subseteq usb.mapped

\* A SCSI read delivers the device's bytes in the used buffer, a write sends the bytes that
\* were in it when the call began, at every offset and overlap (scsi_ddk_api.cpp:94, :110).
TransfersUseTheBuffer ==
  /\ out.kind = "read" => out.delivered
  /\ out.kind = "write" => out.sentGiven

StaleProxy == promised /\ g_ddk # 0 /\ ~Serving(g_ddk)

\* A dead service's proxy that was to be watched does not stay: the next call that needs the
\* service can get the new instance (scsi_ddk_api.cpp:335).
DeathNoticed == StaleProxy ~> ~StaleProxy

\* What scsi_peripheral_types.h says of offset and bufferLength, that they delimit the used
\* buffer: a write sends what the driver has put there.
WriteSendsStored ==
  out.kind = "write" => out.sentStored

==============================================================================
