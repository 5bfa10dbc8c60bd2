------------------------ MODULE DriverProcessProofs ------------------------
(***************************************************************************)
(* A driver's process keeps its promises about proxies, ids, descriptors   *)
(* and transfers, for any number of deaths, recipients, ids, descriptors   *)
(* and addresses, any size of the memory map and any used buffers.         *)
(*                                                                         *)
(* Most of the library's functions test, call the service and return.      *)
(* They are of two shapes, Begins and Ends, which are dealt with once      *)
(* (section 2); the others change one part of the invariant each.          *)
(***************************************************************************)
EXTENDS DriverProcess, SequenceTheorems, TLAPS

------------------------------------------------------------------------------
(* 1. The inductive invariant. *)

LockedOps    == {"OH_Hid_CreateDevice", "OH_Hid_EmitEvent", "OH_Hid_DestroyDevice"}
OpenOps      == {"OH_Hid_Open", "OH_UsbSerial_Open", "OH_ScsiPeripheral_Open"}
TransferOps  == {"OH_ScsiPeripheral_Inquiry", "OH_ScsiPeripheral_Read10",
                 "OH_ScsiPeripheral_Write10", "OH_ScsiPeripheral_SendRequestByCdb"}
UntestedOp   == "OH_Usb_CreateDeviceMemMap"
WatchedKinds == Hid \union Scsi \union {"serial"}

Died == ~service.up \/ service.instance > 1

ConnTypes ==
  /\ driver \in DriverKinds
  /\ service \in [up : BOOLEAN, instance : Instances]
  /\ g_ddk \in {0} \union Instances /\ recipient \in {0} \union Instances
  /\ watched \in [Instances -> 0..MaxRecipients[driver]]
  /\ notices \in [Instances -> 0..MaxRecipients[driver]]
  /\ promised \in BOOLEAN /\ g_mutex \in BOOLEAN

\* A notice is of an instance that has died; the USB library has no recipients.
ConnOK ==
  /\ ~service.up => service.instance <= MaxDeaths[driver]
  /\ g_ddk <= service.instance
  /\ \A i \in Instances :
       notices[i] > 0 => i < service.instance \/ (i = service.instance /\ ~service.up)
  /\ driver \notin WatchedKinds => \A i \in Instances : watched[i] = 0 /\ notices[i] = 0
  /\ ProxyIsWatched

\* Why a g_ddk that passed its test may be null when it is used.
Excusable == call.op = UntestedOp \/ (driver \in WatchedKinds /\ Died)

CallTypes ==
  /\ DOMAIN call = {"op", "step", "arg"}
  /\ call.step \in {"idle", "connect", "watch", "use", "parsing", "crashed"}
  /\ call.op \notin LockedOps => call.arg \in {0, 1}

\* The recipient about to be registered has room; g_mutex keeps g_ddk.
CallOK ==
  /\ call.step = "watch" =>
       /\ driver \in WatchedKinds
       /\ Serving(g_ddk) => watched[g_ddk] < MaxRecipients[driver]
  /\ call.step = "connect" => call.op \in LockedOps /\ driver \in Hid
  /\ call.op \in LockedOps =>
       /\ g_mutex
       /\ call.step = "connect" \/ (call.step \in {"watch", "use"} /\ g_ddk # 0)
  /\ call.step \in {"watch", "use"} /\ g_ddk = 0 => Excusable
  /\ call.step = "crashed" => Excusable

OutOK == out.code \in Codes /\ TransfersUseTheBuffer

\* A handle is not opened over an open one.
DevOK ==
  /\ dev \in [open : BOOLEAN, instance : {0} \union Instances, fd : {NoFd} \union Fds,
              nonBlock : {0, 1}]
  /\ dev.instance <= service.instance
  /\ ~dev.open => dev.fd = NoFd
  /\ call.op \in OpenOps /\ call.step = "use" => ~dev.open

\* No entry is of an instance that is yet to come.
HidOK ==
  /\ DOMAIN hid = {"deviceMap", "devices", "strayed"}
  /\ DOMAIN hid.deviceMap \subseteq HidIds /\ DOMAIN hid.devices \subseteq HidIds
  /\ \A k \in DOMAIN hid.deviceMap :
       /\ DOMAIN hid.deviceMap[k] = {"tag", "realId", "instance"}
       /\ hid.deviceMap[k].instance \in Instances
       /\ hid.deviceMap[k].instance <= service.instance
  /\ HidEntriesNameDevices

\* A descriptor is in one record only.
FdTypes ==
  /\ fds \subseteq Fds
  /\ DOMAIN usb = {"g_fdMap", "mapped", "leaked"}
  /\ DOMAIN usb.g_fdMap \subseteq Addresses /\ usb.mapped \subseteq Addresses
  /\ DOMAIN ashmems = {"map", "address"}
  /\ ashmems.map \subseteq Fds /\ ashmems.address \subseteq ashmems.map

FdsApart ==
  LET maps == Range(usb.g_fdMap)
  IN /\ dev.fd \notin maps \union usb.leaked \union ashmems.map
     /\ maps \intersect ashmems.map = {}
     /\ usb.leaked \intersect ashmems.map = {}

FdsOK == FdTypes /\ FdsAccounted /\ FdsApart

\* The map, and what a transfer finds in it.
MapTypes ==
  /\ DOMAIN mem = {"bytes", "offset", "bufferLength", "want", "before"}
  /\ mem.bytes \in Seq(Int) /\ mem.want \in Seq(Int)
  /\ mem.offset \in Nat /\ mem.bufferLength \in Nat
  /\ Len(mem.bytes) = MapSize /\ Len(mem.want) = MapSize

MemOK ==
  /\ mem = NoMem \/ MapTypes
  /\ call.op \in TransferOps /\ call.step = "use" =>
       /\ MapTypes
       /\ ValidateMemMap(mem)
       /\ mem.before = SubSeq(mem.bytes, 1, mem.bufferLength)

IInv ==
  /\ ConnTypes /\ ConnOK
  /\ CallTypes /\ CallOK
  /\ OutOK /\ DevOK /\ HidOK /\ FdsOK /\ MemOK

------------------------------------------------------------------------------
(* 2. Steps that change no more than call and out. *)

LEMMA ConnFacts ==
  ASSUME ConnTypes
  PROVE  /\ MaxDeaths[driver] \in Nat /\ MaxRecipients[driver] \in Nat
         /\ service.up \in BOOLEAN /\ service.instance \in Instances
         /\ service.instance \in Nat /\ service.instance > 0
         /\ service = [up |-> service.up, instance |-> service.instance]
         /\ \A i \in Instances : /\ i \in Nat /\ i > 0
                                 /\ watched[i] \in Nat /\ notices[i] \in Nat
                                 /\ watched[i] <= MaxRecipients[driver]
         /\ g_ddk \in Nat /\ (g_ddk # 0 => g_ddk \in Instances)
         /\ Serving(g_ddk) => g_ddk \in Instances
<1>1. MaxDeaths[driver] \in Nat /\ MaxRecipients[driver] \in Nat
  BY BoundsAssumption DEF ConnTypes
<1>2. service.up \in BOOLEAN /\ service.instance \in Instances
      /\ service = [up |-> service.up, instance |-> service.instance]
  BY DEF ConnTypes
<1>3. \A i \in Instances : i \in Nat /\ i > 0
  BY <1>1 DEF Instances
<1>4. \A i \in Instances : /\ watched[i] \in 0..MaxRecipients[driver]
                           /\ notices[i] \in 0..MaxRecipients[driver]
  BY DEF ConnTypes
<1>5. g_ddk \in {0} \union Instances
  BY DEF ConnTypes
<1> QED
  BY <1>1, <1>2, <1>3, <1>4, <1>5 DEF Serving

\* A part whose variables do not change is kept.
LEMMA ConnFrame ==
  ASSUME ConnTypes, ConnOK, UNCHANGED <<driver, conn, g_mutex>>
  PROVE  ConnTypes' /\ ConnOK'
BY DEF ConnTypes, ConnOK, ProxyIsWatched, Serving, conn, Instances

LEMMA DevFrame ==
  ASSUME DevOK, UNCHANGED <<driver, service, dev>>,
         call' = call \/ call'.step # "use" \/ call'.op \notin OpenOps \/ ~dev.open
  PROVE  DevOK'
BY DEF DevOK, Instances

LEMMA HidFrame ==
  ASSUME HidOK, UNCHANGED <<driver, service, hid>>
  PROVE  HidOK'
BY DEF HidOK, HidEntriesNameDevices, Serving, Instances

LEMMA FdsFrame ==
  ASSUME FdsOK, UNCHANGED <<dev, fds, usb, ashmems>>
  PROVE  FdsOK'
BY DEF FdsOK, FdTypes, FdsAccounted, FdsApart

LEMMA MemFrame ==
  ASSUME MemOK, UNCHANGED mem,
         call' = call \/ call'.step # "use" \/ call'.op \notin TransferOps
  PROVE  MemOK'
BY DEF MemOK, MapTypes

LEMMA OutFrame ==
  ASSUME OutOK, UNCHANGED out
  PROVE  OutOK'
BY DEF OutOK, TransfersUseTheBuffer

\* An answer without data.
LEMMA OutPlain ==
  ASSUME out'.code \in Codes, out'.kind \notin {"read", "write"}
  PROVE  OutOK'
BY DEF OutOK, TransfersUseTheBuffer

\* Nothing is asked of a call that has returned.
LEMMA CallEnds ==
  ASSUME call' = Idle
  PROVE  /\ CallTypes' /\ CallOK'
         /\ call'.step # "use"
BY DEF CallTypes, CallOK, Idle, LockedOps, Excusable

LEMMA CodeTypes ==
  ASSUME NEW ret \in Answers
  PROVE  /\ ret \in Codes /\ TransToCode(ret) \in Codes
         /\ ret = "SUCCESS" => Serving(g_ddk)
         /\ "MEMORY_ERROR" \in Codes
         /\ TransToUsbCodeOr(ret, "IO_ERROR") \in Codes
BY DEF Answers, Codes, TransToCode, TransToUsbCodeOr

LEMMA NullCodeTypes == NullCode \in Codes
BY DEF NullCode, Codes

\* A call returns.
Ends ==
  /\ call' = Idle
  /\ out'.code \in Codes /\ out'.kind \notin {"read", "write"}
  /\ UNCHANGED <<driver, conn, g_mutex, data>>

LEMMA EndsKeeps ==
  ASSUME IInv, Ends
  PROVE  IInv'
<1>1. UNCHANGED <<driver, conn, g_mutex>> /\ UNCHANGED <<driver, service>>
      /\ UNCHANGED <<dev, hid, fds, usb, mem, ashmems>>
  BY DEF Ends, conn, data
<1>2. CallTypes' /\ CallOK' /\ call'.step # "use"
  BY CallEnds DEF Ends
<1>3. OutOK'
  BY OutPlain DEF Ends
<1> QED
  BY <1>1, <1>2, <1>3, ConnFrame, DevFrame, HidFrame, FdsFrame, MemFrame DEF IInv

\* A call has passed its tests.
Begins(op, arg) ==
  /\ g_ddk # 0
  /\ op \notin LockedOps \union TransferOps
  /\ op \in OpenOps => ~dev.open
  /\ arg \in {0, 1}
  /\ call' = [op |-> op, step |-> "use", arg |-> arg]
  /\ out' = Nothing
  /\ UNCHANGED <<driver, conn, g_mutex, data>>

LEMMA BeginsKeeps ==
  ASSUME IInv, NEW op, NEW arg, Begins(op, arg)
  PROVE  IInv'
<1>1. UNCHANGED <<driver, conn, g_mutex>> /\ UNCHANGED <<driver, service>>
      /\ UNCHANGED <<dev, hid, fds, usb, mem, ashmems>>
  BY DEF Begins, conn, data
<1>2. CallTypes' /\ CallOK'
  BY <1>1 DEF Begins, CallTypes, CallOK, LockedOps, conn
<1>3. OutOK'
  BY OutPlain DEF Begins, Nothing, Codes
<1>4. DevOK'
  BY <1>1, DevFrame DEF Begins, IInv
<1>5. MemOK'
  BY <1>1, MemFrame DEF Begins, IInv
<1> QED
  BY <1>1, <1>2, <1>3, <1>4, <1>5, ConnFrame, HidFrame, FdsFrame DEF IInv

\* A call uses a null g_ddk: it holds no lock.
LEMMA CrashKeeps ==
  ASSUME IInv, Crash, call.step \in {"watch", "use"}
  PROVE  IInv'
<1>1. UNCHANGED <<driver, conn, g_mutex>> /\ UNCHANGED <<driver, service>> /\ out' = out
      /\ UNCHANGED <<dev, hid, fds, usb, mem, ashmems>>
  BY DEF Crash, conn, data
<1>2. DOMAIN call' = DOMAIN call /\ call'.step = "crashed" /\ call'.op = call.op
      /\ call'.arg = call.arg /\ g_ddk = 0
  BY DEF Crash, IInv, CallTypes
<1>3. CallTypes'
  BY <1>2 DEF IInv, CallTypes
<1>4. CallOK'
  BY <1>1, <1>2 DEF IInv, CallOK, Excusable, Died, conn
<1> QED
  BY <1>1, <1>2, <1>3, <1>4, ConnFrame, DevFrame, HidFrame, FdsFrame, MemFrame, OutFrame
  DEF IInv

------------------------------------------------------------------------------
(* 3. The shapes of the library's functions. *)

LEMMA TestsKeeps ==
  ASSUME IInv, NEW op, NEW valid, NEW arg \in {0, 1}, Tests(op, valid, arg),
         op \notin LockedOps \union TransferOps, op \in OpenOps => ~dev.open
  PROVE  IInv'
<1>1. CASE g_ddk = 0 \/ ~valid
  <2>1. Ends
    BY <1>1, NullCodeTypes DEF Tests, Return, Ends, Codes
  <2> QED
    BY <2>1, EndsKeeps
<1>2. CASE g_ddk # 0 /\ valid
  <2>1. Begins(op, arg)
    BY <1>2 DEF Tests, Goto, Begins
  <2> QED
    BY <2>1, BeginsKeeps
<1> QED
  BY <1>1, <1>2

\* The service has answered and the call returns the code.
LEMMA AnswerKeeps ==
  ASSUME IInv, NEW ret \in Answers, Return(TransToCode(ret)),
         UNCHANGED <<driver, conn, g_mutex, data>>
  PROVE  IInv'
<1>1. Ends
  BY CodeTypes DEF Return, Ends
<1> QED
  BY <1>1, EndsKeeps

LEMMA SteadyKeeps ==
  ASSUME IInv, NEW kinds, NEW op, NEW valids, Steady(kinds, op, valids),
         op \notin LockedOps \union TransferOps \union OpenOps
  PROVE  IInv'
<1>1. CASE \E valid \in valids : Tests(op, valid, 0)
  BY <1>1, TestsKeeps
<1>2. CASE /\ \E ret \in Answers : Return(TransToCode(ret))
           /\ UNCHANGED <<driver, conn, g_mutex, data>>
  BY <1>2, AnswerKeeps
<1> QED
  BY <1>1, <1>2 DEF Steady

LEMMA SimpleKeeps ==
  ASSUME IInv, NEW kinds, NEW op, NEW valids, Simple(kinds, op, valids),
         op \notin LockedOps \union TransferOps \union OpenOps
  PROVE  IInv'
BY SteadyKeeps, CrashKeeps DEF Simple, In

LEMMA CopyFailsKeeps ==
  ASSUME IInv, NEW op, CopyFails(op)
  PROVE  IInv'
<1>1. Ends
  BY DEF CopyFails, Return, Ends, Codes
<1> QED
  BY <1>1, EndsKeeps

LEMMA FetchingKeeps ==
  ASSUME IInv, NEW kinds, NEW op, NEW valids, Fetching(kinds, op, valids),
         op \notin LockedOps \union TransferOps \union OpenOps
  PROVE  IInv'
BY SimpleKeeps, CopyFailsKeeps DEF Fetching

\* g_ddk is cleared as the call returns.
LEMMA ReleaseProxyKeeps ==
  ASSUME IInv, NEW op, ReleaseProxy(op)
  PROVE  IInv'
<1>1. PICK ret \in Answers : Return(TransToCode(ret))
  BY DEF ReleaseProxy
<1>2. /\ call' = Idle /\ g_ddk' = 0 /\ promised' = FALSE
      /\ UNCHANGED <<driver, service, recipient, watched, notices, g_mutex, data>>
  BY <1>1 DEF ReleaseProxy, Return
<1>3. OutOK'
  BY <1>1, CodeTypes, OutPlain DEF Return
<1>4. ConnTypes' /\ ConnOK'
  <2>1. ConnTypes'
    BY <1>2 DEF IInv, ConnTypes, Instances
  <2>2. ConnOK'
    BY <1>2, ConnFacts DEF IInv, ConnOK, ProxyIsWatched, Instances
  <2> QED
    BY <2>1, <2>2
<1>5. UNCHANGED <<driver, service>> /\ UNCHANGED <<dev, hid, fds, usb, mem, ashmems>>
  BY <1>2 DEF data
<1> QED
  BY <1>2, <1>3, <1>4, <1>5, CallEnds, DevFrame, HidFrame, FdsFrame, MemFrame DEF IInv

LEMMA ReleaseKeeps ==
  ASSUME IInv, NEW kinds, NEW op, ReleaseOf(kinds, op),
         op \notin LockedOps \union TransferOps \union OpenOps
  PROVE  IInv'
BY TestsKeeps, CrashKeeps, ReleaseProxyKeeps DEF ReleaseOf, In


------------------------------------------------------------------------------
(* 4. The service, its death and the notices. *)

LEMMA ServiceDiesKeeps ==
  ASSUME IInv, ServiceDies
  PROVE  IInv'
<1> DEFINE s == service.instance
<1>1. /\ service.up /\ s <= MaxDeaths[driver]
      /\ notices' = [notices EXCEPT ![s] = notices[s] + watched[s]]
      /\ watched' = [watched EXCEPT ![s] = 0]
      /\ hid' = [hid EXCEPT !.devices = <<>>]
      /\ UNCHANGED <<driver, g_ddk, recipient, promised, g_mutex, call, out, dev, fds, usb, mem,
                     ashmems>>
  BY DEF ServiceDies
<1>2. /\ service' \in [up : BOOLEAN, instance : Instances]
      /\ ~service'.up /\ service'.instance = s
  <2>1. service' = [service EXCEPT !.up = FALSE]
    BY DEF ServiceDies
  <2>2. service \in [up : BOOLEAN, instance : Instances]
    BY DEF IInv, ConnTypes
  <2>3. service' \in [up : BOOLEAN, instance : Instances]
    BY <2>1, <2>2
  <2>4. service'.instance = s
    BY <2>1, <2>2
  <2>5. ~service'.up
    BY <2>1, <2>2
  <2> QED
    BY <2>3, <2>4, <2>5
<1>3. s \in Instances /\ notices[s] = 0 /\ watched[s] \in 0..MaxRecipients[driver]
  <2>1. /\ s \in Instances /\ s \in Nat /\ notices[s] \in Nat /\ watched[s] \in Nat
        /\ watched[s] <= MaxRecipients[driver] /\ MaxRecipients[driver] \in Nat
    BY ConnFacts DEF IInv
  <2>2. ~(notices[s] > 0)
    BY <1>1, <2>1 DEF IInv, ConnOK
  <2> QED
    BY <2>1, <2>2
<1>4. ConnTypes'
  <2>1. Instances' = Instances
    BY <1>1 DEF Instances
  <2>2. notices' \in [Instances -> 0..MaxRecipients[driver]]
    BY <1>1, <1>3, ConnFacts DEF IInv, ConnTypes
  <2>3. watched' \in [Instances -> 0..MaxRecipients[driver]]
    BY <1>1, <1>3, ConnFacts DEF IInv, ConnTypes
  <2> QED
    BY <1>1, <1>2, <2>1, <2>2, <2>3 DEF IInv, ConnTypes
<1>5. ConnOK'
  <2>1. Instances' = Instances /\ driver' = driver /\ ~service'.up /\ service'.instance = s
    BY <1>1, <1>2 DEF Instances
  <2>2. \A i \in Instances : notices'[i] = (IF i = s THEN watched[s] ELSE notices[i])
                             /\ watched'[i] = (IF i = s THEN 0 ELSE watched[i])
    BY <1>1, <1>3 DEF IInv, ConnTypes
  <2>3. \A i \in Instances :
          notices'[i] > 0 => i < s \/ i = s
    BY <2>2, <1>1 DEF IInv, ConnOK
  <2>4. driver \notin WatchedKinds => \A i \in Instances : watched'[i] = 0 /\ notices'[i] = 0
    BY <2>2, <1>3 DEF IInv, ConnOK
  <2>5. ProxyIsWatched'
    BY <2>1 DEF ProxyIsWatched, Serving
  <2> QED
    BY <1>1, <2>1, <2>3, <2>4, <2>5 DEF IInv, ConnOK
<1>6. CallTypes' /\ CallOK'
  <2>1. ~Serving(g_ddk)' /\ Died'
    BY <1>2 DEF Serving, Died
  <2> QED
    BY <1>1, <2>1 DEF IInv, CallTypes, CallOK, Excusable
<1>7. DevOK'
  BY <1>1, <1>2 DEF IInv, DevOK, Instances
<1>8. HidOK'
  <2>1. DOMAIN hid' = DOMAIN hid /\ hid'.deviceMap = hid.deviceMap /\ hid'.devices = <<>>
    BY <1>1 DEF IInv, HidOK
  <2>2. \A i : ~Serving(i)'
    BY <1>2 DEF Serving
  <2>3. HidEntriesNameDevices'
    BY <2>1, <2>2 DEF HidEntriesNameDevices
  <2> QED
    BY <1>1, <1>2, <2>1, <2>3 DEF IInv, HidOK, Instances
<1> QED
  BY <1>1, <1>4, <1>5, <1>6, <1>7, <1>8, OutFrame, FdsFrame, MemFrame DEF IInv

\* What was of an earlier instance is not of the new one.
LEMMA ServiceStartsKeeps ==
  ASSUME IInv, ServiceStarts
  PROVE  IInv'
<1> DEFINE s == service.instance
<1>1. /\ ~service.up
      /\ service' = [up |-> TRUE, instance |-> s + 1]
      /\ UNCHANGED <<driver, g_ddk, recipient, watched, notices, promised, g_mutex, call, out>>
      /\ UNCHANGED <<dev, hid, fds, usb, mem, ashmems>>
  BY DEF ServiceStarts, data
<1>2. s \in Nat /\ s > 0 /\ s + 1 \in Instances
  BY <1>1, ConnFacts DEF IInv, ConnOK, Instances
<1>3. service'.up = TRUE /\ service'.instance = s + 1 /\ Instances' = Instances
  BY <1>1 DEF Instances
<1>4. \A i \in Nat : i <= s => ~Serving(i)'
  BY <1>2, <1>3 DEF Serving
<1>5. ~Serving(g_ddk)' /\ Died'
  BY <1>1, <1>2, <1>3, ConnFacts DEF IInv, ConnOK, Serving, Died
<1>6. ConnTypes'
  BY <1>1, <1>2, <1>3 DEF IInv, ConnTypes
<1>7. ConnOK'
  <2>1. ProxyIsWatched'
    BY <1>5 DEF ProxyIsWatched
  <2> QED
    BY <1>1, <1>2, <1>3, <2>1, ConnFacts DEF IInv, ConnOK
<1>8. CallTypes' /\ CallOK'
  BY <1>1, <1>5 DEF IInv, CallTypes, CallOK, Excusable
<1>9. DevOK'
  <2>1. dev.instance \in Nat
    BY ConnFacts DEF IInv, DevOK
  <2> QED
    BY <1>1, <1>2, <1>3, <2>1 DEF IInv, DevOK
<1>10. HidOK'
  <2>1. \A k \in DOMAIN hid.deviceMap : hid.deviceMap[k].instance \in Nat
    BY ConnFacts DEF IInv, HidOK
  <2>2. \A k \in DOMAIN hid.deviceMap :
          ~(service'.up /\ service'.instance = hid.deviceMap[k].instance)
    BY <2>1, <1>2, <1>3 DEF IInv, HidOK
  <2>3. HidEntriesNameDevices'
    BY <1>1, <2>2 DEF HidEntriesNameDevices, Serving
  <2> QED
    BY <1>1, <1>2, <1>3, <2>1, <2>3 DEF IInv, HidOK
<1> QED
  BY <1>1, <1>6, <1>7, <1>8, <1>9, <1>10, OutFrame, FdsFrame, MemFrame DEF IInv

\* A notice, even a late one, takes the recipient away only together with g_ddk, and never
\* from a function that holds g_mutex.
LEMMA OnRemoteDiedKeeps ==
  ASSUME IInv, OnRemoteDied
  PROVE  IInv'
<1>1. PICK i \in Instances :
        /\ notices[i] > 0
        /\ notices' = [notices EXCEPT ![i] = @ - 1]
        /\ IF g_ddk = 0 THEN UNCHANGED <<g_ddk, recipient, watched, promised>>
           ELSE /\ g_ddk' = 0
                /\ watched' = IF recipient = g_ddk /\ watched[g_ddk] > 0
                              THEN [watched EXCEPT ![g_ddk] = @ - 1] ELSE watched
                /\ recipient' = 0
                /\ promised' = FALSE
  BY DEF OnRemoteDied
<1>2. /\ ~g_mutex /\ call.step # "crashed"
      /\ UNCHANGED <<driver, service, g_mutex, call, out>>
      /\ UNCHANGED <<dev, hid, fds, usb, mem, ashmems>>
  BY DEF OnRemoteDied, data
<1>3. g_ddk' = 0 /\ Instances' = Instances
  BY <1>1, <1>2 DEF Instances
<1>4. \A j \in Instances : /\ notices'[j] \in 0..MaxRecipients[driver]
                           /\ notices'[j] <= notices[j]
  BY <1>1, ConnFacts DEF IInv, ConnTypes
<1>5. \A j \in Instances : /\ watched'[j] \in 0..MaxRecipients[driver]
                           /\ watched'[j] <= watched[j]
  BY <1>1, ConnFacts DEF IInv, ConnTypes
<1>6. ConnTypes'
  <2>1. /\ notices' \in [Instances -> 0..MaxRecipients[driver]]
        /\ watched' \in [Instances -> 0..MaxRecipients[driver]]
    BY <1>1, <1>4, <1>5 DEF IInv, ConnTypes
  <2> QED
    BY <1>1, <1>2, <1>3, <2>1 DEF IInv, ConnTypes
<1>7. ConnOK'
  <2>1. ProxyIsWatched'
    BY <1>2, <1>3, ConnFacts DEF IInv, ProxyIsWatched, Serving
  <2>2. \A j \in Instances :
          notices'[j] > 0 => j < service.instance \/ (j = service.instance /\ ~service.up)
    BY <1>4, ConnFacts DEF IInv, ConnOK
  <2>3. driver \notin WatchedKinds => \A j \in Instances : watched'[j] = 0 /\ notices'[j] = 0
    BY <1>4, <1>5, ConnFacts DEF IInv, ConnOK
  <2> QED
    BY <1>2, <1>3, <2>1, <2>2, <2>3, ConnFacts DEF IInv, ConnOK
<1>8. CallTypes' /\ CallOK'
  <2>1. Died /\ driver \in WatchedKinds
    BY <1>1, ConnFacts DEF IInv, ConnOK, Died
  <2>2. ~Serving(g_ddk)'
    BY <1>2, <1>3, ConnFacts DEF IInv, Serving
  <2> QED
    BY <1>2, <2>1, <2>2 DEF IInv, CallTypes, CallOK, Excusable, Died
<1> QED
  BY <1>2, <1>6, <1>7, <1>8, OutFrame, DevFrame, HidFrame, FdsFrame, MemFrame DEF IInv


------------------------------------------------------------------------------
(* 5. Init: with and without a death recipient. *)

LEMMA GetFacts ==
  ASSUME ConnTypes
  PROVE  /\ Get \in {0} \union Instances /\ Get \in Nat /\ Get <= service.instance
         /\ Get # 0 => service.up /\ Get = service.instance
         /\ service.up => Get = service.instance
BY ConnFacts DEF Get

\* A new proxy that nobody promised to watch.
LEMMA ProxyGot ==
  ASSUME ConnTypes, ConnOK, g_ddk' = Get, promised' = FALSE,
         UNCHANGED <<driver, service, recipient, watched, notices, g_mutex>>
  PROVE  ConnTypes' /\ ConnOK'
<1>1. ConnTypes'
  BY GetFacts DEF ConnTypes, Instances
<1>2. ConnOK'
  BY GetFacts DEF ConnOK, ProxyIsWatched, Instances
<1> QED
  BY <1>1, <1>2

\* A recipient is registered: a live service's proxy is watched.
LEMMA RecipientAdded ==
  ASSUME ConnTypes, ConnOK, CallOK, call.step = "watch", g_ddk # 0,
         AddDeathRecipient(g_ddk), promised' \in BOOLEAN, g_mutex' \in BOOLEAN,
         UNCHANGED <<driver, service, g_ddk, notices>>
  PROVE  ConnTypes' /\ ConnOK'
<1>1. g_ddk \in Instances /\ watched[g_ddk] \in Nat /\ MaxRecipients[driver] \in Nat
  BY ConnFacts
<1>2. Instances' = Instances
  BY DEF Instances
<1>3. CASE Serving(g_ddk)
  <2>1. /\ watched[g_ddk] < MaxRecipients[driver] /\ driver \in WatchedKinds
        /\ recipient' = g_ddk /\ watched' = [watched EXCEPT ![g_ddk] = watched[g_ddk] + 1]
    BY <1>3 DEF CallOK, AddDeathRecipient
  <2>2. watched[g_ddk] + 1 \in 0..MaxRecipients[driver]
    BY <1>1, <2>1
  <2>3. ConnTypes'
    BY <1>1, <1>2, <2>1, <2>2 DEF ConnTypes
  <2>4. watched'[g_ddk] > 0
    BY <1>1, <2>1 DEF ConnTypes
  <2>5. ConnOK'
    BY <1>2, <2>1, <2>4 DEF ConnOK, ProxyIsWatched
  <2> QED
    BY <2>3, <2>5
<1>4. CASE ~Serving(g_ddk)
  <2>1. recipient' = g_ddk /\ watched' = watched /\ ~Serving(g_ddk)'
    BY <1>4 DEF AddDeathRecipient, Serving
  <2>2. ConnTypes'
    BY <1>1, <1>2, <2>1 DEF ConnTypes
  <2>3. ConnOK'
    BY <1>2, <2>1 DEF ConnOK, ProxyIsWatched
  <2> QED
    BY <2>2, <2>3
<1> QED
  BY <1>3, <1>4

LEMMA InitWatchingKeeps ==
  ASSUME IInv, InitWatching
  PROVE  IInv'
<1> DEFINE op == "InitWatching"
<1>1. CASE /\ CallFrom(Scsi \union {"serial"}, op)
           /\ service.up => watched[service.instance] < MaxRecipients[driver]
           /\ g_ddk' = Get /\ promised' = FALSE
           /\ IF Get = 0 THEN Return("INIT_ERROR") ELSE Goto(op, "watch", 0) /\ out' = Nothing
           /\ UNCHANGED <<driver, service, recipient, watched, notices, g_mutex, data>>
  <2>1. ConnTypes' /\ ConnOK'
    BY <1>1, ProxyGot DEF IInv
  <2>2. OutOK'
    BY <1>1, OutPlain DEF Return, Nothing, Codes
  <2>3. CallTypes' /\ CallOK' /\ call'.step # "use"
    <3>1. CASE Get = 0
      BY <1>1, <3>1, CallEnds DEF Return
    <3>2. CASE Get # 0
      <4>1. /\ call' = [op |-> "InitWatching", step |-> "watch", arg |-> 0]
            /\ g_ddk' = service.instance /\ g_ddk' # 0 /\ service.up
        BY <1>1, <3>2, GetFacts DEF Goto, IInv
      <4>2. driver' \in WatchedKinds
        BY <1>1 DEF CallFrom, WatchedKinds
      <4>3. watched'[g_ddk'] < MaxRecipients[driver']
        BY <1>1, <4>1
      <4> QED
        BY <4>1, <4>2, <4>3 DEF CallTypes, CallOK, LockedOps
    <3> QED
      BY <3>1, <3>2
  <2>4. UNCHANGED <<driver, service>> /\ UNCHANGED <<dev, hid, fds, usb, mem, ashmems>>
    BY <1>1 DEF data
  <2> QED
    BY <2>1, <2>2, <2>3, <2>4, DevFrame, HidFrame, FdsFrame, MemFrame DEF IInv
<1>2. CASE In(op, "watch") /\ Crash
  BY <1>2, CrashKeeps DEF In
<1>3. CASE /\ In(op, "watch") /\ g_ddk # 0
           /\ AddDeathRecipient(g_ddk)
           /\ IF Serving(g_ddk) THEN promised' = TRUE /\ Goto(op, "use", 0) /\ out' = Nothing
              ELSE promised' = promised /\ Return("INIT_ERROR")
           /\ UNCHANGED <<driver, service, g_ddk, notices, g_mutex, data>>
  <2>1. promised' \in BOOLEAN /\ g_mutex' \in BOOLEAN
    BY <1>3 DEF IInv, ConnTypes
  <2>2. ConnTypes' /\ ConnOK'
    BY <1>3, <2>1, RecipientAdded DEF IInv, In
  <2>3. OutOK'
    BY <1>3, OutPlain DEF Return, Nothing, Codes
  <2>4. CallTypes' /\ CallOK'
    <3>1. CASE Serving(g_ddk)
      <4>1. call' = [op |-> "InitWatching", step |-> "use", arg |-> 0] /\ g_ddk' # 0
        BY <1>3, <3>1 DEF Goto
      <4> QED
        BY <4>1 DEF CallTypes, CallOK, LockedOps
    <3>2. CASE ~Serving(g_ddk)
      BY <1>3, <3>2, CallEnds DEF Return
    <3> QED
      BY <3>1, <3>2
  <2>5. call'.op \notin OpenOps /\ call'.op \notin TransferOps
    BY <1>3 DEF Goto, Return, Idle, OpenOps, TransferOps
  <2>6. UNCHANGED <<driver, service>> /\ UNCHANGED <<dev, hid, fds, usb, mem, ashmems>>
    BY <1>3 DEF data
  <2> QED
    BY <2>2, <2>3, <2>4, <2>5, <2>6, DevFrame, HidFrame, FdsFrame, MemFrame DEF IInv
<1>4. CASE In(op, "use") /\ Crash
  BY <1>4, CrashKeeps DEF In
<1>5. CASE /\ \E ret \in Answers : Return(TransToCode(ret))
           /\ UNCHANGED <<driver, conn, g_mutex, data>>
  BY <1>5, AnswerKeeps
<1> QED
  BY <1>1, <1>2, <1>3, <1>4, <1>5 DEF InitWatching

LEMMA InitUnwatchedKeeps ==
  ASSUME IInv, InitUnwatched
  PROVE  IInv'
<1> DEFINE op == "InitUnwatched"
<1>1. CASE /\ CallFrom(Hid \union Usb, op)
           /\ g_ddk' = Get /\ promised' = FALSE
           /\ IF Get = 0 THEN Return(NullCode) ELSE Goto(op, "use", 0) /\ out' = Nothing
           /\ UNCHANGED <<driver, service, recipient, watched, notices, g_mutex, data>>
  <2>1. ConnTypes' /\ ConnOK'
    BY <1>1, ProxyGot DEF IInv
  <2>2. OutOK'
    BY <1>1, OutPlain, NullCodeTypes DEF Return, Nothing, Codes
  <2>3. CallTypes' /\ CallOK'
    <3>1. CASE Get = 0
      BY <1>1, <3>1, CallEnds DEF Return
    <3>2. CASE Get # 0
      <4>1. call' = [op |-> "InitUnwatched", step |-> "use", arg |-> 0] /\ g_ddk' # 0
        BY <1>1, <3>2 DEF Goto
      <4> QED
        BY <4>1 DEF CallTypes, CallOK, LockedOps
    <3> QED
      BY <3>1, <3>2
  <2>4. call'.op \notin OpenOps /\ call'.op \notin TransferOps
    BY <1>1 DEF Goto, Return, Idle, OpenOps, TransferOps
  <2>5. UNCHANGED <<driver, service>> /\ UNCHANGED <<dev, hid, fds, usb, mem, ashmems>>
    BY <1>1 DEF data
  <2> QED
    BY <2>1, <2>2, <2>3, <2>4, <2>5, DevFrame, HidFrame, FdsFrame, MemFrame DEF IInv
<1>2. CASE In(op, "use") /\ Crash
  BY <1>2, CrashKeeps DEF In
<1>3. CASE /\ \E ret \in Answers : Return(TransToCode(ret))
           /\ UNCHANGED <<driver, conn, g_mutex, data>>
  BY <1>3, AnswerKeeps
<1> QED
  BY <1>1, <1>2, <1>3 DEF InitUnwatched


------------------------------------------------------------------------------
(* 6. The HID functions that hold g_mutex. *)

\* g_mutex is taken, or given back as the call returns.
LEMMA MutexFrame ==
  ASSUME ConnTypes, ConnOK, g_mutex' \in BOOLEAN, UNCHANGED <<driver, conn>>
  PROVE  ConnTypes' /\ ConnOK'
BY DEF ConnTypes, ConnOK, ProxyIsWatched, Serving, conn, Instances

LEMMA LockKeeps ==
  ASSUME IInv, NEW kinds, kinds \subseteq Hid, NEW op \in LockedOps, NEW arg,
         LockFor(kinds, op, arg)
  PROVE  IInv'
<1>1. /\ g_mutex' = TRUE /\ call' = [op |-> op, step |-> "connect", arg |-> arg]
      /\ out' = Nothing /\ driver \in Hid
      /\ UNCHANGED <<driver, conn>> /\ UNCHANGED <<driver, service>>
      /\ UNCHANGED <<dev, hid, fds, usb, mem, ashmems>>
  BY DEF LockFor, CallFrom, Goto, conn, data
<1>2. ConnTypes' /\ ConnOK'
  BY <1>1, MutexFrame DEF IInv
<1>3. CallTypes' /\ CallOK'
  BY <1>1 DEF CallTypes, CallOK
<1>4. OutOK'
  BY <1>1, OutPlain DEF Nothing, Codes
<1>5. call'.step # "use"
  BY <1>1
<1> QED
  BY <1>1, <1>2, <1>3, <1>4, <1>5, DevFrame, HidFrame, FdsFrame, MemFrame DEF IInv

\* A locked call returns with a code; it may have changed the HID devices.
LEMMA UnlockKeeps ==
  ASSUME IInv, NEW code \in Codes, Unlock(code), UNCHANGED <<driver, conn>>, HidOK',
         UNCHANGED <<dev, fds, usb, mem, ashmems>>
  PROVE  IInv'
<1>1. g_mutex' = FALSE /\ call' = Idle /\ out' = [code |-> code, kind |-> "none"]
      /\ UNCHANGED <<driver, service>>
  BY DEF Unlock, Return, conn
<1>2. ConnTypes' /\ ConnOK'
  BY <1>1, MutexFrame DEF IInv
<1>3. OutOK'
  BY <1>1, OutPlain
<1> QED
  BY <1>1, <1>2, <1>3, CallEnds, DevFrame, FdsFrame, MemFrame DEF IInv

\* The devices that are created again are told apart by their new ids.
LEMMA RecreateKeeps ==
  ASSUME ConnTypes, HidOK, service.up, Recreate(service.instance), UNCHANGED <<driver, service>>
  PROVE  HidOK'
<1> DEFINE dm == hid.deviceMap
           dv == hid.devices
           s  == service.instance
           New(done, id) ==
             [hid EXCEPT
               !.deviceMap = [k \in DOMAIN @ |->
                 IF k \in done THEN [@[k] EXCEPT !.realId = id[k], !.instance = s] ELSE @[k]],
               !.devices = [r \in DOMAIN @ \union Range(id) |->
                 IF r \in DOMAIN @ THEN @[r]
                 ELSE hid.deviceMap[CHOOSE k \in done : id[k] = r].tag]]
<1>1. PICK done \in SUBSET DOMAIN dm : \E id \in Injection(done, HidIds \ DOMAIN dv) :
        hid' = New(done, id)
  BY DEF Recreate
<1>2. PICK id \in Injection(done, HidIds \ DOMAIN dv) : hid' = New(done, id)
  BY <1>1
<1>3. /\ id \in [done -> HidIds \ DOMAIN dv]
      /\ \A k, l \in done : id[k] = id[l] => k = l
  BY DEF Injection, IsInjective
<1> DEFINE Entry(k) == IF k \in done THEN [dm[k] EXCEPT !.realId = id[k], !.instance = s]
                       ELSE dm[k]
           Owner(r) == CHOOSE k \in done : id[k] = r
           Tag(r) == IF r \in DOMAIN dv THEN dv[r] ELSE dm[Owner(r)].tag
<1>4. /\ DOMAIN hid' = DOMAIN hid /\ hid'.strayed = hid.strayed
      /\ hid'.deviceMap = [k \in DOMAIN dm |-> Entry(k)]
      /\ hid'.devices = [r \in DOMAIN dv \union Range(id) |-> Tag(r)]
  BY <1>2 DEF HidOK
<1> HIDE DEF New
<1>5. /\ DOMAIN hid'.deviceMap = DOMAIN dm
      /\ \A k \in DOMAIN dm \ done : hid'.deviceMap[k] = dm[k]
      /\ \A k \in done : /\ DOMAIN hid'.deviceMap[k] = {"tag", "realId", "instance"}
                         /\ hid'.deviceMap[k].realId = id[k]
                         /\ hid'.deviceMap[k].instance = s
                         /\ hid'.deviceMap[k].tag = dm[k].tag
  <2>1. \A k \in done : /\ DOMAIN Entry(k) = {"tag", "realId", "instance"}
                        /\ Entry(k).realId = id[k] /\ Entry(k).instance = s
                        /\ Entry(k).tag = dm[k].tag
    BY DEF HidOK
  <2>2. \A k \in DOMAIN dm \ done : Entry(k) = dm[k]
    OBVIOUS
  <2> HIDE DEF Entry
  <2>3. /\ DOMAIN hid'.deviceMap = DOMAIN dm
        /\ \A k \in DOMAIN dm : hid'.deviceMap[k] = Entry(k)
    BY <1>4
  <2> QED
    BY <2>1, <2>2, <2>3
<1>6. /\ DOMAIN hid'.devices = DOMAIN dv \union Range(id)
      /\ \A r \in DOMAIN dv : hid'.devices[r] = dv[r]
      /\ \A r \in Range(id) \ DOMAIN dv : hid'.devices[r] = dm[Owner(r)].tag
  <2>1. \A r \in DOMAIN dv : Tag(r) = dv[r]
    OBVIOUS
  <2>2. \A r \in Range(id) \ DOMAIN dv : Tag(r) = dm[Owner(r)].tag
    OBVIOUS
  <2> HIDE DEF Tag
  <2> QED
    BY <1>4, <2>1, <2>2
<1>7. \A k \in done : id[k] \in Range(id) \ DOMAIN dv /\ Owner(id[k]) = k
  BY <1>3 DEF Range
<1> HIDE DEF Owner, Entry, Tag
<1>8. DOMAIN hid'.devices \subseteq HidIds
  BY <1>3, <1>6 DEF HidOK, Range
<1>9. s \in Instances /\ s <= s
  BY ConnFacts
<1>10. \A k \in DOMAIN hid'.deviceMap :
         /\ DOMAIN hid'.deviceMap[k] = {"tag", "realId", "instance"}
         /\ hid'.deviceMap[k].instance \in Instances
         /\ hid'.deviceMap[k].instance <= s
  BY <1>5, <1>9 DEF HidOK
<1>11. ASSUME ~hid.strayed,
              NEW k \in DOMAIN dm, service.up, service.instance = hid'.deviceMap[k].instance
       PROVE  /\ hid'.deviceMap[k].realId \in DOMAIN hid'.devices
              /\ hid'.devices[hid'.deviceMap[k].realId] = hid'.deviceMap[k].tag
              /\ \A l \in DOMAIN dm :
                   service.instance = hid'.deviceMap[l].instance
                     /\ hid'.deviceMap[k].realId = hid'.deviceMap[l].realId => k = l
  <2>1. \A l \in DOMAIN dm \ done :
          service.instance = dm[l].instance =>
            /\ dm[l].realId \in DOMAIN dv /\ dv[dm[l].realId] = dm[l].tag
            /\ \A m \in DOMAIN dm \ done :
                 service.instance = dm[m].instance /\ dm[l].realId = dm[m].realId => l = m
    BY <1>11 DEF HidOK, HidEntriesNameDevices, Serving
  <2>2. \A l \in done : id[l] \notin DOMAIN dv
    BY <1>3
  <2>3. CASE k \in done
    BY <1>3, <1>5, <1>6, <1>7, <2>1, <2>2, <2>3
  <2>4. CASE k \notin done
    BY <1>5, <1>6, <1>11, <2>1, <2>2, <2>4
  <2> QED
    BY <2>3, <2>4
<1>12. HidEntriesNameDevices'
  BY <1>4, <1>5, <1>11 DEF HidEntriesNameDevices, Serving
<1> QED
  BY <1>4, <1>5, <1>8, <1>10, <1>12 DEF HidOK, Instances


LEMMA ConnectKeeps ==
  ASSUME IInv, NEW op \in LockedOps, Connect(op)
  PROVE  IInv'
<1>1. CASE /\ In(op, "connect") /\ g_ddk # 0
           /\ Goto(op, "use", call.arg)
           /\ UNCHANGED <<driver, conn, g_mutex, out, data>>
  <2>1. /\ UNCHANGED <<driver, conn, g_mutex>> /\ UNCHANGED <<driver, service>> /\ out' = out
        /\ UNCHANGED <<dev, hid, fds, usb, mem, ashmems>>
        /\ g_mutex' = g_mutex /\ g_ddk' = g_ddk
    BY <1>1 DEF conn, data
  <2>2. call' = [op |-> op, step |-> "use", arg |-> call.arg] /\ call.op = op
    BY <1>1 DEF Goto, In
  <2>3. CallTypes' /\ CallOK'
    BY <1>1, <2>1, <2>2 DEF IInv, CallTypes, CallOK
  <2>4. call'.op \notin OpenOps /\ call'.op \notin TransferOps
    BY <2>2 DEF LockedOps, OpenOps, TransferOps
  <2> QED
    BY <2>1, <2>3, <2>4, ConnFrame, DevFrame, HidFrame, FdsFrame, MemFrame, OutFrame DEF IInv
<1>2. CASE Unlock("INVALID_OPERATION") /\ UNCHANGED <<driver, conn, data>>
  <2>1. /\ UNCHANGED <<driver, conn>> /\ UNCHANGED <<driver, service, hid>>
        /\ UNCHANGED <<dev, fds, usb, mem, ashmems>>
    BY <1>2 DEF conn, data
  <2>2. HidOK'
    BY <2>1, HidFrame DEF IInv
  <2> QED
    BY <1>2, <2>1, <2>2, UnlockKeeps DEF Codes
<1>3. CASE /\ In(op, "connect") /\ g_ddk = 0 /\ Get # 0 /\ watched[Get] < MaxRecipients[driver]
           /\ g_ddk' = Get /\ promised' = FALSE
           /\ Recreate(Get)
           /\ Goto(op, "watch", call.arg)
           /\ UNCHANGED <<driver, service, recipient, watched, notices, g_mutex, out, dev, fds,
                          usb, mem, ashmems>>
  <2>1. ConnTypes' /\ ConnOK'
    BY <1>3, ProxyGot DEF IInv
  <2>2. service.up /\ Get = service.instance
    BY <1>3, GetFacts DEF IInv
  <2>3. HidOK'
    BY <1>3, <2>2, RecreateKeeps DEF IInv
  <2>4. call' = [op |-> op, step |-> "watch", arg |-> call.arg] /\ call.op = op
        /\ call.step = "connect"
    BY <1>3 DEF Goto, In
  <2>5. CallTypes'
    BY <2>4 DEF IInv, CallTypes
  <2>6. driver \in WatchedKinds /\ g_mutex
    BY <2>4 DEF IInv, CallOK, WatchedKinds
  <2>7. CallOK'
    BY <1>3, <2>4, <2>6 DEF CallOK
  <2>8. call'.step # "use"
    BY <2>4
  <2> QED
    BY <1>3, <2>1, <2>3, <2>5, <2>7, <2>8, DevFrame, FdsFrame, MemFrame, OutFrame DEF IInv
<1>4. CASE /\ In(op, "watch")
           /\ AddDeathRecipient(g_ddk)
           /\ IF Serving(g_ddk)
              THEN promised' = TRUE /\ Goto(op, "use", call.arg) /\ UNCHANGED <<g_mutex, out>>
              ELSE promised' = FALSE /\ Unlock("INVALID_OPERATION")
           /\ UNCHANGED <<driver, service, g_ddk, notices, data>>
  <2>1. call.op = op /\ call.step = "watch" /\ g_ddk # 0 /\ g_mutex
    BY <1>4 DEF In, IInv, CallOK
  <2>2. promised' \in BOOLEAN /\ g_mutex' \in BOOLEAN
    BY <1>4 DEF IInv, ConnTypes, Unlock
  <2>3. ConnTypes' /\ ConnOK'
    BY <1>4, <2>1, <2>2, RecipientAdded DEF IInv
  <2>4. OutOK'
    BY <1>4, OutPlain, OutFrame DEF IInv, Unlock, Return, Codes
  <2>5. CallTypes' /\ CallOK'
    <3>1. CASE Serving(g_ddk)
      <4>1. call' = [op |-> op, step |-> "use", arg |-> call.arg] /\ g_ddk' # 0 /\ g_mutex'
        BY <1>4, <2>1, <3>1 DEF Goto
      <4> QED
        BY <4>1, <2>1 DEF IInv, CallTypes, CallOK
    <3>2. CASE ~Serving(g_ddk)
      BY <1>4, <3>2, CallEnds DEF Unlock, Return
    <3> QED
      BY <3>1, <3>2
  <2>6. call'.op \notin OpenOps /\ call'.op \notin TransferOps
    BY <1>4 DEF Goto, Unlock, Return, Idle, LockedOps, OpenOps, TransferOps
  <2>7. UNCHANGED <<driver, service>> /\ UNCHANGED <<dev, hid, fds, usb, mem, ashmems>>
    BY <1>4 DEF data
  <2> QED
    BY <2>3, <2>4, <2>5, <2>6, <2>7, DevFrame, HidFrame, FdsFrame, MemFrame DEF IInv
<1> QED
  BY <1>1, <1>2, <1>3, <1>4 DEF Connect

\* A locked call that changes no device returns.
LEMMA UnlockPlain ==
  ASSUME IInv, NEW code \in Codes, Unlock(code), UNCHANGED <<driver, conn, data>>
  PROVE  IInv'
<1>1. /\ UNCHANGED <<driver, conn>> /\ UNCHANGED <<driver, service, hid>>
      /\ UNCHANGED <<dev, fds, usb, mem, ashmems>>
  BY DEF conn, data
<1>2. HidOK'
  BY <1>1, HidFrame DEF IInv
<1> QED
  BY <1>1, <1>2, UnlockKeeps

\* The new device has an id of its own.
LEMMA CreatedKeeps ==
  ASSUME ConnTypes, HidOK, Serving(g_ddk), UNCHANGED <<driver, service>>,
         NEW id \in HidIds \ DOMAIN hid.devices, NEW tag,
         hid' = [hid EXCEPT !.devices = Put(@, id, tag),
                            !.deviceMap = CacheDeviceInfor(id, tag)]
  PROVE  HidOK'
<1> DEFINE dm == hid.deviceMap
           dv == hid.devices
           e  == [tag |-> tag, realId |-> id, instance |-> g_ddk]
<1>1. /\ DOMAIN hid' = DOMAIN hid /\ hid'.strayed = hid.strayed
      /\ hid'.deviceMap = [k \in DOMAIN dm \union {id} |-> IF k = id THEN e ELSE dm[k]]
      /\ hid'.devices = [r \in DOMAIN dv \union {id} |-> IF r = id THEN tag ELSE dv[r]]
  BY DEF HidOK, Put, CacheDeviceInfor
<1>2. /\ DOMAIN hid'.deviceMap = DOMAIN dm \union {id}
      /\ \A k \in DOMAIN dm \ {id} : hid'.deviceMap[k] = dm[k]
      /\ hid'.deviceMap[id] = e
      /\ DOMAIN hid'.devices = DOMAIN dv \union {id}
      /\ \A r \in DOMAIN dv : hid'.devices[r] = dv[r]
      /\ hid'.devices[id] = tag
  BY <1>1
<1>3. e.tag = tag /\ e.realId = id /\ e.instance = g_ddk
      /\ DOMAIN e = {"tag", "realId", "instance"}
  OBVIOUS
<1> HIDE DEF e
<1>4. g_ddk \in Instances /\ g_ddk <= service.instance
  BY ConnFacts DEF Serving
<1>5. \A k \in DOMAIN hid'.deviceMap :
         /\ DOMAIN hid'.deviceMap[k] = {"tag", "realId", "instance"}
         /\ hid'.deviceMap[k].instance \in Instances
         /\ hid'.deviceMap[k].instance <= service.instance
  BY <1>2, <1>3, <1>4 DEF HidOK
<1>6. ~hid.strayed => \A l \in DOMAIN dm :
          service.up /\ service.instance = dm[l].instance =>
            /\ dm[l].realId \in DOMAIN dv /\ dv[dm[l].realId] = dm[l].tag
            /\ \A m \in DOMAIN dm :
                 service.instance = dm[m].instance /\ dm[l].realId = dm[m].realId => l = m
  BY DEF HidOK, HidEntriesNameDevices, Serving
<1>7. ASSUME ~hid.strayed, NEW k \in DOMAIN dm \union {id},
             service.up, service.instance = hid'.deviceMap[k].instance
      PROVE  /\ hid'.deviceMap[k].realId \in DOMAIN hid'.devices
             /\ hid'.devices[hid'.deviceMap[k].realId] = hid'.deviceMap[k].tag
             /\ \A l \in DOMAIN dm \union {id} :
                  service.instance = hid'.deviceMap[l].instance
                    /\ hid'.deviceMap[k].realId = hid'.deviceMap[l].realId => k = l
  BY <1>2, <1>3, <1>6, <1>7
<1>8. HidEntriesNameDevices'
  BY <1>1, <1>2, <1>7 DEF HidEntriesNameDevices, Serving
<1> QED
  BY <1>1, <1>2, <1>5, <1>8 DEF HidOK, Instances

LEMMA CreateDeviceKeeps ==
  ASSUME IInv, OH_Hid_CreateDevice
  PROVE  IInv'
<1> DEFINE op == "OH_Hid_CreateDevice"
<1>0. op \in LockedOps /\ {"hid"} \subseteq Hid
  BY DEF LockedOps, Hid
<1>1. CASE \E arg \in HidDevices \union {Invalid} : LockFor({"hid"}, op, arg)
  BY <1>0, <1>1, LockKeeps
<1>2. CASE Connect(op)
  BY <1>0, <1>2, ConnectKeeps
<1>3. CASE Unlock("INVALID_PARAMETER") /\ UNCHANGED <<driver, conn, data>>
  BY <1>3, UnlockPlain DEF Codes
<1>4. CASE In(op, "use") /\ g_ddk = 0 /\ Crash
  BY <1>4, CrashKeeps DEF In
<1>5. ASSUME NEW ret \in Answers, Unlock(ret),
             IF ret = "SUCCESS"
             THEN \E id \in HidIds \ DOMAIN hid.devices :
                    hid' = [hid EXCEPT !.devices = Put(@, id, call.arg),
                                       !.deviceMap = CacheDeviceInfor(id, call.arg)]
             ELSE hid' = hid,
             UNCHANGED <<driver, conn, dev, fds, usb, mem, ashmems>>
      PROVE  IInv'
  <2>1. /\ UNCHANGED <<driver, conn>> /\ UNCHANGED <<driver, service>>
        /\ UNCHANGED <<dev, fds, usb, mem, ashmems>>
    BY <1>5 DEF conn
  <2>2. HidOK'
    BY <1>5, <2>1, CodeTypes, CreatedKeeps, HidFrame DEF IInv
  <2> QED
    BY <1>5, <2>1, <2>2, CodeTypes, UnlockKeeps
<1> QED
  BY <1>1, <1>2, <1>3, <1>4, <1>5 DEF OH_Hid_CreateDevice

LEMMA EmitEventKeeps ==
  ASSUME IInv, OH_Hid_EmitEvent
  PROVE  IInv'
<1> DEFINE op == "OH_Hid_EmitEvent"
<1>0. op \in LockedOps /\ Hid \subseteq Hid
  BY DEF LockedOps
<1>1. CASE \E arg \in HidIds \union {Invalid} : LockFor(Hid, op, arg)
  BY <1>0, <1>1, LockKeeps
<1>2. CASE Connect(op)
  BY <1>0, <1>2, ConnectKeeps
<1>3. CASE Unlock("INVALID_PARAMETER") /\ UNCHANGED <<driver, conn, data>>
  BY <1>3, UnlockPlain DEF Codes
<1>4. CASE In(op, "use") /\ g_ddk = 0 /\ Crash
  BY <1>4, CrashKeeps DEF In
<1>5. CASE \E ret \in Answers : Unlock(ret) /\ UNCHANGED <<driver, conn, data>>
  BY <1>5, CodeTypes, UnlockPlain
<1> QED
  BY <1>1, <1>2, <1>3, <1>4, <1>5 DEF OH_Hid_EmitEvent

\* The entry goes with its device.  No other entry has the same device: were the destroyed id an
\* entry of this instance, the two would have shared a number.
LEMMA DestroyedKeeps ==
  ASSUME ConnTypes, HidOK, UNCHANGED <<driver, service>>, NEW arg, NEW gone,
         arg \in DOMAIN hid.deviceMap => gone = hid.deviceMap[arg].realId,
         hid' = [deviceMap |-> Restrict(hid.deviceMap, DOMAIN hid.deviceMap \ {arg}),
                 devices |-> Restrict(hid.devices, DOMAIN hid.devices \ {gone}),
                 strayed |->
                   \/ hid.strayed
                   \/ /\ NamesNoDevice(arg)
                      /\ \E k \in DOMAIN hid.deviceMap \ {arg} : hid.deviceMap[k].realId = gone]
  PROVE  HidOK'
<1> DEFINE dm == hid.deviceMap
           dv == hid.devices
<1>1. /\ DOMAIN hid' = {"deviceMap", "devices", "strayed"}
      /\ DOMAIN hid'.deviceMap = DOMAIN dm \ {arg}
      /\ \A k \in DOMAIN dm \ {arg} : hid'.deviceMap[k] = dm[k]
      /\ DOMAIN hid'.devices = DOMAIN dv \ {gone}
      /\ \A r \in DOMAIN dv \ {gone} : hid'.devices[r] = dv[r]
  BY DEF Restrict
<1>2. ~hid'.strayed => /\ ~hid.strayed
                       /\ NamesNoDevice(arg) =>
                            \A k \in DOMAIN dm \ {arg} : dm[k].realId # gone
  OBVIOUS
<1>3. HidEntriesNameDevices'
  <2>1. ~hid.strayed => \A l \in DOMAIN dm :
          service.up /\ service.instance = dm[l].instance =>
            /\ dm[l].realId \in DOMAIN dv /\ dv[dm[l].realId] = dm[l].tag
            /\ \A m \in DOMAIN dm :
                 service.instance = dm[m].instance /\ dm[l].realId = dm[m].realId => l = m
    BY DEF HidOK, HidEntriesNameDevices, Serving
  <2>2. ASSUME ~hid'.strayed, NEW k \in DOMAIN dm \ {arg},
               service.up, service.instance = hid'.deviceMap[k].instance
        PROVE  /\ hid'.deviceMap[k].realId \in DOMAIN hid'.devices
               /\ hid'.devices[hid'.deviceMap[k].realId] = hid'.deviceMap[k].tag
               /\ \A l \in DOMAIN dm \ {arg} :
                    service.instance = hid'.deviceMap[l].instance
                      /\ hid'.deviceMap[k].realId = hid'.deviceMap[l].realId => k = l
    <3>1. ~hid.strayed
      BY <1>2, <2>2
    <3>2. hid'.deviceMap[k] = dm[k] /\ k \in DOMAIN dm
      BY <1>1, <2>2
    <3>3. /\ dm[k].realId \in DOMAIN dv /\ dv[dm[k].realId] = dm[k].tag
          /\ \A m \in DOMAIN dm :
               service.instance = dm[m].instance /\ dm[k].realId = dm[m].realId => k = m
      BY <2>1, <2>2, <3>1, <3>2
    <3>4. \A l \in DOMAIN dm \ {arg} :
            service.instance = hid'.deviceMap[l].instance
              /\ hid'.deviceMap[k].realId = hid'.deviceMap[l].realId => k = l
      BY <1>1, <3>2, <3>3
    <3>5. dm[k].realId # gone
      <4>1. CASE NamesNoDevice(arg)
        BY <1>2, <2>2, <4>1
      <4>2. CASE ~NamesNoDevice(arg)
        <5>1. arg \in DOMAIN dm /\ service.instance = dm[arg].instance /\ gone = dm[arg].realId
          BY <4>2 DEF NamesNoDevice, Serving
        <5> QED
          BY <3>3, <5>1
      <4> QED
        BY <4>1, <4>2
    <3> QED
      BY <1>1, <3>2, <3>3, <3>4, <3>5
  <2> QED
    BY <1>1, <2>2 DEF HidEntriesNameDevices, Serving
<1> QED
  BY <1>1, <1>3 DEF HidOK, Instances

LEMMA DestroyDeviceKeeps ==
  ASSUME IInv, OH_Hid_DestroyDevice
  PROVE  IInv'
<1> DEFINE op == "OH_Hid_DestroyDevice"
           real == GetRealDeviceId(call.arg)
<1>0. op \in LockedOps /\ {"hid"} \subseteq Hid
  BY DEF LockedOps, Hid
<1>1. CASE \E arg \in HidIds : LockFor({"hid"}, op, arg)
  BY <1>0, <1>1, LockKeeps
<1>2. CASE Connect(op)
  BY <1>0, <1>2, ConnectKeeps
<1>3. CASE In(op, "use") /\ g_ddk = 0 /\ Crash
  BY <1>3, CrashKeeps DEF In
<1>4. ASSUME NEW ret \in Answers, Unlock(ret),
             hid' = IF ret # "SUCCESS" THEN hid
                    ELSE [deviceMap |-> Restrict(hid.deviceMap,
                                                 DOMAIN hid.deviceMap \ {call.arg}),
                          devices |-> Restrict(hid.devices, DOMAIN hid.devices \ {real}),
                          strayed |->
                            \/ hid.strayed
                            \/ /\ NamesNoDevice(call.arg)
                               /\ \E k \in DOMAIN hid.deviceMap \ {call.arg} :
                                    hid.deviceMap[k].realId = real],
             UNCHANGED <<driver, conn, dev, fds, usb, mem, ashmems>>
      PROVE  IInv'
  <2>1. /\ UNCHANGED <<driver, conn>> /\ UNCHANGED <<driver, service>>
        /\ UNCHANGED <<dev, fds, usb, mem, ashmems>>
    BY <1>4 DEF conn
  <2>2. call.arg \in DOMAIN hid.deviceMap => real = hid.deviceMap[call.arg].realId
    BY DEF GetRealDeviceId
  <2> HIDE DEF real
  <2>3. HidOK'
    <3>1. CASE ret # "SUCCESS"
      BY <1>4, <2>1, <3>1, HidFrame DEF IInv
    <3>2. CASE ret = "SUCCESS"
      <4> DEFINE arg == call.arg
      <4>1. hid' = [deviceMap |-> Restrict(hid.deviceMap, DOMAIN hid.deviceMap \ {arg}),
                    devices |-> Restrict(hid.devices, DOMAIN hid.devices \ {real}),
                    strayed |->
                      \/ hid.strayed
                      \/ /\ NamesNoDevice(arg)
                         /\ \E k \in DOMAIN hid.deviceMap \ {arg} : hid.deviceMap[k].realId = real]
        BY <1>4, <3>2
      <4>2. arg \in DOMAIN hid.deviceMap => real = hid.deviceMap[arg].realId
        BY <2>2
      <4>3. ConnTypes /\ HidOK
        BY DEF IInv
      <4> HIDE DEF arg
      <4> QED
        BY <2>1, <4>1, <4>2, <4>3, DestroyedKeeps
    <3> QED
      BY <3>1, <3>2
  <2> QED
    BY <1>4, <2>1, <2>3, CodeTypes, UnlockKeeps
<1> QED
  BY <1>1, <1>2, <1>3, <1>4 DEF OH_Hid_DestroyDevice


------------------------------------------------------------------------------
(* 7. Handles. *)

\* A call returns and has changed the handle, and perhaps the descriptors.
LEMMA HandleReturns ==
  ASSUME IInv, call' = Idle, out'.code \in Codes, out'.kind \notin {"read", "write"},
         UNCHANGED <<driver, conn, g_mutex, hid, usb, mem, ashmems>>, DevOK', FdsOK'
  PROVE  IInv'
<1>1. UNCHANGED <<driver, conn, g_mutex>> /\ UNCHANGED <<driver, service>>
      /\ UNCHANGED <<hid, mem>>
  BY DEF conn
<1> QED
  BY <1>1, CallEnds, OutPlain, ConnFrame, HidFrame, MemFrame DEF IInv

\* The handle holds no descriptor, or a new one.
LEMMA DescriptorOpened ==
  ASSUME FdsOK, dev.fd = NoFd, NEW fd \in FreeFds \union {NoFd}, dev'.fd = fd,
         fds' = fds \union ({fd} \ {NoFd}), UNCHANGED <<usb, ashmems>>
  PROVE  FdsOK'
<1>1. NoFd \notin Fds
  BY BoundsAssumption DEF NoFd, Fds
<1>2. FdTypes'
  BY DEF FdsOK, FdTypes, FreeFds
<1>3. FdsAccounted'
  BY DEF FdsOK, FdsAccounted
<1>4. FdsApart'
  BY <1>1 DEF FdsOK, FdTypes, FdsAccounted, FdsApart, FreeFds
<1> QED
  BY <1>2, <1>3, <1>4 DEF FdsOK

LEMMA DescriptorClosed ==
  ASSUME FdsOK, dev'.fd = NoFd, fds' = fds \ {dev.fd}, UNCHANGED <<usb, ashmems>>
  PROVE  FdsOK'
<1>1. NoFd \notin Fds
  BY BoundsAssumption DEF NoFd, Fds
<1>2. FdTypes'
  BY DEF FdsOK, FdTypes
<1>3. FdsAccounted'
  BY DEF FdsOK, FdsAccounted, FdsApart
<1>4. FdsApart'
  BY <1>1 DEF FdsOK, FdTypes, FdsAccounted, FdsApart
<1> QED
  BY <1>2, <1>3, <1>4 DEF FdsOK

LEMMA OpenKeeps ==
  ASSUME IInv, NEW kinds, NEW op \in OpenOps, OpenOf(kinds, op)
  PROVE  IInv'
<1>0. op \notin LockedOps \union TransferOps
  BY DEF OpenOps, LockedOps, TransferOps
<1>1. CASE ~dev.open /\ \E valid \in BOOLEAN : Tests(op, valid, 0)
  BY <1>0, <1>1, TestsKeeps
<1>2. CASE In(op, "use") /\ Crash
  BY <1>2, CrashKeeps DEF In
<1>3. ASSUME In(op, "use"), g_ddk # 0, NEW ret \in Answers, Return(TransToCode(ret)),
             IF ret # "SUCCESS" THEN dev' = [NoDev EXCEPT !.open = TRUE] /\ fds' = fds
             ELSE \E fd \in IF driver \in Scsi THEN FreeFds ELSE {NoFd} :
                    /\ dev' = [NoDev EXCEPT !.open = TRUE, !.instance = g_ddk, !.fd = fd]
                    /\ fds' = fds \union ({fd} \ {NoFd}),
             UNCHANGED <<driver, conn, g_mutex, hid, usb, mem, ashmems>>
      PROVE  IInv'
  <2>1. dev.fd = NoFd
    BY <1>3 DEF IInv, DevOK, In
  <2>2. PICK fd \in FreeFds \union {NoFd}, i \in {0, g_ddk} :
          /\ dev' = [open |-> TRUE, instance |-> i, fd |-> fd, nonBlock |-> 0]
          /\ fds' = fds \union ({fd} \ {NoFd})
    <3>1. CASE ret # "SUCCESS"
      <4>1. /\ dev' = [open |-> TRUE, instance |-> 0, fd |-> NoFd, nonBlock |-> 0]
            /\ fds' = fds \union ({NoFd} \ {NoFd})
        BY <1>3, <3>1 DEF NoDev
      <4> QED
        BY <4>1
    <3>2. CASE ret = "SUCCESS"
      <4>1. PICK fd \in FreeFds \union {NoFd} :
              /\ dev' = [NoDev EXCEPT !.open = TRUE, !.instance = g_ddk, !.fd = fd]
              /\ fds' = fds \union ({fd} \ {NoFd})
        BY <1>3, <3>2
      <4>2. dev' = [open |-> TRUE, instance |-> g_ddk, fd |-> fd, nonBlock |-> 0]
        BY <4>1 DEF NoDev
      <4> QED
        BY <4>1, <4>2
    <3> QED
      BY <3>1, <3>2
  <2>3. i \in {0} \union Instances /\ i \in Nat /\ i <= service.instance
    BY ConnFacts DEF IInv, ConnTypes, ConnOK
  <2>4. UNCHANGED <<driver, service>> /\ UNCHANGED <<usb, ashmems>> /\ Instances' = Instances
    BY <1>3 DEF conn, Instances
  <2>5. fd \in {NoFd} \union Fds
    BY DEF FreeFds
  <2>6. call' = Idle
    BY <1>3 DEF Return
  <2>7. DevOK'
    <3>1. dev' \in [open : BOOLEAN, instance : {0} \union Instances, fd : {NoFd} \union Fds,
                    nonBlock : {0, 1}]
      BY <2>2, <2>3, <2>5
    <3>2. dev'.open /\ dev'.instance = i
      BY <2>2
    <3> QED
      BY <3>1, <3>2, <2>3, <2>4, <2>6 DEF DevOK, Idle
  <2>8. dev'.fd = fd
    BY <2>2
  <2>9. FdsOK'
    BY <2>1, <2>2, <2>4, <2>8, DescriptorOpened DEF IInv
  <2>10. out'.code \in Codes /\ out'.kind \notin {"read", "write"}
    BY <1>3, CodeTypes DEF Return
  <2> QED
    BY <1>3, <2>6, <2>7, <2>9, <2>10, HandleReturns
<1> QED
  BY <1>1, <1>2, <1>3 DEF OpenOf

LEMMA NoDevOK ==
  ASSUME ConnTypes, dev' = NoDev, call' = Idle, UNCHANGED <<driver, service>>
  PROVE  DevOK' /\ dev'.fd = NoFd
<1>1. service.instance \in Nat /\ service.instance > 0
  BY ConnFacts
<1> QED
  BY <1>1 DEF DevOK, NoDev, NoFd, Idle

LEMMA CloseKeeps ==
  ASSUME IInv, NEW kinds, NEW op, CloseOf(kinds, op),
         op \notin LockedOps \union TransferOps \union OpenOps
  PROVE  IInv'
<1>1. CASE Tests(op, dev.open, 0)
  BY <1>1, TestsKeeps
<1>2. CASE In(op, "use") /\ Crash
  BY <1>2, CrashKeeps DEF In
<1>3. ASSUME NEW ret \in Answers,
             Return(IF ret = "SUCCESS" /\ driver \in Scsi /\ dev.fd = NoFd THEN "IO_ERROR"
                    ELSE TransToCode(ret)),
             dev' = NoDev, fds' = fds \ {dev.fd},
             UNCHANGED <<driver, conn, g_mutex, hid, usb, mem, ashmems>>
      PROVE  IInv'
  <2>1. call' = Idle /\ out'.code \in Codes /\ out'.kind \notin {"read", "write"}
    BY <1>3, CodeTypes DEF Return, Codes
  <2>2. UNCHANGED <<driver, service>> /\ UNCHANGED <<usb, ashmems>>
    BY <1>3 DEF conn
  <2>3. DevOK' /\ dev'.fd = NoFd
    BY <1>3, <2>1, <2>2, NoDevOK DEF IInv
  <2>4. FdsOK'
    BY <1>3, <2>2, <2>3, DescriptorClosed DEF IInv
  <2> QED
    BY <1>3, <2>1, <2>3, <2>4, HandleReturns
<1> QED
  BY <1>1, <1>2, <1>3 DEF CloseOf

LEMMA SetNonBlockingKeeps ==
  ASSUME IInv, OH_Hid_SetNonBlocking
  PROVE  IInv'
<1> DEFINE op == "OH_Hid_SetNonBlocking"
<1>0. op \notin LockedOps \union TransferOps \union OpenOps
  BY DEF LockedOps, TransferOps, OpenOps
<1>1. CASE \E mode \in {0, 1}, valid \in {dev.open, FALSE} : Tests(op, valid, mode)
  BY <1>0, <1>1, TestsKeeps
<1>2. CASE In(op, "use") /\ Crash
  BY <1>2, CrashKeeps DEF In
<1>3. ASSUME In(op, "use"), NEW ret \in Answers, Return(TransToCode(ret)),
             dev' = IF ret = "SUCCESS" THEN [dev EXCEPT !.nonBlock = call.arg] ELSE dev,
             UNCHANGED <<driver, conn, g_mutex, hid, fds, usb, mem, ashmems>>
      PROVE  IInv'
  <2>1. call' = Idle /\ out'.code \in Codes /\ out'.kind \notin {"read", "write"}
    BY <1>3, CodeTypes DEF Return
  <2>2. UNCHANGED <<driver, service, g_ddk>> /\ UNCHANGED <<usb, ashmems>> /\ fds' = fds
        /\ Instances' = Instances
    BY <1>3 DEF conn, Instances
  <2>3. call.arg \in {0, 1}
    BY <1>0, <1>3 DEF IInv, CallTypes, In
  <2>4. dev \in [open : BOOLEAN, instance : {0} \union Instances, fd : {NoFd} \union Fds,
                 nonBlock : {0, 1}]
    BY DEF IInv, DevOK
  <2>5. /\ dev' \in [open : BOOLEAN, instance : {0} \union Instances, fd : {NoFd} \union Fds,
                     nonBlock : {0, 1}]
        /\ dev'.fd = dev.fd /\ dev'.open = dev.open /\ dev'.instance = dev.instance
    BY <1>3, <2>3, <2>4
  <2>6. DevOK'
    BY <2>1, <2>2, <2>5 DEF IInv, DevOK, Idle
  <2>7. FdsOK'
    BY <2>2, <2>5 DEF IInv, FdsOK, FdTypes, FdsAccounted, FdsApart
  <2> QED
    BY <1>3, <2>1, <2>6, <2>7, HandleReturns
<1> QED
  BY <1>0, <1>1, <1>2, <1>3 DEF OH_Hid_SetNonBlocking


------------------------------------------------------------------------------
(* 8. USB memory maps and shared memory. *)

\* A step of a call that changes the descriptors of maps, or of shared memory, only.
LEMMA MapsChange ==
  ASSUME IInv, CallTypes', CallOK', call'.op \notin OpenOps \union TransferOps,
         out'.code \in Codes, out'.kind \notin {"read", "write"},
         UNCHANGED <<driver, conn, g_mutex, dev, hid, mem>>, FdsOK'
  PROVE  IInv'
<1>1. UNCHANGED <<driver, conn, g_mutex>> /\ UNCHANGED <<driver, service>>
      /\ UNCHANGED <<dev, hid, mem>>
  BY DEF conn
<1> QED
  BY <1>1, OutPlain, ConnFrame, DevFrame, HidFrame, MemFrame DEF IInv

LEMMA MapsReturn ==
  ASSUME IInv, NEW code \in Codes, Return(code),
         UNCHANGED <<driver, conn, g_mutex, dev, hid, mem>>, FdsOK'
  PROVE  IInv'
<1>1. call' = Idle /\ out' = [code |-> code, kind |-> "none"]
  BY DEF Return
<1>2. call'.op \notin OpenOps \union TransferOps
  BY <1>1 DEF Idle, OpenOps, TransferOps
<1> QED
  BY <1>1, <1>2, CallEnds, MapsChange

LEMMA CloseAllKeeps ==
  ASSUME IInv, NEW op, CloseAll(op),
         op \notin LockedOps \union TransferOps \union OpenOps
  PROVE  IInv'
<1>1. /\ g_ddk # 0 /\ fds' = fds \ Range(usb.g_fdMap)
      /\ usb' = [usb EXCEPT !.g_fdMap = <<>>]
      /\ call' = [op |-> op, step |-> "use", arg |-> 0] /\ out' = Nothing
      /\ UNCHANGED <<driver, conn, g_mutex, dev, hid, mem>> /\ ashmems' = ashmems
      /\ UNCHANGED <<driver, g_ddk, g_mutex, dev>>
  BY DEF CloseAll, Goto, conn
<1>2. CallTypes' /\ CallOK'
  BY <1>1 DEF CallTypes, CallOK
<1>3. out'.code \in Codes /\ out'.kind \notin {"read", "write"}
  BY <1>1 DEF Nothing, Codes
<1>4. /\ DOMAIN usb' = DOMAIN usb /\ usb'.g_fdMap = <<>> /\ usb'.mapped = usb.mapped
      /\ usb'.leaked = usb.leaked
  BY <1>1 DEF IInv, FdsOK, FdTypes
<1>5. DOMAIN usb'.g_fdMap = {} /\ Range(usb'.g_fdMap) = {}
  BY <1>4 DEF Range
<1>6. FdTypes'
  BY <1>1, <1>4, <1>5 DEF IInv, FdsOK, FdTypes
<1>7. FdsAccounted'
  BY <1>1, <1>4, <1>5 DEF IInv, FdsOK, FdsAccounted, FdsApart
<1>8. FdsApart'
  BY <1>1, <1>4, <1>5 DEF IInv, FdsOK, FdsApart
<1> QED
  BY <1>1, <1>2, <1>3, <1>6, <1>7, <1>8, MapsChange DEF FdsOK

LEMMA UsbReleaseKeeps ==
  ASSUME IInv, NEW op, UsbReleaseOf(op),
         op \notin LockedOps \union TransferOps \union OpenOps
  PROVE  IInv'
BY TestsKeeps, CloseAllKeeps, ReleaseProxyKeeps DEF UsbReleaseOf

\* mmap failed: the descriptor is left behind.
LEMMA DescriptorLeaked ==
  ASSUME FdsOK, DevOK, NEW fd \in FreeFds, fds' = fds \union {fd},
         usb' = [usb EXCEPT !.leaked = @ \union {fd}], UNCHANGED <<dev, ashmems>>
  PROVE  FdsOK'
<1>1. /\ DOMAIN usb' = DOMAIN usb /\ usb'.g_fdMap = usb.g_fdMap /\ usb'.mapped = usb.mapped
      /\ usb'.leaked = usb.leaked \union {fd}
  BY DEF FdsOK, FdTypes
<1>2. NoFd \notin Fds
  BY BoundsAssumption DEF NoFd, Fds
<1>3. FdTypes'
  BY <1>1 DEF FdsOK, FdTypes, FreeFds
<1>4. FdsAccounted'
  BY <1>1 DEF FdsOK, FdsAccounted, FreeFds
<1>5. FdsApart'
  BY <1>1, <1>2 DEF FdsOK, FdTypes, FdsAccounted, FdsApart, FreeFds
<1> QED
  BY <1>3, <1>4, <1>5 DEF FdsOK

\* A new map has a descriptor and an address of its own.
LEMMA MapAdded ==
  ASSUME FdsOK, NEW fd \in FreeFds, NEW a \in Addresses \ usb.mapped,
         fds' = (fds \ {usb.g_fdMap[x] : x \in DOMAIN usb.g_fdMap \intersect {a}}) \union {fd},
         usb' = [usb EXCEPT !.g_fdMap = Put(@, a, fd), !.mapped = @ \union {a}],
         UNCHANGED <<dev, ashmems>>
  PROVE  FdsOK'
<1> DEFINE m == usb.g_fdMap
<1>1. /\ DOMAIN usb' = DOMAIN usb /\ usb'.mapped = usb.mapped \union {a}
      /\ usb'.leaked = usb.leaked
      /\ usb'.g_fdMap = [x \in DOMAIN m \union {a} |-> IF x = a THEN fd ELSE m[x]]
  BY DEF FdsOK, FdTypes, Put
<1>2. a \notin DOMAIN m
  BY DEF FdsOK, FdsAccounted
<1>3. fds' = fds \union {fd}
  BY <1>2
<1>4. /\ DOMAIN usb'.g_fdMap = DOMAIN m \union {a} /\ usb'.g_fdMap[a] = fd
      /\ \A x \in DOMAIN m : usb'.g_fdMap[x] = m[x]
  BY <1>1, <1>2
<1>5. Range(usb'.g_fdMap) = Range(m) \union {fd}
  BY <1>4 DEF Range
<1>6. fd \notin fds /\ fd \in Fds /\ NoFd \notin Fds
  BY BoundsAssumption DEF FreeFds, NoFd, Fds
<1>7. FdTypes'
  BY <1>1, <1>3, <1>4, <1>6 DEF FdsOK, FdTypes
<1>8. FdsAccounted'
  <2>1. \A x \in DOMAIN m : m[x] \in fds
    BY DEF FdsOK, FdsAccounted, Range
  <2>2. \A x, y \in DOMAIN usb'.g_fdMap : usb'.g_fdMap[x] = usb'.g_fdMap[y] => x = y
    BY <1>4, <1>6, <2>1 DEF FdsOK, FdsAccounted
  <2>3. /\ fds' = Range(usb'.g_fdMap) \union usb'.leaked \union ({dev'.fd} \ {NoFd})
                  \union ashmems'.map
        /\ Range(usb'.g_fdMap) \intersect usb'.leaked = {}
    BY <1>1, <1>3, <1>5, <1>6 DEF FdsOK, FdsAccounted
  <2>4. DOMAIN usb'.g_fdMap \subseteq usb'.mapped
    BY <1>1, <1>4 DEF FdsOK, FdsAccounted
  <2> QED
    BY <2>2, <2>3, <2>4 DEF FdsAccounted
<1>9. FdsApart'
  BY <1>1, <1>5, <1>6 DEF FdsOK, FdsAccounted, FdsApart
<1> QED
  BY <1>7, <1>8, <1>9 DEF FdsOK

\* A map goes with its descriptor, if it still has one.
LEMMA MapRemoved ==
  ASSUME FdsOK, NEW a \in usb.mapped,
         fds' = fds \ {usb.g_fdMap[x] : x \in DOMAIN usb.g_fdMap \intersect {a}},
         usb' = [usb EXCEPT !.g_fdMap = FdMapWithout(a), !.mapped = @ \ {a}],
         UNCHANGED <<dev, ashmems>>
  PROVE  FdsOK'
<1> DEFINE m == usb.g_fdMap
           gone == {m[x] : x \in DOMAIN m \intersect {a}}
<1>1. /\ DOMAIN usb' = DOMAIN usb /\ usb'.mapped = usb.mapped \ {a}
      /\ usb'.leaked = usb.leaked
      /\ usb'.g_fdMap = [x \in DOMAIN m \ {a} |-> m[x]]
  BY DEF FdsOK, FdTypes, FdMapWithout, Restrict
<1>2. /\ DOMAIN usb'.g_fdMap = DOMAIN m \ {a}
      /\ \A x \in DOMAIN m \ {a} : usb'.g_fdMap[x] = m[x]
  BY <1>1
<1>3. \A x, y \in DOMAIN m : m[x] = m[y] => x = y
  BY DEF FdsOK, FdsAccounted
<1>4. gone \subseteq Range(m)
  BY DEF Range
<1>5. Range(usb'.g_fdMap) = Range(m) \ gone
  BY <1>2, <1>3 DEF Range
<1>6. fds' = fds \ gone
  OBVIOUS
<1> HIDE DEF gone
<1>7. FdTypes'
  BY <1>1, <1>2, <1>6 DEF FdsOK, FdTypes
<1>8. FdsAccounted'
  <2>1. \A x, y \in DOMAIN usb'.g_fdMap : usb'.g_fdMap[x] = usb'.g_fdMap[y] => x = y
    BY <1>2, <1>3
  <2>2. fds' = Range(usb'.g_fdMap) \union usb'.leaked \union ({dev'.fd} \ {NoFd})
               \union ashmems'.map
    BY <1>1, <1>4, <1>5, <1>6 DEF FdsOK, FdsAccounted, FdsApart
  <2>3. Range(usb'.g_fdMap) \intersect usb'.leaked = {}
    BY <1>1, <1>5 DEF FdsOK, FdsAccounted
  <2>4. DOMAIN usb'.g_fdMap \subseteq usb'.mapped
    BY <1>1, <1>2 DEF FdsOK, FdsAccounted
  <2> QED
    BY <2>1, <2>2, <2>3, <2>4 DEF FdsAccounted
<1>9. FdsApart'
  BY <1>1, <1>5 DEF FdsOK, FdsApart
<1> QED
  BY <1>7, <1>8, <1>9 DEF FdsOK


LEMMA CreateDeviceMemMapKeeps ==
  ASSUME IInv, OH_Usb_CreateDeviceMemMap
  PROVE  IInv'
<1> DEFINE op == "OH_Usb_CreateDeviceMemMap"
<1>1. CASE /\ Return("INVALID_PARAMETER") \/ (Goto(op, "use", 0) /\ out' = Nothing)
           /\ UNCHANGED <<driver, conn, g_mutex, data>>
  <2>1. CASE Return("INVALID_PARAMETER")
    <3>1. Ends
      BY <1>1, <2>1 DEF Ends, Return, Codes
    <3> QED
      BY <3>1, EndsKeeps
  <2>2. CASE Goto(op, "use", 0) /\ out' = Nothing
    <3>1. /\ call' = [op |-> op, step |-> "use", arg |-> 0]
          /\ UNCHANGED <<driver, conn, g_mutex, dev, hid, mem>>
          /\ UNCHANGED <<dev, fds, usb, ashmems>>
      BY <1>1, <2>2 DEF Goto, data
    <3>2. CallTypes' /\ CallOK'
      BY <3>1 DEF CallTypes, CallOK, Excusable, UntestedOp, LockedOps
    <3>3. call'.op \notin OpenOps \union TransferOps
      BY <3>1 DEF OpenOps, TransferOps
    <3>4. out'.code \in Codes /\ out'.kind \notin {"read", "write"}
      BY <2>2 DEF Nothing, Codes
    <3>5. FdsOK'
      BY <3>1, FdsFrame DEF IInv
    <3> QED
      BY <3>1, <3>2, <3>3, <3>4, <3>5, MapsChange
  <2> QED
    BY <1>1, <2>1, <2>2
<1>2. CASE In(op, "use") /\ Crash
  BY <1>2, CrashKeeps DEF In
<1>3. CASE /\ \E ret \in Answers \ {"SUCCESS"} : Return(TransToCode(ret))
           /\ UNCHANGED <<driver, conn, g_mutex, data>>
  BY <1>3, AnswerKeeps
<1>4. CASE /\ \E fd \in FreeFds :
                /\ fds' = fds \union {fd}
                /\ usb' = [usb EXCEPT !.leaked = @ \union {fd}]
           /\ Return("MEMORY_ERROR")
           /\ UNCHANGED <<driver, conn, g_mutex, dev, hid, mem, ashmems>>
  <2>1. FdsOK'
    BY <1>4, DescriptorLeaked DEF IInv
  <2> QED
    BY <1>4, <2>1, MapsReturn DEF Codes
<1>5. CASE /\ \E fd \in FreeFds, a \in Addresses \ usb.mapped :
                /\ fds' = (fds \ {usb.g_fdMap[x] : x \in DOMAIN usb.g_fdMap \intersect {a}})
                            \union {fd}
                /\ usb' = [usb EXCEPT !.g_fdMap = Put(@, a, fd), !.mapped = @ \union {a}]
           /\ Return("SUCCESS")
           /\ UNCHANGED <<driver, conn, g_mutex, dev, hid, mem, ashmems>>
  <2>1. FdsOK'
    BY <1>5, MapAdded DEF IInv
  <2> QED
    BY <1>5, <2>1, MapsReturn DEF Codes
<1> QED
  BY <1>1, <1>2, <1>3, <1>4, <1>5 DEF OH_Usb_CreateDeviceMemMap

LEMMA DestroyDeviceMemMapKeeps ==
  ASSUME IInv, OH_Usb_DestroyDeviceMemMap
  PROVE  IInv'
<1>1. Return("NONE") /\ UNCHANGED <<driver, conn, g_mutex, dev, hid, mem>> /\ ashmems' = ashmems
      /\ dev' = dev
  BY DEF OH_Usb_DestroyDeviceMemMap
<1>2. CASE UNCHANGED <<fds, usb>>
  <2>1. FdsOK'
    BY <1>1, <1>2, FdsFrame DEF IInv
  <2> QED
    BY <1>1, <2>1, MapsReturn DEF Codes
<1>3. CASE \E a \in usb.mapped :
             /\ fds' = fds \ {usb.g_fdMap[x] : x \in DOMAIN usb.g_fdMap \intersect {a}}
             /\ usb' = [usb EXCEPT !.g_fdMap = FdMapWithout(a), !.mapped = @ \ {a}]
  <2>1. FdsOK'
    BY <1>1, <1>3, MapRemoved DEF IInv
  <2> QED
    BY <1>1, <2>1, MapsReturn DEF Codes
<1> QED
  BY <1>2, <1>3 DEF OH_Usb_DestroyDeviceMemMap

LEMMA SendControlReadKeeps ==
  ASSUME IInv, OH_Usb_SendControlReadRequest
  PROVE  IInv'
<1> DEFINE op == "OH_Usb_SendControlReadRequest"
<1>1. CASE Steady({"usb"}, op, BOOLEAN)
  BY <1>1, SteadyKeeps DEF LockedOps, TransferOps, OpenOps
<1>2. CASE CopyFails(op)
  BY <1>2, CopyFailsKeeps
<1>3. CASE Return("INVALID_PARAMETER") /\ UNCHANGED <<driver, conn, g_mutex, data>>
  <2>1. Ends
    BY <1>3 DEF Ends, Return, Codes
  <2> QED
    BY <2>1, EndsKeeps
<1> QED
  BY <1>1, <1>2, <1>3 DEF OH_Usb_SendControlReadRequest

LEMMA ControlTransferKeeps ==
  ASSUME IInv, OH_Usb_ControlTransfer
  PROVE  IInv'
<1> DEFINE op == "OH_Usb_ControlTransfer"
<1>1. CASE \E valid \in BOOLEAN : Tests(op, valid, 0)
  BY <1>1, TestsKeeps DEF LockedOps, TransferOps, OpenOps
<1>2. CASE /\ \/ \E ret \in Answers : Return(TransToUsbCodeOr(ret, "IO_ERROR"))
              \/ Serving(g_ddk) /\ Return("MEMORY_ERROR")
           /\ UNCHANGED <<driver, conn, g_mutex, data>>
  <2>1. Ends
    BY <1>2, CodeTypes DEF Ends, Return, Codes
  <2> QED
    BY <2>1, EndsKeeps
<1> QED
  BY <1>1, <1>2 DEF OH_Usb_ControlTransfer

\* Whatever the parser makes of the answer, and if it never returns.
LEMMA GetConfigDescriptorKeeps ==
  ASSUME IInv, OH_Usb_GetConfigDescriptor
  PROVE  IInv'
<1> DEFINE op == "OH_Usb_GetConfigDescriptor"
<1>1. CASE \E valid \in BOOLEAN : Tests(op, valid, 0)
  BY <1>1, TestsKeeps DEF LockedOps, TransferOps, OpenOps
<1>2. CASE /\ \E ret \in Answers \ {"SUCCESS"} : Return(TransToCode(ret))
           /\ UNCHANGED <<driver, conn, g_mutex, data>>
  BY <1>2, AnswerKeeps
<1>3. ASSUME In(op, "use"), NEW c \in ConfigInputs, NEW r,
             out' = [code |-> IF r.ret = 0 THEN "SUCCESS" ELSE "FAILURE", kind |-> "config",
                     input |-> c, result |-> r],
             call' = IF r.returns THEN Idle ELSE [call EXCEPT !.step = "parsing"],
             UNCHANGED <<driver, conn, g_mutex, data>>
      PROVE  IInv'
  <2>1. out'.code \in Codes /\ out'.kind \notin {"read", "write"}
    BY <1>3 DEF Codes
  <2>2. CASE call' = Idle
    <3>1. Ends
      BY <1>3, <2>1, <2>2 DEF Ends
    <3> QED
      BY <3>1, EndsKeeps
  <2>3. CASE call' = [call EXCEPT !.step = "parsing"]
    <3>1. /\ DOMAIN call' = DOMAIN call /\ call'.step = "parsing" /\ call'.op = op
          /\ call'.arg = call.arg /\ call.op = op
      BY <1>3, <2>3 DEF IInv, CallTypes, In
    <3>2. CallTypes'
      BY <3>1 DEF IInv, CallTypes
    <3>3. CallOK'
      BY <3>1 DEF CallOK, LockedOps
    <3>4. call'.op \notin OpenOps \union TransferOps
      BY <3>1 DEF OpenOps, TransferOps
    <3>5. /\ UNCHANGED <<driver, conn, g_mutex, dev, hid, mem>>
          /\ UNCHANGED <<dev, fds, usb, ashmems>>
      BY <1>3 DEF data
    <3>6. FdsOK'
      BY <3>5, FdsFrame DEF IInv
    <3> QED
      BY <2>1, <3>2, <3>3, <3>4, <3>5, <3>6, MapsChange
  <2> QED
    BY <1>3, <2>2, <2>3
<1> QED
  BY <1>1, <1>2, <1>3 DEF OH_Usb_GetConfigDescriptor

LEMMA DescriptorReturnsKeeps ==
  ASSUME IInv, OH_Usb_FreeConfigDescriptor \/ OH_ScsiPeripheral_ParseBasicSenseInfo
  PROVE  IInv'
<1>1. CASE OH_Usb_FreeConfigDescriptor
  <2>1. Ends
    BY <1>1 DEF OH_Usb_FreeConfigDescriptor, Ends, Return, Codes
  <2> QED
    BY <2>1, EndsKeeps
<1>2. CASE OH_ScsiPeripheral_ParseBasicSenseInfo
  <2>1. Ends
    BY <1>2 DEF OH_ScsiPeripheral_ParseBasicSenseInfo, Ends, ReturnWith, Codes
  <2> QED
    BY <2>1, EndsKeeps
<1> QED
  BY <1>1, <1>2

LEMMA AshmemKeeps ==
  ASSUME IInv, AshmemCalls
  PROVE  IInv'
<1>1. UNCHANGED <<driver, conn, g_mutex, dev, hid, mem>> /\ dev' = dev /\ usb' = usb
  BY DEF AshmemCalls, OH_DDK_CreateAshmem, OH_DDK_MapAshmem, OH_DDK_UnmapAshmem,
         OH_DDK_DestroyAshmem
<1>2. \E code \in Codes : Return(code)
  BY DEF AshmemCalls, OH_DDK_CreateAshmem, OH_DDK_MapAshmem, OH_DDK_UnmapAshmem,
         OH_DDK_DestroyAshmem, Codes
<1>3. SUFFICES FdsOK'
  BY <1>1, <1>2, MapsReturn
<1>4. NoFd \notin Fds
  BY BoundsAssumption DEF NoFd, Fds
<1>5. ASSUME NEW fd \in FreeFds, fds' = fds \union {fd},
             ashmems' = [ashmems EXCEPT !.map = @ \union {fd}]
      PROVE  FdsOK'
  <2>1. DOMAIN ashmems' = DOMAIN ashmems /\ ashmems'.map = ashmems.map \union {fd}
        /\ ashmems'.address = ashmems.address
    BY <1>5 DEF IInv, FdsOK, FdTypes
  <2>2. FdTypes'
    BY <1>1, <1>5, <2>1 DEF IInv, FdsOK, FdTypes, FreeFds
  <2>3. FdsAccounted'
    BY <1>1, <1>5, <2>1 DEF IInv, FdsOK, FdsAccounted, FreeFds
  <2>4. FdsApart'
    BY <1>1, <1>4, <1>5, <2>1 DEF IInv, FdsOK, FdTypes, FdsAccounted, FdsApart, FreeFds
  <2> QED
    BY <2>2, <2>3, <2>4 DEF FdsOK
<1>6. ASSUME NEW fd \in Fds, fd \in ashmems.map, fds' = fds \ {fd},
             ashmems' = [map |-> ashmems.map \ {fd}, address |-> ashmems.address \ {fd}]
      PROVE  FdsOK'
  <2>1. DOMAIN ashmems' = {"map", "address"} /\ ashmems'.map = ashmems.map \ {fd}
        /\ ashmems'.address = ashmems.address \ {fd}
    BY <1>6
  <2>2. FdTypes'
    BY <1>1, <1>6, <2>1 DEF IInv, FdsOK, FdTypes
  <2>3. FdsAccounted'
    BY <1>1, <1>6, <2>1 DEF IInv, FdsOK, FdsAccounted, FdsApart
  <2>4. FdsApart'
    BY <1>1, <2>1 DEF IInv, FdsOK, FdsApart
  <2> QED
    BY <2>2, <2>3, <2>4 DEF FdsOK
<1>7. ASSUME NEW fd \in Fds, fd \in ashmems.map, fds' = fds,
             \/ ashmems' = [ashmems EXCEPT !.address = @ \union {fd}]
             \/ ashmems' = [ashmems EXCEPT !.address = @ \ {fd}]
      PROVE  FdsOK'
  <2>1. DOMAIN ashmems' = DOMAIN ashmems /\ ashmems'.map = ashmems.map
        /\ ashmems'.address \subseteq ashmems.address \union {fd}
    BY <1>7 DEF IInv, FdsOK, FdTypes
  <2>2. FdTypes'
    BY <1>1, <1>7, <2>1 DEF IInv, FdsOK, FdTypes
  <2>3. FdsAccounted' /\ FdsApart'
    BY <1>1, <1>7, <2>1 DEF IInv, FdsOK, FdsAccounted, FdsApart
  <2> QED
    BY <2>2, <2>3 DEF FdsOK
<1>8. ASSUME fds' = fds, ashmems' = ashmems
      PROVE  FdsOK'
  BY <1>1, <1>8, FdsFrame DEF IInv
<1>9. CASE OH_DDK_CreateAshmem
  BY <1>5, <1>8, <1>9 DEF OH_DDK_CreateAshmem
<1>10. CASE OH_DDK_MapAshmem
  BY <1>7, <1>8, <1>10 DEF OH_DDK_MapAshmem, AshmemValidityCheck
<1>11. CASE OH_DDK_UnmapAshmem
  BY <1>7, <1>8, <1>11 DEF OH_DDK_UnmapAshmem, AshmemValidityCheck
<1>12. CASE OH_DDK_DestroyAshmem
  BY <1>6, <1>8, <1>12 DEF OH_DDK_DestroyAshmem, AshmemValidityCheck
<1> QED
  BY <1>9, <1>10, <1>11, <1>12 DEF AshmemCalls


------------------------------------------------------------------------------
(* 9. SCSI: the memory map and the transfers through it. *)

LEMMA IntSeq ==
  ASSUME NEW n \in Nat, NEW f \in [1..n -> Int]
  PROVE  f \in Seq(Int) /\ Len(f) = n /\ DOMAIN f = 1..n
<1>1. f \in Seq(Int)
  <2>1. \A i \in 1..n : f[i] \in Int
    OBVIOUS
  <2>2. f = [i \in 1..n |-> f[i]]
    OBVIOUS
  <2>3. [i \in 1..n |-> f[i]] \in Seq(Int)
    BY <2>1, IsASeq
  <2> QED
    BY <2>2, <2>3
<1>2. Len(f) \in Nat /\ DOMAIN f = 1..Len(f) /\ DOMAIN f = 1..n
  BY <1>1, LenProperties
<1>3. Len(f) = n
  BY <1>2
<1> QED
  BY <1>1, <1>2, <1>3

\* Bytes inside the map, and what is written over them.
LEMMA OverBytes ==
  ASSUME NEW bytes \in Seq(Int), NEW start \in Nat, NEW new \in Seq(Int)
  PROVE  /\ Over(bytes, start, new) \in Seq(Int)
         /\ Len(Over(bytes, start, new)) = Len(bytes)
         /\ \A i \in 1..Len(bytes) :
              Over(bytes, start, new)[i] =
                IF start < i /\ i <= start + Len(new) THEN new[i - start] ELSE bytes[i]
<1> DEFINE e(i) == IF start < i /\ i <= start + Len(new) THEN new[i - start] ELSE bytes[i]
           f == [i \in 1..Len(bytes) |-> e(i)]
<1>1. Len(new) \in Nat /\ \A i \in 1..Len(new) : new[i] \in Int
  BY LenProperties, ElementOfSeq
<1>2. DOMAIN bytes = 1..Len(bytes) /\ Len(bytes) \in Nat /\ \A i \in 1..Len(bytes) : bytes[i] \in Int
  BY LenProperties, ElementOfSeq
<1>3. Over(bytes, start, new) = f
  BY <1>1, <1>2 DEF Over
<1>4. \A i \in 1..Len(bytes) : e(i) \in Int
  <2> TAKE i \in 1..Len(bytes)
  <2>1. start < i /\ i <= start + Len(new) => i - start \in 1..Len(new)
    BY <1>1, <1>2
  <2> QED
    BY <1>1, <1>2, <2>1
<1>5. \A i \in 1..Len(bytes) : f[i] = e(i)
  OBVIOUS
<1>6. f \in [1..Len(bytes) -> Int]
  BY <1>4
<1> HIDE DEF f
<1> QED
  BY <1>2, <1>3, <1>5, <1>6, IntSeq

LEMMA MovedBytes ==
  ASSUME NEW bytes \in Seq(Int), NEW to \in Nat, NEW from \in Nat, NEW n \in Nat,
         from + n <= Len(bytes)
  PROVE  /\ MoveBytes(bytes, to, from, n) \in Seq(Int)
         /\ Len(MoveBytes(bytes, to, from, n)) = Len(bytes)
         /\ \A i \in 1..Len(bytes) :
              MoveBytes(bytes, to, from, n)[i] =
                IF to < i /\ i <= to + n THEN bytes[i - to + from] ELSE bytes[i]
<1> DEFINE e(i) == IF to < i /\ i <= to + n THEN bytes[i - to + from] ELSE bytes[i]
           f == [i \in 1..Len(bytes) |-> e(i)]
<1>1. DOMAIN bytes = 1..Len(bytes) /\ Len(bytes) \in Nat /\ \A i \in 1..Len(bytes) : bytes[i] \in Int
  BY LenProperties, ElementOfSeq
<1>2. MoveBytes(bytes, to, from, n) = f
  BY <1>1 DEF MoveBytes
<1>3. \A i \in 1..Len(bytes) : e(i) \in Int
  <2> TAKE i \in 1..Len(bytes)
  <2>1. to < i /\ i <= to + n => i - to + from \in 1..Len(bytes)
    BY <1>1
  <2> QED
    BY <1>1, <2>1
<1>4. \A i \in 1..Len(bytes) : f[i] = e(i)
  OBVIOUS
<1>5. f \in [1..Len(bytes) -> Int]
  BY <1>3
<1> HIDE DEF f
<1> QED
  BY <1>1, <1>2, <1>4, <1>5, IntSeq

LEMMA RunOfBytes ==
  ASSUME NEW s, NEW a \in Nat, NEW n \in Nat, \A i \in 1..n : s[a + i] \in Int
  PROVE  /\ SubSeq(s, a + 1, a + n) \in Seq(Int) /\ Len(SubSeq(s, a + 1, a + n)) = n
         /\ \A i \in 1..n : SubSeq(s, a + 1, a + n)[i] = s[a + i]
<1> DEFINE u == SubSeq(s, a + 1, a + n)
<1>1. \A i \in (a + 1)..(a + n) : s[i] \in Int
  <2> TAKE i \in (a + 1)..(a + n)
  <2>1. i - a \in 1..n /\ a + (i - a) = i
    OBVIOUS
  <2> QED
    BY <2>1
<1>2. /\ u \in Seq(Int)
      /\ Len(u) = IF a + 1 <= a + n THEN (a + n) - (a + 1) + 1 ELSE 0
      /\ \A i \in 1..((a + n) - (a + 1) + 1) : u[i] = s[(a + 1) + i - 1]
  BY <1>1, SubSeqProperties
<1> HIDE DEF u
<1>3. Len(u) = n
  BY <1>2
<1>4. \A i \in 1..n : u[i] = s[a + i]
  <2> TAKE i \in 1..n
  <2>1. (a + n) - (a + 1) + 1 = n /\ (a + 1) + i - 1 = a + i
    OBVIOUS
  <2> QED
    BY <1>2, <2>1
<1> QED
  BY <1>2, <1>3, <1>4 DEF u

\* Before a transfer the used buffer is at the front of the map.
LEMMA FrontBytes ==
  ASSUME NEW bytes \in Seq(Int), NEW off \in Nat, NEW bl \in Nat, off + bl <= Len(bytes),
         NEW moved, moved = MoveBytes(bytes, 0, off, bl)
  PROVE  /\ moved \in Seq(Int) /\ Len(moved) = Len(bytes)
         /\ SubSeq(moved, 1, bl) = SubSeq(bytes, off + 1, off + bl)
<1> DEFINE z == 0
<1>z. z = 0 /\ z \in Nat
  OBVIOUS
<1> HIDE DEF z
<1>1. Len(bytes) \in Nat
  BY LenProperties
<1>2. /\ moved \in Seq(Int) /\ Len(moved) = Len(bytes)
      /\ \A i \in 1..Len(bytes) :
           moved[i] = IF z < i /\ i <= z + bl THEN bytes[i - z + off] ELSE bytes[i]
  <2>1. moved = MoveBytes(bytes, z, off, bl)
    BY <1>z
  <2> QED
    BY <2>1, <1>z, MovedBytes
<1>3. \A i \in 1..bl : /\ i \in 1..Len(bytes) /\ off + i \in 1..Len(bytes)
                       /\ z < i /\ i <= z + bl /\ i - z + off = off + i /\ z + i = i
  BY <1>1, <1>z
<1>4. \A i \in 1..bl : bytes[off + i] \in Int /\ moved[z + i] = bytes[off + i]
  BY <1>2, <1>3, ElementOfSeq
<1> DEFINE u == SubSeq(bytes, off + 1, off + bl)
           v == SubSeq(moved, z + 1, z + bl)
<1>5. u \in Seq(Int) /\ Len(u) = bl /\ \A i \in 1..bl : u[i] = bytes[off + i]
  BY <1>4, RunOfBytes
<1>6. \A i \in 1..bl : moved[z + i] \in Int
  BY <1>4
<1>7. v \in Seq(Int) /\ Len(v) = bl /\ \A i \in 1..bl : v[i] = moved[z + i]
  BY <1>z, <1>6, RunOfBytes
<1>8. z + 1 = 1 /\ z + bl = bl
  BY <1>z
<1>9. v = SubSeq(moved, 1, bl)
  BY <1>8
<1> HIDE DEF u, v
<1>10. u = v
  BY <1>4, <1>5, <1>7, SeqEqual
<1> QED
  BY <1>2, <1>9, <1>10 DEF u

LEMMA NormalizedMap ==
  ASSUME MapTypes, ValidateMemMap(mem),
         mem' = [NormalizeMemMap(mem) EXCEPT !.before = UsedBuffer(mem)]
  PROVE  /\ MapTypes' /\ ValidateMemMap(mem')
         /\ mem'.before = SubSeq(mem'.bytes, 1, mem'.bufferLength)
<1> DEFINE off == mem.offset
           bl  == mem.bufferLength
           moved == MoveBytes(mem.bytes, 0, off, bl)
<1>1. /\ mem.bytes \in Seq(Int) /\ off \in Nat /\ bl \in Nat /\ Len(mem.bytes) \in Nat
      /\ off + bl <= Len(mem.bytes)
  BY LenProperties DEF MapTypes, ValidateMemMap
<1>2. /\ moved \in Seq(Int) /\ Len(moved) = Len(mem.bytes)
      /\ SubSeq(moved, 1, bl) = SubSeq(mem.bytes, off + 1, off + bl)
  BY <1>1, FrontBytes
<1>3. /\ DOMAIN mem' = DOMAIN mem /\ mem'.bytes = moved /\ mem'.offset = off
      /\ mem'.bufferLength = bl /\ mem'.want = mem.want /\ mem'.before = UsedBuffer(mem)
  BY DEF MapTypes, NormalizeMemMap
<1> HIDE DEF moved
<1>4. MapTypes' /\ ValidateMemMap(mem')
  BY <1>1, <1>2, <1>3 DEF MapTypes, ValidateMemMap
<1> QED
  BY <1>2, <1>3, <1>4 DEF UsedBuffer

\* After a transfer the front of the map is back in the used buffer.
LEMMA RestoredMap ==
  ASSUME NEW m, DOMAIN m = {"bytes", "offset", "bufferLength", "want", "before"},
         m.bytes \in Seq(Int), m.offset \in Nat, m.bufferLength \in Nat, ValidateMemMap(m),
         NEW n \in Nat, NEW done, done = RestoreMemMap(m, n)
  PROVE  /\ DOMAIN done = DOMAIN m /\ done.offset = m.offset
         /\ done.bufferLength = m.bufferLength /\ done.want = m.want
         /\ done.bytes \in Seq(Int) /\ Len(done.bytes) = Len(m.bytes)
         /\ \A i \in 1..m.bufferLength : i <= n => done.bytes[m.offset + i] = m.bytes[i]
<1>1. Len(m.bytes) \in Nat /\ m.offset + m.bufferLength <= Len(m.bytes)
  BY LenProperties DEF ValidateMemMap
<1>2. CASE m.offset = 0 \/ n = 0
  BY <1>2 DEF RestoreMemMap
<1>3. CASE ~(m.offset = 0 \/ n = 0)
  <2> DEFINE z == 0
  <2>z. z = 0 /\ z \in Nat
    OBVIOUS
  <2> HIDE DEF z
  <2> DEFINE room == Len(m.bytes) - m.offset
             l == IF n < room THEN n ELSE room
             moved == MoveBytes(m.bytes, m.offset, z, l)
  <2>1. done = [m EXCEPT !.bytes = moved]
    BY <1>3, <2>z DEF RestoreMemMap
  <2>2. room \in Nat /\ l \in Nat /\ z + l <= Len(m.bytes) /\ m.bufferLength <= room
    BY <1>1, <2>z
  <2>3. \A i \in 1..m.bufferLength : i <= n => i <= l
    BY <2>2
  <2> HIDE DEF room, l
  <2>4. /\ moved \in Seq(Int) /\ Len(moved) = Len(m.bytes)
        /\ \A i \in 1..Len(m.bytes) :
             moved[i] = IF m.offset < i /\ i <= m.offset + l
                        THEN m.bytes[i - m.offset + z] ELSE m.bytes[i]
    <3>1. m.bytes \in Seq(Int) /\ m.offset \in Nat /\ z \in Nat /\ l \in Nat
      BY <2>2, <2>z
    <3>2. z + l <= Len(m.bytes)
      BY <2>2
    <3> QED
      BY <3>1, <3>2, MovedBytes, SMTT(60)
  <2> HIDE DEF moved
  <2>5. \A i \in 1..m.bufferLength : i <= n => moved[m.offset + i] = m.bytes[i]
    <3> SUFFICES ASSUME NEW i \in 1..m.bufferLength, i <= n
                 PROVE  moved[m.offset + i] = m.bytes[i]
      OBVIOUS
    <3> DEFINE off == m.offset
               bl  == m.bufferLength
               len == Len(m.bytes)
    <3>1. /\ i \in Nat /\ i > 0 /\ i <= bl /\ i <= l
          /\ off \in Nat /\ bl \in Nat /\ len \in Nat /\ l \in Nat /\ off + bl <= len
      BY <1>1, <2>2, <2>3
    <3> HIDE DEF off, bl, len
    <3>2. /\ off + i \in 1..len /\ off < off + i /\ off + i <= off + l
          /\ (off + i) - off + z = i
      BY <2>z, <3>1
    <3> QED
      BY <2>4, <3>2 DEF off, len
  <2>6. /\ DOMAIN done = DOMAIN m /\ done.bytes = moved /\ done.offset = m.offset
        /\ done.bufferLength = m.bufferLength /\ done.want = m.want
    BY <2>1
  <2> QED
    BY <2>4, <2>5, <2>6
<1> QED
  BY <1>2, <1>3

LEMMA DeviceBytesSeq ==
  ASSUME NEW n \in Nat
  PROVE  /\ DeviceBytes(n) \in [1..n -> Int] /\ DeviceBytes(n) \in Seq(Int)
         /\ Len(DeviceBytes(n)) = n
         /\ \A i \in 1..n : DeviceBytes(n)[i] = MapSize + i /\ MapSize + i \in Int
<1>1. /\ DeviceBytes(n) \in [1..n -> Int]
      /\ \A i \in 1..n : DeviceBytes(n)[i] = MapSize + i /\ MapSize + i \in Int
  BY BoundsAssumption DEF DeviceBytes
<1> QED
  BY <1>1, IntSeq

\* The bytes of the map that a transfer of n bytes concerns.
LEMMA UsedBytes ==
  ASSUME NEW m, m.bytes \in Seq(Int), m.offset \in Nat, m.bufferLength \in Nat,
         ValidateMemMap(m), NEW k \in Nat, k <= m.bufferLength
  PROVE  /\ SubSeq(UsedBuffer(m), 1, k) \in Seq(Int)
         /\ Len(SubSeq(UsedBuffer(m), 1, k)) = k
         /\ \A i \in 1..k : SubSeq(UsedBuffer(m), 1, k)[i] = m.bytes[m.offset + i]
<1> DEFINE bl == m.bufferLength
           u == SubSeq(m.bytes, m.offset + 1, m.offset + bl)
<1>1. Len(m.bytes) \in Nat /\ m.offset + bl <= Len(m.bytes)
  BY LenProperties DEF ValidateMemMap
<1>2. \A i \in 1..bl : m.bytes[m.offset + i] \in Int
  <2> TAKE i \in 1..bl
  <2>1. m.offset + i \in 1..Len(m.bytes)
    BY <1>1
  <2> QED
    BY <2>1, ElementOfSeq
<1>3. \A i \in 1..bl : u[i] = m.bytes[m.offset + i]
  BY <1>2, RunOfBytes
<1> DEFINE z == 0
<1>z. z = 0 /\ z \in Nat
  OBVIOUS
<1> HIDE DEF u, z
<1>4. \A i \in 1..k : i \in 1..bl /\ z + i = i
  BY <1>z
<1>5. \A i \in 1..k : u[z + i] \in Int
  BY <1>2, <1>3, <1>4
<1>6. /\ SubSeq(u, z + 1, z + k) \in Seq(Int) /\ Len(SubSeq(u, z + 1, z + k)) = k
      /\ \A i \in 1..k : SubSeq(u, z + 1, z + k)[i] = u[z + i]
  BY <1>5, <1>z, RunOfBytes
<1>7. z + 1 = 1 /\ z + k = k
  BY <1>z
<1>8. UsedBuffer(m) = u
  BY DEF UsedBuffer, u
<1> QED
  BY <1>3, <1>4, <1>6, <1>7, <1>8

\* A step of a call that changes the map only.
LEMMA MapChanges ==
  ASSUME IInv, CallTypes', CallOK', call'.op \notin OpenOps, OutOK',
         UNCHANGED <<driver, conn, g_mutex, dev, hid, fds, usb, ashmems>>, MemOK'
  PROVE  IInv'
<1>1. UNCHANGED <<driver, conn, g_mutex>> /\ UNCHANGED <<driver, service>>
      /\ UNCHANGED <<dev, fds, usb, ashmems>> /\ UNCHANGED <<dev, hid>>
  BY DEF conn
<1> QED
  BY <1>1, ConnFrame, DevFrame, HidFrame, FdsFrame DEF IInv

LEMMA MapReturns ==
  ASSUME IInv, call' = Idle, OutOK',
         UNCHANGED <<driver, conn, g_mutex, dev, hid, fds, usb, ashmems>>,
         mem' = NoMem \/ MapTypes'
  PROVE  IInv'
<1>1. call'.op \notin OpenOps /\ MemOK'
  BY DEF Idle, OpenOps, TransferOps, MemOK
<1> QED
  BY <1>1, CallEnds, MapChanges

\* A new map: zeros, all of it used.
LEMMA ScsiCreateKeeps ==
  ASSUME IInv, OH_ScsiPeripheral_CreateDeviceMemMap
  PROVE  IInv'
<1>1. /\ \E code \in Codes : Return(code)
      /\ UNCHANGED <<driver, conn, g_mutex, dev, hid, fds, usb, ashmems>>
  BY DEF OH_ScsiPeripheral_CreateDeviceMemMap, Codes
<1>2. call' = Idle /\ OutOK'
  BY <1>1, OutPlain DEF Return
<1>3. mem' = NoMem \/ MapTypes'
  <2>1. CASE mem' = mem
    BY <2>1 DEF IInv, MemOK, MapTypes
  <2>2. CASE LET zeros == [i \in 1..MapSize |-> 0]
             IN mem' = [bytes |-> zeros, offset |-> 0, bufferLength |-> MapSize, want |-> zeros,
                        before |-> <<>>]
    <3> DEFINE zeros == [i \in 1..MapSize |-> 0]
    <3>1. zeros \in [1..MapSize -> Int]
      OBVIOUS
    <3>2. mem' = [bytes |-> zeros, offset |-> 0, bufferLength |-> MapSize, want |-> zeros,
                  before |-> <<>>]
      BY <2>2
    <3> HIDE DEF zeros
    <3>3. zeros \in Seq(Int) /\ Len(zeros) = MapSize
      BY <3>1, IntSeq, BoundsAssumption
    <3> QED
      BY <3>2, <3>3, BoundsAssumption DEF MapTypes
  <2> QED
    BY <2>1, <2>2 DEF OH_ScsiPeripheral_CreateDeviceMemMap
<1> QED
  BY <1>1, <1>2, <1>3, MapReturns

LEMMA ScsiDestroyKeeps ==
  ASSUME IInv, OH_ScsiPeripheral_DestroyDeviceMemMap
  PROVE  IInv'
<1>1. /\ \E code \in Codes : Return(code)
      /\ UNCHANGED <<driver, conn, g_mutex, dev, hid, fds, usb, ashmems>>
  BY DEF OH_ScsiPeripheral_DestroyDeviceMemMap, Codes
<1>2. call' = Idle /\ OutOK'
  BY <1>1, OutPlain DEF Return
<1>3. mem' = mem \/ mem' = NoMem
  BY DEF OH_ScsiPeripheral_DestroyDeviceMemMap
<1>4. mem' = NoMem \/ MapTypes'
  BY <1>3 DEF IInv, MemOK, MapTypes
<1> QED
  BY <1>1, <1>2, <1>4, MapReturns

LEMMA DriverFillsKeeps ==
  ASSUME IInv, DriverFillsBuffer
  PROVE  IInv'
<1>1. /\ call = Idle /\ call' = Idle /\ out' = Nothing /\ mem # NoMem
      /\ UNCHANGED <<driver, conn, g_mutex, dev, hid, fds, usb, ashmems>>
  BY DEF DriverFillsBuffer, CallFrom
<1>2. OutOK'
  BY <1>1, OutPlain DEF Nothing, Codes
<1>3. MapTypes
  BY <1>1 DEF IInv, MemOK
<1>4. PICK b \in Buffers :
        mem' = [mem EXCEPT !.offset = b.offset, !.bufferLength = b.length, !.before = <<>>,
                  !.bytes = Over(@, b.offset, [i \in 1..b.length |-> b.offset + i]),
                  !.want = Over(@, b.offset, [i \in 1..b.length |-> b.offset + i])]
  BY DEF DriverFillsBuffer
<1> DEFINE new == [i \in 1..b.length |-> b.offset + i]
           bytes == Over(mem.bytes, b.offset, new)
           want == Over(mem.want, b.offset, new)
<1>5. b.offset \in Nat /\ b.length \in Nat
  BY BoundsAssumption
<1>6. new \in Seq(Int)
  <2>1. new \in [1..b.length -> Int]
    BY <1>5
  <2> HIDE DEF new
  <2> QED
    BY <1>5, <2>1, IntSeq
<1>7. /\ DOMAIN mem' = DOMAIN mem /\ mem'.offset = b.offset /\ mem'.bufferLength = b.length
      /\ mem'.bytes = bytes /\ mem'.want = want
  BY <1>3, <1>4 DEF MapTypes
<1> HIDE DEF new
<1>8. bytes \in Seq(Int) /\ Len(bytes) = MapSize /\ want \in Seq(Int) /\ Len(want) = MapSize
  BY <1>3, <1>5, <1>6, OverBytes DEF MapTypes
<1> HIDE DEF bytes, want
<1>9. MapTypes'
  BY <1>3, <1>5, <1>7, <1>8 DEF MapTypes
<1> QED
  BY <1>1, <1>2, <1>9, MapReturns

LEMMA StartTransferKeeps ==
  ASSUME IInv, NEW op \in TransferOps, NEW valid, StartTransfer(op, valid)
  PROVE  IInv'
<1>1. UNCHANGED <<driver, conn, g_mutex, dev, hid, fds, usb, ashmems>>
  BY DEF StartTransfer
<1>2. CASE (Return("INIT_ERROR") \/ Return("INVALID_PARAMETER")) /\ mem' = mem
  <2>1. call' = Idle /\ OutOK'
    BY <1>2, OutPlain DEF Return, Codes
  <2>2. mem' = NoMem \/ MapTypes'
    BY <1>2 DEF IInv, MemOK, MapTypes
  <2> QED
    BY <1>1, <2>1, <2>2, MapReturns
<1>3. CASE /\ g_ddk # 0 /\ mem # NoMem /\ ValidateMemMap(mem)
           /\ mem' = [NormalizeMemMap(mem) EXCEPT !.before = UsedBuffer(mem)]
           /\ Goto(op, "use", 0) /\ out' = Nothing
  <2>1. call' = [op |-> op, step |-> "use", arg |-> 0] /\ g_ddk' = g_ddk
    BY <1>1, <1>3 DEF Goto, conn
  <2>2. op \notin LockedOps /\ op \notin OpenOps
    BY DEF TransferOps, LockedOps, OpenOps
  <2>3. CallTypes' /\ CallOK'
    BY <1>3, <2>1, <2>2 DEF CallTypes, CallOK
  <2>4. OutOK'
    BY <1>3, OutPlain DEF Nothing, Codes
  <2>5. MapTypes
    BY <1>3 DEF IInv, MemOK
  <2>6. /\ MapTypes' /\ ValidateMemMap(mem')
        /\ mem'.before = SubSeq(mem'.bytes, 1, mem'.bufferLength)
    BY <1>3, <2>5, NormalizedMap
  <2>7. MemOK'
    BY <2>6 DEF MemOK
  <2>8. call'.op \notin OpenOps
    BY <2>1, <2>2
  <2> QED
    BY <1>1, <2>3, <2>4, <2>7, <2>8, MapChanges
<1> QED
  BY <1>2, <1>3 DEF StartTransfer

\* A transfer puts the device's bytes into the used buffer, or takes its bytes from there.
LEMMA TransfersKeeps ==
  ASSUME IInv, NEW op \in TransferOps, NEW dir \in {"read", "write"}, Transfers(op, dir)
  PROVE  IInv'
<1>1. UNCHANGED <<driver, conn, g_mutex, dev, hid, fds, usb, ashmems>>
  BY DEF Transfers
<1>2. MapTypes /\ ValidateMemMap(mem)
      /\ mem.before = SubSeq(mem.bytes, 1, mem.bufferLength)
  BY DEF IInv, MemOK, Transfers, In
<1> DEFINE Sent(n) == IF dir = "read" THEN Over(mem.bytes, 0, DeviceBytes(n)) ELSE mem.bytes
           M(n) == [mem EXCEPT !.bytes = Sent(n)]
           Done(n) == RestoreMemMap(M(n), n)
           K(n) == IF n < mem.bufferLength THEN n ELSE mem.bufferLength
<1>3. PICK n \in 0..MapSize, code \in {"SUCCESS", "MEMORY_ERROR"} :
        /\ mem' = [Done(n) EXCEPT
                     !.before = <<>>,
                     !.want = IF dir = "read" THEN Over(@, mem.offset, DeviceBytes(K(n))) ELSE @]
        /\ call' = Idle
        /\ out' = [code |-> code, kind |-> dir,
                   delivered |-> SubSeq(UsedBuffer(Done(n)), 1, K(n)) = DeviceBytes(K(n)),
                   sentGiven |-> SubSeq(mem.bytes, 1, K(n)) = SubSeq(mem.before, 1, K(n)),
                   sentStored |-> SubSeq(mem.bytes, 1, K(n))
                     = SubSeq(UsedBuffer([mem EXCEPT !.bytes = mem.want]), 1, K(n))]
  BY DEF Transfers, ReturnWith
<1> DEFINE m == M(n)
           done == Done(n)
           k == K(n)
<1>4. n \in Nat /\ k \in Nat /\ k <= n /\ k <= mem.bufferLength
  BY <1>2, BoundsAssumption DEF MapTypes
<1>5. /\ DOMAIN m = {"bytes", "offset", "bufferLength", "want", "before"}
      /\ m.offset = mem.offset /\ m.bufferLength = mem.bufferLength /\ m.want = mem.want
      /\ m.bytes = Sent(n)
  BY <1>2 DEF MapTypes
<1>6. /\ Sent(n) \in Seq(Int) /\ Len(Sent(n)) = MapSize
      /\ dir = "read" => \A i \in 1..MapSize : i <= n => Sent(n)[i] = MapSize + i
  <2>1. CASE dir = "read"
    <3> DEFINE z == 0
               new == DeviceBytes(n)
    <3>z. z = 0 /\ z \in Nat
      OBVIOUS
    <3> HIDE DEF z, new
    <3>1. new \in Seq(Int) /\ Len(new) = n /\ \A i \in 1..n : new[i] = MapSize + i
      BY <1>4, DeviceBytesSeq DEF new
    <3>2. mem.bytes \in Seq(Int) /\ Len(mem.bytes) = MapSize
      BY <1>2 DEF MapTypes
    <3> DEFINE sent == Over(mem.bytes, z, new)
    <3>3. /\ sent \in Seq(Int) /\ Len(sent) = Len(mem.bytes)
          /\ \A i \in 1..Len(mem.bytes) :
               sent[i] = IF z < i /\ i <= z + Len(new) THEN new[i - z] ELSE mem.bytes[i]
      BY <3>z, <3>1, <3>2, OverBytes
    <3>4. Sent(n) = sent
      BY <2>1, <3>z DEF new
    <3> HIDE DEF sent, Sent
    <3>5. \A i \in 1..MapSize : i <= n => sent[i] = MapSize + i
      <4> SUFFICES ASSUME NEW i \in 1..MapSize, i <= n
                   PROVE  sent[i] = MapSize + i
        OBVIOUS
      <4>1. i \in 1..n /\ z < i /\ i <= z + n /\ i - z = i
        BY <1>4, <3>z, BoundsAssumption
      <4> QED
        BY <3>1, <3>2, <3>3, <4>1
    <3> QED
      BY <3>2, <3>3, <3>4, <3>5
  <2>2. CASE dir # "read"
    BY <1>2, <2>2 DEF MapTypes
  <2> QED
    BY <2>1, <2>2
<1> HIDE DEF M, Sent
<1>7. ValidateMemMap(m)
  BY <1>2, <1>5, <1>6 DEF ValidateMemMap, MapTypes
<1>8. m.bytes \in Seq(Int) /\ m.offset \in Nat /\ m.bufferLength \in Nat
  BY <1>2, <1>5, <1>6 DEF MapTypes
<1>9. done = RestoreMemMap(m, n)
  OBVIOUS
<1> HIDE DEF Done, m
<1>10. /\ DOMAIN done = DOMAIN m /\ done.offset = m.offset
       /\ done.bufferLength = m.bufferLength /\ done.want = m.want
       /\ done.bytes \in Seq(Int) /\ Len(done.bytes) = Len(m.bytes)
       /\ \A i \in 1..m.bufferLength : i <= n => done.bytes[m.offset + i] = m.bytes[i]
  BY <1>4, <1>5, <1>7, <1>8, <1>9, RestoredMap
<1> HIDE DEF done, K, k
<1>11. out'.code \in Codes /\ out'.kind = dir
       /\ out'.delivered = (SubSeq(UsedBuffer(done), 1, k) = DeviceBytes(k))
       /\ out'.sentGiven = (SubSeq(mem.bytes, 1, k) = SubSeq(mem.before, 1, k))
  BY <1>3 DEF Codes, done, k
<1>12. dir = "read" => out'.delivered
  <2> SUFFICES ASSUME dir = "read" PROVE SubSeq(UsedBuffer(done), 1, k) = DeviceBytes(k)
    BY <1>11
  <2> DEFINE u == SubSeq(UsedBuffer(done), 1, k)
             d == DeviceBytes(k)
  <2>1. ValidateMemMap(done)
    BY <1>7, <1>10 DEF ValidateMemMap
  <2>2. u \in Seq(Int) /\ Len(u) = k /\ \A i \in 1..k : u[i] = done.bytes[done.offset + i]
    BY <1>4, <1>5, <1>8, <1>10, <2>1, UsedBytes
  <2>3. d \in Seq(Int) /\ Len(d) = k /\ \A i \in 1..k : d[i] = MapSize + i
    BY <1>4, DeviceBytesSeq
  <2> HIDE DEF u, d
  <2>4. \A i \in 1..k : u[i] = d[i]
    <3> TAKE i \in 1..k
    <3>1. i \in 1..m.bufferLength /\ i <= n /\ i \in 1..MapSize
      BY <1>4, <1>5, <1>8, BoundsAssumption
    <3>2. done.bytes[done.offset + i] = m.bytes[i] /\ m.bytes[i] = MapSize + i
      BY <1>5, <1>6, <1>10, <3>1
    <3> QED
      BY <2>2, <2>3, <3>2
  <2>5. u = d
    BY <2>2, <2>3, <2>4, SeqEqual
  <2> QED
    BY <2>5 DEF u, d
<1>13. dir = "write" => out'.sentGiven
  <2> SUFFICES SubSeq(mem.bytes, 1, k) = SubSeq(mem.before, 1, k)
    BY <1>11
  <2> DEFINE z == 0
             bl == mem.bufferLength
             b == SubSeq(mem.bytes, z + 1, z + bl)
             u == SubSeq(mem.bytes, z + 1, z + k)
             v == SubSeq(b, z + 1, z + k)
  <2>z. z = 0 /\ z \in Nat
    OBVIOUS
  <2> HIDE DEF z
  <2>1. /\ bl \in Nat /\ bl <= Len(mem.bytes) /\ Len(mem.bytes) \in Nat
        /\ mem.bytes \in Seq(Int)
    BY <1>2, LenProperties DEF MapTypes, ValidateMemMap
  <2>2. \A i \in 1..bl : z + i \in 1..Len(mem.bytes)
    BY <2>z, <2>1
  <2>3. \A i \in 1..bl : mem.bytes[z + i] \in Int
    BY <2>1, <2>2, ElementOfSeq
  <2>4. \A i \in 1..k : i \in 1..bl /\ z + i = i
    BY <1>4, <2>z, <2>1
  <2>5. \A i \in 1..bl : b[i] = mem.bytes[z + i]
    BY <2>z, <2>1, <2>3, RunOfBytes
  <2>6. \A i \in 1..k : mem.bytes[z + i] \in Int
    BY <2>3, <2>4
  <2>7. u \in Seq(Int) /\ Len(u) = k /\ \A i \in 1..k : u[i] = mem.bytes[z + i]
    BY <1>4, <2>z, <2>6, RunOfBytes
  <2>8. b = mem.before
    <3>1. z + 1 = 1 /\ z + bl = bl
      BY <2>z, <2>1
    <3> QED
      BY <1>2, <3>1
  <2> HIDE DEF b
  <2>9. \A i \in 1..k : b[z + i] \in Int /\ b[z + i] = mem.bytes[z + i]
    BY <2>3, <2>4, <2>5
  <2>10. v \in Seq(Int) /\ Len(v) = k /\ \A i \in 1..k : v[i] = b[z + i]
    BY <1>4, <2>z, <2>9, RunOfBytes
  <2>11. u = SubSeq(mem.bytes, 1, k) /\ v = SubSeq(mem.before, 1, k)
    <3>1. z + 1 = 1 /\ z + k = k
      BY <1>4, <2>z
    <3> QED
      BY <2>8, <3>1
  <2> HIDE DEF u, v
  <2>12. u = v
    BY <2>7, <2>9, <2>10, SeqEqual
  <2> QED
    BY <2>11, <2>12
<1>14. OutOK'
  BY <1>11, <1>12, <1>13 DEF OutOK, TransfersUseTheBuffer
<1>15. MapTypes'
  <2> DEFINE want == IF dir = "read" THEN Over(done.want, mem.offset, DeviceBytes(k)) ELSE done.want
  <2>1. mem' = [done EXCEPT !.before = <<>>, !.want = want]
    BY <1>3 DEF done, k
  <2>2. want \in Seq(Int) /\ Len(want) = MapSize
    <3>1. mem.want \in Seq(Int) /\ Len(mem.want) = MapSize /\ mem.offset \in Nat
          /\ done.want = mem.want
      BY <1>2, <1>5, <1>10 DEF MapTypes
    <3>2. DeviceBytes(k) \in Seq(Int)
      BY <1>4, DeviceBytesSeq
    <3> QED
      BY <1>4, <3>1, <3>2, OverBytes
  <2> HIDE DEF want
  <2>3. /\ DOMAIN mem' = DOMAIN done /\ mem'.bytes = done.bytes /\ mem'.want = want
        /\ mem'.offset = done.offset /\ mem'.bufferLength = done.bufferLength
    BY <1>5, <1>10, <2>1
  <2> QED
    BY <1>5, <1>6, <1>8, <1>10, <2>2, <2>3 DEF MapTypes
<1> QED
  BY <1>1, <1>3, <1>14, <1>15, MapReturns

LEMMA TransferKeeps ==
  ASSUME IInv, NEW op \in TransferOps, NEW dir \in {"read", "write"}, TransferOf(op, dir)
  PROVE  IInv'
<1>1. CASE \E valid \in BOOLEAN : StartTransfer(op, valid)
  BY <1>1, StartTransferKeeps
<1>2. CASE In(op, "use") /\ Crash
  BY <1>2, CrashKeeps DEF In
<1>3. CASE FailTransfer(op)
  BY <1>3, AnswerKeeps DEF FailTransfer
<1>4. CASE Transfers(op, dir)
  BY <1>4, TransfersKeeps
<1> QED
  BY <1>1, <1>2, <1>3, <1>4 DEF TransferOf


------------------------------------------------------------------------------
(* 10. Every step. *)

LEMMA HidCallsKeep ==
  ASSUME IInv, HidCalls
  PROVE  IInv'
<1>1. CASE OH_Hid_Init
  BY <1>1, InitUnwatchedKeeps DEF OH_Hid_Init
<1>2. CASE OH_Hid_Release
  BY <1>2, ReleaseKeeps
  DEF OH_Hid_Release, LockedOps, TransferOps, OpenOps
<1>3. CASE OH_Hid_CreateDevice
  BY <1>3, CreateDeviceKeeps
<1>4. CASE OH_Hid_EmitEvent
  BY <1>4, EmitEventKeeps
<1>5. CASE OH_Hid_DestroyDevice
  BY <1>5, DestroyDeviceKeeps
<1>6. CASE OH_Hid_Open
  BY <1>6, OpenKeeps
  DEF OH_Hid_Open, OpenOps
<1>7. CASE OH_Hid_Close
  BY <1>7, CloseKeeps
  DEF OH_Hid_Close, LockedOps, TransferOps, OpenOps
<1>8. CASE OH_Hid_SetNonBlocking
  BY <1>8, SetNonBlockingKeeps
<1>9. CASE \/ OH_Hid_Write
           \/ OH_Hid_SendReport
           \/ OH_Hid_GetRawInfo
           \/ OH_Hid_GetRawUniqueId
  BY <1>9, SimpleKeeps
  DEF OH_Hid_Write, OH_Hid_SendReport, OH_Hid_GetRawInfo, OH_Hid_GetRawUniqueId, LockedOps,
      TransferOps, OpenOps
<1>10. CASE \/ OH_Hid_ReadTimeout
            \/ OH_Hid_Read
            \/ OH_Hid_GetRawName
            \/ OH_Hid_GetPhysicalAddress
            \/ OH_Hid_GetReport
            \/ OH_Hid_GetReportDescriptor
  BY <1>10, FetchingKeeps
  DEF OH_Hid_ReadTimeout, OH_Hid_Read, OH_Hid_GetRawName, OH_Hid_GetPhysicalAddress,
      OH_Hid_GetReport, OH_Hid_GetReportDescriptor, LockedOps, TransferOps, OpenOps
<1> QED
  BY <1>1, <1>2, <1>3, <1>4, <1>5, <1>6, <1>7, <1>8, <1>9, <1>10 DEF HidCalls

LEMMA UsbCallsKeep ==
  ASSUME IInv, UsbCalls
  PROVE  IInv'
<1>1. CASE OH_Usb_Init
  BY <1>1, InitUnwatchedKeeps DEF OH_Usb_Init
<1>2. CASE \/ OH_Usb_Release
           \/ OH_Usb_ReleaseResource
  BY <1>2, UsbReleaseKeeps
  DEF OH_Usb_Release, OH_Usb_ReleaseResource, LockedOps, TransferOps, OpenOps
<1>3. CASE \/ OH_Usb_GetDeviceDescriptor
           \/ OH_Usb_ClaimInterface
           \/ OH_Usb_GetCurrentInterfaceSetting
           \/ OH_Usb_SendControlWriteRequest
           \/ OH_Usb_GetDevices
           \/ OH_Usb_GetNonRootHubs
           \/ OH_Usb_ReleaseInterface
           \/ OH_Usb_SelectInterfaceSetting
           \/ OH_Usb_SendPipeRequest
           \/ OH_Usb_SendPipeRequestWithAshmem
  BY <1>3, SteadyKeeps
  DEF OH_Usb_GetDeviceDescriptor, OH_Usb_ClaimInterface, OH_Usb_GetCurrentInterfaceSetting,
      OH_Usb_SendControlWriteRequest, OH_Usb_GetDevices, OH_Usb_GetNonRootHubs,
      OH_Usb_ReleaseInterface, OH_Usb_SelectInterfaceSetting, OH_Usb_SendPipeRequest,
      OH_Usb_SendPipeRequestWithAshmem, LockedOps, TransferOps, OpenOps
<1>4. CASE OH_Usb_SendControlReadRequest
  BY <1>4, SendControlReadKeeps
<1>5. CASE OH_Usb_ControlTransfer
  BY <1>5, ControlTransferKeeps
<1>6. CASE OH_Usb_CreateDeviceMemMap
  BY <1>6, CreateDeviceMemMapKeeps
<1>7. CASE OH_Usb_DestroyDeviceMemMap
  BY <1>7, DestroyDeviceMemMapKeeps
<1>8. CASE OH_Usb_GetConfigDescriptor
  BY <1>8, GetConfigDescriptorKeeps
<1>9. CASE OH_Usb_FreeConfigDescriptor
  BY <1>9, DescriptorReturnsKeeps
<1> QED
  BY <1>1, <1>2, <1>3, <1>4, <1>5, <1>6, <1>7, <1>8, <1>9 DEF UsbCalls

LEMMA ScsiCallsKeep ==
  ASSUME IInv, ScsiCalls
  PROVE  IInv'
<1>1. CASE OH_ScsiPeripheral_Init
  BY <1>1, InitWatchingKeeps DEF OH_ScsiPeripheral_Init
<1>2. CASE OH_ScsiPeripheral_Release
  BY <1>2, ReleaseKeeps
  DEF OH_ScsiPeripheral_Release, LockedOps, TransferOps, OpenOps
<1>3. CASE OH_ScsiPeripheral_Open
  BY <1>3, OpenKeeps
  DEF OH_ScsiPeripheral_Open, OpenOps
<1>4. CASE OH_ScsiPeripheral_Close
  BY <1>4, CloseKeeps
  DEF OH_ScsiPeripheral_Close, LockedOps, TransferOps, OpenOps
<1>5. CASE \/ OH_ScsiPeripheral_TestUnitReady
           \/ OH_ScsiPeripheral_ReadCapacity10
           \/ OH_ScsiPeripheral_RequestSense
           \/ OH_ScsiPeripheral_Verify10
  BY <1>5, FetchingKeeps
  DEF OH_ScsiPeripheral_TestUnitReady, OH_ScsiPeripheral_ReadCapacity10,
      OH_ScsiPeripheral_RequestSense, OH_ScsiPeripheral_Verify10, LockedOps, TransferOps,
      OpenOps
<1>6. CASE OH_ScsiPeripheral_ParseBasicSenseInfo
  BY <1>6, DescriptorReturnsKeeps
<1>7. CASE OH_ScsiPeripheral_CreateDeviceMemMap
  BY <1>7, ScsiCreateKeeps
<1>8. CASE OH_ScsiPeripheral_DestroyDeviceMemMap
  BY <1>8, ScsiDestroyKeeps
<1>9. CASE \/ OH_ScsiPeripheral_Inquiry
           \/ OH_ScsiPeripheral_Read10
           \/ OH_ScsiPeripheral_Write10
           \/ OH_ScsiPeripheral_SendRequestByCdb
  BY <1>9, TransferKeeps
  DEF OH_ScsiPeripheral_Inquiry, OH_ScsiPeripheral_Read10, OH_ScsiPeripheral_Write10,
      OH_ScsiPeripheral_SendRequestByCdb, TransferOps
<1> QED
  BY <1>1, <1>2, <1>3, <1>4, <1>5, <1>6, <1>7, <1>8, <1>9 DEF ScsiCalls

LEMMA SerialCallsKeep ==
  ASSUME IInv, SerialCalls
  PROVE  IInv'
<1>1. CASE OH_UsbSerial_Init
  BY <1>1, InitWatchingKeeps DEF OH_UsbSerial_Init
<1>2. CASE OH_UsbSerial_Release
  BY <1>2, ReleaseKeeps
  DEF OH_UsbSerial_Release, LockedOps, TransferOps, OpenOps
<1>3. CASE OH_UsbSerial_Open
  BY <1>3, OpenKeeps
  DEF OH_UsbSerial_Open, OpenOps
<1>4. CASE OH_UsbSerial_Close
  BY <1>4, CloseKeeps
  DEF OH_UsbSerial_Close, LockedOps, TransferOps, OpenOps
<1>5. CASE OH_UsbSerial_Read
  BY <1>5, FetchingKeeps
  DEF OH_UsbSerial_Read, LockedOps, TransferOps, OpenOps
<1>6. CASE \/ OH_UsbSerial_Write
           \/ OH_UsbSerial_SetBaudRate
           \/ OH_UsbSerial_SetParams
           \/ OH_UsbSerial_SetTimeout
           \/ OH_UsbSerial_SetFlowControl
           \/ OH_UsbSerial_Flush
           \/ OH_UsbSerial_FlushInput
           \/ OH_UsbSerial_FlushOutput
  BY <1>6, SimpleKeeps
  DEF OH_UsbSerial_Write, OH_UsbSerial_SetBaudRate, OH_UsbSerial_SetParams,
      OH_UsbSerial_SetTimeout, OH_UsbSerial_SetFlowControl, OH_UsbSerial_Flush,
      OH_UsbSerial_FlushInput, OH_UsbSerial_FlushOutput, LockedOps, TransferOps, OpenOps
<1> QED
  BY <1>1, <1>2, <1>3, <1>4, <1>5, <1>6 DEF SerialCalls

LEMMA NextKeeps ==
  ASSUME IInv, [Next]_vars
  PROVE  IInv'
<1>1. CASE DriverCalls
  BY <1>1, HidCallsKeep, UsbCallsKeep, ScsiCallsKeep, SerialCallsKeep, AshmemKeeps DEF DriverCalls
<1>2. CASE DriverFillsBuffer
  BY <1>2, DriverFillsKeeps
<1>3. CASE OnRemoteDied
  BY <1>3, OnRemoteDiedKeeps
<1>4. CASE ServiceDies
  BY <1>4, ServiceDiesKeeps
<1>5. CASE ServiceStarts
  BY <1>5, ServiceStartsKeeps
<1>6. CASE UNCHANGED vars
  <2>1. /\ UNCHANGED <<driver, conn, g_mutex>> /\ UNCHANGED <<driver, service>>
        /\ UNCHANGED <<dev, hid, fds, usb, mem, ashmems>>
        /\ call' = call /\ out' = out /\ UNCHANGED <<driver, conn, g_mutex, call>>
    BY <1>6 DEF vars, conn, data
  <2>2. CallTypes' /\ CallOK'
    BY <2>1 DEF IInv, CallTypes, CallOK, Excusable, Died, Serving, conn
  <2> QED
    BY <2>1, <2>2, ConnFrame, DevFrame, HidFrame, FdsFrame, MemFrame, OutFrame DEF IInv
<1> QED
  BY <1>1, <1>2, <1>3, <1>4, <1>5, <1>6 DEF Next

LEMMA InitHolds ==
  ASSUME Init
  PROVE  IInv
<1>1. driver \in DriverKinds /\ MaxDeaths[driver] \in Nat /\ MaxRecipients[driver] \in Nat
  BY BoundsAssumption DEF Init
<1>2. 1 \in Instances /\ \A i \in Instances : i \in Nat
  BY <1>1 DEF Instances
<1>3. ConnTypes
  <2>1. 0 \in 0..MaxRecipients[driver]
    BY <1>1
  <2>2. /\ service = [up |-> TRUE, instance |-> 1]
        /\ watched = [i \in Instances |-> 0] /\ notices = [i \in Instances |-> 0]
        /\ g_ddk = 0 /\ recipient = 0 /\ promised = FALSE /\ g_mutex = FALSE
    BY DEF Init
  <2>3. service \in [up : BOOLEAN, instance : Instances]
    BY <1>2, <2>2
  <2>4. /\ watched \in [Instances -> 0..MaxRecipients[driver]]
        /\ notices \in [Instances -> 0..MaxRecipients[driver]]
    BY <2>1, <2>2
  <2> QED
    BY <1>1, <2>2, <2>3, <2>4 DEF ConnTypes
<1>4. ConnOK
  BY <1>2 DEF Init, ConnOK, ProxyIsWatched
<1>5. CallTypes /\ CallOK
  BY DEF Init, Idle, CallTypes, CallOK, LockedOps
<1>6. OutOK
  BY DEF Init, Nothing, OutOK, Codes, TransfersUseTheBuffer
<1>7. DevOK
  BY DEF Init, NoDev, Idle, DevOK, NoFd
<1>8. HidOK
  <2>1. /\ DOMAIN hid = {"deviceMap", "devices", "strayed"}
        /\ hid.deviceMap = <<>> /\ hid.devices = <<>>
    BY DEF Init
  <2>2. DOMAIN hid.deviceMap = {} /\ DOMAIN hid.devices = {}
    BY <2>1
  <2> QED
    BY <2>1, <2>2 DEF HidOK, HidEntriesNameDevices
<1>9. FdsOK
  <2>1. /\ usb = [g_fdMap |-> <<>>, mapped |-> {}, leaked |-> {}]
        /\ ashmems = [map |-> {}, address |-> {}] /\ dev.fd = NoFd /\ fds = {}
    BY DEF Init, NoDev
  <2>2. DOMAIN usb.g_fdMap = {} /\ Range(usb.g_fdMap) = {}
    BY <2>1 DEF Range
  <2> QED
    BY <2>1, <2>2 DEF FdsOK, FdTypes, FdsAccounted, FdsApart
<1>10. MemOK
  BY DEF Init, MemOK, Idle, TransferOps
<1> QED
  BY <1>3, <1>4, <1>5, <1>6, <1>7, <1>8, <1>9, <1>10 DEF IInv

\* The inductive invariant holds in every state a driver's process reaches, whatever it calls
\* and whenever the service dies.
THEOREM Invariance ==
  Spec => []IInv
<1>1. Init => IInv
  BY InitHolds
<1>2. IInv /\ [Next]_vars => IInv'
  BY NextKeeps
<1> QED
  BY <1>1, <1>2, PTL DEF Spec

------------------------------------------------------------------------------
(* 11. What follows. *)

\* Types; no more recipients and notices are counted than were registered.
THEOREM TypeCorrect ==
  Spec => []TypeOK
<1>1. IInv => TypeOK
  <2> SUFFICES ASSUME IInv PROVE TypeOK
    OBVIOUS
  <2>1. mem = NoMem \/ (Len(mem.bytes) = MapSize /\ Len(mem.want) = MapSize)
    BY DEF IInv, MemOK, MapTypes
  <2>2. dev \in [open : BOOLEAN, instance : {0} \union Instances, fd : {NoFd} \union Fds,
                 nonBlock : {0, 1}]
    BY DEF IInv, DevOK
  <2> QED
    BY <2>1, <2>2 DEF IInv, TypeOK, ConnTypes, CallTypes, OutOK, HidOK, FdsOK, FdTypes
<1> QED
  BY <1>1, Invariance, PTL

\* The process dies of a null g_ddk only in a function that holds no lock, after a death of the
\* service, or in OH_Usb_CreateDeviceMemMap: never in CreateDevice, EmitEvent or DestroyDevice.
THEOREM CrashesAreRaces ==
  Spec => []CrashIsAnUnlockedRace
<1>1. IInv => CrashIsAnUnlockedRace
  BY DEF IInv, CallOK, Excusable, UntestedOp, LockedOps, WatchedKinds, Died,
         CrashIsAnUnlockedRace
<1> QED
  BY <1>1, Invariance, PTL

\* A proxy the library has promised to watch is watched while its service lives, however late
\* the notices of earlier instances arrive.
THEOREM ProxiesAreWatched ==
  Spec => []ProxyIsWatched
<1>1. IInv => ProxyIsWatched
  BY DEF IInv, ConnOK
<1> QED
  BY <1>1, Invariance, PTL

\* A cached HID device that the living service has created names that device with its realId, and
\* no other such entry does; until the driver destroys an id of no device of this instance (one it
\* never had, or one whose re-creation failed) and hits another device with it.
THEOREM HidEntriesAreNamed ==
  Spec => []HidEntriesNameDevices
<1>1. IInv => HidEntriesNameDevices
  BY DEF IInv, HidOK
<1> QED
  BY <1>1, Invariance, PTL

\* Every open descriptor is in exactly one record, and no record holds a closed one.
THEOREM FdsAreAccounted ==
  Spec => []FdsAccounted
<1>1. IInv => FdsAccounted
  BY DEF IInv, FdsOK
<1> QED
  BY <1>1, Invariance, PTL

\* A SCSI transfer reads into and writes from the used buffer, for every size of the map, every
\* offset and length, and every number of bytes transferred.
THEOREM TransfersAreExact ==
  Spec => []TransfersUseTheBuffer
<1>1. IInv => TransfersUseTheBuffer
  BY DEF IInv, OutOK
<1> QED
  BY <1>1, Invariance, PTL


==============================================================================
