------------------------------- MODULE Device -------------------------------
(***************************************************************************)
(* One Device object of the driver extension manager (device.cpp,          *)
(* device.h) and the ability connections it opens through                  *)
(* DriverExtensionController (driver_extension_controller.cpp).            *)
(*                                                                         *)
(* The module has no variables.  A device is a record dv, the connections  *)
(* known to the ability manager are a table cs, and every method of the    *)
(* code is an operator from the old pair to the set of its outcomes: a     *)
(* call to the ability manager or to the IPC layer may succeed or fail,    *)
(* so a method has one outcome for each answer.  ExtDeviceManager turns    *)
(* these operators into actions.                                           *)
(***************************************************************************)
EXTENDS Integers, FiniteSets

CONSTANTS
  Devices,      \* device ids the bus can report
  Drivers,      \* driver extension abilities: the code's bundleInfo strings
  Users,        \* OS accounts
  Clients,      \* calling token ids of the applications
  NoDriver,     \* the empty bundleInfo, and the null DriverInfo pointer
  NoDevice,
  MaxConns,     \* bound: ability connections that exist at the same time
  Faults        \* TRUE: ability manager, IPC registration, timer may fail

ASSUME DriverAssumption == NoDriver \notin Drivers
ASSUME DeviceAssumption == NoDevice \notin Devices
ASSUME ConnAssumption   == MaxConns \in Nat
ASSUME FaultAssumption  == Faults \in BOOLEAN

\* The calling token ids are 32-bit numbers.
ASSUME ClientAssumption == IsFiniteSet(Clients)

(***************************************************************************)
(* A row of the driver package table; QueryMatchDriver returns one as a    *)
(* DriverInfo.  A row never equals NoDriver (a model value).               *)
(***************************************************************************)
DriverRows == [drv : Drivers, user : Users]

ASSUME RowAssumption == NoDriver \notin DriverRows

-----------------------------------------------------------------------------
(***************************************************************************)
(* Connections.  phase and closing are the ability manager's state of the  *)
(* connection; notifies is the weak pointer of its AbilityConnection: TRUE *)
(* while the DrvExtConnNotify it reports to exists.                        *)
(***************************************************************************)
Conns    == 1 .. MaxConns
NoConn   == 0        \* the notifier's info_ is null
Dangling == -1       \* info_ is set, the ability manager has forgotten what it names

Connections ==
  [dev : Devices \cup {NoDevice}, drv : Drivers \cup {NoDriver},
   phase : {"free", "connecting", "connected"},
   closing : BOOLEAN, notifies : BOOLEAN]

FreeConn == [dev |-> NoDevice, drv |-> NoDriver, phase |-> "free",
             closing |-> FALSE, notifies |-> FALSE]

NewConn(d, r) == [dev |-> d, drv |-> r, phase |-> "connecting",
                  closing |-> FALSE, notifies |-> TRUE]

\* The slot ConnectAbility takes: at most one, none when all are in use.
NextConns(cs) ==
  {c \in Conns : /\ cs[c].phase = "free"
                 /\ \A b \in Conns : b < c => cs[b].phase # "free"}

\* Faulty variant of Orphaned: the old notifier is still told.
OrphanedNobody(cs, d) == cs

\* The notifier of d is destroyed: its connections report to nobody.
Orphaned(cs, d) ==
  [c \in Conns |-> IF cs[c].dev = d THEN [cs[c] EXCEPT !.notifies = FALSE]
                                    ELSE cs[c]]

-----------------------------------------------------------------------------
(***************************************************************************)
(* The Device object.  remote says whether drvExtRemote_ is non-null,      *)
(* notifier whether connectNofitier_ is, info is that notifier's info_,    *)
(* callers is boundCallerInfos_ ("pending" and "bound" are the two values  *)
(* of CallerInfo::isBound).                                                *)
(***************************************************************************)
CallerStates == {"none", "pending", "bound"}

DeviceRecords ==
  [bundleInfo : Drivers \cup {NoDriver},
   driverInfo : DriverRows \cup {NoDriver},
   remote     : BOOLEAN,
   unRegisted : BOOLEAN,
   notifier   : BOOLEAN,
   info       : Conns \cup {NoConn, Dangling},
   callbacks  : SUBSET Clients,
   callers    : [Clients -> CallerStates]]

NoCallers == [cl \in Clients |-> "none"]

FreshDevice ==
  [bundleInfo |-> NoDriver, driverInfo |-> NoDriver, remote |-> FALSE,
   unRegisted |-> FALSE, notifier |-> FALSE, info |-> NoConn,
   callbacks |-> {}, callers |-> NoCallers]

AddBundleInfo(dv, row) ==
  [dv EXCEPT !.bundleInfo = row.drv, !.driverInfo = row]

RemoveBundleInfo(dv)    == [dv EXCEPT !.bundleInfo = NoDriver]
RemoveDriverInfo(dv)    == [dv EXCEPT !.driverInfo = NoDriver]
ClearDrvExtRemote(dv)   == [dv EXCEPT !.remote = FALSE]
AddDrvExtConnNotify(dv) == [dv EXCEPT !.notifier = TRUE]

\* Faulty variants of the operators below: the checks replace an operator by
\* its variant to see that a property notices.
UnRegistForgotten(dv)               == dv
UpdateDrvExtConnNotifyKeepsInfo(dv) == [dv EXCEPT !.notifier = TRUE]
IsLastCallerAlone(dv, cl)     == dv.callers[cl] # "none"
IsLastCallerOffByOne(dv, cl)  == \A c \in Clients : dv.callers[c] = "none"
OnConnectKeepsPending(dv, gotRemote) == [dv EXCEPT !.remote = gotRemote]
OnDisconnectKeepsRemote(dv) ==
  [dv EXCEPT !.info = NoConn, !.callers = NoCallers, !.callbacks = {}]
OnDisconnectKeepsCallers(dv) ==
  [dv EXCEPT !.remote = FALSE, !.info = NoConn, !.callbacks = {}]
RemoveAllCallers(dv, cl) == [dv EXCEPT !.callers = NoCallers]

UnRegist(dv)            == [dv EXCEPT !.unRegisted = TRUE]

\* A new notifier: the old one dies with its info_ (see Orphaned).
UpdateDrvExtConnNotify(dv) == [dv EXCEPT !.notifier = TRUE, !.info = NoConn]

RemoveCaller(dv, cl) == [dv EXCEPT !.callers[cl] = "none"]
IsBindCaller(dv, cl) == dv.callers[cl] # "none"
CallerCount(dv)      == Cardinality({cl \in Clients : IsBindCaller(dv, cl)})
IsLastCaller(dv, cl) == CallerCount(dv) <= 1 /\ IsBindCaller(dv, cl)

-----------------------------------------------------------------------------
(***************************************************************************)
(* callbacks_ is a std::set ordered by DrvExtMgrCallbackCompare, which     *)
(* answers false for two different remote objects and compares an object   *)
(* with itself otherwise.  std::set refuses an element equivalent to one   *)
(* it holds, that is one ordered neither before nor after it.              *)
(***************************************************************************)
DrvExtMgrCallbackCompare(lhs, rhs) == FALSE

CallbackInsert(S, cl) ==
  IF \E cb \in S : ~DrvExtMgrCallbackCompare(cb, cl)
                   /\ ~DrvExtMgrCallbackCompare(cl, cb)
  THEN S ELSE S \cup {cl}

\* What one step of the code may answer: the new device, the new
\* connections, and whether the return value is EDM_OK.
Outcome(dv, cs, ok) == [dv |-> dv, cs |-> cs, ok |-> ok]

\* The set of outcomes in which a faulty environment refuses the call.
IfFaulty(o) == IF Faults THEN {o} ELSE {}

\* The callback stays in the set when its death recipient cannot be added.
RegisterDrvExtMgrCallback(dv, cs, cl) ==
  LET reg == [dv EXCEPT !.callbacks = CallbackInsert(@, cl)]
  IN  {Outcome(reg, cs, TRUE)} \cup IfFaulty(Outcome(reg, cs, FALSE))

UnregisterDrvExtMgrCallback(dv, cl) == [dv EXCEPT !.callbacks = @ \ {cl}]

-----------------------------------------------------------------------------
(***************************************************************************)
(* DriverExtensionController::ConnectDriverExtension refuses a notifier    *)
(* whose info_ is set, sets info_, then asks the ability manager; info_    *)
(* stays set when that fails and names a connection that never was         *)
(* (Dangling).  Without a driver the element name is empty and the ability *)
(* manager finds nothing to connect.                                       *)
(***************************************************************************)
ConnectDriverExtension(d, dv, cs) ==
  LET refused == Outcome([dv EXCEPT !.info = Dangling], cs, FALSE)
      opened(c) == Outcome([dv EXCEPT !.info = c],
                           [cs EXCEPT ![c] = NewConn(d, dv.bundleInfo)], TRUE)
  IN  IF dv.info # NoConn THEN {Outcome(dv, cs, FALSE)}
      ELSE IF dv.bundleInfo = NoDriver THEN {refused}
      ELSE {opened(c) : c \in NextConns(cs)} \cup IfFaulty(refused)

(***************************************************************************)
(* DisconnectDriverExtension refuses a notifier without info_, or whose    *)
(* info_ was made for another bundleInfo; the ability manager refuses a    *)
(* connection it does not know.                                            *)
(***************************************************************************)
DisconnectDriverExtension(dv, cs) ==
  LET refused == Outcome(dv, cs, FALSE)
  IN  IF \/ ~dv.notifier
         \/ dv.info \notin Conns
         \/ cs[dv.info].drv # dv.bundleInfo
      THEN {refused}
      ELSE {Outcome(dv, [cs EXCEPT ![dv.info].closing = TRUE], TRUE)}
           \cup IfFaulty(refused)

(***************************************************************************)
(* StopDriverExtension names an ability, not a connection: the ability     *)
(* manager ends the connections to it, whichever device they are for and   *)
(* whether their notifier still exists.  Which of them it ends is left     *)
(* open: the account they run for is not in the model, and it may refuse.  *)
(* The empty element name of NoDriver names no ability.                    *)
(***************************************************************************)
StopDriverExtension(cs, r) ==
  LET running == {c \in Conns : cs[c].phase # "free" /\ cs[c].drv = r}
  IN  {[c \in Conns |-> IF c \in S THEN [cs[c] EXCEPT !.closing = TRUE] ELSE cs[c]]
       : S \in SUBSET running}

(***************************************************************************)
(* Device::Connect(), on plug-in and on a package update.  A failed        *)
(* attempt is repeated up to 30 times, 100 ms apart; every retry first     *)
(* drops drvExtRemote_ and info_, so all retries are alike.                *)
(***************************************************************************)
ConnectOnMatch(d, dv, cs) ==
  LET first == ConnectDriverExtension(d, AddDrvExtConnNotify(dv), cs)
      Retry(o) == ConnectDriverExtension(
                    d, [o.dv EXCEPT !.remote = FALSE, !.info = NoConn], o.cs)
  IN  {o \in first : o.ok} \cup UNION {Retry(o) : o \in {p \in first : ~p.ok}}

(***************************************************************************)
(* Device::Connect(connectCallback, callingTokenId).  With a remote the    *)
(* callback is told at once and registered.  Without one it is registered, *)
(* a new notifier replaces the old, and a connection is opened.            *)
(***************************************************************************)
ConnectForClient(d, dv, cs, cl) ==
  LET Bound(o) == IF ~o.ok THEN {o}
                  ELSE {Outcome([o.dv EXCEPT !.callers[cl] = "bound"], o.cs, TRUE)}
      Undone(o) == IF o.ok THEN o
                   ELSE Outcome(RemoveCaller(UnregisterDrvExtMgrCallback(o.dv, cl), cl),
                                o.cs, FALSE)
      Opened(o) == IF ~o.ok THEN {o}
                   ELSE {Undone(p) : p \in
                           ConnectDriverExtension(
                             d, [UpdateDrvExtConnNotify(o.dv) EXCEPT !.callers[cl] = "pending"],
                             Orphaned(o.cs, d))}
      registered == RegisterDrvExtMgrCallback(dv, cs, cl)
  IN  UNION {IF dv.remote THEN Bound(o) ELSE Opened(o) : o \in registered}

\* Device::Disconnect: nothing to do when the notifier has no info_.
Disconnect(dv, cs) ==
  IF dv.notifier /\ dv.info = NoConn THEN {Outcome(dv, cs, TRUE)}
  ELSE DisconnectDriverExtension(dv, cs)

\* Device::OnConnect, with a null remote when the connection failed.
OnConnect(dv, gotRemote) ==
  [dv EXCEPT !.remote  = gotRemote,
             !.callers = [cl \in Clients |-> IF dv.callers[cl] = "none"
                                             THEN "none" ELSE "bound"]]

\* Device::OnDisconnect, without the removal of an unregistered device and
\* the stop of the driver that follow it (OnDisconnectDone).
OnDisconnect(dv) ==
  [dv EXCEPT !.remote = FALSE,
             !.info = IF dv.notifier THEN NoConn ELSE @,
             !.callers = NoCallers, !.callbacks = {}]
=============================================================================
