-------------------------- MODULE ExtDeviceManager --------------------------
(***************************************************************************)
(* The device manager of the driver extension manager service              *)
(* (etx_device_mgr.cpp) with the Device objects it owns (module Device),   *)
(* the entry points of the service that call it (driver_ext_mgr.cpp), and  *)
(* the detached threads of the package manager that call it back           *)
(* (drv_bundle_state_callback.cpp, bundle_update_callback.cpp,             *)
(* driver_os_account_subscriber.cpp).                                      *)
(*                                                                         *)
(* Actors, and what they interleave on:                                    *)
(*   - the bus thread reports devices (RegisterDevice, UnRegisterDevice),  *)
(*     each in two steps, both under deviceMapMutex_;                      *)
(*   - client calls bind and unbind, one step each, under deviceMapMutex_; *)
(*   - the ability manager answers connections, one step each, under       *)
(*     deviceMutex_ only, in any order;                                    *)
(*   - the package threads empty the match table and match every device    *)
(*     again, or clear what an account had matched: one device at a time,  *)
(*     under deviceMapMutex_;                                              *)
(*   - a package event is checked in one step and written in another;      *)
(*   - the unload timer stops the process.                                 *)
(***************************************************************************)
EXTENDS Device

CONSTANTS
  Bundles,       \* application packages
  BundleOf,      \* the package each driver belongs to
  AllBundles,    \* the empty bundleName: every package
  NoArg,
  NoUser,
  FirstUser,     \* the account in the foreground at start
  LaunchOnBind,  \* drivers whose launchOnBind is true
  Matches,       \* the drivers MatchDriver accepts for each device
  AccessAllowed, \* <<client, driver>> that pass CheckAccessPermission
  MaxThreads,    \* bound: detached threads that exist at the same time
  UpdatableBundles, \* bound: packages that are installed or removed
  Switchable,    \* bound: accounts that may come to the foreground
  Replug,        \* bound: devices that come and go; the others only come
  RepeatedAdds,  \* TRUE: the bus may report a present device again
  Unloads,       \* TRUE: the unload timer fires and the process stops
  ColdBoot       \* TRUE: from before OnStart; FALSE: drivers are loaded

ASSUME BundleAssumption ==
  /\ BundleOf \in [Drivers -> Bundles]
  /\ AllBundles \notin Bundles
ASSUME ArgAssumption    == NoArg \notin Bundles \cup {AllBundles}
ASSUME UserAssumption   == FirstUser \in Users /\ NoUser \notin Users
ASSUME DriverSets       == LaunchOnBind \subseteq Drivers
ASSUME MatchAssumption  == Matches \in [Devices -> SUBSET Drivers]
ASSUME AccessAssumption == AccessAllowed \subseteq Clients \X Drivers
ASSUME ThreadAssumption == MaxThreads \in Nat
ASSUME BoundAssumption  ==
  /\ UpdatableBundles \subseteq Bundles
  /\ Switchable \subseteq Users
  /\ Replug \subseteq Devices
  /\ {RepeatedAdds, Unloads, ColdBoot} \subseteq BOOLEAN

VARIABLES
  device,         \* the Device object of each id; FreshDevice when absent
  deviceMap,      \* the ids in deviceMap_
  conn,           \* the ability manager's connections
  bundleMatchMap, \* the driver matching table; {} where there is no entry
  bus,            \* the bus thread's call in progress
  threads,        \* the detached threads of the package manager
  unload,         \* the unload timer
  running,        \* the service process exists
  pkg,            \* initOnce and the rows of the driver package table
  plugged,        \* devices whose last report was an arrival
  apps,           \* drivers installed for each account (bundle manager)
  account         \* the foreground account and the one being switched to

vars == <<device, deviceMap, conn, bundleMatchMap, bus, threads, unload,
          running, pkg, plugged, apps, account>>
external == <<plugged, apps, account>>

-----------------------------------------------------------------------------
(***************************************************************************)
(* Threads and locks.  A detached thread is a job: it may have to wait for *)
(* deviceMapMutex_ before its loop ("matchWait", "clearWait").  So is the  *)
(* handler of a package event that has passed the check of its account     *)
(* ("update").                                                             *)
(***************************************************************************)
Threads == 1 .. MaxThreads

Job(kind, arg, user, ids) ==
  [kind |-> kind, arg |-> arg, user |-> user, ids |-> ids, todo |-> {}, dev |-> NoDevice]

NoJob           == Job("idle", NoArg, NoUser, {})
GetAllJob       == Job("getall", NoArg, NoUser, {})
UpdateJob(b, u) == Job("update", b, u, {})
DeleteJob(b)    == Job("delete", b, NoUser, {})
MatchJob(ids)   == Job("matchWait", NoArg, NoUser, ids)
ClearJob(u)     == Job("clearWait", NoArg, u, {})

JobRecords ==
  [kind : {"idle", "getall", "update", "delete", "matchWait", "match",
           "clearWait", "clear"},
   arg  : Bundles \cup {AllBundles, NoArg}, user : Users \cup {NoUser},
   ids  : SUBSET Devices, todo : SUBSET Devices, dev : Devices \cup {NoDevice}]

\* An event names a package and an account.
Jobs == {j \in JobRecords : j.kind = "update" => j.arg \in Bundles /\ j.user \in Users}

\* The thread tables after std::thread(job).detach(): none when all are used.
Spawned(ts, job) ==
  {[ts EXCEPT ![t] = job] : t \in
     {s \in Threads : /\ ts[s].kind = "idle"
                      /\ \A q \in Threads : q < s => ts[q].kind # "idle"}}

\* Bound: packages and accounts change only when enough threads are left for
\* what is already under way, so that the bound never blocks the service.
Room(n) ==
  Cardinality({t \in Threads : threads[t].kind = "idle"}) >=
    n + (IF account.to = NoUser THEN 0 ELSE 2) + (IF pkg.initOnce THEN 0 ELSE 1)

NoCall == [op |-> "none", dev |-> NoDevice, bundleInfo |-> NoDriver, remote |-> FALSE]
BusCalls == [op : {"none", "register", "unregister"}, dev : Devices \cup {NoDevice},
             bundleInfo : Drivers \cup {NoDriver}, remote : BOOLEAN]

\* deviceMapMutex_ is not held across a step.
MapFree == /\ bus.op = "none"
           /\ \A t \in Threads : threads[t].kind \notin {"match", "clear"}

\* The devices QueryDevice lists and GetTotalDeviceNum counts.
Visible(map, dev) == {d \in map : ~dev[d].unRegisted}
QueryDevice       == Visible(deviceMap, device)

-----------------------------------------------------------------------------
(***************************************************************************)
(* The package manager, as far as the device manager calls it.             *)
(***************************************************************************)
RowsOf(S, u) == [drv : S, user : {u}]
Result(g, ts, ok) == [pkg |-> g, threads |-> ts, ok |-> ok]

\* Faulty variant of UpdateToRdb: nobody is told.
UpdateToRdbUntold(ts, g, b) == {Result(g, ts, TRUE)}

\* DrvBundleStateCallback::UpdateToRdb: the rows are replaced and a thread
\* reports the package; a failed transaction changes nothing.
UpdateToRdb(ts, g, b) ==
  {Result(g, next, TRUE) : next \in Spawned(ts, DeleteJob(b))}
  \cup IfFaulty(Result(pkg, ts, FALSE))

\* The table, loaded for account u.
LoadedFor(u, rows) == [initOnce |-> TRUE, rows |-> RowsOf(rows, u)]

\* GetAllDriverInfos: the whole table is loaded again unless initOnce.  It
\* fails when the account, the bundle manager or the database does.
GetAllDriverInfos ==
  IF pkg.initOnce THEN {Result(pkg, threads, TRUE)}
  ELSE UpdateToRdb(threads, LoadedFor(account.user, apps[account.user]), AllBundles)

\* DriverPkgManager::QueryMatchDriver takes the first row that matches; the
\* table has no order.  NoDriver is the null pointer.
QueryMatchDriver(d) ==
  LET found(g) == {r \in g.pkg.rows : r.drv \in Matches[d]}
      rows(g)  == IF ~g.ok \/ found(g) = {} THEN {NoDriver} ELSE found(g)
  IN  UNION {{[row |-> r, pkg |-> g.pkg, threads |-> g.threads] : r \in rows(g)}
             : g \in GetAllDriverInfos}

(***************************************************************************)
(* The match table.  bundleMatchMapMutex_ is held inside one step only.    *)
(***************************************************************************)
\* AddDevIdOfBundleInfoMap, after the id went into the entry of its driver.
ConnectMatched(d, dv, cs) ==
  CASE dv.driverInfo = NoDriver              -> {Outcome(dv, cs, FALSE)}
    [] dv.driverInfo # NoDriver
       /\ dv.driverInfo.drv \in LaunchOnBind -> {Outcome(dv, cs, TRUE)}
    [] OTHER                                 -> ConnectOnMatch(d, dv, cs)

AddDevIdOfBundleInfoMap(d, dv) ==
  /\ bundleMatchMap' = [bundleMatchMap EXCEPT ![dv.bundleInfo] = @ \cup {d}]
  /\ \E o \in ConnectMatched(d, dv, conn) :
       /\ device' = [device EXCEPT ![d] = o.dv]
       /\ conn' = o.cs

\* What RemoveDevIdOfBundleInfoMap does to the device: nothing while its
\* driver serves other devices, a disconnection when it was the last one.
DisconnectUnmatched(dv, bundleInfo) ==
  IF Cardinality(bundleMatchMap[bundleInfo]) # 1 THEN {Outcome(dv, conn, TRUE)}
  ELSE {IF o.ok THEN [o EXCEPT !.dv = RemoveDriverInfo(o.dv)] ELSE o
        : o \in Disconnect(dv, conn)}

-----------------------------------------------------------------------------
(***************************************************************************)
(* Devices arrive.  RegisterDevice looks the device up, returns early when *)
(* its driver is connected, creates it, and matches a driver to it...      *)
(***************************************************************************)
RegisterDevice(d) ==
  /\ running /\ MapFree
  /\ \/ d \notin plugged
     \/ d \in plugged /\ (d \notin deviceMap \/ RepeatedAdds)
  /\ plugged' = plugged \cup {d}
  /\ \/ /\ d \in deviceMap /\ device[d].remote
        /\ UNCHANGED <<device, deviceMap, bus, pkg, threads>>
     \/ /\ ~(d \in deviceMap /\ device[d].remote)
        /\ deviceMap' = deviceMap \cup {d}
        /\ bus' = [NoCall EXCEPT !.op = "register", !.dev = d]
        /\ \/ /\ device[d].bundleInfo # NoDriver
              /\ UNCHANGED <<device, pkg, threads>>
           \/ /\ device[d].bundleInfo = NoDriver
              /\ \E q \in QueryMatchDriver(d) :
                   /\ device' = IF q.row = NoDriver THEN device
                                ELSE [device EXCEPT ![d] = AddBundleInfo(@, q.row)]
                   /\ pkg' = q.pkg /\ threads' = q.threads
  /\ UNCHANGED <<conn, bundleMatchMap, unload, running, apps, account>>

\* ... then cancels the unload timer and enters it into the match table.
FinishRegister ==
  LET d  == bus.dev
      dv == device[d]
  IN  /\ bus.op = "register"
      /\ bus' = NoCall
      /\ unload' = IF unload = "requested" THEN unload ELSE "off"
      /\ IF dv.bundleInfo = NoDriver
         THEN UNCHANGED <<device, conn, bundleMatchMap>>
         ELSE AddDevIdOfBundleInfoMap(d, dv)
      /\ UNCHANGED <<deviceMap, threads, running, pkg, external>>

(***************************************************************************)
(* Devices leave.  UnRegisterDevice reads the driver and whether it is     *)
(* connected...                                                            *)
(***************************************************************************)
UnRegisterDevice(d) ==
  /\ running /\ MapFree /\ d \in Replug
  /\ d \in plugged
  /\ plugged' = plugged \ {d}
  /\ bus' = IF d \notin deviceMap THEN NoCall
            ELSE [op |-> "unregister", dev |-> d,
                  bundleInfo |-> device[d].bundleInfo, remote |-> device[d].remote]
  /\ UNCHANGED <<device, deviceMap, conn, bundleMatchMap, threads, unload,
                 running, pkg, apps, account>>

\* Faulty variant of UnLoadSelf: devices that are left do not count.
UnLoadSelfAnyway(visible) ==
  unload' \in IF unload = "requested" THEN {unload} ELSE {"armed"}

\* UnLoadSelf, with the devices that are left.
UnLoadSelf(visible) ==
  unload' \in IF unload = "requested" THEN {unload}
              ELSE IF visible # {} THEN {"off"}
              ELSE {"armed"} \cup IfFaulty("off")

\* ... then marks or erases the device, arms the timer when it was the last
\* one, and takes it out of the match table.
FinishUnRegister ==
  LET d  == bus.dev
      b  == bus.bundleInfo
      dv == IF bus.remote THEN UnRegist(device[d]) ELSE device[d]
      removed == IF b = NoDriver THEN {Outcome(dv, conn, TRUE)}
                 ELSE DisconnectUnmatched(dv, b)
  IN  /\ bus.op = "unregister"
      /\ bus' = NoCall
      /\ bundleMatchMap' =
           IF b = NoDriver THEN bundleMatchMap
           ELSE [bundleMatchMap EXCEPT ![b] = IF Cardinality(@) > 1 THEN @ \ {d} ELSE {}]
      /\ \E o \in removed :
           \/ /\ bus.remote
              /\ device' = [device EXCEPT ![d] = o.dv]
              /\ conn' = o.cs
              /\ UNCHANGED deviceMap
           \/ /\ ~bus.remote
              /\ device' = [device EXCEPT ![d] = FreshDevice]
              /\ conn' = Orphaned(o.cs, d)
              /\ deviceMap' = deviceMap \ {d}
      /\ UnLoadSelf(Visible(deviceMap', device'))
      /\ UNCHANGED <<threads, running, pkg, external>>

-----------------------------------------------------------------------------
(***************************************************************************)
(* Clients.  QueryDeviceByDeviceID finds unregistered devices too.         *)
(***************************************************************************)
DeviceCall(d) == running /\ MapFree /\ d \in deviceMap

BindResult(d, cl) ==
  /\ \E o \in ConnectForClient(d, device[d], conn, cl) :
       /\ device' = [device EXCEPT ![d] = o.dv]
       /\ conn' = o.cs
  /\ UNCHANGED <<deviceMap, bundleMatchMap, bus, threads, unload, running, pkg, external>>

\* BindDevice.
ConnectDevice(d, cl) == DeviceCall(d) /\ BindResult(d, cl)

\* BindDriverWithDeviceId.
ConnectDriverWithDeviceId(d, cl) ==
  /\ DeviceCall(d)
  /\ device[d].driverInfo # NoDriver
  /\ <<cl, device[d].driverInfo.drv>> \in AccessAllowed
  /\ BindResult(d, cl)

\* The driver is stopped with its last caller when it was launched on bind;
\* otherwise only the caller is forgotten.
UnbindResult(d, cl) ==
  /\ device[d].driverInfo # NoDriver
  /\ \/ /\ \/ device[d].driverInfo.drv \notin LaunchOnBind
           \/ ~IsLastCaller(device[d], cl)
        /\ device' = [device EXCEPT ![d] = RemoveCaller(@, cl)]
        /\ UNCHANGED conn
     \/ /\ device[d].driverInfo.drv \in LaunchOnBind
        /\ IsLastCaller(device[d], cl)
        /\ \E o \in Disconnect(device[d], conn) :
             /\ device' = [device EXCEPT ![d] = o.dv]
             /\ conn' = o.cs
  /\ UNCHANGED <<deviceMap, bundleMatchMap, bus, threads, unload, running, pkg, external>>

\* UnBindDevice.
DisConnectDevice(d, cl) == DeviceCall(d) /\ UnbindResult(d, cl)

\* UnBindDriverWithDeviceId.
DisConnectDriverWithDeviceId(d, cl) ==
  /\ DeviceCall(d)
  /\ IsBindCaller(device[d], cl)
  /\ UnbindResult(d, cl)

\* The process of a client dies: its death recipients drop its callback.
OnRemoteDied(cl) ==
  /\ running
  /\ \E d \in Devices : cl \in device[d].callbacks
  /\ device' = [d \in Devices |-> UnregisterDrvExtMgrCallback(device[d], cl)]
  /\ UNCHANGED <<deviceMap, conn, bundleMatchMap, bus, threads, unload,
                 running, pkg, external>>

-----------------------------------------------------------------------------
(***************************************************************************)
(* The ability manager answers.  A connection without a notifier is        *)
(* answered all the same: the answer is dropped.                           *)
(***************************************************************************)
\* info_ is not touched when its connection fails (device.cpp:179-184): it
\* goes on naming a connection that the ability manager has forgotten and
\* whose slot here is free for another.
LostInfo(dv, c) == IF dv.info = c THEN [dv EXCEPT !.info = Dangling] ELSE dv

OnConnectDone(c, ok) ==
  LET d == conn[c].dev IN
  /\ running
  /\ conn[c].phase = "connecting"
  /\ ok \/ Faults
  /\ conn' = [conn EXCEPT ![c] = IF ok THEN [@ EXCEPT !.phase = "connected"] ELSE FreeConn]
  /\ device' = IF ~conn[c].notifies THEN device
               ELSE [device EXCEPT ![d] = OnConnect(IF ok THEN @ ELSE LostInfo(@, c), ok)]
  /\ UNCHANGED <<deviceMap, bundleMatchMap, bus, threads, unload, running, pkg, external>>

\* The end of a connection, asked for (closing) or because the driver died.
\* An unregistered device leaves deviceMap_, which takes deviceMapMutex_.  A
\* device that is told ends by stopping its driver, for every device.
OnDisconnectDone(c) ==
  LET d == conn[c].dev
      removes == conn[c].notifies /\ device[d].unRegisted
      freed == [conn EXCEPT ![c] = FreeConn]
      stopped == StopDriverExtension(freed, device[d].bundleInfo)
  IN  /\ running
      /\ conn[c].phase = "connected" \/ (conn[c].phase = "connecting" /\ conn[c].closing)
      /\ \/ /\ removes /\ MapFree
            /\ deviceMap' = deviceMap \ {d}
            /\ device' = [device EXCEPT ![d] = FreshDevice]
            /\ \E cs \in stopped : conn' = Orphaned(cs, d)
         \/ /\ conn[c].notifies /\ ~device[d].unRegisted
            /\ device' = [device EXCEPT ![d] = OnDisconnect(@)]
            /\ conn' \in stopped
            /\ UNCHANGED deviceMap
         \/ /\ ~conn[c].notifies
            /\ conn' = freed
            /\ UNCHANGED <<device, deviceMap>>
      /\ UNCHANGED <<bundleMatchMap, bus, threads, unload, running, pkg, external>>

-----------------------------------------------------------------------------
(***************************************************************************)
(* Packages change.  OnBundleAdded, OnBundleUpdated and OnBundleRemoved    *)
(* drop the event when its account is not in the foreground, or when the   *)
(* account service cannot say which one is...                              *)
(***************************************************************************)
DriversOf(b) == {r \in Drivers : BundleOf[r] = b}

\* Faulty variant of OnBundleChanged: the account is asked for, and whether
\* that failed is not looked at.
OnBundleChangedUnchecked(b, u, S) ==
  /\ running /\ Room(1)
  /\ apps' = [apps EXCEPT ![u] = (@ \ DriversOf(b)) \cup S]
  /\ \E v \in {account.user} \cup IfFaulty(NoUser) :
       threads' \in Spawned(threads, UpdateJob(b, v))
  /\ UNCHANGED <<device, deviceMap, conn, bundleMatchMap, bus, unload, running,
                 pkg, plugged, account>>

OnBundleChanged(b, u, S) ==
  /\ running /\ Room(1)
  /\ apps' = [apps EXCEPT ![u] = (@ \ DriversOf(b)) \cup S]
  /\ \/ (u # account.user \/ Faults) /\ UNCHANGED threads
     \/ u = account.user /\ threads' \in Spawned(threads, UpdateJob(b, u))
  /\ UNCHANGED <<device, deviceMap, conn, bundleMatchMap, bus, unload, running,
                 pkg, plugged, account>>

\* ... then replace the rows of the package by what that account has of it,
\* whichever account is in the foreground by now.
UpdateBundle(t) ==
  LET b   == threads[t].arg
      u   == threads[t].user
      new == {r \in pkg.rows : r.drv \notin DriversOf(b)}
               \cup RowsOf(apps[u] \cap DriversOf(b), u)
  IN  /\ threads[t].kind = "update"
      /\ \E g \in UpdateToRdb([threads EXCEPT ![t] = NoJob], [pkg EXCEPT !.rows = new], b) :
           pkg' = g.pkg /\ threads' = g.threads
      /\ UNCHANGED <<device, deviceMap, conn, bundleMatchMap, bus, unload, running, external>>

\* The thread of GetAllDriverInfosAsync.
GetAllDriverInfosAsync(t) ==
  /\ threads[t].kind = "getall"
  /\ \E g \in GetAllDriverInfos : pkg' = g.pkg /\ threads' = [g.threads EXCEPT ![t] = NoJob]
  /\ UNCHANGED <<device, deviceMap, conn, bundleMatchMap, bus, unload, running, external>>

\* OnBundlesUpdated, first half: the entries of the package are deleted.  The
\* empty bundleName deletes every entry and returns no ids.
DeleteBundlesOfBundleInfoMap(t) ==
  LET b   == threads[t].arg
      hit == IF b = AllBundles THEN Drivers ELSE DriversOf(b)
      ids == IF b = AllBundles THEN {} ELSE UNION {bundleMatchMap[r] : r \in hit}
  IN  /\ threads[t].kind = "delete"
      /\ bundleMatchMap' = [r \in Drivers |-> IF r \in hit THEN {} ELSE bundleMatchMap[r]]
      /\ threads' = [threads EXCEPT ![t] = MatchJob(ids)]
      /\ UNCHANGED <<device, deviceMap, conn, bus, unload, running, pkg, external>>

\* A thread that waited takes deviceMapMutex_ and starts its loop.
LockDeviceMap(t) ==
  LET kind == threads[t].kind IN
  /\ kind \in {"matchWait", "clearWait"} /\ MapFree
  /\ threads' = [threads EXCEPT ![t] =
       IF deviceMap = {} /\ kind = "matchWait" THEN NoJob
       ELSE [@ EXCEPT !.kind = IF kind = "matchWait" THEN "match" ELSE "clear",
                      !.todo = deviceMap]]
  /\ UNCHANGED <<device, deviceMap, conn, bundleMatchMap, bus, unload, running, pkg, external>>

\* MatchDriverInfos, the reset of a device whose entry was deleted.
ResetDevice(t, d) ==
  /\ threads[t].kind = "match" /\ threads[t].dev = NoDevice
  /\ d \in threads[t].todo \cap threads[t].ids
  /\ device' = [device EXCEPT ![d] = RemoveDriverInfo(ClearDrvExtRemote(RemoveBundleInfo(@)))]
  /\ threads' = [threads EXCEPT ![t].dev = d]
  /\ UNCHANGED <<deviceMap, conn, bundleMatchMap, bus, unload, running, pkg, external>>

\* The thread table once t has done with device d.
DoneWith(ts, t, d) ==
  [ts EXCEPT ![t] = IF ts[t].todo = {d} THEN NoJob
                    ELSE [ts[t] EXCEPT !.todo = @ \ {d}, !.dev = NoDevice]]

\* MatchDriverInfos, the matching of one device.
MatchDevice(t, d) ==
  /\ threads[t].kind = "match" /\ d \in threads[t].todo
  /\ IF threads[t].dev = NoDevice THEN d \notin threads[t].ids ELSE d = threads[t].dev
  /\ \/ /\ device[d].unRegisted \/ device[d].remote
        /\ threads' = DoneWith(threads, t, d)
        /\ UNCHANGED <<device, conn, bundleMatchMap, pkg>>
     \/ /\ ~device[d].unRegisted /\ ~device[d].remote
        /\ \E q \in QueryMatchDriver(d) :
             /\ threads' = DoneWith(q.threads, t, d)
             /\ pkg' = q.pkg
             /\ IF q.row = NoDriver THEN UNCHANGED <<device, conn, bundleMatchMap>>
                ELSE AddDevIdOfBundleInfoMap(d, AddBundleInfo(device[d], q.row))
  /\ UNCHANGED <<deviceMap, bus, unload, running, external>>

-----------------------------------------------------------------------------
(***************************************************************************)
(* Accounts.  The switching event starts the thread that forgets what the  *)
(* old account had matched, the switched event loads the new account's     *)
(* drivers; the foreground account changes in between.                     *)
(***************************************************************************)
OnAccountsSwitching(u) ==
  /\ running /\ Room(3)
  /\ account.to = NoUser /\ u # account.user
  /\ account' = [account EXCEPT !.to = u]
  /\ threads' \in Spawned(threads, ClearJob(account.user))
  /\ UNCHANGED <<device, deviceMap, conn, bundleMatchMap, bus, unload, running,
                 pkg, plugged, apps>>

ForegroundChanges ==
  /\ account.to \notin {NoUser, account.user}
  /\ account' = [account EXCEPT !.user = account.to]
  /\ UNCHANGED <<device, deviceMap, conn, bundleMatchMap, bus, threads, unload,
                 running, pkg, plugged, apps>>

\* Faulty variant of OnAccountsSwitched: initOnce is not reset.
OnAccountsSwitchedKeepsInit ==
  /\ running
  /\ account.to = account.user
  /\ account' = [account EXCEPT !.to = NoUser]
  /\ threads' \in Spawned(threads, GetAllJob)
  /\ UNCHANGED <<device, deviceMap, conn, bundleMatchMap, bus, unload, running,
                 pkg, plugged, apps>>

OnAccountsSwitched ==
  /\ running
  /\ account.to = account.user
  /\ account' = [account EXCEPT !.to = NoUser]
  /\ pkg' = [pkg EXCEPT !.initOnce = FALSE]
  /\ threads' \in Spawned(threads, GetAllJob)
  /\ UNCHANGED <<device, deviceMap, conn, bundleMatchMap, bus, unload, running,
                 plugged, apps>>

\* ClearMatchedDrivers, one device of its loop.  Whether StopDriverExtension
\* fails is only logged.
ClearDevice(t, d) ==
  LET dv == device[d]
      skipped == \/ dv.unRegisted
                 \/ dv.bundleInfo = NoDriver
                 \/ dv.driverInfo = NoDriver
                 \/ dv.driverInfo # NoDriver /\ dv.driverInfo.user # threads[t].user
                 \/ dv.bundleInfo # NoDriver /\ bundleMatchMap[dv.bundleInfo] = {}
  IN  /\ threads[t].kind = "clear" /\ d \in threads[t].todo
      /\ threads' = [threads EXCEPT ![t].todo = @ \ {d}]
      /\ \/ skipped /\ UNCHANGED <<device, bundleMatchMap, conn>>
         \/ /\ ~skipped
            /\ bundleMatchMap' = [bundleMatchMap EXCEPT ![dv.bundleInfo] = {}]
            /\ device' = [device EXCEPT ![d] =
                            RemoveDriverInfo(ClearDrvExtRemote(RemoveBundleInfo(@)))]
            /\ conn' \in StopDriverExtension(conn, dv.driverInfo.drv)
      /\ UNCHANGED <<deviceMap, bus, unload, running, pkg, external>>

\* ClearMatchedDrivers ends by emptying the match table.
ClearEnd(t) ==
  /\ threads[t].kind = "clear" /\ threads[t].todo = {}
  /\ bundleMatchMap' = [r \in Drivers |-> {}]
  /\ threads' = [threads EXCEPT ![t] = NoJob]
  /\ UNCHANGED <<device, deviceMap, conn, bus, unload, running, pkg, external>>

-----------------------------------------------------------------------------
(***************************************************************************)
(* The process.  The timer asks for the unload; the process ends later,    *)
(* whatever was registered in between, and its connections with it.        *)
(***************************************************************************)
TimerFires ==
  /\ running /\ unload = "armed" /\ Unloads
  /\ unload' \in {"requested"} \cup IfFaulty("off")
  /\ UNCHANGED <<device, deviceMap, conn, bundleMatchMap, bus, threads, running, pkg, external>>

Blank ==
  /\ device' = [d \in Devices |-> FreshDevice]
  /\ deviceMap' = {}
  /\ conn' = [c \in Conns |-> FreeConn]
  /\ bundleMatchMap' = [r \in Drivers |-> {}]
  /\ bus' = NoCall
  /\ unload' = "off"
  /\ pkg' = [pkg EXCEPT !.initOnce = FALSE]

OnStop ==
  /\ running /\ unload = "requested"
  /\ running' = FALSE
  /\ Blank
  /\ threads' = [t \in Threads |-> NoJob]
  /\ UNCHANGED external

\* OnStart: DriverPkgManager::Init starts the thread that loads the drivers.
\* Devices come and go while the process does not run.
OnStart ==
  /\ ~running
  /\ running' = TRUE
  /\ threads' \in Spawned(threads, GetAllJob)
  /\ plugged' \in SUBSET Devices
  /\ UNCHANGED <<device, deviceMap, conn, bundleMatchMap, bus, unload, pkg, apps, account>>

-----------------------------------------------------------------------------
Init ==
  /\ device = [d \in Devices |-> FreshDevice]
  /\ deviceMap = {}
  /\ conn = [c \in Conns |-> FreeConn]
  /\ bundleMatchMap = [r \in Drivers |-> {}]
  /\ bus = NoCall
  /\ threads = [t \in Threads |-> NoJob]
  /\ unload = "off"
  /\ running = ~ColdBoot
  /\ pkg = IF ColdBoot THEN [initOnce |-> FALSE, rows |-> {}]
           ELSE [initOnce |-> TRUE, rows |-> RowsOf(Drivers, FirstUser)]
  /\ plugged = {}
  /\ apps = [u \in Users |-> Drivers]
  /\ account = [user |-> FirstUser, to |-> NoUser]

Bus == \/ \E d \in Devices : RegisterDevice(d) \/ UnRegisterDevice(d)
       \/ FinishRegister
       \/ FinishUnRegister

Client == \/ \E d \in Devices, cl \in Clients :
               \/ ConnectDevice(d, cl)
               \/ ConnectDriverWithDeviceId(d, cl)
               \/ DisConnectDevice(d, cl)
               \/ DisConnectDriverWithDeviceId(d, cl)
          \/ \E cl \in Clients : OnRemoteDied(cl)

AbilityManager == \E c \in Conns : \/ \E ok \in BOOLEAN : OnConnectDone(c, ok)
                                   \/ OnDisconnectDone(c)

Packages == \E b \in UpdatableBundles, u \in Users, S \in SUBSET Drivers :
              S \subseteq DriversOf(b) /\ OnBundleChanged(b, u, S)

Accounts == \/ \E u \in Switchable : OnAccountsSwitching(u)
            \/ ForegroundChanges
            \/ OnAccountsSwitched

Thread(t) == \/ GetAllDriverInfosAsync(t)
             \/ UpdateBundle(t)
             \/ DeleteBundlesOfBundleInfoMap(t)
             \/ LockDeviceMap(t)
             \/ \E d \in Devices : ResetDevice(t, d) \/ MatchDevice(t, d) \/ ClearDevice(t, d)
             \/ ClearEnd(t)

Process == TimerFires \/ OnStop \/ OnStart

Next == \/ Bus
        \/ Client
        \/ AbilityManager
        \/ Packages
        \/ Accounts
        \/ \E t \in Threads : Thread(t)
        \/ Process

Spec == Init /\ [][Next]_vars

(***************************************************************************)
(* Fairness.  A step of the service that has begun is finished, and a      *)
(* thread that waits for deviceMapMutex_ gets it in the end (SF: the lock  *)
(* is free again and again, not all the time).  The ability manager        *)
(* answers what it was asked; it need not end a connection by itself.  An  *)
(* account switch that has begun is completed.  Nothing is asked of the    *)
(* bus, the clients, the bundle manager or the timer.                      *)
(***************************************************************************)
Answer(c) ==
  /\ conn[c].phase = "connecting" \/ conn[c].closing
  /\ \/ \E ok \in BOOLEAN : OnConnectDone(c, ok)
     \/ OnDisconnectDone(c)

Fairness ==
  /\ WF_vars(FinishRegister)
  /\ WF_vars(FinishUnRegister)
  /\ \A t \in Threads : SF_vars(Thread(t))
  /\ \A c \in Conns : SF_vars(Answer(c))
  /\ WF_vars(ForegroundChanges)
  /\ WF_vars(OnAccountsSwitched)

FairSpec == Spec /\ Fairness

-----------------------------------------------------------------------------
(***************************************************************************)
(* Properties that hold.                                                   *)
(***************************************************************************)
\* Every variable has its type.
TypeOK ==
  /\ device \in [Devices -> DeviceRecords]
  /\ deviceMap \subseteq Devices
  /\ conn \in [Conns -> Connections]
  /\ bundleMatchMap \in [Drivers -> SUBSET Devices]
  /\ bus \in BusCalls
  /\ threads \in [Threads -> Jobs]
  /\ unload \in {"off", "armed", "requested"}
  /\ running \in BOOLEAN
  /\ pkg \in [initOnce : BOOLEAN, rows : SUBSET DriverRows]
  /\ plugged \subseteq Devices
  /\ apps \in [Users -> SUBSET Drivers]
  /\ account \in [user : Users, to : Users \cup {NoUser}]

\* Connection c reports to the Device object of d.
Reports(c, d) == conn[c].dev = d /\ conn[c].notifies

\* The remote object a device hands to its clients (device.cpp:103) belongs
\* to a connection that is up and whose end the device will be told of:
\* across second connections, replaced notifiers, resets by the package
\* threads, failures and the death of the driver.
RemoteIsBacked ==
  \A d \in Devices : device[d].remote =>
    \E c \in Conns : Reports(c, d) /\ conn[c].phase = "connected"

\* The calls whose outcome device d will be told of, by how far they are.
Heard(d, phase) == {c \in Conns : Reports(c, d) /\ conn[c].phase = phase}

\* What a client can observe of a device.
Session(d) ==
  [remote |-> device[d].remote, callers |-> device[d].callers,
   opening |-> Heard(d, "connecting"), up |-> Heard(d, "connected")]

Sessions == INSTANCE DriverSessions
              WITH Calls <- Conns, session <- [d \in Devices |-> Session(d)]

\* Whatever the bus, the package threads and the other clients do between a
\* bind, the ability manager's answer (device.cpp:177) and the end of the
\* driver (device.cpp:198), the clients of a device are told of its driver
\* and forgotten as DriverSessions promises.
SessionSpec == Sessions!Spec

\* info_ may go on naming a connection that was refused or has failed, but
\* when it names one the ability manager still knows, which a Disconnect
\* would end, that is a connection of this device and of its present
\* notifier: not one of another device, nor of a notifier that was replaced.
InfoIsOwn ==
  \A d \in Devices : device[d].info \in Conns => Reports(device[d].info, d)

\* A caller that waits for its driver (CallerInfo::isBound is false) waits
\* for a connection that is under way, although a second bind replaces the
\* notifier and drops the first connection (device.cpp:124).
PendingIsAnswered ==
  \A d \in Devices, cl \in Clients : device[d].callers[cl] = "pending" =>
    \E c \in Conns : Reports(c, d) /\ conn[c].phase = "connecting"

\* A bound caller's driver is connected: however binds, unbinds, answers and
\* replugs interleave, OnDisconnect forgets the callers together with
\* drvExtRemote_.  (While no package changes: a reset drops drvExtRemote_
\* alone.  While no connection fails: OnConnect binds with a null remote.)
BoundHasRemote ==
  \A d \in Devices, cl \in Clients : device[d].callers[cl] = "bound" => device[d].remote

\* A driver that is launched on bind runs for some caller: however binds,
\* unbinds and answers interleave, the last caller takes it down.  (While
\* the device keeps its driver: an old driver's late connection would run
\* for nobody.)
LaunchedForCaller ==
  \A d \in Devices : device[d].remote /\ device[d].bundleInfo \in LaunchOnBind =>
    CallerCount(device[d]) > 0

\* Connection b has ended, and the device that is told of it was matched
\* with driver r.
EndsFor(b, r) ==
  /\ conn[b].notifies /\ conn'[b].phase = "free"
  /\ device[conn[b].dev].bundleInfo = r

\* A thread takes driver r, matched for the account it clears, from a device.
ClearsFor(r) ==
  \E t \in Threads, d \in Devices :
    /\ threads[t].kind = "clear"
    /\ device[d].driverInfo = [drv |-> r, user |-> threads[t].user]

\* A connection is asked to end with its device's removal, by the unbind of
\* the last caller of its device (IsLastCaller, etx_device_mgr.cpp:575), or
\* because its driver is stopped as a whole: another connection ended for a
\* device matched with it (device.cpp:219), or its account goes
\* (etx_device_mgr.cpp:297).  So an unbind alone never takes the driver from
\* another client of the same device; the stop may take it from the clients
\* of another device.
StopsWithLastCaller ==
  [][\A c \in Conns : ~conn[c].closing /\ conn'[c].closing =>
       \/ bus.op = "unregister" /\ bus.dev = conn[c].dev
       \/ CallerCount(device[conn[c].dev]) <= 1
       \/ \E b \in Conns \ {c} : EndsFor(b, conn[c].drv)
       \/ ClearsFor(conn[c].drv)]_vars

Rebind(d) ==
  \E cl \in Clients : ConnectDevice(d, cl) \/ ConnectDriverWithDeviceId(d, cl)

\* A bind is answered in the end, unless clients replace the connection by
\* binding again and again.
BindIsAnswered ==
  \A d \in Devices, cl \in Clients :
    \/ []<>(device[d].callers[cl] # "pending")
    \/ []<><<Rebind(d)>>_vars

\* The bus thread is not in the middle of a call about d.
Settled(d) == bus.dev # d

\* The unload timer is armed only while no device is listed, so that it does
\* not stop a service in use (UnLoadSelf, RegisterDevice line 355).
UnloadsWhenIdle == unload = "armed" /\ bus.op = "none" => QueryDevice = {}

\* QueryDevice lists no device that was unplugged, also while its driver is
\* still connected and the Device object stays in deviceMap_.
ListedIsPlugged == \A d \in QueryDevice : Settled(d) => d \in plugged

\* A listed device without a driver, although the table has one for it.
Waiting(d) ==
  /\ d \in QueryDevice /\ device[d].bundleInfo = NoDriver
  /\ \E r \in pkg.rows : r.drv \in Matches[d]

\* A device "waitting to install driver package" (etx_device_mgr.cpp:357)
\* gets the driver once it is installed: the two halves of RegisterDevice and
\* of OnBundlesUpdated interleave without losing it.  (NextConns is empty
\* only when the bound on connections is reached.)
InstalledIsMatched ==
  \A d \in Devices : []<>(~Waiting(d) \/ NextConns(conn) = {})

\* After an account switch the table holds the drivers of the account in the
\* foreground and no others, whichever thread loaded it (initOnce).  (While
\* no package changes: an event that passed the check of its account just
\* before the switch writes the old account's rows after it.)
RowsAreCurrent ==
  pkg.initOnce /\ account.to = NoUser =>
    pkg.rows = RowsOf(apps[account.user], account.user)

-----------------------------------------------------------------------------
(***************************************************************************)
(* Properties the documentation, a comment or a test states and the code   *)
(* does not have.                                                          *)
(***************************************************************************)
\* README_zh.md:21: a USB device that is plugged in is recognised.
\* RegisterDevice takes a Device object that is marked unregistered for one
\* that is registered: it returns early (etx_device_mgr.cpp:325), and the
\* object is erased when its driver is gone, or it goes on with the object
\* (line 330), whose mark nothing ever takes back.
PluggedIsListed ==
  \A d \in Devices : d \in plugged ~> (d \in QueryDevice \/ d \notin plugged)

\* device.cpp:189 notifies every application that bound the device.  The
\* comparator of callbacks_ makes all callbacks equivalent: the second
\* client's is never stored.
BinderIsNotified ==
  [][\A d \in Devices, cl \in Clients :
       device[d].callers[cl] = "none" /\ device'[d].callers[cl] # "none"
       => cl \in device'[d].callbacks]_vars
=============================================================================
