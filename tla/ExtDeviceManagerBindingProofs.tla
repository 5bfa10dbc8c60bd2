-------------------- MODULE ExtDeviceManagerBindingProofs --------------------
(***************************************************************************)
(* Theorems about the clients of ExtDeviceManager and about its driver     *)
(* rows: who is told of a connection, whose remote object a client holds,  *)
(* for whom a driver runs and who stops it.                                *)
(*                                                                         *)
(* The argument.  What a device keeps in every execution is Served; what   *)
(* it keeps besides while it is given no other driver is Launched.  Both   *)
(* speak of one device and of the connections that report to it            *)
(* (Reporting), so a step on one device is Carried when it keeps them for  *)
(* that device and leaves the connections of the others alone (Aside).     *)
(***************************************************************************)
EXTENDS ExtDeviceManagerProofs, FiniteSetTheorems

\* The connections that report to the Device object of d.
Reporting(d, cs) == {c \in Conns : cs[c].dev = d /\ cs[c].notifies}

HasCaller(dv) == \E cl \in Clients : dv.callers[cl] # "none"

\* driverInfo_ is the row of the driver bundleInfo_ names, and connections
\* report to a notifier that exists.
Coherent(d, dv, cs) ==
  /\ dv.driverInfo # NoDriver => dv.driverInfo.drv = dv.bundleInfo
  /\ Reporting(d, cs) # {} => dv.notifier

\* A caller that waits, waits for a connection that is under way or for one
\* that was refused.
Answered(d, dv, cs) ==
  \A cl \in Clients : dv.callers[cl] = "pending" =>
    \/ dv.info = Dangling
    \/ \E c \in Reporting(d, cs) : cs[c].phase = "connecting"

Served(d, dv, cs) == Coherent(d, dv, cs) /\ Answered(d, dv, cs)

\* Nothing fails, and no driver is connected when its device arrives.
NoneFails == ~Faults /\ LaunchOnBind = Drivers

Bound(dv) == \E cl \in Clients : dv.callers[cl] = "bound"
Waits(dv) == \E cl \in Clients : dv.callers[cl] = "pending"

\* A driver that is launched on bind has one connection, and a caller.
Alone(d, dv, cs) ==
  /\ \A a, b \in Reporting(d, cs) : a = b
  /\ dv.remote \/ Reporting(d, cs) # {} => HasCaller(dv)

Launched(d, dv, cs) ==
  /\ dv.remote \/ Reporting(d, cs) # {} => dv.bundleInfo # NoDriver
  /\ dv.bundleInfo \in LaunchOnBind => Alone(d, dv, cs)
  /\ NoneFails /\ Bound(dv) => dv.remote
  /\ ~Faults /\ Waits(dv) => dv.bundleInfo # NoDriver /\ dv.info # Dangling

AllServed   == \A d \in Devices : Served(d, device[d], conn)
AllLaunched == \A d \in Devices : Launched(d, device[d], conn)

\* No device that has a driver is given another, or loses it, before the
\* object is erased: no step of the package threads resets one in use.
DriversStay ==
  \A d \in Devices : device[d].bundleInfo # NoDriver =>
    device'[d].bundleInfo = device[d].bundleInfo \/ device'[d] = FreshDevice

\* The connections of the other devices are untouched, and none is taken
\* from or given to them.
Aside(d, cs, next) ==
  \A c \in Conns : \/ next[c] = cs[c]
                   \/ cs[c].dev \in {d, NoDevice} /\ next[c].dev \in {d, NoDevice}

\* No connection is asked to end.
KeepsOpen(cs, next) == \A c \in Conns : next[c].closing => cs[c].closing

\* Only the last caller, the removal of the device, or a stop of the driver as
\* a whole ends a connection.
Stops ==
  \A c \in Conns : ~conn[c].closing /\ conn'[c].closing =>
    \/ bus.op = "unregister" /\ bus.dev = conn[c].dev
    \/ CallerCount(device[conn[c].dev]) <= 1
    \/ \E b \in Conns \ {c} : EndsFor(b, conn[c].drv)
    \/ ClearsFor(conn[c].drv)

\* What every step guarantees.
Carried == AllServed' /\ (AllLaunched /\ DriversStay => AllLaunched') /\ Stops

-----------------------------------------------------------------------------
(***************************************************************************)
(* The operators of module Device.                                         *)
(***************************************************************************)
\* Served and Launched speak of five fields of the device alone.
LEMMA SameService ==
  ASSUME NEW d, NEW dv, NEW cs, NEW nv,
         nv.bundleInfo = dv.bundleInfo, nv.driverInfo \in {dv.driverInfo, NoDriver},
         nv.remote = dv.remote, nv.notifier = dv.notifier, nv.info = dv.info,
         nv.callers = dv.callers
  PROVE  /\ Coherent(d, dv, cs) => Coherent(d, nv, cs)
         /\ Answered(d, dv, cs) => Answered(d, nv, cs)
         /\ Launched(d, dv, cs) => Launched(d, nv, cs)
<1>1. Coherent(d, dv, cs) => Coherent(d, nv, cs)
  BY DEF Coherent
<1>2. Answered(d, dv, cs) => Answered(d, nv, cs)
  BY DEF Answered
<1>3. Alone(d, dv, cs) => Alone(d, nv, cs)
  BY DEF Alone, HasCaller
<1> QED
  BY <1>1, <1>2, <1>3 DEF Launched, Bound, Waits

\* A new connection is the only one that may not have reported before.
LEMMA NewConnReports ==
  ASSUME NEW d \in Devices, NEW cs \in GoodConns, NEW c \in Conns, cs[c] = FreeConn,
         NEW r \in Drivers
  PROVE  LET next == [cs EXCEPT ![c] = NewConn(d, r)]
         IN  /\ Reporting(d, next) = Reporting(d, cs) \cup {c}
             /\ next[c].phase = "connecting"
             /\ \A b \in Conns \ {c} : next[b] = cs[b]
             /\ Aside(d, cs, next) /\ KeepsOpen(cs, next)
<1> DEFINE next == [cs EXCEPT ![c] = NewConn(d, r)]
<1>1. next[c] = NewConn(d, r) /\ \A b \in Conns \ {c} : next[b] = cs[b]
  BY DEF GoodConns
<1>2. /\ NewConn(d, r).dev = d /\ NewConn(d, r).notifies
      /\ NewConn(d, r).phase = "connecting" /\ ~NewConn(d, r).closing
  BY DEF NewConn
<1> HIDE DEF next
<1>3. Reporting(d, next) = Reporting(d, cs) \cup {c}
  BY <1>1, <1>2 DEF Reporting
<1>4. Aside(d, cs, next)
  BY <1>1, <1>2, ConnFacts DEF Aside
<1>5. KeepsOpen(cs, next)
  BY <1>1, <1>2 DEF KeepsOpen
<1> QED
  BY <1>1, <1>2, <1>3, <1>4, <1>5 DEF next

\* The outcomes of ConnectDriverExtension.
LEMMA ConnectOutcomes ==
  ASSUME NEW d \in Devices, NEW dv \in DeviceRecords, NEW cs \in GoodConns,
         NEW o \in ConnectDriverExtension(d, dv, cs)
  PROVE  /\ o.dv \in DeviceRecords
         /\ o.dv.bundleInfo = dv.bundleInfo /\ o.dv.driverInfo = dv.driverInfo
         /\ o.dv.remote = dv.remote /\ o.dv.notifier = dv.notifier
         /\ o.dv.callers = dv.callers
         /\ Aside(d, cs, o.cs) /\ KeepsOpen(cs, o.cs)
         /\ \/ dv.info # NoConn /\ o.dv = dv /\ o.cs = cs /\ ~o.ok
            \/ o.dv.info = Dangling /\ o.cs = cs /\ ~o.ok
            \/ /\ dv.bundleInfo \in Drivers /\ o.ok
               /\ \E c \in Conns : /\ Reporting(d, o.cs) = Reporting(d, cs) \cup {c}
                                   /\ o.cs[c].phase = "connecting"
<1> DEFINE hung == [dv EXCEPT !.info = Dangling]
           opened(c) == [dv EXCEPT !.info = c]
           next(c) == [cs EXCEPT ![c] = NewConn(d, dv.bundleInfo)]
<1>1. /\ hung \in DeviceRecords /\ hung.info = Dangling
      /\ hung.bundleInfo = dv.bundleInfo /\ hung.driverInfo = dv.driverInfo
      /\ hung.remote = dv.remote /\ hung.notifier = dv.notifier
      /\ hung.callers = dv.callers
  BY DEF DeviceRecords
<1>2. \A c \in Conns :
        /\ opened(c) \in DeviceRecords
        /\ opened(c).bundleInfo = dv.bundleInfo /\ opened(c).driverInfo = dv.driverInfo
        /\ opened(c).remote = dv.remote /\ opened(c).notifier = dv.notifier
        /\ opened(c).callers = dv.callers
  BY DEF DeviceRecords
<1>3. Aside(d, cs, cs) /\ KeepsOpen(cs, cs)
  BY DEF Aside, KeepsOpen
<1>4. \/ dv.info # NoConn /\ o = Outcome(dv, cs, FALSE)
      \/ o = Outcome(hung, cs, FALSE)
      \/ /\ dv.bundleInfo \in Drivers
         /\ \E c \in NextConns(cs) : o = Outcome(opened(c), next(c), TRUE)
  BY DEF ConnectDriverExtension, IfFaulty, DeviceRecords
<1>5. CASE dv.info # NoConn /\ o = Outcome(dv, cs, FALSE)
  BY <1>3, <1>5 DEF Outcome
<1>6. CASE o = Outcome(hung, cs, FALSE)
  <2> HIDE DEF hung
  <2> QED
    BY <1>1, <1>3, <1>6 DEF Outcome
<1>7. ASSUME dv.bundleInfo \in Drivers, NEW c \in NextConns(cs),
             o = Outcome(opened(c), next(c), TRUE)
      PROVE  /\ o.dv = opened(c) /\ c \in Conns /\ o.ok
             /\ Aside(d, cs, o.cs) /\ KeepsOpen(cs, o.cs)
             /\ Reporting(d, o.cs) = Reporting(d, cs) \cup {c}
             /\ o.cs[c].phase = "connecting"
  <2>1. c \in Conns /\ cs[c] = FreeConn
    BY NextConnIsFree
  <2>2. o.dv = opened(c) /\ o.cs = next(c) /\ o.ok
    BY <1>7 DEF Outcome
  <2>3. /\ Reporting(d, next(c)) = Reporting(d, cs) \cup {c}
        /\ next(c)[c].phase = "connecting"
        /\ Aside(d, cs, next(c)) /\ KeepsOpen(cs, next(c))
    BY <1>7, <2>1, NewConnReports
  <2> HIDE DEF opened, next
  <2> QED
    BY <2>1, <2>2, <2>3
<1>8. CASE /\ dv.bundleInfo \in Drivers
           /\ \E c \in NextConns(cs) : o = Outcome(opened(c), next(c), TRUE)
  <2>1. PICK c \in NextConns(cs) : o = Outcome(opened(c), next(c), TRUE)
    BY <1>8
  <2>2. /\ o.dv = opened(c) /\ c \in Conns /\ o.ok
        /\ Aside(d, cs, o.cs) /\ KeepsOpen(cs, o.cs)
        /\ Reporting(d, o.cs) = Reporting(d, cs) \cup {c}
        /\ o.cs[c].phase = "connecting"
    BY <1>7, <1>8, <2>1
  <2> HIDE DEF opened, next
  <2>3. /\ o.dv \in DeviceRecords
        /\ o.dv.bundleInfo = dv.bundleInfo /\ o.dv.driverInfo = dv.driverInfo
        /\ o.dv.remote = dv.remote /\ o.dv.notifier = dv.notifier
        /\ o.dv.callers = dv.callers
    BY <1>2, <2>2
  <2> QED
    BY <1>8, <2>2, <2>3
<1> QED
  BY <1>4, <1>5, <1>6, <1>8

\* The ability manager refuses only a device without a driver, or a notifier
\* that is in use, unless it fails.
LEMMA ConnectSucceeds ==
  ASSUME ~Faults, NEW d, NEW dv \in DeviceRecords, NEW cs, dv.bundleInfo # NoDriver,
         NEW o \in ConnectDriverExtension(d, dv, cs)
  PROVE  (o.ok => o.dv.info # Dangling) /\ (dv.info = NoConn => o.ok)
<1>1. \/ dv.info # NoConn /\ o = Outcome(dv, cs, FALSE)
      \/ \E c \in NextConns(cs) :
           o = Outcome([dv EXCEPT !.info = c], [cs EXCEPT ![c] = NewConn(d, dv.bundleInfo)], TRUE)
  BY DEF ConnectDriverExtension, IfFaulty
<1>2. CASE dv.info # NoConn /\ o = Outcome(dv, cs, FALSE)
  BY <1>2 DEF Outcome
<1>3. ASSUME NEW c \in NextConns(cs),
             o = Outcome([dv EXCEPT !.info = c],
                         [cs EXCEPT ![c] = NewConn(d, dv.bundleInfo)], TRUE)
      PROVE  o.ok /\ o.dv.info # Dangling
  <2>1. c \in Conns
    BY DEF NextConns
  <2>2. o.ok /\ o.dv = [dv EXCEPT !.info = c]
    BY <1>3 DEF Outcome
  <2> QED
    BY <2>1, <2>2, ConnAssumption DEF Conns, Dangling, DeviceRecords
<1> QED
  BY <1>1, <1>2, <1>3

\* A connection that was opened or refused answers the callers that wait.
LEMMA ConnectServes ==
  ASSUME NEW d \in Devices, NEW dv \in DeviceRecords, NEW cs \in GoodConns,
         Coherent(d, dv, cs), dv.notifier, dv.info = NoConn \/ Answered(d, dv, cs),
         NEW o \in ConnectDriverExtension(d, dv, cs)
  PROVE  Served(d, o.dv, o.cs)
<1>1. /\ o.dv.bundleInfo = dv.bundleInfo /\ o.dv.driverInfo = dv.driverInfo
      /\ o.dv.callers = dv.callers
  BY ConnectOutcomes
<1>2. Coherent(d, o.dv, o.cs)
  <2>1. o.dv.notifier = dv.notifier
    BY ConnectOutcomes
  <2> QED
    BY <1>1, <2>1 DEF Coherent
<1>3. \/ dv.info # NoConn /\ o.dv = dv /\ o.cs = cs
      \/ o.dv.info = Dangling
      \/ \E c \in Conns : /\ Reporting(d, o.cs) = Reporting(d, cs) \cup {c}
                          /\ o.cs[c].phase = "connecting"
  BY ConnectOutcomes
<1>4. Answered(d, o.dv, o.cs)
  BY <1>3 DEF Answered
<1> QED
  BY <1>2, <1>4 DEF Served

LEMMA ConnectOnMatchServes ==
  ASSUME NEW d \in Devices, NEW dv \in DeviceRecords, NEW cs \in GoodConns,
         Own(d, dv, cs), Served(d, dv, cs), NEW o \in ConnectOnMatch(d, dv, cs)
  PROVE  /\ Served(d, o.dv, o.cs)
         /\ Aside(d, cs, o.cs) /\ KeepsOpen(cs, o.cs)
         /\ o.dv.bundleInfo = dv.bundleInfo
         /\ ~Faults /\ dv.bundleInfo # NoDriver => o.dv.info # Dangling
<1> DEFINE noted == AddDrvExtConnNotify(dv)
           dropped(p) == [p.dv EXCEPT !.remote = FALSE, !.info = NoConn]
           first == ConnectDriverExtension(d, noted, cs)
           Retry(p) == ConnectDriverExtension(d, dropped(p), p.cs)
<1>1. /\ noted \in DeviceRecords /\ noted.notifier
      /\ noted.bundleInfo = dv.bundleInfo /\ noted.driverInfo = dv.driverInfo
      /\ noted.remote = dv.remote /\ noted.info = dv.info
      /\ noted.callers = dv.callers
  BY DEF AddDrvExtConnNotify, DeviceRecords
<1>2. Coherent(d, noted, cs) /\ Answered(d, noted, cs) /\ Own(d, noted, cs)
  BY <1>1 DEF Served, Coherent, Answered, Own
<1> HIDE DEF noted
<1>3. ASSUME NEW p \in first
      PROVE  /\ p.dv \in DeviceRecords /\ p.cs \in GoodConns
             /\ p.dv.notifier /\ p.dv.bundleInfo = dv.bundleInfo
             /\ Served(d, p.dv, p.cs)
             /\ Aside(d, cs, p.cs) /\ KeepsOpen(cs, p.cs)
             /\ ~Faults /\ dv.bundleInfo # NoDriver /\ p.ok => p.dv.info # Dangling
  <2>1. Kept(d, noted, cs, p)
    BY <1>1, <1>2, ConnectDriverExtensionKeeps
  <2>2. /\ p.dv.notifier /\ p.dv.bundleInfo = dv.bundleInfo
        /\ Aside(d, cs, p.cs) /\ KeepsOpen(cs, p.cs)
    BY <1>1, ConnectOutcomes
  <2>3. Served(d, p.dv, p.cs)
    BY <1>1, <1>2, ConnectServes
  <2>4. ~Faults /\ dv.bundleInfo # NoDriver /\ p.ok => p.dv.info # Dangling
    BY <1>1, ConnectSucceeds
  <2> QED
    BY <2>1, <2>2, <2>3, <2>4 DEF Kept
<1>4. ASSUME NEW p \in first, NEW q \in Retry(p)
      PROVE  /\ Served(d, q.dv, q.cs)
             /\ Aside(d, cs, q.cs) /\ KeepsOpen(cs, q.cs)
             /\ q.dv.bundleInfo = dv.bundleInfo
             /\ ~Faults /\ dv.bundleInfo # NoDriver => q.dv.info # Dangling
  <2>1. /\ p.dv \in DeviceRecords /\ p.cs \in GoodConns
        /\ p.dv.notifier /\ p.dv.bundleInfo = dv.bundleInfo
        /\ Served(d, p.dv, p.cs)
        /\ Aside(d, cs, p.cs) /\ KeepsOpen(cs, p.cs)
    BY <1>3
  <2>2. /\ dropped(p) \in DeviceRecords /\ dropped(p).notifier
        /\ dropped(p).bundleInfo = dv.bundleInfo
        /\ dropped(p).driverInfo = p.dv.driverInfo /\ dropped(p).info = NoConn
    BY <2>1 DEF DeviceRecords
  <2>3. Coherent(d, dropped(p), p.cs)
    BY <2>1, <2>2 DEF Served, Coherent
  <2> HIDE DEF dropped
  <2>4. Served(d, q.dv, q.cs)
    BY <2>1, <2>2, <2>3, ConnectServes
  <2>5. /\ Aside(d, p.cs, q.cs) /\ KeepsOpen(p.cs, q.cs)
        /\ q.dv.bundleInfo = dv.bundleInfo
    BY <2>1, <2>2, ConnectOutcomes
  <2>6. Aside(d, cs, q.cs) /\ KeepsOpen(cs, q.cs)
    BY <2>1, <2>5 DEF Aside, KeepsOpen
  <2>7. ~Faults /\ dv.bundleInfo # NoDriver => q.dv.info # Dangling
    BY <2>2, ConnectSucceeds
  <2> QED
    BY <2>4, <2>5, <2>6, <2>7
<1>5. (o \in first /\ o.ok) \/ \E p \in first : o \in Retry(p)
  BY DEF ConnectOnMatch, noted
<1> HIDE DEF first, Retry
<1> QED
  BY <1>3, <1>4, <1>5

\* The notifier of d is gone: nothing reports to d.
LEMMA OrphanedReports ==
  ASSUME NEW d \in Devices, NEW cs \in GoodConns
  PROVE  /\ Reporting(d, Orphaned(cs, d)) = {}
         /\ Aside(d, cs, Orphaned(cs, d)) /\ KeepsOpen(cs, Orphaned(cs, d))
<1>1. \A c \in Conns : /\ Orphaned(cs, d)[c].dev = cs[c].dev
                       /\ Orphaned(cs, d)[c].closing = cs[c].closing
                       /\ cs[c].dev = d => ~Orphaned(cs, d)[c].notifies
                       /\ cs[c].dev # d => Orphaned(cs, d)[c] = cs[c]
  BY DEF Orphaned, GoodConns, Connections
<1> QED
  BY <1>1 DEF Reporting, Aside, KeepsOpen

\* A caller is forgotten, or its callback: nothing else changes.
LEMMA CallerLost ==
  ASSUME NEW d \in Devices, NEW dv \in DeviceRecords, NEW cs, NEW cl \in Clients
  PROVE  LET nv == RemoveCaller(dv, cl)
         IN  /\ nv.bundleInfo = dv.bundleInfo /\ nv.remote = dv.remote /\ nv.info = dv.info
             /\ \A c \in Clients : nv.callers[c] = IF c = cl THEN "none" ELSE dv.callers[c]
             /\ Served(d, dv, cs) => Served(d, nv, cs)
             /\ Bound(nv) => Bound(dv)
<1> DEFINE nv == RemoveCaller(dv, cl)
<1>1. /\ nv.bundleInfo = dv.bundleInfo /\ nv.driverInfo = dv.driverInfo
      /\ nv.remote = dv.remote /\ nv.notifier = dv.notifier /\ nv.info = dv.info
      /\ nv.callers = [dv.callers EXCEPT ![cl] = "none"]
  BY DEF RemoveCaller, DeviceRecords
<1>2. \A c \in Clients : nv.callers[c] = IF c = cl THEN "none" ELSE dv.callers[c]
  BY <1>1 DEF DeviceRecords
<1> HIDE DEF nv
<1>3. Coherent(d, dv, cs) => Coherent(d, nv, cs)
  BY <1>1 DEF Coherent
<1>4. Answered(d, dv, cs) => Answered(d, nv, cs)
  BY <1>1, <1>2 DEF Answered
<1>5. Bound(nv) => Bound(dv)
  BY <1>2 DEF Bound
<1> QED
  BY <1>1, <1>2, <1>3, <1>4, <1>5 DEF Served, nv

LEMMA CallbackServes ==
  ASSUME NEW d \in Devices, NEW dv \in DeviceRecords, NEW cs, NEW cl \in Clients
  PROVE  LET nv == UnregisterDrvExtMgrCallback(dv, cl)
         IN  /\ Served(d, dv, cs) => Served(d, nv, cs)
             /\ Launched(d, dv, cs) => Launched(d, nv, cs)
             /\ nv.bundleInfo = dv.bundleInfo /\ nv.remote = dv.remote
             /\ nv.callers = dv.callers
<1> DEFINE nv == UnregisterDrvExtMgrCallback(dv, cl)
<1>1. /\ nv.bundleInfo = dv.bundleInfo /\ nv.driverInfo = dv.driverInfo
      /\ nv.remote = dv.remote /\ nv.notifier = dv.notifier /\ nv.info = dv.info
      /\ nv.callers = dv.callers
  BY DEF UnregisterDrvExtMgrCallback, DeviceRecords
<1> HIDE DEF nv
<1>2. /\ Coherent(d, dv, cs) => Coherent(d, nv, cs)
      /\ Answered(d, dv, cs) => Answered(d, nv, cs)
      /\ Launched(d, dv, cs) => Launched(d, nv, cs)
  BY <1>1, SameService
<1> QED
  BY <1>1, <1>2 DEF Served, nv

\* The Device object during a bind: the callback is stored; the client is
\* told; it waits for a connection; the connection was refused.
Stored(dv, cl) == [dv EXCEPT !.callbacks = CallbackInsert(@, cl)]
Told(dv, cl)   == [dv EXCEPT !.callers[cl] = "bound"]
Asking(dv, cl) == [UpdateDrvExtConnNotify(dv) EXCEPT !.callers[cl] = "pending"]
Undone(dv, cl) == RemoveCaller(UnregisterDrvExtMgrCallback(dv, cl), cl)

\* A bind that opens a connection: the only one, and somebody waits for it.
LEMMA BindOpens ==
  ASSUME NEW d \in Devices, NEW dv \in DeviceRecords, NEW cs \in GoodConns,
         Served(d, dv, cs), ~dv.remote, NEW cl \in Clients,
         NEW q \in ConnectDriverExtension(d, Asking(dv, cl), Orphaned(cs, d))
  PROVE  /\ q.dv \in DeviceRecords /\ ~q.dv.remote
         /\ Served(d, q.dv, q.cs)
         /\ q.ok /\ Launched(d, dv, cs) => Launched(d, q.dv, q.cs)
         /\ Aside(d, cs, q.cs) /\ KeepsOpen(cs, q.cs)
         /\ ~q.ok => Reporting(d, q.cs) = {}
         /\ ~Faults /\ dv.bundleInfo # NoDriver => q.ok
         /\ \A c \in Clients \ {cl} : q.dv.callers[c] = dv.callers[c]
         /\ NoneFails /\ Launched(d, dv, cs) => ~Bound(q.dv)
<1> DEFINE noted == Asking(dv, cl)
           gone == Orphaned(cs, d)
<1>1. /\ gone \in GoodConns /\ noted \in DeviceRecords /\ noted.notifier
  <2>1. Kept(d, dv, cs, Outcome(noted, gone, TRUE)) /\ noted.notifier
    BY NewNotifierKeeps DEF Asking
  <2> QED
    BY <2>1 DEF Kept, Outcome
<1>2. /\ noted.bundleInfo = dv.bundleInfo /\ noted.driverInfo = dv.driverInfo
      /\ noted.info = NoConn
      /\ noted.callers = [dv.callers EXCEPT ![cl] = "pending"]
  BY DEF Asking, UpdateDrvExtConnNotify, DeviceRecords
<1>3. ~noted.remote
  BY DEF Asking, UpdateDrvExtConnNotify, DeviceRecords
<1>4. \A c \in Clients : noted.callers[c] = IF c = cl THEN "pending" ELSE dv.callers[c]
  BY <1>2 DEF DeviceRecords
<1>5. /\ Reporting(d, gone) = {}
      /\ Aside(d, cs, gone) /\ KeepsOpen(cs, gone)
  BY OrphanedReports
<1> HIDE DEF noted, gone
<1>6. Coherent(d, noted, gone)
  BY <1>2, <1>5 DEF Served, Coherent
<1>7. q \in ConnectDriverExtension(d, noted, gone)
  BY DEF noted, gone
<1>8. Served(d, q.dv, q.cs)
  BY <1>1, <1>2, <1>6, <1>7, ConnectServes
<1>9. /\ q.dv \in DeviceRecords /\ q.dv.bundleInfo = dv.bundleInfo
      /\ q.dv.callers = noted.callers
      /\ Aside(d, gone, q.cs) /\ KeepsOpen(gone, q.cs)
  BY <1>1, <1>2, <1>7, ConnectOutcomes
<1>10. ~q.dv.remote
  BY <1>1, <1>3, <1>7, ConnectOutcomes
<1>11. \/ ~q.ok /\ q.cs = gone
       \/ /\ dv.bundleInfo \in Drivers /\ q.ok
          /\ \E c \in Conns : Reporting(d, q.cs) = {c}
  <2>1. \/ q.cs = gone /\ ~q.ok
        \/ /\ noted.bundleInfo \in Drivers /\ q.ok
           /\ \E c \in Conns : Reporting(d, q.cs) = Reporting(d, gone) \cup {c}
    BY <1>1, <1>7, ConnectOutcomes
  <2> QED
    BY <1>2, <1>5, <2>1
<1>12. NoneFails /\ Launched(d, dv, cs) => ~Bound(q.dv)
  BY <1>4, <1>9 DEF Launched, Bound
<1>13. HasCaller(q.dv)
  BY <1>4, <1>9 DEF HasCaller
<1>14. ~Faults /\ dv.bundleInfo # NoDriver => q.ok /\ q.dv.info # Dangling
  BY <1>1, <1>2, <1>7, ConnectSucceeds
<1>15. q.ok /\ Launched(d, dv, cs) => Launched(d, q.dv, q.cs)
  BY <1>5, <1>9, <1>10, <1>11, <1>12, <1>13, <1>14, DriverAssumption DEF Launched, Alone
<1>16. Aside(d, cs, q.cs) /\ KeepsOpen(cs, q.cs)
  BY <1>5, <1>9 DEF Aside, KeepsOpen
<1> QED
  BY <1>4, <1>5, <1>8, <1>9, <1>10, <1>11, <1>12, <1>14, <1>15, <1>16

\* A bind tells the client at once, or asks for a connection; a connection that
\* is refused is undone.
LEMMA BindOutcomes ==
  ASSUME NEW d, NEW dv, NEW cs, NEW cl, NEW o \in ConnectForClient(d, dv, cs, cl)
  PROVE  \/ o.dv = Stored(dv, cl) /\ o.cs = cs
         \/ dv.remote /\ o.dv = Told(Stored(dv, cl), cl) /\ o.cs = cs
         \/ /\ ~dv.remote
            /\ \E q \in ConnectDriverExtension(d, Asking(Stored(dv, cl), cl), Orphaned(cs, d)) :
                 (q.ok /\ o = q) \/ (~q.ok /\ o.dv = Undone(q.dv, cl) /\ o.cs = q.cs)
<1>1. PICK p \in RegisterDrvExtMgrCallback(dv, cs, cl) :
        \/ o = p
        \/ dv.remote /\ o = Outcome([p.dv EXCEPT !.callers[cl] = "bound"], p.cs, TRUE)
        \/ /\ ~dv.remote
           /\ \E q \in ConnectDriverExtension(d, Asking(p.dv, cl), Orphaned(p.cs, d)) :
                (q.ok /\ o = q) \/ (~q.ok /\ o = Outcome(Undone(q.dv, cl), q.cs, FALSE))
  BY DEF ConnectForClient, Asking, Undone
<1>2. p.dv = Stored(dv, cl) /\ p.cs = cs
  BY DEF RegisterDrvExtMgrCallback, IfFaulty, Outcome, Stored
<1> QED
  BY <1>1, <1>2 DEF Outcome, Told

LEMMA ConnectForClientServes ==
  ASSUME NEW d \in Devices, NEW dv \in DeviceRecords, NEW cs \in GoodConns,
         Own(d, dv, cs), Served(d, dv, cs), NEW cl \in Clients,
         NEW o \in ConnectForClient(d, dv, cs, cl)
  PROVE  /\ Served(d, o.dv, o.cs)
         /\ Launched(d, dv, cs) => Launched(d, o.dv, o.cs)
         /\ Aside(d, cs, o.cs) /\ KeepsOpen(cs, o.cs)
<1> DEFINE reg == Stored(dv, cl)
           told == Told(reg, cl)
           asked == ConnectDriverExtension(d, Asking(reg, cl), Orphaned(cs, d))
<1>1. \/ o.dv = reg /\ o.cs = cs
      \/ dv.remote /\ o.dv = told /\ o.cs = cs
      \/ /\ ~dv.remote
         /\ \E q \in asked : \/ q.ok /\ o = q
                             \/ ~q.ok /\ o.dv = Undone(q.dv, cl) /\ o.cs = q.cs
  BY BindOutcomes
<1>2. /\ reg \in DeviceRecords
      /\ reg.bundleInfo = dv.bundleInfo /\ reg.driverInfo = dv.driverInfo
      /\ reg.remote = dv.remote /\ reg.notifier = dv.notifier /\ reg.info = dv.info
      /\ reg.callers = dv.callers
  BY CallbackTypes DEF Stored, DeviceRecords
<1> HIDE DEF reg
<1>3. /\ Served(d, reg, cs) /\ (Launched(d, dv, cs) => Launched(d, reg, cs))
      /\ Aside(d, cs, cs) /\ KeepsOpen(cs, cs)
  BY <1>2, SameService DEF Served, Aside, KeepsOpen
<1>4. CASE o.dv = reg /\ o.cs = cs
  BY <1>3, <1>4
<1>5. CASE dv.remote /\ o.dv = told /\ o.cs = cs
  <2>1. /\ told.bundleInfo = reg.bundleInfo /\ told.driverInfo = reg.driverInfo
        /\ told.remote = reg.remote /\ told.notifier = reg.notifier
        /\ told.info = reg.info
        /\ told.callers = [reg.callers EXCEPT ![cl] = "bound"]
    BY <1>2 DEF Told, DeviceRecords
  <2>2. \A c \in Clients : told.callers[c] = IF c = cl THEN "bound" ELSE reg.callers[c]
    BY <1>2, <2>1 DEF DeviceRecords
  <2> HIDE DEF told
  <2>3. Served(d, told, cs)
    BY <1>3, <2>1, <2>2 DEF Served, Coherent, Answered
  <2>4. told.remote
    BY <1>2, <1>5, <2>1
  <2>5. HasCaller(told)
    BY <2>2 DEF HasCaller
  <2>6. Waits(told) => Waits(reg)
    BY <2>2 DEF Waits
  <2>7. Launched(d, reg, cs) => Launched(d, told, cs)
    BY <2>1, <2>4, <2>5, <2>6 DEF Launched, Alone
  <2> QED
    BY <1>3, <1>5, <2>3, <2>7
<1>6. ASSUME ~dv.remote, NEW q \in asked,
             (q.ok /\ o = q) \/ (~q.ok /\ o.dv = Undone(q.dv, cl) /\ o.cs = q.cs)
      PROVE  /\ Served(d, o.dv, o.cs)
             /\ Launched(d, dv, cs) => Launched(d, o.dv, o.cs)
             /\ Aside(d, cs, o.cs) /\ KeepsOpen(cs, o.cs)
  <2>1. ~reg.remote
    BY <1>2, <1>6
  <2>2. /\ q.dv \in DeviceRecords /\ ~q.dv.remote
        /\ Served(d, q.dv, q.cs)
        /\ q.ok /\ Launched(d, reg, cs) => Launched(d, q.dv, q.cs)
        /\ Aside(d, cs, q.cs) /\ KeepsOpen(cs, q.cs)
        /\ ~q.ok => Reporting(d, q.cs) = {}
        /\ ~Faults /\ reg.bundleInfo # NoDriver => q.ok
        /\ \A c \in Clients \ {cl} : q.dv.callers[c] = reg.callers[c]
        /\ NoneFails /\ Launched(d, reg, cs) => ~Bound(q.dv)
    BY <1>2, <1>3, <1>6, <2>1, BindOpens
  <2>3. CASE q.ok /\ o = q
    BY <1>3, <2>2, <2>3
  <2>4. CASE ~q.ok /\ o.dv = Undone(q.dv, cl) /\ o.cs = q.cs
    <3> DEFINE cut == UnregisterDrvExtMgrCallback(q.dv, cl)
    <3>1. cut \in DeviceRecords
      BY <2>2, CallbackTypes
    <3>2. Served(d, cut, q.cs) /\ ~cut.remote /\ cut.callers = q.dv.callers
      BY <2>2, CallbackServes
    <3>3. o.dv = RemoveCaller(cut, cl)
      BY <2>4 DEF Undone
    <3> HIDE DEF cut
    <3>4. Served(d, o.dv, q.cs) /\ (Bound(o.dv) => Bound(cut))
      BY <3>1, <3>2, <3>3, CallerLost
    <3>5. ~o.dv.remote
      BY <3>1, <3>2, <3>3, CallerLost
    <3>6. Waits(o.dv) => Waits(reg)
      BY <2>2, <3>1, <3>2, <3>3, CallerLost DEF Waits
    <3>7. Launched(d, reg, cs) => (~Faults => ~Waits(o.dv))
      BY <2>2, <2>4, <3>6 DEF Launched
    <3>8. Launched(d, dv, cs) => Launched(d, o.dv, q.cs)
      BY <1>3, <2>2, <2>4, <3>2, <3>4, <3>5, <3>7 DEF Launched, Alone, Bound
    <3> QED
      BY <2>2, <2>4, <3>4, <3>8
  <2> QED
    BY <1>6, <2>3, <2>4
<1> HIDE DEF asked
<1> QED
  BY <1>1, <1>4, <1>5, <1>6

\* Only who reports, and how far its connection is, matters.
LEMMA SameReports ==
  ASSUME NEW d, NEW dv, NEW cs, NEW next,
         Reporting(d, next) = Reporting(d, cs),
         \A c \in Reporting(d, cs) : next[c].phase = cs[c].phase
  PROVE  /\ Served(d, dv, cs) => Served(d, dv, next)
         /\ Launched(d, dv, cs) => Launched(d, dv, next)
BY DEF Served, Coherent, Answered, Launched, Alone

\* Disconnect asks for the end of a connection and changes nothing else.
LEMMA DisconnectServes ==
  ASSUME NEW d \in Devices, NEW dv \in DeviceRecords, NEW cs \in GoodConns,
         Own(d, dv, cs), NEW o \in Disconnect(dv, cs)
  PROVE  /\ o.dv = dv /\ Aside(d, cs, o.cs)
         /\ Served(d, dv, cs) => Served(d, dv, o.cs)
         /\ Launched(d, dv, cs) => Launched(d, dv, o.cs)
         /\ \A c \in Conns : ~cs[c].closing /\ o.cs[c].closing => cs[c].dev = d
<1>1. \/ o.dv = dv /\ o.cs = cs
      \/ /\ dv.info \in Conns /\ o.dv = dv
         /\ o.cs = [cs EXCEPT ![dv.info].closing = TRUE]
  BY DEF Disconnect, DisconnectDriverExtension, IfFaulty, Outcome
<1>2. CASE o.dv = dv /\ o.cs = cs
  BY <1>2 DEF Aside
<1>3. CASE /\ dv.info \in Conns /\ o.dv = dv
           /\ o.cs = [cs EXCEPT ![dv.info].closing = TRUE]
  <2>1. /\ cs[dv.info].dev = d /\ cs[dv.info] \in Connections
        /\ \A c \in Conns \ {dv.info} : o.cs[c] = cs[c]
    BY <1>3 DEF Own, GoodConns
  <2>2. /\ o.cs[dv.info].dev = d /\ o.cs[dv.info].phase = cs[dv.info].phase
        /\ o.cs[dv.info].notifies = cs[dv.info].notifies
    BY <1>3, <2>1 DEF GoodConns, Connections
  <2>3. Reporting(d, o.cs) = Reporting(d, cs)
    BY <2>1, <2>2 DEF Reporting
  <2>4. \A c \in Reporting(d, cs) : o.cs[c].phase = cs[c].phase
    BY <2>1, <2>2 DEF Reporting
  <2>5. Aside(d, cs, o.cs)
    BY <2>1, <2>2 DEF Aside
  <2> QED
    BY <1>3, <2>1, <2>3, <2>4, <2>5, SameReports
<1> QED
  BY <1>1, <1>2, <1>3

\* A device that is erased, or has not been seen.
LEMMA ErasedServes ==
  ASSUME NEW d, NEW cs, Reporting(d, cs) = {}
  PROVE  Served(d, FreshDevice, cs) /\ Launched(d, FreshDevice, cs)
<1>1. /\ FreshDevice.bundleInfo = NoDriver /\ FreshDevice.driverInfo = NoDriver
      /\ ~FreshDevice.remote
      /\ \A cl \in Clients : FreshDevice.callers[cl] = "none"
  BY DEF FreshDevice, NoCallers
<1> QED
  BY <1>1, DriverAssumption, DriverSets
     DEF Served, Coherent, Answered, Launched, Alone, Bound, Waits

\* A device that is given a driver.
LEMMA AddBundleInfoServes ==
  ASSUME NEW d, NEW dv \in DeviceRecords, NEW cs, Served(d, dv, cs), NEW row \in DriverRows
  PROVE  LET nv == AddBundleInfo(dv, row)
         IN  /\ Served(d, nv, cs) /\ nv.bundleInfo = row.drv
             /\ Launched(d, dv, cs) /\ dv.bundleInfo \in {NoDriver, row.drv} =>
                  Launched(d, nv, cs)
<1> DEFINE nv == AddBundleInfo(dv, row)
<1>1. /\ nv.bundleInfo = row.drv /\ nv.driverInfo = row
      /\ nv.remote = dv.remote /\ nv.notifier = dv.notifier /\ nv.info = dv.info
      /\ nv.callers = dv.callers
  BY DEF AddBundleInfo, DeviceRecords
<1> HIDE DEF nv
<1>2. Served(d, nv, cs)
  BY <1>1 DEF Served, Coherent, Answered
<1>3. CASE dv.bundleInfo = row.drv
  <2>1. Alone(d, dv, cs) => Alone(d, nv, cs)
    BY <1>1 DEF Alone, HasCaller
  <2> QED
    BY <1>1, <1>2, <1>3, <2>1, DriverAssumption DEF Launched, Bound, Waits, nv
<1>4. CASE dv.bundleInfo = NoDriver
  <2>1. Launched(d, dv, cs) => ~nv.remote /\ Reporting(d, cs) = {}
    BY <1>1, <1>4 DEF Launched
  <2>2. Launched(d, dv, cs) => Alone(d, nv, cs)
    BY <2>1 DEF Alone
  <2> QED
    BY <1>1, <1>2, <1>4, <2>1, <2>2 DEF Launched, Bound, Waits, nv
<1> QED
  BY <1>1, <1>2, <1>3, <1>4 DEF nv

\* A device that is reset: a driver in use is lost with its callers.
LEMMA ResetServes ==
  ASSUME NEW d, NEW dv \in DeviceRecords, NEW cs, Served(d, dv, cs)
  PROVE  LET nv == RemoveDriverInfo(ClearDrvExtRemote(RemoveBundleInfo(dv)))
         IN  /\ Served(d, nv, cs)
             /\ Launched(d, dv, cs) /\ (dv.bundleInfo # NoDriver => nv = FreshDevice) =>
                  Launched(d, nv, cs)
<1> DEFINE nv == RemoveDriverInfo(ClearDrvExtRemote(RemoveBundleInfo(dv)))
<1>1. /\ nv.bundleInfo = NoDriver /\ nv.driverInfo = NoDriver
      /\ nv.notifier = dv.notifier /\ nv.info = dv.info
      /\ nv.callers = dv.callers
  BY DEF RemoveDriverInfo, ClearDrvExtRemote, RemoveBundleInfo, DeviceRecords
<1>2. ~nv.remote
  BY DEF RemoveDriverInfo, ClearDrvExtRemote, RemoveBundleInfo, DeviceRecords
<1> HIDE DEF nv
<1>3. Served(d, nv, cs)
  BY <1>1 DEF Served, Coherent, Answered
<1>4. ASSUME Launched(d, dv, cs), nv = FreshDevice
      PROVE  Launched(d, nv, cs)
  <2>1. ~nv.notifier
    BY <1>4 DEF FreshDevice
  <2>2. Reporting(d, cs) = {}
    BY <1>1, <2>1 DEF Served, Coherent
  <2> QED
    BY <1>4, <2>2, ErasedServes
<1>5. ASSUME Launched(d, dv, cs), dv.bundleInfo = NoDriver
      PROVE  Launched(d, nv, cs)
  <2>1. ~dv.remote /\ Reporting(d, cs) = {}
    BY <1>5 DEF Launched
  <2>2. (NoneFails => ~Bound(nv)) /\ (~Faults => ~Waits(nv))
    BY <1>1, <1>5, <2>1 DEF Launched, Bound, Waits
  <2> QED
    BY <1>1, <1>2, <2>1, <2>2, DriverAssumption, DriverSets DEF Launched
<1> QED
  BY <1>3, <1>4, <1>5 DEF nv

\* A matched device: its driver is connected unless it is launched on bind.
LEMMA ConnectMatchedServes ==
  ASSUME NEW d \in Devices, NEW dv \in DeviceRecords, NEW cs \in GoodConns,
         dv.bundleInfo \in Drivers, Own(d, dv, cs), Served(d, dv, cs),
         NEW o \in ConnectMatched(d, dv, cs)
  PROVE  /\ Served(d, o.dv, o.cs) /\ o.dv.bundleInfo = dv.bundleInfo
         /\ Launched(d, dv, cs) => Launched(d, o.dv, o.cs)
         /\ Aside(d, cs, o.cs) /\ KeepsOpen(cs, o.cs)
<1>1. \/ o.dv = dv /\ o.cs = cs
      \/ /\ dv.driverInfo # NoDriver /\ dv.driverInfo.drv \notin LaunchOnBind
         /\ o \in ConnectOnMatch(d, dv, cs)
  BY DEF ConnectMatched, Outcome
<1>2. CASE o.dv = dv /\ o.cs = cs
  BY <1>2 DEF Aside, KeepsOpen
<1>3. CASE /\ dv.driverInfo # NoDriver /\ dv.driverInfo.drv \notin LaunchOnBind
           /\ o \in ConnectOnMatch(d, dv, cs)
  <2>1. dv.bundleInfo \notin LaunchOnBind
    BY <1>3 DEF Served, Coherent
  <2>2. /\ Served(d, o.dv, o.cs) /\ o.dv.bundleInfo = dv.bundleInfo
        /\ Aside(d, cs, o.cs) /\ KeepsOpen(cs, o.cs)
    BY <1>3, ConnectOnMatchServes
  <2>3. ~Faults => o.dv.info # Dangling
    BY <1>3, DriverAssumption, ConnectOnMatchServes
  <2>4. Launched(d, o.dv, o.cs)
    BY <2>1, <2>2, <2>3, DriverAssumption DEF Launched, NoneFails
  <2> QED
    BY <2>2, <2>4
<1> QED
  BY <1>1, <1>2, <1>3

-----------------------------------------------------------------------------
(***************************************************************************)
(* The actions.                                                            *)
(***************************************************************************)
\* A step on one device, which leaves the others' connections alone (cs), up
\* to the stop of a driver.
LEMMA OneStopped ==
  ASSUME AllServed, device \in [Devices -> DeviceRecords], NEW d \in Devices, NEW nv,
         device' = [device EXCEPT ![d] = nv],
         NEW cs, Aside(d, conn, cs), Served(d, nv, cs),
         Launched(d, device[d], conn) /\ DriversStay => Launched(d, nv, cs),
         \A c \in Conns : SameButClosing(cs[c], conn'[c]),
         Stops
  PROVE  Carried
<1>1. device'[d] = nv /\ \A e \in Devices \ {d} : device'[e] = device[e]
  OBVIOUS
<1>2. ASSUME NEW e \in Devices \ {d}
      PROVE  /\ Served(e, device'[e], conn')
             /\ Launched(e, device[e], conn) => Launched(e, device'[e], conn')
  <2>1. e # NoDevice /\ e # d
    BY DeviceAssumption
  <2>2. Reporting(e, conn') = Reporting(e, conn)
    BY <2>1 DEF Reporting, Aside, SameButClosing
  <2>3. \A c \in Reporting(e, conn) : conn'[c].phase = conn[c].phase
    BY <2>1 DEF Reporting, Aside, SameButClosing
  <2>4. Served(e, device[e], conn)
    BY DEF AllServed
  <2> QED
    BY <1>1, <2>2, <2>3, <2>4, SameReports
<1>3. /\ Served(d, nv, conn')
      /\ Launched(d, nv, cs) => Launched(d, nv, conn')
  BY SameReports DEF Reporting, SameButClosing
<1>4. AllServed'
  BY <1>1, <1>2, <1>3 DEF AllServed
<1>5. AllLaunched /\ DriversStay => AllLaunched'
  BY <1>1, <1>2, <1>3 DEF AllLaunched
<1> QED
  BY <1>4, <1>5 DEF Carried

\* The same without a stop.
LEMMA OneCarried ==
  ASSUME AllServed, device \in [Devices -> DeviceRecords], NEW d \in Devices, NEW nv,
         device' = [device EXCEPT ![d] = nv], Aside(d, conn, conn'),
         Served(d, nv, conn'),
         Launched(d, device[d], conn) /\ DriversStay => Launched(d, nv, conn'),
         Stops
  PROVE  Carried
<1>1. \A c \in Conns : SameButClosing(conn'[c], conn'[c])
  BY DEF SameButClosing
<1> QED
  BY <1>1, OneStopped

\* A step on no device, in which only connections change that report to none.
LEMMA QuietCarried ==
  ASSUME AllServed, UNCHANGED device,
         \A e \in Devices : /\ Reporting(e, conn') = Reporting(e, conn)
                            /\ \A c \in Reporting(e, conn) : conn'[c].phase = conn[c].phase,
         KeepsOpen(conn, conn')
  PROVE  Carried
<1>1. Stops
  BY DEF KeepsOpen, Stops
<1>2. AllServed'
  BY SameReports DEF AllServed
<1>3. AllLaunched => AllLaunched'
  BY SameReports DEF AllLaunched
<1> QED
  BY <1>1, <1>2, <1>3 DEF Carried

\* A step that changes neither the devices nor their connections.
LEMMA SameCarried ==
  ASSUME AllServed, UNCHANGED <<device, conn>>
  PROVE  Carried
<1>1. KeepsOpen(conn, conn')
  BY DEF KeepsOpen
<1>2. \A e \in Devices : /\ Reporting(e, conn') = Reporting(e, conn)
                         /\ \A c \in Reporting(e, conn) : conn'[c].phase = conn[c].phase
  OBVIOUS
<1> QED
  BY <1>1, <1>2, QuietCarried

\* What the lemmas about an operator assume of device d.
LEMMA ServedFacts ==
  ASSUME IInv, AllServed, NEW d \in Devices
  PROVE  /\ device \in [Devices -> DeviceRecords]
         /\ device[d] \in DeviceRecords /\ conn \in GoodConns
         /\ Own(d, device[d], conn) /\ Served(d, device[d], conn)
         /\ Aside(d, conn, conn) /\ KeepsOpen(conn, conn)
BY DEF IInv, AllGood, AllServed, Aside, KeepsOpen

LEMMA OpenStops ==
  ASSUME KeepsOpen(conn, conn')
  PROVE  Stops
BY DEF KeepsOpen, Stops

LEMMA BindCarried ==
  ASSUME IInv, AllServed, NEW d \in Devices, NEW cl \in Clients, BindResult(d, cl)
  PROVE  Carried
<1>1. PICK o \in ConnectForClient(d, device[d], conn, cl) :
        device' = [device EXCEPT ![d] = o.dv] /\ conn' = o.cs
  BY DEF BindResult
<1>2. /\ Served(d, o.dv, o.cs)
      /\ Launched(d, device[d], conn) => Launched(d, o.dv, o.cs)
      /\ Aside(d, conn, o.cs) /\ KeepsOpen(conn, o.cs)
  BY ServedFacts, ConnectForClientServes
<1>3. Stops
  BY <1>1, <1>2, OpenStops
<1> QED
  BY <1>1, <1>2, <1>3, ServedFacts, OneCarried

\* More than one caller: another one is left.
LEMMA AnotherCaller ==
  ASSUME NEW dv, NEW cl \in Clients, ~IsLastCaller(dv, cl), HasCaller(dv)
  PROVE  \E c \in Clients : c # cl /\ dv.callers[c] # "none"
<1> DEFINE S == {c \in Clients : IsBindCaller(dv, c)}
<1>1. CASE ~IsBindCaller(dv, cl)
  BY <1>1 DEF IsBindCaller, HasCaller
<1>2. CASE IsBindCaller(dv, cl)
  <2>1. ~(Cardinality(S) <= 1)
    BY <1>2 DEF IsLastCaller, CallerCount
  <2>2. S # {cl}
    BY <2>1, FS_Singleton
  <2>3. cl \in S
    BY <1>2
  <2> QED
    BY <2>2, <2>3 DEF IsBindCaller
<1> QED
  BY <1>1, <1>2

LEMMA UnbindCarried ==
  ASSUME IInv, AllServed, NEW d \in Devices, NEW cl \in Clients, UnbindResult(d, cl)
  PROVE  Carried
<1>1. CASE /\ \/ device[d].driverInfo.drv \notin LaunchOnBind
              \/ ~IsLastCaller(device[d], cl)
           /\ device' = [device EXCEPT ![d] = RemoveCaller(@, cl)]
           /\ UNCHANGED conn
  <2> DEFINE dv == device[d]
             nv == RemoveCaller(dv, cl)
  <2>1. /\ dv \in DeviceRecords /\ Served(d, dv, conn)
        /\ Aside(d, conn, conn) /\ KeepsOpen(conn, conn)
        /\ device \in [Devices -> DeviceRecords]
    BY ServedFacts
  <2>2. /\ nv.bundleInfo = dv.bundleInfo /\ nv.remote = dv.remote /\ nv.info = dv.info
        /\ \A c \in Clients : nv.callers[c] = IF c = cl THEN "none" ELSE dv.callers[c]
        /\ Served(d, dv, conn) => Served(d, nv, conn)
        /\ Bound(nv) => Bound(dv)
    BY <2>1, CallerLost
  <2>3. dv.bundleInfo \in LaunchOnBind => ~IsLastCaller(dv, cl)
    BY <1>1, <2>1 DEF UnbindResult, Served, Coherent
  <2>4. device' = [device EXCEPT ![d] = nv] /\ conn' = conn
    BY <1>1
  <2> HIDE DEF nv
  <2>5. dv.bundleInfo \in LaunchOnBind /\ HasCaller(dv) => HasCaller(nv)
    BY <2>2, <2>3, AnotherCaller DEF HasCaller
  <2> HIDE DEF dv
  <2>6. Launched(d, dv, conn) => Launched(d, nv, conn)
    <3>1. nv.bundleInfo = dv.bundleInfo
      BY <2>2
    <3>2. Launched(d, dv, conn) => (nv.remote \/ Reporting(d, conn) # {} => nv.bundleInfo # NoDriver)
      BY <2>2 DEF Launched
    <3>3. Launched(d, dv, conn) => (nv.bundleInfo \in LaunchOnBind => Alone(d, nv, conn))
      BY <2>2, <2>5 DEF Launched, Alone
    <3>4. Launched(d, dv, conn) => (NoneFails /\ Bound(nv) => nv.remote)
      BY <2>2 DEF Launched
    <3>5. Waits(nv) => Waits(dv)
      BY <2>2 DEF Waits
    <3> QED
      BY <2>2, <3>2, <3>3, <3>4, <3>5 DEF Launched
  <2>7. Stops
    BY <2>1, <2>4, OpenStops
  <2> QED
    BY <2>1, <2>2, <2>4, <2>6, <2>7, OneCarried DEF dv
<1>2. CASE /\ IsLastCaller(device[d], cl)
           /\ \E o \in Disconnect(device[d], conn) :
                device' = [device EXCEPT ![d] = o.dv] /\ conn' = o.cs
  <2>1. PICK o \in Disconnect(device[d], conn) :
          device' = [device EXCEPT ![d] = o.dv] /\ conn' = o.cs
    BY <1>2
  <2>2. /\ o.dv = device[d] /\ Aside(d, conn, o.cs)
        /\ Served(d, device[d], o.cs)
        /\ Launched(d, device[d], conn) => Launched(d, device[d], o.cs)
        /\ \A c \in Conns : ~conn[c].closing /\ o.cs[c].closing => conn[c].dev = d
    BY ServedFacts, DisconnectServes
  <2>3. Stops
    BY <1>2, <2>1, <2>2 DEF Stops, IsLastCaller
  <2> QED
    BY <2>1, <2>2, <2>3, ServedFacts, OneCarried
<1> QED
  BY <1>1, <1>2 DEF UnbindResult

LEMMA OnRemoteDiedCarried ==
  ASSUME IInv, AllServed, NEW cl \in Clients, OnRemoteDied(cl)
  PROVE  Carried
<1>1. /\ \A d \in Devices : device'[d] = UnregisterDrvExtMgrCallback(device[d], cl)
      /\ conn' = conn
  BY DEF OnRemoteDied
<1>2. \A d \in Devices :
        /\ Served(d, device[d], conn) => Served(d, device'[d], conn)
        /\ Launched(d, device[d], conn) => Launched(d, device'[d], conn)
  BY <1>1, ServedFacts, CallbackServes
<1>3. AllServed' /\ (AllLaunched => AllLaunched')
  BY <1>1, <1>2 DEF AllServed, AllLaunched
<1>4. Stops
  BY <1>1 DEF Stops
<1> QED
  BY <1>3, <1>4 DEF Carried

LEMMA ClientCarried ==
  ASSUME IInv, AllServed, Client
  PROVE  Carried
<1>1. \/ \E d \in Devices, cl \in Clients : BindResult(d, cl) \/ UnbindResult(d, cl)
      \/ \E cl \in Clients : OnRemoteDied(cl)
  BY DEF Client, ConnectDevice, ConnectDriverWithDeviceId, DisConnectDevice,
         DisConnectDriverWithDeviceId
<1> QED
  BY <1>1, BindCarried, UnbindCarried, OnRemoteDiedCarried

LEMMA OnConnectDoneCarried ==
  ASSUME IInv, AllServed, NEW c \in Conns, NEW ok \in BOOLEAN, OnConnectDone(c, ok)
  PROVE  Carried
<1> DEFINE d == conn[c].dev
           up == [conn[c] EXCEPT !.phase = "connected"]
<1>1. /\ conn \in GoodConns /\ conn[c] \in Connections /\ d \in Devices
      /\ conn' = [conn EXCEPT ![c] = IF ok THEN up ELSE FreeConn]
      /\ ok \/ Faults
  BY ConnFacts DEF IInv, AllGood, GoodConns, OnConnectDone
<1>2. /\ conn'[c] = IF ok THEN up ELSE FreeConn
      /\ \A b \in Conns \ {c} : conn'[b] = conn[b]
  BY <1>1 DEF GoodConns
<1>3. up.dev = d /\ up.notifies = conn[c].notifies /\ up.closing = conn[c].closing
  BY <1>1 DEF Connections
<1>4. FreeConn.dev = NoDevice /\ ~FreeConn.notifies /\ ~FreeConn.closing
  BY DEF FreeConn
<1> HIDE DEF up
<1>5. Aside(d, conn, conn') /\ KeepsOpen(conn, conn')
  BY <1>2, <1>3, <1>4 DEF Aside, KeepsOpen
<1>6. CASE ~conn[c].notifies
  <2>1. \A e \in Devices : /\ Reporting(e, conn') = Reporting(e, conn)
                           /\ \A b \in Reporting(e, conn) : conn'[b].phase = conn[b].phase
    BY <1>2, <1>3, <1>4, <1>6 DEF Reporting
  <2> QED
    BY <1>5, <1>6, <2>1, QuietCarried DEF OnConnectDone
<1>7. CASE conn[c].notifies
  <2> DEFINE dv == device[d]
             lost == IF ok THEN dv ELSE LostInfo(dv, c)
             nv == OnConnect(lost, ok)
  <2>1. device' = [device EXCEPT ![d] = nv]
    BY <1>7 DEF OnConnectDone, IInv, TypeOK
  <2>2. /\ dv \in DeviceRecords /\ Served(d, dv, conn)
        /\ device \in [Devices -> DeviceRecords]
    BY <1>1, ServedFacts
  <2>3. /\ lost \in DeviceRecords /\ lost.notifier = dv.notifier
        /\ lost.bundleInfo = dv.bundleInfo /\ lost.driverInfo = dv.driverInfo
        /\ lost.callers = dv.callers
    BY <2>2 DEF LostInfo, DeviceRecords
  <2> HIDE DEF lost
  <2>4. /\ nv.notifier = dv.notifier
        /\ nv.bundleInfo = dv.bundleInfo /\ nv.driverInfo = dv.driverInfo
        /\ \A cl \in Clients : nv.callers[cl] = IF dv.callers[cl] = "none" THEN "none" ELSE "bound"
    BY <2>3 DEF OnConnect, DeviceRecords
  <2>5. ok => nv.remote
    BY <2>3 DEF OnConnect, DeviceRecords
  <2> HIDE DEF nv, dv
  <2>6. /\ c \in Reporting(d, conn) /\ Reporting(d, conn') \subseteq Reporting(d, conn)
    BY <1>2, <1>3, <1>4, <1>7 DEF Reporting
  <2>7. Served(d, nv, conn')
    BY <2>2, <2>4, <2>6 DEF Served, Coherent, Answered
  <2>8. ASSUME Launched(d, dv, conn)
        PROVE  Launched(d, nv, conn')
    <3>1. nv.bundleInfo # NoDriver
      BY <2>4, <2>6, <2>8 DEF Launched
    <3>2. nv.bundleInfo \in LaunchOnBind => Alone(d, nv, conn')
      BY <2>4, <2>6, <2>8 DEF Launched, Alone, HasCaller
    <3>3. NoneFails => nv.remote
      BY <1>1, <2>5 DEF NoneFails
    <3>4. ~Waits(nv)
      BY <2>4 DEF Waits
    <3> QED
      BY <3>1, <3>2, <3>3, <3>4 DEF Launched
  <2>9. Stops
    BY <1>5, OpenStops
  <2> HIDE DEF d
  <2> QED
    BY <1>1, <1>5, <2>1, <2>2, <2>7, <2>8, <2>9, OneCarried DEF dv
<1> QED
  BY <1>6, <1>7

LEMMA OnDisconnectDoneCarried ==
  ASSUME IInv, AllServed, NEW c \in Conns, OnDisconnectDone(c)
  PROVE  Carried
<1> DEFINE d == conn[c].dev
           freed == [conn EXCEPT ![c] = FreeConn]
           dv == device[d]
           nv == OnDisconnect(dv)
<1>1. /\ conn \in GoodConns /\ conn[c] \in Connections /\ d \in Devices
      /\ dv \in DeviceRecords /\ Served(d, dv, conn)
      /\ device \in [Devices -> DeviceRecords]
  BY ConnFacts, ServedFacts DEF IInv, AllGood, GoodConns, OnDisconnectDone
<1>2. /\ freed \in GoodConns /\ freed[c] = FreeConn
      /\ \A b \in Conns \ {c} : freed[b] = conn[b]
  BY <1>1, FreedConn
<1>3. FreeConn.dev = NoDevice /\ ~FreeConn.notifies /\ ~FreeConn.closing
  BY DEF FreeConn
<1> DEFINE r == dv.bundleInfo
<1>4. \/ /\ \E cs \in StopDriverExtension(freed, r) : conn' = Orphaned(cs, d)
         /\ conn[c].notifies /\ device' = [device EXCEPT ![d] = FreshDevice]
      \/ /\ conn' \in StopDriverExtension(freed, r)
         /\ conn[c].notifies /\ device' = [device EXCEPT ![d] = nv]
      \/ conn' = freed /\ ~conn[c].notifies /\ device' = device
  BY DEF OnDisconnectDone
<1>5. /\ nv.notifier = dv.notifier
      /\ nv.bundleInfo = dv.bundleInfo /\ nv.driverInfo = dv.driverInfo
      /\ \A cl \in Clients : nv.callers[cl] = "none"
  BY <1>1 DEF OnDisconnect, DeviceRecords, NoCallers
<1>6. ~nv.remote
  BY <1>1 DEF OnDisconnect, DeviceRecords
<1> HIDE DEF freed, nv
<1>7. Aside(d, conn, freed) /\ KeepsOpen(conn, freed)
  BY <1>2, <1>3 DEF Aside, KeepsOpen
<1>8. ASSUME NEW cs \in StopDriverExtension(freed, r), conn[c].notifies,
             \A b \in Conns : conn'[b].closing = cs[b].closing /\ conn'[b].phase = cs[b].phase
      PROVE  Stops
  <2>1. /\ cs[c] = FreeConn /\ FreeConn.phase = "free"
        /\ \A b \in Conns \ {c} : cs[b] = conn[b] \/ conn[b].drv = r
    BY <1>2, StopKeeps, ConnFacts
  <2>2. EndsFor(c, r)
    BY <1>8, <2>1 DEF EndsFor
  <2> QED
    BY <1>3, <1>8, <2>1, <2>2 DEF Stops
<1>9. ASSUME NEW cs \in StopDriverExtension(freed, r), conn[c].notifies,
             conn' = Orphaned(cs, d), device' = [device EXCEPT ![d] = FreshDevice]
      PROVE  Carried
  <2> DEFINE gone == Orphaned(freed, d)
  <2>1. cs \in GoodConns /\ \A b \in Conns : SameButClosing(freed[b], cs[b])
    BY <1>2, StopKeeps
  <2>2. /\ Reporting(d, gone) = {}
        /\ Aside(d, freed, gone)
    BY <1>1, <1>2, OrphanedReports
  <2>3. Aside(d, conn, gone)
    BY <1>7, <2>2 DEF Aside
  <2>4. Served(d, FreshDevice, gone) /\ Launched(d, FreshDevice, gone)
    BY <2>2, ErasedServes
  <2>5. /\ \A b \in Conns : SameButClosing(gone[b], conn'[b])
        /\ \A b \in Conns : conn'[b].closing = cs[b].closing /\ conn'[b].phase = cs[b].phase
    <3> SUFFICES ASSUME NEW b \in Conns
                 PROVE  /\ SameButClosing(gone[b], conn'[b])
                        /\ conn'[b].closing = cs[b].closing /\ conn'[b].phase = cs[b].phase
      OBVIOUS
    <3>1. cs[b] \in Connections /\ freed[b] \in Connections /\ SameButClosing(freed[b], cs[b])
      BY <1>2, <2>1 DEF GoodConns
    <3>2. gone[b] = IF freed[b].dev = d THEN [freed[b] EXCEPT !.notifies = FALSE] ELSE freed[b]
      BY DEF Orphaned
    <3>3. conn'[b] = IF cs[b].dev = d THEN [cs[b] EXCEPT !.notifies = FALSE] ELSE cs[b]
      BY <1>9 DEF Orphaned
    <3> HIDE DEF gone, d
    <3>4. CASE freed[b].dev = d
      BY <3>1, <3>2, <3>3, <3>4 DEF SameButClosing, Connections
    <3>5. CASE freed[b].dev # d
      BY <3>1, <3>2, <3>3, <3>5 DEF SameButClosing
    <3> QED
      BY <3>4, <3>5
  <2>6. Stops
    BY <1>8, <1>9, <2>5
  <2> HIDE DEF d, gone
  <2> QED
    BY <1>1, <1>9, <2>3, <2>4, <2>5, <2>6, OneStopped
<1>10. CASE conn' = freed /\ ~conn[c].notifies /\ device' = device
  <2>1. \A e \in Devices : /\ Reporting(e, conn') = Reporting(e, conn)
                           /\ \A b \in Reporting(e, conn) : conn'[b].phase = conn[b].phase
    BY <1>2, <1>3, <1>10 DEF Reporting
  <2> QED
    BY <1>7, <1>10, <2>1, QuietCarried
<1>11. CASE /\ conn' \in StopDriverExtension(freed, r)
            /\ conn[c].notifies /\ device' = [device EXCEPT ![d] = nv]
  <2>1. /\ c \in Reporting(d, conn) /\ Reporting(d, freed) = Reporting(d, conn) \ {c}
    BY <1>2, <1>3, <1>11 DEF Reporting
  <2>2. Served(d, nv, freed)
    BY <1>1, <1>2, <1>5, <2>1 DEF Served, Coherent, Answered
  <2>3. ASSUME Launched(d, dv, conn)
        PROVE  Launched(d, nv, freed)
    <3>1. nv.bundleInfo # NoDriver
      BY <1>5, <2>1, <2>3 DEF Launched
    <3>2. nv.bundleInfo \in LaunchOnBind => Alone(d, nv, freed)
      BY <1>5, <1>6, <2>1, <2>3 DEF Launched, Alone
    <3>3. ~Bound(nv) /\ ~Waits(nv)
      BY <1>5 DEF Bound, Waits
    <3> QED
      BY <3>1, <3>2, <3>3 DEF Launched
  <2>4. Stops
    BY <1>8, <1>11
  <2>5. \A b \in Conns : SameButClosing(freed[b], conn'[b])
    BY <1>2, <1>11, StopKeeps
  <2> HIDE DEF d
  <2> QED
    BY <1>1, <1>7, <1>11, <2>2, <2>3, <2>4, <2>5, OneStopped DEF dv
<1> QED
  BY <1>4, <1>9, <1>10, <1>11

\* A device is entered into the match table, as it was or with a driver added.
LEMMA AddDevIdCarried ==
  ASSUME IInv, AllServed, NEW d \in Devices, NEW dv \in DeviceRecords,
         dv.bundleInfo \in Drivers, Own(d, dv, conn), Served(d, dv, conn),
         Launched(d, device[d], conn) /\ device[d].bundleInfo \in {NoDriver, dv.bundleInfo}
           => Launched(d, dv, conn),
         AddDevIdOfBundleInfoMap(d, dv)
  PROVE  Carried
<1>1. PICK o \in ConnectMatched(d, dv, conn) :
        device' = [device EXCEPT ![d] = o.dv] /\ conn' = o.cs
  BY DEF AddDevIdOfBundleInfoMap
<1>2. /\ Served(d, o.dv, o.cs) /\ o.dv.bundleInfo = dv.bundleInfo
      /\ Launched(d, dv, conn) => Launched(d, o.dv, o.cs)
      /\ Aside(d, conn, o.cs) /\ KeepsOpen(conn, o.cs)
  BY ServedFacts, ConnectMatchedServes
<1>3. DriversStay => device[d].bundleInfo \in {NoDriver, dv.bundleInfo}
  <2>1. device'[d] = o.dv
    BY <1>1, ServedFacts
  <2>2. o.dv # FreshDevice
    BY <1>2, DriverAssumption DEF FreshDevice
  <2> QED
    BY <1>2, <2>1, <2>2 DEF DriversStay
<1>4. Stops
  BY <1>1, <1>2, OpenStops
<1> QED
  BY <1>1, <1>2, <1>3, <1>4, ServedFacts, OneCarried

LEMMA ResetCarried ==
  ASSUME IInv, AllServed, NEW d \in Devices,
         device' = [device EXCEPT ![d] =
                      RemoveDriverInfo(ClearDrvExtRemote(RemoveBundleInfo(@)))],
         \A c \in Conns : SameButClosing(conn[c], conn'[c]), Stops
  PROVE  Carried
<1> DEFINE nv == RemoveDriverInfo(ClearDrvExtRemote(RemoveBundleInfo(device[d])))
<1>1. nv.bundleInfo = NoDriver
  BY ServedFacts DEF RemoveDriverInfo, ClearDrvExtRemote, RemoveBundleInfo, DeviceRecords
<1>2. /\ Served(d, nv, conn)
      /\ Launched(d, device[d], conn) /\ (device[d].bundleInfo # NoDriver => nv = FreshDevice) =>
           Launched(d, nv, conn)
  BY ServedFacts, ResetServes
<1>3. device' = [device EXCEPT ![d] = nv]
  OBVIOUS
<1> HIDE DEF nv
<1>4. DriversStay => (device[d].bundleInfo # NoDriver => nv = FreshDevice)
  <2>1. device'[d] = nv
    BY <1>3, ServedFacts
  <2> QED
    BY <1>1, <2>1 DEF DriversStay
<1> QED
  BY <1>2, <1>3, <1>4, ServedFacts, OneStopped

LEMMA RegisterDeviceCarried ==
  ASSUME IInv, AllServed, NEW d \in Devices, RegisterDevice(d)
  PROVE  Carried
<1>1. conn' = conn /\ TypeOK
  BY DEF RegisterDevice, IInv
<1>2. CASE device' = device
  BY <1>1, <1>2, SameCarried
<1>3. ASSUME device[d].bundleInfo = NoDriver, NEW q \in QueryMatchDriver(d),
             q.row # NoDriver, device' = [device EXCEPT ![d] = AddBundleInfo(@, q.row)]
      PROVE  Carried
  <2> DEFINE nv == AddBundleInfo(device[d], q.row)
  <2>1. q.row \in DriverRows
    BY <1>1, <1>3, QueryMatchDriverTypes
  <2>2. /\ Served(d, nv, conn)
        /\ Launched(d, device[d], conn) => Launched(d, nv, conn)
    BY <1>3, <2>1, ServedFacts, AddBundleInfoServes
  <2>3. Stops
    BY <1>1 DEF Stops
  <2>4. device' = [device EXCEPT ![d] = nv]
    BY <1>3
  <2> HIDE DEF nv
  <2> QED
    BY <1>1, <2>2, <2>3, <2>4, ServedFacts, OneCarried
<1> QED
  BY <1>2, <1>3 DEF RegisterDevice

LEMMA FinishUnRegisterCarried ==
  ASSUME IInv, AllServed, FinishUnRegister
  PROVE  Carried
<1> DEFINE d  == bus.dev
           b  == bus.bundleInfo
           dv == IF bus.remote THEN UnRegist(device[d]) ELSE device[d]
           removed == IF b = NoDriver THEN {Outcome(dv, conn, TRUE)}
                      ELSE DisconnectUnmatched(dv, b)
<1>1. /\ bus.op = "unregister" /\ d \in Devices
      /\ device \in [Devices -> DeviceRecords] /\ device[d] \in DeviceRecords
      /\ conn \in GoodConns /\ Own(d, device[d], conn) /\ Served(d, device[d], conn)
  BY ServedFacts DEF IInv, FinishUnRegister, BusOK
<1>2. /\ dv \in DeviceRecords /\ Own(d, dv, conn) /\ Served(d, dv, conn)
      /\ Launched(d, device[d], conn) => Launched(d, dv, conn)
  <2> DEFINE nv == UnRegist(device[d])
  <2>1. /\ nv \in DeviceRecords
        /\ nv.bundleInfo = device[d].bundleInfo /\ nv.driverInfo = device[d].driverInfo
        /\ nv.remote = device[d].remote /\ nv.notifier = device[d].notifier
        /\ nv.info = device[d].info /\ nv.callers = device[d].callers
    BY <1>1 DEF UnRegist, DeviceRecords
  <2> HIDE DEF nv
  <2>2. /\ Own(d, nv, conn) /\ Served(d, nv, conn)
        /\ Launched(d, device[d], conn) => Launched(d, nv, conn)
    BY <1>1, <2>1, SameService DEF Own, Served
  <2> QED
    BY <1>1, <2>1, <2>2 DEF nv
<1> HIDE DEF dv
<1>3. ASSUME NEW o \in removed
      PROVE  /\ Served(d, o.dv, o.cs) /\ o.cs \in GoodConns
             /\ Launched(d, dv, conn) => Launched(d, o.dv, o.cs)
             /\ Aside(d, conn, o.cs)
             /\ \A c \in Conns : ~conn[c].closing /\ o.cs[c].closing => conn[c].dev = d
  <2>1. \/ o.dv = dv /\ o.cs = conn
        \/ \E p \in Disconnect(dv, conn) :
             \/ o.dv = p.dv /\ o.cs = p.cs
             \/ o = [p EXCEPT !.dv = RemoveDriverInfo(p.dv)]
    BY DEF DisconnectUnmatched, Outcome
  <2>2. CASE o.dv = dv /\ o.cs = conn
    BY <1>1, <1>2, <2>2 DEF Aside
  <2>3. ASSUME NEW p \in Disconnect(dv, conn),
               \/ o.dv = p.dv /\ o.cs = p.cs
               \/ o = [p EXCEPT !.dv = RemoveDriverInfo(p.dv)]
        PROVE  /\ Served(d, o.dv, o.cs) /\ o.cs \in GoodConns
               /\ Launched(d, dv, conn) => Launched(d, o.dv, o.cs)
               /\ Aside(d, conn, o.cs)
               /\ \A c \in Conns : ~conn[c].closing /\ o.cs[c].closing => conn[c].dev = d
    <3> DEFINE nv == RemoveDriverInfo(dv)
    <3>1. /\ p.dv = dv /\ Aside(d, conn, p.cs) /\ Served(d, dv, p.cs)
          /\ Launched(d, dv, conn) => Launched(d, dv, p.cs)
          /\ \A c \in Conns : ~conn[c].closing /\ p.cs[c].closing => conn[c].dev = d
      BY <1>1, <1>2, DisconnectServes
    <3>2. p.cs \in GoodConns
      BY <1>1, <1>2, DisconnectKeeps DEF Kept
    <3>3. o.dv \in {dv, nv} /\ o.cs = p.cs
      <4>1. \E cs2, ok : p = Outcome(dv, cs2, ok)
        BY <3>1 DEF Disconnect, DisconnectDriverExtension, IfFaulty
      <4> QED
        BY <2>3, <3>1, <4>1 DEF Outcome
    <3>4. /\ nv.bundleInfo = dv.bundleInfo /\ nv.driverInfo = NoDriver
          /\ nv.remote = dv.remote /\ nv.notifier = dv.notifier
          /\ nv.info = dv.info /\ nv.callers = dv.callers
      BY <1>2 DEF RemoveDriverInfo, DeviceRecords
    <3> HIDE DEF nv
    <3>5. /\ Served(d, nv, p.cs)
          /\ Launched(d, dv, p.cs) => Launched(d, nv, p.cs)
      BY <3>1, <3>4, SameService DEF Served
    <3> QED
      BY <3>1, <3>2, <3>3, <3>5
  <2> QED
    BY <2>1, <2>2, <2>3
<1>4. PICK o \in removed :
        \/ device' = [device EXCEPT ![d] = o.dv] /\ conn' = o.cs
        \/ device' = [device EXCEPT ![d] = FreshDevice] /\ conn' = Orphaned(o.cs, d)
  BY DEF FinishUnRegister, dv
<1>5. /\ Served(d, o.dv, o.cs) /\ o.cs \in GoodConns
      /\ Launched(d, device[d], conn) => Launched(d, o.dv, o.cs)
      /\ Aside(d, conn, o.cs)
      /\ \A c \in Conns : ~conn[c].closing /\ o.cs[c].closing => conn[c].dev = d
  BY <1>2, <1>3
<1>6. Stops
  <2>1. KeepsOpen(o.cs, Orphaned(o.cs, d))
    BY <1>1, <1>5, OrphanedReports
  <2> QED
    BY <1>1, <1>4, <1>5, <2>1 DEF Stops, KeepsOpen
<1>7. CASE device' = [device EXCEPT ![d] = o.dv] /\ conn' = o.cs
  BY <1>1, <1>5, <1>6, <1>7, OneCarried
<1>8. CASE device' = [device EXCEPT ![d] = FreshDevice] /\ conn' = Orphaned(o.cs, d)
  <2>1. Reporting(d, conn') = {} /\ Aside(d, o.cs, conn')
    BY <1>1, <1>5, <1>8, OrphanedReports
  <2>2. Aside(d, conn, conn')
    BY <1>5, <2>1 DEF Aside
  <2>3. Served(d, FreshDevice, conn') /\ Launched(d, FreshDevice, conn')
    BY <2>1, ErasedServes
  <2> HIDE DEF d
  <2> QED
    BY <1>1, <1>6, <1>8, <2>2, <2>3, OneCarried
<1> QED
  BY <1>4, <1>7, <1>8

LEMMA BusCarried ==
  ASSUME IInv, AllServed, Bus
  PROVE  Carried
<1>1. ASSUME NEW d \in Devices, UnRegisterDevice(d)
      PROVE  Carried
  BY <1>1, SameCarried DEF UnRegisterDevice
<1>2. CASE FinishRegister
  <2> DEFINE d == bus.dev
  <2>1. d \in Devices
    BY <1>2 DEF IInv, BusOK, FinishRegister
  <2>2. CASE UNCHANGED <<device, conn>>
    BY <2>2, SameCarried
  <2>3. CASE device[d].bundleInfo # NoDriver /\ AddDevIdOfBundleInfoMap(d, device[d])
    <3>1. /\ device[d] \in DeviceRecords /\ device[d].bundleInfo \in Drivers
          /\ Own(d, device[d], conn) /\ Served(d, device[d], conn)
      BY <2>1, <2>3, ServedFacts DEF DeviceRecords
    <3> HIDE DEF d
    <3> QED
      BY <2>1, <2>3, <3>1, AddDevIdCarried
  <2> QED
    BY <1>2, <2>2, <2>3 DEF FinishRegister
<1> QED
  BY <1>1, <1>2, RegisterDeviceCarried, FinishUnRegisterCarried DEF Bus

LEMMA ThreadCarried ==
  ASSUME IInv, AllServed, NEW t \in Threads, Thread(t)
  PROVE  Carried
<1>1. ASSUME NEW d \in Devices, ResetDevice(t, d)
      PROVE  Carried
  <2>1. /\ conn' = conn
        /\ \A c \in Conns : SameButClosing(conn[c], conn'[c])
    BY <1>1 DEF ResetDevice, SameButClosing, IInv, AllGood, GoodConns
  <2>2. Stops
    BY <2>1 DEF Stops
  <2> QED
    BY <1>1, <2>1, <2>2, ResetCarried DEF ResetDevice
<1>2. ASSUME NEW d \in Devices, ClearDevice(t, d)
      PROVE  Carried
  <2> DEFINE row == device[d].driverInfo
  <2>1. CASE UNCHANGED <<device, conn>>
    BY <2>1, SameCarried
  <2>2. CASE /\ threads[t].kind = "clear" /\ row # NoDriver /\ row.user = threads[t].user
             /\ device' = [device EXCEPT ![d] =
                             RemoveDriverInfo(ClearDrvExtRemote(RemoveBundleInfo(@)))]
             /\ conn' \in StopDriverExtension(conn, row.drv)
    <3>1. conn \in GoodConns /\ row \in DriverRows
      BY <2>2, ServedFacts DEF DeviceRecords
    <3>2. /\ \A c \in Conns : SameButClosing(conn[c], conn'[c])
          /\ \A c \in Conns : conn'[c] = conn[c] \/ conn[c].drv = row.drv
      BY <2>2, <3>1, StopKeeps
    <3>3. row = [drv |-> row.drv, user |-> threads[t].user]
      BY <2>2, <3>1 DEF DriverRows
    <3>4. ClearsFor(row.drv)
      BY <2>2, <3>3 DEF ClearsFor
    <3>5. Stops
      BY <3>2, <3>4 DEF Stops
    <3> QED
      BY <2>2, <3>2, <3>5, ResetCarried
  <2> QED
    BY <1>2, <2>1, <2>2 DEF ClearDevice
<1>3. ASSUME NEW d \in Devices, MatchDevice(t, d)
      PROVE  Carried
  <2>1. CASE UNCHANGED <<device, conn>>
    BY <2>1, SameCarried
  <2>2. ASSUME NEW q \in QueryMatchDriver(d), q.row # NoDriver,
               AddDevIdOfBundleInfoMap(d, AddBundleInfo(device[d], q.row))
        PROVE  Carried
    <3> DEFINE nv == AddBundleInfo(device[d], q.row)
    <3>1. q.row \in DriverRows
      BY <2>2, QueryMatchDriverTypes DEF IInv
    <3>2. /\ nv \in DeviceRecords /\ nv.bundleInfo \in Drivers
          /\ Kept(d, device[d], conn, Outcome(nv, conn, TRUE))
      BY <3>1, ServedFacts, AddBundleInfoKeeps
    <3>3. Own(d, nv, conn)
      BY <3>2 DEF Kept, Outcome
    <3>4. /\ Served(d, nv, conn) /\ nv.bundleInfo = q.row.drv
          /\ Launched(d, device[d], conn) /\ device[d].bundleInfo \in {NoDriver, q.row.drv} =>
               Launched(d, nv, conn)
      BY <3>1, ServedFacts, AddBundleInfoServes
    <3>5. AddDevIdOfBundleInfoMap(d, nv)
      BY <2>2
    <3> HIDE DEF nv
    <3> QED
      BY <3>2, <3>3, <3>4, <3>5, AddDevIdCarried
  <2> QED
    BY <1>3, <2>1, <2>2 DEF MatchDevice
<1>4. CASE \/ GetAllDriverInfosAsync(t) \/ UpdateBundle(t)
           \/ DeleteBundlesOfBundleInfoMap(t) \/ LockDeviceMap(t) \/ ClearEnd(t)
  <2>1. UNCHANGED <<device, conn>>
    BY <1>4 DEF GetAllDriverInfosAsync, UpdateBundle, DeleteBundlesOfBundleInfoMap, LockDeviceMap, ClearEnd
  <2> QED
    BY <2>1, SameCarried
<1> QED
  BY <1>1, <1>2, <1>3, <1>4 DEF Thread

LEMMA ProcessCarried ==
  ASSUME IInv, AllServed, Process
  PROVE  Carried
<1>1. CASE TimerFires \/ OnStart
  BY <1>1, SameCarried DEF TimerFires, OnStart
<1>2. CASE OnStop
  <2>1. /\ device' = [d \in Devices |-> FreshDevice]
        /\ conn' = [c \in Conns |-> FreeConn]
    BY <1>2 DEF OnStop, Blank
  <2>2. ~FreeConn.notifies /\ ~FreeConn.closing
    BY DEF FreeConn
  <2>3. \A d \in Devices : Reporting(d, conn') = {}
    BY <2>1, <2>2 DEF Reporting
  <2>4. AllServed' /\ AllLaunched'
    BY <2>1, <2>3, ErasedServes DEF AllServed, AllLaunched
  <2>5. Stops
    BY <2>1, <2>2 DEF Stops
  <2> QED
    BY <2>4, <2>5 DEF Carried
<1> QED
  BY <1>1, <1>2 DEF Process

LEMMA NextCarried ==
  ASSUME IInv, AllServed, [Next]_vars
  PROVE  Carried
<1>1. CASE AbilityManager
  BY <1>1, OnConnectDoneCarried, OnDisconnectDoneCarried DEF AbilityManager
<1>2. CASE Packages
  BY <1>2, SameCarried DEF Packages, OnBundleChanged
<1>3. CASE Accounts
  BY <1>3, SameCarried DEF Accounts, OnAccountsSwitching, ForegroundChanges, OnAccountsSwitched
<1>4. CASE UNCHANGED vars
  BY <1>4, SameCarried DEF vars
<1> QED
  BY <1>1, <1>2, <1>3, <1>4, BusCarried, ClientCarried, ThreadCarried, ProcessCarried DEF Next

LEMMA InitCarried == Init => AllServed /\ AllLaunched
<1> SUFFICES ASSUME Init PROVE AllServed /\ AllLaunched
  OBVIOUS
<1>1. \A d \in Devices : device[d] = FreshDevice
  BY DEF Init
<1>2. \A d \in Devices : Reporting(d, conn) = {}
  BY DEF Init, Reporting, FreeConn
<1> QED
  BY <1>1, <1>2, ErasedServes DEF AllServed, AllLaunched

-----------------------------------------------------------------------------
(***************************************************************************)
(* The rows of the driver package table.                                   *)
(***************************************************************************)
\* The package state g is what the bundle manager has for the foreground.
Loaded(g) == g.rows = RowsOf(apps[account.user], account.user)

\* A load leaves current rows, whoever asked for it.
LEMMA LoadIsCurrent ==
  ASSUME ~Faults, NEW g \in GetAllDriverInfos, pkg.initOnce => Loaded(pkg)
  PROVE  Loaded(g.pkg)
BY DEF GetAllDriverInfos, UpdateToRdb, IfFaulty, Result, LoadedFor, Loaded

\* No package of the foreground account changes, and no event that has passed
\* the check of its account is still to be written.
PackagesRest ==
  /\ apps'[account.user] = apps[account.user]
  /\ \A t \in Threads : ~UpdateBundle(t)

LEMMA NextRows ==
  ASSUME ~Faults, TypeOK, RowsAreCurrent, Next, PackagesRest
  PROVE  RowsAreCurrent'
<1> DEFINE u == account.user
<1>1. /\ account \in [user : Users, to : Users \cup {NoUser}]
      /\ apps \in [Users -> SUBSET Drivers]
      /\ pkg \in [initOnce : BOOLEAN, rows : SUBSET DriverRows]
  BY DEF TypeOK
<1>2. CASE UNCHANGED <<pkg, apps, account>>
  BY <1>2 DEF RowsAreCurrent
<1>3. ASSUME NEW g \in GetAllDriverInfos, pkg' = g.pkg, UNCHANGED <<apps, account>>
      PROVE  RowsAreCurrent'
  <2>1. CASE account.to = NoUser
    <3>1. pkg.initOnce => Loaded(pkg)
      BY <2>1 DEF RowsAreCurrent, Loaded
    <3>2. Loaded(g.pkg)
      BY <3>1, LoadIsCurrent
    <3> QED
      BY <1>3, <3>2 DEF RowsAreCurrent, Loaded
  <2>2. CASE account.to # NoUser
    BY <1>3, <2>2 DEF RowsAreCurrent
  <2> QED
    BY <2>1, <2>2
<1>4. ASSUME NEW d \in Devices, NEW q \in QueryMatchDriver(d)
      PROVE  \E g \in GetAllDriverInfos : q.pkg = g.pkg
  BY <1>4 DEF QueryMatchDriver
<1>5. CASE Bus
  <2>1. ASSUME NEW d \in Devices, RegisterDevice(d)
        PROVE  RowsAreCurrent'
    <3>1. UNCHANGED <<apps, account>>
      BY <2>1 DEF RegisterDevice
    <3>2. UNCHANGED pkg \/ \E q \in QueryMatchDriver(d) : pkg' = q.pkg
      BY <2>1 DEF RegisterDevice
    <3> QED
      BY <1>2, <1>3, <1>4, <3>1, <3>2
  <2>2. CASE FinishRegister \/ FinishUnRegister \/ \E d \in Devices : UnRegisterDevice(d)
    BY <1>2, <2>2 DEF FinishRegister, FinishUnRegister, UnRegisterDevice, external
  <2> QED
    BY <1>5, <2>1, <2>2 DEF Bus
<1>6. CASE Client
  <2>1. \/ \E d \in Devices, cl \in Clients : BindResult(d, cl) \/ UnbindResult(d, cl)
        \/ \E cl \in Clients : OnRemoteDied(cl)
    BY <1>6 DEF Client, ConnectDevice, ConnectDriverWithDeviceId, DisConnectDevice,
           DisConnectDriverWithDeviceId
  <2> QED
    BY <1>2, <2>1 DEF BindResult, UnbindResult, OnRemoteDied, external
<1>7. CASE AbilityManager
  BY <1>2, <1>7 DEF AbilityManager, OnConnectDone, OnDisconnectDone, external
<1>8. CASE Packages
  BY <1>8 DEF Packages, OnBundleChanged, PackagesRest, RowsAreCurrent
<1>9. CASE Accounts
  <2>1. ASSUME NEW v \in Switchable, OnAccountsSwitching(v)
        PROVE  RowsAreCurrent'
    <3>1. v # NoUser
      BY BoundAssumption, UserAssumption
    <3>2. account'.to = v
      BY <1>1, <2>1 DEF OnAccountsSwitching
    <3> QED
      BY <3>1, <3>2 DEF RowsAreCurrent
  <2>2. CASE ForegroundChanges
    <3>1. account'.to = account.to /\ account.to # NoUser
      BY <1>1, <2>2 DEF ForegroundChanges
    <3> QED
      BY <3>1 DEF RowsAreCurrent
  <2>3. CASE OnAccountsSwitched
    <3>1. ~pkg'.initOnce
      BY <1>1, <2>3 DEF OnAccountsSwitched
    <3> QED
      BY <3>1 DEF RowsAreCurrent
  <2> QED
    BY <1>9, <2>1, <2>2, <2>3 DEF Accounts
<1>10. ASSUME NEW t \in Threads, Thread(t)
       PROVE  RowsAreCurrent'
  <2>1. CASE GetAllDriverInfosAsync(t)
    BY <1>3, <2>1 DEF GetAllDriverInfosAsync, external
  <2>2. ASSUME NEW d \in Devices, MatchDevice(t, d)
        PROVE  RowsAreCurrent'
    <3>1. UNCHANGED <<apps, account>>
      BY <2>2 DEF MatchDevice, external
    <3>2. UNCHANGED pkg \/ \E q \in QueryMatchDriver(d) : pkg' = q.pkg
      BY <2>2 DEF MatchDevice
    <3> QED
      BY <1>2, <1>3, <1>4, <3>1, <3>2
  <2>3. CASE \/ DeleteBundlesOfBundleInfoMap(t) \/ LockDeviceMap(t) \/ ClearEnd(t)
             \/ \E d \in Devices : ResetDevice(t, d) \/ ClearDevice(t, d)
    BY <1>2, <2>3 DEF DeleteBundlesOfBundleInfoMap, LockDeviceMap, ClearEnd, ResetDevice,
      ClearDevice, external
  <2> QED
    BY <1>10, <2>1, <2>2, <2>3 DEF Thread, PackagesRest
<1>11. CASE Process
  <2>1. CASE OnStop
    <3>1. ~pkg'.initOnce
      BY <1>1, <2>1 DEF OnStop, Blank
    <3> QED
      BY <3>1 DEF RowsAreCurrent
  <2>2. CASE TimerFires \/ OnStart
    BY <1>2, <2>2 DEF TimerFires, OnStart, external
  <2> QED
    BY <1>11, <2>1, <2>2 DEF Process
<1> QED
  BY <1>5, <1>6, <1>7, <1>8, <1>9, <1>10, <1>11 DEF Next

-----------------------------------------------------------------------------
(***************************************************************************)
(* The theorems.                                                           *)
(***************************************************************************)
LEMMA ServedInvariance == Spec => [](IInv /\ AllServed)
<1>1. Init => AllServed
  BY InitCarried
<1>2. IInv /\ AllServed /\ [Next]_vars => AllServed'
  BY NextCarried DEF Carried
<1> QED
  BY <1>1, <1>2, Invariance, PTL DEF Spec

\* A connection is asked to end by an unbind of the last caller of its device
\* (etx_device_mgr.cpp:575, 582), with the removal of its device, or by a stop
\* of its driver as a whole (device.cpp:219, etx_device_mgr.cpp:297): the last
\* unbind of another device matched with the driver may take it away.
THEOREM StopsOnlyWithLastCaller == Spec => StopsWithLastCaller
<1>1. IInv /\ AllServed /\ [Next]_vars =>
        [\A c \in Conns : ~conn[c].closing /\ conn'[c].closing =>
           \/ bus.op = "unregister" /\ bus.dev = conn[c].dev
           \/ CallerCount(device[conn[c].dev]) <= 1
           \/ \E b \in Conns \ {c} : EndsFor(b, conn[c].drv)
           \/ ClearsFor(conn[c].drv)]_vars
  BY NextCarried DEF Carried, Stops
<1> QED
  BY <1>1, ServedInvariance, PTL DEF Spec, StopsWithLastCaller

\* No device holds an info_ for a connection that was refused or failed.
NothingRefused == \A d \in Devices : device[d].info # Dangling

\* Every caller that waits (device.cpp:129) has a connection under way that
\* reports to its device, unless the ability manager refused one.
THEOREM PendingAreAnswered == Spec => [](NothingRefused => PendingIsAnswered)
<1>1. AllServed => (NothingRefused => PendingIsAnswered)
  <2> SUFFICES ASSUME AllServed, NothingRefused, NEW d \in Devices, NEW cl \in Clients,
                      device[d].callers[cl] = "pending"
               PROVE  \E c \in Conns : Reports(c, d) /\ conn[c].phase = "connecting"
    BY DEF PendingIsAnswered
  <2>1. PICK c \in Reporting(d, conn) : conn[c].phase = "connecting"
    BY DEF AllServed, Served, Answered, NothingRefused
  <2> QED
    BY <2>1 DEF Reporting, Reports
<1> QED
  BY <1>1, ServedInvariance, PTL

LEMMA LaunchedInvariance == Spec /\ [][DriversStay]_vars => [](IInv /\ AllLaunched)
<1>1. Init => AllLaunched
  BY InitCarried
<1>2. IInv /\ AllServed /\ AllLaunched /\ [Next]_vars /\ [DriversStay]_vars => AllLaunched'
  <2> SUFFICES ASSUME IInv, AllServed, AllLaunched, [Next]_vars, [DriversStay]_vars
               PROVE  AllLaunched'
    OBVIOUS
  <2>1. CASE DriversStay
    BY <2>1, NextCarried DEF Carried
  <2>2. CASE UNCHANGED vars
    BY <2>2 DEF AllLaunched, vars
  <2> QED
    BY <2>1, <2>2
<1> QED
  BY <1>1, <1>2, ServedInvariance, PTL DEF Spec

\* While devices keep their drivers and no connection fails, every caller
\* that waits (device.cpp:129) has a connection under way that reports to its
\* device: the notifier a second bind replaces takes none with it.
THEOREM WaitersAreAnswered ==
  ASSUME ~Faults
  PROVE  Spec /\ [][DriversStay]_vars => []PendingIsAnswered
<1>1. AllServed /\ AllLaunched => PendingIsAnswered
  <2> SUFFICES ASSUME AllServed, AllLaunched, NEW d \in Devices, NEW cl \in Clients,
                      device[d].callers[cl] = "pending"
               PROVE  \E c \in Conns : Reports(c, d) /\ conn[c].phase = "connecting"
    BY DEF PendingIsAnswered
  <2>1. device[d].info # Dangling
    BY DEF AllLaunched, Launched, Waits
  <2>2. PICK c \in Reporting(d, conn) : conn[c].phase = "connecting"
    BY <2>1 DEF AllServed, Served, Answered
  <2> QED
    BY <2>2 DEF Reporting, Reports
<1> QED
  BY <1>1, ServedInvariance, LaunchedInvariance, PTL

\* While devices keep their drivers, one that is launched on bind runs for
\* some caller (etx_device_mgr.cpp:575).
THEOREM LaunchedForCallers == Spec /\ [][DriversStay]_vars => []LaunchedForCaller
<1>1. IInv /\ AllLaunched => LaunchedForCaller
  <2> SUFFICES ASSUME AllLaunched, NEW d \in Devices, device[d].remote,
                      device[d].bundleInfo \in LaunchOnBind
               PROVE  CallerCount(device[d]) > 0
    BY DEF LaunchedForCaller
  <2> DEFINE S == {cl \in Clients : IsBindCaller(device[d], cl)}
  <2>1. S # {}
    BY DEF AllLaunched, Launched, Alone, HasCaller, IsBindCaller
  <2>2. IsFiniteSet(S)
    BY ClientAssumption, FS_Subset
  <2>3. Cardinality(S) \in Nat /\ Cardinality(S) # 0
    BY <2>1, <2>2, FS_CardinalityType, FS_EmptySet
  <2> QED
    BY <2>3 DEF CallerCount
<1> QED
  BY <1>1, LaunchedInvariance, PTL

\* While devices keep their drivers and no connection fails, a client that
\* was told of its driver's remote object (device.cpp:112, 184) can use it.
THEOREM BoundHaveRemotes ==
  ASSUME NoneFails
  PROVE  Spec /\ [][DriversStay]_vars => []BoundHasRemote
<1>1. IInv /\ AllLaunched => BoundHasRemote
  BY DEF AllLaunched, Launched, Bound, BoundHasRemote
<1> QED
  BY <1>1, LaunchedInvariance, PTL

\* Between account switches the rows are the foreground account's, whichever
\* of the loads came last (initOnce), while its packages do not change and no
\* call fails.  A package event breaks this: it checks the account at
\* drv_bundle_state_callback.cpp:219 and writes at 235.
THEOREM RowsStayCurrent ==
  ASSUME ~Faults
  PROVE  Spec /\ [][PackagesRest]_vars => []RowsAreCurrent
<1>1. Init => RowsAreCurrent
  <2> SUFFICES ASSUME Init PROVE RowsAreCurrent
    OBVIOUS
  <2>1. CASE ColdBoot
    <3>1. ~pkg.initOnce
      BY <2>1 DEF Init
    <3> QED
      BY <3>1 DEF RowsAreCurrent
  <2>2. CASE ~ColdBoot
    <3>1. account.user = FirstUser /\ apps[FirstUser] = Drivers
      BY UserAssumption DEF Init
    <3>2. pkg.rows = RowsOf(Drivers, FirstUser)
      BY <2>2 DEF Init
    <3> QED
      BY <3>1, <3>2 DEF RowsAreCurrent
  <2> QED
    BY <2>1, <2>2
<1>2. TypeOK /\ RowsAreCurrent /\ [Next]_vars /\ [PackagesRest]_vars => RowsAreCurrent'
  <2> SUFFICES ASSUME TypeOK, RowsAreCurrent, [Next]_vars, [PackagesRest]_vars
               PROVE  RowsAreCurrent'
    OBVIOUS
  <2>1. CASE UNCHANGED vars
    BY <2>1 DEF vars, RowsAreCurrent
  <2>2. CASE Next /\ PackagesRest
    BY <2>2, NextRows
  <2> QED
    BY <2>1, <2>2
<1> QED
  BY <1>1, <1>2, TypeCorrect, PTL DEF Spec

==============================================================================
