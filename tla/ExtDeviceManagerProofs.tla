----------------------- MODULE ExtDeviceManagerProofs -----------------------
(***************************************************************************)
(* Theorems about ExtDeviceManager, for every value of its constants: any  *)
(* number of devices, drivers, accounts, clients, connections and threads, *)
(* with a faulty environment or without.                                   *)
(*                                                                         *)
(* The argument.  A Device object and the connections that report to it    *)
(* are coherent (Own).  Every operator of module Device keeps its own      *)
(* device coherent and leaves the connections of the others alone (Kept),  *)
(* so each action of the device manager, which applies one of them to one  *)
(* device, keeps all of them coherent (AllGood).  The listing of devices   *)
(* (Listing) changes in the bus thread's steps alone: all others are Calm. *)
(***************************************************************************)
EXTENDS ExtDeviceManager, TLAPS

\* A slot of the connection table is free or serves a device.
GoodConns ==
  {cs \in [Conns -> Connections] :
     \A c \in Conns : \/ cs[c] = FreeConn
                      \/ cs[c].phase # "free" /\ cs[c].dev \in Devices}

\* The device and the connections that report to it are coherent.
Own(d, dv, cs) ==
  /\ dv.remote => \E c \in Conns : /\ cs[c].dev = d /\ cs[c].notifies
                                   /\ cs[c].phase = "connected"
  /\ dv.info \in Conns => cs[dv.info].dev = d /\ cs[dv.info].notifies
  /\ ~dv.notifier => dv.info = NoConn

\* The connections of the other devices are untouched.
Keeps(d, cs, next) ==
  \A c \in Conns : cs[c].dev \notin {d, NoDevice} => next[c] = cs[c]

\* What every outcome o of an operator on device d guarantees.
Kept(d, dv, cs, o) ==
  /\ o.dv \in DeviceRecords /\ o.cs \in GoodConns
  /\ Own(d, o.dv, o.cs)
  /\ Keeps(d, cs, o.cs)
  /\ o.dv.unRegisted = dv.unRegisted

AllGood(dvs, cs) ==
  /\ dvs \in [Devices -> DeviceRecords]
  /\ cs \in GoodConns
  /\ \A d \in Devices : Own(d, dvs[d], cs)

\* The bus thread's call is about a device; a device that it registers is
\* plugged, and no call is left of a process that has stopped.
BusOK ==
  /\ bus.op = "none" => bus = NoCall
  /\ bus.op # "none" => bus.dev \in Devices
  /\ bus.op = "register" => bus.dev \in plugged
  /\ ~running => bus = NoCall /\ deviceMap = {}

IInv == TypeOK /\ AllGood(device, conn) /\ BusOK

-----------------------------------------------------------------------------
(***************************************************************************)
(* The operators of module Device.                                         *)
(***************************************************************************)
\* Facts about the constants of the connection table.
LEMMA ConnFacts ==
  /\ NoConn \notin Conns /\ Dangling \notin Conns /\ NoConn # Dangling
  /\ Conns \subseteq Int
  /\ FreeConn \in Connections
  /\ FreeConn.phase = "free" /\ FreeConn.dev = NoDevice /\ ~FreeConn.notifies
  /\ FreshDevice \in DeviceRecords
BY ConnAssumption DEF Conns, NoConn, Dangling, FreeConn, Connections,
  FreshDevice, DeviceRecords, NoCallers, CallerStates

\* An operator that touches neither drvExtRemote_ nor the notifier.
LEMMA SameConnection ==
  ASSUME NEW d \in Devices, NEW dv \in DeviceRecords, NEW cs \in GoodConns,
         Own(d, dv, cs), NEW nv \in DeviceRecords, NEW ok,
         nv.remote = dv.remote, nv.notifier = dv.notifier, nv.info = dv.info,
         nv.unRegisted = dv.unRegisted
  PROVE  Kept(d, dv, cs, Outcome(nv, cs, ok))
BY DEF Kept, Own, Keeps, Outcome

\* The slot of a new connection was free.
LEMMA NextConnIsFree ==
  ASSUME NEW cs \in GoodConns, NEW c \in NextConns(cs)
  PROVE  c \in Conns /\ cs[c] = FreeConn
BY ConnFacts DEF NextConns, GoodConns

\* ConnectDriverExtension, for a device that has a notifier.
LEMMA ConnectDriverExtensionKeeps ==
  ASSUME NEW d \in Devices, NEW dv \in DeviceRecords, NEW cs \in GoodConns,
         Own(d, dv, cs), dv.notifier,
         NEW o \in ConnectDriverExtension(d, dv, cs)
  PROVE  Kept(d, dv, cs, o)
<1> DEFINE hung == [dv EXCEPT !.info = Dangling]
           opened(c) == [dv EXCEPT !.info = c]
           next(c) == [cs EXCEPT ![c] = NewConn(d, dv.bundleInfo)]
<1>1. Kept(d, dv, cs, Outcome(dv, cs, FALSE))
  BY SameConnection
<1>2. ASSUME dv.info = NoConn
      PROVE  Kept(d, dv, cs, Outcome(hung, cs, FALSE))
  <2>1. hung \in DeviceRecords
    BY DEF DeviceRecords
  <2>2. Own(d, hung, cs)
    BY ConnFacts DEF Own, DeviceRecords
  <2> QED
    BY <2>1, <2>2 DEF Kept, Keeps, Outcome, DeviceRecords
<1>3. ASSUME NEW c \in NextConns(cs), dv.bundleInfo # NoDriver
      PROVE  Kept(d, dv, cs, Outcome(opened(c), next(c), TRUE))
  <2>1. c \in Conns /\ cs[c] = FreeConn
    BY NextConnIsFree
  <2>2. opened(c) \in DeviceRecords
    BY <2>1 DEF DeviceRecords
  <2>3. /\ NewConn(d, dv.bundleInfo) \in Connections
        /\ NewConn(d, dv.bundleInfo).phase # "free"
        /\ NewConn(d, dv.bundleInfo).dev = d
        /\ NewConn(d, dv.bundleInfo).notifies
    BY <1>3 DEF NewConn, Connections, DeviceRecords
  <2>4. next(c) \in GoodConns
    BY <2>1, <2>3 DEF GoodConns
  <2>5. \A b \in Conns : next(c)[b] = IF b = c THEN NewConn(d, dv.bundleInfo) ELSE cs[b]
    BY <2>1 DEF GoodConns
  <2>6. Own(d, opened(c), next(c))
    <3>1. dv.remote => \E b \in Conns \ {c} : /\ cs[b].dev = d /\ cs[b].notifies
                                             /\ cs[b].phase = "connected"
      BY <2>1, ConnFacts DEF Own
    <3> QED
      BY <3>1, <2>1, <2>3, <2>5 DEF Own, DeviceRecords
  <2>7. Keeps(d, cs, next(c))
    BY <2>1, <2>5, ConnFacts DEF Keeps
  <2> QED
    BY <2>2, <2>4, <2>6, <2>7 DEF Kept, Outcome, DeviceRecords
<1> QED
  BY <1>1, <1>2, <1>3 DEF ConnectDriverExtension, IfFaulty

\* Kept composes: an operator applied to the outcome of another.
LEMMA KeptTwice ==
  ASSUME NEW d, NEW dv, NEW cs, NEW o, NEW p,
         Kept(d, dv, cs, o), Kept(d, o.dv, o.cs, p)
  PROVE  Kept(d, dv, cs, p)
BY DEF Kept, Keeps

\* Connect(), with its retries.
LEMMA ConnectOnMatchKeeps ==
  ASSUME NEW d \in Devices, NEW dv \in DeviceRecords, NEW cs \in GoodConns,
         Own(d, dv, cs), NEW o \in ConnectOnMatch(d, dv, cs)
  PROVE  Kept(d, dv, cs, o)
<1> DEFINE noted == AddDrvExtConnNotify(dv)
           dropped(p) == [p.dv EXCEPT !.remote = FALSE, !.info = NoConn]
           first == ConnectDriverExtension(d, noted, cs)
           Retry(p) == ConnectDriverExtension(d, dropped(p), p.cs)
<1>1. /\ noted \in DeviceRecords /\ noted.notifier /\ Own(d, noted, cs)
      /\ noted.unRegisted = dv.unRegisted
  BY DEF AddDrvExtConnNotify, DeviceRecords, Own
<1>2. ASSUME NEW p \in first
      PROVE  Kept(d, dv, cs, p) /\ p.dv.notifier
  <2>1. Kept(d, noted, cs, p)
    BY <1>1, ConnectDriverExtensionKeeps
  <2>2. p.dv.notifier
    BY <1>1 DEF ConnectDriverExtension, IfFaulty, Outcome, DeviceRecords
  <2> QED
    BY <1>1, <2>1, <2>2 DEF Kept
<1>3. ASSUME NEW p \in first, NEW q \in Retry(p)
      PROVE  Kept(d, dv, cs, q)
  <2>1. Kept(d, dv, cs, p) /\ p.dv.notifier
    BY <1>2
  <2>2. /\ dropped(p) \in DeviceRecords /\ dropped(p).notifier
        /\ Own(d, dropped(p), p.cs) /\ dropped(p).unRegisted = p.dv.unRegisted
    BY <2>1, ConnFacts DEF Kept, Own, DeviceRecords
  <2>3. Kept(d, dropped(p), p.cs, q)
    BY <2>1, <2>2, ConnectDriverExtensionKeeps DEF Kept
  <2> QED
    BY <2>1, <2>2, <2>3 DEF Kept, Keeps
<1>4. o \in first \/ \E p \in first : o \in Retry(p)
  BY DEF ConnectOnMatch
<1> QED
  BY <1>2, <1>3, <1>4

\* The registration of a callback, and the loss of a caller and its callback.
LEMMA CallbackTypes ==
  ASSUME NEW dv \in DeviceRecords, NEW cl \in Clients
  PROVE  /\ [dv EXCEPT !.callbacks = CallbackInsert(@, cl)] \in DeviceRecords
         /\ UnregisterDrvExtMgrCallback(dv, cl) \in DeviceRecords
         /\ RemoveCaller(dv, cl) \in DeviceRecords
         /\ \A st \in CallerStates : [dv EXCEPT !.callers[cl] = st] \in DeviceRecords
<1>1. [dv EXCEPT !.callbacks = CallbackInsert(@, cl)] \in DeviceRecords
  BY DEF DeviceRecords, CallbackInsert
<1>2. UnregisterDrvExtMgrCallback(dv, cl) \in DeviceRecords
  BY DEF DeviceRecords, UnregisterDrvExtMgrCallback
<1>3. \A st \in CallerStates : [dv EXCEPT !.callers[cl] = st] \in DeviceRecords
  BY DEF DeviceRecords
<1>4. "none" \in CallerStates
  BY DEF CallerStates
<1> QED
  BY <1>1, <1>2, <1>3, <1>4 DEF RemoveCaller

\* The callback set and the callers are no part of the connection.
LEMMA RegisterCallbackKeeps ==
  ASSUME NEW d \in Devices, NEW dv \in DeviceRecords, NEW cs \in GoodConns,
         Own(d, dv, cs), NEW cl \in Clients,
         NEW o \in RegisterDrvExtMgrCallback(dv, cs, cl)
  PROVE  Kept(d, dv, cs, o) /\ o.dv.remote = dv.remote
<1> DEFINE reg == [dv EXCEPT !.callbacks = CallbackInsert(@, cl)]
<1>1. /\ reg.remote = dv.remote /\ reg.notifier = dv.notifier
      /\ reg.info = dv.info /\ reg.unRegisted = dv.unRegisted
  BY DEF DeviceRecords
<1>2. o \in {Outcome(reg, cs, TRUE), Outcome(reg, cs, FALSE)}
  BY DEF RegisterDrvExtMgrCallback, IfFaulty
<1>3. reg \in DeviceRecords
  BY CallbackTypes
<1>4. Kept(d, dv, cs, Outcome(reg, cs, TRUE)) /\ Kept(d, dv, cs, Outcome(reg, cs, FALSE))
  BY <1>1, <1>3, SameConnection
<1>5. Outcome(reg, cs, TRUE).dv = reg /\ Outcome(reg, cs, FALSE).dv = reg
  BY DEF Outcome
<1> QED
  BY <1>1, <1>2, <1>4, <1>5

\* A new notifier: the device keeps nothing of the old one's connections.
LEMMA NewNotifierKeeps ==
  ASSUME NEW d \in Devices, NEW dv \in DeviceRecords, NEW cs \in GoodConns,
         ~dv.remote, NEW cl \in Clients
  PROVE  LET nv == [UpdateDrvExtConnNotify(dv) EXCEPT !.callers[cl] = "pending"]
             o  == Outcome(nv, Orphaned(cs, d), TRUE)
         IN  Kept(d, dv, cs, o) /\ nv.notifier
<1> DEFINE up == UpdateDrvExtConnNotify(dv)
           nv == [up EXCEPT !.callers[cl] = "pending"]
           next == Orphaned(cs, d)
<1>1. /\ up \in DeviceRecords /\ ~up.remote /\ up.notifier /\ up.info = NoConn
      /\ up.unRegisted = dv.unRegisted
  BY DEF UpdateDrvExtConnNotify, DeviceRecords
<1>2. /\ nv \in DeviceRecords /\ ~nv.remote /\ nv.notifier /\ nv.info = NoConn
      /\ nv.unRegisted = dv.unRegisted
  <2> HIDE DEF up
  <2>1. "pending" \in CallerStates
    BY DEF CallerStates
  <2> QED
    BY <1>1, <2>1, CallbackTypes DEF DeviceRecords
<1> HIDE DEF nv, up
<1>3. \A c \in Conns : /\ next[c] \in Connections
                       /\ next[c].dev = cs[c].dev /\ next[c].phase = cs[c].phase
                       /\ cs[c].dev # d => next[c] = cs[c]
  BY DEF Orphaned, GoodConns, Connections
<1>4. next \in GoodConns
  <2>1. next \in [Conns -> Connections]
    BY <1>3 DEF Orphaned
  <2>2. \A c \in Conns : cs[c] = FreeConn => next[c] = cs[c]
    BY <1>3, ConnFacts, DeviceAssumption
  <2> QED
    BY <1>3, <2>1, <2>2 DEF GoodConns
<1>5. Own(d, nv, next)
  BY <1>2, ConnFacts DEF Own
<1>6. Keeps(d, cs, next)
  BY <1>3 DEF Keeps
<1> QED
  BY <1>2, <1>4, <1>5, <1>6 DEF Kept, Outcome, nv, up

\* Connect(connectCallback, callingTokenId).
LEMMA ConnectForClientKeeps ==
  ASSUME NEW d \in Devices, NEW dv \in DeviceRecords, NEW cs \in GoodConns,
         Own(d, dv, cs), NEW cl \in Clients,
         NEW o \in ConnectForClient(d, dv, cs, cl)
  PROVE  Kept(d, dv, cs, o)
<1> DEFINE bound(p) == Outcome([p.dv EXCEPT !.callers[cl] = "bound"], p.cs, TRUE)
           noted(p) == [UpdateDrvExtConnNotify(p.dv) EXCEPT !.callers[cl] = "pending"]
           asked(p) == ConnectDriverExtension(d, noted(p), Orphaned(p.cs, d))
           undone(q) == RemoveCaller(UnregisterDrvExtMgrCallback(q.dv, cl), cl)
<1>1. PICK p \in RegisterDrvExtMgrCallback(dv, cs, cl) :
        \/ o = p
        \/ dv.remote /\ o = bound(p)
        \/ /\ ~dv.remote
           /\ \E q \in asked(p) : o = q \/ o = Outcome(undone(q), q.cs, FALSE)
  BY DEF ConnectForClient
<1>2. /\ Kept(d, dv, cs, p) /\ p.dv.remote = dv.remote
      /\ p.dv \in DeviceRecords /\ p.cs \in GoodConns /\ Own(d, p.dv, p.cs)
  BY RegisterCallbackKeeps DEF Kept
<1>3. CASE o = p
  BY <1>2, <1>3
<1>4. CASE o = bound(p)
  <2>1. [p.dv EXCEPT !.callers[cl] = "bound"] \in DeviceRecords
    BY <1>2, CallbackTypes DEF CallerStates
  <2>2. Kept(d, p.dv, p.cs, bound(p))
    BY <1>2, <2>1, SameConnection DEF DeviceRecords
  <2> QED
    BY <1>2, <1>4, <2>2, KeptTwice
<1>5. ASSUME ~dv.remote, NEW q \in asked(p), o = q \/ o = Outcome(undone(q), q.cs, FALSE)
      PROVE  Kept(d, dv, cs, o)
  <2> DEFINE mid == Outcome(noted(p), Orphaned(p.cs, d), TRUE)
  <2>1. Kept(d, p.dv, p.cs, mid) /\ noted(p).notifier
    BY <1>2, <1>5, NewNotifierKeeps
  <2>2. mid.dv = noted(p) /\ mid.cs = Orphaned(p.cs, d)
    BY DEF Outcome
  <2>3. Kept(d, mid.dv, mid.cs, q)
    <3>1. /\ noted(p) \in DeviceRecords /\ Orphaned(p.cs, d) \in GoodConns
          /\ Own(d, noted(p), Orphaned(p.cs, d))
      BY <2>1, <2>2 DEF Kept
    <3> QED
      BY <2>1, <2>2, <3>1, ConnectDriverExtensionKeeps
  <2>4. Kept(d, dv, cs, q)
    BY <1>2, <2>1, <2>3, KeptTwice
  <2>5. Kept(d, q.dv, q.cs, Outcome(undone(q), q.cs, FALSE))
    <3> DEFINE gone == UnregisterDrvExtMgrCallback(q.dv, cl)
    <3>1. q.dv \in DeviceRecords /\ q.cs \in GoodConns /\ Own(d, q.dv, q.cs)
      BY <2>4 DEF Kept
    <3>2. /\ gone \in DeviceRecords
          /\ gone.remote = q.dv.remote /\ gone.notifier = q.dv.notifier
          /\ gone.info = q.dv.info /\ gone.unRegisted = q.dv.unRegisted
      BY <3>1, CallbackTypes DEF UnregisterDrvExtMgrCallback, DeviceRecords
    <3> HIDE DEF gone
    <3>3. /\ RemoveCaller(gone, cl) \in DeviceRecords
          /\ RemoveCaller(gone, cl).remote = gone.remote
          /\ RemoveCaller(gone, cl).notifier = gone.notifier
          /\ RemoveCaller(gone, cl).info = gone.info
          /\ RemoveCaller(gone, cl).unRegisted = gone.unRegisted
      BY <3>2, CallbackTypes DEF RemoveCaller, DeviceRecords
    <3> QED
      BY <3>1, <3>2, <3>3, SameConnection DEF gone
  <2> QED
    BY <1>5, <2>4, <2>5, KeptTwice
<1> QED
  BY <1>1, <1>3, <1>4, <1>5

\* Disconnect only asks for the end of the device's own connection.
LEMMA DisconnectKeeps ==
  ASSUME NEW d \in Devices, NEW dv \in DeviceRecords, NEW cs \in GoodConns,
         Own(d, dv, cs), NEW o \in Disconnect(dv, cs)
  PROVE  Kept(d, dv, cs, o) /\ o.dv = dv
<1> DEFINE next == [cs EXCEPT ![dv.info].closing = TRUE]
<1>1. \/ o = Outcome(dv, cs, TRUE)
      \/ o = Outcome(dv, cs, FALSE)
      \/ dv.info \in Conns /\ o = Outcome(dv, next, TRUE)
  BY DEF Disconnect, DisconnectDriverExtension, IfFaulty
<1>2. CASE o = Outcome(dv, cs, TRUE) \/ o = Outcome(dv, cs, FALSE)
  BY <1>2, SameConnection DEF Outcome
<1>3. CASE dv.info \in Conns /\ o = Outcome(dv, next, TRUE)
  <2>1. cs[dv.info].dev = d /\ cs[dv.info].phase # "free" /\ cs[dv.info] \in Connections
    BY <1>3, ConnFacts, DeviceAssumption DEF Own, GoodConns
  <2>2. \A c \in Conns : c # dv.info => next[c] = cs[c]
    BY DEF GoodConns
  <2>3. /\ next[dv.info] \in Connections
        /\ next[dv.info].dev = d /\ next[dv.info].phase = cs[dv.info].phase
        /\ next[dv.info].notifies = cs[dv.info].notifies
    BY <1>3, <2>1 DEF GoodConns, Connections
  <2>4. next \in GoodConns
    <3>1. next \in [Conns -> Connections]
      BY <1>3, <2>2, <2>3 DEF GoodConns
    <3> QED
      BY <2>1, <2>2, <2>3, <3>1 DEF GoodConns
  <2>5. Own(d, dv, next)
    BY <1>3, <2>2, <2>3 DEF Own
  <2>6. Keeps(d, cs, next)
    BY <2>1, <2>2 DEF Keeps
  <2> QED
    BY <1>3, <2>4, <2>5, <2>6 DEF Kept, Outcome
<1> QED
  BY <1>1, <1>2, <1>3

-----------------------------------------------------------------------------
(***************************************************************************)
(* All devices together.                                                   *)
(***************************************************************************)
\* An outcome for one device leaves the others coherent.
LEMMA OneDevice ==
  ASSUME NEW dvs, NEW cs, AllGood(dvs, cs), NEW d \in Devices,
         NEW o, Kept(d, dvs[d], cs, o)
  PROVE  AllGood([dvs EXCEPT ![d] = o.dv], o.cs)
<1>1. ASSUME NEW e \in Devices, e # d
      PROVE  Own(e, dvs[e], o.cs)
  <2>1. \A c \in Conns : cs[c].dev = e => o.cs[c] = cs[c]
    BY <1>1, DeviceAssumption DEF Kept, Keeps
  <2> QED
    BY <1>1, <2>1 DEF AllGood, Own
<1>2. \A e \in Devices : [dvs EXCEPT ![d] = o.dv][e] = IF e = d THEN o.dv ELSE dvs[e]
  BY DEF AllGood
<1>3. \A e \in Devices : Own(e, [dvs EXCEPT ![d] = o.dv][e], o.cs)
  BY <1>1, <1>2 DEF Kept
<1>4. [dvs EXCEPT ![d] = o.dv] \in [Devices -> DeviceRecords] /\ o.cs \in GoodConns
  BY DEF Kept, AllGood
<1> QED
  BY <1>3, <1>4 DEF AllGood

\* A device object that is gone, or new, and a connection that has ended.
LEMMA OneFreshDevice ==
  ASSUME NEW dvs, NEW cs, AllGood(dvs, cs), NEW d \in Devices
  PROVE  AllGood([dvs EXCEPT ![d] = FreshDevice], Orphaned(cs, d))
<1> DEFINE next == Orphaned(cs, d)
<1>1. cs \in GoodConns
  BY DEF AllGood
<1>2. \A c \in Conns : /\ next[c] \in Connections
                       /\ next[c].dev = cs[c].dev /\ next[c].phase = cs[c].phase
                       /\ cs[c].dev # d => next[c] = cs[c]
  BY <1>1 DEF Orphaned, GoodConns, Connections
<1>3. next \in GoodConns
  <2>1. next \in [Conns -> Connections]
    BY <1>2 DEF Orphaned
  <2>2. \A c \in Conns : cs[c] = FreeConn => next[c] = cs[c]
    BY <1>2, ConnFacts, DeviceAssumption
  <2> QED
    BY <1>1, <1>2, <2>1, <2>2 DEF GoodConns
<1>4. Own(d, FreshDevice, next)
  BY ConnFacts DEF Own, FreshDevice
<1>5. ASSUME NEW e \in Devices, e # d
      PROVE  Own(e, dvs[e], next)
  BY <1>2, <1>5 DEF AllGood, Own
<1>6. \A e \in Devices :
        [dvs EXCEPT ![d] = FreshDevice][e] = IF e = d THEN FreshDevice ELSE dvs[e]
  BY DEF AllGood
<1>7. [dvs EXCEPT ![d] = FreshDevice] \in [Devices -> DeviceRecords]
  BY ConnFacts DEF AllGood
<1> QED
  BY <1>3, <1>4, <1>5, <1>6, <1>7 DEF AllGood

\* A connection that was asked to end, or as it was.
SameButClosing(k, n) ==
  n.dev = k.dev /\ n.drv = k.drv /\ n.phase = k.phase /\ n.notifies = k.notifies

\* StopDriverExtension asks connections to the driver to end, and no others.
LEMMA StopKeeps ==
  ASSUME NEW cs \in GoodConns, NEW r, NEW next \in StopDriverExtension(cs, r)
  PROVE  /\ next \in GoodConns
         /\ \A c \in Conns : SameButClosing(cs[c], next[c])
         /\ \A c \in Conns : next[c] = cs[c] \/ (cs[c].phase # "free" /\ cs[c].drv = r)
<1> DEFINE ended(c) == [cs[c] EXCEPT !.closing = TRUE]
<1>0. PICK S \in SUBSET {c \in Conns : cs[c].phase # "free" /\ cs[c].drv = r} :
        next = [c \in Conns |-> IF c \in S THEN ended(c) ELSE cs[c]]
  BY DEF StopDriverExtension
<1>1. \A c \in Conns : \/ next[c] = cs[c]
                       \/ /\ next[c] = ended(c)
                          /\ cs[c].phase # "free" /\ cs[c].drv = r
  BY <1>0
<1>2. \A c \in Conns : ended(c) \in Connections /\ SameButClosing(cs[c], ended(c))
  BY DEF GoodConns, Connections, SameButClosing
<1>3. \A c \in Conns : SameButClosing(cs[c], cs[c])
  BY DEF GoodConns, SameButClosing
<1> HIDE DEF ended
<1>4. \A c \in Conns : SameButClosing(cs[c], next[c]) /\ next[c] \in Connections
  BY <1>1, <1>2, <1>3 DEF GoodConns
<1>5. next \in [Conns -> Connections]
  BY <1>0, <1>2 DEF GoodConns
<1>6. next \in GoodConns
  BY <1>1, <1>4, <1>5, ConnFacts DEF GoodConns, SameButClosing
<1> QED
  BY <1>1, <1>4, <1>6

LEMMA StopGood ==
  ASSUME NEW dvs, NEW cs, AllGood(dvs, cs), NEW r, NEW next \in StopDriverExtension(cs, r)
  PROVE  AllGood(dvs, next)
<1>1. cs \in GoodConns
  BY DEF AllGood
<1>2. next \in GoodConns /\ \A c \in Conns : SameButClosing(cs[c], next[c])
  BY <1>1, StopKeeps
<1>3. \A d \in Devices : Own(d, dvs[d], next)
  BY <1>2 DEF AllGood, Own, SameButClosing
<1> QED
  BY <1>2, <1>3 DEF AllGood

\* AddDevIdOfBundleInfoMap, for a device as it was or with a driver added.
LEMMA AddDevIdKeeps ==
  ASSUME AllGood(device, conn), bundleMatchMap \in [Drivers -> SUBSET Devices],
         NEW d \in Devices, NEW dv \in DeviceRecords, dv.bundleInfo \in Drivers,
         Kept(d, device[d], conn, Outcome(dv, conn, TRUE)),
         AddDevIdOfBundleInfoMap(d, dv)
  PROVE  /\ AllGood(device', conn')
         /\ bundleMatchMap' \in [Drivers -> SUBSET Devices]
         /\ device' \in [Devices -> DeviceRecords]
         /\ \A e \in Devices : device'[e].unRegisted = device[e].unRegisted
<1>1. PICK o \in ConnectMatched(d, dv, conn) :
        device' = [device EXCEPT ![d] = o.dv] /\ conn' = o.cs
  BY DEF AddDevIdOfBundleInfoMap
<1>2. Own(d, dv, conn) /\ conn \in GoodConns
  BY DEF Kept, Outcome
<1>3. \/ o = Outcome(dv, conn, FALSE)
      \/ o = Outcome(dv, conn, TRUE)
      \/ o \in ConnectOnMatch(d, dv, conn)
  BY <1>1 DEF ConnectMatched
<1>4. Kept(d, dv, conn, o)
  BY <1>2, <1>3, SameConnection, ConnectOnMatchKeeps
<1>5. Kept(d, device[d], conn, o)
  BY <1>4, KeptTwice DEF Outcome
<1>6. AllGood(device', conn')
  BY <1>1, <1>5, OneDevice
<1>7. bundleMatchMap' \in [Drivers -> SUBSET Devices]
  BY DEF AddDevIdOfBundleInfoMap
<1>8. \A e \in Devices : device'[e].unRegisted = device[e].unRegisted
  BY <1>1, <1>5 DEF Kept, AllGood
<1> QED
  BY <1>6, <1>7, <1>8 DEF AllGood

\* The rows and threads after a call of the package manager have their types.
PkgRecords == [initOnce : BOOLEAN, rows : SUBSET DriverRows]

LEMMA JobTypes ==
  /\ NoJob \in Jobs /\ GetAllJob \in Jobs
  /\ \A b \in Bundles \cup {AllBundles} : DeleteJob(b) \in Jobs
  /\ \A b \in Bundles, u \in Users : UpdateJob(b, u) \in Jobs
  /\ \A ids \in SUBSET Devices : MatchJob(ids) \in Jobs
  /\ \A u \in Users : ClearJob(u) \in Jobs
BY DEF NoJob, GetAllJob, DeleteJob, UpdateJob, MatchJob, ClearJob, Job, Jobs, JobRecords

LEMMA SpawnedTypes ==
  ASSUME NEW ts \in [Threads -> Jobs], NEW job \in Jobs, NEW next \in Spawned(ts, job)
  PROVE  next \in [Threads -> Jobs]
BY DEF Spawned

LEMMA UpdateToRdbTypes ==
  ASSUME TypeOK, NEW ts \in [Threads -> Jobs], NEW g \in PkgRecords,
         NEW b \in Bundles \cup {AllBundles}, NEW r \in UpdateToRdb(ts, g, b)
  PROVE  r.pkg \in PkgRecords /\ r.threads \in [Threads -> Jobs]
<1>1. DeleteJob(b) \in Jobs
  BY JobTypes
<1>2. pkg \in PkgRecords
  BY DEF TypeOK, PkgRecords
<1> QED
  BY <1>1, <1>2, SpawnedTypes DEF UpdateToRdb, IfFaulty, Result

LEMMA GetAllDriverInfosTypes ==
  ASSUME TypeOK, NEW r \in GetAllDriverInfos
  PROVE  r.pkg \in PkgRecords /\ r.threads \in [Threads -> Jobs]
<1> DEFINE loaded == LoadedFor(account.user, apps[account.user])
<1>1. pkg \in PkgRecords /\ threads \in [Threads -> Jobs]
  BY DEF TypeOK, PkgRecords
<1>2. loaded \in PkgRecords
  BY DEF TypeOK, PkgRecords, LoadedFor, RowsOf, DriverRows
<1>3. CASE pkg.initOnce
  BY <1>1, <1>3 DEF GetAllDriverInfos, Result
<1>4. CASE ~pkg.initOnce
  <2> HIDE DEF loaded
  <2>1. r \in UpdateToRdb(threads, loaded, AllBundles)
    BY <1>4 DEF GetAllDriverInfos, loaded
  <2> QED
    BY <1>1, <1>2, <2>1, UpdateToRdbTypes
<1> QED
  BY <1>3, <1>4

LEMMA QueryMatchDriverTypes ==
  ASSUME TypeOK, NEW d \in Devices, NEW q \in QueryMatchDriver(d)
  PROVE  /\ q.row \in DriverRows \cup {NoDriver}
         /\ q.pkg \in PkgRecords /\ q.threads \in [Threads -> Jobs]
<1>1. PICK g \in GetAllDriverInfos :
        /\ q.row = NoDriver \/ q.row \in g.pkg.rows
        /\ q.pkg = g.pkg /\ q.threads = g.threads
  BY DEF QueryMatchDriver
<1>2. g.pkg \in PkgRecords /\ g.threads \in [Threads -> Jobs]
  BY GetAllDriverInfosTypes
<1> QED
  BY <1>1, <1>2 DEF PkgRecords

\* A device that is given a driver keeps its connection.
LEMMA AddBundleInfoKeeps ==
  ASSUME NEW d \in Devices, NEW dv \in DeviceRecords, NEW cs \in GoodConns,
         Own(d, dv, cs), NEW row \in DriverRows
  PROVE  /\ AddBundleInfo(dv, row) \in DeviceRecords
         /\ AddBundleInfo(dv, row).bundleInfo \in Drivers
         /\ Kept(d, dv, cs, Outcome(AddBundleInfo(dv, row), cs, TRUE))
<1>1. /\ AddBundleInfo(dv, row) \in DeviceRecords
      /\ AddBundleInfo(dv, row).bundleInfo \in Drivers
  BY DEF AddBundleInfo, DeviceRecords, DriverRows
<1>2. /\ AddBundleInfo(dv, row).remote = dv.remote
      /\ AddBundleInfo(dv, row).notifier = dv.notifier
      /\ AddBundleInfo(dv, row).info = dv.info
      /\ AddBundleInfo(dv, row).unRegisted = dv.unRegisted
  BY DEF AddBundleInfo, DeviceRecords
<1> QED
  BY <1>1, <1>2, SameConnection

\* A device that is reset loses its driver and its remote object.
LEMMA ResetKeeps ==
  ASSUME NEW d \in Devices, NEW dv \in DeviceRecords, NEW cs \in GoodConns, Own(d, dv, cs)
  PROVE  LET nv == RemoveDriverInfo(ClearDrvExtRemote(RemoveBundleInfo(dv)))
         IN  Kept(d, dv, cs, Outcome(nv, cs, TRUE))
<1> DEFINE nv == RemoveDriverInfo(ClearDrvExtRemote(RemoveBundleInfo(dv)))
<1>1. /\ nv \in DeviceRecords /\ ~nv.remote /\ nv.notifier = dv.notifier
      /\ nv.info = dv.info /\ nv.unRegisted = dv.unRegisted
  BY DEF RemoveDriverInfo, ClearDrvExtRemote, RemoveBundleInfo, DeviceRecords
<1> HIDE DEF nv
<1>2. Own(d, nv, cs) /\ Keeps(d, cs, cs)
  BY <1>1 DEF Own, Keeps
<1> QED
  BY <1>1, <1>2 DEF Kept, Outcome, nv

-----------------------------------------------------------------------------
(***************************************************************************)
(* The actions.  Calm steps list no device that was not listed and concern *)
(* neither the bus thread nor the timer.                                   *)
(***************************************************************************)
Calm == /\ QueryDevice' \subseteq QueryDevice
        /\ UNCHANGED <<bus, plugged, unload, running>>

\* A step that changes only device d, to an outcome it may have.
LEMMA OneOutcome ==
  ASSUME IInv, NEW d \in Devices, NEW o, Kept(d, device[d], conn, o),
         device' = [device EXCEPT ![d] = o.dv], conn' = o.cs,
         UNCHANGED <<deviceMap, bundleMatchMap, bus, threads, unload, running, pkg, external>>
  PROVE  IInv' /\ Calm
<1>1. AllGood(device', conn')
  BY OneDevice DEF IInv
<1>2. \A e \in Devices : device'[e].unRegisted = device[e].unRegisted
  BY DEF IInv, AllGood, Kept
<1>3. Calm
  BY <1>2 DEF Calm, QueryDevice, Visible, IInv, TypeOK, external
<1>4. TypeOK'
  BY <1>1 DEF IInv, TypeOK, AllGood, GoodConns, external
<1>5. BusOK'
  BY DEF IInv, BusOK, external
<1> QED
  BY <1>1, <1>3, <1>4, <1>5 DEF IInv

\* The part of the invariant that a device's operators assume.
LEMMA DeviceFacts ==
  ASSUME IInv, NEW d \in Devices
  PROVE  device[d] \in DeviceRecords /\ conn \in GoodConns /\ Own(d, device[d], conn)
BY DEF IInv, AllGood

\* Devices change, but none is marked, added or erased.
LEMMA DevicesStep ==
  ASSUME IInv, AllGood(device', conn'), TypeOK',
         \A e \in Devices : device'[e].unRegisted = device[e].unRegisted,
         UNCHANGED <<deviceMap, bus, unload, running, plugged>>
  PROVE  IInv' /\ Calm
BY DEF IInv, BusOK, Calm, QueryDevice, Visible, TypeOK

LEMMA RemoveCallerKeeps ==
  ASSUME NEW d \in Devices, NEW dv \in DeviceRecords, NEW cs \in GoodConns,
         Own(d, dv, cs), NEW cl \in Clients
  PROVE  Kept(d, dv, cs, Outcome(RemoveCaller(dv, cl), cs, TRUE))
<1>1. /\ RemoveCaller(dv, cl).remote = dv.remote
      /\ RemoveCaller(dv, cl).notifier = dv.notifier
      /\ RemoveCaller(dv, cl).info = dv.info
      /\ RemoveCaller(dv, cl).unRegisted = dv.unRegisted
  BY DEF RemoveCaller, DeviceRecords
<1> QED
  BY <1>1, CallbackTypes, SameConnection

LEMMA BindStep ==
  ASSUME IInv, NEW d \in Devices, NEW cl \in Clients, BindResult(d, cl)
  PROVE  IInv' /\ Calm
<1>1. PICK o \in ConnectForClient(d, device[d], conn, cl) :
        device' = [device EXCEPT ![d] = o.dv] /\ conn' = o.cs
  BY DEF BindResult
<1>2. Kept(d, device[d], conn, o)
  BY DeviceFacts, ConnectForClientKeeps
<1> QED
  BY <1>1, <1>2, OneOutcome DEF BindResult

LEMMA UnbindStep ==
  ASSUME IInv, NEW d \in Devices, NEW cl \in Clients, UnbindResult(d, cl)
  PROVE  IInv' /\ Calm
<1>1. CASE device' = [device EXCEPT ![d] = RemoveCaller(@, cl)] /\ UNCHANGED conn
  <2> DEFINE o == Outcome(RemoveCaller(device[d], cl), conn, TRUE)
  <2>1. Kept(d, device[d], conn, o)
    BY DeviceFacts, RemoveCallerKeeps
  <2>2. o.dv = RemoveCaller(device[d], cl) /\ o.cs = conn
    BY DEF Outcome
  <2>3. device' = [device EXCEPT ![d] = o.dv] /\ conn' = o.cs
    BY <1>1, <2>2
  <2> HIDE DEF o
  <2> QED
    BY <2>1, <2>3, OneOutcome DEF UnbindResult
<1>2. CASE \E o \in Disconnect(device[d], conn) :
             device' = [device EXCEPT ![d] = o.dv] /\ conn' = o.cs
  <2>1. PICK o \in Disconnect(device[d], conn) :
          device' = [device EXCEPT ![d] = o.dv] /\ conn' = o.cs
    BY <1>2
  <2>2. Kept(d, device[d], conn, o)
    BY DeviceFacts, DisconnectKeeps
  <2> QED
    BY <2>1, <2>2, OneOutcome DEF UnbindResult
<1> QED
  BY <1>1, <1>2 DEF UnbindResult

LEMMA OnRemoteDiedStep ==
  ASSUME IInv, NEW cl \in Clients, OnRemoteDied(cl)
  PROVE  IInv' /\ Calm
<1>1. \A d \in Devices : device'[d] = UnregisterDrvExtMgrCallback(device[d], cl)
  BY DEF OnRemoteDied
<1>2. \A d \in Devices :
        /\ device'[d] \in DeviceRecords
        /\ device'[d].remote = device[d].remote
        /\ device'[d].notifier = device[d].notifier
        /\ device'[d].info = device[d].info
        /\ device'[d].unRegisted = device[d].unRegisted
  <2> TAKE d \in Devices
  <2>1. device[d] \in DeviceRecords
    BY DeviceFacts
  <2>2. UnregisterDrvExtMgrCallback(device[d], cl) \in DeviceRecords
    BY <2>1, CallbackTypes
  <2> QED
    BY <1>1, <2>1, <2>2 DEF UnregisterDrvExtMgrCallback, DeviceRecords
<1>3. device' \in [Devices -> DeviceRecords]
  BY <1>2 DEF OnRemoteDied
<1>4. UNCHANGED <<deviceMap, conn, bundleMatchMap, bus, threads, unload,
                  running, pkg, external>>
  BY DEF OnRemoteDied
<1>5. AllGood(device', conn')
  BY <1>2, <1>3, <1>4 DEF IInv, AllGood, Own
<1>6. TypeOK' /\ BusOK'
  BY <1>3, <1>4 DEF IInv, TypeOK, BusOK, external
<1>7. Calm
  BY <1>2, <1>4 DEF Calm, QueryDevice, Visible, IInv, TypeOK, external
<1> QED
  BY <1>5, <1>6, <1>7 DEF IInv

LEMMA ClientStep ==
  ASSUME IInv, Client
  PROVE  IInv' /\ Calm
<1>1. \/ \E d \in Devices, cl \in Clients : BindResult(d, cl) \/ UnbindResult(d, cl)
      \/ \E cl \in Clients : OnRemoteDied(cl)
  BY DEF Client, ConnectDevice, ConnectDriverWithDeviceId, DisConnectDevice,
         DisConnectDriverWithDeviceId
<1> QED
  BY <1>1, BindStep, UnbindStep, OnRemoteDiedStep

LEMMA OnConnectDoneStep ==
  ASSUME IInv, NEW c \in Conns, NEW ok \in BOOLEAN, OnConnectDone(c, ok)
  PROVE  IInv' /\ Calm
<1> DEFINE d == conn[c].dev
           up == [conn[c] EXCEPT !.phase = "connected"]
<1>1. /\ conn \in GoodConns /\ conn[c] \in Connections /\ conn[c].phase = "connecting"
      /\ d \in Devices
      /\ conn' = [conn EXCEPT ![c] = IF ok THEN up ELSE FreeConn]
      /\ UNCHANGED <<deviceMap, bundleMatchMap, bus, threads, unload, running, pkg, external>>
  BY ConnFacts DEF IInv, AllGood, GoodConns, OnConnectDone
<1>2. /\ up \in Connections /\ up.dev = d /\ up.notifies = conn[c].notifies
      /\ up.phase = "connected"
  BY <1>1 DEF Connections
<1>3. conn' \in GoodConns /\ \A b \in Conns \ {c} : conn'[b] = conn[b]
  <2>1. conn' \in [Conns -> Connections]
    BY <1>1, <1>2, ConnFacts DEF GoodConns
  <2> QED
    BY <1>1, <1>2, <2>1 DEF GoodConns
<1>4. conn'[c] = IF ok THEN up ELSE FreeConn
  BY <1>1 DEF GoodConns
<1>5. CASE ~conn[c].notifies
  <2>1. device' = device
    BY <1>5 DEF OnConnectDone
  <2>2. \A e \in Devices : Own(e, device[e], conn')
    <3> SUFFICES ASSUME NEW e \in Devices PROVE Own(e, device[e], conn')
      OBVIOUS
    <3>1. Own(e, device[e], conn)
      BY DeviceFacts
    <3> QED
      BY <1>1, <1>3, <1>5, <3>1 DEF Own
  <2>3. AllGood(device', conn')
    BY <1>3, <2>1, <2>2 DEF AllGood, IInv
  <2>4. TypeOK' /\ BusOK' /\ Calm
    BY <1>1, <1>3, <2>1 DEF IInv, TypeOK, BusOK, GoodConns, Calm, QueryDevice, Visible, external
  <2> QED
    BY <2>3, <2>4 DEF IInv
<1>6. CASE conn[c].notifies
  <2> DEFINE lost == IF ok THEN device[d] ELSE LostInfo(device[d], c)
             nv == OnConnect(lost, ok)
             o == Outcome(nv, conn', TRUE)
  <2>1. device' = [device EXCEPT ![d] = nv]
    BY <1>6 DEF OnConnectDone, IInv, TypeOK
  <2>2. device[d] \in DeviceRecords /\ Own(d, device[d], conn)
    BY <1>1, DeviceFacts
  <2>3. /\ lost \in DeviceRecords /\ lost.notifier = device[d].notifier
        /\ lost.unRegisted = device[d].unRegisted
        /\ IF ~ok /\ device[d].info = c THEN lost.info = Dangling
           ELSE lost.info = device[d].info
    BY <2>2 DEF LostInfo, DeviceRecords
  <2> HIDE DEF lost
  <2>4. /\ nv \in DeviceRecords /\ nv.notifier = lost.notifier /\ nv.remote = ok
        /\ nv.unRegisted = lost.unRegisted /\ nv.info = lost.info
    <3>1. [cl \in Clients |-> IF lost.callers[cl] = "none" THEN "none" ELSE "bound"]
            \in [Clients -> CallerStates]
      BY DEF CallerStates
    <3> QED
      BY <2>3, <3>1 DEF OnConnect, DeviceRecords
  <2> HIDE DEF nv
  <2>5. Own(d, nv, conn')
    <3>1. nv.remote => \E b \in Conns : /\ conn'[b].dev = d /\ conn'[b].notifies
                                        /\ conn'[b].phase = "connected"
      BY <1>2, <1>4, <1>6, <2>4
    <3>2. nv.info \in Conns => conn'[nv.info].dev = d /\ conn'[nv.info].notifies
      <4>1. CASE nv.info = c
        <5>1. ok
          BY <2>3, <2>4, <4>1, ConnFacts
        <5> QED
          BY <1>2, <1>4, <1>6, <4>1, <5>1
      <4>2. CASE nv.info \in Conns \ {c}
        <5>1. nv.info = device[d].info
          BY <2>3, <2>4, <4>2, ConnFacts
        <5> QED
          BY <1>3, <2>2, <4>2, <5>1 DEF Own
      <4> QED
        BY <4>1, <4>2
    <3>3. ~nv.notifier => nv.info = NoConn
      BY <2>2, <2>3, <2>4, ConnFacts DEF Own
    <3> QED
      BY <3>1, <3>2, <3>3 DEF Own
  <2>6. Keeps(d, conn, conn')
    BY <1>3 DEF Keeps
  <2>7. o.dv = nv /\ o.cs = conn' /\ Kept(d, device[d], conn, o)
    BY <1>3, <2>3, <2>4, <2>5, <2>6 DEF Kept, Outcome
  <2> HIDE DEF o, d
  <2>8. device' = [device EXCEPT ![d] = o.dv] /\ conn' = o.cs
    BY <2>1, <2>7
  <2> QED
    BY <1>1, <2>7, <2>8, OneOutcome
<1> QED
  BY <1>5, <1>6 DEF IInv, AllGood, GoodConns, Connections

\* The end of a connection, in the table alone.
LEMMA FreedConn ==
  ASSUME NEW cs \in GoodConns, NEW c \in Conns
  PROVE  LET freed == [cs EXCEPT ![c] = FreeConn]
         IN  /\ freed \in GoodConns /\ freed[c] = FreeConn
             /\ \A b \in Conns \ {c} : freed[b] = cs[b]
             /\ Keeps(cs[c].dev, cs, freed)
BY ConnFacts DEF GoodConns, Keeps

LEMMA OnDisconnectDoneStep ==
  ASSUME IInv, NEW c \in Conns, OnDisconnectDone(c)
  PROVE  IInv' /\ Calm
<1> DEFINE d == conn[c].dev
           freed == [conn EXCEPT ![c] = FreeConn]
           nv == OnDisconnect(device[d])
           o == Outcome(nv, freed, TRUE)
<1>1. /\ conn \in GoodConns /\ conn[c] \in Connections /\ conn[c].phase # "free"
      /\ d \in Devices /\ device[d] \in DeviceRecords /\ Own(d, device[d], conn)
      /\ UNCHANGED <<bundleMatchMap, bus, threads, unload, running, pkg, external>>
  BY ConnFacts, DeviceFacts DEF IInv, AllGood, GoodConns, OnDisconnectDone
<1>2. /\ freed \in GoodConns /\ freed[c] = FreeConn
      /\ \A b \in Conns \ {c} : freed[b] = conn[b]
      /\ Keeps(d, conn, freed)
  BY <1>1, FreedConn
<1>3. /\ nv \in DeviceRecords /\ ~nv.remote /\ nv.notifier = device[d].notifier
      /\ nv.unRegisted = device[d].unRegisted /\ nv.info \notin Conns
      /\ ~nv.notifier => nv.info = NoConn
  <2>1. NoCallers \in [Clients -> CallerStates]
    BY DEF NoCallers, CallerStates
  <2> QED
    BY <1>1, <2>1, ConnFacts DEF OnDisconnect, DeviceRecords, Own
<1> HIDE DEF nv
<1>4. Kept(d, device[d], conn, o) /\ o.dv = nv /\ o.cs = freed
  BY <1>2, <1>3 DEF Kept, Own, Outcome
<1>5. AllGood([device EXCEPT ![d] = nv], freed)
  <2> HIDE DEF o, d
  <2>1. AllGood([device EXCEPT ![d] = o.dv], o.cs)
    BY <1>1, <1>4, OneDevice DEF IInv
  <2> QED
    BY <1>4, <2>1
<1> DEFINE r == device[d].bundleInfo
<1>6. CASE conn[c].notifies /\ device[d].unRegisted
  <2>1. /\ deviceMap' = deviceMap \ {d}
        /\ device' = [device EXCEPT ![d] = FreshDevice]
        /\ \E cs \in StopDriverExtension(freed, r) : conn' = Orphaned(cs, d)
    BY <1>6 DEF OnDisconnectDone
  <2>2. PICK cs \in StopDriverExtension(freed, r) : conn' = Orphaned(cs, d)
    BY <2>1
  <2>3. AllGood([device EXCEPT ![d] = nv], cs)
    BY <1>5, <2>2, StopGood
  <2>4. AllGood([[device EXCEPT ![d] = nv] EXCEPT ![d] = FreshDevice], Orphaned(cs, d))
    BY <1>1, <2>3, OneFreshDevice
  <2>5. [[device EXCEPT ![d] = nv] EXCEPT ![d] = FreshDevice] = device'
    BY <2>1 DEF IInv, AllGood
  <2>6. AllGood(device', conn')
    BY <2>2, <2>4, <2>5
  <2>7. TypeOK' /\ BusOK'
    BY <1>1, <2>1, <2>6 DEF IInv, TypeOK, BusOK, AllGood, GoodConns, external
  <2>8. Calm
    BY <1>1, <2>1 DEF Calm, QueryDevice, Visible, IInv, TypeOK, external
  <2> QED
    BY <2>6, <2>7, <2>8 DEF IInv
<1>7. CASE conn[c].notifies /\ ~device[d].unRegisted
  <2>1. /\ device' = [device EXCEPT ![d] = nv]
        /\ conn' \in StopDriverExtension(freed, r)
        /\ UNCHANGED deviceMap
    BY <1>7 DEF OnDisconnectDone, nv
  <2>2. AllGood(device', conn')
    BY <1>5, <2>1, StopGood
  <2>3. TypeOK'
    BY <1>1, <2>1, <2>2 DEF IInv, TypeOK, AllGood, GoodConns, external
  <2>4. \A e \in Devices : device'[e].unRegisted = device[e].unRegisted
    BY <1>1, <1>3, <2>1 DEF IInv, AllGood
  <2> QED
    BY <1>1, <2>1, <2>2, <2>3, <2>4, DevicesStep DEF external
<1>8. CASE ~conn[c].notifies
  <2>1. conn' = freed /\ UNCHANGED <<device, deviceMap>>
    BY <1>8 DEF OnDisconnectDone
  <2>2. \A e \in Devices : Own(e, device[e], freed)
    <3> SUFFICES ASSUME NEW e \in Devices PROVE Own(e, device[e], freed)
      OBVIOUS
    <3>1. Own(e, device[e], conn)
      BY DeviceFacts
    <3> QED
      BY <1>2, <1>8, <3>1 DEF Own
  <2>3. AllGood(device', conn')
    BY <1>2, <2>1, <2>2 DEF AllGood, IInv
  <2>4. TypeOK'
    BY <1>1, <2>1, <2>3 DEF IInv, TypeOK, AllGood, GoodConns, external
  <2> QED
    BY <1>1, <2>1, <2>3, <2>4, DevicesStep DEF external
<1> QED
  BY <1>6, <1>7, <1>8

\* A step that concerns neither the devices nor their connections.
LEMMA OtherStep ==
  ASSUME IInv, TypeOK', UNCHANGED <<device, deviceMap, conn, bus, unload, running, plugged>>
  PROVE  IInv' /\ Calm
BY DEF IInv, AllGood, BusOK, Calm, QueryDevice, Visible

LEMMA PackagesStep ==
  ASSUME IInv, NEW b \in UpdatableBundles, NEW u \in Users, NEW S \in SUBSET Drivers,
         OnBundleChanged(b, u, S)
  PROVE  IInv' /\ Calm
<1>1. TypeOK /\ b \in Bundles
  BY BoundAssumption DEF IInv
<1>2. threads' \in [Threads -> Jobs]
  BY <1>1, JobTypes, SpawnedTypes DEF OnBundleChanged, TypeOK
<1>3. apps' \in [Users -> SUBSET Drivers]
  BY <1>1 DEF OnBundleChanged, TypeOK
<1>4. TypeOK'
  BY <1>1, <1>2, <1>3 DEF OnBundleChanged, TypeOK
<1> QED
  BY <1>4, OtherStep DEF OnBundleChanged

LEMMA AccountsStep ==
  ASSUME IInv, Accounts
  PROVE  IInv' /\ Calm
<1>1. TypeOK
  BY DEF IInv
<1>2. ASSUME NEW u \in Switchable, OnAccountsSwitching(u)
      PROVE  IInv' /\ Calm
  <2>1. u \in Users
    BY BoundAssumption
  <2>2. threads' \in [Threads -> Jobs]
    BY <1>1, <1>2, JobTypes, SpawnedTypes DEF OnAccountsSwitching, TypeOK
  <2>3. TypeOK'
    BY <1>1, <1>2, <2>1, <2>2 DEF OnAccountsSwitching, TypeOK
  <2> QED
    BY <1>2, <2>3, OtherStep DEF OnAccountsSwitching
<1>3. CASE ForegroundChanges
  <2>1. TypeOK'
    BY <1>1, <1>3 DEF ForegroundChanges, TypeOK
  <2> QED
    BY <1>3, <2>1, OtherStep DEF ForegroundChanges
<1>4. CASE OnAccountsSwitched
  <2>1. threads' \in [Threads -> Jobs]
    BY <1>1, <1>4, JobTypes, SpawnedTypes DEF OnAccountsSwitched, TypeOK
  <2>2. TypeOK'
    BY <1>1, <1>4, <2>1 DEF OnAccountsSwitched, TypeOK
  <2> QED
    BY <1>4, <2>2, OtherStep DEF OnAccountsSwitched
<1> QED
  BY <1>2, <1>3, <1>4 DEF Accounts

\* The job of a thread changes to another job.
LEMMA JobChange ==
  ASSUME NEW ts \in [Threads -> Jobs], NEW t \in Threads, NEW j \in Jobs
  PROVE  [ts EXCEPT ![t] = j] \in [Threads -> Jobs]
OBVIOUS

LEMMA JobUpdates ==
  ASSUME NEW j \in Jobs, NEW todo \in SUBSET Devices, NEW dev \in Devices \cup {NoDevice}
  PROVE  /\ [j EXCEPT !.todo = todo, !.dev = dev] \in Jobs
         /\ [j EXCEPT !.todo = todo] \in Jobs /\ [j EXCEPT !.dev = dev] \in Jobs
         /\ [j EXCEPT !.kind = "match", !.todo = todo] \in Jobs
         /\ [j EXCEPT !.kind = "clear", !.todo = todo] \in Jobs
BY DEF Jobs, JobRecords

LEMMA DoneWithTypes ==
  ASSUME NEW ts \in [Threads -> Jobs], NEW t \in Threads, NEW d
  PROVE  DoneWith(ts, t, d) \in [Threads -> Jobs]
<1>1. /\ ts[t] \in Jobs /\ ts[t].todo \ {d} \in SUBSET Devices
  BY DEF Jobs, JobRecords
<1>2. [ts[t] EXCEPT !.todo = @ \ {d}, !.dev = NoDevice] \in Jobs
  BY <1>1, JobUpdates
<1>3. NoJob \in Jobs
  BY JobTypes
<1>4. \E j \in {NoJob, [ts[t] EXCEPT !.todo = @ \ {d}, !.dev = NoDevice]} :
        DoneWith(ts, t, d) = [ts EXCEPT ![t] = j]
  BY DEF DoneWith
<1> QED
  BY <1>2, <1>3, <1>4, JobChange

\* The jobs that touch no device.
LEMMA JobSteps ==
  ASSUME IInv, NEW t \in Threads,
         \/ GetAllDriverInfosAsync(t) \/ UpdateBundle(t)
         \/ DeleteBundlesOfBundleInfoMap(t) \/ LockDeviceMap(t) \/ ClearEnd(t)
  PROVE  IInv' /\ Calm
<1>1. TypeOK /\ threads \in [Threads -> Jobs] /\ threads[t] \in Jobs
  BY DEF IInv, TypeOK
<1>2. CASE GetAllDriverInfosAsync(t)
  <2>1. PICK g \in GetAllDriverInfos :
          pkg' = g.pkg /\ threads' = [g.threads EXCEPT ![t] = NoJob]
    BY <1>2 DEF GetAllDriverInfosAsync
  <2>2. pkg' \in PkgRecords /\ threads' \in [Threads -> Jobs]
    BY <1>1, <2>1, GetAllDriverInfosTypes, JobTypes, JobChange
  <2>3. TypeOK'
    BY <1>1, <1>2, <2>2 DEF GetAllDriverInfosAsync, TypeOK, PkgRecords, external
  <2> QED
    BY <1>2, <2>3, OtherStep DEF GetAllDriverInfosAsync, external
<1>3. CASE DeleteBundlesOfBundleInfoMap(t)
  <2> DEFINE b   == threads[t].arg
             hit == IF b = AllBundles THEN Drivers ELSE DriversOf(b)
             ids == IF b = AllBundles THEN {} ELSE UNION {bundleMatchMap[r] : r \in hit}
  <2>1. bundleMatchMap \in [Drivers -> SUBSET Devices] /\ hit \subseteq Drivers
    BY <1>1 DEF TypeOK, DriversOf
  <2>2. /\ bundleMatchMap' = [r \in Drivers |-> IF r \in hit THEN {} ELSE bundleMatchMap[r]]
        /\ threads' = [threads EXCEPT ![t] = MatchJob(ids)]
        /\ UNCHANGED <<device, deviceMap, conn, bus, unload, running, pkg, external>>
    BY <1>3 DEF DeleteBundlesOfBundleInfoMap
  <2> HIDE DEF hit
  <2>3. bundleMatchMap' \in [Drivers -> SUBSET Devices]
    BY <2>1, <2>2
  <2>4. ids \in SUBSET Devices
    BY <2>1
  <2>5. threads' \in [Threads -> Jobs]
    BY <1>1, <2>2, <2>4, JobTypes, JobChange
  <2>6. TypeOK'
    BY <1>1, <2>2, <2>3, <2>5 DEF TypeOK, external
  <2> QED
    BY <2>2, <2>6, OtherStep DEF external
<1>4. CASE LockDeviceMap(t)
  <2>1. PICK j \in {NoJob, [threads[t] EXCEPT !.kind = "match", !.todo = deviceMap],
                      [threads[t] EXCEPT !.kind = "clear", !.todo = deviceMap]} :
          threads' = [threads EXCEPT ![t] = j]
    BY <1>1, <1>4 DEF LockDeviceMap
  <2>2. deviceMap \in SUBSET Devices
    BY <1>1 DEF TypeOK
  <2>3. threads' \in [Threads -> Jobs]
    <3>1. j \in Jobs
      BY <1>1, <2>2, JobTypes, JobUpdates
    <3> QED
      BY <1>1, <2>1, <3>1, JobChange
  <2>4. TypeOK'
    BY <1>1, <1>4, <2>3 DEF LockDeviceMap, TypeOK, external
  <2> QED
    BY <1>4, <2>4, OtherStep DEF LockDeviceMap, external
<1>5. CASE ClearEnd(t)
  <2>1. threads' \in [Threads -> Jobs]
    BY <1>1, <1>5, JobTypes, JobChange DEF ClearEnd
  <2>2. bundleMatchMap' \in [Drivers -> SUBSET Devices]
    BY <1>5 DEF ClearEnd
  <2>3. TypeOK'
    BY <1>1, <1>5, <2>1, <2>2 DEF ClearEnd, TypeOK, external
  <2> QED
    BY <1>5, <2>3, OtherStep DEF ClearEnd, external
<1>6. CASE UpdateBundle(t)
  <2> DEFINE b   == threads[t].arg
             u   == threads[t].user
             new == {r \in pkg.rows : r.drv \notin DriversOf(b)}
                      \cup RowsOf(apps[u] \cap DriversOf(b), u)
             ts  == [threads EXCEPT ![t] = NoJob]
             g0  == [pkg EXCEPT !.rows = new]
  <2>1. b \in Bundles /\ u \in Users
    BY <1>1, <1>6 DEF UpdateBundle, Jobs
  <2>2. g0 \in PkgRecords
    BY <1>1, <2>1 DEF TypeOK, PkgRecords, RowsOf, DriverRows
  <2>3. ts \in [Threads -> Jobs]
    BY <1>1, JobTypes, JobChange
  <2>4. PICK g \in UpdateToRdb(ts, g0, b) : pkg' = g.pkg /\ threads' = g.threads
    BY <1>6 DEF UpdateBundle
  <2> HIDE DEF g0, ts, b
  <2>5. pkg' \in PkgRecords /\ threads' \in [Threads -> Jobs]
    BY <1>1, <2>1, <2>2, <2>3, <2>4, UpdateToRdbTypes
  <2>6. TypeOK'
    BY <1>1, <1>6, <2>5 DEF UpdateBundle, TypeOK, PkgRecords, external
  <2> QED
    BY <1>6, <2>6, OtherStep DEF UpdateBundle, external
<1> QED
  BY <1>2, <1>3, <1>4, <1>5, <1>6

\* The reset of one device, as the matching and the clearing thread do it.
LEMMA ResetStep ==
  ASSUME IInv, NEW d \in Devices,
         device' = [device EXCEPT ![d] =
                      RemoveDriverInfo(ClearDrvExtRemote(RemoveBundleInfo(@)))]
  PROVE  /\ AllGood(device', conn)
         /\ \A e \in Devices : device'[e].unRegisted = device[e].unRegisted
<1> DEFINE nv == RemoveDriverInfo(ClearDrvExtRemote(RemoveBundleInfo(device[d])))
           o  == Outcome(nv, conn, TRUE)
<1>1. Kept(d, device[d], conn, o)
  BY DeviceFacts, ResetKeeps
<1>2. o.dv = nv /\ o.cs = conn
  BY DEF Outcome
<1>3. device' = [device EXCEPT ![d] = o.dv] /\ conn = o.cs
  BY <1>2
<1> HIDE DEF o, nv
<1>4. AllGood(device', conn)
  <2>1. AllGood(device, conn)
    BY DEF IInv
  <2>2. AllGood([device EXCEPT ![d] = o.dv], o.cs)
    BY <1>1, <2>1, OneDevice
  <2> QED
    BY <1>3, <2>2
<1>5. \A e \in Devices : device'[e].unRegisted = device[e].unRegisted
  BY <1>1, <1>3 DEF Kept, IInv, AllGood
<1> QED
  BY <1>4, <1>5

LEMMA ResetDeviceStep ==
  ASSUME IInv, NEW t \in Threads, NEW d \in Devices, ResetDevice(t, d)
  PROVE  IInv' /\ Calm
<1>1. /\ AllGood(device', conn')
      /\ \A e \in Devices : device'[e].unRegisted = device[e].unRegisted
  BY ResetStep DEF ResetDevice
<1>2. threads' = [threads EXCEPT ![t] = [threads[t] EXCEPT !.dev = d]]
  BY DEF ResetDevice, IInv, TypeOK
<1>3. threads' \in [Threads -> Jobs]
  BY <1>2, JobUpdates, JobChange DEF IInv, TypeOK
<1>4. TypeOK'
  BY <1>1, <1>3 DEF ResetDevice, IInv, TypeOK, AllGood, external
<1> QED
  BY <1>1, <1>4, DevicesStep DEF ResetDevice, external

LEMMA ClearDeviceStep ==
  ASSUME IInv, NEW t \in Threads, NEW d \in Devices, ClearDevice(t, d)
  PROVE  IInv' /\ Calm
<1>1. /\ AllGood(device', conn')
      /\ \A e \in Devices : device'[e].unRegisted = device[e].unRegisted
  <2>1. CASE UNCHANGED <<device, conn>>
    BY <2>1 DEF IInv
  <2>2. ASSUME device' = [device EXCEPT ![d] =
                            RemoveDriverInfo(ClearDrvExtRemote(RemoveBundleInfo(@)))],
               conn' \in StopDriverExtension(conn, device[d].driverInfo.drv)
        PROVE  /\ AllGood(device', conn')
               /\ \A e \in Devices : device'[e].unRegisted = device[e].unRegisted
    BY <2>2, ResetStep, StopGood
  <2> QED
    BY <2>1, <2>2 DEF ClearDevice
<1>2. threads' = [threads EXCEPT ![t] = [threads[t] EXCEPT !.todo = @ \ {d}]]
  BY DEF ClearDevice, IInv, TypeOK
<1>3. threads' \in [Threads -> Jobs]
  <2>1. threads \in [Threads -> Jobs] /\ threads[t] \in Jobs
    BY DEF IInv, TypeOK
  <2>2. threads[t].todo \ {d} \in SUBSET Devices
    BY <2>1 DEF Jobs, JobRecords
  <2>3. [threads[t] EXCEPT !.todo = @ \ {d}] \in Jobs
    BY <2>1, <2>2, JobUpdates
  <2> QED
    BY <1>2, <2>1, <2>3, JobChange
<1>4. bundleMatchMap' \in [Drivers -> SUBSET Devices]
  <2>1. \/ bundleMatchMap' = bundleMatchMap
        \/ \E r : bundleMatchMap' = [bundleMatchMap EXCEPT ![r] = {}]
    BY DEF ClearDevice
  <2> QED
    BY <2>1 DEF IInv, TypeOK
<1>5. TypeOK'
  BY <1>1, <1>3, <1>4 DEF ClearDevice, IInv, TypeOK, AllGood, GoodConns, external
<1> QED
  BY <1>1, <1>5, DevicesStep DEF ClearDevice, external

LEMMA MatchDeviceStep ==
  ASSUME IInv, NEW t \in Threads, NEW d \in Devices, MatchDevice(t, d)
  PROVE  IInv' /\ Calm
<1>1. /\ TypeOK /\ AllGood(device, conn)
      /\ UNCHANGED <<deviceMap, bus, unload, running, external>>
  BY DEF IInv, MatchDevice
<1>2. CASE /\ threads' = DoneWith(threads, t, d)
           /\ UNCHANGED <<device, conn, bundleMatchMap, pkg>>
  <2>1. threads' \in [Threads -> Jobs]
    BY <1>1, <1>2, DoneWithTypes DEF TypeOK
  <2>2. TypeOK'
    BY <1>1, <1>2, <2>1 DEF TypeOK, external
  <2> QED
    BY <1>1, <1>2, <2>2, OtherStep DEF external
<1>3. ASSUME NEW q \in QueryMatchDriver(d),
             threads' = DoneWith(q.threads, t, d), pkg' = q.pkg,
             IF q.row = NoDriver THEN UNCHANGED <<device, conn, bundleMatchMap>>
             ELSE AddDevIdOfBundleInfoMap(d, AddBundleInfo(device[d], q.row))
      PROVE  IInv' /\ Calm
  <2>1. /\ q.row \in DriverRows \cup {NoDriver}
        /\ pkg' \in PkgRecords /\ threads' \in [Threads -> Jobs]
    BY <1>1, <1>3, QueryMatchDriverTypes, DoneWithTypes
  <2>2. /\ AllGood(device', conn')
        /\ bundleMatchMap' \in [Drivers -> SUBSET Devices]
        /\ \A e \in Devices : device'[e].unRegisted = device[e].unRegisted
    <3>1. CASE q.row = NoDriver
      BY <1>1, <1>3, <3>1 DEF TypeOK
    <3>2. CASE q.row # NoDriver
      <4> DEFINE nv == AddBundleInfo(device[d], q.row)
      <4>1. /\ nv \in DeviceRecords /\ nv.bundleInfo \in Drivers
            /\ Kept(d, device[d], conn, Outcome(nv, conn, TRUE))
        BY <2>1, <3>2, DeviceFacts, AddBundleInfoKeeps
      <4>2. AddDevIdOfBundleInfoMap(d, nv)
        BY <1>3, <3>2
      <4> HIDE DEF nv
      <4> QED
        BY <1>1, <4>1, <4>2, AddDevIdKeeps DEF TypeOK
    <3> QED
      BY <3>1, <3>2
  <2>3. TypeOK'
    BY <1>1, <2>1, <2>2 DEF TypeOK, AllGood, GoodConns, PkgRecords, external
  <2> QED
    BY <1>1, <2>2, <2>3, DevicesStep DEF external
<1> QED
  BY <1>2, <1>3 DEF MatchDevice

-----------------------------------------------------------------------------
(***************************************************************************)
(* The bus thread and the process change what is listed: their lemmas      *)
(* carry the two properties of the listing along.                          *)
(***************************************************************************)
Listing == ListedIsPlugged /\ UnloadsWhenIdle

LEMMA CalmKeepsListing ==
  ASSUME IInv, Listing, Calm
  PROVE  Listing'
BY DEF Calm, Listing, ListedIsPlugged, UnloadsWhenIdle, Settled

LEMMA RegisterDeviceStep ==
  ASSUME IInv, Listing, NEW d \in Devices, RegisterDevice(d)
  PROVE  IInv' /\ Listing'
<1>1. /\ TypeOK /\ AllGood(device, conn) /\ BusOK /\ bus = NoCall
      /\ running /\ plugged' = plugged \cup {d}
      /\ UNCHANGED <<conn, bundleMatchMap, unload, running, apps, account>>
  BY DEF IInv, RegisterDevice, MapFree, BusOK
<1>2. CASE UNCHANGED <<device, deviceMap, bus, pkg, threads>>
  <2>1. TypeOK'
    BY <1>1, <1>2 DEF TypeOK
  <2>2. BusOK' /\ AllGood(device', conn')
    BY <1>1, <1>2 DEF BusOK, NoCall
  <2>3. Listing'
    BY <1>1, <1>2 DEF Listing, ListedIsPlugged, UnloadsWhenIdle, Settled, QueryDevice, Visible
  <2> QED
    BY <2>1, <2>2, <2>3 DEF IInv
<1>3. ASSUME deviceMap' = deviceMap \cup {d},
             bus' = [NoCall EXCEPT !.op = "register", !.dev = d],
             \/ UNCHANGED <<device, pkg, threads>>
             \/ \E q \in QueryMatchDriver(d) :
                  /\ device' = IF q.row = NoDriver THEN device
                               ELSE [device EXCEPT ![d] = AddBundleInfo(@, q.row)]
                  /\ pkg' = q.pkg /\ threads' = q.threads
      PROVE  IInv' /\ Listing'
  <2>1. bus' \in BusCalls /\ bus'.op = "register" /\ bus'.dev = d
    BY <1>3 DEF NoCall, BusCalls
  <2>2. /\ AllGood(device', conn') /\ pkg' \in PkgRecords /\ threads' \in [Threads -> Jobs]
        /\ \A e \in Devices : device'[e].unRegisted = device[e].unRegisted
    <3>1. CASE UNCHANGED <<device, pkg, threads>>
      BY <1>1, <3>1 DEF TypeOK, PkgRecords
    <3>2. ASSUME NEW q \in QueryMatchDriver(d),
                 device' = IF q.row = NoDriver THEN device
                           ELSE [device EXCEPT ![d] = AddBundleInfo(@, q.row)],
                 pkg' = q.pkg, threads' = q.threads
          PROVE  /\ AllGood(device', conn')
                 /\ pkg' \in PkgRecords /\ threads' \in [Threads -> Jobs]
                 /\ \A e \in Devices : device'[e].unRegisted = device[e].unRegisted
      <4>1. /\ q.row \in DriverRows \cup {NoDriver}
            /\ pkg' \in PkgRecords /\ threads' \in [Threads -> Jobs]
        BY <1>1, <3>2, QueryMatchDriverTypes
      <4>2. CASE q.row = NoDriver
        BY <1>1, <3>2, <4>1, <4>2
      <4>3. CASE q.row # NoDriver
        <5> DEFINE nv == AddBundleInfo(device[d], q.row)
                   o == Outcome(nv, conn, TRUE)
        <5>1. Kept(d, device[d], conn, o)
          BY <4>1, <4>3, DeviceFacts, AddBundleInfoKeeps
        <5>2. o.dv = nv /\ o.cs = conn
          BY DEF Outcome
        <5>3. device' = [device EXCEPT ![d] = o.dv] /\ conn' = o.cs
          BY <1>1, <3>2, <4>3, <5>2
        <5> HIDE DEF o, nv
        <5>4. AllGood([device EXCEPT ![d] = o.dv], o.cs)
          BY <1>1, <5>1, OneDevice
        <5>5. \A e \in Devices : device'[e].unRegisted = device[e].unRegisted
          BY <1>1, <5>1, <5>3 DEF Kept, AllGood
        <5> QED
          BY <4>1, <5>3, <5>4, <5>5
      <4> QED
        BY <4>2, <4>3
    <3> QED
      BY <1>3, <3>1, <3>2
  <2>3. TypeOK'
    BY <1>1, <1>3, <2>1, <2>2 DEF TypeOK, AllGood, PkgRecords
  <2>4. BusOK'
    BY <1>1, <2>1 DEF BusOK
  <2>5. ListedIsPlugged'
    <3> SUFFICES ASSUME NEW e \in QueryDevice', bus'.dev # e PROVE e \in plugged'
      BY DEF ListedIsPlugged, Settled
    <3>1. e # d
      BY <2>1
    <3>2. e \in QueryDevice /\ e \in Devices
      BY <1>1, <1>3, <2>2, <3>1 DEF QueryDevice, Visible, TypeOK
    <3>3. bus.dev # e
      BY <1>1, <3>2, DeviceAssumption DEF NoCall
    <3> QED
      BY <1>1, <3>2, <3>3 DEF Listing, ListedIsPlugged, Settled
  <2>6. UnloadsWhenIdle'
    BY <2>1 DEF UnloadsWhenIdle
  <2> QED
    BY <2>2, <2>3, <2>4, <2>5, <2>6 DEF IInv, Listing
<1> QED
  BY <1>2, <1>3 DEF RegisterDevice

LEMMA FinishRegisterStep ==
  ASSUME IInv, Listing, FinishRegister
  PROVE  IInv' /\ Listing'
<1> DEFINE d == bus.dev
<1>1. /\ TypeOK /\ AllGood(device, conn) /\ BusOK
      /\ bus.op = "register" /\ d \in Devices /\ d \in plugged /\ bus' = NoCall
      /\ unload' \in {unload, "off"} /\ (unload' = "armed" => FALSE)
      /\ UNCHANGED <<deviceMap, threads, running, pkg, external>>
  <2>1. unload' = IF unload = "requested" THEN unload ELSE "off"
    BY DEF FinishRegister
  <2> QED
    BY <2>1 DEF IInv, FinishRegister, BusOK
<1>2. /\ AllGood(device', conn')
      /\ bundleMatchMap' \in [Drivers -> SUBSET Devices]
      /\ \A e \in Devices : device'[e].unRegisted = device[e].unRegisted
  <2>1. CASE UNCHANGED <<device, conn, bundleMatchMap>>
    BY <1>1, <2>1 DEF TypeOK
  <2>2. CASE device[d].bundleInfo # NoDriver /\ AddDevIdOfBundleInfoMap(d, device[d])
    <3>1. /\ device[d] \in DeviceRecords /\ device[d].bundleInfo \in Drivers
          /\ Kept(d, device[d], conn, Outcome(device[d], conn, TRUE))
      BY <1>1, <2>2, DeviceFacts, SameConnection DEF DeviceRecords
    <3> QED
      BY <1>1, <2>2, <3>1, AddDevIdKeeps DEF TypeOK
  <2> QED
    BY <2>1, <2>2 DEF FinishRegister
<1>3. bus' \in BusCalls /\ bus'.op = "none"
  BY <1>1 DEF NoCall, BusCalls
<1>4. TypeOK'
  BY <1>1, <1>2, <1>3 DEF TypeOK, AllGood, GoodConns, external
<1>5. BusOK'
  BY <1>1, <1>3 DEF BusOK
<1>6. Listing'
  BY <1>1, <1>2, <1>3 DEF Listing, ListedIsPlugged, UnloadsWhenIdle, Settled,
    QueryDevice, Visible, TypeOK, external
<1> QED
  BY <1>2, <1>4, <1>5, <1>6 DEF IInv

LEMMA UnRegisterDeviceStep ==
  ASSUME IInv, Listing, NEW d \in Devices, UnRegisterDevice(d)
  PROVE  IInv' /\ Listing'
<1>1. /\ TypeOK /\ AllGood(device, conn) /\ BusOK /\ bus = NoCall /\ running
      /\ plugged' = plugged \ {d}
      /\ UNCHANGED <<device, deviceMap, conn, bundleMatchMap, threads, unload,
                     running, pkg, apps, account>>
  BY DEF IInv, UnRegisterDevice, MapFree, BusOK
<1>2. \/ d \notin deviceMap /\ bus' = NoCall
      \/ bus' \in BusCalls /\ bus'.op = "unregister" /\ bus'.dev = d
  BY <1>1 DEF UnRegisterDevice, BusCalls, TypeOK, DeviceRecords
<1>3. bus' \in BusCalls
  <2>1. NoCall \in BusCalls
    BY DEF NoCall, BusCalls
  <2> QED
    BY <1>2, <2>1
<1>4. TypeOK'
  BY <1>1, <1>3 DEF TypeOK
<1>5. BusOK'
  BY <1>1, <1>2 DEF BusOK, NoCall
<1>6. QueryDevice' = QueryDevice
  BY <1>1 DEF QueryDevice, Visible
<1>7. NoCall.op = "none"
  BY DEF NoCall
<1>8. ListedIsPlugged'
  <2> SUFFICES ASSUME NEW e \in QueryDevice, bus'.dev # e PROVE e \in plugged'
    BY <1>6 DEF ListedIsPlugged, Settled
  <2>1. e \in plugged
    <3>1. bus.dev = NoDevice /\ e \in Devices
      BY <1>1 DEF NoCall, QueryDevice, Visible, TypeOK
    <3> QED
      BY <3>1, DeviceAssumption DEF Listing, ListedIsPlugged, Settled
  <2>2. e # d
    BY <1>2 DEF QueryDevice, Visible
  <2> QED
    BY <1>1, <2>1, <2>2
<1>9. UnloadsWhenIdle'
  BY <1>1, <1>2, <1>6, <1>7 DEF Listing, UnloadsWhenIdle
<1> QED
  BY <1>1, <1>4, <1>5, <1>8, <1>9 DEF IInv, Listing

LEMMA FinishUnRegisterStep ==
  ASSUME IInv, Listing, FinishUnRegister
  PROVE  IInv' /\ Listing'
<1> DEFINE d  == bus.dev
           b  == bus.bundleInfo
           dv == IF bus.remote THEN UnRegist(device[d]) ELSE device[d]
           removed == IF b = NoDriver THEN {Outcome(dv, conn, TRUE)}
                      ELSE DisconnectUnmatched(dv, b)
<1>1. /\ TypeOK /\ AllGood(device, conn) /\ BusOK
      /\ bus.op = "unregister" /\ d \in Devices /\ running /\ bus' = NoCall
      /\ UNCHANGED <<threads, running, pkg, external>>
      /\ device[d] \in DeviceRecords /\ conn \in GoodConns /\ Own(d, device[d], conn)
  BY DeviceFacts DEF IInv, FinishUnRegister, BusOK, NoCall
<1>2. bus' \in BusCalls /\ bus'.op = "none" /\ bus'.dev = NoDevice
  BY <1>1 DEF NoCall, BusCalls
<1>3. /\ dv \in DeviceRecords /\ Own(d, dv, conn)
      /\ bus.remote => dv.unRegisted
  <2>1. /\ UnRegist(device[d]) \in DeviceRecords /\ UnRegist(device[d]).unRegisted
        /\ UnRegist(device[d]).remote = device[d].remote
        /\ UnRegist(device[d]).notifier = device[d].notifier
        /\ UnRegist(device[d]).info = device[d].info
    BY <1>1 DEF UnRegist, DeviceRecords
  <2> QED
    BY <1>1, <2>1 DEF Own
<1> HIDE DEF dv
<1>4. ASSUME NEW o \in removed
      PROVE  Kept(d, dv, conn, o)
  <2>1. \/ o = Outcome(dv, conn, TRUE)
        \/ \E p \in Disconnect(dv, conn) :
             \/ o = p
             \/ o = [p EXCEPT !.dv = RemoveDriverInfo(p.dv)]
    BY DEF DisconnectUnmatched
  <2>2. CASE o = Outcome(dv, conn, TRUE)
    BY <1>1, <1>3, <2>2, SameConnection
  <2>3. ASSUME NEW p \in Disconnect(dv, conn),
               o = p \/ o = [p EXCEPT !.dv = RemoveDriverInfo(p.dv)]
        PROVE  Kept(d, dv, conn, o)
    <3>1. Kept(d, dv, conn, p) /\ p.dv = dv
      BY <1>1, <1>3, DisconnectKeeps
    <3>2. \E ok : p = Outcome(dv, p.cs, ok)
      <4>1. p.dv = dv /\ \E cs2, ok : p = Outcome(dv, cs2, ok)
        BY <3>1 DEF Disconnect, DisconnectDriverExtension, IfFaulty
      <4> QED
        BY <4>1 DEF Outcome
    <3>3. /\ RemoveDriverInfo(dv) \in DeviceRecords
          /\ RemoveDriverInfo(dv).remote = dv.remote
          /\ RemoveDriverInfo(dv).notifier = dv.notifier
          /\ RemoveDriverInfo(dv).info = dv.info
          /\ RemoveDriverInfo(dv).unRegisted = dv.unRegisted
      BY <1>3 DEF RemoveDriverInfo, DeviceRecords
    <3>4. CASE o = [p EXCEPT !.dv = RemoveDriverInfo(p.dv)]
      <4>1. o.dv = RemoveDriverInfo(dv) /\ o.cs = p.cs
        BY <3>1, <3>2, <3>4 DEF Outcome
      <4> QED
        BY <3>1, <3>3, <4>1 DEF Kept, Own
    <3> QED
      BY <2>3, <3>1, <3>4
  <2> QED
    BY <2>1, <2>2, <2>3
<1>5. bundleMatchMap' \in [Drivers -> SUBSET Devices]
  BY <1>1 DEF FinishUnRegister, TypeOK
<1>6. PICK o \in removed :
        \/ /\ bus.remote /\ device' = [device EXCEPT ![d] = o.dv] /\ conn' = o.cs
           /\ UNCHANGED deviceMap
        \/ /\ ~bus.remote /\ device' = [device EXCEPT ![d] = FreshDevice]
           /\ conn' = Orphaned(o.cs, d) /\ deviceMap' = deviceMap \ {d}
  BY DEF FinishUnRegister, dv
<1>7. unload' \in {"off", "armed", "requested"} /\ (unload' = "armed" => QueryDevice' = {})
  BY <1>1 DEF FinishUnRegister, UnLoadSelf, IfFaulty, TypeOK, QueryDevice
<1> HIDE DEF removed
<1>8. /\ o.dv \in DeviceRecords /\ o.dv.unRegisted = dv.unRegisted
      /\ AllGood([device EXCEPT ![d] = o.dv], o.cs)
  <2>1. Kept(d, dv, conn, o)
    BY <1>4
  <2>2. AllGood([device EXCEPT ![d] = dv], conn)
    BY <1>1, <1>3 DEF AllGood
  <2>3. [device EXCEPT ![d] = dv][d] = dv
    BY <1>1 DEF AllGood
  <2>4. AllGood([[device EXCEPT ![d] = dv] EXCEPT ![d] = o.dv], o.cs)
    BY <1>1, <2>1, <2>2, <2>3, OneDevice
  <2>5. [[device EXCEPT ![d] = dv] EXCEPT ![d] = o.dv] = [device EXCEPT ![d] = o.dv]
    BY DEF AllGood
  <2> QED
    BY <2>1, <2>4, <2>5 DEF Kept
<1>9. /\ AllGood(device', conn')
      /\ \A e \in Devices \ {d} : device'[e] = device[e]
      /\ deviceMap' \subseteq deviceMap
      /\ d \in deviceMap' => device'[d].unRegisted
  <2>1. CASE bus.remote
    BY <1>1, <1>3, <1>6, <1>8, <2>1 DEF AllGood
  <2>2. CASE ~bus.remote
    <3>1. AllGood([[device EXCEPT ![d] = o.dv] EXCEPT ![d] = FreshDevice], Orphaned(o.cs, d))
      BY <1>1, <1>8, OneFreshDevice
    <3>2. [[device EXCEPT ![d] = o.dv] EXCEPT ![d] = FreshDevice] = device'
      BY <1>1, <1>6, <2>2 DEF AllGood
    <3> QED
      BY <1>1, <1>6, <2>2, <3>1, <3>2 DEF AllGood
  <2> QED
    BY <2>1, <2>2
<1>10. TypeOK'
  BY <1>1, <1>2, <1>5, <1>7, <1>9 DEF TypeOK, AllGood, GoodConns, external
<1>11. BusOK'
  BY <1>1, <1>2 DEF BusOK
<1>12. Listing'
  BY <1>1, <1>2, <1>7, <1>9 DEF Listing, ListedIsPlugged, UnloadsWhenIdle, Settled,
    QueryDevice, Visible, TypeOK, external
<1> QED
  BY <1>9, <1>10, <1>11, <1>12 DEF IInv

\* A process without devices, which has just stopped or not yet begun.
LEMMA BlankIsGood ==
  /\ AllGood([d \in Devices |-> FreshDevice], [c \in Conns |-> FreeConn])
  /\ NoCall \in BusCalls /\ NoCall.op = "none"
<1>1. [c \in Conns |-> FreeConn] \in GoodConns
  BY ConnFacts DEF GoodConns
<1>2. \A d \in Devices : Own(d, FreshDevice, [c \in Conns |-> FreeConn])
  BY ConnFacts DEF Own, FreshDevice
<1>3. NoCall \in BusCalls /\ NoCall.op = "none"
  BY DEF NoCall, BusCalls
<1> QED
  BY <1>1, <1>2, <1>3, ConnFacts DEF AllGood

LEMMA ProcessStep ==
  ASSUME IInv, Listing, Process
  PROVE  IInv' /\ Listing'
<1>1. TypeOK /\ AllGood(device, conn) /\ BusOK
  BY DEF IInv
<1>2. CASE TimerFires
  <2>1. /\ unload' \in {"off", "requested"}
        /\ UNCHANGED <<device, deviceMap, conn, bundleMatchMap, bus, threads, running, pkg, external>>
    BY <1>2 DEF TimerFires, IfFaulty
  <2>2. TypeOK'
    BY <1>1, <2>1 DEF TypeOK, external
  <2>3. BusOK' /\ AllGood(device', conn')
    BY <1>1, <2>1 DEF BusOK, external
  <2>4. Listing'
    BY <2>1 DEF Listing, ListedIsPlugged, UnloadsWhenIdle, Settled, QueryDevice, Visible, external
  <2> QED
    BY <2>2, <2>3, <2>4 DEF IInv
<1>3. CASE OnStop
  <2>1. /\ device' = [d \in Devices |-> FreshDevice]
        /\ conn' = [c \in Conns |-> FreeConn]
        /\ deviceMap' = {} /\ bus' = NoCall /\ unload' = "off" /\ running' = FALSE
        /\ bundleMatchMap' = [r \in Drivers |-> {}]
        /\ pkg' = [pkg EXCEPT !.initOnce = FALSE]
        /\ threads' = [t \in Threads |-> NoJob]
        /\ UNCHANGED external
    BY <1>3 DEF OnStop, Blank
  <2>2. AllGood(device', conn')
    BY <2>1, BlankIsGood
  <2>3. TypeOK'
    BY <1>1, <2>1, <2>2, BlankIsGood, JobTypes DEF TypeOK, AllGood, GoodConns, external
  <2>4. BusOK'
    BY <2>1, BlankIsGood DEF BusOK
  <2>5. Listing'
    BY <2>1 DEF Listing, ListedIsPlugged, UnloadsWhenIdle, QueryDevice, Visible
  <2> QED
    BY <2>2, <2>3, <2>4, <2>5 DEF IInv
<1>4. CASE OnStart
  <2>1. /\ ~running /\ running' = TRUE /\ plugged' \in SUBSET Devices
        /\ UNCHANGED <<device, deviceMap, conn, bundleMatchMap, bus, unload, pkg, apps, account>>
    BY <1>4 DEF OnStart
  <2>2. bus = NoCall /\ deviceMap = {}
    BY <1>1, <2>1 DEF BusOK
  <2>3. threads' \in [Threads -> Jobs]
    BY <1>1, <1>4, JobTypes, SpawnedTypes DEF OnStart, TypeOK
  <2>4. TypeOK'
    BY <1>1, <2>1, <2>3 DEF TypeOK
  <2>5. BusOK' /\ AllGood(device', conn')
    BY <1>1, <2>1, <2>2, BlankIsGood DEF BusOK
  <2>6. Listing'
    BY <2>1, <2>2 DEF Listing, ListedIsPlugged, UnloadsWhenIdle, QueryDevice, Visible
  <2> QED
    BY <2>4, <2>5, <2>6 DEF IInv
<1> QED
  BY <1>2, <1>3, <1>4 DEF Process

-----------------------------------------------------------------------------
(***************************************************************************)
(* The theorems.                                                           *)
(***************************************************************************)
LEMMA InitGood == Init => IInv /\ Listing
<1> SUFFICES ASSUME Init PROVE IInv /\ Listing
  OBVIOUS
<1>1. AllGood(device, conn) /\ bus \in BusCalls /\ bus.op = "none"
  BY BlankIsGood DEF Init
<1>2. pkg \in PkgRecords
  BY UserAssumption DEF Init, PkgRecords, RowsOf, DriverRows
<1>3. threads \in [Threads -> Jobs]
  BY JobTypes DEF Init
<1>4. running \in BOOLEAN
  BY BoundAssumption DEF Init
<1>5. account \in [user : Users, to : Users \cup {NoUser}]
  BY UserAssumption DEF Init
<1>6. /\ device \in [Devices -> DeviceRecords] /\ conn \in [Conns -> Connections]
      /\ deviceMap \subseteq Devices /\ bundleMatchMap \in [Drivers -> SUBSET Devices]
      /\ unload \in {"off", "armed", "requested"} /\ plugged \subseteq Devices
      /\ apps \in [Users -> SUBSET Drivers]
  BY <1>1 DEF Init, AllGood, GoodConns
<1>7. TypeOK
  BY <1>1, <1>2, <1>3, <1>4, <1>5, <1>6 DEF TypeOK, PkgRecords
<1>8. BusOK
  BY <1>1 DEF Init, BusOK
<1>9. Listing
  BY DEF Init, Listing, ListedIsPlugged, UnloadsWhenIdle, QueryDevice, Visible
<1> QED
  BY <1>1, <1>7, <1>8, <1>9 DEF IInv

LEMMA NextGood == IInv /\ Listing /\ [Next]_vars => IInv' /\ Listing'
<1> SUFFICES ASSUME IInv, Listing, [Next]_vars PROVE IInv' /\ Listing'
  OBVIOUS
<1>1. CASE Bus
  BY <1>1, RegisterDeviceStep, UnRegisterDeviceStep, FinishRegisterStep,
     FinishUnRegisterStep DEF Bus
<1>2. CASE Client
  BY <1>2, ClientStep, CalmKeepsListing
<1>3. CASE AbilityManager
  BY <1>3, OnConnectDoneStep, OnDisconnectDoneStep, CalmKeepsListing DEF AbilityManager
<1>4. CASE Packages
  BY <1>4, PackagesStep, CalmKeepsListing DEF Packages
<1>5. CASE Accounts
  BY <1>5, AccountsStep, CalmKeepsListing
<1>6. ASSUME NEW t \in Threads, Thread(t)
      PROVE  IInv' /\ Listing'
  BY <1>6, JobSteps, ResetDeviceStep, MatchDeviceStep, ClearDeviceStep, CalmKeepsListing
     DEF Thread
<1>7. CASE Process
  BY <1>7, ProcessStep
<1>8. CASE UNCHANGED vars
  <2>1. TypeOK'
    BY <1>8 DEF IInv, TypeOK, vars
  <2> QED
    BY <1>8, <2>1, OtherStep, CalmKeepsListing DEF vars
<1> QED
  BY <1>1, <1>2, <1>3, <1>4, <1>5, <1>6, <1>7, <1>8 DEF Next

\* The inductive invariant.
THEOREM Invariance == Spec => [](IInv /\ Listing)
<1>1. Init => IInv /\ Listing
  BY InitGood
<1>2. IInv /\ Listing /\ [Next]_vars => (IInv /\ Listing)'
  BY NextGood
<1> QED
  BY <1>1, <1>2, PTL DEF Spec

\* Every variable keeps its type, whatever the environment refuses.
THEOREM TypeCorrect == Spec => []TypeOK
<1>1. IInv => TypeOK
  BY DEF IInv
<1> QED
  BY <1>1, Invariance, PTL

\* drvExtRemote_ of a device (device.cpp:176, 195) is never left over from a
\* connection that has ended or that would not report its end.
THEOREM RemotesAreBacked == Spec => []RemoteIsBacked
<1>1. IInv => RemoteIsBacked
  BY DEF IInv, AllGood, Own, RemoteIsBacked, Reports
<1> QED
  BY <1>1, Invariance, PTL

\* A connection that the ability manager knows and info_ of a notifier names
\* (driver_extension_controller.cpp:113, 154) is the device's own, of its
\* present notifier.
THEOREM InfosAreOwn == Spec => []InfoIsOwn
<1>1. IInv => InfoIsOwn
  BY DEF IInv, AllGood, Own, InfoIsOwn, Reports
<1> QED
  BY <1>1, Invariance, PTL

\* The device list (etx_device_mgr.cpp:417) holds no device that has left.
THEOREM ListedArePlugged == Spec => []ListedIsPlugged
<1>1. Listing => ListedIsPlugged
  BY DEF Listing
<1> QED
  BY <1>1, Invariance, PTL

\* The unload timer (etx_device_mgr.cpp:486) runs only without devices.
THEOREM UnloadsOnlyWhenIdle == Spec => []UnloadsWhenIdle
<1>1. Listing => UnloadsWhenIdle
  BY DEF Listing
<1> QED
  BY <1>1, Invariance, PTL
=============================================================================
