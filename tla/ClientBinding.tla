---------------------------- MODULE ClientBinding ----------------------------
(***************************************************************************)
(* An application process that uses the device manager: the JS thread, its *)
(* task queue, the callback map of the binding (napi or taihe), the proxy  *)
(* of the native client, and the callbacks that the service sends back on  *)
(* an IPC thread.  The service is reduced to what one client sees of it:   *)
(* whether the driver is connected and whether the callback is registered. *)
(*                                                                         *)
(* Scenario "bind" is about binding and unbinding drivers while the        *)
(* service runs, scenario "death" about one binding and a service that     *)
(* dies, scenario "query" about the three queries.                         *)
(***************************************************************************)
EXTENDS ClientTypes, FiniteSets

CONSTANTS
  Data,        \* the AsyncData objects: one per bind call
  Devices,     \* ids of devices that are bound
  Worlds,      \* scenario "query": what the service knows, [devices, drivers]
  Queries,     \* scenario "query": [api, one, arg]
  MaxUnbinds,  \* bound on unbind calls
  MaxDeaths    \* bound on deaths of the service

ASSUME DataAssumption == None \notin Data

VARIABLES
  binding,     \* "napi" or "taihe"
  scenario,    \* "bind", "death" or "query"
  map,         \* g_callbackMap
  data,        \* the AsyncData objects and what the application saw of them
  js,          \* the JS thread: the call it is in
  tasks,       \* events sent to the JS thread
  unsent,      \* the bind calls about which an event could not be sent
  calls,       \* callbacks on their way from the service
  svc,         \* the service's Device, as far as this client goes
  proxy,       \* proxy_: none, live, or dead (the service it names has died)
  up,          \* the service runs
  deaths,      \* how often it died
  alive,       \* the application runs
  unbinds,     \* unbind calls so far
  answer,      \* the last answer: its code, whether a step failed, a query's list
  world        \* scenario "query": the service's tables and the caller's rights

vars == <<binding, scenario, map, data, js, tasks, unsent, calls, svc, proxy, up, deaths, alive,
          unbinds, answer, world>>
app  == <<map, data, tasks, calls>>
ipc  == <<calls, svc, proxy, up, deaths, alive>>
env  == <<binding, scenario, world, unsent>>

\* unBindErrMsg of a new AsyncData is not OK (ErrMsg: EDM_NOK).
Fresh == [dev |-> None, bind |-> "unused", onDisconnect |-> FALSE,
          told |-> FALSE, unbind |-> "none", unBindOk |-> FALSE, replaced |-> FALSE]
NoSvc == [remote |-> FALSE, waiting |-> 0, closing |-> FALSE, reg |-> FALSE, bound |-> FALSE]
Idle  == [pc |-> "idle", op |-> "none", x |-> None, d |-> None, api |-> "device", ret |-> "OK",
          list |-> <<>>]

Init ==
  /\ binding \in {"napi", "taihe"}
  /\ \/ scenario \in {"bind", "death"} /\ world = None
     \/ scenario = "query" /\ world \in [tables : Worlds, permitted : BOOLEAN, system : BOOLEAN]
  /\ map = [d \in Devices |-> None]
  /\ data = [x \in Data |-> Fresh]
  /\ js = Idle
  /\ tasks = <<>> /\ unsent = {} /\ calls = <<>>
  /\ svc = [d \in Devices |-> NoSvc]
  /\ proxy = "none" /\ up = TRUE /\ deaths = 0 /\ alive = TRUE
  /\ unbinds = 0 /\ answer = None

Ready == alive /\ js.pc = "idle"

\* What the application is told: a code, whether anything had failed, and a
\* query's list.
Says(code, failed) == [code |-> code, failed |-> failed, query |-> None, list |-> <<>>]

-----------------------------------------------------------------------------
(***************************************************************************)
(* Bind: the entry is put in the map, then the service is called.          *)
(***************************************************************************)
EnterBind(x, d, api) ==
  /\ Ready /\ scenario # "query"
  /\ data[x].bind = "unused" /\ x = CHOOSE y \in Data : data[y].bind = "unused"
  /\ scenario = "death" => \A y \in Data : data[y].bind = "unused"
  /\ data' = [y \in Data |->
       IF y = x THEN [Fresh EXCEPT !.dev = d, !.bind = "called", !.onDisconnect = TRUE]
       ELSE [data[y] EXCEPT !.replaced = @ \/ map[d] = y]]
  /\ map' = [map EXCEPT ![d] = x]
  /\ js' = [Idle EXCEPT !.pc = "connect", !.op = "bind", !.x = x, !.d = d, !.api = api]
  /\ answer' = None
  /\ UNCHANGED <<tasks, ipc, unbinds, env>>

BindDevice(x, d)                 == binding = "napi"  /\ EnterBind(x, d, "device")
BindDriverWithDeviceId(x, d)     == binding = "napi"  /\ EnterBind(x, d, "driver")
BindDriverWithDeviceIdSync(x, d) == binding = "taihe" /\ EnterBind(x, d, "driver")

\* An argument of the wrong type: nothing is done.
BadArgument ==
  /\ Ready /\ answer = None /\ binding = "napi" /\ scenario = "query"
  /\ answer' = Says(PARAMETER_ERROR, TRUE)
  /\ UNCHANGED <<app, js, svc, proxy, up, deaths, alive, unbinds, env>>

\* The map without x, if x is still its entry.
WithoutEntry(d, x) == IF map[d] = x THEN [map EXCEPT ![d] = None] ELSE map

\* Variant: the entry of a failed bind stays.
FailBindKeepsEntry(code, failed) ==
  /\ data' = [data EXCEPT ![js.x].bind = "threw", ![js.x].onDisconnect = FALSE]
  /\ answer' = Says(code, failed)
  /\ UNCHANGED map

FailBind(code, failed) ==
  /\ map' = WithoutEntry(js.d, js.x)
  /\ data' = [data EXCEPT ![js.x].bind = "threw", ![js.x].onDisconnect = FALSE]
  /\ answer' = Says(code, failed)

\* The service refused; or the promise is made; or it cannot be made, and
\* the binding is undone.
FinishBind(error, exception) ==
  /\ alive /\ js.pc = "return" /\ js.op = "bind"
  /\ \/ /\ js.ret # "OK"
        /\ FailBind(error, TRUE)
        /\ js' = Idle
     \/ /\ js.ret = "OK"
        /\ data' = [data EXCEPT ![js.x].bind = "open"]
        /\ js' = Idle
        /\ UNCHANGED <<map, answer>>
     \/ /\ js.ret = "OK"
        /\ FailBind(exception, TRUE)
        /\ js' = [js EXCEPT !.pc = "connect", !.op = "undo"]
  /\ UNCHANGED <<tasks, ipc, unbinds, env>>

BindDeviceReturns ==
  binding = "napi" /\ js.api = "device" /\ FinishBind(BindDeviceError(js.ret), SERVICE_EXCEPTION)
BindDriverWithDeviceIdReturns ==
  binding = "napi" /\ js.api = "driver" /\ FinishBind(BindDriverError(js.ret), SERVICE_EXCEPTION_NEW)
BindDriverWithDeviceIdSyncReturns ==
  binding = "taihe" /\ FinishBind(BindDriverError(js.ret), SERVICE_EXCEPTION_NEW)

UndoReturns ==
  /\ alive /\ js.pc = "return" /\ js.op = "undo"
  /\ js' = Idle
  /\ UNCHANGED <<app, svc, proxy, up, deaths, alive, unbinds, answer, env>>

-----------------------------------------------------------------------------
(***************************************************************************)
(* Unbind: the service is called, then the promise is put in the entry.    *)
(***************************************************************************)
EnterUnbind(d, api) ==
  /\ Ready /\ scenario # "query" /\ unbinds < MaxUnbinds
  /\ js' = [Idle EXCEPT !.pc = "connect", !.op = "unbind", !.d = d, !.api = api]
  /\ unbinds' = unbinds + 1
  /\ answer' = None
  /\ UNCHANGED <<app, svc, proxy, up, deaths, alive, env>>

\* The application has a binding of the device, as far as it was told.
Holds(d) ==
  \E x \in Data : /\ data[x].dev = d /\ ~data[x].replaced /\ ~data[x].told
                 /\ data[x].bind = "resolved"

UnbindNapi(error) ==
  /\ alive /\ js.pc = "return" /\ js.op = "unbind"
  /\ LET x == map[js.d] IN
     \/ js.ret # "OK" /\ answer' = Says(error, TRUE) /\ UNCHANGED data
     \/ js.ret = "OK" /\ x = None /\ answer' = Says(SERVICE_EXCEPTION, ~Holds(js.d)) /\ UNCHANGED data
     \/ js.ret = "OK" /\ x # None /\ data' = [data EXCEPT ![x].unbind = "open"] /\ UNCHANGED answer
  /\ js' = Idle
  /\ UNCHANGED <<map, tasks, ipc, unbinds, env>>

UnbindDevice(d)             == binding = "napi" /\ EnterUnbind(d, "device")
UnbindDriverWithDeviceId(d) == binding = "napi" /\ EnterUnbind(d, "driver")

UnbindDeviceReturns ==
  binding = "napi" /\ js.api = "device" /\ UnbindNapi(UnbindDeviceError(js.ret))
UnbindDriverWithDeviceIdReturns ==
  binding = "napi" /\ js.api = "driver" /\ UnbindNapi(UnbindDriverError(js.ret))

\* The taihe binding answers at once.
UnbindDriverWithDeviceIdSync(d) == binding = "taihe" /\ EnterUnbind(d, "driver")
UnbindDriverWithDeviceIdSyncReturns ==
  /\ binding = "taihe" /\ alive /\ js.pc = "return" /\ js.op = "unbind"
  /\ answer' = IF js.ret = "OK" THEN Says(0, FALSE) ELSE Says(UnbindDriverError(js.ret), TRUE)
  /\ js' = Idle
  /\ UNCHANGED <<app, svc, proxy, up, deaths, alive, unbinds, env>>

-----------------------------------------------------------------------------
(***************************************************************************)
(* The native client.                                                      *)
(***************************************************************************)
\* Variant: the remote object of a service that is gone is cast all the same.
ConnectUnchecked ==
  /\ alive /\ js.pc = "connect"
  /\ proxy' = IF proxy = "none" THEN "live" ELSE proxy
  /\ js' = [js EXCEPT !.pc = "call"]
  /\ UNCHANGED <<app, svc, up, deaths, alive, unbinds, answer, env>>

\* Connect, under mutex_: the proxy is made when there is none; the system
\* ability manager, the service or the death recipient may be missing.
Connect ==
  /\ alive /\ js.pc = "connect"
  /\ \/ proxy # "none" /\ js' = [js EXCEPT !.pc = "call"] /\ UNCHANGED proxy
     \/ proxy = "none" /\ up /\ proxy' = "live" /\ js' = [js EXCEPT !.pc = "call"]
     \/ /\ proxy = "none"
        /\ js' = [js EXCEPT !.pc = "return", !.ret = "CONNECTION_FAILED"]
        /\ UNCHANGED proxy
  /\ UNCHANGED <<app, svc, up, deaths, alive, unbinds, answer, env>>

\* The death recipient: OnRemoteDied, DisConnect.
DisConnect ==
  /\ alive /\ proxy = "dead"
  /\ proxy' = "none"
  /\ UNCHANGED <<app, js, svc, up, deaths, alive, unbinds, answer, env>>

\* A call of the proxy, made after mutex_ was released.
Returns(ret) == js' = [js EXCEPT !.pc = "return", !.ret = ret]
InCall(op)   == alive /\ js.pc = "call" /\ js.op \in op
ProxyIsNull ==
  /\ alive /\ js.pc = "call" /\ proxy = "none"
  /\ alive' = FALSE
  /\ UNCHANGED <<app, js, svc, proxy, up, deaths, unbinds, answer, env>>
ProxyIsDead ==
  /\ alive /\ js.pc = "call" /\ proxy = "dead"
  /\ Returns(ProxyRetTranslate("DEAD_OBJECT"))
  /\ UNCHANGED <<app, svc, proxy, up, deaths, alive, unbinds, answer, env>>

-----------------------------------------------------------------------------
(***************************************************************************)
(* The service: a bind and an unbind, as DriverExtMgr and Device answer.   *)
(***************************************************************************)
Msg(kind, d, ok) == [kind |-> kind, d |-> d, ok |-> ok]

Refusals(api) == {"NO_PERM", "NOK"} \union (IF api = "driver" THEN {"NOT_ALLOW_ACCESS"} ELSE {})

\* Variant: a client that finds the driver connected is only registered.
ServiceBindSilent(d, api) ==
  \/ (\E r \in Refusals(api) : Returns(r)) /\ UNCHANGED <<svc, calls>>
  \/ /\ svc' = [svc EXCEPT ![d].reg = TRUE, ![d].bound = TRUE,
                          ![d].waiting = IF svc[d].remote THEN @ ELSE @ + 1]
     /\ Returns("OK") /\ UNCHANGED calls

\* Device::Connect: with the driver connected the answer is sent before the
\* callback is registered; registering may fail half way.
ServiceBind(d, api) ==
  \/ /\ \E r \in Refusals(api) : Returns(r)
     /\ UNCHANGED <<svc, calls>>
  \/ /\ svc[d].remote
     /\ calls' = Append(calls, Msg("OnConnect", d, TRUE))
     /\ \/ svc' = [svc EXCEPT ![d].reg = TRUE, ![d].bound = TRUE] /\ Returns("OK")
        \/ svc' = [svc EXCEPT ![d].reg = TRUE] /\ Returns("NOK")
  \/ /\ ~svc[d].remote
     /\ \/ /\ svc' = [svc EXCEPT ![d].reg = TRUE, ![d].bound = TRUE, ![d].waiting = @ + 1]
           /\ Returns("OK")
        \/ svc' = [svc EXCEPT ![d].reg = TRUE] /\ Returns("NOK")
        \/ svc' = [svc EXCEPT ![d].reg = FALSE, ![d].bound = FALSE] /\ Returns("NOK")
     /\ UNCHANGED calls

\* Unbinding keeps the connection for another caller or a driver that is not
\* launched on bind; the last caller disconnects, if there is a connection.
ServiceUnbind(d, api) ==
  \/ /\ \E r \in {"NO_PERM", "NOK"} : Returns(r)
     /\ UNCHANGED svc
  \/ /\ api = "driver" /\ ~svc[d].bound
     /\ Returns("NOT_BOUND")
     /\ UNCHANGED svc
  \/ /\ api = "device" \/ svc[d].bound
     /\ svc' = [svc EXCEPT ![d].bound = FALSE]
     /\ Returns("OK")
  \/ /\ svc[d].bound
     /\ svc' = [svc EXCEPT ![d].closing = svc[d].remote]
     /\ Returns("OK")

BindDeviceCall(op, api) ==
  /\ InCall(op) /\ js.api = api /\ proxy = "live"
  /\ ServiceBind(js.d, api)
  /\ UNCHANGED <<map, data, tasks, proxy, up, deaths, alive, unbinds, answer, env>>
UnbindDeviceCall(op, api) ==
  /\ InCall(op) /\ js.api = api /\ proxy = "live"
  /\ ServiceUnbind(js.d, api)
  /\ UNCHANGED <<app, proxy, up, deaths, alive, unbinds, answer, env>>

ClientBindDevice   == BindDeviceCall({"bind"}, "device")
ClientBindDriver   == BindDeviceCall({"bind"}, "driver")
ClientUnBindDevice == UnbindDeviceCall({"unbind", "undo"}, "device")
ClientUnbindDriver == UnbindDeviceCall({"unbind", "undo"}, "driver")

\* The ability manager connects or fails to connect the driver.
Connected(d) ==
  /\ svc[d].waiting > 0
  /\ \E ok \in BOOLEAN :
       /\ svc' = [svc EXCEPT ![d].waiting = @ - 1, ![d].remote = ok]
       /\ calls' = IF svc[d].reg THEN Append(calls, Msg("OnConnect", d, ok)) ELSE calls
  /\ UNCHANGED <<map, data, js, tasks, proxy, up, deaths, alive, unbinds, answer, env>>

\* It disconnects: on request, or because the driver or the device is gone.
Disconnected(d) ==
  /\ svc[d].remote \/ svc[d].waiting > 0 \/ svc[d].closing
  /\ svc' = [svc EXCEPT ![d] = NoSvc]
  /\ \E ok \in BOOLEAN :
       calls' = IF svc[d].reg
                THEN calls \o <<Msg("OnUnBind", d, ok), Msg("OnDisconnect", d, ok)>> ELSE calls
  /\ UNCHANGED <<map, data, js, tasks, proxy, up, deaths, alive, unbinds, answer, env>>

ServiceDies ==
  /\ up /\ scenario # "bind" /\ deaths < MaxDeaths
  /\ up' = FALSE /\ deaths' = deaths + 1
  /\ svc' = [d \in Devices |-> NoSvc]
  /\ proxy' = IF proxy = "live" THEN "dead" ELSE proxy
  /\ UNCHANGED <<app, js, alive, unbinds, answer, env>>

ServiceStarts ==
  /\ ~up /\ up' = TRUE
  /\ UNCHANGED <<app, js, svc, proxy, deaths, alive, unbinds, answer, env>>

-----------------------------------------------------------------------------
(***************************************************************************)
(* The callbacks, on an IPC thread under mapMutex: the entry is looked up  *)
(* and an event is sent to the JS thread.                                  *)
(***************************************************************************)
Task(kind, x, ok) == [kind |-> kind, x |-> x, ok |-> ok]

Delivered(kind) == alive /\ calls # <<>> /\ Head(calls).kind = kind
Entry           == map[Head(calls).d]

\* Sending the event may fail; the callback reports it to the service, which does not look.
Post(t) ==
  \/ tasks' = Append(tasks, t) /\ UNCHANGED unsent
  \/ UNCHANGED tasks /\ unsent' = unsent \union {t.x}

\* Variant: the entry of a failed connection stays.
ReportConnectKeepsEntry ==
  \/ Entry = None /\ UNCHANGED <<map, tasks, unsent>>
  \/ Entry # None /\ Post(Task("connect", Entry, Head(calls).ok)) /\ UNCHANGED map

\* OnConnect: a failed connection takes the entry out of the map.
ReportConnect ==
  \/ Entry = None /\ UNCHANGED <<map, tasks, unsent>>
  \/ /\ Entry # None
     /\ map' = IF Head(calls).ok THEN map ELSE [map EXCEPT ![Head(calls).d] = None]
     /\ Post(Task("connect", Entry, Head(calls).ok))

Handled ==
  /\ calls' = Tail(calls)
  /\ UNCHANGED <<js, svc, proxy, up, deaths, alive, unbinds, answer, binding, scenario, world>>

OnConnect ==
  binding = "napi" /\ Delivered("OnConnect") /\ ReportConnect /\ Handled /\ UNCHANGED data
TaiheOnConnect ==
  binding = "taihe" /\ Delivered("OnConnect") /\ ReportConnect /\ Handled /\ UNCHANGED data

\* OnDisconnect: the entry goes; nothing is sent when nobody is to be called.
ReportDisconnect(asked) ==
  \/ Entry = None /\ UNCHANGED <<map, tasks, unsent>>
  \/ /\ Entry # None
     /\ map' = [map EXCEPT ![Head(calls).d] = None]
     /\ \/ asked /\ Post(Task("disconnect", Entry, Head(calls).ok))
        \/ ~asked /\ UNCHANGED <<tasks, unsent>>

OnDisconnect ==
  /\ binding = "napi" /\ Delivered("OnDisconnect")
  /\ ReportDisconnect(Entry # None => data[Entry].onDisconnect \/ data[Entry].unbind # "none")
  /\ Handled /\ UNCHANGED data
TaiheOnDisconnect ==
  /\ binding = "taihe" /\ Delivered("OnDisconnect")
  /\ ReportDisconnect(Entry # None => data[Entry].onDisconnect)
  /\ Handled /\ UNCHANGED data

\* OnUnBind keeps the result for OnDisconnect; napi only if an unbind waits.
KeepUnbindResult(wanted) ==
  data' = IF Entry # None /\ wanted THEN [data EXCEPT ![Entry].unBindOk = Head(calls).ok] ELSE data

OnUnBind ==
  /\ binding = "napi" /\ Delivered("OnUnBind")
  /\ KeepUnbindResult(Entry # None => data[Entry].unbind # "none")
  /\ Handled /\ UNCHANGED <<map, tasks, unsent>>
TaiheOnUnBind ==
  /\ binding = "taihe" /\ Delivered("OnUnBind")
  /\ KeepUnbindResult(TRUE)
  /\ Handled /\ UNCHANGED <<map, tasks, unsent>>

-----------------------------------------------------------------------------
(***************************************************************************)
(* The events, on the JS thread between two calls.                         *)
(***************************************************************************)
Running(kind) == Ready /\ tasks # <<>> /\ Head(tasks).kind = kind
Ran == tasks' = Tail(tasks) /\ UNCHANGED <<map, js, ipc, unbinds, env>>

\* A promise that was not made, or is settled, stays as it is.
OnConnectTask ==
  /\ Running("connect")
  /\ LET t == Head(tasks) IN
     data' = IF data[t.x].bind # "open" THEN data
             ELSE [data EXCEPT ![t.x].bind = IF t.ok THEN "resolved" ELSE "rejected"]
  /\ Ran /\ UNCHANGED answer

\* Variant: only onDisconnect is called.
OnDisconnectOnlyTells ==
  /\ Running("disconnect")
  /\ data' = [data EXCEPT ![Head(tasks).x].told = @ \/ data[Head(tasks).x].onDisconnect]
  /\ Ran /\ UNCHANGED answer

\* onDisconnect is called, then the unbind is settled with what OnUnBind kept.
OnDisconnectTask ==
  /\ Running("disconnect")
  /\ LET x == Head(tasks).x
         settles == data[x].unbind = "open"
     IN /\ data' = [data EXCEPT
               ![x].told   = @ \/ data[x].onDisconnect,
               ![x].unbind = IF ~settles THEN @
                             ELSE IF data[x].unBindOk THEN "resolved" ELSE "rejected"]
        /\ answer' = IF settles /\ ~data[x].unBindOk
                     THEN Says(SERVICE_EXCEPTION, ~Head(tasks).ok) ELSE answer
  /\ Ran

-----------------------------------------------------------------------------
(***************************************************************************)
(* Queries.  The id of a device was given to the application earlier, and  *)
(* comes back as a value of the application.                               *)
(***************************************************************************)
AppId(id)  == IF binding = "napi" THEN ParseDeviceId(ConvertToJsDeviceId(id)) ELSE id

EnterQuery(q, api) ==
  /\ Ready /\ scenario = "query" /\ q.api = api /\ answer = None
  /\ js' = [Idle EXCEPT !.pc = "connect", !.op = "query", !.d = q, !.api = api]
  /\ UNCHANGED <<app, svc, proxy, up, deaths, alive, unbinds, answer, env>>

\* A call of the proxy that brings back a code and a list.
QueryCall(api, code, list) ==
  /\ InCall({"query"}) /\ js.api = api /\ proxy = "live"
  /\ js' = [js EXCEPT !.pc = "return", !.list = IF list = None THEN <<>> ELSE list,
                      !.ret = IF list = None THEN ProxyRetTranslate("ERR_INVALID_DATA") ELSE code]
  /\ UNCHANGED <<app, svc, proxy, up, deaths, alive, unbinds, answer, env>>

BusType(q) == IF q.one THEN q.arg ELSE Usb

ClientQueryDevice ==
  QueryCall("devices", QueryDeviceCode(world, BusType(js.d)),
    IF QueryDeviceCode(world, BusType(js.d)) # "OK" THEN <<>>
    ELSE TransferDevices(QueryDevice(world.tables.devices, BusType(js.d))))
ClientQueryDeviceInfo ==
  QueryCall("deviceInfo", QueryInfoCode(world),
    IF QueryInfoCode(world) # "OK" THEN <<>>
    ELSE TransferDeviceInfos(QueryDeviceInfo(world.tables.devices, js.d.one, AppId(js.d.arg))))
ClientQueryDriverInfo ==
  QueryCall("driverInfo", QueryInfoCode(world),
    IF QueryInfoCode(world) # "OK" THEN <<>>
    ELSE TransferDriverInfos(QueryDriverInfo(world.tables.drivers, js.d.one, js.d.arg)))

FinishQuery(b, api, error, list) ==
  /\ binding = b /\ alive /\ js.pc = "return" /\ js.op = "query" /\ js.api = api
  /\ answer' = IF js.ret # "OK"
               THEN [code |-> error, failed |-> TRUE, query |-> js.d, list |-> <<>>]
               ELSE [code |-> 0, failed |-> FALSE, query |-> js.d, list |-> list]
  /\ js' = Idle
  /\ UNCHANGED <<app, svc, proxy, up, deaths, alive, unbinds, env>>

NapiQueryDevices ==
  FinishQuery("napi", "devices", QueryDevicesError(js.ret),
              [i \in DOMAIN js.list |-> ConvertDeviceToJsDevice(js.list[i])])
NapiQueryDeviceInfo ==
  FinishQuery("napi", "deviceInfo", QueryDeviceInfoError(js.ret),
              [i \in DOMAIN js.list |-> ConvertToJsDeviceInfo(js.list[i])])
NapiQueryDriverInfo ==
  FinishQuery("napi", "driverInfo", QueryDriverInfoError(js.ret),
              [i \in DOMAIN js.list |-> ConvertToJsDriverInfo(js.list[i])])
TaiheQueryDevices ==
  FinishQuery("taihe", "devices", QueryDevicesError(js.ret),
              [i \in DOMAIN js.list |-> ConvertToDevice(js.list[i])])
TaiheQueryDeviceInfo ==
  FinishQuery("taihe", "deviceInfo", QueryDeviceInfoError(js.ret),
              [i \in DOMAIN js.list |-> ConvertToDeviceInfo(js.list[i])])
TaiheQueryDriverInfo ==
  FinishQuery("taihe", "driverInfo", QueryDriverInfoError(js.ret),
              [i \in DOMAIN js.list |-> ConvertToDriverInfo(js.list[i])])

-----------------------------------------------------------------------------
Calls ==
  \/ \E x \in Data, d \in Devices :
       BindDevice(x, d) \/ BindDriverWithDeviceId(x, d) \/ BindDriverWithDeviceIdSync(x, d)
  \/ \E d \in Devices :
       UnbindDevice(d) \/ UnbindDriverWithDeviceId(d) \/ UnbindDriverWithDeviceIdSync(d)
  \/ \E q \in Queries, api \in {"devices", "deviceInfo", "driverInfo"} : EnterQuery(q, api)
  \/ BadArgument

JsReturns ==
  \/ BindDeviceReturns \/ BindDriverWithDeviceIdReturns \/ BindDriverWithDeviceIdSyncReturns
  \/ UndoReturns
  \/ UnbindDeviceReturns \/ UnbindDriverWithDeviceIdReturns \/ UnbindDriverWithDeviceIdSyncReturns
  \/ NapiQueryDevices \/ NapiQueryDeviceInfo \/ NapiQueryDriverInfo
  \/ TaiheQueryDevices \/ TaiheQueryDeviceInfo \/ TaiheQueryDriverInfo

Client ==
  \/ Connect \/ ProxyIsNull \/ ProxyIsDead
  \/ ClientBindDevice \/ ClientBindDriver \/ ClientUnBindDevice \/ ClientUnbindDriver
  \/ ClientQueryDevice \/ ClientQueryDeviceInfo \/ ClientQueryDriverInfo

Binder ==
  OnConnect \/ OnDisconnect \/ OnUnBind \/ TaiheOnConnect \/ TaiheOnDisconnect \/ TaiheOnUnBind

Tasks == OnConnectTask \/ OnDisconnectTask

Service ==
  \/ \E d \in Devices : Connected(d) \/ Disconnected(d)
  \/ ServiceDies \/ ServiceStarts

Next == Calls \/ JsReturns \/ Client \/ DisConnect \/ Binder \/ Tasks \/ Service

Spec == Init /\ [][Next]_vars

\* Threads run; the ability manager answers a connect, and a disconnect asked for.
Fairness ==
  /\ WF_vars(JsReturns) /\ WF_vars(Client) /\ WF_vars(Binder) /\ WF_vars(Tasks)
  /\ \A d \in Devices : WF_vars(Connected(d)) /\ WF_vars(svc[d].closing /\ Disconnected(d))

FairSpec == Spec /\ Fairness

-----------------------------------------------------------------------------
(***************************************************************************)
(* Properties.                                                             *)
(***************************************************************************)
\* The types of the application's state; a proxy is live only while the
\* service it was made for runs, and only a bind call has an AsyncData.
TypeOK ==
  /\ map \in [Devices -> Data \union {None}]
  /\ \A x \in Data :
       /\ data[x].bind \in {"unused", "called", "open", "threw", "resolved", "rejected"}
       /\ data[x].unbind \in {"none", "open", "resolved", "rejected"}
       /\ data[x].onDisconnect = (data[x].bind \notin {"unused", "threw"})
  /\ proxy \in {"none", "live", "dead"} /\ (proxy = "live" => up)
  /\ js.x # None <=> js.op \in {"bind", "undo"}

Contract == INSTANCE BindingContract WITH
  bind   <- [x \in Data |-> data[x].bind],
  told   <- [x \in Data |-> data[x].told],
  unbind <- [x \in Data |-> data[x].unbind]

\* What the application sees of a binding is what BindingContract allows,
\* whatever the order of the service's callbacks, the events they send to the
\* JS thread and the calls the application makes (g_callbackMap, mapMutex).
BindingSpec == Contract!Spec

\* A promise of bindDevice or bindDriverWithDeviceId is settled, or its
\* onDisconnect is called, unless a second bind of the device replaced its
\* entry, an event about it could not be sent to the JS thread
\* (device_manager_middle.cpp:123, :176), the service died or the application
\* did.
BindSettles ==
  \A x \in Data :
    data[x].bind = "open" ~>
        \/ data[x].bind # "open" \/ data[x].told \/ data[x].replaced
        \/ x \in unsent \/ deaths > 0 \/ ~alive

\* An unbind whose disconnection the service has asked for is settled, unless
\* a second bind replaced the entry, an event about it could not be sent, the
\* service or the application died, or an earlier connect is still to fail
\* (OnConnect then takes the entry out of the map, and the unbind is lost).
UnbindSettles ==
  \A x \in Data :
    LET d == data[x].dev IN
    (/\ data[x].unbind = "open" /\ map[d] = x
     /\ svc[d].closing /\ svc[d].waiting = 0
     /\ \A i \in 1..Len(calls) : calls[i] # Msg("OnConnect", d, FALSE)) ~>
      data[x].unbind # "open" \/ data[x].replaced \/ x \in unsent \/ deaths > 0 \/ ~alive

\* An entry of g_callbackMap stands for a callback the service holds, or for
\* one whose end is on its way: no bind leaves an entry behind that nobody
\* will ever take out, while the service lives.
MapFollowsService ==
  \A d \in Devices :
    map[d] # None /\ deaths = 0 =>
      \/ svc[d].reg
      \/ js.op = "bind" /\ js.x = map[d]
      \/ \E i \in 1..Len(calls), ok \in BOOLEAN : calls[i] = Msg("OnDisconnect", d, ok)

Same(shown, d) ==
  shown.deviceId.value = d.deviceId /\ shown.vendorId = d.vendorId /\ shown.productId = d.productId

\* What a query returns is what the service knows, in both bindings: every
\* device of the bus with the id that selects it again, the driver's uid
\* exactly for a matched device; a device with more interfaces than a parcel
\* may carry makes the query fail as a whole; and the code tells a missing
\* right from a failure.
QueryShowsDevices ==
  answer # None /\ answer.query # None =>
    LET q        == answer.query
        usb(d)   == d.busType = Usb
        wanted(d) == d.busType = Usb /\ (q.one => d.deviceId = q.arg)
        all      == SelectSeq(world.tables.devices, usb)
        some     == SelectSeq(world.tables.devices, wanted)
        named(d) == d.busType = Usb /\ (q.one => d.driverUid = q.arg)
        drivers  == SelectSeq(world.tables.drivers, named)
        tooMany  == \E i \in 1..Len(some) : Len(some[i].interfaceDescList) > MaxInterfaceDescs
    IN \/ answer.code = PERMISSION_DENIED /\ ~world.permitted
       \/ answer.code = PERMISSION_NOT_SYSTEM_APP /\ ~world.system /\ q.api # "devices"
       \/ answer.code = SERVICE_EXCEPTION /\ q.api = "devices"
       \/ answer.code = SERVICE_EXCEPTION_NEW /\ q.api # "devices"
       \/ /\ answer.code = 0 /\ world.permitted /\ q.api = "devices"
          /\ answer.list = <<>> \/ BusType(q) = Usb
          /\ BusType(q) = Usb =>
               /\ Len(answer.list) = Len(all)
               /\ \A i \in 1..Len(all) :
                    Same(answer.list[i], all[i]) /\ answer.list[i].description = all[i].description
       \/ /\ answer.code = 0 /\ world.permitted /\ world.system /\ q.api = "deviceInfo" /\ ~tooMany
          /\ Len(answer.list) = Len(some)
          /\ \A i \in 1..Len(some) :
               /\ Same(answer.list[i], some[i])
               /\ answer.list[i].isDriverMatched = some[i].hasDriver
               /\ answer.list[i].driverUid = (IF some[i].hasDriver THEN some[i].driverUid ELSE None)
               /\ answer.list[i].interfaceDescList = some[i].interfaceDescList
       \/ /\ answer.code = 0 /\ world.permitted /\ world.system /\ q.api = "driverInfo"
          /\ Len(answer.list) = Len(drivers)
          /\ \A i \in 1..Len(drivers) :
               /\ answer.list[i].driverUid = drivers[i].driverUid
               /\ answer.list[i].driverSize = drivers[i].bundleSize
               /\ answer.list[i].driverVersion = drivers[i].version
               /\ answer.list[i].productIdList = drivers[i].pids
               /\ answer.list[i].vendorIdList = drivers[i].vids

\* "Use this error code when the service is exception": an application is told
\* of a service exception only after the service or a call of it failed, or
\* when it has no binding to undo.
ServiceExceptionIsReal ==
  answer # None /\ answer.code \in ServiceExceptions => answer.failed
=============================================================================
