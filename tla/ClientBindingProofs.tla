------------------------ MODULE ClientBindingProofs ------------------------
(***************************************************************************)
(* The bindings keep BindingContract, and their callback map follows the   *)
(* service, for any number of devices, bind calls, unbinds and deaths.     *)
(*                                                                         *)
(* The argument.  A bind call is in the map until an event that ends it is *)
(* sent to the JS thread (MapOK, TasksOK): nothing is sent for it after    *)
(* that event, so that nothing is settled after onDisconnect or twice.     *)
(* The JS thread runs events between its calls only, so that no event      *)
(* finds a bind call under way (DataOK).  An entry whose callback the      *)
(* service has let go has its OnDisconnect on the way (EntriesOK).         *)
(***************************************************************************)
EXTENDS ClientBinding, SequenceTheorems, TLAPS

------------------------------------------------------------------------------
(* 1. The inductive invariant. *)

AsyncData ==
  [dev : Devices \union {None},
   bind : {"unused", "called", "open", "threw", "resolved", "rejected"},
   onDisconnect : BOOLEAN, told : BOOLEAN,
   unbind : {"none", "open", "resolved", "rejected"}, unBindOk : BOOLEAN, replaced : BOOLEAN]
TaskSet == [kind : {"connect", "disconnect"}, x : Data, ok : BOOLEAN]
MsgSet  == [kind : {"OnConnect", "OnUnBind", "OnDisconnect"}, d : Devices, ok : BOOLEAN]
SvcSet  == [remote : BOOLEAN, waiting : Nat, closing : BOOLEAN, reg : BOOLEAN, bound : BOOLEAN]

\* The call the JS thread is in; the entry of a bind call is its own or gone.
JsOK ==
  /\ DOMAIN js = {"pc", "op", "x", "d", "api", "ret", "list"}
  /\ js.pc = "idle" <=> js.op = "none"
  /\ js.x # None <=> js.op \in {"bind", "undo"}
  /\ js.op \in {"bind", "undo"} => js.x \in Data
  /\ js.op \in {"bind", "undo", "unbind"} => js.d \in Devices
  /\ js.op = "bind" => /\ data[js.x].bind = "called" /\ data[js.x].dev = js.d
                       /\ map[js.d] \in {None, js.x}

\* What the application saw of the bind call x.
BindOK(x) ==
  /\ data[x].onDisconnect <=> data[x].bind \notin {"unused", "threw"}
  /\ data[x].bind = "called" => js.op = "bind" /\ js.x = x
  /\ data[x].told => data[x].bind \in {"open", "resolved"}
  /\ data[x].unbind # "none" => data[x].bind \in {"open", "resolved", "rejected"}
  /\ data[x].unbind \in {"resolved", "rejected"} => data[x].told

DataOK == data \in [Data -> AsyncData] /\ \A x \in Data : BindOK(x)

\* An entry is of its device, and neither thrown, rejected nor told of the end.
EntryOK(d, x) ==
  data[x].dev = d /\ ~data[x].told /\ data[x].bind \in {"called", "open", "resolved"}

MapOK ==
  /\ map \in [Devices -> Data \union {None}]
  /\ \A d \in Devices : map[d] # None => EntryOK(d, map[d])

\* An event after which none follows for its bind call.
Ends(t)  == t.kind = "disconnect" \/ ~t.ok
InMap(x) == \E d \in Devices : map[d] = x
\* The bind call of an event may still be settled or told.
EventOK(t) ==
  /\ data[t.x].bind \notin {"unused", "rejected"} /\ ~data[t.x].told
  /\ Ends(t) => ~InMap(t.x)

TasksOK ==
  /\ tasks \in Seq(TaskSet)
  /\ \A i \in 1..Len(tasks) : EventOK(tasks[i])
  /\ \A i, j \in 1..Len(tasks) : i < j /\ tasks[j].x = tasks[i].x => ~Ends(tasks[i])

SvcOK ==
  /\ proxy \in {"none", "live", "dead"} /\ (proxy = "live" => up)
  /\ svc \in [Devices -> SvcSet] /\ calls \in Seq(MsgSet)
  /\ deaths \in Nat

\* The callback of an entry is registered, on its way out, or still to be
\* registered by the bind call under way.
Leaving(d) == \E i \in 1..Len(calls), ok \in BOOLEAN : calls[i] = Msg("OnDisconnect", d, ok)
Pending(d) == js.op = "bind" /\ js.d = d /\ (js.pc = "return" => js.ret # "OK")
EntriesOK ==
  \A d \in Devices : map[d] # None /\ deaths = 0 => svc[d].reg \/ Leaving(d) \/ Pending(d)

IInv == JsOK /\ DataOK /\ MapOK /\ TasksOK /\ SvcOK /\ EntriesOK

------------------------------------------------------------------------------
(* 2. Steps that leave the application's bind calls alone. *)

\* The record of a JS thread that is in no call.
LEMMA IdleFacts ==
  /\ DOMAIN Idle = {"pc", "op", "x", "d", "api", "ret", "list"}
  /\ Idle.pc = "idle" /\ Idle.op = "none" /\ Idle.x = None
BY DEF Idle

\* The bind calls, the map and the events stay good while they stay, unless
\* the JS thread leaves a bind call.
LEMMA AppFrame ==
  ASSUME DataOK, MapOK, TasksOK, UNCHANGED <<map, data, tasks>>,
         js.op = "bind" => js'.op = "bind" /\ js'.x = js.x
  PROVE  DataOK' /\ MapOK' /\ TasksOK'
<1>1. DataOK'
  BY DEF DataOK, BindOK
<1>2. MapOK'
  BY DEF MapOK, EntryOK
<1>3. TasksOK'
  BY DEF TasksOK, EventOK, InMap, Ends
<1> QED
  BY <1>1, <1>2, <1>3

LEMMA SvcFrame ==
  ASSUME SvcOK, UNCHANGED <<svc, calls, proxy, up, deaths>>
  PROVE  SvcOK'
BY DEF SvcOK

\* Entries stay followed when the service and the map stay, unless the JS
\* thread's bind call returns.
LEMMA EntriesFrame ==
  ASSUME EntriesOK, UNCHANGED <<map, svc, calls, deaths>>,
         \A d \in Devices : map[d] # None /\ deaths = 0 /\ Pending(d) => Pending(d)'
  PROVE  EntriesOK'
BY DEF EntriesOK, Leaving

\* The JS thread goes on within its call.
JsGoes ==
  /\ DOMAIN js' = DOMAIN js
  /\ js'.op = js.op /\ js'.x = js.x /\ js'.d = js.d
  /\ js.pc # "idle" /\ js'.pc # "idle"

LEMMA JsGoesOn ==
  ASSUME IInv, JsGoes, UNCHANGED <<map, data, tasks>>
  PROVE  JsOK' /\ DataOK' /\ MapOK' /\ TasksOK'
<1>1. JsOK'
  BY DEF IInv, JsOK, JsGoes
<1> QED
  BY <1>1, AppFrame DEF IInv, JsGoes

\* The JS thread stays where it is.
LEMMA JsStays ==
  ASSUME IInv, UNCHANGED <<map, data, tasks, js>>
  PROVE  JsOK' /\ DataOK' /\ MapOK' /\ TasksOK'
<1>1. JsOK'
  BY DEF IInv, JsOK
<1> QED
  BY <1>1, AppFrame DEF IInv

\* The JS thread ends a call that is not a bind.
LEMMA JsEnds ==
  ASSUME IInv, js.op # "bind", js' = Idle,
         UNCHANGED <<map, data, tasks, svc, calls, proxy, up, deaths>>
  PROVE  IInv'
<1>1. JsOK'
  BY IdleFacts DEF JsOK
<1>2. EntriesOK'
  BY EntriesFrame DEF IInv, Pending
<1> QED
  BY <1>1, <1>2, AppFrame, SvcFrame DEF IInv

------------------------------------------------------------------------------
(* 3. The native client and the service. *)

LEMMA MsgFacts ==
  ASSUME NEW kind, NEW d, NEW ok
  PROVE  Msg(kind, d, ok).kind = kind /\ Msg(kind, d, ok).d = d /\ Msg(kind, d, ok).ok = ok
BY DEF Msg

\* A callback sent after the others hides none of them.
LEMMA SentLast ==
  ASSUME calls \in Seq(MsgSet), NEW m \in MsgSet, calls' = Append(calls, m)
  PROVE  /\ calls' \in Seq(MsgSet)
         /\ \A d \in Devices : Leaving(d) => Leaving(d)'
<1>1. /\ calls' \in Seq(MsgSet) /\ Len(calls') = Len(calls) + 1 /\ Len(calls) \in Nat
      /\ \A i \in 1..Len(calls) : calls'[i] = calls[i]
  BY AppendProperties, LenProperties
<1> QED
  BY <1>1 DEF Leaving

LEMMA ConnectKeeps ==
  ASSUME IInv, Connect PROVE IInv'
<1>1. js.pc = "connect" /\ DOMAIN js = {"pc", "op", "x", "d", "api", "ret", "list"}
  BY DEF IInv, JsOK, Connect
<1>2. /\ UNCHANGED <<map, data, tasks>> /\ UNCHANGED <<svc, calls, up, deaths>>
      /\ UNCHANGED <<map, svc, calls, deaths>>
  BY DEF Connect, app
<1>3. /\ JsGoes
      /\ js'.pc = "return" => js'.ret # "OK"
      /\ proxy' \in {"none", "live", "dead"} /\ (proxy' = "live" => up)
  <2>1. CASE proxy # "none" /\ js' = [js EXCEPT !.pc = "call"] /\ UNCHANGED proxy
    BY <1>1, <2>1 DEF JsGoes, IInv, SvcOK
  <2>2. CASE proxy = "none" /\ up /\ proxy' = "live" /\ js' = [js EXCEPT !.pc = "call"]
    BY <1>1, <2>2 DEF JsGoes
  <2>3. CASE /\ proxy = "none" /\ UNCHANGED proxy
             /\ js' = [js EXCEPT !.pc = "return", !.ret = "CONNECTION_FAILED"]
    BY <1>1, <2>3 DEF JsGoes
  <2> QED
    BY <2>1, <2>2, <2>3 DEF Connect
<1>4. SvcOK'
  BY <1>2, <1>3 DEF IInv, SvcOK
<1>5. EntriesOK'
  BY <1>2, <1>3, EntriesFrame DEF IInv, Pending, JsGoes
<1> QED
  BY <1>2, <1>3, <1>4, <1>5, JsGoesOn DEF IInv

LEMMA ProxyKeeps ==
  ASSUME IInv, ProxyIsNull \/ ProxyIsDead \/ DisConnect PROVE IInv'
<1>1. CASE ProxyIsNull \/ DisConnect
  <2>1. UNCHANGED <<map, data, tasks, js>> /\ UNCHANGED <<map, svc, calls, deaths>> /\ UNCHANGED up
    BY <1>1 DEF ProxyIsNull, DisConnect, app
  <2>2. proxy' = proxy \/ proxy' = "none"
    BY <1>1 DEF ProxyIsNull, DisConnect
  <2>3. SvcOK'
    BY <2>1, <2>2 DEF IInv, SvcOK
  <2>4. EntriesOK'
    BY <2>1, EntriesFrame DEF IInv, Pending
  <2> QED
    BY <2>1, <2>3, <2>4, JsStays DEF IInv
<1>2. CASE ProxyIsDead
  <2>1. /\ UNCHANGED <<map, data, tasks>> /\ UNCHANGED <<map, svc, calls, deaths>>
        /\ UNCHANGED <<svc, calls, proxy, up, deaths>>
    BY <1>2 DEF ProxyIsDead, app
  <2>2. js' = [js EXCEPT !.pc = "return", !.ret = "DEAD_OBJECT"] /\ js.pc = "call"
    BY <1>2 DEF ProxyIsDead, Returns, ProxyRetTranslate
  <2>3. JsGoes /\ js'.ret # "OK"
    BY <2>2 DEF IInv, JsOK, JsGoes
  <2>4. EntriesOK'
    BY <2>1, <2>3, EntriesFrame DEF IInv, Pending, JsGoes
  <2> QED
    BY <2>1, <2>3, <2>4, JsGoesOn, SvcFrame DEF IInv
<1> QED
  BY <1>1, <1>2

\* What may become of the service's record of a device.
LEMMA SvcEdits ==
  ASSUME NEW r \in SvcSet
  PROVE  /\ NoSvc \in SvcSet
         /\ [r EXCEPT !.reg = TRUE, !.bound = TRUE] \in SvcSet
         /\ [r EXCEPT !.reg = TRUE, !.bound = TRUE].reg
         /\ [r EXCEPT !.reg = TRUE, !.bound = TRUE, !.waiting = @ + 1] \in SvcSet
         /\ [r EXCEPT !.reg = TRUE, !.bound = TRUE, !.waiting = @ + 1].reg
         /\ [r EXCEPT !.reg = TRUE] \in SvcSet
         /\ [r EXCEPT !.reg = TRUE].reg
         /\ [r EXCEPT !.reg = FALSE, !.bound = FALSE] \in SvcSet
<1>1. r.waiting + 1 \in Nat
  BY DEF SvcSet
<1>2. NoSvc \in SvcSet
  BY DEF NoSvc, SvcSet
<1>3. /\ [r EXCEPT !.reg = TRUE, !.bound = TRUE] \in SvcSet
      /\ [r EXCEPT !.reg = TRUE, !.bound = TRUE].reg = TRUE
  BY DEF SvcSet
<1>4. [r EXCEPT !.reg = TRUE, !.bound = TRUE, !.waiting = @ + 1] \in SvcSet
  BY <1>1 DEF SvcSet
<1>5. [r EXCEPT !.reg = TRUE, !.bound = TRUE, !.waiting = @ + 1].reg = TRUE
  BY DEF SvcSet
<1>6. [r EXCEPT !.reg = TRUE] \in SvcSet /\ [r EXCEPT !.reg = TRUE].reg = TRUE
  BY DEF SvcSet
<1>7. [r EXCEPT !.reg = FALSE, !.bound = FALSE] \in SvcSet
  BY DEF SvcSet
<1> QED
  BY <1>2, <1>3, <1>4, <1>5, <1>6, <1>7

\* What a bind at the service leaves of its record of the device.
LEMMA ServiceBinds ==
  ASSUME IInv, NEW api, NEW op, BindDeviceCall(op, api), js.d \in Devices
  PROVE  /\ svc' \in [Devices -> SvcSet] /\ calls' \in Seq(MsgSet)
         /\ js' = [js EXCEPT !.pc = "return", !.ret = js'.ret]
         /\ \A d \in Devices \ {js.d} : svc'[d].reg = svc[d].reg
         /\ \A d \in Devices : Leaving(d) => Leaving(d)'
         /\ js'.ret = "OK" => svc'[js.d].reg
<1> DEFINE d == js.d
<1>1. svc \in [Devices -> SvcSet] /\ calls \in Seq(MsgSet) /\ d \in Devices
  BY DEF IInv, SvcOK
<1>2. DOMAIN js = {"pc", "op", "x", "d", "api", "ret", "list"}
  BY DEF IInv, JsOK
<1>3. \A r : Returns(r) => js' = [js EXCEPT !.pc = "return", !.ret = js'.ret] /\ js'.ret = r
  BY <1>2 DEF Returns
<1>4. svc[d] \in SvcSet
  BY <1>1
<1> HIDE DEF d
<1>5. CASE (\E r \in Refusals(api) : Returns(r)) /\ UNCHANGED <<svc, calls>>
  <2>1. js' = [js EXCEPT !.pc = "return", !.ret = js'.ret] /\ js'.ret # "OK"
    BY <1>3, <1>5 DEF Refusals
  <2>2. \A e \in Devices : Leaving(e) => Leaving(e)'
    BY <1>5 DEF Leaving
  <2> QED
    BY <1>1, <1>5, <2>1, <2>2
<1>6. CASE /\ svc[d].remote /\ calls' = Append(calls, Msg("OnConnect", d, TRUE))
           /\ \/ svc' = [svc EXCEPT ![d].reg = TRUE, ![d].bound = TRUE] /\ Returns("OK")
              \/ svc' = [svc EXCEPT ![d].reg = TRUE] /\ Returns("NOK")
  <2>1. Msg("OnConnect", d, TRUE) \in MsgSet
    BY <1>1 DEF Msg, MsgSet
  <2>2. calls' \in Seq(MsgSet) /\ \A e \in Devices : Leaving(e) => Leaving(e)'
    BY <1>1, <1>6, <2>1, SentLast
  <2>3. /\ svc' \in [Devices -> SvcSet] /\ svc'[d].reg
        /\ \A e \in Devices \ {d} : svc'[e].reg = svc[e].reg
    <3>1. PICK s \in SvcSet : svc' = [svc EXCEPT ![d] = s] /\ s.reg
      <4>1. CASE svc' = [svc EXCEPT ![d] = [svc[d] EXCEPT !.reg = TRUE, !.bound = TRUE]]
        BY <1>4, <4>1, SvcEdits
      <4>2. CASE svc' = [svc EXCEPT ![d] = [svc[d] EXCEPT !.reg = TRUE]]
        BY <1>4, <4>2, SvcEdits
      <4> QED
        BY <1>6, <4>1, <4>2, Zenon
    <3> QED
      BY <1>1, <3>1
  <2>4. Returns("OK") \/ Returns("NOK")
    BY <1>6
  <2>5. js' = [js EXCEPT !.pc = "return", !.ret = js'.ret]
    BY <1>2, <2>4 DEF Returns
  <2> QED
    BY <2>2, <2>3, <2>5 DEF d
<1>7. CASE /\ ~svc[d].remote /\ UNCHANGED calls
           /\ \/ /\ svc' = [svc EXCEPT ![d].reg = TRUE, ![d].bound = TRUE, ![d].waiting = @ + 1]
                 /\ Returns("OK")
              \/ svc' = [svc EXCEPT ![d].reg = TRUE] /\ Returns("NOK")
              \/ svc' = [svc EXCEPT ![d].reg = FALSE, ![d].bound = FALSE] /\ Returns("NOK")
  <2>1. \A e \in Devices : Leaving(e) => Leaving(e)'
    BY <1>7 DEF Leaving
  <2>2. PICK s \in SvcSet : /\ svc' = [svc EXCEPT ![d] = s]
                            /\ (Returns("OK") /\ s.reg) \/ Returns("NOK")
    <3>1. CASE /\ svc' = [svc EXCEPT ![d] = [svc[d] EXCEPT !.reg = TRUE, !.bound = TRUE,
                                                         !.waiting = @ + 1]]
               /\ Returns("OK")
      BY <1>4, <3>1, SvcEdits
    <3>2. CASE svc' = [svc EXCEPT ![d] = [svc[d] EXCEPT !.reg = TRUE]] /\ Returns("NOK")
      BY <1>4, <3>2, SvcEdits
    <3>3. CASE /\ svc' = [svc EXCEPT ![d] = [svc[d] EXCEPT !.reg = FALSE, !.bound = FALSE]]
               /\ Returns("NOK")
      BY <1>4, <3>3, SvcEdits
    <3> QED
      BY <1>7, <3>1, <3>2, <3>3, Zenon
  <2>3. /\ svc' \in [Devices -> SvcSet] /\ svc'[d] = s
        /\ \A e \in Devices \ {d} : svc'[e].reg = svc[e].reg
    BY <1>1, <2>2
  <2>4. js' = [js EXCEPT !.pc = "return", !.ret = js'.ret]
    BY <1>2, <2>2 DEF Returns
  <2>5. js'.ret = "OK" => svc'[d].reg
    BY <1>2, <2>2, <2>3 DEF Returns
  <2> QED
    BY <1>1, <1>7, <2>1, <2>3, <2>4, <2>5 DEF d
<1> QED
  BY <1>5, <1>6, <1>7 DEF BindDeviceCall, ServiceBind, d

LEMMA BindCallKeeps ==
  ASSUME IInv, NEW api, BindDeviceCall({"bind"}, api) PROVE IInv'
<1>1. /\ js.op = "bind" /\ js.pc = "call" /\ js.d \in Devices
      /\ DOMAIN js = {"pc", "op", "x", "d", "api", "ret", "list"}
  BY DEF IInv, JsOK, BindDeviceCall, InCall
<1>2. UNCHANGED <<map, data, tasks>> /\ UNCHANGED <<proxy, up, deaths>>
  BY DEF BindDeviceCall
<1>3. /\ svc' \in [Devices -> SvcSet] /\ calls' \in Seq(MsgSet)
      /\ js' = [js EXCEPT !.pc = "return", !.ret = js'.ret]
      /\ \A d \in Devices \ {js.d} : svc'[d].reg = svc[d].reg
      /\ \A d \in Devices : Leaving(d) => Leaving(d)'
      /\ js'.ret = "OK" => svc'[js.d].reg
  BY <1>1, ServiceBinds
<1>4. JsGoes
  BY <1>1, <1>3 DEF JsGoes
<1>5. SvcOK'
  BY <1>2, <1>3 DEF IInv, SvcOK
<1>6. EntriesOK'
  <2> SUFFICES ASSUME NEW d \in Devices, map[d] # None, deaths = 0
               PROVE  svc'[d].reg \/ Leaving(d)' \/ Pending(d)'
    BY <1>2 DEF EntriesOK
  <2>1. CASE d = js.d
    BY <1>1, <1>3, <1>4, <2>1 DEF Pending, JsGoes
  <2>2. CASE d # js.d
    BY <1>1, <1>3, <2>2 DEF IInv, EntriesOK, Pending
  <2> QED
    BY <2>1, <2>2
<1> QED
  BY <1>2, <1>4, <1>5, <1>6, JsGoesOn DEF IInv

LEMMA UnbindCallKeeps ==
  ASSUME IInv, NEW api, UnbindDeviceCall({"unbind", "undo"}, api) PROVE IInv'
<1> DEFINE d == js.d
<1>1. /\ js.op \in {"unbind", "undo"} /\ js.pc = "call" /\ d \in Devices
      /\ DOMAIN js = {"pc", "op", "x", "d", "api", "ret", "list"}
  BY DEF IInv, JsOK, UnbindDeviceCall, InCall
<1>2. UNCHANGED <<map, data, tasks>> /\ UNCHANGED <<proxy, up, deaths, calls>>
  BY DEF UnbindDeviceCall, app
<1>3. svc \in [Devices -> SvcSet] /\ svc[d] \in SvcSet
  BY <1>1 DEF IInv, SvcOK
<1>4. PICK r : Returns(r)
  BY Zenon DEF UnbindDeviceCall, ServiceUnbind
<1>5. JsGoes
  BY <1>1, <1>4 DEF JsGoes, Returns
<1>6. PICK s \in SvcSet : svc' = [svc EXCEPT ![d] = s] /\ s.reg = svc[d].reg
  <2>1. CASE UNCHANGED svc
    BY <1>3, <2>1
  <2>2. CASE svc' = [svc EXCEPT ![d].bound = FALSE]
    <3>1. [svc[d] EXCEPT !.bound = FALSE] \in SvcSet /\ [svc[d] EXCEPT !.bound = FALSE].reg = svc[d].reg
      BY <1>3 DEF SvcSet
    <3> QED
      BY <2>2, <3>1
  <2>3. CASE svc' = [svc EXCEPT ![d].closing = svc[d].remote]
    <3>1. /\ [svc[d] EXCEPT !.closing = svc[d].remote] \in SvcSet
          /\ [svc[d] EXCEPT !.closing = svc[d].remote].reg = svc[d].reg
      BY <1>3 DEF SvcSet
    <3> QED
      BY <2>3, <3>1
  <2> QED
    BY <2>1, <2>2, <2>3, Zenon DEF UnbindDeviceCall, ServiceUnbind
<1> HIDE DEF d
<1>7. svc' \in [Devices -> SvcSet] /\ \A e \in Devices : svc'[e].reg = svc[e].reg
  BY <1>1, <1>3, <1>6
<1>8. SvcOK'
  BY <1>2, <1>7 DEF IInv, SvcOK
<1>9. EntriesOK'
  BY <1>1, <1>2, <1>7 DEF IInv, EntriesOK, Pending, Leaving
<1> QED
  BY <1>2, <1>5, <1>8, <1>9, JsGoesOn DEF IInv

LEMMA ConnectedKeeps ==
  ASSUME IInv, NEW d \in Devices, Connected(d) PROVE IInv'
<1>1. UNCHANGED <<map, data, tasks, js>> /\ UNCHANGED <<proxy, up, deaths>>
  BY DEF Connected
<1>2. svc \in [Devices -> SvcSet] /\ svc[d] \in SvcSet /\ calls \in Seq(MsgSet)
  BY DEF IInv, SvcOK
<1>3. PICK ok \in BOOLEAN :
        /\ svc' = [svc EXCEPT ![d].waiting = @ - 1, ![d].remote = ok]
        /\ calls' = IF svc[d].reg THEN Append(calls, Msg("OnConnect", d, ok)) ELSE calls
  BY DEF Connected
<1>4. svc' \in [Devices -> SvcSet] /\ \A e \in Devices : svc'[e].reg = svc[e].reg
  <2> DEFINE s == [svc[d] EXCEPT !.waiting = @ - 1, !.remote = ok]
  <2>1. svc[d].waiting \in Nat /\ svc[d].waiting > 0
    BY <1>2 DEF SvcSet, Connected
  <2>2. svc[d].waiting - 1 \in Nat
    BY <2>1
  <2>3. s \in SvcSet /\ s.reg = svc[d].reg
    BY <1>2, <2>2 DEF SvcSet
  <2>4. svc' = [svc EXCEPT ![d] = s]
    BY <1>3
  <2> HIDE DEF s
  <2> QED
    BY <1>2, <2>3, <2>4
<1>5. calls' \in Seq(MsgSet) /\ \A e \in Devices : Leaving(e) => Leaving(e)'
  <2>1. CASE calls' = calls
    BY <1>2, <2>1 DEF Leaving
  <2>2. CASE calls' = Append(calls, Msg("OnConnect", d, ok))
    <3>1. Msg("OnConnect", d, ok) \in MsgSet
      BY DEF Msg, MsgSet
    <3> QED
      BY <1>2, <2>2, <3>1, SentLast
  <2> QED
    BY <1>3, <2>1, <2>2
<1>6. SvcOK'
  BY <1>1, <1>4, <1>5 DEF IInv, SvcOK
<1>7. EntriesOK'
  BY <1>1, <1>4, <1>5 DEF IInv, EntriesOK, Pending
<1> QED
  BY <1>1, <1>6, <1>7, JsStays DEF IInv

LEMMA DisconnectedKeeps ==
  ASSUME IInv, NEW d \in Devices, Disconnected(d) PROVE IInv'
<1>1. UNCHANGED <<map, data, tasks, js>> /\ UNCHANGED <<proxy, up, deaths>>
  BY DEF Disconnected
<1>2. svc \in [Devices -> SvcSet] /\ calls \in Seq(MsgSet) /\ svc' = [svc EXCEPT ![d] = NoSvc]
  BY DEF IInv, SvcOK, Disconnected
<1>3. NoSvc \in SvcSet
  BY DEF NoSvc, SvcSet
<1>4. PICK ok \in BOOLEAN :
        calls' = IF svc[d].reg
                 THEN calls \o <<Msg("OnUnBind", d, ok), Msg("OnDisconnect", d, ok)>> ELSE calls
  BY DEF Disconnected
<1>5. svc' \in [Devices -> SvcSet] /\ \A e \in Devices \ {d} : svc'[e].reg = svc[e].reg
  BY <1>2, <1>3
<1>6. /\ calls' \in Seq(MsgSet)
      /\ \A e \in Devices : Leaving(e) => Leaving(e)'
      /\ svc[d].reg => Leaving(d)'
  <2> DEFINE u == Msg("OnUnBind", d, ok)
             m == Msg("OnDisconnect", d, ok)
  <2>1. CASE ~svc[d].reg
    BY <1>2, <1>4, <2>1 DEF Leaving
  <2>2. CASE svc[d].reg
    <3>1. u \in MsgSet /\ m \in MsgSet
      BY DEF Msg, MsgSet
    <3>2. calls' = calls \o <<u, m>>
      BY <1>4, <2>2
    <3>3. m = Msg("OnDisconnect", d, ok)
      OBVIOUS
    <3> HIDE DEF u, m
    <3>4. /\ calls' \in Seq(MsgSet) /\ Len(calls') = Len(calls) + 2 /\ Len(calls) \in Nat
          /\ \A i \in 1..Len(calls) : calls'[i] = calls[i]
          /\ calls'[Len(calls) + 2] = m
      BY <1>2, <3>1, <3>2
    <3>5. \A e \in Devices : Leaving(e) => Leaving(e)'
      BY <3>4 DEF Leaving
    <3>6. Len(calls) + 2 \in 1..Len(calls')
      BY <3>4
    <3>7. Leaving(d)'
      BY <3>3, <3>4, <3>6 DEF Leaving
    <3> QED
      BY <3>4, <3>5, <3>7
  <2> QED
    BY <2>1, <2>2
<1>7. SvcOK'
  BY <1>1, <1>5, <1>6 DEF IInv, SvcOK
<1>8. EntriesOK'
  <2> SUFFICES ASSUME NEW e \in Devices, map[e] # None, deaths = 0
               PROVE  svc'[e].reg \/ Leaving(e)' \/ Pending(e)'
    BY <1>1 DEF EntriesOK
  <2>1. svc[e].reg \/ Leaving(e) \/ Pending(e)
    BY DEF IInv, EntriesOK
  <2>2. Pending(e) => Pending(e)'
    BY <1>1 DEF Pending
  <2> QED
    BY <1>5, <1>6, <2>1, <2>2
<1> QED
  BY <1>1, <1>7, <1>8, JsStays DEF IInv

LEMMA ServiceRestartKeeps ==
  ASSUME IInv, ServiceDies \/ ServiceStarts PROVE IInv'
<1>1. UNCHANGED <<map, data, tasks, js>> /\ UNCHANGED calls
  BY DEF ServiceDies, ServiceStarts, app
<1>2. CASE ServiceDies
  <2>1. deaths' \in Nat /\ deaths' # 0
    BY <1>2 DEF IInv, SvcOK, ServiceDies
  <2>2. svc' \in [Devices -> SvcSet]
    <3>1. NoSvc \in SvcSet
      BY DEF NoSvc, SvcSet
    <3> QED
      BY <1>2, <3>1 DEF ServiceDies
  <2>3. proxy' \in {"none", "dead"}
    BY <1>2 DEF IInv, SvcOK, ServiceDies
  <2> QED
    BY <1>1, <2>1, <2>2, <2>3, JsStays DEF IInv, SvcOK, EntriesOK
<1>3. CASE ServiceStarts
  <2>1. UNCHANGED <<map, svc, calls, deaths>> /\ up' /\ UNCHANGED proxy
    BY <1>3 DEF ServiceStarts, app
  <2>2. SvcOK'
    BY <2>1 DEF IInv, SvcOK
  <2>3. EntriesOK'
    BY <1>1, <2>1, EntriesFrame DEF IInv, Pending
  <2> QED
    BY <1>1, <2>2, <2>3, JsStays DEF IInv
<1> QED
  BY <1>2, <1>3

------------------------------------------------------------------------------
(* 4. Calls and returns that are not of a bind. *)

LEMMA EnterQueryKeeps ==
  ASSUME IInv, NEW q, NEW api, EnterQuery(q, api) PROVE IInv'
<1>1. /\ UNCHANGED <<map, data, tasks>> /\ UNCHANGED <<svc, calls, proxy, up, deaths>>
      /\ js.pc = "idle" /\ UNCHANGED <<map, svc, calls, deaths>>
  BY DEF EnterQuery, Ready, app
<1>2. js' = [Idle EXCEPT !.pc = "connect", !.op = "query", !.d = q, !.api = api]
  BY DEF EnterQuery
<1>3. js.op = "none"
  BY <1>1 DEF IInv, JsOK
<1>4. JsOK'
  BY <1>2, IdleFacts DEF JsOK
<1>5. EntriesOK'
  BY <1>1, <1>3, EntriesFrame DEF IInv, Pending
<1> QED
  BY <1>1, <1>3, <1>4, <1>5, AppFrame, SvcFrame DEF IInv

LEMMA QueryCallKeeps ==
  ASSUME IInv, ClientQueryDevice \/ ClientQueryDeviceInfo \/ ClientQueryDriverInfo PROVE IInv'
<1>1. /\ UNCHANGED <<map, data, tasks>> /\ UNCHANGED <<svc, calls, proxy, up, deaths>>
      /\ js.pc = "call" /\ js.op = "query" /\ UNCHANGED <<map, svc, calls, deaths>>
  BY DEF ClientQueryDevice, ClientQueryDeviceInfo, ClientQueryDriverInfo, QueryCall, InCall, app
<1>2. PICK l, r : js' = [js EXCEPT !.pc = "return", !.list = l, !.ret = r]
  BY Zenon DEF ClientQueryDevice, ClientQueryDeviceInfo, ClientQueryDriverInfo, QueryCall
<1>3. JsGoes
  BY <1>1, <1>2 DEF IInv, JsOK, JsGoes
<1>4. EntriesOK'
  BY <1>1, EntriesFrame DEF IInv, Pending
<1> QED
  BY <1>1, <1>3, <1>4, JsGoesOn, SvcFrame DEF IInv

LEMMA FinishQueryKeeps ==
  ASSUME IInv,
         \/ NapiQueryDevices \/ NapiQueryDeviceInfo \/ NapiQueryDriverInfo
         \/ TaiheQueryDevices \/ TaiheQueryDeviceInfo \/ TaiheQueryDriverInfo
  PROVE  IInv'
<1>1. /\ UNCHANGED <<map, data, tasks, svc, calls, proxy, up, deaths>>
      /\ js.op # "bind" /\ js' = Idle
  BY DEF NapiQueryDevices, NapiQueryDeviceInfo, NapiQueryDriverInfo,
    TaiheQueryDevices, TaiheQueryDeviceInfo, TaiheQueryDriverInfo, FinishQuery, app
<1> QED
  BY <1>1, JsEnds

LEMMA BadArgumentKeeps ==
  ASSUME IInv, BadArgument PROVE IInv'
<1>1. /\ UNCHANGED <<map, data, tasks, js>> /\ UNCHANGED <<svc, calls, proxy, up, deaths>>
      /\ UNCHANGED <<map, svc, calls, deaths>>
  BY DEF BadArgument, app
<1>2. EntriesOK'
  BY <1>1, EntriesFrame DEF IInv, Pending
<1> QED
  BY <1>1, <1>2, JsStays, SvcFrame DEF IInv

LEMMA EnterUnbindKeeps ==
  ASSUME IInv, NEW d \in Devices, NEW api, EnterUnbind(d, api) PROVE IInv'
<1>1. /\ UNCHANGED <<map, data, tasks>> /\ UNCHANGED <<svc, calls, proxy, up, deaths>>
      /\ js.pc = "idle" /\ UNCHANGED <<map, svc, calls, deaths>>
      /\ js' = [Idle EXCEPT !.pc = "connect", !.op = "unbind", !.d = d, !.api = api]
  BY DEF EnterUnbind, Ready, app
<1>2. js.op = "none"
  BY <1>1 DEF IInv, JsOK
<1>3. JsOK'
  BY <1>1, IdleFacts DEF JsOK
<1>4. EntriesOK'
  BY <1>1, <1>2, EntriesFrame DEF IInv, Pending
<1> QED
  BY <1>1, <1>2, <1>3, <1>4, AppFrame, SvcFrame DEF IInv

LEMMA PlainReturnsKeep ==
  ASSUME IInv, UndoReturns \/ UnbindDriverWithDeviceIdSyncReturns PROVE IInv'
<1>1. /\ js.op # "bind" /\ js' = Idle
      /\ UNCHANGED <<map, data, tasks, svc, calls, proxy, up, deaths>>
  BY DEF UndoReturns, UnbindDriverWithDeviceIdSyncReturns, app
<1> QED
  BY <1>1, JsEnds

------------------------------------------------------------------------------
(* 5. Changes of one bind call. *)

Binds   == {"unused", "called", "open", "threw", "resolved", "rejected"}
Unbinds == {"none", "open", "resolved", "rejected"}

\* What the other parts of the invariant need of a bind call, but for bind.
Alike(r, s) == r.dev = s.dev /\ r.told = s.told /\ r.unbind = s.unbind

LEMMA BindSet ==
  ASSUME NEW r \in AsyncData, NEW b \in Binds
  PROVE  /\ [r EXCEPT !.bind = b] \in AsyncData
         /\ [r EXCEPT !.bind = b].bind = b
         /\ [r EXCEPT !.bind = b].onDisconnect = r.onDisconnect
         /\ Alike([r EXCEPT !.bind = b], r)
BY DEF AsyncData, Binds, Alike

LEMMA ThrownSet ==
  ASSUME NEW r \in AsyncData
  PROVE  LET q == [r EXCEPT !.bind = "threw", !.onDisconnect = FALSE]
         IN /\ q \in AsyncData /\ q.bind = "threw" /\ q.onDisconnect = FALSE
            /\ q.dev = r.dev /\ q.told = r.told /\ q.unbind = r.unbind
BY DEF AsyncData

LEMMA UnbindSet ==
  ASSUME NEW r \in AsyncData, NEW u \in Unbinds
  PROVE  LET q == [r EXCEPT !.unbind = u]
         IN /\ q \in AsyncData
            /\ q.dev = r.dev /\ q.bind = r.bind /\ q.onDisconnect = r.onDisconnect
            /\ q.told = r.told /\ q.unbind = u
BY DEF AsyncData, Unbinds

LEMMA MarksSet ==
  ASSUME NEW r \in AsyncData, NEW b \in BOOLEAN
  PROVE  /\ [r EXCEPT !.unBindOk = b] \in AsyncData
         /\ [r EXCEPT !.unBindOk = b].bind = r.bind
         /\ [r EXCEPT !.unBindOk = b].onDisconnect = r.onDisconnect
         /\ Alike([r EXCEPT !.unBindOk = b], r)
         /\ [r EXCEPT !.replaced = b] \in AsyncData
         /\ [r EXCEPT !.replaced = b].bind = r.bind
         /\ [r EXCEPT !.replaced = b].onDisconnect = r.onDisconnect
         /\ Alike([r EXCEPT !.replaced = b], r)
BY DEF AsyncData, Alike

\* One bind call changes.
LEMMA OneBind ==
  ASSUME data \in [Data -> AsyncData], NEW x \in Data, NEW r \in AsyncData,
         data' = [data EXCEPT ![x] = r]
  PROVE  /\ data' \in [Data -> AsyncData] /\ data'[x] = r
         /\ \A y \in Data : y # x => data'[y] = data[y]
OBVIOUS

\* An entry's bind call, and that of an event.
LEMMA NamedBinds ==
  ASSUME IInv
  PROVE  /\ \A d \in Devices : map[d] # None => map[d] \in Data
         /\ \A i \in 1..Len(tasks) : tasks[i].x \in Data /\ tasks[i].ok \in BOOLEAN
         /\ \A x \in Data : x # None /\ data[x] \in AsyncData
<1>1. \A i \in 1..Len(tasks) : tasks[i] \in TaskSet
  BY ElementOfSeq DEF IInv, TasksOK
<1> QED
  BY <1>1, DataAssumption DEF IInv, MapOK, DataOK, TaskSet

\* Entries and events look at dev, bind and told only.
LEMMA SeenFrame ==
  ASSUME IInv, UNCHANGED <<map, tasks>>,
         \A x \in Data : /\ data'[x].dev = data[x].dev /\ data'[x].bind = data[x].bind
                         /\ data'[x].told = data[x].told
  PROVE  MapOK' /\ TasksOK'
<1>1. MapOK'
  BY NamedBinds DEF IInv, MapOK, EntryOK
<1>2. TasksOK'
  BY NamedBinds DEF IInv, TasksOK, EventOK, InMap, Ends
<1> QED
  BY <1>1, <1>2

LEMMA UnbindNapiKeeps ==
  ASSUME IInv, NEW error, UnbindNapi(error) PROVE IInv'
<1>1. /\ UNCHANGED <<map, tasks>> /\ UNCHANGED <<svc, calls, proxy, up, deaths>>
      /\ js.op = "unbind" /\ js' = Idle
      /\ UNCHANGED <<map, svc, calls, deaths>>
  BY DEF UnbindNapi, ipc
<1>2. CASE UNCHANGED data
  BY <1>1, <1>2, JsEnds
<1>3. CASE map[js.d] # None /\ data' = [data EXCEPT ![map[js.d]].unbind = "open"]
  <2>1. js.d \in Devices
    BY <1>1 DEF IInv, JsOK
  <2>2. PICK e \in Data : e = map[js.d]
    BY <1>3, <2>1, NamedBinds
  <2>3. data[e].bind \in {"open", "resolved"} /\ ~data[e].told
    BY <1>1, <1>3, <2>1, <2>2 DEF EntryOK, IInv, DataOK, BindOK, MapOK
  <2> DEFINE r == [data[e] EXCEPT !.unbind = "open"]
  <2>4. /\ r \in AsyncData /\ r.dev = data[e].dev /\ r.bind = data[e].bind
        /\ r.onDisconnect = data[e].onDisconnect /\ r.told = data[e].told /\ r.unbind = "open"
    BY <2>2, UnbindSet, NamedBinds DEF Unbinds
  <2>5. data' = [data EXCEPT ![e] = r]
    BY <1>3, <2>2
  <2> HIDE DEF r
  <2>6. /\ data' \in [Data -> AsyncData] /\ data'[e] = r
        /\ \A y \in Data : y # e => data'[y] = data[y]
    BY <2>2, <2>4, <2>5, OneBind DEF IInv, DataOK
  <2>7. MapOK' /\ TasksOK'
    BY <1>1, <2>2, <2>4, <2>6, SeenFrame
  <2>8. DataOK'
    <3>1. BindOK(e)'
      BY <2>2, <2>3, <2>4, <2>6 DEF IInv, DataOK, BindOK
    <3>2. ASSUME NEW y \in Data, y # e PROVE BindOK(y)'
      BY <1>1, <2>6, <3>2 DEF IInv, DataOK, BindOK
    <3> QED
      BY <2>6, <3>1, <3>2 DEF DataOK
  <2>9. JsOK'
    BY <1>1, IdleFacts DEF JsOK
  <2>10. EntriesOK'
    BY <1>1, EntriesFrame DEF IInv, Pending
  <2> QED
    BY <1>1, <2>7, <2>8, <2>9, <2>10, SvcFrame DEF IInv
<1>4. \/ UNCHANGED data
      \/ map[js.d] # None /\ data' = [data EXCEPT ![map[js.d]].unbind = "open"]
  BY DEF UnbindNapi
<1> QED
  BY <1>2, <1>3, <1>4, Zenon

\* The record of a bind call that begins.
LEMMA FreshBind ==
  ASSUME NEW d \in Devices
  PROVE  LET r == [Fresh EXCEPT !.dev = d, !.bind = "called", !.onDisconnect = TRUE]
         IN /\ r \in AsyncData
            /\ r.dev = d /\ r.bind = "called" /\ r.onDisconnect = TRUE
            /\ r.told = FALSE /\ r.unbind = "none"
BY DEF Fresh, AsyncData

LEMMA EnterBindData ==
  ASSUME IInv, NEW x \in Data, NEW d \in Devices, NEW api, EnterBind(x, d, api)
  PROVE  /\ data' \in [Data -> AsyncData]
         /\ data'[x].dev = d /\ data'[x].bind = "called" /\ data'[x].onDisconnect = TRUE
         /\ data'[x].told = FALSE /\ data'[x].unbind = "none"
         /\ \A y \in Data : y # x =>
              /\ data'[y].bind = data[y].bind /\ data'[y].onDisconnect = data[y].onDisconnect
              /\ Alike(data'[y], data[y])
<1> DEFINE r    == [Fresh EXCEPT !.dev = d, !.bind = "called", !.onDisconnect = TRUE]
           q(y) == [data[y] EXCEPT !.replaced = @ \/ map[d] = y]
<1>1. data' = [y \in Data |-> IF y = x THEN r ELSE q(y)]
  BY DEF EnterBind
<1>2. /\ r \in AsyncData /\ r.dev = d /\ r.bind = "called" /\ r.onDisconnect = TRUE
      /\ r.told = FALSE /\ r.unbind = "none"
  BY FreshBind
<1>3. \A y \in Data : /\ q(y) \in AsyncData /\ q(y).bind = data[y].bind
                      /\ q(y).onDisconnect = data[y].onDisconnect /\ Alike(q(y), data[y])
  <2> SUFFICES ASSUME NEW y \in Data
               PROVE  /\ q(y) \in AsyncData /\ q(y).bind = data[y].bind
                      /\ q(y).onDisconnect = data[y].onDisconnect /\ Alike(q(y), data[y])
    OBVIOUS
  <2>1. (data[y].replaced \/ map[d] = y) \in BOOLEAN
    OBVIOUS
  <2> QED
    BY <2>1, MarksSet, NamedBinds
<1> HIDE DEF r, q
<1>4. data' \in [Data -> AsyncData]
  BY <1>1, <1>2, <1>3
<1>5. data'[x] = r /\ \A y \in Data : y # x => data'[y] = q(y)
  BY <1>1
<1> QED
  BY <1>2, <1>3, <1>4, <1>5

LEMMA EnterBindKeeps ==
  ASSUME IInv, NEW x \in Data, NEW d \in Devices, NEW api, EnterBind(x, d, api)
  PROVE  IInv'
<1>1. /\ js.pc = "idle" /\ data[x].bind = "unused" /\ map' = [map EXCEPT ![d] = x]
      /\ js' = [Idle EXCEPT !.pc = "connect", !.op = "bind", !.x = x, !.d = d, !.api = api]
      /\ UNCHANGED tasks /\ UNCHANGED <<svc, calls, proxy, up, deaths>>
  BY DEF EnterBind, Ready, ipc
<1>2. /\ js.op = "none" /\ x # None
      /\ map \in [Devices -> Data \union {None}]
  BY <1>1, NamedBinds DEF IInv, JsOK, MapOK
<1>3. /\ map' \in [Devices -> Data \union {None}] /\ map'[d] = x
      /\ \A e \in Devices : e # d => map'[e] = map[e]
  BY <1>1, <1>2
<1>4. /\ DOMAIN js' = {"pc", "op", "x", "d", "api", "ret", "list"}
      /\ js'.pc = "connect" /\ js'.op = "bind" /\ js'.x = x /\ js'.d = d
  BY <1>1, IdleFacts
<1>5. ~InMap(x) /\ \A i \in 1..Len(tasks) : tasks[i].x # x
  <2>1. \A e \in Devices : map[e] # x
    BY <1>1, <1>2 DEF IInv, MapOK, EntryOK
  <2>2. \A i \in 1..Len(tasks) : data[tasks[i].x].bind # "unused"
    BY DEF IInv, TasksOK, EventOK
  <2> QED
    BY <1>1, <2>1, <2>2 DEF InMap
<1> DEFINE was(y) == /\ data'[y].bind = data[y].bind
                     /\ data'[y].onDisconnect = data[y].onDisconnect
                     /\ data'[y].dev = data[y].dev /\ data'[y].told = data[y].told
                     /\ data'[y].unbind = data[y].unbind
<1>6. /\ data' \in [Data -> AsyncData]
      /\ data'[x].dev = d /\ data'[x].bind = "called" /\ data'[x].onDisconnect = TRUE
      /\ data'[x].told = FALSE /\ data'[x].unbind = "none"
      /\ \A y \in Data : y # x => was(y)
  <2>1. /\ data' \in [Data -> AsyncData]
        /\ data'[x].dev = d /\ data'[x].bind = "called" /\ data'[x].onDisconnect = TRUE
        /\ data'[x].told = FALSE /\ data'[x].unbind = "none"
        /\ \A y \in Data : y # x =>
             /\ data'[y].bind = data[y].bind /\ data'[y].onDisconnect = data[y].onDisconnect
             /\ Alike(data'[y], data[y])
    BY EnterBindData
  <2>2. ASSUME NEW y \in Data, y # x PROVE was(y)
    BY <2>1, <2>2 DEF Alike
  <2> HIDE DEF was
  <2> QED
    BY <2>1, <2>2
<1>7. JsOK'
  BY <1>2, <1>3, <1>4, <1>6 DEF JsOK
<1>8. DataOK'
  <2>1. BindOK(x)'
    BY <1>4, <1>6 DEF BindOK
  <2>2. ASSUME NEW y \in Data, y # x PROVE BindOK(y)'
    BY <1>2, <1>6, <2>2 DEF IInv, DataOK, BindOK
  <2> QED
    BY <1>6, <2>1, <2>2 DEF DataOK
<1>9. MapOK'
  <2>1. EntryOK(d, x)'
    BY <1>6 DEF EntryOK
  <2>2. ASSUME NEW e \in Devices, e # d, map[e] # None PROVE EntryOK(e, map[e])'
    <3>1. PICK y \in Data : y = map[e] /\ y # x
      BY <1>5, <2>2, NamedBinds DEF InMap
    <3>2. EntryOK(e, y) /\ map'[e] = y
      BY <1>3, <2>2, <3>1 DEF IInv, MapOK
    <3>3. EntryOK(e, y)'
      BY <1>6, <3>1, <3>2 DEF EntryOK
    <3> QED
      BY <3>1, <3>2, <3>3
  <2>3. ASSUME NEW e \in Devices, map'[e] # None PROVE EntryOK(e, map[e])'
    BY <1>3, <2>1, <2>2, <2>3
  <2> QED
    BY <1>3, <2>3 DEF MapOK
<1>10. TasksOK'
  <2>1. ASSUME NEW i \in 1..Len(tasks) PROVE EventOK(tasks[i])'
    <3>1. PICK y \in Data : y = tasks[i].x /\ y # x
      BY <1>5, NamedBinds
    <3>2. EventOK(tasks[i])
      BY DEF IInv, TasksOK
    <3>3. InMap(y)' => InMap(y)
      BY <1>3, <3>1 DEF InMap
    <3> QED
      BY <1>1, <1>6, <3>1, <3>2, <3>3 DEF EventOK, Ends
  <2> QED
    BY <1>1, <2>1 DEF IInv, TasksOK, Ends
<1>11. EntriesOK'
  <2>1. Pending(d)'
    BY <1>4 DEF Pending
  <2>2. ASSUME NEW e \in Devices, e # d, map'[e] # None, deaths = 0
        PROVE  svc'[e].reg \/ Leaving(e)'
    BY <1>1, <1>2, <1>3, <2>2 DEF IInv, EntriesOK, Leaving, Pending
  <2> QED
    BY <1>1, <2>1, <2>2 DEF EntriesOK
<1> QED
  BY <1>1, <1>7, <1>8, <1>9, <1>10, <1>11, SvcFrame DEF IInv

\* A bind call that throws is taken out of the map.
LEMMA ThrownKeeps ==
  ASSUME IInv, NEW code, NEW failed, FailBind(code, failed), UNCHANGED tasks,
         UNCHANGED <<svc, calls, proxy, up, deaths>>,
         js.op = "bind", js'.op # "bind", JsOK'
  PROVE  IInv'
<1>1. PICK x \in Data, d \in Devices :
        /\ x = js.x /\ d = js.d /\ data[x].bind = "called" /\ data[x].dev = d
        /\ map[d] \in {None, x}
  BY DEF IInv, JsOK
<1>2. map \in [Devices -> Data \union {None}] /\ data \in [Data -> AsyncData]
  BY DEF IInv, MapOK, DataOK
<1>3. /\ map' \in [Devices -> Data \union {None}] /\ map'[d] = None
      /\ \A e \in Devices : e # d => map'[e] = map[e]
  <2>1. map' = IF map[d] = x THEN [map EXCEPT ![d] = None] ELSE map
    BY <1>1 DEF FailBind, WithoutEntry
  <2> QED
    BY <1>1, <1>2, <2>1
<1> DEFINE r == [data[x] EXCEPT !.bind = "threw", !.onDisconnect = FALSE]
<1>4. /\ r \in AsyncData /\ r.bind = "threw" /\ r.onDisconnect = FALSE
      /\ r.dev = data[x].dev /\ r.told = data[x].told /\ r.unbind = data[x].unbind
  BY <1>2, ThrownSet
<1>5. data' = [data EXCEPT ![x] = r]
  BY <1>1 DEF FailBind
<1> HIDE DEF r
<1>6. /\ data' \in [Data -> AsyncData] /\ data'[x] = r
      /\ \A y \in Data : y # x => data'[y] = data[y]
  BY <1>2, <1>4, <1>5, OneBind
<1>7. DataOK'
  <2>1. BindOK(x)
    BY DEF IInv, DataOK
  <2>2. BindOK(x)'
    BY <1>1, <1>4, <1>6, <2>1 DEF BindOK
  <2>3. ASSUME NEW y \in Data, y # x PROVE BindOK(y)'
    BY <1>1, <1>6, <2>3 DEF IInv, DataOK, BindOK
  <2> QED
    BY <1>6, <2>2, <2>3 DEF DataOK
<1>8. MapOK'
  <2>1. ASSUME NEW e \in Devices, map'[e] # None PROVE EntryOK(e, map[e])'
    <3>1. e # d /\ map'[e] = map[e]
      BY <1>3, <2>1
    <3>2. PICK y \in Data : y = map[e]
      BY <2>1, <3>1, NamedBinds
    <3>3. EntryOK(e, y)
      BY <2>1, <3>1, <3>2 DEF IInv, MapOK
    <3>4. y # x
      BY <1>1, <3>1, <3>3 DEF EntryOK
    <3>5. EntryOK(e, y)'
      BY <1>6, <3>3, <3>4 DEF EntryOK
    <3> QED
      BY <3>1, <3>2, <3>5
  <2> QED
    BY <1>3, <2>1 DEF MapOK
<1>9. TasksOK'
  <2>1. ASSUME NEW i \in 1..Len(tasks) PROVE EventOK(tasks[i])'
    <3>1. PICK y \in Data : y = tasks[i].x
      BY NamedBinds
    <3>2. EventOK(tasks[i])
      BY DEF IInv, TasksOK
    <3>3. InMap(y)' => InMap(y)
      BY <1>3, <3>1, NamedBinds DEF InMap
    <3>4. data'[y].told = data[y].told /\ data'[y].bind \in {"threw", data[y].bind}
      BY <1>4, <1>6
    <3>5. data'[y].bind \notin {"unused", "rejected"} /\ ~data'[y].told
      BY <3>1, <3>2, <3>4 DEF EventOK
    <3> QED
      BY <3>1, <3>2, <3>3, <3>5 DEF EventOK, Ends
  <2> QED
    BY <2>1 DEF IInv, TasksOK, Ends
<1>10. EntriesOK'
  <2> SUFFICES ASSUME NEW e \in Devices, map'[e] # None, deaths = 0
               PROVE  svc'[e].reg \/ Leaving(e)'
    BY DEF EntriesOK
  <2>1. e # d /\ map[e] # None
    BY <1>3
  <2> QED
    BY <1>1, <2>1 DEF IInv, EntriesOK, Leaving, Pending
<1> QED
  BY <1>7, <1>8, <1>9, <1>10, SvcFrame DEF IInv

LEMMA FinishBindKeeps ==
  ASSUME IInv, NEW error, NEW exception, FinishBind(error, exception) PROVE IInv'
<1>1. /\ js.pc = "return" /\ js.op = "bind" /\ UNCHANGED tasks
      /\ UNCHANGED <<svc, calls, proxy, up, deaths>>
  BY DEF FinishBind, ipc
<1>2. /\ DOMAIN js = {"pc", "op", "x", "d", "api", "ret", "list"}
      /\ js.x \in Data /\ js.x # None /\ js.d \in Devices
      /\ data[js.x].bind = "called" /\ data[js.x].dev = js.d
      /\ map[js.d] \in {None, js.x}
  BY <1>1 DEF IInv, JsOK
<1>3. CASE FailBind(error, TRUE) /\ js' = Idle
  <2>1. JsOK'
    BY <1>3, IdleFacts DEF JsOK
  <2> QED
    BY <1>1, <1>3, <2>1, IdleFacts, ThrownKeeps
<1>4. CASE FailBind(exception, TRUE) /\ js' = [js EXCEPT !.pc = "connect", !.op = "undo"]
  <2>1. js'.op = "undo" /\ JsOK'
    BY <1>2, <1>4 DEF JsOK
  <2> QED
    BY <1>1, <1>4, <2>1, ThrownKeeps
<1>5. CASE /\ js.ret = "OK" /\ data' = [data EXCEPT ![js.x].bind = "open"]
           /\ js' = Idle /\ UNCHANGED map
  <2>1. PICK x \in Data : x = js.x
    BY <1>2
  <2> DEFINE r == [data[x] EXCEPT !.bind = "open"]
  <2>2. data \in [Data -> AsyncData] /\ data[x] \in AsyncData
    BY DEF IInv, DataOK
  <2>3. /\ r \in AsyncData /\ r.bind = "open" /\ r.onDisconnect = data[x].onDisconnect
        /\ r.dev = data[x].dev /\ r.told = data[x].told /\ r.unbind = data[x].unbind
    BY <2>2, BindSet DEF Binds, Alike
  <2>4. data' = [data EXCEPT ![x] = r]
    BY <1>5, <2>1
  <2> HIDE DEF r
  <2>5. /\ data' \in [Data -> AsyncData] /\ data'[x] = r
        /\ \A y \in Data : y # x => data'[y] = data[y]
    BY <2>2, <2>3, <2>4, OneBind
  <2>6. \A y \in Data : /\ data'[y].dev = data[y].dev /\ data'[y].told = data[y].told
                        /\ data'[y].bind = IF y = x THEN "open" ELSE data[y].bind
    BY <2>3, <2>5
  <2>7. DataOK'
    <3>1. BindOK(x)
      BY DEF IInv, DataOK
    <3>2. BindOK(x)'
      BY <1>2, <2>1, <2>3, <2>5, <3>1 DEF BindOK
    <3>3. ASSUME NEW y \in Data, y # x PROVE BindOK(y)'
      BY <2>1, <2>5, <3>3 DEF IInv, DataOK, BindOK
    <3> QED
      BY <2>5, <3>2, <3>3 DEF DataOK
  <2>8. MapOK'
    BY <1>5, <2>6, NamedBinds DEF IInv, MapOK, EntryOK
  <2>9. TasksOK'
    <3>1. ASSUME NEW i \in 1..Len(tasks) PROVE EventOK(tasks[i])'
      <4>1. tasks[i].x \in Data /\ EventOK(tasks[i])
        BY NamedBinds DEF IInv, TasksOK
      <4>2. InMap(tasks[i].x)' => InMap(tasks[i].x)
        BY <1>1, <1>5 DEF InMap
      <4> QED
        BY <1>1, <2>6, <4>1, <4>2 DEF EventOK, Ends
    <3> QED
      BY <1>1, <3>1 DEF IInv, TasksOK, Ends
  <2>10. EntriesOK'
    <3>1. \A e \in Devices : ~Pending(e)
      BY <1>1, <1>5 DEF Pending
    <3> QED
      BY <1>1, <1>5, <3>1 DEF IInv, EntriesOK, Leaving
  <2>11. JsOK'
    BY <1>5, IdleFacts DEF JsOK
  <2> QED
    BY <1>1, <2>7, <2>8, <2>9, <2>10, <2>11, SvcFrame DEF IInv
<1> QED
  BY <1>3, <1>4, <1>5 DEF FinishBind

------------------------------------------------------------------------------
(* 6. The callbacks. *)

LEMMA TaskFacts ==
  ASSUME NEW kind \in {"connect", "disconnect"}, NEW x \in Data, NEW ok \in BOOLEAN
  PROVE  /\ Task(kind, x, ok) \in TaskSet /\ Task(kind, x, ok).x = x
         /\ Task(kind, x, ok).kind = kind /\ Task(kind, x, ok).ok = ok
BY DEF Task, TaskSet

\* The callback that is handled, and those left.
LEMMA FirstCall ==
  ASSUME IInv, calls # <<>>, calls' = Tail(calls)
  PROVE  /\ Head(calls) \in MsgSet /\ Head(calls).d \in Devices /\ Head(calls).ok \in BOOLEAN
         /\ calls' \in Seq(MsgSet)
         /\ \A e \in Devices : Leaving(e) =>
              Leaving(e)' \/ (Head(calls).kind = "OnDisconnect" /\ Head(calls).d = e)
<1>1. calls \in Seq(MsgSet)
  BY DEF IInv, SvcOK
<1>2. /\ Head(calls) \in MsgSet /\ Head(calls) = calls[1] /\ calls' \in Seq(MsgSet)
      /\ Len(calls) \in Nat /\ Len(calls') = Len(calls) - 1
      /\ \A i \in 1..Len(calls') : calls'[i] = calls[i + 1]
  BY <1>1, LenProperties, HeadTailProperties
<1>3. ASSUME NEW e \in Devices, Leaving(e)
      PROVE  Leaving(e)' \/ (Head(calls).kind = "OnDisconnect" /\ Head(calls).d = e)
  <2>1. PICK i \in 1..Len(calls), ok \in BOOLEAN : calls[i] = Msg("OnDisconnect", e, ok)
    BY <1>3 DEF Leaving
  <2>2. CASE i = 1
    BY <1>2, <2>1, <2>2, MsgFacts
  <2>3. CASE i # 1
    <3>1. i - 1 \in 1..Len(calls') /\ (i - 1) + 1 = i
      BY <1>2, <2>3
    <3>2. calls'[i - 1] = Msg("OnDisconnect", e, ok)
      BY <1>2, <2>1, <3>1
    <3> QED
      BY <3>1, <3>2 DEF Leaving
  <2> QED
    BY <2>2, <2>3
<1> QED
  BY <1>2, <1>3 DEF MsgSet

\* Entries stay followed when a callback is handled: OnDisconnect takes its
\* entry out of the map.
LEMMA CallHandled ==
  ASSUME IInv, calls # <<>>, Handled,
         \A e \in Devices : map'[e] # None =>
           map[e] # None /\ ~(Head(calls).kind = "OnDisconnect" /\ Head(calls).d = e)
  PROVE  SvcOK' /\ EntriesOK'
<1>1. calls' = Tail(calls) /\ UNCHANGED <<js, svc, proxy, up, deaths>>
  BY DEF Handled
<1>2. /\ calls' \in Seq(MsgSet)
      /\ \A e \in Devices : Leaving(e) =>
           Leaving(e)' \/ (Head(calls).kind = "OnDisconnect" /\ Head(calls).d = e)
  BY <1>1, FirstCall
<1>3. SvcOK'
  BY <1>1, <1>2 DEF IInv, SvcOK
<1>4. EntriesOK'
  <2> SUFFICES ASSUME NEW e \in Devices, map'[e] # None, deaths' = 0
               PROVE  svc'[e].reg \/ Leaving(e)' \/ Pending(e)'
    BY DEF EntriesOK
  <2>1. svc[e].reg \/ Leaving(e) \/ Pending(e)
    BY <1>1 DEF IInv, EntriesOK
  <2>2. Pending(e) => Pending(e)'
    BY <1>1 DEF Pending
  <2> QED
    BY <1>1, <1>2, <2>1, <2>2
<1> QED
  BY <1>3, <1>4

\* An entry is taken out of the map, and an event may be sent for it.
LEMMA EntryGoes ==
  ASSUME IInv, NEW d \in Devices, map' = [map EXCEPT ![d] = None], UNCHANGED <<data, js>>
  PROVE  /\ map' \in [Devices -> Data \union {None}]
         /\ \A e \in Devices : map'[e] # None => map'[e] = map[e] /\ e # d
         /\ \A x \in Data : InMap(x)' => InMap(x)
         /\ JsOK' /\ DataOK' /\ MapOK'
<1>1. map \in [Devices -> Data \union {None}]
  BY DEF IInv, MapOK
<1>2. /\ map' \in [Devices -> Data \union {None}] /\ map'[d] = None
      /\ \A e \in Devices : e # d => map'[e] = map[e]
  BY <1>1
<1>3. \A x \in Data : InMap(x)' => InMap(x)
  BY <1>2, NamedBinds DEF InMap
<1>4. JsOK'
  BY <1>2 DEF IInv, JsOK
<1>5. DataOK'
  BY DEF IInv, DataOK, BindOK
<1>6. MapOK'
  BY <1>2 DEF IInv, MapOK, EntryOK
<1> QED
  BY <1>2, <1>3, <1>4, <1>5, <1>6

LEMMA EventsFrame ==
  ASSUME IInv, UNCHANGED <<tasks, data>>, \A x \in Data : InMap(x)' => InMap(x)
  PROVE  TasksOK'
<1>1. ASSUME NEW i \in 1..Len(tasks) PROVE EventOK(tasks[i])'
  <2>1. tasks[i].x \in Data /\ EventOK(tasks[i])
    BY NamedBinds DEF IInv, TasksOK
  <2> QED
    BY <2>1 DEF EventOK, Ends
<1> QED
  BY <1>1 DEF IInv, TasksOK, Ends

LEMMA EventSent ==
  ASSUME IInv, NEW d \in Devices, NEW t \in TaskSet, t.x = map[d],
         tasks' = Append(tasks, t), UNCHANGED data,
         \A x \in Data : InMap(x)' => InMap(x),
         Ends(t) => ~InMap(t.x)'
  PROVE  TasksOK'
<1>1. /\ tasks \in Seq(TaskSet) /\ Len(tasks) \in Nat
      /\ \A i \in 1..Len(tasks) : EventOK(tasks[i])
      /\ \A i, j \in 1..Len(tasks) : i < j /\ tasks[j].x = tasks[i].x => ~Ends(tasks[i])
  BY LenProperties DEF IInv, TasksOK
<1>2. /\ tasks' \in Seq(TaskSet) /\ Len(tasks') = Len(tasks) + 1
      /\ \A i \in 1..Len(tasks) : tasks'[i] = tasks[i]
      /\ tasks'[Len(tasks) + 1] = t
  BY <1>1, AppendProperties
<1>3. t.x \in Data /\ InMap(t.x) /\ EntryOK(d, t.x)
  <2>1. t.x \in Data
    BY DEF TaskSet
  <2> QED
    BY <2>1, NamedBinds DEF IInv, MapOK, InMap
<1>4. EventOK(t)'
  BY <1>3 DEF EventOK, EntryOK, Ends
<1>5. ASSUME NEW i \in 1..Len(tasks) PROVE EventOK(tasks[i])'
  <2>1. PICK s \in TaskSet : s = tasks[i] /\ s.x \in Data
    BY <1>1, NamedBinds, ElementOfSeq
  <2>2. EventOK(s)'
    BY <1>1, <2>1 DEF EventOK, Ends
  <2>3. tasks'[i] = s
    BY <1>2, <2>1
  <2> QED
    BY <2>1, <2>2, <2>3 DEF EventOK, Ends
<1>6. ASSUME NEW i \in 1..Len(tasks') PROVE EventOK(tasks[i])'
  <2>1. i \in 1..Len(tasks) \/ i = Len(tasks) + 1
    BY <1>1, <1>2
  <2> QED
    BY <1>2, <1>4, <1>5, <2>1 DEF EventOK, Ends
<1>7. ASSUME NEW i \in 1..Len(tasks'), NEW j \in 1..Len(tasks'), i < j,
             tasks'[j].x = tasks'[i].x
      PROVE  ~Ends(tasks'[i])
  <2>1. i \in 1..Len(tasks) /\ (j \in 1..Len(tasks) \/ j = Len(tasks) + 1)
    BY <1>1, <1>2, <1>7
  <2>2. CASE j \in 1..Len(tasks)
    BY <1>1, <1>2, <1>7, <2>1, <2>2
  <2>3. CASE j = Len(tasks) + 1
    <3>1. EventOK(tasks[i]) /\ tasks[i].x = t.x /\ tasks'[i] = tasks[i]
      BY <1>1, <1>2, <1>7, <2>1, <2>3
    <3> QED
      BY <1>3, <3>1 DEF EventOK
  <2> QED
    BY <2>1, <2>2, <2>3
<1> QED
  BY <1>2, <1>6, <1>7 DEF TasksOK, Ends

LEMMA OnConnectKeeps ==
  ASSUME IInv, OnConnect \/ TaiheOnConnect PROVE IInv'
<1>1. /\ calls # <<>> /\ Head(calls).kind = "OnConnect" /\ Handled /\ UNCHANGED <<data, js>>
      /\ calls' = Tail(calls) /\ ReportConnect
  BY DEF OnConnect, TaiheOnConnect, Delivered, Handled
<1>2. PICK d \in Devices : d = Head(calls).d
  BY <1>1, FirstCall
<1>3. Head(calls).ok \in BOOLEAN
  BY <1>1, FirstCall
<1>4. CASE Entry = None /\ UNCHANGED <<map, tasks>>
  <2>1. SvcOK' /\ EntriesOK'
    BY <1>1, <1>4, CallHandled
  <2> QED
    BY <1>1, <1>4, <2>1, JsStays DEF IInv
<1>5. CASE /\ Entry # None
           /\ map' = IF Head(calls).ok THEN map ELSE [map EXCEPT ![Head(calls).d] = None]
           /\ tasks' = Append(tasks, Task("connect", Entry, Head(calls).ok))
  <2>1. PICK x \in Data : x = map[d]
    BY <1>2, <1>5, NamedBinds DEF Entry
  <2>2. PICK t \in TaskSet : /\ t.x = x /\ t.kind = "connect" /\ t.ok = Head(calls).ok
                             /\ tasks' = Append(tasks, t)
    BY <1>2, <1>3, <1>5, <2>1, TaskFacts DEF Entry
  <2>3. CASE Head(calls).ok /\ UNCHANGED map
    <3>1. ~Ends(t) /\ \A y \in Data : InMap(y)' => InMap(y)
      BY <2>2, <2>3 DEF Ends, InMap
    <3>2. TasksOK'
      BY <1>1, <2>1, <2>2, <3>1, EventSent
    <3>3. JsOK' /\ DataOK' /\ MapOK'
      BY <1>1, <2>3 DEF IInv, JsOK, DataOK, BindOK, MapOK, EntryOK
    <3>4. SvcOK' /\ EntriesOK'
      BY <1>1, <2>3, CallHandled
    <3> QED
      BY <3>2, <3>3, <3>4 DEF IInv
  <2>4. CASE map' = [map EXCEPT ![d] = None]
    <3>1. /\ \A e \in Devices : map'[e] # None => map'[e] = map[e] /\ e # d
          /\ \A y \in Data : InMap(y)' => InMap(y)
          /\ JsOK' /\ DataOK' /\ MapOK'
      BY <1>1, <2>4, EntryGoes
    <3>2. ~InMap(x)'
      BY <2>1, <3>1, NamedBinds DEF InMap, IInv, MapOK, EntryOK
    <3>3. TasksOK'
      BY <1>1, <2>1, <2>2, <3>1, <3>2, EventSent
    <3>4. SvcOK' /\ EntriesOK'
      BY <1>1, <3>1, CallHandled
    <3> QED
      BY <3>1, <3>3, <3>4 DEF IInv
  <2> QED
    BY <1>2, <1>5, <2>3, <2>4
<1>6. CASE /\ Entry # None
           /\ map' = IF Head(calls).ok THEN map ELSE [map EXCEPT ![Head(calls).d] = None]
           /\ UNCHANGED tasks
  <2>1. CASE UNCHANGED map
    <3>1. SvcOK' /\ EntriesOK'
      BY <1>1, <2>1, CallHandled
    <3> QED
      BY <1>1, <1>6, <2>1, <3>1, JsStays DEF IInv
  <2>2. CASE map' = [map EXCEPT ![d] = None]
    <3>1. /\ \A e \in Devices : map'[e] # None => map'[e] = map[e] /\ e # d
          /\ \A y \in Data : InMap(y)' => InMap(y)
          /\ JsOK' /\ DataOK' /\ MapOK'
      BY <1>1, <2>2, EntryGoes
    <3>2. TasksOK'
      BY <1>1, <1>6, <3>1, EventsFrame
    <3>3. SvcOK' /\ EntriesOK'
      BY <1>1, <3>1, CallHandled
    <3> QED
      BY <3>1, <3>2, <3>3 DEF IInv
  <2> QED
    BY <1>2, <1>6, <2>1, <2>2
<1> QED
  BY <1>1, <1>4, <1>5, <1>6 DEF ReportConnect, Post

LEMMA OnDisconnectKeeps ==
  ASSUME IInv, OnDisconnect \/ TaiheOnDisconnect PROVE IInv'
<1>1. /\ calls # <<>> /\ Head(calls).kind = "OnDisconnect" /\ Handled /\ UNCHANGED <<data, js>>
      /\ calls' = Tail(calls)
  BY DEF OnDisconnect, TaiheOnDisconnect, Delivered, Handled
<1>2. PICK d \in Devices : d = Head(calls).d
  BY <1>1, FirstCall
<1>3. Head(calls).ok \in BOOLEAN
  BY <1>1, FirstCall
<1>4. CASE Entry = None /\ UNCHANGED <<map, tasks>>
  <2>1. \A e \in Devices : map'[e] # None => map[e] # None /\ Head(calls).d # e
    BY <1>2, <1>4 DEF Entry
  <2>2. SvcOK' /\ EntriesOK'
    BY <1>1, <2>1, CallHandled
  <2> QED
    BY <1>1, <1>4, <2>2, JsStays DEF IInv
<1>5. CASE /\ Entry # None /\ map' = [map EXCEPT ![Head(calls).d] = None]
           /\ \/ tasks' = Append(tasks, Task("disconnect", Entry, Head(calls).ok))
              \/ UNCHANGED tasks
  <2>1. PICK x \in Data : x = map[d]
    BY <1>2, <1>5, NamedBinds DEF Entry
  <2>2. /\ \A e \in Devices : map'[e] # None => map'[e] = map[e] /\ e # d
        /\ \A y \in Data : InMap(y)' => InMap(y)
        /\ JsOK' /\ DataOK' /\ MapOK'
    BY <1>1, <1>2, <1>5, EntryGoes
  <2>3. ~InMap(x)'
    BY <2>1, <2>2, NamedBinds DEF InMap, IInv, MapOK, EntryOK
  <2>4. TasksOK'
    <3>1. CASE UNCHANGED tasks
      BY <1>1, <2>2, <3>1, EventsFrame
    <3>2. CASE tasks' = Append(tasks, Task("disconnect", Entry, Head(calls).ok))
      <4>1. PICK t \in TaskSet : t.x = x /\ tasks' = Append(tasks, t)
        BY <1>2, <1>3, <2>1, <3>2, TaskFacts DEF Entry
      <4> QED
        BY <1>1, <2>1, <2>2, <2>3, <4>1, EventSent
    <3> QED
      BY <1>5, <3>1, <3>2
  <2>5. SvcOK' /\ EntriesOK'
    BY <1>1, <1>2, <2>2, CallHandled
  <2> QED
    BY <2>2, <2>4, <2>5 DEF IInv
<1> QED
  BY <1>1, <1>4, <1>5 DEF OnDisconnect, TaiheOnDisconnect, ReportDisconnect, Post

LEMMA OnUnBindKeeps ==
  ASSUME IInv, OnUnBind \/ TaiheOnUnBind PROVE IInv'
<1>1. /\ calls # <<>> /\ Head(calls).kind = "OnUnBind" /\ Handled
      /\ UNCHANGED <<map, tasks>> /\ UNCHANGED js /\ calls' = Tail(calls)
  BY DEF OnUnBind, TaiheOnUnBind, Delivered, Handled
<1>2. PICK d \in Devices : d = Head(calls).d
  BY <1>1, FirstCall
<1>3. Head(calls).ok \in BOOLEAN
  BY <1>1, FirstCall
<1>4. SvcOK' /\ EntriesOK'
  BY <1>1, CallHandled
<1>5. \/ UNCHANGED data
      \/ Entry # None /\ data' = [data EXCEPT ![Entry].unBindOk = Head(calls).ok]
  BY DEF OnUnBind, TaiheOnUnBind, KeepUnbindResult
<1>6. CASE UNCHANGED data
  BY <1>1, <1>4, <1>6, JsStays DEF IInv
<1>7. CASE Entry # None /\ data' = [data EXCEPT ![Entry].unBindOk = Head(calls).ok]
  <2>1. PICK x \in Data : x = map[d] /\ x = Entry
    BY <1>2, <1>7, NamedBinds DEF Entry
  <2>2. data \in [Data -> AsyncData] /\ data[x] \in AsyncData
    BY DEF IInv, DataOK
  <2> DEFINE r == [data[x] EXCEPT !.unBindOk = Head(calls).ok]
  <2>3. /\ r \in AsyncData /\ r.bind = data[x].bind /\ r.onDisconnect = data[x].onDisconnect
        /\ Alike(r, data[x])
    BY <1>3, <2>2, MarksSet
  <2>4. data' = [data EXCEPT ![x] = r]
    BY <1>7, <2>1
  <2> HIDE DEF r
  <2>5. /\ data' \in [Data -> AsyncData] /\ data'[x] = r
        /\ \A y \in Data : y # x => data'[y] = data[y]
    BY <2>2, <2>3, <2>4, OneBind
  <2>6. \A y \in Data : /\ data'[y].dev = data[y].dev /\ data'[y].bind = data[y].bind
                        /\ data'[y].told = data[y].told
                        /\ data'[y].onDisconnect = data[y].onDisconnect
                        /\ data'[y].unbind = data[y].unbind
    BY <2>3, <2>5 DEF Alike
  <2>7. MapOK' /\ TasksOK'
    BY <1>1, <2>6, SeenFrame
  <2>8. DataOK'
    BY <1>1, <2>5, <2>6 DEF IInv, DataOK, BindOK
  <2>9. JsOK'
    BY <1>1, <2>6 DEF IInv, JsOK
  <2> QED
    BY <1>4, <2>7, <2>8, <2>9 DEF IInv
<1> QED
  BY <1>5, <1>6, <1>7

------------------------------------------------------------------------------
(* 7. The events. *)

\* The event that runs, and those left.
LEMMA FirstTask ==
  ASSUME IInv, tasks # <<>>, tasks' = Tail(tasks)
  PROVE  /\ Head(tasks) \in TaskSet /\ Head(tasks).x \in Data /\ Head(tasks).ok \in BOOLEAN
         /\ EventOK(Head(tasks)) /\ tasks' \in Seq(TaskSet)
         /\ Len(tasks) \in Nat /\ 1 \in 1..Len(tasks) /\ Head(tasks) = tasks[1]
         /\ \A i \in 1..Len(tasks') : i + 1 \in 1..Len(tasks) /\ tasks'[i] = tasks[i + 1]
<1>1. tasks \in Seq(TaskSet)
  BY DEF IInv, TasksOK
<1>2. /\ Head(tasks) \in TaskSet /\ Head(tasks) = tasks[1] /\ tasks' \in Seq(TaskSet)
      /\ Len(tasks) \in Nat /\ Len(tasks) # 0 /\ Len(tasks') = Len(tasks) - 1
      /\ \A i \in 1..Len(tasks') : tasks'[i] = tasks[i + 1]
  BY <1>1, LenProperties, HeadTailProperties, EmptySeq
<1>3. 1 \in 1..Len(tasks) /\ \A i \in 1..Len(tasks') : i + 1 \in 1..Len(tasks)
  BY <1>2
<1>4. EventOK(tasks[1])
  BY <1>3 DEF IInv, TasksOK
<1> QED
  BY <1>2, <1>3, <1>4 DEF TaskSet

\* An event settles or tells its own bind call; the last of a bind call may
\* do so for good.
LEMMA TaskRun ==
  ASSUME IInv, tasks # <<>>, tasks' = Tail(tasks), UNCHANGED map,
         NEW x \in Data, x = Head(tasks).x,
         \A y \in Data : y # x => data'[y] = data[y],
         data'[x].dev = data[x].dev,
         ~Ends(Head(tasks)) =>
           /\ data'[x].told = data[x].told
           /\ \/ data'[x].bind = data[x].bind
              \/ data[x].bind = "open" /\ data'[x].bind = "resolved"
  PROVE  MapOK' /\ TasksOK'
<1>1. /\ EventOK(Head(tasks)) /\ tasks' \in Seq(TaskSet)
      /\ Len(tasks) \in Nat /\ 1 \in 1..Len(tasks) /\ Head(tasks) = tasks[1]
      /\ \A i \in 1..Len(tasks') : i + 1 \in 1..Len(tasks) /\ tasks'[i] = tasks[i + 1]
  BY FirstTask
<1>2. Ends(Head(tasks)) => ~InMap(x)
  BY <1>1 DEF EventOK
<1>3. \A i \in 1..Len(tasks') : tasks'[i].x = x => ~Ends(Head(tasks))
  <2> SUFFICES ASSUME NEW i \in 1..Len(tasks'), tasks'[i].x = x PROVE ~Ends(tasks[1])
    BY <1>1
  <2>1. i + 1 \in 1..Len(tasks) /\ tasks[i + 1].x = tasks[1].x /\ 1 < i + 1
    BY <1>1
  <2> QED
    BY <1>1, <2>1 DEF IInv, TasksOK
<1>4. MapOK'
  <2>1. ASSUME NEW d \in Devices, map[d] # None PROVE EntryOK(d, map[d])'
    <3>1. PICK y \in Data : y = map[d]
      BY <2>1, NamedBinds
    <3>2. EntryOK(d, y)
      BY <2>1, <3>1 DEF IInv, MapOK
    <3>3. y = x => ~Ends(Head(tasks))
      BY <1>2, <3>1 DEF InMap
    <3>4. EntryOK(d, y)'
      BY <3>2, <3>3 DEF EntryOK
    <3> QED
      BY <3>1, <3>4
  <2> QED
    BY <2>1 DEF IInv, MapOK
<1>5. ASSUME NEW i \in 1..Len(tasks') PROVE EventOK(tasks[i])'
  <2>1. PICK s : s = tasks'[i] /\ s = tasks[i + 1]
    BY <1>1
  <2>2. s.x \in Data /\ EventOK(s)
    BY <1>1, <2>1, NamedBinds DEF IInv, TasksOK
  <2>3. s.x = x => ~Ends(Head(tasks))
    BY <1>3, <2>1
  <2>4. data'[s.x].bind \notin {"unused", "rejected"} /\ ~data'[s.x].told
    BY <2>2, <2>3 DEF EventOK
  <2>5. InMap(s.x)' => InMap(s.x)
    BY <2>1 DEF InMap
  <2> QED
    BY <2>1, <2>2, <2>4, <2>5 DEF EventOK, Ends
<1>6. ASSUME NEW i \in 1..Len(tasks'), NEW j \in 1..Len(tasks'), i < j,
             tasks'[j].x = tasks'[i].x
      PROVE  ~Ends(tasks'[i])
  <2>1. /\ i + 1 \in 1..Len(tasks) /\ j + 1 \in 1..Len(tasks) /\ i + 1 < j + 1
        /\ tasks'[i] = tasks[i + 1] /\ tasks'[j] = tasks[j + 1]
    BY <1>1, <1>6
  <2> QED
    BY <1>6, <2>1 DEF IInv, TasksOK
<1> QED
  BY <1>1, <1>4, <1>5, <1>6 DEF TasksOK, Ends

\* Between its calls the JS thread is in no bind call.
LEMMA Between ==
  ASSUME IInv, Ready
  PROVE  js.op = "none" /\ \A x \in Data : data[x].bind # "called"
BY DEF IInv, Ready, JsOK, DataOK, BindOK

LEMMA OnConnectTaskKeeps ==
  ASSUME IInv, OnConnectTask PROVE IInv'
<1>1. /\ Ready /\ tasks # <<>> /\ tasks' = Tail(tasks) /\ UNCHANGED <<map, js>>
      /\ Head(tasks).kind = "connect" /\ UNCHANGED <<map, svc, calls, deaths>>
      /\ UNCHANGED <<svc, calls, proxy, up, deaths>>
  BY DEF OnConnectTask, Running, Ran, ipc
<1>2. PICK x \in Data : x = Head(tasks).x
  BY <1>1, FirstTask
<1>3. data \in [Data -> AsyncData] /\ data[x] \in AsyncData
  BY DEF IInv, DataOK
<1>4. js.op = "none"
  BY <1>1, Between
<1>5. EntriesOK'
  BY <1>1, EntriesFrame DEF IInv, Pending
<1>6. CASE UNCHANGED data
  <2>1. MapOK' /\ TasksOK'
    BY <1>1, <1>2, <1>6, TaskRun
  <2>2. JsOK' /\ DataOK'
    BY <1>1, <1>6 DEF IInv, JsOK, DataOK, BindOK
  <2> QED
    BY <1>1, <1>5, <2>1, <2>2, SvcFrame DEF IInv
<1>7. ASSUME data[x].bind = "open",
             NEW b \in Binds, b = IF Head(tasks).ok THEN "resolved" ELSE "rejected",
             data' = [data EXCEPT ![x].bind = b]
      PROVE  IInv'
  <2> DEFINE r == [data[x] EXCEPT !.bind = b]
  <2>1. /\ r \in AsyncData /\ r.bind = b /\ r.onDisconnect = data[x].onDisconnect
        /\ r.dev = data[x].dev /\ r.told = data[x].told /\ r.unbind = data[x].unbind
    BY <1>3, BindSet DEF Alike
  <2>2. data' = [data EXCEPT ![x] = r]
    BY <1>7
  <2> HIDE DEF r
  <2>3. /\ data' \in [Data -> AsyncData] /\ data'[x] = r
        /\ \A y \in Data : y # x => data'[y] = data[y]
    BY <1>3, <2>1, <2>2, OneBind
  <2>4. ~Ends(Head(tasks)) => b = "resolved"
    BY <1>7 DEF Ends
  <2>5. MapOK' /\ TasksOK'
    BY <1>1, <1>2, <1>7, <2>1, <2>3, <2>4, TaskRun
  <2>6. DataOK'
    <3>1. BindOK(x) /\ ~data[x].told
      BY <1>1, <1>2, FirstTask DEF IInv, DataOK, EventOK
    <3>2. BindOK(x)'
      BY <1>7, <2>1, <2>3, <3>1 DEF BindOK
    <3>3. ASSUME NEW y \in Data, y # x PROVE BindOK(y)'
      BY <1>1, <2>3, <3>3 DEF IInv, DataOK, BindOK
    <3> QED
      BY <2>3, <3>2, <3>3 DEF DataOK
  <2>7. JsOK'
    BY <1>1, <1>4 DEF IInv, JsOK
  <2> QED
    BY <1>1, <1>5, <2>5, <2>6, <2>7, SvcFrame DEF IInv
<1>8. \/ UNCHANGED data
      \/ /\ data[x].bind = "open"
         /\ data' = [data EXCEPT ![x].bind = IF Head(tasks).ok THEN "resolved" ELSE "rejected"]
  BY <1>2 DEF OnConnectTask
<1>9. (IF Head(tasks).ok THEN "resolved" ELSE "rejected") \in Binds
  BY DEF Binds
<1> QED
  BY <1>6, <1>7, <1>8, <1>9

\* onDisconnect is called for a binding that did not throw, and its unbind is
\* settled with it.
LEMMA TellData ==
  ASSUME IInv, OnDisconnectTask, NEW x \in Data, x = Head(tasks).x
  PROVE  /\ data' \in [Data -> AsyncData]
         /\ \A y \in Data : y # x => data'[y] = data[y]
         /\ data'[x].dev = data[x].dev /\ data'[x].bind = data[x].bind
         /\ data'[x].onDisconnect = data[x].onDisconnect
         /\ \/ /\ data[x].bind \in {"open", "resolved"} /\ ~data[x].told /\ data'[x].told
               /\ data[x].unbind = "open" => data'[x].unbind \in {"resolved", "rejected"}
               /\ data[x].unbind # "open" => data[x].unbind = "none" /\ data'[x].unbind = "none"
            \/ /\ data[x].bind = "threw" /\ data'[x].told = data[x].told
               /\ data'[x].unbind = data[x].unbind
<1>1. /\ Ready /\ tasks # <<>> /\ tasks' = Tail(tasks)
  BY DEF OnDisconnectTask, Running, Ran
<1>2. data \in [Data -> AsyncData] /\ data[x] \in AsyncData /\ BindOK(x)
  BY DEF IInv, DataOK
<1>3. data[x].bind \in {"open", "resolved", "threw"} /\ ~data[x].told
  <2>1. EventOK(Head(tasks)) /\ data[x].bind # "called"
    BY <1>1, FirstTask, Between
  <2>2. data[x].bind \in Binds
    BY <1>2 DEF AsyncData, Binds
  <2> QED
    BY <2>1, <2>2 DEF EventOK, Binds
<1> DEFINE b == data[x].told \/ data[x].onDisconnect
           u == IF ~(data[x].unbind = "open") THEN data[x].unbind
                ELSE IF data[x].unBindOk THEN "resolved" ELSE "rejected"
           r == [data[x] EXCEPT !.told = b, !.unbind = u]
<1>4. data' = [data EXCEPT ![x] = r]
  BY DEF OnDisconnectTask
<1>5. data[x].unbind \in Unbinds
  BY <1>2 DEF AsyncData, Unbinds
<1>6. u \in Unbinds
  BY <1>5 DEF Unbinds
<1>7. b \in BOOLEAN
  OBVIOUS
<1>8. /\ data[x].unbind = "open" => u \in {"resolved", "rejected"}
      /\ data[x].unbind # "open" => u = data[x].unbind
  OBVIOUS
<1>9. b <=> data[x].onDisconnect
  BY <1>3
<1> HIDE DEF b, u
<1>10. /\ r \in AsyncData /\ r.dev = data[x].dev /\ r.bind = data[x].bind
       /\ r.onDisconnect = data[x].onDisconnect /\ r.told = b /\ r.unbind = u
  <2>1. PICK q \in AsyncData, c \in BOOLEAN : q = data[x] /\ c = b
    BY <1>2, <1>7
  <2>2. PICK v \in Unbinds : v = u
    BY <1>6
  <2> DEFINE s == [q EXCEPT !.told = c, !.unbind = v]
  <2>3. /\ s \in AsyncData
        /\ s.dev = q.dev /\ s.bind = q.bind /\ s.onDisconnect = q.onDisconnect
        /\ s.told = c /\ s.unbind = v
    BY DEF AsyncData, Unbinds
  <2>4. r = s
    BY <2>1, <2>2
  <2> HIDE DEF r, s
  <2> QED
    BY <2>1, <2>2, <2>3, <2>4
<1> HIDE DEF r
<1>11. /\ data' \in [Data -> AsyncData] /\ data'[x] = r
       /\ \A y \in Data : y # x => data'[y] = data[y]
  BY <1>2, <1>4, <1>10, OneBind
<1>12. CASE data[x].bind \in {"open", "resolved"}
  <2>1. data[x].onDisconnect
    BY <1>2, <1>12 DEF BindOK
  <2>2. data'[x].told
    BY <1>9, <1>10, <1>11, <2>1
  <2>3. data[x].unbind # "open" => data[x].unbind = "none"
    BY <1>2, <1>3, <1>5 DEF BindOK, Unbinds
  <2> QED
    BY <1>3, <1>8, <1>10, <1>11, <1>12, <2>2, <2>3
<1>13. CASE data[x].bind = "threw"
  <2>1. ~data[x].onDisconnect /\ data[x].unbind = "none"
    BY <1>2, <1>13 DEF BindOK
  <2>2. b = FALSE /\ data[x].told = FALSE
    BY <1>2, <1>3, <1>7, <1>9, <2>1 DEF AsyncData
  <2> QED
    BY <1>8, <1>10, <1>11, <1>13, <2>1, <2>2
<1> QED
  BY <1>3, <1>12, <1>13

LEMMA OnDisconnectTaskKeeps ==
  ASSUME IInv, OnDisconnectTask PROVE IInv'
<1>1. /\ Ready /\ tasks # <<>> /\ tasks' = Tail(tasks) /\ UNCHANGED <<map, js>>
      /\ Head(tasks).kind = "disconnect" /\ UNCHANGED <<map, svc, calls, deaths>>
      /\ UNCHANGED <<svc, calls, proxy, up, deaths>>
  BY DEF OnDisconnectTask, Running, Ran, ipc
<1>2. PICK x \in Data : x = Head(tasks).x
  BY <1>1, FirstTask
<1>3. /\ data' \in [Data -> AsyncData]
      /\ \A y \in Data : y # x => data'[y] = data[y]
      /\ data'[x].dev = data[x].dev /\ data'[x].bind = data[x].bind
      /\ data'[x].onDisconnect = data[x].onDisconnect
      /\ \/ /\ data[x].bind \in {"open", "resolved"} /\ ~data[x].told /\ data'[x].told
            /\ data[x].unbind = "open" => data'[x].unbind \in {"resolved", "rejected"}
            /\ data[x].unbind # "open" => data[x].unbind = "none" /\ data'[x].unbind = "none"
         \/ /\ data[x].bind = "threw" /\ data'[x].told = data[x].told
            /\ data'[x].unbind = data[x].unbind
  BY <1>2, TellData
<1>4. js.op = "none"
  BY <1>1, Between
<1>5. MapOK' /\ TasksOK'
  BY <1>1, <1>2, <1>3, TaskRun DEF Ends
<1>6. DataOK'
  <2>1. BindOK(x)
    BY DEF IInv, DataOK
  <2>2. BindOK(x)'
    BY <1>1, <1>3, <2>1 DEF BindOK
  <2>3. ASSUME NEW y \in Data, y # x PROVE BindOK(y)'
    BY <1>1, <1>3, <2>3 DEF IInv, DataOK, BindOK
  <2> QED
    BY <1>3, <2>2, <2>3 DEF DataOK
<1>7. JsOK'
  BY <1>1, <1>4 DEF IInv, JsOK
<1>8. EntriesOK'
  BY <1>1, EntriesFrame DEF IInv, Pending
<1> QED
  BY <1>1, <1>5, <1>6, <1>7, <1>8, SvcFrame DEF IInv


------------------------------------------------------------------------------
(* 8. The invariant of the specification. *)

LEMMA CallsKeep ==
  ASSUME IInv, Calls PROVE IInv'
<1>1. ASSUME NEW x \in Data, NEW d \in Devices,
             BindDevice(x, d) \/ BindDriverWithDeviceId(x, d) \/ BindDriverWithDeviceIdSync(x, d)
      PROVE  IInv'
  BY <1>1, EnterBindKeeps DEF BindDevice, BindDriverWithDeviceId, BindDriverWithDeviceIdSync
<1>2. ASSUME NEW d \in Devices,
             UnbindDevice(d) \/ UnbindDriverWithDeviceId(d) \/ UnbindDriverWithDeviceIdSync(d)
      PROVE  IInv'
  BY <1>2, EnterUnbindKeeps
    DEF UnbindDevice, UnbindDriverWithDeviceId, UnbindDriverWithDeviceIdSync
<1>3. ASSUME NEW q \in Queries, NEW api, EnterQuery(q, api) PROVE IInv'
  BY <1>3, EnterQueryKeeps
<1> QED
  BY <1>1, <1>2, <1>3, BadArgumentKeeps DEF Calls

LEMMA JsReturnsKeep ==
  ASSUME IInv, JsReturns PROVE IInv'
<1>1. CASE BindDeviceReturns \/ BindDriverWithDeviceIdReturns \/ BindDriverWithDeviceIdSyncReturns
  BY <1>1, FinishBindKeeps
    DEF BindDeviceReturns, BindDriverWithDeviceIdReturns, BindDriverWithDeviceIdSyncReturns
<1>2. CASE UnbindDeviceReturns \/ UnbindDriverWithDeviceIdReturns
  BY <1>2, UnbindNapiKeeps DEF UnbindDeviceReturns, UnbindDriverWithDeviceIdReturns
<1> QED
  BY <1>1, <1>2, PlainReturnsKeep, FinishQueryKeeps DEF JsReturns

LEMMA ClientKeeps ==
  ASSUME IInv, Client PROVE IInv'
<1>1. CASE ClientBindDevice \/ ClientBindDriver
  BY <1>1, BindCallKeeps DEF ClientBindDevice, ClientBindDriver
<1>2. CASE ClientUnBindDevice \/ ClientUnbindDriver
  BY <1>2, UnbindCallKeeps DEF ClientUnBindDevice, ClientUnbindDriver
<1> QED
  BY <1>1, <1>2, ConnectKeeps, ProxyKeeps, QueryCallKeeps DEF Client

LEMMA NextKeeps ==
  ASSUME IInv, [Next]_vars PROVE IInv'
<1>1. CASE Binder
  BY <1>1, OnConnectKeeps, OnDisconnectKeeps, OnUnBindKeeps DEF Binder
<1>2. CASE Tasks
  BY <1>2, OnConnectTaskKeeps, OnDisconnectTaskKeeps DEF Tasks
<1>3. CASE Service
  BY <1>3, ConnectedKeeps, DisconnectedKeeps, ServiceRestartKeeps DEF Service
<1>4. CASE UNCHANGED vars
  <2>1. /\ UNCHANGED <<map, data, tasks, js>> /\ UNCHANGED <<svc, calls, proxy, up, deaths>>
        /\ UNCHANGED <<map, svc, calls, deaths>>
    BY <1>4 DEF vars
  <2>2. EntriesOK'
    BY <2>1, EntriesFrame DEF IInv, Pending
  <2> QED
    BY <2>1, <2>2, JsStays, SvcFrame DEF IInv
<1> QED
  BY <1>1, <1>2, <1>3, <1>4, CallsKeep, JsReturnsKeep, ClientKeeps, ProxyKeeps DEF Next

LEMMA InitHolds ==
  ASSUME Init PROVE IInv
<1>1. /\ map = [d \in Devices |-> None] /\ data = [x \in Data |-> Fresh] /\ js = Idle
      /\ tasks = <<>> /\ calls = <<>> /\ svc = [d \in Devices |-> NoSvc]
      /\ proxy = "none" /\ deaths = 0
  BY DEF Init
<1>2. /\ Fresh \in AsyncData /\ Fresh.bind = "unused" /\ Fresh.onDisconnect = FALSE
      /\ Fresh.told = FALSE /\ Fresh.unbind = "none"
  BY DEF Fresh, AsyncData
<1>3. JsOK
  BY <1>1, IdleFacts DEF JsOK
<1>4. DataOK
  BY <1>1, <1>2 DEF DataOK, BindOK
<1>5. MapOK
  BY <1>1 DEF MapOK
<1>6. TasksOK
  <2>1. tasks \in Seq(TaskSet) /\ Len(tasks) = 0
    BY <1>1
  <2> QED
    BY <2>1 DEF TasksOK
<1>7. SvcOK
  <2>1. NoSvc \in SvcSet
    BY DEF NoSvc, SvcSet
  <2> QED
    BY <1>1, <2>1 DEF SvcOK
<1>8. EntriesOK
  BY <1>1 DEF EntriesOK
<1> QED
  BY <1>3, <1>4, <1>5, <1>6, <1>7, <1>8 DEF IInv

LEMMA Invariance == Spec => []IInv
<1>1. Init => IInv
  BY InitHolds
<1>2. IInv /\ [Next]_vars => IInv'
  BY NextKeeps
<1> QED
  BY <1>1, <1>2, PTL DEF Spec

------------------------------------------------------------------------------
(* 9. The properties. *)

\* The state of the application keeps its types; onDisconnect is to be called
\* for the bind calls that were made and did not throw; a proxy is live only
\* while the service it was made for runs.
THEOREM TypeCorrect == Spec => []TypeOK
<1>1. ASSUME IInv PROVE TypeOK
  <2>1. ASSUME NEW x \in Data
        PROVE  /\ data[x].bind \in {"unused", "called", "open", "threw", "resolved", "rejected"}
               /\ data[x].unbind \in {"none", "open", "resolved", "rejected"}
               /\ data[x].onDisconnect = (data[x].bind \notin {"unused", "threw"})
    <3>1. data[x] \in AsyncData /\ BindOK(x)
      BY <1>1 DEF IInv, DataOK
    <3>2. data[x].onDisconnect \in BOOLEAN
      BY <3>1 DEF AsyncData
    <3> QED
      BY <3>1, <3>2 DEF AsyncData, BindOK
  <2> QED
    BY <1>1, <2>1 DEF TypeOK, IInv, JsOK, MapOK, SvcOK
<1> QED
  BY <1>1, Invariance, PTL

\* No bind leaves an entry in g_callbackMap that nobody takes out: while the
\* service lives, its callback is registered there, or OnDisconnect is on the
\* way, or the bind call that made it has not returned.
THEOREM MapFollows == Spec => []MapFollowsService
<1>1. ASSUME IInv PROVE MapFollowsService
  <2> SUFFICES ASSUME NEW d \in Devices, map[d] # None, deaths = 0
               PROVE  svc[d].reg \/ Leaving(d) \/ (js.op = "bind" /\ js.x = map[d])
    BY DEF MapFollowsService, Leaving
  <2> QED
    BY <1>1 DEF IInv, EntriesOK, Pending, JsOK
<1> QED
  BY <1>1, Invariance, PTL


------------------------------------------------------------------------------
(* 10. The bindings keep BindingContract: each step of the process is a step *)
(* of one bind call there, or changes nothing that the application sees.     *)

\* The application sees nothing new of the bind call y.
Unseen(y) ==
  data'[y].bind = data[y].bind /\ data'[y].told = data[y].told /\ data'[y].unbind = data[y].unbind

LEMMA Stutters ==
  ASSUME \A y \in Data : Unseen(y)
  PROVE  UNCHANGED Contract!vars
BY DEF Unseen, Contract!vars

LEMMA DataStays ==
  ASSUME UNCHANGED data
  PROVE  UNCHANGED Contract!vars
BY Stutters DEF Unseen

\* A step of the bind call x that changes its outcome, or what is told of it
\* and its unbind.
LEMMA BindStep ==
  ASSUME NEW x \in Data, NEW b, data'[x].bind = b, data'[x].told = data[x].told,
         data'[x].unbind = data[x].unbind, \A y \in Data : y # x => Unseen(y)
  PROVE  /\ [y \in Data |-> data'[y].bind] = [[y \in Data |-> data[y].bind] EXCEPT ![x] = b]
         /\ [y \in Data |-> data'[y].told] = [y \in Data |-> data[y].told]
         /\ [y \in Data |-> data'[y].unbind] = [y \in Data |-> data[y].unbind]
BY DEF Unseen

LEMMA TellStep ==
  ASSUME NEW x \in Data, NEW t, NEW u, data'[x].bind = data[x].bind,
         data'[x].told = t, data'[x].unbind = u, \A y \in Data : y # x => Unseen(y)
  PROVE  /\ [y \in Data |-> data'[y].bind] = [y \in Data |-> data[y].bind]
         /\ [y \in Data |-> data'[y].told] = [[y \in Data |-> data[y].told] EXCEPT ![x] = t]
         /\ [y \in Data |-> data'[y].unbind] = [[y \in Data |-> data[y].unbind] EXCEPT ![x] = u]
BY DEF Unseen

\* A bind call is made.
LEMMA RefineEnterBind ==
  ASSUME IInv, NEW x \in Data, NEW d \in Devices, NEW api, EnterBind(x, d, api)
  PROVE  Contract!Call(x)
<1>1. /\ data'[x].bind = "called" /\ data'[x].told = FALSE /\ data'[x].unbind = "none"
      /\ \A y \in Data : y # x => data'[y].bind = data[y].bind /\ Alike(data'[y], data[y])
  BY EnterBindData
<1>2. data[x] \in AsyncData /\ BindOK(x) /\ data[x].bind = "unused"
  BY DEF IInv, DataOK, EnterBind
<1>3. data[x].told = FALSE /\ data[x].unbind = "none"
  BY <1>2 DEF BindOK, AsyncData
<1>4. \A y \in Data : y # x => Unseen(y)
  BY <1>1 DEF Alike, Unseen
<1> QED
  BY <1>1, <1>2, <1>3, <1>4, BindStep DEF Contract!Call

\* It throws, or its promise is made.
LEMMA RefineFinishBind ==
  ASSUME IInv, NEW error, NEW exception, FinishBind(error, exception)
  PROVE  \E x \in Data : Contract!Return(x)
<1>1. PICK x \in Data : x = js.x /\ data[x].bind = "called"
  BY DEF FinishBind, IInv, JsOK
<1>2. data \in [Data -> AsyncData] /\ data[x] \in AsyncData
  BY DEF IInv, DataOK
<1>3. PICK b \in {"threw", "open"} :
        /\ data'[x].bind = b /\ data'[x].told = data[x].told /\ data'[x].unbind = data[x].unbind
        /\ \A y \in Data : y # x => data'[y] = data[y]
  <2>1. CASE data' = [data EXCEPT ![x] = [data[x] EXCEPT !.bind = "threw", !.onDisconnect = FALSE]]
    BY <1>2, <2>1, ThrownSet
  <2>2. CASE data' = [data EXCEPT ![x] = [data[x] EXCEPT !.bind = "open"]]
    BY <1>2, <2>2, BindSet DEF Binds, Alike
  <2> QED
    BY <1>1, <2>1, <2>2 DEF FinishBind, FailBind
<1>4. \A y \in Data : y # x => Unseen(y)
  BY <1>3 DEF Unseen
<1> QED
  BY <1>1, <1>3, <1>4, BindStep DEF Contract!Return

\* An unbind is kept in the entry of the device, which is still bound.
LEMMA RefineUnbindNapi ==
  ASSUME IInv, NEW error, UnbindNapi(error)
  PROVE  (\E x \in Data : Contract!AskUnbind(x)) \/ UNCHANGED Contract!vars
<1>1. CASE UNCHANGED data
  BY <1>1, DataStays
<1>2. CASE map[js.d] # None /\ data' = [data EXCEPT ![map[js.d]].unbind = "open"]
  <2>1. js.d \in Devices /\ js.op = "unbind"
    BY DEF IInv, JsOK, UnbindNapi
  <2>2. PICK x \in Data : x = map[js.d]
    BY <1>2, <2>1, NamedBinds
  <2>3. data \in [Data -> AsyncData] /\ data[x] \in AsyncData /\ BindOK(x) /\ EntryOK(js.d, x)
    BY <1>2, <2>1, <2>2 DEF IInv, DataOK, MapOK
  <2>4. data[x].bind \in {"open", "resolved"} /\ ~data[x].told
    BY <2>1, <2>3 DEF BindOK, EntryOK
  <2>5. data[x].unbind \in {"none", "open"}
    BY <2>3, <2>4 DEF BindOK, AsyncData
  <2>6. data' = [data EXCEPT ![x] = [data[x] EXCEPT !.unbind = "open"]]
    BY <1>2, <2>2
  <2>7. /\ data'[x].bind = data[x].bind /\ data'[x].told = data[x].told
        /\ data'[x].unbind = "open" /\ \A y \in Data : y # x => data'[y] = data[y]
    BY <2>3, <2>6, UnbindSet DEF Unbinds
  <2>8. \A y \in Data : y # x => Unseen(y)
    BY <2>7 DEF Unseen
  <2>9. Contract!AskUnbind(x)
    BY <2>4, <2>5, <2>7, <2>8, TellStep DEF Contract!AskUnbind
  <2> QED
    BY <2>9
<1>3. \/ UNCHANGED data
      \/ map[js.d] # None /\ data' = [data EXCEPT ![map[js.d]].unbind = "open"]
  BY DEF UnbindNapi
<1> QED
  BY <1>1, <1>2, <1>3, Zenon

\* A promise is settled, once, and before onDisconnect is called.
LEMMA RefineOnConnectTask ==
  ASSUME IInv, OnConnectTask
  PROVE  (\E x \in Data : Contract!Settle(x)) \/ UNCHANGED Contract!vars
<1>1. Ready /\ tasks # <<>> /\ tasks' = Tail(tasks)
  BY DEF OnConnectTask, Running, Ran
<1>2. PICK x \in Data : x = Head(tasks).x /\ ~data[x].told
  BY <1>1, FirstTask DEF EventOK
<1>3. CASE data[x].bind # "open"
  <2>1. UNCHANGED data
    BY <1>2, <1>3 DEF OnConnectTask
  <2> QED
    BY <2>1, DataStays
<1>4. CASE data[x].bind = "open"
  <2>1. data \in [Data -> AsyncData] /\ data[x] \in AsyncData
    BY DEF IInv, DataOK
  <2>2. PICK b \in {"resolved", "rejected"} :
          data' = [data EXCEPT ![x] = [data[x] EXCEPT !.bind = b]]
    BY <1>2, <1>4 DEF OnConnectTask
  <2>3. /\ data'[x].bind = b /\ data'[x].told = data[x].told /\ data'[x].unbind = data[x].unbind
        /\ \A y \in Data : y # x => data'[y] = data[y]
    BY <2>1, <2>2, BindSet DEF Binds, Alike
  <2>4. \A y \in Data : y # x => Unseen(y)
    BY <2>3 DEF Unseen
  <2>5. Contract!Settle(x)
    BY <1>2, <1>4, <2>3, <2>4, BindStep DEF Contract!Settle
  <2> QED
    BY <2>5
<1> QED
  BY <1>3, <1>4

\* onDisconnect is called, once, and the unbind is settled with it.
LEMMA RefineOnDisconnectTask ==
  ASSUME IInv, OnDisconnectTask
  PROVE  (\E x \in Data : Contract!Tell(x)) \/ UNCHANGED Contract!vars
<1>1. Ready /\ tasks # <<>> /\ tasks' = Tail(tasks)
  BY DEF OnDisconnectTask, Running, Ran
<1>2. PICK x \in Data : x = Head(tasks).x
  BY <1>1, FirstTask
<1>3. /\ data' \in [Data -> AsyncData]
      /\ \A y \in Data : y # x => data'[y] = data[y]
      /\ data'[x].dev = data[x].dev /\ data'[x].bind = data[x].bind
      /\ data'[x].onDisconnect = data[x].onDisconnect
      /\ \/ /\ data[x].bind \in {"open", "resolved"} /\ ~data[x].told /\ data'[x].told
            /\ data[x].unbind = "open" => data'[x].unbind \in {"resolved", "rejected"}
            /\ data[x].unbind # "open" => data[x].unbind = "none" /\ data'[x].unbind = "none"
         \/ /\ data[x].bind = "threw" /\ data'[x].told = data[x].told
            /\ data'[x].unbind = data[x].unbind
  BY <1>2, TellData
<1>4. \A y \in Data : y # x => Unseen(y)
  BY <1>3 DEF Unseen
<1>5. CASE /\ data[x].bind \in {"open", "resolved"} /\ ~data[x].told /\ data'[x].told
           /\ data[x].unbind = "open" => data'[x].unbind \in {"resolved", "rejected"}
           /\ data[x].unbind # "open" => data[x].unbind = "none" /\ data'[x].unbind = "none"
  <2>1. data'[x].told = TRUE
    BY <1>3, <1>5 DEF AsyncData
  <2>2. PICK u \in IF data[x].unbind = "open" THEN {"resolved", "rejected"} ELSE {"none"} :
          data'[x].unbind = u
    BY <1>5
  <2>3. Contract!Tell(x)
    BY <1>3, <1>4, <1>5, <2>1, <2>2, TellStep DEF Contract!Tell
  <2> QED
    BY <2>3
<1>6. CASE data'[x].told = data[x].told /\ data'[x].unbind = data[x].unbind
  BY <1>3, <1>4, <1>6, Stutters DEF Unseen
<1> QED
  BY <1>3, <1>5, <1>6

\* What OnUnBind keeps is not seen before the event runs.
LEMMA RefineOnUnBind ==
  ASSUME IInv, OnUnBind \/ TaiheOnUnBind
  PROVE  UNCHANGED Contract!vars
<1>1. /\ calls # <<>> /\ calls' = Tail(calls)
      /\ \/ UNCHANGED data
         \/ Entry # None /\ data' = [data EXCEPT ![Entry].unBindOk = Head(calls).ok]
  BY DEF OnUnBind, TaiheOnUnBind, KeepUnbindResult, Delivered, Handled
<1>2. CASE UNCHANGED data
  BY <1>2, DataStays
<1>3. CASE Entry # None /\ data' = [data EXCEPT ![Entry].unBindOk = Head(calls).ok]
  <2>1. Head(calls).d \in Devices /\ Head(calls).ok \in BOOLEAN
    BY <1>1, FirstCall
  <2>2. PICK x \in Data : x = Entry
    BY <1>3, <2>1, NamedBinds DEF Entry
  <2>3. data \in [Data -> AsyncData] /\ data[x] \in AsyncData
    BY DEF IInv, DataOK
  <2>4. data' = [data EXCEPT ![x] = [data[x] EXCEPT !.unBindOk = Head(calls).ok]]
    BY <1>3, <2>2
  <2>5. \A y \in Data : Unseen(y)
    <3> DEFINE r == [data[x] EXCEPT !.unBindOk = Head(calls).ok]
    <3>1. r.bind = data[x].bind /\ Alike(r, data[x])
      BY <2>1, <2>3, MarksSet
    <3>2. data' = [data EXCEPT ![x] = r]
      BY <2>4
    <3> HIDE DEF r
    <3> QED
      BY <2>3, <3>1, <3>2 DEF Unseen, Alike
  <2> QED
    BY <2>5, Stutters
<1> QED
  BY <1>1, <1>2, <1>3


LEMMA RefineNext ==
  ASSUME IInv, [Next]_vars
  PROVE  [Contract!Next]_(Contract!vars)
<1>1. CASE Calls
  <2>1. ASSUME NEW x \in Data, NEW d \in Devices,
               BindDevice(x, d) \/ BindDriverWithDeviceId(x, d) \/ BindDriverWithDeviceIdSync(x, d)
        PROVE  Contract!Next
    <3>1. Contract!Call(x)
      BY <2>1, RefineEnterBind DEF BindDevice, BindDriverWithDeviceId, BindDriverWithDeviceIdSync
    <3> QED
      BY <3>1 DEF Contract!Next
  <2>2. ASSUME \/ \E d \in Devices :
                    \/ UnbindDevice(d) \/ UnbindDriverWithDeviceId(d)
                    \/ UnbindDriverWithDeviceIdSync(d)
               \/ \E q \in Queries, api \in {"devices", "deviceInfo", "driverInfo"} :
                    EnterQuery(q, api)
               \/ BadArgument
        PROVE  UNCHANGED data
    BY <2>2 DEF UnbindDevice, UnbindDriverWithDeviceId, UnbindDriverWithDeviceIdSync, EnterUnbind,
      EnterQuery, BadArgument, app
  <2> QED
    BY <1>1, <2>1, <2>2, DataStays DEF Calls
<1>2. CASE JsReturns
  <2>1. CASE \/ BindDeviceReturns \/ BindDriverWithDeviceIdReturns
             \/ BindDriverWithDeviceIdSyncReturns
    <3>1. \E x \in Data : Contract!Return(x)
      BY <2>1, RefineFinishBind
        DEF BindDeviceReturns, BindDriverWithDeviceIdReturns, BindDriverWithDeviceIdSyncReturns
    <3> QED
      BY <3>1 DEF Contract!Next
  <2>2. CASE UnbindDeviceReturns \/ UnbindDriverWithDeviceIdReturns
    <3>1. (\E x \in Data : Contract!AskUnbind(x)) \/ UNCHANGED Contract!vars
      BY <2>2, RefineUnbindNapi DEF UnbindDeviceReturns, UnbindDriverWithDeviceIdReturns
    <3> QED
      BY <3>1 DEF Contract!Next
  <2>3. CASE \/ UndoReturns \/ UnbindDriverWithDeviceIdSyncReturns
             \/ NapiQueryDevices \/ NapiQueryDeviceInfo \/ NapiQueryDriverInfo
             \/ TaiheQueryDevices \/ TaiheQueryDeviceInfo \/ TaiheQueryDriverInfo
    <3>1. UNCHANGED data
      BY <2>3 DEF UndoReturns, UnbindDriverWithDeviceIdSyncReturns, NapiQueryDevices,
        NapiQueryDeviceInfo, NapiQueryDriverInfo, TaiheQueryDevices, TaiheQueryDeviceInfo,
        TaiheQueryDriverInfo, FinishQuery, app
    <3> QED
      BY <3>1, DataStays
  <2> QED
    BY <1>2, <2>1, <2>2, <2>3 DEF JsReturns
<1>3. CASE Client \/ DisConnect
  <2>1. UNCHANGED data
    <3>1. CASE Connect \/ ProxyIsNull \/ ProxyIsDead \/ DisConnect
      BY <3>1 DEF Connect, ProxyIsNull, ProxyIsDead, DisConnect, app
    <3>2. CASE ClientBindDevice \/ ClientBindDriver \/ ClientUnBindDevice \/ ClientUnbindDriver
      BY <3>2 DEF ClientBindDevice, ClientBindDriver, ClientUnBindDevice, ClientUnbindDriver,
        BindDeviceCall, UnbindDeviceCall, app
    <3>3. CASE ClientQueryDevice \/ ClientQueryDeviceInfo \/ ClientQueryDriverInfo
      BY <3>3 DEF ClientQueryDevice, ClientQueryDeviceInfo, ClientQueryDriverInfo, QueryCall, app
    <3> QED
      BY <1>3, <3>1, <3>2, <3>3 DEF Client
  <2> QED
    BY <2>1, DataStays
<1>4. CASE Binder
  <2>1. CASE OnConnect \/ TaiheOnConnect \/ OnDisconnect \/ TaiheOnDisconnect
    <3>1. UNCHANGED data
      BY <2>1 DEF OnConnect, TaiheOnConnect, OnDisconnect, TaiheOnDisconnect
    <3> QED
      BY <3>1, DataStays
  <2> QED
    BY <1>4, <2>1, RefineOnUnBind DEF Binder
<1>5. CASE Tasks
  BY <1>5, RefineOnConnectTask, RefineOnDisconnectTask DEF Tasks, Contract!Next
<1>6. CASE Service \/ UNCHANGED vars
  <2>1. UNCHANGED data
    BY <1>6 DEF Service, Connected, Disconnected, ServiceDies, ServiceStarts, app, vars
  <2> QED
    BY <2>1, DataStays
<1> QED
  BY <1>1, <1>2, <1>3, <1>4, <1>5, <1>6 DEF Next

LEMMA RefineInit ==
  ASSUME Init PROVE Contract!Init
<1>1. /\ data = [x \in Data |-> Fresh]
      /\ Fresh.bind = "unused" /\ Fresh.told = FALSE /\ Fresh.unbind = "none"
  BY DEF Init, Fresh
<1>2. \A x \in Data : data[x] = Fresh
  BY <1>1
<1> QED
  BY <1>1, <1>2 DEF Contract!Init

\* What the application sees of each binding is what BindingContract allows:
\* a promise is settled once, never after onDisconnect; onDisconnect is called
\* once, never for a bind that threw or was rejected; an unbind is settled with
\* the report of the disconnection; whatever the order of callbacks, events
\* and calls (g_callbackMap, mapMutex, the JS thread's event queue).
THEOREM BindingRefined == Spec => BindingSpec
<1>1. Init => Contract!Init
  BY RefineInit
<1>2. IInv /\ [Next]_vars => [Contract!Next]_(Contract!vars)
  BY RefineNext
<1>3. Spec => Contract!Spec
  BY <1>1, <1>2, Invariance, PTL DEF Spec, Contract!Spec
<1> QED
  BY <1>3 DEF BindingSpec



------------------------------------------------------------------------------
(* 11. Parcels. *)

\* What the service sends of a device and of a driver; their fields are of any
\* kind F, that of the lists of numbers too.
DeviceData(F) ==
  [busType : {Usb}, deviceId : F, description : F, productId : F, vendorId : F]
DriverData(F) ==
  [busType : {Usb}, driverUid : F, driverName : F, bundleSize : F, version : F,
   description : F, pids : F, vids : F]

LEMMA DeviceRead ==
  ASSUME NEW F, NEW d \in DeviceData(F)
  PROVE  UnmarshalDevice(MarshalDevice(d)) = d
<1> DEFINE p == MarshalDevice(d)
<1>1. /\ Len(p) = 5
      /\ p[1] = Item("u32", d.busType) /\ p[2] = Item("u64", d.deviceId)
      /\ p[3] = Item("string", d.description) /\ p[4] = Item("u16", d.productId)
      /\ p[5] = Item("u16", d.vendorId)
  BY DEF MarshalDevice
<1> HIDE DEF p
<1>2. /\ Read(p, 1, "u32") = d.busType /\ Read(p, 2, "u64") = d.deviceId
      /\ Read(p, 3, "string") = d.description /\ Read(p, 4, "u16") = d.productId
      /\ Read(p, 5, "u16") = d.vendorId
  BY <1>1 DEF Read, Item
<1>3. UnmarshalDevice(p) = d
  BY <1>2 DEF UnmarshalDevice, DeviceData
<1> QED
  BY <1>3 DEF p

LEMMA DriverRead ==
  ASSUME NEW F, NEW d \in DriverData(F)
  PROVE  UnmarshalDriverInfo(MarshalDriverInfo(d)) = d
<1> DEFINE p == MarshalDriverInfo(d)
<1>1. /\ Len(p) = 8
      /\ p[1] = Item("u32", d.busType) /\ p[2] = Item("string", d.driverUid)
      /\ p[3] = Item("string", d.driverName) /\ p[4] = Item("string", d.bundleSize)
      /\ p[5] = Item("string", d.version) /\ p[6] = Item("string", d.description)
      /\ p[7] = Item("u16s", d.pids) /\ p[8] = Item("u16s", d.vids)
  BY DEF MarshalDriverInfo
<1> HIDE DEF p
<1>2. /\ Read(p, 1, "u32") = d.busType /\ Read(p, 2, "string") = d.driverUid
      /\ Read(p, 3, "string") = d.driverName /\ Read(p, 4, "string") = d.bundleSize
      /\ Read(p, 5, "string") = d.version /\ Read(p, 6, "string") = d.description
      /\ Read(p, 7, "u16s") = d.pids /\ Read(p, 8, "u16s") = d.vids
  BY <1>1 DEF Read, Item
<1>3. UnmarshalDriverInfo(p) = d
  BY <1>2 DEF UnmarshalDriverInfo, DriverData
<1> QED
  BY <1>3 DEF p

\* A list of devices or of drivers arrives at the client as the service sent
\* it, item by item and in its order, however long it is: the fields are
\* unmarshalled as they were marshalled (driver_ext_mgr_types.cpp), and no
\* item makes the proxy give up.
THEOREM ListsArriveAsSent ==
  ASSUME NEW F
  PROVE  /\ \A list \in Seq(DeviceData(F)) :
              None \notin DeviceData(F) => TransferDevices(list) = list
         /\ \A list \in Seq(DriverData(F)) :
              None \notin DriverData(F) => TransferDriverInfos(list) = list
<1>1. ASSUME NEW list \in Seq(DeviceData(F)), None \notin DeviceData(F)
      PROVE  TransferDevices(list) = list
  <2>1. /\ list \in [1..Len(list) -> DeviceData(F)] /\ DOMAIN list = 1..Len(list)
    OBVIOUS
  <2>2. \A i \in DOMAIN list : UnmarshalDevice(MarshalDevice(list[i])) = list[i]
    BY <2>1, DeviceRead
  <2>3. [i \in DOMAIN list |-> UnmarshalDevice(MarshalDevice(list[i]))] = list
    BY <2>1, <2>2
  <2>4. None \notin {list[i] : i \in DOMAIN list}
    BY <1>1, <2>1
  <2> QED
    BY <2>3, <2>4 DEF TransferDevices, Transfer
<1>2. ASSUME NEW list \in Seq(DriverData(F)), None \notin DriverData(F)
      PROVE  TransferDriverInfos(list) = list
  <2>1. /\ list \in [1..Len(list) -> DriverData(F)] /\ DOMAIN list = 1..Len(list)
    OBVIOUS
  <2>2. \A i \in DOMAIN list : UnmarshalDriverInfo(MarshalDriverInfo(list[i])) = list[i]
    BY <2>1, DriverRead
  <2>3. [i \in DOMAIN list |-> UnmarshalDriverInfo(MarshalDriverInfo(list[i]))] = list
    BY <2>1, <2>2
  <2>4. None \notin {list[i] : i \in DOMAIN list}
    BY <1>2, <2>1
  <2> QED
    BY <2>3, <2>4 DEF TransferDriverInfos, Transfer
<1> QED
  BY <1>1, <1>2

==============================================================================
