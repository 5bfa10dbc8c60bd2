-------------------- MODULE ExtDeviceManagerSessionProofs --------------------
(***************************************************************************)
(* ExtDeviceManager implements DriverSessions, for every value of its      *)
(* constants.                                                              *)
(*                                                                         *)
(* The argument.  The session of a device is made of its Device object and *)
(* of the connections that report to it (SessionOf), so a step on one      *)
(* device that leaves the connections of the others alone (Aside) changes  *)
(* one session.  Each operator of module Device changes a session as one   *)
(* action of DriverSessions does, or not at all (Move); each action of the *)
(* device manager applies one of them to one device (OneMoves).            *)
(***************************************************************************)
EXTENDS ExtDeviceManagerBindingProofs

HeardIn(d, cs, phase) ==
  {c \in Conns : cs[c].dev = d /\ cs[c].notifies /\ cs[c].phase = phase}

State(remote, callers, opening, up) ==
  [remote |-> remote, callers |-> callers, opening |-> opening, up |-> up]

SessionOf(d, dv, cs) ==
  State(dv.remote, dv.callers, HeardIn(d, cs, "connecting"), HeardIn(d, cs, "connected"))

mapped == [d \in Devices |-> Session(d)]

\* From session s to session t in one action of DriverSessions on one device,
\* when the connections were cs.
TellMove(s, t) ==
  \E cl \in Clients :
    s.remote /\ t = State(s.remote, [s.callers EXCEPT ![cl] = "bound"], s.opening, s.up)
AskMove(s, t, cs) ==
  \E cl \in Clients, c \in Conns :
    /\ ~s.remote /\ cs[c] = FreeConn
    /\ t = State(s.remote, [s.callers EXCEPT ![cl] = "pending"], {c}, {})
RefuseMove(s, t) ==
  \E cl \in Clients :
    ~s.remote /\ t = State(s.remote, [s.callers EXCEPT ![cl] = "none"], {}, {})
LeaveMove(s, t) ==
  \E cl \in Clients :
    t = State(s.remote, [s.callers EXCEPT ![cl] = "none"], s.opening, s.up)
OpenMove(s, t, cs) ==
  \E c \in Conns, r \in {s.remote, FALSE} :
    cs[c] = FreeConn /\ t = State(r, s.callers, s.opening \cup {c}, s.up)
DropMove(s, t) == t = State(FALSE, s.callers, s.opening, s.up)
AnswerMove(s, t) ==
  \E c \in Conns, ok \in BOOLEAN :
    /\ c \in s.opening
    /\ t = State(ok,
                 [cl \in Clients |-> IF s.callers[cl] = "none" THEN "none" ELSE "bound"],
                 s.opening \ {c},
                 IF ok THEN s.up \cup {c} ELSE s.up)
EndMove(s, t) ==
  \E c \in Conns :
    /\ c \in s.opening \cup s.up
    /\ t = State(FALSE, NoCallers, s.opening \ {c}, s.up \ {c})
EraseMove(t) == t = State(FALSE, NoCallers, {}, {})

Move(s, t, cs) ==
  \/ t = s \/ TellMove(s, t) \/ AskMove(s, t, cs) \/ RefuseMove(s, t) \/ LeaveMove(s, t)
  \/ OpenMove(s, t, cs) \/ DropMove(s, t) \/ AnswerMove(s, t) \/ EndMove(s, t) \/ EraseMove(t)

-----------------------------------------------------------------------------
(***************************************************************************)
(* From the sessions to the actions of DriverSessions.                     *)
(***************************************************************************)
LEMMA MappedFacts ==
  /\ mapped = [d \in Devices |-> SessionOf(d, device[d], conn)]
  /\ mapped' = [d \in Devices |-> SessionOf(d, device'[d], conn')]
BY DEF mapped, Session, Heard, Reports, SessionOf, HeardIn, State

\* A free slot of the connection table is a call nobody listens to.
LEMMA FreeSlots ==
  ASSUME conn \in GoodConns, NEW c \in Conns, conn[c] = FreeConn
  PROVE  c \in Sessions!Free
<1>1. \A d \in Devices : c \notin HeardIn(d, conn, "connecting") \cup HeardIn(d, conn, "connected")
  BY ConnFacts DEF HeardIn
<1>2. \A d \in Devices : c \notin mapped[d].opening \cup mapped[d].up
  BY <1>1, MappedFacts DEF SessionOf, State
<1> QED
  BY <1>2 DEF Sessions!Free, mapped

\* A step on one device, which leaves the others' connections alone (cs), up
\* to the stop of a driver.
LEMMA OneMoves ==
  ASSUME device \in [Devices -> DeviceRecords], conn \in GoodConns,
         NEW d \in Devices, NEW nv, device' = [device EXCEPT ![d] = nv],
         NEW cs, Aside(d, conn, cs), \A c \in Conns : SameButClosing(cs[c], conn'[c]),
         Move(SessionOf(d, device[d], conn), SessionOf(d, nv, conn'), conn)
  PROVE  [Sessions!Next]_mapped
<1> DEFINE s == SessionOf(d, device[d], conn)
           t == SessionOf(d, nv, conn')
<1>1. device'[d] = nv /\ \A e \in Devices \ {d} : device'[e] = device[e]
  OBVIOUS
<1>2. \A e \in Devices \ {d} : \A phase :
        HeardIn(e, conn', phase) = HeardIn(e, conn, phase)
  BY DeviceAssumption DEF HeardIn, Aside, SameButClosing
<1>3. \A e \in Devices \ {d} : SessionOf(e, device'[e], conn') = SessionOf(e, device[e], conn)
  BY <1>1, <1>2 DEF SessionOf
<1>4. mapped' = [mapped EXCEPT ![d] = t]
  <2> HIDE DEF t
  <2>1. \A e \in Devices : SessionOf(e, device'[e], conn')
                             = IF e = d THEN t ELSE SessionOf(e, device[e], conn)
    BY <1>1, <1>3 DEF t
  <2> QED
    BY <2>1, MappedFacts
<1>5. mapped[d] = s
  BY MappedFacts
<1>6. Sessions!Becomes(d, t)
  BY <1>4 DEF Sessions!Becomes, mapped
<1> HIDE DEF s, t
<1>7. CASE t = s
  <2>1. mapped' = mapped
    BY <1>4, <1>5, <1>7, MappedFacts
  <2> QED
    BY <2>1
<1>8. CASE TellMove(s, t)
  <2>1. \E cl \in Clients : Sessions!Tell(d, cl)
    BY <1>5, <1>6, <1>8 DEF TellMove, Sessions!Tell, mapped, State, Sessions!State
  <2> QED
    BY <2>1 DEF Sessions!Next
<1>9. CASE AskMove(s, t, conn)
  <2>1. \E cl \in Clients : Sessions!Ask(d, cl)
    BY <1>5, <1>6, <1>9, FreeSlots DEF AskMove, Sessions!Ask, mapped, State, Sessions!State
  <2> QED
    BY <2>1 DEF Sessions!Next
<1>10. CASE RefuseMove(s, t)
  <2>1. \E cl \in Clients : Sessions!Refuse(d, cl)
    BY <1>5, <1>6, <1>10 DEF RefuseMove, Sessions!Refuse, mapped, State, Sessions!State
  <2> QED
    BY <2>1 DEF Sessions!Next
<1>11. CASE LeaveMove(s, t)
  <2>1. \E cl \in Clients : Sessions!Leave(d, cl)
    BY <1>5, <1>6, <1>11 DEF LeaveMove, Sessions!Leave, mapped, State, Sessions!State
  <2> QED
    BY <2>1 DEF Sessions!Next
<1>12. CASE OpenMove(s, t, conn)
  <2>1. Sessions!Open(d)
    BY <1>5, <1>6, <1>12, FreeSlots DEF OpenMove, Sessions!Open, mapped, State, Sessions!State
  <2> QED
    BY <2>1 DEF Sessions!Next
<1>13. CASE DropMove(s, t)
  <2>1. Sessions!Drop(d)
    BY <1>5, <1>6, <1>13 DEF DropMove, Sessions!Drop, mapped, State, Sessions!State
  <2> QED
    BY <2>1 DEF Sessions!Next
<1>14. CASE AnswerMove(s, t)
  <2>1. \E c \in Conns, ok \in BOOLEAN : Sessions!Answer(d, c, ok)
    BY <1>5, <1>6, <1>14 DEF AnswerMove, Sessions!Answer, mapped, State, Sessions!State
  <2> QED
    BY <2>1 DEF Sessions!Next
<1>15. CASE EndMove(s, t)
  <2>1. \E c \in Conns : Sessions!End(d, c)
    BY <1>5, <1>6, <1>15
       DEF EndMove, Sessions!End, mapped, State, Sessions!State, NoCallers, Sessions!NoCallers
  <2> QED
    BY <2>1 DEF Sessions!Next
<1>16. CASE EraseMove(t)
  <2>1. Sessions!Erase(d)
    BY <1>6, <1>16 DEF EraseMove, Sessions!Erase, Sessions!Blank, State, Sessions!State,
      NoCallers, Sessions!NoCallers
  <2> QED
    BY <2>1 DEF Sessions!Next
<1> QED
  BY <1>7, <1>8, <1>9, <1>10, <1>11, <1>12, <1>13, <1>14, <1>15, <1>16 DEF Move, s, t

-----------------------------------------------------------------------------
(***************************************************************************)
(* The operators of module Device.                                         *)
(***************************************************************************)
\* Two fields of the device, and who reports how far.
LEMMA SameSession ==
  ASSUME NEW d, NEW dv, NEW cs, NEW nv, NEW next,
         nv.remote = dv.remote, nv.callers = dv.callers,
         \A phase : HeardIn(d, next, phase) = HeardIn(d, cs, phase)
  PROVE  SessionOf(d, nv, next) = SessionOf(d, dv, cs)
BY DEF SessionOf

\* A connection is opened, or none is.
LEMMA ConnectMoves ==
  ASSUME NEW d \in Devices, NEW dv \in DeviceRecords, NEW cs \in GoodConns,
         NEW o \in ConnectDriverExtension(d, dv, cs)
  PROVE  /\ o.dv.remote = dv.remote /\ o.dv.callers = dv.callers
         /\ \/ ~o.ok /\ o.cs = cs
            \/ /\ o.ok
               /\ \E c \in Conns :
                    /\ cs[c] = FreeConn
                    /\ HeardIn(d, o.cs, "connecting") = HeardIn(d, cs, "connecting") \cup {c}
                    /\ HeardIn(d, o.cs, "connected") = HeardIn(d, cs, "connected")
<1>1. o.dv.remote = dv.remote /\ o.dv.callers = dv.callers
  BY ConnectOutcomes
<1>2. \/ ~o.ok /\ o.cs = cs
      \/ /\ dv.bundleInfo \in Drivers /\ o.ok
         /\ \E c \in NextConns(cs) : o.cs = [cs EXCEPT ![c] = NewConn(d, dv.bundleInfo)]
  <2>1. \/ o = Outcome(dv, cs, FALSE)
        \/ o = Outcome([dv EXCEPT !.info = Dangling], cs, FALSE)
        \/ /\ dv.bundleInfo \in Drivers
           /\ \E c \in NextConns(cs) :
                o = Outcome([dv EXCEPT !.info = c],
                            [cs EXCEPT ![c] = NewConn(d, dv.bundleInfo)], TRUE)
    BY DEF ConnectDriverExtension, IfFaulty, DeviceRecords
  <2> QED
    BY <2>1 DEF Outcome
<1>3. ASSUME dv.bundleInfo \in Drivers, NEW c \in NextConns(cs),
             o.cs = [cs EXCEPT ![c] = NewConn(d, dv.bundleInfo)]
      PROVE  /\ c \in Conns /\ cs[c] = FreeConn
             /\ HeardIn(d, o.cs, "connecting") = HeardIn(d, cs, "connecting") \cup {c}
             /\ HeardIn(d, o.cs, "connected") = HeardIn(d, cs, "connected")
  <2>1. c \in Conns /\ cs[c] = FreeConn
    BY NextConnIsFree
  <2>2. /\ o.cs[c] = NewConn(d, dv.bundleInfo)
        /\ \A b \in Conns \ {c} : o.cs[b] = cs[b]
    BY <1>3, <2>1 DEF GoodConns
  <2>3. /\ NewConn(d, dv.bundleInfo).dev = d /\ NewConn(d, dv.bundleInfo).notifies
        /\ NewConn(d, dv.bundleInfo).phase = "connecting"
    BY DEF NewConn
  <2> QED
    BY <2>1, <2>2, <2>3, ConnFacts DEF HeardIn
<1> QED
  BY <1>1, <1>2, <1>3

\* Connect(), with its retries: the first attempt that fails opens nothing.
LEMMA ConnectOnMatchMoves ==
  ASSUME NEW d \in Devices, NEW dv \in DeviceRecords, NEW cs \in GoodConns,
         NEW o \in ConnectOnMatch(d, dv, cs)
  PROVE  Move(SessionOf(d, dv, cs), SessionOf(d, o.dv, o.cs), cs)
<1> DEFINE s == SessionOf(d, dv, cs)
           noted == AddDrvExtConnNotify(dv)
           dropped(p) == [p.dv EXCEPT !.remote = FALSE, !.info = NoConn]
           first == ConnectDriverExtension(d, noted, cs)
           Retry(p) == ConnectDriverExtension(d, dropped(p), p.cs)
<1>1. /\ noted \in DeviceRecords
      /\ noted.remote = dv.remote /\ noted.callers = dv.callers
  BY DEF AddDrvExtConnNotify, DeviceRecords
<1> HIDE DEF noted
<1>2. ASSUME NEW r \in {dv.remote, FALSE}, o.dv.remote = r, o.dv.callers = dv.callers,
             NEW c \in Conns, cs[c] = FreeConn,
             HeardIn(d, o.cs, "connecting") = HeardIn(d, cs, "connecting") \cup {c},
             HeardIn(d, o.cs, "connected") = HeardIn(d, cs, "connected")
      PROVE  OpenMove(s, SessionOf(d, o.dv, o.cs), cs)
  BY <1>2 DEF OpenMove, SessionOf, State
<1>3. CASE o \in first /\ o.ok
  <2>1. /\ o.dv.remote = dv.remote /\ o.dv.callers = dv.callers
        /\ \E c \in Conns :
             /\ cs[c] = FreeConn
             /\ HeardIn(d, o.cs, "connecting") = HeardIn(d, cs, "connecting") \cup {c}
             /\ HeardIn(d, o.cs, "connected") = HeardIn(d, cs, "connected")
    BY <1>1, <1>3, ConnectMoves
  <2> QED
    BY <1>2, <2>1 DEF Move
<1>4. ASSUME NEW p \in first, ~p.ok, o \in Retry(p)
      PROVE  Move(s, SessionOf(d, o.dv, o.cs), cs)
  <2>1. p.cs = cs /\ p.dv.callers = dv.callers
    BY <1>1, <1>4, ConnectMoves
  <2>2. p.dv \in DeviceRecords
    BY <1>1, ConnectOutcomes
  <2>3. /\ dropped(p) \in DeviceRecords
        /\ dropped(p).remote = FALSE /\ dropped(p).callers = dv.callers
    BY <2>1, <2>2 DEF DeviceRecords
  <2> HIDE DEF dropped
  <2>4. /\ o.dv.remote = FALSE /\ o.dv.callers = dv.callers
        /\ \/ o.cs = cs
           \/ \E c \in Conns :
                /\ cs[c] = FreeConn
                /\ HeardIn(d, o.cs, "connecting") = HeardIn(d, cs, "connecting") \cup {c}
                /\ HeardIn(d, o.cs, "connected") = HeardIn(d, cs, "connected")
    BY <1>4, <2>1, <2>3, ConnectMoves
  <2>5. CASE o.cs = cs
    BY <2>4, <2>5 DEF Move, DropMove, SessionOf, State
  <2> QED
    BY <1>2, <2>4, <2>5 DEF Move
<1>5. (o \in first /\ o.ok) \/ \E p \in first : ~p.ok /\ o \in Retry(p)
  BY DEF ConnectOnMatch, noted
<1> HIDE DEF first, Retry, s
<1> QED
  BY <1>3, <1>4, <1>5 DEF s

\* The notifier of d is gone: d hears of nothing, and no slot gets free.
LEMMA OrphanedHeard ==
  ASSUME NEW d \in Devices, NEW cs \in GoodConns
  PROVE  /\ \A phase : HeardIn(d, Orphaned(cs, d), phase) = {}
         /\ \A c \in Conns : Orphaned(cs, d)[c] = FreeConn => cs[c] = FreeConn
<1>1. \A c \in Conns : /\ Orphaned(cs, d)[c].dev = cs[c].dev
                       /\ cs[c].dev = d => ~Orphaned(cs, d)[c].notifies
                       /\ cs[c].dev # d => Orphaned(cs, d)[c] = cs[c]
  BY DEF Orphaned, GoodConns, Connections
<1> QED
  BY <1>1, DeviceAssumption DEF HeardIn, FreeConn

\* Connect(connectCallback, callingTokenId).
LEMMA BindMoves ==
  ASSUME NEW d \in Devices, NEW dv \in DeviceRecords, NEW cs \in GoodConns,
         NEW cl \in Clients, NEW o \in ConnectForClient(d, dv, cs, cl)
  PROVE  Move(SessionOf(d, dv, cs), SessionOf(d, o.dv, o.cs), cs)
<1> DEFINE reg == Stored(dv, cl)
           told == Told(reg, cl)
           noted == Asking(reg, cl)
           gone == Orphaned(cs, d)
           asked == ConnectDriverExtension(d, noted, gone)
           s == SessionOf(d, dv, cs)
           t == SessionOf(d, o.dv, o.cs)
<1>1. \/ o.dv = reg /\ o.cs = cs
      \/ dv.remote /\ o.dv = told /\ o.cs = cs
      \/ /\ ~dv.remote
         /\ \E q \in asked : \/ q.ok /\ o = q
                             \/ ~q.ok /\ o.dv = Undone(q.dv, cl) /\ o.cs = q.cs
  BY BindOutcomes
<1>2. /\ reg \in DeviceRecords
      /\ reg.remote = dv.remote /\ reg.callers = dv.callers
  BY CallbackTypes DEF Stored, DeviceRecords
<1> HIDE DEF reg
<1>3. CASE o.dv = reg /\ o.cs = cs
  BY <1>2, <1>3 DEF Move, SessionOf
<1>4. CASE dv.remote /\ o.dv = told /\ o.cs = cs
  <2>1. told.remote = dv.remote /\ told.callers = [dv.callers EXCEPT ![cl] = "bound"]
    BY <1>2 DEF Told, DeviceRecords
  <2> HIDE DEF told
  <2>2. TellMove(s, t)
    BY <1>4, <2>1 DEF TellMove, SessionOf, State
  <2> QED
    BY <2>2 DEF Move
<1>5. ASSUME ~dv.remote, NEW q \in asked,
             \/ q.ok /\ o = q
             \/ ~q.ok /\ o.dv = Undone(q.dv, cl) /\ o.cs = q.cs
      PROVE  Move(s, t, cs)
  <2>1. /\ noted \in DeviceRecords /\ noted.remote = dv.remote
        /\ noted.callers = [dv.callers EXCEPT ![cl] = "pending"]
    BY <1>2 DEF Asking, UpdateDrvExtConnNotify, DeviceRecords, CallerStates
  <2>2. gone \in GoodConns
    <3>1. Kept(d, reg, cs, Outcome(noted, gone, TRUE))
      BY <1>2, <1>5, NewNotifierKeeps DEF Asking
    <3> QED
      BY <3>1 DEF Kept, Outcome
  <2> HIDE DEF noted
  <2>3. /\ \A phase : HeardIn(d, gone, phase) = {}
        /\ \A c \in Conns : gone[c] = FreeConn => cs[c] = FreeConn
    BY OrphanedHeard
  <2> HIDE DEF gone
  <2>4. /\ q.dv.remote = noted.remote /\ q.dv.callers = noted.callers
        /\ \/ ~q.ok /\ q.cs = gone
           \/ /\ q.ok
              /\ \E c \in Conns :
                   /\ gone[c] = FreeConn
                   /\ HeardIn(d, q.cs, "connecting") = HeardIn(d, gone, "connecting") \cup {c}
                   /\ HeardIn(d, q.cs, "connected") = HeardIn(d, gone, "connected")
    BY <2>1, <2>2, ConnectMoves
  <2>5. CASE q.ok /\ o = q
    <3>1. PICK c \in Conns :
            /\ cs[c] = FreeConn
            /\ HeardIn(d, o.cs, "connecting") = {c} /\ HeardIn(d, o.cs, "connected") = {}
      BY <2>3, <2>4, <2>5
    <3>2. AskMove(s, t, cs)
      BY <1>5, <2>1, <2>4, <2>5, <3>1 DEF AskMove, SessionOf, State
    <3> QED
      BY <3>2 DEF Move
  <2>6. CASE ~q.ok /\ o.dv = Undone(q.dv, cl) /\ o.cs = q.cs
    <3>1. q.dv \in DeviceRecords
      BY <2>1, <2>2, ConnectOutcomes
    <3>2. /\ Undone(q.dv, cl).remote = q.dv.remote
          /\ Undone(q.dv, cl).callers = [q.dv.callers EXCEPT ![cl] = "none"]
      BY <3>1 DEF Undone, RemoveCaller, UnregisterDrvExtMgrCallback, DeviceRecords
    <3>3. [q.dv.callers EXCEPT ![cl] = "none"] = [dv.callers EXCEPT ![cl] = "none"]
      <4> DEFINE f == dv.callers
                 g == q.dv.callers
      <4>1. g = [f EXCEPT ![cl] = "pending"] /\ f \in [Clients -> CallerStates]
        BY <2>1, <2>4 DEF DeviceRecords
      <4> HIDE DEF f, g
      <4>2. [g EXCEPT ![cl] = "none"] = [f EXCEPT ![cl] = "none"]
        BY <4>1
      <4> QED
        BY <4>2 DEF f, g
    <3>4. /\ o.dv.remote = dv.remote
          /\ o.dv.callers = [dv.callers EXCEPT ![cl] = "none"]
          /\ HeardIn(d, o.cs, "connecting") = {} /\ HeardIn(d, o.cs, "connected") = {}
      BY <1>2, <2>1, <2>3, <2>4, <2>6, <3>2, <3>3
    <3>5. RefuseMove(s, t)
      BY <1>5, <3>4 DEF RefuseMove, SessionOf, State
    <3> QED
      BY <3>5 DEF Move
  <2> QED
    BY <1>5, <2>5, <2>6
<1> HIDE DEF told, asked, s, t
<1> QED
  BY <1>1, <1>3, <1>4, <1>5 DEF s, t

\* Disconnect: what the device is told of is the same until the connection ends.
LEMMA DisconnectMoves ==
  ASSUME NEW d, NEW dv \in DeviceRecords, NEW cs \in GoodConns, NEW o \in Disconnect(dv, cs)
  PROVE  o.dv = dv /\ SessionOf(d, o.dv, o.cs) = SessionOf(d, dv, cs)
<1>1. \/ o.dv = dv /\ o.cs = cs
      \/ /\ dv.info \in Conns /\ o.dv = dv
         /\ o.cs = [cs EXCEPT ![dv.info].closing = TRUE]
  BY DEF Disconnect, DisconnectDriverExtension, IfFaulty, Outcome
<1>2. CASE o.dv = dv /\ o.cs = cs
  BY <1>2
<1>3. CASE /\ dv.info \in Conns /\ o.dv = dv
           /\ o.cs = [cs EXCEPT ![dv.info].closing = TRUE]
  <2>1. \A c \in Conns \ {dv.info} : o.cs[c] = cs[c]
    BY <1>3 DEF GoodConns
  <2>2. cs[dv.info] \in Connections
    BY <1>3 DEF GoodConns
  <2>3. /\ o.cs[dv.info].dev = cs[dv.info].dev /\ o.cs[dv.info].phase = cs[dv.info].phase
        /\ o.cs[dv.info].notifies = cs[dv.info].notifies
    BY <1>3, <2>2 DEF GoodConns, Connections
  <2>4. \A c \in Conns : /\ o.cs[c].dev = cs[c].dev /\ o.cs[c].phase = cs[c].phase
                         /\ o.cs[c].notifies = cs[c].notifies
    BY <2>1, <2>3
  <2>5. \A phase : HeardIn(d, o.cs, phase) = HeardIn(d, cs, phase)
    BY <2>4 DEF HeardIn
  <2>6. o.dv = dv
    BY <1>3
  <2> QED
    BY <2>5, <2>6 DEF SessionOf
<1> QED
  BY <1>1, <1>2, <1>3

\* A matched device: its driver is connected unless it is launched on bind.
LEMMA ConnectMatchedMoves ==
  ASSUME NEW d \in Devices, NEW dv \in DeviceRecords, NEW cs \in GoodConns,
         NEW o \in ConnectMatched(d, dv, cs)
  PROVE  Move(SessionOf(d, dv, cs), SessionOf(d, o.dv, o.cs), cs)
<1>1. (o.dv = dv /\ o.cs = cs) \/ o \in ConnectOnMatch(d, dv, cs)
  BY DEF ConnectMatched, Outcome
<1> QED
  BY <1>1, ConnectOnMatchMoves DEF Move


-----------------------------------------------------------------------------
(***************************************************************************)
(* The actions.                                                            *)
(***************************************************************************)
Refined == [Sessions!Next]_mapped

\* No device is told of anything.
LEMMA SameRefined ==
  ASSUME \A d \in Devices : SessionOf(d, device'[d], conn') = SessionOf(d, device[d], conn)
  PROVE  Refined
BY MappedFacts DEF Refined

LEMMA QuietRefined ==
  ASSUME UNCHANGED device,
         \A d \in Devices : \A phase : HeardIn(d, conn', phase) = HeardIn(d, conn, phase)
  PROVE  Refined
BY SameRefined DEF SessionOf

LEMMA UnchangedRefined ==
  ASSUME UNCHANGED <<device, conn>>
  PROVE  Refined
BY SameRefined

LEMMA OneStoppedRefined ==
  ASSUME IInv, NEW d \in Devices, NEW nv, device' = [device EXCEPT ![d] = nv],
         NEW cs, Aside(d, conn, cs), \A c \in Conns : SameButClosing(cs[c], conn'[c]),
         Move(SessionOf(d, device[d], conn), SessionOf(d, nv, cs), conn)
  PROVE  Refined
<1>1. SessionOf(d, nv, conn') = SessionOf(d, nv, cs)
  BY DEF SessionOf, HeardIn, SameButClosing
<1> QED
  BY <1>1, OneMoves DEF Refined, IInv, TypeOK, AllGood

LEMMA OneRefined ==
  ASSUME IInv, NEW d \in Devices, NEW nv,
         device' = [device EXCEPT ![d] = nv], Aside(d, conn, conn'),
         Move(SessionOf(d, device[d], conn), SessionOf(d, nv, conn'), conn)
  PROVE  Refined
<1>1. \A c \in Conns : SameButClosing(conn'[c], conn'[c])
  BY DEF SameButClosing
<1> QED
  BY <1>1, OneStoppedRefined

LEMMA BindRefined ==
  ASSUME IInv, AllServed, NEW d \in Devices, NEW cl \in Clients, BindResult(d, cl)
  PROVE  Refined
<1>1. PICK o \in ConnectForClient(d, device[d], conn, cl) :
        device' = [device EXCEPT ![d] = o.dv] /\ conn' = o.cs
  BY DEF BindResult
<1>2. Aside(d, conn, o.cs)
  BY ServedFacts, ConnectForClientServes
<1>3. Move(SessionOf(d, device[d], conn), SessionOf(d, o.dv, o.cs), conn)
  BY ServedFacts, BindMoves
<1> QED
  BY <1>1, <1>2, <1>3, OneRefined

LEMMA UnbindRefined ==
  ASSUME IInv, AllServed, NEW d \in Devices, NEW cl \in Clients, UnbindResult(d, cl)
  PROVE  Refined
<1>1. CASE device' = [device EXCEPT ![d] = RemoveCaller(@, cl)] /\ UNCHANGED conn
  <2> DEFINE nv == RemoveCaller(device[d], cl)
  <2>1. nv.remote = device[d].remote /\ nv.callers = [device[d].callers EXCEPT ![cl] = "none"]
    BY ServedFacts DEF RemoveCaller, DeviceRecords
  <2>2. device' = [device EXCEPT ![d] = nv] /\ Aside(d, conn, conn')
    BY <1>1, ServedFacts
  <2> HIDE DEF nv
  <2>3. LeaveMove(SessionOf(d, device[d], conn), SessionOf(d, nv, conn'))
    BY <1>1, <2>1 DEF LeaveMove, SessionOf, State
  <2> QED
    BY <2>2, <2>3, OneRefined DEF Move
<1>2. CASE \E o \in Disconnect(device[d], conn) :
             device' = [device EXCEPT ![d] = o.dv] /\ conn' = o.cs
  <2>1. PICK o \in Disconnect(device[d], conn) :
          device' = [device EXCEPT ![d] = o.dv] /\ conn' = o.cs
    BY <1>2
  <2>2. Aside(d, conn, o.cs)
    BY ServedFacts, DisconnectServes
  <2>3. SessionOf(d, o.dv, o.cs) = SessionOf(d, device[d], conn)
    BY ServedFacts, DisconnectMoves
  <2> QED
    BY <2>1, <2>2, <2>3, OneRefined DEF Move
<1> QED
  BY <1>1, <1>2 DEF UnbindResult

LEMMA ClientRefined ==
  ASSUME IInv, AllServed, Client
  PROVE  Refined
<1>1. ASSUME NEW cl \in Clients, OnRemoteDied(cl)
      PROVE  Refined
  <2>1. /\ \A d \in Devices : device'[d] = UnregisterDrvExtMgrCallback(device[d], cl)
        /\ conn' = conn
    BY <1>1 DEF OnRemoteDied
  <2>2. \A d \in Devices : /\ device'[d].remote = device[d].remote
                           /\ device'[d].callers = device[d].callers
    BY <2>1, ServedFacts, CallbackServes
  <2> QED
    BY <2>1, <2>2, SameRefined DEF SessionOf
<1>2. \/ \E d \in Devices, cl \in Clients : BindResult(d, cl) \/ UnbindResult(d, cl)
      \/ \E cl \in Clients : OnRemoteDied(cl)
  BY DEF Client, ConnectDevice, ConnectDriverWithDeviceId, DisConnectDevice,
         DisConnectDriverWithDeviceId
<1> QED
  BY <1>1, <1>2, BindRefined, UnbindRefined

LEMMA OnConnectDoneRefined ==
  ASSUME IInv, AllServed, NEW c \in Conns, NEW ok \in BOOLEAN, OnConnectDone(c, ok)
  PROVE  Refined
<1> DEFINE d == conn[c].dev
           up == [conn[c] EXCEPT !.phase = "connected"]
<1>1. /\ conn \in GoodConns /\ conn[c] \in Connections /\ d \in Devices
      /\ conn' = [conn EXCEPT ![c] = IF ok THEN up ELSE FreeConn]
      /\ conn[c].phase = "connecting"
  BY ConnFacts DEF IInv, AllGood, GoodConns, OnConnectDone
<1>2. /\ conn'[c] = IF ok THEN up ELSE FreeConn
      /\ \A b \in Conns \ {c} : conn'[b] = conn[b]
  BY <1>1 DEF GoodConns
<1>3. up.dev = d /\ up.notifies = conn[c].notifies /\ up.phase = "connected"
  BY <1>1 DEF Connections
<1>4. FreeConn.dev = NoDevice /\ ~FreeConn.notifies
  BY DEF FreeConn
<1> HIDE DEF up
<1>5. CASE ~conn[c].notifies
  <2>1. \A e \in Devices : \A phase : HeardIn(e, conn', phase) = HeardIn(e, conn, phase)
    BY <1>2, <1>3, <1>4, <1>5 DEF HeardIn
  <2> QED
    BY <1>5, <2>1, QuietRefined DEF OnConnectDone
<1>6. CASE conn[c].notifies
  <2> DEFINE dv == device[d]
             lost == IF ok THEN dv ELSE LostInfo(dv, c)
             nv == OnConnect(lost, ok)
             s == SessionOf(d, dv, conn)
             t == SessionOf(d, nv, conn')
  <2>1. device' = [device EXCEPT ![d] = nv]
    BY <1>6 DEF OnConnectDone, IInv, TypeOK
  <2>2. dv \in DeviceRecords
    BY <1>1, ServedFacts
  <2>3. lost \in DeviceRecords /\ lost.callers = dv.callers
    BY <2>2 DEF LostInfo, DeviceRecords
  <2> HIDE DEF lost
  <2>4. /\ nv.remote = ok
        /\ nv.callers = [cl \in Clients |-> IF dv.callers[cl] = "none" THEN "none" ELSE "bound"]
    BY <2>3 DEF OnConnect, DeviceRecords
  <2> HIDE DEF nv, dv
  <2>5. /\ c \in HeardIn(d, conn, "connecting")
        /\ HeardIn(d, conn', "connecting") = HeardIn(d, conn, "connecting") \ {c}
        /\ HeardIn(d, conn', "connected")
             = IF ok THEN HeardIn(d, conn, "connected") \cup {c} ELSE HeardIn(d, conn, "connected")
    <3>1. /\ c \in HeardIn(d, conn, "connecting")
          /\ HeardIn(d, conn', "connecting") = HeardIn(d, conn, "connecting") \ {c}
      BY <1>1, <1>2, <1>3, <1>4, <1>6 DEF HeardIn
    <3>2. ok => HeardIn(d, conn', "connected") = HeardIn(d, conn, "connected") \cup {c}
      BY <1>1, <1>2, <1>3, <1>6 DEF HeardIn
    <3>3. ~ok => HeardIn(d, conn', "connected") = HeardIn(d, conn, "connected")
      BY <1>1, <1>2, <1>4 DEF HeardIn
    <3> QED
      BY <3>1, <3>2, <3>3
  <2>6. Aside(d, conn, conn')
    BY <1>2, <1>3, <1>4 DEF Aside
  <2> HIDE DEF d
  <2>7. AnswerMove(s, t)
    BY <2>4, <2>5 DEF AnswerMove, SessionOf, State
  <2> QED
    BY <1>1, <2>1, <2>6, <2>7, OneRefined DEF Move, dv
<1> QED
  BY <1>5, <1>6

\* The Device object of d is erased, and so is its notifier.
LEMMA EraseRefined ==
  ASSUME IInv, NEW d \in Devices, device' = [device EXCEPT ![d] = FreshDevice],
         NEW cs \in GoodConns, Aside(d, conn, cs),
         NEW next \in GoodConns, \A c \in Conns : SameButClosing(cs[c], next[c]),
         conn' = Orphaned(next, d)
  PROVE  Refined
<1> DEFINE gone == Orphaned(cs, d)
<1>1. \A phase : HeardIn(d, gone, phase) = {}
  BY OrphanedHeard
<1>2. Aside(d, conn, gone)
  <2>1. Aside(d, cs, gone)
    BY OrphanedReports
  <2> QED
    BY <2>1 DEF Aside
<1>3. \A c \in Conns : SameButClosing(gone[c], conn'[c])
  <2> SUFFICES ASSUME NEW c \in Conns PROVE SameButClosing(gone[c], conn'[c])
    OBVIOUS
  <2>1. cs[c] \in Connections /\ next[c] \in Connections /\ SameButClosing(cs[c], next[c])
    BY DEF GoodConns
  <2>2. gone[c] = IF cs[c].dev = d THEN [cs[c] EXCEPT !.notifies = FALSE] ELSE cs[c]
    BY DEF Orphaned
  <2>3. conn'[c] = IF next[c].dev = d THEN [next[c] EXCEPT !.notifies = FALSE] ELSE next[c]
    BY DEF Orphaned
  <2> HIDE DEF gone
  <2>4. CASE cs[c].dev = d
    BY <2>1, <2>2, <2>3, <2>4 DEF SameButClosing, Connections
  <2>5. CASE cs[c].dev # d
    BY <2>1, <2>2, <2>3, <2>5 DEF SameButClosing
  <2> QED
    BY <2>4, <2>5
<1> HIDE DEF gone
<1>4. ~FreshDevice.remote /\ FreshDevice.remote \in BOOLEAN /\ FreshDevice.callers = NoCallers
  BY DEF FreshDevice
<1>5. EraseMove(SessionOf(d, FreshDevice, gone))
  BY <1>1, <1>4 DEF EraseMove, SessionOf, State
<1> QED
  BY <1>2, <1>3, <1>5, OneStoppedRefined DEF Move

LEMMA OnDisconnectDoneRefined ==
  ASSUME IInv, AllServed, NEW c \in Conns, OnDisconnectDone(c)
  PROVE  Refined
<1> DEFINE d == conn[c].dev
           freed == [conn EXCEPT ![c] = FreeConn]
           dv == device[d]
           nv == OnDisconnect(dv)
<1>1. /\ conn \in GoodConns /\ conn[c] \in Connections /\ d \in Devices
      /\ dv \in DeviceRecords /\ conn[c].phase \in {"connecting", "connected"}
  BY ConnFacts, ServedFacts DEF IInv, AllGood, GoodConns, OnDisconnectDone
<1>2. /\ freed \in GoodConns /\ freed[c] = FreeConn
      /\ \A b \in Conns \ {c} : freed[b] = conn[b]
  BY <1>1, FreedConn
<1>3. FreeConn.dev = NoDevice /\ ~FreeConn.notifies
  BY DEF FreeConn
<1> DEFINE r == dv.bundleInfo
<1>4. \/ /\ \E cs \in StopDriverExtension(freed, r) : conn' = Orphaned(cs, d)
         /\ device' = [device EXCEPT ![d] = FreshDevice]
      \/ /\ conn' \in StopDriverExtension(freed, r)
         /\ conn[c].notifies /\ device' = [device EXCEPT ![d] = nv]
      \/ conn' = freed /\ ~conn[c].notifies /\ device' = device
  BY DEF OnDisconnectDone
<1>5. nv.remote = FALSE /\ nv.callers = NoCallers
  BY <1>1 DEF OnDisconnect, DeviceRecords
<1> HIDE DEF freed, nv
<1>6. Aside(d, conn, freed)
  BY <1>2, <1>3 DEF Aside
<1>7. ASSUME NEW cs \in StopDriverExtension(freed, r), conn' = Orphaned(cs, d),
             device' = [device EXCEPT ![d] = FreshDevice]
      PROVE  Refined
  <2>1. cs \in GoodConns /\ \A b \in Conns : SameButClosing(freed[b], cs[b])
    BY <1>2, StopKeeps
  <2> HIDE DEF d
  <2> QED
    BY <1>1, <1>2, <1>6, <1>7, <2>1, EraseRefined
<1>8. CASE conn' = freed /\ ~conn[c].notifies /\ device' = device
  <2>1. \A e \in Devices : \A phase : HeardIn(e, conn', phase) = HeardIn(e, conn, phase)
    BY <1>2, <1>3, <1>8 DEF HeardIn
  <2> QED
    BY <1>8, <2>1, QuietRefined
<1>9. CASE /\ conn' \in StopDriverExtension(freed, r)
           /\ conn[c].notifies /\ device' = [device EXCEPT ![d] = nv]
  <2>1. /\ c \in HeardIn(d, conn, "connecting") \cup HeardIn(d, conn, "connected")
        /\ \A phase : HeardIn(d, freed, phase) = HeardIn(d, conn, phase) \ {c}
    BY <1>1, <1>2, <1>3, <1>9 DEF HeardIn
  <2>2. \A b \in Conns : SameButClosing(freed[b], conn'[b])
    BY <1>2, <1>9, StopKeeps
  <2> HIDE DEF d, dv
  <2>3. EndMove(SessionOf(d, dv, conn), SessionOf(d, nv, freed))
    BY <1>5, <2>1 DEF EndMove, SessionOf, State
  <2> QED
    BY <1>1, <1>6, <1>9, <2>2, <2>3, OneStoppedRefined DEF Move, dv
<1> QED
  BY <1>4, <1>7, <1>8, <1>9

\* A device is entered into the match table, as it was or with a driver added.
LEMMA AddDevIdRefined ==
  ASSUME IInv, AllServed, NEW d \in Devices, NEW dv \in DeviceRecords,
         dv.bundleInfo \in Drivers, Own(d, dv, conn), Served(d, dv, conn),
         dv.remote = device[d].remote, dv.callers = device[d].callers,
         AddDevIdOfBundleInfoMap(d, dv)
  PROVE  Refined
<1>1. PICK o \in ConnectMatched(d, dv, conn) :
        device' = [device EXCEPT ![d] = o.dv] /\ conn' = o.cs
  BY DEF AddDevIdOfBundleInfoMap
<1>2. Aside(d, conn, o.cs)
  BY ServedFacts, ConnectMatchedServes
<1>3. Move(SessionOf(d, dv, conn), SessionOf(d, o.dv, o.cs), conn)
  BY ServedFacts, ConnectMatchedMoves
<1>4. SessionOf(d, dv, conn) = SessionOf(d, device[d], conn)
  BY DEF SessionOf
<1> QED
  BY <1>1, <1>2, <1>3, <1>4, OneRefined

LEMMA ResetRefined ==
  ASSUME IInv, AllServed, NEW d \in Devices,
         device' = [device EXCEPT ![d] =
                      RemoveDriverInfo(ClearDrvExtRemote(RemoveBundleInfo(@)))],
         \A c \in Conns : SameButClosing(conn[c], conn'[c])
  PROVE  Refined
<1> DEFINE nv == RemoveDriverInfo(ClearDrvExtRemote(RemoveBundleInfo(device[d])))
<1>1. nv.remote = FALSE /\ nv.callers = device[d].callers
  BY ServedFacts DEF RemoveDriverInfo, ClearDrvExtRemote, RemoveBundleInfo, DeviceRecords
<1>2. device' = [device EXCEPT ![d] = nv] /\ Aside(d, conn, conn)
  BY ServedFacts
<1> HIDE DEF nv
<1>3. DropMove(SessionOf(d, device[d], conn), SessionOf(d, nv, conn))
  BY <1>1 DEF DropMove, SessionOf, State
<1> QED
  BY <1>2, <1>3, OneStoppedRefined DEF Move

\* A driver is found for a device: no client is told before it is connected.
LEMMA AddBundleInfoSame ==
  ASSUME NEW dv \in DeviceRecords, NEW row
  PROVE  LET nv == AddBundleInfo(dv, row)
         IN  nv.remote = dv.remote /\ nv.callers = dv.callers
BY DEF AddBundleInfo, DeviceRecords

LEMMA RegisterDeviceRefined ==
  ASSUME IInv, AllServed, NEW d \in Devices, RegisterDevice(d)
  PROVE  Refined
<1>1. conn' = conn
  BY DEF RegisterDevice
<1>2. CASE device' = device
  BY <1>1, <1>2, UnchangedRefined
<1>3. ASSUME NEW row, device' = [device EXCEPT ![d] = AddBundleInfo(@, row)]
      PROVE  Refined
  <2> DEFINE nv == AddBundleInfo(device[d], row)
  <2>1. nv.remote = device[d].remote /\ nv.callers = device[d].callers
    BY ServedFacts, AddBundleInfoSame
  <2>2. device' = [device EXCEPT ![d] = nv] /\ Aside(d, conn, conn')
    BY <1>1, <1>3, ServedFacts
  <2> HIDE DEF nv
  <2> QED
    BY <1>1, <2>1, <2>2, OneRefined DEF Move, SessionOf
<1> QED
  BY <1>2, <1>3 DEF RegisterDevice

LEMMA FinishUnRegisterRefined ==
  ASSUME IInv, AllServed, FinishUnRegister
  PROVE  Refined
<1> DEFINE d  == bus.dev
           b  == bus.bundleInfo
           dv == IF bus.remote THEN UnRegist(device[d]) ELSE device[d]
           removed == IF b = NoDriver THEN {Outcome(dv, conn, TRUE)}
                      ELSE DisconnectUnmatched(dv, b)
<1>1. /\ d \in Devices /\ device[d] \in DeviceRecords
      /\ conn \in GoodConns /\ Own(d, device[d], conn)
  BY ServedFacts DEF IInv, FinishUnRegister, BusOK
<1>2. /\ dv \in DeviceRecords /\ Own(d, dv, conn)
      /\ dv.remote = device[d].remote /\ dv.callers = device[d].callers
  <2> DEFINE nv == UnRegist(device[d])
  <2>1. /\ nv \in DeviceRecords
        /\ nv.remote = device[d].remote /\ nv.callers = device[d].callers
        /\ nv.notifier = device[d].notifier /\ nv.info = device[d].info
    BY <1>1 DEF UnRegist, DeviceRecords
  <2> HIDE DEF nv
  <2>2. Own(d, nv, conn)
    BY <1>1, <2>1 DEF Own
  <2> QED
    BY <1>1, <2>1, <2>2 DEF nv
<1> HIDE DEF dv
<1>3. PICK o \in removed :
        \/ device' = [device EXCEPT ![d] = o.dv] /\ conn' = o.cs
        \/ device' = [device EXCEPT ![d] = FreshDevice] /\ conn' = Orphaned(o.cs, d)
  BY DEF FinishUnRegister, dv
<1>4. /\ SessionOf(d, o.dv, o.cs) = SessionOf(d, device[d], conn)
      /\ Aside(d, conn, o.cs) /\ o.cs \in GoodConns
  <2>1. \/ o.dv = dv /\ o.cs = conn
        \/ \E p \in Disconnect(dv, conn) :
             \/ o.dv = p.dv /\ o.cs = p.cs
             \/ o = [p EXCEPT !.dv = RemoveDriverInfo(p.dv)]
    BY DEF DisconnectUnmatched, Outcome
  <2>2. CASE o.dv = dv /\ o.cs = conn
    BY <1>1, <1>2, <2>2 DEF Aside, SessionOf
  <2>3. ASSUME NEW p \in Disconnect(dv, conn),
               \/ o.dv = p.dv /\ o.cs = p.cs
               \/ o = [p EXCEPT !.dv = RemoveDriverInfo(p.dv)]
        PROVE  /\ SessionOf(d, o.dv, o.cs) = SessionOf(d, device[d], conn)
               /\ Aside(d, conn, o.cs) /\ o.cs \in GoodConns
    <3> DEFINE nv == RemoveDriverInfo(dv)
    <3>1. p.dv = dv /\ SessionOf(d, dv, p.cs) = SessionOf(d, dv, conn)
      BY <1>1, <1>2, DisconnectMoves
    <3>2. Aside(d, conn, p.cs) /\ p.cs \in GoodConns
      BY <1>1, <1>2, DisconnectServes, DisconnectKeeps DEF Kept
    <3>3. o.dv \in {dv, nv} /\ o.cs = p.cs
      <4>1. \E cs2, ok : p = Outcome(dv, cs2, ok)
        BY <3>1 DEF Disconnect, DisconnectDriverExtension, IfFaulty
      <4> QED
        BY <2>3, <3>1, <4>1 DEF Outcome
    <3>4. nv.remote = dv.remote /\ nv.callers = dv.callers
      BY <1>2 DEF RemoveDriverInfo, DeviceRecords
    <3> HIDE DEF nv
    <3>5. SessionOf(d, o.dv, o.cs) = SessionOf(d, device[d], conn)
      BY <1>2, <3>1, <3>3, <3>4 DEF SessionOf
    <3> QED
      BY <3>2, <3>3, <3>5
  <2> QED
    BY <2>1, <2>2, <2>3
<1> HIDE DEF d
<1>5. CASE device' = [device EXCEPT ![d] = o.dv] /\ conn' = o.cs
  BY <1>1, <1>4, <1>5, OneRefined DEF Move
<1>6. CASE device' = [device EXCEPT ![d] = FreshDevice] /\ conn' = Orphaned(o.cs, d)
  <2>1. \A c \in Conns : SameButClosing(o.cs[c], o.cs[c])
    BY DEF SameButClosing
  <2> QED
    BY <1>1, <1>4, <1>6, <2>1, EraseRefined
<1> QED
  BY <1>3, <1>5, <1>6

LEMMA BusRefined ==
  ASSUME IInv, AllServed, Bus
  PROVE  Refined
<1>1. ASSUME NEW d \in Devices, UnRegisterDevice(d)
      PROVE  Refined
  BY <1>1, UnchangedRefined DEF UnRegisterDevice
<1>2. CASE FinishRegister
  <2> DEFINE d == bus.dev
  <2>1. d \in Devices
    BY <1>2 DEF IInv, BusOK, FinishRegister
  <2>2. CASE UNCHANGED <<device, conn>>
    BY <2>2, UnchangedRefined
  <2>3. CASE device[d].bundleInfo # NoDriver /\ AddDevIdOfBundleInfoMap(d, device[d])
    <3>1. /\ device[d] \in DeviceRecords /\ device[d].bundleInfo \in Drivers
          /\ Own(d, device[d], conn) /\ Served(d, device[d], conn)
      BY <2>1, <2>3, ServedFacts DEF DeviceRecords
    <3> HIDE DEF d
    <3> QED
      BY <2>1, <2>3, <3>1, AddDevIdRefined
  <2> QED
    BY <1>2, <2>2, <2>3 DEF FinishRegister
<1> QED
  BY <1>1, <1>2, RegisterDeviceRefined, FinishUnRegisterRefined DEF Bus

LEMMA ThreadRefined ==
  ASSUME IInv, AllServed, NEW t \in Threads, Thread(t)
  PROVE  Refined
<1>1. ASSUME NEW d \in Devices, ResetDevice(t, d)
      PROVE  Refined
  BY <1>1, ResetRefined DEF ResetDevice, SameButClosing
<1>2. ASSUME NEW d \in Devices, ClearDevice(t, d)
      PROVE  Refined
  <2>1. CASE UNCHANGED <<device, conn>>
    BY <2>1, UnchangedRefined
  <2>2. CASE /\ device' = [device EXCEPT ![d] =
                             RemoveDriverInfo(ClearDrvExtRemote(RemoveBundleInfo(@)))]
             /\ conn' \in StopDriverExtension(conn, device[d].driverInfo.drv)
    <3>1. \A c \in Conns : SameButClosing(conn[c], conn'[c])
      BY <2>2, ServedFacts, StopKeeps
    <3> QED
      BY <2>2, <3>1, ResetRefined
  <2> QED
    BY <1>2, <2>1, <2>2 DEF ClearDevice
<1>3. ASSUME NEW d \in Devices, MatchDevice(t, d)
      PROVE  Refined
  <2>1. CASE UNCHANGED <<device, conn>>
    BY <2>1, UnchangedRefined
  <2>2. ASSUME NEW q \in QueryMatchDriver(d), q.row # NoDriver,
               AddDevIdOfBundleInfoMap(d, AddBundleInfo(device[d], q.row))
        PROVE  Refined
    <3> DEFINE nv == AddBundleInfo(device[d], q.row)
    <3>1. q.row \in DriverRows
      BY <2>2, QueryMatchDriverTypes DEF IInv
    <3>2. /\ nv \in DeviceRecords /\ nv.bundleInfo \in Drivers
          /\ Kept(d, device[d], conn, Outcome(nv, conn, TRUE))
      BY <3>1, ServedFacts, AddBundleInfoKeeps
    <3>3. Own(d, nv, conn)
      BY <3>2 DEF Kept, Outcome
    <3>4. Served(d, nv, conn)
      BY <3>1, ServedFacts, AddBundleInfoServes
    <3>5. nv.remote = device[d].remote /\ nv.callers = device[d].callers
      BY ServedFacts, AddBundleInfoSame
    <3>6. AddDevIdOfBundleInfoMap(d, nv)
      BY <2>2
    <3> HIDE DEF nv
    <3> QED
      BY <3>2, <3>3, <3>4, <3>5, <3>6, AddDevIdRefined
  <2> QED
    BY <1>3, <2>1, <2>2 DEF MatchDevice
<1>4. CASE \/ GetAllDriverInfosAsync(t) \/ UpdateBundle(t)
           \/ DeleteBundlesOfBundleInfoMap(t) \/ LockDeviceMap(t) \/ ClearEnd(t)
  <2>1. UNCHANGED <<device, conn>>
    BY <1>4 DEF GetAllDriverInfosAsync, UpdateBundle, DeleteBundlesOfBundleInfoMap, LockDeviceMap, ClearEnd
  <2> QED
    BY <2>1, UnchangedRefined
<1> QED
  BY <1>1, <1>2, <1>3, <1>4 DEF Thread

\* No device, no connection: everybody's session is blank.
LEMMA BlankSessions ==
  ASSUME NEW d \in Devices, NEW cs, \A c \in Conns : cs[c] = FreeConn
  PROVE  SessionOf(d, FreshDevice, cs) = Sessions!Blank
<1>1. \A phase : HeardIn(d, cs, phase) = {}
  BY DEF HeardIn, FreeConn
<1>2. FreshDevice.remote = FALSE /\ FreshDevice.callers = NoCallers
  BY DEF FreshDevice
<1> QED
  BY <1>1, <1>2
     DEF SessionOf, State, Sessions!Blank, Sessions!State, Sessions!NoCallers, NoCallers

LEMMA ProcessRefined ==
  ASSUME IInv, AllServed, Process
  PROVE  Refined
<1>1. CASE TimerFires \/ OnStart
  BY <1>1, UnchangedRefined DEF TimerFires, OnStart
<1>2. CASE OnStop
  <2>1. /\ device' = [d \in Devices |-> FreshDevice]
        /\ conn' = [c \in Conns |-> FreeConn]
    BY <1>2 DEF OnStop, Blank
  <2>2. \A d \in Devices : SessionOf(d, device'[d], conn') = Sessions!Blank
    BY <2>1, BlankSessions
  <2>3. mapped' = [d \in Devices |-> Sessions!Blank]
    BY <2>2, MappedFacts
  <2>4. Sessions!Stop
    BY <2>3 DEF Sessions!Stop, mapped
  <2> QED
    BY <2>4 DEF Refined, Sessions!Next
<1> QED
  BY <1>1, <1>2 DEF Process

LEMMA NextRefined ==
  ASSUME IInv, AllServed, [Next]_vars
  PROVE  Refined
<1>1. CASE AbilityManager
  BY <1>1, OnConnectDoneRefined, OnDisconnectDoneRefined DEF AbilityManager
<1>2. CASE Packages
  BY <1>2, UnchangedRefined DEF Packages, OnBundleChanged
<1>3. CASE Accounts
  BY <1>3, UnchangedRefined DEF Accounts, OnAccountsSwitching, ForegroundChanges,
    OnAccountsSwitched
<1>4. CASE UNCHANGED vars
  BY <1>4, UnchangedRefined DEF vars
<1> QED
  BY <1>1, <1>2, <1>3, <1>4, BusRefined, ClientRefined, ThreadRefined, ProcessRefined DEF Next

LEMMA InitRefined == Init => Sessions!Init
<1> SUFFICES ASSUME Init PROVE Sessions!Init
  OBVIOUS
<1>1. \A d \in Devices : SessionOf(d, device[d], conn) = Sessions!Blank
  BY BlankSessions DEF Init
<1>2. mapped = [d \in Devices |-> Sessions!Blank]
  BY <1>1, MappedFacts
<1> QED
  BY <1>2 DEF Sessions!Init, mapped

-----------------------------------------------------------------------------
(***************************************************************************)
(* The theorem.                                                            *)
(***************************************************************************)
\* The device manager implements DriverSessions: whatever the bus, the package
\* threads and the other clients do between a bind, the ability manager's
\* answer (device.cpp:177) and the end of the driver (device.cpp:198), the
\* clients of a device are told of its driver and forgotten together, and a
\* call counts for the one device that asked for it.
THEOREM SessionsImplemented == Spec => SessionSpec
<1>1. IInv /\ AllServed /\ [Next]_vars => [Sessions!Next]_mapped
  BY NextRefined DEF Refined
<1> QED
  BY <1>1, InitRefined, ServedInvariance, PTL DEF Spec, SessionSpec, Sessions!Spec, mapped

==============================================================================
