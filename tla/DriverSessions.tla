--------------------------- MODULE DriverSessions ---------------------------
(***************************************************************************)
(* What the driver extension manager promises its clients about the driver *)
(* of a device, without the bus, the match table, the package threads, the *)
(* locks and the notifiers that bring it about.  A device has one session: *)
(* the remote object it hands out, the clients that wait for it or were    *)
(* told of it, and the calls to the ability manager it listens to.         *)
(* ExtDeviceManager implements this module.                                *)
(*                                                                         *)
(* A client is told of the driver at once, or with all the others that     *)
(* wait when a call is answered; it is forgotten by its own request, by    *)
(* its own refused bind, or together with everybody else when the driver   *)
(* or the device is gone; and the remote object is the driver's of the     *)
(* call that was answered last.                                            *)
(***************************************************************************)
CONSTANTS
  Devices,
  Clients,
  Calls       \* calls to the ability manager: connections asked for

VARIABLE session

NoCallers == [cl \in Clients |-> "none"]

State(remote, callers, opening, up) ==
  [remote |-> remote, callers |-> callers, opening |-> opening, up |-> up]

Blank == State(FALSE, NoCallers, {}, {})

\* The calls no device listens to.
Free == {c \in Calls : \A d \in Devices : c \notin session[d].opening \cup session[d].up}

Becomes(d, s) == session' = [session EXCEPT ![d] = s]

Init == session = [d \in Devices |-> Blank]

-----------------------------------------------------------------------------
\* The driver is connected: the client is told of it.
Tell(d, cl) ==
  LET s == session[d] IN
  /\ s.remote
  /\ Becomes(d, State(s.remote, [s.callers EXCEPT ![cl] = "bound"], s.opening, s.up))

\* It is not: the client waits for a new call, the only one that counts.
Ask(d, cl) ==
  LET s == session[d] IN
  /\ ~s.remote
  /\ \E c \in Free :
       Becomes(d, State(s.remote, [s.callers EXCEPT ![cl] = "pending"], {c}, {}))

\* The call was refused: only the client that asked is forgotten.
Refuse(d, cl) ==
  LET s == session[d] IN
  /\ ~s.remote
  /\ Becomes(d, State(s.remote, [s.callers EXCEPT ![cl] = "none"], {}, {}))

\* A client gives its binding up.
Leave(d, cl) ==
  LET s == session[d] IN
  Becomes(d, State(s.remote, [s.callers EXCEPT ![cl] = "none"], s.opening, s.up))

\* The driver is connected for the device itself.
Open(d) ==
  LET s == session[d] IN
  \E c \in Free, r \in {s.remote, FALSE} :
    Becomes(d, State(r, s.callers, s.opening \cup {c}, s.up))

\* The device is given another driver: nobody is told.
Drop(d) ==
  LET s == session[d] IN Becomes(d, State(FALSE, s.callers, s.opening, s.up))

\* A call is answered: everybody who waits is told, also of a failure.
Answer(d, c, ok) ==
  LET s == session[d] IN
  /\ c \in s.opening
  /\ Becomes(d, State(ok,
                      [cl \in Clients |-> IF s.callers[cl] = "none" THEN "none" ELSE "bound"],
                      s.opening \ {c},
                      IF ok THEN s.up \cup {c} ELSE s.up))

\* The driver is gone: so are its remote object and all its clients.
End(d, c) ==
  LET s == session[d] IN
  /\ c \in s.opening \cup s.up
  /\ Becomes(d, State(FALSE, NoCallers, s.opening \ {c}, s.up \ {c}))

\* The Device object is gone.
Erase(d) == Becomes(d, Blank)

\* The service process ends.
Stop == session' = [d \in Devices |-> Blank]

Next ==
  \/ \E d \in Devices : Drop(d)
  \/ \E d \in Devices, cl \in Clients : Leave(d, cl) \/ Tell(d, cl) \/ Ask(d, cl) \/ Refuse(d, cl)
  \/ \E d \in Devices, c \in Calls : End(d, c) \/ \E ok \in BOOLEAN : Answer(d, c, ok)
  \/ \E d \in Devices : Open(d) \/ Erase(d)
  \/ Stop

Spec == Init /\ [][Next]_session

-----------------------------------------------------------------------------
\* What follows from the promise alone: a remote object is only handed out
\* while the driver it belongs to is connected, and every call counts for one
\* device.
Backed ==
  \A d \in Devices :
    /\ session[d].remote => session[d].up # {}
    /\ session[d].opening \cap session[d].up = {}
    /\ \A e \in Devices \ {d} :
         (session[d].opening \cup session[d].up)
           \cap (session[e].opening \cup session[e].up) = {}
=============================================================================
