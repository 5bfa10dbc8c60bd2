------------------------- MODULE DriverSessionsProofs -------------------------
(***************************************************************************)
(* What the promise of DriverSessions implies by itself, and so for every  *)
(* implementation of it: see Backed.                                       *)
(*                                                                         *)
(* The argument.  Backed speaks of one device (Sound) and of two (Apart).  *)
(* A step replaces one session (Becomes); it keeps both when the new       *)
(* session is sound and listens to no call that it did not listen to       *)
(* before, except for one that nobody listens to.                          *)
(***************************************************************************)
EXTENDS DriverSessions, TLAPS

States == [remote : BOOLEAN, callers : [Clients -> {"none", "pending", "bound"}],
           opening : SUBSET Calls, up : SUBSET Calls]

TypeInv == session \in [Devices -> States]

\* The calls a session listens to.
Listens(s) == s.opening \cup s.up

Sound(s)    == (s.remote => s.up # {}) /\ s.opening \cap s.up = {}
Apart(s, t) == Listens(s) \cap Listens(t) = {}

IInv == TypeInv /\ Backed

LEMMA BackedFacts ==
  ASSUME IInv, NEW d \in Devices
  PROVE  /\ session[d] \in States /\ Sound(session[d])
         /\ \A e \in Devices \ {d} : Apart(session[d], session[e])
BY DEF IInv, TypeInv, Backed, Sound, Apart, Listens

LEMMA StateFields ==
  ASSUME NEW r, NEW cs, NEW o, NEW u
  PROVE  /\ State(r, cs, o, u).remote = r /\ State(r, cs, o, u).callers = cs
         /\ State(r, cs, o, u).opening = o /\ State(r, cs, o, u).up = u
BY DEF State

\* One session is replaced.
LEMMA BecomesKeeps ==
  ASSUME IInv, NEW d \in Devices, NEW s \in States, Becomes(d, s), Sound(s),
         Listens(s) \subseteq Listens(session[d]) \cup Free
  PROVE  IInv'
<1>1. /\ session' \in [Devices -> States]
      /\ session'[d] = s /\ \A e \in Devices \ {d} : session'[e] = session[e]
  BY DEF IInv, TypeInv, Becomes
<1>2. \A e \in Devices : Sound(session'[e])
  BY <1>1, BackedFacts
<1>3. ASSUME NEW e \in Devices \ {d}
      PROVE  Apart(s, session[e])
  BY BackedFacts DEF Apart, Listens, Free
<1>4. \A e \in Devices : \A f \in Devices \ {e} : Apart(session'[e], session'[f])
  <2> SUFFICES ASSUME NEW e \in Devices, NEW f \in Devices \ {e}
               PROVE  Apart(session'[e], session'[f])
    OBVIOUS
  <2>1. CASE e = d
    BY <1>1, <1>3, <2>1
  <2>2. CASE f = d
    BY <1>1, <1>3, <2>2 DEF Apart
  <2>3. CASE e # d /\ f # d
    BY <1>1, <2>3, BackedFacts
  <2> QED
    BY <2>1, <2>2, <2>3
<1> QED
  BY <1>1, <1>2, <1>4 DEF IInv, TypeInv, Backed, Sound, Apart, Listens

LEMMA StateTypes ==
  ASSUME NEW r \in BOOLEAN, NEW cs \in [Clients -> {"none", "pending", "bound"}],
         NEW o \in SUBSET Calls, NEW u \in SUBSET Calls
  PROVE  State(r, cs, o, u) \in States
BY DEF State, States

LEMMA BlankFacts == Blank \in States /\ Sound(Blank) /\ Listens(Blank) = {}
<1> DEFINE none == NoCallers
<1>1. none \in [Clients -> {"none", "pending", "bound"}]
  BY DEF NoCallers
<1>2. Blank = State(FALSE, none, {}, {})
  BY DEF Blank
<1> HIDE DEF none
<1>3. State(FALSE, none, {}, {}) \in States
  BY <1>1, StateTypes
<1>4. ~Blank.remote /\ Blank.opening = {} /\ Blank.up = {}
  BY <1>2 DEF State
<1> QED
  BY <1>2, <1>3, <1>4 DEF Sound, Listens

LEMMA NextKeeps ==
  ASSUME IInv, [Next]_session
  PROVE  IInv'
<1>1. CASE UNCHANGED session
  BY <1>1 DEF IInv, TypeInv, Backed
<1>2. ASSUME NEW d \in Devices, NEW cl \in Clients,
             Leave(d, cl) \/ Tell(d, cl) \/ Ask(d, cl) \/ Refuse(d, cl)
      PROVE  IInv'
  <2> DEFINE s == session[d]
             to(v) == [s.callers EXCEPT ![cl] = v]
  <2>1. s \in States /\ Sound(s)
    BY BackedFacts
  <2>2. /\ s.remote \in BOOLEAN /\ s.opening \in SUBSET Calls /\ s.up \in SUBSET Calls
        /\ \A v \in {"none", "pending", "bound"} :
             to(v) \in [Clients -> {"none", "pending", "bound"}]
    BY <2>1 DEF States
  <2>3. ASSUME NEW v \in {"none", "bound"}, Becomes(d, State(s.remote, to(v), s.opening, s.up))
        PROVE  IInv'
    <3> DEFINE t == State(s.remote, to(v), s.opening, s.up)
    <3>1. t \in States
      BY <2>2, StateTypes
    <3>2. t.remote = s.remote /\ t.opening = s.opening /\ t.up = s.up
      BY StateFields
    <3>3. Becomes(d, t)
      BY <2>3
    <3> HIDE DEF t
    <3> QED
      BY <2>1, <3>1, <3>2, <3>3, BecomesKeeps DEF Sound, Listens
  <2>4. ASSUME ~s.remote, NEW v \in {"none", "pending"}, NEW o \in SUBSET Free,
               Becomes(d, State(s.remote, to(v), o, {}))
        PROVE  IInv'
    <3> DEFINE t == State(s.remote, to(v), o, {})
    <3>1. t \in States
      BY <2>2, StateTypes DEF Free
    <3>2. t.remote = s.remote /\ t.opening = o /\ t.up = {}
      BY StateFields
    <3>3. Becomes(d, t)
      BY <2>4
    <3> HIDE DEF t
    <3> QED
      BY <2>4, <3>1, <3>2, <3>3, BecomesKeeps DEF Sound, Listens
  <2>5. CASE Leave(d, cl) \/ Tell(d, cl)
    BY <2>3, <2>5 DEF Leave, Tell
  <2>6. CASE Ask(d, cl)
    <3>1. PICK c \in Free : ~s.remote /\ Becomes(d, State(s.remote, to("pending"), {c}, {}))
      BY <2>6 DEF Ask
    <3> HIDE DEF s, to
    <3> QED
      BY <2>4, <3>1
  <2>7. CASE Refuse(d, cl)
    <3>1. ~s.remote /\ Becomes(d, State(s.remote, to("none"), {}, {}))
      BY <2>7 DEF Refuse
    <3> HIDE DEF s, to
    <3> QED
      BY <2>4, <3>1
  <2> QED
    BY <1>2, <2>5, <2>6, <2>7
<1>3. ASSUME NEW d \in Devices, Drop(d) \/ Open(d) \/ Erase(d)
      PROVE  IInv'
  <2> DEFINE s == session[d]
  <2>1. s \in States /\ Sound(s)
    BY BackedFacts
  <2>2. /\ s.remote \in BOOLEAN /\ s.opening \in SUBSET Calls /\ s.up \in SUBSET Calls
        /\ s.callers \in [Clients -> {"none", "pending", "bound"}]
    BY <2>1 DEF States
  <2>3. ASSUME NEW r \in {s.remote, FALSE}, NEW o \in SUBSET Free,
               Becomes(d, State(r, s.callers, s.opening \cup o, s.up))
        PROVE  IInv'
    <3> DEFINE t == State(r, s.callers, s.opening \cup o, s.up)
    <3>1. t \in States
      BY <2>2, StateTypes DEF Free
    <3>2. t.remote = r /\ t.opening = s.opening \cup o /\ t.up = s.up
      BY StateFields
    <3>3. Becomes(d, t)
      BY <2>3
    <3> HIDE DEF t
    <3>4. Sound(t)
      BY <2>1, <3>2 DEF Sound, Free
    <3> QED
      BY <3>1, <3>2, <3>3, <3>4, BecomesKeeps DEF Listens
  <2>4. CASE Drop(d)
    <3> DEFINE r == FALSE
               o == {}
    <3>1. r \in {s.remote, FALSE} /\ o \in SUBSET Free /\ s.opening \cup o = s.opening
      OBVIOUS
    <3>2. Becomes(d, State(r, s.callers, s.opening \cup o, s.up))
      BY <2>4, <3>1 DEF Drop
    <3> HIDE DEF r, o
    <3> QED
      BY <2>3, <3>1, <3>2
  <2>5. CASE Open(d)
    BY <2>3, <2>5 DEF Open
  <2>6. CASE Erase(d)
    BY <2>6, BlankFacts, BecomesKeeps DEF Erase
  <2> QED
    BY <1>3, <2>4, <2>5, <2>6
<1>4. ASSUME NEW d \in Devices, NEW c \in Calls,
             End(d, c) \/ \E ok \in BOOLEAN : Answer(d, c, ok)
      PROVE  IInv'
  <2> DEFINE s == session[d]
             told == [cl \in Clients |-> IF s.callers[cl] = "none" THEN "none" ELSE "bound"]
  <2>1. s \in States /\ Sound(s)
    BY BackedFacts
  <2>2. /\ s.opening \in SUBSET Calls /\ s.up \in SUBSET Calls
        /\ told \in [Clients -> {"none", "pending", "bound"}]
        /\ NoCallers \in [Clients -> {"none", "pending", "bound"}]
    BY <2>1 DEF States, NoCallers
  <2> HIDE DEF told
  <2>3. ASSUME NEW r \in BOOLEAN, NEW cs \in {told, NoCallers},
               NEW o \in SUBSET Calls, NEW u \in SUBSET Calls,
               Becomes(d, State(r, cs, o, u)),
               r => u # {}, o \cap u = {}, o \cup u \subseteq s.opening \cup s.up
        PROVE  IInv'
    <3> DEFINE t == State(r, cs, o, u)
    <3>1. t \in States
      BY <2>2, StateTypes
    <3>2. t.remote = r /\ t.opening = o /\ t.up = u
      BY StateFields
    <3>3. Becomes(d, t)
      BY <2>3
    <3> HIDE DEF t
    <3> QED
      BY <2>3, <3>1, <3>2, <3>3, BecomesKeeps DEF Sound, Listens
  <2>4. CASE End(d, c)
    <3>1. Becomes(d, State(FALSE, NoCallers, s.opening \ {c}, s.up \ {c}))
      BY <2>4 DEF End
    <3>2. (s.opening \ {c}) \cap (s.up \ {c}) = {}
      BY <2>1 DEF Sound
    <3> QED
      BY <2>2, <2>3, <3>1, <3>2
  <2>5. ASSUME NEW ok \in BOOLEAN, Answer(d, c, ok)
        PROVE  IInv'
    <3> DEFINE u == IF ok THEN s.up \cup {c} ELSE s.up
    <3>1. c \in s.opening /\ Becomes(d, State(ok, told, s.opening \ {c}, u))
      BY <2>5 DEF Answer, told
    <3>2. u \in SUBSET Calls /\ (ok => u # {}) /\ u \subseteq s.opening \cup s.up
      BY <2>2, <3>1
    <3>3. (s.opening \ {c}) \cap u = {}
      BY <2>1 DEF Sound
    <3> HIDE DEF u
    <3> QED
      BY <2>2, <2>3, <3>1, <3>2, <3>3
  <2> QED
    BY <1>4, <2>4, <2>5
<1>5. ASSUME session' = [d \in Devices |-> Blank]
      PROVE  IInv'
  BY <1>5, BlankFacts DEF IInv, TypeInv, Backed, Sound, Listens
<1> QED
  BY <1>1, <1>2, <1>3, <1>4, <1>5 DEF Next, Stop

\* A device whose remote object is handed out has a call that is up, and a
\* call counts for one device: what is promised about binds, answers and ends
\* (device.cpp:92, 177, 198) is enough for it, whatever brings them about.
THEOREM PromiseIsBacked == Spec => []Backed
<1>1. Init => IInv
  BY BlankFacts DEF Init, IInv, TypeInv, Backed, Sound, Listens
<1>2. IInv => Backed
  BY DEF IInv
<1> QED
  BY <1>1, <1>2, NextKeeps, PTL DEF Spec
=============================================================================
