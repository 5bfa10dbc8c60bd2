--------------------------- MODULE BindingContract ---------------------------
(***************************************************************************)
(* What an application may rely on when it binds a driver: one bindDevice  *)
(* or bindDriverWithDeviceId call throws, or returns a promise that is     *)
(* settled at most once; its onDisconnect is called at most once, never    *)
(* after the call threw or the promise was rejected, and no promise is     *)
(* resolved after it; an unbind is settled only together with the report   *)
(* of the disconnection.                                                   *)
(***************************************************************************)
CONSTANT Data       \* the bind calls

VARIABLES
  bind,             \* bind[x]: what became of the call
  told,             \* told[x]: onDisconnect was called
  unbind            \* unbind[x]: the unbind call answered through this binding

vars == <<bind, told, unbind>>

Init ==
  /\ bind = [x \in Data |-> "unused"]
  /\ told = [x \in Data |-> FALSE]
  /\ unbind = [x \in Data |-> "none"]

Call(x) ==
  /\ bind[x] = "unused"
  /\ bind' = [bind EXCEPT ![x] = "called"]
  /\ UNCHANGED <<told, unbind>>

Return(x) ==
  /\ bind[x] = "called"
  /\ \E r \in {"threw", "open"} : bind' = [bind EXCEPT ![x] = r]
  /\ UNCHANGED <<told, unbind>>

Settle(x) ==
  /\ bind[x] = "open" /\ ~told[x]
  /\ \E r \in {"resolved", "rejected"} : bind' = [bind EXCEPT ![x] = r]
  /\ UNCHANGED <<told, unbind>>

\* The binding is what it was when its unbind is asked for.
AskUnbind(x) ==
  /\ bind[x] \in {"open", "resolved"} /\ ~told[x]
  /\ unbind[x] \in {"none", "open"}
  /\ unbind' = [unbind EXCEPT ![x] = "open"]
  /\ UNCHANGED <<bind, told>>

Tell(x) ==
  /\ bind[x] \in {"open", "resolved"} /\ ~told[x]
  /\ told' = [told EXCEPT ![x] = TRUE]
  /\ \E r \in IF unbind[x] = "open" THEN {"resolved", "rejected"} ELSE {"none"} :
       unbind' = [unbind EXCEPT ![x] = r]
  /\ UNCHANGED bind

Next == \E x \in Data : Call(x) \/ Return(x) \/ Settle(x) \/ AskUnbind(x) \/ Tell(x)

Spec == Init /\ [][Next]_vars
=============================================================================
