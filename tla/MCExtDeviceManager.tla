------------------------- MODULE MCExtDeviceManager -------------------------
(***************************************************************************)
(* Instances of ExtDeviceManager for TLC: the edm_*.cfg files choose the   *)
(* sets, and one of the functions below, for each run.                     *)
(***************************************************************************)
EXTENDS ExtDeviceManager, TLC

CONSTANTS d1, d2, r1, r2, b1, b2, u1, u2, c1, c2

\* All drivers in one package, or each in its own.
OneBundle  == [r \in Drivers |-> b1]
OwnBundles == (r1 :> b1 @@ r2 :> b2)

\* Every driver fits every device, or only r1 fits d1, which has none while
\* r1's package is not installed; every client may use every driver.
AllMatch   == [d \in Devices |-> Drivers]
OneForD1   == [d \in Devices |-> IF d = d1 THEN {r1} ELSE Drivers]
AllAccess  == Clients \X Drivers
=============================================================================
