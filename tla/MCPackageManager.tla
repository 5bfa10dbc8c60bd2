--------------------------- MODULE MCPackageManager ---------------------------
(***************************************************************************)
(* Instances of PackageManager for TLC.                                    *)
(***************************************************************************)
EXTENDS PackageManager, TLC

CONSTANTS b1, r1, r2, u1, u2, l1

\* One package of two drivers: half a package can be told from a whole one.
OnePackage == (b1 :> {r1, r2})
=============================================================================
