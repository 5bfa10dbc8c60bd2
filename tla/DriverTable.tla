----------------------------- MODULE DriverTable -----------------------------
(***************************************************************************)
(* What the package manager promises about its table of driver packages:   *)
(* each change replaces the rows of one package, or of all packages, by    *)
(* one whole answer of the bundle manager, in one step; the whole table is *)
(* loaded once, until an account switch or a restart forgets the load; and *)
(* the load is only reported as done after its rows are in the table.      *)
(* PackageManager implements this module with locks and transactions.      *)
(***************************************************************************)
CONSTANTS
  Bundles,    \* application packages
  Users,      \* accounts
  Versions,   \* versions of a package; NotInstalled is none of them
  DriversOf   \* the driver extensions of each package

VARIABLES
  rows,   \* the table
  load    \* "none", "written" or "done"

tableVars == <<rows, load>>

\* The rows a package stands for when the bundle manager is asked about it.
Whole(b, u, v) == {[bundle |-> b, drv |-> r, user |-> u, version |-> v] : r \in DriversOf[b]}

\* What the bundle manager may answer about a package.
Answers(b) == {{}} \cup {Whole(b, u, v) : u \in Users, v \in Versions}

RowsOfBundle(S, b) == {r \in S : r.bundle = b}

\* A table that is made of whole answers.
IsWhole(S) == \A b \in Bundles : RowsOfBundle(S, b) \in Answers(b)

\* What the bundle manager may answer about all packages of an account.
LoadAnswers(u) ==
  {S \in SUBSET UNION {Whole(b, u, v) : b \in Bundles, v \in Versions} : IsWhole(S)}

Init == rows = {} /\ load = "none"

\* One package is added, updated or removed.
Replace(b) ==
  /\ \E S \in Answers(b) : rows' = (rows \ RowsOfBundle(rows, b)) \cup S
  /\ UNCHANGED load

\* The whole table is replaced by the packages of one account.
Load ==
  /\ load = "none" /\ load' = "written"
  /\ \E u \in Users : \E S \in LoadAnswers(u) : rows' = S

LoadDone == load = "written" /\ load' = "done" /\ UNCHANGED rows

\* The account was switched.
Forget == load # "written" /\ load' = "none" /\ UNCHANGED rows

\* The process ended; the table is kept.
Restart == load' = "none" /\ UNCHANGED rows

Next == (\E b \in Bundles : Replace(b)) \/ Load \/ LoadDone \/ Forget \/ Restart

Spec == Init /\ [][Next]_tableVars
=============================================================================
