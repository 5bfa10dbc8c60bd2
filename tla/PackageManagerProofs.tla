------------------------ MODULE PackageManagerProofs ------------------------
(***************************************************************************)
(* Theorems about PackageManager, for every value of its constants: any    *)
(* number of packages, accounts, versions, loading threads and clients,    *)
(* and any bound on changes, events and faults.                            *)
(*                                                                         *)
(* The argument.  What a thread does tells which mutexes it holds          *)
(* (LocksHeld), so that one thread at a time loads and one writes          *)
(* (JobsOK); the open transaction is then the saved rows with a part of    *)
(* one answer of the bundle manager in them (WriteOK).  That is what the   *)
(* refinement of DriverTable rests on.  For the table to be current, the   *)
(* last event about a package must tell whether it is installed (QueueOK), *)
(* and an answer that is out of date must have an event behind it (Fresh). *)
(***************************************************************************)
EXTENDS PackageManager, TLAPS

\* What a thread may be doing.  Only the subscriber's thread handles events.
JobOK(p) ==
  /\ procs[p].pc = "idle" => procs[p].op = "none"
  /\ IsLoad(p) => procs[p].bundle = AllBundles /\ procs[p].pc # "check"
  /\ IsLoad(p) /\ p = "ces" => procs[p].pc = "idle"
  /\ ~IsLoad(p) => /\ p = "ces"
                   /\ procs[p].bundle \in Bundles
                   /\ procs[p].pc \in {"check", "ask", "asked", "begin", "sizing", "insert"}
  /\ ~IsLoad(p) \/ procs[p].pc \in LoadPCs \ {"user"} => procs[p].user \in Users
  /\ procs[p].pc = "check" => procs[p].rows = {}
  /\ procs[p].op = "removed" => procs[p].pc \in {"check", "begin", "sizing", "insert"}

\* One thread at a time loads, and no thread runs without the process.
JobsOK ==
  /\ \A p \in Procs : JobOK(p)
  /\ initOnceMutex # Free => ~initOnce
  /\ boot = "off" => /\ reported = {} /\ ~initOnce
                     /\ events = <<>> /\ notices = {}
                     /\ \A p \in Procs : procs[p].pc = "idle"

\* The rows of the table once the package b is replaced by S.
With(b, S) == (saved \ Table!RowsOfBundle(saved, b)) \cup S

\* The transaction under way holds a part of one answer of the bundle
\* manager; outside a transaction the table is what was saved.
WriteOK ==
  /\ databaseMutex = Free => table = saved
  /\ \A p \in Procs :
       /\ procs[p].pc \in {"begin", "sizing"} /\ IsLoad(p) =>
            procs[p].rows \in Table!LoadAnswers(procs[p].user)
       /\ procs[p].pc = "insert" /\ IsLoad(p) =>
            table \cup procs[p].rows \in Table!LoadAnswers(procs[p].user)
       /\ procs[p].pc \in {"begin", "sizing"} /\ ~IsLoad(p) =>
            procs[p].rows \in Table!Answers(procs[p].bundle)
       /\ procs[p].pc = "insert" /\ ~IsLoad(p) =>
            \E S \in Table!Answers(procs[p].bundle) :
              table \cup procs[p].rows = With(procs[p].bundle, S)

-----------------------------------------------------------------------------
\* The threads are distinct, and none of them is Free.
LEMMA ProcFacts ==
  /\ "ces" \in Procs /\ "match" \in Procs /\ Free \notin Procs
  /\ "ces" \notin Loaders \cup Clients \cup {"match"}
  /\ Loaders \subseteq Procs /\ Clients \subseteq Procs
BY ProcsAssumption DEF Procs

\* The job of a thread that has nothing to do, and that of one that loads.
LEMMA JobFacts ==
  /\ Idle \in Jobs /\ Idle.op = "none" /\ Idle.pc = "idle" /\ Idle.bundle = AllBundles
  /\ LoadJob \in Jobs /\ LoadJob.op = "load" /\ LoadJob.pc = "wait"
  /\ LoadJob.bundle = AllBundles
  /\ \A p \in Procs : (procs \in [Procs -> Jobs]) => After(p, TRUE) \in Jobs
BY DEF Idle, LoadJob, Jobs, Ops, PCs, After

\* The rows a package stands for are rows of the table.
LEMMA ParseIsRows ==
  ASSUME TypeOK, NEW u \in Users
  PROVE  /\ \A b \in Bundles : ParseToPkgInfoTables(b, u) \in Table!Answers(b)
         /\ \A b \in Bundles : ParseToPkgInfoTables(b, u) \subseteq Rows
         /\ AllOf(u) \subseteq Rows
<1>1. \A b \in Bundles : apps[u][b] \in Versions \cup {NotInstalled}
  BY DEF TypeOK, TypesOutside
<1>2. \A b \in Bundles : ParseToPkgInfoTables(b, u) \in Table!Answers(b)
  BY <1>1 DEF ParseToPkgInfoTables, Table!Answers
<1>3. \A b \in Bundles : ParseToPkgInfoTables(b, u) \subseteq Rows
  BY <1>1 DEF ParseToPkgInfoTables, Rows
<1> QED
  BY <1>2, <1>3 DEF AllOf


\* The thread p goes on to the job j, and the other threads stay.
Moves(p, j) == /\ procs'[p] = j
               /\ \A q \in Procs : q # p => procs'[q] = procs[q]
               /\ procs' \in [Procs -> Jobs]

LEMMA JobSet ==
  ASSUME procs \in [Procs -> Jobs],
         NEW p \in Procs, NEW j \in Jobs, procs' = [procs EXCEPT ![p] = j]
  PROVE  Moves(p, j)
BY DEF Moves

LEMMA PcSet ==
  ASSUME procs \in [Procs -> Jobs], NEW p \in Procs, NEW pc \in PCs, Goes(p, pc)
  PROVE  Moves(p, [procs[p] EXCEPT !.pc = pc])
<1>1. [procs[p] EXCEPT !.pc = pc] \in Jobs
  BY DEF Jobs
<1>2. procs' = [procs EXCEPT ![p] = [procs[p] EXCEPT !.pc = pc]]
  BY DEF Goes
<1> QED
  BY <1>1, <1>2, JobSet

\* A thread parses an answer.
LEMMA ParsedFacts ==
  ASSUME procs \in [Procs -> Jobs], NEW p \in Procs, NEW rows \in SUBSET Rows, Parsed(p, rows)
  PROVE  /\ procs' \in [Procs -> Jobs]
         /\ \A q \in Procs : q # p => procs'[q] = procs[q]
         /\ procs'[p].op = procs[p].op /\ procs'[p].pc = "begin"
         /\ procs'[p].user = procs[p].user /\ procs'[p].bundle = procs[p].bundle
         /\ procs'[p].rows = rows
<1> DEFINE j == [procs[p] EXCEPT !.rows = rows, !.sizes = {r.bundle : r \in rows}, !.pc = "begin"]
<1>1. {r.bundle : r \in rows} \subseteq Bundles
  BY DEF Rows, Table!Whole
<1>2. j \in Jobs /\ j.op = procs[p].op /\ j.pc = "begin" /\ j.user = procs[p].user
      /\ j.bundle = procs[p].bundle /\ j.rows = rows
  BY <1>1 DEF Jobs, PCs
<1>3. procs' = [procs EXCEPT ![p] = j]
  BY DEF Parsed
<1>4. Moves(p, j)
  BY <1>2, <1>3, JobSet
<1> HIDE DEF j
<1> QED
  BY <1>2, <1>4 DEF Moves

\* A thread asks for the size of a package: its rows stay.
LEMMA SizeFacts ==
  ASSUME procs \in [Procs -> Jobs], NEW p \in Procs, GetBundleSize(p) \/ GetBundleStats(p)
  PROVE  /\ procs' \in [Procs -> Jobs]
         /\ \A q \in Procs : q # p => procs'[q] = procs[q]
         /\ procs'[p].op = procs[p].op
         /\ procs'[p].user = procs[p].user /\ procs'[p].bundle = procs[p].bundle
         /\ procs'[p].rows = procs[p].rows
         /\ procs[p].pc \in {"begin", "sizing"}
         /\ \/ /\ procs'[p].pc = "sizing" /\ procs[p].pc = "begin"
               /\ bundleMgrMutex = Free /\ bundleMgrMutex' = p
            \/ /\ procs'[p].pc = "begin" /\ procs[p].pc = "begin" /\ UNCHANGED bundleMgrMutex
            \/ /\ procs'[p].pc = "begin" /\ procs[p].pc = "sizing" /\ bundleMgrMutex' = Free
         /\ UNCHANGED <<boot, reported, apps, changes, account, events, initOnce, initOnceMutex,
                        databaseMutex, table, saved, notices, seen, excuses>>
<1> USE DEF outside, store
<1>1. procs[p] \in Jobs
  OBVIOUS
<1>2. CASE GetBundleStats(p)
  <2>1. Moves(p, [procs[p] EXCEPT !.pc = "begin"])
    BY <1>2, PcSet DEF GetBundleStats, PCs
  <2> QED BY <1>1, <1>2, <2>1 DEF GetBundleStats, Moves, Jobs
<1>3. CASE GetBundleSize(p)
  <2>1. PICK b \in procs[p].sizes :
          \/ /\ bundleMgrMutex' = p
             /\ procs' = [procs EXCEPT ![p].sizes = @ \ {b}, ![p].pc = "sizing"]
          \/ /\ procs' = [procs EXCEPT ![p].sizes = @ \ {b}]
             /\ UNCHANGED bundleMgrMutex
    BY <1>3 DEF GetBundleSize
  <2>2. /\ procs[p].pc = "begin" /\ bundleMgrMutex = Free
        /\ UNCHANGED <<boot, reported, apps, changes, account, events, initOnce, initOnceMutex,
                       databaseMutex, table, saved, notices, seen, excuses>>
    BY <1>3 DEF GetBundleSize
  <2>3. CASE /\ bundleMgrMutex' = p
             /\ procs' = [procs EXCEPT ![p].sizes = @ \ {b}, ![p].pc = "sizing"]
    <3> DEFINE j == [procs[p] EXCEPT !.sizes = procs[p].sizes \ {b}, !.pc = "sizing"]
    <3>1. procs' = [procs EXCEPT ![p] = j]
      BY <2>3
    <3>2. j \in Jobs /\ j.op = procs[p].op /\ j.user = procs[p].user /\ j.pc = "sizing"
          /\ j.bundle = procs[p].bundle /\ j.rows = procs[p].rows
      BY <1>1 DEF Jobs, PCs
    <3> HIDE DEF j
    <3>3. Moves(p, j)
      BY <3>1, <3>2, JobSet
    <3> QED BY <2>2, <2>3, <3>2, <3>3 DEF Moves
  <2>4. CASE procs' = [procs EXCEPT ![p].sizes = @ \ {b}] /\ UNCHANGED bundleMgrMutex
    <3> DEFINE j == [procs[p] EXCEPT !.sizes = procs[p].sizes \ {b}]
    <3>1. procs' = [procs EXCEPT ![p] = j]
      BY <2>4
    <3>2. j \in Jobs /\ j.op = procs[p].op /\ j.user = procs[p].user /\ j.pc = procs[p].pc
          /\ j.bundle = procs[p].bundle /\ j.rows = procs[p].rows
      BY <1>1 DEF Jobs
    <3> HIDE DEF j
    <3>3. Moves(p, j)
      BY <3>1, <3>2, JobSet
    <3> QED BY <2>2, <2>4, <3>2, <3>3 DEF Moves
  <2> QED BY <2>1, <2>3, <2>4
<1> QED BY <1>2, <1>3

\* A thread that fails ends; a load gives initOnceMutex_ back.
LEMMA Failing ==
  ASSUME TypesThreads, NEW p \in Procs
  PROVE  /\ LoadFails(p) => Moves(p, Idle) /\ initOnceMutex' = Free
         /\ EventFails(p) => Moves(p, Idle)
         /\ LoadFails(p) \/ EventFails(p) =>
              excuses \subseteq excuses' /\ excuses' \subseteq {"late", "unmatched"}
<1>1. After(p, FALSE) = Idle /\ Idle \in Jobs
  BY JobFacts DEF After
<1> QED
  BY <1>1, JobSet DEF TypesThreads, LoadFails, EventFails

LEMMA FaultCounted ==
  ASSUME TypesThreads, Fault PROVE faults' \in 0..MaxFaults
BY BoundsAssumption DEF TypesThreads, Fault

Core == TypeOK /\ JobsOK /\ LocksHeld

-----------------------------------------------------------------------------
(***************************************************************************)
(* Each action keeps the types, the jobs and the mutexes.                  *)
(***************************************************************************)
LEMMA CoreBoot ==
  ASSUME Core, Boot PROVE Core'
<1> USE ProcFacts, JobFacts DEF Core, TypeOK, store, mutexes, outside
<1>1. ASSUME OnStart PROVE Core'
  <2>1. PICK p \in FreeLoaders : procs' = [procs EXCEPT ![p] = LoadJob]
    BY <1>1 DEF OnStart
  <2>2. p \in Procs /\ procs[p].pc = "idle" /\ p # "ces" /\ IsLoad(p)
    BY <2>1 DEF FreeLoaders, JobsOK, JobOK, IsLoad
  <2>3. Moves(p, LoadJob)
    BY <2>1, <2>2, JobSet DEF TypesThreads
  <2>4. TypesOutside' /\ TypesStore' /\ TypesThreads'
    BY <1>1, <2>3 DEF OnStart, TypesOutside, TypesStore, TypesThreads, Moves
  <2>5. JobsOK'
    BY <1>1, <2>2, <2>3 DEF OnStart, JobsOK, JobOK, Moves, IsLoad, LoadPCs
  <2>6. LocksHeld'
    BY <1>1, <2>2, <2>3 DEF OnStart, LocksHeld, Moves, Loading, IsLoad, LoadPCs
  <2> QED BY <2>4, <2>5, <2>6
<1>2. ASSUME AddSystemAbilityListeners \/ RegisterBundleCallback \/ SetDevChangeCallback
      PROVE  Core'
  <2>1. TypesOutside' /\ TypesStore' /\ TypesThreads'
    BY <1>2 DEF AddSystemAbilityListeners, RegisterBundleCallback, SetDevChangeCallback,
      TypesOutside, TypesStore, TypesThreads
  <2>2. JobsOK' /\ LocksHeld'
    BY <1>2 DEF AddSystemAbilityListeners, RegisterBundleCallback, SetDevChangeCallback,
      JobsOK, JobOK, LocksHeld, IsLoad, Loading
  <2> QED BY <2>1, <2>2
<1> QED
  BY <1>1, <1>2 DEF Boot

LEMMA CoreOnAddSystemAbility ==
  ASSUME Core, NEW sa \in SystemAbilities, OnAddSystemAbility(sa) PROVE Core'
<1> USE DEF Core, TypeOK, store, mutexes, outside
<1>1. TypesOutside' /\ TypesStore' /\ TypesThreads'
  BY DEF OnAddSystemAbility, TypesOutside, TypesStore, TypesThreads
<1>2. JobsOK' /\ LocksHeld'
  BY DEF OnAddSystemAbility, JobsOK, JobOK, LocksHeld, IsLoad, Loading
<1> QED BY <1>1, <1>2

LEMMA CoreOnStop ==
  ASSUME Core, OnStop PROVE Core'
<1> USE ProcFacts, JobFacts DEF Core, TypeOK
<1>1. procs' = [p \in Procs |-> Idle]
  BY DEF OnStop
<1>2. bms' \in [up : BOOLEAN, proxy : {"none", "live", "dead"}]
      /\ account' \in [user : Users, switched : BOOLEAN]
  BY DEF OnStop, TypesOutside
<1>3. TypesOutside'
  BY <1>2 DEF OnStop, TypesOutside
<1>4. TypesStore' /\ TypesThreads'
  BY <1>1, FaultCounted DEF OnStop, TypesStore, TypesThreads
<1>5. JobsOK' /\ LocksHeld'
  BY <1>1 DEF OnStop, JobsOK, JobOK, LocksHeld, IsLoad, Loading, LoadPCs
<1> QED BY <1>3, <1>4, <1>5

LEMMA CoreOutside ==
  ASSUME Core, Outside PROVE Core'
<1> USE DEF Core, TypeOK, store, mutexes
<1>1. ASSUME NEW b \in Bundles, NEW u \in Changing, NEW v \in Versions \cup {NotInstalled},
             PackageChanges(b, u, v)
      PROVE  Core'
  <2>1. u \in Users
    BY BoundsAssumption
  <2>2. apps' \in [Users -> [Bundles -> Versions \cup {NotInstalled}]]
    BY <1>1, <2>1 DEF PackageChanges, TypesOutside
  <2>3. changes' \in 0..MaxChanges
    BY <1>1, BoundsAssumption DEF PackageChanges, TypesOutside
  <2>4. events' \in Seq(Events)
    <3>1. [op |-> IF v = NotInstalled THEN "removed" ELSE "changed", bundle |-> b, user |-> u]
            \in Events
      BY <2>1 DEF Events
    <3> QED
      BY <1>1, <3>1 DEF PackageChanges, TypesOutside
  <2>5. TypesOutside' /\ TypesStore'
    BY <1>1, <2>2, <2>3, <2>4 DEF PackageChanges, TypesOutside, TypesStore
  <2>6. TypesThreads'
    BY <1>1 DEF PackageChanges, TypesThreads, Excused
  <2>7. JobsOK' /\ LocksHeld'
    BY <1>1 DEF PackageChanges, JobsOK, JobOK, LocksHeld, IsLoad, Loading
  <2> QED BY <2>5, <2>6, <2>7
<1>2. ASSUME NEW u \in Switchable, SwitchForeground(u) PROVE Core'
  <2>1. account' \in [user : Users, switched : BOOLEAN]
    BY <1>2, BoundsAssumption DEF SwitchForeground
  <2>2. TypesOutside' /\ TypesStore' /\ TypesThreads'
    BY <1>2, <2>1 DEF SwitchForeground, TypesOutside, TypesStore, TypesThreads, Excused
  <2>3. JobsOK' /\ LocksHeld'
    BY <1>2 DEF SwitchForeground, JobsOK, JobOK, LocksHeld, IsLoad, Loading
  <2> QED BY <2>2, <2>3
<1>3. ASSUME BundleManagerDies \/ BundleManagerRestarts PROVE Core'
  <2>1. bms' \in [up : BOOLEAN, proxy : {"none", "live", "dead"}]
    <3>1. CASE BundleManagerDies
      BY <3>1 DEF BundleManagerDies, TypesOutside
    <3>2. CASE BundleManagerRestarts
      BY <3>2 DEF BundleManagerRestarts, TypesOutside
    <3> QED BY <1>3, <3>1, <3>2
  <2>2. TypesOutside' /\ TypesStore'
    BY <1>3, <2>1 DEF BundleManagerDies, BundleManagerRestarts, TypesOutside, TypesStore
  <2>3. TypesThreads'
    BY <1>3, FaultCounted DEF BundleManagerDies, BundleManagerRestarts, TypesThreads
  <2>4. JobsOK' /\ LocksHeld'
    BY <1>3 DEF BundleManagerDies, BundleManagerRestarts, JobsOK, JobOK, LocksHeld,
      IsLoad, Loading
  <2> QED BY <2>2, <2>3, <2>4
<1> QED
  BY <1>1, <1>2, <1>3 DEF Outside

LEMMA CoreResetBundleMgr ==
  ASSUME Core, ResetBundleMgr PROVE Core'
<1> USE DEF Core, TypeOK, store, mutexes
<1>1. bms' \in [up : BOOLEAN, proxy : {"none", "live", "dead"}]
  BY DEF ResetBundleMgr, TypesOutside
<1>2. TypesOutside' /\ TypesStore' /\ TypesThreads'
  BY <1>1 DEF ResetBundleMgr, TypesOutside, TypesStore, TypesThreads
<1>3. JobsOK' /\ LocksHeld'
  BY DEF ResetBundleMgr, JobsOK, JobOK, LocksHeld, IsLoad, Loading
<1> QED BY <1>2, <1>3

LEMMA CoreOnBundleEvent ==
  ASSUME Core, OnBundleEvent PROVE Core'
<1> USE ProcFacts, JobFacts DEF Core, TypeOK, store, mutexes
<1> DEFINE j == [op |-> Head(events).op, pc |-> "check", user |-> Head(events).user,
                 bundle |-> Head(events).bundle, rows |-> {}, sizes |-> {}]
<1>1. Head(events) \in Events /\ Tail(events) \in Seq(Events)
  BY DEF OnBundleEvent, TypesOutside
<1>2. j \in Jobs /\ j.op \in {"changed", "removed"} /\ j.bundle \in Bundles /\ j.user \in Users
      /\ j.pc = "check" /\ j.rows = {}
  BY <1>1 DEF Jobs, Events, Ops, PCs
<1>3. Moves("ces", j)
  BY <1>2, JobSet DEF OnBundleEvent, TypesThreads
<1> HIDE DEF j
<1>4. TypesOutside' /\ TypesStore' /\ TypesThreads'
  BY <1>1, <1>2, <1>3 DEF OnBundleEvent, TypesOutside, TypesStore, TypesThreads, Moves
<1>5. JobsOK'
  BY <1>2, <1>3 DEF OnBundleEvent, JobsOK, JobOK, IsLoad, Moves, Running
<1>6. LocksHeld'
  BY <1>2, <1>3 DEF OnBundleEvent, LocksHeld, Loading, LoadPCs, IsLoad, Moves
<1> QED BY <1>4, <1>5, <1>6

LEMMA CoreOnAccountsSwitched ==
  ASSUME Core, OnAccountsSwitched PROVE Core'
<1> USE ProcFacts, JobFacts DEF Core, TypeOK, store, mutexes
<1>1. PICK p \in FreeLoaders : procs' = [procs EXCEPT ![p] = LoadJob]
  BY DEF OnAccountsSwitched
<1>2. p \in Procs /\ procs[p].pc = "idle" /\ p # "ces" /\ IsLoad(p)
  BY <1>1 DEF FreeLoaders, JobsOK, JobOK, IsLoad
<1>3. Moves(p, LoadJob)
  BY <1>1, <1>2, JobSet DEF TypesThreads
<1>4. account' \in [user : Users, switched : BOOLEAN]
  BY DEF OnAccountsSwitched, TypesOutside
<1>5. TypesOutside' /\ TypesStore' /\ TypesThreads'
  BY <1>3, <1>4 DEF OnAccountsSwitched, TypesOutside, TypesStore, TypesThreads, Moves
<1>6. JobsOK'
  BY <1>2, <1>3 DEF OnAccountsSwitched, JobsOK, JobOK, Moves, IsLoad, LoadPCs, Running
<1>7. LocksHeld'
  BY <1>2, <1>3 DEF OnAccountsSwitched, LocksHeld, Moves, Loading, IsLoad, LoadPCs
<1> QED BY <1>5, <1>6, <1>7

\* A thread that matches devices or queries drivers starts.
LEMMA CoreStarts ==
  ASSUME Core,
         OnBundlesUpdated \/ \E p \in Clients \cup {"match"} : QueryMatchDriver(p)
  PROVE  Core'
<1> USE ProcFacts, JobFacts DEF Core, TypeOK, store, mutexes, outside
<1>1. PICK p \in Clients \cup {"match"}, op \in {"query", "notice"} :
        /\ procs[p].pc = "idle"
        /\ procs' = [procs EXCEPT ![p] = [Idle EXCEPT !.op = op, !.pc = "init"]]
        /\ boot # "off"
        /\ notices' \subseteq notices
        /\ UNCHANGED <<boot, reported, bms, apps, changes, account, events, initOnce,
                       initOnceMutex, bundleMgrMutex, databaseMutex, table, saved, faults,
                       seen, excuses>>
  BY DEF OnBundlesUpdated, QueryMatchDriver, JobsOK
<1> DEFINE j == [Idle EXCEPT !.op = op, !.pc = "init"]
<1>2. j \in Jobs /\ j.op = op /\ j.pc = "init" /\ j.bundle = AllBundles
  BY DEF Jobs, Idle, Ops, PCs
<1>3. p \in Procs /\ p # "ces" /\ IsLoad(p)
  BY <1>1 DEF JobsOK, JobOK, IsLoad
<1>4. Moves(p, j)
  BY <1>1, <1>2, <1>3, JobSet DEF TypesThreads
<1> HIDE DEF j
<1>5. TypesOutside' /\ TypesStore' /\ TypesThreads'
  BY <1>1, <1>2, <1>4 DEF TypesOutside, TypesStore, TypesThreads, Moves
<1>6. JobsOK'
  BY <1>1, <1>2, <1>3, <1>4 DEF JobsOK, JobOK, IsLoad, LoadPCs, Moves
<1>7. LocksHeld'
  BY <1>1, <1>2, <1>3, <1>4 DEF LocksHeld, Loading, LoadPCs, IsLoad, Moves
<1> QED BY <1>5, <1>6, <1>7

LEMMA CoreWaitFutures ==
  ASSUME Core, NEW p \in Procs, WaitFutures(p) PROVE Core'
<1> USE ProcFacts DEF Core, TypeOK, store, mutexes, outside
<1>1. Moves(p, [procs[p] EXCEPT !.pc = "init"])
  BY PcSet DEF WaitFutures, PCs, TypesThreads
<1>5. TypesOutside' /\ TypesStore'
  BY DEF WaitFutures, TypesOutside, TypesStore
<1>6. procs'[p].pc = "init" /\ \A q \in Procs : q # p => procs'[q] = procs[q]
  BY <1>1 DEF Moves, TypesThreads, Jobs
<1>7. TypesThreads'
  BY <1>1, <1>6 DEF WaitFutures, TypesThreads, Moves
<1>2. TypesOutside' /\ TypesStore' /\ TypesThreads'
  BY <1>5, <1>7
<1>3. JobsOK'
  BY <1>1 DEF WaitFutures, JobsOK, JobOK, IsLoad, LoadPCs, Moves, TypesThreads, Jobs
<1>4. LocksHeld'
  BY <1>1 DEF WaitFutures, LocksHeld, Loading, LoadPCs, IsLoad, Moves, TypesThreads, Jobs
<1> QED BY <1>2, <1>3, <1>4

\* A thread that goes on to read the table.
LEMMA AfterFacts ==
  ASSUME TypesThreads, NEW p \in Procs
  PROVE  /\ After(p, TRUE) \in Jobs
         /\ \/ After(p, TRUE) = Idle
            \/ /\ After(p, TRUE).pc = "read"
               /\ After(p, TRUE).op = procs[p].op
               /\ After(p, TRUE).bundle = procs[p].bundle
<1>1. procs[p] \in Jobs
  BY DEF TypesThreads
<1>2. [procs[p] EXCEPT !.pc = "read"] \in Jobs
  BY <1>1 DEF Jobs, PCs
<1>3. CASE procs[p].op # "load"
  BY <1>1, <1>2, <1>3 DEF After, Jobs
<1>4. CASE procs[p].op = "load"
  BY <1>4, JobFacts DEF After
<1> QED BY <1>3, <1>4

LEMMA CoreEnter ==
  ASSUME Core, NEW p \in Procs, EnterGetAllDriverInfos(p) PROVE Core'
<1> USE ProcFacts, JobFacts DEF Core, TypeOK, store, mutexes, outside
<1>1. CASE initOnce /\ procs' = [procs EXCEPT ![p] = After(p, TRUE)] /\ UNCHANGED initOnceMutex
  <2>1. Moves(p, After(p, TRUE))
    BY <1>1, AfterFacts, JobSet DEF TypesThreads
  <2>2. TypesOutside' /\ TypesStore' /\ TypesThreads'
    BY <1>1, <2>1, AfterFacts
    DEF EnterGetAllDriverInfos, TypesOutside, TypesStore, TypesThreads, Moves, Jobs
  <2>5. IsLoad(p) /\ p # "ces" /\ boot # "off" /\ procs[p].bundle = AllBundles
    BY DEF EnterGetAllDriverInfos, JobsOK, JobOK
  <2>7. /\ procs'[p].bundle = AllBundles
        /\ \/ procs'[p].pc = "read" /\ procs'[p].op = procs[p].op
           \/ procs'[p].pc = "idle" /\ procs'[p].op = "none"
    <3>1. TypesThreads OBVIOUS
    <3> QED BY <2>1, <2>5, <3>1, AfterFacts, JobFacts DEF Moves
  <2>6. \A q \in Procs : JobOK(q)'
    BY <2>1, <2>5, <2>7 DEF JobsOK, JobOK, IsLoad, LoadPCs, Moves
  <2>3. JobsOK'
    BY <1>1, <2>5, <2>6 DEF EnterGetAllDriverInfos, JobsOK
  <2>8. procs'[p].pc \in {"read", "idle"} /\ procs[p].pc = "init"
        /\ \A q \in Procs : q # p => procs'[q] = procs[q]
    BY <2>1, <2>7 DEF EnterGetAllDriverInfos, Moves
  <2>4. LocksHeld'
    BY <1>1, <2>8 DEF EnterGetAllDriverInfos, LocksHeld, Loading, LoadPCs, IsLoad
  <2> QED BY <2>2, <2>3, <2>4
<1>2. CASE ~initOnce /\ initOnceMutex' = p /\ Goes(p, "user")
  <2>1. Moves(p, [procs[p] EXCEPT !.pc = "user"])
    BY <1>2, PcSet DEF TypesThreads, PCs
  <2>2. TypesOutside' /\ TypesStore' /\ TypesThreads'
    BY <1>2, <2>1
    DEF EnterGetAllDriverInfos, TypesOutside, TypesStore, TypesThreads, Moves, Jobs
  <2>3. JobsOK'
    BY <1>2, <2>1
    DEF EnterGetAllDriverInfos, JobsOK, JobOK, IsLoad, LoadPCs, Moves, TypesThreads, Jobs
  <2>4. LocksHeld'
    BY <1>2, <2>1 DEF EnterGetAllDriverInfos, LocksHeld, Loading, LoadPCs, IsLoad, Moves,
      TypesThreads, Jobs, JobsOK, JobOK
  <2> QED BY <2>2, <2>3, <2>4
<1> QED
  BY <1>1, <1>2 DEF EnterGetAllDriverInfos

\* A thread that ends gives back the mutexes that it holds.
LEMMA CoreEnds ==
  ASSUME Core, NEW p \in Procs, Moves(p, Idle),
         initOnceMutex' = IF Loading(p) THEN Free ELSE initOnceMutex,
         bundleMgrMutex' = IF procs[p].pc \in {"asked", "sizing"} THEN Free ELSE bundleMgrMutex,
         databaseMutex' = IF procs[p].pc = "insert" THEN Free ELSE databaseMutex,
         UNCHANGED <<boot, reported, bms, apps, changes, account, events, initOnce, saved,
                     notices>>,
         table' \subseteq Rows, seen' \subseteq Rows, faults' \in 0..MaxFaults,
         excuses' \subseteq {"late", "unmatched"}
  PROVE  Core'
<1> USE ProcFacts, JobFacts DEF Core, TypeOK
<1>1. TypesOutside' /\ TypesStore' /\ TypesThreads'
  BY DEF TypesOutside, TypesStore, TypesThreads, Moves
<1>2. JobsOK'
  BY DEF JobsOK, JobOK, IsLoad, LoadPCs, Loading, Moves
<1>3. LocksHeld'
  BY DEF LocksHeld, Loading, LoadPCs, IsLoad, Moves
<1> QED BY <1>1, <1>2, <1>3

\* A thread that fails.
LEMMA CoreFails ==
  ASSUME Core, NEW p \in Procs, procs[p].pc \in LoadPCs, UpdateFails(p),
         bundleMgrMutex' = IF procs[p].pc \in {"asked", "sizing"} THEN Free ELSE bundleMgrMutex,
         databaseMutex' = IF procs[p].pc = "insert" THEN Free ELSE databaseMutex,
         UNCHANGED <<boot, reported, bms, apps, changes, account, events, initOnce, saved,
                     notices, seen>>,
         table' \subseteq Rows, faults' \in 0..MaxFaults
  PROVE  Core'
<1>1. TypesThreads
  BY DEF Core, TypeOK
<1>2. Moves(p, Idle) /\ excuses' \subseteq {"late", "unmatched"}
      /\ initOnceMutex' = IF Loading(p) THEN Free ELSE initOnceMutex
  BY <1>1, Failing DEF UpdateFails, Loading
<1>3. seen' \subseteq Rows
  BY DEF Core, TypeOK, TypesStore
<1> QED
  BY <1>2, <1>3, CoreEnds

LEMMA CoreGetCurrentActiveUserId ==
  ASSUME Core, NEW p \in Procs, GetCurrentActiveUserId(p) PROVE Core'
<1> USE ProcFacts, JobFacts DEF Core, TypeOK, store, outside
<1>1. CASE /\ procs' = [procs EXCEPT ![p].user = account.user, ![p].pc = "ask"]
           /\ UNCHANGED <<initOnceMutex, faults, excuses>>
  <2> DEFINE j == [procs[p] EXCEPT !.user = account.user, !.pc = "ask"]
  <2>1. account.user \in Users
    BY DEF TypesOutside
  <2>2. /\ j \in Jobs /\ j.op = procs[p].op /\ j.pc = "ask" /\ j.user = account.user
        /\ j.bundle = procs[p].bundle
    BY <2>1 DEF TypesThreads, Jobs, PCs
  <2>3. procs' = [procs EXCEPT ![p] = j]
    BY <1>1 DEF TypesThreads
  <2>4. Moves(p, j)
    BY <2>2, <2>3, JobSet DEF TypesThreads
  <2> HIDE DEF j
  <2>5. TypesOutside' /\ TypesStore' /\ TypesThreads'
    BY <1>1, <2>1, <2>2, <2>4
    DEF GetCurrentActiveUserId, TypesOutside, TypesStore, TypesThreads, Moves
  <2>6. JobsOK'
    BY <1>1, <2>1, <2>2, <2>4
    DEF GetCurrentActiveUserId, JobsOK, JobOK, IsLoad, LoadPCs, Moves
  <2>7. LocksHeld'
    BY <1>1, <2>2, <2>4
    DEF GetCurrentActiveUserId, LocksHeld, Loading, LoadPCs, IsLoad, Moves
  <2> QED BY <2>5, <2>6, <2>7
<1>2. CASE IfFaulty(LoadFails(p))
  <2>1. UpdateFails(p)
    BY <1>2 DEF GetCurrentActiveUserId, UpdateFails, IfFaulty, JobsOK, JobOK, IsLoad
  <2>2. faults' \in 0..MaxFaults
    BY <1>2, FaultCounted DEF IfFaulty
  <2> QED
    BY <1>2, <2>1, <2>2, CoreFails DEF GetCurrentActiveUserId, TypesStore, LoadPCs
<1> QED
  BY <1>1, <1>2 DEF GetCurrentActiveUserId

LEMMA CoreGetBundleMgrProxy ==
  ASSUME Core, NEW p \in Procs, GetBundleMgrProxy(p) PROVE Core'
<1> USE ProcFacts DEF Core, TypeOK, store
<1>1. CASE /\ ProxyFound /\ bundleMgrMutex' = p /\ Goes(p, "asked")
           /\ UNCHANGED <<initOnceMutex, excuses>>
  <2>1. Moves(p, [procs[p] EXCEPT !.pc = "asked"])
    BY <1>1, PcSet DEF TypesThreads, PCs
  <2>2. bms' \in [up : BOOLEAN, proxy : {"none", "live", "dead"}]
    BY <1>1 DEF TypesOutside, ProxyFound
  <2>3. TypesOutside' /\ TypesStore'
    BY <1>1, <2>2 DEF GetBundleMgrProxy, TypesOutside, TypesStore
  <2>6. TypesThreads'
    BY <1>1, <2>1 DEF GetBundleMgrProxy, ProxyFound, TypesThreads, Moves, Jobs
  <2>4. JobsOK'
    BY <1>1, <2>1
    DEF GetBundleMgrProxy, JobsOK, JobOK, IsLoad, LoadPCs, Moves, TypesThreads, Jobs
  <2>5. LocksHeld'
    BY <1>1, <2>1
    DEF GetBundleMgrProxy, LocksHeld, Loading, LoadPCs, IsLoad, Moves, TypesThreads, Jobs
  <2> QED BY <2>3, <2>4, <2>5, <2>6
<1>2. CASE ProxyMissing /\ UpdateFails(p) /\ UNCHANGED bundleMgrMutex
  <2>1. faults' \in 0..MaxFaults /\ UNCHANGED bms
    BY <1>2, FaultCounted DEF TypesThreads, ProxyMissing
  <2> QED
    BY <1>2, <2>1, CoreFails DEF GetBundleMgrProxy, TypesStore, LoadPCs
<1> QED
  BY <1>1, <1>2 DEF GetBundleMgrProxy, UpdateFails

LEMMA CoreBundleManagerAnswers ==
  ASSUME Core, NEW p \in Procs, BundleManagerAnswers(p) PROVE Core'
<1> USE ProcFacts DEF Core, TypeOK, store, outside
<1>1. procs[p] \in Jobs /\ procs[p].user \in Users /\ procs[p].pc = "asked"
  BY DEF BundleManagerAnswers, TypesThreads
<1>2. ASSUME NEW rows \in SUBSET Rows, Parsed(p, rows), excuses' \subseteq {"late", "unmatched"}
      PROVE  Core'
  <2>1. /\ procs' \in [Procs -> Jobs]
        /\ \A q \in Procs : q # p => procs'[q] = procs[q]
        /\ procs'[p].op = procs[p].op /\ procs'[p].pc = "begin"
        /\ procs'[p].user = procs[p].user /\ procs'[p].bundle = procs[p].bundle
    BY <1>2, ParsedFacts DEF TypesThreads
  <2>4. TypesOutside' /\ TypesStore'
    BY DEF BundleManagerAnswers, TypesOutside, TypesStore
  <2>5. TypesThreads'
    BY <1>1, <1>2, <2>1 DEF BundleManagerAnswers, TypesThreads
  <2>6. JobsOK'
    BY <1>1, <2>1 DEF BundleManagerAnswers, JobsOK, JobOK, IsLoad, LoadPCs
  <2>7. LocksHeld'
    BY <1>1, <2>1 DEF BundleManagerAnswers, LocksHeld, Loading, LoadPCs, IsLoad
  <2> QED BY <2>4, <2>5, <2>6, <2>7
<1>3. ASSUME ~IsLoad(p), procs' = [procs EXCEPT ![p] = Idle],
             excuses' \subseteq {"late", "unmatched"}
      PROVE  Core'
  <2>1. Moves(p, Idle)
    BY <1>3, JobSet, JobFacts DEF TypesThreads
  <2>2. /\ initOnceMutex' = IF Loading(p) THEN Free ELSE initOnceMutex
        /\ bundleMgrMutex' = IF procs[p].pc \in {"asked", "sizing"} THEN Free ELSE bundleMgrMutex
        /\ databaseMutex' = IF procs[p].pc = "insert" THEN Free ELSE databaseMutex
    BY <1>1, <1>3 DEF BundleManagerAnswers, Loading
  <2>3. UNCHANGED <<boot, reported, bms, apps, changes, account, events, initOnce, saved,
                    notices, table, seen, faults>>
    BY DEF BundleManagerAnswers
  <2>4. table' \subseteq Rows /\ seen' \subseteq Rows /\ faults' \in 0..MaxFaults
    BY <2>3 DEF TypesStore, TypesThreads
  <2> QED
    BY <1>3, <2>1, <2>2, <2>3, <2>4, CoreEnds
<1>4. excuses' \subseteq {"late", "unmatched"}
  BY DEF BundleManagerAnswers, TypesThreads, EventFails
<1>5. CASE IsLoad(p)
  <2> DEFINE rows == IF bms.proxy = "live" THEN AllOf(procs[p].user) ELSE {}
  <2>1. rows \in SUBSET Rows
    BY <1>1, ParseIsRows
  <2>2. Parsed(p, rows)
    BY <1>5 DEF BundleManagerAnswers
  <2> HIDE DEF rows
  <2> QED
    BY <1>2, <1>4, <2>1, <2>2
<1>6. CASE ~IsLoad(p)
  <2>1. ParseToPkgInfoTables(procs[p].bundle, procs[p].user) \in SUBSET Rows
    BY <1>1, <1>6, ParseIsRows DEF JobsOK, JobOK
  <2> QED
    BY <1>2, <1>3, <1>4, <1>6, <2>1 DEF BundleManagerAnswers, EventFails
<1> QED BY <1>5, <1>6

LEMMA CoreSize ==
  ASSUME Core, NEW p \in Procs, GetBundleSize(p) \/ GetBundleStats(p) PROVE Core'
<1> USE ProcFacts DEF Core, TypeOK
<1>1. /\ procs' \in [Procs -> Jobs]
      /\ \A q \in Procs : q # p => procs'[q] = procs[q]
      /\ procs'[p].op = procs[p].op
      /\ procs'[p].user = procs[p].user /\ procs'[p].bundle = procs[p].bundle
      /\ procs'[p].rows = procs[p].rows
      /\ procs[p].pc \in {"begin", "sizing"}
      /\ \/ /\ procs'[p].pc = "sizing" /\ procs[p].pc = "begin"
            /\ bundleMgrMutex = Free /\ bundleMgrMutex' = p
         \/ /\ procs'[p].pc = "begin" /\ procs[p].pc = "begin" /\ UNCHANGED bundleMgrMutex
         \/ /\ procs'[p].pc = "begin" /\ procs[p].pc = "sizing" /\ bundleMgrMutex' = Free
      /\ UNCHANGED <<boot, reported, apps, changes, account, events, initOnce, initOnceMutex,
                     databaseMutex, table, saved, notices, seen, excuses>>
  BY SizeFacts DEF TypesThreads
<1>2. faults' \in 0..MaxFaults /\ bms' \in [up : BOOLEAN, proxy : {"none", "live", "dead"}]
  BY FaultCounted DEF GetBundleSize, GetBundleStats, ProxyFound, ProxyMissing, outside,
    TypesThreads, TypesOutside
<1>3. TypesOutside' /\ TypesStore'
  BY <1>1, <1>2 DEF TypesOutside, TypesStore
<1>4. TypesThreads'
  BY <1>1, <1>2 DEF TypesThreads
<1>5. JobsOK'
  BY <1>1 DEF JobsOK, JobOK, IsLoad, LoadPCs
<1>6. LocksHeld'
  BY <1>1 DEF LocksHeld, Loading, LoadPCs, IsLoad
<1> QED BY <1>3, <1>4, <1>5, <1>6

\* A transaction that fails.
LEMMA CoreRollBack ==
  ASSUME Core, NEW p \in Procs, IfFaulty(RollBack(p)),
         \/ procs[p].pc = "insert"
         \/ procs[p].pc = "begin" /\ databaseMutex = Free,
         UNCHANGED <<boot, reported, bms, apps, changes, account, events, initOnce, saved,
                     notices, seen, bundleMgrMutex>>
  PROVE  Core'
<1> USE DEF Core, TypeOK
<1>1. faults' \in 0..MaxFaults
  BY FaultCounted DEF IfFaulty
<1>2. table' \subseteq Rows
  BY DEF IfFaulty, RollBack, TypesStore
<1> QED
  BY <1>1, <1>2, CoreFails DEF IfFaulty, RollBack, LoadPCs

LEMMA CoreBeginTransaction ==
  ASSUME Core, NEW p \in Procs, BeginTransaction(p) PROVE Core'
<1> USE ProcFacts DEF Core, TypeOK, store, outside
<1>1. CASE /\ databaseMutex' = p /\ table' = table \ Replaced(p) /\ Goes(p, "insert")
           /\ UNCHANGED <<initOnceMutex, faults, excuses>>
  <2>1. Moves(p, [procs[p] EXCEPT !.pc = "insert"])
    BY <1>1, PcSet DEF TypesThreads, PCs
  <2>2. TypesOutside' /\ TypesStore'
    BY <1>1 DEF BeginTransaction, TypesOutside, TypesStore
  <2>3. TypesThreads'
    BY <1>1, <2>1 DEF BeginTransaction, TypesThreads, Moves, Jobs
  <2>4. JobsOK'
    BY <1>1, <2>1
    DEF BeginTransaction, JobsOK, JobOK, IsLoad, LoadPCs, Moves, TypesThreads, Jobs
  <2>5. LocksHeld'
    BY <1>1, <2>1
    DEF BeginTransaction, LocksHeld, Loading, LoadPCs, IsLoad, Moves, TypesThreads, Jobs
  <2> QED BY <2>2, <2>3, <2>4, <2>5
<1>2. CASE IfFaulty(RollBack(p))
  BY <1>2, CoreRollBack DEF BeginTransaction
<1> QED
  BY <1>1, <1>2 DEF BeginTransaction

LEMMA CoreInsert ==
  ASSUME Core, NEW p \in Procs, Insert(p) PROVE Core'
<1> USE ProcFacts DEF Core, TypeOK, store, outside
<1>1. ASSUME NEW r \in procs[p].rows, table' = table \cup {r},
             procs' = [procs EXCEPT ![p].rows = @ \ {r}],
             UNCHANGED <<databaseMutex, initOnceMutex, faults, excuses>>
      PROVE  Core'
  <2> DEFINE j == [procs[p] EXCEPT !.rows = procs[p].rows \ {r}]
  <2>1. j \in Jobs /\ j.op = procs[p].op /\ j.pc = "insert" /\ j.user = procs[p].user
        /\ j.bundle = procs[p].bundle /\ r \in Rows
    BY <1>1 DEF Insert, TypesThreads, Jobs
  <2>2. procs' = [procs EXCEPT ![p] = j]
    BY <1>1 DEF TypesThreads
  <2>3. Moves(p, j)
    BY <2>1, <2>2, JobSet DEF TypesThreads
  <2> HIDE DEF j
  <2>4. TypesOutside' /\ TypesStore'
    BY <1>1, <2>1 DEF Insert, TypesOutside, TypesStore
  <2>5. TypesThreads'
    BY <1>1, <2>1, <2>3 DEF Insert, TypesThreads, Moves
  <2>6. JobsOK'
    BY <1>1, <2>1, <2>3 DEF Insert, JobsOK, JobOK, IsLoad, LoadPCs, Moves
  <2>7. LocksHeld'
    BY <1>1, <2>1, <2>3 DEF Insert, LocksHeld, Loading, LoadPCs, IsLoad, Moves
  <2> QED BY <2>4, <2>5, <2>6, <2>7
<1>2. CASE IfFaulty(RollBack(p))
  BY <1>2, CoreRollBack DEF Insert
<1> QED
  BY <1>1, <1>2 DEF Insert

LEMMA CoreCommit ==
  ASSUME Core, NEW p \in Procs, Commit(p) PROVE Core'
<1> USE ProcFacts, JobFacts DEF Core, TypeOK, store, outside
<1>1. CASE /\ databaseMutex' = Free /\ saved' = table
           /\ notices' = IF boot \in {"init", "listen"} THEN notices
                         ELSE notices \cup {procs[p].bundle}
           /\ procs' = [procs EXCEPT ![p] = IF IsLoad(p) THEN [@ EXCEPT !.pc = "flag"] ELSE Idle]
           /\ UNCHANGED <<table, initOnceMutex, faults, excuses>>
  <2>1. procs[p] \in Jobs
    BY DEF TypesThreads
  <2>2. PICK j \in Jobs :
          /\ procs' = [procs EXCEPT ![p] = j]
          /\ j.bundle = IF IsLoad(p) THEN procs[p].bundle ELSE AllBundles
          /\ j.pc = IF IsLoad(p) THEN "flag" ELSE "idle"
          /\ j.op = IF IsLoad(p) THEN procs[p].op ELSE "none"
          /\ j.user = IF IsLoad(p) THEN procs[p].user ELSE NoUser
    <3>1. CASE IsLoad(p)
      <4>1. [procs[p] EXCEPT !.pc = "flag"] \in Jobs
        BY <2>1 DEF Jobs, PCs
      <4>2. procs' = [procs EXCEPT ![p] = [procs[p] EXCEPT !.pc = "flag"]]
        BY <1>1, <3>1
      <4> QED BY <2>1, <3>1, <4>1, <4>2 DEF Jobs
    <3>2. CASE ~IsLoad(p)
      <4>1. procs' = [procs EXCEPT ![p] = Idle] /\ Idle.user = NoUser
        BY <1>1, <3>2 DEF Idle
      <4> QED BY <3>2, <4>1
    <3> QED BY <3>1, <3>2
  <2>3. Moves(p, j)
    BY <2>2, JobSet DEF TypesThreads
  <2>4. TypesOutside' /\ TypesStore'
    BY <1>1, <2>1 DEF Commit, TypesOutside, TypesStore, Jobs
  <2>5. TypesThreads'
    BY <1>1, <2>2, <2>3 DEF Commit, TypesThreads, Moves
  <2>6. JobsOK'
    BY <1>1, <2>2, <2>3 DEF Commit, JobsOK, JobOK, IsLoad, LoadPCs, Moves
  <2>7. LocksHeld'
    BY <1>1, <2>2, <2>3 DEF Commit, LocksHeld, Loading, LoadPCs, IsLoad, Moves
  <2> QED BY <2>4, <2>5, <2>6, <2>7
<1>2. CASE IfFaulty(RollBack(p)) /\ UNCHANGED <<saved, notices>>
  BY <1>2, CoreRollBack DEF Commit
<1> QED
  BY <1>1, <1>2 DEF Commit

LEMMA CoreSetInitOnce ==
  ASSUME Core, NEW p \in Procs, SetInitOnce(p) PROVE Core'
<1> USE ProcFacts, JobFacts DEF Core, TypeOK, store, outside
<1>1. TypesThreads /\ Moves(p, After(p, TRUE))
  BY AfterFacts, JobSet DEF TypesThreads, SetInitOnce
<1>2. IsLoad(p) /\ p # "ces" /\ boot # "off" /\ procs[p].bundle = AllBundles
  BY DEF SetInitOnce, JobsOK, JobOK, LoadPCs
<1>3. /\ procs'[p].bundle = AllBundles
      /\ \/ procs'[p].pc = "read" /\ procs'[p].op = procs[p].op
         \/ procs'[p].pc = "idle" /\ procs'[p].op = "none"
  BY <1>1, <1>2, AfterFacts DEF Moves
<1>4. TypesOutside' /\ TypesStore' /\ TypesThreads'
  BY <1>1, <1>3 DEF SetInitOnce, TypesOutside, TypesStore, TypesThreads, Moves
<1>5. \A q \in Procs : JobOK(q)'
  BY <1>1, <1>2, <1>3 DEF JobsOK, JobOK, IsLoad, LoadPCs, Moves
<1>6. JobsOK'
  BY <1>2, <1>5 DEF SetInitOnce, JobsOK
<1>7. LocksHeld'
  <2>1. Loading(p) /\ ~Loading(p)'
    BY <1>1, <1>2, <1>3 DEF SetInitOnce, Loading, LoadPCs, IsLoad, Moves
  <2>2. \A q \in Procs : q # p => ~Loading(q) /\ ~Loading(q)'
    BY <1>1, <2>1 DEF LocksHeld, Loading, IsLoad, Moves
  <2>3. \A q \in Procs : q # p => procs'[q].pc = procs[q].pc
    BY <1>1 DEF Moves
  <2>4. procs[p].pc = "flag" /\ procs'[p].pc \in {"read", "idle"}
    BY <1>3 DEF SetInitOnce
  <2>5. initOnceMutex' = Free /\ UNCHANGED <<bundleMgrMutex, databaseMutex>>
    BY DEF SetInitOnce
  <2> QED
    BY <2>1, <2>2, <2>3, <2>4, <2>5 DEF LocksHeld
<1> QED BY <1>4, <1>6, <1>7

LEMMA CoreIsCurrentUserId ==
  ASSUME Core, NEW p \in Procs, IsCurrentUserId(p) PROVE Core'
<1> USE ProcFacts, JobFacts DEF Core, TypeOK, store, outside, mutexes
<1>1. procs[p] \in Jobs /\ ~IsLoad(p) /\ procs[p].pc = "check" /\ boot # "off"
  BY DEF TypesThreads, IsCurrentUserId, JobsOK, JobOK
<1>8. faults' \in 0..MaxFaults /\ excuses' \subseteq {"late", "unmatched"}
  BY FaultCounted DEF IsCurrentUserId, IfFaulty, EventFails, TypesThreads
<1>2. PICK j \in Jobs :
        /\ procs' = [procs EXCEPT ![p] = j]
        /\ \/ j = Idle
           \/ /\ j.bundle = procs[p].bundle /\ j.user = procs[p].user /\ j.op = procs[p].op
              /\ j.pc = IF procs[p].op = "removed" THEN "begin" ELSE "ask"
  <2>1. CASE procs[p].user # account.user \/ procs' = [procs EXCEPT ![p] = Idle]
    BY <2>1 DEF IsCurrentUserId, IfFaulty, EventFails
  <2>2. CASE procs[p].user = account.user /\ procs' # [procs EXCEPT ![p] = Idle]
    <3> DEFINE j == [procs[p] EXCEPT !.pc = IF procs[p].op = "removed" THEN "begin" ELSE "ask"]
    <3>1. j \in Jobs /\ j.bundle = procs[p].bundle /\ j.user = procs[p].user
          /\ j.op = procs[p].op /\ j.pc = IF procs[p].op = "removed" THEN "begin" ELSE "ask"
      BY <1>1 DEF Jobs, PCs
    <3>2. procs' = [procs EXCEPT ![p] = j]
      BY <2>2 DEF IsCurrentUserId, IfFaulty, EventFails
    <3> QED BY <3>1, <3>2
  <2> QED BY <2>1, <2>2
<1>3. Moves(p, j)
  BY <1>2, JobSet DEF TypesThreads
<1>4. TypesOutside' /\ TypesStore'
  BY DEF IsCurrentUserId, TypesOutside, TypesStore
<1>5. TypesThreads'
  BY <1>1, <1>2, <1>3, <1>8 DEF IsCurrentUserId, TypesThreads, Moves, JobsOK, JobOK
<1>6. JobsOK'
  BY <1>1, <1>2, <1>3 DEF IsCurrentUserId, JobsOK, JobOK, IsLoad, LoadPCs, Moves
<1>7. LocksHeld'
  BY <1>1, <1>2, <1>3 DEF IsCurrentUserId, LocksHeld, Loading, LoadPCs, IsLoad, Moves
<1> QED BY <1>4, <1>5, <1>6, <1>7

LEMMA CoreQueryPkgInfos ==
  ASSUME Core, NEW p \in Procs, QueryPkgInfos(p) PROVE Core'
<1> USE DEF Core, TypeOK, store, outside, mutexes
<1>1. Moves(p, Idle)
  BY JobSet, JobFacts DEF QueryPkgInfos, TypesThreads
<1>2. seen' \subseteq Rows /\ table' \subseteq Rows
  BY DEF QueryPkgInfos, TypesStore, IfFaulty
<1>3. faults' \in 0..MaxFaults /\ excuses' \subseteq {"late", "unmatched"}
  BY FaultCounted DEF QueryPkgInfos, TypesThreads, IfFaulty
<1> QED
  BY <1>1, <1>2, <1>3, CoreEnds DEF QueryPkgInfos, Loading, LoadPCs

LEMMA CoreInit ==
  Init => Core
<1> SUFFICES ASSUME Init PROVE Core
  OBVIOUS
<1> USE ProcFacts, JobFacts
<1>1. PICK v \in Versions : \E w \in {v, NotInstalled} :
        apps = [u \in Users |-> [b \in Bundles |-> IF u \in Changing THEN w ELSE v]]
  BY DEF Init
<1>2. apps \in [Users -> [Bundles -> Versions \cup {NotInstalled}]]
  BY <1>1
<1>3. bms \in [up : BOOLEAN, proxy : {"none", "live", "dead"}]
      /\ account \in [user : Users, switched : BOOLEAN]
  BY UsersAssumption DEF Init
<1>4. 0 \in 0..MaxChanges /\ 0 \in 0..MaxFaults
  BY BoundsAssumption
<1>5. TypesOutside
  BY <1>2, <1>3, <1>4 DEF Init, TypesOutside
<1>6. TypesStore /\ TypesThreads
  BY <1>4 DEF Init, TypesStore, TypesThreads
<1>7. JobsOK /\ LocksHeld
  BY DEF Init, JobsOK, JobOK, LocksHeld, Loading, IsLoad, LoadPCs
<1> QED BY <1>5, <1>6, <1>7 DEF Core, TypeOK

LEMMA CoreStutter ==
  ASSUME Core, UNCHANGED vars PROVE Core'
BY DEF Core, TypeOK, TypesOutside, TypesStore, TypesThreads, JobsOK, JobOK, LocksHeld,
  Loading, IsLoad, vars

LEMMA CoreNext ==
  Core /\ [Next]_vars => Core'
<1> SUFFICES ASSUME Core, [Next]_vars PROVE Core'
  OBVIOUS
<1>1. ASSUME NEW p \in Procs, Thread(p) PROVE Core'
  BY <1>1, CoreWaitFutures, CoreEnter, CoreGetCurrentActiveUserId, CoreGetBundleMgrProxy,
    CoreBundleManagerAnswers, CoreSize, CoreBeginTransaction, CoreInsert, CoreCommit, CoreSetInitOnce,
    CoreIsCurrentUserId, CoreQueryPkgInfos
  DEF Thread
<1> QED
  BY <1>1, CoreBoot, CoreOnAddSystemAbility, CoreOnStop, CoreOutside, CoreResetBundleMgr,
    CoreOnBundleEvent, CoreOnAccountsSwitched, CoreStarts, CoreStutter
  DEF Next

LEMMA CoreInvariant ==
  Spec => []Core
BY CoreInit, CoreNext, PTL DEF Spec

\* Every reachable state of the service has its types, a thread that asks
\* the bundle manager knows for which account: also after a failed call.
THEOREM TypeCorrect ==
  Spec => []TypeOK
<1>1. Core => TypeOK BY DEF Core
<1> QED BY <1>1, CoreInvariant, PTL

\* Each of the three mutexes is held by exactly the thread in its section;
\* bundleMgrMutex_ has two, around the answer and around each size.
THEOREM LocksCorrect ==
  Spec => []LocksHeld
<1>1. Core => LocksHeld BY DEF Core
<1> QED BY <1>1, CoreInvariant, PTL

-----------------------------------------------------------------------------
(***************************************************************************)
(* The rows of the open transaction.                                       *)
(***************************************************************************)
\* What an account has installed is a whole answer, package by package.
LEMMA ParseIsWhole ==
  ASSUME TypeOK, NEW u \in Users
  PROVE  /\ \A b \in Bundles : \A r \in ParseToPkgInfoTables(b, u) : r.bundle = b
         /\ \A b \in Bundles : Table!RowsOfBundle(AllOf(u), b) = ParseToPkgInfoTables(b, u)
         /\ AllOf(u) \in Table!LoadAnswers(u)
<1>1. \A b \in Bundles : \A r \in ParseToPkgInfoTables(b, u) : r.bundle = b
  BY DEF ParseToPkgInfoTables, Table!Whole
<1>2. \A b \in Bundles : Table!RowsOfBundle(AllOf(u), b) = ParseToPkgInfoTables(b, u)
  BY <1>1 DEF AllOf, Table!RowsOfBundle
<1>3. Table!IsWhole(AllOf(u))
  BY <1>2, ParseIsRows DEF Table!IsWhole
<1>4. \A b \in Bundles : apps[u][b] \in Versions \cup {NotInstalled}
  BY DEF TypeOK, TypesOutside
<1>5. AllOf(u) \subseteq UNION {Table!Whole(b, u, v) : b \in Bundles, v \in Versions}
  BY <1>4 DEF AllOf, ParseToPkgInfoTables
<1> QED BY <1>1, <1>2, <1>3, <1>5 DEF Table!LoadAnswers

\* No answer is an answer too.
LEMMA NothingIsWhole ==
  /\ \A u \in Users : {} \in Table!LoadAnswers(u)
  /\ \A b \in Bundles : {} \in Table!Answers(b)
BY DEF Table!LoadAnswers, Table!IsWhole, Table!RowsOfBundle, Table!Answers

\* A step that neither writes rows nor takes a thread to a transaction.
Quiet ==
  /\ UNCHANGED <<table, saved, databaseMutex>>
  /\ \A q \in Procs : procs'[q] = procs[q] \/ procs'[q].pc \notin {"begin", "sizing", "insert"}

\* No thread comes to the flag, and none leaves it.
SameFlags == \A q \in Procs : (procs'[q].pc = "flag") <=> (procs[q].pc = "flag")

LEMMA WriteQuiet ==
  ASSUME WriteOK, Quiet PROVE WriteOK'
<1>1. \A q \in Procs : procs'[q].pc \in {"begin", "sizing", "insert"} =>
        procs'[q] = procs[q] /\ IsLoad(q)' = IsLoad(q)
  BY DEF Quiet, IsLoad
<1>2. \A b, S : With(b, S)' = With(b, S)
  BY DEF Quiet, With
<1> QED
  BY <1>1, <1>2 DEF WriteOK, Quiet

\* The steps of the services outside, and those that only start threads.
LEMMA QuietEnvironment ==
  ASSUME Core,
         \/ Boot \/ Outside \/ ResetBundleMgr \/ OnBundleEvent \/ OnAccountsSwitched
         \/ \E sa \in SystemAbilities : OnAddSystemAbility(sa)
         \/ \E p \in Clients \cup {"match"} : QueryMatchDriver(p)
         \/ OnBundlesUpdated
         \/ UNCHANGED vars
  PROVE  Quiet /\ SameFlags
<1> USE ProcFacts, JobFacts DEF Core, TypeOK, store, mutexes, outside
<1>1. procs \in [Procs -> Jobs]
  BY DEF TypesThreads
<1>2. ASSUME NEW p \in Procs, NEW j, j.pc \notin {"begin", "sizing", "insert", "flag"}, procs[p].pc # "flag",
             procs' = [procs EXCEPT ![p] = j], UNCHANGED <<table, saved, databaseMutex>>
      PROVE  Quiet /\ SameFlags
  BY <1>1, <1>2 DEF Quiet, SameFlags
<1>3. CASE UNCHANGED <<procs, table, saved, databaseMutex>>
  BY <1>3 DEF Quiet, SameFlags
<1>4. CASE Boot
  BY <1>2, <1>3, <1>4 DEF Boot, OnStart, AddSystemAbilityListeners, RegisterBundleCallback,
    SetDevChangeCallback, FreeLoaders
<1>5. CASE Outside \/ ResetBundleMgr \/ UNCHANGED vars
           \/ \E sa \in SystemAbilities : OnAddSystemAbility(sa)
  BY <1>3, <1>5 DEF Outside, PackageChanges, SwitchForeground, BundleManagerDies,
    BundleManagerRestarts, ResetBundleMgr, OnAddSystemAbility, vars
<1>6. CASE OnBundleEvent
  <2> DEFINE j == [op |-> Head(events).op, pc |-> "check", user |-> Head(events).user,
                   bundle |-> Head(events).bundle, rows |-> {}, sizes |-> {}]
  <2>1. j.pc = "check" OBVIOUS
  <2>2. procs' = [procs EXCEPT !["ces"] = j]
    BY <1>6 DEF OnBundleEvent
  <2> HIDE DEF j
  <2> QED BY <1>2, <1>6, <2>1, <2>2 DEF OnBundleEvent
<1>7. CASE OnAccountsSwitched
  BY <1>2, <1>7 DEF OnAccountsSwitched, FreeLoaders
<1>8. \A op : [Idle EXCEPT !.op = op, !.pc = "init"].pc = "init"
  BY DEF Idle
<1>9. CASE OnBundlesUpdated
  <2>1. procs' = [procs EXCEPT !["match"] = [Idle EXCEPT !.op = "notice", !.pc = "init"]]
    BY <1>9 DEF OnBundlesUpdated
  <2> QED BY <1>1, <1>8, <1>9, <2>1 DEF OnBundlesUpdated, Quiet, SameFlags
<1>10. ASSUME NEW p \in Clients \cup {"match"}, QueryMatchDriver(p) PROVE Quiet /\ SameFlags
  <2>1. procs' = [procs EXCEPT ![p] = [Idle EXCEPT !.op = "query", !.pc = "init"]]
    BY <1>10 DEF QueryMatchDriver
  <2> QED BY <1>1, <1>8, <1>10, <2>1 DEF QueryMatchDriver, Quiet, SameFlags
<1> QED
  BY <1>4, <1>5, <1>6, <1>7, <1>9, <1>10

\* The steps of a thread outside a transaction.
LEMMA QuietThread ==
  ASSUME Core, NEW p \in Procs,
         \/ WaitFutures(p) \/ EnterGetAllDriverInfos(p) \/ GetCurrentActiveUserId(p)
         \/ GetBundleMgrProxy(p) \/ QueryPkgInfos(p)
  PROVE  Quiet /\ SameFlags
<1> USE ProcFacts, JobFacts DEF Core, TypeOK, store, mutexes, outside
<1>1. procs \in [Procs -> Jobs] /\ procs[p] \in Jobs /\ TypesThreads
  BY DEF TypesThreads
<1>2. ASSUME NEW j, Moves(p, j), j.pc \notin {"begin", "sizing", "insert", "flag"},
             procs[p].pc # "flag", UNCHANGED <<table, saved, databaseMutex>>
      PROVE  Quiet /\ SameFlags
  BY <1>1, <1>2 DEF Quiet, SameFlags, Moves
<1>3. ASSUME NEW pc \in PCs, Goes(p, pc), pc \notin {"begin", "sizing", "insert", "flag"},
             procs[p].pc # "flag", UNCHANGED <<table, saved, databaseMutex>>
      PROVE  Quiet /\ SameFlags
  BY <1>1, <1>2, <1>3, PcSet DEF Jobs
<1>4. After(p, TRUE) \in Jobs /\ After(p, TRUE).pc \in {"idle", "read"}
  BY <1>1, AfterFacts
<1>5. CASE WaitFutures(p)
  BY <1>3, <1>5 DEF WaitFutures, PCs
<1>6. CASE EnterGetAllDriverInfos(p)
  <2>1. CASE Goes(p, "user")
    BY <1>3, <1>6, <2>1 DEF EnterGetAllDriverInfos, PCs
  <2>2. CASE procs' = [procs EXCEPT ![p] = After(p, TRUE)]
    <3>1. Moves(p, After(p, TRUE))
      BY <1>1, <1>4, <2>2, JobSet
    <3> QED BY <1>2, <1>4, <1>6, <3>1 DEF EnterGetAllDriverInfos
  <2> QED BY <1>6, <2>1, <2>2 DEF EnterGetAllDriverInfos
<1>7. CASE GetCurrentActiveUserId(p)
  <2>1. CASE procs' = [procs EXCEPT ![p].user = account.user, ![p].pc = "ask"]
    BY <1>1, <1>7, <2>1 DEF GetCurrentActiveUserId, Quiet, SameFlags, Jobs
  <2>2. CASE IfFaulty(LoadFails(p))
    BY <1>1, <1>2, <1>7, <2>2, Failing DEF GetCurrentActiveUserId, IfFaulty
  <2> QED BY <1>7, <2>1, <2>2 DEF GetCurrentActiveUserId
<1>8. CASE GetBundleMgrProxy(p)
  <2>1. CASE Goes(p, "asked")
    BY <1>3, <1>8, <2>1 DEF GetBundleMgrProxy, PCs
  <2>2. CASE LoadFails(p) \/ EventFails(p)
    BY <1>1, <1>2, <1>8, <2>2, Failing DEF GetBundleMgrProxy
  <2> QED BY <1>8, <2>1, <2>2 DEF GetBundleMgrProxy
<1>9. CASE QueryPkgInfos(p)
  BY <1>1, <1>2, <1>9, JobSet DEF QueryPkgInfos
<1> QED
  BY <1>5, <1>6, <1>7, <1>8, <1>9

LEMMA QuietSetInitOnce ==
  ASSUME Core, NEW p \in Procs, SetInitOnce(p)
  PROVE  /\ Quiet
         /\ \A q \in Procs : procs'[q].pc # "flag"
<1> USE DEF Core, TypeOK
<1>1. TypesThreads /\ Moves(p, After(p, TRUE)) /\ After(p, TRUE).pc \in {"idle", "read"}
  BY AfterFacts, JobSet, JobFacts DEF TypesThreads, SetInitOnce
<1>2. \A q \in Procs : procs[q].pc = "flag" => q = p
  BY ProcFacts DEF SetInitOnce, LocksHeld, Loading, LoadPCs, JobsOK, JobOK
<1> QED
  BY <1>1, <1>2 DEF SetInitOnce, Quiet, Moves, store

LEMMA WriteAnswer ==
  ASSUME Core, WriteOK, NEW p \in Procs, BundleManagerAnswers(p) PROVE WriteOK'
<1> USE ProcFacts, JobFacts DEF Core, TypeOK, store, outside
<1>1. /\ procs \in [Procs -> Jobs] /\ procs[p] \in Jobs
      /\ procs[p].user \in Users /\ procs[p].pc = "asked"
      /\ UNCHANGED <<table, saved, databaseMutex>>
  BY DEF BundleManagerAnswers, TypesThreads
<1>2. CASE procs' = [procs EXCEPT ![p] = Idle]
  BY <1>1, <1>2, WriteQuiet DEF Quiet
<1>3. ASSUME NEW rows \in SUBSET Rows, Parsed(p, rows),
             IsLoad(p) => rows \in Table!LoadAnswers(procs[p].user),
             ~IsLoad(p) => rows \in Table!Answers(procs[p].bundle)
      PROVE  WriteOK'
  <2>1. /\ procs'[p].op = procs[p].op /\ procs'[p].pc = "begin" /\ procs'[p].rows = rows
        /\ procs'[p].user = procs[p].user /\ procs'[p].bundle = procs[p].bundle
        /\ \A q \in Procs : q # p => procs'[q] = procs[q]
    BY <1>1, <1>3, ParsedFacts
  <2>2. \A q \in Procs : IsLoad(q)' = IsLoad(q)
    BY <2>1 DEF IsLoad
  <2>3. \A b, S : With(b, S)' = With(b, S)
    BY <1>1 DEF With
  <2>4. /\ IsLoad(p)' => procs'[p].rows \in Table!LoadAnswers(procs'[p].user)
        /\ ~IsLoad(p)' => procs'[p].rows \in Table!Answers(procs'[p].bundle)
        /\ procs'[p].pc # "insert"
    BY <1>3, <2>1, <2>2
  <2> HIDE JobFacts, ProcFacts DEF Core, TypeOK, store, outside
  <2> QED
    BY <1>1, <2>1, <2>2, <2>3, <2>4 DEF WriteOK
<1>4. CASE IsLoad(p)
  <2> DEFINE rows == IF bms.proxy = "live" THEN AllOf(procs[p].user) ELSE {}
  <2>1. rows \in Table!LoadAnswers(procs[p].user) /\ rows \in SUBSET Rows
    BY <1>1, ParseIsWhole, ParseIsRows, NothingIsWhole
  <2>2. Parsed(p, rows)
    BY <1>4 DEF BundleManagerAnswers
  <2> HIDE DEF rows
  <2> QED BY <1>3, <1>4, <2>1, <2>2
<1>5. CASE ~IsLoad(p)
  <2>1. /\ ParseToPkgInfoTables(procs[p].bundle, procs[p].user)
             \in Table!Answers(procs[p].bundle)
        /\ ParseToPkgInfoTables(procs[p].bundle, procs[p].user) \in SUBSET Rows
    BY <1>1, <1>5, ParseIsRows DEF JobsOK, JobOK
  <2> QED BY <1>2, <1>3, <1>5, <2>1 DEF BundleManagerAnswers, EventFails
<1> QED BY <1>4, <1>5

LEMMA WriteSize ==
  ASSUME Core, WriteOK, NEW p \in Procs, GetBundleSize(p) \/ GetBundleStats(p) PROVE WriteOK'
<1>1. /\ \A q \in Procs : q # p => procs'[q] = procs[q]
      /\ procs'[p].op = procs[p].op
      /\ procs'[p].user = procs[p].user /\ procs'[p].bundle = procs[p].bundle
      /\ procs'[p].rows = procs[p].rows
      /\ procs[p].pc \in {"begin", "sizing"} /\ procs'[p].pc \in {"begin", "sizing"}
      /\ UNCHANGED <<databaseMutex, table, saved>>
  BY SizeFacts DEF Core, TypeOK, TypesThreads
<1>2. \A q \in Procs : IsLoad(q)' = IsLoad(q)
  BY <1>1 DEF IsLoad
<1>3. \A b, S : With(b, S)' = With(b, S)
  BY <1>1 DEF With
<1> QED
  BY <1>1, <1>2, <1>3 DEF WriteOK

LEMMA WriteRollBack ==
  ASSUME Core, WriteOK, NEW p \in Procs, IfFaulty(RollBack(p)), UNCHANGED saved,
         \/ procs[p].pc = "insert"
         \/ procs[p].pc = "begin" /\ databaseMutex = Free
  PROVE  WriteOK'
<1> USE ProcFacts, JobFacts DEF Core, TypeOK
<1>1. Moves(p, Idle) /\ table' = saved /\ databaseMutex' = Free
  <2>1. LoadFails(p) \/ EventFails(p)
    BY DEF IfFaulty, RollBack, UpdateFails
  <2> QED BY <2>1, Failing DEF IfFaulty, RollBack
<1>2. \A q \in Procs : q # p => procs[q].pc # "insert"
  BY DEF LocksHeld
<1>3. \A q \in Procs : /\ q # p => procs'[q] = procs[q]
                       /\ procs'[q].pc # "insert"
                       /\ IsLoad(q)' = IsLoad(q) \/ q = p
  BY <1>1, <1>2 DEF Moves, IsLoad
<1>4. procs'[p].pc = "idle"
  BY <1>1 DEF Moves
<1> QED
  BY <1>1, <1>3, <1>4 DEF WriteOK

LEMMA WriteBegin ==
  ASSUME Core, WriteOK, NEW p \in Procs, BeginTransaction(p) PROVE WriteOK'
<1> USE ProcFacts DEF Core, TypeOK, store, outside
<1>1. CASE IfFaulty(RollBack(p))
  BY <1>1, WriteRollBack DEF BeginTransaction
<1>2. CASE databaseMutex' = p /\ table' = table \ Replaced(p) /\ Goes(p, "insert")
  <2>1. procs \in [Procs -> Jobs] /\ procs[p] \in Jobs /\ table = saved
        /\ procs[p].pc = "begin" /\ saved' = saved
    BY DEF TypesThreads, BeginTransaction, WriteOK
  <2>2. /\ procs'[p].op = procs[p].op /\ procs'[p].pc = "insert"
        /\ procs'[p].rows = procs[p].rows
        /\ procs'[p].user = procs[p].user /\ procs'[p].bundle = procs[p].bundle
        /\ \A q \in Procs : q # p => procs'[q] = procs[q]
    BY <1>2, <2>1 DEF Goes, Jobs
  <2>3. \A q \in Procs : IsLoad(q)' = IsLoad(q)
    BY <2>2 DEF IsLoad
  <2>4. \A q \in Procs : q # p => procs[q].pc # "insert"
    BY DEF LocksHeld, BeginTransaction
  <2>5. IsLoad(p) => table' \cup procs'[p].rows = procs[p].rows
    BY <1>2, <2>2 DEF Replaced, JobsOK, JobOK
  <2>6. ~IsLoad(p) => table' \cup procs'[p].rows = With(procs[p].bundle, procs[p].rows)
    BY <1>2, <2>1, <2>2, BundlesAssumption DEF Replaced, JobsOK, JobOK, With
  <2>7. \A b, S : With(b, S)' = With(b, S)
    BY <2>1 DEF With
  <2>8. databaseMutex' # Free
    BY <1>2
  <2> QED
    BY <2>1, <2>2, <2>3, <2>4, <2>5, <2>6, <2>7, <2>8 DEF WriteOK
<1> QED
  BY <1>1, <1>2 DEF BeginTransaction

LEMMA WriteInsert ==
  ASSUME Core, WriteOK, NEW p \in Procs, Insert(p) PROVE WriteOK'
<1> USE ProcFacts DEF Core, TypeOK, store, outside
<1>1. CASE IfFaulty(RollBack(p))
  BY <1>1, WriteRollBack DEF Insert
<1>2. ASSUME NEW r \in procs[p].rows, table' = table \cup {r},
             procs' = [procs EXCEPT ![p].rows = @ \ {r}], UNCHANGED databaseMutex
      PROVE  WriteOK'
  <2>1. procs \in [Procs -> Jobs] /\ procs[p] \in Jobs
        /\ procs[p].pc = "insert" /\ saved' = saved
    BY DEF TypesThreads, Insert
  <2>2. /\ procs'[p].op = procs[p].op /\ procs'[p].pc = "insert"
        /\ procs'[p].rows = procs[p].rows \ {r}
        /\ procs'[p].user = procs[p].user /\ procs'[p].bundle = procs[p].bundle
        /\ \A q \in Procs : q # p => procs'[q] = procs[q]
    BY <1>2, <2>1 DEF Jobs
  <2>3. \A q \in Procs : IsLoad(q)' = IsLoad(q)
    BY <2>2 DEF IsLoad
  <2>4. \A q \in Procs : q # p => procs[q].pc # "insert"
    BY <2>1 DEF LocksHeld
  <2>5. table' \cup procs'[p].rows = table \cup procs[p].rows
    BY <1>2, <2>2
  <2>6. \A b, S : With(b, S)' = With(b, S)
    BY <2>1 DEF With
  <2>7. databaseMutex' # Free
    BY <1>2, <2>1 DEF LocksHeld
  <2> QED
    BY <2>1, <2>2, <2>3, <2>4, <2>5, <2>6, <2>7 DEF WriteOK
<1> QED
  BY <1>1, <1>2 DEF Insert

LEMMA WriteCommit ==
  ASSUME Core, WriteOK, NEW p \in Procs, Commit(p) PROVE WriteOK'
<1> USE ProcFacts, JobFacts DEF Core, TypeOK, store, outside
<1>1. CASE IfFaulty(RollBack(p)) /\ UNCHANGED <<saved, notices>>
  BY <1>1, WriteRollBack DEF Commit
<1>2. CASE /\ databaseMutex' = Free /\ saved' = table /\ UNCHANGED table
           /\ procs' = [procs EXCEPT ![p] = IF IsLoad(p) THEN [@ EXCEPT !.pc = "flag"] ELSE Idle]
  <2>1. procs \in [Procs -> Jobs] /\ procs[p] \in Jobs /\ procs[p].pc = "insert"
    BY DEF TypesThreads, Commit
  <2>2. procs'[p].pc \in {"flag", "idle"} /\ \A q \in Procs : q # p => procs'[q] = procs[q]
    BY <1>2, <2>1 DEF Jobs
  <2>3. \A q \in Procs : q # p => procs[q].pc # "insert"
    BY <2>1 DEF LocksHeld
  <2>4. \A q \in Procs : q # p => IsLoad(q)' = IsLoad(q)
    BY <2>2 DEF IsLoad
  <2> QED
    BY <1>2, <2>2, <2>3, <2>4 DEF WriteOK
<1> QED
  BY <1>1, <1>2 DEF Commit

LEMMA WriteCheck ==
  ASSUME Core, WriteOK, NEW p \in Procs, IsCurrentUserId(p) PROVE WriteOK'
<1> USE ProcFacts, JobFacts DEF Core, TypeOK, store, outside, mutexes
<1>1. /\ procs \in [Procs -> Jobs] /\ procs[p] \in Jobs
      /\ ~IsLoad(p) /\ procs[p].pc = "check" /\ procs[p].rows = {} /\ procs[p].bundle \in Bundles
      /\ UNCHANGED <<table, saved, databaseMutex>>
  BY DEF TypesThreads, IsCurrentUserId, JobsOK, JobOK
<1>2. /\ \A q \in Procs : q # p => procs'[q] = procs[q]
      /\ \/ procs'[p] = Idle
         \/ /\ procs'[p].pc \in {"ask", "begin"} /\ procs'[p].op = procs[p].op
            /\ procs'[p].rows = {} /\ procs'[p].bundle = procs[p].bundle
  <2>1. CASE procs[p].user # account.user \/ procs' = [procs EXCEPT ![p] = Idle]
    BY <1>1, <2>1 DEF IsCurrentUserId, IfFaulty, EventFails
  <2>2. CASE procs[p].user = account.user /\ procs' # [procs EXCEPT ![p] = Idle]
    BY <1>1, <2>2 DEF IsCurrentUserId, IfFaulty, EventFails, Jobs
  <2> QED BY <2>1, <2>2
<1>3. \A q \in Procs : q # p => IsLoad(q)' = IsLoad(q)
  BY <1>2 DEF IsLoad
<1>4. \A b, S : With(b, S)' = With(b, S)
  BY <1>1 DEF With
<1>5. procs'[p].pc \in {"begin", "sizing"} => ~IsLoad(p)' /\ procs'[p].rows \in Table!Answers(procs'[p].bundle)
  BY <1>1, <1>2, NothingIsWhole DEF IsLoad
<1> QED
  BY <1>1, <1>2, <1>3, <1>4, <1>5 DEF WriteOK

LEMMA WriteOnStop ==
  ASSUME OnStop PROVE WriteOK'
<1>1. databaseMutex' = Free /\ table' = saved' /\ \A q \in Procs : procs'[q].pc = "idle"
  BY JobFacts DEF OnStop
<1> QED
  BY <1>1 DEF WriteOK

LEMMA WriteNext ==
  Core /\ WriteOK /\ [Next]_vars => WriteOK'
<1> SUFFICES ASSUME Core, WriteOK, [Next]_vars PROVE WriteOK'
  OBVIOUS
<1>1. ASSUME NEW p \in Procs, Thread(p) PROVE WriteOK'
  BY <1>1, QuietThread, QuietSetInitOnce, WriteQuiet, WriteAnswer, WriteSize, WriteBegin, WriteInsert,
    WriteCommit, WriteCheck
  DEF Thread
<1> QED
  BY <1>1, WriteOnStop, QuietEnvironment, WriteQuiet DEF Next

LEMMA WriteInit ==
  Init => WriteOK
<1> SUFFICES ASSUME Init PROVE WriteOK
  OBVIOUS
<1>1. table = saved /\ \A q \in Procs : procs[q].pc = "idle"
  BY JobFacts DEF Init
<1> QED
  BY <1>1 DEF WriteOK

-----------------------------------------------------------------------------
(***************************************************************************)
(* The refinement of DriverTable.                                          *)
(***************************************************************************)
Flagged == \E p \in Procs : procs[p].pc = "flag"

\* A step that changes neither the saved rows nor how far the load is.
LEMMA TableStutters ==
  ASSUME UNCHANGED <<saved, initOnce>>, SameFlags PROVE UNCHANGED Table!tableVars
<1>1. Flagged' <=> Flagged
  BY DEF Flagged, SameFlags
<1>2. (\E p \in Procs : procs'[p].pc = "flag") <=> (\E p \in Procs : procs[p].pc = "flag")
  BY <1>1 DEF Flagged
<1> QED
  BY <1>2 DEF Table!tableVars

LEMMA FlagsKept ==
  ASSUME Core, NEW p \in Procs,
         \/ BundleManagerAnswers(p) \/ GetBundleSize(p) \/ GetBundleStats(p)
         \/ BeginTransaction(p) \/ Insert(p) \/ IsCurrentUserId(p)
  PROVE  SameFlags
<1> USE JobFacts DEF Core, TypeOK
<1>1. procs \in [Procs -> Jobs] /\ procs[p] \in Jobs /\ TypesThreads
  BY DEF TypesThreads
<1>2. CASE BundleManagerAnswers(p)
  <2>1. (\E rows \in SUBSET Rows : Parsed(p, rows)) \/ procs' = [procs EXCEPT ![p] = Idle]
    <3>1. CASE IsLoad(p)
      BY <1>2, <3>1, ParseIsRows DEF BundleManagerAnswers, TypesThreads
    <3>2. CASE ~IsLoad(p)
      BY <1>2, <3>2, ParseIsRows DEF BundleManagerAnswers, EventFails, TypesThreads, JobsOK, JobOK
    <3> QED BY <3>1, <3>2
  <2>2. \A rows \in SUBSET Rows : Parsed(p, rows) => SameFlags
    BY <1>1, <1>2, ParsedFacts DEF BundleManagerAnswers, SameFlags
  <2> QED BY <1>1, <1>2, <2>1, <2>2 DEF BundleManagerAnswers, SameFlags
<1>3. ASSUME RollBack(p), procs[p].pc # "flag" PROVE SameFlags
  <2>1. Moves(p, Idle)
    BY <1>1, <1>3, Failing DEF RollBack, UpdateFails
  <2> QED BY <1>3, <2>1 DEF Moves, SameFlags
<1>4. CASE BeginTransaction(p)
  BY <1>1, <1>3, <1>4 DEF BeginTransaction, IfFaulty, Goes, SameFlags, Jobs
<1>5. CASE Insert(p)
  BY <1>1, <1>3, <1>5 DEF Insert, IfFaulty, SameFlags, Jobs
<1>6. CASE IsCurrentUserId(p)
  BY <1>1, <1>6 DEF IsCurrentUserId, IfFaulty, EventFails, SameFlags, Jobs
<1>7. CASE GetBundleSize(p) \/ GetBundleStats(p)
  BY <1>1, <1>7, SizeFacts DEF SameFlags
<1> QED BY <1>2, <1>4, <1>5, <1>6, <1>7

LEMMA RefineOnStop ==
  ASSUME OnStop PROVE Table!Restart
<1>1. ~initOnce' /\ saved' = saved /\ \A q \in Procs : procs'[q].pc # "flag"
  BY JobFacts DEF OnStop
<1> QED
  BY <1>1 DEF Table!Restart

LEMMA RefineSwitched ==
  ASSUME Core, OnAccountsSwitched PROVE Table!Forget
<1>1. \A q \in Procs : procs[q].pc # "flag"
  BY ProcFacts DEF Core, LocksHeld, Loading, LoadPCs, JobsOK, JobOK, OnAccountsSwitched
<1>2. \A q \in Procs : procs'[q].pc # "flag"
  BY <1>1, QuietEnvironment DEF SameFlags
<1>3. ~initOnce' /\ saved' = saved
  BY DEF OnAccountsSwitched, store
<1> QED
  BY <1>1, <1>2, <1>3 DEF Table!Forget

LEMMA RefineSetInitOnce ==
  ASSUME Core, NEW p \in Procs, SetInitOnce(p) PROVE Table!LoadDone
<1>1. ~initOnce /\ procs[p].pc = "flag"
  BY ProcFacts DEF Core, LocksHeld, Loading, LoadPCs, JobsOK, JobOK, SetInitOnce
<1>2. initOnce' /\ saved' = saved
  BY DEF SetInitOnce, store
<1> QED
  BY <1>1, <1>2 DEF Table!LoadDone

LEMMA RefineCommit ==
  ASSUME Core, WriteOK, NEW p \in Procs, Commit(p)
  PROVE  Table!Load \/ (\E b \in Bundles : Table!Replace(b)) \/ UNCHANGED Table!tableVars
<1> USE ProcFacts, JobFacts DEF Core, TypeOK
<1>1. /\ procs \in [Procs -> Jobs] /\ procs[p] \in Jobs /\ TypesThreads
      /\ procs[p].pc = "insert" /\ procs[p].rows = {} /\ initOnce' = initOnce
  BY DEF TypesThreads, Commit
<1>2. CASE IfFaulty(RollBack(p)) /\ UNCHANGED <<saved, notices>>
  <2>1. Moves(p, Idle)
    BY <1>1, <1>2, Failing DEF IfFaulty, RollBack, UpdateFails
  <2>2. SameFlags
    BY <1>1, <2>1 DEF Moves, SameFlags
  <2> QED BY <1>1, <1>2, <2>2, TableStutters
<1>3. CASE saved' = table /\ IsLoad(p)
           /\ procs' = [procs EXCEPT ![p] = IF IsLoad(p) THEN [@ EXCEPT !.pc = "flag"] ELSE Idle]
  <2>1. procs'[p].pc = "flag"
    BY <1>1, <1>3 DEF Jobs
  <2>2. \A q \in Procs : procs[q].pc # "flag"
    BY <1>1, <1>3 DEF LocksHeld, Loading, LoadPCs, JobsOK, JobOK
  <2>3. ~initOnce
    BY <1>1, <1>3 DEF LocksHeld, Loading, LoadPCs, JobsOK
  <2>4. saved' \in Table!LoadAnswers(procs[p].user) /\ procs[p].user \in Users
    BY <1>1, <1>3 DEF WriteOK, JobsOK, JobOK, LoadPCs
  <2>6. ~initOnce' /\ \E q \in Procs : procs'[q].pc = "flag"
    BY <1>1, <2>1, <2>3
  <2> QED
    BY <2>2, <2>3, <2>4, <2>6 DEF Table!Load
<1>4. CASE saved' = table /\ ~IsLoad(p)
           /\ procs' = [procs EXCEPT ![p] = IF IsLoad(p) THEN [@ EXCEPT !.pc = "flag"] ELSE Idle]
  <2>1. SameFlags
    BY <1>1, <1>4 DEF SameFlags
  <2>2. (\E q \in Procs : procs'[q].pc = "flag") <=> (\E q \in Procs : procs[q].pc = "flag")
    BY <2>1 DEF SameFlags
  <2>3. procs[p].bundle \in Bundles
    BY <1>1, <1>4 DEF JobsOK, JobOK
  <2>4. \E S \in Table!Answers(procs[p].bundle) : saved' = With(procs[p].bundle, S)
    BY <1>1, <1>4 DEF WriteOK
  <2>5. Table!Replace(procs[p].bundle)
    BY <1>1, <2>2, <2>4 DEF Table!Replace, With
  <2> QED BY <2>3, <2>5
<1> QED
  BY <1>2, <1>3, <1>4 DEF Commit

\* Every step of the service is a step of the table, or changes nothing of it.
LEMMA RefineNext ==
  Core /\ WriteOK /\ [Next]_vars => [Table!Next]_(Table!tableVars)
<1> SUFFICES ASSUME Core, WriteOK, [Next]_vars PROVE [Table!Next]_(Table!tableVars)
  OBVIOUS
<1>1. CASE OnStop
  BY <1>1, RefineOnStop DEF Table!Next
<1>2. CASE OnAccountsSwitched
  BY <1>2, RefineSwitched DEF Table!Next
<1>3. ASSUME NEW p \in Procs, SetInitOnce(p) \/ Commit(p)
      PROVE  [Table!Next]_(Table!tableVars)
  BY <1>3, RefineSetInitOnce, RefineCommit DEF Table!Next
<1>4. ASSUME NEW p \in Procs,
             \/ WaitFutures(p) \/ EnterGetAllDriverInfos(p) \/ GetCurrentActiveUserId(p)
             \/ GetBundleMgrProxy(p) \/ QueryPkgInfos(p)
             \/ BundleManagerAnswers(p) \/ GetBundleSize(p) \/ GetBundleStats(p)
             \/ BeginTransaction(p) \/ Insert(p) \/ IsCurrentUserId(p)
      PROVE  UNCHANGED Table!tableVars
  <2>1. SameFlags
    BY <1>4, QuietThread, FlagsKept
  <2>2. UNCHANGED <<saved, initOnce>>
    BY <1>4 DEF WaitFutures, EnterGetAllDriverInfos, GetCurrentActiveUserId, GetBundleMgrProxy,
      QueryPkgInfos, BundleManagerAnswers, GetBundleSize, GetBundleStats, BeginTransaction,
      Insert, IsCurrentUserId, store
  <2> QED BY <2>1, <2>2, TableStutters
<1>5. CASE \/ Boot \/ Outside \/ ResetBundleMgr \/ OnBundleEvent
           \/ \E sa \in SystemAbilities : OnAddSystemAbility(sa)
           \/ \E p \in Clients \cup {"match"} : QueryMatchDriver(p)
           \/ OnBundlesUpdated
           \/ UNCHANGED vars
  <2>1. SameFlags
    BY <1>5, QuietEnvironment
  <2>2. UNCHANGED <<saved, initOnce>>
    <3>1. CASE Boot \/ OnBundleEvent \/ OnBundlesUpdated \/ UNCHANGED vars
      BY <3>1 DEF Boot, OnStart, AddSystemAbilityListeners, RegisterBundleCallback,
        SetDevChangeCallback, OnBundleEvent, OnBundlesUpdated, vars, store
    <3>2. CASE Outside \/ ResetBundleMgr
      BY <3>2 DEF Outside, PackageChanges, SwitchForeground, BundleManagerDies,
        BundleManagerRestarts, ResetBundleMgr, store
    <3>3. CASE \/ \E sa \in SystemAbilities : OnAddSystemAbility(sa)
               \/ \E p \in Clients \cup {"match"} : QueryMatchDriver(p)
      BY <3>3 DEF OnAddSystemAbility, QueryMatchDriver, store
    <3> QED BY <1>5, <3>1, <3>2, <3>3
  <2> QED BY <2>1, <2>2, TableStutters
<1> QED
  BY <1>1, <1>2, <1>3, <1>4, <1>5 DEF Next, Thread

LEMMA RefineInit ==
  Init => Table!Init
<1> SUFFICES ASSUME Init PROVE Table!Init
  OBVIOUS
<1>1. saved = {} /\ ~initOnce /\ \A q \in Procs : procs[q].pc = "idle"
  BY JobFacts DEF Init
<1> QED
  BY <1>1 DEF Table!Init

\* The service implements the table: whole answers, loaded once, over failed
\* transactions, concurrent loads and events, and the end of the process.
THEOREM TableRefined ==
  Spec => TableSpec
<1>1. Init => Core /\ WriteOK
  BY CoreInit, WriteInit
<1>2. Core /\ WriteOK /\ [Next]_vars => (Core /\ WriteOK)'
  BY CoreNext, WriteNext
<1>3. Spec => Table!Spec
  BY <1>1, <1>2, RefineInit, RefineNext, PTL DEF Spec, Table!Spec
<1> QED
  BY <1>3 DEF TableSpec

-----------------------------------------------------------------------------
\* An event about package b of account u waits.
Queued(b, u) == \E i \in 1..Len(events) : events[i].bundle = b /\ events[i].user = u

\* The kind of an event tells whether the package is installed.
Tells(e) == (e.op = "removed") <=> (apps[e.user][e.bundle] = NotInstalled)

\* The subscriber's thread handles an event about package b of account u.
Handled(b, u) == ~IsLoad("ces") /\ procs["ces"].bundle = b /\ procs["ces"].user = u

\* The last event about a package tells whether it is installed.
QueueOK ==
  /\ "ces" \notin reported => events = <<>> /\ IsLoad("ces")
  /\ \A i \in 1..Len(events) :
       \/ Tells(events[i])
       \/ \E j \in (i + 1)..Len(events) : events[j].bundle = events[i].bundle
                                          /\ events[j].user = events[i].user
  /\ ~IsLoad("ces") => LET e == procs["ces"] IN Tells(e) \/ Queued(e.bundle, e.user)

\* What the handler of an event writes is current, or another event follows.
HandlerFresh ==
  ~IsLoad("ces") =>
    LET e == procs["ces"]
        S == ParseToPkgInfoTables(e.bundle, e.user)
    IN /\ e.pc \in {"begin", "sizing"} => e.rows = S \/ Queued(e.bundle, e.user)
       /\ e.pc = "insert" => \/ table \cup e.rows = With(e.bundle, S)
                             \/ Queued(e.bundle, e.user)

\* No change was hidden, and the foreground account is the one last told of.
Plain == "late" \notin excuses /\ ~account.switched

\* The rows of package b are those of the foreground account, or an event
\* about it is on its way.
Covered(b) == \/ Table!RowsOfBundle(saved, b) = ParseToPkgInfoTables(b, account.user)
              \/ Queued(b, account.user)
              \/ Handled(b, account.user)

LoadFresh ==
  /\ "late" \notin excuses /\ procs["ces"].pc \in {"ask", "asked", "begin", "sizing", "insert"}
       => procs["ces"].user = account.user
  /\ Plain => \A p \in Procs :
       Loading(p) =>
         /\ procs[p].pc # "user" => procs[p].user = account.user
         /\ procs[p].pc \in {"begin", "sizing"} => procs[p].rows = AllOf(account.user)
         /\ procs[p].pc = "insert" => table \cup procs[p].rows = AllOf(account.user)
         /\ procs[p].pc = "flag" => \A b \in Bundles : Covered(b)
  /\ Plain /\ initOnce => \A b \in Bundles : Covered(b)

Fresh == QueueOK /\ HandlerFresh /\ LoadFresh
-----------------------------------------------------------------------------
(***************************************************************************)
(* The table is current.                                                   *)
(***************************************************************************)
LEMMA SameWorld ==
  ASSUME UNCHANGED <<events, apps>>
  PROVE  /\ \A b, u : Queued(b, u)' <=> Queued(b, u)
         /\ \A b, u : ParseToPkgInfoTables(b, u)' = ParseToPkgInfoTables(b, u)
         /\ \A u : AllOf(u)' = AllOf(u)
         /\ \A e : Tells(e)' <=> Tells(e)
<1>1. \A b, u : Queued(b, u)' <=> Queued(b, u)
  BY DEF Queued
<1>2. \A b, u : ParseToPkgInfoTables(b, u)' = ParseToPkgInfoTables(b, u)
  BY DEF ParseToPkgInfoTables
<1>3. \A u : AllOf(u)' = AllOf(u)
  BY <1>2 DEF AllOf
<1>4. \A e : Tells(e)' <=> Tells(e)
  BY DEF Tells
<1> QED BY <1>1, <1>2, <1>3, <1>4

\* A step of another thread than the subscriber's that brings no load further.
LEMMA FreshFrame ==
  ASSUME Fresh, UNCHANGED <<events, apps, account, initOnce, saved>>,
         reported \subseteq reported',
         "late" \in excuses => "late" \in excuses',
         procs'["ces"] = procs["ces"],
         \A q \in Procs : procs'[q] = procs[q] \/ ~Loading(q)' \/ procs'[q].pc = "user",
         UNCHANGED table \/ \A q \in Procs : procs'[q].pc # "insert"
  PROVE  Fresh'
<1> USE SameWorld, ProcFacts DEF Fresh
<1>1. IsLoad("ces")' <=> IsLoad("ces")
  BY DEF IsLoad
<1>2. \A b, u : Handled(b, u)' <=> Handled(b, u)
  BY <1>1 DEF Handled
<1>3. \A b, S : With(b, S)' = With(b, S)
  BY DEF With
<1>4. QueueOK'
  BY <1>1 DEF QueueOK
<1>5. HandlerFresh'
  BY <1>1, <1>3 DEF HandlerFresh
<1>6. (Plain' => Plain) /\ \A b : Covered(b)' <=> Covered(b)
  BY <1>2 DEF Plain, Covered
<1>7. \A q \in Procs : /\ Loading(q)' /\ procs'[q].pc # "user" => procs'[q] = procs[q] /\ Loading(q)
                       /\ procs'[q].pc = "insert" => UNCHANGED table
  BY DEF Loading, IsLoad
<1>8. LoadFresh'
  <2>1. ASSUME Plain', NEW q \in Procs, Loading(q)'
        PROVE  /\ procs'[q].pc # "user" => procs'[q].user = account'.user
               /\ procs'[q].pc \in {"begin", "sizing"} => procs'[q].rows = AllOf(account.user)'
               /\ procs'[q].pc = "insert" => table' \cup procs'[q].rows = AllOf(account.user)'
               /\ procs'[q].pc = "flag" => \A b \in Bundles : Covered(b)'
    BY <1>6, <1>7, <2>1 DEF LoadFresh
  <2>2. "late" \notin excuses' /\ procs'["ces"].pc \in {"ask", "asked", "begin", "sizing", "insert"}
          => procs'["ces"].user = account'.user
    BY DEF LoadFresh
  <2>3. Plain' /\ initOnce' => \A b \in Bundles : Covered(b)'
    BY <1>6 DEF LoadFresh
  <2> QED BY <2>1, <2>2, <2>3 DEF LoadFresh
<1> QED BY <1>4, <1>5, <1>8

\* The steps that FreshFrame speaks of: of the start and of the services...
LEMMA FreshEnvironment ==
  ASSUME Core, Fresh,
         \/ Boot \/ BundleManagerDies \/ BundleManagerRestarts \/ ResetBundleMgr
         \/ \E sa \in SystemAbilities : OnAddSystemAbility(sa)
         \/ OnBundlesUpdated
         \/ \E p \in Clients \cup {"match"} : QueryMatchDriver(p)
         \/ UNCHANGED vars
  PROVE  Fresh'
<1> USE ProcFacts, JobFacts DEF Core, TypeOK, store, mutexes, outside
<1>1. procs \in [Procs -> Jobs]
  BY DEF TypesThreads
<1>2. CASE /\ UNCHANGED <<events, apps, account, initOnce, saved, table, excuses, procs>>
           /\ reported \subseteq reported'
  BY <1>2, FreshFrame
<1>3. ASSUME NEW p \in Procs, p # "ces", NEW j, procs' = [procs EXCEPT ![p] = j],
             j.pc \in {"wait", "init"},
             UNCHANGED <<events, apps, account, initOnce, saved, table, excuses, reported>>
      PROVE  Fresh'
  <2>1. procs'["ces"] = procs["ces"]
        /\ \A q \in Procs : procs'[q] = procs[q] \/ ~Loading(q)'
    BY <1>1, <1>3 DEF Loading, LoadPCs
  <2> QED BY <1>3, <2>1, FreshFrame
<1>4. CASE OnStart
  BY <1>3, <1>4 DEF OnStart, FreeLoaders
<1>5. CASE \/ AddSystemAbilityListeners \/ RegisterBundleCallback \/ SetDevChangeCallback
           \/ BundleManagerDies \/ BundleManagerRestarts \/ ResetBundleMgr
  BY <1>2, <1>5 DEF AddSystemAbilityListeners, RegisterBundleCallback, SetDevChangeCallback,
    BundleManagerDies, BundleManagerRestarts, ResetBundleMgr
<1>6. CASE UNCHANGED vars \/ \E sa \in SystemAbilities : OnAddSystemAbility(sa)
  BY <1>2, <1>6 DEF OnAddSystemAbility, vars
<1>7. \A op : [Idle EXCEPT !.op = op, !.pc = "init"].pc = "init"
  BY DEF Idle
<1>8. CASE OnBundlesUpdated
  <2>1. procs' = [procs EXCEPT !["match"] = [Idle EXCEPT !.op = "notice", !.pc = "init"]]
        /\ UNCHANGED <<events, apps, account, initOnce, saved, table, excuses, reported>>
    BY <1>8 DEF OnBundlesUpdated
  <2> QED BY <1>3, <1>7, <2>1
<1>9. ASSUME NEW p \in Clients \cup {"match"}, QueryMatchDriver(p) PROVE Fresh'
  <2>1. procs' = [procs EXCEPT ![p] = [Idle EXCEPT !.op = "query", !.pc = "init"]]
        /\ UNCHANGED <<events, apps, account, initOnce, saved, table, excuses, reported>>
    BY <1>9 DEF QueryMatchDriver
  <2> QED BY <1>3, <1>7, <2>1
<1> QED
  BY <1>4, <1>5, <1>6, <1>8, <1>9 DEF Boot

\* ... and of the threads: also those in which a load fails.
LEMMA FreshThread ==
  ASSUME Core, WriteOK, Fresh, NEW p \in Procs,
         \/ WaitFutures(p) \/ EnterGetAllDriverInfos(p) \/ QueryPkgInfos(p)
         \/ GetCurrentActiveUserId(p) /\ LoadFails(p)
         \/ GetBundleMgrProxy(p) /\ LoadFails(p) /\ IsLoad(p)
         \/ /\ BeginTransaction(p) \/ Insert(p) \/ Commit(p)
            /\ RollBack(p) /\ IsLoad(p) /\ UNCHANGED saved
  PROVE  Fresh'
<1> USE ProcFacts, JobFacts DEF Core, TypeOK, store, mutexes, outside
<1>1. procs \in [Procs -> Jobs] /\ procs[p] \in Jobs /\ TypesThreads
  BY DEF TypesThreads
<1>2. ASSUME NEW j, Moves(p, j), j.pc \in {"init", "idle", "read", "user"}, p # "ces",
             UNCHANGED <<events, apps, account, initOnce, saved, reported>>,
             UNCHANGED table \/ \A q \in Procs : procs'[q].pc # "insert",
             "late" \in excuses => "late" \in excuses'
      PROVE  Fresh'
  <2>1. procs'["ces"] = procs["ces"]
        /\ \A q \in Procs : procs'[q] = procs[q] \/ ~Loading(q)' \/ procs'[q].pc = "user"
    BY <1>2 DEF Loading, LoadPCs, Moves
  <2> QED BY <1>2, <2>1, FreshFrame
<1>3. procs[p].pc \in {"wait", "init", "read", "user"} => p # "ces"
  BY DEF JobsOK, JobOK
<1>4. CASE WaitFutures(p) \/ EnterGetAllDriverInfos(p)
  <2>1. PICK j : Moves(p, j) /\ j.pc \in {"init", "idle", "read", "user"}
    <3>1. CASE WaitFutures(p)
      <4>1. Moves(p, [procs[p] EXCEPT !.pc = "init"])
        BY <1>1, <3>1, PcSet DEF WaitFutures, PCs
      <4>2. [procs[p] EXCEPT !.pc = "init"].pc = "init"
        BY <1>1 DEF Jobs
      <4> QED BY <4>1, <4>2
    <3>2. CASE Goes(p, "user")
      <4>1. Moves(p, [procs[p] EXCEPT !.pc = "user"])
        BY <1>1, <3>2, PcSet DEF PCs
      <4>2. [procs[p] EXCEPT !.pc = "user"].pc = "user"
        BY <1>1 DEF Jobs
      <4> QED BY <4>1, <4>2
    <3>3. CASE procs' = [procs EXCEPT ![p] = After(p, TRUE)]
      <4>1. After(p, TRUE) \in Jobs /\ After(p, TRUE).pc \in {"idle", "read"}
        BY <1>1, AfterFacts
      <4>2. Moves(p, After(p, TRUE))
        BY <1>1, <3>3, <4>1, JobSet
      <4> QED BY <4>1, <4>2
    <3> QED BY <1>4, <3>1, <3>2, <3>3 DEF EnterGetAllDriverInfos
  <2>2. p # "ces" /\ UNCHANGED <<events, apps, account, initOnce, saved, reported, table, excuses>>
    BY <1>3, <1>4 DEF WaitFutures, EnterGetAllDriverInfos
  <2> QED BY <1>2, <2>1, <2>2
<1>5. CASE QueryPkgInfos(p)
  <2>1. Moves(p, Idle)
    BY <1>1, <1>5, JobSet DEF QueryPkgInfos
  <2>2. p # "ces" /\ UNCHANGED <<events, apps, account, initOnce, saved, reported, table>>
        /\ ("late" \in excuses => "late" \in excuses')
    BY <1>3, <1>5 DEF QueryPkgInfos, IfFaulty
  <2> QED BY <1>2, <2>1, <2>2
<1>6. ASSUME LoadFails(p) PROVE Moves(p, Idle) /\ ("late" \in excuses => "late" \in excuses')
  BY <1>1, <1>6, Failing
<1>7. CASE GetCurrentActiveUserId(p) /\ LoadFails(p)
  <2>1. p # "ces" /\ UNCHANGED <<events, apps, account, initOnce, saved, reported, table>>
    BY <1>3, <1>7 DEF GetCurrentActiveUserId
  <2> QED BY <1>2, <1>6, <1>7, <2>1
<1>8. CASE GetBundleMgrProxy(p) /\ LoadFails(p) /\ IsLoad(p)
  <2>1. p # "ces" /\ UNCHANGED <<events, apps, account, initOnce, saved, reported, table>>
    BY <1>8 DEF GetBundleMgrProxy, JobsOK, JobOK
  <2> QED BY <1>2, <1>6, <1>8, <2>1
<1>9. CASE /\ BeginTransaction(p) \/ Insert(p) \/ Commit(p)
           /\ RollBack(p) /\ IsLoad(p) /\ UNCHANGED saved
  <2>1. LoadFails(p)
    BY <1>9 DEF RollBack, UpdateFails
  <2>2. p # "ces" /\ UNCHANGED <<events, apps, account, initOnce, saved, reported>>
    BY <1>9 DEF BeginTransaction, Insert, Commit, JobsOK, JobOK
  <2>3. \A q \in Procs : q # p => procs[q].pc # "insert"
    BY <1>9 DEF LocksHeld, BeginTransaction, Insert, Commit
  <2>4. \A q \in Procs : procs'[q].pc # "insert"
    BY <1>6, <2>1, <2>3 DEF Moves
  <2> QED BY <1>2, <1>6, <2>1, <2>2, <2>4
<1> QED
  BY <1>4, <1>5, <1>7, <1>8, <1>9

\* After the process ended, nothing is under way.
LEMMA FreshOnStop ==
  ASSUME OnStop PROVE Fresh'
<1> USE ProcFacts, JobFacts
<1>1. ~initOnce' /\ events' = <<>>
      /\ \A q \in Procs : procs'[q].pc = "idle" /\ procs'[q].op = "none"
  BY DEF OnStop
<1>2. IsLoad("ces")' /\ \A q \in Procs : ~Loading(q)'
  BY <1>1 DEF IsLoad, Loading, LoadPCs
<1> QED
  BY <1>1, <1>2 DEF Fresh, QueueOK, HandlerFresh, LoadFresh

LEMMA FreshSwitched ==
  ASSUME Core, Fresh, OnAccountsSwitched PROVE Fresh'
<1> USE ProcFacts, JobFacts DEF Core, TypeOK, store, mutexes, Fresh
<1>1. PICK p \in FreeLoaders : procs' = [procs EXCEPT ![p] = LoadJob]
  BY DEF OnAccountsSwitched
<1>2. procs'["ces"] = procs["ces"] /\ \A q \in Procs : procs'[q] = procs[q] \/ procs'[q].pc = "wait"
  BY <1>1 DEF FreeLoaders, TypesThreads
<1>3. ~initOnce' /\ \A q \in Procs : ~Loading(q) /\ ~Loading(q)'
  BY <1>2 DEF OnAccountsSwitched, LocksHeld, Loading, IsLoad, LoadPCs
<1>4. UNCHANGED <<events, apps, saved, table, reported>> /\ account'.user = account.user
  BY DEF OnAccountsSwitched, TypesOutside
<1>5. IsLoad("ces")' <=> IsLoad("ces")
  BY <1>2 DEF IsLoad
<1>6. \A b, S : With(b, S)' = With(b, S)
  BY <1>4 DEF With
<1>7. QueueOK'
  BY <1>2, <1>4, <1>5, SameWorld DEF QueueOK
<1>8. HandlerFresh'
  BY <1>2, <1>4, <1>5, <1>6, SameWorld DEF HandlerFresh
<1>9. "late" \notin excuses' => "late" \notin excuses \/ procs["ces"].pc = "idle"
  BY DEF OnAccountsSwitched
<1> QED
  BY <1>2, <1>3, <1>4, <1>7, <1>8, <1>9 DEF LoadFresh

\* A change adds an event that tells about it, or comes before every load.
LEMMA FreshPackageChanges ==
  ASSUME Core, Fresh, NEW b \in Bundles, NEW u \in Users, NEW v \in Versions \cup {NotInstalled},
         PackageChanges(b, u, v)
  PROVE  Fresh'
<1> USE ProcFacts DEF Core, TypeOK, store, mutexes, Fresh
<1>1. /\ UNCHANGED <<reported, account, initOnce, table, saved, procs>>
      /\ apps' = [apps EXCEPT ![u][b] = v]
  BY DEF PackageChanges
<1>2. /\ apps'[u][b] = v
      /\ \A w \in Users, c \in Bundles : w # u \/ c # b => apps'[w][c] = apps[w][c]
  BY <1>1 DEF TypesOutside
<1>3. /\ IsLoad("ces")' <=> IsLoad("ces")
      /\ \A q \in Procs : Loading(q)' <=> Loading(q)
      /\ \A c, S : With(c, S)' = With(c, S)
      /\ \A c, w : Handled(c, w)' <=> Handled(c, w)
  BY <1>1 DEF IsLoad, Loading, With, Handled
<1>4. \A w \in Users, c \in Bundles : w # u \/ c # b =>
        ParseToPkgInfoTables(c, w)' = ParseToPkgInfoTables(c, w)
  BY <1>2 DEF ParseToPkgInfoTables
<1>5. ~IsLoad("ces") => procs["ces"].user \in Users /\ procs["ces"].bundle \in Bundles
  BY DEF JobsOK, JobOK
<1>6. CASE "ces" \notin reported
  <2>1. events' = <<>> /\ IsLoad("ces") /\ procs["ces"].pc = "idle"
    BY <1>6 DEF PackageChanges, QueueOK, JobsOK, JobOK
  <2>2. "late" \notin excuses' => ~initOnce /\ \A q \in Procs : ~Loading(q)
    BY <1>6 DEF PackageChanges, Excused, InLoad, JobsOK, Loading, LoadPCs, Running
  <2> QED
    BY <1>1, <1>3, <1>6, <2>1, <2>2 DEF QueueOK, HandlerFresh, LoadFresh, Plain
<1>7. CASE "ces" \in reported
  <2> DEFINE e == [op |-> IF v = NotInstalled THEN "removed" ELSE "changed",
                   bundle |-> b, user |-> u]
  <2>1. events' = Append(events, e) /\ e.bundle = b /\ e.user = u
        /\ (e.op = "removed" <=> v = NotInstalled)
    BY <1>7 DEF PackageChanges
  <2>2. events \in Seq(Events)
    BY DEF TypesOutside
  <2> HIDE DEF e
  <2>3. /\ Len(events') = Len(events) + 1 /\ events'[Len(events) + 1] = e
        /\ \A i \in 1..Len(events) : events'[i] = events[i] /\ events[i] \in Events
        /\ Len(events) \in Nat
    BY <2>1, <2>2
  <2>4. /\ Queued(b, u)'
        /\ \A c, w : Queued(c, w) => Queued(c, w)'
    BY <2>1, <2>3 DEF Queued
  <2>5. Tells(e)'
    BY <1>2, <2>1 DEF Tells
  <2>7. QueueOK'
    <3>1. ASSUME NEW i \in 1..Len(events')
          PROVE  \/ Tells(events[i])'
                 \/ \E j \in (i + 1)..Len(events') : events'[j].bundle = events'[i].bundle
                                                     /\ events'[j].user = events'[i].user
      <4>1. CASE i = Len(events) + 1
        BY <2>3, <2>5, <4>1 DEF Tells
      <4>2. CASE i \in 1..Len(events) /\ events[i].bundle = b /\ events[i].user = u
        BY <2>1, <2>3, <4>2
      <4>3. CASE i \in 1..Len(events) /\ (events[i].bundle # b \/ events[i].user # u)
        <5>1. events[i].bundle \in Bundles /\ events[i].user \in Users
          BY <2>3, <4>3 DEF Events
        <5>2. CASE Tells(events[i])
          BY <1>2, <2>3, <4>3, <5>1, <5>2 DEF Tells
        <5>3. CASE \E j \in (i + 1)..Len(events) : events[j].bundle = events[i].bundle
                                                   /\ events[j].user = events[i].user
          BY <2>3, <4>3, <5>3
        <5> QED BY <4>3, <5>2, <5>3 DEF QueueOK
      <4> QED BY <2>3, <4>1, <4>2, <4>3
    <3>2. ~IsLoad("ces")' => Tells(procs["ces"])' \/ Queued(procs["ces"].bundle, procs["ces"].user)'
      <4>1. CASE procs["ces"].bundle = b /\ procs["ces"].user = u
        BY <1>1, <2>4, <4>1
      <4>2. CASE ~IsLoad("ces") /\ Tells(procs["ces"])
                 /\ (procs["ces"].bundle # b \/ procs["ces"].user # u)
        BY <1>1, <1>2, <1>5, <4>2 DEF Tells
      <4>3. CASE Queued(procs["ces"].bundle, procs["ces"].user)
        BY <1>1, <2>4, <4>3
      <4> QED BY <1>3, <4>1, <4>2, <4>3 DEF QueueOK
    <3> QED BY <1>1, <1>7, <3>1, <3>2 DEF QueueOK
  <2>8. HandlerFresh'
    BY <1>1, <1>3, <1>4, <1>5, <2>4 DEF HandlerFresh
  <2>9. LoadFresh'
    <3>1. "late" \notin excuses' => "late" \notin excuses
            /\ (\A q \in Procs : ~Loading(q)) /\ (Plain' => Plain)
      BY <1>1 DEF PackageChanges, Excused, InLoad, JobsOK, Loading, LoadPCs, Running, Plain
    <3>2. account.user \in Users
      BY DEF TypesOutside
    <3>3. \A c \in Bundles : Covered(c) => Covered(c)'
      BY <1>1, <1>3, <1>4, <2>4, <3>2 DEF Covered
    <3> QED
      BY <1>1, <1>3, <3>1, <3>3 DEF LoadFresh, Plain
  <2> QED BY <2>7, <2>8, <2>9
<1> QED BY <1>6, <1>7

LEMMA FreshSwitchForeground ==
  ASSUME Core, Fresh, NEW u \in Users, SwitchForeground(u) PROVE Fresh'
<1> USE ProcFacts DEF Core, TypeOK, store, mutexes, Fresh
<1>1. /\ UNCHANGED <<reported, events, apps, initOnce, table, saved, procs>>
      /\ account'.switched = ("account" \in reported)
  BY DEF SwitchForeground
<1>2. /\ IsLoad("ces")' <=> IsLoad("ces")
      /\ \A q \in Procs : Loading(q)' <=> Loading(q)
      /\ \A c, S : With(c, S)' = With(c, S)
  BY <1>1 DEF IsLoad, Loading, With
<1>3. QueueOK'
  BY <1>1, <1>2, SameWorld DEF QueueOK
<1>4. HandlerFresh'
  BY <1>1, <1>2, SameWorld DEF HandlerFresh
<1>5. "late" \notin excuses' =>
        /\ procs["ces"].pc = "idle"
        /\ (initOnce \/ \E q \in Procs : Loading(q)) => "account" \in reported
  BY DEF SwitchForeground, Excused, Running, JobsOK, InLoad, Loading, LoadPCs
<1>6. LoadFresh'
  BY <1>1, <1>2, <1>5 DEF LoadFresh, Plain
<1> QED BY <1>3, <1>4, <1>6

\* The subscriber's thread takes an event: it was the first of the queue.
LEMMA FreshOnBundleEvent ==
  ASSUME Core, Fresh, OnBundleEvent PROVE Fresh'
<1> USE ProcFacts DEF Core, TypeOK, store, mutexes, Fresh
<1>1. /\ UNCHANGED <<reported, account, apps, initOnce, table, saved, excuses>>
      /\ events' = Tail(events) /\ events # <<>> /\ events \in Seq(Events)
      /\ procs["ces"].pc = "idle" /\ procs["ces"].op = "none" /\ boot # "off"
  BY DEF OnBundleEvent, TypesOutside, JobsOK, JobOK, Running
<1>2. /\ Len(events) \in Nat /\ Len(events) >= 1 /\ Len(events') = Len(events) - 1
      /\ \A i \in 1..Len(events') : events'[i] = events[i + 1]
      /\ Head(events) = events[1] /\ events[1] \in Events
  BY <1>1
<1>3. /\ procs'["ces"].op = events[1].op /\ procs'["ces"].pc = "check"
      /\ procs'["ces"].user = events[1].user /\ procs'["ces"].bundle = events[1].bundle
      /\ \A q \in Procs : q # "ces" => procs'[q] = procs[q]
  BY <1>2 DEF OnBundleEvent, TypesThreads
<1>4. IsLoad("ces") /\ ~IsLoad("ces")' /\ "ces" \in reported
  BY <1>1, <1>2, <1>3 DEF IsLoad, Events, QueueOK
<1>5. \A c, w : Queued(c, w) => Queued(c, w)' \/ Handled(c, w)'
  <2>1. ASSUME NEW c, NEW w, NEW i \in 1..Len(events),
               events[i].bundle = c, events[i].user = w
        PROVE  Queued(c, w)' \/ Handled(c, w)'
    <3>1. CASE i = 1
      BY <1>3, <1>4, <2>1, <3>1 DEF Handled
    <3>2. CASE i # 1
      <4>1. i - 1 \in 1..Len(events') /\ events'[i - 1] = events[i]
        BY <1>2, <3>2
      <4> QED BY <2>1, <4>1 DEF Queued
    <3> QED BY <3>1, <3>2
  <2> QED BY <2>1 DEF Queued
<1>6. QueueOK'
  <2>1. ASSUME NEW i \in 1..Len(events')
        PROVE  \/ Tells(events[i])'
               \/ \E j \in (i + 1)..Len(events') : events'[j].bundle = events'[i].bundle
                                                   /\ events'[j].user = events'[i].user
    <3>1. i + 1 \in 1..Len(events) /\ events'[i] = events[i + 1]
      BY <1>2
    <3>2. CASE Tells(events[i + 1])
      BY <1>1, <3>1, <3>2 DEF Tells
    <3>3. ASSUME NEW j \in (i + 2)..Len(events), events[j].bundle = events[i + 1].bundle,
                 events[j].user = events[i + 1].user
          PROVE  \E k \in (i + 1)..Len(events') : events'[k].bundle = events'[i].bundle
                                                  /\ events'[k].user = events'[i].user
      <4>1. j - 1 \in (i + 1)..Len(events') /\ events'[j - 1] = events[j]
        BY <1>2, <3>3
      <4> QED BY <3>1, <3>3, <4>1
    <3>4. i + 1 + 1 = i + 2
      OBVIOUS
    <3> QED BY <3>1, <3>2, <3>3, <3>4 DEF QueueOK
  <2>2. Tells(procs["ces"])' \/ Queued(procs["ces"].bundle, procs["ces"].user)'
    <3>1. CASE Tells(events[1])
      BY <1>1, <1>3, <3>1 DEF Tells
    <3>2. ASSUME NEW j \in 2..Len(events), events[j].bundle = events[1].bundle,
                 events[j].user = events[1].user
          PROVE  Queued(procs["ces"].bundle, procs["ces"].user)'
      <4>1. j - 1 \in 1..Len(events') /\ events'[j - 1] = events[j]
        BY <1>2, <3>2
      <4> QED BY <1>3, <3>2, <4>1 DEF Queued
    <3>3. 1 + 1 = 2 /\ 1 \in 1..Len(events)
      BY <1>2
    <3> QED BY <3>1, <3>2, <3>3 DEF QueueOK
  <2> QED BY <1>1, <1>4, <2>1, <2>2 DEF QueueOK
<1>7. HandlerFresh'
  BY <1>3 DEF HandlerFresh
<1>8. (Plain' => Plain) /\ \A c \in Bundles : Covered(c) => Covered(c)'
  <2>1. \A c, w : ParseToPkgInfoTables(c, w)' = ParseToPkgInfoTables(c, w)
    BY <1>1 DEF ParseToPkgInfoTables
  <2>2. \A c, w : ~Handled(c, w)
    BY <1>4 DEF Handled
  <2> QED BY <1>1, <1>5, <2>1, <2>2 DEF Covered, Plain
<1>9. \A q \in Procs : Loading(q)' => Loading(q) /\ procs'[q] = procs[q]
  BY <1>3, <1>4 DEF Loading, IsLoad
<1>10. AllOf(account.user)' = AllOf(account.user)
  <2>1. \A c, w : ParseToPkgInfoTables(c, w)' = ParseToPkgInfoTables(c, w)
    BY <1>1 DEF ParseToPkgInfoTables
  <2> QED BY <1>1, <2>1 DEF AllOf
<1>11. LoadFresh'
  BY <1>1, <1>3, <1>8, <1>9, <1>10 DEF LoadFresh
<1> QED BY <1>6, <1>7, <1>11

\* A load goes on, before it commits.
LEMMA FreshLoadGoes ==
  ASSUME Fresh, UNCHANGED <<events, apps, account, initOnce, saved, reported>>,
         "late" \in excuses => "late" \in excuses',
         NEW p \in Procs, p # "ces", \A q \in Procs : q # p => procs'[q] = procs[q],
         UNCHANGED table \/ \A q \in Procs : q # p => procs[q].pc # "insert",
         procs'[p].pc # "flag",
         Plain' =>
           /\ procs'[p].user = account.user
           /\ procs'[p].pc \in {"begin", "sizing"} => procs'[p].rows = AllOf(account.user)
           /\ procs'[p].pc = "insert" => table' \cup procs'[p].rows = AllOf(account.user)
  PROVE  Fresh'
<1> USE SameWorld, ProcFacts DEF Fresh
<1>1. IsLoad("ces")' <=> IsLoad("ces")
  BY DEF IsLoad
<1>2. \A b, u : Handled(b, u)' <=> Handled(b, u)
  BY <1>1 DEF Handled
<1>3. \A b, S : With(b, S)' = With(b, S)
  BY DEF With
<1>4. QueueOK'
  BY <1>1 DEF QueueOK
<1>5. HandlerFresh'
  BY <1>1, <1>3 DEF HandlerFresh
<1>6. (Plain' => Plain) /\ \A b : Covered(b)' <=> Covered(b)
  BY <1>2 DEF Plain, Covered
<1>7. \A q \in Procs : q # p => (Loading(q)' <=> Loading(q))
  BY DEF Loading, IsLoad
<1>8. LoadFresh'
  <2>1. ASSUME Plain', NEW q \in Procs, Loading(q)'
        PROVE  /\ procs'[q].pc # "user" => procs'[q].user = account'.user
               /\ procs'[q].pc \in {"begin", "sizing"} => procs'[q].rows = AllOf(account.user)'
               /\ procs'[q].pc = "insert" => table' \cup procs'[q].rows = AllOf(account.user)'
               /\ procs'[q].pc = "flag" => \A b \in Bundles : Covered(b)'
    <3>1. CASE q = p
      BY <2>1, <3>1
    <3>2. CASE q # p
      BY <1>6, <1>7, <2>1, <3>2 DEF LoadFresh
    <3> QED BY <3>1, <3>2
  <2>2. "late" \notin excuses' /\ procs'["ces"].pc \in {"ask", "asked", "begin", "sizing", "insert"}
          => procs'["ces"].user = account'.user
    BY DEF LoadFresh
  <2>3. Plain' /\ initOnce' => \A b \in Bundles : Covered(b)'
    BY <1>6 DEF LoadFresh
  <2> QED BY <2>1, <2>2, <2>3 DEF LoadFresh
<1> QED BY <1>4, <1>5, <1>8

\* The handler of an event goes on, before it commits.
LEMMA FreshEventGoes ==
  ASSUME Fresh, UNCHANGED <<events, apps, account, initOnce, saved, reported, excuses>>,
         \A q \in Procs : q # "ces" => procs'[q] = procs[q],
         UNCHANGED table \/ \A q \in Procs : q # "ces" => procs[q].pc # "insert",
         ~IsLoad("ces"), procs'["ces"].op = procs["ces"].op,
         procs'["ces"].bundle = procs["ces"].bundle, procs'["ces"].user = procs["ces"].user,
         "late" \notin excuses => procs["ces"].user = account.user,
         procs'["ces"].pc \in {"begin", "sizing"} =>
           \/ procs'["ces"].rows = ParseToPkgInfoTables(procs["ces"].bundle, procs["ces"].user)
           \/ Queued(procs["ces"].bundle, procs["ces"].user),
         procs'["ces"].pc = "insert" =>
           \/ table' \cup procs'["ces"].rows =
                With(procs["ces"].bundle,
                     ParseToPkgInfoTables(procs["ces"].bundle, procs["ces"].user))
           \/ Queued(procs["ces"].bundle, procs["ces"].user)
  PROVE  Fresh'
<1> USE SameWorld, ProcFacts DEF Fresh
<1>1. ~IsLoad("ces")'
  BY DEF IsLoad
<1>2. \A b, u : Handled(b, u)' <=> Handled(b, u)
  BY <1>1 DEF Handled
<1>3. \A b, S : With(b, S)' = With(b, S)
  BY DEF With
<1>4. QueueOK'
  <2>1. Tells(procs["ces"])' <=> Tells(procs["ces"])
    BY DEF Tells
  <2> QED BY <1>1, <2>1 DEF QueueOK
<1>5. HandlerFresh'
  BY <1>1, <1>3 DEF HandlerFresh
<1>6. (Plain' => Plain) /\ \A b : Covered(b)' <=> Covered(b)
  BY <1>2 DEF Plain, Covered
<1>7. \A q \in Procs : Loading(q)' => q # "ces" /\ Loading(q)
  BY <1>1 DEF Loading, IsLoad
<1>8. LoadFresh'
  <2>1. ASSUME Plain', NEW q \in Procs, Loading(q)'
        PROVE  /\ procs'[q].pc # "user" => procs'[q].user = account'.user
               /\ procs'[q].pc \in {"begin", "sizing"} => procs'[q].rows = AllOf(account.user)'
               /\ procs'[q].pc = "insert" => table' \cup procs'[q].rows = AllOf(account.user)'
               /\ procs'[q].pc = "flag" => \A b \in Bundles : Covered(b)'
    BY <1>6, <1>7, <2>1 DEF LoadFresh
  <2>3. Plain' /\ initOnce' => \A b \in Bundles : Covered(b)'
    BY <1>6 DEF LoadFresh
  <2> QED BY <2>1, <2>3 DEF LoadFresh
<1> QED BY <1>4, <1>5, <1>8

\* The handler of an event ends and has written nothing.
LEMMA FreshEventEnds ==
  ASSUME Fresh, UNCHANGED <<events, apps, account, initOnce, saved, reported>>,
         Moves("ces", Idle),
         "late" \in excuses => "late" \in excuses',
         UNCHANGED table \/ \A q \in Procs : q # "ces" => procs[q].pc # "insert",
         "late" \notin excuses' =>
           \A b \in Bundles : Handled(b, account.user) => Queued(b, account.user)
  PROVE  Fresh'
<1> USE SameWorld, ProcFacts, JobFacts DEF Fresh
<1>1. /\ IsLoad("ces")' /\ ~Loading("ces")' /\ procs'["ces"].pc = "idle"
      /\ \A q \in Procs : q # "ces" => procs'[q] = procs[q]
  BY DEF IsLoad, Moves, Loading, LoadPCs
<1>2. QueueOK'
  BY <1>1 DEF QueueOK
<1>3. HandlerFresh'
  BY <1>1 DEF HandlerFresh
<1>4. (Plain' => Plain) /\ (Plain' => \A b \in Bundles : Covered(b) => Covered(b)')
  BY DEF Plain, Covered
<1>5. \A q \in Procs : Loading(q)' => q # "ces" /\ Loading(q)
  BY <1>1 DEF Loading, IsLoad
<1>6. LoadFresh'
  <2>1. ASSUME Plain', NEW q \in Procs, Loading(q)'
        PROVE  /\ procs'[q].pc # "user" => procs'[q].user = account'.user
               /\ procs'[q].pc \in {"begin", "sizing"} => procs'[q].rows = AllOf(account.user)'
               /\ procs'[q].pc = "insert" => table' \cup procs'[q].rows = AllOf(account.user)'
               /\ procs'[q].pc = "flag" => \A b \in Bundles : Covered(b)'
    BY <1>1, <1>4, <1>5, <2>1 DEF LoadFresh
  <2>3. Plain' /\ initOnce' => \A b \in Bundles : Covered(b)'
    BY <1>4 DEF LoadFresh
  <2> QED BY <1>1, <2>1, <2>3 DEF LoadFresh
<1> QED BY <1>2, <1>3, <1>6

LEMMA FreshIsCurrentUserId ==
  ASSUME Core, Fresh, NEW p \in Procs, IsCurrentUserId(p) PROVE Fresh'
<1> USE ProcFacts, JobFacts DEF Core, TypeOK, store, mutexes, outside
<1>1. /\ procs \in [Procs -> Jobs] /\ procs[p] \in Jobs
      /\ p = "ces" /\ ~IsLoad("ces") /\ procs[p].pc = "check" /\ procs[p].rows = {}
      /\ UNCHANGED <<events, apps, account, initOnce, saved, reported, table>>
  BY DEF TypesThreads, IsCurrentUserId, JobsOK, JobOK
<1>4. CASE IfFaulty(EventFails(p))
  <2>1. Moves("ces", Idle) /\ "late" \in excuses'
    BY <1>1, <1>4, JobSet DEF IfFaulty, EventFails
  <2> QED BY <1>1, <2>1, FreshEventEnds
<1>2. CASE procs[p].user # account.user /\ ~IfFaulty(EventFails(p))
  <2>1. Moves("ces", Idle)
    BY <1>1, <1>2, JobSet DEF IsCurrentUserId
  <2>2. \A b \in Bundles : ~Handled(b, account.user)
    BY <1>1, <1>2 DEF Handled
  <2>3. UNCHANGED excuses
    BY <1>2 DEF IsCurrentUserId
  <2> QED BY <1>1, <2>1, <2>2, <2>3, FreshEventEnds
<1>3. CASE procs[p].user = account.user /\ ~IfFaulty(EventFails(p))
  <2>3. UNCHANGED excuses
    BY <1>3 DEF IsCurrentUserId
  <2>1. /\ \A q \in Procs : q # "ces" => procs'[q] = procs[q]
        /\ procs'["ces"].op = procs["ces"].op /\ procs'["ces"].user = procs["ces"].user
        /\ procs'["ces"].bundle = procs["ces"].bundle /\ procs'["ces"].rows = {}
        /\ procs'["ces"].pc = IF procs["ces"].op = "removed" THEN "begin" ELSE "ask"
    BY <1>1, <1>3 DEF IsCurrentUserId, Jobs
  <2>2. procs["ces"].op = "removed" =>
           \/ {} = ParseToPkgInfoTables(procs["ces"].bundle, procs["ces"].user)
           \/ Queued(procs["ces"].bundle, procs["ces"].user)
    BY <1>1 DEF Fresh, QueueOK, Tells, ParseToPkgInfoTables
  <2> QED BY <1>1, <1>3, <2>1, <2>2, <2>3, FreshEventGoes
<1> QED BY <1>2, <1>3, <1>4

LEMMA FreshGetCurrentActiveUserId ==
  ASSUME Core, WriteOK, Fresh, NEW p \in Procs, GetCurrentActiveUserId(p) PROVE Fresh'
<1> USE ProcFacts DEF Core, TypeOK, store, outside
<1>1. procs \in [Procs -> Jobs] /\ procs[p] \in Jobs /\ p # "ces"
  BY DEF TypesThreads, GetCurrentActiveUserId, JobsOK, JobOK
<1>2. CASE /\ procs' = [procs EXCEPT ![p].user = account.user, ![p].pc = "ask"]
           /\ UNCHANGED <<initOnceMutex, faults, excuses>>
  <2>1. /\ \A q \in Procs : q # p => procs'[q] = procs[q]
        /\ procs'[p].user = account.user /\ procs'[p].pc = "ask"
    BY <1>1, <1>2 DEF Jobs
  <2>2. UNCHANGED <<events, apps, account, initOnce, saved, reported, excuses, table>>
    BY <1>2 DEF GetCurrentActiveUserId
  <2> QED BY <1>1, <2>1, <2>2, FreshLoadGoes
<1>3. CASE IfFaulty(LoadFails(p))
  BY <1>3, FreshThread DEF IfFaulty
<1> QED BY <1>2, <1>3 DEF GetCurrentActiveUserId

LEMMA FreshGetBundleMgrProxy ==
  ASSUME Core, WriteOK, Fresh, NEW p \in Procs, GetBundleMgrProxy(p) PROVE Fresh'
<1> USE ProcFacts DEF Core, TypeOK, store, outside
<1>1. /\ procs \in [Procs -> Jobs] /\ procs[p] \in Jobs /\ TypesThreads /\ procs[p].pc = "ask"
      /\ UNCHANGED <<events, apps, account, initOnce, saved, reported, table>>
  BY DEF TypesThreads, GetBundleMgrProxy
<1>2. CASE Goes(p, "asked") /\ UNCHANGED excuses
  <2>1. /\ \A q \in Procs : q # p => procs'[q] = procs[q]
        /\ procs'[p].user = procs[p].user /\ procs'[p].pc = "asked"
        /\ procs'[p].op = procs[p].op /\ procs'[p].bundle = procs[p].bundle
    BY <1>1, <1>2 DEF Jobs, Goes
  <2>2. CASE IsLoad(p)
    <3>1. p # "ces"
      BY <1>1, <2>2 DEF JobsOK, JobOK
    <3>2. Plain' => procs'[p].user = account.user
      BY <1>1, <1>2, <2>1, <2>2 DEF Plain, Fresh, LoadFresh, Loading, LoadPCs
    <3> QED BY <1>1, <1>2, <2>1, <3>1, <3>2, FreshLoadGoes
  <2>3. CASE ~IsLoad(p)
    <3>1. p = "ces"
      BY <2>3 DEF JobsOK, JobOK
    <3>2. "late" \notin excuses => procs["ces"].user = account.user
      BY <1>1, <3>1 DEF Fresh, LoadFresh
    <3> QED BY <1>1, <1>2, <2>1, <2>3, <3>1, <3>2, FreshEventGoes
  <2> QED BY <2>2, <2>3
<1>3. CASE LoadFails(p) /\ IsLoad(p)
  BY <1>3, FreshThread
<1>4. CASE EventFails(p) /\ ~IsLoad(p)
  <2>1. p = "ces" /\ Moves(p, Idle)
    BY <1>1, <1>4, Failing DEF JobsOK, JobOK
  <2>2. "late" \in excuses'
    BY <1>4 DEF EventFails
  <2> QED BY <1>1, <2>1, <2>2, FreshEventEnds
<1> QED
  BY <1>2, <1>3, <1>4 DEF GetBundleMgrProxy

LEMMA FreshBundleManagerAnswers ==
  ASSUME Core, Fresh, NEW p \in Procs, BundleManagerAnswers(p) PROVE Fresh'
<1> USE ProcFacts DEF Core, TypeOK, store, outside
<1>1. /\ procs \in [Procs -> Jobs] /\ procs[p] \in Jobs /\ TypesThreads /\ procs[p].pc = "asked"
      /\ UNCHANGED <<events, apps, account, initOnce, saved, reported, table>>
  BY DEF TypesThreads, BundleManagerAnswers
<1>2. ASSUME NEW rows \in SUBSET Rows, Parsed(p, rows)
      PROVE  /\ \A q \in Procs : q # p => procs'[q] = procs[q]
             /\ procs'[p].user = procs[p].user /\ procs'[p].pc = "begin"
             /\ procs'[p].op = procs[p].op /\ procs'[p].bundle = procs[p].bundle
             /\ procs'[p].rows = rows
  BY <1>1, <1>2, ParsedFacts
<1>3. CASE IsLoad(p)
  <2> DEFINE rows == IF bms.proxy = "live" THEN AllOf(procs[p].user) ELSE {}
  <2>1. /\ Parsed(p, rows)
        /\ excuses' = IF bms.proxy = "live" THEN excuses ELSE excuses \cup {"late"}
    BY <1>3 DEF BundleManagerAnswers
  <2>2. p # "ces"
    BY <1>1, <1>3 DEF JobsOK, JobOK
  <2>3. Plain' => procs[p].user = account.user /\ rows = AllOf(account.user)
    BY <1>1, <1>3, <2>1 DEF Plain, Fresh, LoadFresh, Loading, LoadPCs
  <2>7. rows \in SUBSET Rows
    <3>1. procs[p].user \in Users
      BY <1>1 DEF TypesThreads
    <3> QED BY <3>1, ParseIsRows
  <2> HIDE DEF rows
  <2>4. "late" \in excuses => "late" \in excuses'
    BY <2>1
  <2>5. /\ \A q \in Procs : q # p => procs'[q] = procs[q]
        /\ procs'[p].user = procs[p].user /\ procs'[p].pc = "begin" /\ procs'[p].rows = rows
    BY <1>2, <2>1, <2>7
  <2>6. Plain' => procs'[p].user = account.user /\ procs'[p].rows = AllOf(account.user)
    BY <2>3, <2>5
  <2> HIDE DEF Core, TypeOK
  <2> QED BY <1>1, <2>2, <2>4, <2>5, <2>6, FreshLoadGoes
<1>4. CASE ~IsLoad(p)
  <2>1. p = "ces" /\ ("late" \notin excuses => procs["ces"].user = account.user)
    BY <1>1, <1>4 DEF JobsOK, JobOK, Fresh, LoadFresh
  <2> DEFINE S == ParseToPkgInfoTables(procs[p].bundle, procs[p].user)
  <2>6. S \in SUBSET Rows
    BY <1>1, <1>4, ParseIsRows DEF TypesThreads, JobsOK, JobOK
  <2>2. CASE Parsed(p, S) /\ UNCHANGED excuses
    <3>1. /\ \A q \in Procs : q # p => procs'[q] = procs[q]
          /\ procs'[p].user = procs[p].user /\ procs'[p].pc = "begin"
          /\ procs'[p].op = procs[p].op /\ procs'[p].bundle = procs[p].bundle
          /\ procs'[p].rows = S
      BY <1>2, <2>2, <2>6
    <3> QED BY <1>1, <1>4, <2>1, <2>2, <3>1, FreshEventGoes
  <2>3. ASSUME procs' = [procs EXCEPT ![p] = Idle] PROVE Moves("ces", Idle)
    BY <1>1, <2>1, <2>3, JobSet, JobFacts
  <2>4. CASE /\ apps[procs[p].user][procs[p].bundle] = NotInstalled
             /\ procs' = [procs EXCEPT ![p] = Idle] /\ UNCHANGED excuses
    <3>1. Queued(procs[p].bundle, procs[p].user)
      BY <1>1, <1>4, <2>1, <2>4 DEF Fresh, QueueOK, Tells, JobsOK, JobOK
    <3>2. "late" \notin excuses' =>
            \A b \in Bundles : Handled(b, account.user) => Queued(b, account.user)
      BY <2>1, <3>1 DEF Handled
    <3> QED BY <1>1, <2>3, <2>4, <3>2, FreshEventEnds
  <2>5. CASE EventFails(p)
    <3>1. "late" \in excuses' /\ Moves("ces", Idle)
      BY <2>3, <2>5 DEF EventFails
    <3> QED BY <1>1, <3>1, FreshEventEnds
  <2> QED
    BY <1>4, <2>2, <2>4, <2>5 DEF BundleManagerAnswers
<1> QED BY <1>3, <1>4

LEMMA FreshSize ==
  ASSUME Core, Fresh, NEW p \in Procs, GetBundleSize(p) \/ GetBundleStats(p) PROVE Fresh'
<1>1. /\ \A q \in Procs : q # p => procs'[q] = procs[q]
      /\ procs'[p].op = procs[p].op
      /\ procs'[p].user = procs[p].user /\ procs'[p].bundle = procs[p].bundle
      /\ procs'[p].rows = procs[p].rows
      /\ procs[p].pc \in {"begin", "sizing"} /\ procs'[p].pc \in {"begin", "sizing"}
      /\ UNCHANGED <<events, apps, account, initOnce, saved, reported, excuses, table>>
  BY SizeFacts DEF Core, TypeOK, TypesThreads
<1>2. CASE IsLoad(p)
  <2>1. p # "ces"
    BY <1>1, <1>2 DEF Core, JobsOK, JobOK
  <2>2. Plain' => procs[p].user = account.user /\ procs[p].rows = AllOf(account.user)
    BY <1>1, <1>2 DEF Plain, Fresh, LoadFresh, Loading, LoadPCs
  <2> QED BY <1>1, <2>1, <2>2, FreshLoadGoes
<1>3. CASE ~IsLoad(p)
  <2>1. p = "ces" /\ ("late" \notin excuses => procs["ces"].user = account.user)
    BY <1>1, <1>3 DEF Core, JobsOK, JobOK, Fresh, LoadFresh
  <2>2. \/ procs[p].rows = ParseToPkgInfoTables(procs[p].bundle, procs[p].user)
        \/ Queued(procs[p].bundle, procs[p].user)
    BY <1>1, <1>3, <2>1 DEF Fresh, HandlerFresh
  <2> QED BY <1>1, <1>3, <2>1, <2>2, FreshEventGoes
<1> QED BY <1>2, <1>3

LEMMA FreshRollBack ==
  ASSUME Core, WriteOK, Fresh, NEW p \in Procs,
         BeginTransaction(p) \/ Insert(p) \/ Commit(p), RollBack(p), UNCHANGED saved
  PROVE  Fresh'
<1> USE ProcFacts DEF Core, TypeOK, store, outside
<1>1. CASE IsLoad(p)
  BY <1>1, FreshThread
<1>2. CASE ~IsLoad(p)
  <2>1. p = "ces" /\ EventFails(p) /\ TypesThreads
    BY <1>2 DEF RollBack, UpdateFails, JobsOK, JobOK
  <2>2. Moves("ces", Idle) /\ "late" \in excuses'
    BY <2>1, Failing DEF EventFails
  <2>3. UNCHANGED <<events, apps, account, initOnce, saved, reported>>
    BY DEF BeginTransaction, Insert, Commit
  <2>4. \A q \in Procs : q # "ces" => procs[q].pc # "insert"
    BY <2>1 DEF LocksHeld, BeginTransaction, Insert, Commit
  <2> QED BY <2>2, <2>3, <2>4, FreshEventEnds
<1> QED BY <1>1, <1>2

LEMMA FreshBegin ==
  ASSUME Core, WriteOK, Fresh, NEW p \in Procs, BeginTransaction(p) PROVE Fresh'
<1> USE ProcFacts DEF Core, TypeOK, store, outside
<1>1. /\ procs \in [Procs -> Jobs] /\ procs[p] \in Jobs /\ procs[p].pc = "begin" /\ table = saved
      /\ UNCHANGED <<events, apps, account, initOnce, saved, reported>>
      /\ \A q \in Procs : procs[q].pc # "insert"
  BY DEF TypesThreads, BeginTransaction, WriteOK, LocksHeld
<1>2. CASE table' = table \ Replaced(p) /\ Goes(p, "insert") /\ UNCHANGED excuses
  <2>1. /\ \A q \in Procs : q # p => procs'[q] = procs[q]
        /\ procs'[p].user = procs[p].user /\ procs'[p].pc = "insert"
        /\ procs'[p].op = procs[p].op /\ procs'[p].bundle = procs[p].bundle
        /\ procs'[p].rows = procs[p].rows
    BY <1>1, <1>2 DEF Jobs, Goes
  <2>2. CASE IsLoad(p)
    <3>1. p # "ces" /\ table' \cup procs'[p].rows = procs[p].rows
      BY <1>1, <1>2, <2>1, <2>2 DEF JobsOK, JobOK, Replaced
    <3>2. Plain' => procs[p].user = account.user /\ procs[p].rows = AllOf(account.user)
      BY <1>1, <1>2, <2>2 DEF Plain, Fresh, LoadFresh, Loading, LoadPCs
    <3> QED BY <1>1, <1>2, <2>1, <3>1, <3>2, FreshLoadGoes
  <2>3. CASE ~IsLoad(p)
    <3>1. p = "ces" /\ ("late" \notin excuses => procs["ces"].user = account.user)
      BY <1>1, <2>3 DEF JobsOK, JobOK, Fresh, LoadFresh
    <3>2. table' \cup procs'[p].rows = With(procs[p].bundle, procs[p].rows)
      BY <1>1, <1>2, <2>1, <2>3, BundlesAssumption DEF JobsOK, JobOK, Replaced, With
    <3>3. \/ procs[p].rows = ParseToPkgInfoTables(procs[p].bundle, procs[p].user)
          \/ Queued(procs[p].bundle, procs[p].user)
      BY <1>1, <2>3, <3>1 DEF Fresh, HandlerFresh
    <3> QED BY <1>1, <1>2, <2>1, <2>3, <3>1, <3>2, <3>3, FreshEventGoes
  <2> QED BY <2>2, <2>3
<1>3. CASE IfFaulty(RollBack(p))
  BY <1>1, <1>3, FreshRollBack DEF IfFaulty
<1> QED BY <1>2, <1>3 DEF BeginTransaction

LEMMA FreshInsert ==
  ASSUME Core, WriteOK, Fresh, NEW p \in Procs, Insert(p) PROVE Fresh'
<1> USE ProcFacts DEF Core, TypeOK, store, outside
<1>1. /\ procs \in [Procs -> Jobs] /\ procs[p] \in Jobs /\ procs[p].pc = "insert"
      /\ UNCHANGED <<events, apps, account, initOnce, saved, reported>>
      /\ \A q \in Procs : q # p => procs[q].pc # "insert"
  BY DEF TypesThreads, Insert, LocksHeld
<1>2. ASSUME NEW r \in procs[p].rows, table' = table \cup {r},
             procs' = [procs EXCEPT ![p].rows = @ \ {r}], UNCHANGED excuses
      PROVE  Fresh'
  <2>1. /\ \A q \in Procs : q # p => procs'[q] = procs[q]
        /\ procs'[p].user = procs[p].user /\ procs'[p].pc = "insert"
        /\ procs'[p].op = procs[p].op /\ procs'[p].bundle = procs[p].bundle
        /\ procs'[p].rows = procs[p].rows \ {r}
    BY <1>1, <1>2 DEF Jobs
  <2>2. table' \cup procs'[p].rows = table \cup procs[p].rows
    BY <1>2, <2>1
  <2>3. CASE IsLoad(p)
    <3>1. p # "ces"
      BY <1>1, <2>3 DEF JobsOK, JobOK
    <3>2. Plain' => procs[p].user = account.user /\ table \cup procs[p].rows = AllOf(account.user)
      BY <1>1, <1>2, <2>3 DEF Plain, Fresh, LoadFresh, Loading, LoadPCs
    <3> QED BY <1>1, <1>2, <2>1, <2>2, <3>1, <3>2, FreshLoadGoes
  <2>4. CASE ~IsLoad(p)
    <3>1. p = "ces" /\ ("late" \notin excuses => procs["ces"].user = account.user)
      BY <1>1, <2>4 DEF JobsOK, JobOK, Fresh, LoadFresh
    <3>2. \/ table \cup procs[p].rows =
               With(procs[p].bundle, ParseToPkgInfoTables(procs[p].bundle, procs[p].user))
          \/ Queued(procs[p].bundle, procs[p].user)
      BY <1>1, <2>4, <3>1 DEF Fresh, HandlerFresh
    <3> QED BY <1>1, <1>2, <2>1, <2>2, <2>4, <3>1, <3>2, FreshEventGoes
  <2> QED BY <2>3, <2>4
<1>3. CASE IfFaulty(RollBack(p))
  BY <1>1, <1>3, FreshRollBack DEF IfFaulty
<1> QED BY <1>2, <1>3 DEF Insert

\* Replacing one package leaves the rows of the others.
LEMMA WithRows ==
  ASSUME NEW b \in Bundles, NEW S \in Table!Answers(b)
  PROVE  /\ Table!RowsOfBundle(With(b, S), b) = S
         /\ \A c : c # b => Table!RowsOfBundle(With(b, S), c) = Table!RowsOfBundle(saved, c)
<1>1. \A r \in S : r.bundle = b
  BY DEF Table!Answers, Table!Whole
<1> QED
  BY <1>1 DEF With, Table!RowsOfBundle

\* A load commits: the rows are those of the foreground account.
LEMMA FreshCommitLoad ==
  ASSUME Core, WriteOK, Fresh, NEW p \in Procs, Commit(p), IsLoad(p), saved' = table,
         procs' = [procs EXCEPT ![p] = [procs[p] EXCEPT !.pc = "flag"]], UNCHANGED excuses
  PROVE  Fresh'
<1> USE ProcFacts DEF Core, TypeOK, Fresh
<1>1. /\ procs \in [Procs -> Jobs] /\ procs[p] \in Jobs /\ procs[p].pc = "insert"
      /\ procs[p].rows = {} /\ p # "ces" /\ ~initOnce /\ account.user \in Users
      /\ UNCHANGED <<events, apps, account, initOnce, reported>>
  BY DEF TypesThreads, TypesOutside, Commit, JobsOK, JobOK, outside, LocksHeld, Loading, LoadPCs
<1>2. /\ \A q \in Procs : q # p => procs'[q] = procs[q]
      /\ procs'[p].user = procs[p].user /\ procs'[p].pc = "flag"
  BY <1>1 DEF Jobs
<1>3. \A q \in Procs : q # p => procs[q].pc # "insert" /\ ~Loading(q) /\ ~Loading(q)'
  BY <1>1, <1>2 DEF LocksHeld, Loading, IsLoad, LoadPCs
<1>4. IsLoad("ces")' <=> IsLoad("ces")
  BY <1>1, <1>2 DEF IsLoad
<1>5. QueueOK'
  BY <1>1, <1>2, <1>4, SameWorld DEF QueueOK
<1>6. HandlerFresh'
  BY <1>1, <1>2, <1>3, <1>4, SameWorld DEF HandlerFresh
<1>7. Plain' => procs[p].user = account.user /\ table = AllOf(account.user)
  BY <1>1 DEF Plain, LoadFresh, Loading, LoadPCs
<1>8. Plain' => \A b \in Bundles : Covered(b)'
  BY <1>1, <1>7, ParseIsWhole, SameWorld DEF Covered
<1>9. LoadFresh'
  BY <1>1, <1>2, <1>3, <1>7, <1>8 DEF LoadFresh
<1> QED BY <1>5, <1>6, <1>9

\* The handler of an event commits: the rows are current, or an event follows.
LEMMA FreshCommitEvent ==
  ASSUME Core, WriteOK, Fresh, Commit("ces"), ~IsLoad("ces"), saved' = table,
         procs' = [procs EXCEPT !["ces"] = Idle], UNCHANGED <<table, excuses>>
  PROVE  Fresh'
<1> USE ProcFacts, JobFacts DEF Core, TypeOK, Fresh
<1> DEFINE b == procs["ces"].bundle
           u == procs["ces"].user
<1>1. /\ procs \in [Procs -> Jobs] /\ procs["ces"].pc = "insert" /\ procs["ces"].rows = {}
      /\ b \in Bundles /\ u \in Users
      /\ UNCHANGED <<events, apps, account, initOnce, reported>>
  BY DEF TypesThreads, Commit, JobsOK, JobOK, outside
<1>2. /\ \A q \in Procs : q # "ces" => procs'[q] = procs[q]
      /\ procs'["ces"].pc = "idle" /\ procs'["ces"].op = "none"
  BY <1>1
<1>3. \A q \in Procs : q # "ces" => procs[q].pc # "insert"
  BY <1>1 DEF LocksHeld
<1>4. IsLoad("ces")' /\ \A q \in Procs : Loading(q)' => q # "ces" /\ Loading(q)
  BY <1>2 DEF IsLoad, Loading, LoadPCs
<1>5. QueueOK'
  BY <1>1, <1>4, SameWorld DEF QueueOK
<1>6. HandlerFresh'
  BY <1>4 DEF HandlerFresh
<1>7. \A c : c # b => Table!RowsOfBundle(saved', c) = Table!RowsOfBundle(saved, c)
  <2>1. PICK S \in Table!Answers(b) : table \cup procs["ces"].rows = With(b, S)
    BY <1>1 DEF WriteOK
  <2>2. saved' = With(b, S)
    BY <1>1, <2>1
  <2> QED BY <1>1, <2>2, WithRows
<1>8. \/ Table!RowsOfBundle(saved', b) = ParseToPkgInfoTables(b, u)
      \/ Queued(b, u)
  <2>1. CASE Queued(b, u)
    BY <2>1
  <2>2. CASE ~Queued(b, u)
    <3>1. table \cup procs["ces"].rows = With(b, ParseToPkgInfoTables(b, u))
      BY <1>1, <2>2 DEF HandlerFresh
    <3>2. saved' = With(b, ParseToPkgInfoTables(b, u))
      BY <1>1, <3>1
    <3>3. ParseToPkgInfoTables(b, u) \in Table!Answers(b)
      BY <1>1, ParseIsRows
    <3> QED BY <1>1, <3>2, <3>3, WithRows
  <2> QED BY <2>1, <2>2
<1>9. (Plain' => Plain) /\ ("late" \notin excuses' => u = account.user)
  BY <1>1 DEF Plain, LoadFresh
<1>11. \A c : c # b => ~Handled(c, account.user)
  BY DEF Handled
<1> HIDE DEF b, u
<1>12. Plain' => \A c \in Bundles : Covered(c) => Covered(c)'
  <2>1. ASSUME Plain', NEW c \in Bundles, Covered(c) PROVE Covered(c)'
    <3>1. CASE c = b
      BY <1>1, <1>8, <1>9, <2>1, <3>1, SameWorld DEF Covered, Plain
    <3>2. CASE c # b
      BY <1>1, <1>7, <1>11, <2>1, <3>2, SameWorld DEF Covered
    <3> QED BY <3>1, <3>2
  <2> QED BY <2>1
<1>13. LoadFresh'
  <2>1. ASSUME Plain', NEW q \in Procs, Loading(q)'
        PROVE  /\ procs'[q].pc # "user" => procs'[q].user = account'.user
               /\ procs'[q].pc \in {"begin", "sizing"} => procs'[q].rows = AllOf(account.user)'
               /\ procs'[q].pc # "insert"
               /\ procs'[q].pc = "flag" => \A c \in Bundles : Covered(c)'
    BY <1>1, <1>2, <1>3, <1>4, <1>9, <1>12, <2>1, SameWorld DEF LoadFresh
  <2>2. Plain' /\ initOnce' => \A c \in Bundles : Covered(c)'
    BY <1>1, <1>9, <1>12 DEF LoadFresh
  <2> QED BY <1>2, <2>1, <2>2 DEF LoadFresh
<1> QED BY <1>5, <1>6, <1>13

LEMMA FreshCommit ==
  ASSUME Core, WriteOK, Fresh, NEW p \in Procs, Commit(p) PROVE Fresh'
<1>1. CASE IfFaulty(RollBack(p)) /\ UNCHANGED <<saved, notices>>
  BY <1>1, FreshRollBack DEF IfFaulty
<1>2. CASE /\ saved' = table /\ UNCHANGED <<table, excuses>>
           /\ procs' = [procs EXCEPT ![p] = IF IsLoad(p) THEN [@ EXCEPT !.pc = "flag"] ELSE Idle]
  <2>1. CASE IsLoad(p)
    BY <1>2, <2>1, FreshCommitLoad
  <2>2. CASE ~IsLoad(p)
    <3>1. p = "ces"
      BY <2>2 DEF Core, JobsOK, JobOK
    <3> QED BY <1>2, <2>2, <3>1, FreshCommitEvent
  <2> QED BY <2>1, <2>2
<1> QED BY <1>1, <1>2 DEF Commit

LEMMA FreshSetInitOnce ==
  ASSUME Core, Fresh, NEW p \in Procs, SetInitOnce(p) PROVE Fresh'
<1> USE ProcFacts DEF Core, TypeOK, store, outside, Fresh
<1>1. /\ procs[p].pc = "flag" /\ p # "ces" /\ Loading(p)
      /\ UNCHANGED <<events, apps, account, saved, table, reported, excuses>>
  BY DEF SetInitOnce, JobsOK, JobOK, Loading, LoadPCs
<1>2. Moves(p, After(p, TRUE)) /\ After(p, TRUE).pc \in {"idle", "read"} /\ TypesThreads
  BY AfterFacts, JobSet, JobFacts DEF TypesThreads, SetInitOnce
<1>3. procs'["ces"] = procs["ces"] /\ (IsLoad("ces")' <=> IsLoad("ces"))
  BY <1>1, <1>2 DEF Moves, IsLoad
<1>4. \A q \in Procs : ~Loading(q)'
  BY <1>1, <1>2 DEF Moves, Loading, IsLoad, LoadPCs, LocksHeld
<1>5. /\ \A c, w : Handled(c, w)' <=> Handled(c, w)
      /\ \A c, S : With(c, S)' = With(c, S)
  BY <1>1, <1>3 DEF Handled, With
<1>6. QueueOK'
  BY <1>1, <1>3, SameWorld DEF QueueOK
<1>7. HandlerFresh'
  BY <1>1, <1>3, <1>5, SameWorld DEF HandlerFresh
<1>8. (Plain' => Plain) /\ \A c : Covered(c)' <=> Covered(c)
  BY <1>1, <1>5, SameWorld DEF Plain, Covered
<1>9. LoadFresh'
  BY <1>1, <1>3, <1>4, <1>8 DEF LoadFresh
<1> QED BY <1>6, <1>7, <1>9

LEMMA FreshInit ==
  Init => Fresh
<1> SUFFICES ASSUME Init PROVE Fresh
  OBVIOUS
<1> USE ProcFacts, JobFacts
<1>1. ~initOnce /\ events = <<>> /\ \A q \in Procs : procs[q].pc = "idle" /\ procs[q].op = "none"
  BY DEF Init
<1>2. IsLoad("ces") /\ \A q \in Procs : ~Loading(q)
  BY <1>1 DEF IsLoad, Loading, LoadPCs
<1> QED
  BY <1>1, <1>2 DEF Fresh, QueueOK, HandlerFresh, LoadFresh

LEMMA FreshNext ==
  Core /\ WriteOK /\ Fresh /\ [Next]_vars => Fresh'
<1> SUFFICES ASSUME Core, WriteOK, Fresh, [Next]_vars PROVE Fresh'
  OBVIOUS
<1>1. ASSUME NEW p \in Procs, Thread(p) PROVE Fresh'
  BY <1>1, FreshThread, FreshGetCurrentActiveUserId, FreshGetBundleMgrProxy,
    FreshBundleManagerAnswers, FreshSize, FreshBegin, FreshInsert, FreshCommit, FreshSetInitOnce,
    FreshIsCurrentUserId
  DEF Thread
<1>2. ASSUME Outside PROVE Fresh'
  <2>1. Changing \subseteq Users /\ Switchable \subseteq Users
    BY BoundsAssumption
  <2> QED
    BY <1>2, <2>1, FreshPackageChanges, FreshSwitchForeground, FreshEnvironment DEF Outside
<1> QED
  BY <1>1, <1>2, FreshEnvironment, FreshOnStop, FreshOnBundleEvent, FreshSwitched DEF Next

LEMMA CurrentWhenQuiet ==
  Core /\ Fresh => TableIsCurrent
<1> SUFFICES ASSUME Core, Fresh, initOnce, events = <<>>, procs["ces"].pc = "idle",
                    ~account.switched, "late" \notin excuses
             PROVE  saved = AllOf(account.user)
  BY DEF TableIsCurrent
<1> USE ProcFacts DEF Core, TypeOK
<1>1. \A b \in Bundles : ~Queued(b, account.user) /\ ~Handled(b, account.user)
  BY DEF Queued, Handled, JobsOK, JobOK
<1>2. \A b \in Bundles : Table!RowsOfBundle(saved, b) = ParseToPkgInfoTables(b, account.user)
  BY <1>1 DEF Fresh, LoadFresh, Plain, Covered
<1>3. \A r \in saved : r.bundle \in Bundles
  BY DEF TypesStore, Rows, Table!Whole
<1>4. saved = UNION {Table!RowsOfBundle(saved, b) : b \in Bundles}
  BY <1>3 DEF Table!RowsOfBundle
<1> QED
  BY <1>2, <1>4 DEF AllOf

\* The table is current once nothing is under way, unless a call failed (as
\* one does that drops an event and reports nothing), the bundle manager did
\* not answer, or a change met a load or a switch: for any number of
\* packages, accounts, events and threads.
THEOREM TableStaysCurrent ==
  Spec => []TableIsCurrent
<1>1. Init => Core /\ WriteOK /\ Fresh
  BY CoreInit, WriteInit, FreshInit
<1>2. Core /\ WriteOK /\ Fresh /\ [Next]_vars => (Core /\ WriteOK /\ Fresh)'
  BY CoreNext, WriteNext, FreshNext
<1>3. Core /\ WriteOK /\ Fresh => TableIsCurrent
  BY CurrentWhenQuiet
<1> QED
  BY <1>1, <1>2, <1>3, PTL DEF Spec

=============================================================================
