---------------------------- MODULE PackageManager ----------------------------
(***************************************************************************)
(* The package manager of the service (drivers_pkg_manager/) and the start *)
(* of the service around it (driver_ext_mgr.cpp).                          *)
(*                                                                         *)
(* Actors: the thread of OnStart; the system ability manager, which        *)
(* reports the account, bundle and common event services; detached threads *)
(* that load the whole table (GetAllDriverInfosAsync); the thread of the   *)
(* common event subscriber, which handles package events in their order;   *)
(* the device manager, which matches devices when one is registered or a   *)
(* detached thread reports a package; a client that queries drivers; and   *)
(* the account and bundle services outside.  Three mutexes are modelled:   *)
(* initOnceMutex_, held over a whole load, bundleMgrMutex_ over a call to  *)
(* the bundle manager, and databaseMutex_ over a transaction.  The process *)
(* may end at any point; the database survives.                            *)
(***************************************************************************)
EXTENDS Naturals, Sequences, FiniteSets

CONSTANTS
  Bundles,      \* application packages
  Users,        \* accounts
  Versions,     \* versions of a package
  DriversOf,    \* the driver extensions of each package
  FirstUser,    \* the account in the foreground at start
  NotInstalled, \* no version
  AllBundles,   \* the empty bundleName: every package
  NoUser,
  Loaders,      \* bound: threads of GetAllDriverInfosAsync at the same time
  Clients,      \* callers of QueryDriverInfo
  Free,         \* no holder of a mutex
  MaxEvents,    \* bound: package events not yet handled
  MaxChanges,   \* bound: changes of the installed packages
  MaxFaults,    \* bound: failed calls, deaths of the bundle manager, ends of the process
  Switchable,   \* bound: accounts that may come to the foreground
  Changing      \* bound: accounts whose packages change

ASSUME UsersAssumption    == FirstUser \in Users /\ NoUser \notin Users
ASSUME VersionsAssumption == NotInstalled \notin Versions
ASSUME BundlesAssumption  == AllBundles \notin Bundles
ASSUME BoundsAssumption   == /\ {MaxEvents, MaxChanges, MaxFaults} \subseteq Nat
                             /\ Switchable \cup Changing \subseteq Users
ASSUME ProcsAssumption    == /\ Loaders \cap Clients = {}
                             /\ {"ces", "match", Free} \cap (Loaders \cup Clients) = {}
                             /\ Free \notin {"ces", "match"}

VARIABLES
  boot,         \* how far OnStart came; "off": no process
  reported,     \* system abilities the listener was told of
  bms,          \* the bundle manager and bundleMgr_, the proxy to it
  apps,         \* what is installed for each account
  changes,      \* how many changes of it there were
  account,      \* the foreground account; switched: its event is not handled
  events,       \* package events on their way to the subscriber
  initOnce,
  initOnceMutex, bundleMgrMutex, databaseMutex,
  table,        \* the rows, as the open transaction sees them
  saved,        \* the rows as last committed
  notices,      \* OnBundlesUpdated threads that have not run
  procs,        \* what each thread is doing
  faults,       \* how many faults there were
  seen,         \* the rows the devices were matched with last
  excuses       \* history: "late", the table may miss a change that a failure
                \* or an overlap hid; "unmatched", the last matching failed

vars == <<boot, reported, bms, apps, changes, account, events, initOnce, initOnceMutex,
          bundleMgrMutex, databaseMutex, table, saved, notices, procs, faults, seen, excuses>>
outside == <<bms, apps, changes, account, events>>
mutexes == <<initOnceMutex, bundleMgrMutex, databaseMutex>>
store   == <<table, saved>>

Procs == Loaders \cup Clients \cup {"ces", "match"}
SystemAbilities == {"account", "bms", "ces"}

\* The table as others may rely on it.
Table == INSTANCE DriverTable WITH
  rows <- saved,
  load <- IF initOnce THEN "done"
          ELSE IF \E p \in Procs : procs[p].pc = "flag" THEN "written" ELSE "none"

\* ParseToPkgInfoTables: the rows of what an account has installed.
ParseToPkgInfoTables(b, u) ==
  IF apps[u][b] = NotInstalled THEN {} ELSE Table!Whole(b, u, apps[u][b])
AllOf(u) == UNION {ParseToPkgInfoTables(b, u) : b \in Bundles}

\* A thread: op is why it runs, bundle what it replaces, rows what is left to
\* insert, sizes the packages whose size is still to be asked.
Idle == [op |-> "none", pc |-> "idle", user |-> NoUser, bundle |-> AllBundles, rows |-> {},
         sizes |-> {}]
Ops  == {"none", "load", "changed", "removed", "notice", "query"}
Rows == UNION {Table!Whole(b, u, v) : b \in Bundles, u \in Users, v \in Versions}
PCs  == {"idle", "wait", "init", "user", "ask", "asked", "begin", "sizing", "insert", "flag",
         "check", "read"}
Jobs == [op : Ops, pc : PCs, user : Users \cup {NoUser}, bundle : Bundles \cup {AllBundles},
         rows : SUBSET Rows, sizes : SUBSET Bundles]
Events == [op : {"changed", "removed"}, bundle : Bundles, user : Users]

Fault       == faults < MaxFaults /\ faults' = faults + 1
IfFaulty(A) == Fault /\ A
Running     == boot # "off"
Goes(p, pc) == procs' = [procs EXCEPT ![p].pc = pc]
FreeLoaders == {p \in Loaders : procs[p].pc = "idle"}
LoadJob     == [Idle EXCEPT !.op = "load", !.pc = "wait"]

\* A thread loads the whole table, or handles an event about one package.
IsLoad(p) == procs[p].op \notin {"changed", "removed"}

\* A thread is between the account it reads and the flag it sets.
LoadPCs    == {"user", "ask", "asked", "begin", "sizing", "insert", "flag"}
Loading(p) == IsLoad(p) /\ procs[p].pc \in LoadPCs
InLoad     == \E p \in Procs : Loading(p)

-----------------------------------------------------------------------------
(***************************************************************************)
(* The start of the service, in the order of DriverExtMgr::OnStart.        *)
(***************************************************************************)
OnStart ==
  /\ boot = "off" /\ boot' = "init"
  /\ \E p \in FreeLoaders : procs' = [procs EXCEPT ![p] = LoadJob]
  /\ UNCHANGED <<reported, outside, initOnce, mutexes, store, notices, seen, faults, excuses>>

AddSystemAbilityListeners ==
  /\ boot = "init" /\ boot' = "listen"
  /\ UNCHANGED <<reported, outside, initOnce, mutexes, store, notices, procs, seen,
                 faults, excuses>>

\* ExtDeviceManager::Init sets bundleUpdateCallback_.
RegisterBundleCallback ==
  /\ boot = "listen" /\ boot' = "callback"
  /\ UNCHANGED <<reported, outside, initOnce, mutexes, store, notices, procs, seen,
                 faults, excuses>>

\* BusExtensionCore::Init subscribes to the USB host service, once.  Until
\* then no device is registered, so that none is matched with older rows.
SetDevChangeCallback ==
  /\ boot = "callback" /\ boot' = "bus" /\ seen' = saved
  /\ UNCHANGED <<reported, outside, initOnce, mutexes, store, notices, procs, faults, excuses>>

\* Each promise is set once; the account report also subscribes to account
\* switches, the common event report to package events.
OnAddSystemAbility(sa) ==
  /\ boot \notin {"off", "init"}
  /\ sa \notin reported /\ (sa = "bms" => bms.up)
  /\ reported' = reported \cup {sa}
  /\ UNCHANGED <<boot, outside, initOnce, mutexes, store, notices, procs, seen, faults, excuses>>

\* The process ends, by OnStop, by UsbdDeathRecipient or by a crash, in the
\* middle of whatever it does; an open transaction is undone.
OnStop ==
  /\ Running /\ Fault
  /\ boot' = "off" /\ reported' = {} /\ initOnce' = FALSE
  /\ initOnceMutex' = Free /\ bundleMgrMutex' = Free /\ databaseMutex' = Free
  /\ bms' = [bms EXCEPT !.proxy = "none"]
  /\ account' = [account EXCEPT !.switched = FALSE]
  /\ events' = <<>> /\ notices' = {} /\ excuses' = {}
  /\ table' = saved /\ seen' = {}
  /\ procs' = [p \in Procs |-> Idle]
  /\ UNCHANGED <<apps, changes, saved>>

-----------------------------------------------------------------------------
(***************************************************************************)
(* The services outside.  A change that meets a load or a switch under way *)
(* may leave the table out of date: the excuse "late".                     *)
(***************************************************************************)
Excused(safe) == excuses' = IF safe \/ ~Running THEN excuses ELSE excuses \cup {"late"}

PackageChanges(b, u, v) ==
  /\ bms.up /\ v # apps[u][b]
  /\ changes < MaxChanges /\ changes' = changes + 1
  /\ apps' = [apps EXCEPT ![u][b] = v]
  /\ IF "ces" \in reported
     THEN Len(events) < MaxEvents
          /\ events' = Append(events, [op |-> IF v = NotInstalled THEN "removed" ELSE "changed",
                                       bundle |-> b, user |-> u])
     ELSE UNCHANGED events
  /\ Excused(~InLoad /\ ~account.switched /\ (initOnce => "ces" \in reported))
  /\ UNCHANGED <<boot, reported, bms, account, initOnce, mutexes, store, notices, procs,
                 seen, faults>>

SwitchForeground(u) ==
  /\ u # account.user /\ ~account.switched /\ FreeLoaders # {}
  /\ account' = [user |-> u, switched |-> "account" \in reported]
  /\ Excused(/\ events = <<>> /\ procs["ces"].pc = "idle"
             /\ initOnce \/ InLoad => "account" \in reported)
  /\ UNCHANGED <<boot, reported, bms, apps, changes, events, initOnce, mutexes, store,
                 notices, procs, seen, faults>>

BundleManagerDies ==
  /\ bms.up /\ Fault
  /\ bms' = [up |-> FALSE, proxy |-> IF bms.proxy = "live" THEN "dead" ELSE bms.proxy]
  /\ UNCHANGED <<boot, reported, apps, changes, account, events, initOnce, mutexes, store,
                 notices, procs, seen, excuses>>

BundleManagerRestarts ==
  /\ ~bms.up /\ bms' = [bms EXCEPT !.up = TRUE]
  /\ UNCHANGED <<boot, reported, apps, changes, account, events, initOnce, mutexes, store,
                 notices, procs, seen, faults, excuses>>

\* BundleMgrDeathRecipient drops the proxy.
ResetBundleMgr ==
  /\ bms.proxy = "dead" /\ bundleMgrMutex = Free
  /\ bms' = [bms EXCEPT !.proxy = "none"]
  /\ UNCHANGED <<boot, reported, apps, changes, account, events, initOnce, mutexes, store,
                 notices, procs, seen, faults, excuses>>

-----------------------------------------------------------------------------
(***************************************************************************)
(* GetAllDriverInfos, called by a loading thread, by QueryMatchDriver and  *)
(* by QueryDriverInfo.                                                     *)
(***************************************************************************)
\* What a thread does after GetAllDriverInfos.
After(p, ok) == IF procs[p].op # "load" /\ ok THEN [procs[p] EXCEPT !.pc = "read"] ELSE Idle

\* Variant: the load is tried again until it succeeds.
LoadAgain(p) ==
  /\ initOnceMutex' = Free
  /\ Goes(p, "init")
  /\ UNCHANGED excuses

\* The load fails: initOnceMutex_ is released, initOnce stays; devices that
\* were to be matched are not.
LoadFails(p) ==
  /\ initOnceMutex' = Free
  /\ procs' = [procs EXCEPT ![p] = After(p, FALSE)]
  /\ excuses' = IF procs[p].op = "notice" THEN excuses \cup {"unmatched"} ELSE excuses

\* The thread of GetAllDriverInfosAsync waits for two of the three futures.
WaitFutures(p) ==
  /\ procs[p].pc = "wait" /\ {"bms", "account"} \subseteq reported
  /\ Goes(p, "init")
  /\ UNCHANGED <<boot, reported, outside, initOnce, mutexes, store, notices, seen, faults, excuses>>

\* Variant: initOnce tested without the lock.
EnterUnlocked(p) ==
  /\ procs[p].pc = "init"
  /\ IF initOnce THEN procs' = [procs EXCEPT ![p] = After(p, TRUE)] ELSE Goes(p, "user")
  /\ UNCHANGED <<boot, reported, outside, initOnce, mutexes, store, notices, seen, faults, excuses>>

EnterGetAllDriverInfos(p) ==
  /\ procs[p].pc = "init" /\ initOnceMutex = Free
  /\ \/ /\ initOnce
        /\ procs' = [procs EXCEPT ![p] = After(p, TRUE)]
        /\ UNCHANGED initOnceMutex
     \/ /\ ~initOnce
        /\ initOnceMutex' = p
        /\ Goes(p, "user")
  /\ UNCHANGED <<boot, reported, outside, initOnce, bundleMgrMutex, databaseMutex, store,
                 notices, seen, faults, excuses>>

\* Variant: a failure to get the account is not looked at.
UserIdUnchecked(p) ==
  /\ procs[p].pc = "user"
  /\ \/ procs' = [procs EXCEPT ![p].user = account.user, ![p].pc = "ask"] /\ UNCHANGED faults
     \/ IfFaulty(Goes(p, "ask"))
  /\ UNCHANGED <<boot, reported, outside, initOnce, mutexes, store, notices, seen, excuses>>

GetCurrentActiveUserId(p) ==
  /\ procs[p].pc = "user"
  /\ \/ /\ procs' = [procs EXCEPT ![p].user = account.user, ![p].pc = "ask"]
        /\ UNCHANGED <<initOnceMutex, faults, excuses>>
     \/ IfFaulty(LoadFails(p))
  /\ UNCHANGED <<boot, reported, outside, initOnce, bundleMgrMutex, databaseMutex, store,
                 notices, seen>>

\* The handler of an event gives up, and the table misses what the event told.
EventFails(p) ==
  /\ procs' = [procs EXCEPT ![p] = Idle]
  /\ excuses' = excuses \cup {"late"}

\* GetBundleMgrProxy: bundleMgr_ is there, or is obtained, or cannot be.
ProxyFound   == /\ bms.proxy # "none" \/ bms.up
                /\ bms' = [bms EXCEPT !.proxy = IF @ = "none" THEN "live" ELSE @]
                /\ UNCHANGED faults
ProxyMissing == /\ bms.proxy = "none" /\ UNCHANGED bms
                /\ IF bms.up THEN Fault ELSE UNCHANGED faults

\* The call is under bundleMgrMutex_, which is released when it fails.
GetBundleMgrProxy(p) ==
  /\ procs[p].pc = "ask" /\ bundleMgrMutex = Free
  /\ \/ /\ ProxyFound
        /\ bundleMgrMutex' = p
        /\ Goes(p, "asked")
        /\ UNCHANGED <<initOnceMutex, excuses>>
     \/ /\ ProxyMissing
        /\ IF IsLoad(p) THEN LoadFails(p)
           ELSE EventFails(p) /\ UNCHANGED initOnceMutex
        /\ UNCHANGED bundleMgrMutex
  /\ UNCHANGED <<boot, reported, apps, changes, account, events, initOnce, databaseMutex, store,
                 notices, seen>>

\* The answer is parsed, which asks for the size of each package in it.
Parsed(p, rows) ==
  procs' = [procs EXCEPT ![p].rows = rows, ![p].sizes = {r.bundle : r \in rows},
                         ![p].pc = "begin"]

\* QueryExtensionAbilityInfos for a load: its result is not looked at, and no
\* answer counts as an empty one.  GetBundleInfo for an event.
BundleManagerAnswers(p) ==
  LET got == bms.proxy = "live" IN
  /\ procs[p].pc = "asked"
  /\ bundleMgrMutex' = Free
  /\ \/ /\ IsLoad(p)
        /\ Parsed(p, IF got THEN AllOf(procs[p].user) ELSE {})
        /\ excuses' = IF got THEN excuses ELSE excuses \cup {"late"}
     \/ /\ ~IsLoad(p) /\ got
        /\ apps[procs[p].user][procs[p].bundle] # NotInstalled
        /\ Parsed(p, ParseToPkgInfoTables(procs[p].bundle, procs[p].user))
        /\ UNCHANGED excuses
     \/ /\ ~IsLoad(p) /\ got
        /\ apps[procs[p].user][procs[p].bundle] = NotInstalled
        /\ procs' = [procs EXCEPT ![p] = Idle]
        /\ UNCHANGED excuses
     \/ ~IsLoad(p) /\ ~got /\ EventFails(p)
  /\ UNCHANGED <<boot, reported, outside, initOnce, initOnceMutex, databaseMutex, store,
                 notices, seen, faults>>

\* GetBundleSize takes bundleMgrMutex_ again, between the answer and the
\* transaction; without a proxy the package is stored without its size.
GetBundleSize(p) ==
  /\ procs[p].pc = "begin" /\ bundleMgrMutex = Free
  /\ \E b \in procs[p].sizes :
       \/ /\ ProxyFound
          /\ bundleMgrMutex' = p
          /\ procs' = [procs EXCEPT ![p].sizes = @ \ {b}, ![p].pc = "sizing"]
       \/ /\ ProxyMissing
          /\ procs' = [procs EXCEPT ![p].sizes = @ \ {b}]
          /\ UNCHANGED bundleMgrMutex
  /\ UNCHANGED <<boot, reported, apps, changes, account, events, initOnce, initOnceMutex,
                 databaseMutex, store, notices, seen, excuses>>

\* GetBundleStats returns; a size it does not tell is left out as well.
GetBundleStats(p) ==
  /\ procs[p].pc = "sizing"
  /\ bundleMgrMutex' = Free
  /\ Goes(p, "begin")
  /\ UNCHANGED <<boot, reported, outside, initOnce, initOnceMutex, databaseMutex, store,
                 notices, seen, faults, excuses>>

-----------------------------------------------------------------------------
(***************************************************************************)
(* The transaction: AddOrUpdatePkgInfo, and DeleteRightRecord, which       *)
(* inserts nothing, under databaseMutex_.                                  *)
(***************************************************************************)
Replaced(p) == IF procs[p].bundle = AllBundles THEN table
               ELSE Table!RowsOfBundle(table, procs[p].bundle)

\* UpdateToRdb returns false to a load, or ends the handling of an event.
UpdateFails(p) ==
  IF IsLoad(p) THEN LoadFails(p)
  ELSE EventFails(p) /\ UNCHANGED initOnceMutex

RollBack(p) ==
  /\ databaseMutex' = Free
  /\ table' = saved
  /\ UpdateFails(p)

BeginTransaction(p) ==
  /\ procs[p].pc = "begin" /\ procs[p].sizes = {} /\ databaseMutex = Free
  /\ \/ /\ databaseMutex' = p
        /\ table' = table \ Replaced(p)
        /\ Goes(p, "insert")
        /\ UNCHANGED <<initOnceMutex, faults, excuses>>
     \/ IfFaulty(RollBack(p))
  /\ UNCHANGED <<boot, reported, outside, initOnce, bundleMgrMutex, saved, notices, seen>>

Insert(p) ==
  /\ procs[p].pc = "insert" /\ procs[p].rows # {}
  /\ \/ /\ \E r \in procs[p].rows :
             /\ table' = table \cup {r}
             /\ procs' = [procs EXCEPT ![p].rows = @ \ {r}]
        /\ UNCHANGED <<databaseMutex, initOnceMutex, faults, excuses>>
     \/ IfFaulty(RollBack(p))
  /\ UNCHANGED <<boot, reported, outside, initOnce, bundleMgrMutex, saved, notices, seen>>

\* Variant: only the change of one package is reported, not a load.
CommitUnreported(p) ==
  /\ procs[p].pc = "insert" /\ procs[p].rows = {}
  /\ databaseMutex' = Free /\ saved' = table
  /\ notices' = IF IsLoad(p) THEN notices ELSE notices \cup {procs[p].bundle}
  /\ procs' = [procs EXCEPT ![p] = IF IsLoad(p) THEN [@ EXCEPT !.pc = "flag"] ELSE Idle]
  /\ UNCHANGED <<boot, reported, outside, initOnce, initOnceMutex, bundleMgrMutex, table,
                 seen, faults, excuses>>

\* Commit; then a detached thread reports the package, if there is a callback.
Commit(p) ==
  /\ procs[p].pc = "insert" /\ procs[p].rows = {}
  /\ \/ /\ databaseMutex' = Free
        /\ saved' = table
        /\ notices' = IF boot \in {"init", "listen"} THEN notices
                      ELSE notices \cup {procs[p].bundle}
        /\ procs' = [procs EXCEPT ![p] = IF IsLoad(p) THEN [@ EXCEPT !.pc = "flag"] ELSE Idle]
        /\ UNCHANGED <<table, initOnceMutex, faults, excuses>>
     \/ IfFaulty(RollBack(p)) /\ UNCHANGED <<saved, notices>>
  /\ UNCHANGED <<boot, reported, outside, initOnce, bundleMgrMutex, seen>>

SetInitOnce(p) ==
  /\ procs[p].pc = "flag"
  /\ initOnce' = TRUE /\ initOnceMutex' = Free
  /\ procs' = [procs EXCEPT ![p] = After(p, TRUE)]
  /\ UNCHANGED <<boot, reported, outside, bundleMgrMutex, databaseMutex, store, notices,
                 seen, excuses, faults>>

-----------------------------------------------------------------------------
(***************************************************************************)
(* Events.                                                                 *)
(***************************************************************************)
\* The subscriber's thread takes the next package event...
OnBundleEvent ==
  /\ Running /\ events # <<>> /\ procs["ces"].pc = "idle"
  /\ procs' = [procs EXCEPT !["ces"] =
       [op |-> Head(events).op, pc |-> "check", user |-> Head(events).user,
        bundle |-> Head(events).bundle, rows |-> {}, sizes |-> {}]]
  /\ events' = Tail(events)
  /\ UNCHANGED <<boot, reported, bms, apps, changes, account, initOnce, mutexes, store, notices,
                 seen, excuses, faults>>

\* ... and drops it when its account is not in the foreground, or when the
\* foreground account cannot be told, which is reported to nobody.
IsCurrentUserId(p) ==
  /\ procs[p].pc = "check"
  /\ \/ /\ procs' = [procs EXCEPT ![p] =
             IF procs[p].user # account.user THEN Idle
             ELSE [@ EXCEPT !.pc = IF procs[p].op = "removed" THEN "begin" ELSE "ask"]]
        /\ UNCHANGED <<faults, excuses>>
     \/ IfFaulty(EventFails(p))
  /\ UNCHANGED <<boot, reported, outside, initOnce, mutexes, store, notices, seen>>

\* Variant: initOnce is not reset.
SwitchedNoReset ==
  /\ Running /\ account.switched /\ initOnceMutex = Free
  /\ account' = [account EXCEPT !.switched = FALSE]
  /\ \E p \in FreeLoaders : procs' = [procs EXCEPT ![p] = LoadJob]
  /\ excuses' = IF events = <<>> /\ procs["ces"].pc = "idle" THEN excuses \ {"late"} ELSE excuses
  /\ UNCHANGED <<boot, reported, bms, apps, changes, events, initOnce, mutexes, store,
                 notices, seen, faults>>

\* DriverOsAccountSwitched: ResetInitOnce, which waits for a load under way,
\* then a new load.
OnAccountsSwitched ==
  /\ Running /\ account.switched /\ initOnceMutex = Free
  /\ account' = [account EXCEPT !.switched = FALSE]
  /\ initOnce' = FALSE
  /\ \E p \in FreeLoaders : procs' = [procs EXCEPT ![p] = LoadJob]
  /\ excuses' = IF events = <<>> /\ procs["ces"].pc = "idle" THEN excuses \ {"late"} ELSE excuses
  /\ UNCHANGED <<boot, reported, bms, apps, changes, events, mutexes, store, notices, seen, faults>>

\* QueryMatchDriver, when a device is registered, and QueryDriverInfo, for a
\* client, load the table if need be and read it.
QueryMatchDriver(p) ==
  /\ boot = "bus" /\ procs[p].pc = "idle"
  /\ procs' = [procs EXCEPT ![p] = [Idle EXCEPT !.op = "query", !.pc = "init"]]
  /\ UNCHANGED <<boot, reported, outside, initOnce, mutexes, store, notices, faults, seen, excuses>>

\* A detached thread reports a package and all devices are matched; the
\* device manager does both under deviceMapMutex_, one at a time.
OnBundlesUpdated ==
  /\ procs["match"].pc = "idle"
  /\ \E b \in notices : notices' = notices \ {b}
  /\ procs' = [procs EXCEPT !["match"] = [Idle EXCEPT !.op = "notice", !.pc = "init"]]
  /\ UNCHANGED <<boot, reported, outside, initOnce, mutexes, store, seen, faults, excuses>>

\* QueryPkgInfos, a transaction of its own.
QueryPkgInfos(p) ==
  /\ procs[p].pc = "read" /\ databaseMutex = Free
  /\ procs' = [procs EXCEPT ![p] = Idle]
  /\ \/ /\ procs[p].op = "notice"
        /\ \/ seen' = table /\ excuses' = excuses \ {"unmatched"} /\ UNCHANGED faults
           \/ IfFaulty(UNCHANGED seen /\ excuses' = excuses \cup {"unmatched"})
     \/ procs[p].op # "notice" /\ UNCHANGED <<seen, faults, excuses>>
  /\ UNCHANGED <<boot, reported, outside, initOnce, mutexes, store, notices>>

-----------------------------------------------------------------------------
Init ==
  /\ boot = "off" /\ reported = {}
  /\ bms = [up |-> TRUE, proxy |-> "none"]
  /\ \E v \in Versions : \E w \in {v, NotInstalled} :
       apps = [u \in Users |-> [b \in Bundles |-> IF u \in Changing THEN w ELSE v]]
  /\ changes = 0
  /\ account = [user |-> FirstUser, switched |-> FALSE]
  /\ events = <<>>
  /\ initOnce = FALSE
  /\ initOnceMutex = Free /\ bundleMgrMutex = Free /\ databaseMutex = Free
  /\ table = {} /\ saved = {}
  /\ notices = {}
  /\ procs = [p \in Procs |-> Idle]
  /\ faults = 0
  /\ seen = {}
  /\ excuses = {}

Boot == \/ OnStart
        \/ AddSystemAbilityListeners
        \/ RegisterBundleCallback
        \/ SetDevChangeCallback

Thread(p) == \/ WaitFutures(p)
             \/ EnterGetAllDriverInfos(p)
             \/ GetCurrentActiveUserId(p)
             \/ GetBundleMgrProxy(p)
             \/ BundleManagerAnswers(p)
             \/ GetBundleSize(p)
             \/ GetBundleStats(p)
             \/ BeginTransaction(p)
             \/ Insert(p)
             \/ Commit(p)
             \/ SetInitOnce(p)
             \/ IsCurrentUserId(p)
             \/ QueryPkgInfos(p)

Outside == \/ \E b \in Bundles, u \in Changing, v \in Versions \cup {NotInstalled} :
                PackageChanges(b, u, v)
           \/ \E u \in Switchable : SwitchForeground(u)
           \/ BundleManagerDies
           \/ BundleManagerRestarts

Next == \/ Boot
        \/ \E sa \in SystemAbilities : OnAddSystemAbility(sa)
        \/ OnStop
        \/ Outside
        \/ ResetBundleMgr
        \/ OnBundleEvent
        \/ OnAccountsSwitched
        \/ \E p \in Clients \cup {"match"} : QueryMatchDriver(p)
        \/ OnBundlesUpdated
        \/ \E p \in Procs : Thread(p)

Spec == Init /\ [][Next]_vars

(***************************************************************************)
(* Fairness.  A thread that can go on does, and gets a mutex that is free  *)
(* again and again; reported packages are matched.  Nothing is asked of    *)
(* the services outside, of clients, or of the reports of system           *)
(* abilities.                                                              *)
(***************************************************************************)
Fairness == /\ \A p \in Procs : SF_vars(Thread(p))
            /\ SF_vars(OnBundlesUpdated)

FairSpec == Spec /\ Fairness

-----------------------------------------------------------------------------
TypesOutside ==
  /\ boot \in {"off", "init", "listen", "callback", "bus"}
  /\ reported \subseteq SystemAbilities
  /\ bms \in [up : BOOLEAN, proxy : {"none", "live", "dead"}]
  /\ apps \in [Users -> [Bundles -> Versions \cup {NotInstalled}]]
  /\ changes \in 0..MaxChanges
  /\ account \in [user : Users, switched : BOOLEAN]
  /\ events \in Seq(Events)

TypesStore ==
  /\ table \subseteq Rows /\ saved \subseteq Rows /\ seen \subseteq Rows
  /\ notices \subseteq Bundles \cup {AllBundles}

TypesThreads ==
  /\ procs \in [Procs -> Jobs]
  /\ \A p \in Procs : procs[p].pc \in {"ask", "asked"} => procs[p].user \in Users
  /\ {initOnceMutex, bundleMgrMutex, databaseMutex} \subseteq Procs \cup {Free}
  /\ initOnce \in BOOLEAN
  /\ faults \in 0..MaxFaults
  /\ excuses \subseteq {"late", "unmatched"}

\* Types; a thread that asks the bundle manager does so for an account.
TypeOK == TypesOutside /\ TypesStore /\ TypesThreads

\* Each mutex is held by the thread that is in the section it guards, and by
\* no other: over every early return, the locks and unlocks by hand around
\* the bundle manager, the second section of it in which sizes are asked, and
\* failed transactions.
LocksHeld ==
  \A p \in Procs :
    /\ (initOnceMutex  = p) <=> Loading(p)
    /\ (bundleMgrMutex = p) <=> (procs[p].pc \in {"asked", "sizing"})
    /\ (databaseMutex  = p) <=> (procs[p].pc = "insert")

\* The rows others see are replaced in whole answers, the table is loaded
\* once for each switch, and initOnce is set only after its rows are there:
\* over failed transactions, threads that load at the same time, and the end
\* of the process at any point.
TableSpec == Table!Spec

\* Once the table is loaded and nothing is under way, it holds what the
\* foreground account has installed: over loads that are late, events that
\* wait and switches.  It may not, since the last switch, if a call failed
\* (also one that only drops an event, and reports nothing), if the bundle
\* manager did not answer, or if a change met a load or a switch.
TableIsCurrent ==
  /\ initOnce /\ events = <<>> /\ procs["ces"].pc = "idle"
  /\ ~account.switched /\ "late" \notin excuses
  => saved = AllOf(account.user)

\* Devices are matched with the rows of the table in the end: every change
\* is reported to the device manager, also one that is made while the device
\* manager is still reading an older table.
ChangesAreMatched ==
  []<>(boot # "bus" \/ seen = saved \/ "unmatched" \in excuses)

\* No thread hangs, whichever call fails: each early return gives back
\* initOnceMutex_, bundleMgrMutex_ (locked and unlocked by hand) and
\* databaseMutex_.
ThreadsReturn ==
  \A p \in Procs : []<>(procs[p].pc \in {"idle", "wait"})
=============================================================================
