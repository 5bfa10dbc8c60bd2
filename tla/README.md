# Verification of the external device manager

TLA+ modules, TLC runs and TLAPS proofs for
`openharmony/drivers_external_device_manager`: the service that matches plugged
USB devices with installed driver packages, connects their driver extensions
through the ability manager, and lets applications bind them; and the two
libraries on its sides, the client binding of an application and the driver
development kit (DDK) of a driver.

| File | What it is |
|---|---|
| `Device.tla` | one `Device` object and its ability connections, as operators |
| `ExtDeviceManager.tla` | the service: device manager, bind calls, package threads |
| `ExtDeviceManagerProofs.tla` | its inductive invariant and the theorems about devices, connections and the timer |
| `ExtDeviceManagerBindingProofs.tla` | the theorems about clients and driver rows |
| `DriverSessions.tla`, `DriverSessionsProofs.tla` | abstract: what the service promises the clients of a device, and what follows from it |
| `ExtDeviceManagerSessionProofs.tla` | the proof that the service implements `DriverSessions` |
| `DriverTable.tla` | abstract: what the table of driver packages promises |
| `PackageManager.tla` | the package manager with its mutexes and transactions, shown to implement `DriverTable` |
| `PackageManagerProofs.tla` | its locks, the refinement and the currency of the table, proved |
| `BindingContract.tla` | abstract: what an application sees of a binding |
| `ClientTypes.tla` | parcels, queries, error codes and conversions, as operators |
| `ClientBinding.tla` | an application with the napi or the taihe binding, shown to implement `BindingContract` |
| `ClientBindingProofs.tla` | its types, its callback map, the refinement and its parcels, proved |
| `ScsiData.tla`, `SenseData.tla`, `UsbConfigDesc.tla` | the pure algorithms of the DDK, as operators |
| `DriverProcess.tla` | a driver's process with the HID, USB, SCSI, serial or shared-memory library |
| `DriverProcessProofs.tla` | its proxies, ids, handles, descriptors and transfers, proved |
| `MC*.tla`, `*.cfg` | the instances TLC checks |
| `PROJECT.json` | components, runs, mutants, source map, findings, hazards, theorems |

Run a check with `tlc -config edm_binding.cfg MCExtDeviceManager`, the proofs
with `tlapm ExtDeviceManagerProofs.tla` and the other `*Proofs.tla`.

## 1. Inventory

Paths are relative to `src/services/native/driver_extension_manager/` unless
they start with `frameworks/`.

| Component | State | Operations | Talks to |
|---|---|---|---|
| **Device manager** `device_manager/etx_device_mgr.cpp` | `deviceMap_`, `bundleMatchMap_`, the unload timer; `deviceMapMutex_`, `bundleMatchMapMutex_` | register, unregister, match, delete entries, clear, bind, unbind, query, unload | bus, package manager, devices, samgr |
| **Device object** `device_manager/device.cpp` | driver, `drvExtRemote_`, `connectNofitier_` and its `info_`, `callbacks_`, `boundCallerInfos_`, `isUnRegisted`; `deviceMutex_` | connect on match, connect for a client, disconnect, `OnConnect`, `OnDisconnect`, callbacks and their death | controller, clients, device manager |
| **Driver extension controller** | none of its own; fills `info_` | connect, disconnect, start, stop; weak-pointer callbacks | ability manager |
| **Service** `driver_ext_mgr.cpp` | the process, promises for three system abilities | `OnStart`, `OnStop`, bind, unbind, query | all of the above |
| **Package manager** `drivers_pkg_manager/` | `initOnce`, the driver table (RDB), subscribers | load all, package added, updated, removed, account switching, switched, match | bundle manager, account service, device manager (detached threads) |
| **Bus extension** `bus_extension/` | subscription to the USB host service | device added, removed, match ids | device manager |
| **App launch manager** | configuration, parameter subscription | load, notify | ability manager |
| **DDK** `frameworks/ddk/` | shared-memory map, USB memory maps, HID virtual devices, death recipients | device access of a driver process | HDI services |
| **USB descriptor parser** `frameworks/ddk/usb/usb_config_desc_parser.cpp` | none | parse a configuration descriptor | |
| **Client bindings** `frameworks/js`, `frameworks/native` | callback map, promises, service proxy | bind, unbind, callbacks | service |
| **Driver extension ability**, notifications, event configuration, permissions | little or none | | |

How they interact. The bus thread calls `RegisterDevice`/`UnRegisterDevice`.
Client calls arrive on IPC threads. The ability manager answers on others,
through a weak pointer to the device's notifier. The package manager calls back
on detached threads, which it starts after every change of its table and of the
account. Account events arrive before and after the foreground account changes.
The timer ends the process.

An application talks to the service through its binding, whose callbacks arrive
on an IPC thread and are passed on to the JS thread as events. A driver talks to
HDI services through the DDK, which hears of a service's death on an IPC thread.

What is hard. Two mutexes are taken in two orders; `RegisterDevice` and
`UnRegisterDevice` look at `drvExtRemote_` and act on it after `deviceMutex_` is
released; notifiers are replaced while answers are on the way; the match table
and the device map are changed under different locks by `OnBundlesUpdated`; a
device that leaves while its driver runs stays in the map, marked. The table is
loaded by whoever needs it first, while packages and accounts change and the
bundle manager dies. The client binding stores an unbind's promise after the call
whose answer settles it. The DDK's global proxy is cleared by a death notice while
a call is using it. The list of hazards, each with its line, is in
`PROJECT.json`.

What makes each part correct: a remote object handed out belongs to a live
connection whose end the device will hear of (device); a bind is answered
(device, controller); a driver launched on bind runs while somebody uses it and
no longer (device manager); what is plugged in is listed and nothing else, and
what waits for a driver gets one (device manager, package manager); the table
holds whole packages, those of the account in the foreground, and every change
reaches the devices (package manager); the service is not unloaded under its
devices (service); promises are settled once, and settled at all (client
binding); queries show what the service knows (types, conversions); a proxy is
watched, a device id names its device and a descriptor is closed once (DDK);
a parser reads what was written (descriptor and sense data).

## 2. Modules

### Device

A device is a record, the ability manager's connections are a table of
`MaxConns` slots, and each method of `device.cpp` and
`driver_extension_controller.cpp` is an operator from the old pair to the set
of its outcomes (`Outcome(dv, cs, ok)`): one where the call it makes succeeds,
and with `Faults` one where it fails.

| TLA+ | Code |
|---|---|
| `remote` | `drvExtRemote_ != nullptr` |
| `notifier`, `info` | `connectNofitier_`, its `info_`: `NoConn`, a connection, or `Dangling` (set, but what it names was refused or has failed: the code leaves `info_` as it is, the slot of the connection table is free for another) |
| `callers` | `boundCallerInfos_`: "pending" is `isBound == false` |
| `callbacks` | `callbacks_`, with the comparator of `device.h:155` |
| `conn[c].notifies` | the `AbilityConnection`'s `weak_ptr` still leads to a notifier |
| `StopDriverExtension` | the ability manager ends some connections to the driver, whichever device they are for; called by `OnDisconnectDone` and `ClearDevice` |
| `ConnectOnMatch` | `Connect()` with its 30 retries, which are all alike: each first drops what the last one left |

### ExtDeviceManager

| Actor | Actions | Atomicity |
|---|---|---|
| bus thread | `RegisterDevice`, `FinishRegister`; `UnRegisterDevice`, `FinishUnRegister` | two steps under `deviceMapMutex_`, split where `deviceMutex_` is free: answers of the ability manager run in between |
| clients | `ConnectDevice`, `ConnectDriverWithDeviceId`, `DisConnectDevice`, `DisConnectDriverWithDeviceId`, `OnRemoteDied` | one step: the call holds `deviceMapMutex_` and the device's `deviceMutex_` |
| ability manager | `OnConnectDone`, `OnDisconnectDone` | one step under `deviceMutex_`; the erasure of an unregistered device waits for `deviceMapMutex_` |
| packages | `OnBundleChanged`, `UpdateBundle` | the check of the account, then, on a thread of its own, the answer, the rows and the detached thread in one step: the account may change in between |
| detached threads | `GetAllDriverInfosAsync`; `DeleteBundlesOfBundleInfoMap`, `LockDeviceMap`, `ResetDevice`, `MatchDevice`; `ClearDevice`, `ClearEnd` | one device at a time, the lock held in between |
| accounts | `OnAccountsSwitching`, `ForegroundChanges`, `OnAccountsSwitched` | one event each |
| process | `TimerFires`, `OnStop`, `OnStart` | the process ends with its memory; `apps` and the table stay |

`QueryMatchDriver` chooses any row that matches: the table has no order.
`Matches` and `AccessAllowed` are constants, so each run fixes what the bus
extension and the permission check answer.

### DriverSessions

`SessionSpec` says that `ExtDeviceManager` implements `DriverSessions`, which
knows nothing of the bus, the match table, the threads and the notifiers. A
device has one session: `remote` and `callers` are those of its `Device` object,
`opening` and `up` (`Heard`) are the connections that report to it and are being
connected or are connected. A free slot of the connection table is a call that no
session listens to.

| Action | In `ExtDeviceManager` |
|---|---|
| `Tell`, `Ask`, `Refuse` | a bind: the driver is connected; it is not; the ability manager refuses (`device.cpp:124`) |
| `Leave` | an unbind of a client that is not the last caller; the last one only asks for the end of the driver |
| `Answer`, `End` | `OnConnect` and `OnDisconnect` of a connection that reports to the device |
| `Open`, `Drop` | a match: a driver that is connected at once; the reset before it |
| `Erase`, `Stop` | the `Device` object, or the process, is gone |

Everything else stutters, the answer to a connection whose notifier was replaced
included. `Backed` is what follows from the promise for any implementation.

### What the device manager leaves out

Not in these modules: `UpdateDriverInfo`/`RemoveDriverInfo`, which change a
`DriverInfo` that the caller drops; queries; formatting, logging, events; the
three futures `OnStart` waits for (they are in `PackageManager`); the locks taken
inside a step; the user whose driver is connected, which is always the foreground
account; and how long anything takes. Here the answer of
the bundle manager and the rows it leaves are one step; what happens inside that
step is `PackageManager`'s subject. `RowsAreCurrent` is checked and proved while
no package changes: an event that passed the check of its account
(`drv_bundle_state_callback.cpp:219`) just before a switch writes the old
account's rows after it. The account a stop is for is not modelled either: which
of the driver's connections `StopDriverExtension` ends is left open, none
included.

### MCExtDeviceManager

Chooses the constants. Bounds, and why they are enough:

- `Devices`: one where devices do not meet, two where they share the table and
  the unload timer. `Drivers`, `Bundles`: one or two, so that a device can change
  its driver and a package can be updated while another stays.
- `Clients`: two where they compete, one where failures matter; a third client
  is in the same position as the second.
- `MaxConns`: two, a replaced connection and the new one, or one for each of two
  devices. When all slots are in use a new connection waits. One slot is enough
  where no client binds and drivers are launched on bind.
- `MaxThreads`: packages and accounts change only when threads are left for what
  is under way (`Room`), so the bound never blocks the service itself.
- `UpdatableBundles`, `Switchable`, `Replug` (the devices that come and go; the
  others only come), `RepeatedAdds`, `Unloads` and `ColdBoot` switch parts of the
  environment on or off. The process stops and starts in `edm_installs` only; the
  theorems about devices and sessions cover it with clients and failures.

### PackageManager and DriverTable

`DriverTable` has two variables: the rows others see, and how far the load is.
A step replaces the rows of one package or of all by whole answers of the bundle
manager; the load is written once until a switch or a restart forgets it.
`PackageManager` has the threads that do it, one record each in `procs`:

| TLA+ | Code |
|---|---|
| `boot`, `reported` | how far `DriverExtMgr::OnStart` came, which of the three promises are set |
| `procs[p]` | a loading thread, the common event subscriber (`"ces"`), the matching device manager (`"match"`), a client's query; `pc` is where it is in `GetAllDriverInfos`, `OnBundleAdded`, `AddOrUpdatePkgInfo` |
| `initOnceMutex`, `bundleMgrMutex`, `databaseMutex` | the holder of each mutex |
| `procs[p].sizes`, `GetBundleSize`, `GetBundleStats` | the packages of an answer whose size is still to be asked (line 133), each under `bundleMgrMutex_` again, between the answer and the transaction; without a size the rows are stored all the same |
| `table`, `saved` | the rows inside the open transaction, and as committed |
| `notices`, `seen` | detached `OnBundlesUpdated` threads, the rows devices were last matched with |
| `excuses` | history: `"late"` and `"unmatched"`, see below |

`TableSpec` is `DriverTable!Spec` with `rows <- saved` and the load `"done"` when
`initOnce` is set, `"written"` between the commit and the flag. A single step of
the code (the commit) is the abstract `Replace` or `Load`; all others stutter.

`TableIsCurrent` cannot hold without conditions, because the code cannot notice
everything. Its excuse `"late"` is recorded when a change meets a load or a
switch under way, when the account or package events are not subscribed to yet,
when the bundle manager does not answer, and when the handling of an event
fails: a failed query or transaction, which is reported as a system event, or a
failed `GetForegroundOsAccountLocalId`, which makes `IsCurrentUserId` false and
drops the event, reported to nobody (lines 485-497). An excuse stands until the
next switch or restart, which loads the table again. The property covers the rest: interleavings of loads that are late or
fail, events that wait, switches and restarts. The account that `GetBundleSize`
asks again chooses only the size that is stored, which no row of the model has.

Bounds (`pkg_table`): one package of two drivers, so that half a package can be
told from a whole one; two accounts with one switch; one loading thread besides
the event, matching and client threads; one change, one event on its way, one
fault (a failed call, a death of the bundle manager or of the process, at any
point).

### ClientTypes, ClientBinding and BindingContract

`ClientTypes` translates `driver_ext_mgr_types.cpp` (a parcel is a sequence of
typed items; reading the wrong type gives `Junk`), the service's query functions,
the error codes of each API and the conversions of the two bindings. Device ids
are scaled down to one base-4 digit of bus type and an address, `MAX_JS_NUMBER`
to 8, `MAX_INTERFACE_DESC_SIZE` to 2.

`ClientBinding` is one application process: `map` is `g_callbackMap`, `data` the
`AsyncData` objects and what the application saw of them, `js` the call the JS
thread is in, `tasks` the events sent to it, `calls` the service's callbacks on
their way in order, `proxy` the client's `proxy_`. A call has the steps connect,
call, return; callbacks and the service run in between. `svc` is the service as
one client sees it: whether the driver is connected, how many connections are
waiting, whether this client's callback is registered. `unsent` (history) are the
bind calls about which an event could not be sent to the JS thread: the callback
then returns an error that the service does not look at
(`device_manager_middle.cpp:123`, `:176`), and what the event would have settled
stays open. `BindSettles` and `UnbindSettles` except such calls. It has the outcomes of
`Device` in `ExtDeviceManager`, and other clients and unplugging as
nondeterminism.

`BindingContract` says: a bind throws or returns a promise that is settled at
most once; `onDisconnect` comes at most once, never after a throw or a rejection,
and no promise is resolved after it; an unbind is settled only with the report of
the disconnection. `BindingSpec` shows that the napi and the taihe binding
implement it.

Bounds: two bind calls on one device (a second is what replaces an entry; a third
replaces it again), one unbind, one death of the service, either binding; three
worlds for queries, with ids below and above the number limit, matched and
unmatched devices, one with too many interfaces, and a device and a driver of
another bus. `CHECK_DEADLOCK FALSE`: an application may end, and stops when its
bounded calls are used up.

### DriverProcess and the parsers

One driver thread and the IPC thread of a driver's process. `g_ddk` is the
instance of the HDI service its proxy belongs to (0: null). A function that uses
`g_ddk` is two steps, the test on entry and the use; between them the service may
die and `OnRemoteDied` may clear `g_ddk`, unless the function holds `g_mutex`.
Every exported `OH_*` function of the five libraries is an action; those that
keep no state of their own share the operators `Steady`, `Simple` and `Fetching`.

| Part | State |
|---|---|
| connection | `service`, `g_ddk`, `recipient`, `watched`, `notices`, `promised` (a recipient was registered and `Init` or `Connect` said so) |
| HID | `hid.deviceMap` (`g_deviceMap` with `realId`), the service's devices, `hid.strayed`; the handle's mode in `dev` |
| USB | `usb.g_fdMap`, the mapped addresses, descriptors a failed `mmap` left open |
| SCSI | `mem`: the map's bytes, offset and used length, and what the driver stored (`want`) |
| shared memory | `ashmems` (`g_shareMemoryMap`) |

`UsbConfigDesc` and `SenseData` are the parsers on byte sequences, with reference
definitions that work on the list of descriptors the bytes were made from.
`DriverProcess` takes them as constant operators, since they are recursive and
theorems are proved about `DriverProcess`; `MCDriverProcess` supplies them.
`SenseAgrees` compares all five fields, and `ConfigAgrees` the whole result, on
well-formed input. Both take what the code's tests refuse from the code: the
eight-bit comparison of the length (`usb_config_desc_parser.cpp:502`), exactly
`USB_MAXINTERFACES` interfaces, malformed input. Memory bounds are not modelled:
a sequence has no end to run over. So neither the copy into
`altsetting[numAltsetting]` before the count is tested
(`usb_config_desc_parser.cpp:332`) nor the byte that the loop over sense
descriptors reads behind the last one (`scsi_ddk_api.cpp:277-280`, without effect
on the result) can show.

`HidEntriesNameDevices` has two exceptions. An entry whose re-creation failed
(`input_emit_event.cpp:142` does not look at the result) keeps the number of an
earlier instance and names nothing. Once the driver destroys such an id, or one
it never had, the service may be asked for another device's number, and that
device's entry is wrong from then on (`strayed`).

Bounds: eight kinds of driver, one per process; two deaths of the service where
a late notice of the first can meet the third instance, one for the others, none
for shared memory; two recipients per instance where `Init` or `Connect` can add
a second one; two HID devices and ids, three descriptors, two addresses; a SCSI
map of three bytes with buffers at the front, overlapping their own target, not
overlapping, ending outside, and empty; configurations of up to three descriptors
of eight kinds, whole or a byte short, and eight longer ones around the limits
(3 interfaces, 2 settings, 2 endpoints instead of 32, 128, 32) and around 256
bytes; sense data of up to two descriptors with right and wrong lengths. A driver
may stop calling, hence `CHECK_DEADLOCK FALSE`.

## 3. Runs

| Run | Configuration | Shows |
|---|---|---|
| `edm_binding` | 2 devices, one of them replugged, 1 launch-on-bind driver for both, 2 clients, 2 connections, repeated reports | `PendingIsAnswered`, `BoundHasRemote`, `LaunchedForCaller`, `SessionSpec` (refinement), `StopsWithLastCaller`, `BindIsAnswered` (129,012 states) |
| `edm_faults` | 1 device, 2 drivers of 2 packages, one updated, 1 client, 2 connections, all calls may fail | `TypeOK`, `RemoteIsBacked`, `InfoIsOwn`, `ListedIsPlugged`, `SessionSpec` (1.3 million states) |
| `edm_installs` | 2 devices, 2 drivers, one installed and removed (the only one for the first device), cold boots, unloads | `UnloadsWhenIdle`, `InstalledIsMatched` (54,219 states) |
| `edm_accounts` | 2 accounts switching, 1 device, a driver that is connected on match, no package changes | `RowsAreCurrent`, `RemoteIsBacked` (190,919 states) |
| `edm_replug` | 1 device, replugs | `PluggedIsListed` is violated |
| `edm_second_client` | 2 clients | `BinderIsNotified` is violated |
| `edm_update_race` | 1 device, 1 package, a driver that is connected on match | `InstalledIsMatched` is violated |
| `pkg_table` | see `PackageManager` | `TypeOK`, `LocksHeld`, `TableIsCurrent`, `TableSpec` (refinement), `ChangesAreMatched`, `ThreadsReturn` (282,084 states) |
| `client_binding` | see `ClientBinding` | `TypeOK`, `MapFollowsService`, `QueryShowsDevices`, `BindingSpec` (refinement), `BindSettles`, `UnbindSettles` (329,045 states) |
| `client_unbind_race` | the same without deaths | `ServiceExceptionIsReal` is violated |
| `driver_process` | see `DriverProcess` | `TypeOK`, `CrashIsAnUnlockedRace`, `ProxyIsWatched`, `HidEntriesNameDevices`, `FdsAccounted`, `TransfersUseTheBuffer`, `ConfigAgrees`, `SenseAgrees`, `DeathNoticed` (413,885 states) |
| `scsi_offsets` | SCSI with transfers | `WriteSendsStored` is violated |

Deadlock is checked in the passing runs of the service. Every property of a passing run has a
mutant: a definition replaced by a faulty variant (`...KeepsPending`,
`...Forgotten`, in the modules beside the original) that the run must catch.

The scope of the binding properties. `BoundHasRemote` holds while no package
changes and no connection fails: `MatchDriverInfos` drops `drvExtRemote_` without
telling the callers, and a failed connection marks its callers bound
(`device.cpp:185`). `LaunchedForCaller` holds while the device keeps its driver.
`PendingIsAnswered` holds while binds do not fail: a second bind that fails has
already replaced the first one's notifier. `InstalledIsMatched` passes where
drivers are launched on bind and nobody binds, so that no connection races the
matching; `edm_update_race` shows what the race does. `StopsWithLastCaller` is about the
clients of one device: a driver ability is shared by all devices matched with it,
and when a device's connection has ended, such as by its last unbind,
`Device::OnDisconnect` stops the ability by name (`device.cpp:219`), which may end
the connections of other devices whose clients are bound. So does the clearing
of an account (`etx_device_mgr.cpp:297`). `InfoIsOwn` is about an `info_` that
names a connection the ability manager still knows; after a refused or failed
connection `info_` goes on naming it, and a disconnection then names nothing.
`UnloadsWhenIdle` ends where the timer fires: a request to unload that has been
made is not taken back by a registration.

### What the violations mean

1. **A replugged device is not listed** (`edm_replug`). Unplugged while its
   driver runs, the device stays in `deviceMap_`, marked. Plugged in again
   before the driver has ended, `RegisterDevice` takes it for registered and
   returns; `OnDisconnect` erases it.
2. **The second client is never called back** (`edm_second_client`). The
   comparator of `callbacks_` makes all callbacks equivalent.
3. **An update during a connection loses the driver** (`edm_update_race`). The
   late answer to the old connection sets `drvExtRemote_` between the reset and
   the match, and the device is skipped.
4. **A successful unbind is a service exception** (`client_unbind_race`). The
   napi binding stores the promise of an unbind after the service call has
   returned. `OnUnBind` that arrives before is dropped, and `OnDisconnect` then
   rejects the promise with the initial error.
5. **A repeated SCSI write sends other bytes** (`scsi_offsets`). A transfer moves
   the used buffer to the front of the map; an error return does not move it
   back, and where the two ranges overlap the buffer's first bytes are lost.

Other behaviour the model shows and no text of the repository rules out: a
connection whose notifier was replaced is never closed by an unbind, only by a
stop of the driver as a whole; the last unbind of one device may end the driver
of another device; a package event is dropped when the account service fails; a
package event that meets an account switch leaves a row of the old account; a driver
of the old account stays on a device that `ClearMatchedDrivers` skips; a late
clearing thread unmatches devices of the account switched to; a dead client
stays in `boundCallerInfos_`; `IsBindCaller` accepts a caller whose bind is not
answered (`device_test.cpp:250` expects otherwise); a bind replaced by a second
one of the same device, or open when the service dies, is never settled; a proxy
made by `OH_Hid_Init` or `OH_Usb_Init` is not watched, and the unlocked DDK
functions can meet a null `g_ddk` after a death. They are in the hazard list with
notes.

## 4. Fairness

`ExtDeviceManager`: `FairSpec` asks for: the second half of a bus call (weak: the thread runs); each
detached thread (strong: `deviceMapMutex_` is free again and again, and the OS
does not starve a waiter for ever); the ability manager's answer to a connection
that is opened or closed (strong, because its erasure of a device needs the
mutex); and the completion of an account switch that has begun (weak). Nothing is
asked of the bus, the clients, the bundle manager or the timer, and a connection
need not end by itself. `BindIsAnswered` is conditional: a client that binds for
ever may postpone the answer, since each bind replaces the notifier.

`PackageManager`: every thread of the service goes on, strongly, because it may
have to wait for one of three mutexes that are free again and again, and a
detached `OnBundlesUpdated` thread runs in the end (strongly, since one matching
is done at a time under `deviceMapMutex_`). Nothing is asked of the bundle
manager, the account service, the system ability manager or the clients: a thread
that waits for a future (`"wait"`) may wait for ever.

`ClientBinding`: the JS thread, the IPC thread and the client's calls go on, and
the ability manager answers a connection, and a disconnection that was asked for
(weakly: nothing disables them but their own step). The application need not
call anything, and the service need not die or start again.

`DriverProcess`: a call under way goes on (weakly), and the IPC thread gets
`g_mutex` in the end although the driver's thread may take it again and again
(strongly). The driver need not call, and the service need not restart.

## 5. Proofs

Seven modules hold theorems. Each is proved for every value of the constants,
from the named assumptions in the modules that declare them, which TLC evaluates
on every run: sets are what they are (a "no" value is no member), bounds are
natural numbers, and there are finitely many clients, whose calling token ids
are 32-bit numbers. Every inductive invariant below was checked with TLC on the
configurations of section 3 before it was proved.

| Module | Theorem | Statement |
|---|---|---|
| `ExtDeviceManagerProofs` | `Invariance` | `Spec => [](IInv /\ Listing)` |
| | `TypeCorrect` | `Spec => []TypeOK` |
| | `RemotesAreBacked` | `Spec => []RemoteIsBacked` |
| | `InfosAreOwn` | `Spec => []InfoIsOwn` |
| | `ListedArePlugged` | `Spec => []ListedIsPlugged` |
| | `UnloadsOnlyWhenIdle` | `Spec => []UnloadsWhenIdle` |
| `ExtDeviceManagerBindingProofs` | `StopsOnlyWithLastCaller` | `Spec => StopsWithLastCaller` |
| | `PendingAreAnswered` | `Spec => [](NothingRefused => PendingIsAnswered)` |
| | `WaitersAreAnswered` | without faults, `Spec /\ [][DriversStay]_vars => []PendingIsAnswered` |
| | `LaunchedForCallers` | `Spec /\ [][DriversStay]_vars => []LaunchedForCaller` |
| | `BoundHaveRemotes` | when `NoneFails`, `Spec /\ [][DriversStay]_vars => []BoundHasRemote` |
| | `RowsStayCurrent` | without faults, `Spec /\ [][PackagesRest]_vars => []RowsAreCurrent` |
| `ExtDeviceManagerSessionProofs` | `SessionsImplemented` | `Spec => SessionSpec` |
| `DriverSessionsProofs` | `PromiseIsBacked` | of `DriverSessions`: `Spec => []Backed` |
| `PackageManagerProofs` | `TypeCorrect` | `Spec => []TypeOK` |
| | `LocksCorrect` | `Spec => []LocksHeld` |
| | `TableRefined` | `Spec => TableSpec` |
| | `TableStaysCurrent` | `Spec => []TableIsCurrent` |
| `DriverProcessProofs` | `TypeCorrect` | `Spec => []TypeOK` |
| | `CrashesAreRaces` | `Spec => []CrashIsAnUnlockedRace` |
| | `ProxiesAreWatched` | `Spec => []ProxyIsWatched` |
| | `HidEntriesAreNamed` | `Spec => []HidEntriesNameDevices` |
| | `FdsAreAccounted` | `Spec => []FdsAccounted` |
| | `TransfersAreExact` | `Spec => []TransfersUseTheBuffer` |
| `ClientBindingProofs` | `TypeCorrect` | `Spec => []TypeOK` |
| | `MapFollows` | `Spec => []MapFollowsService` |
| | `BindingRefined` | `Spec => BindingSpec` |
| | `ListsArriveAsSent` | `TransferDevices` and `TransferDriverInfos` return the list they are given, of any length |

### Devices and connections

`RemoteIsBacked` is not inductive. A slot that is reused must have been free
(`GoodConns`: it is `FreeConn`, or it serves some device); `info_` must name a
connection of this very device and notifier, so that a disconnection asked for
by one device does not touch another's (`InfoIsOwn`); and a device without a
notifier has no `info_`, so that `OnDisconnect`, which leaves `info_` alone in
that case, leaves nothing dangling. `Own` is the conjunction of these for one
device, `AllGood` for all. The argument has three layers:

1. each operator of `Device` takes a coherent device to outcomes that are
   coherent, and leaves the connections of other devices alone (`Kept`: lemmas
   `ConnectDriverExtensionKeeps`, `ConnectOnMatchKeeps`, `ConnectForClientKeeps`,
   `DisconnectKeeps`, ...);
2. an outcome for one device keeps all of them coherent (`OneDevice`,
   `OneFreshDevice`);
3. one lemma per action. Actions that neither concern the bus thread nor list a
   device are `Calm`, and `CalmKeepsListing` does the rest for them;
   `ListedIsPlugged` needs `BusOK` besides: a device that is being registered is
   plugged, and a process that has stopped has no devices.

### Clients and rows

The binding properties rest on two more invariants of a device and the
connections that report to it (`Reporting`):

- `Served`, in every execution: connections report only to a notifier that
  exists, `driverInfo_` is the row of `bundleInfo_`, and a caller that waits has
  a connection under way, or one was refused (`info` is `Dangling`);
- `Launched`, while devices keep their drivers: a driver that is launched on
  bind has one connection and a caller; where nothing fails, bound callers have
  a remote and waiting ones have not been refused.

A step on one device keeps both when it keeps them for that device and leaves
the connections of the others alone (`Aside`, `OneCarried`); `Carried` says what
every step guarantees, with the action property of `StopsWithLastCaller`; a stop
of a driver changes no connection but to closing, which keeps both for every
device.

The theorems have the hypotheses the code needs, and no others:

- `DriversStay` is a condition on steps: no device that has a driver is given
  another or loses it. `MatchDriverInfos` and `ClearMatchedDrivers` drop
  `drvExtRemote_` without telling the callers and without closing the
  connection, so that the old driver's late answer leaves a driver running for
  nobody, and a second client that binds while there is no driver takes the
  notifier away from the first.
- `NoneFails` is `~Faults` with every driver launched on bind. A failed
  connection binds its callers with a null remote (`device.cpp:185`), and the
  retries of a driver connected on match drop the remote of bound callers.
- `NothingRefused` says that no device's `info` is `Dangling`. It replaces
  `DriversStay` and `~Faults` in `PendingAreAnswered`, which therefore covers
  package updates and failures up to the first one that leaves its mark.
- `RowsStayCurrent` needs `~Faults`: a transaction that fails leaves the rows of
  the former account, with `initOnce` set. It needs `PackagesRest` besides: what
  the foreground account has installed does not change and no event is written,
  because an event checks the account once and may be written after a switch.

### Sessions

The session of a device is a function of its `Device` object and of the
connections that report to it (`SessionOf`), so a step on one device that leaves
the connections of the others alone changes one session (`OneMoves`). `Move`
lists what one action of `DriverSessions` does to one session. The argument has
the layers of the other proofs about the service:

1. each operator of `Device` makes one `Move` or none (`BindMoves`,
   `DisconnectMoves`, `ConnectOnMatchMoves`, ...). `ConnectOnMatch` with its 30
   retries is one `Open` or `Drop`, as each retry drops what the last one left;
   a bind that fails is one `Refuse`, although it has registered a caller and
   replaced a notifier before;
2. each action of `ExtDeviceManager` applies one of them to one device, and
   none makes two moves at once (`...Refined`). A reset of a device and the match
   after it are two steps of a thread, and two actions of the abstract module;
3. `NextRefined` puts them together, under the inductive invariants of the two
   sections above.

No hypothesis is needed: failures, updates of packages, accounts and restarts are
all covered. `PromiseIsBacked` needs `DriverSessions` only. Its invariant speaks of one
session (`Sound`) and of two (`Apart`): calls that two sessions share would be
answered to one and taken from the other.

### The package manager

`Core` is `TypeOK`, `JobsOK` and `LocksHeld`. `JobsOK` says what a thread may be
doing: only the subscriber's thread handles events, and nothing runs without the
process. `LocksHeld` says that each mutex is held by exactly the thread that is
inside its section; so one thread at a time loads, and one writes.

`WriteOK` says what is in the open transaction: outside one, `table` is `saved`;
inside, `table` with the rows still to insert is the answer the thread was given,
or the saved rows with one package replaced by it. `TableRefined` follows: a
commit is `Replace` or `Load` of `DriverTable` (the two are told apart by who
commits), the setting of `initOnce` and its reset are the abstract ones, and
everything else, a rolled-back transaction and the end of the process in the
middle of one included, stutters.

`TableIsCurrent` needs `Fresh` besides, which follows an answer of the bundle
manager until it is in the table. `QueueOK`: the last event on its way about a
package tells whether it is installed. `HandlerFresh`: what the handler is about
to write is current, or another event about that package follows it. `LoadFresh`:
while no excuse is recorded and no switch is pending, a load writes exactly what
the foreground account has installed; once it is written, each package of the
saved rows is current, or an event about it is on its way or being handled.

### The driver process

`IInv` has one part per piece of state: `ConnTypes` and `ConnOK` (proxies and
recipients), `CallTypes` and `CallOK` (the call under way), `OutOK`, `DevOK`,
`HidOK`, `FdsOK`, `MemOK`. What makes it inductive:

- death notices are only ever of instances that have died, so clearing `g_ddk`
  late loses no promise that is still to be kept, and a call that is about to add
  a recipient has room for one;
- a call that holds `g_mutex` keeps the `g_ddk` it tested;
- no cached entry, handle or proxy is of an instance that is yet to come, so
  none becomes valid by a restart of the service;
- a descriptor is in one record only (`FdsApart`), so closing it through one
  leaves no other naming it;
- between the two steps of a transfer the front of the map holds what the used
  buffer held when the driver called (`before`, a history variable).

Most functions test, call the service and return; `BeginsKeeps` and `EndsKeeps`
deal with all of them at once. The theorems leave the parsers as the constant
operators they are in `DriverProcess`.

### The client binding

`IInv` is `JsOK`, `DataOK`, `MapOK`, `TasksOK`, `SvcOK` and `EntriesOK`. A bind
call is in the callback map until an event that ends it is sent to the JS thread,
and nothing is sent for it after that event (`MapOK`, `TasksOK`): so nothing is
settled twice or after `onDisconnect`. The JS thread runs events between its
calls only, so no event finds a bind under way (`DataOK`). An entry's callback is
registered with the service, on its way out, or still to be registered by the
bind under way (`EntriesOK`), until the service dies for the first time.

For the refinement, entering a bind is the contract's `Call`, leaving it is
`Return`, an `onConnect` event is `Settle`, storing an unbind's promise is
`AskUnbind`, and an `onDisconnect` event is `Tell`; the other steps of the JS
thread, and all of the service and the IPC thread, stutter.

`ListsArriveAsSent` is about the parcels: for devices and drivers whose fields are
of any kind, marshalling and unmarshalling are inverse, item by item
(`DeviceRead`, `DriverRead`), for lists of any length.

### Only model-checked

- Liveness under fairness, which TLAPS cannot prove: `BindIsAnswered`,
  `InstalledIsMatched`, `ChangesAreMatched`, `ThreadsReturn`, `BindSettles`,
  `UnbindSettles`, `DeathNoticed`.
- What recursive definitions compute: `ConfigAgrees` and `SenseAgrees` (the
  parsers against their references), and `QueryShowsDevices`: which devices
  `SelectSeq` keeps, and where the interfaces are in a parcel that `FlattenSeq`
  put together. Each needs induction over data. The parcels without nested lists
  are proved (`ListsArriveAsSent`).
- The runs that show a violation are counterexamples and need no proof.

## 6. Plan

Proofs: lemmas on the match table (every matched, registered device is in the
entry of its driver unless a package thread is between its two halves), once a
replugged device that was skipped (`edm_replug`) no longer breaks it.

Modelling: the app launch manager's configuration and its parameter events; the
USB bus extension's subscription and the death of the USB host service.

## 7. Not modelled

- The app launch manager: it reads nothing the modelled parts write, and starts
  applications; its only own race is a configuration reload.
- `StartDriverExtension` of the driver extension controller, which has no caller.
- Notifications, event configuration, system events: output only.
- The driver extension ability (js, ani): its state is the ability framework's.
- The permission service: callers' rights are inputs, `AccessAllowed` a constant.
- The order of `deviceMutex_` and `deviceMapMutex_` (`device.cpp:213`): the two
  call chains take them in opposite orders, which reading shows; the model takes
  each locked section as one step.
- Memory bounds: array limits and reads behind a buffer in the two parsers.
- The mode that a HID service keeps after a failed `SetNonBlocking`: it is outside
  the source, so the handle's mode is compared with nothing.
- Opening the database and its schema; the text of driver metadata, of
  descriptors and of messages. Formatting and parsing of strings appear nowhere:
  drivers, packages and accounts are model values.
