--------------------------- MODULE MCClientBinding ---------------------------
(* Instances of ClientBinding for TLC. *)
EXTENDS ClientBinding

CONSTANTS x1, x2, d1, uid1, uid2, text

\* Ids 5 and 9 are ids of USB devices, below and above MaxJsNumber = 8; 6 is not.
Iface(n) == [number |-> n, class |-> 3, subClass |-> 0, protocol |-> n]
Dev(bus, id, matched, ifaces) ==
  [busType |-> bus, deviceId |-> id, description |-> text, productId |-> id + 10,
   vendorId |-> id + 20, hasDriver |-> matched, driverUid |-> uid1, interfaceDescList |-> ifaces]
Drv(bus, uid, n) ==
  [busType |-> bus, driverUid |-> uid, driverName |-> text, bundleSize |-> n, version |-> n + 1,
   description |-> text, pids |-> <<n, n + 2>>, vids |-> <<n + 3>>]

SomeWorlds ==
  {[devices |-> <<Dev(Usb, 5, TRUE, <<Iface(1), Iface(2)>>), Dev(Usb, 9, FALSE, <<>>),
                  Dev(MaxBus, 6, TRUE, <<>>)>>,
    drivers |-> <<Drv(Usb, uid1, 1), Drv(Usb, uid2, 2), Drv(MaxBus, uid2, 3)>>],
   [devices |-> <<Dev(Usb, 9, TRUE, <<Iface(1), Iface(2), Iface(3)>>)>>, drivers |-> <<>>],
   [devices |-> <<>>, drivers |-> <<>>]}

AllQueries ==
  {[api |-> a, one |-> FALSE, arg |-> None] : a \in {"devices", "deviceInfo", "driverInfo"}}
  \union {[api |-> "devices", one |-> TRUE, arg |-> b] : b \in {Invalid, Usb, MaxBus}}
  \union {[api |-> "deviceInfo", one |-> TRUE, arg |-> id] : id \in {5, 9}}
  \union {[api |-> "driverInfo", one |-> TRUE, arg |-> uid1]}
=============================================================================
