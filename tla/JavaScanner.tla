---------------------------- MODULE JavaScanner ----------------------------
(***************************************************************************)
(* The Java side: threads that ask the singleton HciScannerManager for     *)
(* scanners, by number, by address and by name, and start and stop scans   *)
(* on them (AbstractScanner, HciScanner).                                  *)
(*                                                                         *)
(* The monitor of the manager is explicit; the methods of a scanner are    *)
(* synchronized on the scanner, call nothing that waits and are one step   *)
(* each.  The native methods of the manager are the lookups of module      *)
(* DeviceLookup; the code between them and Java does not exist yet.        *)
(***************************************************************************)
EXTENDS Integers

CONSTANTS
    Threads,
    nobody,         \* no thread
    Devices,        \* numbers an adapter may have
    Arguments,      \* numbers getScanner is called with
    MaxPlugs        \* how often an adapter comes or goes

ASSUME NobodyAssumption    == nobody \notin Threads
ASSUME DevicesAssumption   == Devices \subseteq Nat
ASSUME ArgumentsAssumption == Arguments \subseteq Int

\* What a native method answers when it finds no adapter: -ENODEV.
NotFound == -19

VARIABLES
    present,        \* adapters there are
    plugs,
    pc, device, devNo,      \* of each thread: where it is, argument, local
    monitor,        \* the thread in the manager's monitor
    openDevices,    \* the keys of the map
    scanner,        \* the scanner each thread was given, by its key
    getDevice,      \* the device of the scanner of each key
    scanActive,     \* of the scanner of each key
    scanThread      \* "none", or "new" for a thread that has not been started

manager == <<monitor, openDevices, getDevice>>
locals  == <<pc, device, devNo, scanner>>
scans   == <<scanActive, scanThread>>
vars    == <<present, plugs, manager, locals, scans>>

\* A thread asks until it has a scanner, and keeps that one.
NoScanner == -100
Keys == Arguments \cup Devices \cup {NotFound}

ASSUME KeysAssumption == NoScanner \notin Keys

Init ==
    /\ present \in SUBSET Devices
    /\ plugs = 0
    /\ pc = [t \in Threads |-> "idle"]
    /\ device = [t \in Threads |-> 0] /\ devNo = [t \in Threads |-> 0]
    /\ monitor = nobody
    /\ openDevices = {}
    /\ scanner = [t \in Threads |-> NoScanner]
    /\ getDevice = [d \in Keys |-> d]
    /\ scanActive = [d \in Keys |-> FALSE]
    /\ scanThread = [d \in Keys |-> "none"]

----------------------------------------------------------------------------
(* HciScannerManager *)

At(t, here)     == pc[t] = here
GoTo(t, there)  == pc' = [pc EXCEPT ![t] = there]

\* getScanner(int)
GetByNumber(t) ==
    /\ At(t, "idle") /\ scanner[t] = NoScanner
    /\ \E d \in Arguments : device' = [device EXCEPT ![t] = d]
    /\ GoTo(t, "enter")
    /\ UNCHANGED <<present, plugs, manager, devNo, scanner, scans>>

\* getScanner(DeviceAddress) and getScanner(String): the lookup is made
\* outside the monitor, and a negative answer becomes an exception.
GetByLookup(t) ==
    /\ At(t, "idle") /\ scanner[t] = NoScanner
    /\ \E d \in present \cup {NotFound} :
          IF d < 0 THEN UNCHANGED <<device, pc>>
          ELSE device' = [device EXCEPT ![t] = d] /\ GoTo(t, "enter")
    /\ UNCHANGED <<present, plugs, manager, devNo, scanner, scans>>

\* Slip: without synchronized.
EnterUnlocked(t) ==
    /\ At(t, "enter")
    /\ monitor' = t
    /\ GoTo(t, "number")
    /\ UNCHANGED <<present, plugs, openDevices, getDevice, device, devNo, scanner,
                   scans>>

Enter(t) ==
    /\ At(t, "enter") /\ monitor = nobody
    /\ monitor' = t
    /\ GoTo(t, "number")
    /\ UNCHANGED <<present, plugs, openDevices, getDevice, device, devNo, scanner,
                   scans>>

\* The default device is looked up inside the monitor; its answer is not tested.
DevNo(t) ==
    /\ At(t, "number")
    /\ \E d \in IF device[t] >= 0 THEN {device[t]}
                ELSE IF present = {} THEN {NotFound} ELSE present :
          devNo' = [devNo EXCEPT ![t] = d]
    /\ GoTo(t, "check")
    /\ UNCHANGED <<present, plugs, manager, device, scanner, scans>>

\* The exception leaves the monitor.
Contains(t) ==
    /\ At(t, "check")
    /\ IF devNo[t] \in openDevices
         THEN GoTo(t, "idle") /\ monitor' = nobody
         ELSE GoTo(t, "put") /\ UNCHANGED monitor
    /\ UNCHANGED <<present, plugs, openDevices, getDevice, device, devNo, scanner,
                   scans>>

\* The scanner is built with the argument, and registered under devNo.
Put(t) ==
    /\ At(t, "put")
    /\ openDevices' = openDevices \cup {devNo[t]}
    /\ getDevice' = [getDevice EXCEPT ![devNo[t]] = device[t]]
    /\ scanner' = [scanner EXCEPT ![t] = devNo[t]]
    /\ monitor' = nobody
    /\ GoTo(t, "idle")
    /\ UNCHANGED <<present, plugs, device, devNo, scans>>

----------------------------------------------------------------------------
(* AbstractScanner, HciScanner *)

\* startScanLocal creates the thread of the scan.
startScan(t) ==
    /\ At(t, "idle") /\ scanner[t] # NoScanner
    /\ ~scanActive[scanner[t]]              \* else ScannerException
    /\ scanActive' = [scanActive EXCEPT ![scanner[t]] = TRUE]
    /\ scanThread' = [scanThread EXCEPT ![scanner[t]] = "new"]
    /\ UNCHANGED <<present, plugs, manager, locals>>

\* stopScanLocal does nothing; close calls stopScan.
stopScan(t) ==
    /\ At(t, "idle") /\ scanner[t] # NoScanner
    /\ scanActive[scanner[t]]
    /\ scanActive' = [scanActive EXCEPT ![scanner[t]] = FALSE]
    /\ UNCHANGED <<present, plugs, manager, locals, scanThread>>

----------------------------------------------------------------------------
\* An adapter comes or goes (outside the repository).
Plug ==
    /\ plugs < MaxPlugs /\ plugs' = plugs + 1
    /\ \E d \in Devices :
          present' = IF d \in present THEN present \ {d} ELSE present \cup {d}
    /\ UNCHANGED <<manager, locals, scans>>

Step(t) == \/ GetByNumber(t) \/ GetByLookup(t)
           \/ Enter(t) \/ DevNo(t) \/ Contains(t) \/ Put(t)
           \/ startScan(t) \/ stopScan(t)

Next == Plug \/ \E t \in Threads : Step(t)

Spec == Init /\ [][Next]_vars

----------------------------------------------------------------------------
(***************************************************************************)
(* Properties                                                              *)
(***************************************************************************)

ManagerOK ==
    /\ present \in SUBSET Devices
    /\ monitor \in Threads \cup {nobody}
    /\ openDevices \in SUBSET Keys
    /\ getDevice \in [Keys -> Keys]

ThreadsOK ==
    /\ pc \in [Threads -> {"idle", "enter", "number", "check", "put"}]
    /\ device \in [Threads -> Keys \cup {0}] /\ devNo \in [Threads -> Keys \cup {0}]
    /\ scanner \in [Threads -> Keys \cup {NoScanner}]
    /\ \A t \in Threads : pc[t] # "idle" => device[t] \in Keys
    /\ \A t \in Threads : pc[t] \in {"check", "put"} => devNo[t] \in Keys

ScansOK == /\ scanActive \in [Keys -> BOOLEAN]
           /\ scanThread \in [Keys -> {"none", "new"}]

TypeOK == ManagerOK /\ ThreadsOK /\ ScansOK

\* "a given deviceNo representing a bluetooth device cannot be opened for
\* scanning multiple times": two threads never hold scanners of one number,
\* although containsKey and put are two steps.
OpenedOnce ==
    \A s, t \in Threads : scanner[s] = scanner[t] /\ scanner[s] # NoScanner => s = t

\* A scan that is active is one of a registered scanner and has its thread.
ScanHasThread ==
    \A d \in Keys : scanActive[d] => d \in openDevices /\ scanThread[d] = "new"

----------------------------------------------------------------------------
(***************************************************************************)
(* The inductive invariant behind them                                     *)
(***************************************************************************)

Inside == {"number", "check", "put"}

\* Whoever is between the test and the registration is alone, and what it
\* tested still holds.
Exclusive == \A t \in Threads :
    /\ pc[t] \in Inside <=> monitor = t
    /\ pc[t] = "put" => devNo[t] \notin openDevices
    /\ pc[t] # "idle" => scanner[t] = NoScanner
    /\ scanner[t] # NoScanner => scanner[t] \in openDevices

IInv == TypeOK /\ Exclusive /\ OpenedOnce /\ ScanHasThread
=============================================================================
