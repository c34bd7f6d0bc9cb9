------------------------- MODULE JavaScanner_proofs -------------------------
(***************************************************************************)
(* Proofs about JavaScanner: however many threads ask for scanners, by     *)
(* number or by lookup, no two get one of the same number.                 *)
(***************************************************************************)
EXTENDS JavaScanner, TLAPS

\* The monitor keeps the test and the registration of one thread together.
LEMMA InitIInv == Init => IInv
  <1> SUFFICES ASSUME Init PROVE IInv
    OBVIOUS
  <1> USE DEF Init
  <1>1. TypeOK
    BY DEF TypeOK, ManagerOK, ThreadsOK, ScansOK
  <1>2. Exclusive /\ OpenedOnce
    BY NobodyAssumption DEF Exclusive, OpenedOnce, Inside
  <1>3. ScanHasThread
    BY DEF ScanHasThread
  <1> QED
    BY <1>1, <1>2, <1>3 DEF IInv

LEMMA Keeps_GetByNumber == ASSUME IInv, NEW t \in Threads, GetByNumber(t) PROVE IInv'
  <1> USE NobodyAssumption, DevicesAssumption, KeysAssumption
      DEF IInv, TypeOK, GetByNumber, At, GoTo, manager, scans, locals
  <1>1. ManagerOK'
    BY DEF ManagerOK, ThreadsOK
  <1>2. ThreadsOK'
    BY DEF ThreadsOK, ManagerOK, Keys
  <1>3. ScansOK'
    BY DEF ScansOK
  <1>4. Exclusive'
    BY DEF Exclusive, Inside, ThreadsOK, ManagerOK
  <1>5. OpenedOnce'
    BY DEF OpenedOnce, Exclusive, ThreadsOK
  <1>6. ScanHasThread'
    BY DEF ScanHasThread, Exclusive, ThreadsOK, ManagerOK, ScansOK
  <1> QED
    BY <1>1, <1>2, <1>3, <1>4, <1>5, <1>6

LEMMA Keeps_GetByLookup == ASSUME IInv, NEW t \in Threads, GetByLookup(t) PROVE IInv'
  <1> USE NobodyAssumption, DevicesAssumption, KeysAssumption
      DEF IInv, TypeOK, GetByLookup, At, GoTo, manager, scans, locals
  <1>1. ManagerOK'
    BY DEF ManagerOK, ThreadsOK
  <1>2. ThreadsOK'
    BY DEF ThreadsOK, ManagerOK, Keys
  <1>3. ScansOK'
    BY DEF ScansOK
  <1>4. Exclusive'
    BY DEF Exclusive, Inside, ThreadsOK, ManagerOK
  <1>5. OpenedOnce'
    BY DEF OpenedOnce, Exclusive, ThreadsOK
  <1>6. ScanHasThread'
    BY DEF ScanHasThread, Exclusive, ThreadsOK, ManagerOK, ScansOK
  <1> QED
    BY <1>1, <1>2, <1>3, <1>4, <1>5, <1>6

LEMMA Keeps_Enter == ASSUME IInv, NEW t \in Threads, Enter(t) PROVE IInv'
  <1> USE NobodyAssumption, DevicesAssumption, KeysAssumption
      DEF IInv, TypeOK, Enter, At, GoTo, manager, scans, locals
  <1>1. ManagerOK'
    BY DEF ManagerOK, ThreadsOK
  <1>2. ThreadsOK'
    BY DEF ThreadsOK, ManagerOK, Keys
  <1>3. ScansOK'
    BY DEF ScansOK
  <1>4. Exclusive'
    BY DEF Exclusive, Inside, ThreadsOK, ManagerOK
  <1>5. OpenedOnce'
    BY DEF OpenedOnce, Exclusive, ThreadsOK
  <1>6. ScanHasThread'
    BY DEF ScanHasThread, Exclusive, ThreadsOK, ManagerOK, ScansOK
  <1> QED
    BY <1>1, <1>2, <1>3, <1>4, <1>5, <1>6

LEMMA Keeps_DevNo == ASSUME IInv, NEW t \in Threads, DevNo(t) PROVE IInv'
  <1> USE NobodyAssumption, DevicesAssumption, KeysAssumption
      DEF IInv, TypeOK, DevNo, At, GoTo, manager, scans, locals
  <1>1. ManagerOK'
    BY DEF ManagerOK, ThreadsOK
  <1>2. ThreadsOK'
    BY DEF ThreadsOK, ManagerOK, Keys
  <1>3. ScansOK'
    BY DEF ScansOK
  <1>4. Exclusive'
    <2>1. ASSUME NEW s \in Threads, s # t
          PROVE  pc'[s] = pc[s] /\ devNo'[s] = devNo[s]
      BY <2>1 DEF ThreadsOK
    <2> QED
      BY <2>1 DEF Exclusive, Inside, ThreadsOK, ManagerOK
  <1>5. OpenedOnce'
    BY DEF OpenedOnce, Exclusive, ThreadsOK
  <1>6. ScanHasThread'
    BY DEF ScanHasThread, Exclusive, ThreadsOK, ManagerOK, ScansOK
  <1> QED
    BY <1>1, <1>2, <1>3, <1>4, <1>5, <1>6

LEMMA Keeps_Contains == ASSUME IInv, NEW t \in Threads, Contains(t) PROVE IInv'
  <1> USE NobodyAssumption, DevicesAssumption, KeysAssumption
      DEF IInv, TypeOK, Contains, At, GoTo, manager, scans, locals
  <1>1. ManagerOK'
    BY DEF ManagerOK, ThreadsOK
  <1>2. ThreadsOK'
    BY DEF ThreadsOK, ManagerOK, Keys
  <1>3. ScansOK'
    BY DEF ScansOK
  <1>4. Exclusive'
    BY DEF Exclusive, Inside, ThreadsOK, ManagerOK
  <1>5. OpenedOnce'
    BY DEF OpenedOnce, Exclusive, ThreadsOK
  <1>6. ScanHasThread'
    BY DEF ScanHasThread, Exclusive, ThreadsOK, ManagerOK, ScansOK
  <1> QED
    BY <1>1, <1>2, <1>3, <1>4, <1>5, <1>6

LEMMA Keeps_Put == ASSUME IInv, NEW t \in Threads, Put(t) PROVE IInv'
  <1> USE NobodyAssumption, DevicesAssumption, KeysAssumption
      DEF IInv, TypeOK, Put, At, GoTo, manager, scans, locals
  <1>1. ManagerOK'
    BY DEF ManagerOK, ThreadsOK
  <1>2. ThreadsOK'
    BY DEF ThreadsOK, ManagerOK, Keys
  <1>3. ScansOK'
    BY DEF ScansOK
  <1>4. Exclusive'
    BY DEF Exclusive, Inside, ThreadsOK, ManagerOK
  <1>5. OpenedOnce'
    BY DEF OpenedOnce, Exclusive, ThreadsOK
  <1>6. ScanHasThread'
    BY DEF ScanHasThread, Exclusive, ThreadsOK, ManagerOK, ScansOK
  <1> QED
    BY <1>1, <1>2, <1>3, <1>4, <1>5, <1>6

LEMMA Keeps_startScan == ASSUME IInv, NEW t \in Threads, startScan(t) PROVE IInv'
  <1> USE NobodyAssumption, DevicesAssumption, KeysAssumption
      DEF IInv, TypeOK, startScan, At, GoTo, manager, scans, locals
  <1>1. ManagerOK'
    BY DEF ManagerOK, ThreadsOK
  <1>2. ThreadsOK'
    BY DEF ThreadsOK, ManagerOK, Keys
  <1>3. ScansOK'
    BY DEF ScansOK
  <1>4. Exclusive'
    BY DEF Exclusive, Inside, ThreadsOK, ManagerOK
  <1>5. OpenedOnce'
    BY DEF OpenedOnce, Exclusive, ThreadsOK
  <1>6. ScanHasThread'
    BY DEF ScanHasThread, Exclusive, ThreadsOK, ManagerOK, ScansOK
  <1> QED
    BY <1>1, <1>2, <1>3, <1>4, <1>5, <1>6

LEMMA Keeps_stopScan == ASSUME IInv, NEW t \in Threads, stopScan(t) PROVE IInv'
  <1> USE NobodyAssumption, DevicesAssumption, KeysAssumption
      DEF IInv, TypeOK, stopScan, At, GoTo, manager, scans, locals
  <1>1. ManagerOK'
    BY DEF ManagerOK, ThreadsOK
  <1>2. ThreadsOK'
    BY DEF ThreadsOK, ManagerOK, Keys
  <1>3. ScansOK'
    BY DEF ScansOK
  <1>4. Exclusive'
    BY DEF Exclusive, Inside, ThreadsOK, ManagerOK
  <1>5. OpenedOnce'
    BY DEF OpenedOnce, Exclusive, ThreadsOK
  <1>6. ScanHasThread'
    BY DEF ScanHasThread, Exclusive, ThreadsOK, ManagerOK, ScansOK
  <1> QED
    BY <1>1, <1>2, <1>3, <1>4, <1>5, <1>6

LEMMA KeepsIInv == IInv /\ [Next]_vars => IInv'
  <1> SUFFICES ASSUME IInv, [Next]_vars PROVE IInv'
    OBVIOUS
  <1>1. ASSUME NEW t \in Threads, Step(t) PROVE IInv'
    BY <1>1, Keeps_GetByNumber, Keeps_GetByLookup, Keeps_Enter, Keeps_DevNo,
       Keeps_Contains, Keeps_Put, Keeps_startScan, Keeps_stopScan DEF Step
  <1>2. CASE Plug
    BY <1>2 DEF Plug, manager, locals, scans, IInv, TypeOK, ManagerOK, ThreadsOK,
       ScansOK, Exclusive, OpenedOnce, ScanHasThread
  <1>3. CASE UNCHANGED vars
    BY <1>3 DEF vars, manager, locals, scans, IInv, TypeOK, ManagerOK, ThreadsOK,
       ScansOK, Exclusive, OpenedOnce, ScanHasThread
  <1> QED
    BY <1>1, <1>2, <1>3 DEF Next

\* The inductive invariant holds of every state: a thread that is about to
\* register a number is alone in the monitor and has found it free.
THEOREM Invariant == Spec => []IInv
  BY InitIInv, KeepsIInv, PTL DEF Spec

\* HciScannerManager hands out at most one scanner for a number, to however
\* many threads, and although the lookups are made outside its monitor.
THEOREM AtMostOneScanner == Spec => []OpenedOnce
  <1>1. IInv => OpenedOnce
    BY DEF IInv
  <1> QED
    BY Invariant, <1>1, PTL

\* Whatever the threads do, an active scan belongs to a registered scanner.
THEOREM ActiveScanIsRegistered == Spec => []ScanHasThread
  <1>1. IInv => ScanHasThread
    BY DEF IInv
  <1> QED
    BY <1>1, Invariant, PTL

=============================================================================
