-------------------------- MODULE ScanMijia_proofs --------------------------
(***************************************************************************)
(* Proofs about a run of scanMijia as modelled by ScanMijia: for every     *)
(* command line, every set of events and every bound.                      *)
(***************************************************************************)
EXTENDS ScanMijia, Summing_proofs, FiniteSetTheorems, TLAPS

LEMMA ArgvType ==
    ASSUME argv \in Argvs
    PROVE  /\ argv \in Seq(Words)
           /\ nDevs \in Nat
           /\ Devs = DOMAIN argv
           /\ \A d \in Devs : d \in Nat /\ d >= 1 /\ d <= nDevs
<1>1. argv \in Seq(Words)
  BY ArgvsAssumption
<1> QED
  BY <1>1 DEF nDevs, Devs

LEMMA ByteRange == \A v \in Byte : v \in Nat /\ v <= 255
  BY DEF Byte

LEMMA LimitRange == \A v \in Limit : v \in Nat /\ v <= 1000
  BY DEF Limit

\* A value read from two bytes of a report fits in sixteen bits.
LEMMA ValueRange ==
    ASSUME NEW r \in Reports, NEW b \in Data(r)
    PROVE  /\ getVal16(b, 1) \in Nat /\ getVal16(b, 1) <= 65535
           /\ getVal16(b, 3) \in Nat /\ getVal16(b, 3) <= 65535
           /\ b[1] \in Byte
<1> DEFINE S == Bytes \cup {r.bytes[j] : j \in 1 .. 4}
<1>1. r.bytes \in [1 .. 4 -> Byte]
  BY ReportsAssumption DEF LEMetaEvents
<1>2. S \subseteq Byte
  BY <1>1, BytesAssumption
<1>3. b \in [1 .. 4 -> S]
  BY DEF Data
<1> HIDE DEF S
<1>4. b[1] \in Byte /\ b[2] \in Byte /\ b[3] \in Byte /\ b[4] \in Byte
  BY <1>2, <1>3
<1>5. getVal16(b, 1) = b[2] * 256 + b[1] /\ getVal16(b, 3) = b[4] * 256 + b[3]
  BY DEF getVal16
<1> QED
  BY <1>4, <1>5, ByteRange

----------------------------------------------------------------------------
(***************************************************************************)
(* Type correctness                                                        *)
(***************************************************************************)

LEMMA Bounds == /\ MaxReports \in Nat /\ MaxQueue \in Nat /\ MaxClock \in Nat
                /\ MaxSteps \in Nat /\ MaxErrors \in Nat /\ MaxSignals \in Nat
  BY BoundsAssumption

LEMMA InitTypeOK == Init => TypeOK
<1> SUFFICES ASSUME Init PROVE TypeOK
  OBVIOUS
<1>1. nDevs \in Nat
  BY ArgvType DEF Init
<1>2. SumsOK
  BY DEF Init, SumsOK, Unset, Byte
<1>3. MainOK
  <2>1. i \in 1 .. nDevs + 1
    BY <1>1 DEF Init
  <2>2. maxTime \in {-1} \cup Limit /\ numSamples \in Limit
    BY DEF Init, Limit
  <2>3. code \in {-1, 0, 1, 130} /\ failed \in BOOLEAN
    BY DEF Init
  <2>4. argv \in Argvs /\ pc = "options" /\ startTime = 0 /\ deadline = 0
    BY DEF Init
  <2> QED
    BY <2>1, <2>2, <2>3, <2>4 DEF MainOK
<1>4. BufferOK
  BY DEF Init, BufferOK
<1>5. WorldOK
  BY Bounds DEF Init, WorldOK
<1> QED
  BY <1>2, <1>3, <1>4, <1>5 DEF TypeOK

\* The command line is never written to, nor is the list of devices.
LEMMA DevsKept ==
    ASSUME [Next]_vars
    PROVE  argv' = argv /\ nDevs' = nDevs /\ Devs' = Devs
<1>1. argv' = argv
  BY DEF Next, Process, ParseOptions, OpenDevice, ClearWhiteList, AddWhiteList,
         SetScanParameters, EnableScan, StartScan, Top, SelectReady,
         SelectTimeout, Read, Update, Check, Done, DisableScan, outputValues,
         ReadError, Interrupt, Tick, StepBack, Receive, Waiting, Terminated,
         setupUnchanged, loopUnchanged, opts, proc, vars
<1> QED
  BY <1>1 DEF nDevs, Devs

\* A report adds values of sixteen bits, whatever lies past its end.
LEMMA UpdateSums ==
    ASSUME SumsOK, Devs' = Devs, WorldOK,
           NEW r \in Reports, NEW d \in Devs, update_data(d, r)
    PROVE  SumsOK'
<1>0. wall \in Int
  BY Bounds DEF WorldOK, wall
<1>1. CASE UNCHANGED <<sums, times>>
  BY <1>1 DEF SumsOK, sums, times
<1>2. ASSUME NEW v \in Nat, AddTemperature(d, v)
      PROVE  /\ temperature' \in [Devs -> Nat] /\ ntSamples' \in [Devs -> Nat]
             /\ timeTemperature' \in [Devs -> Int]
  BY <1>0, <1>2 DEF AddTemperature, Add, SumsOK
<1>3. ASSUME NEW v \in Nat, AddHumidity(d, v)
      PROVE  /\ humidity' \in [Devs -> Nat] /\ nhSamples' \in [Devs -> Nat]
             /\ timeHumidity' \in [Devs -> Int]
  BY <1>0, <1>3 DEF AddHumidity, Add, SumsOK
<1>4. ASSUME NEW v \in Byte, SetBattery(d, v)
      PROVE  /\ battery' \in [Devs -> Byte] /\ timeBattery' \in [Devs -> Int]
  BY <1>0, <1>4 DEF SetBattery, SumsOK
<1>5. ASSUME NEW b \in Data(r),
             AddTemperature(d, getVal16(b, 1)), AddHumidity(d, getVal16(b, 3)),
             UNCHANGED batteryVars
      PROVE  SumsOK'
  BY <1>2, <1>3, <1>5, ValueRange DEF SumsOK, batteryVars
<1>6. ASSUME NEW b \in Data(r), SetBattery(d, b[1]),
             UNCHANGED <<temperatureVars, humidityVars>>
      PROVE  SumsOK'
  <2>1. b[1] \in Byte
    BY ValueRange
  <2>2. battery' \in [Devs -> Byte] /\ timeBattery' \in [Devs -> Int]
    BY <1>4, <1>6, <2>1
  <2> QED
    BY <1>6, <2>2 DEF SumsOK, temperatureVars, humidityVars
<1>7. ASSUME NEW b \in Data(r), AddTemperature(d, getVal16(b, 1)),
             UNCHANGED <<humidityVars, batteryVars>>
      PROVE  SumsOK'
  BY <1>2, <1>7, ValueRange DEF SumsOK, humidityVars, batteryVars
<1>8. ASSUME NEW b \in Data(r), AddHumidity(d, getVal16(b, 1)),
             UNCHANGED <<temperatureVars, batteryVars>>
      PROVE  SumsOK'
  BY <1>3, <1>8, ValueRange DEF SumsOK, temperatureVars, batteryVars
<1> QED
  BY <1>1, <1>5, <1>6, <1>7, <1>8 DEF update_data

LEMMA NextTypeOK == TypeOK /\ [Next]_vars => TypeOK'
<1> SUFFICES ASSUME TypeOK, [Next]_vars PROVE TypeOK'
  OBVIOUS
<1>0. argv' = argv /\ nDevs' = nDevs /\ Devs' = Devs /\ nDevs \in Nat
  BY DevsKept, ArgvType DEF TypeOK, MainOK
<1> USE <1>0, Bounds DEF TypeOK, Exit, GoTo
<1>1. CASE ParseOptions
  <2>1. MainOK'
    <3>1. numSamples' = numSamples \/ numSamples' \in Limit
      BY <1>1 DEF ParseOptions, Valid
    <3>2. maxTime' \in {-1} \cup Limit
      <4>1. maxTime' = maxTime \/ \E o \in Options : Valid(o) /\ maxTime' = Given(o.t, -1)
        BY <1>1 DEF ParseOptions
      <4>2. \A o : Valid(o) => Given(o.t, -1) \in {-1} \cup Limit
        BY DEF Valid, Given
      <4> QED
        BY <4>1, <4>2 DEF MainOK
    <3>3. pc' \in {"exit", "open"} /\ code' \in {-1, 0, 1, 130}
      BY <1>1 DEF ParseOptions, MainOK
    <3>4. UNCHANGED <<i, startTime, deadline, failed>>
      BY <1>1 DEF ParseOptions
    <3> QED
      BY <3>1, <3>2, <3>3, <3>4 DEF MainOK
  <2>2. SumsOK'
    BY <1>1 DEF ParseOptions, SumsOK, sums, times
  <2>3. BufferOK'
    BY <1>1 DEF ParseOptions, BufferOK
  <2>4. WorldOK'
    BY <1>1 DEF ParseOptions, WorldOK, ctrl, world
  <2> QED
    BY <2>1, <2>2, <2>3, <2>4
<1>2. CASE OpenDevice
  <2>1. MainOK'
    BY <1>2 DEF OpenDevice, MainOK, setupUnchanged, opts
  <2>2. SumsOK'
    BY <1>2 DEF OpenDevice, SumsOK, setupUnchanged, sums, times
  <2>3. BufferOK'
    BY <1>2 DEF OpenDevice, BufferOK, setupUnchanged
  <2>4. WorldOK'
    BY <1>2 DEF OpenDevice, WorldOK, setupUnchanged, ctrl, world
  <2> QED
    BY <2>1, <2>2, <2>3, <2>4
<1>3. CASE ClearWhiteList
  <2>1. MainOK'
    BY <1>3 DEF ClearWhiteList, MainOK, setupUnchanged, Command, opts
  <2>2. SumsOK'
    BY <1>3 DEF ClearWhiteList, SumsOK, setupUnchanged, Command, sums, times
  <2>3. BufferOK'
    BY <1>3 DEF ClearWhiteList, BufferOK, setupUnchanged, Command
  <2>4. WorldOK'
    BY <1>3 DEF ClearWhiteList, WorldOK, setupUnchanged, Command, ctrl, world
  <2> QED
    BY <2>1, <2>2, <2>3, <2>4
<1>4. CASE AddWhiteList
  <2>1. MainOK'
    BY <1>4 DEF AddWhiteList, MainOK, setupUnchanged, Command, opts
  <2>2. SumsOK'
    BY <1>4 DEF AddWhiteList, SumsOK, setupUnchanged, Command, sums, times
  <2>3. BufferOK'
    BY <1>4 DEF AddWhiteList, BufferOK, setupUnchanged, Command
  <2>4. WorldOK'
    BY <1>4 DEF AddWhiteList, WorldOK, setupUnchanged, Command, ctrl, world
  <2> QED
    BY <2>1, <2>2, <2>3, <2>4
<1>5. CASE SetScanParameters
  <2>1. MainOK'
    BY <1>5 DEF SetScanParameters, MainOK, setupUnchanged, Command, opts
  <2>2. SumsOK'
    BY <1>5 DEF SetScanParameters, SumsOK, setupUnchanged, Command, sums, times
  <2>3. BufferOK'
    BY <1>5 DEF SetScanParameters, BufferOK, setupUnchanged, Command
  <2>4. WorldOK'
    BY <1>5 DEF SetScanParameters, WorldOK, setupUnchanged, Command, ctrl,
           world
  <2> QED
    BY <2>1, <2>2, <2>3, <2>4
<1>6. CASE EnableScan
  <2>1. MainOK'
    BY <1>6 DEF EnableScan, MainOK, setupUnchanged, Command, opts
  <2>2. SumsOK'
    BY <1>6 DEF EnableScan, SumsOK, setupUnchanged, Command, sums, times
  <2>3. BufferOK'
    BY <1>6 DEF EnableScan, BufferOK, setupUnchanged, Command
  <2>4. WorldOK'
    BY <1>6 DEF EnableScan, WorldOK, setupUnchanged, Command, ctrl, world
  <2> QED
    BY <2>1, <2>2, <2>3, <2>4
<1>7. CASE StartScan
  <2>1. MainOK'
    BY <1>7 DEF StartScan, MainOK, opts, wall, WorldOK
  <2>2. SumsOK'
    BY <1>7 DEF StartScan, SumsOK, sums, times
  <2>3. BufferOK'
    BY <1>7 DEF StartScan, BufferOK
  <2>4. WorldOK'
    BY <1>7 DEF StartScan, WorldOK, ctrl, world
  <2> QED
    BY <2>1, <2>2, <2>3, <2>4
<1>8. CASE Top
  <2>1. MainOK'
    <3>1. deadline' \in Int
      <4>1. wall \in Int /\ now \in Int
        BY DEF WorldOK, wall
      <4>2. maxTime \in Int /\ startTime \in Int /\ deadline \in Int
        BY LimitRange DEF MainOK
      <4> QED
        BY <1>8, <4>1, <4>2 DEF Top
    <3>2. pc' \in {"done", "select"} /\ code' = code
      BY <1>8 DEF Top
    <3>3. failed' = FALSE
      BY <1>8 DEF Top
    <3>4. UNCHANGED <<numSamples, maxTime, i, startTime>>
      BY <1>8 DEF Top, opts
    <3> QED
      BY <3>1, <3>2, <3>3, <3>4 DEF MainOK
  <2>2. SumsOK'
    BY <1>8 DEF Top, SumsOK, sums, times
  <2>3. BufferOK'
    BY <1>8 DEF Top, BufferOK
  <2>4. WorldOK'
    BY <1>8 DEF Top, WorldOK, ctrl, world
  <2> QED
    BY <2>1, <2>2, <2>3, <2>4
<1>9. CASE SelectReady
  <2>1. MainOK'
    BY <1>9 DEF SelectReady, MainOK, loopUnchanged, opts
  <2>2. SumsOK'
    BY <1>9 DEF SelectReady, SumsOK, loopUnchanged, sums, times
  <2>3. BufferOK'
    BY <1>9 DEF SelectReady, BufferOK, loopUnchanged
  <2>4. WorldOK'
    BY <1>9 DEF SelectReady, WorldOK, loopUnchanged, ctrl, world
  <2> QED
    BY <2>1, <2>2, <2>3, <2>4
<1>10. CASE SelectTimeout
  <2>1. MainOK'
    BY <1>10 DEF SelectTimeout, MainOK, loopUnchanged, opts
  <2>2. SumsOK'
    BY <1>10 DEF SelectTimeout, SumsOK, loopUnchanged, sums, times
  <2>3. BufferOK'
    BY <1>10 DEF SelectTimeout, BufferOK, loopUnchanged
  <2>4. WorldOK'
    BY <1>10 DEF SelectTimeout, WorldOK, loopUnchanged, ctrl, world
  <2> QED
    BY <2>1, <2>2, <2>3, <2>4
<1>11. CASE Read
  <2>1. MainOK'
    BY <1>11 DEF Read, MainOK, loopUnchanged, opts
  <2>2. SumsOK'
    BY <1>11 DEF Read, SumsOK, loopUnchanged, sums, times
  <2>3. BufferOK'
    BY <1>11 DEF Read, BufferOK, loopUnchanged
  <2>4. WorldOK'
    BY <1>11 DEF Read, WorldOK, loopUnchanged, ctrl, world
  <2> QED
    BY <2>1, <2>2, <2>3, <2>4
<1>12. CASE Update
  <2>1. MainOK'
    BY <1>12 DEF Update, MainOK, loopUnchanged, opts
  <2>2. SumsOK'
    <3>1. CASE UNCHANGED <<sums, times>>
      BY <3>1 DEF SumsOK, sums, times
    <3>2. CASE \E d \in Matches(buf[1].addr) : update_data(d, buf[1])
      <4>1. buf[1] \in Reports
        BY <1>12 DEF Update, BufferOK
      <4>2. \A d \in Matches(buf[1].addr) : d \in Devs
        BY DEF Matches
      <4> QED
        BY <3>2, <4>1, <4>2, UpdateSums
    <3> QED
      BY <1>12, <3>1, <3>2 DEF Update
  <2>3. BufferOK'
    BY <1>12 DEF Update, BufferOK, loopUnchanged
  <2>4. WorldOK'
    BY <1>12 DEF Update, WorldOK, loopUnchanged, ctrl, world
  <2> QED
    BY <2>1, <2>2, <2>3, <2>4
<1>13. CASE Check
  <2>1. MainOK'
    BY <1>13 DEF Check, MainOK, loopUnchanged, opts
  <2>2. SumsOK'
    BY <1>13 DEF Check, SumsOK, loopUnchanged, sums, times
  <2>3. BufferOK'
    BY <1>13 DEF Check, BufferOK, loopUnchanged
  <2>4. WorldOK'
    BY <1>13 DEF Check, WorldOK, loopUnchanged, ctrl, world
  <2> QED
    BY <2>1, <2>2, <2>3, <2>4
<1>14. CASE Done
  <2>1. MainOK'
    BY <1>14 DEF Done, MainOK, opts
  <2>2. SumsOK'
    BY <1>14 DEF Done, SumsOK, sums, times
  <2>3. BufferOK'
    BY <1>14 DEF Done, BufferOK
  <2>4. WorldOK'
    BY <1>14 DEF Done, WorldOK, ctrl, world
  <2> QED
    BY <2>1, <2>2, <2>3, <2>4
<1>15. CASE DisableScan
  <2>1. MainOK'
    BY <1>15 DEF DisableScan, MainOK, setupUnchanged, Command, opts
  <2>2. SumsOK'
    BY <1>15 DEF DisableScan, SumsOK, setupUnchanged, Command, sums, times
  <2>3. BufferOK'
    BY <1>15 DEF DisableScan, BufferOK, setupUnchanged, Command
  <2>4. WorldOK'
    BY <1>15 DEF DisableScan, WorldOK, setupUnchanged, Command, ctrl, world
  <2> QED
    BY <2>1, <2>2, <2>3, <2>4
<1>16. CASE outputValues
  <2>1. MainOK'
    BY <1>16 DEF outputValues, MainOK, setupUnchanged, opts
  <2>2. SumsOK'
    BY <1>16 DEF outputValues, SumsOK, setupUnchanged, sums, times
  <2>3. BufferOK'
    BY <1>16 DEF outputValues, BufferOK, setupUnchanged
  <2>4. WorldOK'
    BY <1>16 DEF outputValues, WorldOK, setupUnchanged, ctrl, world
  <2> QED
    BY <2>1, <2>2, <2>3, <2>4
<1>17. CASE ReadError
  <2>1. MainOK'
    BY <1>17 DEF ReadError, MainOK, loopUnchanged, opts
  <2>2. SumsOK'
    BY <1>17 DEF ReadError, SumsOK, loopUnchanged, sums, times
  <2>3. BufferOK'
    <3>1. buf' \in Seq(Reports) /\ Len(buf') <= 1 /\ buf' # <<>>
      <4>1. CASE buf = <<>>
        <5>1. PICK r \in Reports : buf' = <<r>>
          BY <1>17, <4>1 DEF ReadError
        <5> QED
          BY <5>1
      <4>2. CASE buf # <<>>
        BY <1>17, <4>2 DEF ReadError, BufferOK
      <4> QED
        BY <4>1, <4>2
    <3> QED
      BY <1>17, <3>1 DEF ReadError, BufferOK
  <2>4. WorldOK'
    BY <1>17 DEF ReadError, WorldOK, loopUnchanged, ctrl, world
  <2> QED
    BY <2>1, <2>2, <2>3, <2>4
<1>18. CASE Interrupt
  <2>1. MainOK'
    <3>1. /\ pc' \in {"exit", "done", pc} /\ code' \in {130, code}
      BY <1>18, Zenon DEF Interrupt
    <3>3. failed' \in BOOLEAN
      <4>1. failed' = failed \/ failed' = TRUE
        BY <1>18, Zenon DEF Interrupt
      <4>2. failed \in BOOLEAN
        BY DEF MainOK
      <4> QED
        BY <4>1, <4>2, Zenon
    <3>2. UNCHANGED <<opts, i, startTime, deadline>>
      BY <1>18 DEF Interrupt
    <3> QED
      BY <3>1, <3>2, <3>3 DEF MainOK, opts
  <2>2. SumsOK'
    BY <1>18 DEF Interrupt, SumsOK, sums, times
  <2>3. BufferOK'
    BY <1>18 DEF Interrupt, BufferOK
  <2>4. WorldOK'
    BY <1>18 DEF Interrupt, WorldOK, ctrl, world
  <2> QED
    BY <2>1, <2>2, <2>3, <2>4
<1>19. CASE Tick
  <2>1. MainOK'
    BY <1>19 DEF Tick, MainOK, proc, opts
  <2>2. SumsOK'
    BY <1>19 DEF Tick, SumsOK, proc, sums, times
  <2>3. BufferOK'
    BY <1>19 DEF Tick, BufferOK, proc
  <2>4. WorldOK'
    BY <1>19 DEF Tick, WorldOK, ctrl, world
  <2> QED
    BY <2>1, <2>2, <2>3, <2>4
<1>20. CASE StepBack
  <2>1. MainOK'
    BY <1>20 DEF StepBack, MainOK, proc, opts
  <2>2. SumsOK'
    BY <1>20 DEF StepBack, SumsOK, proc, sums, times
  <2>3. BufferOK'
    BY <1>20 DEF StepBack, BufferOK, proc
  <2>4. WorldOK'
    BY <1>20 DEF StepBack, WorldOK, ctrl, world
  <2> QED
    BY <2>1, <2>2, <2>3, <2>4
<1>21. CASE Receive
  <2>1. MainOK'
    BY <1>21 DEF Receive, MainOK, proc, opts
  <2>2. SumsOK'
    BY <1>21 DEF Receive, SumsOK, proc, sums, times
  <2>3. BufferOK'
    BY <1>21 DEF Receive, BufferOK, proc
  <2>4. WorldOK'
    BY <1>21 DEF Receive, WorldOK, ctrl, world
  <2> QED
    BY <2>1, <2>2, <2>3, <2>4
<1>22. CASE UNCHANGED vars
  BY <1>22 DEF vars, proc, opts, sums, times, ctrl, world, MainOK,
            SumsOK, BufferOK, WorldOK
<1> QED
  BY <1>1, <1>2, <1>3, <1>4, <1>5, <1>6, <1>7, <1>8, <1>9, <1>10, <1>11, <1>12,
           <1>13, <1>14, <1>15, <1>16, <1>17, <1>18, <1>19, <1>20, <1>21,
           <1>22, [Next]_vars DEF Next, Process, Waiting, Terminated
\* The variables of a run keep their types for every command line, every set of
\* reports and every bound, and read is only called with an event queued.
THEOREM TypeCorrect == Spec => []TypeOK
<1> QED
  BY InitTypeOK, NextTypeOK, PTL DEF Spec

----------------------------------------------------------------------------
(***************************************************************************)
(* What is printed was measured                                            *)
(***************************************************************************)

\* Only update_data writes to the sums, and only outputValues prints.
LEMMA SumsKept ==
    ASSUME [Next]_vars
    PROVE  Update \/ UNCHANGED <<sums, times>>
  BY DEF Next, Process, ParseOptions, OpenDevice, ClearWhiteList, AddWhiteList,
         SetScanParameters, EnableScan, StartScan, Top, SelectReady,
         SelectTimeout, Read, Check, Done, DisableScan, outputValues,
         ReadError, Interrupt, Tick, StepBack, Receive, Waiting, Terminated,
         setupUnchanged, loopUnchanged, proc, vars

LEMMA OutKept ==
    ASSUME [Next]_vars
    PROVE  outputValues \/ out' = out
  BY DEF Next, Process, ParseOptions, OpenDevice, ClearWhiteList, AddWhiteList,
         SetScanParameters, EnableScan, StartScan, Top, SelectReady,
         SelectTimeout, Read, Update, Check, Done, DisableScan,
         ReadError, Interrupt, Tick, StepBack, Receive, Waiting, Terminated,
         setupUnchanged, loopUnchanged, proc, vars

\* A counted value keeps the sum within its count.
LEMMA SumStep ==
    ASSUME NEW s \in Nat, NEW c \in Nat, NEW v \in Nat, v <= 65535,
           s <= 65535 * c
    PROVE  s + v <= 65535 * (c + 1) /\ c + 1 > 0
  OBVIOUS

LEMMA UpdateMeasured ==
    ASSUME TypeOK, Measured, Devs' = Devs,
           NEW r \in Reports, NEW d \in Devs, update_data(d, r)
    PROVE  Measured'
<1> USE DEF TypeOK, SumsOK
<1>0. wall \in Nat
  BY Bounds DEF WorldOK, wall
<1>1. CASE UNCHANGED <<sums, times>>
  BY <1>1 DEF Measured, sums, times
<1>2. ASSUME NEW v \in Nat, v <= 65535, AddTemperature(d, v)
      PROVE  \A e \in Devs : /\ temperature'[e] <= 65535 * ntSamples'[e]
                             /\ ntSamples'[e] > 0 => timeTemperature'[e] # Unset
  <2> SUFFICES ASSUME NEW e \in Devs
               PROVE  /\ temperature'[e] <= 65535 * ntSamples'[e]
                      /\ ntSamples'[e] > 0 => timeTemperature'[e] # Unset
    OBVIOUS
  <2>1. CASE e = d
    <3>1. /\ temperature'[e] = temperature[e] + v
          /\ ntSamples'[e] = ntSamples[e] + 1
          /\ timeTemperature'[e] = wall
      BY <1>2, <2>1 DEF AddTemperature, Add
    <3>2. temperature[e] \in Nat /\ ntSamples[e] \in Nat
          /\ temperature[e] <= 65535 * ntSamples[e]
      BY DEF Measured
    <3> QED
      BY <1>0, <1>2, <3>1, <3>2, SumStep DEF Unset
  <2>2. CASE e # d
    BY <1>2, <2>2 DEF AddTemperature, Add, Measured
  <2> QED
    BY <2>1, <2>2
<1>3. ASSUME NEW v \in Nat, v <= 65535, AddHumidity(d, v)
      PROVE  \A e \in Devs : /\ humidity'[e] <= 65535 * nhSamples'[e]
                             /\ nhSamples'[e] > 0 => timeHumidity'[e] # Unset
  <2> SUFFICES ASSUME NEW e \in Devs
               PROVE  /\ humidity'[e] <= 65535 * nhSamples'[e]
                      /\ nhSamples'[e] > 0 => timeHumidity'[e] # Unset
    OBVIOUS
  <2>1. CASE e = d
    <3>1. /\ humidity'[e] = humidity[e] + v
          /\ nhSamples'[e] = nhSamples[e] + 1
          /\ timeHumidity'[e] = wall
      BY <1>3, <2>1 DEF AddHumidity, Add
    <3>2. humidity[e] \in Nat /\ nhSamples[e] \in Nat
          /\ humidity[e] <= 65535 * nhSamples[e]
      BY DEF Measured
    <3> QED
      BY <1>0, <1>3, <3>1, <3>2, SumStep DEF Unset
  <2>2. CASE e # d
    BY <1>3, <2>2 DEF AddHumidity, Add, Measured
  <2> QED
    BY <2>1, <2>2
<1>4. ASSUME NEW v \in Byte, SetBattery(d, v)
      PROVE  \A e \in Devs : battery'[e] # 0 => timeBattery'[e] # Unset
  BY <1>0, <1>4 DEF SetBattery, Measured, Unset
<1>5. ASSUME NEW b \in Data(r),
             AddTemperature(d, getVal16(b, 1)), AddHumidity(d, getVal16(b, 3)),
             UNCHANGED batteryVars
      PROVE  Measured'
  BY <1>2, <1>3, <1>5, ValueRange DEF Measured, batteryVars
<1>6. ASSUME NEW b \in Data(r), SetBattery(d, b[1]),
             UNCHANGED <<temperatureVars, humidityVars>>
      PROVE  Measured'
  <2>1. b[1] \in Byte
    BY ValueRange
  <2>2. \A e \in Devs : battery'[e] # 0 => timeBattery'[e] # Unset
    BY <1>4, <1>6, <2>1
  <2> QED
    BY <1>6, <2>2 DEF Measured, temperatureVars, humidityVars
<1>7. ASSUME NEW b \in Data(r), AddTemperature(d, getVal16(b, 1)),
             UNCHANGED <<humidityVars, batteryVars>>
      PROVE  Measured'
  BY <1>2, <1>7, ValueRange DEF Measured, humidityVars, batteryVars
<1>8. ASSUME NEW b \in Data(r), AddHumidity(d, getVal16(b, 1)),
             UNCHANGED <<temperatureVars, batteryVars>>
      PROVE  Measured'
  BY <1>3, <1>8, ValueRange DEF Measured, temperatureVars, batteryVars
<1> QED
  BY <1>1, <1>5, <1>6, <1>7, <1>8 DEF update_data

LEMMA MeasuredStep == TypeOK /\ Measured /\ [Next]_vars => Measured'
<1> SUFFICES ASSUME TypeOK, Measured, [Next]_vars PROVE Measured'
  OBVIOUS
<1>0. Devs' = Devs
  BY DevsKept
<1>1. CASE UNCHANGED <<sums, times>>
  BY <1>0, <1>1 DEF Measured, sums, times
<1>2. CASE Update
  <2>1. CASE \E d \in Matches(buf[1].addr) : update_data(d, buf[1])
    <3>1. buf[1] \in Reports
      BY <1>2 DEF Update, TypeOK, BufferOK
    <3>2. \A d \in Matches(buf[1].addr) : d \in Devs
      BY DEF Matches
    <3> QED
      BY <1>0, <2>1, <3>1, <3>2, UpdateMeasured
  <2> QED
    BY <1>1, <1>2, <2>1 DEF Update
<1> QED
  BY <1>1, <1>2, SumsKept

LEMMA Within ==
    ASSUME NEW s \in Nat, NEW c \in Nat, s # 0, s <= 65535 * c
    PROVE  s \in 1 .. 65535 * c /\ c > 0
  OBVIOUS

LEMMA PrintedStep ==
    TypeOK /\ Measured /\ PrintedIsMeasured /\ [Next]_vars => PrintedIsMeasured'
<1> SUFFICES ASSUME TypeOK, Measured, PrintedIsMeasured, [Next]_vars
             PROVE  PrintedIsMeasured'
  OBVIOUS
<1>1. CASE out' = out
  BY <1>1 DEF PrintedIsMeasured
<1>2. CASE outputValues
  <2> SUFFICES ASSUME NEW l \in Lines
               PROVE  /\ l.at # Unset
                      /\ l.count > 0
                      /\ l.sum \in 1 .. 65535 * l.count
    BY <1>2 DEF outputValues, PrintedIsMeasured
  <2>1. PICK tag \in {"T", "H", "B"}, d \in Devs :
            l = Line(tag, d) /\ l.sum # 0
    BY DEF Lines
  <2>2. /\ temperature[d] \in Nat /\ ntSamples[d] \in Nat
        /\ humidity[d] \in Nat /\ nhSamples[d] \in Nat
        /\ battery[d] \in Nat /\ battery[d] <= 255
    BY ByteRange DEF TypeOK, SumsOK
  <2>3. CASE tag = "T"
    <3>1. l.sum = temperature[d] /\ l.count = ntSamples[d]
          /\ l.at = timeTemperature[d]
      BY <2>1, <2>3 DEF Line
    <3> QED
      BY <2>1, <2>2, <3>1 DEF Measured
  <2>4. CASE tag = "H"
    <3>1. l.sum = humidity[d] /\ l.count = nhSamples[d]
          /\ l.at = timeHumidity[d]
      BY <2>1, <2>4 DEF Line
    <3> QED
      BY <2>1, <2>2, <3>1 DEF Measured
  <2>5. CASE tag = "B"
    <3>1. l.sum = battery[d] /\ l.count = 1 /\ l.at = timeBattery[d]
      BY <2>1, <2>5 DEF Line
    <3>2. /\ l.sum \in Nat /\ l.count \in Nat /\ l.sum # 0
          /\ l.sum <= 65535 * l.count
      BY <2>1, <2>2, <3>1
    <3>3. l.at # Unset
      BY <2>1, <3>1 DEF Measured
    <3> QED
      BY <3>2, <3>3, Within
  <2> QED
    BY <2>1, <2>3, <2>4, <2>5
<1> QED
  BY <1>1, <1>2, OutKept

----------------------------------------------------------------------------
(***************************************************************************)
(* The controller listens to the listed sensors                            *)
(***************************************************************************)

Listened == Prepared /\ ListensToListed

\* The addresses added before the i-th, once the i-th is added too.
LEMMA OneMore ==
    ASSUME NEW s, NEW j \in Nat \ {0}
    PROVE  {s[n] : n \in 1 .. j - 1} \cup {s[j]} = {s[n] : n \in 1 .. (j + 1) - 1}
<1>1. \A n : n \in 1 .. (j + 1) - 1 <=> n \in 1 .. j - 1 \/ n = j
  OBVIOUS
<1> QED
  BY <1>1

\* Nothing that happens to a running process changes what it listens to.
LEMMA ListenedKept ==
    ASSUME Listened, argv' = argv,
           UNCHANGED <<pc, i, whitelist, scanning, filter>>
    PROVE  Listened'
  BY DEF Listened, Prepared, ListensToListed

LEMMA ListenedStep == TypeOK /\ Listened /\ [Next]_vars => Listened'
<1> SUFFICES ASSUME TypeOK, Listened, [Next]_vars PROVE Listened'
  OBVIOUS
<1>0. argv' = argv /\ nDevs' = nDevs /\ nDevs \in Nat /\ argv \in Seq(Words)
  BY DevsKept, ArgvType DEF TypeOK, MainOK
<1> USE <1>0 DEF Listened, Prepared, ListensToListed, Exit, GoTo,
                 setupUnchanged, loopUnchanged, ctrl
<1>1. CASE ParseOptions
  BY <1>1 DEF ParseOptions
<1>2. CASE OpenDevice
  BY <1>2 DEF OpenDevice
<1>3. CASE ClearWhiteList
  BY <1>3 DEF ClearWhiteList, Command
<1>4. CASE AddWhiteList
  <2>1. CASE pc' = "exit"
    BY <2>1
  <2>2. CASE pc' # "exit"
    <3>1. /\ pc = "add" /\ pc' = "add" /\ i' = i + 1 /\ i \in Nat \ {0}
          /\ ~scanning /\ scanning' = scanning
          /\ whitelist' = whitelist \cup {argv[i]}
      BY <1>4, <2>2 DEF AddWhiteList, Command, TypeOK, MainOK
    <3> QED
      BY <3>1, OneMore
  <2> QED
    BY <2>1, <2>2
<1>5. CASE SetScanParameters
  <2>1. i = nDevs + 1
    BY <1>5 DEF SetScanParameters, TypeOK, MainOK
  <2>2. {argv[n] : n \in 1 .. i - 1} = ToSet(argv)
    BY <2>1 DEF ToSet, nDevs
  <2> QED
    BY <1>5, <2>2 DEF SetScanParameters, Command
<1>6. CASE EnableScan
  BY <1>6 DEF EnableScan, Command
<1>7. CASE StartScan
  BY <1>7 DEF StartScan
<1>8. CASE Top
  BY <1>8 DEF Top
<1>9. CASE SelectReady
  BY <1>9 DEF SelectReady
<1>10. CASE SelectTimeout
  BY <1>10 DEF SelectTimeout
<1>11. CASE Read
  BY <1>11 DEF Read
<1>12. CASE Update
  BY <1>12 DEF Update
<1>13. CASE Check
  BY <1>13 DEF Check
<1>14. CASE Done
  BY <1>14 DEF Done
<1>15. CASE DisableScan
  BY <1>15 DEF DisableScan, Command
<1>16. CASE outputValues
  BY <1>16 DEF outputValues
<1>17. CASE ReadError
  BY <1>17 DEF ReadError
<1>18. CASE Interrupt
  <2>1. pc' \in {"exit", "done", pc} /\ UNCHANGED <<i, whitelist, scanning, filter>>
    BY <1>18, Zenon DEF Interrupt
  <2>2. CASE pc' = pc
    BY <2>1, <2>2, ListenedKept
  <2> QED
    BY <2>1, <2>2
<1>19. CASE Tick \/ StepBack \/ Receive \/ UNCHANGED vars
  BY <1>19, ListenedKept DEF Tick, StepBack, Receive, proc, vars
<1> QED
  BY <1>1, <1>2, <1>3, <1>4, <1>5, <1>6, <1>7, <1>8, <1>9, <1>10, <1>11, <1>12,
     <1>13, <1>14, <1>15, <1>16, <1>17, <1>18, <1>19, [Next]_vars
     DEF Next, Process, Waiting, Terminated

----------------------------------------------------------------------------
(***************************************************************************)
(* What a run that ends leaves behind                                      *)
(***************************************************************************)

Ended == Settled /\ CleanExit

LEMMA EndedKept ==
    ASSUME Ended, UNCHANGED <<pc, i, code, out, failed, filter, scanning>>
    PROVE  Ended'
  BY DEF Ended, Settled, CleanExit, Completed

\* Up to the end of the run nothing is printed and there is no exit status.
LEMMA EndedStep == TypeOK /\ Listened /\ Ended /\ [Next]_vars => Ended'
<1> SUFFICES ASSUME TypeOK, Listened, Ended, [Next]_vars PROVE Ended'
  OBVIOUS
<1> USE DEF Ended, Settled, CleanExit, Completed, Exit, GoTo, setupUnchanged,
            loopUnchanged, ctrl
<1>1. CASE ParseOptions
  BY <1>1 DEF ParseOptions, Listened, Prepared
<1>2. CASE OpenDevice
  BY <1>2 DEF OpenDevice
<1>3. CASE ClearWhiteList
  BY <1>3 DEF ClearWhiteList, Command
<1>4. CASE AddWhiteList
  BY <1>4 DEF AddWhiteList, Command
<1>5. CASE SetScanParameters
  BY <1>5 DEF SetScanParameters, Command
<1>6. CASE EnableScan
  BY <1>6 DEF EnableScan, Command
<1>7. CASE StartScan
  BY <1>7 DEF StartScan
<1>8. CASE Top
  BY <1>8 DEF Top
<1>9. CASE SelectReady
  BY <1>9 DEF SelectReady
<1>10. CASE SelectTimeout
  BY <1>10 DEF SelectTimeout
<1>11. CASE Read
  BY <1>11 DEF Read
<1>12. CASE Update
  BY <1>12 DEF Update
<1>13. CASE Check
  BY <1>13 DEF Check
<1>14. CASE Done
  BY <1>14 DEF Done
<1>15. CASE DisableScan
  BY <1>15 DEF DisableScan, Command
<1>16. CASE outputValues
  BY <1>16 DEF outputValues, TypeOK, WorldOK, MainOK
<1>17. CASE ReadError
  BY <1>17 DEF ReadError
<1>18. CASE Interrupt
  BY <1>18 DEF Interrupt, Started
<1>19. CASE Tick \/ StepBack \/ Receive \/ UNCHANGED vars
  BY <1>19, EndedKept DEF Tick, StepBack, Receive, proc, vars
<1> QED
  BY <1>1, <1>2, <1>3, <1>4, <1>5, <1>6, <1>7, <1>8, <1>9, <1>10, <1>11, <1>12,
     <1>13, <1>14, <1>15, <1>16, <1>17, <1>18, <1>19, [Next]_vars
     DEF Next, Process, Waiting, Terminated

----------------------------------------------------------------------------
(***************************************************************************)
(* The theorems                                                            *)
(***************************************************************************)

LEMMA InitInductive == Init => IInv
<1> SUFFICES ASSUME Init PROVE IInv
  OBVIOUS
<1>1. TypeOK
  BY InitTypeOK
<1>2. Measured /\ PrintedIsMeasured
  BY DEF Init, Measured, PrintedIsMeasured
<1>3. Prepared /\ ListensToListed /\ Settled /\ CleanExit
  BY DEF Init, Prepared, ListensToListed, Settled, CleanExit, Completed
<1> QED
  BY <1>1, <1>2, <1>3 DEF IInv

LEMMA StepInductive == IInv /\ [Next]_vars => IInv'
<1> SUFFICES ASSUME IInv, [Next]_vars PROVE IInv'
  OBVIOUS
<1>1. TypeOK' /\ Measured' /\ PrintedIsMeasured'
  BY NextTypeOK, MeasuredStep, PrintedStep DEF IInv
<1>2. Listened' /\ Ended'
  BY ListenedStep, EndedStep DEF IInv, Listened, Ended
<1> QED
  BY <1>1, <1>2 DEF IInv, Listened, Ended

\* The inductive invariant holds of every state of a run.
THEOREM Inductive == Spec => []IInv
  BY InitInductive, StepInductive, PTL DEF Spec

\* Whatever the sensors send and however they truncate it, no line holds an
\* uninitialised timestamp or a quotient by zero (update_data, outputValues).
THEOREM OutputIsMeasured == Spec => []PrintedIsMeasured
<1>1. IInv => PrintedIsMeasured
  BY DEF IInv
<1> QED
  BY <1>1, Inductive, PTL

\* For every list of sensors and whatever an earlier run left in the
\* controller, the loop listens to exactly the sensors of the command line.
THEOREM ScanIsFiltered == Spec => []ListensToListed
<1>1. IInv => ListensToListed
  BY DEF IInv
<1> QED
  BY <1>1, Inductive, PTL

\* For every schedule of signals, errors and reports, a run prints only when it
\* succeeds, and then leaves the scan off and the filter restored.
THEOREM ExitIsClean == Spec => []CleanExit
<1>1. IInv => CleanExit
  BY DEF IInv
<1> QED
  BY <1>1, Inductive, PTL

----------------------------------------------------------------------------
(***************************************************************************)
(* The time limit                                                          *)
(***************************************************************************)

Entries == [report : Reports, at : Int, real : Nat, stale : BOOLEAN]

Punctual ==
    /\ log \in Seq(Entries)
    /\ ~Started => log = <<>> /\ now = 0 /\ setBack = 0
    /\ pc \in {"top", "select", "read", "update", "check"} =>
           startTime = MaxSteps
    /\ \A x \in DOMAIN log : log[x].real <= now
    /\ maxTime > 0 /\ pc \in {"select", "read", "update"} =>
           \A x \in DOMAIN log : log[x].real < maxTime + setBack
    /\ AtMostOneLate

LEMMA RealTimes ==
    ASSUME NEW s \in Seq(Entries), NEW x \in DOMAIN s
    PROVE  s[x].real \in Int
<1>1. s[x] \in Entries
  OBVIOUS
<1> QED
  BY <1>1 DEF Entries

\* A report logged before the time is over, or after it by a loop that then
\* leaves: the only step that makes the log longer.
LEMMA UpdatePunctual ==
    ASSUME TypeOK, Punctual, Update PROVE Punctual'
<1> USE DEF TypeOK, BufferOK, WorldOK, MainOK
<1>1. /\ pc = "update" /\ pc' \in {"done", "check"}
      /\ UNCHANGED <<maxTime, startTime, now, setBack>>
      /\ maxTime \in Int /\ setBack \in Nat
  BY LimitRange, Bounds DEF Update, GoTo, loopUnchanged, opts, world
<1>2. CASE log' = log
  BY <1>1, <1>2 DEF Punctual, AtMostOneLate, Started
<1>3. CASE log' # log
  <2> DEFINE e == [report |-> buf[1], at |-> wall, real |-> now,
                   stale |-> failed]
  <2>1. log' = Append(log, e)
    BY <1>3 DEF Update
  <2>2. e \in Entries
    BY <1>1, Bounds DEF Entries, wall
  <2>3. e.real = now
    OBVIOUS
  <2> HIDE DEF e
  <2>4. log \in Seq(Entries) /\ log' \in Seq(Entries) /\ Len(log) \in Nat
        /\ DOMAIN log = 1 .. Len(log) /\ DOMAIN log' = 1 .. Len(log) + 1
        /\ log'[Len(log) + 1] = e
    BY <2>1, <2>2 DEF Punctual
  <2>5. \A x \in DOMAIN log' :
            x # Len(log) + 1 => x \in DOMAIN log /\ log'[x] = log[x]
    BY <2>1, <2>2, <2>4
  <2>6. \A x \in DOMAIN log' : log'[x].real <= now'
    <3>1. now \in Nat /\ now' = now
      BY <1>1
    <3>2. \A x \in DOMAIN log : log[x].real <= now
      BY DEF Punctual
    <3>3. \A x \in DOMAIN log' : x = Len(log) + 1 \/ log'[x].real <= now
      BY <2>5, <3>2
    <3> QED
      BY <2>3, <2>4, <3>1, <3>3
  <2>7. maxTime > 0 => \A x \in DOMAIN log' :
            x # Len(log) + 1 => log'[x].real < maxTime + setBack
    BY <1>1, <2>5 DEF Punctual
  <2>8. AtMostOneLate'
    <3>1. \A x \in DOMAIN log' : log'[x].real \in Int
      BY <2>4, RealTimes
    <3> QED
      BY <1>1, <2>7, <3>1 DEF AtMostOneLate
  <2> QED
    BY <1>1, <2>4, <2>6, <2>8 DEF Punctual, Started
<1> QED
  BY <1>2, <1>3

LEMMA PunctualStep ==
    ASSUME TypeOK, Punctual, [Next]_vars PROVE Punctual'
<1>0. /\ setBack \in Nat /\ now \in Nat /\ MaxSteps \in Nat /\ maxTime \in Int
      /\ \A x \in DOMAIN log : log[x].real \in Int
  <2>1. setBack \in Nat /\ now \in Nat /\ maxTime \in Int
    BY LimitRange, Bounds DEF TypeOK, WorldOK, MainOK
  <2> QED
    BY <2>1, Bounds, RealTimes DEF Punctual
<1> USE <1>0 DEF Punctual, AtMostOneLate, Started, Exit, GoTo, setupUnchanged,
                 loopUnchanged, opts, world
<1>1. CASE ParseOptions
  BY <1>1 DEF ParseOptions
<1>2. CASE OpenDevice
  BY <1>2 DEF OpenDevice
<1>3. CASE ClearWhiteList
  BY <1>3 DEF ClearWhiteList, Command
<1>4. CASE AddWhiteList
  BY <1>4 DEF AddWhiteList, Command
<1>5. CASE SetScanParameters
  BY <1>5 DEF SetScanParameters, Command
<1>6. CASE EnableScan
  BY <1>6 DEF EnableScan, Command
<1>7. CASE StartScan
  <2>1. setBack = 0 /\ now = 0 /\ wall = MaxSteps
    BY <1>7 DEF StartScan, wall
  <2> QED
    BY <1>7, <2>1 DEF StartScan
<1>8. CASE Top
  <2>1. pc = "top" /\ pc' \in {"done", "select"} /\ startTime = MaxSteps
        /\ UNCHANGED <<log, maxTime, startTime, now, setBack>>
    BY <1>8 DEF Top
  <2>2. maxTime > 0 /\ pc' = "select" => now < maxTime + setBack
    BY <1>8, <2>1 DEF Top, wall
  <2> QED
    BY <2>1, <2>2
<1>9. CASE SelectReady
  BY <1>9 DEF SelectReady
<1>10. CASE SelectTimeout
  BY <1>10 DEF SelectTimeout
<1>11. CASE Read
  BY <1>11 DEF Read
<1>12. CASE Update
  BY <1>12, UpdatePunctual
<1>13. CASE Check
  BY <1>13 DEF Check
<1>14. CASE Done
  BY <1>14 DEF Done
<1>15. CASE DisableScan
  BY <1>15 DEF DisableScan, Command
<1>16. CASE outputValues
  BY <1>16 DEF outputValues
<1>17. CASE ReadError
  BY <1>17 DEF ReadError
<1>18. CASE Interrupt
  <2>1. (pc' = "exit" \/ (pc = "select" /\ pc' = "done") \/ pc' = pc)
        /\ UNCHANGED <<log, maxTime, startTime, now, setBack>>
    BY <1>18, Zenon DEF Interrupt
  <2> QED
    BY <2>1
<1>19. CASE Tick
  <2>1. now' = now + 1 /\ Started
        /\ UNCHANGED <<pc, log, maxTime, startTime, setBack>>
    BY <1>19 DEF Tick, proc
  <2> QED
    BY <2>1
<1>20. CASE StepBack
  <2>1. setBack' = setBack + 1 /\ Started
        /\ UNCHANGED <<pc, log, maxTime, startTime, now>>
    BY <1>20 DEF StepBack, proc
  <2> QED
    BY <2>1
<1>21. CASE Receive \/ UNCHANGED vars
  BY <1>21 DEF Receive, proc, vars
<1> QED
  BY <1>1, <1>2, <1>3, <1>4, <1>5, <1>6, <1>7, <1>8, <1>9, <1>10, <1>11, <1>12,
     <1>13, <1>14, <1>15, <1>16, <1>17, <1>18, <1>19, <1>20, <1>21, [Next]_vars
     DEF Next, Process, Waiting, Terminated

\* With -t, at most one report is taken into account after the time is over,
\* however fast the reports come in and however long the process is kept from
\* running (print_advertising_devices); the time is longer by what the clock was
\* set back.
THEOREM TimeLimit == Spec => []AtMostOneLate
<1>1. Init => Punctual
  BY DEF Init, Punctual, AtMostOneLate, Started
<1>2. TypeOK /\ Punctual /\ [Next]_vars => Punctual'
  BY PunctualStep
<1>3. Punctual => AtMostOneLate
  BY DEF Punctual
<1> QED
  BY <1>1, <1>2, <1>3, TypeCorrect, PTL DEF Spec

----------------------------------------------------------------------------
(***************************************************************************)
(* The output is what the sensors sent, as long as no read fails           *)
(***************************************************************************)

\* Every report is as long as its type needs.  (The program does not check
\* this: a shorter one is read past its end.)
WholeReports ==
    \A r \in Reports : Recognised(r) =>
        /\ r.type = 13 => r.length = 25
        /\ r.type \in {4, 6} => r.length > 22

\* The device update_data is called for when a report has its address.
First(d) == \A e \in 1 .. d - 1 : argv[e] # argv[d]

\* What the arrays hold for a device is what the log says of its address.
Averaged(addr, tag, sum, count, at) ==
    /\ count = Cardinality(Readings(addr, tag))
    /\ sum = SumOf(Values(addr, tag))
    /\ Readings(addr, tag) # {} => at = LastReading(addr, tag).at

LastOnly(addr, value, at) ==
    IF Readings(addr, "B") = {} THEN value = 0
    ELSE /\ value = Value(LastReading(addr, "B").report, "B")
         /\ at = LastReading(addr, "B").at

Nothing(d) == /\ temperature[d] = 0 /\ ntSamples[d] = 0
              /\ humidity[d] = 0 /\ nhSamples[d] = 0
              /\ battery[d] = 0

SummedAt(d, addr) ==
    IF First(d)
      THEN /\ Averaged(addr, "T", temperature[d], ntSamples[d], timeTemperature[d])
           /\ Averaged(addr, "H", humidity[d], nhSamples[d], timeHumidity[d])
           /\ LastOnly(addr, battery[d], timeBattery[d])
      ELSE Nothing(d)

Summed == \A d \in Devs, addr \in Words : argv[d] = addr => SummedAt(d, addr)

\* A read that fails is the only one that leaves `failed` set in the loop.
NeverStale ==
    /\ log \in Seq(Entries)
    /\ \A x \in DOMAIN log : ~log[x].stale
    /\ failed => pc \in {"done", "exit"}

PrintsLines == out = {} \/ out = Lines
PrintsAll   == Completed => out = Lines

SampleInv == NeverStale /\ Summed /\ PrintsLines /\ PrintsAll

\* The bytes of a report of full length are its own.
LEMMA ValueRead ==
    ASSUME WholeReports, NEW r \in Reports, Recognised(r), NEW b \in Data(r)
    PROVE  /\ r.type \in {4, 13} => getVal16(b, 1) = Value(r, "T")
           /\ r.type = 6 => getVal16(b, 1) = Value(r, "H")
           /\ r.type = 13 => getVal16(b, 3) = Value(r, "H")
           /\ b[1] = Value(r, "B")
<1>1. \A j \in 1 .. 4 : 20 + j < r.length => b[j] = r.bytes[j]
  BY DEF Data
<1>2. r.length \in {22, 23, 25}
  BY DEF Recognised
<1>3. b[1] = r.bytes[1]
  BY <1>1, <1>2
<1>4. r.type \in {4, 6, 13} => b[2] = r.bytes[2]
  BY <1>1, <1>2 DEF WholeReports
<1>5. r.type = 13 => b[3] = r.bytes[3] /\ b[4] = r.bytes[4]
  BY <1>1, <1>2 DEF WholeReports
<1>6. \A j \in 1 .. 4 : r.bytes[j] \in Nat
  BY ReportsAssumption, ByteRange DEF LEMetaEvents
<1>7. /\ Value(r, "B") = r.bytes[1]
      /\ Value(r, "T") = r.bytes[1] + 256 * r.bytes[2]
      /\ Value(r, "H") = IF r.type = 13 THEN r.bytes[3] + 256 * r.bytes[4]
                         ELSE r.bytes[1] + 256 * r.bytes[2]
  BY DEF Value
<1>8. /\ getVal16(b, 1) = b[2] * 256 + b[1]
      /\ getVal16(b, 3) = b[4] * 256 + b[3]
  BY DEF getVal16
<1> QED
  BY <1>3, <1>4, <1>5, <1>6, <1>7, <1>8

LEMMA ValueType ==
    \A r \in Reports, tag \in {"T", "H", "B"} : Value(r, tag) \in Nat
<1> SUFFICES ASSUME NEW r \in Reports, NEW tag \in {"T", "H", "B"}
             PROVE  Value(r, tag) \in Nat
  OBVIOUS
<1>1. \A j \in 1 .. 4 : r.bytes[j] \in Nat
  BY ReportsAssumption, ByteRange DEF LEMetaEvents
<1> QED
  BY <1>1 DEF Value

\* What a report does to one of the arrays and to its count.
Counts(f, n, at, d, r, tag) ==
    /\ f' = IF Carries(r, tag) THEN Add(f, d, Value(r, tag)) ELSE f
    /\ n' = IF Carries(r, tag) THEN Add(n, d, 1) ELSE n
    /\ at' = IF Carries(r, tag) THEN [at EXCEPT ![d] = wall] ELSE at

LEMMA UpdateCounts ==
    ASSUME WholeReports, NEW r \in Reports, NEW d \in Devs, update_data(d, r)
    PROVE  /\ Counts(temperature, ntSamples, timeTemperature, d, r, "T")
           /\ Counts(humidity, nhSamples, timeHumidity, d, r, "H")
           /\ battery' = IF Carries(r, "B")
                         THEN [battery EXCEPT ![d] = Value(r, "B")] ELSE battery
           /\ timeBattery' = IF Carries(r, "B")
                             THEN [timeBattery EXCEPT ![d] = wall]
                             ELSE timeBattery
<1> USE DEF Counts, Carries, AddTemperature, AddHumidity, SetBattery,
            temperatureVars, humidityVars, batteryVars
<1>1. CASE /\ ~(Recognised(r) /\ r.type \in {4, 6, 10, 13})
           /\ UNCHANGED <<sums, times>>
  BY <1>1 DEF sums, times
<1>2. ASSUME Recognised(r), NEW b \in Data(r), r.type = 13,
             AddTemperature(d, getVal16(b, 1)), AddHumidity(d, getVal16(b, 3)),
             UNCHANGED batteryVars
      PROVE  /\ Counts(temperature, ntSamples, timeTemperature, d, r, "T")
             /\ Counts(humidity, nhSamples, timeHumidity, d, r, "H")
             /\ ~Carries(r, "B") /\ UNCHANGED batteryVars
  BY <1>2, ValueRead
<1>3. ASSUME Recognised(r), NEW b \in Data(r), r.type = 10,
             SetBattery(d, b[1]), UNCHANGED <<temperatureVars, humidityVars>>
      PROVE  /\ ~Carries(r, "T") /\ ~Carries(r, "H") /\ Carries(r, "B")
             /\ SetBattery(d, Value(r, "B"))
  <2>1. b[1] = Value(r, "B")
    BY <1>3, ValueRead
  <2>2. ~Carries(r, "T") /\ ~Carries(r, "H") /\ Carries(r, "B")
    BY <1>3
  <2> QED
    BY <1>3, <2>1, <2>2
<1>4. ASSUME Recognised(r), NEW b \in Data(r), r.type = 4,
             AddTemperature(d, getVal16(b, 1)),
             UNCHANGED <<humidityVars, batteryVars>>
      PROVE  /\ Counts(temperature, ntSamples, timeTemperature, d, r, "T")
             /\ ~Carries(r, "H") /\ ~Carries(r, "B")
  BY <1>4, ValueRead
<1>5. ASSUME Recognised(r), NEW b \in Data(r), r.type = 6,
             AddHumidity(d, getVal16(b, 1)),
             UNCHANGED <<temperatureVars, batteryVars>>
      PROVE  /\ Counts(humidity, nhSamples, timeHumidity, d, r, "H")
             /\ ~Carries(r, "T") /\ ~Carries(r, "B")
  BY <1>5, ValueRead
<1> QED
  BY <1>1, <1>2, <1>3, <1>4, <1>5 DEF update_data

----------------------------------------------------------------------------
\* How the log grows

\* The last of some places in a sequence that has become longer by one.
LEMMA MaxOfMore ==
    ASSUME NEW n \in Nat, NEW S \in SUBSET (1 .. n)
    PROVE  Max(S \cup {n + 1}) = n + 1
<1>1. \A y \in S \cup {n + 1} : n + 1 >= y
  OBVIOUS
<1>2. \A x \in S \cup {n + 1} :
          (\A y \in S \cup {n + 1} : x >= y) => x = n + 1
  OBVIOUS
<1> QED
  BY <1>1, <1>2 DEF Max

LEMMA MaxIsElement ==
    ASSUME NEW n \in Nat, NEW S \in SUBSET (1 .. n), S # {}
    PROVE  Max(S) \in S
<1> DEFINE T == {n - x : x \in S}
<1>0. T \subseteq Nat /\ T # {}
  <2>1. \A x \in S : n - x \in Nat
    OBVIOUS
  <2>2. PICK x : x \in S
    OBVIOUS
  <2>3. n - x \in T
    BY <2>2
  <2> QED
    BY <2>1, <2>3
<1>1. PICK t \in T : \A u \in T : t <= u
  BY <1>0, LeastElement
<1>2. PICK x \in S : t = n - x
  OBVIOUS
<1>3. ASSUME NEW y \in S PROVE x >= y
  <2>1. n - x <= n - y
    BY <1>1, <1>2
  <2>2. x \in Nat /\ y \in Nat
    OBVIOUS
  <2> QED
    BY <2>1, <2>2
<1> QED
  BY <1>3 DEF Max

LEMMA LogGrows ==
    ASSUME log \in Seq(Entries), NEW e \in Entries, log' = Append(log, e)
    PROVE  /\ Len(log) \in Nat
           /\ DOMAIN log = 1 .. Len(log) /\ DOMAIN log' = 1 .. Len(log) + 1
           /\ Len(log') = Len(log) + 1
           /\ log'[Len(log) + 1] = e
           /\ \A x \in DOMAIN log : log'[x] = log[x]
           /\ Len(log) + 1 \notin DOMAIN log
  OBVIOUS

LEMMA ReadingsGrow ==
    ASSUME log \in Seq(Entries), NEW e \in Entries, log' = Append(log, e),
           ~e.stale, NEW addr, NEW tag
    PROVE  Readings(addr, tag)' =
               IF e.report.addr = addr /\ Carries(e.report, tag)
               THEN Readings(addr, tag) \cup {Len(log) + 1}
               ELSE Readings(addr, tag)
<1> DEFINE Is(x) == /\ x.report.addr = addr
                    /\ Carries(x.report, tag)
                    /\ ~x.stale
<1>1. /\ Readings(addr, tag) = {x \in DOMAIN log : Is(log[x])}
      /\ Readings(addr, tag)' = {x \in DOMAIN log' : Is(log'[x])}
  BY DEF Readings
<1>2. Is(e) <=> e.report.addr = addr /\ Carries(e.report, tag)
  OBVIOUS
<1> HIDE DEF Is
<1>3. {x \in DOMAIN log' : Is(log'[x])} =
          {x \in DOMAIN log : Is(log[x])} \cup
              (IF Is(e) THEN {Len(log) + 1} ELSE {})
  BY LogGrows
<1> QED
  BY <1>1, <1>2, <1>3

LEMMA ReadingsFinite ==
    ASSUME log \in Seq(Entries), NEW addr, NEW tag
    PROVE  /\ Readings(addr, tag) \in SUBSET (1 .. Len(log))
           /\ IsFiniteSet(Readings(addr, tag))
           /\ Cardinality(Readings(addr, tag)) \in Nat
<1>1. Readings(addr, tag) \in SUBSET (1 .. Len(log))
  BY DEF Readings
<1>2. IsFiniteSet(1 .. Len(log))
  BY FS_Interval
<1>3. IsFiniteSet(Readings(addr, tag))
  BY <1>1, <1>2, FS_Subset
<1> QED
  BY <1>1, <1>3, FS_CardinalityType

LEMMA ValuesType ==
    ASSUME log \in Seq(Entries), NEW addr, NEW tag \in {"T", "H", "B"}
    PROVE  /\ Values(addr, tag) \in Seq(Int)
           /\ Len(Values(addr, tag)) = Len(log)
           /\ \A x \in 1 .. Len(log) :
                  Values(addr, tag)[x] =
                      IF x \in Readings(addr, tag)
                      THEN Value(log[x].report, tag) ELSE 0
<1>1. \A x \in DOMAIN log : log[x].report \in Reports
  <2>1. \A x \in DOMAIN log : log[x] \in Entries
    OBVIOUS
  <2> QED
    BY <2>1 DEF Entries
<1>2. \A x \in DOMAIN log : Value(log[x].report, tag) \in Int
  BY <1>1, ValueType
<1>3. Len(log) \in Nat /\ DOMAIN log = 1 .. Len(log)
  OBVIOUS
<1>4. Values(addr, tag) = [x \in 1 .. Len(log) |->
          IF x \in Readings(addr, tag) THEN Value(log[x].report, tag) ELSE 0]
  BY <1>3 DEF Values
<1> QED
  BY <1>2, <1>3, <1>4

LEMMA SumGrows ==
    ASSUME log \in Seq(Entries), NEW e \in Entries, log' = Append(log, e),
           ~e.stale, NEW addr, NEW tag \in {"T", "H", "B"}
    PROVE  SumOf(Values(addr, tag)') =
               SumOf(Values(addr, tag)) +
                   (IF e.report.addr = addr /\ Carries(e.report, tag)
                    THEN Value(e.report, tag) ELSE 0)
<1> DEFINE n == Len(log)
           is == e.report.addr = addr /\ Carries(e.report, tag)
           v == IF is THEN Value(e.report, tag) ELSE 0
<1>1. v \in Int
  BY ValueType DEF Entries
<1>2. /\ n \in Nat /\ log' \in Seq(Entries) /\ Len(log') = n + 1
      /\ log'[n + 1] = e
      /\ \A x \in 1 .. n : log'[x] = log[x]
  BY LogGrows
<1>3. /\ Values(addr, tag) \in Seq(Int) /\ Len(Values(addr, tag)) = n
      /\ \A x \in 1 .. n :
             Values(addr, tag)[x] = IF x \in Readings(addr, tag)
                                    THEN Value(log[x].report, tag) ELSE 0
  BY ValuesType
<1>4. Values(addr, tag)' = [x \in DOMAIN log' |->
          IF x \in Readings(addr, tag)' THEN Value(log'[x].report, tag) ELSE 0]
  BY DEF Values
<1>5. DOMAIN log' = 1 .. n + 1
  BY LogGrows
<1>6. n + 1 \in Readings(addr, tag)' <=> is
  BY ReadingsGrow, ReadingsFinite, <1>2
<1>7. \A x \in 1 .. n : x \in Readings(addr, tag)' <=> x \in Readings(addr, tag)
  BY ReadingsGrow, <1>2
<1> HIDE DEF n, is
<1>8. Values(addr, tag)' = Append(Values(addr, tag), v)
  <2> DEFINE V == Values(addr, tag)
             W == Values(addr, tag)'
  <2>1. W[n + 1] = v
    BY <1>2, <1>4, <1>5, <1>6
  <2>2. \A x \in 1 .. n : W[x] = V[x]
    BY <1>2, <1>3, <1>4, <1>5, <1>7
  <2>3. W = [x \in 1 .. n + 1 |-> W[x]]
    BY <1>4, <1>5
  <2>4. V \in Seq(Int) /\ Len(V) = n
    BY <1>3
  <2> HIDE DEF V, W, v
  <2>5. /\ Append(V, v) \in Seq(Int) /\ Len(Append(V, v)) = n + 1
        /\ Append(V, v)[n + 1] = v
        /\ \A x \in 1 .. n : Append(V, v)[x] = V[x]
    BY <1>1, <1>2, <2>4
  <2>6. Append(V, v) = [x \in 1 .. n + 1 |-> Append(V, v)[x]]
    <3> DEFINE q == Append(V, v)
    <3>1. q \in Seq(Int) /\ Len(q) = n + 1
      BY <2>5
    <3> HIDE DEF q
    <3>2. q = [x \in 1 .. Len(q) |-> q[x]]
      BY <3>1
    <3> QED
      BY <3>1, <3>2 DEF q
  <2>7. \A x \in 1 .. n + 1 : W[x] = Append(V, v)[x]
    BY <1>2, <2>1, <2>2, <2>5
  <2>8. W = Append(V, v)
    BY <2>3, <2>6, <2>7
  <2> QED
    BY <2>8 DEF V, W
<1> HIDE DEF v
<1>9. SumOf(Append(Values(addr, tag), v)) = SumOf(Values(addr, tag)) + v
  BY <1>1, <1>3, SumOfOneMore
<1> QED
  BY <1>8, <1>9 DEF v, is

\* A report that carries the value is the last of one more readings ...
LEMMA OneReadingMore ==
    ASSUME log \in Seq(Entries), NEW e \in Entries, log' = Append(log, e),
           ~e.stale, NEW addr, NEW tag \in {"T", "H", "B"},
           e.report.addr = addr, Carries(e.report, tag)
    PROVE  /\ Readings(addr, tag)' # {}
           /\ LastReading(addr, tag)' = e
           /\ Cardinality(Readings(addr, tag)') =
                  Cardinality(Readings(addr, tag)) + 1
           /\ SumOf(Values(addr, tag)') =
                  SumOf(Values(addr, tag)) + Value(e.report, tag)
<1> DEFINE n == Len(log)
<1>1. Readings(addr, tag)' = Readings(addr, tag) \cup {n + 1}
  BY ReadingsGrow
<1>2. /\ n \in Nat /\ Readings(addr, tag) \in SUBSET (1 .. n)
      /\ IsFiniteSet(Readings(addr, tag))
  BY ReadingsFinite
<1>3. Max(Readings(addr, tag)') = n + 1
  BY <1>1, <1>2, MaxOfMore
<1>4. LastReading(addr, tag)' = log'[Max(Readings(addr, tag)')]
  BY DEF LastReading
<1>5. n + 1 \notin Readings(addr, tag)
  BY <1>2
<1>6. Cardinality(Readings(addr, tag)') = Cardinality(Readings(addr, tag)) + 1
  BY <1>1, <1>2, <1>5, FS_AddElement
<1> QED
  BY <1>1, <1>3, <1>4, <1>6, LogGrows, SumGrows

\* ... and any other leaves the readings as they are.
LEMMA NoReadingMore ==
    ASSUME log \in Seq(Entries), NEW e \in Entries, log' = Append(log, e),
           ~e.stale, NEW addr, NEW tag \in {"T", "H", "B"},
           ~(e.report.addr = addr /\ Carries(e.report, tag))
    PROVE  /\ Readings(addr, tag)' = Readings(addr, tag)
           /\ Readings(addr, tag) # {} =>
                  LastReading(addr, tag)' = LastReading(addr, tag)
           /\ SumOf(Values(addr, tag)') = SumOf(Values(addr, tag))
<1>1. Readings(addr, tag)' = Readings(addr, tag)
  BY ReadingsGrow
<1>2. ASSUME Readings(addr, tag) # {}
      PROVE  LastReading(addr, tag)' = LastReading(addr, tag)
  <2>1. Max(Readings(addr, tag)) \in DOMAIN log
    <3>1. Readings(addr, tag) \in SUBSET (1 .. Len(log))
      BY ReadingsFinite
    <3>2. Len(log) \in Nat /\ DOMAIN log = 1 .. Len(log)
      OBVIOUS
    <3>3. Max(Readings(addr, tag)) \in Readings(addr, tag)
      BY <1>2, <3>1, <3>2, MaxIsElement
    <3> QED
      BY <3>1, <3>2, <3>3
  <2>2. /\ LastReading(addr, tag)' = log'[Max(Readings(addr, tag)')]
        /\ LastReading(addr, tag) = log[Max(Readings(addr, tag))]
    BY DEF LastReading
  <2> QED
    BY <1>1, <2>1, <2>2, LogGrows
<1>3. SumOf(Values(addr, tag)') = SumOf(Values(addr, tag)) + 0
  BY SumGrows
<1>4. SumOf(Values(addr, tag)) \in Int
  BY ValuesType, SumOfType
<1> QED
  BY <1>1, <1>2, <1>3, <1>4

----------------------------------------------------------------------------
\* The steps

LEMMA LogKept ==
    ASSUME [Next]_vars
    PROVE  Update \/ log' = log
  BY DEF Next, Process, ParseOptions, OpenDevice, ClearWhiteList, AddWhiteList,
         SetScanParameters, EnableScan, StartScan, Top, SelectReady,
         SelectTimeout, Read, Check, Done, DisableScan, outputValues,
         ReadError, Interrupt, Tick, StepBack, Receive, Waiting, Terminated,
         setupUnchanged, loopUnchanged, proc, vars

\* The log grows when update_data is called, and only then do the sums change.
LEMMA UpdateLogs ==
    ASSUME TypeOK, NeverStale, Update
    PROVE  \/ UNCHANGED <<sums, times, log>>
           \/ \E d \in Devs, e \in Entries :
                 /\ First(d) /\ e.report \in Reports
                 /\ argv[d] = e.report.addr
                 /\ ~e.stale /\ e.at = wall
                 /\ update_data(d, e.report)
                 /\ log' = Append(log, e)
<1>1. pc = "update" /\ ~failed /\ failed \in BOOLEAN
  BY DEF Update, NeverStale, TypeOK, MainOK
<1>2. buf[1] \in Reports
  BY <1>1 DEF TypeOK, BufferOK
<1>3. wall \in Int /\ now \in Nat
  BY Bounds DEF TypeOK, WorldOK, wall
<1>4. CASE UNCHANGED <<sums, times, log>>
  BY <1>4
<1>5. CASE ~ UNCHANGED <<sums, times, log>>
  <2> DEFINE e == [report |-> buf[1], at |-> wall, real |-> now,
                   stale |-> failed]
  <2>1. PICK d \in Matches(buf[1].addr) : update_data(d, buf[1])
    BY <1>5 DEF Update
  <2>2. log' = Append(log, e)
    BY <1>5 DEF Update
  <2>3. e \in Entries
    BY <1>1, <1>2, <1>3 DEF Entries
  <2>4. /\ e.report = buf[1] /\ e.at = wall /\ ~e.stale
    BY <1>1
  <2>5. d \in Devs /\ argv[d] = buf[1].addr /\ First(d)
    BY <2>1 DEF Matches, First
  <2> HIDE DEF e
  <2> QED
    BY <1>2, <2>1, <2>2, <2>3, <2>4, <2>5
<1> QED
  BY <1>4, <1>5

LEMMA NeverStaleStep ==
    ASSUME ~ReadError, TypeOK, NeverStale, [Next]_vars
    PROVE  NeverStale'
<1>1. failed' => pc' \in {"done", "exit"}
  <2> USE DEF NeverStale, Exit, GoTo, setupUnchanged, loopUnchanged
  <2>1. CASE ParseOptions \/ OpenDevice
    BY <2>1 DEF ParseOptions, OpenDevice
  <2>2. CASE ClearWhiteList \/ AddWhiteList
    BY <2>2 DEF ClearWhiteList, AddWhiteList, Command
  <2>3. CASE SetScanParameters \/ EnableScan \/ StartScan
    BY <2>3 DEF SetScanParameters, EnableScan, StartScan, Command
  <2>4. CASE Top
    BY <2>4 DEF Top
  <2>5. CASE SelectReady \/ SelectTimeout \/ Read \/ Update \/ Check
    BY <2>5 DEF SelectReady, SelectTimeout, Read, Update, Check
  <2>6. CASE Done
    BY <2>6 DEF Done
  <2>7. CASE DisableScan \/ outputValues
    BY <2>7 DEF DisableScan, outputValues, Command
  <2>8. CASE Interrupt
    <3>1. pc' = "exit" \/ pc' = "done" \/ (pc' = pc /\ failed' = failed)
      BY <2>8, Zenon DEF Interrupt
    <3> QED
      BY <3>1
  <2>9. CASE Tick \/ StepBack \/ Receive \/ UNCHANGED vars
    BY <2>9 DEF Tick, StepBack, Receive, proc, vars
  <2> QED
    BY <2>1, <2>2, <2>3, <2>4, <2>5, <2>6, <2>7, <2>8, <2>9, [Next]_vars
       DEF Next, Process, Waiting, Terminated
<1>2. CASE log' = log
  BY <1>1, <1>2 DEF NeverStale
<1>3. CASE Update /\ log' # log
  <2>1. PICK e \in Entries : ~e.stale /\ log' = Append(log, e)
    BY <1>3, UpdateLogs
  <2>2. log' \in Seq(Entries)
    BY <2>1 DEF NeverStale
  <2>3. \A x \in DOMAIN log' : ~log'[x].stale
    <3>1. log \in Seq(Entries) /\ \A x \in DOMAIN log : ~log[x].stale
      BY DEF NeverStale
    <3>2. /\ DOMAIN log = 1 .. Len(log) /\ DOMAIN log' = 1 .. Len(log) + 1
          /\ Len(log) \in Nat /\ log'[Len(log) + 1] = e
          /\ \A x \in DOMAIN log : log'[x] = log[x]
      BY <2>1, <3>1, LogGrows
    <3> QED
      BY <2>1, <3>1, <3>2
  <2> QED
    BY <1>1, <2>2, <2>3 DEF NeverStale
<1> QED
  BY <1>2, <1>3, LogKept

\* A report counts for its address and leaves the others as they are.
LEMMA AveragedStep ==
    ASSUME log \in Seq(Entries), NEW e \in Entries, log' = Append(log, e),
           ~e.stale, NEW tag \in {"T", "H"}, NEW addr,
           NEW f, NEW n, NEW at, Averaged(addr, tag, f, n, at)
    PROVE  IF e.report.addr = addr /\ Carries(e.report, tag)
           THEN /\ n + 1 = Cardinality(Readings(addr, tag)')
                /\ f + Value(e.report, tag) = SumOf(Values(addr, tag)')
                /\ e = LastReading(addr, tag)'
           ELSE /\ n = Cardinality(Readings(addr, tag)')
                /\ f = SumOf(Values(addr, tag)')
                /\ Readings(addr, tag)' # {} => at = LastReading(addr, tag)'.at
<1>1. CASE e.report.addr = addr /\ Carries(e.report, tag)
  BY <1>1, OneReadingMore DEF Averaged
<1>2. CASE ~(e.report.addr = addr /\ Carries(e.report, tag))
  BY <1>2, NoReadingMore DEF Averaged
<1> QED
  BY <1>1, <1>2

\* The same for the battery, of which the last value holds.
LEMMA LastOnlyStep ==
    ASSUME log \in Seq(Entries), NEW e \in Entries, log' = Append(log, e),
           ~e.stale, NEW addr, NEW f, NEW at, LastOnly(addr, f, at)
    PROVE  IF e.report.addr = addr /\ Carries(e.report, "B")
           THEN Readings(addr, "B")' # {} /\ e = LastReading(addr, "B")'
           ELSE IF Readings(addr, "B")' = {} THEN f = 0
           ELSE /\ f = Value(LastReading(addr, "B")'.report, "B")
                /\ at = LastReading(addr, "B")'.at
<1>1. CASE e.report.addr = addr /\ Carries(e.report, "B")
  BY <1>1, OneReadingMore
<1>2. CASE ~(e.report.addr = addr /\ Carries(e.report, "B"))
  BY <1>2, NoReadingMore DEF LastOnly
<1> QED
  BY <1>1, <1>2

\* A report is added to the sums of its device and to the log.
LEMMA SummedUpdate ==
    ASSUME WholeReports, TypeOK, log \in Seq(Entries), Summed, argv' = argv,
           NEW d \in Devs, NEW e \in Entries,
           First(d), e.report \in Reports, argv[d] = e.report.addr,
           ~e.stale, e.at = wall, update_data(d, e.report),
           log' = Append(log, e)
    PROVE  Summed'
<1>0. argv' = argv /\ Devs' = Devs
  BY DEF Devs, nDevs
<1> DEFINE r == e.report
<1>1. /\ Counts(temperature, ntSamples, timeTemperature, d, r, "T")
      /\ Counts(humidity, nhSamples, timeHumidity, d, r, "H")
      /\ battery' = IF Carries(r, "B")
                    THEN [battery EXCEPT ![d] = Value(r, "B")] ELSE battery
      /\ timeBattery' = IF Carries(r, "B")
                        THEN [timeBattery EXCEPT ![d] = e.at]
                        ELSE timeBattery
  BY UpdateCounts
<1>2. /\ temperature' = IF Carries(r, "T")
                        THEN Add(temperature, d, Value(r, "T")) ELSE temperature
      /\ ntSamples' = IF Carries(r, "T") THEN Add(ntSamples, d, 1)
                      ELSE ntSamples
      /\ timeTemperature' = IF Carries(r, "T")
                            THEN [timeTemperature EXCEPT ![d] = e.at]
                            ELSE timeTemperature
  BY <1>1 DEF Counts
<1>3. /\ humidity' = IF Carries(r, "H")
                     THEN Add(humidity, d, Value(r, "H")) ELSE humidity
      /\ nhSamples' = IF Carries(r, "H") THEN Add(nhSamples, d, 1)
                      ELSE nhSamples
      /\ timeHumidity' = IF Carries(r, "H")
                         THEN [timeHumidity EXCEPT ![d] = e.at]
                         ELSE timeHumidity
  BY <1>1 DEF Counts
<1>4. /\ temperature \in [Devs -> Nat] /\ ntSamples \in [Devs -> Nat]
      /\ humidity \in [Devs -> Nat] /\ nhSamples \in [Devs -> Nat]
      /\ battery \in [Devs -> Byte]
      /\ timeTemperature \in [Devs -> Int] /\ timeHumidity \in [Devs -> Int]
      /\ timeBattery \in [Devs -> Int]
  BY DEF TypeOK, SumsOK
<1>5. log \in Seq(Entries)
  OBVIOUS
<1> SUFFICES ASSUME NEW c \in Devs, NEW addr \in Words, argv[c] = addr
             PROVE  SummedAt(c, addr)'
  BY <1>0 DEF Summed
<1>6. CASE ~First(c)
  <2>1. c # d /\ Nothing(c)
    BY <1>6 DEF Summed, SummedAt
  <2>2. Nothing(c)'
    BY <1>1, <1>2, <1>3, <1>4, <2>1 DEF Nothing, Add
  <2> QED
    BY <1>0, <1>6, <2>2 DEF SummedAt, First
<1>7. CASE First(c)
  <2>1. e.report.addr = addr <=> c = d
    <3>1. c \in Int /\ d \in Int /\ c >= 1 /\ d >= 1
      BY ArgvType DEF TypeOK, MainOK
    <3>2. ~(c < d /\ argv[c] = argv[d]) /\ ~(d < c /\ argv[c] = argv[d])
      BY <1>7, <3>1 DEF First
    <3> QED
      BY <3>1, <3>2
  <2>2. /\ Averaged(addr, "T", temperature[c], ntSamples[c], timeTemperature[c])
        /\ Averaged(addr, "H", humidity[c], nhSamples[c], timeHumidity[c])
        /\ LastOnly(addr, battery[c], timeBattery[c])
    BY <1>7 DEF Summed, SummedAt
  <2>3. Averaged(addr, "T", temperature[c], ntSamples[c], timeTemperature[c])'
    <3>1. /\ ntSamples'[c] = Cardinality(Readings(addr, "T")')
          /\ temperature'[c] = SumOf(Values(addr, "T")')
          /\ Readings(addr, "T")' # {} =>
                 timeTemperature'[c] = LastReading(addr, "T")'.at
      <4>1. CASE c = d /\ Carries(r, "T")
        <5>1. /\ ntSamples'[c] = ntSamples[c] + 1
              /\ temperature'[c] = temperature[c] + Value(r, "T")
              /\ timeTemperature'[c] = e.at
          BY <1>2, <1>4, <4>1 DEF Add
        <5> QED
          BY <1>5, <2>1, <2>2, <4>1, <5>1, AveragedStep
      <4>2. CASE ~(c = d /\ Carries(r, "T"))
        <5>1. /\ ntSamples'[c] = ntSamples[c]
              /\ temperature'[c] = temperature[c]
              /\ timeTemperature'[c] = timeTemperature[c]
          BY <1>2, <1>4, <4>2 DEF Add
        <5> QED
          BY <1>5, <2>1, <2>2, <4>2, <5>1, AveragedStep
      <4> QED
        BY <4>1, <4>2
    <3> QED
      BY <3>1 DEF Averaged
  <2>4. Averaged(addr, "H", humidity[c], nhSamples[c], timeHumidity[c])'
    <3>1. /\ nhSamples'[c] = Cardinality(Readings(addr, "H")')
          /\ humidity'[c] = SumOf(Values(addr, "H")')
          /\ Readings(addr, "H")' # {} =>
                 timeHumidity'[c] = LastReading(addr, "H")'.at
      <4>1. CASE c = d /\ Carries(r, "H")
        <5>1. /\ nhSamples'[c] = nhSamples[c] + 1
              /\ humidity'[c] = humidity[c] + Value(r, "H")
              /\ timeHumidity'[c] = e.at
          BY <1>3, <1>4, <4>1 DEF Add
        <5> QED
          BY <1>5, <2>1, <2>2, <4>1, <5>1, AveragedStep
      <4>2. CASE ~(c = d /\ Carries(r, "H"))
        <5>1. /\ nhSamples'[c] = nhSamples[c]
              /\ humidity'[c] = humidity[c]
              /\ timeHumidity'[c] = timeHumidity[c]
          BY <1>3, <1>4, <4>2 DEF Add
        <5> QED
          BY <1>5, <2>1, <2>2, <4>2, <5>1, AveragedStep
      <4> QED
        BY <4>1, <4>2
    <3> QED
      BY <3>1 DEF Averaged
  <2>5. LastOnly(addr, battery[c], timeBattery[c])'
    <3>1. IF Readings(addr, "B")' = {} THEN battery'[c] = 0
          ELSE /\ battery'[c] = Value(LastReading(addr, "B")'.report, "B")
               /\ timeBattery'[c] = LastReading(addr, "B")'.at
      <4>1. CASE c = d /\ Carries(r, "B")
        <5>1. battery'[c] = Value(r, "B") /\ timeBattery'[c] = e.at
          BY <1>1, <1>4, <4>1
        <5> QED
          BY <1>5, <2>1, <2>2, <4>1, <5>1, LastOnlyStep
      <4>2. CASE ~(c = d /\ Carries(r, "B"))
        <5>1. battery'[c] = battery[c] /\ timeBattery'[c] = timeBattery[c]
          BY <1>1, <1>4, <4>2
        <5> QED
          BY <1>5, <2>1, <2>2, <4>2, <5>1, LastOnlyStep
      <4> QED
        BY <4>1, <4>2
    <3> QED
      BY <3>1 DEF LastOnly
  <2> QED
    BY <1>0, <1>7, <2>3, <2>4, <2>5 DEF SummedAt, First
<1> QED
  BY <1>6, <1>7

LEMMA SummedStep ==
    ASSUME WholeReports, TypeOK, NeverStale, Summed, [Next]_vars
    PROVE  Summed'
<1>0. argv' = argv /\ Devs' = Devs
  BY DevsKept
<1>1. CASE UNCHANGED <<sums, times, log>>
  <2>1. \A addr, tag : /\ Readings(addr, tag)' = Readings(addr, tag)
                       /\ Values(addr, tag)' = Values(addr, tag)
                       /\ LastReading(addr, tag)' = LastReading(addr, tag)
    BY <1>1 DEF Readings, Values, LastReading
  <2> SUFFICES ASSUME NEW c \in Devs, NEW addr \in Words, argv[c] = addr
               PROVE  SummedAt(c, addr)'
    BY <1>0 DEF Summed
  <2>2. SummedAt(c, addr)
    BY DEF Summed
  <2> QED
    BY <1>0, <1>1, <2>1, <2>2 DEF SummedAt, Averaged, LastOnly, Nothing, First,
                                  sums, times
<1>2. ASSUME NEW d \in Devs, NEW e \in Entries,
             First(d), e.report \in Reports, argv[d] = e.report.addr,
             ~e.stale, e.at = wall, update_data(d, e.report),
             log' = Append(log, e)
      PROVE  Summed'
  BY <1>0, <1>2, SummedUpdate DEF NeverStale
<1>3. UNCHANGED <<sums, times, log>> \/ Update
  BY SumsKept, LogKept
<1> QED
  BY <1>1, <1>2, <1>3, UpdateLogs

\* A run comes to its end with status 0 only by printing.
LEMMA CompletedBy ==
    ASSUME IInv, [Next]_vars
    PROVE  \/ outputValues
           \/ pc # "exit" /\ ~Completed'
           \/ pc = "exit" /\ UNCHANGED <<code, i>>
<1> USE DEF IInv, Settled, Prepared, TypeOK, MainOK, Completed, GoTo, Exit,
            setupUnchanged, loopUnchanged, opts
<1>1. CASE ParseOptions
  BY <1>1 DEF ParseOptions
<1>2. CASE OpenDevice \/ ClearWhiteList \/ AddWhiteList \/ SetScanParameters
  BY <1>2 DEF OpenDevice, ClearWhiteList, AddWhiteList, SetScanParameters,
              Command
<1>3. CASE EnableScan \/ StartScan \/ Done \/ DisableScan
  BY <1>3 DEF EnableScan, StartScan, Done, DisableScan, Command
<1>4. CASE Top \/ SelectReady \/ SelectTimeout \/ Read \/ Check \/ ReadError
  BY <1>4 DEF Top, SelectReady, SelectTimeout, Read, Check, ReadError
<1>5. CASE Update
  BY <1>5 DEF Update
<1>6. CASE Interrupt
  <2>1. pc # "exit" /\ (code' = code \/ code' = 130)
    BY <1>6, Zenon DEF Interrupt
  <2>2. pc # "exit" => code = -1
    OBVIOUS
  <2> QED
    BY <2>1, <2>2
<1>7. CASE Tick \/ StepBack \/ Receive \/ UNCHANGED vars
  BY <1>7 DEF Tick, StepBack, Receive, proc, vars
<1> QED
  BY <1>1, <1>2, <1>3, <1>4, <1>5, <1>6, <1>7, [Next]_vars
     DEF Next, Process, Waiting, Terminated

LEMMA LinesKept ==
    ASSUME UNCHANGED <<argv, sums, times>>
    PROVE  Lines' = Lines
<1>1. \A tag, d : Line(tag, d)' = Line(tag, d)
  BY DEF Line, sums, times
<1>2. Devs' = Devs
  BY DEF Devs, nDevs
<1> QED
  BY <1>1, <1>2 DEF Lines

\* What is printed is what the arrays hold, and it stays that way.
LEMMA LinesStep ==
    ASSUME IInv, PrintsLines, [Next]_vars
    PROVE  PrintsLines' /\ (PrintsAll => PrintsAll')
<1> USE DEF PrintsLines, PrintsAll
<1>1. CASE outputValues
  <2>1. Lines' = Lines
    BY <1>1, LinesKept DEF outputValues, setupUnchanged, opts
  <2> QED
    BY <1>1, <2>1 DEF outputValues
<1>2. CASE pc # "exit" /\ ~Completed' /\ out' = out
  BY <1>2 DEF IInv, Settled
<1>3. CASE pc = "exit" /\ UNCHANGED <<code, i>> /\ out' = out
  <2>1. UNCHANGED <<sums, times>>
    BY <1>3, SumsKept DEF Update
  <2>2. Lines' = Lines
    BY <2>1, DevsKept, LinesKept
  <2> QED
    BY <1>3, <2>2 DEF Completed
<1> QED
  BY <1>1, <1>2, <1>3, CompletedBy, OutKept

----------------------------------------------------------------------------
\* Before the first report there is nothing to add up and nothing printed.
LEMMA InitSamples == Init => SampleInv
<1> SUFFICES ASSUME Init PROVE SampleInv
  OBVIOUS
<1>1. NeverStale
  BY DEF Init, NeverStale
<1>2. \A addr, tag : Readings(addr, tag) = {} /\ Values(addr, tag) = <<>>
  BY DEF Init, Readings, Values
<1>3. Summed
  <2> SUFFICES ASSUME NEW d \in Devs, NEW addr \in Words PROVE SummedAt(d, addr)
    BY DEF Summed
  <2>1. Cardinality({}) = 0 /\ SumOf(<<>>) = 0
    BY FS_EmptySet, SumOfNothing
  <2> QED
    BY <1>2, <2>1 DEF Init, SummedAt, Averaged, LastOnly, Nothing
<1>4. PrintsLines /\ PrintsAll
  BY DEF Init, PrintsLines, PrintsAll, Completed
<1> QED
  BY <1>1, <1>3, <1>4 DEF SampleInv

THEOREM SamplesInductive ==
    ASSUME MaxErrors = 0, WholeReports
    PROVE  Spec => []SampleInv
<1>1. TypeOK => ~ReadError
  BY DEF ReadError, TypeOK, WorldOK
<1>2. IInv /\ SampleInv /\ [Next]_vars => SampleInv'
  BY <1>1, NeverStaleStep, SummedStep, LinesStep DEF SampleInv, IInv
<1> QED
  BY <1>2, InitSamples, Inductive, PTL DEF Spec

----------------------------------------------------------------------------
\* What follows for the output

LEMMA FirstExists ==
    ASSUME TypeOK, NEW addr \in ToSet(argv)
    PROVE  addr \in Words /\ \E d \in Devs : First(d) /\ argv[d] = addr
<1> DEFINE T == {d \in Devs : argv[d] = addr}
<1>1. /\ argv \in Seq(Words) /\ Devs = DOMAIN argv /\ Devs \subseteq Nat
      /\ \A d \in Devs : d >= 1 /\ d <= nDevs
  BY ArgvType DEF TypeOK, MainOK
<1>2. T # {} /\ T \subseteq Nat
  BY <1>1 DEF ToSet
<1>3. PICK d \in T : \A e \in T : d <= e
  BY <1>2, LeastElement
<1>4. First(d)
  <2> SUFFICES ASSUME NEW e \in 1 .. d - 1, argv[e] = addr PROVE FALSE
    BY DEF First
  <2>1. nDevs \in Nat /\ d \in Nat /\ d <= nDevs /\ e \in Devs /\ e < d
    BY <1>1, ArgvType DEF TypeOK, MainOK, Devs
  <2> QED
    BY <1>3, <2>1
<1>5. addr \in Words
  BY <1>1 DEF ToSet
<1> QED
  BY <1>4, <1>5

\* The line of the first device with an address says what the readings say.
LEMMA LineMeasures ==
    ASSUME IInv, Summed, NEW tag \in {"T", "H", "B"}, NEW d \in Devs, First(d)
    PROVE  LET addr == argv[d]
               l    == Line(tag, d)
           IN  /\ l.tag = tag /\ l.addr = addr
               /\ l.sum # 0 =>
                    /\ Readings(addr, tag) # {}
                    /\ l.at = LastReading(addr, tag).at
                    /\ l.sum = Total(addr, tag)
                    /\ tag # "B" => l.count = Cardinality(Readings(addr, tag))
               /\ Readings(addr, tag) # {} => l.sum = Total(addr, tag)
<1> DEFINE addr == argv[d]
           l    == Line(tag, d)
<1>1. addr \in Words
  BY ArgvType DEF IInv, TypeOK, MainOK
<1> HIDE DEF addr
<1>2. SummedAt(d, addr)
  BY <1>1 DEF Summed, addr
<1>3. /\ temperature[d] \in Nat /\ ntSamples[d] \in Nat
      /\ humidity[d] \in Nat /\ nhSamples[d] \in Nat
      /\ temperature[d] <= 65535 * ntSamples[d]
      /\ humidity[d] <= 65535 * nhSamples[d]
  BY DEF IInv, TypeOK, SumsOK, Measured
<1>4. Cardinality({}) = 0
  BY FS_EmptySet
<1>5. CASE tag = "T"
  <2>1. l = [tag |-> tag, addr |-> addr, at |-> timeTemperature[d],
             sum |-> temperature[d], count |-> ntSamples[d]]
    BY <1>5 DEF Line, addr
  <2>2. Averaged(addr, tag, temperature[d], ntSamples[d], timeTemperature[d])
    BY <1>2, <1>5 DEF SummedAt
  <2>3. Total(addr, tag) = temperature[d]
    BY <1>5, <2>2 DEF Total, Averaged
  <2>4. ntSamples[d] = Cardinality(Readings(addr, tag))
    BY <2>2 DEF Averaged
  <2>5. ASSUME Readings(addr, tag) = {} PROVE temperature[d] = 0
    <3>1. ntSamples[d] = 0
      BY <1>4, <2>4, <2>5
    <3> QED
      BY <1>3, <3>1
  <2> QED
    BY <2>1, <2>2, <2>3, <2>4, <2>5 DEF Averaged, addr
<1>6. CASE tag = "H"
  <2>1. l = [tag |-> tag, addr |-> addr, at |-> timeHumidity[d],
             sum |-> humidity[d], count |-> nhSamples[d]]
    BY <1>6 DEF Line, addr
  <2>2. Averaged(addr, tag, humidity[d], nhSamples[d], timeHumidity[d])
    BY <1>2, <1>6 DEF SummedAt
  <2>3. Total(addr, tag) = humidity[d]
    BY <1>6, <2>2 DEF Total, Averaged
  <2>4. nhSamples[d] = Cardinality(Readings(addr, tag))
    BY <2>2 DEF Averaged
  <2>5. ASSUME Readings(addr, tag) = {} PROVE humidity[d] = 0
    <3>1. nhSamples[d] = 0
      BY <1>4, <2>4, <2>5
    <3> QED
      BY <1>3, <3>1
  <2> QED
    BY <2>1, <2>2, <2>3, <2>4, <2>5 DEF Averaged, addr
<1>7. CASE tag = "B"
  <2>1. l = [tag |-> tag, addr |-> addr, at |-> timeBattery[d],
             sum |-> battery[d], count |-> 1]
    BY <1>7 DEF Line, addr
  <2>2. LastOnly(addr, battery[d], timeBattery[d])
    BY <1>2 DEF SummedAt
  <2>3. Readings(addr, tag) # {} => Total(addr, tag) = battery[d]
    BY <1>7, <2>2 DEF Total, LastOnly
  <2> QED
    BY <1>7, <2>1, <2>2, <2>3 DEF LastOnly, addr
<1> QED
  BY <1>5, <1>6, <1>7

\* A later entry with the same address has nothing to print.
LEMMA RepeatedIsSilent ==
    ASSUME TypeOK, Summed, NEW tag \in {"T", "H", "B"}, NEW d \in Devs,
           ~First(d)
    PROVE  Line(tag, d).sum = 0
<1>1. argv[d] \in Words
  BY ArgvType DEF TypeOK, MainOK
<1>2. Nothing(d)
  BY <1>1 DEF Summed, SummedAt
<1>3. /\ Line("T", d).sum = temperature[d] /\ Line("H", d).sum = humidity[d]
      /\ Line("B", d).sum = battery[d]
  BY DEF Line
<1> QED
  BY <1>2, <1>3 DEF Nothing

LEMMA LinesAreAverages ==
    ASSUME IInv, Summed, PrintsLines PROVE OutputsAverage
<1> SUFFICES ASSUME NEW l \in out
             PROVE  /\ Readings(l.addr, l.tag) # {}
                    /\ l.at = LastReading(l.addr, l.tag).at
                    /\ l.sum = Total(l.addr, l.tag)
                    /\ l.tag # "B" =>
                           l.count = Cardinality(Readings(l.addr, l.tag))
  BY DEF OutputsAverage
<1>1. l \in Lines
  BY DEF PrintsLines
<1>2. PICK tag \in {"T", "H", "B"}, d \in Devs : l = Line(tag, d) /\ l.sum # 0
  BY <1>1 DEF Lines
<1>3. First(d)
  BY <1>2, RepeatedIsSilent DEF IInv
<1> QED
  BY <1>2, <1>3, LineMeasures

\* outputValues prints the average of what the sensors sent, as long as no read
\* fails and every report is as long as its type needs: for any command line,
\* any number of reports in any order, and whatever the clock and the user do.
THEOREM AveragesPrinted ==
    ASSUME MaxErrors = 0, WholeReports
    PROVE  Spec => []OutputsAverage
<1>1. IInv /\ SampleInv => OutputsAverage
  BY LinesAreAverages DEF SampleInv
<1> QED
  BY <1>1, Inductive, SamplesInductive, PTL

\* Under the same conditions a run that succeeds leaves out no value that a
\* sensor of the command line sent, not even when an address is given twice,
\* unless its readings add up to 0.
THEOREM EveryValuePrinted ==
    ASSUME MaxErrors = 0, WholeReports
    PROVE  Spec => []OutputsEveryValue
<1>1. IInv /\ SampleInv => OutputsEveryValue
  <2> SUFFICES ASSUME IInv, SampleInv, Completed,
                      NEW addr \in ToSet(argv), NEW tag \in {"T", "H", "B"},
                      Readings(addr, tag) # {}, Total(addr, tag) # 0
               PROVE  \E l \in out : l.tag = tag /\ l.addr = addr
    BY DEF OutputsEveryValue
  <2>1. PICK d \in Devs : First(d) /\ argv[d] = addr
    BY FirstExists DEF IInv
  <2>2. /\ Line(tag, d).tag = tag /\ Line(tag, d).addr = addr
        /\ Line(tag, d).sum # 0
    BY <2>1, LineMeasures DEF SampleInv
  <2>3. Line(tag, d) \in out
    BY <2>2 DEF Lines, SampleInv, PrintsAll
  <2> QED
    BY <2>2, <2>3
<1> QED
  BY <1>1, Inductive, SamplesInductive, PTL

----------------------------------------------------------------------------
(***************************************************************************)
(* Without -t a run ends only when it has heard enough                     *)
(***************************************************************************)

Satisfied ==
    (/\ maxTime <= 0
     /\ \/ pc = "done" /\ ~failed
        \/ pc \in {"disable", "output"}
        \/ Completed) => Enough \/ OtherEvent

LEMMA SatisfiedStep ==
    ASSUME IInv, Satisfied, [Next]_vars PROVE Satisfied'
<1> USE DEF Satisfied, Exit, GoTo, setupUnchanged, loopUnchanged, opts, sums
<1>0. Devs' = Devs /\ (pc # "exit" => ~Completed)
  BY DevsKept DEF IInv, Settled, Completed
<1>1. CASE ParseOptions
  BY <1>1 DEF ParseOptions, Completed, IInv, Prepared
<1>2. CASE OpenDevice \/ ClearWhiteList \/ AddWhiteList \/ SetScanParameters
  BY <1>2 DEF OpenDevice, ClearWhiteList, AddWhiteList, SetScanParameters,
              Command, Completed, IInv, Settled
<1>3. CASE EnableScan \/ StartScan
  BY <1>3 DEF EnableScan, StartScan, Command, Completed, IInv, Settled
<1>4. CASE Top \/ SelectReady \/ SelectTimeout \/ Read \/ ReadError
  BY <1>4 DEF Top, SelectReady, SelectTimeout, Read, ReadError, Completed, IInv,
              Settled, TypeOK, MainOK
<1>5. CASE Update
  <2>1. code' = code /\ buf' = buf /\ pc = "update"
    BY <1>5 DEF Update
  <2>2. \/ pc' = "check"
        \/ pc' = "done" /\ buf[1].sub # LE_ADVERTISING_REPORT
    BY <1>5 DEF Update
  <2>3. ~Completed'
    BY <2>1 DEF Completed, IInv, Settled
  <2>4. pc' = "done" => OtherEvent'
    BY <2>1, <2>2 DEF OtherEvent, IInv, TypeOK, BufferOK
  <2> QED
    BY <2>2, <2>3, <2>4
<1>6. CASE Check
  <2>1. pc' = "done" /\ maxTime <= 0 => Enough
    BY <1>6 DEF Check, IInv, TypeOK, MainOK
  <2>2. Enough' = Enough /\ ~Completed' /\ pc' \in {"done", "top"}
        /\ maxTime' = maxTime /\ OtherEvent' = OtherEvent
    BY <1>0, <1>6 DEF Check, OtherEvent, Enough, Completed, IInv, Settled
  <2> QED
    BY <2>1, <2>2
<1>7. CASE Done \/ DisableScan \/ outputValues
  <2>1. Enough' = Enough /\ maxTime' = maxTime /\ OtherEvent' = OtherEvent
    BY <1>0, <1>7 DEF Done, DisableScan, outputValues, Command, Enough, OtherEvent
  <2> QED
    BY <1>7, <2>1 DEF Done, DisableScan, outputValues, Command, Completed, IInv,
                      Settled
<1>8. CASE Interrupt
  <2>1. /\ UNCHANGED <<opts, sums, i, buf>>
        /\ \/ pc' = "exit" /\ code' = 130
           \/ pc' = "done" /\ failed'  /\ code' = code /\ pc # "exit"
           \/ UNCHANGED <<pc, code, failed>>
    BY <1>8, Zenon DEF Interrupt, GoTo, Exit
  <2>2. Enough' = Enough /\ maxTime' = maxTime /\ OtherEvent' = OtherEvent
    BY <1>0, <2>1 DEF Enough, OtherEvent
  <2> QED
    BY <2>1, <2>2 DEF Completed, IInv, Settled
<1>9. CASE Tick \/ StepBack \/ Receive \/ UNCHANGED vars
  <2>1. UNCHANGED <<opts, sums, pc, code, i, failed, buf>>
    BY <1>9 DEF Tick, StepBack, Receive, proc, vars
  <2> QED
    BY <1>0, <2>1 DEF Enough, Completed, OtherEvent
<1> QED
  BY <1>1, <1>2, <1>3, <1>4, <1>5, <1>6, <1>7, <1>8, <1>9, [Next]_vars
     DEF Next, Process, Waiting, Terminated

\* "stops after num samples": a run without -t that succeeds has heard every
\* sensor of the command line as often as it was asked to
\* (print_advertising_devices), as long as no read fails, unless an event other
\* than an advertising report has ended its scan.
THEOREM SamplesAwaited ==
    ASSUME MaxErrors = 0, WholeReports
    PROVE  Spec => []StopsOnlyAfterSamples
<1>1. Init => Satisfied
  BY DEF Init, Satisfied, Completed
<1>2. IInv /\ Satisfied /\ [Next]_vars => Satisfied'
  BY SatisfiedStep
<1>3. IInv /\ SampleInv /\ Satisfied => StopsOnlyAfterSamples
  <2> SUFFICES ASSUME IInv, SampleInv, Satisfied, Completed, maxTime <= 0,
                      ~OtherEvent
               PROVE  HeardEnough
    BY DEF StopsOnlyAfterSamples
  <2>1. argv # <<>>
    <3>1. nDevs \in Nat /\ i \in 1 .. nDevs + 1 /\ i > 1
      BY ArgvType DEF IInv, TypeOK, MainOK, Completed
    <3>2. nDevs # 0
      BY <3>1
    <3> QED
      BY <3>2 DEF nDevs
  <2>2. Enough
    BY DEF Satisfied
  <2>3. ASSUME NEW addr \in ToSet(argv), NEW tag \in {"T", "H"}
        PROVE  Cardinality(Readings(addr, tag)) >= numSamples
    <3>1. PICK d \in Devs : First(d) /\ argv[d] = addr /\ addr \in Words
      BY FirstExists DEF IInv
    <3>2. SummedAt(d, addr)
      BY <3>1 DEF SampleInv, Summed
    <3> QED
      BY <2>2, <3>1, <3>2 DEF SummedAt, Averaged, Enough
  <2> QED
    BY <2>1, <2>3 DEF HeardEnough
<1> QED
  BY <1>1, <1>2, <1>3, Inductive, SamplesInductive, PTL DEF Spec
=============================================================================
