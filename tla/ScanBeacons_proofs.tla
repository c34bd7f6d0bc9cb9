------------------------- MODULE ScanBeacons_proofs --------------------------
(***************************************************************************)
(* Proofs about a run of scanBeacons or lescan as modelled by ScanBeacons  *)
(* and Lescan.  What the lemmas of ScanMijia_proofs say of a step holds of *)
(* the steps these programs share with scanMijia.                          *)
(***************************************************************************)
EXTENDS Lescan, Summing_proofs, TLAPS

S == INSTANCE ScanMijia_proofs

LEMMA Constants ==
    /\ S!ArgvsAssumption /\ S!OptionsAssumption /\ S!ReportsAssumption
    /\ S!BytesAssumption /\ S!BoundsAssumption
  BY ScanAssumption DEF S!Words, Scan!Words, S!ToSet, Scan!ToSet, S!Byte,
                        Scan!Byte, S!LEMetaEvents, Scan!LEMetaEvents

----------------------------------------------------------------------------
(***************************************************************************)
(* The layout of an event                                                  *)
(***************************************************************************)

LEMMA ReportsOf ==
    ASSUME NEW ev \in Events
    PROVE  /\ ev \in Seq(Reports) /\ Len(ev) \in Nat /\ Len(ev) > 0
           /\ DOMAIN ev = 1 .. Len(ev)
           /\ \A n \in 1 .. Len(ev) : ev[n] \in Reports /\ Size(ev[n]) \in Nat
<1>1. ev \in Seq(Reports) /\ ev # <<>>
  BY EventsAssumption
<1>2. \A r \in Reports : Size(r) \in Nat
  BY ScanAssumption DEF Scan!LEMetaEvents, Size
<1> QED
  BY <1>1, <1>2

LEMMA SizesAreNat ==
    ASSUME NEW ev \in Events, NEW n \in 0 .. Len(ev)
    PROVE  SizeOfFirst(n, ev) \in Nat
<1> DEFINE sizes == [m \in 1 .. n |-> Size(ev[m])]
<1>1. n \in Nat /\ \A m \in 1 .. n : Size(ev[m]) \in Nat
  BY ReportsOf
<1>2. sizes \in Seq(Nat)
  BY <1>1
<1> HIDE DEF sizes
<1>3. SumOf(sizes) \in Nat
  BY <1>2, SumOfNat
<1> QED
  BY <1>3 DEF SizeOfFirst, sizes

LEMMA NoSize == \A ev : SizeOfFirst(0, ev) = 0
<1> SUFFICES ASSUME NEW ev PROVE SizeOfFirst(0, ev) = 0
  OBVIOUS
<1>1. [m \in 1 .. 0 |-> Size(ev[m])] = <<>>
  OBVIOUS
<1> QED
  BY <1>1, SumOfNothing DEF SizeOfFirst

LEMMA EndIsNat ==
    ASSUME NEW ev \in Events \cup {<<>>} PROVE End(ev) \in Nat
<1>1. CASE ev \in Events
  BY <1>1, SizesAreNat, ReportsOf DEF End
<1>2. CASE ev = <<>>
  BY <1>2, NoSize DEF End
<1> QED
  BY <1>1, <1>2

\* The first report begins where the event does, and no other one does.
LEMMA FirstStart ==
    ASSUME NEW ev \in Events PROVE ev[1] \in InfoAt(ev, 0)
<1>1. 1 \in DOMAIN ev /\ Starts(ev)[1] = 0
  BY ReportsOf, NoSize DEF Starts
<1> QED
  BY <1>1 DEF InfoAt

LEMMA OnlyOne ==
    ASSUME NEW ev \in Events, Len(ev) <= 1 PROVE Len(ev) = 1
<1>1. \A n \in Nat : n > 0 /\ n <= 1 => n = 1
  OBVIOUS
<1> QED
  BY <1>1, ReportsOf

LEMMA OneReport ==
    ASSUME NEW ev \in Events, Len(ev) = 1 PROVE InfoAt(ev, 0) = {ev[1]}
<1>1. DOMAIN ev = {1}
  BY ReportsOf
<1> QED
  BY <1>1, FirstStart DEF InfoAt

----------------------------------------------------------------------------
(***************************************************************************)
(* The loops over the events and over the reports of an event              *)
(***************************************************************************)

LoopInv ==
    /\ event \in Events \cup {<<>>} /\ events \in Seq(Events)
    /\ ptr \in 0 .. End(event) + 1
    /\ rep \in 0 .. Scan!nDevs + 1
    /\ pc = "read" => events # <<>>
    /\ pc = "update" => event # <<>> /\ rep < Len(event) /\ (rep = 0 => ptr = 0)

LEMMA QueueOfEvents ==
    ASSUME events \in Seq(Events)
    PROVE  /\ queue \in Seq(Reports) /\ Len(queue) = Len(events)
           /\ queue = <<>> <=> events = <<>>
           /\ \A n \in 1 .. Len(events) : queue[n] = events[n][1]
<1>1. Len(events) \in Nat /\ DOMAIN events = 1 .. Len(events)
      /\ \A n \in 1 .. Len(events) : events[n] \in Events
  OBVIOUS
<1>2. queue = [n \in 1 .. Len(events) |-> events[n][1]]
  BY <1>1 DEF queue
<1>3. \A n \in 1 .. Len(events) : events[n][1] \in Reports
  BY <1>1, ReportsOf
<1>4. queue \in Seq(Reports) /\ Len(queue) = Len(events)
      /\ \A n \in 1 .. Len(events) : queue[n] = events[n][1]
  BY <1>1, <1>2, <1>3
<1>5. queue = <<>> <=> events = <<>>
  <2>1. queue = <<>> <=> Len(queue) = 0
    BY <1>4
  <2>2. events = <<>> <=> Len(events) = 0
    OBVIOUS
  <2> QED
    BY <1>4, <2>1, <2>2
<1> QED
  BY <1>4, <1>5

\* What ScanMijia takes for its buffer and its queue.
LEMMA BufferOfEvent == LoopInv => S!BufferOK
<1> SUFFICES ASSUME LoopInv PROVE S!BufferOK
  OBVIOUS
<1>1. CASE event = <<>>
  <2>1. buf = <<>> /\ pc # "update"
    BY <1>1 DEF buf, LoopInv
  <2> QED
    BY <2>1, QueueOfEvents DEF LoopInv, S!BufferOK
<1>2. CASE event \in Events /\ event # <<>>
  <2>1. buf = <<event[1]>> /\ event[1] \in Reports
    BY <1>2, ReportsOf DEF buf
  <2> QED
    BY <2>1, QueueOfEvents DEF LoopInv, S!BufferOK
<1> QED
  BY <1>1, <1>2 DEF LoopInv

\* The steps of main and of select move on to a read only with an event there,
\* and never into the loop over the reports.
SharedStep ==
    \/ Scan!ParseOptions \/ Scan!OpenDevice \/ Scan!ClearWhiteList
    \/ Scan!AddWhiteList \/ Scan!SetScanParameters \/ Scan!EnableScan
    \/ Scan!StartScan \/ Scan!Top \/ Scan!SelectReady \/ Scan!SelectTimeout
    \/ Scan!Check \/ Scan!Done \/ Scan!DisableScan \/ Scan!outputValues
    \/ Scan!Interrupt \/ Scan!Tick \/ Scan!StepBack
    \/ Scan!Waiting \/ Scan!Terminated

LEMMA SharedMoves ==
    ASSUME SharedStep
    PROVE  /\ UNCHANGED <<argv, log, arrived, errors>>
           /\ pc' = "read" => pc = "read" \/ queue # <<>>
           /\ pc' = "update" => pc = "update"
           /\ \/ pc' \in {"options", "exit"}
              \/ pc \notin {"options", "exit"} \/ argv # <<>>
<1> USE DEF Scan!GoTo, Scan!Exit, Scan!setupUnchanged, Scan!loopUnchanged,
            Scan!opts, Scan!world
<1>1. CASE Scan!ParseOptions \/ Scan!OpenDevice
  BY <1>1 DEF Scan!ParseOptions, Scan!OpenDevice
<1>2. CASE Scan!ClearWhiteList \/ Scan!AddWhiteList \/ Scan!SetScanParameters
           \/ Scan!EnableScan
  BY <1>2 DEF Scan!ClearWhiteList, Scan!AddWhiteList, Scan!SetScanParameters,
              Scan!EnableScan, Scan!Command
<1>3. CASE Scan!StartScan \/ Scan!Top \/ Scan!SelectReady \/ Scan!SelectTimeout
  BY <1>3 DEF Scan!StartScan, Scan!Top, Scan!SelectReady, Scan!SelectTimeout
<1>4. CASE Scan!Check \/ Scan!Done \/ Scan!DisableScan \/ Scan!outputValues
  BY <1>4 DEF Scan!Check, Scan!Done, Scan!DisableScan, Scan!outputValues,
              Scan!Command
<1>5. CASE Scan!Interrupt
  <2>1. /\ UNCHANGED <<argv, log, arrived, errors>>
        /\ \/ pc' = "exit" \/ pc' = pc
           \/ pc' = "done" /\ pc = "select"
    BY <1>5, Zenon DEF Scan!Interrupt
  <2> QED
    BY <2>1
<1>6. CASE Scan!Tick \/ Scan!StepBack \/ Scan!Waiting \/ Scan!Terminated
  BY <1>6 DEF Scan!Tick, Scan!StepBack, Scan!Waiting, Scan!Terminated, Scan!proc,
              Scan!vars
<1> QED
  BY <1>1, <1>2, <1>3, <1>4, <1>5, <1>6 DEF SharedStep

LEMMA StepKinds ==
    ASSUME [ToolsNext]_toolVars
    PROVE  \/ UNCHANGED loopVars /\ SharedStep
           \/ Read \/ ReadError \/ IgnoreEvent \/ EvaluateReport
           \/ UNCHANGED loopVars /\ tool = "lescan" /\ noOutput
           \/ Receive
           \/ UNCHANGED vars
  BY DEF ToolsNext, ToolsProcess, Process, LescanProcess, main,
         print_advertising_devices, MainUpToScan, MainAfterScan, StartScan, Top,
         CheckAndDone, outputValues, noOutput, Outside, Idle, SharedStep,
         toolVars

LEMMA ProgressInEvent ==
    ASSUME LoopInv, Scan!nDevs \in Nat, EvaluateReport
    PROVE  /\ ptr' \in 0 .. End(event) + 1
           /\ rep' \in 1 .. Scan!nDevs + 1
<1> DEFINE n == Scan!nDevs
           last == End(event)
<1>0. last \in Nat /\ ptr \in 0 .. last + 1
  BY EndIsNat DEF LoopInv
<1>1. ASSUME NEW length \in Nat
      PROVE  Advance(ptr, length) \in 0 .. last + 1
  BY <1>0 DEF Advance
<1>2. CASE \E r \in InfoAt(event, ptr) :
              /\ rep' = NextRep(FirstMatch(r), Scan!Matches(r.addr) # {})
              /\ ptr' = Advance(ptr, r.length)
  <2>1. PICK r \in InfoAt(event, ptr) :
              /\ rep' = NextRep(FirstMatch(r), Scan!Matches(r.addr) # {})
              /\ ptr' = Advance(ptr, r.length)
    BY <1>2
  <2>2. r \in Reports /\ r.length \in Nat
    <3>1. r \in Reports
      BY ReportsOf DEF InfoAt, LoopInv
    <3> QED
      BY <3>1, ScanAssumption DEF Scan!LEMetaEvents
  <2>3. CASE Scan!Matches(r.addr) # {}
    <3>1. FirstMatch(r) \in Scan!Matches(r.addr)
      BY <2>3 DEF FirstMatch
    <3>2. FirstMatch(r) \in 1 .. n
      BY <3>1 DEF Scan!Matches, Scan!Devs
    <3> QED
      BY <1>1, <2>1, <2>2, <2>3, <3>2 DEF NextRep
  <2>4. CASE Scan!Matches(r.addr) = {}
    BY <1>1, <2>1, <2>2, <2>4 DEF NextRep
  <2> QED
    BY <2>3, <2>4
<1>3. CASE \E length \in Bytes : /\ rep' = NextRep(0, FALSE)
                                 /\ ptr' = Advance(ptr, length)
  <2>1. Bytes \subseteq Nat
    BY ScanAssumption DEF Scan!Byte
  <2> QED
    BY <1>1, <1>3, <2>1 DEF NextRep
<1> QED
  BY <1>2, <1>3 DEF EvaluateReport

LEMMA LoopStep ==
    ASSUME LoopInv, Scan!nDevs \in Nat, [ToolsNext]_toolVars PROVE LoopInv'
<1>0. Len(event) \in Nat
  BY ReportsOf DEF LoopInv
<1>1. CASE UNCHANGED loopVars /\ SharedStep
  <2>1. Scan!nDevs' = Scan!nDevs /\ End(event)' = End(event)
    BY <1>1, SharedMoves DEF Scan!nDevs, loopVars
  <2> QED
    BY <1>1, <2>1, SharedMoves, QueueOfEvents DEF LoopInv, loopVars
<1>2. CASE Read
  <2>1. /\ event' \in Events /\ events' \in Seq(Events)
        /\ ptr' = 0 /\ rep' = 0 /\ pc' = "update" /\ argv' = argv
    BY <1>2 DEF Read, LoopInv, Scan!Read, Scan!GoTo, Scan!loopUnchanged, Scan!opts
  <2>2. End(event') \in Nat /\ Len(event') > 0 /\ event' # <<>>
    BY <2>1, EndIsNat, ReportsOf
  <2>3. Scan!nDevs' = Scan!nDevs /\ End(event)' = End(event')
    BY <2>1 DEF Scan!nDevs, End, SizeOfFirst
  <2> QED
    BY <2>1, <2>2, <2>3 DEF LoopInv
<1>3. CASE ReadError \/ IgnoreEvent \/ (UNCHANGED loopVars /\ noOutput)
  <2>1. /\ UNCHANGED <<event, events, ptr, rep, argv>>
        /\ pc' # "update" /\ pc' # "read"
    BY <1>3 DEF ReadError, IgnoreEvent, noOutput, Scan!GoTo, Scan!Exit, loopVars,
                loopUnchanged, mainVars
  <2>2. Scan!nDevs' = Scan!nDevs /\ End(event)' = End(event)
    BY <2>1 DEF Scan!nDevs
  <2> QED
    BY <2>1, <2>2 DEF LoopInv
<1>4. CASE EvaluateReport
  <2>1. /\ UNCHANGED <<event, events, argv>> /\ pc = "update"
        /\ pc' \in {"update", "check"}
        /\ pc' = "update" => rep' < Len(event)
    BY <1>4 DEF EvaluateReport, Leave, Scan!GoTo, loopUnchanged, mainVars
  <2>2. Scan!nDevs' = Scan!nDevs /\ End(event)' = End(event)
    BY <2>1 DEF Scan!nDevs
  <2>3. ptr' \in 0 .. End(event) + 1 /\ rep' \in 1 .. Scan!nDevs + 1
    BY <1>4, ProgressInEvent
  <2> QED
    BY <2>1, <2>2, <2>3 DEF LoopInv
<1>5. CASE Receive
  <2>1. UNCHANGED <<event, ptr, rep, argv, pc>>
    BY <1>5 DEF Receive, mainVars
  <2>2. Scan!nDevs' = Scan!nDevs /\ End(event)' = End(event)
    BY <2>1 DEF Scan!nDevs
  <2>3. events' \in Seq(Events) /\ (events # <<>> => events' # <<>>)
    <3>1. PICK e \in Events : events' = events \/ events' = Append(events, e)
      BY <1>5 DEF Receive
    <3> QED
      BY <3>1 DEF LoopInv
  <2> QED
    BY <2>1, <2>2, <2>3 DEF LoopInv
<1>6. CASE UNCHANGED vars
  <2>1. UNCHANGED <<event, events, ptr, rep, argv, pc>>
    BY <1>6 DEF vars, loopVars, mainVars
  <2>2. Scan!nDevs' = Scan!nDevs /\ End(event)' = End(event)
    BY <2>1 DEF Scan!nDevs
  <2> QED
    BY <2>1, <2>2 DEF LoopInv
<1> QED
  BY <1>1, <1>2, <1>3, <1>4, <1>5, <1>6, StepKinds

----------------------------------------------------------------------------
(***************************************************************************)
(* Which steps scanMijia may take as well                                  *)
(***************************************************************************)

\* An event that arrives is a report of it that arrives.
LEMMA ReceiveShared ==
    ASSUME events \in Seq(Events), Receive PROVE Scan!Receive
<1>1. PICK e \in Events :
          /\ \A n \in DOMAIN e :
                e[n].sub = Scan!LE_ADVERTISING_REPORT =>
                    scanning /\ e[n].addr \in whitelist
          /\ events' = IF Len(events) < MaxQueue THEN Append(events, e) ELSE events
  BY DEF Receive
<1> DEFINE r == e[1]
<1>2. r \in Reports /\ 1 \in DOMAIN e
  BY ReportsOf
<1>3. r.sub = Scan!LE_ADVERTISING_REPORT => scanning /\ r.addr \in whitelist
  BY <1>1, <1>2
<1>4. /\ queue \in Seq(Reports) /\ Len(queue) = Len(events)
      /\ \A n \in 1 .. Len(events) : queue[n] = events[n][1]
  BY QueueOfEvents
<1>5. CASE Len(events) < MaxQueue
  <2>1. events' = Append(events, e) /\ Len(events) \in Nat
    BY <1>1, <1>5
  <2>2. queue' = [n \in DOMAIN events' |-> events'[n][1]]
    BY DEF queue
  <2>3. /\ DOMAIN events' = 1 .. Len(events) + 1
        /\ events'[Len(events) + 1] = e
        /\ \A n \in 1 .. Len(events) : events'[n] = events[n]
    BY <2>1
  <2> DEFINE q == Append(queue, r)
  <2>4. /\ q \in Seq(Reports) /\ Len(q) = Len(events) + 1
        /\ q[Len(events) + 1] = r
        /\ \A n \in 1 .. Len(events) : q[n] = queue[n]
    BY <1>2, <1>4, <2>1
  <2> HIDE DEF q, queue
  <2>5. q = [n \in 1 .. Len(events) + 1 |-> q[n]]
    BY <2>4
  <2>6. \A n \in 1 .. Len(events) + 1 : q[n] = events'[n][1]
    BY <1>4, <2>1, <2>3, <2>4
  <2>7. queue' = q
    BY <2>2, <2>3, <2>5, <2>6
  <2>8. queue' = IF Len(queue) < MaxQueue THEN Append(queue, r) ELSE queue
    BY <1>4, <1>5, <2>7 DEF q
  <2> QED
    BY <1>2, <1>3, <2>8 DEF Receive, Scan!Receive, Scan!proc, Scan!ctrl, Scan!opts,
                            Scan!sums, Scan!times, mainVars, sums, buf
<1>6. CASE ~(Len(events) < MaxQueue)
  <2>1. queue' = queue
    BY <1>1, <1>6 DEF queue
  <2>2. queue' = IF Len(queue) < MaxQueue THEN Append(queue, r) ELSE queue
    BY <1>4, <1>6, <2>1
  <2> QED
    BY <1>2, <1>3, <2>2 DEF Receive, Scan!Receive, Scan!proc, Scan!ctrl, Scan!opts,
                            Scan!sums, Scan!times, mainVars, sums, buf
<1> QED
  BY <1>5, <1>6

LEMMA LoopVarsKept ==
    ASSUME UNCHANGED loopVars PROVE UNCHANGED <<buf, queue>>
  BY DEF loopVars, buf, queue

LEMMA SharedSteps ==
    ASSUME LoopInv,
           \/ UNCHANGED loopVars /\ SharedStep
           \/ Read \/ IgnoreEvent \/ Receive \/ UNCHANGED vars
    PROVE  /\ Scan!Next \/ UNCHANGED Scan!vars
           /\ errors' = errors
<1>1. CASE UNCHANGED loopVars /\ SharedStep
  BY <1>1, SharedMoves DEF SharedStep, Scan!Next, Scan!Process
<1>2. CASE Read
  BY <1>2 DEF Read, Scan!Next, Scan!Process, Scan!Read, Scan!world
<1>3. CASE IgnoreEvent
  <2>1. buf[1] = event[1]
    BY <1>3 DEF IgnoreEvent, LoopInv, buf
  <2>2. UNCHANGED <<buf, queue>>
    BY <1>3 DEF IgnoreEvent, loopUnchanged, buf, queue
  <2>3. Scan!Update
    BY <1>3, <2>1, <2>2 DEF IgnoreEvent, loopUnchanged, sums, mainVars, Scan!Update,
                            Scan!sums, Scan!times, Scan!loopUnchanged, Scan!opts,
                            Scan!ctrl, Scan!world
  <2> QED
    BY <1>3, <2>3 DEF Scan!Next, Scan!Process, IgnoreEvent, loopUnchanged
<1>4. CASE Receive
  BY <1>4, ReceiveShared DEF LoopInv, Scan!Next, Receive
<1>5. CASE UNCHANGED vars
  BY <1>5, LoopVarsKept DEF vars, Scan!vars, Scan!proc, Scan!ctrl, Scan!opts,
                            Scan!sums, Scan!times, Scan!world, mainVars, sums
<1> QED
  BY <1>1, <1>2, <1>3, <1>4, <1>5

\* With one report in the event, the loop over the reports is over after it.
LEMMA EvaluateOneReport ==
    ASSUME LoopInv, Scan!nDevs \in Nat, Len(event) = 1, EvaluateReport
    PROVE  Scan!Update
<1>1. event \in Events /\ pc = "update" /\ rep = 0 /\ ptr = 0
  BY DEF LoopInv, EvaluateReport
<1>2. InfoAt(event, ptr) = {event[1]}
  BY <1>1, OneReport
<1>3. buf[1] = event[1] /\ UNCHANGED <<buf, queue>>
  BY <1>1 DEF buf, queue, EvaluateReport, loopUnchanged
<1>4. rep' >= 1 /\ rep' \in Int
  BY ProgressInEvent
<1>5. Scan!GoTo("check")
  BY <1>4 DEF EvaluateReport, Leave
<1> DEFINE r == event[1]
<1>6. IF Scan!Matches(r.addr) # {}
      THEN /\ Scan!update_data(FirstMatch(r), r)
           /\ log' = Append(log, [report |-> r, at |-> Scan!wall, real |-> now,
                                  stale |-> failed])
      ELSE UNCHANGED sums
  BY <1>2 DEF EvaluateReport
<1>7. Scan!Matches(r.addr) # {} => FirstMatch(r) \in Scan!Matches(r.addr)
  BY DEF FirstMatch
<1> QED
  BY <1>1, <1>3, <1>5, <1>6, <1>7
     DEF EvaluateReport, loopUnchanged, sums, mainVars, Scan!Update, Scan!sums,
         Scan!times, Scan!loopUnchanged, Scan!opts, Scan!ctrl, Scan!world

----------------------------------------------------------------------------
(***************************************************************************)
(* The lemmas of ScanMijia_proofs speak of their own copy of ScanMijia     *)
(***************************************************************************)

LEMMA SameNext == S!Next <=> Scan!Next
  BY DEF S!Byte, S!Limit, S!nDevs, S!Devs, S!wall, S!Unset, S!sums,
         S!times, S!opts, S!proc, S!ctrl, S!world, S!vars, S!Exit, S!GoTo,
         S!Given, S!Valid, S!ParseOptions, S!setupUnchanged, S!OpenDevice,
         S!Command, S!ClearWhiteList, S!AddWhiteList, S!SetScanParameters,
         S!EnableScan, S!StartScan, S!Top, S!loopUnchanged, S!SelectReady,
         S!SelectTimeout, S!Read, S!ReadError, S!Matches, S!Data,
         S!getVal16, S!Add, S!AddTemperature, S!AddHumidity, S!SetBattery,
         S!temperatureVars, S!humidityVars, S!batteryVars, S!Recognised,
         S!update_data, S!Update, S!Enough, S!Check, S!Done, S!DisableScan,
         S!Line, S!Lines, S!outputValues, S!Started, S!Interrupt, S!Tick,
         S!StepBack, S!Listening, S!Receive, S!Process, S!Waiting,
         S!Terminated, S!Next, S!LE_ADVERTISING_REPORT, Scan!Byte,
         Scan!Limit, Scan!nDevs, Scan!Devs, Scan!wall, Scan!Unset,
         Scan!sums, Scan!times, Scan!opts, Scan!proc, Scan!ctrl,
         Scan!world, Scan!vars, Scan!Exit, Scan!GoTo, Scan!Given,
         Scan!Valid, Scan!ParseOptions, Scan!setupUnchanged,
         Scan!OpenDevice, Scan!Command, Scan!ClearWhiteList,
         Scan!AddWhiteList, Scan!SetScanParameters, Scan!EnableScan,
         Scan!StartScan, Scan!Top, Scan!loopUnchanged, Scan!SelectReady,
         Scan!SelectTimeout, Scan!Read, Scan!ReadError, Scan!Matches,
         Scan!Data, Scan!getVal16, Scan!Add, Scan!AddTemperature,
         Scan!AddHumidity, Scan!SetBattery, Scan!temperatureVars,
         Scan!humidityVars, Scan!batteryVars, Scan!Recognised,
         Scan!update_data, Scan!Update, Scan!Enough, Scan!Check, Scan!Done,
         Scan!DisableScan, Scan!Line, Scan!Lines, Scan!outputValues,
         Scan!Started, Scan!Interrupt, Scan!Tick, Scan!StepBack,
         Scan!Listening, Scan!Receive, Scan!Process, Scan!Waiting,
         Scan!Terminated, Scan!Next, Scan!LE_ADVERTISING_REPORT

LEMMA SameVars == UNCHANGED S!vars <=> UNCHANGED Scan!vars
  BY DEF S!vars, S!proc, S!opts, S!sums, S!times, S!ctrl, S!world,
         Scan!vars, Scan!proc, Scan!opts, Scan!sums, Scan!times, Scan!ctrl,
         Scan!world

LEMMA SameInit == S!Init <=> Scan!Init
  BY DEF S!Init, S!nDevs, S!Devs, S!Unset, Scan!Init, Scan!nDevs,
         Scan!Devs, Scan!Unset

LEMMA SameUpdate ==
    ASSUME NEW d, NEW r
    PROVE  S!update_data(d, r) <=> Scan!update_data(d, r)
  BY DEF S!update_data, S!Recognised, S!Data, S!getVal16, S!Add,
         S!AddTemperature, S!AddHumidity, S!SetBattery, S!temperatureVars,
         S!humidityVars, S!batteryVars, S!sums, S!times, S!wall,
         Scan!update_data, Scan!Recognised, Scan!Data, Scan!getVal16,
         Scan!Add, Scan!AddTemperature, Scan!AddHumidity, Scan!SetBattery,
         Scan!temperatureVars, Scan!humidityVars, Scan!batteryVars,
         Scan!sums, Scan!times, Scan!wall

LEMMA SameNames ==
    /\ S!nDevs = Scan!nDevs /\ S!Devs = Scan!Devs /\ S!wall = Scan!wall
    /\ S!LE_ADVERTISING_REPORT = Scan!LE_ADVERTISING_REPORT
    /\ \A addr : S!Matches(addr) = Scan!Matches(addr)
  BY DEF S!nDevs, S!Devs, S!wall, S!LE_ADVERTISING_REPORT, S!Matches,
         Scan!nDevs, Scan!Devs, Scan!wall, Scan!LE_ADVERTISING_REPORT,
         Scan!Matches

LEMMA SameTypes ==
    /\ S!MainOK <=> Scan!MainOK
    /\ S!SumsOK <=> Scan!SumsOK
    /\ S!WorldOK <=> Scan!WorldOK
  BY DEF S!MainOK, S!SumsOK, S!WorldOK, S!Limit, S!Byte, S!nDevs, S!Devs,
         Scan!MainOK, Scan!SumsOK, Scan!WorldOK, Scan!Limit, Scan!Byte,
         Scan!nDevs, Scan!Devs

LEMMA SameOutput == S!OutputsAverage <=> Scan!OutputsAverage
<1>1. \A r, tag : /\ S!Carries(r, tag) <=> Scan!Carries(r, tag)
                  /\ S!Value(r, tag) = Scan!Value(r, tag)
  BY DEF S!Carries, Scan!Carries, S!Recognised, Scan!Recognised, S!Value,
         Scan!Value
<1>2. \A addr, tag : S!Readings(addr, tag) = Scan!Readings(addr, tag)
  BY <1>1 DEF S!Readings, Scan!Readings
<1>3. \A addr, tag : S!Values(addr, tag) = Scan!Values(addr, tag)
  BY <1>1, <1>2 DEF S!Values, Scan!Values
<1>4. \A s : S!SumOf(s) = Scan!SumOf(s)
  BY DEF S!SumOf, Scan!SumOf
<1>5. \A T : S!Max(T) = Scan!Max(T)
  BY DEF S!Max, Scan!Max
<1>6. \A T : S!Cardinality(T) = Scan!Cardinality(T)
  BY DEF S!Cardinality, Scan!Cardinality
<1>7. \A addr, tag : S!LastReading(addr, tag) = Scan!LastReading(addr, tag)
  BY <1>2, <1>5 DEF S!LastReading, Scan!LastReading
<1>8. \A addr, tag : S!Total(addr, tag) = Scan!Total(addr, tag)
  BY <1>1, <1>3, <1>4, <1>7 DEF S!Total, Scan!Total
<1> QED
  BY <1>2, <1>6, <1>7, <1>8 DEF S!OutputsAverage, Scan!OutputsAverage

----------------------------------------------------------------------------
(***************************************************************************)
(* The inductive invariant of scanMijia holds of the two programs          *)
(***************************************************************************)

ToolsInv == S!IInv /\ LoopInv

LEMMA CountOfDevices == S!MainOK => Scan!nDevs \in Nat /\ S!nDevs \in Nat
  BY Constants, S!ArgvType, SameNames DEF S!MainOK

LEMMA InitOfTools == Init => Scan!Init /\ ToolsInv
<1> SUFFICES ASSUME Init PROVE Scan!Init /\ ToolsInv
  OBVIOUS
<1>1. Scan!Init /\ S!Init
  BY SameInit DEF Init
<1>2. S!IInv
  BY <1>1, Constants, S!InitInductive
<1>3. Scan!nDevs \in Nat
  BY <1>2, CountOfDevices DEF S!IInv, S!TypeOK
<1>4. End(event) = 0
  BY NoSize DEF Init, End
<1>5. LoopInv
  BY <1>1, <1>3, <1>4 DEF Init, LoopInv, Scan!Init
<1> QED
  BY <1>1, <1>2, <1>5 DEF ToolsInv

\* What EvaluateReport does is to call update_data, or not.
LEMMA EvaluateKinds ==
    ASSUME LoopInv, EvaluateReport
    PROVE  /\ pc = "update" /\ pc' \in {"update", "check"} /\ code' = code
           /\ UNCHANGED loopUnchanged
           /\ \/ UNCHANGED sums
              \/ \E r \in Reports : \E d \in S!Matches(r.addr) :
                    /\ r \in InfoAt(event, ptr)
                    /\ S!update_data(d, r)
                    /\ log' = Append(log, [report |-> r, at |-> S!wall,
                                           real |-> now, stale |-> failed])
<1>1. /\ pc = "update" /\ pc' \in {"update", "check"} /\ code' = code
      /\ UNCHANGED loopUnchanged
  BY DEF EvaluateReport, Leave, Scan!GoTo
<1>2. CASE UNCHANGED sums
  BY <1>1, <1>2
<1>3. CASE ~ UNCHANGED sums
  <2>1. PICK r \in InfoAt(event, ptr) :
            /\ Scan!Matches(r.addr) # {}
            /\ Scan!update_data(FirstMatch(r), r)
            /\ log' = Append(log, [report |-> r, at |-> Scan!wall,
                                   real |-> now, stale |-> failed])
    BY <1>3 DEF EvaluateReport
  <2>2. r \in Reports
    <3>1. event \in Seq(Reports)
      BY <1>1, ReportsOf DEF LoopInv
    <3> QED
      BY <3>1 DEF InfoAt
  <2>3. FirstMatch(r) \in S!Matches(r.addr)
    BY <2>1, SameNames DEF FirstMatch
  <2>4. S!update_data(FirstMatch(r), r) /\ S!wall = Scan!wall
    BY <2>1, SameUpdate, SameNames
  <2> QED
    BY <1>1, <2>1, <2>2, <2>3, <2>4
<1> QED
  BY <1>2, <1>3

\* A step that only moves on inside the loops leaves the sums to be looked at.
LEMMA InvByParts ==
    ASSUME S!IInv, LoopInv',
           UNCHANGED <<mainVars, now, setBack, arrived, signals>>,
           S!SumsOK', S!Measured', errors' \in 0 .. MaxErrors,
           failed' \in BOOLEAN, code' = code,
           \/ pc = "update" /\ pc' \in {"update", "check"} /\ failed' = failed
           \/ pc = "read" /\ pc' = "done"
    PROVE  S!IInv'
<1> USE DEF mainVars
<1>0. S!nDevs' = S!nDevs /\ S!Devs' = S!Devs
  BY DEF S!nDevs, S!Devs
<1>1. S!MainOK'
  BY <1>0 DEF S!IInv, S!TypeOK, S!MainOK
<1>2. S!WorldOK'
  BY DEF S!IInv, S!TypeOK, S!WorldOK
<1>3. S!BufferOK'
  <2>1. (LoopInv => S!BufferOK)'
    BY BufferOfEvent, PTL
  <2> QED
    BY <2>1
<1>4. S!PrintedIsMeasured'
  BY DEF S!IInv, S!PrintedIsMeasured
<1>5. S!Prepared' /\ S!ListensToListed'
  BY DEF S!IInv, S!Prepared, S!ListensToListed
<1>6. S!Settled' /\ S!CleanExit'
  BY DEF S!IInv, S!Settled, S!CleanExit, S!Completed, S!TypeOK, S!MainOK
<1> QED
  BY <1>1, <1>2, <1>3, <1>4, <1>5, <1>6 DEF S!IInv, S!TypeOK

LEMMA SharedInv ==
    ASSUME S!IInv, Scan!Next \/ UNCHANGED Scan!vars
    PROVE  S!IInv'
<1>1. [S!Next]_S!vars
  BY SameNext, SameVars
<1> QED
  BY <1>1, Constants, S!StepInductive

LEMMA EvaluateInv ==
    ASSUME S!IInv, LoopInv', LoopInv, EvaluateReport PROVE S!IInv'
<1>0. S!nDevs' = S!nDevs /\ S!Devs' = S!Devs
  BY DEF EvaluateReport, loopUnchanged, mainVars, S!nDevs, S!Devs
<1>1. S!SumsOK' /\ S!Measured'
  <2>1. CASE UNCHANGED sums
    BY <1>0, <2>1 DEF S!IInv, S!TypeOK, S!SumsOK, S!Measured, sums
  <2>2. ASSUME NEW r \in Reports, NEW d \in S!Matches(r.addr),
               S!update_data(d, r)
        PROVE  S!SumsOK' /\ S!Measured'
    <3>1. d \in S!Devs
      BY <2>2 DEF S!Matches
    <3> QED
      BY <1>0, <2>2, <3>1, Constants, S!UpdateSums, S!UpdateMeasured
         DEF S!IInv, S!TypeOK
  <2> QED
    BY <2>1, <2>2, EvaluateKinds
<1>2. /\ UNCHANGED <<mainVars, now, setBack, arrived, signals, errors, failed>>
      /\ code' = code /\ pc = "update" /\ pc' \in {"update", "check"}
  BY EvaluateKinds DEF loopUnchanged
<1>3. errors' \in 0 .. MaxErrors /\ failed' \in BOOLEAN
  BY <1>2 DEF S!IInv, S!TypeOK, S!WorldOK, S!MainOK
<1> QED
  BY <1>1, <1>2, <1>3, InvByParts

LEMMA ReadErrorInv ==
    ASSUME S!IInv, LoopInv', ReadError PROVE S!IInv'
<1>1. /\ UNCHANGED <<mainVars, now, setBack, arrived, signals>>
      /\ UNCHANGED sums
      /\ code' = code /\ pc = "read" /\ pc' = "done"
      /\ failed' = TRUE /\ errors < MaxErrors /\ errors' = errors + 1
  BY DEF ReadError, Scan!GoTo
<1>2. S!Devs' = S!Devs
  BY <1>1 DEF mainVars, S!nDevs, S!Devs
<1>3. S!SumsOK' /\ S!Measured'
  BY <1>1, <1>2 DEF S!IInv, S!TypeOK, S!SumsOK, S!Measured, sums
<1>4. errors' \in 0 .. MaxErrors
  BY <1>1, Constants DEF S!IInv, S!TypeOK, S!WorldOK, S!BoundsAssumption
<1> QED
  BY <1>1, <1>3, <1>4, InvByParts

LEMMA NoOutputInv ==
    ASSUME S!IInv, noOutput PROVE S!IInv'
<1>1. /\ pc = "output" /\ pc' = "exit" /\ code' = 0
      /\ UNCHANGED <<mainVars, failed, now, setBack, arrived, signals, errors>>
      /\ UNCHANGED sums /\ UNCHANGED <<buf, queue>>
  BY LoopVarsKept DEF noOutput, Scan!Exit
<1>2. S!nDevs' = S!nDevs /\ S!Devs' = S!Devs
  BY <1>1 DEF mainVars, S!nDevs, S!Devs
<1>3. S!SumsOK' /\ S!Measured'
  BY <1>1, <1>2 DEF S!IInv, S!TypeOK, S!SumsOK, S!Measured, sums
<1>4. S!MainOK'
  BY <1>1, <1>2 DEF S!IInv, S!TypeOK, S!MainOK, mainVars
<1>5. S!WorldOK' /\ S!BufferOK'
  BY <1>1 DEF S!IInv, S!TypeOK, S!WorldOK, S!BufferOK, mainVars
<1>6. S!PrintedIsMeasured' /\ S!Prepared' /\ S!ListensToListed'
  BY <1>1 DEF S!IInv, S!PrintedIsMeasured, S!Prepared, S!ListensToListed,
              mainVars
<1>7. S!Settled' /\ S!CleanExit'
  BY <1>1 DEF S!IInv, S!Settled, S!CleanExit, S!Completed, S!TypeOK, S!WorldOK,
              mainVars
<1> QED
  BY <1>3, <1>4, <1>5, <1>6, <1>7 DEF S!IInv, S!TypeOK

LEMMA StepOfTools ==
    ToolsInv /\ [ToolsNext]_toolVars => ToolsInv'
<1> SUFFICES ASSUME ToolsInv, [ToolsNext]_toolVars PROVE ToolsInv'
  OBVIOUS
<1>1. S!IInv /\ LoopInv /\ LoopInv'
  BY LoopStep, CountOfDevices DEF ToolsInv, S!IInv, S!TypeOK
<1> QED
  BY <1>1, StepKinds, SharedSteps, SharedInv, EvaluateInv, ReadErrorInv,
     NoOutputInv DEF ToolsInv

THEOREM ToolsInductive == ToolsSpec => []ToolsInv
<1>1. ToolsInit => ToolsInv
  BY InitOfTools DEF ToolsInit
<1> QED
  BY <1>1, StepOfTools, PTL DEF ToolsSpec

----------------------------------------------------------------------------
(***************************************************************************)
(* What follows for the two programs                                       *)
(***************************************************************************)

\* The types, and that a report is evaluated only inside the loop over the
\* event, for any number of events with any number of reports.
THEOREM TypeCorrect == ToolsSpec => []TypeOK
<1>1. ToolsInv => TypeOK
  <2> SUFFICES ASSUME ToolsInv PROVE TypeOK
    OBVIOUS
  <2>1. Scan!MainOK /\ Scan!SumsOK /\ Scan!WorldOK
    BY SameTypes DEF ToolsInv, S!IInv, S!TypeOK
  <2>2. event \in Seq(Reports)
    <3>1. event \in Events \/ event = <<>>
      BY DEF ToolsInv, LoopInv
    <3>2. \A ev \in Events : ev \in Seq(Reports)
      BY EventsAssumption
    <3>3. <<>> \in Seq(Reports)
      OBVIOUS
    <3> QED
      BY <3>1, <3>2, <3>3, Zenon
  <2>3. events \in Seq(Seq(Reports))
    BY EventsAssumption DEF ToolsInv, LoopInv
  <2> QED
    BY <2>1, <2>2, <2>3 DEF TypeOK, ToolsInv, LoopInv
<1> QED
  BY <1>1, ToolsInductive, PTL

\* The loop over the reports, the check of the length and the check of the
\* subevent are no more than that: as long as no read fails, a program that is
\* sent events of one report does what scanMijia does, step by step, except for
\* the output that lescan leaves out.
THEOREM Refinement == ToolsSpec => ToolsImplementScanMijia
<1>1. ToolsInit => Scan!Init
  BY InitOfTools DEF ToolsInit
<1>2. ToolsInv /\ [ToolsNext]_toolVars
      => [AsScanMijia \/ (tool = "lescan" /\ noOutput)]_toolVars
  <2> SUFFICES ASSUME ToolsInv, [ToolsNext]_toolVars,
                      ~(tool = "lescan" /\ noOutput)
               PROVE  AsScanMijia \/ UNCHANGED toolVars
    OBVIOUS
  <2>0. LoopInv /\ Scan!nDevs \in Nat /\ errors \in Nat
    BY CountOfDevices DEF ToolsInv, S!IInv, S!TypeOK, S!WorldOK
  <2>1. CASE EvaluateReport
    <3>1. event \in Events
      BY <2>0, <2>1, EvaluateKinds DEF LoopInv
    <3> QED
      BY <2>0, <2>1, <3>1, OnlyOne, EvaluateOneReport
         DEF AsScanMijia, Scan!Next, Scan!Process
  <2>2. CASE ReadError
    BY <2>0, <2>2 DEF ReadError, AsScanMijia
  <2>3. CASE \/ UNCHANGED loopVars /\ SharedStep
             \/ Read \/ IgnoreEvent \/ Receive \/ UNCHANGED vars
    BY <2>0, <2>3, SharedSteps DEF AsScanMijia
  <2>4. ~(UNCHANGED loopVars /\ tool = "lescan" /\ noOutput)
    OBVIOUS
  <2> QED
    BY <2>1, <2>2, <2>3, <2>4, StepKinds
<1> QED
  BY <1>1, <1>2, ToolsInductive, PTL DEF ToolsSpec, ToolsImplementScanMijia

----------------------------------------------------------------------------
(***************************************************************************)
(* The averages                                                            *)
(***************************************************************************)

ToolsSamples == S!NeverStale /\ S!Summed /\ S!PrintsLines

\* A step of the loop that leaves the sums alone.
LEMMA SamplesKept ==
    ASSUME S!IInv, ToolsSamples, UNCHANGED <<mainVars, sums>>,
           failed' => pc' \in {"done", "exit"},
           pc # "exit"
    PROVE  ToolsSamples'
<1>0. argv' = argv /\ S!Devs' = S!Devs
  BY DEF mainVars, S!Devs, S!nDevs
<1>1. S!NeverStale'
  BY DEF ToolsSamples, S!NeverStale, sums
<1>2. S!PrintsLines'
  BY DEF S!IInv, S!Settled, mainVars, S!PrintsLines
<1>3. \A addr, tag : /\ S!Readings(addr, tag)' = S!Readings(addr, tag)
                     /\ S!Values(addr, tag)' = S!Values(addr, tag)
                     /\ S!LastReading(addr, tag)' = S!LastReading(addr, tag)
  BY DEF sums, S!Readings, S!Values, S!LastReading
<1>4. S!Summed'
  <2> SUFFICES ASSUME NEW d \in S!Devs, NEW addr \in S!Words, argv[d] = addr
               PROVE  S!SummedAt(d, addr)'
    BY <1>0 DEF S!Summed
  <2>1. S!SummedAt(d, addr)
    BY DEF ToolsSamples, S!Summed
  <2> QED
    BY <1>0, <1>3, <2>1 DEF S!SummedAt, S!Averaged, S!LastOnly, S!Nothing,
                            S!First, sums
<1> QED
  BY <1>1, <1>2, <1>4 DEF ToolsSamples

LEMMA SharedSamples ==
    ASSUME S!WholeReports, S!IInv, ToolsSamples, errors' = errors,
           Scan!Next \/ UNCHANGED Scan!vars
    PROVE  ToolsSamples'
<1>1. [S!Next]_S!vars
  BY SameNext, SameVars
<1>2. ~S!ReadError
  BY DEF S!ReadError, S!IInv, S!TypeOK, S!WorldOK
<1> QED
  BY <1>1, <1>2, Constants, S!NeverStaleStep, S!SummedStep, S!LinesStep
     DEF ToolsSamples, S!IInv

LEMMA EvaluateSamples ==
    ASSUME S!WholeReports, S!IInv, LoopInv, ToolsSamples, EvaluateReport
    PROVE  ToolsSamples'
<1>1. /\ pc = "update" /\ pc' \in {"update", "check"} /\ code' = code
      /\ UNCHANGED loopUnchanged
  BY EvaluateKinds
<1>2. ~failed /\ failed = FALSE /\ failed' = failed
  BY <1>1 DEF ToolsSamples, S!NeverStale, S!IInv, S!TypeOK, S!MainOK,
              loopUnchanged
<1>3. CASE UNCHANGED sums
  BY <1>1, <1>2, <1>3, SamplesKept DEF loopUnchanged
<1>4. ASSUME NEW r \in Reports, NEW d \in S!Matches(r.addr),
             S!update_data(d, r),
             log' = Append(log, [report |-> r, at |-> S!wall,
                                 real |-> now, stale |-> failed])
      PROVE  ToolsSamples'
  <2> DEFINE e == [report |-> r, at |-> S!wall, real |-> now, stale |-> failed]
  <2>1. e \in S!Entries
    <3>1. S!wall \in Int /\ now \in Nat
      BY Constants, S!Bounds DEF S!IInv, S!TypeOK, S!WorldOK, S!wall
    <3> QED
      BY <1>2, <3>1 DEF S!Entries
  <2>2. /\ e.report = r /\ e.at = S!wall /\ ~e.stale /\ log' = Append(log, e)
    BY <1>2, <1>4
  <2> HIDE DEF e
  <2>3. d \in S!Devs /\ argv[d] = r.addr /\ S!First(d)
    BY DEF S!Matches, S!First
  <2>4. argv' = argv /\ out' = out
    BY <1>1 DEF loopUnchanged, mainVars
  <2>5. log \in Seq(S!Entries) /\ \A x \in DOMAIN log : ~log[x].stale
    BY DEF ToolsSamples, S!NeverStale
  <2>6. S!Summed'
    BY <1>4, <2>1, <2>2, <2>3, <2>4, <2>5, Constants, S!SummedUpdate
       DEF S!IInv, ToolsSamples
  <2>7. S!NeverStale'
    BY <1>2, <2>1, <2>2, <2>5 DEF S!NeverStale
  <2>8. S!PrintsLines'
    BY <1>1, <2>4 DEF S!IInv, S!Settled, S!PrintsLines
  <2> QED
    BY <2>6, <2>7, <2>8 DEF ToolsSamples
<1> QED
  BY <1>3, <1>4, EvaluateKinds

LEMMA InitOfSamples == Init => ToolsSamples
<1> SUFFICES ASSUME Init PROVE ToolsSamples
  OBVIOUS
<1>1. S!Init
  BY SameInit DEF Init
<1> QED
  BY <1>1, Constants, S!InitSamples DEF ToolsSamples, S!SampleInv

LEMMA StepOfSamples ==
    ASSUME S!WholeReports, ToolsInv, ToolsSamples, [ToolsNext]_toolVars
    PROVE  ToolsSamples'
<1>0. S!IInv /\ LoopInv
  BY DEF ToolsInv
<1>1. CASE EvaluateReport
  BY <1>0, <1>1, EvaluateSamples
<1>2. CASE ReadError
  BY <1>0, <1>2, SamplesKept DEF ReadError, Scan!GoTo
<1>3. CASE UNCHANGED loopVars /\ noOutput
  BY <1>0, <1>3, SamplesKept DEF noOutput, Scan!Exit
<1>4. CASE \/ UNCHANGED loopVars /\ SharedStep
           \/ Read \/ IgnoreEvent \/ Receive \/ UNCHANGED vars
  BY <1>0, <1>4, SharedSteps, SharedSamples
<1> QED
  BY <1>1, <1>2, <1>3, <1>4, StepKinds

\* What scanBeacons prints is the average of the readings of each sensor, for
\* any number of events with any number of reports, and also when reads fail:
\* a failed read ends the loop before the buffer is looked at again.  As in
\* scanMijia, every report has to be as long as its type needs.
THEOREM AveragesPrinted ==
    ASSUME S!WholeReports
    PROVE  ToolsSpec => []OutputsAverage
<1>1. ToolsInit => ToolsSamples
  BY InitOfSamples DEF ToolsInit
<1>2. ToolsInv /\ ToolsSamples /\ [ToolsNext]_toolVars => ToolsSamples'
  BY StepOfSamples
<1>3. ToolsInv /\ ToolsSamples => OutputsAverage
  BY Constants, SameOutput, S!LinesAreAverages
     DEF ToolsInv, ToolsSamples, OutputsAverage
<1> QED
  BY <1>1, <1>2, <1>3, ToolsInductive, PTL DEF ToolsSpec

----------------------------------------------------------------------------
(***************************************************************************)
(* No event counts twice                                                   *)
(***************************************************************************)

\* Events as adapters send them: one report, or two.
ShortEvents ==
    \A ev \in Events : Len(ev) <= 2 /\ \A n \in 1 .. Len(ev) : ev[n].length > 0

LEMMA SizeOfOneMore ==
    ASSUME NEW ev \in Events, NEW n \in 1 .. Len(ev)
    PROVE  SizeOfFirst(n, ev) = SizeOfFirst(n - 1, ev) + Size(ev[n])
<1> DEFINE s == [m \in 1 .. n - 1 |-> Size(ev[m])]
           t == [m \in 1 .. n |-> Size(ev[m])]
           v == Size(ev[n])
<1>1. n \in Nat /\ n >= 1 /\ \A m \in 1 .. n : Size(ev[m]) \in Nat
  BY ReportsOf
<1>2. s \in Seq(Int) /\ v \in Int /\ Len(s) = n - 1
  BY <1>1
<1>3. t = Append(s, v)
  BY <1>1
<1> HIDE DEF s, t, v
<1>4. SumOf(t) = SumOf(s) + v
  BY <1>2, <1>3, SumOfOneMore
<1> QED
  BY <1>4 DEF SizeOfFirst, s, t, v

\* Behind the data of the first report is where no report begins: its header
\* and its signal strength are not counted when the loop goes on.
LEMMA PastTheFirst ==
    ASSUME ShortEvents, NEW ev \in Events
    PROVE  /\ InfoAt(ev, 0) = {ev[1]}
           /\ ev[1].length \in Nat /\ ev[1].length <= End(ev)
           /\ InfoAt(ev, ev[1].length) = {}
<1> DEFINE r == ev[1]
           n == Len(ev)
<1>1. /\ n \in Nat /\ n \in {1, 2} /\ DOMAIN ev = 1 .. n
      /\ \A m \in 1 .. n : ev[m] \in Reports /\ Size(ev[m]) \in Nat
  <2>1. \A k \in Nat : k > 0 /\ k <= 2 => k \in {1, 2}
    OBVIOUS
  <2> QED
    BY <2>1, ReportsOf DEF ShortEvents
<1>2. r \in Reports /\ r.length > 0
  BY <1>1 DEF ShortEvents
<1>3. r.length \in Nat
  BY <1>2, ScanAssumption DEF Scan!LEMetaEvents
<1>4. SizeOfFirst(0, ev) = 0 /\ SizeOfFirst(1, ev) = 10 + r.length
  <2>1. SizeOfFirst(1, ev) = SizeOfFirst(1 - 1, ev) + Size(ev[1])
    BY <1>1, SizeOfOneMore
  <2> QED
    BY <1>3, <2>1, NoSize DEF Size
<1>5. \A m \in DOMAIN ev :
          Starts(ev)[m] = IF m = 1 THEN 0 ELSE 10 + r.length
  <2> SUFFICES ASSUME NEW m \in DOMAIN ev
               PROVE  Starts(ev)[m] = IF m = 1 THEN 0 ELSE 10 + r.length
    OBVIOUS
  <2>1. Starts(ev)[m] = SizeOfFirst(m - 1, ev)
    BY DEF Starts
  <2>2. m = 1 \/ m = 2
    BY <1>1
  <2>3. 1 - 1 = 0 /\ 2 - 1 = 1
    OBVIOUS
  <2> QED
    BY <1>4, <2>1, <2>2, <2>3
<1>6. r.length <= End(ev)
  <2>1. CASE n = 1
    BY <1>3, <1>4, <2>1 DEF End
  <2>2. CASE n = 2
    <3>1. SizeOfFirst(2, ev) = SizeOfFirst(2 - 1, ev) + Size(ev[2])
      BY <1>1, <2>2, SizeOfOneMore
    <3>2. Size(ev[2]) \in Nat
      BY <1>1, <2>2
    <3> QED
      BY <1>3, <1>4, <2>2, <3>1, <3>2 DEF End
  <2> QED
    BY <1>1, <2>1, <2>2
<1>7. \A m \in DOMAIN ev : Starts(ev)[m] = 0 <=> m = 1
  BY <1>3, <1>5
<1>8. \A m \in DOMAIN ev : Starts(ev)[m] # r.length
  BY <1>2, <1>3, <1>5
<1>9. 1 \in DOMAIN ev
  BY <1>1
<1> QED
  BY <1>3, <1>6, <1>7, <1>8, <1>9 DEF InfoAt

\* While the loop is at the first report, the event that was taken from the
\* queue has not counted yet; after that there is nothing left to count.
CountInv ==
    /\ log \in Seq(S!Entries)
    /\ NoEventCountsTwice
    /\ pc \notin {"options", "exit"} => argv # <<>>
    /\ pc = "update" => IF rep = 0 THEN Len(log) + 1 <= arrived - Len(events)
                        ELSE InfoAt(event, ptr) = {}

\* A step that takes nothing off the queue and counts nothing.
LEMMA CountKept ==
    ASSUME CountInv, LoopInv, UNCHANGED <<argv, log, arrived, events>>,
           pc' = "update" => pc = "update" /\ UNCHANGED <<event, ptr, rep>>,
           pc' \notin {"options", "exit"} => argv # <<>>
    PROVE  CountInv'
  BY DEF CountInv, NoEventCountsTwice

LEMMA EvaluateCounts ==
    ASSUME ShortEvents, CountInv, S!IInv, LoopInv, EvaluateReport
    PROVE  CountInv'
<1>1. /\ pc = "update" /\ pc' \in {"update", "check"}
      /\ UNCHANGED <<argv, arrived, event, events>> /\ argv # <<>>
  BY EvaluateKinds DEF loopUnchanged, mainVars, CountInv
<1>2. event \in Events /\ rep < Len(event) /\ (rep = 0 => ptr = 0)
  BY <1>1 DEF LoopInv
<1>3. Scan!nDevs \in Nat /\ Scan!nDevs > 0 /\ rep \in 0 .. Scan!nDevs + 1
  <2>1. argv \in Seq(S!Words)
    BY Constants, S!ArgvType DEF S!IInv, S!TypeOK, S!MainOK
  <2> QED
    BY <1>1, <2>1 DEF Scan!nDevs, LoopInv
<1>4. Len(event) \in Nat /\ Len(event) <= 2
  BY <1>2, ReportsOf DEF ShortEvents
<1>5. Len(log) \in Nat /\ Len(events) \in Nat /\ arrived \in Nat
  BY DEF CountInv, LoopInv, S!IInv, S!TypeOK, S!WorldOK
<1>6. CASE rep = 0
  <2>1. /\ log' \in Seq(S!Entries)
        /\ Len(log') \in Nat /\ Len(log') <= Len(log) + 1
    <3>1. CASE UNCHANGED sums
      BY <1>5, <3>1 DEF sums, CountInv
    <3>2. ASSUME NEW r \in Reports,
                 log' = Append(log, [report |-> r, at |-> S!wall, real |-> now,
                                     stale |-> failed])
          PROVE  /\ log' \in Seq(S!Entries)
                 /\ Len(log') \in Nat /\ Len(log') <= Len(log) + 1
      <4> DEFINE e == [report |-> r, at |-> S!wall, real |-> now,
                       stale |-> failed]
      <4>1. e \in S!Entries
        <5>1. S!wall \in Int /\ now \in Nat /\ failed \in BOOLEAN
          BY Constants, S!Bounds DEF S!IInv, S!TypeOK, S!WorldOK, S!MainOK,
                                     S!wall
        <5> QED
          BY <5>1 DEF S!Entries
      <4> HIDE DEF e
      <4>2. log' = Append(log, e)
        BY <3>2 DEF e
      <4> QED
        BY <4>1, <4>2 DEF CountInv
    <3> QED
      BY <3>1, <3>2, EvaluateKinds
  <2>2. InfoAt(event, ptr') = {} /\ rep' # 0
    <3>1. ptr = 0 /\ InfoAt(event, 0) = {event[1]}
      BY <1>2, <1>6, PastTheFirst
    <3>2. ptr' = Advance(0, event[1].length)
      BY <3>1 DEF EvaluateReport
    <3>3. Advance(0, event[1].length) = event[1].length
      <4>1. End(event) \in Nat
        BY <1>2, EndIsNat
      <4> QED
        BY <1>2, <4>1, PastTheFirst DEF Advance
    <3>4. rep' \in 1 .. Scan!nDevs + 1
      BY <1>3, ProgressInEvent
    <3>5. InfoAt(event, event[1].length) = {}
      BY <1>2, PastTheFirst
    <3>6. rep' # 0
      BY <1>3, <3>4
    <3> QED
      BY <3>2, <3>3, <3>5, <3>6
  <2>3. Len(log) + 1 <= arrived - Len(events)
    BY <1>1, <1>6 DEF CountInv
  <2>4. NoEventCountsTwice'
    BY <1>1, <1>5, <2>1, <2>3 DEF NoEventCountsTwice
  <2>5. InfoAt(event, ptr)' = {}
    BY <1>1, <2>2
  <2> QED
    BY <1>1, <2>1, <2>2, <2>4, <2>5 DEF CountInv
<1>7. CASE rep # 0
  <2>1. InfoAt(event, ptr) = {}
    BY <1>1, <1>7 DEF CountInv
  <2>2. rep' = Scan!nDevs + 1 /\ UNCHANGED sums
    BY <2>1 DEF EvaluateReport, NextRep
  <2>3. pc' = "check"
    <3>1. ~(rep' < Len(event))
      BY <1>3, <1>4, <2>2
    <3> QED
      BY <3>1 DEF EvaluateReport, Leave, Scan!GoTo
  <2> QED
    BY <1>1, <2>2, <2>3, CountKept DEF sums
<1> QED
  BY <1>6, <1>7

LEMMA StepOfCounts ==
    ASSUME ShortEvents, ToolsInv, CountInv, [ToolsNext]_toolVars
    PROVE  CountInv'
<1>0. S!IInv /\ LoopInv
  BY DEF ToolsInv
<1>1. CASE UNCHANGED loopVars /\ SharedStep
  <2>1. /\ UNCHANGED <<argv, log, arrived, events>>
        /\ pc' = "update" => pc = "update" /\ UNCHANGED <<event, ptr, rep>>
    BY <1>1, SharedMoves DEF loopVars
  <2>2. pc' \notin {"options", "exit"} => argv # <<>>
    BY <1>1, SharedMoves DEF CountInv
  <2> QED
    BY <1>0, <2>1, <2>2, CountKept
<1>2. CASE Read
  <2>1. /\ event' \in Events /\ events' = Tail(events) /\ events # <<>>
        /\ ptr' = 0 /\ rep' = 0 /\ pc = "read"
        /\ UNCHANGED <<argv, log, arrived>>
    BY <1>0, <1>2 DEF Read, LoopInv, Scan!Read, Scan!loopUnchanged, Scan!opts,
                      Scan!world
  <2>2. Len(events) \in Nat /\ Len(events') = Len(events) - 1
    BY <1>0, <2>1 DEF LoopInv
  <2>3. Len(log) \in Nat /\ arrived \in Nat
    BY <1>0 DEF CountInv, S!IInv, S!TypeOK, S!WorldOK
  <2> QED
    BY <2>1, <2>2, <2>3 DEF CountInv, NoEventCountsTwice
<1>3. CASE EvaluateReport
  BY <1>0, <1>3, EvaluateCounts
<1>4. CASE ReadError \/ IgnoreEvent \/ (UNCHANGED loopVars /\ noOutput)
  <2>1. /\ UNCHANGED <<argv, log, arrived, events>>
        /\ pc' # "update" /\ pc \notin {"options", "exit"}
    BY <1>4 DEF ReadError, IgnoreEvent, noOutput, Scan!GoTo, Scan!Exit, loopVars,
                loopUnchanged, mainVars, sums
  <2> QED
    BY <1>0, <2>1, CountKept DEF CountInv
<1>5. CASE Receive
  <2>1. UNCHANGED <<event, ptr, rep, argv, pc, log>> /\ arrived' = arrived + 1
    BY <1>5 DEF Receive, mainVars, sums
  <2>2. Len(events) \in Nat /\ Len(events') \in Nat
        /\ Len(events') <= Len(events) + 1
    <3>1. PICK e \in Events : events' = events \/ events' = Append(events, e)
      BY <1>5 DEF Receive
    <3> QED
      BY <1>0, <3>1 DEF LoopInv
  <2>3. Len(log) \in Nat /\ arrived \in Nat
    BY <1>0 DEF CountInv, S!IInv, S!TypeOK, S!WorldOK
  <2>4. InfoAt(event, ptr)' = InfoAt(event, ptr)
    BY <2>1
  <2> QED
    BY <2>1, <2>2, <2>3, <2>4 DEF CountInv, NoEventCountsTwice
<1>6. CASE UNCHANGED vars
  <2>1. UNCHANGED <<event, events, ptr, rep, argv, pc, log, arrived>>
    BY <1>6 DEF vars, loopVars, mainVars, sums
  <2> QED
    BY <1>0, <2>1, CountKept DEF CountInv
<1> QED
  BY <1>1, <1>2, <1>3, <1>4, <1>5, <1>6, StepKinds

\* As long as an event has one report or two, none with empty data, no event
\* counts twice, however many arrive and get lost on a full queue, and whatever
\* the bytes are that the loop takes for the length of a second report.
THEOREM EventsCountOnce ==
    ASSUME ShortEvents
    PROVE  ToolsSpec => []NoEventCountsTwice
<1>1. ToolsInit => CountInv
  <2>1. CASE ToolsInit
    BY <2>1 DEF ToolsInit, Init, Scan!Init, CountInv, NoEventCountsTwice
  <2> QED
    BY <2>1
<1>2. ToolsInv /\ CountInv /\ [ToolsNext]_toolVars => CountInv'
  BY StepOfCounts
<1>3. CountInv => NoEventCountsTwice
  BY DEF CountInv
<1> QED
  BY <1>1, <1>2, <1>3, ToolsInductive, PTL DEF ToolsSpec
=============================================================================
