---------------------------- MODULE ScanBeacons ----------------------------
(***************************************************************************)
(* One run of scanBeacons.  It grew out of scanMijia and shares its main;  *)
(* the loop of print_advertising_devices is new: it checks the event it    *)
(* has read and goes through all the reports the event holds.  What the    *)
(* two programs have in common is taken from module ScanMijia, with an     *)
(* event of several reports standing where that module has one report.     *)
(***************************************************************************)
EXTENDS Integers, SequencesExt, Summing

CONSTANTS Addrs, Argvs, Options, Reports, Bytes, MaxReports, MaxQueue,
          MaxClock, MaxSteps, MaxErrors, MaxSignals,
          Events        \* the LE meta events that arrive: sequences of reports

ASSUME EventsAssumption ==
    \A e \in Events : e \in Seq(Reports) /\ e # <<>>

VARIABLES
    pc, argv, numSamples, maxTime, i, startTime, deadline, failed,
    temperature, humidity, battery, ntSamples, nhSamples,
    timeTemperature, timeHumidity, timeBattery,
    out, code, whitelist, scanning, filter, now, setBack,
    arrived, errors, signals, log,      \* as in ScanMijia
    event,          \* the event in the read buffer, <<>> before the first
    events,         \* events waiting on the socket
    ptr,            \* where the loop over the reports is, from the first one
    rep             \* the index i of that loop

buf   == IF event = <<>> THEN <<>> ELSE <<event[1]>>
queue == [n \in DOMAIN events |-> events[n][1]]

Scan == INSTANCE ScanMijia

ASSUME ScanAssumption ==
    /\ Scan!ArgvsAssumption /\ Scan!OptionsAssumption /\ Scan!ReportsAssumption
    /\ Scan!BytesAssumption /\ Scan!BoundsAssumption

loopVars == <<event, events, ptr, rep>>
sums     == <<temperature, humidity, battery, ntSamples, nhSamples,
              timeTemperature, timeHumidity, timeBattery, log>>
mainVars == <<argv, numSamples, maxTime, i, startTime, deadline, out, whitelist,
              scanning, filter>>
vars     == <<pc, code, failed, mainVars, sums, now, setBack, arrived, errors,
              signals, loopVars>>

Init ==
    /\ event = <<>> /\ events = <<>> /\ ptr = 0 /\ rep = 0
    /\ Scan!Init

----------------------------------------------------------------------------
\* main is that of scanMijia; it asks for duplicates to be reported as well.
MainUpToScan ==
    /\ UNCHANGED loopVars
    /\ \/ Scan!ParseOptions \/ Scan!OpenDevice \/ Scan!ClearWhiteList
       \/ Scan!AddWhiteList \/ Scan!SetScanParameters \/ Scan!EnableScan

MainAfterScan == UNCHANGED loopVars /\ Scan!DisableScan
outputValues  == UNCHANGED loopVars /\ Scan!outputValues

----------------------------------------------------------------------------
\* print_advertising_devices

StartScan == UNCHANGED loopVars /\ Scan!StartScan

\* Slip: select waits without a timer.
TopNoTimer ==
    UNCHANGED loopVars /\ (Scan!TopNoTimer \/ Scan!SelectReady \/ Scan!SelectTimeout)

Top == UNCHANGED loopVars /\ (Scan!Top \/ Scan!SelectReady \/ Scan!SelectTimeout)

Read ==
    /\ events # <<>>
    /\ event' = Head(events) /\ events' = Tail(events)
    /\ ptr' = 0 /\ rep' = 0
    /\ Scan!Read

\* What a step of the loop over the reports leaves alone.
loopUnchanged == <<mainVars, failed, event, events, now, setBack, arrived, errors,
                   signals>>

\* Slip: the buffer is evaluated although read has failed.
ReadErrorUnchecked ==
    /\ ptr' = 0 /\ rep' = 0
    /\ event # <<>> /\ UNCHANGED <<event, events>>
    /\ Scan!ReadError

\* -1 is not the length the header of any event announces.
ReadError ==
    /\ pc = "read"
    /\ errors < MaxErrors /\ errors' = errors + 1
    /\ failed' = TRUE
    /\ Scan!GoTo("done")
    /\ UNCHANGED <<mainVars, sums, loopVars, now, setBack, arrived, signals>>

\* Slip: the next event is waited for.
IgnoreEventGoOn ==
    /\ pc = "update"
    /\ event[1].sub # Scan!LE_ADVERTISING_REPORT
    /\ Scan!GoTo("top")
    /\ UNCHANGED <<loopUnchanged, sums, ptr, rep>>

\* "Ignoring event type": the scan ends.
IgnoreEvent ==
    /\ pc = "update"
    /\ event[1].sub # Scan!LE_ADVERTISING_REPORT
    /\ Scan!GoTo("done")
    /\ UNCHANGED <<loopUnchanged, sums, ptr, rep>>

\* A report in an event: 9 bytes of header, its data, and the signal strength.
Size(r) == 10 + r.length

\* Where the reports of an event begin.
SizeOfFirst(n, ev) == SumOf([m \in 1 .. n |-> Size(ev[m])])

Starts(ev) == [n \in DOMAIN ev |-> SizeOfFirst(n - 1, ev)]

End(ev) == SizeOfFirst(Len(ev), ev)

\* `info` is a report when ptr is where one begins.  In any other place it is
\* made of bytes of a report's data, or of what lies behind the event, and
\* these are no address of a sensor.
InfoAt(ev, p) == {ev[n] : n \in {m \in DOMAIN ev : Starts(ev)[m] = p}}

\* The first device with this address; nDevs when there is none.
FirstMatch(r) == IF Scan!Matches(r.addr) = {} THEN Scan!nDevs
                 ELSE CHOOSE d \in Scan!Matches(r.addr) : TRUE

\* Both loops use the same i: the inner one leaves it at the device it found
\* (counted from 0), or at nDevs.
NextRep(d, matched) == IF matched THEN d ELSE Scan!nDevs + 1

\* Slip: the next report is looked for in the same place.
AdvanceNot(p, length) == p

\* The places behind the event are all alike: where the bytes there are 0, the
\* loop stays in place, and where they are not, it goes on.
Advance(p, length) == IF p + length > End(event) THEN End(event) + 1
                      ELSE p + length

\* Slip: `<=` for `<`.
LeaveOneLater == IF rep' <= Len(event) THEN Scan!GoTo("update")
                 ELSE Scan!GoTo("check")

\* The test at the head of the loop; nreports is at least 1.
Leave == IF rep' < Len(event) THEN Scan!GoTo("update") ELSE Scan!GoTo("check")

EvaluateReport ==
    /\ pc = "update"
    /\ event[1].sub = Scan!LE_ADVERTISING_REPORT
    /\ \/ \E r \in InfoAt(event, ptr) :
             LET matched == Scan!Matches(r.addr) # {}
             IN  /\ IF matched
                      THEN /\ Scan!update_data(FirstMatch(r), r)
                           /\ log' = Append(log,
                                  [report |-> r, at |-> Scan!wall,
                                   real |-> now, stale |-> failed])
                      ELSE UNCHANGED sums
                 /\ rep' = NextRep(FirstMatch(r), matched)
                 /\ ptr' = Advance(ptr, r.length)
       \/ /\ InfoAt(event, ptr) = {}
          /\ rep' = NextRep(0, FALSE)
          /\ \E length \in Bytes : ptr' = Advance(ptr, length)
          /\ UNCHANGED sums
    /\ Leave
    /\ UNCHANGED loopUnchanged

CheckAndDone == UNCHANGED loopVars /\ (Scan!Check \/ Scan!Done)

----------------------------------------------------------------------------
\* The user, the clock and the controller (outside the repository)

Receive ==
    /\ arrived < MaxReports /\ arrived' = arrived + 1
    /\ Scan!Listening
    /\ \E e \in Events :
          /\ \A n \in DOMAIN e :
                e[n].sub = Scan!LE_ADVERTISING_REPORT =>
                    scanning /\ e[n].addr \in whitelist
          /\ events' = IF Len(events) < MaxQueue THEN Append(events, e) ELSE events
    /\ UNCHANGED <<pc, code, failed, mainVars, sums, now, setBack, errors,
                   signals, event, ptr, rep>>

Outside ==
    \/ UNCHANGED loopVars /\ (Scan!Interrupt \/ Scan!Tick \/ Scan!StepBack)
    \/ Receive

----------------------------------------------------------------------------
Process ==
    \/ MainUpToScan \/ StartScan \/ Top \/ Read \/ IgnoreEvent \/ EvaluateReport
    \/ CheckAndDone \/ MainAfterScan \/ outputValues

Idle == UNCHANGED loopVars /\ (Scan!Waiting \/ Scan!Terminated)

Next == Process \/ ReadError \/ Outside \/ Idle

Spec == Init /\ [][Next]_vars /\ WF_vars(Process)
             /\ WF_vars(UNCHANGED loopVars /\ Scan!Tick)

----------------------------------------------------------------------------
(***************************************************************************)
(* Properties                                                              *)
(***************************************************************************)

\* Among the types: a report is evaluated only inside the loop over the event.
TypeOK ==
    /\ Scan!MainOK /\ Scan!SumsOK /\ Scan!WorldOK
    /\ event \in Seq(Reports) /\ events \in Seq(Seq(Reports))
    /\ pc = "update" => event # <<>> /\ rep < Len(event)
    /\ ptr \in 0 .. End(event) + 1
    /\ rep \in 0 .. Scan!nDevs + 1

\* The checks of the event and the loop over its reports change nothing where
\* there is nothing to check and to loop over: after an event of one report, and
\* as long as read does not fail, every step is one that scanMijia may take.
AsScanMijia ==
    Len(event) <= 1 /\ errors' = errors => Scan!Next \/ UNCHANGED Scan!vars

\* The loop over the reports may come back to an index it has had, but, in an
\* event of one report or two, never to a report it has evaluated: no event
\* counts twice.  (Nor does the second report of an event count, which is looked
\* for among the data of the first.)
NoEventCountsTwice == Len(log) <= arrived - Len(events)

\* "Output the average", also when reads fail: the length check keeps the
\* buffer of the previous event from being evaluated again.
OutputsAverage == Scan!OutputsAverage

\* "Stop after timout seconds".
TimeoutStops == Scan!TimeoutStops
=============================================================================
