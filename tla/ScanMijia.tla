----------------------------- MODULE ScanMijia -----------------------------
(***************************************************************************)
(* One run of scanMijia: main sets the controller up, collects the         *)
(* advertising reports of the listed sensors (print_advertising_devices,   *)
(* update_data), switches the scan off and prints the averages             *)
(* (outputValues, to stdout).                                              *)
(*                                                                         *)
(* The process runs against a controller that queues reports on the socket *)
(* at any time, a clock that may be set back, and a user who may press     *)
(* Ctrl-C.  An HCI command is one step here: it succeeds only when the     *)
(* controller carried it out and fails either way (module HciCommand).     *)
(***************************************************************************)
EXTENDS Integers, FiniteSets, SequencesExt, Summing

CONSTANTS
    Addrs,          \* device addresses
    Argvs,          \* the lists of words the tool may be called with
    Options,        \* records of -h, -n and -t; <<>> when not given
    Reports,        \* LE meta events that may arrive
    Bytes,          \* what memory past the end of a report may hold
    MaxReports,     \* bound on the events that arrive
    MaxQueue,       \* events the receive buffer of the socket holds
    MaxClock,       \* bound on the time a run takes
    MaxSteps,       \* how often the wall clock is set back
    MaxErrors,      \* how often read fails
    MaxSignals      \* how often the user presses Ctrl-C

\* subevent code of an advertising report
LE_ADVERTISING_REPORT == 2

Byte  == 0 .. 255
Limit == 1 .. 1000          \* what -n and -t accept

\* An LE meta event; `bytes` are the bytes 21 to 24 of the report's data and
\* `mijia` is whether its bytes 4 to 6 are 16 95 FE.
LEMetaEvents == [sub : Nat, addr : Addrs, length : Nat, mijia : BOOLEAN,
                 type : Nat, bytes : [1 .. 4 -> Byte]]

\* A word that is not in Addrs is one str2ba refuses.
Words == UNION {ToSet(line) : line \in Argvs}

ASSUME ArgvsAssumption   == \A line \in Argvs : line \in Seq(Words)
ASSUME OptionsAssumption ==
    \A o \in Options : o.help \in BOOLEAN /\ o.n \in Seq(Int) /\ o.t \in Seq(Int)
ASSUME ReportsAssumption == Reports \subseteq LEMetaEvents
ASSUME BytesAssumption   == Bytes \subseteq Byte
ASSUME BoundsAssumption  ==
    \A bound \in {MaxReports, MaxQueue, MaxClock, MaxSteps, MaxErrors,
                  MaxSignals} : bound \in Nat

VARIABLES
    pc,             \* where the process is
    argv,           \* the words on the command line
    numSamples, maxTime,
    i,              \* index of the next address to add to the white list
    startTime,
    deadline,       \* when the timer of the pending select runs out
    failed,         \* `len < 0`
    buf,            \* the event in the read buffer, <<>> before the first
    temperature, humidity, battery, ntSamples, nhSamples,
    timeTemperature, timeHumidity, timeBattery,
    out,            \* the lines printed
    code,           \* exit status, -1 while running, 130 when killed
    whitelist, scanning,            \* the controller
    filter,                         \* the event filter of the socket
    queue,                          \* events waiting on the socket
    now,            \* time since the scan started
    setBack,        \* how far the wall clock was set back since
    arrived, errors, signals,       \* how often the bounded events happened
    log             \* ghost: what update_data was called with, and when

sums  == <<temperature, humidity, battery, ntSamples, nhSamples>>
times == <<timeTemperature, timeHumidity, timeBattery>>
opts  == <<argv, numSamples, maxTime>>
proc  == <<pc, opts, i, startTime, deadline, failed, buf, sums, times, out,
           code, log>>
ctrl  == <<whitelist, scanning>>
world == <<now, setBack, arrived, errors, signals>>
vars  == <<proc, ctrl, filter, queue, world>>

nDevs == Len(argv)
Devs  == 1 .. nDevs
\* time(NULL); the scan starts at MaxSteps, so that it stays a natural number.
wall  == MaxSteps + now - setBack

Unset == -1                 \* malloc leaves the timestamps uninitialised

Init ==
    /\ pc = "options"
    /\ argv \in Argvs
    /\ numSamples = 1 /\ maxTime = -1
    /\ i = 1
    /\ startTime = 0 /\ deadline = 0
    /\ failed = FALSE
    /\ buf = <<>>
    /\ temperature = [d \in Devs |-> 0] /\ humidity = [d \in Devs |-> 0]
    /\ battery = [d \in Devs |-> 0]
    /\ ntSamples = [d \in Devs |-> 0] /\ nhSamples = [d \in Devs |-> 0]
    /\ timeTemperature = [d \in Devs |-> Unset]
    /\ timeHumidity = [d \in Devs |-> Unset]
    /\ timeBattery = [d \in Devs |-> Unset]
    /\ out = {}
    /\ code = -1
    /\ whitelist \in SUBSET Addrs       \* what earlier runs left behind
    /\ scanning \in BOOLEAN
    /\ filter = "none"
    /\ queue = <<>>
    /\ now = 0 /\ setBack = 0
    /\ arrived = 0 /\ errors = 0 /\ signals = 0
    /\ log = <<>>

----------------------------------------------------------------------------
\* main, up to the scan

Exit(status) == pc' = "exit" /\ code' = status
GoTo(label)  == pc' = label /\ code' = code

\* The argument of an option, or what holds without it.
Given(option, default) == IF option = <<>> THEN default ELSE option[1]

Valid(o) == /\ Given(o.n, 1) \in Limit
            /\ o.t = <<>> \/ Given(o.t, -1) \in Limit

ParseOptions ==
    /\ pc = "options"
    /\ \E o \in Options :
          \/ /\ ~Valid(o)
             /\ Exit(1)
             /\ UNCHANGED <<numSamples, maxTime>>
          \/ /\ o.help                 \* -h, or an unknown option
             /\ Exit(0)
             /\ UNCHANGED <<numSamples, maxTime>>
          \/ /\ Valid(o) /\ ~o.help
             /\ numSamples' = Given(o.n, 1) /\ maxTime' = Given(o.t, -1)
             /\ IF argv = <<>> THEN Exit(0) ELSE GoTo("open")
    /\ UNCHANGED <<argv, i, startTime, deadline, failed, buf, sums, times, out,
                   log, ctrl, filter, queue, world>>

\* What a step of main up to the scan and after it leaves alone.
setupUnchanged == <<opts, startTime, deadline, failed, buf, sums, times, log,
                    filter, queue, world>>

OpenDevice ==
    /\ pc = "open"
    /\ Exit(1) \/ GoTo("clear")
    /\ UNCHANGED <<setupUnchanged, i, out, ctrl>>

\* A command the controller carries out with the given effect succeeds; one
\* it refuses, and one whose answer does not come in time, fails.
Command(legal, effect, next) ==
    \/ legal /\ effect /\ GoTo(next)
    \/ legal /\ effect /\ Exit(1)
    \/ UNCHANGED ctrl /\ Exit(1)

\* Slip: the white list is extended, never cleared.
ClearWhiteListForgotten ==
    /\ pc = "clear"
    /\ Command(~scanning, UNCHANGED ctrl, "add")
    /\ UNCHANGED <<setupUnchanged, i, out>>

\* The controller refuses these three while a scan is on.
ClearWhiteList ==
    /\ pc = "clear"
    /\ Command(~scanning, whitelist' = {} /\ UNCHANGED scanning, "add")
    /\ UNCHANGED <<setupUnchanged, i, out>>

AddWhiteList ==
    /\ pc = "add" /\ i <= nDevs
    /\ i' = i + 1
    /\ \/ /\ argv[i] \notin Addrs           \* str2ba fails
          /\ Exit(1)
          /\ UNCHANGED ctrl
       \/ /\ argv[i] \in Addrs
          /\ Command(~scanning,
                     whitelist' = whitelist \cup {argv[i]} /\ UNCHANGED scanning,
                     "add")
    /\ UNCHANGED <<setupUnchanged, out>>

SetScanParameters ==
    /\ pc = "add" /\ i > nDevs
    /\ Command(~scanning, UNCHANGED ctrl, "enable")
    /\ UNCHANGED <<setupUnchanged, i, out>>

EnableScan ==
    /\ pc = "enable"
    /\ Command(TRUE, scanning' = TRUE /\ UNCHANGED whitelist, "scan")
    /\ UNCHANGED <<setupUnchanged, i, out>>

----------------------------------------------------------------------------
\* print_advertising_devices

\* The counters and sums are 0 since Init; getsockopt and setsockopt may fail.
StartScan ==
    /\ pc = "scan"
    /\ \/ /\ Exit(1)
          /\ UNCHANGED <<filter, startTime>>
       \/ /\ GoTo("top")
          /\ filter' = "LE_META"
          /\ startTime' = wall
    /\ UNCHANGED <<opts, i, deadline, failed, buf, sums, times, out, log, ctrl,
                   queue, world>>

\* Slip: select waits without a timer.
TopNoTimer ==
    /\ pc = "top"
    /\ failed' = FALSE
    /\ \/ /\ maxTime > 0 /\ maxTime <= wall - startTime
          /\ GoTo("done")
          /\ UNCHANGED deadline
       \/ /\ maxTime <= 0 \/ maxTime > wall - startTime
          /\ deadline' = MaxClock + 1
          /\ GoTo("select")
    /\ UNCHANGED <<opts, i, startTime, buf, sums, times, out, log, ctrl, filter,
                   queue, world>>

\* Slip: no test of the remaining time before select.
TopUntested ==
    /\ pc = "top"
    /\ failed' = FALSE
    /\ deadline' = now + maxTime - (wall - startTime)
    /\ GoTo("select")
    /\ UNCHANGED <<opts, i, startTime, buf, sums, times, out, log, ctrl, filter,
                   queue, world>>

Top ==
    /\ pc = "top"
    /\ failed' = FALSE
    /\ LET remaining == maxTime - (wall - startTime)
       IN  \/ /\ maxTime > 0 /\ remaining <= 0
              /\ GoTo("done")
              /\ UNCHANGED deadline
           \/ /\ maxTime > 0 /\ remaining > 0
              /\ deadline' = now + remaining
              /\ GoTo("select")
           \/ /\ maxTime <= 0
              /\ GoTo("select")
              /\ UNCHANGED deadline
    /\ UNCHANGED <<opts, i, startTime, buf, sums, times, out, log, ctrl, filter,
                   queue, world>>

loopUnchanged == <<opts, i, startTime, deadline, out, ctrl, filter>>

SelectReady ==
    /\ pc = "select" /\ queue # <<>>
    /\ GoTo("read")
    /\ UNCHANGED <<loopUnchanged, failed, buf, sums, times, log, queue, world>>

\* Slip: the result 0 of select is not told from a positive one.
SelectTimeoutReads ==
    /\ pc = "select" /\ queue = <<>>
    /\ maxTime > 0 /\ now >= deadline
    /\ GoTo("read")
    /\ UNCHANGED <<loopUnchanged, failed, buf, sums, times, log, queue, world>>

\* The timer of select follows real time, not the wall clock.
SelectTimeout ==
    /\ pc = "select" /\ queue = <<>>
    /\ maxTime > 0 /\ now >= deadline
    /\ GoTo("done")
    /\ UNCHANGED <<loopUnchanged, failed, buf, sums, times, log, queue, world>>

Read ==
    /\ pc = "read"
    /\ buf' = <<Head(queue)>>
    /\ queue' = Tail(queue)
    /\ GoTo("update")
    /\ UNCHANGED <<loopUnchanged, failed, sums, times, log, world>>

\* The result of read is not looked at before the buffer is: it still holds
\* the previous event, or whatever was on the stack.
ReadError ==
    /\ pc = "read"
    /\ errors < MaxErrors /\ errors' = errors + 1
    /\ failed' = TRUE
    /\ buf' \in IF buf = <<>> THEN {<<r>> : r \in Reports} ELSE {buf}
    /\ GoTo("update")
    /\ UNCHANGED <<loopUnchanged, sums, times, log, queue, now, setBack,
                   arrived, signals>>

\* The first entry of argv with this address.
Matches(addr) ==
    {d \in Devs : argv[d] = addr /\ \A e \in 1 .. d - 1 : argv[e] # addr}

\* data[21 .. 24]; what lies past the end of the report is arbitrary.
Data(r) ==
    {b \in [1 .. 4 -> Bytes \cup {r.bytes[j] : j \in 1 .. 4}] :
        \A j \in 1 .. 4 : 20 + j < r.length => b[j] = r.bytes[j]}

getVal16(b, j) == b[j + 1] * 256 + b[j]

Add(f, d, v) == [f EXCEPT ![d] = @ + v]

AddTemperature(d, v) ==
    /\ temperature' = Add(temperature, d, v)
    /\ ntSamples' = Add(ntSamples, d, 1)
    /\ timeTemperature' = [timeTemperature EXCEPT ![d] = wall]

\* Slip: `=` for `+=`.
AddHumidityOverwritten(d, v) ==
    /\ humidity' = [humidity EXCEPT ![d] = v]
    /\ nhSamples' = Add(nhSamples, d, 1)
    /\ timeHumidity' = [timeHumidity EXCEPT ![d] = wall]

\* Slip: the humidity gets no timestamp.
AddHumidityUntimed(d, v) ==
    /\ humidity' = Add(humidity, d, v)
    /\ nhSamples' = Add(nhSamples, d, 1)
    /\ timeHumidity' = timeHumidity

AddHumidity(d, v) ==
    /\ humidity' = Add(humidity, d, v)
    /\ nhSamples' = Add(nhSamples, d, 1)
    /\ timeHumidity' = [timeHumidity EXCEPT ![d] = wall]

SetBattery(d, v) ==
    /\ battery' = [battery EXCEPT ![d] = v]
    /\ timeBattery' = [timeBattery EXCEPT ![d] = wall]

temperatureVars == <<temperature, ntSamples, timeTemperature>>
humidityVars    == <<humidity, nhSamples, timeHumidity>>
batteryVars     == <<battery, timeBattery>>

\* The length and the marker of a sensor's report.
Recognised(r) == r.length \in {22, 23, 25} /\ r.mijia

update_data(d, r) ==
    \/ /\ ~(Recognised(r) /\ r.type \in {4, 6, 10, 13})
       /\ UNCHANGED <<sums, times>>
    \/ /\ Recognised(r)
       /\ \E b \in Data(r) :
             \/ /\ r.type = 13
                /\ AddTemperature(d, getVal16(b, 1))
                /\ AddHumidity(d, getVal16(b, 3))
                /\ UNCHANGED batteryVars
             \/ /\ r.type = 10
                /\ SetBattery(d, b[1])
                /\ UNCHANGED <<temperatureVars, humidityVars>>
             \/ /\ r.type = 4
                /\ AddTemperature(d, getVal16(b, 1))
                /\ UNCHANGED <<humidityVars, batteryVars>>
             \/ /\ r.type = 6
                /\ AddHumidity(d, getVal16(b, 1))
                /\ UNCHANGED <<temperatureVars, batteryVars>>

Update ==
    /\ pc = "update"
    /\ LET r == buf[1]
       IN  \/ /\ r.sub # LE_ADVERTISING_REPORT
              /\ GoTo("done")
              /\ UNCHANGED <<sums, times, log>>
           \/ /\ r.sub = LE_ADVERTISING_REPORT
              /\ GoTo("check")
              /\ IF Matches(r.addr) = {}
                   THEN UNCHANGED <<sums, times, log>>
                   ELSE /\ \E d \in Matches(r.addr) : update_data(d, r)
                        /\ log' = Append(log, [report |-> r, at |-> wall,
                                               real |-> now, stale |-> failed])
    /\ UNCHANGED <<loopUnchanged, failed, buf, queue, world>>

\* Slip: `&&` for `||`.
EnoughOfEither ==
    \A d \in Devs : ntSamples[d] >= numSamples \/ nhSamples[d] >= numSamples

\* Slip: `<=` for `<`.
EnoughAndOne ==
    \A d \in Devs : ntSamples[d] > numSamples /\ nhSamples[d] > numSamples

Enough == \A d \in Devs : ntSamples[d] >= numSamples /\ nhSamples[d] >= numSamples

Check ==
    /\ pc = "check"
    /\ GoTo(IF (maxTime > 0 /\ wall - startTime > maxTime) \/ Enough
              THEN "done" ELSE "top")
    /\ UNCHANGED <<loopUnchanged, failed, buf, sums, times, log, queue, world>>

\* Slip: the result of print_advertising_devices is not tested.
DoneUntested ==
    /\ pc = "done"
    /\ filter' = "none"
    /\ GoTo("disable")
    /\ UNCHANGED <<opts, i, startTime, deadline, failed, buf, sums, times, out,
                   log, ctrl, queue, world>>

Done ==
    /\ pc = "done"
    /\ filter' = "none"
    /\ IF failed THEN Exit(1) ELSE GoTo("disable")
    /\ UNCHANGED <<opts, i, startTime, deadline, failed, buf, sums, times, out,
                   log, ctrl, queue, world>>

----------------------------------------------------------------------------
\* main, after the scan

DisableScan ==
    /\ pc = "disable"
    /\ Command(TRUE, scanning' = FALSE /\ UNCHANGED whitelist, "output")
    /\ UNCHANGED <<setupUnchanged, i, out>>

\* A value is printed when its sum is not 0; %.1f of sum / count / 10.
Line(tag, d) ==
    CASE tag = "T" -> [tag |-> tag, addr |-> argv[d], at |-> timeTemperature[d],
                       sum |-> temperature[d], count |-> ntSamples[d]]
      [] tag = "H" -> [tag |-> tag, addr |-> argv[d], at |-> timeHumidity[d],
                       sum |-> humidity[d], count |-> nhSamples[d]]
      [] tag = "B" -> [tag |-> tag, addr |-> argv[d], at |-> timeBattery[d],
                       sum |-> battery[d], count |-> 1]

\* Slip: the loop stops one device early.
LinesButLast ==
    {l \in {Line(tag, d) : tag \in {"T", "H", "B"}, d \in Devs \ {nDevs}} : l.sum # 0}

Lines == {l \in {Line(tag, d) : tag \in {"T", "H", "B"}, d \in Devs} : l.sum # 0}

outputValues ==
    /\ pc = "output"
    /\ out' = Lines
    /\ Exit(0)
    /\ UNCHANGED <<setupUnchanged, i, ctrl>>

----------------------------------------------------------------------------
\* The user, the clock and the controller (outside the repository)

\* The clock is first read when the scan starts, and how long the setup took is
\* never looked at.
Started == pc \notin {"options", "open", "clear", "add", "enable", "scan"}

\* Before sigaction the signal kills the process.  Afterwards the handler only
\* sets signal_received, which nobody reads: the signal has an effect when it
\* interrupts a select that has nothing to return, and none otherwise.
Interrupt ==
    /\ pc # "exit"
    /\ signals < MaxSignals /\ signals' = signals + 1
    /\ CASE ~Started ->
                Exit(130) /\ failed' = failed
         [] pc = "select" /\ queue = <<>> ->
                GoTo("done") /\ failed' = TRUE
         [] OTHER ->
                GoTo(pc) /\ failed' = failed
    /\ UNCHANGED <<opts, i, startTime, deadline, buf, sums, times, out, log,
                   ctrl, filter, queue, now, setBack, arrived, errors>>

Tick ==
    /\ Started
    /\ now < MaxClock
    /\ now' = now + 1
    /\ UNCHANGED <<proc, ctrl, filter, queue, setBack, arrived, errors, signals>>

StepBack ==
    /\ Started
    /\ setBack < MaxSteps
    /\ setBack' = setBack + 1
    /\ UNCHANGED <<proc, ctrl, filter, queue, now, arrived, errors, signals>>

\* LE meta events pass the filter of the scan and that of hci_send_req, so some
\* may be waiting when a command of the setup returns.
Listening == filter = "LE_META" \/ pc \in {"clear", "add", "enable", "scan"}

\* The scan is passive and filtered by the white list.  Other LE meta events
\* are not; they come from the rest of the adapter's work.
Receive ==
    /\ arrived < MaxReports /\ arrived' = arrived + 1
    /\ Listening
    /\ \E r \in Reports :
          /\ r.sub = LE_ADVERTISING_REPORT => scanning /\ r.addr \in whitelist
          /\ queue' = IF Len(queue) < MaxQueue THEN Append(queue, r) ELSE queue
    /\ UNCHANGED <<proc, ctrl, filter, now, setBack, errors, signals>>

----------------------------------------------------------------------------
Process ==
    \/ ParseOptions \/ OpenDevice \/ ClearWhiteList \/ AddWhiteList
    \/ SetScanParameters \/ EnableScan \/ StartScan \/ Top \/ SelectReady
    \/ SelectTimeout \/ Read \/ Update \/ Check \/ Done \/ DisableScan
    \/ outputValues

\* Without -t a run may wait for ever for sensors that are out of range.
Waiting    == pc = "select" /\ maxTime <= 0 /\ UNCHANGED vars
Terminated == pc = "exit" /\ UNCHANGED vars

Next == \/ Process \/ ReadError \/ Interrupt \/ Tick \/ StepBack \/ Receive
        \/ Waiting \/ Terminated

\* The process runs and time passes; nothing else has to happen.
Spec == Init /\ [][Next]_vars /\ WF_vars(Process) /\ WF_vars(Tick)

----------------------------------------------------------------------------
(***************************************************************************)
(* Properties                                                              *)
(***************************************************************************)

MainOK ==
    /\ pc \in {"options", "open", "clear", "add", "enable", "scan", "top",
              "select", "read", "update", "check", "done", "disable", "output",
              "exit"}
    /\ argv \in Argvs
    /\ numSamples \in Limit
    /\ maxTime \in {-1} \cup Limit
    /\ i \in 1 .. nDevs + 1
    /\ startTime \in Int /\ deadline \in Int
    /\ failed \in BOOLEAN
    /\ code \in {-1, 0, 1, 130}

SumsOK ==
    /\ temperature \in [Devs -> Nat] /\ humidity \in [Devs -> Nat]
    /\ battery \in [Devs -> Byte]
    /\ ntSamples \in [Devs -> Nat] /\ nhSamples \in [Devs -> Nat]
    /\ timeTemperature \in [Devs -> Int] /\ timeHumidity \in [Devs -> Int]
    /\ timeBattery \in [Devs -> Int]

BufferOK ==
    /\ buf \in Seq(Reports) /\ Len(buf) <= 1
    /\ pc = "update" => buf # <<>>
    /\ queue \in Seq(Reports)
    /\ pc = "read" => queue # <<>>

WorldOK ==
    /\ whitelist \in SUBSET Addrs /\ scanning \in BOOLEAN
    /\ filter \in {"none", "LE_META"}
    /\ now \in Nat /\ setBack \in 0 .. MaxSteps
    /\ arrived \in 0 .. MaxReports
    /\ errors \in 0 .. MaxErrors
    /\ signals \in 0 .. MaxSignals

\* Among the types: read is called only when there is something to read.
TypeOK == MainOK /\ SumsOK /\ BufferOK /\ WorldOK

\* The run did not end in usage(), nor in a failure.
Completed == code = 0 /\ i > 1

\* Nothing uninitialised and no division by zero is ever printed: outputValues
\* tests only whether a sum is 0, and the timestamps and the divisor next to it
\* are right because update_data writes them together; the sums stay within
\* what the 16-bit values of that many reports add up to.
PrintedIsMeasured ==
    \A l \in out : /\ l.at # Unset
                   /\ l.count > 0
                   /\ l.sum \in 1 .. 65535 * l.count

\* While the loop waits and reads, the controller scans for the addresses of
\* the command line and no others, whatever an earlier run left in its white
\* list, and the socket lets advertising reports through.
ListensToListed ==
    pc \in {"top", "select", "read", "update", "check"} =>
        /\ scanning
        /\ whitelist = ToSet(argv)
        /\ filter = "LE_META"

\* Values are reported only after the scan is off again and only for a run that
\* read no error; a failing run prints nothing.
CleanExit ==
    /\ out # {} => code = 0 /\ ~failed
    /\ Completed => ~scanning /\ filter = "none"

----------------------------------------------------------------------------
(***************************************************************************)
(* The inductive invariant behind the three properties above               *)
(***************************************************************************)

\* A sum, its count and its timestamp are written together.
Measured ==
    \A d \in Devs :
        /\ temperature[d] <= 65535 * ntSamples[d]
        /\ humidity[d] <= 65535 * nhSamples[d]
        /\ ntSamples[d] > 0 => timeTemperature[d] # Unset
        /\ nhSamples[d] > 0 => timeHumidity[d] # Unset
        /\ battery[d] # 0 => timeBattery[d] # Unset

\* The controller follows main: the list is filled while the scan is off.
Prepared ==
    /\ pc \in {"options", "open", "clear"} => i = 1
    /\ pc = "add" => ~scanning /\ whitelist = {argv[j] : j \in 1 .. i - 1}
    /\ pc = "enable" => whitelist = ToSet(argv)
    /\ pc = "scan" => scanning /\ whitelist = ToSet(argv)

\* What main has established once the loop is left.
Settled ==
    /\ pc # "exit" => code = -1 /\ out = {}
    /\ filter = "LE_META" =>
           pc \in {"top", "select", "read", "update", "check", "done"}
    /\ pc \in {"disable", "output"} => ~failed
    /\ pc = "output" => ~scanning

IInv == TypeOK /\ Measured /\ PrintedIsMeasured /\ Prepared /\ ListensToListed
        /\ Settled /\ CleanExit

----------------------------------------------------------------------------
\* What the log of readings says of the output

Carries(r, tag) ==
    /\ Recognised(r)
    /\ \/ tag = "T" /\ r.type \in {4, 13}
       \/ tag = "H" /\ r.type \in {6, 13}
       \/ tag = "B" /\ r.type = 10

Value(r, tag) ==
    LET word(j) == r.bytes[j] + 256 * r.bytes[j + 1]
    IN  IF tag = "B" THEN r.bytes[1]
        ELSE IF tag = "H" /\ r.type = 13 THEN word(3) ELSE word(1)

\* Where in the log a sensor's readings are.
Readings(addr, tag) ==
    {x \in DOMAIN log : /\ log[x].report.addr = addr
                        /\ Carries(log[x].report, tag)
                        /\ ~log[x].stale}

\* What a sensor's readings add up to; the battery counts only once.
Values(addr, tag) ==
    [x \in DOMAIN log |->
        IF x \in Readings(addr, tag) THEN Value(log[x].report, tag) ELSE 0]

LastReading(addr, tag) == log[Max(Readings(addr, tag))]

Total(addr, tag) ==
    IF tag = "B" THEN Value(LastReading(addr, "B").report, "B")
    ELSE SumOf(Values(addr, tag))

\* "Output the average": each printed value is the sum and the number of the
\* readings this sensor sent, the last one for the battery, and carries the
\* time of the last of them.
OutputsAverage ==
    \A l \in out :
        LET rs == Readings(l.addr, l.tag)
        IN  /\ rs # {}
            /\ l.at = LastReading(l.addr, l.tag).at
            /\ l.sum = Total(l.addr, l.tag)
            /\ l.tag # "B" => l.count = Cardinality(rs)

\* "One line for each value": a run that succeeds prints a line for every sensor
\* and every value it sent, unless the readings add up to 0, which the program
\* does not tell from no reading at all.
OutputsEveryValue ==
    Completed => \A addr \in ToSet(argv), tag \in {"T", "H", "B"} :
        Readings(addr, tag) # {} /\ Total(addr, tag) # 0 =>
            \E l \in out : l.tag = tag /\ l.addr = addr

HeardEnough ==
    /\ argv # <<>>
    /\ \A addr \in ToSet(argv), tag \in {"T", "H"} :
           Cardinality(Readings(addr, tag)) >= numSamples

\* Any other LE meta event ends the scan as if it were complete.
OtherEvent == buf # <<>> /\ buf[1].sub # LE_ADVERTISING_REPORT

\* "stops after num samples": without -t, a run that succeeds has heard every
\* sensor as often as it was asked to, or the last event it read was no
\* advertising report; nothing else ends it early.
StopsOnlyAfterSamples ==
    Completed /\ maxTime <= 0 => HeardEnough \/ OtherEvent

\* ... and a run that has heard them all ends.
StopsAfterSamples == HeardEnough ~> pc = "exit"

\* "Stop after timout seconds": of the reports read once the time is over, at
\* most one is still taken into account (the one select had already returned
\* for), however fast they come in.  The time gets longer by what the clock was
\* set back, and by no more.
AtMostOneLate ==
    maxTime > 0 =>
        \A x, y \in DOMAIN log :
            /\ log[x].real >= maxTime + setBack
            /\ log[y].real >= maxTime + setBack
            => x = y

\* ... and with -t the run ends even if no sensor is ever heard.
TimeoutStops == pc = "top" /\ maxTime > 0 ~> pc = "exit"
=============================================================================
