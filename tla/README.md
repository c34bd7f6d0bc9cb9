# A TLA+ model of the Mijia sensor tools

The repository holds command line tools that read a Xiaomi Mijia temperature
and humidity sensor over Bluetooth Low Energy (`scanMijia`, and the variants
`scanBeacons` and `lescan`), the part of BlueZ they are built on (`bluez/`), and
the beginning of a Java API (`java/`). These modules state what the tools do as
TLA+ specifications, check them with TLC on small instances, and prove what
matters most for every instance with TLAPS.

## 1. The system

| Component | State | Operations | Talks to |
|---|---|---|---|
| `bluez/hci.c`: `hci_send_req`, `hci_send_cmd` | event filter of the socket, tries and time left | send one command, wait for its answer | kernel socket, controller |
| `bluez/hci.c`: the `hci_*` wrappers | none | one command each | `hci_send_req` |
| `scanMijia/scanMijia.c` | sums, counts and timestamps per sensor; options; filter | set-up, scan loop, switch-off, output | wrappers, socket, clocks, SIGINT, output file |
| `scanBeacons`, `lescan` | as `scanMijia` | as `scanMijia`, with checks of each event and a loop over its reports | as `scanMijia` |
| `bluez/hci.c`: device lookup; `lescan_*` | `errno`, sockets | find, open and close an adapter, inquire | kernel ioctls; the Java scanner |
| `outputValues` with `-f` | the file, its lock, the stream's buffer | empty, lock, print, unlock, write | other runs with the same file |
| `bluez/bluetooth.c`: addresses | none | `str2ba`, `ba2str`, `bachk`, ... | - |
| `bluez/bluetooth.c`, `oui.c`: the rest | none | error codes, company names | - |
| Java API (`api/`, `hci/`) | options and `scanActive` under a monitor, map of open devices, scan thread | get a scanner, set options, start and stop a scan | native methods (not in the repository) |
| `exp/`, `jniexp`, `cmake`, `doc` | - | examples, build, protocol description | - |

How they interact. `main` of a tool opens a raw HCI socket and calls wrappers
one after the other, leaving at the first failure. Each wrapper calls
`hci_send_req`, which installs a filter on the socket, writes the command, reads
events until one of them answers it, and puts the old filter back. Then the
scan loop installs a filter of its own and reads advertising reports from the
same socket. What one run leaves behind (a white list, an active scan, events in
flight) lives in the controller, where the next run finds it.

What is hard. Answers are recognised by their opcode only, in a stream shared
with every other program on the adapter; the number of events looked at is
limited, so that a busy adapter makes a command fail that was carried out; the
descriptor blocks; Ctrl-C, timeouts, failing system calls and a clock that is
set back meet the loop at any point; reports may be truncated; several flags
and counters that nobody initialises are kept harmless by tests elsewhere.

What makes each component correct:

- **`hci_send_req`**: it always returns; it never blocks in `read`; an answer is
  attributed to the command it is about; the filter is restored on all paths.
- **wrappers**: success means that the controller is done with the command, and
  carried it out where the wrapper looks at the status.
- **`scanMijia`**: it listens to the sensors of its command line; what it prints
  is the average of what they sent, with the right time; it stops when it was
  asked to, and only then; it leaves the scan off.
- **output file**: one run at a time writes to it; a run that has it alone
  leaves its own lines there, all of them; a run that is killed stops nobody.
- **report loop**: no event counts twice and a failed read counts for nothing;
  `-t` ends the run; otherwise it is `scanMijia`.
- **device lookup**: no socket is left behind; the adapter found is the one
  asked for, and was up; a failure is reported with its own error; an inquiry
  returns no more responses than it has room for.
- **addresses**: what is not an address is refused, what is converted comes back.
- **Java**: at most one scanner per device.

## 2. The modules

| Module | What it holds |
|---|---|
| `Hci` | event codes, the socket filter, and what one event means for one request (`Completes`, `Refuses`, `WrapperAccepts`) |
| `HciCommand` | abstract: what a sequence of wrapper calls promises its caller |
| `HciCommands` | each wrapper of `hci.c` as a request record |
| `HciRequest` | `hci_send_req`, one action per system call, with the controller, the kernel queue and foreign events; implements `HciCommand` |
| `ScanMijia` | one run of the tool, from `getopt` to `outputValues` |
| `ScanBeacons` | one run of `scanBeacons`: the main of `ScanMijia` with a loop over the reports of an event |
| `Lescan` | one run of `lescan`, and both programs side by side |
| `OutputFile` | `outputValues` with `-f`, in several runs at once |
| `DeviceLookup` | `hci_for_each_dev`, its callers in `hci.c`, and the `lescan_` functions |
| `Addresses` | the conversions of addresses in `bluetooth.c` |
| `JavaScanner` | `HciScannerManager`, and the start and stop of a scan, in several threads |
| `Summing` | the sum of a sequence, as a recursive function |
| `*_proofs` | the theorems about the module of that name; those of `ScanBeacons_proofs` are about `ToolsSpec`, which runs `scanBeacons` or `lescan` |
| `MC*` | instances for TLC |

How they compose. `HciRequest` stands on `Hci` and implements `HciCommand`, and
`ScanMijia` uses a wrapper call as `HciCommand` describes it. `ScanBeacons`
instantiates `ScanMijia`, takes the common actions from it and is shown to take
only its steps where the two programs should not differ; `Lescan` extends
`ScanBeacons`. `ScanBeacons_proofs` instantiates `ScanMijia_proofs` in the same
way, and takes its lemmas for the steps that the programs share. `OutputFile` is what the last step of `ScanMijia` becomes with
`-f`, `DeviceLookup` what its second step becomes with `-i`; `JavaScanner` takes
the answers of `DeviceLookup` as arbitrary.

### HciRequest and the code

`script` is the list of requests that `main` issues; `pc` says where in
`hci_send_req` the process is. `ready` is its entry, `send` the call of
`hci_send_cmd`, `loop` the test `while (try--)`, `poll` and `read` those calls,
`restore` the labels `failed` and `done`. `tries`, `to` and `of` are the
variables `try`, `to` and `of`; `ret` stands for `errno` and the return value.
EAGAIN and EINTR only repeat a call and are left out; every other failure of a
call is `FilterFails` or `SocketError`, except of the `setsockopt` that puts the
saved filter back: the code ignores its result, and `Restore` takes it to succeed,
since the same call has just succeeded with another filter. The contents of parameters and answers
are left out: an event is a code, an opcode, one status bit and the number it is
compared by. `id` is a ghost: which request caused the event.

`Accept`, `Reject` and `Finish` are the controller; `Foreign` is everybody
else. An event that the filter does not let through, or for which the receive
buffer has no room, is lost. Nothing makes the controller answer.

Slips, in all modules, are definitions marked as such that the specification
does not use. They are plausible mistakes in the code, and for each property one
of them, put in the place of the correct definition, makes TLC find the property
violated.

### ScanMijia and the code

`pc` follows `main` up to the scan (`options` to `scan`), the loop of
`print_advertising_devices` (`top`, `select`, `read`, `update`, `check`,
`done`), and `main` again (`disable`, `output`, `exit`). One step of a tool is
one call of a wrapper, in the sense of `HciCommand`: success means that it was
carried out, failure says nothing (`Command`). The arrays of the code are
functions on `Devs`. `Unset` is the value of a timestamp that `malloc` left
uninitialised.

`whitelist` and `scanning` are the controller, which refuses changes to the
white list and to the parameters while a scan is on, and starts with whatever an
earlier run left. Advertising reports arrive only while it scans, from sensors
on the list; other LE meta events come from the rest of the machine's work.
`now` is real time and `wall` is `time(NULL)`, which may be set back; the timer
of `select` follows `now`. Both start when the scan starts, as the code reads no
clock before. A report is its subevent, address, length, marker, type and the
four bytes that are read as values. What lies past its end is arbitrary
(`Data`). A read error leaves the buffer as it was, or as the stack left it. A
line of output is its tag, address, timestamp, sum and count, before `%.1f`.

The signal is delivered to the process before `sigaction` (which kills it),
during a `select` that has nothing to return (which then fails), or elsewhere,
where it has no effect: `signal_received` is set and never read.

### ScanBeacons, Lescan and the code

An event is a sequence of reports. `buf` and `queue` of `ScanMijia` are what
that module would see of `event` and `events`: the first report of each. Every
step of main, of `select`, of the clock and of the user is that of `ScanMijia`
with the variables of the loop unchanged. New are the checks of the event
(`ReadError`, `IgnoreEvent`) and `EvaluateReport`, one turn of the loop over the
reports. `rep` is `i` and `ptr` the place of `info`, counted in bytes from the
first report. `NextRep` and `Advance` are what the code does to them: both loops
share `i`, and `ptr` grows by the length of the data without the header. Where
`ptr` is not at a report, `info` is made of other bytes, and its length is any
of `Bytes`; the places behind the event are all one (`End + 1`).

`lescan.c` repeats `scanBeacons.c` line by line down to an `outputValues` that
does nothing. `ToolsSpec` runs either of them; each property of the `beacons`
runs is thus checked of both.

### OutputFile and the code

`pc[r]` is where run `r` is in `outputValues`: `lock` at `flock`, `sleep` at
`sleep(1)` after it has failed, `print` between `flock` and the release, `close`
at `fclose`. A line is a cell of the file, and a run writes at its own offset,
which is the number of lines it has written (`flushed`); the others are in the
stream's buffer (`printed - flushed`), which is written when it is full and by
`fclose`. Writing beyond the end leaves holes. The signal handler of the scan
loop is still installed, so that Ctrl-C makes a waiting `flock` fail and has no
other effect. The kernel releases the lock of a run that is killed. `fdopen` and
the writes are taken to succeed. `scanBeacons.c` has the same function.

### DeviceLookup and the code

One process calls one function after the other. `pc` is the system call it is
about to make, `fn` the function called, `errno` the variable of that name,
`fds` the number of open sockets and `held` how many of them the caller has.
`HCIGETDEVLIST` takes the flags of all adapters at once; the address of each is
read by a later ioctl (`SearchEach`); `Change` may happen between any two steps.
Every system call but `close` may fail, for its own reason (an adapter that is
not there) or for any other, and `Breaks` says with what error. A name is the
form it has (`hci` and a number, `hci` and other text, an address with colons or
with dots) and the number or address it stands for. `cause`, `broken`, `wasUp`
and `stable` are ghosts.

### Addresses and the code

The functions are operators on sequences of character codes. The behaviours
start with the text of an address and change, cut or extend it.

### JavaScanner and the code

`monitor` is the thread inside `synchronized` of the manager; `number`, `check`
and `put` are the three statements of `getScanner(int)`, which other threads
meet in between with their lookups, made outside the monitor. A map entry is a
key in `openDevices` and the number its scanner was built with (`getDevice`). The
methods of a scanner hold its monitor from start to end, so each is one step. A
thread keeps the scanner it was given and asks for no second one.

## 3. What the runs check

| Run | Question |
|---|---|
| `request_protocol` | Do calls of all kinds (answered at once, by a final event, by an LE subevent, by a remote name; the same opcode twice) return, never hang, never mix up answers, and implement `HciCommand`? |
| `all_wrappers` | For each of the wrappers, with the code's own numbers and a sensor that floods the socket: does success mean that the command is over, and can only noise use up the tries? |
| `scan_samples` | Two sensors, `-n`, no `-t`: is the output the average, with a line for each value, and is the end of the run the right one? Up to two addresses, a bad address, an empty list; one LE event of another kind, which ends a run. |
| `scan_faults` | Truncated reports, other events, a read error, Ctrl-C, a clock set back, with `-t` and without: is nothing uninitialised printed, and nothing by a run that fails? Does `-t` end the run in time, whatever happens? |
| `beacons` | `scanBeacons` and `lescan`, events of one and two reports, other events, failing reads, Ctrl-C: is the output the average of what was counted, does nothing count twice, does `-t` end the run, and is each step one of `scanMijia` where an event has one report? |
| `device_lookup` | Calls by name, number and address, opens, closes and inquiries, while adapters change and system calls fail: is the right adapter found, the right error reported, and every socket closed? |
| `output_file` | Three runs, Ctrl-C, killed runs: is there one writer at a time, does a run alone leave exactly its lines, does everybody get on? |
| `java_scanner` | Three threads that ask in every way: is no device opened twice? |
| `addresses` | Which texts are addresses, and do conversions come back? |
| `beacons_run_away`, `output_mixed`, `lookup_dotted` | Three places where the code does not do what its usage text and comments say (section 5). |

Bounds, and why they are enough:

- `request_protocol`: `Tries = 3` with slices of 10 ms and a limit of 30 ms
  keep the relation of the code's 10 tries, 10 ms and 1000 ms (the time outlasts
  the tries); three foreign events exhaust the tries, a queue of three drops
  some, and scripts of up to three requests let answers to an earlier request be
  late. `all_wrappers` has the code's own ten tries and ten foreign events.
- `scan_samples`: two sensors and four reports, so that `-n 2` can be met, and
  missed, by one sensor or both; a queue of two, so that reports are lost.
- `scan_faults`: one of each fault is enough for each of the guards that meets
  it, and each can come at any point. A limit of 1 and 2 units of time is twice as
  long as the run may take, with two reports, which both could be late; the clock
  may be set back once, and the limit is then as much longer. The invariants are
  proved for any number.
- `beacons`: with two devices and two reports the index of the loops is moved
  forward, back and past the end; three events, of which two wait. Three reports
  and one device are the least that make the loop run away.
- `device_lookup`: two adapters, so that there is a right one and a wrong one;
  an address that both may have; two calls, of which the second finds the
  `errno` of the first; one change between any two steps. Counts of 1 and 256
  lie on both sides of a byte. The proved invariants hold for any number.
- `output_file`: runs that print nothing, as much as the buffer takes and more;
  a third run to open the file while one writes and one waits.
- `java_scanner`: three threads, so that one is inside the monitor, one waits and
  one makes its lookup; two adapters, the default one and another.
- `addresses`: full size, two changes anywhere, each to a digit, a letter of
  either case, a separator or the character next to one of these ranges.

Fairness. In `HciRequest` only the process itself (`WF(Progress)`): a runnable
process runs. It is not assumed that the controller answers, nor that a call
fails. In `ScanMijia` the process and the clock: `WF(Process)` and `WF(Tick)`.
`StopsAfterSamples` and `TimeoutStops` need no more than that; reports, signals
and errors are never required to happen. The same holds for the two programs of
`ToolsSpec`. In `OutputFile` each run is fair for itself: the kernel gives every
process its turn, and weak fairness is enough because a run that waits for the
lock finds it free again for good once the others, finitely many, have ended.
`DeviceLookup`, `Addresses` and `JavaScanner` state no liveness. Deadlock is checked throughout; a run
that is over stutters (`Terminated`), and so does one that waits without `-t`
for sensors out of range (`Waiting`), because the code really waits for ever.

## 4. What is proved

Every safety property that a run checks, and both refinements, for every value
of the constants. `IInv` in each module is the conjunction that is inductive,
with the type invariant `TypeOK` as its first conjunct. Runs check it where it
says more than the properties they list (`HciRequest`, `ScanMijia`,
`DeviceLookup`).

`HciRequest_proofs`, for every script, number of tries, time, foreign event and
queue length:

- `TypeCorrect`: `Spec => []TypeOK`.
- `NeverHangs`: `Spec => []ReadNeverBlocks`. The step from `poll` to `read`
  finds the queue non-empty, and `poll` is skipped only when `to` is 0; that
  this does not happen is `TimeLeft`, the relation between the tries and the
  time left, and rests on `TimeAssumption` (callers pass more time than the
  tries can use up).
- `AnswersTrue`: `Spec => []AnswersAreTrue`. The induction needs to know what is
  in flight. `InOrder`: commands before the current one are settled and later
  ones are unsent, since the caller stops at the first failure. `QueueTrue`: an
  event of ours in the queue is about the current command, and the one that
  settles it is the last. `RetTrue`: what a call is about to return is true.
  Both together say that no answer to an earlier command can still be under
  way when the next one is sent. The proof rests on `ExclusiveAssumption`, that
  no other program runs the same commands on the adapter at the same time: the
  code could not tell the answers apart.
- `FinishedOnSuccess`: `Spec => []SuccessMeansFinished`, for the wrappers that
  look at the status and for those that do not, from the same invariant.
- `NoiseExhausts`: `Spec => []ExhaustionNeedsNoise`, by `Counted`. Each event
  that a call has read or that waits for it is the acknowledgement of its
  command, the end of its command, or foreign; a call that has used up its tries
  has not read the end, so that all events but one were foreign. It rests on
  `EventAssumption`, that no wrapper waits for a command complete as such.
- `Refinement`: `Spec => ImplementsHciCommand`, where all wrappers of the script
  look at the status (`AllChecked`), as those of the tools do. A step of the
  controller is `Execute` or nothing of `HciCommand`, a return is its
  `Succeed` or `Fail`, and every other step is a stutter.
- `FilterComesBack`: `Spec => []FilterRestored`, from what `of` holds between
  `SetFilter` and `Restore`.
- `CallsAreBounded`: each step of the process lowers `StepsLeft`, a natural number
  that no step of the controller or of another program changes, and that starts
  at `3 * Tries + 4` for each request. A call thus makes at most 34 steps with the
  code's ten tries, not counting repetitions of an interrupted system call. With
  `NeverHangs` (no call waits for ever) this is what `Returns` rests on, but for the fairness of the scheduler.
- `Invariant`: `Spec => []IInv`.

`ScanMijia_proofs`, for every command line, every set of reports, every
schedule of errors, signals and clock changes, and every bound:

- `TypeCorrect`, and `Inductive`: `Spec => []IInv`.
- `OutputIsMeasured`: `Spec => []PrintedIsMeasured`, by `Measured`: a sum, its
  count and its timestamp are written together.
- `ScanIsFiltered`: `Spec => []ListensToListed`, by `Prepared`: what the white
  list holds after each call of `main`.
- `ExitIsClean`: `Spec => []CleanExit`, by `Settled`: what holds once the loop
  is left.
- `TimeLimit`: `Spec => []AtMostOneLate`, by `Punctual`: the loop reaches
  `select` again only while the time is not over on the clock that it looks at,
  which is behind by no more than what it was set back.
- `AveragesPrinted`: `Spec => []OutputsAverage`, and `EveryValuePrinted`:
  `Spec => []OutputsEveryValue`, by `SampleInv` (theorem `SamplesInductive`):
  what the arrays hold for a device is the sum, the number and the last time of
  the readings that the log has of its address, if the address is the first of
  its kind on the command line, and nothing if it is not. `update_data` adds one
  reading to the log and to the arrays; that the sums then agree is
  `SumOfOneMore` of `Summing_proofs`.
- `SamplesAwaited`: `Spec => []StopsOnlyAfterSamples`, by `Satisfied`: who leaves
  the loop without an error has found the counts of all devices large enough.

  The exception is a run whose last event was of another kind, which the property
  names.

  The last three hold under conditions, without which they are false (section 5):
  reads do not fail (`MaxErrors = 0`), and each report is as long as its type
  needs (`WholeReports`). `scan_samples` is an instance of both.

`ScanBeacons_proofs`, for `scanBeacons` and `lescan`, with any events of any
number of reports:

- `ToolsInductive`: `ToolsSpec => []ToolsInv`: the invariant of `ScanMijia`
  under the mapping, and `LoopInv`, which bounds the index and the pointer of the
  loop over the reports. `TypeCorrect` follows.
- `Refinement`: `ToolsSpec => ToolsImplementScanMijia`: after an event of one
  report, and where no read fails, every step is one of `ScanMijia`. `Read`, `Receive` and the
  steps of main map to the steps of the same name, `EvaluateReport` in an event
  of one report to `Update`, `IgnoreEvent` to the `Update` of an event that is
  not a report.
- `AveragesPrinted`: `ToolsSpec => []OutputsAverage`. `WholeReports` is the only
  condition: reads may fail, which in `scanMijia` they may not.
- `EventsCountOnce`: `ToolsSpec => []NoEventCountsTwice` for events of one or two
  reports, none of them empty (`ShortEvents`). The second turn of the loop looks
  at a place between the starts of the two reports, and at neither.

`DeviceLookup_proofs`, for any adapters, names, counts and sequences of calls.
The invariant has two halves. `CallInv` is about the call in progress:

- `SocketsReturned`: `Spec => []NoLeak`, by `OpenSockets`: at which steps the
  call in progress has a socket of its own.
- `OwnError`: `Spec => []ReportsItsOwnError`, by `ErrorKept`: a search that has
  found nothing carries its last error in `err` past `close` and in `errno` to
  the result.
- `FoundAdapterWasUp`: `Spec => []FoundWasUp`, by `ListWasTrue`: what the list
  of flags says was true at some time since the call began.
- `InquiryHasRoom`: `Spec => []InquiryFits`, by `RoomForAll`; for every count,
  since the room is not cut to a byte as the count is.

`SearchInv` is about what it finds:

- `DefaultFound`: `Spec => []DefaultIsFound`, `AdapterMeant`:
  `Spec => []NameMeansAdapter`, and `NamedFound`: `Spec => []NamedIsFound`, by
  `NotMissed` (an adapter that matches, and was up and unchanged since the call
  began, is still on the list or was found) and `ResultMeant`. The last two are
  about the names that are `Resolved`, `hci<n>` and addresses with colons; of an
  address with dots `NamedIsFound` would be false (section 5).
- `Invariant` and `TypeCorrect` behind them.

`OutputFile_proofs`, for any number of runs, lines, signals and killed runs, and
any size of buffer:

- `MutualExclusion`: `Spec => []OneWriter`, by `Holds`: who is in `print` is the
  holder of the lock.
- `OwnLinesExactly`: `Spec => []ExactOutput`, by `Alone` (the run named by
  `sole` is the only one that uses the file) and `Progress`; the lemma
  `WrittenExact` says what a flush makes of a file with the first lines of a run.
- `Invariant` and `TypeCorrect`.

`JavaScanner_proofs`, for any threads, devices and arguments, all by `Exclusive`
(whoever is between the test and the registration is alone there, and what it
tested still holds): `AtMostOneScanner` (`OpenedOnce`),
`ActiveScanIsRegistered` (`ScanHasThread`), `Invariant`.

`Addresses_proofs`, for addresses of every size from 3 on (`oui.c` reads three
bytes), and for texts of any length over any characters:

- `SwapTwice`, `StrInvertsBa` and `BaInvertsStr`, about the conversions alone.
- `AcceptsOnly`: `Spec => []AcceptsAddresses`. The loop of `bachk` is a recursive
  function; `ScannedIsGroups` shows, from the end of the text to its start, that
  it says where the groups of two digits are.
- `AddressesComeBack`: `Spec => []AddressComesBack`, and `TextsComeBack`:
  `Spec => []TextComesBack`, which need that `bachk` accepts the texts concerned.

`Summing_proofs`: `SumOfNothing` and `SumOfOneMore`. An induction over data is
stated with a set (`SetInduction`: a set of numbers that has 0, and with each of
its members the next one, has them all; by the least element that is missing),
because the theorems of the library take an operator, which the provers cannot
instantiate. A reading is named by its place in the log, so that a sensor's
readings are a set of numbers that only grows.

Only model-checked: the liveness properties (`Returns`, `StopsAfterSamples`,
`TimeoutStops`, `OpenedRunEnds`), since fairness is out of the prover's reach.

## 5. Where the code and its texts disagree

Three runs show it:

- `beacons_run_away`: the loops over the reports and over the devices share an
  index, which the inner one leaves at `nDevs` or below. An event with more than
  `nDevs + 1` reports is never left, and the time is not looked at any more
  (`scanBeacons.c:221`, `lescan.c:221`; "Stop after timout seconds",
  `scanBeacons.c:269`).
- `output_mixed`: the file is emptied before the lock is taken and written after
  it is released. Two runs that overlap leave lines of both, or holes
  (`scanMijia.c:402` and 424; "Unlock the file", line 424).
- `lookup_dotted`: an address with dots is not found, although its adapter is up
  all the time and no system call fails. `str2ba` takes nothing but colons, its
  result is not looked at, and the adapter 00:00:00:00:00:00 is looked for
  instead (`hci.c:935`; "name can be the dev name or the address
  'XX.XX.XX.XX.XX.XX'", `lescan.c:441`). `Denotes` says that such a name stands
  for its adapter; `Resolved`, the condition of `NameMeansAdapter` and
  `NamedIsFound`, leaves it out.

The others are conditions of properties, or inputs that an instance leaves out:

- A sum of 0 is taken for no reading, so that 0.0 degrees is not printed
  (`scanMijia.c:410`; "One line for each value", line 230): a condition of
  `OutputsEveryValue`.
- One LE meta event of another kind ends the run with status 0 and whatever it
  has (`scanMijia.c:172`; "stops after num samples", line 227):
  `StopsOnlyAfterSamples` names it as the only other end of a run without `-t`.
- An address given twice is counted under its first entry only, and the run never
  ends (`scanMijia.c:186` and 196). The lists of `scan_samples` name each sensor
  once, because `StopsAfterSamples` does not hold otherwise.
- The result of `read` is not looked at before the buffer is, and the previous
  report counts again (`scanMijia.c:165`; "Output the average", line 227). No
  read fails in `scan_samples`; in `scanBeacons` the length check catches it, and
  `beacons` checks `OutputsAverage` with failing reads.
- The time limit is measured on a clock that can be set back (`scanMijia.c:150`):
  `AtMostOneLate` allows for the time by which it was.
- Of an event of two reports only the first counts, because the second is looked
  for without the header of the first (`scanBeacons.c:228`): `NoEventCountsTwice`
  says what is left. With three reports `ptr` may meet a report again, and the
  property does not hold.
- `lescan` prints nothing (`lescan.c:430`).
- A run that cannot open its file loops for ever, since `flock(-1)` fails
  (`scanMijia.c:402`): `OpenedRunEnds` is about the others.
- `hcifoo` means `hci0`, and a text that is neither a name nor an address is
  looked for as 00:00:00:00:00:00 (`hci.c:930` and 935): `Resolved` leaves these
  out as well.
- A scanner of the default device is built with the negative number of the call,
  so that `getDevice` returns -1 and not "the ble device number that this scanner
  is configured with" (`HciScannerManager.java:29`; `Scanner.java:15`). It is
  registered under what the lookup answered, which may be an error number, where
  "if the device is not found" an exception is promised
  (`HciScannerManager.java:21`; `ScannerManager.java:18`). The model does both
  (`DevNo`, `Put`); `OpenedOnce` is about the keys of the map and holds all the
  same.
- The thread of a scan is created and never started (`HciScanner.java:94`).

## 6. The plan

Done: the modules of section 2, and a theorem for each safety property and each
refinement of the runs. Left:

- **`ScanSession`**: `HciRequest` composed with the scan loop on one socket and
  one controller. The question is what reports in flight do to the command that
  switches the scan off, and with it to the output.

Not modelled, and not planned: the string tables of `hci.c`, the company names
of `bluetooth.c` and the file search of `oui.c` (no state, nothing but data);
`bt_error`, `baprintf` and the allocation wrappers of `bluetooth.c`, which no
tool calls or which hand their arguments on to the C library; the inline
functions of `hci_lib.h` other than the filter's; the setters of a Java scanner,
each a field of its own, `ScanRunner.run`, which no thread runs, and the native
methods, which are not in the repository; the examples under `exp/` and
`jniexp`; the build files and the protocol document.

## 7. Running it

    tlc -config MCHciRequest.cfg MCHciRequest
    tlc -config MCWrappers.cfg MCWrappers
    tlc -config MCScanSamples.cfg MCScanMijia      # and MCScanFaults
    tlc -config MCBeacons.cfg MCScanBeacons        # and MCBeaconsRunAway
    tlc -config MCDeviceLookup.cfg MCDeviceLookup  # and MCLookupDotted
    tlc -config MCOutputFile.cfg MCOutputFile      # and MCOutputMixed
    tlc -config MCJavaScanner.cfg MCJavaScanner
    tlc -config MCAddresses.cfg MCAddresses
    tlapm HciRequest_proofs.tla                    # and the other *_proofs.tla

`PROJECT.json` lists the components, the runs with their properties, the
correspondence of every definition to lines of the source, the hazards of the
code with the properties that cover them, and the theorems.
