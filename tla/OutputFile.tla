----------------------------- MODULE OutputFile -----------------------------
(***************************************************************************)
(* The file of -f: outputValues of scanMijia.c (and, word for word, of     *)
(* scanBeacons.c) in several runs of the tool that write to one file, with *)
(* the lock, the stream's buffer, the signal Ctrl-C and runs that are      *)
(* killed.                                                                 *)
(*                                                                         *)
(* A run prints lines 1 .. Lines[r]; a line is a cell of the file.         *)
(***************************************************************************)
EXTENDS Integers, Sequences

CONSTANTS
    Runs,           \* the runs of the tool
    nobody,         \* no run
    Lines,          \* how many lines each run prints
    BufSize,        \* lines the buffer of a stream takes
    MaxSignals,     \* how often the user presses Ctrl-C
    MaxKilled       \* how many runs are killed

ASSUME NobodyAssumption  == nobody \notin Runs
ASSUME LinesAssumption   == Lines \in [Runs -> Nat]
ASSUME BufSizeAssumption == BufSize \in Nat \ {0}

VARIABLES
    pc,             \* where each run is
    opened,         \* whether its fd is that of an open file, and not -1
    printed,        \* lines it has printed into the buffer
    flushed,        \* those of them written to the file; the rest is buffered
    file,           \* the cells of the file
    holder,         \* the run that holds the lock
    signals, killed,
    sole            \* ghost: the last run that opened the file, if it shared
                    \* the file with no other

vars == <<pc, opened, printed, flushed, file, holder, signals, killed, sole>>

\* Line k of run r, and what lies between the end of the file and an offset
\* beyond it.
Cell(r, k) == [run |-> r, line |-> k]
Hole       == [run |-> nobody, line |-> 0]

Init ==
    /\ pc = [r \in Runs |-> "scan"]
    /\ opened = [r \in Runs |-> FALSE]
    /\ printed = [r \in Runs |-> 0] /\ flushed = [r \in Runs |-> 0]
    /\ file = <<>>
    /\ holder = nobody
    /\ signals = 0 /\ killed = 0
    /\ sole = nobody

----------------------------------------------------------------------------
\* The run is between open and fclose.
Using(r) == opened[r] /\ pc[r] \in {"lock", "sleep", "print", "close"}

\* Slip: without O_TRUNC.
OpenKept(r) ==
    /\ pc[r] = "scan"
    /\ pc' = [pc EXCEPT ![r] = "lock"]
    /\ \/ UNCHANGED <<opened, file, sole>>
       \/ /\ opened' = [opened EXCEPT ![r] = TRUE]
          /\ UNCHANGED file
          /\ sole' = IF \E q \in Runs : Using(q) THEN nobody ELSE r
    /\ UNCHANGED <<printed, flushed, holder, signals, killed>>

\* open may fail, which is not noticed; else the file is emptied, whoever holds
\* the lock.
Open(r) ==
    /\ pc[r] = "scan"
    /\ pc' = [pc EXCEPT ![r] = "lock"]
    /\ \/ UNCHANGED <<opened, file, sole>>
       \/ /\ opened' = [opened EXCEPT ![r] = TRUE]
          /\ file' = <<>>
          /\ sole' = IF \E q \in Runs : Using(q) THEN nobody ELSE r
    /\ UNCHANGED <<printed, flushed, holder, signals, killed>>

\* Slip: `==` for `!=`.
LockInverted(r) ==
    /\ pc[r] = "lock" /\ opened[r] /\ holder \in {nobody, r}
    /\ holder' = r
    /\ pc' = [pc EXCEPT ![r] = "sleep"]
    /\ UNCHANGED <<opened, printed, flushed, file, signals, killed, sole>>

\* flock waits until nobody holds the lock; fdopen.
Lock(r) ==
    /\ pc[r] = "lock" /\ opened[r] /\ holder = nobody
    /\ holder' = r
    /\ pc' = [pc EXCEPT ![r] = "print"]
    /\ UNCHANGED <<opened, printed, flushed, file, signals, killed, sole>>

\* flock(-1) fails.
LockFails(r) ==
    /\ pc[r] = "lock" /\ ~opened[r]
    /\ pc' = [pc EXCEPT ![r] = "sleep"]
    /\ UNCHANGED <<opened, printed, flushed, file, holder, signals, killed, sole>>

\* Slip: flock is not called again.
InterruptGoesOn(r) ==
    /\ signals < MaxSignals /\ signals' = signals + 1
    /\ pc[r] = "lock" /\ opened[r] /\ holder # nobody
    /\ pc' = [pc EXCEPT ![r] = "print"]
    /\ UNCHANGED <<opened, printed, flushed, file, holder, killed, sole>>

\* Ctrl-C makes a waiting flock fail.  The handler print_advertising_devices
\* has installed stays, so that is all it does.
Interrupt(r) ==
    /\ signals < MaxSignals /\ signals' = signals + 1
    /\ pc[r] = "lock" /\ opened[r] /\ holder # nobody
    /\ pc' = [pc EXCEPT ![r] = "sleep"]
    /\ UNCHANGED <<opened, printed, flushed, file, holder, killed, sole>>

Sleep(r) ==
    /\ pc[r] = "sleep"
    /\ pc' = [pc EXCEPT ![r] = "lock"]
    /\ UNCHANGED <<opened, printed, flushed, file, holder, signals, killed, sole>>

Larger(m, n) == IF m > n THEN m ELSE n

\* The file after run r has written what its buffer holds, at its own offset.
Written(r) ==
    [k \in 1 .. Larger(Len(file), printed[r]) |->
        IF k \in flushed[r] + 1 .. printed[r] THEN Cell(r, k)
        ELSE IF k <= Len(file) THEN file[k] ELSE Hole]

Flush(r) ==
    /\ file' = IF flushed[r] < printed[r] THEN Written(r) ELSE file
    /\ flushed' = [flushed EXCEPT ![r] = printed[r]]

\* The lines go into the buffer, which is written when it is full.
PrintLine(r) ==
    /\ pc[r] = "print" /\ printed[r] < Lines[r]
    /\ printed' = [printed EXCEPT ![r] = @ + 1]
    /\ IF printed[r] - flushed[r] >= BufSize THEN Flush(r)
                                             ELSE UNCHANGED <<file, flushed>>
    /\ UNCHANGED <<pc, opened, holder, signals, killed, sole>>

\* The lock is released while lines are still in the buffer.
Unlock(r) ==
    /\ pc[r] = "print" /\ printed[r] = Lines[r]
    /\ holder' = nobody
    /\ pc' = [pc EXCEPT ![r] = "close"]
    /\ UNCHANGED <<opened, printed, flushed, file, signals, killed, sole>>

\* fclose writes the rest; the close after it finds the descriptor closed.
Close(r) ==
    /\ pc[r] = "close"
    /\ Flush(r)
    /\ pc' = [pc EXCEPT ![r] = "done"]
    /\ UNCHANGED <<opened, printed, holder, signals, killed, sole>>

\* The kernel releases the lock of a run that is killed; its buffer is lost.
Kill(r) ==
    /\ killed < MaxKilled /\ killed' = killed + 1
    /\ pc[r] \notin {"done", "killed"}
    /\ pc' = [pc EXCEPT ![r] = "killed"]
    /\ holder' = IF holder = r THEN nobody ELSE holder
    /\ UNCHANGED <<opened, printed, flushed, file, signals, sole>>

\* What the program itself does.
Step(r) == \/ Open(r) \/ Lock(r) \/ LockFails(r) \/ Sleep(r) \/ PrintLine(r)
           \/ Unlock(r) \/ Close(r)

Ended(r) == pc[r] \in {"done", "killed"}

\* All runs are over.
Finished == (\A r \in Runs : Ended(r)) /\ UNCHANGED vars

Next == \/ \E r \in Runs : Step(r) \/ Interrupt(r) \/ Kill(r)
        \/ Finished

\* Every run is given time to go on.
Spec == Init /\ [][Next]_vars /\ \A r \in Runs : WF_vars(Step(r))

----------------------------------------------------------------------------
(***************************************************************************)
(* Properties                                                              *)
(***************************************************************************)

RunsOK ==
    /\ pc \in [Runs -> {"scan", "lock", "sleep", "print", "close", "done", "killed"}]
    /\ opened \in [Runs -> BOOLEAN]
    /\ printed \in [Runs -> Nat] /\ flushed \in [Runs -> Nat]
    /\ \A r \in Runs : flushed[r] <= printed[r] /\ printed[r] <= Lines[r]

FileOK == /\ file \in Seq([run : Runs \cup {nobody}, line : Nat])
          /\ holder \in Runs \cup {nobody} /\ sole \in Runs \cup {nobody}
          /\ signals \in Nat /\ killed \in Nat

TypeOK == RunsOK /\ FileOK

\* The lock does its work while lines are printed: two runs are never between
\* flock and the release at once, whoever is interrupted or killed.
OneWriter ==
    \A q, r \in Runs : pc[q] = "print" /\ pc[r] = "print" => q = r

\* A run that shares the file with no other leaves exactly its own lines there,
\* in their order and nothing of an earlier run, and all of them when it ends
\* by itself; when it is killed, the first ones.
ExactOutput ==
    sole # nobody =>
        /\ Len(file) = flushed[sole]
        /\ \A k \in 1 .. Len(file) : file[k] = Cell(sole, k)
        /\ pc[sole] = "done" => Len(file) = Lines[sole]

\* A run that could open the file ends, also when the holder of the lock is
\* killed or Ctrl-C interrupts the wait.
OpenedRunEnds == \A r \in Runs : pc[r] = "lock" /\ opened[r] ~> Ended(r)

\* "Unlock the file": the lock keeps runs from mixing their output, so that the
\* file a run leaves holds the lines of one run.
NotMixed ==
    (\A r \in Runs : pc[r] = "done") =>
        \A j, k \in DOMAIN file : file[j].run = file[k].run

----------------------------------------------------------------------------
(***************************************************************************)
(* The inductive invariant behind OneWriter and ExactOutput                *)
(***************************************************************************)

\* Whoever is between flock and the release holds the lock and has the file.
Holds == \A r \in Runs : /\ pc[r] = "print" <=> holder = r
                         /\ pc[r] \in {"print", "close", "done"} => opened[r]
                         /\ pc[r] = "scan" => ~opened[r]

\* What each run has printed, by where it is.
Progress ==
    \A r \in Runs : /\ pc[r] \in {"scan", "lock", "sleep"} => printed[r] = 0
                    /\ pc[r] \in {"close", "done"} => printed[r] = Lines[r]
                    /\ pc[r] = "done" => flushed[r] = Lines[r]

\* The only run that has the file has it alone.
Alone == sole # nobody => \A r \in Runs : Using(r) => r = sole

IInv == TypeOK /\ Holds /\ Progress /\ Alone /\ ExactOutput
=============================================================================
