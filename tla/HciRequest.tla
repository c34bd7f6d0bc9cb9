----------------------------- MODULE HciRequest -----------------------------
(***************************************************************************)
(* hci_send_req of bluez/hci.c at the granularity of its system calls, run *)
(* by a client that issues the requests of a script one after the other    *)
(* and stops at the first failure, as main of scanMijia, scanBeacons and   *)
(* lescan does.  The controller and the rest of the machine run            *)
(* concurrently: commands are answered at any time or never, events of     *)
(* other origin arrive whenever the filter lets them through, and the      *)
(* socket drops what does not fit.                                         *)
(***************************************************************************)
EXTENDS Hci, FiniteSets

CONSTANTS
    Scripts,        \* the sequences of requests the client may run
    Tries,          \* `try = 10`
    Slice,          \* `to -= 10`
    ForeignEvents,  \* events no request of the client caused
    MaxForeign,     \* bound on how many of them arrive
    MaxQueue        \* events the receive buffer of the socket holds

ASSUME TriesAssumption   == Tries \in Nat \ {0} /\ Slice \in Nat \ {0}
ASSUME BoundsAssumption  == MaxForeign \in Nat /\ MaxQueue \in Nat \ {0}

Requests == [opcode : (Nat \X Nat) \ {NoOpcode}, event : Nat, key : Nat,
             to : Nat, checked : BOOLEAN]
Events   == [evt : Nat, opcode : Nat \X Nat, status : {0, 1}, key : Nat,
             id : Nat]

ASSUME ScriptsAssumption == Scripts \subseteq Seq(Requests)
ASSUME ForeignAssumption ==
    ForeignEvents \subseteq {ev \in Events : ev.id = 0}

\* The tools pass 1000 and 10000 ms, more than the tries can use up.
ASSUME TimeAssumption ==
    \A s \in Scripts : \A c \in DOMAIN s : s[c].to > Slice * (Tries - 1)

\* No other process runs the same commands on the adapter at the same time:
\* hci_send_req could not tell their answers from its own.
ASSUME ExclusiveAssumption ==
    \A s \in Scripts : \A c \in DOMAIN s : \A ev \in ForeignEvents :
        ~Completes(s[c], ev) /\ ~Refuses(s[c], ev)

\* No wrapper waits for a command complete or an LE meta event as such: with
\* event 0 the former ends the request, and an LE command names a subevent.
ASSUME EventAssumption ==
    \A s \in Scripts : \A c \in DOMAIN s :
        s[c].event \notin {EVT_CMD_COMPLETE, EVT_LE_META_EVENT}

VARIABLES
    script,   \* the requests this run issues
    k,        \* index of the current one
    pc,       \* where the client is
    filter,   \* event filter of the socket
    of,       \* the filter hci_send_req saved
    queue,    \* events waiting on the socket
    tries,    \* `try`
    to,       \* `to`
    ret,      \* outcome the current call is about to return
    res,      \* what each call of a wrapper returned
    cmd,      \* what became of each command in the controller
    foreign   \* how many foreign events have arrived

clientVars == <<k, pc, filter, of, tries, to, ret, res>>
vars == <<script, clientVars, queue, cmd, foreign>>

Calls == 1 .. Len(script)
rq    == script[k]

Outcomes == {"none", "ok", "EIO", "ETIMEDOUT", "ESOCK"}
Fates    == {"unsent", "sent", "running", "done", "refused"}

Init ==
    /\ script \in Scripts
    /\ k = 1
    /\ pc = IF script = <<>> THEN "stopped" ELSE "ready"
    /\ filter = NoFilter /\ of = NoFilter
    /\ queue = <<>>
    /\ tries = 0 /\ to = 0
    /\ ret = "none"
    /\ res = [c \in Calls |-> "none"]
    /\ cmd = [c \in Calls |-> "unsent"]
    /\ foreign = 0

----------------------------------------------------------------------------
\* The client.

\* Slip: the caller goes on after a failure.
ReturnGoesOn(outcome) ==
    /\ res' = [res EXCEPT ![k] = outcome]
    /\ ret' = "none"
    /\ IF k < Len(script)
         THEN pc' = "ready" /\ k' = k + 1
         ELSE pc' = "stopped" /\ k' = k

\* The caller runs its next request, or stops after a failure or the last one.
Return(outcome) ==
    /\ res' = [res EXCEPT ![k] = outcome]
    /\ ret' = "none"
    /\ IF outcome = "ok" /\ k < Len(script)
         THEN pc' = "ready" /\ k' = k + 1
         ELSE pc' = "stopped" /\ k' = k

\* getsockopt or the first setsockopt fails: nothing to restore.
FilterFails ==
    /\ pc = "ready"
    /\ Return("ESOCK")
    /\ UNCHANGED <<script, filter, of, queue, tries, to, cmd, foreign>>

SetFilter ==
    /\ pc = "ready"
    /\ of' = filter
    /\ filter' = RequestFilter(rq)
    /\ pc' = "send"
    /\ UNCHANGED <<script, k, queue, tries, to, ret, res, cmd, foreign>>

Fail(outcome) == ret' = outcome /\ pc' = "restore"

\* Slip: `while (--try)`.
SendCmdOneTryLess ==
    /\ pc = "send"
    /\ cmd' = [cmd EXCEPT ![k] = "sent"]
    /\ tries' = Tries - 1
    /\ to' = rq.to
    /\ pc' = "loop"
    /\ UNCHANGED <<script, k, filter, of, queue, ret, res, foreign>>

SendCmd ==
    /\ pc = "send"
    /\ cmd' = [cmd EXCEPT ![k] = "sent"]
    /\ tries' = Tries
    /\ to' = rq.to
    /\ pc' = "loop"
    /\ UNCHANGED <<script, k, filter, of, queue, ret, res, foreign>>

\* Slip: read without poll.
NextTryUnpolled ==
    /\ pc = "loop"
    /\ tries > 0
    /\ tries' = tries - 1
    /\ pc' = "read"
    /\ UNCHANGED <<script, k, filter, of, queue, to, ret, res, cmd, foreign>>

\* Slip: the tries are not tested.
NextTryUntested ==
    /\ pc = "loop"
    /\ tries' = tries - 1
    /\ pc' = IF to # 0 THEN "poll" ELSE "read"
    /\ UNCHANGED <<script, k, filter, of, queue, to, ret, res, cmd, foreign>>

NextTry ==
    /\ pc = "loop"
    /\ tries > 0
    /\ tries' = tries - 1
    /\ pc' = IF to # 0 THEN "poll" ELSE "read"
    /\ UNCHANGED <<script, k, filter, of, queue, to, ret, res, cmd, foreign>>

GiveUp ==
    /\ pc = "loop"
    /\ tries = 0
    /\ Fail("ETIMEDOUT")
    /\ UNCHANGED <<script, k, filter, of, queue, tries, to, res, cmd, foreign>>

\* poll returns 1; the time it took is not measured, a fixed slice is charged.
PollReady ==
    /\ pc = "poll"
    /\ queue # <<>>
    /\ to' = IF to < Slice THEN 0 ELSE to - Slice
    /\ pc' = "read"
    /\ UNCHANGED <<script, k, filter, of, queue, tries, ret, res, cmd, foreign>>

\* Slip: a poll that returns 0 is taken for an interrupted one.
PollTimeoutRetried == pc = "poll" /\ queue = <<>> /\ UNCHANGED vars

PollTimeout ==
    /\ pc = "poll"
    /\ queue = <<>>
    /\ Fail("ETIMEDOUT")
    /\ UNCHANGED <<script, k, filter, of, queue, tries, to, res, cmd, foreign>>

\* writev, poll or read fails with an error other than EAGAIN and EINTR.
SocketError ==
    /\ pc \in {"send", "poll", "read"}
    /\ Fail("ESOCK")
    /\ UNCHANGED <<script, k, filter, of, queue, tries, to, res, cmd, foreign>>

ReadEvent ==
    /\ pc = "read"
    /\ queue # <<>>
    /\ queue' = Tail(queue)
    /\ LET ev == Head(queue)
       IN  \/ /\ Completes(rq, ev)
              /\ ret' = IF WrapperAccepts(rq, ev) THEN "ok" ELSE "EIO"
              /\ pc' = "restore"
           \/ /\ Refuses(rq, ev)
              /\ Fail("EIO")
           \/ /\ ~Completes(rq, ev) /\ ~Refuses(rq, ev)
              /\ pc' = "loop"
              /\ ret' = ret
    /\ UNCHANGED <<script, k, filter, of, tries, to, res, cmd, foreign>>

\* Slip: the saved filter is not put back.
RestoreForgotten ==
    /\ pc = "restore"
    /\ filter' = filter
    /\ Return(ret)
    /\ UNCHANGED <<script, of, queue, tries, to, cmd, foreign>>

\* Both exits put the saved filter back; what is queued stays queued.  The code
\* does not look at the result of this setsockopt, which is taken to succeed: it
\* sets a filter that getsockopt has just returned, on a socket that has taken
\* another one since.
Restore ==
    /\ pc = "restore"
    /\ filter' = of
    /\ Return(ret)
    /\ UNCHANGED <<script, of, queue, tries, to, cmd, foreign>>

\* The steps the process takes when no system call fails.
Progress == \/ SetFilter \/ SendCmd \/ NextTry \/ GiveUp \/ PollReady
            \/ PollTimeout \/ ReadEvent \/ Restore

Client == Progress \/ FilterFails \/ SocketError

----------------------------------------------------------------------------
\* The controller and the rest of the machine (outside the repository).

Deliver(ev) ==
    queue' = IF Passes(ev, filter) /\ Len(queue) < MaxQueue
               THEN Append(queue, ev) ELSE queue

Event(evt, opcode, status, key, id) ==
    [evt |-> evt, opcode |-> opcode, status |-> status, key |-> key, id |-> id]

\* LE commands are finished by a subevent of the LE meta event.
OGF_LE_CTL == 8

FinalEvent(c, status) ==
    LET r == script[c]
    IN  IF r.event = 0
          THEN Event(EVT_CMD_COMPLETE, r.opcode, status, 0, c)
        ELSE IF r.event = EVT_CMD_STATUS
          THEN Event(EVT_CMD_STATUS, r.opcode, status, 0, c)
        ELSE IF r.opcode[1] = OGF_LE_CTL
          THEN Event(EVT_LE_META_EVENT, NoOpcode, status, r.event, c)
        ELSE Event(r.event, NoOpcode, status, r.key, c)

\* A command with a final event of its own is first acknowledged.
Deferred(r) == r.event \notin {0, EVT_CMD_STATUS}

Accept(c) ==
    /\ cmd[c] = "sent"
    /\ Deferred(script[c])
    /\ cmd' = [cmd EXCEPT ![c] = "running"]
    /\ Deliver(Event(EVT_CMD_STATUS, script[c].opcode, 0, 0, c))
    /\ UNCHANGED <<script, clientVars, foreign>>

\* An unknown or disallowed command is answered with an error status.
Reject(c) ==
    /\ cmd[c] = "sent"
    /\ cmd' = [cmd EXCEPT ![c] = "refused"]
    /\ Deliver(Event(EVT_CMD_STATUS, script[c].opcode, 1, 0, c))
    /\ UNCHANGED <<script, clientVars, foreign>>

Finish(c) ==
    /\ cmd[c] = IF Deferred(script[c]) THEN "running" ELSE "sent"
    /\ \E status \in {0, 1} :
          /\ cmd' = [cmd EXCEPT ![c] = IF status = 0 THEN "done" ELSE "refused"]
          /\ Deliver(FinalEvent(c, status))
    /\ UNCHANGED <<script, clientVars, foreign>>

Controller == \E c \in Calls : Accept(c) \/ Reject(c) \/ Finish(c)

Foreign ==
    /\ foreign < MaxForeign
    /\ foreign' = foreign + 1
    /\ \E ev \in ForeignEvents : Deliver(ev)
    /\ UNCHANGED <<script, clientVars, cmd>>

Terminated == pc = "stopped" /\ UNCHANGED vars

Next == Client \/ Controller \/ Foreign \/ Terminated

\* A running process takes its steps; nothing is assumed of the controller, of
\* other processes or of the socket, and no system call has to fail.
Spec == Init /\ [][Next]_vars /\ WF_vars(Progress)

----------------------------------------------------------------------------
(***************************************************************************)
(* Properties                                                              *)
(***************************************************************************)

TypeOK ==
    /\ script \in Scripts
    /\ k \in Nat
    /\ pc \in {"ready", "send", "loop", "poll", "read", "restore", "stopped"}
    /\ pc # "stopped" => k \in Calls
    /\ filter \in [events : SUBSET (0 .. 63), opcode : Nat \X Nat]
    /\ of \in [events : SUBSET (0 .. 63), opcode : Nat \X Nat]
    /\ queue \in Seq(Events)
    /\ tries \in 0 .. Tries
    /\ to \in Nat
    /\ ret \in Outcomes
    /\ res \in [Calls -> Outcomes]
    /\ cmd \in [Calls -> Fates]
    /\ foreign \in 0 .. MaxForeign

\* A wrapper that looks at the status byte reports success only for a command
\* the controller carried out, and EIO only for one it refused: late answers,
\* acknowledgements and answers to an earlier command with the same opcode are
\* never taken for the answer (the opcode tests of hci_send_req together with
\* main stopping at the first failure).
AnswersAreTrue ==
    \A c \in Calls : script[c].checked =>
        /\ res[c] = "ok" => cmd[c] = "done"
        /\ res[c] = "EIO" => cmd[c] = "refused"

\* The answer to a wrapper that does not look at the status byte (its event is
\* 0, so it is a command complete) says only that the controller is finished
\* with the command; success is never reported for a command still pending.
SuccessMeansFinished ==
    \A c \in Calls : res[c] = "ok" => cmd[c] \in {"done", "refused"}

\* read is called only when an event is waiting.  The descriptor is blocking
\* and poll is skipped once `to` has been charged down to 0, so this is what
\* keeps hci_send_req from hanging on a controller that never answers.
ReadNeverBlocks == pc = "read" => queue # <<>>

\* Running out of tries, as opposed to out of time, takes at least Tries - 1
\* events of other origin: the answer to a command costs at most two tries.
ExhaustionNeedsNoise == pc = "loop" /\ tries = 0 => foreign >= Tries - 1

\* Whenever a call returns, the caller's own filter is in force again, on the
\* failing paths too: otherwise the scan loop would miss or misread events.
FilterRestored == pc \in {"ready", "stopped"} => filter = NoFilter

\* Every call returns, whatever the controller and other processes do.
Returns == <>(pc = "stopped")

\* The wrappers implement the abstract command interface.
Fate(f)    == IF f \in {"sent", "running"} THEN "pending" ELSE f
Verdict(o) == IF o \in {"EIO", "ETIMEDOUT", "ESOCK"} THEN "fail" ELSE o

fates    == [c \in Calls |-> Fate(cmd[c])]
verdicts == [c \in Calls |-> Verdict(res[c])]

Abstract == INSTANCE HciCommand WITH cmd <- fates, res <- verdicts

ImplementsHciCommand == Abstract!Spec

----------------------------------------------------------------------------
(***************************************************************************)
(* The inductive invariant behind the safety properties                    *)
(***************************************************************************)

\* The tries that are left can never use up the time that is left.
TimeLeft ==
    /\ pc = "loop" => to > Slice * (tries - 1)
    /\ pc = "poll" => to > Slice * tries
    /\ pc = "read" => to > Slice * (tries - 1)

\* Every command before the current one is settled and was reported a success,
\* every later one is unsent.
InOrder ==
    \A c \in Calls :
        /\ c < k => cmd[c] \in {"done", "refused"} /\ res[c] = "ok"
        /\ c > k => cmd[c] = "unsent"
        /\ c = k /\ pc \in {"ready", "send"} => cmd[c] = "unsent"
        /\ c > k \/ (c = k /\ pc # "stopped") => res[c] = "none"

IsAck(ev) == /\ Deferred(rq)
             /\ ev.evt = EVT_CMD_STATUS
             /\ ev.status = 0

\* While a call runs, every event of ours on the socket is about the current
\* command; the one that settles it tells the truth and is the last.
QueueTrue ==
    \A j \in DOMAIN queue :
        \/ queue[j].id = 0 /\ queue[j] \in ForeignEvents
        \/ queue[j].id # 0 /\ pc = "stopped"
        \/ /\ queue[j].id # 0
           /\ cmd[k] \notin {"unsent", "sent"}
           /\ \/ IsAck(queue[j])
              \/ /\ cmd[k] = IF queue[j].status = 0 THEN "done" ELSE "refused"
                 /\ \A m \in DOMAIN queue : m > j => queue[m].id = 0

\* A call about to succeed has read the last event of its command, and the
\* outcome it is about to return is true.
RetTrue ==
    /\ pc = "restore" /\ ret \in {"ok", "EIO"} =>
           /\ cmd[k] \in {"done", "refused"}
           /\ rq.checked => cmd[k] = IF ret = "ok" THEN "done" ELSE "refused"
    /\ pc = "restore" /\ ret = "ok" =>
           \A j \in DOMAIN queue : queue[j].id = 0

\* An event of ours is an acknowledgement or ends the current call.
Acknowledges(ev) == ev.id # 0 /\ IsAck(ev)
Ends(ev)         == ev.id # 0 /\ ~IsAck(ev)

AckWaits == \E j \in DOMAIN queue : Acknowledges(queue[j])
EndWaits == \E j \in DOMAIN queue : Ends(queue[j])

OneIf(P) == IF P THEN 1 ELSE 0

\* Events the current call has read; `try` is decremented before the read.
EventsRead == IF pc = "loop" THEN Tries - tries ELSE Tries - tries - 1

\* What waits on the socket, and what the current call has read so far, came
\* from somewhere: one acknowledgement, one end, and foreign events for the rest.
Counted ==
    pc # "stopped" =>
        /\ \A j \in DOMAIN queue : Ends(queue[j]) =>
               Completes(rq, queue[j]) \/ Refuses(rq, queue[j])
        /\ Len(queue) <= foreign + OneIf(AckWaits) + OneIf(EndWaits)
        /\ pc \in {"loop", "poll", "read"} =>
               EventsRead + Len(queue)
                 <= foreign + OneIf(cmd[k] \notin {"unsent", "sent"})
                            + OneIf(EndWaits)

IInv == TypeOK /\ ReadNeverBlocks /\ TimeLeft /\ InOrder /\ QueueTrue /\ RetTrue
        /\ AnswersAreTrue /\ SuccessMeansFinished /\ Counted
=============================================================================
