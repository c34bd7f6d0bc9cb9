-------------------------- MODULE HciRequest_proofs --------------------------
(***************************************************************************)
(* Proofs about hci_send_req as modelled by HciRequest: for every script   *)
(* of requests, every number of tries, every set of unrelated events and   *)
(* every size of the receive buffer.                                       *)
(***************************************************************************)
EXTENDS HciRequest, TLAPS

Filters == [events : SUBSET (0 .. 63), opcode : Nat \X Nat]

\* A script is a sequence of requests, and its filters and events are typed.
LEMMA ScriptType ==
    ASSUME TypeOK, NEW c \in Calls
    PROVE  /\ script[c] \in Requests
           /\ RequestFilter(script[c]) \in Filters
           /\ \A s \in {0, 1} :
                 /\ Event(EVT_CMD_STATUS, script[c].opcode, s, 0, c) \in Events
                 /\ FinalEvent(c, s) \in Events
           /\ NoFilter \in Filters
<1>1. script \in Seq(Requests)
  BY ScriptsAssumption DEF TypeOK
<1>2. script[c] \in Requests /\ c \in Nat
  BY <1>1 DEF Calls
<1>3. \A e \in Nat : FilterBit(e) \in 0 .. 63
  BY DEF FilterBit
<1>4. RequestFilter(script[c]) \in Filters
  BY <1>2, <1>3 DEF RequestFilter, Filters, Requests, EVT_CMD_STATUS,
     EVT_CMD_COMPLETE, EVT_LE_META_EVENT, NoOpcode
<1>5. NoFilter \in Filters
  BY DEF NoFilter, Filters, NoOpcode
<1>6. ASSUME NEW s \in {0, 1}
      PROVE  Event(EVT_CMD_STATUS, script[c].opcode, s, 0, c) \in Events
  BY <1>2 DEF Event, Events, Requests, EVT_CMD_STATUS
<1>7. ASSUME NEW s \in {0, 1}
      PROVE  FinalEvent(c, s) \in Events
  <2>1. script[c].opcode \in Nat \X Nat /\ script[c].event \in Nat
        /\ script[c].key \in Nat
    BY <1>2 DEF Requests
  <2>2. NoOpcode \in Nat \X Nat
    BY DEF NoOpcode
  <2> QED
    BY <1>2, <2>1, <2>2 DEF FinalEvent, Event, Events, EVT_CMD_COMPLETE,
       EVT_CMD_STATUS, EVT_LE_META_EVENT
<1> QED
  BY <1>2, <1>4, <1>5, <1>6, <1>7

\* An event is either dropped or put at the end of the queue.
LEMMA Delivery ==
    ASSUME NEW ev \in Events, queue \in Seq(Events), Deliver(ev)
    PROVE  /\ queue' \in Seq(Events)
           /\ \/ queue' = queue
              \/ /\ queue' = Append(queue, ev)
                 /\ DOMAIN queue' = DOMAIN queue \cup {Len(queue) + 1}
                 /\ queue'[Len(queue) + 1] = ev
                 /\ \A j \in DOMAIN queue : queue'[j] = queue[j]
           /\ queue # <<>> => queue' # <<>>
BY DEF Deliver

\* The initial state satisfies the invariant.
LEMMA InitTypeOK == Init => TypeOK
<1> SUFFICES ASSUME Init PROVE TypeOK
  OBVIOUS
<1>1. script \in Seq(Requests)
  BY ScriptsAssumption DEF Init
<1>2. script # <<>> => 1 \in Calls
  BY <1>1 DEF Calls
<1>3. NoFilter \in Filters
  BY DEF NoFilter, Filters, NoOpcode
<1>4. /\ queue \in Seq(Events)
      /\ res \in [Calls -> Outcomes]
      /\ cmd \in [Calls -> Fates]
  BY DEF Init, Outcomes, Fates
<1>5. /\ script \in Scripts /\ k \in Nat
      /\ pc \in {"ready", "stopped"}
      /\ pc # "stopped" => k \in Calls
  BY <1>2 DEF Init
<1>6. tries \in 0 .. Tries /\ foreign \in 0 .. MaxForeign /\ to \in Nat
  BY TriesAssumption, BoundsAssumption DEF Init
<1> QED
  BY <1>3, <1>4, <1>5, <1>6 DEF Init, TypeOK, Filters, Outcomes

----------------------------------------------------------------------------
\* Type correctness

LEMMA NextTypeOK == TypeOK /\ [Next]_vars => TypeOK'
<1> SUFFICES ASSUME TypeOK, [Next]_vars PROVE TypeOK'
  OBVIOUS
<1> USE DEF Filters
<1>0. script \in Seq(Requests)
  BY ScriptsAssumption DEF TypeOK
<1>1. CASE FilterFails
  BY <1>0, <1>1 DEF FilterFails, Return, TypeOK, Calls, Outcomes
<1>2. CASE SetFilter
  <2>1. k \in Calls
    BY <1>2 DEF SetFilter, TypeOK
  <2>2. RequestFilter(rq) \in Filters
    BY <2>1, ScriptType DEF rq
  <2> QED
    BY <1>2, <2>1, <2>2 DEF SetFilter, TypeOK, Calls
<1>3. CASE SendCmd
  <2>1. k \in Calls
    BY <1>3 DEF SendCmd, TypeOK
  <2>2. rq.to \in Nat
    BY <2>1, ScriptType DEF rq, Requests
  <2> QED
    BY <1>3, <2>1, <2>2, TriesAssumption DEF SendCmd, TypeOK, Calls, Fates
<1>4. CASE NextTry
  BY <1>4, TriesAssumption DEF NextTry, TypeOK, Calls
<1>5. CASE GiveUp
  BY <1>5 DEF GiveUp, Fail, TypeOK, Calls, Outcomes
<1>6. CASE PollReady
  BY <1>6, TriesAssumption DEF PollReady, TypeOK, Calls
<1>7. CASE PollTimeout
  BY <1>7 DEF PollTimeout, Fail, TypeOK, Calls, Outcomes
<1>8. CASE SocketError
  BY <1>8 DEF SocketError, Fail, TypeOK, Calls, Outcomes
<1>9. CASE ReadEvent
  <2>1. queue' \in Seq(Events)
    BY <1>9 DEF ReadEvent, TypeOK
  <2>2. ret' \in Outcomes /\ pc' \in {"restore", "loop"}
    BY <1>9 DEF ReadEvent, Fail, TypeOK, Outcomes
  <2> QED
    BY <1>9, <2>1, <2>2 DEF ReadEvent, TypeOK, Calls
<1>10. CASE Restore
  <2>1. res' \in [Calls -> Outcomes]
    BY <1>10 DEF Restore, Return, TypeOK
  <2>2. k' \in Nat /\ pc' \in {"ready", "stopped"} /\ ret' \in Outcomes
        /\ (pc' # "stopped" => k' \in Calls)
    BY <1>0, <1>10 DEF Restore, Return, TypeOK, Calls, Outcomes
  <2> QED
    BY <1>10, <2>1, <2>2 DEF Restore, TypeOK, Calls
<1>11. ASSUME NEW c \in Calls, Accept(c) \/ Reject(c) \/ Finish(c)
       PROVE  TypeOK'
  <2>1. queue' \in Seq(Events)
    BY <1>11, ScriptType, Delivery DEF Accept, Reject, Finish, TypeOK
  <2>2. cmd' \in [Calls -> Fates]
    BY <1>11 DEF Accept, Reject, Finish, TypeOK, Fates
  <2> QED
    BY <1>11, <2>1, <2>2 DEF Accept, Reject, Finish, TypeOK, clientVars, Calls
<1>12. CASE Foreign
  <2>1. PICK ev \in ForeignEvents : Deliver(ev)
    BY <1>12 DEF Foreign
  <2>2. queue' \in Seq(Events)
    BY <2>1, ForeignAssumption, Delivery DEF TypeOK
  <2> QED
    BY <1>12, <2>2, BoundsAssumption DEF Foreign, TypeOK, clientVars, Calls
<1>13. CASE UNCHANGED vars
  BY <1>13 DEF vars, clientVars, TypeOK, Calls
<1> QED
  BY <1>1, <1>2, <1>3, <1>4, <1>5, <1>6, <1>7, <1>8, <1>9, <1>10, <1>11,
     <1>12, <1>13
  DEF Next, Client, Progress, Controller, Terminated

\* Every variable of hci_send_req keeps its type.
THEOREM TypeCorrect == Spec => []TypeOK
<1>1. Init => TypeOK
  BY InitTypeOK
<1>2. TypeOK /\ [Next]_vars => TypeOK'
  BY NextTypeOK
<1> QED
  BY <1>1, <1>2, PTL DEF Spec

----------------------------------------------------------------------------
\* read never blocks

\* What the tries left can still charge.
LEMMA Charges ==
    ASSUME NEW n \in Nat
    PROVE  /\ Slice * n \in Nat
           /\ Slice * (n - 1) = Slice * n - Slice
           /\ n > 0 => Slice * (n - 1) >= 0
<1>1. Slice \in Nat
  BY TriesAssumption
<1>2. Slice * n \in Nat /\ Slice * (n - 1) = Slice * n - Slice
  BY <1>1
<1>3. n > 0 => n - 1 \in Nat
  OBVIOUS
<1> QED
  BY <1>1, <1>2, <1>3

LEMMA TimeStep ==
    ASSUME TypeOK, TimeLeft, ReadNeverBlocks, [Next]_vars
    PROVE  TimeLeft' /\ ReadNeverBlocks'
<1> USE DEF TimeLeft, ReadNeverBlocks
<1>0. tries \in Nat /\ to \in Nat /\ Slice \in Nat \ {0} /\ Tries \in Nat
  BY TriesAssumption DEF TypeOK
<1>1. CASE FilterFails
  BY <1>1 DEF FilterFails, Return
<1>2. CASE SetFilter
  BY <1>2 DEF SetFilter
<1>3. CASE SendCmd
  <2>1. k \in DOMAIN script /\ script \in Scripts
    BY <1>3, ScriptsAssumption DEF SendCmd, TypeOK, Calls
  <2>2. rq.to > Slice * (Tries - 1)
    BY <2>1, TimeAssumption DEF rq
  <2> QED
    BY <1>3, <2>2 DEF SendCmd
<1>4. CASE NextTry
  <2>1. Slice * (tries - 1) >= 0 /\ to > Slice * (tries - 1)
    BY <1>0, <1>4, Charges DEF NextTry
  <2>2. Slice * (tries - 1) \in Int
    BY <1>0
  <2>3. to # 0
    BY <1>0, <2>1, <2>2
  <2> QED
    BY <1>4, <2>1, <2>3 DEF NextTry
<1>5. CASE GiveUp
  BY <1>5 DEF GiveUp, Fail
<1>6. CASE PollReady
  <2>1. to > Slice * tries /\ Slice * tries \in Nat
        /\ Slice * (tries - 1) = Slice * tries - Slice
    BY <1>0, <1>6, Charges DEF PollReady
  <2>2. to' > Slice * (tries - 1)
    BY <1>0, <1>6, <2>1 DEF PollReady
  <2> QED
    BY <1>6, <2>2 DEF PollReady
<1>7. CASE PollTimeout
  BY <1>7 DEF PollTimeout, Fail
<1>8. CASE SocketError
  BY <1>8 DEF SocketError, Fail
<1>9. CASE ReadEvent
  BY <1>9 DEF ReadEvent, Fail
<1>10. CASE Restore
  BY <1>10 DEF Restore, Return
<1>11. ASSUME NEW c \in Calls, Accept(c) \/ Reject(c) \/ Finish(c)
       PROVE  TimeLeft' /\ ReadNeverBlocks'
  <2>1. queue # <<>> => queue' # <<>>
    BY <1>11, ScriptType, Delivery DEF Accept, Reject, Finish, TypeOK
  <2> QED
    BY <1>11, <2>1 DEF Accept, Reject, Finish, clientVars
<1>12. CASE Foreign
  <2>1. queue # <<>> => queue' # <<>>
    BY <1>12, ForeignAssumption, Delivery DEF Foreign, TypeOK
  <2> QED
    BY <1>12, <2>1 DEF Foreign, clientVars
<1>13. CASE UNCHANGED vars
  BY <1>13 DEF vars, clientVars
<1> QED
  BY <1>1, <1>2, <1>3, <1>4, <1>5, <1>6, <1>7, <1>8, <1>9, <1>10, <1>11,
     <1>12, <1>13
  DEF Next, Client, Progress, Controller, Terminated

\* hci_send_req never hangs in read: whenever it calls read an event is there,
\* for every time limit the tries cannot use up.
THEOREM NeverHangs == Spec => []ReadNeverBlocks
<1>1. Init => TimeLeft /\ ReadNeverBlocks
  BY DEF Init, TimeLeft, ReadNeverBlocks
<1>2. TypeOK /\ TimeLeft /\ ReadNeverBlocks /\ [Next]_vars
        => TimeLeft' /\ ReadNeverBlocks'
  BY TimeStep
<1> QED
  BY <1>1, <1>2, TypeCorrect, PTL DEF Spec

----------------------------------------------------------------------------
\* Answers are true

Truth == InOrder /\ QueueTrue /\ RetTrue /\ AnswersAreTrue

\* An event that ends the current call is its command's last one, and its
\* status byte tells what became of the command.
LEMMA EndingEvent ==
    ASSUME TypeOK, QueueTrue, pc = "read", queue # <<>>,
           Completes(rq, Head(queue)) \/ Refuses(rq, Head(queue))
    PROVE  /\ cmd[k] = IF Head(queue).status = 0 THEN "done" ELSE "refused"
           /\ \A m \in DOMAIN queue : m > 1 => queue[m].id = 0
<1>1. 1 \in DOMAIN queue /\ Head(queue) = queue[1]
  BY DEF TypeOK
<1>2. k \in DOMAIN script /\ script \in Scripts
  BY ScriptsAssumption DEF TypeOK, Calls
<1>3. queue[1].id # 0
  BY <1>1, <1>2, ExclusiveAssumption DEF QueueTrue, rq
<1>4. ~IsAck(queue[1])
  BY <1>1 DEF IsAck, Deferred, Completes, Refuses, EVT_CMD_STATUS,
     EVT_CMD_COMPLETE, EVT_REMOTE_NAME_REQ_COMPLETE, EVT_LE_META_EVENT
<1> QED
  BY <1>1, <1>3, <1>4 DEF QueueTrue

\* The client's steps that leave the queue, the command and k alone.
LEMMA QuietStep ==
    ASSUME TypeOK, Truth, UNCHANGED <<script, k, queue, res>>,
           pc \notin {"ready", "stopped", "restore"},
           pc' \in {"loop", "poll", "read", "restore"},
           cmd' = cmd, pc # "send",
           pc' = "restore" => ret' \notin {"ok", "EIO"}
    PROVE  Truth'
<1>1. InOrder'
  BY DEF Truth, InOrder, Calls
<1>2. QueueTrue'
  BY DEF Truth, QueueTrue, IsAck, rq
<1>3. RetTrue' /\ AnswersAreTrue'
  BY DEF Truth, RetTrue, AnswersAreTrue, Calls
<1> QED
  BY <1>1, <1>2, <1>3 DEF Truth

\* Before a command is sent the socket holds no event of ours.
LEMMA QuietSocket ==
    ASSUME TypeOK, Truth, pc \in {"ready", "send"}
    PROVE  /\ k \in Calls
           /\ cmd[k] = "unsent"
           /\ \A j \in DOMAIN queue : queue[j].id = 0 /\ queue[j] \in ForeignEvents
BY DEF TypeOK, Truth, InOrder, QueueTrue

LEMMA SetFilterStep ==
    ASSUME TypeOK, Truth, SetFilter PROVE Truth'
<1> USE DEF SetFilter
<1>1. InOrder'
  BY DEF Truth, InOrder, Calls
<1>2. QueueTrue'
  BY QuietSocket DEF QueueTrue
<1>3. RetTrue' /\ AnswersAreTrue'
  BY DEF Truth, RetTrue, AnswersAreTrue, Calls
<1> QED
  BY <1>1, <1>2, <1>3 DEF Truth

LEMMA SendCmdStep ==
    ASSUME TypeOK, Truth, SendCmd PROVE Truth'
<1> USE DEF SendCmd
<1>0. cmd \in [Calls -> Fates] /\ k \in Calls /\ Calls' = Calls
  BY DEF TypeOK, Calls
<1>1. InOrder'
  BY <1>0 DEF Truth, InOrder
<1>2. QueueTrue'
  BY QuietSocket DEF QueueTrue
<1>3. RetTrue' /\ AnswersAreTrue'
  BY <1>0, QuietSocket DEF Truth, RetTrue, AnswersAreTrue, InOrder
<1> QED
  BY <1>1, <1>2, <1>3 DEF Truth

LEMMA ReadStep ==
    ASSUME TypeOK, Truth, ReadEvent PROVE Truth'
<1> USE DEF ReadEvent
<1>0. queue \in Seq(Events) /\ queue # <<>> /\ k \in Calls
  BY DEF TypeOK
<1>1. \A j \in DOMAIN queue' : j + 1 \in DOMAIN queue /\ queue'[j] = queue[j + 1]
                               /\ j \in Nat
  BY <1>0
<1>2. pc' \in {"loop", "restore"}
  BY DEF Fail
<1>3. InOrder'
  BY <1>2 DEF Truth, InOrder, Calls
<1>4. QueueTrue'
  <2> SUFFICES ASSUME NEW j \in DOMAIN queue'
               PROVE  \/ queue'[j].id = 0 /\ queue'[j] \in ForeignEvents
                      \/ /\ queue'[j].id # 0
                         /\ cmd[k] \notin {"unsent", "sent"}
                         /\ \/ IsAck(queue'[j])
                            \/ /\ cmd[k] = IF queue'[j].status = 0
                                             THEN "done" ELSE "refused"
                               /\ \A m \in DOMAIN queue' :
                                     m > j => queue'[m].id = 0
    BY DEF QueueTrue, IsAck, rq
  <2>1. \A m \in DOMAIN queue' : m > j => m + 1 > j + 1
    BY <1>1
  <2> QED
    BY <1>1, <2>1 DEF Truth, QueueTrue
<1>5. RetTrue'
  <2>1. CASE pc' = "loop"
    BY <2>1 DEF RetTrue
  <2>2. CASE pc' = "restore"
    <3>1. Completes(rq, Head(queue)) \/ Refuses(rq, Head(queue))
      BY <2>2
    <3>2. /\ cmd[k] = IF Head(queue).status = 0 THEN "done" ELSE "refused"
          /\ \A m \in DOMAIN queue : m > 1 => queue[m].id = 0
      BY <3>1, EndingEvent DEF Truth
    <3>3. \A j \in DOMAIN queue' : queue'[j].id = 0
      BY <1>1, <3>2
    <3>4. ret' = "ok" => (rq.checked => Head(queue).status = 0)
      BY <2>2 DEF Fail, WrapperAccepts
    <3>5. ret' = "EIO" => Head(queue).status # 0
      BY <2>2 DEF Fail, WrapperAccepts, Refuses
    <3> QED
      BY <3>2, <3>3, <3>4, <3>5 DEF RetTrue, rq
  <2> QED
    BY <1>2, <2>1, <2>2
<1>6. AnswersAreTrue'
  BY DEF Truth, AnswersAreTrue, Calls
<1> QED
  BY <1>3, <1>4, <1>5, <1>6 DEF Truth

\* A call returns: FilterFails and Restore.
LEMMA ReturnStep ==
    ASSUME TypeOK, Truth, FilterFails \/ Restore PROVE Truth'
<1>0. /\ k \in Calls /\ k \in Nat /\ Calls' = Calls /\ script' = script
      /\ cmd' = cmd /\ queue' = queue /\ res \in [Calls -> Outcomes]
      /\ Len(script) \in Nat
  BY ScriptsAssumption DEF FilterFails, Restore, TypeOK, Calls
<1>1. PICK o \in Outcomes : /\ Return(o)
                            /\ o = "ESOCK" \/ (pc = "restore" /\ o = ret)
  BY DEF FilterFails, Restore, TypeOK, Outcomes
<1>2. res' = [res EXCEPT ![k] = o] /\ ret' = "none"
  BY <1>1 DEF Return
<1>3. AnswersAreTrue'
  BY <1>0, <1>1, <1>2 DEF Truth, AnswersAreTrue, RetTrue, rq
<1>4. RetTrue'
  BY <1>2 DEF RetTrue
<1>5. CASE o = "ok" /\ k < Len(script)
  <2>1. pc = "restore" /\ ret = "ok" /\ pc' = "ready" /\ k' = k + 1
    BY <1>1, <1>5 DEF Return
  <2>2. /\ cmd[k] \in {"done", "refused"}
        /\ \A j \in DOMAIN queue : queue[j].id = 0
    BY <2>1 DEF Truth, RetTrue
  <2>3. QueueTrue'
    BY <1>0, <2>2 DEF Truth, QueueTrue
  <2>4. InOrder'
    <3>1. res'[k] = "ok"
      BY <1>0, <1>2, <1>5
    <3> QED
      BY <1>0, <1>2, <2>1, <2>2, <3>1 DEF Truth, InOrder, Calls
  <2> QED
    BY <1>3, <1>4, <2>3, <2>4 DEF Truth
<1>6. CASE ~(o = "ok" /\ k < Len(script))
  <2>1. pc' = "stopped" /\ k' = k
    BY <1>1, <1>6 DEF Return
  <2>2. QueueTrue'
    BY <1>0, <2>1 DEF Truth, QueueTrue
  <2>3. InOrder'
    BY <1>0, <1>2, <2>1 DEF Truth, InOrder, Calls
  <2> QED
    BY <1>3, <1>4, <2>2, <2>3 DEF Truth
<1> QED
  BY <1>5, <1>6

\* What a step of the controller puts on the socket, if it fits.
LEMMA ControllerEvent ==
    ASSUME TypeOK, Truth, NEW c \in Calls, Accept(c) \/ Reject(c) \/ Finish(c)
    PROVE  /\ c = k
           /\ cmd[k] \in {"sent", "running"}
           /\ pc \notin {"ready", "send"}
           /\ \E ev \in Events :
                 /\ Deliver(ev)
                 /\ ev.id = c
                 /\ \/ /\ IsAck(ev)
                       /\ cmd[k] = "sent"
                       /\ cmd' = [cmd EXCEPT ![c] = "running"]
                    \/ /\ ~IsAck(ev)
                       /\ Completes(rq, ev) \/ Refuses(rq, ev)
                       /\ cmd' = [cmd EXCEPT ![c] =
                                     IF ev.status = 0 THEN "done" ELSE "refused"]
<1>1. cmd[c] \in {"sent", "running"} /\ c \in Nat /\ k \in Nat
  BY DEF Accept, Reject, Finish, TypeOK, Calls
<1>2. c = k
  BY <1>1 DEF Truth, InOrder
<1>3. pc \notin {"ready", "send"}
  BY <1>1, <1>2 DEF Truth, InOrder
<1>4. CASE Accept(c)
  <2> DEFINE ev == Event(EVT_CMD_STATUS, script[c].opcode, 0, 0, c)
  <2>1. ev \in Events /\ Deliver(ev) /\ ev.id = c /\ IsAck(ev)
    BY <1>2, <1>4, ScriptType DEF Accept, IsAck, Event, rq
  <2>2. cmd[k] = "sent" /\ cmd' = [cmd EXCEPT ![c] = "running"]
    BY <1>2, <1>4 DEF Accept
  <2> QED
    BY <1>1, <1>2, <1>3, <2>1, <2>2
<1>5. CASE Reject(c)
  <2> DEFINE ev == Event(EVT_CMD_STATUS, script[c].opcode, 1, 0, c)
  <2>1. ev \in Events /\ Deliver(ev)
    BY <1>5, ScriptType DEF Reject
  <2>2. /\ ev.id = c /\ ev.status = 1 /\ ev.evt = EVT_CMD_STATUS
        /\ ev.opcode = rq.opcode
    BY <1>2 DEF Event, rq
  <2>3. cmd' = [cmd EXCEPT ![c] = "refused"]
    BY <1>5 DEF Reject
  <2> HIDE DEF ev
  <2>4. (IF ev.status = 0 THEN "done" ELSE "refused") = "refused"
    BY <2>2
  <2>5. ~IsAck(ev) /\ (Completes(rq, ev) \/ Refuses(rq, ev))
    BY <2>2 DEF IsAck, Completes, Refuses
  <2> QED
    BY <1>1, <1>2, <1>3, <2>1, <2>2, <2>3, <2>4, <2>5
<1>6. CASE Finish(c)
  <2>1. PICK s \in {0, 1} :
           /\ cmd' = [cmd EXCEPT ![c] = IF s = 0 THEN "done" ELSE "refused"]
           /\ Deliver(FinalEvent(c, s))
    BY <1>6 DEF Finish
  <2> DEFINE ev == FinalEvent(c, s)
  <2>2. ev \in Events /\ Deliver(ev)
    BY <2>1, ScriptType
  <2>3. ev.id = c /\ ev.status = s
    BY DEF FinalEvent, Event
  <2>4. script[c].event \notin {EVT_CMD_COMPLETE, EVT_LE_META_EVENT}
    BY EventAssumption, ScriptsAssumption DEF TypeOK, Calls
  <2>5. ~IsAck(ev)
    BY <1>2, <2>4 DEF IsAck, Deferred, rq, FinalEvent, Event, EVT_CMD_STATUS,
       EVT_CMD_COMPLETE, EVT_LE_META_EVENT
  <2>6. Completes(rq, ev)
    BY <1>2, <2>4 DEF Completes, rq, FinalEvent, Event, EVT_CMD_STATUS,
       EVT_CMD_COMPLETE, EVT_LE_META_EVENT, EVT_REMOTE_NAME_REQ_COMPLETE
  <2> HIDE DEF ev
  <2>7. cmd' = [cmd EXCEPT ![c] = IF ev.status = 0 THEN "done" ELSE "refused"]
    BY <2>1, <2>3
  <2> QED
    BY <1>1, <1>2, <1>3, <2>2, <2>3, <2>5, <2>6, <2>7
<1> QED
  BY <1>4, <1>5, <1>6

LEMMA ControllerStep ==
    ASSUME TypeOK, Truth, NEW c \in Calls, Accept(c) \/ Reject(c) \/ Finish(c)
    PROVE  Truth'
<1>0. /\ k \in Nat /\ Calls' = Calls /\ cmd \in [Calls -> Fates]
      /\ UNCHANGED <<script, clientVars>>
      /\ c \in Nat \ {0}
      /\ queue \in Seq(Events)
  BY DEF Accept, Reject, Finish, TypeOK, Calls
<1>1. cmd[k] \in {"sent", "running"}
  BY ControllerEvent
<1>2. c = k
  BY ControllerEvent
<1>3. pc \notin {"ready", "send"}
  BY ControllerEvent
<1>4. PICK ev \in Events :
         /\ Deliver(ev)
         /\ ev.id = c
         /\ \/ IsAck(ev) /\ cmd' = [cmd EXCEPT ![c] = "running"]
            \/ cmd' = [cmd EXCEPT ![c] = IF ev.status = 0 THEN "done"
                                                          ELSE "refused"]
  BY ControllerEvent
<1>5. /\ cmd'[k] \in {"running", "done", "refused"}
      /\ \A b \in Calls : b # k => cmd'[b] = cmd[b]
  BY <1>0, <1>2, <1>4
<1>6. InOrder'
  BY <1>0, <1>3, <1>5 DEF Truth, InOrder, clientVars
<1>7. \A j \in DOMAIN queue :
         \/ queue[j].id = 0 /\ queue[j] \in ForeignEvents
         \/ queue[j].id # 0 /\ pc = "stopped"
         \/ queue[j].id # 0 /\ IsAck(queue[j])
  BY <1>1, <1>2 DEF Truth, QueueTrue
<1>8. \A e : IsAck(e)' <=> IsAck(e)
  BY <1>0 DEF IsAck, rq, clientVars
<1>9. QueueTrue'
  <2>1. CASE queue' = queue
    BY <1>0, <1>5, <1>7, <1>8, <2>1 DEF QueueTrue, IsAck, rq, clientVars
  <2>2. CASE queue' # queue
    <3>1. /\ DOMAIN queue' = DOMAIN queue \cup {Len(queue) + 1}
          /\ queue'[Len(queue) + 1] = ev
          /\ \A j \in DOMAIN queue : queue'[j] = queue[j]
      BY <1>0, <1>4, <2>2, Delivery
    <3>2. \A m \in DOMAIN queue' : ~(m > Len(queue) + 1)
      BY <1>0, <3>1
    <3>3. \/ IsAck(ev)
          \/ cmd'[k] = IF ev.status = 0 THEN "done" ELSE "refused"
      BY <1>0, <1>2, <1>4
    <3>4. ev.id # 0
      BY <1>0, <1>4
    <3> QED
      BY <1>0, <1>5, <1>7, <3>1, <3>2, <3>3, <3>4
      DEF QueueTrue, IsAck, rq, clientVars
  <2> QED
    BY <2>1, <2>2
<1>10. RetTrue' /\ AnswersAreTrue'
  BY <1>0, <1>1, <1>2, <1>5 DEF Truth, RetTrue, AnswersAreTrue, clientVars, rq
<1> QED
  BY <1>6, <1>9, <1>10 DEF Truth

LEMMA ForeignStep ==
    ASSUME TypeOK, Truth, Foreign PROVE Truth'
<1>0. /\ UNCHANGED <<script, clientVars, cmd>> /\ Calls' = Calls
      /\ queue \in Seq(Events)
  BY DEF Foreign, TypeOK, Calls
<1>1. PICK ev \in ForeignEvents : Deliver(ev)
  BY DEF Foreign
<1>2. ev \in Events /\ ev.id = 0
  BY ForeignAssumption
<1>3. InOrder' /\ AnswersAreTrue'
  BY <1>0 DEF Truth, InOrder, AnswersAreTrue, clientVars
<1>4. CASE queue' = queue
  BY <1>0, <1>3, <1>4 DEF Truth, QueueTrue, RetTrue, IsAck, rq, clientVars
<1>5. CASE queue' # queue
  <2>1. /\ DOMAIN queue' = DOMAIN queue \cup {Len(queue) + 1}
        /\ queue'[Len(queue) + 1] = ev
        /\ \A j \in DOMAIN queue : queue'[j] = queue[j]
    BY <1>0, <1>1, <1>2, <1>5, Delivery
  <2>2. QueueTrue'
    BY <1>0, <1>2, <2>1 DEF Truth, QueueTrue, IsAck, rq, clientVars
  <2>3. RetTrue'
    BY <1>0, <1>2, <2>1 DEF Truth, RetTrue, rq, clientVars
  <2> QED
    BY <1>3, <2>2, <2>3 DEF Truth
<1> QED
  BY <1>4, <1>5

LEMMA TruthStep ==
    ASSUME TypeOK, Truth, [Next]_vars PROVE Truth'
<1>1. CASE NextTry \/ GiveUp \/ PollReady \/ PollTimeout
  BY <1>1, QuietStep DEF NextTry, GiveUp, PollReady, PollTimeout, Fail
<1>2. CASE SocketError
  <2>1. CASE pc = "send"
    <3>1. cmd[k] = "unsent" /\ k \in Calls
      BY <2>1, QuietSocket
    <3>2. InOrder'
      BY <1>2, <2>1 DEF SocketError, Fail, Truth, InOrder, Calls
    <3>3. QueueTrue'
      BY <1>2, <2>1, QuietSocket DEF SocketError, QueueTrue
    <3>4. RetTrue' /\ AnswersAreTrue'
      BY <1>2 DEF SocketError, Fail, Truth, RetTrue, AnswersAreTrue, Calls
    <3> QED
      BY <3>2, <3>3, <3>4 DEF Truth
  <2>2. CASE pc # "send"
    BY <1>2, <2>2, QuietStep DEF SocketError, Fail
  <2> QED
    BY <2>1, <2>2
<1>3. CASE UNCHANGED vars
  BY <1>3 DEF vars, clientVars, Truth, InOrder, QueueTrue, RetTrue,
     AnswersAreTrue, IsAck, rq, Calls
<1> QED
  BY <1>1, <1>2, <1>3, SetFilterStep, SendCmdStep, ReadStep, ReturnStep,
     ControllerStep, ForeignStep
  DEF Next, Client, Progress, Controller, Terminated

\* The wrappers never mix answers up: success is reported only for a command
\* that was carried out and EIO only for one that was refused.
THEOREM AnswersTrue == Spec => []AnswersAreTrue
<1>1. Init => Truth
  BY DEF Init, Truth, InOrder, QueueTrue, RetTrue, AnswersAreTrue, Calls
<1>2. TypeOK /\ Truth /\ [Next]_vars => Truth'
  BY TruthStep
<1>3. Truth => AnswersAreTrue
  BY DEF Truth
<1> QED
  BY <1>1, <1>2, <1>3, TypeCorrect, PTL DEF Spec

\* A wrapper that does not look at the status byte never reports success for a
\* command that is still pending.
LEMMA FinishedStep ==
    ASSUME TypeOK, Truth, SuccessMeansFinished, [Next]_vars
    PROVE  SuccessMeansFinished'
<1> USE DEF SuccessMeansFinished
<1>1. Calls' = Calls /\ res \in [Calls -> Outcomes] /\ cmd \in [Calls -> Fates]
  <2>1. script' = script
    BY DEF Next, Client, Progress, SetFilter, SendCmd, NextTry, GiveUp,
       PollReady, PollTimeout, ReadEvent, Restore, FilterFails, SocketError,
       Controller, Accept, Reject, Finish, Foreign, Terminated, vars
  <2> QED
    BY <2>1 DEF TypeOK, Calls
<1>2. CASE FilterFails \/ Restore
  <2>1. PICK o \in Outcomes : /\ res' = [res EXCEPT ![k] = o] /\ cmd' = cmd
                              /\ o # "ok" \/ (pc = "restore" /\ o = ret)
    BY <1>2 DEF FilterFails, Restore, Return, TypeOK, Outcomes
  <2> QED
    BY <1>1, <2>1 DEF Truth, RetTrue
<1>3. CASE SendCmd
  <2>1. res[k] = "none"
    BY <1>3 DEF SendCmd, TypeOK, Truth, InOrder
  <2> QED
    BY <1>1, <1>3, <2>1 DEF SendCmd
<1>4. CASE SetFilter \/ NextTry \/ GiveUp \/ PollReady \/ PollTimeout
           \/ SocketError \/ ReadEvent \/ Foreign \/ UNCHANGED vars
  BY <1>1, <1>4 DEF SetFilter, NextTry, GiveUp, PollReady, PollTimeout,
     SocketError, ReadEvent, Foreign, vars, clientVars
<1>5. ASSUME NEW c \in Calls, Accept(c) \/ Reject(c) \/ Finish(c)
      PROVE  SuccessMeansFinished'
  <2>1. res' = res /\ cmd[c] \in {"sent", "running"}
    BY <1>5 DEF Accept, Reject, Finish, clientVars
  <2>2. \A b \in Calls : b # c => cmd'[b] = cmd[b]
    BY <1>1, <1>5 DEF Accept, Reject, Finish
  <2>3. res[c] # "ok"
    BY <2>1
  <2> QED
    BY <1>1, <2>1, <2>2, <2>3
<1> QED
  BY <1>2, <1>3, <1>4, <1>5 DEF Next, Client, Progress, Controller, Terminated

\* Success, checked or not, is reported only for a command the controller is
\* finished with.
THEOREM FinishedOnSuccess == Spec => []SuccessMeansFinished
<1>1. Init => Truth /\ SuccessMeansFinished
  BY DEF Init, Truth, InOrder, QueueTrue, RetTrue, AnswersAreTrue, Calls,
     SuccessMeansFinished
<1>2. TypeOK /\ Truth /\ SuccessMeansFinished /\ [Next]_vars
        => Truth' /\ SuccessMeansFinished'
  BY TruthStep, FinishedStep
<1> QED
  BY <1>1, <1>2, TypeCorrect, PTL DEF Spec

----------------------------------------------------------------------------
\* What the tries are spent on

\* Steps of the client that leave the socket and the current command alone.
LEMMA CountedQuiet ==
    ASSUME TypeOK, Counted, pc # "stopped", pc' # "stopped",
           UNCHANGED <<script, k, queue, cmd, foreign>>,
           pc' \in {"loop", "poll", "read"} =>
               pc \in {"loop", "poll", "read"} /\ EventsRead' = EventsRead
    PROVE  Counted'
<1>1. /\ AckWaits' = AckWaits /\ EndWaits' = EndWaits /\ rq' = rq
      /\ \A j \in DOMAIN queue : Ends(queue[j])' = Ends(queue[j])
  BY DEF AckWaits, EndWaits, Acknowledges, Ends, IsAck, rq
<1> QED
  BY <1>1 DEF Counted, OneIf

\* When every event on the socket is foreign, there are no more than arrived.
LEMMA ForeignOnly ==
    ASSUME TypeOK, Counted, pc # "stopped",
           \A j \in DOMAIN queue : queue[j].id = 0
    PROVE  /\ Len(queue) <= foreign
           /\ ~AckWaits /\ ~EndWaits
<1>1. ~AckWaits /\ ~EndWaits
  BY DEF AckWaits, EndWaits, Acknowledges, Ends
<1> QED
  BY <1>1 DEF TypeOK, Counted, OneIf

LEMMA CountedSend ==
    ASSUME TypeOK, Truth, Counted, SendCmd PROVE Counted'
<1>1. /\ pc = "send" /\ pc' = "loop" /\ tries' = Tries /\ queue' = queue
      /\ foreign' = foreign /\ rq' = rq
  BY DEF SendCmd, rq
<1>2. /\ \A j \in DOMAIN queue : queue[j].id = 0
      /\ Len(queue) <= foreign
  BY <1>1, QuietSocket, ForeignOnly
<1>3. ~AckWaits' /\ ~EndWaits' /\ \A j \in DOMAIN queue' : ~Ends(queue[j])'
  BY <1>1, <1>2 DEF AckWaits, EndWaits, Acknowledges, Ends
<1>4. EventsRead' = 0
  BY <1>1, TriesAssumption DEF EventsRead
<1>5. Len(queue) \in Nat /\ foreign \in Nat
  BY DEF TypeOK
<1>6. Counted'
  BY <1>1, <1>2, <1>3, <1>4, <1>5 DEF Counted, OneIf
<1> QED
  BY <1>6

LEMMA CountedRead ==
    ASSUME TypeOK, Truth, Counted, ReadEvent PROVE Counted'
<1>1. /\ pc = "read" /\ queue \in Seq(Events) /\ queue # <<>> /\ queue' = Tail(queue)
      /\ UNCHANGED <<script, k, tries, cmd, foreign>> /\ rq' = rq
      /\ foreign \in Nat /\ tries \in Nat /\ Tries \in Nat
  BY TriesAssumption DEF ReadEvent, TypeOK, rq
<1>2. /\ Len(queue) \in Nat \ {0} /\ Len(queue') = Len(queue) - 1
      /\ 1 \in DOMAIN queue /\ Head(queue) = queue[1]
      /\ \A j \in DOMAIN queue' : j + 1 \in DOMAIN queue /\ queue'[j] = queue[j + 1]
      /\ \A j \in DOMAIN queue : j = 1 \/ (j - 1 \in DOMAIN queue' /\ queue'[j - 1] = queue[j])
  BY <1>1
<1>3. \A e : /\ Ends(e)' <=> Ends(e)
             /\ Acknowledges(e)' <=> Acknowledges(e)
  BY <1>1 DEF Ends, Acknowledges, IsAck
<1>4. /\ AckWaits <=> Acknowledges(Head(queue)) \/ AckWaits'
      /\ EndWaits <=> Ends(Head(queue)) \/ EndWaits'
  BY <1>2, <1>3 DEF AckWaits, EndWaits
<1>5. ~(Acknowledges(Head(queue)) /\ Ends(Head(queue)))
  BY DEF Acknowledges, Ends
<1>6. \A j \in DOMAIN queue' : Ends(queue[j])' =>
         Completes(rq, queue[j])' \/ Refuses(rq, queue[j])'
  BY <1>1, <1>2, <1>3 DEF Counted
<1>7. Len(queue') <= foreign + OneIf(AckWaits') + OneIf(EndWaits')
  <2>1. Len(queue) <= foreign + OneIf(AckWaits) + OneIf(EndWaits)
    BY <1>1 DEF Counted
  <2> QED
    BY <1>1, <1>2, <1>4, <1>5, <2>1 DEF OneIf
<1>8. CASE pc' = "restore"
  BY <1>1, <1>6, <1>7, <1>8 DEF Counted, OneIf
<1>9. CASE pc' # "restore"
  <2>1. pc' = "loop" /\ ~Completes(rq, Head(queue)) /\ ~Refuses(rq, Head(queue))
    BY <1>9 DEF ReadEvent, Fail
  <2>2. ~Ends(Head(queue))
    BY <1>1, <1>2, <2>1 DEF Counted
  <2>3. EventsRead' = EventsRead + 1 /\ EventsRead \in Int
    BY <1>1, <2>1 DEF EventsRead
  <2>4. EventsRead + Len(queue) <= foreign + OneIf(cmd[k] \notin {"unsent", "sent"})
                                          + OneIf(EndWaits)
    BY <1>1 DEF Counted
  <2>5. EventsRead' + Len(queue') = EventsRead + Len(queue)
    BY <1>2, <2>3
  <2>6. EndWaits' = EndWaits
    BY <1>4, <2>2 DEF EndWaits
  <2> QED
    BY <1>1, <1>6, <1>7, <2>1, <2>4, <2>5, <2>6 DEF Counted, OneIf
<1> QED
  BY <1>8, <1>9

LEMMA CountedReturn ==
    ASSUME TypeOK, Truth, Counted, FilterFails \/ Restore PROVE Counted'
<1>1. CASE pc' = "stopped"
  BY <1>1 DEF Counted
<1>2. CASE pc' # "stopped"
  <2>1. /\ pc = "restore" /\ ret = "ok" /\ pc' = "ready"
        /\ queue' = queue /\ foreign' = foreign
    BY <1>2 DEF FilterFails, Restore, Return
  <2>2. \A j \in DOMAIN queue : queue[j].id = 0
    BY <2>1 DEF Truth, RetTrue
  <2>3. Len(queue) <= foreign
    BY <2>1, <2>2, ForeignOnly
  <2>4. \A j \in DOMAIN queue' : ~Ends(queue[j])'
    BY <2>1, <2>2 DEF Ends
  <2>5. ~AckWaits' /\ ~EndWaits'
    BY <2>1, <2>2 DEF AckWaits, EndWaits, Acknowledges, Ends
  <2>6. Len(queue) \in Nat /\ foreign \in Nat
    BY DEF TypeOK
  <2> QED
    BY <2>1, <2>3, <2>4, <2>5, <2>6 DEF Counted, OneIf
<1> QED
  BY <1>1, <1>2

\* An event that fits is put behind the ones that wait.
LEMMA Queued ==
    ASSUME TypeOK, NEW ev \in Events, Deliver(ev), UNCHANGED <<script, k>>
    PROVE  \/ /\ queue' = queue
              /\ AckWaits' = AckWaits /\ EndWaits' = EndWaits
           \/ /\ Len(queue') = Len(queue) + 1
              /\ \A j \in DOMAIN queue' :
                    queue'[j] = ev \/ (j \in DOMAIN queue /\ queue'[j] = queue[j])
              /\ AckWaits' = (AckWaits \/ Acknowledges(ev))
              /\ EndWaits' = (EndWaits \/ Ends(ev))
<1>1. \A e : /\ Ends(e)' <=> Ends(e)
             /\ Acknowledges(e)' <=> Acknowledges(e)
  BY DEF Ends, Acknowledges, IsAck, rq
<1>2. queue \in Seq(Events)
  BY DEF TypeOK
<1>3. CASE queue' = queue
  BY <1>1, <1>3 DEF AckWaits, EndWaits
<1>4. CASE queue' # queue
  <2>1. queue' = Append(queue, ev)
    BY <1>4 DEF Deliver
  <2>2. Len(queue') = Len(queue) + 1
    BY <1>2, <2>1
  <2>3. /\ DOMAIN queue' = DOMAIN queue \cup {Len(queue) + 1}
        /\ queue'[Len(queue) + 1] = ev
        /\ \A j \in DOMAIN queue : queue'[j] = queue[j]
    BY <1>2, <2>1
  <2>4. AckWaits' = (AckWaits \/ Acknowledges(ev))
    BY <1>1, <2>3 DEF AckWaits
  <2>5. EndWaits' = (EndWaits \/ Ends(ev))
    BY <1>1, <2>3 DEF EndWaits
  <2> QED
    BY <2>2, <2>3, <2>4, <2>5
<1> QED
  BY <1>3, <1>4
LEMMA CountedController ==
    ASSUME TypeOK, Truth, Counted, NEW c \in Calls,
           Accept(c) \/ Reject(c) \/ Finish(c)
    PROVE  Counted'
<1>0. /\ UNCHANGED <<script, clientVars, foreign>> /\ rq' = rq
      /\ k \in Calls /\ cmd \in [Calls -> Fates] /\ Calls' = Calls
      /\ Len(queue) \in Nat /\ foreign \in Nat
      /\ tries \in Nat /\ Tries \in Nat
  BY ControllerEvent, TriesAssumption
  DEF Accept, Reject, Finish, clientVars, TypeOK, rq, Calls
<1>1. PICK ev \in Events :
         /\ Deliver(ev)
         /\ ev.id # 0
         /\ \/ /\ IsAck(ev)
               /\ cmd[k] = "sent"
               /\ cmd'[k] = "running"
            \/ /\ ~IsAck(ev)
               /\ Completes(rq, ev) \/ Refuses(rq, ev)
               /\ cmd'[k] \in {"done", "refused"}
  <2>1. c # 0
    BY DEF Calls
  <2> QED
    BY <1>0, <2>1, ControllerEvent
<1>2. \A e : /\ Ends(e)' <=> Ends(e)
             /\ Acknowledges(e)' <=> Acknowledges(e)
  BY <1>0 DEF Ends, Acknowledges, IsAck, clientVars
<1>3. EventsRead' = EventsRead /\ EventsRead \in Int
  BY <1>0 DEF EventsRead, clientVars
<1>4. SUFFICES ASSUME pc # "stopped" PROVE Counted'
  BY <1>0 DEF Counted, clientVars
<1>5. cmd[k] \in {"sent", "running"}
  BY ControllerEvent
<1>6. ~EndWaits
  BY <1>4, <1>5 DEF EndWaits, Ends, Truth, QueueTrue
<1>7. cmd[k] = "sent" => ~AckWaits
  BY <1>4 DEF AckWaits, Acknowledges, Truth, QueueTrue
<1>8. \A j \in DOMAIN queue' : Ends(queue[j])' =>
         Completes(rq, queue[j])' \/ Refuses(rq, queue[j])'
  <2>1. \A j \in DOMAIN queue' :
           queue'[j] = ev \/ (j \in DOMAIN queue /\ queue'[j] = queue[j])
    BY <1>0, <1>1, Queued DEF clientVars
  <2> QED
    BY <1>0, <1>1, <1>2, <1>4, <2>1 DEF Counted, Ends
<1>9. Len(queue) <= foreign + OneIf(AckWaits) + OneIf(EndWaits)
  BY <1>4 DEF Counted
<1>10. pc \in {"loop", "poll", "read"} =>
          EventsRead + Len(queue)
            <= foreign + OneIf(cmd[k] \notin {"unsent", "sent"}) + OneIf(EndWaits)
  BY <1>4 DEF Counted
<1>11. CASE queue' = queue
  <2>1. AckWaits' = AckWaits /\ EndWaits' = EndWaits
    BY <1>2, <1>11 DEF AckWaits, EndWaits
  <2>2. OneIf(cmd[k] \notin {"unsent", "sent"}) <= OneIf(cmd'[k] \notin {"unsent", "sent"})
    BY <1>1 DEF OneIf
  <2> QED
    BY <1>0, <1>3, <1>8, <1>9, <1>10, <1>11, <2>1, <2>2
    DEF Counted, OneIf, clientVars
<1>12. CASE queue' # queue
  <2>1. /\ Len(queue') = Len(queue) + 1
        /\ AckWaits' = (AckWaits \/ Acknowledges(ev))
        /\ EndWaits' = (EndWaits \/ Ends(ev))
    BY <1>0, <1>1, <1>12, Queued DEF clientVars
  <2>2. CASE IsAck(ev)
    <3>1. /\ Acknowledges(ev) /\ ~Ends(ev)
          /\ cmd[k] = "sent" /\ cmd'[k] = "running"
      BY <1>1, <2>2 DEF Acknowledges, Ends
    <3>2. ~AckWaits /\ ~EndWaits /\ AckWaits' /\ ~EndWaits'
      BY <1>6, <1>7, <2>1, <3>1
    <3>3. Len(queue') <= foreign' + OneIf(AckWaits') + OneIf(EndWaits')
      BY <1>0, <1>9, <2>1, <3>2 DEF OneIf
    <3>4. pc \in {"loop", "poll", "read"} =>
             EventsRead' + Len(queue') <= foreign' + 1
      BY <1>0, <1>3, <1>10, <2>1, <3>1, <3>2 DEF OneIf
    <3> QED
      BY <1>0, <1>3, <1>8, <3>1, <3>2, <3>3, <3>4 DEF Counted, OneIf, clientVars
  <2>3. CASE ~IsAck(ev)
    <3>1. /\ ~Acknowledges(ev) /\ Ends(ev)
          /\ cmd'[k] \in {"done", "refused"}
      BY <1>1, <2>3 DEF Acknowledges, Ends
    <3>2. ~EndWaits /\ AckWaits' = AckWaits /\ EndWaits'
      BY <1>6, <2>1, <3>1 DEF AckWaits
    <3>3. Len(queue') <= foreign' + OneIf(AckWaits') + OneIf(EndWaits')
      BY <1>0, <1>9, <2>1, <3>2 DEF OneIf
    <3>4. pc \in {"loop", "poll", "read"} =>
             EventsRead' + Len(queue') <= foreign' + 2
      BY <1>0, <1>3, <1>10, <2>1, <3>1, <3>2 DEF OneIf
    <3> QED
      BY <1>0, <1>3, <1>8, <3>1, <3>2, <3>3, <3>4 DEF Counted, OneIf, clientVars
  <2> QED
    BY <2>2, <2>3
<1> QED
  BY <1>11, <1>12

LEMMA CountedForeign ==
    ASSUME TypeOK, Counted, Foreign PROVE Counted'
<1>0. /\ UNCHANGED <<script, clientVars, cmd>> /\ foreign' = foreign + 1
      /\ rq' = rq /\ Len(queue) \in Nat /\ foreign \in Nat
      /\ tries \in Nat /\ Tries \in Nat
  BY TriesAssumption DEF Foreign, TypeOK, rq, clientVars
<1>1. PICK ev \in ForeignEvents : Deliver(ev)
  BY DEF Foreign
<1>2. ev \in Events /\ ev.id = 0 /\ ~Ends(ev) /\ ~Acknowledges(ev)
  BY ForeignAssumption DEF Ends, Acknowledges
<1>3. \A e : Ends(e)' <=> Ends(e)
  BY <1>0 DEF Ends, IsAck, clientVars
<1>4. EventsRead' = EventsRead /\ EventsRead \in Int
  BY <1>0 DEF EventsRead, clientVars
<1>5. /\ AckWaits' = AckWaits /\ EndWaits' = EndWaits
      /\ Len(queue') \in {Len(queue), Len(queue) + 1}
      /\ \A j \in DOMAIN queue' :
            queue'[j] = ev \/ (j \in DOMAIN queue /\ queue'[j] = queue[j])
  BY <1>0, <1>1, <1>2, Queued DEF clientVars, AckWaits, EndWaits
<1>6. \A j \in DOMAIN queue' : pc # "stopped" /\ Ends(queue[j])' =>
         Completes(rq, queue[j])' \/ Refuses(rq, queue[j])'
  BY <1>0, <1>2, <1>3, <1>5 DEF Counted
<1> QED
  BY <1>0, <1>4, <1>5, <1>6 DEF Counted, OneIf, clientVars

LEMMA CountedStep ==
    ASSUME TypeOK, Truth, Counted, [Next]_vars PROVE Counted'
<1>0. tries \in Nat /\ Tries \in Nat
  BY TriesAssumption DEF TypeOK
<1>1. CASE SetFilter \/ GiveUp \/ PollTimeout \/ SocketError
  BY <1>1, CountedQuiet DEF SetFilter, GiveUp, PollTimeout, SocketError, Fail
<1>2. CASE NextTry \/ PollReady
  BY <1>0, <1>2, CountedQuiet DEF NextTry, PollReady, EventsRead
<1>3. CASE UNCHANGED vars
  BY <1>3 DEF vars, clientVars, Counted, AckWaits, EndWaits, Acknowledges, Ends,
     IsAck, rq, EventsRead
<1> QED
  BY <1>1, <1>2, <1>3, CountedSend, CountedRead, CountedReturn,
     CountedController, CountedForeign
  DEF Next, Client, Progress, Controller, Terminated

\* A request that runs out of tries was drowned by events of other origin: one
\* acknowledgement and one try are all its own answer can have cost.
THEOREM NoiseExhausts == Spec => []ExhaustionNeedsNoise
<1>1. Init => Truth /\ Counted
  BY BoundsAssumption
  DEF Init, Truth, InOrder, QueueTrue, RetTrue, AnswersAreTrue, Calls, Counted,
      OneIf, AckWaits, EndWaits
<1>2. TypeOK /\ Truth /\ Counted /\ [Next]_vars => Truth' /\ Counted'
  BY TruthStep, CountedStep
<1>3. TypeOK /\ Counted => ExhaustionNeedsNoise
  <2> SUFFICES ASSUME TypeOK, Counted, pc = "loop", tries = 0
               PROVE  foreign >= Tries - 1
    BY DEF ExhaustionNeedsNoise
  <2>1. EventsRead = Tries /\ Tries \in Nat /\ foreign \in Nat
    BY TriesAssumption DEF EventsRead, TypeOK
  <2>2. Len(queue) \in Nat /\ (EndWaits => Len(queue) >= 1)
    BY DEF TypeOK, EndWaits
  <2>3. Tries + Len(queue) <= foreign + 1 + OneIf(EndWaits)
    BY <2>1, <2>2 DEF Counted, OneIf
  <2> QED
    BY <2>1, <2>2, <2>3 DEF OneIf
<1> QED
  BY <1>1, <1>2, <1>3, TypeCorrect, PTL DEF Spec

----------------------------------------------------------------------------
\* The strengthened invariant the model checker examines holds in general.
THEOREM Invariant == Spec => []IInv
<1>1. Init => TimeLeft /\ ReadNeverBlocks /\ Truth /\ SuccessMeansFinished /\ Counted
  BY BoundsAssumption
  DEF Init, TimeLeft, ReadNeverBlocks, Truth, InOrder, QueueTrue, RetTrue,
      AnswersAreTrue, Calls, SuccessMeansFinished, Counted, OneIf, AckWaits,
      EndWaits
<1>2. TypeOK /\ TimeLeft /\ ReadNeverBlocks /\ Truth /\ SuccessMeansFinished
        /\ Counted /\ [Next]_vars
        => TimeLeft' /\ ReadNeverBlocks' /\ Truth' /\ SuccessMeansFinished'
           /\ Counted'
  BY TimeStep, TruthStep, FinishedStep, CountedStep
<1>3. TypeOK /\ TimeLeft /\ ReadNeverBlocks /\ Truth /\ SuccessMeansFinished
        /\ Counted => IInv
  BY DEF Truth, IInv
<1> QED
  BY <1>1, <1>2, <1>3, TypeCorrect, PTL DEF Spec

----------------------------------------------------------------------------
\* The filter of the socket

\* During a call the saved filter is that of the caller.
FilterSaved == /\ pc \in {"ready", "stopped"} => filter = NoFilter
               /\ pc \notin {"ready", "stopped"} => of = NoFilter

LEMMA FilterStep ==
    ASSUME TypeOK, FilterSaved, [Next]_vars PROVE FilterSaved'
<1> USE DEF FilterSaved
<1>1. CASE FilterFails \/ Restore
  BY <1>1 DEF FilterFails, Restore, Return
<1>2. CASE SetFilter
  BY <1>2 DEF SetFilter
<1>3. CASE SendCmd \/ NextTry \/ GiveUp \/ PollReady \/ PollTimeout \/ SocketError
  BY <1>3 DEF SendCmd, NextTry, GiveUp, PollReady, PollTimeout, SocketError, Fail
<1>4. CASE ReadEvent
  BY <1>4 DEF ReadEvent, Fail
<1>5. CASE Controller \/ Foreign \/ UNCHANGED vars
  BY <1>5 DEF Controller, Accept, Reject, Finish, Foreign, vars, clientVars
<1> QED
  BY <1>1, <1>2, <1>3, <1>4, <1>5 DEF Next, Client, Progress, Terminated

\* Whichever way a call of hci_send_req ends, the filter its caller had set is
\* in force again: nothing a controller or another process does prevents it.
THEOREM FilterComesBack == Spec => []FilterRestored
<1>1. Init => FilterSaved
  BY DEF Init, FilterSaved
<1>2. TypeOK /\ FilterSaved /\ [Next]_vars => FilterSaved'
  BY FilterStep
<1>3. FilterSaved => FilterRestored
  BY DEF FilterSaved, FilterRestored
<1> QED
  BY <1>1, <1>2, <1>3, TypeCorrect, PTL DEF Spec

----------------------------------------------------------------------------
\* Refinement of the abstract command interface

\* The wrappers that scanMijia, scanBeacons and lescan call, and nearly all the
\* others, look at the status byte.
AllChecked == \A s \in Scripts : \A c \in DOMAIN s : s[c].checked

\* One command or one answer changes at a time.
LEMMA MappedAt ==
    ASSUME TypeOK, script' = script
    PROVE  /\ DOMAIN fates = Calls /\ DOMAIN fates' = Calls
           /\ DOMAIN verdicts = Calls /\ DOMAIN verdicts' = Calls
           /\ cmd' = cmd => fates' = fates
           /\ res' = res => verdicts' = verdicts
           /\ \A c \in Calls : \A f \in Fates :
                 cmd' = [cmd EXCEPT ![c] = f] => fates' = [fates EXCEPT ![c] = Fate(f)]
           /\ \A c \in Calls : \A o \in Outcomes :
                 res' = [res EXCEPT ![c] = o]
                   => verdicts' = [verdicts EXCEPT ![c] = Verdict(o)]
<1>1. Calls' = Calls /\ cmd \in [Calls -> Fates] /\ res \in [Calls -> Outcomes]
  BY DEF TypeOK, Calls
<1>2. ASSUME NEW c \in Calls, NEW f \in Fates, cmd' = [cmd EXCEPT ![c] = f]
      PROVE  fates' = [fates EXCEPT ![c] = Fate(f)]
  BY <1>1, <1>2 DEF fates, Fate
<1>3. ASSUME NEW c \in Calls, NEW o \in Outcomes, res' = [res EXCEPT ![c] = o]
      PROVE  verdicts' = [verdicts EXCEPT ![c] = Verdict(o)]
  BY <1>1, <1>3 DEF verdicts, Verdict
<1> QED
  BY <1>1, <1>2, <1>3 DEF fates, verdicts

\* The calls before the current one were carried out and reported so.
LEMMA CarriedOut ==
    ASSUME TypeOK, Truth, AllChecked, k \in Calls
    PROVE  /\ \A b \in Calls : b < k => cmd[b] = "done" /\ res[b] = "ok"
           /\ pc # "stopped" => \A b \in Calls : b >= k => res[b] = "none"
<1>1. \A b \in Calls : script[b].checked
  BY ScriptsAssumption DEF TypeOK, AllChecked, Calls
<1>2. \A b \in Calls : b \in Nat
  BY DEF Calls
<1> QED
  BY <1>1, <1>2 DEF TypeOK, Truth, InOrder, AnswersAreTrue

LEMMA IssueStep ==
    ASSUME TypeOK, Truth, AllChecked, SendCmd PROVE Abstract!Issue(k)
<1>1. /\ k \in Calls /\ cmd[k] = "unsent" /\ pc # "stopped"
      /\ script' = script /\ res' = res
      /\ cmd' = [cmd EXCEPT ![k] = "sent"]
  BY QuietSocket DEF SendCmd
<1>2. /\ \A b \in Calls : b < k => fates[b] = "done" /\ verdicts[b] = "ok"
      /\ \A b \in Calls : b >= k => verdicts[b] = "none"
      /\ fates[k] = "unsent"
  BY <1>1, CarriedOut DEF fates, verdicts, Fate, Verdict
<1>3. /\ DOMAIN fates = Calls /\ verdicts' = verdicts
      /\ fates' = [fates EXCEPT ![k] = "pending"]
  BY <1>1, MappedAt DEF Fate, Fates
<1> QED
  BY <1>2, <1>3 DEF Abstract!Issue

\* Accept is invisible, Reject and Finish execute the command.
LEMMA ExecuteStep ==
    ASSUME TypeOK, Truth, NEW c \in Calls, Accept(c) \/ Reject(c) \/ Finish(c)
    PROVE  Abstract!Execute(c) \/ UNCHANGED <<fates, verdicts>>
<1>1. /\ script' = script /\ res' = res
      /\ cmd[c] \in {"sent", "running"} /\ cmd \in [Calls -> Fates]
  BY DEF Accept, Reject, Finish, clientVars, TypeOK
<1>2. verdicts' = verdicts /\ fates[c] = "pending"
  BY <1>1, MappedAt DEF fates, Fate
<1>3. PICK f \in {"running", "done", "refused"} : cmd' = [cmd EXCEPT ![c] = f]
  BY DEF Accept, Reject, Finish
<1>4. fates' = [fates EXCEPT ![c] = Fate(f)]
  <2>1. f \in Fates
    BY <1>3 DEF Fates
  <2> QED
    BY <1>1, <1>3, <2>1, MappedAt
<1>5. CASE f = "running"
  <2>1. Fate(f) = fates[c]
    BY <1>2, <1>5 DEF Fate
  <2>2. fates' = fates
    BY <1>4, <2>1 DEF fates
  <2> QED
    BY <1>2, <2>2
<1>6. CASE f # "running"
  BY <1>2, <1>3, <1>4, <1>6 DEF Abstract!Execute, Fate
<1> QED
  BY <1>5, <1>6

\* A call that returns succeeds or fails.
LEMMA AnswerStep ==
    ASSUME TypeOK, Truth, AllChecked, FilterFails \/ Restore
    PROVE  \/ Abstract!Succeed(k) \/ Abstract!Fail(k)
           \/ UNCHANGED <<fates, verdicts>>
<1>1. /\ k \in Calls /\ pc # "stopped" /\ script' = script /\ cmd' = cmd
      /\ k \in Nat
  BY DEF FilterFails, Restore, TypeOK, Calls
<1>2. PICK o \in Outcomes : /\ res' = [res EXCEPT ![k] = o]
                            /\ o = "ESOCK" \/ (pc = "restore" /\ o = ret)
  BY DEF FilterFails, Restore, Return, TypeOK, Outcomes
<1>3. /\ \A b \in Calls : b < k => verdicts[b] = "ok"
      /\ verdicts[k] = "none"
  BY <1>1, CarriedOut DEF verdicts, Verdict
<1>4. /\ fates' = fates /\ DOMAIN fates = Calls
      /\ verdicts' = [verdicts EXCEPT ![k] = Verdict(o)]
  BY <1>1, <1>2, MappedAt
<1>5. CASE o = "ok"
  <2>1. rq.checked
    BY <1>1, ScriptsAssumption DEF TypeOK, AllChecked, Calls, rq
  <2>2. fates[k] = "done"
    BY <1>1, <1>2, <1>5, <2>1 DEF Truth, RetTrue, fates, Fate
  <2> QED
    BY <1>3, <1>4, <1>5, <2>2 DEF Abstract!Succeed, Verdict
<1>6. CASE o = "none"
  BY <1>3, <1>4, <1>6 DEF Verdict, verdicts
<1>7. CASE o \notin {"ok", "none"}
  BY <1>3, <1>4, <1>7 DEF Abstract!Fail, Verdict, Outcomes
<1> QED
  BY <1>5, <1>6, <1>7

LEMMA MappedStep ==
    ASSUME TypeOK, Truth, AllChecked, [Next]_vars
    PROVE  [Abstract!Next]_(Abstract!vars)
<1> USE DEF Abstract!vars
<1>1. CASE SendCmd
  <2>1. k \in DOMAIN fates
    BY <1>1 DEF SendCmd, TypeOK, fates
  <2> QED
    BY <1>1, <2>1, IssueStep DEF Abstract!Next
<1>2. ASSUME NEW c \in Calls, Accept(c) \/ Reject(c) \/ Finish(c)
      PROVE  [Abstract!Next]_(Abstract!vars)
  <2>1. c \in DOMAIN fates
    BY DEF fates
  <2> QED
    BY <1>2, <2>1, ExecuteStep DEF Abstract!Next
<1>3. CASE FilterFails \/ Restore
  <2>1. k \in DOMAIN fates
    BY <1>3 DEF FilterFails, Restore, TypeOK, fates
  <2> QED
    BY <1>3, <2>1, AnswerStep DEF Abstract!Next
<1>4. CASE SetFilter \/ NextTry \/ GiveUp \/ PollReady \/ PollTimeout
           \/ SocketError \/ ReadEvent \/ Foreign \/ UNCHANGED vars
  <2>1. UNCHANGED <<script, cmd, res>>
    BY <1>4 DEF SetFilter, NextTry, GiveUp, PollReady, PollTimeout,
       SocketError, ReadEvent, Foreign, vars, clientVars
  <2> QED
    BY <2>1, MappedAt
<1> QED
  BY <1>1, <1>2, <1>3, <1>4
  DEF Next, Client, Progress, Controller, Terminated

\* What the wrappers promise, whatever happens on the socket: commands go out
\* one after the other, each only after the one before it was carried out and
\* reported so, and no caller is told of a success that did not happen.
THEOREM Refinement ==
    ASSUME AllChecked
    PROVE  Spec => ImplementsHciCommand
<1>1. Init => Abstract!Init
  BY DEF Init, Abstract!Init, fates, verdicts, Fate, Verdict
<1>2. Init => Truth
  BY DEF Init, Truth, InOrder, QueueTrue, RetTrue, AnswersAreTrue, Calls
<1>3. TypeOK /\ Truth /\ [Next]_vars => Truth'
  BY TruthStep
<1>4. TypeOK /\ Truth /\ [Next]_vars => [Abstract!Next]_(Abstract!vars)
  BY MappedStep
<1> QED
  BY <1>1, <1>2, <1>3, <1>4, TypeCorrect, PTL
  DEF Spec, ImplementsHciCommand, Abstract!Spec

----------------------------------------------------------------------------
(***************************************************************************)
(* How long a call can last                                                *)
(***************************************************************************)

\* The most steps one call takes: three for each try, and four more.
CallSteps == 3 * Tries + 4

\* The most steps the call in progress may still take.
CallLeft ==
    IF pc = "ready"        THEN CallSteps
    ELSE IF pc = "send"    THEN CallSteps - 1
    ELSE IF pc = "poll"    THEN 3 * tries + 4
    ELSE IF pc = "read"    THEN 3 * tries + 3
    ELSE IF pc = "loop"    THEN 3 * tries + 2
    ELSE IF pc = "restore" THEN 1
    ELSE 0

\* ... and the run, with the calls that follow.
StepsLeft == IF pc = "stopped" THEN 0 ELSE (Len(script) - k) * CallSteps + CallLeft

\* A step of the process leaves fewer of them, and nobody else's leaves more.
Advances ==
    /\ Client => StepsLeft' < StepsLeft
    /\ ~Client => StepsLeft' = StepsLeft

LEMMA StepsAreFinite == TypeOK => StepsLeft \in Nat
<1> SUFFICES ASSUME TypeOK PROVE StepsLeft \in Nat
  OBVIOUS
<1>1. Tries \in Nat /\ tries \in Nat /\ CallSteps \in Nat /\ CallLeft \in Nat
  BY TriesAssumption DEF TypeOK, CallSteps, CallLeft
<1>2. pc # "stopped" => Len(script) - k \in Nat
  BY ScriptsAssumption DEF TypeOK, Calls
<1>3. pc # "stopped" => (Len(script) - k) * CallSteps \in Nat
  <2>1. \A m, n \in Nat : m * n \in Nat
    OBVIOUS
  <2> QED
    BY <1>1, <1>2, <2>1
<1> QED
  BY <1>1, <1>3 DEF StepsLeft

LEMMA StepAdvances == TypeOK /\ [Next]_vars => [Advances]_vars
<1> SUFFICES ASSUME TypeOK, [Next]_vars PROVE Advances \/ UNCHANGED vars
  OBVIOUS
<1>0. Tries \in Nat /\ tries \in Nat /\ CallSteps \in Nat
  BY TriesAssumption DEF TypeOK, CallSteps
<1> DEFINE later == (Len(script) - k) * CallSteps
<1>1. pc # "stopped" => Len(script) \in Nat /\ k \in Nat /\ later \in Nat
  <2>1. pc # "stopped" => Len(script) \in Nat /\ Len(script) - k \in Nat
    BY ScriptsAssumption DEF TypeOK, Calls
  <2>2. \A m, n \in Nat : m * n \in Nat
    OBVIOUS
  <2> QED
    BY <1>0, <2>1, <2>2 DEF TypeOK
\* Within a call: the rank of the place falls.
<1>2. CASE SetFilter \/ SendCmd \/ NextTry \/ GiveUp \/ PollReady
           \/ PollTimeout \/ SocketError \/ ReadEvent
  <2>1. /\ script' = script /\ k' = k /\ pc # "stopped" /\ pc' # "stopped"
        /\ Client
    BY <1>2 DEF SetFilter, SendCmd, NextTry, GiveUp, PollReady, PollTimeout,
       SocketError, ReadEvent, Fail, Client, Progress
  <2>2. CallLeft' \in Nat /\ CallLeft \in Nat /\ CallLeft' < CallLeft
    BY <1>0, <1>2 DEF CallLeft, CallSteps, SetFilter, SendCmd, NextTry, GiveUp,
       PollReady, PollTimeout, SocketError, ReadEvent, Fail
  <2>3. later' = later
    BY <2>1
  <2>4. StepsLeft' = later + CallLeft' /\ StepsLeft = later + CallLeft
    BY <2>1 DEF StepsLeft, CallSteps
  <2>5. StepsLeft' < StepsLeft
    <3> HIDE DEF later
    <3> QED
      BY <1>1, <2>1, <2>2, <2>4
  <2> QED
    BY <2>1, <2>5 DEF Advances
\* At its end: the next call has less than this one took away.
<1>3. CASE FilterFails \/ Restore
  <2>1. pc \in {"ready", "restore"} /\ script' = script /\ Client
    BY <1>3 DEF FilterFails, Restore, Client, Progress
  <2>2. CallLeft \in Nat /\ CallLeft > 0 /\ StepsLeft = later + CallLeft
    BY <1>0, <2>1 DEF CallLeft, StepsLeft, CallSteps
  <2>3. CASE pc' = "stopped"
    <3>1. StepsLeft' = 0
      BY <2>3 DEF StepsLeft
    <3> HIDE DEF later
    <3> QED
      BY <1>1, <2>1, <2>2, <3>1 DEF Advances
  <2>4. CASE pc' # "stopped"
    <3>1. pc' = "ready" /\ k' = k + 1
      BY <1>3, <2>4 DEF FilterFails, Restore, Return
    <3>2. StepsLeft' = (Len(script) - (k + 1)) * CallSteps + CallSteps
      BY <2>1, <3>1 DEF StepsLeft, CallLeft, CallSteps
    <3>3. \A l, m, n \in Nat : (l - (m + 1)) * n + n = (l - m) * n
      OBVIOUS
    <3>4. StepsLeft' = later
      BY <1>0, <1>1, <2>1, <3>2, <3>3
    <3> HIDE DEF later
    <3> QED
      BY <1>1, <2>1, <2>2, <3>4 DEF Advances
  <2> QED
    BY <2>3, <2>4
\* Nobody else touches it.
<1>4. CASE Controller \/ Foreign
  <2>1. UNCHANGED <<script, clientVars>>
    BY <1>4 DEF Controller, Accept, Reject, Finish, Foreign
  <2>2. StepsLeft' = StepsLeft
    BY <2>1 DEF StepsLeft, CallLeft, clientVars
  <2>3. ~Client
    BY <2>1 DEF Client, Progress, SetFilter, SendCmd, NextTry, GiveUp,
       PollReady, PollTimeout, SocketError, ReadEvent, Restore, FilterFails,
       Return, Fail, clientVars
  <2> QED
    BY <2>2, <2>3 DEF Advances
<1> QED
  BY <1>2, <1>3, <1>4 DEF Next, Client, Progress, Terminated

\* Every call returns after a bounded number of steps of the process, whatever
\* arrives meanwhile and whichever system call fails: a run of n wrappers takes
\* n times CallSteps of them at most.
THEOREM CallsAreBounded ==
    Spec => /\ StepsLeft <= Len(script) * CallSteps
            /\ [](StepsLeft \in Nat)
            /\ [][Advances]_vars
<1>1. Init => StepsLeft <= Len(script) * CallSteps
  <2> SUFFICES ASSUME Init PROVE StepsLeft <= Len(script) * CallSteps
    OBVIOUS
  <2>1. Len(script) \in Nat /\ CallSteps \in Nat
    BY TriesAssumption, ScriptsAssumption DEF Init, CallSteps
  <2>2. \A m, n \in Nat : m * n \in Nat /\ (m - 1) * n + n = m * n
    OBVIOUS
  <2>3. \/ StepsLeft = 0
        \/ StepsLeft = (Len(script) - 1) * CallSteps + CallSteps
    BY DEF Init, StepsLeft, CallLeft
  <2>4. Len(script) * CallSteps \in Nat
        /\ (Len(script) - 1) * CallSteps + CallSteps = Len(script) * CallSteps
    BY <2>1, <2>2
  <2> QED
    BY <2>3, <2>4
<1> QED
  BY <1>1, StepsAreFinite, StepAdvances, TypeCorrect, PTL DEF Spec

=============================================================================
