-------------------------------- MODULE Hci --------------------------------
(***************************************************************************)
(* Vocabulary of the host controller interface as bluez/hci.c uses it:     *)
(* event codes, the per-socket event filter, and the part of hci_send_req  *)
(* that decides what one received event means for one pending request.     *)
(*                                                                         *)
(* A request is a record                                                   *)
(*   opcode   command it sends, <<ogf, ocf>>                               *)
(*   event    final event it waits for, 0 when memset left it zero         *)
(*   key      peer address, for the commands whose final event names one   *)
(*   to       time limit handed to hci_send_req, in milliseconds           *)
(*   checked  whether the wrapper looks at the status byte of the answer   *)
(* An event is a record                                                    *)
(*   evt      event code                                                   *)
(*   opcode   the command it reports on (command status and complete only) *)
(*   status   0 for success, 1 for any error code                          *)
(*   key      subevent code of an LE meta event, peer address of a         *)
(*            remote-name event, 0 otherwise                               *)
(*   id       ghost: the request that caused it, 0 when none of ours did   *)
(***************************************************************************)
EXTENDS Integers, Sequences

EVT_REMOTE_NAME_REQ_COMPLETE == 7
EVT_CMD_COMPLETE             == 14
EVT_CMD_STATUS               == 15
EVT_LE_META_EVENT            == 62

NoOpcode == <<0, 0>>

\* HCI_FLT_EVENT_BITS: the mask has one bit for each code modulo 64.
FilterBit(evt) == evt % 64

\* A new raw socket has an empty mask, so that nothing passes.
NoFilter == [events |-> {}, opcode |-> NoOpcode]

\* The filter hci_send_req installs for request r.
RequestFilter(r) ==
    [events |-> {FilterBit(e) : e \in {EVT_CMD_STATUS, EVT_CMD_COMPLETE,
                                       EVT_LE_META_EVENT, r.event}},
     opcode |-> r.opcode]

\* The kernel queues ev on a socket with filter f.  The opcode is compared for
\* command status and command complete only.
Passes(ev, f) ==
    /\ FilterBit(ev.evt) \in f.events
    /\ ev.evt \in {EVT_CMD_STATUS, EVT_CMD_COMPLETE} =>
           f.opcode \in {NoOpcode, ev.opcode}

----------------------------------------------------------------------------
\* The switch of hci_send_req.  An event that neither completes nor refuses
\* the request is skipped: the loop goes on with one try fewer.

\* Slip: the acknowledgement of a command is taken for its completion.
CompletesOnStatus(r, ev) ==
    \/ ev.evt \in {EVT_CMD_STATUS, EVT_CMD_COMPLETE} /\ ev.opcode = r.opcode
    \/ ev.evt = EVT_LE_META_EVENT /\ ev.key = r.event
    \/ ev.evt \notin {EVT_CMD_STATUS, EVT_CMD_COMPLETE, EVT_LE_META_EVENT}
       /\ ev.evt = r.event

\* `goto done`.
Completes(r, ev) ==
    \/ /\ ev.evt = EVT_CMD_STATUS
       /\ ev.opcode = r.opcode
       /\ r.event = EVT_CMD_STATUS
    \/ /\ ev.evt = EVT_CMD_COMPLETE
       /\ ev.opcode = r.opcode
    \/ /\ ev.evt = EVT_REMOTE_NAME_REQ_COMPLETE
       /\ ev.evt = r.event
       /\ ev.key = r.key
    \/ /\ ev.evt = EVT_LE_META_EVENT
       /\ ev.key = r.event
    \/ /\ ev.evt \notin {EVT_CMD_STATUS, EVT_CMD_COMPLETE,
                         EVT_REMOTE_NAME_REQ_COMPLETE, EVT_LE_META_EVENT}
       /\ ev.evt = r.event

\* `errno = EIO; goto failed`.
Refuses(r, ev) ==
    /\ ev.evt = EVT_CMD_STATUS
    /\ ev.opcode = r.opcode
    /\ r.event # EVT_CMD_STATUS
    /\ ev.status # 0

\* Slip: the status byte is not looked at.
WrapperTrusts(r, ev) == TRUE

\* What the hci_* wrapper returns for an answer that completed its request.
WrapperAccepts(r, ev) == r.checked => ev.status = 0
=============================================================================
