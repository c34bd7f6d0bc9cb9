---------------------------- MODULE MCHciRequest ----------------------------
(***************************************************************************)
(* Small instances of HciRequest.                                          *)
(***************************************************************************)
EXTENDS HciRequest

Req(opcode, event, key, time) ==
    [opcode |-> opcode, event |-> event, key |-> key, to |-> time,
     checked |-> TRUE]

Clear   == Req(<<8, 16>>, 0, 0, 30)
Enable  == Req(<<8, 12>>, 0, 0, 30)
Connect == Req(<<8, 13>>, 1, 0, 30)     \* finished by an LE subevent
Name    == Req(<<1, 25>>, EVT_REMOTE_NAME_REQ_COMPLETE, 5, 30)
Auth    == Req(<<1, 17>>, 6, 0, 30)     \* finished by an event of its own
Start   == Req(<<1, 1>>, EVT_CMD_STATUS, 0, 30)

\* Enabling and disabling the scan share an opcode.
MCScripts == {<<>>, <<Clear, Enable, Enable>>, <<Connect, Auth>>,
              <<Name, Start>>}

\* Reports and answers to other processes: none of them names our requests.
MCForeignEvents ==
    {Event(EVT_LE_META_EVENT, NoOpcode, 0, 2, 0),
     Event(EVT_CMD_COMPLETE, <<3, 20>>, 0, 0, 0),
     Event(EVT_REMOTE_NAME_REQ_COMPLETE, NoOpcode, 1, 9, 0)}
=============================================================================
