----------------------------- MODULE MCWrappers -----------------------------
(***************************************************************************)
(* HciRequest with the numbers of the code: ten tries, slices of 10 ms, a  *)
(* limit of 1000 ms, and each wrapper of bluez/hci.c in turn, while a      *)
(* sensor in range floods the socket with advertising reports.             *)
(***************************************************************************)
EXTENDS HciRequest, HciCommands

MCScripts == {<<w>> : w \in Wrappers}

MCForeignEvents == {Event(EVT_LE_META_EVENT, NoOpcode, 0, 2, 0)}
=============================================================================
