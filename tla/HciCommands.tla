---------------------------- MODULE HciCommands ----------------------------
(***************************************************************************)
(* The hci_* wrappers of bluez/hci.c as requests.  Each of them fills in a *)
(* struct hci_request, calls hci_send_req and looks, or does not look, at  *)
(* the status byte of the answer; that is all that distinguishes them for  *)
(* the caller.  The layout of the parameters they pack is left out.        *)
(***************************************************************************)
EXTENDS Hci

CONSTANTS
    Timeout,    \* the `to` the callers pass
    Peer        \* the peer address a remote-name request names

ASSUME WrapperAssumption == Timeout \in Nat /\ Peer \in Nat

Wrapper(ogf, ocf, event, checked) ==
    [opcode |-> <<ogf, ocf>>, event |-> event,
     key |-> IF event = EVT_REMOTE_NAME_REQ_COMPLETE THEN Peer ELSE 0,
     to |-> Timeout, checked |-> checked]

ConnectionCommands ==
    {Wrapper(1, 5, 3, TRUE),           \* create_connection
     Wrapper(1, 6, 5, TRUE)}           \* disconnect

WhiteListCommands ==
    {Wrapper(8, 17, 0, TRUE),          \* le_add_white_list
     Wrapper(8, 18, 0, TRUE),          \* le_rm_white_list
     Wrapper(8, 15, 0, TRUE),          \* le_read_white_list_size
     Wrapper(8, 16, 0, TRUE)}          \* le_clear_white_list

ResolvingListCommands ==
    {Wrapper(8, 39, 0, TRUE),          \* le_add_resolving_list
     Wrapper(8, 40, 0, TRUE),          \* le_rm_resolving_list
     Wrapper(8, 41, 0, TRUE),          \* le_clear_resolving_list
     Wrapper(8, 42, 0, TRUE),          \* le_read_resolving_list_size
     Wrapper(8, 45, 0, TRUE)}          \* le_set_address_resolution_enable

NameCommands ==
    {Wrapper(3, 20, 0, TRUE),          \* read_local_name
     Wrapper(3, 19, 0, FALSE),         \* write_local_name
     Wrapper(1, 25, EVT_REMOTE_NAME_REQ_COMPLETE, TRUE),
                                       \* read_remote_name_with_clock_offset
     Wrapper(1, 26, 0, FALSE)}         \* read_remote_name_cancel

RemoteInfoCommands ==
    {Wrapper(1, 29, 12, TRUE),         \* read_remote_version
     Wrapper(1, 27, 11, TRUE),         \* read_remote_features
     Wrapper(1, 28, 35, TRUE),         \* read_remote_ext_features
     Wrapper(1, 31, 28, TRUE)}         \* read_clock_offset

LocalInfoCommands ==
    {Wrapper(4, 1, 0, TRUE),           \* read_local_version
     Wrapper(4, 2, 0, TRUE),           \* read_local_commands
     Wrapper(4, 3, 0, TRUE),           \* read_local_features
     Wrapper(4, 4, 0, TRUE),           \* read_local_ext_features
     Wrapper(4, 9, 0, TRUE)}           \* read_bd_addr

ClassAndVoiceCommands ==
    {Wrapper(3, 35, 0, TRUE),          \* read_class_of_dev
     Wrapper(3, 36, 0, FALSE),         \* write_class_of_dev
     Wrapper(3, 37, 0, TRUE),          \* read_voice_setting
     Wrapper(3, 38, 0, FALSE),         \* write_voice_setting
     Wrapper(3, 57, 0, TRUE),          \* read_current_iac_lap
     Wrapper(3, 58, 0, FALSE)}         \* write_current_iac_lap

LinkKeyCommands ==
    {Wrapper(3, 13, 0, FALSE),         \* read_stored_link_key
     Wrapper(3, 17, 0, FALSE),         \* write_stored_link_key
     Wrapper(3, 18, 0, FALSE)}         \* delete_stored_link_key

SecurityCommands ==
    {Wrapper(1, 17, 6, TRUE),          \* authenticate_link
     Wrapper(1, 19, 8, TRUE),          \* encrypt_link
     Wrapper(1, 21, 9, TRUE)}          \* change_link_key

RoleAndParkCommands ==
    {Wrapper(2, 11, 18, TRUE),         \* switch_role
     Wrapper(2, 5, 20, TRUE),          \* park_mode
     Wrapper(2, 6, 20, TRUE)}          \* exit_park_mode

InquiryCommands ==
    {Wrapper(3, 66, 0, TRUE),          \* read_inquiry_scan_type
     Wrapper(3, 67, 0, TRUE),          \* write_inquiry_scan_type
     Wrapper(3, 68, 0, TRUE),          \* read_inquiry_mode
     Wrapper(3, 69, 0, TRUE)}          \* write_inquiry_mode

AfhAndResponseCommands ==
    {Wrapper(3, 72, 0, TRUE),          \* read_afh_mode
     Wrapper(3, 73, 0, TRUE),          \* write_afh_mode
     Wrapper(3, 81, 0, TRUE),          \* read_ext_inquiry_response
     Wrapper(3, 82, 0, TRUE)}          \* write_ext_inquiry_response

PairingAndPowerCommands ==
    {Wrapper(3, 85, 0, TRUE),          \* read_simple_pairing_mode
     Wrapper(3, 86, 0, TRUE),          \* write_simple_pairing_mode
     Wrapper(3, 87, 0, TRUE),          \* read_local_oob_data
     Wrapper(3, 88, 0, TRUE),          \* read_inq_response_tx_power_level
     Wrapper(3, 89, 0, TRUE)}          \* write_inquiry_transmit_power_level

LinkPolicyCommands ==
    {Wrapper(3, 45, 0, TRUE),          \* read_transmit_power_level
     Wrapper(2, 12, 0, TRUE),          \* read_link_policy
     Wrapper(2, 13, 0, TRUE)}          \* write_link_policy

SupervisionCommands ==
    {Wrapper(3, 54, 0, TRUE),          \* read_link_supervision_timeout
     Wrapper(3, 55, 0, TRUE),          \* write_link_supervision_timeout
     Wrapper(3, 63, 0, TRUE)}          \* set_afh_classification

LinkStatusCommands ==
    {Wrapper(5, 3, 0, TRUE),           \* read_link_quality
     Wrapper(5, 5, 0, TRUE),           \* read_rssi
     Wrapper(5, 6, 0, TRUE),           \* read_afh_map
     Wrapper(5, 7, 0, TRUE)}           \* read_clock

LeScanCommands ==
    {Wrapper(8, 12, 0, TRUE),          \* le_set_scan_enable
     Wrapper(8, 11, 0, TRUE),          \* le_set_scan_parameters
     Wrapper(8, 10, 0, TRUE)}          \* le_set_advertise_enable

LeConnectionCommands ==
    {Wrapper(8, 13, 1, TRUE),          \* le_create_conn
     Wrapper(8, 19, 3, TRUE),          \* le_conn_update
     Wrapper(8, 22, 4, TRUE)}          \* le_read_remote_features

Wrappers ==
    ConnectionCommands \cup WhiteListCommands \cup ResolvingListCommands
    \cup NameCommands \cup RemoteInfoCommands \cup LocalInfoCommands
    \cup ClassAndVoiceCommands \cup LinkKeyCommands \cup SecurityCommands
    \cup RoleAndParkCommands \cup InquiryCommands
    \cup AfhAndResponseCommands \cup PairingAndPowerCommands
    \cup LinkPolicyCommands \cup SupervisionCommands
    \cup LinkStatusCommands \cup LeScanCommands \cup LeConnectionCommands
=============================================================================
