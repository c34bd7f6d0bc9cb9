-------------------------- MODULE MCDeviceLookup --------------------------
(***************************************************************************)
(* Small instances of DeviceLookup: two adapters and names of every form.  *)
(***************************************************************************)
EXTENDS DeviceLookup

CONSTANTS null, x       \* the address 0 and another one

MCIds     == {0, 1}
MCBdAddrs == {null, x}

MCNames ==
    {[form |-> "hciN", id |-> 1, addr |-> null],
     [form |-> "hciText", id |-> 0, addr |-> null],
     [form |-> "colons", id |-> 0, addr |-> x],
     [form |-> "dots", id |-> 0, addr |-> x]}

Adapter(state, addr) == [state |-> state, raw |-> FALSE, addr |-> addr]

MCStates == {Adapter("absent", null), Adapter("down", x), Adapter("up", x),
             Adapter("up", null), [state |-> "up", raw |-> TRUE, addr |-> x]}

MCCounts == {1, 256}
=============================================================================
