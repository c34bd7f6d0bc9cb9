---------------------------- MODULE MCScanMijia ----------------------------
(***************************************************************************)
(* Small instances of ScanMijia: two sensors in range of one adapter.      *)
(***************************************************************************)
EXTENDS ScanMijia

CONSTANTS a, b, bad     \* two addresses and a word that is not one

MCAddrs == {a, b}

Event(sub, addr, length, type, bytes) ==
    [sub |-> sub, addr |-> addr, length |-> length, mijia |-> TRUE,
     type |-> type, bytes |-> bytes]

Both(addr, t, h)  == Event(2, addr, 25, 13, <<t, 1, h, 0>>)
Temp(addr, t)     == Event(2, addr, 23, 4, <<t, 0, 0, 0>>)
Humid(addr, h)    == Event(2, addr, 23, 6, <<h, 0, 0, 0>>)
Batt(addr, v)     == Event(2, addr, 22, 10, <<v, 0, 0, 0>>)
Unknown(addr)     == Event(2, addr, 22, 7, <<1, 1, 1, 1>>)
Other             == Event(1, a, 25, 13, <<1, 1, 1, 1>>)
Truncated(addr)   == Event(2, addr, 22, 13, <<0, 0, 0, 0>>)

TwoSensors  == {Both(a, 1, 2), Temp(a, 3), Batt(a, 4), Both(b, 7, 9), Unknown(b),
                Other}
AnyEvent    == {Truncated(a), Humid(a, 3), Batt(a, 0), Other}

MCBytes == {0, 255}

Opt(n, t) == [help |-> FALSE, n |-> n, t |-> t]
Help      == [help |-> TRUE, n |-> <<>>, t |-> <<>>]

NoTimeout   == {Opt(<<>>, <<>>), Opt(<<2>>, <<>>), Opt(<<0>>, <<>>), Help}
Mixed       == {Opt(<<2>>, <<1>>), Opt(<<1>>, <<>>), Opt(<<0>>, <<1>>),
                Opt(<<>>, <<1001>>), Help}

Lists       == {<<>>, <<a>>, <<a, b>>, <<b, bad>>}
OneDevice   == {<<a>>}
=============================================================================
