--------------------------- MODULE MCScanBeacons ---------------------------
(***************************************************************************)
(* Small instances of scanBeacons and lescan: events of one, two and three *)
(* reports.                                                                *)
(***************************************************************************)
EXTENDS Lescan

CONSTANTS a, b      \* two addresses

MCAddrs == {a, b}

Report(sub, addr, length, type, bytes) ==
    [sub |-> sub, addr |-> addr, length |-> length, mijia |-> TRUE,
     type |-> type, bytes |-> bytes]

Both(addr, t, h) == Report(2, addr, 25, 13, <<t, 1, h, 0>>)
Temp(addr, t)    == Report(2, addr, 23, 4, <<t, 0, 0, 0>>)
Batt(addr, v)    == Report(2, addr, 22, 10, <<v, 0, 0, 0>>)
Other            == Report(1, a, 25, 13, <<1, 1, 1, 1>>)

MCReports == {Both(a, 1, 2), Temp(a, 3), Batt(a, 10), Both(b, 7, 9), Other}
MCBytes   == {0, 10, 255}

MCEvents  == {<<Both(a, 1, 2)>>, <<Temp(a, 3)>>, <<Other>>,
              <<Both(a, 1, 2), Both(b, 7, 9)>>, <<Batt(a, 10), Both(a, 1, 2)>>}
Triples   == {<<Both(a, 1, 2), Temp(a, 3), Temp(a, 3)>>}

Opt(n, t)   == [help |-> FALSE, n |-> n, t |-> t]
Help        == [help |-> TRUE, n |-> <<>>, t |-> <<>>]
WithTimeout == {Opt(<<2>>, <<2>>)}
MCOptions   == WithTimeout \cup {Opt(<<1>>, <<>>), Help}
MCArgvs     == {<<>>, <<a>>, <<a, b>>}
OneDevice   == {<<a>>}
=============================================================================
