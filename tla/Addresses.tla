----------------------------- MODULE Addresses -----------------------------
(***************************************************************************)
(* Bluetooth addresses and their text forms (bluez/bluetooth.c): baswap,   *)
(* batostr, strtoba, ba2str, ba2strlc, str2ba, ba2oui and bachk.           *)
(*                                                                         *)
(* A text is a sequence of character codes.  The behaviours start with the *)
(* text of some address and damage it step by step, so that the functions  *)
(* are asked about texts that are almost addresses.                        *)
(***************************************************************************)
EXTENDS Integers, Sequences

CONSTANTS
    Size,           \* bytes of an address: 6
    Samples,        \* addresses
    Chars,          \* characters put into a text
    MaxEdits        \* bound on the changes to a text

Byte    == 0 .. 255
Address == [0 .. Size - 1 -> Byte]

ASSUME SizeAssumption    == Size \in Nat /\ Size >= 3     \* the OUI
ASSUME SamplesAssumption == Samples \subseteq Address

Colon == 58
Dash  == 45
Digits == 48 .. 57
Upper  == 65 .. 70
Lower  == 97 .. 102

isxdigit(c) == c \in Digits \cup Upper \cup Lower

\* %2.2X of a byte, and strtol of two digits.
high(b) == b \div 16
low(b)  == b % 16
digit(v) == IF v < 10 THEN 48 + v ELSE 55 + v

value(c) == IF c \in Digits THEN c - 48
            ELSE IF c \in Upper THEN c - 55 ELSE c - 87

\* Two digits for each of the first n bytes of b, with a separator between them.
Print16(n, b, separator) ==
    [p \in 1 .. 3 * n - 1 |->
        CASE p % 3 = 1 -> digit(high(b[p \div 3]))
          [] p % 3 = 2 -> digit(low(b[p \div 3]))
          [] p % 3 = 0 -> separator]

\* Slip: nothing is swapped.
baswapNot(a) == a

baswap(a) == [i \in 0 .. Size - 1 |-> a[Size - 1 - i]]

batostr(a) == Print16(Size, a, Colon)
ba2str(a)  == Print16(Size, [i \in 0 .. Size - 1 |-> a[Size - 1 - i]], Colon)
ba2oui(a)  == Print16(3, [i \in 0 .. Size - 1 |-> a[Size - 1 - i]], Dash)

\* %2.2x in place of %2.2X.
lower(c)    == IF c \in Upper THEN c + 32 ELSE c
ba2strlc(a) == [p \in 1 .. 3 * Size - 1 |-> lower(ba2str(a)[p])]

\* The loop of bachk: whether it runs from the start of s to its end.
Scanned(s) ==
    LET ok[p \in 1 .. Len(s) + 3] ==
            \/ p > Len(s)
            \/ /\ p + 1 <= Len(s)
               /\ isxdigit(s[p]) /\ isxdigit(s[p + 1])
               /\ p + 2 > Len(s) \/ (s[p + 2] = Colon /\ ok[p + 3])
    IN  ok[1]

\* Slip: the length is not tested.
bachkAnyLength(s) == Scanned(s)

bachk(s) == Len(s) = 3 * Size - 1 /\ Scanned(s)

\* Slip: the bytes are taken in the order of the text.
groupsForward(s) ==
    [i \in 0 .. Size - 1 |-> 16 * value(s[3 * i + 1]) + value(s[3 * i + 2])]

\* The loop of str2ba: the first two digits are the last byte.
groups(s) ==
    [i \in 0 .. Size - 1 |->
        LET p == 3 * (Size - 1 - i) IN 16 * value(s[p + 1]) + value(s[p + 2])]

\* A text that is refused gives the address 0.
str2ba(s) == IF bachk(s) THEN groups(s) ELSE [i \in 0 .. Size - 1 |-> 0]

strtoba(s) == baswap(str2ba(s))

----------------------------------------------------------------------------
VARIABLES ba, str, edits
vars == <<ba, str, edits>>

Init == ba \in Samples /\ str = ba2str(ba) /\ edits = 0

Damage == edits < MaxEdits /\ edits' = edits + 1 /\ UNCHANGED ba

Replace == /\ Damage
           /\ \E p \in DOMAIN str, c \in Chars : str' = [str EXCEPT ![p] = c]

Cut == Damage /\ \E n \in 0 .. Len(str) - 1 : str' = SubSeq(str, 1, n)

Extend == Damage /\ \E c \in Chars : str' = Append(str, c)

\* The text is used.
Used == edits = MaxEdits /\ UNCHANGED vars

Next == Replace \/ Cut \/ Extend \/ Used

Spec == Init /\ [][Next]_vars

----------------------------------------------------------------------------
(***************************************************************************)
(* Properties                                                              *)
(***************************************************************************)

\* bachk, which reads up to three characters at a time and looks for the end in
\* one place of the three, accepts "XX:XX:XX:XX:XX:XX" and nothing else.
AcceptsAddresses ==
    bachk(str) <=>
        /\ Len(str) = 3 * Size - 1
        /\ \A p \in DOMAIN str :
               IF p % 3 = 0 THEN str[p] = Colon ELSE isxdigit(str[p])

UpperCase(s) == [p \in DOMAIN s |-> IF s[p] \in Lower THEN s[p] - 32 ELSE s[p]]

\* What str2ba reads from a text, ba2str writes back, in capital letters: the
\* tool reports a sensor under the address it was given.
TextComesBack == bachk(str) => ba2str(str2ba(str)) = UpperCase(str)

\* Each of the two ways to write an address has its inverse, although one of
\* them writes the bytes backwards; the OUI is the start of the text.
AddressComesBack ==
    /\ str2ba(ba2str(ba)) = ba
    /\ str2ba(ba2strlc(ba)) = ba
    /\ strtoba(batostr(ba)) = ba
    /\ \A p \in DOMAIN ba2oui(ba) : p % 3 # 0 => ba2oui(ba)[p] = ba2str(ba)[p]
=============================================================================
