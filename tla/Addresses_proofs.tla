-------------------------- MODULE Addresses_proofs --------------------------
(***************************************************************************)
(* Proofs about Addresses: for every address of any size, reading gives    *)
(* back what was written, and bachk accepts the texts of addresses and no  *)
(* others.  Its loop is a recursive function: that the function is there   *)
(* and what it says follows by induction from the end of the text.         *)
(***************************************************************************)
EXTENDS Addresses, Summing_proofs, TLAPS

\* The two digits of a byte.
LEMMA Digits16 ==
    ASSUME NEW b \in Byte
    PROVE  16 * value(digit(high(b))) + value(digit(low(b))) = b
  <1>1. high(b) \in 0 .. 15 /\ low(b) \in 0 .. 15 /\ 16 * high(b) + low(b) = b
    BY DEF Byte, high, low
  <1>2. \A v \in 0 .. 15 : value(digit(v)) = v
    <2> SUFFICES ASSUME NEW v \in 0 .. 15 PROVE value(digit(v)) = v
      OBVIOUS
    <2>1. CASE v < 10
      <3>1. digit(v) = 48 + v /\ 48 + v \in Digits
        BY <2>1 DEF digit, Digits
      <3> QED
        BY <3>1 DEF value
    <2>2. CASE v >= 10
      <3>1. digit(v) = 55 + v /\ 55 + v \in Upper /\ 55 + v \notin Digits
        BY <2>2 DEF digit, Digits, Upper
      <3> QED
        BY <3>1 DEF value
    <2> QED
      BY <2>1, <2>2
  <1> QED
    BY <1>1, <1>2

\* The digits of byte g of the text stand at 3g + 1 and 3g + 2.
LEMMA Places16 ==
    ASSUME NEW b \in Address, NEW sep, NEW g \in 0 .. Size - 1
    PROVE  /\ Print16(Size, b, sep)[3 * g + 1] = digit(high(b[g]))
           /\ Print16(Size, b, sep)[3 * g + 2] = digit(low(b[g]))
  <1>1. /\ 3 * g + 1 \in 1 .. 3 * Size - 1 /\ 3 * g + 2 \in 1 .. 3 * Size - 1
        /\ (3 * g + 1) % 3 = 1 /\ (3 * g + 2) % 3 = 2
        /\ (3 * g + 1) \div 3 = g /\ (3 * g + 2) \div 3 = g
    BY SizeAssumption
  <1> QED
    BY <1>1 DEF Print16

\* Reading a printed text gives the bytes in reverse order.
LEMMA ReadsReversed ==
    ASSUME NEW b \in Address, NEW sep
    PROVE  groups(Print16(Size, b, sep)) = baswap(b)
  <1> DEFINE s == Print16(Size, b, sep)
  <1>1. ASSUME NEW i \in 0 .. Size - 1
        PROVE  16 * value(s[3 * (Size - 1 - i) + 1])
                 + value(s[3 * (Size - 1 - i) + 2]) = b[Size - 1 - i]
    <2>1. Size - 1 - i \in 0 .. Size - 1
      BY SizeAssumption
    <2>2. b[Size - 1 - i] \in Byte
      BY <2>1 DEF Address
    <2>3. /\ s[3 * (Size - 1 - i) + 1] = digit(high(b[Size - 1 - i]))
          /\ s[3 * (Size - 1 - i) + 2] = digit(low(b[Size - 1 - i]))
      BY <2>1, Places16
    <2> QED
      BY <2>2, <2>3, Digits16
  <1> HIDE DEF s
  <1>2. groups(s) = baswap(b)
    BY <1>1 DEF groups, baswap
  <1> QED
    BY <1>2 DEF s

\* baswap undoes itself, for addresses of any size.
THEOREM SwapTwice == \A a \in Address : baswap(a) \in Address /\ baswap(baswap(a)) = a
  <1> SUFFICES ASSUME NEW a \in Address
               PROVE  baswap(a) \in Address /\ baswap(baswap(a)) = a
    OBVIOUS
  <1>1. \A i \in 0 .. Size - 1 : /\ Size - 1 - i \in 0 .. Size - 1
                                 /\ Size - 1 - (Size - 1 - i) = i
    BY SizeAssumption
  <1> QED
    BY <1>1 DEF baswap, Address

\* What the loop of str2ba reads from the text ba2str writes is the address:
\* the sensor named on the command line is the one in the output.
THEOREM StrInvertsBa == \A a \in Address : groups(ba2str(a)) = a
  <1> SUFFICES ASSUME NEW a \in Address PROVE groups(ba2str(a)) = a
    OBVIOUS
  <1>1. ba2str(a) = Print16(Size, baswap(a), Colon)
    BY DEF ba2str, baswap
  <1> QED
    BY <1>1, SwapTwice, ReadsReversed

\* strtoba, which swaps what it reads, undoes batostr, which writes the bytes
\* in the order of the memory.
THEOREM BaInvertsStr == \A a \in Address : baswap(groups(batostr(a))) = a
  BY SwapTwice, ReadsReversed DEF batostr

----------------------------------------------------------------------------
(***************************************************************************)
(* What the loop of bachk accepts                                          *)
(***************************************************************************)

\* One round of the loop at p, when ok says where the loop gets through.
Round(s, ok, p) ==
    \/ p > Len(s)
    \/ /\ p + 1 <= Len(s)
       /\ isxdigit(s[p]) /\ isxdigit(s[p + 1])
       /\ p + 2 > Len(s) \/ (s[p + 2] = Colon /\ ok[p + 3])

\* From p to the end there are groups of two digits, with a colon between them
\* and perhaps one behind them.
Groups(s, p) ==
    \/ p > Len(s)
    \/ /\ (Len(s) - p) % 3 # 0
       /\ \A q \in p .. Len(s) : IF (q - p) % 3 = 2 THEN s[q] = Colon
                                 ELSE isxdigit(s[q])

LEMMA GroupsRound ==
    ASSUME NEW s, Len(s) \in Nat, NEW p \in 1 .. Len(s)
    PROVE  Groups(s, p) <=>
             /\ p + 1 <= Len(s)
             /\ isxdigit(s[p]) /\ isxdigit(s[p + 1])
             /\ p + 2 > Len(s) \/ (s[p + 2] = Colon /\ Groups(s, p + 3))
<1> DEFINE n == Len(s)
           Fits(q, o) == IF (q - o) % 3 = 2 THEN s[q] = Colon
                         ELSE isxdigit(s[q])
<1>0. n \in Nat /\ p \in Nat /\ p >= 1 /\ p <= n
  OBVIOUS
<1>1. CASE n = p
  <2>1. (n - p) % 3 = 0
    BY <1>0, <1>1
  <2> QED
    BY <1>0, <1>1, <2>1 DEF Groups
<1>2. CASE n = p + 1
  <2>1. (n - p) % 3 # 0 /\ (p - p) % 3 = 0 /\ ((p + 1) - p) % 3 = 1
        /\ p .. n = {p, p + 1}
    BY <1>0, <1>2
  <2> QED
    BY <1>0, <1>2, <2>1 DEF Groups
<1>3. CASE n >= p + 2
  <2>1. /\ (p - p) % 3 = 0 /\ ((p + 1) - p) % 3 = 1 /\ ((p + 2) - p) % 3 = 2
        /\ p .. n = {p, p + 1, p + 2} \cup (p + 3 .. n)
    BY <1>0, <1>3
  <2>2. \A q \in p + 3 .. n : (q - p) % 3 = (q - (p + 3)) % 3
    BY <1>0, <1>3
  <2>3. (\A q \in p .. n : Fits(q, p)) <=>
          /\ isxdigit(s[p]) /\ isxdigit(s[p + 1]) /\ s[p + 2] = Colon
          /\ \A q \in p + 3 .. n : Fits(q, p + 3)
    BY <2>1, <2>2
  <2>4. CASE n = p + 2
    <3>1. p + 3 > n /\ (n - p) % 3 # 0 /\ p + 3 .. n = {}
      BY <1>0, <2>4
    <3> QED
      BY <1>0, <1>3, <2>3, <2>4, <3>1 DEF Groups
  <2>5. CASE n > p + 2
    <3>1. /\ ~ (p + 3 > n) /\ ~ (p > n) /\ ~ (p + 2 > n) /\ p + 1 <= n
          /\ (n - p) % 3 = (n - (p + 3)) % 3
      BY <1>0, <2>5
    <3>2. Groups(s, p + 3) <=> /\ (n - (p + 3)) % 3 # 0
                               /\ \A q \in p + 3 .. n : Fits(q, p + 3)
      BY <3>1 DEF Groups
    <3>3. Groups(s, p) <=> /\ (n - p) % 3 # 0
                           /\ \A q \in p .. n : Fits(q, p)
      BY <3>1 DEF Groups
    <3> HIDE DEF Fits
    <3> QED
      BY <2>3, <3>1, <3>2, <3>3
  <2> QED
    BY <1>0, <1>3, <2>4, <2>5
<1> QED
  BY <1>0, <1>1, <1>2, <1>3

\* The recursive function that stands for the loop is there, and it says where
\* the groups are: by induction from the end of the text.
LEMMA ScannedIsGroups ==
    ASSUME NEW s, Len(s) \in Nat PROVE Scanned(s) <=> Groups(s, 1)
<1> DEFINE n == Len(s)
           D == 1 .. n + 3
           F == [p \in D |-> Groups(s, p)]
           Loop(f) == f = [p \in D |-> Round(s, f, p)]
<1>0. n \in Nat
  OBVIOUS
<1>1. \A p \in D : Groups(s, p) = Round(s, F, p)
  <2> SUFFICES ASSUME NEW p \in D PROVE Groups(s, p) = Round(s, F, p)
    OBVIOUS
  <2>1. Groups(s, p) \in BOOLEAN /\ Round(s, F, p) \in BOOLEAN
    BY Zenon DEF Groups, Round
  <2>2. CASE p > n
    BY <2>1, <2>2 DEF Groups, Round
  <2>3. CASE ~(p > n)
    <3>1. p \in 1 .. n /\ p + 3 \in D
      BY <1>0, <2>3
    <3>2. F[p + 3] = Groups(s, p + 3)
      BY <3>1
    <3> HIDE DEF F
    <3>3. Groups(s, p) <=> Round(s, F, p)
      BY <2>3, <3>1, <3>2, GroupsRound DEF Round
    <3> QED
      BY <2>1, <3>3
  <2> QED
    BY <2>2, <2>3
<1>2. Loop(F)
  BY <1>1, Zenon
<1>3. PICK ok : Loop(ok) /\ Scanned(s) = ok[1]
  <2> DEFINE ok == CHOOSE f : Loop(f)
  <2>1. Loop(ok)
    BY <1>2, Zenon
  <2>2. Scanned(s) = ok[1]
    BY Zenon DEF Scanned, Round
  <2> QED
    BY <2>1, <2>2, Zenon
<1>4. \A p \in D : ok[p] = Round(s, ok, p)
  BY <1>3, Zenon
<1> DEFINE S == {k \in Nat : \A p \in D : p + k > n => (ok[p] <=> Groups(s, p))}
<1> HIDE DEF F, Loop
<1>5. 0 \in S
  <2> SUFFICES ASSUME NEW p \in D, p + 0 > n PROVE ok[p] <=> Groups(s, p)
    OBVIOUS
  <2>1. p > n
    BY <1>0
  <2>2. Groups(s, p) /\ Round(s, ok, p)
    BY <2>1 DEF Groups, Round
  <2> QED
    BY <1>4, <2>2
<1>6. ASSUME NEW k \in Nat, k \in S PROVE k + 1 \in S
  <2> SUFFICES ASSUME NEW p \in D, p + (k + 1) > n
               PROVE  ok[p] <=> Groups(s, p)
    OBVIOUS
  <2>1. CASE p > n
    BY <1>4, <2>1 DEF Groups, Round
  <2>2. CASE ~(p > n)
    <3>1. p \in 1 .. n /\ p + 3 \in D /\ (p + 3) + k > n
      BY <1>0, <2>2
    <3>2. ok[p + 3] <=> Groups(s, p + 3)
      BY <1>6, <3>1
    <3>3. ok[p] <=> Round(s, ok, p)
      BY <1>4
    <3>4. Round(s, ok, p) <=> Groups(s, p)
      BY <2>2, <3>1, <3>2, GroupsRound DEF Round
    <3> QED
      BY <3>3, <3>4
  <2> QED
    BY <2>1, <2>2
<1> HIDE DEF S
<1>7. \A k \in Nat : k \in S
  BY <1>5, <1>6, SetInduction
<1>8. 1 \in D /\ n \in S /\ 1 + n > n
  BY <1>0, <1>7
<1>9. ok[1] <=> Groups(s, 1)
  BY <1>8 DEF S
<1> QED
  BY <1>3, <1>9

\* The places of the colons in a text of the right length.
LEMMA BachkAccepts ==
    ASSUME NEW s, Len(s) \in Nat
    PROVE  bachk(s) <=>
             /\ Len(s) = 3 * Size - 1
             /\ \A p \in 1 .. Len(s) :
                    IF p % 3 = 0 THEN s[p] = Colon ELSE isxdigit(s[p])
<1> SUFFICES ASSUME Len(s) = 3 * Size - 1
             PROVE  Scanned(s) <=>
                      \A p \in 1 .. Len(s) :
                          IF p % 3 = 0 THEN s[p] = Colon ELSE isxdigit(s[p])
  BY DEF bachk
<1>1. ~ (1 > Len(s)) /\ (Len(s) - 1) % 3 # 0
  BY SizeAssumption
<1>2. \A p \in 1 .. Len(s) : (p - 1) % 3 = 2 <=> p % 3 = 0
  OBVIOUS
<1>3. Scanned(s) <=> Groups(s, 1)
  BY ScannedIsGroups
<1>4. Groups(s, 1) <=>
        \A p \in 1 .. Len(s) :
            IF p % 3 = 0 THEN s[p] = Colon ELSE isxdigit(s[p])
  BY <1>1, <1>2 DEF Groups
<1> QED
  BY <1>3, <1>4

----------------------------------------------------------------------------
(***************************************************************************)
(* Every text that the behaviours come to                                  *)
(***************************************************************************)

TextOK == ba \in Address /\ str \in Seq(Chars \cup Byte)

LEMMA DigitIsByte ==
    \A v \in 0 .. 15 : /\ digit(v) \in Digits \cup Upper /\ isxdigit(digit(v))
                       /\ digit(v) \in Byte
  BY DEF digit, isxdigit, Digits, Upper, Byte

\* The three places of a group.
LEMMA Places ==
    ASSUME NEW p \in 1 .. 3 * Size - 1
    PROVE  /\ p % 3 \in {0, 1, 2}
           /\ p % 3 # 0 => p \div 3 \in 0 .. Size - 1
           /\ p % 3 = 1 => p = 3 * (p \div 3) + 1
           /\ p % 3 = 2 => p = 3 * (p \div 3) + 2
  BY SizeAssumption

LEMMA PrintedText ==
    ASSUME NEW b \in Address, NEW sep \in Byte
    PROVE  LET s == Print16(Size, b, sep)
           IN  /\ s \in Seq(Byte) /\ Len(s) = 3 * Size - 1
               /\ \A p \in 1 .. 3 * Size - 1 :
                      /\ p % 3 = 0 => s[p] = sep
                      /\ p % 3 # 0 => s[p] \in Digits \cup Upper
<1> DEFINE s == Print16(Size, b, sep)
<1>0. 3 * Size - 1 \in Nat
  BY SizeAssumption
<1>1. ASSUME NEW p \in 1 .. 3 * Size - 1
      PROVE  /\ p % 3 = 0 => s[p] = sep
             /\ p % 3 # 0 => s[p] \in Digits \cup Upper
             /\ s[p] \in Byte
  <2>1. CASE p % 3 = 0
    BY <2>1 DEF Print16
  <2>2. CASE p % 3 # 0
    <3> DEFINE g == p \div 3
    <3>1. b[g] \in Byte
      BY <2>2, Places DEF Address
    <3>2. high(b[g]) \in 0 .. 15 /\ low(b[g]) \in 0 .. 15
      BY <3>1 DEF Byte, high, low
    <3>3. s[p] = digit(high(b[g])) \/ s[p] = digit(low(b[g]))
      BY <2>2, Places DEF Print16
    <3> QED
      BY <2>2, <3>2, <3>3, DigitIsByte
  <2> QED
    BY <2>1, <2>2
<1>2. s = [p \in 1 .. 3 * Size - 1 |-> s[p]]
  BY DEF Print16
<1> HIDE DEF s
<1>3. s \in Seq(Byte) /\ Len(s) = 3 * Size - 1
  BY <1>0, <1>1, <1>2
<1> QED
  BY <1>1, <1>3 DEF s

LEMMA InitText == Init => TextOK
<1> SUFFICES ASSUME Init PROVE TextOK
  OBVIOUS
<1>1. ba \in Address /\ baswap(ba) \in Address
  BY SamplesAssumption, SwapTwice DEF Init
<1>2. str = Print16(Size, baswap(ba), Colon) /\ Colon \in Byte
  BY DEF Init, ba2str, baswap, Colon, Byte
<1>3. str \in Seq(Byte)
  BY <1>1, <1>2, PrintedText
<1> QED
  BY <1>1, <1>3 DEF TextOK

LEMMA StepText == TextOK /\ [Next]_vars => TextOK'
<1> SUFFICES ASSUME TextOK, [Next]_vars PROVE TextOK'
  OBVIOUS
<1> USE DEF TextOK
<1>1. CASE Replace
  <2>1. PICK p \in DOMAIN str, c \in Chars : str' = [str EXCEPT ![p] = c]
    BY <1>1 DEF Replace
  <2> QED
    BY <1>1, <2>1 DEF Replace, Damage
<1>2. CASE Cut
  <2>1. PICK n \in 0 .. Len(str) - 1 : str' = SubSeq(str, 1, n)
    BY <1>2 DEF Cut
  <2>2. \A x \in 1 .. n : str[x] \in Chars \cup Byte
    OBVIOUS
  <2>3. str' \in Seq(Chars \cup Byte)
    BY <2>1, <2>2
  <2> QED
    BY <1>2, <2>3 DEF Cut, Damage
<1>3. CASE Extend
  BY <1>3 DEF Extend, Damage
<1>4. CASE UNCHANGED vars
  BY <1>4 DEF vars
<1> QED
  BY <1>1, <1>2, <1>3, <1>4 DEF Next, Used

THEOREM TextsAreSequences == Spec => []TextOK
  BY InitText, StepText, PTL DEF Spec

\* bachk accepts the texts that have the form of an address and no others, for
\* texts of any length over any characters.
THEOREM AcceptsOnly == Spec => []AcceptsAddresses
<1>1. TextOK => AcceptsAddresses
  <2> SUFFICES ASSUME TextOK PROVE AcceptsAddresses
    OBVIOUS
  <2>1. Len(str) \in Nat /\ DOMAIN str = 1 .. Len(str)
    BY DEF TextOK
  <2> QED
    BY <2>1, BachkAccepts DEF AcceptsAddresses
<1> QED
  BY <1>1, TextsAreSequences, PTL

----------------------------------------------------------------------------
(***************************************************************************)
(* There and back                                                          *)
(***************************************************************************)

\* What is printed is accepted.
LEMMA PrintedAccepted ==
    ASSUME NEW b \in Address PROVE bachk(Print16(Size, b, Colon))
<1> DEFINE s == Print16(Size, b, Colon)
<1>1. Colon \in Byte
  BY DEF Colon, Byte
<1>2. /\ s \in Seq(Byte) /\ Len(s) = 3 * Size - 1
      /\ \A p \in 1 .. 3 * Size - 1 :
             /\ p % 3 = 0 => s[p] = Colon
             /\ p % 3 # 0 => s[p] \in Digits \cup Upper
  BY <1>1, PrintedText
<1> HIDE DEF s
<1>3. Len(s) \in Nat
  BY <1>2
<1>4. bachk(s)
  BY <1>2, <1>3, BachkAccepts DEF isxdigit
<1> QED
  BY <1>4 DEF s

LEMMA SmallDigit ==
    ASSUME NEW c \in Digits \cup Upper
    PROVE  isxdigit(lower(c)) /\ value(lower(c)) = value(c)
<1>1. CASE c \in Digits
  BY <1>1 DEF lower, value, isxdigit, Digits, Upper
<1>2. CASE c \in Upper
  <2>1. lower(c) = c + 32 /\ c + 32 \in Lower /\ c + 32 \notin Digits
        /\ c + 32 \notin Upper /\ c \notin Digits
    BY <1>2 DEF lower, Lower, Digits, Upper
  <2> QED
    BY <1>2, <2>1 DEF value, isxdigit, Upper
<1> QED
  BY <1>1, <1>2

\* The same text in small letters.
LEMMA SmallLetters ==
    ASSUME NEW a \in Address
    PROVE  bachk(ba2strlc(a)) /\ groups(ba2strlc(a)) = groups(ba2str(a))
<1> DEFINE s == ba2str(a)
           t == ba2strlc(a)
<1>1. s = Print16(Size, baswap(a), Colon) /\ Colon \in Byte
  BY DEF ba2str, baswap, Colon, Byte
<1>2. \A p \in 1 .. 3 * Size - 1 :
          /\ p % 3 = 0 => s[p] = Colon
          /\ p % 3 # 0 => s[p] \in Digits \cup Upper
  BY <1>1, SwapTwice, PrintedText
<1>3. /\ t = [p \in 1 .. 3 * Size - 1 |-> lower(s[p])]
      /\ 3 * Size - 1 \in Nat
  BY SizeAssumption DEF ba2strlc
<1> HIDE DEF s, t
<1>4. Len(t) = 3 * Size - 1 /\ \A p \in 1 .. 3 * Size - 1 : t[p] = lower(s[p])
  BY <1>3
<1>5. lower(Colon) = Colon
  BY DEF lower, Colon, Upper
<1>6. bachk(t)
  <2>1. \A p \in 1 .. Len(t) :
            IF p % 3 = 0 THEN t[p] = Colon ELSE isxdigit(t[p])
    BY <1>2, <1>4, <1>5, SmallDigit
  <2> QED
    BY <1>3, <1>4, <2>1, BachkAccepts
<1>7. groups(t) = groups(s)
  <2>1. ASSUME NEW i \in 0 .. Size - 1
        PROVE  LET p == 3 * (Size - 1 - i)
               IN  /\ value(t[p + 1]) = value(s[p + 1])
                   /\ value(t[p + 2]) = value(s[p + 2])
    <3> DEFINE p == 3 * (Size - 1 - i)
    <3>1. /\ p + 1 \in 1 .. 3 * Size - 1 /\ (p + 1) % 3 # 0
          /\ p + 2 \in 1 .. 3 * Size - 1 /\ (p + 2) % 3 # 0
      BY SizeAssumption
    <3> HIDE DEF p
    <3>2. /\ value(t[p + 1]) = value(s[p + 1])
          /\ value(t[p + 2]) = value(s[p + 2])
      BY <1>2, <1>4, <3>1, SmallDigit
    <3> QED
      BY <3>2 DEF p
  <2> QED
    BY <2>1 DEF groups
<1> QED
  BY <1>6, <1>7 DEF s, t

\* Both ways to write an address have their inverse, in capital and in small
\* letters, and the OUI is the start of the text: for every address.
THEOREM AddressesComeBack == Spec => []AddressComesBack
<1>1. TextOK => AddressComesBack
  <2> SUFFICES ASSUME TextOK PROVE AddressComesBack
    OBVIOUS
  <2>0. ba \in Address /\ baswap(ba) \in Address
    BY SwapTwice DEF TextOK
  <2>1. /\ ba2str(ba) = Print16(Size, baswap(ba), Colon)
        /\ ba2oui(ba) = Print16(3, baswap(ba), Dash)
    BY DEF ba2str, ba2oui, baswap
  <2>2. str2ba(ba2str(ba)) = ba
    BY <2>0, <2>1, PrintedAccepted, StrInvertsBa DEF str2ba
  <2>3. str2ba(ba2strlc(ba)) = ba
    BY <2>0, SmallLetters, StrInvertsBa DEF str2ba
  <2>4. strtoba(batostr(ba)) = ba
    BY <2>0, PrintedAccepted, BaInvertsStr DEF strtoba, str2ba, batostr
  <2>5. ASSUME NEW p \in DOMAIN ba2oui(ba), p % 3 # 0
        PROVE  ba2oui(ba)[p] = ba2str(ba)[p]
    <3>1. p \in 1 .. 3 * 3 - 1 /\ p \in 1 .. 3 * Size - 1
      <4>1. p \in 1 .. 3 * 3 - 1
        BY <2>1, <2>5, Zenon DEF Print16
      <4> QED
        BY <4>1, SizeAssumption
    <3>2. p % 3 = 1 \/ p % 3 = 2
      BY <2>5, <3>1
    <3> QED
      BY <2>1, <3>1, <3>2 DEF Print16
  <2> QED
    BY <2>2, <2>3, <2>4, <2>5 DEF AddressComesBack
<1> QED
  BY <1>1, TextsAreSequences, PTL

\* Reading a digit and printing it again gives the capital letter.
LEMMA CapitalDigit ==
    ASSUME NEW c, isxdigit(c)
    PROVE  /\ value(c) \in 0 .. 15
           /\ digit(value(c)) = IF c \in Lower THEN c - 32 ELSE c
<1>1. CASE c \in Digits
  BY <1>1 DEF value, digit, Digits, Lower
<1>2. CASE c \in Upper
  <2>1. c \notin Digits /\ c \notin Lower /\ value(c) = c - 55 /\ c - 55 >= 10
    BY <1>2 DEF value, Digits, Upper, Lower
  <2> QED
    BY <1>2, <2>1 DEF digit, Upper
<1>3. CASE c \in Lower
  <2>1. c \notin Digits /\ c \notin Upper /\ value(c) = c - 87 /\ c - 87 >= 10
    BY <1>3 DEF value, Digits, Upper, Lower
  <2> QED
    BY <1>3, <2>1 DEF digit, Lower
<1> QED
  BY <1>1, <1>2, <1>3 DEF isxdigit

LEMMA BytesOfText ==
    ASSUME NEW v \in 0 .. 15, NEW w \in 0 .. 15
    PROVE  /\ 16 * v + w \in Byte
           /\ high(16 * v + w) = v /\ low(16 * v + w) = w
  BY DEF Byte, high, low

\* A text that str2ba accepts comes back in capital letters.
LEMMA TextBack ==
    ASSUME NEW s, Len(s) \in Nat, DOMAIN s = 1 .. Len(s), bachk(s)
    PROVE  ba2str(str2ba(s)) = UpperCase(s)
<1> DEFINE n == 3 * Size - 1
           a == groups(s)
           b == baswap(a)
           t == Print16(Size, b, Colon)
<1>1. /\ Len(s) = n
      /\ \A p \in 1 .. n : IF p % 3 = 0 THEN s[p] = Colon ELSE isxdigit(s[p])
  BY BachkAccepts
<1>2. ASSUME NEW g \in 0 .. Size - 1
      PROVE  /\ isxdigit(s[3 * g + 1]) /\ isxdigit(s[3 * g + 2])
             /\ high(b[g]) = value(s[3 * g + 1])
             /\ low(b[g]) = value(s[3 * g + 2])
  <2>1. /\ 3 * g + 1 \in 1 .. n /\ (3 * g + 1) % 3 = 1
        /\ 3 * g + 2 \in 1 .. n /\ (3 * g + 2) % 3 = 2
        /\ Size - 1 - g \in 0 .. Size - 1 /\ Size - 1 - (Size - 1 - g) = g
    BY SizeAssumption
  <2>2. isxdigit(s[3 * g + 1]) /\ isxdigit(s[3 * g + 2])
    BY <1>1, <2>1
  <2>3. b[g] = a[Size - 1 - g]
    BY DEF baswap
  <2>4. a[Size - 1 - g] = 16 * value(s[3 * g + 1]) + value(s[3 * g + 2])
    BY <2>1 DEF groups
  <2> HIDE DEF a, b
  <2>5. value(s[3 * g + 1]) \in 0 .. 15 /\ value(s[3 * g + 2]) \in 0 .. 15
    BY <2>2, CapitalDigit
  <2> QED
    BY <2>2, <2>3, <2>4, <2>5, BytesOfText
<1>3. ba2str(str2ba(s)) = t
  BY DEF str2ba, ba2str, baswap
<1>4. ASSUME NEW p \in 1 .. n
      PROVE  t[p] = IF s[p] \in Lower THEN s[p] - 32 ELSE s[p]
  <2> DEFINE g == p \div 3
  <2> HIDE DEF b
  <2>1. CASE p % 3 = 0
    <3>1. s[p] = Colon /\ Colon \notin Lower
      BY <1>1, <2>1 DEF Colon, Lower
    <3>2. t[p] = Colon
      BY <2>1 DEF Print16
    <3> QED
      BY <3>1, <3>2
  <2>2. CASE p % 3 = 1
    <3>1. g \in 0 .. Size - 1 /\ p = 3 * g + 1
      BY <2>2, Places
    <3>2. t[p] = digit(high(b[g]))
      BY <2>2 DEF Print16
    <3> HIDE DEF g, t
    <3>3. isxdigit(s[p]) /\ high(b[g]) = value(s[p])
      BY <1>2, <3>1
    <3> QED
      BY <3>2, <3>3, CapitalDigit
  <2>3. CASE p % 3 = 2
    <3>1. g \in 0 .. Size - 1 /\ p = 3 * g + 2
      BY <2>3, Places
    <3>2. t[p] = digit(low(b[g]))
      BY <2>3 DEF Print16
    <3> HIDE DEF g, t
    <3>3. isxdigit(s[p]) /\ low(b[g]) = value(s[p])
      BY <1>2, <3>1
    <3> QED
      BY <3>2, <3>3, CapitalDigit
  <2> QED
    BY <2>1, <2>2, <2>3, Places
<1>5. t = [p \in 1 .. n |-> t[p]]
  BY DEF Print16
<1> HIDE DEF t
<1>6. t = [p \in 1 .. n |-> IF s[p] \in Lower THEN s[p] - 32 ELSE s[p]]
  BY <1>4, <1>5
<1> QED
  BY <1>1, <1>3, <1>6 DEF UpperCase

\* The tool reports a sensor under the address it was given, for every text
\* that it accepts as an address.
THEOREM TextsComeBack == Spec => []TextComesBack
<1>1. TextOK => TextComesBack
  BY TextBack DEF TextOK, TextComesBack
<1> QED
  BY <1>1, TextsAreSequences, PTL
=============================================================================
