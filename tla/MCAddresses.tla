---------------------------- MODULE MCAddresses ----------------------------
(***************************************************************************)
(* Addresses of full size: digits, capital and small letters, neighbours   *)
(* of their codes, and two changes anywhere in the text.                   *)
(***************************************************************************)
EXTENDS Addresses

MCSamples == {[i \in 0 .. Size - 1 |-> 0],
              [i \in 0 .. Size - 1 |-> 255 - i],
              [i \in 0 .. Size - 1 |-> 17 * i + 9]}

\* 0 F G a g : @
MCChars == {48, 70, 71, 97, 103, 58, 64}
=============================================================================
