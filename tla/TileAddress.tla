---------------------------- MODULE TileAddress ----------------------------
(***************************************************************************)
(* Where the display's tiled layout keeps a pixel (openagc_ps5_videoout.c):*)
(* blocks of 128 by 128 pixels, 64 KiB each, in rows; inside a block the   *)
(* bits of x and y are shuffled and folded onto one another.  A word is    *)
(* the set of its bits, as far as the masks reach.                         *)
(***************************************************************************)
EXTENDS Integers

CONSTANTS WIDTH, HEIGHT, FRAME_BYTES

ASSUME TilesAssumption ==
  /\ {WIDTH, HEIGHT} \subseteq Nat \ {0} /\ FRAME_BYTES \in Nat
  /\ ((WIDTH + 127) \div 128) * ((HEIGHT + 127) \div 128) * 65536 <= FRAME_BYTES

Bits(v) == {n \in 0 .. 15 : (v \div 2^n) % 2 = 1}
Shifted(v, k, mask) == {n + k : n \in Bits(v)} \cap mask

\* The masks of one coordinate do not overlap; those of the two do.
Down(y) == Shifted(y, 4, 4 .. 6) \cup Shifted(y, 5, 8 .. 11)
             \cup Shifted(y, 9, {12}) \cup Shifted(y, 8, {14})
AcrossFourBits(x) == Shifted(x, 2, 2 .. 3) \cup Shifted(x, 5, 7 .. 9) \cup Shifted(x, 4, {10})
                       \cup Shifted(x, 6, {11}) \cup Shifted(x, 9, {13})
Across(x) == Shifted(x, 2, 2 .. 3) \cup Shifted(x, 5, 7 .. 9) \cup Shifted(x, 4, {10})
               \cup Shifted(x, 6, {11}) \cup Shifted(x, 9, {13, 15})

Intra(x, y) == (Down(y) \cup Across(x)) \ (Down(y) \cap Across(x))
Block(x, y) == (y \div 128) * ((WIDTH + 127) \div 128) + x \div 128

\* A block's pixels fill its words, blocks are told apart, the last is inside.
TilesAreDisjoint ==
  LET InBlock == (0 .. 127) \X (0 .. 127)
      Corners == {128 * n : n \in 0 .. (WIDTH - 1) \div 128}
                   \X {128 * n : n \in 0 .. (HEIGHT - 1) \div 128}
  IN /\ {Intra(p[1], p[2]) : p \in InBlock} = SUBSET (2 .. 15)
     /\ \A p, q \in Corners : Block(p[1], p[2]) = Block(q[1], q[2]) => p = q
     /\ \A p \in Corners : (Block(p[1], p[2]) + 1) * 65536 <= FRAME_BYTES
=============================================================================
