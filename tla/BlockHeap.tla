----------------------------- MODULE BlockHeap ------------------------------
(***************************************************************************)
(* The device heap of the shared front end (openagc_frontend.c): a table   *)
(* of blocks, in address order, that tiles one backend allocation.         *)
(* block_alloc takes the first free block that is large enough and splits  *)
(* it; block_free finds a block by the offset its object kept, and merges  *)
(* it with a free neighbour on either side.  The objects (images, buffers, *)
(* memories, a pipeline's shader code) are the elements of Owner.          *)
(***************************************************************************)
EXTENDS Integers, FiniteSets

CONSTANTS
  Owner,       \* objects that hold at most one block each
  HeapBytes,   \* OPENAGC_FRONTEND_HEAP_BYTES
  Align,       \* OPENAGC_FRONTEND_BLOCK_ALIGN
  MaxBlocks,   \* OPENAGC_FRONTEND_MAX_BLOCKS
  WordMax      \* UINT64_MAX

\* UINT64_MAX + 1 and the heap's size are multiples of the alignment.
ASSUME HeapAssumption ==
  /\ HeapBytes \in Nat \ {0} /\ Align \in Nat \ {0} /\ MaxBlocks \in Nat \ {0}
  /\ WordMax \in Nat /\ WordMax >= HeapBytes /\ WordMax >= Align
  /\ HeapBytes % Align = 0 /\ (WordMax + 1) % Align = 0

VARIABLES
  blocks,   \* frontend.blocks, of which the first count are in use
  count,    \* frontend.block_count
  live,     \* objects that hold a block
  at,       \* the heap_offset each of them keeps
  asked     \* the size in bytes it asked for

heap == <<blocks, count>>
vars == <<heap, live, at, asked>>

Block == [offset : 0 .. HeapBytes, size : 0 .. HeapBytes, used : BOOLEAN]

Init ==
  /\ blocks = [i \in 1 .. 1 |-> [offset |-> 0, size |-> HeapBytes, used |-> FALSE]]
  /\ count = 1
  /\ live = {} /\ at = [o \in Owner |-> 0] /\ asked = [o \in Owner |-> 0]

IsFirst(i, S) == i \in S /\ \A j \in S : i <= j

-----------------------------------------------------------------------------
(* openagc_frontend_block_alloc.                                           *)

\* Mutant: the size may come so near the end of the word that it rounds to 0.
InRangeNoLimit(size) == size # 0

\* Otherwise OUT_OF_RANGE.
InRange(size) == size # 0 /\ size <= WordMax - (Align - 1)

\* (size + (Align - 1)) & ~(Align - 1), in words.
Need(size) ==
  LET up == (size + (Align - 1)) % (WordMax + 1)  IN  up - (up % Align)

Fits(need) == {i \in 1 .. count : ~blocks[i].used /\ blocks[i].size >= need}

\* The table after block i is split: need bytes in use, then what is left.
Split(i, need) ==
  [k \in 1 .. count + 1 |->
    IF k = i THEN [offset |-> blocks[i].offset, size |-> need, used |-> TRUE]
    ELSE IF k = i + 1
    THEN [offset |-> blocks[i].offset + need, size |-> blocks[i].size - need,
          used |-> FALSE]
    ELSE blocks[IF k < i THEN k ELSE k - 1]]

\* Mutant: a split does not look for room in the table.
ChosenAnyRoom(i, size) == InRange(size) /\ IsFirst(i, Fits(Need(size)))

\* Block i is what block_alloc(size) settles on, and the table has room for it:
\* otherwise CAPACITY, even if a later block would need no split.
Chosen(i, size) ==
  /\ InRange(size)
  /\ IsFirst(i, Fits(Need(size)))
  /\ blocks[i].size > Need(size) => count < MaxBlocks

Alloc(o, size) ==
  /\ o \notin live
  /\ \E i \in 1 .. count :
       /\ Chosen(i, size)
       /\ IF blocks[i].size > Need(size)
          THEN blocks' = Split(i, Need(size)) /\ count' = count + 1
          ELSE blocks' = [blocks EXCEPT ![i].used = TRUE] /\ count' = count
       /\ at' = [at EXCEPT ![o] = blocks[i].offset]
  /\ live' = live \cup {o}
  /\ asked' = [asked EXCEPT ![o] = size]

-----------------------------------------------------------------------------
(* openagc_frontend_block_free.                                            *)

Matches(offset) == {i \in 1 .. count : blocks[i].offset = offset /\ blocks[i].used}

\* The first n - 1 entries after entry i + 1 of b is merged into entry i.
Merge(b, n, i) ==
  [k \in 1 .. n - 1 |->
    IF k < i THEN b[k]
    ELSE IF k = i THEN [b[i] EXCEPT !.size = b[i].size + b[i + 1].size]
    ELSE b[k + 1]]

\* Mutant: only the next neighbour is looked at.
FreedForward(i) ==
  LET b == [blocks EXCEPT ![i].used = FALSE]
  IN IF i < count /\ ~b[i + 1].used
     THEN blocks' = Merge(b, count, i) /\ count' = count - 1
     ELSE blocks' = b /\ count' = count

\* Block i is free: merged with the next block, then with the previous one.
Freed(i) ==
  LET b    == [blocks EXCEPT ![i].used = FALSE]
      next == i < count /\ ~b[i + 1].used
      c    == IF next THEN Merge(b, count, i) ELSE b
      n    == IF next THEN count - 1 ELSE count
      prev == i > 1 /\ ~c[i - 1].used
  IN /\ blocks' = IF prev THEN Merge(c, n, i - 1) ELSE c
     /\ count' = IF prev THEN n - 1 ELSE n

\* An object goes: its block is found by the offset it kept; if there is none,
\* the table stays as it is.
Free(o) ==
  /\ o \in live
  /\ \/ Matches(at[o]) = {} /\ UNCHANGED heap
     \/ \E i \in 1 .. count : IsFirst(i, Matches(at[o])) /\ Freed(i)
  /\ live' = live \ {o}
  /\ at' = [at EXCEPT ![o] = 0]
  /\ asked' = [asked EXCEPT ![o] = 0]

-----------------------------------------------------------------------------

Size == 0 .. WordMax

Next == \E o \in Owner : Free(o) \/ \E size \in Size : Alloc(o, size)

Spec == Init /\ [][Next]_vars

-----------------------------------------------------------------------------

TypeOK ==
  /\ count \in 1 .. MaxBlocks
  /\ blocks \in [1 .. count -> Block]
  /\ live \subseteq Owner
  /\ at \in [Owner -> 0 .. HeapBytes]
  /\ asked \in [Owner -> Size]

\* Nothing leaks and nothing is lost: the used blocks are exactly those of the
\* live objects, each found by the offset its object kept, with room for the
\* size it asked for.
UsedIsLive ==
  /\ \A o \in live : \E i \in 1 .. count :
       blocks[i].used /\ blocks[i].offset = at[o] /\ blocks[i].size = Need(asked[o])
  /\ \A i \in 1 .. count : blocks[i].used =>
       \E o \in live : at[o] = blocks[i].offset

\* The table never outgrows its array, and no room is lost to fragments: an
\* allocation of any size that some aligned stretch of the heap has room for
\* finds it, unless the table is full.
HoleIsFound ==
  /\ count <= MaxBlocks
  /\ \A size \in {s \in 1 .. HeapBytes : InRange(s)}, first \in 0 .. HeapBytes :
       /\ count < MaxBlocks
       /\ first % Align = 0 /\ first + size <= HeapBytes
       /\ \A o \in live : at[o] + asked[o] <= first \/ first + size <= at[o]
       => \E i \in 1 .. count : Chosen(i, size)

\* The heap implements HeapMap: objects get disjoint bytes, and keep them.
Map == INSTANCE HeapMap
         WITH extent <- [o \in Owner |-> IF o \in live
                                         THEN at[o] .. at[o] + asked[o] - 1 ELSE {}]
HeapSpec == Map!Spec
=============================================================================
