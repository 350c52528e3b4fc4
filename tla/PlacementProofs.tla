--------------------------- MODULE PlacementProofs --------------------------
(***************************************************************************)
(* The device heap and the objects of the front end on it, for any heap,   *)
(* alignment, table size and numbers of objects.                           *)
(*                                                                         *)
(* The heap gives its objects disjoint bytes and loses no block.  The      *)
(* argument is about tables: each edit block_alloc and block_free make     *)
(* (split, mark, merge) keeps a table in address order without gap or      *)
(* overlap, and changes its used blocks by the one concerned.              *)
(*                                                                         *)
(* On top of it, no call that failed half way leaves a block behind, the   *)
(* spans of a memory are those of the resources bound to it, and no        *)
(* resource shares a byte with another.  Beside the properties the         *)
(* invariant says what is held at every step of a call, and that bound     *)
(* resources lie apart inside their memory: only that makes the first span *)
(* that matches a resource's the one to release.                           *)
(***************************************************************************)
EXTENDS Placement, FiniteSetTheorems, SequenceTheorems, WellFoundedInduction, TLAPS

-----------------------------------------------------------------------------
(* The table of the heap.                                                  *)

\* The first n entries of b tile the heap, in address order.
Tiles(b, n) ==
  /\ n \in Nat \ {0} /\ b \in [1 .. n -> Block]
  /\ b[1].offset = 0
  /\ b[n].offset + b[n].size = HeapBytes
  /\ \A i \in 1 .. n : b[i].size > 0 /\ b[i].offset + b[i].size <= HeapBytes
  /\ \A i \in 1 .. n - 1 : b[i + 1].offset = b[i].offset + b[i].size
  /\ \A i, j \in 1 .. n : i < j => b[i].offset + b[i].size <= b[j].offset

\* Where its used blocks are, and how large.
Used(b, n) == {<<b[i].offset, b[i].size>> : i \in {j \in 1 .. n : b[j].used}}

\* The table is sound, and its used blocks are those of the live objects, no two
\* of which kept the same offset.
Inv ==
  /\ TypeOK
  /\ Tiles(blocks, count)
  /\ \A o \in live : InRange(asked[o])
  /\ Used(blocks, count) = {<<at[o], Need(asked[o])>> : o \in live}
  /\ \A o, p \in live : at[o] = at[p] => o = p

-----------------------------------------------------------------------------

\* The rounded size is at least the size.
LEMMA NeedBounds ==
  ASSUME NEW size \in Size, InRange(size)
  PROVE  Need(size) \in Nat /\ Need(size) >= size /\ size > 0
<1> DEFINE up == size + (Align - 1)
<1>1. up \in 0 .. WordMax /\ size > 0
  BY HeapAssumption DEF InRange, Size
<1>2. up % (WordMax + 1) = up
  BY <1>1, HeapAssumption
<1>3. up % Align \in 0 .. Align - 1
  BY <1>1, HeapAssumption
<1>4. Need(size) = up - (up % Align)
  BY <1>2 DEF Need
<1> QED
  BY <1>1, <1>3, <1>4, HeapAssumption DEF Size

\* An entry of a tiling is a block.
LEMMA Entry ==
  ASSUME NEW b, NEW n, Tiles(b, n), NEW k \in 1 .. n
  PROVE  /\ b[k] = [offset |-> b[k].offset, size |-> b[k].size, used |-> b[k].used]
         /\ b[k].offset \in 0 .. HeapBytes /\ b[k].size \in 1 .. HeapBytes
         /\ b[k].used \in BOOLEAN
  BY HeapAssumption DEF Tiles, Block

\* Marking entry i used or free changes no extent.
LEMMA MarkTiles ==
  ASSUME NEW b, NEW n, Tiles(b, n), NEW i \in 1 .. n, NEW u \in BOOLEAN
  PROVE  Tiles([b EXCEPT ![i].used = u], n)
<1> DEFINE c == [b EXCEPT ![i].used = u]
<1>1. c \in [1 .. n -> Block]
  BY DEF Tiles, Block
<1>2. \A k \in 1 .. n : c[k].offset = b[k].offset /\ c[k].size = b[k].size
  BY DEF Tiles, Block
<1>3. n \in Nat \ {0} /\ 1 \in 1 .. n /\ n \in 1 .. n
  BY DEF Tiles
<1>4. \A k \in 1 .. n - 1 : k \in 1 .. n /\ k + 1 \in 1 .. n
  BY <1>3
<1> HIDE DEF c
<1>5. c[1].offset = 0 /\ c[n].offset + c[n].size = HeapBytes
  BY <1>2, <1>3 DEF Tiles
<1>6. \A k \in 1 .. n - 1 : c[k + 1].offset = c[k].offset + c[k].size
  BY <1>2, <1>4 DEF Tiles
<1>7. \A k \in 1 .. n : c[k].size > 0 /\ c[k].offset + c[k].size <= HeapBytes
  BY <1>2 DEF Tiles
<1>8. \A j, k \in 1 .. n : j < k => c[j].offset + c[j].size <= c[k].offset
  <2> SUFFICES ASSUME NEW j \in 1 .. n, NEW k \in 1 .. n, j < k
               PROVE  c[j].offset + c[j].size <= c[k].offset
    OBVIOUS
  <2> QED BY <1>2 DEF Tiles
<1> QED
  BY <1>1, <1>3, <1>5, <1>6, <1>7, <1>8 DEF Tiles, c

\* Merging two neighbours keeps the tiling...
LEMMA MergeTiles ==
  ASSUME NEW b, NEW n, Tiles(b, n), NEW i \in 1 .. n - 1
  PROVE  Tiles(Merge(b, n, i), n - 1)
<1> DEFINE c == Merge(b, n, i)
<1>1. n - 1 \in Nat \ {0} /\ 1 \in 1 .. n - 1 /\ n - 1 \in 1 .. n - 1
  BY DEF Tiles
<1>2. /\ \A k \in 1 .. n - 1 : k < i => c[k] = b[k]
      /\ \A k \in 1 .. n - 1 : k > i => c[k] = b[k + 1]
      /\ c[i].offset = b[i].offset /\ c[i].size = b[i].size + b[i + 1].size
      /\ c[i] = [offset |-> c[i].offset, size |-> c[i].size, used |-> b[i].used]
      /\ c = [k \in 1 .. n - 1 |-> c[k]]
  <2>1. c[i] = [b[i] EXCEPT !.size = b[i].size + b[i + 1].size]
    BY <1>1 DEF Merge
  <2>2. b[i] = [offset |-> b[i].offset, size |-> b[i].size, used |-> b[i].used]
    <3>1. i \in 1 .. n
      BY DEF Tiles
    <3> QED BY <3>1, Entry
  <2>3. /\ c[i].offset = b[i].offset /\ c[i].size = b[i].size + b[i + 1].size
        /\ c[i] = [offset |-> c[i].offset, size |-> c[i].size, used |-> b[i].used]
    <3> HIDE DEF c
    <3> QED BY <2>1, <2>2
  <2>4. /\ \A k \in 1 .. n - 1 : k < i => c[k] = b[k]
        /\ \A k \in 1 .. n - 1 : k > i => c[k] = b[k + 1]
        /\ c = [k \in 1 .. n - 1 |-> c[k]]
    BY DEF Merge
  <2> QED BY <2>3, <2>4
<1>3. /\ i \in 1 .. n /\ i + 1 \in 1 .. n /\ n \in Nat
      /\ \A k \in 1 .. n - 1 : k \in 1 .. n /\ k + 1 \in 1 .. n
      /\ \A k \in 1 .. n - 2 : k \in 1 .. n - 1 /\ k + 1 \in 1 .. n - 1
  BY DEF Tiles
<1> HIDE DEF c
<1>4. \A k \in 1 .. n : /\ b[k].offset \in 0 .. HeapBytes
                       /\ b[k].size \in 1 .. HeapBytes /\ b[k].used \in BOOLEAN
                       /\ b[k].offset + b[k].size <= HeapBytes
                       /\ b[k] \in Block
  BY DEF Tiles, Block
<1>5. b[i + 1].offset = b[i].offset + b[i].size
  BY <1>3 DEF Tiles
<1>6. \A k \in 1 .. n - 1 :
        /\ c[k].offset = IF k <= i THEN b[k].offset ELSE b[k + 1].offset
        /\ c[k].offset + c[k].size =
             IF k < i THEN b[k].offset + b[k].size
             ELSE b[k + 1].offset + b[k + 1].size
        /\ c[k].size > 0
  <2> SUFFICES ASSUME NEW k \in 1 .. n - 1
               PROVE  /\ c[k].offset = IF k <= i THEN b[k].offset ELSE b[k + 1].offset
                      /\ c[k].offset + c[k].size =
                           IF k < i THEN b[k].offset + b[k].size
                           ELSE b[k + 1].offset + b[k + 1].size
                      /\ c[k].size > 0
    OBVIOUS
  <2>1. CASE k < i
    BY SMTT(60), <2>1, <1>2, <1>3, <1>4
  <2>2. CASE k = i
    BY <2>2, <1>2, <1>3, <1>4, <1>5
  <2>3. CASE k > i
    BY SMTT(60), <2>3, <1>2, <1>3, <1>4
  <2> QED BY <2>1, <2>2, <2>3, <1>3
<1>7. c[i].offset \in 0 .. HeapBytes /\ c[i].size \in 0 .. HeapBytes
  <2>1. c[i].offset = b[i].offset /\ c[i].offset + c[i].size = b[i + 1].offset + b[i + 1].size
    BY <1>6, <1>3
  <2>2. c[i].size = b[i].size + b[i + 1].size
    BY <1>2
  <2> QED BY <2>1, <2>2, <1>3, <1>4, HeapAssumption
<1>8. c \in [1 .. n - 1 -> Block]
  <2>1. c[i] \in Block
    BY <1>2, <1>3, <1>4, <1>7 DEF Block
  <2>2. \A k \in 1 .. n - 1 : c[k] \in Block
    <3> SUFFICES ASSUME NEW k \in 1 .. n - 1 PROVE c[k] \in Block
      OBVIOUS
    <3>1. CASE k < i
      BY <3>1, <1>2, <1>3, <1>4
    <3>2. CASE k > i
      BY <3>2, <1>2, <1>3, <1>4
    <3> QED BY <2>1, <3>1, <3>2, <1>3
  <2> QED BY <1>2, <2>2
<1>9. c[1].offset = 0 /\ c[n - 1].offset + c[n - 1].size = HeapBytes
  BY <1>1, <1>3, <1>6 DEF Tiles
<1>10. \A k \in 1 .. n - 1 : c[k].offset + c[k].size <= HeapBytes
  BY <1>3, <1>4, <1>6
<1>11. \A k \in 1 .. n - 2 : c[k + 1].offset = c[k].offset + c[k].size
  BY <1>3, <1>6 DEF Tiles
<1>12. \A j, k \in 1 .. n - 1 : j < k => c[j].offset + c[j].size <= c[k].offset
  <2> SUFFICES ASSUME NEW j \in 1 .. n - 1, NEW k \in 1 .. n - 1, j < k
               PROVE  c[j].offset + c[j].size <= c[k].offset
    OBVIOUS
  <2> QED BY <1>3, <1>6 DEF Tiles
<1> QED
  BY <1>1, <1>6, <1>8, <1>9, <1>10, <1>11, <1>12 DEF Tiles, c

\* ... and, if both are free, the used blocks.
LEMMA MergeUsed ==
  ASSUME NEW b, NEW n, Tiles(b, n), NEW i \in 1 .. n - 1,
         ~b[i].used, ~b[i + 1].used
  PROVE  Used(Merge(b, n, i), n - 1) = Used(b, n) /\ ~Merge(b, n, i)[i].used
<1> DEFINE c == Merge(b, n, i)
<1>1. /\ \A k \in 1 .. n - 1 : k < i => c[k] = b[k]
      /\ \A k \in 1 .. n - 1 : k > i => c[k] = b[k + 1]
  BY DEF Merge
<1>2. ~c[i].used
  <2>1. c[i] = [b[i] EXCEPT !.size = b[i].size + b[i + 1].size]
    BY DEF Merge
  <2>2. b[i] = [offset |-> b[i].offset, size |-> b[i].size, used |-> b[i].used]
    <3>1. i \in 1 .. n
      BY DEF Tiles
    <3> QED BY <3>1, Entry
  <2> HIDE DEF c
  <2> QED BY <2>1, <2>2
<1> HIDE DEF c
<1>3. \A k \in 1 .. n - 1 : c[k].used => \E j \in 1 .. n : b[j] = c[k]
  <2> SUFFICES ASSUME NEW k \in 1 .. n - 1, c[k].used
               PROVE  \E j \in 1 .. n : b[j] = c[k]
    OBVIOUS
  <2>1. k \in 1 .. n /\ k + 1 \in 1 .. n /\ (k < i \/ k > i)
    BY <1>2 DEF Tiles
  <2> QED BY <1>1, <2>1
<1>4. \A j \in 1 .. n : b[j].used => \E k \in 1 .. n - 1 : c[k] = b[j]
  <2> SUFFICES ASSUME NEW j \in 1 .. n, b[j].used
               PROVE  \E k \in 1 .. n - 1 : c[k] = b[j]
    OBVIOUS
  <2>1. CASE j < i
    BY <1>1, <2>1 DEF Tiles
  <2>2. CASE j > i + 1
    <3>1. j - 1 \in 1 .. n - 1 /\ c[j - 1] = b[j]
      BY <1>1, <2>2 DEF Tiles
    <3> QED BY <3>1
  <2>3. j < i \/ j > i + 1
    BY DEF Tiles
  <2> QED
    BY <2>1, <2>2, <2>3
<1>5. Used(c, n - 1) \subseteq Used(b, n)
  BY <1>3 DEF Used
<1>6. Used(b, n) \subseteq Used(c, n - 1)
  BY <1>4 DEF Used
<1> QED
  BY <1>2, <1>5, <1>6 DEF c

\* No two entries of a tiling have the same offset.
LEMMA DistinctOffsets ==
  ASSUME NEW b, NEW n, Tiles(b, n), NEW i \in 1 .. n, NEW j \in 1 .. n,
         b[i].offset = b[j].offset
  PROVE  i = j
<1>1. /\ b[i].offset \in Int /\ b[i].size \in Int /\ b[i].size > 0
      /\ b[j].offset \in Int /\ b[j].size \in Int /\ b[j].size > 0
  BY HeapAssumption DEF Tiles, Block
<1>2. /\ i < j => b[i].offset + b[i].size <= b[j].offset
      /\ j < i => b[j].offset + b[j].size <= b[i].offset
  BY DEF Tiles
<1> QED
  BY <1>1, <1>2

\* Marking entry i adds its extent to the used ones, or takes it away.
LEMMA MarkUsed ==
  ASSUME NEW b, NEW n, Tiles(b, n), NEW i \in 1 .. n, NEW u \in BOOLEAN
  PROVE  Used([b EXCEPT ![i].used = u], n) =
           IF u THEN Used(b, n) \cup {<<b[i].offset, b[i].size>>}
           ELSE Used(b, n) \ {<<b[i].offset, b[i].size>>}
<1> DEFINE c == [b EXCEPT ![i].used = u]
<1>1. \A k \in 1 .. n : /\ c[k].offset = b[k].offset /\ c[k].size = b[k].size
                       /\ c[k].used = IF k = i THEN u ELSE b[k].used
  BY DEF Tiles, Block
<1>2. \A k \in 1 .. n : b[k].offset = b[i].offset => k = i
  BY DistinctOffsets
<1> HIDE DEF c
<1>3. CASE u
  <2>1. ASSUME NEW k \in 1 .. n, c[k].used
        PROVE  <<c[k].offset, c[k].size>> \in Used(b, n) \cup {<<b[i].offset, b[i].size>>}
    BY <2>1, <1>1 DEF Used
  <2>2. ASSUME NEW k \in 1 .. n, b[k].used \/ k = i
        PROVE  <<b[k].offset, b[k].size>> \in Used(c, n)
    <3>1. c[k].used
      BY <2>2, <1>1, <1>3
    <3> QED BY <3>1, <1>1 DEF Used
  <2>3. Used(c, n) \subseteq Used(b, n) \cup {<<b[i].offset, b[i].size>>}
    BY <2>1 DEF Used
  <2>4. Used(b, n) \cup {<<b[i].offset, b[i].size>>} \subseteq Used(c, n)
    BY <2>2 DEF Used
  <2> QED BY <2>3, <2>4, <1>3 DEF c
<1>4. CASE ~u
  <2>1. ASSUME NEW k \in 1 .. n, c[k].used
        PROVE  <<c[k].offset, c[k].size>> \in Used(b, n) \ {<<b[i].offset, b[i].size>>}
    <3>1. k # i /\ b[k].used
      BY <2>1, <1>1, <1>4
    <3>2. b[k].offset # b[i].offset
      BY <3>1, <1>2
    <3> QED BY <3>1, <3>2, <1>1 DEF Used
  <2>2. ASSUME NEW k \in 1 .. n, b[k].used, k # i
        PROVE  <<b[k].offset, b[k].size>> \in Used(c, n)
    <3>1. c[k].used
      BY <2>2, <1>1
    <3> QED BY <3>1, <1>1 DEF Used
  <2>3. Used(c, n) \subseteq Used(b, n) \ {<<b[i].offset, b[i].size>>}
    BY <2>1 DEF Used
  <2>4. ASSUME NEW k \in 1 .. n, b[k].used,
               <<b[k].offset, b[k].size>> # <<b[i].offset, b[i].size>>
        PROVE  <<b[k].offset, b[k].size>> \in Used(c, n)
    BY <2>2, <2>4
  <2>5. Used(b, n) \ {<<b[i].offset, b[i].size>>} \subseteq Used(c, n)
    BY <2>4 DEF Used
  <2> QED BY <2>3, <2>5, <1>4 DEF c
<1> QED
  BY <1>3, <1>4

\* A split keeps the tiling and adds the front part to the used extents.
LEMMA SplitTiles ==
  ASSUME Tiles(blocks, count), NEW i \in 1 .. count, NEW need \in Nat \ {0},
         need < blocks[i].size, ~blocks[i].used
  PROVE  /\ Tiles(Split(i, need), count + 1)
         /\ Used(Split(i, need), count + 1) =
              Used(blocks, count) \cup {<<blocks[i].offset, need>>}
<1> DEFINE c == Split(i, need)
           n == count + 1
<1>1. /\ count \in Nat \ {0} /\ n \in Nat \ {0} /\ n - 1 = count
      /\ i \in 1 .. n /\ i + 1 \in 1 .. n /\ 1 \in 1 .. n /\ n \in 1 .. n
      /\ \A k \in 1 .. n : k < i => k \in 1 .. count
      /\ \A k \in 1 .. n : k > i + 1 => k - 1 \in 1 .. count
      /\ \A k \in 1 .. n : k < i \/ k = i \/ k = i + 1 \/ k > i + 1
      /\ \A k \in 1 .. n - 1 : k \in 1 .. n /\ k + 1 \in 1 .. n
  BY DEF Tiles
<1>2. /\ \A k \in 1 .. n : k < i => c[k] = blocks[k]
      /\ \A k \in 1 .. n : k > i + 1 => c[k] = blocks[k - 1]
      /\ c[i] = [offset |-> blocks[i].offset, size |-> need, used |-> TRUE]
      /\ c[i + 1] = [offset |-> blocks[i].offset + need,
                     size |-> blocks[i].size - need, used |-> FALSE]
      /\ c = [k \in 1 .. n |-> c[k]]
  BY <1>1 DEF Split
<1> HIDE DEF c, n
<1>3. \A k \in 1 .. count : /\ blocks[k].offset \in 0 .. HeapBytes
                           /\ blocks[k].size \in 1 .. HeapBytes
                           /\ blocks[k].offset + blocks[k].size <= HeapBytes
                           /\ blocks[k] \in Block
  BY DEF Tiles, Block
<1>4. /\ c[i].offset = blocks[i].offset /\ c[i].size = need /\ c[i].used
      /\ c[i + 1].offset = blocks[i].offset + need
      /\ c[i + 1].size = blocks[i].size - need /\ ~c[i + 1].used
  BY <1>2
<1>5. c \in [1 .. n -> Block]
  <2>1. c[i] \in Block /\ c[i + 1] \in Block
    <3>1. /\ blocks[i].offset \in 0 .. HeapBytes /\ need \in 0 .. HeapBytes
          /\ blocks[i].offset + need \in 0 .. HeapBytes
          /\ blocks[i].size - need \in 0 .. HeapBytes
      BY <1>3, HeapAssumption
    <3> QED BY ONLY <3>1, <1>2, i \in 1 .. count DEF Block
  <2>2. \A k \in 1 .. n : c[k] \in Block
    BY <1>1, <1>2, <1>3, <2>1
  <2> QED BY <1>2, <2>2
<1>6. \A k \in 1 .. n :
        /\ k < i => c[k].offset = blocks[k].offset /\ c[k].size = blocks[k].size
        /\ k > i + 1 => c[k].offset = blocks[k - 1].offset /\ c[k].size = blocks[k - 1].size
  BY <1>2
<1>7. \A k \in 1 .. n : c[k].size > 0 /\ c[k].offset + c[k].size <= HeapBytes
  <2> SUFFICES ASSUME NEW k \in 1 .. n
               PROVE  c[k].size > 0 /\ c[k].offset + c[k].size <= HeapBytes
    OBVIOUS
  <2>1. CASE k < i
    BY <2>1, <1>1, <1>3, <1>6
  <2>2. CASE k = i \/ k = i + 1
    BY <2>2, <1>3, <1>4, HeapAssumption
  <2>3. CASE k > i + 1
    BY <2>3, <1>1, <1>3, <1>6
  <2> QED BY <2>1, <2>2, <2>3, <1>1
<1>8. \A j, k \in 1 .. n : j < k => c[j].offset + c[j].size <= c[k].offset
  <2> SUFFICES ASSUME NEW j \in 1 .. n, NEW k \in 1 .. n, j < k
               PROVE  c[j].offset + c[j].size <= c[k].offset
    OBVIOUS
  <2> DEFINE old(m) == IF m <= i THEN m ELSE m - 1
  <2>1. /\ old(j) \in 1 .. count /\ old(k) \in 1 .. count
        /\ old(j) < old(k) \/ (j = i /\ k = i + 1)
    BY <1>1
  <2>2. CASE j = i /\ k = i + 1
    <3>1. blocks[i].offset \in Int /\ need \in Int
      BY <1>3
    <3> QED BY <2>2, <3>1, <1>4
  <2>3. CASE old(j) < old(k)
    <3>1. /\ blocks[old(j)].offset + blocks[old(j)].size <= blocks[old(k)].offset
      BY <2>1, <2>3 DEF Tiles
    <3>2. c[k].offset >= blocks[old(k)].offset
      BY <2>1, <1>1, <1>3, <1>4, <1>6
    <3>3. c[j].offset + c[j].size <= blocks[old(j)].offset + blocks[old(j)].size
      BY <2>1, <1>1, <1>3, <1>4, <1>6
    <3>4. c[k].offset \in Int /\ c[j].offset \in Int /\ c[j].size \in Int
      BY <1>5 DEF Block
    <3> QED BY <3>1, <3>2, <3>3, <3>4, <2>1, <1>3
  <2> QED BY <2>1, <2>2, <2>3
<1>9. c[1].offset = 0 /\ c[n].offset + c[n].size = HeapBytes
  <2>1. c[1].offset = 0
    BY <1>1, <1>4, <1>6 DEF Tiles
  <2>2. CASE i = count
    <3>1. n = i + 1 /\ blocks[i].offset + blocks[i].size = HeapBytes
      BY <2>2, <1>1 DEF Tiles
    <3>2. c[n].offset = blocks[i].offset + need /\ c[n].size = blocks[i].size - need
      BY <3>1, <1>4
    <3>3. blocks[i].offset \in Int /\ blocks[i].size \in Int
      BY <1>3
    <3> QED BY <2>1, <3>1, <3>2, <3>3
  <2>3. CASE i < count
    <3>1. n > i + 1 /\ n - 1 = count /\ blocks[count].offset + blocks[count].size = HeapBytes
      BY <2>3, <1>1 DEF Tiles
    <3>2. c[n].offset = blocks[n - 1].offset /\ c[n].size = blocks[n - 1].size
      BY <3>1, <1>1, <1>6
    <3> QED BY <2>1, <3>1, <3>2
  <2> QED BY <2>1, <2>2, <2>3, <1>1
<1>10. \A k \in 1 .. n - 1 : c[k + 1].offset = c[k].offset + c[k].size
  <2> SUFFICES ASSUME NEW k \in 1 .. n - 1
               PROVE  c[k + 1].offset = c[k].offset + c[k].size
    OBVIOUS
  <2>1. CASE k + 1 < i
    BY <2>1, <1>1, <1>6 DEF Tiles
  <2>2. CASE k + 1 = i
    <3>1. k \in 1 .. count - 1 /\ blocks[k + 1].offset = blocks[k].offset + blocks[k].size
      BY <2>2, <1>1 DEF Tiles
    <3> QED BY <2>2, <3>1, <1>1, <1>4, <1>6
  <2>3. CASE k = i
    BY <2>3, <1>1, <1>4
  <2>4. CASE k = i + 1
    <3>1. i \in 1 .. count - 1 /\ blocks[i + 1].offset = blocks[i].offset + blocks[i].size
      BY <2>4, <1>1 DEF Tiles
    <3>2. c[i + 2].offset = blocks[i + 1].offset
      BY <2>4, <1>1, <1>6
    <3> QED BY <2>4, <3>1, <3>2, <1>3, <1>4
  <2>5. CASE k > i + 1
    <3>1. /\ k - 1 \in 1 .. count - 1
          /\ blocks[k].offset = blocks[k - 1].offset + blocks[k - 1].size
      BY <2>5, <1>1 DEF Tiles
    <3> QED BY <2>5, <3>1, <1>1, <1>6
  <2> QED BY <2>1, <2>2, <2>3, <2>4, <2>5, <1>1
<1>11. Tiles(c, n)
  BY <1>1, <1>5, <1>7, <1>8, <1>9, <1>10 DEF Tiles
<1>12. Used(c, n) = Used(blocks, count) \cup {<<blocks[i].offset, need>>}
  <2>1. ASSUME NEW k \in 1 .. n, c[k].used
        PROVE  k = i \/ \E j \in 1 .. count : blocks[j] = c[k]
    BY <2>1, <1>1, <1>2, <1>4
  <2>2. ASSUME NEW j \in 1 .. count, blocks[j].used
        PROVE  \E k \in 1 .. n : c[k] = blocks[j]
    <3>1. CASE j < i
      BY <3>1, <1>1, <1>2
    <3>2. CASE j > i
      <4>1. j + 1 \in 1 .. n /\ j + 1 > i + 1 /\ (j + 1) - 1 = j
        BY <3>2, <1>1
      <4> QED BY <4>1, <1>2
    <3>3. j # i
      BY <2>2
    <3> QED BY <3>1, <3>2, <3>3, <1>1
  <2> QED
    BY <2>1, <2>2, <1>1, <1>4 DEF Used
<1> QED
  BY <1>11, <1>12 DEF c, n

-----------------------------------------------------------------------------

LEMMA InitInv == Init => Inv
<1> SUFFICES ASSUME Init PROVE Inv
  OBVIOUS
<1>1. /\ count = 1 /\ blocks \in [1 .. 1 -> Block] /\ blocks[1].offset = 0
      /\ blocks[1].size = HeapBytes /\ ~blocks[1].used
  BY HeapAssumption DEF Init, Block
<1>2. TypeOK
  <2>1. 1 \in 1 .. MaxBlocks /\ 0 \in 0 .. HeapBytes /\ 0 \in Size
    BY HeapAssumption DEF Size
  <2> QED
    BY <1>1, <2>1 DEF Init, TypeOK
<1>3. Tiles(blocks, count)
  BY <1>1, HeapAssumption DEF Tiles
<1>4. Used(blocks, count) = {}
  BY <1>1 DEF Used
<1> QED
  BY <1>2, <1>3, <1>4 DEF Init, Inv

\* block_alloc: the chosen block, or its front part, becomes the object's.
LEMMA AllocInv ==
  ASSUME Inv, NEW o \in Owner, NEW size \in Size, Alloc(o, size)
  PROVE  Inv'
<1>1. PICK i \in 1 .. count :
        /\ Chosen(i, size)
        /\ IF blocks[i].size > Need(size)
           THEN blocks' = Split(i, Need(size)) /\ count' = count + 1
           ELSE blocks' = [blocks EXCEPT ![i].used = TRUE] /\ count' = count
        /\ at' = [at EXCEPT ![o] = blocks[i].offset]
  BY DEF Alloc
<1> DEFINE need == Need(size)
<1>2. InRange(size) /\ need \in Nat \ {0} /\ need >= size
  <2>1. InRange(size)
    BY <1>1 DEF Chosen
  <2> QED BY <2>1, NeedBounds DEF Size
<1>3. ~blocks[i].used /\ blocks[i].size >= need
  BY <1>1 DEF Chosen, IsFirst, Fits
<1>4. /\ blocks[i].size \in Nat /\ blocks[i].offset \in 0 .. HeapBytes
      /\ count \in Nat \ {0} /\ count <= MaxBlocks /\ count \in 1 .. MaxBlocks
  BY HeapAssumption DEF Inv, TypeOK, Block
<1> HIDE DEF need
<1>5. /\ Tiles(blocks', count') /\ count' \in 1 .. MaxBlocks
      /\ Used(blocks', count') = Used(blocks, count) \cup {<<blocks[i].offset, need>>}
  <2>1. CASE blocks[i].size > need
    <3>1. blocks' = Split(i, need) /\ count' = count + 1 /\ count < MaxBlocks
      BY <1>1, <2>1 DEF Chosen, need
    <3>2. count' \in 1 .. MaxBlocks
      BY <3>1, <1>4, HeapAssumption
    <3>3. Tiles(blocks, count) /\ need < blocks[i].size
      BY <2>1, <1>2, <1>4 DEF Inv
    <3> QED BY <3>1, <3>2, <3>3, <1>2, <1>3, SplitTiles
  <2>2. CASE ~(blocks[i].size > need)
    <3>1. blocks' = [blocks EXCEPT ![i].used = TRUE] /\ count' = count
      BY <1>1, <2>2 DEF need
    <3>2. blocks[i].size = need
      BY <2>2, <1>2, <1>3, <1>4
    <3>3. Tiles(blocks, count)
      BY DEF Inv
    <3>4. Tiles(blocks', count)
      BY <3>1, <3>3, MarkTiles
    <3>5. Used([blocks EXCEPT ![i].used = TRUE], count) =
            Used(blocks, count) \cup {<<blocks[i].offset, blocks[i].size>>}
      <4> HIDE DEF need
      <4>1. \A u \in BOOLEAN : Used([blocks EXCEPT ![i].used = u], count) =
              IF u THEN Used(blocks, count) \cup {<<blocks[i].offset, blocks[i].size>>}
              ELSE Used(blocks, count) \ {<<blocks[i].offset, blocks[i].size>>}
        BY <3>3, MarkUsed, ZenonT(60)
      <4> QED BY <4>1
    <3> QED BY <3>1, <3>2, <3>4, <3>5, <1>4
  <2> QED BY <2>1, <2>2
<1>6. \A p \in live : at[p] # blocks[i].offset
  <2> SUFFICES ASSUME NEW p \in live, at[p] = blocks[i].offset PROVE FALSE
    OBVIOUS
  <2>1. <<at[p], Need(asked[p])>> \in Used(blocks, count)
    BY DEF Inv
  <2>2. PICK j \in 1 .. count : blocks[j].used /\ blocks[j].offset = at[p]
    BY <2>1 DEF Used
  <2>3. j = i
    BY <2>2, DistinctOffsets DEF Inv
  <2> QED BY <2>2, <2>3, <1>3
<1>7. /\ o \notin live /\ live' = live \cup {o}
      /\ asked' = [asked EXCEPT ![o] = size]
      /\ at' = [at EXCEPT ![o] = blocks[i].offset]
      /\ at \in [Owner -> 0 .. HeapBytes] /\ asked \in [Owner -> Size]
      /\ live \subseteq Owner
  BY <1>1 DEF Alloc, Inv, TypeOK
<1>8. /\ \A p \in live : at'[p] = at[p] /\ asked'[p] = asked[p]
      /\ at'[o] = blocks[i].offset /\ asked'[o] = size
  BY <1>7
<1>9. TypeOK'
  <2>1. blocks' \in [1 .. count' -> Block]
    BY <1>5 DEF Tiles
  <2> QED BY <2>1, <1>4, <1>5, <1>7 DEF TypeOK
<1>10. (\A p \in live : InRange(asked[p]))'
  BY <1>2, <1>7, <1>8 DEF Inv, InRange
<1>11. (Used(blocks, count) = {<<at[p], Need(asked[p])>> : p \in live})'
  <2>1. Used(blocks, count) = {<<at[p], Need(asked[p])>> : p \in live}
    BY DEF Inv
  <2>2. {<<at'[p], Need(asked'[p])>> : p \in live'} =
          {<<at[p], Need(asked[p])>> : p \in live} \cup {<<blocks[i].offset, Need(size)>>}
    BY <1>7, <1>8
  <2>3. Used(blocks', count') =
          {<<at[p], Need(asked[p])>> : p \in live} \cup {<<blocks[i].offset, Need(size)>>}
    BY <1>5, <2>1 DEF need
  <2>4. Used(blocks', count') = {<<at'[p], Need(asked'[p])>> : p \in live'}
    BY <2>2, <2>3
  <2> QED BY <2>4 DEF Used, Need
<1>12. (\A p, q \in live : at[p] = at[q] => p = q)'
  BY <1>6, <1>7, <1>8 DEF Inv
<1> QED
  BY <1>5, <1>9, <1>10, <1>11, <1>12 DEF Inv, Tiles

\* block_free: the block the object kept is found, and its extent alone is freed.
LEMMA FreeInv ==
  ASSUME Inv, NEW o \in Owner, Free(o)
  PROVE  Inv'
<1>1. /\ o \in live /\ live' = live \ {o}
      /\ at' = [at EXCEPT ![o] = 0] /\ asked' = [asked EXCEPT ![o] = 0]
      /\ at \in [Owner -> 0 .. HeapBytes] /\ asked \in [Owner -> Size]
      /\ live \subseteq Owner
      /\ Tiles(blocks, count) /\ count \in 1 .. MaxBlocks
      /\ \A p, q \in live : at[p] = at[q] => p = q
      /\ Used(blocks, count) = {<<at[p], Need(asked[p])>> : p \in live}
  BY DEF Free, Inv, TypeOK
<1>2. Matches(at[o]) # {}
  <2>1. <<at[o], Need(asked[o])>> \in Used(blocks, count)
    BY <1>1
  <2> QED BY <2>1 DEF Used, Matches
<1>3. PICK i \in 1 .. count : i \in Matches(at[o]) /\ Freed(i)
  BY <1>2 DEF Free, IsFirst
<1>4. blocks[i].used /\ blocks[i].offset = at[o]
  BY <1>3 DEF Matches
<1>5. blocks[i].size = Need(asked[o])
  <2>1. <<blocks[i].offset, blocks[i].size>> \in Used(blocks, count)
    BY <1>4 DEF Used
  <2>2. PICK p \in live : at[p] = blocks[i].offset /\ Need(asked[p]) = blocks[i].size
    BY <1>1, <2>1
  <2> QED BY <2>2, <1>1, <1>4
<1>mark. \A u \in BOOLEAN : Used([blocks EXCEPT ![i].used = u], count) =
           IF u THEN Used(blocks, count) \cup {<<blocks[i].offset, blocks[i].size>>}
           ELSE Used(blocks, count) \ {<<blocks[i].offset, blocks[i].size>>}
  <2>1. Tiles(blocks, count) /\ i \in 1 .. count
    BY <1>1
  <2> QED BY <2>1, MarkUsed, ZenonT(60)
<1> DEFINE b == [blocks EXCEPT ![i].used = FALSE]
           next == i < count /\ ~b[i + 1].used
           c == IF next THEN Merge(b, count, i) ELSE b
           n == IF next THEN count - 1 ELSE count
           prev == i > 1 /\ ~c[i - 1].used
           kept == Used(blocks, count) \ {<<at[o], Need(asked[o])>>}
<1>6. /\ blocks' = IF prev THEN Merge(c, n, i - 1) ELSE c
      /\ count' = IF prev THEN n - 1 ELSE n
  BY <1>3 DEF Freed
<1>7. Tiles(b, count) /\ Used(b, count) = kept /\ ~b[i].used
  <2>1. Used(b, count) = Used(blocks, count) \ {<<blocks[i].offset, blocks[i].size>>}
    BY <1>mark
  <2>2. ~b[i].used
    BY <1>1 DEF Tiles, Block
  <2> QED BY <2>1, <2>2, <1>1, <1>4, <1>5, MarkTiles
<1> HIDE DEF b, kept
<1>8. Tiles(c, n) /\ Used(c, n) = kept /\ ~c[i].used /\ i \in 1 .. n /\ n <= count
  <2>1. CASE next
    <3>1. i \in 1 .. count - 1 /\ count - 1 <= count /\ ~b[i + 1].used
      BY <2>1, <1>1 DEF Tiles
    <3> QED BY <2>1, <3>1, <1>7, MergeTiles, MergeUsed
  <2>2. CASE ~next
    BY <2>2, <1>1, <1>7 DEF Tiles
  <2> QED BY <2>1, <2>2
<1> HIDE DEF c, n
<1>9. Tiles(blocks', count') /\ Used(blocks', count') = kept /\ count' <= n
  <2>1. CASE prev
    <3>1. /\ i - 1 \in 1 .. n - 1 /\ (i - 1) + 1 = i /\ n - 1 <= n
          /\ blocks' = Merge(c, n, i - 1) /\ count' = n - 1
      BY <2>1, <1>6, <1>8 DEF Tiles
    <3> QED BY <2>1, <3>1, <1>8, MergeTiles, MergeUsed
  <2>2. CASE ~prev
    BY <2>2, <1>6, <1>8 DEF Tiles
  <2> QED BY <2>1, <2>2
<1>10. count' \in 1 .. MaxBlocks /\ blocks' \in [1 .. count' -> Block]
  <2>1. count' \in Nat \ {0} /\ n \in Nat /\ blocks' \in [1 .. count' -> Block]
    BY <1>8, <1>9 DEF Tiles
  <2> QED BY <2>1, <1>1, <1>8, <1>9, HeapAssumption
<1>11. /\ \A p \in live' : at'[p] = at[p] /\ asked'[p] = asked[p] /\ p \in live /\ p # o
  BY <1>1
<1>12. TypeOK'
  <2>1. 0 \in 0 .. HeapBytes /\ 0 \in Size
    BY HeapAssumption DEF Size
  <2> QED BY <2>1, <1>1, <1>10 DEF TypeOK
<1>13. (\A p \in live : InRange(asked[p]))'
  BY <1>11 DEF Inv, InRange
<1>14. (Used(blocks, count) = {<<at[p], Need(asked[p])>> : p \in live})'
  <2>1. {<<at'[p], Need(asked'[p])>> : p \in live'} = kept
    <3>1. {<<at'[p], Need(asked'[p])>> : p \in live'} \subseteq kept
      BY <1>1, <1>11 DEF kept
    <3>2. kept \subseteq {<<at'[p], Need(asked'[p])>> : p \in live'}
      <4>1. ASSUME NEW p \in live, p # o
            PROVE  <<at[p], Need(asked[p])>> \in {<<at'[q], Need(asked'[q])>> : q \in live'}
        BY <4>1, <1>1, <1>11
      <4> QED BY <4>1, <1>1 DEF kept
    <3> QED BY <3>1, <3>2
  <2>2. Used(blocks', count') = {<<at'[p], Need(asked'[p])>> : p \in live'}
    BY <2>1, <1>9
  <2> QED BY <2>2 DEF Used, Need
<1>15. (\A p, q \in live : at[p] = at[q] => p = q)'
  BY <1>1, <1>11
<1> QED
  BY <1>9, <1>12, <1>13, <1>14, <1>15 DEF Inv, Tiles

LEMMA NextInv == Inv /\ [Next]_vars => Inv'
<1> SUFFICES ASSUME Inv, [Next]_vars PROVE Inv'
  OBVIOUS
<1>1. CASE UNCHANGED vars
  BY <1>1 DEF vars, heap, Inv, TypeOK, Tiles, Used, InRange, Need
<1> QED
  BY <1>1, AllocInv, FreeInv DEF Next

LEMMA Invariance == Spec => []Inv
  BY InitInv, NextInv, PTL DEF Spec

-----------------------------------------------------------------------------
(* What the objects of the front end rely on.                              *)

\* The table never outgrows its array, whatever is allocated and freed.
THEOREM TypeCorrect == Spec => []TypeOK
  BY Invariance, PTL DEF Inv

\* block_free always finds the block of a live object, and no block is in use
\* that no object holds.
THEOREM NoBlockLeaks == Spec => []UsedIsLive
<1>1. Inv => UsedIsLive
  <2> SUFFICES ASSUME Inv PROVE UsedIsLive
    OBVIOUS
  <2>1. Used(blocks, count) = {<<at[o], Need(asked[o])>> : o \in live}
    BY DEF Inv
  <2>2. ASSUME NEW o \in live
        PROVE  \E i \in 1 .. count :
                 blocks[i].used /\ blocks[i].offset = at[o] /\ blocks[i].size = Need(asked[o])
    <3>1. <<at[o], Need(asked[o])>> \in Used(blocks, count)
      BY <2>1
    <3> QED BY <3>1 DEF Used
  <2>3. ASSUME NEW i \in 1 .. count, blocks[i].used
        PROVE  \E o \in live : at[o] = blocks[i].offset
    <3>1. <<blocks[i].offset, blocks[i].size>> \in Used(blocks, count)
      BY <2>3 DEF Used
    <3> QED BY <3>1, <2>1
  <2> QED BY <2>2, <2>3 DEF UsedIsLive
<1> QED
  BY <1>1, Invariance, PTL

\* The bytes an object holds, as HeapMap sees them.
extent == [o \in Owner |-> IF o \in live THEN at[o] .. at[o] + asked[o] - 1 ELSE {}]

\* A live object's bytes lie in the used block at its offset.
LEMMA InItsBlock ==
  ASSUME Inv, NEW p \in live
  PROVE  \E j \in 1 .. count :
           /\ blocks[j].used /\ blocks[j].offset = at[p]
           /\ asked[p] \in Nat /\ asked[p] <= blocks[j].size
<1>1. <<at[p], Need(asked[p])>> \in Used(blocks, count) /\ asked[p] \in Size
  BY DEF Inv, TypeOK
<1>2. PICK j \in 1 .. count :
        blocks[j].used /\ blocks[j].offset = at[p] /\ blocks[j].size = Need(asked[p])
  BY <1>1 DEF Used
<1>3. asked[p] <= Need(asked[p])
  BY <1>1, NeedBounds DEF Inv
<1> QED
  BY <1>1, <1>2, <1>3 DEF Size

\* An allocation takes bytes that nobody holds.
LEMMA AllocTakes ==
  ASSUME Inv, NEW o \in Owner, NEW size \in Size, Alloc(o, size)
  PROVE  Map!Take(o, at'[o], at'[o] + size - 1)
<1>1. PICK i \in 1 .. count : Chosen(i, size) /\ at' = [at EXCEPT ![o] = blocks[i].offset]
  BY DEF Alloc
<1>2. /\ o \notin live /\ live' = live \cup {o} /\ asked' = [asked EXCEPT ![o] = size]
      /\ at \in [Owner -> 0 .. HeapBytes] /\ asked \in [Owner -> Size]
      /\ live \subseteq Owner /\ at'[o] = blocks[i].offset /\ Tiles(blocks, count)
  BY <1>1 DEF Alloc, Inv, TypeOK
<1>3. ~blocks[i].used /\ Need(size) \in Nat /\ blocks[i].size >= Need(size)
      /\ Need(size) >= size /\ size > 0
  BY <1>1, NeedBounds DEF Chosen, IsFirst, Fits
<1>4. \A j \in 1 .. count : /\ blocks[j].offset \in Nat /\ blocks[j].size \in Nat
                           /\ blocks[j].offset + blocks[j].size <= HeapBytes
  BY <1>2, HeapAssumption DEF Tiles, Block
<1> DEFINE first == blocks[i].offset
           last == blocks[i].offset + size - 1
<1>5. first \in Map!Byte /\ last \in Map!Byte /\ first <= last
  BY <1>3, <1>4, HeapAssumption DEF Map!Byte, Size
<1>6. ASSUME NEW p \in live
      PROVE  (at[p] .. at[p] + asked[p] - 1) \cap (first .. last) = {}
  <2>1. PICK j \in 1 .. count :
          /\ blocks[j].used /\ blocks[j].offset = at[p]
          /\ asked[p] \in Nat /\ asked[p] <= blocks[j].size
    BY InItsBlock
  <2>2. j < i \/ i < j
    BY <2>1, <1>3
  <2>3. /\ j < i => blocks[j].offset + blocks[j].size <= blocks[i].offset
        /\ i < j => blocks[i].offset + blocks[i].size <= blocks[j].offset
    BY <1>2 DEF Tiles
  <2>4. at[p] + asked[p] - 1 < first \/ last < at[p]
    BY <2>1, <2>2, <2>3, <1>3, <1>4 DEF Size
  <2>5. /\ first \in Int /\ last \in Int /\ at[p] \in Int /\ asked[p] \in Int
    BY <2>1, <1>4 DEF Size
  <2> HIDE DEF first, last
  <2> QED BY <2>4, <2>5
<1>7. extent' = [extent EXCEPT ![o] = first .. last]
  BY <1>1, <1>2 DEF extent
<1> HIDE DEF first, last
<1>8. extent[o] = {} /\ \A p \in Owner : extent[p] \cap (first .. last) = {}
  BY <1>2, <1>6 DEF extent
<1> QED
  BY <1>2, <1>5, <1>7, <1>8 DEF Map!Take, extent, first, last

\* The heap implements HeapMap: a live object's bytes are its own, and stay
\* where they are, until it is freed.
THEOREM HeapImplemented == Spec => HeapSpec
<1>1. Init => Map!Init
  BY DEF Init, Map!Init
<1>2. Inv /\ [Next]_vars => [Map!Next]_extent
  <2> SUFFICES ASSUME Inv, [Next]_vars PROVE Map!Next \/ UNCHANGED extent
    OBVIOUS
  <2>1. ASSUME NEW o \in Owner, NEW size \in Size, Alloc(o, size)
        PROVE  Map!Next
    <3>1. Map!Take(o, at'[o], at'[o] + size - 1)
      BY <2>1, AllocTakes
    <3> QED BY <3>1 DEF Map!Next, Map!Take
  <2>2. ASSUME NEW o \in Owner, Free(o)
        PROVE  Map!Next
    <3>1. /\ live' = live \ {o} /\ at' = [at EXCEPT ![o] = 0]
          /\ asked' = [asked EXCEPT ![o] = 0]
          /\ at \in [Owner -> 0 .. HeapBytes] /\ asked \in [Owner -> Size]
      BY <2>2 DEF Free, Inv, TypeOK
    <3>2. extent' = [extent EXCEPT ![o] = {}]
      BY <3>1 DEF extent
    <3> QED BY <3>2 DEF Map!Next, Map!Give, extent
  <2>3. CASE UNCHANGED vars
    BY <2>3 DEF vars, extent
  <2> QED BY <2>1, <2>2, <2>3 DEF Next
<1>3. Inv /\ [Next]_vars =>
        [Map!Next]_[o \in Owner |-> IF o \in live THEN at[o] .. at[o] + asked[o] - 1 ELSE {}]
  BY <1>2 DEF extent
<1> QED
  BY <1>1, <1>3, Invariance, PTL DEF Spec, HeapSpec, Map!Spec

\* What two live objects hold lies in the heap, one behind the other.
LEMMA BytesApart ==
  ASSUME Inv, NEW o \in live
  PROVE  /\ at[o] \in Nat /\ asked[o] \in Nat /\ at[o] + asked[o] <= HeapBytes
         /\ \A p \in live : o # p => \/ at[o] + asked[o] <= at[p]
                                     \/ at[p] + asked[p] <= at[o]
<1>1. PICK i \in 1 .. count :
        /\ blocks[i].offset = at[o] /\ asked[o] \in Nat /\ asked[o] <= blocks[i].size
  BY InItsBlock
<1>2. \A k \in 1 .. count : /\ blocks[k].offset \in Nat /\ blocks[k].size \in Nat
                            /\ blocks[k].offset + blocks[k].size <= HeapBytes
  BY HeapAssumption DEF Inv, Tiles, Block
<1>3. ASSUME NEW p \in live, o # p
      PROVE  at[o] + asked[o] <= at[p] \/ at[p] + asked[p] <= at[o]
  <2>1. PICK j \in 1 .. count :
          /\ blocks[j].offset = at[p] /\ asked[p] \in Nat /\ asked[p] <= blocks[j].size
    BY InItsBlock
  <2>2. i < j \/ j < i
    BY <1>1, <1>3, <2>1 DEF Inv
  <2>3. /\ j < i => blocks[j].offset + blocks[j].size <= blocks[i].offset
        /\ i < j => blocks[i].offset + blocks[i].size <= blocks[j].offset
    BY DEF Inv, Tiles
  <2> QED BY <1>1, <1>2, <2>1, <2>2, <2>3
<1> QED
  BY <1>1, <1>2, <1>3, HeapAssumption

\* No two objects of the front end share a byte of the heap.
THEOREM ObjectsAreDisjoint == Spec => []Map!Disjoint
<1>1. Inv => Map!Disjoint
  <2> SUFFICES ASSUME Inv, NEW o \in live, NEW p \in live, o # p
               PROVE  (at[o] .. at[o] + asked[o] - 1) \cap (at[p] .. at[p] + asked[p] - 1) = {}
    BY DEF Map!Disjoint
  <2> QED BY BytesApart
<1> QED
  BY <1>1, Invariance, PTL

-----------------------------------------------------------------------------
(***************************************************************************)
(* The heap loses no room to fragments.  Two more facts about the table    *)
(* make it so: every block begins and ends at a multiple of the alignment, *)
(* and no two neighbours are free.  An aligned stretch that no object      *)
(* needs is then inside one free block, as large as the rounded size.      *)
(***************************************************************************)


\* Block boundaries are multiples of the alignment.
Aligned(b, n) == \A k \in 1 .. n : b[k].offset % Align = 0 /\ b[k].size % Align = 0

\* Free blocks have been merged, all but the two before and at i, if there are.
JoinedBut(b, n, i) == \A k \in 1 .. n - 1 : k # i - 1 => b[k].used \/ b[k + 1].used

Joined(b, n) == \A k \in 1 .. n - 1 : b[k].used \/ b[k + 1].used

HoleInv == Inv /\ Aligned(blocks, count) /\ Joined(blocks, count)

-----------------------------------------------------------------------------
(* Multiples of a number.                                                  *)

LEMMA Quotient ==
  ASSUME NEW A \in Nat \ {0}, NEW a \in Nat, a % A = 0
  PROVE  a = A * (a \div A) /\ a \div A \in Nat
  BY SMTT(20)

LEMMA Product ==
  ASSUME NEW A \in Nat \ {0}, NEW k \in Int
  PROVE  (A * k) % A = 0
  BY SMTT(20)

LEMMA SumOfMultiples ==
  ASSUME NEW A \in Nat \ {0}, NEW a \in Nat, NEW b \in Nat, a % A = 0, b % A = 0
  PROVE  (a + b) % A = 0 /\ (a - b) % A = 0
<1> DEFINE j == a \div A
           k == b \div A
<1>1. a = A * j /\ j \in Nat /\ b = A * k /\ k \in Nat
  BY Quotient
<1> HIDE DEF j, k
<1>2. a + b = A * (j + k) /\ a - b = A * (j - k)
  BY <1>1
<1>3. j + k \in Int /\ j - k \in Int
  BY <1>1
<1> QED BY <1>2, <1>3, Product

LEMMA RoundedDown ==
  ASSUME NEW A \in Nat \ {0}, NEW a \in Nat
  PROVE  (a - (a % A)) % A = 0
<1>1. a - (a % A) = A * (a \div A) /\ a \div A \in Int
  BY SMTT(20)
<1> QED BY <1>1, Product

LEMMA OneUnitApart ==
  ASSUME NEW A \in Nat \ {0}, NEW j \in Int, NEW k \in Int, A * j < A * k
  PROVE  A * j + A <= A * k
  BY SMTT(20)

\* Two multiples that differ do so by A at least.
LEMMA MultiplesAreApart ==
  ASSUME NEW A \in Nat \ {0}, NEW a \in Nat, NEW b \in Nat, a % A = 0, b % A = 0, a < b
  PROVE  a + A <= b
<1> DEFINE j == a \div A
           k == b \div A
<1>1. a = A * j /\ j \in Nat /\ b = A * k /\ k \in Nat
  BY Quotient
<1> HIDE DEF j, k
<1> QED BY <1>1, OneUnitApart

\* A set of numbers has a least one.
LEMMA Least ==
  ASSUME NEW S \in SUBSET Nat, S # {}
  PROVE  \E i \in S : \A j \in S : i <= j
<1> DEFINE R == {ss \in Nat \X Nat : ss[1] < ss[2]}
<1>1. IsWellFoundedOn(R, Nat)
  BY NatLessThanWellFounded DEF OpToRel
<1>2. \A i, j \in Nat : <<j, i>> \in R <=> j < i
  OBVIOUS
<1> HIDE DEF R
<1>3. PICK i \in S : \A j \in S : <<j, i>> \notin R
  BY <1>1, WFMin
<1>4. i \in Nat /\ \A j \in S : j \in Nat /\ ~(j < i)
  BY <1>2, <1>3
<1>5. \A j \in S : i <= j
  BY <1>4
<1> QED BY <1>5

-----------------------------------------------------------------------------
(* What block_alloc and block_free do to boundaries and neighbours.        *)

\* The rounded size is a multiple, less than one alignment above the size.
LEMMA NeedIsAligned ==
  ASSUME NEW size \in Size, InRange(size)
  PROVE  /\ Need(size) \in Nat \ {0} /\ Need(size) >= size
         /\ Need(size) % Align = 0 /\ Need(size) < size + Align
<1> DEFINE up == size + (Align - 1)
<1>1. up \in 0 .. WordMax /\ size > 0 /\ size \in Nat /\ Align \in Nat \ {0}
  BY HeapAssumption DEF InRange, Size
<1>2. up % (WordMax + 1) = up
  BY <1>1, HeapAssumption
<1>3. up % Align \in 0 .. Align - 1
  BY <1>1
<1>4. Need(size) = up - (up % Align)
  BY <1>2 DEF Need
<1>5. up \in Nat
  BY <1>1
<1>6. (up - (up % Align)) % Align = 0
  <2> HIDE DEF up
  <2> QED BY <1>1, <1>5, RoundedDown
<1>7. Need(size) >= size /\ Need(size) < size + Align /\ Need(size) \in Nat \ {0}
  BY <1>1, <1>3, <1>4
<1> QED
  BY <1>4, <1>6, <1>7

\* The entries of a table in which entries i and i + 1 were merged.
LEMMA MergeEntries ==
  ASSUME NEW b, NEW n, Tiles(b, n), NEW i \in 1 .. n - 1
  PROVE  LET c == Merge(b, n, i)
         IN /\ \A k \in 1 .. n - 1 : k < i => c[k] = b[k]
            /\ \A k \in 1 .. n - 1 : k > i => c[k] = b[k + 1]
            /\ c[i].offset = b[i].offset /\ c[i].size = b[i].size + b[i + 1].size
            /\ c[i].used = b[i].used
<1>1. n \in Nat \ {0} /\ i \in 1 .. n /\ i \in Nat
  BY DEF Tiles
<1>2. b[i] = [offset |-> b[i].offset, size |-> b[i].size, used |-> b[i].used]
  BY <1>1, Entry
<1>3. Merge(b, n, i)[i] = [b[i] EXCEPT !.size = b[i].size + b[i + 1].size]
  BY DEF Merge
<1>4. /\ \A k \in 1 .. n - 1 : k < i => Merge(b, n, i)[k] = b[k]
      /\ \A k \in 1 .. n - 1 : k > i => Merge(b, n, i)[k] = b[k + 1]
  BY <1>1 DEF Merge
<1> QED
  BY <1>2, <1>3, <1>4

LEMMA MergeAligned ==
  ASSUME NEW b, NEW n, Tiles(b, n), Aligned(b, n), NEW i \in 1 .. n - 1
  PROVE  Aligned(Merge(b, n, i), n - 1)
<1> DEFINE c == Merge(b, n, i)
<1>1. n \in Nat \ {0} /\ i \in Nat /\ i \in 1 .. n /\ i + 1 \in 1 .. n
  BY DEF Tiles
<1>2. /\ \A k \in 1 .. n - 1 : k < i => c[k] = b[k]
      /\ \A k \in 1 .. n - 1 : k > i => c[k] = b[k + 1]
      /\ c[i].offset = b[i].offset /\ c[i].size = b[i].size + b[i + 1].size
  BY MergeEntries
<1>3. b[i].size \in Nat /\ b[i + 1].size \in Nat
  <2>1. b[i].size \in 1 .. HeapBytes
    BY <1>1, Entry
  <2>2. b[i + 1].size \in 1 .. HeapBytes
    BY <1>1, Entry
  <2> QED BY <2>1, <2>2
<1>4. (b[i].size + b[i + 1].size) % Align = 0
  BY ZenonT(60), <1>1, <1>3, SumOfMultiples, HeapAssumption DEF Aligned
<1> HIDE DEF c
<1>5. SUFFICES ASSUME NEW k \in 1 .. n - 1
               PROVE  c[k].offset % Align = 0 /\ c[k].size % Align = 0
  BY DEF Aligned, c
<1>6. CASE k < i
  BY <1>1, <1>2, <1>6 DEF Aligned
<1>7. CASE k > i
  BY <1>1, <1>2, <1>7 DEF Aligned
<1>8. CASE k = i
  BY <1>1, <1>2, <1>4, <1>8 DEF Aligned
<1> QED
  BY <1>1, <1>6, <1>7, <1>8

\* The freed block i and the free block after it become one: whatever comes
\* next is in use.
LEMMA MergeNext ==
  ASSUME NEW b, NEW n, Tiles(b, n), NEW i \in 1 .. n - 1, ~b[i].used, ~b[i + 1].used,
         \A k \in 1 .. n - 1 : k \notin {i - 1, i} => b[k].used \/ b[k + 1].used
  PROVE  JoinedBut(Merge(b, n, i), n - 1, i)
<1> DEFINE c == Merge(b, n, i)
<1>1. n \in Nat \ {0} /\ i \in Nat
  BY DEF Tiles
<1>2. /\ \A k \in 1 .. n - 1 : k < i => c[k] = b[k]
      /\ \A k \in 1 .. n - 1 : k > i => c[k] = b[k + 1]
      /\ c[i].used = b[i].used
  BY MergeEntries
<1> HIDE DEF c
<1>3. SUFFICES ASSUME NEW k \in 1 .. (n - 1) - 1, k # i - 1
               PROVE  c[k].used \/ c[k + 1].used
  BY DEF JoinedBut, c
<1>4. CASE k < i
  <2>1. /\ k \in 1 .. n - 1 /\ k + 1 \in 1 .. n - 1 /\ k + 1 < i /\ k \notin {i - 1, i}
    BY <1>1, <1>3, <1>4
  <2> QED BY <1>2, <1>4, <2>1
<1>5. CASE k = i
  <2>1. i + 1 \in 1 .. n - 1 /\ i + 1 \notin {i - 1, i} /\ (i + 1) + 1 = i + 2
    BY <1>1, <1>5
  <2>2. b[i + 2].used
    BY <2>1
  <2>3. c[i + 1] = b[i + 2]
    BY <1>1, <1>2, <2>1
  <2> QED BY <1>5, <2>2, <2>3
<1>6. CASE k > i
  <2>1. /\ k \in 1 .. n - 1 /\ k + 1 \in 1 .. n - 1 /\ k + 1 > i
        /\ k + 1 \notin {i - 1, i}
    BY <1>1, <1>6
  <2> QED BY <1>2, <1>6, <2>1
<1> QED
  BY <1>1, <1>4, <1>5, <1>6

\* ... and with the free block before it: what comes before is in use.
LEMMA MergePrevious ==
  ASSUME NEW b, NEW n, Tiles(b, n), NEW i \in 2 .. n, ~b[i - 1].used, ~b[i].used,
         JoinedBut(b, n, i)
  PROVE  Joined(Merge(b, n, i - 1), n - 1)
<1>1. n \in Nat \ {0} /\ i \in Nat /\ i - 1 \in 1 .. n - 1 /\ (i - 1) + 1 = i
  BY DEF Tiles
<1> DEFINE h == i - 1
<1>2. h \in 1 .. n - 1 /\ ~b[h].used /\ ~b[h + 1].used
  BY <1>1
<1>3. \A k \in 1 .. n - 1 : k \notin {h - 1, h} => b[k].used \/ b[k + 1].used
  BY DEF JoinedBut
<1>4. h - 1 \in 1 .. n - 1 => b[h - 1].used
  <2>1. ASSUME h - 1 \in 1 .. n - 1 PROVE b[h - 1].used
    <3>1. h - 1 # i - 1 /\ (h - 1) + 1 = h
      BY <1>1
    <3>2. b[h - 1].used \/ b[(h - 1) + 1].used
      BY <2>1, <3>1 DEF JoinedBut
    <3> QED BY <1>2, <3>1, <3>2
  <2> QED BY <2>1
<1>5. h \in Nat
  BY <1>1
<1> HIDE DEF h
<1> DEFINE c == Merge(b, n, h)
<1>6. JoinedBut(c, n - 1, h)
  BY <1>2, <1>3, MergeNext
<1>7. \A k \in 1 .. n - 1 : k < h => c[k] = b[k]
  BY <1>2, MergeEntries
<1> HIDE DEF c
<1>8. SUFFICES ASSUME NEW k \in 1 .. (n - 1) - 1 PROVE c[k].used \/ c[k + 1].used
  BY DEF Joined, c, h
<1>9. CASE k = h - 1
  <2>1. k \in 1 .. n - 1 /\ k < h
    BY <1>1, <1>5, <1>9
  <2> QED BY <1>4, <1>7, <1>9, <2>1
<1> QED
  BY <1>6, <1>9 DEF JoinedBut

\* A block in use changes only two pairs of neighbours.
LEMMA SplitEntries ==
  ASSUME Tiles(blocks, count), NEW i \in 1 .. count, NEW need \in Nat
  PROVE  LET c == Split(i, need)
         IN /\ \A k \in 1 .. count + 1 : k < i => c[k] = blocks[k]
            /\ \A k \in 1 .. count + 1 : k > i + 1 => c[k] = blocks[k - 1]
            /\ c[i].offset = blocks[i].offset /\ c[i].size = need /\ c[i].used
            /\ c[i + 1].offset = blocks[i].offset + need
            /\ c[i + 1].size = blocks[i].size - need /\ ~c[i + 1].used
<1>1. count \in Nat \ {0} /\ i \in Nat /\ i \in 1 .. count + 1 /\ i + 1 \in 1 .. count + 1
  BY DEF Tiles
<1>2. Split(i, need)[i] = [offset |-> blocks[i].offset, size |-> need, used |-> TRUE]
  BY <1>1 DEF Split
<1>3. Split(i, need)[i + 1] = [offset |-> blocks[i].offset + need,
                               size |-> blocks[i].size - need, used |-> FALSE]
  BY <1>1 DEF Split
<1>4. \A k \in 1 .. count + 1 : k < i => Split(i, need)[k] = blocks[k]
  BY <1>1 DEF Split
<1>5. \A k \in 1 .. count + 1 : k > i + 1 => Split(i, need)[k] = blocks[k - 1]
  BY <1>1 DEF Split
<1> QED
  BY <1>2, <1>3, <1>4, <1>5

LEMMA SplitHoles ==
  ASSUME Tiles(blocks, count), Aligned(blocks, count), Joined(blocks, count),
         NEW i \in 1 .. count, ~blocks[i].used,
         NEW need \in Nat \ {0}, need % Align = 0, need < blocks[i].size
  PROVE  Aligned(Split(i, need), count + 1) /\ Joined(Split(i, need), count + 1)
<1> DEFINE c == Split(i, need)
<1>1. count \in Nat \ {0} /\ i \in Nat /\ need \in Nat
  BY DEF Tiles
<1>2. /\ \A k \in 1 .. count + 1 : k < i => c[k] = blocks[k]
      /\ \A k \in 1 .. count + 1 : k > i + 1 => c[k] = blocks[k - 1]
      /\ c[i].offset = blocks[i].offset /\ c[i].size = need /\ c[i].used
      /\ c[i + 1].offset = blocks[i].offset + need
      /\ c[i + 1].size = blocks[i].size - need /\ ~c[i + 1].used
  BY <1>1, SplitEntries
<1>3. blocks[i].offset \in Nat /\ blocks[i].size \in Nat
  <2>1. blocks[i].offset \in 0 .. HeapBytes /\ blocks[i].size \in 1 .. HeapBytes
    BY Entry
  <2> QED BY <2>1
<1>4. (blocks[i].offset + need) % Align = 0 /\ (blocks[i].size - need) % Align = 0
  BY ZenonT(60), <1>1, <1>3, SumOfMultiples, HeapAssumption DEF Aligned
<1> HIDE DEF c
<1>5. ASSUME NEW k \in 1 .. count + 1 PROVE c[k].offset % Align = 0 /\ c[k].size % Align = 0
  <2>1. CASE k < i
    BY <1>1, <1>2, <2>1 DEF Aligned
  <2>2. CASE k = i
    BY <1>1, <1>2, <2>2 DEF Aligned
  <2>3. CASE k = i + 1
    BY <1>2, <1>4, <2>3
  <2>4. CASE k > i + 1
    <3>1. k - 1 \in 1 .. count /\ c[k] = blocks[k - 1]
      BY <1>1, <1>2, <2>4
    <3> QED BY <3>1 DEF Aligned
  <2> QED BY <1>1, <2>1, <2>2, <2>3, <2>4
<1>6. ASSUME NEW k \in 1 .. count PROVE c[k].used \/ c[k + 1].used
  <2>1. CASE k = i \/ k + 1 = i
    BY <1>1, <1>2, <2>1
  <2>2. CASE k + 1 < i
    <3>1. k \in 1 .. count - 1 /\ k + 1 \in 1 .. count + 1 /\ k < i /\ k \in 1 .. count + 1
      BY <1>1, <2>2
    <3> QED BY <1>2, <2>2, <3>1 DEF Joined
  <2>3. CASE k = i + 1
    <3>1. i \in 1 .. count - 1 /\ k + 1 \in 1 .. count + 1 /\ k + 1 > i + 1 /\ (k + 1) - 1 = i + 1
      BY <1>1, <2>3
    <3>2. blocks[i + 1].used
      BY <3>1 DEF Joined
    <3>3. c[k + 1] = blocks[i + 1]
      BY <1>2, <3>1
    <3> QED BY <3>2, <3>3
  <2>4. CASE k > i + 1
    <3>1. /\ k - 1 \in 1 .. count - 1 /\ (k - 1) + 1 = k /\ (k + 1) - 1 = k
          /\ k \in 1 .. count + 1 /\ k + 1 \in 1 .. count + 1 /\ k + 1 > i + 1
      BY <1>1, <2>4
    <3>2. c[k] = blocks[k - 1] /\ c[k + 1] = blocks[k]
      BY <1>2, <2>4, <3>1
    <3> QED BY <3>1, <3>2 DEF Joined
  <2> QED BY <1>1, <2>1, <2>2, <2>3, <2>4
<1>7. Aligned(c, count + 1)
  BY <1>5 DEF Aligned
<1>8. Joined(c, count + 1)
  <2>1. (count + 1) - 1 = count
    BY <1>1
  <2> QED BY <1>6, <2>1 DEF Joined
<1> QED
  BY <1>7, <1>8 DEF c

\* Entry i is marked used, or free, ...
Taken(b, i) == [b EXCEPT ![i].used = TRUE]
Dropped(b, i) == [b EXCEPT ![i].used = FALSE]

\* ... which moves no boundary.
LEMMA TakenEntries ==
  ASSUME NEW b, NEW n, Tiles(b, n), NEW i \in 1 .. n
  PROVE  /\ Tiles(Taken(b, i), n) /\ Taken(b, i)[i].used
         /\ \A k \in 1 .. n : k # i => Taken(b, i)[k] = b[k]
         /\ \A k \in 1 .. n : /\ Taken(b, i)[k].offset = b[k].offset
                             /\ Taken(b, i)[k].size = b[k].size
<1>1. b \in [1 .. n -> Block]
  BY DEF Tiles
<1>2. b[i] = [offset |-> b[i].offset, size |-> b[i].size, used |-> b[i].used]
  BY Entry
<1>3. Tiles(Taken(b, i), n)
  BY MarkTiles DEF Taken
<1>4. /\ Taken(b, i)[i] = [b[i] EXCEPT !.used = TRUE]
      /\ \A k \in 1 .. n : k # i => Taken(b, i)[k] = b[k]
  BY <1>1 DEF Taken
<1>5. Taken(b, i)[i].used
  BY <1>2, <1>4
<1>6. Taken(b, i)[i].offset = b[i].offset /\ Taken(b, i)[i].size = b[i].size
  BY <1>2, <1>4
<1>7. \A k \in 1 .. n : /\ Taken(b, i)[k].offset = b[k].offset
                       /\ Taken(b, i)[k].size = b[k].size
  BY <1>4, <1>6
<1> QED BY <1>3, <1>4, <1>5, <1>7

LEMMA DroppedEntries ==
  ASSUME NEW b, NEW n, Tiles(b, n), NEW i \in 1 .. n
  PROVE  /\ Tiles(Dropped(b, i), n) /\ ~Dropped(b, i)[i].used
         /\ \A k \in 1 .. n : k # i => Dropped(b, i)[k] = b[k]
         /\ \A k \in 1 .. n : /\ Dropped(b, i)[k].offset = b[k].offset
                             /\ Dropped(b, i)[k].size = b[k].size
<1>1. b \in [1 .. n -> Block]
  BY DEF Tiles
<1>2. b[i] = [offset |-> b[i].offset, size |-> b[i].size, used |-> b[i].used]
  BY Entry
<1>3. Tiles(Dropped(b, i), n)
  BY MarkTiles DEF Dropped
<1>4. /\ Dropped(b, i)[i] = [b[i] EXCEPT !.used = FALSE]
      /\ \A k \in 1 .. n : k # i => Dropped(b, i)[k] = b[k]
  BY <1>1 DEF Dropped
<1>5. ~Dropped(b, i)[i].used
  BY <1>2, <1>4
<1>6. Dropped(b, i)[i].offset = b[i].offset /\ Dropped(b, i)[i].size = b[i].size
  BY <1>2, <1>4
<1>7. \A k \in 1 .. n : /\ Dropped(b, i)[k].offset = b[k].offset
                       /\ Dropped(b, i)[k].size = b[k].size
  BY <1>4, <1>6
<1> QED BY <1>3, <1>4, <1>5, <1>7

LEMMA AllocHoles ==
  ASSUME HoleInv, NEW o \in Owner, NEW size \in Size, Alloc(o, size)
  PROVE  Aligned(blocks, count)' /\ Joined(blocks, count)'
<1> DEFINE need == Need(size)
<1>1. PICK i \in 1 .. count :
        /\ Chosen(i, size)
        /\ IF blocks[i].size > need
           THEN blocks' = Split(i, need) /\ count' = count + 1
           ELSE blocks' = [blocks EXCEPT ![i].used = TRUE] /\ count' = count
  BY DEF Alloc
<1>2. need \in Nat \ {0} /\ need % Align = 0
  BY <1>1, NeedIsAligned DEF Chosen
<1>3. ~blocks[i].used
  BY <1>1 DEF Chosen, IsFirst, Fits
<1>4. Tiles(blocks, count) /\ Aligned(blocks, count) /\ Joined(blocks, count)
  BY DEF HoleInv, Inv
<1>5. blocks[i].size \in Nat
  <2>1. blocks[i].size \in 1 .. HeapBytes
    BY <1>4, Entry
  <2> QED BY <2>1
<1> HIDE DEF need
<1>6. CASE blocks[i].size > need
  <2>1. need < blocks[i].size
    BY <1>2, <1>5, <1>6
  <2>2. Aligned(Split(i, need), count + 1) /\ Joined(Split(i, need), count + 1)
    BY <1>2, <1>3, <1>4, <2>1, SplitHoles
  <2>3. blocks' = Split(i, need) /\ count' = count + 1
    BY <1>1, <1>6
  <2> QED BY <2>2, <2>3 DEF Aligned, Joined
<1>7. CASE ~(blocks[i].size > need)
  <2> DEFINE c == Taken(blocks, i)
  <2>1. blocks' = c /\ count' = count
    BY <1>1, <1>7 DEF Taken
  <2>2. /\ c[i].used
        /\ \A k \in 1 .. count : k # i => c[k] = blocks[k]
        /\ \A k \in 1 .. count : c[k].offset = blocks[k].offset /\ c[k].size = blocks[k].size
    BY <1>4, TakenEntries
  <2>3. count \in Nat
    BY <1>4 DEF Tiles
  <2> HIDE DEF c
  <2>4. Aligned(c, count)
    BY <1>4, <2>2 DEF Aligned
  <2>5. Joined(c, count)
    BY <1>4, <2>2, <2>3 DEF Joined
  <2> QED BY <2>1, <2>4, <2>5 DEF Aligned, Joined
<1> QED
  BY <1>6, <1>7

LEMMA FreeHoles ==
  ASSUME HoleInv, NEW o \in Owner, Free(o)
  PROVE  Aligned(blocks, count)' /\ Joined(blocks, count)'
<1>1. Tiles(blocks, count) /\ Aligned(blocks, count) /\ Joined(blocks, count)
  BY DEF HoleInv, Inv
<1>2. CASE UNCHANGED heap
  BY <1>1, <1>2 DEF heap, Aligned, Joined
<1>3. ASSUME NEW i \in 1 .. count, Freed(i)
      PROVE  Aligned(blocks, count)' /\ Joined(blocks, count)'
  <2> DEFINE b == Dropped(blocks, i)
             next == i < count /\ ~b[i + 1].used
             c == IF next THEN Merge(b, count, i) ELSE b
             n == IF next THEN count - 1 ELSE count
             prev == i > 1 /\ ~c[i - 1].used
  <2>1. /\ blocks' = IF prev THEN Merge(c, n, i - 1) ELSE c
        /\ count' = IF prev THEN n - 1 ELSE n
    BY <1>3 DEF Freed, Dropped
  <2>2. /\ Tiles(b, count) /\ ~b[i].used
        /\ \A k \in 1 .. count : k # i => b[k] = blocks[k]
        /\ \A k \in 1 .. count : b[k].offset = blocks[k].offset /\ b[k].size = blocks[k].size
    BY <1>1, DroppedEntries
  <2>3. count \in Nat \ {0} /\ i \in Nat
    BY <1>1 DEF Tiles
  <2> HIDE DEF b
  <2>4. Aligned(b, count)
    BY <1>1, <2>2 DEF Aligned
  <2>5. \A k \in 1 .. count - 1 : k \notin {i - 1, i} => b[k].used \/ b[k + 1].used
    <3>1. ASSUME NEW k \in 1 .. count - 1, k \notin {i - 1, i} PROVE b[k].used \/ b[k + 1].used
      <4>1. k \in 1 .. count /\ k + 1 \in 1 .. count /\ k # i /\ k + 1 # i
        BY <2>3, <3>1
      <4> QED BY <1>1, <2>2, <4>1 DEF Joined
    <3> QED BY <3>1
  <2>6. Tiles(c, n) /\ Aligned(c, n) /\ JoinedBut(c, n, i) /\ ~c[i].used /\ i \in 1 .. n
    <3>1. CASE next
      <4>1. i \in 1 .. count - 1 /\ ~b[i + 1].used /\ c = Merge(b, count, i) /\ n = count - 1
        BY <2>3, <3>1
      <4>2. Tiles(c, n) /\ Aligned(c, n) /\ JoinedBut(c, n, i)
        BY <2>2, <2>4, <2>5, <4>1, MergeTiles, MergeAligned, MergeNext
      <4>3. c[i].used = b[i].used
        BY <2>2, <4>1, MergeEntries
      <4> QED BY <2>2, <4>1, <4>2, <4>3
    <3>2. CASE ~next
      <4>1. c = b /\ n = count
        BY <3>2
      <4>2. i \in 1 .. count - 1 => b[i + 1].used
        BY <2>3, <3>2
      <4>3. JoinedBut(b, count, i)
        BY <2>5, <4>2 DEF JoinedBut
      <4> QED BY <2>2, <2>4, <4>1, <4>3
    <3> QED BY <3>1, <3>2
  <2> HIDE DEF c, n
  <2>7. CASE prev
    <3>1. i \in 2 .. n /\ i - 1 \in 1 .. n - 1 /\ ~c[i - 1].used
      BY <2>3, <2>6, <2>7 DEF Tiles
    <3>2. Aligned(Merge(c, n, i - 1), n - 1) /\ Joined(Merge(c, n, i - 1), n - 1)
      BY <2>6, <3>1, MergeAligned, MergePrevious
    <3>3. blocks' = Merge(c, n, i - 1) /\ count' = n - 1
      BY <2>1, <2>7
    <3> QED BY <3>2, <3>3 DEF Aligned, Joined
  <2>8. CASE ~prev
    <3>1. i - 1 \in 1 .. n - 1 => c[i - 1].used
      BY <2>3, <2>6, <2>8 DEF Tiles
    <3>2. Joined(c, n)
      BY <2>6, <3>1 DEF Joined, JoinedBut
    <3>3. blocks' = c /\ count' = n
      BY <2>1, <2>8
    <3> QED BY <2>6, <3>2, <3>3 DEF Aligned, Joined
  <2> QED BY <2>7, <2>8
<1> QED
  BY <1>2, <1>3 DEF Free

LEMMA HoleInvariance == Spec => []HoleInv
<1>1. Init => HoleInv
  <2> SUFFICES ASSUME Init PROVE HoleInv
    OBVIOUS
  <2>1. count = 1 /\ blocks[1].offset = 0 /\ blocks[1].size = HeapBytes
    BY DEF Init
  <2>2. 0 % Align = 0
    BY HeapAssumption
  <2> QED BY <2>1, <2>2, InitInv, HeapAssumption DEF HoleInv, Aligned, Joined
<1>2. HoleInv /\ [Next]_vars => HoleInv'
  <2> SUFFICES ASSUME HoleInv, [Next]_vars PROVE HoleInv'
    OBVIOUS
  <2>1. Inv'
    BY NextInv DEF HoleInv
  <2>2. CASE UNCHANGED vars
    BY <2>1, <2>2 DEF HoleInv, vars, heap, Aligned, Joined
  <2>3. ASSUME NEW o \in Owner, Free(o) PROVE HoleInv'
    BY <2>1, <2>3, FreeHoles DEF HoleInv
  <2>4. ASSUME NEW o \in Owner, NEW size \in Size, Alloc(o, size) PROVE HoleInv'
    BY <2>1, <2>4, AllocHoles DEF HoleInv
  <2> QED BY <2>2, <2>3, <2>4 DEF Next
<1> QED
  BY <1>1, <1>2, PTL DEF Spec

-----------------------------------------------------------------------------
(* An aligned stretch that no object needs lies inside one free block.     *)

LEMMA BlockAt ==
  ASSUME NEW b, NEW n, Tiles(b, n), NEW first \in 0 .. HeapBytes - 1
  PROVE  \E i \in 1 .. n : b[i].offset <= first /\ first < b[i].offset + b[i].size
<1> DEFINE S == {k \in 1 .. n : first < b[k].offset + b[k].size}
<1>1. n \in Nat \ {0} /\ n \in 1 .. n /\ b[1].offset = 0 /\ b[n].offset + b[n].size = HeapBytes
  BY DEF Tiles
<1>2. S \in SUBSET Nat /\ S # {}
  BY <1>1, HeapAssumption
<1>3. PICK i \in S : \A j \in S : i <= j
  <2> HIDE DEF S
  <2> QED BY <1>2, Least
<1>4. i \in 1 .. n /\ i \in Nat
  BY <1>1, <1>3
<1>5. CASE i = 1
  BY <1>1, <1>4, <1>5
<1>6. CASE i # 1
  <2>1. i - 1 \in 1 .. n - 1 /\ i - 1 \in 1 .. n /\ (i - 1) + 1 = i /\ ~(i <= i - 1)
    BY <1>1, <1>4, <1>6
  <2>2. ~(first < b[i - 1].offset + b[i - 1].size)
    BY <1>3, <2>1
  <2>3. b[i].offset = b[i - 1].offset + b[i - 1].size
    BY <2>1 DEF Tiles
  <2>4. b[i].offset \in 0 .. HeapBytes
    BY <1>4, Entry
  <2> QED BY <1>4, <2>2, <2>3, <2>4
<1> QED
  BY <1>5, <1>6

LEMMA HolderOf ==
  ASSUME Inv, NEW i \in 1 .. count, blocks[i].used
  PROVE  \E o \in live : /\ at[o] = blocks[i].offset /\ asked[o] \in Size
                        /\ InRange(asked[o]) /\ blocks[i].size = Need(asked[o])
<1>1. <<blocks[i].offset, blocks[i].size>> \in Used(blocks, count)
  BY DEF Used
<1>2. PICK o \in live : <<blocks[i].offset, blocks[i].size>> = <<at[o], Need(asked[o])>>
  BY <1>1 DEF Inv
<1>3. asked[o] \in Size /\ InRange(asked[o])
  BY DEF Inv, TypeOK
<1> QED
  BY <1>2, <1>3

LEMMA HoleIsInABlock ==
  ASSUME HoleInv, NEW size \in 1 .. HeapBytes, InRange(size), NEW first \in 0 .. HeapBytes,
         first % Align = 0, first + size <= HeapBytes,
         \A o \in live : at[o] + asked[o] <= first \/ first + size <= at[o]
  PROVE  Fits(Need(size)) # {}
<1>1. /\ Inv /\ Tiles(blocks, count) /\ Aligned(blocks, count) /\ Joined(blocks, count)
      /\ count \in Nat \ {0} /\ HeapBytes \in Nat /\ size \in Nat \ {0} /\ first \in Nat
      /\ size \in Size /\ Align \in Nat \ {0}
  BY HeapAssumption DEF HoleInv, Inv, Tiles, Size
<1>2. PICK i \in 1 .. count :
        blocks[i].offset <= first /\ first < blocks[i].offset + blocks[i].size
  <2>1. first \in 0 .. HeapBytes - 1
    BY <1>1
  <2> QED BY <1>1, <2>1, BlockAt
<1> DEFINE start == blocks[i].offset
           end == blocks[i].offset + blocks[i].size
<1>3. /\ start \in Nat /\ blocks[i].size \in Nat /\ end \in Nat
      /\ start % Align = 0 /\ end % Align = 0
  <2>1. blocks[i].offset \in 0 .. HeapBytes /\ blocks[i].size \in 1 .. HeapBytes
    BY <1>1, Entry
  <2>2. blocks[i].offset % Align = 0 /\ blocks[i].size % Align = 0
    BY <1>1 DEF Aligned
  <2>3. (blocks[i].offset + blocks[i].size) % Align = 0
    BY <1>1, <2>1, <2>2, SumOfMultiples
  <2> QED BY <2>1, <2>2, <2>3
<1>4. start <= first /\ first < end /\ end = start + blocks[i].size
  BY <1>2
<1> HIDE DEF start, end
<1>5. ~blocks[i].used
  <2>1. SUFFICES ASSUME blocks[i].used PROVE FALSE
    OBVIOUS
  <2>2. PICK o \in live : /\ at[o] = start /\ asked[o] \in Size /\ InRange(asked[o])
                         /\ blocks[i].size = Need(asked[o])
    BY <1>1, <2>1, HolderOf DEF start
  <2>3. /\ asked[o] \in Nat /\ Need(asked[o]) \in Nat
        /\ Need(asked[o]) < asked[o] + Align
    BY <2>2, NeedIsAligned DEF Size
  <2>4. start + asked[o] <= first
    BY <1>1, <1>3, <1>4, <2>2, <2>3
  <2>5. first + Align <= end
    BY <1>1, <1>3, <1>4, MultiplesAreApart
  <2> QED BY <1>1, <1>3, <1>4, <2>2, <2>3, <2>4, <2>5
<1>6. first + size <= end
  <2>1. CASE i = count
    BY <1>1, <2>1 DEF Tiles, end
  <2>2. CASE i # count
    <3>1. i \in 1 .. count - 1 /\ i + 1 \in 1 .. count
      BY <1>1, <2>2
    <3>2. blocks[i + 1].used
      BY <1>1, <1>5, <3>1 DEF Joined
    <3>3. blocks[i + 1].offset = end
      BY <1>1, <3>1 DEF Tiles, end
    <3>4. PICK o \in live : at[o] = end /\ asked[o] \in Size
      BY <1>1, <3>1, <3>2, <3>3, HolderOf
    <3>5. asked[o] \in Nat
      BY <3>4 DEF Size
    <3> QED BY <1>1, <1>3, <1>4, <3>4, <3>5
  <2> QED BY <2>1, <2>2
<1>7. Need(size) <= blocks[i].size
  <2>1. /\ Need(size) \in Nat /\ Need(size) % Align = 0 /\ Need(size) < size + Align
    BY <1>1, NeedIsAligned
  <2>2. (first + Need(size)) % Align = 0 /\ first + Need(size) \in Nat
    BY <1>1, <2>1, SumOfMultiples
  <2>3. end < first + Need(size) => end + Align <= first + Need(size)
    BY <1>1, <1>3, <2>2, MultiplesAreApart
  <2>4. /\ start \in Nat /\ blocks[i].size \in Nat /\ end \in Nat
        /\ size \in Nat /\ first \in Nat /\ Align \in Nat
    BY <1>1, <1>3
  <2>5. ~(end < first + Need(size))
    BY <1>6, <2>1, <2>3, <2>4
  <2> QED BY <1>4, <2>1, <2>4, <2>5
<1> QED
  BY <1>1, <1>3, <1>5, <1>7, NeedIsAligned DEF Fits

\* block_alloc fails for want of room in the table only: if objects leave an
\* aligned stretch of the heap, the first-fit search of block_alloc finds a block.
THEOREM NoRoomIsLost == Spec => []HoleIsFound
<1>1. HoleInv => HoleIsFound
  <2> SUFFICES ASSUME HoleInv PROVE HoleIsFound
    OBVIOUS
  <2>1. count <= MaxBlocks /\ count \in Nat
    BY HeapAssumption DEF HoleInv, Inv, TypeOK
  <2>2. ASSUME NEW size \in {s \in 1 .. HeapBytes : InRange(s)}, NEW first \in 0 .. HeapBytes,
               count < MaxBlocks, first % Align = 0, first + size <= HeapBytes,
               \A o \in live : at[o] + asked[o] <= first \/ first + size <= at[o]
        PROVE  \E i \in 1 .. count : Chosen(i, size)
    <3>1. Fits(Need(size)) # {}
      BY <2>2, HoleIsInABlock
    <3>2. Fits(Need(size)) \in SUBSET Nat /\ Fits(Need(size)) \subseteq 1 .. count
      BY <2>1 DEF Fits
    <3>3. PICK i \in Fits(Need(size)) : \A j \in Fits(Need(size)) : i <= j
      BY <3>1, <3>2, Least
    <3> QED BY <2>2, <3>2, <3>3 DEF Chosen, IsFirst
  <2> QED BY <2>1, <2>2 DEF HoleIsFound
<1> QED
  BY <1>1, HoleInvariance, PTL

-----------------------------------------------------------------------------
(* The objects of the front end on the heap.                               *)

Span == [offset : Nat, size : Nat]

PType ==
  /\ pc \in Step /\ subject \in Resource \cup {Nothing} /\ codeBound \in BOOLEAN
  /\ exists \subseteq Resource /\ placed \subseteq exists
  /\ bytes \in [Resource -> Nat] /\ where \in [Resource -> Nat]
  /\ home \in [Resource -> Memory \cup {Nothing}]
  /\ binds \in [Memory -> Seq(Span)]

\* The resource whose block the call in progress has taken or will give back.
InTransit == IF pc \in {"place", "free_block"} THEN {subject} ELSE {}

\* The code blocks that are held at this step.
CodeHeld ==
  CASE pc \in {"idle", "place", "free_block"} -> IF codeBound THEN {Vertex, Pixel} ELSE {}
    [] pc \in {"free_vertex", "drop_vertex", "upload", "undo_pixel"} -> {Vertex, Pixel}
    [] pc \in {"free_pixel", "drop_pixel"} -> {Pixel}
    [] pc \in {"alloc_pixel", "undo_vertex"} -> {Vertex}
    [] pc = "alloc_vertex" -> {}

\* At every step of every call, what is held is accounted for.
Accounted ==
  /\ live \cap (Resource \cup {Vertex, Pixel}) = placed \cup InTransit \cup CodeHeld
  /\ pc \in {"place", "free_block"} => subject \in Resource \ exists
  /\ codeBound => pc \in {"idle", "place", "free_block", "free_vertex", "free_pixel",
                          "drop_vertex", "drop_pixel"}

Before(r, s) == where[r] + bytes[r] <= where[s]

\* A bound resource exists, has no block of its own, and lies inside its memory,
\* apart from the others there.
Apart(r, s) == home[r] = home[s] /\ home[r] # Nothing /\ r # s => Before(r, s) \/ Before(s, r)
LiesInside ==
  /\ \A r \in Resource : home[r] # Nothing =>
       /\ r \in exists \ placed /\ home[r] \in live
       /\ bytes[r] # 0 /\ where[r] + bytes[r] <= asked[home[r]]
  /\ \A r, s \in Resource : Apart(r, s)

PInv == PType /\ Accounted /\ LiesInside /\ SpansAreBindings

-----------------------------------------------------------------------------
(* The heap underneath.                                                    *)

LEMMA OwnersAre ==
  /\ Memory \subseteq Owner /\ Resource \subseteq Owner /\ Vertex \in Owner /\ Pixel \in Owner
  /\ Sizes \subseteq Size
  BY PlacementAssumption DEF Size

\* Every step of Placement is a step of the heap, or leaves it alone.
LEMMA HeapStep == PType /\ Accounted /\ [PNext]_pvars => [Next]_vars
<1> SUFFICES ASSUME PType, Accounted, [PNext]_pvars PROVE Next \/ UNCHANGED vars
  OBVIOUS
<1>1. ASSUME NEW o \in Owner, Free(o) PROVE Next
  BY <1>1 DEF Next
<1>2. ASSUME NEW o \in Owner, NEW s \in Sizes, Alloc(o, s) PROVE Next
  BY <1>2, OwnersAre DEF Next
<1>3. CASE Memories
  BY <1>1, <1>2, <1>3, OwnersAre DEF Memories, DestroyMemory, AllocateMemory
<1>4. CASE Resources
  <2>1. ASSUME NEW r \in Resource, NEW s \in Sizes, CreateDedicated(r, s) PROVE Next
    BY <1>2, <2>1, OwnersAre DEF CreateDedicated
  <2>2. ASSUME FreeBlock PROVE Next
    BY <1>1, <2>2, OwnersAre DEF FreeBlock, Accounted
  <2>3. ASSUME NEW r \in Resource, NEW s \in Sizes, CreateUnbound(r, s) PROVE UNCHANGED vars
    BY <2>3 DEF CreateUnbound, table, vars
  <2>4. ASSUME NEW r \in Resource, NEW m \in Memory, NEW offset \in 0 .. HeapBytes,
               NEW ok \in BOOLEAN, Bind(r, m, offset, ok)
        PROVE UNCHANGED vars
    BY <2>4 DEF Bind, table, vars
  <2>5. ASSUME NEW r \in Resource, DestroyResource(r) PROVE UNCHANGED vars
    BY <2>5 DEF DestroyResource, table, vars
  <2>6. ASSUME NEW ok \in BOOLEAN, Place(ok) PROVE UNCHANGED vars
    BY <2>6 DEF Place, table, vars
  <2> QED BY <1>4, <2>1, <2>2, <2>3, <2>4, <2>5, <2>6 DEF Resources
<1>5. CASE Code
  <2>1. CASE FreeOldVertex \/ FreeOldPixel \/ UndoPixel \/ UndoVertex \/ DropVertex \/ DropPixel
    BY <1>1, <2>1, OwnersAre
       DEF FreeOldVertex, FreeOldPixel, UndoPixel, UndoVertex, DropVertex, DropPixel, FreeCode
  <2>2. ASSUME NEW s \in Sizes, AllocVertex(s) \/ AllocPixel(s) PROVE Next \/ UNCHANGED vars
    BY <1>2, <2>2, OwnersAre DEF AllocVertex, AllocPixel, table, vars
  <2>3. CASE BindCode \/ DropCode \/ \E ok \in BOOLEAN : Upload(ok)
    BY <2>3 DEF BindCode, DropCode, Upload, table, vars
  <2> QED BY <1>5, <2>1, <2>2, <2>3 DEF Code
<1>6. CASE UNCHANGED pvars
  BY <1>6 DEF pvars
<1> QED
  BY <1>3, <1>4, <1>5, <1>6 DEF PNext

-----------------------------------------------------------------------------
(* memory_release_span.                                                    *)

\* The index that is released, if there is one.
Index(spans, span) ==
  CHOOSE k \in 1 .. Len(spans) : IsFirst(k, {j \in 1 .. Len(spans) : spans[j] = span})

LEMMA IndexIs ==
  ASSUME NEW spans \in Seq(Span), NEW span, \E k \in 1 .. Len(spans) : spans[k] = span
  PROVE  /\ Index(spans, span) \in 1 .. Len(spans) /\ spans[Index(spans, span)] = span
         /\ \A j \in 1 .. Len(spans) : spans[j] = span => Index(spans, span) <= j
         /\ Released(spans, span) = RemoveAt(spans, Index(spans, span))
<1> DEFINE S == {j \in 1 .. Len(spans) : spans[j] = span}
<1>1. S \in SUBSET Nat /\ S # {}
  OBVIOUS
<1>2. PICK i \in S : \A j \in S : i <= j
  <2> HIDE DEF S
  <2> QED BY <1>1, Least
<1>3. i \in 1 .. Len(spans) /\ IsFirst(i, S)
  BY <1>2 DEF IsFirst
<1>4. Index(spans, span) \in 1 .. Len(spans) /\ IsFirst(Index(spans, span), S)
  BY <1>3 DEF Index
<1> QED
  BY <1>4 DEF IsFirst, Released, Index

LEMMA RemovedAt ==
  ASSUME NEW spans \in Seq(Span), NEW k \in 1 .. Len(spans)
  PROVE  /\ RemoveAt(spans, k) \in Seq(Span) /\ Len(RemoveAt(spans, k)) = Len(spans) - 1
         /\ \A l \in 1 .. Len(spans) - 1 :
              RemoveAt(spans, k)[l] = spans[IF l < k THEN l ELSE l + 1]
<1> DEFINE a == SubSeq(spans, 1, k - 1)
           b == SubSeq(spans, k + 1, Len(spans))
<1>1. Len(spans) \in Nat /\ spans \in [1 .. Len(spans) -> Span] /\ k \in Nat
  BY LenProperties
<1>2. /\ a \in Seq(Span) /\ Len(a) = k - 1 /\ \A l \in 1 .. k - 1 : a[l] = spans[l]
  <2>1. \A l \in 1 .. k - 1 : spans[l] \in Span
    BY <1>1
  <2>2. /\ a \in Seq(Span) /\ Len(a) = IF 1 <= k - 1 THEN (k - 1) - 1 + 1 ELSE 0
        /\ \A l \in 1 .. (k - 1) - 1 + 1 : a[l] = spans[1 + l - 1]
    BY <1>1, <2>1, SubSeqProperties
  <2> HIDE DEF a
  <2> QED BY <1>1, <2>2
<1>3. /\ b \in Seq(Span) /\ Len(b) = Len(spans) - k
      /\ \A l \in 1 .. Len(spans) - k : b[l] = spans[k + l]
  <2>1. \A l \in k + 1 .. Len(spans) : spans[l] \in Span
    BY <1>1
  <2>2. /\ b \in Seq(Span)
        /\ Len(b) = IF k + 1 <= Len(spans) THEN Len(spans) - (k + 1) + 1 ELSE 0
        /\ \A l \in 1 .. Len(spans) - (k + 1) + 1 : b[l] = spans[(k + 1) + l - 1]
    BY <1>1, <2>1, SubSeqProperties
  <2>3. \A l \in 1 .. Len(spans) - k : (k + 1) + l - 1 = k + l
    BY <1>1
  <2> HIDE DEF b
  <2>4. Len(spans) - (k + 1) + 1 = Len(spans) - k /\ k <= Len(spans)
    BY <1>1
  <2>5. Len(b) = Len(spans) - k
    <3>1. Len(b) = IF k + 1 <= Len(spans) THEN Len(spans) - (k + 1) + 1 ELSE 0
      BY <2>2
    <3>2. CASE k + 1 <= Len(spans)
      BY <2>4, <3>1, <3>2
    <3>3. CASE ~(k + 1 <= Len(spans))
      <4>1. Len(spans) - k = 0
        <5> DEFINE n == Len(spans)
        <5>1. n \in Nat /\ k \in Nat /\ k <= n /\ ~(k + 1 <= n)
          BY <1>1, <2>4, <3>3
        <5> HIDE DEF n
        <5>2. n - k = 0
          BY <5>1
        <5> QED BY <5>2 DEF n
      <4> QED BY <3>1, <3>3, <4>1
    <3> QED BY <3>2, <3>3
  <2>6. \A l \in 1 .. Len(spans) - k : b[l] = spans[(k + 1) + l - 1]
    BY <2>2, <2>4
  <2> QED BY <2>2, <2>3, <2>5, <2>6
<1> HIDE DEF a, b
<1>4. RemoveAt(spans, k) = a \o b
  BY DEF RemoveAt, a, b
<1>5. /\ a \o b \in Seq(Span) /\ Len(a \o b) = Len(a) + Len(b)
      /\ \A l \in 1 .. Len(a) + Len(b) : (a \o b)[l] = IF l <= Len(a) THEN a[l] ELSE b[l - Len(a)]
  BY <1>2, <1>3, ConcatProperties
<1>6. Len(a) + Len(b) = Len(spans) - 1
  BY <1>1, <1>2, <1>3
<1>7. ASSUME NEW l \in 1 .. Len(spans) - 1
      PROVE  (a \o b)[l] = spans[IF l < k THEN l ELSE l + 1]
  <2>1. l \in 1 .. Len(a) + Len(b)
    BY <1>6
  <2>2. CASE l < k
    BY <1>1, <1>2, <1>5, <2>1, <2>2
  <2>3. CASE ~(l < k)
    <3>1. l - (k - 1) \in 1 .. Len(spans) - k /\ k + (l - (k - 1)) = l + 1 /\ ~(l <= k - 1)
      BY <1>1, <2>3
    <3> QED BY <1>2, <1>3, <1>5, <2>1, <2>3, <3>1
  <2> QED BY <2>2, <2>3
<1> QED
  BY <1>4, <1>5, <1>6, <1>7

\* Only one entry goes.
LEMMA ReleasedSpans ==
  ASSUME NEW spans \in Seq(Span), NEW span, \E k \in 1 .. Len(spans) : spans[k] = span
  PROVE  /\ Released(spans, span) \in Seq(Span)
         /\ Len(Released(spans, span)) = Len(spans) - 1
         /\ \A j \in 1 .. Len(spans) : spans[j] # span =>
              \E l \in 1 .. Len(spans) - 1 : Released(spans, span)[l] = spans[j]
<1> DEFINE k == Index(spans, span)
<1>1. k \in 1 .. Len(spans) /\ spans[k] = span /\ Released(spans, span) = RemoveAt(spans, k)
  BY IndexIs
<1> HIDE DEF k
<1>2. Len(spans) \in Nat
  BY LenProperties
<1>3. ASSUME NEW j \in 1 .. Len(spans), spans[j] # span
      PROVE  \E l \in 1 .. Len(spans) - 1 : RemoveAt(spans, k)[l] = spans[j]
  <2>1. CASE j < k
    <3>1. j \in 1 .. Len(spans) - 1
      BY <1>1, <1>2, <2>1
    <3>2. RemoveAt(spans, k)[j] = spans[j]
      BY <1>1, <2>1, <3>1, RemovedAt
    <3> QED BY <3>1, <3>2
  <2>2. CASE j > k
    <3>1. j - 1 \in 1 .. Len(spans) - 1 /\ ~(j - 1 < k) /\ (j - 1) + 1 = j
      BY <1>1, <1>2, <2>2
    <3>2. RemoveAt(spans, k)[j - 1] = spans[j]
      BY <1>1, <3>1, RemovedAt
    <3> QED BY <3>1, <3>2
  <2> QED BY <1>1, <1>2, <1>3, <2>1, <2>2
<1> QED
  BY <1>1, <1>3, RemovedAt

\* A claim that is taken back leaves the spans as they were.
LEMMA ReleasedClaim ==
  ASSUME NEW spans \in Seq(Span), NEW span \in Span, \A k \in 1 .. Len(spans) : spans[k] # span
  PROVE  Released(Append(spans, span), span) = spans
<1> DEFINE claimed == Append(spans, span)
           k == Index(claimed, span)
<1>1. /\ claimed \in Seq(Span) /\ Len(claimed) = Len(spans) + 1 /\ Len(spans) \in Nat
      /\ \A j \in 1 .. Len(spans) : claimed[j] = spans[j]
      /\ claimed[Len(spans) + 1] = span
  BY AppendProperties, LenProperties
<1> HIDE DEF claimed
<1>2. Len(claimed) \in 1 .. Len(claimed) /\ claimed[Len(claimed)] = span
  BY <1>1
<1>3. k \in 1 .. Len(claimed) /\ claimed[k] = span /\ Released(claimed, span) = RemoveAt(claimed, k)
  BY <1>1, <1>2, IndexIs
<1> HIDE DEF k
<1>4. k = Len(spans) + 1
  <2>1. ~(k \in 1 .. Len(spans))
    BY <1>1, <1>3
  <2> QED BY <1>1, <1>3, <2>1
<1>5. /\ RemoveAt(claimed, k) \in Seq(Span) /\ Len(RemoveAt(claimed, k)) = Len(spans)
      /\ \A l \in 1 .. Len(spans) : RemoveAt(claimed, k)[l] = claimed[IF l < k THEN l ELSE l + 1]
  <2>1. Len(claimed) - 1 = Len(spans)
    BY <1>1
  <2> QED BY <1>1, <1>3, <2>1, RemovedAt
<1>6. \A l \in 1 .. Len(spans) : RemoveAt(claimed, k)[l] = spans[l]
  BY <1>1, <1>4, <1>5
<1>7. RemoveAt(claimed, k) = spans
  BY <1>5, <1>6, SeqEqual
<1> QED
  BY <1>3, <1>7 DEF claimed

-----------------------------------------------------------------------------
(* Types.                                                                  *)

LEMMA ReleasedType ==
  ASSUME NEW spans \in Seq(Span), NEW span
  PROVE  Released(spans, span) \in Seq(Span)
<1>1. CASE \E k \in 1 .. Len(spans) : spans[k] = span
  BY <1>1, ReleasedSpans
<1>2. CASE ~ \E k \in 1 .. Len(spans) : spans[k] = span
  BY <1>2 DEF Released
<1> QED
  BY <1>1, <1>2

LEMMA BindType ==
  ASSUME PType, NEW r \in Resource, NEW m \in Memory, NEW offset \in 0 .. HeapBytes,
         NEW ok \in BOOLEAN, Bind(r, m, offset, ok)
  PROVE  PType'
<1>1. offset \in Nat /\ bytes[r] \in Nat
  BY HeapAssumption DEF PType
<1> DEFINE span == [offset |-> offset, size |-> bytes[r]]
           spans == IF ok THEN Append(binds[m], span) ELSE Released(Append(binds[m], span), span)
<1>2. span \in Span
  BY <1>1 DEF Span
<1>3. Append(binds[m], span) \in Seq(Span)
  <2> HIDE DEF span
  <2> QED BY <1>2, AppendProperties DEF PType
<1>4. spans \in Seq(Span)
  <2> HIDE DEF span
  <2> QED BY <1>3, ReleasedType
<1>5. binds' = [binds EXCEPT ![m] = spans]
  BY DEF Bind
<1> HIDE DEF spans
<1>6. binds' \in [Memory -> Seq(Span)]
  BY <1>4, <1>5 DEF PType
<1>7. /\ home' \in [Resource -> Memory \cup {Nothing}] /\ where' \in [Resource -> Nat]
      /\ UNCHANGED <<pc, subject, codeBound, exists, bytes, placed>>
  BY <1>1 DEF PType, Bind, objects
<1> QED
  BY <1>6, <1>7 DEF PType

LEMMA DestroyResourceType ==
  ASSUME PType, NEW r \in Resource, DestroyResource(r)
  PROVE  PType'
<1>1. /\ pc' \in Step /\ subject' \in Resource \cup {Nothing} /\ codeBound' = codeBound
      /\ exists' \subseteq Resource /\ placed' \subseteq exists'
      /\ bytes' \in [Resource -> Nat] /\ where' \in [Resource -> Nat]
      /\ home' \in [Resource -> Memory \cup {Nothing}]
  BY DEF PType, DestroyResource, Step
<1>2. binds' \in [Memory -> Seq(Span)]
  <2>1. CASE home[r] = Nothing
    BY <2>1 DEF PType, DestroyResource
  <2>2. CASE home[r] # Nothing
    <3> DEFINE spans == Released(binds[home[r]], [offset |-> where[r], size |-> bytes[r]])
    <3>1. home[r] \in Memory
      BY <2>2 DEF PType
    <3>2. spans \in Seq(Span)
      BY <3>1, ReleasedType DEF PType
    <3>3. binds' = [binds EXCEPT ![home[r]] = spans]
      BY <2>2 DEF DestroyResource
    <3> HIDE DEF spans
    <3> QED BY <3>1, <3>2, <3>3 DEF PType
  <2> QED BY <2>1, <2>2
<1> QED
  BY <1>1, <1>2 DEF PType

LEMMA NextType == Inv /\ PType /\ Accounted /\ [PNext]_pvars => PType'
<1> SUFFICES ASSUME Inv, PType, Accounted, [PNext]_pvars PROVE PType'
  OBVIOUS
<1>1. CASE Memories
  BY <1>1 DEF Memories, DestroyMemory, AllocateMemory, PType, objects, bindings
<1>2. CASE Resources
  <2>1. ASSUME NEW r \in Resource, NEW s \in Sizes, CreateUnbound(r, s) PROVE PType'
    <3>1. s \in Nat
      BY PlacementAssumption
    <3> QED BY <2>1, <3>1 DEF CreateUnbound, Exists, PType, bindings
  <2>2. ASSUME NEW r \in Resource, NEW s \in Sizes, CreateDedicated(r, s) PROVE PType'
    BY <2>2 DEF CreateDedicated, PType, Step, objects, bindings
  <2>3. ASSUME FreeBlock PROVE PType'
    BY <2>3 DEF FreeBlock, PType, Step, objects, bindings
  <2>4. ASSUME NEW ok \in BOOLEAN, Place(ok) PROVE PType'
    <3>1. subject \in Resource /\ asked[subject] \in Nat
      BY <2>4, OwnersAre DEF Place, Accounted, Inv, TypeOK, Size
    <3> QED BY <2>4, <3>1 DEF Place, Exists, PType, Step, objects, bindings
  <2> QED BY <1>2, <2>1, <2>2, <2>3, <2>4, BindType, DestroyResourceType DEF Resources
<1>3. CASE Code
  <2>1. UNCHANGED <<subject, objects, bindings>> /\ pc' \in Step /\ codeBound' \in BOOLEAN
    BY <1>3
       DEF Code, Go, BindCode, DropCode, Upload, FreeOldVertex, FreeOldPixel, UndoPixel, UndoVertex,
           DropVertex, DropPixel, FreeCode, AllocVertex, AllocPixel, PType, Step
  <2> QED BY <2>1 DEF PType, objects, bindings
<1>4. CASE UNCHANGED pvars
  BY <1>4 DEF pvars, PType, objects, bindings
<1> QED
  BY <1>1, <1>2, <1>3, <1>4 DEF PNext

-----------------------------------------------------------------------------
(* What is held at every step.                                             *)

Objects == Resource \cup {Vertex, Pixel}

LEMMA NextAccounted == PType /\ Accounted /\ [PNext]_pvars => Accounted'
<1> SUFFICES ASSUME PType, Accounted, [PNext]_pvars PROVE Accounted'
  OBVIOUS
<1> USE DEF Accounted
<1>1. Vertex # Pixel /\ Vertex \notin Resource /\ Pixel \notin Resource
      /\ \A m \in Memory : m \notin Resource \cup {Vertex, Pixel}
  BY PlacementAssumption
<1>2. CASE Memories
  <2>1. UNCHANGED <<pc, subject, exists, placed, codeBound>>
    BY <1>2 DEF Memories, DestroyMemory, AllocateMemory, objects
  <2>2. live' \cap Objects = live \cap Objects
    BY <1>1, <1>2 DEF Memories, DestroyMemory, AllocateMemory, Alloc, Free, Objects
  <2> QED BY <2>1, <2>2 DEF InTransit, CodeHeld, Objects
<1>3. CASE Resources
  <2>1. ASSUME NEW r \in Resource, NEW s \in Sizes, CreateUnbound(r, s) PROVE Accounted'
    BY <2>1 DEF CreateUnbound, Exists, table, InTransit, CodeHeld
  <2>2. ASSUME NEW r \in Resource, NEW s \in Sizes, CreateDedicated(r, s) PROVE Accounted'
    BY <2>2 DEF CreateDedicated, Alloc, objects, InTransit, CodeHeld
  <2>3. ASSUME NEW r \in Resource, NEW m \in Memory, NEW offset \in 0 .. HeapBytes,
               NEW ok \in BOOLEAN, Bind(r, m, offset, ok)
        PROVE Accounted'
    BY <2>3 DEF Bind, objects, table, InTransit, CodeHeld
  <2>4. ASSUME NEW r \in Resource, DestroyResource(r) PROVE Accounted'
    BY <2>4 DEF DestroyResource, table, InTransit, CodeHeld, PType
  <2>5. ASSUME NEW ok \in BOOLEAN, Place(ok) PROVE Accounted'
    BY <2>5 DEF Place, Exists, table, objects, InTransit, CodeHeld, PType
  <2>6. ASSUME FreeBlock PROVE Accounted'
    BY <1>1, <2>6 DEF FreeBlock, Free, objects, InTransit, CodeHeld, PType
  <2> QED BY <1>3, <2>1, <2>2, <2>3, <2>4, <2>5, <2>6 DEF Resources
<1>4. CASE Code
  <2> USE DEF objects, InTransit, CodeHeld, PType, Go, FreeCode
  <2>1. CASE BindCode
    BY <2>1 DEF BindCode, table
  <2>11. CASE DropCode
    BY <2>11 DEF DropCode, table
  <2>2. CASE FreeOldVertex
    BY <1>1, <2>2 DEF FreeOldVertex, Free
  <2>3. CASE FreeOldPixel
    BY <1>1, <2>3 DEF FreeOldPixel, Free
  <2>4. ASSUME NEW s \in Sizes, AllocVertex(s) PROVE Accounted'
    BY <1>1, <2>4 DEF AllocVertex, Alloc, table
  <2>5. ASSUME NEW s \in Sizes, AllocPixel(s) PROVE Accounted'
    BY <1>1, <2>5 DEF AllocPixel, Alloc, table
  <2>6. ASSUME NEW ok \in BOOLEAN, Upload(ok) PROVE Accounted'
    BY <2>6 DEF Upload, table
  <2>7. CASE UndoPixel
    BY <1>1, <2>7 DEF UndoPixel, Free
  <2>8. CASE UndoVertex
    BY <1>1, <2>8 DEF UndoVertex, Free
  <2>9. CASE DropVertex
    BY <1>1, <2>9 DEF DropVertex, Free
  <2>10. CASE DropPixel
    BY <1>1, <2>10 DEF DropPixel, Free
  <2> QED BY <1>4, <2>1, <2>2, <2>3, <2>4, <2>5, <2>6, <2>7, <2>8, <2>9, <2>10, <2>11 DEF Code
<1>5. CASE UNCHANGED pvars
  BY <1>5 DEF pvars, vars, objects, InTransit, CodeHeld
<1> QED
  BY <1>2, <1>3, <1>4, <1>5 DEF PNext

-----------------------------------------------------------------------------
(* Spans.                                                                  *)

Bound(m) == {r \in Resource : home[r] = m}

SpanOf(r) == [offset |-> where[r], size |-> bytes[r]]

\* The spans of one memory.
SpansOf(m) ==
  /\ Bound(m) # {} => m \in live
  /\ Len(binds[m]) = Cardinality(Bound(m)) /\ Len(binds[m]) <= MaxBinds
  /\ \A r \in Bound(m) : \E k \in 1 .. Len(binds[m]) : binds[m][k] = SpanOf(r)

LEMMA SpansAre == SpansAreBindings <=> \A m \in Memory : SpansOf(m)
  BY DEF SpansAreBindings, SpansOf, Bound, SpanOf

LEMMA BoundFinite == ASSUME NEW m PROVE IsFiniteSet(Bound(m))
  BY PlacementAssumption, FS_Subset DEF Bound

\* Nothing of a memory or of what is bound to it changes.
LEMMA SpansFrame ==
  ASSUME PType, NEW m \in Memory, SpansOf(m), Bound(m)' = Bound(m), binds'[m] = binds[m],
         \A r \in Bound(m) : where'[r] = where[r] /\ bytes'[r] = bytes[r],
         m \in live => m \in live' \/ Bound(m) = {}
  PROVE  SpansOf(m)'
  BY DEF SpansOf, SpanOf

LEMMA InsideFrame ==
  ASSUME PType, LiesInside,
         \A r \in Resource : home'[r] # Nothing =>
           /\ home'[r] = home[r] /\ where'[r] = where[r] /\ bytes'[r] = bytes[r]
           /\ r \in exists' \ placed' /\ home[r] \in live' /\ asked'[home[r]] = asked[home[r]]
  PROVE  LiesInside'
  BY DEF LiesInside, Apart, Before

\* A step that is not about bindings keeps the memories that have some.
LEMMA Untouched ==
  ASSUME PType, LiesInside, SpansAreBindings, UNCHANGED <<bytes, home, where, binds>>,
         \A r \in Resource : home[r] # Nothing =>
           /\ r \in exists' \ placed'
           /\ home[r] \in live' /\ asked'[home[r]] = asked[home[r]]
  PROVE  LiesInside' /\ SpansAreBindings'
<1>1. LiesInside'
  BY InsideFrame
<1>2. ASSUME NEW m \in Memory PROVE SpansOf(m)'
  <2>1. Bound(m)' = Bound(m) /\ SpansOf(m)
    BY SpansAre DEF Bound
  <2>2. m \in live => m \in live' \/ Bound(m) = {}
    BY PlacementAssumption DEF Bound, PType
  <2> QED BY <2>1, <2>2, SpansFrame
<1> QED
  BY <1>1, <1>2 DEF SpansAreBindings, SpansOf, Bound, SpanOf

LEMMA AllocKeeps ==
  ASSUME Inv, NEW o \in Owner, NEW s \in Size, Alloc(o, s)
  PROVE  live \subseteq live' /\ \A m \in live : asked'[m] = asked[m] /\ at'[m] = at[m]
  BY DEF Alloc, Inv, TypeOK

LEMMA FreeKeeps ==
  ASSUME Inv, NEW o \in Owner, Free(o)
  PROVE  /\ live \ {o} \subseteq live'
         /\ \A m \in live \ {o} : asked'[m] = asked[m] /\ at'[m] = at[m]
  BY DEF Free, Inv, TypeOK

LEMMA BindSpans ==
  ASSUME Inv, PType, LiesInside, SpansAreBindings,
         NEW r \in Resource, NEW m \in Memory, NEW offset \in 0 .. HeapBytes,
         Bind(r, m, offset, TRUE)
  PROVE  LiesInside' /\ SpansAreBindings'
<1> DEFINE span == [offset |-> offset, size |-> bytes[r]]
           spans == binds[m]
<1>1. /\ offset \in Nat /\ bytes[r] \in Nat /\ spans \in Seq(Span) /\ Len(spans) \in Nat
      /\ m \in live /\ asked[m] \in Nat /\ m # Nothing
  BY HeapAssumption, PlacementAssumption, LenProperties
     DEF PType, Inv, TypeOK, Bind, Size
<1>2. /\ r \in exists \ placed /\ home[r] = Nothing /\ bytes[r] # 0
      /\ offset + bytes[r] <= asked[m] /\ Len(spans) # MaxBinds /\ ~Clashes(m, offset, bytes[r])
  BY <1>1 DEF Bind, MayClaim
<1>3. /\ home' = [home EXCEPT ![r] = m] /\ where' = [where EXCEPT ![r] = offset]
      /\ binds' = [binds EXCEPT ![m] = Append(spans, span)]
      /\ UNCHANGED <<exists, bytes, placed, live, asked>>
  BY DEF Bind, objects, table
<1>4. /\ Len(Append(spans, span)) = Len(spans) + 1
      /\ \A k \in 1 .. Len(spans) : Append(spans, span)[k] = spans[k]
      /\ Append(spans, span)[Len(spans) + 1] = span
  <2>1. span \in Span
    BY <1>1 DEF Span
  <2> HIDE DEF span, spans
  <2> QED BY <1>1, <2>1, AppendProperties
<1>5. binds'[m] = Append(spans, span) /\ \A n \in Memory : n # m => binds'[n] = binds[n]
  BY <1>3 DEF PType
<1>6. SpansOf(m)
  BY SpansAre
<1>7. ASSUME NEW s \in Resource, home[s] = m
      PROVE  offset + bytes[r] <= where[s] \/ where[s] + bytes[s] <= offset
  <2>1. PICK k \in 1 .. Len(spans) : spans[k] = SpanOf(s)
    BY <1>6, <1>7 DEF SpansOf, Bound
  <2>2. spans[k].offset = where[s] /\ spans[k].size = bytes[s]
    BY <2>1 DEF SpanOf
  <2>3. ~(offset < where[s] + bytes[s] /\ where[s] < offset + bytes[r])
    BY <1>2, <2>2 DEF Clashes
  <2>4. where[s] \in Nat /\ bytes[s] \in Nat
    BY DEF PType
  <2> QED BY <1>1, <2>3, <2>4
<1> HIDE DEF span, spans
<1>8. LiesInside'
  <2>1. ASSUME NEW s \in Resource, home'[s] # Nothing
        PROVE  /\ s \in exists' \ placed' /\ home'[s] \in live'
               /\ bytes'[s] # 0 /\ where'[s] + bytes'[s] <= asked'[home'[s]]
    <3>1. CASE s = r
      BY <1>1, <1>2, <1>3, <3>1 DEF PType
    <3>2. CASE s # r
      BY <1>3, <2>1, <3>2 DEF PType, LiesInside
    <3> QED BY <3>1, <3>2
  <2>2. ASSUME NEW s \in Resource, NEW t \in Resource PROVE Apart(s, t)'
    <3>1. CASE s # r /\ t # r
      BY <1>3, <3>1 DEF PType, LiesInside, Apart, Before
    <3>2. CASE s = r /\ t # r
      BY <1>3, <1>7, <3>2 DEF PType, Apart, Before
    <3>3. CASE s # r /\ t = r
      BY <1>3, <1>7, <3>3 DEF PType, Apart, Before
    <3>4. CASE s = t
      BY <3>4 DEF Apart
    <3> QED BY <3>1, <3>2, <3>3, <3>4
  <2> QED BY <2>1, <2>2 DEF LiesInside
<1>9. SpansOf(m)'
  <2>1. Bound(m)' = Bound(m) \cup {r} /\ r \notin Bound(m)
    BY <1>1, <1>2, <1>3 DEF Bound, PType
  <2>2. Cardinality(Bound(m)') = Cardinality(Bound(m)) + 1
    BY <2>1, BoundFinite, FS_AddElement
  <2>3. Len(binds'[m]) = Cardinality(Bound(m)') /\ Len(binds'[m]) <= MaxBinds
    BY <1>1, <1>2, <1>4, <1>5, <1>6, <2>2, PlacementAssumption DEF SpansOf, spans
  <2>4. ASSUME NEW s \in Bound(m)'
        PROVE  \E k \in 1 .. Len(binds'[m]) : binds'[m][k] = SpanOf(s)'
    <3>1. CASE s = r
      <4>1. SpanOf(s)' = span
        BY <1>3, <3>1 DEF SpanOf, span, PType
      <4> QED BY <1>1, <1>4, <1>5, <4>1
    <3>2. CASE s # r
      <4>1. s \in Bound(m) /\ SpanOf(s)' = SpanOf(s)
        BY <1>3, <2>1, <3>2 DEF SpanOf, PType, Bound
      <4>2. PICK k \in 1 .. Len(spans) : spans[k] = SpanOf(s)
        BY <1>6, <4>1 DEF SpansOf, spans
      <4>3. k \in 1 .. Len(binds'[m])
        BY <1>1, <1>4, <1>5
      <4> QED BY <1>4, <1>5, <4>1, <4>2, <4>3
    <3> QED BY <3>1, <3>2
  <2> QED BY <1>1, <1>3, <2>3, <2>4 DEF SpansOf
<1>10. ASSUME NEW n \in Memory, n # m PROVE SpansOf(n)'
  <2>1. Bound(n)' = Bound(n) /\ r \notin Bound(n) /\ SpansOf(n) /\ n # Nothing
    BY <1>2, <1>3, <1>10, SpansAre, PlacementAssumption DEF Bound, PType
  <2>2. \A s \in Bound(n) : where'[s] = where[s] /\ bytes'[s] = bytes[s]
    BY <1>3, <2>1 DEF Bound, PType
  <2> QED BY <1>3, <1>5, <1>10, <2>1, <2>2, SpansFrame
<1> QED
  BY ZenonT(60), <1>8, <1>9, <1>10 DEF SpansAreBindings, SpansOf, Bound, SpanOf

\* The driver refuses: the memory's spans are what they were.
LEMMA RefusedSpans ==
  ASSUME PType, LiesInside, SpansAreBindings,
         NEW r \in Resource, NEW m \in Memory, NEW offset \in 0 .. HeapBytes,
         Bind(r, m, offset, FALSE)
  PROVE  LiesInside' /\ SpansAreBindings'
<1> DEFINE span == [offset |-> offset, size |-> bytes[r]]
           spans == binds[m]
<1>1. offset \in Nat /\ bytes[r] \in Nat /\ spans \in Seq(Span)
  BY HeapAssumption DEF PType
<1>2. /\ home[r] = Nothing /\ bytes[r] # 0 /\ ~Clashes(m, offset, bytes[r])
      /\ home' = [home EXCEPT ![r] = Nothing] /\ where' = [where EXCEPT ![r] = 0]
      /\ binds' = [binds EXCEPT ![m] = Released(Append(spans, span), span)]
      /\ UNCHANGED <<exists, bytes, placed, live, asked>>
  BY DEF Bind, MayClaim, objects, table
<1>3. \A k \in 1 .. Len(spans) : spans[k] # span
  <2> SUFFICES ASSUME NEW k \in 1 .. Len(spans), spans[k] = span PROVE FALSE
    OBVIOUS
  <2>1. spans[k].offset = offset /\ spans[k].size = bytes[r]
    OBVIOUS
  <2>2. offset < offset + bytes[r]
    BY <1>1, <1>2
  <2> QED BY <1>2, <2>1, <2>2 DEF Clashes
<1>4. Released(Append(spans, span), span) = spans
  <2>1. span \in Span
    BY <1>1 DEF Span
  <2> HIDE DEF span, spans
  <2> QED BY <1>1, <1>3, <2>1, ReleasedClaim
<1>5. binds' = binds /\ home' = home
  <2>1. binds' = [binds EXCEPT ![m] = spans]
    BY <1>2, <1>4
  <2> QED BY <1>2, <2>1 DEF PType
<1>6. LiesInside'
  <2>1. ASSUME NEW s \in Resource, home'[s] # Nothing
        PROVE  /\ home'[s] = home[s] /\ where'[s] = where[s] /\ bytes'[s] = bytes[s]
               /\ s \in exists' \ placed' /\ home[s] \in live' /\ asked'[home[s]] = asked[home[s]]
    BY <1>2, <1>5, <2>1 DEF PType, LiesInside
  <2> QED BY <2>1, InsideFrame
<1>7. ASSUME NEW n \in Memory PROVE SpansOf(n)'
  <2>1. Bound(n)' = Bound(n) /\ SpansOf(n) /\ binds'[n] = binds[n]
    BY <1>5, SpansAre DEF Bound
  <2>2. \A s \in Bound(n) : where'[s] = where[s] /\ bytes'[s] = bytes[s]
    BY <1>2, PlacementAssumption DEF Bound, PType
  <2> QED BY <1>2, <2>1, <2>2, SpansFrame
<1> QED
  BY <1>6, <1>7 DEF SpansAreBindings, SpansOf, Bound, SpanOf

\* A resource goes: the first span that matches is its own, as no other bound
\* resource lies at the same place.
LEMMA DestroySpans ==
  ASSUME PType, LiesInside, SpansAreBindings, NEW r \in Resource, DestroyResource(r)
  PROVE  LiesInside' /\ SpansAreBindings'
<1>1. /\ exists' = exists \ {r} /\ placed' = placed \ {r} /\ live' = live /\ asked' = asked
      /\ home' = [home EXCEPT ![r] = Nothing]
      /\ \A s \in Resource : s # r => where'[s] = where[s] /\ bytes'[s] = bytes[s]
  BY DEF DestroyResource, table, PType
<1>2. LiesInside'
  <2>1. ASSUME NEW s \in Resource, home'[s] # Nothing
        PROVE  /\ home'[s] = home[s] /\ where'[s] = where[s] /\ bytes'[s] = bytes[s]
               /\ s \in exists' \ placed' /\ home[s] \in live' /\ asked'[home[s]] = asked[home[s]]
    BY <1>1, <2>1 DEF PType, LiesInside
  <2> QED BY <2>1, InsideFrame
<1>3. ASSUME NEW n \in Memory, n # home[r] PROVE SpansOf(n)'
  <2>1. Bound(n)' = Bound(n) /\ SpansOf(n) /\ r \notin Bound(n)
    BY <1>1, <1>3, SpansAre, PlacementAssumption DEF Bound, PType
  <2>2. binds'[n] = binds[n]
    BY <1>3 DEF DestroyResource, PType
  <2>3. \A s \in Bound(n) : where'[s] = where[s] /\ bytes'[s] = bytes[s]
    BY <1>1, <2>1 DEF Bound
  <2> QED BY <1>1, <2>1, <2>2, <2>3, SpansFrame
<1>4. ASSUME NEW m \in Memory, m = home[r] PROVE SpansOf(m)'
  <2> DEFINE spans == binds[m]
             span == SpanOf(r)
  <2>1. spans \in Seq(Span) /\ Len(spans) \in Nat /\ m # Nothing
    BY PlacementAssumption, LenProperties DEF PType
  <2>2. SpansOf(m) /\ r \in Bound(m)
    BY <1>4, SpansAre DEF Bound
  <2>3. \E k \in 1 .. Len(spans) : spans[k] = span
    BY <2>2 DEF SpansOf
  <2>4. binds'[m] = Released(spans, span)
    BY <1>4, <2>1 DEF DestroyResource, PType, SpanOf
  <2>5. ASSUME NEW s \in Bound(m), s # r PROVE SpanOf(s) # span
    <3>1. /\ s \in Resource /\ (Before(r, s) \/ Before(s, r))
          /\ bytes[r] # 0 /\ bytes[s] # 0
      BY <1>4, <2>1, <2>5 DEF LiesInside, Apart, Bound
    <3>2. where[r] \in Nat /\ where[s] \in Nat /\ bytes[r] \in Nat /\ bytes[s] \in Nat
      BY <3>1 DEF PType
    <3>3. where[r] # where[s]
      BY <3>1, <3>2 DEF Before
    <3> QED BY <3>3 DEF SpanOf
  <2> HIDE DEF spans, span
  <2>6. /\ Len(binds'[m]) = Len(spans) - 1
        /\ \A j \in 1 .. Len(spans) : spans[j] # span =>
             \E l \in 1 .. Len(spans) - 1 : binds'[m][l] = spans[j]
    BY <2>1, <2>3, <2>4, ReleasedSpans
  <2>7. Bound(m)' = Bound(m) \ {r}
    BY <1>1, <2>1 DEF Bound, PType
  <2>8. Cardinality(Bound(m)') = Cardinality(Bound(m)) - 1
    BY <2>2, <2>7, BoundFinite, FS_RemoveElement
  <2>9. /\ Len(binds'[m]) = Cardinality(Bound(m)') /\ Len(binds'[m]) <= MaxBinds
        /\ m \in live'
    BY <1>1, <2>1, <2>2, <2>6, <2>8, PlacementAssumption DEF SpansOf, spans
  <2>10. ASSUME NEW s \in Bound(m)'
         PROVE  \E l \in 1 .. Len(binds'[m]) : binds'[m][l] = SpanOf(s)'
    <3>1. s \in Bound(m) /\ s # r /\ SpanOf(s)' = SpanOf(s)
      BY <1>1, <2>7 DEF Bound, SpanOf
    <3>2. PICK j \in 1 .. Len(spans) : spans[j] = SpanOf(s)
      BY <2>2, <3>1 DEF SpansOf, spans
    <3> QED BY <2>5, <2>6, <3>1, <3>2
  <2> QED BY <2>9, <2>10 DEF SpansOf
<1> QED
  BY <1>2, <1>3, <1>4 DEF SpansAreBindings, SpansOf, Bound, SpanOf

\* A memory that is freed has no spans, so nothing is bound to it.
LEMMA MemorySpans ==
  ASSUME Inv, PType, LiesInside, SpansAreBindings, Memories
  PROVE  LiesInside' /\ SpansAreBindings'
<1>1. UNCHANGED <<exists, placed, bytes, home, where, binds>>
  BY DEF Memories, DestroyMemory, AllocateMemory, objects, bindings
<1>2. ASSUME NEW r \in Resource, home[r] # Nothing
      PROVE  home[r] \in live' /\ asked'[home[r]] = asked[home[r]]
  <2>1. home[r] \in live /\ home[r] \in Memory
    BY <1>2 DEF LiesInside, PType
  <2>2. CASE \E m \in Memory, s \in Sizes : AllocateMemory(m, s)
    BY <2>1, <2>2, AllocKeeps, OwnersAre DEF AllocateMemory
  <2>3. ASSUME NEW m \in Memory, DestroyMemory(m)
        PROVE  home[r] \in live' /\ asked'[home[r]] = asked[home[r]]
    <3>1. Free(m) /\ Len(binds[m]) = 0
      BY <2>3 DEF DestroyMemory, MayFree
    <3>2. Cardinality(Bound(m)) = 0
      BY <3>1, SpansAre DEF SpansOf
    <3>3. Bound(m) = {}
      BY <3>2, BoundFinite, FS_EmptySet
    <3>4. home[r] # m
      BY <3>3 DEF Bound
    <3> QED BY <2>1, <3>1, <3>4, FreeKeeps, OwnersAre
  <2> QED BY <2>2, <2>3 DEF Memories
<1> QED
  BY <1>1, <1>2, Untouched DEF LiesInside

LEMMA NextSpans ==
  Inv /\ PType /\ Accounted /\ LiesInside /\ SpansAreBindings /\ [PNext]_pvars
    => LiesInside' /\ SpansAreBindings'
<1> DEFINE Done == LiesInside' /\ SpansAreBindings'
<1> SUFFICES ASSUME Inv, PType, Accounted, LiesInside, SpansAreBindings, [PNext]_pvars
             PROVE  Done
  OBVIOUS
<1>1. ASSUME NEW o \in Objects, NEW s \in Sizes, Alloc(o, s) \/ Free(o),
             UNCHANGED <<objects, bindings>>
      PROVE  Done
  <2>1. ASSUME NEW r \in Resource, home[r] # Nothing
        PROVE  home[r] \in live' /\ asked'[home[r]] = asked[home[r]]
    <3>1. home[r] \in live /\ home[r] \in Memory /\ o \in Owner /\ o # home[r]
      BY <2>1, OwnersAre, PlacementAssumption DEF LiesInside, PType, Objects
    <3> QED BY <1>1, <3>1, AllocKeeps, FreeKeeps, OwnersAre
  <2> QED BY <1>1, <2>1, Untouched DEF LiesInside, objects, bindings
<1>2. ASSUME UNCHANGED <<live, asked, bytes, home, where, binds>>,
             \A r \in exists \ placed : r \in exists' \ placed'
      PROVE  Done
  BY <1>2, Untouched DEF LiesInside
<1> HIDE DEF Done
<1>3. CASE Resources
  <2>1. ASSUME NEW r \in Resource, NEW m \in Memory, NEW offset \in 0 .. HeapBytes,
               NEW ok \in BOOLEAN, Bind(r, m, offset, ok)
        PROVE  Done
    <3>1. CASE ok
      <4>1. Bind(r, m, offset, TRUE)
        BY <2>1, <3>1 DEF Bind
      <4> QED BY <4>1, BindSpans DEF Done
    <3>2. CASE ~ok
      <4>1. Bind(r, m, offset, FALSE)
        BY <2>1, <3>2 DEF Bind
      <4> QED BY <4>1, RefusedSpans DEF Done
    <3> QED BY <3>1, <3>2
  <2>2. ASSUME NEW r \in Resource, DestroyResource(r) PROVE Done
    BY <2>2, DestroySpans DEF Done
  <2>3. ASSUME NEW r \in Resource, NEW s \in Sizes, CreateUnbound(r, s) PROVE Done
    <3>1. \A t \in Resource : home[t] # Nothing => t # r
      BY <2>3 DEF CreateUnbound, LiesInside
    <3>2. UNCHANGED <<live, asked, home, where, binds, placed>> /\ exists' = exists \cup {r}
          /\ \A t \in Resource : t # r => bytes'[t] = bytes[t]
      BY <2>3 DEF CreateUnbound, Exists, table, bindings, PType
    <3>3. \A t \in Resource : home'[t] # Nothing =>
           /\ home'[t] = home[t] /\ where'[t] = where[t] /\ bytes'[t] = bytes[t]
           /\ t \in exists' \ placed' /\ home[t] \in live' /\ asked'[home[t]] = asked[home[t]]
      BY <3>1, <3>2 DEF LiesInside
    <3>4. LiesInside'
      BY <3>3, InsideFrame
    <3>5. ASSUME NEW n \in Memory PROVE SpansOf(n)'
      <4>1. Bound(n)' = Bound(n) /\ SpansOf(n) /\ n # Nothing
        BY <3>2, SpansAre, PlacementAssumption DEF Bound
      <4>2. \A t \in Bound(n) : where'[t] = where[t] /\ bytes'[t] = bytes[t]
        BY <3>1, <3>2, <4>1 DEF Bound
      <4> QED BY <3>2, <4>1, <4>2, SpansFrame
    <3> QED BY <3>4, <3>5 DEF Done, SpansAreBindings, SpansOf, Bound, SpanOf
  <2>4. ASSUME NEW r \in Resource, NEW s \in Sizes, CreateDedicated(r, s) PROVE Done
    BY <1>1, <2>4 DEF CreateDedicated, Objects
  <2>5. ASSUME FreeBlock PROVE Done
    <3>1. subject \in Objects /\ Free(subject) /\ UNCHANGED <<objects, bindings>>
      BY <2>5 DEF FreeBlock, Accounted, Objects
    <3>2. LiesInside /\ \A r \in Resource : home[r] # Nothing =>
             home[r] \in live' /\ asked'[home[r]] = asked[home[r]]
      <4>1. ASSUME NEW r \in Resource, home[r] # Nothing
            PROVE  home[r] \in live' /\ asked'[home[r]] = asked[home[r]]
        <5>1. /\ home[r] \in live /\ home[r] \in Memory /\ subject \in Owner
              /\ subject # home[r]
          BY <3>1, <4>1, OwnersAre, PlacementAssumption DEF LiesInside, PType, Objects
        <5> QED BY <3>1, <5>1, FreeKeeps
      <4> QED BY <4>1
    <3> QED BY <3>1, <3>2, Untouched DEF LiesInside, objects, bindings, Done
  <2>6. ASSUME NEW ok \in BOOLEAN, Place(ok) PROVE Done
    <3>1. subject \in Resource \ exists
      BY <2>6 DEF Place, Accounted
    <3>2. \A t \in Resource : home[t] # Nothing => t # subject
      BY <3>1 DEF LiesInside
    <3>3. /\ UNCHANGED <<live, asked, home, where, binds>>
          /\ \A t \in Resource : t # subject =>
               bytes'[t] = bytes[t] /\ (t \in exists \ placed => t \in exists' \ placed')
      BY <2>6 DEF Place, Exists, table, bindings, objects, PType
    <3>4. \A t \in Resource : home'[t] # Nothing =>
           /\ home'[t] = home[t] /\ where'[t] = where[t] /\ bytes'[t] = bytes[t]
           /\ t \in exists' \ placed' /\ home[t] \in live' /\ asked'[home[t]] = asked[home[t]]
      BY <3>2, <3>3 DEF LiesInside
    <3>5. LiesInside'
      BY <3>4, InsideFrame
    <3>6. ASSUME NEW n \in Memory PROVE SpansOf(n)'
      <4>1. Bound(n)' = Bound(n) /\ SpansOf(n) /\ n # Nothing
        BY <3>3, SpansAre, PlacementAssumption DEF Bound
      <4>2. \A t \in Bound(n) : where'[t] = where[t] /\ bytes'[t] = bytes[t]
        BY <3>2, <3>3, <4>1 DEF Bound
      <4> QED BY <3>3, <4>1, <4>2, SpansFrame
    <3> QED BY <3>5, <3>6 DEF Done, SpansAreBindings, SpansOf, Bound, SpanOf
  <2> QED BY <1>3, <2>1, <2>2, <2>3, <2>4, <2>5, <2>6 DEF Resources
<1>4. CASE Code
  <2>1. CASE FreeOldVertex \/ FreeOldPixel \/ UndoPixel \/ UndoVertex \/ DropVertex \/ DropPixel
    <3>1. PICK o \in {Vertex, Pixel} : Free(o) /\ UNCHANGED <<objects, bindings>>
      BY <2>1
         DEF FreeOldVertex, FreeOldPixel, UndoPixel, UndoVertex, DropVertex, DropPixel, FreeCode
    <3>2. ASSUME NEW r \in Resource, home[r] # Nothing
          PROVE  home[r] \in live' /\ asked'[home[r]] = asked[home[r]]
      <4>1. home[r] \in live /\ home[r] \in Memory /\ o \in Owner /\ o # home[r]
        BY <3>2, OwnersAre, PlacementAssumption DEF LiesInside, PType
      <4> QED BY <3>1, <4>1, FreeKeeps
    <3> QED BY <3>1, <3>2, Untouched DEF LiesInside, objects, bindings, Done
  <2>2. ASSUME NEW s \in Sizes, AllocVertex(s) \/ AllocPixel(s) PROVE Done
    <3>1. UNCHANGED <<objects, bindings>>
          /\ (UNCHANGED table \/ \E o \in {Vertex, Pixel} : Alloc(o, s))
      BY <2>2 DEF AllocVertex, AllocPixel
    <3> QED BY <1>1, <1>2, <3>1 DEF table, objects, bindings, Objects
  <2>3. CASE BindCode \/ DropCode \/ \E ok \in BOOLEAN : Upload(ok)
    <3>1. UNCHANGED <<exists, placed, live, asked, bytes, home, where, binds>>
      BY <2>3 DEF BindCode, DropCode, Upload, table, objects, bindings
    <3> QED BY <1>2, <3>1
  <2> QED BY <1>4, <2>1, <2>2, <2>3 DEF Code
<1>5. CASE UNCHANGED pvars
  <2>1. UNCHANGED <<exists, placed, live, asked, bytes, home, where, binds>>
    BY <1>5 DEF pvars, vars
  <2> QED BY <1>2, <2>1
<1> QED
  BY <1>3, <1>4, <1>5, MemorySpans DEF PNext, Done
-----------------------------------------------------------------------------
(* The invariant holds, so the heap underneath is that of BlockHeap.       *)

LEMMA InitPInv == PInit => PInv
<1> SUFFICES ASSUME PInit PROVE PInv
  OBVIOUS
<1>1. PType
  <2>1. binds \in [Memory -> Seq(Span)]
    BY DEF PInit
  <2> QED BY <2>1 DEF PInit, PType, Step
<1>2. Accounted
  BY DEF PInit, Init, Accounted, InTransit, CodeHeld
<1>3. LiesInside
  BY DEF PInit, LiesInside, Apart
<1>4. ASSUME NEW m \in Memory PROVE SpansOf(m)
  <2>1. Bound(m) = {} /\ binds[m] = <<>>
    BY PlacementAssumption DEF PInit, Bound
  <2>2. Len(binds[m]) = 0 /\ Cardinality(Bound(m)) = 0
    BY <2>1, FS_EmptySet
  <2> QED BY <2>1, <2>2, PlacementAssumption DEF SpansOf
<1> QED
  BY <1>1, <1>2, <1>3, <1>4, SpansAre DEF PInv

LEMMA JointStep == Inv /\ PInv /\ [PNext]_pvars => Inv' /\ PInv'
<1> SUFFICES ASSUME Inv, PType, Accounted, LiesInside, SpansAreBindings, [PNext]_pvars
             PROVE  Inv' /\ PType' /\ Accounted' /\ LiesInside' /\ SpansAreBindings'
  BY DEF PInv
<1> QED
  BY HeapStep, NextInv, NextType, NextAccounted, NextSpans

LEMMA JointInvariance == PSpec => [](Inv /\ PInv)
<1>1. PInit => Inv /\ PInv
  BY InitInv, InitPInv DEF PInit
<1> QED
  BY <1>1, JointStep, PTL DEF PSpec

\* Whatever the front end does with its objects, its calls of block_alloc and
\* block_free make a behaviour of the heap, and what is proved of that holds here.
THEOREM HeapUnderneath == PSpec => Spec
<1>1. PInit => Init
  BY DEF PInit
<1>2. Inv /\ PInv /\ [PNext]_pvars => [Next]_vars
  BY HeapStep DEF PInv
<1> QED
  BY <1>1, <1>2, JointInvariance, PTL DEF PSpec, Spec

\* Among the heap's properties: with memories, dedicated resources and shader code
\* in it, and calls that fail half way, no room is lost to fragments.
THEOREM NoRoomIsLostHere == PSpec => []HoleIsFound
  BY HeapUnderneath, NoRoomIsLost, PTL

\* No call of the front end, at whatever step it fails, leaves a block behind or
\* gives one up too early.
THEOREM NothingOrphaned == PSpec => []NothingIsOrphaned
<1>1. PInv => NothingIsOrphaned
  BY DEF PInv, Accounted, NothingIsOrphaned, InTransit, CodeHeld
<1> QED
  BY <1>1, JointInvariance, PTL

\* memory_claim and memory_release_span keep a memory's spans those of the
\* resources bound to it: none is stale, none is missing, none is there twice.
THEOREM SpansExact == PSpec => []SpansAreBindings
<1>1. PInv => SpansAreBindings
  BY DEF PInv
<1> QED
  BY <1>1, JointInvariance, PTL
-----------------------------------------------------------------------------
(* The bytes of resources and shader code, wherever they come from.        *)

LEMMA BoundIsInside ==
  ASSUME Inv, PInv, NEW r \in Objects, r \in exists, home[r] # Nothing
  PROVE  /\ r \in Resource /\ r \notin live /\ home[r] \in live \cap Memory
         /\ where[r] \in Nat /\ bytes[r] \in Nat \ {0}
         /\ where[r] + bytes[r] <= asked[home[r]]
         /\ Extent(r) = at[home[r]] + where[r] .. at[home[r]] + where[r] + bytes[r] - 1
<1>1. r \in Resource /\ r \notin {Vertex, Pixel}
  BY PlacementAssumption DEF PInv, PType
<1>2. /\ r \in exists \ placed /\ home[r] \in live \cap Memory /\ r \notin InTransit
      /\ where[r] \in Nat /\ bytes[r] \in Nat \ {0} /\ where[r] + bytes[r] <= asked[home[r]]
  BY <1>1 DEF PInv, PType, LiesInside, Accounted, InTransit
<1>3. r \notin live
  <2>1. CodeHeld \subseteq {Vertex, Pixel} /\ live \cap Objects = placed \cup InTransit \cup CodeHeld
    BY DEF PInv, PType, Step, Accounted, CodeHeld, Objects
  <2> QED BY <1>1, <1>2, <2>1
<1> QED
  BY <1>1, <1>2, <1>3 DEF Extent, PInv, LiesInside, PType

\* A block is its object's own; what is neither live nor bound has no bytes.
LEMMA OwnBytes ==
  ASSUME NEW o \in Objects
  PROVE  /\ o \in live => Extent(o) = at[o] .. at[o] + asked[o] - 1
         /\ o \notin live /\ (o \notin exists \/ home[o] = Nothing) => Extent(o) = {}
  BY PlacementAssumption DEF Extent, Objects

LEMMA IntervalsApart ==
  ASSUME NEW a \in Int, NEW b \in Int, NEW c \in Int, NEW d \in Int, b < c \/ d < a
  PROVE  (a .. b) \cap (c .. d) = {}
  OBVIOUS

\* Parts of two intervals that are apart, or parts of the same one.
LEMMA PartsApart ==
  ASSUME NEW a \in Nat, NEW m \in Nat, NEW v \in Nat, NEW k \in Nat, v + k <= m,
         NEW b \in Nat, NEW n \in Nat, NEW w \in Nat, NEW l \in Nat, w + l <= n,
         \/ a + m <= b
         \/ b + n <= a
         \/ a = b /\ (v + k <= w \/ w + l <= v)
  PROVE  (a + v .. a + v + k - 1) \cap (b + w .. b + w + l - 1) = {}
  OBVIOUS

LEMMA WholeAndPart ==
  ASSUME NEW a \in Nat, NEW m \in Nat,
         NEW b \in Nat, NEW n \in Nat, NEW w \in Nat, NEW l \in Nat, w + l <= n,
         a + m <= b \/ b + n <= a
  PROVE  (a .. a + m - 1) \cap (b + w .. b + w + l - 1) = {}
  OBVIOUS

LEMMA TwoApart ==
  ASSUME Inv, PInv, NEW o \in Objects, NEW p \in Objects, o # p
  PROVE  Extent(o) \cap Extent(p) = {}
<1>1. \A q \in Objects : q \notin Memory
  BY PlacementAssumption DEF Objects
<1> DEFINE IsBound(q) == q \in exists /\ home[q] # Nothing
<1>2. ASSUME NEW q \in Objects, NEW r \in Objects, q \in live, IsBound(r)
      PROVE  Extent(q) \cap Extent(r) = {}
  <2>1. /\ home[r] \in live \cap Memory /\ where[r] \in Nat /\ bytes[r] \in Nat
        /\ where[r] + bytes[r] <= asked[home[r]]
        /\ Extent(r) = at[home[r]] + where[r] .. at[home[r]] + where[r] + bytes[r] - 1
    BY <1>2, BoundIsInside
  <2>2. Extent(q) = at[q] .. at[q] + asked[q] - 1 /\ q # home[r]
    BY <1>1, <1>2, <2>1, OwnBytes
  <2>3. /\ at[q] \in Nat /\ asked[q] \in Nat /\ at[home[r]] \in Nat /\ asked[home[r]] \in Nat
        /\ at[q] + asked[q] <= at[home[r]] \/ at[home[r]] + asked[home[r]] <= at[q]
    BY <1>2, <2>1, <2>2, BytesApart
  <2> DEFINE a == at[q]  m == asked[q]  b == at[home[r]]  n == asked[home[r]]
             w == where[r]  l == bytes[r]
  <2>4. /\ a \in Nat /\ m \in Nat /\ b \in Nat /\ n \in Nat /\ w \in Nat /\ l \in Nat
        /\ w + l <= n /\ (a + m <= b \/ b + n <= a)
    BY <2>1, <2>3
  <2>5. Extent(q) = a .. a + m - 1 /\ Extent(r) = b + w .. b + w + l - 1
    BY <2>1, <2>2
  <2> HIDE DEF a, m, b, n, w, l
  <2>6. (a .. a + m - 1) \cap (b + w .. b + w + l - 1) = {}
    BY <2>4, WholeAndPart
  <2> QED BY <2>5, <2>6
<1>3. CASE o \in live /\ p \in live
  <2>1. /\ at[o] \in Nat /\ asked[o] \in Nat /\ at[p] \in Nat /\ asked[p] \in Nat
        /\ (at[o] + asked[o] <= at[p] \/ at[p] + asked[p] <= at[o])
    BY <1>3, BytesApart
  <2>2. /\ Extent(o) = at[o] .. at[o] + asked[o] - 1
        /\ Extent(p) = at[p] .. at[p] + asked[p] - 1
    BY <1>3, OwnBytes
  <2> QED BY SMTT(60), <2>1, <2>2, IntervalsApart
<1>4. CASE IsBound(o) /\ IsBound(p)
  <2>1. /\ home[o] \in live \cap Memory /\ where[o] \in Nat /\ bytes[o] \in Nat
        /\ where[o] + bytes[o] <= asked[home[o]] /\ o \in Resource
        /\ Extent(o) = at[home[o]] + where[o] .. at[home[o]] + where[o] + bytes[o] - 1
    BY <1>4, BoundIsInside
  <2>2. /\ home[p] \in live \cap Memory /\ where[p] \in Nat /\ bytes[p] \in Nat
        /\ where[p] + bytes[p] <= asked[home[p]] /\ p \in Resource
        /\ Extent(p) = at[home[p]] + where[p] .. at[home[p]] + where[p] + bytes[p] - 1
    BY <1>4, BoundIsInside
  <2>3. at[home[o]] \in Nat /\ asked[home[o]] \in Nat /\ at[home[p]] \in Nat /\ asked[home[p]] \in Nat
    BY <2>1, <2>2, BytesApart
  <2>4. \/ at[home[o]] + asked[home[o]] <= at[home[p]]
        \/ at[home[p]] + asked[home[p]] <= at[home[o]]
        \/ at[home[o]] = at[home[p]] /\ ( \/ where[o] + bytes[o] <= where[p]
                                         \/ where[p] + bytes[p] <= where[o])
    <3>1. CASE home[o] = home[p]
      BY <1>4, <2>1, <2>2, <3>1 DEF PInv, LiesInside, Apart, Before
    <3>2. CASE home[o] # home[p]
      BY <2>1, <2>2, <3>2, BytesApart
    <3> QED BY <3>1, <3>2
  <2> DEFINE a == at[home[o]]  b == at[home[p]]  v == where[o]  w == where[p]
             k == bytes[o]  l == bytes[p]  m == asked[home[o]]  n == asked[home[p]]
  <2>5. /\ a \in Nat /\ b \in Nat /\ v \in Nat /\ w \in Nat
        /\ k \in Nat /\ l \in Nat /\ m \in Nat /\ n \in Nat
        /\ v + k <= m /\ w + l <= n
        /\ \/ a + m <= b
           \/ b + n <= a
           \/ a = b /\ (v + k <= w \/ w + l <= v)
    BY <2>1, <2>2, <2>3, <2>4
  <2>6. Extent(o) = a + v .. a + v + k - 1 /\ Extent(p) = b + w .. b + w + l - 1
    BY <2>1, <2>2
  <2> HIDE DEF a, b, v, w, k, l, m, n
  <2>7. (a + v .. a + v + k - 1) \cap (b + w .. b + w + l - 1) = {}
    BY <2>5, PartsApart
  <2> QED BY <2>6, <2>7
<1> QED
  BY <1>2, <1>3, <1>4, OwnBytes

\* No image, buffer or shader code shares a byte of the heap with another one,
\* dedicated or bound anywhere in any memory.
THEOREM ExtentsAreDisjoint == PSpec => []Extents!Disjoint
<1>1. Inv /\ PInv => Extents!Disjoint
  BY TwoApart DEF Extents!Disjoint, Objects
<1> QED
  BY <1>1, JointInvariance, PTL
-----------------------------------------------------------------------------
(* These bytes make a behaviour of HeapMap.                                *)

Kept(o) == Extent(o)' = Extent(o)
Emptied(o) == Extent(o)' = {}
NoOthers(o) == \A p \in Objects : p # o => Kept(p)

\* What becomes o's is nobody else's, as the bytes are apart afterwards.
Taken1(o, first, last) ==
  /\ Extent(o) = {} /\ first \in 0 .. HeapBytes - 1 /\ last \in 0 .. HeapBytes - 1
  /\ first <= last /\ Extent(o)' = first .. last

extents == [o \in Resource \cup {Vertex, Pixel} |-> Extent(o)]

LEMMA TakenIsTake ==
  ASSUME NEW o \in Objects, NEW first, NEW last, Taken1(o, first, last), NoOthers(o),
         Extents!Disjoint'
  PROVE  Extents!Next
<1>1. \A p \in Objects : p # o => Extent(p)' \cap Extent(o)' = {} /\ Extent(p)' = Extent(p)
  BY DEF Extents!Disjoint, Objects, NoOthers, Kept
<1>2. \A p \in Objects : Extent(p) \cap (first .. last) = {}
  BY <1>1 DEF Taken1
<1>3. extents' = [extents EXCEPT ![o] = first .. last]
  BY <1>1 DEF Taken1, extents, Objects
<1>4. Extents!Take(o, first, last)
  BY <1>2, <1>3 DEF Extents!Take, Extents!Byte, Taken1, extents, Objects
<1> QED
  BY <1>4 DEF Extents!Next, Extents!Take, Objects

LEMMA EmptiedIsGive ==
  ASSUME NEW o \in Objects, Emptied(o), NoOthers(o)
  PROVE  Extents!Next
<1>1. extents' = [extents EXCEPT ![o] = {}]
  BY DEF Emptied, NoOthers, Kept, extents, Objects
<1> QED
  BY <1>1 DEF Extents!Next, Extents!Give, Objects, extents

LEMMA AllKept ==
  ASSUME \A o \in Objects : Kept(o)
  PROVE  UNCHANGED extents
  BY DEF Kept, extents, Objects

\* An object keeps its bytes as long as its block, or its place in a memory, stays.
LEMMA ExtentFrame ==
  ASSUME NEW o \in Objects,
         o \in live' <=> o \in live,
         o \in live => at'[o] = at[o] /\ asked'[o] = asked[o],
         o \notin live =>
           /\ (o \in exists' /\ home'[o] # Nothing) <=> (o \in exists /\ home[o] # Nothing)
           /\ o \in exists /\ home[o] # Nothing =>
                /\ home'[o] = home[o] /\ at'[home[o]] = at[home[o]]
                /\ where'[o] = where[o] /\ bytes'[o] = bytes[o]
  PROVE  Kept(o)
  BY PlacementAssumption DEF Kept, Extent, Objects

\* A block that is taken for an object without bytes, and one that is given back.
LEMMA AllocTakesExtent ==
  ASSUME Inv, PInv, NEW o \in Objects, NEW s \in Sizes, Alloc(o, s), o \notin exists,
         UNCHANGED <<objects, bindings>>
  PROVE  Taken1(o, at'[o], at'[o] + s - 1) /\ NoOthers(o)
<1>1. o \in Owner /\ s \in Size /\ o \notin Memory /\ s \in Nat
  BY OwnersAre, PlacementAssumption DEF Objects
<1>2. Map!Take(o, at'[o], at'[o] + s - 1)
  BY <1>1, AllocTakes DEF Map!Take
<1>3. /\ o \notin live /\ live' = live \cup {o} /\ asked' = [asked EXCEPT ![o] = s]
      /\ at' \in [Owner -> Int]
      /\ \A p \in Owner : p # o => at'[p] = at[p] /\ asked'[p] = asked[p]
  BY <1>1, HeapAssumption DEF Alloc, Inv, TypeOK, Block
<1>4. Taken1(o, at'[o], at'[o] + s - 1)
  BY <1>1, <1>2, <1>3 DEF Taken1, Map!Take, Map!Byte, Extent, Inv, TypeOK, objects
<1>5. ASSUME NEW p \in Objects, p # o PROVE Kept(p)
  <2>1. p \in Owner /\ (p \in exists /\ home[p] # Nothing => home[p] \in Owner /\ home[p] # o)
    BY <1>1, <1>5, OwnersAre, BoundIsInside DEF Objects
  <2> QED BY <1>3, <1>5, <2>1, ExtentFrame DEF objects, bindings
<1> QED
  BY <1>4, <1>5 DEF NoOthers

LEMMA FreeGivesExtent ==
  ASSUME Inv, PInv, NEW o \in Objects, Free(o), o \notin exists, UNCHANGED <<objects, bindings>>
  PROVE  Emptied(o) /\ NoOthers(o)
<1>1. o \in Owner /\ o \notin Memory
  BY OwnersAre, PlacementAssumption DEF Objects
<1>2. /\ live' = live \ {o}
      /\ \A p \in Owner : p # o => at'[p] = at[p] /\ asked'[p] = asked[p]
  BY <1>1 DEF Free, Inv, TypeOK
<1>3. Emptied(o)
  BY <1>2 DEF Emptied, Extent, objects
<1>4. ASSUME NEW p \in Objects, p # o PROVE Kept(p)
  <2>1. p \in Owner /\ (p \in exists /\ home[p] # Nothing => home[p] \in Owner /\ home[p] # o)
    BY <1>1, <1>4, OwnersAre, BoundIsInside DEF Objects
  <2> QED BY <1>2, <1>4, <2>1, ExtentFrame DEF objects, bindings
<1> QED
  BY <1>3, <1>4 DEF NoOthers
\* Memories come and go with nothing bound to them.
LEMMA MemoriesKeep ==
  ASSUME Inv, PInv, Memories, NEW o \in Objects
  PROVE  Kept(o)
<1>1. o \in Owner /\ o \notin Memory
  BY OwnersAre, PlacementAssumption DEF Objects
<1>2. UNCHANGED <<objects, bindings>>
  BY DEF Memories, DestroyMemory, AllocateMemory
<1>3. PICK m \in Memory : \/ \E s \in Sizes : Alloc(m, s)
                          \/ Free(m) /\ Bound(m) = {}
  <2>1. CASE \E m \in Memory, s \in Sizes : AllocateMemory(m, s)
    BY <2>1 DEF AllocateMemory
  <2>2. ASSUME NEW m \in Memory, DestroyMemory(m) PROVE Free(m) /\ Bound(m) = {}
    <3>1. Free(m) /\ Len(binds[m]) = 0 /\ SpansOf(m)
      BY <2>2, SpansAre DEF DestroyMemory, MayFree, PInv
    <3>2. Cardinality(Bound(m)) = 0
      BY <3>1 DEF SpansOf
    <3> QED BY <3>1, <3>2, BoundFinite, FS_EmptySet
  <2> QED BY <2>1, <2>2 DEF Memories
<1>4. /\ live' \ {m} = live \ {m}
      /\ \A q \in Owner : q # m => at'[q] = at[q] /\ asked'[q] = asked[q]
  BY <1>3, OwnersAre DEF Alloc, Free, Inv, TypeOK
<1>5. o \in exists /\ home[o] # Nothing => home[o] \in Owner /\ home[o] # m
  <2> SUFFICES ASSUME o \in exists, home[o] # Nothing PROVE home[o] \in Owner /\ home[o] # m
    OBVIOUS
  <2>1. home[o] \in live \cap Memory /\ o \in Resource
    BY BoundIsInside
  <2> QED BY <1>3, <2>1, OwnersAre DEF Bound, Alloc
<1> QED
  BY <1>1, <1>2, <1>4, <1>5, ExtentFrame DEF objects, bindings

LEMMA BindExtent ==
  ASSUME Inv, PInv, NEW r \in Resource, NEW m \in Memory, NEW offset \in 0 .. HeapBytes,
         Bind(r, m, offset, TRUE)
  PROVE  /\ Taken1(r, at[m] + offset, at[m] + offset + bytes[r] - 1)
         /\ NoOthers(r)
<1>1. /\ r \in Objects /\ r \in exists \ placed /\ home[r] = Nothing /\ m \in live /\ m # Nothing
      /\ offset \in Nat /\ bytes[r] \in Nat \ {0} /\ offset + bytes[r] <= asked[m]
      /\ pc = "idle" /\ exists \subseteq Resource
  BY SMTT(60), HeapAssumption, PlacementAssumption
     DEF Bind, MayClaim, Objects, PInv, PType, Inv, TypeOK, Size
<1>2. /\ home' = [home EXCEPT ![r] = m] /\ where' = [where EXCEPT ![r] = offset]
      /\ UNCHANGED <<exists, bytes, placed, live, at, asked>>
      /\ home' \in [Resource -> Memory \cup {Nothing}]
      /\ where \in [Resource -> Nat] /\ home \in [Resource -> Memory \cup {Nothing}]
  BY DEF Bind, objects, table, PInv, PType
<1>3. r \notin live
  BY <1>1, PlacementAssumption DEF PInv, Accounted, InTransit, CodeHeld
<1>4. at[m] \in Nat /\ asked[m] \in Nat /\ at[m] + asked[m] <= HeapBytes
  BY <1>1, BytesApart
<1>5. /\ at[m] + offset \in 0 .. HeapBytes - 1
      /\ at[m] + offset + bytes[r] - 1 \in 0 .. HeapBytes - 1
      /\ at[m] + offset <= at[m] + offset + bytes[r] - 1
  BY <1>1, <1>4, HeapAssumption
<1>6. Extent(r) = {} /\ Extent(r)' = at[m] + offset .. at[m] + offset + bytes[r] - 1
  BY <1>1, <1>2, <1>3, PlacementAssumption DEF Extent
<1>7. NoOthers(r)
  <2> SUFFICES ASSUME NEW p \in Objects, p # r PROVE Kept(p)
    BY DEF NoOthers
  <2>1. CASE p \in Resource
    BY <1>2, <2>1, ExtentFrame
  <2>2. CASE p \notin Resource
    BY <1>1, <1>2, <2>2, ExtentFrame
  <2> QED BY <2>1, <2>2
<1> QED
  BY <1>5, <1>6, <1>7 DEF Taken1

\* A resource that goes loses the bytes it was bound to at once, a block of its
\* own only when that is freed.
LEMMA DestroyExtent ==
  ASSUME Inv, PInv, NEW r \in Resource, DestroyResource(r)
  PROVE  (Kept(r) \/ Emptied(r)) /\ NoOthers(r)
<1>1. /\ exists' = exists \ {r} /\ UNCHANGED <<live, at, asked>>
      /\ \A p \in Resource : p # r =>
           home'[p] = home[p] /\ where'[p] = where[p] /\ bytes'[p] = bytes[p]
      /\ exists \subseteq Resource /\ r \notin Memory
  BY PlacementAssumption DEF DestroyResource, table, PInv, PType
<1>2. NoOthers(r)
  <2> SUFFICES ASSUME NEW p \in Objects, p # r PROVE Kept(p)
    BY DEF NoOthers
  <2> QED BY <1>1, ExtentFrame
<1>3. Kept(r) \/ Emptied(r)
  BY <1>1 DEF Kept, Emptied, Extent
<1> QED
  BY <1>2, <1>3
LEMMA NextExtents ==
  Inv /\ PInv /\ Extents!Disjoint' /\ [PNext]_pvars => Extents!Next \/ UNCHANGED extents
<1> DEFINE Done == Extents!Next \/ UNCHANGED extents
<1> SUFFICES ASSUME Inv, PInv, Extents!Disjoint', [PNext]_pvars PROVE Done
  OBVIOUS
<1>1. Vertex \in Objects /\ Pixel \in Objects /\ Resource \subseteq Objects
      /\ exists \subseteq Resource /\ Vertex \notin exists /\ Pixel \notin exists
  BY PlacementAssumption DEF Objects, PInv, PType
<1>2. ASSUME NEW o \in Objects, o \notin exists, UNCHANGED <<objects, bindings>>,
             NEW s \in Sizes, Alloc(o, s)
      PROVE  Done
  BY <1>2, AllocTakesExtent, TakenIsTake
<1>3. ASSUME NEW o \in Objects, o \notin exists, UNCHANGED <<objects, bindings>>, Free(o)
      PROVE  Done
  BY <1>3, FreeGivesExtent, EmptiedIsGive
<1>4. ASSUME NEW o \in Objects, Kept(o) \/ Emptied(o), NoOthers(o) PROVE Done
  <2>1. CASE Emptied(o)
    BY <1>4, <2>1, EmptiedIsGive
  <2>2. CASE Kept(o)
    BY <1>4, <2>2, AllKept DEF NoOthers
  <2> QED BY <1>4, <2>1, <2>2
<1>5. ASSUME UNCHANGED <<live, at, asked, objects, bindings>> PROVE Done
  <2>1. \A o \in Objects : Kept(o)
    BY <1>5, ExtentFrame DEF objects, bindings
  <2> QED BY <2>1, AllKept
<1>6. ASSUME NEW r \in Resource, UNCHANGED <<live, at, asked, home, where, binds>>,
             r \notin exists, \A p \in Resource : p # r => bytes'[p] = bytes[p],
             exists' = exists \cup {r} \/ exists' = exists, r \in live \/ home[r] = Nothing
      PROVE  Done
  <2>1. NoOthers(r)
    <3> SUFFICES ASSUME NEW p \in Objects, p # r PROVE Kept(p)
      BY DEF NoOthers
    <3>1. p \in exists' <=> p \in exists
      BY <1>6
    <3>2. p \in exists => bytes'[p] = bytes[p]
      BY <1>1, <1>6
    <3> QED BY <1>6, <3>1, <3>2, ExtentFrame
  <2>2. Kept(r)
    BY <1>6, PlacementAssumption DEF Kept, Extent
  <2> QED BY <1>1, <2>1, <2>2, <1>4
<1> HIDE DEF Done
<1>7. CASE Memories
  BY <1>7, MemoriesKeep, AllKept DEF Done
<1>8. CASE Resources
  <2>1. ASSUME NEW r \in Resource, NEW s \in Sizes, CreateUnbound(r, s) PROVE Done
    <3>1. home[r] = Nothing
      BY <2>1 DEF CreateUnbound, PInv, LiesInside
    <3> QED BY <1>6, <2>1, <3>1 DEF CreateUnbound, Exists, table, bindings, PInv, PType
  <2>2. ASSUME NEW r \in Resource, NEW s \in Sizes, CreateDedicated(r, s) PROVE Done
    BY <1>1, <1>2, <2>2 DEF CreateDedicated
  <2>3. ASSUME NEW r \in Resource, NEW m \in Memory, NEW offset \in 0 .. HeapBytes,
               NEW ok \in BOOLEAN, Bind(r, m, offset, ok)
        PROVE Done
    <3>1. CASE ok
      <4>1. Bind(r, m, offset, TRUE)
        BY <2>3, <3>1 DEF Bind
      <4> QED BY <1>1, <4>1, BindExtent, TakenIsTake DEF Done
    <3>2. CASE ~ok
      <4>1. /\ home' = [home EXCEPT ![r] = Nothing] /\ where' = [where EXCEPT ![r] = 0]
            /\ home[r] = Nothing /\ UNCHANGED <<exists, bytes, live, at, asked>>
            /\ home \in [Resource -> Memory \cup {Nothing}]
        BY <2>3, <3>2 DEF Bind, objects, table, PInv, PType
      <4>2. home' = home /\ \A p \in Resource : p # r => where'[p] = where[p]
        BY <4>1 DEF PInv, PType
      <4>3. \A o \in Objects : Kept(o)
        BY <1>1, <4>1, <4>2, ExtentFrame
      <4> QED BY <4>3, AllKept DEF Done
    <3> QED BY <3>1, <3>2
  <2>4. ASSUME NEW r \in Resource, DestroyResource(r) PROVE Done
    BY <1>1, <1>4, <2>4, DestroyExtent
  <2>5. ASSUME NEW ok \in BOOLEAN, Place(ok) PROVE Done
    <3>1. subject \in Resource \ exists /\ subject \in live
      BY <2>5 DEF Place, PInv, Accounted, InTransit
    <3>2. CASE ok
      BY <1>6, <2>5, <3>1, <3>2 DEF Place, Exists, table, bindings, PInv, PType
    <3>3. CASE ~ok
      BY <1>5, <2>5, <3>3 DEF Place, table
    <3> QED BY <3>2, <3>3
  <2>6. ASSUME FreeBlock PROVE Done
    BY <1>1, <1>3, <2>6 DEF FreeBlock, PInv, Accounted
  <2> QED BY <1>8, <2>1, <2>2, <2>3, <2>4, <2>5, <2>6 DEF Resources
<1>9. CASE Code
  <2>1. CASE FreeOldVertex \/ FreeOldPixel \/ UndoPixel \/ UndoVertex \/ DropVertex \/ DropPixel
    <3>1. PICK o \in {Vertex, Pixel} : Free(o) /\ UNCHANGED <<objects, bindings>>
      BY <2>1
         DEF FreeOldVertex, FreeOldPixel, UndoPixel, UndoVertex, DropVertex, DropPixel, FreeCode
    <3> QED BY <1>1, <1>3, <3>1
  <2>2. ASSUME NEW s \in Sizes, AllocVertex(s) \/ AllocPixel(s) PROVE Done
    <3>1. UNCHANGED <<objects, bindings>>
          /\ (UNCHANGED table \/ \E o \in {Vertex, Pixel} : Alloc(o, s))
      BY <2>2 DEF AllocVertex, AllocPixel
    <3>2. CASE UNCHANGED table
      BY <1>5, <3>1, <3>2 DEF table
    <3>3. CASE \E o \in {Vertex, Pixel} : Alloc(o, s)
      BY <1>1, <1>2, <3>1, <3>3
    <3> QED BY <3>1, <3>2, <3>3
  <2>3. CASE BindCode \/ DropCode \/ \E ok \in BOOLEAN : Upload(ok)
    BY <1>5, <2>3 DEF BindCode, DropCode, Upload, table
  <2> QED BY <1>9, <2>1, <2>2, <2>3 DEF Code
<1>10. CASE UNCHANGED pvars
  BY <1>5, <1>10 DEF pvars, vars, objects, bindings
<1> QED
  BY <1>7, <1>8, <1>9, <1>10 DEF PNext

\* Images, buffers and shader code hold bytes of the heap as HeapMap promises: nobody
\* else's when they get them, and the same ones until they give them back.
THEOREM ExtentsImplemented == PSpec => ExtentsSpec
<1>1. PInit => Extents!Init
  BY DEF PInit, Init, Extents!Init, Extent
<1>2. Inv /\ PInv /\ Extents!Disjoint' /\ [PNext]_pvars
        => [Extents!Next]_[o \in Resource \cup {Vertex, Pixel} |-> Extent(o)]
  BY NextExtents DEF extents
<1> QED
  BY <1>1, <1>2, JointInvariance, ExtentsAreDisjoint, PTL DEF PSpec, ExtentsSpec, Extents!Spec
=============================================================================
