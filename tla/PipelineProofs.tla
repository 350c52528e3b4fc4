-------------------------- MODULE PipelineProofs --------------------------
(***************************************************************************)
(* What a recording gives the device.  The register program of a pipeline  *)
(* is always the one its metadata, its tables and its addresses encode, and*)
(* code that is bound stays where the program says it is, in blocks that   *)
(* nobody else has written.  Its draws fetch nothing from beyond the vertex*)
(* buffer, for any arguments and any widths of integers.  Its clears write *)
(* their scissor and nothing else, for any limits of the packets.          *)
(***************************************************************************)
EXTENDS Programs, Draws, ClearTiling, WellFoundedInduction, TLAPS

\* The heap as the heap sees it.
HeapType ==
  /\ holder \in [Block -> {"free", "pipeline", "other"}]
  /\ inside \in [Block -> {"vertex", "pixel", "other"}]

\* Bound code is in two blocks, each written for its stage, which are the
\* addresses that every later program is encoded with.
CodeIsPlaced ==
  code # Nothing =>
    /\ code \in [Stage -> Block] /\ vas = code
    /\ \A s \in Stage : holder[code[s]] = "pipeline" /\ inside[code[s]] = s

ProgramsInv == HeapType /\ ProgramIsCurrent /\ CodeIsPlaced /\ BlocksAreHeld

-----------------------------------------------------------------------------

\* What is in force between a release and the next binding: no block is the
\* pipeline's, and no code is bound.
LEMMA ReleaseLeavesNothing ==
  ASSUME HeapType, Release
  PROVE  /\ Released \in [Block -> {"free", "other"}]
         /\ holder' = Released /\ code' = Nothing
         /\ CodeIsPlaced' /\ BlocksAreHeld'
<1>1. Released \in [Block -> {"free", "other"}]
  BY DEF HeapType, Released
<1>2. holder' = Released /\ code' = Nothing
  BY DEF Release
<1>3. {b \in Block : holder'[b] = "pipeline"} = {}
  BY <1>1, <1>2
<1> QED
  BY <1>1, <1>2, <1>3 DEF CodeIsPlaced, BlocksAreHeld

\* A new snapshot: an unlinked program of its own size.
LEMMA AttachKeeps ==
  ASSUME ProgramsInv, NEW m \in Snapshot, Attach(m)
  PROVE  ProgramsInv'
<1>1. HeapType' /\ CodeIsPlaced' /\ BlocksAreHeld'
  BY ReleaseLeavesNothing DEF ProgramsInv, Attach, HeapType
<1>2. ProgramIsCurrent'
  BY DEF Attach, ProgramIsCurrent, Dwords
<1> QED
  BY <1>1, <1>2 DEF ProgramsInv

\* A patch that is not refused encodes what is kept with the new addresses.
LEMMA RepatchIsCurrent ==
  ASSUME ProgramIsCurrent, NEW v, Repatch(v)
  PROVE  ProgramIsCurrent' /\ vas' = v
BY DEF Repatch, ProgramIsCurrent

\* Binding: whatever was bound is given up first, so the two blocks are those
\* that are free after it, and no other.
LEMMA BindKeeps ==
  ASSUME ProgramsInv, BindCode
  PROVE  ProgramsInv'
<1>1. PICK v \in Chosen :
        /\ Repatch(v) /\ inside' = Written(v) /\ code' = v
        /\ holder' = [b \in Block |-> IF \E s \in Stage : v[s] = b THEN "pipeline"
                                      ELSE Released[b]]
  BY DEF BindCode
<1>2. v \in [Stage -> Block] /\ v["vertex"] # v["pixel"]
  BY <1>1 DEF Chosen
<1>3. v # Nothing
  BY <1>2, ProgramsAssumption
<1>4. Released \in [Block -> {"free", "other"}]
  BY DEF ProgramsInv, HeapType, Released
<1>5. ProgramIsCurrent' /\ vas' = v
  BY <1>1, RepatchIsCurrent DEF ProgramsInv
<1>6. \A s \in Stage : (CHOOSE t \in Stage : v[t] = v[s]) = s
  <2> SUFFICES ASSUME NEW s \in Stage PROVE (CHOOSE t \in Stage : v[t] = v[s]) = s
    OBVIOUS
  <2>1. \A t \in Stage : v[t] = v[s] <=> t = s
    BY <1>2 DEF Stage
  <2> QED
    BY <2>1
<1>7. \A s \in Stage : inside'[v[s]] = s
  BY <1>1, <1>2, <1>6 DEF Written
<1>8. \A s \in Stage : holder'[v[s]] = "pipeline"
  BY <1>1, <1>2
<1>9. CodeIsPlaced'
  BY <1>1, <1>2, <1>5, <1>7, <1>8 DEF CodeIsPlaced
<1>10. BlocksAreHeld'
  <2>1. {b \in Block : holder'[b] = "pipeline"} = {v[s] : s \in Stage}
    BY <1>1, <1>2, <1>4
  <2> QED
    BY <1>1, <1>3, <2>1 DEF BlocksAreHeld
<1>11. HeapType'
  <2>1. holder' \in [Block -> {"free", "pipeline", "other"}]
    BY <1>1, <1>4
  <2>2. inside' \in [Block -> {"vertex", "pixel", "other"}]
    <3> SUFFICES ASSUME NEW b \in Block
                 PROVE  Written(v)[b] \in {"vertex", "pixel", "other"}
      BY <1>1 DEF Written
    <3>1. CASE \E s \in Stage : v[s] = b
      <4>1. PICK s \in Stage : v[s] = b
        BY <3>1
      <4>2. Written(v)[b] = s
        BY <4>1, <1>6 DEF Written
      <4> QED
        BY <4>2 DEF Stage
    <3>2. CASE ~\E s \in Stage : v[s] = b
      BY <3>2 DEF Written, ProgramsInv, HeapType
    <3> QED
      BY <3>1, <3>2
  <2> QED
    BY <2>1, <2>2 DEF HeapType
<1> QED
  BY <1>5, <1>9, <1>10, <1>11 DEF ProgramsInv

-----------------------------------------------------------------------------

LEMMA ProgramsInit == PInit => ProgramsInv
BY DEF PInit, ProgramsInv, HeapType, ProgramIsCurrent, CodeIsPlaced, BlocksAreHeld

LEMMA ProgramsStep == ProgramsInv /\ [PNext]_pvars => ProgramsInv'
<1> SUFFICES ASSUME ProgramsInv, [PNext]_pvars PROVE ProgramsInv'
  OBVIOUS
<1> USE DEF ProgramsInv
<1>1. ASSUME NEW k, Create(k) PROVE ProgramsInv'
  <2>1. CASE \E m \in Snapshot : Attach(m)
    BY <2>1, AttachKeeps
  <2>2. CASE UNCHANGED <<snapshot, link, target, program, dwords, vas, patched, heap>>
    BY <2>2 DEF heap, HeapType, ProgramIsCurrent, CodeIsPlaced, BlocksAreHeld
  <2> QED
    BY <1>1, <2>1, <2>2 DEF Create
<1>2. ASSUME NEW m \in Snapshot, SetSnapshot(m) PROVE ProgramsInv'
  BY <1>2, AttachKeeps DEF SetSnapshot
<1>3. ASSUME NEW l \in Link, SetLinked(l) PROVE ProgramsInv'
  <2>1. ProgramIsCurrent'
    BY <1>3, ProgramsAssumption DEF SetLinked, ProgramIsCurrent, Dwords
  <2>2. HeapType' /\ CodeIsPlaced' /\ BlocksAreHeld'
    BY <1>3 DEF SetLinked, heap, HeapType, CodeIsPlaced, BlocksAreHeld
  <2> QED
    BY <2>1, <2>2
<1>4. ASSUME NEW t \in Target, SetTarget(t) PROVE ProgramsInv'
  <2>1. ProgramIsCurrent'
    BY <1>4, ProgramsAssumption DEF SetTarget, ProgramIsCurrent, Dwords
  <2>2. HeapType' /\ CodeIsPlaced' /\ BlocksAreHeld'
    BY <1>4 DEF SetTarget, heap, HeapType, CodeIsPlaced, BlocksAreHeld
  <2> QED
    BY <2>1, <2>2
<1>5. ASSUME NEW v \in [Stage -> Va], Patch(v) PROVE ProgramsInv'
  <2>1. ProgramIsCurrent' /\ vas' = v
    BY <1>5, RepatchIsCurrent DEF Patch
  <2>2. CASE code # Nothing /\ v # vas
    <3>1. Release /\ UNCHANGED inside
      BY <1>5, <2>2 DEF Patch
    <3> QED
      BY <2>1, <3>1, ReleaseLeavesNothing DEF HeapType
  <2>3. CASE ~(code # Nothing /\ v # vas)
    <3>1. UNCHANGED <<code, holder, inside>>
      BY <1>5, <2>3 DEF Patch
    <3> QED
      BY <2>1, <2>3, <3>1 DEF HeapType, CodeIsPlaced, BlocksAreHeld
  <2> QED
    BY <2>2, <2>3
<1>6. CASE BindCode
  BY <1>6, BindKeeps
<1>7. CASE BindFails
  <2>1. Release /\ ProgramIsCurrent'
    BY <1>7 DEF BindFails, ProgramIsCurrent
  <2>2. inside' \in [Block -> {"vertex", "pixel", "other"}]
    <3>1. CASE UNCHANGED inside
      BY <3>1 DEF HeapType
    <3>2. CASE \E v \in Chosen : inside' = Written(v)
      <4>1. PICK v \in Chosen : inside' = Written(v)
        BY <3>2
      <4>2. \A b \in Block : (\E s \in Stage : v[s] = b)
                              => (CHOOSE s \in Stage : v[s] = b) \in Stage
        OBVIOUS
      <4> QED
        BY <4>1, <4>2 DEF Written, HeapType, Stage
    <3> QED
      BY <1>7, <3>1, <3>2 DEF BindFails
  <2> QED
    BY <2>1, <2>2, ReleaseLeavesNothing DEF HeapType
<1>8. CASE Destroy
  <2>1. Release /\ ProgramIsCurrent' /\ UNCHANGED inside
    BY <1>8 DEF Destroy, ProgramIsCurrent
  <2> QED
    BY <2>1, ReleaseLeavesNothing DEF HeapType
<1>9. ASSUME NEW b \in Block, Take(b) \/ GiveBack(b) PROVE ProgramsInv'
  <2>1. UNCHANGED <<snapshot, link, target, program, dwords, vas, code>>
    BY <1>9 DEF Take, GiveBack
  <2>2. HeapType'
    BY <1>9 DEF Take, GiveBack, HeapType
  <2>3. \A c \in Block : holder[c] = "pipeline" =>
          c # b /\ holder'[c] = holder[c] /\ inside'[c] = inside[c]
    BY <1>9 DEF Take, GiveBack, HeapType
  <2>4. \A c \in Block : holder'[c] = "pipeline" => holder[c] = "pipeline"
    BY <1>9 DEF Take, GiveBack, HeapType
  <2>5. ProgramIsCurrent'
    BY <2>1 DEF ProgramIsCurrent
  <2>6. CodeIsPlaced'
    BY <2>1, <2>3 DEF CodeIsPlaced
  <2>7. {c \in Block : holder'[c] = "pipeline"} = {c \in Block : holder[c] = "pipeline"}
    BY <2>3, <2>4
  <2> QED
    BY <2>1, <2>2, <2>5, <2>6, <2>7 DEF BlocksAreHeld
<1>10. CASE UNCHANGED pvars
  BY <1>10 DEF pvars, HeapType, ProgramIsCurrent, CodeIsPlaced, BlocksAreHeld
<1> QED
  BY <1>1, <1>2, <1>3, <1>4, <1>5, <1>6, <1>7, <1>8, <1>9, <1>10 DEF PNext, Calls

\* What a packet carries of bound code is found where it says.
LEMMA PlacedCodeIsRun == ProgramsInv => ProgramsHold
<1> SUFFICES ASSUME ProgramsInv PROVE BoundCodeIsRun
  BY DEF ProgramsInv, ProgramsHold
<1> SUFFICES ASSUME NEW w \in RecordedIfBound, NEW s \in Stage
             PROVE  w.vas[s] \in Block /\ holder[w.vas[s]] = "pipeline" /\ inside[w.vas[s]] = s
  BY DEF BoundCodeIsRun
<1>1. code # Nothing /\ w = program /\ program # Nothing
  BY DEF RecordedIfBound, Recorded
<1>2. w.vas = code
  BY <1>1 DEF ProgramsInv, ProgramIsCurrent, CodeIsPlaced, Encoded
<1> QED
  BY <1>1, <1>2 DEF ProgramsInv, CodeIsPlaced

\* In every behaviour the program kept is that of the metadata, tables and
\* addresses kept, what a bind or a submission sends of bound code names two
\* blocks of this pipeline with the code of their stages, and the heap lists as
\* the pipeline's the blocks it will give back.
THEOREM ProgramsAreRight == PSpec => []ProgramsHold
<1>1. PInit => ProgramsInv
  BY ProgramsInit
<1>2. ProgramsInv /\ [PNext]_pvars => ProgramsInv'
  BY ProgramsStep
<1>3. ProgramsInv => ProgramsHold
  BY PlacedCodeIsRun
<1> QED
  BY <1>1, <1>2, <1>3, PTL DEF PSpec

-----------------------------------------------------------------------------
(* Numbers: what wraps, and what does not.                                 *)

LEMMA Constants ==
  /\ Short \in Nat \ {0} /\ Word \in Nat /\ Quarter \in Nat /\ Length \in Nat /\ Halves \in Nat
  /\ Word >= 4 /\ 4 * Quarter <= Word /\ Word <= 4 * Quarter + 3 /\ Quarter >= 1
  /\ Word * Quarter \in Nat
  /\ \A l \in Mask : l \in 0 .. 7 /\ 2 * (Length + l) <= Quarter
<1>1. Short \in Nat \ {0} /\ Short % 2 = 0 /\ Length \in Nat /\ Halves \in Nat
  BY DrawsAssumption
<1>2. Short >= 2
  BY <1>1
<1>3. Word \in Nat /\ Word >= 4
  <2>1. Short * Short \in Nat /\ Short * Short >= 2 * Short
    BY ONLY <1>1, <1>2
  <2> QED BY <1>1, <1>2, <2>1 DEF Word
<1>4. Quarter \in Nat /\ 4 * Quarter <= Word /\ Word <= 4 * Quarter + 3
  BY <1>3 DEF Quarter
<1>5. Word * Quarter \in Nat
  BY ONLY <1>3, <1>4
<1>6. \A l \in Mask : l \in 0 .. 7 /\ 2 * (Length + l) <= Quarter
  <2> SUFFICES ASSUME NEW l \in Mask PROVE l \in 0 .. 7 /\ 2 * (Length + l) <= Quarter
    OBVIOUS
  <2>1. l \in 0 .. 7 /\ 8 * (Length + l) <= Word
    BY DrawsAssumption
  <2> QED BY ONLY <1>1, <1>3, <1>4, <2>1
<1> QED
  BY <1>1, <1>3, <1>4, <1>5, <1>6

\* A set of numbers has a least one.
LEMMA LeastNumber ==
  ASSUME NEW S \in SUBSET Nat, S # {}
  PROVE  \E i \in S : \A j \in S : i <= j
<1> DEFINE R == {ss \in Nat \X Nat : ss[1] < ss[2]}
<1>1. IsWellFoundedOn(R, Nat)
  BY NatLessThanWellFounded DEF OpToRel
<1>2. \A i, j \in Nat : <<j, i>> \in R <=> j < i
  OBVIOUS
<1> HIDE DEF R
<1>3. PICK i \in S : \A j \in S : <<j, i>> \notin R
  BY <1>1, WFMin
<1>4. i \in Nat /\ \A j \in S : j \in Nat /\ ~(j < i)
  BY <1>2, <1>3
<1>5. \A j \in S : i <= j
  BY <1>4
<1> QED BY <1>5

LEMMA ByInduction ==
  ASSUME NEW S, 0 \in S, \A n \in Nat : n \in S => n + 1 \in S
  PROVE  Nat \subseteq S
<1> SUFFICES ASSUME Nat \ S # {} PROVE FALSE
  OBVIOUS
<1>1. PICK i \in Nat \ S : \A j \in Nat \ S : i <= j
  BY LeastNumber
<1>2. i - 1 \in Nat /\ i - 1 \in S
  BY <1>1
<1> QED
  BY <1>1, <1>2

LEMMA Wraps ==
  ASSUME NEW x \in Nat
  PROVE  /\ x < Word * Quarter => Wrap(x) = x
         /\ Word * Quarter <= x /\ x < 2 * (Word * Quarter) => Wrap(x) = x - Word * Quarter
<1> DEFINE M == Word * Quarter
<1>1. M \in Nat /\ M > 0
  <2>1. Word \in Nat \ {0} /\ Quarter \in Nat \ {0}
    BY Constants
  <2> QED BY ONLY <2>1
<1>2. Wrap(x) = x % M
  BY DEF Wrap
<1> HIDE DEF M
<1>3. x < M => x % M = x
  BY ONLY <1>1, x \in Nat
<1>4. M <= x /\ x < 2 * M => x % M = x - M
  BY ONLY <1>1, x \in Nat
<1> QED
  BY <1>2, <1>3, <1>4 DEF M

LEMMA Products ==
  ASSUME NEW a \in Nat, NEW b \in Nat, NEW c \in Nat, NEW d \in Nat, a <= b, c <= d
  PROVE  a * c \in Nat /\ b * d \in Nat /\ a * c <= b * d
<1>1. a * c \in Nat /\ b * d \in Nat /\ b * c \in Nat
  OBVIOUS
<1>2. a * c <= b * c
  OBVIOUS
<1>3. b * c <= b * d
  OBVIOUS
<1> QED BY <1>1, <1>2, <1>3

LEMMA NextProduct ==
  ASSUME NEW a \in Nat, NEW s \in Nat
  PROVE  a * s \in Nat /\ (a + 1) * s = a * s + s
OBVIOUS

\* M, the number of dwords that uint64_t addresses, is far beyond any buffer.
LEMMA FarBeyond ==
  \A l \in Mask : /\ l \in Nat /\ 2 * (Length + l) <= Quarter
                  /\ 4 * Quarter <= Word * Quarter /\ Word * Quarter \in Nat
                  /\ Length \in Nat /\ Quarter \in Nat \ {0} /\ Word \in Nat \ {0}
<1>1. Word \in Nat /\ Quarter \in Nat /\ Word >= 4
  BY Constants
<1>2. 4 * Quarter <= Word * Quarter
  BY ONLY <1>1, Products
<1> QED BY <1>1, <1>2, Constants

\* The number of the first vertex or instance fits in a word: nothing wraps.
LEMMA FirstIsNear ==
  ASSUME NEW first \in 0 .. Word - 1, NEW s \in 0 .. Quarter - 1, NEW w \in 0 .. Length, NEW l \in Mask
  PROVE  w + first * s + l \in Nat /\ w + first * s + l < Word * Quarter
<1>1. /\ Word \in Nat \ {0} /\ Quarter \in Nat \ {0} /\ Length \in Nat /\ l \in Nat
      /\ 2 * (Length + l) <= Quarter
  BY FarBeyond
<1>2. first * s \in Nat /\ first * s <= (Word - 1) * (Quarter - 1)
  BY <1>1, Products
<1>3. (Word - 1) * (Quarter - 1) = Word * Quarter - Word - Quarter + 1
  BY ONLY <1>1
<1> DEFINE T == first * s
           M == Word * Quarter
<1>4. M \in Nat
  BY FarBeyond
<1>5. T \in Nat /\ T <= M - Word - Quarter + 1
  BY <1>2, <1>3
<1> SUFFICES w + T + l \in Nat /\ w + T + l < M
  OBVIOUS
<1> HIDE DEF T, M
<1> QED BY <1>1, <1>4, <1>5

\* Consecutive fetches cannot jump over the dwords beyond the buffer.
LEMMA RowIsNear ==
  ASSUME NEW first \in 0 .. Word - 1, NEW s \in 0 .. Quarter - 1, NEW w \in 0 .. Length, NEW l \in Mask,
         NEW n \in Nat, \A j \in 0 .. n - 1 : Wrap(w + (first + j) * s + l) < Length
  PROVE  \A j \in 0 .. n - 1 : w + (first + j) * s + l < Length
<1> DEFINE At(j) == w + (first + j) * s + l
           S == {j \in Nat : j < n => At(j) < Length}
           M == Word * Quarter
<1>1. /\ Word \in Nat \ {0} /\ Quarter \in Nat \ {0} /\ Length \in Nat /\ l \in Nat
      /\ 2 * (Length + l) <= Quarter /\ 4 * Quarter <= M /\ M \in Nat
  BY FarBeyond
<1>2. 0 \in S
  <2>1. first + 0 = first /\ first \in Nat
    BY <1>1
  <2>2. At(0) \in Nat /\ At(0) < Word * Quarter
    BY <2>1, FirstIsNear
  <2>3. Wrap(At(0)) = At(0)
    BY <2>2, Wraps
  <2>4. 0 < n => Wrap(At(0)) < Length
    OBVIOUS
  <2> QED BY <2>3, <2>4
<1>3. ASSUME NEW j \in Nat, j \in S
      PROVE  j + 1 \in S
  <2> SUFFICES ASSUME j + 1 < n PROVE At(j + 1) < Length
    OBVIOUS
  <2>1. (first + j) * s \in Nat /\ (first + (j + 1)) * s = (first + j) * s + s
    <3>1. first + j \in Nat /\ s \in Nat /\ first + (j + 1) = (first + j) + 1
      BY <1>1
    <3> QED BY <3>1, NextProduct
  <2>2. At(j) < Length
    BY <1>3
  <2>3. At(j + 1) \in Nat /\ At(j + 1) = At(j) + s
    BY <1>1, <2>1
  <2>4. At(j) \in Nat
    BY <1>1, <2>1
  <2> HIDE DEF At
  <2>5. At(j + 1) < M
    <3> HIDE DEF M
    <3> QED BY <1>1, <2>2, <2>3, <2>4
  <2>6. Wrap(At(j + 1)) = At(j + 1)
    BY <2>3, <2>5, Wraps
  <2>7. Wrap(At(j + 1)) < Length
    <3>1. j + 1 \in 0 .. n - 1
      OBVIOUS
    <3> QED BY <3>1 DEF At
  <2> QED BY <2>6, <2>7
<1> HIDE DEF S
<1>4. Nat \subseteq S
  BY <1>2, <1>3, ByInduction
<1> QED BY <1>4 DEF S

\* ... so that the end of the last one does not wrap either.
LEMMA RowFits ==
  ASSUME NEW first \in 0 .. Word - 1, NEW s \in 0 .. Quarter - 1, NEW w \in 0 .. Length, NEW l \in Mask,
         NEW n \in Nat \ {0}, \A j \in 0 .. n - 1 : w + (first + j) * s + l < Length,
         Wrap((first + n) * s) <= Length - w
  PROVE  \A j \in 0 .. n - 1 : w + (first + j + 1) * s <= Length
<1> DEFINE M == Word * Quarter
           T == (first + (n - 1)) * s
           E == (first + n) * s
<1>1. /\ Word \in Nat \ {0} /\ Quarter \in Nat \ {0} /\ Length \in Nat /\ l \in Nat
      /\ 2 * (Length + l) <= Quarter /\ 4 * Quarter <= M /\ M \in Nat
  BY FarBeyond
<1>2. T \in Nat /\ E = T + s
  <2>1. first + (n - 1) \in Nat /\ s \in Nat /\ (first + (n - 1)) + 1 = first + n
    BY <1>1
  <2> QED BY <2>1, NextProduct
<1>3. w + T + l < Length
  BY <1>1
<1>4. E \in Nat /\ E < M
  <2> HIDE DEF T, E, M
  <2> QED BY <1>1, <1>2, <1>3
<1>5. w + E <= Length
  <2>1. Wrap(E) = E
    BY <1>4, Wraps
  <2>2. E <= Length - w
    BY <2>1
  <2> HIDE DEF E
  <2> QED BY <1>1, <1>4, <2>2
<1>6. ASSUME NEW j \in 0 .. n - 1
      PROVE  w + (first + j + 1) * s <= Length
  <2>1. first + j + 1 \in Nat /\ first + n \in Nat /\ first + j + 1 <= first + n /\ s \in Nat
    BY <1>1
  <2>2. (first + j + 1) * s \in Nat /\ (first + j + 1) * s <= E
    BY <2>1, Products
  <2> HIDE DEF E
  <2> QED BY <1>1, <1>4, <1>5, <2>2
<1> QED BY <1>6

\* An index and a base may name a vertex so far out that its end wraps; then its
\* stride were more than the buffer, of which the fetch knows better.
LEMMA IndexedFits ==
  ASSUME NEW v \in Nat, 2 * (v + 1) <= 3 * Word,
         NEW s \in 0 .. Quarter - 1, NEW w \in 0 .. Length, NEW l \in Mask,
         Wrap((v + 1) * s) <= Length - w, Wrap(w + v * s + l) < Length
  PROVE  w + (v + 1) * s <= Length
<1> DEFINE M == Word * Quarter
           T == v * s
           E == (v + 1) * s
<1>1. /\ Word \in Nat \ {0} /\ Quarter \in Nat \ {0} /\ Length \in Nat /\ l \in Nat
      /\ 2 * (Length + l) <= Quarter /\ 4 * Quarter <= M /\ M \in Nat
  BY FarBeyond
<1>2. T \in Nat /\ E = T + s /\ E \in Nat
  BY <1>1, NextProduct
<1>3. ASSUME NEW c \in Nat, s <= c
      PROVE  (v + 1) * c \in Nat /\ 2 * E <= 3 * (Word * c) /\ Word * c \in Nat
  <2>1. (2 * (v + 1)) * s <= (3 * Word) * c
    <3>1. 2 * (v + 1) \in Nat /\ 3 * Word \in Nat /\ s \in Nat
      BY <1>1
    <3> QED BY <3>1, <1>3, Products
  <2>2. (2 * (v + 1)) * s = 2 * E
    BY <1>1
  <2>3. (3 * Word) * c = 3 * (Word * c)
    BY <1>1
  <2> HIDE DEF E
  <2> QED BY <1>1, <2>1, <2>2, <2>3
<1>4. 2 * E <= 3 * M
  BY <1>1, <1>3
<1>5. E < M => w + E <= Length
  <2>1. E < M => Wrap(E) = E
    BY <1>2, Wraps
  <2>2. E < M => E <= Length - w
    BY <2>1
  <2> HIDE DEF E, M
  <2> QED BY <1>1, <1>2, <2>2
<1>6. ASSUME M <= E
      PROVE  FALSE
  <2>1. E - M <= Length - w
    <3>1. E < 2 * M
      <4> HIDE DEF E, M
      <4> QED BY <1>1, <1>2, <1>4
    <3>2. Wrap(E) = E - M
      BY <1>2, <1>6, <3>1, Wraps
    <3> QED BY <3>2
  <2>2. w + T + l < M => w + T + l < Length
    <3>1. w + T + l \in Nat
      <4> HIDE DEF T
      <4> QED BY <1>1, <1>2
    <3>2. w + T + l < M => Wrap(w + T + l) = w + T + l
      BY <3>1, Wraps
    <3> QED BY <3>2
  <2>3. s <= Length + l
    <3> HIDE DEF T, E, M
    <3>1. CASE M <= T
      BY <1>1, <1>2, <2>1, <3>1
    <3>2. CASE T < M /\ w + T + l < M
      BY <1>1, <1>2, <1>6, <2>2, <3>2
    <3>3. CASE T < M /\ M <= w + T + l
      BY <1>1, <1>2, <2>1, <3>3
    <3> QED BY <1>1, <1>2, <3>1, <3>2, <3>3
  <2>4. Length + l \in Nat /\ 2 * E <= 3 * (Word * (Length + l)) /\ Word * (Length + l) \in Nat
    BY <1>1, <1>3, <2>3
  <2>5. Word * (2 * (Length + l)) <= M
    BY <1>1, <2>4, Products
  <2>6. Word * (2 * (Length + l)) = 2 * (Word * (Length + l))
    BY <1>1, <2>4
  <2> DEFINE P == Word * (Length + l)
  <2>7. P \in Nat /\ 2 * E <= 3 * P /\ 2 * P <= M
    BY <2>4, <2>5, <2>6
  <2> HIDE DEF E, M, P
  <2> QED BY <1>1, <1>2, <1>6, <2>7
<1> HIDE DEF E, M
<1>7. w + E <= Length
  BY <1>1, <1>2, <1>5, <1>6
<1> QED BY <1>7 DEF E

-----------------------------------------------------------------------------
(* What the setters and the bindings leave behind.                         *)

AttributeType == [offset : Nat, size : Nat, format : 0 .. 4, rate : 0 .. 1]

\* An input that was accepted.
Taken(in) ==
  /\ in \in [stride : 0 .. Quarter - 1, attributes : ShortLists(AttributeType)]
  /\ \A k \in DOMAIN in.attributes : Fits(in.stride, in.attributes[k])
  /\ Covers(in.attributes)

DrawsType ==
  /\ input # None => Taken(input)
  /\ vertex # None => vertex \in 0 .. Length
  /\ index # None => index \in [offset : 0 .. Halves, width : 0 .. 2]
  /\ pushed \in 0 .. PushBlock
  /\ indices \in [0 .. Halves - 1 -> 0 .. Short - 1]

LEMMA AcceptedIsTaken ==
  ASSUME NEW stride \in 0 .. Quarter - 1, NEW n \in 1 .. 2, NEW attributes \in [1 .. n -> AttributeType],
         NEW spans, DOMAIN spans = 1 .. n, Accepts(stride, spans),
         \A k \in 1 .. n : /\ attributes[k].offset = spans[k].offset
                           /\ attributes[k].size = spans[k].size
  PROVE  Taken([stride |-> stride, attributes |-> attributes])
<1> DEFINE in == [stride |-> stride, attributes |-> attributes]
<1>1. in \in [stride : 0 .. Quarter - 1, attributes : ShortLists(AttributeType)]
  BY DEF ShortLists
<1>2. DOMAIN attributes = 1 .. n
  OBVIOUS
<1>3. \A k \in DOMAIN attributes : Fits(stride, attributes[k])
  BY <1>2 DEF Accepts, Fits
<1>4. Covers(attributes)
  BY <1>2 DEF Accepts, Covers
<1> QED
  BY <1>1, <1>3, <1>4 DEF Taken

LEMMA AttributesTaken ==
  ASSUME NEW s \in Strides, NEW spans \in ShortLists(Spans), SetAttributes(s, spans)
  PROVE  Taken(input')
<1>1. PICK n \in 1 .. 2 : spans \in [1 .. n -> Spans]
  BY DEF ShortLists
<1>2. s \in 0 .. Quarter - 1 /\ \A k \in 1 .. n : spans[k].offset \in Nat /\ spans[k].size \in Nat
  BY <1>1, DrawsAssumption
<1> DEFINE attributes == [k \in DOMAIN spans |-> Attribute(spans[k], 0)]
<1>3. attributes \in [1 .. n -> AttributeType]
  BY <1>1, <1>2 DEF Attribute, AttributeType
<1>4. \A k \in 1 .. n : attributes[k].offset = spans[k].offset /\ attributes[k].size = spans[k].size
  BY <1>1 DEF Attribute
<1>5. Accepts(s, spans) /\ input' = [stride |-> s, attributes |-> attributes]
  BY DEF SetAttributes
<1> HIDE DEF attributes
<1> QED
  BY <1>1, <1>2, <1>3, <1>4, <1>5, AcceptedIsTaken

LEMMA FormatsTaken ==
  ASSUME NEW s \in Strides, NEW n \in 1 .. 2, NEW offsets \in [1 .. n -> 0 .. 1],
         NEW formats \in [1 .. n -> Format], SetFormats(s, offsets, formats)
  PROVE  Taken(input')
<1> DEFINE spans == [k \in DOMAIN offsets |-> [offset |-> offsets[k], size |-> formats[k]]]
           attributes == [k \in DOMAIN spans |-> Attribute(spans[k], formats[k])]
<1>1. s \in 0 .. Quarter - 1 /\ DOMAIN spans = 1 .. n
  BY DrawsAssumption
<1>2. attributes \in [1 .. n -> AttributeType]
  BY DEF Attribute, AttributeType, Format
<1>3. \A k \in 1 .. n : attributes[k].offset = spans[k].offset /\ attributes[k].size = spans[k].size
  BY DEF Attribute
<1>4. Accepts(s, spans) /\ input' = [stride |-> s, attributes |-> attributes]
  BY DEF SetFormats
<1> HIDE DEF attributes, spans
<1> QED
  BY <1>1, <1>2, <1>3, <1>4, AcceptedIsTaken

LEMMA RatesTaken ==
  ASSUME Taken(input), NEW rates \in ShortLists(0 .. 1), SetRates(rates)
  PROVE  Taken(input')
<1>1. PICK n \in 1 .. 2 : input.attributes \in [1 .. n -> AttributeType]
  BY DEF Taken, ShortLists
<1>2. \A k \in 1 .. n : rates[k] \in 0 .. 1
  BY <1>1 DEF SetRates, ShortLists
<1> DEFINE rated == [k \in 1 .. n |-> [input.attributes[k] EXCEPT !.rate = rates[k]]]
<1>3. input' = [input EXCEPT !.attributes = rated]
  BY <1>1 DEF SetRates
<1>4. rated \in [1 .. n -> AttributeType]
  BY <1>1, <1>2 DEF AttributeType
<1>5. \A k \in 1 .. n : /\ rated[k].offset = input.attributes[k].offset
                        /\ rated[k].size = input.attributes[k].size
  BY <1>1 DEF AttributeType
<1>6. DOMAIN rated = 1 .. n /\ DOMAIN input.attributes = 1 .. n
  BY <1>1
<1> HIDE DEF rated
<1>7. input'.stride = input.stride /\ input'.attributes = rated
      /\ input' = [stride |-> input.stride, attributes |-> rated]
  BY <1>3 DEF Taken
<1>8. input' \in [stride : 0 .. Quarter - 1, attributes : ShortLists(AttributeType)]
  BY <1>4, <1>7 DEF Taken, ShortLists
<1>9. \A k \in DOMAIN input'.attributes : Fits(input'.stride, input'.attributes[k])
  BY <1>5, <1>6, <1>7 DEF Taken, Fits
<1>10. Covers(input'.attributes)
  BY <1>5, <1>6, <1>7 DEF Taken, Covers
<1> QED
  BY <1>8, <1>9, <1>10 DEF Taken

LEMMA BindTyped ==
  ASSUME DrawsType, Bind
  PROVE  DrawsType'
<1>1. CASE SetViewport
  BY <1>1 DEF SetViewport, DrawsType
<1>2. ASSUME NEW offset \in Offsets, BindVertex(offset)
      PROVE  DrawsType'
  BY <1>2, DrawsAssumption DEF BindVertex, DrawsType
<1>3. \A offset \in Offsets : offset <= Halves =>
        Reindexed(offset) \in [offset : 0 .. Halves, width : 0 .. 2]
  BY DrawsAssumption DEF Reindexed, DrawsType
<1>4. ASSUME NEW offset \in Offsets, BindIndex(offset)
      PROVE  DrawsType'
  BY <1>3, <1>4 DEF BindIndex, DrawsType
<1>5. ASSUME NEW w \in {1, 2}, SetIndexWidth(w)
      PROVE  DrawsType'
  BY <1>5 DEF SetIndexWidth, DrawsType
<1>6. ASSUME NEW offset \in Offsets, NEW w \in {1, 2}, BindIndexBuffer(offset, w)
      PROVE  DrawsType'
  <2>1. Reindexed(offset) \in [offset : 0 .. Halves, width : 0 .. 2]
    BY <1>3, <1>6 DEF BindIndexBuffer
  <2> HIDE DEF Reindexed
  <2> QED BY <1>6, <2>1 DEF BindIndexBuffer, DrawsType
<1>7. ASSUME NEW c \in Contents, HostWrite(c)
      PROVE  DrawsType'
  BY <1>7, DrawsAssumption DEF HostWrite, DrawsType
<1>8. /\ \A t \in DOMAIN OpenGlIndexType : OpenGlIndexType[t] \in {1, 2}
      /\ \A t \in DOMAIN VulkanIndexType : VulkanIndexType[t] \in {1, 2}
  BY DEF OpenGlIndexType, VulkanIndexType
<1> QED
  BY <1>1, <1>2, <1>4, <1>5, <1>6, <1>7, <1>8 DEF Bind

LEMMA PlanTyped ==
  ASSUME DrawsType, VulkanPlan \/ OpenGlPlan
  PROVE  DrawsType'
<1>1. ASSUME NEW s \in Strides, NEW spans \in ShortLists(Spans), SetAttributes(s, spans)
      PROVE  DrawsType'
  BY <1>1, AttributesTaken DEF SetAttributes, DrawsType
<1>2. ASSUME NEW rates \in ShortLists(0 .. 1), SetRates(rates)
      PROVE  DrawsType'
  BY <1>2, RatesTaken DEF SetRates, DrawsType
<1>3. ASSUME NEW offset \in 0 .. PushBlock, NEW size \in 1 .. PushBlock, PushConstants(offset, size)
      PROVE  DrawsType'
  BY <1>3 DEF PushConstants, DrawsType, PushBlock
<1>4. ASSUME NEW p, SetPrimitive(p)
      PROVE  DrawsType'
  BY <1>4 DEF SetPrimitive, DrawsType
<1>5. ASSUME NEW on, NEW f, NEW g, SetBlend(on, f, g)
      PROVE  DrawsType'
  BY <1>5 DEF SetBlend, DrawsType
<1>6. ASSUME NEW s \in Strides, NEW n \in 1 .. 2, NEW offsets \in [1 .. n -> 0 .. 1],
             NEW formats \in [1 .. n -> Format], SetFormats(s, offsets, formats)
      PROVE  DrawsType'
  BY <1>6, FormatsTaken DEF SetFormats, DrawsType
<1>7. ASSUME NEW s \in Strides, NEW x \in ShortLists([offset : 0 .. 1, format : DOMAIN VulkanFormat]),
             SetFormats(s, [k \in DOMAIN x |-> x[k].offset],
                        [k \in DOMAIN x |-> VulkanFormat[x[k].format]])
      PROVE  DrawsType'
  <2>1. PICK n \in 1 .. 2 : x \in [1 .. n -> [offset : 0 .. 1, format : DOMAIN VulkanFormat]]
    BY DEF ShortLists
  <2>2. \A f \in DOMAIN VulkanFormat : VulkanFormat[f] \in Format
    BY DEF VulkanFormat, Format
  <2>3. [k \in DOMAIN x |-> x[k].offset] \in [1 .. n -> 0 .. 1]
    BY <2>1
  <2>4. [k \in DOMAIN x |-> VulkanFormat[x[k].format]] \in [1 .. n -> Format]
    BY <2>1, <2>2
  <2> QED BY <1>6, <1>7, <2>3, <2>4
<1>8. ASSUME NEW s \in Strides, NEW x \in ShortLists([offset : 0 .. 1, components : Format]),
             SetFormats(s, [k \in DOMAIN x |-> x[k].offset], [k \in DOMAIN x |-> x[k].components])
      PROVE  DrawsType'
  <2>1. PICK n \in 1 .. 2 : x \in [1 .. n -> [offset : 0 .. 1, components : Format]]
    BY DEF ShortLists
  <2>2. [k \in DOMAIN x |-> x[k].offset] \in [1 .. n -> 0 .. 1]
    BY <2>1
  <2>3. [k \in DOMAIN x |-> x[k].components] \in [1 .. n -> Format]
    BY <2>1
  <2> QED BY <1>6, <1>8, <2>2, <2>3
<1> QED
  BY <1>1, <1>2, <1>3, <1>4, <1>5, <1>7, <1>8 DEF VulkanPlan, OpenGlPlan, SetInputs

-----------------------------------------------------------------------------
(* What a fetch knows, and what a draw knows then.                         *)

\* Which vertex or instance an attribute is of, and where location l of it is.
Of(a, v, i) == IF a.rate = 0 THEN v ELSE i
At(e, l) == vertex + e * input.stride + l

Ready == Taken(input) /\ vertex \in 0 .. Length

LEMMA InputFacts ==
  ASSUME Ready, NEW k \in DOMAIN input.attributes
  PROVE  /\ input.stride \in 0 .. Quarter - 1 /\ input.stride \in Nat /\ vertex \in Nat
         /\ Length \in Nat /\ input.attributes[k] \in AttributeType
         /\ \A l \in Mask : Has(input.attributes[k], l) => l \in Nat /\ l < input.stride
<1>1. input.stride \in 0 .. Quarter - 1 /\ Quarter \in Nat /\ Length \in Nat /\ vertex \in 0 .. Length
  BY Constants DEF Ready, Taken
<1>2. input.attributes[k] \in AttributeType /\ Fits(input.stride, input.attributes[k])
  BY DEF Ready, Taken, ShortLists
<1>3. ASSUME NEW l \in Mask, Has(input.attributes[k], l)
      PROVE  l \in Nat /\ l < input.stride
  <2>1. l \in Nat
    BY Constants
  <2> QED BY <1>1, <1>2, <1>3, <2>1 DEF Has, Fits, AttributeType
<1> QED BY <1>1, <1>2, <1>3

LEMMA SomeHas ==
  ASSUME Ready, NEW l \in Mask
  PROVE  \E k \in DOMAIN input.attributes : Has(input.attributes[k], l)
<1>1. PICK k \in DOMAIN input.attributes :
        input.attributes[k].offset <= l
        /\ input.attributes[k].size >= l - input.attributes[k].offset + 1
  BY DEF Ready, Taken, Covers
<1>2. input.attributes[k] \in AttributeType /\ l \in Nat
  BY InputFacts, Constants
<1> QED BY <1>1, <1>2 DEF Has, AttributeType

LEMMA ReadsLocations ==
  ASSUME Ready, NEW v \in Nat, NEW i \in Nat, NEW l \in Mask, NEW k \in DOMAIN input.attributes,
         Has(input.attributes[k], l)
  PROVE  Wrap(At(Of(input.attributes[k], v, i), l)) \in Reads(v, i)
<1> DEFINE a == input.attributes[k]
           base == vertex + Of(a, v, i) * input.stride
           d == l - a.offset
<1>1. /\ input.stride \in Nat /\ vertex \in Nat /\ l \in Nat
      /\ a.offset \in Nat /\ a.size \in Nat /\ a.offset <= l /\ l < a.offset + a.size
  BY InputFacts DEF AttributeType, Has
<1>2. base \in Nat
  <2>1. Of(a, v, i) \in Nat
    BY DEF Of
  <2>2. Of(a, v, i) * input.stride \in Nat
    BY <1>1, <2>1, NextProduct
  <2> QED BY <1>1, <2>2
<1>3. d \in 0 .. a.size - 1 /\ base + a.offset + d = base + l
  <2> HIDE DEF base, a
  <2> QED BY <1>1, <1>2
<1>4. Wrap(base + a.offset + d) \in {Wrap(base + a.offset + c) : c \in 0 .. a.size - 1}
  BY <1>3
<1>5. Wrap(base + a.offset + d) \in Reads(v, i)
  BY <1>4 DEF Reads, Of
<1> QED
  BY <1>3, <1>5 DEF At

\* A location that was fetched, at a place which does not wrap.
LEMMA ReadUnwrapped ==
  ASSUME Ready, NEW v \in Nat, NEW i \in Nat, NEW l \in Mask, NEW k \in DOMAIN input.attributes,
         Has(input.attributes[k], l), At(Of(input.attributes[k], v, i), l) < Length
  PROVE  At(Of(input.attributes[k], v, i), l) \in Reads(v, i)
<1> DEFINE e == Of(input.attributes[k], v, i)
<1>1. e \in Nat
  BY DEF Of
<1>2. At(e, l) \in Nat
  <2>1. input.stride \in Nat /\ vertex \in Nat /\ l \in Nat
    BY InputFacts
  <2>2. e * input.stride \in Nat
    BY <1>1, <2>1, NextProduct
  <2> QED BY <2>1, <2>2 DEF At
<1>3. Length < Word * Quarter /\ Word * Quarter \in Nat /\ Length \in Nat
  <2>1. /\ Length \in Nat /\ Quarter \in Nat \ {0} /\ 2 * (Length + l) <= Quarter /\ l \in Nat
        /\ 4 * Quarter <= Word * Quarter /\ Word * Quarter \in Nat
    BY FarBeyond
  <2> DEFINE M == Word * Quarter
  <2> HIDE DEF M
  <2>2. Length < M
    BY <2>1 DEF M
  <2> QED BY <2>1, <2>2 DEF M
<1> HIDE DEF e
<1>4. Wrap(At(e, l)) = At(e, l)
  <2>1. At(e, l) < Length
    BY DEF e
  <2>2. At(e, l) < Word * Quarter
    BY <1>2, <1>3, <2>1
  <2> QED BY <1>2, <2>2, Wraps
<1>5. Wrap(At(e, l)) \in Reads(v, i)
  BY ReadsLocations DEF e
<1> QED BY <1>4, <1>5 DEF e

\* What an accepted draw fetched, vertex by vertex, of one location.
LEMMA LocationIsRead ==
  ASSUME Ready, NEW l \in Mask, NEW k \in DOMAIN input.attributes, Has(input.attributes[k], l),
         NEW v \in Nat, NEW i \in Nat,
         At(Of(input.attributes[k], v, i), l) < Length,
         input.attributes[k].rate = 0 => vertex + (v + 1) * input.stride <= Length
  PROVE  LET a == input.attributes[k]
             place == vertex + (IF a.rate = 0 THEN v ELSE i) * input.stride + l
         IN /\ place < Length /\ place \in Reads(v, i)
            /\ a.rate = 0 => vertex + (v + 1) * input.stride <= Length
  BY ReadUnwrapped DEF At, Of

\* The instances of a draw, of which every vertex fetches all.
LEMMA InstancesAreNear ==
  ASSUME Ready, NEW l \in Mask, NEW k \in DOMAIN input.attributes, Has(input.attributes[k], l),
         input.attributes[k].rate # 0,
         NEW v \in Nat, NEW firstInstance \in 0 .. Word - 1, NEW c \in Nat,
         \A j \in 0 .. c - 1 : Fetches(v, firstInstance + j)
  PROVE  \A j \in 0 .. c - 1 : At(firstInstance + j, l) < Length
<1>1. \A j \in 0 .. c - 1 : Wrap(vertex + (firstInstance + j) * input.stride + l) < Length
  <2> SUFFICES ASSUME NEW j \in 0 .. c - 1
               PROVE  Wrap(vertex + (firstInstance + j) * input.stride + l) < Length
    OBVIOUS
  <2>1. firstInstance + j \in Nat
    BY Constants
  <2>2. Wrap(At(Of(input.attributes[k], v, firstInstance + j), l)) \in Reads(v, firstInstance + j)
    BY <2>1, ReadsLocations
  <2> QED BY <2>2 DEF Fetches, Of, At
<1>2. input.stride \in 0 .. Quarter - 1 /\ vertex \in 0 .. Length
  BY InputFacts DEF Ready
<1> QED BY <1>1, <1>2, RowIsNear DEF At

LEMMA ArgumentsAreNat ==
  ASSUME NEW n \in Counts \ {0}, NEW first \in Firsts
  PROVE  n \in Nat \ {0} /\ first \in 0 .. Word - 1 /\ first \in Nat
  BY Constants, DrawsAssumption

LEMMA DrawReads ==
  ASSUME DrawsType, Mask # {},
         NEW n \in Counts \ {0}, NEW c \in Counts \ {0}, NEW first \in Firsts,
         NEW firstInstance \in Firsts, DrawAccepted(n, c, first, firstInstance),
         NEW v \in first .. first + n - 1, NEW i \in firstInstance .. firstInstance + c - 1
  PROVE  ReadsItsInput(v, i)
<1>1. /\ n \in Nat \ {0} /\ c \in Nat \ {0} /\ first \in 0 .. Word - 1 /\ first \in Nat
      /\ firstInstance \in 0 .. Word - 1 /\ firstInstance \in Nat
  BY ArgumentsAreNat
<1>2. /\ InputReady /\ EndFits(first + n)
      /\ \A j \in 0 .. c - 1, u \in 0 .. n - 1 : Fetches(first + u, firstInstance + j)
  BY <1>1 DEF DrawAccepted, VerticesFit
<1>3. Ready
  BY <1>2 DEF InputReady, DrawsType, Ready
<1>4. /\ v - first \in 0 .. n - 1 /\ v = first + (v - first) /\ v \in Nat
      /\ i - firstInstance \in 0 .. c - 1 /\ i = firstInstance + (i - firstInstance) /\ i \in Nat
  BY <1>1
<1>5. ASSUME NEW l \in Mask, NEW k \in DOMAIN input.attributes, Has(input.attributes[k], l)
      PROVE  /\ At(Of(input.attributes[k], v, i), l) < Length
             /\ input.attributes[k].rate = 0 => vertex + (v + 1) * input.stride <= Length
  <2>1. input.stride \in 0 .. Quarter - 1 /\ vertex \in 0 .. Length /\ l \in Nat
    BY <1>3, <1>5, InputFacts DEF Ready
  <2>2. CASE input.attributes[k].rate = 0
    <3>1. \A u \in 0 .. n - 1 : Wrap(vertex + (first + u) * input.stride + l) < Length
      <4> SUFFICES ASSUME NEW u \in 0 .. n - 1
                   PROVE  Wrap(vertex + (first + u) * input.stride + l) < Length
        OBVIOUS
      <4>1. first + u \in Nat /\ Fetches(first + u, i)
        BY <1>1, <1>2, <1>4
      <4>2. Wrap(At(Of(input.attributes[k], first + u, i), l)) \in Reads(first + u, i)
        BY <1>3, <1>4, <1>5, <4>1, ReadsLocations
      <4> QED BY <2>2, <4>1, <4>2 DEF Fetches, Of, At
    <3>2. \A u \in 0 .. n - 1 : vertex + (first + u) * input.stride + l < Length
      BY <1>1, <2>1, <3>1, RowIsNear
    <3>3. Wrap((first + n) * input.stride) <= Length - vertex
      BY <1>2 DEF EndFits
    <3>4. \A u \in 0 .. n - 1 : vertex + (first + u + 1) * input.stride <= Length
      BY <1>1, <2>1, <3>2, <3>3, RowFits
    <3>5. vertex + (first + (v - first)) * input.stride + l < Length
          /\ vertex + (first + (v - first) + 1) * input.stride <= Length
      BY <1>4, <3>2, <3>4
    <3> QED BY <1>4, <2>2, <3>5 DEF At, Of
  <2>3. CASE input.attributes[k].rate # 0
    <3>1. \A j \in 0 .. c - 1 : Fetches(v, firstInstance + j)
      BY <1>2, <1>4
    <3>2. \A j \in 0 .. c - 1 : At(firstInstance + j, l) < Length
      BY <1>1, <1>3, <1>4, <1>5, <2>3, <3>1, InstancesAreNear
    <3>3. At(firstInstance + (i - firstInstance), l) < Length
      BY <1>4, <3>2
    <3> QED BY <1>4, <2>3, <3>3 DEF Of
  <2> QED BY <2>2, <2>3
<1> QED
  BY <1>3, <1>4, <1>5, SomeHas, LocationIsRead DEF ReadsItsInput

LEMMA ElementType ==
  ASSUME DrawsType, index # None, NEW n \in Nat, NEW first \in Nat, IndicesFit(n, first),
         NEW e \in first .. first + n - 1
  PROVE  Element(e) \in 0 .. Word - 1
<1>1. /\ index.offset \in Nat /\ index.width \in {1, 2} /\ Halves \in Nat
      /\ (first + n) * index.width <= Halves - index.offset
      /\ Short \in Nat \ {0} /\ Word = Short * Short
      /\ \A p \in 0 .. Halves - 1 : indices[p] \in 0 .. Short - 1
  BY Constants DEF DrawsType, IndicesFit, Word
<1>2. CASE index.width = 1
  <2>1. index.offset + e * 1 \in 0 .. Halves - 1
    BY <1>1, <1>2
  <2>2. Element(e) \in 0 .. Short - 1
    BY <1>1, <1>2, <2>1 DEF Element
  <2>3. Short <= Word /\ Word \in Nat
    BY ONLY <1>1, Products
  <2> QED BY <1>1, <2>2, <2>3
<1>3. CASE index.width = 2
  <2>1. index.offset + e * 2 \in 0 .. Halves - 1 /\ index.offset + e * 2 + 1 \in 0 .. Halves - 1
    BY <1>1, <1>3
  <2>2. PICK x \in 0 .. Short - 1, y \in 0 .. Short - 1 : Element(e) = x + Short * y
    <3> DEFINE p == index.offset + e * 2
    <3>1. indices[p] \in 0 .. Short - 1 /\ indices[p + 1] \in 0 .. Short - 1
      BY <1>1, <2>1
    <3>2. Element(e) = indices[p] + Short * indices[p + 1]
      BY <1>3 DEF Element
    <3> HIDE DEF p
    <3> QED BY <3>1, <3>2
  <2>3. Short * y \in Nat /\ Short * y <= Short * (Short - 1)
    BY <1>1, Products
  <2>4. Short * (Short - 1) = Word - Short /\ Word \in Nat
    BY ONLY <1>1
  <2> QED BY <1>1, <2>2, <2>3, <2>4
<1> QED BY <1>1, <1>2, <1>3

LEMMA IndexedReads ==
  ASSUME DrawsType, Mask # {},
         NEW n \in Counts \ {0}, NEW c \in Counts \ {0}, NEW first \in Firsts,
         NEW firstInstance \in Firsts, NEW base \in Bases,
         IndexedAccepted(n, c, first, base, firstInstance),
         NEW e \in first .. first + n - 1, NEW i \in firstInstance .. firstInstance + c - 1
  PROVE  ReadsItsInput(Element(e) + base, i)
<1>1. /\ n \in Nat \ {0} /\ c \in Nat \ {0} /\ first \in Nat
      /\ firstInstance \in 0 .. Word - 1 /\ firstInstance \in Nat
  BY ArgumentsAreNat
<1>2. /\ index # None /\ IndicesFit(n, first) /\ InputReady
      /\ IndexedFit(n, c, first, base, firstInstance)
  BY <1>1 DEF IndexedAccepted
<1>3. Ready
  BY <1>2 DEF InputReady, DrawsType, Ready
<1>4. PICK v : v = Element(e) + base
  OBVIOUS
<1>5. v >= 0 /\ EndFits(v + 1) /\ \A j \in 0 .. c - 1 : Fetches(v, firstInstance + j)
  BY <1>2, <1>4 DEF IndexedFit
<1>6. v \in Nat /\ 2 * (v + 1) <= 3 * Word /\ Word \in Nat
  <2>1. Element(e) \in 0 .. Word - 1 /\ Word \in Nat
    BY <1>1, <1>2, ElementType, Constants
  <2>2. base \in Int /\ 2 * base < Word
    BY DrawsAssumption
  <2> QED BY <1>4, <1>5, <2>1, <2>2
<1>7. i - firstInstance \in 0 .. c - 1 /\ i = firstInstance + (i - firstInstance) /\ i \in Nat
  BY <1>1
<1>8. Fetches(v, i)
  BY <1>5, <1>7
<1>9. ASSUME NEW l \in Mask, NEW k \in DOMAIN input.attributes, Has(input.attributes[k], l)
      PROVE  /\ At(Of(input.attributes[k], v, i), l) < Length
             /\ input.attributes[k].rate = 0 => vertex + (v + 1) * input.stride <= Length
  <2>1. /\ input.stride \in 0 .. Quarter - 1 /\ input.stride \in Nat /\ vertex \in 0 .. Length
        /\ vertex \in Nat /\ Length \in Nat /\ l \in Nat /\ l < input.stride
    BY <1>3, <1>9, InputFacts DEF Ready
  <2>2. CASE input.attributes[k].rate = 0
    <3>1. Wrap(At(Of(input.attributes[k], v, i), l)) \in Reads(v, i)
      BY <1>3, <1>6, <1>7, <1>9, ReadsLocations
    <3>2. Wrap(vertex + v * input.stride + l) < Length
      BY <1>8, <2>2, <3>1 DEF Fetches, Of, At
    <3>3. Wrap((v + 1) * input.stride) <= Length - vertex
      BY <1>5 DEF EndFits
    <3>4. vertex + (v + 1) * input.stride <= Length
      BY <1>6, <2>1, <3>2, <3>3, IndexedFits
    <3>5. v * input.stride \in Nat /\ (v + 1) * input.stride = v * input.stride + input.stride
      BY <1>6, <2>1, NextProduct
    <3>6. vertex + v * input.stride + l < Length
      BY <2>1, <3>4, <3>5
    <3> QED BY <2>2, <3>4, <3>6 DEF At, Of
  <2>3. CASE input.attributes[k].rate # 0
    <3>1. \A j \in 0 .. c - 1 : At(firstInstance + j, l) < Length
      BY <1>1, <1>3, <1>5, <1>6, <1>9, <2>3, InstancesAreNear
    <3>2. At(firstInstance + (i - firstInstance), l) < Length
      BY <1>7, <3>1
    <3> QED BY <1>7, <2>3, <3>2 DEF Of
  <2> QED BY <2>2, <2>3
<1>10. ReadsItsInput(v, i)
  BY <1>3, <1>6, <1>7, <1>9, SomeHas, LocationIsRead DEF ReadsItsInput
<1> QED
  BY <1>4, <1>10

-----------------------------------------------------------------------------

LEMMA DrawsInit == DInit => DrawsType
  BY DrawsAssumption DEF DInit, DrawsType, PushBlock

LEMMA DrawsStep == DrawsType /\ [DNext]_dvars => DrawsType'
<1>1. ASSUME DrawsType, UNCHANGED dvars
      PROVE  DrawsType'
  BY <1>1 DEF dvars, DrawsType
<1> QED BY <1>1, BindTyped, PlanTyped DEF DNext

LEMMA TypedDrawsRead == DrawsType => DrawsReadTheirVertices
<1> SUFFICES ASSUME DrawsType PROVE DrawsReadTheirVertices
  OBVIOUS
<1>1. Launched \subseteq 0 .. PushBlock - 1
  BY DEF DrawsType, Launched, PushBlock
<1>2. ASSUME Mask # {}, NEW n \in Counts \ {0}, NEW c \in Counts \ {0}, NEW first \in Firsts,
             NEW firstInstance \in Firsts
      PROVE  /\ DrawAccepted(n, c, first, firstInstance) =>
                  \A v \in first .. first + n - 1, i \in firstInstance .. firstInstance + c - 1 :
                    ReadsItsInput(v, i)
             /\ \A base \in Bases : IndexedAccepted(n, c, first, base, firstInstance) =>
                  \A e \in first .. first + n - 1, i \in firstInstance .. firstInstance + c - 1 :
                    ReadsItsInput(Element(e) + base, i)
  BY <1>2, DrawReads, IndexedReads
<1> QED BY <1>1, <1>2 DEF DrawsReadTheirVertices

\* Whatever the arguments of a draw do to products of 64 bits: one that is not
\* refused fetched each location of the shader from where it is, inside the
\* vertex buffer, and copies no more constants than its block holds.
THEOREM DrawsStayInside == DSpec => []DrawsReadTheirVertices
<1>1. DInit => DrawsType
  BY DrawsInit
<1>2. DrawsType /\ [DNext]_dvars => DrawsType'
  BY DrawsStep
<1>3. DrawsType => DrawsReadTheirVertices
  BY TypedDrawsRead
<1> QED BY <1>1, <1>2, <1>3, PTL DEF DSpec

-----------------------------------------------------------------------------
(* Clears in windows.                                                      *)

LEMMA Quotient ==
  ASSUME NEW A \in Nat \ {0}, NEW a \in Nat
  PROVE  /\ a = A * (a \div A) + (a % A) /\ a \div A \in Nat /\ a % A \in 0 .. A - 1
  BY SMTT(20)

LEMMA Multiples ==
  ASSUME NEW A \in Nat \ {0}, NEW k \in Int
  PROVE  (A * k) % A = 0
  BY SMTT(20)

LEMMA Grows ==
  ASSUME NEW A \in Nat, NEW j \in Int, NEW k \in Int, j <= k
  PROVE  A * j <= A * k
  BY SMTT(20)

LEMMA Cancels ==
  ASSUME NEW A \in Nat \ {0}, NEW j \in Int, NEW k \in Int
  PROVE  /\ A * j <= A * k => j <= k
         /\ A * j < A * k => j < k
         /\ j < k => A * j + A <= A * k
  BY SMTT(20)

LEMMA MultiplesAdd ==
  ASSUME NEW A \in Nat \ {0}, NEW a \in Nat, NEW b \in Nat, a % A = 0
  PROVE  /\ b % A = 0 => (a + b) % A = 0 /\ (a >= b => (a - b) % A = 0)
         /\ b < A => (a + b) % A = b
<1> DEFINE j == a \div A
           k == b \div A
<1>1. a = A * j /\ j \in Nat /\ k \in Nat /\ (b % A = 0 => b = A * k)
  BY Quotient
<1> HIDE DEF j, k
<1>2. ASSUME b % A = 0 PROVE (a + b) % A = 0 /\ (a >= b => (a - b) % A = 0)
  <2>1. a + b = A * (j + k) /\ a - b = A * (j - k) /\ j + k \in Int /\ j - k \in Int
    BY <1>1, <1>2
  <2> QED BY <2>1, Multiples
<1>3. ASSUME b < A PROVE (a + b) % A = b
  BY <1>1, <1>3, SMTT(20)
<1> QED
  BY <1>2, <1>3

Results == {"running", "OK", "OUT_OF_RANGE", "OVERFLOW"}

TilingType ==
  /\ scissor \in [x : Nat, y : Nat, width : Nat \ {0}, height : Nat \ {0}]
  /\ pitch \in Nat /\ scissor.x + scissor.width <= pitch
  /\ tileX \in Nat /\ tileY \in Nat /\ credit \in Nat /\ result \in Results

Rectangle(x, y, width, height) == [x |-> x, y |-> y, width |-> width, height |-> height]

\* The rows of the current band.
Band == Least(MaxRows, scissor.height - tileY)

\* The pixels of the bands that are done, and of the columns done in this one.
Above == Rectangle(scissor.x, scissor.y, scissor.width, tileY)
Beside == Rectangle(scissor.x, scissor.y + tileY, tileX, Band)

\* The loops go from left to right and from top to bottom, by whole columns and
\* whole bands.
InOrder ==
  /\ tileY < scissor.height /\ tileX < scissor.width
  /\ tileY % MaxRows = 0 /\ tileX % ClearDwords = 0
  /\ FitsWriteData(scissor) => tileX = 0 /\ tileY = 0
  /\ painted = Area(Above) \cup Area(Beside)

\* A last band of one row that starts with a grid.
Lonely ==
  /\ scissor.height % MaxRows = 1 /\ scissor.width > ClearDwords
  /\ \/ scissor.width >= ClearDwords * MaxCols
     \/ scissor.width % ClearDwords = 0

Tiling ==
  /\ TilingType /\ painted \subseteq Area(scissor)
  /\ result = "running" => InOrder /\ (Lonely /\ tileY + MaxRows >= scissor.height => tileX = 0)
  /\ result = "OK" => painted = Area(scissor) /\ ~Lonely
  /\ result = "OUT_OF_RANGE" => Lonely /\ Window.height = 1

\* The greatest width of a window is that of so many columns.
LEMMA GridWidth ==
  /\ ClearDwords * MaxCols \in Nat /\ ClearDwords * MaxCols >= 2 * ClearDwords
  /\ (ClearDwords * MaxCols) % ClearDwords = 0
<1>1. ClearDwords \in Nat \ {0} /\ MaxCols \in Nat /\ 2 <= MaxCols
  BY TilingAssumption
<1>2. ClearDwords * 2 <= ClearDwords * MaxCols
  BY <1>1, Grows
<1> QED
  BY <1>1, <1>2, Multiples

\* The next window starts where the last ended, and ends a column or the band.
WindowFits(w) ==
  /\ w = Rectangle(scissor.x + tileX, scissor.y + tileY, w.width, Band)
  /\ w.width \in Nat \ {0} /\ Band \in Nat \ {0} /\ Band <= MaxRows
  /\ tileX + w.width <= scissor.width /\ tileY + Band <= scissor.height
  /\ w.width <= ClearDwords * MaxCols
  /\ w.width > ClearDwords => w.width % ClearDwords = 0
  /\ tileX + w.width < scissor.width => w.width \in {ClearDwords, ClearDwords * MaxCols}
  /\ tileX = 0 /\ Lonely => w.width > ClearDwords

LEMMA WindowIs == ASSUME TilingType, InOrder PROVE WindowFits(Window)
<1> DEFINE C == ClearDwords
           P == ClearDwords * MaxCols
           w == Window
           rest == scissor.width - tileX
<1>1. C \in Nat \ {0} /\ MaxRows \in Nat /\ MaxRows > 1 /\ P \in Nat /\ P >= 2 * C /\ P % C = 0
  BY TilingAssumption, GridWidth
<1>2. /\ scissor = Rectangle(scissor.x, scissor.y, scissor.width, scissor.height)
      /\ scissor.x \in Nat /\ scissor.y \in Nat /\ scissor.width \in Nat \ {0} /\ scissor.height \in Nat \ {0}
      /\ tileX \in Nat /\ tileY \in Nat /\ tileX < scissor.width /\ tileY < scissor.height
  BY DEF TilingType, InOrder, Rectangle
<1>3. Band \in Nat \ {0} /\ Band <= MaxRows /\ tileY + Band <= scissor.height
  BY <1>1, <1>2 DEF Band, Least
<1> HIDE DEF P
<1>4. CASE FitsWriteData(scissor)
  <2>1. w = scissor /\ tileX = 0 /\ tileY = 0
    BY <1>4 DEF Window, InOrder
  <2>2. Band = scissor.height /\ scissor.width <= P /\ (scissor.width > C => scissor.width % C = 0)
    BY <1>1, <1>2, <1>4, <2>1 DEF FitsWriteData, Band, Least, P
  <2>3. scissor.x + tileX = scissor.x /\ scissor.y + tileY = scissor.y
    BY <1>2, <2>1
  <2>4. WindowFits(scissor)
    BY <1>1, <1>2, <1>3, <2>1, <2>2, <2>3 DEF WindowFits, Lonely, P
  <2> QED BY <2>1, <2>4
<1>5. CASE ~FitsWriteData(scissor)
  <2>1. w = Rectangle(scissor.x + tileX, scissor.y + tileY, TileWidth(rest), Band)
    BY <1>5 DEF Window, Rectangle, Band
  <2>2. /\ TileWidth(rest) \in Nat \ {0} /\ TileWidth(rest) <= rest /\ TileWidth(rest) <= P
        /\ TileWidth(rest) > C => TileWidth(rest) % C = 0
        /\ TileWidth(rest) < rest => TileWidth(rest) \in {C, P}
        /\ rest > C /\ (rest >= P \/ rest % C = 0) => TileWidth(rest) > C
    BY <1>1, <1>2 DEF TileWidth, Least, P
  <2>3. tileX = 0 /\ Lonely => TileWidth(rest) > C
    <3>1. tileX = 0 => rest = scissor.width
      BY <1>2
    <3> HIDE DEF rest
    <3> QED BY <2>2, <3>1 DEF Lonely, P
  <2>4. w.width = TileWidth(rest)
    BY <2>1 DEF Rectangle
  <2> HIDE DEF w
  <2>5. tileX + w.width <= scissor.width /\ (tileX + w.width < scissor.width => w.width \in {C, P})
    BY <1>1, <1>2, <2>2, <2>4
  <2>6. WindowFits(w)
    BY <1>3, <2>1, <2>2, <2>3, <2>4, <2>5 DEF WindowFits, P
  <2> QED BY <2>6 DEF w
<1> QED
  BY <1>4, <1>5

\* The pixels of a rectangle are those of its rows and columns.
LEMMA PixelsOf ==
  ASSUME NEW x, NEW y, NEW width, NEW height, NEW n
  PROVE  n \in Area(Rectangle(x, y, width, height)) <=>
           \E a \in x .. x + width - 1 : \E b \in y .. y + height - 1 : n = Pixel(a, b)
  BY DEF Area, Rectangle

\* No two pixels of an image have one address.
LEMMA PixelsApart ==
  ASSUME pitch \in Nat, NEW a \in Nat, NEW b \in Nat, NEW c \in Nat, NEW d \in Nat,
         a < pitch, c < pitch, Pixel(a, b) = Pixel(c, d)
  PROVE  a = c /\ b = d
<1>1. pitch \in Nat \ {0} /\ pitch * b + a = pitch * d + c
  BY DEF Pixel
<1>2. ASSUME NEW j \in Nat, NEW k \in Nat, NEW m \in Nat, NEW n \in Nat, m < pitch, j < k
      PROVE  pitch * j + m # pitch * k + n
  <2>1. pitch * j + pitch <= pitch * k
    BY <1>1, <1>2, Cancels
  <2> QED BY <1>1, <1>2, <2>1
<1>3. b = d
  BY <1>1, <1>2
<1> QED
  BY <1>1, <1>3

\* Rows as wide as the pitch follow each other.
LEMMA RowsFollow ==
  ASSUME pitch \in Nat \ {0}, NEW y \in Nat, NEW h \in Nat
  PROVE  Area(Rectangle(0, y, pitch, h)) = Pixel(0, y) .. Pixel(0, y) + pitch * h - 1
<1>1. ASSUME NEW a \in 0 .. pitch - 1, NEW b \in y .. y + h - 1
      PROVE  Pixel(a, b) \in Pixel(0, y) .. Pixel(0, y) + pitch * h - 1
  <2>1. pitch * y <= pitch * b /\ pitch * b + pitch <= pitch * (y + h)
    BY Grows, Cancels
  <2> QED BY <2>1 DEF Pixel
<1>2. ASSUME NEW n \in Pixel(0, y) .. Pixel(0, y) + pitch * h - 1
      PROVE  \E a \in 0 .. pitch - 1 : \E b \in y .. y + h - 1 : n = Pixel(a, b)
  <2> DEFINE m == n - Pixel(0, y)
             a == m % pitch
             k == m \div pitch
  <2>1. m \in Nat /\ m < pitch * h /\ n = pitch * y + m
    BY DEF Pixel
  <2>2. m = pitch * k + a /\ k \in Nat /\ a \in 0 .. pitch - 1
    BY <2>1, Quotient
  <2> HIDE DEF m, k, a
  <2>3. pitch * k < pitch * h
    BY <2>1, <2>2
  <2>4. k < h
    BY <2>2, <2>3, Cancels
  <2>5. y + k \in y .. y + h - 1 /\ n = Pixel(a, y + k)
    BY <2>1, <2>2, <2>4 DEF Pixel
  <2> QED BY <2>2, <2>5
<1>3. \A n : n \in Area(Rectangle(0, y, pitch, h)) <=>
               \E a \in 0 .. 0 + pitch - 1 : \E b \in y .. y + h - 1 : n = Pixel(a, b)
  BY PixelsOf
<1>4. 0 .. 0 + pitch - 1 = 0 .. pitch - 1
  OBVIOUS
<1> DEFINE S == Pixel(0, y) .. Pixel(0, y) + pitch * h - 1
           A == Area(Rectangle(0, y, pitch, h))
<1>5. ASSUME NEW n
      PROVE  n \in A <=> n \in S
  <2>1. ASSUME n \in A PROVE n \in S
    <3>1. PICK a \in 0 .. pitch - 1, b \in y .. y + h - 1 : n = Pixel(a, b)
      BY <1>3, <1>4, <2>1
    <3> QED BY <1>1, <3>1
  <2>2. ASSUME n \in S PROVE n \in A
    BY <1>2, <1>3, <1>4, <2>2
  <2> QED BY <2>1, <2>2
<1> HIDE DEF S, A
<1>6. A = S
  BY <1>5
<1> QED
  BY <1>6 DEF S, A

\* What a packet writes is its window, and the device takes it unless it is one
\* row of a grid.
LEMMA WindowWritten ==
  ASSUME TilingType, NEW w, WindowFits(w), InOrder
  PROVE  /\ Touches(w) = Area(w)
         /\ Takes(w) <=> ~(w.height = 1 /\ w.width > ClearDwords)
<1> DEFINE C == ClearDwords
<1>1. /\ C \in Nat \ {0} /\ MaxRows \in Nat /\ MaxCols \in Nat
      /\ pitch \in Nat /\ scissor.x \in Nat /\ scissor.y \in Nat /\ scissor.x + scissor.width <= pitch
      /\ scissor.width \in Nat /\ scissor.height \in Nat /\ tileX \in Nat /\ tileY \in Nat
  BY TilingAssumption DEF TilingType
<1>2. PICK x \in Nat, y \in Nat, width \in Nat \ {0}, height \in Nat \ {0} :
        /\ w = Rectangle(x, y, width, height) /\ x + width <= pitch /\ height <= MaxRows
        /\ width <= C * MaxCols /\ (width > C => width % C = 0)
  <2> DEFINE a == scissor.x + tileX
             b == scissor.y + tileY
             v == w.width
  <2>1. w = Rectangle(a, b, v, Band) /\ v <= C * MaxCols /\ (v > C => v % C = 0) /\ Band <= MaxRows
    BY DEF WindowFits
  <2>2. /\ a \in Nat /\ b \in Nat /\ v \in Nat \ {0} /\ Band \in Nat \ {0}
        /\ a + v <= scissor.x + scissor.width
    BY <1>1 DEF WindowFits
  <2>3. a + v <= pitch
    BY <1>1, <2>2
  <2> HIDE DEF a, b, v, C
  <2> QED BY <2>1, <2>2, <2>3
<1>3. w.x = x /\ w.y = y /\ w.width = width /\ w.height = height
  BY <1>2 DEF Rectangle
<1>4. width > C => Columns(w) * C = width /\ Columns(w) <= MaxCols /\ Columns(w) \in Nat
  <2> SUFFICES ASSUME width > C PROVE Columns(w) * C = width /\ Columns(w) <= MaxCols /\ Columns(w) \in Nat
    OBVIOUS
  <2> DEFINE k == width \div C
  <2>1. width = C * k /\ k \in Nat
    <3>1. width = C * k + (width % C) /\ k \in Nat
      BY <1>1, <1>2, Quotient
    <3>2. width % C = 0
      BY <1>2
    <3> HIDE DEF k
    <3> QED BY <1>1, <3>1, <3>2
  <2>2. k = Columns(w)
    BY <1>3 DEF Columns
  <2> HIDE DEF k
  <2>3. k <= MaxCols
    BY <1>1, <1>2, <2>1, Cancels
  <2> QED BY <1>1, <2>1, <2>2, <2>3
<1>5. Touches(w) = Area(w)
  <2>1. CASE IsRun(w) /\ height = 1
    <3>1. Touches(w) = Pixel(x, y) .. Pixel(x, y) + width - 1
      BY <1>2, <1>3, <2>1 DEF Touches
    <3>2. \A n : n \in Area(w) <=> \E a \in x .. x + width - 1 : \E b \in y .. y + 1 - 1 : n = Pixel(a, b)
      BY <1>2, <2>1, PixelsOf
    <3>3. \A n : n \in Area(w) <=> \E a \in x .. x + width - 1 : n = Pixel(a, y)
      BY <1>2, <3>2
    <3>4. Pixel(x, y) \in Nat /\ \A a : Pixel(a, y) = y * pitch + a
      BY <1>1, <1>2 DEF Pixel
    <3>5. y * pitch \in Nat
      BY <1>1, <1>2
    <3>6. \A n : n \in Area(w) <=> n \in Pixel(x, y) .. Pixel(x, y) + width - 1
      <4> TAKE n
      <4>1. ASSUME n \in Area(w) PROVE n \in Pixel(x, y) .. Pixel(x, y) + width - 1
        BY <1>1, <1>2, <3>3, <3>4, <3>5, <4>1
      <4>2. ASSUME n \in Pixel(x, y) .. Pixel(x, y) + width - 1 PROVE n \in Area(w)
        <5>1. n - y * pitch \in x .. x + width - 1 /\ n = Pixel(n - y * pitch, y)
          BY <1>1, <1>2, <3>4, <3>5, <4>2
        <5> QED BY <3>3, <5>1
      <4> QED BY <4>1, <4>2
    <3> QED BY <3>1, <3>6
  <2>2. CASE IsRun(w) /\ height # 1
    <3>1. x = 0 /\ width = pitch
      BY <1>3, <2>2 DEF IsRun
    <3>2. Touches(w) = Pixel(0, y) .. Pixel(0, y) + pitch * height - 1
      BY <1>3, <2>2, <3>1 DEF Touches
    <3> QED BY <1>1, <1>2, <3>1, <3>2, RowsFollow
  <2>3. CASE IsGrid(w)
    <3>1. width > C /\ ~IsRun(w)
      BY <1>3, <2>3 DEF IsGrid
    <3>2. [w EXCEPT !.width = Columns(w) * ClearDwords] = w
      BY <1>2, <1>4, <3>1 DEF Rectangle
    <3> QED BY <2>3, <3>1, <3>2 DEF Touches
  <2>4. CASE ~IsRun(w) /\ ~IsGrid(w)
    <3>1. [w EXCEPT !.width = w.width] = w
      BY <1>2, <1>3 DEF Rectangle
    <3> QED BY <2>4, <3>1 DEF Touches
  <2> QED BY <2>1, <2>2, <2>3, <2>4 DEF IsGrid
<1>6. Takes(w) <=> ~(height = 1 /\ width > C)
  <2>1. CASE height = 1
    <3>1. IsRun(w) /\ w.width * w.height = width
      BY <1>2, <1>3, <2>1 DEF IsRun
    <3>2. Takes(w) <=> width \in 1 .. C
      BY <3>1 DEF Takes, TakesRun, IsGrid
    <3> QED BY <1>1, <1>2, <2>1, <3>2
  <2>2. CASE height # 1 /\ IsRun(w)
    <3>1. width * height \in Nat /\ width * height <= C /\ width * height # 0
      <4>1. width * 1 <= width * height /\ width * height \in Nat
        BY <1>2, Grows
      <4> QED BY <1>2, <1>3, <2>2, <4>1 DEF IsRun
    <3>2. Takes(w) <=> width * height \in 1 .. C
      BY <1>3, <2>2 DEF Takes, TakesRun, IsGrid
    <3> QED BY <1>1, <2>2, <3>1, <3>2
  <2>3. CASE height # 1 /\ IsGrid(w)
    <3>1. width > C /\ ~IsRun(w)
      BY <1>3, <2>3 DEF IsGrid
    <3>2. width <= pitch
      BY <1>1, <1>2
    <3> QED BY <1>2, <1>3, <1>4, <2>3, <3>1, <3>2 DEF Takes, TakesGrid
  <2>4. CASE height # 1 /\ ~IsRun(w) /\ ~IsGrid(w)
    <3>1. width <= pitch
      BY <1>1, <1>2
    <3> QED BY <1>2, <1>3, <2>4, <3>1 DEF Takes, TakesRows
  <2> QED BY <2>1, <2>2, <2>3, <2>4
<1> QED
  BY <1>3, <1>5, <1>6

\* A rectangle without columns or rows has no pixels, and one that is widened or
\* made taller has the pixels of both parts.
Splits(r, s, t) == Area(s) \cup Area(t) = Area(r)

LEMMA NoPixels ==
  ASSUME NEW x \in Nat, NEW y \in Nat, NEW width \in Nat, NEW height \in Nat, width = 0 \/ height = 0
  PROVE  Area(Rectangle(x, y, width, height)) = {}
<1>1. \A n : n \notin Area(Rectangle(x, y, width, height))
  BY PixelsOf
<1> QED
  BY <1>1

LEMMA Wider ==
  ASSUME NEW x \in Nat, NEW y \in Nat, NEW a \in Nat, NEW b \in Nat, NEW h \in Nat,
         NEW z \in Nat, z = x + a, NEW c \in Nat, c = a + b
  PROVE  Splits(Rectangle(x, y, c, h), Rectangle(x, y, a, h), Rectangle(z, y, b, h))
<1> DEFINE L == Area(Rectangle(x, y, a, h))
           R == Area(Rectangle(z, y, b, h))
           W == Area(Rectangle(x, y, c, h))
<1>1. ASSUME NEW n PROVE n \in W <=> n \in L \/ n \in R
  <2>1. n \in W <=> \E e \in x .. x + c - 1 : \E d \in y .. y + h - 1 : n = Pixel(e, d)
    BY PixelsOf
  <2>2. n \in L <=> \E e \in x .. x + a - 1 : \E d \in y .. y + h - 1 : n = Pixel(e, d)
    BY PixelsOf
  <2>3. n \in R <=> \E e \in z .. z + b - 1 : \E d \in y .. y + h - 1 : n = Pixel(e, d)
    BY PixelsOf
  <2>4. x .. x + c - 1 = (x .. x + a - 1) \cup (z .. z + b - 1)
    OBVIOUS
  <2> HIDE DEF L, R, W
  <2> QED BY <2>1, <2>2, <2>3, <2>4
<1> HIDE DEF L, R, W
<1>2. L \cup R = W
  BY <1>1
<1> QED
  BY <1>2 DEF L, R, W, Splits

LEMMA Taller ==
  ASSUME NEW x \in Nat, NEW y \in Nat, NEW a \in Nat, NEW b \in Nat, NEW w \in Nat,
         NEW z \in Nat, z = y + a, NEW c \in Nat, c = a + b
  PROVE  Splits(Rectangle(x, y, w, c), Rectangle(x, y, w, a), Rectangle(x, z, w, b))
<1> DEFINE U == Area(Rectangle(x, y, w, a))
           D == Area(Rectangle(x, z, w, b))
           T == Area(Rectangle(x, y, w, c))
<1>1. ASSUME NEW n PROVE n \in T <=> n \in U \/ n \in D
  <2>1. n \in T <=> \E e \in x .. x + w - 1 : \E d \in y .. y + c - 1 : n = Pixel(e, d)
    BY PixelsOf
  <2>2. n \in U <=> \E e \in x .. x + w - 1 : \E d \in y .. y + a - 1 : n = Pixel(e, d)
    BY PixelsOf
  <2>3. n \in D <=> \E e \in x .. x + w - 1 : \E d \in z .. z + b - 1 : n = Pixel(e, d)
    BY PixelsOf
  <2>4. y .. y + c - 1 = (y .. y + a - 1) \cup (z .. z + b - 1)
    OBVIOUS
  <2> HIDE DEF U, D, T
  <2> QED BY <2>1, <2>2, <2>3, <2>4
<1> HIDE DEF U, D, T
<1>2. U \cup D = T
  BY <1>1
<1> QED
  BY <1>2 DEF U, D, T, Splits

LEMMA Within ==
  ASSUME NEW x \in Nat, NEW y \in Nat, NEW w \in Nat, NEW h \in Nat,
         NEW a \in Nat, NEW b \in Nat, NEW v \in Nat, NEW g \in Nat,
         x <= a, a + v <= x + w, y <= b, b + g <= y + h
  PROVE  Area(Rectangle(a, b, v, g)) \subseteq Area(Rectangle(x, y, w, h))
<1>1. a .. a + v - 1 \subseteq x .. x + w - 1 /\ b .. b + g - 1 \subseteq y .. y + h - 1
  OBVIOUS
<1>2. ASSUME NEW n, n \in Area(Rectangle(a, b, v, g)) PROVE n \in Area(Rectangle(x, y, w, h))
  <2>1. PICK c \in a .. a + v - 1, d \in b .. b + g - 1 : n = Pixel(c, d)
    BY <1>2, PixelsOf
  <2>2. c \in x .. x + w - 1 /\ d \in y .. y + h - 1
    BY <1>1
  <2>3. n \in Area(Rectangle(x, y, w, h)) <=>
          \E e \in x .. x + w - 1 : \E f \in y .. y + h - 1 : n = Pixel(e, f)
    BY PixelsOf
  <2> QED BY <2>1, <2>2, <2>3
<1> QED
  BY <1>2

Apart(r, s) == Area(r) \cap Area(s) = {}

\* Two rectangles of an image, one to the left of the other or above it, share
\* no address.
LEMMA Disjoint ==
  ASSUME pitch \in Nat,
         NEW x \in Nat, NEW y \in Nat, NEW w \in Nat, NEW h \in Nat, x + w <= pitch,
         NEW a \in Nat, NEW b \in Nat, NEW v \in Nat, NEW g \in Nat, a + v <= pitch,
         x + w <= a \/ y + h <= b
  PROVE  Apart(Rectangle(x, y, w, h), Rectangle(a, b, v, g))
<1>1. ASSUME NEW n, n \in Area(Rectangle(x, y, w, h)), n \in Area(Rectangle(a, b, v, g))
      PROVE  FALSE
  <2>1. PICK c \in x .. x + w - 1, d \in y .. y + h - 1 : n = Pixel(c, d)
    BY <1>1, PixelsOf
  <2>2. PICK e \in a .. a + v - 1, f \in b .. b + g - 1 : n = Pixel(e, f)
    BY <1>1, PixelsOf
  <2>3. c \in Nat /\ d \in Nat /\ e \in Nat /\ f \in Nat /\ c < pitch /\ e < pitch
    OBVIOUS
  <2>4. c = e /\ d = f
    BY <2>1, <2>2, <2>3, PixelsApart
  <2> QED BY <2>4
<1> QED
  BY <1>1 DEF Apart

LEMMA TilingStarts == TInit => Tiling
<1> SUFFICES ASSUME TInit PROVE Tiling
  OBVIOUS
<1>1. PICK w \in Widths, h \in Heights, left \in Margins, right \in Margins, above \in Margins :
        /\ scissor = Rectangle(left, above, w, h) /\ pitch = left + w + right
        /\ tileX = 0 /\ tileY = 0 /\ painted = {}
        /\ credit \in Credits /\ result = "running"
  BY DEF TInit, Rectangle
<1>2. /\ w \in Nat \ {0} /\ h \in Nat \ {0} /\ left \in Nat /\ right \in Nat /\ above \in Nat /\ credit \in Nat
      /\ MaxRows \in Nat \ {0} /\ ClearDwords \in Nat \ {0}
  BY <1>1, TilingAssumption
<1>3. scissor.x = left /\ scissor.y = above /\ scissor.width = w /\ scissor.height = h
  BY <1>1 DEF Rectangle
<1>4. TilingType
  BY <1>1, <1>2, <1>3 DEF TilingType, Rectangle, Results
<1>5. 0 % MaxRows = 0 /\ 0 % ClearDwords = 0
  <2>1. MaxRows * 0 = 0 /\ ClearDwords * 0 = 0 /\ 0 \in Int
    BY <1>2
  <2> QED BY <1>2, <2>1, Multiples
<1>6. Area(Above) = {} /\ Area(Beside) = {}
  <2>1. Band \in Nat /\ above + 0 \in Nat
    BY <1>1, <1>2, <1>3 DEF Band, Least
  <2> QED BY <1>1, <1>2, <1>3, <2>1, NoPixels DEF Above, Beside
<1>7. InOrder
  BY <1>1, <1>2, <1>3, <1>5, <1>6 DEF InOrder
<1> QED
  BY <1>1, <1>4, <1>7 DEF Tiling

\* The next window of a running clear lies in the scissor, and nothing in it has
\* been painted.
LEMMA InScissor ==
  ASSUME TilingType, InOrder, NEW w, WindowFits(w)
  PROVE  /\ Area(w) \subseteq Area(scissor)
         /\ Area(w) \cap painted = {}
<1>1. /\ scissor = Rectangle(scissor.x, scissor.y, scissor.width, scissor.height)
      /\ scissor.x \in Nat /\ scissor.y \in Nat /\ scissor.width \in Nat /\ scissor.height \in Nat
      /\ tileX \in Nat /\ tileY \in Nat /\ pitch \in Nat /\ scissor.x + scissor.width <= pitch
      /\ tileX < scissor.width /\ tileY < scissor.height
  BY DEF TilingType, InOrder, Rectangle
<1>2. /\ w = Rectangle(scissor.x + tileX, scissor.y + tileY, w.width, Band)
      /\ w.width \in Nat /\ Band \in Nat
      /\ tileX + w.width <= scissor.width /\ tileY + Band <= scissor.height
  BY DEF WindowFits
<1> DEFINE x == scissor.x
           y == scissor.y
           a == scissor.x + tileX
           b == scissor.y + tileY
           v == w.width
<1>3. /\ x \in Nat /\ y \in Nat /\ a \in Nat /\ b \in Nat /\ v \in Nat
      /\ x <= a /\ a + v <= x + scissor.width /\ y <= b /\ b + Band <= y + scissor.height
      /\ a + v <= pitch /\ x + tileX <= a /\ y + tileY <= b /\ x + tileX <= pitch
  BY <1>1, <1>2
<1>4. w = Rectangle(a, b, v, Band) /\ Above = Rectangle(x, y, scissor.width, tileY)
      /\ Beside = Rectangle(x, b, tileX, Band) /\ scissor = Rectangle(x, y, scissor.width, scissor.height)
  BY <1>1, <1>2 DEF Above, Beside
<1> HIDE DEF x, y, a, b, v
<1>5. Area(w) \subseteq Area(scissor)
  <2>1. Area(Rectangle(a, b, v, Band)) \subseteq Area(Rectangle(x, y, scissor.width, scissor.height))
    BY <1>1, <1>2, <1>3, Within
  <2> QED BY <1>4, <2>1
<1>6. Area(Above) \cap Area(w) = {}
  <2>1. x + scissor.width <= pitch
    BY <1>1 DEF x
  <2>2. scissor.width \in Nat /\ tileY \in Nat /\ Band \in Nat /\ pitch \in Nat
        /\ (x + scissor.width <= a \/ y + tileY <= b)
    BY <1>1, <1>2, <1>3
  <2>3. Apart(Rectangle(x, y, scissor.width, tileY), Rectangle(a, b, v, Band))
    BY <1>3, <2>1, <2>2, Disjoint
  <2> QED BY <1>4, <2>3 DEF Apart
<1>7. Area(Beside) \cap Area(w) = {}
  <2>1. tileX \in Nat /\ Band \in Nat /\ pitch \in Nat /\ (x + tileX <= a \/ b + Band <= b)
    BY <1>1, <1>2, <1>3
  <2>2. Apart(Rectangle(x, b, tileX, Band), Rectangle(a, b, v, Band))
    BY <1>3, <2>1, Disjoint
  <2> QED BY <1>4, <2>2 DEF Apart
<1> QED
  BY <1>5, <1>6, <1>7 DEF InOrder

LEMMA WritePaints == ASSUME Tiling, Write PROVE Tiling'
<1> DEFINE w == Window
           last == tileX + w.width >= scissor.width
           C == ClearDwords
<1>1. /\ TilingType /\ InOrder /\ result = "running" /\ painted \subseteq Area(scissor)
      /\ Lonely /\ tileY + MaxRows >= scissor.height => tileX = 0
  BY DEF Tiling, Write
<1>2. WindowFits(w)
  BY <1>1, WindowIs
<1>3. Touches(w) = Area(w) /\ ~(w.height = 1 /\ w.width > C)
  BY <1>1, <1>2, WindowWritten DEF Write
<1>4. /\ painted' = painted \cup Area(w) /\ credit \in Nat /\ credit' \in Nat
      /\ tileX' = IF last THEN 0 ELSE tileX + w.width
      /\ tileY' = IF last THEN tileY + MaxRows ELSE tileY
      /\ result' = IF last /\ tileY + MaxRows >= scissor.height THEN "OK" ELSE "running"
      /\ scissor' = scissor /\ pitch' = pitch
  BY <1>1, <1>3 DEF Write, Advance, TilingType
<1>5. FitsWriteData(scissor) => w = scissor
  BY DEF Window
<1> HIDE DEF w
<1>6. /\ C \in Nat \ {0} /\ MaxRows \in Nat /\ MaxRows > 1
      /\ scissor = Rectangle(scissor.x, scissor.y, scissor.width, scissor.height)
      /\ scissor.x \in Nat /\ scissor.y \in Nat /\ scissor.width \in Nat \ {0} /\ scissor.height \in Nat \ {0}
      /\ tileX \in Nat /\ tileY \in Nat /\ tileX < scissor.width /\ tileY < scissor.height
      /\ tileX % C = 0 /\ tileY % MaxRows = 0
  BY <1>1, TilingAssumption DEF TilingType, InOrder, Rectangle
<1>7. /\ w = Rectangle(scissor.x + tileX, scissor.y + tileY, w.width, Band) /\ w.height = Band
      /\ w.width \in Nat \ {0} /\ Band \in Nat \ {0} /\ Band <= MaxRows
      /\ tileX + w.width <= scissor.width /\ tileY + Band <= scissor.height
      /\ tileX + w.width < scissor.width => w.width \in {C, C * MaxCols}
      /\ tileX = 0 /\ Lonely => w.width > C
  BY <1>2 DEF WindowFits, Rectangle
<1>8. TilingType'
  BY <1>1, <1>4, <1>6, <1>7 DEF TilingType, Results
<1>9. (painted \subseteq Area(scissor))'
  <2>1. Area(w) \subseteq Area(scissor)
    BY <1>1, <1>2, InScissor
  <2>2. Area(scissor)' = Area(scissor)
    BY <1>4 DEF Area, Pixel
  <2> QED BY <1>1, <1>4, <2>1, <2>2
\* The window follows the columns that were done, in this band.
<1>10. Area(Beside) \cup Area(w) = Area(Rectangle(scissor.x, scissor.y + tileY, tileX + w.width, Band))
  <2> DEFINE y == scissor.y + tileY
             v == w.width
             x == scissor.x + tileX
             all == tileX + w.width
  <2>1. /\ scissor.x \in Nat /\ tileX \in Nat /\ y \in Nat /\ v \in Nat /\ Band \in Nat
        /\ x \in Nat /\ x = scissor.x + tileX /\ all \in Nat /\ all = tileX + v
    BY <1>6, <1>7
  <2>2. w = Rectangle(x, y, v, Band) /\ Beside = Rectangle(scissor.x, y, tileX, Band)
    BY <1>7 DEF Beside
  <2> HIDE DEF x, y, v, all
  <2>3. Splits(Rectangle(scissor.x, y, all, Band), Beside, w)
    BY <2>1, <2>2, Wider
  <2> QED BY <2>3 DEF y, all, Splits
<1>11. painted' = Area(Above) \cup Area(Rectangle(scissor.x, scissor.y + tileY, tileX + w.width, Band))
  BY <1>1, <1>4, <1>10 DEF InOrder
<1>12. last => painted' = Area(Rectangle(scissor.x, scissor.y, scissor.width, tileY + Band))
  <2>1. SUFFICES ASSUME last PROVE painted' = Area(Rectangle(scissor.x, scissor.y, scissor.width, tileY + Band))
    OBVIOUS
  <2>2. tileX + w.width = scissor.width
    BY <1>6, <1>7, <2>1
  <2> DEFINE y == scissor.y + tileY
             all == tileY + Band
  <2>3. /\ scissor.x \in Nat /\ scissor.y \in Nat /\ scissor.width \in Nat /\ tileY \in Nat /\ Band \in Nat
        /\ y \in Nat /\ y = scissor.y + tileY /\ all \in Nat /\ all = tileY + Band
    BY <1>6, <1>7
  <2>4. painted' = Area(Above) \cup Area(Rectangle(scissor.x, y, scissor.width, Band))
    BY <1>11, <2>2
  <2> HIDE DEF y, all
  <2>5. Splits(Rectangle(scissor.x, scissor.y, scissor.width, all), Above,
               Rectangle(scissor.x, y, scissor.width, Band))
    BY <2>3, Taller DEF Above
  <2> QED BY <2>4, <2>5 DEF Splits, all
<1>13. \A s : Area(s)' = Area(s)
  BY <1>4 DEF Area, Pixel
<1> HIDE DEF last
\* A last band of one row that starts with a grid is not written.
<1>14. tileY + MaxRows >= scissor.height => ~Lonely
  <2> SUFFICES ASSUME tileY + MaxRows >= scissor.height, Lonely PROVE FALSE
    OBVIOUS
  <2>1. tileX = 0 /\ w.width > C
    BY <1>1, <1>7
  <2>2. scissor.height % MaxRows = 1
    BY DEF Lonely
  <2>3. Band = scissor.height - tileY
    BY <1>6 DEF Band, Least
  <2>4. Band # 1
    BY <1>3, <1>7, <2>1
  <2>5. CASE Band < MaxRows
    <3>1. (tileY + Band) % MaxRows = Band
      <4>1. MaxRows \in Nat \ {0} /\ tileY \in Nat /\ Band \in Nat
        BY <1>6, <1>7
      <4> QED BY <1>6, <2>5, <4>1, MultiplesAdd, Zenon
    <3> QED BY <1>6, <1>7, <2>2, <2>3, <2>4, <3>1
  <2>6. CASE Band = MaxRows
    <3>1. Band % MaxRows = 0
      <4>1. MaxRows * 1 = Band /\ 1 \in Int
        BY <1>6, <2>6
      <4> QED BY <1>6, <4>1, Multiples
    <3>2. (tileY + Band) % MaxRows = 0
      <4>1. MaxRows \in Nat \ {0} /\ tileY \in Nat /\ Band \in Nat
        BY <1>6, <1>7
      <4> QED BY <1>6, <3>1, <4>1, MultiplesAdd, Zenon
    <3> QED BY <1>6, <1>7, <2>2, <2>3, <3>2
  <2> QED BY <1>6, <1>7, <2>5, <2>6
<1>15. Lonely' <=> Lonely
  BY <1>4 DEF Lonely
<1>16. CASE result' = "OK"
  <2>1. last /\ tileY + MaxRows >= scissor.height
    BY <1>4, <1>16
  <2>2. tileY + Band = scissor.height
    BY <1>6, <1>7, <2>1 DEF Band, Least
  <2>3. painted' = Area(scissor)
    BY <1>6, <1>12, <2>1, <2>2
  <2>4. painted' = Area(scissor)'
    BY <1>13, <2>3, <1>4
  <2> QED BY <1>8, <1>9, <1>14, <1>15, <1>16, <2>1, <2>4 DEF Tiling
<1>17. CASE result' = "running"
  <2>1. InOrder' /\ (Lonely' /\ tileY' + MaxRows >= scissor.height => tileX' = 0)
    <3>1. ~FitsWriteData(scissor)
      <4>1. ASSUME FitsWriteData(scissor) PROVE FALSE
        <5>1. tileX = 0 /\ tileY = 0 /\ w.width = scissor.width /\ scissor.height <= MaxRows
          BY <1>1, <1>5, <4>1 DEF InOrder, FitsWriteData
        <5>2. last /\ tileY + MaxRows >= scissor.height
          BY <1>6, <5>1 DEF last
        <5> QED BY <1>4, <1>17, <5>2
      <4> QED BY <4>1
    <3>2. ~FitsWriteData(scissor)'
      BY <1>4, <3>1 DEF FitsWriteData
    <3>3. CASE last
      <4>1. tileX' = 0 /\ tileY' = tileY + MaxRows /\ tileY + MaxRows < scissor.height
        BY <1>4, <1>6, <1>17, <3>3
      <4>2. Band = MaxRows
        BY <1>6, <4>1 DEF Band, Least
      <4>3. MaxRows % MaxRows = 0 /\ 0 % C = 0
        <5>1. MaxRows * 1 = MaxRows /\ C * 0 = 0 /\ 1 \in Int /\ 0 \in Int
          BY <1>6
        <5> QED BY <1>6, <5>1, Multiples
      <4>4. tileY' % MaxRows = 0 /\ tileX' % C = 0
        <5>1. MaxRows \in Nat \ {0} /\ MaxRows \in Nat /\ tileY \in Nat
          BY <1>6
        <5>2. (tileY + MaxRows) % MaxRows = 0
          BY <1>6, <4>3, <5>1, MultiplesAdd, Zenon
        <5> QED BY <4>1, <4>3, <5>2
      <4>5. Above' = Rectangle(scissor.x, scissor.y, scissor.width, tileY + MaxRows)
        BY <1>4, <4>1 DEF Above, Rectangle
      <4>6. Area(Beside') = {}
        <5>1. Band' \in Nat /\ scissor.y + tileY' \in Nat
          BY <1>4, <1>6, <4>1 DEF Band, Least
        <5>2. Beside' = Rectangle(scissor.x, scissor.y + tileY', 0, Band')
          BY <1>4, <4>1 DEF Beside, Rectangle
        <5> QED BY <1>6, <5>1, <5>2, NoPixels
      <4>7. painted' = Area(Above)' \cup Area(Beside)'
        <5>1. Area(Above') = painted'
          BY <1>12, <3>3, <4>2, <4>5
        <5>2. Area(Above)' = Area(Above') /\ Area(Beside)' = Area(Beside')
          BY <1>4 DEF Area, Pixel
        <5> QED BY <4>6, <5>1, <5>2
      <4> QED BY <1>4, <1>6, <3>2, <4>1, <4>4, <4>7 DEF InOrder
    <3>4. CASE ~last
      <4>1. /\ tileX' = tileX + w.width /\ tileY' = tileY /\ tileX + w.width < scissor.width
            /\ w.width \in {C, C * MaxCols}
        BY <1>4, <1>6, <1>7, <3>4 DEF last
      <4>2. w.width % C = 0
        <5>1. C * 1 = C /\ 1 \in Int
          BY <1>6
        <5> QED BY <1>6, <4>1, <5>1, Multiples, GridWidth
      <4>3. tileX' % C = 0
        BY <1>6, <1>7, <4>1, <4>2, MultiplesAdd
      <4>4. painted' = Area(Above)' \cup Area(Beside)'
        <5>1. Above' = Above
          BY <1>4, <4>1 DEF Above, Rectangle
        <5>2. Beside' = Rectangle(scissor.x, scissor.y + tileY, tileX + w.width, Band)
          BY <1>4, <4>1 DEF Beside, Rectangle, Band
        <5>3. Area(Above)' = Area(Above') /\ Area(Beside)' = Area(Beside')
          BY <1>4 DEF Area, Pixel
        <5> QED BY <1>11, <5>1, <5>2, <5>3
      <4>5. InOrder'
        BY <1>4, <1>6, <3>2, <4>1, <4>3, <4>4 DEF InOrder
      <4> QED BY <1>14, <1>15, <4>1, <4>5
    <3> QED BY <3>3, <3>4
  <2> QED BY <1>4, <1>8, <1>9, <1>17, <2>1 DEF Tiling
<1> QED
  BY <1>4, <1>16, <1>17

LEMMA RefusesLonely == ASSUME Tiling, Refuse PROVE Tiling'
<1> DEFINE w == Window
<1>1. /\ TilingType /\ InOrder /\ result = "running" /\ painted \subseteq Area(scissor)
  BY DEF Tiling, Refuse
<1>2. WindowFits(w)
  BY <1>1, WindowIs
<1>3. /\ scissor' = scissor /\ pitch' = pitch /\ tileX' = tileX /\ tileY' = tileY
      /\ painted' = painted /\ credit' = credit /\ result' \in {"OUT_OF_RANGE", "OVERFLOW"}
  BY DEF Refuse
<1>4. TilingType' /\ (painted \subseteq Area(scissor))'
  BY <1>1, <1>3 DEF TilingType, Results, Area, Pixel
<1>5. ASSUME result' = "OUT_OF_RANGE" PROVE Lonely /\ w.height = 1
  <2>1. ~Takes(w)
    BY <1>5 DEF Refuse
  <2>2. w.height = 1 /\ w.width > ClearDwords
    BY <1>1, <1>2, <2>1, WindowWritten
  <2> HIDE DEF w
  <2>3. /\ ClearDwords \in Nat \ {0} /\ MaxRows \in Nat \ {0} /\ MaxRows > 1 /\ ClearDwords * MaxCols \in Nat
        /\ scissor.width \in Nat /\ scissor.height \in Nat
        /\ tileX \in Nat /\ tileY \in Nat /\ tileX < scissor.width /\ tileY < scissor.height
        /\ tileX % ClearDwords = 0 /\ tileY % MaxRows = 0
    BY <1>1, TilingAssumption, GridWidth DEF TilingType, InOrder
  <2>4. /\ w.height = Band /\ w.width \in Nat /\ tileX + w.width <= scissor.width
        /\ w.width > ClearDwords => w.width % ClearDwords = 0
        /\ tileX + w.width < scissor.width => w.width \in {ClearDwords, ClearDwords * MaxCols}
    BY <1>2 DEF WindowFits, Rectangle
  <2>5. scissor.height = tileY + 1
    <3>1. Least(MaxRows, scissor.height - tileY) = 1
      BY <2>2, <2>4 DEF Band
    <3>2. MaxRows \in Int /\ MaxRows > 1 /\ scissor.height \in Int /\ tileY \in Int
      BY <2>3
    <3> QED BY <3>1, <3>2 DEF Least
  <2>6. scissor.height % MaxRows = 1
    <3>1. MaxRows \in Nat \ {0} /\ tileY \in Nat /\ 1 \in Nat /\ 1 < MaxRows
      BY <2>3
    <3>2. (tileY + 1) % MaxRows = 1
      BY <2>3, <3>1, MultiplesAdd, Zenon
    <3> QED BY <2>5, <3>2
  <2>7. scissor.width > ClearDwords
    BY <2>2, <2>3, <2>4
  <2>8. CASE tileX + w.width < scissor.width
    <3>1. w.width = ClearDwords * MaxCols
      BY <2>2, <2>3, <2>4, <2>8
    <3>2. scissor.width >= ClearDwords * MaxCols
      BY <2>3, <2>4, <3>1
    <3> QED BY <2>2, <2>6, <2>7, <3>2 DEF Lonely
  <2>9. CASE tileX + w.width = scissor.width
    <3>1. scissor.width % ClearDwords = 0
      BY <2>2, <2>3, <2>4, <2>9, MultiplesAdd
    <3> QED BY <2>2, <2>6, <2>7, <3>1 DEF Lonely
  <2> QED BY <2>3, <2>4, <2>8, <2>9
<1>6. Lonely' = Lonely /\ Window' = w
  BY <1>3 DEF Lonely, Window
<1> QED
  BY <1>3, <1>4, <1>5, <1>6 DEF Tiling

LEMMA TilingHolds == TSpec => []Tiling
<1>1. TInit => Tiling
  BY TilingStarts
<1>2. Tiling /\ [TNext]_tvars => Tiling'
  <2>1. ASSUME Tiling, UNCHANGED tvars PROVE Tiling'
    <3>1. TilingType' /\ (InOrder' <=> InOrder) /\ (Lonely' <=> Lonely) /\ Area(scissor)' = Area(scissor)
      BY <2>1 DEF tvars, Tiling, TilingType, Lonely, InOrder, FitsWriteData, Above, Beside, Band, Area, Pixel
    <3>2. Window' = Window
      BY <2>1 DEF tvars, Window
    <3> QED BY <2>1, <3>1, <3>2 DEF Tiling, tvars
  <2> QED BY <2>1, WritePaints, RefusesLonely DEF TNext
<1> QED
  BY <1>1, <1>2, PTL DEF TSpec

\* The clears of execute_host: a clear writes what lies in its scissor and
\* nothing else, none of it twice, and all of it when it returns OK; what the
\* device refuses is the lonely row, and no other.
THEOREM ClearsPaintTheirScissor == TSpec => []PaintsItsScissor
<1>1. Tiling => PaintsItsScissor
  <2> SUFFICES ASSUME Tiling PROVE PaintsItsScissor
    OBVIOUS
  <2>1. ASSUME result = "running" PROVE Touches(Window) \cap painted = {}
    <3>1. TilingType /\ InOrder
      BY <2>1 DEF Tiling
    <3>2. WindowFits(Window)
      BY <3>1, WindowIs
    <3> QED BY <3>1, <3>2, WindowWritten, InScissor
  <2> QED BY <2>1 DEF Tiling, PaintsItsScissor, Lonely
<1> QED
  BY <1>1, TilingHolds, PTL
=============================================================================
