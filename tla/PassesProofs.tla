---------------------------- MODULE PassesProofs ----------------------------
(***************************************************************************)
(* Proofs about the calls of the front end, whoever makes them.  A value f *)
(* of its state goes to the value a call leaves, and three relations say   *)
(* how far: Moves, for transfers, clears and transitions, which touch      *)
(* bytes, image states and budgets alone; Opens, Closes and Leaves, for    *)
(* calls that make an object, end one, or do neither.  All of them keep    *)
(* FrontInv, the invariant of the front end: its counts are right, what it *)
(* names is there, and no query runs in two passes.  The second half is    *)
(* about the bytes: the pieces of a copied rectangle cover it, row by row, *)
(* and each transfer leaves what it says (Restores), with images back in   *)
(* their states.  CommandsProofs goes on from here with the Vulkan-style   *)
(* device, BindingsProofs with the OpenGL-style context.                   *)
(***************************************************************************)
EXTENDS Passes, FiniteSetTheorems, SequenceTheorems, WellFoundedInduction, TLAPS

-----------------------------------------------------------------------------
(* Transfers, clears and transitions.                                      *)

\* What the state of a front end is made of, and the part they never touch.
Fields == {"live", "count", "home", "bytes", "state", "revisions", "retained", "listed",
           "sequences", "writes", "passes", "vertexBinds", "indexBinds", "pipelineRefs",
           "passBinds", "layoutRefs", "plan", "sampler", "pass", "active", "value"}

Counters == Fields \ {"bytes", "state", "revisions", "retained", "listed", "sequences", "writes"}

\* Only such values are moved.
Shaped(f) == DOMAIN f = Fields /\ DOMAIN f.state = Image

\* Every image is in a state that its usage bits allow.
Proper(f) ==
  /\ f.state = [i \in Image |-> f.state[i]] /\ f.revisions = [i \in Image |-> f.revisions[i]]
  /\ \A i \in Image : f.state[i] = "gone" \/ i \in Usable(f.state[i])

\* No more of f than that has become g.
Moves(f, g) ==
  /\ Shaped(g)
  /\ \A x \in Counters : g[x] = f[x]
  /\ \A i \in Image : g.state[i] = "gone" <=> f.state[i] = "gone"

\* The copy list is empty, unless a submission was refused for want of numbers.
Settled(f) ==
  /\ f.sequences \in Nat \cup {Plenty}
  /\ f.sequences = Plenty => f.listed = {}

\* A transfer, a clear or a transition: g comes after f.
Carries(f, g) ==
  /\ Moves(f, g) /\ (Proper(f) => Proper(g)) /\ (Settled(f) => Settled(g))
  /\ f.sequences = Plenty => g.sequences = Plenty
  /\ f.writes = Plenty => g.writes = Plenty

LEMMA MovesStays == ASSUME NEW f, Shaped(f) PROVE Carries(f, f)
  BY DEF Carries, Moves

LEMMA MovesOn ==
  ASSUME NEW f, NEW g, NEW h, Carries(f, g), Carries(g, h) PROVE Carries(f, h)
  BY DEF Carries, Moves

LEMMA RecordedMoves ==
  ASSUME NEW f, Shaped(f), NEW i, NEW s, s # "gone"
  PROVE  Carries(f, Recorded(f, i, s).now)
  BY ZenonT(60) DEF Carries, Moves, Shaped, Proper, Settled, Recorded, Done, Refused, Fields, Counters

LEMMA EnteredMoves ==
  ASSUME NEW f, Shaped(f), NEW i, NEW s, s # "gone"
  PROVE  Carries(f, Entered(f, i, s).now)
  BY RecordedMoves, MovesStays DEF Entered, Done

LEMMA SubmittedMoves ==
  ASSUME NEW f, Shaped(f), NEW objects, NEW g, Carries(f, g), g.sequences = f.sequences
  PROVE  Carries(f, Submitted(f, objects, g).now)
<1> DEFINE h == [g EXCEPT !.listed = {}, !.sequences = Less(@)]
<1>1. CASE f.sequences = 0
  <2>1. 0 # Plenty
    BY TransfersAssumption
  <2> QED BY <1>1, <2>1 DEF Carries, Moves, Shaped, Proper, Settled, Submitted, Refused, Fields, Counters
<1>2. CASE f.sequences # 0
  <2>1. Submitted(f, objects, g).now = h
    BY <1>2 DEF Submitted, Done
  <2>2. /\ DOMAIN h = Fields /\ \A x \in Fields \ {"listed", "sequences"} : h[x] = g[x]
        /\ h.listed = {} /\ h.sequences = Less(f.sequences)
    BY DEF Carries, Moves, Shaped, Fields
  <2> HIDE DEF h
  <2>3. Settled(f) => Settled(h)
    BY <1>2, <2>2, TransfersAssumption DEF Settled, Less
  <2>4. Moves(f, h) /\ (Proper(f) => Proper(h)) /\ h.writes = g.writes
    BY <2>2 DEF Carries, Moves, Shaped, Proper, Fields, Counters
  <2>5. f.sequences = Plenty => h.sequences = Plenty
    BY <2>2 DEF Less
  <2> QED BY <2>1, <2>3, <2>4, <2>5 DEF Carries
<1> QED
  BY <1>1, <1>2

LEMMA BytesMove ==
  ASSUME NEW f, Shaped(f), NEW b
  PROVE  Carries(f, [f EXCEPT !.bytes = b])
  BY DEF Carries, Moves, Shaped, Proper, Settled, Fields, Counters

LEMMA MovingMoves ==
  ASSUME NEW f, Shaped(f), NEW a, NEW p, NEW b, NEW q, NEW n
  PROVE  Carries(f, Moving(f, a, p, b, q, n)) /\ Moving(f, a, p, b, q, n).sequences = f.sequences
  BY DEF Carries, Moves, Shaped, Proper, Settled, Moving, Fields, Counters

LEMMA FillingMoves ==
  ASSUME NEW f, Shaped(f), NEW b, NEW q, NEW n, NEW v
  PROVE  Carries(f, Filling(f, b, q, n, v)) /\ Filling(f, b, q, n, v).sequences = f.sequences
  BY DEF Carries, Moves, Shaped, Proper, Settled, Filling, Fields, Counters

LEMMA CopiedMoves ==
  ASSUME NEW f, Shaped(f), NEW a, NEW p, NEW b, NEW q, NEW n
  PROVE  Carries(f, Copied(f, a, p, b, q, n).now)
<1>1. CASE Overlaps(a, p, b, q, n)
  BY <1>1 DEF Copied, Refused, Carries, Moves, Shaped, Proper, Settled, Fields, Counters
<1>2. CASE ~Overlaps(a, p, b, q, n)
  BY <1>2, SubmittedMoves, MovingMoves DEF Copied
<1> QED
  BY <1>1, <1>2

LEMMA StagedMoves ==
  ASSUME NEW f, Shaped(f), NEW b, NEW q, NEW n, NEW v
  PROVE  Carries(f, Staged(f, b, q, n, v).now)
  BY SubmittedMoves, FillingMoves DEF Staged

LEMMA FetchedMoves ==
  ASSUME NEW f, Shaped(f), NEW a
  PROVE  Carries(f, Fetched(f, a).now)
  BY SubmittedMoves, MovesStays DEF Fetched

LEMMA UploadBufferMoves ==
  ASSUME NEW f, Shaped(f), NEW b, NEW q, NEW n, NEW v
  PROVE  Carries(f, UploadBuffer(f, b, q, n, v).now)
  BY StagedMoves, FillingMoves, MovesStays DEF UploadBuffer, Done, Refused

LEMMA ReadBufferMoves ==
  ASSUME NEW f, Shaped(f), NEW a, NEW p, NEW n
  PROVE  Carries(f, ReadBuffer(f, a, p, n).now)
  BY FetchedMoves, MovesStays DEF ReadBuffer, Done, Refused

LEMMA CopyBufferMoves ==
  ASSUME NEW f, Shaped(f), NEW a, NEW p, NEW b, NEW q, NEW n
  PROVE  Carries(f, CopyBuffer(f, a, p, b, q, n).now)
  BY CopiedMoves, MovesStays DEF CopyBuffer, Refused

LEMMA WrittenMoves ==
  ASSUME NEW f, NEW g, Carries(f, g)
  PROVE  Carries(f, [g EXCEPT !.writes = Less(@)])
  BY DEF Less, Carries, Moves, Shaped, Proper, Settled, Fields, Counters

LEMMA PackedMoves ==
  ASSUME NEW f, Shaped(f), NEW b, NEW q, NEW n, NEW v
  PROVE  Carries(f, Packed(f, b, q, n, v).now)
<1>1. Packed(f, b, q, n, v).now =
        IF f.writes = 0 THEN f
        ELSE [Filling(f, b, q, n, v) EXCEPT !.writes = Less(Filling(f, b, q, n, v).writes)]
  BY DEF Packed, Done, Refused
<1> QED
  BY <1>1, FillingMoves, WrittenMoves, MovesStays

LEMMA FillBufferMoves ==
  ASSUME NEW f, Shaped(f), NEW b, NEW q, NEW n, NEW v
  PROVE  Carries(f, FillBuffer(f, b, q, n, v).now)
<1> DEFINE whole == n - (n % Packet)
           r == Packed(f, b, q, whole, v)
<1>1. \A g : Shaped(g) =>
        LET rest == IF whole = n THEN Done(g) ELSE Packed(g, b, q + whole, n - whole, v)
        IN  Carries(g, rest.now)
  BY PackedMoves, MovesStays DEF Done
<1>2. Carries(f, r.now) /\ Shaped(r.now)
  BY PackedMoves DEF Carries, Moves
<1>3. FillBuffer(f, b, q, n, v).now \in
        {f, Staged(f, b, q, n, v).now,
         (IF whole = n THEN Done(f) ELSE Packed(f, b, q + whole, n - whole, v)).now,
         r.now,
         (IF whole = n THEN Done(r.now) ELSE Packed(r.now, b, q + whole, n - whole, v)).now}
  BY DEF FillBuffer, Then, Refused
<1> HIDE DEF whole, r
<1> QED
  BY <1>1, <1>2, <1>3, StagedMoves, MovesStays, MovesOn

LEMMA CompositeMoves ==
  ASSUME NEW f, Shaped(f), NEW a, NEW p, NEW b, NEW q, NEW n, NEW w, NEW v
  PROVE  Carries(f, Composite(f, a, p, b, q, n, w, v).now)
<1> DEFINE g == Moving(f, a, p, b, q, n)
           h == Filling(g, b, q, w, v)
<1>1. Carries(f, g) /\ Shaped(g)
  BY MovingMoves DEF Carries, Moves
<1>2. Carries(f, h)
  BY <1>1, FillingMoves, MovesOn
<1>3. Composite(f, a, p, b, q, n, w, v).now =
        IF f.writes = 0 THEN f ELSE [h EXCEPT !.writes = Less(h.writes)]
  BY DEF Composite, Done, Refused
<1> QED
  BY <1>2, <1>3, WrittenMoves, MovesStays

LEMMA CopyThenFillMoves ==
  ASSUME NEW f, Shaped(f), NEW a, NEW p, NEW b, NEW q, NEW n, NEW w, NEW v
  PROVE  Carries(f, CopyThenFill(f, a, p, b, q, n, w, v).now)
<1> DEFINE r == CopyBuffer(f, a, p, b, q, n)
<1>1. Carries(f, r.now) /\ Shaped(r.now)
  BY CopyBufferMoves DEF Carries, Moves
<1>2. CopyThenFill(f, a, p, b, q, n, w, v).now \in
        {f, r.now, FillBuffer(r.now, b, q, w, v).now, Composite(f, a, p, b, q, n, w, v).now}
  BY DEF CopyThenFill, Then, Refused
<1> QED
  BY <1>1, <1>2, FillBufferMoves, CompositeMoves, MovesStays, MovesOn

\* What Within does: to a state, a step, and back.
LEMMA ThereAndBack ==
  ASSUME NEW f, Shaped(f), NEW i, f.state[i] # "gone", NEW s, s # "gone",
         NEW r, r = Entered(f, i, s),
         NEW t, Shaped(r.now) => Carries(r.now, t.now),
         NEW u, u = Entered(t.now, i, f.state[i]),
         NEW w, w = IF r.ok THEN IF t.ok THEN u ELSE t ELSE r
  PROVE  Carries(f, w.now)
<1>1. Carries(f, r.now) /\ Shaped(r.now)
  BY EnteredMoves DEF Carries, Moves
<1>2. Carries(r.now, t.now) /\ Shaped(t.now)
  BY <1>1 DEF Carries, Moves
<1>3. Carries(t.now, u.now)
  BY <1>2, EnteredMoves
<1> QED
  BY <1>1, <1>2, <1>3, MovesOn

LEMMA UploadImageMoves ==
  ASSUME NEW f, Shaped(f), NEW i, NEW q, NEW n, NEW v
  PROVE  Carries(f, UploadImage(f, i, q, n, v).now)
<1> DEFINE r == Entered(f, i, "TRANSFER_DESTINATION")
           t == Staged(r.now, i, q, n, v)
           u == Entered(t.now, i, f.state[i])
<1>1. CASE InRange(i, q, n) /\ i \in Bound(f) /\ f.state[i] # "gone"
  <2>1. UploadImage(f, i, q, n, v) = IF r.ok THEN IF t.ok THEN u ELSE t ELSE r
    BY <1>1 DEF UploadImage, Within, Then
  <2>2. Shaped(r.now) => Carries(r.now, t.now)
    BY StagedMoves
  <2> HIDE DEF r, t, u
  <2> QED BY <1>1, <2>1, <2>2, ThereAndBack DEF r, u
<1>2. CASE ~(InRange(i, q, n) /\ i \in Bound(f) /\ f.state[i] # "gone")
  BY <1>2, MovesStays DEF UploadImage, Within, Refused
<1> QED
  BY <1>1, <1>2

LEMMA ReadImageMoves ==
  ASSUME NEW f, Shaped(f), NEW i, NEW p, NEW n
  PROVE  Carries(f, ReadImage(f, i, p, n).now)
<1> DEFINE r == Entered(f, i, "TRANSFER_SOURCE")
           t == Fetched(r.now, i)
           u == Entered(t.now, i, f.state[i])
<1>1. CASE InRange(i, p, n) /\ i \in Bound(f) /\ f.state[i] # "gone"
  <2>1. ReadImage(f, i, p, n) = IF r.ok THEN IF t.ok THEN u ELSE t ELSE r
    BY <1>1 DEF ReadImage, Within, Then
  <2>2. Shaped(r.now) => Carries(r.now, t.now)
    BY FetchedMoves
  <2> HIDE DEF r, t, u
  <2> QED BY <1>1, <2>1, <2>2, ThereAndBack DEF r, u
<1>2. CASE ~(InRange(i, p, n) /\ i \in Bound(f) /\ f.state[i] # "gone")
  BY <1>2, MovesStays DEF ReadImage, Within, Refused
<1> QED
  BY <1>1, <1>2

LEMMA CopyToImageMoves ==
  ASSUME NEW f, Shaped(f), NEW a, NEW p, NEW i, NEW q, NEW n
  PROVE  Carries(f, CopyToImage(f, a, p, i, q, n).now)
<1> DEFINE may == a \in Bound(f) \cap Source /\ InRange(a, p, n) /\ InRange(i, q, n)
           r == Entered(f, i, "TRANSFER_DESTINATION")
           t == Copied(r.now, a, p, i, q, n)
           u == Entered(t.now, i, f.state[i])
<1>1. CASE may /\ i \in Bound(f) /\ f.state[i] # "gone"
  <2>1. CopyToImage(f, a, p, i, q, n) = IF r.ok THEN IF t.ok THEN u ELSE t ELSE r
    BY <1>1 DEF CopyToImage, Within, Then
  <2>2. Shaped(r.now) => Carries(r.now, t.now)
    BY CopiedMoves
  <2> HIDE DEF r, t, u
  <2> QED BY <1>1, <2>1, <2>2, ThereAndBack DEF r, u
<1>2. CASE ~(may /\ i \in Bound(f) /\ f.state[i] # "gone")
  BY <1>2, MovesStays DEF CopyToImage, Within, Refused
<1> QED
  BY <1>1, <1>2

LEMMA CopyFromImageMoves ==
  ASSUME NEW f, Shaped(f), NEW i, NEW p, NEW b, NEW q, NEW n
  PROVE  Carries(f, CopyFromImage(f, i, p, b, q, n).now)
<1> DEFINE may == b \in Bound(f) \cap Destination /\ InRange(i, p, n) /\ InRange(b, q, n)
           r == Entered(f, i, "TRANSFER_SOURCE")
           t == Copied(r.now, i, p, b, q, n)
           u == Entered(t.now, i, f.state[i])
<1>1. CASE may /\ i \in Bound(f) /\ f.state[i] # "gone"
  <2>1. CopyFromImage(f, i, p, b, q, n) = IF r.ok THEN IF t.ok THEN u ELSE t ELSE r
    BY <1>1 DEF CopyFromImage, Within, Then
  <2>2. Shaped(r.now) => Carries(r.now, t.now)
    BY CopiedMoves
  <2> HIDE DEF r, t, u
  <2> QED BY <1>1, <2>1, <2>2, ThereAndBack DEF r, u
<1>2. CASE ~(may /\ i \in Bound(f) /\ f.state[i] # "gone")
  BY <1>2, MovesStays DEF CopyFromImage, Within, Refused
<1> QED
  BY <1>1, <1>2

LEMMA ClearedMoves ==
  ASSUME NEW f, Shaped(f), NEW i, NEW s, NEW area, NEW v
  PROVE  Carries(f, Cleared(f, i, s, area, v).now)
  BY ZenonT(60) DEF Cleared, Less, Done, Refused, Carries, Moves, Shaped, Proper, Settled, Fields, Counters

LEMMA ClearPassMoves ==
  ASSUME NEW f, Shaped(f), NEW r, NEW area, NEW v
  PROVE  /\ Carries(f, ClearPass(f, r, area, v).now)
         /\ Carries(f, ClearPassDepth(f, r, area, v).now)
  BY ClearedMoves, MovesStays
     DEF ClearPass, ClearPassDepth, ClearColor, ClearDepth, Refused

LEMMA ApplyLoadsMoves ==
  ASSUME NEW f, Shaped(f), NEW r, NEW cleared, NEW v
  PROVE  Carries(f, ApplyLoads(f, r, cleared, v).now)
<1> DEFINE t == ClearPassDepth(f, r, Whole, v)
<1>1. Carries(f, t.now) /\ Shaped(t.now)
  BY ClearPassMoves DEF Carries, Moves
<1>2. ApplyLoads(f, r, cleared, v).now \in
        {f, t.now, ClearPass(f, r, Whole, v).now, ClearPass(t.now, r, Whole, v).now}
  BY DEF ApplyLoads, Then, Done
<1> QED
  BY <1>1, <1>2, ClearPassMoves, MovesStays, MovesOn

LEMMA DispatchMoves ==
  ASSUME NEW f, Shaped(f), NEW p, NEW v
  PROVE  Carries(f, Dispatch(f, p, v).now)
  BY FillingMoves, MovesStays DEF Dispatch, Done, Refused

-----------------------------------------------------------------------------
(* The copies of a rectangle.                                              *)

\* A set of numbers has a least one.
LEMMA LeastNumber ==
  ASSUME NEW S \in SUBSET Nat, S # {}
  PROVE  \E i \in S : \A j \in S : i <= j
<1> DEFINE R == {ss \in Nat \X Nat : ss[1] < ss[2]}
<1>1. IsWellFoundedOn(R, Nat)
  BY NatLessThanWellFounded DEF OpToRel
<1>2. \A i, j \in Nat : <<j, i>> \in R <=> j < i
  OBVIOUS
<1> HIDE DEF R
<1>3. PICK i \in S : \A j \in S : <<j, i>> \notin R
  BY <1>1, WFMin
<1>4. i \in Nat /\ \A j \in S : j \in Nat /\ ~(j < i)
  BY <1>2, <1>3
<1>5. \A j \in S : i <= j
  BY <1>4
<1> QED BY <1>5

LEMMA ByInduction ==
  ASSUME NEW S, 0 \in S, \A n \in Nat : n \in S => n + 1 \in S
  PROVE  Nat \subseteq S
<1> SUFFICES ASSUME Nat \ S # {} PROVE FALSE
  OBVIOUS
<1>1. PICK i \in Nat \ S : \A j \in Nat \ S : i <= j
  BY LeastNumber
<1>2. i - 1 \in Nat /\ i - 1 \in S
  BY <1>1
<1> QED
  BY <1>1, <1>2

\* The greatest of some numbers up to k + 1, and what is left without it.
LEMMA MaxOf ==
  ASSUME NEW k \in Nat, NEW t \in SUBSET (1 .. k + 1), t # {}
  PROVE  Max(t) \in t /\ t \ {Max(t)} \in SUBSET (1 .. k)
<1> DEFINE HasMax(n) == \A u \in SUBSET (1 .. n) : u # {} => \E x \in u : \A y \in u : x >= y
           has == {n \in Nat : HasMax(n)}
<1>1. \A n : n \in has <=> n \in Nat /\ HasMax(n)
  OBVIOUS
<1>2. HasMax(0)
  <2>1. \A u \in SUBSET (1 .. 0) : u = {}
    OBVIOUS
  <2> QED BY <2>1
<1>3. ASSUME NEW n \in Nat, HasMax(n) PROVE HasMax(n + 1)
  <2> SUFFICES ASSUME NEW u \in SUBSET (1 .. n + 1), u # {}
               PROVE  \E x \in u : \A y \in u : x >= y
    OBVIOUS
  <2>1. CASE n + 1 \in u
    BY <2>1
  <2>2. CASE n + 1 \notin u
    <3>1. u \in SUBSET (1 .. n)
      BY <2>2
    <3> QED BY <1>3, <3>1
  <2> QED BY <2>1, <2>2
<1> HIDE DEF has
<1>4. HasMax(k + 1)
  <2> HIDE DEF HasMax
  <2>1. 0 \in has /\ \A n \in Nat : n \in has => n + 1 \in has
    BY <1>1, <1>2, <1>3
  <2>2. Nat \subseteq has /\ k + 1 \in Nat
    BY <2>1, ByInduction
  <2> QED BY <1>1, <2>2
<1>5. \E x \in t : \A y \in t : x >= y
  BY <1>4
<1>6. Max(t) \in t /\ \A y \in t : Max(t) >= y
  BY <1>5 DEF Max
<1>7. PICK m : m = Max(t)
  OBVIOUS
<1>8. \A y \in t : y \in 1 .. k + 1
  OBVIOUS
<1>9. m \in 1 .. k + 1 /\ \A y \in t : m >= y
  BY <1>8, <1>6, <1>7
<1>10. \A y \in t \ {m} : y \in 1 .. k
  BY <1>8, <1>9
<1> QED
  BY <1>6, <1>7, <1>10

\* One of them, after those before it.
NextPiece(r, i, p, j, q, piece) ==
  IF r.ok THEN Copied(r.now, i, p + piece.at, j, q + piece.at, piece.n) ELSE r

\* The fold over n pieces, one after the other.
PiecesRun(run, f, i, p, j, q, pieces, n) ==
  /\ run[0] = Done(f) /\ run[n] = CopiedPieces(f, i, p, j, q, pieces)
  /\ \A k \in 0 .. n - 1 : run[k + 1] = NextPiece(run[k], i, p, j, q, pieces[k + 1])

LEMMA CopiedPiecesRun ==
  ASSUME NEW f, NEW i, NEW p, NEW j, NEW q,
         NEW pieces, NEW n \in Nat, DOMAIN pieces = 1 .. n
  PROVE  \E run : PiecesRun(run, f, i, p, j, q, pieces, n)
<1> DEFINE Body(g, t) == IF t = {} THEN Done(f)
                         ELSE NextPiece(g[t \ {Max(t)}], i, p, j, q, pieces[Max(t)])
           iter == CHOOSE g : g = [t \in SUBSET (1 .. n) |-> Body(g, t)]
<1>1. CopiedPieces(f, i, p, j, q, pieces) = iter[1 .. n]
  BY DEF CopiedPieces, FoldLeft, MapThenFoldSet, Then, NextPiece
<1>2. iter = [t \in SUBSET (1 .. n) |-> Body(iter, t)]
  <2> DEFINE Starts(k) == \E g : \A t \in SUBSET (1 .. k) : g[t] = Body(g, t)
             has == {k \in Nat : Starts(k)}
  <2>1. \A k : k \in has <=> k \in Nat /\ Starts(k)
    OBVIOUS
  <2>2. Starts(0)
    <3> DEFINE g == [t \in SUBSET (1 .. 0) |-> Done(f)]
    <3>1. \A t \in SUBSET (1 .. 0) : t = {} /\ g[t] = Body(g, t)
      OBVIOUS
    <3> QED BY <3>1
  <2>3. ASSUME NEW k \in Nat, Starts(k) PROVE Starts(k + 1)
    <3>1. PICK g : \A t \in SUBSET (1 .. k) : g[t] = Body(g, t)
      BY <2>3
    <3> DEFINE h == [t \in SUBSET (1 .. k + 1) |-> Body(g, t)]
    <3>2. ASSUME NEW t \in SUBSET (1 .. k + 1) PROVE h[t] = Body(h, t)
      <4>1. CASE t = {}
        BY <4>1
      <4>2. CASE t # {}
        <5>1. t \ {Max(t)} \in SUBSET (1 .. k)
          BY <4>2, MaxOf
        <5>2. h[t \ {Max(t)}] = g[t \ {Max(t)}]
          <6>1. \A u \in SUBSET (1 .. k) : u \in SUBSET (1 .. k + 1)
            OBVIOUS
          <6>2. h[t \ {Max(t)}] = Body(g, t \ {Max(t)})
            BY <5>1, <6>1
          <6> QED BY <3>1, <5>1, <6>2
        <5> QED BY <4>2, <5>2
      <4> QED BY <4>1, <4>2
    <3> HIDE DEF h
    <3>3. \E g1 : \A t \in SUBSET (1 .. k + 1) : g1[t] = Body(g1, t)
      <4> WITNESS h
      <4> QED BY <3>2
    <3> QED BY <3>3
  <2>4. Starts(n)
    <3> HIDE DEF Starts, has
    <3>1. 0 \in has
      BY <2>1, <2>2
    <3>2. ASSUME NEW k \in Nat, k \in has PROVE k + 1 \in has
      <4>1. k + 1 \in Nat /\ Starts(k + 1)
        BY <2>1, <2>3, <3>2
      <4> QED BY <2>1, <4>1
    <3>3. Nat \subseteq has
      BY <3>1, <3>2, ByInduction
    <3> QED BY <2>1, <3>3
  <2>5. PICK g : \A t \in SUBSET (1 .. n) : g[t] = Body(g, t)
    BY <2>4
  <2> DEFINE h == [t \in SUBSET (1 .. n) |-> g[t]]
  <2>6. \A t \in SUBSET (1 .. n) : t \ {Max(t)} \in SUBSET (1 .. n)
    OBVIOUS
  <2>7. \A t \in SUBSET (1 .. n) : h[t] = Body(h, t)
    BY <2>5, <2>6
  <2>8. h = [t \in SUBSET (1 .. n) |-> h[t]]
    OBVIOUS
  <2> HIDE DEF h
  <2>9. h = [t \in SUBSET (1 .. n) |-> Body(h, t)]
    BY <2>7, <2>8
  <2> QED BY <2>9
<1> HIDE DEF iter
<1>3. \A k \in 0 .. n : 1 .. k \in SUBSET (1 .. n)
  OBVIOUS
<1>4. \A k \in 0 .. n - 1 : iter[1 .. k + 1] = NextPiece(iter[1 .. k], i, p, j, q, pieces[k + 1])
  <2> TAKE k \in 0 .. n - 1
  <2>1. 1 .. k + 1 \in SUBSET (1 .. n) /\ 1 .. k + 1 # {} /\ k \in Nat
    BY <1>3
  <2>2. Max(1 .. k + 1) = k + 1
    <3>1. \A m \in 1 .. k + 1 : (\A l \in 1 .. k + 1 : m >= l) <=> m = k + 1
      BY <2>1
    <3> QED BY <2>1, <3>1 DEF Max
  <2>3. (1 .. k + 1) \ {k + 1} = 1 .. k
    BY <2>1
  <2>4. iter[1 .. k + 1] = Body(iter, 1 .. k + 1)
    BY <1>2, <2>1
  <2> QED BY <2>1, <2>2, <2>3, <2>4
<1>5. iter[1 .. 0] = Done(f)
  <2>1. 1 .. 0 \in SUBSET (1 .. n) /\ 1 .. 0 = {}
    OBVIOUS
  <2> QED BY <1>2, <2>1
<1> DEFINE run == [k \in 0 .. n |-> iter[1 .. k]]
<1>6. run[0] = Done(f) /\ run[n] = CopiedPieces(f, i, p, j, q, pieces)
  BY <1>1, <1>5
<1>7. \A k \in 0 .. n - 1 : run[k + 1] = NextPiece(run[k], i, p, j, q, pieces[k + 1])
  <2>1. \A k \in 0 .. n - 1 : run[k] = iter[1 .. k] /\ run[k + 1] = iter[1 .. k + 1]
    OBVIOUS
  <2> HIDE DEF run
  <2> QED BY <1>4, <2>1
<1> HIDE DEF run
<1> QED
  <2> WITNESS run
  <2> QED BY <1>6, <1>7 DEF PiecesRun

LEMMA CopiedPiecesMoves ==
  ASSUME NEW f, Shaped(f), NEW i, NEW p, NEW j, NEW q,
         NEW pieces, NEW n \in Nat, DOMAIN pieces = 1 .. n
  PROVE  Carries(f, CopiedPieces(f, i, p, j, q, pieces).now)
<1>0. PICK run : PiecesRun(run, f, i, p, j, q, pieces, n)
  BY CopiedPiecesRun
<1>1. /\ run[0] = Done(f) /\ run[n] = CopiedPieces(f, i, p, j, q, pieces)
      /\ \A k \in 0 .. n - 1 : run[k + 1] = NextPiece(run[k], i, p, j, q, pieces[k + 1])
  BY <1>0 DEF PiecesRun
<1> DEFINE Moved(k) == k <= n => Carries(f, run[k].now)
           moved == {k \in Nat : Moved(k)}
<1>2. 0 \in moved
  BY <1>1, MovesStays DEF Done
<1>3. ASSUME NEW k \in Nat, k \in moved PROVE k + 1 \in moved
  <2> SUFFICES ASSUME k + 1 <= n PROVE Carries(f, run[k + 1].now)
    OBVIOUS
  <2>1. Carries(f, run[k].now) /\ Shaped(run[k].now)
    BY <1>3 DEF Carries, Moves
  <2>2. run[k + 1] = NextPiece(run[k], i, p, j, q, pieces[k + 1])
    BY <1>1
  <2> QED BY <2>1, <2>2, CopiedMoves, MovesOn DEF NextPiece
<1>4. n \in moved
  <2> HIDE DEF moved
  <2> QED BY <1>2, <1>3, ByInduction
<1> QED
  BY <1>1, <1>4

LEMMA PiecesAre ==
  ASSUME NEW w \in 1 .. Columns, NEW h \in 1 .. Rows
  PROVE  \E n \in Nat : DOMAIN Pieces(w, h) = 1 .. n
<1> DEFINE piece == IF Staging < w THEN Staging ELSE w
           each == (w + piece - 1) \div piece
<1>1. w \in Nat \ {0} /\ h \in Nat \ {0} /\ Staging \in Nat \ {0}
  BY TransfersAssumption
<1>2. piece \in Nat \ {0}
  BY <1>1
<1>3. each \in Nat
  <2> HIDE DEF piece
  <2>1. w + piece - 1 \in Nat
    BY <1>1, <1>2
  <2> QED BY <1>2, <2>1
<1>4. DOMAIN Pieces(w, h) = 1 .. h * each
  BY DEF Pieces
<1>5. h * each \in Nat
  <2> HIDE DEF each
  <2> QED BY <1>1, <1>3
<1> HIDE DEF each
<1> QED
  BY <1>4, <1>5

LEMMA CopyRectMoves ==
  ASSUME NEW f, Shaped(f), NEW i, NEW x, NEW y, NEW j, NEW u, NEW t, NEW w, NEW h
  PROVE  Carries(f, CopyRect(f, i, x, y, j, u, t, w, h).now)
<1> DEFINE wrong == \/ ~({i, j} \subseteq Bound(f)) \/ i = j \/ (i \in Color) # (j \in Color)
                    \/ w \notin 1 .. Columns \/ h \notin 1 .. Rows
                    \/ x + w > Columns \/ u + w > Columns \/ y + h > Rows \/ t + h > Rows
                    \/ "gone" \in {f.state[i], f.state[j]}
           r1 == Entered(f, i, "TRANSFER_SOURCE")
           r2 == Entered(r1.now, j, "TRANSFER_DESTINATION")
           r3 == CopiedPieces(r2.now, i, Columns * y + x, j, Columns * t + u, Pieces(w, h))
           r4 == Entered(r3.now, j, f.state[j])
           r5 == Entered((IF r3.ok THEN r4 ELSE r3).now, i, f.state[i])
           undone == Recorded(r2.now, i, f.state[i])
<1>1. CASE wrong
  BY <1>1, MovesStays DEF CopyRect, Refused
<1>2. CASE ~wrong
  <2>1. CopyRect(f, i, x, y, j, u, t, w, h) =
          IF r1.ok THEN IF r2.ok THEN IF (IF r3.ok THEN r4 ELSE r3).ok THEN r5
                                      ELSE IF r3.ok THEN r4 ELSE r3
                        ELSE undone
          ELSE r1
    BY <1>2 DEF CopyRect, Then
  <2>2. w \in 1 .. Columns /\ h \in 1 .. Rows /\ f.state[i] # "gone" /\ f.state[j] # "gone"
    BY <1>2
  <2> HIDE DEF wrong
  <2>3. Carries(f, r1.now) /\ Shaped(r1.now)
    BY EnteredMoves DEF Carries, Moves
  <2>4. Carries(r1.now, r2.now) /\ Shaped(r2.now)
    BY <2>3, EnteredMoves DEF Carries, Moves
  <2>5. Carries(r2.now, r3.now) /\ Shaped(r3.now)
    BY <2>2, <2>4, CopiedPiecesMoves, PiecesAre DEF Carries, Moves
  <2>6. Carries(r3.now, r4.now) /\ Shaped(r4.now)
    <3>1. r4 = Entered(r3.now, j, f.state[j])
      OBVIOUS
    <3> HIDE DEF r3, r4
    <3>2. Carries(r3.now, r4.now)
      BY <2>2, <2>5, <3>1, EnteredMoves
    <3> QED BY <2>5, <3>2 DEF Carries, Moves
  <2>7. Carries(r2.now, undone.now)
    BY <2>2, <2>4, RecordedMoves
  <2> DEFINE s == IF r3.ok THEN r4 ELSE r3
  <2>8. s \in {r3, r4}
    OBVIOUS
  <2>9. r5 = Entered(s.now, i, f.state[i])
    OBVIOUS
  <2> HIDE DEF r1, r2, r3, r4, r5, s
  <2>10. Carries(r3.now, s.now) /\ Shaped(s.now)
    BY <2>5, <2>6, <2>8, MovesStays
  <2>11. Carries(s.now, r5.now)
    BY <2>2, <2>9, <2>10, EnteredMoves
  <2>12. Carries(f, r2.now)
    BY <2>3, <2>4, MovesOn
  <2>13. Carries(f, s.now)
    BY <2>5, <2>10, <2>12, MovesOn
  <2>14. Carries(f, r5.now) /\ Carries(f, undone.now)
    BY <2>7, <2>11, <2>12, <2>13, MovesOn
  <2>15. CopyRect(f, i, x, y, j, u, t, w, h).now \in {r1.now, undone.now, s.now, r5.now}
    BY <2>1 DEF s
  <2> QED BY <2>3, <2>13, <2>14, <2>15
<1> QED
  BY <1>1, <1>2

-----------------------------------------------------------------------------
(* The invariant of the front end.                                         *)

Kinds == UNION {Of(k) : k \in Kind}

\* The types of the state, as the proofs need them.
PassRecord == [color : Image \cup {Nothing}, depth : Image \cup {Nothing},
               vertex : Buffer \cup {Nothing}, index : Buffer \cup {Nothing},
               pipeline : Pipeline \cup {Nothing}, query : QueryPool \cup {Nothing},
               begun : BOOLEAN, scissor : SUBSET Int]

FrontType(f) ==
  /\ Shaped(f)
  /\ f.live \subseteq Kinds /\ f.count \in [Kind -> Int]
  /\ f.home \in [Object -> Memory \cup {"heap", Nothing}]
  /\ f.passes \in [Image -> Int]
  /\ f.vertexBinds \in [Buffer -> Int] /\ f.indexBinds \in [Buffer -> Int]
  /\ f.pipelineRefs \in [Sampler -> Int]
  /\ f.passBinds \in [Pipeline -> Int] /\ f.layoutRefs \in [Pipeline -> Int]
  /\ f.plan \in [Pipeline -> SUBSET Object]
  /\ f.sampler \in [Pipeline -> Sampler \cup {Nothing}]
  /\ f.pass \in [Pass -> PassRecord]
  /\ f.active \subseteq QueryPool /\ DOMAIN f.value = Timeline

\* A pass that is not there names nothing, no two run the same query, and one that
\* is not begun runs none.
PassesHold(f) ==
  /\ \A r \in Pass : r \notin f.live => f.pass[r] = NoPass
  /\ \A r \in Pass : f.pass[r].begun \/ f.pass[r].query = Nothing
  /\ \A r, s \in Pass : f.pass[r].query = f.pass[s].query /\ r # s => f.pass[r].query = Nothing

\* An image that is half gone is named by nothing.
HalfGone(f) ==
  \A i \in Image : f.state[i] = "gone" =>
    /\ \A r \in Pass : i \notin {f.pass[r].color, f.pass[r].depth}
    /\ \A p \in Pipeline : i \notin f.plan[p]

FrontInv(f) == FrontType(f) /\ Counted(f) /\ Sound(f) /\ PassesHold(f) /\ HalfGone(f)

LEMMA KindsApart ==
  /\ \A x \in Image : x \notin Buffer \cup Memory \cup Timeline \cup Pipeline \cup Sampler \cup Pass \cup QueryPool
  /\ \A x \in Buffer : x \notin Memory \cup Timeline \cup Pipeline \cup Sampler \cup Pass \cup QueryPool
  /\ \A x \in Memory : x \notin Timeline \cup Pipeline \cup Sampler \cup Pass \cup QueryPool
  /\ \A x \in Timeline : x \notin Pipeline \cup Sampler \cup Pass \cup QueryPool
  /\ \A x \in Pipeline : x \notin Sampler \cup Pass \cup QueryPool
  /\ \A x \in Sampler : x \notin Pass \cup QueryPool
  /\ \A x \in Pass : x \notin QueryPool
  /\ \A x \in Kinds : x # Nothing /\ x # "heap"
<1>1. \A j, k \in Kind : j # k => Of(j) \cap Of(k) = {}
  BY PassesAssumption
<1>2. /\ Of("image") = Image /\ Of("buffer") = Buffer /\ Of("memory") = Memory
      /\ Of("timeline") = Timeline /\ Of("pipeline") = Pipeline /\ Of("sampler") = Sampler
      /\ Of("render_pass") = Pass /\ Of("query") = QueryPool
  BY DEF Of
<1>3. \A x \in Kinds : x # Nothing /\ x # "heap"
  BY PassesAssumption DEF Kinds
<1> QED
  BY <1>1, <1>2, <1>3 DEF Kind

LEMMA KindsAre ==
  /\ Kinds = Image \cup Buffer \cup Memory \cup Timeline \cup Pipeline \cup Sampler \cup Pass \cup QueryPool
  /\ \A k \in Kind : IsFiniteSet(Of(k)) /\ Of(k) \subseteq Kinds
  /\ Object \subseteq Kinds
<1>1. /\ Of("image") = Image /\ Of("buffer") = Buffer /\ Of("memory") = Memory
      /\ Of("timeline") = Timeline /\ Of("pipeline") = Pipeline /\ Of("sampler") = Sampler
      /\ Of("render_pass") = Pass /\ Of("query") = QueryPool
  BY DEF Of
<1>2. Kinds = Image \cup Buffer \cup Memory \cup Timeline \cup Pipeline \cup Sampler \cup Pass \cup QueryPool
  BY <1>1 DEF Kinds, Kind
<1>3. \A k \in Kind : IsFiniteSet(Of(k)) /\ Of(k) \subseteq Kinds
  BY PassesAssumption DEF Kinds
<1> QED
  BY <1>2, <1>3 DEF Object

\* Two sets that differ in one member at most.
LEMMA OneMember ==
  ASSUME NEW T, NEW U, NEW r, IsFiniteSet(T), \A s : s # r => (s \in T <=> s \in U)
  PROVE  /\ IsFiniteSet(U) /\ Cardinality(T) \in Nat /\ Cardinality(U) \in Nat
         /\ Cardinality(U) = Cardinality(T) + (IF r \in U THEN 1 ELSE 0)
                                           - (IF r \in T THEN 1 ELSE 0)
<1>1. Cardinality(T) \in Nat
  BY FS_CardinalityType
<1>2. IsFiniteSet(T \cup {r}) /\ IsFiniteSet(T \ {r})
  BY FS_AddElement, FS_RemoveElement
<1>3. U = IF r \in U THEN T \cup {r} ELSE T \ {r}
  OBVIOUS
<1>4. IsFiniteSet(U)
  BY <1>2, <1>3
<1>5. Cardinality(U) \in Nat
  BY <1>4, FS_CardinalityType
<1>6. Cardinality(U) = IF r \in U THEN (IF r \in T THEN Cardinality(T) ELSE Cardinality(T) + 1)
                       ELSE (IF r \in T THEN Cardinality(T) - 1 ELSE Cardinality(T))
  BY <1>3, FS_AddElement, FS_RemoveElement
<1> QED
  BY <1>1, <1>4, <1>5, <1>6

LEMMA MovesKeeps ==
  ASSUME NEW f, NEW g, FrontInv(f), Moves(f, g)
  PROVE  FrontInv(g)
<1>1. /\ Shaped(g) /\ g.live = f.live /\ g.count = f.count /\ g.home = f.home
      /\ g.passes = f.passes /\ g.vertexBinds = f.vertexBinds /\ g.indexBinds = f.indexBinds
      /\ g.pipelineRefs = f.pipelineRefs /\ g.passBinds = f.passBinds
      /\ g.layoutRefs = f.layoutRefs /\ g.plan = f.plan /\ g.sampler = f.sampler
      /\ g.pass = f.pass /\ g.active = f.active /\ g.value = f.value
      /\ \A i \in Image : g.state[i] = "gone" <=> f.state[i] = "gone"
  BY DEF Moves, Counters, Fields
<1>2. FrontType(g)
  BY <1>1 DEF FrontInv, FrontType
<1>3. \A field, x : Uses(g, field, x) = Uses(f, field, x)
  BY <1>1 DEF Uses
<1>4. Counted(g)
  BY <1>1, <1>3 DEF FrontInv, Counted
<1>5. Sound(g) /\ PassesHold(g) /\ HalfGone(g)
  BY <1>1 DEF FrontInv, Sound, PassesHold, HalfGone
<1> QED
  BY <1>2, <1>4, <1>5 DEF FrontInv

-----------------------------------------------------------------------------
(* Objects that come and go.                                               *)

LEMMA KindIs ==
  /\ Of("image") = Image /\ Of("buffer") = Buffer /\ Of("memory") = Memory
  /\ Of("timeline") = Timeline /\ Of("pipeline") = Pipeline /\ Of("sampler") = Sampler
  /\ Of("render_pass") = Pass /\ Of("query") = QueryPool
  BY DEF Of

LEMMA MadeInv ==
  ASSUME NEW f, FrontInv(f), NEW kind \in Kind, NEW x \in Of(kind), x \notin f.live
  PROVE  /\ FrontInv(Made(f, kind, x))
         /\ Made(f, kind, x).live = f.live \cup {x}
<1> DEFINE g == Made(f, kind, x)
<1>1. FrontType(f)
  BY DEF FrontInv
<1>2. /\ Shaped(g) /\ g.live = f.live \cup {x}
      /\ g.count = [f.count EXCEPT ![kind] = @ + 1]
      /\ \A field \in Fields \ {"live", "count"} : g[field] = f[field]
  BY <1>1 DEF Made, FrontType, Shaped, Fields
<1> HIDE DEF g
<1>3. /\ g.home = f.home /\ g.state = f.state
      /\ g.passes = f.passes /\ g.vertexBinds = f.vertexBinds /\ g.indexBinds = f.indexBinds
      /\ g.pipelineRefs = f.pipelineRefs /\ g.passBinds = f.passBinds
      /\ g.layoutRefs = f.layoutRefs /\ g.plan = f.plan /\ g.sampler = f.sampler
      /\ g.pass = f.pass /\ g.active = f.active /\ g.value = f.value
  BY <1>2 DEF Fields
<1>4. FrontType(g)
  <2>1. x \in Kinds
    BY KindsAre
  <2>2. g.count \in [Kind -> Int]
    BY <1>1, <1>2 DEF FrontType
  <2> QED BY <1>1, <1>2, <1>3, <2>1, <2>2 DEF FrontType
<1>5. \A k \in Kind : g.count[k] = Cardinality(g.live \cap Of(k))
  <2> TAKE k \in Kind
  <2>1. f.count[k] = Cardinality(f.live \cap Of(k)) /\ f.count[k] \in Int
    BY <1>1 DEF FrontInv, Counted, FrontType
  <2>2. IsFiniteSet(f.live \cap Of(k))
    BY KindsAre, FS_Subset
  <2>3. CASE k = kind
    <3>1. g.live \cap Of(k) = (f.live \cap Of(k)) \cup {x}
      BY <1>2, <2>3
    <3>2. Cardinality(g.live \cap Of(k)) = Cardinality(f.live \cap Of(k)) + 1
      BY <2>2, <3>1, FS_AddElement
    <3> QED BY <1>1, <1>2, <2>1, <2>3, <3>2 DEF FrontType
  <2>4. CASE k # kind
    <3>1. g.live \cap Of(k) = f.live \cap Of(k)
      BY <1>2, <2>4, PassesAssumption
    <3> QED BY <1>1, <1>2, <2>1, <2>4, <3>1 DEF FrontType
  <2> QED BY <2>3, <2>4
<1>6. \A field, y : Uses(g, field, y) = Uses(f, field, y)
  BY <1>3 DEF Uses
<1>7. Counted(g)
  BY <1>3, <1>5, <1>6 DEF FrontInv, Counted
<1>8. Sound(g) /\ PassesHold(g) /\ HalfGone(g)
  BY <1>2, <1>3 DEF FrontInv, Sound, PassesHold, HalfGone
<1> QED
  BY <1>2, <1>4, <1>7, <1>8 DEF FrontInv, g

\* No object of f names x.
Unused(f, x) ==
  /\ \A r \in Pass : x \notin {f.pass[r][y] : y \in {"color", "depth", "vertex", "index", "pipeline", "query"}}
  /\ \A p \in Pipeline : x \notin f.plan[p] \cup {f.sampler[p]}
  /\ \A o \in Object : f.home[o] # x
  /\ x \in Image => f.state[x] # "gone"
  /\ x \in Pass => f.pass[x] = NoPass

LEMMA GoneInv ==
  ASSUME NEW f, FrontInv(f), NEW kind \in Kind, NEW x \in Of(kind), x \in f.live, Unused(f, x)
  PROVE  /\ FrontInv(Gone(f, kind, x))
         /\ Gone(f, kind, x).live = f.live \ {x}
<1> DEFINE g == Gone(f, kind, x)
<1>1. FrontType(f)
  BY DEF FrontInv
<1>2. /\ Shaped(g) /\ g.live = f.live \ {x}
      /\ g.count = [f.count EXCEPT ![kind] = @ - 1]
      /\ \A field \in Fields \ {"live", "count"} : g[field] = f[field]
  BY <1>1 DEF Gone, FrontType, Shaped, Fields
<1> HIDE DEF g
<1>3. /\ g.home = f.home /\ g.state = f.state
      /\ g.passes = f.passes /\ g.vertexBinds = f.vertexBinds /\ g.indexBinds = f.indexBinds
      /\ g.pipelineRefs = f.pipelineRefs /\ g.passBinds = f.passBinds
      /\ g.layoutRefs = f.layoutRefs /\ g.plan = f.plan /\ g.sampler = f.sampler
      /\ g.pass = f.pass /\ g.active = f.active /\ g.value = f.value
  BY <1>2 DEF Fields
<1>4. FrontType(g)
  <2>1. g.count \in [Kind -> Int]
    BY <1>1, <1>2 DEF FrontType
  <2> QED BY <1>1, <1>2, <1>3, <2>1 DEF FrontType
<1>5. \A k \in Kind : g.count[k] = Cardinality(g.live \cap Of(k))
  <2> TAKE k \in Kind
  <2>1. f.count[k] = Cardinality(f.live \cap Of(k)) /\ f.count[k] \in Int
    BY <1>1 DEF FrontInv, Counted, FrontType
  <2>2. IsFiniteSet(f.live \cap Of(k))
    BY KindsAre, FS_Subset
  <2>3. CASE k = kind
    <3>1. g.live \cap Of(k) = (f.live \cap Of(k)) \ {x} /\ x \in f.live \cap Of(k)
      BY <1>2, <2>3
    <3>2. Cardinality(g.live \cap Of(k)) = Cardinality(f.live \cap Of(k)) - 1
      BY ZenonT(60), <2>2, <3>1, FS_RemoveElement
    <3> QED BY <1>1, <1>2, <2>1, <2>3, <3>2 DEF FrontType
  <2>4. CASE k # kind
    <3>1. g.live \cap Of(k) = f.live \cap Of(k)
      BY <1>2, <2>4, PassesAssumption
    <3> QED BY <1>1, <1>2, <2>1, <2>4, <3>1 DEF FrontType
  <2> QED BY <2>3, <2>4
<1>6. \A field, y : Uses(g, field, y) = Uses(f, field, y)
  BY <1>3 DEF Uses
<1>7. Counted(g)
  BY <1>3, <1>5, <1>6 DEF FrontInv, Counted
<1>8. Sound(g)
  <2>1. \A r \in Pass : {f.pass[r][y] : y \in {"color", "depth", "vertex", "index", "pipeline", "query"}}
                          \subseteq f.live \cup {Nothing}
    BY DEF FrontInv, Sound
  <2>2. \A r \in Pass : {g.pass[r][y] : y \in {"color", "depth", "vertex", "index", "pipeline", "query"}}
                          \subseteq g.live \cup {Nothing}
    BY <1>2, <1>3, <2>1 DEF Unused
  <2>3. \A p \in Pipeline : g.plan[p] \cup {g.sampler[p]} \subseteq g.live \cup {Nothing}
    BY <1>2, <1>3 DEF Unused, FrontInv, Sound
  <2>4. {g.home[o] : o \in Object} \subseteq g.live \cup {"heap", Nothing}
    BY <1>2, <1>3 DEF Unused, FrontInv, Sound
  <2>5. \A i \in Image : g.state[i] = "gone" => i \in g.live
    BY <1>2, <1>3 DEF Unused, FrontInv, Sound
  <2> QED BY <2>2, <2>3, <2>4, <2>5 DEF Sound
<1>9. PassesHold(g) /\ HalfGone(g)
  BY <1>2, <1>3 DEF FrontInv, PassesHold, HalfGone, Unused
<1> QED
  BY <1>2, <1>4, <1>7, <1>8, <1>9 DEF FrontInv, g

\* The memory and the state of an object change.
LEMMA SettledInv ==
  ASSUME NEW f, FrontInv(f), NEW g, Shaped(g), NEW o \in Object,
         NEW m \in (f.live \cap Memory) \cup {"heap", Nothing},
         g.home = [f.home EXCEPT ![o] = m],
         \A x \in Counters \ {"home"} : g[x] = f[x],
         \A i \in Image : g.state[i] = "gone" => f.state[i] = "gone"
  PROVE  FrontInv(g)
<1>1. FrontType(f)
  BY DEF FrontInv
<1>2. /\ g.live = f.live /\ g.count = f.count
      /\ g.passes = f.passes /\ g.vertexBinds = f.vertexBinds /\ g.indexBinds = f.indexBinds
      /\ g.pipelineRefs = f.pipelineRefs /\ g.passBinds = f.passBinds
      /\ g.layoutRefs = f.layoutRefs /\ g.plan = f.plan /\ g.sampler = f.sampler
      /\ g.pass = f.pass /\ g.active = f.active /\ g.value = f.value
  BY DEF Counters, Fields
<1>3. FrontType(g)
  <2>1. g.home \in [Object -> Memory \cup {"heap", Nothing}]
    BY <1>1 DEF FrontType
  <2> QED BY <1>1, <1>2, <2>1 DEF FrontType
<1>4. \A field, x : Uses(g, field, x) = Uses(f, field, x)
  BY <1>2 DEF Uses
<1>5. Counted(g)
  BY <1>2, <1>4 DEF FrontInv, Counted
<1>6. Sound(g)
  <2>1. {g.home[x] : x \in Object} \subseteq g.live \cup {"heap", Nothing}
    BY <1>1, <1>2 DEF FrontInv, Sound, FrontType
  <2> QED BY <1>2, <2>1 DEF FrontInv, Sound
<1>7. PassesHold(g) /\ HalfGone(g)
  BY <1>2 DEF FrontInv, PassesHold, HalfGone
<1> QED
  BY <1>3, <1>5, <1>6, <1>7 DEF FrontInv

One(b) == IF b THEN 1 ELSE 0

\* Pass r of f becomes the record n.
UsesNow(f, r, n, field, x) ==
  Uses(f, field, x) + One(n[field] = x) - One(f.pass[r][field] = x)

LEMMA PassUses ==
  ASSUME NEW f, FrontInv(f), NEW r \in Pass, NEW n, NEW g,
         g.pass = [f.pass EXCEPT ![r] = n], NEW field, NEW x
  PROVE  /\ Uses(f, field, x) \in Nat /\ Uses(g, field, x) \in Nat
         /\ Uses(g, field, x) = UsesNow(f, r, n, field, x)
<1> DEFINE T == {s \in Pass : f.pass[s][field] = x}
           U == {s \in Pass : g.pass[s][field] = x}
<1>1. DOMAIN f.pass = Pass
  BY DEF FrontInv, FrontType
<1>2. IsFiniteSet(T)
  BY PassesAssumption, KindIs, FS_Subset DEF Kind
<1>3. \A s : s # r => (s \in T <=> s \in U)
  BY <1>1
<1>4. (r \in U <=> n[field] = x) /\ (r \in T <=> f.pass[r][field] = x)
  BY <1>1
<1>5. Uses(f, field, x) = Cardinality(T) /\ Uses(g, field, x) = Cardinality(U)
  BY DEF Uses
<1> HIDE DEF T, U
<1>6. /\ Cardinality(T) \in Nat /\ Cardinality(U) \in Nat
      /\ Cardinality(U) = Cardinality(T) + (IF r \in U THEN 1 ELSE 0)
                                         - (IF r \in T THEN 1 ELSE 0)
  BY <1>2, <1>3, OneMember
<1> QED
  BY <1>4, <1>5, <1>6 DEF UsesNow, One

\* No two passes run the same query, so the active ones are those named.
LEMMA QueriesOnce ==
  ASSUME NEW f, DOMAIN f.pass = Pass, NEW q \in QueryPool,
         \A r, s \in Pass : f.pass[r].query = f.pass[s].query /\ r # s => f.pass[r].query = Nothing
  PROVE  Uses(f, "query", q) = 1 <=> \E r \in Pass : f.pass[r].query = q
<1> DEFINE T == {s \in Pass : f.pass[s]["query"] = q}
<1>1. q # Nothing
  BY KindsApart, KindsAre
<1>2. CASE \E r \in Pass : f.pass[r].query = q
  <2>1. PICK r \in Pass : f.pass[r].query = q
    BY <1>2
  <2>2. T = {r}
    BY <1>1, <2>1
  <2> QED BY <1>2, <2>2, FS_Singleton DEF Uses
<1>3. CASE ~(\E r \in Pass : f.pass[r].query = q)
  <2>1. T = {}
    BY <1>3
  <2> QED BY <1>3, <2>1, FS_EmptySet DEF Uses
<1> QED
  BY <1>2, <1>3

LEMMA PassInv ==
  ASSUME NEW f, FrontInv(f), NEW g, Shaped(g), NEW r \in Pass, r \in f.live,
         NEW n \in PassRecord,
         \A x \in Counters \ {"pass", "passes", "vertexBinds", "indexBinds", "passBinds", "active"} :
           g[x] = f[x],
         g.state = f.state,
         g.pass = [f.pass EXCEPT ![r] = n],
         g.passes \in [Image -> Int], g.vertexBinds \in [Buffer -> Int],
         g.indexBinds \in [Buffer -> Int], g.passBinds \in [Pipeline -> Int],
         \A i \in Image : g.passes[i] = f.passes[i] + One(n.color = i) - One(f.pass[r].color = i)
                                                    + One(n.depth = i) - One(f.pass[r].depth = i),
         \A b \in Buffer : g.vertexBinds[b] = f.vertexBinds[b] + One(n.vertex = b) - One(f.pass[r].vertex = b),
         \A b \in Buffer : g.indexBinds[b] = f.indexBinds[b] + One(n.index = b) - One(f.pass[r].index = b),
         \A p \in Pipeline : g.passBinds[p] = f.passBinds[p] + One(n.pipeline = p) - One(f.pass[r].pipeline = p),
         g.active = (f.active \ {f.pass[r].query}) \cup ({n.query} \ {Nothing}),
         n.query # f.pass[r].query => n.query \notin f.active,
         {n.color, n.depth, n.vertex, n.index, n.pipeline, n.query} \subseteq f.live \cup {Nothing},
         \A i \in {n.color, n.depth} : i # Nothing => f.state[i] # "gone",
         n.begun \/ n.query = Nothing
  PROVE  FrontInv(g)
<1>1. FrontType(f) /\ DOMAIN f.pass = Pass /\ f.pass[r] \in PassRecord
  BY DEF FrontInv, FrontType
<1>2. /\ g.live = f.live /\ g.count = f.count /\ g.home = f.home
      /\ g.pipelineRefs = f.pipelineRefs
      /\ g.layoutRefs = f.layoutRefs /\ g.plan = f.plan /\ g.sampler = f.sampler
      /\ g.value = f.value
  BY DEF Counters, Fields
<1>3. \A s \in Pass : g.pass[s] = IF s = r THEN n ELSE f.pass[s]
  BY <1>1
<1>4. DOMAIN g.pass = Pass /\ g.pass \in [Pass -> PassRecord]
  BY <1>1, <1>3 DEF FrontType
<1>5. FrontType(g)
  <2>1. n.query \in QueryPool \cup {Nothing}
    BY DEF PassRecord
  <2>2. g.active \subseteq QueryPool
    BY <1>1, <2>1 DEF FrontType
  <2> QED BY <1>1, <1>2, <1>4, <2>2 DEF FrontType
<1>6. \A field, x : /\ Uses(f, field, x) \in Nat /\ Uses(g, field, x) \in Nat
                    /\ Uses(g, field, x) = UsesNow(f, r, n, field, x)
  <2> TAKE field, x
  <2> HIDE DEF One
  <2> QED BY ONLY PassUses, FrontInv(f), r \in Pass, g.pass = [f.pass EXCEPT ![r] = n]
<1>7. PassesHold(g)
  <2>1. f.active = {q \in QueryPool : Uses(f, "query", q) = 1}
    BY DEF FrontInv, Counted
  <2>2. \A q \in QueryPool : q \in f.active <=> \E s \in Pass : f.pass[s].query = q
    BY <1>1, <2>1, QueriesOnce DEF FrontInv, PassesHold
  <2>3. n.query \in QueryPool \cup {Nothing}
    BY DEF PassRecord
  <2>4. \A s \in Pass : s # r /\ n.query # Nothing => f.pass[s].query # n.query
    BY <2>2, <2>3 DEF FrontInv, PassesHold
  <2>5. \A s, t \in Pass : g.pass[s].query = g.pass[t].query /\ s # t => g.pass[s].query = Nothing
    BY <1>3, <2>4 DEF FrontInv, PassesHold
  <2> QED BY <1>2, <1>3, <2>5 DEF FrontInv, PassesHold
<1>8. g.active = {q \in QueryPool : Uses(g, "query", q) = 1}
  <2>1. f.active = {q \in QueryPool : Uses(f, "query", q) = 1}
    BY DEF FrontInv, Counted
  <2>2. \A q \in QueryPool : q \in f.active <=> \E s \in Pass : f.pass[s].query = q
    BY <1>1, <2>1, QueriesOnce DEF FrontInv, PassesHold
  <2>3. \A q \in QueryPool : Uses(g, "query", q) = 1 <=> \E s \in Pass : g.pass[s].query = q
    BY <1>4, <1>7, QueriesOnce DEF PassesHold
  <2>4. \A q \in QueryPool : q # Nothing
    BY KindsApart, KindsAre
  <2>5. \A q \in QueryPool : q \in g.active <=> \E s \in Pass : g.pass[s].query = q
    <3> TAKE q \in QueryPool
    <3>1. q \in g.active <=> (q \in f.active /\ q # f.pass[r].query) \/ q = n.query
      BY <2>4
    <3>2. (\E s \in Pass : g.pass[s].query = q) <=> n.query = q \/ \E s \in Pass : s # r /\ f.pass[s].query = q
      BY <1>3
    <3>3. (\E s \in Pass : s # r /\ f.pass[s].query = q) => q \in f.active /\ q # f.pass[r].query
      BY <2>2, <2>4 DEF FrontInv, PassesHold
    <3> QED BY <2>2, <3>1, <3>2, <3>3
  <2> QED BY <1>5, <2>3, <2>5 DEF FrontType
<1>9. Counted(g)
  <2>1. Counted(f)
    BY DEF FrontInv
  <2>2. \A i \in Image : g.passes[i] = Uses(g, "color", i) + Uses(g, "depth", i)
    <3> TAKE i \in Image
    <3>1. f.passes[i] = Uses(f, "color", i) + Uses(f, "depth", i)
      BY <2>1 DEF Counted
    <3>2. \A b : One(b) \in Int
      BY DEF One
    <3> QED BY <1>6, <3>1, <3>2 DEF UsesNow
  <2>3. \A b \in Buffer : g.vertexBinds[b] = Uses(g, "vertex", b) /\ g.indexBinds[b] = Uses(g, "index", b)
    BY <1>6, <2>1 DEF UsesNow, Counted
  <2>4. \A p \in Pipeline : g.passBinds[p] = Uses(g, "pipeline", p)
    BY <1>6, <2>1 DEF UsesNow, Counted
  <2> QED BY <1>2, <1>8, <2>1, <2>2, <2>3, <2>4 DEF Counted
<1>10. Sound(g)
  <2>1. \A s \in Pass : {g.pass[s][x] : x \in {"color", "depth", "vertex", "index", "pipeline", "query"}}
                       \subseteq g.live \cup {Nothing}
    BY <1>2, <1>3 DEF FrontInv, Sound
  <2> QED BY <1>2, <2>1 DEF FrontInv, Sound
<1>11. HalfGone(g)
  <2>1. \A x \in Image : x # Nothing
    BY KindsApart, KindsAre
  <2> QED BY <1>2, <1>3, <2>1 DEF FrontInv, HalfGone
<1> QED
  BY <1>5, <1>7, <1>9, <1>10, <1>11 DEF FrontInv

-----------------------------------------------------------------------------
(* What a call does for those who go by counts of their own.               *)

\* What nobody but the owner of a pass, a layout or a timeline changes.
Outside(f, g) ==
  /\ \A r \in Pass : g.pass[r].begun = f.pass[r].begun
  /\ \A p \in Pipeline \cap f.live \cap g.live : g.layoutRefs[p] = f.layoutRefs[p]
  /\ \A t \in Timeline \cap f.live \cap g.live : g.value[t] = f.value[t]
  /\ \A i \in Image : g.state[i] = "gone" => f.state[i] = "gone"

Leaves(f, g) == FrontInv(g) /\ Outside(f, g) /\ g.live = f.live

\* A call that makes x, or fails; one that ends x, or fails.
Opens(f, r, x) ==
  FrontInv(r.now) /\ Outside(f, r.now) /\ r.now.live = IF r.ok THEN f.live \cup {x} ELSE f.live
Closes(f, r, x) ==
  FrontInv(r.now) /\ Outside(f, r.now) /\ r.now.live = IF r.ok THEN f.live \ {x} ELSE f.live

LEMMA MovesLeaves ==
  ASSUME NEW f, NEW g, FrontInv(f), Moves(f, g)
  PROVE  Leaves(f, g)
<1>1. g.live = f.live /\ g.pass = f.pass /\ g.layoutRefs = f.layoutRefs /\ g.value = f.value
  BY DEF Moves, Counters, Fields
<1> QED
  BY <1>1, MovesKeeps DEF Leaves, Outside, Moves

LEMMA LeavesOn ==
  ASSUME NEW f, NEW g, NEW h, Leaves(f, g), Leaves(g, h)
  PROVE  Leaves(f, h)
  BY DEF Leaves, Outside

LEMMA LeavesThenOpens ==
  ASSUME NEW f, NEW g, NEW r, NEW x, Leaves(f, g), Opens(g, r, x)
  PROVE  Opens(f, r, x)
  BY DEF Leaves, Opens, Outside

LEMMA LeavesThenCloses ==
  ASSUME NEW f, NEW g, NEW r, NEW x, Leaves(f, g), Closes(g, r, x)
  PROVE  Closes(f, r, x)
  BY DEF Leaves, Closes, Outside

LEMMA Refuses ==
  ASSUME NEW f, NEW g, Leaves(f, g), NEW x
  PROVE  Opens(f, Refused(g), x) /\ Closes(f, Refused(g), x)
  BY DEF Leaves, Opens, Closes, Refused

LEMMA OpensThenMoves ==
  ASSUME NEW f, NEW g, NEW h, NEW x, Opens(f, Done(g), x), Leaves(g, h)
  PROVE  Opens(f, Done(h), x)
  BY DEF Leaves, Opens, Outside, Done

LEMMA ClosesThenMoves ==
  ASSUME NEW f, NEW g, NEW h, NEW x, Closes(f, Done(g), x), Leaves(g, h)
  PROVE  Closes(f, Done(h), x)
  BY DEF Leaves, Closes, Outside, Done

LEMMA StaysItself ==
  ASSUME NEW f, FrontInv(f) PROVE Leaves(f, f) /\ Shaped(f)
  BY DEF Leaves, Outside, FrontInv, FrontType

LEMMA MadeOpens ==
  ASSUME NEW f, FrontInv(f), NEW kind \in Kind, NEW x \in Of(kind), x \notin f.live
  PROVE  Opens(f, Done(Made(f, kind, x)), x)
<1> DEFINE g == Made(f, kind, x)
<1>1. FrontInv(g) /\ g.live = f.live \cup {x}
  BY MadeInv
<1>2. g.pass = f.pass /\ g.layoutRefs = f.layoutRefs /\ g.value = f.value /\ g.state = f.state
  BY StaysItself DEF Made, Shaped, Fields
<1> HIDE DEF g
<1>3. Outside(f, g)
  BY <1>2 DEF Outside
<1> QED
  BY <1>1, <1>3 DEF Opens, Done, g

LEMMA GoneCloses ==
  ASSUME NEW f, FrontInv(f), NEW kind \in Kind, NEW x \in Of(kind), x \in f.live, Unused(f, x)
  PROVE  Closes(f, Done(Gone(f, kind, x)), x)
<1> DEFINE g == Gone(f, kind, x)
<1>1. FrontInv(g) /\ g.live = f.live \ {x}
  BY GoneInv
<1>2. g.pass = f.pass /\ g.layoutRefs = f.layoutRefs /\ g.value = f.value /\ g.state = f.state
  BY StaysItself DEF Gone, Shaped, Fields
<1> HIDE DEF g
<1>3. Outside(f, g)
  BY <1>2 DEF Outside
<1> QED
  BY <1>1, <1>3 DEF Closes, Done, g

LEMMA SettledLeaves ==
  ASSUME NEW f, FrontInv(f), NEW g, Shaped(g), NEW o \in Object,
         NEW m \in (f.live \cap Memory) \cup {"heap", Nothing},
         g.home = [f.home EXCEPT ![o] = m],
         \A x \in Counters \ {"home"} : g[x] = f[x],
         \A i \in Image : g.state[i] = "gone" => f.state[i] = "gone"
  PROVE  Leaves(f, g)
<1>1. g.live = f.live /\ g.pass = f.pass /\ g.layoutRefs = f.layoutRefs /\ g.value = f.value
  BY DEF Counters, Fields
<1> QED
  BY <1>1, SettledInv DEF Leaves, Outside

-----------------------------------------------------------------------------
(* Images, buffers and memories.                                           *)

\* What names nothing of the kind, by what kind it is.
LEMMA NamesAre ==
  ASSUME NEW f, FrontInv(f)
  PROVE  /\ \A r \in Pass : /\ f.pass[r].color \in Image \cup {Nothing}
                            /\ f.pass[r].depth \in Image \cup {Nothing}
                            /\ f.pass[r].vertex \in Buffer \cup {Nothing}
                            /\ f.pass[r].index \in Buffer \cup {Nothing}
                            /\ f.pass[r].pipeline \in Pipeline \cup {Nothing}
                            /\ f.pass[r].query \in QueryPool \cup {Nothing}
         /\ \A p \in Pipeline : f.plan[p] \subseteq Object /\ f.sampler[p] \in Sampler \cup {Nothing}
         /\ \A o \in Object : f.home[o] \in Memory \cup {"heap", Nothing}
  BY DEF FrontInv, FrontType, PassRecord

\* A count of no names is of none.
LEMMA NoUses ==
  ASSUME NEW f, FrontInv(f), NEW field, NEW x
  PROVE  /\ Uses(f, field, x) \in Nat
         /\ Uses(f, field, x) = 0 => \A r \in Pass : f.pass[r][field] # x
<1>1. IsFiniteSet({r \in Pass : f.pass[r][field] = x})
  BY PassesAssumption, KindIs, FS_Subset DEF Kind
<1> QED
  BY <1>1, FS_CardinalityType, FS_EmptySet DEF Uses

LEMMA UnusedBuffer ==
  ASSUME NEW f, FrontInv(f), NEW b \in Buffer,
         f.vertexBinds[b] = 0, f.indexBinds[b] = 0, \A p \in Pipeline : b \notin f.plan[p]
  PROVE  Unused(f, b)
<1>1. \A r \in Pass : f.pass[r].vertex # b /\ f.pass[r].index # b
  BY NoUses DEF FrontInv, Counted
<1>2. \A r \in Pass : b \notin {f.pass[r].color, f.pass[r].depth, f.pass[r].pipeline, f.pass[r].query}
  BY NamesAre, KindsApart, KindsAre
<1>3. \A p \in Pipeline : f.sampler[p] # b
  BY NamesAre, KindsApart, KindsAre
<1>4. \A o \in Object : f.home[o] # b
  BY NamesAre, KindsApart, KindsAre
<1>5. b \notin Image /\ b \notin Pass
  BY KindsApart
<1> QED
  BY <1>1, <1>2, <1>3, <1>4, <1>5 DEF Unused

LEMMA FreshLeaves ==
  ASSUME NEW f, FrontInv(f), NEW o \in Object, NEW home \in {"heap", Nothing}
  PROVE  Leaves(f, Fresh(f, o, home))
<1> DEFINE g == Fresh(f, o, home)
<1>1. Shaped(f)
  BY StaysItself
<1>2. /\ Shaped(g) /\ g.home = [f.home EXCEPT ![o] = home] /\ g.state = f.state
      /\ \A x \in Counters \ {"home"} : g[x] = f[x]
  BY <1>1 DEF Fresh, Shaped, Counters, Fields
<1> HIDE DEF g
<1>3. Leaves(f, g)
  BY <1>2, SettledLeaves
<1> QED
  BY <1>3 DEF g

LEMMA ForgottenLeaves ==
  ASSUME NEW f, FrontInv(f)
  PROVE  Leaves(f, Forgotten(f)) /\ Leaves(f, [f EXCEPT !.listed = {}])
<1>1. Shaped(f)
  BY StaysItself
<1>2. Moves(f, Forgotten(f)) /\ Moves(f, [f EXCEPT !.listed = {}])
  BY <1>1 DEF Moves, Forgotten, Shaped, Counters, Fields
<1> QED
  BY <1>2, MovesLeaves

LEMMA MemoryOpens ==
  ASSUME NEW f, FrontInv(f), NEW m \in Memory, m \notin f.live
  PROVE  Opens(f, CreateMemory(f, m), m)
  BY MadeOpens, KindIs DEF CreateMemory, Kind

LEMMA MemoryCloses ==
  ASSUME NEW f, FrontInv(f), NEW m \in Memory, m \in f.live
  PROVE  Closes(f, DestroyMemory(f, m), m)
<1>1. CASE \E o \in Object : f.home[o] = m
  BY <1>1, Refuses, StaysItself DEF DestroyMemory
<1>2. CASE \A o \in Object : f.home[o] # m
  <2>1. /\ \A r \in Pass : m \notin {f.pass[r].color, f.pass[r].depth, f.pass[r].vertex,
                                     f.pass[r].index, f.pass[r].pipeline, f.pass[r].query}
        /\ \A p \in Pipeline : m \notin f.plan[p] \cup {f.sampler[p]}
        /\ m \notin Image /\ m \notin Pass
    BY NamesAre, KindsApart, KindsAre DEF Object
  <2>2. Unused(f, m)
    BY <1>2, <2>1 DEF Unused
  <2> QED BY <1>2, <2>2, GoneCloses, KindIs DEF DestroyMemory, Kind
<1> QED
  BY <1>1, <1>2

LEMMA BindMemoryLeaves ==
  ASSUME NEW f, FrontInv(f), NEW o \in Object, NEW m \in Memory, m \in f.live
  PROVE  Leaves(f, BindMemory(f, o, m).now)
<1> DEFINE g == [f EXCEPT !.home[o] = m]
<1>1. Shaped(f)
  BY StaysItself
<1>2. /\ Shaped(g) /\ g.home = [f.home EXCEPT ![o] = m] /\ g.state = f.state
      /\ \A x \in Counters \ {"home"} : g[x] = f[x]
  BY <1>1 DEF Shaped, Counters, Fields
<1>3. BindMemory(f, o, m).now \in {f, g}
  BY DEF BindMemory, Done, Refused
<1> HIDE DEF g
<1>4. Leaves(f, g)
  BY <1>2, SettledLeaves
<1> QED
  BY <1>4, <1>3, StaysItself

LEMMA BufferOpens ==
  ASSUME NEW f, FrontInv(f), NEW b \in Buffer, b \notin f.live, NEW home \in {"heap", Nothing}
  PROVE  Opens(f, CreateBuffer(f, b, home), b)
<1> DEFINE g == Fresh(f, b, home)
<1>1. Leaves(f, g)
  BY FreshLeaves DEF Object
<1>2. CreateBuffer(f, b, home) = Done(Made(g, "buffer", b))
  BY DEF CreateBuffer
<1> HIDE DEF g
<1>3. Opens(g, Done(Made(g, "buffer", b)), b)
  BY <1>1, MadeOpens, KindIs DEF Leaves, Kind
<1> QED
  BY <1>1, <1>2, <1>3, LeavesThenOpens

LEMMA BufferInVainOpens ==
  ASSUME NEW f, FrontInv(f), NEW b
  PROVE  Opens(f, CreateBufferInVain(f), b)
  BY ForgottenLeaves, Refuses DEF CreateBufferInVain

LEMMA BufferCloses ==
  ASSUME NEW f, FrontInv(f), NEW b \in Buffer, b \in f.live
  PROVE  Closes(f, DestroyBuffer(f, b), b)
<1> DEFINE used == \/ f.vertexBinds[b] # 0 \/ f.indexBinds[b] # 0
                   \/ b \in f.listed \/ \E p \in Pipeline : b \in f.plan[p]
           g == Fresh(f, b, Nothing)
           h == Gone(g, "buffer", b)
<1>1. CASE used
  BY <1>1, Refuses, StaysItself DEF DestroyBuffer
<1>2. CASE ~used
  <2>1. Leaves(f, g)
    BY FreshLeaves DEF Object
  <2>2. g.vertexBinds = f.vertexBinds /\ g.indexBinds = f.indexBinds /\ g.plan = f.plan
    BY StaysItself DEF Fresh, Shaped, Fields
  <2>3. DestroyBuffer(f, b) = Done([h EXCEPT !.listed = {}])
    BY <1>2 DEF DestroyBuffer
  <2>4. FrontInv(g) /\ b \in g.live
    BY <2>1 DEF Leaves
  <2> HIDE DEF g
  <2>5. Unused(g, b)
    BY <1>2, <2>4, <2>2, UnusedBuffer
  <2>6. Closes(g, Done(h), b)
    BY <2>4, <2>5, GoneCloses, KindIs DEF Kind
  <2> HIDE DEF h
  <2>7. FrontInv(h)
    BY <2>6 DEF Closes, Done
  <2>8. Closes(g, Done([h EXCEPT !.listed = {}]), b)
    BY <2>6, <2>7, ForgottenLeaves, ClosesThenMoves
  <2> QED BY <2>1, <2>3, <2>8, LeavesThenCloses
<1> QED
  BY <1>1, <1>2

LEMMA ImageOpens ==
  ASSUME NEW f, FrontInv(f), NEW i \in Image, i \notin f.live, NEW home \in {"heap", Nothing},
         NEW layout \in Layout, NEW left
  PROVE  Opens(f, CreateImage(f, i, home, layout, left), i)
<1> DEFINE h == Fresh(f, i, home)
           g == [h EXCEPT !.state[i] = "UNDEFINED", !.revisions[i] = left]
           r == Entered(g, i, layout)
<1>1. Leaves(f, h)
  BY FreshLeaves DEF Object
<1>2. Shaped(h) /\ FrontInv(h)
  BY <1>1, StaysItself DEF Leaves
<1>3. h.home \in [Object -> Memory \cup {"heap", Nothing}] /\ h.home[i] \in {"heap", Nothing}
  <2>1. h.home = [f.home EXCEPT ![i] = home] /\ i \in Object
    BY StaysItself DEF Fresh, Shaped, Fields, Object
  <2>2. f.home \in [Object -> Memory \cup {"heap", Nothing}]
    BY DEF FrontInv, FrontType
  <2> QED BY <2>1, <2>2
<1> HIDE DEF h
<1>4. /\ Shaped(g) /\ g.home = h.home /\ \A x \in Counters : g[x] = h[x]
      /\ \A j \in Image : g.state[j] = "gone" => h.state[j] = "gone"
  BY <1>2 DEF Shaped, Counters, Fields
<1>5. g.home = [h.home EXCEPT ![i] = h.home[i]]
  BY <1>3, <1>4
<1> HIDE DEF g
<1>6. Leaves(h, g)
  BY <1>2, <1>3, <1>4, <1>5, SettledLeaves DEF Object
<1>7. Leaves(f, g) /\ FrontInv(g)
  BY <1>1, <1>6, LeavesOn DEF Leaves
<1>8. Moves(g, r.now)
  BY <1>4, EnteredMoves DEF Layout, Carries
<1>9. CreateImage(f, i, home, layout, left) =
        IF r.ok THEN Done(Made(r.now, "image", i)) ELSE Refused(Forgotten(f))
  BY DEF CreateImage, g, h
<1> HIDE DEF r
<1>10. Leaves(f, r.now) /\ FrontInv(r.now) /\ i \notin r.now.live
  BY <1>7, <1>8, MovesLeaves, LeavesOn DEF Leaves
<1>11. Opens(r.now, Done(Made(r.now, "image", i)), i)
  BY <1>10, MadeOpens, KindIs DEF Kind
<1>12. Opens(f, Done(Made(r.now, "image", i)), i)
  BY <1>10, <1>11, LeavesThenOpens
<1> QED
  BY <1>9, <1>12, ForgottenLeaves, Refuses

LEMMA UnusedImage ==
  ASSUME NEW f, FrontInv(f), NEW i \in Image, f.passes[i] = 0,
         \A p \in Pipeline : i \notin f.plan[p]
  PROVE  /\ \A r \in Pass : i \notin {f.pass[r].color, f.pass[r].depth}
         /\ f.state[i] # "gone" => Unused(f, i)
<1>1. f.passes[i] = Uses(f, "color", i) + Uses(f, "depth", i)
  BY DEF FrontInv, Counted
<1>2. Uses(f, "color", i) = 0 /\ Uses(f, "depth", i) = 0
  <2>1. Uses(f, "color", i) \in Nat /\ Uses(f, "depth", i) \in Nat
    BY NoUses
  <2> QED BY <1>1, <2>1
<1>3. \A r \in Pass : f.pass[r].color # i /\ f.pass[r].depth # i
  BY <1>2, NoUses
<1>4. \A r \in Pass : i \notin {f.pass[r].vertex, f.pass[r].index, f.pass[r].pipeline, f.pass[r].query}
  BY NamesAre, KindsApart, KindsAre
<1>5. \A p \in Pipeline : f.sampler[p] # i
  BY NamesAre, KindsApart, KindsAre
<1>6. \A o \in Object : f.home[o] # i
  BY NamesAre, KindsApart, KindsAre
<1>7. i \notin Pass
  BY KindsApart
<1> QED
  BY <1>3, <1>4, <1>5, <1>6, <1>7 DEF Unused

\* The image that was to go may be half gone instead.
LEMMA ImageCloses ==
  ASSUME NEW f, FrontInv(f), NEW i \in Image, i \in f.live
  PROVE  LET r == DestroyImage(f, i)
         IN  /\ FrontInv(r.now)
             /\ r.now.live = IF r.ok THEN f.live \ {i} ELSE f.live
             /\ r.now.pass = f.pass /\ r.now.layoutRefs = f.layoutRefs /\ r.now.value = f.value
             /\ \A j \in Image \ {i} : r.now.state[j] = "gone" => f.state[j] = "gone"
             /\ \A j \in Image : r.now.state[j] = "gone" => j \in r.now.live
<1> DEFINE r == DestroyImage(f, i)
           g == [f EXCEPT !.state[i] = "gone"]
           h == [Fresh(f, i, Nothing) EXCEPT !.state[i] = "UNDEFINED"]
           e == Gone(h, "image", i)
           d == [Forgotten(Gone(Fresh(f, i, Nothing), "image", i))
                   EXCEPT !.state[i] = "UNDEFINED", !.revisions[i] = Plenty]
           kept == f.state[i] # "gone" /\ (f.retained = i \/ \E p \in Pipeline : i \in f.plan[p])
<1>1. Shaped(f) /\ Sound(f)
  BY StaysItself DEF FrontInv
<1>2. \A j \in Image : f.state[j] = "gone" => j \in f.live
  BY <1>1 DEF Sound
<1>3. CASE f.passes[i] # 0 \/ kept
  <2>1. r = Refused(f)
    BY <1>3 DEF DestroyImage
  <2> QED BY <1>2, <2>1 DEF Refused
<1>4. CASE f.passes[i] = 0 /\ ~kept
  <2>1. \A p \in Pipeline : i \notin f.plan[p]
    BY <1>4 DEF FrontInv, HalfGone
  <2>2. \A s \in Pass : i \notin {f.pass[s].color, f.pass[s].depth}
    BY <1>4, <2>1, UnusedImage
  <2>3. CASE i \in f.listed
    <3>1. r = Refused(g)
      BY <1>4, <2>3 DEF DestroyImage
    <3>2. /\ Shaped(g) /\ \A x \in Fields \ {"state"} : g[x] = f[x]
          /\ \A j \in Image \ {i} : g.state[j] = f.state[j]
      BY <1>1 DEF Shaped, Fields
    <3>3. r.now = g /\ ~r.ok
      BY <3>1 DEF Refused
    <3> HIDE DEF g
    <3>4. /\ g.live = f.live /\ g.count = f.count /\ g.home = f.home
          /\ g.passes = f.passes /\ g.vertexBinds = f.vertexBinds /\ g.indexBinds = f.indexBinds
          /\ g.pipelineRefs = f.pipelineRefs /\ g.passBinds = f.passBinds
          /\ g.layoutRefs = f.layoutRefs /\ g.plan = f.plan /\ g.sampler = f.sampler
          /\ g.pass = f.pass /\ g.active = f.active /\ g.value = f.value
      BY <3>2 DEF Fields
    <3>5. \A field, x : Uses(g, field, x) = Uses(f, field, x)
      BY <3>4 DEF Uses
    <3>6. FrontType(g) /\ Counted(g) /\ PassesHold(g)
      BY <3>2, <3>4, <3>5 DEF FrontInv, FrontType, Counted, PassesHold
    <3>7. \A j \in Image : g.state[j] = "gone" => j \in g.live
      BY <1>2, <3>2, <3>4
    <3>8. Sound(g)
      BY <1>1, <3>4, <3>7 DEF Sound
    <3>9. HalfGone(g)
      BY <2>1, <2>2, <3>2, <3>4 DEF FrontInv, HalfGone
    <3>10. FrontInv(g)
      BY <3>6, <3>8, <3>9 DEF FrontInv
    <3> QED BY <3>2, <3>3, <3>4, <3>7, <3>10
  <2>4. CASE i \notin f.listed
    <3>1. r = Done(d)
      BY <1>4, <2>4 DEF DestroyImage
    <3>2. /\ Shaped(h) /\ h.home = [f.home EXCEPT ![i] = Nothing]
          /\ \A x \in Counters \ {"home"} : h[x] = f[x]
          /\ h.state = [f.state EXCEPT ![i] = "UNDEFINED"]
      BY <1>1 DEF Fresh, Shaped, Counters, Fields
    <3>3. Moves(e, d)
      <4>1. DOMAIN d = Fields /\ DOMAIN d.state = Image
        BY <1>1 DEF Fresh, Gone, Forgotten, Shaped, Fields
      <4> DEFINE k == Forgotten(Gone(Fresh(f, i, Nothing), "image", i))
      <4>2. DOMAIN k = Fields /\ k.state = f.state
        BY <1>1 DEF Fresh, Gone, Forgotten, Shaped, Fields
      <4>3. d = [k EXCEPT !.state[i] = "UNDEFINED", !.revisions[i] = Plenty]
        OBVIOUS
      <4>4. e.state = h.state
        BY <3>2 DEF Gone, Shaped, Fields
      <4>5. \A x \in Counters \ {"live", "count", "home"} : k[x] = f[x]
        BY <1>1 DEF Fresh, Gone, Forgotten, Shaped, Counters, Fields
      <4>6. k.live = f.live \ {i} /\ k.count = [f.count EXCEPT !["image"] = @ - 1] /\ k.home = [f.home EXCEPT ![i] = Nothing]
        BY <1>1 DEF Fresh, Gone, Forgotten, Shaped, Fields
      <4>7. \A x \in Counters \ {"live", "count", "home"} : e[x] = f[x]
        BY <3>2 DEF Gone, Shaped, Counters, Fields
      <4>8. e.live = f.live \ {i} /\ e.count = [f.count EXCEPT !["image"] = @ - 1] /\ e.home = [f.home EXCEPT ![i] = Nothing]
        BY <3>2 DEF Gone, Shaped, Counters, Fields
      <4> HIDE DEF k, d, e
      <4>9. \A x \in Counters : d[x] = k[x]
        BY <4>2, <4>3 DEF Counters, Fields
      <4>10. \A x \in Counters : d[x] = e[x]
        BY <4>5, <4>6, <4>7, <4>8, <4>9
      <4>11. d.state = [f.state EXCEPT ![i] = "UNDEFINED"]
        BY <4>2, <4>3 DEF Fields
      <4>12. d.state = [f.state EXCEPT ![i] = "UNDEFINED"] /\ e.state = [f.state EXCEPT ![i] = "UNDEFINED"]
        BY <3>2, <4>4, <4>11
      <4> QED BY <4>1, <4>10, <4>12 DEF Moves, Shaped
    <3> HIDE DEF h
    <3>4. Leaves(f, h) /\ FrontInv(h)
      <4>1. \A j \in Image : h.state[j] = "gone" => f.state[j] = "gone"
        BY <1>1, <3>2 DEF Shaped
      <4>2. i \in Object /\ Nothing \in (f.live \cap Memory) \cup {"heap", Nothing}
        BY DEF Object
      <4>3. Shaped(h)
        BY <3>2
      <4>4. Leaves(f, h)
        <5>1. \A x \in Counters \ {"home"} : h[x] = f[x]
          BY <3>2
        <5>2. h.home = [f.home EXCEPT ![i] = Nothing]
          BY <3>2
        <5> QED BY ONLY FrontInv(f), <4>1, <4>2, <4>3, <5>1, <5>2, SettledLeaves
      <4> QED BY <4>4 DEF Leaves
    <3>5. /\ h.passes = f.passes /\ h.plan = f.plan /\ h.state[i] # "gone" /\ h.live = f.live
          /\ h.pass = f.pass /\ h.layoutRefs = f.layoutRefs /\ h.value = f.value
      BY <1>1, <3>2 DEF Shaped, Counters, Fields
    <3>6. Unused(h, i)
      BY <1>4, <2>1, <3>4, <3>5, UnusedImage
    <3>7. Closes(h, Done(e), i)
      BY <3>4, <3>5, <3>6, GoneCloses, KindIs DEF Kind
    <3>8. e.pass = h.pass /\ e.layoutRefs = h.layoutRefs /\ e.value = h.value /\ e.state = h.state
      BY <3>2 DEF Gone, Shaped, Fields
    <3> HIDE DEF e, d
    <3>9. FrontInv(e) /\ e.live = f.live \ {i}
      BY <3>5, <3>7 DEF Closes, Done
    <3>10. FrontInv(d)
      BY <3>3, <3>9, MovesKeeps
    <3>11. /\ d.live = e.live /\ d.pass = f.pass /\ d.layoutRefs = f.layoutRefs /\ d.value = f.value
           /\ \A j \in Image : d.state[j] = "gone" <=> h.state[j] = "gone"
      BY <3>3, <3>5, <3>8 DEF Moves, Counters, Fields
    <3>12. \A j \in Image \ {i} : d.state[j] = "gone" => f.state[j] = "gone"
      BY <1>1, <3>2, <3>11 DEF Shaped
    <3>13. \A j \in Image : d.state[j] = "gone" => j \in d.live
      BY <3>10 DEF FrontInv, Sound
    <3>14. r.now = d /\ r.ok
      BY <3>1 DEF Done
    <3> QED BY <3>9, <3>10, <3>11, <3>12, <3>13, <3>14
  <2> QED BY <2>3, <2>4
<1> QED
  BY <1>3, <1>4

-----------------------------------------------------------------------------
(* Samplers, pipelines, query pools and timelines.                         *)

LEMMA SamplerOpens ==
  ASSUME NEW f, FrontInv(f), NEW s \in Sampler, s \notin f.live
  PROVE  Opens(f, CreateSampler(f, s), s)
  BY MadeOpens, KindIs DEF CreateSampler, Kind

LEMMA QueryPoolOpens ==
  ASSUME NEW f, FrontInv(f), NEW q \in QueryPool, q \notin f.live
  PROVE  Opens(f, CreateQueryPool(f, q), q)
  BY MadeOpens, KindIs DEF CreateQueryPool, Kind

LEMMA TimelineOpens ==
  ASSUME NEW f, FrontInv(f), NEW t \in Timeline, t \notin f.live
  PROVE  Opens(f, CreateTimeline(f, t), t)
<1> DEFINE g == Made(f, "timeline", t)
           h == [g EXCEPT !.value[t] = 0]
<1>1. Opens(f, Done(g), t)
  BY MadeOpens, KindIs DEF Kind
<1>2. FrontInv(g) /\ Shaped(g) /\ g.live = f.live \cup {t}
  BY <1>1, StaysItself DEF Opens, Done
<1>3. CreateTimeline(f, t) = Done(h)
  BY DEF CreateTimeline
<1> HIDE DEF g
<1>4. /\ Shaped(h) /\ \A x \in Fields \ {"value"} : h[x] = g[x]
      /\ h.value = [g.value EXCEPT ![t] = 0]
  BY <1>2 DEF Shaped, Fields
<1> HIDE DEF h
<1>5. /\ h.live = g.live /\ h.count = g.count /\ h.home = g.home
      /\ h.passes = g.passes /\ h.vertexBinds = g.vertexBinds /\ h.indexBinds = g.indexBinds
      /\ h.pipelineRefs = g.pipelineRefs /\ h.passBinds = g.passBinds
      /\ h.layoutRefs = g.layoutRefs /\ h.plan = g.plan /\ h.sampler = g.sampler
      /\ h.pass = g.pass /\ h.active = g.active /\ h.state = g.state
  BY <1>4 DEF Fields
<1>6. FrontInv(h)
  <2>1. \A field, x : Uses(h, field, x) = Uses(g, field, x)
    BY <1>5 DEF Uses
  <2>2. FrontType(h)
    BY <1>2, <1>4, <1>5 DEF FrontInv, FrontType
  <2>3. Counted(h)
    BY <1>2, <1>5, <2>1 DEF FrontInv, Counted
  <2>4. Sound(h) /\ PassesHold(h) /\ HalfGone(h)
    BY <1>2, <1>5 DEF FrontInv, Sound, PassesHold, HalfGone
  <2> QED BY <2>2, <2>3, <2>4 DEF FrontInv
<1>7. Outside(f, h)
  <2>1. DOMAIN g.value = Timeline
    BY <1>2 DEF FrontInv, FrontType
  <2>2. Outside(f, g)
    BY <1>1 DEF Opens, Done
  <2>3. \A u \in Timeline \cap f.live : h.value[u] = g.value[u]
    BY <1>4, <2>1
  <2> QED BY <1>2, <1>5, <2>2, <2>3 DEF Outside
<1> QED
  BY <1>2, <1>3, <1>5, <1>6, <1>7 DEF Opens, Done

LEMMA TimelineCloses ==
  ASSUME NEW f, FrontInv(f), NEW t \in Timeline, t \in f.live
  PROVE  Closes(f, DestroyTimeline(f, t), t)
<1>1. /\ \A r \in Pass : t \notin {f.pass[r].color, f.pass[r].depth, f.pass[r].vertex,
                                   f.pass[r].index, f.pass[r].pipeline, f.pass[r].query}
      /\ \A p \in Pipeline : t \notin f.plan[p] \cup {f.sampler[p]}
      /\ \A o \in Object : f.home[o] # t
      /\ t \notin Image /\ t \notin Pass
  BY NamesAre, KindsApart, KindsAre DEF Object
<1>2. Unused(f, t)
  BY <1>1 DEF Unused
<1> QED
  BY <1>2, GoneCloses, KindIs DEF DestroyTimeline, Kind

\* What a signal does.
LEMMA SignalInv ==
  ASSUME NEW f, FrontInv(f), NEW t \in Timeline
  PROVE  LET g == Signal(f, t).now
         IN  /\ FrontInv(g) /\ g.live = f.live /\ g.pass = f.pass /\ g.layoutRefs = f.layoutRefs
             /\ g.state = f.state /\ g.value = [f.value EXCEPT ![t] = @ + 1]
             /\ Signal(f, t).ok
<1> DEFINE g == [f EXCEPT !.value[t] = @ + 1]
<1>1. Signal(f, t) = Done(g)
  BY DEF Signal
<1>2. Shaped(f)
  BY StaysItself
<1>3. /\ Shaped(g) /\ \A x \in Fields \ {"value"} : g[x] = f[x]
      /\ g.value = [f.value EXCEPT ![t] = @ + 1]
  BY <1>2 DEF Shaped, Fields
<1> HIDE DEF g
<1>4. /\ g.live = f.live /\ g.count = f.count /\ g.home = f.home
      /\ g.passes = f.passes /\ g.vertexBinds = f.vertexBinds /\ g.indexBinds = f.indexBinds
      /\ g.pipelineRefs = f.pipelineRefs /\ g.passBinds = f.passBinds
      /\ g.layoutRefs = f.layoutRefs /\ g.plan = f.plan /\ g.sampler = f.sampler
      /\ g.pass = f.pass /\ g.active = f.active /\ g.state = f.state
  BY <1>3 DEF Fields
<1>5. FrontInv(g)
  <2>1. \A field, x : Uses(g, field, x) = Uses(f, field, x)
    BY <1>4 DEF Uses
  <2>2. FrontType(g)
    BY <1>3, <1>4 DEF FrontInv, FrontType
  <2>3. Counted(g)
    BY <1>4, <2>1 DEF FrontInv, Counted
  <2>4. Sound(g) /\ PassesHold(g) /\ HalfGone(g)
    BY <1>4 DEF FrontInv, Sound, PassesHold, HalfGone
  <2> QED BY <2>2, <2>3, <2>4 DEF FrontInv
<1> QED
  BY <1>1, <1>3, <1>4, <1>5 DEF Done

\* The plan and the sampler of a pipeline change.
LEMMA PlanInv ==
  ASSUME NEW f, FrontInv(f), NEW g, Shaped(g), NEW p \in Pipeline,
         \A x \in Counters \ {"plan", "layoutRefs"} : g[x] = f[x], g.state = f.state,
         NEW plan, g.plan = [f.plan EXCEPT ![p] = plan],
         plan \subseteq f.live \cap Object,
         \A i \in plan \cap Image : f.state[i] # "gone",
         g.layoutRefs \in [Pipeline -> Int]
  PROVE  FrontInv(g)
<1>1. FrontType(f)
  BY DEF FrontInv
<1>2. /\ g.live = f.live /\ g.count = f.count /\ g.home = f.home
      /\ g.passes = f.passes /\ g.vertexBinds = f.vertexBinds /\ g.indexBinds = f.indexBinds
      /\ g.pipelineRefs = f.pipelineRefs /\ g.passBinds = f.passBinds
      /\ g.sampler = f.sampler /\ g.pass = f.pass /\ g.active = f.active /\ g.value = f.value
  BY DEF Counters, Fields
<1>3. FrontType(g)
  <2>1. g.plan \in [Pipeline -> SUBSET Object] /\ g.layoutRefs \in [Pipeline -> Int]
    BY <1>1 DEF FrontType
  <2> QED BY <1>1, <1>2, <2>1 DEF FrontType
<1>4. \A field, x : Uses(g, field, x) = Uses(f, field, x)
  BY <1>2 DEF Uses
<1>5. Counted(g) /\ PassesHold(g)
  <2>1. Counted(g)
    BY <1>2, <1>4 DEF FrontInv, Counted
  <2>2. PassesHold(g)
    BY <1>2 DEF FrontInv, PassesHold
  <2> QED BY <2>1, <2>2
<1>6. \A q \in Pipeline : g.plan[q] = IF q = p THEN plan ELSE f.plan[q]
  BY <1>1 DEF FrontType
<1>7. Sound(g)
  <2>1. \A q \in Pipeline : g.plan[q] \cup {g.sampler[q]} \subseteq g.live \cup {Nothing}
    BY <1>2, <1>6 DEF FrontInv, Sound
  <2> QED BY <1>2, <2>1 DEF FrontInv, Sound
<1>8. HalfGone(g)
  BY <1>2, <1>6 DEF FrontInv, HalfGone
<1> QED
  BY <1>3, <1>5, <1>7, <1>8 DEF FrontInv

LEMMA SamplerInv ==
  ASSUME NEW f, FrontInv(f), NEW g, Shaped(g), NEW p \in Pipeline,
         \A x \in Counters \ {"sampler", "pipelineRefs"} : g[x] = f[x], g.state = f.state,
         NEW s \in (f.live \cap Sampler) \cup {Nothing},
         g.sampler = [f.sampler EXCEPT ![p] = s],
         g.pipelineRefs = Counting(Counting(f.pipelineRefs, f.sampler[p], -1), s, 1)
  PROVE  FrontInv(g)
<1>1. FrontType(f)
  BY DEF FrontInv
<1>2. /\ g.live = f.live /\ g.count = f.count /\ g.home = f.home
      /\ g.passes = f.passes /\ g.vertexBinds = f.vertexBinds /\ g.indexBinds = f.indexBinds
      /\ g.passBinds = f.passBinds /\ g.layoutRefs = f.layoutRefs /\ g.plan = f.plan
      /\ g.pass = f.pass /\ g.active = f.active /\ g.value = f.value
  BY DEF Counters, Fields
<1>3. \A t \in Sampler : t # Nothing
  BY KindsApart, KindsAre
<1>4. f.pipelineRefs \in [Sampler -> Int] /\ f.sampler \in [Pipeline -> Sampler \cup {Nothing}]
  BY <1>1 DEF FrontType
<1>5. /\ g.pipelineRefs \in [Sampler -> Int]
      /\ \A t \in Sampler : g.pipelineRefs[t] = f.pipelineRefs[t] + One(s = t) - One(f.sampler[p] = t)
  BY <1>3, <1>4 DEF Counting, One
<1>6. FrontType(g)
  <2>1. g.sampler \in [Pipeline -> Sampler \cup {Nothing}]
    BY <1>4
  <2> QED BY <1>1, <1>2, <1>5, <2>1 DEF FrontType
<1>7. \A field, x : Uses(g, field, x) = Uses(f, field, x)
  BY <1>2 DEF Uses
<1>8. \A q \in Pipeline : g.sampler[q] = IF q = p THEN s ELSE f.sampler[q]
  BY <1>4
<1>9. \A t \in Sampler : g.pipelineRefs[t] = Cardinality({q \in Pipeline : g.sampler[q] = t})
  <2> TAKE t \in Sampler
  <2> DEFINE T == {q \in Pipeline : f.sampler[q] = t}
             U == {q \in Pipeline : g.sampler[q] = t}
  <2>1. IsFiniteSet(T)
    BY PassesAssumption, KindIs, FS_Subset DEF Kind
  <2>2. \A q : q # p => (q \in T <=> q \in U)
    BY <1>8
  <2>3. (p \in U <=> s = t) /\ (p \in T <=> f.sampler[p] = t)
    BY <1>8
  <2>4. f.pipelineRefs[t] = Cardinality(T)
    BY DEF FrontInv, Counted
  <2> HIDE DEF T, U
  <2>5. /\ Cardinality(T) \in Nat /\ Cardinality(U) \in Nat
        /\ Cardinality(U) = Cardinality(T) + (IF p \in U THEN 1 ELSE 0) - (IF p \in T THEN 1 ELSE 0)
    BY <2>1, <2>2, OneMember
  <2>6. g.pipelineRefs[t] = Cardinality(U)
    BY <1>5, <2>3, <2>4, <2>5 DEF One
  <2> QED BY <2>6 DEF U
<1>10. Counted(g) /\ PassesHold(g)
  BY <1>2, <1>7, <1>9 DEF FrontInv, Counted, PassesHold
<1>11. Sound(g)
  <2>1. \A q \in Pipeline : g.plan[q] \cup {g.sampler[q]} \subseteq g.live \cup {Nothing}
    BY <1>2, <1>8 DEF FrontInv, Sound
  <2> QED BY <1>2, <2>1 DEF FrontInv, Sound
<1>12. HalfGone(g)
  BY <1>2 DEF FrontInv, HalfGone
<1> QED
  BY <1>6, <1>10, <1>11, <1>12 DEF FrontInv

LEMMA SetSamplerLeaves ==
  ASSUME NEW f, FrontInv(f), NEW p \in Pipeline, NEW s \in (f.live \cap Sampler) \cup {Nothing}
  PROVE  Leaves(f, SetSampler(f, p, s).now)
<1> DEFINE g == [f EXCEPT !.sampler[p] = s,
                          !.pipelineRefs = Counting(Counting(@, f.sampler[p], -1), s, 1)]
<1>1. Shaped(f)
  BY StaysItself
<1>2. SetSampler(f, p, s).now \in {f, g}
  BY DEF SetSampler, Done, Refused
<1>3. /\ Shaped(g) /\ \A x \in Fields \ {"sampler", "pipelineRefs"} : g[x] = f[x]
      /\ g.sampler = [f.sampler EXCEPT ![p] = s]
      /\ g.pipelineRefs = Counting(Counting(f.pipelineRefs, f.sampler[p], -1), s, 1)
  BY <1>1 DEF Shaped, Fields
<1> HIDE DEF g
<1>4. g.state = f.state /\ \A x \in Counters \ {"sampler", "pipelineRefs"} : g[x] = f[x]
  BY <1>3 DEF Counters, Fields
<1>5. FrontInv(g)
  BY <1>3, <1>4, SamplerInv
<1>6. Leaves(f, g)
  BY <1>3, <1>5 DEF Leaves, Outside, Fields
<1> QED
  BY <1>2, <1>6, StaysItself

LEMMA SamplerCloses ==
  ASSUME NEW f, FrontInv(f), NEW s \in Sampler, s \in f.live
  PROVE  Closes(f, DestroySampler(f, s), s)
<1>1. CASE f.pipelineRefs[s] # 0
  BY <1>1, Refuses, StaysItself DEF DestroySampler
<1>2. CASE f.pipelineRefs[s] = 0
  <2>1. \A p \in Pipeline : f.sampler[p] # s
    <3>1. Cardinality({p \in Pipeline : f.sampler[p] = s}) = 0
      BY <1>2 DEF FrontInv, Counted
    <3>2. IsFiniteSet({p \in Pipeline : f.sampler[p] = s})
      BY PassesAssumption, KindIs, FS_Subset DEF Kind
    <3> QED BY <3>1, <3>2, FS_EmptySet
  <2>2. /\ \A r \in Pass : s \notin {f.pass[r].color, f.pass[r].depth, f.pass[r].vertex,
                                     f.pass[r].index, f.pass[r].pipeline, f.pass[r].query}
        /\ \A p \in Pipeline : s \notin f.plan[p]
        /\ \A o \in Object : f.home[o] # s
        /\ s \notin Image /\ s \notin Pass
    BY NamesAre, KindsApart, KindsAre DEF Object
  <2>3. Unused(f, s)
    BY <2>1, <2>2 DEF Unused
  <2> QED BY <1>2, <2>3, GoneCloses, KindIs DEF DestroySampler, Kind
<1> QED
  BY <1>1, <1>2

LEMMA PipelineOpens ==
  ASSUME NEW f, FrontInv(f), NEW p \in Pipeline, p \notin f.live,
         NEW target \in (f.live \cap Image) \cup {Nothing},
         target # Nothing => f.state[target] # "gone",
         NEW sampled \in SUBSET (f.live \cap Image), NEW uniforms \in SUBSET (f.live \cap Buffer)
  PROVE  LET r == CreatePipeline(f, p, target, sampled, uniforms)
         IN  Opens(f, r, p) /\ (r.ok => r.now.layoutRefs[p] = 1)
<1> DEFINE m == Made(f, "pipeline", p)
           plan == sampled \cup uniforms \cup ({target} \ {Nothing})
           g == [m EXCEPT !.plan[p] = plan, !.layoutRefs[p] = 1]
<1>1. CASE Plannable(f, p, sampled, uniforms)
  <2>1. CreatePipeline(f, p, target, sampled, uniforms) = Done(g)
    BY <1>1 DEF CreatePipeline
  <2>2. Opens(f, Done(m), p)
    BY MadeOpens, KindIs DEF Kind
  <2>3. FrontInv(m) /\ m.live = f.live \cup {p} /\ Outside(f, m)
    BY <2>2 DEF Opens, Done
  <2>4. m.state = f.state
    BY StaysItself DEF Made, Shaped, Fields
  <2> HIDE DEF m
  <2>5. Shaped(m) /\ FrontType(m)
    BY <2>3, StaysItself DEF FrontInv
  <2>6. /\ Shaped(g) /\ \A x \in Fields \ {"plan", "layoutRefs"} : g[x] = m[x]
        /\ g.plan = [m.plan EXCEPT ![p] = plan] /\ g.layoutRefs = [m.layoutRefs EXCEPT ![p] = 1]
    BY <2>5 DEF Shaped, Fields
  <2>7. plan \subseteq m.live \cap Object
    BY <2>3 DEF Object
  <2>8. \A i \in plan \cap Image : m.state[i] # "gone"
    <3>1. \A i \in sampled : f.state[i] # "gone"
      BY <1>1 DEF Plannable
    <3>2. \A i \in Image : i \notin uniforms
      BY KindsApart
    <3> QED BY <2>4, <3>1, <3>2
  <2> HIDE DEF g, plan
  <2>9. g.state = m.state /\ \A x \in Counters \ {"plan", "layoutRefs"} : g[x] = m[x]
    BY <2>6 DEF Counters, Fields
  <2>10. FrontInv(g)
    <3>1. plan \subseteq m.live \cap Object
      BY <2>7
    <3>2. Shaped(g) /\ g.plan = [m.plan EXCEPT ![p] = plan] /\ g.layoutRefs \in [Pipeline -> Int]
      BY <2>5, <2>6 DEF FrontType
    <3> QED BY ONLY p \in Pipeline, <2>3, <2>8, <2>9, <3>1, <3>2, PlanInv
  <2>11. g.live = m.live /\ g.pass = m.pass /\ g.value = m.value
    BY <2>6 DEF Fields
  <2>12. \A q \in Pipeline : q # p => g.layoutRefs[q] = m.layoutRefs[q]
    BY <2>5, <2>6 DEF FrontType
  <2>13. g.layoutRefs[p] = 1
    BY <2>5, <2>6 DEF FrontType
  <2>14. Outside(f, g)
    BY <2>3, <2>9, <2>11, <2>12 DEF Outside
  <2> QED BY <2>1, <2>3, <2>10, <2>11, <2>13, <2>14 DEF Opens, Done
<1>2. CASE ~Plannable(f, p, sampled, uniforms)
  <2>1. CreatePipeline(f, p, target, sampled, uniforms) = Refused(f)
    BY <1>2 DEF CreatePipeline
  <2> QED BY <2>1, Refuses, StaysItself DEF Refused
<1> QED
  BY <1>1, <1>2

LEMMA GraphicsPipelineOpens ==
  ASSUME NEW f, FrontInv(f), NEW p \in Pipeline, p \notin f.live,
         NEW target \in f.live \cap Image,
         NEW sampled \in SUBSET (f.live \cap Image), NEW uniforms \in SUBSET (f.live \cap Buffer)
  PROVE  LET r == CreateGraphicsPipeline(f, p, target, sampled, uniforms)
         IN  Opens(f, r, p) /\ (r.ok => r.now.layoutRefs[p] = 1)
<1>1. CASE target \in Bound(f) \cap Color /\ f.state[target] = "COLOR_TARGET"
  BY <1>1, PipelineOpens DEF CreateGraphicsPipeline
<1>2. CASE ~(target \in Bound(f) \cap Color /\ f.state[target] = "COLOR_TARGET")
  <2>1. CreateGraphicsPipeline(f, p, target, sampled, uniforms) = Refused(f)
    BY <1>2 DEF CreateGraphicsPipeline
  <2> QED BY <2>1, Refuses, StaysItself DEF Refused
<1> QED
  BY <1>1, <1>2

LEMMA PipelineCloses ==
  ASSUME NEW f, FrontInv(f), NEW p \in Pipeline, p \in f.live
  PROVE  LET r == DestroyPipeline(f, p)
         IN  Closes(f, r, p) /\ (r.ok => f.layoutRefs[p] = 1)
<1> DEFINE h == [f EXCEPT !.plan[p] = {}, !.layoutRefs[p] = 0]
           k == [h EXCEPT !.sampler[p] = Nothing,
                          !.pipelineRefs = Counting(Counting(@, h.sampler[p], -1), Nothing, 1)]
           e == Gone(k, "pipeline", p)
           g == [Gone(f, "pipeline", p) EXCEPT
                   !.pipelineRefs = Counting(@, f.sampler[p], -1),
                   !.sampler[p] = Nothing, !.plan[p] = {}, !.layoutRefs[p] = 0]
<1>1. CASE f.passBinds[p] # 0 \/ f.layoutRefs[p] # 1
  <2>1. DestroyPipeline(f, p) = Refused(f)
    BY <1>1 DEF DestroyPipeline
  <2> QED BY <2>1, Refuses, StaysItself DEF Refused
<1>2. CASE ~(f.passBinds[p] # 0 \/ f.layoutRefs[p] # 1)
  <2>1. DestroyPipeline(f, p) = Done(g)
    BY <1>2 DEF DestroyPipeline
  <2>2. Shaped(f) /\ FrontType(f)
    BY StaysItself DEF FrontInv
  <2>3. /\ Shaped(h) /\ \A x \in Fields \ {"plan", "layoutRefs"} : h[x] = f[x]
        /\ h.plan = [f.plan EXCEPT ![p] = {}] /\ h.layoutRefs = [f.layoutRefs EXCEPT ![p] = 0]
    BY <2>2 DEF Shaped, Fields
  <2>4. DOMAIN f.pipelineRefs = Sampler /\ Nothing \notin Sampler
    BY <2>2, KindsApart, KindsAre DEF FrontType
  <2>5. \A x \in Counters : g[x] = e[x]
    <3>1. DOMAIN Counting(f.pipelineRefs, f.sampler[p], -1) = Sampler
      BY <2>4 DEF Counting
    <3>2. Counting(Counting(f.pipelineRefs, f.sampler[p], -1), Nothing, 1) = Counting(f.pipelineRefs, f.sampler[p], -1)
      BY <2>4, <3>1 DEF Counting
    <3>3. h.pipelineRefs = f.pipelineRefs /\ h.sampler = f.sampler
      BY <2>3 DEF Fields
    <3>4. /\ e.live = f.live \ {p} /\ e.count = [f.count EXCEPT !["pipeline"] = @ - 1]
          /\ e.sampler = [f.sampler EXCEPT ![p] = Nothing]
          /\ e.pipelineRefs = Counting(f.pipelineRefs, f.sampler[p], -1)
          /\ e.plan = [f.plan EXCEPT ![p] = {}] /\ e.layoutRefs = [f.layoutRefs EXCEPT ![p] = 0]
          /\ \A x \in Counters \ {"live", "count", "sampler", "pipelineRefs", "plan", "layoutRefs"} : e[x] = f[x]
      <4> HIDE DEF h
      <4>1. /\ DOMAIN k = Fields /\ k.sampler = [f.sampler EXCEPT ![p] = Nothing]
            /\ k.pipelineRefs = Counting(f.pipelineRefs, f.sampler[p], -1)
            /\ \A x \in Fields \ {"sampler", "pipelineRefs"} : k[x] = h[x]
        BY <2>3, <3>2, <3>3 DEF Shaped, Fields
      <4> HIDE DEF k
      <4>2. /\ e.live = k.live \ {p} /\ e.count = [k.count EXCEPT !["pipeline"] = @ - 1]
            /\ \A x \in Fields \ {"live", "count"} : e[x] = k[x]
        BY <4>1 DEF Gone, Fields
      <4> QED BY <2>3, <4>1, <4>2 DEF Counters, Fields
    <3>5. /\ g.live = f.live \ {p} /\ g.count = [f.count EXCEPT !["pipeline"] = @ - 1]
          /\ g.sampler = [f.sampler EXCEPT ![p] = Nothing]
          /\ g.pipelineRefs = Counting(f.pipelineRefs, f.sampler[p], -1)
          /\ g.plan = [f.plan EXCEPT ![p] = {}] /\ g.layoutRefs = [f.layoutRefs EXCEPT ![p] = 0]
          /\ \A x \in Counters \ {"live", "count", "sampler", "pipelineRefs", "plan", "layoutRefs"} : g[x] = f[x]
      <4> DEFINE d == Gone(f, "pipeline", p)
      <4>1. /\ DOMAIN d = Fields /\ d.live = f.live \ {p} /\ d.count = [f.count EXCEPT !["pipeline"] = @ - 1]
            /\ \A x \in Fields \ {"live", "count"} : d[x] = f[x]
        BY <2>2 DEF Gone, Shaped, Fields
      <4>2. g = [d EXCEPT !.pipelineRefs = Counting(@, f.sampler[p], -1),
                          !.sampler[p] = Nothing, !.plan[p] = {}, !.layoutRefs[p] = 0]
        OBVIOUS
      <4> HIDE DEF d, g
      <4> QED BY <4>1, <4>2 DEF Counters, Fields
    <3> HIDE DEF g, e
    <3> QED BY <3>4, <3>5
  <2>6. Shaped(g) /\ g.state = f.state
    BY <2>2 DEF Gone, Shaped, Fields
  <2>7. FrontInv(h)
    <3> HIDE DEF g, e, k, h
    <3>1. h.state = f.state /\ \A x \in Counters \ {"plan", "layoutRefs"} : h[x] = f[x]
      BY <2>3 DEF Counters, Fields
    <3>2. PICK none : none = {}
      OBVIOUS
    <3>3. none \subseteq f.live \cap Object /\ \A i \in none \cap Image : f.state[i] # "gone"
      BY <3>2
    <3>4. Shaped(h) /\ h.plan = [f.plan EXCEPT ![p] = none] /\ h.layoutRefs \in [Pipeline -> Int]
      BY <2>2, <2>3, <3>2 DEF FrontType
    <3> QED BY <3>1, <3>3, <3>4, PlanInv
  <2> HIDE DEF g, h
  <2>8. /\ Shaped(k) /\ \A x \in Fields \ {"sampler", "pipelineRefs"} : k[x] = h[x]
        /\ k.sampler = [h.sampler EXCEPT ![p] = Nothing]
        /\ k.pipelineRefs = Counting(Counting(h.pipelineRefs, h.sampler[p], -1), Nothing, 1)
    BY <2>3 DEF Shaped, Fields
  <2> HIDE DEF k
  <2>9. FrontInv(k)
    <3>1. k.state = h.state /\ \A x \in Counters \ {"sampler", "pipelineRefs"} : k[x] = h[x]
      BY <2>8 DEF Counters, Fields
    <3> QED BY <2>7, <2>8, <3>1, SamplerInv
  <2>10. /\ k.live = f.live /\ k.pass = f.pass /\ k.passBinds = f.passBinds /\ k.state = f.state
         /\ k.value = f.value
         /\ \A q \in Pipeline : q # p => k.layoutRefs[q] = f.layoutRefs[q]
    BY <2>2, <2>3, <2>8 DEF FrontType, Fields
  <2>11. Unused(k, p)
    <3>1. \A r \in Pass : k.pass[r].pipeline # p
      <4>1. f.passBinds[p] = 0
        BY <1>2
      <4> QED BY <2>10, <4>1, NoUses DEF FrontInv, Counted
    <3>2. \A r \in Pass : p \notin {k.pass[r].color, k.pass[r].depth, k.pass[r].vertex,
                                    k.pass[r].index, k.pass[r].query}
      BY <2>9, NamesAre, KindsApart, KindsAre
    <3>3. \A q \in Pipeline : p \notin k.plan[q] \cup {k.sampler[q]}
      BY <2>9, NamesAre, KindsApart, KindsAre DEF Object
    <3>4. \A o \in Object : k.home[o] # p
      BY <2>9, NamesAre, KindsApart, KindsAre
    <3>5. p \notin Image /\ p \notin Pass
      BY KindsApart
    <3> QED BY <3>1, <3>2, <3>3, <3>4, <3>5 DEF Unused
  <2>12. Closes(k, Done(e), p) /\ FrontInv(e) /\ e.live = f.live \ {p}
    <3>1. Closes(k, Done(e), p)
      BY <2>9, <2>10, <2>11, GoneCloses, KindIs DEF Kind
    <3> HIDE DEF e
    <3> QED BY <2>10, <3>1 DEF Closes, Done
  <2>13. e.state = k.state
    BY <2>8 DEF Gone, Shaped, Fields
  <2> HIDE DEF e
  <2>14. Moves(e, g)
    BY <2>5, <2>6, <2>10, <2>13 DEF Moves
  <2>15. FrontInv(g) /\ Leaves(e, g)
    BY <2>12, <2>14, MovesLeaves DEF Leaves
  <2>16. Outside(f, g) /\ g.live = f.live \ {p}
    <3>1. Outside(k, e)
      BY <2>12 DEF Closes, Done
    <3> QED BY <2>10, <2>12, <2>15, <3>1 DEF Outside, Leaves
  <2> QED BY <1>2, <2>1, <2>15, <2>16 DEF Closes, Done
<1> QED
  BY <1>1, <1>2

-----------------------------------------------------------------------------
(* Render passes and queries.                                              *)

\* A name is dropped and another taken: x is one poorer, y one richer.
LEMMA Recount ==
  ASSUME NEW S, NEW c \in [S -> Int], NEW x, NEW y
  PROVE  /\ Counting(Counting(c, x, -1), y, 1) \in [S -> Int]
         /\ \A i \in S : Counting(Counting(c, x, -1), y, 1)[i] = c[i] + One(y = i) - One(x = i)
<1>1. DOMAIN c = S
  OBVIOUS
<1>2. /\ Counting(c, x, -1) \in [S -> Int]
      /\ \A i \in S : Counting(c, x, -1)[i] = c[i] - One(x = i)
  BY DEF Counting, One
<1>3. PICK d \in [S -> Int] : d = Counting(c, x, -1)
  BY <1>2
<1>4. /\ Counting(d, y, 1) \in [S -> Int]
      /\ \A i \in S : Counting(d, y, 1)[i] = d[i] + One(y = i)
  BY DEF Counting, One
<1>5. \A b : One(b) \in Int
  BY DEF One
<1> QED
  BY <1>2, <1>3, <1>4, <1>5

\* Nothing but the fields of the pass, and what counts them.
LEMMA PassFields ==
  ASSUME NEW f, FrontInv(f), NEW r \in Pass
  PROVE  /\ Shaped(f) /\ DOMAIN f.pass = Pass /\ f.pass[r] \in PassRecord
         /\ DOMAIN f.pass[r] = {"color", "depth", "vertex", "index", "pipeline", "query", "begun", "scissor"}
         /\ {f.pass[r].color, f.pass[r].depth, f.pass[r].vertex, f.pass[r].index,
             f.pass[r].pipeline, f.pass[r].query} \subseteq f.live \cup {Nothing}
         /\ \A i \in {f.pass[r].color, f.pass[r].depth} : i # Nothing => i \in Image /\ f.state[i] # "gone"
         /\ f.pass[r].query # Nothing => f.pass[r].query \in f.active
         /\ f.active = (f.active \ {f.pass[r].query}) \cup ({f.pass[r].query} \ {Nothing})
<1>1. Shaped(f) /\ DOMAIN f.pass = Pass /\ f.pass[r] \in PassRecord
  BY DEF FrontInv, FrontType
<1>2. DOMAIN f.pass[r] = {"color", "depth", "vertex", "index", "pipeline", "query", "begun", "scissor"}
  BY <1>1 DEF PassRecord
<1>3. {f.pass[r].color, f.pass[r].depth, f.pass[r].vertex, f.pass[r].index,
       f.pass[r].pipeline, f.pass[r].query} \subseteq f.live \cup {Nothing}
  BY DEF FrontInv, Sound
<1>4. \A i \in {f.pass[r].color, f.pass[r].depth} : i # Nothing => i \in Image /\ f.state[i] # "gone"
  BY <1>1 DEF FrontInv, HalfGone, PassRecord
<1>5. f.pass[r].query # Nothing => f.pass[r].query \in f.active
  <2>1. f.active = {q \in QueryPool : Uses(f, "query", q) = 1}
    BY DEF FrontInv, Counted
  <2>2. f.pass[r].query \in QueryPool \cup {Nothing}
    BY <1>1 DEF PassRecord
  <2>3. \A s, t \in Pass : f.pass[s].query = f.pass[t].query /\ s # t => f.pass[s].query = Nothing
    BY DEF FrontInv, PassesHold
  <2> QED BY <1>1, <2>1, <2>2, <2>3, QueriesOnce
<1>6. Nothing \notin f.active
  BY KindsApart, KindsAre DEF FrontInv, FrontType
<1>7. f.active = (f.active \ {f.pass[r].query}) \cup ({f.pass[r].query} \ {Nothing})
  BY <1>5, <1>6
<1> QED
  BY <1>1, <1>2, <1>3, <1>4, <1>5, <1>7

\* What begins, ends and cuts a pass changes nothing that is counted.
LEMMA MarkedInv ==
  ASSUME NEW f, FrontInv(f), NEW r \in Pass, r \in f.live, NEW n \in PassRecord, NEW g,
         Shaped(g), \A x \in Fields \ {"pass"} : g[x] = f[x],
         g.pass = [f.pass EXCEPT ![r] = n],
         \A x \in {"color", "depth", "vertex", "index", "pipeline", "query"} : n[x] = f.pass[r][x],
         n.begun \/ n.query = Nothing
  PROVE  FrontInv(g)
<1> DEFINE old == f.pass[r]
<1>1. /\ n.color = old.color /\ n.depth = old.depth /\ n.vertex = old.vertex /\ n.index = old.index
      /\ n.pipeline = old.pipeline /\ n.query = old.query
  OBVIOUS
<1> HIDE DEF old
<1>2. old = f.pass[r]
  BY DEF old
<1>3. /\ \A b \in Buffer : g.vertexBinds[b] = f.vertexBinds[b] + One(n.vertex = b) - One(f.pass[r].vertex = b)
      /\ \A b \in Buffer : g.indexBinds[b] = f.indexBinds[b] + One(n.index = b) - One(f.pass[r].index = b)
      /\ \A p \in Pipeline : g.passBinds[p] = f.passBinds[p] + One(n.pipeline = p) - One(f.pass[r].pipeline = p)
      /\ \A i \in Image : g.passes[i] = f.passes[i] + One(n.color = i) - One(f.pass[r].color = i)
                                                    + One(n.depth = i) - One(f.pass[r].depth = i)
      /\ g.passes \in [Image -> Int] /\ g.vertexBinds \in [Buffer -> Int]
      /\ g.indexBinds \in [Buffer -> Int] /\ g.passBinds \in [Pipeline -> Int]
  <2>1. g.vertexBinds = f.vertexBinds /\ g.indexBinds = f.indexBinds /\ g.passBinds = f.passBinds /\ g.passes = f.passes
    BY DEF Fields
  <2>2. /\ f.vertexBinds \in [Buffer -> Int] /\ f.indexBinds \in [Buffer -> Int]
        /\ f.passBinds \in [Pipeline -> Int] /\ f.passes \in [Image -> Int]
    BY DEF FrontInv, FrontType
  <2> QED BY <1>1, <1>2, <2>1, <2>2 DEF One
<1>4. g.active = (f.active \ {f.pass[r].query}) \cup ({n.query} \ {Nothing})
  <2>1. g.active = f.active
    BY DEF Fields
  <2> QED BY <1>1, <1>2, <2>1, PassFields
<1>5. /\ n.query # f.pass[r].query => n.query \notin f.active
      /\ {n.color, n.depth, n.vertex, n.index, n.pipeline, n.query} \subseteq f.live \cup {Nothing}
      /\ \A i \in {n.color, n.depth} : i # Nothing => f.state[i] # "gone"
  BY <1>1, <1>2, PassFields
<1>6. g.state = f.state /\ \A x \in Counters \ {"pass", "passes", "vertexBinds", "indexBinds", "passBinds", "active"} :
        g[x] = f[x]
  BY DEF Counters, Fields
<1> QED
  BY <1>3, <1>4, <1>5, <1>6, PassInv

\* Pass r is begun, ended or cut.
LEMMA MarkedIs ==
  ASSUME NEW f, FrontInv(f), NEW r \in Pass, r \in f.live, NEW begun \in BOOLEAN,
         begun \/ f.pass[r].query = Nothing
  PROVE  LET g == [f EXCEPT !.pass[r].begun = begun]
         IN  /\ FrontInv(g) /\ g.live = f.live /\ g.layoutRefs = f.layoutRefs /\ g.value = f.value
             /\ g.state = f.state /\ g.pass[r].query = f.pass[r].query
             /\ \A s \in Pass : g.pass[s].begun = IF s = r THEN begun ELSE f.pass[s].begun
<1> DEFINE old == f.pass[r]
           g == [f EXCEPT !.pass[r].begun = begun]
<1>1. /\ Shaped(f) /\ DOMAIN f.pass = Pass /\ old \in PassRecord
      /\ DOMAIN old = {"color", "depth", "vertex", "index", "pipeline", "query", "begun", "scissor"}
  BY PassFields
<1>2. /\ Shaped(g) /\ \A x \in Fields \ {"pass"} : g[x] = f[x]
      /\ g.pass = [f.pass EXCEPT ![r] = [old EXCEPT !.begun = begun]]
  BY <1>1 DEF Shaped, Fields
<1> HIDE DEF g
<1> DEFINE n == [old EXCEPT !.begun = begun]
<1>3. n \in PassRecord /\ \A x \in {"color", "depth", "vertex", "index", "pipeline", "query"} : n[x] = old[x]
  BY <1>1 DEF PassRecord
<1>4. n.begun \/ n.query = Nothing
  BY <1>1
<1>5. g.pass = [f.pass EXCEPT ![r] = n]
  BY <1>2
<1>6. FrontInv(g)
  <2> HIDE DEF n
  <2> QED BY <1>4, <1>2, <1>3, <1>5, MarkedInv
<1>7. /\ \A s \in Pass : g.pass[s].begun = IF s = r THEN begun ELSE f.pass[s].begun
      /\ g.pass[r].query = f.pass[r].query
  BY <1>1, <1>2
<1> QED
  BY <1>2, <1>6, <1>7 DEF Fields, g

LEMMA BeginPassInv ==
  ASSUME NEW f, FrontInv(f), NEW r \in Pass, r \in f.live, NEW cleared, BeginPass(f, r, cleared).ok
  PROVE  LET g == BeginPass(f, r, cleared).now
         IN  /\ FrontInv(g) /\ g.live = f.live /\ g.layoutRefs = f.layoutRefs /\ g.value = f.value
             /\ g.state = f.state /\ ~f.pass[r].begun /\ g.pass[r].query = Nothing
             /\ g.pass[r].begun /\ \A s \in Pass \ {r} : g.pass[s].begun = f.pass[s].begun
<1>1. PICK begun \in BOOLEAN : begun = TRUE
  OBVIOUS
<1> DEFINE g == [f EXCEPT !.pass[r].begun = begun]
<1>2. BeginPass(f, r, cleared).now = g /\ ~f.pass[r].begun
  BY <1>1 DEF BeginPass, Done, Refused
<1>3. f.pass[r].query = Nothing
  BY <1>2 DEF FrontInv, PassesHold
<1>4. /\ FrontInv(g) /\ g.live = f.live /\ g.layoutRefs = f.layoutRefs /\ g.value = f.value
      /\ g.state = f.state /\ g.pass[r].query = f.pass[r].query
      /\ \A s \in Pass : g.pass[s].begun = IF s = r THEN begun ELSE f.pass[s].begun
  BY <1>3, MarkedIs
<1> HIDE DEF g
<1> QED
  BY <1>1, <1>2, <1>3, <1>4

LEMMA EndPassInv ==
  ASSUME NEW f, FrontInv(f), NEW r \in Pass, r \in f.live, EndPass(f, r).ok
  PROVE  LET g == EndPass(f, r).now
         IN  /\ FrontInv(g) /\ g.live = f.live /\ g.layoutRefs = f.layoutRefs /\ g.value = f.value
             /\ g.state = f.state /\ f.pass[r].begun
             /\ ~g.pass[r].begun /\ \A s \in Pass \ {r} : g.pass[s].begun = f.pass[s].begun
<1>1. PICK begun \in BOOLEAN : begun = FALSE
  OBVIOUS
<1> DEFINE g == [f EXCEPT !.pass[r].begun = begun]
<1>2. EndPass(f, r).now = g /\ f.pass[r].begun /\ f.pass[r].query = Nothing
  BY <1>1 DEF EndPass, Done, Refused
<1>3. /\ FrontInv(g) /\ g.live = f.live /\ g.layoutRefs = f.layoutRefs /\ g.value = f.value
      /\ g.state = f.state
      /\ \A s \in Pass : g.pass[s].begun = IF s = r THEN begun ELSE f.pass[s].begun
  BY <1>2, MarkedIs
<1> HIDE DEF g
<1> QED
  BY <1>1, <1>2, <1>3

\* What begins can end, until a query begins in it.
LEMMA BegunThenEnds ==
  ASSUME NEW f, FrontInv(f), NEW r \in Pass, r \in f.live, NEW cleared, BeginPass(f, r, cleared).ok
  PROVE  EndPass(BeginPass(f, r, cleared).now, r).ok
<1>1. LET g == BeginPass(f, r, cleared).now IN g.pass[r].begun /\ g.pass[r].query = Nothing
  BY BeginPassInv
<1> QED
  BY <1>1 DEF EndPass, Done

LEMMA SetScissorLeaves ==
  ASSUME NEW f, FrontInv(f), NEW r \in Pass, r \in f.live, NEW area
  PROVE  Leaves(f, SetScissor(f, r, area).now)
<1> DEFINE old == f.pass[r]
           g == [f EXCEPT !.pass[r].scissor = area]
<1>1. CASE ~(area # {} /\ area \subseteq Whole)
  <2>1. SetScissor(f, r, area).now = f
    BY <1>1 DEF SetScissor, Refused
  <2> QED BY <2>1, StaysItself
<1>2. CASE area # {} /\ area \subseteq Whole
  <2>1. SetScissor(f, r, area).now = g
    BY <1>2 DEF SetScissor, Done
  <2>2. /\ Shaped(f) /\ DOMAIN f.pass = Pass /\ old \in PassRecord
        /\ DOMAIN old = {"color", "depth", "vertex", "index", "pipeline", "query", "begun", "scissor"}
    BY PassFields
  <2>3. area \in SUBSET Int
    BY <1>2 DEF Whole
  <2>4. /\ Shaped(g) /\ \A x \in Fields \ {"pass"} : g[x] = f[x]
        /\ g.pass = [f.pass EXCEPT ![r] = [old EXCEPT !.scissor = area]]
    BY <2>2 DEF Shaped, Fields
  <2> HIDE DEF g
  <2> DEFINE n == [old EXCEPT !.scissor = area]
  <2>5. n \in PassRecord /\ \A x \in {"color", "depth", "vertex", "index", "pipeline", "query"} : n[x] = old[x]
    BY <2>2, <2>3 DEF PassRecord
  <2>6. g.pass = [f.pass EXCEPT ![r] = n]
    BY <2>4
  <2>7. n.begun \/ n.query = Nothing
    <3>1. n.begun = old.begun /\ n.query = old.query
      BY <2>2
    <3> QED BY <3>1 DEF FrontInv, PassesHold
  <2>8. FrontInv(g)
    <3> HIDE DEF n
    <3> QED BY <2>7, <2>4, <2>5, <2>6, MarkedInv
  <2>9. \A s \in Pass : g.pass[s].begun = f.pass[s].begun
    BY <2>2, <2>4 DEF old
  <2>10. g.live = f.live /\ g.layoutRefs = f.layoutRefs /\ g.value = f.value /\ g.state = f.state
    BY <2>4 DEF Fields
  <2> QED BY <2>1, <2>8, <2>9, <2>10 DEF Leaves, Outside
<1> QED
  BY <1>1, <1>2

\* A binding, a depth image or a query of pass r changes: n is the pass then.
LEMMA PassLeaves ==
  ASSUME NEW f, FrontInv(f), NEW g, Shaped(g), NEW r \in Pass, r \in f.live,
         NEW n \in PassRecord,
         \A x \in Fields \ {"pass", "passes", "vertexBinds", "indexBinds", "passBinds", "active"} :
           g[x] = f[x],
         g.pass = [f.pass EXCEPT ![r] = n],
         \/ g.passes = f.passes /\ n.color = f.pass[r].color /\ n.depth = f.pass[r].depth
         \/ /\ g.passes \in [Image -> Int]
            /\ \A i \in Image : g.passes[i] = f.passes[i] + One(n.color = i) - One(f.pass[r].color = i)
                                                          + One(n.depth = i) - One(f.pass[r].depth = i),
         \/ g.vertexBinds = f.vertexBinds /\ n.vertex = f.pass[r].vertex
         \/ g.vertexBinds = Counting(Counting(f.vertexBinds, f.pass[r].vertex, -1), n.vertex, 1),
         \/ g.indexBinds = f.indexBinds /\ n.index = f.pass[r].index
         \/ g.indexBinds = Counting(Counting(f.indexBinds, f.pass[r].index, -1), n.index, 1),
         \/ g.passBinds = f.passBinds /\ n.pipeline = f.pass[r].pipeline
         \/ g.passBinds = Counting(Counting(f.passBinds, f.pass[r].pipeline, -1), n.pipeline, 1),
         \/ g.active = f.active /\ n.query = f.pass[r].query
         \/ g.active = (f.active \ {f.pass[r].query}) \cup ({n.query} \ {Nothing}),
         n.query # f.pass[r].query => n.query \notin f.active,
         {n.color, n.depth, n.vertex, n.index, n.pipeline, n.query} \subseteq f.live \cup {Nothing},
         \A i \in {n.color, n.depth} : i # Nothing => f.state[i] # "gone",
         n.begun = f.pass[r].begun, n.query # f.pass[r].query => n.query = Nothing \/ n.begun
  PROVE  Leaves(f, g)
<1> DEFINE old == f.pass[r]
<1>1. /\ f.vertexBinds \in [Buffer -> Int] /\ f.indexBinds \in [Buffer -> Int]
      /\ f.passBinds \in [Pipeline -> Int] /\ f.passes \in [Image -> Int] /\ DOMAIN f.pass = Pass
  BY DEF FrontInv, FrontType
<1>2. /\ g.vertexBinds \in [Buffer -> Int]
      /\ \A b \in Buffer : g.vertexBinds[b] = f.vertexBinds[b] + One(n.vertex = b) - One(f.pass[r].vertex = b)
  <2>1. CASE g.vertexBinds = f.vertexBinds /\ n.vertex = f.pass[r].vertex
    BY <1>1, <2>1 DEF One
  <2>2. CASE g.vertexBinds = Counting(Counting(f.vertexBinds, f.pass[r].vertex, -1), n.vertex, 1)
    BY <1>1, <2>2, Recount
  <2> QED BY <2>1, <2>2
<1>3. /\ g.indexBinds \in [Buffer -> Int]
      /\ \A b \in Buffer : g.indexBinds[b] = f.indexBinds[b] + One(n.index = b) - One(f.pass[r].index = b)
  <2>1. CASE g.indexBinds = f.indexBinds /\ n.index = f.pass[r].index
    BY <1>1, <2>1 DEF One
  <2>2. CASE g.indexBinds = Counting(Counting(f.indexBinds, f.pass[r].index, -1), n.index, 1)
    BY <1>1, <2>2, Recount
  <2> QED BY <2>1, <2>2
<1>4. /\ g.passBinds \in [Pipeline -> Int]
      /\ \A p \in Pipeline : g.passBinds[p] = f.passBinds[p] + One(n.pipeline = p) - One(f.pass[r].pipeline = p)
  <2>1. CASE g.passBinds = f.passBinds /\ n.pipeline = f.pass[r].pipeline
    BY <1>1, <2>1 DEF One
  <2>2. CASE g.passBinds = Counting(Counting(f.passBinds, f.pass[r].pipeline, -1), n.pipeline, 1)
    BY <1>1, <2>2, Recount
  <2> QED BY <2>1, <2>2
<1>5. /\ g.passes \in [Image -> Int]
      /\ \A i \in Image : g.passes[i] = f.passes[i] + One(n.color = i) - One(f.pass[r].color = i)
                                                    + One(n.depth = i) - One(f.pass[r].depth = i)
  <2>1. CASE g.passes = f.passes /\ n.color = f.pass[r].color /\ n.depth = f.pass[r].depth
    BY <1>1, <2>1 DEF One
  <2> QED BY <2>1
<1>6. g.active = (f.active \ {f.pass[r].query}) \cup ({n.query} \ {Nothing})
  <2>1. CASE g.active = f.active /\ n.query = f.pass[r].query
    BY <2>1, PassFields
  <2> QED BY <2>1
<1>7. g.state = f.state /\ \A x \in Counters \ {"pass", "passes", "vertexBinds", "indexBinds", "passBinds", "active"} :
         g[x] = f[x]
  BY DEF Counters, Fields
<1> HIDE DEF One
<1>8. n.begun \/ n.query = Nothing
  BY DEF FrontInv, PassesHold
<1>9. FrontInv(g)
  BY <1>2, <1>3, <1>4, <1>5, <1>6, <1>7, <1>8, PassInv
<1>10. \A s \in Pass : g.pass[s].begun = f.pass[s].begun
  BY <1>1
<1>11. g.live = f.live /\ g.layoutRefs = f.layoutRefs /\ g.value = f.value
  BY DEF Fields
<1> QED
  BY <1>7, <1>9, <1>10, <1>11 DEF Leaves, Outside

LEMMA BindPipelineLeaves ==
  ASSUME NEW f, FrontInv(f), NEW r \in Pass, r \in f.live, NEW p \in Pipeline, p \in f.live
  PROVE  Leaves(f, BindPipeline(f, r, p).now)
<1> DEFINE old == f.pass[r]
           n == [old EXCEPT !.pipeline = p]
           g == [f EXCEPT !.pass[r].pipeline = p,
                          !.passBinds = Counting(Counting(@, f.pass[r].pipeline, -1), p, 1)]
<1>1. BindPipeline(f, r, p).now \in {f, g}
  BY DEF BindPipeline, Done, Refused
<1>2. /\ Shaped(f) /\ old \in PassRecord
      /\ DOMAIN old = {"color", "depth", "vertex", "index", "pipeline", "query", "begun", "scissor"}
  BY PassFields
<1>3. /\ Shaped(g) /\ \A x \in Fields \ {"pass", "passBinds"} : g[x] = f[x]
      /\ g.pass = [f.pass EXCEPT ![r] = n]
      /\ g.passBinds = Counting(Counting(f.passBinds, old.pipeline, -1), p, 1)
  BY <1>2 DEF Shaped, Fields
<1>4. /\ n.color = old.color /\ n.depth = old.depth /\ n.vertex = old.vertex /\ n.index = old.index
      /\ n.pipeline = p /\ n.query = old.query /\ n.begun = old.begun /\ n \in PassRecord
  BY <1>2 DEF PassRecord
<1>5. g.passes = f.passes /\ g.vertexBinds = f.vertexBinds /\ g.indexBinds = f.indexBinds /\ g.active = f.active
  BY <1>3 DEF Fields
<1>6. /\ {n.color, n.depth, n.vertex, n.index, n.pipeline, n.query} \subseteq f.live \cup {Nothing}
      /\ \A i \in {n.color, n.depth} : i # Nothing => f.state[i] # "gone"
  BY <1>4, PassFields
<1> HIDE DEF g, n
<1>7. Leaves(f, g)
  BY <1>3, <1>4, <1>5, <1>6, PassLeaves
<1> QED
  BY <1>1, <1>7, StaysItself

LEMMA BindVertexLeaves ==
  ASSUME NEW f, FrontInv(f), NEW r \in Pass, r \in f.live, NEW b \in Buffer, b \in f.live
  PROVE  Leaves(f, BindVertex(f, r, b).now)
<1> DEFINE old == f.pass[r]
           n == [old EXCEPT !.vertex = b]
           g == [f EXCEPT !.pass[r].vertex = b,
                          !.vertexBinds = Counting(Counting(@, f.pass[r].vertex, -1), b, 1)]
<1>1. BindVertex(f, r, b).now \in {f, g}
  BY DEF BindVertex, Done, Refused
<1>2. /\ Shaped(f) /\ old \in PassRecord
      /\ DOMAIN old = {"color", "depth", "vertex", "index", "pipeline", "query", "begun", "scissor"}
  BY PassFields
<1>3. /\ Shaped(g) /\ \A x \in Fields \ {"pass", "vertexBinds"} : g[x] = f[x]
      /\ g.pass = [f.pass EXCEPT ![r] = n]
      /\ g.vertexBinds = Counting(Counting(f.vertexBinds, old.vertex, -1), b, 1)
  BY <1>2 DEF Shaped, Fields
<1>4. /\ n.color = old.color /\ n.depth = old.depth /\ n.pipeline = old.pipeline /\ n.index = old.index
      /\ n.vertex = b /\ n.query = old.query /\ n.begun = old.begun /\ n \in PassRecord
  BY <1>2 DEF PassRecord
<1>5. g.passes = f.passes /\ g.indexBinds = f.indexBinds /\ g.passBinds = f.passBinds /\ g.active = f.active
  BY <1>3 DEF Fields
<1>6. /\ {n.color, n.depth, n.vertex, n.index, n.pipeline, n.query} \subseteq f.live \cup {Nothing}
      /\ \A i \in {n.color, n.depth} : i # Nothing => f.state[i] # "gone"
  BY <1>4, PassFields
<1> HIDE DEF g, n
<1>7. Leaves(f, g)
  BY <1>3, <1>4, <1>5, <1>6, PassLeaves
<1> QED
  BY <1>1, <1>7, StaysItself

LEMMA BindIndexLeaves ==
  ASSUME NEW f, FrontInv(f), NEW r \in Pass, r \in f.live, NEW b \in Buffer, b \in f.live
  PROVE  Leaves(f, BindIndex(f, r, b).now)
<1> DEFINE old == f.pass[r]
           n == [old EXCEPT !.index = b]
           g == [f EXCEPT !.pass[r].index = b,
                          !.indexBinds = Counting(Counting(@, f.pass[r].index, -1), b, 1)]
<1>1. BindIndex(f, r, b).now \in {f, g}
  BY DEF BindIndex, Done, Refused
<1>2. /\ Shaped(f) /\ old \in PassRecord
      /\ DOMAIN old = {"color", "depth", "vertex", "index", "pipeline", "query", "begun", "scissor"}
  BY PassFields
<1>3. /\ Shaped(g) /\ \A x \in Fields \ {"pass", "indexBinds"} : g[x] = f[x]
      /\ g.pass = [f.pass EXCEPT ![r] = n]
      /\ g.indexBinds = Counting(Counting(f.indexBinds, old.index, -1), b, 1)
  BY <1>2 DEF Shaped, Fields
<1>4. /\ n.color = old.color /\ n.depth = old.depth /\ n.pipeline = old.pipeline /\ n.vertex = old.vertex
      /\ n.index = b /\ n.query = old.query /\ n.begun = old.begun /\ n \in PassRecord
  BY <1>2 DEF PassRecord
<1>5. g.passes = f.passes /\ g.vertexBinds = f.vertexBinds /\ g.passBinds = f.passBinds /\ g.active = f.active
  BY <1>3 DEF Fields
<1>6. /\ {n.color, n.depth, n.vertex, n.index, n.pipeline, n.query} \subseteq f.live \cup {Nothing}
      /\ \A i \in {n.color, n.depth} : i # Nothing => f.state[i] # "gone"
  BY <1>4, PassFields
<1> HIDE DEF g, n
<1>7. Leaves(f, g)
  BY <1>3, <1>4, <1>5, <1>6, PassLeaves
<1> QED
  BY <1>1, <1>7, StaysItself

LEMMA BeginQueryLeaves ==
  ASSUME NEW f, FrontInv(f), NEW r \in Pass, r \in f.live, NEW q \in QueryPool, q \in f.live
  PROVE  Leaves(f, BeginQuery(f, r, q).now)
<1> DEFINE old == f.pass[r]
           n == [old EXCEPT !.query = q]
           g == [f EXCEPT !.pass[r].query = q, !.active = @ \cup {q}]
           may == old.begun /\ old.query = Nothing /\ q \notin f.active
<1>1. BeginQuery(f, r, q).now = f \/ (may /\ BeginQuery(f, r, q).now = g)
  <2> DEFINE refused == \/ q \notin Occlusion \/ ~f.pass[r].begun
                        \/ f.pass[r].query # Nothing \/ q \in f.active
  <2>1. CASE refused
    BY <2>1 DEF BeginQuery, Refused
  <2>2. CASE ~refused
    BY <2>2 DEF BeginQuery, Done
  <2> QED BY <2>1, <2>2
<1>2. /\ Shaped(f) /\ old \in PassRecord /\ q # Nothing /\ Nothing \notin f.active
      /\ DOMAIN old = {"color", "depth", "vertex", "index", "pipeline", "query", "begun", "scissor"}
  BY PassFields, KindsApart, KindsAre DEF FrontInv, FrontType
<1>3. /\ Shaped(g) /\ \A x \in Fields \ {"pass", "active"} : g[x] = f[x]
      /\ g.pass = [f.pass EXCEPT ![r] = n] /\ g.active = f.active \cup {q}
  BY <1>2 DEF Shaped, Fields
<1>4. /\ n.color = old.color /\ n.depth = old.depth /\ n.pipeline = old.pipeline /\ n.index = old.index
      /\ n.vertex = old.vertex /\ n.query = q /\ n.begun = old.begun /\ n \in PassRecord
  BY <1>2 DEF PassRecord
<1>5. g.passes = f.passes /\ g.indexBinds = f.indexBinds /\ g.passBinds = f.passBinds /\ g.vertexBinds = f.vertexBinds
  BY <1>3 DEF Fields
<1>6. /\ {n.color, n.depth, n.vertex, n.index, n.pipeline, n.query} \subseteq f.live \cup {Nothing}
      /\ \A i \in {n.color, n.depth} : i # Nothing => f.state[i] # "gone"
  BY <1>4, PassFields
<1>7. ASSUME may PROVE Leaves(f, g)
  <2>1. g.active = (f.active \ {f.pass[r].query}) \cup ({n.query} \ {Nothing})
    BY <1>2, <1>3, <1>4, <1>7
  <2>2. n.query \notin f.active /\ n.begun
    BY <1>4, <1>7
  <2>3. n.query # f.pass[r].query => n.query = Nothing \/ n.begun
    BY <2>2
  <2>4. n.query # f.pass[r].query => n.query \notin f.active
    BY <2>2
  <2>5. n.begun = f.pass[r].begun /\ n \in PassRecord
    BY <1>4
  <2>6. \A x \in Fields \ {"pass", "passes", "vertexBinds", "indexBinds", "passBinds", "active"} : g[x] = f[x]
    BY <1>3
  <2>7. /\ g.passes = f.passes /\ n.color = f.pass[r].color /\ n.depth = f.pass[r].depth
        /\ g.vertexBinds = f.vertexBinds /\ n.vertex = f.pass[r].vertex
        /\ g.indexBinds = f.indexBinds /\ n.index = f.pass[r].index
        /\ g.passBinds = f.passBinds /\ n.pipeline = f.pass[r].pipeline
        /\ g.pass = [f.pass EXCEPT ![r] = n] /\ Shaped(g)
    BY <1>3, <1>4, <1>5
  <2> HIDE DEF g, n, may
  <2> QED BY ONLY FrontInv(f), r \in Pass, r \in f.live, <1>6, <2>1, <2>3, <2>4, <2>5, <2>6, <2>7, PassLeaves
<1> HIDE DEF g, n
<1> QED
  BY <1>1, <1>7, StaysItself

LEMMA EndQueryLeaves ==
  ASSUME NEW f, FrontInv(f), NEW r \in Pass, r \in f.live
  PROVE  Leaves(f, EndQuery(f, r).now)
<1> DEFINE old == f.pass[r]
           n == [old EXCEPT !.query = Nothing]
           g == [f EXCEPT !.active = @ \ {f.pass[r].query}, !.pass[r].query = Nothing]
<1>1. EndQuery(f, r).now \in {f, g}
  BY DEF EndQuery, Done, Refused
<1>2. /\ Shaped(f) /\ old \in PassRecord /\ Nothing \notin f.active
      /\ DOMAIN old = {"color", "depth", "vertex", "index", "pipeline", "query", "begun", "scissor"}
  BY PassFields, KindsApart, KindsAre DEF FrontInv, FrontType
<1>3. /\ Shaped(g) /\ \A x \in Fields \ {"pass", "active"} : g[x] = f[x]
      /\ g.pass = [f.pass EXCEPT ![r] = n] /\ g.active = f.active \ {old.query}
  BY <1>2 DEF Shaped, Fields
<1>4. /\ n.color = old.color /\ n.depth = old.depth /\ n.pipeline = old.pipeline /\ n.index = old.index
      /\ n.vertex = old.vertex /\ n.query = Nothing /\ n.begun = old.begun /\ n \in PassRecord
  BY <1>2 DEF PassRecord
<1>5. g.passes = f.passes /\ g.indexBinds = f.indexBinds /\ g.passBinds = f.passBinds /\ g.vertexBinds = f.vertexBinds
  BY <1>3 DEF Fields
<1>6. /\ {n.color, n.depth, n.vertex, n.index, n.pipeline, n.query} \subseteq f.live \cup {Nothing}
      /\ \A i \in {n.color, n.depth} : i # Nothing => f.state[i] # "gone"
  BY <1>4, PassFields
<1>7. /\ g.active = (f.active \ {f.pass[r].query}) \cup ({n.query} \ {Nothing})
      /\ n.query \notin f.active
  BY <1>2, <1>3, <1>4
<1> HIDE DEF g, n
<1>8. Leaves(f, g)
  BY <1>3, <1>4, <1>5, <1>6, <1>7, PassLeaves
<1> QED
  BY <1>1, <1>8, StaysItself

LEMMA AttachDepthLeaves ==
  ASSUME NEW f, FrontInv(f), NEW r \in Pass, r \in f.live,
         NEW depth \in (f.live \cap Image) \cup {Nothing}
  PROVE  Leaves(f, AttachDepth(f, r, depth).now)
<1> DEFINE old == f.pass[r]
           n == [old EXCEPT !.depth = depth]
           up == [f EXCEPT !.pass[r].depth = depth, !.passes[depth] = @ + 1]
           down == [f EXCEPT !.pass[r].depth = Nothing, !.passes[old.depth] = @ - 1]
<1>1. \/ AttachDepth(f, r, depth).now = f
      \/ depth = Nothing /\ old.depth # Nothing /\ AttachDepth(f, r, depth).now = down
      \/ /\ depth # Nothing /\ old.depth = Nothing /\ f.state[depth] = "DEPTH_TARGET"
         /\ AttachDepth(f, r, depth).now = up
  BY DEF AttachDepth, Done, Refused
<1>2. /\ Shaped(f) /\ old \in PassRecord
      /\ DOMAIN old = {"color", "depth", "vertex", "index", "pipeline", "query", "begun", "scissor"}
      /\ f.passes \in [Image -> Int] /\ Nothing \notin Image
  BY PassFields, KindsApart, KindsAre DEF FrontInv, FrontType
<1>3. /\ n.color = old.color /\ n.depth = depth /\ n.pipeline = old.pipeline /\ n.index = old.index
      /\ n.vertex = old.vertex /\ n.query = old.query /\ n.begun = old.begun /\ n \in PassRecord
  BY <1>2 DEF PassRecord
<1>4. /\ {n.color, n.depth, n.vertex, n.index, n.pipeline, n.query} \subseteq f.live \cup {Nothing}
      /\ \A i \in {n.color} : i # Nothing => f.state[i] # "gone"
  BY <1>3, PassFields
<1>5. ASSUME depth = Nothing, old.depth # Nothing PROVE Leaves(f, down)
  <2>1. /\ Shaped(down) /\ \A x \in Fields \ {"pass", "passes"} : down[x] = f[x]
        /\ down.pass = [f.pass EXCEPT ![r] = n] /\ down.passes = [f.passes EXCEPT ![old.depth] = @ - 1]
    BY <1>2, <1>5 DEF Shaped, Fields
  <2>2. old.depth \in Image
    BY <1>2, <1>5 DEF PassRecord
  <2>3. down.passes \in [Image -> Int]
    BY <1>2, <2>1, <2>2
  <2>4. \A i \in Image : down.passes[i] = f.passes[i] + One(n.color = i) - One(f.pass[r].color = i)
                                                       + One(n.depth = i) - One(f.pass[r].depth = i)
    <3> TAKE i \in Image
    <3>1. down.passes[i] = f.passes[i] - One(f.pass[r].depth = i) /\ f.passes[i] \in Int
      BY <1>2, <2>1, <2>2 DEF One
    <3>2. One(n.depth = i) = 0
      BY <1>2, <1>3, <1>5 DEF One
    <3>3. One(n.color = i) = One(f.pass[r].color = i) /\ One(f.pass[r].color = i) \in Int
      BY <1>3 DEF One
    <3>4. One(f.pass[r].depth = i) \in Int
      BY DEF One
    <3> QED BY <3>1, <3>2, <3>3, <3>4
  <2>5. /\ down.vertexBinds = f.vertexBinds /\ down.indexBinds = f.indexBinds
        /\ down.passBinds = f.passBinds /\ down.active = f.active
    BY <2>1 DEF Fields
  <2>6. \A i \in {n.color, n.depth} : i # Nothing => f.state[i] # "gone"
    BY <1>3, <1>4, <1>5
  <2> HIDE DEF down, n, up
  <2> QED BY <1>3, <1>4, <2>1, <2>3, <2>4, <2>5, <2>6, PassLeaves
<1>6. ASSUME depth # Nothing, old.depth = Nothing, f.state[depth] = "DEPTH_TARGET" PROVE Leaves(f, up)
  <2>1. /\ Shaped(up) /\ \A x \in Fields \ {"pass", "passes"} : up[x] = f[x]
        /\ up.pass = [f.pass EXCEPT ![r] = n] /\ up.passes = [f.passes EXCEPT ![depth] = @ + 1]
    BY <1>2, <1>6 DEF Shaped, Fields
  <2>2. depth \in Image
    BY <1>6
  <2>3. up.passes \in [Image -> Int]
    BY <1>2, <2>1, <2>2
  <2>4. \A i \in Image : up.passes[i] = f.passes[i] + One(n.color = i) - One(f.pass[r].color = i)
                                                     + One(n.depth = i) - One(f.pass[r].depth = i)
    <3> TAKE i \in Image
    <3>1. up.passes[i] = f.passes[i] + One(n.depth = i) /\ f.passes[i] \in Int
      BY <1>2, <1>3, <2>1, <2>2 DEF One
    <3>2. One(f.pass[r].depth = i) = 0
      BY <1>2, <1>6 DEF One
    <3>3. One(n.color = i) = One(f.pass[r].color = i) /\ One(f.pass[r].color = i) \in Int
      BY <1>3 DEF One
    <3>4. One(n.depth = i) \in Int
      BY DEF One
    <3> QED BY <3>1, <3>2, <3>3, <3>4
  <2>5. /\ up.vertexBinds = f.vertexBinds /\ up.indexBinds = f.indexBinds
        /\ up.passBinds = f.passBinds /\ up.active = f.active
    BY <2>1 DEF Fields
  <2>6. \A i \in {n.color, n.depth} : i # Nothing => f.state[i] # "gone"
    BY <1>3, <1>4, <1>6
  <2> HIDE DEF down, n, up
  <2> QED BY <1>3, <1>4, <2>1, <2>3, <2>4, <2>5, <2>6, PassLeaves
<1> HIDE DEF up, down, n
<1> QED
  BY <1>1, <1>5, <1>6, StaysItself

LEMMA PassOpens ==
  ASSUME NEW f, FrontInv(f), NEW r \in Pass, r \notin f.live, NEW color \in f.live \cap Image
  PROVE  Opens(f, CreatePass(f, r, color), r)
<1> DEFINE m == Made(f, "render_pass", r)
           n == [NoPass EXCEPT !.color = color]
           g == [m EXCEPT !.pass[r] = n, !.passes[color] = @ + 1]
<1>1. CASE f.state[color] # "COLOR_TARGET"
  <2>1. CreatePass(f, r, color) = Refused(f)
    BY <1>1 DEF CreatePass
  <2> QED BY <2>1, Refuses, StaysItself
<1>2. CASE f.state[color] = "COLOR_TARGET"
  <2>1. CreatePass(f, r, color) = Done(g)
    BY <1>2 DEF CreatePass
  <2>2. Opens(f, Done(m), r)
    BY MadeOpens, KindIs DEF Kind
  <2>3. FrontInv(m) /\ m.live = f.live \cup {r}
    BY <2>2 DEF Opens, Done
  <2>4. m.state = f.state /\ m.pass[r] = NoPass
    <3>1. m.state = f.state /\ m.pass = f.pass
      BY StaysItself DEF Made, Shaped, Fields
    <3> QED BY <3>1 DEF FrontInv, PassesHold
  <2> HIDE DEF m
  <2>5. Shaped(m) /\ m.passes \in [Image -> Int] /\ Nothing \notin Image
    BY <2>3, StaysItself, KindsApart, KindsAre DEF FrontInv, FrontType
  <2>6. /\ Shaped(g) /\ \A x \in Fields \ {"pass", "passes"} : g[x] = m[x]
        /\ g.pass = [m.pass EXCEPT ![r] = n] /\ g.passes = [m.passes EXCEPT ![color] = @ + 1]
    BY <2>5 DEF Shaped, Fields
  <2>7. /\ n.color = color /\ n.depth = Nothing /\ n.vertex = Nothing /\ n.index = Nothing
        /\ n.pipeline = Nothing /\ n.query = Nothing /\ n.begun = FALSE /\ n \in PassRecord
    BY DEF NoPass, PassRecord
  <2>8. /\ m.pass[r].color = Nothing /\ m.pass[r].depth = Nothing /\ m.pass[r].vertex = Nothing
        /\ m.pass[r].index = Nothing /\ m.pass[r].pipeline = Nothing /\ m.pass[r].query = Nothing
        /\ m.pass[r].begun = FALSE
    BY <2>4 DEF NoPass
  <2>9. /\ g.passes \in [Image -> Int]
        /\ \A i \in Image : g.passes[i] = m.passes[i] + One(n.color = i) - One(m.pass[r].color = i)
                                                      + One(n.depth = i) - One(m.pass[r].depth = i)
    BY <2>5, <2>6, <2>7, <2>8 DEF One
  <2>10. /\ g.vertexBinds = m.vertexBinds /\ g.indexBinds = m.indexBinds
         /\ g.passBinds = m.passBinds /\ g.active = m.active
    BY <2>6 DEF Fields
  <2>11. /\ {n.color, n.depth, n.vertex, n.index, n.pipeline, n.query} \subseteq m.live \cup {Nothing}
         /\ \A i \in {n.color, n.depth} : i # Nothing => m.state[i] # "gone"
         /\ r \in m.live
    BY <1>2, <2>3, <2>4, <2>7
  <2> HIDE DEF g, n
  <2>12. Leaves(m, g)
    <3>1. /\ n.vertex = m.pass[r].vertex /\ n.index = m.pass[r].index
          /\ n.pipeline = m.pass[r].pipeline /\ n.query = m.pass[r].query /\ n.begun = m.pass[r].begun
      BY <2>7, <2>8
    <3> QED BY SMTT(60), <2>3, <2>6, <2>7, <2>9, <2>10, <2>11, <3>1, PassLeaves
  <2> QED BY <2>1, <2>2, <2>12, OpensThenMoves
<1> QED
  BY <1>1, <1>2

\* A pass that is neither begun nor queried is stripped, then goes.
LEMMA PassCloses ==
  ASSUME NEW f, FrontInv(f), NEW r \in Pass, r \in f.live
  PROVE  LET d == DestroyPass(f, r)
         IN  Closes(f, d, r) /\ (d.ok => ~f.pass[r].begun)
<1> DEFINE old == f.pass[r]
           Stripped(h) == [h EXCEPT
                  !.pass[r] = NoPass,
                  !.vertexBinds = Counting(@, old.vertex, -1),
                  !.indexBinds = Counting(@, old.index, -1),
                  !.passBinds = Counting(@, old.pipeline, -1),
                  !.passes = Counting(Counting(@, old.color, -1), old.depth, -1)]
           h == Stripped(f)
           e == Gone(h, "render_pass", r)
           m == Gone(f, "render_pass", r)
           g == Stripped(m)
<1>1. CASE old.begun \/ old.query # Nothing
  <2>1. DestroyPass(f, r) = Refused(f)
    BY <1>1 DEF DestroyPass
  <2> QED BY <2>1, Refuses, StaysItself DEF Refused
<1>2. CASE ~(old.begun \/ old.query # Nothing)
  <2>1. DestroyPass(f, r) = Done(g)
    BY <1>2 DEF DestroyPass
  <2>2. /\ Shaped(f) /\ old \in PassRecord /\ DOMAIN f.pass = Pass
        /\ f.vertexBinds \in [Buffer -> Int] /\ f.indexBinds \in [Buffer -> Int]
        /\ f.passBinds \in [Pipeline -> Int] /\ f.passes \in [Image -> Int]
        /\ Nothing \notin Image \cup Buffer \cup Pipeline
    BY PassFields, KindsApart, KindsAre DEF FrontInv, FrontType
  <2>3. old.begun = FALSE /\ old.query = Nothing
    BY <1>2, <2>2 DEF PassRecord
  <2> HIDE DEF old
  <2> DEFINE Names == {"pass", "vertexBinds", "indexBinds", "passBinds", "passes"}
             Strips(k, j) ==
               /\ DOMAIN j = Fields
               /\ j.pass = [k.pass EXCEPT ![r] = NoPass]
               /\ j.vertexBinds = Counting(k.vertexBinds, old.vertex, -1)
               /\ j.indexBinds = Counting(k.indexBinds, old.index, -1)
               /\ j.passBinds = Counting(k.passBinds, old.pipeline, -1)
               /\ j.passes = Counting(Counting(k.passes, old.color, -1), old.depth, -1)
               /\ \A x \in Fields \ Names : j[x] = k[x]
  <2>4. \A k : DOMAIN k = Fields => Strips(k, Stripped(k))
    BY DEF Fields
  <2>5. DOMAIN f = Fields
    BY <2>2 DEF Shaped
  <2>6. /\ DOMAIN m = Fields /\ m.live = f.live \ {r} /\ m.count = [f.count EXCEPT !["render_pass"] = @ - 1]
        /\ \A x \in Fields \ {"live", "count"} : m[x] = f[x]
    BY <2>5 DEF Gone, Fields
  <2>7. Strips(f, h) /\ Strips(m, g)
    <3> HIDE DEF Strips, Stripped, m
    <3>1. Strips(f, Stripped(f)) /\ Strips(m, Stripped(m))
      BY <2>4, <2>5, <2>6
    <3> QED BY <3>1
  <2> HIDE DEF m, g, h, Stripped
  <2>8. /\ DOMAIN e = Fields /\ e.live = h.live \ {r} /\ e.count = [h.count EXCEPT !["render_pass"] = @ - 1]
        /\ \A x \in Fields \ {"live", "count"} : e[x] = h[x]
    BY <2>7 DEF Gone, Fields
  <2> HIDE DEF e
  <2>9. h.live = f.live /\ h.count = f.count /\ h.state = f.state /\ g.live = m.live /\ g.count = m.count /\ g.state = m.state
    BY <2>7 DEF Fields
  <2>10. Moves(e, g)
    <3>1. \A x \in Fields : g[x] = e[x]
      <4>1. \A x \in Fields \ (Names \cup {"live", "count"}) : g[x] = f[x] /\ e[x] = f[x]
        BY <2>6, <2>7, <2>8
      <4>2. g.pass = e.pass /\ g.vertexBinds = e.vertexBinds /\ g.indexBinds = e.indexBinds
            /\ g.passBinds = e.passBinds /\ g.passes = e.passes
        BY <2>6, <2>7, <2>8 DEF Fields
      <4>3. g.live = e.live /\ g.count = e.count
        BY <2>6, <2>8, <2>9
      <4> QED BY <4>1, <4>2, <4>3
    <3>2. Shaped(g)
      BY <2>2, <2>6, <2>7, <2>9 DEF Shaped, Fields
    <3>3. g.state = e.state
      BY <3>1 DEF Fields
    <3> QED BY <3>1, <3>2, <3>3 DEF Moves, Counters
  <2>11. Leaves(f, h)
    <3>1. Shaped(h)
      BY <2>2, <2>7, <2>9 DEF Shaped
    <3>2. \A x \in Fields \ {"pass", "passes", "vertexBinds", "indexBinds", "passBinds", "active"} : h[x] = f[x]
      BY <2>7
    <3>3. PICK n : n = NoPass
      OBVIOUS
    <3>4. /\ n.color = Nothing /\ n.depth = Nothing /\ n.vertex = Nothing /\ n.index = Nothing
          /\ n.pipeline = Nothing /\ n.query = Nothing /\ n.begun = FALSE /\ n \in PassRecord
      BY <3>3 DEF NoPass, PassRecord
    <3>5. h.pass = [f.pass EXCEPT ![r] = n]
      BY <2>7, <3>3
    <3>6. \A S, c, x : Nothing \notin S /\ c \in [S -> Int] =>
            /\ Counting(c, x, -1) \in [S -> Int]
            /\ \A y \in S : Counting(c, x, -1)[y] = c[y] - One(x = y)
      BY DEF Counting, One
    <3>7. \A S, c, x : Nothing \notin S /\ c \in [S -> Int] =>
            Counting(Counting(c, x, -1), Nothing, 1) = Counting(c, x, -1)
      BY <3>6 DEF Counting
    <3>8. /\ h.vertexBinds = Counting(Counting(f.vertexBinds, f.pass[r].vertex, -1), n.vertex, 1)
          /\ h.indexBinds = Counting(Counting(f.indexBinds, f.pass[r].index, -1), n.index, 1)
          /\ h.passBinds = Counting(Counting(f.passBinds, f.pass[r].pipeline, -1), n.pipeline, 1)
      BY <2>2, <2>7, <3>4, <3>7 DEF old
    <3>9. h.passes \in [Image -> Int]
      BY <2>2, <2>7, <3>6
    <3>10. \A i \in Image : h.passes[i] = f.passes[i] + One(n.color = i) - One(f.pass[r].color = i)
                                                      + One(n.depth = i) - One(f.pass[r].depth = i)
      <4> TAKE i \in Image
      <4>1. PICK c : c = Counting(f.passes, old.color, -1)
        OBVIOUS
      <4>2. c \in [Image -> Int] /\ c[i] = f.passes[i] - One(old.color = i)
        BY <2>2, <3>6, <4>1
      <4>3. h.passes[i] = c[i] - One(old.depth = i)
        BY <2>2, <2>7, <3>6, <4>1, <4>2
      <4>4. One(n.color = i) = 0 /\ One(n.depth = i) = 0
        BY <2>2, <3>4 DEF One
      <4>5. One(old.color = i) \in Int /\ One(old.depth = i) \in Int /\ f.passes[i] \in Int
        BY <2>2 DEF One
      <4>6. old = f.pass[r]
        BY DEF old
      <4> QED BY <4>2, <4>3, <4>4, <4>5, <4>6
    <3>11. h.active = f.active /\ n.query = f.pass[r].query /\ n.begun = f.pass[r].begun
      BY <2>3, <3>2, <2>7, <3>4 DEF old, Fields
    <3>12. /\ {n.color, n.depth, n.vertex, n.index, n.pipeline, n.query} \subseteq f.live \cup {Nothing}
           /\ \A i \in {n.color, n.depth} : i # Nothing => f.state[i] # "gone"
      BY <3>4
    <3> QED BY <3>1, <3>2, <3>4, <3>5, <3>8, <3>9, <3>10, <3>11, <3>12, PassLeaves
  <2>12. Unused(h, r)
    <3>1. FrontInv(h)
      BY <2>11 DEF Leaves
    <3>2. h.pass[r] = NoPass
      BY <2>2, <2>7
    <3>3. \A s \in Pass : r \notin {h.pass[s].color, h.pass[s].depth, h.pass[s].vertex,
                                    h.pass[s].index, h.pass[s].pipeline, h.pass[s].query}
      BY <3>1, NamesAre, KindsApart, KindsAre
    <3>4. \A p \in Pipeline : r \notin h.plan[p] \cup {h.sampler[p]}
      BY <3>1, NamesAre, KindsApart, KindsAre DEF Object
    <3>5. \A o \in Object : h.home[o] # r
      BY <3>1, NamesAre, KindsApart, KindsAre
    <3>6. r \notin Image
      BY KindsApart
    <3> QED BY <3>2, <3>3, <3>4, <3>5, <3>6 DEF Unused
  <2>13. Closes(h, Done(e), r)
    BY <2>11, <2>12, GoneCloses, KindIs DEF Kind, Leaves, e
  <2>14. FrontInv(e)
    BY <2>13 DEF Closes, Done
  <2>15. Closes(h, Done(g), r)
    BY <2>10, <2>13, <2>14, MovesLeaves, ClosesThenMoves
  <2>16. Closes(f, Done(g), r)
    BY <2>11, <2>15, LeavesThenCloses
  <2> QED BY <2>1, <2>3, <2>16 DEF old
<1> QED
  BY <1>1, <1>2

LEMMA QueryPoolCloses ==
  ASSUME NEW f, FrontInv(f), NEW q \in QueryPool, q \in f.live
  PROVE  Closes(f, DestroyQueryPool(f, q), q)
<1>1. CASE q \in f.active
  BY <1>1, Refuses, StaysItself DEF DestroyQueryPool
<1>2. CASE q \notin f.active
  <2>1. \A r \in Pass : f.pass[r].query # q
    BY <1>2, PassFields, KindsApart, KindsAre
  <2>2. /\ \A r \in Pass : q \notin {f.pass[r].color, f.pass[r].depth, f.pass[r].vertex,
                                     f.pass[r].index, f.pass[r].pipeline}
        /\ \A p \in Pipeline : q \notin f.plan[p] \cup {f.sampler[p]}
        /\ \A o \in Object : f.home[o] # q
        /\ q \notin Image /\ q \notin Pass
    BY NamesAre, KindsApart, KindsAre DEF Object
  <2>3. Unused(f, q)
    BY <2>1, <2>2 DEF Unused
  <2> QED BY <1>2, <2>3, GoneCloses, KindIs DEF DestroyQueryPool, Kind
<1> QED
  BY <1>1, <1>2

\* What a layout is referenced by is up to those who refer to it.
LEMMA LayoutInv ==
  ASSUME NEW f, FrontInv(f), NEW p \in Pipeline, NEW d \in Int
  PROVE  LET g == [f EXCEPT !.layoutRefs[p] = @ + d]
         IN  /\ FrontInv(g) /\ g.live = f.live /\ g.pass = f.pass /\ g.value = f.value
             /\ g.state = f.state /\ g.layoutRefs = [f.layoutRefs EXCEPT ![p] = @ + d]
<1> DEFINE g == [f EXCEPT !.layoutRefs[p] = @ + d]
<1>1. Shaped(f) /\ FrontType(f)
  BY StaysItself DEF FrontInv
<1>2. /\ Shaped(g) /\ \A x \in Fields \ {"layoutRefs"} : g[x] = f[x]
      /\ g.layoutRefs = [f.layoutRefs EXCEPT ![p] = @ + d]
  BY <1>1 DEF Shaped, Fields
<1> HIDE DEF g
<1>3. g.layoutRefs \in [Pipeline -> Int]
  BY <1>1, <1>2 DEF FrontType
<1>4. /\ g.live = f.live /\ g.count = f.count /\ g.home = f.home
      /\ g.passes = f.passes /\ g.vertexBinds = f.vertexBinds /\ g.indexBinds = f.indexBinds
      /\ g.pipelineRefs = f.pipelineRefs /\ g.passBinds = f.passBinds
      /\ g.plan = f.plan /\ g.sampler = f.sampler /\ g.pass = f.pass
      /\ g.active = f.active /\ g.state = f.state /\ g.value = f.value
  BY <1>2 DEF Fields
<1>5. FrontInv(g)
  <2>1. \A field, x : Uses(g, field, x) = Uses(f, field, x)
    BY <1>4 DEF Uses
  <2>2. FrontType(g)
    BY <1>1, <1>2, <1>3, <1>4 DEF FrontType
  <2>3. Counted(g)
    BY <1>4, <2>1 DEF FrontInv, Counted
  <2>4. Sound(g) /\ PassesHold(g) /\ HalfGone(g)
    BY <1>4 DEF FrontInv, Sound, PassesHold, HalfGone
  <2> QED BY <2>2, <2>3, <2>4 DEF FrontInv
<1> QED
  BY <1>2, <1>5 DEF Fields, g

LEMMA OpenedInv ==
  ASSUME NEW n, NEW w
  PROVE  LET f == Opened(n, w) IN FrontInv(f) /\ f.live = {} /\ \A r \in Pass : f.pass[r] = NoPass
<1> DEFINE f == Opened(n, w)
<1>1. /\ Shaped(f) /\ f.live = {} /\ f.count = [k \in Kind |-> 0] /\ f.home = [o \in Object |-> Nothing]
      /\ f.state = [i \in Image |-> "UNDEFINED"] /\ f.passes = [i \in Image |-> 0]
      /\ f.vertexBinds = [b \in Buffer |-> 0] /\ f.indexBinds = [b \in Buffer |-> 0]
      /\ f.pipelineRefs = [s \in Sampler |-> 0] /\ f.passBinds = [p \in Pipeline |-> 0]
      /\ f.layoutRefs = [p \in Pipeline |-> 0] /\ f.plan = [p \in Pipeline |-> {}]
      /\ f.sampler = [p \in Pipeline |-> Nothing] /\ f.pass = [r \in Pass |-> NoPass]
      /\ f.active = {} /\ f.value = [t \in Timeline |-> 0]
  BY DEF Opened, Shaped, Fields
<1> HIDE DEF f
<1>2. NoPass \in PassRecord
  BY DEF NoPass, PassRecord
<1>3. FrontType(f)
  BY <1>1, <1>2 DEF FrontType
<1>4. \A field \in {"color", "depth", "vertex", "index", "pipeline", "query"}, x \in Kinds : Uses(f, field, x) = 0
  <2> TAKE field \in {"color", "depth", "vertex", "index", "pipeline", "query"}, x \in Kinds
  <2>1. {r \in Pass : f.pass[r][field] = x} = {}
    BY <1>1, KindsApart DEF NoPass
  <2> QED BY <2>1, FS_EmptySet DEF Uses
<1>5. Counted(f)
  <2>1. \A k \in Kind : f.count[k] = Cardinality(f.live \cap Of(k))
    <3> TAKE k \in Kind
    <3>1. f.live \cap Of(k) = {}
      BY <1>1
    <3> QED BY <1>1, <3>1, FS_EmptySet
  <2>2. \A i \in Image : f.passes[i] = Uses(f, "color", i) + Uses(f, "depth", i)
    BY <1>1, <1>4, KindsAre
  <2>3. \A b \in Buffer : f.vertexBinds[b] = Uses(f, "vertex", b) /\ f.indexBinds[b] = Uses(f, "index", b)
    BY <1>1, <1>4, KindsAre
  <2>4. \A p \in Pipeline : f.passBinds[p] = Uses(f, "pipeline", p)
    BY <1>1, <1>4, KindsAre
  <2>5. \A s \in Sampler : f.pipelineRefs[s] = Cardinality({p \in Pipeline : f.sampler[p] = s})
    <3> TAKE s \in Sampler
    <3>1. {p \in Pipeline : f.sampler[p] = s} = {}
      BY <1>1, KindsApart, KindsAre
    <3> QED BY <1>1, <3>1, FS_EmptySet
  <2>6. f.active = {q \in QueryPool : Uses(f, "query", q) = 1}
    BY <1>1, <1>4, KindsAre
  <2> QED BY <2>1, <2>2, <2>3, <2>4, <2>5, <2>6 DEF Counted
<1>6. Sound(f)
  BY <1>1 DEF Sound, NoPass
<1>7. PassesHold(f) /\ HalfGone(f)
  BY <1>1 DEF PassesHold, HalfGone, NoPass
<1> QED
  BY <1>1, <1>3, <1>5, <1>6, <1>7 DEF FrontInv, f

-----------------------------------------------------------------------------
(* The pieces of a rectangle.                                              *)

LEMMA Division ==
  ASSUME NEW a \in Nat, NEW A \in Nat \ {0}
  PROVE  /\ a = A * (a \div A) + (a % A) /\ a \div A \in Nat /\ a % A \in 0 .. A - 1
  BY SMTT(20)

\* There is but one quotient.
LEMMA Quotients ==
  ASSUME NEW A \in Nat \ {0}, NEW j \in Int, NEW k \in Int, NEW c \in 0 .. A - 1, NEW d \in 0 .. A - 1
  PROVE  /\ A * j <= A * k + d => j <= k
         /\ A * j + c = A * k + d => j = k /\ c = d
         /\ j <= k => A * j <= A * k
         /\ j < k => A * j + A <= A * k
  BY SMTT(30)

LEMMA Divided ==
  ASSUME NEW A \in Nat \ {0}, NEW j \in Nat, NEW c \in 0 .. A - 1, NEW a, a = A * j + c
  PROVE  a \in Nat /\ a \div A = j /\ a % A = c
<1>1. a \in Nat
  BY SMTT(20)
<1>2. a = A * (a \div A) + (a % A) /\ a \div A \in Nat /\ a % A \in 0 .. A - 1
  BY <1>1, Division
<1> DEFINE k == a \div A
           d == a % A
<1>3. k \in Int /\ d \in 0 .. A - 1 /\ A * k + d = A * j + c
  BY <1>2
<1> HIDE DEF k, d
<1>4. k = j /\ d = c
  BY <1>3, Quotients
<1> QED
  BY <1>1, <1>4 DEF k, d

\* A row of w dwords is cut into so many pieces, all but the last of them full.
Cut(w, piece, each) ==
  /\ piece \in Nat \ {0} /\ each \in Nat \ {0}
  /\ w <= piece * each /\ piece * each < w + piece
  /\ \A h : Pieces(w, h) =
       [k \in 1 .. h * each |->
          LET done == ((k - 1) % each) * piece
          IN [at |-> Columns * ((k - 1) \div each) + done,
              n |-> IF w - done < piece THEN w - done ELSE piece]]

LEMMA RowsAreCut ==
  ASSUME NEW w \in 1 .. Columns
  PROVE  \E piece, each : Cut(w, piece, each)
<1> DEFINE piece == IF Staging < w THEN Staging ELSE w
           each == (w + piece - 1) \div piece
           rest == (w + piece - 1) % piece
<1>1. w \in Nat \ {0} /\ Staging \in Nat \ {0}
  BY TransfersAssumption
<1>2. piece \in Nat \ {0}
  BY <1>1
<1>3. \A h : Pieces(w, h) =
       [k \in 1 .. h * each |->
          LET done == ((k - 1) % each) * piece
          IN [at |-> Columns * ((k - 1) \div each) + done,
              n |-> IF w - done < piece THEN w - done ELSE piece]]
  BY DEF Pieces
<1>4. w + piece - 1 = piece * each + rest /\ each \in Nat /\ rest \in 0 .. piece - 1
  <2> HIDE DEF piece
  <2>1. w + piece - 1 \in Nat
    BY <1>1, <1>2
  <2> QED BY <1>2, <2>1, Division
<1> HIDE DEF each, rest, piece
<1>5. w <= piece * each /\ piece * each < w + piece
  <2>1. PICK m \in Int : m = piece * each
    BY <1>2, <1>4
  <2> QED BY <1>1, <1>2, <1>4, <2>1
<1>6. each # 0
  <2>1. each = 0 => piece * each = 0
    BY <1>2
  <2> QED BY <1>1, <1>5, <2>1
<1> QED
  BY <1>2, <1>3, <1>4, <1>5, <1>6 DEF Cut

\* Some piece of the first m has the dword that is d behind the corner.
Covered(pieces, m, d) ==
  \E l \in 1 .. m : d \in pieces[l].at .. pieces[l].at + pieces[l].n - 1

\* Piece l is piece b of row a.
IsPiece(w, h, piece, l, a, b) ==
  /\ a \in 0 .. h - 1 /\ piece * b \in 0 .. w - 1
  /\ Pieces(w, h)[l].at = Columns * a + piece * b
  /\ Pieces(w, h)[l].n = IF w - piece * b < piece THEN w - piece * b ELSE piece

LEMMA PieceIs ==
  ASSUME NEW w \in 1 .. Columns, NEW h \in Nat, NEW piece, NEW each, Cut(w, piece, each),
         NEW l \in 1 .. h * each, NEW a, a = (l - 1) \div each, NEW b, b = (l - 1) % each
  PROVE  IsPiece(w, h, piece, l, a, b)
<1>1. /\ piece \in Nat \ {0} /\ each \in Nat \ {0} /\ w \in Nat \ {0}
      /\ w <= piece * each /\ piece * each < w + piece
  BY DEF Cut
<1>2. h * each \in Nat
  BY <1>1
<1>3. l - 1 \in Nat /\ l - 1 < h * each
  BY <1>2
<1>4. l - 1 = each * a + b /\ a \in Nat /\ b \in 0 .. each - 1
  BY <1>1, <1>3, Division
<1>5. a < h
  <2>1. h <= a => each * h <= each * a
    BY <1>1, <1>4, Quotients
  <2>2. each * h = h * each
    BY <1>1
  <2>3. each * a \in Nat
    BY <1>1, <1>4
  <2> QED BY <1>2, <1>3, <1>4, <2>1, <2>2, <2>3
<1>6. piece * b \in 0 .. w - 1
  <2>1. piece * b + piece <= piece * each
    BY <1>1, <1>4, Quotients
  <2>2. piece * b \in Nat /\ piece * each \in Nat
    BY <1>1, <1>4
  <2> QED BY <1>1, <2>1, <2>2
<1>7. b * piece = piece * b
  BY <1>1, <1>4
<1>8. Pieces(w, h)[l] =
          LET done == ((l - 1) % each) * piece
          IN [at |-> Columns * ((l - 1) \div each) + done,
              n |-> IF w - done < piece THEN w - done ELSE piece]
  BY DEF Cut
<1>9. Pieces(w, h)[l] =
          [at |-> Columns * a + piece * b,
              n |-> IF w - piece * b < piece THEN w - piece * b ELSE piece]
  BY <1>7, <1>8
<1> QED
  BY <1>4, <1>5, <1>6, <1>9 DEF IsPiece

\* The m pieces are there, none of them empty, and together they are the
\* rectangle: w dwords of each of h rows.
Paves(pieces, m, w, h) ==
  /\ DOMAIN pieces = 1 .. m
  /\ \A l \in 1 .. m : pieces[l].at \in Nat /\ pieces[l].n \in Nat \ {0}
  /\ \A d : Covered(pieces, m, d) <=> \E a \in 0 .. h - 1, c \in 0 .. w - 1 : d = Columns * a + c

LEMMA PiecesCover ==
  ASSUME NEW w \in 1 .. Columns, NEW h \in 1 .. Rows
  PROVE  \E m \in Nat : Paves(Pieces(w, h), m, w, h)
<1>1. PICK piece, each : Cut(w, piece, each)
  BY RowsAreCut
<1>2. /\ piece \in Nat \ {0} /\ each \in Nat \ {0} /\ w \in Nat \ {0} /\ h \in Nat \ {0}
      /\ w <= piece * each /\ piece * each < w + piece /\ Columns \in Nat \ {0}
  BY <1>1, TransfersAssumption DEF Cut
<1> DEFINE m == h * each
           cut == Pieces(w, h)
<1>3. m \in Nat /\ DOMAIN cut = 1 .. m
  BY <1>1, <1>2 DEF Cut
<1>4. ASSUME NEW l \in 1 .. m
      PROVE  /\ cut[l].at \in Nat /\ cut[l].n \in Nat \ {0}
             /\ \A d \in cut[l].at .. cut[l].at + cut[l].n - 1 :
                  \E a \in 0 .. h - 1, c \in 0 .. w - 1 : d = Columns * a + c
  <2>1. PICK a, b : a = (l - 1) \div each /\ b = (l - 1) % each
    OBVIOUS
  <2>2. /\ a \in 0 .. h - 1 /\ piece * b \in 0 .. w - 1
        /\ cut[l].at = Columns * a + piece * b
        /\ cut[l].n = IF w - piece * b < piece THEN w - piece * b ELSE piece
    <3>1. IsPiece(w, h, piece, l, a, b)
      BY <1>1, <1>2, <2>1, PieceIs
    <3> QED BY <3>1 DEF IsPiece
  <2>3. PICK o \in 0 .. w - 1 : o = piece * b
    BY <2>2
  <2>4. PICK A \in Nat : A = Columns * a
    BY <1>2, <2>2
  <2>5. cut[l].at = A + o /\ cut[l].n = IF w - o < piece THEN w - o ELSE piece
    BY <2>2, <2>3, <2>4
  <2> HIDE DEF cut
  <2>6. cut[l].at \in Nat /\ cut[l].n \in Nat \ {0} /\ o + cut[l].n <= w
    BY <1>2, <2>5
  <2>7. ASSUME NEW d \in cut[l].at .. cut[l].at + cut[l].n - 1
        PROVE  \E c \in 0 .. w - 1 : d = Columns * a + c
    <3>1. d - A \in 0 .. w - 1 /\ d = A + (d - A)
      BY <2>5, <2>6
    <3> QED BY <2>4, <3>1
  <2> QED BY <2>2, <2>6, <2>7
<1>5. ASSUME NEW d, NEW a \in 0 .. h - 1, NEW c \in 0 .. w - 1, d = Columns * a + c
      PROVE  Covered(cut, m, d)
  <2>1. PICK b : b = c \div piece
    OBVIOUS
  <2>2. PICK e : e = c % piece
    OBVIOUS
  <2>3. c = piece * b + e /\ b \in Nat /\ e \in 0 .. piece - 1
    <3>1. c \in Nat
      OBVIOUS
    <3> QED BY <1>2, <2>1, <2>2, <3>1, Division, Zenon
  <2>4. b < each
    <3>1. each <= b => piece * each <= piece * b
      BY <1>2, <2>3, Quotients
    <3>2. piece * b \in Nat /\ piece * each \in Nat
      BY <1>2, <2>3
    <3> QED BY <1>2, <2>3, <3>1, <3>2
  <2>5. PICK k \in Nat : k = each * a + b
    BY <1>2, <2>3
  <2>6. PICK l : l = k + 1
    OBVIOUS
  <2>7. l \in 1 .. m
    <3>1. each * a + each <= each * h
      BY <1>2, Quotients
    <3>2. PICK B \in Nat : B = each * a
      BY <1>2
    <3>3. each * h = m
      BY <1>2
    <3> HIDE DEF m
    <3> QED BY <1>2, <1>3, <2>4, <2>3, <2>5, <2>6, <3>1, <3>2, <3>3
  <2>8. a = (l - 1) \div each /\ b = (l - 1) % each
    <3>1. b \in 0 .. each - 1 /\ l - 1 = k /\ a \in Nat
      BY <1>2, <2>3, <2>4, <2>6
    <3>2. k \div each = a /\ k % each = b
      BY <1>2, <2>5, <3>1, Divided, ZenonT(30)
    <3> QED BY <3>1, <3>2
  <2>9. /\ cut[l].at = Columns * a + piece * b /\ piece * b \in 0 .. w - 1
        /\ cut[l].n = IF w - piece * b < piece THEN w - piece * b ELSE piece
    <3>1. IsPiece(w, h, piece, l, a, b)
      BY <1>1, <1>2, <2>7, <2>8, PieceIs
    <3> QED BY <3>1 DEF IsPiece
  <2>10. PICK o \in 0 .. w - 1 : o = piece * b
    BY <2>9
  <2>11. PICK A \in Nat : A = Columns * a
    BY <1>2
  <2>12. /\ cut[l].at = A + o /\ cut[l].n = IF w - o < piece THEN w - o ELSE piece
         /\ c = o + e /\ d = A + c
    <3> HIDE DEF cut
    <3> QED BY <1>5, <2>3, <2>9, <2>10, <2>11
  <2> HIDE DEF cut, m
  <2>13. d \in cut[l].at .. cut[l].at + cut[l].n - 1
    BY <1>2, <2>3, <2>12
  <2> QED BY <2>7, <2>13 DEF Covered
<1> HIDE DEF m, cut
<1>6. \A d : Covered(cut, m, d) <=> \E a \in 0 .. h - 1, c \in 0 .. w - 1 : d = Columns * a + c
  BY <1>4, <1>5 DEF Covered
<1>7. Paves(cut, m, w, h)
  BY <1>3, <1>4, <1>6 DEF Paves
<1> QED
  BY <1>3, <1>7 DEF cut

-----------------------------------------------------------------------------
(* What a transfer leaves.                                                 *)

\* Bytes after n dwords were moved, and after n times v.
MovedBytes(y, a, p, b, q, n) ==
  [y EXCEPT ![b] = [k \in DOMAIN @ |-> IF k \in q .. q + n - 1 THEN y[a][p + k - q] ELSE @[k]]]

FilledBytes(y, b, q, n, v) ==
  [y EXCEPT ![b] = [k \in DOMAIN @ |-> IF k \in q .. q + n - 1 THEN v ELSE @[k]]]

\* g differs from f in its bytes alone, or in its lists and budgets of packets.
Still(f, g) ==
  /\ Shaped(g) /\ g.state = f.state /\ g.revisions = f.revisions /\ g.home = f.home

\* A step that leaves the bytes y, if there are sequences for it.
Writes(f, r, y) ==
  /\ Still(f, r.now)
  /\ r.ok => r.now.bytes = y
  /\ f.sequences = Plenty => r.ok /\ r.now.sequences = Plenty

LEMMA MovingIs ==
  ASSUME NEW f, Shaped(f), NEW a, NEW p, NEW b, NEW q, NEW n
  PROVE  /\ Still(f, Moving(f, a, p, b, q, n))
         /\ Moving(f, a, p, b, q, n).bytes = MovedBytes(f.bytes, a, p, b, q, n)
         /\ Moving(f, a, p, b, q, n).sequences = f.sequences
         /\ Moving(f, a, p, b, q, n).writes = f.writes
  BY DEF Still, Shaped, Moving, MovedBytes, Fields

LEMMA FillingIs ==
  ASSUME NEW f, Shaped(f), NEW b, NEW q, NEW n, NEW v
  PROVE  /\ Still(f, Filling(f, b, q, n, v))
         /\ Filling(f, b, q, n, v).bytes = FilledBytes(f.bytes, b, q, n, v)
         /\ Filling(f, b, q, n, v).sequences = f.sequences
         /\ Filling(f, b, q, n, v).writes = f.writes
  BY DEF Still, Shaped, Filling, FilledBytes, Fields

LEMMA SubmittedWrites ==
  ASSUME NEW f, Shaped(f), NEW objects, NEW g, Still(f, g), g.sequences = f.sequences
  PROVE  Writes(f, Submitted(f, objects, g), g.bytes)
<1>1. Plenty # 0
  BY TransfersAssumption
<1> QED
  BY <1>1 DEF Writes, Still, Shaped, Less, Submitted, Done, Refused, Fields

LEMMA CopiedWrites ==
  ASSUME NEW f, Shaped(f), NEW a, NEW p, NEW b, NEW q, NEW n, ~Overlaps(a, p, b, q, n)
  PROVE  Writes(f, Copied(f, a, p, b, q, n), MovedBytes(f.bytes, a, p, b, q, n))
<1> DEFINE g == Moving(f, a, p, b, q, n)
<1>1. Still(f, g) /\ g.bytes = MovedBytes(f.bytes, a, p, b, q, n) /\ g.sequences = f.sequences
  BY MovingIs
<1>2. Copied(f, a, p, b, q, n) = Submitted(f, {a, b}, g)
  BY DEF Copied
<1> HIDE DEF g
<1> QED
  BY <1>1, <1>2, SubmittedWrites

LEMMA StagedWrites ==
  ASSUME NEW f, Shaped(f), NEW b, NEW q, NEW n, NEW v
  PROVE  Writes(f, Staged(f, b, q, n, v), FilledBytes(f.bytes, b, q, n, v))
<1> DEFINE g == Filling(f, b, q, n, v)
<1>1. Still(f, g) /\ g.bytes = FilledBytes(f.bytes, b, q, n, v) /\ g.sequences = f.sequences
  BY FillingIs
<1>2. Staged(f, b, q, n, v) = Submitted(f, {b}, g)
  BY DEF Staged
<1> HIDE DEF g
<1> QED
  BY <1>1, <1>2, SubmittedWrites

\* Nothing but counters that are used up can be in the way of a transfer.
Unhindered(f) == f.sequences = Plenty /\ \A i \in Image : f.revisions[i] = Plenty

\* A call that leaves the bytes y, if may holds, and the states as they were; or
\* is refused and leaves all as it was.
Restores(f, r, may, y) ==
  /\ r.ok => r.now.state = f.state
  /\ r.ok /\ may => r.now.bytes = y
  /\ ~r.ok /\ Unhindered(f) => r.now.bytes = f.bytes /\ r.now.state = f.state

LEMMA WritesRestores ==
  ASSUME NEW f, NEW r, NEW y, Writes(f, r, y) PROVE Restores(f, r, TRUE, y)
  BY DEF Writes, Still, Restores, Unhindered

LEMMA RefusedRestores ==
  ASSUME NEW f, NEW y, NEW may PROVE Restores(f, Refused(f), may, y)
  BY DEF Restores, Refused

-----------------------------------------------------------------------------
(* Transfers of buffers.                                                   *)

LEMMA CopyBufferRestores ==
  ASSUME NEW f, Shaped(f), NEW a, NEW p, NEW b, NEW q, NEW n
  PROVE  /\ Restores(f, CopyBuffer(f, a, p, b, q, n), TRUE, MovedBytes(f.bytes, a, p, b, q, n))
         /\ CopyBuffer(f, a, p, b, q, n).ok => InRange(a, p, n)
<1> DEFINE may == /\ {a, b} \subseteq Bound(f) /\ a \in Source /\ b \in Destination
                  /\ InRange(a, p, n) /\ InRange(b, q, n)
           r == CopyBuffer(f, a, p, b, q, n)
<1>1. CASE ~may
  <2>1. r = Refused(f)
    BY <1>1 DEF CopyBuffer
  <2>2. ~Refused(f).ok
    BY DEF Refused
  <2> HIDE DEF r
  <2>3. ~r.ok /\ Restores(f, r, TRUE, MovedBytes(f.bytes, a, p, b, q, n))
    BY <2>1, <2>2, RefusedRestores
  <2> QED BY <2>3 DEF r
<1>2. CASE may /\ Overlaps(a, p, b, q, n)
  <2>1. r = Refused([f EXCEPT !.listed = {}])
    BY <1>2 DEF CopyBuffer, Copied
  <2> QED BY <2>1 DEF Refused, Restores, Shaped, Fields
<1>3. CASE may /\ ~Overlaps(a, p, b, q, n)
  <2>1. r = Copied(f, a, p, b, q, n)
    BY <1>3 DEF CopyBuffer
  <2> QED BY <1>3, <2>1, CopiedWrites, WritesRestores
<1> QED
  BY <1>1, <1>2, <1>3

LEMMA UploadBufferRestores ==
  ASSUME NEW f, Shaped(f), NEW b, NEW q, NEW n, NEW v
  PROVE  Restores(f, UploadBuffer(f, b, q, n, v), TRUE, FilledBytes(f.bytes, b, q, n, v))
<1>1. Restores(f, Done(Filling(f, b, q, n, v)), TRUE, FilledBytes(f.bytes, b, q, n, v))
  BY FillingIs DEF Restores, Done, Still
<1>2. UploadBuffer(f, b, q, n, v) \in
        {Refused(f), Staged(f, b, q, n, v), Done(Filling(f, b, q, n, v))}
  BY DEF UploadBuffer
<1> QED
  BY <1>1, <1>2, RefusedRestores, StagedWrites, WritesRestores

LEMMA PackedIs ==
  ASSUME NEW f, Shaped(f), f.writes = Plenty, NEW b, NEW q, NEW n, NEW v,
         NEW r, r = Packed(f, b, q, n, v)
  PROVE  /\ r.ok /\ Still(f, r.now) /\ r.now.writes = Plenty /\ r.now.sequences = f.sequences
         /\ r.now.bytes = FilledBytes(f.bytes, b, q, n, v)
<1> DEFINE g == Filling(f, b, q, n, v)
<1>1. /\ Still(f, g) /\ g.bytes = FilledBytes(f.bytes, b, q, n, v)
      /\ g.sequences = f.sequences /\ g.writes = f.writes
  BY FillingIs
<1>2. Plenty # 0
  BY TransfersAssumption
<1>3. r = Done([g EXCEPT !.writes = Less(g.writes)])
  BY <1>2 DEF Packed
<1> HIDE DEF g
<1> QED
  BY <1>1, <1>3 DEF Still, Shaped, Less, Done, Fields

\* A run and the one behind it.
LEMMA FilledTwice ==
  ASSUME NEW y, NEW b, NEW q \in Nat, NEW n \in Nat, NEW m \in 0 .. n, NEW v
  PROVE  FilledBytes(FilledBytes(y, b, q, m, v), b, q + m, n - m, v) = FilledBytes(y, b, q, n, v)
<1> DEFINE z == FilledBytes(y, b, q, m, v)
<1>1. \A k : k \in q .. q + n - 1 <=> k \in q .. q + m - 1 \/ k \in q + m .. q + m + (n - m) - 1
  OBVIOUS
<1>2. CASE b \in DOMAIN y
  <2>1. z[b] = [k \in DOMAIN y[b] |-> IF k \in q .. q + m - 1 THEN v ELSE y[b][k]]
    BY <1>2 DEF FilledBytes
  <2>2. /\ DOMAIN z[b] = DOMAIN y[b]
        /\ \A k \in DOMAIN y[b] : z[b][k] = IF k \in q .. q + m - 1 THEN v ELSE y[b][k]
    BY <2>1
  <2>3. [k \in DOMAIN z[b] |-> IF k \in q + m .. q + m + (n - m) - 1 THEN v ELSE z[b][k]]
          = [k \in DOMAIN y[b] |-> IF k \in q .. q + n - 1 THEN v ELSE y[b][k]]
    <3>1. \A k \in DOMAIN y[b] :
            (IF k \in q + m .. q + m + (n - m) - 1 THEN v ELSE z[b][k])
              = (IF k \in q .. q + n - 1 THEN v ELSE y[b][k])
      <4> TAKE k \in DOMAIN y[b]
      <4>1. z[b][k] = IF k \in q .. q + m - 1 THEN v ELSE y[b][k]
        BY <2>2
      <4>2. k \in q .. q + n - 1 <=> k \in q .. q + m - 1 \/ k \in q + m .. q + m + (n - m) - 1
        BY <1>1
      <4> HIDE DEF z
      <4> QED BY <4>1, <4>2, Zenon
    <3> HIDE DEF z
    <3> QED BY <2>2, <3>1, Zenon
  <2>4. DOMAIN z = DOMAIN y /\ \A o \in DOMAIN y : o # b => z[o] = y[o]
    BY DEF FilledBytes
  <2> DEFINE new == [k \in DOMAIN y[b] |-> IF k \in q .. q + n - 1 THEN v ELSE y[b][k]]
  <2>5. [z EXCEPT ![b] = new] = [y EXCEPT ![b] = new]
    <3> HIDE DEF z, new
    <3> QED BY <2>4
  <2>6. FilledBytes(z, b, q + m, n - m, v) = [z EXCEPT ![b] = new]
    <3>1. FilledBytes(z, b, q + m, n - m, v) =
            [z EXCEPT ![b] = [k \in DOMAIN z[b] |-> IF k \in q + m .. q + m + (n - m) - 1 THEN v ELSE z[b][k]]]
      <4> HIDE DEF z
      <4> QED BY Zenon DEF FilledBytes
    <3> QED BY <2>3, <3>1, Zenon
  <2>7. FilledBytes(y, b, q, n, v) = [y EXCEPT ![b] = new]
    BY DEF FilledBytes
  <2> HIDE DEF new, z
  <2> QED BY <2>5, <2>6, <2>7 DEF z
<1>3. CASE b \notin DOMAIN y
  BY <1>3 DEF FilledBytes
<1> QED
  BY <1>2, <1>3

LEMMA FillBufferRestores ==
  ASSUME NEW f, Shaped(f), f.writes = Plenty, NEW b, NEW q \in Nat, NEW n \in Nat, NEW v
  PROVE  Restores(f, FillBuffer(f, b, q, n, v), TRUE, FilledBytes(f.bytes, b, q, n, v))
<1> DEFINE whole == n - (n % Packet)
           r == Packed(f, b, q, whole, v)
           s == Packed(r.now, b, q + whole, n - whole, v)
           t == Packed(f, b, q + whole, n - whole, v)
           y == FilledBytes(f.bytes, b, q, n, v)
<1>1. whole \in 0 .. n
  <2>1. Packet \in Nat \ {0}
    BY TransfersAssumption
  <2>2. n % Packet \in 0 .. Packet - 1 /\ n = Packet * (n \div Packet) + (n % Packet) /\ n \div Packet \in Nat
    BY <2>1, Division
  <2>3. Packet * (n \div Packet) \in Nat
    BY <2>1, <2>2
  <2> QED BY <2>1, <2>2, <2>3
<1>2. FillBuffer(f, b, q, n, v) \in
        {Refused(f), Staged(f, b, q, n, v)}
          \cup (IF whole = 0 THEN IF whole = n THEN {Done(f)} ELSE {t} ELSE
                IF r.ok THEN IF whole = n THEN {Done(r.now)} ELSE {s} ELSE {r})
  BY DEF FillBuffer, Then
<1>3. n = 0 => FillBuffer(f, b, q, n, v) = Refused(f)
  BY DEF FillBuffer, InRange
<1>4. Restores(f, Refused(f), TRUE, y) /\ Restores(f, Staged(f, b, q, n, v), TRUE, y)
  BY RefusedRestores, StagedWrites, WritesRestores
<1>5. /\ r.ok /\ Still(f, r.now) /\ r.now.writes = Plenty
      /\ r.now.bytes = FilledBytes(f.bytes, b, q, whole, v)
  BY PackedIs
<1>6. ASSUME whole = 0, whole # n PROVE Restores(f, t, TRUE, y)
  <2>1. q + whole = q /\ n - whole = n
    BY <1>6
  <2>2. t = Packed(f, b, q, n, v)
    BY <2>1
  <2>3. t.ok /\ Still(f, t.now) /\ t.now.bytes = y
    BY <2>2, PackedIs
  <2> HIDE DEF t, y
  <2> QED BY <2>3 DEF Restores, Still
<1>7. ASSUME whole # 0, whole = n PROVE Restores(f, Done(r.now), TRUE, y)
  <2>1. r.now.bytes = y
    BY <1>5, <1>7
  <2> HIDE DEF r, y
  <2> QED BY <1>5, <2>1 DEF Restores, Still, Done
<1>8. ASSUME whole # 0, whole # n PROVE Restores(f, s, TRUE, y)
  <2>1. Shaped(r.now)
    BY <1>5 DEF Still
  <2>2. s.ok /\ Still(r.now, s.now) /\ s.now.bytes = FilledBytes(r.now.bytes, b, q + whole, n - whole, v)
    <3> HIDE DEF r, whole
    <3> QED BY <1>5, <2>1, PackedIs
  <2>3. s.now.bytes = y
    <3> HIDE DEF r, s, whole
    <3> QED BY <1>1, <1>5, <2>2, FilledTwice DEF y
  <2> HIDE DEF r, s, y
  <2> QED BY <1>5, <2>2, <2>3 DEF Restores, Still
<1> DEFINE fill == FillBuffer(f, b, q, n, v)
<1> HIDE DEF r, s, t, y, whole
<1>9. \/ fill \in {Refused(f), Staged(f, b, q, n, v)}
      \/ whole = 0 /\ whole # n /\ fill = t
      \/ whole # 0 /\ whole = n /\ fill = Done(r.now)
      \/ whole # 0 /\ whole # n /\ fill = s
  BY <1>2, <1>3, <1>5
<1>10. Restores(f, fill, TRUE, y)
  <2> HIDE DEF fill
  <2> QED BY <1>4, <1>6, <1>7, <1>8, <1>9
<1> QED
  BY <1>10 DEF y

-----------------------------------------------------------------------------
(* Transfers of images.                                                    *)

\* Image i goes to state s, or is refused, and nothing else changes but what is
\* left of its revisions.
Enters(f, r, i, s) ==
  /\ Shaped(r.now) /\ (Proper(f) => Proper(r.now))
  /\ r.now.bytes = f.bytes /\ r.now.home = f.home /\ r.now.sequences = f.sequences
  /\ r.now.state = IF r.ok THEN [f.state EXCEPT ![i] = s] ELSE f.state
  /\ \A j \in Image : j # i \/ f.revisions[i] = Plenty => r.now.revisions[j] = f.revisions[j]

LEMMA RecordedEnters ==
  ASSUME NEW f, Shaped(f), Proper(f), NEW i \in Image, NEW s, s # "gone"
  PROVE  /\ Enters(f, Recorded(f, i, s), i, s)
         /\ (/\ i \in Bound(f) \cap Usable(s) /\ f.state[i] \notin {"gone", s} /\ f.revisions[i] # 0)
              => Recorded(f, i, s).ok
<1> DEFINE g == [f EXCEPT !.retained = Nothing]
           h == [f EXCEPT !.retained = i]
           k == [g EXCEPT !.state[i] = s, !.revisions[i] = Less(@)]
           r == Recorded(f, i, s)
<1>2. ASSUME NEW x \in {f, g, h} PROVE Enters(f, Refused(x), i, s)
  BY <1>2 DEF Enters, Refused, Shaped, Proper, Fields
<1>3. CASE /\ i \in Bound(f) \cap Usable(s) /\ f.state[i] \notin {"gone", s} /\ f.revisions[i] # 0
  <2>1. r = Done(k)
    BY <1>3 DEF Recorded
  <2>2. /\ DOMAIN k = Fields /\ k.bytes = f.bytes /\ k.home = f.home /\ k.sequences = f.sequences
        /\ k.state = [f.state EXCEPT ![i] = s]
        /\ k.revisions = [f.revisions EXCEPT ![i] = Less(@)]
    BY DEF Shaped, Fields
  <2> HIDE DEF k
  <2>3. /\ Shaped(k) /\ \A j \in Image : k.state[j] = IF j = i THEN s ELSE f.state[j]
        /\ k.state = [j \in Image |-> k.state[j]] /\ k.revisions = [j \in Image |-> k.revisions[j]]
        /\ \A j \in Image : k.revisions[j] = IF j = i THEN Less(f.revisions[i]) ELSE f.revisions[j]
    <3>1. DOMAIN f.state = Image /\ DOMAIN f.revisions = Image
      BY DEF Shaped, Proper
    <3>2. Shaped(k) /\ \A j \in Image : k.state[j] = IF j = i THEN s ELSE f.state[j]
      BY <2>2, <3>1 DEF Shaped
    <3>3. k.state = [j \in Image |-> k.state[j]]
      BY <2>2, <3>1
    <3>4. k.revisions = [j \in Image |-> k.revisions[j]]
      BY <2>2, <3>1
    <3>5. \A j \in Image : k.revisions[j] = IF j = i THEN Less(f.revisions[i]) ELSE f.revisions[j]
      BY <2>2, <3>1
    <3> QED BY <3>2, <3>3, <3>4, <3>5
  <2>4. Proper(k)
    BY <1>3, <2>3 DEF Proper
  <2>5. Enters(f, Done(k), i, s)
    BY <2>2, <2>3, <2>4 DEF Enters, Done, Less
  <2>6. Done(k).ok
    BY DEF Done
  <2> QED BY <2>1, <2>5, <2>6
<1>4. CASE ~(/\ i \in Bound(f) \cap Usable(s) /\ f.state[i] \notin {"gone", s} /\ f.revisions[i] # 0)
  <2>1. r \in {Refused(f), Refused(g), Refused(h)}
    BY <1>4 DEF Recorded
  <2> HIDE DEF g, h, r
  <2>2. Enters(f, r, i, s)
    BY <1>2, <2>1
  <2> QED BY <1>4, <2>2 DEF r
<1> QED
  BY <1>3, <1>4

LEMMA EnteredEnters ==
  ASSUME NEW f, Shaped(f), Proper(f), NEW i \in Image, NEW s, s # "gone"
  PROVE  /\ Enters(f, Entered(f, i, s), i, s)
         /\ (/\ i \in Bound(f) \cap Usable(s) /\ f.state[i] # "gone"
             /\ f.state[i] = s \/ f.revisions[i] # 0)
              => Entered(f, i, s).ok
<1>1. CASE f.state[i] = s
  <2>1. Entered(f, i, s) = Done(f)
    BY <1>1 DEF Entered
  <2>2. f.state = [f.state EXCEPT ![i] = s]
    BY <1>1 DEF Proper
  <2>3. Enters(f, Done(f), i, s) /\ Done(f).ok
    BY <2>2 DEF Enters, Done
  <2> QED BY <2>1, <2>3
<1>2. CASE f.state[i] # s
  <2>1. Entered(f, i, s) = Recorded(f, i, s)
    BY <1>2 DEF Entered
  <2> QED BY <1>2, <2>1, RecordedEnters
<1> QED
  BY <1>1, <1>2

\* There, a step, and back: what Within does.
LEMMA WithinRestores ==
  ASSUME NEW f, Shaped(f), Proper(f), NEW i \in Image, i \in Bound(f), f.state[i] # "gone",
         NEW s \in {"TRANSFER_SOURCE", "TRANSFER_DESTINATION"}, NEW y,
         NEW r, r = Entered(f, i, s),
         NEW t, Writes(r.now, t, y),
         NEW u, u = Entered(t.now, i, f.state[i]),
         NEW w, w = IF r.ok THEN IF t.ok THEN u ELSE t ELSE r
  PROVE  Restores(f, w, TRUE, y)
<1>1. s # "gone" /\ Usable(s) = Image /\ Plenty # 0
  BY TransfersAssumption DEF Usable
<1>2. i \in Usable(f.state[i])
  BY DEF Proper
<1>3. Enters(f, r, i, s) /\ (f.revisions[i] = Plenty => r.ok)
  BY <1>1, EnteredEnters
<1>4. Shaped(r.now) /\ Proper(r.now) /\ Still(r.now, t.now)
  BY <1>3 DEF Enters, Writes
<1>5. Shaped(t.now) /\ Proper(t.now) /\ Bound(t.now) = Bound(f)
  BY <1>3, <1>4 DEF Still, Proper, Bound, Enters
<1>6. ASSUME r.ok
      PROVE  t.now.state = [f.state EXCEPT ![i] = s] /\ t.now.state[i] = s /\ s # "gone"
  BY <1>3, <1>4, <1>6 DEF Enters, Still, Shaped
<1>7. /\ Enters(t.now, u, i, f.state[i])
      /\ r.ok /\ t.now.revisions[i] = Plenty => u.ok
  BY <1>1, <1>2, <1>5, <1>6, EnteredEnters
<1>8. ASSUME w.ok PROVE w.now.state = f.state /\ w.now.bytes = y
  <2>1. r.ok /\ t.ok /\ w = u /\ u.ok
    BY <1>8
  <2>2. w.now.bytes = t.now.bytes /\ w.now.state = [t.now.state EXCEPT ![i] = f.state[i]]
    BY <1>7, <2>1 DEF Enters
  <2>3. [[f.state EXCEPT ![i] = s] EXCEPT ![i] = f.state[i]] = f.state
    BY DEF Proper
  <2> QED BY <1>6, <2>1, <2>2, <2>3 DEF Writes
<1>9. ASSUME Unhindered(f) PROVE w.ok
  <2>1. r.ok /\ r.now.sequences = Plenty /\ r.now.revisions[i] = Plenty
    BY <1>3, <1>9 DEF Enters, Unhindered
  <2>2. t.ok /\ t.now.revisions[i] = Plenty
    BY <1>4, <2>1 DEF Writes, Still
  <2> QED BY <1>7, <2>1, <2>2
<1> QED
  BY <1>8, <1>9 DEF Restores

LEMMA CopyToImageRestores ==
  ASSUME NEW f, Shaped(f), Proper(f), NEW a \in Buffer, NEW p, NEW i \in Image, NEW q, NEW n
  PROVE  /\ Restores(f, CopyToImage(f, a, p, i, q, n), TRUE, MovedBytes(f.bytes, a, p, i, q, n))
         /\ CopyToImage(f, a, p, i, q, n).ok => InRange(a, p, n)
<1> DEFINE may == a \in Bound(f) \cap Source /\ InRange(a, p, n) /\ InRange(i, q, n)
           r == Entered(f, i, "TRANSFER_DESTINATION")
           t == Copied(r.now, a, p, i, q, n)
           u == Entered(t.now, i, f.state[i])
           w == CopyToImage(f, a, p, i, q, n)
           y == MovedBytes(f.bytes, a, p, i, q, n)
<1>1. CASE may /\ i \in Bound(f) /\ f.state[i] # "gone"
  <2>1. w = IF r.ok THEN IF t.ok THEN u ELSE t ELSE r
    BY <1>1 DEF CopyToImage, Within, Then
  <2>2. ~Overlaps(a, p, i, q, n)
    BY TransfersAssumption DEF Overlaps
  <2>3. Enters(f, r, i, "TRANSFER_DESTINATION")
    BY EnteredEnters
  <2>4. Shaped(r.now) /\ r.now.bytes = f.bytes
    <3> HIDE DEF r
    <3> QED BY <2>3 DEF Enters
  <2>5. t = Copied(r.now, a, p, i, q, n) /\ u = Entered(t.now, i, f.state[i])
    OBVIOUS
  <2> HIDE DEF t, u, w
  <2>6. Writes(r.now, t, y)
    BY <2>2, <2>4, <2>5, CopiedWrites
  <2> HIDE DEF y
  <2>7. Restores(f, w, TRUE, y)
    BY <1>1, <2>1, <2>5, <2>6, WithinRestores
  <2> QED BY <1>1, <2>7 DEF w, y
<1>2. CASE ~(may /\ i \in Bound(f) /\ f.state[i] # "gone")
  <2>1. w = Refused(f)
    BY <1>2 DEF CopyToImage, Within
  <2>2. ~Refused(f).ok
    BY DEF Refused
  <2> HIDE DEF w, y
  <2>3. Restores(f, w, TRUE, y) /\ ~w.ok
    BY <2>1, <2>2, RefusedRestores
  <2> QED BY <2>3 DEF w, y
<1> QED
  BY <1>1, <1>2

LEMMA CopyFromImageRestores ==
  ASSUME NEW f, Shaped(f), Proper(f), NEW i \in Image, NEW p, NEW b \in Buffer, NEW q, NEW n
  PROVE  /\ Restores(f, CopyFromImage(f, i, p, b, q, n), TRUE, MovedBytes(f.bytes, i, p, b, q, n))
         /\ CopyFromImage(f, i, p, b, q, n).ok => InRange(i, p, n)
<1> DEFINE may == b \in Bound(f) \cap Destination /\ InRange(i, p, n) /\ InRange(b, q, n)
           r == Entered(f, i, "TRANSFER_SOURCE")
           t == Copied(r.now, i, p, b, q, n)
           u == Entered(t.now, i, f.state[i])
           w == CopyFromImage(f, i, p, b, q, n)
           y == MovedBytes(f.bytes, i, p, b, q, n)
<1>1. CASE may /\ i \in Bound(f) /\ f.state[i] # "gone"
  <2>1. w = IF r.ok THEN IF t.ok THEN u ELSE t ELSE r
    BY <1>1 DEF CopyFromImage, Within, Then
  <2>2. ~Overlaps(i, p, b, q, n)
    BY TransfersAssumption DEF Overlaps
  <2>3. Enters(f, r, i, "TRANSFER_SOURCE")
    BY EnteredEnters
  <2>4. Shaped(r.now) /\ r.now.bytes = f.bytes
    <3> HIDE DEF r
    <3> QED BY <2>3 DEF Enters
  <2>5. t = Copied(r.now, i, p, b, q, n) /\ u = Entered(t.now, i, f.state[i])
    OBVIOUS
  <2> HIDE DEF t, u, w
  <2>6. Writes(r.now, t, y)
    BY <2>2, <2>4, <2>5, CopiedWrites
  <2> HIDE DEF y
  <2>7. Restores(f, w, TRUE, y)
    BY <1>1, <2>1, <2>5, <2>6, WithinRestores
  <2> QED BY <1>1, <2>7 DEF w, y
<1>2. CASE ~(may /\ i \in Bound(f) /\ f.state[i] # "gone")
  <2>1. w = Refused(f)
    BY <1>2 DEF CopyFromImage, Within
  <2>2. ~Refused(f).ok
    BY DEF Refused
  <2> HIDE DEF w, y
  <2>3. Restores(f, w, TRUE, y) /\ ~w.ok
    BY <2>1, <2>2, RefusedRestores
  <2> QED BY <2>3 DEF w, y
<1> QED
  BY <1>1, <1>2

LEMMA OwnIs ==
  /\ DOMAIN Own = Object
  /\ \A o \in Object : DOMAIN Own[o] = 0 .. Size(o) - 1 /\ Size(o) \in Nat
  /\ \A o \in Object : \A k \in 0 .. Size(o) - 1 : Own[o][k] = <<o, k>>
<1>1. \A o \in Object : Size(o) \in Nat
  <2>1. Columns \in Nat /\ Rows \in Nat /\ Length \in Nat
    BY TransfersAssumption
  <2>2. Columns * Rows \in Nat
    BY <2>1
  <2> QED BY <2>1, <2>2 DEF Size
<1> QED
  BY <1>1 DEF Own

\* The bytes after the first m pieces of a copy from i to j.
PiecedBytes(i, p, j, q, pieces, m) ==
  [Own EXCEPT ![j] = [k \in DOMAIN @ |-> IF Covered(pieces, m, k - q) THEN Own[i][p + k - q] ELSE @[k]]]

LEMMA NoPiece ==
  ASSUME NEW i, NEW p, NEW j \in Object, NEW q, NEW pieces
  PROVE  PiecedBytes(i, p, j, q, pieces, 0) = Own
<1>1. \A d : ~Covered(pieces, 0, d)
  BY DEF Covered
<1>2. Own = [o \in Object |-> Own[o]] /\ Own[j] = [k \in DOMAIN Own[j] |-> Own[j][k]]
  BY DEF Own
<1> QED
  BY <1>1, <1>2 DEF PiecedBytes

LEMMA OnePieceMore ==
  ASSUME NEW i \in Object, NEW p \in Nat, NEW j \in Object, i # j, NEW q \in Nat,
         NEW pieces, NEW m \in Nat, pieces[m + 1].at \in Nat, pieces[m + 1].n \in Nat
  PROVE  MovedBytes(PiecedBytes(i, p, j, q, pieces, m),
                    i, p + pieces[m + 1].at, j, q + pieces[m + 1].at, pieces[m + 1].n)
           = PiecedBytes(i, p, j, q, pieces, m + 1)
<1> DEFINE y == PiecedBytes(i, p, j, q, pieces, m)
           Was(k) == IF Covered(pieces, m, k - q) THEN Own[i][p + k - q] ELSE Own[j][k]
           Is(k) == IF Covered(pieces, m + 1, k - q) THEN Own[i][p + k - q] ELSE Own[j][k]
<1>1. PICK at \in Nat, n \in Nat : at = pieces[m + 1].at /\ n = pieces[m + 1].n
  OBVIOUS
<1>2. DOMAIN Own = Object
  BY OwnIs
<1>3. y = [Own EXCEPT ![j] = [k \in DOMAIN Own[j] |-> Was(k)]]
  BY DEF PiecedBytes
<1>4. DOMAIN y = Object /\ y[i] = Own[i] /\ y[j] = [k \in DOMAIN Own[j] |-> Was(k)]
  BY <1>2, <1>3
<1>5. ASSUME NEW k \in DOMAIN Own[j]
      PROVE  (IF k \in q + at .. q + at + n - 1 THEN y[i][p + at + k - (q + at)] ELSE y[j][k]) = Is(k)
  <2>1. k \in Int
    BY OwnIs
  <2>2. Covered(pieces, m + 1, k - q) <=> Covered(pieces, m, k - q) \/ k \in q + at .. q + at + n - 1
    <3>1. \A l : l \in 1 .. m + 1 <=> l \in 1 .. m \/ l = m + 1
      OBVIOUS
    <3>2. k - q \in at .. at + n - 1 <=> k \in q + at .. q + at + n - 1
      BY <2>1
    <3> QED BY <1>1, <3>1, <3>2 DEF Covered
  <2>3. p + at + k - (q + at) = p + k - q
    BY <2>1
  <2>4. y[j][k] = Was(k) /\ y[i] = Own[i]
    BY <1>4
  <2> HIDE DEF y
  <2> QED BY <2>2, <2>3, <2>4
<1>6. MovedBytes(y, i, p + at, j, q + at, n) =
        [y EXCEPT ![j] = [k \in DOMAIN y[j] |->
                            IF k \in q + at .. q + at + n - 1 THEN y[i][p + at + k - (q + at)] ELSE y[j][k]]]
  BY DEF MovedBytes
<1>7. DOMAIN y[j] = DOMAIN Own[j]
  BY <1>4
<1>8. MovedBytes(y, i, p + at, j, q + at, n) = [y EXCEPT ![j] = [k \in DOMAIN Own[j] |-> Is(k)]]
  <2> HIDE DEF y, Is
  <2> QED BY <1>5, <1>6, <1>7, Zenon
<1>9. PiecedBytes(i, p, j, q, pieces, m + 1) = [Own EXCEPT ![j] = [k \in DOMAIN Own[j] |-> Is(k)]]
  BY DEF PiecedBytes
<1> DEFINE new == [k \in DOMAIN Own[j] |-> Is(k)]
           old == [k \in DOMAIN Own[j] |-> Was(k)]
<1>10. [y EXCEPT ![j] = new] = [Own EXCEPT ![j] = new]
  <2> HIDE DEF new, old, y, Was
  <2> QED BY <1>2, <1>3 DEF old
<1> HIDE DEF new, y, Is
<1> QED
  BY <1>1, <1>8, <1>9, <1>10 DEF new, y

LEMMA CopiedPiecesWrites ==
  ASSUME NEW f, Shaped(f), f.bytes = Own,
         NEW i \in Object, NEW p \in Nat, NEW j \in Object, i # j, NEW q \in Nat,
         NEW pieces, NEW m \in Nat, DOMAIN pieces = 1 .. m,
         \A l \in 1 .. m : pieces[l].at \in Nat /\ pieces[l].n \in Nat \ {0}
  PROVE  Writes(f, CopiedPieces(f, i, p, j, q, pieces), PiecedBytes(i, p, j, q, pieces, m))
<1> DEFINE Y(k) == PiecedBytes(i, p, j, q, pieces, k)
<1>1. PICK run : PiecesRun(run, f, i, p, j, q, pieces, m)
  BY CopiedPiecesRun
<1>2. /\ run[0] = Done(f) /\ run[m] = CopiedPieces(f, i, p, j, q, pieces)
      /\ \A k \in 0 .. m - 1 : run[k + 1] = NextPiece(run[k], i, p, j, q, pieces[k + 1])
  BY <1>1 DEF PiecesRun
<1> DEFINE good == {k \in Nat : k <= m => Writes(f, run[k], Y(k))}
<1>3. 0 \in good
  <2>1. Y(0) = Own
    BY NoPiece
  <2> HIDE DEF Y
  <2> QED BY <1>2, <2>1 DEF Writes, Still, Done
<1>4. ASSUME NEW k \in Nat, k \in good PROVE k + 1 \in good
  <2> SUFFICES ASSUME k + 1 <= m PROVE Writes(f, run[k + 1], Y(k + 1))
    OBVIOUS
  <2>1. Writes(f, run[k], Y(k))
    BY <1>4
  <2>2. run[k + 1] = NextPiece(run[k], i, p, j, q, pieces[k + 1])
    BY <1>2
  <2>3. CASE ~run[k].ok
    <3>1. run[k + 1] = run[k]
      BY <2>2, <2>3 DEF NextPiece
    <3> HIDE DEF Y
    <3> QED BY <2>1, <2>3, <3>1 DEF Writes
  <2>4. CASE run[k].ok
    <3>1. PICK g : g = run[k].now
      OBVIOUS
    <3>2. PICK at, n : at = pieces[k + 1].at /\ n = pieces[k + 1].n
      OBVIOUS
    <3>3. run[k + 1] = Copied(g, i, p + at, j, q + at, n)
      BY <2>2, <2>4, <3>1, <3>2 DEF NextPiece
    <3>4. Shaped(g) /\ g.bytes = Y(k)
      <4> HIDE DEF Y
      <4> QED BY <2>1, <2>4, <3>1 DEF Writes, Still
    <3>5. Writes(g, run[k + 1], MovedBytes(Y(k), i, p + at, j, q + at, n))
      <4>1. ~Overlaps(i, p + at, j, q + at, n)
        BY DEF Overlaps
      <4> HIDE DEF Y
      <4> QED BY <3>3, <3>4, <4>1, CopiedWrites
    <3>6. MovedBytes(Y(k), i, p + at, j, q + at, n) = Y(k + 1)
      <4>1. k + 1 \in 1 .. m
        OBVIOUS
      <4> QED BY <3>2, <4>1, OnePieceMore
    <3> HIDE DEF Y
    <3> QED BY <2>1, <2>4, <3>1, <3>5, <3>6 DEF Writes, Still
  <2> QED BY <2>3, <2>4
<1>5. m \in good
  <2> HIDE DEF good
  <2> QED BY <1>3, <1>4, ByInduction
<1> QED
  BY <1>2, <1>5

\* What a copy of a rectangle leaves of dwords that held their own names.
RectBytes(i, x, y, j, u, t, w, h) ==
  [Own EXCEPT ![j] = [k \in DOMAIN @ |->
     LET column == k % Columns
         row == k \div Columns
     IN IF column - u \in 0 .. w - 1 /\ row - t \in 0 .. h - 1
        THEN <<i, Columns * (row - t + y) + column - u + x>> ELSE <<j, k>>]]

\* Dword k is dword c of row a of the rectangle at <<u, t>>.
IsPlace(k, u, t, a, c) ==
  k - (Columns * t + u) = Columns * a + c <=> k \div Columns = t + a /\ k % Columns = u + c

LEMMA PlaceIs ==
  ASSUME NEW k \in Nat, NEW u \in Nat, NEW t \in Nat, NEW w \in Nat, u + w <= Columns,
         NEW a \in Nat, NEW c \in 0 .. w - 1
  PROVE  IsPlace(k, u, t, a, c)
<1>1. Columns \in Nat \ {0}
  BY TransfersAssumption
<1>2. PICK row, column : row = k \div Columns /\ column = k % Columns
  OBVIOUS
<1>3. k = Columns * row + column /\ row \in Nat /\ column \in 0 .. Columns - 1
  BY <1>1, <1>2, Division
<1>4. PICK A \in Nat, T \in Nat, B \in Nat : A = Columns * a /\ T = Columns * t /\ B = Columns * (t + a)
  BY <1>1
<1>5. B = T + A
  BY <1>1, <1>4
<1>6. k - (T + u) = A + c <=> k = B + (u + c)
  BY <1>5
<1>7. u + c \in 0 .. Columns - 1 /\ t + a \in Int
  BY <1>1
<1>8. k = B + (u + c) <=> row = t + a /\ column = u + c
  <2>1. ASSUME k = B + (u + c) PROVE row = t + a /\ column = u + c
    <3>1. Columns * row + column = Columns * (t + a) + (u + c) /\ row \in Int
      BY <1>3, <1>4, <2>1
    <3> QED BY <1>1, <1>3, <1>7, <3>1, Quotients
  <2>2. ASSUME row = t + a, column = u + c PROVE k = B + (u + c)
    BY <1>3, <1>4, <2>2
  <2> QED BY <2>1, <2>2
<1> QED
  BY <1>2, <1>4, <1>6, <1>8 DEF IsPlace

\* Both places of the rectangle are on their images.
Fits(x, y, u, t, w, h) ==
  /\ x \in Nat /\ y \in Nat /\ u \in Nat /\ t \in Nat /\ w \in 1 .. Columns /\ h \in 1 .. Rows
  /\ x + w <= Columns /\ u + w <= Columns /\ y + h <= Rows /\ t + h <= Rows

LEMMA RectangleBytes ==
  ASSUME NEW i \in Image, NEW j \in Image,
         NEW x, NEW y, NEW u, NEW t, NEW w, NEW h, Fits(x, y, u, t, w, h),
         NEW p, p = Columns * y + x, NEW q, q = Columns * t + u,
         NEW pieces, NEW m, Paves(pieces, m, w, h)
  PROVE  PiecedBytes(i, p, j, q, pieces, m) = RectBytes(i, x, y, j, u, t, w, h)
<1> USE DEF Fits
<1>1. Columns \in Nat \ {0} /\ Rows \in Nat \ {0}
  BY TransfersAssumption
<1>2. /\ i \in Object /\ j \in Object
      /\ DOMAIN Own[i] = 0 .. Columns * Rows - 1 /\ DOMAIN Own[j] = 0 .. Columns * Rows - 1
      /\ \A k \in 0 .. Columns * Rows - 1 : Own[i][k] = <<i, k>> /\ Own[j][k] = <<j, k>>
  BY OwnIs DEF Object, Size
<1>3. ASSUME NEW k \in 0 .. Columns * Rows - 1
      PROVE  (IF Covered(pieces, m, k - (Columns * t + u))
              THEN Own[i][(Columns * y + x) + k - (Columns * t + u)] ELSE Own[j][k])
             = LET column == k % Columns
                   row == k \div Columns
               IN IF column - u \in 0 .. w - 1 /\ row - t \in 0 .. h - 1
                  THEN <<i, Columns * (row - t + y) + column - u + x>> ELSE <<j, k>>
  <2>0. Columns * Rows \in Nat /\ k \in Nat
    BY <1>1
  <2>1. PICK row, column : row = k \div Columns /\ column = k % Columns
    OBVIOUS
  <2>2. k = Columns * row + column /\ row \in Nat /\ column \in 0 .. Columns - 1
    BY <1>1, <2>0, <2>1, Division
  <2>3. w \in Nat /\ h \in Nat
    BY <1>1
  <2>8. PICK d : d = k - (Columns * t + u)
    OBVIOUS
  <2>4. ASSUME NEW a \in 0 .. h - 1, NEW c \in 0 .. w - 1
        PROVE  d = Columns * a + c <=> row = t + a /\ column = u + c
    <3>1. a \in Nat
      BY <2>3
    <3>2. IsPlace(k, u, t, a, c)
      BY <2>0, <2>3, <3>1, PlaceIs
    <3> QED BY <2>1, <2>8, <3>2, Zenon DEF IsPlace
  <2>5. Covered(pieces, m, k - (Columns * t + u))
          <=> column - u \in 0 .. w - 1 /\ row - t \in 0 .. h - 1
    <3>1. ASSUME NEW a \in 0 .. h - 1, NEW c \in 0 .. w - 1, row = t + a, column = u + c
          PROVE  column - u \in 0 .. w - 1 /\ row - t \in 0 .. h - 1
      BY <2>3, <3>1
    <3>2. ASSUME column - u \in 0 .. w - 1, row - t \in 0 .. h - 1
          PROVE  \E a \in 0 .. h - 1, c \in 0 .. w - 1 : row = t + a /\ column = u + c
      <4>1. row = t + (row - t) /\ column = u + (column - u)
        BY <2>2
      <4> QED BY <3>2, <4>1
    <3>3. Covered(pieces, m, k - (Columns * t + u))
            <=> \E a \in 0 .. h - 1, c \in 0 .. w - 1 : row = t + a /\ column = u + c
      <4>1. Covered(pieces, m, d) <=> \E a \in 0 .. h - 1, c \in 0 .. w - 1 : d = Columns * a + c
        BY DEF Paves
      <4> QED BY <2>4, <2>8, <4>1, Zenon
    <3> QED BY <3>1, <3>2, <3>3
  <2>6. ASSUME column - u \in 0 .. w - 1, row - t \in 0 .. h - 1
        PROVE  Own[i][(Columns * y + x) + k - (Columns * t + u)]
                 = <<i, Columns * (row - t + y) + column - u + x>>
    <3>1. row - t + y \in 0 .. Rows - 1 /\ column - u + x \in 0 .. Columns - 1
      BY <1>1, <2>2, <2>6
    <3>2. PICK R \in Int, Y \in Int, T \in Int :
            R = Columns * row /\ Y = Columns * y /\ T = Columns * t
      BY <1>1, <2>2
    <3>3. PICK B \in Int : B = Columns * (row - t + y)
      BY <1>1, <2>2
    <3>4. B = R - T + Y
      BY <1>1, <2>2, <3>2, <3>3
    <3>5. (Columns * y + x) + k - (Columns * t + u) = Columns * (row - t + y) + column - u + x
      BY <2>2, <3>2, <3>3, <3>4
    <3>6. 0 <= B /\ B + Columns <= Columns * Rows
      <4>1. Columns * 0 <= Columns * (row - t + y) /\ Columns * 0 = 0
        BY <1>1, <3>1, Quotients
      <4>2. Columns * (row - t + y) + Columns <= Columns * Rows
        BY <1>1, <3>1, Quotients
      <4> QED BY <3>3, <4>1, <4>2
    <3>7. Columns * (row - t + y) + column - u + x \in 0 .. Columns * Rows - 1
      BY <1>1, <2>0, <2>2, <3>1, <3>3, <3>6
    <3> QED BY <1>2, <3>5, <3>7
  <2>7. Own[j][k] = <<j, k>>
    BY <1>2
  <2> QED BY <2>1, <2>5, <2>6, <2>7
<1> QED
  BY <1>2, <1>3 DEF PiecedBytes, RectBytes

\* Image j can take its copy state, or is in it.
MayEnter(f, j) == f.state[j] = "TRANSFER_DESTINATION" \/ f.revisions[j] # 0

LEMMA CopyRectRestores ==
  ASSUME NEW f, Shaped(f), Proper(f), f.bytes = Own,
         NEW i \in Image, NEW x \in Nat, NEW y \in Nat,
         NEW j \in Image, NEW u \in Nat, NEW t \in Nat, NEW w \in Nat, NEW h \in Nat
  PROVE  Restores(f, CopyRect(f, i, x, y, j, u, t, w, h), MayEnter(f, j), RectBytes(i, x, y, j, u, t, w, h))
<1> DEFINE wrong == \/ ~({i, j} \subseteq Bound(f)) \/ i = j \/ (i \in Color) # (j \in Color)
                    \/ w \notin 1 .. Columns \/ h \notin 1 .. Rows
                    \/ x + w > Columns \/ u + w > Columns \/ y + h > Rows \/ t + h > Rows
                    \/ "gone" \in {f.state[i], f.state[j]}
           r1 == Entered(f, i, "TRANSFER_SOURCE")
           r2 == Entered(r1.now, j, "TRANSFER_DESTINATION")
           r3 == CopiedPieces(r2.now, i, Columns * y + x, j, Columns * t + u, Pieces(w, h))
           r4 == Entered(r3.now, j, f.state[j])
           r5 == Entered(r4.now, i, f.state[i])
           undone == Recorded(r2.now, i, f.state[i])
           z == RectBytes(i, x, y, j, u, t, w, h)
           r == CopyRect(f, i, x, y, j, u, t, w, h)
<1>1. CASE wrong
  <2>1. r = Refused(f)
    BY <1>1 DEF CopyRect
  <2> HIDE DEF r, z, wrong
  <2>2. Restores(f, r, MayEnter(f, j), z)
    BY <2>1, RefusedRestores
  <2> QED BY <2>2 DEF r, z
<1>2. CASE ~wrong
  <2>1. r = IF r1.ok THEN IF r2.ok THEN IF r3.ok THEN IF r4.ok THEN r5 ELSE r4 ELSE r3 ELSE undone ELSE r1
    BY <1>2 DEF CopyRect, Then
  <2>2. /\ w \in 1 .. Columns /\ h \in 1 .. Rows /\ f.state[i] # "gone" /\ f.state[j] # "gone" /\ i # j
        /\ i \in Bound(f) /\ j \in Bound(f)
        /\ x + w <= Columns /\ u + w <= Columns /\ y + h <= Rows /\ t + h <= Rows
    <3>1. Columns \in Nat /\ Rows \in Nat
      BY TransfersAssumption
    <3> QED BY <1>2, <3>1
  <2> HIDE DEF wrong
  <2>3. /\ Usable("TRANSFER_SOURCE") = Image /\ Usable("TRANSFER_DESTINATION") = Image
        /\ i \in Usable(f.state[i]) /\ j \in Usable(f.state[j]) /\ Plenty # 0
    BY <2>2, TransfersAssumption DEF Usable, Proper
  <2>4. /\ Enters(f, r1, i, "TRANSFER_SOURCE")
        /\ f.revisions[i] = Plenty => r1.ok
    BY <2>2, <2>3, EnteredEnters
  <2>5. Shaped(r1.now) /\ Proper(r1.now) /\ Bound(r1.now) = Bound(f)
    BY <2>4 DEF Enters, Bound
  <2>6. /\ r1.now.state[j] = f.state[j] /\ r1.now.revisions[j] = f.revisions[j]
        /\ f.revisions[i] = Plenty => r1.now.revisions[i] = Plenty
    <3> HIDE DEF r1
    <3> QED BY <2>2, <2>4 DEF Enters, Shaped
  <2>7. /\ Enters(r1.now, r2, j, "TRANSFER_DESTINATION")
        /\ MayEnter(f, j) => r2.ok
    <3> HIDE DEF r1
    <3> QED BY <2>2, <2>3, <2>5, <2>6, EnteredEnters DEF MayEnter
  <2>8. Shaped(r2.now) /\ Proper(r2.now) /\ Bound(r2.now) = Bound(f) /\ r2.now.bytes = Own
    <3> HIDE DEF r1, r2
    <3> QED BY <2>4, <2>5, <2>7 DEF Enters, Bound
  <2>9. r2.now.revisions[i] = r1.now.revisions[i] /\ r2.now.state[i] = r1.now.state[i]
    <3> HIDE DEF r1, r2
    <3> QED BY <2>2, <2>7, <2>5 DEF Enters, Shaped
  <2>10. Writes(r2.now, r3, z)
    <3>1. PICK m \in Nat : Paves(Pieces(w, h), m, w, h)
      BY <2>2, PiecesCover
    <3>2. PICK p \in Nat, q \in Nat : p = Columns * y + x /\ q = Columns * t + u
      <4>1. Columns * y + x \in Nat /\ Columns * t + u \in Nat
        BY <2>2, TransfersAssumption
      <4> QED BY <4>1
    <3>3. PICK pieces : pieces = Pieces(w, h)
      OBVIOUS
    <3>4. PiecedBytes(i, p, j, q, pieces, m) = z
      <4>1. Paves(pieces, m, w, h)
        BY <3>1, <3>3
      <4>2. Fits(x, y, u, t, w, h)
        BY <2>2 DEF Fits
      <4> QED BY <3>2, <3>3, <4>1, <4>2, RectangleBytes DEF z
    <3>5. r3 = CopiedPieces(r2.now, i, p, j, q, pieces)
      BY <3>2, <3>3
    <3>6. i \in Object /\ j \in Object
      BY DEF Object
    <3> HIDE DEF r2, r3, z
    <3> QED BY <2>2, <2>8, <3>1, <3>2, <3>3, <3>4, <3>5, <3>6, CopiedPiecesWrites DEF Paves
  <2>11. /\ Shaped(r3.now) /\ Proper(r3.now) /\ Bound(r3.now) = Bound(f)
         /\ r3.now.state = r2.now.state /\ r3.now.revisions = r2.now.revisions
    <3> HIDE DEF r2, r3, z
    <3> QED BY <2>8, <2>10 DEF Writes, Still, Proper, Bound
  <2>12. r4 = Entered(r3.now, j, f.state[j]) /\ r5 = Entered(r4.now, i, f.state[i])
         /\ undone = Recorded(r2.now, i, f.state[i])
    OBVIOUS
  <2> HIDE DEF r1, r2, r3, r4, r5, undone, z, r
  <2>13. ASSUME r1.ok
         PROVE  r1.now.state = [f.state EXCEPT ![i] = "TRANSFER_SOURCE"] /\ r1.now.state[i] # "gone"
    BY <2>4, <2>13 DEF Enters, Shaped
  <2>14. ASSUME r2.ok
         PROVE  /\ r2.now.state = [r1.now.state EXCEPT ![j] = "TRANSFER_DESTINATION"]
                /\ r2.now.state[j] # "gone"
    BY <2>5, <2>7, <2>14 DEF Enters, Shaped
  <2>15. /\ Enters(r3.now, r4, j, f.state[j])
         /\ r2.ok /\ r3.now.revisions[j] = Plenty => r4.ok
    BY <2>2, <2>3, <2>11, <2>12, <2>14, EnteredEnters
  <2>16. /\ Shaped(r4.now) /\ Proper(r4.now) /\ Bound(r4.now) = Bound(f)
         /\ r4.now.state[i] = r1.now.state[i] /\ r4.now.revisions[i] = r1.now.revisions[i]
    BY <2>2, <2>9, <2>11, <2>15 DEF Enters, Bound, Shaped
  <2>17. /\ Enters(r4.now, r5, i, f.state[i])
         /\ r1.ok /\ r4.now.revisions[i] = Plenty => r5.ok
    BY <2>2, <2>3, <2>12, <2>13, <2>16, EnteredEnters
  <2>18. ASSUME r.ok, r2.ok PROVE r.now.state = f.state /\ r.now.bytes = z
    <3>1. r1.ok /\ r3.ok /\ r4.ok /\ r5.ok /\ r = r5
      BY <2>1, <2>18
    <3>2. r.now.bytes = z
      BY <2>10, <2>15, <2>17, <3>1 DEF Enters, Writes
    <3>3. r.now.state = [[[[f.state EXCEPT ![i] = "TRANSFER_SOURCE"] EXCEPT ![j] = "TRANSFER_DESTINATION"]
                            EXCEPT ![j] = f.state[j]] EXCEPT ![i] = f.state[i]]
      BY <2>11, <2>13, <2>14, <2>15, <2>17, <2>18, <3>1 DEF Enters
    <3>4. r.now.state = f.state
      BY <2>2, <3>3 DEF Proper
    <3> QED BY <3>2, <3>4
  <2>19. ASSUME r.ok, ~r2.ok PROVE r.now.state = f.state /\ ~MayEnter(f, j)
    <3>1. r1.ok /\ r = undone
      BY <2>1, <2>19
    <3>2. Enters(r2.now, undone, i, f.state[i])
      BY <2>2, <2>8, <2>12, RecordedEnters
    <3>3. r.now.state = [[f.state EXCEPT ![i] = "TRANSFER_SOURCE"] EXCEPT ![i] = f.state[i]]
      BY <2>7, <2>13, <2>19, <3>1, <3>2 DEF Enters
    <3>4. r.now.state = f.state
      BY <3>3 DEF Proper
    <3> QED BY <2>7, <2>19, <3>4
  <2>20. ASSUME Unhindered(f) PROVE r.ok
    <3>1. f.sequences = Plenty /\ f.revisions[i] = Plenty /\ f.revisions[j] = Plenty
      BY <2>20 DEF Unhindered
    <3>2. r1.ok /\ r2.ok
      BY <2>3, <2>4, <2>7, <3>1 DEF MayEnter
    <3>3. r2.now.sequences = Plenty /\ r2.now.revisions[j] = Plenty
      BY <2>4, <2>6, <2>7, <3>1 DEF Enters
    <3>4. r3.ok /\ r4.ok
      BY <2>10, <2>11, <2>15, <3>2, <3>3 DEF Writes
    <3>5. r5.ok
      BY <2>6, <2>16, <2>17, <3>1, <3>2
    <3> QED BY <2>1, <3>2, <3>4, <3>5
  <2>21. Restores(f, r, MayEnter(f, j), z)
    BY <2>18, <2>19, <2>20 DEF Restores
  <2> QED BY <2>21 DEF r, z
<1> QED
  BY <1>1, <1>2
=============================================================================
