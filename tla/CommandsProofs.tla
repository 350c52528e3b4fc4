--------------------------- MODULE CommandsProofs ---------------------------
(***************************************************************************)
(* Proofs about the Vulkan-style device.  What a call does inside the      *)
(* front end is in PassesProofs; here, what the device keeps beside it     *)
(* stays true to it: the count of its children, the counts of views, sets  *)
(* and layouts, the names wrappers and command buffers hold, and which     *)
(* passes are begun.  At the end, what commands do: between two calls the  *)
(* front end is at rest, a transfer from there does what it says, and a    *)
(* submission what its commands do in turn, with each copy and the fill    *)
(* after it made one packet.                                               *)
(***************************************************************************)
EXTENDS Commands, PassesProofs

-----------------------------------------------------------------------------
(* What a submission does to the front end.                                *)

\* What a command buffer may hold.
Entry == Command \cup [kind : {"DISPATCH"}, to : Pipeline]
                 \cup [kind : {"BEGIN"}, to : Pass, cleared : SUBSET {"color", "depth"}]
                 \cup [kind : {"CLEAR_ATTACHMENTS", "CLEAR_DEPTH"}, to : Pass, area : SUBSET Int]

\* What each kind of command names.
LEMMA CommandIs ==
  ASSUME NEW x \in Command
  PROVE  /\ x.kind \in {"COPY", "CLEAR", "TO_IMAGE", "FROM_IMAGE", "COPY_IMAGE", "FILL", "UPDATE", "BARRIER"}
         /\ x.kind = "COPY" => x.from \in Buffer /\ x.at \in Nat /\ x.to \in Buffer /\ x.into \in Nat /\ x.n \in Nat
         /\ x.kind = "TO_IMAGE" => x.from \in Buffer /\ x.at \in Nat /\ x.to \in Image /\ x.into \in Nat /\ x.n \in Nat
         /\ x.kind = "FROM_IMAGE" => x.from \in Image /\ x.at \in Nat /\ x.to \in Buffer /\ x.into \in Nat /\ x.n \in Nat
         /\ x.kind = "COPY_IMAGE" => /\ x.from \in Image /\ x.x \in Nat /\ x.y \in Nat /\ x.w \in Nat /\ x.h \in Nat
                                     /\ x.to \in Image /\ x.u \in Nat /\ x.t \in Nat
         /\ x.kind \in {"FILL", "UPDATE"} => x.to \in Buffer /\ x.into \in Nat /\ x.n \in Nat
         /\ x.kind = "CLEAR" => x.to \in Image
         /\ x.kind = "BARRIER" => x.to \in Image /\ x.layout \in Layout
<1>1. x \in CommandType
  BY CommandsAssumption
<1> QED
  BY <1>1 DEF CommandType

LEMMA PerformedMoves ==
  ASSUME NEW f, Shaped(f), NEW x \in Entry, NEW v
  PROVE  Carries(f, Performed(f, x, v).now)
<1>1. x.kind \in {"COPY", "CLEAR", "TO_IMAGE", "FROM_IMAGE", "COPY_IMAGE", "FILL", "UPDATE",
                  "BARRIER", "DISPATCH", "BEGIN", "CLEAR_ATTACHMENTS", "CLEAR_DEPTH"}
  BY CommandIs DEF Entry
<1>2. CASE x.kind = "COPY"
  BY <1>2, CopyBufferMoves DEF Performed
<1>3. CASE x.kind = "CLEAR"
  BY <1>3, ClearedMoves DEF Performed, ClearColor
<1>4. CASE x.kind = "TO_IMAGE"
  BY <1>4, CopyToImageMoves DEF Performed
<1>5. CASE x.kind = "FROM_IMAGE"
  BY <1>5, CopyFromImageMoves DEF Performed
<1>6. CASE x.kind = "COPY_IMAGE"
  BY <1>6, CopyRectMoves DEF Performed
<1>7. CASE x.kind = "FILL"
  BY <1>7, FillBufferMoves DEF Performed
<1>8. CASE x.kind = "UPDATE"
  BY <1>8, UploadBufferMoves DEF Performed
<1>9. CASE x.kind = "DISPATCH"
  BY <1>9, DispatchMoves DEF Performed
<1>10. CASE x.kind = "BEGIN"
  BY <1>10, ApplyLoadsMoves DEF Performed
<1>11. CASE x.kind = "CLEAR_ATTACHMENTS"
  BY <1>11, ClearPassMoves DEF Performed
<1>12. CASE x.kind = "CLEAR_DEPTH"
  BY <1>12, ClearPassMoves DEF Performed
<1>13. CASE x.kind = "BARRIER"
  <2>1. x.layout # "gone"
    BY <1>13, CommandIs DEF Entry, Layout
  <2> QED BY <1>13, <2>1, RecordedMoves DEF Performed
<1> QED
  BY <1>1, <1>2, <1>3, <1>4, <1>5, <1>6, <1>7, <1>8, <1>9, <1>10, <1>11, <1>12, <1>13

\* The turn of command k.
TurnOf(g, list, k) ==
  CASE Fused(list, k - 1) -> Done(g)
    [] Fused(list, k) -> CopyThenFill(g, list[k].from, list[k].at, list[k].to, list[k].into,
                                      list[k].n, list[k + 1].n, <<"command", k + 1>>)
    [] OTHER -> Performed(g, list[k], <<"command", k>>)

NextTurn(r, list, k) == IF r.ok THEN TurnOf(r.now, list, k) ELSE r

LEMMA TurnMoves ==
  ASSUME NEW f, Shaped(f), NEW list \in Seq(Entry), NEW k \in 1 .. Len(list)
  PROVE  Carries(f, TurnOf(f, list, k).now)
<1>1. list[k] \in Entry
  OBVIOUS
<1>2. CASE Fused(list, k - 1)
  <2>1. ~Fused(list, k)
    BY <1>2 DEF Fused
  <2> QED BY <1>2, <2>1, MovesStays DEF TurnOf, Done
<1>3. CASE Fused(list, k)
  <2>1. ~Fused(list, k - 1)
    BY <1>3 DEF Fused
  <2> QED BY <1>3, <2>1, CopyThenFillMoves DEF TurnOf
<1>4. CASE ~Fused(list, k) /\ ~Fused(list, k - 1)
  BY <1>1, <1>4, PerformedMoves DEF TurnOf
<1> QED
  BY <1>2, <1>3, <1>4

\* Its turn, or the command on its own.
NextOf(r, list, k, joined) ==
  IF joined THEN NextTurn(r, list, k)
  ELSE IF r.ok THEN Performed(r.now, list[k], <<"command", k>>) ELSE r

\* The fold over the first n commands.
Folded(f, list, n, joined) ==
  LET turns == [k \in 1 .. n |-> k]
      iter == CHOOSE g : g = [t \in SUBSET (1 .. n) |->
                IF t = {} THEN Done(f) ELSE NextOf(g[t \ {Max(t)}], list, turns[Max(t)], joined)]
  IN iter[1 .. n]

\* ... one after the other.
FoldRuns(run, f, list, n, joined) ==
  /\ run[0] = Done(f) /\ run[n] = Folded(f, list, n, joined)
  /\ \A k \in 0 .. n - 1 : run[k + 1] = NextOf(run[k], list, k + 1, joined)

LEMMA FoldRun ==
  ASSUME NEW f, NEW list, NEW n \in Nat, NEW joined
  PROVE  \E run : FoldRuns(run, f, list, n, joined)
<1> DEFINE turns == [k \in 1 .. n |-> k]
           Body(g, t) == IF t = {} THEN Done(f)
                         ELSE NextOf(g[t \ {Max(t)}], list, turns[Max(t)], joined)
           iter == CHOOSE g : g = [t \in SUBSET (1 .. n) |-> Body(g, t)]
<1>2. Folded(f, list, n, joined) = iter[1 .. n]
  BY DEF Folded
<1>3. iter = [t \in SUBSET (1 .. n) |-> Body(iter, t)]
  <2> DEFINE Starts(k) == \E g : \A t \in SUBSET (1 .. k) : g[t] = Body(g, t)
             has == {k \in Nat : Starts(k)}
  <2>1. \A k : k \in has <=> k \in Nat /\ Starts(k)
    OBVIOUS
  <2>2. Starts(0)
    <3> DEFINE g == [t \in SUBSET (1 .. 0) |-> Done(f)]
    <3>1. \A t \in SUBSET (1 .. 0) : t = {} /\ g[t] = Body(g, t)
      OBVIOUS
    <3> QED BY <3>1
  <2>3. ASSUME NEW k \in Nat, Starts(k) PROVE Starts(k + 1)
    <3>1. PICK g : \A t \in SUBSET (1 .. k) : g[t] = Body(g, t)
      BY <2>3
    <3> DEFINE h == [t \in SUBSET (1 .. k + 1) |-> Body(g, t)]
    <3>2. ASSUME NEW t \in SUBSET (1 .. k + 1) PROVE h[t] = Body(h, t)
      <4>1. CASE t = {}
        BY <4>1
      <4>2. CASE t # {}
        <5>1. t \ {Max(t)} \in SUBSET (1 .. k)
          BY <4>2, MaxOf
        <5>2. h[t \ {Max(t)}] = g[t \ {Max(t)}]
          <6>1. \A u \in SUBSET (1 .. k) : u \in SUBSET (1 .. k + 1)
            OBVIOUS
          <6>2. h[t \ {Max(t)}] = Body(g, t \ {Max(t)})
            BY <5>1, <6>1
          <6> QED BY <3>1, <5>1, <6>2
        <5> QED BY <4>2, <5>2
      <4> QED BY <4>1, <4>2
    <3> HIDE DEF h
    <3>3. \E g1 : \A t \in SUBSET (1 .. k + 1) : g1[t] = Body(g1, t)
      <4> WITNESS h
      <4> QED BY <3>2
    <3> QED BY <3>3
  <2>4. Starts(n)
    <3> HIDE DEF Starts, has
    <3>1. 0 \in has
      BY <2>1, <2>2
    <3>2. ASSUME NEW k \in Nat, k \in has PROVE k + 1 \in has
      <4>1. k + 1 \in Nat /\ Starts(k + 1)
        BY <2>1, <2>3, <3>2
      <4> QED BY <2>1, <4>1
    <3>3. Nat \subseteq has
      BY <3>1, <3>2, ByInduction
    <3> QED BY <2>1, <3>3
  <2>5. PICK g : \A t \in SUBSET (1 .. n) : g[t] = Body(g, t)
    BY <2>4
  <2> DEFINE h == [t \in SUBSET (1 .. n) |-> g[t]]
  <2>6. \A t \in SUBSET (1 .. n) : t \ {Max(t)} \in SUBSET (1 .. n)
    OBVIOUS
  <2>7. \A t \in SUBSET (1 .. n) : h[t] = Body(h, t)
    BY <2>5, <2>6
  <2>8. h = [t \in SUBSET (1 .. n) |-> h[t]]
    OBVIOUS
  <2> HIDE DEF h
  <2>9. h = [t \in SUBSET (1 .. n) |-> Body(h, t)]
    BY <2>7, <2>8
  <2> QED BY <2>9
<1> HIDE DEF iter
<1>4. \A k \in 0 .. n : 1 .. k \in SUBSET (1 .. n)
  OBVIOUS
<1>5. \A k \in 0 .. n - 1 : iter[1 .. k + 1] = NextOf(iter[1 .. k], list, k + 1, joined)
  <2> TAKE k \in 0 .. n - 1
  <2>1. 1 .. k + 1 \in SUBSET (1 .. n) /\ 1 .. k + 1 # {} /\ k \in Nat /\ turns[k + 1] = k + 1
    <3>1. k \in Nat /\ k + 1 \in 0 .. n /\ k + 1 \in 1 .. n /\ 1 \in 1 .. k + 1
      OBVIOUS
    <3>2. 1 .. k + 1 \in SUBSET (1 .. n)
      BY <1>4, <3>1
    <3> QED BY <3>1, <3>2
  <2>2. Max(1 .. k + 1) = k + 1
    <3>1. \A m \in 1 .. k + 1 : (\A l \in 1 .. k + 1 : m >= l) <=> m = k + 1
      BY <2>1
    <3> QED BY <2>1, <3>1 DEF Max
  <2>3. (1 .. k + 1) \ {k + 1} = 1 .. k
    BY <2>1
  <2>4. iter[1 .. k + 1] = Body(iter, 1 .. k + 1)
    BY <1>3, <2>1
  <2> HIDE DEF turns
  <2> QED BY <2>1, <2>2, <2>3, <2>4
<1>6. iter[1 .. 0] = Done(f)
  <2>1. 1 .. 0 \in SUBSET (1 .. n) /\ 1 .. 0 = {}
    OBVIOUS
  <2> QED BY <1>3, <2>1
<1> DEFINE run == [k \in 0 .. n |-> iter[1 .. k]]
<1>7. run[0] = Done(f) /\ run[n] = Folded(f, list, n, joined)
  BY <1>2, <1>6
<1>8. \A k \in 0 .. n - 1 : run[k + 1] = NextOf(run[k], list, k + 1, joined)
  <2>1. \A k \in 0 .. n - 1 : run[k] = iter[1 .. k] /\ run[k + 1] = iter[1 .. k + 1]
    OBVIOUS
  <2> HIDE DEF run
  <2> QED BY <1>5, <2>1
<1> HIDE DEF run
<1> QED
  <2> WITNESS run
  <2> QED BY <1>7, <1>8 DEF FoldRuns

LEMMA SubmissionFolds ==
  ASSUME NEW f, NEW list, NEW n, n = Len(list)
  PROVE  Submission(f, list) = Folded(f, list, n, TRUE)
  BY DEF Submission, FoldLeft, MapThenFoldSet, Then, NextTurn, TurnOf, NextOf, Folded

SubmissionRuns(run, f, list) ==
  /\ run[0] = Done(f) /\ run[Len(list)] = Submission(f, list)
  /\ \A k \in 0 .. Len(list) - 1 : run[k + 1] = NextTurn(run[k], list, k + 1)

LEMMA SubmissionRun ==
  ASSUME NEW f, NEW list \in Seq(Entry)
  PROVE  \E run : SubmissionRuns(run, f, list)
<1>1. PICK n \in Nat : n = Len(list)
  OBVIOUS
<1>2. Submission(f, list) = Folded(f, list, n, TRUE)
  BY <1>1, SubmissionFolds
<1>3. PICK run : FoldRuns(run, f, list, n, TRUE)
  BY FoldRun
<1> QED
  BY <1>1, <1>2, <1>3 DEF FoldRuns, SubmissionRuns, NextOf

\* Each of its values comes after f.
LEMMA SubmissionMoves ==
  ASSUME NEW f, Shaped(f), NEW list \in Seq(Entry)
  PROVE  Carries(f, Submission(f, list).now)
<1>1. PICK run : SubmissionRuns(run, f, list)
  BY SubmissionRun
<1>2. PICK n \in Nat : n = Len(list)
  OBVIOUS
<1>3. /\ run[0] = Done(f) /\ run[n] = Submission(f, list)
      /\ \A k \in 0 .. n - 1 : run[k + 1] = NextTurn(run[k], list, k + 1)
  BY <1>1, <1>2 DEF SubmissionRuns
<1> DEFINE Moved(k) == k <= n => Carries(f, run[k].now)
           moved == {k \in Nat : Moved(k)}
<1>4. 0 \in moved
  BY <1>3, MovesStays DEF Done
<1>5. ASSUME NEW k \in Nat, k \in moved PROVE k + 1 \in moved
  <2> SUFFICES ASSUME k + 1 <= n PROVE Carries(f, run[k + 1].now)
    OBVIOUS
  <2>1. Carries(f, run[k].now) /\ Shaped(run[k].now)
    BY <1>5 DEF Carries, Moves
  <2>2. run[k + 1] = NextTurn(run[k], list, k + 1)
    BY <1>3
  <2>3. k + 1 \in 1 .. Len(list)
    BY <1>2
  <2> QED BY <2>1, <2>2, <2>3, TurnMoves, MovesOn DEF NextTurn
<1>6. n \in moved
  <2> HIDE DEF moved
  <2> QED BY <1>4, <1>5, ByInduction
<1> QED
  BY <1>3, <1>6

-----------------------------------------------------------------------------
(* The invariant of the device.                                            *)

SetRecord == [there : BOOLEAN, buffer : Buffer \cup {Nothing}, ranged : BOOLEAN,
              view : View \cup {Nothing}, sampler : Sampler \cup {Nothing},
              layout : Pipeline \cup {Nothing}]

BufferRecord == [pool : CommandPool \cup {Nothing}, list : Seq(Entry), recording : BOOLEAN,
                 executable : BOOLEAN, inside : Pass \cup {Nothing},
                 compute : Pipeline \cup {Nothing}, set : Set \cup {Nothing}]

WrapperType ==
  /\ view \in [View -> Image \cup {Nothing}] /\ viewCount \in [Image -> Int]
  /\ set \in [Set -> SetRecord] /\ described \in [Buffer \cup View \cup Sampler -> Int]

RecorderType ==
  /\ pools \subseteq CommandPool /\ buffer \in [CommandBuffer -> BufferRecord]
  /\ stranded \subseteq Pass

\* The objects of the device that are none of the front end.
Beside == Cardinality(Views) + Cardinality(Sets) + Cardinality(pools) + Cardinality(Buffers)

Describers(x) == {d \in Sets : x \in {set[d].buffer, set[d].view, set[d].sampler}}

Counts ==
  /\ child = Cardinality(front.live) + Beside
  /\ \A i \in Image : viewCount[i] = Cardinality({x \in Views : view[x] = i})
  /\ \A x \in Buffer \cup View \cup Sampler : described[x] = Cardinality(Describers(x))
  /\ \A p \in Live("pipeline") : front.layoutRefs[p] = 1 + Cardinality({d \in Sets : set[d].layout = p})

ViewsLive == \A x \in Views : view[x] \in front.live /\ front.state[view[x]] # "gone"

SetsLive ==
  \A d \in Sets : /\ {set[d].buffer, set[d].sampler, set[d].layout} \subseteq front.live \cup {Nothing}
                  /\ set[d].view \in Views \cup {Nothing}

BuffersLive == \A c \in Buffers : buffer[c].pool \in pools /\ buffer[c].inside \in front.live \cup {Nothing}

\* What is not there is blank.
Blank ==
  /\ \A d \in Set : d \in Sets \/ set[d] = NoSet
  /\ \A c \in CommandBuffer : c \in Buffers \/ buffer[c] = NoRecording

Inv ==
  /\ WrapperType /\ RecorderType /\ FrontInv(front)
  /\ instance # "device" => child = 0
  /\ Counts /\ ViewsLive /\ SetsLive /\ BuffersLive /\ Blank /\ PassesAreInside

LEMMA LiveFinite ==
  ASSUME NEW f, FrontInv(f)
  PROVE  IsFiniteSet(f.live) /\ Cardinality(f.live) \in Nat
<1>1. IsFiniteSet(Kinds)
  <2>1. \A k \in Kind : IsFiniteSet(Of(k))
    BY KindsAre
  <2>2. /\ IsFiniteSet(Image) /\ IsFiniteSet(Buffer) /\ IsFiniteSet(Memory) /\ IsFiniteSet(Timeline)
        /\ IsFiniteSet(Pipeline) /\ IsFiniteSet(Sampler) /\ IsFiniteSet(Pass) /\ IsFiniteSet(QueryPool)
    BY <2>1, KindIs DEF Kind
  <2> QED BY <2>2, KindsAre, FS_Union
<1>2. IsFiniteSet(f.live)
  BY <1>1, FS_Subset DEF FrontInv, FrontType
<1> QED
  BY <1>2, FS_CardinalityType

LEMMA AllFinite ==
  ASSUME WrapperType, RecorderType, FrontInv(front)
  PROVE  /\ IsFiniteSet(front.live) /\ IsFiniteSet(Views) /\ IsFiniteSet(Sets)
         /\ IsFiniteSet(pools) /\ IsFiniteSet(Buffers)
         /\ Cardinality(front.live) \in Nat /\ Beside \in Nat
         /\ Cardinality(Views) \in Nat /\ Cardinality(Sets) \in Nat
         /\ Cardinality(pools) \in Nat /\ Cardinality(Buffers) \in Nat
<1>1. IsFiniteSet(front.live)
  BY LiveFinite
<1>2. /\ Views \subseteq View /\ Sets \subseteq Set /\ pools \subseteq CommandPool /\ Buffers \subseteq CommandBuffer
  BY DEF Views, Sets, Buffers, RecorderType
<1>3. /\ IsFiniteSet(View) /\ IsFiniteSet(Set) /\ IsFiniteSet(CommandPool) /\ IsFiniteSet(CommandBuffer)
  BY CommandsAssumption
<1>4. IsFiniteSet(Views) /\ IsFiniteSet(Sets) /\ IsFiniteSet(pools) /\ IsFiniteSet(Buffers)
  BY <1>2, <1>3, FS_Subset
<1> QED
  BY <1>1, <1>4, FS_CardinalityType DEF Beside

\* A count of none is of none.
LEMMA NoneOf ==
  ASSUME NEW S, IsFiniteSet(S), NEW P, P \in SUBSET S
  PROVE  /\ Cardinality(P) \in Nat /\ IsFiniteSet(P)
         /\ Cardinality(P) = 0 <=> P = {}
  BY FS_Subset, FS_CardinalityType, FS_EmptySet

-----------------------------------------------------------------------------
(* A call of the front end.                                                *)

\* What is true of an object that goes.
Released(x) ==
  /\ x \in Image => viewCount[x] = 0
  /\ x \in Buffer \cup Sampler => described[x] = 0
  /\ x \in Pipeline => front.layoutRefs[x] = 1
  /\ x \in Pass => ~front.pass[x].begun

\* Command buffers go on, and none comes or goes; nor enters or leaves a pass.
PoolsKeep ==
  /\ buffer' \in [CommandBuffer -> BufferRecord]
  /\ \A c \in CommandBuffer : /\ buffer'[c].pool = buffer[c].pool
                              /\ buffer[c].pool = Nothing => buffer'[c] = buffer[c]

BuffersKeep ==
  /\ PoolsKeep
  /\ \A c \in CommandBuffer : /\ buffer'[c].inside = buffer[c].inside
                              /\ buffer[c].inside # Nothing => buffer'[c].recording

LEMMA BuffersStay ==
  ASSUME Inv, buffer' = buffer
  PROVE  BuffersKeep
  BY DEF Inv, RecorderType, PassesAreInside, BuffersKeep, PoolsKeep

\* Who is named by a view, a set or a command buffer does not go.
LEMMA NamedStay ==
  ASSUME Inv
  PROVE  /\ \A x \in Views : view[x] \in Image /\ view[x] \in front.live
                             /\ ~Released(view[x]) /\ viewCount[view[x]] # 0
         /\ \A d \in Sets : \A x \in {set[d].buffer, set[d].sampler, set[d].layout} :
              x # Nothing => x \in front.live /\ ~Released(x)
         /\ \A d \in Sets : \A x \in {set[d].buffer, set[d].view, set[d].sampler} :
              x # Nothing => x \in Buffer \cup View \cup Sampler /\ described[x] # 0
         /\ \A c \in Buffers : buffer[c].inside # Nothing =>
              /\ buffer[c].inside \in Pass /\ buffer[c].inside \in front.live
              /\ ~Released(buffer[c].inside)
<1>1. /\ IsFiniteSet(Views) /\ IsFiniteSet(Sets)
  BY AllFinite DEF Inv
<1>2. ASSUME NEW x \in Views
      PROVE  view[x] \in Image /\ view[x] \in front.live /\ viewCount[view[x]] # 0
  <2>1. view[x] \in Image /\ view[x] \in front.live
    BY <1>2 DEF Inv, WrapperType, Views, ViewsLive
  <2>2. PICK i : i = view[x]
    OBVIOUS
  <2>3. viewCount[i] = Cardinality({y \in Views : view[y] = i})
    BY <2>1, <2>2 DEF Inv, Counts
  <2>4. {y \in Views : view[y] = i} # {}
    BY <1>2, <2>2
  <2> QED BY <1>1, <2>1, <2>2, <2>3, <2>4, NoneOf
<1>3. ASSUME NEW d \in Sets, NEW x \in {set[d].buffer, set[d].view, set[d].sampler}, x # Nothing
      PROVE  x \in Buffer \cup View \cup Sampler /\ described[x] # 0
  <2>1. x \in Buffer \cup View \cup Sampler
    BY <1>3 DEF Inv, WrapperType, SetRecord, Sets
  <2>2. described[x] = Cardinality(Describers(x))
    BY <2>1 DEF Inv, Counts
  <2>3. d \in Describers(x)
    BY <1>3 DEF Describers
  <2> QED BY <1>1, <2>1, <2>2, <2>3, NoneOf DEF Describers
<1>4. ASSUME NEW d \in Sets, NEW x \in {set[d].buffer, set[d].sampler, set[d].layout}, x # Nothing
      PROVE  x \in front.live /\ ~Released(x)
  <2>1. x \in front.live
    BY <1>4 DEF Inv, SetsLive
  <2>2. CASE x \in {set[d].buffer, set[d].sampler}
    <3>1. x \in Buffer \cup Sampler
      BY <1>4, <2>2 DEF Inv, WrapperType, SetRecord, Sets
    <3> QED BY <1>3, <1>4, <2>1, <2>2, <3>1 DEF Released
  <2>3. CASE x = set[d].layout
    <3>1. x \in Pipeline
      BY <1>4, <2>3 DEF Inv, WrapperType, SetRecord, Sets
    <3>2. front.layoutRefs[x] = 1 + Cardinality({e \in Sets : set[e].layout = x})
      BY <2>1, <3>1, KindIs DEF Inv, Counts, Live
    <3>3. d \in {e \in Sets : set[e].layout = x}
      BY <2>3
    <3>4. Cardinality({e \in Sets : set[e].layout = x}) \in Nat
          /\ Cardinality({e \in Sets : set[e].layout = x}) # 0
      BY <1>1, <3>3, NoneOf
    <3> QED BY <2>1, <3>1, <3>2, <3>4 DEF Released
  <2> QED BY <1>4, <2>2, <2>3
<1>5. ASSUME NEW c \in Buffers, buffer[c].inside # Nothing
      PROVE  /\ buffer[c].inside \in Pass /\ buffer[c].inside \in front.live
             /\ ~Released(buffer[c].inside)
  <2>1. buffer[c].inside \in Pass /\ c \in CommandBuffer
    BY <1>5 DEF Inv, RecorderType, BufferRecord, Buffers
  <2>2. buffer[c].inside \in front.live
    BY <1>5 DEF Inv, BuffersLive
  <2>3. front.pass[buffer[c].inside].begun
    BY <2>1 DEF Inv, PassesAreInside
  <2> QED BY <2>1, <2>2, <2>3 DEF Released
<1>6. \A x \in Views : ~Released(view[x])
  BY <1>2 DEF Released
<1> QED
  BY <1>2, <1>3, <1>4, <1>5, <1>6

\* Where passes do not begin or end alone, what names them is shown first.
LEMMA RestMoves ==
  ASSUME Inv, instance = "device", instance' = instance, FrontInv(front'),
         BuffersLive', PassesAreInside',
         child' = child + Cardinality(front'.live) - Cardinality(front.live),
         \A x \in front.live \ front'.live : Released(x),
         \A p \in Pipeline \cap front'.live :
           front'.layoutRefs[p] = IF p \in front.live THEN front.layoutRefs[p] ELSE 1,
         \A i \in Image : front'.state[i] = "gone" => front.state[i] = "gone" \/ viewCount[i] = 0,
         UNCHANGED <<wrappers, pools, stranded>>, PoolsKeep
  PROVE  Inv'
<1>1. /\ Views' = Views /\ Sets' = Sets /\ \A x : Describers(x)' = Describers(x)
      /\ view' = view /\ viewCount' = viewCount /\ set' = set /\ described' = described
      /\ pools' = pools /\ stranded' = stranded
  BY DEF wrappers, Views, Sets, Describers
<1>2. Buffers' = Buffers
  BY DEF Buffers, PoolsKeep
<1>3. WrapperType' /\ RecorderType'
  BY <1>1 DEF Inv, WrapperType, RecorderType, PoolsKeep
<1>4. Counts'
  <2>1. child' = Cardinality(front'.live) + Beside'
    <3>1. Beside' = Beside
      BY <1>1, <1>2 DEF Beside
    <3>2. child = Cardinality(front.live) + Beside
      BY DEF Inv, Counts
    <3>3. Cardinality(front.live) \in Nat /\ Beside \in Nat
      BY AllFinite DEF Inv
    <3>4. Cardinality(front'.live) \in Nat
      BY LiveFinite
    <3> QED BY <3>1, <3>2, <3>3, <3>4
  <2>2. \A i \in Image : viewCount'[i] = Cardinality({x \in Views' : view'[x] = i})
    BY <1>1 DEF Inv, Counts
  <2>3. \A x \in Buffer \cup View \cup Sampler : described'[x] = Cardinality(Describers(x)')
    BY <1>1 DEF Inv, Counts
  <2>4. ASSUME NEW p \in Live("pipeline")'
        PROVE  front'.layoutRefs[p] = 1 + Cardinality({d \in Sets' : set'[d].layout = p})
    <3>1. p \in Pipeline /\ p \in front'.live
      BY <2>4, KindIs DEF Live
    <3>2. CASE p \in front.live
      BY <1>1, <3>1, <3>2, KindIs DEF Inv, Counts, Live
    <3>3. CASE p \notin front.live
      <4>1. {d \in Sets : set[d].layout = p} = {}
        BY <3>1, <3>3, KindsApart, KindsAre DEF Inv, SetsLive
      <4>2. {d \in Sets' : set'[d].layout = p} = {}
        BY <1>1, <4>1
      <4>3. front'.layoutRefs[p] = 1
        BY <3>1, <3>3
      <4>4. Cardinality({d \in Sets' : set'[d].layout = p}) = 0
        BY <4>2, FS_EmptySet
      <4> QED BY <4>3, <4>4
    <3> QED BY <3>2, <3>3
  <2> QED BY <2>1, <2>2, <2>3, <2>4 DEF Counts
<1>5. ViewsLive'
  <2>1. ASSUME NEW x \in Views PROVE view[x] \in front'.live /\ front'.state[view[x]] # "gone"
    BY <2>1, NamedStay DEF Inv, ViewsLive
  <2> QED BY <1>1, <2>1 DEF ViewsLive
<1>6. SetsLive'
  <2>1. ASSUME NEW d \in Sets
        PROVE  {set[d].buffer, set[d].sampler, set[d].layout} \subseteq front'.live \cup {Nothing}
    BY <2>1, NamedStay
  <2> QED BY <1>1, <2>1 DEF Inv, SetsLive
<1>7. Blank'
  BY <1>1, <1>2 DEF Inv, Blank, Buffers, PoolsKeep
<1> QED
  BY <1>3, <1>4, <1>5, <1>6, <1>7 DEF Inv

LEMMA FrontMoves ==
  ASSUME Inv, instance = "device", instance' = instance, FrontInv(front'),
         \A r \in Pass : front'.pass[r].begun = front.pass[r].begun,
         child' = child + Cardinality(front'.live) - Cardinality(front.live),
         \A x \in front.live \ front'.live : Released(x),
         \A p \in Pipeline \cap front'.live :
           front'.layoutRefs[p] = IF p \in front.live THEN front.layoutRefs[p] ELSE 1,
         \A i \in Image : front'.state[i] = "gone" => front.state[i] = "gone" \/ viewCount[i] = 0,
         UNCHANGED <<wrappers, pools, stranded>>, BuffersKeep
  PROVE  Inv'
<1>1. /\ Buffers' = Buffers /\ pools' = pools /\ stranded' = stranded
      /\ \A c \in CommandBuffer : buffer'[c].inside = buffer[c].inside
  BY DEF Buffers, BuffersKeep, PoolsKeep
<1>2. BuffersLive'
  <2>1. ASSUME NEW c \in Buffers PROVE buffer[c].inside \in front'.live \cup {Nothing}
    BY <2>1, NamedStay
  <2>2. \A c \in Buffers : buffer'[c].pool = buffer[c].pool /\ buffer'[c].inside = buffer[c].inside
    BY DEF Buffers, BuffersKeep, PoolsKeep
  <2> QED BY <1>1, <2>1, <2>2 DEF Inv, BuffersLive
<1>3. PassesAreInside'
  <2>1. {buffer'[c].inside : c \in CommandBuffer} = {buffer[c].inside : c \in CommandBuffer}
    BY <1>1
  <2>2. \A c \in CommandBuffer : buffer[c].inside # Nothing => buffer'[c].recording
    BY DEF BuffersKeep
  <2> QED BY <1>1, <2>1, <2>2 DEF Inv, PassesAreInside
<1>4. PoolsKeep
  BY DEF BuffersKeep
<1> QED
  BY <1>2, <1>3, <1>4, RestMoves

\* Every timeline that stays keeps its value.
Steady == \A t \in Timeline \cap front.live \cap front'.live : front'.value[t] = front.value[t]

\* The names a step starts with are no other state.
LEMMA CallLeaves ==
  ASSUME NEW r, FrontInv(r.now), Call(r)
  PROVE  Leaves(r.now, front')
  BY BytesMove, MovesLeaves, StaysItself DEF Call, Carries

\* What Leaves says, but for the values of timelines.
Goes(f, g) ==
  /\ FrontInv(g) /\ g.live = f.live
  /\ \A r \in Pass : g.pass[r].begun = f.pass[r].begun
  /\ \A p \in Pipeline \cap f.live : g.layoutRefs[p] = f.layoutRefs[p]
  /\ \A i \in Image : g.state[i] = "gone" => f.state[i] = "gone"

LEMMA GoesOn ==
  ASSUME NEW f, NEW g, NEW h, Goes(f, g), Leaves(g, h) PROVE Goes(f, h)
  BY DEF Goes, Leaves, Outside

LEMMA LeavesGoes ==
  ASSUME NEW f, NEW g, Leaves(f, g) PROVE Goes(f, g)
  BY DEF Goes, Leaves, Outside

LEMMA StepGoes ==
  ASSUME Inv, instance = "device", instance' = instance, NEW r, Goes(front, r.now), Call(r),
         child' = child, UNCHANGED <<wrappers, pools, stranded>>, BuffersKeep
  PROVE  Inv'
<1>1. FrontInv(r.now)
  BY DEF Goes
<1>2. Goes(front, front')
  BY <1>1, CallLeaves, GoesOn
<1>3. /\ FrontInv(front') /\ front'.live = front.live
      /\ \A s \in Pass : front'.pass[s].begun = front.pass[s].begun
      /\ \A p \in Pipeline \cap front'.live : front'.layoutRefs[p] = front.layoutRefs[p]
      /\ \A i \in Image : front'.state[i] = "gone" => front.state[i] = "gone"
  BY <1>2 DEF Goes
<1>4. child' = child + Cardinality(front'.live) - Cardinality(front.live)
  <2>1. FrontInv(front)
    BY DEF Inv
  <2>2. Cardinality(front.live) \in Nat /\ Cardinality(front'.live) = Cardinality(front.live)
    BY <2>1, <1>3, LiveFinite
  <2>3. child \in Int /\ child' = child
    BY AllFinite DEF Inv, Counts
  <2> QED BY <2>2, <2>3
<1> QED
  BY <1>3, <1>4, FrontMoves

LEMMA StepLeaves ==
  ASSUME Inv, instance = "device", instance' = instance, NEW r, Leaves(front, r.now), Call(r),
         child' = child, UNCHANGED <<wrappers, pools, stranded>>, BuffersKeep
  PROVE  Inv' /\ Steady
<1>1. Inv'
  BY LeavesGoes, StepGoes
<1>2. FrontInv(r.now)
  BY DEF Leaves
<1>3. Leaves(r.now, front')
  BY <1>2, CallLeaves
<1>4. Steady
  BY <1>3 DEF Leaves, Outside, Steady
<1> QED
  BY <1>1, <1>4

LEMMA StepOpens ==
  ASSUME Inv, instance = "device", instance' = instance, NEW r, NEW x, x \notin front.live,
         Opens(front, r, x), r.ok /\ x \in Pipeline => r.now.layoutRefs[x] = 1, Created(r),
         UNCHANGED <<wrappers, recorders>>
  PROVE  Inv' /\ Steady
<1>1. FrontInv(r.now) /\ Call(r)
  BY DEF Opens, Created
<1>2. Leaves(r.now, front')
  BY <1>1, CallLeaves
<1>3. /\ FrontInv(front') /\ front'.live = IF r.ok THEN front.live \cup {x} ELSE front.live
      /\ \A s \in Pass : front'.pass[s].begun = front.pass[s].begun
      /\ \A i \in Image : front'.state[i] = "gone" => front.state[i] = "gone"
  BY <1>2 DEF Leaves, Outside, Opens
<1>4. \A p \in Pipeline \cap front'.live :
        front'.layoutRefs[p] = IF p \in front.live THEN front.layoutRefs[p] ELSE 1
  BY <1>2 DEF Leaves, Outside, Opens
<1>5. child' = child + Cardinality(front'.live) - Cardinality(front.live)
  <2>1. child \in Int /\ Cardinality(front.live) \in Nat /\ IsFiniteSet(front.live)
    BY AllFinite, LiveFinite DEF Inv, Counts
  <2>2. Cardinality(front.live \cup {x}) = Cardinality(front.live) + 1
    BY <2>1, FS_AddElement
  <2> QED BY <1>3, <2>1, <2>2 DEF Created
<1>6. BuffersKeep /\ UNCHANGED <<wrappers, pools, stranded>>
  BY BuffersStay DEF recorders
<1>7. front.live \ front'.live = {}
  BY <1>3
<1>8. Steady
  BY <1>2, <1>3 DEF Leaves, Outside, Opens, Steady
<1> QED
  BY <1>3, <1>4, <1>5, <1>6, <1>7, <1>8, FrontMoves

LEMMA EndCloses ==
  ASSUME Inv, instance = "device", instance' = instance, NEW r, NEW x, x \in front.live,
         FrontInv(r.now), r.now.live = IF r.ok THEN front.live \ {x} ELSE front.live,
         \A s \in Pass : r.now.pass[s].begun = front.pass[s].begun,
         \A p \in Pipeline \cap r.now.live : r.now.layoutRefs[p] = front.layoutRefs[p],
         \A t \in Timeline \cap front.live \cap r.now.live : r.now.value[t] = front.value[t],
         \A i \in Image : r.now.state[i] = "gone" => front.state[i] = "gone" \/ viewCount[i] = 0,
         r.ok => Released(x), Destroyed(r), UNCHANGED <<wrappers, recorders>>
  PROVE  Inv' /\ Steady
<1>1. Call(r)
  BY DEF Destroyed
<1>2. Leaves(r.now, front')
  BY <1>1, CallLeaves
<1>3. /\ FrontInv(front') /\ front'.live = IF r.ok THEN front.live \ {x} ELSE front.live
      /\ \A s \in Pass : front'.pass[s].begun = front.pass[s].begun
      /\ \A i \in Image : front'.state[i] = "gone" => front.state[i] = "gone" \/ viewCount[i] = 0
  BY <1>2 DEF Leaves, Outside
<1>4. \A p \in Pipeline \cap front'.live :
        front'.layoutRefs[p] = IF p \in front.live THEN front.layoutRefs[p] ELSE 1
  BY <1>2, <1>3 DEF Leaves, Outside
<1>5. child' = child + Cardinality(front'.live) - Cardinality(front.live)
  <2>1. child \in Int /\ Cardinality(front.live) \in Nat /\ IsFiniteSet(front.live)
    BY AllFinite, LiveFinite DEF Inv, Counts
  <2>2. Cardinality(front.live \ {x}) = Cardinality(front.live) - 1
    BY <2>1, FS_RemoveElement
  <2> QED BY <1>3, <2>1, <2>2 DEF Destroyed
<1>6. BuffersKeep /\ UNCHANGED <<wrappers, pools, stranded>>
  BY BuffersStay DEF recorders
<1>7. \A y \in front.live \ front'.live : Released(y)
  BY <1>3
<1>8. Steady
  BY <1>2, <1>3 DEF Leaves, Outside, Steady
<1> QED
  BY <1>3, <1>4, <1>5, <1>6, <1>7, <1>8, FrontMoves

LEMMA StepCloses ==
  ASSUME Inv, instance = "device", instance' = instance, NEW r, NEW x, x \in front.live,
         Closes(front, r, x), r.ok => Released(x), Destroyed(r), UNCHANGED <<wrappers, recorders>>
  PROVE  Inv' /\ Steady
<1>1. /\ FrontInv(r.now) /\ r.now.live = IF r.ok THEN front.live \ {x} ELSE front.live
      /\ \A s \in Pass : r.now.pass[s].begun = front.pass[s].begun
      /\ \A p \in Pipeline \cap r.now.live : r.now.layoutRefs[p] = front.layoutRefs[p]
      /\ \A i \in Image : r.now.state[i] = "gone" => front.state[i] = "gone"
      /\ \A t \in Timeline \cap front.live \cap r.now.live : r.now.value[t] = front.value[t]
  BY DEF Closes, Outside
<1> QED
  BY <1>1, EndCloses

\* What is there and what is not, by kind.
LEMMA LiveIs ==
  /\ Live("image") = front.live \cap Image /\ Free("image") = Image \ front.live
  /\ Live("buffer") = front.live \cap Buffer /\ Free("buffer") = Buffer \ front.live
  /\ Live("memory") = front.live \cap Memory /\ Free("memory") = Memory \ front.live
  /\ Live("timeline") = front.live \cap Timeline /\ Free("timeline") = Timeline \ front.live
  /\ Live("pipeline") = front.live \cap Pipeline /\ Free("pipeline") = Pipeline \ front.live
  /\ Live("sampler") = front.live \cap Sampler /\ Free("sampler") = Sampler \ front.live
  /\ Live("render_pass") = front.live \cap Pass /\ Free("render_pass") = Pass \ front.live
  /\ Live("query") = front.live \cap QueryPool /\ Free("query") = QueryPool \ front.live
  BY KindIs DEF Live, Free

\* Objects that no wrapper counts.
LEMMA ReleasedAre ==
  ASSUME NEW x
  PROVE  /\ x \in Memory \cup Timeline \cup QueryPool => Released(x)
         /\ x \in Image => (Released(x) <=> viewCount[x] = 0)
         /\ x \in Buffer \cup Sampler => (Released(x) <=> described[x] = 0)
         /\ x \in Pipeline => (Released(x) <=> front.layoutRefs[x] = 1)
         /\ x \in Pass => (Released(x) <=> ~front.pass[x].begun)
  BY KindsApart DEF Released

-----------------------------------------------------------------------------
(* Objects of the front end.                                               *)

LEMMA MemoriesOpenAndClose ==
  ASSUME Inv, instance = "device", instance' = instance, AllocateMemory \/ FreeMemory
  PROVE  Inv' /\ Steady
<1>1. CASE AllocateMemory
  <2>1. PICK m \in Free("memory") : Created(CreateMemory(front, m)) /\ UNCHANGED <<wrappers, recorders>>
    BY <1>1 DEF AllocateMemory
  <2>2. m \in Memory /\ m \notin front.live /\ m \notin Pipeline
    BY <2>1, LiveIs, KindsApart
  <2> QED BY <2>1, <2>2, MemoryOpens, StepOpens DEF Inv
<1>2. CASE FreeMemory
  <2>1. PICK m \in Live("memory") : Destroyed(DestroyMemory(front, m)) /\ UNCHANGED <<wrappers, recorders>>
    BY <1>2 DEF FreeMemory
  <2>2. m \in Memory /\ m \in front.live /\ Released(m)
    BY <2>1, LiveIs, ReleasedAre
  <2> QED BY <2>1, <2>2, MemoryCloses, StepCloses DEF Inv
<1> QED
  BY <1>1, <1>2

LEMMA BuffersOpenAndClose ==
  ASSUME Inv, instance = "device", instance' = instance, MakeBuffer \/ EndBuffer
  PROVE  Inv' /\ Steady
<1>1. CASE MakeBuffer
  <2>1. PICK b \in Free("buffer") :
          /\ \/ \E home \in {"heap", Nothing} : Created(CreateBuffer(front, b, home))
             \/ Created(CreateBufferInVain(front))
          /\ UNCHANGED <<wrappers, recorders>>
    BY <1>1 DEF MakeBuffer
  <2>2. b \in Buffer /\ b \notin front.live /\ b \notin Pipeline
    BY <2>1, LiveIs, KindsApart
  <2>3. CASE \E home \in {"heap", Nothing} : Created(CreateBuffer(front, b, home))
    <3>1. PICK home \in {"heap", Nothing} : Created(CreateBuffer(front, b, home))
      BY <2>3
    <3> QED BY <2>1, <2>2, <3>1, BufferOpens, StepOpens DEF Inv
  <2>4. CASE Created(CreateBufferInVain(front))
    BY <2>1, <2>2, <2>4, BufferInVainOpens, StepOpens DEF Inv
  <2> QED BY <2>1, <2>3, <2>4
<1>2. CASE EndBuffer
  <2>1. PICK b \in Live("buffer") :
          /\ described[b] = 0 /\ Destroyed(DestroyBuffer(front, b))
          /\ UNCHANGED <<wrappers, recorders>>
    BY <1>2 DEF EndBuffer
  <2>2. b \in Buffer /\ b \in front.live /\ Released(b)
    BY <2>1, LiveIs, ReleasedAre
  <2> QED BY <2>1, <2>2, BufferCloses, StepCloses DEF Inv
<1> QED
  BY <1>1, <1>2

LEMMA ImagesOpenAndClose ==
  ASSUME Inv, instance = "device", instance' = instance, MakeImage \/ EndImage
  PROVE  Inv' /\ Steady
<1>1. CASE MakeImage
  <2>1. PICK i \in Free("image"), home \in {"heap", Nothing}, layout \in Layout, left \in Revision :
          Created(CreateImage(front, i, home, layout, left)) /\ UNCHANGED <<wrappers, recorders>>
    BY <1>1 DEF MakeImage
  <2>2. i \in Image /\ i \notin front.live /\ i \notin Pipeline
    BY <2>1, LiveIs, KindsApart
  <2> QED BY <2>1, <2>2, ImageOpens, StepOpens DEF Inv
<1>2. CASE EndImage
  <2>1. PICK i \in Live("image") :
          /\ viewCount[i] = 0 /\ Destroyed(DestroyImage(front, i))
          /\ UNCHANGED <<wrappers, recorders>>
    BY <1>2 DEF EndImage
  <2>2. i \in Image /\ i \in front.live /\ Released(i)
    BY <2>1, LiveIs, ReleasedAre
  <2> DEFINE r == DestroyImage(front, i)
  <2>3. /\ FrontInv(r.now) /\ r.now.live = IF r.ok THEN front.live \ {i} ELSE front.live
        /\ r.now.pass = front.pass /\ r.now.layoutRefs = front.layoutRefs
        /\ r.now.value = front.value
        /\ \A j \in Image \ {i} : r.now.state[j] = "gone" => front.state[j] = "gone"
    BY <2>2, ImageCloses DEF Inv
  <2>4. Destroyed(r)
    BY <2>1
  <2> HIDE DEF r
  <2>5. \A j \in Image : r.now.state[j] = "gone" => front.state[j] = "gone" \/ viewCount[j] = 0
    BY <2>1, <2>3
  <2>6. /\ \A s \in Pass : r.now.pass[s].begun = front.pass[s].begun
        /\ \A p \in Pipeline \cap r.now.live : r.now.layoutRefs[p] = front.layoutRefs[p]
        /\ \A t \in Timeline \cap front.live \cap r.now.live : r.now.value[t] = front.value[t]
    BY <2>3
  <2> QED BY <2>1, <2>2, <2>3, <2>4, <2>5, <2>6, EndCloses
<1> QED
  BY <1>1, <1>2

LEMMA BindsMemory ==
  ASSUME Inv, instance = "device", instance' = instance, BindBufferMemory \/ BindImageMemory
  PROVE  Inv' /\ Steady
<1>1. PICK o \in Object, m \in Live("memory") :
        Call(BindMemory(front, o, m)) /\ UNCHANGED <<child, wrappers, recorders>>
  BY LiveIs DEF BindBufferMemory, BindImageMemory, Object
<1>2. Leaves(front, BindMemory(front, o, m).now)
  BY <1>1, LiveIs, BindMemoryLeaves DEF Inv
<1>3. BuffersKeep /\ UNCHANGED <<wrappers, pools, stranded>> /\ child' = child
  BY <1>1, BuffersStay DEF recorders
<1> QED
  BY <1>1, <1>2, <1>3, StepLeaves

LEMMA SamplersOpenAndClose ==
  ASSUME Inv, instance = "device", instance' = instance, MakeSampler \/ EndSampler
  PROVE  Inv' /\ Steady
<1>1. CASE MakeSampler
  <2>1. PICK s \in Free("sampler") : Created(CreateSampler(front, s)) /\ UNCHANGED <<wrappers, recorders>>
    BY <1>1 DEF MakeSampler
  <2>2. s \in Sampler /\ s \notin front.live /\ s \notin Pipeline
    BY <2>1, LiveIs, KindsApart
  <2> QED BY <2>1, <2>2, SamplerOpens, StepOpens DEF Inv
<1>2. CASE EndSampler
  <2>1. PICK s \in Live("sampler") :
          /\ described[s] = 0 /\ Destroyed(DestroySampler(front, s)) /\ UNCHANGED <<wrappers, recorders>>
    BY <1>2 DEF EndSampler
  <2>2. s \in Sampler /\ s \in front.live /\ Released(s)
    BY <2>1, LiveIs, ReleasedAre
  <2> QED BY <2>1, <2>2, SamplerCloses, StepCloses DEF Inv
<1> QED
  BY <1>1, <1>2

LEMMA PipelinesOpenAndClose ==
  ASSUME Inv, instance = "device", instance' = instance,
         MakeGraphicsPipeline \/ MakeComputePipeline \/ EndPipeline
  PROVE  Inv' /\ Steady
<1>1. /\ Sampleds \subseteq SUBSET (front.live \cap Image)
      /\ Uniforms \subseteq SUBSET (front.live \cap Buffer)
  BY LiveIs DEF Sampleds, Uniforms
<1>2. CASE MakeGraphicsPipeline
  <2>1. PICK p \in Free("pipeline"), target \in Live("image"), sampled \in Sampleds, uniforms \in Uniforms :
          /\ Created(CreateGraphicsPipeline(front, p, target, sampled, uniforms))
          /\ UNCHANGED <<wrappers, recorders>>
    BY <1>2 DEF MakeGraphicsPipeline
  <2>2. p \in Pipeline /\ p \notin front.live /\ target \in front.live \cap Image
    BY <2>1, LiveIs
  <2> DEFINE r == CreateGraphicsPipeline(front, p, target, sampled, uniforms)
  <2>3. Opens(front, r, p) /\ (r.ok => r.now.layoutRefs[p] = 1)
    BY <1>1, <2>2, GraphicsPipelineOpens DEF Inv
  <2>4. Created(r)
    BY <2>1
  <2> HIDE DEF r
  <2> QED BY <2>1, <2>2, <2>3, <2>4, StepOpens
<1>3. CASE MakeComputePipeline
  <2>1. PICK p \in Free("pipeline"), sampled \in Sampleds, uniforms \in Uniforms :
          /\ Created(CreatePipeline(front, p, Nothing, sampled, uniforms))
          /\ UNCHANGED <<wrappers, recorders>>
    BY <1>3 DEF MakeComputePipeline
  <2>2. p \in Pipeline /\ p \notin front.live
    BY <2>1, LiveIs
  <2> DEFINE r == CreatePipeline(front, p, Nothing, sampled, uniforms)
  <2>3. Opens(front, r, p) /\ (r.ok => r.now.layoutRefs[p] = 1)
    BY <1>1, <2>2, PipelineOpens DEF Inv
  <2>4. Created(r)
    BY <2>1
  <2> HIDE DEF r
  <2> QED BY <2>1, <2>2, <2>3, <2>4, StepOpens
<1>4. CASE EndPipeline
  <2>1. PICK p \in Live("pipeline") :
          Destroyed(DestroyPipeline(front, p)) /\ UNCHANGED <<wrappers, recorders>>
    BY <1>4 DEF EndPipeline
  <2>2. p \in Pipeline /\ p \in front.live
    BY <2>1, LiveIs
  <2> DEFINE r == DestroyPipeline(front, p)
  <2>3. Closes(front, r, p) /\ (r.ok => Released(p))
    BY <2>2, PipelineCloses, ReleasedAre DEF Inv
  <2>4. Destroyed(r)
    BY <2>1
  <2> HIDE DEF r
  <2> QED BY <2>1, <2>2, <2>3, <2>4, StepCloses
<1> QED
  BY <1>2, <1>3, <1>4

LEMMA PassesOpenAndClose ==
  ASSUME Inv, instance = "device", instance' = instance, MakePass \/ EndRenderPass
  PROVE  Inv' /\ Steady
<1>1. CASE MakePass
  <2>1. PICK r \in Free("render_pass"), i \in Live("image") :
          Created(CreatePass(front, r, i)) /\ UNCHANGED <<wrappers, recorders>>
    BY <1>1 DEF MakePass
  <2>2. r \in Pass /\ r \notin front.live /\ r \notin Pipeline /\ i \in front.live \cap Image
    BY <2>1, LiveIs, KindsApart
  <2> QED BY <2>1, <2>2, PassOpens, StepOpens DEF Inv
<1>2. CASE EndRenderPass
  <2>1. PICK r \in Live("render_pass") :
          Destroyed(DestroyPass(front, r)) /\ UNCHANGED <<wrappers, recorders>>
    BY <1>2 DEF EndRenderPass
  <2>2. r \in Pass /\ r \in front.live
    BY <2>1, LiveIs
  <2> DEFINE d == DestroyPass(front, r)
  <2>3. Closes(front, d, r) /\ (d.ok => Released(r))
    BY <2>2, PassCloses, ReleasedAre DEF Inv
  <2>4. Destroyed(d)
    BY <2>1
  <2> HIDE DEF d
  <2> QED BY <2>1, <2>2, <2>3, <2>4, StepCloses
<1> QED
  BY <1>1, <1>2

LEMMA QueriesOpenAndClose ==
  ASSUME Inv, instance = "device", instance' = instance, MakeQueries \/ EndQueries
  PROVE  Inv' /\ Steady
<1>1. CASE MakeQueries
  <2>1. PICK q \in Free("query") : Created(CreateQueryPool(front, q)) /\ UNCHANGED <<wrappers, recorders>>
    BY <1>1 DEF MakeQueries
  <2>2. q \in QueryPool /\ q \notin front.live /\ q \notin Pipeline
    BY <2>1, LiveIs, KindsApart
  <2> QED BY <2>1, <2>2, QueryPoolOpens, StepOpens DEF Inv
<1>2. CASE EndQueries
  <2>1. PICK q \in Live("query") : Destroyed(DestroyQueryPool(front, q)) /\ UNCHANGED <<wrappers, recorders>>
    BY <1>2 DEF EndQueries
  <2>2. q \in QueryPool /\ q \in front.live /\ Released(q)
    BY <2>1, LiveIs, ReleasedAre
  <2> QED BY <2>1, <2>2, QueryPoolCloses, StepCloses DEF Inv
<1> QED
  BY <1>1, <1>2

LEMMA TimelinesOpenAndClose ==
  ASSUME Inv, instance = "device", instance' = instance,
         MakeFence \/ EndFence \/ MakeSemaphore \/ EndSemaphore
  PROVE  Inv' /\ Steady
<1>1. CASE MakeFence \/ MakeSemaphore
  <2>1. PICK t \in Free("timeline") : Created(CreateTimeline(front, t)) /\ UNCHANGED <<wrappers, recorders>>
    BY <1>1 DEF MakeFence, MakeSemaphore
  <2>2. t \in Timeline /\ t \notin front.live /\ t \notin Pipeline
    BY <2>1, LiveIs, KindsApart
  <2> QED BY <2>1, <2>2, TimelineOpens, StepOpens DEF Inv
<1>2. CASE EndFence \/ EndSemaphore
  <2>1. PICK t \in Live("timeline") : Destroyed(DestroyTimeline(front, t)) /\ UNCHANGED <<wrappers, recorders>>
    BY <1>2 DEF EndFence, EndSemaphore
  <2>2. t \in Timeline /\ t \in front.live /\ Released(t)
    BY <2>1, LiveIs, ReleasedAre
  <2> QED BY <2>1, <2>2, TimelineCloses, StepCloses DEF Inv
<1> QED
  BY <1>1, <1>2, <1>2

\* A call that makes and ends nothing, while the command buffers stay.
LEMMA StepStays ==
  ASSUME Inv, instance = "device", instance' = instance, NEW r, Leaves(front, r.now), Call(r),
         child' = child, UNCHANGED <<wrappers, pools, stranded>>, buffer' = buffer
  PROVE  Inv' /\ Steady
  BY BuffersStay, StepLeaves

LEMMA PassesAndPipelinesStay ==
  ASSUME Inv, instance = "device", instance' = instance, PipelineSampler \/ PassDepth
  PROVE  Inv' /\ Steady
<1>1. CASE PipelineSampler
  <2>1. PICK p \in Live("pipeline"), s \in Live("sampler") \cup {Nothing} :
          Call(SetSampler(front, p, s)) /\ UNCHANGED <<child, wrappers, recorders>>
    BY <1>1 DEF PipelineSampler
  <2>2. p \in Pipeline /\ s \in (front.live \cap Sampler) \cup {Nothing}
    BY <2>1, LiveIs
  <2>3. Leaves(front, SetSampler(front, p, s).now)
    BY <2>2, SetSamplerLeaves DEF Inv
  <2> QED BY <2>1, <2>3, StepStays DEF recorders
<1>2. CASE PassDepth
  <2>1. PICK r \in Live("render_pass"), i \in Live("image") \cup {Nothing} :
          Call(AttachDepth(front, r, i)) /\ UNCHANGED <<child, wrappers, recorders>>
    BY <1>2 DEF PassDepth
  <2>2. r \in Pass /\ r \in front.live /\ i \in (front.live \cap Image) \cup {Nothing}
    BY <2>1, LiveIs
  <2>3. Leaves(front, AttachDepth(front, r, i).now)
    BY <2>2, AttachDepthLeaves DEF Inv
  <2> QED BY <2>1, <2>3, StepStays DEF recorders
<1> QED
  BY <1>1, <1>2

\* Who is inside a pass holds a pass that is there.
LEMMA InsideIs ==
  ASSUME Inv, NEW c \in Buffers, buffer[c].inside # Nothing
  PROVE  buffer[c].inside \in Pass /\ buffer[c].inside \in front.live
  BY NamedStay

LEMMA InsideStays ==
  ASSUME Inv, instance = "device", instance' = instance, CmdInside \/ CmdQuery
  PROVE  Inv' /\ Steady
<1>1. CASE CmdInside
  <2>1. PICK c \in Buffers :
          /\ buffer[c].inside # Nothing
          /\ \/ \E p \in Live("pipeline") : Call(BindPipeline(front, buffer[c].inside, p))
             \/ \E b \in Live("buffer") : Call(BindIndex(front, buffer[c].inside, b))
             \/ \E b \in Live("buffer") : Call(BindVertex(front, buffer[c].inside, b))
             \/ \E area \in {Whole, {0}} : Call(SetScissor(front, buffer[c].inside, area))
          /\ UNCHANGED <<child, buffer>> /\ Keeps
    BY <1>1 DEF CmdInside
  <2>2. PICK r : r = buffer[c].inside
    OBVIOUS
  <2>3. r \in Pass /\ r \in front.live
    BY <2>1, <2>2, InsideIs
  <2>4. child' = child /\ UNCHANGED <<wrappers, pools, stranded>> /\ buffer' = buffer
    BY <2>1 DEF Keeps
  <2>5. CASE \E p \in Live("pipeline") : Call(BindPipeline(front, r, p))
    BY <2>3, <2>4, <2>5, LiveIs, BindPipelineLeaves, StepStays DEF Inv
  <2>6. CASE \E b \in Live("buffer") : Call(BindIndex(front, r, b))
    BY <2>3, <2>4, <2>6, LiveIs, BindIndexLeaves, StepStays DEF Inv
  <2>7. CASE \E b \in Live("buffer") : Call(BindVertex(front, r, b))
    BY <2>3, <2>4, <2>7, LiveIs, BindVertexLeaves, StepStays DEF Inv
  <2>8. CASE \E area \in {Whole, {0}} : Call(SetScissor(front, r, area))
    BY <2>3, <2>4, <2>8, SetScissorLeaves, StepStays DEF Inv
  <2> QED BY <2>1, <2>2, <2>5, <2>6, <2>7, <2>8
<1>2. CASE CmdQuery
  <2>1. PICK c \in Buffers :
          /\ buffer[c].inside # Nothing
          /\ \/ \E q \in Live("query") : Call(BeginQuery(front, buffer[c].inside, q))
             \/ Call(EndQuery(front, buffer[c].inside))
          /\ UNCHANGED <<child, buffer>> /\ Keeps
    BY <1>2 DEF CmdQuery
  <2>2. PICK r : r = buffer[c].inside
    OBVIOUS
  <2>3. r \in Pass /\ r \in front.live
    BY <2>1, <2>2, InsideIs
  <2>4. child' = child /\ UNCHANGED <<wrappers, pools, stranded>> /\ buffer' = buffer
    BY <2>1 DEF Keeps
  <2>5. CASE \E q \in Live("query") : Call(BeginQuery(front, r, q))
    BY <2>3, <2>4, <2>5, LiveIs, BeginQueryLeaves, StepStays DEF Inv
  <2>6. CASE Call(EndQuery(front, r))
    BY <2>3, <2>4, <2>6, EndQueryLeaves, StepStays DEF Inv
  <2> QED BY <2>1, <2>2, <2>5, <2>6
<1> QED
  BY <1>1, <1>2

-----------------------------------------------------------------------------
(* Command buffers.                                                        *)

\* A step of the command buffers alone.
LEMMA BuffersMove ==
  ASSUME Inv, instance = "device", instance' = instance, front' = front, child' = child,
         UNCHANGED <<wrappers, pools, stranded>>, BuffersKeep
  PROVE  Inv'
<1>1. child' = child + Cardinality(front'.live) - Cardinality(front.live)
  BY LiveFinite, AllFinite DEF Inv, Counts
<1>2. FrontInv(front') /\ front.live \ front'.live = {}
  BY DEF Inv
<1> QED
  BY <1>1, <1>2, FrontMoves

LEMMA OneBufferMoves ==
  ASSUME Inv, NEW c \in Buffers, NEW b \in BufferRecord, buffer' = [buffer EXCEPT ![c] = b],
         b.pool = buffer[c].pool, b.inside = buffer[c].inside,
         b.inside # Nothing => b.recording
  PROVE  BuffersKeep
<1>1. /\ buffer \in [CommandBuffer -> BufferRecord] /\ c \in CommandBuffer /\ buffer[c].pool # Nothing
      /\ \A d \in CommandBuffer : buffer[d].inside # Nothing => buffer[d].recording
  BY DEF Inv, RecorderType, Buffers, PassesAreInside
<1>2. /\ buffer' \in [CommandBuffer -> BufferRecord]
      /\ \A d \in CommandBuffer : buffer'[d] = IF d = c THEN b ELSE buffer[d]
  BY <1>1
<1> QED
  BY <1>1, <1>2 DEF BuffersKeep, PoolsKeep

LEMMA BufferIs ==
  ASSUME Inv, NEW c \in Buffers
  PROVE  /\ c \in CommandBuffer /\ buffer[c] \in BufferRecord /\ buffer[c].pool # Nothing
         /\ DOMAIN buffer = CommandBuffer
         /\ DOMAIN buffer[c] = {"pool", "list", "recording", "executable", "inside", "compute", "set"}
         /\ buffer[c].inside # Nothing => buffer[c].recording
  BY DEF Inv, RecorderType, Buffers, PassesAreInside, BufferRecord

\* Command x is added to command buffer c.
LEMMA PushedKeeps ==
  ASSUME Inv, NEW c \in Buffers, NEW x \in Entry, buffer' = Pushed(c, x)
  PROVE  BuffersKeep
<1>1. PICK l : l = Append(buffer[c].list, x)
  OBVIOUS
<1>2. l \in Seq(Entry)
  BY <1>1, BufferIs DEF BufferRecord
<1> DEFINE b == [buffer[c] EXCEPT !.list = l]
<1>3. /\ b \in BufferRecord /\ b.pool = buffer[c].pool /\ b.inside = buffer[c].inside
      /\ b.inside # Nothing => b.recording
  BY <1>2, BufferIs DEF BufferRecord
<1>4. buffer' = [buffer EXCEPT ![c] = b]
  BY <1>1, BufferIs DEF Pushed
<1> HIDE DEF b
<1> QED
  BY <1>3, <1>4, OneBufferMoves

LEMMA RecordKeeps ==
  ASSUME Inv, instance = "device", instance' = instance, Record \/ CmdDispatch \/ CmdClear
  PROVE  Inv'
<1>1. \E c \in Buffers, x \in Entry : buffer' = Pushed(c, x)
  <2>1. CASE Record
    BY <2>1 DEF Record, Recordable, Entry
  <2>2. CASE CmdDispatch
    <3>1. PICK c \in Buffers : /\ buffer[c].compute # Nothing
                               /\ buffer' = Pushed(c, [kind |-> "DISPATCH", to |-> buffer[c].compute])
      BY <2>2 DEF CmdDispatch
    <3>2. [kind |-> "DISPATCH", to |-> buffer[c].compute] \in Entry
      BY <3>1, BufferIs DEF BufferRecord, Entry
    <3> QED BY <3>1, <3>2
  <2>3. CASE CmdClear
    <3>1. PICK c \in Buffers, kind \in {"CLEAR_ATTACHMENTS", "CLEAR_DEPTH"} :
            /\ buffer[c].inside # Nothing
            /\ buffer' = Pushed(c, [kind |-> kind, to |-> buffer[c].inside,
                                    area |-> Area(front, buffer[c].inside)])
      BY <2>3 DEF CmdClear
    <3>2. buffer[c].inside \in Pass
      BY <3>1, InsideIs
    <3>3. Area(front, buffer[c].inside) \in SUBSET Int
      BY <3>2, PassFields DEF Inv, Area, Whole, PassRecord
    <3>4. [kind |-> kind, to |-> buffer[c].inside, area |-> Area(front, buffer[c].inside)] \in Entry
      BY <3>2, <3>3 DEF Entry
    <3> QED BY <3>1, <3>4
  <2> QED BY <2>1, <2>2, <2>3
<1>2. BuffersKeep
  BY <1>1, PushedKeeps
<1>3. front' = front /\ child' = child /\ UNCHANGED <<wrappers, pools, stranded>>
  BY DEF Record, CmdDispatch, CmdClear, Keeps
<1> QED
  BY <1>2, <1>3, BuffersMove

LEMMA RecorderKeeps ==
  ASSUME Inv, instance = "device", instance' = instance, Begin \/ BindCompute \/ End \/ ResetPool
  PROVE  Inv'
<1>1. BuffersKeep
  <2>1. CASE Begin
    <3>1. PICK c \in Buffers :
            /\ ~buffer[c].recording
            /\ buffer' = [buffer EXCEPT ![c].list = <<>>, ![c].executable = FALSE, ![c].recording = TRUE]
      BY <2>1 DEF Begin
    <3> DEFINE b == [buffer[c] EXCEPT !.list = <<>>, !.executable = FALSE, !.recording = TRUE]
    <3>2. /\ b \in BufferRecord /\ b.pool = buffer[c].pool /\ b.inside = buffer[c].inside
          /\ b.inside # Nothing => b.recording
      <4>1. PICK none \in Seq(Entry) : none = <<>>
        BY EmptySeq
      <4>2. b = [buffer[c] EXCEPT !.list = none, !.executable = FALSE, !.recording = TRUE]
        BY <4>1
      <4>3. b \in BufferRecord
        <5> HIDE DEF b
        <5> QED BY <4>2, BufferIs DEF BufferRecord
      <4>4. b.pool = buffer[c].pool /\ b.inside = buffer[c].inside
        BY BufferIs
      <4>5. buffer[c].inside = Nothing
        BY <3>1, BufferIs
      <4> QED BY <4>3, <4>4, <4>5
    <3>3. buffer' = [buffer EXCEPT ![c] = b]
      BY <3>1, BufferIs
    <3> HIDE DEF b
    <3> QED BY <3>2, <3>3, OneBufferMoves
  <2>2. CASE BindCompute
    <3>1. PICK c \in Buffers :
            \/ \E p \in Live("pipeline") : buffer' = [buffer EXCEPT ![c].compute = p]
            \/ \E d \in Sets : buffer' = [buffer EXCEPT ![c].set = d]
      BY <2>2 DEF BindCompute
    <3>2. CASE \E p \in Live("pipeline") : buffer' = [buffer EXCEPT ![c].compute = p]
      <4>1. PICK p \in Pipeline : buffer' = [buffer EXCEPT ![c].compute = p]
        BY <3>2, LiveIs
      <4> DEFINE b == [buffer[c] EXCEPT !.compute = p]
      <4>2. /\ b \in BufferRecord /\ b.pool = buffer[c].pool /\ b.inside = buffer[c].inside
            /\ b.inside # Nothing => b.recording
        BY BufferIs DEF BufferRecord
      <4>3. buffer' = [buffer EXCEPT ![c] = b]
        BY <4>1, BufferIs
      <4> HIDE DEF b
      <4> QED BY <4>2, <4>3, OneBufferMoves
    <3>3. CASE \E d \in Sets : buffer' = [buffer EXCEPT ![c].set = d]
      <4>1. PICK d \in Set : buffer' = [buffer EXCEPT ![c].set = d]
        BY <3>3 DEF Sets
      <4> DEFINE b == [buffer[c] EXCEPT !.set = d]
      <4>2. /\ b \in BufferRecord /\ b.pool = buffer[c].pool /\ b.inside = buffer[c].inside
            /\ b.inside # Nothing => b.recording
        BY BufferIs DEF BufferRecord
      <4>3. buffer' = [buffer EXCEPT ![c] = b]
        BY <4>1, BufferIs
      <4> HIDE DEF b
      <4> QED BY <4>2, <4>3, OneBufferMoves
    <3> QED BY <3>1, <3>2, <3>3
  <2>3. CASE End
    <3>1. PICK c \in Buffers :
            /\ buffer[c].inside = Nothing
            /\ buffer' = [buffer EXCEPT ![c].recording = FALSE, ![c].executable = TRUE,
                                        ![c].compute = Nothing, ![c].set = Nothing]
      BY <2>3 DEF End
    <3> DEFINE b == [buffer[c] EXCEPT !.recording = FALSE, !.executable = TRUE,
                                      !.compute = Nothing, !.set = Nothing]
    <3>2. /\ b \in BufferRecord /\ b.pool = buffer[c].pool /\ b.inside = buffer[c].inside
          /\ b.inside # Nothing => b.recording
      BY <3>1, BufferIs DEF BufferRecord
    <3>3. buffer' = [buffer EXCEPT ![c] = b]
      BY <3>1, BufferIs
    <3> HIDE DEF b
    <3> QED BY <3>2, <3>3, OneBufferMoves
  <2>4. CASE ResetPool
    <3>1. PICK p \in pools :
            /\ \A c \in Members(p) : ~buffer[c].recording
            /\ buffer' = [c \in CommandBuffer |->
                 IF c \in Members(p) THEN [buffer[c] EXCEPT !.list = <<>>, !.executable = FALSE]
                 ELSE buffer[c]]
      BY <2>4 DEF ResetPool
    <3>2. p # Nothing
      BY CommandsAssumption DEF Inv, RecorderType
    <3>3. ASSUME NEW c \in CommandBuffer
          PROVE  /\ buffer'[c] \in BufferRecord
                 /\ buffer'[c].pool = buffer[c].pool /\ buffer'[c].inside = buffer[c].inside
                 /\ buffer'[c].recording = buffer[c].recording
                 /\ buffer[c].pool = Nothing => buffer'[c] = buffer[c]
      <4>1. buffer[c] \in BufferRecord
        BY DEF Inv, RecorderType
      <4>2. CASE c \in Members(p)
        <5>1. buffer'[c] = [buffer[c] EXCEPT !.list = <<>>, !.executable = FALSE]
          BY <3>1, <4>2
        <5>2. buffer[c].pool # Nothing
          BY <3>2, <4>2 DEF Members
        <5>3. DOMAIN buffer[c] = {"pool", "list", "recording", "executable", "inside", "compute", "set"}
          BY <4>1 DEF BufferRecord
        <5>4. PICK none \in Seq(Entry) : none = <<>>
          BY EmptySeq
        <5>5. buffer'[c] \in BufferRecord
          BY <4>1, <5>4, <5>1 DEF BufferRecord
        <5>6. buffer'[c].pool = buffer[c].pool /\ buffer'[c].inside = buffer[c].inside
          BY <5>1, <5>3
        <5>7. buffer'[c].recording = buffer[c].recording
          BY <5>1, <5>3
        <5> QED BY <5>2, <5>5, <5>6, <5>7
      <4>3. CASE c \notin Members(p)
        BY <3>1, <4>1, <4>3
      <4> QED BY <4>2, <4>3
    <3>4. DOMAIN buffer' = CommandBuffer /\ buffer' \in [CommandBuffer -> BufferRecord]
      <4>1. buffer' = [c \in CommandBuffer |-> buffer'[c]]
        BY <3>1
      <4> QED BY <3>3, <4>1
    <3>5. \A c \in CommandBuffer : buffer[c].inside # Nothing => buffer'[c].recording
      BY <3>3 DEF Inv, PassesAreInside
    <3> QED BY <3>3, <3>4, <3>5 DEF BuffersKeep, PoolsKeep
  <2> QED BY <2>1, <2>2, <2>3, <2>4
<1>2. front' = front /\ child' = child /\ UNCHANGED <<wrappers, pools, stranded>>
  BY DEF Begin, BindCompute, End, ResetPool, Keeps
<1> QED
  BY <1>1, <1>2, BuffersMove

-----------------------------------------------------------------------------
(* Render passes while they are recorded.                                  *)

\* The front end goes on to g, in which passes may begin or end, and command
\* buffer c on to b.
LEMMA PassMoves ==
  ASSUME Inv, instance = "device", instance' = instance, NEW r, FrontInv(r.now), Call(r),
         r.now.live = front.live, r.now.layoutRefs = front.layoutRefs, r.now.state = front.state,
         r.now.value = front.value,
         child' = child, UNCHANGED <<wrappers, pools, stranded>>,
         NEW c \in Buffers, NEW b \in BufferRecord, buffer' = [buffer EXCEPT ![c] = b],
         b.pool = buffer[c].pool, b.inside \in front.live \cup {Nothing}, PassesAreInside'
  PROVE  Inv' /\ Steady
<1>1. Leaves(r.now, front')
  BY CallLeaves
<1>2. /\ FrontInv(front') /\ front'.live = front.live
      /\ \A p \in Pipeline \cap front'.live : front'.layoutRefs[p] = front.layoutRefs[p]
      /\ \A i \in Image : front'.state[i] = "gone" => front.state[i] = "gone"
  BY <1>1 DEF Leaves, Outside
<1>3. child' = child + Cardinality(front'.live) - Cardinality(front.live)
  <2>1. FrontInv(front)
    BY DEF Inv
  <2>2. Cardinality(front.live) \in Nat /\ Cardinality(front'.live) = Cardinality(front.live)
    BY <2>1, <1>2, LiveFinite
  <2>3. child \in Int /\ child' = child
    BY AllFinite DEF Inv, Counts
  <2> QED BY <2>2, <2>3
<1>4. \A d \in CommandBuffer : buffer'[d] = IF d = c THEN b ELSE buffer[d]
  BY BufferIs
<1>5. PoolsKeep
  BY <1>4, BufferIs DEF PoolsKeep, Inv, RecorderType
<1>6. BuffersLive'
  <2>1. Buffers' = Buffers /\ pools' = pools
    BY <1>5 DEF Buffers, PoolsKeep
  <2>2. \A d \in Buffers : buffer'[d].pool \in pools /\ buffer'[d].inside \in front.live \cup {Nothing}
    BY <1>4, BufferIs DEF Inv, BuffersLive
  <2> QED BY <1>2, <2>1, <2>2 DEF BuffersLive
<1>7. Steady
  BY <1>1, <1>2 DEF Leaves, Outside, Steady
<1> QED
  BY <1>2, <1>3, <1>5, <1>6, <1>7, RestMoves

LEMMA PassBegins ==
  ASSUME Inv, instance = "device", instance' = instance, CmdBeginRenderPass
  PROVE  Inv' /\ Steady
<1>1. PICK c \in Buffers, r \in Live("render_pass"), cleared \in SUBSET {"color", "depth"} :
        /\ buffer[c].recording /\ buffer[c].inside = Nothing /\ BeginPass(front, r, cleared).ok
        /\ IF Room(c)
           THEN /\ Call(BeginPass(front, r, cleared))
                /\ buffer' = [Pushed(c, [kind |-> "BEGIN", to |-> r, cleared |-> cleared])
                                EXCEPT ![c].inside = r]
           ELSE Call(EndPass(BeginPass(front, r, cleared).now, r)) /\ UNCHANGED buffer
  BY DEF CmdBeginRenderPass
<1>2. child' = child /\ UNCHANGED <<wrappers, pools, stranded>>
  BY DEF CmdBeginRenderPass, Keeps
<1>3. r \in Pass /\ r \in front.live
  BY <1>1, LiveIs
<1>4. PICK begun : begun = BeginPass(front, r, cleared)
  OBVIOUS
<1>5. /\ FrontInv(begun.now) /\ begun.now.live = front.live
      /\ begun.now.layoutRefs = front.layoutRefs /\ begun.now.state = front.state
      /\ begun.now.value = front.value
      /\ ~front.pass[r].begun
      /\ begun.now.pass[r].begun /\ \A s \in Pass \ {r} : begun.now.pass[s].begun = front.pass[s].begun
  BY <1>1, <1>3, <1>4, BeginPassInv DEF Inv
<1>6. CASE Room(c)
  <2> DEFINE x == [kind |-> "BEGIN", to |-> r, cleared |-> cleared]
  <2>1. x \in Entry
    BY <1>3 DEF Entry
  <2> HIDE DEF x
  <2>2. PICK l : l = Append(buffer[c].list, x)
    OBVIOUS
  <2>3. l \in Seq(Entry)
    BY <2>1, <2>2, BufferIs DEF BufferRecord
  <2> DEFINE b == [buffer[c] EXCEPT !.list = l, !.inside = r]
  <2>4. b \in BufferRecord /\ b.pool = buffer[c].pool /\ b.inside = r /\ b.recording = buffer[c].recording
    BY <1>3, <2>3, BufferIs DEF BufferRecord
  <2>5. buffer' = [buffer EXCEPT ![c] = b]
    BY <1>1, <1>6, <2>2, BufferIs DEF Pushed, x
  <2> HIDE DEF b
  <2>6. \A d \in CommandBuffer : buffer'[d] = IF d = c THEN b ELSE buffer[d]
    BY <2>5, BufferIs
  <2>7. Call(begun)
    BY <1>1, <1>4, <1>6
  <2>8. front'.pass[r].begun /\ \A s \in Pass \ {r} : front'.pass[s].begun = front.pass[s].begun
    BY <1>3, <1>5, <2>7, CallLeaves DEF Leaves, Outside
  <2>9. PassesAreInside'
    <3>1. \A d \in CommandBuffer : buffer'[d].inside = IF d = c THEN r ELSE buffer[d].inside
      BY <2>4, <2>6
    <3>2. r \notin stranded /\ \A d \in CommandBuffer : buffer[d].inside # r
      BY <1>3, <1>5 DEF Inv, PassesAreInside
    <3>3. r # Nothing /\ c \in CommandBuffer /\ buffer[c].inside = Nothing /\ Nothing \notin Pass
      BY <1>1, <1>3, BufferIs, KindsApart, KindsAre
    <3>4. \A s \in Pass : front'.pass[s].begun <=> s \in stranded \cup {buffer'[d].inside : d \in CommandBuffer}
      <4>1. \A s \in Pass : s \in {buffer'[d].inside : d \in CommandBuffer} <=>
                            s = r \/ s \in {buffer[d].inside : d \in CommandBuffer}
        BY <3>1, <3>3
      <4>2. \A s \in Pass : front.pass[s].begun <=> s \in stranded \cup {buffer[d].inside : d \in CommandBuffer}
        BY DEF Inv, PassesAreInside
      <4> QED BY <2>8, <4>1, <4>2
    <3>5. \A d, e \in CommandBuffer : buffer'[d].inside = buffer'[e].inside /\ d # e => buffer'[d].inside = Nothing
      BY <3>1, <3>2 DEF Inv, PassesAreInside
    <3>6. \A d \in CommandBuffer : buffer'[d].inside # Nothing =>
            buffer'[d].recording /\ buffer'[d].inside \notin stranded
      BY <1>1, <2>4, <2>6, <3>1, <3>2 DEF Inv, PassesAreInside
    <3> QED BY <1>2, <3>4, <3>5, <3>6 DEF PassesAreInside
  <2> QED BY <1>2, <1>3, <1>5, <2>4, <2>5, <2>7, <2>9, PassMoves
<1>7. CASE ~Room(c)
  <2>1. r \in begun.now.live /\ EndPass(begun.now, r).ok
    BY <1>1, <1>3, <1>4, <1>5, BegunThenEnds DEF Inv
  <2>2. PICK ended : ended = EndPass(begun.now, r)
    OBVIOUS
  <2>3. /\ FrontInv(ended.now) /\ ended.now.live = begun.now.live
        /\ ended.now.layoutRefs = begun.now.layoutRefs /\ ended.now.state = begun.now.state
        /\ ended.now.value = begun.now.value
        /\ ~ended.now.pass[r].begun
        /\ \A s \in Pass \ {r} : ended.now.pass[s].begun = begun.now.pass[s].begun
    BY <1>3, <1>5, <2>1, <2>2, EndPassInv
  <2>4. \A s \in Pass : ended.now.pass[s].begun = front.pass[s].begun
    <3>1. front.pass[r].begun \in BOOLEAN /\ ended.now.pass[r].begun \in BOOLEAN
      BY <1>3, <2>3, PassFields DEF Inv, PassRecord
    <3>2. ended.now.pass[r].begun = front.pass[r].begun
      BY <1>5, <2>3, <3>1
    <3> QED BY <1>5, <2>3, <3>2
  <2>5. Goes(front, ended.now)
    BY <1>5, <2>3, <2>4 DEF Goes
  <2>6. Call(ended) /\ buffer' = buffer
    BY <1>1, <1>4, <1>7, <2>2
  <2>7. Steady
    <3>1. FrontInv(ended.now) /\ ended.now.live = front.live /\ ended.now.value = front.value
      BY <1>5, <2>3
    <3>2. Leaves(ended.now, front')
      BY <2>6, <3>1, CallLeaves
    <3> QED BY <3>1, <3>2 DEF Leaves, Outside, Steady
  <2> QED BY <1>2, <2>5, <2>6, <2>7, BuffersStay, StepGoes
<1> QED
  BY <1>6, <1>7

LEMMA PassEnds ==
  ASSUME Inv, instance = "device", instance' = instance, CmdEndRenderPass
  PROVE  Inv' /\ Steady
<1>1. PICK c \in Buffers :
        /\ buffer[c].inside # Nothing /\ EndPass(front, buffer[c].inside).ok
        /\ Call(EndPass(front, buffer[c].inside))
        /\ buffer' = [buffer EXCEPT ![c].inside = Nothing]
  BY DEF CmdEndRenderPass
<1>2. child' = child /\ UNCHANGED <<wrappers, pools, stranded>>
  BY DEF CmdEndRenderPass, Keeps
<1>3. PICK r : r = buffer[c].inside
  OBVIOUS
<1>4. r \in Pass /\ r \in front.live /\ r # Nothing /\ c \in CommandBuffer
  BY <1>1, <1>3, InsideIs, BufferIs
<1>5. PICK ended : ended = EndPass(front, r)
  OBVIOUS
<1>6. /\ FrontInv(ended.now) /\ ended.now.live = front.live
      /\ ended.now.layoutRefs = front.layoutRefs /\ ended.now.state = front.state
      /\ ended.now.value = front.value
      /\ ~ended.now.pass[r].begun
      /\ \A s \in Pass \ {r} : ended.now.pass[s].begun = front.pass[s].begun
  BY <1>1, <1>3, <1>4, <1>5, EndPassInv DEF Inv
<1> DEFINE b == [buffer[c] EXCEPT !.inside = Nothing]
<1>7. b \in BufferRecord /\ b.pool = buffer[c].pool /\ b.inside = Nothing
  BY BufferIs DEF BufferRecord
<1>8. buffer' = [buffer EXCEPT ![c] = b]
  BY <1>1, BufferIs
<1> HIDE DEF b
<1>9. \A d \in CommandBuffer : buffer'[d] = IF d = c THEN b ELSE buffer[d]
  BY <1>8, BufferIs
<1>10. Call(ended)
  BY <1>1, <1>3, <1>5
<1>11. ~front'.pass[r].begun /\ \A s \in Pass \ {r} : front'.pass[s].begun = front.pass[s].begun
  BY <1>4, <1>6, <1>10, CallLeaves DEF Leaves, Outside
<1>12. PassesAreInside'
  <2>1. \A d \in CommandBuffer : buffer'[d].inside = IF d = c THEN Nothing ELSE buffer[d].inside
    BY <1>7, <1>9
  <2>2. r \notin stranded /\ \A d \in CommandBuffer : d # c => buffer[d].inside # r
    BY <1>3, <1>4 DEF Inv, PassesAreInside
  <2>3. Nothing \notin Pass
    BY KindsApart, KindsAre
  <2>4. \A s \in Pass : front'.pass[s].begun <=> s \in stranded \cup {buffer'[d].inside : d \in CommandBuffer}
    <3>1. \A s \in Pass : s \in {buffer'[d].inside : d \in CommandBuffer} <=>
                          s # r /\ s \in {buffer[d].inside : d \in CommandBuffer}
      BY <1>3, <1>4, <2>1, <2>2, <2>3
    <3>2. \A s \in Pass : front.pass[s].begun <=> s \in stranded \cup {buffer[d].inside : d \in CommandBuffer}
      BY DEF Inv, PassesAreInside
    <3> QED BY <1>11, <2>2, <3>1, <3>2
  <2>5. \A d, e \in CommandBuffer : buffer'[d].inside = buffer'[e].inside /\ d # e => buffer'[d].inside = Nothing
    BY <2>1 DEF Inv, PassesAreInside
  <2>6. \A d \in CommandBuffer : buffer'[d].inside # Nothing =>
          buffer'[d].recording /\ buffer'[d].inside \notin stranded
    BY <1>9, <2>1 DEF Inv, PassesAreInside
  <2> QED BY <1>2, <2>4, <2>5, <2>6 DEF PassesAreInside
<1> QED
  BY <1>2, <1>6, <1>7, <1>8, <1>10, <1>12, PassMoves

-----------------------------------------------------------------------------
(* Submission.                                                             *)

LEMMA SubmissionLeaves ==
  ASSUME Inv, NEW c \in Buffers
  PROVE  Leaves(front, Submission(front, buffer[c].list).now)
<1>1. buffer[c].list \in Seq(Entry)
  BY BufferIs DEF BufferRecord
<1>2. Shaped(front)
  BY StaysItself DEF Inv
<1> QED
  BY <1>1, <1>2, SubmissionMoves, MovesLeaves DEF Inv, Carries

\* A submission that ran, or not, and the timeline it signals if it did.
LEMMA SubmitSteps ==
  ASSUME Inv, instance = "device", instance' = instance, NEW c \in Buffers,
         NEW t \in Timeline \cup {Nothing}, NEW ran, Leaves(front, ran.now), NEW executable \in BOOLEAN,
         buffer' = [buffer EXCEPT ![c].executable = executable],
         Call(IF ran.ok THEN IF t = Nothing THEN Done(ran.now) ELSE Signal(ran.now, t) ELSE ran),
         child' = child, Keeps
  PROVE  Inv'
<1>1. PICK r : r = IF ran.ok THEN IF t = Nothing THEN Done(ran.now) ELSE Signal(ran.now, t) ELSE ran
  OBVIOUS
<1>2. Goes(front, r.now)
  <2>1. FrontInv(ran.now)
    BY DEF Leaves
  <2>2. CASE ran.ok /\ t # Nothing
    <3>1. PICK s \in Timeline : s = t
      BY <2>2
    <3>2. r = Signal(ran.now, s)
      BY <1>1, <2>2, <3>1
    <3>3. /\ FrontInv(r.now) /\ r.now.live = ran.now.live /\ r.now.pass = ran.now.pass
          /\ r.now.layoutRefs = ran.now.layoutRefs /\ r.now.state = ran.now.state
      BY <2>1, <3>2, SignalInv
    <3> QED BY <3>3 DEF Goes, Leaves, Outside
  <2>3. CASE ~(ran.ok /\ t # Nothing)
    <3>1. r.now = ran.now
      BY <1>1, <2>3 DEF Done
    <3> QED BY <3>1, LeavesGoes
  <2> QED BY <2>2, <2>3
<1> DEFINE b == [buffer[c] EXCEPT !.executable = executable]
<1>3. b \in BufferRecord /\ b.pool = buffer[c].pool /\ b.inside = buffer[c].inside
  BY BufferIs DEF BufferRecord
<1>4. b.inside # Nothing => b.recording
  <2>1. b.recording = buffer[c].recording
    BY BufferIs
  <2> QED BY <1>3, <2>1, BufferIs
<1>5. buffer' = [buffer EXCEPT ![c] = b]
  BY BufferIs
<1> HIDE DEF b
<1>6. BuffersKeep
  BY <1>3, <1>4, <1>5, OneBufferMoves
<1>7. UNCHANGED <<wrappers, pools, stranded>>
  BY DEF Keeps
<1> QED
  BY <1>1, <1>2, <1>6, <1>7, StepGoes

\* What the two submissions do, to a fence and to a semaphore.
LEMMA SubmissionIs ==
  ASSUME QueueSubmit \/ QueueSubmitWait
  PROVE  \E c \in Buffers, t \in (Timeline \cap front.live) \cup {Nothing} :
           LET ran == Submission(front, buffer[c].list)
           IN /\ buffer[c].executable /\ (QueueSubmit \/ t # Nothing)
              /\ QueueSubmitWait \/ t \in Fence \cup {Nothing}
              /\ buffer' = [buffer EXCEPT ![c].executable = ~ran.ok]
              /\ Call(IF ran.ok THEN IF t = Nothing THEN Done(ran.now) ELSE Signal(ran.now, t) ELSE ran)
              /\ child' = child /\ Keeps
<1>1. Fence \cup Semaphore = Timeline
  BY CommandsAssumption
<1>2. CASE QueueSubmit
  <2>1. PICK c \in Buffers, t \in (Fence \cap front.live) \cup {Nothing} :
          LET ran == Submission(front, buffer[c].list)
              Reached(g) == IF t = Nothing THEN Done(g) ELSE Signal(g, t)
          IN /\ buffer[c].executable
             /\ buffer' = [buffer EXCEPT ![c].executable = ~ran.ok]
             /\ Call(Then(ran, Reached))
    BY <1>2 DEF QueueSubmit
  <2>2. child' = child /\ Keeps /\ t \in (Timeline \cap front.live) \cup {Nothing}
    BY <1>1, <1>2 DEF QueueSubmit
  <2> QED BY <1>2, <2>1, <2>2 DEF Then
<1>3. CASE QueueSubmitWait
  <2>1. PICK c \in Buffers, s \in Semaphore \cap front.live :
          LET ran == Submission(front, buffer[c].list)
              Reached(g) == Signal(g, s)
          IN /\ buffer[c].executable
             /\ buffer' = [buffer EXCEPT ![c].executable = ~ran.ok]
             /\ Call(Then(ran, Reached))
    BY <1>3 DEF QueueSubmitWait
  <2>2. child' = child /\ Keeps
    BY <1>3 DEF QueueSubmitWait
  <2>3. s # Nothing /\ s \in (Timeline \cap front.live) \cup {Nothing}
    BY <1>1, KindsApart, KindsAre
  <2> QED BY <1>3, <2>1, <2>2, <2>3 DEF Then
<1> QED
  BY <1>2, <1>3

LEMMA Submits ==
  ASSUME Inv, instance = "device", instance' = instance, QueueSubmit \/ QueueSubmitWait \/ SignalFence
  PROVE  Inv'
<1>1. CASE QueueSubmit \/ QueueSubmitWait
  <2>1. PICK c \in Buffers, t \in (Timeline \cap front.live) \cup {Nothing} :
          LET ran == Submission(front, buffer[c].list)
          IN /\ buffer' = [buffer EXCEPT ![c].executable = ~ran.ok]
             /\ Call(IF ran.ok THEN IF t = Nothing THEN Done(ran.now) ELSE Signal(ran.now, t) ELSE ran)
             /\ child' = child /\ Keeps
    BY <1>1, SubmissionIs
  <2>2. PICK ran : ran = Submission(front, buffer[c].list)
    OBVIOUS
  <2>3. Leaves(front, ran.now)
    BY <2>2, SubmissionLeaves
  <2>4. PICK executable \in BOOLEAN : executable = ~ran.ok
    OBVIOUS
  <2>5. /\ buffer' = [buffer EXCEPT ![c].executable = executable]
        /\ Call(IF ran.ok THEN IF t = Nothing THEN Done(ran.now) ELSE Signal(ran.now, t) ELSE ran)
    BY <2>1, <2>2, <2>4
  <2>6. t \in Timeline \cup {Nothing} /\ child' = child /\ Keeps
    BY <2>1
  <2> QED BY <2>3, <2>5, <2>6, SubmitSteps
<1>2. CASE SignalFence
  <2>1. PICK t \in Fence \cap front.live : Call(Signal(front, t))
    BY <1>2 DEF SignalFence
  <2>2. t \in Timeline
    BY CommandsAssumption
  <2>3. PICK r : r = Signal(front, t)
    OBVIOUS
  <2>4. Goes(front, r.now)
    BY <2>2, <2>3, SignalInv DEF Inv, Goes
  <2>5. child' = child /\ UNCHANGED <<wrappers, pools, stranded>> /\ BuffersKeep
    BY <1>2, BuffersStay DEF SignalFence, Keeps
  <2> QED BY <2>1, <2>3, <2>4, <2>5, StepGoes
<1> QED
  BY <1>1, <1>2

-----------------------------------------------------------------------------
(* Objects that are none of the front end.                                 *)

\* One of them comes or goes, and the front end, the views and the sets stay.
LEMMA PoolsMove ==
  ASSUME Inv, instance = "device", instance' = instance, front' = front, UNCHANGED wrappers,
         RecorderType', child' - child = Cardinality(pools') + Cardinality(Buffers')
                                          - Cardinality(pools) - Cardinality(Buffers),
         child' \in Int, IsFiniteSet(pools'), IsFiniteSet(Buffers'),
         BuffersLive', PassesAreInside',
         \A c \in CommandBuffer : c \in Buffers' \/ buffer'[c] = NoRecording
  PROVE  Inv'
<1>1. /\ Views' = Views /\ Sets' = Sets /\ \A x : Describers(x)' = Describers(x)
      /\ view' = view /\ viewCount' = viewCount /\ set' = set /\ described' = described
  BY DEF wrappers, Views, Sets, Describers
<1>2. child' = Cardinality(front'.live) + Beside'
  <2>1. /\ child = Cardinality(front.live) + Beside
        /\ Cardinality(front.live) \in Nat /\ Cardinality(Views) \in Nat /\ Cardinality(Sets) \in Nat
        /\ Cardinality(pools) \in Nat /\ Cardinality(Buffers) \in Nat
    BY AllFinite DEF Inv, Counts
  <2>2. Cardinality(pools') \in Nat /\ Cardinality(Buffers') \in Nat
    BY FS_CardinalityType
  <2>3. Cardinality(Views') = Cardinality(Views) /\ Cardinality(Sets') = Cardinality(Sets)
    BY <1>1
  <2> QED BY <2>1, <2>2, <2>3 DEF Beside
<1>3. Counts'
  <2>1. /\ \A i \in Image : viewCount'[i] = Cardinality({x \in Views' : view'[x] = i})
        /\ \A x \in Buffer \cup View \cup Sampler : described'[x] = Cardinality(Describers(x)')
    BY <1>1 DEF Inv, Counts
  <2>2. \A p \in Live("pipeline")' : front'.layoutRefs[p] = 1 + Cardinality({d \in Sets' : set'[d].layout = p})
    BY <1>1 DEF Inv, Counts, Live
  <2> QED BY <1>2, <2>1, <2>2 DEF Counts
<1>4. WrapperType' /\ ViewsLive' /\ SetsLive' /\ Blank'
  BY <1>1 DEF Inv, WrapperType, ViewsLive, SetsLive, Blank
<1> QED
  BY <1>3, <1>4 DEF Inv

LEMMA PoolsOpenAndClose ==
  ASSUME Inv, instance = "device", instance' = instance, MakePool \/ EndPool
  PROVE  Inv'
<1>1. /\ front' = front /\ UNCHANGED <<wrappers, buffer, stranded>>
      /\ Buffers' = Buffers
  BY DEF MakePool, EndPool, Buffers
<1>2. /\ IsFiniteSet(pools) /\ IsFiniteSet(Buffers) /\ child \in Int
      /\ Cardinality(pools) \in Nat /\ Cardinality(Buffers) \in Nat
  <2>1. child = Cardinality(front.live) + Beside
    BY DEF Inv, Counts
  <2> QED BY <2>1, AllFinite DEF Inv
<1>3. PassesAreInside' /\ \A c \in CommandBuffer : c \in Buffers' \/ buffer'[c] = NoRecording
  BY <1>1 DEF Inv, PassesAreInside, Blank
<1>4. CASE MakePool
  <2>1. PICK p \in CommandPool \ pools : pools' = pools \cup {p} /\ child' = child + 1
    BY <1>4 DEF MakePool
  <2>2. IsFiniteSet(pools') /\ Cardinality(pools') = Cardinality(pools) + 1
    BY <1>2, <2>1, FS_AddElement
  <2>3. RecorderType' /\ BuffersLive'
    BY <1>1, <2>1 DEF Inv, RecorderType, BuffersLive
  <2>4. /\ child' \in Int /\ Cardinality(Buffers') = Cardinality(Buffers)
        /\ child' - child = Cardinality(pools') + Cardinality(Buffers')
                             - Cardinality(pools) - Cardinality(Buffers)
    BY <1>1, <1>2, <2>1, <2>2
  <2> QED BY <1>1, <1>2, <1>3, <2>2, <2>3, <2>4, PoolsMove
<1>5. CASE EndPool
  <2>1. PICK p \in pools : Members(p) = {} /\ pools' = pools \ {p} /\ child' = child - 1
    BY <1>5 DEF EndPool
  <2>2. IsFiniteSet(pools') /\ Cardinality(pools') = Cardinality(pools) - 1
    BY <1>2, <2>1, FS_RemoveElement
  <2>3. \A c \in Buffers : buffer[c].pool # p
    BY <2>1 DEF Members, Buffers
  <2>4. RecorderType' /\ BuffersLive'
    BY <1>1, <2>1, <2>3 DEF Inv, RecorderType, BuffersLive
  <2>5. /\ child' \in Int /\ Cardinality(Buffers') = Cardinality(Buffers)
        /\ child' - child = Cardinality(pools') + Cardinality(Buffers')
                             - Cardinality(pools) - Cardinality(Buffers)
    BY <1>1, <1>2, <2>1, <2>2
  <2> QED BY <1>1, <1>2, <1>3, <2>2, <2>4, <2>5, PoolsMove
<1> QED
  BY <1>4, <1>5

LEMMA BufferAllocated ==
  ASSUME Inv, instance = "device", instance' = instance, AllocateBuffer
  PROVE  Inv'
<1>1. PICK p \in pools, c \in CommandBuffer \ Buffers :
        buffer' = [buffer EXCEPT ![c] = [NoRecording EXCEPT !.pool = p]]
  BY DEF AllocateBuffer
<1>2. child' = child + 1 /\ front' = front /\ UNCHANGED <<wrappers, pools, stranded>>
  BY DEF AllocateBuffer, Keeps
<1>3. PICK b : b = [NoRecording EXCEPT !.pool = p]
  OBVIOUS
<1>4. b.pool = p /\ b.inside = Nothing /\ p \in CommandPool /\ p # Nothing /\ b \in BufferRecord
  <2>1. p \in CommandPool /\ p # Nothing
    BY CommandsAssumption DEF Inv, RecorderType
  <2>2. PICK none \in Seq(Entry) : none = <<>>
    BY EmptySeq
  <2>3. b = [pool |-> p, list |-> none, recording |-> FALSE, executable |-> FALSE,
             inside |-> Nothing, compute |-> Nothing, set |-> Nothing]
    BY <1>3, <2>2 DEF NoRecording
  <2>4. p \in CommandPool \cup {Nothing}
    BY <2>1
  <2>5. b \in BufferRecord
    BY <2>3, <2>4 DEF BufferRecord
  <2> QED BY <2>1, <2>3, <2>5
<1>5. /\ buffer[c] = NoRecording /\ buffer[c].pool = Nothing /\ buffer[c].inside = Nothing
      /\ buffer \in [CommandBuffer -> BufferRecord]
  BY DEF Inv, Blank, NoRecording, RecorderType
<1>6. /\ buffer' \in [CommandBuffer -> BufferRecord]
      /\ \A d \in CommandBuffer : buffer'[d] = IF d = c THEN b ELSE buffer[d]
  BY <1>3, <1>1, <1>4, <1>5
<1>7. /\ IsFiniteSet(pools) /\ IsFiniteSet(Buffers) /\ child \in Int
      /\ Cardinality(pools) \in Nat /\ Cardinality(Buffers) \in Nat
  <2>1. child = Cardinality(front.live) + Beside
    BY DEF Inv, Counts
  <2> QED BY <2>1, AllFinite DEF Inv
<1>8. Buffers' = Buffers \cup {c}
  BY <1>4, <1>6 DEF Buffers
<1>9. IsFiniteSet(Buffers') /\ Cardinality(Buffers') = Cardinality(Buffers) + 1
  BY <1>1, <1>7, <1>8, FS_AddElement
<1>10. RecorderType' /\ BuffersLive' /\ \A d \in CommandBuffer : d \in Buffers' \/ buffer'[d] = NoRecording
  <2>1. pools' = pools /\ stranded' = stranded /\ front'.live = front.live
    BY <1>2
  <2>2. RecorderType'
    BY <1>6, <2>1 DEF Inv, RecorderType
  <2>3. BuffersLive'
    <3>1. \A d \in Buffers : buffer[d].pool \in pools /\ buffer[d].inside \in front.live \cup {Nothing}
      BY DEF Inv, BuffersLive
    <3>2. \A d \in Buffers' : d \in CommandBuffer /\ (d = c \/ d \in Buffers)
      BY <1>8 DEF Buffers
    <3>3. \A d \in Buffers' : buffer'[d].pool \in pools /\ buffer'[d].inside \in front.live \cup {Nothing}
      BY <1>1, <1>4, <1>6, <3>1, <3>2
    <3> QED BY <2>1, <3>3 DEF BuffersLive
  <2>4. \A d \in CommandBuffer : d \in Buffers' \/ buffer'[d] = NoRecording
    BY <1>6, <1>8 DEF Inv, Blank
  <2> QED BY <2>2, <2>3, <2>4
<1>11. \A d \in CommandBuffer : buffer'[d].inside = buffer[d].inside
  BY <1>4, <1>5, <1>6
<1>12. PassesAreInside'
  <2>1. {buffer'[d].inside : d \in CommandBuffer} = {buffer[d].inside : d \in CommandBuffer}
    BY <1>11
  <2>2. \A d \in CommandBuffer : buffer'[d].inside # Nothing => buffer'[d].recording
    BY <1>4, <1>6 DEF Inv, PassesAreInside
  <2> QED BY <1>2, <1>11, <2>1, <2>2 DEF Inv, PassesAreInside
<1>13. /\ child' \in Int /\ IsFiniteSet(pools')
       /\ child' - child = Cardinality(pools') + Cardinality(Buffers')
                            - Cardinality(pools) - Cardinality(Buffers)
  BY <1>2, <1>7, <1>9
<1> QED
  BY <1>2, <1>9, <1>10, <1>12, <1>13, PoolsMove

\* A pass the command buffer was inside of is stranded: begun, and left by all.
LEMMA BufferFreed ==
  ASSUME Inv, instance = "device", instance' = instance, FreeBuffer
  PROVE  Inv'
<1>1. PICK c \in Buffers : /\ buffer' = [buffer EXCEPT ![c] = NoRecording]
                           /\ stranded' = stranded \cup ({buffer[c].inside} \ {Nothing})
  BY DEF FreeBuffer
<1>2. child' = child - 1 /\ front' = front /\ UNCHANGED <<wrappers, pools>>
  BY DEF FreeBuffer
<1>3. NoRecording \in BufferRecord /\ NoRecording.pool = Nothing /\ NoRecording.inside = Nothing
  <2>1. PICK none \in Seq(Entry) : none = <<>>
    BY EmptySeq
  <2>2. NoRecording = [pool |-> Nothing, list |-> none, recording |-> FALSE, executable |-> FALSE,
                       inside |-> Nothing, compute |-> Nothing, set |-> Nothing]
    BY <2>1 DEF NoRecording
  <2> QED BY <2>2 DEF BufferRecord
<1>4. /\ buffer' \in [CommandBuffer -> BufferRecord]
      /\ \A d \in CommandBuffer : buffer'[d] = IF d = c THEN NoRecording ELSE buffer[d]
  BY <1>1, <1>3 DEF Inv, RecorderType
<1>5. /\ IsFiniteSet(pools) /\ IsFiniteSet(Buffers) /\ child \in Int
      /\ Cardinality(pools) \in Nat /\ Cardinality(Buffers) \in Nat
  <2>1. child = Cardinality(front.live) + Beside
    BY DEF Inv, Counts
  <2> QED BY <2>1, AllFinite DEF Inv
<1>6. Buffers' = Buffers \ {c}
  BY <1>3, <1>4 DEF Buffers
<1>7. IsFiniteSet(Buffers') /\ Cardinality(Buffers') = Cardinality(Buffers) - 1
  BY <1>5, <1>6, FS_RemoveElement
<1>8. /\ c \in CommandBuffer /\ buffer[c].inside \in Pass \cup {Nothing} /\ Nothing \notin Pass
  BY BufferIs, KindsApart, KindsAre DEF BufferRecord
<1>9. RecorderType' /\ BuffersLive' /\ \A d \in CommandBuffer : d \in Buffers' \/ buffer'[d] = NoRecording
  <2>1. RecorderType'
    BY <1>1, <1>2, <1>4, <1>8 DEF Inv, RecorderType
  <2>2. BuffersLive'
    <3>1. \A d \in Buffers : buffer[d].pool \in pools /\ buffer[d].inside \in front.live \cup {Nothing}
      BY DEF Inv, BuffersLive
    <3>2. \A d \in Buffers' : d \in Buffers /\ d \in CommandBuffer /\ d # c
      BY <1>6 DEF Buffers
    <3>3. \A d \in Buffers' : buffer'[d] = buffer[d]
      BY <1>4, <3>2
    <3>4. pools' = pools /\ front'.live = front.live
      BY <1>2
    <3> QED BY <3>1, <3>2, <3>3, <3>4 DEF BuffersLive
  <2>3. \A d \in CommandBuffer : d \in Buffers' \/ buffer'[d] = NoRecording
    BY <1>4, <1>6 DEF Inv, Blank
  <2> QED BY <2>1, <2>2, <2>3
<1>10. PassesAreInside'
  <2>1. \A d \in CommandBuffer : buffer'[d].inside = IF d = c THEN Nothing ELSE buffer[d].inside
    BY <1>3, <1>4
  <2>2. \A r \in Pass : front'.pass[r].begun <=> r \in stranded' \cup {buffer'[d].inside : d \in CommandBuffer}
    <3>1. \A r \in Pass : front.pass[r].begun <=> r \in stranded \cup {buffer[d].inside : d \in CommandBuffer}
      BY DEF Inv, PassesAreInside
    <3>2. \A r \in Pass : r \in stranded' \cup {buffer'[d].inside : d \in CommandBuffer}
                          <=> r \in stranded \cup {buffer[d].inside : d \in CommandBuffer}
      BY <1>1, <1>8, <2>1
    <3> QED BY <1>2, <3>1, <3>2
  <2>3. \A d, e \in CommandBuffer : buffer'[d].inside = buffer'[e].inside /\ d # e => buffer'[d].inside = Nothing
    BY <2>1 DEF Inv, PassesAreInside
  <2>4. \A d \in CommandBuffer : buffer'[d].inside # Nothing =>
          buffer'[d].recording /\ buffer'[d].inside \notin stranded'
    BY <1>1, <1>4, <1>8, <2>1 DEF Inv, PassesAreInside
  <2> QED BY <2>2, <2>3, <2>4 DEF PassesAreInside
<1>11. /\ child' \in Int /\ IsFiniteSet(pools') /\ UNCHANGED wrappers
       /\ child' - child = Cardinality(pools') + Cardinality(Buffers')
                            - Cardinality(pools) - Cardinality(Buffers)
  BY <1>2, <1>5, <1>7
<1> QED
  BY <1>2, <1>7, <1>9, <1>10, <1>11, PoolsMove

-----------------------------------------------------------------------------
(* Views and descriptor sets.                                              *)

\* View x shows v from now on, be it an image or nothing.
LEMMA ViewMoves ==
  ASSUME Inv, instance = "device", instance' = instance, front' = front,
         UNCHANGED <<set, described, recorders>>,
         NEW x \in View, NEW v \in Image \cup {Nothing}, view' = [view EXCEPT ![x] = v],
         viewCount' \in [Image -> Int],
         \A i \in Image : viewCount'[i] = viewCount[i] + One(v = i) - One(view[x] = i),
         child' = child + One(v # Nothing) - One(view[x] # Nothing),
         v # Nothing => v \in front.live /\ front.state[v] # "gone",
         v = Nothing => \A d \in Sets : set[d].view # x
  PROVE  Inv'
<1>1. /\ view \in [View -> Image \cup {Nothing}] /\ view' \in [View -> Image \cup {Nothing}]
      /\ \A y \in View : view'[y] = IF y = x THEN v ELSE view[y]
  BY DEF Inv, WrapperType
<1>2. /\ Sets' = Sets /\ Buffers' = Buffers /\ \A y : Describers(y)' = Describers(y)
      /\ set' = set /\ described' = described /\ pools' = pools /\ buffer' = buffer /\ stranded' = stranded
  BY DEF recorders, Sets, Buffers, Describers
<1>3. /\ \A y : y # x => (y \in Views <=> y \in Views')
      /\ x \in Views <=> view[x] # Nothing
      /\ x \in Views' <=> v # Nothing
  BY <1>1 DEF Views
<1>4. /\ IsFiniteSet(Views') /\ Cardinality(Views) \in Nat /\ Cardinality(Views') \in Nat
      /\ Cardinality(Views') = Cardinality(Views) + One(v # Nothing) - One(view[x] # Nothing)
  BY <1>3, AllFinite, OneMember DEF Inv, One
<1>5. Counts'
  <2>1. child' = Cardinality(front'.live) + Beside'
    <3>1. /\ child = Cardinality(front.live) + Beside
          /\ Cardinality(front.live) \in Nat /\ Cardinality(Sets) \in Nat
          /\ Cardinality(pools) \in Nat /\ Cardinality(Buffers) \in Nat
      BY AllFinite DEF Inv, Counts
    <3>2. /\ Cardinality(Sets') = Cardinality(Sets) /\ Cardinality(pools') = Cardinality(pools)
          /\ Cardinality(Buffers') = Cardinality(Buffers)
      BY <1>2
    <3>3. One(v # Nothing) \in Int /\ One(view[x] # Nothing) \in Int
      BY DEF One
    <3> QED BY <1>4, <3>1, <3>2, <3>3 DEF Beside
  <2>2. ASSUME NEW i \in Image
        PROVE  viewCount'[i] = Cardinality({y \in Views' : view'[y] = i})
    <3> DEFINE T == {y \in Views : view[y] = i}
               U == {y \in Views' : view'[y] = i}
    <3>1. i # Nothing
      BY KindsApart, KindsAre
    <3>2. /\ \A y : y # x => (y \in T <=> y \in U)
          /\ x \in T <=> view[x] = i
          /\ x \in U <=> v = i
      BY <1>1, <1>3, <3>1 DEF Views
    <3>3. IsFiniteSet(T)
      BY AllFinite, FS_Subset DEF Inv
    <3>4. viewCount[i] = Cardinality(T)
      BY DEF Inv, Counts
    <3> HIDE DEF T, U
    <3>5. Cardinality(T) \in Nat /\ Cardinality(U) = Cardinality(T) + One(v = i) - One(view[x] = i)
      BY <3>2, <3>3, OneMember DEF One
    <3>6. viewCount'[i] = Cardinality(U)
      BY <3>4, <3>5
    <3> QED BY <3>6 DEF U
  <2>3. /\ \A y \in Buffer \cup View \cup Sampler : described'[y] = Cardinality(Describers(y)')
        /\ \A p \in Live("pipeline")' : front'.layoutRefs[p] = 1 + Cardinality({d \in Sets' : set'[d].layout = p})
    BY <1>2 DEF Inv, Counts, Live
  <2> QED BY <2>1, <2>2, <2>3 DEF Counts
<1>6. ViewsLive'
  <2>1. \A y \in Views' : view'[y] \in front.live /\ front.state[view'[y]] # "gone"
    BY <1>1, <1>3 DEF Inv, ViewsLive, Views
  <2> QED BY <2>1 DEF ViewsLive
<1>7. SetsLive'
  <2>1. \A d \in Sets : set[d].view \in Views' \cup {Nothing}
    BY <1>3 DEF Inv, SetsLive
  <2>2. front'.live = front.live
    OBVIOUS
  <2> QED BY <1>2, <2>1, <2>2 DEF Inv, SetsLive
<1>8. WrapperType' /\ RecorderType' /\ BuffersLive' /\ Blank' /\ PassesAreInside'
  BY <1>1, <1>2 DEF Inv, WrapperType, RecorderType, BuffersLive, Blank, PassesAreInside
<1> QED
  BY <1>5, <1>6, <1>7, <1>8 DEF Inv

LEMMA ViewsOpenAndClose ==
  ASSUME Inv, instance = "device", instance' = instance, MakeView \/ EndView
  PROVE  Inv'
<1>1. /\ viewCount \in [Image -> Int] /\ view \in [View -> Image \cup {Nothing}]
      /\ Nothing \notin Image /\ child \in Int
  <2>1. child = Cardinality(front.live) + Beside
    BY DEF Inv, Counts
  <2> QED BY <2>1, AllFinite, KindsApart, KindsAre DEF Inv, WrapperType
<1>2. CASE MakeView
  <2>1. PICK x \in View \ Views, i \in Live("image") :
          /\ front.state[i] # "gone"
          /\ view' = [view EXCEPT ![x] = i] /\ viewCount' = [viewCount EXCEPT ![i] = @ + 1]
    BY <1>2 DEF MakeView
  <2>2. child' = child + 1 /\ front' = front /\ UNCHANGED <<set, described, recorders>>
    BY <1>2 DEF MakeView
  <2>3. i \in Image /\ i \in front.live /\ i # Nothing /\ view[x] = Nothing
    BY <1>1, <2>1, LiveIs DEF Views
  <2>4. /\ viewCount' \in [Image -> Int]
        /\ \A j \in Image : viewCount'[j] = viewCount[j] + One(i = j) - One(view[x] = j)
    BY <1>1, <2>1, <2>3 DEF One
  <2>5. child' = child + One(i # Nothing) - One(view[x] # Nothing)
    BY <1>1, <2>2, <2>3 DEF One
  <2>6. x \in View /\ i \in Image \cup {Nothing}
    BY <2>3
  <2> QED BY ZenonT(60), <2>1, <2>2, <2>3, <2>4, <2>5, <2>6, ViewMoves
<1>3. CASE EndView
  <2>1. PICK x \in Views :
          /\ described[x] = 0
          /\ view' = [view EXCEPT ![x] = Nothing]
          /\ viewCount' = [viewCount EXCEPT ![view[x]] = @ - 1]
    BY <1>3 DEF EndView
  <2>2. child' = child - 1 /\ front' = front /\ UNCHANGED <<set, described, recorders>>
    BY <1>3 DEF EndView
  <2>3. x \in View /\ view[x] \in Image /\ view[x] # Nothing
    BY <1>1, <2>1 DEF Views
  <2>4. /\ viewCount' \in [Image -> Int]
        /\ \A j \in Image : viewCount'[j] = viewCount[j] + One(Nothing = j) - One(view[x] = j)
    BY <1>1, <2>1, <2>3 DEF One
  <2>5. child' = child + One(Nothing # Nothing) - One(view[x] # Nothing)
    BY <1>1, <2>2, <2>3 DEF One
  <2>6. \A d \in Sets : set[d].view # x
    <3>1. x # Nothing
      BY <2>3, CommandsAssumption
    <3> QED BY <2>1, <3>1, NamedStay
  <2>7. PICK v \in Image \cup {Nothing} : v = Nothing
    OBVIOUS
  <2>8. /\ view' = [view EXCEPT ![x] = v]
        /\ \A j \in Image : viewCount'[j] = viewCount[j] + One(v = j) - One(view[x] = j)
        /\ child' = child + One(v # Nothing) - One(view[x] # Nothing)
    BY <2>1, <2>4, <2>5, <2>7
  <2> QED BY <2>2, <2>3, <2>4, <2>6, <2>7, <2>8, ViewMoves
<1> QED
  BY <1>2, <1>3

\* Whether set s describes x.
Names(s, x) == One(x \in {s.buffer, s.view, s.sampler})

LEMMA DescribedApart ==
  /\ Buffer \cap View = {} /\ Buffer \cap Sampler = {} /\ View \cap Sampler = {}
  /\ Nothing \notin Buffer \cup View \cup Sampler /\ Nothing \notin Pipeline
  BY CommandsAssumption, KindsApart, KindsAre

LEMMA NamesApart ==
  ASSUME NEW s \in SetRecord, NEW x \in Buffer \cup View \cup Sampler
  PROVE  Names(s, x) = One(s.buffer = x) + One(s.view = x) + One(s.sampler = x)
  BY DescribedApart DEF Names, One, SetRecord

\* Set d becomes s, whose names are there, and the layouts that sets keep follow.
LEMMA SetMoves ==
  ASSUME Inv, instance = "device", instance' = instance, UNCHANGED <<view, viewCount, recorders>>,
         NEW d \in Set, NEW s \in SetRecord, set' = [set EXCEPT ![d] = s],
         s.there \/ s = NoSet,
         described' \in [Buffer \cup View \cup Sampler -> Int],
         \A x \in Buffer \cup View \cup Sampler :
           described'[x] = described[x] + Names(s, x) - Names(set[d], x),
         child' = child + One(s.there) - One(set[d].there),
         {s.buffer, s.sampler, s.layout} \subseteq front.live \cup {Nothing},
         s.view \in Views \cup {Nothing},
         FrontInv(front'), front'.live = front.live,
         \A r \in Pass : front'.pass[r].begun = front.pass[r].begun,
         \A i \in Image : front'.state[i] = "gone" => front.state[i] = "gone",
         \A p \in Pipeline \cap front.live :
           front'.layoutRefs[p] = front.layoutRefs[p] + One(s.layout = p) - One(set[d].layout = p)
  PROVE  Inv'
<1>1. /\ set \in [Set -> SetRecord] /\ set' \in [Set -> SetRecord]
      /\ \A e \in Set : set'[e] = IF e = d THEN s ELSE set[e]
  BY DEF Inv, WrapperType
<1>2. /\ Views' = Views /\ Buffers' = Buffers /\ view' = view /\ viewCount' = viewCount
      /\ pools' = pools /\ buffer' = buffer /\ stranded' = stranded
  BY DEF recorders, Views, Buffers
<1>3. /\ \A e : e # d => (e \in Sets <=> e \in Sets')
      /\ d \in Sets <=> set[d].there
      /\ d \in Sets' <=> s.there
  BY <1>1 DEF Sets
<1>4. /\ IsFiniteSet(Sets') /\ IsFiniteSet(Sets)
      /\ Cardinality(Sets) \in Nat /\ Cardinality(Sets') \in Nat
      /\ Cardinality(Sets') = Cardinality(Sets) + One(s.there) - One(set[d].there)
  BY <1>3, AllFinite, OneMember DEF Inv, One
<1>5. set[d].there \/ set[d] = NoSet
  BY DEF Inv, Blank, Sets
<1>6. Counts'
  <2>1. child' = Cardinality(front'.live) + Beside'
    <3>1. /\ child = Cardinality(front.live) + Beside
          /\ Cardinality(front.live) \in Nat /\ Cardinality(Views) \in Nat
          /\ Cardinality(pools) \in Nat /\ Cardinality(Buffers) \in Nat
      BY AllFinite DEF Inv, Counts
    <3>2. /\ Cardinality(Views') = Cardinality(Views) /\ Cardinality(pools') = Cardinality(pools)
          /\ Cardinality(Buffers') = Cardinality(Buffers)
      BY <1>2
    <3>3. One(s.there) \in Int /\ One(set[d].there) \in Int
      BY DEF One
    <3> QED BY <1>4, <3>1, <3>2, <3>3 DEF Beside
  <2>2. \A i \in Image : viewCount'[i] = Cardinality({x \in Views' : view'[x] = i})
    BY <1>2 DEF Inv, Counts
  <2>3. ASSUME NEW x \in Buffer \cup View \cup Sampler
        PROVE  described'[x] = Cardinality(Describers(x)')
    <3> DEFINE T == Describers(x)
               U == {e \in Sets' : x \in {set'[e].buffer, set'[e].view, set'[e].sampler}}
    <3>1. x # Nothing
      BY DescribedApart
    <3>2. /\ x \in {set[d].buffer, set[d].view, set[d].sampler} => set[d].there
          /\ x \in {s.buffer, s.view, s.sampler} => s.there
      BY <1>5, <3>1 DEF NoSet
    <3>3. /\ \A e : e # d => (e \in T <=> e \in U)
          /\ d \in T <=> x \in {set[d].buffer, set[d].view, set[d].sampler}
          /\ d \in U <=> x \in {s.buffer, s.view, s.sampler}
      BY <1>1, <1>3, <3>2 DEF Describers, Sets
    <3>4. IsFiniteSet(T)
      BY <1>4, FS_Subset DEF Describers
    <3>5. described[x] = Cardinality(T)
      BY DEF Inv, Counts
    <3>6. U = Describers(x)'
      BY DEF Describers
    <3> HIDE DEF T, U
    <3>7. Cardinality(T) \in Nat /\ Cardinality(U) = Cardinality(T) + Names(s, x) - Names(set[d], x)
      BY <3>3, <3>4, OneMember DEF Names, One
    <3>8. described'[x] = Cardinality(U)
      BY <3>5, <3>7
    <3> QED BY <3>8, <3>6
  <2>4. ASSUME NEW p \in Live("pipeline")'
        PROVE  front'.layoutRefs[p] = 1 + Cardinality({e \in Sets' : set'[e].layout = p})
    <3> DEFINE T == {e \in Sets : set[e].layout = p}
               U == {e \in Sets' : set'[e].layout = p}
    <3>1. p \in Pipeline /\ p \in front.live /\ p \in Live("pipeline")
      BY <2>4, KindIs DEF Live
    <3>2. p # Nothing
      BY <3>1, DescribedApart
    <3>3. /\ set[d].layout = p => set[d].there
          /\ s.layout = p => s.there
      BY <1>5, <3>2 DEF NoSet
    <3>4. /\ \A e : e # d => (e \in T <=> e \in U)
          /\ d \in T <=> set[d].layout = p
          /\ d \in U <=> s.layout = p
      BY <1>1, <1>3, <3>3 DEF Sets
    <3>5. IsFiniteSet(T)
      BY <1>4, FS_Subset
    <3>6. front.layoutRefs[p] = 1 + Cardinality(T)
      BY <3>1 DEF Inv, Counts
    <3> HIDE DEF T, U
    <3>7. Cardinality(T) \in Nat /\ Cardinality(U) = Cardinality(T) + One(s.layout = p) - One(set[d].layout = p)
      BY <3>4, <3>5, OneMember DEF One
    <3>8. One(s.layout = p) \in Int /\ One(set[d].layout = p) \in Int /\ Cardinality(U) \in Int
      BY <3>7 DEF One
    <3>9. front'.layoutRefs[p] = 1 + Cardinality(U)
      BY <3>1, <3>6, <3>7, <3>8
    <3> QED BY <3>9 DEF U
  <2> QED BY <2>1, <2>2, <2>3, <2>4 DEF Counts
<1>7. ViewsLive'
  <2>1. \A x \in Views : view[x] \in Image
    BY DEF Inv, WrapperType, Views
  <2> QED BY <1>2, <2>1 DEF Inv, ViewsLive
<1>8. SetsLive'
  <2>1. \A e \in Sets' : e \in Set /\ (e = d \/ e \in Sets)
    BY <1>3 DEF Sets
  <2>2. \A e \in Sets' : /\ {set'[e].buffer, set'[e].sampler, set'[e].layout} \subseteq front.live \cup {Nothing}
                         /\ set'[e].view \in Views \cup {Nothing}
    BY <1>1, <2>1 DEF Inv, SetsLive
  <2> QED BY <1>2, <2>2 DEF SetsLive
<1>9. BuffersLive' /\ PassesAreInside'
  BY <1>2 DEF Inv, BuffersLive, PassesAreInside
<1>10. Blank'
  <2>1. \A e \in Set : e \in Sets' \/ set'[e] = NoSet
    BY <1>1, <1>3 DEF Inv, Blank
  <2> QED BY <1>2, <2>1 DEF Inv, Blank
<1>11. WrapperType' /\ RecorderType'
  BY <1>1, <1>2 DEF Inv, WrapperType, RecorderType
<1> QED
  BY <1>6, <1>7, <1>8, <1>9, <1>10, <1>11 DEF Inv

\* A step of the sets that leaves the front end alone.
LEMMA SetMovesAlone ==
  ASSUME Inv, instance = "device", instance' = instance, UNCHANGED <<front, child, view, viewCount, recorders>>,
         NEW d \in Sets, NEW s \in SetRecord, set' = [set EXCEPT ![d] = s],
         s.there, s.layout = set[d].layout,
         described' \in [Buffer \cup View \cup Sampler -> Int],
         \A x \in Buffer \cup View \cup Sampler :
           described'[x] = described[x] + Names(s, x) - Names(set[d], x),
         {s.buffer, s.sampler} \subseteq front.live \cup {Nothing},
         s.view \in Views \cup {Nothing}
  PROVE  Inv'
<1>1. d \in Set /\ set[d].there
  BY DEF Sets
<1>2. child' = child + One(s.there) - One(set[d].there)
  <2>1. child = Cardinality(front.live) + Beside
    BY DEF Inv, Counts
  <2>2. child \in Int
    BY <2>1, AllFinite DEF Inv
  <2> QED BY <1>1, <2>2 DEF One
<1>3. s.layout \in front.live \cup {Nothing}
  BY DEF Inv, SetsLive
<1>4. \A p \in Pipeline \cap front.live :
        front'.layoutRefs[p] = front.layoutRefs[p] + One(s.layout = p) - One(set[d].layout = p)
  <2>1. \A p \in Pipeline : front.layoutRefs[p] \in Int
    BY DEF Inv, FrontInv, FrontType
  <2> QED BY <2>1 DEF One
<1>5. /\ FrontInv(front') /\ front'.live = front.live
      /\ \A r \in Pass : front'.pass[r].begun = front.pass[r].begun
      /\ \A i \in Image : front'.state[i] = "gone" => front.state[i] = "gone"
  BY DEF Inv
<1>6. {s.buffer, s.sampler, s.layout} \subseteq front.live \cup {Nothing}
  BY <1>3
<1> QED
  BY <1>1, <1>2, <1>4, <1>5, <1>6, SetMoves

\* A set that names x in place of y.
LEMMA Renamed ==
  ASSUME Inv, NEW a \in SetRecord, NEW b \in SetRecord, NEW x, NEW y,
         \/ b.buffer = x /\ a.buffer = y /\ b.view = a.view /\ b.sampler = a.sampler
         \/ b.view = x /\ a.view = y /\ b.buffer = a.buffer /\ b.sampler = a.sampler
         \/ b.sampler = x /\ a.sampler = y /\ b.buffer = a.buffer /\ b.view = a.view,
         described' = IF y = x THEN described ELSE Counting(Counting(described, y, -1), x, 1)
  PROVE  /\ described' \in [Buffer \cup View \cup Sampler -> Int]
         /\ \A z \in Buffer \cup View \cup Sampler :
              described'[z] = described[z] + Names(b, z) - Names(a, z)
<1>1. described \in [Buffer \cup View \cup Sampler -> Int]
  BY DEF Inv, WrapperType
<1>2. \A q : One(q) \in Int
  BY DEF One
<1>3. \A z : Names(a, z) \in Int /\ Names(b, z) \in Int
  BY DEF Names, One
<1>4. \A z \in Buffer \cup View \cup Sampler : Names(b, z) - Names(a, z) = One(x = z) - One(y = z)
  <2> TAKE z \in Buffer \cup View \cup Sampler
  <2>1. /\ Names(a, z) = One(a.buffer = z) + One(a.view = z) + One(a.sampler = z)
        /\ Names(b, z) = One(b.buffer = z) + One(b.view = z) + One(b.sampler = z)
    BY NamesApart
  <2> QED BY <1>2, <2>1
<1>5. CASE y = x
  <2>1. \A z \in Buffer \cup View \cup Sampler : described[z] \in Int
    BY <1>1
  <2> QED BY <1>1, <1>2, <1>3, <1>5, <1>4, <2>1
<1>6. CASE y # x
  <2>1. PICK X : X = Buffer \cup View \cup Sampler
    OBVIOUS
  <2>2. described \in [X -> Int]
    BY <1>1, <2>1
  <2>3. /\ described' \in [X -> Int]
        /\ \A z \in X : described'[z] = described[z] + One(x = z) - One(y = z)
    BY <1>6, <2>2, Recount
  <2>4. \A z \in X : described[z] \in Int
    BY <2>2
  <2> QED BY <1>2, <1>3, <1>4, <2>1, <2>3, <2>4
<1> QED
  BY <1>5, <1>6

LEMMA SetFields ==
  ASSUME Inv, NEW d \in Sets
  PROVE  /\ d \in Set /\ set \in [Set -> SetRecord] /\ set[d] \in SetRecord /\ set[d].there
         /\ DOMAIN set[d] = {"there", "buffer", "ranged", "view", "sampler", "layout"}
         /\ {set[d].buffer, set[d].sampler, set[d].layout} \subseteq front.live \cup {Nothing}
         /\ set[d].view \in Views \cup {Nothing}
         /\ set[d].buffer \in Buffer \cup {Nothing} /\ set[d].view \in View \cup {Nothing}
         /\ set[d].sampler \in Sampler \cup {Nothing} /\ set[d].layout \in Pipeline \cup {Nothing}
  BY DEF Inv, WrapperType, Sets, SetRecord, SetsLive

LEMMA SetsDescribe ==
  ASSUME Inv, instance = "device", instance' = instance, UpdateBuffer \/ UpdateImage \/ UpdateSampler
  PROVE  Inv'
<1>1. /\ UNCHANGED <<front, child, view, viewCount, recorders>>
  BY DEF UpdateBuffer, UpdateImage, UpdateSampler
<1>2. \A q : One(q) \in Int
  BY DEF One
<1>3. CASE UpdateBuffer
  <2>1. PICK d \in Sets, x \in Live("buffer") :
          /\ \E ranged \in BOOLEAN : set' = [set EXCEPT ![d] = [set[d] EXCEPT !.buffer = x, !.ranged = ranged]]
          /\ described' = IF set[d].buffer = x THEN described
                          ELSE Counting(Counting(described, set[d].buffer, -1), x, 1)
    <3>1. PICK d \in Sets, x \in Live("buffer") :
            /\ \/ set' = [set EXCEPT ![d].buffer = x, ![d].ranged = @ /\ set[d].buffer = x]
               \/ set' = [[set EXCEPT ![d].buffer = x, ![d].ranged = @ /\ set[d].buffer = x]
                            EXCEPT ![d].ranged = TRUE]
            /\ described' = IF set[d].buffer = x THEN described
                            ELSE Counting(Counting(described, set[d].buffer, -1), x, 1)
      BY <1>3 DEF UpdateBuffer
    <3>2. PICK kept \in BOOLEAN : kept = (set[d].ranged /\ set[d].buffer = x)
      OBVIOUS
    <3>3. CASE set' = [set EXCEPT ![d].buffer = x, ![d].ranged = @ /\ set[d].buffer = x]
      <4>1. set' = [set EXCEPT ![d] = [set[d] EXCEPT !.buffer = x, !.ranged = kept]]
        BY <3>2, <3>3, SetFields
      <4> QED BY <3>1, <4>1
    <3>4. CASE set' = [[set EXCEPT ![d].buffer = x, ![d].ranged = @ /\ set[d].buffer = x]
                         EXCEPT ![d].ranged = TRUE]
      <4>1. PICK sure \in BOOLEAN : sure = TRUE
        OBVIOUS
      <4>2. set' = [set EXCEPT ![d] = [set[d] EXCEPT !.buffer = x, !.ranged = sure]]
        BY <3>4, <4>1, SetFields
      <4> QED BY <3>1, <4>2
    <3> QED BY <3>1, <3>3, <3>4
  <2>2. PICK ranged \in BOOLEAN : set' = [set EXCEPT ![d] = [set[d] EXCEPT !.buffer = x, !.ranged = ranged]]
    BY <2>1
  <2>3. x \in Buffer /\ x \in front.live
    BY <2>1, LiveIs
  <2>4. PICK s : s = [set[d] EXCEPT !.buffer = x, !.ranged = ranged]
    OBVIOUS
  <2>5. /\ s \in SetRecord /\ s.there /\ s.buffer = x /\ s.view = set[d].view
        /\ s.sampler = set[d].sampler /\ s.layout = set[d].layout
    BY <2>3, <2>4, SetFields DEF SetRecord
  <2>6. PICK y : y = set[d].buffer
    OBVIOUS
  <2>7. PICK a : a = set[d]
    OBVIOUS
  <2>8. a \in SetRecord /\ a.buffer = y
    BY <2>6, <2>7, SetFields
  <2>9. described' = IF y = x THEN described ELSE Counting(Counting(described, y, -1), x, 1)
    BY <2>1, <2>6
  <2>10. \/ s.buffer = x /\ a.buffer = y /\ s.view = a.view /\ s.sampler = a.sampler
         \/ s.view = x /\ a.view = y /\ s.buffer = a.buffer /\ s.sampler = a.sampler
         \/ s.sampler = x /\ a.sampler = y /\ s.buffer = a.buffer /\ s.view = a.view
    BY <2>5, <2>7, <2>8
  <2>11. /\ described' \in [Buffer \cup View \cup Sampler -> Int]
         /\ \A z \in Buffer \cup View \cup Sampler :
              described'[z] = described[z] + Names(s, z) - Names(a, z)
    BY <2>5, <2>10, <2>8, <2>9, Renamed
  <2>12. \A z \in Buffer \cup View \cup Sampler :
           described'[z] = described[z] + Names(s, z) - Names(set[d], z)
    BY <2>11, <2>7
  <2>13. /\ {s.buffer, s.sampler} \subseteq front.live \cup {Nothing}
         /\ s.view \in Views \cup {Nothing}
    BY <2>1, <2>3, <2>5, SetFields
  <2> QED BY <1>1, <2>2, <2>4, <2>5, <2>11, <2>12, <2>13, SetMovesAlone
<1>4. CASE UpdateImage
  <2>1. PICK d \in Sets, x \in Views :
          /\ set' = [set EXCEPT ![d]["view"] = x]
          /\ described' = IF set[d]["view"] = x THEN described
                          ELSE Counting(Counting(described, set[d]["view"], -1), x, 1)
    BY <1>4 DEF UpdateImage, Describes
  <2>2. x \in View
    BY DEF Views
  <2>3. PICK s : s = [set[d] EXCEPT !.view = x]
    OBVIOUS
  <2>4. set' = [set EXCEPT ![d] = s]
    BY <2>1, <2>3, SetFields
  <2>5. /\ s \in SetRecord /\ s.there /\ s.buffer = set[d].buffer /\ s.view = x
        /\ s.sampler = set[d].sampler /\ s.layout = set[d].layout
    BY <2>2, <2>3, SetFields DEF SetRecord
  <2>6. PICK y : y = set[d].view
    OBVIOUS
  <2>7. PICK a : a = set[d]
    OBVIOUS
  <2>8. a \in SetRecord /\ a.view = y
    BY <2>6, <2>7, SetFields
  <2>9. described' = IF y = x THEN described ELSE Counting(Counting(described, y, -1), x, 1)
    BY <2>1, <2>6
  <2>10. \/ s.buffer = x /\ a.buffer = y /\ s.view = a.view /\ s.sampler = a.sampler
         \/ s.view = x /\ a.view = y /\ s.buffer = a.buffer /\ s.sampler = a.sampler
         \/ s.sampler = x /\ a.sampler = y /\ s.buffer = a.buffer /\ s.view = a.view
    BY <2>5, <2>7, <2>8
  <2>11. /\ described' \in [Buffer \cup View \cup Sampler -> Int]
         /\ \A z \in Buffer \cup View \cup Sampler :
              described'[z] = described[z] + Names(s, z) - Names(a, z)
    BY ZenonT(60), <2>5, <2>10, <2>8, <2>9, Renamed
  <2>12. \A z \in Buffer \cup View \cup Sampler :
           described'[z] = described[z] + Names(s, z) - Names(set[d], z)
    BY <2>11, <2>7
  <2>13. /\ {s.buffer, s.sampler} \subseteq front.live \cup {Nothing}
         /\ s.view \in Views \cup {Nothing}
    BY <2>1, <2>2, <2>5, SetFields
  <2> QED BY <1>1, <2>4, <2>5, <2>11, <2>12, <2>13, SetMovesAlone
<1>5. CASE UpdateSampler
  <2>1. PICK d \in Sets, x \in Live("sampler") :
          /\ set' = [set EXCEPT ![d]["sampler"] = x]
          /\ described' = IF set[d]["sampler"] = x THEN described
                          ELSE Counting(Counting(described, set[d]["sampler"], -1), x, 1)
    BY <1>5 DEF UpdateSampler, Describes
  <2>2. x \in Sampler /\ x \in front.live
    BY LiveIs
  <2>3. PICK s : s = [set[d] EXCEPT !.sampler = x]
    OBVIOUS
  <2>4. set' = [set EXCEPT ![d] = s]
    BY <2>1, <2>3, SetFields
  <2>5. /\ s \in SetRecord /\ s.there /\ s.buffer = set[d].buffer /\ s.view = set[d].view
        /\ s.sampler = x /\ s.layout = set[d].layout
    BY <2>2, <2>3, SetFields DEF SetRecord
  <2>6. PICK y : y = set[d].sampler
    OBVIOUS
  <2>7. PICK a : a = set[d]
    OBVIOUS
  <2>8. a \in SetRecord /\ a.sampler = y
    BY <2>6, <2>7, SetFields
  <2>9. described' = IF y = x THEN described ELSE Counting(Counting(described, y, -1), x, 1)
    BY <2>1, <2>6
  <2>10. \/ s.buffer = x /\ a.buffer = y /\ s.view = a.view /\ s.sampler = a.sampler
         \/ s.view = x /\ a.view = y /\ s.buffer = a.buffer /\ s.sampler = a.sampler
         \/ s.sampler = x /\ a.sampler = y /\ s.buffer = a.buffer /\ s.view = a.view
    BY <2>5, <2>7, <2>8
  <2>11. /\ described' \in [Buffer \cup View \cup Sampler -> Int]
         /\ \A z \in Buffer \cup View \cup Sampler :
              described'[z] = described[z] + Names(s, z) - Names(a, z)
    BY ZenonT(60), <2>5, <2>10, <2>8, <2>9, Renamed
  <2>12. \A z \in Buffer \cup View \cup Sampler :
           described'[z] = described[z] + Names(s, z) - Names(set[d], z)
    BY <2>11, <2>7
  <2>13. /\ {s.buffer, s.sampler} \subseteq front.live \cup {Nothing}
         /\ s.view \in Views \cup {Nothing}
    BY <2>1, <2>2, <2>5, SetFields
  <2> QED BY <1>1, <2>4, <2>5, <2>11, <2>12, <2>13, SetMovesAlone
<1> QED
  BY <1>3, <1>4, <1>5

\* Nothing is described: a set that is not there, or that is new.
LEMMA NamesNone ==
  ASSUME NEW s, s.buffer = Nothing, s.view = Nothing, s.sampler = Nothing,
         NEW x \in Buffer \cup View \cup Sampler
  PROVE  Names(s, x) = 0
  BY DescribedApart DEF Names, One

\* What the layout references of the front end come to, and nothing else.
LEMMA LayoutMoves ==
  ASSUME Inv, NEW p \in Pipeline, NEW n \in Int, NEW r,
         r.now = [front EXCEPT !.layoutRefs[p] = @ + n], Call(r)
  PROVE  /\ FrontInv(front') /\ front'.live = front.live
         /\ \A s \in Pass : front'.pass[s].begun = front.pass[s].begun
         /\ \A i \in Image : front'.state[i] = "gone" => front.state[i] = "gone"
         /\ \A q \in Pipeline \cap front.live :
              front'.layoutRefs[q] = front.layoutRefs[q] + (IF q = p THEN n ELSE 0)
         /\ Steady
<1>1. /\ FrontInv(r.now) /\ r.now.live = front.live /\ r.now.value = front.value /\ r.now.pass = front.pass
      /\ r.now.state = front.state /\ r.now.layoutRefs = [front.layoutRefs EXCEPT ![p] = @ + n]
  BY LayoutInv DEF Inv
<1>2. front.layoutRefs \in [Pipeline -> Int]
  BY DEF Inv, FrontInv, FrontType
<1>3. \A q \in Pipeline : r.now.layoutRefs[q] = front.layoutRefs[q] + (IF q = p THEN n ELSE 0)
  BY <1>1, <1>2
<1>4. Leaves(r.now, front')
  BY <1>1, CallLeaves
<1> QED
  BY <1>1, <1>3, <1>4 DEF Leaves, Outside, Steady

LEMMA SetMade ==
  ASSUME Inv, instance = "device", instance' = instance, MakeSet
  PROVE  Inv' /\ Steady
<1>1. PICK d \in Set \ Sets, p \in Live("pipeline") \cup {Nothing} :
        /\ set' = [set EXCEPT ![d] = [NoSet EXCEPT !.there = TRUE, !.layout = p]]
        /\ IF p = Nothing THEN UNCHANGED front ELSE Call(RetainLayout(front, p))
  BY DEF MakeSet
<1>2. child' = child + 1 /\ UNCHANGED <<view, viewCount, recorders>> /\ described' = described
  BY DEF MakeSet
<1>3. PICK s : s = [NoSet EXCEPT !.there = TRUE, !.layout = p]
  OBVIOUS
<1>4. p \in Pipeline \cup {Nothing} /\ p \in front.live \cup {Nothing}
  BY <1>1, LiveIs
<1>5. /\ s \in SetRecord /\ s.there /\ s.buffer = Nothing /\ s.view = Nothing
      /\ s.sampler = Nothing /\ s.layout = p
  BY <1>3, <1>4 DEF SetRecord, NoSet
<1>6. set' = [set EXCEPT ![d] = s]
  BY <1>1, <1>3
<1>7. /\ set[d] = NoSet /\ ~set[d].there /\ set[d].buffer = Nothing /\ set[d].view = Nothing
      /\ set[d].sampler = Nothing /\ set[d].layout = Nothing
  <2>1. set[d] = NoSet
    BY DEF Inv, Blank
  <2> QED BY <2>1 DEF NoSet
<1>8. /\ described' \in [Buffer \cup View \cup Sampler -> Int]
      /\ \A x \in Buffer \cup View \cup Sampler : described'[x] = described[x] + Names(s, x) - Names(set[d], x)
  <2>1. described \in [Buffer \cup View \cup Sampler -> Int]
    BY DEF Inv, WrapperType
  <2>2. \A x \in Buffer \cup View \cup Sampler : Names(s, x) = 0 /\ Names(set[d], x) = 0
    BY <1>5, <1>7, NamesNone
  <2>3. \A x \in Buffer \cup View \cup Sampler : described[x] \in Int
    BY <2>1
  <2> QED BY <1>2, <2>1, <2>2, <2>3
<1>9. child' = child + One(s.there) - One(set[d].there)
  <2>1. child = Cardinality(front.live) + Beside
    BY DEF Inv, Counts
  <2>2. child \in Int
    BY <2>1, AllFinite DEF Inv
  <2> QED BY <1>2, <1>5, <1>7, <2>2 DEF One
<1>10. /\ FrontInv(front') /\ front'.live = front.live
       /\ \A r \in Pass : front'.pass[r].begun = front.pass[r].begun
       /\ \A i \in Image : front'.state[i] = "gone" => front.state[i] = "gone"
       /\ \A q \in Pipeline \cap front.live :
            front'.layoutRefs[q] = front.layoutRefs[q] + One(s.layout = q) - One(set[d].layout = q)
       /\ Steady
  <2>1. \A q \in Pipeline : front.layoutRefs[q] \in Int /\ q # Nothing
    BY DescribedApart DEF Inv, FrontInv, FrontType
  <2>2. CASE p = Nothing
    <3>1. front' = front
      BY <1>1, <2>2
    <3> QED BY <1>5, <1>7, <2>1, <2>2, <3>1 DEF Inv, One, Steady
  <2>3. CASE p # Nothing
    <3>1. p \in Pipeline
      BY <1>4, <2>3
    <3>2. PICK r : r = RetainLayout(front, p)
      OBVIOUS
    <3>3. r.now = [front EXCEPT !.layoutRefs[p] = @ + 1] /\ Call(r)
      BY <1>1, <2>3, <3>2 DEF RetainLayout, Done
    <3>4. PICK n \in Int : n = 1
      OBVIOUS
    <3>5. r.now = [front EXCEPT !.layoutRefs[p] = @ + n]
      BY <3>3, <3>4
    <3>6. /\ FrontInv(front') /\ front'.live = front.live
          /\ \A t \in Pass : front'.pass[t].begun = front.pass[t].begun
          /\ \A i \in Image : front'.state[i] = "gone" => front.state[i] = "gone"
          /\ \A q \in Pipeline \cap front.live :
               front'.layoutRefs[q] = front.layoutRefs[q] + (IF q = p THEN n ELSE 0)
          /\ Steady
      BY <3>1, <3>3, <3>5, LayoutMoves
    <3>7. \A q \in Pipeline \cap front.live :
            front'.layoutRefs[q] = front.layoutRefs[q] + One(s.layout = q) - One(set[d].layout = q)
      BY <1>5, <1>7, <2>1, <3>4, <3>6 DEF One
    <3> QED BY <3>6, <3>7
  <2> QED BY <2>2, <2>3
<1>11. /\ {s.buffer, s.sampler, s.layout} \subseteq front.live \cup {Nothing}
       /\ s.view \in Views \cup {Nothing}
  BY <1>4, <1>5
<1> QED
  BY <1>2, <1>5, <1>6, <1>8, <1>9, <1>10, <1>11, SetMoves

\* One count fewer each for the names of a set that goes.
LEMMA NamesDropped ==
  ASSUME NEW S, NEW c \in [S -> Int], NEW x, NEW y, NEW z
  PROVE  LET e == Counting(Counting(Counting(c, x, -1), y, -1), z, -1)
         IN  /\ e \in [S -> Int]
             /\ \A i \in S : e[i] = c[i] - One(x = i) - One(y = i) - One(z = i)
<1>1. /\ \A b : One(b) \in Int
      /\ \A i \in S : c[i] \in Int
  BY DEF One
<1>2. PICK d : d = Counting(c, x, -1)
  OBVIOUS
<1>3. d \in [S -> Int] /\ \A i \in S : d[i] = c[i] - One(x = i)
  BY <1>2 DEF Counting, One
<1>4. PICK g : g = Counting(d, y, -1)
  OBVIOUS
<1>5. g \in [S -> Int] /\ \A i \in S : g[i] = d[i] - One(y = i)
  BY <1>3, <1>4 DEF Counting, One
<1>6. PICK e : e = Counting(g, z, -1)
  OBVIOUS
<1>7. e \in [S -> Int] /\ \A i \in S : e[i] = g[i] - One(z = i)
  BY <1>5, <1>6 DEF Counting, One
<1>8. \A i \in S : e[i] = c[i] - One(x = i) - One(y = i) - One(z = i)
  BY <1>1, <1>3, <1>5, <1>7
<1> QED
  BY <1>2, <1>4, <1>6, <1>7, <1>8

LEMMA SetEnded ==
  ASSUME Inv, instance = "device", instance' = instance, EndSet
  PROVE  Inv' /\ Steady
<1>1. PICK d \in Sets :
        /\ set' = [set EXCEPT ![d] = NoSet]
        /\ described' = Counting(Counting(Counting(described, set[d].buffer, -1),
                                          set[d].view, -1), set[d].sampler, -1)
        /\ IF set[d].layout = Nothing THEN UNCHANGED front ELSE Call(ReleaseLayout(front, set[d].layout))
  BY DEF EndSet
<1>2. child' = child - 1 /\ UNCHANGED <<view, viewCount, recorders>>
  BY DEF EndSet
<1>3. PICK a : a = set[d]
  OBVIOUS
<1>4. /\ d \in Set /\ a \in SetRecord /\ a.there /\ a.layout \in Pipeline \cup {Nothing}
  BY <1>3, SetFields
<1>5. PICK s : s = NoSet
  OBVIOUS
<1>6. /\ s \in SetRecord /\ ~s.there /\ s.buffer = Nothing /\ s.view = Nothing
      /\ s.sampler = Nothing /\ s.layout = Nothing
  BY <1>5 DEF NoSet, SetRecord
<1>7. /\ described' \in [Buffer \cup View \cup Sampler -> Int]
      /\ \A x \in Buffer \cup View \cup Sampler : described'[x] = described[x] + Names(s, x) - Names(set[d], x)
  <2>1. described \in [Buffer \cup View \cup Sampler -> Int]
    BY DEF Inv, WrapperType
  <2>2. /\ described' \in [Buffer \cup View \cup Sampler -> Int]
        /\ \A x \in Buffer \cup View \cup Sampler :
             described'[x] = described[x] - One(a.buffer = x) - One(a.view = x) - One(a.sampler = x)
    BY <1>1, <1>3, <2>1, NamesDropped
  <2>3. \A x \in Buffer \cup View \cup Sampler :
          /\ Names(s, x) = 0
          /\ Names(a, x) = One(a.buffer = x) + One(a.view = x) + One(a.sampler = x)
    BY <1>4, <1>6, NamesNone, NamesApart
  <2>4. /\ \A x \in Buffer \cup View \cup Sampler : described[x] \in Int
        /\ \A b : One(b) \in Int
    BY <2>1 DEF One
  <2>5. \A x \in Buffer \cup View \cup Sampler : described'[x] = described[x] + Names(s, x) - Names(a, x)
    BY <2>2, <2>3, <2>4
  <2> QED BY <1>3, <2>2, <2>5
<1>8. child' = child + One(s.there) - One(set[d].there)
  <2>1. child = Cardinality(front.live) + Beside
    BY DEF Inv, Counts
  <2>2. child \in Int
    BY <2>1, AllFinite DEF Inv
  <2> QED BY <1>2, <1>3, <1>4, <1>6, <2>2 DEF One
<1>9. /\ FrontInv(front') /\ front'.live = front.live
      /\ \A r \in Pass : front'.pass[r].begun = front.pass[r].begun
      /\ \A i \in Image : front'.state[i] = "gone" => front.state[i] = "gone"
      /\ \A q \in Pipeline \cap front.live :
           front'.layoutRefs[q] = front.layoutRefs[q] + One(s.layout = q) - One(set[d].layout = q)
      /\ Steady
  <2>1. \A q \in Pipeline : front.layoutRefs[q] \in Int /\ q # Nothing
    BY DescribedApart DEF Inv, FrontInv, FrontType
  <2>2. CASE a.layout = Nothing
    <3>1. front' = front
      BY <1>1, <1>3, <2>2
    <3> QED BY <1>3, <1>6, <2>1, <2>2, <3>1 DEF Inv, One, Steady
  <2>3. CASE a.layout # Nothing
    <3>1. PICK p \in Pipeline : p = a.layout
      BY <1>4, <2>3
    <3>2. PICK r : r = ReleaseLayout(front, p)
      OBVIOUS
    <3>3. PICK n \in Int : n = -1
      OBVIOUS
    <3>4. Call(r)
      BY <1>1, <1>3, <2>3, <3>1, <3>2
    <3>5. r.now = [front EXCEPT !.layoutRefs[p] = @ + n]
      <4>1. r.now = [front EXCEPT !.layoutRefs[p] = @ - 1]
        BY <3>2 DEF ReleaseLayout, Done
      <4>2. front.layoutRefs[p] - 1 = front.layoutRefs[p] + n
        BY <2>1, <3>3
      <4> QED BY <4>1, <4>2
    <3>6. /\ FrontInv(front') /\ front'.live = front.live
          /\ \A t \in Pass : front'.pass[t].begun = front.pass[t].begun
          /\ \A i \in Image : front'.state[i] = "gone" => front.state[i] = "gone"
          /\ \A q \in Pipeline \cap front.live :
               front'.layoutRefs[q] = front.layoutRefs[q] + (IF q = p THEN n ELSE 0)
          /\ Steady
      BY <3>4, <3>5, LayoutMoves
    <3>7. \A q \in Pipeline \cap front.live :
            front'.layoutRefs[q] = front.layoutRefs[q] + One(s.layout = q) - One(set[d].layout = q)
      BY <1>3, <1>6, <2>1, <3>1, <3>3, <3>6 DEF One
    <3> QED BY <3>6, <3>7
  <2> QED BY <2>2, <2>3
<1>10. /\ {s.buffer, s.sampler, s.layout} \subseteq front.live \cup {Nothing}
       /\ s.view \in Views \cup {Nothing} /\ (s.there \/ s = NoSet)
       /\ set' = [set EXCEPT ![d] = s]
  BY <1>1, <1>5, <1>6
<1> QED
  BY <1>2, <1>4, <1>6, <1>7, <1>8, <1>9, <1>10, SetMoves

-----------------------------------------------------------------------------
(* The steps of the device, and those of the instance.                     *)

LEMMA NothingMoves ==
  ASSUME Inv, UNCHANGED <<front, child, wrappers, recorders>>, instance' # "device" => child = 0
  PROVE  Inv' /\ Steady
<1>1. /\ front' = front /\ child' = child /\ view' = view /\ viewCount' = viewCount
      /\ set' = set /\ described' = described /\ pools' = pools /\ buffer' = buffer /\ stranded' = stranded
      /\ Views' = Views /\ Sets' = Sets /\ Buffers' = Buffers /\ \A x : Describers(x)' = Describers(x)
  BY DEF wrappers, recorders, Views, Sets, Buffers, Describers
<1>2. Beside' = Beside
  BY <1>1 DEF Beside
<1>3. Counts'
  <2>1. Live("pipeline")' = Live("pipeline")
    BY <1>1 DEF Live
  <2> QED BY <1>1, <1>2, <2>1 DEF Inv, Counts
<1>4. WrapperType' /\ RecorderType' /\ FrontInv(front') /\ ViewsLive' /\ SetsLive' /\ BuffersLive' /\ Blank'
  BY <1>1 DEF Inv, WrapperType, RecorderType, ViewsLive, SetsLive, BuffersLive, Blank
<1>5. PassesAreInside'
  BY <1>1 DEF Inv, PassesAreInside
<1> QED
  BY <1>1, <1>3, <1>4, <1>5 DEF Inv, Steady

\* The device without wrappers, recorders and children, and its new front end.
LEMMA DeviceMade ==
  ASSUME NEW n, NEW w, front' = Opened(n, w), child' = 0,
         WrapperType', RecorderType', Views' = {}, Sets' = {}, pools' = {}, Buffers' = {},
         stranded' = {}, \A i \in Image : viewCount'[i] = 0,
         \A x \in Buffer \cup View \cup Sampler : described'[x] = 0,
         \A d \in Set : set'[d] = NoSet, \A c \in CommandBuffer : buffer'[c] = NoRecording
  PROVE  Inv'
<1>1. FrontInv(front') /\ front'.live = {} /\ \A r \in Pass : front'.pass[r] = NoPass
  BY OpenedInv
<1>2. Counts'
  <2>1. child' = Cardinality(front'.live) + Beside'
    <3>1. Cardinality({}) = 0
      BY FS_EmptySet
    <3> QED BY <1>1, <3>1 DEF Beside
  <2>2. ASSUME NEW i \in Image PROVE viewCount'[i] = Cardinality({x \in Views' : view'[x] = i})
    <3>1. {x \in Views' : view'[x] = i} = {}
      OBVIOUS
    <3> QED BY <3>1, FS_EmptySet
  <2>3. ASSUME NEW x \in Buffer \cup View \cup Sampler PROVE described'[x] = Cardinality(Describers(x)')
    <3>1. Describers(x)' = {}
      BY DEF Describers
    <3> QED BY <3>1, FS_EmptySet
  <2>4. Live("pipeline")' = {}
    BY <1>1 DEF Live
  <2> QED BY <2>1, <2>2, <2>3, <2>4 DEF Counts
<1>3. ViewsLive' /\ SetsLive' /\ BuffersLive' /\ Blank'
  BY DEF ViewsLive, SetsLive, BuffersLive, Blank
<1>4. PassesAreInside'
  <2>1. \A r \in Pass : ~front'.pass[r].begun
    BY <1>1 DEF NoPass
  <2>2. \A c \in CommandBuffer : buffer'[c].inside = Nothing
    BY DEF NoRecording
  <2>3. Nothing \notin Pass
    BY KindsApart, KindsAre
  <2> QED BY <2>1, <2>2, <2>3 DEF PassesAreInside
<1> QED
  BY <1>1, <1>2, <1>3, <1>4 DEF Inv

LEMMA InitInv == Init => Inv
<1> SUFFICES ASSUME Init PROVE Inv
  OBVIOUS
<1>1. FrontInv(front) /\ front.live = {} /\ \A r \in Pass : front.pass[r] = NoPass
  BY OpenedInv DEF Init
<1>2. Views = {} /\ Sets = {} /\ pools = {} /\ Buffers = {}
  BY DEF Init, Views, Sets, Buffers, NoSet, NoRecording
<1>3. WrapperType /\ RecorderType
  <2>1. NoSet \in SetRecord
    BY DEF NoSet, SetRecord
  <2>2. NoRecording \in BufferRecord
    <3>1. PICK none \in Seq(Entry) : none = <<>>
      BY EmptySeq
    <3>2. NoRecording = [pool |-> Nothing, list |-> none, recording |-> FALSE, executable |-> FALSE,
                         inside |-> Nothing, compute |-> Nothing, set |-> Nothing]
      BY <3>1 DEF NoRecording
    <3> QED BY <3>2 DEF BufferRecord
  <2> QED BY <2>1, <2>2 DEF Init, WrapperType, RecorderType
<1>4. Counts
  <2>1. child = Cardinality(front.live) + Beside
    <3>1. Cardinality({}) = 0
      BY FS_EmptySet
    <3> QED BY <1>1, <1>2, <3>1 DEF Beside, Init
  <2>2. ASSUME NEW i \in Image PROVE viewCount[i] = Cardinality({x \in Views : view[x] = i})
    <3>1. {x \in Views : view[x] = i} = {}
      BY <1>2
    <3> QED BY <3>1, FS_EmptySet DEF Init
  <2>3. ASSUME NEW x \in Buffer \cup View \cup Sampler PROVE described[x] = Cardinality(Describers(x))
    <3>1. Describers(x) = {}
      BY <1>2 DEF Describers
    <3> QED BY <3>1, FS_EmptySet DEF Init
  <2>4. Live("pipeline") = {}
    BY <1>1 DEF Live
  <2> QED BY <2>1, <2>2, <2>3, <2>4 DEF Counts
<1>5. ViewsLive /\ SetsLive /\ BuffersLive /\ Blank
  BY <1>2 DEF ViewsLive, SetsLive, BuffersLive, Blank, Init
<1>6. PassesAreInside
  <2>1. \A r \in Pass : ~front.pass[r].begun
    BY <1>1 DEF NoPass
  <2>2. \A c \in CommandBuffer : buffer[c].inside = Nothing
    BY DEF NoRecording, Init
  <2>3. Nothing \notin Pass
    BY KindsApart, KindsAre
  <2> QED BY <2>1, <2>2, <2>3 DEF PassesAreInside, Init
<1> QED
  BY <1>1, <1>3, <1>4, <1>5, <1>6 DEF Inv, Init

\* Without a child nothing is there, and nothing is stranded.
LEMMA ChildlessIsBare ==
  ASSUME Inv, child = 0
  PROVE  /\ front.live = {} /\ Views = {} /\ Sets = {} /\ pools = {} /\ Buffers = {} /\ stranded = {}
<1>1. /\ front.live = {} /\ Views = {} /\ Sets = {} /\ pools = {} /\ Buffers = {}
  <2>1. /\ IsFiniteSet(front.live) /\ IsFiniteSet(Views) /\ IsFiniteSet(Sets)
        /\ IsFiniteSet(pools) /\ IsFiniteSet(Buffers)
        /\ Cardinality(front.live) \in Nat
        /\ Cardinality(Views) \in Nat /\ Cardinality(Sets) \in Nat
        /\ Cardinality(pools) \in Nat /\ Cardinality(Buffers) \in Nat
    BY AllFinite DEF Inv
  <2>2. child = Cardinality(front.live) + Beside
    BY DEF Inv, Counts
  <2>3. /\ Cardinality(front.live) = 0 /\ Cardinality(Views) = 0 /\ Cardinality(Sets) = 0
        /\ Cardinality(pools) = 0 /\ Cardinality(Buffers) = 0
    BY <2>1, <2>2 DEF Beside
  <2> QED BY <2>1, <2>3, FS_EmptySet
<1>2. \A r \in Pass : front.pass[r] = NoPass
  BY <1>1 DEF Inv, FrontInv, PassesHold
<1>3. \A r \in Pass : ~front.pass[r].begun
  BY <1>2 DEF NoPass
<1>4. stranded = {}
  BY <1>3 DEF Inv, PassesAreInside, RecorderType
<1> QED
  BY <1>1, <1>4

LEMMA DeviceCreated ==
  ASSUME Inv, DeviceCreate
  PROVE  Inv' /\ Steady
<1>1. PICK n \in Left : front' = Opened(n, front.writes)
  BY DEF DeviceCreate
<1>2. /\ child = 0 /\ child' = 0 /\ view' = view /\ viewCount' = viewCount /\ set' = set
      /\ described' = described /\ pools' = pools /\ buffer' = buffer /\ stranded' = stranded
  BY DEF DeviceCreate, Inv, wrappers, recorders
<1>3. /\ front.live = {} /\ Views = {} /\ Sets = {} /\ pools = {} /\ Buffers = {} /\ stranded = {}
  BY <1>2, ChildlessIsBare
<1>4. /\ Views' = {} /\ Sets' = {} /\ pools' = {} /\ Buffers' = {} /\ stranded' = {}
  BY <1>2, <1>3 DEF Views, Sets, Buffers
<1>5. /\ \A d \in Set : set'[d] = NoSet
      /\ \A c \in CommandBuffer : buffer'[c] = NoRecording
  BY <1>2, <1>3 DEF Inv, Blank
<1>6. \A i \in Image : viewCount'[i] = 0
  <2> TAKE i \in Image
  <2>1. {x \in Views : view[x] = i} = {}
    BY <1>3
  <2>2. viewCount[i] = Cardinality({x \in Views : view[x] = i})
    BY DEF Inv, Counts
  <2> QED BY <1>2, <2>1, <2>2, FS_EmptySet
<1>7. \A x \in Buffer \cup View \cup Sampler : described'[x] = 0
  <2> TAKE x \in Buffer \cup View \cup Sampler
  <2>1. Describers(x) = {}
    BY <1>3 DEF Describers
  <2>2. described[x] = Cardinality(Describers(x))
    BY DEF Inv, Counts
  <2> QED BY <1>2, <2>1, <2>2, FS_EmptySet
<1>8. WrapperType' /\ RecorderType'
  BY <1>2 DEF Inv, WrapperType, RecorderType
<1>9. Inv'
  BY <1>1, <1>2, <1>4, <1>5, <1>6, <1>7, <1>8, DeviceMade
<1> QED
  BY <1>3, <1>9 DEF Steady

\* A step that signals nothing, or one that may.
LEMMA DeviceSteps ==
  ASSUME Inv, instance = "device", instance' = instance, OnDevice
  PROVE  Inv' /\ (Steady \/ QueueSubmit \/ QueueSubmitWait \/ SignalFence)
<1>1. ASSUME \/ AllocateMemory \/ FreeMemory \/ MakeBuffer \/ EndBuffer \/ MakeImage \/ EndImage
             \/ BindBufferMemory \/ BindImageMemory \/ MakeSampler \/ EndSampler
      PROVE  Inv' /\ Steady
  BY <1>1, MemoriesOpenAndClose, BuffersOpenAndClose, ImagesOpenAndClose, BindsMemory, SamplersOpenAndClose
<1>2. ASSUME \/ MakeGraphicsPipeline \/ MakeComputePipeline \/ EndPipeline \/ PipelineSampler
             \/ MakePass \/ EndRenderPass \/ PassDepth \/ MakeQueries \/ EndQueries
             \/ MakeFence \/ EndFence \/ MakeSemaphore \/ EndSemaphore
      PROVE  Inv' /\ Steady
  BY <1>2, PipelinesOpenAndClose, PassesOpenAndClose, PassesAndPipelinesStay, QueriesOpenAndClose,
     TimelinesOpenAndClose
<1>3. ASSUME MakeView \/ EndView \/ UpdateBuffer \/ UpdateImage \/ UpdateSampler
      PROVE  Inv' /\ Steady
  <2>1. front' = front
    BY <1>3 DEF MakeView, EndView, UpdateBuffer, UpdateImage, UpdateSampler
  <2> QED BY <1>3, <2>1, ViewsOpenAndClose, SetsDescribe DEF Steady
<1>4. ASSUME MakeSet \/ EndSet PROVE Inv' /\ Steady
  BY <1>4, SetMade, SetEnded
<1>5. ASSUME \/ MakePool \/ EndPool \/ ResetPool \/ AllocateBuffer \/ FreeBuffer
             \/ Begin \/ Record \/ BindCompute \/ CmdDispatch \/ CmdClear \/ End
      PROVE  Inv' /\ Steady
  <2>1. front' = front
    BY <1>5 DEF MakePool, EndPool, ResetPool, AllocateBuffer, FreeBuffer, Begin, Record, BindCompute,
                CmdDispatch, CmdClear, End
  <2> QED BY <1>5, <2>1, PoolsOpenAndClose, BufferAllocated, BufferFreed, RecordKeeps, RecorderKeeps
          DEF Steady
<1>6. ASSUME CmdBeginRenderPass \/ CmdInside \/ CmdQuery \/ CmdEndRenderPass
      PROVE  Inv' /\ Steady
  BY <1>6, PassBegins, InsideStays, PassEnds
<1>7. ASSUME CmdDraw PROVE Inv' /\ Steady
  <2>1. UNCHANGED <<front, child, wrappers, recorders>>
    BY <1>7 DEF CmdDraw, Keeps, wrappers, recorders
  <2> QED BY <2>1, NothingMoves
<1>8. ASSUME QueueSubmit \/ QueueSubmitWait \/ SignalFence PROVE Inv'
  BY <1>8, Submits
<1> QED
  BY <1>1, <1>2, <1>3, <1>4, <1>5, <1>6, <1>7, <1>8 DEF OnDevice

LEMMA NextKeeps ==
  ASSUME Inv, [Next]_vars
  PROVE  Inv' /\ (Steady \/ (OnDevice /\ (QueueSubmit \/ QueueSubmitWait \/ SignalFence)))
<1>1. CASE DeviceCreate
  BY <1>1, DeviceCreated
<1>2. CASE InstanceCreate \/ DeviceDestroy \/ InstanceDestroy \/ UNCHANGED vars
  <2>1. UNCHANGED <<front, child, wrappers, recorders>>
    BY <1>2 DEF InstanceCreate, DeviceDestroy, InstanceDestroy, vars
  <2>2. instance' # "device" => child = 0
    BY <1>2 DEF Inv, InstanceCreate, DeviceDestroy, InstanceDestroy, vars
  <2> QED BY <2>1, <2>2, NothingMoves
<1>3. CASE instance = "device" /\ OnDevice /\ UNCHANGED instance
  BY <1>3, DeviceSteps
<1> QED
  BY <1>1, <1>2, <1>3 DEF Next

\* The counts, the names and the passes hold together, whatever the application does.
LEMMA DeviceIsSound == Spec => []Inv
<1>1. Inv /\ [Next]_vars => Inv'
  BY NextKeeps
<1> QED
  BY <1>1, InitInv, PTL DEF Spec

-----------------------------------------------------------------------------
(* The properties.                                                         *)

\* Every count of the device is the number of objects it stands for, on error
\* paths too, and without children the front end can be destroyed.
THEOREM CountsAreRight == Spec => []ChildrenAreCounted
<1>1. Inv => ChildrenAreCounted
  <2> SUFFICES ASSUME Inv PROVE ChildrenAreCounted
    OBVIOUS
  <2>1. child = Cardinality(front.live) + Cardinality(Views) + Cardinality(Sets)
                 + Cardinality(pools) + Cardinality(Buffers)
    BY AllFinite DEF Inv, Counts, Beside
  <2>2. \A x \in DOMAIN described :
          described[x] = Cardinality({d \in Sets : x \in {set[d].buffer, set[d].view, set[d].sampler}})
    BY DEF Inv, WrapperType, Counts, Describers
  <2>3. child = 0 => MayClose(front)
    <3> SUFFICES ASSUME child = 0, NEW k \in Kind PROVE front.count[k] = 0
      BY DEF MayClose
    <3>1. front.live \cap Of(k) = {}
      BY ChildlessIsBare
    <3>2. front.count[k] = Cardinality(front.live \cap Of(k))
      BY DEF Inv, FrontInv, Counted
    <3> QED BY <3>1, <3>2, FS_EmptySet
  <2>4. Counted(front)
    BY DEF Inv, FrontInv
  <2> QED BY <2>1, <2>2, <2>3, <2>4 DEF Inv, Counts, ChildrenAreCounted
<1> QED
  BY <1>1, DeviceIsSound, PTL

\* No view, set, command buffer or object of the front end names an object that
\* is not there, though destruction goes by counts alone; nothing but its handle
\* is left of an image whose destruction went half way.
THEOREM NothingNamedIsGone == Spec => []WrappersAreLive
<1>1. Inv => WrappersAreLive
  <2> SUFFICES ASSUME Inv PROVE WrappersAreLive
    OBVIOUS
  <2>1. Sound(front)
    BY DEF Inv, FrontInv
  <2>2. \A x \in Views : view[x] \in Live("image")
    BY NamedStay, LiveIs
  <2>3. \A i \in Live("image") : front.state[i] = "gone" =>
          /\ i \notin {view[x] : x \in View}
          /\ \A r \in Pass : i \notin {front.pass[r].color, front.pass[r].depth}
          /\ \A p \in Pipeline : i \notin front.plan[p]
    <3> SUFFICES ASSUME NEW i \in Live("image"), front.state[i] = "gone"
                 PROVE  /\ i \notin {view[x] : x \in View}
                        /\ \A r \in Pass : i \notin {front.pass[r].color, front.pass[r].depth}
                        /\ \A p \in Pipeline : i \notin front.plan[p]
      OBVIOUS
    <3>1. i \in Image /\ i # Nothing
      BY LiveIs, KindsApart, KindsAre
    <3>2. \A x \in View : view[x] # i
      BY <3>1 DEF Inv, ViewsLive, Views
    <3> QED BY <3>1, <3>2 DEF Inv, FrontInv, HalfGone
  <2> QED BY <2>1, <2>2, <2>3 DEF Inv, SetsLive, BuffersLive, WrappersAreLive
<1> QED
  BY <1>1, DeviceIsSound, PTL

\* A pass is begun exactly while one command buffer records inside it, or for
\* ever when that command buffer was destroyed inside it.
THEOREM PassesHaveOneBuffer == Spec => []PassesAreInside
<1>1. Inv => PassesAreInside
  BY DEF Inv
<1> QED
  BY <1>1, DeviceIsSound, PTL

\* A timeline goes up by one, and only with a submission all of whose commands ran.
LEMMA SignalsAre ==
  ASSUME Inv, QueueSubmit \/ QueueSubmitWait, NEW t \in Timeline, t \in front.live,
         front'.value[t] # front.value[t]
  PROVE  /\ front'.value[t] = front.value[t] + 1
         /\ \E c \in CommandBuffer : /\ buffer[c].executable /\ ~buffer'[c].executable
                                     /\ Submission(front, buffer[c].list).ok
<1>1. PICK c \in Buffers, u \in (Timeline \cap front.live) \cup {Nothing} :
        LET ran == Submission(front, buffer[c].list)
        IN /\ buffer[c].executable
           /\ buffer' = [buffer EXCEPT ![c].executable = ~ran.ok]
           /\ Call(IF ran.ok THEN IF u = Nothing THEN Done(ran.now) ELSE Signal(ran.now, u) ELSE ran)
  BY SubmissionIs
<1>2. PICK ran : ran = Submission(front, buffer[c].list)
  OBVIOUS
<1>3. Leaves(front, ran.now)
  BY <1>2, SubmissionLeaves
<1>4. PICK r : r = IF ran.ok THEN IF u = Nothing THEN Done(ran.now) ELSE Signal(ran.now, u) ELSE ran
  OBVIOUS
<1>5. Call(r)
  BY <1>1, <1>2, <1>4
<1>6. /\ FrontInv(ran.now) /\ ran.now.live = front.live /\ ran.now.value[t] = front.value[t]
      /\ DOMAIN ran.now.value = Timeline
  BY <1>3 DEF Leaves, Outside, FrontInv, FrontType
<1>7. CASE ran.ok /\ u # Nothing
  <2>1. PICK s \in Timeline : s = u
    BY <1>7
  <2>2. r = Signal(ran.now, s)
    BY <1>4, <1>7, <2>1
  <2>3. /\ FrontInv(r.now) /\ r.now.live = front.live
        /\ r.now.value = [ran.now.value EXCEPT ![s] = @ + 1]
    BY <1>6, <2>2, SignalInv
  <2>4. Leaves(r.now, front')
    BY <1>5, <2>3, CallLeaves
  <2>5. front'.value[t] = r.now.value[t]
    BY <2>3, <2>4 DEF Leaves, Outside
  <2>6. s = t
    BY <1>6, <2>3, <2>5
  <2>7. front'.value[t] = front.value[t] + 1
    BY <1>6, <2>3, <2>5, <2>6
  <2>8. /\ c \in CommandBuffer /\ buffer[c].executable /\ ~buffer'[c].executable
        /\ Submission(front, buffer[c].list).ok
    BY <1>1, <1>2, <1>7, BufferIs
  <2> QED BY <2>7, <2>8
<1>8. CASE ~(ran.ok /\ u # Nothing)
  <2>1. r.now = ran.now
    BY <1>4, <1>8 DEF Done
  <2>2. Leaves(r.now, front')
    BY <1>5, <1>6, <2>1, CallLeaves
  <2>3. front'.value[t] = ran.now.value[t]
    BY <1>6, <2>1, <2>2 DEF Leaves, Outside
  <2> QED BY <1>6, <2>3
<1> QED
  BY <1>7, <1>8

\* Nobody who waits for a semaphore goes on before the work is done: a refused
\* submission signals nothing, and nothing but a submission signals.
THEOREM WorkComesFirst == Spec => SignalsFollowWork
<1>1. Inv /\ [Next]_vars =>
        [\A t \in front.live \cap front'.live \cap Semaphore :
           front'.value[t] # front.value[t] =>
             /\ front'.value[t] = front.value[t] + 1
             /\ \E c \in CommandBuffer : /\ buffer[c].executable /\ ~buffer'[c].executable
                                        /\ Submission(front, buffer[c].list).ok]_vars
  <2> SUFFICES ASSUME Inv, [Next]_vars, NEW t \in front.live \cap front'.live \cap Semaphore,
                      front'.value[t] # front.value[t]
               PROVE  /\ front'.value[t] = front.value[t] + 1
                      /\ \E c \in CommandBuffer : /\ buffer[c].executable /\ ~buffer'[c].executable
                                                 /\ Submission(front, buffer[c].list).ok
    OBVIOUS
  <2>1. t \in Timeline /\ t \notin Fence /\ Fence \subseteq Timeline
    BY CommandsAssumption
  <2>2. QueueSubmit \/ QueueSubmitWait \/ SignalFence
    BY <2>1, NextKeeps DEF Steady
  <2>3. ~SignalFence
    <3> SUFFICES ASSUME SignalFence PROVE FALSE
      OBVIOUS
    <3>1. PICK u \in Fence \cap front.live : Call(Signal(front, u))
      BY DEF SignalFence
    <3>2. PICK r : r = Signal(front, u)
      OBVIOUS
    <3>3. /\ FrontInv(r.now) /\ r.now.live = front.live
          /\ r.now.value = [front.value EXCEPT ![u] = @ + 1]
      BY <2>1, <3>2, SignalInv DEF Inv
    <3>4. r.now.value[t] = front.value[t]
      BY <2>1, <3>3 DEF Inv, FrontInv, FrontType
    <3>5. Leaves(r.now, front')
      BY <3>1, <3>2, <3>3, CallLeaves
    <3>6. front'.value[t] = r.now.value[t]
      BY <2>1, <3>3, <3>5 DEF Leaves, Outside
    <3> QED BY <3>4, <3>6
  <2> QED BY <2>1, <2>2, <2>3, SignalsAre
<1> QED
  BY <1>1, DeviceIsSound, PTL DEF Spec, SignalsFollowWork

-----------------------------------------------------------------------------
(* What the transfers find.                                                *)

\* Between two calls every dword holds its own name, the device can number
\* packets for ever, images are in states that they are allowed, and the copy
\* list is empty unless a submission was refused.
AtRest(f) == f.bytes = Own /\ f.writes = Plenty /\ Proper(f) /\ Settled(f)

\* A call that does not end this, whatever it does to the bytes.
Calm(f, g) ==
  /\ DOMAIN g = Fields /\ (Proper(f) => Proper(g)) /\ (Settled(f) => Settled(g))
  /\ f.writes = Plenty => g.writes = Plenty

LEMMA Untouched ==
  ASSUME NEW f, NEW g, DOMAIN g = Fields,
         g.state = f.state, g.revisions = f.revisions, g.writes = f.writes,
         g.sequences = f.sequences, g.listed = f.listed
  PROVE  Calm(f, g)
  BY DEF Calm, Settled, Proper

LEMMA ObjectsCalm ==
  ASSUME NEW f, DOMAIN f = Fields, NEW kind, NEW x
  PROVE  Calm(f, f) /\ Calm(f, Made(f, kind, x)) /\ Calm(f, Gone(f, kind, x))
<1>1. Calm(f, f)
  BY DEF Calm
<1>2. Calm(f, Made(f, kind, x))
  <2> DEFINE g == Made(f, kind, x)
  <2>1. DOMAIN g = Fields /\ g.state = f.state /\ g.revisions = f.revisions /\ g.writes = f.writes
        /\ g.sequences = f.sequences /\ g.listed = f.listed
    BY DEF Made, Fields
  <2> HIDE DEF g
  <2> QED BY <2>1, Untouched DEF g
<1>3. Calm(f, Gone(f, kind, x))
  <2> DEFINE g == Gone(f, kind, x)
  <2>1. DOMAIN g = Fields /\ g.state = f.state /\ g.revisions = f.revisions /\ g.writes = f.writes
        /\ g.sequences = f.sequences /\ g.listed = f.listed
    BY DEF Gone, Fields
  <2> HIDE DEF g
  <2> QED BY <2>1, Untouched DEF g
<1> QED
  BY <1>1, <1>2, <1>3

\* Objects that have no state of their own.
LEMMA MemoriesCalm ==
  ASSUME NEW f, DOMAIN f = Fields, NEW m, NEW o, NEW b, NEW home
  PROVE  /\ Calm(f, CreateMemory(f, m).now) /\ Calm(f, DestroyMemory(f, m).now)
         /\ Calm(f, BindMemory(f, o, m).now)
         /\ Calm(f, CreateBuffer(f, b, home).now) /\ Calm(f, CreateBufferInVain(f).now)
         /\ Calm(f, DestroyBuffer(f, b).now)
<1>1. Calm(f, CreateMemory(f, m).now) /\ Calm(f, DestroyMemory(f, m).now)
  BY ObjectsCalm DEF CreateMemory, DestroyMemory, Done, Refused
<1>2. Calm(f, BindMemory(f, o, m).now)
  BY DEF BindMemory, Done, Refused, Calm, Settled, Proper, Fields
<1>3. Calm(f, CreateBuffer(f, b, home).now)
  BY DEF CreateBuffer, Fresh, Made, Done, Calm, Settled, Proper, Fields
<1>4. Calm(f, CreateBufferInVain(f).now)
  BY DEF CreateBufferInVain, Refused, Calm, Settled, Proper, Fields
<1>5. Calm(f, DestroyBuffer(f, b).now)
  BY DEF DestroyBuffer, Fresh, Gone, Done, Refused, Calm, Settled, Proper, Fields
<1> QED
  BY <1>1, <1>2, <1>3, <1>4, <1>5

LEMMA RecordedCalm ==
  ASSUME NEW f, DOMAIN f = Fields, NEW i, NEW s
  PROVE  Calm(f, Recorded(f, i, s).now) /\ Calm(f, Entered(f, i, s).now)
<1>1. Calm(f, Recorded(f, i, s).now)
  BY DEF Recorded, Done, Refused, Calm, Settled, Proper, Fields
<1> QED
  BY <1>1, ObjectsCalm DEF Entered, Done

LEMMA CalmOn ==
  ASSUME NEW f, NEW g, NEW h, Calm(f, g), Calm(g, h) PROVE Calm(f, h)
  BY DEF Calm

LEMMA ImagesCalm ==
  ASSUME NEW f, DOMAIN f = Fields, NEW i \in Image, NEW home, NEW layout, NEW left
  PROVE  Calm(f, CreateImage(f, i, home, layout, left).now) /\ Calm(f, DestroyImage(f, i).now)
<1>1. "UNDEFINED" # "gone" /\ Image = Usable("UNDEFINED")
  BY DEF Usable
<1>2. Calm(f, CreateImage(f, i, home, layout, left).now)
  <2> DEFINE g == [Fresh(f, i, home) EXCEPT !.state[i] = "UNDEFINED", !.revisions[i] = left]
             r == Entered(g, i, layout)
             h == Made(r.now, "image", i)
  <2>1. Calm(f, g)
    BY <1>1 DEF Fresh, Calm, Settled, Proper, Fields
  <2>2. Calm(f, Forgotten(f))
    BY DEF Forgotten, Calm, Settled, Proper, Fields
  <2>3. CreateImage(f, i, home, layout, left).now = IF r.ok THEN h ELSE Forgotten(f)
    BY DEF CreateImage, Done, Refused
  <2> HIDE DEF g
  <2>4. Calm(f, r.now)
    BY <2>1, RecordedCalm, CalmOn DEF Calm
  <2> HIDE DEF r
  <2>5. Calm(f, h)
    BY <2>4, ObjectsCalm, CalmOn DEF Calm
  <2> QED BY <2>2, <2>3, <2>5
<1>3. Calm(f, DestroyImage(f, i).now)
  <2> DEFINE g == [f EXCEPT !.state[i] = "gone"]
             k == Gone(Fresh(f, i, Nothing), "image", i)
             h == [Forgotten(k) EXCEPT !.state[i] = "UNDEFINED", !.revisions[i] = Plenty]
  <2>1. Calm(f, g)
    BY DEF Calm, Settled, Proper, Fields
  <2>2. Calm(f, k)
    BY DEF Fresh, Gone, Calm, Settled, Proper, Fields
  <2>3. DestroyImage(f, i).now \in {f, g, h}
    BY DEF DestroyImage, Done, Refused
  <2> HIDE DEF g, k
  <2>4. Calm(k, h)
    BY <1>1, <2>2 DEF Forgotten, Calm, Settled, Proper, Fields
  <2> HIDE DEF h
  <2> QED BY <2>1, <2>2, <2>3, <2>4, CalmOn, ObjectsCalm
<1> QED
  BY <1>2, <1>3

LEMMA PipelinesCalm ==
  ASSUME NEW f, DOMAIN f = Fields, NEW p, NEW s, NEW target, NEW sampled, NEW uniforms
  PROVE  /\ Calm(f, CreateSampler(f, s).now) /\ Calm(f, DestroySampler(f, s).now)
         /\ Calm(f, CreatePipeline(f, p, target, sampled, uniforms).now)
         /\ Calm(f, CreateGraphicsPipeline(f, p, target, sampled, uniforms).now)
         /\ Calm(f, SetSampler(f, p, s).now) /\ Calm(f, DestroyPipeline(f, p).now)
         /\ Calm(f, RetainLayout(f, p).now) /\ Calm(f, ReleaseLayout(f, p).now)
<1>1. Calm(f, CreateSampler(f, s).now) /\ Calm(f, DestroySampler(f, s).now)
  BY ObjectsCalm DEF CreateSampler, DestroySampler, Done, Refused
<1>2. Calm(f, CreatePipeline(f, p, target, sampled, uniforms).now)
  BY DEF CreatePipeline, Made, Done, Refused, Calm, Settled, Proper, Fields
<1>3. Calm(f, CreateGraphicsPipeline(f, p, target, sampled, uniforms).now)
  BY <1>2, ObjectsCalm DEF CreateGraphicsPipeline, Refused
<1>4. Calm(f, SetSampler(f, p, s).now)
  BY DEF SetSampler, Done, Refused, Calm, Settled, Proper, Fields
<1>5. Calm(f, DestroyPipeline(f, p).now)
  BY DEF DestroyPipeline, Gone, Done, Refused, Calm, Settled, Proper, Fields
<1>6. Calm(f, RetainLayout(f, p).now) /\ Calm(f, ReleaseLayout(f, p).now)
  BY DEF RetainLayout, ReleaseLayout, Done, Calm, Settled, Proper, Fields
<1> QED
  BY <1>1, <1>2, <1>3, <1>4, <1>5, <1>6

LEMMA PassesCalm ==
  ASSUME NEW f, DOMAIN f = Fields, NEW r, NEW x, NEW area
  PROVE  /\ Calm(f, CreatePass(f, r, x).now) /\ Calm(f, DestroyPass(f, r).now)
         /\ Calm(f, AttachDepth(f, r, x).now) /\ Calm(f, SetScissor(f, r, area).now)
         /\ Calm(f, BeginPass(f, r, area).now) /\ Calm(f, EndPass(f, r).now)
         /\ Calm(f, BindPipeline(f, r, x).now) /\ Calm(f, BindIndex(f, r, x).now)
         /\ Calm(f, BindVertex(f, r, x).now)
         /\ Calm(f, BeginQuery(f, r, x).now) /\ Calm(f, EndQuery(f, r).now)
<1>1. Calm(f, CreatePass(f, r, x).now)
  BY DEF CreatePass, Made, Done, Refused, Calm, Settled, Proper, Fields
<1>2. Calm(f, DestroyPass(f, r).now)
  BY DEF DestroyPass, Gone, Done, Refused, Calm, Settled, Proper, Fields
<1>3. Calm(f, AttachDepth(f, r, x).now)
  BY DEF AttachDepth, Done, Refused, Calm, Settled, Proper, Fields
<1>4. Calm(f, SetScissor(f, r, area).now)
  BY DEF SetScissor, Done, Refused, Calm, Settled, Proper, Fields
<1>5. Calm(f, BeginPass(f, r, area).now) /\ Calm(f, EndPass(f, r).now)
  BY DEF BeginPass, EndPass, Done, Refused, Calm, Settled, Proper, Fields
<1>6. Calm(f, BindPipeline(f, r, x).now) /\ Calm(f, BindIndex(f, r, x).now) /\ Calm(f, BindVertex(f, r, x).now)
  BY DEF BindPipeline, BindIndex, BindVertex, Done, Refused, Calm, Settled, Proper, Fields
<1>7. Calm(f, BeginQuery(f, r, x).now) /\ Calm(f, EndQuery(f, r).now)
  BY DEF BeginQuery, EndQuery, Done, Refused, Calm, Settled, Proper, Fields
<1> QED
  BY <1>1, <1>2, <1>3, <1>4, <1>5, <1>6, <1>7

LEMMA TimelinesCalm ==
  ASSUME NEW f, DOMAIN f = Fields, NEW x
  PROVE  /\ Calm(f, CreateQueryPool(f, x).now) /\ Calm(f, DestroyQueryPool(f, x).now)
         /\ Calm(f, CreateTimeline(f, x).now) /\ Calm(f, DestroyTimeline(f, x).now)
         /\ Calm(f, Signal(f, x).now)
<1>1. Calm(f, CreateQueryPool(f, x).now) /\ Calm(f, DestroyQueryPool(f, x).now)
      /\ Calm(f, DestroyTimeline(f, x).now)
  BY ObjectsCalm DEF CreateQueryPool, DestroyQueryPool, DestroyTimeline, Done, Refused
<1>2. Calm(f, CreateTimeline(f, x).now) /\ Calm(f, Signal(f, x).now)
  BY DEF CreateTimeline, Signal, Made, Done, Calm, Settled, Proper, Fields
<1> QED
  BY <1>1, <1>2

LEMMA SubmissionCalm ==
  ASSUME NEW f, Shaped(f), NEW list \in Seq(Entry)
  PROVE  Calm(f, Submission(f, list).now)
  BY SubmissionMoves DEF Carries, Moves, Shaped, Calm

\* What a call leaves is at rest again, its dwords named anew.
LEMMA CallRests ==
  ASSUME NEW r, AtRest(front), Calm(front, r.now), Call(r)
  PROVE  AtRest(front)'
<1>1. AtRest(front') = AtRest(front)'
  BY DEF AtRest, Settled, Proper
<1>2. /\ DOMAIN r.now = Fields /\ Proper(r.now) /\ Settled(r.now) /\ r.now.writes = Plenty
      /\ front' = [r.now EXCEPT !.bytes = Own]
  BY DEF AtRest, Calm, Call
<1>3. /\ front'.bytes = Own /\ front'.writes = r.now.writes /\ front'.state = r.now.state
      /\ front'.revisions = r.now.revisions
  BY <1>2 DEF Fields
<1>4. AtRest(front')
  BY <1>2, <1>3 DEF AtRest, Settled, Proper
<1> QED
  BY <1>1, <1>4

LEMMA FieldsAre == ASSUME Inv PROVE Shaped(front) /\ DOMAIN front = Fields
  BY DEF Inv, FrontInv, FrontType, Shaped

LEMMA RestStays == ASSUME AtRest(front), front' = front PROVE AtRest(front)'
  BY DEF AtRest, Settled, Proper

LEMMA OpenedRests ==
  ASSUME NEW n \in Nat \cup {Plenty}, NEW w, w = Plenty PROVE AtRest(Opened(n, w))
<1> DEFINE f == Opened(n, w)
<1>1. /\ f.bytes = Own /\ f.writes = w /\ f.state = [i \in Image |-> "UNDEFINED"]
      /\ f.revisions = [i \in Image |-> Plenty] /\ f.sequences = n /\ f.listed = {}
  BY DEF Opened
<1>2. "UNDEFINED" # "gone" /\ Usable("UNDEFINED") = Image
  BY DEF Usable
<1> HIDE DEF f
<1>3. AtRest(f)
  BY <1>1, <1>2 DEF AtRest, Settled, Proper
<1> QED BY <1>3 DEF f

LEMMA ObjectsRest ==
  ASSUME Inv, AtRest(front),
         \/ AllocateMemory \/ FreeMemory \/ MakeBuffer \/ EndBuffer \/ MakeImage \/ EndImage
         \/ BindBufferMemory \/ BindImageMemory \/ MakeSampler \/ EndSampler
  PROVE  AtRest(front)'
<1>1. DOMAIN front = Fields
  BY FieldsAre
<1>2. ASSUME AllocateMemory \/ FreeMemory PROVE AtRest(front)'
  BY <1>1, <1>2, MemoriesCalm, CallRests DEF AllocateMemory, FreeMemory, Created, Destroyed
<1>3. ASSUME MakeBuffer \/ EndBuffer PROVE AtRest(front)'
  BY <1>1, <1>3, MemoriesCalm, CallRests DEF MakeBuffer, EndBuffer, Created, Destroyed
<1>4. ASSUME MakeImage \/ EndImage PROVE AtRest(front)'
  <2>1. Free("image") \subseteq Image /\ Live("image") \subseteq Image
    BY KindIs DEF Free, Live
  <2> QED BY <1>1, <1>4, <2>1, ImagesCalm, CallRests DEF MakeImage, EndImage, Created, Destroyed
<1>5. ASSUME BindBufferMemory \/ BindImageMemory PROVE AtRest(front)'
  BY <1>1, <1>5, MemoriesCalm, CallRests DEF BindBufferMemory, BindImageMemory
<1>6. ASSUME MakeSampler \/ EndSampler PROVE AtRest(front)'
  BY <1>1, <1>6, PipelinesCalm, CallRests DEF MakeSampler, EndSampler, Created, Destroyed
<1> QED
  BY <1>2, <1>3, <1>4, <1>5, <1>6

LEMMA UsersRest ==
  ASSUME Inv, AtRest(front),
         \/ MakeGraphicsPipeline \/ MakeComputePipeline \/ EndPipeline \/ PipelineSampler
         \/ MakePass \/ EndRenderPass \/ PassDepth \/ MakeQueries \/ EndQueries
         \/ MakeFence \/ EndFence \/ MakeSemaphore \/ EndSemaphore
  PROVE  AtRest(front)'
<1>1. DOMAIN front = Fields
  BY FieldsAre
<1>2. ASSUME MakeGraphicsPipeline \/ MakeComputePipeline \/ EndPipeline \/ PipelineSampler PROVE AtRest(front)'
  BY <1>1, <1>2, PipelinesCalm, CallRests
     DEF MakeGraphicsPipeline, MakeComputePipeline, EndPipeline, PipelineSampler, Created, Destroyed
<1>3. ASSUME MakePass \/ EndRenderPass \/ PassDepth PROVE AtRest(front)'
  BY <1>1, <1>3, PassesCalm, CallRests DEF MakePass, EndRenderPass, PassDepth, Created, Destroyed
<1>4. ASSUME MakeQueries \/ EndQueries PROVE AtRest(front)'
  BY <1>1, <1>4, TimelinesCalm, CallRests DEF MakeQueries, EndQueries, Created, Destroyed
<1>5. ASSUME MakeFence \/ EndFence \/ MakeSemaphore \/ EndSemaphore PROVE AtRest(front)'
  BY <1>1, <1>5, TimelinesCalm, CallRests
     DEF MakeFence, EndFence, MakeSemaphore, EndSemaphore, Created, Destroyed
<1> QED
  BY <1>2, <1>3, <1>4, <1>5

LEMMA RecordersRest ==
  ASSUME Inv, AtRest(front), CmdBeginRenderPass \/ CmdInside \/ CmdQuery \/ CmdEndRenderPass
  PROVE  AtRest(front)'
<1>1. DOMAIN front = Fields
  BY FieldsAre
<1>2. ASSUME CmdBeginRenderPass PROVE AtRest(front)'
  <2>1. PICK r, area : LET begun == BeginPass(front, r, area)
                       IN Call(begun) \/ Call(EndPass(begun.now, r))
    BY <1>2 DEF CmdBeginRenderPass
  <2> DEFINE g == BeginPass(front, r, area).now
  <2>2. Calm(front, g) /\ DOMAIN g = Fields
    BY <1>1, PassesCalm DEF Calm
  <2>3. Call(BeginPass(front, r, area)) \/ Call(EndPass(g, r))
    BY <2>1
  <2>4. Calm(front, EndPass(g, r).now)
    <3> HIDE DEF g
    <3> QED BY <2>2, PassesCalm, CalmOn
  <2> QED BY <2>2, <2>3, <2>4, CallRests
<1>3. ASSUME CmdInside PROVE AtRest(front)'
  BY <1>1, <1>3, PassesCalm, CallRests DEF CmdInside
<1>4. ASSUME CmdQuery PROVE AtRest(front)'
  BY <1>1, <1>4, PassesCalm, CallRests DEF CmdQuery
<1>5. ASSUME CmdEndRenderPass PROVE AtRest(front)'
  BY <1>1, <1>5, PassesCalm, CallRests DEF CmdEndRenderPass
<1> QED
  BY <1>2, <1>3, <1>4, <1>5

LEMMA SubmitsRest ==
  ASSUME Inv, AtRest(front), QueueSubmit \/ QueueSubmitWait \/ SignalFence
  PROVE  AtRest(front)'
<1>1. Shaped(front) /\ DOMAIN front = Fields
  BY FieldsAre
<1>2. \A c \in Buffers : buffer[c].list \in Seq(Entry)
  BY BufferIs DEF BufferRecord
<1>3. ASSUME NEW list \in Seq(Entry), NEW t
      PROVE  /\ Calm(front, Submission(front, list).now)
             /\ Calm(front, Signal(Submission(front, list).now, t).now)
  <2> DEFINE g == Submission(front, list).now
  <2>1. Calm(front, g) /\ DOMAIN g = Fields
    BY <1>1, SubmissionCalm DEF Calm
  <2> HIDE DEF g
  <2>2. Calm(front, Signal(g, t).now)
    BY <2>1, TimelinesCalm, CalmOn
  <2> QED BY <2>1, <2>2 DEF g
<1>4. ASSUME QueueSubmit \/ QueueSubmitWait PROVE AtRest(front)'
  <2>1. PICK c \in Buffers, t \in (Timeline \cap front.live) \cup {Nothing} :
          LET ran == Submission(front, buffer[c].list)
          IN Call(IF ran.ok THEN IF t = Nothing THEN Done(ran.now) ELSE Signal(ran.now, t) ELSE ran)
    BY <1>4, SubmissionIs
  <2>2. PICK ran : ran = Submission(front, buffer[c].list)
    OBVIOUS
  <2>3. PICK r : /\ r = IF ran.ok THEN IF t = Nothing THEN Done(ran.now) ELSE Signal(ran.now, t) ELSE ran
                 /\ Call(r)
    BY <2>1, <2>2
  <2>4. Calm(front, ran.now) /\ Calm(front, Signal(ran.now, t).now)
    BY <1>2, <1>3, <2>2
  <2>5. Done(ran.now).now = ran.now
    BY DEF Done
  <2>6. Calm(front, r.now)
    BY <2>3, <2>4, <2>5
  <2> QED BY <2>3, <2>6, CallRests
<1>6. ASSUME SignalFence PROVE AtRest(front)'
  BY <1>1, <1>6, TimelinesCalm, CallRests DEF SignalFence
<1> QED
  BY <1>4, <1>6

LEMMA NextRests ==
  ASSUME Inv, AtRest(front), [Next]_vars PROVE AtRest(front)'
<1>1. CASE DeviceCreate
  <2>1. PICK n \in Nat \cup {Plenty} : front' = Opened(n, front.writes)
    BY <1>1, CommandsAssumption DEF DeviceCreate
  <2>2. AtRest(front') = AtRest(front)'
    BY DEF AtRest, Settled, Proper
  <2> QED BY <2>1, <2>2, OpenedRests DEF AtRest
<1>2. CASE InstanceCreate \/ DeviceDestroy \/ InstanceDestroy \/ UNCHANGED vars
  BY <1>2, RestStays DEF InstanceCreate, DeviceDestroy, InstanceDestroy, vars
<1>3. CASE \/ MakeView \/ EndView \/ UpdateBuffer \/ UpdateImage \/ UpdateSampler
           \/ MakePool \/ EndPool \/ ResetPool \/ AllocateBuffer \/ FreeBuffer
           \/ Begin \/ Record \/ BindCompute \/ CmdDispatch \/ CmdClear \/ CmdDraw \/ End
  <2>1. front' = front
    BY <1>3 DEF MakeView, EndView, UpdateBuffer, UpdateImage, UpdateSampler, MakePool, EndPool,
                ResetPool, AllocateBuffer, FreeBuffer, Begin, Record, BindCompute, CmdDispatch,
                CmdClear, CmdDraw, End
  <2> QED BY <2>1, RestStays
<1>4. CASE MakeSet \/ EndSet
  <2>1. DOMAIN front = Fields
    BY FieldsAre
  <2>2. front' = front \/ \E p : Call(RetainLayout(front, p)) \/ Call(ReleaseLayout(front, p))
    BY <1>4 DEF MakeSet, EndSet
  <2> QED BY <2>1, <2>2, PipelinesCalm, CallRests, RestStays
<1>5. CASE instance = "device" /\ OnDevice
  BY <1>3, <1>4, <1>5, ObjectsRest, UsersRest, RecordersRest, SubmitsRest DEF OnDevice
<1> QED
  BY <1>1, <1>2, <1>5 DEF Next

\* Between two calls the front end is at rest.
LEMMA DeviceRests == Spec => []AtRest(front)
<1>1. Init => AtRest(front)
  BY OpenedRests DEF Init
<1>2. Inv /\ AtRest(front) /\ [Next]_vars => AtRest(front)'
  BY NextRests
<1> QED
  BY <1>1, <1>2, DeviceIsSound, PTL DEF Spec

-----------------------------------------------------------------------------
(* Transfers do what they say.                                             *)

\* Dwords that held their own names, after a move and after a fill.
OwnAfterMove(a, p, b, q, n) ==
  [Own EXCEPT ![b] = [k \in DOMAIN @ |-> IF k - q \in 0 .. n - 1 THEN <<a, p + (k - q)>> ELSE <<b, k>>]]

OwnAfterFill(b, q, n, v) ==
  [Own EXCEPT ![b] = [k \in DOMAIN @ |-> IF k - q \in 0 .. n - 1 THEN v ELSE <<b, k>>]]

LEMMA OwnMoved ==
  ASSUME NEW a \in Object, NEW p \in Nat, NEW b \in Object, NEW q \in Nat, NEW n \in Nat, p + n <= Size(a)
  PROVE  MovedBytes(Own, a, p, b, q, n) = OwnAfterMove(a, p, b, q, n)
<1>1. /\ DOMAIN Own[a] = 0 .. Size(a) - 1 /\ \A k \in 0 .. Size(a) - 1 : Own[a][k] = <<a, k>>
      /\ DOMAIN Own[b] = 0 .. Size(b) - 1 /\ \A k \in 0 .. Size(b) - 1 : Own[b][k] = <<b, k>>
      /\ Size(a) \in Nat /\ Size(b) \in Nat
  BY OwnIs
<1>2. ASSUME NEW k \in DOMAIN Own[b]
      PROVE  (IF k \in q .. q + n - 1 THEN Own[a][p + k - q] ELSE Own[b][k])
               = (IF k - q \in 0 .. n - 1 THEN <<a, p + (k - q)>> ELSE <<b, k>>)
  <2>1. k \in Nat /\ Own[b][k] = <<b, k>>
    BY <1>1
  <2>2. k \in q .. q + n - 1 <=> k - q \in 0 .. n - 1
    BY <2>1
  <2>3. ASSUME k - q \in 0 .. n - 1 PROVE Own[a][p + k - q] = <<a, p + (k - q)>>
    <3>1. p + k - q = p + (k - q) /\ p + (k - q) \in 0 .. Size(a) - 1
      BY <1>1, <2>1, <2>3
    <3> QED BY <1>1, <3>1
  <2> QED BY <2>1, <2>2, <2>3
<1> QED
  BY <1>2, Zenon DEF MovedBytes, OwnAfterMove

LEMMA OwnFilled ==
  ASSUME NEW b \in Object, NEW q \in Nat, NEW n \in Nat, NEW v
  PROVE  FilledBytes(Own, b, q, n, v) = OwnAfterFill(b, q, n, v)
<1>1. DOMAIN Own[b] = 0 .. Size(b) - 1 /\ Size(b) \in Nat /\ \A k \in 0 .. Size(b) - 1 : Own[b][k] = <<b, k>>
  BY OwnIs
<1>2. ASSUME NEW k \in DOMAIN Own[b]
      PROVE  (IF k \in q .. q + n - 1 THEN v ELSE Own[b][k]) = (IF k - q \in 0 .. n - 1 THEN v ELSE <<b, k>>)
  <2>1. k \in Nat /\ Own[b][k] = <<b, k>>
    BY <1>1
  <2> QED BY <2>1
<1> QED
  BY <1>2, Zenon DEF FilledBytes, OwnAfterFill

\* What x is to leave of dwords that held their own names.
IntendedBytes(x, v) == [Own EXCEPT ![x.to] = [k \in DOMAIN @ |-> Intended(x, k, v)]]

LEMMA MovesIntended ==
  ASSUME NEW x \in Command, x.kind \in {"COPY", "TO_IMAGE", "FROM_IMAGE"}, InRange(x.from, x.at, x.n), NEW v
  PROVE  MovedBytes(Own, x.from, x.at, x.to, x.into, x.n) = IntendedBytes(x, v)
<1>1. /\ x.from \in Object /\ x.at \in Nat /\ x.to \in Object /\ x.into \in Nat /\ x.n \in Nat
  BY CommandIs DEF Object
<1>2. x.at + x.n <= Size(x.from)
  BY DEF InRange
<1>3. \A k : Intended(x, k, v) = IF k - x.into \in 0 .. x.n - 1 THEN <<x.from, x.at + (k - x.into)>> ELSE <<x.to, k>>
  BY DEF Intended
<1>4. IntendedBytes(x, v) = OwnAfterMove(x.from, x.at, x.to, x.into, x.n)
  BY <1>3, Zenon DEF IntendedBytes, OwnAfterMove
<1> QED
  BY <1>1, <1>2, <1>4, OwnMoved

LEMMA FillsIntended ==
  ASSUME NEW x \in Command, x.kind \in {"FILL", "UPDATE"}, NEW v
  PROVE  FilledBytes(Own, x.to, x.into, x.n, v) = IntendedBytes(x, v)
<1>1. x.to \in Object /\ x.into \in Nat /\ x.n \in Nat
  BY CommandIs DEF Object
<1>2. \A k : Intended(x, k, v) = IF k - x.into \in 0 .. x.n - 1 THEN v ELSE <<x.to, k>>
  BY DEF Intended
<1>3. IntendedBytes(x, v) = OwnAfterFill(x.to, x.into, x.n, v)
  BY <1>2, Zenon DEF IntendedBytes, OwnAfterFill
<1> QED
  BY <1>1, <1>3, OwnFilled

LEMMA RectangleIntended ==
  ASSUME NEW x \in Command, x.kind = "COPY_IMAGE", NEW v
  PROVE  RectBytes(x.from, x.x, x.y, x.to, x.u, x.t, x.w, x.h) = IntendedBytes(x, v)
<1>1. \A k : Intended(x, k, v) =
               LET column == k % Columns
                   row == k \div Columns
               IN IF column - x.u \in 0 .. x.w - 1 /\ row - x.t \in 0 .. x.h - 1
                  THEN <<x.from, Columns * (row - x.t + x.y) + column - x.u + x.x>> ELSE <<x.to, k>>
  BY DEF Intended
<1> QED
  BY <1>1, Zenon DEF IntendedBytes, RectBytes

\* One transfer from a front end at rest.
LEMMA TransferRestores ==
  ASSUME NEW f, Shaped(f), AtRest(f), NEW x \in Command, NEW v,
         x.kind \in {"COPY", "TO_IMAGE", "FROM_IMAGE", "FILL", "UPDATE", "COPY_IMAGE"}
  PROVE  Restores(f, Performed(f, x, v), x.kind = "COPY_IMAGE" => MayEnter(f, x.to), IntendedBytes(x, v))
<1> DEFINE r == Performed(f, x, v)
           may == x.kind = "COPY_IMAGE" => MayEnter(f, x.to)
           y == IntendedBytes(x, v)
<1>1. f.bytes = Own /\ f.writes = Plenty /\ Proper(f)
  BY DEF AtRest
<1>2. ASSUME NEW z, Restores(f, r, TRUE, z), r.ok => z = y PROVE Restores(f, r, may, y)
  BY <1>2 DEF Restores
<1>3. CASE x.kind = "COPY"
  <2>1. r = CopyBuffer(f, x.from, x.at, x.to, x.into, x.n)
    BY <1>3 DEF Performed
  <2> HIDE DEF r, y, may
  <2>2. Restores(f, r, TRUE, MovedBytes(Own, x.from, x.at, x.to, x.into, x.n))
    BY <1>1, <2>1, CopyBufferRestores
  <2>3. r.ok => InRange(x.from, x.at, x.n)
    BY <2>1, CopyBufferRestores
  <2> QED BY <1>2, <1>3, <2>2, <2>3, MovesIntended DEF r, y, may
<1>4. CASE x.kind = "TO_IMAGE"
  <2>1. r = CopyToImage(f, x.from, x.at, x.to, x.into, x.n)
    BY <1>4 DEF Performed
  <2> HIDE DEF r, y, may
  <2>2. x.from \in Buffer /\ x.to \in Image
    BY <1>4, CommandIs
  <2>3. Restores(f, r, TRUE, MovedBytes(Own, x.from, x.at, x.to, x.into, x.n))
    BY <1>1, <2>1, <2>2, CopyToImageRestores
  <2>4. r.ok => InRange(x.from, x.at, x.n)
    BY <1>1, <2>1, <2>2, CopyToImageRestores
  <2> QED BY <1>2, <1>4, <2>3, <2>4, MovesIntended DEF r, y, may
<1>5. CASE x.kind = "FROM_IMAGE"
  <2>1. r = CopyFromImage(f, x.from, x.at, x.to, x.into, x.n)
    BY <1>5 DEF Performed
  <2> HIDE DEF r, y, may
  <2>2. x.from \in Image /\ x.to \in Buffer
    BY <1>5, CommandIs
  <2>3. Restores(f, r, TRUE, MovedBytes(Own, x.from, x.at, x.to, x.into, x.n))
    BY <1>1, <2>1, <2>2, CopyFromImageRestores
  <2>4. r.ok => InRange(x.from, x.at, x.n)
    BY <1>1, <2>1, <2>2, CopyFromImageRestores
  <2> QED BY <1>2, <1>5, <2>3, <2>4, MovesIntended DEF r, y, may
<1>6. CASE x.kind = "FILL"
  <2>1. r = FillBuffer(f, x.to, x.into, x.n, v)
    BY <1>6 DEF Performed
  <2> HIDE DEF r, y, may
  <2>2. x.into \in Nat /\ x.n \in Nat
    BY <1>6, CommandIs
  <2>3. Restores(f, r, TRUE, FilledBytes(Own, x.to, x.into, x.n, v))
    BY <1>1, <2>1, <2>2, FillBufferRestores
  <2> QED BY <1>2, <1>6, <2>3, FillsIntended DEF r, y, may
<1>7. CASE x.kind = "UPDATE"
  <2>1. r = UploadBuffer(f, x.to, x.into, x.n, v)
    BY <1>7 DEF Performed
  <2> HIDE DEF r, y, may
  <2>2. Restores(f, r, TRUE, FilledBytes(Own, x.to, x.into, x.n, v))
    BY <1>1, <2>1, UploadBufferRestores
  <2> QED BY <1>2, <1>7, <2>2, FillsIntended DEF r, y, may
<1>8. CASE x.kind = "COPY_IMAGE"
  <2>1. r = CopyRect(f, x.from, x.x, x.y, x.to, x.u, x.t, x.w, x.h)
    BY <1>8 DEF Performed
  <2> HIDE DEF r, y, may
  <2>2. /\ x.from \in Image /\ x.x \in Nat /\ x.y \in Nat /\ x.w \in Nat /\ x.h \in Nat
        /\ x.to \in Image /\ x.u \in Nat /\ x.t \in Nat
    BY <1>8, CommandIs
  <2>3. Restores(f, r, MayEnter(f, x.to), RectBytes(x.from, x.x, x.y, x.to, x.u, x.t, x.w, x.h))
    BY <1>1, <2>1, <2>2, CopyRectRestores
  <2>4. Restores(f, r, MayEnter(f, x.to), y)
    BY <1>8, <2>3, RectangleIntended DEF y
  <2> QED BY <1>8, <2>4 DEF r, y, may, Restores
<1> QED
  BY <1>3, <1>4, <1>5, <1>6, <1>7, <1>8

LEMMA TransfersAreRight ==
  ASSUME Inv, AtRest(front) PROVE TransfersRestore
<1> SUFFICES ASSUME NEW x \in Recordable,
                    x.kind \in {"COPY", "TO_IMAGE", "FROM_IMAGE", "FILL", "UPDATE", "COPY_IMAGE"}
             PROVE  LET v == <<"command", 0>>
                        r == Performed(front, x, v)
                        mayEnter == x.to \in Image /\ front.state[x.to] # "TRANSFER_DESTINATION"
                                      => front.revisions[x.to] # 0
                        unhindered == front.sequences = Plenty /\ \A i \in Image : front.revisions[i] = Plenty
                    IN /\ r.ok => r.now.state = front.state
                       /\ r.ok /\ mayEnter =>
                            r.now.bytes = [Own EXCEPT ![x.to] = [k \in DOMAIN @ |-> Intended(x, k, v)]]
                       /\ ~r.ok /\ unhindered => r.now.bytes = Own /\ r.now.state = front.state
  BY DEF TransfersRestore
<1>1. x \in Command
  BY DEF Recordable
<1> DEFINE v == <<"command", 0>>
           r == Performed(front, x, v)
<1>2. Restores(front, r, x.kind = "COPY_IMAGE" => MayEnter(front, x.to), IntendedBytes(x, v))
  BY <1>1, FieldsAre, TransferRestores
<1>3. x.kind = "COPY_IMAGE" => x.to \in Image
  BY <1>1, CommandIs
<1>4. front.bytes = Own
  BY DEF AtRest
<1> HIDE DEF r, v
<1>5. /\ r.ok => r.now.state = front.state
      /\ r.ok /\ (x.kind = "COPY_IMAGE" => MayEnter(front, x.to)) => r.now.bytes = IntendedBytes(x, v)
      /\ ~r.ok /\ Unhindered(front) => r.now.bytes = front.bytes /\ r.now.state = front.state
  BY <1>2 DEF Restores
<1> QED
  BY <1>3, <1>4, <1>5 DEF r, v, IntendedBytes, MayEnter, Unhindered

\* A transfer that is accepted moves exactly what it says and puts every image
\* back into the state it was in; one that is refused moves nothing and changes
\* no state, unless a counter is used up: image_copy_rect, image_copy_to_buffer,
\* buffer_fill and their kin, whatever they are called with.
THEOREM TransfersDoWhatTheySay == Spec => []TransfersRestore
<1>1. Inv /\ AtRest(front) => TransfersRestore
  BY TransfersAreRight
<1> QED
  BY <1>1, DeviceIsSound, DeviceRests, PTL

-----------------------------------------------------------------------------
(* A copy and the fill after it.                                           *)

\* A front end to which numbers and packets do not run out.
Ample(f) ==
  Shaped(f) /\ f.sequences = Plenty /\ f.writes = Plenty /\ f.listed = {}

LEMMA AmpleStays ==
  ASSUME NEW f, Ample(f), NEW g, Carries(f, g) PROVE Ample(g)
  BY DEF Ample, Carries, Moves, Settled

\* The two of them, one packet or two calls.
LEMMA JoinedIsBoth ==
  ASSUME NEW f, Ample(f), NEW a, NEW p, NEW b, NEW q \in Nat, NEW n \in Nat,
         NEW w \in Nat, w <= n, w <= Packet, NEW v, ~Overlaps(a, p, b, q, n)
  PROVE  CopyThenFill(f, a, p, b, q, n, w, v) =
           LET r == CopyBuffer(f, a, p, b, q, n)
           IN IF r.ok THEN FillBuffer(r.now, b, q, w, v) ELSE r
<1> DEFINE wrong == \/ ~({a, b} \subseteq Bound(f) /\ a \in Source /\ b \in Destination)
                    \/ ~(InRange(a, p, n) /\ InRange(b, q, n))
           r == CopyBuffer(f, a, p, b, q, n)
           g == Moving(f, a, p, b, q, n)
<1>1. CASE wrong
  <2>1. CopyThenFill(f, a, p, b, q, n, w, v) = Refused(f) /\ r = Refused(f)
    BY <1>1 DEF CopyThenFill, CopyBuffer
  <2> QED BY <2>1 DEF Refused
<1>2. CASE ~wrong /\ w \notin 1 .. n
  BY <1>2 DEF CopyThenFill, Then
<1>3. CASE ~wrong /\ w \in 1 .. n
  <2>1. Plenty # 0 /\ Packet \in Nat \ {0} /\ PacketRows \in Nat \ {0} /\ Staging \in Nat /\ Size(b) \in Nat
    <3>1. {a, b} \subseteq Object
      BY <1>3 DEF Bound
    <3> QED BY <3>1, TransfersAssumption, OwnIs
  <2>2. CopyThenFill(f, a, p, b, q, n, w, v) = Done([Filling(g, b, q, w, v) EXCEPT !.writes = Less(@)])
    BY <1>3, <2>1 DEF CopyThenFill, Composite, Ample
  <2>3. r = Done(g)
    <3>1. r = Done([g EXCEPT !.listed = {}, !.sequences = Less(@)])
      BY <1>3, <2>1 DEF CopyBuffer, Copied, Submitted, Ample
    <3>2. g = [x \in Fields |-> g[x]] /\ g.listed = {} /\ g.sequences = Plenty
      BY DEF Moving, Ample, Shaped, Fields
    <3>3. [g EXCEPT !.listed = {}, !.sequences = Less(@)] = g
      <4> HIDE DEF g
      <4> QED BY <3>2 DEF Less, Fields
    <3> HIDE DEF g
    <3> QED BY <3>1, <3>3
  <2>4. g.home = f.home /\ g.writes = Plenty
    BY DEF Moving, Ample, Shaped, Fields
  <2>5. Bound(g) = Bound(f) /\ b \in Bound(f) \cap Destination /\ InRange(b, q, w)
    <3>1. b \in Bound(f) \cap Destination /\ q + n <= Size(b) /\ n <= Staging
      BY <1>3 DEF InRange
    <3>2. InRange(b, q, w)
      BY <1>3, <2>1, <3>1 DEF InRange
    <3> HIDE DEF g
    <3> QED BY <2>4, <3>1, <3>2 DEF Bound
  <2>6. w <= Packet * PacketRows
    <3>1. Packet * 1 <= Packet * PacketRows
      BY <2>1, Quotients
    <3>2. PICK m \in Nat : m = Packet * PacketRows
      BY <2>1
    <3> QED BY <2>1, <3>1, <3>2
  <2>7. FillBuffer(g, b, q, w, v) = Packed(g, b, q, w, v)
    <3> DEFINE whole == w - (w % Packet)
    <3>1. whole = 0 \/ whole = w
      <4>1. CASE w = Packet
        <5>1. w % Packet = 0
          BY <2>1, <4>1
        <5> QED BY <5>1
      <4>2. CASE w < Packet
        <5>1. w % Packet = w
          BY <2>1, <4>2
        <5> QED BY <5>1
      <4> QED BY <2>1, <4>1, <4>2
    <3>2. ~(w > Packet * PacketRows)
      BY <2>1, <2>6
    <3>3. FillBuffer(g, b, q, w, v) =
            IF whole = 0 THEN IF whole = w THEN Done(g) ELSE Packed(g, b, q + whole, w - whole, v)
            ELSE LET s == Packed(g, b, q, whole, v)
                 IN IF s.ok THEN IF whole = w THEN Done(s.now) ELSE Packed(s.now, b, q + whole, w - whole, v)
                    ELSE s
      <4> HIDE DEF g
      <4> QED BY <2>5, <3>2 DEF FillBuffer, Then
    <3>4. CASE whole = 0
      <4>1. w # 0 /\ q + 0 = q /\ w - 0 = w
        BY <1>3
      <4> HIDE DEF g
      <4> QED BY <3>3, <3>4, <4>1
    <3>5. CASE whole = w /\ whole # 0
      <4>1. Packed(g, b, q, w, v) = Done([Filling(g, b, q, w, v) EXCEPT !.writes = Less(@)])
        <5> HIDE DEF g
        <5> QED BY <2>1, <2>4 DEF Packed
      <4>2. Done(Packed(g, b, q, w, v).now) = Packed(g, b, q, w, v) /\ Packed(g, b, q, w, v).ok
        BY <4>1 DEF Done
      <4> HIDE DEF g, whole
      <4> QED BY <3>3, <3>5, <4>2
    <3> QED BY <3>1, <3>4, <3>5
  <2>8. Packed(g, b, q, w, v) = Done([Filling(g, b, q, w, v) EXCEPT !.writes = Less(@)])
    <3> HIDE DEF g
    <3> QED BY <2>1, <2>4 DEF Packed
  <2>9. r.ok /\ r.now = g
    BY <2>3 DEF Done
  <2> HIDE DEF g, r
  <2> QED BY <2>2, <2>7, <2>8, <2>9 DEF r
<1> QED
  BY <1>1, <1>2, <1>3

\* Two results that nothing can tell apart.
Same(r, s) == r.ok = s.ok /\ r.now = s.now

LEMMA FilledOrNot ==
  ASSUME NEW f, NEW b, NEW q, NEW n, NEW v PROVE FillBuffer(f, b, q, n, v).ok \in BOOLEAN
<1> DEFINE whole == n - (n % Packet)
           r == Packed(f, b, q, whole, v)
<1>1. \A g, o, m : Packed(g, b, o, m, v).ok \in BOOLEAN
  BY DEF Packed, Done, Refused
<1>2. Staged(f, b, q, n, v).ok \in BOOLEAN
  BY DEF Staged, Submitted, Done, Refused
<1>3. \A g : Done(g).ok \in BOOLEAN /\ Refused(g).ok \in BOOLEAN
  BY DEF Done, Refused
<1>4. \/ FillBuffer(f, b, q, n, v) \in {Refused(f), Staged(f, b, q, n, v), r}
      \/ \E g : FillBuffer(f, b, q, n, v) \in {Done(g), Packed(g, b, q + whole, n - whole, v)}
  BY DEF FillBuffer, Then
<1> HIDE DEF whole
<1> QED
  BY <1>1, <1>2, <1>3, <1>4

\* Where a run with joined commands is, in the run of the commands themselves.
Reached(s, list, k) == IF Fused(list, k) THEN s[k + 1] ELSE s[k]

\* A step of both runs.
LEMMA StepsAlike ==
  ASSUME NEW f, NEW list \in Seq(Entry), NEW n \in Nat, n = Len(list),
         \A k \in 1 .. n : list[k].kind = "COPY" =>
           ~Overlaps(list[k].from, list[k].at, list[k].to, list[k].into, list[k].n),
         NEW r, FoldRuns(r, f, list, n, TRUE), NEW s, FoldRuns(s, f, list, n, FALSE),
         NEW k \in 0 .. n - 1, Ample(s[k].now), Same(r[k], Reached(s, list, k))
  PROVE  Ample(s[k + 1].now) /\ Same(r[k + 1], Reached(s, list, k + 1))
<1>1. PICK m \in 1 .. n : m = k + 1 /\ m - 1 = k
  OBVIOUS
<1>2. /\ r[m] = NextTurn(r[k], list, m)
      /\ s[m] = IF s[k].ok THEN Performed(s[k].now, list[m], <<"command", m>>) ELSE s[k]
  BY <1>1 DEF FoldRuns, NextOf
<1>3. list[m] \in Entry
  BY <1>1
<1>4. Ample(s[m].now)
  <2>1. Carries(s[k].now, Performed(s[k].now, list[m], <<"command", m>>).now)
    BY <1>3, PerformedMoves DEF Ample
  <2> QED BY <1>2, <2>1, AmpleStays
<1>5. CASE Fused(list, k)
  <2>1. list[m].kind = "FILL" /\ ~Fused(list, m) /\ Same(r[k], s[m])
    BY <1>1, <1>5 DEF Fused, Reached
  <2>2. r[m] = IF r[k].ok THEN Done(r[k].now) ELSE r[k]
    <3>1. Fused(list, m - 1)
      BY <1>1, <1>5
    <3> QED BY <1>2, <2>1, <3>1 DEF NextTurn, TurnOf
  <2>3. s[m].ok => s[m].ok = TRUE
    <3>1. CASE s[k].ok
      <4>1. s[m] = FillBuffer(s[k].now, list[m].to, list[m].into, list[m].n, <<"command", m>>)
        BY <1>2, <2>1, <3>1 DEF Performed
      <4> QED BY <4>1, FilledOrNot
    <3>2. CASE ~s[k].ok
      BY <1>2, <3>2
    <3> QED BY <3>1, <3>2
  <2>4. Same(r[m], s[m])
    <3>1. CASE s[m].ok
      <4>1. r[k].ok /\ r[k].now = s[m].now /\ s[m].ok = TRUE
        BY <2>1, <2>3, <3>1 DEF Same
      <4>2. r[m].ok = TRUE /\ r[m].now = r[k].now
        BY <2>2, <4>1 DEF Done
      <4> QED BY <4>1, <4>2 DEF Same
    <3>2. CASE ~s[m].ok
      <4>1. r[m] = r[k]
        BY <2>1, <2>2, <3>2 DEF Same
      <4> QED BY <2>1, <4>1
    <3> QED BY <3>1, <3>2
  <2> QED BY <1>1, <1>4, <2>1, <2>4 DEF Reached
<1>6. CASE ~Fused(list, k) /\ Fused(list, m)
  <2>1. PICK o \in 1 .. n : o = m + 1
    BY <1>6 DEF Fused
  <2>2. /\ list[m].kind = "COPY" /\ list[o].kind = "FILL"
        /\ list[o].to = list[m].to /\ list[o].into = list[m].into
        /\ list[o].n <= list[m].n /\ list[o].n <= Packet
    BY <1>6, <2>1 DEF Fused
  <2>3. list[m].into \in Nat /\ list[m].n \in Nat /\ list[o].n \in Nat
    <3>1. list[m] \in Command /\ list[o] \in Command
      BY <1>3, <2>1, <2>2 DEF Entry
    <3> QED BY <2>2, <3>1, CommandIs
  <2>4. s[o] = IF s[m].ok THEN Performed(s[m].now, list[o], <<"command", o>>) ELSE s[m]
    <3>1. m \in 0 .. n - 1
      BY <2>1
    <3> QED BY <2>1, <3>1 DEF FoldRuns, NextOf
  <2> DEFINE g == s[k].now
             both == CopyThenFill(g, list[m].from, list[m].at, list[m].to, list[m].into, list[m].n,
                                  list[o].n, <<"command", o>>)
             copy == CopyBuffer(g, list[m].from, list[m].at, list[m].to, list[m].into, list[m].n)
             fill == FillBuffer(copy.now, list[m].to, list[m].into, list[o].n, <<"command", o>>)
  <2>5. both = IF copy.ok THEN fill ELSE copy
    <3>1. ~Overlaps(list[m].from, list[m].at, list[m].to, list[m].into, list[m].n)
      BY <2>2
    <3> HIDE DEF g
    <3>2. Ample(g)
      BY DEF g
    <3>3. list[o].n <= list[m].n /\ list[o].n <= Packet
      BY <2>2
    <3> QED BY <2>3, <3>1, <3>2, <3>3, JoinedIsBoth, SMTT(30)
  <2>6. r[m] = IF r[k].ok THEN
                 CopyThenFill(r[k].now, list[m].from, list[m].at, list[m].to, list[m].into, list[m].n,
                              list[o].n, <<"command", o>>)
               ELSE r[k]
    BY <1>1, <1>2, <1>6, <2>1 DEF NextTurn, TurnOf
  <2>7. Same(r[k], s[k])
    BY <1>6 DEF Reached
  <2>8. CASE s[k].ok
    <3>1. r[m] = both
      BY <2>6, <2>7, <2>8 DEF Same
    <3>2. s[m] = copy
      BY <1>2, <2>2, <2>8 DEF Performed
    <3>3. s[o] = IF copy.ok THEN fill ELSE copy
      <4>1. Performed(copy.now, list[o], <<"command", o>>) = fill
        <5> HIDE DEF copy
        <5> QED BY <2>2 DEF Performed
      <4> HIDE DEF copy, fill
      <4> QED BY <2>4, <3>2, <4>1
    <3> HIDE DEF both, copy, fill
    <3>4. Same(r[m], s[o])
      BY <2>5, <3>1, <3>3 DEF Same
    <3> QED BY <1>1, <1>4, <1>6, <2>1, <3>4 DEF Reached
  <2>9. CASE ~s[k].ok
    <3>1. r[m] = r[k] /\ s[m] = s[k] /\ s[o] = s[k]
      BY <1>2, <2>4, <2>6, <2>7, <2>9 DEF Same
    <3> QED BY <1>1, <1>4, <1>6, <2>1, <2>7, <3>1 DEF Reached
  <2> QED BY <2>8, <2>9
<1>7. CASE ~Fused(list, k) /\ ~Fused(list, m)
  <2>1. Same(r[k], s[k])
    BY <1>7 DEF Reached
  <2>2. r[m] = IF r[k].ok THEN Performed(r[k].now, list[m], <<"command", m>>) ELSE r[k]
    BY <1>1, <1>2, <1>7 DEF NextTurn, TurnOf
  <2>3. Same(r[m], s[m])
    BY <1>2, <2>1, <2>2 DEF Same
  <2> QED BY <1>1, <1>4, <1>7, <2>3 DEF Reached
<1> QED
  BY <1>5, <1>6, <1>7

LEMMA SubmittedInTurn ==
  ASSUME NEW f, Ample(f), NEW list \in Seq(Entry), NEW n \in Nat, n = Len(list),
         \A k \in 1 .. n : list[k].kind = "COPY" =>
           ~Overlaps(list[k].from, list[k].at, list[k].to, list[k].into, list[k].n)
  PROVE  Same(Folded(f, list, n, TRUE), Folded(f, list, n, FALSE))
<1>1. PICK r : FoldRuns(r, f, list, n, TRUE)
  BY FoldRun
<1>2. PICK s : FoldRuns(s, f, list, n, FALSE)
  BY FoldRun
<1> DEFINE good == {k \in Nat : k <= n => Ample(s[k].now) /\ Same(r[k], Reached(s, list, k))}
<1>3. 0 \in good
  <2>1. r[0] = Done(f) /\ s[0] = Done(f) /\ ~Fused(list, 0)
    BY <1>1, <1>2 DEF FoldRuns, Fused
  <2> QED BY <2>1 DEF Same, Reached, Done
<1>4. ASSUME NEW k \in Nat, k \in good PROVE k + 1 \in good
  <2> SUFFICES ASSUME k + 1 <= n PROVE Ample(s[k + 1].now) /\ Same(r[k + 1], Reached(s, list, k + 1))
    OBVIOUS
  <2>1. k \in 0 .. n - 1 /\ Ample(s[k].now) /\ Same(r[k], Reached(s, list, k))
    BY <1>4
  <2> HIDE DEF good
  <2> QED BY <1>1, <1>2, <2>1, StepsAlike
<1>5. n \in good
  <2> HIDE DEF good
  <2> QED BY <1>3, <1>4, ByInduction
<1>6. ~Fused(list, n)
  BY DEF Fused
<1>7. Same(r[n], Reached(s, list, n)) /\ Reached(s, list, n) = s[n]
  <2>1. n <= n
    OBVIOUS
  <2> QED BY <1>5, <1>6, <2>1 DEF Reached
<1> QED
  BY <1>1, <1>2, <1>7 DEF FoldRuns

\* The commands one after the other.
InTurn(f, list) ==
  LET Step(r, k) == LET Turn(g) == Performed(g, list[k], <<"command", k>>) IN Then(r, Turn)
  IN FoldLeft(Step, Done(f), [k \in 1 .. Len(list) |-> k])

LEMMA InTurnFolds ==
  ASSUME NEW f, NEW list, NEW n, n = Len(list)
  PROVE  InTurn(f, list) = Folded(f, list, n, FALSE)
  BY DEF InTurn, FoldLeft, MapThenFoldSet, Then, NextOf, Folded

LEMMA SubmissionsAreRight ==
  ASSUME Inv, AtRest(front) PROVE SubmissionIsItsCommands
<1> SUFFICES ASSUME NEW c \in Buffers, front.sequences = Plenty,
                    ~ \E k \in 1 .. Len(buffer[c].list) :
                        /\ buffer[c].list[k].kind = "COPY"
                        /\ Overlaps(buffer[c].list[k].from, buffer[c].list[k].at, buffer[c].list[k].to,
                                    buffer[c].list[k].into, buffer[c].list[k].n)
             PROVE  Same(Submission(front, buffer[c].list), InTurn(front, buffer[c].list))
  BY Zenon DEF SubmissionIsItsCommands, Same, InTurn
<1>1. PICK list \in Seq(Entry), n \in Nat : list = buffer[c].list /\ n = Len(list)
  BY BufferIs DEF BufferRecord
<1>2. Ample(front)
  BY FieldsAre DEF AtRest, Settled, Ample
<1>3. Same(Folded(front, list, n, TRUE), Folded(front, list, n, FALSE))
  BY <1>1, <1>2, SubmittedInTurn
<1> QED
  BY <1>1, <1>3, SubmissionFolds, InTurnFolds

\* Submitting a command buffer does what its commands do one after the other,
\* up to the first that is refused: the copy and the fill that queue_submit_
\* commands makes one packet included.
THEOREM SubmissionsAreTheirCommands == Spec => []SubmissionIsItsCommands
<1>1. Inv /\ AtRest(front) => SubmissionIsItsCommands
  BY SubmissionsAreRight
<1> QED
  BY <1>1, DeviceIsSound, DeviceRests, PTL
=============================================================================
