--------------------------- MODULE BindingsProofs ---------------------------
(***************************************************************************)
(* Proofs about the OpenGL-style context.  Its binding points count        *)
(* nothing: what they name is kept because destruction looks at them, or,  *)
(* for what a framebuffer draws to, because the pass of the framebuffer    *)
(* counts it.  So a framebuffer and its pass must never disagree, and that *)
(* is the heart of the invariant.                                          *)
(***************************************************************************)
EXTENDS Bindings, PassesProofs

-----------------------------------------------------------------------------
(* Calls that make and end nothing.                                        *)

\* Every pass draws to what it drew to.
Drawn(f, g) == \A r \in Pass : g.pass[r].color = f.pass[r].color /\ g.pass[r].depth = f.pass[r].depth

Follows(f, g) == FrontInv(g) /\ g.live = f.live /\ Drawn(f, g)

LEMMA FollowsItself == ASSUME NEW f, FrontInv(f) PROVE Follows(f, f)
  BY DEF Follows, Drawn

LEMMA FollowsOn ==
  ASSUME NEW f, NEW g, NEW h, Follows(f, g), Follows(g, h) PROVE Follows(f, h)
  BY DEF Follows, Drawn

LEMMA MovesFollows ==
  ASSUME NEW f, NEW g, FrontInv(f), Moves(f, g) PROVE Follows(f, g)
<1>1. g.live = f.live /\ g.pass = f.pass
  BY DEF Moves, Counters, Fields
<1> QED
  BY <1>1, MovesKeeps DEF Follows, Drawn

LEMMA LeavesFollows ==
  ASSUME NEW f, NEW g, Leaves(f, g), Drawn(f, g) PROVE Follows(f, g)
  BY DEF Leaves, Follows

LEMMA CallFollows ==
  ASSUME NEW r, FrontInv(r.now), Call(r) PROVE Follows(r.now, front')
  BY BytesMove, MovesFollows, StaysItself DEF Carries, Call

\* A field of one pass that says nothing of what it draws to.
LEMMA OneField ==
  ASSUME NEW f, FrontInv(f), NEW g, NEW r \in Pass, NEW x \in DOMAIN f.pass[r], NEW v,
         x # "color", x # "depth", g.pass = [f.pass EXCEPT ![r] = [@ EXCEPT ![x] = v]]
  PROVE  Drawn(f, g)
<1>1. /\ DOMAIN f.pass = Pass
      /\ DOMAIN f.pass[r] = {"color", "depth", "vertex", "index", "pipeline", "query", "begun", "scissor"}
  BY PassFields
<1> QED
  BY <1>1 DEF Drawn

LEMMA BindMemoryFollows ==
  ASSUME NEW f, FrontInv(f), NEW o \in Object, NEW m \in Memory, m \in f.live
  PROVE  Follows(f, BindMemory(f, o, m).now)
<1>1. BindMemory(f, o, m).now.pass = f.pass
  BY StaysItself DEF BindMemory, Done, Refused, Shaped, Fields
<1> QED
  BY <1>1, BindMemoryLeaves, LeavesFollows DEF Drawn

LEMMA SetSamplerFollows ==
  ASSUME NEW f, FrontInv(f), NEW p \in Pipeline, NEW s \in (f.live \cap Sampler) \cup {Nothing}
  PROVE  Follows(f, SetSampler(f, p, s).now)
<1>1. SetSampler(f, p, s).now.pass = f.pass
  BY StaysItself DEF SetSampler, Done, Refused, Shaped, Fields
<1> QED
  BY <1>1, SetSamplerLeaves, LeavesFollows DEF Drawn

LEMMA SignalFollows ==
  ASSUME NEW f, FrontInv(f), NEW t \in Timeline
  PROVE  Follows(f, Signal(f, t).now)
  BY SignalInv DEF Follows, Drawn

LEMMA BindPipelineFollows ==
  ASSUME NEW f, FrontInv(f), NEW r \in Pass, r \in f.live, NEW p \in Pipeline, p \in f.live
  PROVE  Follows(f, BindPipeline(f, r, p).now)
<1>1. Drawn(f, BindPipeline(f, r, p).now)
  BY PassFields DEF BindPipeline, Done, Refused, Shaped, Fields, Drawn
<1> QED
  BY <1>1, BindPipelineLeaves, LeavesFollows

LEMMA BindVertexFollows ==
  ASSUME NEW f, FrontInv(f), NEW r \in Pass, r \in f.live, NEW b \in Buffer, b \in f.live
  PROVE  Follows(f, BindVertex(f, r, b).now)
<1>1. Drawn(f, BindVertex(f, r, b).now)
  BY PassFields DEF BindVertex, Done, Refused, Shaped, Fields, Drawn
<1> QED
  BY <1>1, BindVertexLeaves, LeavesFollows

LEMMA BindIndexFollows ==
  ASSUME NEW f, FrontInv(f), NEW r \in Pass, r \in f.live, NEW b \in Buffer, b \in f.live
  PROVE  Follows(f, BindIndex(f, r, b).now)
<1>1. Drawn(f, BindIndex(f, r, b).now)
  BY PassFields DEF BindIndex, Done, Refused, Shaped, Fields, Drawn
<1> QED
  BY <1>1, BindIndexLeaves, LeavesFollows

LEMMA SetScissorFollows ==
  ASSUME NEW f, FrontInv(f), NEW r \in Pass, r \in f.live, NEW area
  PROVE  Follows(f, SetScissor(f, r, area).now)
<1>1. Drawn(f, SetScissor(f, r, area).now)
  BY PassFields DEF SetScissor, Done, Refused, Shaped, Fields, Drawn
<1> QED
  BY <1>1, SetScissorLeaves, LeavesFollows

LEMMA BeginQueryFollows ==
  ASSUME NEW f, FrontInv(f), NEW r \in Pass, r \in f.live, NEW q \in QueryPool, q \in f.live
  PROVE  Follows(f, BeginQuery(f, r, q).now)
<1>1. Drawn(f, BeginQuery(f, r, q).now)
  BY PassFields DEF BeginQuery, Done, Refused, Shaped, Fields, Drawn
<1> QED
  BY <1>1, BeginQueryLeaves, LeavesFollows

LEMMA EndQueryFollows ==
  ASSUME NEW f, FrontInv(f), NEW r \in Pass, r \in f.live
  PROVE  Follows(f, EndQuery(f, r).now)
<1>1. Drawn(f, EndQuery(f, r).now)
  BY PassFields DEF EndQuery, Done, Refused, Shaped, Fields, Drawn
<1> QED
  BY <1>1, EndQueryLeaves, LeavesFollows

\* A pass that is marked begun, or not.
LEMMA MarkedFollows ==
  ASSUME NEW f, FrontInv(f), NEW r \in Pass, r \in f.live, NEW begun \in BOOLEAN,
         begun \/ f.pass[r].query = Nothing
  PROVE  Follows(f, [f EXCEPT !.pass[r].begun = begun])
<1>1. Drawn(f, [f EXCEPT !.pass[r].begun = begun])
  BY PassFields DEF Shaped, Fields, Drawn
<1> QED
  BY <1>1, MarkedIs DEF Follows

LEMMA BeginPassFollows ==
  ASSUME NEW f, FrontInv(f), NEW r \in Pass, r \in f.live, NEW cleared
  PROVE  /\ Follows(f, BeginPass(f, r, cleared).now)
         /\ ~f.pass[r].begun => BeginPass(f, r, cleared).now.pass[r].query = Nothing
<1>1. CASE BeginPass(f, r, cleared).ok
  <2>1. PICK begun \in BOOLEAN : begun = TRUE
    OBVIOUS
  <2>2. BeginPass(f, r, cleared).now = [f EXCEPT !.pass[r].begun = begun]
    BY <1>1, <2>1 DEF BeginPass, Refused, Done
  <2>3. Follows(f, [f EXCEPT !.pass[r].begun = begun])
    BY <2>1, MarkedFollows
  <2>4. BeginPass(f, r, cleared).now.pass[r].query = Nothing
    BY <1>1, BeginPassInv
  <2> QED BY <2>2, <2>3, <2>4
<1>2. CASE ~BeginPass(f, r, cleared).ok
  <2>1. BeginPass(f, r, cleared).now = f
    BY <1>2 DEF BeginPass, Refused, Done
  <2> QED BY <2>1, FollowsItself DEF FrontInv, PassesHold
<1> QED
  BY <1>1, <1>2

LEMMA EndPassFollows ==
  ASSUME NEW f, FrontInv(f), NEW r \in Pass, r \in f.live
  PROVE  Follows(f, EndPass(f, r).now)
<1>1. PICK begun \in BOOLEAN : begun = FALSE
  OBVIOUS
<1>2. EndPass(f, r).now = f \/ (EndPass(f, r).now = [f EXCEPT !.pass[r].begun = begun]
                                /\ f.pass[r].query = Nothing)
  BY <1>1 DEF EndPass, Refused, Done
<1> QED
  BY <1>2, MarkedFollows, FollowsItself

\* The loads move bytes only; when they fail the mark is taken away.
LEMMA BeginPassNowFollows ==
  ASSUME NEW f, FrontInv(f), NEW r \in Pass, r \in f.live, NEW cleared, NEW v
  PROVE  Follows(f, BeginPassNow(f, r, cleared, v).now)
<1> DEFINE b == BeginPass(f, r, cleared)
           loaded == IF b.ok THEN ApplyLoads(b.now, r, cleared, v) ELSE b
<1>1. BeginPassNow(f, r, cleared, v) =
        IF loaded.ok \/ f.pass[r].begun THEN loaded
        ELSE Refused([loaded.now EXCEPT !.pass[r].begun = FALSE])
  BY DEF BeginPassNow, Then
<1>2. Follows(f, b.now) /\ (~f.pass[r].begun => b.now.pass[r].query = Nothing)
  BY BeginPassFollows
<1> HIDE DEF b
<1>3. FrontInv(b.now) /\ Shaped(b.now)
  BY <1>2, StaysItself DEF Follows
<1>4. /\ Follows(f, loaded.now) /\ (~f.pass[r].begun => loaded.now.pass[r].query = Nothing)
  <2>1. CASE b.ok
    <3>1. Moves(b.now, loaded.now)
      BY <1>3, <2>1, ApplyLoadsMoves DEF Carries
    <3>2. loaded.now.pass = b.now.pass
      BY <3>1 DEF Moves, Counters, Fields
    <3>3. Follows(b.now, loaded.now)
      BY <1>3, <3>1, MovesFollows
    <3> QED BY <1>2, <3>2, <3>3, FollowsOn
  <2>2. CASE ~b.ok
    BY <1>2, <2>2
  <2> QED BY <2>1, <2>2
<1> HIDE DEF loaded
<1>5. ~f.pass[r].begun => Follows(loaded.now, [loaded.now EXCEPT !.pass[r].begun = FALSE])
  <2>1. PICK begun \in BOOLEAN : begun = FALSE
    OBVIOUS
  <2>2. FrontInv(loaded.now) /\ loaded.now.live = f.live
    BY <1>4 DEF Follows
  <2>3. ~f.pass[r].begun => Follows(loaded.now, [loaded.now EXCEPT !.pass[r].begun = begun])
    BY <1>4, <2>2, MarkedFollows
  <2> QED BY <2>1, <2>3
<1>6. ~f.pass[r].begun => Follows(f, [loaded.now EXCEPT !.pass[r].begun = FALSE])
  BY <1>4, <1>5, FollowsOn
<1> QED
  BY <1>1, <1>4, <1>6 DEF Refused

LEMMA ClearNowFollows ==
  ASSUME NEW f, FrontInv(f), NEW r, NEW v
  PROVE  Follows(f, ClearNow(f, r, v).now) /\ Follows(f, ClearDepthNow(f, r, v).now)
<1>1. Shaped(f)
  BY StaysItself
<1>2. ClearNow(f, r, v).now \in {f, ClearPass(f, r, Area(f, r), v).now}
  BY DEF ClearNow, Refused
<1>3. ClearDepthNow(f, r, v).now \in {f, ClearPassDepth(f, r, Area(f, r), v).now}
  BY DEF ClearDepthNow, Refused
<1> QED
  BY <1>1, <1>2, <1>3, ClearPassMoves, MovesFollows, FollowsItself DEF Carries

-----------------------------------------------------------------------------
(* Calls that make or end an object.                                       *)

\* A call that makes x, or fails; one that ends x, or fails: no pass notices.
Makes(f, r, x) ==
  /\ FrontInv(r.now) /\ Drawn(f, r.now) /\ r.now.live = IF r.ok THEN f.live \cup {x} ELSE f.live
Ends(f, r, x) ==
  /\ FrontInv(r.now) /\ Drawn(f, r.now) /\ r.now.live = IF r.ok THEN f.live \ {x} ELSE f.live

LEMMA OpensMakes ==
  ASSUME NEW f, NEW r, NEW x, Opens(f, r, x), r.now.pass = f.pass PROVE Makes(f, r, x)
  BY DEF Opens, Makes, Drawn

LEMMA ClosesEnds ==
  ASSUME NEW f, NEW r, NEW x, Closes(f, r, x), r.now.pass = f.pass PROVE Ends(f, r, x)
  BY DEF Closes, Ends, Drawn

LEMMA ImageMade ==
  ASSUME NEW f, FrontInv(f), NEW i \in Image, i \notin f.live, NEW left
  PROVE  Makes(f, CreateImage(f, i, "heap", "UNDEFINED", left), i)
<1> DEFINE g == [Fresh(f, i, "heap") EXCEPT !.state[i] = "UNDEFINED", !.revisions[i] = left]
           r == Entered(g, i, "UNDEFINED")
<1>1. Shaped(f)
  BY StaysItself
<1>2. Shaped(g) /\ g.pass = f.pass
  BY <1>1 DEF Shaped, Fields, Fresh
<1>3. CreateImage(f, i, "heap", "UNDEFINED", left) =
        IF r.ok THEN Done(Made(r.now, "image", i)) ELSE Refused(Forgotten(f))
  BY DEF CreateImage
<1> HIDE DEF g
<1>4. Moves(g, r.now)
  BY <1>2, EnteredMoves DEF Carries
<1>5. Shaped(r.now) /\ r.now.pass = f.pass
  BY <1>2, <1>4 DEF Moves, Counters, Fields
<1> HIDE DEF r
<1>6. Made(r.now, "image", i).pass = f.pass /\ Forgotten(f).pass = f.pass
  BY <1>1, <1>5 DEF Made, Forgotten, Shaped, Fields
<1>8. CreateImage(f, i, "heap", "UNDEFINED", left).now.pass = f.pass
  BY <1>3, <1>6 DEF Done, Refused
<1>7. "UNDEFINED" \in Layout
  BY DEF Layout
<1> QED
  BY <1>7, <1>8, ImageOpens, OpensMakes

LEMMA ImageEnded ==
  ASSUME NEW f, FrontInv(f), NEW i \in Image, i \in f.live
  PROVE  Ends(f, DestroyImage(f, i), i)
  BY ImageCloses DEF Ends, Drawn

LEMMA BufferMade ==
  ASSUME NEW f, FrontInv(f), NEW b \in Buffer, b \notin f.live
  PROVE  /\ \A home \in {"heap", Nothing} : Makes(f, CreateBuffer(f, b, home), b)
         /\ Makes(f, CreateBufferInVain(f), b)
<1>1. CreateBufferInVain(f).now.pass = f.pass
  BY StaysItself DEF CreateBufferInVain, Refused, Shaped, Fields
<1>2. \A home \in {"heap", Nothing} : CreateBuffer(f, b, home).now.pass = f.pass
  BY StaysItself DEF CreateBuffer, Done, Made, Fresh, Shaped, Fields
<1> QED
  BY <1>1, <1>2, BufferOpens, BufferInVainOpens, OpensMakes

LEMMA BufferEnded ==
  ASSUME NEW f, FrontInv(f), NEW b \in Buffer, b \in f.live
  PROVE  Ends(f, DestroyBuffer(f, b), b)
<1>1. DestroyBuffer(f, b).now.pass = f.pass
  BY StaysItself DEF DestroyBuffer, Done, Refused, Gone, Fresh, Shaped, Fields
<1> QED
  BY <1>1, BufferCloses, ClosesEnds

LEMMA MemoryMade ==
  ASSUME NEW f, FrontInv(f), NEW m \in Memory, m \notin f.live
  PROVE  Makes(f, CreateMemory(f, m), m)
<1>1. CreateMemory(f, m).now.pass = f.pass
  BY StaysItself DEF CreateMemory, Done, Made, Shaped, Fields
<1> QED
  BY <1>1, MemoryOpens, OpensMakes

LEMMA MemoryEnded ==
  ASSUME NEW f, FrontInv(f), NEW m \in Memory, m \in f.live
  PROVE  Ends(f, DestroyMemory(f, m), m)
<1>1. DestroyMemory(f, m).now.pass = f.pass
  BY StaysItself DEF DestroyMemory, Done, Refused, Gone, Shaped, Fields
<1> QED
  BY <1>1, MemoryCloses, ClosesEnds

LEMMA SamplerMade ==
  ASSUME NEW f, FrontInv(f), NEW s \in Sampler, s \notin f.live
  PROVE  Makes(f, CreateSampler(f, s), s)
<1>1. CreateSampler(f, s).now.pass = f.pass
  BY StaysItself DEF CreateSampler, Done, Made, Shaped, Fields
<1> QED
  BY <1>1, SamplerOpens, OpensMakes

LEMMA SamplerEnded ==
  ASSUME NEW f, FrontInv(f), NEW s \in Sampler, s \in f.live
  PROVE  Ends(f, DestroySampler(f, s), s)
<1>1. DestroySampler(f, s).now.pass = f.pass
  BY StaysItself DEF DestroySampler, Done, Refused, Gone, Shaped, Fields
<1> QED
  BY <1>1, SamplerCloses, ClosesEnds

LEMMA PipelineMade ==
  ASSUME NEW f, FrontInv(f), NEW p \in Pipeline, p \notin f.live,
         NEW sampled \in SUBSET (f.live \cap Image), NEW uniforms \in SUBSET (f.live \cap Buffer)
  PROVE  /\ Makes(f, CreatePipeline(f, p, Nothing, sampled, uniforms), p)
         /\ \A target \in f.live \cap Image :
              Makes(f, CreateGraphicsPipeline(f, p, target, sampled, uniforms), p)
<1>1. \A target : CreatePipeline(f, p, target, sampled, uniforms).now.pass = f.pass
  BY StaysItself DEF CreatePipeline, Done, Refused, Made, Shaped, Fields
<1>2. \A target : CreateGraphicsPipeline(f, p, target, sampled, uniforms).now.pass = f.pass
  BY <1>1 DEF CreateGraphicsPipeline, Refused
<1>3. Opens(f, CreatePipeline(f, p, Nothing, sampled, uniforms), p)
  BY PipelineOpens
<1>4. \A target \in f.live \cap Image :
        Opens(f, CreateGraphicsPipeline(f, p, target, sampled, uniforms), p)
  BY GraphicsPipelineOpens
<1> QED
  BY <1>1, <1>2, <1>3, <1>4, OpensMakes

LEMMA PipelineEnded ==
  ASSUME NEW f, FrontInv(f), NEW p \in Pipeline, p \in f.live
  PROVE  Ends(f, DestroyPipeline(f, p), p)
<1>1. DestroyPipeline(f, p).now.pass = f.pass
  BY StaysItself DEF DestroyPipeline, Done, Refused, Gone, Shaped, Fields
<1> QED
  BY <1>1, PipelineCloses, ClosesEnds

LEMMA QueryPoolMade ==
  ASSUME NEW f, FrontInv(f), NEW q \in QueryPool, q \notin f.live
  PROVE  Makes(f, CreateQueryPool(f, q), q)
<1>1. CreateQueryPool(f, q).now.pass = f.pass
  BY StaysItself DEF CreateQueryPool, Done, Made, Shaped, Fields
<1> QED
  BY <1>1, QueryPoolOpens, OpensMakes

LEMMA QueryPoolEnded ==
  ASSUME NEW f, FrontInv(f), NEW q \in QueryPool, q \in f.live
  PROVE  Ends(f, DestroyQueryPool(f, q), q)
<1>1. DestroyQueryPool(f, q).now.pass = f.pass
  BY StaysItself DEF DestroyQueryPool, Done, Refused, Gone, Shaped, Fields
<1> QED
  BY <1>1, QueryPoolCloses, ClosesEnds

LEMMA TimelineEnded ==
  ASSUME NEW f, FrontInv(f), NEW t \in Timeline, t \in f.live
  PROVE  Ends(f, DestroyTimeline(f, t), t)
<1>1. DestroyTimeline(f, t).now.pass = f.pass
  BY StaysItself DEF DestroyTimeline, Done, Gone, Shaped, Fields
<1> QED
  BY <1>1, TimelineCloses, ClosesEnds

-----------------------------------------------------------------------------
(* The invariant.                                                          *)

FrameRecord ==
  [there : BOOLEAN, color : Image \cup {Nothing}, depth : Image \cup {Nothing}, pass : Pass \cup {Nothing}]

BoundRecord ==
  [samples : [Unit -> Texture \cup {Nothing}], sample : Texture \cup {Nothing},
   uniforms : [Unit -> Buffer \cup {Nothing}], ranged : SUBSET Unit, uniform : Buffer \cup {Nothing},
   unpack : Buffer \cup {Nothing}, pack : Buffer \cup {Nothing},
   program : Pipeline \cup {Nothing}, sampler : Sampler \cup {Nothing},
   target : Framebuffer \cup {Nothing}]

ContextType ==
  /\ open \in BOOLEAN /\ attachments \in [Image -> Int]
  /\ frame \in [Framebuffer -> FrameRecord] /\ bound \in BoundRecord

\* What the binding points name.
Bounds ==
  /\ \A u \in Unit : {bound.samples[u], bound.uniforms[u]} \subseteq front.live \cup {Nothing}
  /\ bound.sample # Nothing => \E u \in Unit : bound.sample = bound.samples[u]
  /\ {bound.unpack, bound.pack, bound.uniform, bound.program, bound.sampler}
       \subseteq front.live \cup {Nothing}
  /\ bound.target \in Frames \cup {Nothing}

\* The passes that exist are those of the framebuffers, and a framebuffer that
\* is not there is blank.
PassesAreFramed ==
  /\ \A b \in Framebuffer : b \in Frames \/ frame[b] = NoFrame
  /\ \A b \in Frames : frame[b].pass \in front.live \cup {Nothing}
  /\ \A r \in Pass \cap front.live : \E b \in Frames : frame[b].pass = r

\* What the application has made and can destroy.
Children == front.live \ (Timeline \cup Pass)

Attached(i) ==
  Cardinality({b \in Frames : frame[b].color = i}) + Cardinality({b \in Frames : frame[b].depth = i})

ContextCounts ==
  /\ child = Cardinality(Children) + Cardinality(Frames)
  /\ \A i \in Image : attachments[i] = Attached(i)

Context ==
  /\ front.live \cap Timeline = IF open THEN {Finished} ELSE {}
  /\ ~open => child = 0

Inv ==
  /\ ContextType /\ FrontInv(front) /\ Bounds /\ FramesAreTheirPasses /\ PassesAreFramed
  /\ ContextCounts /\ Context

\* Nothing that x is, is bound.
Loose(x) ==
  /\ \A u \in Unit : x \notin {bound.samples[u], bound.uniforms[u]}
  /\ x \notin {bound.unpack, bound.pack, bound.uniform, bound.program, bound.sampler}

LEMMA LiveFinite ==
  ASSUME NEW f, FrontInv(f) PROVE IsFiniteSet(f.live)
<1>1. /\ IsFiniteSet(Image) /\ IsFiniteSet(Buffer) /\ IsFiniteSet(Memory) /\ IsFiniteSet(Timeline)
      /\ IsFiniteSet(Pipeline) /\ IsFiniteSet(Sampler) /\ IsFiniteSet(Pass) /\ IsFiniteSet(QueryPool)
  BY KindsAre, KindIs DEF Kind
<1>2. IsFiniteSet(Kinds)
  BY <1>1, KindsAre, FS_Union
<1> QED
  BY <1>2, FS_Subset DEF FrontInv, FrontType

LEMMA FramesFinite ==
  ASSUME Inv
  PROVE  /\ IsFiniteSet(Frames) /\ Cardinality(Frames) \in Nat
         /\ IsFiniteSet(Children) /\ Cardinality(Children) \in Nat
         /\ \A i : /\ Cardinality({b \in Frames : frame[b].color = i}) \in Nat
                   /\ Cardinality({b \in Frames : frame[b].depth = i}) \in Nat
                   /\ IsFiniteSet({b \in Frames : frame[b].color = i})
                   /\ IsFiniteSet({b \in Frames : frame[b].depth = i})
<1>1. IsFiniteSet(Frames)
  BY BindingsAssumption, FS_Subset DEF Frames
<1>3. IsFiniteSet(Children)
  BY LiveFinite, FS_Subset DEF Inv, Children
<1>4. \A i : {b \in Frames : frame[b].color = i} \subseteq Frames /\ {b \in Frames : frame[b].depth = i} \subseteq Frames
  OBVIOUS
<1>5. \A i : /\ IsFiniteSet({b \in Frames : frame[b].color = i})
             /\ IsFiniteSet({b \in Frames : frame[b].depth = i})
  BY <1>1, <1>4, FS_Subset
<1> QED
  BY <1>1, <1>3, <1>5, FS_CardinalityType

\* What framebuffers and passes are to each other survives what leaves the
\* passes, and their framebuffers, alone.
LEMMA FrontGoesOn ==
  ASSUME Inv, FrontInv(front'), Drawn(front, front'),
         front'.live \cap (Timeline \cup Pass) = front.live \cap (Timeline \cup Pass),
         \A x \in front.live : x \in front'.live \/ Loose(x),
         child' = child + Cardinality(Children') - Cardinality(Children),
         UNCHANGED <<attachments, frame, bound>>, open, open' = open
  PROVE  Inv'
<1>1. ContextType' /\ Frames' = Frames
  BY DEF Inv, ContextType, Frames
<1>2. Bounds'
  <2>1. \A x : x # Nothing /\ ~Loose(x) /\ x \in front.live => x \in front'.live
    OBVIOUS
  <2> QED BY <1>1, <2>1 DEF Inv, Bounds, Loose
<1>3. \A b \in Frames : frame[b].pass # Nothing => frame[b].pass \in Pass
  BY DEF Inv, ContextType, FrameRecord, Frames
<1>4. FramesAreTheirPasses'
  BY <1>1, <1>3 DEF Inv, FramesAreTheirPasses, Drawn
<1>5. PassesAreFramed'
  BY <1>1, <1>3 DEF Inv, PassesAreFramed
<1>6. ContextCounts'
  <2>1. child = Cardinality(Children) + Cardinality(Frames) /\ Cardinality(Frames) \in Nat
        /\ Cardinality(Children) \in Nat
    BY FramesFinite DEF Inv, ContextCounts
  <2>2. Cardinality(Children') \in Nat
    BY LiveFinite, FS_Subset, FS_CardinalityType DEF Children
  <2>3. child' = Cardinality(Children') + Cardinality(Frames')
    BY <1>1, <2>1, <2>2
  <2>4. \A i \in Image : Attached(i)' = Attached(i)
    BY <1>1 DEF Attached
  <2> QED BY <2>3, <2>4 DEF Inv, ContextCounts
<1>7. Context'
  BY DEF Inv, Context
<1> QED
  BY <1>1, <1>2, <1>4, <1>5, <1>6, <1>7 DEF Inv

-----------------------------------------------------------------------------
(* Steps that leave framebuffers alone.                                    *)

LEMMA FollowsStep ==
  ASSUME Inv, open, NEW r, Follows(front, r.now), Call(r), child' = child, Keeps
  PROVE  Inv'
<1>1. Follows(front, front')
  BY CallFollows, FollowsOn DEF Follows
<1>2. Cardinality(Children') = Cardinality(Children) /\ Cardinality(Children) \in Nat
  BY <1>1, FramesFinite DEF Follows, Children
<1>3. child \in Int
  BY FramesFinite DEF Inv, ContextCounts
<1>4. child' = child + Cardinality(Children') - Cardinality(Children)
  BY <1>2, <1>3
<1> QED
  BY <1>1, <1>4, FrontGoesOn DEF Follows, Keeps

LEMMA MovesStep ==
  ASSUME Inv, open, NEW r, Moves(front, r.now), Call(r), child' = child, Keeps
  PROVE  Inv'
  BY MovesFollows, FollowsStep DEF Inv

\* What a framebuffer is to the application, and what is its own.
Child == Kinds \ (Timeline \cup Pass)

LEMMA MakesStep ==
  ASSUME Inv, open, NEW x \in Child, x \notin front.live, NEW r, Makes(front, r, x), Created(r), Keeps
  PROVE  Inv'
<1>1. Follows(r.now, front')
  BY CallFollows DEF Makes, Created
<1>2. /\ FrontInv(front') /\ Drawn(front, front')
      /\ front'.live = IF r.ok THEN front.live \cup {x} ELSE front.live
  BY <1>1 DEF Makes, Follows, Drawn
<1>3. IsFiniteSet(Children) /\ Cardinality(Children) \in Nat /\ x \notin Children
  BY FramesFinite DEF Children
<1>4. Children' = IF r.ok THEN Children \cup {x} ELSE Children
  BY <1>2 DEF Children, Child
<1>5. Cardinality(Children \cup {x}) = Cardinality(Children) + 1
  BY <1>3, FS_AddElement
<1>6. child \in Int
  BY FramesFinite DEF Inv, ContextCounts
<1>7. child' = child + Cardinality(Children') - Cardinality(Children)
  BY <1>3, <1>4, <1>5, <1>6 DEF Created
<1>8. /\ front'.live \cap (Timeline \cup Pass) = front.live \cap (Timeline \cup Pass)
      /\ \A y \in front.live : y \in front'.live
  BY <1>2 DEF Child
<1> QED
  BY <1>2, <1>7, <1>8, FrontGoesOn DEF Keeps

LEMMA EndsStep ==
  ASSUME Inv, open, NEW x \in Child, x \in front.live, Loose(x), NEW r, Ends(front, r, x), Destroyed(r), Keeps
  PROVE  Inv'
<1>1. Follows(r.now, front')
  BY CallFollows DEF Ends, Destroyed
<1>2. /\ FrontInv(front') /\ Drawn(front, front')
      /\ front'.live = IF r.ok THEN front.live \ {x} ELSE front.live
  BY <1>1 DEF Ends, Follows, Drawn
<1>3. IsFiniteSet(Children) /\ Cardinality(Children) \in Nat /\ x \in Children
  BY FramesFinite DEF Children, Child
<1>4. Children' = IF r.ok THEN Children \ {x} ELSE Children
  BY <1>2 DEF Children
<1>5. Cardinality(Children \ {x}) = Cardinality(Children) - 1
  BY <1>3, FS_RemoveElement
<1>6. child \in Int
  BY FramesFinite DEF Inv, ContextCounts
<1>7. child' = child + Cardinality(Children') - Cardinality(Children)
  BY <1>3, <1>4, <1>5, <1>6 DEF Destroyed
<1>8. /\ front'.live \cap (Timeline \cup Pass) = front.live \cap (Timeline \cup Pass)
      /\ \A y \in front.live : y \in front'.live \/ Loose(y)
  BY <1>2 DEF Child
<1> QED
  BY <1>2, <1>7, <1>8, FrontGoesOn DEF Keeps

-----------------------------------------------------------------------------
(* Objects.                                                                *)

LEMMA ChildIs ==
  /\ Image \cup Buffer \cup Memory \cup Pipeline \cup Sampler \cup QueryPool \subseteq Child
  /\ Texture \subseteq Image
<1>1. Texture \subseteq Image
  BY BindingsAssumption, TransfersAssumption
<1> QED
  BY <1>1, KindsApart, KindsAre DEF Child

\* The binding points that destruction of an object must look at.
LEMMA LooseOnes ==
  ASSUME Inv
  PROVE  /\ \A i \in Image : (i \notin Texture \/ \A u \in Unit : bound.samples[u] # i) => Loose(i)
         /\ \A b \in Buffer : /\ b \notin {bound.unpack, bound.pack, bound.uniform}
                              /\ \A u \in Unit : bound.uniforms[u] # b
                              => Loose(b)
         /\ \A x \in Memory \cup QueryPool : Loose(x)
         /\ \A x \in Sampler : bound.sampler # x => Loose(x)
         /\ \A p \in Pipeline : bound.program # p => Loose(p)
<1>1. /\ \A u \in Unit : bound.samples[u] \in Texture \cup {Nothing} /\ bound.uniforms[u] \in Buffer \cup {Nothing}
      /\ {bound.unpack, bound.pack, bound.uniform} \subseteq Buffer \cup {Nothing}
      /\ bound.program \in Pipeline \cup {Nothing} /\ bound.sampler \in Sampler \cup {Nothing}
  BY DEF Inv, ContextType, BoundRecord
<1>2. Nothing \notin Kinds
  BY KindsApart
<1>3. Texture \subseteq Image
  BY ChildIs
<1>4. \A i \in Image : i \notin Buffer /\ i \notin Pipeline /\ i \notin Sampler /\ i # Nothing
  BY <1>2, KindsApart, KindsAre
<1>5. \A b \in Buffer : b \notin Image /\ b \notin Pipeline /\ b \notin Sampler /\ b # Nothing
  BY <1>2, KindsApart, KindsAre
<1>6. \A x \in Memory \cup QueryPool : x \notin Image /\ x \notin Buffer /\ x \notin Pipeline /\ x \notin Sampler /\ x # Nothing
  BY <1>2, KindsApart, KindsAre
<1>7. \A x \in Sampler : x \notin Image /\ x \notin Buffer /\ x \notin Pipeline /\ x # Nothing
  BY <1>2, KindsApart, KindsAre
<1>8. \A p \in Pipeline : p \notin Image /\ p \notin Buffer /\ p \notin Sampler /\ p # Nothing
  BY <1>2, KindsApart, KindsAre
<1>9. \A i \in Image : (i \notin Texture \/ \A u \in Unit : bound.samples[u] # i) => Loose(i)
  BY <1>1, <1>3, <1>4 DEF Loose
<1>10. \A b \in Buffer : /\ b \notin {bound.unpack, bound.pack, bound.uniform}
                         /\ \A u \in Unit : bound.uniforms[u] # b
                         => Loose(b)
  BY <1>1, <1>3, <1>5 DEF Loose
<1>11. \A x \in Memory \cup QueryPool : Loose(x)
  BY <1>1, <1>3, <1>6 DEF Loose
<1>12. \A x \in Sampler : bound.sampler # x => Loose(x)
  BY <1>1, <1>3, <1>7 DEF Loose
<1>13. \A p \in Pipeline : bound.program # p => Loose(p)
  BY <1>1, <1>3, <1>8 DEF Loose
<1> QED
  BY <1>9, <1>10, <1>11, <1>12, <1>13

LEMMA Objects ==
  ASSUME Inv, open,
         \/ MakeTexture \/ EndTexture \/ MakeRenderbuffer \/ EndRenderbuffer
         \/ AllocateMemory \/ FreeMemory \/ MakeBuffer \/ MakeUnboundBuffer \/ EndBuffer
         \/ MakeSampler \/ EndSampler \/ MakeQuery \/ EndQueryObject
         \/ MakeGraphicsProgram \/ MakeComputeProgram \/ EndProgram
  PROVE  Inv'
<1>0. FrontInv(front)
  BY DEF Inv
<1>1. CASE MakeTexture \/ MakeRenderbuffer
  <2>1. PICK i \in Image, left \in Revision : i \notin front.live /\ Created(Imaged(i, left)) /\ Keeps
    BY <1>1, KindIs DEF MakeTexture, MakeRenderbuffer, Free
  <2>2. Makes(front, Imaged(i, left), i)
    BY <1>0, <2>1, ImageMade DEF Imaged
  <2> QED BY <2>1, <2>2, ChildIs, MakesStep
<1>2. CASE EndTexture \/ EndRenderbuffer
  <2>1. PICK i \in Image : /\ i \in front.live /\ Destroyed(DestroyImage(front, i)) /\ Keeps
                           /\ i \notin Texture \/ \A u \in Unit : bound.samples[u] # i
    BY <1>2, KindIs DEF EndTexture, EndRenderbuffer, Live, Renderbuffer
  <2>2. Ends(front, DestroyImage(front, i), i) /\ Loose(i)
    BY <1>0, <2>1, ImageEnded, LooseOnes
  <2> QED BY <2>1, <2>2, ChildIs, EndsStep
<1>3. CASE AllocateMemory
  <2>1. PICK m \in Memory : m \notin front.live /\ Created(CreateMemory(front, m)) /\ Keeps
    BY <1>3, KindIs DEF AllocateMemory, Free
  <2>2. Makes(front, CreateMemory(front, m), m)
    BY <1>0, <2>1, MemoryMade
  <2> QED BY <2>1, <2>2, ChildIs, MakesStep
<1>4. CASE FreeMemory
  <2>1. PICK m \in Memory : m \in front.live /\ Destroyed(DestroyMemory(front, m)) /\ Keeps
    BY <1>4, KindIs DEF FreeMemory, Live
  <2>2. Ends(front, DestroyMemory(front, m), m) /\ Loose(m)
    BY <1>0, <2>1, MemoryEnded, LooseOnes
  <2> QED BY <2>1, <2>2, ChildIs, EndsStep
<1>5. CASE MakeBuffer \/ MakeUnboundBuffer
  <2>1. PICK b \in Buffer :
          /\ b \notin front.live /\ Keeps
          /\ \/ Created(CreateBuffer(front, b, "heap")) \/ Created(CreateBuffer(front, b, Nothing))
             \/ Created(CreateBufferInVain(front))
    BY <1>5, KindIs DEF MakeBuffer, MakeUnboundBuffer, Free
  <2>2. /\ Makes(front, CreateBuffer(front, b, "heap"), b)
        /\ Makes(front, CreateBuffer(front, b, Nothing), b)
        /\ Makes(front, CreateBufferInVain(front), b)
    BY <1>0, <2>1, BufferMade
  <2> QED BY <2>1, <2>2, ChildIs, MakesStep
<1>6. CASE EndBuffer
  <2>1. PICK b \in Buffer : /\ b \in front.live /\ Destroyed(DestroyBuffer(front, b)) /\ Keeps
                            /\ b \notin {bound.unpack, bound.pack, bound.uniform}
                            /\ \A u \in Unit : bound.uniforms[u] # b
    BY <1>6, KindIs DEF EndBuffer, Live
  <2>2. Ends(front, DestroyBuffer(front, b), b) /\ Loose(b)
    BY <1>0, <2>1, BufferEnded, LooseOnes
  <2> QED BY <2>1, <2>2, ChildIs, EndsStep
<1>7. CASE MakeSampler
  <2>1. PICK s \in Sampler : s \notin front.live /\ Created(CreateSampler(front, s)) /\ Keeps
    BY <1>7, KindIs DEF MakeSampler, Free
  <2>2. Makes(front, CreateSampler(front, s), s)
    BY <1>0, <2>1, SamplerMade
  <2> QED BY <2>1, <2>2, ChildIs, MakesStep
<1>8. CASE EndSampler
  <2>1. PICK s \in Sampler : s \in front.live /\ Destroyed(DestroySampler(front, s)) /\ Keeps /\ bound.sampler # s
    BY <1>8, KindIs DEF EndSampler, Live
  <2>2. Ends(front, DestroySampler(front, s), s) /\ Loose(s)
    BY <1>0, <2>1, SamplerEnded, LooseOnes
  <2> QED BY <2>1, <2>2, ChildIs, EndsStep
<1>9. CASE MakeQuery
  <2>1. PICK q \in QueryPool : q \notin front.live /\ Created(CreateQueryPool(front, q)) /\ Keeps
    BY <1>9, KindIs DEF MakeQuery, Free
  <2>2. Makes(front, CreateQueryPool(front, q), q)
    BY <1>0, <2>1, QueryPoolMade
  <2> QED BY <2>1, <2>2, ChildIs, MakesStep
<1>10. CASE EndQueryObject
  <2>1. PICK q \in QueryPool : q \in front.live /\ Destroyed(DestroyQueryPool(front, q)) /\ Keeps
    BY <1>10, KindIs DEF EndQueryObject, Live
  <2>2. Ends(front, DestroyQueryPool(front, q), q) /\ Loose(q)
    BY <1>0, <2>1, QueryPoolEnded, LooseOnes
  <2> QED BY <2>1, <2>2, ChildIs, EndsStep
<1>11. CASE MakeGraphicsProgram \/ MakeComputeProgram
  <2>1. /\ \A s \in Sampleds : s \subseteq front.live \cap Image
        /\ \A s \in Uniforms : s \subseteq front.live \cap Buffer
    BY KindIs DEF Sampleds, Uniforms, Live
  <2>2. CASE MakeGraphicsProgram
    <3>1. PICK p \in Pipeline, target \in front.live \cap Image, sampled \in Sampleds, uniforms \in Uniforms :
            /\ p \notin front.live /\ Keeps
            /\ Created(CreateGraphicsPipeline(front, p, target, sampled, uniforms))
      BY <2>2, KindIs DEF MakeGraphicsProgram, Free, Live, Renderbuffer
    <3>2. Makes(front, CreateGraphicsPipeline(front, p, target, sampled, uniforms), p)
      BY <1>0, <2>1, <3>1, PipelineMade
    <3> QED BY <3>1, <3>2, ChildIs, MakesStep
  <2>3. CASE MakeComputeProgram
    <3>1. PICK p \in Pipeline, sampled \in Sampleds, uniforms \in Uniforms :
            /\ p \notin front.live /\ Keeps
            /\ Created(CreatePipeline(front, p, Nothing, sampled, uniforms))
      BY <2>3, KindIs DEF MakeComputeProgram, Free
    <3>2. Makes(front, CreatePipeline(front, p, Nothing, sampled, uniforms), p)
      BY <1>0, <2>1, <3>1, PipelineMade
    <3> QED BY <3>1, <3>2, ChildIs, MakesStep
  <2> QED BY <1>11, <2>2, <2>3
<1>12. CASE EndProgram
  <2>1. PICK p \in Pipeline : p \in front.live /\ Destroyed(DestroyPipeline(front, p)) /\ Keeps /\ bound.program # p
    BY <1>12, KindIs DEF EndProgram, Live
  <2>2. Ends(front, DestroyPipeline(front, p), p) /\ Loose(p)
    BY <1>0, <2>1, PipelineEnded, LooseOnes
  <2> QED BY <2>1, <2>2, ChildIs, EndsStep
<1> QED
  BY <1>1, <1>2, <1>3, <1>4, <1>5, <1>6, <1>7, <1>8, <1>9, <1>10, <1>11, <1>12

-----------------------------------------------------------------------------
(* Calls on what is bound, and transfers.                                  *)

LEMMA FramePass ==
  ASSUME Inv
  PROVE  /\ \A b \in Frames : frame[b].pass # Nothing => frame[b].pass \in Pass /\ frame[b].pass \in front.live
         /\ Target # Nothing => Target \in Pass /\ Target \in front.live
<1>1. \A b \in Frames : frame[b].pass # Nothing => frame[b].pass \in Pass /\ frame[b].pass \in front.live
  BY DEF Inv, ContextType, FrameRecord, Frames, PassesAreFramed
<1>2. bound.target \in Frames \cup {Nothing}
  BY DEF Inv, Bounds
<1> QED
  BY <1>1, <1>2 DEF Target

LEMMA PassCalls ==
  ASSUME Inv, open, OnPass PROVE Inv'
<1>0. FrontInv(front) /\ Shaped(front)
  BY StaysItself DEF Inv
<1>1. PICK b \in Frames : LET r == frame[b].pass
       IN /\ r # Nothing
          /\ \/ \E p \in Live("pipeline") : Call(BindPipeline(front, r, p))
             \/ \E x \in Live("buffer") : Call(BindIndex(front, r, x))
             \/ \E x \in Live("buffer") : Call(BindVertex(front, r, x))
             \/ \E area \in {Whole, {0}} : Call(SetScissor(front, r, area))
             \/ \E cleared \in SUBSET {"color", "depth"} :
                  Call(BeginPassNow(front, r, cleared, "loaded"))
             \/ Call(ClearColor(front, frame[b].color, Whole, "cleared"))
             \/ Call(ClearNow(front, r, "cleared"))
             \/ Call(ClearDepthNow(front, r, "cleared"))
  BY DEF OnPass
<1>2. child' = child /\ Keeps
  BY DEF OnPass
<1> DEFINE r == frame[b].pass
<1>3. r \in Pass /\ r \in front.live
  BY <1>1, FramePass
<1>4. /\ r # Nothing
      /\ \/ \E p \in Live("pipeline") : Call(BindPipeline(front, r, p))
         \/ \E x \in Live("buffer") : Call(BindIndex(front, r, x))
         \/ \E x \in Live("buffer") : Call(BindVertex(front, r, x))
         \/ \E area \in {Whole, {0}} : Call(SetScissor(front, r, area))
         \/ \E cleared \in SUBSET {"color", "depth"} :
              Call(BeginPassNow(front, r, cleared, "loaded"))
         \/ Call(ClearColor(front, frame[b].color, Whole, "cleared"))
         \/ Call(ClearNow(front, r, "cleared"))
         \/ Call(ClearDepthNow(front, r, "cleared"))
  BY <1>1
<1> HIDE DEF r
<1>5. CASE \E p \in Live("pipeline") : Call(BindPipeline(front, r, p))
  <2>1. PICK p \in Pipeline : p \in front.live /\ Call(BindPipeline(front, r, p))
    BY <1>5, KindIs DEF Live
  <2> QED BY <1>0, <1>2, <1>3, <2>1, BindPipelineFollows, FollowsStep
<1>6. CASE \E x \in Live("buffer") : Call(BindIndex(front, r, x))
  <2>1. PICK x \in Buffer : x \in front.live /\ Call(BindIndex(front, r, x))
    BY <1>6, KindIs DEF Live
  <2> QED BY <1>0, <1>2, <1>3, <2>1, BindIndexFollows, FollowsStep
<1>7. CASE \E x \in Live("buffer") : Call(BindVertex(front, r, x))
  <2>1. PICK x \in Buffer : x \in front.live /\ Call(BindVertex(front, r, x))
    BY <1>7, KindIs DEF Live
  <2> QED BY <1>0, <1>2, <1>3, <2>1, BindVertexFollows, FollowsStep
<1>8. CASE \E area \in {Whole, {0}} : Call(SetScissor(front, r, area))
  BY <1>0, <1>2, <1>3, <1>8, SetScissorFollows, FollowsStep
<1>9. CASE \E cleared \in SUBSET {"color", "depth"} : Call(BeginPassNow(front, r, cleared, "loaded"))
  BY <1>0, <1>2, <1>3, <1>9, BeginPassNowFollows, FollowsStep
<1>10. CASE Call(ClearColor(front, frame[b].color, Whole, "cleared"))
  <2>1. Moves(front, ClearColor(front, frame[b].color, Whole, "cleared").now)
    BY <1>0, ClearedMoves DEF Carries, ClearColor
  <2> QED BY <1>2, <1>10, <2>1, MovesStep
<1>11. CASE Call(ClearNow(front, r, "cleared"))
  BY <1>0, <1>2, <1>11, ClearNowFollows, FollowsStep
<1>12. CASE Call(ClearDepthNow(front, r, "cleared"))
  BY <1>0, <1>2, <1>12, ClearNowFollows, FollowsStep
<1> QED
  BY <1>4, <1>5, <1>6, <1>7, <1>8, <1>9, <1>10, <1>11, <1>12

LEMMA TargetCalls ==
  ASSUME Inv, open, Draw \/ Query \/ DispatchCompute PROVE Inv'
<1>0. FrontInv(front) /\ Shaped(front)
  BY StaysItself DEF Inv
<1>1. Target # Nothing => Target \in Pass /\ Target \in front.live
  BY FramePass
<1>2. child' = child /\ Keeps
  BY DEF Draw, Query, DispatchCompute
<1>3. CASE Draw
  <2>1. Target # Nothing /\ Call(BeginPass(front, Target, {}))
    BY <1>3 DEF Draw
  <2> QED BY <1>0, <1>1, <1>2, <2>1, BeginPassFollows, FollowsStep
<1>4. CASE Query
  <2>1. Target # Nothing
    BY <1>4 DEF Query
  <2>2. CASE \E q \in Live("query") : Call(BeginQuery(BeginPass(front, Target, {}).now, Target, q))
    <3> DEFINE g == BeginPass(front, Target, {}).now
    <3>1. PICK q \in QueryPool : q \in front.live /\ Call(BeginQuery(g, Target, q))
      BY <2>2, KindIs DEF Live
    <3>2. Follows(front, g)
      BY <1>0, <1>1, <2>1, BeginPassFollows
    <3> HIDE DEF g
    <3>3. FrontInv(g) /\ g.live = front.live
      BY <3>2 DEF Follows
    <3>4. Follows(g, BeginQuery(g, Target, q).now)
      BY <1>1, <2>1, <3>1, <3>3, BeginQueryFollows
    <3> QED BY <1>2, <3>1, <3>2, <3>4, FollowsOn, FollowsStep
  <2>3. CASE Call(EndQuery(front, Target))
    BY <1>0, <1>1, <1>2, <2>1, <2>3, EndQueryFollows, FollowsStep
  <2> QED BY <1>4, <2>2, <2>3 DEF Query
<1>5. CASE DispatchCompute
  <2>1. Call(Dispatch(front, bound.program, "stored"))
    BY <1>5 DEF DispatchCompute
  <2> QED BY <1>0, <1>2, <2>1, DispatchMoves, MovesStep DEF Carries
<1> QED
  BY <1>3, <1>4, <1>5

LEMMA TransferCalls ==
  ASSUME Inv, open,
         TextureTransfer \/ ReadPixels \/ CopyTexSubImage \/ BufferTransfer
  PROVE  Inv'
<1>0. FrontInv(front) /\ Shaped(front)
  BY StaysItself DEF Inv
<1>1. child' = child /\ Keeps
  BY DEF TextureTransfer, ReadPixels, CopyTexSubImage, BufferTransfer
<1>2. \A i, b : /\ Moves(front, UploadImage(front, i, 0, 1, "new").now)
                /\ Moves(front, ReadImage(front, i, 0, 1).now)
                /\ Moves(front, CopyToImage(front, b, 0, i, 0, 1).now)
                /\ Moves(front, CopyFromImage(front, i, 0, b, 0, 1).now)
                /\ Moves(front, CopyRect(front, i, 0, 0, b, 0, 0, 1, 1).now)
  BY <1>0, UploadImageMoves, ReadImageMoves, CopyToImageMoves, CopyFromImageMoves, CopyRectMoves DEF Carries
<1>3. \A a, b : /\ Moves(front, UploadBuffer(front, b, 0, 1, "new").now)
                /\ Moves(front, ReadBuffer(front, b, 0, 1).now)
                /\ Moves(front, FillBuffer(front, b, 0, 1, "new").now)
                /\ Moves(front, CopyBuffer(front, a, 0, b, 0, 1).now)
                /\ Moves(front, CopyThenFill(front, a, 0, b, 0, 1, 1, "new").now)
  BY <1>0, UploadBufferMoves, ReadBufferMoves, FillBufferMoves, CopyBufferMoves, CopyThenFillMoves DEF Carries
<1>4. CASE TextureTransfer
  BY <1>1, <1>2, <1>4, MovesStep DEF TextureTransfer
<1>5. CASE ReadPixels
  BY <1>1, <1>2, <1>5, MovesStep DEF ReadPixels
<1>6. CASE CopyTexSubImage
  BY <1>1, <1>2, <1>6, MovesStep DEF CopyTexSubImage
<1>7. CASE BufferTransfer
  BY <1>1, <1>3, <1>7, MovesStep DEF BufferTransfer
<1> QED
  BY <1>4, <1>5, <1>6, <1>7

LEMMA Others ==
  ASSUME Inv, open, Finish \/ BindBufferMemory \/ ProgramSampler PROVE Inv'
<1>0. FrontInv(front)
  BY DEF Inv
<1>1. child' = child /\ Keeps
  BY DEF Finish, BindBufferMemory, ProgramSampler
<1>2. CASE Finish
  <2>1. Finished \in Timeline
    BY BindingsAssumption DEF Finished
  <2> QED BY <1>0, <1>1, <1>2, <2>1, SignalFollows, FollowsStep DEF Finish
<1>3. CASE BindBufferMemory
  <2>1. PICK b \in Buffer, m \in Memory : m \in front.live /\ Call(BindMemory(front, b, m))
    BY <1>3, KindIs DEF BindBufferMemory, Live
  <2> QED BY <1>0, <1>1, <2>1, BindMemoryFollows, FollowsStep DEF Object
<1>4. CASE ProgramSampler
  <2>1. PICK p \in Pipeline, s \in (front.live \cap Sampler) \cup {Nothing} : Call(SetSampler(front, p, s))
    BY <1>4, KindIs DEF ProgramSampler, Live
  <2> QED BY <1>0, <1>1, <2>1, SetSamplerFollows, FollowsStep
<1> QED
  BY <1>2, <1>3, <1>4

-----------------------------------------------------------------------------
(* Binding points.                                                         *)

LEMMA BindsStep ==
  ASSUME Inv, open, Follows(front, front'), Binds, bound' \in BoundRecord, Bounds'
  PROVE  Inv'
<1>1. ContextType' /\ Frames' = Frames
  BY DEF Inv, ContextType, Frames, Binds
<1>2. \A b \in Frames : frame[b].pass # Nothing => frame[b].pass \in Pass
  BY DEF Inv, ContextType, FrameRecord, Frames
<1>3. FramesAreTheirPasses'
  BY <1>1, <1>2 DEF Inv, FramesAreTheirPasses, Follows, Drawn, Binds
<1>4. PassesAreFramed'
  BY <1>1, <1>2 DEF Inv, PassesAreFramed, Follows, Binds
<1>5. Children' = Children /\ \A i : Attached(i)' = Attached(i)
  BY <1>1 DEF Children, Attached, Follows, Binds
<1>6. ContextCounts' /\ Context'
  BY <1>1, <1>5 DEF Inv, ContextCounts, Context, Follows, Binds
<1> QED
  BY <1>1, <1>3, <1>4, <1>6 DEF Inv, Follows

\* Which unit has a texture, if one has.
LEMMA FirstIs ==
  ASSUME NEW samples
  PROVE  FirstOf(samples) # Nothing => \E u \in Unit : FirstOf(samples) = samples[u]
<1> DEFINE used == {u \in Unit : samples[u] # Nothing}
           first == CHOOSE u \in used : \A w \in used : u <= w
<1>1. FirstOf(samples) = IF used = {} THEN Nothing ELSE samples[first]
  BY DEF FirstOf
<1>2. used # {} => first \in used
  <2>0. Unit \subseteq Nat
    BY BindingsAssumption
  <2>1. used \in SUBSET Nat
    BY <2>0
  <2>2. used # {} => \E u \in used : \A w \in used : u <= w
    BY <2>1, LeastNumber
  <2> QED BY <2>2
<1> HIDE DEF first
<1> QED
  BY <1>1, <1>2

LEMMA UnitBound ==
  ASSUME Inv, open, BindTextureUnit \/ MemoryBarrier PROVE Inv'
<1>0. FrontInv(front) /\ Shaped(front) /\ bound \in BoundRecord /\ Bounds
  BY StaysItself DEF Inv, ContextType
<1>1. Binds
  BY DEF BindTextureUnit, MemoryBarrier
<1>2. \A i : Follows(front, Derived(i, "SHADER_READ").now)
  BY <1>0, EnteredMoves, MovesFollows DEF Carries, Derived
<1>3. \A i : Call(Derived(i, "SHADER_READ")) => Follows(front, front')
  BY <1>2, CallFollows, FollowsOn DEF Follows
<1>4. \A b \in Framebuffer : (b \in Frames)' <=> b \in Frames
  BY <1>1 DEF Frames, Binds
<1>5. ASSUME bound' = bound, Follows(front, front') PROVE Inv'
  <2>1. Bounds'
    BY <1>0, <1>4, <1>5 DEF Bounds, Follows, BoundRecord
  <2> QED BY <1>0, <1>1, <1>5, <2>1, BindsStep
<1>6. CASE MemoryBarrier
  BY <1>3, <1>5, <1>6 DEF MemoryBarrier
<1>7. CASE BindTextureUnit
  <2>1. PICK u \in Unit :
          \/ LET samples == [bound.samples EXCEPT ![u] = Nothing]
             IN /\ bound' = [bound EXCEPT !.samples = samples, !.sample = FirstOf(samples)]
                /\ UNCHANGED front
          \/ \E i \in Live("image") \cap Texture :
               LET read == Derived(i, "SHADER_READ")
               IN /\ Call(read)
                  /\ bound' = IF read.ok THEN [bound EXCEPT !.samples[u] = i, !.sample = i] ELSE bound
    BY <1>7 DEF BindTextureUnit
  <2>2. ASSUME NEW samples \in [Unit -> Texture \cup {Nothing}],
               \A w \in Unit : samples[w] \in front.live \cup {Nothing},
               NEW sample, sample # Nothing => \E w \in Unit : sample = samples[w],
               bound' = [bound EXCEPT !.samples = samples, !.sample = sample],
               Follows(front, front')
        PROVE  Inv'
    <3>1. sample \in Texture \cup {Nothing}
      BY <2>2
    <3>2. bound' \in BoundRecord
      BY <1>0, <2>2, <3>1 DEF BoundRecord
    <3>3. /\ bound'.samples = samples /\ bound'.sample = sample /\ bound'.uniforms = bound.uniforms
          /\ bound'.unpack = bound.unpack /\ bound'.pack = bound.pack /\ bound'.uniform = bound.uniform
          /\ bound'.program = bound.program /\ bound'.sampler = bound.sampler /\ bound'.target = bound.target
      BY <1>0, <2>2 DEF BoundRecord
    <3>4. Bounds'
      BY <1>0, <1>4, <2>2, <3>3 DEF Bounds, Follows, BoundRecord
    <3> QED BY <1>1, <2>2, <3>2, <3>4, BindsStep
  <2>3. bound.samples \in [Unit -> Texture \cup {Nothing}] /\ \A w \in Unit : bound.samples[w] \in front.live \cup {Nothing}
    BY <1>0 DEF BoundRecord, Bounds
  <2>4. CASE LET samples == [bound.samples EXCEPT ![u] = Nothing]
             IN /\ bound' = [bound EXCEPT !.samples = samples, !.sample = FirstOf(samples)]
                /\ UNCHANGED front
    <3> DEFINE samples == [bound.samples EXCEPT ![u] = Nothing]
    <3>1. samples \in [Unit -> Texture \cup {Nothing}] /\ \A w \in Unit : samples[w] \in front.live \cup {Nothing}
      BY <2>3
    <3>2. bound' = [bound EXCEPT !.samples = samples, !.sample = FirstOf(samples)] /\ front' = front
      BY <2>4
    <3> HIDE DEF samples
    <3>3. FirstOf(samples) # Nothing => \E w \in Unit : FirstOf(samples) = samples[w]
      BY FirstIs
    <3>4. Follows(front, front')
      BY <1>0, <3>2, FollowsItself
    <3> QED BY <2>2, <3>1, <3>2, <3>3, <3>4
  <2>5. ASSUME NEW i \in Live("image") \cap Texture, Call(Derived(i, "SHADER_READ")),
               bound' = IF Derived(i, "SHADER_READ").ok
                        THEN [bound EXCEPT !.samples[u] = i, !.sample = i] ELSE bound
        PROVE  Inv'
    <3>1. Follows(front, front')
      BY <1>3, <2>5
    <3> DEFINE samples == [bound.samples EXCEPT ![u] = i]
    <3>2. /\ samples \in [Unit -> Texture \cup {Nothing}] /\ samples[u] = i
          /\ \A w \in Unit : samples[w] \in front.live \cup {Nothing}
      BY <2>3 DEF Live
    <3>3. [bound EXCEPT !.samples[u] = i, !.sample = i] = [bound EXCEPT !.samples = samples, !.sample = i]
      BY <1>0 DEF BoundRecord
    <3> HIDE DEF samples
    <3>4. CASE bound' = [bound EXCEPT !.samples = samples, !.sample = i]
      BY <2>2, <3>1, <3>2, <3>4
    <3> QED BY <1>5, <2>5, <3>1, <3>3, <3>4
  <2> QED BY <2>1, <2>4, <2>5
<1> QED
  BY <1>6, <1>7

LEMMA PointBound ==
  ASSUME Inv, open, BindSampler \/ BindUniform \/ BindBuffer \/ UseProgram \/ BindFramebuffer
  PROVE  Inv'
<1>0. FrontInv(front) /\ bound \in BoundRecord /\ Bounds
  BY DEF Inv, ContextType
<1>1. Binds /\ front' = front
  BY DEF BindSampler, BindUniform, BindBuffer, UseProgram, BindFramebuffer
<1>2. Follows(front, front') /\ Frames' = Frames
  BY <1>0, <1>1, FollowsItself DEF Frames, Binds
<1>3. /\ DOMAIN bound = {"samples", "sample", "uniforms", "ranged", "uniform", "unpack", "pack",
                         "program", "sampler", "target"}
      /\ bound.uniforms \in [Unit -> Buffer \cup {Nothing}]
  BY <1>0 DEF BoundRecord
<1>4. ASSUME NEW u \in Unit, NEW b \in (front.live \cap Buffer) \cup {Nothing},
             NEW ranged \in SUBSET Unit,
             bound' = [bound EXCEPT !.uniforms = [bound.uniforms EXCEPT ![u] = b], !.ranged = ranged, !.uniform = b]
      PROVE  Inv'
  <2> DEFINE uniforms == [bound.uniforms EXCEPT ![u] = b]
  <2>1. uniforms \in [Unit -> Buffer \cup {Nothing}] /\ \A w \in Unit : uniforms[w] \in front.live \cup {Nothing}
    BY <1>0, <1>3 DEF Bounds
  <2>2. bound' = [bound EXCEPT !.uniforms = uniforms, !.ranged = ranged, !.uniform = b]
    BY <1>4
  <2> HIDE DEF uniforms
  <2>3. bound' \in BoundRecord
    BY <1>0, <2>1, <2>2 DEF BoundRecord
  <2>4. /\ bound'.samples = bound.samples /\ bound'.sample = bound.sample /\ bound'.uniforms = uniforms
        /\ bound'.unpack = bound.unpack /\ bound'.pack = bound.pack /\ bound'.uniform = b
        /\ bound'.program = bound.program /\ bound'.sampler = bound.sampler /\ bound'.target = bound.target
    BY <1>3, <2>2
  <2>5. Bounds'
    BY <1>0, <1>1, <1>2, <2>1, <2>4 DEF Bounds
  <2> QED BY <1>1, <1>2, <2>3, <2>5, BindsStep
<1>5. ASSUME NEW x \in {"uniform", "unpack", "pack", "program", "sampler", "target"}, NEW y,
             bound' = [bound EXCEPT ![x] = y],
             x \in {"uniform", "unpack", "pack"} => y \in (front.live \cap Buffer) \cup {Nothing},
             x = "program" => y \in (front.live \cap Pipeline) \cup {Nothing},
             x = "sampler" => y \in (front.live \cap Sampler) \cup {Nothing},
             x = "target" => y \in Frames \cup {Nothing}
      PROVE  Inv'
  <2>1. Frames \subseteq Framebuffer
    BY DEF Frames
  <2>2. bound' \in BoundRecord
    BY <1>0, <1>5, <2>1 DEF BoundRecord
  <2>3. /\ bound'.samples = bound.samples /\ bound'.sample = bound.sample /\ bound'.uniforms = bound.uniforms
        /\ \A z \in {"uniform", "unpack", "pack", "program", "sampler", "target"} :
             bound'[z] = IF z = x THEN y ELSE bound[z]
    BY <1>3, <1>5
  <2>4. Bounds'
    BY <1>0, <1>1, <1>2, <1>5, <2>3 DEF Bounds
  <2> QED BY <1>1, <1>2, <2>2, <2>4, BindsStep
<1>6. CASE BindSampler
  <2>1. PICK s \in (front.live \cap Sampler) \cup {Nothing} : bound' = [bound EXCEPT !.sampler = s]
    BY <1>6, KindIs DEF BindSampler, Live
  <2> QED BY <1>5, <2>1
<1>7. ASSUME NEW u \in Unit, NEW b \in (front.live \cap Buffer) \cup {Nothing},
             \/ bound' = UniformAt(u, b)
             \/ bound' = [UniformAt(u, b) EXCEPT !.ranged = @ \cup {u}]
      PROVE  Inv'
  <2>1. bound.ranged \subseteq Unit
    BY <1>0 DEF BoundRecord
  <2>2. UniformAt(u, b) = [bound EXCEPT !.uniforms = [bound.uniforms EXCEPT ![u] = b],
                                        !.ranged = bound.ranged \ {u}, !.uniform = b]
    BY <1>3 DEF UniformAt
  <2>3. [UniformAt(u, b) EXCEPT !.ranged = @ \cup {u}] =
          [bound EXCEPT !.uniforms = [bound.uniforms EXCEPT ![u] = b],
                        !.ranged = (bound.ranged \ {u}) \cup {u}, !.uniform = b]
    BY <1>3 DEF UniformAt
  <2>4. CASE bound' = UniformAt(u, b)
    <3>1. PICK ranged \in SUBSET Unit : ranged = bound.ranged \ {u}
      BY <2>1
    <3>2. bound' = [bound EXCEPT !.uniforms = [bound.uniforms EXCEPT ![u] = b], !.ranged = ranged, !.uniform = b]
      BY <2>2, <2>4, <3>1
    <3> QED BY <1>4, <3>2
  <2>5. CASE bound' = [UniformAt(u, b) EXCEPT !.ranged = @ \cup {u}]
    <3>1. PICK ranged \in SUBSET Unit : ranged = (bound.ranged \ {u}) \cup {u}
      BY <2>1
    <3>2. bound' = [bound EXCEPT !.uniforms = [bound.uniforms EXCEPT ![u] = b], !.ranged = ranged, !.uniform = b]
      BY <2>3, <2>5, <3>1
    <3> QED BY <1>4, <3>2
  <2> QED BY <1>7, <2>4, <2>5
<1>8. CASE BindUniform
  <2>1. PICK u \in Unit, b \in (front.live \cap Buffer) \cup {Nothing} :
          \/ bound' = UniformAt(u, b)
          \/ bound' = [UniformAt(u, b) EXCEPT !.ranged = @ \cup {u}]
    BY <1>8, KindIs DEF BindUniform, Live
  <2> QED BY <1>7, <2>1
<1>9. CASE BindBuffer
  <2>1. PICK b \in (front.live \cap Buffer) \cup {Nothing} :
       \/ bound' = [bound EXCEPT !.unpack = b]
       \/ bound' = [bound EXCEPT !.pack = b]
       \/ bound' = UniformAt(0, b)
       \/ bound' = [bound EXCEPT !.uniform = b]
    BY <1>9, KindIs DEF BindBuffer, Live
  <2>2. 0 \in Unit
    BY BindingsAssumption
  <2>3. CASE bound' = [bound EXCEPT !.unpack = b]
    BY <1>5, <2>3
  <2>4. CASE bound' = [bound EXCEPT !.pack = b]
    BY <1>5, <2>4
  <2>5. CASE bound' = UniformAt(0, b)
    BY <1>7, <2>2, <2>5
  <2>6. CASE bound' = [bound EXCEPT !.uniform = b]
    BY <1>5, <2>6
  <2> QED BY <2>1, <2>3, <2>4, <2>5, <2>6
<1>10. CASE UseProgram
  <2>1. PICK p \in (front.live \cap Pipeline) \cup {Nothing} : bound' = [bound EXCEPT !.program = p]
    BY <1>10, KindIs DEF UseProgram, Live
  <2> QED BY <1>5, <2>1
<1>11. CASE BindFramebuffer
  <2>1. PICK b \in Frames \cup {Nothing} : bound' = [bound EXCEPT !.target = b]
    BY <1>11 DEF BindFramebuffer
  <2> QED BY <1>5, <2>1
<1> QED
  BY <1>6, <1>8, <1>9, <1>10, <1>11

-----------------------------------------------------------------------------
(* Framebuffers.                                                           *)

\* What a framebuffer counts for.
LEMMA AttachedNow ==
  ASSUME Inv, NEW b \in Framebuffer, NEW n \in FrameRecord, frame' = [frame EXCEPT ![b] = n]
  PROVE  /\ \A c \in Framebuffer : frame'[c] = IF c = b THEN n ELSE frame[c]
         /\ Frames' = IF n.there THEN Frames \cup {b} ELSE Frames \ {b}
         /\ Cardinality(Frames') = Cardinality(Frames) + One(n.there) - One(b \in Frames)
         /\ \A i : Attached(i)' = Attached(i) + One(n.there /\ n.color = i) + One(n.there /\ n.depth = i)
                                  - One(b \in Frames /\ frame[b].color = i) - One(b \in Frames /\ frame[b].depth = i)
<1>1. \A c \in Framebuffer : frame'[c] = IF c = b THEN n ELSE frame[c]
  BY DEF Inv, ContextType
<1>2. n.there \in BOOLEAN /\ \A c \in Framebuffer : frame[c].there \in BOOLEAN
  BY DEF Inv, ContextType, FrameRecord
<1>3. \A c : c \in Frames' <=> (IF c = b THEN n.there ELSE c \in Frames)
  BY <1>1, <1>2 DEF Frames
<1>4. Frames' = IF n.there THEN Frames \cup {b} ELSE Frames \ {b}
  BY <1>3
<1>5. IsFiniteSet(Frames)
  BY FramesFinite
<1>6. Cardinality(Frames') = Cardinality(Frames) + One(n.there) - One(b \in Frames)
  BY <1>3, <1>5, OneMember DEF One
<1>7. ASSUME NEW i
      PROVE  Attached(i)' = Attached(i) + One(n.there /\ n.color = i) + One(n.there /\ n.depth = i)
                            - One(b \in Frames /\ frame[b].color = i) - One(b \in Frames /\ frame[b].depth = i)
  <2> DEFINE C == {c \in Frames : frame[c].color = i}
             D == {c \in Frames : frame[c].depth = i}
             CNow == {c \in Frames' : frame'[c].color = i}
             DNow == {c \in Frames' : frame'[c].depth = i}
  <2>1. Frames \subseteq Framebuffer
    BY DEF Frames
  <2>2. /\ \A c : c # b => (c \in C <=> c \in CNow)
        /\ \A c : c # b => (c \in D <=> c \in DNow)
        /\ b \in CNow <=> n.there /\ n.color = i
        /\ b \in DNow <=> n.there /\ n.depth = i
        /\ b \in C <=> b \in Frames /\ frame[b].color = i
        /\ b \in D <=> b \in Frames /\ frame[b].depth = i
    BY <1>1, <1>3, <2>1
  <2>3. IsFiniteSet(C) /\ IsFiniteSet(D)
    BY FramesFinite
  <2>4. Attached(i) = Cardinality(C) + Cardinality(D) /\ Attached(i)' = Cardinality(CNow) + Cardinality(DNow)
    BY DEF Attached
  <2> HIDE DEF C, D, CNow, DNow
  <2>5. /\ Cardinality(C) \in Nat /\ Cardinality(CNow) \in Nat
        /\ Cardinality(CNow) = Cardinality(C) + One(b \in CNow) - One(b \in C)
    BY <2>2, <2>3, OneMember DEF One
  <2>6. /\ Cardinality(D) \in Nat /\ Cardinality(DNow) \in Nat
        /\ Cardinality(DNow) = Cardinality(D) + One(b \in DNow) - One(b \in D)
    BY <2>2, <2>3, OneMember DEF One
  <2>7. /\ One(b \in CNow) = One(n.there /\ n.color = i) /\ One(b \in C) = One(b \in Frames /\ frame[b].color = i)
        /\ One(b \in DNow) = One(n.there /\ n.depth = i) /\ One(b \in D) = One(b \in Frames /\ frame[b].depth = i)
    BY <2>2 DEF One
  <2>8. One(b \in CNow) \in Nat /\ One(b \in C) \in Nat /\ One(b \in DNow) \in Nat /\ One(b \in D) \in Nat
    BY DEF One
  <2>9. Attached(i)' = Attached(i) + One(b \in CNow) + One(b \in DNow) - One(b \in C) - One(b \in D)
    BY <2>4, <2>5, <2>6, <2>8
  <2> QED BY <2>7, <2>9
<1> QED
  BY <1>1, <1>4, <1>6, <1>7

\* Framebuffer b becomes n, and no pass changes but those that it had and has.
Reframed(b, n) ==
  /\ frame' = [frame EXCEPT ![b] = n] /\ n \in FrameRecord
  /\ n.there \/ n = NoFrame
  /\ (n.pass = Nothing) = (n.color = Nothing)
  /\ n.pass = Nothing => n.depth = Nothing
  /\ n.pass # Nothing => /\ n.pass \in front'.live
                         /\ front'.pass[n.pass].color = n.color /\ front'.pass[n.pass].depth = n.depth
  /\ n.pass \notin {Nothing, frame[b].pass} => n.pass \notin front.live
  /\ frame[b].pass \notin {Nothing, n.pass} => frame[b].pass \notin front'.live
  /\ \A r \in Pass : r \notin {n.pass, frame[b].pass} =>
       /\ r \in front'.live <=> r \in front.live
       /\ front'.pass[r].color = front.pass[r].color /\ front'.pass[r].depth = front.pass[r].depth
  /\ FrontInv(front') /\ front'.live \ Pass = front.live \ Pass

\* What is counted follows.
Recounted(b, n) ==
  /\ child' = child + One(n.there) - One(b \in Frames)
  /\ attachments' \in [Image -> Int]
  /\ \A i \in Image :
       attachments'[i] = attachments[i] + One(n.there /\ n.color = i) + One(n.there /\ n.depth = i)
                         - One(b \in Frames /\ frame[b].color = i) - One(b \in Frames /\ frame[b].depth = i)

LEMMA FrameStep ==
  ASSUME Inv, open, open' = open, NEW b \in Framebuffer, NEW n, Reframed(b, n), Recounted(b, n),
         \/ bound' = bound /\ (bound.target = b => n.there)
         \/ bound' = [bound EXCEPT !.target = Nothing]
  PROVE  Inv'
<1> USE DEF Reframed, Recounted
<1>1. /\ \A c \in Framebuffer : frame'[c] = IF c = b THEN n ELSE frame[c]
      /\ Frames' = IF n.there THEN Frames \cup {b} ELSE Frames \ {b}
      /\ Cardinality(Frames') = Cardinality(Frames) + One(n.there) - One(b \in Frames)
      /\ \A i : Attached(i)' = Attached(i) + One(n.there /\ n.color = i) + One(n.there /\ n.depth = i)
                               - One(b \in Frames /\ frame[b].color = i) - One(b \in Frames /\ frame[b].depth = i)
  BY AttachedNow
<1>2. /\ Frames \subseteq Framebuffer /\ n.pass \in Pass \cup {Nothing}
      /\ \A c \in Framebuffer : frame[c].pass \in Pass \cup {Nothing} /\ (c \notin Frames => frame[c] = NoFrame)
      /\ \A c \in Frames : frame[c].pass \in front.live \cup {Nothing}
      /\ \A c, d \in Frames : frame[c].pass = frame[d].pass /\ c # d => frame[c].pass = Nothing
      /\ NoFrame.pass = Nothing /\ ~NoFrame.there /\ Nothing \notin Pass
  BY KindsApart, KindsAre DEF Inv, ContextType, FrameRecord, Frames, PassesAreFramed, FramesAreTheirPasses, NoFrame
<1>3. \A c \in Frames : c # b /\ frame[c].pass # Nothing => frame[c].pass \notin {n.pass, frame[b].pass}
  BY <1>2
<1>4. ContextType'
  <2>1. bound' \in BoundRecord
    BY DEF Inv, ContextType, BoundRecord
  <2> QED BY <2>1 DEF Inv, ContextType
<1>5. Bounds'
  <2>1. /\ bound'.samples = bound.samples /\ bound'.sample = bound.sample /\ bound'.uniforms = bound.uniforms
        /\ bound'.unpack = bound.unpack /\ bound'.pack = bound.pack /\ bound'.uniform = bound.uniform
        /\ bound'.program = bound.program /\ bound'.sampler = bound.sampler
        /\ bound'.target = Nothing \/ (bound'.target = bound.target /\ (bound.target = b => n.there))
    BY DEF Inv, ContextType, BoundRecord
  <2>2. \A x \in Image \cup Buffer \cup Pipeline \cup Sampler : x \in front.live => x \in front'.live
    BY KindsApart, KindsAre
  <2>3. /\ \A u \in Unit : bound.samples[u] \in Image \cup {Nothing} /\ bound.uniforms[u] \in Buffer \cup {Nothing}
        /\ {bound.unpack, bound.pack, bound.uniform} \subseteq Buffer \cup {Nothing}
        /\ bound.program \in Pipeline \cup {Nothing} /\ bound.sampler \in Sampler \cup {Nothing}
    BY ChildIs DEF Inv, ContextType, BoundRecord
  <2>4. bound'.target \in Frames' \cup {Nothing}
    BY <1>1, <2>1 DEF Inv, Bounds
  <2>5. \A u \in Unit : {bound.samples[u], bound.uniforms[u]} \subseteq front'.live \cup {Nothing}
    BY <2>2, <2>3 DEF Inv, Bounds
  <2>6. {bound.unpack, bound.pack, bound.uniform, bound.program, bound.sampler} \subseteq front'.live \cup {Nothing}
    BY <2>2, <2>3 DEF Inv, Bounds
  <2> QED BY <2>1, <2>4, <2>5, <2>6 DEF Inv, Bounds
<1>6. FramesAreTheirPasses'
  <2>1. ASSUME NEW c \in Frames'
        PROVE  /\ (frame'[c].pass = Nothing) = (frame'[c].color = Nothing)
               /\ frame'[c].pass = Nothing => frame'[c].depth = Nothing
               /\ frame'[c].pass # Nothing => /\ front'.pass[frame'[c].pass].color = frame'[c].color
                                              /\ front'.pass[frame'[c].pass].depth = frame'[c].depth
    <3>1. CASE c = b
      BY <1>1, <3>1
    <3>2. CASE c # b
      <4>1. c \in Frames /\ frame'[c] = frame[c]
        BY <1>1, <1>2, <3>2
      <4>2. /\ (frame[c].pass = Nothing) = (frame[c].color = Nothing)
            /\ frame[c].pass = Nothing => frame[c].depth = Nothing
            /\ frame[c].pass # Nothing => /\ front.pass[frame[c].pass].color = frame[c].color
                                          /\ front.pass[frame[c].pass].depth = frame[c].depth
        BY <4>1 DEF Inv, FramesAreTheirPasses
      <4> QED BY <1>2, <1>3, <3>2, <4>1, <4>2
    <3> QED BY <3>1, <3>2
  <2>2. ASSUME NEW c \in Frames', NEW d \in Frames', frame'[c].pass = frame'[d].pass, c # d
        PROVE  frame'[c].pass = Nothing
    <3>1. \A e \in Frames' : e # b => e \in Frames /\ frame'[e] = frame[e]
      BY <1>1, <1>2
    <3>2. c = b \/ d = b => n.pass = Nothing
      BY <1>1, <1>3, <2>2, <3>1
    <3> QED BY <1>1, <1>2, <2>2, <3>1, <3>2
  <2> QED BY <2>1, <2>2 DEF FramesAreTheirPasses
<1>7. PassesAreFramed'
  <2>1. \A c \in Framebuffer : c \in Frames' \/ frame'[c] = NoFrame
    BY <1>1, <1>2
  <2>2. \A c \in Frames' : frame'[c].pass \in front'.live \cup {Nothing}
    BY <1>1, <1>2, <1>3
  <2>3. ASSUME NEW r \in Pass \cap front'.live PROVE \E c \in Frames' : frame'[c].pass = r
    <3>1. CASE r = n.pass
      BY <1>1, <1>2, <3>1
    <3>2. CASE r # n.pass
      <4>1. r # frame[b].pass
        BY <1>2, <3>2
      <4>2. PICK c \in Frames : frame[c].pass = r
        BY <3>2, <4>1 DEF Inv, PassesAreFramed
      <4> QED BY <1>1, <1>2, <4>1, <4>2
    <3> QED BY <3>1, <3>2
  <2> QED BY <2>1, <2>2, <2>3 DEF PassesAreFramed
<1>8. ContextCounts'
  <2>1. Children' = Children
    BY DEF Children
  <2>2. child = Cardinality(Children) + Cardinality(Frames) /\ Cardinality(Frames) \in Nat
        /\ Cardinality(Children) \in Nat
    BY FramesFinite DEF Inv, ContextCounts
  <2>3. child' = Cardinality(Children') + Cardinality(Frames')
    BY <1>1, <2>1, <2>2 DEF One
  <2>4. \A i \in Image : attachments'[i] = Attached(i)'
    BY <1>1 DEF Inv, ContextCounts
  <2> QED BY <2>3, <2>4 DEF ContextCounts
<1>9. Context'
  <2>1. front'.live \cap Timeline = front.live \cap Timeline
    BY KindsApart
  <2> QED BY <2>1 DEF Inv, Context
<1> QED
  BY <1>4, <1>5, <1>6, <1>7, <1>8, <1>9 DEF Inv

LEMMA FrameMade ==
  ASSUME Inv, open, MakeFramebuffer PROVE Inv'
<1>1. PICK b \in Framebuffer : b \notin Frames /\ frame' = [frame EXCEPT ![b].there = TRUE]
  BY DEF MakeFramebuffer
<1>2. frame[b] = NoFrame /\ front' = front /\ attachments' = attachments /\ bound' = bound /\ child' = child + 1
  BY <1>1 DEF MakeFramebuffer, Inv, PassesAreFramed
<1> DEFINE n == [NoFrame EXCEPT !.there = TRUE]
<1>3. /\ n \in FrameRecord /\ n.there /\ n.color = Nothing /\ n.depth = Nothing /\ n.pass = Nothing
      /\ NoFrame.pass = Nothing
  BY DEF NoFrame, FrameRecord
<1>4. frame' = [frame EXCEPT ![b] = n]
  BY <1>1, <1>2 DEF Inv, ContextType
<1> HIDE DEF n
<1>5. Nothing \notin Image
  BY KindsApart, KindsAre
<1>6. /\ child \in Int /\ attachments \in [Image -> Int] /\ One(n.there) = 1 /\ One(b \in Frames) = 0
      /\ \A i \in Image : /\ One(n.there /\ n.color = i) = 0 /\ One(n.there /\ n.depth = i) = 0
                          /\ One(b \in Frames /\ frame[b].color = i) = 0
                          /\ One(b \in Frames /\ frame[b].depth = i) = 0
  BY <1>1, <1>3, <1>5, FramesFinite DEF Inv, ContextType, ContextCounts, One
<1>7. bound.target = b => n.there
  BY <1>3
<1>8. FrontInv(front') /\ open' = open
  BY <1>2 DEF Inv, MakeFramebuffer
<1>9. child' = child + One(n.there) - One(b \in Frames)
  BY <1>2, <1>6
<1>10. \A i \in Image :
         attachments'[i] = attachments[i] + One(n.there /\ n.color = i) + One(n.there /\ n.depth = i)
                           - One(b \in Frames /\ frame[b].color = i) - One(b \in Frames /\ frame[b].depth = i)
  BY <1>2, <1>6
<1> QED
  <2>1. Reframed(b, n)
    BY <1>2, <1>3, <1>4, <1>8 DEF Reframed
  <2>2. Recounted(b, n)
    BY <1>2, <1>6, <1>9, <1>10 DEF Recounted
  <2> QED BY <1>2, <1>7, <1>8, <2>1, <2>2, FrameStep

\* What CreatePass and AttachDepth make of the passes.
LEMMA PassMade ==
  ASSUME NEW f, FrontInv(f), NEW r \in Pass, r \notin f.live, NEW i \in f.live \cap Image
  PROVE  LET c == CreatePass(f, r, i)
         IN  IF c.ok
             THEN /\ FrontInv(c.now) /\ c.now.live = f.live \cup {r}
                  /\ c.now.pass[r].color = i /\ c.now.pass[r].depth = Nothing
                  /\ \A s \in Pass : s # r => c.now.pass[s] = f.pass[s]
             ELSE c.now = f
<1> DEFINE c == CreatePass(f, r, i)
<1>1. Opens(f, c, r)
  BY PassOpens
<1>2. CASE f.state[i] # "COLOR_TARGET"
  BY <1>2 DEF CreatePass, Refused
<1>3. CASE f.state[i] = "COLOR_TARGET"
  <2> DEFINE m == Made(f, "render_pass", r)
             n == [NoPass EXCEPT !.color = i]
  <2>1. c = Done([m EXCEPT !.pass[r] = n, !.passes[i] = @ + 1])
    BY <1>3 DEF CreatePass
  <2>6. c.ok /\ c.now = [m EXCEPT !.pass[r] = n, !.passes[i] = @ + 1]
    BY <2>1 DEF Done
  <2>2. Shaped(f) /\ DOMAIN f.pass = Pass
    BY PassFields, StaysItself
  <2>3. DOMAIN m = Fields /\ m.pass = f.pass
    BY <2>2 DEF Made, Shaped, Fields
  <2>4. n.color = i /\ n.depth = Nothing
    BY DEF NoPass
  <2> HIDE DEF m, n, c
  <2>5. c.now.pass = [f.pass EXCEPT ![r] = n] /\ c.ok
    BY <2>3, <2>6 DEF Fields
  <2>7. FrontInv(c.now) /\ c.now.live = f.live \cup {r}
    BY <1>1, <2>5 DEF Opens
  <2> QED BY <2>2, <2>4, <2>5, <2>7 DEF c
<1> QED
  BY <1>2, <1>3

LEMMA DepthSet ==
  ASSUME NEW f, FrontInv(f), NEW r \in Pass, r \in f.live, NEW depth \in (f.live \cap Image) \cup {Nothing}
  PROVE  LET a == AttachDepth(f, r, depth)
         IN  IF a.ok
             THEN /\ FrontInv(a.now) /\ a.now.live = f.live
                  /\ a.now.pass[r].color = f.pass[r].color /\ a.now.pass[r].depth = depth
                  /\ \A s \in Pass : s # r => a.now.pass[s] = f.pass[s]
             ELSE a.now = f
<1> DEFINE a == AttachDepth(f, r, depth)
           old == f.pass[r].depth
<1>1. Leaves(f, a.now)
  BY AttachDepthLeaves
<1>2. /\ DOMAIN f.pass = Pass /\ DOMAIN f = Fields
      /\ DOMAIN f.pass[r] = {"color", "depth", "vertex", "index", "pipeline", "query", "begun", "scissor"}
  BY PassFields, StaysItself DEF Shaped
<1>3. \/ a = Refused(f)
      \/ a = Done(f) /\ depth = old
      \/ a = Done([f EXCEPT !.pass[r].depth = Nothing, !.passes[old] = @ - 1]) /\ depth = Nothing
      \/ a = Done([f EXCEPT !.pass[r].depth = depth, !.passes[depth] = @ + 1])
  BY DEF AttachDepth
<1> DEFINE Result ==
             IF a.ok
             THEN /\ FrontInv(a.now) /\ a.now.live = f.live
                  /\ a.now.pass[r].color = f.pass[r].color /\ a.now.pass[r].depth = depth
                  /\ \A s \in Pass : s # r => a.now.pass[s] = f.pass[s]
             ELSE a.now = f
<1> HIDE DEF a
<1>4. a = Refused(f) => Result
  BY DEF Refused
<1>5. a = Done(f) /\ depth = old => Result
  BY StaysItself DEF Done
<1>6. a.now.pass = [f.pass EXCEPT ![r].depth = depth] /\ a.ok => Result
  BY <1>1, <1>2 DEF Leaves
<1>7. ASSUME a = Done([f EXCEPT !.pass[r].depth = Nothing, !.passes[old] = @ - 1]), depth = Nothing
      PROVE  Result
  <2>1. a.now.pass = [f.pass EXCEPT ![r].depth = depth] /\ a.ok
    BY <1>2, <1>7 DEF Done, Fields
  <2> QED BY <1>6, <2>1
<1>8. ASSUME a = Done([f EXCEPT !.pass[r].depth = depth, !.passes[depth] = @ + 1])
      PROVE  Result
  <2>1. a.now.pass = [f.pass EXCEPT ![r].depth = depth] /\ a.ok
    BY <1>2, <1>8 DEF Done, Fields
  <2> QED BY <1>6, <2>1
<1> QED
  BY <1>3, <1>4, <1>5, <1>7, <1>8 DEF a

LEMMA PassDestroyed ==
  ASSUME NEW f, FrontInv(f), NEW r \in Pass, r \in f.live
  PROVE  LET d == DestroyPass(f, r)
         IN  IF d.ok
             THEN /\ FrontInv(d.now) /\ d.now.live = f.live \ {r}
                  /\ \A s \in Pass : s # r => d.now.pass[s] = f.pass[s]
             ELSE d.now = f
<1> DEFINE d == DestroyPass(f, r)
           old == f.pass[r]
           g == Gone(f, "render_pass", r)
           Stripped(h) == [h EXCEPT
                  !.pass[r] = NoPass,
                  !.vertexBinds = Counting(@, old.vertex, -1),
                  !.indexBinds = Counting(@, old.index, -1),
                  !.passBinds = Counting(@, old.pipeline, -1),
                  !.passes = Counting(Counting(@, old.color, -1), old.depth, -1)]
<1>1. Closes(f, d, r)
  BY PassCloses
<1>2. d = Refused(f) \/ d = Done(Stripped(g))
  BY DEF DestroyPass
<1>3. DOMAIN f = Fields /\ DOMAIN f.pass = Pass
  BY PassFields, StaysItself DEF Shaped
<1>4. DOMAIN g = Fields /\ g.pass = f.pass
  BY <1>3 DEF Gone, Fields
<1> HIDE DEF g, old
<1>5. Stripped(g).pass = [f.pass EXCEPT ![r] = NoPass]
  BY <1>4 DEF Fields
<1> DEFINE Result ==
             IF d.ok
             THEN /\ FrontInv(d.now) /\ d.now.live = f.live \ {r}
                  /\ \A s \in Pass : s # r => d.now.pass[s] = f.pass[s]
             ELSE d.now = f
<1> HIDE DEF d, Stripped
<1>6. d = Refused(f) => Result
  BY DEF Refused
<1>7. ASSUME d = Done(Stripped(g)) PROVE Result
  <2>1. d.ok /\ d.now.pass = [f.pass EXCEPT ![r] = NoPass]
    BY <1>5, <1>7 DEF Done
  <2>2. \A s \in Pass : s # r => d.now.pass[s] = f.pass[s]
    BY <1>3, <2>1
  <2> QED BY <1>1, <2>1, <2>2 DEF Closes
<1> QED
  BY <1>2, <1>6, <1>7 DEF d

\* What a framebuffer is before it changes.
LEMMA FrameIs ==
  ASSUME Inv, NEW b \in Frames
  PROVE  /\ b \in Framebuffer /\ frame[b] \in FrameRecord /\ frame[b].there
         /\ (frame[b].pass = Nothing) = (frame[b].color = Nothing)
         /\ frame[b].pass = Nothing => frame[b].depth = Nothing
         /\ frame[b].pass # Nothing =>
              /\ frame[b].pass \in Pass /\ frame[b].pass \in front.live
              /\ front.pass[frame[b].pass].color = frame[b].color
              /\ front.pass[frame[b].pass].depth = frame[b].depth
         /\ Nothing \notin Pass /\ Nothing \notin Image
         /\ FrontInv(front) /\ attachments \in [Image -> Int] /\ child \in Int
<1>1. b \in Framebuffer /\ frame[b] \in FrameRecord /\ frame[b].there
  BY DEF Inv, ContextType, Frames
<1>2. Nothing \notin Pass /\ Nothing \notin Image
  BY KindsApart, KindsAre
<1>3. child \in Int /\ attachments \in [Image -> Int]
  BY FramesFinite DEF Inv, ContextCounts, ContextType
<1> QED
  BY <1>1, <1>2, <1>3, FramePass DEF Inv, FramesAreTheirPasses

LEMMA ColorAttached ==
  ASSUME Inv, open, NEW b \in Frames, NEW i \in front.live \cap Image, AttachColor(b, i), Attaches
  PROVE  Inv'
<1>1. PICK r \in Pass :
        /\ r \notin front.live /\ frame[b].color = Nothing
        /\ LET Passed(g) == CreatePass(g, r, i)
               attached == Then(Derived(i, "COLOR_TARGET"), Passed)
           IN /\ Call(attached)
              /\ IF attached.ok
                 THEN /\ frame' = [frame EXCEPT ![b].color = i, ![b].pass = r]
                      /\ attachments' = [attachments EXCEPT ![i] = @ + 1]
                 ELSE UNCHANGED <<frame, attachments>>
  BY KindIs DEF AttachColor, Free
<1>2. /\ b \in Framebuffer /\ frame[b] \in FrameRecord /\ frame[b].there
      /\ frame[b].color = Nothing /\ frame[b].depth = Nothing /\ frame[b].pass = Nothing
      /\ Nothing \notin Pass /\ Nothing \notin Image
      /\ FrontInv(front) /\ attachments \in [Image -> Int] /\ child \in Int
  BY <1>1, FrameIs
<1>3. open' = open /\ child' = child /\ bound' = bound
  BY DEF Attaches
<1> DEFINE d == Derived(i, "COLOR_TARGET")
           c == CreatePass(d.now, r, i)
           attached == IF d.ok THEN c ELSE d
<1>4. /\ Call(attached)
      /\ IF attached.ok
         THEN /\ frame' = [frame EXCEPT ![b].color = i, ![b].pass = r]
              /\ attachments' = [attachments EXCEPT ![i] = @ + 1]
         ELSE UNCHANGED <<frame, attachments>>
  BY <1>1 DEF Then
<1>5. Follows(front, d.now)
  BY <1>2, StaysItself, EnteredMoves, MovesFollows DEF Carries, Derived
<1> HIDE DEF d
<1>6. FrontInv(d.now) /\ d.now.live = front.live /\ Drawn(front, d.now)
  BY <1>5 DEF Follows
<1>7. IF c.ok
      THEN /\ FrontInv(c.now) /\ c.now.live = front.live \cup {r}
           /\ c.now.pass[r].color = i /\ c.now.pass[r].depth = Nothing
           /\ \A s \in Pass : s # r => c.now.pass[s] = d.now.pass[s]
      ELSE c.now = d.now
  BY <1>1, <1>6, PassMade
<1> HIDE DEF c
<1>8. CASE ~attached.ok
  <2>1. attached.now = d.now
    BY <1>7, <1>8
  <2>2. Keeps
    BY <1>3, <1>4, <1>8 DEF Keeps
  <2> QED BY <1>3, <1>4, <1>5, <2>1, <2>2, FollowsStep
<1>9. CASE attached.ok
  <2>1. d.ok /\ attached = c /\ c.ok
    BY <1>9
  <2>2. Follows(c.now, front')
    BY <1>4, <1>7, <2>1, CallFollows
  <2>3. /\ FrontInv(front') /\ front'.live = front.live \cup {r}
        /\ front'.pass[r].color = i /\ front'.pass[r].depth = Nothing
        /\ \A s \in Pass : s # r => /\ front'.pass[s].color = front.pass[s].color
                                    /\ front'.pass[s].depth = front.pass[s].depth
    BY <1>6, <1>7, <2>1, <2>2 DEF Follows, Drawn
  <2> DEFINE n == [frame[b] EXCEPT !.color = i, !.pass = r]
  <2>4. /\ n \in FrameRecord /\ n.there /\ n.color = i /\ n.pass = r /\ n.depth = Nothing
    BY <1>2 DEF FrameRecord
  <2>5. frame' = [frame EXCEPT ![b] = n]
    BY <1>4, <2>1 DEF Inv, ContextType
  <2> HIDE DEF n
  <2>6. attachments' \in [Image -> Int] /\ attachments' = [attachments EXCEPT ![i] = @ + 1]
    BY <1>2, <1>4, <2>1
  <2>7. ASSUME NEW j \in Image
        PROVE  attachments'[j] = attachments[j] + One(n.there /\ n.color = j) + One(n.there /\ n.depth = j)
                                 - One(b \in Frames /\ frame[b].color = j) - One(b \in Frames /\ frame[b].depth = j)
    <3>1. /\ One(n.there /\ n.color = j) = One(i = j) /\ One(n.there /\ n.depth = j) = 0
          /\ One(b \in Frames /\ frame[b].color = j) = 0 /\ One(b \in Frames /\ frame[b].depth = j) = 0
      BY <1>2, <2>4 DEF One
    <3>2. attachments'[j] = attachments[j] + One(i = j)
      BY <1>2, <2>6 DEF One
    <3>3. One(i = j) \in Nat /\ attachments[j] \in Int
      BY <1>2 DEF One
    <3> QED BY <3>1, <3>2, <3>3
  <2>8. child' = child + One(n.there) - One(b \in Frames)
    BY <1>2, <1>3, <2>4 DEF One
  <2>9. front'.live \ Pass = front.live \ Pass
    BY <2>3
  <2>10. (n.pass = Nothing) = (n.color = Nothing) /\ n.pass # Nothing
    BY <1>2, <2>4
  <2>11. \A s \in Pass : s \notin {n.pass, frame[b].pass} =>
           /\ s \in front'.live <=> s \in front.live
           /\ front'.pass[s].color = front.pass[s].color /\ front'.pass[s].depth = front.pass[s].depth
    BY <2>3, <2>4
  <2>12. /\ n.there \/ n = NoFrame
         /\ n.pass = Nothing => n.depth = Nothing
         /\ n.pass # Nothing => /\ n.pass \in front'.live
                                /\ front'.pass[n.pass].color = n.color /\ front'.pass[n.pass].depth = n.depth
         /\ n.pass \notin {Nothing, frame[b].pass} => n.pass \notin front.live
         /\ frame[b].pass \notin {Nothing, n.pass} => frame[b].pass \notin front'.live
    BY <1>1, <1>2, <2>3, <2>4
  <2>13. bound' = bound /\ (bound.target = b => n.there)
    BY <1>3, <2>4
  <2>14. b \in Framebuffer /\ n \in FrameRecord /\ FrontInv(front') /\ open' = open /\ attachments' \in [Image -> Int]
    BY <1>2, <1>3, <2>3, <2>4, <2>6
  <2>15. Reframed(b, n)
    BY <2>5, <2>9, <2>10, <2>11, <2>12, <2>14 DEF Reframed
  <2>16. Recounted(b, n)
    BY <2>7, <2>8, <2>14 DEF Recounted
  <2> QED BY <2>13, <2>14, <2>15, <2>16, FrameStep
<1> QED
  BY <1>8, <1>9

\* The depth image of framebuffer b is set, and then that of its pass in g.
DepthGoes(b, depth, g) ==
  /\ frame[b].pass # Nothing /\ FrontInv(g) /\ g.live = front.live /\ Drawn(front, g)
  /\ AttachDepth(g, frame[b].pass, depth).ok /\ Call(AttachDepth(g, frame[b].pass, depth))
  /\ frame' = [frame EXCEPT ![b].depth = depth] /\ attachments' \in [Image -> Int]
  /\ \A i \in Image : attachments'[i] = attachments[i] + One(depth = i) - One(frame[b].depth = i)
  /\ UNCHANGED <<child, bound>>

LEMMA DepthChanged ==
  ASSUME Inv, open, open' = open, NEW b \in Frames,
         NEW depth \in (front.live \cap Image) \cup {Nothing}, NEW g, DepthGoes(b, depth, g)
  PROVE  Inv'
<1> USE DEF DepthGoes
<1> DEFINE r == frame[b].pass
           a == AttachDepth(g, r, depth)
           n == [frame[b] EXCEPT !.depth = depth]
<1>1. /\ b \in Framebuffer /\ frame[b] \in FrameRecord /\ frame[b].there
      /\ frame[b].color # Nothing /\ r \in Pass /\ r \in front.live
      /\ front.pass[r].color = frame[b].color /\ attachments \in [Image -> Int] /\ child \in Int
  BY FrameIs
<1>2. /\ FrontInv(a.now) /\ a.now.live = front.live
      /\ a.now.pass[r].color = g.pass[r].color /\ a.now.pass[r].depth = depth
      /\ \A s \in Pass : s # r => a.now.pass[s] = g.pass[s]
  BY <1>1, DepthSet
<1> HIDE DEF a
<1>3. Follows(a.now, front') /\ Drawn(front, g)
  BY <1>2, CallFollows DEF a
<1>4. n \in FrameRecord /\ n.there /\ n.color = frame[b].color /\ n.depth = depth /\ n.pass = r
  BY <1>1 DEF FrameRecord
<1>5. frame' = [frame EXCEPT ![b] = n]
  BY DEF Inv, ContextType
<1> HIDE DEF n
<1>14. n.pass = r /\ r = frame[b].pass
  BY <1>4
<1> HIDE DEF DepthGoes, r
<1>15. /\ FrontInv(front') /\ front'.live = a.now.live
       /\ \A s \in Pass : front'.pass[s].color = a.now.pass[s].color /\ front'.pass[s].depth = a.now.pass[s].depth
       /\ \A s \in Pass : g.pass[s].color = front.pass[s].color /\ g.pass[s].depth = front.pass[s].depth
  BY <1>3 DEF Follows, Drawn
<1>16. /\ front'.pass[r].color = frame[b].color /\ front'.pass[r].depth = depth
       /\ front'.live = front.live
  BY <1>1, <1>2, <1>15
<1>17. \A s \in Pass : s # r => /\ front'.pass[s].color = front.pass[s].color
                                /\ front'.pass[s].depth = front.pass[s].depth
  BY <1>2, <1>15
<1>6. /\ FrontInv(front') /\ front'.live = front.live
      /\ front'.pass[r].color = frame[b].color /\ front'.pass[r].depth = depth
      /\ \A s \in Pass : s # r => /\ front'.pass[s].color = front.pass[s].color
                                  /\ front'.pass[s].depth = front.pass[s].depth
  BY <1>15, <1>16, <1>17
<1>7. /\ (n.pass = Nothing) = (n.color = Nothing) /\ n.pass # Nothing
      /\ n.pass \in front'.live /\ n.pass = frame[b].pass
      /\ front'.pass[n.pass].color = n.color /\ front'.pass[n.pass].depth = n.depth
      /\ \A s \in Pass : s \notin {n.pass, frame[b].pass} =>
           /\ s \in front'.live <=> s \in front.live
           /\ front'.pass[s].color = front.pass[s].color /\ front'.pass[s].depth = front.pass[s].depth
  <2>1. /\ n.color = frame[b].color /\ n.depth = depth /\ n.color # Nothing
        /\ r # Nothing /\ r \in front'.live
    BY <1>1, <1>4, <1>6, <1>14 DEF DepthGoes
  <2> QED BY <1>6, <1>14, <2>1
<1>8. child' = child + One(n.there) - One(b \in Frames)
  BY <1>1, <1>4 DEF One, DepthGoes
<1>9. ASSUME NEW i \in Image
      PROVE  attachments'[i] = attachments[i] + One(n.there /\ n.color = i) + One(n.there /\ n.depth = i)
                               - One(b \in Frames /\ frame[b].color = i) - One(b \in Frames /\ frame[b].depth = i)
  <2>1. /\ One(n.there /\ n.color = i) = One(b \in Frames /\ frame[b].color = i)
        /\ One(n.there /\ n.depth = i) = One(depth = i)
        /\ One(b \in Frames /\ frame[b].depth = i) = One(frame[b].depth = i)
    BY <1>4 DEF One
  <2>2. /\ One(b \in Frames /\ frame[b].color = i) \in Nat /\ One(depth = i) \in Nat
        /\ One(frame[b].depth = i) \in Nat /\ attachments[i] \in Int
    BY <1>1 DEF One
  <2>3. attachments'[i] = attachments[i] + One(depth = i) - One(frame[b].depth = i)
    BY DEF DepthGoes
  <2> QED BY <2>1, <2>2, <2>3
<1>10. front'.live \ Pass = front.live \ Pass /\ (bound.target = b => n.there)
  BY <1>4, <1>6
<1>11. b \in Framebuffer /\ n \in FrameRecord /\ FrontInv(front') /\ n.there
  BY <1>1, <1>4, <1>6
<1>12. Reframed(b, n)
  BY <1>5, <1>7, <1>10, <1>11 DEF Reframed
<1>13. Recounted(b, n)
  BY <1>8, <1>9 DEF Recounted, DepthGoes
<1> QED
  BY <1>10, <1>11, <1>12, <1>13, FrameStep DEF DepthGoes

LEMMA DepthAttached ==
  ASSUME Inv, open, AttachDepthBuffer PROVE Inv'
<1>1. PICK b \in Frames, i \in Image :
        /\ i \in front.live /\ frame[b].pass # Nothing /\ frame[b].depth = Nothing
        /\ LET Passed(g) == AttachDepth(g, frame[b].pass, i)
               attached == Then(Derived(i, "DEPTH_TARGET"), Passed)
           IN /\ Call(attached)
              /\ IF attached.ok
                 THEN /\ frame' = [frame EXCEPT ![b].depth = i]
                      /\ attachments' = [attachments EXCEPT ![i] = @ + 1]
                 ELSE UNCHANGED <<frame, attachments>>
  BY KindIs DEF AttachDepthBuffer, Live, Renderbuffer
<1>2. /\ FrontInv(front) /\ attachments \in [Image -> Int] /\ Nothing \notin Image
      /\ frame[b].pass \in Pass /\ frame[b].pass \in front.live
  BY <1>1, FrameIs
<1>3. open' = open /\ child' = child /\ bound' = bound
  BY DEF AttachDepthBuffer, Attaches
<1> DEFINE d == Derived(i, "DEPTH_TARGET")
           a == AttachDepth(d.now, frame[b].pass, i)
           attached == IF d.ok THEN a ELSE d
<1>4. /\ Call(attached)
      /\ IF attached.ok
         THEN /\ frame' = [frame EXCEPT ![b].depth = i]
              /\ attachments' = [attachments EXCEPT ![i] = @ + 1]
         ELSE UNCHANGED <<frame, attachments>>
  BY <1>1 DEF Then
<1>5. Follows(front, d.now)
  BY <1>2, StaysItself, EnteredMoves, MovesFollows DEF Carries, Derived
<1> HIDE DEF d
<1>6. FrontInv(d.now) /\ d.now.live = front.live /\ Drawn(front, d.now)
  BY <1>5 DEF Follows
<1>7. CASE ~attached.ok
  <2>1. a.ok \/ a.now = d.now
    BY <1>1, <1>2, <1>6, DepthSet
  <2> HIDE DEF a
  <2>2. attached.now = d.now
    BY <1>7, <2>1
  <2>3. Keeps
    BY <1>3, <1>4, <1>7 DEF Keeps
  <2> QED BY <1>3, <1>4, <1>5, <2>2, <2>3, FollowsStep
<1>8. CASE attached.ok
  <2>1. d.ok /\ attached = a /\ a.ok
    BY <1>8
  <2>2. /\ attachments' \in [Image -> Int]
        /\ \A j \in Image : attachments'[j] = attachments[j] + One(i = j) - One(frame[b].depth = j)
    BY <1>1, <1>2, <1>4, <2>1 DEF One
  <2>3. frame' = [frame EXCEPT ![b].depth = i] /\ Call(a) /\ i \in front.live \cap Image
    BY <1>1, <1>4, <2>1
  <2>4. DepthGoes(b, i, d.now)
    BY <1>1, <1>3, <1>6, <2>1, <2>2, <2>3 DEF DepthGoes
  <2> QED BY <1>3, <2>3, <2>4, DepthChanged
<1> QED
  BY <1>7, <1>8

LEMMA CountedDown ==
  ASSUME NEW counts \in [Image -> Int], NEW x
  PROVE  /\ Counting(counts, x, -1) \in [Image -> Int]
         /\ \A i \in Image : Counting(counts, x, -1)[i] = counts[i] - One(x = i)
  BY DEF Counting, One

LEMMA DepthDetached ==
  ASSUME Inv, open, DetachDepth PROVE Inv'
<1>1. PICK b \in Frames :
        /\ frame[b].pass # Nothing /\ AttachDepth(front, frame[b].pass, Nothing).ok
        /\ Call(AttachDepth(front, frame[b].pass, Nothing))
        /\ frame' = [frame EXCEPT ![b].depth = Nothing]
        /\ attachments' = Counting(attachments, frame[b].depth, -1)
  BY DEF DetachDepth
<1>2. FrontInv(front) /\ attachments \in [Image -> Int] /\ Nothing \notin Image
  BY FrameIs
<1>3. open' = open /\ child' = child /\ bound' = bound
  BY DEF DetachDepth, Attaches
<1>4. /\ attachments' \in [Image -> Int]
      /\ \A i \in Image : attachments'[i] = attachments[i] - One(frame[b].depth = i)
  BY <1>1, <1>2, CountedDown
<1>5. \A i \in Image : attachments'[i] = attachments[i] + One(Nothing = i) - One(frame[b].depth = i)
  BY <1>2, <1>4 DEF One
<1>6. Drawn(front, front)
  BY DEF Drawn
<1>7. DepthGoes(b, Nothing, front)
  BY <1>1, <1>2, <1>3, <1>4, <1>5, <1>6 DEF DepthGoes
<1> QED
  BY <1>3, <1>7, DepthChanged

LEMMA FrameEnded ==
  ASSUME Inv, open, EndFramebuffer PROVE Inv'
<1>1. PICK b \in Frames :
        LET gone == PassGone(front, frame[b].pass)
        IN /\ Destroyed(gone)
           /\ IF gone.ok
              THEN /\ frame' = [frame EXCEPT ![b] = NoFrame]
                   /\ attachments' = Counting(Counting(attachments, frame[b].color, -1),
                                              frame[b].depth, -1)
                   /\ bound' = IF bound.target = b THEN [bound EXCEPT !.target = Nothing] ELSE bound
              ELSE UNCHANGED <<frame, attachments, bound>>
  BY DEF EndFramebuffer
<1>2. /\ b \in Framebuffer /\ frame[b] \in FrameRecord /\ frame[b].there
      /\ frame[b].pass # Nothing => frame[b].pass \in Pass /\ frame[b].pass \in front.live
      /\ Nothing \notin Pass /\ Nothing \notin Image
      /\ FrontInv(front) /\ attachments \in [Image -> Int] /\ child \in Int
  BY FrameIs
<1>3. open' = open
  BY DEF EndFramebuffer
<1> DEFINE r == frame[b].pass
           gone == PassGone(front, r)
<1>4. /\ FrontInv(gone.now)
      /\ gone.ok => gone.now.live = front.live \ {r}
      /\ ~gone.ok => gone.now.live = front.live
      /\ \A s \in Pass : s # r \/ ~gone.ok => /\ gone.now.pass[s].color = front.pass[s].color
                                              /\ gone.now.pass[s].depth = front.pass[s].depth
  <2>1. CASE r = Nothing
    <3>1. gone = Done(front)
      BY <2>1 DEF PassGone
    <3>2. Nothing \notin front.live
      BY <1>2, KindsApart DEF FrontInv, FrontType
    <3> QED BY <1>2, <2>1, <3>1, <3>2 DEF Done
  <2>2. CASE r # Nothing
    <3> DEFINE e == EndPass(front, r).now
               d == DestroyPass(e, r)
    <3>1. gone = d
      BY <2>2 DEF PassGone
    <3>2. Follows(front, e)
      BY <1>2, <2>2, EndPassFollows
    <3> HIDE DEF e
    <3>3. FrontInv(e) /\ e.live = front.live /\ Drawn(front, e)
      BY <3>2 DEF Follows
    <3>4. IF d.ok
          THEN /\ FrontInv(d.now) /\ d.now.live = e.live \ {r}
               /\ \A s \in Pass : s # r => d.now.pass[s] = e.pass[s]
          ELSE d.now = e
      BY <1>2, <2>2, <3>3, PassDestroyed
    <3> HIDE DEF d, gone, r
    <3> QED BY <3>1, <3>3, <3>4 DEF Drawn
  <2> QED BY <2>1, <2>2
<1>5. /\ Destroyed(gone)
      /\ IF gone.ok
         THEN /\ frame' = [frame EXCEPT ![b] = NoFrame]
              /\ attachments' = Counting(Counting(attachments, frame[b].color, -1), frame[b].depth, -1)
              /\ bound' = IF bound.target = b THEN [bound EXCEPT !.target = Nothing] ELSE bound
         ELSE UNCHANGED <<frame, attachments, bound>>
  BY <1>1
<1>6. r # Nothing => r \in Pass /\ r \in front.live
  BY <1>2
<1> HIDE DEF gone, r
<1>7. Follows(gone.now, front')
  BY <1>4, <1>5, CallFollows DEF Destroyed
<1>8. /\ FrontInv(front')
      /\ gone.ok => front'.live = front.live \ {r}
      /\ ~gone.ok => front'.live = front.live
      /\ \A s \in Pass : s # r \/ ~gone.ok => /\ front'.pass[s].color = front.pass[s].color
                                              /\ front'.pass[s].depth = front.pass[s].depth
  BY <1>4, <1>7 DEF Follows, Drawn
<1>9. CASE ~gone.ok
  <2>1. Follows(front, gone.now)
    BY <1>4, <1>9 DEF Follows, Drawn
  <2>2. Keeps /\ child' = child /\ Call(gone)
    BY <1>3, <1>5, <1>9 DEF Keeps, Destroyed
  <2> QED BY <2>1, <2>2, FollowsStep
<1>10. CASE gone.ok
  <2>1. /\ NoFrame \in FrameRecord /\ ~NoFrame.there /\ NoFrame.pass = Nothing
        /\ NoFrame.color = Nothing /\ NoFrame.depth = Nothing
    BY DEF NoFrame, FrameRecord
  <2>2. front'.live \ Pass = front.live \ Pass
    <3>1. r # Nothing => r \in Pass
      BY <1>6
    <3>2. Nothing \notin front.live
      BY <1>2, KindsApart DEF FrontInv, FrontType
    <3>3. front'.live = front.live \ {r}
      BY <1>8, <1>10
    <3> HIDE DEF r
    <3> QED BY <3>1, <3>2, <3>3
  <2>3. child' = child + One(NoFrame.there) - One(b \in Frames)
    BY <1>2, <1>5, <1>10, <2>1 DEF One, Destroyed
  <2> DEFINE half == Counting(attachments, frame[b].color, -1)
  <2>4. half \in [Image -> Int] /\ \A i \in Image : half[i] = attachments[i] - One(frame[b].color = i)
    BY <1>2, CountedDown
  <2>5. attachments' = Counting(half, frame[b].depth, -1)
    BY <1>5, <1>10
  <2> HIDE DEF half
  <2>6. /\ attachments' \in [Image -> Int]
        /\ \A i \in Image : attachments'[i] = half[i] - One(frame[b].depth = i)
    BY <2>4, <2>5, CountedDown
  <2>7. ASSUME NEW i \in Image
        PROVE  attachments'[i] = attachments[i] + One(NoFrame.there /\ NoFrame.color = i)
                                 + One(NoFrame.there /\ NoFrame.depth = i)
                                 - One(b \in Frames /\ frame[b].color = i) - One(b \in Frames /\ frame[b].depth = i)
    <3>1. /\ One(NoFrame.there /\ NoFrame.color = i) = 0 /\ One(NoFrame.there /\ NoFrame.depth = i) = 0
          /\ One(b \in Frames /\ frame[b].color = i) = One(frame[b].color = i)
          /\ One(b \in Frames /\ frame[b].depth = i) = One(frame[b].depth = i)
      BY <2>1 DEF One
    <3>2. /\ One(frame[b].color = i) \in Nat /\ One(frame[b].depth = i) \in Nat /\ attachments[i] \in Int
      BY <1>2 DEF One
    <3>3. attachments'[i] = attachments[i] - One(frame[b].color = i) - One(frame[b].depth = i)
      BY <2>4, <2>6
    <3> QED BY <3>1, <3>2, <3>3
  <2>8. \/ bound' = bound /\ (bound.target = b => NoFrame.there)
        \/ bound' = [bound EXCEPT !.target = Nothing]
    BY <1>5, <1>10
  <2>9. /\ frame[b].pass \notin {Nothing, NoFrame.pass} => frame[b].pass \notin front'.live
        /\ \A s \in Pass : s \notin {NoFrame.pass, frame[b].pass} =>
             /\ s \in front'.live <=> s \in front.live
             /\ front'.pass[s].color = front.pass[s].color /\ front'.pass[s].depth = front.pass[s].depth
    BY <1>8, <1>10 DEF r
  <2>10. /\ (NoFrame.pass = Nothing) = (NoFrame.color = Nothing)
         /\ NoFrame.pass = Nothing /\ NoFrame.depth = Nothing
    BY <2>1
  <2>11. frame' = [frame EXCEPT ![b] = NoFrame] /\ b \in Framebuffer /\ FrontInv(front')
    BY <1>2, <1>5, <1>8, <1>10
  <2>12. Reframed(b, NoFrame)
    BY <2>1, <2>2, <2>9, <2>10, <2>11 DEF Reframed
  <2>13. Recounted(b, NoFrame)
    BY <2>3, <2>6, <2>7 DEF Recounted
  <2> QED BY <1>3, <2>8, <2>11, <2>12, <2>13, FrameStep
<1> QED
  BY <1>9, <1>10

LEMMA FramebufferCalls ==
  ASSUME Inv, open,
         MakeFramebuffer \/ AttachRenderbuffer \/ AttachTexture \/ AttachDepthBuffer \/ DetachDepth
         \/ EndFramebuffer
  PROVE  Inv'
<1>1. CASE AttachRenderbuffer \/ AttachTexture
  <2>1. PICK b \in Frames, i \in front.live \cap Image : AttachColor(b, i) /\ Attaches
    BY <1>1, KindIs DEF AttachRenderbuffer, AttachTexture, Live
  <2> QED BY <2>1, ColorAttached
<1> QED
  BY <1>1, FrameMade, DepthAttached, DepthDetached, FrameEnded

-----------------------------------------------------------------------------
(* The context.                                                            *)

\* With no children there is only the timeline.
LEMMA NoChildren ==
  ASSUME Inv, child = 0 PROVE front.live = front.live \cap Timeline
<1>1. Cardinality(Children) = 0 /\ Cardinality(Frames) = 0
  BY FramesFinite DEF Inv, ContextCounts
<1>2. Children = {} /\ Frames = {}
  BY <1>1, FramesFinite, FS_EmptySet
<1>3. Pass \cap front.live = {}
  BY <1>2 DEF Inv, PassesAreFramed
<1> QED
  BY <1>2, <1>3 DEF Children

LEMMA EmptyCloses ==
  ASSUME NEW f, FrontInv(f), f.live = {} PROVE MayClose(f)
<1>1. \A k \in Kind : f.count[k] = Cardinality({})
  BY DEF FrontInv, Counted
<1> QED
  BY <1>1, FS_EmptySet DEF MayClose

LEMMA FinishedIs == Finished \in Timeline
  BY BindingsAssumption DEF Finished

LEMMA ContextDestroyed ==
  ASSUME Inv, open, ContextDestroy PROVE Inv'
<1>1. /\ child = 0 /\ Call(DestroyTimeline(front, Finished)) /\ open' = FALSE
      /\ UNCHANGED <<child, attachments, frame, bound>>
  BY DEF ContextDestroy
<1>2. FrontInv(front) /\ front.live = {Finished} /\ Frames' = Frames
  BY <1>1, NoChildren DEF Inv, Context, Frames
<1>3. Ends(front, DestroyTimeline(front, Finished), Finished) /\ DestroyTimeline(front, Finished).ok
  BY <1>2, FinishedIs, TimelineEnded DEF DestroyTimeline, Done
<1>4. Follows(DestroyTimeline(front, Finished).now, front')
  BY <1>1, <1>3, CallFollows DEF Ends
<1>5. FrontInv(front') /\ front'.live = {} /\ Drawn(front, front')
  BY <1>2, <1>3, <1>4 DEF Ends, Follows, Drawn
<1>6. /\ Finished \notin Texture \cup Buffer \cup Pipeline \cup Sampler \cup Pass
      /\ \A b \in Frames : frame[b].pass \in Pass \cup {Nothing}
  BY FinishedIs, ChildIs, KindsApart DEF Inv, ContextType, FrameRecord, Frames
<1>7. ContextType'
  BY <1>1 DEF Inv, ContextType
<1>8. Bounds'
  <2>1. /\ \A u \in Unit : {bound.samples[u], bound.uniforms[u]} \subseteq {Nothing}
        /\ {bound.unpack, bound.pack, bound.uniform, bound.program, bound.sampler} \subseteq {Nothing}
    BY <1>2, <1>6 DEF Inv, Bounds, ContextType, BoundRecord
  <2> QED BY <1>1, <1>2, <2>1 DEF Inv, Bounds
<1>9. \A b \in Frames : frame[b].pass = Nothing
  BY <1>2, <1>6 DEF Inv, PassesAreFramed
<1>10. FramesAreTheirPasses'
  BY <1>1, <1>2, <1>9 DEF Inv, FramesAreTheirPasses
<1>11. PassesAreFramed'
  BY <1>1, <1>2, <1>5, <1>9 DEF Inv, PassesAreFramed
<1>12. ContextCounts'
  <2>1. Children = {} /\ Children' = {}
    BY <1>2, <1>5, FinishedIs DEF Children
  <2>2. \A i : Attached(i)' = Attached(i)
    BY <1>1, <1>2 DEF Attached
  <2> QED BY <1>1, <1>2, <2>1, <2>2 DEF Inv, ContextCounts
<1>13. Context'
  BY <1>1, <1>5 DEF Context
<1> QED
  BY <1>5, <1>7, <1>8, <1>10, <1>11, <1>12, <1>13 DEF Inv

LEMMA InitIs == Init => Inv
<1> SUFFICES ASSUME Init PROVE Inv
  OBVIOUS
<1>1. PICK n \in Left : front = CreateTimeline(Opened(n, Plenty), Finished).now
  BY DEF Init
<1>2. /\ open = TRUE /\ child = 0 /\ attachments = [i \in Image |-> 0]
      /\ frame = [b \in Framebuffer |-> NoFrame] /\ bound = Unbound
  BY DEF Init
<1> DEFINE f == Opened(n, Plenty)
           c == CreateTimeline(f, Finished)
<1>3. FrontInv(f) /\ f.live = {}
  BY OpenedInv
<1> HIDE DEF f
<1>4. Opens(f, c, Finished) /\ c.ok
  BY <1>3, FinishedIs, TimelineOpens DEF CreateTimeline, Done
<1>5. FrontInv(front) /\ front.live = {Finished}
  BY <1>1, <1>3, <1>4 DEF Opens, f
<1>6. Frames = {}
  BY <1>2 DEF Frames, NoFrame
<1>7. ContextType
  <2>1. NoFrame \in FrameRecord /\ Unbound \in BoundRecord
    BY DEF NoFrame, FrameRecord, Unbound, BoundRecord
  <2> QED BY <1>2, <2>1 DEF ContextType
<1>8. Bounds
  BY <1>2 DEF Bounds, Unbound
<1>9. FramesAreTheirPasses
  BY <1>6 DEF FramesAreTheirPasses
<1>10. Finished \notin Pass
  BY FinishedIs, KindsApart
<1>11. PassesAreFramed
  BY <1>2, <1>5, <1>6, <1>10 DEF PassesAreFramed
<1>12. ContextCounts
  <2>1. Children = {} /\ \A i : {b \in Frames : frame[b].color = i} = {} /\ {b \in Frames : frame[b].depth = i} = {}
    BY <1>5, <1>6, FinishedIs DEF Children
  <2>2. Cardinality({}) = 0
    BY FS_EmptySet
  <2> QED BY <1>2, <1>6, <2>1, <2>2 DEF ContextCounts, Attached
<1>13. Context
  BY <1>2, <1>5, FinishedIs DEF Context
<1> QED
  BY <1>5, <1>7, <1>8, <1>9, <1>11, <1>12, <1>13 DEF Inv

LEMMA NextKeeps == Inv /\ [Next]_vars => Inv'
<1> SUFFICES ASSUME Inv, [Next]_vars PROVE Inv'
  OBVIOUS
<1>1. CASE UNCHANGED vars
  <2>1. UNCHANGED <<front, open, child, attachments, frame, bound>>
    BY <1>1 DEF vars
  <2>2. /\ Frames' = Frames /\ Children' = Children /\ \A i : Attached(i)' = Attached(i)
    BY <2>1 DEF Frames, Children, Attached
  <2>3. ContextType' /\ FrontInv(front)' /\ Bounds' /\ FramesAreTheirPasses' /\ PassesAreFramed'
    BY <2>1, <2>2 DEF Inv, ContextType, Bounds, FramesAreTheirPasses, PassesAreFramed
  <2>4. ContextCounts' /\ Context'
    BY <2>1, <2>2 DEF Inv, ContextCounts, Context
  <2> QED BY <2>3, <2>4 DEF Inv
<1>2. CASE Next
  <2>1. open
    BY <1>2 DEF Next
  <2>2. \/ \/ MakeTexture \/ EndTexture \/ MakeRenderbuffer \/ EndRenderbuffer
           \/ AllocateMemory \/ FreeMemory \/ MakeBuffer \/ MakeUnboundBuffer \/ EndBuffer
           \/ MakeSampler \/ EndSampler \/ MakeQuery \/ EndQueryObject
           \/ MakeGraphicsProgram \/ MakeComputeProgram \/ EndProgram
        \/ BindTextureUnit \/ MemoryBarrier
        \/ BindSampler \/ BindUniform \/ BindBuffer \/ UseProgram \/ BindFramebuffer
        \/ MakeFramebuffer \/ AttachRenderbuffer \/ AttachTexture \/ AttachDepthBuffer
           \/ DetachDepth \/ EndFramebuffer
        \/ OnPass
        \/ Draw \/ Query \/ DispatchCompute
        \/ TextureTransfer \/ ReadPixels \/ CopyTexSubImage \/ BufferTransfer
        \/ Finish \/ BindBufferMemory \/ ProgramSampler
        \/ ContextDestroy
    BY <1>2 DEF Next
  <2> QED BY <2>1, <2>2, Objects, UnitBound, PointBound, FramebufferCalls, PassCalls, TargetCalls,
             TransferCalls, Others, ContextDestroyed
<1> QED
  BY <1>1, <1>2

LEMMA ContextIsSound == Spec => []Inv
  BY InitIs, NextKeeps, PTL DEF Spec

-----------------------------------------------------------------------------
(* The end.                                                                *)

\* What is not there has no place, and no plan; a pipeline that is there is held
\* by itself alone.
Bare(f) ==
  /\ \A o \in Object : o \in f.live \/ f.home[o] = Nothing
  /\ \A p \in Pipeline : IF p \in f.live THEN f.layoutRefs[p] = 1
                         ELSE f.plan[p] = {} /\ f.sampler[p] = Nothing

\* The lists of the copy queue and of the transitions name nothing.
Calm(f) == f.listed = {} /\ f.retained = Nothing

Tidy(f) == FrontInv(f) /\ Bare(f) /\ Calm(f)

Stages == {"render_pass", "pipeline", "sampler", "query", "image", "buffer", "memory"}

\* The users of the objects of a kind are gone.
Ready(kind, live) ==
  /\ kind # "render_pass" => live \cap Pass = {}
  /\ kind \notin {"render_pass", "pipeline"} => live \cap Pipeline = {}
  /\ kind = "memory" => live \cap Object = {}

\* What f becomes when x goes.
Undoes(f, x, g) == Tidy(g) /\ g.live = f.live \ {x}

\* When no object that is left to destroy is refused, all of them go.
LEMMA AllUndoneEnds ==
  ASSUME NEW kind \in Stages, NEW f, Tidy(f), Ready(kind, f.live),
         NEW S, IsFiniteSet(S), S \subseteq Of(kind), S \subseteq f.live,
         \A g, x : Tidy(g) /\ Ready(kind, g.live) /\ x \in S /\ x \in g.live
                     => Undoes(g, x, Undone(kind, g, x).now)
  PROVE  Tidy(AllUndone(kind, S, f)) /\ AllUndone(kind, S, f).live = f.live \ S
<1> DEFINE First(t) == CHOOSE x \in t : TRUE
           Body(g, t) == IF t = {} THEN f ELSE Undone(kind, g[t \ {First(t)}], First(t)).now
           iter == CHOOSE g : g = [t \in SUBSET S |-> Body(g, t)]
<1>1. AllUndone(kind, S, f) = iter[S]
  BY DEF AllUndone, FoldSet, MapThenFoldSet
<1>2. \A t \in SUBSET S : IsFiniteSet(t) /\ Cardinality(t) \in Nat
  BY FS_Subset, FS_CardinalityType
<1>3. ASSUME NEW t \in SUBSET S, t # {}
      PROVE  /\ First(t) \in t /\ t \ {First(t)} \in SUBSET S
             /\ Cardinality(t \ {First(t)}) = Cardinality(t) - 1
  <2>1. First(t) \in t
    BY <1>3
  <2> HIDE DEF First
  <2> QED BY <1>2, <2>1, FS_RemoveElement
<1> HIDE DEF First
<1>4. iter = [t \in SUBSET S |-> Body(iter, t)]
  <2> DEFINE Starts(k) == \E g : \A t \in SUBSET S : Cardinality(t) <= k => g[t] = Body(g, t)
             has == {k \in Nat : Starts(k)}
  <2>1. \A k : k \in has <=> k \in Nat /\ Starts(k)
    OBVIOUS
  <2>2. Starts(0)
    <3> DEFINE g == [t \in SUBSET S |-> f]
    <3>1. \A t \in SUBSET S : Cardinality(t) <= 0 => t = {}
      BY <1>2, FS_EmptySet
    <3>2. \A t \in SUBSET S : Cardinality(t) <= 0 => g[t] = Body(g, t)
      BY <3>1
    <3> HIDE DEF g
    <3> QED BY <3>2
  <2>3. ASSUME NEW k \in Nat, Starts(k) PROVE Starts(k + 1)
    <3>1. PICK g : \A t \in SUBSET S : Cardinality(t) <= k => g[t] = Body(g, t)
      BY <2>3
    <3> DEFINE h == [t \in SUBSET S |-> Body(g, t)]
    <3>2. ASSUME NEW t \in SUBSET S, Cardinality(t) <= k + 1 PROVE h[t] = Body(h, t)
      <4>1. CASE t = {}
        BY <4>1
      <4>2. CASE t # {}
        <5> DEFINE u == t \ {First(t)}
        <5>1. u \in SUBSET S /\ Cardinality(u) <= k
          BY <1>2, <1>3, <3>2, <4>2
        <5>2. h[u] = g[u]
          <6>1. h[u] = Body(g, u)
            BY <5>1
          <6> QED BY <3>1, <5>1, <6>1
        <5>3. h[t] = Body(g, t)
          OBVIOUS
        <5> HIDE DEF h
        <5> QED BY <4>2, <5>2, <5>3
      <4> QED BY <4>1, <4>2
    <3> HIDE DEF h
    <3>3. \E g1 : \A t \in SUBSET S : Cardinality(t) <= k + 1 => g1[t] = Body(g1, t)
      <4> WITNESS h
      <4> QED BY <3>2
    <3> QED BY <3>3
  <2>4. Starts(Cardinality(S))
    <3> HIDE DEF Starts, has
    <3>1. 0 \in has
      BY <2>1, <2>2
    <3>2. ASSUME NEW k \in Nat, k \in has PROVE k + 1 \in has
      <4>1. k + 1 \in Nat /\ Starts(k + 1)
        BY <2>1, <2>3, <3>2
      <4> QED BY <2>1, <4>1
    <3>3. Nat \subseteq has
      BY <3>1, <3>2, ByInduction
    <3>4. Cardinality(S) \in has
      BY <1>2, <3>3
    <3> QED BY <2>1, <3>4
  <2>5. PICK g : \A t \in SUBSET S : Cardinality(t) <= Cardinality(S) => g[t] = Body(g, t)
    BY <2>4
  <2>6. \A t \in SUBSET S : g[t] = Body(g, t)
    <3>1. \A t \in SUBSET S : Cardinality(t) <= Cardinality(S)
      BY FS_Subset
    <3> QED BY <2>5, <3>1
  <2> DEFINE h == [t \in SUBSET S |-> g[t]]
  <2>7. \A t \in SUBSET S : h[t] = Body(h, t)
    <3>1. \A t \in SUBSET S : t \ {First(t)} \in SUBSET S
      OBVIOUS
    <3>2. \A t \in SUBSET S : h[t] = g[t]
      OBVIOUS
    <3> HIDE DEF h
    <3> QED BY <2>6, <3>1, <3>2
  <2>8. h = [t \in SUBSET S |-> h[t]]
    OBVIOUS
  <2> HIDE DEF h
  <2>9. h = [t \in SUBSET S |-> Body(h, t)]
    BY <2>7, <2>8
  <2> QED BY <2>9
<1> HIDE DEF iter
<1> DEFINE Ended(t) == Tidy(iter[t]) /\ iter[t].live = f.live \ t
           Upto(k) == \A t \in SUBSET S : Cardinality(t) = k => Ended(t)
           ended == {k \in Nat : Upto(k)}
<1>5. \A k : k \in ended <=> k \in Nat /\ Upto(k)
  OBVIOUS
<1>6. \A t \in SUBSET S : iter[t] = Body(iter, t)
  BY <1>4
<1>7. Upto(0)
  <2>1. \A t \in SUBSET S : Cardinality(t) = 0 => t = {}
    BY <1>2, FS_EmptySet
  <2> QED BY <1>6, <2>1
<1>8. ASSUME NEW k \in Nat, Upto(k) PROVE Upto(k + 1)
  <2> SUFFICES ASSUME NEW t \in SUBSET S, Cardinality(t) = k + 1 PROVE Ended(t)
    OBVIOUS
  <2>1. t # {}
    BY FS_EmptySet
  <2> DEFINE x == First(t)
             u == t \ {x}
  <2>2. x \in t /\ x \in S /\ x \in f.live /\ u \in SUBSET S /\ Cardinality(u) = k
    BY <1>3, <2>1
  <2>3. Ended(u)
    BY <1>8, <2>2
  <2>4. iter[t] = Undone(kind, iter[u], x).now
    BY <1>6, <2>1
  <2> HIDE DEF x
  <2>5. Tidy(iter[u]) /\ iter[u].live = f.live \ u /\ x \in iter[u].live
    BY <2>2, <2>3
  <2>6. Ready(kind, iter[u].live)
    BY <2>5 DEF Ready
  <2>7. Undoes(iter[u], x, iter[t])
    BY <2>2, <2>4, <2>5, <2>6
  <2> QED BY <2>2, <2>5, <2>7 DEF Undoes
<1>9. Ended(S)
  <2> HIDE DEF Upto, ended
  <2>1. 0 \in ended
    BY <1>5, <1>7
  <2>2. ASSUME NEW k \in Nat, k \in ended PROVE k + 1 \in ended
    <3>1. k + 1 \in Nat /\ Upto(k + 1)
      BY <1>5, <1>8, <2>2
    <3> QED BY <1>5, <3>1
  <2>3. Nat \subseteq ended
    BY <2>1, <2>2, ByInduction
  <2>4. Upto(Cardinality(S))
    BY <1>2, <1>5, <2>3
  <2> QED BY <2>4 DEF Upto
<1> QED
  BY <1>1, <1>9

\* With no passes nothing is bound by them, with no pipelines nothing is planned.
LEMMA NoneUses ==
  ASSUME NEW f, Tidy(f)
  PROVE  /\ f.live \cap Pass = {} =>
              /\ \A x, field : x # Nothing /\ field \in {"color", "depth", "vertex", "index", "pipeline", "query"}
                               => Uses(f, field, x) = 0
              /\ \A i \in Image : f.passes[i] = 0
              /\ \A b \in Buffer : f.vertexBinds[b] = 0 /\ f.indexBinds[b] = 0
              /\ \A p \in Pipeline : f.passBinds[p] = 0
              /\ f.active = {}
         /\ f.live \cap Pipeline = {} =>
              /\ \A p \in Pipeline : f.plan[p] = {}
              /\ \A s \in Sampler : f.pipelineRefs[s] = 0
         /\ f.live \cap Object = {} => \A o \in Object : f.home[o] = Nothing
<1>1. ASSUME f.live \cap Pass = {}
      PROVE  /\ \A x, field : x # Nothing /\ field \in {"color", "depth", "vertex", "index", "pipeline", "query"}
                               => Uses(f, field, x) = 0
             /\ \A i \in Image : f.passes[i] = 0
             /\ \A b \in Buffer : f.vertexBinds[b] = 0 /\ f.indexBinds[b] = 0
             /\ \A p \in Pipeline : f.passBinds[p] = 0
             /\ f.active = {}
  <2>1. \A r \in Pass : f.pass[r] = NoPass
    BY <1>1 DEF Tidy, FrontInv, PassesHold
  <2>2. ASSUME NEW x, x # Nothing, NEW field \in {"color", "depth", "vertex", "index", "pipeline", "query"}
        PROVE  Uses(f, field, x) = 0
    <3>1. \A r \in Pass : f.pass[r][field] # x
      BY <2>1, <2>2 DEF NoPass
    <3>2. {r \in Pass : f.pass[r][field] = x} = {}
      BY <3>1
    <3> QED BY <3>2, FS_EmptySet DEF Uses
  <2>3. \A x \in Kinds : x # Nothing
    BY KindsApart
  <2>4. Counted(f)
    BY DEF Tidy, FrontInv
  <2>5. \A i \in Image : Uses(f, "color", i) = 0 /\ Uses(f, "depth", i) = 0
    BY <2>2, <2>3, KindsAre
  <2>6. \A b \in Buffer : Uses(f, "vertex", b) = 0 /\ Uses(f, "index", b) = 0
    BY <2>2, <2>3, KindsAre
  <2>7. \A p \in Pipeline : Uses(f, "pipeline", p) = 0
    BY <2>2, <2>3, KindsAre
  <2>8. \A q \in QueryPool : Uses(f, "query", q) = 0
    BY <2>2, <2>3, KindsAre
  <2> HIDE DEF Uses
  <2> QED BY <2>2, <2>4, <2>5, <2>6, <2>7, <2>8 DEF Counted
<1>2. ASSUME f.live \cap Pipeline = {}
      PROVE  (\A p \in Pipeline : f.plan[p] = {}) /\ \A s \in Sampler : f.pipelineRefs[s] = 0
  <2>1. \A p \in Pipeline : f.plan[p] = {} /\ f.sampler[p] = Nothing
    BY <1>2 DEF Tidy, Bare
  <2>2. ASSUME NEW s \in Sampler PROVE f.pipelineRefs[s] = 0
    <3>1. s # Nothing
      BY KindsApart, KindsAre
    <3>2. {p \in Pipeline : f.sampler[p] = s} = {}
      BY <2>1, <3>1
    <3>3. f.pipelineRefs[s] = Cardinality({})
      BY <3>2 DEF Tidy, FrontInv, Counted
    <3> QED BY <3>3, FS_EmptySet
  <2> QED BY <2>1, <2>2
<1>3. ASSUME f.live \cap Object = {} PROVE \A o \in Object : f.home[o] = Nothing
  BY <1>3 DEF Tidy, Bare
<1> QED
  BY <1>1, <1>2, <1>3

\* An object that nothing uses is not refused.
LEMMA PipelineUndone ==
  ASSUME NEW f, Tidy(f), f.live \cap Pass = {}, NEW p \in Pipeline, p \in f.live
  PROVE  Undoes(f, p, DestroyPipeline(f, p).now)
<1> DEFINE g == DestroyPipeline(f, p).now
<1>1. FrontType(f) /\ Shaped(f)
  BY StaysItself DEF Tidy, FrontInv
<1>2. DestroyPipeline(f, p).ok
  BY NoneUses DEF Tidy, Bare, DestroyPipeline, Done
<1>3. Ends(f, DestroyPipeline(f, p), p)
  BY PipelineEnded DEF Tidy
<1>4. /\ g.home = f.home /\ g.listed = f.listed /\ g.retained = f.retained
      /\ g.layoutRefs = [f.layoutRefs EXCEPT ![p] = 0]
      /\ g.plan = [f.plan EXCEPT ![p] = {}] /\ g.sampler = [f.sampler EXCEPT ![p] = Nothing]
  BY <1>1, <1>2 DEF DestroyPipeline, Done, Refused, Gone, Shaped, Fields
<1>5. FrontInv(g) /\ g.live = f.live \ {p}
  BY <1>2, <1>3 DEF Ends
<1>6. p \notin Object
  BY KindsApart DEF Object
<1> HIDE DEF g
<1>7. Bare(g) /\ Calm(g)
  BY <1>1, <1>4, <1>5, <1>6 DEF Tidy, Bare, Calm, FrontType
<1> QED
  BY <1>5, <1>7 DEF Undoes, Tidy, g

LEMMA SamplerUndone ==
  ASSUME NEW f, Tidy(f), f.live \cap Pipeline = {}, NEW s \in Sampler, s \in f.live
  PROVE  Undoes(f, s, DestroySampler(f, s).now)
<1> DEFINE g == DestroySampler(f, s).now
<1>1. Shaped(f)
  BY StaysItself DEF Tidy
<1>2. DestroySampler(f, s).ok
  BY NoneUses DEF DestroySampler, Done
<1>3. Ends(f, DestroySampler(f, s), s)
  BY SamplerEnded DEF Tidy
<1>4. /\ g.home = f.home /\ g.listed = f.listed /\ g.retained = f.retained
      /\ g.layoutRefs = f.layoutRefs /\ g.plan = f.plan /\ g.sampler = f.sampler
  BY <1>1, <1>2 DEF DestroySampler, Done, Refused, Gone, Shaped, Fields
<1>5. FrontInv(g) /\ g.live = f.live \ {s}
  BY <1>2, <1>3 DEF Ends
<1>6. s \notin Object /\ s \notin Pipeline
  BY KindsApart DEF Object
<1> HIDE DEF g
<1>7. Bare(g) /\ Calm(g)
  BY <1>4, <1>5, <1>6 DEF Tidy, Bare, Calm
<1> QED
  BY <1>5, <1>7 DEF Undoes, Tidy, g

LEMMA QueryPoolUndone ==
  ASSUME NEW f, Tidy(f), f.live \cap Pass = {}, NEW q \in QueryPool, q \in f.live
  PROVE  Undoes(f, q, DestroyQueryPool(f, q).now)
<1> DEFINE g == DestroyQueryPool(f, q).now
<1>1. Shaped(f)
  BY StaysItself DEF Tidy
<1>2. DestroyQueryPool(f, q).ok
  BY NoneUses DEF DestroyQueryPool, Done
<1>3. Ends(f, DestroyQueryPool(f, q), q)
  BY QueryPoolEnded DEF Tidy
<1>4. /\ g.home = f.home /\ g.listed = f.listed /\ g.retained = f.retained
      /\ g.layoutRefs = f.layoutRefs /\ g.plan = f.plan /\ g.sampler = f.sampler
  BY <1>1, <1>2 DEF DestroyQueryPool, Done, Refused, Gone, Shaped, Fields
<1>5. FrontInv(g) /\ g.live = f.live \ {q}
  BY <1>2, <1>3 DEF Ends
<1>6. q \notin Object /\ q \notin Pipeline
  BY KindsApart DEF Object
<1> HIDE DEF g
<1>7. Bare(g) /\ Calm(g)
  BY <1>4, <1>5, <1>6 DEF Tidy, Bare, Calm
<1> QED
  BY <1>5, <1>7 DEF Undoes, Tidy, g

LEMMA MemoryUndone ==
  ASSUME NEW f, Tidy(f), f.live \cap Object = {}, NEW m \in Memory, m \in f.live
  PROVE  Undoes(f, m, DestroyMemory(f, m).now)
<1> DEFINE g == DestroyMemory(f, m).now
<1>1. Shaped(f) /\ m # Nothing
  BY StaysItself, KindsApart, KindsAre DEF Tidy
<1>2. DestroyMemory(f, m).ok
  BY <1>1, NoneUses DEF DestroyMemory, Done
<1>3. Ends(f, DestroyMemory(f, m), m)
  BY MemoryEnded DEF Tidy
<1>4. /\ g.home = f.home /\ g.listed = f.listed /\ g.retained = f.retained
      /\ g.layoutRefs = f.layoutRefs /\ g.plan = f.plan /\ g.sampler = f.sampler
  BY <1>1, <1>2 DEF DestroyMemory, Done, Refused, Gone, Shaped, Fields
<1>5. FrontInv(g) /\ g.live = f.live \ {m}
  BY <1>2, <1>3 DEF Ends
<1>6. m \notin Object /\ m \notin Pipeline
  BY KindsApart DEF Object
<1> HIDE DEF g
<1>7. Bare(g) /\ Calm(g)
  BY <1>4, <1>5, <1>6 DEF Tidy, Bare, Calm
<1> QED
  BY <1>5, <1>7 DEF Undoes, Tidy, g

LEMMA BufferUndone ==
  ASSUME NEW f, Tidy(f), f.live \cap Pass = {}, f.live \cap Pipeline = {}, NEW b \in Buffer, b \in f.live
  PROVE  Undoes(f, b, DestroyBuffer(f, b).now)
<1> DEFINE g == DestroyBuffer(f, b).now
<1>1. FrontType(f) /\ Shaped(f)
  BY StaysItself DEF Tidy, FrontInv
<1>2. DestroyBuffer(f, b).ok
  BY NoneUses DEF Tidy, Calm, DestroyBuffer, Done
<1>3. Ends(f, DestroyBuffer(f, b), b)
  BY BufferEnded DEF Tidy
<1>4. /\ g.home = [f.home EXCEPT ![b] = Nothing] /\ g.listed = {} /\ g.retained = f.retained
      /\ g.layoutRefs = f.layoutRefs /\ g.plan = f.plan /\ g.sampler = f.sampler
  BY <1>1, <1>2 DEF DestroyBuffer, Done, Refused, Gone, Fresh, Shaped, Fields
<1>5. FrontInv(g) /\ g.live = f.live \ {b}
  BY <1>2, <1>3 DEF Ends
<1>6. b \in Object /\ b \notin Pipeline
  BY KindsApart DEF Object
<1> HIDE DEF g
<1>7. Bare(g) /\ Calm(g)
  BY <1>1, <1>4, <1>5, <1>6 DEF Tidy, Bare, Calm, FrontType
<1> QED
  BY <1>5, <1>7 DEF Undoes, Tidy, g

LEMMA ImageUndone ==
  ASSUME NEW f, Tidy(f), f.live \cap Pass = {}, f.live \cap Pipeline = {}, NEW i \in Image, i \in f.live
  PROVE  Undoes(f, i, DestroyImage(f, i).now)
<1> DEFINE g == DestroyImage(f, i).now
<1>1. FrontType(f) /\ Shaped(f) /\ i # Nothing
  BY StaysItself, KindsApart, KindsAre DEF Tidy, FrontInv
<1>2. /\ DestroyImage(f, i).ok
      /\ g = [Forgotten(Gone(Fresh(f, i, Nothing), "image", i))
                EXCEPT !.state[i] = "UNDEFINED", !.revisions[i] = Plenty]
  BY <1>1, NoneUses DEF Tidy, Calm, DestroyImage, Done
<1>3. Ends(f, DestroyImage(f, i), i)
  BY ImageEnded DEF Tidy
<1>4. /\ g.home = [f.home EXCEPT ![i] = Nothing] /\ g.listed = {} /\ g.retained = Nothing
      /\ g.layoutRefs = f.layoutRefs /\ g.plan = f.plan /\ g.sampler = f.sampler
  BY <1>1, <1>2 DEF Gone, Fresh, Forgotten, Shaped, Fields
<1>5. FrontInv(g) /\ g.live = f.live \ {i}
  BY <1>2, <1>3 DEF Ends
<1>6. i \in Object /\ i \notin Pipeline
  BY KindsApart DEF Object
<1> HIDE DEF g
<1>7. Bare(g) /\ Calm(g)
  BY <1>1, <1>4, <1>5, <1>6 DEF Tidy, Bare, Calm, FrontType
<1> QED
  BY <1>5, <1>7 DEF Undoes, Tidy, g

LEMMA PassUndone ==
  ASSUME NEW f, Tidy(f), NEW r \in Pass, r \in f.live
  PROVE  Undoes(f, r, PassGone(EndQuery(f, r).now, r).now)
<1> DEFINE e == EndQuery(f, r).now
           h == EndPass(e, r).now
           g == DestroyPass(h, r).now
<1>1. Shaped(f) /\ r # Nothing /\ DOMAIN f.pass = Pass /\ "query" \in DOMAIN f.pass[r]
  BY StaysItself, KindsApart, KindsAre, PassFields DEF Tidy
<1>2. FrontInv(e) /\ e.live = f.live
  BY EndQueryFollows DEF Follows, Tidy
<1>3. /\ e.pass[r].query = Nothing /\ e.home = f.home /\ e.listed = f.listed /\ e.retained = f.retained
      /\ e.layoutRefs = f.layoutRefs /\ e.plan = f.plan /\ e.sampler = f.sampler
  BY <1>1 DEF EndQuery, Done, Refused, Shaped, Fields
<1> HIDE DEF e
<1>4. FrontInv(h) /\ h.live = f.live
  BY <1>2, EndPassFollows DEF Follows
<1>5. /\ h.pass[r].query = Nothing /\ ~h.pass[r].begun
      /\ h.home = f.home /\ h.listed = f.listed /\ h.retained = f.retained
      /\ h.layoutRefs = f.layoutRefs /\ h.plan = f.plan /\ h.sampler = f.sampler
  BY <1>2, <1>3, StaysItself, PassFields DEF EndPass, Done, Refused, Shaped, Fields
<1> HIDE DEF h
<1>6. DestroyPass(h, r).ok
  BY <1>5 DEF DestroyPass, Done
<1>7. FrontInv(g) /\ g.live = f.live \ {r}
  BY <1>4, <1>6, PassDestroyed
<1>8. /\ g.home = f.home /\ g.listed = f.listed /\ g.retained = f.retained
      /\ g.layoutRefs = f.layoutRefs /\ g.plan = f.plan /\ g.sampler = f.sampler
  BY <1>4, <1>5, <1>6, StaysItself DEF DestroyPass, Done, Refused, Gone, Shaped, Fields
<1>9. r \notin Object /\ r \notin Pipeline
  BY KindsApart DEF Object
<1> HIDE DEF g
<1>10. Bare(g) /\ Calm(g)
  BY <1>7, <1>8, <1>9 DEF Tidy, Bare, Calm
<1>11. PassGone(e, r).now = g
  BY <1>1 DEF PassGone, g, h
<1> QED
  BY <1>7, <1>10, <1>11 DEF Undoes, Tidy, e

LEMMA UndoneEnds ==
  ASSUME NEW kind \in Stages, NEW f, Tidy(f), Ready(kind, f.live), NEW x \in Of(kind), x \in f.live
  PROVE  Undoes(f, x, Undone(kind, f, x).now)
<1>1. CASE kind = "render_pass"
  <2>1. x \in Pass /\ Undone(kind, f, x) = PassGone(EndQuery(f, x).now, x)
    BY <1>1, KindIs DEF Undone
  <2> QED BY <2>1, PassUndone
<1>2. CASE kind = "pipeline"
  <2>1. x \in Pipeline /\ Undone(kind, f, x) = DestroyPipeline(f, x)
    BY <1>2, KindIs DEF Undone
  <2> QED BY <1>2, <2>1, PipelineUndone DEF Ready
<1>3. CASE kind = "sampler"
  <2>1. x \in Sampler /\ Undone(kind, f, x) = DestroySampler(f, x)
    BY <1>3, KindIs DEF Undone
  <2> QED BY <1>3, <2>1, SamplerUndone DEF Ready
<1>4. CASE kind = "query"
  <2>1. x \in QueryPool /\ Undone(kind, f, x) = DestroyQueryPool(f, x)
    BY <1>4, KindIs DEF Undone
  <2> QED BY <1>4, <2>1, QueryPoolUndone DEF Ready
<1>5. CASE kind = "image"
  <2>1. x \in Image /\ Undone(kind, f, x) = DestroyImage(f, x)
    BY <1>5, KindIs DEF Undone
  <2> QED BY <1>5, <2>1, ImageUndone DEF Ready
<1>6. CASE kind = "buffer"
  <2>1. x \in Buffer /\ Undone(kind, f, x) = DestroyBuffer(f, x)
    BY <1>6, KindIs DEF Undone
  <2> QED BY <1>6, <2>1, BufferUndone DEF Ready
<1>7. CASE kind = "memory"
  <2>1. x \in Memory /\ Undone(kind, f, x) = DestroyMemory(f, x)
    BY <1>7, KindIs DEF Undone
  <2> QED BY <1>7, <2>1, MemoryUndone DEF Ready
<1> QED
  BY <1>1, <1>2, <1>3, <1>4, <1>5, <1>6, <1>7 DEF Stages

\* What remains after a stage.
LEMMA StageEnds ==
  ASSUME NEW kind \in Stages, NEW f, Tidy(f), Ready(kind, f.live), NEW S, S = f.live \cap Of(kind)
  PROVE  Tidy(AllUndone(kind, S, f)) /\ AllUndone(kind, S, f).live = f.live \ Of(kind)
<1>1. IsFiniteSet(S)
  BY LiveFinite, FS_Subset DEF Tidy
<1>2. S \subseteq Of(kind) /\ S \subseteq f.live
  OBVIOUS
<1>3. \A g, x : Tidy(g) /\ Ready(kind, g.live) /\ x \in S /\ x \in g.live
                  => Undoes(g, x, Undone(kind, g, x).now)
  BY <1>2, UndoneEnds
<1> QED
  BY <1>1, <1>2, <1>3, AllUndoneEnds

\* Nothing remains but the timeline.
LEMMA TornDownEnds ==
  ASSUME Inv, Bare(front), Calm(front)
  PROVE  FrontInv(TornDown(front)) /\ TornDown(front).live = front.live \cap Timeline
<1> DEFINE Gone1 == AllUndone("render_pass", {frame[b].pass : b \in Frames} \ {Nothing}, front)
           Gone2 == AllUndone("pipeline", front.live \cap Pipeline, Gone1)
           Gone3 == AllUndone("sampler", front.live \cap Sampler, Gone2)
           Gone4 == AllUndone("query", front.live \cap QueryPool, Gone3)
           Gone5 == AllUndone("image", front.live \cap Image, Gone4)
           Gone6 == AllUndone("buffer", front.live \cap Buffer, Gone5)
           Gone7 == AllUndone("memory", front.live \cap Memory, Gone6)
<1>1. TornDown(front) = Gone7
  BY DEF TornDown
<1>2. {frame[b].pass : b \in Frames} \ {Nothing} = front.live \cap Pass
  <2>1. Nothing \notin Pass
    BY KindsApart, KindsAre
  <2> QED BY <2>1, FramePass DEF Inv, PassesAreFramed
<1>3. Tidy(front)
  BY DEF Inv, Tidy
<1>4. Tidy(Gone1) /\ Gone1.live = front.live \ Pass
  BY <1>2, <1>3, StageEnds, KindIs DEF Stages, Ready
<1> HIDE DEF Gone1
<1>5. Tidy(Gone2) /\ Gone2.live = front.live \ (Pass \cup Pipeline)
  <2>1. Ready("pipeline", Gone1.live) /\ front.live \cap Pipeline = Gone1.live \cap Of("pipeline")
    BY <1>4, KindIs, KindsApart DEF Ready
  <2>2. Tidy(Gone2) /\ Gone2.live = Gone1.live \ Pipeline
    BY <1>4, <2>1, StageEnds, KindIs DEF Stages
  <2> QED BY <1>4, <2>2
<1> HIDE DEF Gone2
<1>6. Tidy(Gone3) /\ Gone3.live = front.live \ (Pass \cup Pipeline \cup Sampler)
  <2>1. Ready("sampler", Gone2.live) /\ front.live \cap Sampler = Gone2.live \cap Of("sampler")
    BY <1>5, KindIs, KindsApart DEF Ready
  <2>2. Tidy(Gone3) /\ Gone3.live = Gone2.live \ Sampler
    BY <1>5, <2>1, StageEnds, KindIs DEF Stages
  <2> QED BY <1>5, <2>2
<1> HIDE DEF Gone3
<1>7. Tidy(Gone4) /\ Gone4.live = front.live \ (Pass \cup Pipeline \cup Sampler \cup QueryPool)
  <2>1. Ready("query", Gone3.live) /\ front.live \cap QueryPool = Gone3.live \cap Of("query")
    BY <1>6, KindIs, KindsApart DEF Ready
  <2>2. Tidy(Gone4) /\ Gone4.live = Gone3.live \ QueryPool
    BY <1>6, <2>1, StageEnds, KindIs DEF Stages
  <2> QED BY <1>6, <2>2
<1> HIDE DEF Gone4
<1>8. Tidy(Gone5) /\ Gone5.live = front.live \ (Pass \cup Pipeline \cup Sampler \cup QueryPool \cup Image)
  <2>1. Ready("image", Gone4.live) /\ front.live \cap Image = Gone4.live \cap Of("image")
    BY <1>7, KindIs, KindsApart DEF Ready
  <2>2. Tidy(Gone5) /\ Gone5.live = Gone4.live \ Image
    BY <1>7, <2>1, StageEnds, KindIs DEF Stages
  <2> QED BY <1>7, <2>2
<1> HIDE DEF Gone5
<1>9. Tidy(Gone6) /\ Gone6.live = front.live \ (Pass \cup Pipeline \cup Sampler \cup QueryPool \cup Object)
  <2>1. Ready("buffer", Gone5.live) /\ front.live \cap Buffer = Gone5.live \cap Of("buffer")
    BY <1>8, KindIs, KindsApart DEF Ready
  <2>2. Tidy(Gone6) /\ Gone6.live = Gone5.live \ Buffer
    BY <1>8, <2>1, StageEnds, KindIs DEF Stages
  <2> QED BY <1>8, <2>2 DEF Object
<1> HIDE DEF Gone6
<1>10. Tidy(Gone7) /\ Gone7.live = front.live \ (Pass \cup Pipeline \cup Sampler \cup QueryPool \cup Object \cup Memory)
  <2>1. Ready("memory", Gone6.live) /\ front.live \cap Memory = Gone6.live \cap Of("memory")
    BY <1>9, KindIs, KindsApart DEF Ready, Object
  <2>2. Tidy(Gone7) /\ Gone7.live = Gone6.live \ Memory
    BY <1>9, <2>1, StageEnds, KindIs DEF Stages
  <2> QED BY <1>9, <2>2
<1> HIDE DEF Gone7
<1>11. front.live \subseteq Kinds
  BY DEF Inv, FrontInv, FrontType
<1> QED
  BY <1>1, <1>10, <1>11, KindsAre, KindsApart DEF Tidy, Object

-----------------------------------------------------------------------------
(* What is not there stays bare.                                           *)

\* None of what Bare looks at has changed.
Unmoved(f, g) ==
  /\ Shaped(g) /\ g.live = f.live /\ g.home = f.home
  /\ g.layoutRefs = f.layoutRefs /\ g.plan = f.plan /\ g.sampler = f.sampler

\* A state that a call may leave.
StaysBare(g) == Shaped(g) /\ Bare(g)

LEMMA UnmovedOn ==
  ASSUME NEW f, NEW g, NEW h, Unmoved(f, g), Unmoved(g, h) PROVE Unmoved(f, h)
  BY DEF Unmoved

LEMMA UnmovedBare ==
  ASSUME NEW f, NEW g, Bare(f), Unmoved(f, g) PROVE StaysBare(g)
  BY DEF Unmoved, StaysBare, Bare

LEMMA MovesUnmoved ==
  ASSUME NEW f, NEW g, Moves(f, g) PROVE Unmoved(f, g)
  BY DEF Moves, Counters, Fields, Unmoved

LEMMA CallBare ==
  ASSUME NEW r, StaysBare(r.now), Call(r) PROVE Bare(front')
<1>1. Unmoved(r.now, front')
  BY BytesMove, MovesUnmoved DEF Carries, Call, StaysBare
<1> QED
  BY <1>1, UnmovedBare DEF StaysBare

LEMMA CallsUnmoved ==
  ASSUME NEW f, Shaped(f), NEW r, NEW x
  PROVE  /\ Unmoved(f, Signal(f, x).now) /\ Unmoved(f, SetScissor(f, r, x).now)
         /\ Unmoved(f, BindPipeline(f, r, x).now) /\ Unmoved(f, BindIndex(f, r, x).now)
         /\ Unmoved(f, BindVertex(f, r, x).now) /\ Unmoved(f, BeginQuery(f, r, x).now)
         /\ Unmoved(f, EndQuery(f, r).now) /\ Unmoved(f, EndPass(f, r).now)
         /\ Unmoved(f, AttachDepth(f, r, x).now) /\ Unmoved(f, BeginPass(f, r, x).now)
         /\ Unmoved(f, CreateBufferInVain(f).now)
<1>1. Unmoved(f, Signal(f, x).now) /\ Unmoved(f, SetScissor(f, r, x).now)
  BY DEF Signal, SetScissor, Done, Refused, Unmoved, Shaped, Fields
<1>2. Unmoved(f, BindPipeline(f, r, x).now) /\ Unmoved(f, BindIndex(f, r, x).now)
  BY DEF BindPipeline, BindIndex, Done, Refused, Unmoved, Shaped, Fields
<1>3. Unmoved(f, BindVertex(f, r, x).now) /\ Unmoved(f, BeginQuery(f, r, x).now)
  BY DEF BindVertex, BeginQuery, Done, Refused, Unmoved, Shaped, Fields
<1>4. Unmoved(f, EndQuery(f, r).now) /\ Unmoved(f, EndPass(f, r).now)
  BY DEF EndQuery, EndPass, Done, Refused, Unmoved, Shaped, Fields
<1>5. Unmoved(f, AttachDepth(f, r, x).now)
  BY DEF AttachDepth, Done, Refused, Unmoved, Shaped, Fields
<1>6. Unmoved(f, BeginPass(f, r, x).now)
  BY DEF BeginPass, Done, Refused, Unmoved, Shaped, Fields
<1>7. Unmoved(f, CreateBufferInVain(f).now)
  BY DEF CreateBufferInVain, Done, Refused, Unmoved, Shaped, Fields
<1> QED
  BY <1>1, <1>2, <1>3, <1>4, <1>5, <1>6, <1>7

LEMMA BeginPassNowUnmoved ==
  ASSUME NEW f, Shaped(f), NEW r, NEW cleared, NEW v
  PROVE  Unmoved(f, BeginPassNow(f, r, cleared, v).now)
<1> DEFINE b == BeginPass(f, r, cleared)
           loaded == IF b.ok THEN ApplyLoads(b.now, r, cleared, v) ELSE b
<1>1. BeginPassNow(f, r, cleared, v) =
        IF loaded.ok \/ f.pass[r].begun THEN loaded
        ELSE Refused([loaded.now EXCEPT !.pass[r].begun = FALSE])
  BY DEF BeginPassNow, Then
<1>2. Unmoved(f, b.now) /\ Shaped(b.now)
  BY CallsUnmoved DEF Unmoved
<1> HIDE DEF b
<1>3. Unmoved(b.now, ApplyLoads(b.now, r, cleared, v).now)
  BY <1>2, ApplyLoadsMoves, MovesUnmoved DEF Carries
<1>4. Unmoved(f, loaded.now)
  BY <1>2, <1>3, UnmovedOn
<1> HIDE DEF loaded
<1>5. Unmoved(f, [loaded.now EXCEPT !.pass[r].begun = FALSE])
  BY <1>4 DEF Unmoved, Shaped, Fields
<1> QED
  BY <1>1, <1>4, <1>5 DEF Refused

LEMMA ClearNowUnmoved ==
  ASSUME NEW f, Shaped(f), NEW r, NEW v
  PROVE  Unmoved(f, ClearNow(f, r, v).now) /\ Unmoved(f, ClearDepthNow(f, r, v).now)
<1>1. /\ ClearNow(f, r, v).now \in {f, ClearPass(f, r, Area(f, r), v).now}
      /\ ClearDepthNow(f, r, v).now \in {f, ClearPassDepth(f, r, Area(f, r), v).now}
  BY DEF ClearNow, ClearDepthNow, Refused
<1> QED
  BY <1>1, ClearPassMoves, MovesStays, MovesUnmoved DEF Carries

\* Calls that make an object.
LEMMA MadeBare ==
  ASSUME NEW f, FrontInv(f), Bare(f)
  PROVE  /\ \A m \in Memory : StaysBare(CreateMemory(f, m).now)
         /\ \A s \in Sampler : StaysBare(CreateSampler(f, s).now)
         /\ \A q \in QueryPool : StaysBare(CreateQueryPool(f, q).now)
         /\ \A i : \A r \in Pass : StaysBare(CreatePass(f, r, i).now)
         /\ \A t \in Timeline : StaysBare(CreateTimeline(f, t).now)
<1>1. Shaped(f)
  BY StaysItself
<1>2. ASSUME NEW x \in Kinds, x \notin Pipeline, NEW g, Shaped(g), g.live = f.live \cup {x},
             g.home = f.home, g.layoutRefs = f.layoutRefs, g.plan = f.plan, g.sampler = f.sampler
      PROVE  StaysBare(g)
  BY <1>2 DEF StaysBare, Bare
<1>3. /\ \A x \in Memory \cup Sampler \cup QueryPool \cup Pass \cup Timeline : x \in Kinds /\ x \notin Pipeline
  BY KindsApart, KindsAre
<1>4. \A kind, x : /\ Shaped(Made(f, kind, x)) /\ Made(f, kind, x).live = f.live \cup {x}
                   /\ Made(f, kind, x).home = f.home /\ Made(f, kind, x).layoutRefs = f.layoutRefs
                   /\ Made(f, kind, x).plan = f.plan /\ Made(f, kind, x).sampler = f.sampler
  BY <1>1 DEF Made, Shaped, Fields
<1>5. ASSUME NEW m \in Memory PROVE StaysBare(CreateMemory(f, m).now)
  BY <1>2, <1>3, <1>4 DEF CreateMemory, Done
<1>6. ASSUME NEW s \in Sampler PROVE StaysBare(CreateSampler(f, s).now)
  BY <1>2, <1>3, <1>4 DEF CreateSampler, Done
<1>7. ASSUME NEW q \in QueryPool PROVE StaysBare(CreateQueryPool(f, q).now)
  BY <1>2, <1>3, <1>4 DEF CreateQueryPool, Done
<1>8. ASSUME NEW r \in Pass, NEW i PROVE StaysBare(CreatePass(f, r, i).now)
  <2> DEFINE g == [Made(f, "render_pass", r) EXCEPT
                     !.pass[r] = [NoPass EXCEPT !.color = i], !.passes[i] = @ + 1]
  <2>1. CreatePass(f, r, i).now = f \/ CreatePass(f, r, i).now = g
    BY DEF CreatePass, Done, Refused
  <2>2. StaysBare(f)
    BY <1>1 DEF StaysBare
  <2>3. /\ Shaped(g) /\ g.live = f.live \cup {r}
        /\ g.home = f.home /\ g.layoutRefs = f.layoutRefs /\ g.plan = f.plan /\ g.sampler = f.sampler
    BY <1>4 DEF Shaped, Fields
  <2> HIDE DEF g
  <2>4. StaysBare(g)
    BY <1>2, <1>3, <2>3
  <2> QED BY <2>1, <2>2, <2>4
<1>9. ASSUME NEW t \in Timeline PROVE StaysBare(CreateTimeline(f, t).now)
  <2> DEFINE g == [Made(f, "timeline", t) EXCEPT !.value[t] = 0]
  <2>1. /\ Shaped(g) /\ g.live = f.live \cup {t}
        /\ g.home = f.home /\ g.layoutRefs = f.layoutRefs /\ g.plan = f.plan /\ g.sampler = f.sampler
    BY <1>4 DEF Shaped, Fields
  <2>2. CreateTimeline(f, t).now = g
    BY DEF CreateTimeline, Done
  <2> HIDE DEF g
  <2> QED BY <1>2, <1>3, <2>1, <2>2
<1> QED
  BY <1>5, <1>6, <1>7, <1>8, <1>9

LEMMA ObjectMadeBare ==
  ASSUME NEW f, FrontInv(f), Bare(f), NEW home
  PROVE  /\ \A b \in Buffer : StaysBare(CreateBuffer(f, b, home).now)
         /\ \A left : \A i \in Image : StaysBare(CreateImage(f, i, home, "UNDEFINED", left).now)
         /\ \A m : \A b \in Buffer : b \in f.live => StaysBare(BindMemory(f, b, m).now)
<1>1. Shaped(f) /\ FrontType(f)
  BY StaysItself DEF FrontInv
<1>2. ASSUME NEW o \in Object, NEW g, Shaped(g), g.live = f.live \cup {o}, NEW m,
             g.home = [f.home EXCEPT ![o] = m], g.layoutRefs = f.layoutRefs, g.plan = f.plan,
             g.sampler = f.sampler
      PROVE  StaysBare(g)
  <2>1. o \notin Pipeline
    BY KindsApart DEF Object
  <2> QED BY <1>1, <1>2, <2>1 DEF StaysBare, Bare, FrontType
<1>3. StaysBare(f)
  BY <1>1 DEF StaysBare
<1>4. ASSUME NEW b \in Buffer PROVE StaysBare(CreateBuffer(f, b, home).now)
  <2> DEFINE g == CreateBuffer(f, b, home).now
  <2>1. /\ Shaped(g) /\ g.live = f.live \cup {b} /\ g.home = [f.home EXCEPT ![b] = home]
        /\ g.layoutRefs = f.layoutRefs /\ g.plan = f.plan /\ g.sampler = f.sampler
    BY <1>1 DEF CreateBuffer, Done, Made, Fresh, Shaped, Fields
  <2> HIDE DEF g
  <2>2. b \in Object
    BY DEF Object
  <2> QED BY <1>2, <2>1, <2>2 DEF g
<1>5. ASSUME NEW i \in Image, NEW left
      PROVE  StaysBare(CreateImage(f, i, home, "UNDEFINED", left).now)
  <2> DEFINE e == [Fresh(f, i, home) EXCEPT !.state[i] = "UNDEFINED", !.revisions[i] = left]
             r == Entered(e, i, "UNDEFINED")
             g == Made(r.now, "image", i)
  <2>1. CreateImage(f, i, home, "UNDEFINED", left).now \in {g, Forgotten(f)}
    BY DEF CreateImage, Done, Refused
  <2>2. Unmoved(f, Forgotten(f))
    BY <1>1 DEF Forgotten, Unmoved, Shaped, Fields
  <2>3. /\ Shaped(e) /\ e.live = f.live /\ e.home = [f.home EXCEPT ![i] = home]
        /\ e.layoutRefs = f.layoutRefs /\ e.plan = f.plan /\ e.sampler = f.sampler
    BY <1>1 DEF Fresh, Shaped, Fields
  <2> HIDE DEF e
  <2>4. Unmoved(e, r.now)
    BY <2>3, EnteredMoves, MovesUnmoved DEF Carries
  <2> HIDE DEF r
  <2>5. /\ Shaped(g) /\ g.live = f.live \cup {i} /\ g.home = [f.home EXCEPT ![i] = home]
        /\ g.layoutRefs = f.layoutRefs /\ g.plan = f.plan /\ g.sampler = f.sampler
    BY <2>3, <2>4 DEF Unmoved, Made, Shaped, Fields
  <2> HIDE DEF g
  <2>6. StaysBare(g)
    BY <1>2, <2>5 DEF Object
  <2> QED BY <2>1, <2>2, <2>6, UnmovedBare
<1>6. ASSUME NEW b \in Buffer, NEW m, b \in f.live PROVE StaysBare(BindMemory(f, b, m).now)
  <2> DEFINE g == [f EXCEPT !.home[b] = m]
  <2>1. BindMemory(f, b, m).now \in {f, g}
    BY DEF BindMemory, Done, Refused
  <2>2. /\ Shaped(g) /\ g.live = f.live /\ g.home = [f.home EXCEPT ![b] = m]
        /\ g.layoutRefs = f.layoutRefs /\ g.plan = f.plan /\ g.sampler = f.sampler
    BY <1>1 DEF Shaped, Fields
  <2> HIDE DEF g
  <2>3. StaysBare(g)
    BY <1>6, <2>2, <1>2 DEF Object
  <2> QED BY <1>3, <2>1, <2>3
<1> QED
  BY <1>4, <1>5, <1>6

LEMMA PipelineMadeBare ==
  ASSUME NEW f, FrontInv(f), Bare(f), NEW p \in Pipeline, NEW target, NEW sampled, NEW uniforms
  PROVE  /\ StaysBare(CreatePipeline(f, p, target, sampled, uniforms).now)
         /\ StaysBare(CreateGraphicsPipeline(f, p, target, sampled, uniforms).now)
         /\ p \in f.live => \A s : StaysBare(SetSampler(f, p, s).now)
<1>1. Shaped(f) /\ FrontType(f) /\ p \notin Object
  BY StaysItself, KindsApart DEF FrontInv, Object
<1>2. StaysBare(f)
  BY <1>1 DEF StaysBare
<1>3. StaysBare(CreatePipeline(f, p, target, sampled, uniforms).now)
  <2> DEFINE pins == sampled \cup uniforms \cup ({target} \ {Nothing})
             g == [Made(f, "pipeline", p) EXCEPT !.plan[p] = pins, !.layoutRefs[p] = 1]
  <2>1. CreatePipeline(f, p, target, sampled, uniforms).now \in {f, g}
    BY DEF CreatePipeline, Done, Refused
  <2> HIDE DEF pins
  <2>2. /\ Shaped(g) /\ g.live = f.live \cup {p} /\ g.home = f.home
        /\ g.layoutRefs = [f.layoutRefs EXCEPT ![p] = 1] /\ g.plan = [f.plan EXCEPT ![p] = pins]
        /\ g.sampler = f.sampler
    BY <1>1 DEF Made, Shaped, Fields
  <2> HIDE DEF g
  <2>3. Bare(g)
    BY <1>1, <2>2 DEF Bare, FrontType
  <2> QED BY <1>2, <2>1, <2>2, <2>3 DEF StaysBare
<1>4. StaysBare(CreateGraphicsPipeline(f, p, target, sampled, uniforms).now)
  BY <1>2, <1>3 DEF CreateGraphicsPipeline, Refused
<1>5. ASSUME p \in f.live, NEW s PROVE StaysBare(SetSampler(f, p, s).now)
  <2> DEFINE refs == Counting(Counting(f.pipelineRefs, f.sampler[p], -1), s, 1)
             g == [f EXCEPT !.sampler[p] = s, !.pipelineRefs = refs]
  <2>1. SetSampler(f, p, s).now \in {f, g}
    BY DEF SetSampler, Done, Refused
  <2> HIDE DEF refs
  <2>2. /\ Shaped(g) /\ g.live = f.live /\ g.home = f.home
        /\ g.layoutRefs = f.layoutRefs /\ g.plan = f.plan /\ g.sampler = [f.sampler EXCEPT ![p] = s]
    BY <1>1 DEF Shaped, Fields
  <2> HIDE DEF g
  <2>3. Bare(g)
    BY <1>1, <1>5, <2>2 DEF Bare, FrontType
  <2> QED BY <1>2, <2>1, <2>2, <2>3 DEF StaysBare
<1> QED
  BY <1>3, <1>4, <1>5

\* Calls that end an object, or are refused.
LEMMA EndedBare ==
  ASSUME NEW f, FrontInv(f), Bare(f)
  PROVE  /\ \A m \in Memory : m \in f.live => StaysBare(DestroyMemory(f, m).now)
         /\ \A s \in Sampler : s \in f.live => StaysBare(DestroySampler(f, s).now)
         /\ \A q \in QueryPool : q \in f.live => StaysBare(DestroyQueryPool(f, q).now)
         /\ \A t \in Timeline : StaysBare(DestroyTimeline(f, t).now)
         /\ \A r \in Pass : StaysBare(DestroyPass(f, r).now)
<1>1. Shaped(f)
  BY StaysItself
<1>2. ASSUME NEW x \in Kinds, x \notin Pipeline, x \notin Object, NEW g, Shaped(g), g.live = f.live \ {x},
             g.home = f.home, g.layoutRefs = f.layoutRefs, g.plan = f.plan, g.sampler = f.sampler
      PROVE  StaysBare(g)
  BY <1>2 DEF StaysBare, Bare
<1>3. \A x \in Memory \cup Sampler \cup QueryPool \cup Pass \cup Timeline :
        x \in Kinds /\ x \notin Pipeline /\ x \notin Object
  BY KindsApart, KindsAre DEF Object
<1>4. StaysBare(f)
  BY <1>1 DEF StaysBare
<1>5. \A kind, x : /\ Shaped(Gone(f, kind, x)) /\ Gone(f, kind, x).live = f.live \ {x}
                   /\ Gone(f, kind, x).home = f.home /\ Gone(f, kind, x).layoutRefs = f.layoutRefs
                   /\ Gone(f, kind, x).plan = f.plan /\ Gone(f, kind, x).sampler = f.sampler
  BY <1>1 DEF Gone, Shaped, Fields
<1>6. \A kind : \A x \in Memory \cup Sampler \cup QueryPool \cup Timeline : StaysBare(Gone(f, kind, x))
  BY <1>2, <1>3, <1>5
<1>7. /\ \A m \in Memory : StaysBare(DestroyMemory(f, m).now)
      /\ \A s \in Sampler : StaysBare(DestroySampler(f, s).now)
      /\ \A q \in QueryPool : StaysBare(DestroyQueryPool(f, q).now)
      /\ \A t \in Timeline : StaysBare(DestroyTimeline(f, t).now)
  BY <1>4, <1>6 DEF DestroyMemory, DestroySampler, DestroyQueryPool, DestroyTimeline, Done, Refused
<1>8. ASSUME NEW r \in Pass PROVE StaysBare(DestroyPass(f, r).now)
  <2> DEFINE g == DestroyPass(f, r).now
  <2>1. CASE DestroyPass(f, r).ok
    <3>1. /\ Shaped(g) /\ g.live = f.live \ {r} /\ g.home = f.home
          /\ g.layoutRefs = f.layoutRefs /\ g.plan = f.plan /\ g.sampler = f.sampler
      BY <1>1, <2>1 DEF DestroyPass, Done, Refused, Gone, Shaped, Fields
    <3> HIDE DEF g
    <3>2. StaysBare(g)
      BY <1>2, <1>3, <3>1
    <3> QED BY <3>2 DEF g
  <2>2. CASE ~DestroyPass(f, r).ok
    <3>1. DestroyPass(f, r).now = f
      BY <2>2 DEF DestroyPass, Done, Refused
    <3> QED BY <1>4, <3>1
  <2> QED BY <2>1, <2>2
<1> QED
  BY <1>7, <1>8

LEMMA ObjectEndedBare ==
  ASSUME NEW f, FrontInv(f), Bare(f)
  PROVE  /\ \A b \in Buffer : StaysBare(DestroyBuffer(f, b).now)
         /\ \A i \in Image : StaysBare(DestroyImage(f, i).now)
         /\ \A p \in Pipeline : StaysBare(DestroyPipeline(f, p).now)
<1>1. Shaped(f) /\ FrontType(f)
  BY StaysItself DEF FrontInv
<1>2. ASSUME NEW o \in Object, NEW g, Shaped(g), g.live = f.live \ {o},
             g.home = [f.home EXCEPT ![o] = Nothing], g.layoutRefs = f.layoutRefs, g.plan = f.plan,
             g.sampler = f.sampler
      PROVE  StaysBare(g)
  <2>1. o \notin Pipeline
    BY KindsApart DEF Object
  <2> QED BY <1>1, <1>2, <2>1 DEF StaysBare, Bare, FrontType
<1>3. StaysBare(f)
  BY <1>1 DEF StaysBare
<1>4. ASSUME NEW b \in Buffer PROVE StaysBare(DestroyBuffer(f, b).now)
  <2> DEFINE g == [Gone(Fresh(f, b, Nothing), "buffer", b) EXCEPT !.listed = {}]
  <2>1. DestroyBuffer(f, b).now \in {f, g}
    BY DEF DestroyBuffer, Done, Refused
  <2>2. /\ Shaped(g) /\ g.live = f.live \ {b} /\ g.home = [f.home EXCEPT ![b] = Nothing]
        /\ g.layoutRefs = f.layoutRefs /\ g.plan = f.plan /\ g.sampler = f.sampler
    BY <1>1 DEF Gone, Fresh, Shaped, Fields
  <2> HIDE DEF g
  <2>3. StaysBare(g)
    BY <1>2, <2>2 DEF Object
  <2> QED BY <1>3, <2>1, <2>3
<1>5. ASSUME NEW i \in Image PROVE StaysBare(DestroyImage(f, i).now)
  <2> DEFINE h == [f EXCEPT !.state[i] = "gone"]
             g == [Forgotten(Gone(Fresh(f, i, Nothing), "image", i))
                     EXCEPT !.state[i] = "UNDEFINED", !.revisions[i] = Plenty]
  <2>1. DestroyImage(f, i).now \in {f, g, h}
    BY DEF DestroyImage, Done, Refused
  <2>2. Unmoved(f, h)
    BY <1>1 DEF Unmoved, Shaped, Fields
  <2>3. /\ Shaped(g) /\ g.live = f.live \ {i} /\ g.home = [f.home EXCEPT ![i] = Nothing]
        /\ g.layoutRefs = f.layoutRefs /\ g.plan = f.plan /\ g.sampler = f.sampler
    BY <1>1 DEF Gone, Fresh, Forgotten, Shaped, Fields
  <2> HIDE DEF g, h
  <2>4. StaysBare(g) /\ StaysBare(h)
    BY <1>2, <2>2, <2>3, UnmovedBare DEF Object
  <2> QED BY <1>3, <2>1, <2>4
<1>6. ASSUME NEW p \in Pipeline PROVE StaysBare(DestroyPipeline(f, p).now)
  <2> DEFINE g == DestroyPipeline(f, p).now
  <2>1. CASE DestroyPipeline(f, p).ok
    <3>1. /\ Shaped(g) /\ g.live = f.live \ {p} /\ g.home = f.home
          /\ g.layoutRefs = [f.layoutRefs EXCEPT ![p] = 0]
          /\ g.plan = [f.plan EXCEPT ![p] = {}] /\ g.sampler = [f.sampler EXCEPT ![p] = Nothing]
      BY <1>1, <2>1 DEF DestroyPipeline, Done, Refused, Gone, Shaped, Fields
    <3>2. p \notin Object
      BY KindsApart DEF Object
    <3> HIDE DEF g
    <3>3. StaysBare(g)
      BY <1>1, <3>1, <3>2 DEF StaysBare, Bare, FrontType
    <3> QED BY <3>3 DEF g
  <2>2. CASE ~DestroyPipeline(f, p).ok
    <3>1. DestroyPipeline(f, p).now = f
      BY <2>2 DEF DestroyPipeline, Done, Refused
    <3> QED BY <1>3, <3>1
  <2> QED BY <2>1, <2>2
<1> QED
  BY <1>4, <1>5, <1>6

LEMMA ObjectsBare ==
  ASSUME Inv, Bare(front),
         \/ MakeTexture \/ EndTexture \/ MakeRenderbuffer \/ EndRenderbuffer
         \/ AllocateMemory \/ FreeMemory \/ MakeBuffer \/ MakeUnboundBuffer \/ EndBuffer
         \/ MakeSampler \/ EndSampler \/ MakeQuery \/ EndQueryObject
         \/ MakeGraphicsProgram \/ MakeComputeProgram \/ EndProgram
  PROVE  Bare(front')
<1>0. FrontInv(front) /\ Shaped(front)
  BY StaysItself DEF Inv
<1>1. CASE MakeTexture \/ MakeRenderbuffer
  <2>1. PICK i \in Image, left \in Revision : Call(CreateImage(front, i, "heap", "UNDEFINED", left))
    BY <1>1, KindIs DEF MakeTexture, MakeRenderbuffer, Free, Created, Imaged
  <2> QED BY <1>0, <2>1, ObjectMadeBare, CallBare
<1>2. CASE EndTexture \/ EndRenderbuffer
  <2>1. PICK i \in Image : Call(DestroyImage(front, i))
    BY <1>2, KindIs DEF EndTexture, EndRenderbuffer, Live, Renderbuffer, Destroyed
  <2> QED BY <1>0, <2>1, ObjectEndedBare, CallBare
<1>3. CASE AllocateMemory
  <2>1. PICK m \in Memory : Call(CreateMemory(front, m))
    BY <1>3, KindIs DEF AllocateMemory, Free, Created
  <2> QED BY <1>0, <2>1, MadeBare, CallBare
<1>4. CASE FreeMemory
  <2>1. PICK m \in Memory : m \in front.live /\ Call(DestroyMemory(front, m))
    BY <1>4, KindIs DEF FreeMemory, Live, Destroyed
  <2> QED BY <1>0, <2>1, EndedBare, CallBare
<1>5. CASE MakeBuffer \/ MakeUnboundBuffer
  <2>1. PICK b \in Buffer : \/ \E home \in {"heap", Nothing} : Call(CreateBuffer(front, b, home))
                            \/ Call(CreateBufferInVain(front))
    BY <1>5, KindIs DEF MakeBuffer, MakeUnboundBuffer, Free, Created
  <2>2. StaysBare(CreateBufferInVain(front).now)
    BY <1>0, CallsUnmoved, UnmovedBare
  <2> QED BY <1>0, <2>1, <2>2, ObjectMadeBare, CallBare
<1>6. CASE EndBuffer
  <2>1. PICK b \in Buffer : Call(DestroyBuffer(front, b))
    BY <1>6, KindIs DEF EndBuffer, Live, Destroyed
  <2> QED BY <1>0, <2>1, ObjectEndedBare, CallBare
<1>7. CASE MakeSampler
  <2>1. PICK s \in Sampler : Call(CreateSampler(front, s))
    BY <1>7, KindIs DEF MakeSampler, Free, Created
  <2> QED BY <1>0, <2>1, MadeBare, CallBare
<1>8. CASE EndSampler
  <2>1. PICK s \in Sampler : s \in front.live /\ Call(DestroySampler(front, s))
    BY <1>8, KindIs DEF EndSampler, Live, Destroyed
  <2> QED BY <1>0, <2>1, EndedBare, CallBare
<1>9. CASE MakeQuery
  <2>1. PICK q \in QueryPool : Call(CreateQueryPool(front, q))
    BY <1>9, KindIs DEF MakeQuery, Free, Created
  <2> QED BY <1>0, <2>1, MadeBare, CallBare
<1>10. CASE EndQueryObject
  <2>1. PICK q \in QueryPool : q \in front.live /\ Call(DestroyQueryPool(front, q))
    BY <1>10, KindIs DEF EndQueryObject, Live, Destroyed
  <2> QED BY <1>0, <2>1, EndedBare, CallBare
<1>11. CASE MakeGraphicsProgram
  <2>1. PICK p \in Pipeline : \E target, sampled, uniforms :
                                Call(CreateGraphicsPipeline(front, p, target, sampled, uniforms))
    BY <1>11, KindIs DEF MakeGraphicsProgram, Free, Created
  <2> QED BY <1>0, <2>1, PipelineMadeBare, CallBare
<1>12. CASE MakeComputeProgram
  <2>1. PICK p \in Pipeline : \E sampled, uniforms :
                                Call(CreatePipeline(front, p, Nothing, sampled, uniforms))
    BY <1>12, KindIs DEF MakeComputeProgram, Free, Created
  <2> QED BY <1>0, <2>1, PipelineMadeBare, CallBare
<1>13. CASE EndProgram
  <2>1. PICK p \in Pipeline : Call(DestroyPipeline(front, p))
    BY <1>13, KindIs DEF EndProgram, Live, Destroyed
  <2> QED BY <1>0, <2>1, ObjectEndedBare, CallBare
<1> QED
  BY <1>1, <1>2, <1>3, <1>4, <1>5, <1>6, <1>7, <1>8, <1>9, <1>10, <1>11, <1>12, <1>13

\* Calls that make and end nothing.
LEMMA CallsBare ==
  ASSUME Inv, Bare(front),
         \/ OnPass \/ Draw \/ Query \/ DispatchCompute
         \/ TextureTransfer \/ ReadPixels \/ CopyTexSubImage \/ BufferTransfer
         \/ Finish \/ BindBufferMemory \/ ProgramSampler \/ MemoryBarrier
         \/ BindTextureUnit \/ BindSampler \/ BindUniform \/ BindBuffer \/ UseProgram \/ BindFramebuffer
         \/ MakeFramebuffer
  PROVE  Bare(front')
<1>0. FrontInv(front) /\ Shaped(front)
  BY StaysItself DEF Inv
<1>1. ASSUME NEW r, Unmoved(front, r.now), Call(r) PROVE Bare(front')
  BY <1>1, UnmovedBare, CallBare
<1>2. \A x, y : /\ Unmoved(front, Signal(front, x).now) /\ Unmoved(front, SetScissor(front, x, y).now)
               /\ Unmoved(front, BindPipeline(front, x, y).now) /\ Unmoved(front, BindIndex(front, x, y).now)
               /\ Unmoved(front, BindVertex(front, x, y).now) /\ Unmoved(front, EndQuery(front, x).now)
               /\ Unmoved(front, BeginPass(front, x, y).now)
               /\ Unmoved(front, BeginPassNow(front, x, y, "loaded").now)
               /\ Unmoved(front, ClearNow(front, x, "cleared").now)
               /\ Unmoved(front, ClearDepthNow(front, x, "cleared").now)
               /\ Unmoved(front, ClearColor(front, x, y, "cleared").now)
  <2>1. \A x, y : Unmoved(front, ClearColor(front, x, y, "cleared").now)
    BY <1>0, ClearedMoves, MovesUnmoved DEF Carries, ClearColor
  <2> QED BY <1>0, <2>1, CallsUnmoved, BeginPassNowUnmoved, ClearNowUnmoved
<1>3. \A i, b : /\ Moves(front, UploadImage(front, i, 0, 1, "new").now)
               /\ Moves(front, ReadImage(front, i, 0, 1).now)
               /\ Moves(front, CopyToImage(front, b, 0, i, 0, 1).now)
               /\ Moves(front, CopyFromImage(front, i, 0, b, 0, 1).now)
               /\ Moves(front, CopyRect(front, i, 0, 0, b, 0, 0, 1, 1).now)
  BY <1>0, UploadImageMoves, ReadImageMoves, CopyToImageMoves, CopyFromImageMoves, CopyRectMoves DEF Carries
<1>4. \A a, b : /\ Moves(front, UploadBuffer(front, b, 0, 1, "new").now)
               /\ Moves(front, ReadBuffer(front, b, 0, 1).now)
               /\ Moves(front, FillBuffer(front, b, 0, 1, "new").now)
               /\ Moves(front, CopyBuffer(front, a, 0, b, 0, 1).now)
               /\ Moves(front, CopyThenFill(front, a, 0, b, 0, 1, 1, "new").now)
               /\ Moves(front, Dispatch(front, a, "stored").now)
               /\ Moves(front, Derived(a, "SHADER_READ").now)
  BY <1>0, UploadBufferMoves, ReadBufferMoves, FillBufferMoves, CopyBufferMoves, CopyThenFillMoves,
     DispatchMoves, EnteredMoves DEF Carries, Derived
<1>5. CASE OnPass
  BY <1>1, <1>2, <1>5 DEF OnPass
<1>6. CASE Draw
  BY <1>1, <1>2, <1>6 DEF Draw
<1>7. CASE Query
  <2>1. PICK q : \/ Call(BeginQuery(BeginPass(front, Target, {}).now, Target, q))
                 \/ Call(EndQuery(front, Target))
    BY <1>7 DEF Query
  <2> DEFINE g == BeginPass(front, Target, {}).now
  <2>2. Unmoved(front, g)
    BY <1>2
  <2> HIDE DEF g
  <2>3. Unmoved(front, BeginQuery(g, Target, q).now)
    BY <2>2, CallsUnmoved, UnmovedOn DEF Unmoved
  <2> QED BY <1>1, <1>2, <2>1, <2>3 DEF g
<1>8. CASE TextureTransfer \/ ReadPixels \/ CopyTexSubImage
  BY <1>1, <1>3, <1>8, MovesUnmoved DEF TextureTransfer, ReadPixels, CopyTexSubImage
<1>9. CASE BufferTransfer \/ DispatchCompute \/ MemoryBarrier
  BY <1>1, <1>4, <1>9, MovesUnmoved DEF BufferTransfer, DispatchCompute, MemoryBarrier
<1>10. CASE Finish
  BY <1>1, <1>2, <1>10 DEF Finish
<1>11. CASE BindBufferMemory
  <2>1. PICK m, b : b \in Buffer /\ b \in front.live /\ Call(BindMemory(front, b, m))
    BY <1>11, KindIs DEF BindBufferMemory, Live
  <2> QED BY <1>0, <2>1, ObjectMadeBare, CallBare
<1>12. CASE ProgramSampler
  <2>1. PICK s, p : p \in Pipeline /\ p \in front.live /\ Call(SetSampler(front, p, s))
    BY <1>12, KindIs DEF ProgramSampler, Live
  <2> QED BY <1>0, <2>1, PipelineMadeBare, CallBare
<1>13. CASE BindTextureUnit
  <2>1. front' = front \/ \E i : Call(Derived(i, "SHADER_READ"))
    BY <1>13 DEF BindTextureUnit
  <2> QED BY <1>1, <1>4, <2>1, MovesUnmoved
<1>14. CASE BindSampler \/ BindUniform \/ BindBuffer \/ UseProgram \/ BindFramebuffer \/ MakeFramebuffer
  <2>1. front' = front
    BY <1>14 DEF BindSampler, BindUniform, BindBuffer, UseProgram, BindFramebuffer, MakeFramebuffer
  <2> QED BY <2>1
<1> QED
  BY <1>5, <1>6, <1>7, <1>8, <1>9, <1>10, <1>11, <1>12, <1>13, <1>14

LEMMA FramesBare ==
  ASSUME Inv, Bare(front),
         AttachRenderbuffer \/ AttachTexture \/ AttachDepthBuffer \/ DetachDepth \/ EndFramebuffer
         \/ ContextDestroy
  PROVE  Bare(front')
<1>0. FrontInv(front) /\ Shaped(front)
  BY StaysItself DEF Inv
<1>1. \A i : \A s \in {"COLOR_TARGET", "DEPTH_TARGET"} :
        /\ Moves(front, Derived(i, s).now) /\ StaysBare(Derived(i, s).now)
        /\ FrontInv(Derived(i, s).now)
  BY <1>0, EnteredMoves, MovesUnmoved, MovesKeeps, UnmovedBare DEF Carries, Derived
<1>2. CASE AttachRenderbuffer \/ AttachTexture
  <2>1. PICK b, i : AttachColor(b, i)
    BY <1>2 DEF AttachRenderbuffer, AttachTexture
  <2>2. PICK r \in Pass : LET Passed(g) == CreatePass(g, r, i)
                          IN  Call(Then(Derived(i, "COLOR_TARGET"), Passed))
    BY <2>1, KindIs DEF AttachColor, Free
  <2> DEFINE d == Derived(i, "COLOR_TARGET")
             c == CreatePass(d.now, r, i)
  <2>3. Call(IF d.ok THEN c ELSE d)
    BY <2>2 DEF Then
  <2>4. StaysBare(d.now) /\ StaysBare(c.now)
    BY <1>1, MadeBare DEF StaysBare
  <2> HIDE DEF d, c
  <2> QED BY <2>3, <2>4, CallBare DEF StaysBare
<1>3. CASE AttachDepthBuffer
  <2>1. PICK b \in Frames, i \in Live("image") \cap Renderbuffer :
          LET Passed(g) == AttachDepth(g, frame[b].pass, i)
              attached == Then(Derived(i, "DEPTH_TARGET"), Passed)
          IN  Call(attached)
    BY <1>3 DEF AttachDepthBuffer
  <2> DEFINE d == Derived(i, "DEPTH_TARGET")
             c == AttachDepth(d.now, frame[b].pass, i)
  <2>2. Call(IF d.ok THEN c ELSE d)
    BY <2>1 DEF Then
  <2>3. StaysBare(d.now)
    BY <1>1
  <2>4. StaysBare(c.now)
    BY <2>3, CallsUnmoved, UnmovedBare DEF StaysBare
  <2> HIDE DEF d, c
  <2> QED BY <2>2, <2>3, <2>4, CallBare
<1>4. CASE DetachDepth
  <2>1. PICK b : Call(AttachDepth(front, frame[b].pass, Nothing))
    BY <1>4 DEF DetachDepth
  <2> QED BY <1>0, <2>1, CallsUnmoved, UnmovedBare, CallBare
<1>5. CASE EndFramebuffer
  <2>1. PICK b \in Frames : Call(PassGone(front, frame[b].pass))
    BY <1>5 DEF EndFramebuffer, Destroyed
  <2> DEFINE r == frame[b].pass
             e == EndPass(front, r).now
  <2>2. CASE r = Nothing
    <3>1. PassGone(front, r).now = front
      BY <2>2 DEF PassGone, Done
    <3> QED BY <1>0, <2>1, <3>1, CallBare DEF StaysBare
  <2>3. CASE r # Nothing
    <3>1. r \in Pass /\ r \in front.live
      BY <2>3, FramePass
    <3>2. StaysBare(e) /\ FrontInv(e)
      BY <1>0, <3>1, CallsUnmoved, UnmovedBare, EndPassFollows DEF Follows
    <3>3. PassGone(front, r) = DestroyPass(e, r)
      BY <2>3 DEF PassGone
    <3> HIDE DEF e
    <3>4. StaysBare(DestroyPass(e, r).now)
      BY <3>1, <3>2, EndedBare DEF StaysBare
    <3> QED BY <2>1, <3>3, <3>4, CallBare
  <2> QED BY <2>2, <2>3
<1>6. CASE ContextDestroy
  <2>1. Call(DestroyTimeline(front, Finished))
    BY <1>6 DEF ContextDestroy
  <2> QED BY <1>0, <2>1, FinishedIs, EndedBare, CallBare
<1> QED
  BY <1>2, <1>3, <1>4, <1>5, <1>6

LEMMA BareIs == Init => Bare(front)
<1> SUFFICES ASSUME Init PROVE Bare(front)
  OBVIOUS
<1>1. PICK n \in Left : front = CreateTimeline(Opened(n, Plenty), Finished).now
  BY DEF Init
<1> DEFINE f == Opened(n, Plenty)
<1>2. FrontInv(f) /\ Bare(f)
  BY OpenedInv DEF Bare, Opened
<1> HIDE DEF f
<1>3. StaysBare(CreateTimeline(f, Finished).now)
  BY <1>2, FinishedIs, MadeBare
<1> QED
  BY <1>1, <1>3 DEF StaysBare, f

LEMMA BareKeeps == Inv /\ Bare(front) /\ [Next]_vars => Bare(front)'
<1> SUFFICES ASSUME Inv, Bare(front), [Next]_vars PROVE Bare(front')
  OBVIOUS
<1>1. CASE UNCHANGED vars
  BY <1>1 DEF vars
<1>2. CASE Next
  BY <1>2, ObjectsBare, CallsBare, FramesBare DEF Next
<1> QED
  BY <1>1, <1>2

-----------------------------------------------------------------------------
(* Theorems.                                                               *)

\* Whatever the application binds, attaches and destroys, in whatever order, no
\* binding point, framebuffer or object of the front end names what is gone: what
\* destroy looks at, and what the front end counts, is enough.
THEOREM NothingBoundStays == Spec => []NothingBoundIsGone
<1>1. Inv => NothingBoundIsGone
  <2> SUFFICES ASSUME Inv PROVE NothingBoundIsGone
    OBVIOUS
  <2>1. Sound(front) /\ Bounds
    BY DEF Inv, FrontInv
  <2>2. ASSUME NEW b \in Frames
        PROVE  {frame[b].color, frame[b].depth, frame[b].pass} \subseteq front.live \cup {Nothing}
    <3>1. CASE frame[b].pass = Nothing
      BY <3>1, FrameIs
    <3>2. CASE frame[b].pass # Nothing
      <4> DEFINE r == frame[b].pass
      <4>1. r \in Pass /\ r \in front.live /\ front.pass[r].color = frame[b].color /\ front.pass[r].depth = frame[b].depth
        BY <3>2, FrameIs
      <4> HIDE DEF r
      <4>2. {front.pass[r].color, front.pass[r].depth} \subseteq front.live \cup {Nothing}
        BY <2>1, <4>1 DEF Sound
      <4> QED BY <4>1, <4>2 DEF r
    <3> QED BY <3>1, <3>2
  <2> QED BY <2>1, <2>2 DEF Bounds, NothingBoundIsGone
<1> QED
  BY <1>1, ContextIsSound, PTL

\* A framebuffer and its pass never disagree, whatever attachments were refused
\* after their images were taken into their states.
THEOREM FramesKeepTheirPasses == Spec => []FramesAreTheirPasses
<1>1. Inv => FramesAreTheirPasses
  BY DEF Inv
<1> QED
  BY <1>1, ContextIsSound, PTL

\* The counts that decide whether the context can go are exact, and they are
\* enough: with no children left, the device does not refuse once the timeline
\* is gone, and a context that is gone has left nothing.
CountsLetGo ==
  /\ child = Cardinality(Children) + Cardinality(Frames)
  /\ \A i \in Image : attachments[i] = Attached(i)
  /\ open /\ child = 0 => MayClose(DestroyTimeline(front, Finished).now)
  /\ ~open => MayClose(front)

THEOREM ContextLetsGo == Spec => []CountsLetGo
<1>1. Inv => CountsLetGo
  <2> SUFFICES ASSUME Inv PROVE CountsLetGo
    OBVIOUS
  <2>1. ASSUME open, child = 0 PROVE MayClose(DestroyTimeline(front, Finished).now)
    <3>1. FrontInv(front) /\ front.live = {Finished}
      BY <2>1, NoChildren DEF Inv, Context
    <3>2. Ends(front, DestroyTimeline(front, Finished), Finished) /\ DestroyTimeline(front, Finished).ok
      BY <3>1, FinishedIs, TimelineEnded DEF DestroyTimeline, Done
    <3> QED BY <3>1, <3>2, EmptyCloses DEF Ends
  <2>2. ASSUME ~open PROVE MayClose(front)
    <3>1. FrontInv(front) /\ front.live = {}
      BY <2>2, NoChildren DEF Inv, Context
    <3> QED BY <3>1, EmptyCloses
  <2> QED BY <2>1, <2>2 DEF Inv, ContextCounts, CountsLetGo
<1> QED
  BY <1>1, ContextIsSound, PTL

\* Whatever the application has done, it can end: no call leaves an object that is
\* refused for ever, and the counts come to zero with the objects.
THEOREM ContextsEnd == Spec => []ContextCanEnd
<1>1. Inv /\ Bare(front) => ContextCanEnd
  <2> SUFFICES ASSUME Inv, Bare(front) PROVE ContextCanEnd
    OBVIOUS
  <2>1. ASSUME open, front.listed = {}, front.retained = Nothing
        PROVE  /\ TornDown(front).live = {Finished}
               /\ MayClose(DestroyTimeline(TornDown(front), Finished).now)
    <3> DEFINE f == TornDown(front)
    <3>1. FrontInv(f) /\ f.live = {Finished}
      BY <2>1, TornDownEnds DEF Calm, Inv, Context
    <3> HIDE DEF f
    <3>2. Ends(f, DestroyTimeline(f, Finished), Finished) /\ DestroyTimeline(f, Finished).ok
      BY <3>1, FinishedIs, TimelineEnded DEF DestroyTimeline, Done
    <3>3. MayClose(DestroyTimeline(f, Finished).now)
      BY <3>1, <3>2, EmptyCloses DEF Ends
    <3> QED BY <3>1, <3>3 DEF f
  <2>2. ASSUME ~open PROVE MayClose(front)
    <3>1. FrontInv(front) /\ front.live = {}
      BY <2>2, NoChildren DEF Inv, Context
    <3> QED BY <3>1, EmptyCloses
  <2>3. child = Cardinality(front.live \ (Timeline \cup Pass)) + Cardinality(Frames)
    BY DEF Inv, ContextCounts, Children
  <2>4. \A i \in Image : attachments[i] =
          Cardinality({b \in Frames : frame[b].color = i}) + Cardinality({b \in Frames : frame[b].depth = i})
    BY DEF Inv, ContextCounts, Attached
  <2> QED BY <2>1, <2>2, <2>3, <2>4 DEF ContextCanEnd
<1>2. Spec => []Bare(front)
  BY ContextIsSound, BareIs, BareKeeps, PTL DEF Spec
<1> QED
  BY <1>1, <1>2, ContextIsSound, PTL
=============================================================================
