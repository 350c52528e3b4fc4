------------------------------- MODULE Passes -------------------------------
(***************************************************************************)
(* The objects of the front end and what keeps them alive                  *)
(* (openagc_frontend.c): memories, images, buffers, samplers, pipelines,   *)
(* render passes, query pools and timelines.  The device counts the        *)
(* objects of each kind, most objects count what names them, and destroy   *)
(* goes by these counts alone.  As in Transfers, a call is an operator     *)
(* from the state f of the front end to its result and the state after it. *)
(*                                                                         *)
(* What only a draw reads is left out: a draw changes nothing.             *)
(***************************************************************************)
EXTENDS Transfers

CONSTANTS
  VertexData, IndexData,   \* buffers with the vertex and index usage bits
  Memory,                  \* front-end memories
  Sampler, Pass, Timeline,
  Pipeline,                \* front-end pipelines
  Graphical,               \* ... those of a graphics plan
  Textured,                \* ... those that have a texture
  Storing,                 \* ... compute programs of a constant store
  QueryPool, Occlusion     \* query pools, occlusion pools of them

Kind == {"image", "buffer", "memory", "timeline", "pipeline", "sampler", "render_pass", "query"}

Of(kind) == CASE kind = "image"    -> Image    [] kind = "buffer"      -> Buffer
              [] kind = "memory"   -> Memory   [] kind = "timeline"    -> Timeline
              [] kind = "pipeline" -> Pipeline [] kind = "sampler"     -> Sampler
              [] kind = "query"    -> QueryPool [] kind = "render_pass" -> Pass

ASSUME PassesAssumption ==
  /\ VertexData \cup IndexData \subseteq Buffer /\ Occlusion \subseteq QueryPool
  /\ Textured \cup Graphical \cup Storing \subseteq Pipeline /\ Graphical \cap Storing = {}
  /\ \A j, k \in Kind : j # k => Of(j) \cap Of(k) = {}
  /\ \A k \in Kind : IsFiniteSet(Of(k)) /\ Nothing \notin Of(k) /\ "heap" \notin Of(k)

NoPass == [color |-> Nothing, depth |-> Nothing, vertex |-> Nothing, index |-> Nothing,
           pipeline |-> Nothing, query |-> Nothing, begun |-> FALSE, scissor |-> {}]

\* The state after device_create.
Opened(sequences, writes) ==
  [live |-> {}, count |-> [k \in Kind |-> 0],
   home |-> [o \in Object |-> Nothing], bytes |-> Own,
   state |-> [i \in Image |-> "UNDEFINED"], revisions |-> [i \in Image |-> Plenty],
   retained |-> Nothing, listed |-> {}, sequences |-> sequences, writes |-> writes,
   passes |-> [i \in Image |-> 0],                           \* image.render_passes
   vertexBinds |-> [b \in Buffer |-> 0], indexBinds |-> [b \in Buffer |-> 0],
   pipelineRefs |-> [s \in Sampler |-> 0],                   \* sampler.pipeline_refs
   passBinds |-> [p \in Pipeline |-> 0], layoutRefs |-> [p \in Pipeline |-> 0],
   plan |-> [p \in Pipeline |-> {}],                         \* what the plan of p pins
   sampler |-> [p \in Pipeline |-> Nothing],
   pass |-> [r \in Pass |-> NoPass],
   active |-> {},                                            \* query_pool.active
   value |-> [t \in Timeline |-> 0]]

Made(f, kind, x) == [f EXCEPT !.live = @ \cup {x}, !.count[kind] = @ + 1]
Gone(f, kind, x) == [f EXCEPT !.live = @ \ {x}, !.count[kind] = @ - 1]

\* device_destroy goes by the eight counts.
MayClose(f) == \A k \in Kind : f.count[k] = 0

\* Adds n to what counts the uses of x, if x is not a null pointer.
Counting(counts, x, n) == IF x \in DOMAIN counts THEN [counts EXCEPT ![x] = @ + n] ELSE counts

-----------------------------------------------------------------------------
(* Images, buffers and memories.                                           *)

\* The shared lists name nothing after reset_copy and reset_transitions.
Forgotten(f) == [f EXCEPT !.listed = {}, !.retained = Nothing]

\* An object as create_common leaves it and as release leaves it.
Fresh(f, o, home) == [f EXCEPT !.home[o] = home, !.bytes[o] = Own[o]]

\* image_create, and image_create_unbound if home is Nothing: an initial
\* layout is recorded, which fails for an unbound image.  The release on
\* every error path resets both lists.
CreateImage(f, i, home, layout, left) ==
  LET g == [Fresh(f, i, home) EXCEPT !.state[i] = "UNDEFINED", !.revisions[i] = left]
      r == Entered(g, i, layout)
  IN IF r.ok THEN Done(Made(r.now, "image", i)) ELSE Refused(Forgotten(f))

\* The graphics image is destroyed before the buffer, which may be refused.
DestroyImage(f, i) ==
  LET g == [f EXCEPT !.state[i] = "gone"]
      kept == f.state[i] # "gone" /\ (f.retained = i \/ \E p \in Pipeline : i \in f.plan[p])
  IN IF f.passes[i] # 0 \/ kept THEN Refused(f)
     ELSE IF i \in f.listed THEN Refused(g)
     ELSE Done([Forgotten(Gone(Fresh(f, i, Nothing), "image", i))
                  EXCEPT !.state[i] = "UNDEFINED", !.revisions[i] = Plenty])

CreateBuffer(f, b, home) == Done(Made(Fresh(f, b, home), "buffer", b))

\* The heap is full: the release of the new buffer resets the copy list.
CreateBufferInVain(f) == Refused([f EXCEPT !.listed = {}])

DestroyBuffer(f, b) ==
  IF \/ f.vertexBinds[b] # 0 \/ f.indexBinds[b] # 0
     \/ b \in f.listed \/ \E p \in Pipeline : b \in f.plan[p]
  THEN Refused(f)
  ELSE Done([Gone(Fresh(f, b, Nothing), "buffer", b) EXCEPT !.listed = {}])

CreateMemory(f, m) == Done(Made(f, "memory", m))

\* memory_destroy goes by bind_count, which Placement shows to be this.
DestroyMemory(f, m) ==
  IF \E o \in Object : f.home[o] = m THEN Refused(f) ELSE Done(Gone(f, "memory", m))

\* buffer_bind_memory and image_bind_memory; Placement has the spans.
BindMemory(f, o, m) ==
  IF f.home[o] # Nothing THEN Refused(f) ELSE Done([f EXCEPT !.home[o] = m])

-----------------------------------------------------------------------------
(* Samplers, pipelines, query pools and timelines.                         *)

CreateSampler(f, s) == Done(Made(f, "sampler", s))

DestroySampler(f, s) ==
  IF f.pipelineRefs[s] # 0 THEN Refused(f) ELSE Done(Gone(f, "sampler", s))

\* What apply_reflection_set and plan creation accept (ShaderPlans): objects in
\* blocks of their own, the textures in the state they need.
Plannable(f, p, sampled, uniforms) ==
  /\ \A o \in sampled \cup uniforms : f.home[o] = "heap"
  /\ sampled \cap Usable("SHADER_READ") = sampled /\ uniforms \subseteq Readable
  /\ \A i \in sampled : f.state[i] = "SHADER_READ"
  /\ (p \in Textured) = (sampled # {})

\* pipeline_create: the plan pins what it names, and the layout is referenced
\* once.  A compute pipeline has no target.
CreatePipeline(f, p, target, sampled, uniforms) ==
  IF Plannable(f, p, sampled, uniforms)
  THEN Done([Made(f, "pipeline", p) EXCEPT
               !.plan[p] = sampled \cup uniforms \cup ({target} \ {Nothing}),
               !.layoutRefs[p] = 1])
  ELSE Refused(f)

\* graphics_pipeline_create_with_resources
CreateGraphicsPipeline(f, p, target, sampled, uniforms) ==
  IF target \in Bound(f) \cap Color /\ f.state[target] = "COLOR_TARGET"
  THEN CreatePipeline(f, p, target, sampled, uniforms)
  ELSE Refused(f)

\* frontend_dispatch of a program that stores one dword in its uniform; its
\* sequence counter does not reach its end here.
Dispatch(f, p, v) ==
  LET uniforms == f.plan[p] \cap Buffer
  IN IF p \notin Storing \/ uniforms = {} THEN Refused(f)
     ELSE Done(Filling(f, CHOOSE b \in uniforms : TRUE, 0, 1, v))

SetSampler(f, p, s) ==
  IF s # Nothing /\ p \notin Textured THEN Refused(f)
  ELSE Done([f EXCEPT !.sampler[p] = s,
                      !.pipelineRefs = Counting(Counting(@, f.sampler[p], -1), s, 1)])

DestroyPipeline(f, p) ==
  IF f.passBinds[p] # 0 \/ f.layoutRefs[p] # 1 THEN Refused(f)
  ELSE Done([Gone(f, "pipeline", p) EXCEPT
               !.pipelineRefs = Counting(@, f.sampler[p], -1),
               !.sampler[p] = Nothing, !.plan[p] = {}, !.layoutRefs[p] = 0])

RetainLayout(f, p) == Done([f EXCEPT !.layoutRefs[p] = @ + 1])
ReleaseLayout(f, p) == Done([f EXCEPT !.layoutRefs[p] = @ - 1])

CreateQueryPool(f, q) == Done(Made(f, "query", q))

DestroyQueryPool(f, q) == IF q \in f.active THEN Refused(f) ELSE Done(Gone(f, "query", q))

CreateTimeline(f, t) == Done([Made(f, "timeline", t) EXCEPT !.value[t] = 0])
DestroyTimeline(f, t) == Done(Gone(f, "timeline", t))

\* timeline_signal; its 64 bits do not overflow here.
Signal(f, t) == Done([f EXCEPT !.value[t] = @ + 1])

-----------------------------------------------------------------------------
(* Render passes.                                                          *)

Whole == 0 .. Columns * Rows - 1

CreatePass(f, r, color) ==
  IF f.state[color] # "COLOR_TARGET" THEN Refused(f)
  ELSE Done([Made(f, "render_pass", r) EXCEPT
               !.pass[r] = [NoPass EXCEPT !.color = color], !.passes[color] = @ + 1])

\* render_pass_attach_depth, of no image to take it away.
AttachDepth(f, r, depth) ==
  LET old == f.pass[r].depth
  IN IF f.pass[r].begun THEN Refused(f)
     ELSE IF depth = old THEN Done(f)
     ELSE IF depth = Nothing
     THEN Done([f EXCEPT !.pass[r].depth = Nothing, !.passes[old] = @ - 1])
     ELSE IF old # Nothing \/ f.state[depth] # "DEPTH_TARGET" THEN Refused(f)
     ELSE Done([f EXCEPT !.pass[r].depth = depth, !.passes[depth] = @ + 1])

\* begin_validate_with_depth, where cleared says which loads are clears.
BeginPass(f, r, cleared) ==
  LET pass == f.pass[r]
  IN IF \/ pass.begun \/ f.state[pass.color] # "COLOR_TARGET"
        \/ pass.depth = Nothing /\ "depth" \in cleared
        \/ pass.depth # Nothing /\ f.state[pass.depth] # "DEPTH_TARGET"
     THEN Refused(f) ELSE Done([f EXCEPT !.pass[r].begun = TRUE])

\* The clears of a pass: color and depth, each within an area.
ClearPass(f, r, area, v) == ClearColor(f, f.pass[r].color, area, v)
ClearPassDepth(f, r, area, v) ==
  IF f.pass[r].depth = Nothing THEN Refused(f)
  ELSE ClearDepth(f, f.pass[r].depth, area, v)

\* apply_loads: the depth first.
ApplyLoads(f, r, cleared, v) ==
  LET LoadColor(g) == IF "color" \in cleared THEN ClearPass(g, r, Whole, v) ELSE Done(g)
  IN IF "depth" \in cleared THEN Then(ClearPassDepth(f, r, Whole, v), LoadColor)
     ELSE LoadColor(f)

\* begin_with_depth: when a load fails, the pass is not begun after all.
BeginPassNow(f, r, cleared, v) ==
  LET Load(g) == ApplyLoads(g, r, cleared, v)
      loaded == Then(BeginPass(f, r, cleared), Load)
  IN IF loaded.ok \/ f.pass[r].begun THEN loaded
     ELSE Refused([loaded.now EXCEPT !.pass[r].begun = FALSE])

\* The area of a clear within the pass: clear_bounds.
Area(f, r) == IF f.pass[r].scissor = {} THEN Whole ELSE f.pass[r].scissor

\* render_pass_clear and render_pass_clear_depth
ClearNow(f, r, v) ==
  IF f.pass[r].begun THEN ClearPass(f, r, Area(f, r), v) ELSE Refused(f)
ClearDepthNow(f, r, v) ==
  IF f.pass[r].begun THEN ClearPassDepth(f, r, Area(f, r), v) ELSE Refused(f)

SetScissor(f, r, area) ==
  IF area # {} /\ area \subseteq Whole THEN Done([f EXCEPT !.pass[r].scissor = area])
  ELSE Refused(f)

BindPipeline(f, r, p) ==
  IF p \notin Graphical THEN Refused(f)
  ELSE Done([f EXCEPT !.pass[r].pipeline = p,
                      !.passBinds = Counting(Counting(@, f.pass[r].pipeline, -1), p, 1)])

BindIndex(f, r, b) ==
  IF b \notin IndexData THEN Refused(f)
  ELSE Done([f EXCEPT !.pass[r].index = b,
                      !.indexBinds = Counting(Counting(@, f.pass[r].index, -1), b, 1)])

BindVertex(f, r, b) ==
  IF b \notin VertexData THEN Refused(f)
  ELSE Done([f EXCEPT !.pass[r].vertex = b,
                      !.vertexBinds = Counting(Counting(@, f.pass[r].vertex, -1), b, 1)])

BeginQuery(f, r, q) ==
  IF \/ q \notin Occlusion \/ ~f.pass[r].begun
     \/ f.pass[r].query # Nothing \/ q \in f.active
  THEN Refused(f)
  ELSE Done([f EXCEPT !.pass[r].query = q, !.active = @ \cup {q}])

EndQuery(f, r) ==
  IF f.pass[r].query = Nothing THEN Refused(f)
  ELSE Done([f EXCEPT !.active = @ \ {f.pass[r].query}, !.pass[r].query = Nothing])

EndPass(f, r) ==
  IF ~f.pass[r].begun \/ f.pass[r].query # Nothing THEN Refused(f)
  ELSE Done([f EXCEPT !.pass[r].begun = FALSE])

DestroyPass(f, r) ==
  LET pass == f.pass[r]
  IN IF pass.begun \/ pass.query # Nothing THEN Refused(f)
     ELSE Done([Gone(f, "render_pass", r) EXCEPT
                  !.pass[r] = NoPass,
                  !.vertexBinds = Counting(@, pass.vertex, -1),
                  !.indexBinds = Counting(@, pass.index, -1),
                  !.passBinds = Counting(@, pass.pipeline, -1),
                  !.passes = Counting(Counting(@, pass.color, -1), pass.depth, -1)])

-----------------------------------------------------------------------------
(* What the counts are for.                                                *)

\* Where the fields of the passes name x.
Uses(f, field, x) == Cardinality({r \in Pass : f.pass[r][field] = x})

\* Every count of the front end is the number of objects it stands for.
Counted(f) ==
  /\ \A k \in Kind : f.count[k] = Cardinality(f.live \cap Of(k))
  /\ \A i \in Image : f.passes[i] = Uses(f, "color", i) + Uses(f, "depth", i)
  /\ \A b \in Buffer : /\ f.vertexBinds[b] = Uses(f, "vertex", b)
                       /\ f.indexBinds[b] = Uses(f, "index", b)
  /\ \A p \in Pipeline : f.passBinds[p] = Uses(f, "pipeline", p)
  /\ \A s \in Sampler : f.pipelineRefs[s] = Cardinality({p \in Pipeline : f.sampler[p] = s})
  /\ f.active = {q \in QueryPool : Uses(f, "query", q) = 1}

\* No object of the front end names one that is not there.
Sound(f) ==
  /\ \A r \in Pass : {f.pass[r][x] : x \in {"color", "depth", "vertex", "index", "pipeline", "query"}}
                       \subseteq f.live \cup {Nothing}
  /\ \A p \in Pipeline : f.plan[p] \cup {f.sampler[p]} \subseteq f.live \cup {Nothing}
  /\ {f.home[o] : o \in Object} \subseteq f.live \cup {"heap", Nothing}
  /\ \A i \in Image : f.state[i] = "gone" => i \in f.live
=============================================================================
