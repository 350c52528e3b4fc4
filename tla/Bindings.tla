------------------------------ MODULE Bindings ------------------------------
(***************************************************************************)
(* The OpenGL-style context (openagc_opengl.c): every call acts on the     *)
(* front end at once, and what a call acts on is what an earlier one bound.*)
(* Binding points name objects without counting them; destroy looks at the *)
(* binding points instead.  A framebuffer owns a render pass of the front  *)
(* end from its first attachment on, and counts its attachments.           *)
(*                                                                         *)
(* A texture, renderbuffer, buffer, memory, sampler, program or query goes *)
(* by the name of its object of the front end.                             *)
(***************************************************************************)
EXTENDS Passes

CONSTANTS
  Texture,                   \* the other images are renderbuffers
  TargetOf,                  \* the target that each buffer was created with
  Framebuffer,
  Unit,                      \* of eight texture units, and as many uniforms
  Revision,                  \* what may be left of the counter of an image
  Left,                      \* ... and of the copy submissions of the device
  Value                      \* the values the timeline takes here

\* The bits each target gives a buffer: translate_buffer_usage.
Usage == [PIXEL_PACK |-> {"source", "destination"}, PIXEL_UNPACK |-> {"source", "destination"},
          UNIFORM |-> {"readable"}, ARRAY |-> {"vertex", "destination"},
          DRAW_INDIRECT |-> {"indirect", "destination"},
          ELEMENT_ARRAY |-> {"index", "destination"}]

With(bit) == {b \in Buffer : bit \in Usage[TargetOf[b]]}

ASSUME BindingsAssumption ==
  /\ Texture = Sampled /\ Timeline # {}
  /\ TargetOf \in [Buffer -> DOMAIN Usage]
  /\ Source = With("source") /\ Destination = With("destination") /\ Readable = With("readable")
  /\ VertexData = With("vertex") /\ IndexData = With("index")
  /\ 0 \in Unit /\ Unit \subseteq 0 .. 7
  /\ IsFiniteSet(Framebuffer) /\ Nothing \notin Framebuffer
  /\ Revision \cup Left \subseteq Nat \cup {Plenty} /\ Value \subseteq Nat

Unpack == {b \in Buffer : TargetOf[b] = "PIXEL_UNPACK"}
Pack == {b \in Buffer : TargetOf[b] = "PIXEL_PACK"}
Uniform == {b \in Buffer : TargetOf[b] = "UNIFORM"}

VARIABLES
  front,         \* the front end
  open,          \* whether the context is there
  child,         \* context.child_count
  attachments,   \* of every texture and renderbuffer
  frame,         \* framebuffers
  bound          \* the binding points of the context

vars == <<front, open, child, attachments, frame, bound>>

NoFrame == [there |-> FALSE, color |-> Nothing, depth |-> Nothing, pass |-> Nothing]

Unbound == [samples |-> [u \in Unit |-> Nothing], sample |-> Nothing,
            uniforms |-> [u \in Unit |-> Nothing], ranged |-> {}, uniform |-> Nothing,
            unpack |-> Nothing, pack |-> Nothing,
            program |-> Nothing, sampler |-> Nothing, target |-> Nothing]

\* The timeline of the context, which is not one of its children.
Finished == CHOOSE t \in Timeline : TRUE

\* context_create
Init ==
  /\ front \in {CreateTimeline(Opened(n, Plenty), Finished).now : n \in Left}
  /\ open = TRUE /\ child = 0 /\ attachments = [i \in Image |-> 0]
  /\ frame = [b \in Framebuffer |-> NoFrame] /\ bound = Unbound

Call(r) == front' = [r.now EXCEPT !.bytes = Own]
Created(r) == Call(r) /\ child' = IF r.ok THEN child + 1 ELSE child
Destroyed(r) == Call(r) /\ child' = IF r.ok THEN child - 1 ELSE child

Live(kind) == front.live \cap Of(kind)
Free(kind) == Of(kind) \ front.live
Frames == {b \in Framebuffer : frame[b].there}
Renderbuffer == Image \ Texture

Keeps == UNCHANGED <<open, attachments, frame, bound>>

\* An image taken into the state that what is done with it needs: derive.
Derived(i, state) == Entered(front, i, state)

\* context_destroy: the timeline goes, then the device.
ContextDestroy ==
  /\ child = 0 /\ Call(DestroyTimeline(front, Finished)) /\ open' = FALSE
  /\ UNCHANGED <<child, attachments, frame, bound>>

Finish ==
  /\ front.value[Finished] + 1 \in Value /\ Call(Signal(front, Finished))
  /\ UNCHANGED child /\ Keeps

-----------------------------------------------------------------------------
(* Objects.                                                                *)

\* make_image
Imaged(i, left) == CreateImage(front, i, "heap", "UNDEFINED", left)

MakeTexture ==
  /\ \E i \in Free("image") \cap Texture, left \in Revision : Created(Imaged(i, left))
  /\ Keeps

MakeRenderbuffer ==
  /\ \E i \in Free("image") \cap Renderbuffer, left \in Revision : Created(Imaged(i, left))
  /\ Keeps

\* destroy_texture; only the units are looked at.
EndTexture ==
  /\ \E i \in Live("image") \cap Texture :
       /\ attachments[i] = 0 /\ \A u \in Unit : bound.samples[u] # i
       /\ Destroyed(DestroyImage(front, i))
  /\ Keeps

EndRenderbuffer ==
  /\ \E i \in Live("image") \cap Renderbuffer :
       attachments[i] = 0 /\ Destroyed(DestroyImage(front, i))
  /\ Keeps

AllocateMemory ==
  /\ \E m \in Free("memory") : Created(CreateMemory(front, m))
  /\ Keeps

FreeMemory ==
  /\ \E m \in Live("memory") : Destroyed(DestroyMemory(front, m))
  /\ Keeps

\* create_buffer; the heap may be full.
MakeBuffer ==
  /\ \E b \in Free("buffer") :
       Created(CreateBuffer(front, b, "heap")) \/ Created(CreateBufferInVain(front))
  /\ Keeps

MakeUnboundBuffer ==
  /\ \E b \in Free("buffer") : Created(CreateBuffer(front, b, Nothing))
  /\ Keeps

BindBufferMemory ==
  /\ \E b \in Live("buffer"), m \in Live("memory") : Call(BindMemory(front, b, m))
  /\ UNCHANGED child /\ Keeps

\* Mutant: only the slots of uniforms are looked at.
EndBufferOfSlots ==
  /\ \E b \in Live("buffer") :
       /\ b \notin {bound.unpack, bound.pack} /\ \A u \in Unit : bound.uniforms[u] # b
       /\ Destroyed(DestroyBuffer(front, b))
  /\ Keeps

EndBuffer ==
  /\ \E b \in Live("buffer") :
       /\ b \notin {bound.unpack, bound.pack, bound.uniform}
       /\ \A u \in Unit : bound.uniforms[u] # b
       /\ Destroyed(DestroyBuffer(front, b))
  /\ Keeps

MakeSampler ==
  /\ \E s \in Free("sampler") : Created(CreateSampler(front, s))
  /\ Keeps

EndSampler ==
  /\ \E s \in Live("sampler") : bound.sampler # s /\ Destroyed(DestroySampler(front, s))
  /\ Keeps

\* The resources of a program are at most one uniform and one texture here.
Sampleds == {{}} \cup {{i} : i \in Live("image") \cap Texture}
Uniforms == {{}} \cup {{b} : b \in Live("buffer")}

\* create_graphics_program_with_resources; the target is a renderbuffer.
MakeGraphicsProgram ==
  /\ \E p \in Free("pipeline") \cap Graphical, target \in Live("image") \cap Renderbuffer,
        sampled \in Sampleds, uniforms \in Uniforms :
       Created(CreateGraphicsPipeline(front, p, target, sampled, uniforms))
  /\ Keeps

\* create_program_with_resources
MakeComputeProgram ==
  /\ \E p \in Free("pipeline") \ Graphical, sampled \in Sampleds, uniforms \in Uniforms :
       Created(CreatePipeline(front, p, Nothing, sampled, uniforms))
  /\ Keeps

ProgramSampler ==
  /\ \E p \in Live("pipeline"), s \in Live("sampler") \cup {Nothing} :
       Call(SetSampler(front, p, s))
  /\ UNCHANGED child /\ Keeps

EndProgram ==
  /\ \E p \in Live("pipeline") : bound.program # p /\ Destroyed(DestroyPipeline(front, p))
  /\ Keeps

MakeQuery ==
  /\ \E q \in Free("query") : Created(CreateQueryPool(front, q))
  /\ Keeps

EndQueryObject ==
  /\ \E q \in Live("query") : Destroyed(DestroyQueryPool(front, q))
  /\ Keeps

-----------------------------------------------------------------------------
(* Binding points.                                                         *)

Binds == UNCHANGED <<open, child, attachments, frame>>

\* The texture of the first unit that has one.
FirstOf(samples) ==
  LET used == {u \in Unit : samples[u] # Nothing}
  IN IF used = {} THEN Nothing ELSE samples[CHOOSE u \in used : \A w \in used : u <= w]

BindTextureUnit ==
  /\ \E u \in Unit :
       \/ LET samples == [bound.samples EXCEPT ![u] = Nothing]
          IN /\ bound' = [bound EXCEPT !.samples = samples, !.sample = FirstOf(samples)]
             /\ UNCHANGED front
       \/ \E i \in Live("image") \cap Texture :
            LET read == Derived(i, "SHADER_READ")
            IN /\ Call(read)
               /\ bound' = IF read.ok THEN [bound EXCEPT !.samples[u] = i, !.sample = i] ELSE bound
  /\ Binds

\* memory_barrier
MemoryBarrier ==
  /\ bound.sample # Nothing /\ Call(Derived(bound.sample, "SHADER_READ"))
  /\ UNCHANGED bound /\ Binds

BindSampler ==
  /\ \E s \in Live("sampler") \cup {Nothing} : bound' = [bound EXCEPT !.sampler = s]
  /\ UNCHANGED front /\ Binds

\* bind_uniform_base; another slot has no range.
UniformAt(u, b) == [bound EXCEPT !.uniforms[u] = b, !.ranged = @ \ {u}, !.uniform = b]

\* bind_uniform_base and bind_uniform_range: a range that is refused leaves the
\* buffer bound.
BindUniform ==
  /\ \E u \in Unit, b \in (Live("buffer") \cap Uniform) \cup {Nothing} :
       bound' \in {UniformAt(u, b)} \cup
                  (IF b = Nothing THEN {} ELSE {[UniformAt(u, b) EXCEPT !.ranged = @ \cup {u}]})
  /\ UNCHANGED front /\ Binds

\* bind_buffer: a vertex, index or indirect buffer takes the uniform's place.
BindBuffer ==
  /\ \E b \in Live("buffer") \cup {Nothing} :
       \/ b \in Unpack \cup {Nothing} /\ bound' = [bound EXCEPT !.unpack = b]
       \/ b \in Pack \cup {Nothing} /\ bound' = [bound EXCEPT !.pack = b]
       \/ b \in Uniform \cup {Nothing} /\ bound' = UniformAt(0, b)
       \/ b \notin Uniform \cup Unpack \cup Pack /\ bound' = [bound EXCEPT !.uniform = b]
  /\ UNCHANGED front /\ Binds

UseProgram ==
  /\ \E p \in Live("pipeline") \cup {Nothing} : bound' = [bound EXCEPT !.program = p]
  /\ UNCHANGED front /\ Binds

BindFramebuffer ==
  /\ \E b \in Frames \cup {Nothing} : bound' = [bound EXCEPT !.target = b]
  /\ UNCHANGED front /\ Binds

-----------------------------------------------------------------------------
(* Framebuffers.                                                           *)

MakeFramebuffer ==
  /\ \E b \in Framebuffer \ Frames : frame' = [frame EXCEPT ![b].there = TRUE]
  /\ child' = child + 1
  /\ UNCHANGED <<front, open, attachments, bound>>

Attaches == UNCHANGED <<open, child, bound>>

\* A color image gives its framebuffer a pass.
AttachColor(b, i) ==
  \E r \in Free("render_pass") :
    LET Passed(g) == CreatePass(g, r, i)
        attached == Then(Derived(i, "COLOR_TARGET"), Passed)
    IN /\ frame[b].color = Nothing /\ Call(attached)
       /\ IF attached.ok
          THEN /\ frame' = [frame EXCEPT ![b].color = i, ![b].pass = r]
               /\ attachments' = [attachments EXCEPT ![i] = @ + 1]
          ELSE UNCHANGED <<frame, attachments>>

AttachRenderbuffer ==
  /\ \E b \in Frames, i \in Live("image") \cap Renderbuffer : AttachColor(b, i)
  /\ Attaches

AttachTexture ==
  /\ \E b \in Frames, i \in Live("image") \cap Texture : AttachColor(b, i)
  /\ Attaches

AttachDepthBuffer ==
  /\ \E b \in Frames, i \in Live("image") \cap Renderbuffer :
       LET Passed(g) == AttachDepth(g, frame[b].pass, i)
           attached == Then(Derived(i, "DEPTH_TARGET"), Passed)
       IN /\ frame[b].pass # Nothing /\ frame[b].depth = Nothing /\ Call(attached)
          /\ IF attached.ok
             THEN /\ frame' = [frame EXCEPT ![b].depth = i]
                  /\ attachments' = [attachments EXCEPT ![i] = @ + 1]
             ELSE UNCHANGED <<frame, attachments>>
  /\ Attaches

\* Mutant: the renderbuffer is let go of while the pass keeps it.
DetachDepthAnyway ==
  /\ \E b \in Frames :
       /\ frame[b].pass # Nothing
       /\ Call(AttachDepth(front, frame[b].pass, Nothing))
       /\ frame' = [frame EXCEPT ![b].depth = Nothing]
       /\ attachments' = Counting(attachments, frame[b].depth, -1)
  /\ Attaches

DetachDepth ==
  /\ \E b \in Frames :
       LET detached == AttachDepth(front, frame[b].pass, Nothing)
       IN /\ frame[b].pass # Nothing /\ detached.ok /\ Call(detached)
          /\ frame' = [frame EXCEPT ![b].depth = Nothing]
          /\ attachments' = Counting(attachments, frame[b].depth, -1)
  /\ Attaches

\* Mutant: the pass is not ended first.
PassGoneUnended(f, r) == IF r = Nothing THEN Done(f) ELSE DestroyPass(f, r)

\* What becomes of the pass of a framebuffer that is destroyed: it ends, if
\* it can, and goes, if it has ended.
PassGone(f, r) == IF r = Nothing THEN Done(f) ELSE DestroyPass(EndPass(f, r).now, r)

\* Destroying the bound target unbinds it.
EndFramebuffer ==
  /\ \E b \in Frames :
       LET gone == PassGone(front, frame[b].pass)
       IN /\ Destroyed(gone)
          /\ IF gone.ok
             THEN /\ frame' = [frame EXCEPT ![b] = NoFrame]
                  /\ attachments' = Counting(Counting(attachments, frame[b].color, -1),
                                             frame[b].depth, -1)
                  /\ bound' = IF bound.target = b THEN [bound EXCEPT !.target = Nothing] ELSE bound
             ELSE UNCHANGED <<frame, attachments, bound>>
  /\ UNCHANGED open

\* Calls that go to the pass of a framebuffer.
OnPass ==
  /\ \E b \in Frames :
       LET r == frame[b].pass
       IN /\ r # Nothing
          /\ \/ \E p \in Live("pipeline") : Call(BindPipeline(front, r, p))
             \/ \E x \in Live("buffer") : Call(BindIndex(front, r, x))
             \/ \E x \in Live("buffer") : Call(BindVertex(front, r, x))
             \/ \E area \in {Whole, {0}} : Call(SetScissor(front, r, area))
             \/ \E cleared \in SUBSET {"color", "depth"} :
                  Call(BeginPassNow(front, r, cleared, "loaded"))
             \/ Call(ClearColor(front, frame[b].color, Whole, "cleared"))
             \/ Call(ClearNow(front, r, "cleared"))
             \/ Call(ClearDepthNow(front, r, "cleared"))
  /\ UNCHANGED child /\ Keeps

\* The pass of the bound framebuffer.
Target == IF bound.target = Nothing THEN Nothing ELSE frame[bound.target].pass

\* The draws: a pass that is not begun is begun without clears, and whether
\* that works is not asked.
Draw ==
  /\ Target # Nothing /\ Call(BeginPass(front, Target, {}))
  /\ UNCHANGED child /\ Keeps

\* begin_query, which begins the pass too, and end_query
Query ==
  /\ Target # Nothing
  /\ \/ \E q \in Live("query") : Call(BeginQuery(BeginPass(front, Target, {}).now, Target, q))
     \/ Call(EndQuery(front, Target))
  /\ UNCHANGED child /\ Keeps

\* dispatch_compute: the plan of the program is what is bound; the binding of
\* its uniform and of its texture is 0 here.
DispatchCompute ==
  /\ LET p == bound.program
         uniforms == front.plan[p] \cap Buffer
         textures == front.plan[p] \cap Image
     IN /\ p # Nothing
        /\ uniforms # {} => uniforms = {bound.uniforms[0]} /\ 0 \in bound.ranged
        /\ textures # {} => /\ textures = {bound.samples[0]} /\ bound.sampler # Nothing
                            /\ bound.sampler = front.sampler[p]
        /\ Call(Dispatch(front, p, "stored"))
  /\ UNCHANGED child /\ Keeps

-----------------------------------------------------------------------------
(* Transfers.                                                              *)

\* tex_sub_image, get_tex_image, tex_sub_image_from_buffer and get_tex_image_to_
\* buffer
TextureTransfer ==
  /\ \E i \in Live("image") \cap Texture :
       \/ Call(UploadImage(front, i, 0, 1, "new"))
       \/ Call(ReadImage(front, i, 0, 1))
       \/ \E b \in Live("buffer") \cap Unpack : Call(CopyToImage(front, b, 0, i, 0, 1))
       \/ \E b \in Live("buffer") \cap Pack : Call(CopyFromImage(front, i, 0, b, 0, 1))
  /\ UNCHANGED child /\ Keeps

\* What framebuffers draw to: color_image.
Colors == {frame[b].color : b \in Frames} \ {Nothing}

ReadPixels ==
  /\ \E c \in Colors : Call(ReadImage(front, c, 0, 1))
  /\ UNCHANGED child /\ Keeps

CopyTexSubImage ==
  /\ \E c \in Colors, i \in Live("image") \cap Texture :
       Call(CopyRect(front, c, 0, 0, i, 0, 0, 1, 1))
  /\ UNCHANGED child /\ Keeps

\* buffer_sub_data, get_buffer_sub_data, clear_buffer_sub_data, copy_buffer_sub_
\* data and copy_buffer_then_clear_sub_data
BufferTransfer ==
  /\ \E b \in Live("buffer") :
       \/ b \notin Pack /\ Call(UploadBuffer(front, b, 0, 1, "new"))
       \/ b \in Pack \cup Uniform /\ Call(ReadBuffer(front, b, 0, 1))
       \/ Call(FillBuffer(front, b, 0, 1, "new"))
       \/ \E a \in Live("buffer") : \/ Call(CopyBuffer(front, a, 0, b, 0, 1))
                                   \/ Call(CopyThenFill(front, a, 0, b, 0, 1, 1, "new"))
  /\ UNCHANGED child /\ Keeps

Next ==
  /\ open
  /\ \/ ContextDestroy \/ Finish
     \/ MakeTexture \/ EndTexture \/ MakeRenderbuffer \/ EndRenderbuffer
     \/ AllocateMemory \/ FreeMemory \/ BindBufferMemory
     \/ MakeBuffer \/ MakeUnboundBuffer \/ EndBuffer
     \/ MakeSampler \/ EndSampler
     \/ MakeGraphicsProgram \/ MakeComputeProgram \/ ProgramSampler \/ EndProgram
     \/ MakeQuery \/ EndQueryObject
     \/ BindTextureUnit \/ MemoryBarrier \/ BindSampler \/ BindUniform \/ BindBuffer
     \/ UseProgram \/ BindFramebuffer
     \/ MakeFramebuffer \/ AttachRenderbuffer \/ AttachTexture \/ AttachDepthBuffer
     \/ DetachDepth \/ EndFramebuffer \/ OnPass \/ Draw \/ Query \/ DispatchCompute
     \/ TextureTransfer \/ ReadPixels \/ CopyTexSubImage \/ BufferTransfer

Spec == Init /\ [][Next]_vars

-----------------------------------------------------------------------------
(* Properties.                                                             *)

\* No binding point, framebuffer or object of the front end names what is not
\* there, though destroy looks only at some of the binding points: the sampled
\* texture is always one of a unit's, and the uniform that a vertex buffer
\* displaced is still in its slot.
NothingBoundIsGone ==
  /\ Sound(front)
  /\ {bound.samples[u] : u \in Unit} \subseteq front.live \cup {Nothing}
  /\ bound.sample \in {bound.samples[u] : u \in Unit} \cup {Nothing}
  /\ {bound.uniforms[u] : u \in Unit} \subseteq front.live \cup {Nothing}
  /\ {bound.unpack, bound.pack, bound.uniform, bound.program, bound.sampler}
       \subseteq front.live \cup {Nothing}
  /\ bound.target \in Frames \cup {Nothing}
  /\ \A b \in Frames : {frame[b].color, frame[b].depth, frame[b].pass}
                         \subseteq front.live \cup {Nothing}

\* A framebuffer and its pass never disagree: it has a pass exactly when it has
\* a color attachment, no two have the same, and the pass draws to what is
\* attached, although a depth image may be refused after it was taken into its
\* state, and a begun pass keeps its depth image.
FramesAreTheirPasses ==
  /\ \A b \in Frames : LET r == frame[b].pass
                       IN /\ (r = Nothing) = (frame[b].color = Nothing)
                          /\ r = Nothing => frame[b].depth = Nothing
                          /\ r # Nothing => /\ front.pass[r].color = frame[b].color
                                            /\ front.pass[r].depth = frame[b].depth
  /\ \A b, c \in Frames : frame[b].pass = frame[c].pass /\ b # c => frame[b].pass = Nothing

\* What becomes of an object that the application is through with; the query of
\* a pass is ended first.
Undone(kind, f, x) ==
  CASE kind = "render_pass" -> PassGone(EndQuery(f, x).now, x)
    [] kind = "pipeline" -> DestroyPipeline(f, x)
    [] kind = "sampler" -> DestroySampler(f, x)
    [] kind = "query" -> DestroyQueryPool(f, x)
    [] kind = "image" -> DestroyImage(f, x)
    [] kind = "buffer" -> DestroyBuffer(f, x)
    [] kind = "memory" -> DestroyMemory(f, x)

AllUndone(kind, S, f) == LET Step(x, g) == Undone(kind, g, x).now IN FoldSet(Step, f, S)

\* What remains of the front end when the application ends every query and
\* destroys its objects, users before what they use.
TornDown(f) ==
  LET Gone1 == AllUndone("render_pass", {frame[b].pass : b \in Frames} \ {Nothing}, f)
      Gone2 == AllUndone("pipeline", f.live \cap Pipeline, Gone1)
      Gone3 == AllUndone("sampler", f.live \cap Sampler, Gone2)
      Gone4 == AllUndone("query", f.live \cap QueryPool, Gone3)
      Gone5 == AllUndone("image", f.live \cap Image, Gone4)
      Gone6 == AllUndone("buffer", f.live \cap Buffer, Gone5)
  IN AllUndone("memory", f.live \cap Memory, Gone6)

\* Whatever the application has done, it can end its queries and destroy what
\* it made, in order, and the context can then be destroyed: no sequence of
\* calls leaves an object that is refused for ever, and its counts come to zero
\* with the objects; the device then does not refuse once the timeline is gone.
\* (After a submission that was refused for want of counters, the lists name
\* objects until the next.)
ContextCanEnd ==
  /\ child = Cardinality(front.live \ (Timeline \cup Pass)) + Cardinality(Frames)
  /\ \A i \in Image : attachments[i] =
       Cardinality({b \in Frames : frame[b].color = i}) + Cardinality({b \in Frames : frame[b].depth = i})
  /\ open /\ front.listed = {} /\ front.retained = Nothing =>
       TornDown(front).live = {Finished} /\ MayClose(DestroyTimeline(TornDown(front), Finished).now)
  /\ ~open => MayClose(front)
=============================================================================
