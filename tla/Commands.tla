------------------------------ MODULE Commands ------------------------------
(***************************************************************************)
(* The Vulkan-style device (openagc_vulkan.c): objects that wrap those of  *)
(* the front end and count what names them, and command buffers, which     *)
(* check and keep commands while they record and run them one by one when  *)
(* they are submitted.  What happens inside a render pass happens to the   *)
(* front end at once; copies, fills, clears and barriers wait.             *)
(*                                                                         *)
(* An object is there as long as its object of the front end is, so it     *)
(* goes by that name.  Recorded commands hold pointers that nothing        *)
(* counts: as in Vulkan, the application keeps their objects until the     *)
(* buffer has run or begins anew.  A set has one slot here, of eight that  *)
(* are alike.                                                              *)
(***************************************************************************)
EXTENDS Passes

CONSTANTS
  View, Set, CommandPool, CommandBuffer, Fence, Semaphore,
  Command,       \* the commands the application records
  MaxCommands,   \* OPENAGC_VK_MAX_COMMANDS
  PerPool,       \* OPENAGC_VK_MAX_POOL_BUFFERS
  Revision,      \* what may be left of the counter of an image
  Left,          \* ... and of the copy submissions of the device
  Value          \* the values a timeline takes here

\* The arguments of the transfers, clears and barriers that are recorded.
CommandType ==
  [kind : {"COPY"}, from : Buffer, at : Nat, to : Buffer, into : Nat, n : Nat]
    \cup [kind : {"TO_IMAGE"}, from : Buffer, at : Nat, to : Image, into : Nat, n : Nat]
    \cup [kind : {"FROM_IMAGE"}, from : Image, at : Nat, to : Buffer, into : Nat, n : Nat]
    \cup [kind : {"COPY_IMAGE"}, from : Image, x : Nat, y : Nat,
          to : Image, u : Nat, t : Nat, w : Nat, h : Nat]
    \cup [kind : {"FILL", "UPDATE"}, to : Buffer, into : Nat, n : Nat]
    \cup [kind : {"CLEAR"}, to : Image] \cup [kind : {"BARRIER"}, to : Image, layout : Layout]

ASSUME CommandsAssumption ==
  /\ Fence \cup Semaphore = Timeline /\ Fence \cap Semaphore = {}
  /\ MaxCommands \in Nat \ {0} /\ PerPool \in Nat \ {0}
  /\ Revision \cup Left \subseteq Nat \cup {Plenty} /\ Value \subseteq Nat
  /\ \A S \in {View, Set, CommandPool, CommandBuffer} : IsFiniteSet(S) /\ Nothing \notin S
  /\ View \cap (Buffer \cup Sampler) = {}
  /\ Command \subseteq CommandType

VARIABLES
  instance,      \* "absent", "alone", or "device" while device_alive
  front,         \* the front end
  child,         \* device.child_count
  view,          \* the image of every view
  viewCount,     \* image.view_count
  set,           \* descriptor sets
  described,     \* descriptor_count of buffers, views and samplers
  pools,         \* command pools
  buffer,        \* command buffers
  stranded       \* passes whose command buffer was destroyed inside them

wrappers == <<view, viewCount, set, described>>
recorders == <<pools, buffer, stranded>>
vars == <<instance, front, child, wrappers, recorders>>

NoSet == [there |-> FALSE, buffer |-> Nothing, ranged |-> FALSE, view |-> Nothing,
          sampler |-> Nothing, layout |-> Nothing]

NoRecording == [pool |-> Nothing, list |-> <<>>, recording |-> FALSE, executable |-> FALSE,
                inside |-> Nothing, compute |-> Nothing, set |-> Nothing]

Init ==
  /\ instance = "absent" /\ front = Opened(Plenty, Plenty) /\ child = 0
  /\ view = [x \in View |-> Nothing] /\ viewCount = [i \in Image |-> 0]
  /\ set = [d \in Set |-> NoSet]
  /\ described = [x \in Buffer \cup View \cup Sampler |-> 0]
  /\ pools = {} /\ buffer = [c \in CommandBuffer |-> NoRecording] /\ stranded = {}

\* The front end goes on from a call; its dwords are given new names.
Call(r) == front' = [r.now EXCEPT !.bytes = Own]

Created(r) == Call(r) /\ child' = IF r.ok THEN child + 1 ELSE child
Destroyed(r) == Call(r) /\ child' = IF r.ok THEN child - 1 ELSE child

Live(kind) == front.live \cap Of(kind)
Free(kind) == Of(kind) \ front.live

Views == {x \in View : view[x] # Nothing}
Sets == {d \in Set : set[d].there}
Buffers == {c \in CommandBuffer : buffer[c].pool # Nothing}

\* What a command buffer will still use, and what the application destroys.
Named(c) ==
  LET b == buffer[c]
      uses == UNION {{x.to} \cup (IF "from" \in DOMAIN x THEN {x.from} ELSE {}) : x \in ToSet(b.list)}
  IN IF b.recording \/ b.executable THEN uses \cup {b.compute, b.set} ELSE {}

Unnamed(x) == \A c \in CommandBuffer : x \notin Named(c)

-----------------------------------------------------------------------------
(* The instance and its one device.                                        *)

InstanceCreate ==
  /\ instance = "absent" /\ instance' = "alone"
  /\ UNCHANGED <<front, child, wrappers, recorders>>

\* The front end gets a queue of its own; the packets of the GPU device go on.
DeviceCreate ==
  /\ instance = "alone" /\ instance' = "device"
  /\ \E n \in Left : front' = Opened(n, front.writes)
  /\ UNCHANGED <<child, wrappers, recorders>>

\* device_destroy does not see whether the front end refuses to go.
DeviceDestroy ==
  /\ instance = "device" /\ child = 0 /\ instance' = "alone"
  /\ UNCHANGED <<front, child, wrappers, recorders>>

\* A front end that did not go keeps its objects on the GPU device, and
\* gpu_device_destroy refuses.
InstanceDestroy ==
  /\ instance = "alone" /\ MayClose(front) /\ instance' = "absent"
  /\ UNCHANGED <<front, child, wrappers, recorders>>

-----------------------------------------------------------------------------
(* Objects of the front end.                                               *)

AllocateMemory ==
  /\ \E m \in Free("memory") : Created(CreateMemory(front, m))
  /\ UNCHANGED <<wrappers, recorders>>

FreeMemory ==
  /\ \E m \in Live("memory") : Destroyed(DestroyMemory(front, m))
  /\ UNCHANGED <<wrappers, recorders>>

\* create_buffer and create_unbound_buffer; the heap may be full.
MakeBuffer ==
  /\ \E b \in Free("buffer") :
       \/ \E home \in {"heap", Nothing} : Created(CreateBuffer(front, b, home))
       \/ Created(CreateBufferInVain(front))
  /\ UNCHANGED <<wrappers, recorders>>

MakeImage ==
  /\ \E i \in Free("image"), home \in {"heap", Nothing}, layout \in Layout, left \in Revision :
       Created(CreateImage(front, i, home, layout, left))
  /\ UNCHANGED <<wrappers, recorders>>

BindBufferMemory ==
  /\ \E b \in Live("buffer"), m \in Live("memory") : Call(BindMemory(front, b, m))
  /\ UNCHANGED <<child, wrappers, recorders>>

BindImageMemory ==
  /\ \E i \in Live("image"), m \in Live("memory") : Call(BindMemory(front, i, m))
  /\ UNCHANGED <<child, wrappers, recorders>>

EndBuffer ==
  /\ \E b \in Live("buffer") :
       Unnamed(b) /\ described[b] = 0 /\ Destroyed(DestroyBuffer(front, b))
  /\ UNCHANGED <<wrappers, recorders>>

\* Mutant: an image goes although views name it.
EndImageAnyway ==
  /\ \E i \in Live("image") : Unnamed(i) /\ Destroyed(DestroyImage(front, i))
  /\ UNCHANGED <<wrappers, recorders>>

EndImage ==
  /\ \E i \in Live("image") :
       Unnamed(i) /\ viewCount[i] = 0 /\ Destroyed(DestroyImage(front, i))
  /\ UNCHANGED <<wrappers, recorders>>

MakeSampler ==
  /\ \E s \in Free("sampler") : Created(CreateSampler(front, s))
  /\ UNCHANGED <<wrappers, recorders>>

EndSampler ==
  /\ \E s \in Live("sampler") : described[s] = 0 /\ Destroyed(DestroySampler(front, s))
  /\ UNCHANGED <<wrappers, recorders>>

\* The resources of a pipeline are at most one uniform and one texture here.
Sampleds == {{}} \cup {{i} : i \in Live("image")}
Uniforms == {{}} \cup {{b} : b \in Live("buffer")}

\* create_graphics_pipeline_with_resources
MakeGraphicsPipeline ==
  /\ \E p \in Free("pipeline") \cap Graphical, target \in Live("image"),
        sampled \in Sampleds, uniforms \in Uniforms :
       Created(CreateGraphicsPipeline(front, p, target, sampled, uniforms))
  /\ UNCHANGED <<wrappers, recorders>>

\* create_compute_pipeline_with_resources
MakeComputePipeline ==
  /\ \E p \in Free("pipeline") \ Graphical, sampled \in Sampleds, uniforms \in Uniforms :
       Created(CreatePipeline(front, p, Nothing, sampled, uniforms))
  /\ UNCHANGED <<wrappers, recorders>>

PipelineSampler ==
  /\ \E p \in Live("pipeline"), s \in Live("sampler") \cup {Nothing} :
       Call(SetSampler(front, p, s))
  /\ UNCHANGED <<child, wrappers, recorders>>

EndPipeline ==
  /\ \E p \in Live("pipeline") : Unnamed(p) /\ Destroyed(DestroyPipeline(front, p))
  /\ UNCHANGED <<wrappers, recorders>>

MakePass ==
  /\ \E r \in Free("render_pass"), i \in Live("image") : Created(CreatePass(front, r, i))
  /\ UNCHANGED <<wrappers, recorders>>

PassDepth ==
  /\ \E r \in Live("render_pass"), i \in Live("image") \cup {Nothing} :
       Call(AttachDepth(front, r, i))
  /\ UNCHANGED <<child, wrappers, recorders>>

\* destroy_render_pass; stranded keeps passes that are there.
EndRenderPass ==
  /\ \E r \in Live("render_pass") : Unnamed(r) /\ Destroyed(DestroyPass(front, r))
  /\ UNCHANGED <<wrappers, recorders>>

MakeQueries ==
  /\ \E q \in Free("query") : Created(CreateQueryPool(front, q))
  /\ UNCHANGED <<wrappers, recorders>>

EndQueries ==
  /\ \E q \in Live("query") : Destroyed(DestroyQueryPool(front, q))
  /\ UNCHANGED <<wrappers, recorders>>

MakeFence ==
  /\ \E t \in Free("timeline") \cap Fence : Created(CreateTimeline(front, t))
  /\ UNCHANGED <<wrappers, recorders>>

EndFence ==
  /\ \E t \in Live("timeline") \cap Fence : Destroyed(DestroyTimeline(front, t))
  /\ UNCHANGED <<wrappers, recorders>>

MakeSemaphore ==
  /\ \E t \in Free("timeline") \cap Semaphore : Created(CreateTimeline(front, t))
  /\ UNCHANGED <<wrappers, recorders>>

EndSemaphore ==
  /\ \E t \in Live("timeline") \cap Semaphore : Destroyed(DestroyTimeline(front, t))
  /\ UNCHANGED <<wrappers, recorders>>

-----------------------------------------------------------------------------
(* Views and descriptor sets.                                              *)

MakeView ==
  /\ \E x \in View \ Views, i \in Live("image") :
       /\ front.state[i] # "gone"
       /\ view' = [view EXCEPT ![x] = i] /\ viewCount' = [viewCount EXCEPT ![i] = @ + 1]
  /\ child' = child + 1
  /\ UNCHANGED <<front, set, described, recorders>>

EndView ==
  /\ \E x \in Views :
       /\ described[x] = 0
       /\ view' = [view EXCEPT ![x] = Nothing]
       /\ viewCount' = [viewCount EXCEPT ![view[x]] = @ - 1]
  /\ child' = child - 1
  /\ UNCHANGED <<front, set, described, recorders>>

\* create_descriptor_set and create_descriptor_set_for_pipeline
MakeSet ==
  /\ \E d \in Set \ Sets, p \in Live("pipeline") \cup {Nothing} :
       /\ set' = [set EXCEPT ![d] = [NoSet EXCEPT !.there = TRUE, !.layout = p]]
       /\ IF p = Nothing THEN UNCHANGED front ELSE Call(RetainLayout(front, p))
  /\ child' = child + 1
  /\ UNCHANGED <<view, viewCount, described, recorders>>

\* Field of set d names x from now on, and what it named is one name poorer.
Describes(d, field, x) ==
  /\ set' = [set EXCEPT ![d][field] = x]
  /\ described' = IF set[d][field] = x THEN described
                  ELSE Counting(Counting(described, set[d][field], -1), x, 1)

\* update_descriptor_set_at: another buffer has no range yet.
UpdateBuffer ==
  /\ \E d \in Sets, b \in Live("buffer") \cap Readable :
       LET named == [set EXCEPT ![d].buffer = b,
                                ![d].ranged = @ /\ set[d].buffer = b]
       IN /\ set' \in {named,                                  \* a range is refused
                       [named EXCEPT ![d].ranged = TRUE]}      \* ... and accepted
          /\ described' = IF set[d].buffer = b THEN described
                          ELSE Counting(Counting(described, set[d].buffer, -1), b, 1)
  /\ UNCHANGED <<front, child, view, viewCount, recorders>>

UpdateImage ==
  /\ \E d \in Sets, x \in Views :
       front.state[view[x]] = "SHADER_READ" /\ Describes(d, "view", x)
  /\ UNCHANGED <<front, child, view, viewCount, recorders>>

UpdateSampler ==
  /\ \E d \in Sets, s \in Live("sampler") : Describes(d, "sampler", s)
  /\ UNCHANGED <<front, child, view, viewCount, recorders>>

\* Mutant: the view of the set keeps its count.
EndSetOnly ==
  /\ \E d \in Sets :
       /\ Unnamed(d) /\ set' = [set EXCEPT ![d] = NoSet]
       /\ described' = Counting(Counting(described, set[d].buffer, -1), set[d].sampler, -1)
       /\ IF set[d].layout = Nothing THEN UNCHANGED front
          ELSE Call(ReleaseLayout(front, set[d].layout))
  /\ child' = child - 1
  /\ UNCHANGED <<view, viewCount, recorders>>

EndSet ==
  /\ \E d \in Sets :
       /\ Unnamed(d) /\ set' = [set EXCEPT ![d] = NoSet]
       /\ described' = Counting(Counting(Counting(described, set[d].buffer, -1),
                                         set[d].view, -1), set[d].sampler, -1)
       /\ IF set[d].layout = Nothing THEN UNCHANGED front
          ELSE Call(ReleaseLayout(front, set[d].layout))
  /\ child' = child - 1
  /\ UNCHANGED <<view, viewCount, recorders>>

-----------------------------------------------------------------------------
(* Command buffers.                                                        *)

Keeps == UNCHANGED <<wrappers, pools, stranded>>

MakePool ==
  /\ \E p \in CommandPool \ pools : pools' = pools \cup {p}
  /\ child' = child + 1
  /\ UNCHANGED <<front, wrappers, buffer, stranded>>

Members(p) == {c \in CommandBuffer : buffer[c].pool = p}

EndPool ==
  /\ \E p \in pools : Members(p) = {} /\ pools' = pools \ {p}
  /\ child' = child - 1
  /\ UNCHANGED <<front, wrappers, buffer, stranded>>

ResetPool ==
  /\ \E p \in pools :
       /\ Members(p) # {} /\ \A c \in Members(p) : ~buffer[c].recording
       /\ buffer' = [c \in CommandBuffer |->
            IF c \in Members(p) THEN [buffer[c] EXCEPT !.list = <<>>, !.executable = FALSE]
            ELSE buffer[c]]
  /\ UNCHANGED <<front, child>> /\ Keeps

AllocateBuffer ==
  /\ \E p \in pools, c \in CommandBuffer \ Buffers :
       /\ Cardinality(Members(p)) < PerPool
       /\ buffer' = [buffer EXCEPT ![c] = [NoRecording EXCEPT !.pool = p]]
  /\ child' = child + 1
  /\ UNCHANGED front /\ Keeps

\* destroy_command_buffer asks nothing; a pass it is inside of stays begun.
FreeBuffer ==
  /\ \E c \in Buffers :
       /\ buffer' = [buffer EXCEPT ![c] = NoRecording]
       /\ stranded' = stranded \cup ({buffer[c].inside} \ {Nothing})
  /\ child' = child - 1
  /\ UNCHANGED <<front, wrappers, pools>>

Begin ==
  /\ \E c \in Buffers :
       /\ ~buffer[c].recording
       /\ buffer' = [buffer EXCEPT ![c].list = <<>>, ![c].executable = FALSE,
                                   ![c].recording = TRUE]
  /\ UNCHANGED <<front, child>> /\ Keeps

Room(c) == buffer[c].recording /\ Len(buffer[c].list) < MaxCommands

Pushed(c, x) == [buffer EXCEPT ![c].list = Append(@, x)]

\* What the copies, fills, clears and barriers are asked when they are
\* recorded: only a fill and an update are looked at.
Accepted(x) ==
  CASE x.kind = "FILL"   -> x.to \in Destination /\ x.n # 0 /\ x.into + x.n <= Length
    [] x.kind = "UPDATE" -> x.to \in Destination /\ x.n # 0 /\ x.into + x.n <= Length
    [] OTHER -> TRUE

\* The commands to and from objects that are there.
Recordable == {x \in Command : x.to \in front.live /\ ("from" \in DOMAIN x => x.from \in front.live)}

Record ==
  /\ \E c \in Buffers, x \in Recordable : Room(c) /\ Accepted(x) /\ buffer' = Pushed(c, x)
  /\ UNCHANGED <<front, child>> /\ Keeps

\* cmd_bind_compute_pipeline and cmd_bind_descriptor_set
BindCompute ==
  /\ \E c \in Buffers :
       /\ buffer[c].recording
       /\ \/ \E p \in Live("pipeline") : buffer' = [buffer EXCEPT ![c].compute = p]
          \/ \E d \in Sets : /\ \E x \in {"buffer", "view", "sampler"} : set[d][x] # Nothing
                             /\ buffer' = [buffer EXCEPT ![c].set = d]
  /\ UNCHANGED <<front, child>> /\ Keeps

\* Of two plans with one slot each.
SameLayout(p, q) == /\ (front.plan[p] \cap Buffer = {}) = (front.plan[q] \cap Buffer = {})
                    /\ (front.plan[p] \cap Image = {}) = (front.plan[q] \cap Image = {})

\* layout_matches and recording_matches: what p was planned with is what the
\* set of the command buffer holds.
Matches(p, d) ==
  LET held == IF d = Nothing THEN NoSet ELSE set[d]
      uniforms == front.plan[p] \cap Buffer
      textures == front.plan[p] \cap Image
  IN \/ uniforms \cup textures = {}
     \/ /\ held.layout # Nothing /\ SameLayout(held.layout, p)
        /\ uniforms \subseteq {held.buffer} /\ (uniforms # {} => held.ranged)
        /\ textures # {} => /\ held.view # Nothing /\ textures = {view[held.view]}
                            /\ front.sampler[p] # Nothing /\ held.sampler = front.sampler[p]

CmdDispatch ==
  /\ \E c \in Buffers :
       LET p == buffer[c].compute
       IN /\ Room(c) /\ p # Nothing /\ Matches(p, buffer[c].set) /\ Dispatch(front, p, "stored").ok
          /\ buffer' = Pushed(c, [kind |-> "DISPATCH", to |-> p])
  /\ UNCHANGED <<front, child>> /\ Keeps

\* The pass is begun when the command is recorded; without room it ends again.
CmdBeginRenderPass ==
  /\ \E c \in Buffers, r \in Live("render_pass"), cleared \in SUBSET {"color", "depth"} :
       LET begun == BeginPass(front, r, cleared)
       IN /\ buffer[c].recording /\ buffer[c].inside = Nothing /\ begun.ok
          /\ IF Room(c)
             THEN /\ Call(begun)
                  /\ buffer' = [Pushed(c, [kind |-> "BEGIN", to |-> r, cleared |-> cleared])
                                  EXCEPT ![c].inside = r]
             ELSE Call(EndPass(begun.now, r)) /\ UNCHANGED buffer
  /\ UNCHANGED child /\ Keeps

\* cmd_clear_attachments and cmd_clear_depth keep the area of the moment.
CmdClear ==
  /\ \E c \in Buffers, kind \in {"CLEAR_ATTACHMENTS", "CLEAR_DEPTH"} :
       LET r == buffer[c].inside
       IN /\ Room(c) /\ r # Nothing /\ front.pass[r].begun
          /\ kind = "CLEAR_DEPTH" => front.pass[r].depth # Nothing
          /\ buffer' = Pushed(c, [kind |-> kind, to |-> r, area |-> Area(front, r)])
  /\ UNCHANGED <<front, child>> /\ Keeps

\* What happens to the pass at once: its bindings and its scissor.
CmdInside ==
  /\ \E c \in Buffers :
       LET r == buffer[c].inside
       IN /\ r # Nothing
          /\ \/ \E p \in Live("pipeline") : Call(BindPipeline(front, r, p))
             \/ \E b \in Live("buffer") : Call(BindIndex(front, r, b))
             \/ \E b \in Live("buffer") : Call(BindVertex(front, r, b))
             \/ \E area \in {Whole, {0}} : Call(SetScissor(front, r, area))
  /\ UNCHANGED <<child, buffer>> /\ Keeps

\* cmd_begin_query and cmd_end_query, at once too
CmdQuery ==
  /\ \E c \in Buffers :
       LET r == buffer[c].inside
       IN /\ r # Nothing
          /\ \/ \E q \in Live("query") : Call(BeginQuery(front, r, q))
             \/ Call(EndQuery(front, r))
  /\ UNCHANGED <<child, buffer>> /\ Keeps

\* Mutant: the buffer leaves the pass whatever becomes of it.
CmdEndAnyway ==
  /\ \E c \in Buffers :
       /\ buffer[c].inside # Nothing /\ Call(EndPass(front, buffer[c].inside))
       /\ buffer' = [buffer EXCEPT ![c].inside = Nothing]
  /\ UNCHANGED child /\ Keeps

\* The pipeline of the pass is what a draw is asked to match: render_pass_
\* layout_matches and render_pass_matches.
DrawMatches(c) ==
  LET p == front.pass[buffer[c].inside].pipeline
  IN p # Nothing /\ Matches(p, buffer[c].set)

\* cmd_draw, cmd_draw_indexed and cmd_draw_indirect: nothing is recorded and
\* nothing changes.  What else a draw checks is in Draws.
CmdDraw ==
  /\ \E c \in Buffers : buffer[c].inside # Nothing /\ DrawMatches(c)
  /\ UNCHANGED <<front, child, buffer>> /\ Keeps

CmdEndRenderPass ==
  /\ \E c \in Buffers :
       LET ended == EndPass(front, buffer[c].inside)
       IN /\ buffer[c].inside # Nothing /\ ended.ok
          /\ Call(ended) /\ buffer' = [buffer EXCEPT ![c].inside = Nothing]
  /\ UNCHANGED child /\ Keeps

End ==
  /\ \E c \in Buffers :
       /\ buffer[c].recording /\ buffer[c].inside = Nothing
       /\ buffer' = [buffer EXCEPT ![c].recording = FALSE, ![c].executable = TRUE,
                                   ![c].compute = Nothing, ![c].set = Nothing]
  /\ UNCHANGED <<front, child>> /\ Keeps

-----------------------------------------------------------------------------
(* Submission.                                                             *)

\* One command, which writes the value v if it writes one.
Performed(f, x, v) ==
  CASE x.kind = "COPY"       -> CopyBuffer(f, x.from, x.at, x.to, x.into, x.n)
    [] x.kind = "CLEAR"      -> ClearColor(f, x.to, Whole, v)
    [] x.kind = "TO_IMAGE"   -> CopyToImage(f, x.from, x.at, x.to, x.into, x.n)
    [] x.kind = "FROM_IMAGE" -> CopyFromImage(f, x.from, x.at, x.to, x.into, x.n)
    [] x.kind = "COPY_IMAGE" -> CopyRect(f, x.from, x.x, x.y, x.to, x.u, x.t, x.w, x.h)
    [] x.kind = "FILL"       -> FillBuffer(f, x.to, x.into, x.n, v)
    [] x.kind = "UPDATE"     -> UploadBuffer(f, x.to, x.into, x.n, v)
    [] x.kind = "DISPATCH"   -> Dispatch(f, x.to, v)
    [] x.kind = "BEGIN"      -> ApplyLoads(f, x.to, x.cleared, v)
    [] x.kind = "CLEAR_ATTACHMENTS" -> ClearPass(f, x.to, x.area, v)
    [] x.kind = "CLEAR_DEPTH" -> ClearPassDepth(f, x.to, x.area, v)
    [] x.kind = "BARRIER"    -> Recorded(f, x.to, x.layout)

\* Mutant: any fill of the destination joins the copy before it.
FusedAnywhere(list, k) ==
  /\ k \in 1 .. Len(list) - 1 /\ list[k].kind = "COPY" /\ list[k + 1].kind = "FILL"
  /\ list[k + 1].to = list[k].to
  /\ list[k + 1].n <= list[k].n /\ list[k + 1].n <= Packet

\* Command k and the next become one packet.
Fused(list, k) ==
  /\ k \in 1 .. Len(list) - 1 /\ list[k].kind = "COPY" /\ list[k + 1].kind = "FILL"
  /\ list[k + 1].to = list[k].to /\ list[k + 1].into = list[k].into
  /\ list[k + 1].n <= list[k].n /\ list[k + 1].n <= Packet

\* The commands in turn, up to the first that is refused.
Submission(f, list) ==
  LET Step(r, k) ==
        LET x == list[k]
            v(n) == <<"command", n>>
            Turn(g) == CASE Fused(list, k - 1) -> Done(g)
                         [] Fused(list, k) -> CopyThenFill(g, x.from, x.at, x.to, x.into, x.n,
                                                           list[k + 1].n, v(k + 1))
                         [] OTHER -> Performed(g, x, v(k))
        IN Then(r, Turn)
  IN FoldLeft(Step, Done(f), [k \in 1 .. Len(list) |-> k])

\* queue_submit_commands: a buffer that was refused stays executable.
QueueSubmit ==
  /\ \E c \in Buffers, t \in (Fence \cap front.live) \cup {Nothing} :
       LET ran == Submission(front, buffer[c].list)
           Reached(g) == IF t = Nothing THEN Done(g) ELSE Signal(g, t)
       IN /\ buffer[c].executable
          /\ t # Nothing => front.value[t] + 1 \in Value
          /\ buffer' = [buffer EXCEPT ![c].executable = ~ran.ok]
          /\ Call(Then(ran, Reached))
  /\ UNCHANGED child /\ Keeps

\* Mutant: the semaphore is signalled even if a command was refused.
QueueSubmitWaitAnyway ==
  /\ \E c \in Buffers, s \in Semaphore \cap front.live,
        t \in (Semaphore \cap front.live) \cup {Nothing}, v \in Value \ {0} :
       LET ran == Submission(front, buffer[c].list)
       IN /\ buffer[c].executable /\ (t # Nothing => front.value[t] >= v)
          /\ front.value[s] + 1 \in Value
          /\ buffer' = [buffer EXCEPT ![c].executable = ~ran.ok]
          /\ Call(Signal(ran.now, s))
  /\ UNCHANGED child /\ Keeps

\* queue_submit_wait: a value not reached yet refuses the submission.
QueueSubmitWait ==
  /\ \E c \in Buffers, s \in Semaphore \cap front.live,
        t \in (Semaphore \cap front.live) \cup {Nothing}, v \in Value \ {0} :
       LET ran == Submission(front, buffer[c].list)
           Reached(g) == Signal(g, s)
       IN /\ buffer[c].executable /\ (t # Nothing => front.value[t] >= v)
          /\ front.value[s] + 1 \in Value
          /\ buffer' = [buffer EXCEPT ![c].executable = ~ran.ok]
          /\ Call(Then(ran, Reached))
  /\ UNCHANGED child /\ Keeps

\* queue_submit: nothing but the fence.
SignalFence ==
  /\ \E t \in Fence \cap front.live :
       front.value[t] + 1 \in Value /\ Call(Signal(front, t))
  /\ UNCHANGED <<child, buffer>> /\ Keeps

OnDevice ==
  \/ AllocateMemory \/ FreeMemory \/ MakeBuffer \/ MakeImage \/ BindBufferMemory
  \/ BindImageMemory \/ EndBuffer \/ EndImage \/ MakeSampler \/ EndSampler
  \/ MakeGraphicsPipeline \/ MakeComputePipeline \/ PipelineSampler \/ EndPipeline
  \/ MakePass \/ PassDepth \/ EndRenderPass \/ MakeQueries \/ EndQueries
  \/ MakeFence \/ EndFence \/ MakeSemaphore \/ EndSemaphore
  \/ MakeView \/ EndView \/ MakeSet \/ UpdateBuffer \/ UpdateImage
  \/ UpdateSampler \/ EndSet
  \/ MakePool \/ EndPool \/ ResetPool \/ AllocateBuffer \/ FreeBuffer
  \/ Begin \/ Record \/ BindCompute \/ CmdDispatch \/ CmdBeginRenderPass
  \/ CmdClear \/ CmdInside \/ CmdQuery \/ CmdDraw \/ CmdEndRenderPass \/ End
  \/ QueueSubmit \/ QueueSubmitWait \/ SignalFence

Next ==
  \/ InstanceCreate \/ DeviceCreate \/ DeviceDestroy \/ InstanceDestroy
  \/ instance = "device" /\ OnDevice /\ UNCHANGED instance

Spec == Init /\ [][Next]_vars

-----------------------------------------------------------------------------
(* Properties.                                                             *)

\* Every count is the number of objects it stands for, on error paths too, so
\* a device without children can destroy its front end, whose refusal
\* device_destroy would not see, and the instance can go after it.
ChildrenAreCounted ==
  /\ child = Cardinality(front.live) + Cardinality(Views) + Cardinality(Sets)
               + Cardinality(pools) + Cardinality(Buffers)
  /\ \A i \in Image : viewCount[i] = Cardinality({x \in Views : view[x] = i})
  /\ \A x \in DOMAIN described :
       described[x] = Cardinality({d \in Sets : x \in {set[d].buffer, set[d].view, set[d].sampler}})
  /\ \A p \in Live("pipeline") :
       front.layoutRefs[p] = 1 + Cardinality({d \in Sets : set[d].layout = p})
  /\ Counted(front)
  /\ child = 0 => MayClose(front)

\* Nothing that exists names an object that does not, though destroy goes by
\* counts alone; and an image whose destruction went half way, which keeps its
\* handle, is named by nothing else.
WrappersAreLive ==
  /\ Sound(front)
  /\ \A x \in Views : view[x] \in Live("image")
  /\ \A d \in Sets : /\ {set[d].buffer, set[d].sampler, set[d].layout} \subseteq front.live \cup {Nothing}
                     /\ set[d].view \in Views \cup {Nothing}
  /\ \A c \in Buffers : buffer[c].pool \in pools /\ buffer[c].inside \in front.live \cup {Nothing}
  /\ \A i \in Live("image") : front.state[i] = "gone" =>
       /\ i \notin {view[x] : x \in View}
       /\ \A r \in Pass : i \notin {front.pass[r].color, front.pass[r].depth}
       /\ \A p \in Pipeline : i \notin front.plan[p]

\* A pass is begun exactly while one command buffer records inside it, and so
\* can be ended and destroyed; but a pass whose command buffer is destroyed
\* inside it stays begun for ever.
PassesAreInside ==
  /\ \A r \in Pass : front.pass[r].begun <=> r \in stranded \cup {buffer[c].inside : c \in CommandBuffer}
  /\ \A c, d \in CommandBuffer : buffer[c].inside = buffer[d].inside /\ c # d => buffer[c].inside = Nothing
  /\ \A c \in CommandBuffer : buffer[c].inside # Nothing =>
       buffer[c].recording /\ buffer[c].inside \notin stranded

\* Submitting a command buffer does to bytes and states what its commands do
\* one after the other, up to the first that is refused: a copy and the fill
\* after it, made one packet, are no exception.  (Only that packet takes
\* ranges that overlap, and a copy that is out of submissions.)
SubmissionIsItsCommands ==
  \A c \in Buffers :
    LET list == buffer[c].list
        Step(r, k) == LET Turn(g) == Performed(g, list[k], <<"command", k>>) IN Then(r, Turn)
        inTurn == FoldLeft(Step, Done(front), [k \in 1 .. Len(list) |-> k])
        ran == Submission(front, list)
        overlapping == \E k \in 1 .. Len(list) :
          list[k].kind = "COPY" /\ Overlaps(list[k].from, list[k].at, list[k].to, list[k].into, list[k].n)
    IN buffer[c].executable /\ front.sequences = Plenty /\ ~overlapping =>
         /\ ran.ok = inTurn.ok
         /\ ran.now.bytes = inTurn.now.bytes /\ ran.now.state = inTurn.now.state

\* What a transfer that is accepted does: dword k of its destination afterwards.
Intended(x, k, v) ==
  LET o == x.to
      placed == k - x.into
      column == k % Columns
      row == k \div Columns
  IN CASE x.kind \in {"COPY", "TO_IMAGE", "FROM_IMAGE"} ->
            IF placed \in 0 .. x.n - 1 THEN <<x.from, x.at + placed>> ELSE <<o, k>>
       [] x.kind \in {"FILL", "UPDATE"} -> IF placed \in 0 .. x.n - 1 THEN v ELSE <<o, k>>
       [] x.kind = "COPY_IMAGE" ->
            IF column - x.u \in 0 .. x.w - 1 /\ row - x.t \in 0 .. x.h - 1
            THEN <<x.from, Columns * (row - x.t + x.y) + column - x.u + x.x>> ELSE <<o, k>>

\* A transfer that is accepted moves what it says, nothing else, and leaves
\* every image in the state it was in; one that is refused moves nothing and
\* changes no state, as long as no counter is used up.  (Out of revisions, an
\* image copy that could not enter its destination reports success; out of
\* submissions, the image of a refused copy stays in its copy state.)
TransfersRestore ==
  \A x \in Recordable :
    LET v == <<"command", 0>>
        r == Performed(front, x, v)
        mayEnter == x.to \in Image /\ front.state[x.to] # "TRANSFER_DESTINATION" => front.revisions[x.to] # 0
        unhindered == front.sequences = Plenty /\ \A i \in Image : front.revisions[i] = Plenty
    IN x.kind \in {"COPY", "TO_IMAGE", "FROM_IMAGE", "FILL", "UPDATE", "COPY_IMAGE"} =>
         /\ r.ok => r.now.state = front.state
         /\ r.ok /\ mayEnter =>
              r.now.bytes = [Own EXCEPT ![x.to] = [k \in DOMAIN @ |-> Intended(x, k, v)]]
         /\ ~r.ok /\ unhindered => r.now.bytes = Own /\ r.now.state = front.state

\* A semaphore goes up by one, and only with a submission all of whose commands
\* ran: a refused submission signals nothing, so nobody who waits for it goes
\* on before the work is done.
SignalsFollowWork ==
  [][\A t \in front.live \cap front'.live \cap Semaphore :
       front'.value[t] # front.value[t] =>
         /\ front'.value[t] = front.value[t] + 1
         /\ \E c \in CommandBuffer : /\ buffer[c].executable /\ ~buffer'[c].executable
                                    /\ Submission(front, buffer[c].list).ok]_vars
=============================================================================
