# OpenAGC in TLA+

OpenAGC is a C library that records graphics work behind small OpenGL- and
Vulkan-style APIs, executes it on a host-side model of a GPU driver, and can
submit single draws to a console GPU and show frames on its display. These
modules model its core from the C source (`src/src/*.c`, with the tests and
`src/docs/` as the second opinion). `PROJECT.json` maps every definition to the
lines it translates.

    tlc -workers 2 -config Ps5Gpu.cfg Ps5Gpu      # a run
    tlapm Ps5GpuProofs.tla                        # the proofs of a module

## 1. Inventory

| component | source | state | operations |
|---|---|---|---|
| Native GPU bridge | `openagc_ps5_gpu.c` | one instance per process: `initialized`, `active`, `sequence`, the pending submission | create, submit_draw, wait, destroy |
| Native video output | `openagc_ps5_videoout.c` | two buffers in direct memory, `next_buffer`, what has been acquired | create, present, destroy |
| Frame recorder | `openagc.c` | context, its device count; a device's frame state, number and commands | create, destroy, begin, clear, rect, present, get_last_frame |
| Host device: memories, copies | `openagc_gpu.c` | memories with budgets and bound counts, buffers, copy command buffers, one queue, fences, synthetic addresses, bytes | allocate, bind, record, submit, poll, host stores, fills and copies |
| Images and graphics recordings | `openagc_graphics.c` | images: state, owner, revision, reference counts; recordings: commands, shadows, targets, scissor | create, bind, destroy; begin, transition, bind target, clear, end, apply, execute, reset |
| Front end: heap and objects | `openagc_frontend.c` | the device's block table; memories with spans; images, buffers, pipelines, samplers, render passes, queries, timelines, and eight counts of them; one shared copy list and one shared transition list | placement, upload, readback, copy, fill, clear, dispatch, binding |
| Front end: pipelines and draws | `openagc_frontend.c` | a pipeline's metadata, linker and target tables, register program and code blocks; its vertex input and fixed state; a pass's buffers | snapshot, link, target, patch, bind code, set input, draw |
| Shader intake and plans | `openagc_shader.c` | artifacts (hash, reference count), plans that retain artifacts and pin target images | create, destroy, validate |
| Vulkan-style API | `openagc_vulkan.c` | pools, command buffers of up to 16 commands, fences, semaphores, render passes | record, submit, wait |
| OpenGL-style API | `openagc_opengl.c` | a context with its bindings, objects with a child count | bind, draw, read, destroy |
| Platform policy | `openagc_ps5_policy.c` | none | refuses every request after checking it |
| Packets | `include/openagc/pm4*.h`, `raster.h`, `openagc_raster.c` | none | encode and decode words |
| Metadata and hashes | `psbc_metadata.h`, `openagc_sha256.c` | none | parse, hash |

The layers call downwards, synchronously: OpenGL and Vulkan call the front end,
which places its objects in one heap allocation of the host device and drives
*one* copy list, *one* fence and *one* transition list for all of its work;
graphics images live in host memories and release their ranges to copies by a
state (`TRANSFER_SOURCE`, `TRANSFER_DESTINATION`); a graphics recording's clears
become host writes; plans pin images. The native bridge and the video output
stand alone: the first shares memory with a GPU, the second with a display.

What is hard, and which properties are about it:

* **Asynchrony with hardware.** The GPU works behind the CPU's cache and after
  the driver has returned, perhaps with an error; the display flips when it
  likes. (`Ps5Gpu`, `VideoOut`)
* **Optimistic commits.** A recording is made against image states, and applied
  later, when other recordings may have changed them and changed them back.
  (`Graphics`, `Transactions`)
* **Deferred use.** Copies are recorded with offsets and addresses; buffers are
  unbound, rebound, destroyed, images bound over them before submission.
  (`CopyQueue`)
* **Counts instead of owners.** What may be destroyed hangs on counters that
  every error path must give back; binding points of OpenGL have not even those.
  (`Graphics`, `CopyQueue`, `Passes`, `Commands`, `Bindings`)
* **Partial failure.** Creation in several acquisitions, execution in several
  packets, a transfer that needs two images in their copy states, the third of
  five commands. (`Ps5Gpu`, `VideoOut`, `Placement`, `ClearTiling`, `Transfers`,
  `Commands`)
* **Derived state.** A register program is encoded from metadata, tables and
  addresses that change one by one, while the heap takes code blocks back.
  (`Programs`)
* **Limits.** 32-bit sequences, revisions, full tables, exhausted addresses,
  packets of sixteen dwords, sizes next to 2^64, products of 64 bits. (all of
  them, `Draws` for the products)

The hazards of `PROJECT.json` list the main ones line by line.

## 2. Modules

| module | models | abstract specification |
|---|---|---|
| `Ps5Gpu` | bridge, driver, GPU, CPU cache | `MemoryLease` |
| `BlockHeap` | `block_alloc`, `block_free` | `HeapMap` |
| `Placement` (extends `BlockHeap`) | memories, images, buffers and code blocks over the heap | `HeapMap` again, for spans of memories |
| `Memories` | allocations, budget, synthetic addresses of a host device | |
| `Graphics` (extends `Memories`) | images, recordings; pins, as any holder of images may take them | `Transactions` |
| `CopyQueue` (extends `Graphics`) | buffers, copy lists, queue, fences, host calls, bytes | |
| `ShaderPlans` (extends `CopyQueue`) | artifacts, pipeline plans and what they hold | |
| `ClearTiling` | a clear's windows and packets | |
| `Transfers` | bytes and states of front-end images and buffers under every transfer | `Intended`, the transfer in one step |
| `Passes` (extends `Transfers`) | front-end objects, their counts, render passes, queries | |
| `Commands` (extends `Passes`) | the Vulkan-style device | the commands one after the other |
| `Bindings` (extends `Passes`) | the OpenGL-style context | |
| `Programs` | register programs and bound code of a pipeline | |
| `Draws` | vertex input, draws and what they fetch | integers without bounds |
| `FrameRecorder` | contexts, devices, frames, views | |
| `VideoOut` (extends `FrameRecorder`) | presenter, display, CPU cache | |
| `TileAddress` | `tile_offset` | |
| `MCGraphics`, `MCCopyQueue`, `MCCommands`, `MCBindings`, `MCPipelines`, `MCVideoOut` | the same for TLC: symmetry, scenes; the address beside the presenter | |
| `Ps5GpuProofs`, `PlacementProofs`, `ShaderPlansProofs`, `VideoOutProofs`, `PipelineProofs`, `PassesProofs`, `CommandsProofs`, `BindingsProofs` | theorems, each module about the one it is named after; `PlacementProofs` also about `BlockHeap`, `ShaderPlansProofs` about `Graphics` and `CopyQueue` underneath, `PipelineProofs` about `Programs`, `Draws` and `ClearTiling`; `VideoOutProofs` about `FrameRecorder` and `TileAddress`; `PassesProofs` holds the lemmas about front-end calls | |

One action is one call, or, where other agents can come in between or a call
can fail after it has changed something, one step of a call, with `pc` for the
position (`Ps5Gpu`, `VideoOut`, `Placement`). Calls that are refused change
nothing and are not actions: the guards are the code's conditions. The callers'
threads are serialised, as `ps5_gpu.h` asks and as the host library, which has
no locks, requires; the hardware is not.

**Ps5Gpu.** The variables after `gpu_instance`'s fields, `pc`, `loaded` (open
modules), and `lent` (blocks the caller was told to keep). External:
`inflight`/`finished` (the GPU's work), `mem`, `cache`, `dirty`. A driver call
that returns an error may or may not have queued the work; one that returns 0
has. A cache line may be filled or evicted at any time; `Flush` is `clflush`. A
block's content is one value, the sequence it was last written for. What the
bridge promises is `MemoryLease`: the GPU touches memory only while it is lent.

**BlockHeap, Placement.** `blocks` and `count` are the code's array, entries
beyond `count` included, because `memmove` copies them; sizes wrap at
`WordMax`. `HeapMap` forgets the table: each object holds an interval of its
own and keeps it. `Placement` adds who calls the heap: a memory's spans, dedicated
objects, two code blocks of a pipeline, with a failure possible between any two
steps; `ExtentsSpec` says that no two resources overlap, whichever of the two
ways each was placed.

**Memories, Graphics, CopyQueue.** An image has a state (which determines its
owner), a revision and counts; a recording has a stage, its commands and a
shadow per image: the state and revision it saw, the state it plans, the
revision it applied. `Transactions` is what that amounts to: commits are all or
nothing and fail if anyone else committed in between. `CopyQueue` adds buffers
and the two-stage life of copies. Addresses and sizes are in dwords; memory is
a function from addresses to values, so that "a submission changes no bytes of
an image that is not a transfer destination" can be said. Whatever takes
synthetic addresses is there: memories, fences, host calls, clears, addresses a
caller reserves (`ReserveVa`) and the register programs a host registers
(`HostRegisters`).

**ShaderPlans.** An artifact is what it declares by slot; a plan is its stages,
its target, and a buffer run or an image for each declared slot, checked when it
is created and held until it is destroyed. `Graphics` and `CopyQueue` let
anybody pin an image or lock a buffer (`Pin`, `LockBuffer`); here plans alone
do, by what they refer to.

**ClearTiling.** `windows` of `execute_host` against the acceptance conditions
of `openagc_gpu_host_write_data_memory`, at the constants of the code (16
dwords, 8 rows, 2 columns).

**Transfers, Passes.** The front end is synchronous, and both dialects are
layers over it, so a call is an *operator* from the state `f` of the front end
to its result and the state after it; `Then` chains the calls of a function up
to the first that is refused, and error paths are written out. The actions are
in the two dialects, which call these operators as the code does. Dwords are
symbolic: `f.bytes[o][k]` says where the value of dword `k` of object `o` came
from, and since no guard reads it, each step starts with every dword holding
its own name; the properties compare the names after the call. Counters
are kept as what is left of them, `Plenty` being more than is ever used up.
Transitions go through one recording whose list may still name an image after a
refusal (`retained`), copies through one list that may still name the objects
(`listed`); destroy then answers `BUSY`, for an image after half of it is gone.

**Commands.** Objects, and the counts between them, for every create and
destroy of `openagc_vulkan.c`; command buffers with their list, which check when
they record, act at once on a render pass, and run the rest in turn when they
are submitted, a copy with the fill after it as one packet. Recorded commands
hold pointers nothing counts: as in Vulkan, the application keeps objects that
such commands name (`Unnamed`). An instance has one device, which must go first;
`device_destroy` ignores whether the front end refuses. A pass whose command
buffer is destroyed inside it stays begun (`stranded`).

**Bindings.** A context whose binding points name objects without counting
them, and the checks of those points in every destroy; framebuffers with the
pass they own from the first attachment on; draws and queries, which begin that
pass by themselves. A target gives its buffer the usage bits of
`translate_buffer_usage`.

**Programs, Draws.** The two halves of a pipeline that do not read each other.
A program is what it encodes: the snapshot, the addresses, the linker's tables
and the target's, with its size in dwords as the code counts them, at the code's
constants. `BindCode` writes vertex and pixel code into two blocks; other users
of the heap take and give back blocks at any time. In `Draws`, `Short` stands
for 2^16, the product of two of them for what 32 bits hold, of four for 64;
integers wrap as in C, and a draw is refused, or fetches each location of each
vertex.

**FrameRecorder, VideoOut, TileAddress.** The recorder's devices and the view
that a caller holds until the next begin; a presenter that drains, clears,
draws, flushes and flips, step by step, against a display that flips later or
never and a cache that writes back whenever it likes. Buffers exist twice: as
the CPU sees them and as the display reads them. At the last frame number
(`NumberMax`) `frame_present` is refused and the device stays in `RECORDING`,
where `frame_begin` is refused too; the model keeps that behaviour, in which
only destroying the device is left. An address in `TileAddress` is a block and a
word in it, and a word is the set of its bits: shifts move them, masks select
them, and where two fall together the exclusive or drops both.

## 3. Runs

| run | module, cfg | shows |
|---|---|---|
| `bridge` | `Ps5Gpu` | no work is lost, the marker read is the submission's own, completions are real, pixels visible, memory comes back only when the GPU is done (`LeaseSpec`), and accepted work is seen to complete |
| `placement` | `Placement` | the heap leaks nothing and overlaps nothing (`HeapSpec`), finds a hole if there is one; nothing orphaned by failing calls, spans are bindings, resources do not overlap (`ExtentsSpec`) |
| `recordings` | `MCGraphics`, `Graphics.cfg` | two recordings over a color and a depth image: usage bits respected, nothing recorded, bound, targeted or pinned disappears, counts exact, revisions decide (ABA), `TransactionsSpec` |
| `copies` | `MCCopyQueue`, `CopyQueue.cfg` | counts of uses exact, records valid until reset, no synthetic address means two things, a fence keeps what it was signaled with, submissions spare images that were not released to them |
| `plans` | `ShaderPlans` | references exact, plans whole, nothing moves under a plan |
| `clears` | `ClearTiling` | windows cover the scissor, each dword once; exactly which clears are refused |
| `one_row_clear` | `ClearTilingRange.cfg` | *expected violation*: see Findings |
| `presentation` | `MCVideoOut`, `VideoOut.cfg` | whole frames from mapped memory, pixels apart, calls return |
| `vulkan` | `MCCommands`, `Commands.cfg` | counts exact and nothing named that is gone, passes inside recordings, a submission is its commands in turn, transfers move what they say and restore the states, signals follow finished work |
| `opengl` | `MCBindings`, `Bindings.cfg` | nothing bound is gone, framebuffers agree with their passes, and whatever was called, the context can be brought to its end |
| `pipelines` | `MCPipelines`, `Pipelines.cfg` | programs are current, bound code is where they say and in blocks of its own; an accepted draw reads its vertices and nothing past the buffer |
| `element_offsets` | `MCPipelines`, `PipelinesElements.cfg` | *expected violation*: see Findings |

Large runs are cut into *scenes*: an extra variable of the MC module, constant
in a behaviour and chosen by `Init`, says which objects may ever exist in it,
and how far counters go. The definitions are untouched, every scene is a set of
behaviours of the whole specification, and all properties are checked in all of
them; what is given up is only behaviours that mix objects of two scenes, which
were chosen so that what can meet in the code meets in one.

Bounds, and why they are enough:

* `bridge`: one block of each kind, three sequences, waits of up to one poll.
  Three submissions give an old, a current and a next marker in the same block;
  a timeout of one poll already separates "expired" from "polls again". The
  proofs are for any number.
* `placement`: three resources, two memories, one pipeline over a heap of four
  units, three table entries, two spans per memory, sizes up to one that wraps:
  a span, a dedicated block and a code block compete, with holes on both sides
  of a free, a full table, and `MaxBinds` reached.
* `recordings`: two recordings of three commands over a color and a depth image,
  two targets, revisions and reference counts up to 2, one pin, which is what
  ABA, a commit of two images of which one is stale, and the limits need.
* `copies`: *Copying*, two lists of one copy over two buffers in one memory,
  lengths 1 and 2 in a memory of 2: overlapping buffers, copies within one
  buffer. *Reserving*, two memories, two fences and a buffer for host calls, with
  requests of one dword and of three; *Clearing*, a recording of four commands:
  in both, addresses run out, so that every reservation is also refused.
  *Submitting*, an image over the buffers' memory and two values.
* `plans`: an artifact of each stage, of which the device holds two, two plans,
  one slot, one buffer of one or two dwords, a target and a texture over one
  memory, and the recording that brings both into the states a plan asks for.
  Two plans share everything or nothing; one slot makes both stages ask for
  the same buffer, or one for a buffer and one for a texture.
* `clears`: widths and heights on both sides of 16, 32, 48 and of 8, 16,
  padded rows or not, packets that run out early or not.
* `presentation`: one device, two commands, two vertical blanks, two frame
  numbers; a second size, which is refused. The tile check is at the code's
  constants.
* `vulkan`: twelve scenes of one to six objects. Images are 2x2, buffers three
  dwords, packets two dwords of one row, so that a rectangle takes several pieces
  and a copy straddles rows; up to three commands (the third, a failure, the
  first two stay done); counters with one left or plenty, so that each step of a
  transfer is the first to be refused.
* `opengl`: ten scenes; two texture units, two framebuffers over one image, with
  depth, with a query, with a program.
* `pipelines`: programs of four sizes on each side of the two limits (768 dwords
  for a program, 320 for a packet), two linker tables, three blocks for two
  stages, so that a rebinding may find only one. Draws: `Short` is 8, so
  words have six bits, products wrap at 2^12 and dword offsets at 2^10; strides
  and counts (up to 16) whose products with a vertex number reach past both, so
  that the checked end of a draw wraps too; instance and vertex rates, one
  location, a buffer of four dwords. A buffer and a location together are at
  most an eighth of a word, here as in the code, where both are bounded by the
  2^18 bytes of the heap and eight attributes: no sum wraps that does not at 32
  bits.

Deadlock is checked except in `ClearTiling`, whose behaviours are single calls
that end, and in `opengl`, where a context that was destroyed stays so. Symmetry is used only in runs without liveness.

Fairness. `bridge` assumes that a call that was entered goes on (the driver's
calls return, the loop is bounded), that the GPU executes what it accepted, and
that the caller of a pending submission keeps calling `wait`, which is all the
header leaves it to do.
It does not assume that the driver accepts. `presentation`
assumes only that the caller's thread runs (`WF_vars(InCall)`): `CallsReturn`
holds with a display that never flips, because the drain is bounded.

Each property has a mutant in `PROJECT.json`: a definition of the model with a
plausible bug (the operators marked "mutant", or named next to the definition
they replace), under which its run fails.

## 4. Findings

* **A clear whose last band is a single row of 32 pixels or more fails**
  (`openagc_graphics.c:246`). The tiling sends a one-row window as one run
  whatever its width, the packet takes sixteen dwords. `execute_host` of a 32x1
  scissor is refused; of a 32x9 one, it is refused after the first eight rows
  were written, and again at every retry. `EveryScissorIsTiled` states the
  documented claim; `PaintsItsScissor` (which holds) says that these are
  exactly the refused clears.
* **A draw of elements may start 2^32 elements past its index buffer**
  (`openagc_opengl.c:1887`). The byte offset, divided by the width of an index,
  is cut to 32 bits before it is compared with the buffer, so an offset of
  2^32 elements draws from the start. `ElementsStartAtTheirOffset` states what
  the documentation says of indices that do not fit.
* **Not a run, noted while modelling:** `docs/architecture.md:134` lists five
  supported image states; `supported_state` accepts a sixth,
  `DEPTH_TARGET/GRAPHICS`, and depth images reach it. `Graphics` has all six.
* Behaviours that contradict no document but deserve a look; the properties
  name them as their exceptions, or they are outside what the properties say:
  - `apply_host_state` releases an image to copies before `execute_host` has
    written its clears, so a copy in between reads what the clear replaces;
  - out of revisions, `image_copy_rect` returns OK with nothing copied when the
    destination cannot be taken (`TransfersRestore`);
  - after a submission that is refused for want of sequence numbers the lists go
    on naming its objects, and an image destroyed then is half gone
    (`WrappersAreLive`, `ContextCanEnd`);
  - a copy and a fill that become one packet accept ranges that overlap, which
    the copy alone does not (`SubmissionIsItsCommands`);
  - a Vulkan command buffer that failed halfway stays executable and starts from
    its first command again; destroying one inside a pass leaves the pass begun
    for ever (`PassesAreInside`);
  - a snapshot of 321 to 768 dwords is accepted and bound, and fits no packet:
    every submission of it answers `CAPACITY`;
  - `get_psbc_code_vas` and an explicit recording still name the blocks of the
    code that was bound before a rebinding failed; `ProgramsHold` is about what a
    submission or a bind sends, which looks at the code first.

## 5. Proofs

All theorems are for arbitrary values of the constants, under the assumptions
declared with them (`BlocksAssumption`, `BoundsAssumption`, `RecorderAssumption`
and so on: disjoint kinds, natural bounds, a null that is no object), which TLC
evaluates in the runs.

* **Ps5GpuProofs.** `Inv` = types, and the bridge's phases (`BridgeInv`), the
  lent blocks are exactly the pending submission's (`LentInv`), at most one
  submission is in flight and it is the pending one (`FlightInv`), and no line
  of a lent block is dirty while memory holds the packets, and the marker 0 or
  its sequence according to whether the end-of-pipe event happened
  (`MemoryInv`). The last is what the properties lack to be inductive: a poll
  that reads the sequence proves completion only because no stale or dirty line
  can hold it. From it: `InFlightIsRetained`, `MarkerIsOwn`, `NoModuleLeaks`,
  `CompletionIsReal`, `PixelsAreVisible`, and that the bridge implements
  `MemoryLease`.
* **PlacementProofs, the heap.** `Inv` = types, the table tiles the heap (`Tiles`), used
  blocks are those of the live objects. The work is in three lemmas about the
  array after a split and the two merges. From it: the table never outgrows
  its array, no block leaks, the heap implements `HeapMap`, objects are
  disjoint. `HoleInv` adds that every block is aligned (`Aligned`) and that no
  two neighbours are free (`Joined`), which a free keeps only because it merges
  in both directions; from it, `HoleIsFound`: the rounded request fits the hole
  because the hole's ends are multiples of the alignment.
* **PlacementProofs, the objects.** Every step of `Placement` is one of the heap or leaves it
  alone (`HeapUnderneath`), so the heap's theorems hold under it. `PInv` = types,
  who holds each block at each position of a call (`Accounted`), that what is
  bound lies inside its memory and apart from the rest (`LiesInside`), and that
  spans are bindings, without which a claim would compare with the wrong
  neighbours. From it: `NothingIsOrphaned`, `SpansAreBindings`, and that
  placement implements `HeapMap` for extents (`ExtentsSpec`).
* **ShaderPlansProofs, the images.** `Inv` = types, exact counts, nothing dangles, a bound
  image is in its memory (`Homed`), no shadow is ahead of its image
  (`NotAhead`), and equal revisions mean equal states. `NotAhead` is what makes
  revisions decisive. From it: the properties of the run, and
  that recordings implement `Transactions`.
* **ShaderPlansProofs, the queue.** Every step of the queue keeps `Graphics`'
  invariant (`ImagesBesideTheQueue`). `CInv` adds types, that a bound buffer
  lies in its memory, exact uses, valid records, and that all the address ranges
  anyone holds are apart and lie below the next one to be handed out (`Packed`),
  the two that a half failed store keeps included. From it: `UsesAreCounted`,
  `RecordsStayValid`, `AddressesAreFresh`; `SignalsStay` and
  `SubmissionsSpareImages` step by step.
* **ShaderPlansProofs, the plans.** `PlansInv` = the invariant of the queue, types, exact
  references and whole plans. The argument is a circle cut open by the counts:
  they are exact, so what a plan refers to has a count above zero; so no call
  destroys or moves it; so plans stay whole, and give back exactly what they
  took. From it: the three properties of the run, and that images and queue keep
  their own guarantees while plans pin and lock.
* **VideoOutProofs.** `VInv` = types, a view shows the frame as it was taken
  (`ViewInv`), all four resources are held or none (`OwnerInv`), flips
  alternate (`FlipInv`), what is shown or queued is the same in cache and
  memory (`SettledInv`), and how far a present is (`CallInv`). `FlipInv` is the
  heart: after the drain the buffer on the screen is the *other* one. From it:
  `VTypeOK`, `ScreenShowsFrame`, `ScanoutIsMapped`, and that nothing is leaked.
  About the layout: seven bits of each coordinate reach a word, ten of its bits
  are one of them and four tell two apart, so that both coordinates can be read
  off one by one (`IntraBits`, `SameIntra`), and any word is written by solving
  for them (`EveryWord`). With the division into blocks this gives
  `PixelsKeepApart`, and `PixelsHaveTheirWords` for any two pixels, where the
  buffer has room for the blocks of the screen (`TilesAssumption`).
* **PipelineProofs, programs and draws.** `ProgramsInv` = each block is free, the pipeline's or
  another's and holds some code (`HeapType`), the program is what is kept encodes
  (`ProgramIsCurrent`), bound code lies at the addresses of every later program,
  written for its stage (`CodeIsPlaced`), and the pipeline's blocks are those of
  its code (`BlocksAreHeld`). `CodeIsPlaced` is what `BoundCodeIsRun` lacks: it
  speaks of the addresses that are kept, also while no program is recorded.
  From it: `ProgramsHold`. For `Draws`, that an accepted draw reads what it
  names and nothing past the buffer (`DrawsReadTheirVertices`) although its end
  is checked with a product that wraps: if the last vertex of a draw lay behind
  a wrap, some vertex on the way would be the first past the buffer, and less
  than a stride past it, where nothing wraps, and its own fetch is refused. The
  induction is over the vertices (`LeastNumber`), the arithmetic in lemmas about
  products and remainders. A buffer of at most an eighth of a word is all it
  needs of the integers. Proving it showed what an earlier form of the property
  had wrong: a draw whose attributes are all per instance may be accepted with
  an end that wraps. It is harmless, since no vertex is then read, and the
  property now asks for a whole vertex only of an attribute that is per vertex.
* **PipelineProofs, the clears.** `Tiling` = types, and while a clear runs, that
  what is painted is exactly the bands that are done (`Above`) and the columns
  done in the current one (`Beside`), which both end at whole bands and columns
  (`InOrder`). A window then adds a rectangle beside these; that it touches no
  dword again is that two pixels have one address only if they are one pixel,
  since rows lie a pitch apart and no window leaves its row. A packet is refused
  only as a run wider than a column, so only for a window of one row: the last
  band, and only where it starts with a grid (`Lonely`). From it:
  `PaintsItsScissor`, for any width of a column and any number of columns and
  rows above one (with one row a window every band would be a run, and the
  refusals would be others), where TLC has the code's constants.
* **PassesProofs.** A call of the front end is an operator from one front end to
  the next, and this module says of each what it keeps. `FrontInv(f)` = types,
  that every count of `f` is the number of objects it stands for (`Counted`),
  that what objects name exists (`Sound`), that passes hold what they should and
  no two run one query (`PassesHold`), and that an image whose destruction
  went half way is named by nothing else (`HalfGone`), which is why the wrappers
  may go on destroying by counts. Transfers only change bytes, states and the
  lists of unfinished work (`Carries`); the other calls also change one object's
  bindings, an object more or an object less (`Leaves`, `Goes`, `Opens`), and
  the counts follow by lemmas about `One` and the cardinality of one name more.
  The second half says what a transfer does to the dwords (`Restores`). The
  loops of the code over pieces are folds in the model, and a fold is recovered
  as a run, one value per step (`PiecesRun`), about which one can reason by
  induction on its length. The pieces `image_copy_rect` cuts cover the rectangle
  and nothing else (`PiecesCover`, by division of the index of a piece by the
  pieces of a row), and a fill in packets followed by the rest through the
  staging buffer is the whole range. That an image can be put back into the
  state it was taken from needs that each image is in a state its usage allows
  (`Proper`), since the code checks the usage on the way back too.
* **CommandsProofs.** `Inv` = types, `FrontInv` of the front end, the device's
  own counts (`Counts`), what views, descriptor sets and command buffers name
  (`ViewsLive`, `SetsLive`, `BuffersLive`), that an object that is not there is
  blank (`Blank`), that without a device there are no children, and
  `PassesAreInside`. The properties need each other: a descriptor set may be
  destroyed by giving back what it holds only because its counts are right, and
  what it holds is there only because an object with a count is not destroyed;
  a pass may be destroyed because none is begun but inside a command buffer, and
  `Blank` is what lets a new wrapper start from nothing. From it:
  `ChildrenAreCounted`, `WrappersAreLive`, `PassesAreInside`. `SignalsFollowWork`
  comes from the same case split: one step only, the submission, changes the
  value of a semaphore, and a chain of calls whose result is OK is one in which
  each was (`Submission`). For `TransfersRestore` and `SubmissionIsItsCommands` the
  front end is also at rest between calls (`AtRest`): images are `Proper`, and
  the copy list is empty while there are numbers for submissions (`Settled`).
  The first then holds of each kind of command by the lemmas of `PassesProofs`,
  for any range, rectangle, staging and packet size. For the second, the composite
  packet is compared with the copy and the fill it stands for: with numbers left
  and nothing listed the two leave the same front end in every field, not only in
  bytes and states (`JoinedIsBoth`), and here it matters that the ranges do not
  overlap. The loop of `queue_submit_commands` and the commands in turn are then
  two runs side by side; after `k` commands they agree, or the former is one
  ahead because it has just joined two (`StepsAlike`), and a list never ends
  there. Proving them asked for two things of the model. Some
  CASE expressions of `Transfers` and `Passes` had arms that overlap, so that
  TLA+ does not say which is taken; they are now nested IFs in the order of the
  code. And the assumption on the constants did not say that wrappers are
  finitely many and not null, that a view is no buffer or sampler, and that a
  recorded command is of one of the recorded kinds with offsets and sizes that
  are naturals (`CommandType`, the fields of `openagc_vk_command`); it does now.
* **BindingsProofs.** `Inv` = types, `FrontInv`, exact counts of children and
  attachments (`ContextCounts`), what each binding point names (`Bounds`), and
  that a framebuffer and its pass agree (`FramesAreTheirPasses`), on which the
  rest hangs: a binding point counts nothing, so what a framebuffer draws to is
  kept alive only by the count of its pass. That the context can end
  (`ContextCanEnd`) needs one thing more (`Bare`): what is not there holds
  nothing, and a pipeline's layout has one reference, its own, so that nothing
  is refused for the sake of what is gone. The destruction is a fold over sets
  of objects, and each stage is an induction over the number of objects left:
  whatever comes next is not refused, and those of the stages before do not come
  back. The order of the stages is the order of the counts: passes before pipelines and images, images before
  buffers, buffers before memories.

The assumptions are those the code gives: kinds of objects are disjoint, null is
none of them, the resources of `Placement`, the buffers of command buffers of
`CopyQueue`, the objects of `Passes` and `Commands` and the framebuffers of
`Bindings` are finitely many, a span or record list has at least one entry, a
window of a clear has more than one row and column at most, the frame has room
for the blocks of the screen, and in `Draws` the bound above.

Type invariants of the bridge, the heap, the recordings and the video output are
proved and not listed among a run's properties. Only model-checked: liveness
(`AcceptedWorkCompletes`, `CallsReturn`), since it rests on fairness and so on
ENABLED, which the prover cannot expand.

## 6. What is abstracted

Argument checks that depend on the arguments alone; structure sizes and
versions; host allocation failures, except where something was acquired before;
packet words (a packet is its effect); snapshots that the `get_*` calls return;
colours and blending; hashes, envelopes, formats and varyings of artifacts; the
bytes of a buffer in `Ps5Gpu` and `VideoOut` (one value); the size of a scissor
in `Graphics` and `CopyQueue` (`ClearTiling` has it); the values of registers;
seven of the eight slots of a descriptor set and six of the texture units and
uniforms, which are alike.

Not modelled. The policy stubs (`openagc_ps5_policy.c`) refuse every call after
looking at its arguments: they have no state, and what one answers is its one
line. The packet encoders and decoders and the register headers are functions
from numbers to words, tested word by word in the repository; a model would be
the table again. The metadata parser and SHA-256 are functions over bytes.
Tools, payloads and examples run once on a device. Of the modelled files, the
getters, the timestamp commands, which check and change nothing, and
`openagc_frontend_memory_write` and `_read`, a caller's own access to bytes that
its objects may share, have no definition.

## 7. Plan

Every safety property of a run is a theorem. Next in line for a model are the
metadata parser, should it come to keep state, and the blending of a rectangle
(`draw_rect`), should it be split over threads.
