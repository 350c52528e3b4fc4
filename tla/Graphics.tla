------------------------------ MODULE Graphics ------------------------------
(***************************************************************************)
(* Images and graphics command buffers (openagc_graphics.c).  A recording  *)
(* keeps a shadow of every image it names: the state, owner and revision   *)
(* it found, and the state its commands lead to.  apply_host_state checks  *)
(* every shadow against its image and commits all of them, or none.        *)
(*                                                                         *)
(* The owner of an image follows from its state, as only the six pairs of  *)
(* supported_state are ever stored; State stands for the pair.             *)
(***************************************************************************)
EXTENDS Memories

CONSTANTS
  Image,        \* openagc_graphics_image objects
  Color,        \* those created with the color target usage bit
  Sampled,      \* ... with the sampled bit
  Depth,        \* ... with the depth stencil bit (and no other)
  Recording,    \* openagc_graphics_command_buffer objects
  MaxImages,    \* OPENAGC_GRAPHICS_MAX_IMAGES
  MaxCommands,  \* desc.max_commands
  CountMax,     \* UINT32_MAX, of reference counts
  RevisionMax,  \* UINT64_MAX, of image.state_revision
  Targets,      \* states the caller asks for
  Footprints,   \* image footprints the caller asks for
  Nothing       \* a null pointer

State == {"UNDEFINED", "COLOR_TARGET", "DEPTH_TARGET", "SHADER_READ",
          "TRANSFER_SOURCE", "TRANSFER_DESTINATION"}

ASSUME GraphicsAssumption ==
  /\ Image = Color \cup Sampled \cup Depth /\ Depth \cap (Color \cup Sampled) = {}
  /\ Nothing \notin Image \cup Memory
  /\ IsFiniteSet(Image) /\ IsFiniteSet(Recording)
  /\ MaxImages \in Nat /\ MaxCommands \in Nat /\ CountMax \in Nat /\ RevisionMax \in Nat
  /\ Targets \subseteq State /\ Footprints \subseteq Nat \ {0}

VARIABLES
  footprint,   \* footprint_bytes of each image, 0 if it does not exist
  home,        \* image.memory
  where,       \* image.memory_offset
  state,       \* image.state and image.owner
  revision,    \* image.state_revision
  references,  \* image.command_references
  pins,        \* image.pipeline_references
  phase,       \* command_buffer.state, or "absent"
  commands,    \* command_buffer.command_count
  clears,      \* the kinds of clears among the commands
  target,      \* command_buffer.target
  depthTarget, \* command_buffer.depth_target
  scissor,     \* command_buffer.scissor_valid
  held,        \* the images that have a shadow
  shadow       \* ... and that shadow

images == <<footprint, home, where, state, revision, references, pins>>
stream == <<commands, clears, target, depthTarget, scissor>>
gvars == <<memories, images, phase, stream, held, shadow>>

Shadow == [initial : 0 .. RevisionMax, from : State, to : State, applied : 0 .. RevisionMax]
NoShadow == [initial |-> 0, from |-> "UNDEFINED", to |-> "UNDEFINED", applied |-> 0]

Exists == {i \in Image : footprint[i] # 0}

GInit ==
  /\ InitMemories
  /\ footprint = [i \in Image |-> 0]
  /\ home = [i \in Image |-> Nothing] /\ where = [i \in Image |-> 0]
  /\ state = [i \in Image |-> "UNDEFINED"] /\ revision = [i \in Image |-> 0]
  /\ references = [i \in Image |-> 0] /\ pins = [i \in Image |-> 0]
  /\ phase = [r \in Recording |-> "absent"]
  /\ commands = [r \in Recording |-> 0] /\ clears = [r \in Recording |-> {}]
  /\ target = [r \in Recording |-> Nothing] /\ depthTarget = [r \in Recording |-> Nothing]
  /\ scissor = [r \in Recording |-> FALSE]
  /\ held = [r \in Recording |-> {}]
  /\ shadow = [r \in Recording |-> [i \in Image |-> NoShadow]]

-----------------------------------------------------------------------------
(* Images.                                                                 *)

CreateImage(i, n) ==
  /\ i \notin Exists /\ Cardinality(Exists) < MaxImages
  /\ footprint' = [footprint EXCEPT ![i] = n]
  /\ UNCHANGED <<memories, home, where, state, revision, references, pins,
                 phase, stream, held, shadow>>

\* An image is bound once; nothing keeps it off the bytes of another one.
BindImage(i, m, offset) ==
  /\ i \in Exists /\ m \in Allocated /\ home[i] = Nothing
  /\ offset + footprint[i] <= size[m]
  /\ home' = [home EXCEPT ![i] = m]
  /\ where' = [where EXCEPT ![i] = offset]
  /\ boundImages' = [boundImages EXCEPT ![m] = @ + 1]
  /\ UNCHANGED <<size, va, nextVa, spent, boundBuffers, footprint, state, revision,
                 references, pins, phase, stream, held, shadow>>

\* Mutant: only pipeline plans keep an image.
MayDestroyRecorded(i) == i \in Exists /\ pins[i] = 0

\* image_destroy succeeds; otherwise BUSY.
MayDestroy(i) == i \in Exists /\ references[i] = 0 /\ pins[i] = 0

DestroyImage(i) ==
  /\ MayDestroy(i)
  /\ boundImages' = [m \in Memory |-> IF m = home[i] THEN boundImages[m] - 1
                                      ELSE boundImages[m]]
  /\ footprint' = [footprint EXCEPT ![i] = 0]
  /\ home' = [home EXCEPT ![i] = Nothing]
  /\ where' = [where EXCEPT ![i] = 0]
  /\ state' = [state EXCEPT ![i] = "UNDEFINED"]
  /\ revision' = [revision EXCEPT ![i] = 0]
  /\ UNCHANGED <<size, va, nextVa, spent, boundBuffers, references, pins,
                 phase, stream, held, shadow>>

\* A pipeline plan takes the image as its render target or as a texture.
Pin(i) ==
  /\ i \in Exists /\ home[i] # Nothing /\ pins[i] # CountMax
  /\ \/ i \in Color /\ state[i] = "COLOR_TARGET"
     \/ i \in Sampled /\ state[i] = "SHADER_READ"
  /\ pins' = [pins EXCEPT ![i] = @ + 1]
  /\ UNCHANGED <<memories, footprint, home, where, state, revision, references,
                 phase, stream, held, shadow>>

Unpin(i) ==
  /\ pins[i] # 0
  /\ pins' = [pins EXCEPT ![i] = @ - 1]
  /\ UNCHANGED <<memories, footprint, home, where, state, revision, references,
                 phase, stream, held, shadow>>

-----------------------------------------------------------------------------
(* Recordings.                                                             *)

\* release_images, on reset and on destruction.
Released(r) ==
  /\ references' = [i \in Image |-> IF i \in held[r] THEN references[i] - 1
                                    ELSE references[i]]
  /\ held' = [held EXCEPT ![r] = {}]
  /\ shadow' = [shadow EXCEPT ![r] = [i \in Image |-> NoShadow]]
  /\ commands' = [commands EXCEPT ![r] = 0]
  /\ clears' = [clears EXCEPT ![r] = {}]
  /\ target' = [target EXCEPT ![r] = Nothing]
  /\ depthTarget' = [depthTarget EXCEPT ![r] = Nothing]
  /\ scissor' = [scissor EXCEPT ![r] = FALSE]
  /\ UNCHANGED <<memories, footprint, home, where, state, revision, pins>>

Unchanging == UNCHANGED <<memories, images, stream, held, shadow>>

CreateRecording(r) ==
  /\ phase[r] = "absent" /\ phase' = [phase EXCEPT ![r] = "INITIAL"]
  /\ Unchanging

DestroyRecording(r) ==
  /\ phase[r] # "absent" /\ phase' = [phase EXCEPT ![r] = "absent"]
  /\ Released(r)

Reset(r) ==
  /\ phase[r] \notin {"absent", "INITIAL"}
  /\ phase' = [phase EXCEPT ![r] = "INITIAL"]
  /\ Released(r)

Begin(r) ==
  /\ phase[r] = "INITIAL" /\ phase' = [phase EXCEPT ![r] = "RECORDING"]
  /\ Unchanging

End(r) ==
  /\ phase[r] = "RECORDING" /\ commands[r] # 0
  /\ phase' = [phase EXCEPT ![r] = "EXECUTABLE"]
  /\ Unchanging

\* The state an image has at this point of a recording.
CurrentState(r, i) == IF i \in held[r] THEN shadow[r][i].to ELSE state[i]

HasRoom(r) == phase[r] = "RECORDING" /\ commands[r] # MaxCommands

\* Mutant: an image that has a shadow is retained again.
RetainAgain(r, i) ==
  /\ Cardinality(held[r]) # MaxCommands /\ references[i] # CountMax
  /\ references' = [references EXCEPT ![i] = @ + 1]
  /\ held' = [held EXCEPT ![r] = @ \cup {i}]

\* The reference that retain_image takes when it makes a shadow.
Retain(r, i) ==
  \/ i \in held[r] /\ UNCHANGED <<references, held>>
  \/ /\ i \notin held[r]
     /\ Cardinality(held[r]) # MaxCommands /\ references[i] # CountMax
     /\ references' = [references EXCEPT ![i] = @ + 1]
     /\ held' = [held EXCEPT ![r] = @ \cup {i}]

\* The shadow after a command that leaves the image in state s.
Shadowed(r, i, s) ==
  IF i \in held[r] THEN [shadow[r][i] EXCEPT !.to = s]
  ELSE [initial |-> revision[i], from |-> state[i], to |-> s, applied |-> 0]

\* A command of recording r that names image i and leaves it in state s.
Record(r, i, s) ==
  /\ HasRoom(r) /\ i \in Exists /\ home[i] # Nothing
  /\ Retain(r, i)
  /\ shadow' = [shadow EXCEPT ![r][i] = Shadowed(r, i, s)]
  /\ commands' = [commands EXCEPT ![r] = @ + 1]
  /\ UNCHANGED <<memories, footprint, home, where, state, revision, pins, phase, clears>>

\* required_usage: the images that may be put in state s.
Usable(s) == CASE s = "COLOR_TARGET" -> Color
               [] s = "SHADER_READ"  -> Sampled
               [] s = "DEPTH_TARGET" -> Depth
               [] OTHER              -> Image

Transition(r, i, s) ==
  /\ s # CurrentState(r, i) /\ i \in Usable(s)
  /\ Record(r, i, s)
  /\ UNCHANGED <<target, depthTarget, scissor>>

BindColorTarget(r, i) ==
  /\ i \in Color /\ target[r] = Nothing /\ CurrentState(r, i) = "COLOR_TARGET"
  /\ Record(r, i, "COLOR_TARGET")
  /\ target' = [target EXCEPT ![r] = i]
  /\ scissor' = [scissor EXCEPT ![r] = FALSE]
  /\ UNCHANGED depthTarget

BindDepthTarget(r, i) ==
  /\ i \in Depth /\ depthTarget[r] = Nothing /\ CurrentState(r, i) = "DEPTH_TARGET"
  /\ Record(r, i, "DEPTH_TARGET")
  /\ depthTarget' = [depthTarget EXCEPT ![r] = i]
  /\ scissor' = [scissor EXCEPT ![r] = FALSE]
  /\ UNCHANGED target

\* The target and the depth target are where a clear needs them.
TargetReady(r) == CurrentState(r, target[r]) = "COLOR_TARGET"
DepthReady(r) == CurrentState(r, depthTarget[r]) = "DEPTH_TARGET"

SetScissor(r) ==
  /\ HasRoom(r) /\ <<target[r], depthTarget[r]>> # <<Nothing, Nothing>>
  /\ target[r] # Nothing => TargetReady(r)
  /\ depthTarget[r] # Nothing => DepthReady(r)
  /\ scissor' = [scissor EXCEPT ![r] = TRUE]
  /\ commands' = [commands EXCEPT ![r] = @ + 1]
  /\ UNCHANGED <<memories, images, phase, clears, target, depthTarget, held, shadow>>

\* clear_color and clear_depth.
Clear(r, kind) ==
  /\ HasRoom(r) /\ scissor[r]
  /\ \/ kind = "color" /\ target[r] # Nothing /\ TargetReady(r)
     \/ kind = "depth" /\ depthTarget[r] # Nothing /\ DepthReady(r)
  /\ clears' = [clears EXCEPT ![r] = @ \cup {kind}]
  /\ commands' = [commands EXCEPT ![r] = @ + 1]
  /\ UNCHANGED <<memories, images, phase, target, depthTarget, scissor, held, shadow>>

-----------------------------------------------------------------------------
(* apply_host_state and execute_host.                                      *)

\* Mutant: a shadow is compared by its state only.
IsCurrentState(r, i) == state[i] = shadow[r][i].from /\ revision[i] # RevisionMax

\* The image is as the recording found it, and its revision can grow.
IsCurrent(r, i) ==
  /\ revision[i] = shadow[r][i].initial /\ state[i] = shadow[r][i].from
  /\ revision[i] # RevisionMax

\* Mutant: a commit leaves the revision as it is.
SameRevision(i) == revision[i]

NextRevision(i) == revision[i] + 1

Apply(r) ==
  /\ phase[r] = "EXECUTABLE"
  /\ \A i \in held[r] : IsCurrent(r, i)
  /\ state' = [i \in Image |-> IF i \in held[r] THEN shadow[r][i].to ELSE state[i]]
  /\ revision' = [i \in Image |-> IF i \in held[r] THEN NextRevision(i) ELSE revision[i]]
  /\ shadow' = [shadow EXCEPT ![r] = [i \in Image |->
                  IF i \in held[r] THEN [shadow[r][i] EXCEPT !.applied = NextRevision(i)]
                  ELSE shadow[r][i]]]
  /\ phase' = [phase EXCEPT ![r] = "HOST_APPLIED"]
  /\ UNCHANGED <<memories, footprint, home, where, references, pins, stream, held>>

\* execute_host finds every image as its own apply left it, and has a clear.
MayExecute(r) ==
  /\ phase[r] = "HOST_APPLIED" /\ clears[r] # {}
  /\ \A i \in held[r] : /\ revision[i] = shadow[r][i].applied
                        /\ state[i] = shadow[r][i].to /\ home[i] # Nothing

\* The clears it replays write image bytes, in WRITE_DATA packets; the first of
\* all packets takes an address for their marker.
Packets ==
  /\ UNCHANGED nextVa \/ (MayReserve(1) /\ nextVa' = nextVa + Span(1))
  /\ UNCHANGED <<size, va, spent, boundBuffers, boundImages, images, stream, held, shadow>>

Execute(r) ==
  /\ MayExecute(r) /\ Packets
  /\ phase' = [phase EXCEPT ![r] = "HOST_EXECUTED"]

\* A packet is refused: the recording stays as it is, the packets before are done.
ExecuteFails(r) == MayExecute(r) /\ Packets /\ UNCHANGED phase

-----------------------------------------------------------------------------

AllocateMemory(m, n) == Allocate(m, n) /\ UNCHANGED <<images, phase, stream, held, shadow>>
DestroyMemory(m) == Relinquish(m) /\ UNCHANGED <<images, phase, stream, held, shadow>>

MemoryStep ==
  \E m \in Memory : DestroyMemory(m) \/ \E n \in Sizes : AllocateMemory(m, n)

Offset == UNION {0 .. n : n \in Sizes}

ImageStep ==
  \E i \in Image :
    \/ DestroyImage(i) \/ Pin(i) \/ Unpin(i)
    \/ \E n \in Footprints : CreateImage(i, n)
    \/ \E m \in Memory, offset \in Offset : BindImage(i, m, offset)

RecordStep ==
  \E r \in Recording :
    \/ SetScissor(r) \/ \E kind \in {"color", "depth"} : Clear(r, kind)
    \/ \E i \in Image : \/ BindColorTarget(r, i) \/ BindDepthTarget(r, i)
                        \/ \E s \in Targets : Transition(r, i, s)

RecordingStep ==
  \E r \in Recording :
    CreateRecording(r) \/ DestroyRecording(r) \/ Begin(r) \/ End(r) \/ Reset(r)

GNext ==
  \/ MemoryStep \/ ImageStep \/ RecordStep \/ RecordingStep
  \/ \E r \in Recording : Apply(r) \/ Execute(r) \/ ExecuteFails(r)

GSpec == GInit /\ [][GNext]_gvars

-----------------------------------------------------------------------------

\* The states that an image's usage bits declare.
Declared(i) == State \ UNION {IF i \in Color THEN {} ELSE {"COLOR_TARGET"},
                              IF i \in Sampled THEN {} ELSE {"SHADER_READ"},
                              IF i \in Depth THEN {} ELSE {"DEPTH_TARGET"}}

\* Every variable has its type; an image is only ever in a state, and a
\* recording only ever leaves it in a state, that its usage bits declare.
GTypeOK ==
  /\ size \in [Memory -> Nat] /\ va \in [Memory -> Nat] /\ nextVa \in Nat /\ spent \in Int
  /\ boundBuffers \in [Memory -> Nat] /\ boundImages \in [Memory -> Nat]
  /\ footprint \in [Image -> Nat] /\ where \in [Image -> Nat]
  /\ home \in [Image -> Memory \cup {Nothing}]
  /\ state \in [Image -> State] /\ \A i \in Image : state[i] \in Declared(i)
  /\ revision \in [Image -> 0 .. RevisionMax]
  /\ references \in [Image -> 0 .. CountMax] /\ pins \in [Image -> 0 .. CountMax]
  /\ phase \in [Recording -> {"absent", "INITIAL", "RECORDING", "EXECUTABLE",
                              "HOST_APPLIED", "HOST_EXECUTED"}]
  /\ commands \in [Recording -> 0 .. MaxCommands]
  /\ clears \in [Recording -> SUBSET {"color", "depth"}]
  /\ target \in [Recording -> Color \cup {Nothing}]
  /\ depthTarget \in [Recording -> Depth \cup {Nothing}]
  /\ scissor \in [Recording -> BOOLEAN]
  /\ held \in [Recording -> SUBSET Image]
  /\ shadow \in [Recording -> [Image -> Shadow]]
  /\ \A r \in Recording, i \in Image : shadow[r][i].to \in Declared(i)

Keepers(i) == {r \in Recording : i \in held[r]}
Guests(m) == {i \in Image : home[i] = m}

\* The reference counts are what they count: an image's command references are
\* the recordings that have a shadow of it, a memory's bound images those bound.
CountersAreExact ==
  /\ \A i \in Image : references[i] = Cardinality(Keepers(i))
  /\ \A m \in Memory : boundImages[m] = Cardinality(Guests(m))

\* Nothing dangles: what a recording or a pipeline plan names still exists, in a
\* memory that is still allocated and large enough, and its targets are held.
NothingDangles ==
  /\ \A r \in Recording : held[r] \subseteq {i \in Exists : home[i] # Nothing}
  /\ \A r \in Recording : {target[r], depthTarget[r]} \subseteq held[r] \cup {Nothing}
  /\ \A i \in Image : home[i] # Nothing => where[i] + footprint[i] <= size[home[i]]
  /\ \A i \in Image : pins[i] # 0 => i \in Exists /\ home[i] # Nothing

\* The revision a shadow is current at: of the observation, then of the commit.
IsApplied(r) == phase[r] \in {"HOST_APPLIED", "HOST_EXECUTED"}
ShadowRevision(r, i) == IF IsApplied(r) THEN shadow[r][i].applied ELSE shadow[r][i].initial

\* Recordings are transactions: all of the planned states are committed or
\* none, and only if no other commit came in between, ABA included.
Recordings == INSTANCE Transactions
  WITH Fresh <- "UNDEFINED", value <- state, seen <- held,
       current <- [r \in Recording |->
                    {i \in held[r] : revision[i] = ShadowRevision(r, i)}],
       plan <- [r \in Recording |-> [i \in Image |-> shadow[r][i].to]],
       stage <- [r \in Recording |->
                  IF phase[r] = "HOST_APPLIED" THEN "committed"
                  ELSE IF phase[r] = "HOST_EXECUTED" THEN "finished" ELSE "open"]
TransactionsSpec == Recordings!Spec

\* A revision stands for a state: the comparison of states in apply_host_state
\* never decides, so the revisions alone catch every conflicting commit.
RevisionDecides ==
  \A r \in Recording : \A i \in held[r] :
    revision[i] = ShadowRevision(r, i) =>
      state[i] = IF IsApplied(r) THEN shadow[r][i].to ELSE shadow[r][i].from
=============================================================================
