------------------------- MODULE ShaderPlansProofs -------------------------
(***************************************************************************)
(* Machine-checked safety of images, recordings, the host copy queue and   *)
(* the shader artifacts and pipeline plans beside it, for any numbers of   *)
(* them and any limits.                                                    *)
(*                                                                         *)
(* First the images: what is counted and named is exact and alive, and the *)
(* revision numbers make recordings transactions.  The invariant adds that *)
(* only images that exist are bound, and that no shadow is ahead of its    *)
(* image's revision.                                                       *)
(*                                                                         *)
(* Then the queue: uses are counted, so that a buffer in a recorded copy   *)
(* cannot move; every address is handed out once; and a submission writes  *)
(* no image that is not its own to write.                                  *)
(*                                                                         *)
(* Then the plans.  A plan counts itself in with everything it holds; the  *)
(* counts are exact, so what it holds can neither go nor move; and the     *)
(* queue and the images keep all their guarantees beside the plans.        *)
(***************************************************************************)
EXTENDS ShaderPlans, FiniteSetTheorems, SequenceTheorems, WellFoundedInduction, TLAPS

-----------------------------------------------------------------------------
(* Images and recordings.                                                  *)

Homed == \A i \in Image : home[i] # Nothing => i \in Exists

NotAhead == \A r \in Recording : \A i \in held[r] : ShadowRevision(r, i) <= revision[i]

Inv ==
  GTypeOK /\ CountersAreExact /\ NothingDangles /\ Homed /\ NotAhead /\ RevisionDecides

-----------------------------------------------------------------------------
(* The next-state relation, by what a step does to images and shadows.     *)

\* A command that names an image.
Recorded ==
  \E r \in Recording, i \in Image, s \in State :
    /\ i \in Usable(s) /\ Record(r, i, s)
    /\ \/ UNCHANGED <<target, depthTarget>>
       \/ i \in Color /\ target' = [target EXCEPT ![r] = i] /\ UNCHANGED depthTarget
       \/ i \in Depth /\ depthTarget' = [depthTarget EXCEPT ![r] = i] /\ UNCHANGED target
    /\ scissor' \in [Recording -> BOOLEAN]

\* A reset or destroyed recording.
Dropped ==
  \E r \in Recording, p \in {"absent", "INITIAL"} :
    phase' = [phase EXCEPT ![r] = p] /\ Released(r)

\* A step of a recording that names no new image and commits nothing.
Progress ==
  /\ UNCHANGED <<memories, images, target, depthTarget, held, shadow>>
  /\ \E r \in Recording, p \in {"INITIAL", "RECORDING", "EXECUTABLE"} :
       /\ phase' = [phase EXCEPT ![r] = p] /\ ~IsApplied(r)
       /\ commands' \in [Recording -> 0 .. MaxCommands]
       /\ clears' \in [Recording -> SUBSET {"color", "depth"}]
       /\ scissor' \in [Recording -> BOOLEAN]

\* A memory comes or goes, an image is created, a plan pins or unpins one, or
\* an execution stops halfway.
Recycled ==
  \/ MemoryStep \/ \E r \in Recording : ExecuteFails(r)
  \/ \E i \in Image : Pin(i) \/ Unpin(i) \/ \E n \in Footprints : CreateImage(i, n)

Placed == \E i \in Image, m \in Memory, offset \in Offset : BindImage(i, m, offset)

LEMMA SizesAreNat == Offset \subseteq Nat /\ Sizes \subseteq Nat \ {0}
BY MemoriesAssumption DEF Offset

LEMMA SpanIsNat ==
  ASSUME NEW n \in Nat
  PROVE  Span(n) \in Nat
<1>1. Page \in Nat \ {0}
  BY MemoriesAssumption
<1>2. (n + (Page - 1)) % Page \in 0 .. Page - 1 /\ (n + (Page - 1)) % Page <= n + (Page - 1)
  BY ONLY <1>1, n \in Nat
<1> QED
  BY ONLY <1>1, <1>2, n \in Nat DEF Span

\* A count that has not reached its limit can grow by one.
LEMMA MayGrow ==
  ASSUME NEW max \in Nat, NEW n \in 0 .. max, n # max
  PROVE  n + 1 \in 0 .. max
OBVIOUS

LEMMA RoomLeft ==
  ASSUME GTypeOK, NEW r \in Recording, HasRoom(r)
  PROVE  [commands EXCEPT ![r] = @ + 1] \in [Recording -> 0 .. MaxCommands]
<1>1. commands \in [Recording -> 0 .. MaxCommands] /\ MaxCommands \in Nat
      /\ commands[r] # MaxCommands
  BY GraphicsAssumption DEF GTypeOK, HasRoom
<1>2. commands[r] + 1 \in 0 .. MaxCommands
  BY ONLY <1>1, r \in Recording, MayGrow
<1> QED
  BY ONLY <1>1, <1>2, r \in Recording

\* Every step is of one of these kinds.
LEMMA Kinds ==
  ASSUME GTypeOK, [GNext]_gvars
  PROVE  \/ Recorded \/ Dropped \/ Progress \/ Recycled \/ Placed
         \/ \E i \in Image : DestroyImage(i)
         \/ \E r \in Recording : Apply(r) \/ Execute(r)
         \/ UNCHANGED gvars
<1>1. ASSUME NEW r \in Recording, NEW i \in Image, NEW s \in Targets, Transition(r, i, s)
      PROVE  Recorded
  <2>1. s \in State
    BY GraphicsAssumption
  <2>2. i \in Usable(s) /\ Record(r, i, s) /\ UNCHANGED <<target, depthTarget, scissor>>
    BY <1>1 DEF Transition
  <2>3. scissor' \in [Recording -> BOOLEAN]
    BY <2>2 DEF GTypeOK
  <2> QED
    BY <2>1, <2>2, <2>3 DEF Recorded
<1>2. ASSUME NEW r \in Recording, NEW i \in Image, BindColorTarget(r, i)
      PROVE  Recorded
  <2>1. "COLOR_TARGET" \in State /\ i \in Usable("COLOR_TARGET")
    BY <1>2 DEF State, Usable, BindColorTarget
  <2>2. scissor' \in [Recording -> BOOLEAN]
    BY <1>2 DEF GTypeOK, BindColorTarget
  <2> QED
    BY <1>2, <2>1, <2>2 DEF Recorded, BindColorTarget
<1>3. ASSUME NEW r \in Recording, NEW i \in Image, BindDepthTarget(r, i)
      PROVE  Recorded
  <2>1. "DEPTH_TARGET" \in State /\ i \in Usable("DEPTH_TARGET")
    BY <1>3 DEF State, Usable, BindDepthTarget
  <2>2. scissor' \in [Recording -> BOOLEAN]
    BY <1>3 DEF GTypeOK, BindDepthTarget
  <2> QED
    BY <1>3, <2>1, <2>2 DEF Recorded, BindDepthTarget
<1>4. ASSUME NEW r \in Recording, SetScissor(r)
      PROVE  Progress
  <2>1. phase' = [phase EXCEPT ![r] = "RECORDING"] /\ ~IsApplied(r)
    BY <1>4 DEF GTypeOK, SetScissor, HasRoom, IsApplied
  <2>2. commands' \in [Recording -> 0 .. MaxCommands]
    BY <1>4, RoomLeft DEF SetScissor
  <2> QED
    BY <1>4, <2>1, <2>2 DEF GTypeOK, SetScissor, Progress
<1>5. ASSUME NEW r \in Recording, NEW kind \in {"color", "depth"}, Clear(r, kind)
      PROVE  Progress
  <2>1. phase' = [phase EXCEPT ![r] = "RECORDING"] /\ ~IsApplied(r)
    BY <1>5 DEF GTypeOK, Clear, HasRoom, IsApplied
  <2>2. commands' \in [Recording -> 0 .. MaxCommands]
    BY <1>5, RoomLeft DEF Clear
  <2>3. clears' \in [Recording -> SUBSET {"color", "depth"}]
    BY <1>5 DEF GTypeOK, Clear
  <2> QED
    BY <1>5, <2>1, <2>2, <2>3 DEF GTypeOK, Clear, Progress
<1>6. ASSUME NEW r \in Recording, CreateRecording(r) \/ Begin(r) \/ End(r)
      PROVE  Progress
  BY ZenonT(60), <1>6 DEF GTypeOK, CreateRecording, Begin, End, Unchanging, stream, Progress, IsApplied
<1>7. ASSUME NEW r \in Recording, DestroyRecording(r) \/ Reset(r)
      PROVE  Dropped
  BY <1>7 DEF DestroyRecording, Reset, Dropped
<1> QED
  BY <1>1, <1>2, <1>3, <1>4, <1>5, <1>6, <1>7
     DEF GNext, MemoryStep, ImageStep, RecordStep, RecordingStep, Recycled, Placed

-----------------------------------------------------------------------------
(* Type correctness.                                                       *)

LEMMA InitType == GInit => GTypeOK
<1> SUFFICES ASSUME GInit PROVE GTypeOK
  OBVIOUS
<1> USE DEF GInit, InitMemories, GTypeOK
<1>1. 0 \in 0 .. RevisionMax /\ 0 \in 0 .. CountMax /\ 0 \in 0 .. MaxCommands
  BY GraphicsAssumption
<1>2. NoShadow \in Shadow
  BY <1>1 DEF NoShadow, Shadow, State
<1>3. "UNDEFINED" \in State /\ \A i \in Image : "UNDEFINED" \in Declared(i)
  BY DEF State, Declared
<1>4. \A r \in Recording, i \in Image : shadow[r][i].to \in Declared(i)
  BY <1>3 DEF NoShadow
<1> QED
  BY <1>1, <1>2, <1>3, <1>4, MemoriesAssumption

LEMMA UsableDeclared ==
  ASSUME NEW s \in State, NEW i \in Usable(s), i \in Image
  PROVE  s \in Declared(i)
BY DEF State, Usable, Declared

LEMMA ShadowedType ==
  ASSUME GTypeOK, NEW r \in Recording, NEW i \in Image, NEW s \in State
  PROVE  Shadowed(r, i, s) \in Shadow /\ Shadowed(r, i, s).to = s
<1>1. shadow[r][i] \in Shadow /\ revision[i] \in 0 .. RevisionMax /\ state[i] \in State
      /\ 0 \in 0 .. RevisionMax
  BY GraphicsAssumption DEF GTypeOK
<1> QED
  BY <1>1 DEF Shadowed, Shadow

LEMMA RecordedType == GTypeOK /\ Recorded => GTypeOK'
<1> SUFFICES ASSUME GTypeOK, NEW r \in Recording, NEW i \in Image, NEW s \in State,
                    i \in Usable(s), Record(r, i, s),
                    \/ UNCHANGED <<target, depthTarget>>
                    \/ i \in Color /\ target' = [target EXCEPT ![r] = i] /\ UNCHANGED depthTarget
                    \/ i \in Depth /\ depthTarget' = [depthTarget EXCEPT ![r] = i] /\ UNCHANGED target,
                    scissor' \in [Recording -> BOOLEAN]
             PROVE  GTypeOK'
  BY DEF Recorded
<1>1. commands' \in [Recording -> 0 .. MaxCommands]
  BY RoomLeft DEF Record
<1>2. references' \in [Image -> 0 .. CountMax] /\ held' \in [Recording -> SUBSET Image]
  <2>1. CASE i \in held[r]
    BY <2>1 DEF Record, Retain, GTypeOK
  <2>2. CASE i \notin held[r]
    <3>1. /\ references \in [Image -> 0 .. CountMax] /\ held \in [Recording -> SUBSET Image]
          /\ CountMax \in Nat /\ references[i] # CountMax
          /\ references' = [references EXCEPT ![i] = @ + 1]
          /\ held' = [held EXCEPT ![r] = @ \cup {i}]
      BY <2>2, GraphicsAssumption DEF Record, Retain, GTypeOK
    <3>2. references[i] + 1 \in 0 .. CountMax
      BY ONLY <3>1, i \in Image, MayGrow
    <3> QED
      BY ONLY <3>1, <3>2, i \in Image, r \in Recording
  <2> QED
    BY <2>1, <2>2
<1>3. /\ shadow' \in [Recording -> [Image -> Shadow]]
      /\ \A q \in Recording, j \in Image : shadow'[q][j].to \in Declared(j)
  BY ShadowedType, UsableDeclared DEF Record, GTypeOK
<1>4. target' \in [Recording -> Color \cup {Nothing}]
      /\ depthTarget' \in [Recording -> Depth \cup {Nothing}]
  <2>1. /\ target \in [Recording -> Color \cup {Nothing}]
        /\ depthTarget \in [Recording -> Depth \cup {Nothing}]
    BY DEF GTypeOK
  <2> QED
    BY <2>1
<1> QED
  BY <1>1, <1>2, <1>3, <1>4 DEF Record, GTypeOK, memories

LEMMA DroppedType == GTypeOK /\ CountersAreExact /\ Dropped => GTypeOK'
<1> SUFFICES ASSUME GTypeOK, CountersAreExact, NEW r \in Recording,
                    NEW p \in {"absent", "INITIAL"},
                    phase' = [phase EXCEPT ![r] = p], Released(r)
             PROVE  GTypeOK'
  BY DEF Dropped
<1>1. references' \in [Image -> 0 .. CountMax]
  <2>1. ASSUME NEW i \in held[r]
        PROVE  references[i] # 0
    <3>1. r \in Keepers(i) /\ IsFiniteSet(Keepers(i)) /\ i \in Image
      BY FS_Subset, GraphicsAssumption DEF Keepers, GTypeOK
    <3> QED
      BY <3>1, FS_EmptySet DEF CountersAreExact
  <2> QED
    BY <2>1, GraphicsAssumption DEF GTypeOK, Released
<1>2. /\ shadow' \in [Recording -> [Image -> Shadow]]
      /\ \A q \in Recording, j \in Image : shadow'[q][j].to \in Declared(j)
  <2>1. NoShadow \in Shadow /\ \A j \in Image : NoShadow.to \in Declared(j)
    BY GraphicsAssumption DEF NoShadow, Shadow, State, Declared
  <2> QED
    BY <2>1 DEF GTypeOK, Released
<1>3. commands' \in [Recording -> 0 .. MaxCommands] /\ held' \in [Recording -> SUBSET Image]
  BY GraphicsAssumption DEF GTypeOK, Released
<1> QED
  BY <1>1, <1>2, <1>3 DEF GTypeOK, Released, memories

LEMMA ApplyType ==
  ASSUME GTypeOK, NEW r \in Recording, Apply(r)
  PROVE  GTypeOK'
<1>1. \A i \in held[r] : i \in Image /\ revision[i] + 1 \in 0 .. RevisionMax
  <2>1. \A i \in held[r] : i \in Image /\ revision[i] \in 0 .. RevisionMax
                           /\ revision[i] # RevisionMax
    BY DEF Apply, IsCurrent, GTypeOK
  <2> QED
    BY ONLY <2>1, GraphicsAssumption
<1>2. revision' \in [Image -> 0 .. RevisionMax]
  <2>1. revision \in [Image -> 0 .. RevisionMax]
    BY DEF GTypeOK
  <2> QED
    BY <1>1, <2>1 DEF Apply, NextRevision
<1>3. shadow \in [Recording -> [Image -> Shadow]]
      /\ \A q \in Recording, j \in Image : shadow[q][j].to \in Declared(j)
  BY DEF GTypeOK
<1>4. state' \in [Image -> State] /\ \A i \in Image : state'[i] \in Declared(i)
  <2>1. \A i \in Image : shadow[r][i].to \in State
    BY <1>3 DEF Shadow
  <2>2. state \in [Image -> State] /\ \A i \in Image : state[i] \in Declared(i)
    BY DEF GTypeOK
  <2> QED
    BY <1>3, <2>1, <2>2 DEF Apply
<1>5. \A i \in held[r] :
        LET t == [shadow[r][i] EXCEPT !.applied = NextRevision(i)]
        IN t \in Shadow /\ t.to = shadow[r][i].to
  BY <1>1, <1>3 DEF Shadow, NextRevision
<1>6. /\ shadow' \in [Recording -> [Image -> Shadow]]
      /\ \A q \in Recording, j \in Image : shadow'[q][j].to \in Declared(j)
  BY <1>3, <1>5 DEF Apply
<1> QED
  BY <1>2, <1>4, <1>6 DEF Apply, GTypeOK, memories, stream

LEMMA DestroyType ==
  ASSUME GTypeOK, CountersAreExact, NEW i \in Image, DestroyImage(i)
  PROVE  GTypeOK'
<1>1. boundImages' \in [Memory -> Nat]
  <2>1. ASSUME home[i] \in Memory
        PROVE  boundImages[home[i]] # 0
    <3>1. i \in Guests(home[i]) /\ IsFiniteSet(Guests(home[i]))
      BY FS_Subset, GraphicsAssumption DEF Guests
    <3> QED
      BY <2>1, <3>1, FS_EmptySet DEF CountersAreExact
  <2>2. boundImages \in [Memory -> Nat]
    BY DEF GTypeOK
  <2> QED
    BY <2>1, <2>2 DEF DestroyImage
<1>2. revision' \in [Image -> 0 .. RevisionMax]
  BY GraphicsAssumption DEF DestroyImage, GTypeOK
<1>3. state' \in [Image -> State] /\ \A j \in Image : state'[j] \in Declared(j)
  BY DEF DestroyImage, GTypeOK, State, Declared
<1> QED
  BY <1>1, <1>2, <1>3 DEF DestroyImage, GTypeOK, stream

LEMMA PlacedType == GTypeOK /\ Placed => GTypeOK'
BY SizesAreNat DEF Placed, BindImage, GTypeOK, stream

\* Packets keep every type, if the step keeps the type of phase.
LEMMA PacketsType ==
  ASSUME GTypeOK, Packets,
         phase' = phase \/ \E r \in Recording : phase' = [phase EXCEPT ![r] = "HOST_EXECUTED"]
  PROVE  GTypeOK'
<1>1. nextVa' \in Nat
  BY SpanIsNat DEF Packets, GTypeOK
<1> QED
  BY <1>1 DEF Packets, GTypeOK, images, stream

LEMMA RecycledType == GTypeOK /\ Recycled => GTypeOK'
<1> SUFFICES ASSUME GTypeOK, Recycled PROVE GTypeOK'
  OBVIOUS
<1>1. ASSUME NEW m \in Memory, NEW n \in Sizes, AllocateMemory(m, n)
      PROVE  GTypeOK'
  <2>1. n \in Nat /\ nextVa \in Nat /\ Span(n) \in Nat
    BY SizesAreNat, SpanIsNat DEF GTypeOK
  <2> QED
    BY <1>1, <2>1 DEF AllocateMemory, Allocate, GTypeOK, images, stream
<1>2. ASSUME NEW m \in Memory, DestroyMemory(m)
      PROVE  GTypeOK'
  BY <1>2 DEF DestroyMemory, Relinquish, MayRelinquish, GTypeOK, images, stream
<1>3. ASSUME NEW i \in Image, Pin(i) \/ Unpin(i)
      PROVE  GTypeOK'
  <2>1. pins \in [Image -> 0 .. CountMax] /\ CountMax \in Nat
    BY GraphicsAssumption DEF GTypeOK
  <2>2. pins' \in [Image -> 0 .. CountMax]
    <3>1. CASE Pin(i)
      BY <2>1, <3>1 DEF Pin
    <3>2. CASE Unpin(i)
      BY <2>1, <3>2 DEF Unpin
    <3> QED
      BY <1>3, <3>1, <3>2
  <2> QED
    BY <1>3, <2>2 DEF Pin, Unpin, GTypeOK, memories, stream
<1>4. ASSUME NEW i \in Image, NEW n \in Footprints, CreateImage(i, n)
      PROVE  GTypeOK'
  <2>1. n \in Nat
    BY GraphicsAssumption
  <2> QED
    BY <1>4, <2>1 DEF CreateImage, GTypeOK, memories, stream
<1>5. ASSUME NEW r \in Recording, ExecuteFails(r)
      PROVE  GTypeOK'
  BY <1>5, PacketsType DEF ExecuteFails
<1> QED
  BY <1>1, <1>2, <1>3, <1>4, <1>5 DEF Recycled, MemoryStep

LEMMA NextType == GTypeOK /\ CountersAreExact /\ [GNext]_gvars => GTypeOK'
<1> SUFFICES ASSUME GTypeOK, CountersAreExact, [GNext]_gvars PROVE GTypeOK'
  OBVIOUS
<1>1. CASE Progress
  BY ZenonT(60), <1>1 DEF Progress, GTypeOK, memories, images
<1>2. ASSUME NEW r \in Recording, Execute(r)
      PROVE  GTypeOK'
  BY <1>2, PacketsType DEF Execute
<1>3. CASE UNCHANGED gvars
  BY <1>3 DEF gvars, GTypeOK, memories, images, stream
<1> QED
  BY <1>1, <1>2, <1>3, Kinds, RecordedType, DroppedType, ApplyType, DestroyType,
     PlacedType, RecycledType

-----------------------------------------------------------------------------
(* Reference counts.                                                       *)

LEMMA KeepersFinite ==
  /\ \A i \in Image : IsFiniteSet(Keepers(i))
  /\ \A m \in Memory : IsFiniteSet(Guests(m))
BY FS_Subset, GraphicsAssumption DEF Keepers, Guests

LEMMA RecordedCounts == GTypeOK /\ CountersAreExact /\ Recorded => CountersAreExact'
<1> SUFFICES ASSUME GTypeOK, CountersAreExact, NEW r \in Recording, NEW i \in Image,
                    NEW s \in State, Record(r, i, s)
             PROVE  CountersAreExact'
  BY DEF Recorded
<1>1. \A m \in Memory : Guests(m)' = Guests(m) /\ boundImages'[m] = boundImages[m]
  BY DEF Record, Guests, memories
<1>2. ASSUME NEW j \in Image
      PROVE  references'[j] = Cardinality(Keepers(j)')
  <2>1. references \in [Image -> 0 .. CountMax] /\ held \in [Recording -> SUBSET Image]
        /\ references[j] = Cardinality(Keepers(j))
    BY DEF GTypeOK, CountersAreExact
  <2>2. CASE i \in held[r] \/ j # i
    <3>1. Keepers(j)' = Keepers(j) /\ references'[j] = references[j]
      BY <2>1, <2>2 DEF Record, Retain, Keepers
    <3> QED
      BY <2>1, <3>1
  <2>3. CASE i \notin held[r] /\ j = i
    <3>1. Keepers(j)' = Keepers(j) \cup {r} /\ references'[j] = references[j] + 1
          /\ r \notin Keepers(j)
      BY <2>1, <2>3 DEF Record, Retain, Keepers
    <3> QED
      BY <2>1, <3>1, KeepersFinite, FS_AddElement
  <2> QED
    BY <2>2, <2>3
<1> QED
  BY <1>1, <1>2 DEF CountersAreExact

LEMMA DroppedCounts == GTypeOK /\ CountersAreExact /\ Dropped => CountersAreExact'
<1> SUFFICES ASSUME GTypeOK, CountersAreExact, NEW r \in Recording, Released(r)
             PROVE  CountersAreExact'
  BY DEF Dropped
<1>1. \A m \in Memory : Guests(m)' = Guests(m) /\ boundImages'[m] = boundImages[m]
  BY DEF Released, Guests, memories
<1>2. ASSUME NEW j \in Image
      PROVE  references'[j] = Cardinality(Keepers(j)')
  <2>1. held \in [Recording -> SUBSET Image] /\ references[j] = Cardinality(Keepers(j))
    BY DEF GTypeOK, CountersAreExact
  <2>2. Keepers(j)' = Keepers(j) \ {r}
    BY <2>1 DEF Released, Keepers
  <2>3. references'[j] = IF r \in Keepers(j) THEN references[j] - 1 ELSE references[j]
    BY DEF Released, Keepers
  <2>4. Cardinality(Keepers(j) \ {r}) =
          IF r \in Keepers(j) THEN Cardinality(Keepers(j)) - 1 ELSE Cardinality(Keepers(j))
    BY KeepersFinite, FS_RemoveElement
  <2> QED
    BY <2>1, <2>2, <2>3, <2>4
<1> QED
  BY <1>1, <1>2 DEF CountersAreExact

LEMMA BoundCounts ==
  ASSUME GTypeOK, CountersAreExact, Placed \/ \E i \in Image : DestroyImage(i)
  PROVE  CountersAreExact'
<1>1. \A j \in Image : Keepers(j)' = Keepers(j) /\ references'[j] = references[j]
  BY DEF Placed, BindImage, DestroyImage, Keepers
<1>2. home \in [Image -> Memory \cup {Nothing}] /\ boundImages \in [Memory -> Nat]
      /\ Nothing \notin Memory /\ \A m \in Memory : boundImages[m] = Cardinality(Guests(m))
  BY GraphicsAssumption DEF GTypeOK, CountersAreExact
<1>3. ASSUME NEW i \in Image, NEW n \in Memory, NEW offset \in Offset,
             BindImage(i, n, offset), NEW m \in Memory
      PROVE  boundImages'[m] = Cardinality(Guests(m)')
  <2>1. CASE m = n
    <3>1. Guests(m)' = Guests(m) \cup {i} /\ i \notin Guests(m)
          /\ boundImages'[m] = boundImages[m] + 1
      BY <1>2, <1>3, <2>1 DEF BindImage, Guests
    <3>2. Cardinality(Guests(m) \cup {i}) = Cardinality(Guests(m)) + 1
      BY <3>1, KeepersFinite, FS_AddElement
    <3> QED
      BY <1>2, <3>1, <3>2
  <2>2. CASE m # n
    BY <1>2, <1>3, <2>2 DEF BindImage, Guests
  <2> QED
    BY <2>1, <2>2
<1>4. ASSUME NEW i \in Image, DestroyImage(i), NEW m \in Memory
      PROVE  boundImages'[m] = Cardinality(Guests(m)')
  <2>1. Guests(m)' = Guests(m) \ {i}
    BY <1>2, <1>4 DEF DestroyImage, Guests
  <2>2. boundImages'[m] = IF i \in Guests(m) THEN boundImages[m] - 1 ELSE boundImages[m]
    BY <1>4 DEF DestroyImage, Guests
  <2>3. Cardinality(Guests(m) \ {i}) =
          IF i \in Guests(m) THEN Cardinality(Guests(m)) - 1 ELSE Cardinality(Guests(m))
    BY KeepersFinite, FS_RemoveElement
  <2> QED
    BY <1>2, <2>1, <2>2, <2>3
<1> QED
  BY <1>1, <1>3, <1>4 DEF CountersAreExact, Placed

LEMMA NextCounts == GTypeOK /\ CountersAreExact /\ [GNext]_gvars => CountersAreExact'
<1> SUFFICES ASSUME GTypeOK, CountersAreExact, [GNext]_gvars PROVE CountersAreExact'
  OBVIOUS
<1>1. CASE UNCHANGED <<references, held, boundImages, home>>
  BY <1>1 DEF CountersAreExact, Keepers, Guests
<1>2. CASE Progress \/ Recycled \/ UNCHANGED gvars
  BY <1>1, <1>2 DEF Progress, Recycled, MemoryStep, AllocateMemory, DestroyMemory,
                    Allocate, Relinquish, Pin, Unpin, CreateImage, ExecuteFails, Packets,
                    gvars, memories, images
<1>3. ASSUME NEW r \in Recording, Apply(r) \/ Execute(r)
      PROVE  CountersAreExact'
  BY <1>1, <1>3 DEF Apply, Execute, Packets, memories, images
<1> QED
  BY <1>2, <1>3, Kinds, RecordedCounts, DroppedCounts, BoundCounts

-----------------------------------------------------------------------------
(* Nothing dangles, and revisions only grow.                               *)

\* A step that keeps what exists and is bound, what is held and the targets.
LEMMA DanglingFrame ==
  ASSUME NothingDangles, Homed,
         UNCHANGED <<footprint, home, where, target, depthTarget>>,
         \A m \in Memory : size'[m] = size[m],
         \A r \in Recording : held'[r] = held[r],
         home \in [Image -> Memory \cup {Nothing}], Nothing \notin Memory,
         \A i \in Image : pins'[i] # 0 => pins[i] # 0 \/ (i \in Exists /\ home[i] # Nothing)
  PROVE  NothingDangles' /\ Homed'
<1>1. Exists' = Exists
  BY DEF Exists
<1>2. \A i \in Image : home[i] # Nothing => size'[home[i]] = size[home[i]]
  OBVIOUS
<1> QED
  BY <1>1, <1>2 DEF NothingDangles, Homed

LEMMA RecordedDangling == GTypeOK /\ NothingDangles /\ Homed /\ Recorded => NothingDangles' /\ Homed'
<1> SUFFICES ASSUME GTypeOK, NothingDangles, Homed, NEW r \in Recording, NEW i \in Image,
                    NEW s \in State, Record(r, i, s),
                    \/ UNCHANGED <<target, depthTarget>>
                    \/ target' = [target EXCEPT ![r] = i] /\ UNCHANGED depthTarget
                    \/ depthTarget' = [depthTarget EXCEPT ![r] = i] /\ UNCHANGED target
             PROVE  NothingDangles' /\ Homed'
  BY DEF Recorded
<1>1. /\ held \in [Recording -> SUBSET Image] /\ target \in [Recording -> Color \cup {Nothing}]
      /\ depthTarget \in [Recording -> Depth \cup {Nothing}]
  BY DEF GTypeOK
<1>2. \A q \in Recording : held'[q] = IF q = r THEN held[q] \cup {i} ELSE held[q]
  BY ZenonT(60), <1>1 DEF Record, Retain
<1>3. UNCHANGED <<footprint, home, where, size, pins>> /\ i \in Exists /\ home[i] # Nothing
  BY DEF Record, memories
<1>4. Exists' = Exists /\ Homed'
  BY <1>3 DEF Exists, Homed
<1>5. \A q \in Recording : held'[q] \subseteq {j \in Exists : home[j] # Nothing}
  BY ZenonT(60), <1>2, <1>3 DEF NothingDangles
<1>6. \A q \in Recording : {target'[q], depthTarget'[q]} \subseteq held'[q] \cup {Nothing}
  <2>1. \A q \in Recording : /\ target[q] \in held[q] \cup {Nothing}
                             /\ depthTarget[q] \in held[q] \cup {Nothing}
    BY DEF NothingDangles
  <2>2. \A q \in Recording : target'[q] = target[q] \/ (q = r /\ target'[q] = i)
    BY <1>1
  <2>3. \A q \in Recording : depthTarget'[q] = depthTarget[q] \/ (q = r /\ depthTarget'[q] = i)
    BY <1>1
  <2>4. \A q \in Recording : /\ target'[q] \in held'[q] \cup {Nothing}
                             /\ depthTarget'[q] \in held'[q] \cup {Nothing}
    BY <1>2, <2>1, <2>2, <2>3
  <2> QED
    BY <2>4
<1> QED
  BY <1>3, <1>4, <1>5, <1>6 DEF NothingDangles

LEMMA DroppedDangling == GTypeOK /\ NothingDangles /\ Homed /\ Dropped => NothingDangles' /\ Homed'
<1> SUFFICES ASSUME GTypeOK, NothingDangles, Homed, NEW r \in Recording, Released(r)
             PROVE  NothingDangles' /\ Homed'
  BY DEF Dropped
<1>1. UNCHANGED <<footprint, home, where, size, pins>>
  BY DEF Released, memories
<1>2. \A q \in Recording :
        /\ held'[q] = IF q = r THEN {} ELSE held[q]
        /\ target'[q] = IF q = r THEN Nothing ELSE target[q]
        /\ depthTarget'[q] = IF q = r THEN Nothing ELSE depthTarget[q]
  BY DEF GTypeOK, Released
<1>3. Exists' = Exists /\ Homed'
  BY <1>1 DEF Exists, Homed
<1> QED
  BY <1>1, <1>2, <1>3 DEF NothingDangles

LEMMA PlacedDangling == GTypeOK /\ NothingDangles /\ Homed /\ Placed => NothingDangles' /\ Homed'
<1> SUFFICES ASSUME GTypeOK, NothingDangles, Homed, NEW i \in Image, NEW m \in Memory,
                    NEW offset \in Offset, BindImage(i, m, offset)
             PROVE  NothingDangles' /\ Homed'
  BY DEF Placed
<1>1. UNCHANGED <<footprint, size, pins, held, target, depthTarget>> /\ i \in Exists
      /\ offset + footprint[i] <= size[m]
  BY DEF BindImage, stream
<1>2. \A j \in Image : /\ home'[j] = IF j = i THEN m ELSE home[j]
                       /\ where'[j] = IF j = i THEN offset ELSE where[j]
  BY DEF GTypeOK, BindImage
<1>3. Exists' = Exists /\ Homed' /\ m # Nothing
  BY <1>1, <1>2, GraphicsAssumption DEF Exists, Homed
<1>4. \A r \in Recording : held[r] \subseteq {j \in Exists : home'[j] # Nothing}
  <2>1. \A j \in Image : home[j] # Nothing => home'[j] # Nothing
    BY <1>2, <1>3
  <2>2. \A r \in Recording : held[r] \subseteq {j \in Exists : home[j] # Nothing}
    BY DEF NothingDangles
  <2> QED
    BY <2>1, <2>2 DEF Exists
<1>5. \A j \in Image : home'[j] # Nothing => where'[j] + footprint[j] <= size[home'[j]]
  BY <1>1, <1>2 DEF NothingDangles
<1>6. \A j \in Image : pins[j] # 0 => j \in Exists /\ home'[j] # Nothing
  BY <1>2, <1>3 DEF NothingDangles
<1>7. \A r \in Recording : {target[r], depthTarget[r]} \subseteq held[r] \cup {Nothing}
  BY DEF NothingDangles
<1> QED
  BY <1>1, <1>3, <1>4, <1>5, <1>6, <1>7 DEF NothingDangles

LEMMA DestroyDangling ==
  ASSUME GTypeOK, CountersAreExact, NothingDangles, Homed, NEW i \in Image, DestroyImage(i)
  PROVE  NothingDangles' /\ Homed'
<1>1. \A r \in Recording : i \notin held[r]
  BY ZenonT(60), KeepersFinite, FS_EmptySet DEF DestroyImage, MayDestroy, CountersAreExact, Keepers
<1>2. UNCHANGED <<size, pins, held, target, depthTarget>> /\ pins[i] = 0
  BY DEF DestroyImage, MayDestroy, stream
<1>3. \A j \in Image : /\ home'[j] = IF j = i THEN Nothing ELSE home[j]
                       /\ where'[j] = IF j = i THEN 0 ELSE where[j]
                       /\ footprint'[j] = IF j = i THEN 0 ELSE footprint[j]
  BY DEF GTypeOK, DestroyImage
<1>4. Exists' = Exists \ {i} /\ Homed'
  BY <1>3 DEF Exists, Homed
<1> QED
  BY <1>1, <1>2, <1>3, <1>4 DEF NothingDangles, Exists

LEMMA RecycledDangling ==
  GTypeOK /\ CountersAreExact /\ NothingDangles /\ Homed /\ Recycled => NothingDangles' /\ Homed'
<1> SUFFICES ASSUME GTypeOK, CountersAreExact, NothingDangles, Homed, Recycled
             PROVE  NothingDangles' /\ Homed'
  OBVIOUS
<1>1. /\ home \in [Image -> Memory \cup {Nothing}] /\ Nothing \notin Memory
      /\ size \in [Memory -> Nat] /\ footprint \in [Image -> Nat] /\ where \in [Image -> Nat]
  BY GraphicsAssumption DEF GTypeOK
<1>2. ASSUME NEW m \in Memory, DestroyMemory(m) \/ \E n \in Sizes : AllocateMemory(m, n)
      PROVE  NothingDangles' /\ Homed'
  <2>1. UNCHANGED <<footprint, home, where, pins, held, target, depthTarget>>
    BY <1>2 DEF DestroyMemory, AllocateMemory, images, stream
  <2>2. \A i \in Image : home[i] # m
    <3>1. CASE DestroyMemory(m)
      <4>1. Cardinality(Guests(m)) = 0
        BY <3>1 DEF DestroyMemory, Relinquish, MayRelinquish, CountersAreExact
      <4> QED
        BY <4>1, KeepersFinite, FS_EmptySet DEF Guests
    <3>2. CASE \E n \in Sizes : AllocateMemory(m, n)
      <4>1. size[m] = 0
        BY <3>2 DEF AllocateMemory, Allocate, Allocated
      <4>2. ASSUME NEW i \in Image, home[i] = m
            PROVE  FALSE
        <5>1. home[i] # Nothing
          BY <1>1, <4>2
        <5>2. footprint[i] # 0 /\ where[i] + footprint[i] <= 0
          BY <4>1, <4>2, <5>1 DEF NothingDangles, Homed, Exists
        <5> QED
          BY <1>1, <5>2
      <4> QED
        BY <4>2
    <3> QED
      BY <1>2, <3>1, <3>2
  <2>3. \A n \in Memory : n # m => size'[n] = size[n]
    BY <1>1, <1>2 DEF DestroyMemory, Relinquish, AllocateMemory, Allocate
  <2>4. Exists' = Exists /\ \A i \in Image : home[i] # Nothing => size'[home[i]] = size[home[i]]
    BY <1>1, <2>1, <2>2, <2>3 DEF Exists
  <2> QED
    BY <2>1, <2>4 DEF NothingDangles, Homed
<1>3. ASSUME NEW i \in Image, Pin(i) \/ Unpin(i)
      PROVE  NothingDangles' /\ Homed'
  <2>1. /\ UNCHANGED <<footprint, home, where, size, held, target, depthTarget>>
        /\ \A j \in Image : pins'[j] # 0 => pins[j] # 0 \/ (j \in Exists /\ home[j] # Nothing)
    BY <1>3 DEF Pin, Unpin, GTypeOK, memories, stream
  <2> QED
    BY <1>1, <2>1, DanglingFrame
<1>4. ASSUME NEW i \in Image, NEW n \in Footprints, CreateImage(i, n)
      PROVE  NothingDangles' /\ Homed'
  <2>1. UNCHANGED <<home, where, size, pins, held, target, depthTarget>> /\ i \notin Exists
    BY <1>4 DEF CreateImage, memories, stream
  <2>2. Exists \subseteq Exists' /\ \A j \in Image : j # i => footprint'[j] = footprint[j]
    BY <1>1, <1>4 DEF CreateImage, Exists
  <2>3. home[i] = Nothing
    BY <2>1 DEF Homed
  <2> QED
    BY <2>1, <2>2, <2>3 DEF NothingDangles, Homed
<1>5. ASSUME NEW r \in Recording, ExecuteFails(r)
      PROVE  NothingDangles' /\ Homed'
  BY <1>1, <1>5, DanglingFrame DEF ExecuteFails, Packets, images, stream
<1> QED
  BY <1>2, <1>3, <1>4, <1>5 DEF Recycled, MemoryStep

LEMMA NextDangling ==
  GTypeOK /\ CountersAreExact /\ NothingDangles /\ Homed /\ [GNext]_gvars
    => NothingDangles' /\ Homed'
<1> SUFFICES ASSUME GTypeOK, CountersAreExact, NothingDangles, Homed, [GNext]_gvars
             PROVE  NothingDangles' /\ Homed'
  OBVIOUS
<1>1. CASE UNCHANGED <<footprint, home, where, size, pins, held, target, depthTarget>>
  BY <1>1, DanglingFrame, GraphicsAssumption DEF GTypeOK
<1>2. CASE Progress \/ UNCHANGED gvars
  BY <1>1, <1>2 DEF Progress, gvars, memories, images, stream
<1>3. ASSUME NEW r \in Recording, Apply(r) \/ Execute(r)
      PROVE  NothingDangles' /\ Homed'
  BY <1>1, <1>3 DEF Apply, Execute, Packets, memories, images, stream
<1> QED
  BY <1>2, <1>3, Kinds, RecordedDangling, DroppedDangling, PlacedDangling,
     DestroyDangling, RecycledDangling

-----------------------------------------------------------------------------
(* Revisions.                                                              *)

Revisions == NotAhead /\ RevisionDecides

LEMMA RecordedRevisions == GTypeOK /\ Revisions /\ Recorded => Revisions'
<1> SUFFICES ASSUME GTypeOK, Revisions, NEW r \in Recording, NEW i \in Image, NEW s \in State,
                    Record(r, i, s), NEW q \in Recording, NEW j \in held'[q]
             PROVE  /\ ShadowRevision(q, j)' <= revision'[j]
                    /\ revision'[j] = ShadowRevision(q, j)' =>
                         state'[j] = IF IsApplied(q)' THEN shadow'[q][j].to ELSE shadow'[q][j].from
  BY DEF Recorded, Revisions, NotAhead, RevisionDecides
<1>1. UNCHANGED <<phase, revision, state>> /\ ~IsApplied(r) /\ IsApplied(q)' = IsApplied(q)
  BY DEF Record, HasRoom, IsApplied
<1>2. /\ held \in [Recording -> SUBSET Image] /\ shadow \in [Recording -> [Image -> Shadow]]
      /\ revision \in [Image -> 0 .. RevisionMax]
  BY DEF GTypeOK
<1>3. CASE q = r /\ j = i
  <2>1. shadow'[q][j] = Shadowed(r, i, s)
    BY <1>2, <1>3 DEF Record
  <2>2. CASE i \in held[r]
    <3>1. shadow'[q][j].initial = shadow[q][j].initial /\ shadow'[q][j].from = shadow[q][j].from
      BY <1>2, <1>3, <2>1, <2>2 DEF Shadowed, Shadow
    <3> QED
      BY <1>1, <1>3, <2>2, <3>1 DEF ShadowRevision, Revisions, NotAhead, RevisionDecides
  <2>3. CASE i \notin held[r]
    <3>1. shadow'[q][j].initial = revision[j] /\ shadow'[q][j].from = state[j]
      BY <1>3, <2>1, <2>3 DEF Shadowed
    <3> QED
      BY <1>1, <1>2, <1>3, <3>1 DEF ShadowRevision
  <2> QED
    BY <2>2, <2>3
<1>4. CASE ~(q = r /\ j = i)
  <2>1. j \in held[q] /\ shadow'[q][j] = shadow[q][j]
    BY <1>2, <1>4 DEF Record, Retain
  <2> QED
    BY <1>1, <2>1 DEF ShadowRevision, Revisions, NotAhead, RevisionDecides
<1> QED
  BY <1>3, <1>4

\* A step that takes nothing in hand, and keeps the images that are held.
LEMMA RevisionFrame ==
  ASSUME GTypeOK, Revisions,
         \A r \in Recording : \A i \in held'[r] :
           /\ i \in held[r] /\ revision'[i] = revision[i] /\ state'[i] = state[i]
           /\ shadow'[r][i] = shadow[r][i] /\ IsApplied(r)' = IsApplied(r)
  PROVE  Revisions'
BY DEF ShadowRevision, Revisions, NotAhead, RevisionDecides

LEMMA ApplyRevisions ==
  ASSUME GTypeOK, Revisions, NEW r \in Recording, Apply(r)
  PROVE  Revisions'
<1> SUFFICES ASSUME NEW q \in Recording, NEW j \in held'[q]
             PROVE  /\ ShadowRevision(q, j)' <= revision'[j]
                    /\ revision'[j] = ShadowRevision(q, j)' =>
                         state'[j] = IF IsApplied(q)' THEN shadow'[q][j].to ELSE shadow'[q][j].from
  BY DEF Revisions, NotAhead, RevisionDecides
<1>1. /\ held \in [Recording -> SUBSET Image] /\ shadow \in [Recording -> [Image -> Shadow]]
      /\ revision \in [Image -> 0 .. RevisionMax] /\ RevisionMax \in Nat
  BY GraphicsAssumption DEF GTypeOK
<1>2. j \in held[q] /\ j \in Image /\ IsApplied(q)' = (q = r \/ IsApplied(q))
  BY <1>1 DEF Apply, IsApplied, GTypeOK
<1>3. CASE q = r
  <2>1. /\ revision'[j] = revision[j] + 1 /\ state'[j] = shadow[r][j].to
        /\ shadow'[q][j].applied = revision[j] + 1 /\ shadow'[q][j].to = shadow[r][j].to
    BY <1>1, <1>2, <1>3 DEF Apply, NextRevision, Shadow
  <2>2. ShadowRevision(q, j)' = revision'[j] /\ IsApplied(q)'
    BY <1>2, <1>3, <2>1 DEF ShadowRevision
  <2>3. revision'[j] \in Int
    BY <1>1, <1>2, <2>1
  <2> QED
    BY <1>3, <2>1, <2>2, <2>3
<1>4. CASE q # r
  <2>1. shadow'[q][j] = shadow[q][j] /\ ShadowRevision(q, j)' = ShadowRevision(q, j)
    BY <1>1, <1>2, <1>4 DEF Apply, ShadowRevision
  <2>2. ShadowRevision(q, j) <= revision[j] /\ ShadowRevision(q, j) \in Int
    BY <1>1, <1>2 DEF Revisions, NotAhead, ShadowRevision, Shadow
  <2>3. CASE j \in held[r]
    <3>1. revision'[j] = revision[j] + 1
      BY <1>1, <1>2, <2>3 DEF Apply, NextRevision
    <3> QED
      BY <1>1, <1>2, <2>1, <2>2, <3>1
  <2>4. CASE j \notin held[r]
    <3>1. revision'[j] = revision[j] /\ state'[j] = state[j]
      BY <1>1, <1>2, <2>4 DEF Apply
    <3> QED
      BY <1>2, <1>4, <2>1, <2>2, <3>1 DEF Revisions, RevisionDecides
  <2> QED
    BY <2>3, <2>4
<1> QED
  BY <1>3, <1>4

\* An image that is destroyed is held by no recording.
LEMMA DestroyedNotHeld ==
  ASSUME CountersAreExact, NEW i \in Image, DestroyImage(i)
  PROVE  \A r \in Recording : i \notin held[r]
BY ZenonT(60), KeepersFinite, FS_EmptySet DEF DestroyImage, MayDestroy, CountersAreExact, Keepers

LEMMA NextRevisions == GTypeOK /\ CountersAreExact /\ Revisions /\ [GNext]_gvars => Revisions'
<1> SUFFICES ASSUME GTypeOK, CountersAreExact, Revisions, [GNext]_gvars PROVE Revisions'
  OBVIOUS
<1>1. CASE UNCHANGED <<revision, state, held, shadow, phase>>
  BY <1>1, RevisionFrame DEF IsApplied
<1>2. CASE Recycled \/ Placed \/ UNCHANGED gvars
  BY <1>1, <1>2 DEF Recycled, Placed, MemoryStep, AllocateMemory, DestroyMemory, Pin, Unpin,
                    CreateImage, BindImage, ExecuteFails, Packets, gvars, images
<1>3. CASE Progress
  <2>1. UNCHANGED <<revision, state, held, shadow>> /\ \A r \in Recording : IsApplied(r)' = IsApplied(r)
    BY <1>3 DEF Progress, images, IsApplied, GTypeOK
  <2> QED
    BY <2>1, RevisionFrame
<1>4. ASSUME NEW r \in Recording, Execute(r)
      PROVE  Revisions'
  <2>1. UNCHANGED <<revision, state, held, shadow>> /\ \A q \in Recording : IsApplied(q)' = IsApplied(q)
    BY <1>4 DEF Execute, MayExecute, Packets, images, IsApplied, GTypeOK
  <2> QED
    BY <2>1, RevisionFrame
<1>5. CASE Dropped
  <2>1. PICK r \in Recording, p \in {"absent", "INITIAL"} :
          phase' = [phase EXCEPT ![r] = p] /\ Released(r)
    BY <1>5 DEF Dropped
  <2>2. UNCHANGED <<revision, state>>
        /\ \A q \in Recording : /\ held'[q] = IF q = r THEN {} ELSE held[q]
                                /\ q # r => shadow'[q] = shadow[q] /\ phase'[q] = phase[q]
    BY <2>1 DEF Released, GTypeOK
  <2> QED
    BY <2>2, RevisionFrame DEF IsApplied
<1>6. ASSUME NEW i \in Image, DestroyImage(i)
      PROVE  Revisions'
  <2>1. UNCHANGED <<held, shadow, phase>>
        /\ \A j \in Image : j # i => revision'[j] = revision[j] /\ state'[j] = state[j]
    BY <1>6 DEF DestroyImage, GTypeOK
  <2>2. \A q \in Recording : i \notin held[q] /\ held[q] \subseteq Image
    BY <1>6, DestroyedNotHeld DEF GTypeOK
  <2> QED
    BY <2>1, <2>2, RevisionFrame DEF IsApplied
<1> QED
  BY <1>2, <1>3, <1>4, <1>5, <1>6, Kinds, RecordedRevisions, ApplyRevisions

-----------------------------------------------------------------------------

LEMMA InitInv == GInit => Inv
<1> SUFFICES ASSUME GInit PROVE Inv
  OBVIOUS
<1>1. CountersAreExact
  <2>1. \A i \in Image : Keepers(i) = {}
    BY DEF GInit, Keepers
  <2>2. \A m \in Memory : Guests(m) = {}
    BY GraphicsAssumption DEF GInit, Guests
  <2> QED
    BY <2>1, <2>2, FS_EmptySet DEF GInit, InitMemories, CountersAreExact
<1>2. NothingDangles /\ Homed
  BY DEF GInit, NothingDangles, Homed
<1>3. NotAhead /\ RevisionDecides
  BY DEF GInit, NotAhead, RevisionDecides
<1> QED
  BY <1>1, <1>2, <1>3, InitType DEF Inv

LEMMA Invariance == GSpec => []Inv
<1>1. Inv /\ [GNext]_gvars => Inv'
  BY NextType, NextCounts, NextDangling, NextRevisions DEF Inv, Revisions
<1> QED
  BY <1>1, InitInv, PTL DEF GSpec

\* Every variable keeps its type, and no image or recording ever reaches a state
\* that the image's usage does not declare (image_create, command_transition).
THEOREM TypeCorrect == GSpec => []GTypeOK
BY Invariance, PTL DEF Inv

\* The reference counts that guard image_destroy and memory_destroy are exact.
THEOREM CountersExact == GSpec => []CountersAreExact
BY Invariance, PTL DEF Inv

\* No recording, target, binding or plan refers to something that is gone.
THEOREM NoDangling == GSpec => []NothingDangles
BY Invariance, PTL DEF Inv

\* An equal revision implies an equal state: apply_host_state and execute_host
\* would refuse the same recordings if they compared revisions alone.
THEOREM RevisionsDecide == GSpec => []RevisionDecides
BY Invariance, PTL DEF Inv

-----------------------------------------------------------------------------
(* Recordings are transactions.                                            *)

Current == [r \in Recording |-> {i \in held[r] : revision[i] = ShadowRevision(r, i)}]
Planned == [r \in Recording |-> [i \in Image |-> shadow[r][i].to]]
Stage == [r \in Recording |-> IF phase[r] = "HOST_APPLIED" THEN "committed"
                              ELSE IF phase[r] = "HOST_EXECUTED" THEN "finished" ELSE "open"]
mapped == <<state, held, Current, Planned, Stage>>

LEMMA MappedInit == GInit => Recordings!Init
BY DEF GInit, Recordings!Init, NoShadow

\* What a step keeps for a recording it does not commit or drop.
LEMMA CurrentFrame ==
  ASSUME NEW r \in Recording, held'[r] = held[r], shadow'[r] = shadow[r],
         IsApplied(r)' = IsApplied(r), \A i \in held[r] : revision'[i] = revision[i]
  PROVE  Current'[r] = Current[r]
BY DEF Current, ShadowRevision

\* A step that keeps states, shadows and revisions, and commits nothing, stutters.
LEMMA Stutter ==
  ASSUME GTypeOK, UNCHANGED <<state, held, shadow>>,
         \A r \in Recording : Stage'[r] = Stage[r] /\ IsApplied(r)' = IsApplied(r),
         \A r \in Recording : \A i \in held[r] : revision'[i] = revision[i]
  PROVE  UNCHANGED mapped
<1>1. \A r \in Recording : Current'[r] = Current[r]
  BY CurrentFrame
<1>2. Current' = Current /\ Stage' = Stage /\ Planned' = Planned
  BY <1>1 DEF Current, Stage, Planned
<1> QED
  BY <1>2 DEF mapped

\* A command that names an image is a plan for it.
LEMMA RecordedPlans ==
  ASSUME Inv, NEW r \in Recording, NEW i \in Image, NEW s \in State, Record(r, i, s)
  PROVE  Recordings!Plan(r, i, s)
<1>1. /\ held \in [Recording -> SUBSET Image] /\ shadow \in [Recording -> [Image -> Shadow]]
      /\ phase[r] = "RECORDING" /\ UNCHANGED <<phase, revision, state>>
  BY DEF Inv, GTypeOK, Record, HasRoom
<1>2. held' = [held EXCEPT ![r] = @ \cup {i}]
  BY <1>1 DEF Record, Retain
<1>3. shadow' = [shadow EXCEPT ![r][i] = Shadowed(r, i, s)] /\ Shadowed(r, i, s).to = s
  BY ShadowedType DEF Inv, Record
<1>4. Planned' = [Planned EXCEPT ![r][i] = s]
  BY <1>1, <1>3 DEF Planned
<1>5. ASSUME NEW q \in Recording
      PROVE  Current'[q] = IF q = r /\ i \notin held[r] THEN Current[q] \cup {i} ELSE Current[q]
  <2>1. CASE q # r
    <3>1. held'[q] = held[q] /\ shadow'[q] = shadow[q] /\ IsApplied(q)' = IsApplied(q)
      BY <1>1, <1>2, <1>3, <2>1 DEF IsApplied
    <3> QED
      BY <1>1, <2>1, <3>1, CurrentFrame
  <2>2. CASE q = r
    <3>1. \A j \in held[r] : ShadowRevision(r, j)' = ShadowRevision(r, j)
      <4>1. \A j \in held[r] : shadow'[r][j].initial = shadow[r][j].initial
        BY <1>1, <1>3 DEF Shadowed, Shadow
      <4> QED
        BY <1>1, <4>1 DEF ShadowRevision, IsApplied
    <3>2. i \notin held[r] => ShadowRevision(r, i)' = revision[i]
      BY <1>1, <1>3 DEF ShadowRevision, IsApplied, Shadowed
    <3> QED
      BY <1>1, <1>2, <2>2, <3>1, <3>2 DEF Current
  <2> QED
    BY <2>1, <2>2
<1>6. Current' = [Current EXCEPT ![r] = IF i \in held[r] THEN @ ELSE @ \cup {i}]
  BY <1>5 DEF Current
<1>7. Stage[r] = "open" /\ Stage' = Stage
  BY <1>1 DEF Stage
<1> QED
  BY <1>1, <1>2, <1>4, <1>6, <1>7 DEF Recordings!Plan, Current, Planned, Stage

\* Reset and destruction forget the recording.
LEMMA DroppedForgets ==
  ASSUME Inv, NEW r \in Recording, NEW p \in {"absent", "INITIAL"},
         phase' = [phase EXCEPT ![r] = p], Released(r)
  PROVE  Recordings!Forget(r)
<1>1. /\ held \in [Recording -> SUBSET Image] /\ shadow \in [Recording -> [Image -> Shadow]]
      /\ phase \in [Recording -> {"absent", "INITIAL", "RECORDING", "EXECUTABLE",
                                  "HOST_APPLIED", "HOST_EXECUTED"}]
      /\ UNCHANGED <<revision, state>>
  BY DEF Inv, GTypeOK, Released
<1>2. held' = [held EXCEPT ![r] = {}] /\ shadow' = [shadow EXCEPT ![r] = [i \in Image |-> NoShadow]]
  BY DEF Released
<1>3. Planned' = [Planned EXCEPT ![r] = [i \in Image |-> "UNDEFINED"]]
  BY <1>1, <1>2 DEF Planned, NoShadow
<1>4. Stage' = [Stage EXCEPT ![r] = "open"]
  BY <1>1 DEF Stage
<1>5. \A q \in Recording : Current'[q] = IF q = r THEN {} ELSE Current[q]
  <2>1. ASSUME NEW q \in Recording, q # r
        PROVE  Current'[q] = Current[q]
    BY <1>1, <1>2, <2>1, CurrentFrame DEF IsApplied
  <2>2. Current'[r] = {}
    BY <1>1, <1>2 DEF Current
  <2> QED
    BY <2>1, <2>2
<1>6. Current' = [Current EXCEPT ![r] = {}]
  BY <1>5 DEF Current
<1> QED
  BY <1>1, <1>2, <1>3, <1>4, <1>6 DEF Recordings!Forget, Current, Planned, Stage

\* apply_host_state commits: its images are current, and no one else's are any more.
LEMMA ApplyCommits ==
  ASSUME Inv, NEW r \in Recording, Apply(r)
  PROVE  Recordings!Commit(r)
<1>1. /\ held \in [Recording -> SUBSET Image] /\ shadow \in [Recording -> [Image -> Shadow]]
      /\ revision \in [Image -> 0 .. RevisionMax] /\ RevisionMax \in Nat
      /\ state \in [Image -> State]
      /\ phase \in [Recording -> {"absent", "INITIAL", "RECORDING", "EXECUTABLE",
                                  "HOST_APPLIED", "HOST_EXECUTED"}]
  BY GraphicsAssumption DEF Inv, GTypeOK
<1>2. held' = held /\ phase[r] = "EXECUTABLE" /\ phase' = [phase EXCEPT ![r] = "HOST_APPLIED"]
  BY DEF Apply
<1>3. Current[r] = held[r]
  BY <1>2 DEF Apply, IsCurrent, Current, ShadowRevision, IsApplied
<1>4. state' = [i \in Image |-> IF i \in held[r] THEN Planned[r][i] ELSE state[i]]
  BY DEF Apply, Planned
<1>5. \A q \in Recording, i \in Image : shadow'[q][i].to = shadow[q][i].to
  BY <1>1 DEF Apply, Shadow
<1>6. Planned' = Planned
  BY <1>5 DEF Planned
<1>7. Stage[r] = "open" /\ Stage' = [Stage EXCEPT ![r] = "committed"]
  BY <1>1, <1>2 DEF Stage
<1>8. \A i \in Image : revision'[i] = IF i \in held[r] THEN revision[i] + 1 ELSE revision[i]
  BY DEF Apply, NextRevision
<1>9. ASSUME NEW q \in Recording
      PROVE  Current'[q] = IF q = r THEN Current[r] ELSE Current[q] \ held[r]
  <2>1. CASE q = r
    <3>1. \A i \in held[r] : ShadowRevision(r, i)' = revision'[i]
      BY <1>1, <1>2, <1>8 DEF Apply, NextRevision, ShadowRevision, IsApplied, Shadow
    <3> QED
      BY <1>2, <1>3, <2>1, <3>1 DEF Current
  <2>2. CASE q # r
    <3>1. shadow'[q] = shadow[q] /\ phase'[q] = phase[q]
      BY <1>1, <1>2, <2>2 DEF Apply
    <3>2. \A i \in held[q] : ShadowRevision(q, i)' = ShadowRevision(q, i)
      BY <3>1 DEF ShadowRevision, IsApplied
    <3>3. \A i \in held[q] : /\ i \in Image /\ ShadowRevision(q, i) <= revision[i]
                             /\ ShadowRevision(q, i) \in Int /\ revision[i] \in Int
      BY <1>1 DEF Inv, NotAhead, ShadowRevision, Shadow
    <3>4. \A i \in held[q] : revision'[i] = ShadowRevision(q, i)
                               <=> revision[i] = ShadowRevision(q, i) /\ i \notin held[r]
      BY <1>8, <3>3
    <3> QED
      BY <1>2, <2>2, <3>2, <3>4 DEF Current
  <2> QED
    BY <2>1, <2>2
<1>10. Current' = [q \in Recording |-> IF q = r THEN Current[r] ELSE Current[q] \ held[r]]
  BY <1>9 DEF Current
<1> QED
  BY <1>2, <1>3, <1>4, <1>6, <1>7, <1>10 DEF Recordings!Commit, Current, Planned, Stage

LEMMA ExecuteFinishes ==
  ASSUME Inv, NEW r \in Recording, Execute(r)
  PROVE  Recordings!Finish(r)
<1>1. /\ phase[r] = "HOST_APPLIED" /\ phase' = [phase EXCEPT ![r] = "HOST_EXECUTED"]
      /\ UNCHANGED <<state, revision, held, shadow>>
      /\ \A i \in held[r] : revision[i] = shadow[r][i].applied
  BY DEF Execute, MayExecute, Packets, images
<1>2. Current[r] = held[r]
  BY <1>1 DEF Current, ShadowRevision, IsApplied
<1>3. \A q \in Recording : IsApplied(q)' = IsApplied(q)
  BY <1>1 DEF IsApplied, Inv, GTypeOK
<1>4. Current' = Current
  <2>1. \A q \in Recording : Current'[q] = Current[q]
    BY <1>1, <1>3, CurrentFrame
  <2> QED
    BY <2>1 DEF Current
<1>5. Stage[r] = "committed" /\ Stage' = [Stage EXCEPT ![r] = "finished"]
  BY <1>1 DEF Stage, Inv, GTypeOK
<1>6. Planned' = Planned
  BY <1>1 DEF Planned
<1> QED
  BY <1>1, <1>2, <1>4, <1>5, <1>6 DEF Recordings!Finish, Current, Planned, Stage

LEMMA DestroyRenews ==
  ASSUME Inv, NEW i \in Image, DestroyImage(i)
  PROVE  Recordings!Renew(i)
<1>1. \A r \in Recording : i \notin held[r] /\ held[r] \subseteq Image
  BY DestroyedNotHeld DEF Inv, GTypeOK
<1>2. UNCHANGED <<held, shadow, phase>> /\ state' = [state EXCEPT ![i] = "UNDEFINED"]
      /\ \A j \in Image : j # i => revision'[j] = revision[j]
  BY DEF DestroyImage, Inv, GTypeOK
<1>3. Current' = Current
  <2>1. \A r \in Recording : Current'[r] = Current[r]
    BY <1>1, <1>2, CurrentFrame DEF IsApplied
  <2> QED
    BY <2>1 DEF Current
<1>4. Stage' = Stage /\ Planned' = Planned
  BY <1>2 DEF Stage, Planned
<1> QED
  BY <1>1, <1>2, <1>3, <1>4 DEF Recordings!Renew, Current, Planned, Stage

LEMMA MappedStep == Inv /\ [GNext]_gvars => Recordings!Next \/ UNCHANGED mapped
<1> SUFFICES ASSUME Inv, [GNext]_gvars PROVE Recordings!Next \/ UNCHANGED mapped
  OBVIOUS
<1>1. CASE UNCHANGED <<state, revision, held, shadow, phase>>
  BY <1>1, Stutter DEF Stage, IsApplied, Inv
<1>2. CASE Recycled \/ Placed \/ UNCHANGED gvars
  BY <1>1, <1>2 DEF Recycled, Placed, MemoryStep, AllocateMemory, DestroyMemory, Pin, Unpin,
                    CreateImage, BindImage, ExecuteFails, Packets, gvars, images
<1>3. CASE Progress
  <2>1. UNCHANGED <<revision, state, held, shadow>>
        /\ \A r \in Recording : IsApplied(r)' = IsApplied(r) /\ Stage'[r] = Stage[r]
    BY <1>3 DEF Progress, images, IsApplied, Stage, Inv, GTypeOK
  <2> QED
    BY <2>1, Stutter DEF Inv
<1>4. CASE Recorded
  BY <1>4, RecordedPlans DEF Recorded, Recordings!Next
<1>5. CASE Dropped
  BY <1>5, DroppedForgets DEF Dropped, Recordings!Next
<1>6. ASSUME NEW r \in Recording, Apply(r) \/ Execute(r)
      PROVE  Recordings!Next
  BY <1>6, ApplyCommits, ExecuteFinishes DEF Recordings!Next
<1>7. ASSUME NEW i \in Image, DestroyImage(i)
      PROVE  Recordings!Next
  BY <1>7, DestroyRenews DEF Recordings!Next
<1> QED
  BY <1>2, <1>3, <1>4, <1>5, <1>6, <1>7, Kinds DEF Inv

\* Recordings are transactions over image states: apply_host_state commits all of
\* a recording's plans, and only if no other recording was applied to one of its
\* images since it first named it; execute_host runs only on its own commit.
THEOREM TransactionsImplemented == GSpec => TransactionsSpec
<1>1. Inv /\ [GNext]_gvars => [Recordings!Next]_(Recordings!vars)
  BY MappedStep DEF mapped, Recordings!vars, Current, Planned, Stage
<1> QED
  BY <1>1, MappedInit, Invariance, PTL DEF GSpec, TransactionsSpec, Recordings!Spec

-----------------------------------------------------------------------------
(* The host copy queue.                                                    *)

Copy == [source : Buffer, fromMemory : Memory, from : Nat, fromVa : Nat,
         destination : Buffer, toMemory : Memory, to : Nat, toVa : Nat, n : Nat]

Scratch == {"code", "store", "write"}

CType ==
  /\ length \in [Buffer -> Nat] /\ place \in [Buffer -> Memory \cup {Nothing}]
  /\ start \in [Buffer -> Nat] /\ uses \in [Buffer -> Int]
  /\ copies \in [CopyBuffer -> Seq(Copy)]
  /\ \A c \in CopyBuffer : Len(copies[c]) <= MaxCopies
  /\ sequence \in Nat /\ marker \in [Fence -> Nat] /\ signal \in [Fence -> Nat]
  /\ scratch \in [Scratch -> Nat] /\ given \subseteq [first : Nat, n : Nat]
  /\ \A m \in Allocated : size[m] \in Sizes

\* A bound buffer lies in its memory.
BuffersFit ==
  \A b \in Buffer : place[b] # Nothing =>
    /\ b \in Live /\ place[b] \in Allocated
    /\ start[b] + length[b] <= size[place[b]]

-----------------------------------------------------------------------------
(* What a step does to memories and buffers.                               *)

LEMMA NextGInv == Inv /\ [GNext]_gvars => Inv'
  BY NextType, NextCounts, NextDangling, NextRevisions DEF Inv, Revisions

\* A host call changes nothing of the images but how many addresses are left and
\* how many buffers are bound.
HostSide ==
  UNCHANGED <<size, va, spent, boundImages, images, phase, stream, held, shadow>>

LEMMA HostFrame ==
  ASSUME Inv, HostSide, nextVa' \in Nat, boundBuffers' \in [Memory -> Nat]
  PROVE  Inv'
<1>1. UNCHANGED <<size, va, spent, boundImages, footprint, home, where, state, revision,
                  references, pins, phase, commands, clears, target, depthTarget, scissor,
                  held, shadow>>
  BY DEF HostSide, images, stream
<1>2. GTypeOK'
  BY <1>1 DEF Inv, GTypeOK
<1>3. CountersAreExact'
  BY <1>1 DEF Inv, CountersAreExact, Keepers, Guests
<1>4. NothingDangles' /\ Homed'
  BY <1>1 DEF Inv, NothingDangles, Homed, Exists
<1>5. NotAhead' /\ RevisionDecides'
  BY <1>1 DEF Inv, NotAhead, RevisionDecides, ShadowRevision, IsApplied
<1> QED
  BY <1>2, <1>3, <1>4, <1>5 DEF Inv

\* A memory comes or goes; or all of them stay.
Comes == \E m \in Memory, n \in Sizes : Allocate(m, n)
Goes == \E m \in Memory : Relinquish(m)
Stay == UNCHANGED <<size, va>>

\* Addresses that a packet, or nothing, takes.
PacketAddress == nextVa' = nextVa \/ (MayReserve(1) /\ nextVa' = nextVa + Span(1))

LEMMA GraphicsSide ==
  ASSUME [GNext]_gvars
  PROVE  UNCHANGED boundBuffers /\ (Comes \/ Goes \/ (Stay /\ PacketAddress))
<1>1. CASE MemoryStep
  <2>1. ASSUME NEW m \in Memory, DestroyMemory(m) PROVE Goes /\ UNCHANGED boundBuffers
    BY <2>1 DEF DestroyMemory, Relinquish, Goes
  <2>2. ASSUME NEW m \in Memory, NEW n \in Sizes, AllocateMemory(m, n)
        PROVE  Comes /\ UNCHANGED boundBuffers
    BY <2>2 DEF AllocateMemory, Allocate, Comes
  <2> QED BY <1>1, <2>1, <2>2 DEF MemoryStep
<1>2. CASE ImageStep
  BY <1>2 DEF ImageStep, DestroyImage, Pin, Unpin, CreateImage, BindImage, memories,
              Stay, PacketAddress
<1>3. CASE RecordStep
  BY <1>3 DEF RecordStep, SetScissor, Clear, BindColorTarget, BindDepthTarget, Transition,
              Record, memories, Stay, PacketAddress
<1>4. CASE RecordingStep
  BY <1>4 DEF RecordingStep, CreateRecording, DestroyRecording, Begin, End, Reset, Released,
              Unchanging, memories, Stay, PacketAddress
<1>5. CASE \E r \in Recording : Apply(r) \/ Execute(r) \/ ExecuteFails(r)
  BY <1>5 DEF Apply, Execute, ExecuteFails, Packets, memories, Stay, PacketAddress
<1>6. CASE UNCHANGED gvars
  BY <1>6 DEF gvars, memories, Stay, PacketAddress
<1> QED
  BY <1>1, <1>2, <1>3, <1>4, <1>5, <1>6 DEF GNext

\* The steps of the graphics half, with what they do to the bytes.
GraphicsHalf ==
  \/ \E m \in Memory : FreeMemory(m) \/ \E n \in Sizes : AllocateMemory(m, n) /\ Aside
  \/ (ImageStep \/ RecordStep \/ RecordingStep) /\ Aside
  \/ \E r \in Recording : (Apply(r) /\ Aside) \/ ExecuteClears(r)

LEMMA HalfIsGraphics ==
  ASSUME GraphicsHalf
  PROVE  GNext /\ UNCHANGED <<buffers, lists, queue, sequence, marker, signal, given>>
  BY DEF GraphicsHalf, GNext, MemoryStep, FreeMemory, ExecuteClears, Aside, Take,
         submissions, calls

LEMMA QueueSide ==
  ASSUME QueueStep \/ HostStep
  PROVE  HostSide /\ UNCHANGED <<buffers, lists, boundBuffers>>
<1>1. CASE QueueStep
  BY <1>1 DEF QueueStep, CreateQueue, DestroyQueue, CreateFence, DestroyFence, ResetFence,
              HostSide, gvars, memories
<1>2. CASE HostStep
  <2> USE DEF Take, HostSide, gvars, memories
  <2> DEFINE Done == HostSide /\ UNCHANGED <<buffers, lists, boundBuffers>>
  <2>1. ASSUME HostRegisters \/ \E n \in Requests : ReserveVa(n) PROVE Done
    BY <2>1 DEF HostRegisters, ReserveVa
  <2>2. ASSUME NEW b, NEW o, NEW n, NEW v, HostStoreOf(b, o, n, v) PROVE Done
    BY <2>2 DEF HostStoreOf
  <2>3. ASSUME NEW m, NEW o, NEW n, NEW v, HostWrite(m, o, n, v) \/ HostFill(m, o, n, v)
        PROVE  Done
    BY <2>3 DEF HostWrite, HostFill
  <2>4. ASSUME NEW a, NEW b, NEW p, NEW q, NEW n, NEW w, NEW v, HostCopyFill(a, p, b, q, n, w, v)
        PROVE  Done
    BY <2>4 DEF HostCopyFill
  <2> HIDE DEF Done
  <2> QED BY <1>2, <2>1, <2>2, <2>3, <2>4 DEF HostStep, HostStore, HostStoreSpan, Done
<1> QED
  BY <1>1, <1>2

\* Outside of BufferStep and CopyStep no buffer and no recorded copy changes, and
\* a memory that goes has no buffer in it.
LEMMA NoBufferStep ==
  ASSUME [CNext]_cvars, ~BufferStep, ~CopyStep
  PROVE  UNCHANGED <<buffers, lists, boundBuffers>> /\ (Comes \/ Goes \/ Stay)
<1>1. CASE QueueStep \/ HostStep
  BY <1>1, QueueSide DEF HostSide, Stay
<1>2. CASE GraphicsHalf
  BY <1>2, HalfIsGraphics, GraphicsSide
<1>3. CASE UNCHANGED cvars
  BY <1>3 DEF cvars, gvars, memories, Stay
<1> QED
  BY <1>1, <1>2, <1>3 DEF CNext, GraphicsHalf
-----------------------------------------------------------------------------
(* Buffers are counted.                                                    *)

LEMMA UsesFinite ==
  ASSUME NEW b
  PROVE  IsFiniteSet(AllUses(b))
<1>1. IsFiniteSet(CopyBuffer) /\ IsFiniteSet(1 .. MaxCopies)
  BY CopyQueueAssumption, FS_Interval
<1>2. IsFiniteSet(CopyBuffer \X (1 .. MaxCopies))
  BY <1>1, FS_Product
<1>3. IsFiniteSet({"source", "destination"})
  <2>1. {"source", "destination"} = {"source"} \cup {"destination"}
    OBVIOUS
  <2>2. IsFiniteSet({"source"})
    BY FS_Singleton
  <2> QED BY <2>1, <2>2, FS_AddElement
<1>4. IsFiniteSet((CopyBuffer \X (1 .. MaxCopies)) \X {"source", "destination"})
  BY <1>2, <1>3, FS_Product
<1> QED
  BY <1>4, FS_Subset DEF AllUses

\* The entries A of one list, with where they are and what for.
LEMMA Tagged ==
  ASSUME NEW A, IsFiniteSet(A), NEW c \in CopyBuffer, NEW t \in {"source", "destination"}, NEW T,
         \A k \in A : <<<<c, k>>, t>> \in T, \A x \in T : \E k \in A : x = <<<<c, k>>, t>>
  PROVE  IsFiniteSet(T) /\ Cardinality(T) = Cardinality(A)
<1> DEFINE f == [k \in A |-> <<<<c, k>>, t>>]
<1>1. f \in [A -> T] /\ \A k \in A : f[k] = <<<<c, k>>, t>>
  OBVIOUS
<1>2. \A j, k \in A : f[j] = f[k] => j = k
  BY <1>1
<1>3. \A x \in T : \E k \in A : f[k] = x
  BY <1>1
<1> HIDE DEF f
<1>4. f \in Bijection(A, T)
  BY <1>1, <1>2, <1>3 DEF Bijection, Injection, Surjection, IsInjective
<1>5. ExistsBijection(A, T)
  BY <1>4 DEF ExistsBijection
<1> QED
  BY <1>5, FS_Bijection

As(c, b, t) ==
  {k \in DOMAIN copies[c] :
    b = IF t = "source" THEN copies[c][k].source ELSE copies[c][k].destination}

UsesAt(c, b) == {u \in AllUses(b) : u[1][1] = c}

LEMMA UsesInOne ==
  ASSUME CType, NEW c \in CopyBuffer, NEW b \in Buffer
  PROVE  Cardinality(UsesAt(c, b)) = UsesIn(c, b)
<1> DEFINE A == As(c, b, "source")
           B == As(c, b, "destination")
           TA == {<<<<c, k>>, "source">> : k \in A}
           TB == {<<<<c, k>>, "destination">> : k \in B}
<1>1. copies[c] \in Seq(Copy) /\ Len(copies[c]) \in Nat /\ Len(copies[c]) <= MaxCopies
      /\ MaxCopies \in Nat /\ DOMAIN copies[c] = 1 .. Len(copies[c])
  BY CopyQueueAssumption, LenProperties DEF CType
<1>2. IsFiniteSet(DOMAIN copies[c]) /\ DOMAIN copies[c] \subseteq 1 .. MaxCopies
  <2>1. IsFiniteSet(1 .. Len(copies[c]))
    BY <1>1, FS_Interval
  <2> QED BY <1>1, <2>1
<1>3. IsFiniteSet(A) /\ IsFiniteSet(B)
  BY <1>2, FS_Subset DEF As
<1>4. UsesIn(c, b) = Cardinality(A) + Cardinality(B)
  <2>1. /\ A = {k \in DOMAIN copies[c] : copies[c][k].source = b}
        /\ B = {k \in DOMAIN copies[c] : copies[c][k].destination = b}
    BY DEF As
  <2> HIDE DEF A, B
  <2> QED BY <2>1 DEF UsesIn
<1>5. UsesAt(c, b) = TA \cup TB
  <2>1. ASSUME NEW u \in UsesAt(c, b) PROVE u \in TA \cup TB
    <3>1. /\ u \in (CopyBuffer \X (1 .. MaxCopies)) \X {"source", "destination"}
          /\ u[1][1] = c /\ u[1][2] \in DOMAIN copies[c]
          /\ b = IF u[2] = "source" THEN copies[c][u[1][2]].source
                 ELSE copies[c][u[1][2]].destination
      BY DEF UsesAt, AllUses
    <3>2. u = <<<<c, u[1][2]>>, u[2]>>
      BY <3>1
    <3> QED BY <3>1, <3>2 DEF As
  <2>2. ASSUME NEW k \in A PROVE <<<<c, k>>, "source">> \in UsesAt(c, b)
    BY <1>2, <2>2 DEF UsesAt, AllUses, As
  <2>3. ASSUME NEW k \in B PROVE <<<<c, k>>, "destination">> \in UsesAt(c, b)
    BY <1>2, <2>3 DEF UsesAt, AllUses, As
  <2> QED BY <2>1, <2>2, <2>3
<1>6. TA \cap TB = {}
  OBVIOUS
<1> HIDE DEF A, B
<1>7. IsFiniteSet(TA) /\ Cardinality(TA) = Cardinality(A)
  <2>1. /\ \A k \in A : <<<<c, k>>, "source">> \in TA
        /\ \A x \in TA : \E k \in A : x = <<<<c, k>>, "source">>
    OBVIOUS
  <2> HIDE DEF TA, TB
  <2> QED BY <1>3, <2>1, Tagged
<1>8. IsFiniteSet(TB) /\ Cardinality(TB) = Cardinality(B)
  <2>1. /\ \A k \in B : <<<<c, k>>, "destination">> \in TB
        /\ \A x \in TB : \E k \in B : x = <<<<c, k>>, "destination">>
    OBVIOUS
  <2> HIDE DEF TA, TB
  <2> QED BY <1>3, <2>1, Tagged
<1> HIDE DEF TA, TB
<1>9. /\ Cardinality(TA \cup TB) = Cardinality(TA) + Cardinality(TB) - Cardinality(TA \cap TB)
      /\ Cardinality(TA \cap TB) = 0 /\ Cardinality(TA) \in Nat /\ Cardinality(TB) \in Nat
  BY <1>6, <1>7, <1>8, FS_Union, FS_EmptySet, FS_CardinalityType
<1> QED
  BY <1>4, <1>5, <1>7, <1>8, <1>9
\* One more copy: one more use of its source, and one of its destination.
LEMMA RecordCounts ==
  ASSUME Inv, CType, UsesAreCounted, NEW c \in CopyBuffer, NEW a \in Buffer, NEW b \in Buffer,
         NEW p \in Nat, NEW q \in Nat, NEW n \in Nat,
         RecordCopy(c, a, p, b, q, n), NEW x \in Buffer
  PROVE  uses'[x] = Cardinality(AllUses(x)')
<1> DEFINE copy == CopyOf(a, p, b, q, n)
           list == copies[c]
           s == <<<<c, Len(list) + 1>>, "source">>
           d == <<<<c, Len(list) + 1>>, "destination">>
<1>1. list \in Seq(Copy) /\ Len(list) \in Nat /\ Len(list) + 1 \in 1 .. MaxCopies
  BY SMTT(60), CopyQueueAssumption, LenProperties DEF CType, RecordCopy
<1>2. copies' = [copies EXCEPT ![c] = Append(list, copy)] /\ uses' = Counted(a, b)
      /\ copy.source = a /\ copy.destination = b
  BY DEF RecordCopy, CopyOf
<1>3. /\ DOMAIN list = 1 .. Len(list) /\ DOMAIN Append(list, copy) = 1 .. Len(list) + 1
      /\ \A k \in 1 .. Len(list) : Append(list, copy)[k] = list[k]
      /\ Append(list, copy)[Len(list) + 1] = copy
  <2>1. copy \in Copy
    <3>1. /\ a \in Buffer /\ b \in Buffer /\ place[a] \in Memory /\ place[b] \in Memory
          /\ start[a] \in Nat /\ start[b] \in Nat /\ va \in [Memory -> Nat]
      BY DEF RecordCopy, CType, Inv, GTypeOK
    <3> QED BY <3>1 DEF CopyOf, Copy
  <2>2. Len(Append(list, copy)) = Len(list) + 1 /\ Append(list, copy) \in Seq(Copy)
    BY <1>1, <2>1, AppendProperties
  <2>3. DOMAIN list = 1 .. Len(list) /\ DOMAIN Append(list, copy) = 1 .. Len(list) + 1
    BY <1>1, <2>2, LenProperties
  <2> HIDE DEF copy, list
  <2> QED BY <1>1, <2>1, <2>3, AppendProperties
<1> HIDE DEF copy, list
<1>4. AllUses(x)' = AllUses(x) \cup (IF x = a THEN {s} ELSE {}) \cup (IF x = b THEN {d} ELSE {})
  <2> DEFINE Place == (CopyBuffer \X (1 .. MaxCopies)) \X {"source", "destination"}
             In(u, l) == /\ u[1][2] \in DOMAIN l
                         /\ x = IF u[2] = "source" THEN l[u[1][2]].source
                                ELSE l[u[1][2]].destination
  <2>1. /\ AllUses(x) = {u \in Place : In(u, copies[u[1][1]])}
        /\ AllUses(x)' = {u \in Place : In(u, copies'[u[1][1]])}
    BY DEF AllUses
  <2>2. \A u \in Place : u[1][1] # c => copies'[u[1][1]] = copies[u[1][1]]
    BY <1>2 DEF CType
  <2>3. copies'[c] = Append(list, copy)
    BY <1>2 DEF CType
  <2>4. s \in Place /\ d \in Place /\ s[1][1] = c /\ d[1][1] = c
    BY <1>1
  <2>5. \A u \in Place : u[1][1] = c /\ u[1][2] = Len(list) + 1 => u \in {s, d}
    OBVIOUS
  <2>6. ASSUME NEW u \in Place, u[1][1] = c
        PROVE  In(u, Append(list, copy)) <=>
                 \/ In(u, list)
                 \/ u = s /\ x = a
                 \/ u = d /\ x = b
    <3>1. CASE u[1][2] = Len(list) + 1
      BY <1>1, <1>2, <1>3, <2>5, <2>6, <3>1
    <3>2. CASE u[1][2] # Len(list) + 1
      <4>1. u # s /\ u # d /\ u[1][2] \in Nat
        BY <3>2, CopyQueueAssumption
      <4>2. u[1][2] \in 1 .. Len(list) + 1 <=> u[1][2] \in 1 .. Len(list)
        BY <1>1, <3>2, <4>1
      <4> QED BY <1>3, <4>1, <4>2
    <3> QED BY <3>1, <3>2
  <2>7. s \in AllUses(x)' <=> x = a
    <3>1. s \in AllUses(x)' <=> In(s, Append(list, copy))
      <4> HIDE DEF In, Place, s
      <4> QED BY <2>1, <2>3, <2>4
    <3>2. s[1][2] = Len(list) + 1 /\ s[2] = "source"
      OBVIOUS
    <3>3. In(s, Append(list, copy)) <=> x = copy.source
      <4> HIDE DEF s
      <4> QED BY <1>1, <1>3, <3>2
    <3> QED BY <1>2, <3>1, <3>3
  <2>8. d \in AllUses(x)' <=> x = b
    <3>1. d \in AllUses(x)' <=> In(d, Append(list, copy))
      <4> HIDE DEF In, Place, d
      <4> QED BY <2>1, <2>3, <2>4
    <3>2. d[1][2] = Len(list) + 1 /\ d[2] = "destination"
      OBVIOUS
    <3>3. In(d, Append(list, copy)) <=> x = copy.destination
      <4> HIDE DEF d
      <4> QED BY <1>1, <1>3, <3>2
    <3> QED BY <1>2, <3>1, <3>3
  <2>9. \A u \in Place : In(u, copies[u[1][1]]) => In(u, copies'[u[1][1]])
    <3> HIDE DEF In, Place, s, d
    <3> QED BY <2>2, <2>3, <2>6 DEF list
  <2>10. \A u \in Place : In(u, copies'[u[1][1]]) => (In(u, copies[u[1][1]]) \/ u \in {s, d})
    <3> HIDE DEF In, Place, s, d
    <3> QED BY <2>2, <2>3, <2>6 DEF list
  <2>11. AllUses(x) \subseteq AllUses(x)' /\ AllUses(x)' \subseteq AllUses(x) \cup {s, d}
    <3> HIDE DEF In, Place, s, d
    <3> QED BY <2>1, <2>9, <2>10
  <2> HIDE DEF In, Place, s, d
  <2>12. CASE x = a
    <3>1. CASE x = b
      BY <2>7, <2>8, <2>11, <2>12, <3>1
    <3>2. CASE x # b
      <4>1. d \notin AllUses(x)
        BY <2>8, <2>11, <3>2
      <4> QED BY <2>7, <2>8, <2>11, <2>12, <3>2, <4>1
    <3> QED BY <3>1, <3>2
  <2>13. CASE x # a
    <3>1. CASE x = b
      BY <2>7, <2>8, <2>11, <2>13, <3>1
    <3>2. CASE x # b
      BY <2>7, <2>8, <2>11, <2>13, <3>2
    <3> QED BY <3>1, <3>2
  <2> QED BY <2>12, <2>13
<1>5. s \notin AllUses(x) /\ d \notin AllUses(x) /\ s # d
  <2>1. Len(list) + 1 \notin DOMAIN list
    BY <1>1, <1>3
  <2> QED BY <2>1 DEF AllUses, list
<1> HIDE DEF s, d
<1>6. uses[x] = Cardinality(AllUses(x)) /\ uses[x] \in Int /\ IsFiniteSet(AllUses(x))
  BY UsesFinite DEF UsesAreCounted, CType
<1>7. uses'[x] = uses[x] + (IF x = a THEN 1 ELSE 0) + (IF x = b THEN 1 ELSE 0)
  <2> DEFINE first == [uses EXCEPT ![a] = @ + 1]
  <2>1. uses \in [Buffer -> Int]
    BY DEF CType
  <2>2. \A y \in Buffer : first[y] = uses[y] + (IF y = a THEN 1 ELSE 0)
    BY <2>1
  <2>3. uses' = [first EXCEPT ![b] = @ + 1]
    BY <1>2 DEF Counted
  <2>4. DOMAIN first = Buffer
    BY <2>1
  <2> HIDE DEF first
  <2>5. uses'[x] = first[x] + (IF x = b THEN 1 ELSE 0)
    BY <2>1, <2>2, <2>3, <2>4
  <2> QED BY <1>6, <2>1, <2>2, <2>5
<1>8. CASE x # a /\ x # b
  BY <1>4, <1>6, <1>7, <1>8
<1>9. CASE x = a /\ x # b
  <2>1. AllUses(x)' = AllUses(x) \cup {s}
    BY <1>4, <1>9
  <2>2. Cardinality(AllUses(x) \cup {s}) = uses[x] + 1
    BY <1>5, <1>6, FS_AddElement
  <2> QED BY <1>6, <1>7, <1>9, <2>1, <2>2
<1>10. CASE x # a /\ x = b
  <2>1. AllUses(x)' = AllUses(x) \cup {d}
    BY <1>4, <1>10
  <2>2. Cardinality(AllUses(x) \cup {d}) = uses[x] + 1
    BY <1>5, <1>6, FS_AddElement
  <2> QED BY <1>6, <1>7, <1>10, <2>1, <2>2
<1>11. CASE x = a /\ x = b
  <2>1. AllUses(x)' = (AllUses(x) \cup {s}) \cup {d}
    BY <1>4, <1>11
  <2>2. Cardinality(AllUses(x) \cup {s}) = uses[x] + 1 /\ IsFiniteSet(AllUses(x) \cup {s})
    BY <1>5, <1>6, FS_AddElement
  <2>3. d \notin AllUses(x) \cup {s}
    BY <1>5
  <2>4. Cardinality((AllUses(x) \cup {s}) \cup {d}) = uses[x] + 1 + 1
    BY <2>2, <2>3, FS_AddElement
  <2> QED BY <1>6, <1>7, <1>11, <2>1, <2>4
<1> QED
  BY <1>8, <1>9, <1>10, <1>11

\* release_records gives back exactly the uses of its list.
LEMMA ForgetCounts ==
  ASSUME CType, UsesAreCounted, NEW c \in CopyBuffer, Forget(c), NEW x \in Buffer
  PROVE  uses'[x] = Cardinality(AllUses(x)')
<1>1. uses[x] = Cardinality(AllUses(x)) /\ uses[x] \in Int /\ IsFiniteSet(AllUses(x))
  BY UsesFinite DEF UsesAreCounted, CType
<1>2. uses'[x] = uses[x] - UsesIn(c, x)
  BY DEF Forget
<1>3. AllUses(x)' = AllUses(x) \ UsesAt(c, x)
  <2>1. \A u \in (CopyBuffer \X (1 .. MaxCopies)) \X {"source", "destination"} :
          copies'[u[1][1]] = IF u[1][1] = c THEN <<>> ELSE copies[u[1][1]]
    BY DEF Forget, CType
  <2>2. \A u \in AllUses(x)' : u[1][1] # c
    BY <2>1 DEF AllUses
  <2> QED BY <2>1, <2>2 DEF AllUses, UsesAt
<1>4. UsesAt(c, x) \subseteq AllUses(x) /\ AllUses(x) \cap UsesAt(c, x) = UsesAt(c, x)
  BY DEF UsesAt
<1>5. Cardinality(AllUses(x) \ UsesAt(c, x)) =
        Cardinality(AllUses(x)) - Cardinality(AllUses(x) \cap UsesAt(c, x))
  BY <1>1, FS_Difference
<1> QED
  BY <1>1, <1>2, <1>3, <1>4, <1>5, UsesInOne

Tenants(m) == {b \in Buffer : place[b] = m}

\* A buffer enters or leaves a memory.
LEMMA BoundCountsBuffers ==
  ASSUME Inv, CType, UsesAreCounted, NEW b \in Buffer,
         \/ \E m \in Memory, offset \in Dword : BindBuffer(b, m, offset)
         \/ \E n \in Nat : Leave(b, n),
         NEW x \in Memory
  PROVE  boundBuffers'[x] = Cardinality(Tenants(x)')
<1>1. /\ boundBuffers[x] = Cardinality(Tenants(x)) /\ IsFiniteSet(Tenants(x))
      /\ boundBuffers \in [Memory -> Nat] /\ Nothing \notin Memory
      /\ place \in [Buffer -> Memory \cup {Nothing}]
  BY CopyQueueAssumption, GraphicsAssumption, FS_Subset
     DEF UsesAreCounted, Tenants, Inv, GTypeOK, CType
<1>2. ASSUME NEW m \in Memory, NEW offset \in Dword, BindBuffer(b, m, offset)
      PROVE  boundBuffers'[x] = Cardinality(Tenants(x)')
  <2>1. /\ place[b] = Nothing /\ place' = [place EXCEPT ![b] = m]
        /\ boundBuffers' = [boundBuffers EXCEPT ![m] = @ + 1]
    BY <1>2 DEF BindBuffer
  <2>2. CASE x = m
    <3>1. Tenants(x)' = Tenants(x) \cup {b} /\ b \notin Tenants(x)
      BY <1>1, <2>1, <2>2 DEF Tenants
    <3> QED BY ZenonT(60), <1>1, <2>1, <2>2, <3>1, FS_AddElement
  <2>3. CASE x # m
    <3>1. Tenants(x)' = Tenants(x)
      BY <1>1, <2>1, <2>3 DEF Tenants
    <3> QED BY <1>1, <2>1, <2>3, <3>1
  <2> QED BY <2>2, <2>3
<1>3. ASSUME NEW n \in Nat, Leave(b, n)
      PROVE  boundBuffers'[x] = Cardinality(Tenants(x)')
  <2>1. /\ place' = [place EXCEPT ![b] = Nothing]
        /\ boundBuffers'[x] = IF x = place[b] THEN boundBuffers[x] - 1 ELSE boundBuffers[x]
    BY <1>3 DEF Leave
  <2>2. Tenants(x)' = Tenants(x) \ {b} /\ (x = place[b] <=> b \in Tenants(x))
    BY <1>1, <2>1 DEF Tenants
  <2> QED BY ZenonT(60), <1>1, <2>1, <2>2, FS_RemoveElement
<1> QED
  BY <1>2, <1>3

-----------------------------------------------------------------------------
(* The steps, by what they do to buffers and to recorded copies.           *)

\* A buffer is created, bound, or leaves; a copy is recorded, or a list of them
\* forgotten; or none of this.
Created == \E b \in Buffer, n \in Lengths : CreateBuffer(b, n)
Bound == \E b \in Buffer, m \in Memory, offset \in Dword : BindBuffer(b, m, offset)
Left == \E b \in Buffer, n \in Nat : Leave(b, n)
Noted == \E c \in CopyBuffer, a \in Live, b \in Live, p \in Nat, q \in Nat, n \in Nat \ {0} :
           RecordCopy(c, a, p, b, q, n)
Forgotten == \E c \in CopyBuffer : Forget(c)
Idle == UNCHANGED <<length, place, start, uses, copies, boundBuffers>> /\ (Comes \/ Goes \/ Stay)

LEMMA DwordIsNat == Dword \subseteq Nat
  BY MemoriesAssumption DEF Dword

LEMMA BufferKinds ==
  ASSUME CType, [CNext]_cvars
  PROVE  (Created \/ Bound \/ Left \/ Noted \/ Forgotten) \/ Idle
<1>1. ASSUME NEW b \in Buffer, UnbindBuffer(b) \/ DestroyBuffer(b)
      PROVE  Left
  BY <1>1 DEF UnbindBuffer, DestroyBuffer, Left, CType
<1>2. ASSUME NEW b \in Buffer, LockBuffer(b) \/ UnlockBuffer(b)
      PROVE  Idle
  BY <1>2 DEF LockBuffer, UnlockBuffer, Idle, Stay, gvars, memories, lists
<1>3. CASE BufferStep
  BY <1>1, <1>2, <1>3 DEF BufferStep, Created, Bound
<1>4. ASSUME NEW c \in CopyBuffer,
             CreateCopyBuffer(c) \/ BeginCopies(c) \/ EndCopies(c) \/ \E f \in Fence : Submit(c, f)
      PROVE  Idle
  BY <1>4 DEF CreateCopyBuffer, BeginCopies, EndCopies, Submit, Idle, Stay, gvars, memories,
              buffers, lists
<1>5. ASSUME NEW c \in CopyBuffer, ResetCopies(c) \/ DestroyCopyBuffer(c)
      PROVE  Forgotten
  BY <1>5 DEF ResetCopies, DestroyCopyBuffer, Forgotten
<1>6. ASSUME NEW c \in CopyBuffer, NEW a \in Live, NEW b \in Live, NEW p \in Dword, NEW q \in Dword,
             NEW n \in Lengths, RecordCopy(c, a, p, b, q, n)
      PROVE  Noted
  BY <1>6, DwordIsNat, CopyQueueAssumption DEF Noted
<1>7. CASE CopyStep
  BY <1>4, <1>5, <1>6, <1>7 DEF CopyStep
<1>8. CASE ~BufferStep /\ ~CopyStep
  BY <1>8, NoBufferStep DEF Idle, buffers, lists
<1> QED
  BY <1>3, <1>7, <1>8

\* What each of them leaves alone.
LEMMA Memoryless ==
  ASSUME Created \/ Bound \/ Left \/ Noted \/ Forgotten
  PROVE  Stay /\ UNCHANGED <<nextVa, submissions, calls, content>>
<1> USE DEF Stay, gvars, memories
<1>1. CASE Created \/ Bound
  BY <1>1 DEF Created, Bound, CreateBuffer, BindBuffer
<1>2. CASE Left
  BY <1>2 DEF Left, Leave
<1>3. CASE Noted
  BY <1>3 DEF Noted, RecordCopy
<1>4. CASE Forgotten
  BY <1>4 DEF Forgotten, Forget
<1> QED
  BY <1>1, <1>2, <1>3, <1>4

LEMMA NextUses ==
  ASSUME Inv, CType, UsesAreCounted, [CNext]_cvars
  PROVE  UsesAreCounted'
<1>1. ASSUME UNCHANGED <<uses, copies>>, NEW b \in Buffer
      PROVE  uses'[b] = Cardinality(AllUses(b)')
  BY <1>1 DEF UsesAreCounted, AllUses
<1>2. ASSUME UNCHANGED <<place, boundBuffers>>, NEW m \in Memory
      PROVE  boundBuffers'[m] = Cardinality({b \in Buffer : place'[b] = m})
  BY <1>2 DEF UsesAreCounted
<1>3. CASE Created
  <2>1. UNCHANGED <<uses, copies, place, boundBuffers>>
    BY <1>3 DEF Created, CreateBuffer, lists, gvars, memories
  <2> QED BY <1>1, <1>2, <2>1 DEF UsesAreCounted
<1>4. CASE Bound \/ Left
  <2>1. UNCHANGED <<uses, copies>>
    BY <1>4 DEF Bound, Left, BindBuffer, Leave, lists
  <2>2. \A m \in Memory : boundBuffers'[m] = Cardinality(Tenants(m)')
    BY <1>4, BoundCountsBuffers DEF Bound, Left
  <2> QED BY <1>1, <2>1, <2>2 DEF UsesAreCounted, Tenants
<1>5. CASE Noted \/ Forgotten
  <2>1. UNCHANGED <<place, boundBuffers>>
    BY <1>5 DEF Noted, Forgotten, RecordCopy, Forget, gvars, memories
  <2>2. \A b \in Buffer : uses'[b] = Cardinality(AllUses(b)')
    BY <1>5, RecordCounts, ForgetCounts DEF Noted, Forgotten, Live
  <2> QED BY <1>2, <2>1, <2>2 DEF UsesAreCounted
<1>6. CASE Idle
  BY <1>1, <1>2, <1>6 DEF Idle, UsesAreCounted
<1> QED
  BY <1>3, <1>4, <1>5, <1>6, BufferKinds

-----------------------------------------------------------------------------
(* Types, and where buffers lie.                                           *)

Tables ==
  /\ length \in [Buffer -> Nat] /\ place \in [Buffer -> Memory \cup {Nothing}]
  /\ start \in [Buffer -> Nat] /\ uses \in [Buffer -> Int]
  /\ copies \in [CopyBuffer -> Seq(Copy)]
  /\ \A c \in CopyBuffer : Len(copies[c]) <= MaxCopies

LEMMA CopyOfType ==
  ASSUME Inv, CType, NEW a \in Buffer, NEW b \in Buffer, NEW p \in Nat, NEW q \in Nat,
         NEW n \in Nat, Nothing \notin {place[a], place[b]}
  PROVE  CopyOf(a, p, b, q, n) \in Copy
<1>1. /\ place[a] \in Memory /\ place[b] \in Memory
      /\ start[a] \in Nat /\ start[b] \in Nat /\ va \in [Memory -> Nat]
  BY DEF CType, Inv, GTypeOK
<1> QED
  BY <1>1 DEF CopyOf, Copy

LEMMA NextTables ==
  ASSUME Inv, CType, [CNext]_cvars
  PROVE  Tables'
<1> USE DEF Tables
<1>1. CASE Created
  BY <1>1, CopyQueueAssumption DEF Created, CreateBuffer, CType, lists
<1>2. CASE Bound
  BY <1>2, DwordIsNat DEF Bound, BindBuffer, CType, lists
<1>3. CASE Left
  BY <1>3 DEF Left, Leave, CType, lists
<1>4. CASE Noted
  <2>1. PICK c \in CopyBuffer, a \in Live, b \in Live, p \in Nat, q \in Nat, n \in Nat \ {0} :
          RecordCopy(c, a, p, b, q, n)
    BY <1>4 DEF Noted
  <2> DEFINE copy == CopyOf(a, p, b, q, n)
  <2>2. a \in Buffer /\ b \in Buffer /\ copy \in Copy
    BY <2>1, CopyOfType DEF Live, RecordCopy
  <2>3. copies \in [CopyBuffer -> Seq(Copy)] /\ copies[c] \in Seq(Copy)
        /\ copies' = [copies EXCEPT ![c] = Append(copies[c], copy)]
        /\ Len(copies[c]) # MaxCopies /\ MaxCopies \in Nat
    BY <2>1, CopyQueueAssumption DEF CType, RecordCopy
  <2> HIDE DEF copy
  <2>4. Append(copies[c], copy) \in Seq(Copy) /\ Len(Append(copies[c], copy)) = Len(copies[c]) + 1
        /\ Len(copies[c]) \in Nat
    BY <2>2, <2>3, AppendProperties, LenProperties
  <2>5. \A d \in CopyBuffer : Len(copies[d]) <= MaxCopies
    BY DEF CType
  <2>6. copies' \in [CopyBuffer -> Seq(Copy)] /\ \A d \in CopyBuffer : Len(copies'[d]) <= MaxCopies
    BY <2>3, <2>4, <2>5
  <2>7. UNCHANGED <<length, place, start>> /\ uses' = Counted(a, b)
    BY <2>1 DEF RecordCopy
  <2>8. uses' \in [Buffer -> Int]
    <3>1. uses \in [Buffer -> Int]
      BY DEF CType
    <3>2. [uses EXCEPT ![a] = @ + 1] \in [Buffer -> Int]
      BY <2>2, <3>1
    <3> QED BY <2>2, <2>7, <3>2 DEF Counted
  <2> QED BY <2>6, <2>7, <2>8 DEF CType
<1>5. CASE Forgotten
  <2>1. PICK c \in CopyBuffer : Forget(c)
    BY <1>5 DEF Forgotten
  <2>2. \A b \in Buffer : UsesIn(c, b) \in Int
    <3> TAKE b \in Buffer
    <3>1. IsFiniteSet(UsesAt(c, b))
      BY UsesFinite, FS_Subset DEF UsesAt
    <3> QED BY <3>1, UsesInOne, FS_CardinalityType
  <2>3. <<>> \in Seq(Copy) /\ Len(<<>>) = 0
    BY EmptySeq
  <2>4. copies' = [copies EXCEPT ![c] = <<>>] /\ UNCHANGED <<length, place, start>>
        /\ uses' = [b \in Buffer |-> uses[b] - UsesIn(c, b)]
    BY <2>1 DEF Forget
  <2>5. uses' \in [Buffer -> Int]
    BY <2>2, <2>4 DEF CType
  <2> QED BY <2>3, <2>4, <2>5, CopyQueueAssumption DEF CType
<1>6. CASE Idle
  BY <1>6 DEF Idle, CType
<1> QED
  BY <1>1, <1>2, <1>3, <1>4, <1>5, <1>6, BufferKinds

Numbers ==
  /\ sequence \in Nat /\ marker \in [Fence -> Nat] /\ signal \in [Fence -> Nat]
  /\ scratch \in [Scratch -> Nat] /\ given \subseteq [first : Nat, n : Nat]

\* An address is asked for once.
Addressed(s) == s.scratch \in [Scratch -> Nat] /\ s.next \in Nat

LEMMA AskType ==
  ASSUME NEW s, Addressed(s), NEW k \in Scratch
  PROVE  Addressed(Ask(s, k))
<1>1. Span(1) \in Nat
  BY SpanIsNat
<1> QED
  BY <1>1 DEF Addressed, Ask

\* The calls that take addresses for their packets, and which.
Taken == Take(<<"write">>) \/ Take(<<"code", "store">>)

LEMMA TakenType ==
  ASSUME Inv, CType, Taken
  PROVE  scratch' \in [Scratch -> Nat] /\ nextVa' \in Nat
<1> DEFINE s0 == [scratch |-> scratch, next |-> nextVa]
<1>1. Addressed(s0)
  BY DEF Addressed, Inv, GTypeOK, CType
<1>2. CASE Take(<<"write">>)
  <2>1. scratch' = Ask(s0, "write").scratch /\ nextVa' = Ask(s0, "write").next
    BY <1>2 DEF Take, Asked
  <2> QED BY <1>1, <2>1, AskType DEF Addressed, Scratch
<1>3. CASE Take(<<"code", "store">>)
  <2>1. \/ scratch' = Ask(s0, "code").scratch /\ nextVa' = Ask(s0, "code").next
        \/ /\ scratch' = Ask(Ask(s0, "code"), "store").scratch
           /\ nextVa' = Ask(Ask(s0, "code"), "store").next
    BY <1>3 DEF Take, Asked
  <2>2. Addressed(Ask(s0, "code")) /\ Addressed(Ask(Ask(s0, "code"), "store"))
    BY <1>1, AskType DEF Scratch
  <2> QED BY <2>1, <2>2 DEF Addressed
<1> QED
  BY <1>2, <1>3 DEF Taken

\* What a step does to the numbers: a submission, a fence, a range, an address of
\* a call, or the queue; and otherwise nothing.
Submitted == \E c \in CopyBuffer, f \in Fence : Submit(c, f)
Fenced == \E f \in Fence : CreateFence(f) \/ DestroyFence(f) \/ ResetFence(f)
Queued == CreateQueue \/ DestroyQueue
Reserved == \E n \in Requests : ReserveVa(n)
Silent == /\ UNCHANGED <<sequence, marker, signal, scratch, given>>
          /\ Comes \/ Goes \/ (Stay /\ PacketAddress)
Called == UNCHANGED <<sequence, marker, signal, given>> /\ Stay /\ Taken

LEMMA NumberKinds ==
  ASSUME [CNext]_cvars
  PROVE  (Submitted \/ Fenced \/ Queued \/ Reserved) \/ Called \/ Silent
<1> USE DEF Taken, Called, Silent, Stay, PacketAddress, submissions, calls, gvars, memories
<1>1. CASE BufferStep
  BY <1>1 DEF BufferStep, UnbindBuffer, DestroyBuffer, Leave, LockBuffer, UnlockBuffer,
              CreateBuffer, BindBuffer
<1>2. CASE CopyStep
  <2>1. ASSUME NEW c, NEW a, NEW b, NEW p, NEW q, NEW n, RecordCopy(c, a, p, b, q, n)
        PROVE  Silent
    BY <2>1 DEF RecordCopy
  <2>2. ASSUME NEW c, CreateCopyBuffer(c) \/ BeginCopies(c) \/ EndCopies(c) \/ ResetCopies(c)
                      \/ DestroyCopyBuffer(c)
        PROVE  Silent
    BY <2>2 DEF CreateCopyBuffer, BeginCopies, EndCopies, ResetCopies, DestroyCopyBuffer, Forget
  <2> HIDE DEF Silent
  <2> QED BY <1>2, <2>1, <2>2 DEF CopyStep, Submitted
<1>3. CASE QueueStep
  BY <1>3 DEF QueueStep, Fenced, Queued
<1>4. CASE HostStep
  <2>1. ASSUME HostRegisters PROVE Called
    BY <2>1 DEF HostRegisters, Take
  <2>2. ASSUME NEW b, NEW o, NEW n, NEW v, HostStoreOf(b, o, n, v) PROVE Called
    BY <2>2 DEF HostStoreOf, Take
  <2>3. ASSUME NEW m, NEW o, NEW n, NEW v, HostFill(m, o, n, v) PROVE Called
    BY <2>3 DEF HostFill, Take
  <2>4. ASSUME NEW m, NEW o, NEW n, NEW v, HostWrite(m, o, n, v) PROVE Silent
    BY <2>4 DEF HostWrite
  <2>5. ASSUME NEW a, NEW b, NEW p, NEW q, NEW n, NEW w, NEW v, HostCopyFill(a, p, b, q, n, w, v)
        PROVE  Called
    BY <2>5 DEF HostCopyFill, Take
  <2> HIDE DEF Called, Silent
  <2> QED BY <1>4, <2>1, <2>2, <2>3, <2>4, <2>5 DEF HostStep, HostStore, HostStoreSpan, Reserved
<1>5. CASE \E r \in Recording : ExecuteClears(r)
  BY <1>5 DEF ExecuteClears, Execute, ExecuteFails, Packets, Take
<1>6. CASE GraphicsHalf /\ ~\E r \in Recording : ExecuteClears(r)
  BY <1>6, HalfIsGraphics, GraphicsSide DEF GraphicsHalf, Aside, FreeMemory
<1>7. CASE UNCHANGED cvars
  BY <1>7 DEF cvars
<1> QED
  BY <1>1, <1>2, <1>3, <1>4, <1>5, <1>6, <1>7 DEF CNext, GraphicsHalf

LEMMA NextNumbers ==
  ASSUME Inv, CType, [CNext]_cvars
  PROVE  Numbers'
<1> USE DEF Numbers
<1>1. CASE Submitted
  BY <1>1 DEF Submitted, Submit, CType, calls
<1>2. CASE Fenced
  <2>1. PICK f \in Fence : CreateFence(f) \/ DestroyFence(f) \/ ResetFence(f)
    BY <1>2 DEF Fenced
  <2>2. /\ UNCHANGED <<sequence, scratch, given>>
        /\ marker' \in {marker, [marker EXCEPT ![f] = nextVa], [marker EXCEPT ![f] = 0]}
        /\ signal' \in {signal, [signal EXCEPT ![f] = 0]}
    BY <2>1 DEF CreateFence, DestroyFence, ResetFence, calls
  <2>3. nextVa \in Nat /\ marker \in [Fence -> Nat] /\ signal \in [Fence -> Nat]
    BY DEF Inv, GTypeOK, CType
  <2>4. marker' \in [Fence -> Nat]
    BY <2>2, <2>3
  <2>5. signal' \in [Fence -> Nat]
    BY <2>2, <2>3
  <2> QED BY <2>2, <2>4, <2>5 DEF CType
<1>3. CASE Queued
  BY <1>3 DEF Queued, CreateQueue, DestroyQueue, CType, calls
<1>4. CASE Reserved
  BY <1>4, CopyQueueAssumption DEF Reserved, ReserveVa, CType, submissions, Inv, GTypeOK
<1>5. CASE Called
  BY <1>5, TakenType DEF Called, CType
<1>6. CASE Silent
  BY <1>6 DEF Silent, CType
<1> QED
  BY <1>1, <1>2, <1>3, <1>4, <1>5, <1>6, NumberKinds

\* What happens to memories.
LEMMA MemoryKinds ==
  ASSUME CType, [CNext]_cvars
  PROVE  Comes \/ Goes \/ Stay
  BY BufferKinds, Memoryless DEF Idle

LEMMA NextSizes ==
  ASSUME Inv, CType, [CNext]_cvars
  PROVE  \A m \in Allocated' : size'[m] \in Sizes
<1>1. CASE Comes
  BY <1>1 DEF Comes, Allocate, Allocated, CType, Inv, GTypeOK
<1>2. CASE Goes
  BY <1>2 DEF Goes, Relinquish, Allocated, CType, Inv, GTypeOK
<1>3. CASE Stay
  BY <1>3 DEF Stay, Allocated, CType
<1> QED
  BY <1>1, <1>2, <1>3, MemoryKinds

LEMMA NextCType == Inv /\ CType /\ [CNext]_cvars => CType'
  BY NextTables, NextNumbers, NextSizes DEF Tables, Numbers, CType, Allocated

\* A memory that has a buffer stays as it is.
LEMMA TenantsKeep ==
  ASSUME Inv, CType, UsesAreCounted, Comes \/ Goes \/ Stay,
         NEW b \in Buffer, place[b] \in Allocated
  PROVE  size'[place[b]] = size[place[b]] /\ va'[place[b]] = va[place[b]]
<1>1. place[b] \in Memory /\ size \in [Memory -> Nat] /\ va \in [Memory -> Nat]
  BY DEF Allocated, Inv, GTypeOK
<1>2. CASE Comes
  BY <1>1, <1>2 DEF Comes, Allocate
<1>3. CASE Goes
  <2>1. boundBuffers[place[b]] # 0
    <3>1. IsFiniteSet(Tenants(place[b])) /\ b \in Tenants(place[b])
      BY CopyQueueAssumption, FS_Subset DEF Tenants
    <3>2. Cardinality(Tenants(place[b])) # 0
      BY <3>1, FS_EmptySet
    <3> QED BY <1>1, <3>2 DEF UsesAreCounted, Tenants
  <2> QED BY <1>1, <1>3, <2>1 DEF Goes, Relinquish, MayRelinquish
<1>4. CASE Stay
  BY <1>4 DEF Stay
<1> QED
  BY <1>2, <1>3, <1>4

LEMMA NextFit ==
  ASSUME Inv, CType, UsesAreCounted, BuffersFit, [CNext]_cvars
  PROVE  BuffersFit'
<1> SUFFICES ASSUME NEW b \in Buffer, place'[b] # Nothing
             PROVE  /\ length'[b] # 0 /\ place'[b] \in Memory /\ size'[place'[b]] # 0
                    /\ start'[b] + length'[b] <= size'[place'[b]]
  BY DEF BuffersFit, Live, Allocated
<1>1. place[b] # Nothing => /\ length[b] # 0 /\ place[b] \in Memory /\ size[place[b]] # 0
                            /\ start[b] + length[b] <= size[place[b]]
  BY DEF BuffersFit, Live, Allocated
<1>2. CASE Created
  BY ZenonT(60), <1>1, <1>2, CopyQueueAssumption, Memoryless DEF Created, CreateBuffer, Live, CType, Stay
<1>3. CASE Bound
  BY <1>1, <1>3, Memoryless DEF Bound, BindBuffer, Live, Allocated, CType, Stay
<1>4. CASE Left
  BY <1>1, <1>4, Memoryless DEF Left, Leave, CType, Stay
<1>5. CASE Noted \/ Forgotten
  BY SMTT(60), <1>1, <1>5, Memoryless DEF Noted, Forgotten, RecordCopy, Forget, Stay
<1>6. CASE Idle
  <2>1. UNCHANGED <<length, place, start>> /\ (Comes \/ Goes \/ Stay)
    BY <1>6 DEF Idle
  <2>2. place[b] \in Allocated
    BY <1>1, <2>1 DEF Allocated
  <2> QED BY <1>1, <2>1, <2>2, TenantsKeep
<1> QED
  BY <1>2, <1>3, <1>4, <1>5, <1>6, BufferKinds

-----------------------------------------------------------------------------
(* Recorded copies stay valid.                                             *)

LEMMA InUse ==
  ASSUME CType, UsesAreCounted, NEW r \in Copied
  PROVE  r \in Copy /\ uses[r.source] # 0 /\ uses[r.destination] # 0
<1>1. PICK c \in CopyBuffer : \E k \in DOMAIN copies[c] : r = copies[c][k]
  BY DEF Copied
<1>2. PICK k \in DOMAIN copies[c] : r = copies[c][k]
  BY <1>1
<1>3. copies[c] \in Seq(Copy) /\ Len(copies[c]) \in Nat /\ Len(copies[c]) <= MaxCopies
      /\ DOMAIN copies[c] = 1 .. Len(copies[c]) /\ MaxCopies \in Nat
  BY CopyQueueAssumption, LenProperties DEF CType
<1>4. k \in 1 .. MaxCopies /\ r \in Copy
  BY <1>2, <1>3, ElementOfSeq
<1>5. r.source \in Buffer /\ r.destination \in Buffer
  BY <1>4 DEF Copy
<1>6. <<<<c, k>>, "source">> \in AllUses(r.source)
      /\ <<<<c, k>>, "destination">> \in AllUses(r.destination)
  BY <1>2, <1>4 DEF AllUses
<1>7. Cardinality(AllUses(r.source)) # 0 /\ Cardinality(AllUses(r.destination)) # 0
  BY <1>6, UsesFinite, FS_EmptySet
<1> QED
  BY <1>4, <1>5, <1>7 DEF UsesAreCounted

\* What RecordsStayValid says of one copy.
Valid(r) ==
  /\ Covers(r.source, r.fromMemory, r.from, r.n)
  /\ Covers(r.destination, r.toMemory, r.to, r.n)
  /\ r.fromVa = va[r.fromMemory] + r.from /\ r.toVa = va[r.toMemory] + r.to
  /\ r.fromMemory = r.toMemory => ~Overlap(r.from, r.to, r.n)

LEMMA CoversStays ==
  ASSUME Inv, CType, UsesAreCounted, [CNext]_cvars,
         NEW b \in Buffer, NEW m \in Memory, NEW o \in Nat, NEW n \in Nat,
         uses[b] # 0, Covers(b, m, o, n)
  PROVE  Covers(b, m, o, n)' /\ va'[m] = va[m]
<1>1. /\ length[b] # 0 /\ size[m] # 0 /\ place[b] = m
      /\ start[b] <= o /\ o + n <= start[b] + length[b] /\ start[b] + length[b] <= size[m]
      /\ m # Nothing
  BY GraphicsAssumption DEF Covers, Live, Allocated
<1>2. /\ length'[b] = length[b] /\ place'[b] = place[b] /\ start'[b] = start[b]
      /\ Comes \/ Goes \/ Stay
  <2>1. CASE Created
    BY <1>1, <2>1, Memoryless DEF Created, CreateBuffer, Live, CType
  <2>2. CASE Bound
    BY <1>1, <2>2, Memoryless DEF Bound, BindBuffer, CType
  <2>3. CASE Left
    BY <1>1, <2>3, Memoryless DEF Left, Leave, MayRelease, CType
  <2>4. CASE Noted \/ Forgotten
    <3>1. UNCHANGED <<length, place, start>>
      BY <2>4 DEF Noted, Forgotten, RecordCopy, Forget
    <3> QED BY <2>4, <3>1, Memoryless
  <2>5. CASE Idle
    BY <2>5 DEF Idle
  <2> QED BY <2>1, <2>2, <2>3, <2>4, <2>5, BufferKinds
<1>3. size'[m] = size[m] /\ va'[m] = va[m]
  BY <1>1, <1>2, TenantsKeep DEF Allocated
<1> QED
  BY <1>1, <1>2, <1>3 DEF Covers, Live, Allocated

LEMMA ValidStays ==
  ASSUME Inv, CType, UsesAreCounted, [CNext]_cvars, NEW r \in Copied, Valid(r)
  PROVE  Valid(r)'
<1>1. /\ r.source \in Buffer /\ r.fromMemory \in Memory /\ r.from \in Nat /\ r.n \in Nat
      /\ r.destination \in Buffer /\ r.toMemory \in Memory /\ r.to \in Nat
      /\ uses[r.source] # 0 /\ uses[r.destination] # 0
  BY InUse DEF Copy
<1>2. Covers(r.source, r.fromMemory, r.from, r.n)' /\ va'[r.fromMemory] = va[r.fromMemory]
  BY <1>1, CoversStays DEF Valid
<1>3. Covers(r.destination, r.toMemory, r.to, r.n)' /\ va'[r.toMemory] = va[r.toMemory]
  BY <1>1, CoversStays DEF Valid
<1> QED
  BY <1>2, <1>3 DEF Valid, Overlap

LEMMA NotedIsValid ==
  ASSUME Inv, CType, BuffersFit, NEW c \in CopyBuffer, NEW a \in Live, NEW b \in Live,
         NEW p \in Nat, NEW q \in Nat, NEW n \in Nat \ {0}, RecordCopy(c, a, p, b, q, n),
         NEW r, r = CopyOf(a, p, b, q, n)
  PROVE  Valid(r)'
<1>1. /\ a \in Buffer /\ b \in Buffer /\ p + n <= length[a] /\ q + n <= length[b]
      /\ place[a] # Nothing /\ place[b] # Nothing
      /\ place[a] = place[b] => ~Overlap(start[a] + p, start[b] + q, n)
      /\ UNCHANGED <<length, place, start, size, va>>
  BY DEF RecordCopy, Live, gvars, memories
<1>2. /\ length[a] \in Nat /\ length[b] \in Nat /\ start[a] \in Nat /\ start[b] \in Nat
      /\ place[a] \in Memory /\ place[b] \in Memory
      /\ start[a] + length[a] <= size[place[a]] /\ start[b] + length[b] <= size[place[b]]
      /\ size[place[a]] # 0 /\ size[place[b]] # 0 /\ size \in [Memory -> Nat]
      /\ va \in [Memory -> Nat]
  BY <1>1 DEF CType, BuffersFit, Allocated, Inv, GTypeOK
<1>3. Covers(a, place[a], start[a] + p, n) /\ Covers(b, place[b], start[b] + q, n)
  BY <1>1, <1>2 DEF Covers, Allocated
<1> QED
  BY <1>1, <1>2, <1>3 DEF Valid, CopyOf, Covers, Live, Allocated, Overlap

LEMMA NextRecords ==
  ASSUME Inv, CType, BuffersFit, UsesAreCounted, RecordsStayValid, [CNext]_cvars
  PROVE  RecordsStayValid'
<1>1. \A r \in Copied : Valid(r)'
  BY ValidStays DEF RecordsStayValid, Valid
<1>2. CASE UNCHANGED copies
  BY <1>1, <1>2 DEF RecordsStayValid, Copied, Valid
<1>3. CASE Noted
  <2>1. PICK c \in CopyBuffer, a \in Live, b \in Live, p \in Nat, q \in Nat, n \in Nat \ {0} :
          RecordCopy(c, a, p, b, q, n)
    BY <1>3 DEF Noted
  <2>2. PICK copy : copy = CopyOf(a, p, b, q, n)
    OBVIOUS
  <2>3. copies \in [CopyBuffer -> Seq(Copy)] /\ copies[c] \in Seq(Copy)
        /\ copies' = [copies EXCEPT ![c] = Append(copies[c], copy)]
    BY <2>1, <2>2 DEF CType, RecordCopy
  <2>4. copy \in Copy
    BY <2>1, <2>2, CopyOfType DEF RecordCopy, Live
  <2>5. ASSUME NEW k \in DOMAIN Append(copies[c], copy)
        PROVE  \/ k \in DOMAIN copies[c] /\ Append(copies[c], copy)[k] = copies[c][k]
               \/ Append(copies[c], copy)[k] = copy
    <3>1. /\ Len(Append(copies[c], copy)) = Len(copies[c]) + 1 /\ Len(copies[c]) \in Nat
          /\ Append(copies[c], copy) \in Seq(Copy)
      BY <2>3, <2>4, AppendProperties, LenProperties
    <3>2. DOMAIN copies[c] = 1 .. Len(copies[c])
          /\ DOMAIN Append(copies[c], copy) = 1 .. Len(copies[c]) + 1
      BY <2>3, <3>1, LenProperties
    <3>3. CASE k = Len(copies[c]) + 1
      BY <2>3, <2>4, <3>3, AppendProperties
    <3>4. CASE k # Len(copies[c]) + 1
      BY <2>3, <2>4, <2>5, <3>1, <3>2, <3>4, AppendProperties
    <3> QED BY <3>3, <3>4
  <2>6. ASSUME NEW d \in CopyBuffer, NEW k \in DOMAIN copies'[d]
        PROVE  copies'[d][k] \in Copied \/ copies'[d][k] = copy
    BY <2>3, <2>5, <2>6 DEF Copied
  <2>7. \A r \in Copied' : r \in Copied \/ r = copy
    BY <2>6 DEF Copied
  <2>8. \A r \in Copied' : Valid(r)'
    BY <1>1, <2>1, <2>2, <2>7, NotedIsValid
  <2> QED BY <2>8 DEF RecordsStayValid, Valid
<1>4. CASE Forgotten
  <2>1. \A r \in Copied' : r \in Copied
    <3>1. PICK c \in CopyBuffer : copies' = [copies EXCEPT ![c] = <<>>]
      BY <1>4 DEF Forgotten, Forget
    <3>2. DOMAIN <<>> = {}
      BY EmptySeq
    <3>3. ASSUME NEW d \in CopyBuffer, NEW k \in DOMAIN copies'[d]
          PROVE  copies'[d][k] \in Copied
      BY <3>1, <3>2, <3>3 DEF Copied, CType
    <3> QED BY <3>3 DEF Copied
  <2> QED BY <1>1, <2>1 DEF RecordsStayValid, Valid
<1>5. CASE Created \/ Bound \/ Left \/ Idle
  <2>1. UNCHANGED copies
    BY <1>5 DEF Created, Bound, Left, Idle, CreateBuffer, BindBuffer, Leave, lists
  <2> QED BY <1>2, <2>1
<1> QED
  BY <1>3, <1>4, <1>5, BufferKinds

-----------------------------------------------------------------------------
(* Addresses are handed out once.                                          *)

LEMMA SpanCovers ==
  ASSUME NEW n \in Nat
  PROVE  Span(n) \in Nat /\ n <= Span(n)
<1>1. Page \in Nat \ {0}
  BY MemoriesAssumption
<1>2. (n + (Page - 1)) % Page \in 0 .. Page - 1
  BY ONLY <1>1, n \in Nat
<1> DEFINE rest == (n + (Page - 1)) % Page
<1> HIDE DEF rest
<1>3. rest \in 0 .. Page - 1
  BY <1>2 DEF rest
<1>4. Span(n) = n + (Page - 1) - rest
  BY DEF Span, rest
<1> QED
  BY <1>1, <1>3, <1>4

\* The ranges R are apart, and all of them before the next address.
Packed(R, next) ==
  /\ next \in Nat /\ Page <= next /\ next <= VaLimit
  /\ \A x \in R : x[2] \in Nat /\ x[3] \in Nat /\ Page <= x[2] /\ x[2] + x[3] <= next
  /\ \A x, y \in R : x # y => x[2] + x[3] <= y[2] \/ y[2] + y[3] <= x[2]

\* They stay so if one more range takes what comes next.
LEMMA OneMore ==
  ASSUME NEW R, NEW next, Packed(R, next), NEW S, NEW x, NEW n \in Nat, x[2] = next, x[3] = n,
         NEW after \in Nat, next + n <= after, after <= VaLimit, S \subseteq R \cup {x}
  PROVE  Packed(S, after)
<1>1. /\ next \in Nat /\ Page \in Nat /\ Page <= next /\ VaLimit \in Nat
      /\ \A y \in R : y[2] \in Nat /\ y[3] \in Nat /\ Page <= y[2] /\ y[2] + y[3] <= next
      /\ \A y, z \in R : y # z => y[2] + y[3] <= z[2] \/ z[2] + z[3] <= y[2]
  BY MemoriesAssumption DEF Packed
<1>2. Page <= after
  BY <1>1
<1>3. ASSUME NEW y \in S
      PROVE  y[2] \in Nat /\ y[3] \in Nat /\ Page <= y[2] /\ y[2] + y[3] <= after
  <2>1. CASE y \in R
    BY <1>1, <2>1
  <2>2. CASE y = x
    BY <1>1, <2>2
  <2> QED BY <2>1, <2>2
<1>4. ASSUME NEW y \in S, NEW z \in S, y # z
      PROVE  y[2] + y[3] <= z[2] \/ z[2] + z[3] <= y[2]
  <2>1. CASE y \in R /\ z \in R
    BY <1>1, <1>4, <2>1
  <2>2. CASE y \in R /\ z = x
    BY <1>1, <2>2
  <2>3. CASE y = x /\ z \in R
    BY <1>1, <2>3
  <2> QED BY <1>4, <2>1, <2>2, <2>3
<1> QED
  BY <1>2, <1>3, <1>4 DEF Packed

\* ... and if some are given up.
LEMMA NoMore ==
  ASSUME NEW R, NEW next, Packed(R, next), NEW S, S \subseteq R,
         NEW after \in Nat, next <= after, after <= VaLimit
  PROVE  Packed(S, after)
<1>1. /\ next \in Nat /\ Page \in Nat /\ Page <= next
      /\ \A y \in R : y[2] \in Nat /\ y[3] \in Nat /\ Page <= y[2] /\ y[2] + y[3] <= next
  BY MemoriesAssumption DEF Packed
<1>2. \A y \in S : y[2] \in Nat /\ y[3] \in Nat /\ Page <= y[2] /\ y[2] + y[3] <= after
  BY <1>1
<1> QED
  BY <1>1, <1>2 DEF Packed

\* The scratch addresses, with what others have.
Scratched(F, sc) == F \cup {<<k, sc[k], 1>> : k \in {j \in Scratch : sc[j] # 0}}

LEMMA AskPacks ==
  ASSUME NEW F, NEW s, Addressed(s), NEW k \in Scratch, Packed(Scratched(F, s.scratch), s.next)
  PROVE  Packed(Scratched(F, Ask(s, k).scratch), Ask(s, k).next)
<1> DEFINE t == Ask(s, k)
<1>1. CASE t = s
  BY <1>1
<1>2. CASE t # s
  <2>1. /\ t.scratch = [s.scratch EXCEPT ![k] = s.next] /\ t.next = s.next + Span(1)
        /\ Span(1) <= VaLimit - s.next
    BY <1>2 DEF Ask
  <2>2. Span(1) \in Nat /\ 1 <= Span(1) /\ s.next \in Nat /\ s.scratch \in [Scratch -> Nat]
        /\ VaLimit \in Nat
    BY SpanCovers, MemoriesAssumption DEF Addressed
  <2>3. t.next \in Nat /\ s.next + 1 <= t.next /\ t.next <= VaLimit
    BY <2>1, <2>2
  <2> DEFINE x == <<k, s.next, 1>>
  <2>4. Scratched(F, t.scratch) \subseteq Scratched(F, s.scratch) \cup {x}
    BY <2>1, <2>2 DEF Scratched
  <2>5. x[2] = s.next /\ x[3] = 1
    OBVIOUS
  <2> HIDE DEF x, t
  <2> QED BY <2>3, <2>4, <2>5, OneMore DEF t
<1> QED
  BY <1>1, <1>2

\* What memories, markers and callers have.
Lasting ==
  {<<m, va[m], size[m]>> : m \in Allocated}
  \cup {<<f, marker[f], 1>> : f \in {g \in Fence : marker[g] # 0}}
  \cup {<<"given", g.first, g.n>> : g \in given}

LEMMA TakenPacks ==
  ASSUME Inv, CType, Taken, Packed(Scratched(Lasting, scratch), nextVa)
  PROVE  Packed(Scratched(Lasting, scratch'), nextVa')
<1> DEFINE s0 == [scratch |-> scratch, next |-> nextVa]
           F == Lasting
           s1 == Ask(s0, "code")
<1>1. Addressed(s0) /\ Packed(Scratched(F, s0.scratch), s0.next)
  BY DEF Addressed, Inv, GTypeOK, CType
<1>2. CASE Take(<<"write">>)
  <2>1. scratch' = Ask(s0, "write").scratch /\ nextVa' = Ask(s0, "write").next
    BY <1>2 DEF Take, Asked
  <2>2. "write" \in Scratch
    BY DEF Scratch
  <2> HIDE DEF s0, F
  <2>3. Packed(Scratched(F, Ask(s0, "write").scratch), Ask(s0, "write").next)
    BY <1>1, <2>2, AskPacks
  <2> QED BY <2>1, <2>3 DEF F
<1>3. CASE Take(<<"code", "store">>)
  <2>1. \/ scratch' = s1.scratch /\ nextVa' = s1.next
        \/ scratch' = Ask(s1, "store").scratch /\ nextVa' = Ask(s1, "store").next
    BY <1>3 DEF Take, Asked
  <2>2. "code" \in Scratch /\ "store" \in Scratch
    BY DEF Scratch
  <2> HIDE DEF s0, F
  <2>3. Packed(Scratched(F, s1.scratch), s1.next) /\ Addressed(s1)
    BY <1>1, <2>2, AskPacks, AskType
  <2> HIDE DEF s1
  <2>4. Packed(Scratched(F, Ask(s1, "store").scratch), Ask(s1, "store").next)
    BY <2>2, <2>3, AskPacks
  <2> QED BY <2>1, <2>3, <2>4 DEF F
<1> QED
  BY <1>2, <1>3 DEF Taken

\* A reservation: one more range takes the next address and the pages from it.
LEMMA ReservedPacks ==
  ASSUME Packed(Ranges, nextVa), NEW n \in Nat, MayReserve(n), nextVa' = nextVa + Span(n),
         NEW o, Ranges' \subseteq Ranges \cup {<<o, nextVa, n>>}
  PROVE  Packed(Ranges', nextVa')
<1>1. Span(n) \in Nat /\ n <= Span(n) /\ Span(n) <= VaLimit - nextVa /\ nextVa \in Nat
      /\ VaLimit \in Nat
  BY SpanCovers, MemoriesAssumption DEF MayReserve, Packed
<1>2. nextVa' \in Nat /\ nextVa + n <= nextVa' /\ nextVa' <= VaLimit
  BY <1>1
<1> DEFINE x == <<o, nextVa, n>>
<1>3. x[2] = nextVa /\ x[3] = n /\ Ranges' \subseteq Ranges \cup {x}
  OBVIOUS
<1> HIDE DEF x
<1> QED
  BY <1>2, <1>3, OneMore

LEMMA FewerPack ==
  ASSUME Packed(Ranges, nextVa), PacketAddress, Ranges' \subseteq Ranges
  PROVE  Packed(Ranges', nextVa')
<1>1. Span(1) \in Nat /\ nextVa \in Nat /\ VaLimit \in Nat /\ nextVa <= VaLimit
  BY SpanCovers, MemoriesAssumption DEF Packed
<1>2. nextVa' \in Nat /\ nextVa <= nextVa' /\ nextVa' <= VaLimit
  BY <1>1 DEF PacketAddress, MayReserve
<1> QED
  BY <1>2, NoMore

LEMMA NextPacked ==
  ASSUME Inv, CType, Packed(Ranges, nextVa), [CNext]_cvars
  PROVE  Packed(Ranges', nextVa')
<1>1. CASE Submitted \/ Queued
  <2>1. UNCHANGED <<nextVa, size, va, marker, scratch, given>>
    BY <1>1 DEF Submitted, Queued, Submit, CreateQueue, DestroyQueue, gvars, memories, calls
  <2> QED BY <2>1, FewerPack DEF Ranges, Allocated, PacketAddress
<1>2. CASE Fenced
  <2>1. PICK f \in Fence : CreateFence(f) \/ DestroyFence(f) \/ ResetFence(f)
    BY <1>2 DEF Fenced
  <2>2. CASE CreateFence(f)
    <3>1. /\ MayReserve(1) /\ nextVa' = nextVa + Span(1) /\ marker[f] = 0
          /\ marker' = [marker EXCEPT ![f] = nextVa] /\ UNCHANGED <<size, va, scratch, given>>
      BY <2>2 DEF CreateFence, AfterMarker, calls
    <3>2. \A g \in Fence : marker'[g] = IF g = f THEN nextVa ELSE marker[g]
      BY <3>1 DEF CType
    <3>3. Ranges' \subseteq Ranges \cup {<<f, nextVa, 1>>}
      BY <3>1, <3>2 DEF Ranges, Allocated
    <3> QED BY <3>1, <3>3, ReservedPacks
  <2>3. CASE DestroyFence(f) \/ ResetFence(f)
    <3>1. /\ \A g \in Fence : marker'[g] \in {0, marker[g]}
          /\ UNCHANGED <<size, va, scratch, given, nextVa>>
      BY <2>3 DEF DestroyFence, ResetFence, CType, calls, gvars, memories
    <3>2. Ranges' \subseteq Ranges
      BY <3>1 DEF Ranges, Allocated
    <3> QED BY <3>1, <3>2, FewerPack DEF PacketAddress
  <2> QED BY <2>1, <2>2, <2>3
<1>3. CASE Reserved
  <2>1. PICK n \in Requests : ReserveVa(n)
    BY <1>3 DEF Reserved
  <2>2. /\ n \in Nat /\ MayReserve(n) /\ nextVa' = nextVa + Span(n)
        /\ given' = given \cup {[first |-> nextVa, n |-> n]}
        /\ UNCHANGED <<size, va, marker, scratch>>
    BY <2>1, CopyQueueAssumption DEF ReserveVa, submissions
  <2>3. Ranges' \subseteq Ranges \cup {<<"given", nextVa, n>>}
    BY <2>2 DEF Ranges, Allocated
  <2> QED BY <2>2, <2>3, ReservedPacks
<1>4. CASE Called
  <2>1. DOMAIN scratch = Scratch /\ DOMAIN scratch' = Scratch
    BY <1>4, TakenType DEF Called, CType
  <2>2. Lasting' = Lasting
    BY <1>4 DEF Called, Stay, Lasting, Allocated
  <2>3. Ranges = Scratched(Lasting, scratch) /\ Ranges' = Scratched(Lasting, scratch')
    BY <2>1, <2>2 DEF Ranges, Scratched, Lasting
  <2> QED BY <1>4, <2>3, TakenPacks DEF Called
<1>5. CASE Silent
  <2>1. UNCHANGED <<marker, scratch, given>>
    BY <1>5 DEF Silent
  <2>2. CASE Comes
    <3>1. PICK m \in Memory, n \in Sizes : Allocate(m, n)
      BY <2>2 DEF Comes
    <3>2. n \in Nat /\ MayReserve(n) /\ nextVa' = nextVa + Span(n)
          /\ \A x \in Memory : /\ size'[x] = IF x = m THEN n ELSE size[x]
                               /\ va'[x] = IF x = m THEN nextVa ELSE va[x]
      BY <3>1, SizesAreNat DEF Allocate, Inv, GTypeOK
    <3>3. Ranges' \subseteq Ranges \cup {<<m, nextVa, n>>}
      BY <2>1, <3>2 DEF Ranges, Allocated
    <3> QED BY <3>2, <3>3, ReservedPacks
  <2>3. CASE Goes
    <3>1. nextVa' = nextVa /\ \A x \in Memory : \/ size'[x] = 0
                                                \/ size'[x] = size[x] /\ va'[x] = va[x]
      BY <2>3 DEF Goes, Relinquish, Inv, GTypeOK
    <3>2. Ranges' \subseteq Ranges
      BY <2>1, <3>1 DEF Ranges, Allocated
    <3> QED BY <3>1, <3>2, FewerPack DEF PacketAddress
  <2>4. CASE Stay /\ PacketAddress
    <3>1. Ranges' \subseteq Ranges
      BY <2>1, <2>4 DEF Ranges, Allocated, Stay
    <3> QED BY <2>4, <3>1, FewerPack
  <2> QED BY <1>5, <2>2, <2>3, <2>4 DEF Silent
<1> QED
  BY <1>1, <1>2, <1>3, <1>4, <1>5, NumberKinds

-----------------------------------------------------------------------------
(* The images, as the queue's callers find them.                           *)

LEMMA HostNext ==
  ASSUME Inv, CType, [CNext]_cvars
  PROVE  GNext \/ HostSide \/ UNCHANGED gvars
<1>1. CASE BufferStep
  BY <1>1 DEF BufferStep, UnbindBuffer, DestroyBuffer, Leave, LockBuffer, UnlockBuffer,
              CreateBuffer, BindBuffer, HostSide
<1>2. CASE CopyStep
  <2>1. ASSUME NEW c, NEW a, NEW b, NEW p, NEW q, NEW n, RecordCopy(c, a, p, b, q, n)
        PROVE  UNCHANGED gvars
    BY <2>1 DEF RecordCopy
  <2>2. ASSUME NEW c, \/ CreateCopyBuffer(c) \/ BeginCopies(c) \/ EndCopies(c) \/ ResetCopies(c)
                      \/ DestroyCopyBuffer(c) \/ \E f \in Fence : Submit(c, f)
        PROVE  UNCHANGED gvars
    BY <2>2 DEF CreateCopyBuffer, BeginCopies, EndCopies, ResetCopies, DestroyCopyBuffer, Forget,
                Submit
  <2> QED BY <1>2, <2>1, <2>2 DEF CopyStep
<1>3. CASE QueueStep \/ HostStep
  BY <1>3, QueueSide
<1>4. CASE GraphicsHalf
  BY <1>4, HalfIsGraphics
<1>5. CASE UNCHANGED cvars
  BY <1>5 DEF cvars
<1> QED
  BY <1>1, <1>2, <1>3, <1>4, <1>5 DEF CNext, GraphicsHalf

LEMMA NextVaType ==
  ASSUME Inv, CType, [CNext]_cvars
  PROVE  nextVa' \in Nat
<1>1. nextVa \in Nat /\ \A n \in Nat : Span(n) \in Nat
  BY SpanIsNat DEF Inv, GTypeOK
<1>2. CASE Submitted \/ Queued \/ Fenced
  <2>1. nextVa' = nextVa \/ nextVa' = nextVa + Span(1)
    BY <1>2 DEF Submitted, Queued, Fenced, Submit, CreateQueue, DestroyQueue, CreateFence,
                DestroyFence, ResetFence, AfterMarker, gvars, memories
  <2> QED BY <1>1, <2>1
<1>3. CASE Reserved
  BY <1>1, <1>3, CopyQueueAssumption DEF Reserved, ReserveVa
<1>4. CASE Called
  BY <1>4, TakenType DEF Called
<1>5. CASE Silent
  BY <1>1, <1>5, SizesAreNat DEF Silent, PacketAddress, Comes, Goes, Allocate, Relinquish
<1> QED
  BY <1>2, <1>3, <1>4, <1>5, NumberKinds

LEMMA BoundBuffersType ==
  ASSUME Inv, CType, UsesAreCounted, [CNext]_cvars
  PROVE  boundBuffers' \in [Memory -> Nat]
<1>1. boundBuffers' = [m \in Memory |-> boundBuffers'[m]]
  <2>1. boundBuffers \in [Memory -> Nat]
    BY DEF Inv, GTypeOK
  <2>2. CASE Bound
    BY <2>1, <2>2 DEF Bound, BindBuffer
  <2>3. CASE Left
    BY <2>3 DEF Left, Leave
  <2>4. CASE Created \/ Noted \/ Forgotten \/ Idle
    <3>1. UNCHANGED boundBuffers
      BY <2>4 DEF Created, Noted, Forgotten, Idle, CreateBuffer, RecordCopy, Forget, gvars, memories
    <3> QED BY <2>1, <3>1
  <2> QED BY <2>2, <2>3, <2>4, BufferKinds
<1>2. ASSUME NEW m \in Memory
      PROVE  boundBuffers'[m] \in Nat
  <2>1. boundBuffers'[m] = Cardinality({b \in Buffer : place'[b] = m})
    BY NextUses DEF UsesAreCounted
  <2>2. IsFiniteSet({b \in Buffer : place'[b] = m})
    BY CopyQueueAssumption, FS_Subset
  <2> QED BY <2>1, <2>2, FS_CardinalityType
<1> QED
  BY <1>1, <1>2

LEMMA NextInv == Inv /\ CType /\ UsesAreCounted /\ [CNext]_cvars => Inv'
  BY HostNext, HostFrame, NextGInv, NextVaType, BoundBuffersType

-----------------------------------------------------------------------------
(* What a submission does to the bytes.                                    *)

\* A set of numbers has a least one.
LEMMA LeastNumber ==
  ASSUME NEW S \in SUBSET Nat, S # {}
  PROVE  \E i \in S : \A j \in S : i <= j
<1> DEFINE R == {ss \in Nat \X Nat : ss[1] < ss[2]}
<1>1. IsWellFoundedOn(R, Nat)
  BY NatLessThanWellFounded DEF OpToRel
<1>2. \A i, j \in Nat : <<j, i>> \in R <=> j < i
  OBVIOUS
<1> HIDE DEF R
<1>3. PICK i \in S : \A j \in S : <<j, i>> \notin R
  BY <1>1, WFMin
<1>4. i \in Nat /\ \A j \in S : j \in Nat /\ ~(j < i)
  BY <1>2, <1>3
<1>5. \A j \in S : i <= j
  BY <1>4
<1> QED BY <1>5

LEMMA ByInduction ==
  ASSUME NEW S, 0 \in S, \A n \in Nat : n \in S => n + 1 \in S
  PROVE  Nat \subseteq S
<1> SUFFICES ASSUME Nat \ S # {} PROVE FALSE
  OBVIOUS
<1>1. PICK i \in Nat \ S : \A j \in Nat \ S : i <= j
  BY LeastNumber
<1>2. i - 1 \in Nat /\ i - 1 \in S
  BY <1>1
<1> QED
  BY <1>1, <1>2

\* One copy of the list, after what f says of those before.
Move(list, f, k) ==
  IF k = 0 THEN content
  ELSE Put(f[k - 1], list[k].toMemory, list[k].to, list[k].n,
           Get(f[k - 1], list[k].fromMemory, list[k].from, list[k].n))

LEMMA MovesExist ==
  ASSUME NEW list, NEW max \in Nat
  PROVE  \E f : f = [k \in 0 .. max |-> Move(list, f, k)]
<1> DEFINE S == {n \in Nat : \E f : f = [k \in 0 .. n |-> Move(list, f, k)]}
<1>1. \A f, g : \A k \in Nat : (k # 0 => f[k - 1] = g[k - 1]) => Move(list, f, k) = Move(list, g, k)
  BY DEF Move
<1>2. 0 \in S
  <2> DEFINE f == [k \in 0 .. 0 |-> content]
  <2>1. f = [k \in 0 .. 0 |-> Move(list, f, k)]
    BY DEF Move
  <2> QED BY <2>1
<1>3. ASSUME NEW n \in Nat, n \in S
      PROVE  n + 1 \in S
  <2>1. PICK f : f = [k \in 0 .. n |-> Move(list, f, k)]
    BY <1>3
  <2> DEFINE g == [k \in 0 .. n + 1 |-> IF k <= n THEN f[k] ELSE Move(list, f, k)]
  <2>2. \A k \in 0 .. n : g[k] = f[k] /\ f[k] = Move(list, f, k)
    BY <2>1
  <2>3. g[n + 1] = Move(list, f, n + 1) /\ DOMAIN g = 0 .. n + 1
    OBVIOUS
  <2> HIDE DEF g
  <2>4. ASSUME NEW k \in 0 .. n + 1
        PROVE  g[k] = Move(list, g, k)
    <3>1. k # 0 => f[k - 1] = g[k - 1]
      BY <2>2
    <3>2. Move(list, f, k) = Move(list, g, k)
      BY <1>1, <3>1
    <3>3. CASE k = n + 1
      BY <2>3, <3>2, <3>3
    <3>4. CASE k # n + 1
      BY <2>2, <3>2, <3>4
    <3> QED BY <3>3, <3>4
  <2>5. g = [k \in 0 .. n + 1 |-> g[k]]
    BY <2>3 DEF g
  <2>6. g = [k \in 0 .. n + 1 |-> Move(list, g, k)]
    BY <2>4, <2>5
  <2> QED BY <2>6
<1> HIDE DEF S
<1>4. Nat \subseteq S
  BY <1>2, <1>3, ByInduction
<1> QED
  BY <1>4 DEF S

\* Copies that none of them reach dword d of memory m leave it alone.
LEMMA TransferSpares ==
  ASSUME DOMAIN content = Memory, NEW list \in Seq(Copy), NEW m \in Memory, NEW d \in Dword,
         \A k \in DOMAIN list :
           ~(list[k].toMemory = m /\ d \in list[k].to .. list[k].to + list[k].n - 1)
  PROVE  Transferred(list)[m][d] = content[m][d]
<1>1. Len(list) \in Nat /\ DOMAIN list = 1 .. Len(list)
  BY LenProperties
<1> DEFINE after == CHOOSE f : f = [k \in 0 .. Len(list) |-> Move(list, f, k)]
<1>2. after = [k \in 0 .. Len(list) |-> Move(list, after, k)]
  BY <1>1, MovesExist
<1>3. Transferred(list) = after[Len(list)]
  BY DEF Transferred, Move
<1> HIDE DEF after
<1> DEFINE S == {n \in Nat : n <= Len(list) =>
                   DOMAIN after[n] = Memory /\ after[n][m][d] = content[m][d]}
<1>4. 0 \in S
  BY <1>1, <1>2 DEF Move
<1>5. ASSUME NEW n \in Nat, n \in S
      PROVE  n + 1 \in S
  <2> SUFFICES ASSUME n + 1 <= Len(list)
               PROVE  DOMAIN after[n + 1] = Memory /\ after[n + 1][m][d] = content[m][d]
    OBVIOUS
  <2>1. DOMAIN after[n] = Memory /\ after[n][m][d] = content[m][d]
    BY <1>1, <1>5
  <2> DEFINE r == list[n + 1]
             data == Get(after[n], r.fromMemory, r.from, r.n)
  <2>2. after[n + 1] = Put(after[n], r.toMemory, r.to, r.n, data)
    <3>1. n + 1 \in 0 .. Len(list) /\ n + 1 # 0 /\ n + 1 - 1 = n
      BY <1>1
    <3>2. after[n + 1] = Move(list, after, n + 1)
      BY <1>2, <3>1
    <3> QED BY <3>1, <3>2 DEF Move
  <2>3. ~(r.toMemory = m /\ d \in r.to .. r.to + r.n - 1)
    BY <1>1
  <2> HIDE DEF r, data
  <2> QED BY <2>1, <2>2, <2>3 DEF Put
<1> HIDE DEF S
<1>6. Nat \subseteq S
  BY <1>4, <1>5, ByInduction
<1> QED
  BY <1>1, <1>3, <1>6 DEF S

LEMMA TransferDomain ==
  ASSUME DOMAIN content = Memory, NEW list \in Seq(Copy)
  PROVE  DOMAIN Transferred(list) = Memory
<1>1. Len(list) \in Nat
  BY LenProperties
<1> DEFINE after == CHOOSE f : f = [k \in 0 .. Len(list) |-> Move(list, f, k)]
<1>2. after = [k \in 0 .. Len(list) |-> Move(list, after, k)]
  BY <1>1, MovesExist
<1>3. Transferred(list) = after[Len(list)]
  BY DEF Transferred, Move
<1> HIDE DEF after
<1> DEFINE S == {n \in Nat : n <= Len(list) => DOMAIN after[n] = Memory}
<1>4. 0 \in S
  BY <1>1, <1>2 DEF Move
<1>5. ASSUME NEW n \in Nat, n \in S
      PROVE  n + 1 \in S
  <2> SUFFICES ASSUME n + 1 <= Len(list)
               PROVE  DOMAIN after[n + 1] = Memory
    OBVIOUS
  <2>1. DOMAIN after[n] = Memory
    BY <1>1, <1>5
  <2>2. n + 1 \in 0 .. Len(list) /\ n + 1 # 0 /\ n + 1 - 1 = n
    BY <1>1
  <2>3. after[n + 1] = Move(list, after, n + 1)
    BY <1>2, <2>2
  <2> QED BY <2>1, <2>2, <2>3 DEF Move, Put
<1> HIDE DEF S
<1>6. Nat \subseteq S
  BY <1>4, <1>5, ByInduction
<1> QED
  BY <1>1, <1>3, <1>6 DEF S

\* Each memory has its bytes, whatever a step does.
Filled == DOMAIN content = Memory

LEMMA NextContent ==
  ASSUME Inv, CType, DOMAIN content = Memory, [CNext]_cvars
  PROVE  DOMAIN content' = Memory
<1>1. \A m, o, n, data : DOMAIN Put(content, m, o, n, data) = Memory
  BY DEF Put
<1>2. CASE BufferStep
  BY <1>2 DEF BufferStep, UnbindBuffer, DestroyBuffer, Leave, LockBuffer, UnlockBuffer,
              CreateBuffer, BindBuffer
<1>3. CASE CopyStep
  <2>1. ASSUME NEW c, NEW a, NEW b, NEW p, NEW q, NEW n, RecordCopy(c, a, p, b, q, n)
        PROVE  DOMAIN content' = Memory
    BY <2>1 DEF RecordCopy
  <2>2. ASSUME NEW c, CreateCopyBuffer(c) \/ BeginCopies(c) \/ EndCopies(c) \/ ResetCopies(c)
                      \/ DestroyCopyBuffer(c)
        PROVE  DOMAIN content' = Memory
    BY <2>2 DEF CreateCopyBuffer, BeginCopies, EndCopies, ResetCopies, DestroyCopyBuffer, Forget
  <2>3. ASSUME NEW c \in CopyBuffer, NEW f \in Fence, Submit(c, f)
        PROVE  DOMAIN content' = Memory
    BY <2>3, TransferDomain DEF Submit, CType
  <2> QED BY <1>3, <2>1, <2>2, <2>3 DEF CopyStep
<1>4. CASE QueueStep
  BY <1>4 DEF QueueStep, CreateQueue, DestroyQueue, CreateFence, DestroyFence, ResetFence
<1>5. CASE HostStep
  <2>1. ASSUME HostRegisters \/ \E n \in Requests : ReserveVa(n)
        PROVE  DOMAIN content' = Memory
    BY <2>1 DEF HostRegisters, ReserveVa
  <2>2. ASSUME NEW b, NEW o, NEW n, NEW v, HostStoreOf(b, o, n, v)
        PROVE  DOMAIN content' = Memory
    BY <1>1, <2>2 DEF HostStoreOf
  <2>3. ASSUME NEW m, NEW o, NEW n, NEW v, HostWrite(m, o, n, v) \/ HostFill(m, o, n, v)
        PROVE  DOMAIN content' = Memory
    BY <1>1, <2>3 DEF HostWrite, HostFill
  <2>4. ASSUME NEW a, NEW b, NEW p, NEW q, NEW n, NEW w, NEW v, HostCopyFill(a, p, b, q, n, w, v)
        PROVE  DOMAIN content' = Memory
    <3>1. \A m, o, k, data, torn : \A moved \in Moved(m, o, k, data, torn) : DOMAIN moved = Memory
      BY <1>1 DEF Moved
    <3>2. \A moved, m, o, k, data : DOMAIN Put(moved, m, o, k, data) = DOMAIN moved
      BY DEF Put
    <3> QED BY <2>4, <3>1, <3>2 DEF HostCopyFill
  <2> QED BY <1>5, <2>1, <2>2, <2>3, <2>4 DEF HostStep, HostStore, HostStoreSpan
<1>6. CASE GraphicsHalf
  BY <1>6 DEF GraphicsHalf, Aside, FreeMemory, ExecuteClears, Paint
<1>7. CASE UNCHANGED cvars
  BY <1>7 DEF cvars
<1> QED
  BY <1>2, <1>3, <1>4, <1>5, <1>6, <1>7 DEF CNext, GraphicsHalf

\* The dwords of an image are dwords of its memory.
LEMMA ImageDwords ==
  ASSUME Inv, CType, NEW i \in Image, home[i] # Nothing,
         NEW d \in where[i] .. where[i] + footprint[i] - 1
  PROVE  home[i] \in Memory /\ i \in Exists /\ d \in Dword
<1>1. /\ home[i] \in Memory /\ i \in Exists /\ where[i] \in Nat /\ footprint[i] \in Nat
      /\ footprint[i] # 0 /\ where[i] + footprint[i] <= size[home[i]] /\ size[home[i]] \in Nat
  BY DEF Inv, GTypeOK, Homed, NothingDangles, Exists
<1>2. size[home[i]] \in Sizes /\ d \in 0 .. size[home[i]] - 1
  BY <1>1 DEF CType, Allocated
<1> QED
  BY <1>1, <1>2 DEF Dword

\* A copy that finds its destination writable overlaps no other image.
LEMMA WritableSpares ==
  ASSUME Inv, CType, NEW r \in Copy, Writable(r), NEW i \in Image, home[i] # Nothing,
         state[i] # "TRANSFER_DESTINATION", NEW d \in where[i] .. where[i] + footprint[i] - 1
  PROVE  ~(r.toMemory = home[i] /\ d \in r.to .. r.to + r.n - 1)
<1>1. i \in Exists /\ where[i] \in Nat /\ footprint[i] \in Nat
  BY ImageDwords DEF Inv, GTypeOK
<1>2. r.to \in Nat /\ r.n \in Nat
  BY DEF Copy
<1>3. ASSUME r.toMemory = home[i], d \in r.to .. r.to + r.n - 1
      PROVE  r.to < where[i] + footprint[i] /\ where[i] < r.to + r.n
  BY <1>1, <1>2, <1>3
<1> QED
  BY <1>1, <1>3 DEF Writable, CopyAccess

LEMMA SubmitSpares ==
  ASSUME Inv, CType, DOMAIN content = Memory, NEW c \in CopyBuffer, NEW f \in Fence, Submit(c, f),
         NEW i \in Image, home[i] # Nothing, state[i] # "TRANSFER_DESTINATION",
         NEW d \in where[i] .. where[i] + footprint[i] - 1
  PROVE  content'[home[i]][d] = content[home[i]][d]
<1>1. content' = Transferred(copies[c]) /\ copies[c] \in Seq(Copy) /\ Preflight(copies[c])
  BY DEF Submit, CType
<1>2. ASSUME NEW k \in DOMAIN copies[c]
      PROVE  /\ copies[c][k] \in Copy /\ Writable(copies[c][k])
  BY <1>1, LenProperties, ElementOfSeq DEF Preflight
<1>3. \A k \in DOMAIN copies[c] :
        ~(copies[c][k].toMemory = home[i]
          /\ d \in copies[c][k].to .. copies[c][k].to + copies[c][k].n - 1)
  BY <1>2, WritableSpares
<1>4. home[i] \in Memory /\ d \in Dword
  BY ImageDwords
<1> QED
  BY <1>1, <1>3, <1>4, TransferSpares

-----------------------------------------------------------------------------
(* The theorems.                                                           *)

CInv ==
  Inv /\ CType /\ BuffersFit /\ UsesAreCounted /\ RecordsStayValid /\ Packed(Ranges, nextVa)

LEMMA InitUnused == CInit => \A b \in Buffer : AllUses(b) = {}
<1> SUFFICES ASSUME CInit, NEW b \in Buffer PROVE AllUses(b) = {}
  OBVIOUS
<1>1. \A c \in CopyBuffer : copies[c] = <<>>
  BY DEF CInit
<1>2. DOMAIN <<>> = {}
  BY EmptySeq
<1> QED
  BY <1>1, <1>2 DEF AllUses

LEMMA InitCInv == CInit => CInv
<1> SUFFICES ASSUME CInit PROVE CInv
  OBVIOUS
<1>1. Inv
  BY InitInv DEF CInit
<1>2. /\ length = [b \in Buffer |-> 0] /\ place = [b \in Buffer |-> Nothing]
      /\ start = [b \in Buffer |-> 0] /\ uses = [b \in Buffer |-> 0]
      /\ copies = [c \in CopyBuffer |-> <<>>] /\ size = [m \in Memory |-> 0]
      /\ boundBuffers = [m \in Memory |-> 0] /\ nextVa = Page
      /\ marker = [f \in Fence |-> 0] /\ scratch = [k \in Scratch |-> 0] /\ given = {}
  BY DEF CInit, GInit, InitMemories, Scratch
<1>3. <<>> \in Seq(Copy) /\ Len(<<>>) = 0 /\ DOMAIN <<>> = {}
  BY EmptySeq
<1>4. CType
  <2>1. \A c \in CopyBuffer : copies[c] \in Seq(Copy) /\ Len(copies[c]) = 0
    BY <1>2, <1>3
  <2>2. copies \in [CopyBuffer -> Seq(Copy)] /\ \A c \in CopyBuffer : Len(copies[c]) <= MaxCopies
    BY <1>2, <1>3, <2>1, CopyQueueAssumption
  <2> QED BY <1>2, <2>2 DEF CInit, CType, Allocated
<1>5. BuffersFit
  BY <1>2 DEF BuffersFit
<1>6. UsesAreCounted
  <2>1. \A m \in Memory : {b \in Buffer : place[b] = m} = {}
    BY <1>2, GraphicsAssumption
  <2> QED BY <1>2, <2>1, InitUnused, FS_EmptySet DEF UsesAreCounted
<1>7. RecordsStayValid
  BY <1>2, <1>3 DEF RecordsStayValid, Copied
<1>8. Packed(Ranges, nextVa)
  <2>1. Ranges = {}
    BY <1>2 DEF Ranges, Allocated
  <2> QED BY <1>2, <2>1, MemoriesAssumption DEF Packed
<1> QED
  BY <1>1, <1>4, <1>5, <1>6, <1>7, <1>8 DEF CInv

LEMMA NextCInv == CInv /\ [CNext]_cvars => CInv'
  BY NextInv, NextCType, NextFit, NextUses, NextRecords, NextPacked DEF CInv, Packed

LEMMA CopyInvariance == CSpec => []CInv
  BY InitCInv, NextCInv, PTL DEF CSpec

\* openagc_gpu.c counts exactly: what keeps a buffer where it is, its uses by
\* recorded copies, and what keeps a memory, the buffers bound to it.
THEOREM CountsAreExact == CSpec => []UsesAreCounted
  BY CopyInvariance, PTL DEF CInv

\* What command_copy_buffer checked and encoded holds for as long as the copy is
\* recorded: its buffers are bound there, its addresses theirs, its runs apart.
THEOREM CopiesStayValid == CSpec => []RecordsStayValid
  BY CopyInvariance, PTL DEF CInv

\* reserve_va never hands out an address twice: memories, fence markers, scratch
\* addresses and callers' ranges are apart, below what is next.
THEOREM AddressesAreApart == CSpec => []AddressesAreFresh
<1>1. CInv => AddressesAreFresh
  BY DEF CInv, Packed, AddressesAreFresh
<1> QED
  BY <1>1, CopyInvariance, PTL

\* The images keep their guarantees beside the queue: their counters, and what
\* recordings and plans name (NothingDangles).
THEOREM ImagesBesideTheQueue == CSpec => [](CountersAreExact /\ NothingDangles /\ RevisionDecides)
<1>1. CInv => CountersAreExact /\ NothingDangles /\ RevisionDecides
  BY DEF CInv, Inv
<1> QED
  BY <1>1, CopyInvariance, PTL

\* A submission signals its fence with a number that no earlier submission of the
\* queue had, and only reset and destruction clear it.
THEOREM FencesStaySignaled == CSpec => SignalsStay
<1> DEFINE Signals == \A f \in Fence :
      /\ signal[f] # 0 => signal'[f] \in {0, signal[f]}
      /\ signal[f] = 0 /\ signal'[f] # 0 => sequence < signal'[f] /\ sequence' = signal'[f]
<1>1. ASSUME CInv, [CNext]_cvars, NEW f \in Fence
      PROVE  /\ signal[f] # 0 => signal'[f] \in {0, signal[f]}
             /\ signal[f] = 0 /\ signal'[f] # 0 => sequence < signal'[f] /\ sequence' = signal'[f]
  <2>1. sequence \in Nat /\ signal \in [Fence -> Nat] /\ [CNext]_cvars
    BY <1>1 DEF CInv, CType
  <2>2. CASE Submitted
    BY <2>1, <2>2 DEF Submitted, Submit, FenceFree
  <2>3. CASE Fenced
    BY <2>1, <2>3 DEF Fenced, CreateFence, DestroyFence, ResetFence
  <2>4. CASE Queued
    BY <2>4 DEF Queued, CreateQueue, DestroyQueue
  <2>5. CASE Reserved
    BY <2>5 DEF Reserved, ReserveVa, submissions
  <2>6. CASE Called \/ Silent
    BY <2>6 DEF Called, Silent
  <2> QED BY <2>1, <2>2, <2>3, <2>4, <2>5, <2>6, NumberKinds
<1>2. CInv /\ [CNext]_cvars => Signals
  BY <1>1
<1> QED
  BY <1>2, CopyInvariance, PTL DEF CSpec, SignalsStay

\* queue_submit writes into no image but those that are, when it is called, in the
\* state that copies need: the preflight of a list covers all that it writes.
THEOREM SubmissionsSpareOthers == CSpec => SubmissionsSpareImages
<1> DEFINE Spares == sequence' = sequence + 1 =>
      \A i \in Image : home[i] # Nothing /\ state[i] # "TRANSFER_DESTINATION" =>
        \A d \in where[i] .. where[i] + footprint[i] - 1 :
          content'[home[i]][d] = content[home[i]][d]
<1>1. CInit => Filled
  BY DEF CInit, Filled
<1>2. CInv /\ Filled /\ [CNext]_cvars => Filled'
  BY NextContent DEF CInv, Filled
<1>3. CInv /\ Filled /\ [CNext]_cvars => Spares
  <2> SUFFICES ASSUME CInv, Filled, [CNext]_cvars, sequence' = sequence + 1
               PROVE  \A i \in Image : home[i] # Nothing /\ state[i] # "TRANSFER_DESTINATION" =>
                        \A d \in where[i] .. where[i] + footprint[i] - 1 :
                          content'[home[i]][d] = content[home[i]][d]
    OBVIOUS
  <2>1. sequence \in Nat /\ sequence' # sequence /\ sequence' # 0
    BY DEF CInv, CType
  <2>2. Submitted
    BY <2>1, NumberKinds DEF Fenced, Queued, Reserved, Called, Silent, CreateFence, DestroyFence,
                             ResetFence, CreateQueue, DestroyQueue, ReserveVa, submissions
  <2> QED BY <2>2, SubmitSpares DEF Submitted, CInv, Filled
<1> QED
  BY <1>1, <1>2, <1>3, CopyInvariance, PTL DEF CSpec, SubmissionsSpareImages

-----------------------------------------------------------------------------
(* Shader artifacts and pipeline plans.                                    *)

SType ==
  /\ artifact \in [Shader -> Reflection \cup {Nothing}] /\ employed \in [Shader -> Int]
  /\ plan \in [PipelinePlan -> PlanType \cup {Nothing}]
  /\ artifacts \in Nat /\ plans \in Nat /\ locks \in [Buffer -> Int]

-----------------------------------------------------------------------------
(* Sets that grow and shrink.                                              *)

LEMMA CountsOneMore ==
  ASSUME NEW A, IsFiniteSet(A), NEW x, x \notin A
  PROVE  IsFiniteSet(A \cup {x}) /\ Cardinality(A \cup {x}) = Cardinality(A) + 1
  BY FS_AddElement

LEMMA CountsOneLess ==
  ASSUME NEW A, IsFiniteSet(A), NEW x, x \in A
  PROVE  IsFiniteSet(A \ {x}) /\ Cardinality(A \ {x}) = Cardinality(A) - 1
  BY FS_RemoveElement

\* The slots R of one plan, among the uses A of an object by others.
LEMMA CountsSlots ==
  ASSUME NEW A, IsFiniteSet(A), NEW p, NEW R, IsFiniteSet(R), A \cap ({p} \X R) = {}
  PROVE  /\ IsFiniteSet(A \cup ({p} \X R))
         /\ Cardinality(A \cup ({p} \X R)) = Cardinality(A) + Cardinality(R)
<1>1. IsFiniteSet({p}) /\ Cardinality({p}) = 1
  BY FS_Singleton
<1>2. IsFiniteSet({p} \X R) /\ Cardinality({p} \X R) = 1 * Cardinality(R)
  BY <1>1, FS_Product
<1>3. /\ IsFiniteSet(A \cup ({p} \X R))
      /\ Cardinality(A \cup ({p} \X R)) =
           Cardinality(A) + Cardinality({p} \X R) - Cardinality(A \cap ({p} \X R))
  BY <1>2, FS_Union
<1>4. Cardinality(A \cap ({p} \X R)) = 0
  BY FS_EmptySet
<1>5. Cardinality(A) \in Nat /\ Cardinality(R) \in Nat
  BY FS_CardinalityType
<1> QED
  BY <1>2, <1>3, <1>4, <1>5

\* At most one slot of a plan has a given object.
LEMMA AtMostOne ==
  ASSUME NEW R, \A k, l \in R : k = l
  PROVE  IsFiniteSet(R) /\ Cardinality(R) \in {0, 1} /\ (Cardinality(R) = 0 <=> R = {})
<1>1. CASE R = {}
  BY <1>1, FS_EmptySet
<1>2. CASE R # {}
  <2>1. PICK k \in R : R = {k}
    BY <1>2
  <2>2. IsFiniteSet({k}) /\ Cardinality({k}) = 1
    BY FS_Singleton
  <2> QED BY <1>2, <2>1, <2>2
<1> QED BY <1>1, <1>2

-----------------------------------------------------------------------------
(* What plans use.                                                         *)

ByBuffer(b) == {u \in Made \X Slot : u[2] \in Resources(plan[u[1]], b)}
ByTexture(i) == {u \in Made \X Slot : u[2] \in Textures(plan[u[1]], i)}
ByTarget(i) == {p \in Made : plan[p].target = i}
ByStage(s) == {p \in Made : s \in plan[p].stages}

LEMMA MadeFinite == IsFiniteSet(Made) /\ IsFiniteSet(Known)
  BY ShaderAssumption, FS_Subset DEF Made, Known

LEMMA UsesOfPlansFinite ==
  ASSUME NEW x
  PROVE  IsFiniteSet(ByBuffer(x)) /\ IsFiniteSet(ByTexture(x)) /\ IsFiniteSet(ByTarget(x))
         /\ IsFiniteSet(ByStage(x))
<1>1. IsFiniteSet(Made \X Slot)
  BY MadeFinite, ShaderAssumption, FS_Product
<1> QED
  BY <1>1, MadeFinite, FS_Subset DEF ByBuffer, ByTexture, ByTarget, ByStage

LEMMA PlanParts ==
  ASSUME NEW new \in PlanType
  PROVE  /\ new # Nothing /\ new.stages \subseteq Shader /\ new.target \in Image \cup {Nothing}
         /\ DOMAIN new.resources \subseteq Slot
         /\ \A k \in DOMAIN new.resources : new.resources[k] \in Resource
         /\ DOMAIN new.textures \subseteq Slot
         /\ \A k \in DOMAIN new.textures : new.textures[k] \in Image
         /\ \A b : Resources(new, b) \subseteq Slot /\ IsFiniteSet(Resources(new, b))
         /\ \A i : Textures(new, i) \subseteq Slot /\ IsFiniteSet(Textures(new, i))
<1>1. new # Nothing /\ new.stages \subseteq Shader /\ new.target \in Image \cup {Nothing}
  BY NothingAssumption DEF PlanType
<1>2. PICK S \in Slots : new.resources \in [S -> Resource]
  BY DEF PlanType
<1>3. PICK T \in Slots : new.textures \in [T -> Image]
  BY DEF PlanType
<1>4. S \subseteq Slot /\ T \subseteq Slot
  BY DEF Slots
<1> QED
  BY <1>1, <1>2, <1>3, <1>4, ShaderAssumption, FS_Subset DEF Resources, Textures

\* The uses of all the plans, with those of one more.
LEMMA UsesGrow ==
  ASSUME SType, NEW p \in PipelinePlan, p \notin Made, NEW new \in PlanType,
         plan' = [plan EXCEPT ![p] = new]
  PROVE  /\ Made' = Made \cup {p}
         /\ \A b : ByBuffer(b)' = ByBuffer(b) \cup ({p} \X Resources(new, b))
                   /\ ByBuffer(b) \cap ({p} \X Resources(new, b)) = {}
         /\ \A i : ByTexture(i)' = ByTexture(i) \cup ({p} \X Textures(new, i))
                   /\ ByTexture(i) \cap ({p} \X Textures(new, i)) = {}
         /\ \A i : ByTarget(i)' = ByTarget(i) \cup (IF new.target = i THEN {p} ELSE {})
         /\ \A s : ByStage(s)' = ByStage(s) \cup (IF s \in new.stages THEN {p} ELSE {})
<1>1. plan'[p] = new /\ new # Nothing /\ \A q \in PipelinePlan : q # p => plan'[q] = plan[q]
  BY PlanParts DEF SType
<1>2. Made' = Made \cup {p} /\ \A q \in Made : q # p /\ plan'[q] = plan[q]
  BY <1>1 DEF Made
<1>3. ASSUME NEW b
      PROVE  ByBuffer(b)' = ByBuffer(b) \cup ({p} \X Resources(new, b))
             /\ ByBuffer(b) \cap ({p} \X Resources(new, b)) = {}
  <2>1. Resources(new, b) \subseteq Slot
    BY PlanParts
  <2>2. ByBuffer(b)' = {u \in Made' \X Slot : u[2] \in Resources(plan'[u[1]], b)}
    BY DEF ByBuffer, Resources
  <2> QED BY <1>1, <1>2, <2>1, <2>2 DEF ByBuffer
<1>4. ASSUME NEW i
      PROVE  ByTexture(i)' = ByTexture(i) \cup ({p} \X Textures(new, i))
             /\ ByTexture(i) \cap ({p} \X Textures(new, i)) = {}
  <2>1. Textures(new, i) \subseteq Slot
    BY PlanParts
  <2>2. ByTexture(i)' = {u \in Made' \X Slot : u[2] \in Textures(plan'[u[1]], i)}
    BY DEF ByTexture, Textures
  <2> QED BY <1>1, <1>2, <2>1, <2>2 DEF ByTexture
<1>5. \A i : ByTarget(i)' = ByTarget(i) \cup (IF new.target = i THEN {p} ELSE {})
  BY <1>1, <1>2 DEF ByTarget
<1>6. \A s : ByStage(s)' = ByStage(s) \cup (IF s \in new.stages THEN {p} ELSE {})
  BY <1>1, <1>2 DEF ByStage
<1> QED
  BY <1>2, <1>3, <1>4, <1>5, <1>6

\* ... and without those of one of them.
LEMMA UsesShrink ==
  ASSUME SType, NEW p \in Made, plan' = [plan EXCEPT ![p] = Nothing]
  PROVE  /\ Made' = Made \ {p} /\ p \in PipelinePlan /\ plan[p] \in PlanType
         /\ \A b : ByBuffer(b) = ByBuffer(b)' \cup ({p} \X Resources(plan[p], b))
                   /\ ByBuffer(b)' \cap ({p} \X Resources(plan[p], b)) = {}
         /\ \A i : ByTexture(i) = ByTexture(i)' \cup ({p} \X Textures(plan[p], i))
                   /\ ByTexture(i)' \cap ({p} \X Textures(plan[p], i)) = {}
         /\ \A i : ByTarget(i)' = ByTarget(i) \ (IF plan[p].target = i THEN {p} ELSE {})
         /\ \A s : ByStage(s)' = ByStage(s) \ (IF s \in plan[p].stages THEN {p} ELSE {})
<1>1. p \in PipelinePlan /\ plan[p] \in PlanType /\ plan'[p] = Nothing
      /\ \A q \in PipelinePlan : q # p => plan'[q] = plan[q]
  BY DEF SType, Made
<1>2. Made' = Made \ {p} /\ \A q \in Made' : q # p /\ plan'[q] = plan[q]
  BY <1>1 DEF Made
<1>3. ASSUME NEW b
      PROVE  ByBuffer(b) = ByBuffer(b)' \cup ({p} \X Resources(plan[p], b))
             /\ ByBuffer(b)' \cap ({p} \X Resources(plan[p], b)) = {}
  <2>1. Resources(plan[p], b) \subseteq Slot
    BY <1>1, PlanParts
  <2>2. ByBuffer(b)' = {u \in Made' \X Slot : u[2] \in Resources(plan'[u[1]], b)}
    BY DEF ByBuffer, Resources
  <2> QED BY <1>1, <1>2, <2>1, <2>2 DEF ByBuffer
<1>4. ASSUME NEW i
      PROVE  ByTexture(i) = ByTexture(i)' \cup ({p} \X Textures(plan[p], i))
             /\ ByTexture(i)' \cap ({p} \X Textures(plan[p], i)) = {}
  <2>1. Textures(plan[p], i) \subseteq Slot
    BY <1>1, PlanParts
  <2>2. ByTexture(i)' = {u \in Made' \X Slot : u[2] \in Textures(plan'[u[1]], i)}
    BY DEF ByTexture, Textures
  <2> QED BY <1>1, <1>2, <2>1, <2>2 DEF ByTexture
<1>5. \A i : ByTarget(i)' = ByTarget(i) \ (IF plan[p].target = i THEN {p} ELSE {})
  BY <1>1, <1>2 DEF ByTarget
<1>6. \A s : ByStage(s)' = ByStage(s) \ (IF s \in plan[p].stages THEN {p} ELSE {})
  BY <1>1, <1>2 DEF ByStage
<1> QED
  BY <1>1, <1>2, <1>3, <1>4, <1>5, <1>6

-----------------------------------------------------------------------------
(* The counts are exact.                                                   *)

LEMMA CreateCounts ==
  ASSUME SType, ReferencesAreExact, NEW p \in PipelinePlan, NEW new \in PlanType,
         CreatePlan(p, new)
  PROVE  ReferencesAreExact'
<1>1. p \notin Made /\ plan' = [plan EXCEPT ![p] = new] /\ plans' = plans + 1 /\ plans < MaxPlans
      /\ UNCHANGED <<artifact, artifacts>>
  BY DEF CreatePlan, Kept
<1>2. /\ Made' = Made \cup {p}
      /\ \A b : ByBuffer(b)' = ByBuffer(b) \cup ({p} \X Resources(new, b))
                /\ ByBuffer(b) \cap ({p} \X Resources(new, b)) = {}
      /\ \A i : ByTexture(i)' = ByTexture(i) \cup ({p} \X Textures(new, i))
                /\ ByTexture(i) \cap ({p} \X Textures(new, i)) = {}
      /\ \A i : ByTarget(i)' = ByTarget(i) \cup (IF new.target = i THEN {p} ELSE {})
      /\ \A s : ByStage(s)' = ByStage(s) \cup (IF s \in new.stages THEN {p} ELSE {})
  BY <1>1, UsesGrow
<1>3. artifacts' = Cardinality(Known') /\ artifacts' <= MaxArtifacts
  BY <1>1 DEF ReferencesAreExact, Known
<1>4. plans' = Cardinality(Made') /\ plans' <= MaxPlans
  <2>1. Cardinality(Made \cup {p}) = Cardinality(Made) + 1
    BY <1>1, MadeFinite, CountsOneMore
  <2>2. plans = Cardinality(Made) /\ plans \in Nat /\ MaxPlans \in Nat
    BY ShaderAssumption DEF ReferencesAreExact, SType
  <2> QED BY <1>1, <1>2, <2>1, <2>2
<1>5. ASSUME NEW s \in Shader
      PROVE  employed'[s] = Cardinality(ByStage(s)')
  <2>1. employed[s] = Cardinality(ByStage(s))
    BY DEF ReferencesAreExact, ByStage
  <2>2. employed'[s] = IF s \in new.stages THEN employed[s] + 1 ELSE employed[s]
    BY DEF CreatePlan, Kept
  <2>3. p \notin ByStage(s)
    BY <1>1 DEF ByStage
  <2>4. Cardinality(ByStage(s) \cup {p}) = Cardinality(ByStage(s)) + 1
    BY <2>3, UsesOfPlansFinite, CountsOneMore
  <2>5. CASE s \in new.stages
    BY <1>2, <2>1, <2>2, <2>4, <2>5
  <2>6. CASE s \notin new.stages
    BY <1>2, <2>1, <2>2, <2>6
  <2> QED BY <2>5, <2>6
<1>6. ASSUME NEW b \in Buffer
      PROVE  locks'[b] = Cardinality(ByBuffer(b)')
  <2>1. locks[b] = Cardinality(ByBuffer(b))
    BY DEF ReferencesAreExact, ByBuffer
  <2>2. locks'[b] = locks[b] + Cardinality(Resources(new, b))
    BY DEF CreatePlan, Kept, Locks
  <2>3. Cardinality(ByBuffer(b) \cup ({p} \X Resources(new, b))) =
          Cardinality(ByBuffer(b)) + Cardinality(Resources(new, b))
    BY <1>2, UsesOfPlansFinite, PlanParts, CountsSlots
  <2> QED BY <1>2, <2>1, <2>2, <2>3
<1>7. ASSUME NEW i \in Image
      PROVE  pins'[i] = Cardinality(ByTarget(i)') + Cardinality(ByTexture(i)')
  <2>1. pins[i] = Cardinality(ByTarget(i)) + Cardinality(ByTexture(i))
    BY DEF ReferencesAreExact, ByTarget, ByTexture
  <2>2. pins'[i] = pins[i] + (Cardinality(Textures(new, i)) + IF new.target = i THEN 1 ELSE 0)
    BY DEF CreatePlan, Kept, Pins
  <2>3. Cardinality(ByTexture(i)') = Cardinality(ByTexture(i)) + Cardinality(Textures(new, i))
    BY <1>2, UsesOfPlansFinite, PlanParts, CountsSlots
  <2>4. Cardinality(ByTarget(i)') = Cardinality(ByTarget(i)) + IF new.target = i THEN 1 ELSE 0
    <3>1. p \notin ByTarget(i)
      BY <1>1 DEF ByTarget
    <3>2. Cardinality(ByTarget(i) \cup {p}) = Cardinality(ByTarget(i)) + 1
      BY <3>1, UsesOfPlansFinite, CountsOneMore
    <3>3. Cardinality(ByTarget(i)) \in Nat
      BY UsesOfPlansFinite, FS_CardinalityType
    <3>4. CASE new.target = i
      BY <1>2, <3>2, <3>4
    <3>5. CASE new.target # i
      <4>1. ByTarget(i)' = ByTarget(i)
        BY <1>2, <3>5
      <4> QED BY <3>3, <3>5, <4>1
    <3> QED BY <3>4, <3>5
  <2>5. /\ Cardinality(ByTarget(i)) \in Nat /\ Cardinality(ByTexture(i)) \in Nat
        /\ Cardinality(Textures(new, i)) \in Nat
    BY UsesOfPlansFinite, PlanParts, FS_CardinalityType
  <2> QED BY <2>1, <2>2, <2>3, <2>4, <2>5
<1> QED
  BY <1>3, <1>4, <1>5, <1>6, <1>7 DEF ReferencesAreExact, ByStage, ByBuffer, ByTarget, ByTexture

LEMMA DestroyCounts ==
  ASSUME SType, ReferencesAreExact, NEW p \in PipelinePlan, DestroyPlan(p)
  PROVE  ReferencesAreExact'
<1>1. p \in Made /\ plan' = [plan EXCEPT ![p] = Nothing] /\ plans' = plans - 1
      /\ UNCHANGED <<artifact, artifacts>>
  BY DEF DestroyPlan
<1>2. /\ Made' = Made \ {p} /\ plan[p] \in PlanType
      /\ \A b : ByBuffer(b) = ByBuffer(b)' \cup ({p} \X Resources(plan[p], b))
                /\ ByBuffer(b)' \cap ({p} \X Resources(plan[p], b)) = {}
      /\ \A i : ByTexture(i) = ByTexture(i)' \cup ({p} \X Textures(plan[p], i))
                /\ ByTexture(i)' \cap ({p} \X Textures(plan[p], i)) = {}
      /\ \A i : ByTarget(i)' = ByTarget(i) \ (IF plan[p].target = i THEN {p} ELSE {})
      /\ \A s : ByStage(s)' = ByStage(s) \ (IF s \in plan[p].stages THEN {p} ELSE {})
  BY <1>1, UsesShrink
<1>3. artifacts' = Cardinality(Known') /\ artifacts' <= MaxArtifacts
  BY <1>1 DEF ReferencesAreExact, Known
<1>4. plans' = Cardinality(Made') /\ plans' <= MaxPlans
  <2>1. Cardinality(Made \ {p}) = Cardinality(Made) - 1
    BY <1>1, MadeFinite, CountsOneLess
  <2>2. plans = Cardinality(Made) /\ plans <= MaxPlans /\ plans \in Nat /\ MaxPlans \in Nat
    BY ShaderAssumption DEF ReferencesAreExact, SType
  <2> QED BY <1>1, <1>2, <2>1, <2>2
<1>5. ASSUME NEW s \in Shader
      PROVE  employed'[s] = Cardinality(ByStage(s)')
  <2>1. employed[s] = Cardinality(ByStage(s))
    BY DEF ReferencesAreExact, ByStage
  <2>2. employed'[s] = IF s \in plan[p].stages THEN employed[s] - 1 ELSE employed[s]
    BY DEF DestroyPlan
  <2>3. CASE s \in plan[p].stages
    <3>1. p \in ByStage(s)
      BY <1>1, <2>3 DEF ByStage
    <3>2. Cardinality(ByStage(s) \ {p}) = Cardinality(ByStage(s)) - 1
      BY <3>1, UsesOfPlansFinite, CountsOneLess
    <3> QED BY <1>2, <2>1, <2>2, <2>3, <3>2
  <2>4. CASE s \notin plan[p].stages
    <3>1. ByStage(s)' = ByStage(s)
      BY <1>2, <2>4
    <3> QED BY <2>1, <2>2, <2>4, <3>1
  <2> QED BY <2>3, <2>4
<1>6. ASSUME NEW b \in Buffer
      PROVE  locks'[b] = Cardinality(ByBuffer(b)')
  <2>1. locks[b] = Cardinality(ByBuffer(b))
    BY DEF ReferencesAreExact, ByBuffer
  <2>2. locks'[b] = locks[b] - Cardinality(Resources(plan[p], b))
    BY DEF DestroyPlan, Locks
  <2>3. IsFiniteSet(ByBuffer(b)')
    BY <1>2, UsesOfPlansFinite, FS_Subset
  <2>4. Cardinality(ByBuffer(b)) = Cardinality(ByBuffer(b)') + Cardinality(Resources(plan[p], b))
    BY <1>2, <2>3, PlanParts, CountsSlots
  <2>5. Cardinality(ByBuffer(b)') \in Nat /\ Cardinality(Resources(plan[p], b)) \in Nat
    BY <1>2, <2>3, PlanParts, FS_CardinalityType
  <2> QED BY <2>1, <2>2, <2>4, <2>5
<1>7. ASSUME NEW i \in Image
      PROVE  pins'[i] = Cardinality(ByTarget(i)') + Cardinality(ByTexture(i)')
  <2>1. pins[i] = Cardinality(ByTarget(i)) + Cardinality(ByTexture(i))
    BY DEF ReferencesAreExact, ByTarget, ByTexture
  <2>2. pins'[i] = pins[i] - (Cardinality(Textures(plan[p], i))
                              + IF plan[p].target = i THEN 1 ELSE 0)
    BY DEF DestroyPlan, Pins
  <2>3. IsFiniteSet(ByTexture(i)')
    BY <1>2, UsesOfPlansFinite, FS_Subset
  <2>4. Cardinality(ByTexture(i)) = Cardinality(ByTexture(i)') + Cardinality(Textures(plan[p], i))
    BY <1>2, <2>3, PlanParts, CountsSlots
  <2>5. Cardinality(ByTarget(i)') = Cardinality(ByTarget(i)) - IF plan[p].target = i THEN 1 ELSE 0
    <3>1. CASE plan[p].target = i
      <4>1. p \in ByTarget(i)
        BY <1>1, <3>1 DEF ByTarget
      <4>2. Cardinality(ByTarget(i) \ {p}) = Cardinality(ByTarget(i)) - 1
        BY <4>1, UsesOfPlansFinite, CountsOneLess
      <4> QED BY <1>2, <3>1, <4>2
    <3>2. CASE plan[p].target # i
      <4>1. ByTarget(i)' = ByTarget(i) /\ Cardinality(ByTarget(i)) \in Nat
        BY <1>2, <3>2, UsesOfPlansFinite, FS_CardinalityType
      <4> QED BY <3>2, <4>1
    <3> QED BY <3>1, <3>2
  <2>6. /\ Cardinality(ByTarget(i)) \in Nat /\ Cardinality(ByTexture(i)') \in Nat
        /\ Cardinality(Textures(plan[p], i)) \in Nat
    BY <1>2, <2>3, UsesOfPlansFinite, PlanParts, FS_CardinalityType
  <2> QED BY <2>1, <2>2, <2>4, <2>5, <2>6
<1> QED
  BY <1>3, <1>4, <1>5, <1>6, <1>7 DEF ReferencesAreExact, ByStage, ByBuffer, ByTarget, ByTexture

LEMMA ArtifactCounts ==
  ASSUME SType, ReferencesAreExact, NEW s \in Shader,
         DestroyArtifact(s) \/ \E reflection \in Reflection : Intake(s, reflection)
  PROVE  ReferencesAreExact'
<1>1. UNCHANGED <<employed, plan, plans, locks, pins>>
  BY DEF DestroyArtifact, Intake, cvars, gvars, images, buffers
<1>2. artifacts = Cardinality(Known) /\ artifacts \in Nat /\ artifacts <= MaxArtifacts
      /\ MaxArtifacts \in Nat
  BY ShaderAssumption DEF ReferencesAreExact, SType
<1>3. CASE DestroyArtifact(s)
  <2>1. Known' = Known \ {s} /\ s \in Known /\ artifacts' = artifacts - 1
    BY <1>3 DEF DestroyArtifact, MayDiscard, Known, SType
  <2>2. Cardinality(Known \ {s}) = Cardinality(Known) - 1
    BY <2>1, MadeFinite, CountsOneLess
  <2>3. artifacts' = Cardinality(Known') /\ artifacts' <= MaxArtifacts
    BY <1>2, <2>1, <2>2
  <2> QED BY <1>1, <2>3 DEF ReferencesAreExact, Made, Resources, Textures
<1>4. ASSUME NEW reflection \in Reflection, Intake(s, reflection)
      PROVE  ReferencesAreExact'
  <2>1. Known' = Known \cup {s} /\ s \notin Known /\ artifacts' = artifacts + 1
        /\ artifacts < MaxArtifacts
    BY <1>4, NothingAssumption DEF Intake, HasPlace, Known, SType
  <2>2. Cardinality(Known \cup {s}) = Cardinality(Known) + 1
    BY <2>1, MadeFinite, CountsOneMore
  <2>3. artifacts' = Cardinality(Known') /\ artifacts' <= MaxArtifacts
    BY <1>2, <2>1, <2>2
  <2> QED BY <1>1, <2>3 DEF ReferencesAreExact, Made, Resources, Textures
<1> QED
  BY <1>3, <1>4

\* A plan that is asked for is a plan.
LEMMA AskedIsPlan ==
  ASSUME SType, NEW S \in SUBSET Known, NEW new \in Asking(S)
  PROVE  new \in PlanType /\ new.stages = S
<1>1. Wanted(S) \in Slots /\ WantedTextures(S) \in Slots /\ S \subseteq Shader
  <2>1. \A s \in S : artifact[s].textures \subseteq Slot
    BY DEF SType, Known, Reflection
  <2> QED BY <2>1 DEF Wanted, WantedTextures, Slots, Known
<1> HIDE DEF Wanted, WantedTextures
<1>2. new = [stages |-> S, target |-> new.target, resources |-> new.resources,
             textures |-> new.textures]
      /\ new.target \in Image \cup {Nothing} /\ new.resources \in [Wanted(S) -> Resource]
      /\ new.textures \in [WantedTextures(S) -> Image]
  BY DEF Asking
<1> QED
  BY <1>1, <1>2 DEF PlanType

-----------------------------------------------------------------------------
(* The images and the queue, beside the plans.                             *)

Pinnable == /\ pins' \in [Image -> 0 .. CountMax]
            /\ \A i \in Image : pins'[i] # 0 => i \in Exists /\ home[i] # Nothing

\* A new plan pins an image once at most: as a target or as one of its textures.
LEMMA CreatePins ==
  ASSUME Inv, NEW p \in PipelinePlan, NEW new \in PlanType, CreatePlan(p, new)
  PROVE  Pinnable
<1>1. pins' = [i \in Image |-> pins[i] + (Cardinality(Textures(new, i))
                                         + IF new.target = i THEN 1 ELSE 0)]
  BY DEF CreatePlan, Kept, Pins
<1>2. ASSUME NEW i \in Image
      PROVE  /\ pins[i] + (Cardinality(Textures(new, i)) + IF new.target = i THEN 1 ELSE 0)
                  \in {pins[i], pins[i] + 1}
             /\ i \notin Exists \/ home[i] = Nothing \/ pins[i] = CountMax =>
                  pins[i] + (Cardinality(Textures(new, i)) + IF new.target = i THEN 1 ELSE 0)
                    = pins[i]
  <2>1. pins[i] \in Nat
    BY GraphicsAssumption DEF Inv, GTypeOK
  <2>2. \A k, l \in Textures(new, i) : k = l
    BY DEF CreatePlan, TexturesFit, NoneTwice, Textures
  <2>3. /\ Cardinality(Textures(new, i)) \in {0, 1}
        /\ Cardinality(Textures(new, i)) = 0 <=> Textures(new, i) = {}
    BY <2>2, AtMostOne
  <2>4. Textures(new, i) # {} => state[i] = "SHADER_READ" /\ Referable(i)
    BY DEF CreatePlan, TexturesFit, IsTexture, Textures
  <2>5. new.target = i => state[i] = "COLOR_TARGET" /\ Referable(i)
    BY GraphicsAssumption DEF CreatePlan, IsTarget
  <2>6. CASE Textures(new, i) = {} /\ new.target # i
    BY <2>1, <2>3, <2>6
  <2>7. CASE Textures(new, i) # {} \/ new.target = i
    <3>1. Cardinality(Textures(new, i)) + (IF new.target = i THEN 1 ELSE 0) = 1
      BY <2>3, <2>4, <2>5, <2>7
    <3>2. i \in Exists /\ home[i] # Nothing /\ pins[i] # CountMax
      BY <2>4, <2>5, <2>7 DEF Referable
    <3> QED BY <3>1, <3>2
  <2> QED BY <2>6, <2>7
<1>3. ASSUME NEW i \in Image
      PROVE  pins'[i] \in 0 .. CountMax /\ (pins'[i] # 0 => i \in Exists /\ home[i] # Nothing)
  <2>1. pins[i] \in 0 .. CountMax /\ CountMax \in Nat
        /\ (pins[i] # 0 => i \in Exists /\ home[i] # Nothing)
    BY GraphicsAssumption DEF Inv, GTypeOK, NothingDangles
  <2>2. pins'[i] \in {pins[i], pins[i] + 1}
        /\ (i \notin Exists \/ home[i] = Nothing \/ pins[i] = CountMax => pins'[i] = pins[i])
    BY <1>1, <1>2
  <2> QED BY <2>1, <2>2
<1> QED
  BY <1>1, <1>3 DEF Pinnable

LEMMA DestroyPins ==
  ASSUME Inv, SType, ReferencesAreExact, ReferencesAreExact', NEW p \in PipelinePlan,
         DestroyPlan(p)
  PROVE  Pinnable
<1>1. pins' = [i \in Image |-> pins[i] - (Cardinality(Textures(plan[p], i))
                                         + IF plan[p].target = i THEN 1 ELSE 0)]
  BY DEF DestroyPlan, Pins
<1>2. IsFiniteSet(Made') /\ IsFiniteSet(Made' \X Slot)
  <2>1. IsFiniteSet(Made')
    BY ShaderAssumption, FS_Subset DEF Made
  <2> QED BY <2>1, ShaderAssumption, FS_Product
<1>3. ASSUME NEW i \in Image
      PROVE  pins'[i] \in 0 .. CountMax /\ (pins'[i] # 0 => pins[i] # 0)
  <2>1. pins'[i] \in Nat
    <3> DEFINE A == {q \in Made' : plan'[q].target = i}
               B == {u \in Made' \X Slot : u[2] \in Textures(plan'[u[1]], i)}
    <3>1. pins'[i] = Cardinality(A) + Cardinality(B)
      BY DEF ReferencesAreExact, Textures
    <3>2. IsFiniteSet(A) /\ IsFiniteSet(B)
      BY <1>2, FS_Subset
    <3> HIDE DEF A, B
    <3> QED BY <3>1, <3>2, FS_CardinalityType
  <2>2. Cardinality(Textures(plan[p], i)) \in Nat
    <3>1. plan[p] \in PlanType
      BY DEF DestroyPlan, Made, SType
    <3> QED BY <3>1, PlanParts, FS_CardinalityType
  <2>3. pins[i] \in 0 .. CountMax /\ CountMax \in Nat
    BY GraphicsAssumption DEF Inv, GTypeOK
  <2>4. pins'[i] <= pins[i]
    BY <1>1, <2>2, <2>3
  <2> QED BY <2>1, <2>3, <2>4
<1> QED
  BY <1>1, <1>3 DEF Pinnable, Inv, NothingDangles

\* A step that changes only who is pinned keeps what is known of images.
LEMMA PinnedInv ==
  ASSUME Inv, Pinnable, UNCHANGED <<memories, footprint, home, where, state, revision, references,
                                   phase, stream, held, shadow>>
  PROVE  Inv'
<1>1. UNCHANGED <<size, va, nextVa, spent, boundBuffers, boundImages, commands, clears, target,
                  depthTarget, scissor>>
  BY DEF memories, stream
<1>2. GTypeOK'
  BY <1>1 DEF Inv, GTypeOK, Pinnable
<1>3. CountersAreExact'
  BY <1>1 DEF Inv, CountersAreExact, Keepers, Guests
<1>4. NothingDangles' /\ Homed'
  BY <1>1 DEF Inv, NothingDangles, Homed, Exists, Pinnable
<1>5. NotAhead' /\ RevisionDecides'
  BY <1>1 DEF Inv, NotAhead, RevisionDecides, ShadowRevision, IsApplied
<1> QED
  BY <1>2, <1>3, <1>4, <1>5 DEF Inv

\* The parts of CInv that are not about images know nothing of plans.
LEMMA QueueFrame ==
  ASSUME CInv, Inv', UNCHANGED <<memories, home, where, footprint, state, length, place, start, uses,
                                 lists, submissions, calls>>
  PROVE  CInv'
<1>1. UNCHANGED <<size, va, nextVa, boundBuffers, copies, sequence, marker, signal, scratch, given>>
  BY DEF memories, lists, submissions, calls
<1>2. CType'
  BY <1>1 DEF CInv, CType, Allocated
<1>3. BuffersFit'
  BY <1>1 DEF CInv, BuffersFit, Live, Allocated
<1>4. UsesAreCounted'
  BY <1>1 DEF CInv, UsesAreCounted, AllUses
<1>5. RecordsStayValid'
  BY <1>1 DEF CInv, RecordsStayValid, Copied, Covers, Live, Allocated, Overlap
<1>6. Packed(Ranges, nextVa)'
  <2>1. Ranges' = Ranges
    BY <1>1 DEF Ranges, Allocated
  <2> QED BY <1>1, <2>1 DEF CInv, Packed
<1> QED
  BY <1>2, <1>3, <1>4, <1>5, <1>6 DEF CInv

LEMMA NextBeside ==
  ASSUME CInv, SType, ReferencesAreExact, ReferencesAreExact', [SNext]_svars
  PROVE  CInv'
<1>1. CASE UNCHANGED cvars
  BY <1>1, NextCInv
<1>2. CASE CNext
  BY <1>2, NextCInv
<1>3. ASSUME NEW p \in PipelinePlan,
             DestroyPlan(p) \/ \E S \in SUBSET Known : \E new \in Asking(S) : CreatePlan(p, new)
      PROVE  CInv'
  <2>1. Pinnable
    BY <1>3, CreatePins, DestroyPins, AskedIsPlan DEF CInv
  <2>2. UNCHANGED <<memories, footprint, home, where, state, revision, references, phase, stream,
                    held, shadow, length, place, start, uses, lists, submissions, calls>>
    BY <1>3 DEF DestroyPlan, CreatePlan
  <2>3. Inv'
    BY <2>1, <2>2, PinnedInv DEF CInv
  <2> QED BY <2>2, <2>3, QueueFrame
<1>4. ASSUME NEW s \in Shader,
             DestroyArtifact(s) \/ \E reflection \in Reflection : Intake(s, reflection)
      PROVE  UNCHANGED cvars
  BY <1>4 DEF DestroyArtifact, Intake
<1> QED
  BY <1>1, <1>2, <1>3, <1>4 DEF SNext, Elsewhere, svars

LEMMA NextReferences ==
  ASSUME SType, ReferencesAreExact, [SNext]_svars
  PROVE  ReferencesAreExact'
<1>1. ASSUME NEW p \in PipelinePlan, NEW S \in SUBSET Known, NEW new \in Asking(S),
             CreatePlan(p, new)
      PROVE  ReferencesAreExact'
  BY <1>1, AskedIsPlan, CreateCounts
<1>2. ASSUME NEW p \in PipelinePlan, DestroyPlan(p)
      PROVE  ReferencesAreExact'
  BY <1>2, DestroyCounts
<1>3. ASSUME NEW s \in Shader,
             DestroyArtifact(s) \/ \E reflection \in Reflection : Intake(s, reflection)
      PROVE  ReferencesAreExact'
  BY <1>3, ArtifactCounts
<1>4. CASE UNCHANGED <<pins, locks, shaders>>
  <2>1. UNCHANGED <<pins, locks, artifact, employed, plan, artifacts, plans>>
    BY <1>4 DEF shaders
  <2> QED BY <2>1 DEF ReferencesAreExact, Known, Made, Resources, Textures
<1>5. UNCHANGED svars => UNCHANGED <<pins, locks, shaders>>
  BY DEF svars, cvars, gvars, images, buffers
<1> QED
  BY <1>1, <1>2, <1>3, <1>4, <1>5 DEF SNext, Elsewhere

LEMMA NextSType ==
  ASSUME SType, ReferencesAreExact, [SNext]_svars
  PROVE  SType'
<1>1. artifacts' \in Nat /\ plans' \in Nat
  <2>1. IsFiniteSet(Known') /\ IsFiniteSet(Made')
    BY ShaderAssumption, FS_Subset DEF Known, Made
  <2>2. artifacts' = Cardinality(Known') /\ plans' = Cardinality(Made')
    BY NextReferences DEF ReferencesAreExact
  <2> QED BY <2>1, <2>2, FS_CardinalityType
<1>2. ASSUME NEW s \in Shader,
             DestroyArtifact(s) \/ \E reflection \in Reflection : Intake(s, reflection)
      PROVE  SType'
  <2>1. artifact' \in [Shader -> Reflection \cup {Nothing}]
    BY <1>2 DEF SType, DestroyArtifact, Intake
  <2>2. UNCHANGED <<employed, plan, locks>>
    BY <1>2 DEF DestroyArtifact, Intake, cvars, buffers
  <2> QED BY <1>1, <2>1, <2>2 DEF SType
<1>3. ASSUME NEW p \in PipelinePlan, NEW new \in PlanType, CreatePlan(p, new)
      PROVE  SType'
  <2>1. \A b \in Buffer : Cardinality(Resources(new, b)) \in Int
    BY PlanParts, FS_CardinalityType
  <2>2. plan' \in [PipelinePlan -> PlanType \cup {Nothing}]
    BY <1>3 DEF SType, CreatePlan, Kept
  <2>3. employed' \in [Shader -> Int] /\ UNCHANGED artifact
    BY <1>3 DEF SType, CreatePlan, Kept
  <2>4. locks' \in [Buffer -> Int]
    BY <1>3, <2>1 DEF SType, CreatePlan, Kept, Locks
  <2> QED BY <1>1, <2>2, <2>3, <2>4 DEF SType
<1>4. ASSUME NEW p \in PipelinePlan, DestroyPlan(p)
      PROVE  SType'
  <2>1. \A b \in Buffer : Cardinality(Resources(plan[p], b)) \in Int
    <3>1. plan[p] \in PlanType
      BY <1>4 DEF SType, DestroyPlan, Made
    <3> QED BY <3>1, PlanParts, FS_CardinalityType
  <2>2. plan' \in [PipelinePlan -> PlanType \cup {Nothing}]
    BY <1>4 DEF SType, DestroyPlan
  <2>3. employed' \in [Shader -> Int] /\ UNCHANGED artifact
    BY <1>4 DEF SType, DestroyPlan
  <2>4. locks' \in [Buffer -> Int]
    BY <1>4, <2>1 DEF SType, DestroyPlan, Locks
  <2> QED BY <1>1, <2>2, <2>3, <2>4 DEF SType
<1>5. CASE UNCHANGED <<locks, shaders>>
  BY <1>5 DEF SType, shaders
<1>6. UNCHANGED svars => UNCHANGED <<locks, shaders>>
  BY DEF svars, cvars, buffers
<1> QED
  BY <1>2, <1>3, <1>4, <1>5, <1>6, AskedIsPlan DEF SNext, Elsewhere

-----------------------------------------------------------------------------
(* What a plan holds stays where it is.                                    *)

LEMMA HeldByPlans ==
  ASSUME SType, ReferencesAreExact, NEW p \in Made
  PROVE  /\ plan[p] \in PlanType
         /\ \A s \in plan[p].stages : s \in Shader /\ employed[s] # 0
         /\ \A k \in DOMAIN plan[p].resources :
              plan[p].resources[k].buffer \in Buffer /\ locks[plan[p].resources[k].buffer] # 0
         /\ \A i \in ImagesOf(plan[p]) : i \in Image /\ pins[i] # 0
<1>1. plan[p] \in PlanType
  BY DEF SType, Made
<1>2. ASSUME NEW s \in plan[p].stages
      PROVE  s \in Shader /\ employed[s] # 0
  <2>1. s \in Shader /\ p \in ByStage(s) /\ employed[s] = Cardinality(ByStage(s))
    BY <1>1, PlanParts DEF ByStage, ReferencesAreExact
  <2> QED BY <2>1, UsesOfPlansFinite, FS_EmptySet
<1>3. ASSUME NEW k \in DOMAIN plan[p].resources
      PROVE  plan[p].resources[k].buffer \in Buffer /\ locks[plan[p].resources[k].buffer] # 0
  <2>1. PICK b \in Buffer : b = plan[p].resources[k].buffer
    BY <1>1, PlanParts DEF Resource
  <2>2. k \in Slot /\ k \in Resources(plan[p], b)
    BY <1>1, <2>1, PlanParts DEF Resources
  <2>3. <<p, k>> \in ByBuffer(b)
    BY <2>2 DEF ByBuffer
  <2>4. locks[b] = Cardinality(ByBuffer(b))
    BY DEF ByBuffer, ReferencesAreExact
  <2> QED BY <2>1, <2>3, <2>4, UsesOfPlansFinite, FS_EmptySet
<1>4. ASSUME NEW i \in ImagesOf(plan[p])
      PROVE  i \in Image /\ pins[i] # 0
  <2>1. i \in Image /\ (i = plan[p].target \/ Textures(plan[p], i) # {})
    BY DEF ImagesOf
  <2>2. /\ pins[i] = Cardinality(ByTarget(i)) + Cardinality(ByTexture(i))
        /\ Cardinality(ByTarget(i)) \in Nat /\ Cardinality(ByTexture(i)) \in Nat
    BY <2>1, UsesOfPlansFinite, FS_CardinalityType DEF ByTarget, ByTexture, ReferencesAreExact
  <2>3. CASE i = plan[p].target
    <3>1. p \in ByTarget(i)
      BY <2>3 DEF ByTarget
    <3>2. Cardinality(ByTarget(i)) # 0
      BY <3>1, UsesOfPlansFinite, FS_EmptySet
    <3> QED BY <2>1, <2>2, <3>2
  <2>4. CASE Textures(plan[p], i) # {}
    <3>1. PICK k \in Textures(plan[p], i) : k \in Slot
      BY <1>1, <2>4, PlanParts
    <3>2. <<p, k>> \in ByTexture(i)
      BY <3>1 DEF ByTexture
    <3>3. Cardinality(ByTexture(i)) # 0
      BY <3>2, UsesOfPlansFinite, FS_EmptySet
    <3> QED BY <2>1, <2>2, <3>3
  <2> QED BY <2>1, <2>3, <2>4
<1> QED
  BY <1>1, <1>2, <1>3, <1>4

\* A locked buffer neither leaves its place nor is given another.
LEMMA BufferStays ==
  ASSUME CType, BuffersFit, [CNext]_cvars, NEW b \in Buffer, place[b] # Nothing, locks[b] # 0
  PROVE  UNCHANGED <<place[b], start[b], length[b]>>
<1>1. b \in Live
  BY DEF BuffersFit
<1>2. CASE Created
  BY <1>1, <1>2 DEF Created, CreateBuffer, Live, CType
<1>3. CASE Bound
  BY <1>3 DEF Bound, BindBuffer, CType
<1>4. CASE Left
  BY <1>4 DEF Left, Leave, MayRelease, CType
<1>5. CASE Noted \/ Forgotten \/ Idle
  BY <1>5 DEF Noted, Forgotten, Idle, RecordCopy, Forget
<1> QED
  BY <1>2, <1>3, <1>4, <1>5, BufferKinds

\* ... nor does a pinned image.
LEMMA ImageStays ==
  ASSUME Inv, CType, [CNext]_cvars, NEW i \in Image, pins[i] # 0
  PROVE  UNCHANGED <<home[i], where[i], footprint[i]>>
<1>1. /\ i \in Exists /\ home[i] # Nothing
      /\ footprint \in [Image -> Nat] /\ where \in [Image -> Nat]
      /\ home \in [Image -> Memory \cup {Nothing}]
  BY DEF Inv, NothingDangles, GTypeOK
<1>2. CASE HostSide \/ UNCHANGED gvars
  BY <1>2 DEF HostSide, gvars, images
<1>3. CASE GNext
  <2>1. CASE Recorded
    BY <2>1 DEF Recorded, Record
  <2>2. CASE Dropped
    BY <2>2 DEF Dropped, Released
  <2>3. CASE Progress
    BY <2>3 DEF Progress, images
  <2>4. CASE Recycled
    <3>1. CASE MemoryStep
      BY <3>1 DEF MemoryStep, AllocateMemory, DestroyMemory, images
    <3>2. ASSUME NEW r \in Recording, ExecuteFails(r)
          PROVE  UNCHANGED images
      BY <3>2 DEF ExecuteFails, Packets
    <3>3. ASSUME NEW j \in Image, Pin(j) \/ Unpin(j) \/ \E n \in Footprints : CreateImage(j, n)
          PROVE  UNCHANGED <<home[i], where[i], footprint[i]>>
      BY <1>1, <3>3 DEF Pin, Unpin, CreateImage, Exists
    <3> QED BY <2>4, <3>1, <3>2, <3>3 DEF Recycled, images
  <2>5. CASE Placed
    BY <1>1, <2>5 DEF Placed, BindImage
  <2>6. ASSUME NEW j \in Image, DestroyImage(j)
        PROVE  UNCHANGED <<home[i], where[i], footprint[i]>>
    BY <1>1, <2>6 DEF DestroyImage, MayDestroy
  <2>7. ASSUME NEW r \in Recording, Apply(r) \/ Execute(r)
        PROVE  UNCHANGED <<home[i], where[i], footprint[i]>>
    BY <2>7 DEF Apply, Execute, Packets, images
  <2> QED BY <1>2, <1>3, <2>1, <2>2, <2>3, <2>4, <2>5, <2>6, <2>7, Kinds DEF Inv
<1> QED
  BY <1>2, <1>3, HostNext

-----------------------------------------------------------------------------
(* Plans stay whole.                                                       *)

\* What PlansStayWhole says of one plan; its slots are exactly those declared.
Whole(of) ==
  LET S == of.stages
  IN /\ S \subseteq Known
     /\ DOMAIN of.resources = Wanted(S) /\ DOMAIN of.textures = WantedTextures(S)
     /\ \A k \in DOMAIN of.resources :
          LET r == of.resources[k]
          IN  place[r.buffer] # Nothing /\ r.n >= Required(S, k) /\ r.offset + r.n <= length[r.buffer]
     /\ \A i \in ImagesOf(of) : i \in Exists /\ home[i] # Nothing

AllWhole == \A p \in Made : Whole(plan[p])

LEMMA AllAreWhole == AllWhole => PlansStayWhole
  BY DEF AllWhole, Whole, PlansStayWhole

\* What NothingMoves says of one plan.
Still(of) ==
  /\ \A s \in of.stages : artifact'[s] = artifact[s]
  /\ \A k \in DOMAIN of.resources :
       LET b == of.resources[k].buffer
       IN  UNCHANGED <<place[b], start[b], length[b]>>
  /\ \A i \in ImagesOf(of) : UNCHANGED <<home[i], where[i], footprint[i]>>

LEMMA HeldStays ==
  ASSUME CInv, SType, ReferencesAreExact, AllWhole, [SNext]_svars,
         NEW p \in Made, plan'[p] = plan[p]
  PROVE  Still(plan[p])
<1>1. /\ plan[p] \in PlanType
      /\ \A s \in plan[p].stages : s \in Known /\ s \in Shader /\ employed[s] # 0
      /\ \A k \in DOMAIN plan[p].resources :
           /\ plan[p].resources[k].buffer \in Buffer /\ locks[plan[p].resources[k].buffer] # 0
           /\ place[plan[p].resources[k].buffer] # Nothing
      /\ \A i \in ImagesOf(plan[p]) : i \in Image /\ pins[i] # 0
  BY HeldByPlans DEF AllWhole, Whole
<1> DEFINE Unmoved == UNCHANGED <<artifact, place, start, length, home, where, footprint>>
<1>2. Unmoved => Still(plan[p])
  BY DEF Still
<1>3. ASSUME NEW s \in Shader,
             DestroyArtifact(s) \/ \E reflection \in Reflection : Intake(s, reflection)
      PROVE  Still(plan[p])
  <2>1. UNCHANGED <<place, start, length, home, where, footprint>>
    BY <1>3 DEF DestroyArtifact, Intake, cvars, gvars, images, buffers
  <2>2. s \notin plan[p].stages
    BY <1>1, <1>3 DEF DestroyArtifact, MayDiscard, Intake
  <2>3. \A t \in plan[p].stages : artifact'[t] = artifact[t]
    BY <1>1, <1>3, <2>2 DEF DestroyArtifact, Intake, SType
  <2> QED BY <2>1, <2>3 DEF Still
<1>4. ASSUME NEW q \in PipelinePlan,
             DestroyPlan(q) \/ \E S \in SUBSET Known : \E new \in Asking(S) : CreatePlan(q, new)
      PROVE  Unmoved
  BY <1>4 DEF DestroyPlan, CreatePlan
<1>5. CASE CNext /\ UNCHANGED shaders
  <2>1. \A s \in plan[p].stages : artifact'[s] = artifact[s]
    BY <1>5 DEF shaders
  <2>2. ASSUME NEW k \in DOMAIN plan[p].resources, NEW b \in Buffer,
               b = plan[p].resources[k].buffer
        PROVE  UNCHANGED <<place[b], start[b], length[b]>>
    BY <1>1, <1>5, <2>2, BufferStays DEF CInv
  <2>3. ASSUME NEW i \in ImagesOf(plan[p])
        PROVE  UNCHANGED <<home[i], where[i], footprint[i]>>
    BY <1>1, <1>5, ImageStays DEF CInv
  <2> QED BY <1>1, <2>1, <2>2, <2>3 DEF Still
<1>6. CASE UNCHANGED svars
  BY <1>2, <1>6 DEF svars, cvars, gvars, images, buffers, shaders
<1> QED
  BY <1>2, <1>3, <1>4, <1>5, <1>6 DEF SNext, Elsewhere

LEMMA RequiredStays ==
  ASSUME NEW S, \A s \in S : artifact'[s] = artifact[s]
  PROVE  /\ \A k : Required(S, k)' = Required(S, k)
         /\ Wanted(S)' = Wanted(S) /\ WantedTextures(S)' = WantedTextures(S)
<1>1. \A k : {artifact'[s].bytes[k] : s \in S} = {artifact[s].bytes[k] : s \in S}
  OBVIOUS
<1>2. \A k : Required(S, k)' = Required(S, k)
  BY <1>1 DEF Required
<1>3. Wanted(S)' = Wanted(S)
  BY <1>2 DEF Wanted
<1>4. WantedTextures(S)' = WantedTextures(S)
  BY DEF WantedTextures
<1> QED
  BY <1>2, <1>3, <1>4

LEMMA WholeStays ==
  ASSUME SType, NEW of, of.stages \subseteq Shader, Whole(of), Still(of)
  PROVE  Whole(of)'
<1>1. /\ \A k : Required(of.stages, k)' = Required(of.stages, k)
      /\ Wanted(of.stages)' = Wanted(of.stages)
      /\ WantedTextures(of.stages)' = WantedTextures(of.stages)
  BY RequiredStays DEF Still
<1>2. of.stages \subseteq Known'
  BY DEF Whole, Still, Known
<1>3. \A i \in ImagesOf(of) : footprint'[i] # 0 /\ home'[i] # Nothing /\ i \in Image
  BY DEF Whole, Still, Exists, ImagesOf
<1>4. ImagesOf(of)' = ImagesOf(of)
  BY DEF ImagesOf, Textures
<1>5. /\ DOMAIN of.resources = Wanted(of.stages)' /\ DOMAIN of.textures = WantedTextures(of.stages)'
  BY <1>1 DEF Whole
<1>6. \A k \in DOMAIN of.resources :
        /\ place'[of.resources[k].buffer] # Nothing
        /\ of.resources[k].n >= Required(of.stages, k)'
        /\ of.resources[k].offset + of.resources[k].n <= length'[of.resources[k].buffer]
  BY <1>1 DEF Whole, Still
<1> HIDE DEF Required, Wanted, WantedTextures
<1>7. \A i \in ImagesOf(of)' : i \in Exists' /\ home'[i] # Nothing
  BY <1>3, <1>4 DEF Exists
<1> QED
  BY <1>2, <1>5, <1>6, <1>7 DEF Whole

\* A plan is made whole.
LEMMA CreatedWhole ==
  ASSUME SType, NEW p \in PipelinePlan, NEW new \in PlanType, CreatePlan(p, new)
  PROVE  Whole(new) /\ Still(new)
<1>1. UNCHANGED <<artifact, place, start, length, home, where, footprint>>
  BY DEF CreatePlan
<1>2. new.stages \subseteq Known
  BY DEF CreatePlan, Complete
<1>3. DOMAIN new.resources = Wanted(new.stages) /\ DOMAIN new.textures = WantedTextures(new.stages)
  BY DEF CreatePlan, ResourcesFit, TexturesFit
<1>4. ASSUME NEW k \in DOMAIN new.resources
      PROVE  /\ place[new.resources[k].buffer] # Nothing
             /\ new.resources[k].n >= Required(new.stages, k)
             /\ new.resources[k].offset + new.resources[k].n <= length[new.resources[k].buffer]
  BY <1>3 DEF CreatePlan, ResourcesFit, IsBound
<1>5. ASSUME NEW i \in ImagesOf(new)
      PROVE  i \in Exists /\ home[i] # Nothing
  <2>1. Referable(i)
    BY GraphicsAssumption DEF ImagesOf, Textures, CreatePlan, TexturesFit, IsTexture, IsTarget
  <2> QED BY <2>1 DEF Referable
<1>6. Still(new)
  BY <1>1 DEF Still
<1> QED
  BY <1>2, <1>3, <1>4, <1>5, <1>6 DEF Whole

LEMMA NextWhole ==
  ASSUME CInv, SType, ReferencesAreExact, AllWhole, [SNext]_svars
  PROVE  AllWhole'
<1> SUFFICES ASSUME NEW p \in PipelinePlan, plan'[p] # Nothing
             PROVE  Whole(plan[p])'
  BY DEF AllWhole, Made
<1>1. ASSUME NEW of, of = plan'[p], of \in PlanType, Whole(of), Still(of)
      PROVE  Whole(plan[p])'
  <2>1. Whole(of)'
    BY <1>1, WholeStays, PlanParts
  <2> QED BY <1>1, <2>1
<1>2. CASE plan'[p] = plan[p]
  <2>1. p \in Made
    BY <1>2 DEF Made
  <2>2. PICK of : of = plan[p]
    OBVIOUS
  <2>3. of \in PlanType /\ Whole(of) /\ Still(of)
    BY <2>1, <2>2, <1>2, HeldByPlans, HeldStays DEF AllWhole
  <2> QED BY <1>1, <1>2, <2>2, <2>3
<1>3. CASE plan'[p] # plan[p]
  <2>1. PICK q \in PipelinePlan, S \in SUBSET Known : \E new \in Asking(S) : CreatePlan(q, new)
    BY <1>3 DEF SNext, Elsewhere, svars, shaders, DestroyArtifact, Intake, DestroyPlan, SType
  <2>2. PICK new \in Asking(S) : CreatePlan(q, new)
    BY <2>1
  <2>3. new \in PlanType
    BY <2>2, AskedIsPlan
  <2>4. p = q /\ plan'[p] = new
    BY <1>3, <2>2 DEF CreatePlan, Kept, SType
  <2> QED BY <1>1, <2>2, <2>3, <2>4, CreatedWhole
<1> QED
  BY <1>2, <1>3

-----------------------------------------------------------------------------
(* The theorems.                                                           *)

PlansInv == CInv /\ SType /\ ReferencesAreExact /\ AllWhole

LEMMA InitPlans == SInit => PlansInv
<1> SUFFICES ASSUME SInit PROVE PlansInv
  OBVIOUS
<1>1. CInv
  BY InitCInv DEF SInit
<1>2. SType
  BY DEF SInit, CInit, SType
<1>3. Made = {} /\ Known = {} /\ MaxArtifacts \in Nat /\ MaxPlans \in Nat
  BY ShaderAssumption DEF SInit, Made, Known
<1>4. ReferencesAreExact
  <2>1. Cardinality({}) = 0
    BY FS_EmptySet
  <2>2. \A s \in Shader : {p \in Made : s \in plan[p].stages} = {}
    BY <1>3
  <2>3. \A b \in Buffer : {u \in Made \X Slot : u[2] \in Resources(plan[u[1]], b)} = {}
    BY <1>3
  <2>4. \A i \in Image : {p \in Made : plan[p].target = i} = {}
                         /\ {u \in Made \X Slot : u[2] \in Textures(plan[u[1]], i)} = {}
    BY <1>3
  <2>5. /\ artifacts = 0 /\ plans = 0
        /\ \A s \in Shader : employed[s] = 0
        /\ \A b \in Buffer : locks[b] = 0
        /\ \A i \in Image : pins[i] = 0
    BY DEF SInit, CInit, GInit
  <2>6. \A s \in Shader : employed[s] = Cardinality({p \in Made : s \in plan[p].stages})
    BY <2>1, <2>2, <2>5
  <2>7. \A b \in Buffer :
          locks[b] = Cardinality({u \in Made \X Slot : u[2] \in Resources(plan[u[1]], b)})
    BY <2>1, <2>3, <2>5
  <2>8. ASSUME NEW i \in Image
        PROVE  pins[i] = Cardinality({p \in Made : plan[p].target = i})
                         + Cardinality({u \in Made \X Slot : u[2] \in Textures(plan[u[1]], i)})
    <3>1. /\ Cardinality({p \in Made : plan[p].target = i}) = 0
          /\ Cardinality({u \in Made \X Slot : u[2] \in Textures(plan[u[1]], i)}) = 0
      BY <2>1, <2>4
    <3> QED BY <2>5, <3>1
  <2> QED BY <1>3, <2>1, <2>5, <2>6, <2>7, <2>8 DEF ReferencesAreExact
<1> QED
  BY <1>1, <1>2, <1>3, <1>4 DEF PlansInv, AllWhole

LEMMA NextPlans == PlansInv /\ [SNext]_svars => PlansInv'
  BY NextReferences, NextSType, NextWhole, NextBeside DEF PlansInv

LEMMA PlansInvariance == SSpec => []PlansInv
  BY InitPlans, NextPlans, PTL DEF SSpec

\* pipeline_references of an artifact, a buffer and an image is the number of
\* uses by the plans there are, and the device's counts are of what there is.
THEOREM ReferencesExact == SSpec => []ReferencesAreExact
<1>1. PlansInv => ReferencesAreExact
  BY DEF PlansInv
<1> QED BY <1>1, PlansInvariance, PTL

\* What pipeline_plan_create validated stays true for as long as the plan lives.
THEOREM PlansWhole == SSpec => []PlansStayWhole
<1>1. PlansInv => PlansStayWhole
  BY AllAreWhole DEF PlansInv
<1> QED BY <1>1, PlansInvariance, PTL

\* The counts are enough: buffer_destroy, buffer_unbind, image_destroy and
\* artifact_destroy move nothing that a plan refers to.
THEOREM PlansHoldStill == SSpec => NothingMoves
<1>1. PlansInv /\ [SNext]_svars =>
        [\A p \in Made : plan'[p] = plan[p] =>
          /\ \A s \in plan[p].stages : artifact'[s] = artifact[s]
          /\ \A k \in DOMAIN plan[p].resources :
               LET b == plan[p].resources[k].buffer
               IN  <<place'[b], start'[b], length'[b]>> = <<place[b], start[b], length[b]>>
          /\ \A i \in ImagesOf(plan[p]) :
               <<home'[i], where'[i], footprint'[i]>> = <<home[i], where[i], footprint[i]>>]_svars
  BY HeldStays DEF PlansInv, Still
<1> QED BY <1>1, PlansInvariance, PTL DEF SSpec, NothingMoves

\* The copy queue keeps its guarantees beside plans, which count themselves in
\* with its buffers: exact command references, valid recorded copies, addresses
\* of one owner each.
THEOREM QueueBesidePlans == SSpec => [](UsesAreCounted /\ RecordsStayValid /\ AddressesAreFresh)
<1>1. PlansInv => UsesAreCounted /\ RecordsStayValid /\ AddressesAreFresh
  BY DEF PlansInv, CInv, Packed, AddressesAreFresh
<1> QED BY <1>1, PlansInvariance, PTL

\* ... and so do the images that plans pin.
THEOREM ImagesBesidePlans == SSpec => [](CountersAreExact /\ NothingDangles /\ RevisionDecides)
<1>1. PlansInv => CountersAreExact /\ NothingDangles /\ RevisionDecides
  BY DEF PlansInv, CInv, Inv
<1> QED BY <1>1, PlansInvariance, PTL
=============================================================================
