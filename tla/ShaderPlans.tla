----------------------------- MODULE ShaderPlans -----------------------------
(***************************************************************************)
(* Shader artifacts and pipeline plans (openagc_shader.c), composed with   *)
(* what plans refer to: the buffers of CopyQueue and the images of         *)
(* Graphics.  An artifact declares, by slot, the buffers and the textures  *)
(* that it reads; a plan gives each of them, and keeps them and its        *)
(* artifacts alive by counting itself in.                                  *)
(*                                                                         *)
(* What only compares one immutable argument with another is left out:     *)
(* hashes and envelopes, the masks of varyings, pixel formats.             *)
(***************************************************************************)
EXTENDS CopyQueue, FiniteSetsExt

CONSTANTS
  Shader,                  \* openagc_shader_artifact objects
  Vertex, Pixel, Compute,  \* ... of each stage
  PipelinePlan,            \* openagc_shader_pipeline_plan objects
  Slot,                    \* below OPENAGC_SHADER_MAX_BINDINGS
  MaxArtifacts,            \* OPENAGC_SHADER_MAX_ARTIFACTS
  MaxPlans                 \* OPENAGC_SHADER_MAX_PIPELINE_PLANS

ASSUME ShaderAssumption ==
  /\ IsFiniteSet(Shader) /\ IsFiniteSet(PipelinePlan) /\ IsFiniteSet(Slot)
  /\ Shader = Vertex \cup Pixel \cup Compute
  /\ Vertex \cap Pixel = {} /\ Vertex \cap Compute = {} /\ Pixel \cap Compute = {}
  /\ MaxArtifacts \in Nat /\ MaxPlans \in Nat

\* The declarations of an artifact: by slot, min_bytes of a buffer or 0, and the
\* slots with textures.
Reflection == [bytes : [Slot -> Lengths \cup {0}], textures : SUBSET Slot]

\* What a plan holds; its kind follows from the target.
Offsets == UNION {0 .. n - 1 : n \in Lengths}
Resource == [buffer : Buffer, offset : Offsets, n : Lengths]
Slots == SUBSET Slot
PlanType ==
  [stages : SUBSET Shader, target : Image \cup {Nothing},
   resources : UNION {[S -> Resource] : S \in Slots}, textures : UNION {[S -> Image] : S \in Slots}]

ASSUME NothingAssumption == Nothing \notin Reflection /\ Nothing \notin PlanType

VARIABLES
  artifact,    \* the declarations of each artifact, or Nothing
  employed,    \* artifact.pipeline_references
  plan,        \* the plans, or Nothing
  artifacts,   \* device.shader_artifact_count
  plans        \* device.shader_pipeline_plan_count

shaders == <<artifact, employed, plan, artifacts, plans>>
svars == <<cvars, shaders>>

Known == {s \in Shader : artifact[s] # Nothing}
Made == {p \in PipelinePlan : plan[p] # Nothing}

SInit ==
  /\ CInit
  /\ artifact = [s \in Shader |-> Nothing] /\ employed = [s \in Shader |-> 0]
  /\ plan = [p \in PipelinePlan |-> Nothing]
  /\ artifacts = 0 /\ plans = 0

-----------------------------------------------------------------------------
(* Artifacts.                                                              *)

HasPlace == artifacts < MaxArtifacts

\* validate_reflection: a slot is declared once, as a buffer or as a texture.
WellFormed(reflection) == \A k \in reflection.textures : reflection.bytes[k] = 0

Intake(s, reflection) ==
  /\ s \notin Known /\ HasPlace /\ WellFormed(reflection)
  /\ artifact' = [artifact EXCEPT ![s] = reflection]
  /\ artifacts' = artifacts + 1
  /\ UNCHANGED <<cvars, employed, plan, plans>>

\* Mutant: the stages of plans are not asked for.
MayDiscardEmployed(s) == s \in Known

\* artifact_destroy succeeds; otherwise BUSY.
MayDiscard(s) == s \in Known /\ employed[s] = 0

DestroyArtifact(s) ==
  /\ MayDiscard(s)
  /\ artifact' = [artifact EXCEPT ![s] = Nothing]
  /\ artifacts' = artifacts - 1
  /\ UNCHANGED <<cvars, employed, plan, plans>>

-----------------------------------------------------------------------------
(* Plans.                                                                  *)

\* A vertex and a pixel artifact and a target, or a compute artifact alone.
Complete(S, t) ==
  /\ S \subseteq Known
  /\ \/ t # Nothing /\ \E v \in Vertex, x \in Pixel : S = {v, x}
     \/ t = Nothing /\ \E c \in Compute : S = {c}

\* The larger of what two stages ask for in one slot.
Required(S, k) == Max({artifact[s].bytes[k] : s \in S} \cup {0})
Wanted(S) == {k \in Slot : Required(S, k) # 0}
WantedTextures(S) == UNION {artifact[s].textures : s \in S}

\* shader_target_validate and shader_texture_validate.
Referable(i) == i \in Exists /\ home[i] # Nothing /\ pins[i] # CountMax
IsTarget(i) == i \in Color /\ state[i] = "COLOR_TARGET" /\ Referable(i)
IsTexture(i) == i \in Sampled /\ state[i] = "SHADER_READ" /\ Referable(i)

\* shader_buffer_validate.
IsBound(r, n) ==
  /\ r.buffer \in Live \cap Readable /\ place[r.buffer] # Nothing
  /\ r.n >= n /\ r.offset + r.n <= length[r.buffer] /\ locks[r.buffer] # CountMax

NoneTwice(f) == \A k, l \in DOMAIN f : f[k] = f[l] => k = l
BufferOf(resources) == [k \in DOMAIN resources |-> resources[k].buffer]

\* The uses of an object by a plan.
Textures(p, i) == {k \in DOMAIN p.textures : p.textures[k] = i}
Resources(p, b) == {k \in DOMAIN p.resources : p.resources[k].buffer = b}

\* Mutants: a plan keeps no buffers; it keeps its textures, but not its target.
LocksNone(p) == [b \in Buffer |-> 0]
PinsTextures(p) == [i \in Image |-> Cardinality(Textures(p, i))]

\* The references that a plan takes, and gives back.
Locks(p) == [b \in Buffer |-> Cardinality(Resources(p, b))]
Pins(p) == [i \in Image |-> Cardinality(Textures(p, i)) + IF p.target = i THEN 1 ELSE 0]

\* The slots that the stages declare, and no others, have an object each.
ResourcesFit(new) ==
  /\ DOMAIN new.resources = Wanted(new.stages) /\ NoneTwice(BufferOf(new.resources))
  /\ \A k \in Wanted(new.stages) : IsBound(new.resources[k], Required(new.stages, k))
TexturesFit(new) ==
  /\ DOMAIN new.textures = WantedTextures(new.stages) /\ NoneTwice(new.textures)
  /\ \A k \in DOMAIN new.textures : IsTexture(new.textures[k])

\* The plan, and the references it takes.
Kept(p, new) ==
  /\ plan' = [plan EXCEPT ![p] = new]
  /\ plans' = plans + 1
  /\ employed' = [s \in Shader |-> IF s \in new.stages THEN employed[s] + 1 ELSE employed[s]]
  /\ locks' = [b \in Buffer |-> locks[b] + Locks(new)[b]]
  /\ pins' = [i \in Image |-> pins[i] + Pins(new)[i]]

CreatePlan(p, new) ==
  /\ p \notin Made
  /\ Complete(new.stages, new.target)
  /\ new.target # Nothing => IsTarget(new.target)
  /\ ResourcesFit(new) /\ TexturesFit(new)
  /\ plans < MaxPlans
  /\ \A s \in new.stages : employed[s] # CountMax
  /\ Kept(p, new)
  /\ UNCHANGED <<memories, footprint, home, where, state, revision, references, phase, stream,
                 held, shadow, length, place, start, uses, lists, submissions, calls, content,
                 artifact, artifacts>>

DestroyPlan(p) ==
  /\ p \in Made
  /\ plan' = [plan EXCEPT ![p] = Nothing]
  /\ plans' = plans - 1
  /\ employed' = [s \in Shader |-> IF s \in plan[p].stages THEN employed[s] - 1 ELSE employed[s]]
  /\ locks' = [b \in Buffer |-> locks[b] - Locks(plan[p])[b]]
  /\ pins' = [i \in Image |-> pins[i] - Pins(plan[p])[i]]
  /\ UNCHANGED <<memories, footprint, home, where, state, revision, references, phase, stream,
                 held, shadow, length, place, start, uses, lists, submissions, calls, content,
                 artifact, artifacts>>

-----------------------------------------------------------------------------

\* The plans a caller may ask for with these stages.
Asking(S) ==
  [stages : {S}, target : Image \cup {Nothing},
   resources : [Wanted(S) -> Resource],
   textures : [WantedTextures(S) -> Image]]

\* Plans alone pin images and lock buffers.
Elsewhere == UNCHANGED <<pins, locks>> /\ CNext

SNext ==
  \/ \E s \in Shader : DestroyArtifact(s) \/ \E reflection \in Reflection : Intake(s, reflection)
  \/ \E p \in PipelinePlan :
       DestroyPlan(p) \/ \E S \in SUBSET Known : \E new \in Asking(S) : CreatePlan(p, new)
  \/ Elsewhere /\ UNCHANGED shaders

SSpec == SInit /\ [][SNext]_svars

-----------------------------------------------------------------------------

\* Every count that guards a destruction (pipeline_references) is the number of uses by the plans
\* there are: of an artifact, a buffer, an image as a target or as a texture; and
\* the device's own two count the artifacts and plans there are, within its limits.
ReferencesAreExact ==
  /\ artifacts = Cardinality(Known) /\ artifacts <= MaxArtifacts
  /\ plans = Cardinality(Made) /\ plans <= MaxPlans
  /\ \A s \in Shader : employed[s] = Cardinality({p \in Made : s \in plan[p].stages})
  /\ \A b \in Buffer :
       locks[b] = Cardinality({u \in Made \X Slot : u[2] \in Resources(plan[u[1]], b)})
  /\ \A i \in Image :
       pins[i] = Cardinality({p \in Made : plan[p].target = i})
                 + Cardinality({u \in Made \X Slot : u[2] \in Textures(plan[u[1]], i)})

ImagesOf(p) == {i \in Image : i = p.target \/ Textures(p, i) # {}}

\* A plan stays whole: its artifacts are there, each slot they declare has a run
\* of a bound buffer that is long enough or a texture, and its images are bound.
PlansStayWhole ==
  \A p \in Made :
    LET S == plan[p].stages
    IN /\ S \subseteq Known
       /\ \A k \in Wanted(S) :
            /\ k \in DOMAIN plan[p].resources
            /\ LET r == plan[p].resources[k]
               IN  place[r.buffer] # Nothing /\ r.n >= Required(S, k) /\ r.offset + r.n <= length[r.buffer]
       /\ \A k \in WantedTextures(S) : k \in DOMAIN plan[p].textures
       /\ \A i \in ImagesOf(plan[p]) : i \in Exists /\ home[i] # Nothing

\* What a plan refers to does not move under it: neither a buffer nor an image
\* leaves its place, and no artifact changes, while a plan holds it.
NothingMoves ==
  [][\A p \in Made : plan'[p] = plan[p] =>
      /\ \A s \in plan[p].stages : artifact'[s] = artifact[s]
      /\ \A k \in DOMAIN plan[p].resources :
           LET b == plan[p].resources[k].buffer
           IN  <<place'[b], start'[b], length'[b]>> = <<place[b], start[b], length[b]>>
      /\ \A i \in ImagesOf(plan[p]) :
           <<home'[i], where'[i], footprint'[i]>> = <<home[i], where[i], footprint[i]>>]_svars
=============================================================================
