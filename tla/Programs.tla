------------------------------ MODULE Programs ------------------------------
(***************************************************************************)
(* The register program of a front-end graphics pipeline                   *)
(* (openagc_frontend.c): a snapshot encoded from the metadata of the two   *)
(* shader stages, code bound into blocks of the heap, the tables of AGC's  *)
(* linker and of a color target, and the packet that a submission or a     *)
(* bind sends.  The heap has other users: Device heap says how it gives    *)
(* out blocks, here it gives out any free one or none.                     *)
(***************************************************************************)
EXTENDS Integers, FiniteSets

CONSTANTS
  Snapshot,            \* pairs of metadata that the parser and the validation take
  Registers,           \* their context and shader register pairs, of both stages
  Patchable,           \* those with two or more shader registers in each stage
  Linkable,            \* those with all their offsets in the register space
  Link, Target,        \* tables of the linker and of a target, of the right shape
  Block,               \* device addresses of the blocks of the heap
  Outside,             \* other 256-byte aligned addresses a host may name
  Unset, Nothing

MaxProgram == 768      \* dwords that a snapshot may have
MaxPacket == 320       \* WRITE_DATA_MAX_GRID_EOP_WORDS - EOP_WITH_NOP_WORDS
Linkage == 3           \* registers of the vertex linkage in a plain program
LinkRecords == 34 + 3  \* AGC_LINK_CONTEXT_COUNT + AGC_LINK_UCONFIG_COUNT
TargetRecords == 16    \* AGC_TARGET_CONTEXT_COUNT

Stage == {"vertex", "pixel"}

ASSUME ProgramsAssumption ==
  /\ Registers \in [Snapshot -> Nat] /\ Patchable \subseteq Snapshot /\ Linkable \subseteq Snapshot
  /\ Block \cap Outside = {} /\ Unset \notin Block \cup Outside
  /\ Nothing \notin Snapshot \cup Link \cup Target /\ Nothing \notin [Stage -> Block]

Va == Block \cup Outside

VARIABLES
  kind,       \* "absent", "plain" (no artifacts of its own), "graphics", or "odd"
              \* (graphics with code that is no whole number of dwords)
  snapshot,   \* psbc_vertex_metadata and psbc_pixel_metadata
  link,       \* agc_link_context and agc_link_uconfig, if agc_linked
  target,     \* agc_target_context, if agc_target
  program,    \* what host_register_program encodes
  dwords,     \* host_register_program_dwords
  vas,        \* psbc_vertex_code_va, psbc_pixel_code_va
  patched,    \* psbc_pgm_patched
  code,       \* the blocks of the bound code, or Nothing
  holder,     \* who has each block
  inside      \* and what was last written there

pvars == <<kind, snapshot, link, target, program, dwords, vas, patched, code, holder, inside>>
heap == <<code, holder, inside>>

NoVas == [s \in Stage |-> Unset]

Encoded(m, v, l, t) == [snapshot |-> m, vas |-> v, link |-> l, target |-> t]

\* register_program_dwords and agc_linked_program_dwords
PlainDwords(m) == 3 * (Registers[m] + Linkage)
LinkedDwords(m, t) ==
  3 * (Registers[m] + LinkRecords + (IF t = Nothing THEN 0 ELSE TargetRecords))
Dwords(m, l, t) == IF l = Nothing THEN PlainDwords(m) ELSE LinkedDwords(m, t)

PInit ==
  /\ kind = "absent" /\ program = Nothing /\ dwords = 0 /\ vas = NoVas /\ patched = FALSE
  /\ snapshot = Nothing /\ link = Nothing /\ target = Nothing
  /\ code = Nothing /\ holder = [b \in Block |-> "free"] /\ inside = [b \in Block |-> "other"]

\* release_psbc_code
Released == [b \in Block |-> IF holder[b] = "pipeline" THEN "free" ELSE holder[b]]
Release == code' = Nothing /\ holder' = Released

\* set_psbc_register_snapshot: everything that was built on the old one goes.
Attach(m) ==
  /\ PlainDwords(m) <= MaxProgram
  /\ snapshot' = m /\ program' = Encoded(m, NoVas, Nothing, Nothing) /\ dwords' = PlainDwords(m)
  /\ vas' = NoVas /\ patched' = FALSE /\ link' = Nothing /\ target' = Nothing
  /\ Release /\ UNCHANGED inside

\* A graphics pipeline of two envelopes starts with their snapshot.
Create(k) ==
  /\ kind = "absent" /\ kind' = k
  /\ \/ UNCHANGED <<snapshot, link, target, program, dwords, vas, patched, heap>>
     \/ k # "plain" /\ \E m \in Snapshot : Attach(m)

SetSnapshot(m) == kind \in {"graphics", "odd"} /\ Attach(m) /\ UNCHANGED kind

\* Mutant: a second link forgets the target.
SetLinkedAlone(l) ==
  /\ code # Nothing /\ snapshot \in Linkable \cap Patchable
  /\ LinkedDwords(snapshot, Nothing) <= MaxPacket
  /\ program' = Encoded(snapshot, vas, l, Nothing) /\ dwords' = LinkedDwords(snapshot, Nothing)
  /\ link' = l
  /\ UNCHANGED <<kind, snapshot, target, vas, patched, heap>>

\* set_agc_linked_registers: with the target table, if there is one.
SetLinked(l) ==
  /\ code # Nothing /\ snapshot \in Linkable \cap Patchable
  /\ LinkedDwords(snapshot, target) <= MaxPacket
  /\ program' = Encoded(snapshot, vas, l, target) /\ dwords' = LinkedDwords(snapshot, target)
  /\ link' = l
  /\ UNCHANGED <<kind, snapshot, target, vas, patched, heap>>

SetTarget(t) ==
  /\ link # Nothing /\ code # Nothing /\ snapshot \in Patchable
  /\ LinkedDwords(snapshot, t) <= MaxPacket
  /\ program' = Encoded(snapshot, vas, link, t) /\ dwords' = LinkedDwords(snapshot, t)
  /\ target' = t
  /\ UNCHANGED <<kind, snapshot, link, vas, patched, heap>>

\* patch_psbc_pgm_vas, but for the code it may release: a program of another
\* size than the one kept is refused.
Repatch(v) ==
  /\ program # Nothing /\ snapshot \in Patchable
  /\ Dwords(snapshot, link, target) = dwords
  /\ program' = Encoded(snapshot, v, link, target)
  /\ vas' = v /\ patched' = TRUE
  /\ UNCHANGED <<kind, snapshot, link, target, dwords>>

\* Mutant: code bound elsewhere stays bound.
PatchBound(v) == Repatch(v) /\ UNCHANGED heap

\* By the host, to any addresses: code bound elsewhere is released.
Patch(v) ==
  /\ Repatch(v) /\ UNCHANGED inside
  /\ IF code # Nothing /\ v # vas THEN Release ELSE UNCHANGED <<code, holder>>

Written(v) == [b \in Block |-> IF \E s \in Stage : v[s] = b
                               THEN CHOOSE s \in Stage : v[s] = b ELSE inside[b]]

Chosen == {v \in [Stage -> {b \in Block : Released[b] = "free"}] : v["vertex"] # v["pixel"]}

\* bind_psbc_code gives up the code that is bound, then allocates, writes and
\* patches.  What fails on the way is undone, not the release.
BindCode ==
  /\ kind = "graphics" /\ program # Nothing
  /\ \E v \in Chosen :
       /\ Repatch(v) /\ inside' = Written(v)
       /\ code' = v
       /\ holder' = [b \in Block |-> IF \E s \in Stage : v[s] = b THEN "pipeline" ELSE Released[b]]

BindFails ==
  /\ kind = "graphics" /\ program # Nothing
  /\ Release
  /\ UNCHANGED inside \/ \E v \in Chosen : inside' = Written(v)
  /\ UNCHANGED <<kind, snapshot, link, target, program, dwords, vas, patched>>

Destroy ==
  /\ kind # "absent" /\ kind' = "absent" /\ program' = Nothing /\ dwords' = 0
  /\ vas' = NoVas /\ patched' = FALSE
  /\ snapshot' = Nothing /\ link' = Nothing /\ target' = Nothing
  /\ Release /\ UNCHANGED inside

\* Other users of the heap.
Take(b) ==
  /\ holder[b] = "free" /\ holder' = [holder EXCEPT ![b] = "other"]
  /\ inside' = [inside EXCEPT ![b] = "other"]
  /\ UNCHANGED <<kind, snapshot, link, target, program, dwords, vas, patched, code>>
GiveBack(b) ==
  /\ holder[b] = "other" /\ holder' = [holder EXCEPT ![b] = "free"]
  /\ UNCHANGED <<kind, snapshot, link, target, program, dwords, vas, patched, code, inside>>

\* What both dialects pass on to the front end.
Calls ==
  \/ \E m \in Snapshot : SetSnapshot(m)
  \/ \E l \in Link : SetLinked(l)
  \/ \E t \in Target : SetTarget(t)
  \/ \E v \in [Stage -> Va] : Patch(v)
  \/ BindCode \/ BindFails

PNext ==
  \/ Calls \/ Destroy \/ \E k \in {"plain", "graphics", "odd"} : Create(k)
  \/ \E b \in Block : Take(b) \/ GiveBack(b)

PSpec == PInit /\ [][PNext]_pvars

\* record_psbc_register_eop: the program a packet carries, if it has room.
Recorded == {w \in {program} \ {Nothing} : dwords <= MaxPacket}
\* ... when a recorded pipeline is submitted, or a program bound in OpenGL.
RecordedIfBound == IF code = Nothing THEN {} ELSE Recorded

-----------------------------------------------------------------------------

\* The program kept is that of the metadata, tables and addresses kept, in as
\* many dwords as are kept with it: no patch is ever refused for its size.
ProgramIsCurrent ==
  program # Nothing =>
    /\ snapshot \in Snapshot /\ program = Encoded(snapshot, vas, link, target)
    /\ dwords = Dwords(snapshot, link, target)

\* What a submission or a bind sends names two blocks this pipeline holds and
\* no other user has written, each with the code of its own stage.
BoundCodeIsRun ==
  \A w \in RecordedIfBound : \A s \in Stage :
    /\ w.vas[s] \in Block /\ holder[w.vas[s]] = "pipeline" /\ inside[w.vas[s]] = s

\* The blocks the heap has given to the pipeline are those it will give back.
BlocksAreHeld ==
  {b \in Block : holder[b] = "pipeline"} = IF code = Nothing THEN {} ELSE {code[s] : s \in Stage}

ProgramsHold == ProgramIsCurrent /\ BoundCodeIsRun /\ BlocksAreHeld
=============================================================================
