----------------------------- MODULE Placement ------------------------------
(***************************************************************************)
(* Who holds the blocks of the device heap (openagc_frontend.c): memories  *)
(* the caller allocates, dedicated images and buffers, and the two code    *)
(* blocks of a pipeline.  Images and buffers created unbound are bound at  *)
(* an offset inside a memory, which keeps a list of the spans in use.      *)
(*                                                                         *)
(* A call that changes the heap more than once, or that may still fail     *)
(* after it did, is a sequence of steps (pc); calls do not interleave.     *)
(***************************************************************************)
EXTENDS BlockHeap, SequencesExt

CONSTANTS
  Memory,         \* openagc_frontend_memory objects
  Resource,       \* images and buffers
  Vertex, Pixel,  \* the code blocks of a pipeline
  Nothing,        \* a null pointer
  MaxBinds,       \* the length of openagc_frontend_memory.binds
  Sizes           \* sizes the caller asks for

ASSUME PlacementAssumption ==
  /\ Owner = Memory \cup Resource \cup {Vertex, Pixel} /\ IsFiniteSet(Resource)
  /\ Memory \cap Resource = {} /\ Vertex # Pixel
  /\ {Vertex, Pixel} \cap (Memory \cup Resource) = {}
  /\ Nothing \notin Owner /\ MaxBinds \in Nat /\ Sizes \subseteq 1 .. WordMax

VARIABLES
  pc,        \* "idle", or what the call in progress does next
  subject,   \* the resource it is about
  exists,    \* resources that were created and not destroyed
  bytes,     \* size_bytes or footprint_bytes of each of them
  placed,    \* resources with a block of their own (placed)
  home,      \* the memory a resource is bound to (memory)
  where,     \* ... and the offset in it (bind_offset)
  binds,     \* the spans in use in each memory (binds, bind_count)
  codeBound  \* psbc_code_bound

table == <<heap, live, at, asked>>
bindings == <<home, where, binds>>
objects == <<exists, bytes, placed>>
pvars == <<vars, pc, subject, exists, bytes, placed, home, where, binds, codeBound>>

Step == {"idle", "place", "free_block", "free_vertex", "free_pixel", "alloc_vertex",
         "alloc_pixel", "upload", "undo_pixel", "undo_vertex", "drop_vertex",
         "drop_pixel"}

PInit ==
  /\ Init
  /\ pc = "idle" /\ subject = Nothing /\ codeBound = FALSE
  /\ exists = {} /\ placed = {} /\ bytes = [r \in Resource |-> 0]
  /\ home = [r \in Resource |-> Nothing] /\ where = [r \in Resource |-> 0]
  /\ binds = [m \in Memory |-> <<>>]

-----------------------------------------------------------------------------
(* Memories.                                                               *)

AllocateMemory(m, size) ==
  /\ pc = "idle" /\ Alloc(m, size)
  /\ UNCHANGED <<pc, subject, objects, bindings, codeBound>>

\* BUSY while a resource is bound to it.
MayFree(m) == binds[m] = <<>>

DestroyMemory(m) ==
  /\ pc = "idle" /\ MayFree(m) /\ Free(m)
  /\ UNCHANGED <<pc, subject, objects, bindings, codeBound>>

\* Mutant: a span that starts inside another one is missed.
ClashesAtEnd(m, offset, size) ==
  \E k \in 1 .. Len(binds[m]) :
    offset < binds[m][k].offset /\ binds[m][k].offset < offset + size

Clashes(m, offset, size) ==
  \E k \in 1 .. Len(binds[m]) :
    /\ offset < binds[m][k].offset + binds[m][k].size
    /\ binds[m][k].offset < offset + size

\* Mutant: the list of spans may overflow.
MayClaimPastEnd(m, offset, size) ==
  /\ offset % Align = 0 /\ size # 0 /\ size <= asked[m] /\ offset <= asked[m] - size
  /\ ~Clashes(m, offset, size)

\* memory_claim succeeds.
MayClaim(m, offset, size) ==
  /\ offset % Align = 0 /\ size # 0 /\ size <= asked[m] /\ offset <= asked[m] - size
  /\ Len(binds[m]) # MaxBinds
  /\ ~Clashes(m, offset, size)

\* memory_release_span: the first span that matches goes, the rest move down.
Released(spans, span) ==
  IF \E k \in 1 .. Len(spans) : spans[k] = span
  THEN RemoveAt(spans, CHOOSE k \in 1 .. Len(spans) :
                         IsFirst(k, {j \in 1 .. Len(spans) : spans[j] = span}))
  ELSE spans

-----------------------------------------------------------------------------
(* Images and buffers.                                                     *)

Exists(r, size) ==
  /\ exists' = exists \cup {r}
  /\ bytes' = [bytes EXCEPT ![r] = size]

CreateUnbound(r, size) ==
  /\ pc = "idle" /\ r \notin exists
  /\ Exists(r, size)
  /\ UNCHANGED <<pc, subject, placed, table, bindings, codeBound>>

\* A dedicated resource gets a block first; a failure frees everything again.
CreateDedicated(r, size) ==
  /\ pc = "idle" /\ r \notin exists
  /\ Alloc(r, size)
  /\ pc' = "place" /\ subject' = r
  /\ UNCHANGED <<objects, bindings, codeBound>>

\* The driver binds the block, and a Vulkan image makes its first transition; a
\* failure of either releases the resource.
Place(ok) ==
  /\ pc = "place"
  /\ IF ok
     THEN /\ pc' = "idle" /\ subject' = Nothing
          /\ Exists(subject, asked[subject])
          /\ placed' = placed \cup {subject}
     ELSE pc' = "free_block" /\ UNCHANGED <<objects, subject>>
  /\ UNCHANGED <<table, bindings, codeBound>>

\* The last thing a release does with a dedicated resource.
FreeBlock ==
  /\ pc = "free_block"
  /\ Free(subject)
  /\ pc' = "idle" /\ subject' = Nothing
  /\ UNCHANGED <<objects, bindings, codeBound>>

\* Mutant: a driver that refuses the binding leaves the span claimed.
BindKeepsClaim(r, m, offset, ok) ==
  /\ pc = "idle" /\ r \in exists \ placed /\ home[r] = Nothing /\ m \in live
  /\ MayClaim(m, offset, bytes[r])
  /\ binds' = [binds EXCEPT ![m] = Append(@, [offset |-> offset, size |-> bytes[r]])]
  /\ home' = [home EXCEPT ![r] = IF ok THEN m ELSE Nothing]
  /\ where' = [where EXCEPT ![r] = IF ok THEN offset ELSE 0]
  /\ UNCHANGED <<pc, subject, objects, table, codeBound>>

\* buffer_bind_memory, image_bind_memory: once per resource, and never for a
\* dedicated one.  If the driver refuses, the claim is released again.
Bind(r, m, offset, ok) ==
  /\ pc = "idle" /\ r \in exists \ placed /\ home[r] = Nothing /\ m \in live
  /\ MayClaim(m, offset, bytes[r])
  /\ LET span == [offset |-> offset, size |-> bytes[r]]
         claimed == Append(binds[m], span)
     IN binds' = [binds EXCEPT ![m] = IF ok THEN claimed ELSE Released(claimed, span)]
  /\ home' = [home EXCEPT ![r] = IF ok THEN m ELSE Nothing]
  /\ where' = [where EXCEPT ![r] = IF ok THEN offset ELSE 0]
  /\ UNCHANGED <<pc, subject, objects, table, codeBound>>

\* A resource that nothing refers to is destroyed: its span is released, its
\* block freed.
DestroyResource(r) ==
  /\ pc = "idle" /\ r \in exists
  /\ exists' = exists \ {r} /\ placed' = placed \ {r}
  /\ bytes' = [bytes EXCEPT ![r] = 0]
  /\ home' = [home EXCEPT ![r] = Nothing] /\ where' = [where EXCEPT ![r] = 0]
  /\ binds' = IF home[r] = Nothing THEN binds
              ELSE [binds EXCEPT ![home[r]] =
                      Released(@, [offset |-> where[r], size |-> bytes[r]])]
  /\ IF r \in placed THEN pc' = "free_block" /\ subject' = r
                     ELSE UNCHANGED <<pc, subject>>
  /\ UNCHANGED <<table, codeBound>>

-----------------------------------------------------------------------------
(* The code of a pipeline: pipeline_bind_psbc_code, and its release.       *)

Go(from, to) == pc = from /\ pc' = to

FreeCode(o, from, to) ==
  /\ Go(from, to) /\ Free(o)
  /\ UNCHANGED <<subject, objects, bindings, codeBound>>

\* What was bound before is released first.
BindCode ==
  /\ Go("idle", IF codeBound THEN "free_vertex" ELSE "alloc_vertex")
  /\ UNCHANGED <<subject, table, objects, bindings, codeBound>>

FreeOldVertex == FreeCode(Vertex, "free_vertex", "free_pixel")

FreeOldPixel ==
  /\ Go("free_pixel", "alloc_vertex") /\ Free(Pixel)
  /\ codeBound' = FALSE
  /\ UNCHANGED <<subject, objects, bindings>>

NoRoom(size) == ~ \E i \in 1 .. count : Chosen(i, size)

AllocVertex(size) ==
  /\ \/ Go("alloc_vertex", "alloc_pixel") /\ Alloc(Vertex, size)
     \/ Go("alloc_vertex", "idle") /\ NoRoom(size) /\ UNCHANGED table
  /\ UNCHANGED <<subject, objects, bindings, codeBound>>

\* Mutant: the vertex code stays behind if there is no room for the pixel code.
AllocPixelLeaks(size) ==
  /\ \/ Go("alloc_pixel", "upload") /\ Alloc(Pixel, size)
     \/ Go("alloc_pixel", "idle") /\ NoRoom(size) /\ UNCHANGED table
  /\ UNCHANGED <<subject, objects, bindings, codeBound>>

AllocPixel(size) ==
  /\ \/ Go("alloc_pixel", "upload") /\ Alloc(Pixel, size)
     \/ Go("alloc_pixel", "undo_vertex") /\ NoRoom(size) /\ UNCHANGED table
  /\ UNCHANGED <<subject, objects, bindings, codeBound>>

\* Both are written and their addresses patched into the registers; a failure
\* frees both blocks.
Upload(ok) ==
  /\ Go("upload", IF ok THEN "idle" ELSE "undo_pixel")
  /\ codeBound' = ok
  /\ UNCHANGED <<subject, table, objects, bindings>>

UndoPixel == FreeCode(Pixel, "undo_pixel", "undo_vertex")
UndoVertex == FreeCode(Vertex, "undo_vertex", "idle")

\* The pipeline is destroyed.
DropCode ==
  /\ codeBound /\ Go("idle", "drop_vertex")
  /\ UNCHANGED <<subject, table, objects, bindings, codeBound>>

DropVertex == FreeCode(Vertex, "drop_vertex", "drop_pixel")

DropPixel ==
  /\ Go("drop_pixel", "idle") /\ Free(Pixel)
  /\ codeBound' = FALSE
  /\ UNCHANGED <<subject, objects, bindings>>

-----------------------------------------------------------------------------

Memories == \E m \in Memory : DestroyMemory(m) \/ \E s \in Sizes : AllocateMemory(m, s)

Resources ==
  \/ \E r \in Resource :
       \/ \E s \in Sizes : CreateUnbound(r, s) \/ CreateDedicated(r, s)
       \/ \E m \in Memory, offset \in 0 .. HeapBytes, ok \in BOOLEAN :
            Bind(r, m, offset, ok)
       \/ DestroyResource(r)
  \/ \E ok \in BOOLEAN : Place(ok)
  \/ FreeBlock

Code ==
  \/ BindCode \/ FreeOldVertex \/ FreeOldPixel
  \/ \E s \in Sizes : AllocVertex(s) \/ AllocPixel(s)
  \/ \E ok \in BOOLEAN : Upload(ok)
  \/ UndoPixel \/ UndoVertex \/ DropCode \/ DropVertex \/ DropPixel

PNext == Memories \/ Resources \/ Code

PSpec == PInit /\ [][PNext]_pvars

-----------------------------------------------------------------------------

\* Between calls the heap's objects are accounted for: no call that failed half
\* way, at whatever step, leaves a block behind or gives one up too early.
NothingIsOrphaned ==
  pc = "idle" => live \cap (Resource \cup {Vertex, Pixel}) =
                   placed \cup IF codeBound THEN {Vertex, Pixel} ELSE {}

\* A memory's spans are those of the resources bound to it, one each and
\* never more than its list holds, and the memory is there as long as one is.
SpansAreBindings ==
  \A m \in Memory :
    LET bound == {r \in Resource : home[r] = m}
    IN /\ bound # {} => m \in live
       /\ Len(binds[m]) = Cardinality(bound) /\ Len(binds[m]) <= MaxBinds
       /\ \A r \in bound : \E k \in 1 .. Len(binds[m]) :
            binds[m][k] = [offset |-> where[r], size |-> bytes[r]]

\* The bytes of a resource, wherever they come from; the code blocks have theirs.
Extent(o) ==
  IF o \in live \ Memory THEN at[o] .. at[o] + asked[o] - 1
  ELSE IF o \in exists /\ home[o] # Nothing
  THEN at[home[o]] + where[o] .. at[home[o]] + where[o] + bytes[o] - 1
  ELSE {}

\* No resource shares a byte with another, dedicated or bound at whatever offset
\* of whatever memory, or with shader code; and its bytes stay where they are.
Extents ==
  INSTANCE HeapMap WITH Owner <- Resource \cup {Vertex, Pixel},
                        extent <- [o \in Resource \cup {Vertex, Pixel} |-> Extent(o)]
ExtentsSpec == Extents!Spec
=============================================================================
