------------------------------- MODULE Draws -------------------------------
(***************************************************************************)
(* Vertex input and draws of the front end (openagc_frontend.c): what a    *)
(* graphics pipeline reads of a vertex, what a pass has bound, and which   *)
(* draws are refused.  No draw runs on the device: one that passes every   *)
(* check fetches the vertices it names and then stops at the compiler.     *)
(*                                                                         *)
(* Lengths and places are in dwords.  A short index is below Short, a      *)
(* uint32_t below Word and a uint64_t below Word * Word, so a stride in    *)
(* dwords is below Word \div 4 and products wrap at Word * (Word \div 4).  *)
(***************************************************************************)
EXTENDS Integers, FiniteSets, Sequences

CONSTANTS
  Short,               \* 2^16
  Length,              \* dwords of the vertex buffer
  Halves,              \* short indices that the index buffer holds, an even number
  Contents,            \* what the host may write there: sequences of short indices
  Mask,                \* vertex_input_mask: locations of one dword each
  Offsets,             \* places a host binds a buffer at
  Strides, Spans,      \* of the inputs a host sets; a span has an offset and a size
  Counts, Firsts, Bases,   \* and the arguments of its draws
  None

Word == Short * Short   \* 2^32
Quarter == Word \div 4

\* A buffer lies in a heap of OPENAGC_FRONTEND_HEAP_BYTES = 2^18 bytes.
ASSUME DrawsAssumption ==
  /\ Short \in Nat \ {0} /\ Short % 2 = 0 /\ Halves \in Nat /\ Halves % 2 = 0 /\ Length \in Nat
  /\ Mask \subseteq 0 .. 7 /\ Offsets \subseteq Nat
  /\ \A l \in Mask : 8 * (Length + l) <= Word
  /\ Strides \subseteq 0 .. Quarter - 1
  /\ Spans \subseteq [offset : Nat, size : Nat]
  /\ Counts \cup Firsts \subseteq 0 .. Word - 1
  /\ \A base \in Bases : base \in Int /\ -Word <= 2 * base /\ 2 * base < Word
  /\ Contents \subseteq [0 .. Halves - 1 -> 0 .. Short - 1]

Wrap(n) == n % (Word * Quarter)

VARIABLES
  input,       \* vertex_stride and the attributes of the pipeline, if set
  primitive,   \* of the pipeline; none is 0
  blend,       \* blend_enable, blend_src, blend_dst
  pushed,      \* push_constant_end
  viewport,    \* the pass has one
  vertex,      \* where the pass binds the vertex buffer, if it does
  index,       \* offset and width of the index buffer in the pass, if bound
  indices      \* what the index buffer holds

dvars == <<input, primitive, blend, pushed, viewport, vertex, index, indices>>

\* POINT_LIST to TRIANGLE_FAN, and ZERO to ONE_MINUS_SRC_ALPHA
Primitive == 1 .. 6
Factor == 1 .. 4
TriangleList == 4

\* A plan with its two artifacts.
DInit ==
  /\ input = None /\ primitive = TriangleList /\ blend = <<0, 2, 1>> /\ pushed = 0
  /\ viewport = FALSE /\ vertex = None /\ index = None /\ indices \in Contents

-----------------------------------------------------------------------------
(* Vertex input.                                                           *)

\* Mutant: a location may end after its span.
CoversStart(spans) ==
  \A l \in Mask : \E k \in DOMAIN spans :
    spans[k].offset <= l /\ spans[k].size >= l - spans[k].offset

\* spans_cover: each location of the shader has its dword inside one span.
Covers(spans) ==
  \A l \in Mask : \E k \in DOMAIN spans :
    spans[k].offset <= l /\ spans[k].size >= l - spans[k].offset + 1

Fits(stride, span) ==
  span.size # 0 /\ span.offset <= stride /\ span.size <= stride - span.offset

\* set_vertex_attributes: formats and rates are those of no attribute yet.
Accepts(stride, spans) ==
  /\ Len(spans) \in 1 .. 8 /\ stride # 0
  /\ \A k \in DOMAIN spans : Fits(stride, spans[k])
  /\ Covers(spans)

Attribute(span, format) ==
  [offset |-> span.offset, size |-> span.size, format |-> format, rate |-> 0]

SetAttributes(stride, spans) ==
  /\ Accepts(stride, spans)
  /\ input' = [stride |-> stride, attributes |-> [k \in DOMAIN spans |-> Attribute(spans[k], 0)]]
  /\ UNCHANGED <<primitive, blend, pushed, viewport, vertex, index, indices>>

\* set_vertex_input, and set_vertex_stride, where the span is all of it
SetInput(stride, span) == SetAttributes(stride, <<span>>)

\* set_vertex_formats: vectors of one to four floats, each a span of its size.
Format == 1 .. 4
SetFormats(stride, offsets, formats) ==
  LET spans == [k \in DOMAIN offsets |-> [offset |-> offsets[k], size |-> formats[k]]]
  IN /\ Accepts(stride, spans)
     /\ input' = [stride |-> stride,
                  attributes |-> [k \in DOMAIN spans |-> Attribute(spans[k], formats[k])]]
     /\ UNCHANGED <<primitive, blend, pushed, viewport, vertex, index, indices>>

\* set_vertex_rates: all of them or none; a divisor above 1 is refused.
SetRates(rates) ==
  /\ input # None /\ DOMAIN rates = DOMAIN input.attributes
  /\ \A k \in DOMAIN rates : rates[k] <= 1
  /\ input' = [input EXCEPT !.attributes =
                 [k \in DOMAIN @ |-> [@[k] EXCEPT !.rate = rates[k]]]]
  /\ UNCHANGED <<primitive, blend, pushed, viewport, vertex, index, indices>>

-----------------------------------------------------------------------------
(* The rest of the plan, and the bindings of the pass.                     *)

SetPrimitive(p) ==
  /\ primitive' = p /\ UNCHANGED <<input, blend, pushed, viewport, vertex, index, indices>>

SetBlend(enable, source, destination) ==
  /\ blend' = <<enable, source, destination>>
  /\ UNCHANGED <<input, primitive, pushed, viewport, vertex, index, indices>>

\* pipeline_write_push_constants: within 128 bytes.
PushBlock == 32
PushConstants(offset, size) ==
  /\ size # 0 /\ offset <= PushBlock /\ size <= PushBlock - offset
  /\ pushed' = IF offset + size > pushed THEN offset + size ELSE pushed
  /\ UNCHANGED <<input, primitive, blend, viewport, vertex, index, indices>>

SetViewport ==
  /\ viewport' = TRUE /\ UNCHANGED <<input, primitive, blend, pushed, vertex, index, indices>>

BindVertex(offset) ==
  /\ offset <= Length /\ vertex' = offset
  /\ UNCHANGED <<input, primitive, blend, pushed, viewport, index, indices>>

\* render_pass_bind_index: another offset has no width yet.  Offsets and
\* widths count short indices.
Reindexed(offset) ==
  IF index # None /\ index.offset = offset THEN index ELSE [offset |-> offset, width |-> 0]

BindIndex(offset) ==
  /\ offset <= Halves /\ index' = Reindexed(offset)
  /\ UNCHANGED <<input, primitive, blend, pushed, viewport, vertex, indices>>

\* render_pass_set_index_width, by a draw of OpenGL
SetIndexWidth(width) ==
  /\ index # None /\ index.offset % width = 0
  /\ index' = [index EXCEPT !.width = width]
  /\ UNCHANGED <<input, primitive, blend, pushed, viewport, vertex, indices>>

\* openagc_vk_cmd_bind_index_buffer
BindIndexBuffer(offset, width) ==
  /\ offset % width = 0 /\ offset <= Halves
  /\ index' = [Reindexed(offset) EXCEPT !.width = width]
  /\ UNCHANGED <<input, primitive, blend, pushed, viewport, vertex, indices>>

HostWrite(c) ==
  /\ indices' = c /\ UNCHANGED <<input, primitive, blend, pushed, viewport, vertex, index>>

-----------------------------------------------------------------------------
(* Draws change nothing; what they read decides whether they are refused.  *)

DrawReady == viewport

\* draw_launch: what was pushed is copied to a block as large as the one it was
\* pushed to, and then the compiler is missing.
Launched == 0 .. pushed - 1

InputReady == vertex # None /\ input # None

\* fetch_vertex: what it reads, and whether buffer_read lets it.
Reads(v, i) ==
  UNION {LET a == input.attributes[k]
             base == vertex + (IF a.rate = 0 THEN v ELSE i) * input.stride
         IN {Wrap(base + a.offset + d) : d \in 0 .. a.size - 1} : k \in DOMAIN input.attributes}
\* Mutant: what fits by its end is not checked again.
FetchesUnchecked(v, i) == TRUE
Fetches(v, i) == \A p \in Reads(v, i) : p < Length

\* The end of a vertex, or of all of them, as the product of two integers.
EndFits(n) == vertex <= Length /\ Wrap(n * input.stride) <= Length - vertex

\* render_pass_draw, of vertices there are
VerticesFit(n, k, first, firstInstance) ==
  /\ InputReady /\ EndFits(first + n)
  /\ \A i \in 0 .. k - 1, v \in 0 .. n - 1 : Fetches(first + v, firstInstance + i)

DrawAccepted(n, k, first, firstInstance) ==
  /\ DrawReady
  /\ \/ n = 0 \/ k = 0
     \/ primitive # 0 /\ (Mask # {} => VerticesFit(n, k, first, firstInstance))

\* What an index names: zero extended, then the signed base is added.
Element(n) ==
  LET p == index.offset + n * index.width
  IN IF index.width = 1 THEN indices[p] ELSE indices[p] + Short * indices[p + 1]

\* indexed_vertices_fit
IndexedFit(n, k, first, base, firstInstance) ==
  \A e \in first .. first + n - 1 :
    LET v == Element(e) + base
    IN /\ v >= 0 /\ EndFits(v + 1)
       /\ \A i \in 0 .. k - 1 : Fetches(v, firstInstance + i)

\* render_pass_draw_indexed
IndicesFit(n, first) ==
  /\ index.width # 0 /\ index.offset <= Halves
  /\ (first + n) * index.width <= Halves - index.offset

IndexedAccepted(n, k, first, base, firstInstance) ==
  /\ DrawReady /\ index # None
  /\ \/ n = 0 \/ k = 0
     \/ /\ IndicesFit(n, first) /\ primitive # 0
        /\ Mask # {} => InputReady /\ IndexedFit(n, k, first, base, firstInstance)

\* openagc_gl_draw_elements, once its width is set: the first index is what
\* remains of a 64-bit offset in 32 bits.
ElementsAccepted(n, place) ==
  /\ index # None /\ place % index.width = 0
  /\ IndexedAccepted(n, 1, (place \div index.width) % Word, 0, 0)

-----------------------------------------------------------------------------
(* The two dialects.                                                       *)

VulkanTopology == [t \in 0 .. 5 |-> t + 1]
OpenGlMode == [m \in {0, 1, 3, 4, 5, 6} |-> IF m < 2 THEN m + 1 ELSE m]
VulkanFactor == [f \in {0, 1, 6, 7} |-> IF f < 2 THEN f + 1 ELSE f - 3]
OpenGlFactor == [f \in {0, 1, 770, 771} |-> IF f < 2 THEN f + 1 ELSE f - 767]
VulkanFormat == [f \in {100, 103, 106, 109} |-> (f - 97) \div 3]

\* Widths of indices, in short ones.
VulkanIndexType == [t \in {0, 1} |-> t + 1]
OpenGlIndexType == [t \in {5123, 5125} |-> IF t = 5123 THEN 1 ELSE 2]

ShortLists(S) == UNION {[1 .. n -> S] : n \in 1 .. 2}

\* What both pass on as it is.
SetInputs ==
  \/ \E s \in Strides, spans \in ShortLists(Spans) : SetAttributes(s, spans)
  \/ \E rates \in ShortLists(0 .. 1) : SetRates(rates)
  \/ \E offset \in 0 .. PushBlock, size \in 1 .. PushBlock : PushConstants(offset, size)

VulkanPlan ==
  \/ SetInputs
  \/ \E t \in DOMAIN VulkanTopology : SetPrimitive(VulkanTopology[t])
  \/ \E on \in 0 .. 1, f, g \in DOMAIN VulkanFactor :
       SetBlend(on, VulkanFactor[f], VulkanFactor[g])
  \/ \E s \in Strides, x \in ShortLists([offset : 0 .. 1, format : DOMAIN VulkanFormat]) :
       SetFormats(s, [k \in DOMAIN x |-> x[k].offset],
                  [k \in DOMAIN x |-> VulkanFormat[x[k].format]])

OpenGlPlan ==
  \/ SetInputs
  \/ \E m \in DOMAIN OpenGlMode : SetPrimitive(OpenGlMode[m])
  \/ \E on \in 0 .. 1, f, g \in DOMAIN OpenGlFactor :
       SetBlend(on, OpenGlFactor[f], OpenGlFactor[g])
  \/ \E s \in Strides, x \in ShortLists([offset : 0 .. 1, components : Format]) :
       SetFormats(s, [k \in DOMAIN x |-> x[k].offset],
                  [k \in DOMAIN x |-> x[k].components])

Bind ==
  \/ SetViewport
  \/ \E offset \in Offsets : BindVertex(offset) \/ BindIndex(offset)
  \/ \E t \in DOMAIN OpenGlIndexType : SetIndexWidth(OpenGlIndexType[t])
  \/ \E offset \in Offsets, t \in DOMAIN VulkanIndexType :
       BindIndexBuffer(offset, VulkanIndexType[t])
  \/ \E c \in Contents : HostWrite(c)

DNext == VulkanPlan \/ OpenGlPlan \/ Bind

DSpec == DInit /\ [][DNext]_dvars

-----------------------------------------------------------------------------

\* Attribute a has location l of the shader.
Has(a, l) == a.offset <= l /\ l < a.offset + a.size

\* Each location of the shader is read where an integer without bounds says it
\* is: within an attribute, at the vertex or the instance its rate asks for; and
\* a vertex that has one lies in the buffer as a whole.  (If the shader takes
\* all of them from instances, no vertex is read, and its end may wrap.)
ReadsItsInput(v, i) ==
  \A l \in Mask :
    /\ \E k \in DOMAIN input.attributes : Has(input.attributes[k], l)
    /\ \A k \in DOMAIN input.attributes : Has(input.attributes[k], l) =>
         LET a == input.attributes[k]
             place == vertex + (IF a.rate = 0 THEN v ELSE i) * input.stride + l
         IN /\ place < Length /\ place \in Reads(v, i)
            /\ a.rate = 0 => vertex + (v + 1) * input.stride <= Length

\* A draw that is not refused fetched the vertices it names from inside the
\* buffer, whatever its arguments do to products of 64 bits, and copies no
\* more constants than it has room for.
DrawsReadTheirVertices ==
  /\ Mask # {} =>
       \A n, k \in Counts \ {0}, first, firstInstance \in Firsts :
         /\ DrawAccepted(n, k, first, firstInstance) =>
              \A v \in first .. first + n - 1, i \in firstInstance .. firstInstance + k - 1 :
                ReadsItsInput(v, i)
         /\ \A base \in Bases : IndexedAccepted(n, k, first, base, firstInstance) =>
              \A e \in first .. first + n - 1, i \in firstInstance .. firstInstance + k - 1 :
                ReadsItsInput(Element(e) + base, i)
  /\ Launched \subseteq 0 .. PushBlock - 1

\* What docs/architecture.md says of a count of indices that does not fit in
\* the bound buffer: it is refused.
ElementsStartAtTheirOffset ==
  \A n \in Counts \ {0}, place \in {Word * w : w \in 1 .. 2} :
    index # None /\ index.width # 0 => ~ElementsAccepted(n, place)
=============================================================================
