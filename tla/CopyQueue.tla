------------------------------ MODULE CopyQueue ------------------------------
(***************************************************************************)
(* The host copy queue (openagc_gpu.c), composed with the memories and the *)
(* images it works on: buffers, copy command buffers, the queue, fences,   *)
(* and the host calls that write a memory at once and encode the packet    *)
(* that a GPU would take for it.                                           *)
(***************************************************************************)
EXTENDS Graphics, Sequences

CONSTANTS
  Buffer,       \* openagc_gpu_buffer objects
  Source,       \* those created with the copy source usage bit
  Destination,  \* ... with the copy destination bit
  Readable,     \* ... with the shader read bit
  CopyBuffer,   \* openagc_gpu_command_buffer objects
  Fence,        \* openagc_gpu_fence objects
  MaxBuffers,   \* OPENAGC_GPU_MAX_BUFFERS
  MaxFences,    \* OPENAGC_GPU_MAX_FENCES
  MaxCopies,    \* desc.max_commands, or what desc.max_words has room for
  SequenceMax,  \* UINT32_MAX, of the three sequence numbers
  Lengths,      \* sizes of buffers, copies and fills the caller asks for
  Requests,     \* sizes of address ranges the caller asks for
  Value,        \* values of a dword
  Zero          \* what calloc leaves

ASSUME CopyQueueAssumption ==
  /\ Source \cup Destination \cup Readable \subseteq Buffer
  /\ IsFiniteSet(Buffer) /\ IsFiniteSet(CopyBuffer) /\ Nothing \notin Buffer
  /\ MaxBuffers \in Nat /\ MaxFences \in Nat /\ MaxCopies \in Nat /\ SequenceMax \in Nat
  /\ Lengths \cup Requests \subseteq Nat \ {0} /\ Zero \in Value

VARIABLES
  length,    \* size_bytes of each buffer, 0 if it does not exist
  place,     \* buffer.memory
  start,     \* buffer.memory_offset
  uses,      \* buffer.command_references
  locks,     \* buffer.pipeline_references
  progress,  \* command_buffer.state, or "absent"
  copies,    \* command_buffer.records, each with the addresses of its packet
  queue,     \* whether the queue exists
  sequence,  \* queue.sequence
  marker,    \* marker_va of each fence, 0 if it does not exist
  signal,    \* fence.submission_id, 0 if it is not signaled
  scratch,   \* the addresses that host calls have reserved, 0 before
  given,     \* the ranges of addresses that callers have reserved
  computes,  \* device.compute_sequence
  writes,    \* device.write_sequence
  content    \* the dwords of each memory

buffers == <<length, place, start, uses, locks>>
lists == <<progress, copies>>
submissions == <<queue, sequence, marker, signal>>
calls == <<scratch, given, computes, writes>>
cvars == <<gvars, buffers, lists, submissions, calls, content>>

Dword == UNION {0 .. n - 1 : n \in Sizes}
Blank == [d \in Dword |-> Zero]

CInit ==
  /\ GInit
  /\ length = [b \in Buffer |-> 0]
  /\ place = [b \in Buffer |-> Nothing] /\ start = [b \in Buffer |-> 0]
  /\ uses = [b \in Buffer |-> 0] /\ locks = [b \in Buffer |-> 0]
  /\ progress = [c \in CopyBuffer |-> "absent"] /\ copies = [c \in CopyBuffer |-> <<>>]
  /\ queue = FALSE /\ sequence = 0
  /\ marker = [f \in Fence |-> 0] /\ signal = [f \in Fence |-> 0]
  /\ scratch = [k \in {"code", "store", "write"} |-> 0]
  /\ given = {} /\ computes = 0 /\ writes = 0
  /\ content = [m \in Memory |-> Blank]

-----------------------------------------------------------------------------
(* Buffers.                                                                *)

Live == {b \in Buffer : length[b] # 0}

CreateBuffer(b, n) ==
  /\ b \notin Live /\ Cardinality(Live) < MaxBuffers
  /\ length' = [length EXCEPT ![b] = n]
  /\ UNCHANGED <<gvars, place, start, uses, locks, lists, submissions, calls, content>>

BindBuffer(b, m, offset) ==
  /\ b \in Live /\ m \in Allocated /\ place[b] = Nothing
  /\ offset + length[b] <= size[m]
  /\ place' = [place EXCEPT ![b] = m]
  /\ start' = [start EXCEPT ![b] = offset]
  /\ boundBuffers' = [boundBuffers EXCEPT ![m] = @ + 1]
  /\ UNCHANGED <<size, va, nextVa, spent, boundImages, images, phase, stream, held, shadow,
                 length, uses, locks, lists, submissions, calls, content>>

\* Mutant: only pipeline plans keep a buffer where it is.
MayReleaseRecorded(b) == b \in Live /\ locks[b] = 0

\* Neither a recorded copy nor a pipeline plan uses it; otherwise BUSY.
MayRelease(b) == b \in Live /\ uses[b] = 0 /\ locks[b] = 0

\* A buffer leaves its memory, to be bound again or (n = 0) to be destroyed.
Leave(b, n) ==
  /\ MayRelease(b)
  /\ boundBuffers' = [m \in Memory |-> IF m = place[b] THEN boundBuffers[m] - 1
                                       ELSE boundBuffers[m]]
  /\ length' = [length EXCEPT ![b] = n]
  /\ place' = [place EXCEPT ![b] = Nothing]
  /\ start' = [start EXCEPT ![b] = 0]
  /\ UNCHANGED <<size, va, nextVa, spent, boundImages, images, phase, stream, held, shadow,
                 uses, locks, lists, submissions, calls, content>>

UnbindBuffer(b) == place[b] # Nothing /\ Leave(b, length[b])
DestroyBuffer(b) == Leave(b, 0)

\* A pipeline plan takes or releases a buffer.
LockBuffer(b) ==
  /\ b \in Live \cap Readable /\ place[b] # Nothing /\ locks[b] # CountMax
  /\ locks' = [locks EXCEPT ![b] = @ + 1]
  /\ UNCHANGED <<gvars, length, place, start, uses, lists, submissions, calls, content>>

UnlockBuffer(b) ==
  /\ locks[b] # 0
  /\ locks' = [locks EXCEPT ![b] = @ - 1]
  /\ UNCHANGED <<gvars, length, place, start, uses, lists, submissions, calls, content>>

-----------------------------------------------------------------------------
(* Copy command buffers.                                                   *)

\* Two runs of n dwords of one memory have a dword in common.
Overlap(o, p, n) == o < p + n /\ p < o + n

\* image_copy_access: every image that has one of these dwords is in state s.
CopyAccess(m, o, n, s) ==
  \A i \in Exists :
    home[i] = m /\ o < where[i] + footprint[i] /\ where[i] < o + n => state[i] = s

Readied(k) == CopyAccess(k.fromMemory, k.from, k.n, "TRANSFER_SOURCE")
Writable(k) == CopyAccess(k.toMemory, k.to, k.n, "TRANSFER_DESTINATION")

\* The record, and the packet, of a copy between two bound buffers.
CopyOf(a, p, b, q, n) ==
  [source |-> a, fromMemory |-> place[a], from |-> start[a] + p,
   fromVa |-> va[place[a]] + start[a] + p,
   destination |-> b, toMemory |-> place[b], to |-> start[b] + q,
   toVa |-> va[place[b]] + start[b] + q, n |-> n]

\* Mutant: a buffer is counted once per copy.
CountedOnce(a, b) == [x \in Buffer |-> IF x \in {a, b} THEN uses[x] + 1 ELSE uses[x]]

\* The reference counts with those of one more copy.
Counted(a, b) == [[uses EXCEPT ![a] = @ + 1] EXCEPT ![b] = @ + 1]

RecordCopy(c, a, p, b, q, n) ==
  /\ progress[c] = "RECORDING"
  /\ p + n <= length[a] /\ q + n <= length[b]
  /\ Nothing \notin {place[a], place[b]} /\ a \in Source /\ b \in Destination
  /\ place[a] = place[b] => ~Overlap(start[a] + p, start[b] + q, n)
  /\ Readied(CopyOf(a, p, b, q, n)) /\ Writable(CopyOf(a, p, b, q, n))
  /\ Len(copies[c]) # MaxCopies
  /\ uses[a] # CountMax /\ uses[b] < IF a = b THEN CountMax - 1 ELSE CountMax
  /\ copies' = [copies EXCEPT ![c] = Append(@, CopyOf(a, p, b, q, n))]
  /\ uses' = Counted(a, b)
  /\ UNCHANGED <<gvars, length, place, start, locks, progress, submissions, calls, content>>

CreateCopyBuffer(c) ==
  /\ progress[c] = "absent" /\ progress' = [progress EXCEPT ![c] = "INITIAL"]
  /\ UNCHANGED <<gvars, buffers, copies, submissions, calls, content>>

BeginCopies(c) ==
  /\ progress[c] = "INITIAL" /\ progress' = [progress EXCEPT ![c] = "RECORDING"]
  /\ UNCHANGED <<gvars, buffers, copies, submissions, calls, content>>

EndCopies(c) ==
  /\ progress[c] = "RECORDING" /\ progress' = [progress EXCEPT ![c] = "EXECUTABLE"]
  /\ UNCHANGED <<gvars, buffers, copies, submissions, calls, content>>

\* How often the copies of c use buffer b.
UsesIn(c, b) == Cardinality({k \in DOMAIN copies[c] : copies[c][k].source = b})
                + Cardinality({k \in DOMAIN copies[c] : copies[c][k].destination = b})

\* release_records, on reset and on destruction.
Forget(c) ==
  /\ uses' = [b \in Buffer |-> uses[b] - UsesIn(c, b)]
  /\ copies' = [copies EXCEPT ![c] = <<>>]
  /\ UNCHANGED <<gvars, length, place, start, locks, submissions, calls, content>>

ResetCopies(c) ==
  /\ progress[c] \in {"RECORDING", "EXECUTABLE"}
  /\ progress' = [progress EXCEPT ![c] = "INITIAL"]
  /\ Forget(c)

DestroyCopyBuffer(c) ==
  /\ progress[c] # "absent" /\ progress' = [progress EXCEPT ![c] = "absent"]
  /\ Forget(c)

-----------------------------------------------------------------------------
(* The queue and its fences.                                               *)

\* Destroying the queue forgets its sequence, not what it signaled.
CreateQueue ==
  /\ ~queue /\ queue' = TRUE /\ sequence' = 0
  /\ UNCHANGED <<gvars, buffers, lists, marker, signal, calls, content>>

DestroyQueue ==
  /\ queue /\ queue' = FALSE /\ sequence' = 0
  /\ UNCHANGED <<gvars, buffers, lists, marker, signal, calls, content>>

\* Mutant: the address of a fence's marker is not taken.
AfterMarkerUntaken == nextVa

AfterMarker == nextVa + Span(1)

CreateFence(f) ==
  /\ marker[f] = 0 /\ Cardinality({g \in Fence : marker[g] # 0}) < MaxFences
  /\ MayReserve(1)
  /\ marker' = [marker EXCEPT ![f] = nextVa]
  /\ nextVa' = AfterMarker
  /\ UNCHANGED <<size, va, spent, boundBuffers, boundImages, images, phase, stream, held,
                 shadow, buffers, lists, queue, sequence, signal, calls, content>>

DestroyFence(f) ==
  /\ marker[f] # 0
  /\ marker' = [marker EXCEPT ![f] = 0]
  /\ signal' = [signal EXCEPT ![f] = 0]
  /\ UNCHANGED <<gvars, buffers, lists, queue, sequence, calls, content>>

ResetFence(f) ==
  /\ signal[f] # 0
  /\ signal' = [signal EXCEPT ![f] = 0]
  /\ UNCHANGED <<gvars, buffers, lists, queue, sequence, marker, calls, content>>

\* n dwords of memory m, from offset o, replaced by data[0 .. n - 1].
Put(c, m, o, n, data) ==
  [c EXCEPT ![m] = [d \in Dword |-> IF d \in o .. o + n - 1 THEN data[d - o] ELSE @[d]]]

\* What is read there.
Get(c, m, o, n) == [d \in 0 .. n - 1 |-> c[m][o + d]]

\* The memories after the first k copies of a list, in order.
Transferred(list) ==
  LET after[k \in 0 .. Len(list)] ==
        IF k = 0 THEN content
        ELSE LET r == list[k]
             IN  Put(after[k - 1], r.toMemory, r.to, r.n,
                     Get(after[k - 1], r.fromMemory, r.from, r.n))
  IN  after[Len(list)]

\* Mutant: what recording a copy checked is taken to hold still.
PreflightNothing(list) == list # <<>>

\* The submission finds every image as its copies need it.
Preflight(list) == \A k \in DOMAIN list : Readied(list[k]) /\ Writable(list[k])

\* Mutant: a signaled fence is signaled again.
FenceFreeSignaled(f) == marker[f] # 0

FenceFree(f) == marker[f] # 0 /\ signal[f] = 0

Submit(c, f) ==
  /\ queue /\ progress[c] = "EXECUTABLE" /\ copies[c] # <<>>
  /\ FenceFree(f)
  /\ sequence # SequenceMax
  /\ Preflight(copies[c])
  /\ content' = Transferred(copies[c])
  /\ sequence' = sequence + 1
  /\ signal' = [signal EXCEPT ![f] = sequence + 1]
  /\ UNCHANGED <<gvars, buffers, lists, queue, marker, calls>>

-----------------------------------------------------------------------------
(* Host calls, which write at once.                                        *)

\* memory_write and buffer_write.
HostWrite(m, o, n, v) ==
  /\ m \in Allocated /\ o + n <= size[m]
  /\ content' = Put(content, m, o, n, [d \in 0 .. n - 1 |-> v])
  /\ UNCHANGED <<gvars, buffers, lists, submissions, calls>>

\* Mutant: a scratch address is not taken.
AskUntaken(s, k) ==
  IF s.scratch[k] # 0 \/ ~(s.next < VaLimit /\ Span(1) <= VaLimit - s.next) THEN s
  ELSE [scratch |-> [s.scratch EXCEPT ![k] = s.next], next |-> s.next]

\* A call asks for scratch address k; it keeps what it has, or has none.
Ask(s, k) ==
  IF s.scratch[k] # 0 \/ ~(s.next < VaLimit /\ Span(1) <= VaLimit - s.next) THEN s
  ELSE [scratch |-> [s.scratch EXCEPT ![k] = s.next], next |-> s.next + Span(1)]

Asked(kinds) ==
  LET s0 == [scratch |-> scratch, next |-> nextVa]
      s1 == Ask(s0, Head(kinds))
  IN  IF Len(kinds) = 1 \/ s1.scratch[Head(kinds)] = 0 THEN s1 ELSE Ask(s1, kinds[2])

\* The addresses that a call of these kinds takes, also if it fails then.
Take(kinds) ==
  /\ scratch' = Asked(kinds).scratch /\ nextVa' = Asked(kinds).next
  /\ UNCHANGED <<size, va, spent, boundBuffers, boundImages, given>>

Took(kinds) == \A k \in DOMAIN kinds : Asked(kinds).scratch[kinds[k]] # 0

\* host_store_const, of one dword, and in the same way of n of them.
HostStoreOf(b, o, n, v) ==
  /\ b \in Live \cap Readable /\ place[b] # Nothing /\ o + n <= length[b]
  /\ computes # SequenceMax
  /\ Take(<<"code", "store">>)
  /\ \/ /\ Took(<<"code", "store">>)
        /\ content' = Put(content, place[b], start[b] + o, n, [d \in 0 .. n - 1 |-> v])
        /\ computes' = computes + 1
     \/ ~Took(<<"code", "store">>) /\ UNCHANGED <<content, computes>>
  /\ UNCHANGED <<images, phase, stream, held, shadow, buffers, lists, submissions, writes>>

HostStore(b, o, v) == HostStoreOf(b, o, 1, v)

\* host_store_span and _span_n; a span is of any two dwords or more here.
HostStoreSpan(b, o, n, v) == n > 1 /\ HostStoreOf(b, o, n, v)

\* host_write_data_memory, _rows, _grid, and their forms for buffers.
HostFill(m, o, n, v) ==
  /\ m \in Allocated /\ o + n <= size[m]
  /\ writes # SequenceMax
  /\ Take(<<"write">>) /\ Took(<<"write">>)
  /\ content' = Put(content, m, o, n, [d \in 0 .. n - 1 |-> v])
  /\ writes' = writes + 1
  /\ UNCHANGED <<images, phase, stream, held, shadow, buffers, lists, submissions, computes>>

\* host_graphics_register_eop: a packet of register writes that touches no memory.
HostRegisters ==
  /\ writes # SequenceMax
  /\ Take(<<"write">>) /\ Took(<<"write">>)
  /\ writes' = writes + 1
  /\ UNCHANGED <<images, phase, stream, held, shadow, buffers, lists, submissions, computes,
                 content>>

\* device_reserve_synthetic_va
ReserveVa(n) ==
  /\ MayReserve(n)
  /\ given' = given \cup {[first |-> nextVa, n |-> n]}
  /\ nextVa' = nextVa + Span(n)
  /\ UNCHANGED <<size, va, spent, boundBuffers, boundImages, images, phase, stream, held,
                 shadow, buffers, lists, submissions, scratch, computes, writes, content>>

\* What the memcpy of host_dma_write_data may leave: any values of the source
\* where the two runs overlap.
Moved(m, o, n, data, torn) ==
  IF torn THEN {Put(content, m, o, n, d) : d \in [0 .. n - 1 -> {data[k] : k \in 0 .. n - 1}]}
  ELSE {Put(content, m, o, n, data)}

\* host_dma_write_data: a copy of n dwords, then a fill of its first w.
HostCopyFill(a, p, b, q, n, w, v) ==
  /\ p + n <= length[a] /\ q + n <= length[b]
  /\ Nothing \notin {place[a], place[b]} /\ a \in Source /\ b \in Destination /\ w <= n
  /\ writes # SequenceMax
  /\ Take(<<"write">>) /\ Took(<<"write">>)
  /\ \E moved \in Moved(place[b], start[b] + q, n, Get(content, place[a], start[a] + p, n),
                        place[a] = place[b] /\ Overlap(start[a] + p, start[b] + q, n)) :
       content' = Put(moved, place[b], start[b] + q, w, [d \in 0 .. w - 1 |-> v])
  /\ writes' = writes + 1
  /\ UNCHANGED <<images, phase, stream, held, shadow, buffers, lists, submissions, computes>>

-----------------------------------------------------------------------------
(* What the graphics half does to the bytes.                               *)

Aside == UNCHANGED <<buffers, lists, submissions, calls, content>>

Extent(i) == {<<home[i], d>> : d \in where[i] .. where[i] + footprint[i] - 1}

\* Where the clears of a recording may fall: their scissors are not kept.
Cleared(r) == (IF "color" \in clears[r] THEN Extent(target[r]) ELSE {})
              \cup (IF "depth" \in clears[r] THEN Extent(depthTarget[r]) ELSE {})

Paint(part, v) ==
  content' = [m \in Memory |-> [d \in Dword |-> IF <<m, d>> \in part THEN v ELSE content[m][d]]]

\* execute_host sends packets until it is done or one of them is refused; it
\* does nothing if that is the first.
ExecuteClears(r) ==
  /\ Take(<<"write">>) /\ Took(<<"write">>)
  /\ Execute(r) \/ ExecuteFails(r)
  /\ \E p \in 1 .. SequenceMax - writes, part \in SUBSET Cleared(r) \ {{}}, v \in Value :
       writes' = writes + p /\ Paint(part, v)
  /\ UNCHANGED <<buffers, lists, submissions, computes>>

FreeMemory(m) ==
  /\ DestroyMemory(m) /\ content' = [content EXCEPT ![m] = Blank]
  /\ UNCHANGED <<buffers, lists, submissions, calls>>

-----------------------------------------------------------------------------

BufferStep ==
  \E b \in Buffer :
    \/ UnbindBuffer(b) \/ DestroyBuffer(b) \/ LockBuffer(b) \/ UnlockBuffer(b)
    \/ \E n \in Lengths : CreateBuffer(b, n)
    \/ \E m \in Memory, offset \in Dword : BindBuffer(b, m, offset)

CopyStep ==
  \E c \in CopyBuffer :
    \/ CreateCopyBuffer(c) \/ DestroyCopyBuffer(c)
    \/ BeginCopies(c) \/ EndCopies(c) \/ ResetCopies(c)
    \/ \E a \in Live, b \in Live, p \in Dword, q \in Dword, n \in Lengths :
         RecordCopy(c, a, p, b, q, n)
    \/ \E f \in Fence : Submit(c, f)

QueueStep ==
  \/ CreateQueue \/ DestroyQueue
  \/ \E f \in Fence : CreateFence(f) \/ DestroyFence(f) \/ ResetFence(f)

HostStep ==
  \/ HostRegisters \/ \E n \in Requests : ReserveVa(n)
  \/ \E b \in Live, o \in Dword, v \in Value : HostStore(b, o, v)
  \/ \E o \in Dword, n \in Lengths, v \in Value :
       \/ \E m \in Memory : HostWrite(m, o, n, v) \/ HostFill(m, o, n, v)
       \/ \E b \in Live : HostStoreSpan(b, o, n, v)
       \/ \E a \in Live, b \in Live, q \in Dword, w \in Lengths :
            HostCopyFill(a, o, b, q, n, w, v)

CNext ==
  \/ BufferStep \/ CopyStep \/ QueueStep \/ HostStep
  \/ \E m \in Memory : FreeMemory(m) \/ \E n \in Sizes : AllocateMemory(m, n) /\ Aside
  \/ (ImageStep \/ RecordStep \/ RecordingStep) /\ Aside
  \/ \E r \in Recording : (Apply(r) /\ Aside) \/ ExecuteClears(r)

CSpec == CInit /\ [][CNext]_cvars

-----------------------------------------------------------------------------

Copied == UNION {{copies[c][k] : k \in DOMAIN copies[c]} : c \in CopyBuffer}
Places == Memory \cup {Nothing}

\* Where recorded copies use buffer b, and as what.
AllUses(b) ==
  {u \in (CopyBuffer \X (1 .. MaxCopies)) \X {"source", "destination"} :
    LET list == copies[u[1][1]]  k == u[1][2]
    IN  k \in DOMAIN list /\ b = IF u[2] = "source" THEN list[k].source
                                 ELSE list[k].destination}

\* The reference counts are what they count: a buffer's command references are
\* its uses in recorded copies, of which a copy within it has two, and a
\* memory's bound buffers are the buffers bound to it.
UsesAreCounted ==
  /\ \A b \in Buffer : uses[b] = Cardinality(AllUses(b))
  /\ \A m \in Memory : boundBuffers[m] = Cardinality({b \in Buffer : place[b] = m})

\* Buffer b still covers the n dwords of memory m from offset o.
Covers(b, m, o, n) ==
  /\ b \in Live /\ m \in Allocated /\ place[b] = m
  /\ start[b] <= o /\ o + n <= start[b] + length[b] /\ start[b] + length[b] <= size[m]

\* A recorded copy stays as good as it was: its buffers are where they were, the
\* addresses in its packet are theirs, and its two runs stay apart.
RecordsStayValid ==
  \A r \in Copied :
    /\ Covers(r.source, r.fromMemory, r.from, r.n)
    /\ Covers(r.destination, r.toMemory, r.to, r.n)
    /\ r.fromVa = va[r.fromMemory] + r.from /\ r.toVa = va[r.toMemory] + r.to
    /\ r.fromMemory = r.toMemory => ~Overlap(r.from, r.to, r.n)

\* Who has which addresses: an owner, the first, and how many.  The encoders of
\* the packets refuse nothing that they are given from these.
Ranges == {<<m, va[m], size[m]>> : m \in Allocated}
          \cup {<<f, marker[f], 1>> : f \in {g \in Fence : marker[g] # 0}}
          \cup {<<k, scratch[k], 1>> : k \in {j \in DOMAIN scratch : scratch[j] # 0}}
          \cup {<<"given", g.first, g.n>> : g \in given}

\* An address means one thing: memories, fence markers, the scratch of host calls
\* and what callers reserved never share one, and what is handed out next is
\* beyond all of them.
AddressesAreFresh ==
  /\ \A x \in Ranges : x[2] >= Page /\ x[2] + x[3] <= nextVa /\ nextVa <= VaLimit
  /\ \A x, y \in Ranges : x # y => x[2] + x[3] <= y[2] \/ y[2] + y[3] <= x[2]

\* A submission leaves the bytes of every image alone that is not, at that time,
\* a TRANSFER_DESTINATION of the copy owner: "That check runs when the copy is
\* recorded and again while the queue preflights a submission".
SubmissionsSpareImages ==
  [][sequence' = sequence + 1 =>
      \A i \in Image : home[i] # Nothing /\ state[i] # "TRANSFER_DESTINATION" =>
        \A d \in where[i] .. where[i] + footprint[i] - 1 :
          content'[home[i]][d] = content[home[i]][d]]_cvars

\* What a fence says stays true until it is reset or destroyed, and no two
\* submissions of one queue are told of by the same number.
SignalsStay ==
  [][\A f \in Fence :
      /\ signal[f] # 0 => signal'[f] \in {0, signal[f]}
      /\ signal[f] = 0 /\ signal'[f] # 0 => sequence < signal'[f] /\ sequence' = signal'[f]]_cvars
=============================================================================
