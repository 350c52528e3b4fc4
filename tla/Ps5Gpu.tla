------------------------------- MODULE Ps5Gpu -------------------------------
(***************************************************************************)
(* The native submission bridge (openagc_ps5_gpu.c): one process-wide      *)
(* instance that hands caller-owned memory to the GPU, and learns from a   *)
(* marker dword in that memory, and from nothing else, when the GPU is     *)
(* done with it.                                                           *)
(*                                                                         *)
(* Three agents interleave.  The caller, whose calls are serialised        *)
(* (ps5_gpu.h) and whose position inside a call is pc.  The driver and the *)
(* GPU, external: a submission may be accepted or not whatever the driver  *)
(* returns, and an accepted one draws and then writes its marker at any    *)
(* later time, or never.  The CPU cache, external: the GPU reads and       *)
(* writes memory behind it, so a line may be stale, and a dirty line may   *)
(* be written back over what the GPU wrote; the code's clflush calls are   *)
(* what prevents both.                                                     *)
(***************************************************************************)
EXTENDS Integers, FiniteSets

CONSTANTS
  Words,        \* blocks of direct memory a draw's packets may live in
  Marker,       \* ... its completion marker
  Color,        \* ... its colour target
  NoBlock,      \* a null pointer
  NoLine,       \* the cache holds no line of this block
  MaxSequence,  \* the last submission sequence (UINT32_MAX in the code)
  MaxWait       \* the largest timeout, in polls (OPENAGC_PS5_GPU_MAX_WAIT_MS)

Block == Words \cup Marker \cup Color
Value == 0 .. MaxSequence    \* 0, or the sequence a block was last written for

ASSUME BlocksAssumption ==
  /\ Words \cap Marker = {} /\ Words \cap Color = {} /\ Marker \cap Color = {}
  /\ NoBlock \notin Block
ASSUME BoundsAssumption == MaxSequence \in Nat /\ MaxWait \in Nat
ASSUME NoLineAssumption == NoLine \notin Value

VARIABLES
  pc,           \* where the caller is: "idle", or inside create/submit/wait
  loaded,       \* AGC modules that dlopen returned and dlclose did not take back
  initialized,  \* gpu_instance.initialized
  active,       \* gpu_instance.active
  sequence,     \* gpu_instance.sequence
  pending,      \* gpu_instance.pending
  marker,       \* gpu_instance.marker
  color,        \* gpu_instance.color
  attempts,     \* polls left in the wait loop
  lent,         \* blocks the caller was told to keep: submitted, not completed
  inflight,     \* submissions the driver accepted and the GPU has not finished
  finished,     \* history: sequences whose end-of-pipe event happened
  mem,          \* contents of memory, as the GPU sees it
  cache,        \* the CPU's line for each block, or NoLine
  dirty         \* blocks whose line is newer than memory

bridge == <<initialized, active, sequence, pending, marker, color>>
gpuside == <<inflight, finished>>
memory == <<mem, cache, dirty>>
vars == <<pc, loaded, bridge, attempts, lent, gpuside, memory>>

\* Inside create (three steps), submit_draw (two), and the poll loop of wait.
Position == {"idle", "open_driver", "resolve", "init",
             "submit", "suspend", "poll"}

Submission == [seq: 1 .. MaxSequence, words: Words, marker: Marker,
               color: Color, drawn: BOOLEAN]

Init ==
  /\ pc = "idle" /\ loaded = {} /\ attempts = 0
  /\ initialized = FALSE /\ active = FALSE /\ sequence = 0
  /\ pending = FALSE /\ marker = NoBlock /\ color = NoBlock
  /\ lent = {} /\ inflight = {} /\ finished = {}
  /\ mem = [b \in Block |-> 0]
  /\ cache = [b \in Block |-> NoLine]
  /\ dirty = {}

-----------------------------------------------------------------------------
(* The memory system as the CPU sees it.                                   *)

CpuView(b) == IF cache[b] = NoLine THEN mem[b] ELSE cache[b]

\* What memory holds once b's line has been flushed.
Flushed(b) == IF b \in dirty THEN cache[b] ELSE mem[b]

\* clflush of the blocks B, after stores that left the CPU with these lines, of
\* which D are dirty: dirty lines go to memory, and no line of B stays.
Flush(B, lines, D) ==
  /\ mem' = [b \in Block |-> IF b \in B \cap D THEN lines[b] ELSE mem[b]]
  /\ cache' = [b \in Block |-> IF b \in B THEN NoLine ELSE lines[b]]
  /\ dirty' = D \ B

\* A speculative or ordinary load fills an empty line.
Prefetch(b) ==
  /\ cache[b] = NoLine
  /\ cache' = [cache EXCEPT ![b] = mem[b]]
  /\ UNCHANGED <<pc, loaded, bridge, attempts, lent, gpuside, mem, dirty>>

\* A line leaves the cache; a dirty one overwrites memory.
Evict(b) ==
  /\ cache[b] # NoLine
  /\ mem' = IF b \in dirty THEN [mem EXCEPT ![b] = cache[b]] ELSE mem
  /\ cache' = [cache EXCEPT ![b] = NoLine]
  /\ dirty' = dirty \ {b}
  /\ UNCHANGED <<pc, loaded, bridge, attempts, lent, gpuside>>

\* The caller reuses memory that no submission holds, for anything.
CallerWrite(b, v) ==
  /\ b \notin lent
  /\ cache' = [cache EXCEPT ![b] = v]
  /\ dirty' = dirty \cup {b}
  /\ UNCHANGED <<pc, loaded, bridge, attempts, lent, gpuside, mem>>

-----------------------------------------------------------------------------
(* openagc_ps5_gpu_create and _destroy.                                    *)

\* The instance stays initialised for the life of the process: a second create
\* only reactivates it, and keeps its sequence.
CreateAgain ==
  /\ pc = "idle" /\ ~active /\ initialized
  /\ active' = TRUE
  /\ UNCHANGED <<pc, loaded, initialized, sequence, pending, marker, color,
                 attempts, lent, gpuside, memory>>

\* A first create: dlopen of libSceAgc, whose failure changes nothing.
OpenAgc ==
  /\ pc = "idle" /\ ~active /\ ~initialized
  /\ pc' = "open_driver"
  /\ loaded' = loaded \cup {"agc"}
  /\ UNCHANGED <<bridge, attempts, lent, gpuside, memory>>

\* Mutant: the first module is forgotten when the second cannot be opened.
OpenDriverLeaks(found) ==
  /\ pc = "open_driver"
  /\ IF found
     THEN pc' = "resolve" /\ loaded' = loaded \cup {"driver"}
     ELSE pc' = "idle" /\ loaded' = loaded
  /\ UNCHANGED <<bridge, attempts, lent, gpuside, memory>>

\* dlopen of libSceAgcDriver; a failure closes the first module.
OpenDriver(found) ==
  /\ pc = "open_driver"
  /\ IF found
     THEN pc' = "resolve" /\ loaded' = loaded \cup {"driver"}
     ELSE pc' = "idle" /\ loaded' = loaded \ {"agc"}
  /\ UNCHANGED <<bridge, attempts, lent, gpuside, memory>>

\* The three dlsym calls; a missing symbol closes both modules.
Resolve(found) ==
  /\ pc = "resolve"
  /\ pc' = IF found THEN "init" ELSE "idle"
  /\ loaded' = IF found THEN loaded ELSE loaded \ {"agc", "driver"}
  /\ UNCHANGED <<bridge, attempts, lent, gpuside, memory>>

\* sceAgcInit; a failure closes both modules and clears the instance.
InitAgc(rc) ==
  /\ pc = "init"
  /\ pc' = "idle"
  /\ IF rc = 0
     THEN initialized' = TRUE /\ active' = TRUE /\ loaded' = loaded
     ELSE UNCHANGED <<initialized, active>> /\ loaded' = loaded \ {"agc", "driver"}
  /\ UNCHANGED <<sequence, pending, marker, color, attempts, lent, gpuside, memory>>

\* Mutant: destroy does not look for a pending submission.
MayDestroyAnytime == pc = "idle" /\ active

\* Refused (BUSY) while completion is unknown.
MayDestroy == pc = "idle" /\ active /\ ~pending

\* The modules stay loaded.
Destroy ==
  /\ MayDestroy
  /\ active' = FALSE
  /\ UNCHANGED <<pc, loaded, initialized, sequence, pending, marker, color,
                 attempts, lent, gpuside, memory>>

-----------------------------------------------------------------------------
(* openagc_ps5_gpu_submit_draw.                                            *)

\* Mutants: the sequence may wrap; the marker is not flushed, or keeps what its
\* block held; the target is not flushed on completion.
MaySubmitPastEnd == pc = "idle" /\ active /\ ~pending
SubmitFlushNoMarker(w, m, c) == {w, c}
StoresNoClear(w, m, s) == [cache EXCEPT ![w] = s, ![m] = CpuView(m)]
CompletionFlushNoColor == {marker}

\* Refused with BUSY while a submission is pending, with OVERFLOW at the end of
\* the sequence.
MaySubmit == pc = "idle" /\ active /\ ~pending /\ sequence < MaxSequence

\* The blocks flushed before the driver is called, and on completion.
SubmitFlush(w, m, c) == {w, m, c}
CompletionFlush == {marker, color}

\* The CPU's stores: packets for sequence s in w, zero in the marker.
Stores(w, m, s) == [cache EXCEPT ![w] = s, ![m] = 0]

\* The packets are encoded for the next sequence, the marker is cleared,
\* everything the GPU will touch is flushed, and the instance retains the
\* submission: all before the driver is called.
BeginSubmit(w, m, c, timeout) ==
  /\ MaySubmit
  /\ sequence' = sequence + 1
  /\ Flush(SubmitFlush(w, m, c), Stores(w, m, sequence + 1), dirty \cup {w, m})
  /\ pending' = TRUE /\ marker' = m /\ color' = c
  /\ lent' = lent \cup {w, m, c}
  /\ attempts' = timeout
  /\ pc' = "submit"
  /\ UNCHANGED <<loaded, initialized, active, gpuside>>

\* The submission the instance retains, as the driver queues it: the packets in
\* w carry the marker's address and the sequence.
Retained(w) ==
  [seq |-> sequence, words |-> w, marker |-> marker, color |-> color,
   drawn |-> FALSE]

\* Mutant: a driver error is taken to mean that the GPU got nothing.
DriverSubmitReturnsMemory(w, accepted, rc) ==
  /\ pc = "submit"
  /\ w \in lent
  /\ rc = 0 => accepted
  /\ inflight' = IF accepted THEN inflight \cup {Retained(w)} ELSE inflight
  /\ pc' = IF rc = 0 THEN "suspend" ELSE "idle"
  /\ pending' = (rc = 0)
  /\ lent' = IF rc = 0 THEN lent ELSE {}
  /\ UNCHANGED <<loaded, initialized, active, sequence, marker, color, attempts,
                 finished, memory>>

\* sceAgcDriverSubmitDcb on the packets w of this call: whatever it returns, the
\* GPU may or may not have got the work; a success means it has.
DriverSubmit(w, accepted, rc) ==
  /\ pc = "submit"
  /\ w \in lent
  /\ rc = 0 => accepted
  /\ inflight' = IF accepted THEN inflight \cup {Retained(w)} ELSE inflight
  /\ pc' = IF rc = 0 THEN "suspend" ELSE "idle"
  /\ UNCHANGED <<loaded, bridge, attempts, lent, finished, memory>>

\* sceAgcSuspendPoint: on failure the call returns NOT_READY, still pending.
SuspendPoint(rc) ==
  /\ pc = "suspend"
  /\ pc' = IF rc = 0 THEN "poll" ELSE "idle"
  /\ UNCHANGED <<loaded, bridge, attempts, lent, gpuside, memory>>

-----------------------------------------------------------------------------
(* openagc_ps5_gpu_wait.                                                   *)

BeginWait(timeout) ==
  /\ pc = "idle" /\ active /\ pending
  /\ attempts' = timeout
  /\ pc' = "poll"
  /\ UNCHANGED <<loaded, bridge, lent, gpuside, memory>>

\* The value a poll reads: the marker's line is flushed first.  (The load brings
\* the line back; Prefetch, enabled at once, stands for that.)
Polled == Flushed(marker)

\* The marker holds the sequence: the colour target's lines are dropped too, so
\* that the caller reads the GPU's pixels, and the submission is released.
PollCompleted ==
  /\ pc = "poll"
  /\ Polled = sequence
  /\ Flush(CompletionFlush, cache, dirty)
  /\ pending' = FALSE /\ marker' = NoBlock /\ color' = NoBlock
  /\ lent' = {}
  /\ pc' = "idle"
  /\ UNCHANGED <<loaded, initialized, active, sequence, attempts, gpuside>>

\* It does not: INTEGRITY for a foreign value, NOT_READY once the timeout is
\* spent, and otherwise another poll.  The submission stays pending.
PollAgain ==
  /\ pc = "poll"
  /\ Polled # sequence
  /\ Flush({marker}, cache, dirty)
  /\ IF Polled # 0 \/ attempts = 0
     THEN pc' = "idle" /\ attempts' = attempts
     ELSE pc' = "poll" /\ attempts' = attempts - 1
  /\ UNCHANGED <<loaded, bridge, lent, gpuside>>

-----------------------------------------------------------------------------
(* The GPU.                                                                *)

\* The packets are fetched from memory and the draw writes the target.
GpuDraw(s) ==
  /\ ~s.drawn
  /\ mem' = [mem EXCEPT ![s.color] = mem[s.words]]
  /\ inflight' = (inflight \ {s}) \cup {[s EXCEPT !.drawn = TRUE]}
  /\ UNCHANGED <<pc, loaded, bridge, attempts, lent, finished, cache, dirty>>

\* The end-of-pipe event writes the sequence the packets carry.
GpuComplete(s) ==
  /\ s.drawn
  /\ mem' = [mem EXCEPT ![s.marker] = mem[s.words]]
  /\ inflight' = inflight \ {s}
  /\ finished' = finished \cup {s.seq}
  /\ UNCHANGED <<pc, loaded, bridge, attempts, lent, cache, dirty>>

-----------------------------------------------------------------------------

Timeout == 0 .. MaxWait
Result == {0, 1}            \* success, any platform error

Lifecycle ==
  \/ CreateAgain \/ OpenAgc \/ Destroy
  \/ \E found \in BOOLEAN : OpenDriver(found) \/ Resolve(found)
  \/ \E rc \in Result : InitAgc(rc)

Submit ==
  \/ \E w \in Words, m \in Marker, c \in Color, t \in Timeout :
       BeginSubmit(w, m, c, t)
  \/ \E w \in Words, accepted \in BOOLEAN, rc \in Result :
       DriverSubmit(w, accepted, rc)
  \/ \E rc \in Result : SuspendPoint(rc)

Wait == (\E t \in Timeout : BeginWait(t)) \/ PollCompleted \/ PollAgain

Gpu == \E s \in inflight : GpuDraw(s) \/ GpuComplete(s)

Environment ==
  \/ \E b \in Block : Prefetch(b) \/ Evict(b)
  \/ \E b \in Block, v \in Value : CallerWrite(b, v)

Next == Lifecycle \/ Submit \/ Wait \/ Gpu \/ Environment

Spec == Init /\ [][Next]_vars

\* A call that was entered returns (the driver's calls do, and the poll loop is
\* bounded); the GPU executes what it accepted; and the caller of a pending
\* submission calls wait again, which is all the header leaves it to do.
Fairness ==
  /\ WF_vars(Submit /\ pc \in {"submit", "suspend"})
  /\ WF_vars(Wait)
  /\ WF_vars(Gpu)

FairSpec == Spec /\ Fairness

-----------------------------------------------------------------------------

TypeOK ==
  /\ pc \in Position /\ loaded \subseteq {"agc", "driver"}
  /\ initialized \in BOOLEAN /\ active \in BOOLEAN /\ pending \in BOOLEAN
  /\ sequence \in Value
  /\ marker \in Marker \cup {NoBlock} /\ color \in Color \cup {NoBlock}
  /\ attempts \in Timeout
  /\ lent \subseteq Block
  /\ inflight \subseteq Submission /\ finished \subseteq Value
  /\ mem \in [Block -> Value]
  /\ cache \in [Block -> Value \cup {NoLine}]
  /\ dirty \subseteq {b \in Block : cache[b] # NoLine}

\* Work the GPU may still do is the one submission the instance retains, on an
\* active instance: no error, timeout or destroy loses track of it.
InFlightIsRetained ==
  \A s \in inflight :
    active /\ pending /\ s.seq = sequence /\ s.marker = marker /\ s.color = color

\* A poll never meets a foreign marker value (INTEGRITY): nothing left over from
\* an earlier submission, or from the block's earlier use, is in the marker; and
\* the value it waits for never wraps to that of a marker not written yet.
MarkerIsOwn ==
  pc = "poll" => Polled \in {0, sequence} /\ sequence \in 1 .. MaxSequence

\* wait reports completion only of a submission whose end-of-pipe event happened.
CompletionIsReal == [][pending /\ ~pending' => sequence \in finished]_vars

\* When it does, the CPU reads the pixels of that submission, not a stale line.
PixelsAreVisible ==
  [][\A c \in Color : pending /\ ~pending' /\ c = color => CpuView(c)' = sequence]_vars

\* A create that fails half way, at whichever call, leaves no module open, and
\* an initialised instance keeps both.
NoModuleLeaks ==
  pc = "idle" => loaded = IF initialized THEN {"agc", "driver"} ELSE {}

\* The bridge implements the lease of caller memory.
Lease == INSTANCE MemoryLease
           WITH busy <- UNION {{s.words, s.marker, s.color} : s \in inflight}
LeaseSpec == Lease!Spec

\* Work the driver accepted, even while returning an error, is eventually seen
\* to complete, after however many timeouts: the marker is neither lost nor
\* overwritten.
AcceptedWorkCompletes == inflight # {} ~> ~pending
=============================================================================
