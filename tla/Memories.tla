------------------------------ MODULE Memories ------------------------------
(***************************************************************************)
(* The allocations of a host device (openagc_gpu.c) and the synthetic      *)
(* addresses it hands out.  Addresses and sizes are counted in dwords,     *)
(* which the code requires every size and offset to be a multiple of.      *)
(***************************************************************************)
EXTENDS Integers, FiniteSets

CONSTANTS
  Memory,          \* openagc_gpu_memory objects
  Budget,          \* memory_budget_bytes
  MaxAllocations,  \* OPENAGC_GPU_MAX_ALLOCATIONS
  Page,            \* OPENAGC_GPU_VA_PAGE
  VaLimit,         \* OPENAGC_GPU_VA_LIMIT
  Sizes            \* sizes the caller asks for

ASSUME MemoriesAssumption ==
  /\ Budget \in Nat /\ MaxAllocations \in Nat
  /\ Page \in Nat \ {0} /\ VaLimit \in Nat /\ VaLimit >= Page
  /\ Sizes \subseteq Nat \ {0}

VARIABLES
  size,          \* size_bytes of each memory, 0 if it is not allocated
  va,            \* its synthetic_va, 0 if it is not allocated
  nextVa,        \* device.next_synthetic_va
  spent,         \* device.allocated_bytes
  boundBuffers,  \* memory.bound_buffers
  boundImages    \* memory.bound_images

memories == <<size, va, nextVa, spent, boundBuffers, boundImages>>

Allocated == {m \in Memory : size[m] # 0}

InitMemories ==
  /\ size = [m \in Memory |-> 0] /\ va = [m \in Memory |-> 0]
  /\ nextVa = Page /\ spent = 0
  /\ boundBuffers = [m \in Memory |-> 0] /\ boundImages = [m \in Memory |-> 0]

\* What reserve_va takes: whole pages.
Span(n) == n + (Page - 1) - ((n + (Page - 1)) % Page)

\* reserve_va succeeds; otherwise OVERFLOW.
MayReserve(n) == n # 0 /\ nextVa < VaLimit /\ Span(n) <= VaLimit - nextVa

Allocate(m, n) ==
  /\ m \notin Allocated
  /\ Cardinality(Allocated) < MaxAllocations /\ n <= Budget - spent
  /\ MayReserve(n)
  /\ size' = [size EXCEPT ![m] = n]
  /\ va' = [va EXCEPT ![m] = nextVa]
  /\ nextVa' = nextVa + Span(n)
  /\ spent' = spent + n
  /\ UNCHANGED <<boundBuffers, boundImages>>

\* memory_destroy succeeds; otherwise BUSY.
MayRelinquish(m) == m \in Allocated /\ boundBuffers[m] = 0 /\ boundImages[m] = 0

Relinquish(m) ==
  /\ MayRelinquish(m)
  /\ spent' = spent - size[m]
  /\ size' = [size EXCEPT ![m] = 0]
  /\ va' = [va EXCEPT ![m] = 0]
  /\ UNCHANGED <<nextVa, boundBuffers, boundImages>>
=============================================================================
