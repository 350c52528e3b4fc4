---------------------------- MODULE Ps5GpuProofs ----------------------------
(***************************************************************************)
(* Machine-checked safety of the native bridge, for any blocks of memory   *)
(* and any bounds.  The inductive invariant says which single submission   *)
(* the instance retains, that the caller has lent exactly its blocks, that *)
(* no line of them is dirty in the cache, and what they hold in memory     *)
(* before and after the GPU's two writes.                                  *)
(***************************************************************************)
EXTENDS Ps5Gpu, TLAPS

\* The instance and the caller's position agree.
BridgeInv ==
  /\ active => initialized
  /\ pending => active /\ sequence > 0 /\ marker \in Marker /\ color \in Color
  /\ pc \in {"submit", "suspend", "poll"} => pending
  /\ pc \in {"open_driver", "resolve", "init"} => ~initialized
  /\ pc = "open_driver" => loaded = {"agc"}
  /\ pc \in {"resolve", "init"} => loaded = {"agc", "driver"}
  /\ pc \in {"idle", "submit", "suspend", "poll"} =>
       loaded = IF initialized THEN {"agc", "driver"} ELSE {}

\* The blocks the caller has lent are those of the pending submission.
LentInv ==
  /\ ~pending => lent = {}
  /\ pending => \E w \in Words : lent = {w, marker, color}

\* At most one submission is in flight; it is the pending one, and neither it
\* nor one the driver has yet to take is finished.
FlightInv ==
  /\ finished \subseteq 1 .. sequence
  /\ \A s, t \in inflight : s = t
  /\ \A s \in inflight : s.words \in lent /\ sequence \notin finished
  /\ InFlightIsRetained
  /\ pc = "submit" => inflight = {} /\ sequence \notin finished

\* No line of a lent block is dirty, the packets are in memory, and the marker
\* and the target hold what the GPU wrote for this submission, if it did.
MemoryInv ==
  pending =>
    /\ lent \cap dirty = {}
    /\ \A w \in Words \cap lent : mem[w] = sequence
    /\ mem[marker] = IF sequence \in finished THEN sequence ELSE 0
    /\ sequence \in finished => mem[color] = sequence
    /\ \A s \in inflight : s.drawn => mem[color] = sequence

Inv == TypeOK /\ BridgeInv /\ LentInv /\ FlightInv /\ MemoryInv

-----------------------------------------------------------------------------

LEMMA InitInv == Init => Inv
<1> SUFFICES ASSUME Init PROVE Inv
  OBVIOUS
<1>1. TypeOK
  <2>1. 0 \in Value /\ 0 \in Timeout
    BY BoundsAssumption DEF Value, Timeout
  <2>2. mem \in [Block -> Value] /\ cache \in [Block -> Value \cup {NoLine}]
    BY <2>1 DEF Init
  <2> QED
    BY <2>1, <2>2 DEF Init, TypeOK, Position
<1>2. BridgeInv
  BY DEF Init, BridgeInv
<1>3. LentInv /\ FlightInv /\ MemoryInv
  BY DEF Init, LentInv, FlightInv, MemoryInv, InFlightIsRetained
<1> QED
  BY <1>1, <1>2, <1>3 DEF Inv

\* A flush keeps memory, cache and dirty set well typed.
LEMMA FlushType ==
  ASSUME NEW B \in SUBSET Block, NEW lines \in [Block -> Value \cup {NoLine}],
         NEW D \in SUBSET {b \in Block : lines[b] # NoLine},
         mem \in [Block -> Value], Flush(B, lines, D)
  PROVE  /\ mem' \in [Block -> Value]
         /\ cache' \in [Block -> Value \cup {NoLine}]
         /\ dirty' \subseteq {b \in Block : cache'[b] # NoLine}
<1>1. \A b \in D : lines[b] \in Value
  OBVIOUS
<1> QED
  BY <1>1 DEF Flush

LEMMA NextType == Inv /\ [Next]_vars => TypeOK'
<1> SUFFICES ASSUME Inv, [Next]_vars
             PROVE  TypeOK'
  OBVIOUS
<1> USE DEF Inv, Result, Position
<1>1. CASE Lifecycle
  BY <1>1 DEF Lifecycle, CreateAgain, OpenAgc, Destroy, MayDestroy, OpenDriver,
              Resolve, InitAgc, TypeOK, gpuside, bridge, memory
<1>2. ASSUME NEW w \in Words, NEW m \in Marker, NEW c \in Color, NEW t \in Timeout,
             BeginSubmit(w, m, c, t)
      PROVE  TypeOK'
  <2>1. {w, m, c} \in SUBSET Block
    BY DEF Block
  <2>2. sequence + 1 \in Value /\ 0 \in Value
    BY <1>2, BoundsAssumption DEF BeginSubmit, MaySubmit, TypeOK, Value
  <2> DEFINE lines == Stores(w, m, sequence + 1)
  <2>3. /\ lines \in [Block -> Value \cup {NoLine}]
        /\ dirty \cup {w, m} \in SUBSET {b \in Block : lines[b] # NoLine}
    BY <2>1, <2>2, NoLineAssumption DEF Stores, TypeOK
  <2>4. Flush({w, m, c}, lines, dirty \cup {w, m})
    BY <1>2 DEF BeginSubmit, SubmitFlush
  <2>5. /\ mem' \in [Block -> Value]
        /\ cache' \in [Block -> Value \cup {NoLine}]
        /\ dirty' \subseteq {b \in Block : cache'[b] # NoLine}
    <3> HIDE DEF lines
    <3> QED BY <2>1, <2>3, <2>4, FlushType DEF TypeOK
  <2> QED
    BY <1>2, <2>1, <2>2, <2>5 DEF BeginSubmit, TypeOK, gpuside
<1>3. ASSUME NEW w \in Words, NEW accepted \in BOOLEAN, NEW rc \in Result,
             DriverSubmit(w, accepted, rc)
      PROVE  TypeOK'
  <2>1. Retained(w) \in Submission
    BY <1>3 DEF DriverSubmit, Retained, Submission, BridgeInv, TypeOK, Value
  <2> QED
    BY <1>3, <2>1 DEF DriverSubmit, TypeOK, bridge, memory
<1>4. ASSUME NEW rc \in Result, SuspendPoint(rc)
      PROVE  TypeOK'
  BY <1>4 DEF SuspendPoint, TypeOK, bridge, memory, gpuside
<1>5. ASSUME NEW t \in Timeout, BeginWait(t)
      PROVE  TypeOK'
  BY <1>5 DEF BeginWait, TypeOK, bridge, memory, gpuside
<1>6. CASE PollCompleted
  <2>1. {marker, color} \in SUBSET Block
    BY <1>6 DEF PollCompleted, BridgeInv, Block
  <2> QED
    BY <1>6, <2>1, FlushType DEF PollCompleted, CompletionFlush, TypeOK, gpuside
<1>7. CASE PollAgain
  <2>1. {marker} \in SUBSET Block
    BY <1>7 DEF PollAgain, BridgeInv, Block
  <2>2. attempts' \in Timeout
    BY <1>7, BoundsAssumption DEF PollAgain, TypeOK, Timeout
  <2> QED
    BY <1>7, <2>1, <2>2, FlushType DEF PollAgain, TypeOK, gpuside, bridge
<1>8. ASSUME NEW s \in inflight, GpuDraw(s)
      PROVE  TypeOK'
  <2>1. s \in Submission /\ [s EXCEPT !.drawn = TRUE] \in Submission
    BY DEF TypeOK, Submission
  <2>2. mem[s.words] \in Value
    BY <2>1 DEF TypeOK, Submission, Block
  <2> QED
    BY <1>8, <2>1, <2>2 DEF GpuDraw, TypeOK, bridge
<1>9. ASSUME NEW s \in inflight, GpuComplete(s)
      PROVE  TypeOK'
  <2>1. s.words \in Block /\ s.seq \in Value
    BY DEF TypeOK, Submission, Block, Value
  <2> QED
    BY <1>9, <2>1 DEF GpuComplete, TypeOK, bridge
<1>10. ASSUME NEW b \in Block, Prefetch(b) \/ Evict(b)
       PROVE  TypeOK'
  <2>1. CASE Prefetch(b)
    BY <2>1, NoLineAssumption DEF Prefetch, TypeOK, bridge, gpuside
  <2>2. CASE Evict(b)
    BY <2>2 DEF Evict, TypeOK, bridge, gpuside
  <2> QED BY <1>10, <2>1, <2>2
<1>11. ASSUME NEW b \in Block, NEW v \in Value, CallerWrite(b, v)
       PROVE  TypeOK'
  BY <1>11, NoLineAssumption DEF CallerWrite, TypeOK, bridge, gpuside
<1>12. CASE UNCHANGED vars
  BY <1>12 DEF vars, TypeOK, bridge, gpuside, memory
<1> QED
  BY <1>1, <1>2, <1>3, <1>4, <1>5, <1>6, <1>7, <1>8, <1>9, <1>10, <1>11, <1>12
     DEF Next, Submit, Wait, Gpu, Environment

\* Create and destroy leave everything alone that a submission depends on, and
\* never deactivate the instance under one.
LEMMA LifecycleFrame ==
  ASSUME Lifecycle
  PROVE  /\ UNCHANGED <<sequence, pending, marker, color, lent, gpuside, memory>>
         /\ pc' \in {"idle", "open_driver", "resolve", "init"}
         /\ active /\ pending => active'
<1>1. CASE CreateAgain \/ OpenAgc \/ Destroy
  BY <1>1 DEF CreateAgain, OpenAgc, Destroy, MayDestroy, bridge
<1>2. ASSUME NEW found \in BOOLEAN, OpenDriver(found) \/ Resolve(found)
      PROVE  /\ UNCHANGED <<sequence, pending, marker, color, lent, gpuside, memory>>
             /\ pc' \in {"idle", "open_driver", "resolve", "init"}
             /\ active /\ pending => active'
  BY <1>2 DEF OpenDriver, Resolve, bridge
<1>3. ASSUME NEW rc \in Result, InitAgc(rc)
      PROVE  /\ UNCHANGED <<sequence, pending, marker, color, lent, gpuside, memory>>
             /\ pc' \in {"idle", "open_driver", "resolve", "init"}
             /\ active /\ pending => active'
  BY <1>3 DEF InitAgc
<1> QED
  BY <1>1, <1>2, <1>3 DEF Lifecycle

LEMMA NextBridge == Inv /\ [Next]_vars => BridgeInv' /\ LentInv'
<1> SUFFICES ASSUME Inv, [Next]_vars
             PROVE  BridgeInv' /\ LentInv'
  OBVIOUS
<1> USE DEF Inv, Result, BridgeInv, LentInv
<1>1. CASE Lifecycle
  <2>1. LentInv'
    BY <1>1, LifecycleFrame
  <2>2. CASE CreateAgain \/ Destroy
    BY <2>1, <2>2 DEF CreateAgain, Destroy, MayDestroy, TypeOK
  <2>6. CASE OpenAgc
    <3>1. loaded = {} /\ loaded' = {"agc"}
      BY <2>6 DEF OpenAgc
    <3> QED
      BY <2>1, <2>6, <3>1 DEF OpenAgc, bridge
  <2>3. ASSUME NEW found \in BOOLEAN, OpenDriver(found)
        PROVE  BridgeInv' /\ LentInv'
    BY <2>1, <2>3 DEF OpenDriver, bridge, TypeOK
  <2>4. ASSUME NEW found \in BOOLEAN, Resolve(found)
        PROVE  BridgeInv' /\ LentInv'
    BY <2>1, <2>4 DEF Resolve, bridge, TypeOK
  <2>5. ASSUME NEW rc \in Result, InitAgc(rc)
        PROVE  BridgeInv' /\ LentInv'
    BY <2>1, <2>5 DEF InitAgc, TypeOK
  <2> QED
    BY <1>1, <2>2, <2>3, <2>4, <2>5, <2>6 DEF Lifecycle
<1>2. ASSUME NEW w \in Words, NEW m \in Marker, NEW c \in Color, NEW t \in Timeout,
             BeginSubmit(w, m, c, t)
      PROVE  BridgeInv' /\ LentInv'
  <2>1. sequence' > 0
    BY <1>2 DEF BeginSubmit, TypeOK, Value
  <2> QED
    BY <1>2, <2>1 DEF BeginSubmit, MaySubmit
<1>3. ASSUME NEW w \in Words, NEW accepted \in BOOLEAN, NEW rc \in Result,
             DriverSubmit(w, accepted, rc)
      PROVE  BridgeInv' /\ LentInv'
  BY <1>3 DEF DriverSubmit, bridge
<1>4. ASSUME NEW rc \in Result, SuspendPoint(rc)
      PROVE  BridgeInv' /\ LentInv'
  BY <1>4 DEF SuspendPoint, bridge
<1>5. ASSUME NEW t \in Timeout, BeginWait(t)
      PROVE  BridgeInv' /\ LentInv'
  BY <1>5 DEF BeginWait, bridge
<1>6. CASE PollCompleted
  BY <1>6 DEF PollCompleted
<1>7. CASE PollAgain
  BY <1>7 DEF PollAgain, bridge
<1>8. CASE Gpu
  BY <1>8 DEF Gpu, GpuDraw, GpuComplete, bridge
<1>9. CASE Environment
  BY <1>9 DEF Environment, Prefetch, Evict, CallerWrite, bridge
<1>10. CASE UNCHANGED vars
  BY <1>10 DEF vars, bridge
<1> QED
  BY <1>1, <1>2, <1>3, <1>4, <1>5, <1>6, <1>7, <1>8, <1>9, <1>10
     DEF Next, Submit, Wait

LEMMA NextFlight == Inv /\ [Next]_vars => FlightInv'
<1> SUFFICES ASSUME Inv, [Next]_vars
             PROVE  FlightInv'
  OBVIOUS
<1> USE DEF Inv, Result, FlightInv, InFlightIsRetained
<1>1. CASE Lifecycle
  BY <1>1, LifecycleFrame DEF gpuside, BridgeInv
<1>2. ASSUME NEW w \in Words, NEW m \in Marker, NEW c \in Color, NEW t \in Timeout,
             BeginSubmit(w, m, c, t)
      PROVE  FlightInv'
  <2>1. inflight = {} /\ finished \subseteq 1 .. sequence /\ sequence \in Nat
    BY <1>2 DEF BeginSubmit, MaySubmit, TypeOK, Value
  <2>2. finished \subseteq 1 .. (sequence + 1) /\ sequence + 1 \notin finished
    BY <2>1
  <2> QED
    BY <1>2, <2>1, <2>2 DEF BeginSubmit, gpuside
<1>3. ASSUME NEW w \in Words, NEW accepted \in BOOLEAN, NEW rc \in Result,
             DriverSubmit(w, accepted, rc)
      PROVE  FlightInv'
  <2>1. inflight = {} /\ inflight' \subseteq {Retained(w)}
    BY <1>3 DEF DriverSubmit
  <2>2. /\ Retained(w).words \in lent /\ Retained(w).seq = sequence
        /\ Retained(w).marker = marker /\ Retained(w).color = color
    BY <1>3 DEF DriverSubmit, Retained
  <2> QED
    BY <1>3, <2>1, <2>2 DEF DriverSubmit, bridge, BridgeInv
<1>4. ASSUME NEW rc \in Result, SuspendPoint(rc)
      PROVE  FlightInv'
  BY <1>4 DEF SuspendPoint, bridge, gpuside
<1>5. ASSUME NEW t \in Timeout, BeginWait(t)
      PROVE  FlightInv'
  BY <1>5 DEF BeginWait, bridge, gpuside
<1>6. CASE PollCompleted
  <2>1. mem[marker] = sequence /\ sequence # 0
    BY <1>6 DEF PollCompleted, Polled, Flushed, MemoryInv, LentInv, BridgeInv,
                TypeOK, Value
  <2>2. inflight = {}
    BY <1>6, <2>1 DEF PollCompleted, MemoryInv, BridgeInv
  <2> QED
    BY <1>6, <2>2 DEF PollCompleted, gpuside
<1>7. CASE PollAgain
  BY <1>7 DEF PollAgain, bridge, gpuside
<1>8. ASSUME NEW s \in inflight, GpuDraw(s)
      PROVE  FlightInv'
  <2>1. inflight' = {[s EXCEPT !.drawn = TRUE]}
    BY <1>8 DEF GpuDraw
  <2>2. s \in Submission
    BY DEF TypeOK
  <2> QED
    BY <1>8, <2>1, <2>2 DEF GpuDraw, bridge, Submission
<1>9. ASSUME NEW s \in inflight, GpuComplete(s)
      PROVE  FlightInv'
  <2>1. inflight' = {} /\ s.seq = sequence /\ sequence > 0
    BY <1>9 DEF GpuComplete, BridgeInv
  <2>2. finished' \subseteq 1 .. sequence
    BY <1>9, <2>1 DEF GpuComplete, TypeOK, Value
  <2>3. pc # "submit"
    OBVIOUS
  <2> QED
    BY <1>9, <2>1, <2>2, <2>3 DEF GpuComplete, bridge
<1>10. CASE Environment
  <2>1. UNCHANGED <<pc, bridge, lent, gpuside>>
    BY <1>10 DEF Environment, Prefetch, Evict, CallerWrite
  <2> QED
    BY <2>1 DEF bridge, gpuside
<1>11. CASE UNCHANGED vars
  BY <1>11 DEF vars, bridge, gpuside
<1> QED
  BY <1>1, <1>2, <1>3, <1>4, <1>5, <1>6, <1>7, <1>8, <1>9, <1>10, <1>11
     DEF Next, Submit, Wait, Gpu

LEMMA NextMemory == Inv /\ [Next]_vars => MemoryInv'
<1> SUFFICES ASSUME Inv, [Next]_vars
             PROVE  MemoryInv'
  OBVIOUS
<1> USE DEF Inv, Result, MemoryInv
<1>1. CASE Lifecycle
  <2>1. UNCHANGED <<sequence, pending, marker, color, lent, inflight, finished,
                    mem, dirty>>
    BY <1>1, LifecycleFrame DEF gpuside, memory
  <2> QED
    BY <2>1
<1>2. ASSUME NEW w \in Words, NEW m \in Marker, NEW c \in Color, NEW t \in Timeout,
             BeginSubmit(w, m, c, t)
      PROVE  MemoryInv'
  <2>1. /\ {w, m, c} \in SUBSET Block /\ m # w /\ m # c /\ c # w
        /\ Words \cap {w, m, c} = {w}
    BY BlocksAssumption DEF Block
  <2>2. inflight' = {} /\ lent' = {w, m, c} /\ sequence' \notin finished'
    BY <1>2 DEF BeginSubmit, MaySubmit, gpuside, LentInv, FlightInv,
                InFlightIsRetained, TypeOK, Value
  <2>3. mem'[w] = sequence' /\ mem'[m] = 0 /\ dirty' \cap {w, m, c} = {}
    BY <1>2, <2>1 DEF BeginSubmit, SubmitFlush, Flush, Stores, TypeOK
  <2> QED
    BY <1>2, <2>1, <2>2, <2>3 DEF BeginSubmit
<1>3. ASSUME NEW w \in Words, NEW accepted \in BOOLEAN, NEW rc \in Result,
             DriverSubmit(w, accepted, rc)
      PROVE  MemoryInv'
  <2>1. \A s \in inflight' : s = Retained(w)
    BY <1>3 DEF DriverSubmit, FlightInv
  <2>2. ~Retained(w).drawn
    BY DEF Retained
  <2> QED
    BY <1>3, <2>1, <2>2 DEF DriverSubmit, bridge, memory
<1>4. ASSUME NEW rc \in Result, SuspendPoint(rc)
      PROVE  MemoryInv'
  BY <1>4 DEF SuspendPoint, bridge, gpuside, memory
<1>5. ASSUME NEW t \in Timeout, BeginWait(t)
      PROVE  MemoryInv'
  BY <1>5 DEF BeginWait, bridge, gpuside, memory
<1>6. CASE PollCompleted
  BY <1>6 DEF PollCompleted
<1>7. CASE PollAgain
  <2>1. marker \notin dirty
    BY <1>7 DEF PollAgain, BridgeInv, LentInv
  <2>2. mem' = mem /\ dirty' \subseteq dirty
    BY <1>7, <2>1 DEF PollAgain, Flush, TypeOK
  <2> QED
    BY <1>7, <2>2 DEF PollAgain, bridge, gpuside
<1>8. ASSUME NEW s \in inflight, GpuDraw(s)
      PROVE  MemoryInv'
  <2>1. /\ pending /\ s.color = color /\ s.words \in lent \cap Words
        /\ marker \in Marker /\ color \in Color
    BY DEF FlightInv, InFlightIsRetained, BridgeInv, TypeOK, Submission
  <2>2. mem' = [mem EXCEPT ![color] = sequence]
    BY <1>8, <2>1 DEF GpuDraw
  <2>3. /\ mem'[marker] = mem[marker] /\ mem'[color] = sequence
        /\ \A w \in Words : mem'[w] = mem[w]
    BY <2>1, <2>2, BlocksAssumption DEF TypeOK, Block
  <2> QED
    BY <1>8, <2>1, <2>3 DEF GpuDraw, bridge
<1>9. ASSUME NEW s \in inflight, GpuComplete(s)
      PROVE  MemoryInv'
  <2>1. /\ pending /\ s.marker = marker /\ s.words \in lent \cap Words
        /\ s.seq = sequence /\ marker \in Marker /\ color \in Color
        /\ mem[color] = sequence
    BY <1>9 DEF FlightInv, InFlightIsRetained, BridgeInv, TypeOK, Submission,
                GpuComplete
  <2>2. mem' = [mem EXCEPT ![marker] = sequence]
    BY <1>9, <2>1 DEF GpuComplete
  <2>3. /\ mem'[marker] = sequence /\ mem'[color] = mem[color]
        /\ \A w \in Words : mem'[w] = mem[w]
    BY <2>1, <2>2, BlocksAssumption DEF TypeOK, Block
  <2>4. sequence \in finished' /\ inflight' \subseteq inflight
    BY <1>9, <2>1 DEF GpuComplete
  <2> QED
    BY <1>9, <2>1, <2>3, <2>4 DEF GpuComplete, bridge, FlightInv
<1>10. ASSUME NEW b \in Block, Prefetch(b)
       PROVE  MemoryInv'
  BY <1>10 DEF Prefetch, bridge, gpuside
<1>11. ASSUME NEW b \in Block, Evict(b)
       PROVE  MemoryInv'
  <2>1. pending => marker \in lent /\ color \in lent
    BY DEF LentInv
  <2>2. /\ pending => \A x \in lent : mem'[x] = mem[x]
        /\ dirty' \subseteq dirty
    BY <1>11 DEF Evict, TypeOK
  <2> QED
    BY <1>11, <2>1, <2>2 DEF Evict, bridge, gpuside
<1>12. ASSUME NEW b \in Block, NEW v \in Value, CallerWrite(b, v)
       PROVE  MemoryInv'
  BY <1>12 DEF CallerWrite, bridge, gpuside
<1>13. CASE UNCHANGED vars
  BY <1>13 DEF vars, bridge, gpuside, memory
<1> QED
  BY <1>1, <1>2, <1>3, <1>4, <1>5, <1>6, <1>7, <1>8, <1>9, <1>10, <1>11, <1>12,
     <1>13 DEF Next, Submit, Wait, Gpu, Environment

LEMMA NextInv == Inv /\ [Next]_vars => Inv'
  BY NextType, NextBridge, NextFlight, NextMemory DEF Inv

LEMMA Invariance == Spec => []Inv
  BY InitInv, NextInv, PTL DEF Spec

-----------------------------------------------------------------------------
(* What the bridge's callers rely on.                                      *)

\* The variables of the instance keep their types, the dirty lines are lines.
THEOREM TypeCorrect == Spec => []TypeOK
  BY Invariance, PTL DEF Inv

\* openagc_ps5_gpu_submit_draw, _wait and _destroy never lose track of work the
\* GPU may still do, whatever the driver answers and whoever gives up waiting.
THEOREM NothingIsLost == Spec => []InFlightIsRetained
<1>1. Inv => InFlightIsRetained
  BY DEF Inv, FlightInv
<1> QED
  BY <1>1, Invariance, PTL

\* A poll of openagc_ps5_gpu_wait never meets a foreign marker value, so its
\* INTEGRITY result is reserved for memory the caller itself misused.
THEOREM MarkerIntegrity == Spec => []MarkerIsOwn
<1>1. Inv => MarkerIsOwn
  <2>1. Inv /\ pc = "poll" => Polled \in {0, sequence}
    BY DEF Inv, MemoryInv, BridgeInv, LentInv, Polled, Flushed
  <2>2. Inv /\ pc = "poll" => sequence \in 1 .. MaxSequence
    BY BoundsAssumption DEF Inv, TypeOK, BridgeInv, Value
  <2> QED
    BY <2>1, <2>2 DEF MarkerIsOwn
<1> QED
  BY <1>1, Invariance, PTL

\* openagc_ps5_gpu_create either takes both modules or leaves none open.
THEOREM ModuleBalance == Spec => []NoModuleLeaks
<1>1. Inv => NoModuleLeaks
  BY DEF Inv, NoModuleLeaks, BridgeInv
<1> QED
  BY <1>1, Invariance, PTL

\* Only a poll that read the sequence clears pending; the event then happened,
\* nothing is in flight, and the target in memory holds this submission's pixels.
LEMMA Completion ==
  ASSUME Inv, [Next]_vars, pending, ~pending'
  PROVE  /\ PollCompleted /\ sequence \in finished /\ inflight = {}
         /\ color \in Color \ dirty /\ mem[color] = sequence
<1>1. PollCompleted
  <2>1. ~Lifecycle
    BY LifecycleFrame
  <2>2. ~Submit
    BY DEF Submit, BeginSubmit, DriverSubmit, SuspendPoint, bridge
  <2>3. ~Gpu /\ ~Environment /\ ~UNCHANGED vars
    BY DEF Gpu, GpuDraw, GpuComplete, Environment, Prefetch, Evict, CallerWrite,
           bridge, vars
  <2> QED
    BY <2>1, <2>2, <2>3 DEF Next, Wait, BeginWait, PollAgain, bridge
<1>2. marker \in lent /\ color \in lent /\ lent \cap dirty = {} /\ color \in Color
  BY DEF Inv, LentInv, MemoryInv, BridgeInv
<1>3. mem[marker] = sequence /\ sequence # 0
  BY <1>1, <1>2 DEF PollCompleted, Polled, Flushed, Inv, BridgeInv, TypeOK, Value
<1>4. sequence \in finished
  BY <1>3 DEF Inv, MemoryInv
<1> QED
  BY <1>1, <1>2, <1>4 DEF Inv, MemoryInv, FlightInv

\* openagc_ps5_gpu_wait reports completion of nothing but finished work.
THEOREM CompletionSound == Spec => CompletionIsReal
<1>1. Inv /\ [Next]_vars => [pending /\ ~pending' => sequence \in finished]_vars
  BY Completion
<1> QED
  BY <1>1, Invariance, PTL DEF Spec, CompletionIsReal

\* After openagc_ps5_gpu_wait the CPU loads the pixels of that submission.
THEOREM PixelVisibility == Spec => PixelsAreVisible
<1>1. ASSUME Inv, [Next]_vars, NEW c \in Color, pending, ~pending', c = color
      PROVE  CpuView(c)' = sequence
  <2>1. PollCompleted /\ c \in Block \ dirty /\ mem[c] = sequence
    BY <1>1, Completion DEF Block
  <2>2. mem'[c] = sequence /\ cache'[c] = NoLine
    BY <1>1, <2>1 DEF PollCompleted, CompletionFlush, Flush
  <2> QED
    BY <2>2 DEF CpuView
<1>2. Inv /\ [Next]_vars =>
        [\A c \in Color : pending /\ ~pending' /\ c = color => CpuView(c)' = sequence]_vars
  BY <1>1
<1> QED
  BY <1>2, Invariance, PTL DEF Spec, PixelsAreVisible

-----------------------------------------------------------------------------
(* The bridge implements the lease.                                        *)

\* The blocks that accepted submissions will still access.
Busy == UNION {{s.words, s.marker, s.color} : s \in inflight}

\* Busy memory is lent: it belongs to the one retained submission.
LEMMA BusyLent == Inv => Busy \subseteq lent
<1> SUFFICES ASSUME Inv, NEW s \in inflight
             PROVE  {s.words, s.marker, s.color} \subseteq lent
  BY DEF Busy
<1> QED
  BY DEF Inv, FlightInv, InFlightIsRetained, LentInv

LEMMA LeaseInit == Init => Lease!Init
  BY DEF Init, Lease!Init

\* Every step lends, starts, finishes or returns blocks, or stutters.
LEMMA LeaseStep ==
  Inv /\ [Next]_vars => [Lease!Next]_<<lent, Busy>>
<1> SUFFICES ASSUME Inv, [Next]_vars
             PROVE  Lease!Next \/ UNCHANGED <<lent, Busy>>
  BY DEF Busy
<1> USE DEF Busy, Lease!Next, Lease!Lend, Lease!Start, Lease!Finish, Lease!Return
<1>1. CASE Lifecycle
  BY <1>1, LifecycleFrame DEF gpuside
<1>2. ASSUME NEW w \in Words, NEW m \in Marker, NEW c \in Color, NEW t \in Timeout,
             BeginSubmit(w, m, c, t)
      PROVE  Lease!Next
  <2>1. {w, m, c} \in SUBSET Block
    BY DEF Block
  <2>2. Lease!Lend({w, m, c})
    BY <1>2 DEF BeginSubmit, gpuside
  <2> QED
    BY <2>1, <2>2
<1>3. ASSUME NEW w \in Words, NEW accepted \in BOOLEAN, NEW rc \in Result,
             DriverSubmit(w, accepted, rc)
      PROVE  Lease!Next \/ UNCHANGED <<lent, Busy>>
  <2> DEFINE B == {w, marker, color}
  <2>1. B \in SUBSET Block /\ B \subseteq lent
    BY <1>3 DEF DriverSubmit, Inv, BridgeInv, LentInv, Block
  <2>2. Busy = {} /\ lent' = lent /\ inflight' = IF accepted THEN {Retained(w)} ELSE {}
    BY <1>3 DEF DriverSubmit, Inv, FlightInv
  <2>3. accepted => Busy' = B
    BY <2>2 DEF Retained
  <2>4. accepted => Lease!Start(B)
    BY <2>1, <2>2, <2>3
  <2>5. ~accepted => UNCHANGED <<lent, Busy>>
    BY <1>3 DEF DriverSubmit
  <2> QED
    BY <2>1, <2>4, <2>5
<1>4. CASE \E rc \in Result : SuspendPoint(rc)
  BY <1>4 DEF SuspendPoint, gpuside
<1>5. CASE \E t \in Timeout : BeginWait(t)
  BY <1>5 DEF BeginWait, gpuside
<1>6. CASE PollCompleted
  <2>1. Busy = {} /\ Busy' = {}
    BY <1>6, Completion DEF PollCompleted, gpuside, Inv, BridgeInv
  <2>2. Lease!Return(lent)
    BY <1>6, <2>1 DEF PollCompleted
  <2> QED
    BY <2>2 DEF Inv, TypeOK
<1>7. CASE PollAgain
  BY <1>7 DEF PollAgain, gpuside
<1>8. ASSUME NEW s \in inflight, GpuDraw(s)
      PROVE  UNCHANGED <<lent, Busy>>
  <2> DEFINE t == [s EXCEPT !.drawn = TRUE]
  <2>1. inflight = {s} /\ inflight' = {t} /\ lent' = lent
    BY <1>8 DEF GpuDraw, Inv, FlightInv
  <2>2. t.words = s.words /\ t.marker = s.marker /\ t.color = s.color
    BY DEF Inv, TypeOK, Submission
  <2> HIDE DEF t
  <2> QED
    BY <2>1, <2>2
<1>9. ASSUME NEW s \in inflight, GpuComplete(s)
      PROVE  Lease!Next
  <2>1. inflight = {s} /\ inflight' = {} /\ lent' = lent
    BY <1>9 DEF GpuComplete, Inv, FlightInv
  <2>2. Busy \in SUBSET Block
    BY BusyLent DEF Inv, TypeOK
  <2>3. Lease!Finish(Busy)
    BY <2>1
  <2> QED
    BY <2>2, <2>3
<1>10. CASE Environment
  BY <1>10 DEF Environment, Prefetch, Evict, CallerWrite, gpuside
<1>11. CASE UNCHANGED vars
  BY <1>11 DEF vars, gpuside
<1> QED
  BY <1>1, <1>2, <1>3, <1>4, <1>5, <1>6, <1>7, <1>8, <1>9, <1>10, <1>11
     DEF Next, Submit, Wait, Gpu

\* The bridge implements MemoryLease: submit_draw lends the draw's blocks, wait
\* returns them, and the GPU accesses lent memory only.
THEOREM LeaseImplemented == Spec => LeaseSpec
<1>1. Inv /\ [Next]_vars => [Lease!Next]_<<lent, UNION {{s.words, s.marker, s.color} : s \in inflight}>>
  BY LeaseStep DEF Busy
<1> QED
  BY <1>1, LeaseInit, Invariance, PTL DEF Spec, LeaseSpec, Lease!Spec

\* The GPU accesses nothing the caller of openagc_ps5_gpu may be reusing.
THEOREM GpuAccessesLentMemory == Spec => []Lease!BusyIsLent
<1>1. Inv => Lease!BusyIsLent
  BY BusyLent DEF Busy, Lease!BusyIsLent
<1> QED
  BY <1>1, Invariance, PTL

=============================================================================
