--------------------------- MODULE VideoOutProofs ---------------------------
(***************************************************************************)
(* Machine-checked safety of presentation, for any devices, commands and   *)
(* bounds.  The inductive invariant: the two buffers alternate, so the one *)
(* that is drawn is neither on the screen nor about to be; what the screen *)
(* shows or will show is the same in the cache and in memory, so that no   *)
(* write-back changes it; and a view is of a completed frame, which no     *)
(* call but the two that invalidate the view can change.  At the end, the  *)
(* layout: the words of two pixels differ, because from the bits of a word *)
(* those of x and of y can be read off one by one.                         *)
(***************************************************************************)
EXTENDS MCVideoOut, TLAPS, SequenceTheorems, FiniteSetTheorems

View == [device : Device, size : Size, command_count : 0 .. MaxCommands, taken : Picture]

\* The recorder's types: the commands that count have been recorded, and the
\* context has as many devices as it counts.
RecorderInv ==
  /\ device \in [Device -> State \cup {Nothing}]
  /\ \A d \in Live : \A n \in 1 .. device[d].command_count : device[d].commands[n] \in Command
  /\ view \in View \cup {Nothing}
  /\ context \in BOOLEAN /\ device_count = Cardinality(Live) /\ (Live # {} => context)

\* A view is of a completed frame, as it was taken.
ViewInv ==
  view # Nothing =>
    /\ view.device \in Live /\ device[view.device].state = "COMPLETED"
    /\ Shown(view.device, view.command_count) = view.taken

\* All is held or nothing, and without a display nothing goes on.
OwnerInv ==
  IF display THEN held = First(Len(Resource))
  ELSE held = {} /\ screen = Nothing /\ pending = << >> /\ pc = "idle"

\* The flips alternate.
FlipInv ==
  /\ pending = << >> \/ \E f \in Flips : pending = <<f>> /\ f.buffer = 1 - next_buffer
  /\ screen # Nothing =>
       screen.buffer = IF pending = << >> THEN 1 - next_buffer ELSE next_buffer

\* What is shown, or will be, is settled in cache and memory.
SettledInv ==
  /\ screen # Nothing =>
       memory[screen.buffer] = screen.frame /\ cpu[screen.buffer] = screen.frame
  /\ \A n \in 1 .. Len(pending) :
       /\ memory[pending[n].buffer] = pending[n].frame
       /\ cpu[pending[n].buffer] = pending[n].frame

\* How far the present in progress is.
CallInv ==
  /\ pc = "vblank" => polls < MaxPolls
  /\ pc \in {"drain", "vblank"} /\ call = "present" => view # Nothing
  /\ pc \in {"clear", "draw", "flush", "submit"} => view # Nothing
  /\ pc \in {"clear", "draw", "flush", "submit", "unregister"} => pending = << >>
  /\ pc \in {"flush", "submit"} => cpu[next_buffer] = view.taken
  /\ pc = "submit" => memory[next_buffer] = view.taken

VInv == VTypeOK /\ RecorderInv /\ ViewInv /\ OwnerInv /\ FlipInv /\ SettledInv /\ CallInv

-----------------------------------------------------------------------------

\* What a view of recorded commands shows is a picture.
LEMMA ShownIsPicture ==
  ASSUME NEW d \in Live, RecorderInv
  PROVE  Shown(d, device[d].command_count) \in Picture
<1> DEFINE s == device[d].commands
           n == device[d].command_count
<1>1. device[d] \in State
  BY DEF RecorderInv, Live
<1>2. n \in 0 .. MaxCommands /\ s \in [1 .. MaxCommands -> Command \cup {Nothing}]
  BY <1>1 DEF State
<1>3. Shown(d, n) = [k \in 1 .. n |-> s[k]]
  BY <1>2, RecorderAssumption DEF Shown
<1>4. \A k \in 1 .. n : s[k] \in Command
  BY DEF RecorderInv
<1>5. Shown(d, n) \in [1 .. n -> Command]
  BY <1>3, <1>4
<1> QED
  BY <1>2, <1>5 DEF Picture

\* Devices that stay, come or go are counted.
LEMMA Counting ==
  ASSUME RecorderInv, NEW d \in Device
  PROVE  /\ Live' = Live => Cardinality(Live') = device_count
         /\ d \notin Live /\ Live' = Live \cup {d} => Cardinality(Live') = device_count + 1
         /\ d \in Live /\ Live' = Live \ {d} => Cardinality(Live') = device_count - 1
<1>1. IsFiniteSet(Live)
  BY RecorderAssumption, FS_Subset DEF Live
<1> QED
  BY <1>1, FS_AddElement, FS_RemoveElement DEF RecorderInv

\* A view survives what leaves its device alone.
LEMMA ViewStays ==
  ASSUME ViewInv, view' \in {view, Nothing},
         view' # Nothing => view.device \in Live' /\ device'[view.device] = device[view.device]
  PROVE  ViewInv'
BY DEF ViewInv, Shown

\* Assignments to fields keep a device's type.
LEMMA Assigned ==
  \A r \in State :
    /\ \A n \in 0 .. MaxCommands : [r EXCEPT !.command_count = n] \in State
    /\ \A f \in Nat : [r EXCEPT !.frame_number = f] \in State
<1>1. ASSUME NEW r \in State, NEW n \in 0 .. MaxCommands
      PROVE  [r EXCEPT !.command_count = n] \in State
  BY DEF State
<1>2. ASSUME NEW r \in State, NEW f \in Nat
      PROVE  [r EXCEPT !.frame_number = f] \in State
  BY DEF State
<1> QED
  BY <1>1, <1>2

LEMMA RecorderStep ==
  ASSUME RecorderInv, ViewInv, RNext
  PROVE  RecorderInv' /\ ViewInv'
<1> USE RecorderAssumption
<1>1. CASE ContextCreate \/ ContextDestroy
  <2>1. UNCHANGED <<device_count, device, view>> /\ context' \in BOOLEAN
    BY <1>1 DEF ContextCreate, ContextDestroy
  <2>2. Live' = Live
    BY <2>1 DEF Live
  <2>3. Live # {} => context'
    BY <1>1, FS_Subset, FS_EmptySet DEF ContextCreate, ContextDestroy, RecorderInv, Live
  <2> QED
    BY <2>1, <2>2, <2>3 DEF RecorderInv, ViewInv, Shown
<1>2. ASSUME NEW d \in Device, NEW s \in Size, DeviceCreate(d, s)
      PROVE  RecorderInv' /\ ViewInv'
  <2>1. Fresh(s) \in State
    BY DEF Fresh, State
  <2>2. device' = [device EXCEPT ![d] = Fresh(s)] /\ device[d] = Nothing
    BY <1>2 DEF DeviceCreate
  <2>3. device' \in [Device -> State \cup {Nothing}] /\ Live' = Live \cup {d} /\ d \notin Live
    BY <2>1, <2>2 DEF RecorderInv, Live
  <2>4. \A e \in Live' : \A n \in 1 .. device'[e].command_count : device'[e].commands[n] \in Command
    BY <2>2, <2>3 DEF RecorderInv, Fresh
  <2>5. Cardinality(Live') = device_count'
    BY <1>2, <2>3, Counting DEF DeviceCreate
  <2>6. ViewInv'
    <3>1. view # Nothing => view.device \in Device
      BY DEF RecorderInv, View
    <3>2. view # Nothing => view.device # d
      BY <2>2 DEF ViewInv, Live
    <3> QED
      BY <1>2, <2>2, <2>3, <3>1, <3>2, ViewStays DEF DeviceCreate, ViewInv, RecorderInv
  <2> QED
    BY <1>2, <2>3, <2>4, <2>5, <2>6 DEF DeviceCreate, RecorderInv
<1>3. ASSUME NEW d \in Device, DeviceDestroy(d)
      PROVE  RecorderInv' /\ ViewInv'
  <2>1. device' = [device EXCEPT ![d] = Nothing] /\ view' = Dropped(d) /\ d \in Live
    BY <1>3 DEF DeviceDestroy, Live
  <2>2. device' \in [Device -> State \cup {Nothing}] /\ Live' = Live \ {d}
    BY <2>1 DEF RecorderInv, Live
  <2>3. \A e \in Live' : device'[e] = device[e] /\ e \in Live
    BY <2>1, <2>2 DEF RecorderInv
  <2>4. Cardinality(Live') = device_count'
    BY <1>3, <2>1, <2>2, Counting DEF DeviceDestroy
  <2>5. view' \in View \cup {Nothing}
    BY <2>1 DEF RecorderInv, Dropped
  <2>6. ViewInv'
    BY <2>1, <2>2, ViewStays DEF RecorderInv, Live, Dropped, ViewInv
  <2> QED
    BY <1>3, <2>2, <2>3, <2>4, <2>5, <2>6 DEF DeviceDestroy, RecorderInv
<1>4. ASSUME NEW d \in Device, Begin(d)
      PROVE  RecorderInv' /\ ViewInv'
  <2>1. device[d] \in State /\ d \in Live
    BY <1>4 DEF Begin, RecorderInv, Live
  <2>2. device' = [device EXCEPT ![d] = [@ EXCEPT !.state = "RECORDING", !.command_count = 0]]
    BY <1>4 DEF Begin
  <2>3. device'[d] \in State /\ device' \in [Device -> State \cup {Nothing}]
    <3>1. PICK q \in State : q = [device[d] EXCEPT !.state = "RECORDING"]
      BY <2>1 DEF State
    <3>2. [q EXCEPT !.command_count = 0] \in State
      BY Assigned
    <3>3. device'[d] = [q EXCEPT !.command_count = 0]
      BY <2>2, <3>1 DEF RecorderInv
    <3> QED
      BY <2>2, <3>2, <3>3 DEF RecorderInv
  <2>4. Live' = Live
    BY <2>1, <2>2, <2>3 DEF Live, RecorderInv
  <2>5. \A e \in Live' : \A n \in 1 .. device'[e].command_count : device'[e].commands[n] \in Command
    BY <2>1, <2>2, <2>4 DEF RecorderInv, State
  <2>6. view' = Dropped(d) /\ UNCHANGED <<context, device_count>>
    BY <1>4 DEF Begin
  <2>7. view' \in View \cup {Nothing}
    BY <2>6 DEF RecorderInv, Dropped
  <2>8. ViewInv'
    BY <2>2, <2>4, <2>6, ViewStays DEF RecorderInv, Live, Dropped, ViewInv
  <2> QED
    BY <2>3, <2>4, <2>5, <2>6, <2>7, <2>8 DEF RecorderInv
<1>5. ASSUME NEW d \in Device, NEW c \in Command, Record(d, c)
      PROVE  RecorderInv' /\ ViewInv'
  <2> DEFINE n == device[d].command_count + 1
  <2>1. device[d] \in State /\ d \in Live
    BY <1>5 DEF Record, RecorderInv, Live
  <2>2. device' = [device EXCEPT ![d] = [@ EXCEPT !.commands[n] = c, !.command_count = n]]
    BY <1>5 DEF Record
  <2>3. n \in 1 .. MaxCommands
    BY <1>5, <2>1 DEF Record, HasRoom, State
  <2>4. device'[d] \in State /\ device' \in [Device -> State \cup {Nothing}]
    <3>1. PICK q \in State : q = [device[d] EXCEPT !.commands[n] = c]
      BY <2>1, <2>3 DEF State
    <3>2. [q EXCEPT !.command_count = n] \in State
      BY <2>3, Assigned
    <3>3. device'[d] = [q EXCEPT !.command_count = n]
      BY <2>2, <3>1 DEF RecorderInv
    <3> QED
      BY <2>2, <3>2, <3>3 DEF RecorderInv
  <2>5. Live' = Live
    BY <2>1, <2>2, <2>4 DEF Live, RecorderInv
  <2>6. \A k \in 1 .. device'[d].command_count : device'[d].commands[k] \in Command
    BY <2>1, <2>2, <2>3 DEF RecorderInv, State
  <2>7. \A e \in Live' : \A k \in 1 .. device'[e].command_count : device'[e].commands[k] \in Command
    BY <2>2, <2>5, <2>6 DEF RecorderInv
  <2>8. UNCHANGED <<context, device_count, view>>
    BY <1>5 DEF Record
  <2>9. ViewInv'
    BY <1>5, <2>2, <2>5, <2>8, ViewStays DEF Record, MayRecord, RecorderInv, Live, ViewInv
  <2> QED
    BY <2>4, <2>5, <2>7, <2>8, <2>9 DEF RecorderInv
<1>6. ASSUME NEW d \in Device, Finish(d)
      PROVE  RecorderInv' /\ ViewInv'
  <2>1. device[d] \in State /\ d \in Live
    BY <1>6 DEF Finish, RecorderInv, Live
  <2>2. device' = [device EXCEPT ![d] = [@ EXCEPT !.state = "COMPLETED", !.frame_number = Presented(d)]]
    BY <1>6 DEF Finish
  <2>3. device'[d] \in State /\ device' \in [Device -> State \cup {Nothing}]
    <3>1. PICK q \in State : q = [device[d] EXCEPT !.state = "COMPLETED"]
      BY <2>1 DEF State
    <3>2. [q EXCEPT !.frame_number = Presented(d)] \in State
      <4>1. Presented(d) \in Nat
        BY <2>1 DEF Presented, State
      <4> QED
        BY <4>1, Assigned
    <3>3. device'[d] = [q EXCEPT !.frame_number = Presented(d)]
      BY <2>2, <3>1 DEF RecorderInv
    <3> QED
      BY <2>2, <3>2, <3>3 DEF RecorderInv
  <2>4. Live' = Live
    BY <2>1, <2>2, <2>3 DEF Live, RecorderInv
  <2>5. \A e \in Live' : \A n \in 1 .. device'[e].command_count : device'[e].commands[n] \in Command
    BY <2>1, <2>2, <2>4 DEF RecorderInv, State
  <2>6. UNCHANGED <<context, device_count, view>>
    BY <1>6 DEF Finish
  <2>7. ViewInv'
    BY <1>6, <2>2, <2>4, <2>6, ViewStays DEF Finish, MayRecord, RecorderInv, Live, ViewInv
  <2> QED
    BY <2>3, <2>4, <2>5, <2>6, <2>7 DEF RecorderInv
<1>7. ASSUME NEW d \in Device, GetLastFrame(d)
      PROVE  RecorderInv' /\ ViewInv'
  <2>1. device[d] \in State /\ d \in Live
    BY <1>7 DEF GetLastFrame, RecorderInv, Live
  <2>2. view' = [device |-> d, size |-> device[d].size,
                 command_count |-> device[d].command_count,
                 taken |-> Shown(d, device[d].command_count)]
        /\ UNCHANGED <<context, device_count, device>>
    BY <1>7 DEF GetLastFrame
  <2>3. view' \in View
    BY <2>1, <2>2, ShownIsPicture DEF View, State
  <2>4. Live' = Live
    BY <2>2 DEF Live
  <2>5. ViewInv'
    <3>1. view'.device = d /\ view'.taken = Shown(d, view'.command_count)
      BY <2>2
    <3>2. d \in Live' /\ device'[d].state = "COMPLETED"
      BY <1>7, <2>1, <2>2, <2>4 DEF GetLastFrame
    <3>3. \A k : Shown(d, k)' = SubSeq(device'[d].commands, 1, k)
      BY DEF Shown
    <3> QED
      BY <2>2, <3>1, <3>2 DEF ViewInv, Shown
  <2> QED
    BY <2>2, <2>3, <2>4, <2>5 DEF RecorderInv
<1> QED
  BY <1>1, <1>2, <1>3, <1>4, <1>5, <1>6, <1>7 DEF RNext

-----------------------------------------------------------------------------

LEMMA BlackIsPicture == Black \in Picture
<1>1. Black \in [1 .. 0 -> Command]
  BY DEF Black
<1> QED
  BY <1>1, RecorderAssumption DEF Picture

LEMMA InitInv == VInit => VInv
<1> SUFFICES ASSUME VInit PROVE VInv
  OBVIOUS
<1>1. Live = {}
  BY DEF VInit, RInit, Live
<1>2. RecorderInv /\ ViewInv
  BY <1>1, FS_EmptySet DEF VInit, RInit, RecorderInv, ViewInv
<1>3. VTypeOK
  BY <1>1, FS_EmptySet, BlackIsPicture, ScreenAssumption, SMTT(30) DEF VInit, RInit, VTypeOK, Buffer
<1>4. OwnerInv /\ FlipInv /\ SettledInv /\ CallInv
  BY DEF VInit, OwnerInv, FlipInv, SettledInv, CallInv
<1> QED
  BY <1>2, <1>3, <1>4 DEF VInv

\* What is left when a step leaves the recorder alone.
LEMMA RecorderKept ==
  ASSUME VInv, UNCHANGED recorder
  PROVE  /\ RecorderInv' /\ ViewInv'
         /\ context' \in BOOLEAN /\ device_count' = Cardinality(Live') /\ (Live' # {} => context')
<1>1. Live' = Live
  BY DEF recorder, Live
<1> QED
  BY <1>1 DEF recorder, VInv, RecorderInv, ViewInv, Shown

\* The recorder moves only between the display's calls.
LEMMA RecorderNext ==
  ASSUME VInv, pc = "idle", RNext, UNCHANGED output
  PROVE  VInv'
<1>1. RecorderInv' /\ ViewInv'
  BY RecorderStep DEF VInv
<1>2. VTypeOK'
  BY <1>1 DEF VInv, VTypeOK, RecorderInv, output
<1>3. OwnerInv' /\ FlipInv' /\ SettledInv' /\ CallInv'
  BY DEF VInv, OwnerInv, FlipInv, SettledInv, CallInv, output
<1> QED
  BY <1>1, <1>2, <1>3 DEF VInv

LEMMA CreateStep ==
  ASSUME VInv, NEW k \in 0 .. Len(Resource), DisplayCreate(k)
  PROVE  VInv'
<1>1. RecorderInv' /\ ViewInv'
  BY RecorderKept DEF DisplayCreate
<1>2. held' = IF k = 4 THEN First(4) ELSE {}
  BY DEF VInv, OwnerInv, DisplayCreate, First, Releases, Resource
<1>3. VTypeOK'
  BY <1>2, RecorderKept, BlackIsPicture DEF DisplayCreate, VInv, VTypeOK, Buffer, First, Resource
<1>4. OwnerInv'
  BY <1>2 DEF VInv, OwnerInv, DisplayCreate, Resource
<1>5. FlipInv' /\ SettledInv' /\ CallInv'
  BY DEF VInv, OwnerInv, FlipInv, SettledInv, CallInv, DisplayCreate
<1> QED
  BY <1>1, <1>3, <1>4, <1>5 DEF VInv

\* The steps of a drain: nothing but the position moves, and past it only when
\* no flip is pending.
LEMMA DrainStep ==
  ASSUME VInv, EnterPresent \/ EnterDestroy \/ Poll \/ WaitVblank
  PROVE  VInv'
<1>1. UNCHANGED <<recorder, held, display, next_buffer, cpu, memory, pending, screen>>
  BY DEF EnterPresent, EnterDestroy, Enter, Poll, WaitVblank
<1>2. RecorderInv' /\ ViewInv'
  BY <1>1, RecorderKept
<1>3. pc' \in {"idle", "drain", "vblank", "clear", "unregister"} /\ display
  BY DEF EnterPresent, EnterDestroy, Enter, Poll, WaitVblank, Drained, VInv, OwnerInv
<1>4. pc' \in {"clear", "unregister"} => pending = << >>
  BY DEF EnterPresent, EnterDestroy, Enter, Poll, WaitVblank, Drained, GoesOn
<1>5. pc' \in {"drain", "vblank"} /\ call' = "present" => view # Nothing
  BY DEF EnterPresent, EnterDestroy, Enter, Poll, WaitVblank, Drained, VInv, CallInv
<1>6. pc' = "clear" => view # Nothing
  BY DEF EnterPresent, EnterDestroy, Enter, Poll, WaitVblank, Drained, VInv, CallInv
<1>7. call' \in {Nothing, "present", "destroy"}
  BY DEF EnterPresent, EnterDestroy, Enter, Poll, WaitVblank, VInv, VTypeOK
<1>8. polls' \in 0 .. MaxPolls /\ (pc' = "vblank" => polls' < MaxPolls)
  BY ScreenAssumption DEF EnterPresent, EnterDestroy, Enter, Poll, WaitVblank, Drained, Waited,
    StillWaiting, VInv, VTypeOK, CallInv
<1>9. VTypeOK'
  BY <1>1, <1>3, <1>7, <1>8, RecorderKept DEF VInv, VTypeOK
<1>10. OwnerInv' /\ FlipInv' /\ SettledInv'
  BY <1>1, <1>3 DEF VInv, OwnerInv, FlipInv, SettledInv
<1>11. CallInv'
  BY <1>1, <1>3, <1>4, <1>5, <1>6, <1>8 DEF CallInv, recorder
<1> QED
  BY <1>2, <1>9, <1>10, <1>11 DEF VInv

\* The cache is drawn into the buffer that is neither shown nor to be shown.
LEMMA DrawStep ==
  ASSUME VInv, Clear \/ Draw
  PROVE  VInv'
<1>1. /\ UNCHANGED <<recorder, held, display, next_buffer, memory, pending, screen, call, polls>>
      /\ pc \in {"clear", "draw"} /\ pc' \in {"draw", "flush"}
  BY DEF Clear, Draw
<1>2. view # Nothing /\ pending = << >> /\ next_buffer \in {0, 1}
  BY <1>1 DEF VInv, CallInv, VTypeOK, Buffer
<1>3. Shown(view.device, view.command_count) = view.taken /\ view.taken \in Picture
  BY <1>2 DEF VInv, ViewInv, RecorderInv, View
<1>4. PICK p \in Picture : cpu' = [cpu EXCEPT ![next_buffer] = p] /\ (pc' = "flush" => p = view.taken)
  BY <1>3, BlackIsPicture DEF Clear, Draw
<1>5. cpu' \in [Buffer -> Picture] /\ cpu'[next_buffer] = p /\ cpu'[1 - next_buffer] = cpu[1 - next_buffer]
  BY <1>2, <1>4 DEF VInv, VTypeOK, Buffer
<1>6. RecorderInv' /\ ViewInv'
  BY <1>1, RecorderKept
<1>7. VTypeOK'
  BY <1>1, <1>5, RecorderKept DEF VInv, VTypeOK
<1>8. OwnerInv' /\ FlipInv'
  BY <1>1 DEF VInv, OwnerInv, FlipInv
<1>9. SettledInv'
  BY <1>1, <1>2, <1>5 DEF VInv, FlipInv, SettledInv
<1>10. CallInv'
  BY <1>1, <1>2, <1>4, <1>5 DEF CallInv, recorder
<1> QED
  BY <1>6, <1>7, <1>8, <1>9, <1>10 DEF VInv

\* Writing a buffer back, by a flush or by the cache on its own, changes nothing
\* that is shown.
LEMMA WriteBackStep ==
  ASSUME VInv, Flush \/ \E b \in Buffer : WriteBack(b)
  PROVE  VInv'
<1>1. /\ UNCHANGED <<recorder, held, display, next_buffer, cpu, pending, screen, call, polls>>
      /\ pc' = pc \/ (pc = "flush" /\ pc' = "submit")
  BY DEF Flush, WriteBack
<1>2. PICK b \in Buffer : memory' = [memory EXCEPT ![b] = cpu[b]] /\ (pc' # pc => b = next_buffer)
  BY DEF Flush, Flushed, WriteBack, VInv, VTypeOK
<1>3. /\ memory' \in [Buffer -> Picture] /\ memory'[b] = cpu[b]
      /\ \A c \in Buffer : memory'[c] = memory[c] \/ memory'[c] = cpu[c]
  BY <1>2 DEF VInv, VTypeOK
<1>4. RecorderInv' /\ ViewInv'
  BY <1>1, RecorderKept
<1>5. VTypeOK'
  BY <1>1, <1>3, RecorderKept DEF VInv, VTypeOK
<1>6. OwnerInv'
  BY <1>1 DEF VInv, OwnerInv
<1>7. FlipInv'
  BY <1>1 DEF VInv, FlipInv
<1>8. SettledInv'
  <2>1. screen # Nothing => screen.buffer \in Buffer
    BY DEF VInv, VTypeOK, Flips
  <2>2. \A n \in 1 .. Len(pending) : pending[n].buffer \in Buffer
    <3>1. pending \in Seq(Flips)
      BY DEF VInv, VTypeOK
    <3>2. \A n \in 1 .. Len(pending) : pending[n] \in Flips
      BY <3>1
    <3> QED
      BY <3>2 DEF Flips
  <2> QED
    BY <1>1, <1>3, <2>1, <2>2 DEF VInv, SettledInv
<1>9. CallInv'
  BY <1>1, <1>2, <1>3 DEF VInv, VTypeOK, CallInv, recorder
<1> QED
  BY <1>4, <1>5, <1>6, <1>7, <1>8, <1>9 DEF VInv

LEMMA SubmitStep ==
  ASSUME VInv, NEW taken \in BOOLEAN, SubmitFlip(taken)
  PROVE  VInv'
<1> DEFINE f == [buffer |-> next_buffer, frame |-> view.taken]
<1>1. /\ UNCHANGED <<recorder, held, display, cpu, memory, screen, call, polls>>
      /\ pc = "submit" /\ pc' = "idle"
  BY DEF SubmitFlip
<1>2. /\ view # Nothing /\ pending = << >> /\ next_buffer \in {0, 1}
      /\ cpu[next_buffer] = view.taken /\ memory[next_buffer] = view.taken
  BY <1>1 DEF VInv, CallInv, VTypeOK, Buffer
<1>3. f \in Flips
  BY <1>2 DEF Flips, VInv, RecorderInv, View, Buffer
<1>4. IF taken THEN pending' = <<f>> /\ next_buffer' = 1 - next_buffer
      ELSE pending' = pending /\ next_buffer' = next_buffer
  BY <1>2 DEF SubmitFlip, Following
<1>5. RecorderInv' /\ ViewInv'
  BY <1>1, RecorderKept
<1>6. pending' \in Seq(Flips) /\ Len(pending') <= 1 /\ next_buffer' \in Buffer
  <2>1. <<f>> \in Seq(Flips) /\ Len(<<f>>) = 1
    BY <1>3
  <2>2. 1 - next_buffer \in Buffer
    BY <1>2 DEF Buffer
  <2> QED
    BY <1>4, <2>1, <2>2 DEF VInv, VTypeOK
<1>7. VTypeOK'
  BY <1>1, <1>6, RecorderKept DEF VInv, VTypeOK
<1>8. OwnerInv'
  BY <1>1 DEF VInv, OwnerInv
<1>9. FlipInv'
  <2>1. screen # Nothing => screen.buffer = 1 - next_buffer
    BY <1>2 DEF VInv, FlipInv
  <2>2. CASE taken
    <3>1. f.buffer = 1 - next_buffer'
      BY <1>2, <1>4, <2>2
    <3>2. pending' = <<f>> /\ <<f>> # << >>
      BY <1>4, <2>2
    <3> QED
      BY <1>1, <1>2, <1>3, <1>4, <2>1, <2>2, <3>1, <3>2 DEF FlipInv
  <2>3. CASE ~taken
    BY <1>1, <1>2, <1>4, <2>1, <2>3 DEF FlipInv
  <2> QED
    BY <2>2, <2>3
<1>10. SettledInv'
  BY <1>1, <1>2, <1>4 DEF VInv, SettledInv
<1>11. CallInv'
  BY <1>1 DEF CallInv
<1> QED
  BY <1>5, <1>7, <1>8, <1>9, <1>10, <1>11 DEF VInv

LEMMA UnregisterStep ==
  ASSUME VInv, NEW taken \in BOOLEAN, Unregister(taken)
  PROVE  VInv'
<1>1. /\ UNCHANGED <<recorder, next_buffer, cpu, memory, pending, call, polls>>
      /\ pc = "unregister" /\ pc' = "idle"
  BY DEF Unregister
<1>2. pending = << >> /\ display
  BY <1>1 DEF VInv, CallInv, OwnerInv
<1>3. IF taken THEN held' = {} /\ display' = FALSE /\ screen' = Nothing
      ELSE UNCHANGED <<held, display, screen>>
  BY DEF Unregister, Releases
<1>4. RecorderInv' /\ ViewInv'
  BY <1>1, RecorderKept
<1>5. VTypeOK'
  BY <1>1, <1>3, RecorderKept DEF VInv, VTypeOK
<1>6. OwnerInv' /\ FlipInv' /\ SettledInv'
  BY <1>1, <1>2, <1>3 DEF VInv, OwnerInv, FlipInv, SettledInv
<1>7. CallInv'
  BY <1>1 DEF CallInv
<1> QED
  BY <1>4, <1>5, <1>6, <1>7 DEF VInv

LEMMA FlipStep ==
  ASSUME VInv, Flip
  PROVE  VInv'
<1>1. UNCHANGED <<recorder, held, display, next_buffer, cpu, memory, pc, call, polls>>
  BY DEF Flip
<1>2. PICK f \in Flips : pending = <<f>> /\ f.buffer = 1 - next_buffer
  BY DEF Flip, VInv, FlipInv
<1>3. screen' = f /\ pending' = << >> /\ next_buffer \in {0, 1}
  BY <1>2 DEF Flip, VInv, VTypeOK, Buffer
<1>4. memory[f.buffer] = f.frame /\ cpu[f.buffer] = f.frame
  BY <1>2 DEF VInv, SettledInv
<1>5. RecorderInv' /\ ViewInv'
  BY <1>1, RecorderKept
<1>6. VTypeOK'
  BY <1>1, <1>3, RecorderKept DEF VInv, VTypeOK
<1>7. OwnerInv' /\ FlipInv'
  BY <1>1, <1>2, <1>3 DEF VInv, OwnerInv, FlipInv
<1>8. SettledInv'
  BY <1>1, <1>3, <1>4 DEF SettledInv
<1>9. CallInv'
  BY <1>1, <1>2, <1>3 DEF VInv, CallInv, recorder
<1> QED
  BY <1>5, <1>6, <1>7, <1>8, <1>9 DEF VInv

LEMMA NextInv == VInv /\ [VNext]_vars => VInv'
<1> SUFFICES ASSUME VInv, [VNext]_vars PROVE VInv'
  OBVIOUS
<1>1. CASE pc = "idle" /\ RNext /\ UNCHANGED output
  BY <1>1, RecorderNext
<1>2. CASE \E k \in 0 .. Len(Resource) : DisplayCreate(k)
  BY <1>2, CreateStep
<1>3. CASE EnterPresent \/ EnterDestroy \/ Poll \/ WaitVblank
  BY <1>3, DrainStep
<1>4. CASE Clear \/ Draw
  BY <1>4, DrawStep
<1>5. CASE Flush \/ \E b \in Buffer : WriteBack(b)
  BY <1>5, WriteBackStep
<1>6. CASE \E taken \in BOOLEAN : SubmitFlip(taken) \/ Unregister(taken)
  BY <1>6, SubmitStep, UnregisterStep
<1>7. CASE Flip
  BY <1>7, FlipStep
<1>8. CASE UNCHANGED vars
  <2>1. UNCHANGED recorder /\ UNCHANGED output
    BY <1>8 DEF vars
  <2>2. RecorderInv' /\ ViewInv'
    BY <2>1, RecorderKept
  <2>3. VTypeOK'
    BY <2>1, RecorderKept DEF VInv, VTypeOK, output
  <2>4. OwnerInv' /\ FlipInv' /\ SettledInv' /\ CallInv'
    BY <2>1 DEF VInv, OwnerInv, FlipInv, SettledInv, CallInv, output, recorder
  <2> QED
    BY <2>2, <2>3, <2>4 DEF VInv
<1> QED
  BY <1>1, <1>2, <1>3, <1>4, <1>5, <1>6, <1>7, <1>8 DEF VNext, InCall

THEOREM Invariance == VSpec => []VInv
BY InitInv, NextInv, PTL DEF VSpec

\* Every variable keeps its type and the context counts its devices.
THEOREM VideoTypeCorrect == VSpec => []VTypeOK
<1>1. VInv => VTypeOK
  BY DEF VInv
<1> QED
  BY <1>1, Invariance, PTL

\* The screen shows whole presented frames (openagc_ps5_videoout_present).
THEOREM NoTearing == VSpec => []ScreenShowsFrame
<1>1. VInv => ScreenShowsFrame
  BY DEF VInv, SettledInv, ScreenShowsFrame
<1> QED
  BY <1>1, Invariance, PTL

\* Destroy and a failing create give back what they hold, and only when the
\* display reads it no more.
THEOREM NoLeak == VSpec => []ScanoutIsMapped
<1>1. VInv => ScanoutIsMapped
  BY DEF VInv, OwnerInv, ScanoutIsMapped, First, Resource
<1> QED
  BY <1>1, Invariance, PTL

-----------------------------------------------------------------------------
(* The tiled layout.                                                       *)

LEMMA Powers ==
  /\ 2^0 = 1 /\ 2^1 = 2 /\ 2^2 = 4 /\ 2^3 = 8 /\ 2^4 = 16 /\ 2^5 = 32 /\ 2^6 = 64
  OBVIOUS

\* The bits that reach a block, of a coordinate.
Low(v) == Bits(v) \cap (0 .. 6)

LEMMA LowBits ==
  ASSUME NEW v \in Nat
  PROVE  /\ 0 \in Low(v) <=> v % 2 = 1
         /\ 1 \in Low(v) <=> (v \div 2) % 2 = 1
         /\ 2 \in Low(v) <=> (v \div 4) % 2 = 1
         /\ 3 \in Low(v) <=> (v \div 8) % 2 = 1
         /\ 4 \in Low(v) <=> (v \div 16) % 2 = 1
         /\ 5 \in Low(v) <=> (v \div 32) % 2 = 1
         /\ 6 \in Low(v) <=> (v \div 64) % 2 = 1
<1>1. \A n \in 0 .. 6 : n \in Low(v) <=> (v \div 2^n) % 2 = 1
  BY DEF Low, Bits
<1>2. v \div 1 = v
  OBVIOUS
<1> QED
  BY <1>1, <1>2, Powers

LEMMA InBits ==
  ASSUME NEW w \in Nat
  PROVE  w % 128 = (w % 2) + 2 * ((w \div 2) % 2) + 4 * ((w \div 4) % 2) + 8 * ((w \div 8) % 2)
                     + 16 * ((w \div 16) % 2) + 32 * ((w \div 32) % 2) + 64 * ((w \div 64) % 2)
<1> DEFINE At(k) == w \div k = 2 * (w \div (2 * k)) + ((w \div k) % 2)
<1>1. w = 2 * (w \div 2) + (w % 2) /\ w = 128 * (w \div 128) + (w % 128)
  OBVIOUS
<1>2. At(2) /\ At(4) /\ At(8) /\ At(16) /\ At(32) /\ At(64)
  <2>1. At(2)
    OBVIOUS
  <2>2. At(4)
    OBVIOUS
  <2>3. At(8)
    OBVIOUS
  <2>4. At(16)
    OBVIOUS
  <2>5. At(32)
    OBVIOUS
  <2>6. At(64)
    OBVIOUS
  <2> QED BY <2>1, <2>2, <2>3, <2>4, <2>5, <2>6
<1>3. /\ (w \div 2) % 2 \in 0 .. 1 /\ (w \div 4) % 2 \in 0 .. 1 /\ (w \div 8) % 2 \in 0 .. 1
      /\ (w \div 16) % 2 \in 0 .. 1 /\ (w \div 32) % 2 \in 0 .. 1 /\ (w \div 64) % 2 \in 0 .. 1
      /\ w \div 2 \in Nat /\ w \div 4 \in Nat /\ w \div 8 \in Nat /\ w \div 16 \in Nat
      /\ w \div 32 \in Nat /\ w \div 64 \in Nat /\ w \div 128 \in Nat
  OBVIOUS
<1>4. w % 2 \in 0 .. 1 /\ w % 128 \in 0 .. 127
  OBVIOUS
<1> DEFINE a == (w % 2)
           b == (w \div 2) % 2
           c == (w \div 4) % 2
           d == (w \div 8) % 2
           e == (w \div 16) % 2
           g == (w \div 32) % 2
           h == (w \div 64) % 2
           s == a + 2 * b + 4 * c + 8 * d + 16 * e + 32 * g + 64 * h
<1>5. w = 128 * (w \div 128) + s
  BY <1>1, <1>2, <1>3
<1> HIDE DEF s
<1>6. s \in 0 .. 127
  BY <1>3, <1>4 DEF s
<1>7. s = w % 128
  BY <1>1, <1>3, <1>4, <1>5, <1>6
<1> QED
  BY <1>7 DEF s

LEMMA SameLow ==
  ASSUME NEW v \in Nat, NEW u \in Nat, Low(v) = Low(u) PROVE v % 128 = u % 128
<1>1. /\ v % 2 = u % 2
      /\ (v \div 2) % 2 = (u \div 2) % 2
      /\ (v \div 4) % 2 = (u \div 4) % 2
      /\ (v \div 8) % 2 = (u \div 8) % 2
      /\ (v \div 16) % 2 = (u \div 16) % 2
      /\ (v \div 32) % 2 = (u \div 32) % 2
      /\ (v \div 64) % 2 = (u \div 64) % 2
  <2>1. \A a \in Nat : a % 2 \in {0, 1} 
    OBVIOUS
  <2>2. \A w \in {v, u} : /\ (w \div 2) \in Nat /\ (w \div 4) \in Nat /\ (w \div 8) \in Nat
                          /\ (w \div 16) \in Nat /\ (w \div 32) \in Nat /\ (w \div 64) \in Nat
    OBVIOUS
  <2> QED BY <2>1, <2>2, LowBits
<1> QED
  BY <1>1, InBits

LEMMA LowOf ==
  ASSUME NEW T \in SUBSET (0 .. 6) PROVE \E v \in 0 .. 127 : Low(v) = T
<1> DEFINE b(n) == IF n \in T THEN 1 ELSE 0
           v == b(0) + 2 * b(1) + 4 * b(2) + 8 * b(3) + 16 * b(4) + 32 * b(5) + 64 * b(6)
<1>1. \A n \in 0 .. 6 : b(n) \in 0 .. 1 /\ (b(n) = 1 <=> n \in T)
  OBVIOUS
<1> HIDE DEF b
<1>2. v \in 0 .. 127
  BY <1>1
<1>3. /\ v % 2 = b(0)
      /\ (v \div 2) % 2 = b(1)
      /\ (v \div 4) % 2 = b(2)
      /\ (v \div 8) % 2 = b(3)
      /\ (v \div 16) % 2 = b(4)
      /\ (v \div 32) % 2 = b(5)
      /\ (v \div 64) % 2 = b(6)
  BY <1>1
<1> HIDE DEF v
<1>4. \A n \in 0 .. 6 : n \in Low(v) <=> n \in T
  BY <1>1, <1>2, <1>3, LowBits
<1>5. Low(v) \subseteq 0 .. 6
  BY DEF Low
<1>6. Low(v) = T
  BY <1>4, <1>5
<1> QED
  BY <1>2, <1>6

\* Where the bits of a coordinate go.
LEMMA InShifted ==
  ASSUME NEW v, NEW k \in Nat, NEW mask \in SUBSET Nat, NEW n \in Int
  PROVE  n \in Shifted(v, k, mask) <=> n \in mask /\ n - k \in Bits(v)
  BY DEF Shifted, Bits

LEMMA DownBits ==
  ASSUME NEW y
  PROVE  /\ Down(y) \subseteq (4 .. 6) \cup (8 .. 12) \cup {14}
         /\ 4 \in Down(y) <=> 0 \in Low(y)
         /\ 5 \in Down(y) <=> 1 \in Low(y)
         /\ 6 \in Down(y) <=> 2 \in Low(y)
         /\ 8 \in Down(y) <=> 3 \in Low(y)
         /\ 9 \in Down(y) <=> 4 \in Low(y)
         /\ 10 \in Down(y) <=> 5 \in Low(y)
         /\ 11 \in Down(y) <=> 6 \in Low(y)
         /\ 12 \in Down(y) <=> 3 \in Low(y)
         /\ 14 \in Down(y) <=> 6 \in Low(y)
<1>1. \A n \in Int : n \in Down(y) <=> \/ n \in 4 .. 6 /\ n - 4 \in Bits(y)
                                       \/ n \in 8 .. 11 /\ n - 5 \in Bits(y)
                                       \/ n = 12 /\ n - 9 \in Bits(y)
                                       \/ n = 14 /\ n - 8 \in Bits(y)
  BY InShifted DEF Down
<1>2. Down(y) \subseteq Int
  BY DEF Down, Shifted, Bits
<1> QED
  BY <1>1, <1>2 DEF Low

LEMMA AcrossBits ==
  ASSUME NEW x
  PROVE  /\ Across(x) \subseteq {2, 3, 13, 15} \cup (7 .. 11)
         /\ 2 \in Across(x) <=> 0 \in Low(x)
         /\ 3 \in Across(x) <=> 1 \in Low(x)
         /\ 7 \in Across(x) <=> 2 \in Low(x)
         /\ 8 \in Across(x) <=> 3 \in Low(x)
         /\ 9 \in Across(x) <=> 4 \in Low(x)
         /\ 10 \in Across(x) <=> 6 \in Low(x)
         /\ 11 \in Across(x) <=> 5 \in Low(x)
         /\ 13 \in Across(x) <=> 4 \in Low(x)
         /\ 15 \in Across(x) <=> 6 \in Low(x)
<1>1. \A n \in Int : n \in Across(x) <=> \/ n \in 2 .. 3 /\ n - 2 \in Bits(x)
                                         \/ n \in 7 .. 9 /\ n - 5 \in Bits(x)
                                         \/ n = 10 /\ n - 4 \in Bits(x)
                                         \/ n = 11 /\ n - 6 \in Bits(x)
                                         \/ n \in {13, 15} /\ n - 9 \in Bits(x)
  BY InShifted DEF Across
<1>2. Across(x) \subseteq Int
  BY DEF Across, Shifted, Bits
<1> QED
  BY <1>1, <1>2 DEF Low

\* A bit of the word is a bit of a coordinate, or tells two of them apart.
LEMMA IntraBits ==
  ASSUME NEW x, NEW y
  PROVE  /\ Intra(x, y) \subseteq 2 .. 15
         /\ 2 \in Intra(x, y) <=> 0 \in Low(x)
         /\ 3 \in Intra(x, y) <=> 1 \in Low(x)
         /\ 4 \in Intra(x, y) <=> 0 \in Low(y)
         /\ 5 \in Intra(x, y) <=> 1 \in Low(y)
         /\ 6 \in Intra(x, y) <=> 2 \in Low(y)
         /\ 7 \in Intra(x, y) <=> 2 \in Low(x)
         /\ 12 \in Intra(x, y) <=> 3 \in Low(y)
         /\ 13 \in Intra(x, y) <=> 4 \in Low(x)
         /\ 14 \in Intra(x, y) <=> 6 \in Low(y)
         /\ 15 \in Intra(x, y) <=> 6 \in Low(x)
         /\ 8 \in Intra(x, y) <=> ~(3 \in Low(x) <=> 3 \in Low(y))
         /\ 9 \in Intra(x, y) <=> ~(4 \in Low(x) <=> 4 \in Low(y))
         /\ 10 \in Intra(x, y) <=> ~(6 \in Low(x) <=> 5 \in Low(y))
         /\ 11 \in Intra(x, y) <=> ~(5 \in Low(x) <=> 6 \in Low(y))
  BY DownBits, AcrossBits DEF Intra

\* ... so that the word has both.
LEMMA SameIntra ==
  ASSUME NEW x, NEW y, NEW u, NEW v, Intra(x, y) = Intra(u, v)
  PROVE  Low(x) = Low(u) /\ Low(y) = Low(v)
<1>1. \A n \in 0 .. 6 : (n \in Low(x) <=> n \in Low(u)) /\ (n \in Low(y) <=> n \in Low(v))
  BY IntraBits
<1>2. \A w : Low(w) \subseteq 0 .. 6
  BY DEF Low
<1> QED
  BY <1>1, <1>2

\* ... and that every word is one of a pixel's.
LEMMA EveryWord ==
  ASSUME NEW s \in SUBSET (2 .. 15) PROVE \E x, y \in 0 .. 127 : Intra(x, y) = s
<1> DEFINE differ(m, n) == ~(m \in s <=> n \in s)
           across == {n \in 0 .. 6 : \/ n = 0 /\ 2 \in s
                                     \/ n = 1 /\ 3 \in s
                                     \/ n = 2 /\ 7 \in s
                                     \/ n = 3 /\ differ(8, 12)
                                     \/ n = 4 /\ 13 \in s
                                     \/ n = 5 /\ differ(11, 14)
                                     \/ n = 6 /\ 15 \in s}
           down == {n \in 0 .. 6 : \/ n = 0 /\ 4 \in s
                                   \/ n = 1 /\ 5 \in s
                                   \/ n = 2 /\ 6 \in s
                                   \/ n = 3 /\ 12 \in s
                                   \/ n = 4 /\ differ(9, 13)
                                   \/ n = 5 /\ differ(10, 15)
                                   \/ n = 6 /\ 14 \in s}
<1>1. PICK x \in 0 .. 127 : Low(x) = across
  BY LowOf
<1>2. PICK y \in 0 .. 127 : Low(y) = down
  BY LowOf
<1>3. /\ 0 \in Low(x) <=> 2 \in s
      /\ 1 \in Low(x) <=> 3 \in s
      /\ 2 \in Low(x) <=> 7 \in s
      /\ 3 \in Low(x) <=> differ(8, 12)
      /\ 4 \in Low(x) <=> 13 \in s
      /\ 5 \in Low(x) <=> differ(11, 14)
      /\ 6 \in Low(x) <=> 15 \in s
  BY <1>1
<1>4. /\ 0 \in Low(y) <=> 4 \in s
      /\ 1 \in Low(y) <=> 5 \in s
      /\ 2 \in Low(y) <=> 6 \in s
      /\ 3 \in Low(y) <=> 12 \in s
      /\ 4 \in Low(y) <=> differ(9, 13)
      /\ 5 \in Low(y) <=> differ(10, 15)
      /\ 6 \in Low(y) <=> 14 \in s
  BY <1>2
<1>5. \A n \in 2 .. 15 : n \in Intra(x, y) <=> n \in s
  BY <1>3, <1>4, IntraBits
<1>6. Intra(x, y) = s
  BY <1>5, IntraBits
<1> QED
  BY <1>6

\* The blocks of a row of pixels, and of a column.
LEMMA Screenful ==
  ASSUME NEW n \in Nat \ {0}, NEW x \in 0 .. n - 1
  PROVE  /\ x \div 128 \in 0 .. ((n + 127) \div 128) - 1
         /\ (n - 1) \div 128 = ((n + 127) \div 128) - 1
         /\ (n + 127) \div 128 \in Nat \ {0}
         /\ x = 128 * (x \div 128) + (x % 128) /\ x % 128 \in 0 .. 127
  BY SMTT(30)

LEMMA Quotients ==
  ASSUME NEW A \in Nat \ {0}, NEW j \in Int, NEW k \in Int, NEW c \in 0 .. A - 1, NEW d \in 0 .. A - 1,
         j * A + c = k * A + d
  PROVE  j = k /\ c = d
  BY SMTT(30)

LEMMA Fill ==
  ASSUME NEW A \in Nat \ {0}, NEW C \in Nat, NEW j \in 0 .. C - 1, NEW c \in 0 .. A - 1
  PROVE  j * A + c + 1 <= A * C /\ j * A + c \in Nat
<1>1. j * A + A <= A * C /\ j * A \in Nat
  BY SMTT(30)
<1> QED
  BY <1>1

\* Two blocks of the screen are two blocks of the frame.
LEMMA BlocksApart ==
  ASSUME NEW x \in 0 .. WIDTH - 1, NEW u \in 0 .. WIDTH - 1,
         NEW y \in 0 .. HEIGHT - 1, NEW v \in 0 .. HEIGHT - 1
  PROVE  /\ Block(x, y) = Block(u, v) => x \div 128 = u \div 128 /\ y \div 128 = v \div 128
         /\ (Block(x, y) + 1) * 65536 <= FRAME_BYTES
<1> DEFINE A == (WIDTH + 127) \div 128
           C == (HEIGHT + 127) \div 128
           c == x \div 128
           d == u \div 128
           j == y \div 128
           k == v \div 128
<1>1. /\ A \in Nat \ {0} /\ C \in Nat \ {0} /\ A * C * 65536 <= FRAME_BYTES
      /\ c \in 0 .. A - 1 /\ d \in 0 .. A - 1 /\ j \in 0 .. C - 1 /\ k \in 0 .. C - 1
  BY TilesAssumption, Screenful
<1>2. Block(x, y) = j * A + c /\ Block(u, v) = k * A + d
  BY DEF Block
<1> HIDE DEF A, C, c, d, j, k
<1>3. j * A + c + 1 <= A * C /\ j * A + c \in Nat
  BY <1>1, Fill
<1>4. A * C \in Nat /\ FRAME_BYTES \in Nat
  BY <1>1, TilesAssumption
<1>5. (Block(x, y) + 1) * 65536 <= FRAME_BYTES
  BY <1>1, <1>2, <1>3, <1>4
<1>6. j * A + c = k * A + d => j = k /\ c = d
  BY <1>1, Quotients
<1> QED
  BY <1>2, <1>5, <1>6 DEF c, d, j, k

\* No two pixels of a frame have one word, and all words are in the frame
\* (tile_offset).
THEOREM PixelsHaveTheirWords ==
  \A x, u \in 0 .. WIDTH - 1, y, v \in 0 .. HEIGHT - 1 :
    /\ Block(x, y) = Block(u, v) /\ Intra(x, y) = Intra(u, v) => x = u /\ y = v
    /\ (Block(x, y) + 1) * 65536 <= FRAME_BYTES
<1> TAKE x, u \in 0 .. WIDTH - 1, y, v \in 0 .. HEIGHT - 1
<1>1. ASSUME Block(x, y) = Block(u, v), Intra(x, y) = Intra(u, v) PROVE x = u /\ y = v
  <2>1. x \in Nat /\ u \in Nat /\ y \in Nat /\ v \in Nat
    BY TilesAssumption
  <2>2. x % 128 = u % 128 /\ y % 128 = v % 128
    BY <1>1, <2>1, SameIntra, SameLow
  <2>3. x \div 128 = u \div 128 /\ y \div 128 = v \div 128
    BY <1>1, BlocksApart
  <2>4. \A w \in Nat : w = 128 * (w \div 128) + (w % 128)
    OBVIOUS
  <2> QED BY <2>1, <2>2, <2>3, <2>4
<1> QED
  BY <1>1, BlocksApart

\* ... as TLC sees it, block by block.
LEMMA Tiles == TilesAreDisjoint
<1> DEFINE InBlock == (0 .. 127) \X (0 .. 127)
           Across128 == {128 * n : n \in 0 .. (WIDTH - 1) \div 128}
           Down128 == {128 * n : n \in 0 .. (HEIGHT - 1) \div 128}
<1>1. {Intra(p[1], p[2]) : p \in InBlock} = SUBSET (2 .. 15)
  <2>1. \A p \in InBlock : Intra(p[1], p[2]) \subseteq 2 .. 15
    BY IntraBits
  <2>2. ASSUME NEW s \in SUBSET (2 .. 15) PROVE \E p \in InBlock : Intra(p[1], p[2]) = s
    <3>1. PICK x \in 0 .. 127, y \in 0 .. 127 : Intra(x, y) = s
      BY EveryWord
    <3>2. <<x, y>> \in InBlock /\ <<x, y>>[1] = x /\ <<x, y>>[2] = y
      OBVIOUS
    <3> QED BY <3>1, <3>2
  <2> QED BY <2>1, <2>2
<1>2. /\ \A x \in Across128 : x \in 0 .. WIDTH - 1 /\ x = 128 * (x \div 128)
      /\ \A y \in Down128 : y \in 0 .. HEIGHT - 1 /\ y = 128 * (y \div 128)
  <2>1. ASSUME NEW n \in Nat \ {0}, NEW k \in 0 .. (n - 1) \div 128
        PROVE  128 * k \in 0 .. n - 1 /\ 128 * k = 128 * ((128 * k) \div 128)
    BY SMTT(30)
  <2> QED BY <2>1, TilesAssumption
<1> HIDE DEF Across128, Down128
<1>3. ASSUME NEW p \in Across128 \X Down128, NEW q \in Across128 \X Down128,
             Block(p[1], p[2]) = Block(q[1], q[2])
      PROVE  p = q
  <2>1. p[1] = q[1] /\ p[2] = q[2]
    BY <1>2, <1>3, BlocksApart
  <2> QED BY <2>1
<1>4. \A p \in Across128 \X Down128 : (Block(p[1], p[2]) + 1) * 65536 <= FRAME_BYTES
  BY <1>2, BlocksApart
<1> QED
  BY <1>1, <1>3, <1>4 DEF TilesAreDisjoint, Across128, Down128

\* While a frame is drawn, no pixel lands on another or outside the buffer
\* (draw_rect, tile_offset), whatever the size of the screen.
THEOREM NoOverdraw == VSpec => []PixelsKeepApart
<1>1. PixelsKeepApart
  BY Tiles DEF PixelsKeepApart
<1> QED
  BY <1>1, PTL
=============================================================================
