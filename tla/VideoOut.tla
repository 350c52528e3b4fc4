------------------------------ MODULE VideoOut ------------------------------
(***************************************************************************)
(* The presenter of openagc_ps5_videoout.c over the recorder: two buffers  *)
(* in one block of direct memory, drawn by the CPU through its cache and   *)
(* shown by the display, which reads memory and flips at a vertical blank  *)
(* of its own.  A present waits until no flip is pending, draws the frame  *)
(* of the view into the next buffer, flushes it and submits a flip.        *)
(*                                                                         *)
(* The display (the sceVideoOut calls) is external: any call may fail, a   *)
(* failed one does nothing, and a flip that was submitted happens at some  *)
(* later moment.                                                           *)
(***************************************************************************)
EXTENDS FrameRecorder

CONSTANTS
  Screen,    \* the size a frame must have (1920 by 1080)
  MaxPolls   \* the vertical blanks a drain waits for (120)

ASSUME ScreenAssumption == MaxPolls \in Nat \ {0} /\ Screen \in Size

VARIABLES
  held,         \* what the display object holds, and whether there is one
  display,
  next_buffer,
  cpu, memory,  \* each buffer as the CPU sees it and as the display reads it
  pending,      \* the flips the display has taken and not done
  screen,       \* the flip it shows
  pc, call, polls  \* where the call in progress is, which call, its i

output == <<held, display, next_buffer, cpu, memory, pending, screen, pc, call, polls>>
vars == <<recorder, output>>

Buffer == {0, 1}
Black == << >>
\* In the order create acquires them.
Resource == <<"video", "memory", "mapping", "registration">>
First(k) == {Resource[n] : n \in 1 .. k}
\* What the tail of destroy gives back: all of it but a registration.
Releases(h) == h \ {"registration"}

VInit ==
  /\ RInit
  /\ held = {} /\ display = FALSE /\ next_buffer = 0
  /\ cpu = [b \in Buffer |-> Black] /\ memory = cpu
  /\ pending = << >> /\ screen = Nothing
  /\ pc = "idle" /\ call = Nothing /\ polls = 0

\* Create reaches its k-th step; short of the last it destroys what it has.
DisplayCreate(k) ==
  /\ pc = "idle" /\ ~display
  /\ held' = held \cup IF k = Len(Resource) THEN First(k) ELSE First(k) \ Releases(First(k))
  /\ display' = (k = Len(Resource))
  /\ next_buffer' = 0
  /\ cpu' = [b \in Buffer |-> Black] /\ memory' = cpu'
  /\ UNCHANGED <<recorder, pending, screen, pc, call, polls>>

Enter(c) ==
  /\ pc = "idle" /\ display
  /\ pc' = "drain" /\ call' = c /\ polls' = 0
  /\ UNCHANGED <<recorder, held, display, next_buffer, cpu, memory, pending, screen>>

\* A frame of another size is refused; the recorder's commands are valid.
EnterPresent == view # Nothing /\ view.size = Screen /\ Enter("present")
EnterDestroy == Enter("destroy")

\* Drain_flips returns r, and its caller goes on only after 0.
GoesOnUnlessFailed(r) == r # 2
GoesOn(r) == r = 0
Drained(r) ==
  /\ pc' = IF ~GoesOn(r) THEN "idle" ELSE IF call = "present" THEN "clear" ELSE "unregister"
  /\ UNCHANGED polls

StillWaiting == polls < MaxPolls
Poll ==
  /\ pc = "drain"
  /\ \/ StillWaiting /\ Drained(2)      \* IsFlipPending failed
     \/ StillWaiting /\ pending = << >> /\ Drained(0)
     \/ StillWaiting /\ pending # << >> /\ pc' = "vblank" /\ UNCHANGED polls
     \/ ~StillWaiting /\ Drained(1)
  /\ UNCHANGED <<recorder, held, display, next_buffer, cpu, memory, pending, screen, call>>

WaitedNone == polls
Waited == polls + 1
WaitVblank ==
  /\ pc = "vblank"
  /\ \/ polls' = Waited /\ pc' = "drain"
     \/ Drained(2)
  /\ UNCHANGED <<recorder, held, display, next_buffer, cpu, memory, pending, screen, call>>

Clear ==
  /\ pc = "clear" /\ pc' = "draw"
  /\ cpu' = [cpu EXCEPT ![next_buffer] = Black]
  /\ UNCHANGED <<recorder, held, display, next_buffer, memory, pending, screen, call, polls>>

Draw ==
  /\ pc = "draw" /\ pc' = "flush"
  /\ cpu' = [cpu EXCEPT ![next_buffer] = Shown(view.device, view.command_count)]
  /\ UNCHANGED <<recorder, held, display, next_buffer, memory, pending, screen, call, polls>>

Flushed(b) == [memory EXCEPT ![b] = cpu[b]]
Flush ==
  /\ pc = "flush" /\ pc' = "submit"
  /\ memory' = Flushed(next_buffer)
  /\ UNCHANGED <<recorder, held, display, next_buffer, cpu, pending, screen, call, polls>>

FollowingAlways(b, taken) == 1 - b
Following(b, taken) == IF taken THEN 1 - b ELSE b
SubmitFlip(taken) ==
  /\ pc = "submit" /\ pc' = "idle"
  /\ pending' = IF taken THEN Append(pending, [buffer |-> next_buffer, frame |-> view.taken])
                ELSE pending
  /\ next_buffer' = Following(next_buffer, taken)
  /\ UNCHANGED <<recorder, held, display, cpu, memory, screen, call, polls>>

\* Buffers that are unregistered are shown no more; then all is released.
Unregister(taken) ==
  /\ pc = "unregister" /\ pc' = "idle"
  /\ IF taken
     THEN /\ held' = held \ ({"registration"} \cup Releases(held)) /\ display' = FALSE
          /\ screen' = Nothing
     ELSE UNCHANGED <<held, display, screen>>
  /\ UNCHANGED <<recorder, next_buffer, cpu, memory, pending, call, polls>>

\* The display: it flips, and the CPU's cache writes a line back.
Flip ==
  /\ pending # << >>
  /\ screen' = Head(pending) /\ pending' = Tail(pending)
  /\ UNCHANGED <<recorder, held, display, next_buffer, cpu, memory, pc, call, polls>>

WriteBack(b) ==
  /\ memory[b] # cpu[b]
  /\ memory' = [memory EXCEPT ![b] = cpu[b]]
  /\ UNCHANGED <<recorder, held, display, next_buffer, cpu, pending, screen, pc, call, polls>>

InCall ==
  \/ Poll \/ WaitVblank \/ Clear \/ Draw \/ Flush
  \/ \E taken \in BOOLEAN : SubmitFlip(taken) \/ Unregister(taken)

VNext ==
  \/ pc = "idle" /\ RNext /\ UNCHANGED output
  \/ \E k \in 0 .. Len(Resource) : DisplayCreate(k)
  \/ EnterPresent \/ EnterDestroy \/ InCall
  \/ Flip \/ \E b \in Buffer : WriteBack(b)

VSpec == VInit /\ [][VNext]_vars
\* The caller's thread runs; the display need not: it may never flip.
VFairSpec == VSpec /\ WF_vars(InCall)

-----------------------------------------------------------------------------
Picture == UNION {[1 .. n -> Command] : n \in 0 .. MaxCommands}
Flips == [buffer : Buffer, frame : Picture]

VTypeOK ==
  /\ context \in BOOLEAN /\ device_count = Cardinality(Live) /\ (Live # {} => context)
  /\ held \subseteq {Resource[n] : n \in 1 .. Len(Resource)} /\ display \in BOOLEAN
  /\ next_buffer \in Buffer /\ cpu \in [Buffer -> Picture] /\ memory \in [Buffer -> Picture]
  /\ pending \in Seq(Flips) /\ Len(pending) <= 1 /\ screen \in Flips \cup {Nothing}
  /\ pc \in {"idle", "drain", "vblank", "clear", "draw", "flush", "submit", "unregister"}
  /\ call \in {Nothing, "present", "destroy"} /\ polls \in 0 .. MaxPolls

\* What is on the screen is the whole frame that was presented: never a buffer
\* half drawn, drawn over by the next present, or still in the CPU's cache; and
\* so is what the display will show next.
ScreenShowsFrame ==
  /\ screen # Nothing => memory[screen.buffer] = screen.frame
  /\ \A n \in 1 .. Len(pending) : memory[pending[n].buffer] = pending[n].frame

\* The display scans out of memory that is mapped and registered: destroy gives
\* neither back before the last flip is done and the buffers are unregistered.
\* And whatever step of create fails, and whatever destroy is refused first, the
\* display object is the only owner: nothing is held without one.
ScanoutIsMapped ==
  /\ screen # Nothing \/ pending # << >> => {"mapping", "memory", "registration"} \subseteq held
  /\ held # {} => display

\* A present or a destroy returns even if the display has stopped flipping.
CallsReturn == pc # "idle" ~> pc = "idle"
=============================================================================
