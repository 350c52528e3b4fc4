--------------------------- MODULE FrameRecorder ---------------------------
(***************************************************************************)
(* The command recorder of openagc.c: a context, its devices, and on each  *)
(* device one frame that is begun, recorded and presented, then read       *)
(* through a view.  A view points at the device's own command array, so it *)
(* is good only "until the next successful frame_begin or device_destroy"  *)
(* (openagc.h): the caller modelled here drops it then.  Calls that return *)
(* an error change nothing and are left out.                               *)
(***************************************************************************)
EXTENDS Naturals, Sequences, FiniteSets

CONSTANTS
  Device,       \* the devices there may be
  Command,      \* the clears and rectangles a caller records
  Size,         \* the widths and heights of a device
  MaxCommands,  \* desc.max_commands
  NumberMax,    \* the last frame number (UINT64_MAX)
  Nothing       \* NULL

\* struct openagc_device; its commands are an array of which the first count.
State ==
  [state : {"IDLE", "RECORDING", "COMPLETED"}, size : Size, command_count : 0 .. MaxCommands,
   frame_number : Nat, commands : [1 .. MaxCommands -> Command \cup {Nothing}]]

ASSUME RecorderAssumption ==
  /\ IsFiniteSet(Device) /\ Nothing \notin Command /\ Nothing \notin State
  /\ MaxCommands \in Nat /\ NumberMax \in Nat

VARIABLES
  context,       \* is there a context?
  device_count,  \* context->device_count
  device,        \* the devices, Nothing where there is none
  view           \* the view the caller holds, with what it read then (taken)

recorder == <<context, device_count, device, view>>

Live == {d \in Device : device[d] # Nothing}
Fresh(size) ==
  [state |-> "IDLE", size |-> size, command_count |-> 0, frame_number |-> 0,
   commands |-> [n \in 1 .. MaxCommands |-> Nothing]]

\* What a view of n commands shows.
Shown(d, n) == SubSeq(device[d].commands, 1, n)
Dropped(d) == IF view # Nothing /\ view.device = d THEN Nothing ELSE view

MayBegin(d) == device[d].state # "RECORDING"
MayRecord(d) == device[d].state = "RECORDING"
HasRoom(d) == device[d].command_count < MaxCommands

RInit ==
  /\ context = FALSE /\ device_count = 0
  /\ device = [d \in Device |-> Nothing] /\ view = Nothing

ContextCreate ==
  ~context /\ context' = TRUE /\ UNCHANGED <<device_count, device, view>>

ContextDestroy ==
  /\ context /\ device_count = 0
  /\ context' = FALSE /\ UNCHANGED <<device_count, device, view>>

DeviceCreate(d, size) ==
  /\ context /\ device[d] = Nothing
  /\ device' = [device EXCEPT ![d] = Fresh(size)]
  /\ device_count' = device_count + 1
  /\ UNCHANGED <<context, view>>

DeviceDestroy(d) ==
  /\ device[d] # Nothing
  /\ device' = [device EXCEPT ![d] = Nothing]
  /\ device_count' = device_count - 1
  /\ view' = Dropped(d)
  /\ UNCHANGED context

Begin(d) ==
  /\ device[d] # Nothing /\ MayBegin(d)
  /\ device' = [device EXCEPT ![d] = [@ EXCEPT !.state = "RECORDING", !.command_count = 0]]
  /\ view' = Dropped(d)
  /\ UNCHANGED <<context, device_count>>

\* frame_clear and frame_rect.
Record(d, c) ==
  /\ device[d] # Nothing /\ MayRecord(d) /\ HasRoom(d)
  /\ LET n == device[d].command_count + 1 IN
     device' = [device EXCEPT ![d] = [@ EXCEPT !.commands[n] = c, !.command_count = n]]
  /\ UNCHANGED <<context, device_count, view>>

Presented(d) == device[d].frame_number + 1
\* frame_present: at the last number the frame stays in recording (OVERFLOW).
Finish(d) ==
  /\ device[d] # Nothing /\ MayRecord(d) /\ device[d].frame_number < NumberMax
  /\ device' = [device EXCEPT ![d] = [@ EXCEPT !.state = "COMPLETED", !.frame_number = Presented(d)]]
  /\ UNCHANGED <<context, device_count, view>>

GetLastFrame(d) ==
  /\ device[d] # Nothing /\ device[d].state = "COMPLETED"
  /\ view' = [device |-> d, size |-> device[d].size,
              command_count |-> device[d].command_count,
              taken |-> Shown(d, device[d].command_count)]
  /\ UNCHANGED <<context, device_count, device>>

RNext ==
  \/ ContextCreate \/ ContextDestroy
  \/ \E d \in Device :
       \/ \E s \in Size : DeviceCreate(d, s)
       \/ \E c \in Command : Record(d, c)
       \/ DeviceDestroy(d) \/ Begin(d) \/ Finish(d) \/ GetLastFrame(d)
=============================================================================
