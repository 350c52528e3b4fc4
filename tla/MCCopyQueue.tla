---------------------------- MODULE MCCopyQueue ----------------------------
(***************************************************************************)
(* CopyQueue for TLC, with objects that are interchangeable.  A behaviour  *)
(* belongs to one of four scenes: copies among buffers of one memory, what *)
(* takes synthetic addresses, with buffers or with an image, and copies    *)
(* within a buffer whose bytes an image has as well.                       *)
(***************************************************************************)
EXTENDS CopyQueue, TLC

CONSTANTS m1, m2, f1, f2

VARIABLE scene

all == <<cvars, scene>>

MCMemory == {m1, m2}
MCFence == {f1, f2}

\* What there may be in a scene, if it says no more: the objects, how many
\* buffers and copy buffers at once, the size of a buffer, and how far counters,
\* addresses, states and dwords go; late objects come after the memory.  The
\* limits of uses, addresses, sequences and revisions are reached in one of them.
Scene == [objects |-> {}, late |-> {}, buffers |-> 0, lists |-> 0, least |-> 1,
          locks |-> 0, given |-> 0, pins |-> 0,
          next |-> VaLimit, submissions |-> 0, calls |-> 0, commands |-> 0, changes |-> 0,
          targets |-> {}, states |-> {}, values |-> {Zero}]

Copying == [Scene EXCEPT
  !.objects = {m1, f1} \cup Buffer \cup CopyBuffer, !.buffers = 2, !.lists = 2, !.next = 7,
  !.submissions = SequenceMax]

Reserving == [Scene EXCEPT
  !.objects = {m1, m2, f1, f2} \cup Buffer, !.buffers = 1, !.locks = 1,
  !.given = 1, !.calls = 1]

Clearing == [Scene EXCEPT
  !.objects = {m1, f1} \cup Image \cup Recording, !.calls = 1, !.commands = MaxCommands,
  !.changes = 1, !.targets = Color, !.states = {"COLOR_TARGET"}]

Submitting == [Scene EXCEPT
  !.objects = {m1, f1} \cup Buffer \cup CopyBuffer \cup Image \cup Recording,
  !.late = {f1}, !.buffers = 1, !.lists = 1, !.least = 2, !.next = 6,
  !.submissions = 1, !.commands = 1, !.changes = RevisionMax, !.states = Targets, !.values = Value]

There == Allocated \cup Live \cup Exists \cup {f \in Fence : marker[f] # 0}
         \cup {c \in CopyBuffer : progress[c] # "absent"}
         \cup {r \in Recording : phase[r] # "absent"}

InScene ==
  /\ nextVa <= scene.next /\ computes <= scene.calls /\ writes <= scene.calls
  /\ sequence <= scene.submissions /\ Cardinality(given) <= scene.given
  /\ \A i \in Image : revision[i] <= scene.changes /\ pins[i] <= scene.pins
  /\ \A r \in Recording : commands[r] <= scene.commands
  /\ \A r \in Recording : target[r] \in scene.targets \cup {Nothing}
  /\ There \subseteq scene.objects /\ Cardinality(Live) <= scene.buffers
  /\ Allocated = {} => There \cap scene.late = {}
  /\ \A b \in Buffer : locks[b] <= scene.locks
  /\ \A b \in Live : length[b] >= scene.least
  /\ Cardinality({c \in CopyBuffer : progress[c] # "absent"}) <= scene.lists
  /\ \A r \in Recording : \A i \in held[r] :
       shadow[r][i].to \in scene.states \cup {"UNDEFINED"}
  /\ \A m \in Memory, d \in Dword : content[m][d] \in scene.values

MCInit == CInit /\ scene \in {Copying, Reserving, Clearing, Submitting}

MCNext == CNext /\ scene' = scene /\ InScene'

MCSpec == MCInit /\ [][MCNext]_all

Interchangeable == Permutations(Buffer) \cup Permutations(CopyBuffer)
=============================================================================
