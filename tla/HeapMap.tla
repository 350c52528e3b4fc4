------------------------------ MODULE HeapMap -------------------------------
(***************************************************************************)
(* What the device heap promises its objects: each holds an interval of    *)
(* bytes of its own, inside the heap, that stays where it is until the     *)
(* object gives it back.                                                   *)
(***************************************************************************)
EXTENDS Integers

CONSTANTS Owner, HeapBytes

VARIABLE extent    \* the bytes each object holds; none, if it is not live

Byte == 0 .. HeapBytes - 1

Init == extent = [o \in Owner |-> {}]

\* Bytes from first to last, which nobody holds, become o's.
Take(o, first, last) ==
  /\ extent[o] = {}
  /\ first \in Byte /\ last \in Byte /\ first <= last
  /\ \A p \in Owner : extent[p] \cap (first .. last) = {}
  /\ extent' = [extent EXCEPT ![o] = first .. last]

Give(o) == extent' = [extent EXCEPT ![o] = {}]

Next == \E o \in Owner : Give(o) \/ \E first, last \in Byte : Take(o, first, last)

Spec == Init /\ [][Next]_extent

\* No two objects share a byte.
Disjoint == \A o, p \in Owner : o # p => extent[o] \cap extent[p] = {}
=============================================================================
