---------------------------- MODULE MemoryLease -----------------------------
(***************************************************************************)
(* What the native bridge promises about caller-owned GPU memory           *)
(* (ps5_gpu.h: "Never free or overwrite GPU memory until wait succeeds"):  *)
(* memory is lent to the bridge, the GPU touches lent memory only, and     *)
(* memory comes back to the caller only after the GPU's last access to it. *)
(***************************************************************************)
CONSTANT Block       \* blocks of GPU-visible memory

VARIABLES
  lent,   \* blocks the caller must not free or overwrite
  busy    \* blocks that an accepted submission will still access

Init == lent = {} /\ busy = {}

\* The caller lends the blocks of a draw; the driver may start it now or later.
Lend(B)   == lent' = lent \cup B /\ UNCHANGED busy
Start(B)  == B \subseteq lent /\ busy' = busy \cup B /\ UNCHANGED lent
Finish(B) == busy' = busy \ B /\ UNCHANGED lent
\* Nothing the GPU may still access is returned.
Return(B) == B \cap busy = {} /\ lent' = lent \ B /\ UNCHANGED busy

Next == \E B \in SUBSET Block : Lend(B) \/ Start(B) \/ Finish(B) \/ Return(B)

Spec == Init /\ [][Next]_<<lent, busy>>

\* The GPU never touches memory the caller may be reusing.
BusyIsLent == busy \subseteq lent
=============================================================================
