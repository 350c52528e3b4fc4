----------------------------- MODULE MCGraphics -----------------------------
(***************************************************************************)
(* Graphics for TLC, with recordings that are interchangeable.  An image   *)
(* has one pin at most: several holders of one image are in ShaderPlans.   *)
(***************************************************************************)
EXTENDS Graphics, TLC

MCNext == GNext /\ \A i \in Image : pins'[i] <= 1

MCSpec == GInit /\ [][MCNext]_gvars

Interchangeable == Permutations(Recording)
=============================================================================
