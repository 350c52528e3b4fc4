---------------------------- MODULE MCPipelines ----------------------------
(***************************************************************************)
(* Programs and Draws for TLC.  A behaviour is about one half of a         *)
(* pipeline, which the other half does not read: its register program or   *)
(* its vertex input.                                                       *)
(***************************************************************************)
EXTENDS Programs, Draws

CONSTANTS small, wide, large, huge

VARIABLE scene

all == <<pvars, dvars, scene>>

\* A wide program has room in a packet until a target is added, a large one
\* has none, a huge one is no snapshot.
MCRegisters == [m \in Snapshot |-> CASE m = small -> 20 [] m = wide -> 60
                                     [] m = large -> 150 [] m = huge -> 300]

\* With Short = 8 a stride of 11 or more can take a product past 2^10.
MCSpans == {[offset |-> 0, size |-> 1], [offset |-> 0, size |-> 2],
            [offset |-> 1, size |-> 1], [offset |-> 12, size |-> 1]}
MCStrides == {2, 13, 15}
MCContents == {[h \in 0 .. 3 |-> h], [h \in 0 .. 3 |-> IF h < 2 THEN 7 ELSE 0]}
MCBases == {-32, -1, 0, 30, 31}

Blended == blend # <<0, 2, 1>>
Assembled == primitive # TriangleList
Pushed == pushed # 0
Formatted == input # None /\ \E k \in DOMAIN input.attributes : input.attributes[k].format # 0

\* What draws do not read changes one at a time, before anything is bound.
InScene ==
  \/ viewport /\ ~Blended /\ ~Assembled /\ ~Pushed /\ (Formatted => vertex = None /\ index = None)
  \/ /\ input = None /\ vertex = None /\ index = None
     /\ ~(Blended /\ Assembled) /\ ~(Blended /\ Pushed) /\ ~(Assembled /\ Pushed)

MCInit == PInit /\ DInit /\ scene \in {"program", "input"}

MCNext ==
  /\ scene' = scene
  /\ \/ scene = "program" /\ PNext /\ UNCHANGED dvars
     \/ scene = "input" /\ DNext /\ InScene' /\ UNCHANGED pvars

MCSpec == MCInit /\ [][MCNext]_all
=============================================================================
