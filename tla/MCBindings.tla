----------------------------- MODULE MCBindings -----------------------------
(* Bindings for TLC, in scenes: the objects that may ever be made in one.  *)
EXTENDS Bindings

CONSTANTS t1, t2, e1, z1, up, pk, un, vx, ix, m1, s1, r1, r2, p1, p2, g1, q1, l1, b1, b2

VARIABLE scene

all == <<vars, scene>>

MCImage == {t1, t2, e1, z1}
MCColor == {t1, t2, e1}
MCDepth == {z1}
MCTexture == {t1, t2}
MCBuffer == {up, pk, un, vx, ix}
MCSource == {up, pk}
MCDestination == {up, pk, vx, ix}
MCUniform == {un}
MCTargetOf == [b \in MCBuffer |->
  CASE b = up -> "PIXEL_UNPACK" [] b = pk -> "PIXEL_PACK" [] b = un -> "UNIFORM"
    [] b = vx -> "ARRAY" [] b = ix -> "ELEMENT_ARRAY"]
MCMemory == {m1}
MCSampler == {s1}
MCPass == {r1, r2}
MCTimeline == {l1}
MCPipeline == {p1, p2, g1}
MCQueryPool == {q1}
MCFramebuffer == {b1, b2}

\* In some of them counters may be used up.
Scene(objects, spent) == [objects |-> objects, spent |-> spent]

Scenes ==
  {Scene({t1, t2, b1, r1}, FALSE),
   Scene({up, pk, un, vx}, FALSE),
   Scene({un, m1}, FALSE),
   Scene({e1, z1, b1, b2, r1, r2}, FALSE),
   Scene({e1, b1, b2, r1, r2, q1}, FALSE),
   Scene({e1, vx, ix, g1, b1, r1}, FALSE),
   Scene({t1, un, s1, p1}, FALSE),
   Scene({t1, e1, b1, r1}, TRUE),
   Scene({t1, up, pk}, TRUE),
   Scene({up, pk, un, p2}, FALSE)}

InScene ==
  /\ ~scene.spent => front.sequences = Plenty /\ \A i \in Image : front.revisions[i] = Plenty
  /\ (front.live \ Timeline) \cup Frames \subseteq scene.objects

MCInit == Init /\ scene \in Scenes /\ InScene

MCNext == Next /\ scene' = scene /\ InScene'

MCSpec == MCInit /\ [][MCNext]_all
=============================================================================
