----------------------------- MODULE MCCommands -----------------------------
(***************************************************************************)
(* Commands for TLC.  What a device may hold at once multiplies its        *)
(* states, so a behaviour belongs to one scene, chosen at the start: the   *)
(* objects that may ever be made in it, and the commands that are recorded.*)
(***************************************************************************)
EXTENDS Commands, TLC

CONSTANTS i1, i2, z1, b1, b2, m1, s1, r1, p1, p2, g1, q1, f1, h1, h2, x1, d1, k1, c1, c2

VARIABLE scene

all == <<vars, scene>>

MCImage == {i1, i2, z1}
MCColor == {i1, i2}
MCDepth == {z1}
MCBuffer == {b1, b2}
MCSource == {b1, b2}
MCDestination == {b2}
MCReadable == {b1}
MCVertexData == {b1}
MCIndexData == {b1}
MCMemory == {m1}
MCSampler == {s1}
MCPass == {r1}
MCTimeline == {f1, h1, h2}
MCPipeline == {p1, p2, g1}
MCQueryPool == {q1}

Copy(from, at, to, into, n) ==
  [kind |-> "COPY", from |-> from, at |-> at, to |-> to, into |-> into, n |-> n]
Fill(kind, to, into, n) == [kind |-> kind, to |-> to, into |-> into, n |-> n]
Barrier(i, s) == [kind |-> "BARRIER", to |-> i, layout |-> s]
Clear(i) == [kind |-> "CLEAR", to |-> i]
ToImage(from, at, to, into, n) == [Copy(from, at, to, into, n) EXCEPT !.kind = "TO_IMAGE"]
FromImage(from, at, to, into, n) == [Copy(from, at, to, into, n) EXCEPT !.kind = "FROM_IMAGE"]
Rect(i, x, y, j, u, t, w, h) ==
  [kind |-> "COPY_IMAGE", from |-> i, x |-> x, y |-> y, to |-> j, u |-> u, t |-> t,
   w |-> w, h |-> h]

\* A copy and fills that join it, that do not, and one out of range.
Linear == {Copy(b1, 0, b2, 1, 2), Copy(b2, 0, b2, 1, 2), Copy(b1, 1, b2, 0, 3), Fill("FILL", b2, 1, 1),
           Fill("FILL", b2, 0, 2), Fill("FILL", b2, 0, 3), Fill("UPDATE", b2, 2, 1)}

Framed == {ToImage(b1, 0, i1, 1, 2), FromImage(i1, 2, b2, 0, 2), Barrier(i1, "COLOR_TARGET"),
           Barrier(i1, "TRANSFER_SOURCE"), Clear(i1)}

Pictures == {Rect(i1, 0, 0, i2, 0, 1, 2, 1), Rect(i1, 1, 0, i2, 0, 0, 1, 2),
             Rect(i1, 0, 0, i1, 0, 1, 2, 1), Barrier(i2, "COLOR_TARGET"),
             Barrier(i1, "COLOR_TARGET"), Barrier(i1, "TRANSFER_SOURCE"),
             Barrier(i2, "TRANSFER_DESTINATION")}

MCCommand == Linear \cup Framed \cup Pictures

MCValue == 0 .. 2

\* In some of them counters may be used up.
Scene(objects, commands, length) ==
  [objects |-> objects, commands |-> commands, length |-> length, spent |-> FALSE]
Spent(s) == [s EXCEPT !.spent = TRUE]

Scenes ==
  {Scene({b1, b2, k1, c1}, Linear, 3),
   Scene({b1, b2, i1, k1, c1}, Framed, 2),
   Scene({i1, i2, k1, c1}, Pictures, 2),
   Spent(Scene({i1, i2, k1, c1},
               {Rect(i1, 1, 0, i2, 0, 0, 1, 2), Barrier(i1, "COLOR_TARGET")}, 2)),
   Scene({i1, i2, m1, b1, b2}, {}, 0),
   Scene({i1, b1, s1, p1, x1, d1, k1, c1}, {}, 1),
   Scene({b1, p1, p2, d1, k1, c1}, {}, 2),
   Scene({i1, r1, k1, c1}, {}, 3),
   Scene({i1, z1, r1, k1, c1}, {Barrier(i1, "TRANSFER_SOURCE")}, 2),
   Scene({i1, r1, q1, k1, c1, c2}, {}, 1),
   Scene({i1, b1, g1, r1, k1, c1}, {}, 1),
   Spent(Scene({b2, f1, h1, h2, k1, c1}, {Fill("FILL", b2, 0, 2), Copy(b2, 0, b2, 1, 2)}, 2))}

There == front.live \cup Views \cup Sets \cup pools \cup Buffers

InScene ==
  /\ ~scene.spent => /\ front.sequences = Plenty
                     /\ \A i \in Image : front.revisions[i] = Plenty
  /\ There \subseteq scene.objects
  /\ \A c \in Buffers : /\ Len(buffer[c].list) <= scene.length
                        /\ ToSet(buffer[c].list) \cap Command \subseteq scene.commands

MCInit == Init /\ scene \in Scenes /\ InScene

MCNext == Next /\ scene' = scene /\ InScene'

MCSpec == MCInit /\ [][MCNext]_all
=============================================================================
