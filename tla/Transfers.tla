----------------------------- MODULE Transfers -----------------------------
(***************************************************************************)
(* What the front end does to the bytes and the states of its images and   *)
(* buffers (openagc_frontend.c): uploads, readbacks, copies, fills, clears *)
(* and transitions.  All of them are synchronous: a call is an operator    *)
(* from the state of the front end to its result and the state after it.   *)
(* A call that moves bytes to or from an image records it into its copy    *)
(* state first and back afterwards, each time through the one recording    *)
(* and the one copy list the device has (Graphics and CopyQueue).          *)
(*                                                                         *)
(* f.bytes[o][k] says where the value of dword k of object o comes from.   *)
(* No guard reads it, so a step starts with every dword holding its own    *)
(* name.                                                                   *)
(***************************************************************************)
EXTENDS Integers, FiniteSets, SequencesExt

CONSTANTS
  Image, Color, Depth,       \* front-end images, color and depth targets of them
  Sampled,                   \* those of them that shaders may sample
  Buffer,                    \* front-end buffers
  Source, Destination,       \* ... with the copy source and destination bits
  Readable,                  \* ... with the shader read bit
  Columns, Rows,             \* of every image; a row holds nothing else
  Length,                    \* dwords of every buffer
  Staging,                   \* staging_bytes, in dwords
  Packet, PacketRows,        \* WRITE_DATA_CLEAR_DWORDS, WRITE_DATA_MAX_ROWS
  Plenty,                    \* more of a counter than is ever used up
  Nothing                    \* a null pointer

Object == Image \cup Buffer

ASSUME TransfersAssumption ==
  /\ Image \cap Buffer = {} /\ Nothing \notin Object
  /\ Color \cup Depth = Image /\ Color \cap Depth = {} /\ Sampled \subseteq Color
  /\ Source \cup Destination \cup Readable \subseteq Buffer
  /\ {Columns, Rows, Length, Staging, Packet, PacketRows} \subseteq Nat \ {0}
  /\ Columns <= Packet
  /\ Plenty \notin Nat

Layout == {"UNDEFINED", "COLOR_TARGET", "DEPTH_TARGET", "SHADER_READ",
           "TRANSFER_SOURCE", "TRANSFER_DESTINATION"}

Size(o) == IF o \in Image THEN Columns * Rows ELSE Length

Own == [o \in Object |-> [k \in 0 .. Size(o) - 1 |-> <<o, k>>]]

Done(f) == [ok |-> TRUE, now |-> f]
Refused(f) == [ok |-> FALSE, now |-> f]

\* The calls of a function up to the first that fails.
Then(r, Call(_)) == IF r.ok THEN Call(r.now) ELSE r

\* Counters are kept as what is left of them.
Less(n) == IF n = Plenty THEN Plenty ELSE n - 1

\* The images the usage bits let into state s.
Usable(s) == CASE s = "COLOR_TARGET" -> Color
               [] s = "DEPTH_TARGET" -> Depth
               [] s = "SHADER_READ"  -> Sampled
               [] OTHER              -> Image

\* The objects that have memory: a block of the heap or a front-end memory.
Bound(f) == {o \in Object : f.home[o] # Nothing}

\* image_transition and image_record.  The list still names the image if the
\* commit is refused, until the next reset.  A half destroyed image has no
\* state to go from; so has one that was never bound, for all but the caller.
Recorded(f, i, s) ==
  LET g == [f EXCEPT !.retained = Nothing]
  IN IF f.state[i] = "gone" THEN Refused(f)
     ELSE IF s = f.state[i] \/ i \notin Bound(f) \cap Usable(s) THEN Refused(g)
     ELSE IF f.revisions[i] = 0 THEN Refused([f EXCEPT !.retained = i])
     ELSE Done([g EXCEPT !.state[i] = s, !.revisions[i] = Less(@)])

Entered(f, i, s) == IF f.state[i] = s THEN Done(f) ELSE Recorded(f, i, s)

\* A step that needs image i in state s: there, and back afterwards.
Within(f, i, s, Step(_)) ==
  LET Back(g) == Entered(g, i, f.state[i])
      Moved(g) == Then(Step(g), Back)
  IN IF i \notin Bound(f) \/ f.state[i] = "gone" THEN Refused(f)
     ELSE Then(Entered(f, i, s), Moved)

-----------------------------------------------------------------------------
(* Moves of dwords.                                                        *)

InRange(o, p, n) == n # 0 /\ p + n <= Size(o) /\ n <= Staging

\* n dwords of a from p on, written to b from q on.
Moving(f, a, p, b, q, n) ==
  [f EXCEPT !.bytes[b] =
     [k \in DOMAIN @ |-> IF k \in q .. q + n - 1 THEN f.bytes[a][p + k - q] ELSE @[k]]]

\* ... and n times the value v.
Filling(f, b, q, n, v) ==
  [f EXCEPT !.bytes[b] = [k \in DOMAIN @ |-> IF k \in q .. q + n - 1 THEN v ELSE @[k]]]

Overlaps(a, p, b, q, n) == a = b /\ p < q + n /\ q < p + n

\* One submission of the copy list, which names the objects until it is reset:
\* moved is what its moves make of f.
Submitted(f, objects, moved) ==
  IF f.sequences = 0 THEN Refused([f EXCEPT !.listed = objects])
  ELSE Done([moved EXCEPT !.listed = {}, !.sequences = Less(@)])

\* frontend_copy between two objects: overlapping ranges are not recorded.
Copied(f, a, p, b, q, n) ==
  IF Overlaps(a, p, b, q, n) THEN Refused([f EXCEPT !.listed = {}])
  ELSE Submitted(f, {a, b}, Moving(f, a, p, b, q, n))

\* ... from the staging buffer: n dwords of v.
Staged(f, b, q, n, v) == Submitted(f, {b}, Filling(f, b, q, n, v))

\* ... to the staging buffer.
Fetched(f, a) == Submitted(f, {a}, f)

\* buffer_upload: without the copy bit a uniform is written in place.
UploadBuffer(f, b, q, n, v) ==
  IF b \notin Bound(f) \cap (Destination \cup Readable) \/ ~InRange(b, q, n) THEN Refused(f)
  ELSE IF b \in Destination THEN Staged(f, b, q, n, v) ELSE Done(Filling(f, b, q, n, v))

\* buffer_readback
ReadBuffer(f, a, p, n) ==
  IF a \notin Bound(f) \cap (Source \cup Readable) \/ ~InRange(a, p, n) THEN Refused(f)
  ELSE IF a \in Source THEN Fetched(f, a) ELSE Done(f)

\* buffer_copy
CopyBuffer(f, a, p, b, q, n) ==
  IF /\ {a, b} \subseteq Bound(f) /\ a \in Source /\ b \in Destination
     /\ InRange(a, p, n) /\ InRange(b, q, n)
  THEN Copied(f, a, p, b, q, n) ELSE Refused(f)

\* One packet, or one run of packet rows.
Packed(f, b, q, n, v) ==
  IF f.writes = 0 THEN Refused(f)
  ELSE Done([Filling(f, b, q, n, v) EXCEPT !.writes = Less(@)])

\* buffer_fill: rows of whole packets, then the rest; a long fill is staged.
FillBuffer(f, b, q, n, v) ==
  LET whole == n - (n % Packet)
      Rest(g) == IF whole = n THEN Done(g) ELSE Packed(g, b, q + whole, n - whole, v)
  IN IF b \notin Bound(f) \cap Destination \/ ~InRange(b, q, n) THEN Refused(f)
     ELSE IF n > Packet * PacketRows THEN Staged(f, b, q, n, v)
     ELSE IF whole = 0 THEN Rest(f) ELSE Then(Packed(f, b, q, whole, v), Rest)

\* Mutant: the composite packet fills before it copies.
FillThenCopy(f, a, p, b, q, n, w, v) ==
  IF f.writes = 0 THEN Refused(f)
  ELSE Done([Moving(Filling(f, b, q, w, v), a, p, b, q, n) EXCEPT !.writes = Less(@)])

\* host_dma_write_data: a copy of n dwords, then a fill of its first w, in one
\* packet.  Ranges that overlap are not refused here; nor is what is then
\* copied defined (HostCopyFill of CopyQueue), and this takes the old values.
Composite(f, a, p, b, q, n, w, v) ==
  IF f.writes = 0 THEN Refused(f)
  ELSE Done([Filling(Moving(f, a, p, b, q, n), b, q, w, v) EXCEPT !.writes = Less(@)])

\* buffer_copy_then_fill
CopyThenFill(f, a, p, b, q, n, w, v) ==
  LET Fill(g) == FillBuffer(g, b, q, w, v)
  IN IF \/ ~({a, b} \subseteq Bound(f) /\ a \in Source /\ b \in Destination)
        \/ ~(InRange(a, p, n) /\ InRange(b, q, n))
     THEN Refused(f)
     ELSE IF w \notin 1 .. n \/ w > Packet THEN Then(CopyBuffer(f, a, p, b, q, n), Fill)
     ELSE Composite(f, a, p, b, q, n, w, v)

-----------------------------------------------------------------------------
(* Moves to and from images.                                               *)

UploadImage(f, i, q, n, v) ==
  LET Step(g) == Staged(g, i, q, n, v)
  IN IF InRange(i, q, n) THEN Within(f, i, "TRANSFER_DESTINATION", Step) ELSE Refused(f)

ReadImage(f, i, p, n) ==
  LET Step(g) == Fetched(g, i)
  IN IF InRange(i, p, n) THEN Within(f, i, "TRANSFER_SOURCE", Step) ELSE Refused(f)

\* Mutant: the image stays in its copy state.
CopyToImageOnly(f, a, p, i, q, n) ==
  LET Step(g) == Copied(g, a, p, i, q, n)
  IN IF a \in Bound(f) \cap Source /\ InRange(a, p, n) /\ InRange(i, q, n) /\ i \in Bound(f)
     THEN Then(Entered(f, i, "TRANSFER_DESTINATION"), Step) ELSE Refused(f)

CopyToImage(f, a, p, i, q, n) ==
  LET Step(g) == Copied(g, a, p, i, q, n)
  IN IF a \in Bound(f) \cap Source /\ InRange(a, p, n) /\ InRange(i, q, n)
     THEN Within(f, i, "TRANSFER_DESTINATION", Step) ELSE Refused(f)

CopyFromImage(f, i, p, b, q, n) ==
  LET Step(g) == Copied(g, i, p, b, q, n)
  IN IF b \in Bound(f) \cap Destination /\ InRange(i, p, n) /\ InRange(b, q, n)
     THEN Within(f, i, "TRANSFER_SOURCE", Step) ELSE Refused(f)

\* Mutant: the rows of the destination follow one another.
PiecesPacked(w, h) ==
  [k \in 1 .. h |-> [at |-> w * (k - 1), n |-> w]]

\* The copies of a rectangle: each row, in pieces of at most the staging size.
Pieces(w, h) ==
  LET piece == IF Staging < w THEN Staging ELSE w
      each  == (w + piece - 1) \div piece
  IN [k \in 1 .. h * each |->
        LET done == ((k - 1) % each) * piece
        IN [at |-> Columns * ((k - 1) \div each) + done,
            n  |-> IF w - done < piece THEN w - done ELSE piece]]

CopiedPieces(f, i, p, j, q, pieces) ==
  LET Next(r, piece) ==
        LET Copy(g) == Copied(g, i, p + piece.at, j, q + piece.at, piece.n) IN Then(r, Copy)
  IN FoldLeft(Next, Done(f), pieces)

\* image_copy_rect, of w by h pixels from <<x, y>> of i to <<u, t>> of j.  When
\* the destination cannot enter its copy state, the result is that of putting
\* the source back, which is done even if it was there before.
CopyRect(f, i, x, y, j, u, t, w, h) ==
  LET Rest(g) == CopiedPieces(g, i, Columns * y + x, j, Columns * t + u, Pieces(w, h))
      BackDestination(g) == Entered(g, j, f.state[j])
      BackSource(g) == Entered(g, i, f.state[i])
      Into(g) ==
        LET entered == Entered(g, j, "TRANSFER_DESTINATION")
        IN IF entered.ok THEN Then(Then(Rest(entered.now), BackDestination), BackSource)
           ELSE Recorded(entered.now, i, f.state[i])
  IN IF \/ ~({i, j} \subseteq Bound(f)) \/ i = j \/ (i \in Color) # (j \in Color)
        \/ w \notin 1 .. Columns \/ h \notin 1 .. Rows
        \/ x + w > Columns \/ u + w > Columns \/ y + h > Rows \/ t + h > Rows
        \/ "gone" \in {f.state[i], f.state[j]}
     THEN Refused(f)
     ELSE Then(Entered(f, i, "TRANSFER_SOURCE"), Into)

-----------------------------------------------------------------------------
(* Clears.                                                                 *)

\* The dwords of a rectangle of an image.
Rectangle(x, y, w, h) == {Columns * r + c : c \in x .. x + w - 1, r \in y .. y + h - 1}

\* image_clear_rect and image_clear_depth_rect: image i is in the state s the
\* clear needs, and stays in it, yet the commit counts as a change.  Windows
\* and their packets are in ClearTiling; no row is wider than a packet here.
Cleared(f, i, s, area, v) ==
  LET g == [f EXCEPT !.retained = Nothing]
      committed == [g EXCEPT !.revisions[i] = Less(@)]
  IN IF i \notin Bound(f) \/ f.state[i] # s THEN Refused(f)
     ELSE IF area = {} \/ ~(area \subseteq DOMAIN f.bytes[i]) \/ f.revisions[i] = 0 THEN Refused(g)
     ELSE IF f.writes = 0 THEN Refused(committed)
     ELSE Done([committed EXCEPT !.writes = Less(@),
                  !.bytes[i] = [k \in DOMAIN @ |-> IF k \in area THEN v ELSE @[k]]])

ClearColor(f, i, area, v) == Cleared(f, i, "COLOR_TARGET", area, v)
ClearDepth(f, i, area, v) == Cleared(f, i, "DEPTH_TARGET", area, v)
=============================================================================
