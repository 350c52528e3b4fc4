---------------------------- MODULE ClearTiling ----------------------------
(***************************************************************************)
(* How execute_host clears a scissor of an image (openagc_graphics.c): the *)
(* scissor is cut into windows, and each of them becomes one WRITE_DATA    *)
(* packet of the device (openagc_gpu.c).  A pixel is one dword, and so are *)
(* the units of the addresses and of the pitch.                            *)
(*                                                                         *)
(* An initial state is one call; a step is one window.                     *)
(***************************************************************************)
EXTENDS Integers, FiniteSets

CONSTANTS
  ClearDwords,  \* OPENAGC_PM4_WRITE_DATA_CLEAR_DWORDS
  MaxRows,      \* OPENAGC_PM4_WRITE_DATA_MAX_ROWS
  MaxCols,      \* OPENAGC_PM4_WRITE_DATA_MAX_COLS
  Widths,       \* widths of the scissors to try
  Heights,      \* heights of the scissors to try
  Margins,      \* columns to the left and to the right of them, rows above
  Credits       \* WRITE_DATA packets left before write_sequence overflows

ASSUME TilingAssumption ==
  /\ ClearDwords \in Nat \ {0} /\ MaxRows \in Nat \ {0, 1} /\ MaxCols \in Nat \ {0, 1}
  /\ Widths \subseteq Nat \ {0} /\ Heights \subseteq Nat \ {0}
  /\ Margins \subseteq Nat /\ Credits \subseteq Nat

VARIABLES
  scissor,  \* the rectangle that the clear covers
  pitch,    \* image.row_pitch_bytes
  tileX,    \* tile_x: columns done in this band of rows
  tileY,    \* tile_y: rows done
  painted,  \* the dwords that were written, relative to the image
  credit,   \* packets that the device can still number and mark
  result    \* "running", or what the call returned

tvars == <<scissor, pitch, tileX, tileY, painted, credit, result>>

Least(a, b) == IF a < b THEN a ELSE b

\* scissor_fits_write_data
FitsWriteData(s) ==
  /\ s.height <= MaxRows
  /\ \/ s.width <= ClearDwords
     \/ s.width <= ClearDwords * MaxCols /\ s.width % ClearDwords = 0

\* The width of the next tile, with rest columns of the band to go.
TileWidth(rest) ==
  LET w == Least(rest, ClearDwords * MaxCols)
  IN  IF w > ClearDwords /\ w % ClearDwords # 0 THEN ClearDwords ELSE w

\* The window that is written next.
Window ==
  IF FitsWriteData(scissor) THEN scissor
  ELSE [x |-> scissor.x + tileX, y |-> scissor.y + tileY,
        width |-> TileWidth(scissor.width - tileX),
        height |-> Least(MaxRows, scissor.height - tileY)]

Pixel(x, y) == y * pitch + x
Area(s) == {Pixel(x, y) : x \in s.x .. s.x + s.width - 1, y \in s.y .. s.y + s.height - 1}

\* clear_scissor_write_data_value takes a window for one run of pixels ...
IsRun(w) ==
  \/ w.height = 1
  \/ w.x = 0 /\ w.width = pitch /\ w.width * w.height <= ClearDwords

\* ... or for a grid of columns, or for rows.
IsGrid(w) == ~IsRun(w) /\ w.width > ClearDwords

Columns(w) == w.width \div ClearDwords

\* The device takes the packet: host_write_data_memory, _grid and _rows.
TakesRun(n) == n \in 1 .. ClearDwords
TakesGrid(columns, rows) ==
  rows <= MaxRows /\ columns <= MaxCols /\ columns * ClearDwords <= pitch
TakesRows(width, rows) == rows <= MaxRows /\ width <= pitch

Takes(w) ==
  CASE IsRun(w)  -> TakesRun(w.width * w.height)
    [] IsGrid(w) -> TakesGrid(Columns(w), w.height)
    [] OTHER     -> TakesRows(w.width, w.height)

\* Mutant: the rows follow each other without the padding of the pitch.
TouchesPacked(w) == Pixel(w.x, w.y) .. Pixel(w.x, w.y) + w.width * w.height - 1

\* The dwords that it writes then.
Touches(w) ==
  IF IsRun(w) THEN Pixel(w.x, w.y) .. Pixel(w.x, w.y) + w.width * w.height - 1
  ELSE Area([w EXCEPT !.width = IF IsGrid(w) THEN Columns(w) * ClearDwords ELSE @])

TInit ==
  \E w \in Widths, h \in Heights, left \in Margins, right \in Margins, above \in Margins :
    /\ scissor = [x |-> left, y |-> above, width |-> w, height |-> h]
    /\ pitch = left + w + right
    /\ tileX = 0 /\ tileY = 0 /\ painted = {}
    /\ credit \in Credits /\ result = "running"

\* Mutant: a tile is taken to be one column wide.
AdvanceColumn ==
  LET last == tileX + ClearDwords >= scissor.width
  IN  /\ tileX' = IF last THEN 0 ELSE tileX + ClearDwords
      /\ tileY' = IF last THEN tileY + MaxRows ELSE tileY
      /\ result' = IF last /\ tileY + MaxRows >= scissor.height THEN "OK" ELSE "running"

\* The loops of clear_scissor_write_data_value_tiled go on to the next window.
Advance ==
  LET w == Window
      last == tileX + w.width >= scissor.width
  IN  /\ tileX' = IF last THEN 0 ELSE tileX + w.width
      /\ tileY' = IF last THEN tileY + MaxRows ELSE tileY
      /\ result' = IF last /\ tileY + MaxRows >= scissor.height THEN "OK" ELSE "running"

Write ==
  /\ result = "running" /\ Takes(Window) /\ credit # 0
  /\ painted' = painted \cup Touches(Window)
  /\ credit' = credit - 1
  /\ Advance
  /\ UNCHANGED <<scissor, pitch>>

Refuse ==
  /\ result = "running"
  /\ \/ ~Takes(Window) /\ result' = "OUT_OF_RANGE"
     \/ Takes(Window) /\ credit = 0 /\ result' = "OVERFLOW"
  /\ UNCHANGED <<scissor, pitch, tileX, tileY, painted, credit>>

TNext == Write \/ Refuse

TSpec == TInit /\ [][TNext]_tvars

-----------------------------------------------------------------------------

\* A clear writes the dwords of its scissor and nothing else, not the padding of
\* a row nor a neighbour, and none of them twice; a clear that returns OK has
\* written them all.  What the device refuses is a window of one row that is
\* wider than a column, which is what ends a clear with one row in its last band
\* where that band starts with a grid.
PaintsItsScissor ==
  LET lonely == /\ scissor.height % MaxRows = 1 /\ scissor.width > ClearDwords
                /\ \/ scissor.width >= ClearDwords * MaxCols
                   \/ scissor.width % ClearDwords = 0
  IN /\ painted \subseteq Area(scissor)
     /\ result = "running" => Touches(Window) \cap painted = {}
     /\ result = "OK" => painted = Area(scissor) /\ ~lonely
     /\ result = "OUT_OF_RANGE" => lonely /\ Window.height = 1

\* The documentation: "larger scissors are tiled into those windows", which
\* the device takes; so no scissor is out of its range.
EveryScissorIsTiled == result # "OUT_OF_RANGE"
=============================================================================
