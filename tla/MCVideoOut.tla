----------------------------- MODULE MCVideoOut -----------------------------
(* VideoOut for TLC, with the address of a pixel beside it.                *)
EXTENDS VideoOut, TileAddress

\* While a frame is drawn, no pixel lands in another's word or outside its
\* buffer, which would be on the other, the one on the screen.
PixelsKeepApart == pc = "draw" => TilesAreDisjoint
=============================================================================
