----------------------------- MODULE MCFmtBuffer -----------------------------
EXTENDS FmtBuffer

(* Pieces below, at and above the size of the arrays. *)
MCPieces == {<<1>>, <<1, 2>>, <<1, 2, 3, 4>>}
MCInitials == {<<>>, <<7>>}

==============================================================================
