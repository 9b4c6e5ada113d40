----------------------------- MODULE MCPawnBoard -----------------------------
(* Pages of one cell: the memory block is two cells, one for each page.  A  *)
(* file of one page and one of two; a chip whose two pages are in use.      *)
EXTENDS PawnBoard

CONSTANTS amx, s   \* a script's first word; what scripts store

MCWord  == {Blank, Zero, amx, s}
MCFiles == {<<amx>>, <<s, amx>>}

MCInitialFlash == {[a \in FlashCells |-> IF a = 0 THEN amx ELSE s]}
=============================================================================
