------------------------------ MODULE MCMouse ------------------------------
(* Movements that are small, look like a header when they are lost track   *)
(* of, or do not fit a signed byte.                                        *)
EXTENDS Mouse

MCMoves == {<<1, 2>>, <<-1, -1>>, <<12, 1>>, <<200, 0>>}
=============================================================================
