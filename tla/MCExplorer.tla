----------------------------- MODULE MCExplorer -----------------------------
(* Two directories can be made, one in the other, and the path has room    *)
(* for one of them; a file holds what the notepad cannot keep.             *)
EXTENDS Explorer

CONSTANTS a, b

MCNames   == {a, b}
MCTexts   == {<<Char>>}
MCInitial == <<File(a, <<Char, CR, Char>>), NONE>>
=============================================================================
