------------------------------ MODULE MCShell ------------------------------
(* A screen of two rows, a directory so deep that the prompt leaves no     *)
(* room for a line, and commands one of which begins like the other.       *)
EXTENDS Shell

MCChars    == {"x"}
MCCommands == {<<"x", "x">>, <<"x", "x", "x">>}
MCDirs     == {<<>>, <<"a">>, <<"a", "b">>}
MCCdArgs   == [abs : BOOLEAN, names : {<<>>, <<"a">>, <<"b">>, <<"..">>, <<".">>, <<"a", "..", "a">>}]
=============================================================================
