-------------------------- MODULE MCWindowManager --------------------------
(* Terminal, notepad and explorer: one window of each way to treat a press *)
(* and a character, but for the demo, whose text box differs from the      *)
(* notepad only in keeping its focus.                                      *)
EXTENDS WindowManager

MCWinType == <<"TERM", "NOTE", "EXPL">>
MCIcons   == {2}
=============================================================================
