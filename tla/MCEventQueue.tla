---------------------------- MODULE MCEventQueue ----------------------------
(* A ring of four slots holds three events, so five or six pushes fill it, *)
(* overflow it and carry both indices around the end of the array.         *)
EXTENDS EventQueue
=============================================================================
