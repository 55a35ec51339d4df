----------------------------- MODULE MCKeyboard -----------------------------
(* A key of each way to decode a byte: backspace (a pair), an arrow and a  *)
(* modifier with the prefix.  A letter is an arrow with another code.      *)
EXTENDS Keyboard

K(ext, code) == [ext |-> ext, code |-> code]
MCKeys == {K(FALSE, "bs"), K(TRUE, "left"), K(TRUE, "ctrl")}
=============================================================================
