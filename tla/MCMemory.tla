------------------------------ MODULE MCMemory ------------------------------
(* Sixteen frames.  The heap covers the address programs are linked to     *)
(* (UserBase), as on the real machine.  The framebuffer lies above memory, *)
(* inside it, or there is none; a usable range ends inside a page.         *)
EXTENDS Memory

UserBase == 4
P(lo, hi) == [base |-> 2 * lo, end |-> 2 * hi]

MCBootInfos == {
    [usable |-> {P(0, 1), P(2, 12), [base |-> 25, end |-> 31]}, other |-> {P(12, 16)},
     fb |-> {P(20, 21)}],
    [usable |-> {P(0, 14)}, other |-> {}, fb |-> {[base |-> 22, end |-> 25]}],
    [usable |-> {}, other |-> {}, fb |-> {}]}

S(lo, n, f, off, ok) == [lo |-> UserBase + lo, n |-> n, f |-> f, off |-> off, ok |-> ok]

MCPrograms == {
    [name |-> "hello", header |-> TRUE, image |-> 1, segs |-> <<S(0, 1, 1, 0, TRUE)>>],
    [name |-> "big",   header |-> TRUE, image |-> 2, segs |-> <<S(0, 1, 1, 0, TRUE), S(1, 2, 1, 1, TRUE)>>],
    [name |-> "joint", header |-> TRUE, image |-> 1, segs |-> <<S(0, 1, 1, 0, TRUE), S(0, 1, 1, 0, TRUE)>>],
    [name |-> "torn",  header |-> TRUE, image |-> 1, segs |-> <<S(1, 1, 1, 0, TRUE), S(2, 1, 1, 0, FALSE)>>],
    [name |-> "text",  header |-> FALSE, image |-> 1, segs |-> <<>>]}
=============================================================================
