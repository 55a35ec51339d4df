------------------------------ MODULE EventFifo ------------------------------
(***************************************************************************)
(* What the event queue promises to its producers and to the main loop: a  *)
(* bounded first-in first-out queue that keeps only the latest of a run of *)
(* pointer moves, or of frame ticks, that nothing else separates, and that *)
(* drops what comes when it is full.                                       *)
(***************************************************************************)
EXTENDS Naturals, Sequences

CONSTANTS
    Event,            \* the events producers may push
    Merges(_, _),     \* Merges(old, new): new may replace old at the end
    Capacity          \* events the queue can hold

VARIABLE queue

Init == queue = << >>

Back == queue[Len(queue)]
CanMerge(ev) == queue # << >> /\ Merges(Back, ev)

Merge(ev) ==
    /\ CanMerge(ev)
    /\ queue' = [queue EXCEPT ![Len(queue)] = ev]

Put(ev) ==
    /\ ~CanMerge(ev)
    /\ Len(queue) < Capacity
    /\ queue' = Append(queue, ev)

Take ==
    /\ queue # << >>
    /\ queue' = Tail(queue)

(* Refusing an event when the queue is full leaves it unchanged.           *)
Next == Take \/ \E ev \in Event : Merge(ev) \/ Put(ev)

Spec == Init /\ [][Next]_queue
=============================================================================
