----------------------------- MODULE EventQueue -----------------------------
(***************************************************************************)
(* The input event queue of kernel/events.c: a ring filled by interrupt    *)
(* handlers (timer.c, keyboard.c, mouse.c) and emptied by the main loop of *)
(* kernel.c.                                                               *)
(*                                                                         *)
(* A push runs inside a handler, with interrupts off, and a pop runs under *)
(* cli, so each is one action.  The main loop is not: between the pop that *)
(* finds the ring empty and the hlt that follows, an interrupt may push an *)
(* event and return, and the loop then halts over a full queue.            *)
(*                                                                         *)
(* Events carry a serial number in place of their time stamp and payload.  *)
(* merged (the events overwritten), dropped (the serial numbers refused)   *)
(* and delivered record what became of each; the code has no such          *)
(* variables.                                                              *)
(***************************************************************************)
EXTENDS Naturals, Sequences

CONSTANTS
    EVQ_SIZE,     \* slots of the ring (1024 in the code)
    BATCH,        \* events the main loop takes before it handles them (32)
    MaxSerial     \* bound on the number of events ever pushed

ASSUME EvqSizeAssumption   == EVQ_SIZE \in Nat /\ EVQ_SIZE >= 2
ASSUME BatchAssumption     == BATCH \in Nat \ {0}
ASSUME MaxSerialAssumption == MaxSerial \in Nat

VARIABLES
    g_q, g_head, g_tail,    \* the ring of events.c
    loop,                   \* where the main loop is
    batch,                  \* qn: events taken in this round
    serial,                 \* events pushed so far
    delivered,              \* events popped, oldest first
    merged, dropped         \* events overwritten, serial numbers refused

ring    == <<g_q, g_head, g_tail>>
history == <<serial, delivered, merged, dropped>>
vars    == <<ring, loop, batch, history>>

Index == 0 .. EVQ_SIZE - 1

(* EV_CHAR and EV_KEY are alike to the queue; change is bit 1 of the flags *)
(* of a mouse event, set when a button went up or down.                    *)
EventType == {"key", "mouse", "tick"}
NewEvent  == {ev \in [type : EventType, change : BOOLEAN, n : 1 .. MaxSerial] :
                 ev.change => ev.type = "mouse"}
NoEvent   == [type |-> "none", change |-> FALSE, n |-> 0]

IsMove(ev) == ev.type = "mouse" /\ ~ev.change
IsTick(ev) == ev.type = "tick"

(* Mutant: the flags of the event already in the queue are not looked at.  *)
MergesAnyMouse(old, new) ==
    \/ old.type = "mouse" /\ IsMove(new)
    \/ IsTick(old) /\ IsTick(new)

(* The two coalescing rules of events_push_isr.                            *)
Merges(old, new) ==
    \/ IsMove(old) /\ IsMove(new)
    \/ IsTick(old) /\ IsTick(new)

q_prev(i) == (i + EVQ_SIZE - 1) % EVQ_SIZE
q_next(i) == (i + 1) % EVQ_SIZE

Init ==
    /\ g_q = [i \in Index |-> NoEvent]
    /\ g_head = 0
    /\ g_tail = 0
    /\ loop = "waiting"
    /\ batch = 0
    /\ serial = 0
    /\ delivered = << >>
    /\ merged = {}
    /\ dropped = {}

-----------------------------------------------------------------------------
(* events_push_isr.                                                        *)

(* Mutant: coalescing does not ask whether the ring is empty.              *)
CoalescesPopped(ev) == Merges(g_q[q_prev(g_head)], ev)

(* Only an event that is still in the ring may be overwritten.             *)
Coalesces(ev) == g_head # g_tail /\ Merges(g_q[q_prev(g_head)], ev)

Overwrite(ev) ==
    /\ Coalesces(ev)
    /\ g_q' = [g_q EXCEPT ![q_prev(g_head)] = ev]
    /\ merged' = merged \cup {g_q[q_prev(g_head)]}
    /\ UNCHANGED <<g_head, g_tail, dropped>>

(* One slot stays empty, so that a full ring differs from an empty one.    *)
IsFull == q_next(g_head) = g_tail

Drop(ev) ==
    /\ ~Coalesces(ev)
    /\ IsFull
    /\ dropped' = dropped \cup {ev.n}
    /\ UNCHANGED <<ring, merged>>

(* Mutant: a full ring is not noticed.                                     *)
StoreUnchecked(ev) ==
    /\ ~Coalesces(ev)
    /\ g_q' = [g_q EXCEPT ![g_head] = ev]
    /\ g_head' = q_next(g_head)
    /\ UNCHANGED <<g_tail, merged, dropped>>

Store(ev) ==
    /\ ~Coalesces(ev)
    /\ ~IsFull
    /\ g_q' = [g_q EXCEPT ![g_head] = ev]
    /\ g_head' = q_next(g_head)
    /\ UNCHANGED <<g_tail, merged, dropped>>

Push(type, change) ==
    LET ev == [type |-> type, change |-> change, n |-> serial + 1] IN
    /\ serial < MaxSerial
    /\ serial' = serial + 1
    /\ Overwrite(ev) \/ Drop(ev) \/ Store(ev)
    /\ UNCHANGED delivered

-----------------------------------------------------------------------------
(* Interrupts.  Each of them ends a hlt.                                   *)

Wake == loop' = IF loop = "halted" THEN "waiting" ELSE loop

KeyboardIrq == Push("key", FALSE) /\ Wake /\ UNCHANGED batch

MouseIrq == /\ \E change \in BOOLEAN : Push("mouse", change)
            /\ Wake
            /\ UNCHANGED batch

(* timer_irq pushes a frame tick when its accumulator of 60ths overflows,  *)
(* every tenth time at 600 Hz.                                             *)
TimerIrq == /\ Push("tick", FALSE) \/ UNCHANGED <<ring, history>>
            /\ Wake
            /\ UNCHANGED batch

-----------------------------------------------------------------------------
(* The main loop: events_wait for the first event of a batch, events_pop   *)
(* for the others.                                                         *)

IsEmpty == g_tail = g_head

(* events_pop with an event to hand out.                                   *)
Pop ==
    /\ ~IsEmpty
    /\ delivered' = Append(delivered, g_q[g_tail])
    /\ g_tail' = q_next(g_tail)
    /\ UNCHANGED <<g_q, g_head, serial, merged, dropped>>

WaitTakes ==
    /\ loop = "waiting"
    /\ Pop
    /\ loop' = "draining"
    /\ batch' = 1

WaitFindsNothing ==
    /\ loop = "waiting"
    /\ IsEmpty
    /\ loop' = "empty"
    /\ UNCHANGED <<ring, batch, history>>

(* Mutant: the loop halts with interrupts off, so that nothing wakes it.   *)
HaltForGood ==
    /\ loop = "empty"
    /\ loop' = "off"
    /\ UNCHANGED <<ring, batch, history>>

Halt ==
    /\ loop = "empty"
    /\ loop' = "halted"
    /\ UNCHANGED <<ring, batch, history>>

TakeMore ==
    /\ loop = "draining"
    /\ batch < BATCH
    /\ Pop
    /\ batch' = batch + 1
    /\ UNCHANGED loop

(* The batch is full or the ring empty: handle the batch, start over.      *)
HandleBatch ==
    /\ loop = "draining"
    /\ batch = BATCH \/ IsEmpty
    /\ loop' = "waiting"
    /\ batch' = 0
    /\ UNCHANGED <<ring, history>>

MainLoop == WaitTakes \/ WaitFindsNothing \/ Halt \/ TakeMore \/ HandleBatch

-----------------------------------------------------------------------------
Next == KeyboardIrq \/ MouseIrq \/ TimerIrq \/ MainLoop

Spec == Init /\ [][Next]_vars

(* The shell thread keeps being scheduled (Scheduler, NoStarvation) and    *)
(* the timer keeps interrupting; nobody has to touch keyboard or mouse.    *)
FairSpec == Spec /\ WF_vars(MainLoop) /\ WF_vars(TimerIrq)

-----------------------------------------------------------------------------
(* Properties.                                                             *)

Length == (g_head + EVQ_SIZE - g_tail) % EVQ_SIZE

(* The ring read from the tail on, as a sequence.                          *)
Contents == [i \in 1 .. Length |-> g_q[(g_tail + i - 1) % EVQ_SIZE]]

TypeOK ==
    /\ g_q \in [Index -> NewEvent \cup {NoEvent}]
    /\ g_head \in Index
    /\ g_tail \in Index
    /\ loop \in {"waiting", "empty", "halted", "draining"}
    /\ batch \in 0 .. BATCH
    /\ serial \in 0 .. MaxSerial
    /\ delivered \in Seq(NewEvent)
    /\ merged \subseteq NewEvent
    /\ dropped \subseteq 1 .. MaxSerial

(* What the main loop has received and will receive, oldest first.         *)
Stream == delivered \o Contents
Serials(seq) == {seq[i].n : i \in DOMAIN seq}
MergedSerials == {ev.n : ev \in merged}

(* No event is lost, repeated or reordered: delivered events followed by   *)
(* those in the ring appear in the order they were pushed, and the pushed  *)
(* events missing there are exactly those the push merged or refused       *)
(* (events_push_isr, events_pop, the slot kept empty in the ring).         *)
NothingLost ==
    /\ \A i, j \in DOMAIN Stream : i < j => Stream[i].n < Stream[j].n
    /\ Serials(Stream) \cup MergedSerials \cup dropped = 1 .. serial
    /\ Serials(Stream) \cap (MergedSerials \cup dropped) = {}

(* Coalescing loses only what a later event of the same run repeats: every *)
(* merged event was followed, with nothing but merged or refused events in *)
(* between, by an event of the stream that is a move as it was, or a tick  *)
(* as it was; no press, release or key is ever merged away                 *)
(* (events_push_isr).                                                      *)
MergedIsSuperseded ==
    \A m \in merged : \E i \in DOMAIN Stream :
       /\ \/ IsMove(m) /\ IsMove(Stream[i])
          \/ IsTick(m) /\ IsTick(Stream[i])
       /\ m.n < Stream[i].n
       /\ \A k \in m.n .. (Stream[i].n - 1) : k \in MergedSerials \cup dropped

(* Every event in the ring reaches the main loop, although the loop may    *)
(* halt just after the event came in (events_wait): the timer wakes it.    *)
EverythingIsDelivered ==
    \A k \in 1 .. MaxSerial :
       k \in Serials(Contents) ~> k \in Serials(delivered) \cup MergedSerials

(* The ring implements the bounded queue.                                  *)
Fifo == INSTANCE EventFifo WITH
            Event <- NewEvent, Merges <- Merges, Capacity <- EVQ_SIZE - 1,
            queue <- Contents
ImplementsFifo == Fifo!Spec

(* "Coalesce ticks so we never backlog frames" (events.c:46): at most one  *)
(* frame tick waits in the queue.  The code does not keep this: it only    *)
(* looks at the newest event, and any other event in between starts a new  *)
(* tick.                                                                   *)
NoFrameBacklog ==
    \A i, j \in DOMAIN Contents : IsTick(Contents[i]) /\ IsTick(Contents[j]) => i = j

=============================================================================
