------------------------------ MODULE Keyboard ------------------------------
(***************************************************************************)
(* The keyboard: keyboard.c and the part of the main loop (kernel.c) that  *)
(* repeats a held key.                                                     *)
(*                                                                         *)
(* The interrupt handler decodes one scan code byte, pushes the events of  *)
(* a press and remembers the key as held; it is one action.  The main loop *)
(* calls keyboard_repeat_event with interrupts on, so a byte may come in   *)
(* between any two of its reads of the held key: each read is an action.   *)
(* The repeated events do not pass through the queue.                      *)
(*                                                                         *)
(* The keyboard itself (keys that go down and up, the bytes on their way)  *)
(* is external.  Alt is decoded like Ctrl and the right Shift like the     *)
(* left one; Caps Lock, the case of letters, and the modifiers and time    *)
(* stamps of events are left out.  Time is counted in repeat intervals.    *)
(***************************************************************************)
EXTENDS Integers, Sequences

CONSTANTS
    Keys,        \* the keys of the keyboard
    DELAY,       \* REPEAT_DELAY_MS / REPEAT_RATE_MS
    EVQ_SIZE,    \* events the queue holds (1023)
    BATCH,       \* events the main loop takes at once (32)
    WireMax,     \* bound on the bytes between keyboard and handler
    MaxLag       \* bound on how late a repeat is counted to be

(* A key is its scan code and whether an E0 byte precedes it: the arrow    *)
(* keys share their codes with the keypad, right Ctrl with left Ctrl.      *)
Code == {"a", "bs", "left", "shift", "ctrl"}
Key  == [ext : BOOLEAN, code : Code]

ASSUME KeysAssumption  == Keys \subseteq Key
ASSUME DelayAssumption == DELAY \in Nat \ {0}
ASSUME QueueAssumption == EVQ_SIZE \in Nat \ {0} /\ BATCH \in Nat \ {0}
ASSUME BoundAssumption == WireMax \in Nat /\ MaxLag \in Nat

VARIABLES
    down,            \* keys that are physically down
    typematic,       \* the key the keyboard itself repeats, or none
    wire,            \* bytes the handler has not read yet
    flags, e0,       \* shift_l, ctrl_l, ctrl_r; e0_prefix
    held, phase,     \* held_id, held_kind, held_code; bs_phase
    lag,             \* now - held_next_ms
    queue,           \* the event queue
    loop, batch,     \* where the main loop is, events it has taken
    kind, out,       \* held_kind and the event as read in the call
    raced,           \* a byte came in since the call began
    last             \* half of a backspace that was handled last, or none

keyboard == <<down, typematic, wire>>
decoder  == <<flags, e0, held, phase>>
mainloop == <<loop, batch, kind, out>>
vars     == <<keyboard, decoder, lag, queue, mainloop, raced, last>>

-----------------------------------------------------------------------------
(* Decoding.                                                               *)

NoKey  == [ext |-> FALSE, code |-> "none"]
NoHeld == [id |-> NoKey, kind |-> "none", code |-> "none"]

(* Mutant: the prefix is not looked at.                                    *)
FlagOfCode(k) == CASE k.code = "shift" -> {"shift"}
                   [] k.code = "ctrl"  -> {"ctrl_l"}
                   [] OTHER            -> {}

(* The handler compares shift by its code alone, Ctrl with the prefix.     *)
Flag(k) == CASE k.code = "shift"          -> {"shift"}
             [] k.code = "ctrl" /\ ~k.ext -> {"ctrl_l"}
             [] k.code = "ctrl" /\ k.ext  -> {"ctrl_r"}
             [] OTHER                     -> {}

Kind(k) == CASE k.code = "left" /\ k.ext -> "key"
             [] k.code = "bs" /\ ~k.ext  -> "pair"
             [] k.code = "a" /\ ~k.ext   -> "char"
             [] OTHER                    -> "none"

(* held_code: the character, the key's number, 0 for a backspace.          *)
Meaning(k) == CASE Kind(k) = "char" -> k.code
                [] Kind(k) = "key"  -> "LEFT"
                [] OTHER            -> "none"

(* An event; half marks those of a backspace (cut, if the queue had no     *)
(* room for the second), again those of a repeat.                          *)
Event(type, code, half, again) ==
    [type |-> type, code |-> code, half |-> half, again |-> again]
NoEvent == Event("none", "none", "no", FALSE)
Tick    == Event("tick", "none", "no", FALSE)

(* The events of a press.                                                  *)
Pressed(k) ==
    IF Kind(k) = "pair"
    THEN <<Event("key", "LEFT", "whole", FALSE), Event("key", "DELETE", "whole", FALSE)>>
    ELSE <<Event(Kind(k), Meaning(k), "no", FALSE)>>

(* events_push_isr, as EventFifo states it: ticks that follow each other   *)
(* are one, and a full queue refuses.                                      *)
Room(evs) == Len(queue) + Len(evs) <= EVQ_SIZE
Cut(evs) == [i \in 1 .. (EVQ_SIZE - Len(queue)) |-> [evs[i] EXCEPT !.half = "cut"]]
Push(evs) == queue' = queue \o (IF Room(evs) THEN evs ELSE Cut(evs))

-----------------------------------------------------------------------------
Init ==
    /\ down = {} /\ typematic = NoKey /\ wire = << >>
    /\ flags = {} /\ e0 = FALSE
    /\ held = NoHeld /\ phase = 0 /\ lag = MaxLag
    /\ queue = << >>
    /\ loop = "fetch" /\ batch = << >> /\ kind = "none" /\ out = NoEvent
    /\ raced = FALSE /\ last = NoEvent

-----------------------------------------------------------------------------
(* The keyboard sends a make code when a key goes down, again while it is  *)
(* the last one pressed and stays down, and a break code when it goes up.  *)

E0 == [code |-> "E0", up |-> FALSE]
Bytes(k, up) ==
    (IF k.ext THEN <<E0>> ELSE << >>) \o <<[code |-> k.code, up |-> up]>>

Sends(k, up) ==
    /\ Len(wire) + Len(Bytes(k, up)) <= WireMax
    /\ wire' = wire \o Bytes(k, up)
    /\ UNCHANGED <<decoder, lag, queue, mainloop, raced, last>>

GoesDown(k) ==
    /\ k \notin down
    /\ Sends(k, FALSE)
    /\ down' = down \cup {k}
    /\ typematic' = k

StaysDown ==
    /\ typematic # NoKey
    /\ Sends(typematic, FALSE)
    /\ UNCHANGED <<down, typematic>>

GoesUp(k) ==
    /\ k \in down
    /\ Sends(k, TRUE)
    /\ down' = down \ {k}
    /\ typematic' = IF typematic = k THEN NoKey ELSE typematic

-----------------------------------------------------------------------------
(* keyboard_irq.                                                           *)

(* Mutant: the key that goes up is compared without its prefix.            *)
IsHeldByCode(k) == held.id = [k EXCEPT !.ext = FALSE]

IsHeld(k) == held.id = k

(* Mutant: the deadline is cleared, the key is not.                        *)
ClearDeadline == UNCHANGED held /\ phase' = 0 /\ lag' = MaxLag

(* repeat_clear leaves held_next_ms at 0, long ago.                        *)
RepeatClear == held' = NoHeld /\ phase' = 0 /\ lag' = MaxLag

RepeatSet(k) ==
    /\ held' = [id |-> k, kind |-> Kind(k), code |-> Meaning(k)]
    /\ phase' = 0
    /\ lag' = - DELAY

Keep == UNCHANGED <<held, phase, lag>>

BreakCode(k) ==
    /\ flags' = flags \ Flag(k)
    /\ IF IsHeld(k) THEN RepeatClear ELSE Keep
    /\ UNCHANGED queue

(* A modifier, or a key the handler does not know.                         *)
SilentCode(k) ==
    /\ Kind(k) = "none"
    /\ flags' = flags \cup Flag(k)
    /\ Keep
    /\ UNCHANGED queue

MakeCode(k) ==
    /\ Kind(k) # "none"
    /\ Push(Pressed(k))
    /\ RepeatSet(k)
    /\ UNCHANGED flags

InCall == {"time", "kind", "code", "advance", "deliver"}

KeyboardIrq ==
    /\ wire # << >>
    /\ wire' = Tail(wire)
    /\ raced' = (loop \in InCall)
    /\ LET b == Head(wire)
           k == [ext |-> e0, code |-> b.code]
       IN IF b = E0
          THEN e0' = TRUE /\ Keep /\ UNCHANGED <<flags, queue>>
          ELSE /\ e0' = FALSE
               /\ IF b.up THEN BreakCode(k)
                  ELSE SilentCode(k) \/ MakeCode(k)
    /\ UNCHANGED <<down, typematic, mainloop, last>>

(* timer_irq: time goes on, and at 60 Hz a frame tick is pushed.           *)
Later == lag' = IF lag < MaxLag THEN lag + 1 ELSE lag

FrameTick ==
    IF queue # << >> /\ queue[Len(queue)] = Tick
    THEN UNCHANGED queue ELSE Push(<<Tick>>)

TimerIrq ==
    /\ Later
    /\ FrameTick \/ UNCHANGED queue
    /\ UNCHANGED <<keyboard, decoder, mainloop, raced, last>>

-----------------------------------------------------------------------------
(* The main loop: take a batch, handle its events in order, and on a frame *)
(* tick handle repeats until there is none.                                *)

Fetch ==
    /\ loop = "fetch" /\ queue # << >> /\ Len(batch) < BATCH
    /\ batch' = Append(batch, Head(queue))
    /\ queue' = Tail(queue)
    /\ UNCHANGED <<keyboard, decoder, lag, loop, kind, out, raced, last>>

Dispatch ==
    /\ loop = "fetch" /\ batch # << >>
    /\ Len(batch) = BATCH \/ queue = << >>
    /\ loop' = "handle"
    /\ UNCHANGED <<keyboard, decoder, lag, queue, batch, kind, out, raced, last>>

(* Mutant: repeats are asked for after every event.                        *)
RepeatsOnAny(ev) == TRUE

RepeatsOn(ev) == ev.type = "tick"

NextEvent ==
    /\ batch' = Tail(batch)
    /\ loop' = IF Len(batch) = 1 THEN "fetch" ELSE "handle"

HalfOf(ev) == IF ev.half = "whole" THEN ev ELSE NoEvent

Handle ==
    /\ loop = "handle"
    /\ last' = IF Head(batch) = Tick THEN last ELSE HalfOf(Head(batch))
    /\ IF RepeatsOn(Head(batch)) THEN loop' = "call" /\ UNCHANGED batch
       ELSE NextEvent
    /\ UNCHANGED <<keyboard, decoder, lag, queue, kind, out, raced>>

-----------------------------------------------------------------------------
(* keyboard_repeat_event, read by read.                                    *)

Returns0 == NextEvent /\ raced' = FALSE /\ UNCHANGED <<kind, out>>

(* The first test, of held_id and held_kind.                               *)
CallBegins ==
    /\ loop = "call"
    /\ IF held.id = NoKey THEN Returns0
       ELSE loop' = "time" /\ UNCHANGED <<batch, kind, out, raced>>
    /\ UNCHANGED <<keyboard, decoder, lag, queue, last>>

ReadTime ==
    /\ loop = "time"
    /\ IF lag < 0 THEN Returns0
       ELSE loop' = "kind" /\ UNCHANGED <<batch, kind, out, raced>>
    /\ UNCHANGED <<keyboard, decoder, lag, queue, last>>

ReadKind ==
    /\ loop = "kind"
    /\ IF held.kind = "none" THEN Returns0
       ELSE loop' = "code" /\ kind' = held.kind /\ UNCHANGED <<batch, out, raced>>
    /\ UNCHANGED <<keyboard, decoder, lag, queue, last>>

Half == IF phase = 0 THEN "LEFT" ELSE "DELETE"

(* Mutant: an arrow is repeated as a character.                            *)
RepeatedAsChar ==
    IF kind = "pair" THEN Event("key", Half, "whole", TRUE)
    ELSE Event("char", held.code, "no", TRUE)

Repeated ==
    IF kind = "pair" THEN Event("key", Half, "whole", TRUE)
    ELSE Event(kind, held.code, "no", TRUE)

ReadCode ==
    /\ loop = "code"
    /\ out' = Repeated
    /\ loop' = "advance"
    /\ UNCHANGED <<keyboard, decoder, lag, queue, batch, kind, raced, last>>

(* bs_phase or held_next_ms moves on, by what was read before.             *)
Advance ==
    /\ loop = "advance"
    /\ IF kind = "pair" /\ out.code = "LEFT"
       THEN phase' = 1 /\ UNCHANGED lag
       ELSE phase' = (IF kind = "pair" THEN 0 ELSE phase) /\ lag' = lag - 1
    /\ loop' = "deliver"
    /\ UNCHANGED <<keyboard, flags, e0, held, queue, batch, kind, out, raced, last>>

(* The repeat is handled, and the next one asked for.                      *)
HandleRepeat ==
    /\ loop = "deliver"
    /\ last' = HalfOf(out)
    /\ loop' = "call" /\ kind' = "none" /\ out' = NoEvent /\ raced' = FALSE
    /\ UNCHANGED <<keyboard, decoder, lag, queue, batch>>

MainLoop == \/ Fetch \/ Dispatch \/ Handle
            \/ CallBegins \/ ReadTime \/ ReadKind \/ ReadCode \/ Advance
            \/ HandleRepeat

-----------------------------------------------------------------------------
User == (\E k \in Keys : GoesDown(k) \/ GoesUp(k)) \/ StaysDown

Next == User \/ KeyboardIrq \/ TimerIrq \/ MainLoop

Spec == Init /\ [][Next]_vars

(* The shell thread runs, and bytes raise interrupts.  Nothing is assumed  *)
(* of the user.                                                            *)
FairSpec == Spec /\ WF_vars(MainLoop) /\ WF_vars(KeyboardIrq) /\ WF_vars(TimerIrq)

-----------------------------------------------------------------------------
(* Properties.                                                             *)

EventType == [type : {"none", "tick", "char", "key"},
              code : {"none", "a", "LEFT", "DELETE"},
              half : {"no", "whole", "cut"}, again : BOOLEAN]
KindType == {"none", "char", "key", "pair"}

TypeOK ==
    /\ down \subseteq Keys /\ typematic \in down \cup {NoKey}
    /\ wire \in Seq([code : Code \cup {"E0"}, up : BOOLEAN])
    /\ flags \subseteq {"shift", "ctrl_l", "ctrl_r"} /\ e0 \in BOOLEAN
    /\ held \in [id : Key \cup {NoKey}, kind : KindType,
                 code : {"none", "a", "LEFT"}]
    /\ phase \in {0, 1} /\ lag \in (- DELAY - 1) .. MaxLag
    /\ queue \in Seq(EventType) /\ Len(queue) <= EVQ_SIZE
    /\ loop \in {"fetch", "handle", "call", "time", "kind", "code", "advance", "deliver"}
    /\ batch \in Seq(EventType) /\ Len(batch) <= BATCH
    /\ kind \in KindType /\ out \in EventType /\ raced \in BOOLEAN
    /\ last \in EventType

(* The break code of k is on its way: a byte of that code, with the prefix *)
(* before it or already read.                                              *)
BreakComes(k) ==
    \E i \in DOMAIN wire :
       /\ wire[i] = [code |-> k.code, up |-> TRUE]
       /\ k.ext <=> IF i = 1 THEN e0 ELSE wire[i - 1] = E0

(* No key types for ever: the key that is repeated is down, or the code    *)
(* that will stop it is on its way (keyboard_irq, repeat_set and           *)
(* repeat_clear, across all interleavings of presses and releases).        *)
HeldIsDown == held.id # NoKey => held.id \in down \/ BreakComes(held.id)

(* Once its bytes are read, a modifier is set exactly while its key is     *)
(* down (the prefix tells left from right; keyboard_irq).                  *)
ModifiersFollowTheKeys ==
    wire = << >> =>
       /\ "ctrl_l" \in flags <=> [ext |-> FALSE, code |-> "ctrl"] \in down
       /\ "ctrl_r" \in flags <=> [ext |-> TRUE, code |-> "ctrl"] \in down
       /\ "shift" \in flags <=> [ext |-> FALSE, code |-> "shift"] \in down

(* Between the two halves of a backspace nothing else is handled.          *)
HandlesKey == \/ loop = "handle" /\ Head(batch) # Tick /\ batch' # batch
              \/ loop = "deliver" /\ loop' # loop
HalvesTogether(again) ==
    HandlesKey /\ last = Event("key", "LEFT", "whole", again)
      => last' = Event("key", "DELETE", "whole", again)

(* The LEFT and DELETE that a press of backspace puts into the queue reach *)
(* the shell with nothing in between, no repeat either, unless the queue   *)
(* was full after the LEFT (push_key twice in keyboard_irq, the batches of *)
(* the main loop, repeats on frame ticks only).                            *)
PressedPairIsWhole == [][HalvesTogether(FALSE)]_vars

(* "backspace pair: LEFT then DELETE" (keyboard.c:134): a repeated LEFT of *)
(* a backspace is followed by its DELETE.  The code does not keep this:    *)
(* the halves come from two calls, and a release in between clears the     *)
(* held key, so the cursor moves and nothing is deleted.                   *)
BackspaceIsAPair == [][HalvesTogether(TRUE)]_vars

(* The event that keyboard_repeat_event hands out is the one of the held   *)
(* key, of its kind and with its code, or a byte came in during the call   *)
(* (held_kind and held_code are read apart, with interrupts on).           *)
RepeatsTheHeldKey ==
    loop = "deliver" /\ ~raced =>
       \/ held.kind \in {"char", "key"} /\ out = Event(held.kind, held.code, "no", TRUE)
       \/ held.kind = "pair" /\ \/ phase = 1 /\ out = Event("key", "LEFT", "whole", TRUE)
                                \/ phase = 0 /\ out = Event("key", "DELETE", "whole", TRUE)

(* Once the user leaves the keyboard alone, the main loop comes back to    *)
(* the queue: a handler that takes longer than a repeat interval does not  *)
(* keep it in the repeat loop (kernel.c, while (keyboard_repeat_event)).   *)
LoopReturns == (<>[](down = {})) => []<>(loop = "fetch")

=============================================================================
