-------------------------------- MODULE Mouse --------------------------------
(***************************************************************************)
(* The PS/2 mouse driver (mouse.c): three bytes a packet, one interrupt a  *)
(* byte, and bytes that get lost on the way, as the controller holds one   *)
(* byte and the driver also flushes what it does not expect.               *)
(*                                                                         *)
(* The mouse is external: it reports its buttons and a movement, or that   *)
(* it moved too far.  A byte is a number, and the driver cannot tell the   *)
(* header of a packet from a movement.  The commands that mouse_init       *)
(* exchanges with the mouse, the acceleration that is switched off and the *)
(* event queue (EventQueue) are left out; the fixed-point coordinates      *)
(* never have a fraction.                                                  *)
(***************************************************************************)
EXTENDS Integers, Sequences, FiniteSets, SequencesExt

CONSTANTS
    Width, Height,  \* fb_w, fb_h
    Buttons,        \* buttons of the mouse: their bits in a header, 1, 2 or 4
    Moves,          \* movements the mouse reports in one packet
    MouseWireMax,   \* bound on the bytes between mouse and driver
    MaxLost         \* bound on the lost bytes

ASSUME ScreenAssumption  == Width \in Nat \ {0} /\ Height \in Nat \ {0}
ASSUME MovesAssumption   == Moves \subseteq (-255 .. 255) \X (-255 .. 255)
ASSUME ButtonsAssumption == Buttons \subseteq {1, 2, 4}
ASSUME LossAssumption    == MouseWireMax \in Nat /\ MaxLost \in Nat

VARIABLES
    mouseWire,  \* bytes sent
    pkt,        \* the bytes of the packet so far: pkt, pkt_i
    buttons,    \* as the driver knows them
    mx, my,     \* the pointer: mx_fp, my_fp
    lost,       \* bytes lost
    \* For the properties only:
    aim,        \* what the user did: where the pointer belongs, the buttons
    calm        \* the last packet was sent whole, and its movements lack bit 3

driver    == <<pkt, buttons, mx, my>>
mouseVars == <<driver, mouseWire, lost, aim, calm>>

-----------------------------------------------------------------------------
(* Bytes.                                                                  *)

MouseByte == 0 .. 255
When(b, n) == IF b THEN n ELSE 0

(* Whether the bit of weight w is set in n.                                *)
Bit(n, w) == (n \div w) % 2 = 1

(* The buttons, bit 3, the signs of the movements, the overflow.           *)
Header(bs, dx, dy, over) ==
    8 + When(1 \in bs, 1) + When(2 \in bs, 2) + When(4 \in bs, 4)
      + When(dx < 0, 16) + When(dy < 0, 32) + When(over, 64)

Movement(d)  == d % 256
ButtonsIn(b) == {i \in Buttons : Bit(b, i)}
Synced(b)    == Bit(b, 8)

(* Mutant: only one of the two bits is looked at.                          *)
OverflowOfY(b) == Bit(b, 128)

Overflow(b) == Bit(b, 64) \/ Bit(b, 128)

(* (int8_t): the ninth bit of a movement is in the header, and not read.   *)
Signed(b) == IF b < 128 THEN b ELSE b - 256

-----------------------------------------------------------------------------
(* What the packets do to the pointer.                                     *)

Clamp(v, last) == IF v < 0 THEN 0 ELSE IF v > last THEN last ELSE v

(* Three halves, towards zero.                                             *)
Scaled(d) == IF d < 0 THEN -((-d * 3) \div 2) ELSE (d * 3) \div 2

MovedX(v, d) == Clamp(v + Scaled(d), Width - 1)
MovedY(v, d) == Clamp(v - Scaled(d), Height - 1)

-----------------------------------------------------------------------------
(* The mouse and the wire: external.                                       *)

Unknown == [x |-> 0, y |-> 0, btn |-> {}, known |-> FALSE, stale |-> FALSE]

Report(bs, dx, dy, over) ==
    /\ Len(mouseWire) + 3 <= MouseWireMax
    /\ mouseWire' = mouseWire \o <<Header(bs, dx, dy, over), Movement(dx), Movement(dy)>>
    /\ calm' = (~Synced(Movement(dx)) /\ ~Synced(Movement(dy)))
    /\ aim' = IF ~aim.known \/ (~over /\ ~({dx, dy} \subseteq -128 .. 127)) THEN Unknown
              ELSE [aim EXCEPT !.btn = bs, !.stale = over,
                               !.x = IF over THEN @ ELSE MovedX(@, dx),
                               !.y = IF over THEN @ ELSE MovedY(@, dy)]
    /\ UNCHANGED <<driver, lost>>

Lose(i) ==
    /\ lost < MaxLost /\ lost' = lost + 1
    /\ mouseWire' = RemoveAt(mouseWire, i)
    /\ calm' = (calm /\ i <= Len(mouseWire) - 3)
    /\ aim' = Unknown
    /\ UNCHANGED driver

-----------------------------------------------------------------------------
(* mouse_irq                                                               *)

(* Mutant: the first byte is taken as it comes.                            *)
TakesAny(b) == TRUE

(* A packet begins with a byte that has bit 3 set.                         *)
Takes(b) == pkt # <<>> \/ Synced(b)

(* A whole packet: apply_motion, clamp_fp.  The event that is pushed has   *)
(* these values, and whether a button changed.                             *)
Applied(p) ==
    /\ buttons' = ButtonsIn(p[1])
    /\ mx' = MovedX(mx, Signed(p[2])) /\ my' = MovedY(my, Signed(p[3]))

Kept == UNCHANGED <<buttons, mx, my>>

MouseIrq ==
    /\ mouseWire # <<>>
    /\ mouseWire' = Tail(mouseWire)
    /\ LET b == Head(mouseWire)
           p == Append(pkt, b)
       IN  \/ ~Takes(b) /\ pkt' = pkt /\ Kept
           \/ Takes(b) /\ Len(p) < 3 /\ pkt' = p /\ Kept
           \/ /\ Takes(b) /\ Len(p) = 3 /\ pkt' = <<>>
              /\ IF Overflow(p[1]) THEN Kept ELSE Applied(p)
    /\ UNCHANGED <<lost, aim, calm>>

-----------------------------------------------------------------------------
(* mouse_init: the pointer is in the middle, the mouse sends packets.      *)
MouseInit ==
    /\ mouseWire = <<>> /\ pkt = <<>> /\ buttons = {}
    /\ mx = Width \div 2 /\ my = Height \div 2
    /\ lost = 0 /\ calm = TRUE
    /\ aim = [x |-> mx, y |-> my, btn |-> {}, known |-> TRUE, stale |-> FALSE]

MouseNext ==
    \/ MouseIrq
    \/ \E i \in DOMAIN mouseWire : Lose(i)
    \/ \E bs \in SUBSET Buttons, m \in Moves, over \in BOOLEAN : Report(bs, m[1], m[2], over)

MouseSpec == MouseInit /\ [][MouseNext]_mouseVars

-----------------------------------------------------------------------------
(* Properties.                                                             *)

(* The pointer stays on the screen, a packet has fewer than three bytes.   *)
MouseTypeOK ==
    /\ mx \in 0 .. Width - 1 /\ my \in 0 .. Height - 1
    /\ Len(pkt) < 3 /\ (pkt = <<>> \/ Synced(pkt[1]))

(* While no byte is lost, the pointer and the buttons follow the hand, bit *)
(* by bit of the packets and at the edges: only the buttons of a packet    *)
(* that overflowed wait for the next one (mouse.c:117), and only a         *)
(* movement of more than a signed byte (mouse.c:112) leads astray.         *)
FollowsTheHand ==
    mouseWire = <<>> /\ aim.known =>
       /\ mx = aim.x /\ my = aim.y /\ pkt = <<>>
       /\ buttons = aim.btn \/ aim.stale

(* A lost byte shifts the packets for a while only: after one whole packet *)
(* whose movements cannot be taken for a header the driver is in step with *)
(* the mouse again, however many bytes were lost before (mouse.c:104).     *)
ResyncsAfterCalm == mouseWire = <<>> /\ calm => pkt = <<>>
=============================================================================
