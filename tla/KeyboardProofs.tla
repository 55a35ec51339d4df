--------------------------- MODULE KeyboardProofs ---------------------------
(***************************************************************************)
(* Theorems about the devices of the PS/2 controller: Keyboard, for every  *)
(* set of keys, queue, batch, repeat delay and number of bytes on the way, *)
(* and Mouse, for every screen, set of buttons and of movements, and       *)
(* number of lost bytes.                                                   *)
(*                                                                         *)
(* The keyboard has three invariants that do not need each other, but for  *)
(* the types: what the bytes on the wire will still do to the decoder      *)
(* (Decoding), what the main loop has read in a call (Call), and where the *)
(* halves of a backspace stand (Halves).  The mouse has two: the last      *)
(* packet leaves the driver in step (Calming), and the packets on the way  *)
(* lead the pointer to where the user brought it (Following).              *)
(***************************************************************************)
EXTENDS Keyboard, Mouse, SequenceTheorems, TLAPS

Byte == [code : Code \cup {"E0"}, up : BOOLEAN]

-----------------------------------------------------------------------------
(* The wire.                                                               *)

(* Whether a prefix stands before byte i of w, or has been read.           *)
Prefixed(w, e, i) == IF i = 1 THEN e ELSE w[i - 1] = E0

(* Byte i is the last of a make or break code of k.                        *)
About(w, e, i, k) == w[i].code = k.code /\ k.ext = Prefixed(w, e, i)

(* A prefix is always followed by the byte it belongs to.                  *)
WireIsWhole ==
    /\ e0 => wire # << >> /\ wire[1] # E0
    /\ \A i \in DOMAIN wire :
          /\ wire[i].code = "E0" => wire[i] = E0
          /\ wire[i] = E0 => i + 1 \in DOMAIN wire /\ wire[i + 1] # E0
          /\ wire[i] # E0 =>
                [ext |-> Prefixed(wire, e0, i), code |-> wire[i].code] \in Keys

(* The last word about a key is right: what says otherwise is followed by  *)
(* another word about it.                                                  *)
Says(w, e, i, k, d) == About(w, e, i, k) /\ w[i].up = (k \notin d)
WireIsRight ==
    \A k \in Keys : \A i \in DOMAIN wire :
       About(wire, e0, i, k) /\ ~Says(wire, e0, i, k, down)
         => \E j \in DOMAIN wire : j > i /\ Says(wire, e0, j, k, down)

(* Shift with a prefix is not a key; the handler takes it for Shift.       *)
FakeShift == [ext |-> TRUE, code |-> "shift"]

FlagsComeRight ==
    /\ flags \subseteq UNION {Flag(k) : k \in Keys}
    /\ \A k \in Keys :
          \/ Flag(k) = {}
          \/ Flag(k) \subseteq flags <=> k \in down
          \/ \E j \in DOMAIN wire : Says(wire, e0, j, k, down)

Decoding ==
    /\ WireIsWhole
    /\ WireIsRight
    /\ held.id # NoKey => held.id \in Keys
    /\ HeldIsDown

-----------------------------------------------------------------------------
(* The call.                                                               *)

Call ==
    /\ loop \in {"kind", "code", "advance"} => lag >= - DELAY
    /\ loop \in {"code", "advance", "deliver"} => kind # "none"
    /\ loop \in {"advance", "deliver"} => out.again = TRUE
    /\ ~raced =>
          /\ loop \in {"code", "advance"} => kind = held.kind
          /\ loop = "advance" => out = Repeated
    /\ RepeatsTheHeldKey

-----------------------------------------------------------------------------
(* The halves of a backspace.                                              *)

First  == Event("key", "LEFT", "whole", FALSE)
Second == Event("key", "DELETE", "whole", FALSE)

(* What the main loop has yet to handle.                                   *)
Coming == batch \o queue

(* Every first half is followed by its second one.                         *)
Paired(s) == \A i \in DOMAIN s : s[i] = First => i + 1 \in DOMAIN s /\ s[i + 1] = Second

Halves ==
    /\ loop # "fetch" => batch # << >>
    /\ loop \notin {"fetch", "handle"} => Head(batch).type = "tick"
    /\ Paired(Coming)
    /\ last = First =>
          /\ loop \in {"fetch", "handle"}
          /\ Coming # << >> /\ Coming[1] = Second

Inv == TypeOK /\ Decoding /\ Call /\ Halves

-----------------------------------------------------------------------------
LEMMA KeyFacts ==
    /\ Keys \subseteq Key
    /\ NoKey \notin Keys
    /\ \A k \in Keys : /\ Kind(k) \in KindType
                       /\ Meaning(k) \in {"none", "a", "LEFT"}
                       /\ Flag(k) \subseteq {"shift", "ctrl_l", "ctrl_r"}
                       /\ Kind(k) # "none" => Flag(k) = {}
                       /\ Kind(k) = "key" => Meaning(k) = "LEFT"
BY KeysAssumption DEF Key, Code, NoKey, Kind, Meaning, Flag, KindType

LEMMA EventFacts ==
    /\ NoEvent \in EventType /\ Tick \in EventType
    /\ \A k \in Keys : /\ Pressed(k) \in Seq(EventType)
                       /\ Len(Pressed(k)) \in {1, 2}
                       /\ Len(Pressed(k)) = 2 <=> Kind(k) = "pair"
<1>1. NoEvent \in EventType /\ Tick \in EventType
  BY DEF NoEvent, Tick, Event, EventType
<1>2. ASSUME NEW k \in Keys
      PROVE  /\ Pressed(k) \in Seq(EventType)
             /\ Len(Pressed(k)) \in {1, 2}
             /\ Len(Pressed(k)) = 2 <=> Kind(k) = "pair"
  <2>1. CASE Kind(k) = "pair"
    BY <2>1 DEF Pressed, Event, EventType
  <2>2. CASE Kind(k) # "pair"
    BY <2>2, KeyFacts DEF Pressed, Event, EventType, KindType
  <2>. QED
    BY <2>1, <2>2
<1>. QED
  BY <1>1, <1>2

(* A make or break code is put on the wire as a whole: one more message,   *)
(* about k, at its end.                                                    *)
LEMMA SendFacts ==
    ASSUME TypeOK, WireIsWhole, NEW k \in Keys, NEW up \in BOOLEAN, Sends(k, up)
    PROVE  /\ wire' \in Seq(Byte)
           /\ Len(wire) \in Nat /\ DOMAIN wire = 1 .. Len(wire)
           /\ Len(wire') \in Nat /\ DOMAIN wire' = 1 .. Len(wire')
           /\ Len(wire) < Len(wire')
           /\ \A i \in DOMAIN wire : wire'[i] = wire[i] /\ Prefixed(wire', e0', i) = Prefixed(wire, e0, i)
           /\ wire'[Len(wire')] = [code |-> k.code, up |-> up]
           /\ Prefixed(wire', e0', Len(wire')) = k.ext
           /\ \A i \in DOMAIN wire' \ DOMAIN wire :
                 i # Len(wire') => i + 1 = Len(wire') /\ wire'[i] = E0
<1> DEFINE n == Len(wire)
           b == [code |-> k.code, up |-> up]
<1>1. /\ wire \in Seq(Byte) /\ n \in Nat /\ DOMAIN wire = 1 .. n
      /\ b \in Byte /\ E0 \in Byte /\ b # E0 /\ k.ext \in BOOLEAN
  BY LenProperties, KeyFacts DEF TypeOK, Byte, Key, E0, Code
<1>2. wire' = wire \o Bytes(k, up)
  BY DEF Sends
<1>3. e0' = e0 /\ (n = 0 => e0 = FALSE) /\ e0 \in BOOLEAN
  BY <1>1, EmptySeq DEF Sends, decoder, WireIsWhole, TypeOK
<1>. HIDE DEF n, b
<1>4. n # 0 => wire[n] # E0
  <2>. SUFFICES ASSUME n # 0, wire[n] = E0 PROVE FALSE
    OBVIOUS
  <2>1. n \in DOMAIN wire /\ n + 1 \notin DOMAIN wire
    BY <1>1
  <2>. QED
    BY <2>1 DEF WireIsWhole
<1>5. CASE ~k.ext
  <2>1. Bytes(k, up) = <<b>> /\ <<b>> \in Seq(Byte)
    BY <1>1, <1>5 DEF Bytes, b
  <2>2. /\ wire' \in Seq(Byte) /\ Len(wire') = n + 1 /\ DOMAIN wire' = 1 .. n + 1
        /\ \A i \in 1 .. n : wire'[i] = wire[i]
        /\ wire'[n + 1] = b
    BY <1>1, <1>2, <2>1, ConcatProperties, LenProperties DEF n
  <2>3. \A i \in 1 .. n : Prefixed(wire', e0', i) = Prefixed(wire, e0, i)
    BY <1>1, <1>3, <2>2 DEF Prefixed
  <2>4. Prefixed(wire', e0', n + 1) = FALSE
    BY <1>1, <1>3, <1>4, <2>2 DEF Prefixed
  <2>5. k.ext = FALSE
    BY <1>1, <1>5
  <2>6. \A i \in (1 .. n + 1) \ (1 .. n) : i = n + 1
    BY <1>1
  <2>7. Len(wire) = n
    BY DEF n
  <2>8. /\ Len(wire) < Len(wire')
        /\ wire'[Len(wire')] = b
        /\ Prefixed(wire', e0', Len(wire')) = k.ext
    <3>1. Len(wire) < Len(wire') /\ wire'[Len(wire')] = b
      BY <1>1, <2>2, <2>7
    <3>2. Prefixed(wire', e0', Len(wire')) = k.ext
      BY <2>2, <2>4, <2>5, Zenon
    <3>. QED
      BY <3>1, <3>2
  <2>. QED
    BY <1>1, <2>2, <2>3, <2>6, <2>7, <2>8 DEF b
<1>6. CASE k.ext
  <2>1. Bytes(k, up) = <<E0>> \o <<b>>
    BY <1>6 DEF Bytes, b
  <2>2. /\ <<E0>> \in Seq(Byte) /\ Len(<<E0>>) = 1 /\ <<E0>>[1] = E0
        /\ <<b>> \in Seq(Byte) /\ Len(<<b>>) = 1 /\ <<b>>[1] = b
    BY <1>1
  <2>3. /\ Bytes(k, up) \in Seq(Byte) /\ Len(Bytes(k, up)) = 2
        /\ Bytes(k, up)[1] = E0 /\ Bytes(k, up)[2] = b
    BY <2>1, <2>2, ConcatProperties
  <2>4. /\ wire' \in Seq(Byte) /\ Len(wire') = n + 2
        /\ \A i \in 1 .. n + 2 : wire'[i] = IF i <= n THEN wire[i] ELSE Bytes(k, up)[i - n]
    <3>. DEFINE s == Bytes(k, up)
    <3>1. s \in Seq(Byte) /\ Len(s) = 2 /\ wire' = wire \o s
      BY <1>2, <2>3
    <3>. HIDE DEF s
    <3>2. /\ wire \o s \in Seq(Byte) /\ Len(wire \o s) = Len(wire) + Len(s)
          /\ \A i \in 1 .. Len(wire) + Len(s) :
                (wire \o s)[i] = IF i <= Len(wire) THEN wire[i] ELSE s[i - Len(wire)]
      BY <1>1, <3>1, ConcatProperties
    <3>3. Len(wire) = n
      BY DEF n
    <3>. QED
      BY <3>1, <3>2, <3>3 DEF s
  <2>5. /\ DOMAIN wire' = 1 .. n + 2
        /\ \A i \in 1 .. n : wire'[i] = wire[i]
        /\ wire'[n + 1] = E0 /\ wire'[n + 2] = b
    BY <1>1, <2>3, <2>4, LenProperties
  <2>6. \A i \in 1 .. n : Prefixed(wire', e0', i) = Prefixed(wire, e0, i)
    BY <1>1, <1>3, <2>5 DEF Prefixed
  <2>7. Prefixed(wire', e0', n + 2) = TRUE
    <3>1. n + 2 # 1 /\ (n + 2) - 1 = n + 1
      BY <1>1
    <3>. QED
      BY <2>5, <3>1 DEF Prefixed
  <2>8. \A i \in (1 .. n + 2) \ (1 .. n) : i # n + 2 => i = n + 1
    BY <1>1
  <2>9. k.ext = TRUE
    BY <1>1, <1>6
  <2>10. Len(wire) = n
    BY DEF n
  <2>11. /\ Len(wire) < Len(wire')
         /\ wire'[Len(wire')] = b
         /\ Prefixed(wire', e0', Len(wire')) = k.ext
    <3>1. Len(wire) < Len(wire') /\ wire'[Len(wire')] = b
      BY <1>1, <2>4, <2>5, <2>10
    <3>2. Prefixed(wire', e0', Len(wire')) = k.ext
      BY <2>4, <2>7, <2>9, Zenon
    <3>. QED
      BY <3>1, <3>2
  <2>12. \A i \in DOMAIN wire' \ DOMAIN wire :
            i # Len(wire') => i + 1 = Len(wire') /\ wire'[i] = E0
    BY <1>1, <2>4, <2>5, <2>8
  <2>. QED
    BY <1>1, <2>4, <2>5, <2>6, <2>10, <2>11, <2>12 DEF b
<1>. QED
  BY <1>5, <1>6

(* Two keys of which a byte is the last are one.                           *)
LEMMA AboutOne ==
    ASSUME NEW w, NEW e, NEW i, NEW x \in Keys, NEW y \in Keys,
           About(w, e, i, x), About(w, e, i, y)
    PROVE  x = y
<1>1. x.code = y.code /\ x.ext = y.ext
  BY Zenon DEF About
<1>2. x \in Key /\ y \in Key
  BY KeyFacts
<1>. QED
  BY <1>1, <1>2 DEF Key

(* The step that puts up to k on the wire adds one word, about k, at m.    *)
NewWord(m, k, up) ==
    /\ m \in DOMAIN wire'
    /\ About(wire', e0', m, k) /\ wire'[m].up = up
    /\ DOMAIN wire \subseteq DOMAIN wire'
    /\ DOMAIN wire \subseteq Nat
    /\ \A i \in DOMAIN wire :
          /\ i < m /\ wire'[i] = wire[i]
          /\ \A x \in Keys : About(wire', e0', i, x) <=> About(wire, e0, i, x)
    /\ \A i \in DOMAIN wire' \ DOMAIN wire, x \in Keys :
          About(wire', e0', i, x) => i = m /\ x = k

LEMMA SendAbout ==
    ASSUME TypeOK, WireIsWhole, NEW k \in Keys, NEW up \in BOOLEAN, Sends(k, up)
    PROVE  \E m \in Nat : NewWord(m, k, up)
<1> DEFINE m == Len(wire')
           b == [code |-> k.code, up |-> up]
<1>1. /\ Len(wire) \in Nat /\ DOMAIN wire = 1 .. Len(wire)
      /\ m \in Nat /\ DOMAIN wire' = 1 .. m /\ Len(wire) < m
      /\ wire'[m] = b
  BY SendFacts
<1>2. About(wire', e0', m, k) /\ wire'[m].up = up
  <2>1. wire'[m].code = k.code /\ wire'[m].up = up
    BY <1>1
  <2>2. k.ext = Prefixed(wire', e0', m)
    BY SendFacts, Zenon
  <2>. QED
    BY <2>1, <2>2, Zenon DEF About
<1>3. ASSUME NEW i \in DOMAIN wire, NEW x \in Keys
      PROVE  About(wire', e0', i, x) <=> About(wire, e0, i, x)
  <2>1. wire'[i] = wire[i] /\ Prefixed(wire', e0', i) = Prefixed(wire, e0, i)
    BY SendFacts, Zenon
  <2>. QED
    BY <2>1, Zenon DEF About
<1>4. ASSUME NEW i \in DOMAIN wire' \ DOMAIN wire, NEW x \in Keys, About(wire', e0', i, x)
      PROVE  i = m /\ x = k
  <2>1. CASE i = m
    <3>1. About(wire', e0', m, x)
      BY <1>4, <2>1, Zenon
    <3>. QED
      BY <1>2, <2>1, <3>1, AboutOne, Zenon
  <2>2. CASE i # m
    <3>1. wire'[i] = E0
      BY <2>2, SendFacts, Zenon
    <3>2. x.code = E0.code
      BY <1>4, <3>1, Zenon DEF About
    <3>. QED
      BY <3>2, KeyFacts DEF Key, Code, E0
  <2>. QED
    BY <2>1, <2>2
<1>5. \A i \in DOMAIN wire : i < m /\ wire'[i] = wire[i]
  BY <1>1, SendFacts
<1>6. m \in DOMAIN wire' /\ DOMAIN wire \subseteq DOMAIN wire' /\ DOMAIN wire \subseteq Nat
  BY <1>1
<1>. QED
  BY <1>1, <1>2, <1>3, <1>4, <1>5, <1>6, Zenon DEF NewWord

(* The handler reads a byte: what is left is said one place further on.    *)
LEMMA ReadAbout ==
    ASSUME TypeOK, WireIsWhole, wire # << >>, wire' = Tail(wire),
           e0' = (wire[1] = E0)
    PROVE  /\ wire' \in Seq(Byte)
           /\ DOMAIN wire \subseteq Nat /\ 1 \in DOMAIN wire
           /\ \A i \in DOMAIN wire :
                 i # 1 => i - 1 \in DOMAIN wire'
           /\ \A i \in DOMAIN wire' :
                 /\ i \in Nat /\ i + 1 \in DOMAIN wire
                 /\ wire'[i] = wire[i + 1]
                 /\ Prefixed(wire', e0', i) = Prefixed(wire, e0, i + 1)
                 /\ \A x \in Keys : About(wire', e0', i, x) <=> About(wire, e0, i + 1, x)
<1>1. wire \in Seq(Byte) /\ Len(wire) \in Nat /\ DOMAIN wire = 1 .. Len(wire) /\ Len(wire) # 0
  BY LenProperties, EmptySeq DEF TypeOK, Byte
<1>2. /\ wire' \in Seq(Byte) /\ DOMAIN wire' = 1 .. Len(wire) - 1
      /\ \A i \in 1 .. Len(wire) - 1 : wire'[i] = wire[i + 1]
  BY <1>1, HeadTailProperties, LenProperties
<1>3. \A i \in DOMAIN wire' : i \in Nat /\ i + 1 \in DOMAIN wire /\ wire'[i] = wire[i + 1]
  BY <1>1, <1>2
<1>4. ASSUME NEW i \in DOMAIN wire'
      PROVE  Prefixed(wire', e0', i) = Prefixed(wire, e0, i + 1)
  <2>1. i + 1 # 1 /\ (i + 1) - 1 = i
    BY <1>3
  <2>2. Prefixed(wire, e0, i + 1) = (wire[i] = E0)
    BY <2>1, Zenon DEF Prefixed
  <2>3. CASE i = 1
    <3>1. Prefixed(wire', e0', i) = (wire[1] = E0)
      BY <2>3, Zenon DEF Prefixed
    <3>. QED
      BY <2>2, <2>3, <3>1, Zenon
  <2>4. CASE i # 1
    <3>1. i - 1 \in 1 .. Len(wire) - 1 /\ (i - 1) + 1 = i
      BY <1>1, <1>2, <2>4
    <3>2. wire'[i - 1] = wire[i]
      BY <1>2, <3>1
    <3>3. Prefixed(wire', e0', i) = (wire'[i - 1] = E0)
      BY <2>4, Zenon DEF Prefixed
    <3>. QED
      BY <2>2, <3>2, <3>3, Zenon
  <2>. QED
    BY <2>3, <2>4
<1>5. ASSUME NEW i \in DOMAIN wire', NEW x \in Keys
      PROVE  About(wire', e0', i, x) <=> About(wire, e0, i + 1, x)
  BY <1>3, <1>4, Zenon DEF About
<1>6. \A i \in DOMAIN wire : i # 1 => i - 1 \in DOMAIN wire'
  BY <1>1, <1>2
<1>7. DOMAIN wire \subseteq Nat /\ 1 \in DOMAIN wire
  BY <1>1
<1>. QED
  BY <1>2, <1>3, <1>4, <1>5, <1>6, <1>7, Zenon

-----------------------------------------------------------------------------
(* Decoding.                                                               *)

LEMMA SendKeepsWhole ==
    ASSUME TypeOK, WireIsWhole, NEW k \in Keys, NEW up \in BOOLEAN, Sends(k, up)
    PROVE  WireIsWhole'
<1> DEFINE m == Len(wire')
           b == [code |-> k.code, up |-> up]
<1>1. /\ Len(wire) \in Nat /\ DOMAIN wire = 1 .. Len(wire)
      /\ m \in Nat /\ DOMAIN wire' = 1 .. m /\ Len(wire) < m
      /\ wire'[m] = b
      /\ \A i \in DOMAIN wire : wire'[i] = wire[i]
      /\ \A i \in DOMAIN wire' \ DOMAIN wire : i # m => i + 1 = m /\ wire'[i] = E0
  BY SendFacts
<1>2. wire' \in Seq(Byte) /\ wire \in Seq(Byte)
  BY SendFacts DEF TypeOK, Byte
<1>3. b # E0 /\ b.code # "E0" /\ [ext |-> k.ext, code |-> b.code] = k
  BY KeyFacts DEF Key, Code, E0
<1>4. e0' = e0
  BY DEF Sends, decoder
<1>5. e0' => wire' # << >> /\ wire'[1] # E0
  <2>. SUFFICES ASSUME e0' PROVE wire' # << >> /\ wire'[1] # E0
    OBVIOUS
  <2>1. wire # << >> /\ wire[1] # E0
    BY <1>4 DEF WireIsWhole
  <2>2. 1 \in DOMAIN wire
    BY <1>1, <1>2, <2>1, EmptySeq
  <2>3. wire' # << >>
    BY <1>1, <1>2, EmptySeq
  <2>. QED
    BY <1>1, <2>1, <2>2, <2>3
<1>. HIDE DEF m, b
<1>6. ASSUME NEW i \in DOMAIN wire'
      PROVE  /\ wire'[i].code = "E0" => wire'[i] = E0
             /\ wire'[i] = E0 => i + 1 \in DOMAIN wire' /\ wire'[i + 1] # E0
             /\ wire'[i] # E0 =>
                   [ext |-> Prefixed(wire', e0', i), code |-> wire'[i].code] \in Keys
  <2>1. CASE i \in DOMAIN wire
    <3>1. wire'[i] = wire[i] /\ Prefixed(wire', e0', i) = Prefixed(wire, e0, i)
      BY <2>1, SendFacts, Zenon
    <3>2. /\ wire[i].code = "E0" => wire[i] = E0
          /\ wire[i] = E0 => i + 1 \in DOMAIN wire /\ wire[i + 1] # E0
          /\ wire[i] # E0 =>
                [ext |-> Prefixed(wire, e0, i), code |-> wire[i].code] \in Keys
      BY <2>1 DEF WireIsWhole
    <3>3. i + 1 \in DOMAIN wire => i + 1 \in DOMAIN wire' /\ wire'[i + 1] = wire[i + 1]
      BY <1>1
    <3>. QED
      BY <3>1, <3>2, <3>3, Zenon
  <2>2. CASE i = m
    <3>1. Prefixed(wire', e0', m) = k.ext
      BY SendFacts, Zenon DEF m
    <3>2. wire'[i] = b /\ [ext |-> Prefixed(wire', e0', i), code |-> b.code] \in Keys
      BY <1>1, <1>3, <2>2, <3>1, Zenon
    <3>. QED
      BY <1>3, <3>2, Zenon
  <2>3. CASE i \notin DOMAIN wire /\ i # m
    <3>1. i + 1 = m /\ wire'[i] = E0 /\ m \in DOMAIN wire'
      BY <1>1, <2>3
    <3>. QED
      BY <1>1, <1>3, <3>1, Zenon
  <2>. QED
    BY <2>1, <2>2, <2>3
<1>. QED
  BY <1>5, <1>6, Zenon DEF WireIsWhole

LEMMA SendKeepsRight ==
    ASSUME TypeOK, WireIsWhole, WireIsRight,
           NEW k \in Keys, NEW up \in BOOLEAN, Sends(k, up),
           up = (k \notin down'),
           \A x \in Keys : x # k => (x \in down' <=> x \in down)
    PROVE  /\ WireIsRight'
           /\ \A x \in Keys : (\E j \in DOMAIN wire : Says(wire, e0, j, x, down))
                => \E j \in DOMAIN wire' : Says(wire', e0', j, x, down')
           /\ \E j \in DOMAIN wire' : Says(wire', e0', j, k, down')
<1>1. PICK m \in Nat : NewWord(m, k, up)
  BY SendAbout
<1>. USE DEF NewWord
<1>2. Says(wire', e0', m, k, down')
  BY <1>1, Zenon DEF Says
<1>3. ASSUME NEW x \in Keys, x # k, NEW j \in DOMAIN wire
      PROVE  Says(wire', e0', j, x, down') <=> Says(wire, e0, j, x, down)
  <2>1. (x \notin down') = (x \notin down)
    BY <1>3
  <2>. QED
    BY <1>1, <2>1, Zenon DEF Says
<1>4. ASSUME NEW x \in Keys, NEW i \in DOMAIN wire',
             About(wire', e0', i, x), ~Says(wire', e0', i, x, down')
      PROVE  \E j \in DOMAIN wire' : j > i /\ Says(wire', e0', j, x, down')
  <2>1. i \in DOMAIN wire
    <3>. SUFFICES ASSUME i \notin DOMAIN wire PROVE FALSE
      OBVIOUS
    <3>1. i = m /\ x = k
      BY <1>1, <1>4
    <3>. QED
      BY <1>2, <1>4, <3>1
  <2>2. CASE x = k
    BY <1>1, <1>2, <2>1, <2>2
  <2>3. CASE x # k
    <3>1. About(wire, e0, i, x) /\ ~Says(wire, e0, i, x, down)
      BY <1>1, <1>3, <1>4, <2>1, <2>3, Zenon
    <3>2. PICK j \in DOMAIN wire : j > i /\ Says(wire, e0, j, x, down)
      BY <2>1, <3>1, Zenon DEF WireIsRight
    <3>. QED
      BY <1>1, <1>3, <2>3, <3>2, Zenon
  <2>. QED
    BY <2>2, <2>3
<1>5. WireIsRight'
  BY <1>4, Zenon DEF WireIsRight
<1>6. ASSUME NEW x \in Keys, NEW j \in DOMAIN wire, Says(wire, e0, j, x, down)
      PROVE  \E l \in DOMAIN wire' : Says(wire', e0', l, x, down')
  BY <1>1, <1>2, <1>3, <1>6, Zenon
<1>. QED
  BY <1>1, <1>2, <1>5, <1>6, Zenon

(* Saying that k is up is its break code.                                  *)
BreaksAreSaid ==
    \A k \in Keys \ down :
       BreakComes(k) <=> \E j \in DOMAIN wire : Says(wire, e0, j, k, down)

LEMMA BreakIsSaid == TypeOK => BreaksAreSaid
<1>. SUFFICES ASSUME TypeOK, NEW k \in Keys, k \notin down
              PROVE  BreakComes(k) <=> \E j \in DOMAIN wire : Says(wire, e0, j, k, down)
  BY DEF BreaksAreSaid
<1>1. \A i \in DOMAIN wire : wire[i] \in Byte
  <2>1. wire \in Seq(Byte)
    BY DEF TypeOK, Byte
  <2>. QED
    BY <2>1, ElementOfSeq, LenProperties
<1>2. k \in Key /\ (k \notin down) = TRUE
  BY KeyFacts
<1>3. ASSUME NEW i \in DOMAIN wire
      PROVE  wire[i] = [code |-> k.code, up |-> TRUE] <=> wire[i].code = k.code /\ wire[i].up = TRUE
  BY <1>1, <1>2 DEF Byte
<1>4. ASSUME NEW i \in DOMAIN wire
      PROVE  (k.ext <=> IF i = 1 THEN e0 ELSE wire[i - 1] = E0) <=> k.ext = Prefixed(wire, e0, i)
  <2>1. k.ext \in BOOLEAN /\ e0 \in BOOLEAN
    BY <1>2 DEF Key, TypeOK
  <2>. QED
    BY <2>1, Zenon DEF Prefixed
<1>. QED
  BY <1>2, <1>3, <1>4, Zenon DEF BreakComes, Says, About

-----------------------------------------------------------------------------
(* The queue.                                                              *)

(* A push adds the events, or those there is room for, marked as cut.      *)
LEMMA PushFacts ==
    ASSUME TypeOK, NEW evs \in Seq(EventType), Push(evs)
    PROVE  \E s \in Seq(EventType) :
              /\ queue' = queue \o s
              /\ \/ s = evs
                 \/ Len(s) < Len(evs) /\ \A i \in 1 .. Len(s) : s[i].half = "cut"
              /\ Len(queue) + Len(s) <= EVQ_SIZE
<1>1. Len(queue) \in Nat /\ Len(evs) \in Nat /\ EVQ_SIZE \in Nat /\ Len(queue) <= EVQ_SIZE
  BY LenProperties, QueueAssumption DEF TypeOK
<1>2. CASE Room(evs)
  <2>1. queue' = queue \o evs
    BY <1>2 DEF Push
  <2>2. Len(queue) + Len(evs) <= EVQ_SIZE
    BY <1>2 DEF Room
  <2>. WITNESS evs \in Seq(EventType)
  <2>. QED
    BY <2>1, <2>2
<1>3. CASE ~Room(evs)
  <2> DEFINE n == EVQ_SIZE - Len(queue)
  <2>1. n \in Nat /\ n < Len(evs)
    BY <1>1, <1>3 DEF Room
  <2>2. \A i \in 1 .. n : evs[i] \in EventType
    BY <1>1, <2>1, ElementOfSeq
  <2>3. \A i \in 1 .. n : /\ [evs[i] EXCEPT !.half = "cut"] \in EventType
                          /\ [evs[i] EXCEPT !.half = "cut"].half = "cut"
    BY <2>2 DEF EventType
  <2>4. Cut(evs) \in [1 .. n -> EventType] /\ \A i \in 1 .. n : Cut(evs)[i].half = "cut"
    BY <2>3 DEF Cut
  <2>5. Cut(evs) \in Seq(EventType) /\ Len(Cut(evs)) = n
    BY <2>1, <2>4, SeqDef
  <2>6. queue' = queue \o Cut(evs)
    BY <1>3 DEF Push
  <2>7. Len(queue) + n <= EVQ_SIZE
    BY <1>1
  <2>. HIDE DEF n
  <2>. USE <2>5
  <2>. WITNESS Cut(evs) \in Seq(EventType)
  <2>. QED
    BY <2>1, <2>4, <2>5, <2>6, <2>7
<1>. QED
  BY <1>2, <1>3

LEMMA PushTypes ==
    ASSUME TypeOK, NEW evs \in Seq(EventType), Push(evs)
    PROVE  queue' \in Seq(EventType) /\ Len(queue') <= EVQ_SIZE
<1>1. PICK s \in Seq(EventType) : queue' = queue \o s /\ Len(queue) + Len(s) <= EVQ_SIZE
  BY PushFacts
<1>. QED
  BY <1>1, ConcatProperties DEF TypeOK

LEMMA TickTypes ==
    ASSUME TypeOK, FrameTick
    PROVE  queue' \in Seq(EventType) /\ Len(queue') <= EVQ_SIZE
<1>1. <<Tick>> \in Seq(EventType)
  BY EventFacts
<1>. QED
  BY <1>1, PushTypes DEF FrameTick, TypeOK

(* What a byte means is one key, which is told it is up or down.           *)
LEMMA IrqCases ==
    ASSUME TypeOK, WireIsWhole, KeyboardIrq
    PROVE  /\ wire # << >> /\ wire' = Tail(wire) /\ e0' = (wire[1] = E0) /\ e0' \in BOOLEAN
           /\ \/ wire[1] = E0 /\ Keep /\ UNCHANGED <<flags, queue>>
              \/ \E k \in Keys :
                    /\ About(wire, e0, 1, k)
                    /\ \/ wire[1].up = TRUE /\ BreakCode(k)
                       \/ wire[1].up = FALSE /\ (SilentCode(k) \/ MakeCode(k))
<1>1. /\ wire # << >> /\ wire' = Tail(wire) /\ Head(wire) = wire[1]
      /\ wire[1] \in Byte /\ 1 \in DOMAIN wire
  <2>1. wire \in Seq(Byte) /\ wire # << >> /\ wire' = Tail(wire)
    BY DEF KeyboardIrq, TypeOK, Byte
  <2>2. 1 \in 1 .. Len(wire) /\ DOMAIN wire = 1 .. Len(wire)
    BY <2>1, EmptySeq, LenProperties
  <2>. QED
    BY <2>1, <2>2, ElementOfSeq
<1> DEFINE b == wire[1]
           k == [ext |-> e0, code |-> b.code]
<1>2. IF b = E0 THEN e0' = TRUE /\ Keep /\ UNCHANGED <<flags, queue>>
      ELSE /\ e0' = FALSE
           /\ IF b.up THEN BreakCode(k) ELSE SilentCode(k) \/ MakeCode(k)
  BY <1>1 DEF KeyboardIrq
<1>3. CASE b = E0
  BY <1>1, <1>2, <1>3
<1>4. CASE b # E0
  <2>1. Prefixed(wire, e0, 1) = e0
    BY Zenon DEF Prefixed
  <2>2. k \in Keys
    BY <1>1, <1>4, <2>1, Zenon DEF WireIsWhole
  <2>3. About(wire, e0, 1, k)
    <3>1. k.code = b.code /\ k.ext = e0
      OBVIOUS
    <3>. QED
      BY <2>1, <3>1, Zenon DEF About
  <2>4. b.up \in BOOLEAN
    BY <1>1 DEF Byte
  <2>5. CASE b.up = TRUE
    <3>1. BreakCode(k) /\ e0' = FALSE
      BY <1>2, <1>4, <2>5, Zenon
    <3>. QED
      BY <1>1, <1>4, <2>2, <2>3, <2>5, <3>1, Zenon
  <2>6. CASE b.up = FALSE
    <3>1. (SilentCode(k) \/ MakeCode(k)) /\ e0' = FALSE
      BY <1>2, <1>4, <2>6, Zenon
    <3>. QED
      BY <1>1, <1>4, <2>2, <2>3, <2>6, <3>1, Zenon
  <2>. QED
    BY <2>4, <2>5, <2>6
<1>. QED
  BY <1>3, <1>4

-----------------------------------------------------------------------------
(* Types.                                                                  *)

LEMMA UserFacts ==
    ASSUME TypeOK, User
    PROVE  \E k \in Keys, up \in BOOLEAN :
              /\ Sends(k, up)
              /\ down' \subseteq Keys /\ typematic' \in down' \cup {NoKey}
              /\ up = (k \notin down')
              /\ k \in down \/ k \in down'
              /\ \A x \in Keys : x # k => (x \in down' <=> x \in down)
<1>1. CASE \E k \in Keys : GoesDown(k)
  <2>1. PICK k \in Keys : GoesDown(k)
    BY <1>1
  <2>2. down' = down \cup {k} /\ typematic' = k /\ Sends(k, FALSE)
    BY <2>1 DEF GoesDown
  <2>. QED
    BY <2>2 DEF TypeOK
<1>2. CASE \E k \in Keys : GoesUp(k)
  <2>1. PICK k \in Keys : GoesUp(k)
    BY <1>2
  <2>2. /\ k \in down /\ down' = down \ {k} /\ Sends(k, TRUE)
        /\ typematic' = IF typematic = k THEN NoKey ELSE typematic
    BY <2>1 DEF GoesUp
  <2>. QED
    BY <2>2 DEF TypeOK
<1>3. CASE StaysDown
  <2>1. /\ typematic # NoKey /\ Sends(typematic, FALSE)
        /\ down' = down /\ typematic' = typematic
    BY <1>3 DEF StaysDown
  <2>2. typematic \in Keys /\ typematic \in down
    BY <2>1 DEF TypeOK
  <2>. QED
    BY <2>1, <2>2 DEF TypeOK
<1>. QED
  BY <1>1, <1>2, <1>3 DEF User

LEMMA IrqTypes ==
    ASSUME TypeOK, WireIsWhole, KeyboardIrq
    PROVE  TypeOK' /\ (lag >= - DELAY => lag' >= - DELAY)
<1>1. wire' \in Seq(Byte) /\ e0' \in BOOLEAN
  BY IrqCases, ReadAbout
<1>2. raced' \in BOOLEAN /\ UNCHANGED <<down, typematic, mainloop, last>>
  BY DEF KeyboardIrq
<1>3. CASE Keep /\ UNCHANGED <<flags, queue>>
  BY <1>1, <1>2, <1>3 DEF TypeOK, Keep, Byte, mainloop
<1>4. ASSUME NEW k \in Keys, BreakCode(k) \/ SilentCode(k) \/ MakeCode(k)
      PROVE  TypeOK' /\ (lag >= - DELAY => lag' >= - DELAY)
  <2>1. /\ k \in Key /\ Kind(k) \in KindType
        /\ Meaning(k) \in {"none", "a", "LEFT"}
        /\ Flag(k) \subseteq {"shift", "ctrl_l", "ctrl_r"}
    BY KeyFacts
  <2>2. NoHeld \in [id : Key \cup {NoKey}, kind : KindType, code : {"none", "a", "LEFT"}]
    BY DEF NoHeld, KindType
  <2>3. flags' \subseteq {"shift", "ctrl_l", "ctrl_r"}
    BY <1>4, <2>1 DEF TypeOK, BreakCode, SilentCode, MakeCode
  <2>4. held' \in [id : Key \cup {NoKey}, kind : KindType, code : {"none", "a", "LEFT"}]
    BY <1>4, <2>1, <2>2 DEF TypeOK, BreakCode, SilentCode, MakeCode, Keep, RepeatSet, RepeatClear
  <2>5. /\ phase' \in {0, 1} /\ lag' \in (- DELAY - 1) .. MaxLag
        /\ lag >= - DELAY => lag' >= - DELAY
    <3>1. DELAY \in Nat /\ MaxLag \in Nat
      BY DelayAssumption, BoundAssumption
    <3>. QED
      BY <1>4, <3>1 DEF TypeOK, BreakCode, SilentCode, MakeCode, Keep, RepeatSet, RepeatClear
  <2>6. queue' \in Seq(EventType) /\ Len(queue') <= EVQ_SIZE
    BY <1>4, PushTypes, EventFacts DEF TypeOK, BreakCode, SilentCode, MakeCode
  <2>. QED
    BY <1>1, <1>2, <2>3, <2>4, <2>5, <2>6 DEF TypeOK, Byte, mainloop
<1>. QED
  BY <1>3, <1>4, IrqCases

LEMMA BatchFacts ==
    ASSUME TypeOK, batch # << >>
    PROVE  /\ batch \in Seq(EventType) /\ Len(batch) \in Nat \ {0}
           /\ Head(batch) \in EventType /\ Head(batch) = batch[1]
           /\ Tail(batch) \in Seq(EventType) /\ Len(Tail(batch)) = Len(batch) - 1
BY HeadTailProperties, EmptySeq, LenProperties DEF TypeOK

LEMMA NextEventTypes ==
    ASSUME TypeOK, batch # << >>, NextEvent
    PROVE  /\ batch' \in Seq(EventType) /\ Len(batch') <= BATCH
           /\ loop' \in {"fetch", "handle"}
           /\ loop' # "fetch" => batch' # << >>
<1>1. BATCH \in Nat
  BY QueueAssumption
<1>2. batch' \in Seq(EventType) /\ Len(batch') = Len(batch) - 1
  BY BatchFacts DEF NextEvent
<1>3. loop' # "fetch" => Len(batch') # 0
  BY <1>2, BatchFacts DEF NextEvent
<1>4. Len(batch') <= BATCH
  <2>1. Len(batch) \in Nat /\ Len(batch) <= BATCH
    BY BatchFacts DEF TypeOK
  <2>. QED
    BY <1>1, <1>2, <2>1
<1>5. loop' \in {"fetch", "handle"}
  BY DEF NextEvent
<1>. QED
  BY <1>2, <1>3, <1>4, <1>5, EmptySeq

LEMMA RepeatedType ==
    ASSUME TypeOK, kind # "none"
    PROVE  Repeated \in EventType /\ Repeated.again = TRUE
BY DEF TypeOK, KindType, EventType, Repeated, Event, Half

LEMMA MainLoopTypes ==
    ASSUME TypeOK, Call, Halves, MainLoop
    PROVE  TypeOK'
<1>. USE DEF keyboard, decoder, mainloop
<1>1. CASE Fetch
  <2>1. queue \in Seq(EventType) /\ queue # << >> /\ batch \in Seq(EventType)
    BY <1>1 DEF Fetch, TypeOK
  <2>2. /\ queue' \in Seq(EventType) /\ Len(queue') = Len(queue) - 1
        /\ batch' \in Seq(EventType) /\ Len(batch') = Len(batch) + 1
    BY <1>1, <2>1, HeadTailProperties, AppendProperties DEF Fetch
  <2>3. Len(queue') <= EVQ_SIZE /\ Len(batch') <= BATCH
    <3>1. /\ Len(queue) \in Nat /\ Len(batch) \in Nat /\ Len(queue) <= EVQ_SIZE
          /\ Len(batch) < BATCH /\ EVQ_SIZE \in Nat /\ BATCH \in Nat
      BY <1>1, <2>1, LenProperties, QueueAssumption DEF Fetch, TypeOK
    <3>. QED
      BY <2>2, <3>1
  <2>. QED
    BY <1>1, <2>2, <2>3 DEF Fetch, TypeOK
<1>2. CASE Dispatch
  BY <1>2 DEF Dispatch, TypeOK
<1>3. CASE Handle
  <2>1. batch # << >>
    BY <1>3 DEF Handle, Halves
  <2>2. last' \in EventType
    BY <1>3, <2>1, BatchFacts, EventFacts DEF Handle, TypeOK, HalfOf
  <2>3. /\ batch' \in Seq(EventType) /\ Len(batch') <= BATCH
        /\ loop' \in {"fetch", "handle", "call"}
    BY <1>3, <2>1, NextEventTypes DEF Handle, TypeOK
  <2>. QED
    BY <1>3, <2>2, <2>3 DEF Handle, TypeOK
<1>4. CASE CallBegins \/ ReadTime \/ ReadKind
  <2>1. batch # << >>
    BY <1>4 DEF CallBegins, ReadTime, ReadKind, Halves
  <2>2. /\ batch' \in Seq(EventType) /\ Len(batch') <= BATCH
        /\ loop' \in {"fetch", "handle", "time", "kind", "code"}
        /\ kind' \in KindType /\ raced' \in BOOLEAN
    BY <1>4, <2>1, NextEventTypes DEF CallBegins, ReadTime, ReadKind, Returns0, TypeOK
  <2>3. /\ UNCHANGED <<down, typematic, wire, flags, e0, held, phase, lag, queue, last>>
        /\ out' = out
    BY <1>4 DEF CallBegins, ReadTime, ReadKind, Returns0
  <2>. QED
    BY <2>2, <2>3 DEF TypeOK
<1>5. CASE ReadCode
  BY <1>5, RepeatedType DEF ReadCode, Call, TypeOK
<1>6. CASE Advance
  <2>1. phase' \in {0, 1} /\ lag' \in (- DELAY - 1) .. MaxLag
    <3>1. DELAY \in Nat /\ MaxLag \in Nat /\ lag >= - DELAY
      BY <1>6, DelayAssumption, BoundAssumption DEF Advance, Call
    <3>. QED
      BY <1>6, <3>1 DEF Advance, TypeOK
  <2>. QED
    BY <1>6, <2>1 DEF Advance, TypeOK
<1>7. CASE HandleRepeat
  BY <1>7, EventFacts DEF HandleRepeat, TypeOK, HalfOf, KindType
<1>. QED
  BY <1>1, <1>2, <1>3, <1>4, <1>5, <1>6, <1>7 DEF MainLoop

LEMMA TypesKept ==
    ASSUME TypeOK, WireIsWhole, Call, Halves, [Next]_vars
    PROVE  TypeOK'
<1>1. CASE User
  <2>1. PICK k \in Keys, up \in BOOLEAN :
           Sends(k, up) /\ down' \subseteq Keys /\ typematic' \in down' \cup {NoKey}
    BY <1>1, UserFacts
  <2>2. wire' \in Seq(Byte)
    BY <2>1, SendFacts
  <2>. QED
    BY <2>1, <2>2 DEF TypeOK, Byte, Sends, decoder, mainloop
<1>2. CASE KeyboardIrq
  BY <1>2, IrqTypes
<1>3. CASE TimerIrq
  <2>1. queue' \in Seq(EventType) /\ Len(queue') <= EVQ_SIZE
    BY <1>3, TickTypes DEF TimerIrq, TypeOK
  <2>2. lag' \in (- DELAY - 1) .. MaxLag
    BY <1>3, DelayAssumption, BoundAssumption DEF TimerIrq, Later, TypeOK
  <2>. QED
    BY <1>3, <2>1, <2>2 DEF TimerIrq, TypeOK, keyboard, decoder, mainloop
<1>4. CASE MainLoop
  BY <1>4, MainLoopTypes
<1>5. CASE UNCHANGED vars
  BY <1>5 DEF vars, keyboard, decoder, mainloop, TypeOK
<1>. QED
  BY <1>1, <1>2, <1>3, <1>4, <1>5 DEF Next

-----------------------------------------------------------------------------
(* What the decoder will have been told.                                   *)

LEMMA ReadSays ==
    ASSUME TypeOK, WireIsWhole, wire # << >>, wire' = Tail(wire),
           e0' = (wire[1] = E0), down' = down
    PROVE  \A x \in Keys :
              /\ \A i \in DOMAIN wire' :
                    Says(wire', e0', i, x, down') <=> Says(wire, e0, i + 1, x, down)
              /\ (\E j \in DOMAIN wire : j # 1 /\ Says(wire, e0, j, x, down))
                    => \E j \in DOMAIN wire' : Says(wire', e0', j, x, down')
<1>1. ASSUME NEW x \in Keys, NEW i \in DOMAIN wire'
      PROVE  Says(wire', e0', i, x, down') <=> Says(wire, e0, i + 1, x, down)
  <2>1. (x \notin down') = (x \notin down) /\ wire'[i] = wire[i + 1]
    BY ReadAbout
  <2>2. About(wire', e0', i, x) <=> About(wire, e0, i + 1, x)
    BY ReadAbout
  <2>. QED
    BY <2>1, <2>2, Zenon DEF Says
<1>2. ASSUME NEW x \in Keys, NEW j \in DOMAIN wire, j # 1, Says(wire, e0, j, x, down)
      PROVE  \E l \in DOMAIN wire' : Says(wire', e0', l, x, down')
  <2>1. j - 1 \in DOMAIN wire' /\ (j - 1) + 1 = j
    BY <1>2, ReadAbout
  <2>. QED
    BY <1>1, <1>2, <2>1
<1>. QED
  BY <1>1, <1>2, Zenon

LEMMA ReadKeepsWhole ==
    ASSUME TypeOK, WireIsWhole, wire # << >>, wire' = Tail(wire),
           e0' = (wire[1] = E0), e0' \in BOOLEAN
    PROVE  WireIsWhole'
<1>1. e0' => wire' # << >> /\ wire'[1] # E0
  <2>. SUFFICES ASSUME e0' PROVE wire' # << >> /\ wire'[1] # E0
    OBVIOUS
  <2>1. wire[1] = E0 /\ 1 \in DOMAIN wire
    BY ReadAbout
  <2>2. 1 + 1 \in DOMAIN wire /\ wire[1 + 1] # E0
    BY <2>1 DEF WireIsWhole
  <2>3. 1 \in DOMAIN wire'
    <3>1. 1 + 1 # 1 /\ (1 + 1) - 1 = 1
      OBVIOUS
    <3>. QED
      BY <2>2, <3>1, ReadAbout
  <2>. QED
    BY <2>2, <2>3, ReadAbout
<1>2. ASSUME NEW i \in DOMAIN wire'
      PROVE  /\ wire'[i].code = "E0" => wire'[i] = E0
             /\ wire'[i] = E0 => i + 1 \in DOMAIN wire' /\ wire'[i + 1] # E0
             /\ wire'[i] # E0 =>
                   [ext |-> Prefixed(wire', e0', i), code |-> wire'[i].code] \in Keys
  <2>1. /\ i \in Nat /\ i + 1 \in DOMAIN wire
        /\ wire'[i] = wire[i + 1]
        /\ Prefixed(wire', e0', i) = Prefixed(wire, e0, i + 1)
    BY ReadAbout
  <2>2. /\ wire[i + 1].code = "E0" => wire[i + 1] = E0
        /\ wire[i + 1] = E0 => (i + 1) + 1 \in DOMAIN wire /\ wire[(i + 1) + 1] # E0
        /\ wire[i + 1] # E0 =>
              [ext |-> Prefixed(wire, e0, i + 1), code |-> wire[i + 1].code] \in Keys
    BY <2>1, Zenon DEF WireIsWhole
  <2>3. (i + 1) + 1 \in DOMAIN wire => i + 1 \in DOMAIN wire'
    <3>1. (i + 1) + 1 # 1 /\ ((i + 1) + 1) - 1 = i + 1
      BY <2>1
    <3>. QED
      BY <3>1, ReadAbout
  <2>4. i + 1 \in DOMAIN wire' => wire'[i + 1] = wire[(i + 1) + 1]
    BY ReadAbout
  <2>. QED
    BY <2>1, <2>2, <2>3, <2>4, Zenon
<1>. QED
  BY <1>1, <1>2, Zenon DEF WireIsWhole

LEMMA ReadKeepsRight ==
    ASSUME TypeOK, WireIsWhole, WireIsRight, wire # << >>, wire' = Tail(wire),
           e0' = (wire[1] = E0), down' = down
    PROVE  WireIsRight'
<1>1. ASSUME NEW x \in Keys, NEW i \in DOMAIN wire',
             About(wire', e0', i, x), ~Says(wire', e0', i, x, down')
      PROVE  \E j \in DOMAIN wire' : j > i /\ Says(wire', e0', j, x, down')
  <2>1. i \in Nat /\ i + 1 \in DOMAIN wire /\ About(wire, e0, i + 1, x)
    BY <1>1, ReadAbout
  <2>2. ~Says(wire, e0, i + 1, x, down)
    BY <1>1, ReadSays
  <2>3. PICK j \in DOMAIN wire : j > i + 1 /\ Says(wire, e0, j, x, down)
    BY <2>1, <2>2, Zenon DEF WireIsRight
  <2>4. j - 1 \in DOMAIN wire' /\ j - 1 > i /\ (j - 1) + 1 = j
    <3>1. j \in Nat /\ (j # 1 => j - 1 \in DOMAIN wire')
      BY ReadAbout
    <3>. QED
      BY <2>1, <2>3, <3>1
  <2>5. Says(wire', e0', j - 1, x, down')
    BY <2>3, <2>4, ReadSays
  <2>. QED
    BY <2>4, <2>5
<1>. QED
  BY <1>1, Zenon DEF WireIsRight

(* The byte that is read speaks of at most one key; every other key is     *)
(* still spoken of further on.                                             *)
LEMMA OthersStaySaid ==
    ASSUME TypeOK, WireIsWhole, KeyboardIrq, NEW x \in Keys,
           ~About(wire, e0, 1, x) \/ ~Says(wire, e0, 1, x, down),
           \E j \in DOMAIN wire : Says(wire, e0, j, x, down)
    PROVE  \E j \in DOMAIN wire' : Says(wire', e0', j, x, down')
<1>1. ~Says(wire, e0, 1, x, down)
  BY Zenon DEF Says
<1>2. \E j \in DOMAIN wire : j # 1 /\ Says(wire, e0, j, x, down)
  BY <1>1, Zenon
<1>3. down' = down
  BY DEF KeyboardIrq
<1>. QED
  BY <1>2, <1>3, IrqCases, ReadSays

(* What the first byte says wrongly is put right further on.               *)
LEMMA WrongIsPutRight ==
    ASSUME TypeOK, WireIsWhole, WireIsRight, KeyboardIrq, NEW x \in Keys,
           About(wire, e0, 1, x), ~Says(wire, e0, 1, x, down)
    PROVE  \E j \in DOMAIN wire' : Says(wire', e0', j, x, down')
<1>1. 1 \in DOMAIN wire /\ DOMAIN wire \subseteq Nat
  BY IrqCases, ReadAbout
<1>2. PICK j \in DOMAIN wire : j > 1 /\ Says(wire, e0, j, x, down)
  BY <1>1, Zenon DEF WireIsRight
<1>3. j # 1
  BY <1>1, <1>2
<1>4. down' = down
  BY DEF KeyboardIrq
<1>. QED
  BY <1>2, <1>3, <1>4, IrqCases, ReadSays

(* No key is named E0.                                                     *)
LEMMA PrefixIsNoKey ==
    ASSUME NEW x \in Keys, wire[1] = E0
    PROVE  ~About(wire, e0, 1, x)
<1>1. x.code # "E0" /\ E0.code = "E0"
  BY KeyFacts DEF Key, Code, E0
<1>. QED
  BY <1>1, Zenon DEF About

LEMMA UserKeepsDecoding ==
    ASSUME TypeOK, TypeOK', Decoding, User
    PROVE  Decoding'
<1>. USE DEF Decoding
<1>1. PICK k \in Keys, up \in BOOLEAN :
         /\ Sends(k, up)
         /\ up = (k \notin down')
         /\ \A x \in Keys : x # k => (x \in down' <=> x \in down)
  BY UserFacts
<1>2. /\ WireIsWhole' /\ WireIsRight'
      /\ \A x \in Keys : (\E j \in DOMAIN wire : Says(wire, e0, j, x, down))
            => \E j \in DOMAIN wire' : Says(wire', e0', j, x, down')
      /\ \E j \in DOMAIN wire' : Says(wire', e0', j, k, down')
  BY <1>1, SendKeepsWhole, SendKeepsRight
<1>3. held' = held
  BY <1>1 DEF Sends, decoder
<1>4. ASSUME held.id # NoKey, held.id \notin down'
      PROVE  BreakComes(held.id)'
  <2>1. held.id \in Keys
    BY <1>4
  <2>2. \E j \in DOMAIN wire' : Says(wire', e0', j, held.id, down')
    <3>1. CASE held.id = k
      BY <1>2, <3>1
    <3>2. CASE held.id # k
      <4>1. held.id \notin down
        BY <1>1, <1>4, <2>1, <3>2
      <4>2. BreakComes(held.id)
        BY <1>4, <4>1 DEF HeldIsDown
      <4>3. \E j \in DOMAIN wire : Says(wire, e0, j, held.id, down)
        BY <2>1, <4>1, <4>2, BreakIsSaid DEF BreaksAreSaid
      <4>. QED
        BY <1>2, <2>1, <4>3, Zenon
    <3>. QED
      BY <3>1, <3>2
  <2>3. BreaksAreSaid'
    BY BreakIsSaid, PTL
  <2>4. held'.id \in Keys \ down'
    BY <1>3, <1>4, <2>1
  <2>. QED
    BY <1>3, <2>2, <2>3, <2>4, Zenon DEF BreaksAreSaid
<1>5. HeldIsDown'
  BY <1>3, <1>4 DEF HeldIsDown
<1>. QED
  BY <1>2, <1>3, <1>5

LEMMA IrqKeepsDecoding ==
    ASSUME TypeOK, TypeOK', Decoding, KeyboardIrq
    PROVE  Decoding'
<1>. USE DEF Decoding
<1>1. WireIsWhole' /\ WireIsRight'
  <2>1. down' = down
    BY DEF KeyboardIrq
  <2>. QED
    BY <2>1, IrqCases, ReadKeepsWhole, ReadKeepsRight
<1>2. down' = down
  BY DEF KeyboardIrq
<1>3. SUFFICES ASSUME held'.id # NoKey
               PROVE  /\ held'.id \in Keys
                      /\ held'.id \in down \/ \E j \in DOMAIN wire' : Says(wire', e0', j, held'.id, down')
  <2>. DEFINE h == held'.id
              said == \E j \in DOMAIN wire' : Says(wire', e0', j, h, down')
  <2>1. BreaksAreSaid'
    BY BreakIsSaid, PTL
  <2>2. h \in Keys /\ h \notin down' /\ said => BreakComes(held.id)'
    BY <2>1, Zenon DEF BreaksAreSaid
  <2>3. h # NoKey => h \in Keys /\ (h \in down \/ said)
    BY <1>3, Zenon
  <2>4. h # NoKey => h \in Keys /\ (h \in down' \/ BreakComes(held.id)')
    BY <1>2, <2>2, <2>3, Zenon
  <2>5. HeldIsDown' /\ (h # NoKey => h \in Keys)
    BY <2>4, Zenon DEF HeldIsDown
  <2>. QED
    BY <1>1, <2>5, Zenon
<1>4. ASSUME held' = held,
             held.id \in Keys => \/ ~About(wire, e0, 1, held.id)
                                 \/ held.id \in down
                                 \/ wire[1].up = FALSE
      PROVE  /\ held'.id \in Keys
             /\ held'.id \in down \/ \E j \in DOMAIN wire' : Says(wire', e0', j, held'.id, down')
  <2>1. held.id \in Keys
    BY <1>3, <1>4
  <2>2. CASE held.id \in down
    BY <1>4, <2>1, <2>2
  <2>3. CASE held.id \notin down
    <3>1. BreakComes(held.id)
      BY <1>3, <1>4, <2>3 DEF HeldIsDown
    <3>2. \E j \in DOMAIN wire : Says(wire, e0, j, held.id, down)
      BY <2>1, <2>3, <3>1, BreakIsSaid DEF BreaksAreSaid
    <3>3. ~About(wire, e0, 1, held.id) \/ ~Says(wire, e0, 1, held.id, down)
      <4>1. (held.id \notin down) = TRUE
        BY <2>3
      <4>. QED
        BY <1>4, <2>1, <2>3, <4>1 DEF Says
    <3>. QED
      BY <1>4, <2>1, <3>2, <3>3, OthersStaySaid
  <2>. QED
    BY <2>2, <2>3
<1>5. CASE wire[1] = E0 /\ Keep
  <2>1. held.id \in Keys => ~About(wire, e0, 1, held.id)
    BY <1>5, PrefixIsNoKey
  <2>. QED
    BY <1>4, <1>5, <2>1 DEF Keep
<1>6. ASSUME NEW k \in Keys, About(wire, e0, 1, k),
             \/ wire[1].up = TRUE /\ BreakCode(k)
             \/ wire[1].up = FALSE /\ (SilentCode(k) \/ MakeCode(k))
      PROVE  /\ held'.id \in Keys
             /\ held'.id \in down \/ \E j \in DOMAIN wire' : Says(wire', e0', j, held'.id, down')
  <2>1. CASE BreakCode(k)
    <3>1. ~IsHeld(k) /\ held' = held
      BY <1>3, <2>1 DEF BreakCode, RepeatClear, NoHeld, Keep
    <3>2. held.id \in Keys => ~About(wire, e0, 1, held.id)
      BY <1>6, <3>1, AboutOne DEF IsHeld
    <3>. QED
      BY <1>4, <3>1, <3>2
  <2>2. CASE SilentCode(k) /\ wire[1].up = FALSE
    BY <1>4, <2>2 DEF SilentCode, Keep
  <2>3. CASE MakeCode(k) /\ wire[1].up = FALSE
    <3>1. held'.id = k
      BY <2>3 DEF MakeCode, RepeatSet
    <3>2. CASE k \notin down
      <4>1. ~Says(wire, e0, 1, k, down)
        <5>1. (k \notin down) = TRUE
          BY <3>2
        <5>. QED
          BY <2>3, <5>1 DEF Says
      <4>. QED
        BY <1>6, <3>1, <4>1, WrongIsPutRight
    <3>. QED
      BY <3>1, <3>2
  <2>. QED
    BY <1>6, <2>1, <2>2, <2>3
<1>. QED
  BY <1>5, <1>6, IrqCases, Zenon

LEMMA DecodingKept ==
    ASSUME TypeOK, TypeOK', Decoding, [Next]_vars
    PROVE  Decoding'
<1>1. CASE User
  BY <1>1, UserKeepsDecoding
<1>2. CASE KeyboardIrq
  BY <1>2, IrqKeepsDecoding
<1>3. CASE TimerIrq \/ MainLoop \/ UNCHANGED vars
  <2>1. UNCHANGED <<down, wire, e0, held>>
    BY <1>3 DEF TimerIrq, MainLoop, vars, keyboard, decoder, Fetch, Dispatch, Handle,
                CallBegins, ReadTime, ReadKind, ReadCode, Advance, HandleRepeat
  <2>. QED
    BY <2>1, Zenon DEF Decoding, WireIsWhole, WireIsRight, HeldIsDown, BreakComes
<1>. QED
  BY <1>1, <1>2, <1>3 DEF Next

-----------------------------------------------------------------------------
(* The modifiers.                                                          *)

LEMMA KeyOfFlag ==
    ASSUME FakeShift \notin Keys, NEW k \in Keys
    PROVE  /\ "ctrl_l" \in Flag(k) => k = [ext |-> FALSE, code |-> "ctrl"]
           /\ "ctrl_r" \in Flag(k) => k = [ext |-> TRUE, code |-> "ctrl"]
           /\ "shift" \in Flag(k) => k = [ext |-> FALSE, code |-> "shift"]
<1>1. PICK e \in BOOLEAN, c \in Code : k = [ext |-> e, code |-> c]
  BY KeyFacts DEF Key
<1>2. CASE e = TRUE
  <2>1. k = [ext |-> TRUE, code |-> c] /\ k.ext = TRUE /\ k.code = c /\ c # "shift"
    BY <1>1, <1>2 DEF FakeShift
  <2>. QED
    BY <2>1 DEF Flag
<1>3. CASE e = FALSE
  <2>1. k = [ext |-> FALSE, code |-> c] /\ k.ext = FALSE /\ k.code = c
    BY <1>1, <1>3
  <2>. QED
    BY <2>1 DEF Flag
<1>. QED
  BY <1>2, <1>3

LEMMA FlagsApart ==
    ASSUME FakeShift \notin Keys, NEW x \in Keys, NEW k \in Keys, x # k
    PROVE  Flag(x) \cap Flag(k) = {}
<1>1. Flag(x) \subseteq {"shift", "ctrl_l", "ctrl_r"}
  BY KeyFacts
<1>. QED
  BY <1>1, KeyOfFlag

LEMMA FlagIsOne ==
    ASSUME NEW x \in Keys
    PROVE  Flag(x) = {} \/ \E f : Flag(x) = {f}
BY DEF Flag

LEMMA UserKeepsFlags ==
    ASSUME TypeOK, Decoding, FlagsComeRight, User
    PROVE  FlagsComeRight'
<1>1. PICK k \in Keys, up \in BOOLEAN :
         /\ Sends(k, up)
         /\ up = (k \notin down')
         /\ \A x \in Keys : x # k => (x \in down' <=> x \in down)
  BY UserFacts
<1>2. /\ \A x \in Keys : (\E j \in DOMAIN wire : Says(wire, e0, j, x, down))
            => \E j \in DOMAIN wire' : Says(wire', e0', j, x, down')
      /\ \E j \in DOMAIN wire' : Says(wire', e0', j, k, down')
  BY <1>1, SendKeepsRight DEF Decoding
<1>3. flags' = flags
  BY <1>1 DEF Sends, decoder
<1>. QED
  BY <1>1, <1>2, <1>3, Zenon DEF FlagsComeRight

LEMMA IrqKeepsFlags ==
    ASSUME FakeShift \notin Keys, TypeOK, Decoding, FlagsComeRight, KeyboardIrq
    PROVE  FlagsComeRight'
<1>. USE DEF Decoding
<1>1. down' = down
  BY DEF KeyboardIrq
<1>2. ASSUME NEW x \in Keys, Flag(x) # {},
             Flag(x) \subseteq flags' <=> Flag(x) \subseteq flags,
             ~About(wire, e0, 1, x)
      PROVE  \/ Flag(x) \subseteq flags' <=> x \in down'
             \/ \E j \in DOMAIN wire' : Says(wire', e0', j, x, down')
  <2>1. (\E j \in DOMAIN wire : Says(wire, e0, j, x, down))
          => \E j \in DOMAIN wire' : Says(wire', e0', j, x, down')
    BY <1>2, OthersStaySaid
  <2>. QED
    BY <1>1, <1>2, <2>1, Zenon DEF FlagsComeRight
<1>3. CASE wire[1] = E0 /\ flags' = flags
  <2>1. \A x \in Keys : ~About(wire, e0, 1, x)
    BY <1>3, PrefixIsNoKey
  <2>. QED
    BY <1>2, <1>3, <2>1, Zenon DEF FlagsComeRight
<1>4. ASSUME NEW k \in Keys, About(wire, e0, 1, k),
             \/ wire[1].up = TRUE /\ flags' = flags \ Flag(k)
             \/ wire[1].up = FALSE /\ flags' = flags \cup Flag(k)
      PROVE  FlagsComeRight'
  <2>1. flags' \subseteq UNION {Flag(x) : x \in Keys}
    BY <1>4 DEF FlagsComeRight
  <2>2. ASSUME NEW x \in Keys, Flag(x) # {}
        PROVE  \/ Flag(x) \subseteq flags' <=> x \in down'
               \/ \E j \in DOMAIN wire' : Says(wire', e0', j, x, down')
    <3>1. CASE x # k
      <4>1. ~About(wire, e0, 1, x)
        BY <1>4, <3>1, AboutOne
      <4>2. Flag(x) \subseteq flags' <=> Flag(x) \subseteq flags
        BY <1>4, <3>1, FlagsApart
      <4>. QED
        BY <1>2, <2>2, <4>1, <4>2, Zenon
    <3>2. CASE x = k
      <4>1. CASE Says(wire, e0, 1, k, down)
        <5>1. wire[1].up = (k \notin down)
          BY <4>1, Zenon DEF Says
        <5>2. Flag(k) \subseteq flags' <=> k \in down
          BY <1>4, <2>2, <3>2, <5>1, FlagIsOne
        <5>. QED
          BY <1>1, <3>2, <5>2, Zenon
      <4>2. CASE ~Says(wire, e0, 1, k, down)
        BY <1>4, <3>2, <4>2, WrongIsPutRight
      <4>. QED
        BY <4>1, <4>2
    <3>. QED
      BY <3>1, <3>2
  <2>. QED
    BY <2>1, <2>2, Zenon DEF FlagsComeRight
<1>5. ASSUME NEW k \in Keys, About(wire, e0, 1, k), wire[1].up = FALSE, MakeCode(k)
      PROVE  FlagsComeRight'
  <2>1. flags' = flags \cup Flag(k)
    BY <1>5, KeyFacts DEF MakeCode
  <2>. QED
    BY <1>4, <1>5, <2>1
<1>. QED
  BY <1>3, <1>4, <1>5, IrqCases DEF BreakCode, SilentCode

LEMMA FlagsKept ==
    ASSUME FakeShift \notin Keys, TypeOK, Decoding, FlagsComeRight, [Next]_vars
    PROVE  FlagsComeRight'
<1>1. CASE User
  BY <1>1, UserKeepsFlags
<1>2. CASE KeyboardIrq
  BY <1>2, IrqKeepsFlags
<1>3. CASE TimerIrq \/ MainLoop \/ UNCHANGED vars
  <2>1. UNCHANGED <<down, wire, e0, flags>>
    BY <1>3 DEF TimerIrq, MainLoop, vars, keyboard, decoder, Fetch, Dispatch, Handle,
                CallBegins, ReadTime, ReadKind, ReadCode, Advance, HandleRepeat
  <2>. QED
    BY <2>1, Zenon DEF FlagsComeRight
<1>. QED
  BY <1>1, <1>2, <1>3 DEF Next

(* With nothing on the wire the flags are the keys that are down.          *)
LEMMA FlagsAreRight ==
    ASSUME FakeShift \notin Keys, TypeOK, FlagsComeRight
    PROVE  ModifiersFollowTheKeys
<1>. SUFFICES ASSUME wire = << >>
              PROVE  /\ "ctrl_l" \in flags <=> [ext |-> FALSE, code |-> "ctrl"] \in down
                     /\ "ctrl_r" \in flags <=> [ext |-> TRUE, code |-> "ctrl"] \in down
                     /\ "shift" \in flags <=> [ext |-> FALSE, code |-> "shift"] \in down
  BY DEF ModifiersFollowTheKeys
<1>1. \A x \in Keys : Flag(x) = {} \/ (Flag(x) \subseteq flags <=> x \in down)
  <2>1. DOMAIN wire = {}
    OBVIOUS
  <2>. QED
    BY <2>1, Zenon DEF FlagsComeRight
<1>2. ASSUME NEW x, NEW f, x \in Keys => Flag(x) = {f},
             \A k \in Keys : f \in Flag(k) => k = x
      PROVE  f \in flags <=> x \in down
  <2>1. CASE x \in Keys
    BY <1>1, <1>2, <2>1
  <2>2. CASE x \notin Keys
    <3>1. x \notin down
      BY <2>2 DEF TypeOK
    <3>2. f \notin flags
      <4>. SUFFICES ASSUME f \in flags PROVE FALSE
        OBVIOUS
      <4>1. PICK k \in Keys : f \in Flag(k)
        BY DEF FlagsComeRight
      <4>. QED
        BY <1>2, <2>2, <4>1
    <3>. QED
      BY <3>1, <3>2
  <2>. QED
    BY <2>1, <2>2
<1>3. \A k \in Keys : /\ "ctrl_l" \in Flag(k) => k = [ext |-> FALSE, code |-> "ctrl"]
                      /\ "ctrl_r" \in Flag(k) => k = [ext |-> TRUE, code |-> "ctrl"]
                      /\ "shift" \in Flag(k) => k = [ext |-> FALSE, code |-> "shift"]
  BY KeyOfFlag
<1>4. /\ Flag([ext |-> FALSE, code |-> "ctrl"]) = {"ctrl_l"}
      /\ Flag([ext |-> TRUE, code |-> "ctrl"]) = {"ctrl_r"}
      /\ Flag([ext |-> FALSE, code |-> "shift"]) = {"shift"}
  BY DEF Flag
<1>. QED
  BY <1>2, <1>3, <1>4, Zenon

-----------------------------------------------------------------------------
(* The call.                                                               *)

LEMMA CallUndisturbed ==
    ASSUME TypeOK, Call, UNCHANGED <<held, phase, loop, kind, out, raced>>,
           lag >= - DELAY => lag' >= - DELAY
    PROVE  Call'
<1>1. /\ held' = held /\ phase' = phase /\ loop' = loop /\ kind' = kind
      /\ out' = out /\ raced' = raced
  OBVIOUS
<1>2. Repeated' = Repeated
  BY <1>1 DEF Repeated, Half
<1>3. RepeatsTheHeldKey'
  <2>1. ~raced' => ~raced
    BY <1>1 DEF TypeOK
  <2>. QED
    BY <1>1, <2>1 DEF Call, RepeatsTheHeldKey
<1>. QED
  BY <1>1, <1>2, <1>3 DEF Call

LEMMA CallKept ==
    ASSUME TypeOK, Call, Halves, [Next]_vars
    PROVE  Call'
<1>. USE DEF Call
<1>1. DELAY \in Nat \ {0} /\ MaxLag \in Nat /\ lag \in Int
  BY DelayAssumption, BoundAssumption DEF TypeOK
<1>2. CASE User
  <2>1. UNCHANGED <<decoder, lag, mainloop, raced>>
    BY <1>2 DEF User, GoesDown, GoesUp, StaysDown, Sends
  <2>. QED
    BY <2>1, CallUndisturbed DEF decoder, mainloop
<1>3. CASE KeyboardIrq
  <2>1. UNCHANGED <<loop, kind, out>> /\ raced' = (loop \in InCall)
    BY <1>3 DEF KeyboardIrq, mainloop
  <2>2. lag >= - DELAY => lag' >= - DELAY
    <3>1. \/ Keep
          \/ \E k : BreakCode(k) \/ SilentCode(k) \/ MakeCode(k)
      BY <1>3 DEF KeyboardIrq
    <3>. QED
      BY <1>1, <3>1 DEF BreakCode, SilentCode, MakeCode, Keep, RepeatSet, RepeatClear
  <2>. QED
    BY <2>1, <2>2 DEF RepeatsTheHeldKey, InCall
<1>4. CASE TimerIrq
  <2>1. UNCHANGED <<decoder, mainloop, raced>>
    BY <1>4 DEF TimerIrq
  <2>2. lag >= - DELAY => lag' >= - DELAY
    BY <1>1, <1>4 DEF TimerIrq, Later
  <2>. QED
    BY <2>1, <2>2, CallUndisturbed DEF decoder, mainloop
<1>5. CASE Fetch \/ Dispatch \/ Handle \/ HandleRepeat
  <2>1. loop' \in {"fetch", "handle", "call"}
    BY <1>5 DEF Fetch, Dispatch, Handle, HandleRepeat, NextEvent
  <2>. QED
    BY <2>1 DEF RepeatsTheHeldKey
<1>6. CASE CallBegins
  <2>1. loop' \in {"fetch", "handle", "time"}
    BY <1>6 DEF CallBegins, Returns0, NextEvent
  <2>. QED
    BY <2>1 DEF RepeatsTheHeldKey
<1>7. CASE ReadTime
  <2>1. loop' \in {"fetch", "handle", "kind"} /\ lag' = lag
    BY <1>7 DEF ReadTime, Returns0, NextEvent
  <2>2. loop' = "kind" => lag >= 0
    BY <1>1, <1>7 DEF ReadTime, Returns0, NextEvent
  <2>3. loop' = "kind" => lag' >= - DELAY
    BY <1>1, <2>1, <2>2
  <2>. QED
    BY <2>1, <2>3 DEF RepeatsTheHeldKey
<1>8. CASE ReadKind
  <2>1. /\ loop' \in {"fetch", "handle", "code"} /\ lag' = lag /\ lag >= - DELAY
        /\ held' = held
        /\ loop' = "code" => kind' = held.kind /\ held.kind # "none"
    BY <1>8 DEF ReadKind, Returns0, NextEvent, decoder
  <2>. QED
    BY <2>1 DEF RepeatsTheHeldKey
<1>9. CASE ReadCode
  <2>1. /\ loop' = "advance" /\ out' = Repeated /\ lag' = lag /\ lag >= - DELAY
        /\ kind' = kind /\ kind # "none" /\ UNCHANGED <<held, phase, raced>>
        /\ ~raced => kind = held.kind
    BY <1>9 DEF ReadCode, decoder
  <2>2. Repeated' = Repeated /\ Repeated.again = TRUE
    BY <2>1, RepeatedType DEF Repeated, Half
  <2>. QED
    BY <2>1, <2>2 DEF RepeatsTheHeldKey
<1>10. CASE Advance
  <2>1. /\ loop' = "deliver" /\ UNCHANGED <<held, kind, out, raced>>
        /\ kind # "none" /\ out.again = TRUE
        /\ ~raced => kind = held.kind /\ out = Repeated
        /\ phase' = IF kind = "pair" /\ out.code = "LEFT" THEN 1
                    ELSE IF kind = "pair" THEN 0 ELSE phase
    BY <1>10 DEF Advance
  <2>2. ~raced => RepeatsTheHeldKey'
    <3>. SUFFICES ASSUME ~raced PROVE RepeatsTheHeldKey'
      OBVIOUS
    <3>1. CASE kind = "pair"
      BY <2>1, <3>1 DEF RepeatsTheHeldKey, Repeated, Half, Event, TypeOK
    <3>2. CASE kind # "pair"
      BY <2>1, <3>2 DEF RepeatsTheHeldKey, Repeated, TypeOK, KindType
    <3>. QED
      BY <3>1, <3>2
  <2>. QED
    BY <2>1, <2>2 DEF RepeatsTheHeldKey
<1>11. CASE UNCHANGED vars
  BY <1>11, CallUndisturbed DEF vars, decoder, mainloop
<1>. QED
  BY <1>2, <1>3, <1>4, <1>5, <1>6, <1>7, <1>8, <1>9, <1>10, <1>11 DEF Next, MainLoop

-----------------------------------------------------------------------------
(* The halves.                                                             *)

LEMMA PairedConcat ==
    ASSUME NEW s \in Seq(EventType), NEW t \in Seq(EventType), Paired(s), Paired(t)
    PROVE  Paired(s \o t)
<1> DEFINE n == Len(s)
           m == Len(t)
<1>1. /\ n \in Nat /\ m \in Nat /\ DOMAIN s = 1 .. n /\ DOMAIN t = 1 .. m
      /\ DOMAIN (s \o t) = 1 .. n + m
      /\ \A i \in 1 .. n + m : (s \o t)[i] = IF i <= n THEN s[i] ELSE t[i - n]
  BY LenProperties, ConcatProperties
<1>. HIDE DEF n, m
<1>2. ASSUME NEW i \in 1 .. n + m, (s \o t)[i] = First
      PROVE  i + 1 \in 1 .. n + m /\ (s \o t)[i + 1] = Second
  <2>1. CASE i <= n
    <3>1. i \in 1 .. n /\ s[i] = First
      BY <1>1, <1>2, <2>1
    <3>2. i + 1 \in 1 .. n /\ s[i + 1] = Second
      BY <1>1, <3>1 DEF Paired
    <3>. QED
      BY <1>1, <3>2
  <2>2. CASE i > n
    <3>1. i - n \in 1 .. m /\ t[i - n] = First
      BY <1>1, <1>2, <2>2
    <3>2. (i - n) + 1 \in 1 .. m /\ t[(i - n) + 1] = Second
      BY <1>1, <3>1 DEF Paired
    <3>3. i + 1 \in 1 .. n + m /\ (i + 1) - n = (i - n) + 1 /\ ~(i + 1 <= n)
      BY <1>1, <2>2, <3>2
    <3>. QED
      BY <1>1, <3>2, <3>3
  <2>. QED
    BY <1>1, <2>1, <2>2
<1>. QED
  BY <1>1, <1>2 DEF Paired

LEMMA PairedTail ==
    ASSUME NEW s \in Seq(EventType), s # << >>, Paired(s)
    PROVE  /\ Paired(Tail(s))
           /\ s[1] = First => Tail(s) # << >> /\ Tail(s)[1] = Second
<1>1. /\ Tail(s) \in Seq(EventType) /\ Len(s) \in Nat /\ DOMAIN s = 1 .. Len(s)
      /\ DOMAIN Tail(s) = 1 .. Len(s) - 1
      /\ \A i \in 1 .. Len(s) - 1 : Tail(s)[i] = s[i + 1]
  BY HeadTailProperties, LenProperties
<1>2. Len(s) # 0
  BY EmptySeq
<1>3. ASSUME NEW i \in 1 .. Len(s) - 1, Tail(s)[i] = First
      PROVE  i + 1 \in 1 .. Len(s) - 1 /\ Tail(s)[i + 1] = Second
  <2>1. i + 1 \in 1 .. Len(s) /\ s[i + 1] = First
    BY <1>1, <1>3
  <2>2. (i + 1) + 1 \in 1 .. Len(s) /\ s[(i + 1) + 1] = Second
    BY <1>1, <2>1 DEF Paired
  <2>3. i + 1 \in 1 .. Len(s) - 1
    BY <1>1, <2>2
  <2>. QED
    BY <1>1, <2>2, <2>3
<1>4. ASSUME s[1] = First
      PROVE  Tail(s) # << >> /\ Tail(s)[1] = Second
  <2>1. 1 \in 1 .. Len(s)
    BY <1>1, <1>2
  <2>2. 1 + 1 \in 1 .. Len(s) /\ s[1 + 1] = Second
    BY <1>1, <1>4, <2>1 DEF Paired
  <2>3. 1 \in 1 .. Len(s) - 1
    BY <1>1, <2>2
  <2>4. Len(Tail(s)) # 0
    BY <1>1, <2>3, HeadTailProperties
  <2>. QED
    BY <1>1, <2>2, <2>3, <2>4, EmptySeq
<1>. QED
  BY <1>1, <1>3, <1>4 DEF Paired

LEMMA ComingFacts ==
    ASSUME TypeOK
    PROVE  /\ Coming \in Seq(EventType)
           /\ batch # << >> =>
                 /\ Coming # << >> /\ Coming[1] = Head(batch)
                 /\ Tail(Coming) = Tail(batch) \o queue
<1>1. batch \in Seq(EventType) /\ queue \in Seq(EventType)
  BY DEF TypeOK
<1>2. /\ batch \o queue \in Seq(EventType)
      /\ Len(batch \o queue) = Len(batch) + Len(queue)
      /\ \A i \in 1 .. Len(batch) + Len(queue) : (batch \o queue)[i] =
            IF i <= Len(batch) THEN batch[i] ELSE queue[i - Len(batch)]
  BY <1>1, ConcatProperties
<1>3. Len(batch) \in Nat /\ Len(queue) \in Nat
  BY <1>1, LenProperties
<1>4. ASSUME batch # << >>
      PROVE  /\ Coming # << >> /\ Coming[1] = Head(batch)
             /\ Tail(Coming) = Tail(batch) \o queue
  <2>1. Len(batch) \in Nat \ {0} /\ Head(batch) = batch[1]
    BY <1>4, BatchFacts
  <2>2. (batch \o queue)[1] = batch[1] /\ Len(batch \o queue) # 0
    BY <1>2, <1>3, <2>1
  <2>3. Coming # << >>
    BY <2>2, EmptySeq DEF Coming
  <2>4. Tail(batch) \o queue = Tail(batch \o queue)
    <3> DEFINE a == Tail(batch)
               c == batch \o queue
    <3>1. /\ a \in Seq(EventType) /\ Len(a) = Len(batch) - 1
          /\ \A i \in 1 .. Len(a) : a[i] = batch[i + 1]
      BY <1>1, <1>4, HeadTailProperties
    <3>2. /\ a \o queue \in Seq(EventType) /\ Len(a \o queue) = Len(a) + Len(queue)
          /\ \A i \in 1 .. Len(a) + Len(queue) : (a \o queue)[i] =
                IF i <= Len(a) THEN a[i] ELSE queue[i - Len(a)]
      BY <1>1, <3>1, ConcatProperties
    <3>3. /\ Tail(c) \in Seq(EventType) /\ Len(Tail(c)) = Len(c) - 1
          /\ \A i \in 1 .. Len(Tail(c)) : Tail(c)[i] = c[i + 1]
      BY <1>2, <2>3, HeadTailProperties DEF Coming
    <3>4. Len(a \o queue) = Len(Tail(c))
      BY <1>2, <1>3, <2>1, <3>1, <3>2, <3>3
    <3>5. ASSUME NEW i \in 1 .. Len(a \o queue)
          PROVE  (a \o queue)[i] = Tail(c)[i]
      <4>1. /\ i \in 1 .. Len(a) + Len(queue) /\ i \in 1 .. Len(Tail(c))
            /\ i + 1 \in 1 .. Len(batch) + Len(queue)
        BY <1>2, <1>3, <2>1, <3>1, <3>2, <3>3
      <4>2. Tail(c)[i] = IF i + 1 <= Len(batch) THEN batch[i + 1] ELSE queue[(i + 1) - Len(batch)]
        BY <1>2, <3>3, <4>1
      <4>3. (i + 1 <= Len(batch) <=> i <= Len(a)) /\ (i + 1) - Len(batch) = i - Len(a)
        BY <1>3, <3>1, <4>1
      <4>4. i <= Len(a) => i \in 1 .. Len(a)
        BY <1>3, <2>1, <3>1, <4>1
      <4>. QED
        BY <3>1, <3>2, <4>1, <4>2, <4>3, <4>4
    <3>. HIDE DEF a, c
    <3>6. a \o queue = Tail(c)
      BY <3>2, <3>3, <3>4, <3>5, SeqEqual
    <3>. QED
      BY <3>6 DEF a, c
  <2>. QED
    BY <1>2, <2>1, <2>2, <2>3, <2>4 DEF Coming
<1>. QED
  BY <1>2, <1>4 DEF Coming

(* What is pushed has its halves together and comes last.                  *)
LEMMA AddedKeepsHalves ==
    ASSUME TypeOK, Halves, UNCHANGED <<batch, loop, last>>,
           NEW s \in Seq(EventType), queue' = queue \o s, Paired(s)
    PROVE  Halves'
<1>1. batch \in Seq(EventType) /\ queue \in Seq(EventType)
  BY DEF TypeOK
<1>2. batch \o (queue \o s) = (batch \o queue) \o s
  BY <1>1, ConcatAssociative
<1>3. Coming' = Coming \o s
  BY <1>2 DEF Coming
<1>4. Coming \in Seq(EventType)
  BY ComingFacts
<1>5. Paired(Coming \o s)
  BY <1>4, PairedConcat DEF Halves
<1>6. Coming # << >> /\ Coming[1] = Second => Coming \o s # << >> /\ (Coming \o s)[1] = Second
  <2>. SUFFICES ASSUME Coming # << >>, Coming[1] = Second
                PROVE  Coming \o s # << >> /\ (Coming \o s)[1] = Second
    OBVIOUS
  <2>1. Len(Coming) \in Nat \ {0} /\ Len(s) \in Nat
    BY <1>4, EmptySeq, LenProperties
  <2>2. Len(Coming \o s) = Len(Coming) + Len(s) /\ (Coming \o s)[1] = Coming[1]
    BY <1>4, <2>1, ConcatProperties
  <2>. QED
    BY <2>1, <2>2, EmptySeq
<1>. HIDE DEF Coming
<1>. QED
  BY <1>3, <1>5, <1>6 DEF Halves

LEMMA PushKeepsHalves ==
    ASSUME TypeOK, Halves, UNCHANGED <<batch, loop, last>>,
           NEW evs \in Seq(EventType), Paired(evs), Push(evs)
    PROVE  Halves'
<1>1. PICK s \in Seq(EventType) :
         /\ queue' = queue \o s
         /\ s = evs \/ \A i \in 1 .. Len(s) : s[i].half = "cut"
  BY PushFacts
<1>2. Paired(s)
  <2>1. First.half # "cut" /\ DOMAIN s = 1 .. Len(s)
    BY LenProperties DEF First, Event
  <2>. QED
    BY <1>1, <2>1 DEF Paired
<1>. QED
  BY <1>1, <1>2, AddedKeepsHalves

LEMMA PressedPaired ==
    /\ Paired(<<Tick>>)
    /\ \A k \in Keys : Paired(Pressed(k))
<1>1. Tick # First
  BY DEF Tick, First, Event
<1>2. Paired(<<Tick>>)
  BY <1>1 DEF Paired
<1>3. ASSUME NEW k \in Keys
      PROVE  Paired(Pressed(k))
  <2>1. CASE Kind(k) = "pair"
    <3>1. Pressed(k) = <<First, Second>> /\ First # Second
      BY <2>1 DEF Pressed, First, Second, Event
    <3>. DEFINE s == <<First, Second>>
    <3>2. DOMAIN s = 1 .. 2 /\ s[1] = First /\ s[2] = Second
      OBVIOUS
    <3>. HIDE DEF s
    <3>3. Paired(s)
      BY <3>1, <3>2 DEF Paired
    <3>4. Pressed(k) = s
      BY <3>1 DEF s
    <3>. QED
      BY <3>3, <3>4
  <2>2. CASE Kind(k) # "pair"
    <3> DEFINE e == Event(Kind(k), Meaning(k), "no", FALSE)
    <3>1. Pressed(k) = <<e>> /\ e # First
      BY <2>2 DEF Pressed, First, Event
    <3>. HIDE DEF e
    <3>2. Paired(<<e>>)
      BY <3>1 DEF Paired
    <3>. QED
      BY <3>1, <3>2
  <2>. QED
    BY <2>1, <2>2
<1>. QED
  BY <1>2, <1>3

(* The first event of the batch is done with.                              *)
LEMMA NextKeepsHalves ==
    ASSUME TypeOK, Halves, batch # << >>, NextEvent, queue' = queue,
           last' = First => Head(batch) = First
    PROVE  Halves'
<1>1. /\ Coming \in Seq(EventType) /\ Coming # << >> /\ Coming[1] = Head(batch)
      /\ Coming' = Tail(Coming)
  BY ComingFacts DEF Coming, NextEvent
<1>2. loop' \in {"fetch", "handle"} /\ (loop' # "fetch" => batch' # << >>)
  BY NextEventTypes
<1>3. /\ Paired(Tail(Coming))
      /\ Coming[1] = First => Tail(Coming) # << >> /\ Tail(Coming)[1] = Second
  BY <1>1, PairedTail DEF Halves
<1>. HIDE DEF Coming
<1>. QED
  BY <1>1, <1>2, <1>3 DEF Halves

LEMMA HalvesUndisturbed ==
    ASSUME Halves, UNCHANGED <<batch, queue>>,
           last' = First => last = First /\ loop' \in {"fetch", "handle"},
           loop' # "fetch" => batch # << >>,
           loop' \notin {"fetch", "handle"} => Head(batch).type = "tick"
    PROVE  Halves'
<1>1. Coming' = Coming
  BY DEF Coming
<1>. HIDE DEF Coming
<1>. QED
  BY <1>1 DEF Halves

LEMMA MainLoopKeepsHalves ==
    ASSUME TypeOK, Call, Halves, MainLoop
    PROVE  Halves'
<1>1. CASE Fetch
  <2>1. /\ queue \in Seq(EventType) /\ queue # << >> /\ batch \in Seq(EventType)
        /\ batch' = Append(batch, Head(queue)) /\ queue' = Tail(queue)
        /\ loop' = "fetch" /\ loop = "fetch" /\ last' = last
    BY <1>1 DEF Fetch, TypeOK
  <2>2. Append(batch, Head(queue)) \o Tail(queue) = batch \o queue
    <3>1. Head(queue) \in EventType /\ Tail(queue) \in Seq(EventType)
      BY <2>1, HeadTailProperties
    <3>2. /\ <<Head(queue)>> \in Seq(EventType)
          /\ Append(batch, Head(queue)) = batch \o <<Head(queue)>>
      BY <2>1, <3>1, AppendIsConcat
    <3>3. (batch \o <<Head(queue)>>) \o Tail(queue) = batch \o (<<Head(queue)>> \o Tail(queue))
      BY <2>1, <3>1, <3>2, ConcatAssociative
    <3>4. <<Head(queue)>> \o Tail(queue) = queue
      <4> DEFINE h == <<Head(queue)>>
                 t == Tail(queue)
      <4>1. h \in Seq(EventType) /\ Len(h) = 1 /\ h[1] = queue[1]
        BY <2>1, <3>1
      <4>2. /\ t \in Seq(EventType) /\ Len(t) = Len(queue) - 1
            /\ \A i \in 1 .. Len(t) : t[i] = queue[i + 1]
        BY <2>1, HeadTailProperties
      <4>3. Len(queue) \in Nat \ {0}
        BY <2>1, EmptySeq
      <4>. HIDE DEF h, t
      <4>4. /\ h \o t \in Seq(EventType) /\ Len(h \o t) = Len(h) + Len(t)
            /\ \A i \in 1 .. Len(h) + Len(t) :
                  (h \o t)[i] = IF i <= Len(h) THEN h[i] ELSE t[i - Len(h)]
        <5>1. h \in Seq(EventType) /\ t \in Seq(EventType)
          BY <4>1, <4>2
        <5>. QED
          BY <5>1, ConcatProperties
      <4>5. Len(h \o t) = Len(queue)
        BY <4>1, <4>2, <4>3, <4>4
      <4>6. ASSUME NEW i \in 1 .. Len(h \o t)
            PROVE  (h \o t)[i] = queue[i]
        <5>1. i \in 1 .. Len(h) + Len(t)
          BY <4>4
        <5>2. CASE i = 1
          BY <4>1, <4>4, <5>1, <5>2
        <5>3. CASE i # 1
          <6>1. i - 1 \in 1 .. Len(t) /\ (i - 1) + 1 = i /\ ~(i <= Len(h))
            BY <4>1, <4>2, <4>3, <5>1, <5>3
          <6>. QED
            BY <4>1, <4>2, <4>4, <5>1, <6>1
        <5>. QED
          BY <5>2, <5>3
      <4>7. h \o t = queue
        BY <2>1, <4>4, <4>5, <4>6, SeqEqual
      <4>. QED
        BY <4>7 DEF h, t
    <3>. QED
      BY <3>2, <3>3, <3>4
  <2>3. Coming' = Coming
    BY <2>1, <2>2 DEF Coming
  <2>. HIDE DEF Coming
  <2>. QED
    BY <2>1, <2>3 DEF Halves
<1>2. CASE Dispatch
  BY <1>2, HalvesUndisturbed DEF Dispatch
<1>3. CASE Handle
  <2>1. batch # << >> /\ queue' = queue /\ loop = "handle"
    BY <1>3 DEF Handle, Halves
  <2>2. Coming[1] = Head(batch)
    BY <2>1, ComingFacts
  <2>3. CASE RepeatsOn(Head(batch))
    <3>1. /\ loop' = "call" /\ batch' = batch /\ Head(batch).type = "tick"
          /\ last' = IF Head(batch) = Tick THEN last ELSE HalfOf(Head(batch))
      BY <1>3, <2>3 DEF Handle, RepeatsOn
    <3>2. last # First
      <4>1. Second.type = "key"
        BY DEF Second, Event
      <4>. QED
        BY <2>2, <3>1, <4>1 DEF Halves
    <3>3. last' # First
      <4>1. First.type = "key" /\ NoEvent # First
        BY DEF First, NoEvent, Event
      <4>. QED
        BY <3>1, <3>2, <4>1 DEF HalfOf
    <3>. QED
      BY <2>1, <3>1, <3>3, HalvesUndisturbed
  <2>4. CASE ~RepeatsOn(Head(batch))
    <3>1. NextEvent /\ last' = IF Head(batch) = Tick THEN last ELSE HalfOf(Head(batch))
      BY <1>3, <2>4 DEF Handle
    <3>2. Head(batch) # Tick
      BY <2>4 DEF RepeatsOn, Tick, Event
    <3>3. last' = First => Head(batch) = First
      <4>1. NoEvent # First
        BY DEF First, NoEvent, Event
      <4>. QED
        BY <3>1, <3>2, <4>1 DEF HalfOf
    <3>. QED
      BY <2>1, <3>1, <3>3, NextKeepsHalves
  <2>. QED
    BY <2>3, <2>4
<1>4. CASE CallBegins \/ ReadTime \/ ReadKind
  <2>1. /\ batch # << >> /\ last # First /\ last' = last /\ queue' = queue
        /\ Head(batch).type = "tick"
    BY <1>4 DEF CallBegins, ReadTime, ReadKind, Halves
  <2>2. CASE NextEvent
    BY <2>1, <2>2, NextKeepsHalves
  <2>3. CASE batch' = batch
    BY <2>1, <2>3, HalvesUndisturbed
  <2>. QED
    BY <1>4, <2>2, <2>3 DEF CallBegins, ReadTime, ReadKind, Returns0
<1>5. CASE ReadCode \/ Advance
  <2>1. /\ batch # << >> /\ last # First /\ last' = last
        /\ Head(batch).type = "tick" /\ UNCHANGED <<batch, queue>>
    BY <1>5 DEF ReadCode, Advance, Halves
  <2>. QED
    BY <2>1, HalvesUndisturbed
<1>6. CASE HandleRepeat
  <2>1. /\ batch # << >> /\ last' = HalfOf(out) /\ out.again = TRUE
        /\ Head(batch).type = "tick" /\ UNCHANGED <<batch, queue>>
    BY <1>6 DEF HandleRepeat, Halves, Call
  <2>2. last' # First
    <3>1. First.again = FALSE /\ NoEvent # First
      BY DEF First, NoEvent, Event
    <3>. QED
      BY <2>1, <3>1 DEF HalfOf
  <2>. QED
    BY <2>1, <2>2, HalvesUndisturbed
<1>. QED
  BY <1>1, <1>2, <1>3, <1>4, <1>5, <1>6 DEF MainLoop

LEMMA HalvesKept ==
    ASSUME TypeOK, WireIsWhole, Call, Halves, [Next]_vars
    PROVE  Halves'
<1>1. CASE User \/ UNCHANGED vars
  <2>1. UNCHANGED <<batch, queue, loop, last>>
    BY <1>1 DEF User, GoesDown, GoesUp, StaysDown, Sends, vars, mainloop
  <2>2. Coming' = Coming
    BY <2>1 DEF Coming
  <2>. HIDE DEF Coming
  <2>. QED
    BY <2>1, <2>2 DEF Halves
<1>2. CASE KeyboardIrq
  <2>1. UNCHANGED <<batch, loop, last>>
    BY <1>2 DEF KeyboardIrq, mainloop
  <2>2. CASE queue' = queue
    <3>1. Coming' = Coming
      BY <2>1, <2>2 DEF Coming
    <3>. HIDE DEF Coming
    <3>. QED
      BY <2>1, <3>1 DEF Halves
  <2>3. ASSUME NEW k \in Keys, MakeCode(k)
        PROVE  Halves'
    <3>1. Push(Pressed(k)) /\ Pressed(k) \in Seq(EventType) /\ Paired(Pressed(k))
      BY <2>3, EventFacts, PressedPaired DEF MakeCode
    <3>. QED
      BY <2>1, <3>1, PushKeepsHalves
  <2>. QED
    BY <1>2, <2>2, <2>3, IrqCases DEF BreakCode, SilentCode
<1>3. CASE TimerIrq
  <2>1. UNCHANGED <<batch, loop, last>>
    BY <1>3 DEF TimerIrq, mainloop
  <2>2. CASE queue' = queue
    <3>1. Coming' = Coming
      BY <2>1, <2>2 DEF Coming
    <3>. HIDE DEF Coming
    <3>. QED
      BY <2>1, <3>1 DEF Halves
  <2>3. CASE Push(<<Tick>>)
    <3>1. <<Tick>> \in Seq(EventType)
      BY EventFacts
    <3>. QED
      BY <2>1, <2>3, <3>1, PressedPaired, PushKeepsHalves
  <2>. QED
    BY <1>3, <2>2, <2>3 DEF TimerIrq, FrameTick
<1>4. CASE MainLoop
  BY <1>4, MainLoopKeepsHalves
<1>. QED
  BY <1>1, <1>2, <1>3, <1>4 DEF Next

-----------------------------------------------------------------------------
LEMMA InitInv == Init => Inv /\ FlagsComeRight
<1>. SUFFICES ASSUME Init PROVE Inv /\ FlagsComeRight
  OBVIOUS
<1>. USE DEF Init
<1>1. TypeOK
  <2>1. MaxLag \in (- DELAY - 1) .. MaxLag /\ 0 <= EVQ_SIZE /\ 0 <= BATCH
    BY DelayAssumption, QueueAssumption, BoundAssumption
  <2>2. NoHeld \in [id : Key \cup {NoKey}, kind : KindType, code : {"none", "a", "LEFT"}]
    BY DEF NoHeld, KindType
  <2>. QED
    BY <2>1, <2>2, EventFacts, EmptySeq DEF TypeOK, KindType
<1>2. Decoding
  <2>1. DOMAIN wire = {} /\ held.id = NoKey
    BY DEF NoHeld
  <2>. QED
    BY <2>1 DEF Decoding, WireIsWhole, WireIsRight, HeldIsDown
<1>3. Call
  BY DEF Call, RepeatsTheHeldKey
<1>4. Halves
  <2>1. Coming = << >>
    BY DEF Coming
  <2>2. DOMAIN Coming = {}
    BY <2>1
  <2>3. last # First
    BY DEF NoEvent, First, Event
  <2>. QED
    BY <2>2, <2>3 DEF Halves, Paired
<1>5. FlagsComeRight
  BY FlagIsOne DEF FlagsComeRight
<1>. QED
  BY <1>1, <1>2, <1>3, <1>4, <1>5 DEF Inv

LEMMA StepKeepsInv == Inv /\ [Next]_vars => Inv'
<1>. SUFFICES ASSUME Inv, [Next]_vars PROVE Inv'
  OBVIOUS
<1>1. TypeOK /\ WireIsWhole /\ Decoding /\ Call /\ Halves
  BY DEF Inv, Decoding
<1>2. TypeOK'
  BY <1>1, TypesKept
<1>. QED
  BY <1>1, <1>2, DecodingKept, CallKept, HalvesKept DEF Inv

(* The decoder, the queue and the main loop only ever hold what they may.  *)
THEOREM TypesHold == Spec => []TypeOK
BY InitInv, StepKeepsInv, PTL DEF Spec, Inv

(* No key types for ever, however presses, releases, interrupts and the    *)
(* reads of the main loop follow each other, whatever the keyboard.        *)
THEOREM NoKeyTypesForEver == Spec => []HeldIsDown
<1>1. Inv => HeldIsDown
  BY DEF Inv, Decoding
<1>. QED
  BY <1>1, InitInv, StepKeepsInv, PTL DEF Spec

(* What keyboard_repeat_event hands out is the event of the held key,      *)
(* unless a byte came in during the call.                                  *)
THEOREM RepeatIsOfHeldKey == Spec => []RepeatsTheHeldKey
<1>1. Inv => RepeatsTheHeldKey
  BY DEF Inv, Call
<1>. QED
  BY <1>1, InitInv, StepKeepsInv, PTL DEF Spec

(* Left and right Ctrl and Shift are told apart and follow their keys, on  *)
(* every keyboard that has no Shift with a prefix.                         *)
THEOREM ModifiersFollow ==
    ASSUME FakeShift \notin Keys
    PROVE  Spec => []ModifiersFollowTheKeys
<1>1. Inv /\ FlagsComeRight /\ [Next]_vars => FlagsComeRight'
  BY FlagsKept DEF Inv
<1>2. Inv /\ FlagsComeRight => ModifiersFollowTheKeys
  BY FlagsAreRight DEF Inv
<1>. QED
  BY <1>1, <1>2, InitInv, StepKeepsInv, PTL DEF Spec

-----------------------------------------------------------------------------
LEMMA StepKeepsPair == Inv /\ [Next]_vars => [HalvesTogether(FALSE)]_vars
<1>. SUFFICES ASSUME Inv, [Next]_vars, HandlesKey, last = First
              PROVE  last' = Second
  BY DEF HalvesTogether, First, Second
<1>1. loop \in {"fetch", "handle"} /\ Coming[1] = Second
  BY DEF Inv, Halves
<1>2. loop = "handle" /\ Head(batch) # Tick /\ batch' # batch
  BY <1>1 DEF HandlesKey
<1>3. Handle
  BY <1>2 DEF Next, User, GoesDown, GoesUp, StaysDown, Sends, KeyboardIrq, TimerIrq, MainLoop,
              Fetch, Dispatch, CallBegins, ReadTime, ReadKind, ReadCode, Advance,
              HandleRepeat, vars, mainloop
<1>4. Head(batch) = Second
  <2>1. batch # << >>
    BY <1>2 DEF Inv, Halves
  <2>. QED
    BY <1>1, <2>1, ComingFacts DEF Inv
<1>5. Second.half = "whole"
  BY DEF Second, Event
<1>. QED
  BY <1>2, <1>3, <1>4, <1>5 DEF Handle, HalfOf

(* The LEFT and DELETE of a pressed backspace are handled with nothing in  *)
(* between, neither a repeat nor an event of another batch.                *)
THEOREM PairStaysWhole == Spec => PressedPairIsWhole
BY InitInv, StepKeepsInv, StepKeepsPair, PTL DEF Spec, PressedPairIsWhole

-----------------------------------------------------------------------------
(* The mouse, the other device of the PS/2 controller.                     *)

MouseTypes ==
    /\ mouseWire \in Seq(MouseByte) /\ pkt \in Seq(MouseByte)
    /\ calm \in BOOLEAN
    /\ aim \in [x : Int, y : Int, btn : SUBSET Buttons, known : BOOLEAN, stale : BOOLEAN]

(* What is on the way of the last whole packet cannot begin a packet, and  *)
(* ends the one that pkt holds.                                            *)
Calming ==
    calm => /\ \A i \in {Len(mouseWire) - 1, Len(mouseWire)} :
                  i > 0 => ~Synced(mouseWire[i])
            /\ Len(mouseWire) = 1 => Len(pkt) # 1
            /\ Len(mouseWire) = 0 => pkt = <<>>

(* The bytes the driver has or will have, as long as none is lost.         *)
OnTheWay    == Len(pkt) + Len(mouseWire)
Ahead(i) == IF i <= Len(pkt) THEN pkt[i] ELSE mouseWire[i - Len(pkt)]

(* What a packet of these bytes does to a pointer at v, w.                 *)
Leads(h, a, b, v, w, v2, w2) ==
    /\ Synced(h)
    /\ v2 = IF Overflow(h) THEN v ELSE MovedX(v, Signed(a))
    /\ w2 = IF Overflow(h) THEN w ELSE MovedY(w, Signed(b))

(* The packets on the way lead the pointer to where it belongs, and the    *)
(* last of them has the buttons.                                           *)
Trail(k, X, Y) ==
    /\ OnTheWay = 3 * k
    /\ X \in [0 .. k -> Int] /\ X[0] = mx /\ X[k] = aim.x
    /\ Y \in [0 .. k -> Int] /\ Y[0] = my /\ Y[k] = aim.y
    /\ \A i \in 1 .. k :
          Leads(Ahead(3 * i - 2), Ahead(3 * i - 1), Ahead(3 * i), X[i - 1], Y[i - 1], X[i], Y[i])
    /\ \/ aim.stale
       \/ k = 0 /\ buttons = aim.btn
       \/ /\ k # 0 /\ ~Overflow(Ahead(3 * k - 2))
          /\ ButtonsIn(Ahead(3 * k - 2)) = aim.btn

Following == aim.known => \E k \in Nat : \E X, Y : Trail(k, X, Y)

MouseInv == MouseTypes /\ MouseTypeOK /\ Calming /\ Following

(* Every byte of a packet says what the mouse meant.                       *)
LEMMA HeaderSays ==
    ASSUME NEW bs \in SUBSET Buttons, NEW dx \in Int, NEW dy \in Int,
           NEW over \in BOOLEAN
    PROVE  /\ Header(bs, dx, dy, over) \in MouseByte
           /\ Synced(Header(bs, dx, dy, over))
           /\ Overflow(Header(bs, dx, dy, over)) <=> over
           /\ ButtonsIn(Header(bs, dx, dy, over)) = bs
<1>. DEFINE h == Header(bs, dx, dy, over)
<1>1. PICK a \in {0, 1}, b \in {0, 1}, c \in {0, 1}, d \in {0, 1}, e \in {0, 1}, f \in {0, 1} :
         /\ a = 1 <=> 1 \in bs
         /\ b = 1 <=> 2 \in bs
         /\ c = 1 <=> 4 \in bs
         /\ f = 1 <=> over
         /\ h = 8 + a + 2 * b + 4 * c + 16 * d + 32 * e + 64 * f
  <2>1. /\ When(1 \in bs, 1) = IF 1 \in bs THEN 1 ELSE 0
        /\ When(2 \in bs, 2) = IF 2 \in bs THEN 2 ELSE 0
        /\ When(4 \in bs, 4) = IF 4 \in bs THEN 4 ELSE 0
        /\ When(dx < 0, 16) = IF dx < 0 THEN 16 ELSE 0
        /\ When(dy < 0, 32) = IF dy < 0 THEN 32 ELSE 0
        /\ When(over, 64) = IF over THEN 64 ELSE 0
    BY DEF When
  <2>2. h = 8 + (IF 1 \in bs THEN 1 ELSE 0) + (IF 2 \in bs THEN 2 ELSE 0)
              + (IF 4 \in bs THEN 4 ELSE 0) + (IF dx < 0 THEN 16 ELSE 0)
              + (IF dy < 0 THEN 32 ELSE 0) + (IF over THEN 64 ELSE 0)
    BY <2>1 DEF Header
  <2>. DEFINE a == IF 1 \in bs THEN 1 ELSE 0
              b == IF 2 \in bs THEN 1 ELSE 0
              c == IF 4 \in bs THEN 1 ELSE 0
              d == IF dx < 0 THEN 1 ELSE 0
              e == IF dy < 0 THEN 1 ELSE 0
              f == IF over THEN 1 ELSE 0
  <2>3. h = 8 + a + 2 * b + 4 * c + 16 * d + 32 * e + 64 * f
    BY <2>2
  <2>. QED
    BY <2>3
<1>. HIDE DEF h
<1>2. h \in 8 .. 127
  BY <1>1
<1>3. Bit(h, 8) /\ ~Bit(h, 128)
  BY <1>1 DEF Bit
<1>4. Bit(h, 64) <=> over
  BY <1>1 DEF Bit
<1>5. ASSUME NEW i \in Buttons
      PROVE  Bit(h, i) <=> i \in bs
  <2>1. (Bit(h, 1) <=> 1 \in bs) /\ (Bit(h, 2) <=> 2 \in bs) /\ (Bit(h, 4) <=> 4 \in bs)
    BY <1>1 DEF Bit
  <2>. QED
    BY <1>5, <2>1, ButtonsAssumption
<1>6. ButtonsIn(h) = bs
  BY <1>5 DEF ButtonsIn
<1>. QED
  BY <1>2, <1>3, <1>4, <1>6 DEF h, MouseByte, Synced, Overflow

LEMMA MovementSays ==
    ASSUME NEW d \in Int
    PROVE  /\ Movement(d) \in MouseByte
           /\ d \in -128 .. 127 => Signed(Movement(d)) = d
BY DEF Movement, MouseByte, Signed

LEMMA PointerStays ==
    ASSUME NEW v \in Int, NEW b \in MouseByte
    PROVE  /\ MovedX(v, Signed(b)) \in 0 .. Width - 1
           /\ MovedY(v, Signed(b)) \in 0 .. Height - 1
<1>1. Scaled(Signed(b)) \in Int
  BY DEF MouseByte, Signed, Scaled
<1>. QED
  BY <1>1, ScreenAssumption DEF MovedX, MovedY, Clamp

LEMMA ByteOfReport ==
    ASSUME NEW m \in Moves
    PROVE  m[1] \in Int /\ m[2] \in Int
<1>1. m \in (-255 .. 255) \X (-255 .. 255)
  BY MovesAssumption
<1>. QED
  BY <1>1

-----------------------------------------------------------------------------
(* Steps of the mouse and of the driver.                                   *)

LEMMA MouseStarts ==
    ASSUME MouseInit
    PROVE  MouseInv
<1>1. Width \div 2 \in 0 .. Width - 1 /\ Height \div 2 \in 0 .. Height - 1
  BY ScreenAssumption
<1>2. /\ mouseWire = <<>> /\ pkt = <<>> /\ buttons = {} /\ calm = TRUE
      /\ mx = Width \div 2 /\ my = Height \div 2
      /\ aim = [x |-> mx, y |-> my, btn |-> {}, known |-> TRUE, stale |-> FALSE]
  BY DEF MouseInit
<1>3. MouseTypes /\ MouseTypeOK /\ Calming
  BY <1>1, <1>2 DEF MouseTypes, MouseTypeOK, Calming
<1>4. Trail(0, [i \in 0 .. 0 |-> mx], [i \in 0 .. 0 |-> my])
  BY <1>1, <1>2 DEF Trail, OnTheWay
<1>5. Following
  BY <1>4 DEF Following
<1>. QED
  BY <1>3, <1>5 DEF MouseInv

LEMMA ThreeMore ==
    ASSUME NEW S, NEW w \in Seq(S), NEW a \in S, NEW b \in S, NEW c \in S
    PROVE  /\ w \o <<a, b, c>> \in Seq(S) /\ Len(w \o <<a, b, c>>) = Len(w) + 3
           /\ \A i \in 1 .. Len(w) : (w \o <<a, b, c>>)[i] = w[i]
           /\ (w \o <<a, b, c>>)[Len(w) + 1] = a
           /\ (w \o <<a, b, c>>)[Len(w) + 2] = b
           /\ (w \o <<a, b, c>>)[Len(w) + 3] = c
<1>. DEFINE e == <<a, b, c>>
<1>1. e \in Seq(S) /\ Len(e) = 3 /\ e[1] = a /\ e[2] = b /\ e[3] = c
  OBVIOUS
<1>. HIDE DEF e
<1>2. /\ w \o e \in Seq(S) /\ Len(w \o e) = Len(w) + Len(e)
      /\ \A i \in 1 .. Len(w) + Len(e) : (w \o e)[i] = IF i <= Len(w) THEN w[i] ELSE e[i - Len(w)]
  BY <1>1, ConcatProperties
<1>3. Len(w) \in Nat
  OBVIOUS
<1>4. /\ \A i \in 1 .. Len(w) : (w \o e)[i] = w[i]
      /\ (w \o e)[Len(w) + 1] = e[1] /\ (w \o e)[Len(w) + 2] = e[2] /\ (w \o e)[Len(w) + 3] = e[3]
  BY <1>1, <1>2, <1>3
<1>. QED
  BY <1>1, <1>2, <1>4 DEF e

LEMMA ReportKeeps ==
    ASSUME MouseInv, NEW bs \in SUBSET Buttons, NEW m \in Moves,
           NEW over \in BOOLEAN, Report(bs, m[1], m[2], over)
    PROVE  MouseInv'
<1>. DEFINE n == Len(mouseWire)
            dx == m[1]
            dy == m[2]
            h == Header(bs, dx, dy, over)
            a == Movement(dx)
            b == Movement(dy)
<1>1. dx \in Int /\ dy \in Int
  BY ByteOfReport
<1>2. /\ h \in MouseByte /\ Synced(h) /\ (Overflow(h) <=> over) /\ ButtonsIn(h) = bs
  BY <1>1, HeaderSays
<1>3. /\ a \in MouseByte /\ (dx \in -128 .. 127 => Signed(a) = dx)
      /\ b \in MouseByte /\ (dy \in -128 .. 127 => Signed(b) = dy)
  BY <1>1, MovementSays
<1>4. /\ mouseWire' = mouseWire \o <<h, a, b>>
      /\ pkt' = pkt /\ buttons' = buttons /\ mx' = mx /\ my' = my
      /\ calm' = (~Synced(a) /\ ~Synced(b))
      /\ aim' = IF ~aim.known \/ (~over /\ ~({dx, dy} \subseteq -128 .. 127)) THEN Unknown
                ELSE [aim EXCEPT !.btn = bs, !.stale = over,
                                 !.x = IF over THEN @ ELSE MovedX(@, dx),
                                 !.y = IF over THEN @ ELSE MovedY(@, dy)]
  BY DEF Report, driver
<1>. HIDE DEF h, a, b
<1>5. /\ mouseWire \in Seq(MouseByte) /\ pkt \in Seq(MouseByte) /\ n \in Nat
      /\ Len(pkt) \in Nat /\ Len(pkt) < 3
  BY DEF MouseInv, MouseTypes, MouseTypeOK
<1>6. /\ mouseWire' \in Seq(MouseByte) /\ Len(mouseWire') = n + 3
      /\ \A i \in 1 .. n : mouseWire'[i] = mouseWire[i]
      /\ mouseWire'[n + 1] = h /\ mouseWire'[n + 2] = a /\ mouseWire'[n + 3] = b
  <2>. DEFINE t == mouseWire \o <<h, a, b>>
  <2>1. /\ t \in Seq(MouseByte) /\ Len(t) = n + 3
        /\ \A i \in 1 .. n : t[i] = mouseWire[i]
        /\ t[n + 1] = h /\ t[n + 2] = a /\ t[n + 3] = b
    <3>1. mouseWire \in Seq(MouseByte) /\ h \in MouseByte /\ a \in MouseByte /\ b \in MouseByte
      BY <1>2, <1>3, <1>5
    <3>. QED
      BY <3>1, ThreeMore
  <2>2. mouseWire' = t
    BY <1>4
  <2>. HIDE DEF t
  <2>. QED
    BY <2>1, <2>2
<1>7. MouseTypeOK'
  BY <1>4 DEF MouseInv, MouseTypeOK
<1>8. Calming'
  <2>1. n + 3 - 1 = n + 2 /\ n + 3 # 1 /\ n + 3 # 0
    BY <1>5
  <2>2. \A i \in {n + 2, n + 3} : calm' => ~Synced(mouseWire'[i])
    BY <1>4, <1>6
  <2>. QED
    BY <1>6, <2>1, <2>2 DEF Calming
<1>9. ASSUME aim'.known
      PROVE  /\ aim.known /\ (over \/ (dx \in -128 .. 127 /\ dy \in -128 .. 127))
             /\ aim' = [aim EXCEPT !.btn = bs, !.stale = over,
                                   !.x = IF over THEN @ ELSE MovedX(@, dx),
                                   !.y = IF over THEN @ ELSE MovedY(@, dy)]
  BY <1>1, <1>4, <1>9 DEF Unknown
<1>10. aim' \in [x : Int, y : Int, btn : SUBSET Buttons, known : BOOLEAN, stale : BOOLEAN]
  <2>1. ASSUME NEW d \in Int
        PROVE  Scaled(d) \in Int
    BY DEF Scaled
  <2>2. ASSUME NEW v \in Int, NEW d \in Int
        PROVE  MovedX(v, d) \in Int /\ MovedY(v, d) \in Int
    BY <2>1, ScreenAssumption DEF MovedX, MovedY, Clamp
  <2>3. aim \in [x : Int, y : Int, btn : SUBSET Buttons, known : BOOLEAN, stale : BOOLEAN]
    BY DEF MouseInv, MouseTypes
  <2>4. MovedX(aim.x, dx) \in Int /\ MovedY(aim.y, dy) \in Int
    BY <1>1, <2>2, <2>3
  <2>5. Unknown \in [x : Int, y : Int, btn : SUBSET Buttons, known : BOOLEAN, stale : BOOLEAN]
    BY DEF Unknown
  <2>. QED
    BY <1>4, <2>3, <2>4, <2>5
<1>11. SUFFICES ASSUME aim'.known
                PROVE  \E k \in Nat : \E X, Y : Trail(k, X, Y)'
  <2>1. MouseTypes'
    BY <1>4, <1>5, <1>6, <1>10 DEF MouseTypes
  <2>2. Following'
    BY <1>11 DEF Following
  <2>. QED
    BY <1>7, <1>8, <2>1, <2>2 DEF MouseInv
<1>12a. PICK k \in Nat : \E X, Y : Trail(k, X, Y)
  BY <1>9, <1>11 DEF MouseInv, Following
<1>12. PICK X, Y : Trail(k, X, Y)
  BY <1>12a
<1>13. /\ aim \in [x : Int, y : Int, btn : SUBSET Buttons, known : BOOLEAN, stale : BOOLEAN]
       /\ aim.x \in Int /\ aim.y \in Int
  BY DEF MouseInv, MouseTypes
<1>14. PICK nx \in Int, ny \in Int :
          /\ nx = IF over THEN aim.x ELSE MovedX(aim.x, Signed(a))
          /\ ny = IF over THEN aim.y ELSE MovedY(aim.y, Signed(b))
  <2>1. /\ MovedX(aim.x, Signed(a)) \in 0 .. Width - 1
        /\ MovedY(aim.y, Signed(b)) \in 0 .. Height - 1
    BY <1>3, <1>13, PointerStays
  <2>. QED
    BY <1>13, <2>1
<1>15. aim'.x = nx /\ aim'.y = ny /\ aim'.btn = bs /\ aim'.stale = over
  <2>1. /\ aim'.x = IF over THEN aim.x ELSE MovedX(aim.x, dx)
        /\ aim'.y = IF over THEN aim.y ELSE MovedY(aim.y, dy)
        /\ aim'.btn = bs /\ aim'.stale = over
    BY <1>9, <1>11, <1>13
  <2>. QED
    BY <1>3, <1>9, <1>11, <1>14, <2>1
<1>16. OnTheWay = 3 * k /\ OnTheWay = Len(pkt) + n /\ k \in Nat
  BY <1>12 DEF Trail, OnTheWay
<1>17. OnTheWay' = 3 * (k + 1)
  <2>1. OnTheWay' = Len(pkt) + (n + 3)
    BY <1>4, <1>6 DEF OnTheWay
  <2>. QED
    BY <1>5, <1>16, <2>1
<1>18. /\ \A i \in 1 .. 3 * k : Ahead(i)' = Ahead(i)
       /\ Ahead(3 * k + 1)' = h /\ Ahead(3 * k + 2)' = a /\ Ahead(3 * k + 3)' = b
  <2>1. ASSUME NEW i \in 1 .. 3 * k
        PROVE  Ahead(i)' = Ahead(i)
    BY <1>4, <1>5, <1>6, <1>16 DEF Ahead
  <2>2. ASSUME NEW j \in 1 .. 3
        PROVE  Ahead(3 * k + j)' = mouseWire'[n + j]
    <3>1. ~(3 * k + j <= Len(pkt)) /\ 3 * k + j - Len(pkt) = n + j
      BY <1>5, <1>16
    <3>2. Ahead(3 * k + j)' = IF 3 * k + j <= Len(pkt') THEN pkt'[3 * k + j]
                              ELSE mouseWire'[3 * k + j - Len(pkt')]
      BY DEF Ahead
    <3>. QED
      BY <1>4, <3>1, <3>2
  <2>. QED
    BY <1>6, <2>1, <2>2
<1>19. PICK X2, Y2 :
          /\ X2 \in [0 .. k + 1 -> Int] /\ X2[0] = mx /\ X2[k + 1] = nx
          /\ Y2 \in [0 .. k + 1 -> Int] /\ Y2[0] = my /\ Y2[k + 1] = ny
          /\ \A i \in 0 .. k : X2[i] = X[i] /\ Y2[i] = Y[i]
  <2>. DEFINE X2 == [i \in 0 .. k + 1 |-> IF i = k + 1 THEN nx ELSE X[i]]
              Y2 == [i \in 0 .. k + 1 |-> IF i = k + 1 THEN ny ELSE Y[i]]
  <2>1. /\ X2 \in [0 .. k + 1 -> Int] /\ X2[0] = mx /\ X2[k + 1] = nx
        /\ Y2 \in [0 .. k + 1 -> Int] /\ Y2[0] = my /\ Y2[k + 1] = ny
        /\ \A i \in 0 .. k : X2[i] = X[i] /\ Y2[i] = Y[i]
    BY <1>12 DEF Trail
  <2>. HIDE DEF X2, Y2
  <2>. QED
    BY <2>1
<1>20. ASSUME NEW i \in 1 .. k + 1
       PROVE  Leads(Ahead(3 * i - 2)', Ahead(3 * i - 1)', Ahead(3 * i)', X2[i - 1], Y2[i - 1], X2[i], Y2[i])
  <2>1. CASE i = k + 1
    <3>1. 3 * i - 2 = 3 * k + 1 /\ 3 * i - 1 = 3 * k + 2 /\ 3 * i = 3 * k + 3
      BY <2>1
    <3>2. Ahead(3 * i - 2)' = h /\ Ahead(3 * i - 1)' = a /\ Ahead(3 * i)' = b
      BY <1>18, <3>1
    <3>3. X2[i - 1] = aim.x /\ Y2[i - 1] = aim.y /\ X2[i] = nx /\ Y2[i] = ny
      BY <1>12, <1>19, <2>1 DEF Trail
    <3>4. Leads(h, a, b, aim.x, aim.y, nx, ny)
      BY <1>2, <1>14 DEF Leads
    <3>. QED
      BY <3>2, <3>3, <3>4
  <2>2. CASE i # k + 1
    <3>1. i \in 1 .. k /\ i - 1 \in 0 .. k /\ i \in 0 .. k
      BY <2>2
    <3>2. Leads(Ahead(3 * i - 2), Ahead(3 * i - 1), Ahead(3 * i), X[i - 1], Y[i - 1], X[i], Y[i])
      BY <1>12, <3>1 DEF Trail
    <3>3. 3 * i - 2 \in 1 .. 3 * k /\ 3 * i - 1 \in 1 .. 3 * k /\ 3 * i \in 1 .. 3 * k
      BY <3>1
    <3>4. /\ Ahead(3 * i - 2)' = Ahead(3 * i - 2) /\ Ahead(3 * i - 1)' = Ahead(3 * i - 1)
          /\ Ahead(3 * i)' = Ahead(3 * i)
      BY <1>18, <3>3
    <3>5. X2[i - 1] = X[i - 1] /\ Y2[i - 1] = Y[i - 1] /\ X2[i] = X[i] /\ Y2[i] = Y[i]
      BY <1>19, <3>1
    <3>. QED
      BY <3>2, <3>4, <3>5
  <2>. QED
    BY <2>1, <2>2
<1>21. over \/ (k + 1 # 0 /\ ~Overflow(Ahead(3 * (k + 1) - 2)') /\ ButtonsIn(Ahead(3 * (k + 1) - 2)') = bs)
  <2>1. 3 * (k + 1) - 2 = 3 * k + 1
    OBVIOUS
  <2>2. Ahead(3 * (k + 1) - 2)' = h
    BY <1>18, <2>1
  <2>. QED
    BY <1>2, <2>2
<1>22. Trail(k + 1, X2, Y2)'
  BY <1>4, <1>15, <1>17, <1>19, <1>20, <1>21 DEF Trail
<1>. QED
  BY <1>22

LEMMA LoseKeeps ==
    ASSUME MouseInv, NEW i \in DOMAIN mouseWire, Lose(i)
    PROVE  MouseInv'
<1>. DEFINE n == Len(mouseWire)
            s == SubSeq(mouseWire, 1, i - 1)
            t == SubSeq(mouseWire, i + 1, n)
<1>1. /\ mouseWire \in Seq(MouseByte) /\ n \in Nat /\ i \in 1 .. n
      /\ pkt' = pkt /\ mx' = mx /\ my' = my
      /\ calm' \in BOOLEAN /\ (calm' <=> (calm /\ i <= n - 3))
      /\ mouseWire' = s \o t /\ aim' = Unknown
  <2>1. calm' = (calm /\ i <= n - 3)
    BY DEF Lose
  <2>2. calm' \in BOOLEAN /\ (calm' <=> (calm /\ i <= n - 3))
    BY <2>1
  <2>. QED
    BY <2>2 DEF MouseInv, MouseTypes, Lose, driver, RemoveAt
<1>2. /\ s \in Seq(MouseByte) /\ Len(s) = i - 1
      /\ t \in Seq(MouseByte) /\ Len(t) = n - i /\ \A j \in 1 .. n - i : t[j] = mouseWire[i + j]
  <2>1. \A j \in 1 .. n : mouseWire[j] \in MouseByte
    BY <1>1
  <2>2. /\ i - 1 \in Int /\ i + 1 \in Int /\ 1 \in Int
        /\ \A j \in 1 .. i - 1 : mouseWire[j] \in MouseByte
        /\ \A j \in i + 1 .. n : mouseWire[j] \in MouseByte
    BY <1>1, <2>1
  <2>3. s \in Seq(MouseByte) /\ Len(s) = IF 1 <= i - 1 THEN i - 1 - 1 + 1 ELSE 0
    BY <2>2, SubSeqProperties
  <2>4. /\ t \in Seq(MouseByte) /\ Len(t) = IF i + 1 <= n THEN n - (i + 1) + 1 ELSE 0
        /\ \A j \in 1 .. n - (i + 1) + 1 : t[j] = mouseWire[i + 1 + j - 1]
    BY <1>1, <2>2, SubSeqProperties
  <2>. HIDE DEF s, t
  <2>5. Len(s) = i - 1 /\ Len(t) = n - i
    BY <1>1, <2>3, <2>4
  <2>6. ASSUME NEW j \in 1 .. n - i
        PROVE  t[j] = mouseWire[i + j]
    <3>1. j \in 1 .. n - (i + 1) + 1 /\ i + 1 + j - 1 = i + j
      BY <1>1
    <3>. QED
      BY <2>4, <3>1
  <2>. QED
    BY <2>3, <2>4, <2>5, <2>6
<1>. HIDE DEF s, t
<1>3. /\ s \o t \in Seq(MouseByte) /\ Len(s \o t) = Len(s) + Len(t)
      /\ \A j \in 1 .. Len(s) + Len(t) : (s \o t)[j] = IF j <= Len(s) THEN s[j] ELSE t[j - Len(s)]
  BY <1>2, ConcatProperties
<1>4. mouseWire' \in Seq(MouseByte) /\ Len(mouseWire') = n - 1
  BY <1>1, <1>2, <1>3
<1>5. ASSUME calm', NEW j \in {n - 2, n - 1}
      PROVE  ~Synced(mouseWire'[j])
  <2>1. calm /\ i <= n - 3
    BY <1>1, <1>5
  <2>2. j \in 1 .. Len(s) + Len(t) /\ ~(j <= Len(s)) /\ j - Len(s) \in 1 .. n - i
        /\ i + (j - Len(s)) = j + 1
    <3>1. n \in Nat /\ i \in 1 .. n /\ i <= n - 3 /\ Len(s) = i - 1 /\ Len(t) = n - i
      BY <1>1, <1>2, <2>1
    <3>2. j = n - 2 \/ j = n - 1
      BY <1>5
    <3>. HIDE DEF n
    <3>. QED
      BY <3>1, <3>2
  <2>3. mouseWire'[j] = mouseWire[j + 1]
    BY <1>1, <1>2, <1>3, <2>2
  <2>4. j + 1 \in {n - 1, n} /\ j + 1 > 0
    BY <1>1, <2>1
  <2>. QED
    BY <2>1, <2>3, <2>4 DEF MouseInv, Calming
<1>6. Calming'
  <2>1. ASSUME calm'
        PROVE  n - 1 # 1 /\ n - 1 # 0
    <3>1. i <= n - 3 /\ n \in Nat /\ i \in 1 .. n
      BY <1>1, <2>1
    <3>. HIDE DEF n
    <3>. QED
      BY <3>1
  <2>2. Len(mouseWire') - 1 = n - 2
    BY <1>1, <1>4
  <2>3. calm' => \A j \in {Len(mouseWire') - 1, Len(mouseWire')} : ~Synced(mouseWire'[j])
    BY <1>4, <1>5, <2>2
  <2>4. calm' => Len(mouseWire') # 1 /\ Len(mouseWire') # 0
    BY <1>4, <2>1
  <2>. QED
    BY <2>3, <2>4 DEF Calming
<1>7. aim' \in [x : Int, y : Int, btn : SUBSET Buttons, known : BOOLEAN, stale : BOOLEAN] /\ ~aim'.known
  BY <1>1 DEF Unknown
<1>8. MouseTypes' /\ MouseTypeOK' /\ Following'
  BY <1>1, <1>4, <1>7 DEF MouseInv, MouseTypes, MouseTypeOK, Following
<1>. QED
  BY <1>6, <1>8 DEF MouseInv

LEMMA IrqKeeps ==
    ASSUME MouseInv, MouseIrq
    PROVE  MouseInv'
<1>. DEFINE n == Len(mouseWire)
            b == mouseWire[1]
            p == Append(pkt, b)
<1>1. /\ mouseWire \in Seq(MouseByte) /\ pkt \in Seq(MouseByte) /\ Len(pkt) < 3
      /\ mx \in Int /\ my \in Int
      /\ aim \in [x : Int, y : Int, btn : SUBSET Buttons, known : BOOLEAN, stale : BOOLEAN]
      /\ pkt = <<>> \/ Synced(pkt[1])
  BY ScreenAssumption DEF MouseInv, MouseTypes, MouseTypeOK
<1>2. mouseWire # <<>> /\ n \in Nat /\ n # 0 /\ Len(pkt) \in 0 .. 2 /\ b \in MouseByte
  <2>1. mouseWire # <<>>
    BY DEF MouseIrq
  <2>2. n \in Nat /\ Len(pkt) \in Nat
    BY <1>1
  <2>3. n # 0 /\ mouseWire[1] \in MouseByte
    <3>1. mouseWire \in Seq(MouseByte)
      BY <1>1
    <3>. HIDE DEF n
    <3>2. n # 0
      BY <2>1, <3>1, EmptySeq DEF n
    <3>. QED
      BY <2>2, <3>1, <3>2, ElementOfSeq DEF n
  <2>4. Len(pkt) \in 0 .. 2
    <3>1. PICK l \in Nat : l = Len(pkt)
      BY <2>2
    <3>2. l < 3
      BY <1>1, <3>1
    <3>3. l \in 0 .. 2
      BY <3>2
    <3>. QED
      BY <3>1, <3>3
  <2>. QED
    BY <2>1, <2>2, <2>3, <2>4
<1>3. Head(mouseWire) = b
  BY <1>1, <1>2
<1>4. /\ mouseWire' = Tail(mouseWire) /\ aim' = aim /\ calm' = calm
      /\ \/ ~Takes(b) /\ pkt' = pkt /\ Kept
         \/ Takes(b) /\ Len(p) < 3 /\ pkt' = p /\ Kept
         \/ /\ Takes(b) /\ Len(p) = 3 /\ pkt' = <<>>
            /\ IF Overflow(p[1]) THEN Kept ELSE Applied(p)
  BY <1>3 DEF MouseIrq
<1>5. /\ mouseWire' \in Seq(MouseByte) /\ Len(mouseWire') = n - 1
      /\ \A i \in 1 .. n - 1 : mouseWire'[i] = mouseWire[i + 1]
  BY <1>1, <1>2, <1>4, HeadTailProperties
<1>6. /\ p \in Seq(MouseByte) /\ Len(p) = Len(pkt) + 1
      /\ \A i \in 1 .. Len(pkt) : p[i] = pkt[i]
      /\ p[Len(pkt) + 1] = b
  BY <1>1, <1>2, AppendProperties
<1>7. Takes(b) <=> pkt # <<>> \/ Synced(b)
  BY DEF Takes
<1>. HIDE DEF b, p
<1>8. SUFFICES /\ pkt' \in Seq(MouseByte)
               /\ MouseTypeOK'
               /\ calm => /\ n = 2 => Len(pkt') # 1
                          /\ n = 1 => pkt' = <<>>
               /\ Following'
  <2>1. MouseTypes'
    <3>1. calm' \in BOOLEAN
      BY <1>4 DEF MouseInv, MouseTypes
    <3>. QED
      BY <1>1, <1>4, <1>5, <1>8, <3>1 DEF MouseTypes
  <2>2. ASSUME calm, NEW i \in {n - 2, n - 1}, i > 0
        PROVE  ~Synced(mouseWire'[i])
    <3>1. mouseWire'[i] = mouseWire[i + 1] /\ i + 1 \in {n - 1, n} /\ i + 1 > 0
      BY <1>2, <1>5, <2>2
    <3>. QED
      BY <2>2, <3>1 DEF MouseInv, Calming
  <2>3. Calming'
    <3>1. Len(mouseWire') - 1 = n - 2
      BY <1>2, <1>5
    <3>2. calm => \A i \in {Len(mouseWire') - 1, Len(mouseWire')} : i > 0 => ~Synced(mouseWire'[i])
      BY <1>5, <2>2, <3>1
    <3>3. calm => /\ Len(mouseWire') = 1 => Len(pkt') # 1
                  /\ Len(mouseWire') = 0 => pkt' = <<>>
      BY <1>2, <1>5, <1>8
    <3>. QED
      BY <1>4, <3>2, <3>3 DEF Calming
  <2>. QED
    BY <1>8, <2>1, <2>3 DEF MouseInv
<1>9. calm => /\ n = 2 => ~Synced(b)
              /\ n = 1 => ~Synced(b) /\ Len(pkt) # 1
  BY DEF MouseInv, Calming, b
(* The first of the bytes begins a packet that is on the way.              *)
<1>10. CASE ~Takes(b)
  <2>1. pkt = <<>> /\ ~Synced(b) /\ pkt' = pkt /\ Kept
    BY <1>4, <1>7, <1>10
  <2>2. ~aim.known
    <3>. SUFFICES ASSUME aim.known PROVE FALSE
      OBVIOUS
    <3>1a. PICK k \in Nat : \E X, Y : Trail(k, X, Y)
      BY DEF MouseInv, Following
    <3>1. PICK X, Y : Trail(k, X, Y)
      BY <3>1a
    <3>2. k # 0
      BY <1>1, <1>2, <3>1 DEF Trail, OnTheWay
    <3>3. Leads(Ahead(3 * 1 - 2), Ahead(3 * 1 - 1), Ahead(3 * 1), X[1 - 1], Y[1 - 1], X[1], Y[1])
      BY <3>1, <3>2 DEF Trail
    <3>4. Ahead(1) = b
      BY <1>1, <2>1 DEF Ahead, b
    <3>. QED
      BY <2>1, <3>3, <3>4 DEF Leads
  <2>3. Following'
    BY <1>4, <2>2 DEF Following
  <2>4. MouseTypeOK'
    BY <2>1 DEF MouseTypeOK, MouseInv, Kept
  <2>. QED
    BY <1>1, <1>9, <2>1, <2>3, <2>4
<1>11. CASE Takes(b) /\ Len(p) < 3
  <2>1. pkt' = p /\ mx' = mx /\ my' = my /\ buttons' = buttons
    BY <1>4, <1>11 DEF Kept
  <2>2. MouseTypeOK'
    <3>1. p # <<>> /\ Synced(p[1])
      <4>1. CASE pkt = <<>>
        BY <1>6, <1>7, <1>11, <4>1
      <4>2. CASE pkt # <<>>
        BY <1>1, <1>6, <4>2
      <4>. QED
        BY <4>1, <4>2
    <3>. QED
      BY <1>11, <2>1, <3>1 DEF MouseTypeOK, MouseInv
  <2>3. calm => /\ n = 2 => Len(p) # 1
                /\ n = 1 => p = <<>>
    BY <1>1, <1>2, <1>6, <1>7, <1>9, <1>11
  <2>4. OnTheWay' = OnTheWay
    <3>1. OnTheWay' = Len(p) + (n - 1)
      BY <1>5, <2>1 DEF OnTheWay
    <3>2. PICK l \in Nat : l = Len(pkt)
      BY <1>2
    <3>3. l + 1 + (n - 1) = l + n
      BY <1>2
    <3>. QED
      BY <1>6, <3>1, <3>2, <3>3 DEF OnTheWay
  <2>5. ASSUME NEW i \in 1 .. OnTheWay
        PROVE  Ahead(i)' = Ahead(i)
    <3>1. i \in Nat /\ i # 0 /\ i <= Len(pkt) + n
      BY <1>2 DEF OnTheWay
    <3>2. Ahead(i)' = IF i <= Len(p) THEN p[i] ELSE mouseWire'[i - Len(p)]
      BY <2>1 DEF Ahead
    <3>3. CASE i <= Len(pkt)
      BY <1>2, <1>6, <3>1, <3>2, <3>3 DEF Ahead
    <3>4. CASE i = Len(pkt) + 1
      BY <1>2, <1>6, <3>1, <3>2, <3>4 DEF Ahead, b
    <3>5. CASE i > Len(pkt) + 1
      <4>1. i - Len(p) \in 1 .. n - 1 /\ i - Len(p) + 1 = i - Len(pkt) /\ ~(i <= Len(p)) /\ ~(i <= Len(pkt))
        BY <1>2, <1>6, <3>1, <3>5
      <4>. QED
        BY <1>5, <3>2, <4>1 DEF Ahead
    <3>. QED
      BY <1>2, <3>1, <3>3, <3>4, <3>5
  <2>6. Following'
    <3>. SUFFICES ASSUME aim'.known
                  PROVE  \E k \in Nat : \E X, Y : Trail(k, X, Y)'
      BY DEF Following
    <3>1a. PICK k \in Nat : \E X, Y : Trail(k, X, Y)
      BY <1>4 DEF MouseInv, Following
    <3>1. PICK X, Y : Trail(k, X, Y)
      BY <3>1a
    <3>2. OnTheWay = 3 * k
      BY <3>1 DEF Trail
    <3>3. ASSUME NEW i \in 1 .. k
          PROVE  /\ Ahead(3 * i - 2)' = Ahead(3 * i - 2) /\ Ahead(3 * i - 1)' = Ahead(3 * i - 1)
                 /\ Ahead(3 * i)' = Ahead(3 * i)
      <4>1. 3 * i - 2 \in 1 .. OnTheWay /\ 3 * i - 1 \in 1 .. OnTheWay /\ 3 * i \in 1 .. OnTheWay
        BY <3>2
      <4>. QED
        BY <2>5, <4>1
    <3>4. k # 0 => Ahead(3 * k - 2)' = Ahead(3 * k - 2)
      BY <3>3
    <3>5. \A i \in 1 .. k : Leads(Ahead(3 * i - 2)', Ahead(3 * i - 1)', Ahead(3 * i)', X[i - 1], Y[i - 1], X[i], Y[i])
      BY <3>1, <3>3 DEF Trail
    <3>6. Trail(k, X, Y)'
      BY <1>4, <2>1, <2>4, <3>1, <3>4, <3>5 DEF Trail
    <3>. QED
      BY <3>6
  <2>. QED
    BY <1>6, <2>1, <2>2, <2>3, <2>6
<1>12. CASE Takes(b) /\ Len(p) = 3
  <2>1. pkt' = <<>> /\ IF Overflow(p[1]) THEN Kept ELSE Applied(p)
    BY <1>4, <1>12
  <2>2. Len(pkt) = 2 /\ p[3] = b /\ p[1] = pkt[1] /\ p[2] = pkt[2] /\ p[2] \in MouseByte /\ p[3] \in MouseByte
    <3>1. Len(pkt) = 2
      <4>1. PICK l \in 0 .. 2 : l = Len(pkt)
        BY <1>2
      <4>2. l + 1 = 3
        BY <1>6, <1>12, <4>1
      <4>3. l = 2
        BY <4>2
      <4>. QED
        BY <4>1, <4>3
    <3>2. p[1] = pkt[1] /\ p[2] = pkt[2] /\ p[3] = b
      BY <1>6, <3>1
    <3>3. p[2] \in MouseByte /\ p[3] \in MouseByte
      <4>1. p \in Seq(MouseByte) /\ 2 \in 1 .. Len(p) /\ 3 \in 1 .. Len(p)
        BY <1>6, <1>12
      <4>. QED
        BY <4>1, ElementOfSeq
    <3>. QED
      BY <3>1, <3>2, <3>3
  <2>3. /\ mx' = IF Overflow(p[1]) THEN mx ELSE MovedX(mx, Signed(p[2]))
        /\ my' = IF Overflow(p[1]) THEN my ELSE MovedY(my, Signed(p[3]))
        /\ ~Overflow(p[1]) => buttons' = ButtonsIn(p[1])
    BY <2>1 DEF Kept, Applied
  <2>4. MouseTypeOK'
    <3>1. mx \in 0 .. Width - 1 /\ my \in 0 .. Height - 1
      BY DEF MouseInv, MouseTypeOK
    <3>2. /\ MovedX(mx, Signed(p[2])) \in 0 .. Width - 1
          /\ MovedY(my, Signed(p[3])) \in 0 .. Height - 1
      BY <1>1, <2>2, PointerStays
    <3>. QED
      BY <2>1, <2>3, <3>1, <3>2 DEF MouseTypeOK
  <2>5. Following'
    <3>. SUFFICES ASSUME aim'.known
                  PROVE  \E k \in Nat : \E X, Y : Trail(k, X, Y)'
      BY DEF Following
    <3>1a. PICK k \in Nat : \E X, Y : Trail(k, X, Y)
      BY <1>4 DEF MouseInv, Following
    <3>1. PICK X, Y : Trail(k, X, Y)
      BY <3>1a
    <3>2. OnTheWay = 3 * k /\ OnTheWay = 2 + n /\ k # 0 /\ k - 1 \in Nat
      BY <1>2, <2>2, <3>1 DEF Trail, OnTheWay
    <3>3. OnTheWay' = 3 * (k - 1)
      <4>1. OnTheWay' = n - 1
        BY <1>5, <1>2, <2>1 DEF OnTheWay
      <4>. QED
        BY <1>2, <3>2, <4>1
    <3>4. ASSUME NEW i \in 1 .. 3 * (k - 1)
          PROVE  Ahead(i)' = Ahead(i + 3)
      <4>1. i \in 1 .. n - 1 /\ ~(i <= 0) /\ ~(i + 3 <= 2) /\ i + 3 - 2 = i + 1
        BY <1>2, <3>2
      <4>2. Ahead(i)' = mouseWire'[i]
        <5>1. Ahead(i)' = IF i <= Len(pkt') THEN pkt'[i] ELSE mouseWire'[i - Len(pkt')]
          BY DEF Ahead
        <5>2. Len(pkt') = 0 /\ i - 0 = i
          BY <2>1
        <5>. QED
          BY <4>1, <5>1, <5>2
      <4>. QED
        BY <1>5, <2>2, <4>1, <4>2 DEF Ahead
    <3>5. Ahead(1) = p[1] /\ Ahead(2) = p[2] /\ Ahead(3) = p[3]
      BY <2>2 DEF Ahead, b
    <3>6. Leads(p[1], p[2], p[3], X[0], Y[0], X[1], Y[1])
      <4>1. 1 \in 1 .. k /\ 3 * 1 - 2 = 1 /\ 3 * 1 - 1 = 2 /\ 3 * 1 = 3 /\ 1 - 1 = 0
        BY <3>2
      <4>2. Leads(Ahead(3 * 1 - 2), Ahead(3 * 1 - 1), Ahead(3 * 1), X[1 - 1], Y[1 - 1], X[1], Y[1])
        BY <3>1, <4>1 DEF Trail
      <4>. QED
        BY <3>5, <4>1, <4>2
    <3>7. X[1] = mx' /\ Y[1] = my'
      BY <2>3, <3>1, <3>6 DEF Leads, Trail
    <3>8. PICK X2, Y2 : /\ X2 = [i \in 0 .. k - 1 |-> X[i + 1]]
                        /\ Y2 = [i \in 0 .. k - 1 |-> Y[i + 1]]
      OBVIOUS
    <3>9. /\ X2 \in [0 .. k - 1 -> Int] /\ X2[0] = mx' /\ X2[k - 1] = aim.x
          /\ Y2 \in [0 .. k - 1 -> Int] /\ Y2[0] = my' /\ Y2[k - 1] = aim.y
      <4>1. X \in [0 .. k -> Int] /\ Y \in [0 .. k -> Int] /\ X[k] = aim.x /\ Y[k] = aim.y
        BY <3>1 DEF Trail
      <4>. QED
        BY <3>2, <3>7, <3>8, <4>1
    <3>10. ASSUME NEW i \in 1 .. k - 1
           PROVE  Leads(Ahead(3 * i - 2)', Ahead(3 * i - 1)', Ahead(3 * i)', X2[i - 1], Y2[i - 1], X2[i], Y2[i])
      <4>1. /\ i + 1 \in 1 .. k
            /\ 3 * (i + 1) - 2 = 3 * i - 2 + 3 /\ 3 * (i + 1) - 1 = 3 * i - 1 + 3 /\ 3 * (i + 1) = 3 * i + 3
            /\ i + 1 - 1 = i /\ i \in 0 .. k - 1 /\ i - 1 \in 0 .. k - 1 /\ i - 1 + 1 = i
        BY <3>2
      <4>2. Leads(Ahead(3 * (i + 1) - 2), Ahead(3 * (i + 1) - 1), Ahead(3 * (i + 1)),
                  X[i + 1 - 1], Y[i + 1 - 1], X[i + 1], Y[i + 1])
        BY <3>1, <4>1 DEF Trail
      <4>3. 3 * i - 2 \in 1 .. 3 * (k - 1) /\ 3 * i - 1 \in 1 .. 3 * (k - 1) /\ 3 * i \in 1 .. 3 * (k - 1)
        BY <3>2
      <4>4. /\ Ahead(3 * i - 2)' = Ahead(3 * i - 2 + 3) /\ Ahead(3 * i - 1)' = Ahead(3 * i - 1 + 3)
            /\ Ahead(3 * i)' = Ahead(3 * i + 3)
        BY <3>4, <4>3
      <4>5. X2[i - 1] = X[i] /\ Y2[i - 1] = Y[i] /\ X2[i] = X[i + 1] /\ Y2[i] = Y[i + 1]
        BY <3>8, <4>1
      <4>. QED
        BY <4>1, <4>2, <4>4, <4>5
    <3>11. \/ aim.stale
           \/ k - 1 = 0 /\ buttons' = aim.btn
           \/ /\ k - 1 # 0 /\ ~Overflow(Ahead(3 * (k - 1) - 2)')
              /\ ButtonsIn(Ahead(3 * (k - 1) - 2)') = aim.btn
      <4>1. CASE aim.stale
        BY <4>1
      <4>2. CASE ~aim.stale
        <5>1. ~Overflow(Ahead(3 * k - 2)) /\ ButtonsIn(Ahead(3 * k - 2)) = aim.btn
          BY <3>1, <3>2, <4>2 DEF Trail
        <5>2. CASE k = 1
          <6>1. 3 * k - 2 = 1
            BY <5>2
          <6>. QED
            BY <2>3, <3>5, <5>1, <5>2, <6>1
        <5>3. CASE k # 1
          <6>1. 3 * (k - 1) - 2 \in 1 .. 3 * (k - 1) /\ 3 * (k - 1) - 2 + 3 = 3 * k - 2 /\ k - 1 # 0
            BY <3>2, <5>3
          <6>2. Ahead(3 * (k - 1) - 2)' = Ahead(3 * (k - 1) - 2 + 3)
            BY <3>4, <6>1
          <6>. QED
            BY <5>1, <6>1, <6>2
        <5>. QED
          BY <5>2, <5>3
      <4>. QED
        BY <4>1, <4>2
    <3>12. Trail(k - 1, X2, Y2)'
      BY <1>4, <3>3, <3>9, <3>10, <3>11 DEF Trail
    <3>. QED
      BY <3>2, <3>12
  <2>. QED
    BY <1>2, <2>1, <2>4, <2>5
<1>. QED
  BY <1>2, <1>4, <1>6, <1>10, <1>11, <1>12

LEMMA MouseIsRight == MouseSpec => []MouseInv
<1>1. MouseInv /\ [MouseNext]_(mouseVars) => MouseInv'
  <2>. SUFFICES ASSUME MouseInv, [MouseNext]_(mouseVars) PROVE MouseInv'
    OBVIOUS
  <2>1. CASE MouseIrq
    BY <2>1, IrqKeeps
  <2>2. CASE \E i \in DOMAIN mouseWire : Lose(i)
    BY <2>2, LoseKeeps
  <2>3. CASE \E bs \in SUBSET Buttons, m \in Moves, over \in BOOLEAN : Report(bs, m[1], m[2], over)
    BY <2>3, ReportKeeps
  <2>4. CASE UNCHANGED mouseVars
    <3>1. UNCHANGED <<mouseWire, pkt, buttons, mx, my, aim, calm>>
      BY <2>4 DEF mouseVars, driver
    <3>2. OnTheWay' = OnTheWay /\ \A i : Ahead(i)' = Ahead(i)
      BY <3>1 DEF OnTheWay, Ahead
    <3>3. \A k, X, Y : Trail(k, X, Y)' <=> Trail(k, X, Y)
      BY <3>1, <3>2 DEF Trail
    <3>. QED
      BY <3>1, <3>3 DEF MouseInv, MouseTypes, MouseTypeOK, Calming, Following
  <2>. QED
    BY <2>1, <2>2, <2>3, <2>4 DEF MouseNext
<1>. QED
  BY <1>1, MouseStarts, PTL DEF MouseSpec

(* The pointer is on the screen, the buttons are those of the mouse, and   *)
(* what mouse_irq has of a packet is less than a packet and begins with a  *)
(* header (mouse.c:104).                                                   *)
THEOREM PointerOnScreen == MouseSpec => []MouseTypeOK
BY MouseIsRight, PTL DEF MouseInv

(* As long as no byte is lost, the pointer and the buttons are where the   *)
(* user brought them once the packets are read, those with an overflow     *)
(* left out (mouse.c:117), however many packets are on the way.            *)
THEOREM PointerFollows == MouseSpec => []FollowsTheHand
<1>1. MouseInv => FollowsTheHand
  <2>. SUFFICES ASSUME MouseInv, mouseWire = <<>>, aim.known
                PROVE  mx = aim.x /\ my = aim.y /\ pkt = <<>> /\ (buttons = aim.btn \/ aim.stale)
    BY DEF FollowsTheHand
  <2>1a. PICK k \in Nat : \E X, Y : Trail(k, X, Y)
    BY DEF MouseInv, Following
  <2>1. PICK X, Y : Trail(k, X, Y)
    BY <2>1a
  <2>2. Len(pkt) = 3 * k /\ Len(pkt) < 3 /\ Len(pkt) \in Nat /\ pkt \in Seq(MouseByte)
    BY <2>1 DEF Trail, OnTheWay, MouseInv, MouseTypes, MouseTypeOK
  <2>3. k = 0 /\ pkt = <<>>
    BY <2>2
  <2>. QED
    BY <2>1, <2>3 DEF Trail
<1>. QED
  BY <1>1, MouseIsRight, PTL

(* Whatever was lost, the driver waits for a header once it has read a     *)
(* packet whose movements do not look like one.                            *)
THEOREM DriverResyncs == MouseSpec => []ResyncsAfterCalm
<1>1. MouseInv => ResyncsAfterCalm
  BY DEF MouseInv, Calming, ResyncsAfterCalm
<1>. QED
  BY <1>1, MouseIsRight, PTL
=============================================================================
