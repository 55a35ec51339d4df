-------------------------- MODULE EventQueueProofs --------------------------
(***************************************************************************)
(* Theorems about EventQueue, for every size of the ring and of a batch:   *)
(* nothing is lost, only what is superseded is merged, and the ring        *)
(* implements the queue of EventFifo.                                      *)
(*                                                                         *)
(* The ring is reasoned about through the sequence it stands for: one      *)
(* lemma says what each operation of events.c does to Contents, one what   *)
(* that does to Stream, and everything else is about sequences.            *)
(***************************************************************************)
EXTENDS EventQueue, SequenceTheorems, TLAPS

(* Every slot between tail and head holds an event.                        *)
ContentsAreEvents == Contents \in Seq(NewEvent)

Inv == TypeOK /\ ContentsAreEvents /\ NothingLost /\ MergedIsSuperseded

-----------------------------------------------------------------------------
(* The ring.                                                               *)

(* Indices are taken modulo the size at most once around.                  *)
LEMMA Wrap ==
    ASSUME NEW a \in 0 .. (2 * EVQ_SIZE - 1)
    PROVE  a % EVQ_SIZE = IF a < EVQ_SIZE THEN a ELSE a - EVQ_SIZE
BY EvqSizeAssumption

LEMMA IndexFacts ==
    ASSUME NEW i \in Index
    PROVE  /\ q_next(i) \in Index
           /\ q_next(i) = IF i + 1 = EVQ_SIZE THEN 0 ELSE i + 1
           /\ q_prev(i) \in Index
           /\ q_prev(i) = IF i = 0 THEN EVQ_SIZE - 1 ELSE i - 1
BY EvqSizeAssumption, Wrap DEF q_next, q_prev, Index

LEMMA Ends ==
    ASSUME TypeOK
    PROVE  /\ g_head \in Nat /\ g_head < EVQ_SIZE
           /\ g_tail \in Nat /\ g_tail < EVQ_SIZE
BY EvqSizeAssumption DEF TypeOK, Index

LEMMA LengthFacts ==
    ASSUME TypeOK
    PROVE  /\ Length \in Nat
           /\ Length < EVQ_SIZE
           /\ Length = IF g_head >= g_tail THEN g_head - g_tail
                       ELSE g_head + EVQ_SIZE - g_tail
           /\ Length = 0 <=> g_head = g_tail
<1>1. /\ g_head \in Nat /\ g_head < EVQ_SIZE
      /\ g_tail \in Nat /\ g_tail < EVQ_SIZE
  BY Ends
<1>2. g_head + EVQ_SIZE - g_tail \in 0 .. (2 * EVQ_SIZE - 1)
  BY <1>1, EvqSizeAssumption
<1>3. Length = IF g_head >= g_tail THEN g_head - g_tail
               ELSE g_head + EVQ_SIZE - g_tail
  BY <1>1, <1>2, Wrap, EvqSizeAssumption DEF Length
<1>. QED
  BY <1>1, <1>3, EvqSizeAssumption

(* Where the i-th event stands.                                            *)
LEMMA Place ==
    ASSUME TypeOK, NEW i \in 1 .. EVQ_SIZE
    PROVE  /\ (g_tail + i - 1) % EVQ_SIZE \in Index
           /\ (g_tail + i - 1) % EVQ_SIZE =
                IF g_tail + i - 1 < EVQ_SIZE THEN g_tail + i - 1
                ELSE g_tail + i - 1 - EVQ_SIZE
<1>1. g_tail + i - 1 \in 0 .. (2 * EVQ_SIZE - 1)
  BY EvqSizeAssumption, Ends
<1>. QED
  BY <1>1, Wrap, EvqSizeAssumption, Ends DEF Index

LEMMA ContentsFacts ==
    ASSUME TypeOK
    PROVE  /\ Contents \in Seq(NewEvent \cup {NoEvent})
           /\ Len(Contents) = Length
           /\ \A i \in 1 .. Length :
                 /\ (g_tail + i - 1) % EVQ_SIZE \in Index
                 /\ Contents[i] = g_q[(g_tail + i - 1) % EVQ_SIZE]
<1>1. \A i \in 1 .. Length : (g_tail + i - 1) % EVQ_SIZE \in Index
  BY EvqSizeAssumption, LengthFacts, Place
<1>2. Contents \in [1 .. Length -> NewEvent \cup {NoEvent}]
  BY <1>1 DEF TypeOK, Contents
<1>3. Contents \in Seq(NewEvent \cup {NoEvent}) /\ Len(Contents) = Length
  BY <1>2, LengthFacts, SeqDef
<1>. QED
  BY <1>1, <1>3 DEF Contents

(* The last event is the one before g_head.                                *)
LEMMA LastOfRing ==
    ASSUME TypeOK, g_head # g_tail
    PROVE  /\ Length \in 1 .. EVQ_SIZE
           /\ (g_tail + Length - 1) % EVQ_SIZE = q_prev(g_head)
           /\ Contents[Length] = g_q[q_prev(g_head)]
           /\ Contents # << >>
<1>1. Length \in 1 .. EVQ_SIZE
  BY LengthFacts, EvqSizeAssumption
<1>2. (g_tail + Length - 1) % EVQ_SIZE = q_prev(g_head)
  BY <1>1, EvqSizeAssumption, LengthFacts, Place, IndexFacts, Ends DEF Index
<1>3. Length \in 1 .. Length
  BY <1>1
<1>. QED
  BY <1>1, <1>2, <1>3, ContentsFacts

LEMMA StoreAppends ==
    ASSUME TypeOK, ContentsAreEvents, NEW ev \in NewEvent, Store(ev)
    PROVE  Contents' = Append(Contents, ev) /\ Length < EVQ_SIZE - 1
<1>1. /\ g_head' = q_next(g_head) /\ g_tail' = g_tail
      /\ g_q' = [g_q EXCEPT ![g_head] = ev]
      /\ q_next(g_head) # g_tail
  BY DEF Store, IsFull
<1>2. Length' = Length + 1 /\ Length < EVQ_SIZE - 1
  <2>1. g_head \in Index /\ g_tail \in Index /\ g_head' \in Index
    BY <1>1, IndexFacts DEF TypeOK
  <2>2. Length' = (g_head' + EVQ_SIZE - g_tail) % EVQ_SIZE
    BY <1>1 DEF Length
  <2>3. g_head' \in Nat /\ g_head' < EVQ_SIZE
    BY <2>1, EvqSizeAssumption DEF Index
  <2>4. g_head' + EVQ_SIZE - g_tail \in 0 .. (2 * EVQ_SIZE - 1)
    BY <2>3, EvqSizeAssumption, Ends
  <2>5. Length' = IF g_head' >= g_tail THEN g_head' - g_tail
                  ELSE g_head' + EVQ_SIZE - g_tail
    BY <2>2, <2>3, <2>4, Wrap, EvqSizeAssumption, Ends
  <2>. QED
    BY <1>1, <2>1, <2>5, LengthFacts, IndexFacts, EvqSizeAssumption, Ends
<1>3. (g_tail + (Length + 1) - 1) % EVQ_SIZE = g_head
  BY <1>2, EvqSizeAssumption, LengthFacts, Place, Ends
<1>4. \A i \in 1 .. Length : (g_tail + i - 1) % EVQ_SIZE # g_head
  BY EvqSizeAssumption, LengthFacts, Place, Ends
<1>5. Contents' = [i \in 1 .. Length + 1 |-> g_q'[(g_tail + i - 1) % EVQ_SIZE]]
  BY <1>1, <1>2 DEF Contents
<1>6. \A i \in 1 .. Length : g_q'[(g_tail + i - 1) % EVQ_SIZE] = Contents[i]
  BY <1>1, <1>4, ContentsFacts DEF TypeOK
<1>7. g_q'[(g_tail + (Length + 1) - 1) % EVQ_SIZE] = ev
  BY <1>1, <1>3, LengthFacts DEF TypeOK
<1>8. /\ Append(Contents, ev) \in Seq(NewEvent)
      /\ Len(Append(Contents, ev)) = Length + 1
      /\ \A i \in 1 .. Length : Append(Contents, ev)[i] = Contents[i]
      /\ Append(Contents, ev)[Length + 1] = ev
  BY ContentsFacts, AppendProperties, LengthFacts DEF ContentsAreEvents
<1>9. Append(Contents, ev) = [i \in 1 .. Length + 1 |-> Append(Contents, ev)[i]]
  BY <1>8, LenProperties
<1>10. \A i \in 1 .. Length + 1 :
          g_q'[(g_tail + i - 1) % EVQ_SIZE] = Append(Contents, ev)[i]
  BY <1>6, <1>7, <1>8, LengthFacts
<1>. QED
  BY <1>2, <1>5, <1>9, <1>10

LEMMA OverwriteReplaces ==
    ASSUME TypeOK, ContentsAreEvents, NEW ev \in NewEvent, Overwrite(ev)
    PROVE  /\ Contents # << >>
           /\ Contents[Len(Contents)] = g_q[q_prev(g_head)]
           /\ Contents' = [Contents EXCEPT ![Len(Contents)] = ev]
<1>1. /\ g_head # g_tail
      /\ UNCHANGED <<g_head, g_tail>>
      /\ g_q' = [g_q EXCEPT ![q_prev(g_head)] = ev]
  BY DEF Overwrite, Coalesces
<1>2. Length' = Length
  BY <1>1 DEF Length
<1>3. \A i \in 1 .. Length :
         (g_tail + i - 1) % EVQ_SIZE = q_prev(g_head) <=> i = Length
  <2>1. g_head \in Index /\ Length \in 1 .. EVQ_SIZE
    BY <1>1, LastOfRing DEF TypeOK
  <2>. QED
    BY <1>1, <2>1, IndexFacts, LengthFacts, Place, Ends, EvqSizeAssumption
<1>4. \A i \in 1 .. Length :
         g_q'[(g_tail + i - 1) % EVQ_SIZE] = IF i = Length THEN ev ELSE Contents[i]
  BY <1>1, <1>3, ContentsFacts DEF TypeOK
<1>5. Contents' = [i \in 1 .. Length |-> g_q'[(g_tail + i - 1) % EVQ_SIZE]]
  BY <1>1, <1>2 DEF Contents
<1>6. [Contents EXCEPT ![Length] = ev]
         = [i \in 1 .. Length |-> IF i = Length THEN ev ELSE Contents[i]]
  BY ContentsFacts DEF Contents
<1>7. Contents' = [Contents EXCEPT ![Length] = ev]
  BY <1>4, <1>5, <1>6
<1>. QED
  BY <1>1, <1>7, LastOfRing, ContentsFacts

LEMMA PopTakesFirst ==
    ASSUME TypeOK, ContentsAreEvents, Pop
    PROVE  /\ Contents # << >>
           /\ Head(Contents) = g_q[g_tail]
           /\ Contents' = Tail(Contents)
<1>1. /\ g_head # g_tail
      /\ UNCHANGED <<g_q, g_head>>
      /\ g_tail' = q_next(g_tail)
  BY DEF Pop, IsEmpty
<1>2. /\ g_tail' \in Nat /\ g_tail' < EVQ_SIZE
      /\ g_tail' = IF g_tail + 1 = EVQ_SIZE THEN 0 ELSE g_tail + 1
  BY <1>1, IndexFacts, EvqSizeAssumption DEF TypeOK, Index
<1>3. Length \in 1 .. EVQ_SIZE - 1
  BY <1>1, LastOfRing, LengthFacts, EvqSizeAssumption
<1>4. Length' = Length - 1
  <2>1. Length' = (g_head + EVQ_SIZE - g_tail') % EVQ_SIZE
    BY <1>1 DEF Length
  <2>2. g_head + EVQ_SIZE - g_tail' \in 0 .. (2 * EVQ_SIZE - 1)
    BY <1>2, EvqSizeAssumption, Ends
  <2>3. Length' = IF g_head >= g_tail' THEN g_head - g_tail'
                  ELSE g_head + EVQ_SIZE - g_tail'
    BY <1>2, <2>1, <2>2, Wrap, Ends, EvqSizeAssumption
  <2>. QED
    BY <1>1, <1>2, <2>3, LengthFacts, Ends, EvqSizeAssumption
<1>5. \A i \in 1 .. Length - 1 :
         (g_tail' + i - 1) % EVQ_SIZE = (g_tail + (i + 1) - 1) % EVQ_SIZE
  <2>. SUFFICES ASSUME NEW i \in 1 .. Length - 1
                PROVE  (g_tail' + i - 1) % EVQ_SIZE = (g_tail + (i + 1) - 1) % EVQ_SIZE
    OBVIOUS
  <2>1. g_tail' + i - 1 \in 0 .. (2 * EVQ_SIZE - 1)
    BY <1>2, <1>3, EvqSizeAssumption
  <2>2. i + 1 \in 1 .. EVQ_SIZE
    BY <1>3, EvqSizeAssumption
  <2>3. (g_tail + (i + 1) - 1) % EVQ_SIZE =
          IF g_tail + (i + 1) - 1 < EVQ_SIZE THEN g_tail + (i + 1) - 1
          ELSE g_tail + (i + 1) - 1 - EVQ_SIZE
    BY <2>2, Place
  <2>. QED
    BY <1>2, <1>3, <2>1, <2>3, Wrap, Ends, EvqSizeAssumption
<1>6. Contents' = [i \in 1 .. Length - 1 |-> g_q[(g_tail' + i - 1) % EVQ_SIZE]]
  BY <1>1, <1>4 DEF Contents
<1>7. \A i \in 1 .. Length - 1 : g_q[(g_tail' + i - 1) % EVQ_SIZE] = Contents[i + 1]
  BY <1>3, <1>5, ContentsFacts
<1>8. Contents \in Seq(NewEvent) /\ Len(Contents) = Length /\ Contents # << >>
  BY <1>1, ContentsFacts, LastOfRing DEF ContentsAreEvents
<1>9. Tail(Contents) = [i \in 1 .. Length - 1 |-> Contents[i + 1]]
  <2>1. /\ Tail(Contents) \in Seq(NewEvent)
        /\ Len(Tail(Contents)) = Length - 1
        /\ \A i \in 1 .. Length - 1 : Tail(Contents)[i] = Contents[i + 1]
    BY <1>8, HeadTailProperties
  <2>2. Tail(Contents) = [i \in 1 .. Length - 1 |-> Tail(Contents)[i]]
    BY <2>1, LenProperties
  <2>. QED
    BY <2>1, <2>2
<1>10. Head(Contents) = g_q[g_tail]
  <2>1. Contents[1] = g_q[(g_tail + 1 - 1) % EVQ_SIZE]
    BY <1>3, ContentsFacts
  <2>2. (g_tail + 1 - 1) % EVQ_SIZE = g_tail
    BY <1>3, Place, Ends, EvqSizeAssumption
  <2>. QED
    BY <1>8, <2>1, <2>2
<1>. QED
  BY <1>6, <1>7, <1>8, <1>9, <1>10

-----------------------------------------------------------------------------
(* The steps, and the types.                                               *)

Pushes(ev) ==
    /\ ev.n = serial + 1
    /\ serial' = serial + 1
    /\ UNCHANGED delivered
    /\ Overwrite(ev) \/ Drop(ev) \/ Store(ev)

LEMMA PushCases ==
    ASSUME TypeOK, NEW type \in EventType, NEW change \in BOOLEAN,
           change => type = "mouse", Push(type, change)
    PROVE  \E ev \in NewEvent : Pushes(ev)
<1> DEFINE ev == [type |-> type, change |-> change, n |-> serial + 1]
<1>1. serial + 1 \in 1 .. MaxSerial
  BY MaxSerialAssumption DEF Push, TypeOK
<1>2. ev \in NewEvent
  BY <1>1 DEF NewEvent
<1>3. Pushes(ev)
  BY DEF Push, Pushes
<1>. QED
  BY <1>2, <1>3

(* Every step pushes an event, takes one, or leaves the ring alone.        *)
LEMMA StepCases ==
    ASSUME TypeOK, [Next]_vars
    PROVE  /\ loop' \in {"waiting", "empty", "halted", "draining"}
           /\ batch' \in 0 .. BATCH
           /\ \/ \E ev \in NewEvent : Pushes(ev)
              \/ Pop
              \/ UNCHANGED <<ring, history>>
<1> USE DEF EventType, Wake
<1>1. CASE KeyboardIrq
  BY <1>1, PushCases DEF KeyboardIrq, TypeOK
<1>2. CASE MouseIrq
  BY <1>2, PushCases DEF MouseIrq, TypeOK
<1>3. CASE TimerIrq
  BY <1>3, PushCases DEF TimerIrq, TypeOK
<1>4. CASE WaitTakes
  BY <1>4, BatchAssumption DEF WaitTakes
<1>5. CASE WaitFindsNothing
  BY <1>5 DEF WaitFindsNothing, TypeOK
<1>6. CASE Halt
  BY <1>6 DEF Halt, TypeOK
<1>7. CASE TakeMore
  BY <1>7, BatchAssumption DEF TakeMore, TypeOK
<1>8. CASE HandleBatch
  BY <1>8, BatchAssumption DEF HandleBatch
<1>9. CASE UNCHANGED vars
  BY <1>9 DEF vars, TypeOK
<1>. QED
  BY <1>1, <1>2, <1>3, <1>4, <1>5, <1>6, <1>7, <1>8, <1>9 DEF Next, MainLoop

LEMMA PushKeepsTypes ==
    ASSUME TypeOK, ContentsAreEvents, NEW ev \in NewEvent, Pushes(ev)
    PROVE  /\ g_q' \in [Index -> NewEvent \cup {NoEvent}]
           /\ g_head' \in Index /\ g_tail' \in Index
           /\ serial' \in 0 .. MaxSerial
           /\ delivered' \in Seq(NewEvent)
           /\ merged' \subseteq NewEvent
           /\ dropped' \subseteq 1 .. MaxSerial
           /\ ContentsAreEvents'
<1>1. serial' \in 0 .. MaxSerial /\ delivered' \in Seq(NewEvent) /\ ev.n \in 1 .. MaxSerial
  BY MaxSerialAssumption DEF Pushes, TypeOK, NewEvent
<1>2. g_head \in Index /\ q_next(g_head) \in Index /\ q_prev(g_head) \in Index
  BY IndexFacts DEF TypeOK
<1>3. CASE Overwrite(ev)
  <2>1. /\ Contents # << >>
        /\ Contents[Len(Contents)] = g_q[q_prev(g_head)]
        /\ Contents' = [Contents EXCEPT ![Len(Contents)] = ev]
    BY <1>3, OverwriteReplaces
  <2>2. Len(Contents) \in 1 .. Len(Contents) /\ Contents[Len(Contents)] \in NewEvent
    BY <2>1, EmptySeq, ElementOfSeq DEF ContentsAreEvents
  <2>3. ContentsAreEvents'
    BY <2>1, <2>2, ExceptSeq DEF ContentsAreEvents
  <2>. QED
    BY <1>1, <1>2, <1>3, <2>1, <2>2, <2>3 DEF Overwrite, TypeOK
<1>4. CASE Drop(ev)
  <2>1. ContentsAreEvents'
    BY <1>4 DEF Drop, ring, ContentsAreEvents, Contents, Length
  <2>. QED
    BY <1>1, <1>4, <2>1 DEF Drop, ring, TypeOK
<1>5. CASE Store(ev)
  <2>1. ContentsAreEvents'
    BY <1>5, StoreAppends, AppendProperties DEF ContentsAreEvents
  <2>. QED
    BY <1>1, <1>2, <1>5, <2>1 DEF Store, TypeOK
<1>. QED
  BY <1>3, <1>4, <1>5 DEF Pushes

LEMMA PopKeepsTypes ==
    ASSUME TypeOK, ContentsAreEvents, Pop
    PROVE  /\ g_q' \in [Index -> NewEvent \cup {NoEvent}]
           /\ g_head' \in Index /\ g_tail' \in Index
           /\ serial' \in 0 .. MaxSerial
           /\ delivered' \in Seq(NewEvent)
           /\ merged' \subseteq NewEvent
           /\ dropped' \subseteq 1 .. MaxSerial
           /\ ContentsAreEvents'
<1>1. /\ Head(Contents) \in NewEvent
      /\ g_q[g_tail] = Head(Contents)
      /\ ContentsAreEvents'
  BY PopTakesFirst, HeadTailProperties DEF ContentsAreEvents
<1>2. g_tail' \in Index
  BY IndexFacts DEF Pop, TypeOK
<1>3. delivered' \in Seq(NewEvent)
  BY <1>1, AppendProperties DEF Pop, TypeOK
<1>. QED
  BY <1>1, <1>2, <1>3 DEF Pop, TypeOK

-----------------------------------------------------------------------------
(* What the main loop has received and will receive.                       *)

LEMMA StreamFacts ==
    ASSUME TypeOK, ContentsAreEvents
    PROVE  /\ Stream \in Seq(NewEvent)
           /\ Len(Stream) = Len(delivered) + Len(Contents)
           /\ DOMAIN Stream = 1 .. Len(Stream)
           /\ \A i \in DOMAIN Stream : Stream[i] \in NewEvent
<1>1. Stream \in Seq(NewEvent) /\ Len(Stream) = Len(delivered) + Len(Contents)
  BY ConcatProperties DEF Stream, TypeOK, ContentsAreEvents
<1>. QED
  BY <1>1, LenProperties, ElementOfSeq

LEMMA StoreAppendsToStream ==
    ASSUME TypeOK, ContentsAreEvents, NEW ev \in NewEvent, Store(ev), UNCHANGED delivered
    PROVE  Stream' = Append(Stream, ev)
<1>1. Stream' = delivered \o Append(Contents, ev)
  BY StoreAppends DEF Stream
<1>2. Append(Contents, ev) = Contents \o <<ev>> /\ <<ev>> \in Seq(NewEvent)
  BY AppendIsConcat DEF ContentsAreEvents
<1>3. delivered \o (Contents \o <<ev>>) = (delivered \o Contents) \o <<ev>>
  BY <1>2, ConcatAssociative DEF TypeOK, ContentsAreEvents
<1>4. Stream \o <<ev>> = Append(Stream, ev)
  BY StreamFacts, AppendIsConcat
<1>. QED
  BY <1>1, <1>2, <1>3, <1>4 DEF Stream

LEMMA OverwriteEndsStream ==
    ASSUME TypeOK, ContentsAreEvents, NEW ev \in NewEvent, Overwrite(ev), UNCHANGED delivered
    PROVE  /\ Len(Stream) \in DOMAIN Stream
           /\ Stream[Len(Stream)] = g_q[q_prev(g_head)]
           /\ Stream' = [Stream EXCEPT ![Len(Stream)] = ev]
<1> DEFINE c == Len(Contents)
           d == Len(delivered)
<1>1. /\ c \in Nat \ {0} /\ d \in Nat
      /\ Contents[c] = g_q[q_prev(g_head)]
      /\ Contents' = [Contents EXCEPT ![c] = ev]
  BY OverwriteReplaces, EmptySeq, LenProperties DEF TypeOK, ContentsAreEvents
<1>2. /\ Contents' \in Seq(NewEvent) /\ Len(Contents') = c
      /\ \A j \in 1 .. c : Contents'[j] = IF j = c THEN ev ELSE Contents[j]
  <2>1. c \in 1 .. Len(Contents)
    BY <1>1
  <2>. QED
    BY <1>1, <2>1, ExceptSeq DEF ContentsAreEvents
<1>3. /\ Len(Stream) = d + c
      /\ \A i \in 1 .. d + c :
            Stream[i] = IF i <= d THEN delivered[i] ELSE Contents[i - d]
  BY ConcatProperties DEF Stream, TypeOK, ContentsAreEvents
<1>4. /\ Stream' \in Seq(NewEvent) /\ Len(Stream') = d + c
      /\ \A i \in 1 .. d + c :
            Stream'[i] = IF i <= d THEN delivered[i] ELSE Contents'[i - d]
  <2>1. Stream' = delivered \o Contents' /\ delivered \in Seq(NewEvent)
    BY DEF Stream, TypeOK
  <2>2. PICK q \in Seq(NewEvent) : q = Contents'
    BY <1>2
  <2>3. Len(q) = c /\ Len(delivered) = d /\ Stream' = delivered \o q
    BY <1>2, <2>1, <2>2
  <2>4. /\ delivered \o q \in Seq(NewEvent)
        /\ Len(delivered \o q) = Len(delivered) + Len(q)
    BY <2>1, ConcatProperties
  <2>5. \A i \in 1 .. Len(delivered) + Len(q) :
          (delivered \o q)[i] = IF i <= Len(delivered) THEN delivered[i]
                                                      ELSE q[i - Len(delivered)]
    BY <2>1, ConcatProperties
  <2>. HIDE DEF c, d
  <2>. QED
    BY <2>2, <2>3, <2>4, <2>5
<1>5. Len(Stream) \in DOMAIN Stream /\ Len(Stream) \in 1 .. Len(Stream)
  BY <1>1, <1>3, StreamFacts
<1>6. Stream[d + c] = Contents[c]
  BY <1>1, <1>3
<1>7. /\ [Stream EXCEPT ![d + c] = ev] \in Seq(NewEvent)
      /\ Len([Stream EXCEPT ![d + c] = ev]) = d + c
      /\ \A j \in 1 .. d + c :
            [Stream EXCEPT ![d + c] = ev][j] = IF j = d + c THEN ev ELSE Stream[j]
  BY <1>3, <1>5, StreamFacts, ExceptSeq
<1>8. \A i \in 1 .. d + c : Stream'[i] = [Stream EXCEPT ![d + c] = ev][i]
  <2>. SUFFICES ASSUME NEW i \in 1 .. d + c
                PROVE  Stream'[i] = [Stream EXCEPT ![d + c] = ev][i]
    OBVIOUS
  <2>. HIDE DEF c, d
  <2>1. CASE i <= d
    BY <1>1, <1>3, <1>4, <1>7, <2>1
  <2>2. CASE i > d
    <3>1. i - d \in 1 .. c /\ (i - d = c <=> i = d + c)
      BY <1>1, <2>2
    <3>. QED
      BY <1>1, <1>2, <1>3, <1>4, <1>7, <2>2, <3>1
  <2>. QED
    BY <1>1, <2>1, <2>2
<1>9. Stream' = [Stream EXCEPT ![d + c] = ev]
  BY <1>4, <1>7, <1>8, SeqEqual
<1>. QED
  BY <1>1, <1>3, <1>5, <1>6, <1>9

LEMMA PopKeepsStream ==
    ASSUME TypeOK, ContentsAreEvents, Pop
    PROVE  Stream' = Stream
<1>1. /\ Contents # << >> /\ Contents \in Seq(NewEvent)
      /\ delivered \in Seq(NewEvent)
      /\ Contents' = Tail(Contents)
      /\ delivered' = Append(delivered, Head(Contents))
  BY PopTakesFirst DEF Pop, TypeOK, ContentsAreEvents
<1>2. /\ Head(Contents) \in NewEvent /\ Tail(Contents) \in Seq(NewEvent)
      /\ Contents = <<Head(Contents)>> \o Tail(Contents)
  <2>1. SubSeq(Contents, 1, Len(Contents)) = <<Contents[1]>> \o SubSeq(Contents, 2, Len(Contents))
    BY <1>1, EmptySeq, LenProperties, SubSeqRecursiveFirst
  <2>2. SubSeq(Contents, 1, Len(Contents)) = Contents
    BY <1>1, SubSeqFull
  <2>3. SubSeq(Contents, 2, Len(Contents)) = Tail(Contents)
    BY <1>1, TailIsSubSeq
  <2>4. Head(Contents) = Contents[1]
    BY <1>1
  <2>. QED
    BY <1>1, <2>1, <2>2, <2>3, <2>4, HeadTailProperties
<1>3. /\ delivered' = delivered \o <<Head(Contents)>>
      /\ <<Head(Contents)>> \in Seq(NewEvent)
  BY <1>1, <1>2, AppendIsConcat
<1>4. (delivered \o <<Head(Contents)>>) \o Tail(Contents)
         = delivered \o (<<Head(Contents)>> \o Tail(Contents))
  BY <1>1, <1>2, <1>3, ConcatAssociative
<1>. QED
  BY <1>1, <1>2, <1>3, <1>4 DEF Stream

-----------------------------------------------------------------------------
(* The invariant.                                                          *)

LEMMA SerialFacts ==
    ASSUME Inv
    PROVE  /\ serial \in Nat
           /\ \A i \in DOMAIN Stream : Stream[i].n \in 1 .. serial
           /\ MergedSerials \subseteq 1 .. serial
           /\ dropped \subseteq 1 .. serial
<1>1. \A i \in DOMAIN Stream : Stream[i].n \in Serials(Stream)
  BY DEF Serials
<1>. QED
  BY <1>1, MaxSerialAssumption DEF Inv, TypeOK, NothingLost

LEMMA StoreKeepsInv ==
    ASSUME Inv, NEW ev \in NewEvent, Pushes(ev), Store(ev)
    PROVE  NothingLost' /\ MergedIsSuperseded'
<1> USE DEF Inv
<1>1. /\ ev.n = serial + 1 /\ serial' = serial + 1
      /\ merged' = merged /\ dropped' = dropped
      /\ MergedSerials' = MergedSerials
  BY DEF Pushes, Store, MergedSerials
<1>2. /\ DOMAIN Stream = 1 .. Len(Stream) /\ Len(Stream) \in Nat
      /\ DOMAIN Stream' = 1 .. Len(Stream) + 1
      /\ \A i \in DOMAIN Stream : Stream'[i] = Stream[i]
      /\ Stream'[Len(Stream) + 1] = ev
  <2>1. Stream' = Append(Stream, ev)
    BY StoreAppendsToStream DEF Pushes
  <2>. QED
    BY <2>1, StreamFacts, AppendProperties, LenProperties
<1>3. /\ \A i \in DOMAIN Stream : Stream[i].n \in 1 .. serial
      /\ MergedSerials \subseteq 1 .. serial
      /\ dropped \subseteq 1 .. serial
      /\ serial \in Nat
  BY SerialFacts
<1>4. Serials(Stream') = Serials(Stream) \cup {serial + 1}
  BY <1>1, <1>2 DEF Serials
<1>5. 1 .. serial + 1 = (1 .. serial) \cup {serial + 1}
  BY <1>3
<1>6. \A i, j \in DOMAIN Stream' : i < j => Stream'[i].n < Stream'[j].n
  <2>. SUFFICES ASSUME NEW i \in DOMAIN Stream', NEW j \in DOMAIN Stream', i < j
                PROVE  Stream'[i].n < Stream'[j].n
    OBVIOUS
  <2>1. i \in DOMAIN Stream
    BY <1>2
  <2>2. CASE j \in DOMAIN Stream
    BY <1>2, <2>1, <2>2 DEF NothingLost
  <2>3. CASE j = Len(Stream) + 1
    BY <1>1, <1>2, <1>3, <2>1, <2>3
  <2>. QED
    BY <1>2, <2>2, <2>3
<1>7. NothingLost'
  <2>1. Serials(Stream') \cup MergedSerials' \cup dropped' = 1 .. serial'
    BY <1>1, <1>4, <1>5 DEF NothingLost
  <2>2. serial + 1 \notin MergedSerials \cup dropped
    BY <1>3
  <2>3. Serials(Stream') \cap (MergedSerials' \cup dropped') = {}
    BY <1>1, <1>4, <2>2 DEF NothingLost
  <2>. QED
    BY <1>6, <2>1, <2>3 DEF NothingLost
<1>8. MergedIsSuperseded'
  BY <1>1, <1>2 DEF MergedIsSuperseded
<1>. QED
  BY <1>7, <1>8

LEMMA DropKeepsInv ==
    ASSUME Inv, NEW ev \in NewEvent, Pushes(ev), Drop(ev)
    PROVE  NothingLost' /\ MergedIsSuperseded'
<1> USE DEF Inv
<1>1. /\ ev.n = serial + 1 /\ serial' = serial + 1
      /\ merged' = merged /\ dropped' = dropped \cup {serial + 1}
      /\ Stream' = Stream /\ MergedSerials' = MergedSerials
  BY DEF Pushes, Drop, ring, Stream, Contents, Length, MergedSerials
<1>2. /\ \A i \in DOMAIN Stream : Stream[i].n \in 1 .. serial
      /\ serial \in Nat
  BY SerialFacts
<1>3. 1 .. serial + 1 = (1 .. serial) \cup {serial + 1}
  BY <1>2
<1>4. serial + 1 \notin Serials(Stream)
  BY <1>2 DEF Serials
<1>5. NothingLost'
  BY <1>1, <1>3, <1>4 DEF NothingLost
<1>6. MergedIsSuperseded'
  BY <1>1 DEF MergedIsSuperseded
<1>. QED
  BY <1>5, <1>6

LEMMA OverwriteKeepsInv ==
    ASSUME Inv, NEW ev \in NewEvent, Pushes(ev), Overwrite(ev)
    PROVE  NothingLost' /\ MergedIsSuperseded'
<1> USE DEF Inv
<1> DEFINE l == Len(Stream)
           old == Stream[l]
<1>1. /\ ev.n = serial + 1 /\ serial' = serial + 1
      /\ merged' = merged \cup {old} /\ dropped' = dropped
      /\ MergedSerials' = MergedSerials \cup {old.n}
      /\ Merges(old, ev)
  BY OverwriteEndsStream DEF Pushes, Overwrite, Coalesces, MergedSerials
<1>2. /\ DOMAIN Stream = 1 .. l /\ l \in DOMAIN Stream
      /\ DOMAIN Stream' = DOMAIN Stream
      /\ \A i \in DOMAIN Stream : Stream'[i] = IF i = l THEN ev ELSE Stream[i]
  BY OverwriteEndsStream, StreamFacts DEF Pushes
<1>3. /\ \A i \in DOMAIN Stream : Stream[i].n \in 1 .. serial
      /\ MergedSerials \subseteq 1 .. serial
      /\ dropped \subseteq 1 .. serial
      /\ serial \in Nat
  BY SerialFacts
<1>4. \A i, j \in DOMAIN Stream : i < j => Stream[i].n < Stream[j].n
  BY DEF NothingLost
<1>5. l \in Nat /\ \A i \in DOMAIN Stream : i # l => Stream[i].n < old.n
  <2>1. l \in Nat
    BY StreamFacts, LenProperties
  <2>. QED
    BY <1>2, <1>4, <2>1
<1>. HIDE DEF l, old
<1>6. Serials(Stream') = (Serials(Stream) \ {old.n}) \cup {serial + 1}
  <2>1. Stream[l] = old
    BY DEF l, old
  <2>2. \A i \in DOMAIN Stream : i # l => Stream[i].n # old.n
    BY <1>2, <1>3, <1>5, <2>1
  <2>. QED
    BY <1>1, <1>2, <2>1, <2>2 DEF Serials
<1>7. old.n \in Serials(Stream) /\ old.n \in 1 .. serial
  BY <1>2, <1>3 DEF Serials, l, old
<1>8. 1 .. serial + 1 = (1 .. serial) \cup {serial + 1}
  BY <1>3
<1>9. \A i, j \in DOMAIN Stream' : i < j => Stream'[i].n < Stream'[j].n
  <2>. SUFFICES ASSUME NEW i \in DOMAIN Stream, NEW j \in DOMAIN Stream, i < j
                PROVE  Stream'[i].n < Stream'[j].n
    BY <1>2
  <2>1. i # l
    BY <1>2, <1>5
  <2>2. CASE j = l
    BY <1>1, <1>2, <1>3, <2>1, <2>2
  <2>3. CASE j # l
    BY <1>2, <1>4, <2>1, <2>3
  <2>. QED
    BY <2>2, <2>3
<1>10. NothingLost'
  <2>1. Serials(Stream') \cup MergedSerials' \cup dropped' = 1 .. serial'
    BY <1>1, <1>6, <1>7, <1>8 DEF NothingLost
  <2>2. serial + 1 \notin MergedSerials \cup dropped \cup {old.n}
    BY <1>3, <1>7
  <2>3. Serials(Stream') \cap (MergedSerials' \cup dropped') = {}
    BY <1>1, <1>6, <2>2 DEF NothingLost
  <2>. QED
    BY <1>9, <2>1, <2>3 DEF NothingLost
(* What old superseded is superseded by ev: between old and ev everything  *)
(* was refused, or old would not be the last of the stream.                *)
<1>11. \A k \in old.n .. serial : k \in MergedSerials' \cup dropped'
  <2>. SUFFICES ASSUME NEW k \in old.n .. serial, k # old.n
                PROVE  k \in MergedSerials \cup dropped
    BY <1>1
  <2>1. k \in 1 .. serial /\ k > old.n
    BY <1>3, <1>7
  <2>2. \A i \in DOMAIN Stream : Stream[i].n <= old.n
    BY <1>2, <1>3, <1>5, <1>7 DEF old
  <2>3. k \notin Serials(Stream)
    BY <1>3, <1>7, <2>1, <2>2 DEF Serials
  <2>. QED
    BY <2>1, <2>3 DEF NothingLost
<1>12. MergedIsSuperseded'
  <2>. SUFFICES ASSUME NEW m \in merged'
                PROVE  \E i \in DOMAIN Stream' :
                          /\ \/ IsMove(m) /\ IsMove(Stream'[i])
                             \/ IsTick(m) /\ IsTick(Stream'[i])
                          /\ m.n < Stream'[i].n
                          /\ \A k \in m.n .. (Stream'[i].n - 1) :
                                k \in MergedSerials' \cup dropped'
    BY DEF MergedIsSuperseded
  <2>1. /\ l \in DOMAIN Stream' /\ Stream'[l] = ev
        /\ ev.n - 1 = serial
    BY <1>1, <1>2, <1>3
  <2>2. CASE m = old
    <3>1. \/ IsMove(m) /\ IsMove(ev)
          \/ IsTick(m) /\ IsTick(ev)
      BY <1>1, <2>2 DEF Merges
    <3>2. m.n < ev.n
      BY <1>1, <1>3, <1>7, <2>2
    <3>. QED
      BY <1>11, <2>1, <2>2, <3>1, <3>2
  <2>3. CASE m \in merged
    <3>1. PICK i \in DOMAIN Stream :
             /\ \/ IsMove(m) /\ IsMove(Stream[i])
                \/ IsTick(m) /\ IsTick(Stream[i])
             /\ m.n < Stream[i].n
             /\ \A k \in m.n .. (Stream[i].n - 1) : k \in MergedSerials \cup dropped
      BY <2>3 DEF MergedIsSuperseded
    <3>2. CASE i # l
      BY <1>1, <1>2, <3>1, <3>2
    <3>3. CASE i = l
      <4>1. Stream[l] = old
        BY DEF old, l
      <4>2. \/ IsMove(m) /\ IsMove(ev)
            \/ IsTick(m) /\ IsTick(ev)
        BY <1>1, <3>1, <3>3, <4>1 DEF Merges, IsMove, IsTick
      <4>3. m.n \in 1 .. MaxSerial
        BY <2>3 DEF TypeOK, NewEvent
      <4>4. m.n < ev.n
        BY <1>1, <1>3, <1>7, <3>1, <3>3, <4>1, <4>3, MaxSerialAssumption
      <4>5. \A k \in m.n .. serial : k \in MergedSerials' \cup dropped'
        <5>. SUFFICES ASSUME NEW k \in m.n .. serial PROVE k \in MergedSerials' \cup dropped'
          OBVIOUS
        <5>1. CASE k < old.n
          BY <1>1, <1>7, <3>1, <3>3, <4>1, <4>3, <5>1
        <5>2. CASE k >= old.n
          BY <1>7, <1>11, <4>3, <5>2
        <5>. QED
          BY <1>7, <4>3, <5>1, <5>2
      <4>. QED
        BY <2>1, <4>2, <4>4, <4>5
    <3>. QED
      BY <3>2, <3>3
  <2>. QED
    BY <1>1, <2>2, <2>3
<1>. QED
  BY <1>10, <1>12

LEMMA PopKeepsInv ==
    ASSUME Inv, Pop
    PROVE  NothingLost' /\ MergedIsSuperseded'
<1>1. /\ Stream' = Stream /\ serial' = serial
      /\ merged' = merged /\ dropped' = dropped /\ MergedSerials' = MergedSerials
  BY PopKeepsStream DEF Inv, Pop, MergedSerials
<1>. QED
  BY <1>1 DEF Inv, NothingLost, MergedIsSuperseded

LEMMA InitInv == Init => Inv
<1>. SUFFICES ASSUME Init PROVE Inv
  OBVIOUS
<1>1. TypeOK
  BY EvqSizeAssumption, BatchAssumption, MaxSerialAssumption, EmptySeq DEF Init, TypeOK, Index
<1>2. Contents = << >> /\ delivered = << >>
  <2>1. Length = 0 /\ Len(Contents) = 0
    BY <1>1, LengthFacts, ContentsFacts DEF Init
  <2>. QED
    BY <1>1, <2>1, ContentsFacts, EmptySeq DEF Init
<1>3. ContentsAreEvents
  BY <1>2, EmptySeq DEF ContentsAreEvents
<1>4. DOMAIN Stream = {}
  <2>1. Len(Stream) = 0
    BY <1>1, <1>2, <1>3, StreamFacts, EmptySeq
  <2>. QED
    BY <1>1, <1>3, <2>1, StreamFacts
<1>5. NothingLost /\ MergedIsSuperseded
  BY <1>4 DEF Init, NothingLost, MergedIsSuperseded, Serials, MergedSerials
<1>. QED
  BY <1>1, <1>3, <1>5 DEF Inv

LEMMA StepKeepsInv == Inv /\ [Next]_vars => Inv'
<1>. SUFFICES ASSUME Inv, [Next]_vars PROVE Inv'
  OBVIOUS
<1>. USE DEF Inv
<1>1. /\ loop' \in {"waiting", "empty", "halted", "draining"}
      /\ batch' \in 0 .. BATCH
  BY StepCases
<1>2. CASE \E ev \in NewEvent : Pushes(ev)
  <2>1. PICK ev \in NewEvent : Pushes(ev)
    BY <1>2
  <2>2. TypeOK' /\ ContentsAreEvents'
    BY <1>1, <2>1, PushKeepsTypes DEF TypeOK
  <2>3. NothingLost' /\ MergedIsSuperseded'
    BY <2>1, OverwriteKeepsInv, DropKeepsInv, StoreKeepsInv DEF Pushes
  <2>. QED
    BY <2>2, <2>3
<1>3. CASE Pop
  <2>1. TypeOK' /\ ContentsAreEvents'
    BY <1>1, <1>3, PopKeepsTypes DEF TypeOK
  <2>. QED
    BY <1>3, <2>1, PopKeepsInv
<1>4. CASE UNCHANGED <<ring, history>>
  <2>1. Contents' = Contents /\ Stream' = Stream /\ MergedSerials' = MergedSerials
    BY <1>4 DEF ring, history, Contents, Length, Stream, MergedSerials
  <2>2. TypeOK' /\ ContentsAreEvents'
    BY <1>1, <1>4, <2>1 DEF ring, history, TypeOK, ContentsAreEvents
  <2>3. NothingLost' /\ MergedIsSuperseded'
    BY <1>4, <2>1 DEF history, NothingLost, MergedIsSuperseded
  <2>. QED
    BY <2>2, <2>3
<1>. QED
  BY <1>2, <1>3, <1>4, StepCases

(* The indices stay in the ring, and only events ever stand between them.  *)
THEOREM TypesHold == Spec => []TypeOK
BY InitInv, StepKeepsInv, PTL DEF Spec, Inv

(* No event is lost, repeated or reordered by the ring, however the pushes *)
(* of the interrupt handlers and the pops of the main loop follow each     *)
(* other, and whatever the size of the ring.                               *)
THEOREM NothingIsLost == Spec => []NothingLost
BY InitInv, StepKeepsInv, PTL DEF Spec, Inv

(* Coalescing in place never takes away more than the later event repeats. *)
THEOREM OnlySupersededIsMerged == Spec => []MergedIsSuperseded
BY InitInv, StepKeepsInv, PTL DEF Spec, Inv

-----------------------------------------------------------------------------
(* The refinement.                                                         *)

LEMMA StartsAsFifo == Init => Fifo!Init
<1>. SUFFICES ASSUME Init PROVE Contents = << >>
  BY DEF Fifo!Init
<1>1. TypeOK
  BY InitInv DEF Inv
<1>2. Len(Contents) = 0
  BY <1>1, LengthFacts, ContentsFacts DEF Init
<1>. QED
  BY <1>1, <1>2, ContentsFacts, EmptySeq

LEMMA StepsAsFifo == Inv /\ [Next]_vars => [Fifo!Next]_Contents
<1>. SUFFICES ASSUME Inv, [Next]_vars PROVE Fifo!Next \/ UNCHANGED Contents
  OBVIOUS
<1>. USE DEF Inv
<1>1. CASE \E ev \in NewEvent : Pushes(ev)
  <2>1. PICK ev \in NewEvent : Pushes(ev)
    BY <1>1
  <2>2. CASE Overwrite(ev)
    <3>1. /\ Contents # << >>
          /\ Merges(Contents[Len(Contents)], ev)
          /\ Contents' = [Contents EXCEPT ![Len(Contents)] = ev]
      BY <2>2, OverwriteReplaces DEF Overwrite, Coalesces
    <3>2. Fifo!Merge(ev)
      BY <3>1 DEF Fifo!Merge, Fifo!CanMerge, Fifo!Back
    <3>. QED
      BY <3>2 DEF Fifo!Next
  <2>3. CASE Drop(ev)
    BY <2>3 DEF Drop, ring, Contents, Length
  <2>4. CASE Store(ev)
    <3>1. Contents' = Append(Contents, ev) /\ Len(Contents) < EVQ_SIZE - 1
      BY <2>4, StoreAppends, ContentsFacts
    <3>2. ~(Contents # << >> /\ Merges(Contents[Len(Contents)], ev))
      <4>1. CASE g_head = g_tail
        <5>1. Len(Contents) = 0
          BY <4>1, LengthFacts, ContentsFacts
        <5>. QED
          BY <5>1, EmptySeq DEF ContentsAreEvents
      <4>2. CASE g_head # g_tail
        BY <2>4, <4>2, LastOfRing, ContentsFacts DEF Store, Coalesces
      <4>. QED
        BY <4>1, <4>2
    <3>3. Fifo!Put(ev)
      BY <3>1, <3>2 DEF Fifo!Put, Fifo!CanMerge, Fifo!Back
    <3>. QED
      BY <3>3 DEF Fifo!Next
  <2>. QED
    BY <2>1, <2>2, <2>3, <2>4 DEF Pushes
<1>2. CASE Pop
  BY <1>2, PopTakesFirst DEF Fifo!Next, Fifo!Take
<1>3. CASE UNCHANGED <<ring, history>>
  BY <1>3 DEF ring, Contents, Length
<1>. QED
  BY <1>1, <1>2, <1>3, StepCases

(* The ring with its coalescing interrupt-side push and its cli-side pop   *)
(* is the bounded queue of EventFifo.                                      *)
THEOREM RingIsFifo == Spec => ImplementsFifo
BY InitInv, StepKeepsInv, StartsAsFifo, StepsAsFifo, PTL DEF Spec, ImplementsFifo, Fifo!Spec
=============================================================================
