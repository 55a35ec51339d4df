----------------------------- MODULE Fat32Proofs -----------------------------
(***************************************************************************)
(* Theorems about Fat32, for every size of the volume and of a cluster,    *)
(* any number of names and operations: whatever fails and whenever the     *)
(* power goes, no cluster is on two chains, and none serves both a file    *)
(* and a directory; a volume that was never hurt has no name twice in a    *)
(* directory, and its files read as they were written; and where nothing   *)
(* failed no cluster is lost.                                              *)
(*                                                                         *)
(* The first invariant has two halves.  Volume says of the disk what the   *)
(* two properties say, and what that needs: the root stays, directories    *)
(* are allocated, a directory's entry has a cluster.  Running says what    *)
(* the operation under way still holds in its hands: the place it is at, a *)
(* chain it has cut off or not yet hung up, and the cluster it has just    *)
(* allocated.  Nobody else reaches those.                                  *)
(*                                                                         *)
(* Three more stand on it.  Naming says what the search for a name has     *)
(* seen of the directory, and where the free unit it found lies.  Keeping  *)
(* says which chains an operation holds that no entry leads to, so that    *)
(* every cluster in use is on a chain from somewhere.  Both speak of the   *)
(* clusters a chain reaches as the least set closed under its links, which *)
(* needs no recursion to reason about.                                     *)
(*                                                                         *)
(* Kept says where on a file's chain each unit of its text is, and how     *)
(* much of a new text the operation under way has put behind the old one.  *)
(* The places of a cluster on a chain are again a least set, and a cluster *)
(* has one place only.                                                     *)
(***************************************************************************)
EXTENDS Fat32, SequenceTheorems, FiniteSetTheorems, WellFoundedInduction, TLAPS

-----------------------------------------------------------------------------
(* The volume.                                                             *)

Unlinked(c)  == \A b \in Cluster : fat[b] # c
Unpointed(c) == \A p \in Pointers : Unit(p).first # c

(* Nobody but the entry at hand leads to c.                                *)
UnpointedElse(c) == \A p \in Pointers : p # op.pos => Unit(p).first # c

RootStays == Root \in dirs /\ Unlinked(Root)

DirsAreInUse ==
    /\ \A c \in dirs : fat[c] # FREE
    /\ \A p \in Pos : p[1] \in dirs /\ IsEntryAt(p) /\ Unit(p).dir => Unit(p).first # 0

LinksAreSound ==
    /\ \A c \in Cluster : fat[c] \in Cluster =>
          fat[fat[c]] # FREE /\ (c \in dirs <=> fat[c] \in dirs)
    /\ \A c, d \in Cluster : fat[c] = fat[d] /\ fat[c] \in Cluster => c = d

PointersAreSound ==
    /\ \A p \in Pointers : /\ fat[Unit(p).first] # FREE
                           /\ Unit(p).first # Root
                           /\ Unlinked(Unit(p).first)
                           /\ Unit(p).dir <=> Unit(p).first \in dirs
    /\ \A p, q \in Pointers : Unit(p).first = Unit(q).first => p = q

Volume == RootStays /\ DirsAreInUse /\ LinksAreSound /\ PointersAreSound

-----------------------------------------------------------------------------
(* The operation.                                                          *)

Allocating(goals) == op.pc \in {"mark", "zero", "link"} /\ op.goal \in goals

(* Looking for an entry, or for a place to put one.                        *)
Placing == \/ op.pc \in {"find", "slot", "tail", "entry"}
           \/ Allocating({"mkdir", "extend"})
           \/ op.pc = "bump" /\ op.leg = 2

(* Making a chain long enough and filling it.                              *)
Filling == \/ op.pc \in {"ensure", "walk", "grow", "data", "commit"}
           \/ Allocating({"first", "chain"})

EmptyCluster(c) == \A u \in Slot : mem[c][u] = Zero

(* Allocated, and nobody knows.                                            *)
Fresh(c) == c \in Cluster /\ fat[c] = EOC /\ c \notin dirs /\ Unlinked(c) /\ Unpointed(c)

(* Cut off from everything but the entry at hand.                          *)
CutOff(c) == c \in Cluster /\ c # Root /\ Unlinked(c) /\ UnpointedElse(c)

PlaceIsDirectory ==
    /\ Placing => op.dir \in dirs
    /\ op.pc \in {"find", "slot"} => op.cl \in dirs
    /\ op.pc = "tail" \/ Allocating({"extend"}) => op.last \in dirs
    /\ op.pc = "entry" => op.pos[1] \in dirs

(* The cluster of a directory to be.                                       *)
NewDirectory ==
    Placing =>
       /\ op.kind # "mkdir" \/ op.pc = "find" \/ Allocating({"mkdir"}) => op.first = 0
       /\ op.first # 0 => Fresh(op.first) /\ EmptyCluster(op.first)

NewCluster ==
    /\ op.pc \in {"zero", "link"} =>
          /\ Fresh(op.new) /\ op.new # op.first
          /\ op.goal \in {"extend", "chain"} => op.new # op.last
    /\ op.pc = "link" => EmptyCluster(op.new)

NewChain ==
    /\ Filling => /\ op.kind \in {"write", "append"}
                  /\ op.leg # 2
                  /\ IsEntryAt(op.pos) => ~Unit(op.pos).dir
                  /\ op.first # 0 => /\ CutOff(op.first)
                                     /\ fat[op.first] # FREE
                                     /\ op.first \notin dirs
    /\ op.pc \in {"walk", "grow"} \/ Allocating({"chain"}) =>
          op.first # 0 /\ op.last \in Cluster \ dirs /\ fat[op.last] # FREE

OldChain ==
    /\ op.pc = "free" => /\ op.kind \in {"write", "rm"} /\ op.leg # 2
                         /\ CutOff(op.cl)
                         /\ op.kind = "write" =>
                               /\ op.cl \notin dirs
                               /\ IsEntryAt(op.pos) => ~Unit(op.pos).dir
    /\ op.pc = "empty" => /\ op.kind = "rm" /\ op.leg # 2
                          /\ CutOff(op.first)
                          /\ op.cl \in Cluster
    /\ op.pc = "unlink" => op.kind = "rm" /\ op.leg # 2
    /\ op.loose => op.pc \in {"free", "unlink"} \/ Filling

(* What each step finds in the local variables, whatever happened before.  *)
Control ==
    /\ op.pc \in {"find", "slot", "free", "empty"} => op.cl \in Cluster
    /\ op.pc = "empty" => op.first \in Cluster
    /\ op.pc \in {"tail", "walk", "grow"} \/ Allocating({"extend", "chain"}) => op.last \in Cluster
    /\ op.pc \in {"zero", "link"} => op.new \in Cluster
    /\ op.pc = "mark" => op.goal # "none"
    /\ op.pc = "zero" => op.goal # "none"
    /\ op.pc = "link" => op.goal \in {"extend", "chain"}
    /\ Allocating({"mkdir"}) => op.kind = "mkdir"
    /\ op.kind = "none" <=> op.pc = "idle"
    /\ op.kind = "mkdir" => op.leg = 1
    /\ op.kind = "mkdir" /\ (op.pc \in {"slot", "tail", "entry"} \/ Allocating({"extend"}))
          => op.first \in Cluster
    /\ op.kind = "rm" => op.leg = 1
    /\ op.kind = "touch" => op.leg = 2
    /\ op.done <= Len(op.text)
    /\ op.pc # "idle" => op.name \in Names

Running == PlaceIsDirectory /\ NewDirectory /\ NewCluster /\ NewChain /\ OldChain

Inv == TypeOK /\ Control /\ ("hurt" \notin faults => Volume /\ Running)

-----------------------------------------------------------------------------
LEMMA Clusters ==
    /\ Root \in Cluster /\ FREE \notin Cluster /\ 0 \notin Cluster /\ EOC \notin Cluster
    /\ EOC # FREE /\ FREE = 0
    /\ Cluster \subseteq Nat
BY ClusterAssumption DEF Cluster, Root, FREE, EOC

LEMMA TypeFacts ==
    ASSUME TypeOK
    PROVE  /\ \A c \in Cluster : fat[c] \in Cluster \/ fat[c] = FREE \/ fat[c] = EOC
           /\ \A c \in Cluster, u \in Slot : <<c, u>> \in Pos /\ Unit(<<c, u>>) = mem[c][u]
           /\ \A p \in Pos : /\ p[1] \in Cluster /\ p[2] \in Slot
                             /\ Unit(p) = mem[p[1]][p[2]]
                             /\ Unit(p) \in Bytes \cup Entry
           /\ op.pos \in Pos /\ op.cl \in Cluster \cup {0, EOC} /\ op.first \in Cluster \cup {0}
           /\ dirs \subseteq Cluster
BY DEF TypeOK, Pos, Unit, Op

LEMMA EntryFacts ==
    ASSUME NEW e \in Entry
    PROVE  /\ e.name \in Names /\ e.dir \in BOOLEAN /\ e.first \in Cluster \cup {0} /\ e.size \in Nat
           /\ Start(e) \in Cluster \cup {0}
           /\ e \notin Bytes
BY Clusters, UnitsAssumption DEF Entry, Start

-----------------------------------------------------------------------------
(* Types.                                                                  *)

LEMMA Words ==
    /\ {"idle", "find", "slot", "tail", "mark", "zero", "link", "entry", "free"} \subseteq OpPc
    /\ {"ensure", "walk", "grow", "data", "commit", "empty", "unlink", "bump"} \subseteq OpPc
    /\ {"none", "mkdir", "extend", "first", "chain"} \subseteq OpGoal
    /\ {"none", "touch", "mkdir", "write", "append", "rm"} \subseteq OpKind
    /\ {1, 2, 3} \subseteq OpLeg
BY DEF OpPc, OpGoal, OpKind, OpLeg

LEMMA IdleType == Idle \in Op
BY Clusters, SlotsAssumption, EmptySeq DEF Idle, Op, OpKind, OpPc, OpGoal, OpLeg, Pos, Slot

(* Where a search goes on, with or without the entry it was for.           *)
LEMMA WithoutCases ==
    \/ WithoutEntry = Idle
    \/ op.kind = "mkdir" /\ WithoutEntry = [op EXCEPT !.pc = "mark", !.goal = "mkdir"]
    \/ /\ op.kind \notin {"rm", "mkdir"} /\ op.leg = 1
       /\ WithoutEntry = [op EXCEPT !.leg = 2, !.cl = op.dir]
    \/ /\ op.kind \notin {"rm", "mkdir"} /\ op.leg \notin {1, 3}
       /\ WithoutEntry = [op EXCEPT !.pc = "slot", !.cl = op.dir]
BY DEF WithoutEntry

Here(p) == [op EXCEPT !.pos = p, !.first = Start(Unit(p)), !.cl = Start(Unit(p))]

LEMMA WithCases ==
    ASSUME NEW p
    PROVE  \/ WithEntry(p) = Idle
           \/ /\ op.kind = "rm" /\ Unit(p).dir
              /\ WithEntry(p) = [Here(p) EXCEPT !.pc = "empty"]
           \/ /\ op.kind = "rm" /\ ~Unit(p).dir /\ Unit(p).first # 0
              /\ WithEntry(p) = [Here(p) EXCEPT !.pc = "free"]
           \/ /\ op.kind = "rm" /\ ~Unit(p).dir /\ Unit(p).first = 0
              /\ WithEntry(p) = [Here(p) EXCEPT !.pc = "unlink"]
           \/ /\ op.kind \notin {"touch", "mkdir", "rm"} /\ op.leg = 2
              /\ WithEntry(p) = [op EXCEPT !.leg = 3, !.cl = op.dir]
           \/ /\ op.kind = "write" /\ op.leg # 2 /\ ~Unit(p).dir /\ Unit(p).first # 0
              /\ WithEntry(p) = [Here(p) EXCEPT !.size = Len(op.text), !.pc = "free"]
           \/ /\ op.kind = "write" /\ op.leg # 2 /\ ~Unit(p).dir /\ Unit(p).first = 0
              /\ WithEntry(p) = [Here(p) EXCEPT !.size = Len(op.text), !.pc = "ensure"]
           \/ /\ op.kind \notin {"touch", "mkdir", "rm", "write"} /\ op.leg # 2
              /\ ~(op.kind = "append" /\ Unit(p).dir)
              /\ WithEntry(p) = [Here(p) EXCEPT !.size = Unit(p).size + Len(op.text),
                                                !.off = Unit(p).size, !.pc = "ensure"]
BY DEF WithEntry, Refuses, Here

LEMMA IdleControl == op' = Idle => Control'
BY EmptySeq DEF Idle, Control, Allocating

LEMMA WithoutTypes ==
    ASSUME TypeOK, Control, op.pc = "find", op' = WithoutEntry
    PROVE  op' \in Op /\ Control'
<1>. op \in Op
  BY DEF TypeOK
<1>. op.dir \in Cluster
  BY DEF Op
<1>1. ASSUME op' = [op EXCEPT !.pc = "mark", !.goal = "mkdir"], op.kind = "mkdir"
      PROVE  op' \in Op /\ Control'
  <2>1. op' \in Op
    BY <1>1, Words DEF Op
  <2>. QED
    BY <1>1, <2>1 DEF Control, Allocating, Op
<1>2. ASSUME op' = [op EXCEPT !.leg = 2, !.cl = op.dir], op.kind \notin {"rm", "mkdir"}
      PROVE  op' \in Op /\ Control'
  <2>1. op' \in Op
    BY <1>2, Words DEF Op
  <2>. QED
    BY <1>2, <2>1 DEF Control, Allocating, Op
<1>3. ASSUME op' = [op EXCEPT !.pc = "slot", !.cl = op.dir], op.kind # "mkdir"
      PROVE  op' \in Op /\ Control'
  <2>1. op' \in Op
    BY <1>3, Words DEF Op
  <2>. QED
    BY <1>3, <2>1 DEF Control, Allocating, Op
<1>. QED
  BY <1>1, <1>2, <1>3, WithoutCases, IdleType, IdleControl

LEMMA StartFacts ==
    ASSUME NEW e \in Entry
    PROVE  /\ Start(e) \in Cluster \cup {0}
           /\ e.dir \/ e.first # 0 => Start(e) \in Cluster
           /\ ~e.dir => Start(e) = e.first
           /\ e.first # 0 => Start(e) = e.first
BY Clusters DEF Entry, Start

LEMMA WithTypes ==
    ASSUME TypeOK, Control, op.pc = "find", NEW p \in Pos, IsEntryAt(p), op' = WithEntry(p)
    PROVE  op' \in Op /\ Control'
<1>. DEFINE e == Unit(p)
            s == Start(e)
<1>. op \in Op
  BY DEF TypeOK
<1>. op.dir \in Cluster /\ op.text \in Seq(Values)
  BY DEF Op
<1>. e \in Entry /\ e.size \in Nat /\ Len(op.text) \in Nat
  BY LenProperties DEF IsEntryAt, Entry
<1>. s \in Cluster \cup {0} /\ (e.dir \/ e.first # 0 => s \in Cluster)
  BY StartFacts
<1>1. ASSUME NEW pc \in {"empty", "free", "unlink"}, pc # "unlink" => s \in Cluster,
             op.kind = "rm", op' = [Here(p) EXCEPT !.pc = pc]
      PROVE  op' \in Op /\ Control'
  <2>. HIDE DEF e, s
  <2>0. op' = [op EXCEPT !.pos = p, !.first = s, !.cl = s, !.pc = pc]
    BY <1>1 DEF Here, e, s
  <2>2. pc \in OpPc
    BY <1>1, Words
  <2>1. op' \in Op
    BY <2>0, <2>2 DEF Op
  <2>. QED
    BY <1>1, <2>0, <2>1 DEF Control, Allocating, Op
<1>2. ASSUME op' = [op EXCEPT !.leg = 3, !.cl = op.dir], op.kind \notin {"touch", "mkdir", "rm"}
      PROVE  op' \in Op /\ Control'
  <2>1. op' \in Op
    BY <1>2, Words DEF Op
  <2>. QED
    BY <1>2, <2>1 DEF Control, Allocating, Op
<1>3. ASSUME NEW pc \in {"free", "ensure"}, pc = "free" => s \in Cluster,
             NEW size \in Nat, NEW off \in Nat,
             op.kind \notin {"touch", "mkdir", "rm"},
             op' = [Here(p) EXCEPT !.size = size, !.off = off, !.pc = pc]
      PROVE  op' \in Op /\ Control'
  <2>. HIDE DEF e, s
  <2>0. op' = [op EXCEPT !.pos = p, !.first = s, !.cl = s, !.size = size, !.off = off, !.pc = pc]
    BY <1>3 DEF Here, e, s
  <2>2. pc \in OpPc
    BY <1>3, Words
  <2>1. op' \in Op
    <3>1. [op EXCEPT !.pos = p, !.first = s, !.cl = s] \in Op
      BY DEF Op
    <3>2. PICK h \in Op : op' = [h EXCEPT !.size = size, !.off = off, !.pc = pc]
      BY <1>3, <3>1 DEF Here, e, s
    <3>. QED
      BY <1>3, <2>2, <3>2 DEF Op
  <2>. QED
    BY <1>3, <2>0, <2>1 DEF Control, Allocating, Op
<1>4. ASSUME NEW pc \in {"free", "ensure"}, pc = "free" => s \in Cluster,
             NEW size \in Nat,
             op.kind \notin {"touch", "mkdir", "rm"},
             op' = [Here(p) EXCEPT !.size = size, !.pc = pc]
      PROVE  op' \in Op /\ Control'
  <2>. HIDE DEF e, s
  <2>0. op' = [op EXCEPT !.pos = p, !.first = s, !.cl = s, !.size = size, !.pc = pc]
    BY <1>4 DEF Here, e, s
  <2>2. pc \in OpPc
    BY <1>4, Words
  <2>1. op' \in Op
    <3>1. [op EXCEPT !.pos = p, !.first = s, !.cl = s] \in Op
      BY DEF Op
    <3>2. PICK h \in Op : op' = [h EXCEPT !.size = size, !.pc = pc]
      BY <1>4, <3>1 DEF Here, e, s
    <3>. QED
      BY <1>4, <2>2, <3>2 DEF Op
  <2>. QED
    BY <1>4, <2>0, <2>1 DEF Control, Allocating, Op
<1>5. e.size + Len(op.text) \in Nat
  OBVIOUS
<1>. HIDE DEF s
<1>. QED
  BY <1>1, <1>2, <1>3, <1>4, <1>5, WithCases, IdleType, IdleControl

LEMMA FindTypes ==
    ASSUME TypeOK, Control, Find
    PROVE  op' \in Op /\ Control'
<1>. op.pc = "find" /\ op.cl \in Cluster
  BY DEF Find, FindHit, FindNext, FindNothing, FindBlind, Control
<1>1. CASE FindHit
  <2>1. PICK u \in Slot : FoundAt(u) /\ op' = WithEntry(<<op.cl, u>>)
    BY <1>1 DEF FindHit, Move
  <2>2. <<op.cl, u>> \in Pos /\ IsEntryAt(<<op.cl, u>>)
    BY <2>1, TypeFacts DEF FoundAt, Matches, IsEntryAt
  <2>. QED
    BY <2>1, <2>2, WithTypes
<1>2. CASE FindNext
  <2>. op \in Op
    BY DEF TypeOK
  <2>1. op' = [op EXCEPT !.cl = fat[op.cl]] /\ fat[op.cl] \in Cluster
    BY <1>2 DEF FindNext, Move, GoesOn
  <2>2. op' \in Op
    BY <2>1 DEF Op
  <2>. QED
    BY <2>1, <2>2 DEF Control, Allocating, Op
<1>3. CASE FindNothing \/ FindBlind
  BY <1>3, WithoutTypes DEF FindNothing, FindBlind, Move
<1>. QED
  BY <1>1, <1>2, <1>3 DEF Find

LEMMA AllocTypes ==
    ASSUME TypeOK, Control, Alloc
    PROVE  op' \in Op /\ Control'
<1>. op \in Op
  BY DEF TypeOK
<1>. op.dir \in Cluster /\ op.new \in Cluster \cup {0} /\ op.count \in Nat
  BY DEF Op
<1>1. CASE Mark
  <2>1. PICK c \in Cluster : op' = [op EXCEPT !.new = c, !.pc = "zero"]
    BY <1>1 DEF Mark
  <2>2. op' \in Op
    BY <2>1, Words DEF Op
  <2>. QED
    BY <1>1, <2>1, <2>2 DEF Mark, Control, Allocating, Op
<1>2. CASE NoSpace
  BY <1>2, IdleType, IdleControl DEF NoSpace, Abort
<1>3. CASE ZeroCluster
  <2>. op.new \in Cluster /\ op.pc = "zero"
    BY <1>3 DEF ZeroCluster, Control
  <2>1. CASE op.goal = "mkdir"
    <3>1. op' = [op EXCEPT !.first = op.new, !.pc = "slot", !.cl = op.dir]
      BY <1>3, <2>1 DEF ZeroCluster
    <3>2. op' \in Op
      BY <3>1, Words DEF Op
    <3>. QED
      BY <3>1, <3>2 DEF Control, Allocating, Op
  <2>2. CASE op.goal = "first"
    <3>1. op' = [op EXCEPT !.first = op.new, !.last = op.new, !.count = 1, !.pc = "grow"]
      BY <1>3, <2>2 DEF ZeroCluster
    <3>2. op' \in Op
      BY <3>1, Words DEF Op
    <3>. QED
      BY <3>1, <3>2 DEF Control, Allocating, Op
  <2>3. CASE op.goal \notin {"mkdir", "first"}
    <3>1. op' = [op EXCEPT !.pc = "link"]
      BY <1>3, <2>3 DEF ZeroCluster
    <3>2. op' \in Op
      BY <3>1, Words DEF Op
    <3>3. op.goal \in {"extend", "chain"}
      BY <2>3 DEF Control, Op, OpGoal
    <3>. QED
      BY <3>1, <3>2, <3>3 DEF Control, Allocating, Op
  <2>. QED
    BY <2>1, <2>2, <2>3
<1>4. CASE Link
  <2>. op.new \in Cluster /\ op.pc = "link"
    BY <1>4 DEF Link, Control
  <2>1. CASE op.goal = "extend"
    <3>1. op' = [op EXCEPT !.pc = "slot", !.cl = op.dir]
      BY <1>4, <2>1 DEF Link
    <3>2. op' \in Op
      BY <3>1, Words DEF Op
    <3>3. op.kind = "mkdir" => op.first \in Cluster
      BY <2>1 DEF Control, Allocating
    <3>. QED
      BY <3>1, <3>2, <3>3 DEF Control, Allocating, Op
  <2>2. CASE op.goal # "extend"
    <3>1. op' = [op EXCEPT !.last = op.new, !.count = @ + 1, !.pc = "grow"]
      BY <1>4, <2>2 DEF Link
    <3>2. op.count + 1 \in Nat
      OBVIOUS
    <3>3. op' \in Op
      BY <3>1, <3>2, Words DEF Op
    <3>. QED
      BY <3>1, <3>3 DEF Control, Allocating, Op
  <2>. QED
    BY <2>1, <2>2
<1>. QED
  BY <1>1, <1>2, <1>3, <1>4 DEF Alloc

LEMMA PlaceTypes ==
    ASSUME TypeOK, Control, Place
    PROVE  op' \in Op /\ Control'
<1>. op \in Op
  BY DEF TypeOK
<1>. op.dir \in Cluster
  BY DEF Op
<1>1. CASE SlotHere
  <2>1. PICK u \in Slot : op' = [op EXCEPT !.pos = <<op.cl, u>>, !.pc = "entry"]
    BY <1>1 DEF SlotHere, Move
  <2>2. op.pc = "slot" /\ <<op.cl, u>> \in Pos
    BY <1>1, TypeFacts DEF SlotHere, Control
  <2>3. op' \in Op
    BY <2>1, <2>2, Words DEF Op
  <2>. QED
    BY <2>1, <2>2, <2>3 DEF Control, Allocating, Op
<1>2. CASE SlotNext
  <2>1. op' = [op EXCEPT !.cl = fat[op.cl]] /\ fat[op.cl] \in Cluster /\ op.pc = "slot"
    BY <1>2 DEF SlotNext, Move
  <2>2. op' \in Op
    BY <2>1 DEF Op
  <2>. QED
    BY <2>1, <2>2 DEF Control, Allocating, Op
<1>3. CASE SlotNone
  <2>1. op' = [op EXCEPT !.last = op.dir, !.pc = "tail"] /\ op.pc = "slot"
    BY <1>3 DEF SlotNone, Move
  <2>2. op' \in Op
    BY <2>1, Words DEF Op
  <2>. QED
    BY <2>1, <2>2 DEF Control, Allocating, Op
<1>4. CASE TailNext
  <2>1. op' = [op EXCEPT !.last = fat[op.last]] /\ fat[op.last] \in Cluster /\ op.pc = "tail"
    BY <1>4 DEF TailNext, Move
  <2>2. op' \in Op
    BY <2>1 DEF Op
  <2>. QED
    BY <2>1, <2>2 DEF Control, Allocating, Op
<1>5. CASE TailEnd
  <2>1. op' = [op EXCEPT !.pc = "mark", !.goal = "extend"] /\ op.pc = "tail"
    BY <1>5 DEF TailEnd
  <2>2. op' \in Op
    BY <2>1, Words DEF Op
  <2>. QED
    BY <2>1, <2>2 DEF Control, Allocating, Op
<1>6. CASE WriteEntry
  <2>1. op' = [op EXCEPT !.pc = "bump"] /\ op.pc = "entry"
    BY <1>6 DEF WriteEntry
  <2>2. op' \in Op
    BY <2>1, Words DEF Op
  <2>. QED
    BY <2>1, <2>2 DEF Control, Allocating, Op
<1>7. CASE WriteEntryFails
  BY <1>7, IdleType, IdleControl DEF WriteEntryFails
<1>. QED
  BY <1>1, <1>2, <1>3, <1>4, <1>5, <1>6, <1>7 DEF Place

LEMMA NeededIsNat == TypeOK => Needed \in Nat
<1>. SUFFICES ASSUME TypeOK PROVE Needed \in Nat
  OBVIOUS
<1>. op.size \in Nat /\ SLOTS \in Nat /\ SLOTS > 0
  BY SlotsAssumption DEF TypeOK, Op
<1>. QED
  BY DEF Needed

LEMMA ChunkFacts ==
    ASSUME TypeOK, Control, op.off < SLOTS
    PROVE  Chunk \in Nat /\ op.done + Chunk \in Nat /\ op.done + Chunk <= Len(op.text)
<1>. op.off \in Nat /\ op.done \in Nat /\ Len(op.text) \in Nat /\ SLOTS \in Nat
  BY SlotsAssumption, LenProperties DEF TypeOK, Op
<1>. op.done <= Len(op.text)
  BY DEF Control
<1>. QED
  BY DEF Chunk

LEMMA FillTypes ==
    ASSUME TypeOK, Control, Fill
    PROVE  op' \in Op /\ Control'
<1>. op \in Op
  BY DEF TypeOK
<1>. op.dir \in Cluster /\ op.count \in Nat /\ op.off \in Nat /\ op.first \in Cluster \cup {0}
  BY DEF Op
<1>0. ASSUME NEW next \in {fat[op.cl], EOC}, op.cl \in Cluster
      PROVE  next \in Cluster \cup {0, EOC}
  BY <1>0, TypeFacts, Clusters
<1>1. CASE Ensure
  <2>0. Needed \in Nat /\ Needed + 1 \in Nat /\ op.pc = "ensure"
    BY <1>1, NeededIsNat DEF Ensure
  <2>. DEFINE n == Needed
  <2>. HIDE DEF n
  <2>. n \in Nat /\ n + 1 \in Nat /\ op.pc = "ensure"
    BY <2>0 DEF n
  <2>1. CASE n = 0
    <3>1. op' = [op EXCEPT !.first = 0, !.pc = "commit"]
      BY <1>1, <2>1 DEF Ensure, Move, n
    <3>2. op' \in Op
      BY <3>1, Words DEF Op
    <3>. QED
      BY <3>1, <3>2 DEF Control, Allocating, Op
  <2>2. CASE n # 0 /\ op.first = 0
    <3>1. op' = [op EXCEPT !.target = n, !.goal = "first", !.pc = "mark"]
      BY <1>1, <2>2 DEF Ensure, Move, n
    <3>2. op' \in Op
      BY <3>1, Words DEF Op
    <3>. QED
      BY <3>1, <3>2 DEF Control, Allocating, Op
  <2>3. CASE n # 0 /\ op.first # 0
    <3>1. op' = [op EXCEPT !.target = n + 1, !.last = op.first, !.count = 1, !.pc = "walk"]
      BY <1>1, <2>3 DEF Ensure, Move, n
    <3>2. op' \in Op
      BY <3>1, Words DEF Op
    <3>. QED
      BY <2>3, <3>1, <3>2 DEF Control, Allocating, Op
  <2>. QED
    BY <2>1, <2>2, <2>3
<1>2. CASE WalkNext
  <2>1. PICK pc \in {"grow", "walk"} :
           op' = [op EXCEPT !.last = fat[op.last], !.count = @ + 1, !.pc = pc]
    BY <1>2 DEF WalkNext, Move
  <2>2. fat[op.last] \in Cluster /\ op.pc = "walk"
    BY <1>2 DEF WalkNext
  <2>3. pc \in OpPc /\ op.count + 1 \in Nat
    BY Words
  <2>4. op' \in Op
    BY <2>1, <2>2, <2>3 DEF Op
  <2>. QED
    BY <2>1, <2>2, <2>4 DEF Control, Allocating, Op
<1>3. CASE WalkEnd
  <2>1. op' = [op EXCEPT !.pc = "grow"] /\ op.pc = "walk"
    BY <1>3 DEF WalkEnd
  <2>2. op' \in Op
    BY <2>1, Words DEF Op
  <2>. QED
    BY <2>1, <2>2 DEF Control, Allocating, Op
<1>4. CASE Grow
  <2>1. CASE op.count < op.target
    <3>1. op' = [op EXCEPT !.goal = "chain", !.pc = "mark"] /\ op.pc = "grow"
      BY <1>4, <2>1 DEF Grow, Move
    <3>2. op' \in Op
      BY <3>1, Words DEF Op
    <3>. QED
      BY <3>1, <3>2 DEF Control, Allocating, Op
  <2>2. CASE ~(op.count < op.target)
    <3>1. op' = [op EXCEPT !.cl = op.first, !.pc = "data"] /\ op.pc = "grow"
      BY <1>4, <2>2 DEF Grow, Move
    <3>2. op' \in Op
      BY <3>1, Words DEF Op
    <3>. QED
      BY <3>1, <3>2 DEF Control, Allocating, Op
  <2>. QED
    BY <2>1, <2>2
<1>5. CASE Seek
  <2>1. PICK next \in {fat[op.cl], EOC} : op' = [op EXCEPT !.off = @ - SLOTS, !.cl = next]
    BY <1>5 DEF Seek, Move
  <2>2. op.pc = "data" /\ op.cl \in Cluster /\ op.off - SLOTS \in Nat
    BY <1>5, SlotsAssumption DEF Seek
  <2>3. op' \in Op
    BY <1>0, <2>1, <2>2 DEF Op
  <2>. QED
    BY <2>1, <2>2, <2>3 DEF Control, Allocating, Op
<1>6. CASE WriteData
  <2>. DEFINE d == op.done + Chunk
  <2>1. op.pc = "data" /\ op.cl \in Cluster /\ d \in Nat /\ d <= Len(op.text)
    BY <1>6, ChunkFacts DEF WriteData
  <2>2. \/ op' = [op EXCEPT !.done = d, !.pc = "commit"]
        \/ \E next \in {fat[op.cl], EOC} : op' = [op EXCEPT !.done = d, !.off = 0, !.cl = next]
    BY <1>6 DEF WriteData
  <2>. HIDE DEF d
  <2>3. CASE op' = [op EXCEPT !.done = d, !.pc = "commit"]
    <3>2. op' \in Op
      BY <2>1, <2>3, Words DEF Op
    <3>. QED
      BY <2>1, <2>3, <3>2 DEF Control, Allocating, Op
  <2>4. ASSUME NEW next \in {fat[op.cl], EOC},
               op' = [op EXCEPT !.done = d, !.off = 0, !.cl = next]
        PROVE  op' \in Op /\ Control'
    <3>2. op' \in Op
      BY <1>0, <2>1, <2>4 DEF Op
    <3>. QED
      BY <2>1, <2>4, <3>2 DEF Control, Allocating, Op
  <2>. QED
    BY <2>2, <2>3, <2>4
<1>7. CASE WriteDataShort
  BY <1>7, IdleType, IdleControl DEF WriteDataShort, Abort
<1>8. CASE Commit
  <2>1. op' = [op EXCEPT !.loose = FALSE, !.pc = "bump"] /\ op.pc = "commit"
    BY <1>8 DEF Commit
  <2>2. op' \in Op
    BY <2>1, Words DEF Op
  <2>. QED
    BY <2>1, <2>2 DEF Control, Allocating, Op
<1>. QED
  BY <1>1, <1>2, <1>3, <1>4, <1>5, <1>6, <1>7, <1>8 DEF Fill

LEMMA RemoveTypes ==
    ASSUME TypeOK, Control, Remove
    PROVE  op' \in Op /\ Control'
<1>. op \in Op
  BY DEF TypeOK
<1>1. CASE EmptyNo
  BY <1>1, IdleType, IdleControl DEF EmptyNo, Abort
<1>2. CASE EmptyNext
  <2>1. op' = [op EXCEPT !.cl = fat[op.cl]] /\ fat[op.cl] \in Cluster /\ op.pc = "empty"
    BY <1>2 DEF EmptyNext, Move, GoesOn
  <2>2. op' \in Op
    BY <2>1 DEF Op
  <2>. QED
    BY <2>1, <2>2 DEF Control, Allocating, Op
<1>3. CASE EmptyYes
  <2>1. op' = [op EXCEPT !.cl = op.first, !.pc = "free"] /\ op.pc = "empty"
    BY <1>3 DEF EmptyYes
  <2>2. op' \in Op
    BY <2>1, Words DEF Op
  <2>. QED
    BY <2>1, <2>2 DEF Control, Allocating, Op
<1>4. CASE FreeCluster
  <2>1. op.pc = "free" /\ op.cl \in Cluster
    BY <1>4 DEF FreeCluster, Control
  <2>2. PICK next \in {fat[op.cl], EOC} :
           op' = IF next \in Cluster THEN [op EXCEPT !.cl = next, !.loose = TRUE]
                 ELSE IF op.kind = "write"
                      THEN [op EXCEPT !.first = 0, !.pc = "ensure", !.loose = TRUE]
                      ELSE [op EXCEPT !.pc = "unlink", !.loose = TRUE]
    BY <1>4 DEF FreeCluster
  <2>3. CASE next \in Cluster
    <3>1. op' = [op EXCEPT !.cl = next, !.loose = TRUE]
      BY <2>2, <2>3
    <3>2. op' \in Op
      BY <2>3, <3>1 DEF Op
    <3>. QED
      BY <2>1, <2>3, <3>1, <3>2 DEF Control, Allocating, Op
  <2>4. CASE next \notin Cluster /\ op.kind = "write"
    <3>1. op' = [op EXCEPT !.first = 0, !.pc = "ensure", !.loose = TRUE]
      BY <2>2, <2>4
    <3>2. op' \in Op
      BY <3>1, Words DEF Op
    <3>. QED
      BY <2>1, <3>1, <3>2 DEF Control, Allocating, Op
  <2>5. CASE next \notin Cluster /\ op.kind # "write"
    <3>1. op' = [op EXCEPT !.pc = "unlink", !.loose = TRUE]
      BY <2>2, <2>5
    <3>2. op' \in Op
      BY <3>1, Words DEF Op
    <3>. QED
      BY <2>1, <3>1, <3>2 DEF Control, Allocating, Op
  <2>. QED
    BY <2>3, <2>4, <2>5
<1>5. CASE Unlink
  <2>1. op' = [op EXCEPT !.loose = FALSE, !.pc = "bump"] /\ op.pc = "unlink"
    BY <1>5 DEF Unlink
  <2>2. op' \in Op
    BY <2>1, Words DEF Op
  <2>. QED
    BY <2>1, <2>2 DEF Control, Allocating, Op
<1>. QED
  BY <1>1, <1>2, <1>3, <1>4, <1>5 DEF Remove

LEMMA HeadsAreClusters == TypeOK => Heads \subseteq Cluster
<1>. SUFFICES ASSUME TypeOK, NEW p \in Pos, IsEntryAt(p), Unit(p).dir
              PROVE  Start(Unit(p)) \in Cluster
  BY Clusters DEF Heads
<1>. QED
  BY StartFacts DEF IsEntryAt

LEMMA BeginTypes ==
    ASSUME TypeOK, NEW k \in {"touch", "mkdir", "write", "append", "rm"}, NEW d \in Cluster,
           NEW n \in Names, NEW t \in Seq(Values), Begin(k, d, n, t)
    PROVE  op' \in Op /\ Control'
<1>1. PICK leg \in {1, 2} :
         /\ op' = [Idle EXCEPT !.kind = k, !.leg = leg, !.pc = "find", !.dir = d,
                               !.cl = d, !.name = n, !.text = t]
         /\ k = "touch" <=> leg = 2
  <2>1. CASE k = "touch"
    BY <2>1 DEF Begin
  <2>2. CASE k # "touch"
    BY <2>2 DEF Begin
  <2>. QED
    BY <2>1, <2>2
<1>2. k \in OpKind /\ leg \in OpLeg
  BY Words
<1>3. op' \in Op
  <2>. HIDE DEF Idle
  <2>. QED
    BY <1>1, <1>2, IdleType, Words DEF Op
<1>4. Len(t) \in Nat
  BY LenProperties
<1>5. /\ op'.kind = k /\ op'.leg = leg /\ op'.pc = "find" /\ op'.cl = d
      /\ op'.name = n /\ op'.text = t /\ op'.done = 0
  BY <1>1 DEF Idle
<1>6. k \in {"mkdir", "rm"} => op'.leg = 1
  BY <1>1, <1>5
<1>7. k = "touch" => op'.leg = 2
  BY <1>1, <1>5
<1>. HIDE <1>1
<1>. QED
  BY <1>3, <1>4, <1>5, <1>6, <1>7 DEF Control, Allocating

LEMMA OpTypes ==
    ASSUME TypeOK, Control, Next
    PROVE  op' \in Op /\ Control'
<1>. op \in Op
  BY DEF TypeOK
<1>. op.dir \in Cluster
  BY DEF Op
<1>1. CASE Call
  <2>1. PICK d \in Heads \cup {cwd}, n \in Names :
           \/ \E k \in {"touch", "mkdir", "rm"} : Begin(k, d, n, <<>>)
           \/ \E t \in Texts : Begin("write", d, n, t)
           \/ \E t \in Texts \ {<<>>} : Begin("append", d, n, t)
    BY <1>1 DEF Call
  <2>2. d \in Cluster
    BY HeadsAreClusters DEF TypeOK
  <2>3. <<>> \in Seq(Values) /\ Texts \subseteq Seq(Values)
    BY EmptySeq, TextsAssumption
  <2>. QED
    BY <2>1, <2>2, <2>3, BeginTypes
<1>2. CASE \E d \in Heads : Cd(d)
  BY <1>2 DEF Cd, Control, Allocating
<1>3. CASE Bump
  <2>1. CASE op' = Idle
    BY <2>1, IdleType, IdleControl
  <2>2. CASE op.leg = 2 /\ op.kind # "touch"
    <3>1. op' = [op EXCEPT !.leg = 3, !.pc = "find", !.cl = op.dir] /\ op.pc = "bump"
      BY <1>3, <2>2 DEF Bump
    <3>2. op' \in Op
      BY <3>1, Words DEF Op
    <3>. QED
      BY <2>2, <3>1, <3>2 DEF Control, Allocating, Op
  <2>. QED
    BY <1>3, <2>1, <2>2 DEF Bump
<1>4. CASE Fail \/ PowerCut
  BY <1>4, IdleType, IdleControl DEF Fail, PowerCut, Abort
<1>. QED
  BY <1>1, <1>2, <1>3, <1>4, FindTypes, AllocTypes, PlaceTypes, FillTypes, RemoveTypes
     DEF Next, Step

-----------------------------------------------------------------------------
(* What a write leaves in the cluster it goes to.                          *)

LEMMA SetFacts ==
    ASSUME TypeOK, NEW p \in Pos, NEW b \in Bytes \cup Entry
    PROVE  /\ Set(p, b) \in [Cluster -> [Slot -> Bytes \cup Entry]]
           /\ Set(p, b)[p[1]][p[2]] = b
           /\ \A q \in Pos : q # p => Set(p, b)[q[1]][q[2]] = mem[q[1]][q[2]]
           /\ \A c \in Cluster : c # p[1] => Set(p, b)[c] = mem[c]
<1>. p[1] \in Cluster /\ p[2] \in Slot /\ p = <<p[1], p[2]>>
  BY DEF Pos
<1>1. Set(p, b) = [mem EXCEPT ![p[1]] = [mem[p[1]] EXCEPT ![p[2]] = b]]
  BY DEF Set
<1>2. mem \in [Cluster -> [Slot -> Bytes \cup Entry]]
  BY DEF TypeOK
<1>3. ASSUME NEW q \in Pos, q # p
      PROVE  Set(p, b)[q[1]][q[2]] = mem[q[1]][q[2]]
  <2>. q[1] \in Cluster /\ q[2] \in Slot /\ q = <<q[1], q[2]>>
    BY DEF Pos
  <2>1. CASE q[1] # p[1]
    BY <1>1, <1>2, <2>1
  <2>2. CASE q[1] = p[1] /\ q[2] # p[2]
    BY <1>1, <1>2, <2>2
  <2>. QED
    BY <1>3, <2>1, <2>2
<1>. QED
  BY <1>1, <1>2, <1>3

(* The bytes fat32_write puts into one cluster come from the text.         *)
Filled == [u \in Slot |-> IF u \in op.off + 1 .. op.off + Chunk
                          THEN op.text[op.done + u - op.off] ELSE mem[op.cl][u]]

LEMMA FilledFacts ==
    ASSUME TypeOK, Control, op.off < SLOTS, op.cl \in Cluster
    PROVE  /\ Filled \in [Slot -> Bytes \cup Entry]
           /\ \A u \in Slot : Filled[u] \in Entry => Filled[u] = mem[op.cl][u]
<1>. op.off \in Nat /\ op.done \in Nat /\ op.text \in Seq(Values)
  BY DEF TypeOK, Op
<1>. mem[op.cl] \in [Slot -> Bytes \cup Entry]
  BY DEF TypeOK
<1>. Slot \subseteq Nat
  BY SlotsAssumption DEF Slot
<1>. Chunk \in Nat /\ op.done + Chunk <= Len(op.text)
  BY ChunkFacts
<1>1. ASSUME NEW u \in Slot, u \in op.off + 1 .. op.off + Chunk
      PROVE  op.text[op.done + u - op.off] \in Values
  <2>1. op.done + u - op.off \in 1 .. Len(op.text)
    BY <1>1, LenProperties
  <2>. QED
    BY <2>1, ElementOfSeq
<1>2. Values \subseteq Bytes /\ \A b \in Values : b \notin Entry
  BY UnitsAssumption DEF Bytes
<1>. QED
  BY <1>1, <1>2 DEF Filled

(* What the writing actions do to the memory.                              *)
LEMMA NewEntry ==
    ASSUME TypeOK, Control, WriteEntry
    PROVE  [name |-> op.name, dir |-> op.kind = "mkdir", first |-> op.first, size |-> 0] \in Entry
<1>. op.name \in Names /\ op.first \in Cluster \cup {0}
  BY DEF WriteEntry, Control, TypeOK, Op
<1>. QED
  BY DEF Entry

Settled(p) == IF IsEntryAt(p) THEN [Unit(p) EXCEPT !.first = op.first, !.size = op.size]
              ELSE Orphan

LEMMA SettledType ==
    ASSUME TypeOK, NEW p \in Pos
    PROVE  /\ Settled(p) \in Bytes \cup Entry
           /\ IsEntryAt(p) => /\ Settled(p) \in Entry
                              /\ Settled(p).dir = Unit(p).dir
                              /\ Settled(p).first = op.first
           /\ ~IsEntryAt(p) => Settled(p) \notin Entry
<1>. op.first \in Cluster \cup {0} /\ op.size \in Nat
  BY DEF TypeOK, Op
<1>1. Orphan \in Bytes /\ Orphan \notin Entry
  BY UnitsAssumption DEF Bytes
<1>. QED
  BY <1>1 DEF Settled, IsEntryAt, Entry

LEMMA MemType ==
    ASSUME TypeOK, Control, Next
    PROVE  mem' \in [Cluster -> [Slot -> Bytes \cup Entry]]
<1>. op.pos \in Pos /\ mem \in [Cluster -> [Slot -> Bytes \cup Entry]]
  BY DEF TypeOK, Op
<1>. {Zero, Deleted, Orphan} \subseteq Bytes
  BY DEF Bytes
<1>1. CASE ZeroCluster
  BY <1>1 DEF ZeroCluster
<1>2. CASE WriteEntry
  BY <1>2, NewEntry, SetFacts DEF WriteEntry
<1>3. CASE WriteEntryFails
  BY <1>3, SetFacts DEF WriteEntryFails
<1>4. CASE WriteData
  <2>1. mem' = [mem EXCEPT ![op.cl] = Filled] /\ Filled \in [Slot -> Bytes \cup Entry]
    BY <1>4, FilledFacts DEF WriteData, Filled
  <2>. QED
    BY <2>1
<1>5. CASE Commit
  BY <1>5, SettledType, SetFacts DEF Commit, Settled
<1>6. CASE Unlink
  BY <1>6, SetFacts DEF Unlink
<1>7. CASE UNCHANGED mem
  BY <1>7
<1>8. Next /\ ~ZeroCluster /\ ~WriteEntry /\ ~WriteEntryFails /\ ~WriteData /\ ~Commit /\ ~Unlink
         => UNCHANGED mem
  BY DEF Next, Call, Begin, Cd, Step, PowerCut, Find, FindHit, FindNext, FindNothing, FindBlind,
         Alloc, Mark, NoSpace, Link, Place, SlotHere, SlotNext, SlotNone, TailNext, TailEnd,
         Fill, Ensure, WalkNext, WalkEnd, Grow, Seek, WriteDataShort, Remove, EmptyNo, EmptyNext,
         EmptyYes, FreeCluster, Bump, Fail, Move, Abort
<1>. QED
  BY <1>1, <1>2, <1>3, <1>4, <1>5, <1>6, <1>7, <1>8

LEMMA FatType ==
    ASSUME TypeOK, Control, Next
    PROVE  fat' \in [Cluster -> Cluster \cup {FREE, EOC}]
<1>. fat \in [Cluster -> Cluster \cup {FREE, EOC}] /\ op.cl \in Cluster \cup {0, EOC}
  BY DEF TypeOK, Op
<1>1. CASE Mark
  BY <1>1 DEF Mark
<1>2. CASE Link
  BY <1>2 DEF Link, Control
<1>3. CASE FreeCluster
  BY <1>3 DEF FreeCluster
<1>4. CASE UNCHANGED fat
  BY <1>4
<1>5. Next /\ ~Mark /\ ~Link /\ ~FreeCluster => UNCHANGED fat
  BY DEF Next, Call, Begin, Cd, Step, PowerCut, Find, FindHit, FindNext, FindNothing, FindBlind,
         Alloc, ZeroCluster, NoSpace, Place, SlotHere, SlotNext, SlotNone, TailNext, TailEnd,
         WriteEntry, WriteEntryFails, Fill, Ensure, WalkNext, WalkEnd, Grow, Seek, WriteData,
         WriteDataShort, Commit, Remove, EmptyNo, EmptyNext, EmptyYes, Unlink, Bump, Fail,
         Move, Abort
<1>. QED
  BY <1>1, <1>2, <1>3, <1>4, <1>5

LEMMA DirsType ==
    ASSUME TypeOK, Control, Next
    PROVE  dirs' \subseteq Cluster
<1>. dirs \subseteq Cluster
  BY DEF TypeOK
<1>1. CASE WriteEntry
  <2>1. op.kind = "mkdir" => op.first \in Cluster
    BY <1>1 DEF WriteEntry, Control
  <2>. QED
    BY <1>1, <2>1 DEF WriteEntry
<1>2. CASE Link
  BY <1>2 DEF Link, Control
<1>3. CASE FreeCluster
  BY <1>3 DEF FreeCluster
<1>4. CASE UNCHANGED dirs
  BY <1>4
<1>5. Next /\ ~WriteEntry /\ ~Link /\ ~FreeCluster => UNCHANGED dirs
  BY DEF Next, Call, Begin, Cd, Step, PowerCut, Find, FindHit, FindNext, FindNothing, FindBlind,
         Alloc, ZeroCluster, NoSpace, Mark, Place, SlotHere, SlotNext, SlotNone, TailNext, TailEnd,
         WriteEntryFails, Fill, Ensure, WalkNext, WalkEnd, Grow, Seek, WriteData,
         WriteDataShort, Commit, Remove, EmptyNo, EmptyNext, EmptyYes, Unlink, Bump, Fail,
         Move, Abort
<1>. QED
  BY <1>1, <1>2, <1>3, <1>4, <1>5

LEMMA ExpectType ==
    ASSUME TypeOK, Control, Next
    PROVE  expect' \in [Pos -> Seq(Values)]
<1>. expect \in [Pos -> Seq(Values)] /\ op.text \in Seq(Values) /\ op.pos \in Pos
  BY DEF TypeOK, Op
<1>1. CASE WriteEntry
  BY <1>1, EmptySeq DEF WriteEntry
<1>2. CASE Commit
  <2>1. expect[op.pos] \in Seq(Values)
    OBVIOUS
  <2>2. expect[op.pos] \o op.text \in Seq(Values)
    BY <2>1, ConcatProperties
  <2>. QED
    BY <1>2, <2>2 DEF Commit
<1>3. CASE UNCHANGED expect
  BY <1>3
<1>4. Next /\ ~WriteEntry /\ ~Commit => UNCHANGED expect
  BY DEF Next, Call, Begin, Cd, Step, PowerCut, Find, FindHit, FindNext, FindNothing, FindBlind,
         Alloc, ZeroCluster, NoSpace, Mark, Link, Place, SlotHere, SlotNext, SlotNone, TailNext,
         TailEnd, WriteEntryFails, Fill, Ensure, WalkNext, WalkEnd, Grow, Seek, WriteData,
         WriteDataShort, Remove, EmptyNo, EmptyNext, EmptyYes, FreeCluster, Unlink, Bump, Fail,
         Move, Abort
<1>. QED
  BY <1>1, <1>2, <1>3, <1>4

LEMMA CountType ==
    ASSUME TypeOK, Control, Next
    PROVE  /\ cwd' \in Cluster /\ dirty' \in BOOLEAN /\ ops' \in 0 .. MaxOps
           /\ faults' \subseteq {"cut", "hurt", "blind"}
           /\ faults \subseteq faults'
<1>. cwd \in Cluster /\ dirty \in BOOLEAN /\ ops \in 0 .. MaxOps /\ MaxOps \in Nat
  BY OpsAssumption DEF TypeOK
<1>. faults \subseteq {"cut", "hurt", "blind"}
  BY DEF TypeOK
<1>1. cwd' \in Cluster
  BY Clusters, HeadsAreClusters
     DEF Next, Call, Begin, Cd, Step, PowerCut, Find, FindHit, FindNext, FindNothing, FindBlind,
         Alloc, ZeroCluster, NoSpace, Mark, Link, Place, SlotHere, SlotNext, SlotNone, TailNext,
         TailEnd, WriteEntry, WriteEntryFails, Fill, Ensure, WalkNext, WalkEnd, Grow, Seek,
         WriteData, WriteDataShort, Commit, Remove, EmptyNo, EmptyNext, EmptyYes, FreeCluster,
         Unlink, Bump, Fail, Move, Abort
<1>2. dirty' \in BOOLEAN
  BY DEF Next, Call, Begin, Cd, Step, PowerCut, Find, FindHit, FindNext, FindNothing, FindBlind,
         Alloc, ZeroCluster, NoSpace, Mark, Link, Place, SlotHere, SlotNext, SlotNone, TailNext,
         TailEnd, WriteEntry, WriteEntryFails, Fill, Ensure, WalkNext, WalkEnd, Grow, Seek,
         WriteData, WriteDataShort, Commit, Remove, EmptyNo, EmptyNext, EmptyYes, FreeCluster,
         Unlink, Bump, Fail, Move, Abort
<1>3. ops' \in 0 .. MaxOps
  <2>1. ops' = ops \/ (ops < MaxOps /\ ops' = ops + 1)
    BY DEF Next, Call, Begin, Cd, Step, PowerCut, Find, FindHit, FindNext, FindNothing, FindBlind,
         Alloc, ZeroCluster, NoSpace, Mark, Link, Place, SlotHere, SlotNext, SlotNone, TailNext,
         TailEnd, WriteEntry, WriteEntryFails, Fill, Ensure, WalkNext, WalkEnd, Grow, Seek,
         WriteData, WriteDataShort, Commit, Remove, EmptyNo, EmptyNext, EmptyYes, FreeCluster,
         Unlink, Bump, Fail, Move, Abort
  <2>. QED
    BY <2>1
<1>4. \/ faults' = faults
      \/ \E f \in {"cut", "hurt", "blind"} : faults' = faults \cup {f}
      \/ faults' = faults \cup {"cut", "hurt"}
  BY DEF Next, Call, Begin, Cd, Step, PowerCut, Find, FindHit, FindNext, FindNothing, FindBlind,
         Alloc, ZeroCluster, NoSpace, Mark, Link, Place, SlotHere, SlotNext, SlotNone, TailNext,
         TailEnd, WriteEntry, WriteEntryFails, Fill, Ensure, WalkNext, WalkEnd, Grow, Seek,
         WriteData, WriteDataShort, Commit, Remove, EmptyNo, EmptyNext, EmptyYes, FreeCluster,
         Unlink, Bump, Fail, Move, Abort, Cut, Noting
<1>. QED
  BY <1>1, <1>2, <1>3, <1>4

LEMMA InitTypes == Init => TypeOK /\ Control
<1>. SUFFICES ASSUME Init PROVE TypeOK /\ Control
  OBVIOUS
<1>1. op \in Op
  BY IdleType DEF Init
<1>2. mem \in [Cluster -> [Slot -> Bytes \cup Entry]]
  BY DEF Init, Bytes
<1>3. fat \in [Cluster -> Cluster \cup {FREE, EOC}] /\ dirs \subseteq Cluster /\ cwd \in Cluster
  BY Clusters DEF Init
<1>4. expect \in [Pos -> Seq(Values)]
  BY EmptySeq DEF Init
<1>5. dirty \in BOOLEAN /\ ops \in 0 .. MaxOps /\ faults \subseteq {"cut", "hurt", "blind"}
  <2>1. dirty = FALSE /\ ops = 0 /\ faults = {}
    BY DEF Init
  <2>2. 0 \in 0 .. MaxOps
    BY OpsAssumption
  <2>. QED
    BY <2>1, <2>2
<1>6. TypeOK
  BY <1>1, <1>2, <1>3, <1>4, <1>5 DEF TypeOK
<1>7. Control
  BY EmptySeq DEF Init, Idle, Control, Allocating
<1>. QED
  BY <1>6, <1>7

LEMMA StepTypes ==
    ASSUME TypeOK, Control, [Next]_vars
    PROVE  TypeOK' /\ Control' /\ faults \subseteq faults'
<1>1. CASE Next
  <2>1. TypeOK'
    BY <1>1, OpTypes, FatType, MemType, DirsType, ExpectType, CountType DEF TypeOK
  <2>. QED
    BY <1>1, <2>1, OpTypes, CountType
<1>2. CASE UNCHANGED vars
  BY <1>2 DEF vars, TypeOK, Control, Allocating
<1>. QED
  BY <1>1, <1>2

(* Every field of the running operation stays in its range, the entry it   *)
(* builds is an entry, and no step reads a cluster that does not exist.    *)
THEOREM TypesHold == Spec => []TypeOK
<1>1. Init => TypeOK /\ Control
  BY InitTypes
<1>2. TypeOK /\ Control /\ [Next]_vars => (TypeOK /\ Control)'
  BY StepTypes
<1>. QED
  BY <1>1, <1>2, PTL DEF Spec

-----------------------------------------------------------------------------
(* Steps that leave the chains alone.  Such a step is harmless when it     *)
(* writes no entry that leads anywhere, and if the running operation's own *)
(* entry was exempt, it stays exempt or is gone.                           *)

Harmless ==
    /\ fat' = fat
    /\ dirs' = dirs
    /\ \A p \in Pos : p[1] \in dirs /\ mem'[p[1]][p[2]] \in Entry =>
          \/ mem'[p[1]][p[2]] = mem[p[1]][p[2]]
          \/ ~mem'[p[1]][p[2]].dir /\ mem'[p[1]][p[2]].first = 0
    /\ op.loose => \/ op'.loose /\ op'.pos = op.pos
                   \/ mem'[op.pos[1]][op.pos[2]] \notin Entry

(* No entry begins to lead anywhere.                                       *)
PointersStay == \A p \in Pointers' : /\ p \in Pointers
                                     /\ mem'[p[1]][p[2]] = mem[p[1]][p[2]]

LEMMA UnitPrime == \A p \in Pos : Unit(p)' = mem'[p[1]][p[2]]
BY DEF Unit

LEMMA HarmlessKeepsPointers ==
    ASSUME TypeOK, TypeOK', Harmless
    PROVE  PointersStay
BY DEF Harmless, PointersStay, Pointers, Unit, IsEntryAt, TypeOK, Op

LEMMA HarmlessKeepsVolume ==
    ASSUME TypeOK, TypeOK', Volume, Harmless
    PROVE  Volume'
<1>1. PointersStay
  BY HarmlessKeepsPointers
<1>. fat' = fat /\ dirs' = dirs
  BY DEF Harmless
<1>2. RootStays' /\ LinksAreSound'
  BY DEF Volume, RootStays, LinksAreSound, Unlinked
<1>3. DirsAreInUse'
  BY UnitPrime DEF Volume, DirsAreInUse, Harmless, IsEntryAt, Unit
<1>4. PointersAreSound'
  BY <1>1 DEF Volume, PointersAreSound, PointersStay, Unit, Unlinked
<1>. QED
  BY <1>2, <1>3, <1>4 DEF Volume

(* Clusters nobody knew are still unknown.                                 *)
LEMMA HarmlessKeepsSecrets ==
    ASSUME TypeOK, TypeOK', Harmless, NEW c
    PROVE  /\ Fresh(c) => Fresh(c)'
           /\ CutOff(c) /\ op'.pos = op.pos => CutOff(c)'
<1>1. PointersStay
  BY HarmlessKeepsPointers
<1>. QED
  BY <1>1 DEF Harmless, PointersStay, Unit, Fresh, CutOff, Unlinked, Unpointed, UnpointedElse

LEMMA IdleRunning == op' = Idle => Running'
BY DEF Idle, Running, PlaceIsDirectory, NewDirectory, NewCluster, NewChain, OldChain,
       Placing, Filling, Allocating

(* An operation that stops with nothing let loose.                         *)
LEMMA StopKeeps ==
    ASSUME TypeOK, TypeOK', Volume, op' = Idle, Cut, "hurt" \notin faults',
           UNCHANGED <<fat, mem, dirs>>
    PROVE  Volume' /\ Running'
<1>1. ~op.loose
  BY DEF Cut
<1>2. Harmless
  BY <1>1 DEF Harmless
<1>. QED
  BY <1>2, HarmlessKeepsVolume, IdleRunning

-----------------------------------------------------------------------------
(* Finding the entry.                                                      *)

(* What an entry leads to is out of reach once that entry is set aside.    *)
LEMMA EntryHolds ==
    ASSUME TypeOK, Volume, ~op.loose, NEW p \in Pos, p[1] \in dirs, IsEntryAt(p)
    PROVE  LET e == Unit(p)
           IN  /\ e.dir => e.first # 0
               /\ e.first # 0 => /\ Start(e) = e.first
                                 /\ e.first \in Cluster /\ e.first # Root
                                 /\ fat[e.first] # FREE
                                 /\ Unlinked(e.first)
                                 /\ \A q \in Pointers : q # p => Unit(q).first # e.first
                                 /\ e.dir <=> e.first \in dirs
<1>1. Unit(p) \in Entry
  BY DEF IsEntryAt
<1>2. Unit(p).dir => Unit(p).first # 0
  BY DEF Volume, DirsAreInUse
<1>3. ASSUME Unit(p).first # 0
      PROVE  p \in Pointers
  BY <1>3 DEF Pointers
<1>4. Unit(p).first # 0 => Start(Unit(p)) = Unit(p).first /\ Unit(p).first \in Cluster
  BY <1>1, StartFacts, EntryFacts
<1>. QED
  BY <1>2, <1>3, <1>4 DEF Volume, PointersAreSound

LEMMA FindHitKeeps ==
    ASSUME TypeOK, TypeOK', Control, Volume, Running, FindHit
    PROVE  Volume' /\ Running'
<1>. op.pc = "find" /\ UNCHANGED <<fat, mem, dirs>>
  BY DEF FindHit, Move
<1>. op.cl \in dirs /\ op.dir \in dirs /\ ~op.loose
  BY DEF Running, PlaceIsDirectory, OldChain, Placing, Filling, Allocating
<1>1. PICK u \in Slot : FoundAt(u) /\ op' = WithEntry(<<op.cl, u>>)
  BY DEF FindHit, Move
<1>p. PICK p \in Pos : p = <<op.cl, u>>
  BY TypeFacts
<1>. DEFINE e == Unit(p)
<1>2. p \in Pos /\ p[1] \in dirs /\ IsEntryAt(p)
  BY <1>1, <1>p, TypeFacts DEF FoundAt, Matches, IsEntryAt
<1>3. Harmless /\ Volume'
  BY HarmlessKeepsVolume DEF Harmless
<1>4. /\ e.dir => e.first # 0
      /\ e.first # 0 => /\ Start(e) = e.first
                        /\ e.first \in Cluster /\ e.first # Root
                        /\ fat[e.first] # FREE
                        /\ Unlinked(e.first)
                        /\ \A q \in Pointers : q # p => Unit(q).first # e.first
                        /\ e.dir <=> e.first \in dirs
  BY <1>2, EntryHolds
<1>5. \A q \in Pointers' : q \in Pointers /\ Unit(q)' = Unit(q)
  BY <1>3, HarmlessKeepsPointers DEF PointersStay, Unit
<1>6. ~e.dir => Start(e) = e.first
  BY <1>2, StartFacts DEF IsEntryAt
<1>7. op \in Op /\ op' \in Op
  BY DEF TypeOK
<1>8. op' = WithEntry(p) /\ UNCHANGED mem
  BY <1>1, <1>p DEF FindHit, Move
<1>9. Unit(p)' = Unit(p) /\ IsEntryAt(p)'
  BY <1>2, <1>8 DEF Unit, IsEntryAt
<1>10. CASE op' = Idle
  BY <1>3, <1>10, IdleRunning
<1>11. ASSUME NEW pc \in {"empty", "free", "unlink"}, op.kind = "rm",
              pc = "empty" => e.dir, pc = "free" => ~e.dir /\ e.first # 0,
              op' = [Here(p) EXCEPT !.pc = pc]
       PROVE  Running'
  <2>1. /\ op'.kind = "rm" /\ op'.pc = pc /\ op'.pos = p /\ op'.first = Start(e) /\ op'.cl = Start(e)
        /\ op'.leg = 1 /\ ~op'.loose
    BY <1>7, <1>11 DEF Here, Op, Control
  <2>. QED
    BY <1>4, <1>5, <1>6, <1>11, <2>1, Clusters
       DEF Running, PlaceIsDirectory, NewDirectory, NewCluster, NewChain, OldChain,
           Placing, Filling, Allocating, CutOff, Unlinked, UnpointedElse
<1>12. ASSUME op.kind \notin {"touch", "mkdir", "rm"}, op' = [op EXCEPT !.leg = 3, !.cl = op.dir]
       PROVE  Running'
  <2>1. /\ op'.kind = op.kind /\ op'.pc = "find" /\ op'.leg = 3 /\ op'.cl = op.dir
        /\ op'.dir = op.dir /\ op'.first = op.first /\ ~op'.loose /\ op.first = 0
    BY <1>7, <1>12 DEF Op, Running, NewDirectory, Placing
  <2>. QED
    BY <1>12, <2>1
       DEF Running, PlaceIsDirectory, NewDirectory, NewCluster, NewChain, OldChain,
           Placing, Filling, Allocating
<1>13. ASSUME NEW pc \in {"free", "ensure"}, op.kind \in {"write", "append"}, op.leg # 2,
              pc = "free" => op.kind = "write" /\ e.first # 0, ~e.dir,
              op'.kind = op.kind, op'.leg = op.leg, op'.pc = pc, op'.pos = p,
              op'.first = Start(e), op'.cl = Start(e), ~op'.loose
       PROVE  Running'
  <2>1. op'.first = e.first /\ op'.cl = e.first
    BY <1>6, <1>13
  <2>2. op'.pos[1] \in dirs
    BY <1>2, <1>13
  <2>3. e.first # 0 => CutOff(op.first)'
    BY <1>4, <1>5, <1>13, <2>1 DEF CutOff, Unlinked, UnpointedElse
  <2>4. e.first # 0 => CutOff(op.cl)'
    BY <1>4, <1>5, <1>13, <2>1 DEF CutOff, Unlinked, UnpointedElse
  <2>5. Unit(op.pos)' = e
    BY <1>9, <1>13
  <2>. QED
    BY <1>4, <1>13, <2>1, <2>3, <2>4, <2>5
       DEF Running, PlaceIsDirectory, NewDirectory, NewCluster, NewChain, OldChain,
           Placing, Filling, Allocating
<1>14. op.kind \notin {"touch", "mkdir", "rm"} => op.kind \in {"write", "append"}
  BY <1>7 DEF Control, Op, OpKind
<1>15. Running'
  <2>. USE <1>8
  <2>. HIDE DEF e
  <2>1. CASE op.kind = "rm"
    <3>1. \/ op' = Idle
          \/ \E pc \in {"empty", "free", "unlink"} :
                /\ pc = "empty" => e.dir
                /\ pc = "free" => ~e.dir /\ e.first # 0
                /\ op' = [Here(p) EXCEPT !.pc = pc]
      BY <2>1, WithCases DEF e
    <3>. QED
      BY <1>10, <1>11, <2>1, <3>1
  <2>2. CASE op.kind \in {"write", "append"} /\ op.leg = 2
    <3>1. op' = Idle \/ op' = [op EXCEPT !.leg = 3, !.cl = op.dir]
      BY <2>2, WithCases
    <3>. QED
      BY <1>10, <1>12, <2>2, <3>1
  <2>3. CASE op.kind \in {"write", "append"} /\ op.leg # 2
    <3>1. \/ op' = Idle
          \/ \E pc \in {"free", "ensure"} :
                /\ ~e.dir
                /\ pc = "free" => op.kind = "write" /\ e.first # 0
                /\ \E size, off :
                      \/ op' = [Here(p) EXCEPT !.size = size, !.pc = pc]
                      \/ op' = [Here(p) EXCEPT !.size = size, !.off = off, !.pc = pc]
      <4>1. \/ op' = Idle
            \/ /\ op.kind = "write" /\ ~e.dir /\ e.first # 0
               /\ op' = [Here(p) EXCEPT !.size = Len(op.text), !.pc = "free"]
            \/ /\ ~e.dir
               /\ op' = [Here(p) EXCEPT !.size = Len(op.text), !.pc = "ensure"]
            \/ /\ ~e.dir
               /\ op' = [Here(p) EXCEPT !.size = e.size + Len(op.text), !.off = e.size,
                                        !.pc = "ensure"]
        BY <2>3, WithCases DEF e
      <4>. QED
        BY <4>1
    <3>2. CASE op' = Idle
      BY <1>10, <3>2
    <3>3. CASE op' # Idle
      <4>1. PICK pc \in {"free", "ensure"} :
               /\ ~e.dir
               /\ pc = "free" => op.kind = "write" /\ e.first # 0
               /\ \E size, off :
                     \/ op' = [Here(p) EXCEPT !.size = size, !.pc = pc]
                     \/ op' = [Here(p) EXCEPT !.size = size, !.off = off, !.pc = pc]
        BY <3>1, <3>3
      <4>2. PICK size, off : \/ op' = [Here(p) EXCEPT !.size = size, !.pc = pc]
                            \/ op' = [Here(p) EXCEPT !.size = size, !.off = off, !.pc = pc]
        BY <4>1
      <4>3. /\ op'.kind = op.kind /\ op'.leg = op.leg /\ op'.pc = pc /\ op'.pos = p
            /\ op'.first = Start(e) /\ op'.cl = Start(e) /\ ~op'.loose
        <5>. HIDE <1>8
        <5>1. CASE op' = [Here(p) EXCEPT !.size = size, !.pc = pc]
          BY <1>7, <5>1 DEF Here, Op, e
        <5>2. CASE op' = [Here(p) EXCEPT !.size = size, !.off = off, !.pc = pc]
          BY <1>7, <5>2 DEF Here, Op, e
        <5>. QED
          BY <4>2, <5>1, <5>2
      <4>. QED
        BY <1>13, <2>3, <4>1, <4>3
    <3>. QED
      BY <3>2, <3>3
  <2>4. CASE op.kind \in {"touch", "mkdir"}
    BY <1>10, <2>4 DEF WithEntry
  <2>. QED
    BY <1>14, <2>1, <2>2, <2>3, <2>4
<1>. QED
  BY <1>3, <1>15

LEMMA FindOnKeeps ==
    ASSUME TypeOK, TypeOK', Control, Volume, Running, Find, ~FindHit
    PROVE  Volume' /\ Running'
<1>. op.pc = "find" /\ UNCHANGED <<fat, mem, dirs>>
  BY DEF Find, FindNext, FindNothing, FindBlind, Move
<1>. op.cl \in dirs /\ op.dir \in dirs /\ ~op.loose /\ (op.kind # "mkdir" => op.first = 0)
  BY DEF Running, PlaceIsDirectory, OldChain, Placing, Filling, Allocating, NewDirectory
<1>1. Harmless /\ Volume'
  BY HarmlessKeepsVolume DEF Harmless
<1>. op.first = 0
  BY DEF Running, NewDirectory, Placing
<1>. op \in Op /\ dirs \subseteq Cluster
  BY DEF TypeOK
<1>2. CASE FindNext
  <2>1. op' = [op EXCEPT !.cl = fat[op.cl]] /\ fat[op.cl] \in Cluster
    BY <1>2 DEF FindNext, Move, GoesOn
  <2>2. fat[op.cl] \in dirs
    BY <2>1 DEF Volume, LinksAreSound
  <2>3. /\ op'.kind = op.kind /\ op'.pc = "find" /\ op'.cl \in dirs /\ op'.dir \in dirs
        /\ op'.first = 0 /\ ~op'.loose
    BY <2>1, <2>2 DEF Op
  <2>. QED
    BY <1>1, <2>3
       DEF Running, PlaceIsDirectory, NewDirectory, NewCluster, NewChain, OldChain,
           Placing, Filling, Allocating
<1>3. CASE op' = WithoutEntry
  <2>1. CASE op' = Idle
    BY <1>1, <2>1, IdleRunning
  <2>2. CASE op' = [op EXCEPT !.pc = "mark", !.goal = "mkdir"]
    <3>1. /\ op'.kind = op.kind /\ op'.pc = "mark" /\ op'.goal = "mkdir" /\ op'.dir \in dirs
          /\ op'.first = 0 /\ ~op'.loose
      BY <2>2 DEF Op
    <3>. QED
      BY <1>1, <3>1
         DEF Running, PlaceIsDirectory, NewDirectory, NewCluster, NewChain, OldChain,
             Placing, Filling, Allocating
  <2>3. CASE op' = [op EXCEPT !.leg = 2, !.cl = op.dir]
    <3>1. /\ op'.kind = op.kind /\ op'.pc = "find" /\ op'.cl \in dirs /\ op'.dir \in dirs
          /\ op'.first = 0 /\ ~op'.loose
      BY <2>3 DEF Op
    <3>. QED
      BY <1>1, <3>1
         DEF Running, PlaceIsDirectory, NewDirectory, NewCluster, NewChain, OldChain,
             Placing, Filling, Allocating
  <2>4. CASE op' = [op EXCEPT !.pc = "slot", !.cl = op.dir]
    <3>1. /\ op'.kind = op.kind /\ op'.pc = "slot" /\ op'.cl \in dirs /\ op'.dir \in dirs
          /\ op'.first = 0 /\ ~op'.loose
      BY <2>4 DEF Op
    <3>. QED
      BY <1>1, <3>1
         DEF Running, PlaceIsDirectory, NewDirectory, NewCluster, NewChain, OldChain,
             Placing, Filling, Allocating
  <2>. QED
    BY <1>3, <2>1, <2>2, <2>3, <2>4, WithoutCases
<1>. QED
  BY <1>2, <1>3 DEF Find, FindNothing, FindBlind, Move

-----------------------------------------------------------------------------
(* Allocating a cluster.                                                   *)

LEMMA MarkKeeps ==
    ASSUME TypeOK, TypeOK', Control, Volume, Running, Mark
    PROVE  Volume' /\ Running'
<1>. op.pc = "mark" /\ mem' = mem /\ dirs' = dirs
  BY DEF Mark
<1>1. PICK c \in Cluster : /\ fat[c] = FREE
                           /\ fat' = [fat EXCEPT ![c] = EOC]
                           /\ op' = [op EXCEPT !.new = c, !.pc = "zero"]
  BY DEF Mark, Allocable
<1>. op \in Op /\ fat \in [Cluster -> Cluster \cup {FREE, EOC}] /\ dirs \subseteq Cluster
  BY DEF TypeOK
<1>2. /\ op'.new = c /\ op'.pc = "zero" /\ op'.goal = op.goal /\ op'.kind = op.kind
      /\ op'.leg = op.leg /\ op'.dir = op.dir /\ op'.first = op.first /\ op'.last = op.last
      /\ op'.pos = op.pos /\ op'.loose = op.loose
  BY <1>1 DEF Op
<1>3. /\ fat'[c] = EOC
      /\ \A b \in Cluster : b # c => fat'[b] = fat[b]
      /\ \A b, d \in Cluster : fat'[b] = d => fat[b] = d
      /\ \A b \in Cluster : fat[b] # FREE => fat'[b] # FREE
  BY <1>1, Clusters
<1>. HIDE <1>1
<1>4. Pointers' = Pointers
  BY <1>2 DEF Pointers, Unit, IsEntryAt
<1>5. \A p \in Pointers : Unit(p)' = Unit(p) /\ Unit(p).first \in Cluster
  BY EntryFacts DEF Unit, Pointers, IsEntryAt
<1>6. c \notin dirs /\ Unlinked(c) /\ Unpointed(c) /\ c # Root
  BY <1>1 DEF Volume, RootStays, DirsAreInUse, LinksAreSound, PointersAreSound,
              Unlinked, Unpointed
<1>7. \A d \in Cluster : Unlinked(d) => Unlinked(d)'
  BY <1>3 DEF Unlinked
<1>8. Volume'
  <2>1. RootStays'
    BY <1>7, Clusters DEF Volume, RootStays
  <2>2. DirsAreInUse'
    BY <1>3 DEF Volume, DirsAreInUse, Unit, IsEntryAt
  <2>3. LinksAreSound'
    BY <1>3 DEF Volume, LinksAreSound
  <2>4. PointersAreSound'
    <3>1. ASSUME NEW p \in Pointers
          PROVE  /\ fat'[Unit(p).first] # FREE /\ Unit(p).first # Root
                 /\ Unlinked(Unit(p).first)
                 /\ \A b \in Cluster : fat'[b] # Unit(p).first
                 /\ Unit(p).dir <=> Unit(p).first \in dirs
      BY <1>3, <1>5 DEF Volume, PointersAreSound, Unlinked
    <3>. QED
      BY <1>4, <1>5, <3>1 DEF Volume, PointersAreSound, Unlinked
  <2>. QED
    BY <2>1, <2>2, <2>3, <2>4 DEF Volume
<1>9. \A d \in Cluster : Fresh(d) => Fresh(d)'
  BY <1>3, <1>4, <1>5 DEF Fresh, Unlinked, Unpointed
<1>10. PlaceIsDirectory'
  BY <1>2 DEF Running, PlaceIsDirectory, Placing, Allocating
<1>11. NewDirectory'
  <2>1. Placing' => Placing
    BY <1>2 DEF Placing, Allocating
  <2>2. Fresh(op.first) => Fresh(op.first)'
    BY <1>2, <1>3, <1>4, <1>5 DEF Fresh, Unlinked, Unpointed
  <2>3. EmptyCluster(op.first) => EmptyCluster(op.first)'
    BY <1>2 DEF EmptyCluster
  <2>. QED
    BY <1>2, <2>1, <2>2, <2>3 DEF Running, NewDirectory, Allocating
<1>12. NewCluster'
  <2>1. Fresh(op.new)'
    BY <1>2, <1>3, <1>4, <1>5, <1>6 DEF Fresh, Unlinked, Unpointed
  <2>2. op.first # c
    BY <1>1, Clusters DEF Running, NewDirectory, NewChain, Placing, Filling, Allocating, Fresh,
                          Control, Op, OpGoal
  <2>3. op.goal \in {"extend", "chain"} => op.last # c
    BY <1>1, <1>6 DEF Running, PlaceIsDirectory, NewChain, Allocating
  <2>. QED
    BY <1>2, <2>1, <2>2, <2>3 DEF NewCluster
<1>13. NewChain'
  BY <1>2, <1>3, <1>4, <1>5
     DEF Running, NewChain, Filling, Allocating, CutOff, Unlinked, UnpointedElse, Unit, IsEntryAt
<1>14. OldChain'
  BY <1>2 DEF Running, OldChain, Filling, Allocating
<1>. QED
  BY <1>8, <1>10, <1>11, <1>12, <1>13, <1>14 DEF Running

LEMMA ZeroClusterKeeps ==
    ASSUME TypeOK, TypeOK', Control, Volume, Running, ZeroCluster
    PROVE  Volume' /\ Running'
<1>. op.pc = "zero" /\ fat' = fat /\ dirs' = dirs
  BY DEF ZeroCluster
<1>. op \in Op /\ mem \in [Cluster -> [Slot -> Bytes \cup Entry]] /\ dirs \subseteq Cluster
  BY DEF TypeOK
<1>1. PICK n \in Cluster : n = op.new
  BY DEF Control
<1>2. Fresh(n) /\ n # op.first /\ (op.goal \in {"extend", "chain"} => n # op.last)
  BY <1>1 DEF Running, NewCluster
<1>3. /\ \A u \in Slot : mem'[n][u] = Zero
      /\ \A c \in Cluster : c # n => mem'[c] = mem[c]
  BY <1>1 DEF ZeroCluster
<1>4. Zero \notin Entry
  BY UnitsAssumption DEF Bytes
<1>5. op'.pos = op.pos /\ op'.loose = op.loose /\ op'.kind = op.kind /\ op'.leg = op.leg
      /\ op'.dir = op.dir /\ op'.goal = op.goal /\ op'.new = op.new
  BY DEF ZeroCluster, Op
<1>6. \A p \in Pos : mem'[p[1]][p[2]] \in Entry => p[1] # n /\ mem'[p[1]][p[2]] = mem[p[1]][p[2]]
  BY <1>3, <1>4, TypeFacts
<1>7. Harmless
  BY <1>5, <1>6, TypeFacts DEF Harmless
<1>8. Volume'
  BY <1>7, HarmlessKeepsVolume
<1>9. IsEntryAt(op.pos)' => IsEntryAt(op.pos) /\ Unit(op.pos)' = Unit(op.pos)
  BY <1>5, <1>6, TypeFacts DEF IsEntryAt, Unit
<1>10. \A c : Fresh(c) => Fresh(c)'
  BY <1>7, HarmlessKeepsSecrets
<1>11. \A c : CutOff(c) => CutOff(c)'
  BY <1>5, <1>7, HarmlessKeepsSecrets
<1>12. CutOff(n) /\ fat[n] # FREE /\ n \notin dirs
  BY <1>2, Clusters DEF Fresh, CutOff, Unpointed, UnpointedElse, Volume, RootStays
<1>13. EmptyCluster(n)'
  BY <1>3 DEF EmptyCluster
<1>14. CASE op.goal = "mkdir"
  <2>1. op'.pc = "slot" /\ op'.cl = op.dir /\ op'.first = n
    BY <1>1, <1>14 DEF ZeroCluster, Op
  <2>2. op.dir \in dirs /\ op.kind = "mkdir" /\ ~op.loose
    BY <1>14 DEF Running, PlaceIsDirectory, OldChain, Placing, Filling, Allocating, Control
  <2>3. Fresh(op.first)' /\ EmptyCluster(op.first)'
    BY <1>2, <1>10, <1>13, <2>1 DEF Fresh, Unlinked, Unpointed, EmptyCluster
  <2>. QED
    BY <1>5, <1>8, <2>1, <2>2, <2>3
       DEF Running, PlaceIsDirectory, NewDirectory, NewCluster, NewChain, OldChain,
           Placing, Filling, Allocating
<1>15. CASE op.goal = "first"
  <2>1. op'.pc = "grow" /\ op'.first = n /\ op'.last = n
    BY <1>1, <1>15 DEF ZeroCluster, Op
  <2>2. /\ op.kind \in {"write", "append"} /\ op.leg # 2
        /\ IsEntryAt(op.pos) => ~Unit(op.pos).dir
    BY <1>15 DEF Running, NewChain, Filling, Allocating
  <2>3. CutOff(op.first)'
    BY <1>11, <1>12, <2>1 DEF CutOff, Unlinked, UnpointedElse
  <2>. QED
    BY <1>5, <1>8, <1>9, <1>12, <2>1, <2>2, <2>3, Clusters
       DEF Running, PlaceIsDirectory, NewDirectory, NewCluster, NewChain, OldChain,
           Placing, Filling, Allocating
<1>16. CASE op.goal \notin {"mkdir", "first"}
  <2>1. op'.pc = "link" /\ op'.first = op.first /\ op'.last = op.last
    BY <1>16 DEF ZeroCluster, Op
  <2>2. (Placing' => Placing) /\ (Filling <=> Filling')
    BY <1>5, <2>1 DEF Placing, Filling, Allocating
  <2>3. PlaceIsDirectory'
    BY <1>5, <2>1, <2>2 DEF Running, PlaceIsDirectory, Allocating
  <2>4. Fresh(op.first) => Fresh(op.first)'
    BY <1>10, <2>1 DEF Fresh, Unlinked, Unpointed
  <2>5. Fresh(op.new)' /\ EmptyCluster(op.new)'
    BY <1>1, <1>2, <1>5, <1>10, <1>13 DEF Fresh, Unlinked, Unpointed, EmptyCluster
  <2>6. Fresh(op.first) /\ EmptyCluster(op.first) => EmptyCluster(op.first)'
    BY <1>2, <1>3, <2>1 DEF EmptyCluster, Fresh
  <2>7. NewDirectory'
    BY <1>5, <2>1, <2>2, <2>4, <2>6 DEF Running, NewDirectory, Allocating
  <2>8. NewCluster'
    BY <1>1, <1>2, <1>5, <2>1, <2>5 DEF NewCluster
  <2>9. CutOff(op.first) => CutOff(op.first)'
    BY <1>11, <2>1 DEF CutOff, Unlinked, UnpointedElse
  <2>10. NewChain'
    BY <1>5, <1>9, <2>1, <2>2, <2>9 DEF Running, NewChain, Allocating
  <2>11. OldChain'
    BY <1>5, <2>1, <2>2 DEF Running, OldChain
  <2>. QED
    BY <1>8, <2>3, <2>7, <2>8, <2>10, <2>11 DEF Running
<1>. QED
  BY <1>14, <1>15, <1>16

(* A link to a cluster nobody knew.                                        *)
LEMMA LinkFacts ==
    ASSUME TypeOK, Control, Volume, Running, Link
    PROVE  /\ op.new \in Cluster /\ op.last \in Cluster /\ op.new # op.last /\ op.new # Root
           /\ Fresh(op.new) /\ EmptyCluster(op.new) /\ op.new # op.first
           /\ fat'[op.last] = op.new
           /\ \A c \in Cluster : c # op.last => fat'[c] = fat[c]
           /\ \A c \in Cluster : fat[c] # FREE => fat'[c] # FREE
           /\ \A c \in Cluster : c # op.new /\ Unlinked(c) => \A b \in Cluster : fat'[b] # c
           /\ fat[op.last] # FREE
           /\ op.last \in dirs <=> op.goal = "extend"
           /\ mem' = mem /\ op'.new = op.new /\ op'.pos = op.pos /\ op'.loose = op.loose
           /\ op'.kind = op.kind /\ op'.leg = op.leg /\ op'.dir = op.dir /\ op'.goal = op.goal
           /\ op'.first = op.first
<1>. op.pc = "link" /\ mem' = mem
  BY DEF Link
<1>. op \in Op /\ fat \in [Cluster -> Cluster \cup {FREE, EOC}]
  BY DEF TypeOK
<1>1. op.goal \in {"extend", "chain"} /\ op.new \in Cluster /\ op.last \in Cluster
  BY DEF Control, Allocating
<1>2. Fresh(op.new) /\ EmptyCluster(op.new) /\ op.new # op.first /\ op.new # op.last
  BY <1>1 DEF Running, NewCluster
<1>3. op.new # Root
  BY <1>2 DEF Fresh, Volume, RootStays
<1>4. /\ fat'[op.last] = op.new
      /\ \A c \in Cluster : c # op.last => fat'[c] = fat[c]
  BY <1>1 DEF Link
<1>5. \A c \in Cluster : fat[c] # FREE => fat'[c] # FREE
  BY <1>1, <1>4, Clusters
<1>6. \A c \in Cluster : c # op.new /\ Unlinked(c) => \A b \in Cluster : fat'[b] # c
  BY <1>4 DEF Unlinked
<1>7. /\ op.goal = "extend" => op.last \in dirs
      /\ op.goal = "chain" => op.last \notin dirs /\ fat[op.last] # FREE
  BY DEF Running, PlaceIsDirectory, NewChain, Allocating
<1>8. op.last \in dirs => fat[op.last] # FREE
  BY DEF Volume, DirsAreInUse
<1>9. /\ op'.new = op.new /\ op'.pos = op.pos /\ op'.loose = op.loose
      /\ op'.kind = op.kind /\ op'.leg = op.leg /\ op'.dir = op.dir /\ op'.goal = op.goal
      /\ op'.first = op.first
  BY DEF Link, Op
<1>. QED
  BY <1>1, <1>2, <1>3, <1>4, <1>5, <1>6, <1>7, <1>8, <1>9

LEMMA LinkKeepsVolume ==
    ASSUME TypeOK, TypeOK', Control, Volume, Running, Link
    PROVE  Volume' /\ PointersStay
<1>1. PICK n \in Cluster, l \in Cluster : n = op.new /\ l = op.last
  BY LinkFacts
<1>2. /\ n # l /\ n # Root /\ Fresh(n) /\ EmptyCluster(n)
      /\ fat'[l] = n
      /\ \A c \in Cluster : c # l => fat'[c] = fat[c]
      /\ \A c \in Cluster : fat[c] # FREE => fat'[c] # FREE
      /\ \A c \in Cluster : c # n /\ Unlinked(c) => \A b \in Cluster : fat'[b] # c
      /\ fat[l] # FREE /\ mem' = mem
      /\ op'.pos = op.pos /\ op'.loose = op.loose
  BY <1>1, LinkFacts
<1>3. fat[n] = EOC /\ n \notin dirs /\ (\A b \in Cluster : fat[b] # n)
      /\ \A p \in Pointers : Unit(p).first # n
  BY <1>2 DEF Fresh, Unlinked, Unpointed
<1>4. (l \in dirs /\ dirs' = dirs \cup {n}) \/ (l \notin dirs /\ dirs' = dirs)
  BY <1>1, LinkFacts DEF Link
<1>5. \A p \in Pos : p[1] = n => ~IsEntryAt(p)
  BY <1>2, TypeFacts, UnitsAssumption DEF EmptyCluster, IsEntryAt, Bytes
<1>6. \A p \in Pos : Unit(p)' = Unit(p) /\ (IsEntryAt(p)' <=> IsEntryAt(p))
  BY <1>2 DEF Unit, IsEntryAt
<1>7. \A p \in Pointers' : p \in Pointers
  BY <1>2, <1>4, <1>5, <1>6 DEF Pointers
<1>8. PointersStay
  BY <1>2, <1>7 DEF PointersStay
<1>. dirs \subseteq Cluster
  BY DEF TypeOK
<1>. HIDE <1>1
<1>9. RootStays'
  BY <1>2, <1>4, Clusters DEF Volume, RootStays, Unlinked
<1>10. DirsAreInUse'
  BY <1>2, <1>3, <1>4, <1>5, <1>6, Clusters DEF Volume, DirsAreInUse
<1>11. LinksAreSound'
  <2>1. ASSUME NEW c \in Cluster, fat'[c] \in Cluster
        PROVE  fat'[fat'[c]] # FREE /\ (c \in dirs' <=> fat'[c] \in dirs')
    <3>1. CASE c = l
      BY <1>2, <1>3, <1>4, <3>1, Clusters
    <3>2. CASE c # l
      <4>1. fat'[c] = fat[c] /\ fat[c] # n /\ c # n
        BY <1>2, <1>3, <2>1, <3>2, Clusters
      <4>. QED
        BY <1>2, <1>4, <2>1, <4>1 DEF Volume, LinksAreSound
    <3>. QED
      BY <3>1, <3>2
  <2>2. ASSUME NEW c \in Cluster, NEW d \in Cluster, fat'[c] = fat'[d], fat'[c] \in Cluster
        PROVE  c = d
    BY <1>2, <1>3, <2>2 DEF Volume, LinksAreSound
  <2>. QED
    BY <2>1, <2>2 DEF LinksAreSound
<1>12. PointersAreSound'
  <2>1. ASSUME NEW p \in Pointers'
        PROVE  /\ p \in Pointers /\ Unit(p)' = Unit(p)
               /\ fat'[Unit(p).first] # FREE
               /\ Unit(p).first # Root
               /\ \A b \in Cluster : fat'[b] # Unit(p).first
               /\ Unit(p).dir <=> Unit(p).first \in dirs'
    <3>1. p \in Pointers /\ p \in Pos /\ Unit(p) \in Entry /\ Unit(p).first \in Cluster
      BY <1>7, EntryFacts DEF Pointers, IsEntryAt
    <3>2. /\ fat[Unit(p).first] # FREE
          /\ Unit(p).first # Root
          /\ Unlinked(Unit(p).first)
          /\ Unit(p).dir <=> Unit(p).first \in dirs
      BY <3>1 DEF Volume, PointersAreSound
    <3>. QED
      BY <1>2, <1>3, <1>4, <1>6, <3>1, <3>2
  <2>2. ASSUME NEW p \in Pointers', NEW q \in Pointers', Unit(p)'.first = Unit(q)'.first
        PROVE  p = q
    BY <2>1, <2>2 DEF Volume, PointersAreSound
  <2>. QED
    BY <2>1, <2>2 DEF PointersAreSound, Unlinked
<1>. QED
  BY <1>8, <1>9, <1>10, <1>11, <1>12 DEF Volume

LEMMA LinkKeepsRunning ==
    ASSUME TypeOK, TypeOK', Control, Volume, Running, Link
    PROVE  Running'
<1>. op.pc = "link"
  BY DEF Link
<1>. op \in Op /\ dirs \subseteq Cluster
  BY DEF TypeOK
<1>1. \A p \in Pointers' : p \in Pointers /\ Unit(p)' = Unit(p)
  BY LinkKeepsVolume DEF PointersStay, Unit
<1>2. op.goal \in {"extend", "chain"} /\ op.first # op.new /\ op.new # Root
  BY LinkFacts DEF Control
<1>3. CASE op.goal = "extend"
  <2>1. op'.pc = "slot" /\ op'.cl = op.dir /\ dirs' = dirs \cup {op.new}
    BY <1>3 DEF Link, Op
  <2>2. /\ op.dir \in dirs /\ ~op.loose /\ op.last \in dirs
        /\ op.kind # "mkdir" => op.first = 0
        /\ op.first # 0 => Fresh(op.first) /\ EmptyCluster(op.first)
    BY <1>3 DEF Running, PlaceIsDirectory, NewDirectory, OldChain, Placing, Filling, Allocating
  <2>3. op.first # 0 => Fresh(op.first)' /\ EmptyCluster(op.first)'
    <3>. SUFFICES ASSUME op.first # 0 PROVE Fresh(op.first)' /\ EmptyCluster(op.first)'
      OBVIOUS
    <3>1. PICK f \in Cluster : f = op.first /\ f = op'.first
      BY <2>2, LinkFacts DEF Fresh
    <3>2. Fresh(f) /\ EmptyCluster(f) /\ f # op.new /\ f # op.last
      BY <1>2, <2>2, <3>1 DEF Fresh
    <3>3. fat'[f] = EOC /\ f \notin dirs' /\ \A b \in Cluster : fat'[b] # f
      BY <2>1, <3>2, LinkFacts DEF Fresh
    <3>4. \A p \in Pointers' : Unit(p)'.first # f
      BY <1>1, <3>2 DEF Fresh, Unpointed
    <3>5. \A u \in Slot : mem'[f][u] = Zero
      BY <3>2, LinkFacts DEF EmptyCluster
    <3>. QED
      BY <3>1, <3>3, <3>4, <3>5 DEF Fresh, Unlinked, Unpointed, EmptyCluster
  <2>. QED
    BY <2>1, <2>2, <2>3, LinkFacts
       DEF Running, PlaceIsDirectory, NewDirectory, NewCluster, NewChain, OldChain,
           Placing, Filling, Allocating
<1>4. CASE op.goal = "chain"
  <2>1. op'.pc = "grow" /\ op'.last = op.new /\ dirs' = dirs
    BY <1>4 DEF Link, Op
  <2>2. /\ op.kind \in {"write", "append"} /\ op.leg # 2
        /\ IsEntryAt(op.pos) => ~Unit(op.pos).dir
        /\ op.first # 0
        /\ CutOff(op.first) /\ fat[op.first] # FREE /\ op.first \notin dirs
    BY <1>4 DEF Running, NewChain, Filling, Allocating
  <2>3. PICK f \in Cluster : f = op.first /\ f = op'.first
    BY <2>2, LinkFacts DEF CutOff
  <2>4. CutOff(op.first)'
    <3>1. \A b \in Cluster : fat'[b] # f
      BY <1>2, <2>2, <2>3, LinkFacts DEF CutOff
    <3>2. \A p \in Pointers' : p # op'.pos => Unit(p)'.first # f
      BY <1>1, <2>2, <2>3, LinkFacts DEF CutOff, UnpointedElse
    <3>. QED
      BY <2>2, <2>3, <3>1, <3>2 DEF CutOff, Unlinked, UnpointedElse
  <2>5. IsEntryAt(op.pos)' => ~Unit(op.pos)'.dir
    BY <2>2, LinkFacts DEF Unit, IsEntryAt
  <2>6. fat'[op'.first] # FREE /\ op'.first \notin dirs'
    BY <2>1, <2>2, <2>3, LinkFacts
  <2>7. op'.last \in Cluster \ dirs' /\ fat'[op'.last] # FREE
    BY <2>1, LinkFacts, Clusters DEF Fresh
  <2>. QED
    BY <2>1, <2>2, <2>3, <2>4, <2>5, <2>6, <2>7, LinkFacts
       DEF Running, PlaceIsDirectory, NewDirectory, NewCluster, NewChain, OldChain,
           Placing, Filling, Allocating
<1>. QED
  BY <1>2, <1>3, <1>4

-----------------------------------------------------------------------------
(* Finding a place for a new entry, and writing it.                        *)

LEMMA SeekPlaceKeeps ==
    ASSUME TypeOK, TypeOK', Control, Volume, Running,
           SlotHere \/ SlotNext \/ SlotNone \/ TailNext \/ TailEnd
    PROVE  Volume' /\ Running'
<1>. op.pc \in {"slot", "tail"} /\ UNCHANGED <<fat, mem, dirs>>
  BY DEF SlotHere, SlotNext, SlotNone, TailNext, TailEnd, Move
<1>. op.dir \in dirs /\ ~op.loose
  BY DEF Running, PlaceIsDirectory, OldChain, Placing, Filling, Allocating
<1>. op \in Op /\ dirs \subseteq Cluster
  BY DEF TypeOK
<1>1. Harmless /\ Volume'
  BY HarmlessKeepsVolume DEF Harmless
<1>2. /\ op.kind # "mkdir" => op.first = 0
      /\ op.first # 0 => Fresh(op.first) /\ EmptyCluster(op.first)
  BY DEF Running, NewDirectory, Placing, Allocating
<1>3. op'.kind = op.kind /\ op'.dir = op.dir /\ op'.first = op.first /\ ~op'.loose
  BY DEF SlotHere, SlotNext, SlotNone, TailNext, TailEnd, Move, Op
<1>4. op.first # 0 => Fresh(op.first)' /\ EmptyCluster(op.first)'
  <2>1. PICK f : f = op.first
    OBVIOUS
  <2>2. Fresh(f) => Fresh(f)'
    BY <1>1, HarmlessKeepsSecrets
  <2>. QED
    BY <1>2, <1>3, <2>1, <2>2 DEF Fresh, Unlinked, Unpointed, EmptyCluster
<1>5. CASE SlotHere
  <2>1. PICK u \in Slot : op' = [op EXCEPT !.pos = <<op.cl, u>>, !.pc = "entry"]
    BY <1>5 DEF SlotHere, Move
  <2>2. op.cl \in dirs
    BY <1>5 DEF SlotHere, Running, PlaceIsDirectory
  <2>3. op'.pc = "entry" /\ op'.pos = <<op.cl, u>>
    BY <2>1 DEF Op
  <2>. QED
    BY <1>1, <1>2, <1>3, <1>4, <2>2, <2>3
       DEF Running, PlaceIsDirectory, NewDirectory, NewCluster, NewChain, OldChain,
           Placing, Filling, Allocating
<1>6. CASE SlotNext
  <2>1. op.cl \in dirs /\ fat[op.cl] \in Cluster /\ op'.pc = "slot" /\ op'.cl = fat[op.cl]
    BY <1>6 DEF SlotNext, Move, Op, Running, PlaceIsDirectory
  <2>2. op'.cl \in dirs
    BY <2>1 DEF Volume, LinksAreSound
  <2>. QED
    BY <1>1, <1>2, <1>3, <1>4, <2>1, <2>2
       DEF Running, PlaceIsDirectory, NewDirectory, NewCluster, NewChain, OldChain,
           Placing, Filling, Allocating
<1>7. CASE SlotNone
  <2>1. op'.pc = "tail" /\ op'.last = op.dir
    BY <1>7 DEF SlotNone, Move, Op
  <2>. QED
    BY <1>1, <1>2, <1>3, <1>4, <2>1
       DEF Running, PlaceIsDirectory, NewDirectory, NewCluster, NewChain, OldChain,
           Placing, Filling, Allocating
<1>8. CASE TailNext
  <2>1. op.last \in dirs /\ fat[op.last] \in Cluster /\ op'.pc = "tail" /\ op'.last = fat[op.last]
    BY <1>8 DEF TailNext, Move, Op, Running, PlaceIsDirectory
  <2>2. op'.last \in dirs
    BY <2>1 DEF Volume, LinksAreSound
  <2>. QED
    BY <1>1, <1>2, <1>3, <1>4, <2>1, <2>2
       DEF Running, PlaceIsDirectory, NewDirectory, NewCluster, NewChain, OldChain,
           Placing, Filling, Allocating
<1>9. CASE TailEnd
  <2>1. op.last \in dirs /\ op'.pc = "mark" /\ op'.goal = "extend" /\ op'.last = op.last
    BY <1>9 DEF TailEnd, Op, Running, PlaceIsDirectory
  <2>. QED
    BY <1>1, <1>2, <1>3, <1>4, <2>1
       DEF Running, PlaceIsDirectory, NewDirectory, NewCluster, NewChain, OldChain,
           Placing, Filling, Allocating
<1>. QED
  BY <1>5, <1>6, <1>7, <1>8, <1>9

(* After the entry is written the operation holds nothing any more.        *)
LEMMA WriteEntryKeepsRunning ==
    ASSUME TypeOK, TypeOK', Control, Volume, Running, WriteEntry
    PROVE  Running'
<1>. op \in Op /\ op.pc = "entry"
  BY DEF TypeOK, WriteEntry
<1>1. /\ op.dir \in dirs /\ ~op.loose /\ dirs \subseteq dirs'
      /\ op.kind # "mkdir" => op.first = 0
      /\ op.kind = "mkdir" => op.leg = 1
  BY DEF Running, PlaceIsDirectory, NewDirectory, OldChain, Placing, Filling, Allocating,
         WriteEntry, Control
<1>2. /\ op'.pc = "bump" /\ op'.kind = op.kind /\ op'.leg = op.leg /\ op'.dir = op.dir
      /\ op'.first = op.first /\ ~op'.loose
  BY <1>1 DEF WriteEntry, Op
<1>. QED
  BY <1>1, <1>2
     DEF Running, PlaceIsDirectory, NewDirectory, NewCluster, NewChain, OldChain,
         Placing, Filling, Allocating

LEMMA TouchKeeps ==
    ASSUME TypeOK, TypeOK', Control, Volume, Running, WriteEntry, op.kind # "mkdir"
    PROVE  Volume'
<1>1. op.first = 0 /\ op.pc = "entry" /\ ~op.loose
  BY DEF WriteEntry, Running, NewDirectory, OldChain, Placing, Filling, Allocating
<1>2. PICK e \in Entry : mem' = Set(op.pos, e) /\ ~e.dir /\ e.first = 0
  BY <1>1, NewEntry DEF WriteEntry
<1>3. op.pos \in Pos
  BY DEF TypeOK, Op
<1>4. \A p \in Pos : mem'[p[1]][p[2]] = IF p = op.pos THEN e ELSE mem[p[1]][p[2]]
  BY <1>2, <1>3, SetFacts
<1>5. Harmless
  BY <1>1, <1>2, <1>4 DEF Harmless, WriteEntry
<1>. QED
  BY <1>5, HarmlessKeepsVolume

LEMMA MkdirKeeps ==
    ASSUME TypeOK, TypeOK', Control, Volume, Running, WriteEntry, op.kind = "mkdir"
    PROVE  Volume'
<1>1. op.pc = "entry" /\ ~op.loose /\ op.first \in Cluster /\ fat' = fat
  BY DEF WriteEntry, Running, OldChain, Filling, Allocating, Control
<1>2. PICK f \in Cluster, o \in Pos, e \in Entry :
         /\ f = op.first /\ o = op.pos
         /\ mem' = Set(o, e) /\ e.dir /\ e.first = f
         /\ dirs' = dirs \cup {f}
  <2>1. op.pos \in Pos
    BY DEF TypeOK, Op
  <2>. QED
    BY <1>1, <2>1, NewEntry DEF WriteEntry
<1>3. Fresh(f) /\ EmptyCluster(f) /\ o[1] \in dirs
  BY <1>1, <1>2, Clusters DEF Running, NewDirectory, PlaceIsDirectory, Placing
<1>4. /\ fat[f] = EOC /\ f \notin dirs /\ f # Root
      /\ \A b \in Cluster : fat[b] # f
      /\ \A p \in Pointers : Unit(p).first # f
  BY <1>3 DEF Fresh, Unlinked, Unpointed, Volume, RootStays
<1>5. \A p \in Pos : Unit(p)' = IF p = o THEN e ELSE Unit(p)
  <2>1. /\ mem'[o[1]][o[2]] = e
        /\ \A p \in Pos : p # o => mem'[p[1]][p[2]] = mem[p[1]][p[2]]
    BY <1>2, SetFacts
  <2>. QED
    BY <2>1 DEF Unit
<1>6. \A p \in Pos : p[1] = f => p # o /\ ~IsEntryAt(p) /\ ~IsEntryAt(p)'
  BY <1>3, <1>4, <1>5, TypeFacts, UnitsAssumption DEF EmptyCluster, IsEntryAt, Bytes
<1>7. \A p \in Pointers' : p = o \/ (p \in Pointers /\ Unit(p)' = Unit(p))
  BY <1>1, <1>2, <1>5, <1>6 DEF Pointers, IsEntryAt
<1>. dirs \subseteq Cluster
  BY DEF TypeOK
<1>. HIDE <1>2
<1>8. dirs' = dirs \cup {f} /\ e \in Entry /\ e.dir /\ e.first = f
  BY <1>2
<1>9. RootStays'
  BY <1>1, <1>8 DEF Volume, RootStays, Unlinked
<1>10. DirsAreInUse'
  BY <1>1, <1>4, <1>5, <1>6, <1>8, Clusters DEF Volume, DirsAreInUse, IsEntryAt
<1>11. LinksAreSound'
  BY <1>1, <1>4, <1>8, Clusters DEF Volume, LinksAreSound
<1>12. PointersAreSound'
  <2>1. ASSUME NEW p \in Pointers'
        PROVE  /\ fat[Unit(p)'.first] # FREE
               /\ Unit(p)'.first # Root
               /\ \A b \in Cluster : fat[b] # Unit(p)'.first
               /\ Unit(p)'.dir <=> Unit(p)'.first \in dirs'
    <3>1. CASE p = o
      BY <1>4, <1>5, <1>8, <3>1, Clusters DEF Pointers
    <3>2. CASE p # o
      BY <1>4, <1>7, <1>8, <3>2 DEF Volume, PointersAreSound, Unlinked
    <3>. QED
      BY <3>1, <3>2
  <2>2. ASSUME NEW p \in Pointers', NEW q \in Pointers', Unit(p)'.first = Unit(q)'.first
        PROVE  p = q
    <3>1. o \in Pos /\ Unit(o)' = e
      BY <1>2, <1>5
    <3>. QED
      BY <1>4, <1>7, <1>8, <2>2, <3>1 DEF Volume, PointersAreSound
  <2>. QED
    BY <1>1, <2>1, <2>2 DEF PointersAreSound, Unlinked
<1>. QED
  BY <1>9, <1>10, <1>11, <1>12 DEF Volume

LEMMA PlaceKeeps ==
    ASSUME TypeOK, TypeOK', Control, Volume, Running, Place, "hurt" \notin faults'
    PROVE  Volume' /\ Running'
<1>1. CASE WriteEntryFails
  <2>1. ~op.loose /\ op' = Idle /\ mem' = Set(op.pos, Orphan) /\ fat' = fat /\ dirs' = dirs
    BY <1>1 DEF WriteEntryFails, Cut
  <2>2. op.pos \in Pos /\ Orphan \in Bytes /\ Orphan \notin Entry
    BY UnitsAssumption DEF TypeOK, Op, Bytes
  <2>3. Harmless
    BY <2>1, <2>2, SetFacts DEF Harmless
  <2>. QED
    BY <2>1, <2>3, HarmlessKeepsVolume, IdleRunning
<1>. QED
  BY <1>1, SeekPlaceKeeps, WriteEntryKeepsRunning, TouchKeeps, MkdirKeeps DEF Place

-----------------------------------------------------------------------------
(* Making a chain long enough, filling it, and the entry that gets it.     *)

LEMMA WalkKeeps ==
    ASSUME TypeOK, TypeOK', Control, Volume, Running,
           Ensure \/ WalkNext \/ WalkEnd \/ Grow \/ Seek
    PROVE  Volume' /\ Running'
<1>. op.pc \in {"ensure", "walk", "grow", "data"} /\ UNCHANGED <<fat, mem, dirs>>
  BY DEF Ensure, WalkNext, WalkEnd, Grow, Seek, Move
<1>. op \in Op /\ op' \in Op /\ dirs \subseteq Cluster
  BY DEF TypeOK
<1>1. /\ op'.kind = op.kind /\ op'.leg = op.leg /\ op'.pos = op.pos /\ op'.loose = op.loose
      /\ op'.first \in {0, op.first}
  <2>1. CASE Ensure
    <3>. DEFINE n == Needed
    <3>1. \/ op' = [op EXCEPT !.first = 0, !.pc = "commit"]
          \/ op' = [op EXCEPT !.target = n, !.goal = "first", !.pc = "mark"]
          \/ op' = [op EXCEPT !.target = n + 1, !.last = op.first, !.count = 1, !.pc = "walk"]
      BY <2>1 DEF Ensure, Move
    <3>. HIDE DEF n
    <3>2. CASE op' = [op EXCEPT !.first = 0, !.pc = "commit"]
      BY <3>2 DEF Op
    <3>3. CASE op' = [op EXCEPT !.target = n, !.goal = "first", !.pc = "mark"]
      BY <3>3 DEF Op
    <3>4. CASE op' = [op EXCEPT !.target = n + 1, !.last = op.first, !.count = 1, !.pc = "walk"]
      BY <3>4 DEF Op
    <3>. QED
      BY <3>1, <3>2, <3>3, <3>4
  <2>2. CASE WalkNext
    BY <2>2 DEF WalkNext, Move, Op
  <2>3. CASE WalkEnd
    BY <2>3 DEF WalkEnd, Op
  <2>4. CASE Grow
    BY <2>4 DEF Grow, Move, Op
  <2>5. CASE Seek
    BY <2>5 DEF Seek, Move, Op
  <2>. QED
    BY <2>1, <2>2, <2>3, <2>4, <2>5
<1>2. /\ op.kind \in {"write", "append"} /\ op.leg # 2
      /\ IsEntryAt(op.pos) => ~Unit(op.pos).dir
      /\ op.first # 0 => CutOff(op.first) /\ fat[op.first] # FREE /\ op.first \notin dirs
  BY DEF Running, NewChain, Filling
<1>3. Harmless /\ Volume'
  BY <1>1, HarmlessKeepsVolume DEF Harmless
<1>4. op'.first # 0 => CutOff(op.first)' /\ fat'[op'.first] # FREE /\ op'.first \notin dirs'
  <2>1. PICK f : f = op.first
    OBVIOUS
  <2>2. CutOff(f) => CutOff(f)'
    BY <1>1, <1>3, HarmlessKeepsSecrets
  <2>. QED
    BY <1>1, <1>2, <2>1, <2>2 DEF CutOff, Unlinked, UnpointedElse
<1>5. IsEntryAt(op.pos)' => ~Unit(op.pos)'.dir
  BY <1>1, <1>2 DEF IsEntryAt, Unit
<1>6. ASSUME op'.pc \in {"ensure", "walk", "grow", "data", "commit"}
                \/ (op'.pc = "mark" /\ op'.goal \in {"first", "chain"}),
             op'.pc \in {"walk", "grow"} \/ (op'.pc = "mark" /\ op'.goal = "chain") =>
                op'.first # 0 /\ op'.last \in Cluster \ dirs' /\ fat'[op'.last] # FREE
      PROVE  Running'
  BY <1>1, <1>2, <1>4, <1>5, <1>6
     DEF Running, PlaceIsDirectory, NewDirectory, NewCluster, NewChain, OldChain,
         Placing, Filling, Allocating
<1>7. op.pc \in {"walk", "grow"} =>
         op.first # 0 /\ op.last \in Cluster \ dirs /\ fat[op.last] # FREE
  BY DEF Running, NewChain
<1>8. CASE Ensure
  <2>1. CASE Needed = 0
    <3>1. op'.pc = "commit"
      BY <1>8, <2>1 DEF Ensure, Move, Op
    <3>. QED
      BY <1>3, <1>6, <3>1
  <2>2. CASE Needed # 0 /\ op.first = 0
    <3>1. op'.pc = "mark" /\ op'.goal = "first"
      BY <1>8, <2>2 DEF Ensure, Move, Op
    <3>. QED
      BY <1>3, <1>6, <3>1
  <2>3. CASE Needed # 0 /\ op.first # 0
    <3>1. op'.pc = "walk" /\ op'.last = op.first /\ op'.first = op.first
      BY <1>8, <2>3 DEF Ensure, Move, Op
    <3>. QED
      BY <1>2, <1>3, <1>6, <2>3, <3>1 DEF CutOff
  <2>. QED
    BY <2>1, <2>2, <2>3
<1>9. CASE WalkNext
  <2>1. /\ op.pc = "walk" /\ fat[op.last] \in Cluster /\ op'.pc \in {"walk", "grow"}
        /\ op'.last = fat[op.last] /\ op'.first = op.first
    BY <1>9 DEF WalkNext, Move, Op
  <2>2. op'.last \in Cluster \ dirs' /\ fat'[op'.last] # FREE
    BY <1>7, <2>1 DEF Volume, LinksAreSound
  <2>. QED
    BY <1>3, <1>6, <1>7, <2>1, <2>2
<1>10. CASE WalkEnd
  <2>1. op.pc = "walk" /\ op'.pc = "grow" /\ op'.last = op.last /\ op'.first = op.first
    BY <1>10 DEF WalkEnd, Op
  <2>. QED
    BY <1>3, <1>6, <1>7, <2>1
<1>11. CASE Grow
  <2>1. CASE op.count < op.target
    <3>1. /\ op.pc = "grow" /\ op'.pc = "mark" /\ op'.goal = "chain"
          /\ op'.last = op.last /\ op'.first = op.first
      BY <1>11, <2>1 DEF Grow, Move, Op
    <3>. QED
      BY <1>3, <1>6, <1>7, <3>1
  <2>2. CASE ~(op.count < op.target)
    <3>1. op'.pc = "data"
      BY <1>11, <2>2 DEF Grow, Move, Op
    <3>. QED
      BY <1>3, <1>6, <3>1
  <2>. QED
    BY <2>1, <2>2
<1>12. CASE Seek
  <2>1. op'.pc = "data"
    BY <1>12 DEF Seek, Move, Op
  <2>. QED
    BY <1>3, <1>6, <2>1
<1>. QED
  BY <1>8, <1>9, <1>10, <1>11, <1>12

LEMMA WriteDataKeeps ==
    ASSUME TypeOK, TypeOK', Control, Volume, Running, WriteData
    PROVE  Volume' /\ Running'
<1>. op.pc = "data" /\ op.cl \in Cluster /\ op.off < SLOTS /\ UNCHANGED <<fat, dirs>>
  BY DEF WriteData
<1>. op \in Op /\ mem \in [Cluster -> [Slot -> Bytes \cup Entry]]
  BY DEF TypeOK
<1>1. mem' = [mem EXCEPT ![op.cl] = Filled]
  BY DEF WriteData, Filled
<1>2. \A p \in Pos : mem'[p[1]][p[2]] \in Entry => mem'[p[1]][p[2]] = mem[p[1]][p[2]]
  <2>1. \A u \in Slot : Filled[u] \in Entry => Filled[u] = mem[op.cl][u]
    BY FilledFacts
  <2>. QED
    BY <1>1, <2>1, TypeFacts
<1>3. /\ op'.kind = op.kind /\ op'.leg = op.leg /\ op'.pos = op.pos /\ op'.loose = op.loose
      /\ op'.first = op.first /\ op'.pc \in {"data", "commit"}
  <2>1. CASE op.done + Chunk = Len(op.text)
    BY <2>1 DEF WriteData, Op
  <2>2. CASE op.done + Chunk # Len(op.text)
    BY <2>2 DEF WriteData, Op
  <2>. QED
    BY <2>1, <2>2
<1>4. Harmless /\ Volume'
  BY <1>2, <1>3, HarmlessKeepsVolume DEF Harmless
<1>5. /\ op.kind \in {"write", "append"} /\ op.leg # 2
      /\ IsEntryAt(op.pos) => ~Unit(op.pos).dir
      /\ op.first # 0 => CutOff(op.first) /\ fat[op.first] # FREE /\ op.first \notin dirs
  BY DEF Running, NewChain, Filling
<1>6. op'.first # 0 => CutOff(op.first)' /\ fat'[op'.first] # FREE /\ op'.first \notin dirs'
  <2>1. PICK f : f = op.first
    OBVIOUS
  <2>2. CutOff(f) => CutOff(f)'
    BY <1>3, <1>4, HarmlessKeepsSecrets
  <2>. QED
    BY <1>3, <1>5, <2>1, <2>2 DEF CutOff, Unlinked, UnpointedElse
<1>7. IsEntryAt(op.pos)' => ~Unit(op.pos)'.dir
  BY <1>2, <1>3, <1>5, TypeFacts DEF IsEntryAt, Unit
<1>. QED
  BY <1>3, <1>4, <1>5, <1>6, <1>7
     DEF Running, PlaceIsDirectory, NewDirectory, NewCluster, NewChain, OldChain,
         Placing, Filling, Allocating

LEMMA CommitKeeps ==
    ASSUME TypeOK, TypeOK', Control, Volume, Running, Commit
    PROVE  Volume' /\ Running'
<1>. op.pc = "commit" /\ UNCHANGED <<fat, dirs>>
  BY DEF Commit
<1>. op \in Op
  BY DEF TypeOK
<1>1. PICK o \in Pos, f \in Cluster \cup {0} : o = op.pos /\ f = op.first
  BY TypeFacts
<1>2. /\ mem' = Set(o, Settled(o))
      /\ op'.pc = "bump" /\ op'.leg = op.leg /\ ~op'.loose
  BY <1>1 DEF Commit, Settled, Op
<1>3. /\ op.leg # 2
      /\ IsEntryAt(o) => ~Unit(o).dir
      /\ f # 0 => CutOff(f) /\ fat[f] # FREE /\ f \notin dirs
  BY <1>1 DEF Running, NewChain, Filling
<1>4. /\ IsEntryAt(o) => /\ Settled(o) \in Entry
                         /\ Settled(o).dir = Unit(o).dir
                         /\ Settled(o).first = f
      /\ ~IsEntryAt(o) => Settled(o) \notin Entry
      /\ Settled(o) \in Bytes \cup Entry
  BY <1>1, SettledType
<1>5. /\ Unit(o)' = Settled(o)
      /\ \A p \in Pos : p # o => Unit(p)' = Unit(p) /\ (IsEntryAt(p)' <=> IsEntryAt(p))
  BY <1>2, <1>4, SetFacts DEF Unit, IsEntryAt
<1>6. IsEntryAt(o)' => IsEntryAt(o) /\ ~Unit(o)'.dir /\ Unit(o)'.first = f
  BY <1>3, <1>4, <1>5 DEF IsEntryAt
<1>7. ASSUME NEW p \in Pointers'
      PROVE  \/ p = o /\ f # 0 /\ ~Unit(p)'.dir /\ Unit(p)'.first = f
             \/ p # o /\ p \in Pointers /\ Unit(p)' = Unit(p)
  <2>1. p \in Pos /\ p[1] \in dirs /\ IsEntryAt(p)' /\ Unit(p)'.first # 0
    BY <1>7 DEF Pointers
  <2>2. CASE p = o
    BY <1>6, <2>1, <2>2
  <2>3. CASE p # o
    BY <1>1, <1>5, <2>1, <2>3 DEF Pointers
  <2>. QED
    BY <2>2, <2>3
<1>8. \A p \in Pointers : p # o => Unit(p).first # f \/ f = 0
  BY <1>1, <1>3 DEF CutOff, UnpointedElse
<1>9. RootStays' /\ LinksAreSound'
  BY DEF Volume, RootStays, LinksAreSound, Unlinked
<1>10. DirsAreInUse'
  BY <1>5, <1>6 DEF Volume, DirsAreInUse
<1>11. PointersAreSound'
  <2>1. ASSUME NEW p \in Pointers'
        PROVE  /\ fat[Unit(p)'.first] # FREE
               /\ Unit(p)'.first # Root
               /\ \A b \in Cluster : fat[b] # Unit(p)'.first
               /\ Unit(p)'.dir <=> Unit(p)'.first \in dirs
    <3>1. CASE p = o
      BY <1>3, <1>7, <3>1 DEF CutOff, Unlinked
    <3>2. CASE p # o
      BY <1>7, <3>2 DEF Volume, PointersAreSound, Unlinked
    <3>. QED
      BY <3>1, <3>2
  <2>2. ASSUME NEW p \in Pointers', NEW q \in Pointers', Unit(p)'.first = Unit(q)'.first
        PROVE  p = q
    BY <1>7, <1>8, <2>2 DEF Volume, PointersAreSound
  <2>. QED
    BY <2>1, <2>2 DEF PointersAreSound, Unlinked
<1>12. Running'
  BY <1>2, <1>3
     DEF Running, PlaceIsDirectory, NewDirectory, NewCluster, NewChain, OldChain,
         Placing, Filling, Allocating
<1>. QED
  BY <1>9, <1>10, <1>11, <1>12 DEF Volume

LEMMA FillKeeps ==
    ASSUME TypeOK, TypeOK', Control, Volume, Running, Fill, "hurt" \notin faults'
    PROVE  Volume' /\ Running'
<1>1. CASE WriteDataShort
  BY <1>1, StopKeeps DEF WriteDataShort, Abort
<1>. QED
  BY <1>1, WalkKeeps, WriteDataKeeps, CommitKeeps DEF Fill

-----------------------------------------------------------------------------
(* Giving back a chain.                                                    *)

LEMMA EmptyKeeps ==
    ASSUME TypeOK, TypeOK', Control, Volume, Running, EmptyNext \/ EmptyYes
    PROVE  Volume' /\ Running'
<1>. op.pc = "empty" /\ UNCHANGED <<fat, mem, dirs>>
  BY DEF EmptyNext, EmptyYes, Move
<1>. op \in Op
  BY DEF TypeOK
<1>1. op.kind = "rm" /\ op.leg # 2 /\ CutOff(op.first) /\ ~op.loose
  BY DEF Running, OldChain, Filling, Allocating
<1>2. /\ op'.kind = "rm" /\ op'.leg = op.leg /\ op'.pos = op.pos /\ ~op'.loose
      /\ op'.first = op.first
      /\ \/ op'.pc = "empty" /\ op'.cl \in Cluster
         \/ op'.pc = "free" /\ op'.cl = op.first
  BY <1>1 DEF EmptyNext, EmptyYes, Move, GoesOn, Op
<1>3. Harmless /\ Volume'
  BY <1>1, HarmlessKeepsVolume DEF Harmless
<1>4. PICK f : f = op.first
  OBVIOUS
<1>5. CutOff(f)'
  BY <1>1, <1>2, <1>3, <1>4, HarmlessKeepsSecrets
<1>6. CutOff(op.first)' /\ (op'.pc = "free" => CutOff(op.cl)')
  BY <1>2, <1>4, <1>5 DEF CutOff, Unlinked, UnpointedElse
<1>. QED
  BY <1>1, <1>2, <1>3, <1>6
     DEF Running, PlaceIsDirectory, NewDirectory, NewCluster, NewChain, OldChain,
         Placing, Filling, Allocating

LEMMA FreeClusterKeeps ==
    ASSUME TypeOK, TypeOK', Control, Volume, Running, FreeCluster
    PROVE  Volume' /\ Running'
<1>. op.pc = "free" /\ mem' = mem
  BY DEF FreeCluster
<1>. op \in Op /\ dirs \subseteq Cluster
  BY DEF TypeOK
<1>1. PICK c \in Cluster : c = op.cl
  BY DEF Control
<1>2. /\ op.kind \in {"write", "rm"} /\ op.leg # 2
      /\ c # Root
      /\ \A b \in Cluster : fat[b] # c
      /\ \A p \in Pointers : p # op.pos => Unit(p).first # c
      /\ op.kind = "write" => /\ c \notin dirs
                              /\ IsEntryAt(op.pos) => ~Unit(op.pos).dir
  BY <1>1 DEF Running, OldChain, CutOff, Unlinked, UnpointedElse
<1>3. /\ dirs' = dirs \ {c}
      /\ \A b \in Cluster : fat'[b] = IF b = c THEN FREE ELSE fat[b]
  BY <1>1 DEF FreeCluster, TypeOK
<1>4. op'.kind = op.kind /\ op'.leg = op.leg /\ op'.pos = op.pos /\ op'.loose
  <2>1. PICK next \in {fat[op.cl], EOC} :
           op' = IF next \in Cluster THEN [op EXCEPT !.cl = next, !.loose = TRUE]
                 ELSE IF op.kind = "write"
                      THEN [op EXCEPT !.first = 0, !.pc = "ensure", !.loose = TRUE]
                      ELSE [op EXCEPT !.pc = "unlink", !.loose = TRUE]
    BY DEF FreeCluster
  <2>. QED
    BY <2>1 DEF Op
<1>5. \A p \in Pointers' : /\ p \in Pointers /\ p # op.pos /\ Unit(p)' = Unit(p)
                           /\ Unit(p).first # c /\ Unit(p).first \in Cluster
  BY <1>2, <1>3, <1>4, EntryFacts DEF Pointers, IsEntryAt, Unit
<1>6. \A b \in Cluster : fat'[b] \in Cluster => b # c /\ fat[b] # c /\ fat'[b] = fat[b]
  BY <1>2, <1>3, Clusters
<1>7. Volume'
  <2>1. RootStays'
    BY <1>2, <1>3, <1>6, Clusters DEF Volume, RootStays, Unlinked
  <2>2. DirsAreInUse'
    BY <1>3 DEF Volume, DirsAreInUse, Unit, IsEntryAt
  <2>3. LinksAreSound'
    BY <1>3, <1>6 DEF Volume, LinksAreSound
  <2>4. PointersAreSound'
    <3>1. ASSUME NEW p \in Pointers'
          PROVE  /\ fat'[Unit(p).first] # FREE
                 /\ Unit(p).first # Root
                 /\ \A b \in Cluster : fat'[b] # Unit(p).first
                 /\ Unit(p).dir <=> Unit(p).first \in dirs'
      <4>1. /\ fat[Unit(p).first] # FREE
            /\ Unit(p).first # Root
            /\ \A b \in Cluster : fat[b] # Unit(p).first
            /\ Unit(p).dir <=> Unit(p).first \in dirs
        BY <1>5 DEF Volume, PointersAreSound, Unlinked
      <4>. QED
        BY <1>3, <1>5, <1>6, <4>1
    <3>. QED
      BY <1>5, <3>1 DEF Volume, PointersAreSound, Unlinked
  <2>. QED
    BY <2>1, <2>2, <2>3, <2>4 DEF Volume
<1>8. CASE fat[c] \in Cluster /\ op'.cl = fat[c] /\ op'.pc = "free"
  <2>1. PICK n \in Cluster : n = fat[c]
    BY <1>8
  <2>2. n # Root /\ (\A b \in Cluster : fat'[b] # n) /\ (n \in dirs <=> c \in dirs)
    BY <1>6, <2>1 DEF Volume, RootStays, Unlinked, LinksAreSound
  <2>3. \A p \in Pointers' : Unit(p)'.first # n
    BY <1>5, <2>1 DEF Volume, PointersAreSound, Unlinked
  <2>4. CutOff(op.cl)'
    BY <1>8, <2>1, <2>2, <2>3 DEF CutOff, Unlinked, UnpointedElse
  <2>5. op.kind = "write" => op'.cl \notin dirs' /\ (IsEntryAt(op.pos)' => ~Unit(op.pos)'.dir)
    BY <1>2, <1>3, <1>4, <1>8, <2>1, <2>2 DEF IsEntryAt, Unit
  <2>. QED
    BY <1>2, <1>4, <1>7, <1>8, <2>4, <2>5
       DEF Running, PlaceIsDirectory, NewDirectory, NewCluster, NewChain, OldChain,
           Placing, Filling, Allocating
<1>9. CASE op.kind = "write" /\ op'.pc = "ensure" /\ op'.first = 0
  <2>1. IsEntryAt(op.pos)' => ~Unit(op.pos)'.dir
    BY <1>2, <1>4, <1>9 DEF IsEntryAt, Unit
  <2>. QED
    BY <1>2, <1>4, <1>7, <1>9, <2>1
       DEF Running, PlaceIsDirectory, NewDirectory, NewCluster, NewChain, OldChain,
           Placing, Filling, Allocating
<1>10. CASE op.kind = "rm" /\ op'.pc = "unlink"
  BY <1>2, <1>4, <1>7, <1>10
     DEF Running, PlaceIsDirectory, NewDirectory, NewCluster, NewChain, OldChain,
         Placing, Filling, Allocating
<1>. QED
  <2>1. PICK next \in {fat[op.cl], EOC} :
           op' = IF next \in Cluster THEN [op EXCEPT !.cl = next, !.loose = TRUE]
                 ELSE IF op.kind = "write"
                      THEN [op EXCEPT !.first = 0, !.pc = "ensure", !.loose = TRUE]
                      ELSE [op EXCEPT !.pc = "unlink", !.loose = TRUE]
    BY DEF FreeCluster
  <2>2. CASE next \in Cluster
    <3>1. op'.cl = next /\ op'.pc = "free" /\ next = fat[c]
      BY <1>1, <2>1, <2>2, Clusters DEF Op
    <3>. QED
      BY <1>8, <2>2, <3>1
  <2>3. CASE next \notin Cluster /\ op.kind = "write"
    <3>1. op'.pc = "ensure" /\ op'.first = 0
      BY <2>1, <2>3 DEF Op
    <3>. QED
      BY <1>9, <2>3, <3>1
  <2>4. CASE next \notin Cluster /\ op.kind # "write"
    <3>1. op'.pc = "unlink" /\ op.kind = "rm"
      BY <1>2, <2>1, <2>4 DEF Op
    <3>. QED
      BY <1>10, <3>1
  <2>. QED
    BY <2>2, <2>3, <2>4

LEMMA RemoveKeeps ==
    ASSUME TypeOK, TypeOK', Control, Volume, Running, Remove, "hurt" \notin faults'
    PROVE  Volume' /\ Running'
<1>1. CASE EmptyNo
  BY <1>1, StopKeeps DEF EmptyNo, Abort
<1>2. CASE Unlink
  <2>1. /\ op.kind = "rm" /\ op.leg # 2 /\ op \in Op /\ op.pos \in Pos
        /\ mem' = Set(op.pos, Deleted) /\ fat' = fat /\ dirs' = dirs
    BY <1>2 DEF Unlink, Running, OldChain, TypeOK, Op
  <2>2. Deleted \in Bytes /\ Deleted \notin Entry
    BY UnitsAssumption DEF Bytes
  <2>3. Harmless
    <3>1. /\ mem'[op.pos[1]][op.pos[2]] = Deleted
          /\ \A p \in Pos : p # op.pos => mem'[p[1]][p[2]] = mem[p[1]][p[2]]
      BY <2>1, <2>2, SetFacts
    <3>. QED
      BY <2>1, <2>2, <3>1 DEF Harmless
  <2>4. op'.pc = "bump" /\ op'.kind = "rm" /\ op'.leg = op.leg /\ ~op'.loose
    BY <1>2, <2>1 DEF Unlink, Op
  <2>5. Running'
    BY <2>1, <2>4
       DEF Running, PlaceIsDirectory, NewDirectory, NewCluster, NewChain, OldChain,
           Placing, Filling, Allocating
  <2>. QED
    BY <2>3, <2>5, HarmlessKeepsVolume
<1>. QED
  BY <1>1, <1>2, EmptyKeeps, FreeClusterKeeps DEF Remove

-----------------------------------------------------------------------------
(* Between operations.                                                     *)

LEMMA HeadsAreDirs ==
    ASSUME TypeOK, Volume, ~op.loose
    PROVE  Heads \subseteq dirs
<1>1. ASSUME NEW p \in Pos, p[1] \in dirs, IsEntryAt(p), Unit(p).dir
      PROVE  Start(Unit(p)) \in dirs
  BY <1>1, EntryHolds
<1>. QED
  BY <1>1 DEF Heads, Volume, RootStays

LEMMA BeginKeeps ==
    ASSUME TypeOK, TypeOK', Volume, Running, "hurt" \notin faults',
           NEW k, NEW d, NEW n, NEW t, Begin(k, d, n, t)
    PROVE  Volume' /\ Running'
<1>. op.pc = "idle" /\ UNCHANGED <<fat, mem, dirs>>
  BY DEF Begin
<1>1. ~op.loose
  BY DEF Running, OldChain, Filling, Allocating
<1>2. d \in dirs
  BY <1>1, HeadsAreDirs DEF Begin, Noting
<1>3. op'.pc = "find" /\ op'.dir = d /\ op'.cl = d /\ op'.first = 0 /\ ~op'.loose
  <2>1. \E leg : op' = [Idle EXCEPT !.kind = k, !.leg = leg, !.pc = "find", !.dir = d,
                                    !.cl = d, !.name = n, !.text = t]
    BY DEF Begin
  <2>. QED
    BY <2>1 DEF Idle
<1>4. Harmless
  BY <1>1 DEF Harmless
<1>. QED
  BY <1>2, <1>3, <1>4, HarmlessKeepsVolume
     DEF Running, PlaceIsDirectory, NewDirectory, NewCluster, NewChain, OldChain,
         Placing, Filling, Allocating

LEMMA BumpKeeps ==
    ASSUME TypeOK, TypeOK', Control, Volume, Running, Bump
    PROVE  Volume' /\ Running'
<1>. op.pc = "bump" /\ UNCHANGED <<fat, mem, dirs>> /\ op \in Op
  BY DEF Bump, TypeOK
<1>1. ~op.loose
  BY DEF Running, OldChain, Filling, Allocating
<1>2. Harmless /\ Volume'
  BY <1>1, HarmlessKeepsVolume DEF Harmless
<1>3. CASE op' = Idle
  BY <1>2, <1>3, IdleRunning
<1>4. CASE op.leg = 2 /\ op' = [op EXCEPT !.leg = 3, !.pc = "find", !.cl = op.dir]
  <2>1. op.dir \in dirs /\ op.first = 0
    BY <1>4 DEF Running, PlaceIsDirectory, NewDirectory, Placing, Control
  <2>2. /\ op'.pc = "find" /\ op'.dir = op.dir /\ op'.cl = op.dir /\ op'.first = 0 /\ ~op'.loose
        /\ op'.leg = 3
    BY <1>1, <1>4, <2>1 DEF Op
  <2>. QED
    BY <1>2, <2>1, <2>2
       DEF Running, PlaceIsDirectory, NewDirectory, NewCluster, NewChain, OldChain,
           Placing, Filling, Allocating
<1>. QED
  BY <1>3, <1>4 DEF Bump

-----------------------------------------------------------------------------
(* The invariant.                                                          *)

LEMMA InitInv == Init => Inv
<1>. SUFFICES ASSUME Init PROVE Inv
  OBVIOUS
<1>1. TypeOK /\ Control
  BY InitTypes
<1>2. \A p \in Pos : ~IsEntryAt(p)
  <2>1. \A p \in Pos : Unit(p) = Zero
    BY <1>1, TypeFacts DEF Init, Pos, Unit
  <2>. QED
    BY <2>1, UnitsAssumption DEF IsEntryAt, Bytes
<1>3. Volume
  BY <1>2, Clusters
     DEF Init, Volume, RootStays, DirsAreInUse, LinksAreSound, PointersAreSound, Pointers, Unlinked
<1>4. Running
  BY DEF Init, Idle, Running, PlaceIsDirectory, NewDirectory, NewCluster, NewChain, OldChain,
         Placing, Filling, Allocating
<1>. QED
  BY <1>1, <1>3, <1>4 DEF Inv

LEMMA StepInv == Inv /\ [Next]_vars => Inv'
<1>. SUFFICES ASSUME Inv, [Next]_vars PROVE Inv'
  OBVIOUS
<1>1. TypeOK /\ Control /\ TypeOK' /\ Control' /\ faults \subseteq faults'
  BY StepTypes DEF Inv
<1>2. ASSUME "hurt" \notin faults'
      PROVE  Volume' /\ Running'
  <2>. Volume /\ Running
    BY <1>1, <1>2 DEF Inv
  <2>. USE <1>1
  <2>1. CASE Call
    <3>1. PICK k, d, n, t : Begin(k, d, n, t)
      BY <2>1 DEF Call
    <3>. QED
      BY <1>2, <3>1, BeginKeeps
  <2>2. CASE (\E d \in Heads : Cd(d)) \/ UNCHANGED vars
    <3>1. UNCHANGED <<fat, mem, op, dirs>>
      BY <2>2 DEF Cd, vars
    <3>2. Volume' /\ Running'
      BY <3>1
         DEF Volume, RootStays, DirsAreInUse, LinksAreSound, PointersAreSound, Pointers, Unit,
             IsEntryAt, Running, PlaceIsDirectory, NewDirectory, NewCluster, NewChain, OldChain,
             Placing, Filling, Allocating, EmptyCluster, Fresh, CutOff, Unlinked, Unpointed,
             UnpointedElse
    <3>. QED
      BY <3>2
  <2>3. CASE Find
    BY <2>3, FindHitKeeps, FindOnKeeps
  <2>4. CASE Alloc
    BY <1>2, <2>4, MarkKeeps, ZeroClusterKeeps, LinkKeepsVolume, LinkKeepsRunning, StopKeeps
       DEF Alloc, NoSpace, Abort
  <2>5. CASE Place
    BY <1>2, <2>5, PlaceKeeps
  <2>6. CASE Fill
    BY <1>2, <2>6, FillKeeps
  <2>7. CASE Remove
    BY <1>2, <2>7, RemoveKeeps
  <2>8. CASE Bump
    BY <2>8, BumpKeeps
  <2>9. CASE Fail \/ PowerCut
    BY <1>2, <2>9, StopKeeps DEF Fail, Abort, PowerCut
  <2>. QED
    BY <2>1, <2>2, <2>3, <2>4, <2>5, <2>6, <2>7, <2>8, <2>9 DEF Next, Step
<1>. QED
  BY <1>1, <1>2 DEF Inv

LEMMA Invariant == Spec => []Inv
<1>1. Init => Inv
  BY InitInv
<1>2. Inv /\ [Next]_vars => Inv'
  BY StepInv
<1>. QED
  BY <1>1, <1>2, PTL DEF Spec

-----------------------------------------------------------------------------
(* Whatever fails and whenever the power goes, no cluster is on two        *)
(* chains, and none on a chain is free, unless an operation stopped        *)
(* between freeing a chain and rewriting the entry that leads to it, or    *)
(* one was run in a directory that had been removed.                       *)
THEOREM NothingIsCrossLinked == Spec => []NoCrossLinks
<1>1. Inv => NoCrossLinks
  BY DEF Inv, Volume, LinksAreSound, PointersAreSound, Unlinked, NoCrossLinks
<1>. QED
  BY <1>1, Invariant, PTL

(* Under the same two exceptions, no cluster serves both a directory and a *)
(* file, and an entry leads to a directory just when it says so.           *)
THEOREM FilesStayApart == Spec => []FilesApart
<1>1. Inv => FilesApart
  BY DEF Inv, Volume, LinksAreSound, PointersAreSound, FilesApart
<1>. QED
  BY <1>1, Invariant, PTL

-----------------------------------------------------------------------------
(* What a chain reaches: the least set of clusters that holds its first    *)
(* and, with a cluster, the one that it links to.                          *)

Closed(S) == \A c \in S : fat[c] \in Cluster => fat[c] \in S

Reach(d) == {c \in Cluster : \A S \in SUBSET Cluster : d \in S /\ Closed(S) => c \in S}

-----------------------------------------------------------------------------
(* Names.                                                                  *)

(* The unused units of a directory are at its end.                         *)
TailAt(c) ==
    /\ \A u, v \in Slot : u < v /\ mem[c][u] = Zero => mem[c][v] = Zero
    /\ fat[c] \in Cluster /\ (\E u \in Slot : mem[c][u] = Zero) => EmptyCluster(fat[c])

ZeroTail == \A c \in dirs : TailAt(c)

OneName(d) ==
    \A c, b \in Reach(d) : \A u, v \in Slot :
       mem[c][u] \in Entry /\ mem[b][v] \in Entry /\ mem[c][u].name = mem[b][v].name
          => c = b /\ u = v

NamesDiffer == \A d \in Heads : OneName(d)

(* The search has seen this cluster: it is full, without the name.         *)
Passed(c) == \A u \in Slot : mem[c][u] # Zero /\ ~Matches(mem[c][u])

Nameless(c) == \A u \in Slot : ~Matches(mem[c][u])

PlaceIsReached ==
    /\ Placing => op.dir \in Heads
    /\ op.pc \in {"find", "slot"} => op.cl \in Reach(op.dir)
    /\ op.pc = "entry" => op.pos[1] \in Reach(op.dir)

SearchedInVain ==
    /\ op.pc = "find" => \A c \in Reach(op.dir) \ Reach(op.cl) : Passed(c)
    /\ op.pc \in {"slot", "tail", "entry"} \/ Allocating({"mkdir", "extend"})
          => \A c \in Reach(op.dir) : Nameless(c)

FullBefore(c) == \A b \in dirs : fat[b] = c => \A u \in Slot : ~FreeUnit(b, u)

FirstFree ==
    /\ op.pc = "slot" => FullBefore(op.cl)
    /\ op.pc = "entry" => /\ FullBefore(op.pos[1])
                          /\ FreeUnit(op.pos[1], op.pos[2])
                          /\ \A v \in 1 .. op.pos[2] - 1 : ~FreeUnit(op.pos[1], v)

EntryAtHand ==
    /\ Filling \/ op.pc \in {"free", "empty", "unlink"} =>
          /\ Unit(op.pos) # Zero
          /\ op.kind # "rm" => op.pos[1] \in dirs
    /\ op.pc = "data" /\ op.cl \in Cluster => op.cl \notin dirs

Named == ZeroTail /\ NamesDiffer /\ PlaceIsReached /\ SearchedInVain /\ FirstFree /\ EntryAtHand

Naming == faults \cap {"hurt", "blind"} = {} => Named

-----------------------------------------------------------------------------
(* Chains.                                                                 *)

LEMMA ReachHolds ==
    ASSUME NEW d \in Cluster
    PROVE  /\ d \in Reach(d)
           /\ \A c \in Reach(d) : c \in Cluster /\ (fat[c] \in Cluster => fat[c] \in Reach(d))
BY DEF Reach, Closed

LEMMA ReachIsLeast ==
    ASSUME NEW d, NEW S \in SUBSET Cluster, d \in S, Closed(S)
    PROVE  \A c \in Reach(d) : c \in S
BY DEF Reach

(* Whoever is on the way stays on it.                                      *)
LEMMA ReachGoesOn ==
    ASSUME NEW d \in Cluster, NEW c \in Reach(d)
    PROVE  \A b \in Reach(c) : b \in Reach(d)
<1>1. Reach(d) \in SUBSET Cluster /\ Closed(Reach(d))
  BY ReachHolds DEF Reach, Closed
<1>. QED
  BY <1>1, ReachIsLeast

(* One step on, only the cluster left behind is missing.                   *)
LEMMA ReachSteps ==
    ASSUME NEW c \in Cluster
    PROVE  \A b \in Reach(c) : b = c \/ (fat[c] \in Cluster /\ b \in Reach(fat[c]))
<1>. DEFINE S == {c} \cup {b \in Cluster : fat[c] \in Cluster /\ b \in Reach(fat[c])}
<1>1. S \in SUBSET Cluster /\ c \in S
  OBVIOUS
<1>2. Closed(S)
  BY ReachHolds DEF Closed
<1>. QED
  BY <1>1, <1>2, ReachIsLeast

(* Who is not the first has somebody before it.                            *)
LEMMA ReachFrom ==
    ASSUME NEW d \in Cluster, NEW c \in Reach(d), c # d
    PROVE  \E b \in Reach(d) : fat[b] = c
<1>. SUFFICES ASSUME \A b \in Reach(d) : fat[b] # c PROVE FALSE
  OBVIOUS
<1>. DEFINE S == Reach(d) \ {c}
<1>1. S \in SUBSET Cluster /\ d \in S /\ Closed(S)
  BY ReachHolds DEF Closed, Reach
<1>2. c \in S
  BY <1>1, ReachIsLeast
<1>. QED
  BY <1>2

LinksAreApart == \A c, d \in Cluster : fat[c] = fat[d] /\ fat[c] \in Cluster => c = d

(* Two chains with different beginnings do not meet.                       *)
LEMMA ReachesAreApart ==
    ASSUME NEW d \in Cluster, NEW b \in Cluster, d # b, Unlinked(d), Unlinked(b), LinksAreApart
    PROVE  \A c \in Reach(d) : c \notin Reach(b)
<1>. DEFINE S == {c \in Reach(d) : c \notin Reach(b)}
<1>1. S \in SUBSET Cluster
  BY DEF Reach
<1>2. d \in S
  <2>1. d \in Reach(d)
    BY ReachHolds
  <2>2. d \notin Reach(b)
    BY ReachFrom, ReachHolds DEF Unlinked
  <2>. QED
    BY <2>1, <2>2
<1>3. ASSUME NEW c \in S, fat[c] \in Cluster
      PROVE  fat[c] \in S
  <2>1. fat[c] \in Reach(d) /\ c \in Cluster
    BY <1>3, ReachHolds
  <2>2. ASSUME fat[c] \in Reach(b)
        PROVE  FALSE
    <3>1. fat[c] # b
      BY <2>1 DEF Unlinked
    <3>2. PICK a \in Reach(b) : fat[a] = fat[c]
      BY <2>2, <3>1, ReachFrom
    <3>3. a = c
      BY <1>3, <2>1, <3>2, ReachHolds DEF LinksAreApart
    <3>. QED
      BY <3>3
  <2>. QED
    BY <2>1, <2>2
<1>4. Closed(S)
  BY <1>3 DEF Closed
<1>5. \A c \in Reach(d) : c \in S
  BY <1>1, <1>2, <1>4, ReachIsLeast
<1>. QED
  BY <1>5

(* Fewer links reach less.                                                 *)
LEMMA ReachShrinks ==
    ASSUME \A c \in Cluster : fat'[c] \in Cluster => fat'[c] = fat[c], NEW d \in Cluster
    PROVE  \A c \in Reach(d)' : c \in Reach(d)
<1>1. ASSUME NEW S \in SUBSET Cluster, Closed(S)
      PROVE  \A c \in S : fat'[c] \in Cluster => fat'[c] \in S
  BY <1>1 DEF Closed
<1>. QED
  BY <1>1 DEF Reach, Closed

(* A new last link reaches one cluster more.                               *)
LEMMA ReachGrows ==
    ASSUME NEW d \in Cluster, NEW l \in Cluster, NEW n \in Cluster, l # n,
           fat[n] \notin Cluster, fat'[l] = n, \A c \in Cluster : c # l => fat'[c] = fat[c]
    PROVE  \A c \in Reach(d)' : c \in Reach(d) \/ c = n
<1>. DEFINE S == Reach(d) \cup {n}
<1>1. S \in SUBSET Cluster /\ d \in S
  BY ReachHolds DEF Reach
<1>2. ASSUME NEW c \in S, fat'[c] \in Cluster
      PROVE  fat'[c] \in S
  BY <1>2, ReachHolds
<1>3. \A c \in S : fat'[c] \in Cluster => fat'[c] \in S
  BY <1>2
<1>4. \A c \in Reach(d)' : c \in S
  <2>. HIDE DEF S
  <2>. QED
    BY <1>1, <1>3 DEF Reach, Closed
<1>. QED
  BY <1>4

LEMMA SameReach ==
    ASSUME UNCHANGED fat
    PROVE  \A d : Reach(d)' = Reach(d)
BY DEF Reach, Closed

-----------------------------------------------------------------------------
(* Names on the disk.                                                      *)

Still == UNCHANGED <<fat, mem, dirs>>

LEMMA StillNamed ==
    ASSUME Still
    PROVE  /\ Heads' = Heads
           /\ \A d : Reach(d)' = Reach(d)
           /\ ZeroTail => ZeroTail'
           /\ NamesDiffer => NamesDiffer'
<1>. fat' = fat /\ mem' = mem /\ dirs' = dirs
  BY DEF Still
<1>1. Heads' = Heads
  BY DEF Heads, Unit, IsEntryAt
<1>2. \A d : Reach(d)' = Reach(d)
  BY SameReach
<1>3. ZeroTail => ZeroTail'
  BY DEF ZeroTail, TailAt, EmptyCluster
<1>4. NamesDiffer => NamesDiffer'
  BY <1>1, <1>2 DEF NamesDiffer, OneName
<1>. QED
  BY <1>1, <1>2, <1>3, <1>4

(* Nothing is named, linked or made a directory.                           *)
Tidy ==
    /\ \A c \in dirs' : c \in dirs
    /\ \A c \in Cluster : fat'[c] \in Cluster => fat'[c] = fat[c]
    /\ \A c \in Cluster, u \in Slot : mem'[c][u] \in Entry =>
          /\ mem[c][u] \in Entry
          /\ mem'[c][u].name = mem[c][u].name
          /\ mem'[c][u].dir = mem[c][u].dir
          /\ mem'[c][u].dir => mem'[c][u] = mem[c][u]

LEMMA TidyHeads ==
    ASSUME TypeOK, TypeOK', Tidy
    PROVE  \A d \in Heads' : d \in Heads
<1>1. ASSUME NEW p \in Pos, p[1] \in dirs', mem'[p[1]][p[2]] \in Entry, mem'[p[1]][p[2]].dir
      PROVE  /\ p[1] \in dirs /\ IsEntryAt(p) /\ Unit(p).dir
             /\ Unit(p)' = Unit(p)
  <2>1. p[1] \in Cluster /\ p[2] \in Slot
    BY DEF Pos
  <2>. QED
    BY <1>1, <2>1 DEF Tidy, Unit, IsEntryAt
<1>2. ASSUME NEW d \in Heads'
      PROVE  d \in Heads
  <2>1. CASE d = Root
    BY <2>1 DEF Heads
  <2>2. CASE d # Root
    <3>1. PICK p \in Pos : /\ p[1] \in dirs' /\ IsEntryAt(p)' /\ Unit(p)'.dir
                           /\ d = Start(Unit(p)')
      BY <1>2, <2>2 DEF Heads, Start
    <3>2. /\ p[1] \in dirs /\ IsEntryAt(p) /\ Unit(p).dir
          /\ Unit(p)' = Unit(p)
      BY <1>1, <3>1 DEF Unit, IsEntryAt
    <3>. QED
      BY <3>1, <3>2 DEF Heads
  <2>. QED
    BY <2>1, <2>2
<1>. QED
  BY <1>2

LEMMA HeadsInCluster == TypeOK => \A d \in Heads : d \in Cluster
BY HeadsAreClusters

LEMMA TidyKeepsNames ==
    ASSUME TypeOK, TypeOK', Tidy, NamesDiffer
    PROVE  NamesDiffer'
<1>1. ASSUME NEW d \in Heads'
      PROVE  OneName(d)'
  <2>1. d \in Heads /\ d \in Cluster
    BY TidyHeads, HeadsInCluster
  <2>2. \A c \in Reach(d)' : c \in Reach(d) /\ c \in Cluster
    BY <2>1, ReachShrinks DEF Tidy, Reach
  <2>3. OneName(d)
    BY <2>1 DEF NamesDiffer
  <2>. QED
    BY <2>2, <2>3 DEF OneName, Tidy
<1>. QED
  BY <1>1 DEF NamesDiffer

(* A unit is written over a used one, or at the end of what is used.       *)
LEMMA TailKept ==
    ASSUME TypeOK, ZeroTail, NEW p \in Pos, NEW b \in Bytes \cup Entry, b # Zero,
           mem' = Set(p, b), fat' = fat, NEW c \in dirs,
           \/ Unit(p) # Zero
           \/ FullBefore(p[1]) /\ \A v \in 1 .. p[2] - 1 : mem[p[1]][v] # Zero
    PROVE  TailAt(c)'
<1>0. c \in Cluster /\ p[1] \in Cluster /\ p[2] \in Slot /\ p = <<p[1], p[2]>>
      /\ Slot \subseteq Nat /\ Unit(p) = mem[p[1]][p[2]]
  BY SlotsAssumption DEF TypeOK, Pos, Slot, Unit
<1>1. /\ mem'[p[1]][p[2]] # Zero
      /\ \A d \in Cluster, u \in Slot : <<d, u>> # p => mem'[d][u] = mem[d][u]
  <2>1. ASSUME NEW d \in Cluster, NEW u \in Slot, <<d, u>> # p
        PROVE  mem'[d][u] = mem[d][u]
    <3>1. <<d, u>> \in Pos
      BY DEF Pos
    <3>. QED
      BY <2>1, <3>1, SetFacts
  <2>. QED
    BY <2>1, SetFacts
<1>2. \A d \in Cluster, u \in Slot : mem'[d][u] = Zero => mem[d][u] = Zero /\ <<d, u>> # p
  BY <1>0, <1>1
<1>3. TailAt(c)
  BY DEF ZeroTail
<1>4. ASSUME NEW u \in Slot, NEW v \in Slot, u < v, mem'[c][u] = Zero
      PROVE  mem'[c][v] = Zero
  <2>1. mem[c][u] = Zero /\ mem[c][v] = Zero
    BY <1>0, <1>2, <1>3, <1>4 DEF TailAt
  <2>2. <<c, v>> # p
    <3>1. ASSUME c = p[1], v = p[2]
          PROVE  FALSE
      <4>1. u \in 1 .. p[2] - 1
        BY <1>0, <1>4, <3>1, SlotsAssumption DEF Slot
      <4>. QED
        BY <1>0, <2>1, <3>1, <4>1
    <3>. QED
      BY <3>1
  <2>. QED
    BY <1>0, <1>1, <2>1, <2>2
<1>5. ASSUME fat'[c] \in Cluster, NEW u \in Slot, mem'[c][u] = Zero
      PROVE  EmptyCluster(fat[c])'
  <2>1. mem[c][u] = Zero /\ fat[c] \in Cluster
    BY <1>0, <1>2, <1>5
  <2>2. EmptyCluster(fat[c])
    BY <1>3, <2>1 DEF TailAt
  <2>3. fat[c] # p[1]
    <3>1. ASSUME fat[c] = p[1]
          PROVE  FALSE
      <4>1. Unit(p) = Zero
        BY <1>0, <2>2, <3>1 DEF EmptyCluster
      <4>2. ~FreeUnit(c, u)
        BY <4>1, <3>1 DEF FullBefore
      <4>. QED
        BY <2>1, <4>2 DEF FreeUnit
    <3>. QED
      BY <3>1
  <2>. QED
    BY <1>1, <2>1, <2>2, <2>3 DEF EmptyCluster
<1>6. fat'[c] = fat[c]
  OBVIOUS
<1>. QED
  BY <1>4, <1>5, <1>6 DEF TailAt, EmptyCluster

(* Nothing of the directories' clusters has changed.                       *)
LEMMA TailUntouched ==
    ASSUME TypeOK, Volume, ZeroTail, \A c \in dirs' : c \in dirs,
           \A c \in dirs : mem'[c] = mem[c],
           \A c \in Cluster : fat'[c] \in Cluster => fat'[c] = fat[c]
    PROVE  ZeroTail'
<1>1. ASSUME NEW c \in dirs'
      PROVE  TailAt(c)'
  <2>1. c \in dirs /\ c \in Cluster /\ TailAt(c)
    BY DEF ZeroTail, TypeOK
  <2>2. fat[c] \in Cluster => fat[c] \in dirs
    BY <2>1 DEF Volume, LinksAreSound
  <2>. QED
    BY <2>1, <2>2 DEF TailAt, EmptyCluster
<1>. QED
  BY <1>1 DEF ZeroTail

-----------------------------------------------------------------------------
(* Names and the steps that only read.                                     *)

LEMMA NamedIdle ==
    ASSUME op' = Idle, ZeroTail', NamesDiffer'
    PROVE  Named'
BY DEF Idle, Named, PlaceIsReached, SearchedInVain, FirstFree, EntryAtHand, Placing, Filling,
       Allocating

LEMMA SearchStarts ==
    ASSUME Still, ZeroTail, NamesDiffer, op'.pc = "find", op'.dir \in Heads, op'.dir \in Cluster,
           op'.cl = op'.dir
    PROVE  Named'
<1>1. /\ Heads' = Heads /\ ZeroTail' /\ NamesDiffer'
      /\ \A d : Reach(d)' = Reach(d)
  BY StillNamed
<1>2. op'.dir \in Reach(op'.dir)
  BY ReachHolds
<1>. QED
  BY <1>1, <1>2 DEF Named, PlaceIsReached, SearchedInVain, FirstFree, EntryAtHand, Placing, Filling,
                    Allocating

LEMMA EntryTaken ==
    ASSUME TypeOK, Still, ZeroTail, NamesDiffer,
           op'.pc \in {"free", "empty", "unlink", "ensure"}, op'.pos \in Pos,
           Unit(op'.pos) # Zero, op'.kind # "rm" => op'.pos[1] \in dirs
    PROVE  Named'
<1>1. Heads' = Heads /\ ZeroTail' /\ NamesDiffer'
  BY StillNamed
<1>2. Unit(op.pos)' = Unit(op'.pos) /\ dirs' = dirs
  BY DEF Unit, Still
<1>. QED
  BY <1>1, <1>2 DEF Named, PlaceIsReached, SearchedInVain, FirstFree, EntryAtHand, Placing, Filling,
                    Allocating

(* What becomes of an entry that was found.                                *)
LEMMA TakenOrNot ==
    ASSUME op \in Op, NEW p, op' = WithEntry(p)
    PROVE  \/ op' = Idle
           \/ op' = [op EXCEPT !.leg = 3, !.cl = op.dir]
           \/ op'.pos = p /\ op'.pc \in {"free", "empty", "unlink", "ensure"}
<1>1. PICK s : s = Start(Unit(p))
  OBVIOUS
<1>2. PICK h : h = [op EXCEPT !.pos = p, !.first = s, !.cl = s]
  OBVIOUS
<1>3. h = Here(p)
  BY <1>1, <1>2 DEF Here
<1>4. ASSUME NEW pc \in {"empty", "free", "unlink", "ensure"},
             \/ op' = [h EXCEPT !.pc = pc]
             \/ op' = [h EXCEPT !.size = Len(op.text), !.pc = pc]
             \/ op' = [h EXCEPT !.size = Unit(p).size + Len(op.text), !.off = Unit(p).size, !.pc = pc]
      PROVE  op'.pos = p /\ op'.pc \in {"free", "empty", "unlink", "ensure"}
  BY <1>2, <1>4 DEF Op
<1>. HIDE <1>1, <1>2
<1>5. \/ op' = Idle
      \/ op' = [op EXCEPT !.leg = 3, !.cl = op.dir]
      \/ op' = [h EXCEPT !.pc = "empty"]
      \/ op' = [h EXCEPT !.pc = "free"]
      \/ op' = [h EXCEPT !.pc = "unlink"]
      \/ op' = [h EXCEPT !.size = Len(op.text), !.pc = "free"]
      \/ op' = [h EXCEPT !.size = Len(op.text), !.pc = "ensure"]
      \/ op' = [h EXCEPT !.size = Unit(p).size + Len(op.text), !.off = Unit(p).size, !.pc = "ensure"]
  BY <1>3, WithCases
<1>. QED
  BY <1>4, <1>5

LEMMA FindHitNamed ==
    ASSUME TypeOK, Control, Volume, Running, Named, FindHit
    PROVE  Named'
<1>. op.pc = "find" /\ op \in Op /\ Still
  BY DEF FindHit, Move, Still, TypeOK
<1>0. op.cl \in dirs /\ op.dir \in Heads /\ op.dir \in Cluster /\ ZeroTail /\ NamesDiffer
  BY DEF Running, PlaceIsDirectory, Named, PlaceIsReached, Placing, Op
<1>1. PICK u \in Slot : FoundAt(u) /\ op' = WithEntry(<<op.cl, u>>)
  BY DEF FindHit, Move
<1>2. PICK p \in Pos : /\ p = <<op.cl, u>> /\ p[1] \in dirs /\ Unit(p) # Zero /\ IsEntryAt(p)
                       /\ op' = WithEntry(p)
  <2>1. op.cl \in Cluster /\ <<op.cl, u>> \in Pos /\ Unit(<<op.cl, u>>) \in Entry
    BY <1>0, <1>1, TypeFacts DEF FoundAt, Matches
  <2>. QED
    BY <1>0, <1>1, <2>1, UnitsAssumption DEF IsEntryAt, Bytes
<1>3. CASE op' = Idle
  BY <1>0, <1>3, NamedIdle, StillNamed
<1>4. CASE op' = [op EXCEPT !.leg = 3, !.cl = op.dir]
  <2>1. op'.pc = "find" /\ op'.dir = op.dir /\ op'.cl = op.dir
    BY <1>4 DEF Op
  <2>. QED
    BY <1>0, <2>1, SearchStarts
<1>5. CASE op'.pos = p /\ op'.pc \in {"free", "empty", "unlink", "ensure"}
  BY <1>0, <1>2, <1>5, EntryTaken
<1>6. \/ op' = Idle
      \/ op' = [op EXCEPT !.leg = 3, !.cl = op.dir]
      \/ op'.pos = p /\ op'.pc \in {"free", "empty", "unlink", "ensure"}
  BY <1>2, TakenOrNot
<1>. QED
  BY <1>3, <1>4, <1>5, <1>6

(* The first unit of a cluster that a search stops at.                     *)
LEMMA LessIsWellFounded == IsWellFoundedOn(OpToRel(<, Nat), Nat)
BY NatLessThanWellFounded

LEMMA FirstOf ==
    ASSUME NEW T \in SUBSET Slot, T # {}
    PROVE  \E u \in T : \A v \in 1 .. u - 1 : v \notin T
<1>1. Slot \subseteq Nat /\ \A u \in Slot : \A v \in 1 .. u - 1 : v \in Nat /\ v < u
  BY SlotsAssumption DEF Slot
<1>2. PICK u \in T : \A v \in T : ~(<<v, u>> \in OpToRel(<, Nat))
  BY <1>1, LessIsWellFounded, WFMin
<1>3. \A v \in T : ~(v < u)
  BY <1>1, <1>2 DEF OpToRel
<1>. QED
  BY <1>1, <1>3

LEMMA SlotsBefore ==
    \A u \in Slot : \A v \in 1 .. u - 1 : v \in Slot /\ v < u
BY SlotsAssumption DEF Slot

LEMMA NoneHere ==
    ASSUME ZeroTail, op.cl \in dirs, ~\E u \in Slot : FoundAt(u)
    PROVE  Nameless(op.cl)
<1>. DEFINE T == {u \in Slot : Matches(mem[op.cl][u])}
<1>. SUFFICES ASSUME T # {} PROVE FALSE
  BY DEF Nameless
<1>1. PICK u \in T : \A v \in 1 .. u - 1 : v \notin T
  BY FirstOf
<1>2. PICK v \in 1 .. u - 1 : mem[op.cl][v] = Zero
  <2>1. ~FoundAt(u)
    OBVIOUS
  <2>2. \A v \in 1 .. u - 1 : ~Matches(mem[op.cl][v])
    BY <1>1, SlotsBefore
  <2>. QED
    BY <1>1, <2>1, <2>2 DEF FoundAt, Before
<1>3. mem[op.cl][u] = Zero
  BY <1>2, SlotsBefore DEF ZeroTail, TailAt
<1>. QED
  BY <1>3, UnitsAssumption DEF Matches, Bytes

(* Behind an unused unit there is nothing.                                 *)
LEMMA EmptyOn ==
    ASSUME TypeOK, Volume, ZeroTail, NEW c \in dirs, ~GoesOn(c)
    PROVE  \A b \in Reach(c) : b = c \/ EmptyCluster(b)
<1>. c \in Cluster /\ dirs \subseteq Cluster
  BY DEF TypeOK
<1>1. ASSUME fat[c] \in Cluster, NEW b \in Reach(fat[c])
      PROVE  EmptyCluster(b)
  <2>. DEFINE S == {d \in dirs : EmptyCluster(d)}
  <2>1. fat[c] \in S
    <3>1. \E u \in Slot : mem[c][u] = Zero
      BY <1>1 DEF GoesOn
    <3>. QED
      BY <1>1, <3>1 DEF ZeroTail, TailAt, Volume, LinksAreSound
  <2>2. ASSUME NEW d \in S, fat[d] \in Cluster
        PROVE  fat[d] \in S
    <3>1. 1 \in Slot
      BY SlotsAssumption DEF Slot
    <3>2. \E u \in Slot : mem[d][u] = Zero
      BY <3>1 DEF EmptyCluster
    <3>. QED
      BY <2>2, <3>2 DEF ZeroTail, TailAt, Volume, LinksAreSound
  <2>3. b \in S
    <3>1. S \in SUBSET Cluster /\ Closed(S)
      BY <2>2 DEF Closed
    <3>. QED
      BY <1>1, <2>1, <3>1, ReachIsLeast
  <2>. QED
    BY <2>3
<1>. QED
  BY <1>1, ReachSteps

LEMMA AllSearched ==
    ASSUME TypeOK, Volume, ZeroTail, op.cl \in dirs, Nameless(op.cl), ~GoesOn(op.cl),
           \A c \in Reach(op.dir) \ Reach(op.cl) : Passed(c)
    PROVE  \A c \in Reach(op.dir) : Nameless(c)
<1>1. \A c \in Reach(op.cl) : c = op.cl \/ EmptyCluster(c)
  BY EmptyOn
<1>2. \A c : EmptyCluster(c) => Nameless(c)
  BY UnitsAssumption DEF EmptyCluster, Nameless, Matches, Bytes
<1>. QED
  BY <1>1, <1>2 DEF Passed, Nameless

LEMMA FindNextNamed ==
    ASSUME TypeOK, Control, Volume, Running, Named, FindNext
    PROVE  Named'
<1>. op.pc = "find" /\ op \in Op /\ Still
  BY DEF FindNext, Move, Still, TypeOK
<1>1. /\ op' = [op EXCEPT !.cl = fat[op.cl]] /\ fat[op.cl] \in Cluster
      /\ ~\E u \in Slot : FoundAt(u)
      /\ \A u \in Slot : mem[op.cl][u] # Zero
  BY DEF FindNext, Move, GoesOn
<1>2. op.cl \in dirs /\ op.cl \in Cluster /\ op.dir \in Cluster
  BY DEF Running, PlaceIsDirectory, TypeOK, Op
<1>3. Passed(op.cl)
  BY <1>1, <1>2, NoneHere DEF Named, Passed, Nameless
<1>4. op'.pc = "find" /\ op'.cl = fat[op.cl] /\ op'.dir = op.dir /\ op'.name = op.name
  BY <1>1 DEF Op
<1>5. op.dir \in Heads /\ op.cl \in Reach(op.dir) /\ fat[op.cl] \in Reach(op.dir)
  BY <1>1, <1>2, ReachHolds DEF Named, PlaceIsReached, Placing
<1>6. ASSUME NEW c \in Reach(op.dir), c \notin Reach(fat[op.cl])
      PROVE  Passed(c)
  BY <1>1, <1>2, <1>3, <1>6, ReachSteps DEF Named, SearchedInVain
<1>7. \A c : Passed(c) => Passed(c)'
  BY <1>4 DEF Still, Passed, Matches
<1>8. /\ Heads' = Heads /\ ZeroTail' /\ NamesDiffer'
      /\ \A d : Reach(d)' = Reach(d)
  BY StillNamed DEF Named
<1>9. Reach(op.cl)' = Reach(fat[op.cl]) /\ Reach(op.dir)' = Reach(op.dir)
  BY <1>4 DEF Still, Reach, Closed
<1>10. PlaceIsReached'
  BY <1>4, <1>5, <1>8, <1>9 DEF PlaceIsReached, Placing, Allocating
<1>11. SearchedInVain'
  BY <1>4, <1>6, <1>7, <1>9 DEF SearchedInVain, Allocating
<1>. QED
  BY <1>4, <1>8, <1>10, <1>11 DEF Named, FirstFree, EntryAtHand, Placing, Filling, Allocating

LEMMA HeadsUnlinked ==
    ASSUME TypeOK, Volume, ~op.loose
    PROVE  \A d \in Heads : Unlinked(d) /\ d \in Cluster /\ d \in dirs
<1>1. ASSUME NEW p \in Pos, p[1] \in dirs, IsEntryAt(p), Unit(p).dir
      PROVE  Unlinked(Start(Unit(p)))
  BY <1>1, EntryHolds
<1>2. \A d \in Heads : Unlinked(d)
  BY <1>1 DEF Heads, Volume, RootStays
<1>. QED
  BY <1>2, HeadsInCluster, HeadsAreDirs

LEMMA PlacingIsTight ==
    ASSUME Running, Placing
    PROVE  ~op.loose
BY DEF Running, OldChain, Placing, Filling, Allocating

LEMMA Missed ==
    ASSUME TypeOK, Control, Volume, Running, Named, Still, op.pc = "find", op' = WithoutEntry,
           op'.pc \in {"slot", "mark"} => \A c \in Reach(op.dir) : Nameless(c)
    PROVE  Named'
<1>. op \in Op
  BY DEF TypeOK
<1>1. op.dir \in Heads /\ op.dir \in Cluster /\ Placing /\ ZeroTail /\ NamesDiffer
  BY DEF Named, PlaceIsReached, Placing, Op
<1>2. Unlinked(op.dir) /\ op.dir \in Reach(op.dir)
  BY <1>1, PlacingIsTight, HeadsUnlinked, ReachHolds
<1>3. /\ Heads' = Heads /\ ZeroTail' /\ NamesDiffer'
      /\ \A d : Reach(d)' = Reach(d)
  BY <1>1, StillNamed
<1>4. CASE op' = Idle
  BY <1>3, <1>4, NamedIdle
<1>5. CASE op' = [op EXCEPT !.leg = 2, !.cl = op.dir]
  <2>1. op'.pc = "find" /\ op'.dir = op.dir /\ op'.cl = op.dir
    BY <1>5 DEF Op
  <2>. QED
    BY <1>1, <2>1, SearchStarts
<1>6. ASSUME op'.name = op.name, op'.dir = op.dir, \A c \in Reach(op.dir) : Nameless(c)
      PROVE  /\ \A c \in Reach(op.dir)' : Nameless(c)'
             /\ op'.dir \in Heads'
  <2>1. Reach(op.dir)' = Reach(op.dir)
    BY <1>6 DEF Still, Reach, Closed
  <2>2. \A c : Nameless(c) => Nameless(c)'
    BY <1>6 DEF Still, Nameless, Matches
  <2>. QED
    BY <1>1, <1>3, <1>6, <2>1, <2>2
<1>7. CASE op' = [op EXCEPT !.pc = "mark", !.goal = "mkdir"]
  <2>1. op'.pc = "mark" /\ op'.goal = "mkdir" /\ op'.dir = op.dir /\ op'.name = op.name
    BY <1>7 DEF Op
  <2>2. /\ \A c \in Reach(op.dir)' : Nameless(c)'
        /\ op'.dir \in Heads'
    BY <1>6, <2>1
  <2>. QED
    BY <1>3, <2>1, <2>2 DEF Named, PlaceIsReached, SearchedInVain, FirstFree, EntryAtHand,
                            Placing, Filling, Allocating
<1>8. CASE op' = [op EXCEPT !.pc = "slot", !.cl = op.dir]
  <2>1. op'.pc = "slot" /\ op'.dir = op.dir /\ op'.name = op.name /\ op'.cl = op.dir
    BY <1>8 DEF Op
  <2>2. /\ \A c \in Reach(op.dir)' : Nameless(c)'
        /\ op'.dir \in Heads'
    BY <1>6, <2>1
  <2>3. op'.cl \in Reach(op.dir)' /\ FullBefore(op.cl)'
    <3>1. Reach(op.dir)' = Reach(op.dir) /\ dirs' = dirs /\ fat' = fat /\ dirs \subseteq Cluster
      BY <2>1 DEF Still, Reach, Closed, TypeOK
    <3>. QED
      BY <1>2, <2>1, <3>1 DEF FullBefore, Unlinked
  <2>. QED
    BY <1>3, <2>1, <2>2, <2>3 DEF Named, PlaceIsReached, SearchedInVain, FirstFree, EntryAtHand,
                                  Placing, Filling, Allocating
<1>. QED
  BY <1>4, <1>5, <1>7, <1>8, WithoutCases

LEMMA FindNamed ==
    ASSUME TypeOK, Control, Volume, Running, Named, Find, "blind" \notin faults'
    PROVE  Named'
<1>1. CASE FindHit
  BY <1>1, FindHitNamed
<1>2. CASE FindNext
  BY <1>2, FindNextNamed
<1>3. CASE FindNothing
  <2>1. /\ op.pc = "find" /\ ~GoesOn(op.cl) /\ ~\E u \in Slot : FoundAt(u)
        /\ op' = WithoutEntry /\ Still
    BY <1>3 DEF FindNothing, Move, Still
  <2>2. /\ op.cl \in dirs /\ ZeroTail
        /\ \A c \in Reach(op.dir) \ Reach(op.cl) : Passed(c)
    BY <2>1 DEF Running, PlaceIsDirectory, Named, SearchedInVain
  <2>3. \A c \in Reach(op.dir) : Nameless(c)
    BY <2>1, <2>2, NoneHere, AllSearched
  <2>. QED
    BY <2>1, <2>3, Missed
<1>4. CASE FindBlind
  <2>1. op.pc = "find" /\ op' = WithoutEntry /\ Still /\ op'.pc \notin {"slot", "mark"}
    BY <1>4 DEF FindBlind, Still, Noting
  <2>. QED
    BY <2>1, Missed
<1>. QED
  BY <1>1, <1>2, <1>3, <1>4 DEF Find

LEMMA BeginNamed ==
    ASSUME TypeOK, Named, "hurt" \notin faults', NEW k, NEW d, NEW n, NEW t, Begin(k, d, n, t)
    PROVE  Named'
<1>1. d \in Heads /\ d \in Cluster /\ Still
  BY HeadsInCluster DEF Begin, Noting, Still
<1>2. op'.pc = "find" /\ op'.dir = d /\ op'.cl = d
  BY DEF Begin, Idle
<1>. QED
  BY <1>1, <1>2, SearchStarts DEF Named

LEMMA BumpNamed ==
    ASSUME TypeOK, Named, Bump
    PROVE  Named'
<1>1. Still /\ op.pc = "bump" /\ op \in Op
  BY DEF Bump, Still, TypeOK
<1>2. CASE op' = Idle
  BY <1>1, <1>2, NamedIdle, StillNamed DEF Named
<1>3. CASE op.leg = 2 /\ op' = [op EXCEPT !.leg = 3, !.pc = "find", !.cl = op.dir]
  <2>1. op.dir \in Heads /\ op.dir \in Cluster
    BY <1>1, <1>3 DEF Named, PlaceIsReached, Placing, Op
  <2>2. op'.pc = "find" /\ op'.dir = op.dir /\ op'.cl = op.dir
    BY <1>1, <1>3 DEF Op
  <2>. QED
    BY <1>1, <2>1, <2>2, SearchStarts DEF Named
<1>. QED
  BY <1>2, <1>3 DEF Bump

LEMMA StopNamed ==
    ASSUME Named, op' = Idle, Still
    PROVE  Named'
BY NamedIdle, StillNamed DEF Named

LEMMA RestNamed ==
    ASSUME Named, Still, UNCHANGED op
    PROVE  Named'
<1>1. /\ Heads' = Heads /\ ZeroTail' /\ NamesDiffer'
      /\ Reach(op.dir)' = Reach(op.dir) /\ Reach(op.cl)' = Reach(op.cl)
  BY StillNamed DEF Named
<1>2. PlaceIsReached' /\ SearchedInVain'
  BY <1>1 DEF Named, PlaceIsReached, SearchedInVain, Passed, Nameless, Matches, Placing,
              Allocating, Still
<1>3. FirstFree' /\ EntryAtHand'
  BY DEF Named, FirstFree, EntryAtHand, FullBefore, FreeUnit, Filling, Allocating, Unit, Still
<1>. QED
  BY <1>1, <1>2, <1>3 DEF Named

-----------------------------------------------------------------------------
(* Names and the allocation of a cluster.                                  *)

LEMMA HeadsStay ==
    ASSUME TypeOK, \A c \in dirs : c \in dirs',
           \A p \in Pos : p[1] \in dirs /\ IsEntryAt(p) /\ Unit(p).dir
              => mem'[p[1]][p[2]] = mem[p[1]][p[2]]
    PROVE  \A d \in Heads : d \in Heads'
<1>1. ASSUME NEW p \in Pos, p[1] \in dirs, IsEntryAt(p), Unit(p).dir
      PROVE  /\ p[1] \in dirs' /\ IsEntryAt(p)' /\ Unit(p)'.dir
             /\ Start(Unit(p)') = Start(Unit(p))
  BY <1>1 DEF Unit, IsEntryAt
<1>. QED
  BY <1>1 DEF Heads, Start

(* A search that has found nothing goes on making room.                    *)
LEMMA RoomIsMade ==
    ASSUME Named, ZeroTail', NamesDiffer', op.dir \in Heads', op'.dir = op.dir,
           op'.pc = "slot", op'.cl = op.dir, op.dir \in Cluster,
           \A c \in Reach(op.dir)' : Nameless(c)', \A b \in dirs' : fat'[b] # op.dir
    PROVE  Named'
<1>1. op'.cl \in Reach(op.dir)'
  BY ReachHolds DEF Reach, Closed
<1>. QED
  BY <1>1 DEF Named, PlaceIsReached, SearchedInVain, FirstFree, EntryAtHand, FullBefore,
              Placing, Filling, Allocating

LEMMA RoomIsAwaited ==
    ASSUME Named, ZeroTail', NamesDiffer', op.dir \in Heads', op'.dir = op.dir,
           op'.pc \in {"mark", "zero", "link"}, op'.goal \in {"mkdir", "extend"},
           \A c \in Reach(op.dir)' : Nameless(c)'
    PROVE  Named'
BY DEF Named, PlaceIsReached, SearchedInVain, FirstFree, EntryAtHand, Placing, Filling, Allocating

(* A chain is filled further.                                              *)
LEMMA FillGoesOn ==
    ASSUME TypeOK, Running, Named, ZeroTail', NamesDiffer', Filling,
           Filling', op'.pc = "data" /\ op'.cl \in Cluster => op'.cl \notin dirs',
           op'.pos = op.pos, op'.kind = op.kind,
           \A p \in Pos : p[1] \in dirs /\ Unit(p) # Zero => mem'[p[1]][p[2]] # Zero,
           \A c \in dirs : c \in dirs'
    PROVE  Named'
<1>1. /\ op.kind \in {"write", "append"} /\ op.pos \in Pos
      /\ op.pos[1] \in dirs /\ Unit(op.pos) # Zero
  BY DEF Running, NewChain, Named, EntryAtHand, TypeOK, Op
<1>2. Unit(op.pos)' # Zero /\ op'.pos[1] \in dirs'
  BY <1>1 DEF Unit
<1>3. ~Placing' /\ op'.pc \notin {"find", "slot", "tail", "entry", "free", "empty", "unlink"}
  BY DEF Placing, Filling, Allocating
<1>4. ~Allocating({"mkdir", "extend"})'
  BY DEF Filling, Allocating
<1>. QED
  BY <1>2, <1>3, <1>4 DEF Named, PlaceIsReached, SearchedInVain, FirstFree, EntryAtHand

LEMMA NamelessStays ==
    ASSUME op'.name = op.name, NEW c \in Cluster,
           \A u \in Slot : mem'[c][u] \in Entry => mem'[c][u] = mem[c][u], Nameless(c)
    PROVE  Nameless(c)'
BY DEF Nameless, Matches

LEMMA MarkNamed ==
    ASSUME TypeOK, TypeOK', Control, Volume, Running, Named, Mark
    PROVE  Named'
<1>. op \in Op
  BY DEF TypeOK
<1>1. PICK c \in Cluster : /\ fat[c] = FREE /\ fat' = [fat EXCEPT ![c] = EOC]
                           /\ op' = [op EXCEPT !.new = c, !.pc = "zero"]
  BY DEF Mark, Allocable
<1>2. op.pc = "mark" /\ mem' = mem /\ dirs' = dirs
  BY DEF Mark
<1>3. \A b \in Cluster : fat'[b] \in Cluster => fat'[b] = fat[b]
  BY <1>1, Clusters DEF TypeOK
<1>4. /\ op'.pc = "zero" /\ op'.goal = op.goal /\ op'.dir = op.dir /\ op'.name = op.name
      /\ op'.pos = op.pos /\ op'.kind = op.kind
  BY <1>1 DEF Op
<1>5. Tidy
  BY <1>2, <1>3 DEF Tidy
<1>6. NamesDiffer' /\ ZeroTail'
  BY <1>2, <1>3, <1>5, TidyKeepsNames, TailUntouched DEF Named
<1>7. CASE op.goal \in {"mkdir", "extend"}
  <2>1. op.dir \in Heads /\ op.dir \in Cluster /\ \A b \in Reach(op.dir) : Nameless(b)
    BY <1>2, <1>7 DEF Named, PlaceIsReached, SearchedInVain, Placing, Allocating, Op
  <2>2. op.dir \in Heads'
    BY <1>2, <2>1 DEF Heads, Unit, IsEntryAt
  <2>3. \A b \in Reach(op.dir)' : Nameless(b)'
    <3>0. PICK d \in Cluster : d = op.dir /\ d = op'.dir
      BY <1>4, <2>1
    <3>1. \A b \in Reach(d)' : b \in Reach(d) /\ b \in Cluster
      BY <1>3, ReachShrinks DEF Reach
    <3>2. Reach(op.dir)' = Reach(d)'
      BY <3>0 DEF Reach, Closed
    <3>. QED
      BY <1>2, <1>4, <2>1, <3>0, <3>1, <3>2, NamelessStays
  <2>. QED
    BY <1>4, <1>6, <1>7, <2>1, <2>2, <2>3, RoomIsAwaited
<1>8. CASE op.goal \notin {"mkdir", "extend"}
  <2>1. op.goal \in {"first", "chain"}
    BY <1>2, <1>8 DEF Control, Op, OpGoal
  <2>2. Filling /\ Filling'
    BY <1>2, <1>4, <2>1 DEF Filling, Allocating
  <2>. QED
    BY <1>2, <1>4, <1>6, <2>2, FillGoesOn DEF Unit
<1>. QED
  BY <1>7, <1>8

LEMMA ZeroClusterNamed ==
    ASSUME TypeOK, TypeOK', Control, Volume, Running, Named, ZeroCluster
    PROVE  Named'
<1>. op \in Op
  BY DEF TypeOK
<1>1. PICK n \in Cluster : n = op.new
  BY DEF ZeroCluster, Control
<1>2. /\ op.pc = "zero" /\ fat' = fat /\ dirs' = dirs
      /\ mem' = [mem EXCEPT ![n] = [u \in Slot |-> Zero]]
  BY <1>1 DEF ZeroCluster
<1>3. n \notin dirs
  BY <1>1, <1>2 DEF Running, NewCluster, Fresh
<1>4. /\ \A c \in Cluster : c # n => mem'[c] = mem[c]
      /\ \A u \in Slot : mem'[n][u] = Zero
  BY <1>2 DEF TypeOK
<1>5. \A c \in Cluster, u \in Slot : mem'[c][u] \in Entry => mem'[c][u] = mem[c][u]
  BY <1>4, UnitsAssumption DEF Bytes
<1>6. \A c \in dirs : c \in Cluster /\ mem'[c] = mem[c]
  BY <1>3, <1>4 DEF TypeOK
<1>7. NamesDiffer' /\ ZeroTail'
  <2>1. Tidy
    BY <1>2, <1>5 DEF Tidy
  <2>. QED
    BY <1>2, <1>6, <2>1, TidyKeepsNames, TailUntouched DEF Named
<1>8. \A d \in Heads : d \in Heads'
  BY <1>2, <1>6, HeadsStay
<1>9. CASE op.goal \in {"mkdir", "extend"}
  <2>1. /\ op.dir \in Heads /\ op.dir \in Cluster /\ \A b \in Reach(op.dir) : Nameless(b)
        /\ Placing
    BY <1>2, <1>9 DEF Named, PlaceIsReached, SearchedInVain, Placing, Allocating, Op
  <2>2. op.dir \in Heads'
    BY <1>8, <2>1
  <2>3. Unlinked(op.dir)
    BY <2>1, PlacingIsTight, HeadsUnlinked
  <2>4. /\ op'.dir = op.dir /\ op'.name = op.name
        /\ op.goal = "mkdir" => op'.pc = "slot" /\ op'.cl = op.dir
        /\ op.goal # "mkdir" => op'.pc = "link" /\ op'.goal = op.goal
    BY <1>9 DEF ZeroCluster, Op
  <2>5. \A b \in Reach(op.dir)' : Nameless(b)'
    <3>1. Reach(op.dir)' = Reach(op.dir)
      BY <1>2, <2>4 DEF Reach, Closed
    <3>. QED
      BY <1>5, <2>1, <2>4, <3>1, NamelessStays DEF Reach
  <2>6. CASE op.goal = "mkdir"
    <3>1. \A b \in dirs' : fat'[b] # op.dir
      BY <1>2, <1>6, <2>3 DEF Unlinked
    <3>. QED
      BY <1>7, <2>1, <2>2, <2>4, <2>5, <2>6, <3>1, RoomIsMade
  <2>7. CASE op.goal # "mkdir"
    BY <1>7, <1>9, <2>2, <2>4, <2>5, <2>7, RoomIsAwaited
  <2>. QED
    BY <2>6, <2>7
<1>10. CASE op.goal \notin {"mkdir", "extend"}
  <2>1. op.goal \in {"first", "chain"}
    BY <1>2, <1>10 DEF Control, Op, OpGoal
  <2>2. /\ op'.pc \in {"grow", "link"} /\ op'.goal = op.goal
        /\ op'.pos = op.pos /\ op'.kind = op.kind
    BY <2>1 DEF ZeroCluster, Op
  <2>3. Filling /\ Filling'
    BY <1>2, <2>1, <2>2 DEF Filling, Allocating
  <2>. QED
    BY <1>2, <1>6, <1>7, <2>2, <2>3, FillGoesOn DEF Unit
<1>. QED
  BY <1>9, <1>10

LEMMA LinkNamed ==
    ASSUME TypeOK, TypeOK', Control, Volume, Running, Named, Link
    PROVE  Named'
<1>. op \in Op
  BY DEF TypeOK
<1>1. PICK n \in Cluster, l \in Cluster : n = op.new /\ l = op.last
  BY LinkFacts
<1>2. /\ n # l /\ Fresh(n) /\ EmptyCluster(n) /\ fat'[l] = n /\ mem' = mem
      /\ \A c \in Cluster : c # l => fat'[c] = fat[c]
      /\ l \in dirs <=> op.goal = "extend"
      /\ op'.pos = op.pos /\ op'.kind = op.kind /\ op'.dir = op.dir /\ op'.goal = op.goal
  BY <1>1, LinkFacts
<1>3. /\ op.pc = "link" /\ dirs' = IF op.goal = "extend" THEN dirs \cup {n} ELSE dirs
      /\ op'.name = op.name /\ op.goal \in {"extend", "chain"}
      /\ op.goal = "extend" => op'.pc = "slot" /\ op'.cl = op.dir
      /\ op.goal # "extend" => op'.pc = "grow"
  BY <1>1 DEF Link, Op, Control
<1>4. fat[n] = EOC /\ n \notin dirs /\ fat[n] \notin Cluster /\ fat'[n] \notin Cluster
  BY <1>2, Clusters DEF Fresh
<1>5. \A u \in Slot : mem[n][u] = Zero /\ mem[n][u] \notin Entry
  BY <1>2, UnitsAssumption DEF EmptyCluster, Bytes
<1>6. \A d \in Cluster : \A c \in Reach(d)' : c \in Cluster /\ (c \in Reach(d) \/ c = n)
  BY <1>2, <1>4, ReachGrows DEF Reach
<1>7. \A c \in dirs : c \in dirs'
  BY <1>3
<1>8. \A d : d \in Heads' <=> d \in Heads
  <2>1. \A p \in Pos : /\ (IsEntryAt(p)' <=> IsEntryAt(p))
                       /\ Unit(p)' = Unit(p)
                       /\ IsEntryAt(p) => (p[1] \in dirs' <=> p[1] \in dirs)
    <3>1. \A p \in Pos : p[1] \in Cluster /\ p[2] \in Slot
      BY DEF Pos
    <3>. QED
      BY <1>2, <1>3, <1>5, <3>1 DEF IsEntryAt, Unit
  <2>. QED
    BY <2>1 DEF Heads, Start
<1>9. NamesDiffer'
  <2>1. ASSUME NEW d \in Heads
        PROVE  OneName(d)'
    <3>1. OneName(d) /\ d \in Cluster
      BY HeadsInCluster DEF Named, NamesDiffer
    <3>2. \A c \in Reach(d)', u \in Slot : mem'[c][u] \in Entry => c \in Reach(d)
      BY <1>2, <1>5, <1>6, <3>1
    <3>. QED
      BY <1>2, <3>1, <3>2 DEF OneName
  <2>. QED
    BY <1>8, <2>1 DEF NamesDiffer
<1>10. ZeroTail'
  <2>1. ASSUME NEW c \in dirs'
        PROVE  TailAt(c)'
    <3>1. CASE c = n
      BY <1>2, <1>4, <1>5, <3>1 DEF TailAt
    <3>2. CASE c = l
      <4>1. c \in dirs /\ TailAt(c)
        BY <1>2, <1>3, <2>1, <3>2 DEF Named, ZeroTail
      <4>2. EmptyCluster(fat[c])'
        BY <1>2, <3>2 DEF EmptyCluster
      <4>. QED
        BY <1>2, <4>1, <4>2 DEF TailAt, EmptyCluster
    <3>3. CASE c # n /\ c # l
      <4>1. c \in dirs /\ TailAt(c) /\ c \in Cluster
        BY <1>3, <2>1, <3>3 DEF Named, ZeroTail, TypeOK
      <4>. QED
        BY <1>2, <3>3, <4>1 DEF TailAt, EmptyCluster
    <3>. QED
      BY <3>1, <3>2, <3>3
  <2>. QED
    BY <2>1 DEF ZeroTail
<1>11. CASE op.goal = "extend"
  <2>1. /\ op.dir \in Heads /\ op.dir \in Cluster /\ \A b \in Reach(op.dir) : Nameless(b)
        /\ Placing /\ op.dir \in dirs
    BY <1>3, <1>11 DEF Named, PlaceIsReached, SearchedInVain, Placing, Allocating, Op,
                       Running, PlaceIsDirectory
  <2>2. op.dir \in Heads'
    BY <1>8, <2>1
  <2>3. Unlinked(op.dir) /\ op.dir # n
    BY <1>4, <2>1, PlacingIsTight, HeadsUnlinked
  <2>4. \A b \in Reach(op.dir)' : Nameless(b)'
    <3>0. PICK d \in Cluster : d = op.dir /\ d = op'.dir
      BY <1>2, <2>1
    <3>1. Reach(op.dir)' = Reach(d)'
      BY <3>0 DEF Reach, Closed
    <3>2. \A c \in Cluster : Nameless(c) => Nameless(c)'
      BY <1>2, <1>3, NamelessStays
    <3>3. Nameless(n)
      BY <1>5 DEF Nameless, Matches
    <3>. QED
      BY <1>6, <2>1, <3>0, <3>1, <3>2, <3>3
  <2>5. \A b \in dirs' : fat'[b] # op.dir
    <3>1. dirs' \subseteq Cluster
      BY DEF TypeOK
    <3>. QED
      BY <1>2, <2>3, <3>1 DEF Unlinked
  <2>. QED
    BY <1>2, <1>3, <1>9, <1>10, <1>11, <2>1, <2>2, <2>4, <2>5, RoomIsMade
<1>12. CASE op.goal # "extend"
  <2>1. Filling /\ Filling'
    BY <1>3, <1>12 DEF Filling, Allocating
  <2>. QED
    BY <1>2, <1>3, <1>7, <1>9, <1>10, <1>12, <2>1, FillGoesOn DEF Unit
<1>. QED
  BY <1>11, <1>12

-----------------------------------------------------------------------------
(* Names and the place of a new entry.                                     *)

LEMMA SeekPlaceNamed ==
    ASSUME TypeOK, Control, Volume, Running, Named,
           SlotHere \/ SlotNext \/ SlotNone \/ TailNext \/ TailEnd
    PROVE  Named'
<1>. op \in Op
  BY DEF TypeOK
<1>1. /\ op.pc \in {"slot", "tail"} /\ Still
      /\ op'.dir = op.dir /\ op'.name = op.name
      /\ \/ op'.pc \in {"slot", "tail", "entry"}
         \/ op'.pc = "mark" /\ op'.goal = "extend"
  BY DEF SlotHere, SlotNext, SlotNone, TailNext, TailEnd, Move, Still, Op
<1>2. /\ op.dir \in Heads /\ op.dir \in Cluster /\ \A b \in Reach(op.dir) : Nameless(b)
      /\ op.pc = "slot" => op.cl \in Reach(op.dir) /\ FullBefore(op.cl) /\ op.cl \in dirs
  BY <1>1 DEF Named, PlaceIsReached, SearchedInVain, FirstFree, Placing, Op,
              Running, PlaceIsDirectory
<1>3. /\ Heads' = Heads /\ ZeroTail' /\ NamesDiffer'
      /\ Reach(op.dir)' = Reach(op.dir)
      /\ \A c : Nameless(c) => Nameless(c)'
  <2>1. Reach(op.dir)' = Reach(op.dir)
    BY <1>1 DEF Still, Reach, Closed
  <2>2. \A c : Nameless(c) => Nameless(c)'
    BY <1>1 DEF Still, Nameless, Matches
  <2>. QED
    BY <1>1, <2>1, <2>2, StillNamed DEF Named
<1>4. SearchedInVain' /\ EntryAtHand'
  BY <1>1, <1>2, <1>3 DEF SearchedInVain, EntryAtHand, Filling, Allocating
<1>5. /\ op'.pc = "slot" => op'.cl \in Reach(op.dir) /\ FullBefore(op'.cl)
      /\ op'.pc = "entry" => /\ op'.pos[1] \in Reach(op.dir)
                             /\ FullBefore(op'.pos[1])
                             /\ FreeUnit(op'.pos[1], op'.pos[2])
                             /\ \A v \in 1 .. op'.pos[2] - 1 : ~FreeUnit(op'.pos[1], v)
  <2>1. CASE SlotHere
    <3>1. PICK u \in Slot : /\ FreeUnit(op.cl, u) /\ op.pc = "slot"
                            /\ \A v \in 1 .. u - 1 : ~FreeUnit(op.cl, v)
                            /\ op' = [op EXCEPT !.pos = <<op.cl, u>>, !.pc = "entry"]
      BY <2>1 DEF SlotHere, Move
    <3>2. op'.pc = "entry" /\ op'.pos[1] = op.cl /\ op'.pos[2] = u
      BY <3>1 DEF Op
    <3>. QED
      BY <1>2, <3>1, <3>2
  <2>2. CASE SlotNext
    <3>1. /\ \A u \in Slot : ~FreeUnit(op.cl, u)
          /\ fat[op.cl] \in Cluster /\ op.pc = "slot" /\ op'.pc = "slot" /\ op'.cl = fat[op.cl]
      BY <2>2 DEF SlotNext, Move, Op
    <3>2. op.cl \in Cluster /\ fat[op.cl] \in Reach(op.dir)
      BY <1>2, <3>1, ReachHolds
    <3>3. FullBefore(fat[op.cl])
      BY <3>1, <3>2 DEF FullBefore, Volume, LinksAreSound, TypeOK
    <3>. QED
      BY <3>1, <3>2, <3>3
  <2>3. CASE SlotNone \/ TailNext \/ TailEnd
    BY <2>3 DEF SlotNone, TailNext, TailEnd, Move, Op
  <2>. QED
    BY <2>1, <2>2, <2>3
<1>6. PlaceIsReached'
  BY <1>1, <1>2, <1>3, <1>5 DEF PlaceIsReached, Placing, Allocating
<1>7. FirstFree'
  BY <1>1, <1>5 DEF FirstFree, FullBefore, FreeUnit, Still
<1>. QED
  BY <1>3, <1>4, <1>6, <1>7 DEF Named

(* What is known of the place when the entry is written.                   *)
LEMMA PlaceFacts ==
    ASSUME TypeOK, Control, Volume, Running, Named, op.pc = "entry"
    PROVE  /\ op.pos \in Pos /\ op.pos[1] \in dirs /\ op.pos[1] \in Reach(op.dir)
           /\ op.dir \in Heads /\ op.dir \in Cluster /\ Unlinked(op.dir) /\ ~op.loose
           /\ ~IsEntryAt(op.pos)
           /\ FullBefore(op.pos[1])
           /\ \A v \in 1 .. op.pos[2] - 1 : mem[op.pos[1]][v] # Zero
           /\ \A b \in Reach(op.dir) : Nameless(b)
<1>. op \in Op
  BY DEF TypeOK
<1>1. /\ op.pos \in Pos /\ op.pos[1] \in dirs /\ op.pos[1] \in Reach(op.dir)
      /\ op.dir \in Heads /\ op.dir \in Cluster /\ Placing
      /\ \A b \in Reach(op.dir) : Nameless(b)
  BY DEF Running, PlaceIsDirectory, Named, PlaceIsReached, SearchedInVain, Placing, Op
<1>2. Unlinked(op.dir) /\ ~op.loose
  BY <1>1, PlacingIsTight, HeadsUnlinked
<1>3. ~IsEntryAt(op.pos)
  BY UnitsAssumption DEF Named, FirstFree, FreeUnit, IsEntryAt, Unit, Bytes
<1>4. FullBefore(op.pos[1]) /\ \A v \in 1 .. op.pos[2] - 1 : mem[op.pos[1]][v] # Zero
  BY DEF Named, FirstFree, FreeUnit
<1>. QED
  BY <1>1, <1>2, <1>3, <1>4

LEMMA WriteEntryNamed ==
    ASSUME TypeOK, TypeOK', Control, Volume, Running, Named, WriteEntry
    PROVE  Named'
<1>. op \in Op
  BY DEF TypeOK
<1>1. PICK e \in Entry : /\ e = [name |-> op.name, dir |-> op.kind = "mkdir",
                                  first |-> op.first, size |-> 0]
  BY NewEntry
<1>2. PICK p \in Pos : p = op.pos
  BY DEF Op
<1>3. /\ op.pc = "entry" /\ mem' = Set(p, e) /\ fat' = fat
      /\ dirs' = IF op.kind = "mkdir" THEN dirs \cup {op.first} ELSE dirs
      /\ op'.pc = "bump" /\ op'.leg = op.leg /\ op'.dir = op.dir
      /\ e.name = op.name /\ (e.dir <=> op.kind = "mkdir") /\ e.first = op.first /\ e # Zero
  BY <1>1, <1>2, UnitsAssumption DEF WriteEntry, Op, Bytes
<1>4. /\ p[1] \in dirs /\ p[1] \in Reach(op.dir)
      /\ op.dir \in Heads /\ op.dir \in Cluster /\ Unlinked(op.dir) /\ ~op.loose
      /\ ~IsEntryAt(p)
      /\ FullBefore(p[1])
      /\ \A v \in 1 .. p[2] - 1 : mem[p[1]][v] # Zero
      /\ \A b \in Reach(op.dir) : Nameless(b)
  BY <1>2, <1>3, PlaceFacts
<1>5. op.kind = "mkdir" => /\ op.first \in Cluster /\ Fresh(op.first) /\ EmptyCluster(op.first)
                           /\ fat[op.first] \notin Cluster /\ op.first # p[1] /\ op.leg = 1
  BY <1>3, <1>4, Clusters DEF Control, Running, NewDirectory, Placing, Fresh
<1>6. /\ mem'[p[1]][p[2]] = e
      /\ \A q \in Pos : q # p => mem'[q[1]][q[2]] = mem[q[1]][q[2]]
      /\ \A c \in Cluster : c # p[1] => mem'[c] = mem[c]
  BY <1>3, SetFacts
<1>7. ZeroTail'
  <2>1. ASSUME NEW c \in dirs
        PROVE  TailAt(c)'
    BY <1>3, <1>4, TailKept DEF Named
  <2>2. ASSUME op.kind = "mkdir", NEW c \in Cluster, c = op.first
        PROVE  TailAt(c)'
    BY <1>3, <1>5, <1>6, <2>2 DEF TailAt, EmptyCluster
  <2>. QED
    BY <1>3, <1>5, <2>1, <2>2 DEF ZeroTail
<1>8. ASSUME NEW d \in Heads'
      PROVE  d \in Heads \/ (op.kind = "mkdir" /\ d = op.first)
  <2>1. CASE d = Root
    BY <2>1 DEF Heads
  <2>2. CASE d # Root
    <3>1. PICK q \in Pos : /\ q[1] \in dirs' /\ IsEntryAt(q)' /\ Unit(q)'.dir
                           /\ d = Start(Unit(q)')
      BY <1>8, <2>2 DEF Heads, Start
    <3>2. Unit(q)' = mem'[q[1]][q[2]] /\ Unit(q) = mem[q[1]][q[2]] /\ q[1] \in Cluster
      BY DEF Unit, Pos
    <3>3. CASE q = p
      <4>1. Unit(q)' = e
        BY <1>6, <3>2, <3>3
      <4>. QED
        BY <1>3, <1>5, <3>1, <4>1, Clusters DEF Start
    <3>4. CASE q # p
      <4>1. Unit(q)' = Unit(q) /\ IsEntryAt(q)
        BY <1>6, <3>1, <3>2, <3>4 DEF IsEntryAt
      <4>2. q[1] \in dirs
        <5>1. ASSUME op.kind = "mkdir", q[1] = op.first
              PROVE  FALSE
          <6>1. Unit(q) = Zero
            BY <1>5, <3>2, <5>1 DEF EmptyCluster, Pos
          <6>. QED
            BY <4>1, <6>1, UnitsAssumption DEF IsEntryAt, Bytes
        <5>. QED
          BY <1>3, <3>1, <5>1
      <4>. QED
        BY <3>1, <4>1, <4>2 DEF Heads
    <3>. QED
      BY <3>3, <3>4
  <2>. QED
    BY <2>1, <2>2
<1>9. \A d \in Heads : d \in Heads'
  <2>1. \A c \in dirs : c \in dirs'
    BY <1>3
  <2>2. \A q \in Pos : IsEntryAt(q) => mem'[q[1]][q[2]] = mem[q[1]][q[2]]
    BY <1>4, <1>6
  <2>. QED
    BY <2>1, <2>2, HeadsStay
<1>10. NamesDiffer'
  <2>1. ASSUME NEW d \in Heads
        PROVE  OneName(d)'
    <3>1. OneName(d) /\ d \in Cluster /\ Unlinked(d) /\ Reach(d)' = Reach(d)
      BY <1>3, <1>4, HeadsUnlinked, SameReach DEF Named, NamesDiffer
    <3>2. \A c \in Reach(d), u \in Slot : <<c, u>> \in Pos
      BY DEF Reach, Pos
    <3>3. CASE p[1] \notin Reach(d)
      <4>1. \A c \in Reach(d) : mem'[c] = mem[c]
        BY <1>6, <3>3 DEF Reach
      <4>. QED
        BY <3>1, <4>1 DEF OneName
    <3>4. CASE d = op.dir
      <4>1. \A c \in Reach(d), u \in Slot :
               /\ <<c, u>> = p => mem'[c][u] = e
               /\ <<c, u>> # p => mem'[c][u] = mem[c][u] /\ ~Matches(mem[c][u])
        <5>1. ASSUME NEW c \in Reach(d), NEW u \in Slot
              PROVE  /\ <<c, u>> = p => mem'[c][u] = e
                     /\ <<c, u>> # p => mem'[c][u] = mem[c][u] /\ ~Matches(mem[c][u])
          <6>1. PICK q \in Pos : q = <<c, u>>
            BY <3>2
          <6>. QED
            BY <1>4, <1>6, <3>4, <6>1 DEF Nameless
        <5>. QED
          BY <5>1
      <4>. QED
        BY <1>3, <3>1, <4>1 DEF OneName, Matches
    <3>5. LinksAreApart
      BY DEF Volume, LinksAreSound, LinksAreApart
    <3>. QED
      BY <1>4, <3>1, <3>3, <3>4, <3>5, ReachesAreApart
  <2>2. ASSUME op.kind = "mkdir"
        PROVE  OneName(op.first)'
    <3>1. PICK d \in Cluster : d = op.first
      BY <1>5, <2>2
    <3>2. Reach(d)' = Reach(d)
      BY <1>3, SameReach
    <3>3. \A c \in Reach(d) : c = d
      BY <1>5, <2>2, <3>1, ReachSteps
    <3>4. \A u \in Slot : mem'[d][u] = Zero /\ Zero \notin Entry
      BY <1>5, <1>6, <2>2, <3>1, UnitsAssumption DEF EmptyCluster, Bytes
    <3>5. OneName(d)'
      BY <3>2, <3>3, <3>4 DEF OneName
    <3>6. op'.first = op.first
      BY DEF WriteEntry, Op
    <3>. QED
      BY <3>1, <3>5, <3>6 DEF OneName, Reach, Closed
  <2>3. op'.first = op.first
    BY DEF WriteEntry, Op
  <2>4. op.kind = "mkdir" => \A d : d = op.first => OneName(d)'
    BY <2>2, <2>3 DEF OneName, Reach, Closed
  <2>. QED
    BY <1>8, <2>1, <2>4 DEF NamesDiffer
<1>. QED
  BY <1>3, <1>4, <1>7, <1>9, <1>10
     DEF Named, PlaceIsReached, SearchedInVain, FirstFree, EntryAtHand, Placing, Filling, Allocating

LEMMA WriteEntryFailsNamed ==
    ASSUME TypeOK, TypeOK', Control, Volume, Running, Named, WriteEntryFails
    PROVE  Named'
<1>1. PICK p \in Pos : p = op.pos
  BY DEF TypeOK, Op
<1>2. /\ op.pc = "entry" /\ mem' = Set(p, Orphan) /\ fat' = fat /\ dirs' = dirs /\ op' = Idle
      /\ Orphan \in Bytes /\ Orphan \notin Entry
  BY <1>1, UnitsAssumption DEF WriteEntryFails, Bytes
<1>3. p[1] \in dirs /\ FullBefore(p[1]) /\ \A v \in 1 .. p[2] - 1 : mem[p[1]][v] # Zero
  BY <1>1, <1>2, PlaceFacts
<1>4. Orphan # Zero
  BY MarksAssumption
<1>5. ZeroTail'
  BY <1>2, <1>3, <1>4, TailKept DEF Named, ZeroTail
<1>6. Tidy
  <2>1. ASSUME NEW c \in Cluster, NEW u \in Slot, mem'[c][u] \in Entry
        PROVE  mem'[c][u] = mem[c][u]
    <3>1. PICK q \in Pos : q = <<c, u>>
      BY DEF Pos
    <3>. QED
      BY <1>2, <2>1, <3>1, SetFacts
  <2>. QED
    BY <1>2, <2>1 DEF Tidy
<1>. QED
  BY <1>2, <1>5, <1>6, TidyKeepsNames, NamedIdle DEF Named

-----------------------------------------------------------------------------
(* Names and the filling and the freeing of a chain.                       *)

LEMMA WalkNamed ==
    ASSUME TypeOK, Control, Running, Named,
           Ensure \/ WalkNext \/ WalkEnd \/ Grow \/ Seek, Volume
    PROVE  Named'
<1>. op \in Op /\ op.pc \in {"ensure", "walk", "grow", "data"} /\ Still
  BY DEF Ensure, WalkNext, WalkEnd, Grow, Seek, Move, Still, TypeOK
<1>1. Filling
  BY DEF Filling
<1>2. ZeroTail' /\ NamesDiffer' /\ mem' = mem /\ dirs' = dirs
  BY StillNamed DEF Named, Still
<1>3. /\ Filling' /\ op'.pos = op.pos /\ op'.kind = op.kind
      /\ op'.pc = "data" /\ op'.cl \in Cluster => op'.cl \notin dirs
  <2>1. CASE Ensure
    BY <2>1 DEF Ensure, Move, Filling, Allocating, Op
  <2>2. CASE WalkNext \/ WalkEnd
    BY <2>2 DEF WalkNext, WalkEnd, Move, Filling, Allocating, Op
  <2>3. CASE Grow
    <3>1. op.first \in Cluster => op.first \notin dirs
      BY <1>1, Clusters DEF Running, NewChain
    <3>. QED
      BY <2>3, <3>1 DEF Grow, Move, Filling, Allocating, Op
  <2>4. CASE Seek
    <3>1. PICK next \in {fat[op.cl], EOC} : op' = [op EXCEPT !.off = @ - SLOTS, !.cl = next]
      BY <2>4 DEF Seek, Move
    <3>2. op.pc = "data" /\ op.cl \in Cluster /\ op.cl \notin dirs
      BY <2>4 DEF Seek, Named, EntryAtHand
    <3>3. next \in Cluster => next \notin dirs
      BY <3>1, <3>2, Clusters DEF Volume, LinksAreSound
    <3>. QED
      BY <3>1, <3>2, <3>3 DEF Filling, Allocating, Op
  <2>. QED
    BY <2>1, <2>2, <2>3, <2>4
<1>4. \A p \in Pos : Unit(p) = mem[p[1]][p[2]]
  BY DEF Unit
<1>. QED
  BY <1>1, <1>2, <1>3, <1>4, FillGoesOn

LEMMA WriteDataNamed ==
    ASSUME TypeOK, TypeOK', Control, Volume, Running, Named, WriteData
    PROVE  Named'
<1>. op \in Op
  BY DEF TypeOK
<1>1. PICK c \in Cluster : c = op.cl
  BY DEF WriteData
<1>2. op.pc = "data" /\ fat' = fat /\ dirs' = dirs /\ c \notin dirs
  BY <1>1 DEF WriteData, Named, EntryAtHand
<1>3. mem' = [mem EXCEPT ![c] = Filled]
  BY <1>1 DEF WriteData, Filled
<1>4. /\ \A d \in Cluster : d # c => mem'[d] = mem[d]
      /\ \A u \in Slot : mem'[c][u] \in Entry => mem'[c][u] = mem[c][u]
  BY <1>1, <1>3, FilledFacts DEF TypeOK, WriteData
<1>5. Tidy
  BY <1>2, <1>4 DEF Tidy
<1>6. \A d \in dirs : mem'[d] = mem[d]
  BY <1>2, <1>4 DEF TypeOK
<1>7. ZeroTail' /\ NamesDiffer'
  BY <1>2, <1>5, <1>6, TidyKeepsNames, TailUntouched DEF Named
<1>8. /\ op'.pc \in {"data", "commit"} /\ op'.pos = op.pos /\ op'.kind = op.kind
      /\ op'.pc = "data" => op'.cl \in {fat[c], EOC}
  BY <1>1, <1>2 DEF WriteData, Op
<1>9. op'.pc = "data" /\ op'.cl \in Cluster => op'.cl \notin dirs'
  BY <1>2, <1>8, Clusters DEF Volume, LinksAreSound
<1>10. Filling /\ Filling'
  BY <1>2, <1>8 DEF Filling
<1>11. \A p \in Pos : p[1] \in dirs /\ Unit(p) # Zero => mem'[p[1]][p[2]] # Zero
  BY <1>6 DEF Unit
<1>. QED
  BY <1>2, <1>7, <1>8, <1>9, <1>10, <1>11, FillGoesOn

LEMMA CommitNamed ==
    ASSUME TypeOK, TypeOK', Control, Volume, Running, Named, Commit
    PROVE  Named'
<1>. op \in Op
  BY DEF TypeOK
<1>1. PICK p \in Pos : p = op.pos
  BY DEF Op
<1>2. PICK b \in Bytes \cup Entry : b = Settled(p)
  BY SettledType
<1>3. /\ op.pc = "commit" /\ fat' = fat /\ dirs' = dirs /\ mem' = Set(p, b)
      /\ op'.pc = "bump" /\ op'.leg = op.leg
  BY <1>1, <1>2 DEF Commit, Settled, Op
<1>4. op.leg # 2 /\ (IsEntryAt(p) => ~Unit(p).dir) /\ Unit(p) # Zero
  BY <1>1, <1>3 DEF Running, NewChain, Filling, Named, EntryAtHand
<1>5. /\ b # Zero
      /\ b \in Entry => /\ IsEntryAt(p) /\ b.name = Unit(p).name /\ ~b.dir /\ ~Unit(p).dir
                        /\ b.dir = Unit(p).dir
  <2>1. CASE IsEntryAt(p)
    <3>1. b = [Unit(p) EXCEPT !.first = op.first, !.size = op.size]
      BY <1>2, <2>1 DEF Settled
    <3>2. b \in Entry
      BY <1>2, <2>1, SettledType
    <3>. QED
      BY <1>4, <2>1, <3>1, <3>2, UnitsAssumption DEF IsEntryAt, Entry, Bytes
  <2>2. CASE ~IsEntryAt(p)
    BY <1>2, <2>2, MarksAssumption, UnitsAssumption DEF Settled, Bytes
  <2>. QED
    BY <2>1, <2>2
<1>6. ZeroTail'
  BY <1>3, <1>4, <1>5, TailKept DEF Named, ZeroTail
<1>7. Tidy
  <2>1. ASSUME NEW c \in Cluster, NEW u \in Slot, mem'[c][u] \in Entry
        PROVE  /\ mem[c][u] \in Entry
               /\ mem'[c][u].name = mem[c][u].name
               /\ mem'[c][u].dir = mem[c][u].dir
               /\ mem'[c][u].dir => mem'[c][u] = mem[c][u]
    <3>1. PICK q \in Pos : q = <<c, u>>
      BY DEF Pos
    <3>2. CASE q = p
      <4>1. mem'[c][u] = b /\ mem[c][u] = Unit(p)
        BY <1>3, <3>1, <3>2, SetFacts DEF Unit
      <4>. QED
        BY <1>5, <2>1, <4>1 DEF IsEntryAt
    <3>3. CASE q # p
      <4>1. mem'[c][u] = mem[c][u]
        BY <1>3, <3>1, <3>3, SetFacts
      <4>. QED
        BY <2>1, <4>1
    <3>. QED
      BY <3>2, <3>3
  <2>. QED
    BY <1>3, <2>1 DEF Tidy
<1>8. NamesDiffer'
  BY <1>7, TidyKeepsNames DEF Named
<1>. QED
  BY <1>3, <1>4, <1>6, <1>8
     DEF Named, PlaceIsReached, SearchedInVain, FirstFree, EntryAtHand, Placing, Filling, Allocating

LEMMA UnlinkNamed ==
    ASSUME TypeOK, TypeOK', Control, Running, Named, Unlink
    PROVE  Named'
<1>. op \in Op
  BY DEF TypeOK
<1>1. PICK p \in Pos : p = op.pos
  BY DEF Op
<1>2. /\ op.pc = "unlink" /\ fat' = fat /\ dirs' = dirs /\ mem' = Set(p, Deleted)
      /\ op'.pc = "bump" /\ op'.leg = op.leg
      /\ Deleted \in Bytes /\ Deleted \notin Entry /\ Deleted # Zero
  BY <1>1, MarksAssumption, UnitsAssumption DEF Unlink, Op, Bytes
<1>3. op.leg # 2 /\ Unit(p) # Zero
  BY <1>1, <1>2 DEF Running, OldChain, Named, EntryAtHand
<1>4. ZeroTail'
  BY <1>2, <1>3, TailKept DEF Named, ZeroTail
<1>5. Tidy
  <2>1. ASSUME NEW c \in Cluster, NEW u \in Slot, mem'[c][u] \in Entry
        PROVE  mem'[c][u] = mem[c][u]
    <3>1. PICK q \in Pos : q = <<c, u>>
      BY DEF Pos
    <3>. QED
      BY <1>2, <2>1, <3>1, SetFacts
  <2>. QED
    BY <1>2, <2>1 DEF Tidy
<1>6. NamesDiffer'
  BY <1>5, TidyKeepsNames DEF Named
<1>. QED
  BY <1>2, <1>3, <1>4, <1>6
     DEF Named, PlaceIsReached, SearchedInVain, FirstFree, EntryAtHand, Placing, Filling, Allocating

LEMMA EmptyNamed ==
    ASSUME TypeOK, Control, Running, Named, EmptyNext \/ EmptyYes
    PROVE  Named'
<1>. op \in Op
  BY DEF TypeOK
<1>1. /\ op.pc = "empty" /\ Still /\ op'.pc \in {"empty", "free"}
      /\ op'.pos = op.pos /\ op'.kind = op.kind
  BY DEF EmptyNext, EmptyYes, Move, Still, Op
<1>2. /\ op.pos \in Pos /\ Unit(op.pos) # Zero /\ op.kind = "rm"
      /\ ZeroTail /\ NamesDiffer
  BY <1>1 DEF Named, EntryAtHand, Running, OldChain, Op
<1>. QED
  BY <1>1, <1>2, EntryTaken

LEMMA FreeClusterNamed ==
    ASSUME TypeOK, TypeOK', Control, Volume, Running, Named, FreeCluster
    PROVE  Named'
<1>. op \in Op
  BY DEF TypeOK
<1>1. PICK c \in Cluster : c = op.cl
  BY DEF FreeCluster, Control
<1>2. /\ op.pc = "free" /\ mem' = mem /\ dirs' = dirs \ {c}
      /\ fat' = [fat EXCEPT ![c] = FREE]
  BY <1>1 DEF FreeCluster
<1>3. /\ op'.pc \in {"free", "unlink", "ensure"} /\ op'.pos = op.pos /\ op'.kind = op.kind
  BY <1>2 DEF FreeCluster, Op
<1>4. /\ \A d \in Cluster : fat'[d] \in Cluster => fat'[d] = fat[d]
      /\ \A d \in dirs' : d \in dirs
  BY <1>2, Clusters DEF TypeOK
<1>5. Tidy
  BY <1>2, <1>4 DEF Tidy
<1>6. ZeroTail' /\ NamesDiffer'
  BY <1>2, <1>4, <1>5, TidyKeepsNames, TailUntouched DEF Named
<1>7. Unit(op.pos)' # Zero /\ (op'.kind # "rm" => op'.pos[1] \in dirs')
  <2>1. Unit(op.pos) # Zero /\ (op.kind # "rm" => op.pos[1] \in dirs)
    BY <1>2 DEF Named, EntryAtHand
  <2>2. op.kind # "rm" => c \notin dirs
    BY <1>1, <1>2 DEF Running, OldChain
  <2>. QED
    BY <1>2, <1>3, <2>1, <2>2 DEF Unit
<1>. QED
  BY <1>3, <1>6, <1>7
     DEF Named, PlaceIsReached, SearchedInVain, FirstFree, EntryAtHand, Placing, Filling, Allocating

-----------------------------------------------------------------------------
(* The invariant of the names.                                             *)

LEMMA InitNamed == Init => Named
<1>. SUFFICES ASSUME Init PROVE Named
  OBVIOUS
<1>1. TypeOK /\ op = Idle /\ \A c \in Cluster, u \in Slot : mem[c][u] = Zero
  BY InitTypes DEF Init
<1>2. Zero \notin Entry
  BY UnitsAssumption DEF Bytes
<1>3. ZeroTail
  BY <1>1, Clusters DEF Init, ZeroTail, TailAt
<1>4. NamesDiffer
  BY <1>1, <1>2 DEF NamesDiffer, OneName, Reach
<1>. QED
  BY <1>1, <1>3, <1>4
     DEF Idle, Named, PlaceIsReached, SearchedInVain, FirstFree, EntryAtHand, Placing, Filling,
         Allocating

LEMMA StepNamed == Inv /\ Naming /\ [Next]_vars => Naming'
<1>. SUFFICES ASSUME Inv, Naming, [Next]_vars, "hurt" \notin faults', "blind" \notin faults'
              PROVE  Named'
  BY DEF Naming
<1>1. TypeOK /\ Control /\ TypeOK' /\ faults \subseteq faults'
  BY StepTypes DEF Inv
<1>2. Volume /\ Running /\ Named
  BY <1>1 DEF Inv, Naming
<1>. USE <1>1, <1>2
<1>3. CASE Call
  <2>1. PICK k, d, n, t : Begin(k, d, n, t)
    BY <1>3 DEF Call
  <2>. QED
    BY <2>1, BeginNamed
<1>4. CASE (\E d \in Heads : Cd(d)) \/ UNCHANGED vars
  <2>1. Still /\ UNCHANGED op
    BY <1>4 DEF Cd, vars, Still
  <2>. QED
    BY <2>1, RestNamed
<1>5. CASE Find
  BY <1>5, FindNamed
<1>6. CASE Alloc
  <2>1. CASE NoSpace
    BY <2>1, StopNamed DEF NoSpace, Abort, Still
  <2>. QED
    BY <1>6, <2>1, MarkNamed, ZeroClusterNamed, LinkNamed DEF Alloc
<1>7. CASE Place
  BY <1>7, SeekPlaceNamed, WriteEntryNamed, WriteEntryFailsNamed DEF Place
<1>8. CASE Fill
  <2>1. CASE WriteDataShort
    BY <2>1, StopNamed DEF WriteDataShort, Abort, Still
  <2>. QED
    BY <1>8, <2>1, WalkNamed, WriteDataNamed, CommitNamed DEF Fill
<1>9. CASE Remove
  <2>1. CASE EmptyNo
    BY <2>1, StopNamed DEF EmptyNo, Abort, Still
  <2>. QED
    BY <1>9, <2>1, EmptyNamed, FreeClusterNamed, UnlinkNamed DEF Remove
<1>10. CASE Bump
  BY <1>10, BumpNamed
<1>11. CASE Fail \/ PowerCut
  BY <1>11, StopNamed DEF Fail, Abort, PowerCut, Still
<1>. QED
  BY <1>3, <1>4, <1>5, <1>6, <1>7, <1>8, <1>9, <1>10, <1>11 DEF Next, Step

LEMMA NamingHolds == Spec => []Naming
<1>1. Init => Naming
  BY InitNamed DEF Naming
<1>2. Inv /\ Naming /\ [Next]_vars => Naming'
  BY StepNamed
<1>. QED
  BY <1>1, <1>2, Invariant, PTL DEF Spec

-----------------------------------------------------------------------------
(* What ChainOf computes.                                                  *)

IsHops(h, n, d) ==
    h = [k \in 0 .. n |-> IF k = 0 THEN {d}
                          ELSE h[k - 1] \cup ({fat[c] : c \in h[k - 1]} \cap Cluster)]

LEMMA ThereAreHops ==
    ASSUME NEW d, NEW n \in Nat
    PROVE  \E h : IsHops(h, n, d)
<1>. DEFINE T == {m \in Nat : ~\E h : IsHops(h, m, d)}
<1>. SUFFICES ASSUME T # {} PROVE FALSE
  OBVIOUS
<1>1. PICK k \in T : \A m \in T : ~(<<m, k>> \in OpToRel(<, Nat))
  <2>1. T \subseteq Nat
    OBVIOUS
  <2>. QED
    BY <2>1, LessIsWellFounded, WFMin
<1>2. CASE k = 0
  <2>1. IsHops([j \in 0 .. 0 |-> {d}], 0, d)
    BY DEF IsHops
  <2>. QED
    BY <1>2, <2>1
<1>3. CASE k # 0
  <2>1. k - 1 \in Nat /\ k \in Nat
    BY <1>3
  <2>2. <<k - 1, k>> \in OpToRel(<, Nat)
    BY <2>1 DEF OpToRel
  <2>3. PICK h : IsHops(h, k - 1, d)
    BY <1>1, <2>1, <2>2
  <2>. DEFINE g == [j \in 0 .. k |->
                      IF j = k THEN h[k - 1] \cup ({fat[c] : c \in h[k - 1]} \cap Cluster)
                      ELSE h[j]]
  <2>4. ASSUME NEW j \in 0 .. k
        PROVE  g[j] = IF j = 0 THEN {d}
                      ELSE g[j - 1] \cup ({fat[c] : c \in g[j - 1]} \cap Cluster)
    <3>1. CASE j = k
      <4>1. g[j - 1] = h[k - 1] /\ j # 0
        BY <1>3, <2>1, <3>1
      <4>. QED
        BY <3>1, <4>1
    <3>2. CASE j # k
      <4>1. j \in 0 .. k - 1
        BY <2>1, <3>2
      <4>2. h[j] = IF j = 0 THEN {d}
                   ELSE h[j - 1] \cup ({fat[c] : c \in h[j - 1]} \cap Cluster)
        BY <2>3, <4>1 DEF IsHops
      <4>3. g[j] = h[j] /\ (j # 0 => g[j - 1] = h[j - 1])
        BY <2>1, <3>2, <4>1
      <4>. QED
        BY <4>2, <4>3
    <3>. QED
      BY <3>1, <3>2
  <2>5. IsHops(g, k, d)
    BY <2>4 DEF IsHops
  <2>. QED
    BY <2>5
<1>. QED
  BY <1>2, <1>3

LEMMA ChainOfIs ==
    ASSUME NEW d
    PROVE  \E h : IsHops(h, MaxCluster, d) /\ ChainOf(d) = h[MaxCluster]
<1>1. \E h : IsHops(h, MaxCluster, d)
  BY ThereAreHops, ClusterAssumption
<1>2. PICK f : f = CHOOSE h : IsHops(h, MaxCluster, d)
  OBVIOUS
<1>3. IsHops(f, MaxCluster, d)
  BY <1>1, <1>2
<1>4. ChainOf(d) = f[MaxCluster]
  BY <1>2 DEF ChainOf, IsHops
<1>. QED
  BY <1>3, <1>4

(* It finds nothing that is not reached.                                   *)
LEMMA ChainIsReached ==
    ASSUME NEW d \in Cluster
    PROVE  \A c \in ChainOf(d) : c \in Reach(d)
<1>1. PICK h : IsHops(h, MaxCluster, d) /\ ChainOf(d) = h[MaxCluster]
  BY ChainOfIs
<1>. DEFINE T == {n \in 0 .. MaxCluster : ~\A c \in h[n] : c \in Reach(d)}
<1>2. MaxCluster \in Nat
  BY ClusterAssumption
<1>3. ASSUME T # {}
      PROVE  FALSE
  <2>1. PICK k \in T : \A m \in T : ~(<<m, k>> \in OpToRel(<, Nat))
    <3>1. T \subseteq Nat
      BY <1>2
    <3>. QED
      BY <1>3, <3>1, LessIsWellFounded, WFMin
  <2>0. k \in 0 .. MaxCluster /\ k \in Nat
    BY <1>2
  <2>2. h[k] = IF k = 0 THEN {d}
               ELSE h[k - 1] \cup ({fat[c] : c \in h[k - 1]} \cap Cluster)
    <3>. HIDE DEF T
    <3>. QED
      BY <1>1, <2>0 DEF IsHops
  <2>3. k # 0
    BY <2>1, <2>2, ReachHolds
  <2>4. k - 1 \in 0 .. MaxCluster /\ <<k - 1, k>> \in OpToRel(<, Nat)
    BY <1>2, <2>0, <2>3 DEF OpToRel
  <2>5. \A c \in h[k - 1] : c \in Reach(d)
    BY <2>1, <2>4
  <2>. QED
    BY <2>2, <2>3, <2>5, ReachHolds
<1>. QED
  BY <1>1, <1>2, <1>3

(* No directory ever has two entries of one name: the search covers the    *)
(* whole chain before an entry is placed, and nothing it has not seen is   *)
(* hung up meanwhile.  Excepted are volumes that were hurt, and searches   *)
(* that could not read a sector and took the name for missing.             *)
THEOREM NamesStayUnique == Spec => []NamesAreUnique
<1>1. Inv /\ Naming => NamesAreUnique
  <2>. SUFFICES ASSUME Inv, Naming, faults \cap {"hurt", "blind"} = {}, NEW d \in Heads,
                       NEW p \in ChainOf(d) \X Slot, NEW q \in ChainOf(d) \X Slot,
                       IsEntryAt(p), IsEntryAt(q), Unit(p).name = Unit(q).name
                PROVE  p = q
    BY DEF NamesAreUnique
  <2>1. OneName(d) /\ d \in Cluster
    BY HeadsInCluster DEF Inv, Naming, Named, NamesDiffer
  <2>2. /\ p = <<p[1], p[2]>> /\ p[1] \in Reach(d) /\ p[2] \in Slot
        /\ q = <<q[1], q[2]>> /\ q[1] \in Reach(d) /\ q[2] \in Slot
    BY <2>1, ChainIsReached
  <2>3. p[1] = q[1] /\ p[2] = q[2]
    BY <2>1, <2>2 DEF OneName, IsEntryAt, Unit
  <2>. QED
    BY <2>2, <2>3
<1>. QED
  BY <1>1, Invariant, NamingHolds, PTL

-----------------------------------------------------------------------------
(* Leaks.                                                                  *)

NoEntries(c) == \A u \in Slot : mem[c][u] \notin Entry

(* The clusters an operation holds that no entry leads to yet, or no more. *)
Held ==
    {c \in Cluster : \/ op.pc \in {"zero", "link"} /\ c = op.new
                     \/ (Placing \/ Filling) /\ c = op.first
                     \/ op.pc = "free" /\ c = op.cl}

(* Where the chains begin.                                                 *)
Anchor(a) == a = Root \/ a \in Held \/ \E p \in Pointers : a = Unit(p).first

AllKept == \A c \in Cluster : fat[c] # FREE => \E a \in Cluster : Anchor(a) /\ c \in Reach(a)

EndIsKnown ==
    /\ Allocating({"extend", "chain"}) => fat[op.last] \notin Cluster
    /\ op.pc = "grow" /\ op.count < op.target => fat[op.last] \notin Cluster

EntryLeads ==
    /\ Filling \/ op.pc \in {"free", "empty", "unlink"} => IsEntryAt(op.pos)
    /\ Filling /\ ~op.loose => Unit(op.pos).first \in {0, op.first}
    /\ op.pc = "free" /\ ~op.loose => Unit(op.pos).first = op.cl
    /\ op.pc = "unlink" /\ ~op.loose => Unit(op.pos).first = 0
    /\ op.pc = "empty" => Unit(op.pos).first = op.first
    /\ op.pc = "ensure" => op.first = 0 \/ op.size > 0
    /\ Allocating({"first"}) => op.first = 0
    /\ op.kind = "append" => op.text # <<>>

EmptyIsSeen ==
    /\ op.pc = "empty" => /\ op.cl \in dirs /\ op.cl \in Reach(op.first)
                          /\ \A c \in Reach(op.first) \ Reach(op.cl) : NoEntries(c)
    /\ op.pc = "free" => \A c \in Reach(op.cl) : c \in dirs => NoEntries(c)

Tight == AllKept /\ EndIsKnown /\ EntryLeads /\ EmptyIsSeen

Keeping == faults = {} => Tight

LEMMA ReachStays ==
    ASSUME \A c \in Cluster : fat[c] \in Cluster => fat'[c] = fat[c], NEW d \in Cluster
    PROVE  \A c \in Reach(d) : c \in Reach(d)'
<1>1. ASSUME NEW S \in SUBSET Cluster, \A c \in S : fat'[c] \in Cluster => fat'[c] \in S
      PROVE  Closed(S)
  BY <1>1 DEF Closed
<1>. QED
  BY <1>1 DEF Reach, Closed

(* A file's chain has no cluster of a directory.                           *)
LEMMA FileReach ==
    ASSUME Volume, NEW c \in Cluster, c \notin dirs
    PROVE  \A b \in Reach(c) : b \notin dirs
<1>. DEFINE S == {b \in Cluster : b \notin dirs}
<1>1. S \in SUBSET Cluster /\ c \in S
  OBVIOUS
<1>2. Closed(S)
  BY DEF Closed, Volume, LinksAreSound
<1>. QED
  BY <1>1, <1>2, ReachIsLeast

LEMMA KeptOn ==
    ASSUME AllKept, fat' = fat,
           \A a \in Cluster : Anchor(a) => Anchor(a)'
    PROVE  AllKept'
<1>1. \A a : Reach(a)' = Reach(a)
  BY SameReach
<1>. QED
  BY <1>1 DEF AllKept

LEMMA AnchorsStay ==
    ASSUME TypeOK,
           \A c \in Held : c \in Held' \/ \E p \in Pointers' : c = mem'[p[1]][p[2]].first,
           \A p \in Pointers : p \in Pointers' /\ mem'[p[1]][p[2]].first = mem[p[1]][p[2]].first
    PROVE  \A a \in Cluster : Anchor(a) => Anchor(a)'
<1>1. \A p \in Pointers : p \in Pointers' /\ Unit(p)'.first = Unit(p).first
  BY DEF Unit
<1>2. \A p \in Pointers' : Unit(p)' = mem'[p[1]][p[2]]
  BY DEF Unit
<1>3. \A a \in Held : Anchor(a)'
  BY <1>2 DEF Anchor
<1>4. \A a : (\E p \in Pointers : a = Unit(p).first) => \E p \in Pointers' : a = Unit(p)'.first
  BY <1>1
<1>. QED
  BY <1>3, <1>4 DEF Anchor

LEMMA StillKept ==
    ASSUME TypeOK, Still, AllKept, op'.loose = op.loose, op.loose => op'.pos = op.pos,
           \A c \in Held : c \in Held'
    PROVE  AllKept'
<1>1. \A p \in Pointers : p \in Pointers'
  BY DEF Still, Pointers, IsEntryAt, Unit
<1>. QED
  BY <1>1, AnchorsStay, KeptOn DEF Still

LEMMA PlainTight ==
    ASSUME AllKept', op'.kind = "append" => op'.text # <<>>,
           \/ op'.pc \in {"idle", "find", "slot", "tail", "entry", "bump"}
           \/ op'.pc \in {"mark", "zero"} /\ op'.goal = "mkdir"
    PROVE  Tight'
BY DEF Tight, EndIsKnown, EntryLeads, EmptyIsSeen, Filling, Allocating

LEMMA HeldFacts ==
    ASSUME TypeOK, Running
    PROVE  /\ op.pc \in {"find", "idle"} \/ (op.pc = "bump" /\ op.kind # "mkdir") => Held = {}
           /\ op.pc \in {"empty", "unlink"} => Held = {}
           /\ op.pc = "free" => \A c \in Held : c = op.cl
BY Clusters DEF Held, Placing, Filling, Allocating, Running, NewDirectory

-----------------------------------------------------------------------------
(* Leaks and the steps that only read.                                     *)

LEMMA TakenHow ==
    ASSUME op \in Op, NEW p, op' = WithEntry(p)
    PROVE  \/ op' = Idle
           \/ op' = [op EXCEPT !.leg = 3, !.cl = op.dir]
           \/ /\ op'.pos = p /\ op'.first = Start(Unit(p)) /\ op'.cl = Start(Unit(p))
              /\ op'.kind = op.kind /\ op'.loose = op.loose /\ op'.text = op.text
              /\ \/ op'.pc = "empty" /\ Unit(p).dir
                 \/ op'.pc = "free" /\ ~Unit(p).dir /\ Unit(p).first # 0
                 \/ op'.pc = "unlink" /\ ~Unit(p).dir /\ Unit(p).first = 0
                 \/ /\ op'.pc = "ensure" /\ op.kind = "write"
                    /\ ~Unit(p).dir /\ Unit(p).first = 0
                 \/ /\ op'.pc = "ensure" /\ op.kind \notin {"touch", "mkdir", "rm", "write"}
                    /\ ~(op.kind = "append" /\ Unit(p).dir)
                    /\ op'.size = Unit(p).size + Len(op.text)
<1>1. PICK s : s = Start(Unit(p))
  OBVIOUS
<1>2. PICK h : h = [op EXCEPT !.pos = p, !.first = s, !.cl = s]
  OBVIOUS
<1>3. h = Here(p)
  BY <1>1, <1>2 DEF Here
<1>4. ASSUME NEW pc \in {"empty", "free", "unlink", "ensure"},
             \/ op' = [h EXCEPT !.pc = pc]
             \/ op' = [h EXCEPT !.size = Len(op.text), !.pc = pc]
             \/ op' = [h EXCEPT !.size = Unit(p).size + Len(op.text), !.off = Unit(p).size, !.pc = pc]
      PROVE  /\ op'.pos = p /\ op'.first = s /\ op'.cl = s /\ op'.pc = pc
             /\ op'.kind = op.kind /\ op'.loose = op.loose /\ op'.text = op.text
  BY <1>2, <1>4 DEF Op
<1>5. op' = [h EXCEPT !.size = Unit(p).size + Len(op.text), !.off = Unit(p).size, !.pc = "ensure"]
         => op'.size = Unit(p).size + Len(op.text)
  BY <1>2 DEF Op
<1>. HIDE <1>2
<1>6. \/ op' = Idle
      \/ op' = [op EXCEPT !.leg = 3, !.cl = op.dir]
      \/ op' = [h EXCEPT !.pc = "empty"] /\ Unit(p).dir
      \/ op' = [h EXCEPT !.pc = "free"] /\ ~Unit(p).dir /\ Unit(p).first # 0
      \/ op' = [h EXCEPT !.pc = "unlink"] /\ ~Unit(p).dir /\ Unit(p).first = 0
      \/ /\ op' = [h EXCEPT !.size = Len(op.text), !.pc = "free"]
         /\ ~Unit(p).dir /\ Unit(p).first # 0
      \/ /\ op' = [h EXCEPT !.size = Len(op.text), !.pc = "ensure"] /\ op.kind = "write"
         /\ ~Unit(p).dir /\ Unit(p).first = 0
      \/ /\ op' = [h EXCEPT !.size = Unit(p).size + Len(op.text), !.off = Unit(p).size,
                            !.pc = "ensure"]
         /\ op.kind \notin {"touch", "mkdir", "rm", "write"}
         /\ ~(op.kind = "append" /\ Unit(p).dir)
  BY <1>3, WithCases
<1>. QED
  BY <1>1, <1>4, <1>5, <1>6

LEMMA FindHitTight ==
    ASSUME TypeOK, Control, Volume, Running, Tight, FindHit
    PROVE  Tight'
<1>. op.pc = "find" /\ op \in Op /\ Still
  BY DEF FindHit, Move, Still, TypeOK
<1>0. /\ op.cl \in dirs /\ op.cl \in Cluster /\ Placing /\ AllKept
      /\ op.kind \in {"touch", "mkdir", "write", "append", "rm"}
      /\ op.kind = "append" => op.text # <<>>
  BY DEF Running, PlaceIsDirectory, Placing, Tight, EntryLeads, Control, Op, OpKind, TypeOK
<1>1. ~op.loose /\ Held = {}
  BY <1>0, PlacingIsTight, HeldFacts
<1>2. PICK u \in Slot : FoundAt(u) /\ op' = WithEntry(<<op.cl, u>>)
  BY DEF FindHit, Move
<1>3. PICK p \in Pos : p[1] \in dirs /\ IsEntryAt(p) /\ op' = WithEntry(p)
  <2>1. <<op.cl, u>> \in Pos /\ Unit(<<op.cl, u>>) \in Entry
    BY <1>0, <1>2, TypeFacts DEF FoundAt, Matches
  <2>. QED
    BY <1>0, <1>2, <2>1 DEF IsEntryAt
<1>4. CASE op' = Idle
  <2>1. op'.loose = op.loose /\ op'.pc = "idle" /\ op'.kind = "none"
    BY <1>1, <1>4 DEF Idle, Op
  <2>2. AllKept'
    BY <1>0, <1>1, <2>1, StillKept
  <2>. QED
    BY <2>1, <2>2, PlainTight
<1>5. CASE op' = [op EXCEPT !.leg = 3, !.cl = op.dir]
  <2>1. op'.loose = op.loose /\ op'.pc = "find" /\ op'.kind = op.kind /\ op'.text = op.text
    BY <1>5 DEF Op
  <2>2. AllKept'
    BY <1>0, <1>1, <2>1, StillKept
  <2>. QED
    BY <1>0, <2>1, <2>2, PlainTight
<1>6. ASSUME op'.pos = p, op'.first = Start(Unit(p)), op'.cl = Start(Unit(p)),
             op'.kind = op.kind, op'.loose = op.loose, op'.text = op.text,
             \/ op'.pc = "empty" /\ Unit(p).dir
             \/ op'.pc = "free" /\ ~Unit(p).dir /\ Unit(p).first # 0
             \/ op'.pc = "unlink" /\ ~Unit(p).dir /\ Unit(p).first = 0
             \/ /\ op'.pc = "ensure" /\ op.kind = "write"
                /\ ~Unit(p).dir /\ Unit(p).first = 0
             \/ /\ op'.pc = "ensure" /\ op.kind \notin {"touch", "mkdir", "rm", "write"}
                /\ ~(op.kind = "append" /\ Unit(p).dir)
                /\ op'.size = Unit(p).size + Len(op.text)
      PROVE  Tight'
  <2>1. AllKept'
    BY <1>0, <1>1, <1>6, StillKept
  <2>2. Unit(p) \in Entry /\ Unit(p).size \in Nat /\ Unit(p).first \in Cluster \cup {0}
    BY <1>3, EntryFacts DEF IsEntryAt
  <2>3. /\ ~Unit(p).dir => Start(Unit(p)) = Unit(p).first
        /\ Unit(p).first # 0 => Start(Unit(p)) = Unit(p).first
        /\ Unit(p).dir => /\ Unit(p).first # 0 /\ Unit(p).first \in dirs
                          /\ Unit(p).first \in Cluster
        /\ ~Unit(p).dir /\ Unit(p).first # 0 => Unit(p).first \notin dirs
    BY <1>1, <1>3, <2>2, StartFacts, EntryHolds
  <2>4. IsEntryAt(op.pos)' /\ Unit(op.pos)' = Unit(p)
    BY <1>3, <1>6 DEF Still, IsEntryAt, Unit
  <2>5. EndIsKnown'
    BY <1>6 DEF EndIsKnown, Allocating
  <2>6. op.kind = "append" => op'.size > 0 \/ op'.pc # "ensure"
    <3>1. op.kind = "append" => Len(op.text) \in Nat /\ Len(op.text) # 0
      BY <1>0, EmptySeq, LenProperties DEF Op
    <3>. QED
      BY <1>6, <2>2, <3>1
  <2>7. EntryLeads'
    <3>1. op'.pc = "free" => Unit(op.pos)'.first = op'.cl
      BY <1>6, <2>3, <2>4
    <3>2. op'.pc = "empty" => Unit(op.pos)'.first = op'.first
      BY <1>6, <2>3, <2>4
    <3>3. op'.pc = "ensure" => Unit(op.pos)'.first = op'.first /\ (op'.first = 0 \/ op'.size > 0)
      BY <1>0, <1>6, <2>3, <2>4, <2>6
    <3>4. op'.pc = "unlink" => Unit(op.pos)'.first = 0
      BY <1>6, <2>4
    <3>. QED
      BY <1>0, <1>6, <2>4, <3>1, <3>2, <3>3, <3>4 DEF EntryLeads, Filling, Allocating
  <2>8. EmptyIsSeen'
    <3>1. CASE op'.pc = "empty"
      <4>1. PICK c \in Cluster : c = op'.cl /\ c = op'.first /\ c \in dirs
        BY <1>6, <2>3, <3>1
      <4>2. op'.cl \in Reach(op.first)'
        BY <4>1, ReachHolds DEF Still, Reach, Closed
      <4>3. Reach(op.first)' = Reach(op.cl)'
        BY <4>1 DEF Reach, Closed
      <4>. QED
        BY <3>1, <4>1, <4>2, <4>3 DEF EmptyIsSeen, Still
    <3>2. CASE op'.pc = "free"
      <4>1. PICK c \in Cluster : c = op'.cl /\ c \notin dirs
        BY <1>6, <2>2, <2>3, <3>2
      <4>2. Reach(op.cl)' = Reach(c)
        BY <4>1 DEF Still, Reach, Closed
      <4>. QED
        BY <3>2, <4>1, <4>2, FileReach DEF EmptyIsSeen, Still
    <3>. QED
      BY <3>1, <3>2 DEF EmptyIsSeen
  <2>. QED
    BY <2>1, <2>5, <2>7, <2>8 DEF Tight
<1>7. \/ op' = Idle
      \/ op' = [op EXCEPT !.leg = 3, !.cl = op.dir]
      \/ /\ op'.pos = p /\ op'.first = Start(Unit(p)) /\ op'.cl = Start(Unit(p))
         /\ op'.kind = op.kind /\ op'.loose = op.loose /\ op'.text = op.text
         /\ \/ op'.pc = "empty" /\ Unit(p).dir
            \/ op'.pc = "free" /\ ~Unit(p).dir /\ Unit(p).first # 0
            \/ op'.pc = "unlink" /\ ~Unit(p).dir /\ Unit(p).first = 0
            \/ /\ op'.pc = "ensure" /\ op.kind = "write"
               /\ ~Unit(p).dir /\ Unit(p).first = 0
            \/ /\ op'.pc = "ensure" /\ op.kind \notin {"touch", "mkdir", "rm", "write"}
               /\ ~(op.kind = "append" /\ Unit(p).dir)
               /\ op'.size = Unit(p).size + Len(op.text)
  BY <1>3, TakenHow
<1>. QED
  BY <1>4, <1>5, <1>6, <1>7

LEMMA FindOnTight ==
    ASSUME TypeOK, Control, Running, Tight, FindNext \/ FindNothing \/ FindBlind
    PROVE  Tight'
<1>. op.pc = "find" /\ op \in Op /\ Still
  BY DEF FindNext, FindNothing, FindBlind, Move, Still, TypeOK
<1>1. ~op.loose /\ Held = {} /\ AllKept /\ (op.kind = "append" => op.text # <<>>)
  BY PlacingIsTight, HeldFacts DEF Placing, Tight, EntryLeads
<1>2. CASE op' = Idle
  <2>1. op'.loose = op.loose /\ op'.pc = "idle" /\ op'.kind = "none"
    BY <1>1, <1>2 DEF Idle, Op
  <2>2. AllKept'
    BY <1>1, <2>1, StillKept
  <2>. QED
    BY <2>1, <2>2, PlainTight
<1>3. ASSUME op'.loose = op.loose, op'.kind = op.kind, op'.text = op.text,
             \/ op'.pc \in {"find", "slot"}
             \/ op'.pc = "mark" /\ op'.goal = "mkdir"
      PROVE  Tight'
  <2>1. AllKept'
    BY <1>1, <1>3, StillKept
  <2>. QED
    BY <1>1, <1>3, <2>1, PlainTight
<1>4. CASE FindNext
  <2>1. op' = [op EXCEPT !.cl = fat[op.cl]]
    BY <1>4 DEF FindNext, Move
  <2>. QED
    BY <1>3, <2>1 DEF Op
<1>5. CASE op' = WithoutEntry
  <2>1. CASE op' = [op EXCEPT !.pc = "mark", !.goal = "mkdir"]
    BY <1>3, <2>1 DEF Op
  <2>2. CASE op' = [op EXCEPT !.leg = 2, !.cl = op.dir]
    BY <1>3, <2>2 DEF Op
  <2>3. CASE op' = [op EXCEPT !.pc = "slot", !.cl = op.dir]
    BY <1>3, <2>3 DEF Op
  <2>. QED
    BY <1>2, <1>5, <2>1, <2>2, <2>3, WithoutCases
<1>. QED
  BY <1>4, <1>5 DEF FindNothing, FindBlind, Move

LEMMA BeginTight ==
    ASSUME TypeOK, Control, Running, Tight, NEW k, NEW d, NEW n, NEW t, Begin(k, d, n, t),
           k = "append" => t # <<>>
    PROVE  Tight'
<1>. op.pc = "idle" /\ op \in Op /\ Still
  BY DEF Begin, Still, TypeOK
<1>1. ~op.loose /\ Held = {} /\ AllKept
  BY HeldFacts DEF Running, OldChain, Filling, Allocating, Tight
<1>2. op'.pc = "find" /\ op'.kind = k /\ op'.text = t /\ op'.loose = FALSE
  BY DEF Begin, Idle
<1>3. AllKept'
  BY <1>1, <1>2, StillKept DEF Op
<1>. QED
  BY <1>2, <1>3, PlainTight

LEMMA BumpTight ==
    ASSUME TypeOK, Control, Running, Tight, Bump
    PROVE  Tight'
<1>. op.pc = "bump" /\ op \in Op /\ Still
  BY DEF Bump, Still, TypeOK
<1>1. ~op.loose /\ Held = {} /\ AllKept /\ (op.kind = "append" => op.text # <<>>)
  <2>1. op.kind # "mkdir" => Held = {}
    BY HeldFacts
  <2>2. op.kind = "mkdir" => ~Placing /\ ~Filling
    BY DEF Control, Placing, Filling, Allocating
  <2>. QED
    BY <2>1, <2>2 DEF Running, OldChain, Filling, Allocating, Tight, EntryLeads, Held
<1>2. /\ op'.loose = FALSE /\ op'.pc \in {"find", "idle"}
      /\ op'.kind = "append" => op'.text # <<>>
  BY <1>1 DEF Bump, Idle, Op
<1>3. AllKept'
  BY <1>1, <1>2, StillKept DEF Op
<1>. QED
  BY <1>2, <1>3, PlainTight

LEMMA RestTight ==
    ASSUME Tight, Still, UNCHANGED op
    PROVE  Tight'
<1>. fat' = fat /\ mem' = mem /\ dirs' = dirs /\ op' = op
  BY DEF Still
<1>1. AllKept'
  BY DEF Tight, AllKept, Anchor, Held, Reach, Closed, Pointers, IsEntryAt, Unit, Placing, Filling,
         Allocating
<1>2. EndIsKnown' /\ EntryLeads' /\ EmptyIsSeen'
  BY DEF Tight, EndIsKnown, EntryLeads, EmptyIsSeen, NoEntries, Reach, Closed, IsEntryAt, Unit,
         Filling, Allocating
<1>. QED
  BY <1>1, <1>2 DEF Tight

-----------------------------------------------------------------------------
(* Leaks and the allocation of a cluster.                                  *)

(* The entry at hand stays what it was.                                    *)
LEMMA EntryStays ==
    ASSUME TypeOK, Running, Named, Filling, op'.pos = op.pos, \A c \in dirs : mem'[c] = mem[c]
    PROVE  Unit(op.pos)' = Unit(op.pos) /\ op.pos[1] \in dirs /\ op.pos \in Pos
<1>1. op.pos[1] \in dirs /\ op.pos \in Pos
  BY DEF Running, NewChain, Named, EntryAtHand, TypeOK, Op
<1>. QED
  BY <1>1 DEF Unit

LEMMA PointersKept ==
    ASSUME TypeOK, \A c \in dirs : c \in dirs' /\ mem'[c] = mem[c],
           op'.loose = op.loose, op'.pos = op.pos
    PROVE  \A p \in Pointers : p \in Pointers' /\ mem'[p[1]][p[2]].first = mem[p[1]][p[2]].first
BY DEF Pointers, IsEntryAt, Unit

LEMMA MarkTight ==
    ASSUME TypeOK, Control, Running, Named, Tight, Mark
    PROVE  Tight'
<1>. op \in Op
  BY DEF TypeOK
<1>1. PICK c \in Cluster : /\ fat[c] = FREE /\ fat' = [fat EXCEPT ![c] = EOC]
                           /\ op' = [op EXCEPT !.new = c, !.pc = "zero"]
  BY DEF Mark, Allocable
<1>2. op.pc = "mark" /\ mem' = mem /\ dirs' = dirs
  BY DEF Mark
<1>3. /\ op'.pc = "zero" /\ op'.goal = op.goal /\ op'.first = op.first /\ op'.new = c
      /\ op'.pos = op.pos /\ op'.kind = op.kind /\ op'.text = op.text /\ op'.loose = op.loose
      /\ op'.last = op.last
  BY <1>1 DEF Op
<1>4. /\ \A b \in Cluster : fat[b] \in Cluster => fat'[b] = fat[b]
      /\ \A b \in Cluster : b # c => fat'[b] = fat[b]
      /\ fat'[c] \notin Cluster
  BY <1>1, Clusters DEF TypeOK
<1>5. \A a \in Cluster : Anchor(a) => Anchor(a)'
  <2>1. \A b \in Held : b \in Held'
    BY <1>2, <1>3 DEF Held, Placing, Filling, Allocating
  <2>2. \A p \in Pointers : p \in Pointers' /\ mem'[p[1]][p[2]].first = mem[p[1]][p[2]].first
    BY <1>2, <1>3, PointersKept
  <2>. QED
    BY <2>1, <2>2, AnchorsStay
<1>6. AllKept'
  <2>1. ASSUME NEW b \in Cluster, fat'[b] # FREE
        PROVE  \E a \in Cluster : Anchor(a)' /\ b \in Reach(a)'
    <3>1. CASE b = c
      <4>1. c \in Held' /\ Anchor(c)'
        BY <1>3 DEF Held, Anchor
      <4>2. c \in Reach(c)'
        BY DEF Reach, Closed
      <4>. QED
        BY <3>1, <4>1, <4>2
    <3>2. CASE b # c
      <4>1. PICK a \in Cluster : Anchor(a) /\ b \in Reach(a)
        BY <1>4, <2>1, <3>2 DEF Tight, AllKept
      <4>. QED
        BY <1>4, <1>5, <4>1, ReachStays
    <3>. QED
      BY <3>1, <3>2
  <2>. QED
    BY <2>1 DEF AllKept
<1>7. EndIsKnown'
  <2>1. Allocating({"extend", "chain"})' => fat[op.last] \notin Cluster /\ op.last \in Cluster
    BY <1>2, <1>3 DEF Tight, EndIsKnown, Allocating, Control
  <2>. QED
    BY <1>3, <1>4, <2>1 DEF EndIsKnown
<1>8. EntryLeads'
  <2>1. Unit(op.pos)' = Unit(op.pos)
    BY <1>2, <1>3 DEF Unit
  <2>2. Filling' <=> Filling
    BY <1>2, <1>3 DEF Filling, Allocating
  <2>3. Allocating({"first"})' <=> Allocating({"first"})
    BY <1>2, <1>3 DEF Allocating
  <2>. QED
    BY <1>3, <2>1, <2>2, <2>3 DEF Tight, EntryLeads, IsEntryAt
<1>9. EmptyIsSeen'
  BY <1>3 DEF EmptyIsSeen
<1>. QED
  BY <1>6, <1>7, <1>8, <1>9 DEF Tight

LEMMA ZeroClusterTight ==
    ASSUME TypeOK, Control, Running, Named, Tight, ZeroCluster
    PROVE  Tight'
<1>. op \in Op
  BY DEF TypeOK
<1>1. PICK n \in Cluster : n = op.new
  BY DEF ZeroCluster, Control
<1>2. /\ op.pc = "zero" /\ fat' = fat /\ dirs' = dirs
      /\ mem' = [mem EXCEPT ![n] = [u \in Slot |-> Zero]]
  BY <1>1 DEF ZeroCluster
<1>3. n \notin dirs /\ fat[n] \notin Cluster
  BY <1>1, <1>2, Clusters DEF Running, NewCluster, Fresh
<1>4. \A c \in dirs : c \in Cluster /\ mem'[c] = mem[c]
  BY <1>2, <1>3 DEF TypeOK
<1>5. /\ op'.pos = op.pos /\ op'.kind = op.kind /\ op'.text = op.text /\ op'.loose = op.loose
      /\ op'.goal = op.goal /\ op'.new = op.new
      /\ \/ op.goal = "mkdir" /\ op'.pc = "slot" /\ op'.first = n
         \/ op.goal = "first" /\ op'.pc = "grow" /\ op'.first = n /\ op'.last = n
         \/ /\ op.goal \in {"extend", "chain"} /\ op'.pc = "link" /\ op'.first = op.first
            /\ op'.last = op.last
  <2>1. CASE op.goal = "mkdir"
    BY <1>1, <2>1 DEF ZeroCluster, Op
  <2>2. CASE op.goal = "first"
    BY <1>1, <2>2 DEF ZeroCluster, Op
  <2>3. CASE op.goal \in {"extend", "chain"}
    BY <1>1, <2>3 DEF ZeroCluster, Op
  <2>. QED
    BY <1>2, <2>1, <2>2, <2>3 DEF Control, Op, OpGoal
<1>6. op.goal \in {"mkdir", "first"} => op.first = 0
  BY <1>2 DEF Running, NewDirectory, Placing, Tight, EntryLeads, Allocating
<1>7. \A a \in Cluster : Anchor(a) => Anchor(a)'
  <2>1. ASSUME NEW c \in Held
        PROVE  c \in Held'
    <3>1. c \in Cluster /\ (c = n \/ c = op.first)
      BY <1>1, <1>2, <2>1 DEF Held
    <3>2. CASE op.goal \in {"mkdir", "first"}
      BY <1>5, <1>6, <3>1, <3>2, Clusters DEF Held, Placing, Filling
    <3>3. CASE op.goal \in {"extend", "chain"}
      BY <1>1, <1>5, <3>1, <3>3 DEF Held, Placing, Filling, Allocating
    <3>. QED
      BY <1>5, <3>2, <3>3
  <2>2. \A p \in Pointers : p \in Pointers' /\ mem'[p[1]][p[2]].first = mem[p[1]][p[2]].first
    BY <1>2, <1>4, <1>5, PointersKept
  <2>. QED
    BY <2>1, <2>2, AnchorsStay
<1>8. AllKept'
  BY <1>2, <1>7, KeptOn DEF Tight
<1>9. EndIsKnown'
  BY <1>2, <1>3, <1>5 DEF Tight, EndIsKnown, Allocating
<1>10. EntryLeads'
  <2>1. op.kind = "append" => op.text # <<>>
    BY DEF Tight, EntryLeads
  <2>2. CASE op.goal \in {"mkdir", "extend"}
    <3>1. ~Filling' /\ ~Allocating({"first"})' /\ op'.pc \in {"slot", "link"}
      BY <1>5, <2>2 DEF Filling, Allocating
    <3>. QED
      BY <1>5, <2>1, <3>1 DEF EntryLeads
  <2>3. CASE op.goal \in {"first", "chain"}
    <3>1. Filling
      BY <1>2, <2>3 DEF Filling, Allocating
    <3>2. Unit(op.pos)' = Unit(op.pos)
      BY <1>4, <1>5, <3>1, EntryStays
    <3>3. op'.pc \in {"grow", "link"} /\ ~Allocating({"first"})'
      BY <1>5, <2>3 DEF Allocating
    <3>4. ~op.loose => Unit(op.pos).first \in {0, op'.first}
      BY <1>5, <1>6, <3>1 DEF Tight, EntryLeads
    <3>. QED
      BY <1>5, <2>1, <3>1, <3>2, <3>3, <3>4 DEF Tight, EntryLeads, IsEntryAt
  <2>. QED
    BY <1>5, <2>2, <2>3
<1>11. EmptyIsSeen'
  BY <1>5 DEF EmptyIsSeen
<1>. QED
  BY <1>8, <1>9, <1>10, <1>11 DEF Tight

LEMMA LinkTight ==
    ASSUME TypeOK, TypeOK', Control, Volume, Running, Named, Tight, Link
    PROVE  Tight'
<1>. op \in Op
  BY DEF TypeOK
<1>1. PICK n \in Cluster, l \in Cluster : n = op.new /\ l = op.last
  BY LinkFacts
<1>2. /\ n # l /\ Fresh(n) /\ fat'[l] = n /\ mem' = mem /\ fat[l] # FREE
      /\ \A c \in Cluster : c # l => fat'[c] = fat[c]
      /\ op'.pos = op.pos /\ op'.kind = op.kind /\ op'.goal = op.goal /\ op'.first = op.first
      /\ op'.loose = op.loose /\ op'.new = op.new
  BY <1>1, LinkFacts
<1>3. /\ op.pc = "link" /\ \A c \in dirs : c \in dirs'
      /\ op'.text = op.text /\ op.goal \in {"extend", "chain"}
      /\ op.goal = "extend" => op'.pc = "slot"
      /\ op.goal # "extend" => op'.pc = "grow" /\ op'.last = n
  BY <1>1 DEF Link, Op, Control
<1>4. fat[n] \notin Cluster /\ fat'[n] \notin Cluster /\ fat[l] \notin Cluster
  <2>1. fat[l] \notin Cluster
    BY <1>1, <1>3 DEF Tight, EndIsKnown, Allocating
  <2>. QED
    BY <1>2, <2>1, Clusters DEF Fresh
<1>5. \A a \in Cluster : Anchor(a) => Anchor(a)' \/ a = n
  <2>1. ASSUME NEW c \in Held
        PROVE  c \in Held' \/ c = n
    <3>1. c \in Cluster /\ (c = n \/ c = op.first)
      BY <1>1, <1>3, <2>1 DEF Held
    <3>. QED
      BY <1>2, <1>3, <3>1 DEF Held, Placing, Filling
  <2>2. \A p \in Pointers : p \in Pointers' /\ Unit(p)'.first = Unit(p).first
    <3>1. \A p \in Pointers : p \in Pointers' /\ mem'[p[1]][p[2]].first = mem[p[1]][p[2]].first
      BY <1>2, <1>3, PointersKept
    <3>. QED
      BY <1>2, <3>1 DEF Unit
  <2>. QED
    BY <2>1, <2>2 DEF Anchor
<1>6. \A a \in Cluster : \A c \in Reach(a) : c \in Reach(a)'
  <2>1. \A c \in Cluster : fat[c] \in Cluster => fat'[c] = fat[c]
    BY <1>2, <1>4
  <2>. QED
    BY <2>1, ReachStays
<1>7. \A c \in Reach(n) : c = n
  BY <1>4, ReachSteps
<1>8. \E a \in Cluster : Anchor(a)' /\ n \in Reach(a)'
  <2>1. PICK a \in Cluster : Anchor(a) /\ l \in Reach(a)
    BY <1>2 DEF Tight, AllKept
  <2>2. a # n
    BY <1>2, <1>7, <2>1
  <2>3. l \in Reach(a)'
    BY <1>6, <2>1
  <2>4. n \in Reach(a)'
    BY <1>2, <2>3 DEF Reach, Closed
  <2>. QED
    BY <1>5, <2>1, <2>2, <2>4
<1>9. AllKept'
  <2>1. ASSUME NEW c \in Cluster, fat'[c] # FREE
        PROVE  \E a \in Cluster : Anchor(a)' /\ c \in Reach(a)'
    <3>1. PICK a \in Cluster : Anchor(a) /\ c \in Reach(a)
      BY <1>2, <2>1 DEF Tight, AllKept
    <3>2. CASE a = n
      BY <1>7, <1>8, <3>1, <3>2
    <3>3. CASE a # n
      BY <1>5, <1>6, <3>1, <3>3
    <3>. QED
      BY <3>2, <3>3
  <2>. QED
    BY <2>1 DEF AllKept
<1>10. EndIsKnown'
  BY <1>3, <1>4 DEF EndIsKnown, Allocating
<1>11. EntryLeads'
  <2>1. Unit(op.pos)' = Unit(op.pos)
    BY <1>2 DEF Unit
  <2>2. CASE op.goal = "extend"
    BY <1>2, <1>3, <2>2 DEF Tight, EntryLeads, Filling, Allocating
  <2>3. CASE op.goal # "extend"
    BY <1>2, <1>3, <2>1, <2>3 DEF Tight, EntryLeads, Filling, Allocating, IsEntryAt
  <2>. QED
    BY <2>2, <2>3
<1>12. EmptyIsSeen'
  BY <1>3 DEF EmptyIsSeen
<1>. QED
  BY <1>9, <1>10, <1>11, <1>12 DEF Tight

-----------------------------------------------------------------------------
(* Leaks and the place of a new entry.                                     *)

LEMMA SeekPlaceTight ==
    ASSUME TypeOK, Running, Tight, "blind" \notin faults',
           SlotHere \/ SlotNext \/ SlotNone \/ TailNext \/ TailEnd
    PROVE  Tight'
<1>. op \in Op
  BY DEF TypeOK
<1>1. /\ op.pc \in {"slot", "tail"} /\ Still
      /\ op'.first = op.first /\ op'.loose = op.loose /\ op'.kind = op.kind /\ op'.text = op.text
      /\ \/ op'.pc \in {"slot", "tail", "entry"}
         \/ op'.pc = "mark" /\ op'.goal = "extend" /\ op'.last = op.last /\ fat[op.last] \notin Cluster
  <2>1. CASE SlotHere
    BY <2>1 DEF SlotHere, Move, Still, Op
  <2>2. CASE SlotNext \/ SlotNone \/ TailNext
    BY <2>2 DEF SlotNext, SlotNone, TailNext, Move, Still, Op
  <2>3. CASE TailEnd
    BY <2>3 DEF TailEnd, Still, Op, Noting
  <2>. QED
    BY <2>1, <2>2, <2>3
<1>2. AllKept'
  <2>1. ~op.loose
    BY <1>1, PlacingIsTight DEF Placing
  <2>2. \A c \in Held : c \in Held'
    BY <1>1 DEF Held, Placing, Filling, Allocating
  <2>. QED
    BY <1>1, <2>1, <2>2, StillKept DEF Tight
<1>3. op'.kind = "append" => op'.text # <<>>
  BY <1>1 DEF Tight, EntryLeads
<1>4. CASE op'.pc \in {"slot", "tail", "entry"}
  BY <1>2, <1>3, <1>4, PlainTight
<1>5. CASE op'.pc = "mark" /\ op'.goal = "extend"
  <2>1. EndIsKnown' /\ EmptyIsSeen'
    BY <1>1, <1>5 DEF EndIsKnown, EmptyIsSeen, Allocating, Still
  <2>2. EntryLeads'
    BY <1>3, <1>5 DEF EntryLeads, Filling, Allocating
  <2>. QED
    BY <1>2, <2>1, <2>2 DEF Tight
<1>. QED
  BY <1>1, <1>4, <1>5

LEMMA WriteEntryTight ==
    ASSUME TypeOK, Control, Volume, Running, Named, Tight, WriteEntry
    PROVE  Tight'
<1>. op \in Op
  BY DEF TypeOK
<1>1. PICK e \in Entry : /\ e = [name |-> op.name, dir |-> op.kind = "mkdir",
                                  first |-> op.first, size |-> 0]
  BY NewEntry
<1>2. PICK p \in Pos : p = op.pos
  BY DEF Op
<1>3. /\ op.pc = "entry" /\ mem' = Set(p, e) /\ fat' = fat /\ \A c \in dirs : c \in dirs'
      /\ op'.pc = "bump" /\ op'.kind = op.kind /\ op'.text = op.text /\ op'.loose = op.loose
      /\ e.first = op.first
  BY <1>1, <1>2 DEF WriteEntry, Op
<1>4. p[1] \in dirs /\ ~IsEntryAt(p) /\ ~op.loose
  BY <1>2, <1>3, PlaceFacts
<1>5. /\ mem'[p[1]][p[2]] = e
      /\ \A q \in Pos : q # p => mem'[q[1]][q[2]] = mem[q[1]][q[2]]
  BY <1>3, SetFacts
<1>6. \A q \in Pointers : q \in Pointers' /\ mem'[q[1]][q[2]].first = mem[q[1]][q[2]].first
  <2>1. ASSUME NEW q \in Pointers
        PROVE  q \in Pos /\ Unit(q)' = Unit(q) /\ q[1] \in dirs' /\ IsEntryAt(q)' /\ Unit(q).first # 0
    <3>1. q \in Pos /\ q # p /\ q[1] \in dirs /\ Unit(q) \in Entry /\ Unit(q).first # 0
      BY <1>4 DEF Pointers, IsEntryAt
    <3>. QED
      BY <1>3, <1>5, <3>1 DEF Unit, IsEntryAt
  <2>. QED
    BY <1>3, <1>4, <2>1 DEF Pointers, Unit
<1>7. ASSUME NEW c \in Held
      PROVE  \E q \in Pointers' : c = mem'[q[1]][q[2]].first
  <2>1. c = op.first /\ c \in Cluster
    BY <1>3, <1>7 DEF Held
  <2>2. p \in Pointers'
    <3>1. Unit(p)' = e
      BY <1>5 DEF Unit
    <3>. QED
      BY <1>3, <1>4, <2>1, <3>1, Clusters DEF Pointers, IsEntryAt
  <2>. QED
    BY <1>3, <1>5, <2>1, <2>2
<1>8. AllKept'
  BY <1>3, <1>6, <1>7, AnchorsStay, KeptOn DEF Tight
<1>. QED
  BY <1>3, <1>8, PlainTight DEF Tight, EntryLeads

-----------------------------------------------------------------------------
(* Leaks and the filling of a chain.                                       *)

LEMMA NeededIsThere ==
    ASSUME TypeOK, op.size > 0
    PROVE  Needed # 0
<1>1. PICK n \in Nat, k \in Nat : n = op.size /\ k = SLOTS /\ n > 0 /\ k > 0
  BY SlotsAssumption DEF TypeOK, Op
<1>2. PICK m \in Nat : m = n - 1
  BY <1>1
<1>3. (m + k) \div k = (m \div k) + 1
  BY <1>1, <1>2
<1>4. m \div k \in Nat
  BY <1>1, <1>2
<1>5. n + k - 1 = m + k
  BY <1>1, <1>2
<1>. QED
  BY <1>1, <1>3, <1>4, <1>5 DEF Needed

LEMMA WalkTight ==
    ASSUME TypeOK, Running, Named, Tight, "blind" \notin faults',
           Ensure \/ WalkNext \/ WalkEnd \/ Grow \/ Seek
    PROVE  Tight'
<1>. op \in Op /\ op.pc \in {"ensure", "walk", "grow", "data"} /\ Still
  BY DEF Ensure, WalkNext, WalkEnd, Grow, Seek, Move, Still, TypeOK
<1>1. Filling /\ op.count \in Nat /\ op.target \in Nat
  BY DEF Filling, Op
<1>2. /\ Filling' /\ ~Placing'
      /\ op'.pos = op.pos /\ op'.kind = op.kind /\ op'.loose = op.loose /\ op'.text = op.text
      /\ op'.first = op.first
      /\ op'.pc # "ensure" /\ op'.pc \notin {"zero", "link", "free", "empty", "unlink"}
      /\ Allocating({"extend", "chain"})' \/ (op'.pc = "grow" /\ op'.count < op'.target)
            => fat[op'.last] \notin Cluster
      /\ Allocating({"first"})' => op'.first = 0
  <2>1. CASE Ensure
    <3>1. Needed = 0 => op.first = 0
      BY <2>1, NeededIsThere DEF Tight, EntryLeads, Ensure
    <3>2. CASE Needed = 0
      <4>1. op' = [op EXCEPT !.first = 0, !.pc = "commit"]
        BY <2>1, <3>2 DEF Ensure, Move
      <4>. QED
        BY <3>1, <3>2, <4>1 DEF Placing, Filling, Allocating, Op
    <3>3. CASE Needed # 0 /\ op.first = 0
      <4>1. op' = [op EXCEPT !.target = Needed, !.goal = "first", !.pc = "mark"]
        BY <2>1, <3>3 DEF Ensure, Move
      <4>. QED
        BY <3>3, <4>1 DEF Placing, Filling, Allocating, Op
    <3>4. CASE Needed # 0 /\ op.first # 0
      <4>1. op' = [op EXCEPT !.target = Needed + 1, !.last = op.first, !.count = 1, !.pc = "walk"]
        BY <2>1, <3>4 DEF Ensure, Move
      <4>. QED
        BY <4>1 DEF Placing, Filling, Allocating, Op
    <3>. QED
      BY <3>2, <3>3, <3>4
  <2>2. CASE WalkNext
    <3>1. op' = [op EXCEPT !.last = fat[op.last], !.count = @ + 1,
                           !.pc = IF op.count + 1 >= op.target THEN "grow" ELSE "walk"]
      BY <2>2 DEF WalkNext, Move
    <3>2. /\ op'.pc \in {"grow", "walk"} /\ op'.count = op.count + 1 /\ op'.target = op.target
          /\ op'.pc = "grow" => op.count + 1 >= op.target
      BY <3>1 DEF Op
    <3>3. ~(op'.pc = "grow" /\ op'.count < op'.target)
      BY <1>1, <3>2
    <3>. QED
      BY <3>1, <3>2, <3>3 DEF Placing, Filling, Allocating, Op
  <2>3. CASE WalkEnd
    BY <2>3 DEF WalkEnd, Noting, Placing, Filling, Allocating, Op
  <2>4. CASE Grow
    <3>1. CASE op.count < op.target
      <4>1. op' = [op EXCEPT !.goal = "chain", !.pc = "mark"] /\ op.pc = "grow"
        BY <2>4, <3>1 DEF Grow, Move
      <4>2. fat[op.last] \notin Cluster
        BY <3>1, <4>1 DEF Tight, EndIsKnown
      <4>. QED
        BY <4>1, <4>2 DEF Placing, Filling, Allocating, Op
    <3>2. CASE ~(op.count < op.target)
      <4>1. op' = [op EXCEPT !.cl = op.first, !.pc = "data"] /\ op.pc = "grow"
        BY <2>4, <3>2 DEF Grow, Move
      <4>. QED
        BY <4>1 DEF Placing, Filling, Allocating, Op
    <3>. QED
      BY <3>1, <3>2
  <2>5. CASE Seek
    BY <2>5 DEF Seek, Move, Placing, Filling, Allocating, Op
  <2>. QED
    BY <2>1, <2>2, <2>3, <2>4, <2>5
<1>3. AllKept'
  <2>1. \A c \in Held : c \in Held'
    BY <1>1, <1>2 DEF Held
  <2>. QED
    BY <1>2, <2>1, StillKept DEF Tight
<1>4. EndIsKnown'
  BY <1>2 DEF EndIsKnown, Still
<1>5. EntryLeads'
  <2>1. Unit(op.pos)' = Unit(op.pos)
    BY <1>2 DEF Unit, Still
  <2>. QED
    BY <1>1, <1>2, <2>1 DEF Tight, EntryLeads, IsEntryAt
<1>6. EmptyIsSeen'
  BY <1>2 DEF EmptyIsSeen
<1>. QED
  BY <1>3, <1>4, <1>5, <1>6 DEF Tight

LEMMA WriteDataTight ==
    ASSUME TypeOK, Running, Named, Tight, WriteData
    PROVE  Tight'
<1>. op \in Op
  BY DEF TypeOK
<1>1. PICK c \in Cluster : c = op.cl
  BY DEF WriteData
<1>2. op.pc = "data" /\ fat' = fat /\ dirs' = dirs /\ c \notin dirs /\ Filling
  BY <1>1 DEF WriteData, Named, EntryAtHand, Filling
<1>3. mem' = [mem EXCEPT ![c] = Filled]
  BY <1>1 DEF WriteData, Filled
<1>4. \A d \in dirs : d \in dirs' /\ mem'[d] = mem[d]
  BY <1>2, <1>3 DEF TypeOK
<1>5. /\ op'.pc \in {"data", "commit"} /\ op'.pos = op.pos /\ op'.kind = op.kind
      /\ op'.first = op.first /\ op'.loose = op.loose /\ op'.text = op.text
  <2>1. PICK h, n : \/ op' = [op EXCEPT !.done = h, !.pc = "commit"]
                    \/ op' = [op EXCEPT !.done = h, !.off = 0, !.cl = n]
    BY DEF WriteData
  <2>2. CASE op' = [op EXCEPT !.done = h, !.pc = "commit"]
    BY <2>2 DEF Op
  <2>3. CASE op' = [op EXCEPT !.done = h, !.off = 0, !.cl = n]
    BY <1>2, <2>3 DEF Op
  <2>. QED
    BY <2>1, <2>2, <2>3
<1>6. AllKept'
  <2>1. \A b \in Held : b \in Held'
    BY <1>2, <1>5 DEF Held, Filling
  <2>2. \A p \in Pointers : p \in Pointers' /\ mem'[p[1]][p[2]].first = mem[p[1]][p[2]].first
    BY <1>4, <1>5, PointersKept
  <2>. QED
    BY <1>2, <2>1, <2>2, AnchorsStay, KeptOn DEF Tight
<1>7. EndIsKnown' /\ EmptyIsSeen'
  BY <1>5 DEF EndIsKnown, EmptyIsSeen, Allocating
<1>8. EntryLeads'
  <2>1. Unit(op.pos)' = Unit(op.pos)
    BY <1>2, <1>4, <1>5, EntryStays
  <2>. QED
    BY <1>2, <1>5, <2>1 DEF Tight, EntryLeads, IsEntryAt, Allocating
<1>. QED
  BY <1>6, <1>7, <1>8 DEF Tight

LEMMA CommitTight ==
    ASSUME TypeOK, Running, Named, Tight, Commit
    PROVE  Tight'
<1>. op \in Op
  BY DEF TypeOK
<1>1. PICK p \in Pos : p = op.pos
  BY DEF Op
<1>2. PICK b \in Bytes \cup Entry : b = Settled(p)
  BY SettledType
<1>3. /\ op.pc = "commit" /\ fat' = fat /\ dirs' = dirs /\ mem' = Set(p, b) /\ Filling
      /\ op'.pc = "bump" /\ op'.loose = FALSE /\ op'.kind = op.kind /\ op'.text = op.text
  BY <1>1, <1>2 DEF Commit, Settled, Op, Filling
<1>4. /\ IsEntryAt(p) /\ p[1] \in dirs /\ b \in Entry /\ b.first = op.first
      /\ ~op.loose => Unit(p).first \in {0, op.first}
  BY <1>1, <1>2, <1>3, SettledType
     DEF Tight, EntryLeads, Running, NewChain, Named, EntryAtHand
<1>5. /\ mem'[p[1]][p[2]] = b
      /\ \A q \in Pos : q # p => mem'[q[1]][q[2]] = mem[q[1]][q[2]]
  BY <1>3, SetFacts
<1>6. op.first # 0 => p \in Pointers'
  BY <1>3, <1>4, <1>5 DEF Pointers, IsEntryAt, Unit
<1>7. \A q \in Pointers : q # p => /\ q \in Pointers'
                                   /\ mem'[q[1]][q[2]].first = mem[q[1]][q[2]].first
  BY <1>1, <1>3, <1>5 DEF Pointers, IsEntryAt, Unit
<1>8. p \in Pointers => /\ p \in Pointers'
                        /\ mem'[p[1]][p[2]].first = mem[p[1]][p[2]].first
  <2>1. ASSUME p \in Pointers
        PROVE  /\ op.first # 0 /\ Unit(p).first = op.first
    BY <1>1, <1>4, <2>1 DEF Pointers
  <2>. QED
    BY <1>4, <1>5, <1>6, <2>1 DEF Unit
<1>9. ASSUME NEW c \in Held
      PROVE  \E q \in Pointers' : c = mem'[q[1]][q[2]].first
  <2>1. c = op.first /\ c # 0
    BY <1>3, <1>9, Clusters DEF Held
  <2>. QED
    BY <1>4, <1>5, <1>6, <2>1
<1>10. AllKept'
  BY <1>3, <1>7, <1>8, <1>9, AnchorsStay, KeptOn DEF Tight
<1>. QED
  BY <1>3, <1>10, PlainTight DEF Tight, EntryLeads

-----------------------------------------------------------------------------
(* Leaks and the freeing of a chain.                                       *)

(* Behind the end of a directory there is nothing.                         *)
LEMMA RestIsEmpty ==
    ASSUME TypeOK, Volume, ZeroTail, NEW c \in dirs, ~GoesOn(c), ~Occupied(c)
    PROVE  \A b \in Reach(c) : NoEntries(b)
<1>1. NoEntries(c)
  <2>1. ASSUME NEW u \in Slot, mem[c][u] \in Entry
        PROVE  FALSE
    <3>1. mem[c][u] \notin {Zero, Deleted, Orphan}
      BY <2>1, UnitsAssumption DEF Bytes
    <3>2. PICK v \in 1 .. u - 1 : mem[c][v] = Zero
      BY <3>1 DEF Occupied, Before
    <3>3. mem[c][u] = Zero
      BY <3>2, SlotsBefore DEF ZeroTail, TailAt
    <3>. QED
      BY <3>1, <3>3
  <2>. QED
    BY <2>1 DEF NoEntries
<1>. QED
  BY <1>1, EmptyOn, UnitsAssumption DEF EmptyCluster, NoEntries, Bytes

LEMMA EmptyTight ==
    ASSUME TypeOK, Control, Volume, Running, Named, Tight, "blind" \notin faults',
           EmptyNext \/ EmptyYes
    PROVE  Tight'
<1>. op \in Op
  BY DEF TypeOK
<1>1. /\ op.pc = "empty" /\ Still /\ ~Occupied(op.cl)
      /\ op'.pos = op.pos /\ op'.kind = op.kind /\ op'.text = op.text /\ op'.loose = op.loose
      /\ op'.first = op.first
  BY DEF EmptyNext, EmptyYes, Move, Still, Op
<1>2. PICK c \in Cluster, f \in Cluster : c = op.cl /\ f = op.first
  BY <1>1 DEF Control
<1>3. /\ c \in dirs /\ c \in Reach(f) /\ IsEntryAt(op.pos) /\ Unit(op.pos).first = f
      /\ \A b \in Reach(f) \ Reach(c) : NoEntries(b)
      /\ op.kind = "append" => op.text # <<>>
      /\ ~op.loose
  BY <1>1, <1>2 DEF Tight, EntryLeads, EmptyIsSeen, Running, OldChain, Filling, Allocating
<1>4. AllKept'
  <2>1. Held = {}
    BY <1>1, HeldFacts
  <2>. QED
    BY <1>1, <1>3, <2>1, StillKept DEF Tight
<1>5. Unit(op.pos)' = Unit(op.pos) /\ (IsEntryAt(op.pos)' <=> IsEntryAt(op.pos))
  BY <1>1 DEF Still, Unit, IsEntryAt
<1>6. \A b : Reach(b)' = Reach(b) /\ (NoEntries(b) => NoEntries(b)')
  BY <1>1, SameReach DEF Still, NoEntries
<1>7. CASE EmptyNext
  <2>1. /\ op'.pc = "empty" /\ op'.cl = fat[c] /\ fat[c] \in Cluster
        /\ \A u \in Slot : mem[c][u] # Zero
    BY <1>2, <1>7 DEF EmptyNext, Move, GoesOn, Op
  <2>2. NoEntries(c)
    <3>1. \A u \in Slot : Zero \notin Before(c, u)
      BY <2>1, SlotsBefore DEF Before
    <3>. QED
      BY <1>1, <1>2, <3>1, UnitsAssumption DEF Occupied, NoEntries, Bytes
  <2>3. fat[c] \in dirs /\ fat[c] \in Reach(f)
    BY <1>3, <2>1, ReachHolds DEF Volume, LinksAreSound
  <2>4. \A b \in Reach(f) \ Reach(fat[c]) : NoEntries(b)
    BY <1>3, <2>1, <2>2, ReachSteps
  <2>5. EmptyIsSeen'
    <3>1. PICK d \in Cluster : d = fat[c]
      BY <2>1
    <3>2. Reach(op.first)' = Reach(f) /\ Reach(op.cl)' = Reach(d)
      BY <1>1, <1>2, <2>1, <3>1 DEF Still, Reach, Closed
    <3>. QED
      BY <1>1, <1>6, <2>1, <2>3, <2>4, <3>1, <3>2 DEF EmptyIsSeen, Still
  <2>6. EntryLeads'
    BY <1>1, <1>2, <1>3, <1>5, <2>1 DEF EntryLeads, Filling, Allocating
  <2>. QED
    BY <1>4, <2>1, <2>5, <2>6 DEF Tight, EndIsKnown, Allocating
<1>8. CASE EmptyYes
  <2>1. op'.pc = "free" /\ op'.cl = f /\ ~GoesOn(c)
    BY <1>2, <1>8 DEF EmptyYes, Noting, Op
  <2>2. \A b \in Reach(f) : NoEntries(b)
    BY <1>1, <1>2, <1>3, <2>1, RestIsEmpty DEF Named
  <2>3. EmptyIsSeen'
    <3>1. Reach(op.cl)' = Reach(f)
      BY <1>1, <2>1 DEF Still, Reach, Closed
    <3>. QED
      BY <1>6, <2>1, <2>2, <3>1 DEF EmptyIsSeen
  <2>4. EntryLeads'
    BY <1>1, <1>2, <1>3, <1>5, <2>1 DEF EntryLeads, Filling, Allocating
  <2>. QED
    BY <1>4, <2>1, <2>3, <2>4 DEF Tight, EndIsKnown, Allocating
<1>. QED
  BY <1>7, <1>8

LEMMA FreeClusterTight ==
    ASSUME TypeOK, Control, Volume, Running, Named, Tight, "cut" \notin faults', FreeCluster
    PROVE  Tight'
<1>. op \in Op
  BY DEF TypeOK
<1>1. PICK c \in Cluster : c = op.cl
  BY DEF FreeCluster, Control
<1>2. /\ op.pc = "free" /\ mem' = mem /\ dirs' = dirs \ {c}
      /\ fat' = [fat EXCEPT ![c] = FREE]
  BY <1>1 DEF FreeCluster
<1>3. /\ op'.pos = op.pos /\ op'.kind = op.kind /\ op'.text = op.text /\ op'.loose
      /\ fat[c] \in Cluster => op'.pc = "free" /\ op'.cl = fat[c]
      /\ fat[c] \notin Cluster /\ op.kind = "write" => op'.pc = "ensure" /\ op'.first = 0
      /\ fat[c] \notin Cluster /\ op.kind # "write" => op'.pc = "unlink"
  <2>1. PICK next \in {fat[c], EOC} :
           /\ faults' = Noting("cut", next # fat[c])
           /\ op' = IF next \in Cluster THEN [op EXCEPT !.cl = next, !.loose = TRUE]
                    ELSE IF op.kind = "write"
                         THEN [op EXCEPT !.first = 0, !.pc = "ensure", !.loose = TRUE]
                         ELSE [op EXCEPT !.pc = "unlink", !.loose = TRUE]
    BY <1>1 DEF FreeCluster
  <2>2. next = fat[c]
    BY <2>1 DEF Noting
  <2>. QED
    BY <1>2, <2>1, <2>2 DEF Op
<1>4. /\ CutOff(c) /\ Unlinked(c) /\ c # Root
      /\ \A b \in Reach(c) : b \in dirs => NoEntries(b)
      /\ IsEntryAt(op.pos) /\ (op.kind = "append" => op.text # <<>>)
      /\ \A a \in Held : a = c
      /\ op.kind # "append"
  BY <1>1, <1>2, HeldFacts DEF Running, OldChain, CutOff, Tight, EmptyIsSeen, EntryLeads
<1>5. /\ \A b \in Cluster : b # c => fat'[b] = fat[b]
      /\ fat'[c] = FREE
      /\ \A b \in Cluster : fat'[b] \in Cluster => fat'[b] = fat[b]
  BY <1>2, Clusters DEF TypeOK
<1>6. ASSUME NEW a \in Cluster, a # c
      PROVE  \A b \in Reach(a) : b \in Reach(a)' /\ b # c
  <2>1. c \notin Reach(a)
    BY <1>4, <1>6, ReachFrom, ReachHolds DEF Unlinked
  <2>2. ASSUME NEW S \in SUBSET Cluster, a \in S,
               \A b \in S : fat'[b] \in Cluster => fat'[b] \in S, NEW b \in Reach(a)
        PROVE  b \in S
    <3>. DEFINE T == {d \in Reach(a) : d \in S}
    <3>1. T \in SUBSET Cluster /\ a \in T
      BY <2>2, ReachHolds
    <3>2. Closed(T)
      BY <1>5, <2>1, <2>2, ReachHolds DEF Closed
    <3>3. \A d \in Reach(a) : d \in T
      BY <3>1, <3>2, ReachIsLeast
    <3>. QED
      BY <2>2, <3>3
  <2>3. \A b \in Reach(a) : b \in Cluster
    BY DEF Reach
  <2>. QED
    BY <2>1, <2>2, <2>3 DEF Reach, Closed
<1>7. \A a \in Cluster : Anchor(a) => Anchor(a)' \/ a = c
  <2>1. ASSUME NEW p \in Pointers, Unit(p).first # c
        PROVE  p \in Pointers' /\ Unit(p)'.first = Unit(p).first
    <3>1. p # op.pos
      BY <1>1, <1>2, <1>3, <2>1 DEF Pointers, Tight, EntryLeads
    <3>2. p[1] \in dirs /\ p \in Pos /\ p[2] \in Slot /\ Unit(p) \in Entry
      BY DEF Pointers, Pos, IsEntryAt
    <3>3. c \in Reach(c)
      BY ReachHolds
    <3>4. p[1] # c
      BY <1>4, <3>2, <3>3 DEF NoEntries, Unit
    <3>5. Unit(p)' = Unit(p)
      BY <1>2 DEF Unit
    <3>. QED
      BY <1>2, <1>3, <3>1, <3>2, <3>4, <3>5 DEF Pointers, IsEntryAt
  <2>. QED
    BY <1>4, <2>1 DEF Anchor
<1>8. AllKept'
  <2>1. ASSUME NEW b \in Cluster, fat'[b] # FREE
        PROVE  \E a \in Cluster : Anchor(a)' /\ b \in Reach(a)'
    <3>1. b # c /\ fat[b] # FREE
      BY <1>5, <2>1
    <3>2. PICK a \in Cluster : Anchor(a) /\ b \in Reach(a)
      BY <3>1 DEF Tight, AllKept
    <3>3. CASE a # c
      BY <1>6, <1>7, <3>2, <3>3
    <3>4. CASE a = c
      <4>1. fat[c] \in Cluster /\ b \in Reach(fat[c])
        BY <3>1, <3>2, <3>4, ReachSteps
      <4>2. fat[c] # c
        BY <1>4 DEF Unlinked
      <4>3. fat[c] \in Held'
        BY <1>3, <4>1 DEF Held
      <4>4. PICK a2 \in Cluster : a2 = fat[c]
        BY <4>1
      <4>5. Anchor(a2)'
        BY <4>3, <4>4 DEF Anchor
      <4>. QED
        BY <1>6, <4>1, <4>2, <4>4, <4>5
    <3>. QED
      BY <3>3, <3>4
  <2>. QED
    BY <2>1 DEF AllKept
<1>9. EntryLeads'
  <2>1. Unit(op.pos)' = Unit(op.pos)
    BY <1>2, <1>3 DEF Unit
  <2>. QED
    BY <1>3, <1>4, <2>1 DEF EntryLeads, IsEntryAt, Filling, Allocating
<1>10. EmptyIsSeen'
  <2>1. CASE fat[c] \in Cluster
    <3>1. PICK d \in Cluster : d = fat[c] /\ d = op'.cl
      BY <1>3, <2>1
    <3>2. Reach(op.cl)' = Reach(d)'
      BY <3>1 DEF Reach, Closed
    <3>3. d \in Reach(c)
      BY <2>1, <3>1, ReachHolds
    <3>4. \A b \in Reach(d)' : b \in Reach(c)
      BY <1>5, <3>3, ReachShrinks, ReachGoesOn
    <3>5. \A b \in Reach(op.cl)' : b \in dirs' => NoEntries(b)'
      BY <1>2, <1>4, <3>2, <3>4 DEF NoEntries
    <3>. QED
      BY <1>3, <2>1, <3>5 DEF EmptyIsSeen
  <2>2. CASE fat[c] \notin Cluster
    BY <1>3, <2>2 DEF EmptyIsSeen
  <2>. QED
    BY <2>1, <2>2
<1>11. EndIsKnown'
  BY <1>3 DEF EndIsKnown, Allocating
<1>. QED
  BY <1>8, <1>9, <1>10, <1>11 DEF Tight

LEMMA UnlinkTight ==
    ASSUME TypeOK, Running, Tight, Unlink
    PROVE  Tight'
<1>. op \in Op
  BY DEF TypeOK
<1>1. PICK p \in Pos : p = op.pos
  BY DEF Op
<1>2. /\ op.pc = "unlink" /\ fat' = fat /\ dirs' = dirs /\ mem' = Set(p, Deleted)
      /\ op'.pc = "bump" /\ op'.kind = op.kind /\ op'.text = op.text /\ op'.loose = FALSE
      /\ Deleted \in Bytes
  BY <1>1 DEF Unlink, Op, Bytes
<1>3. Held = {} /\ p \notin Pointers
  BY <1>1, <1>2, HeldFacts DEF Tight, EntryLeads, Pointers
<1>4. \A q \in Pos : q # p => mem'[q[1]][q[2]] = mem[q[1]][q[2]]
  BY <1>2, SetFacts
<1>5. \A q \in Pointers : q \in Pointers' /\ mem'[q[1]][q[2]].first = mem[q[1]][q[2]].first
  BY <1>2, <1>3, <1>4 DEF Pointers, IsEntryAt, Unit
<1>6. AllKept'
  BY <1>2, <1>3, <1>5, AnchorsStay, KeptOn DEF Tight
<1>. QED
  BY <1>2, <1>6, PlainTight DEF Tight, EntryLeads

-----------------------------------------------------------------------------
(* The invariant against leaks.                                            *)

LEMMA InitTight == Init => Tight
<1>. SUFFICES ASSUME Init PROVE Tight
  OBVIOUS
<1>1. op = Idle /\ \A c \in Cluster : fat[c] # FREE => c = Root
  BY DEF Init
<1>2. AllKept
  BY <1>1, Clusters, ReachHolds DEF AllKept, Anchor
<1>. QED
  BY <1>1, <1>2 DEF Idle, Tight, EndIsKnown, EntryLeads, EmptyIsSeen, Filling, Allocating

LEMMA StepTight == Inv /\ Naming /\ Keeping /\ [Next]_vars => Keeping'
<1>. SUFFICES ASSUME Inv, Naming, Keeping, [Next]_vars, faults' = {}
              PROVE  Tight'
  BY DEF Keeping
<1>1. TypeOK /\ Control /\ TypeOK' /\ faults \subseteq faults'
  BY StepTypes DEF Inv
<1>2. faults = {} /\ "cut" \notin faults' /\ "blind" \notin faults'
  BY <1>1
<1>3. Volume /\ Running /\ Named /\ Tight
  BY <1>2 DEF Inv, Naming, Keeping
<1>4. ~Cut
  BY <1>2 DEF Cut
<1>. USE <1>1, <1>2, <1>3
<1>5. CASE Call
  <2>1. PICK k, d, n, t : Begin(k, d, n, t) /\ (k = "append" => t # <<>>)
    BY <1>5 DEF Call
  <2>. QED
    BY <2>1, BeginTight
<1>6. CASE (\E d \in Heads : Cd(d)) \/ UNCHANGED vars
  <2>1. Still /\ UNCHANGED op
    BY <1>6 DEF Cd, vars, Still
  <2>. QED
    BY <2>1, RestTight
<1>7. CASE Find
  BY <1>7, FindHitTight, FindOnTight DEF Find
<1>8. CASE Alloc
  BY <1>4, <1>8, MarkTight, ZeroClusterTight, LinkTight DEF Alloc, NoSpace, Abort
<1>9. CASE Place
  BY <1>4, <1>9, SeekPlaceTight, WriteEntryTight DEF Place, WriteEntryFails
<1>10. CASE Fill
  BY <1>4, <1>10, WalkTight, WriteDataTight, CommitTight DEF Fill, WriteDataShort, Abort
<1>11. CASE Remove
  BY <1>4, <1>11, EmptyTight, FreeClusterTight, UnlinkTight DEF Remove, EmptyNo, Abort
<1>12. CASE Bump
  BY <1>12, BumpTight
<1>13. CASE Fail \/ PowerCut
  BY <1>4, <1>13 DEF Fail, Abort, PowerCut
<1>. QED
  BY <1>5, <1>6, <1>7, <1>8, <1>9, <1>10, <1>11, <1>12, <1>13 DEF Next, Step

LEMMA KeepingHolds == Spec => []Keeping
<1>1. Init => Keeping
  BY InitTight DEF Keeping
<1>2. Inv /\ Naming /\ Keeping /\ [Next]_vars => Keeping'
  BY StepTight
<1>. QED
  BY <1>1, <1>2, Invariant, NamingHolds, PTL DEF Spec

-----------------------------------------------------------------------------
(* ChainOf finds the whole chain: as long as its set grows, it grows with  *)
(* every hop, and there are more hops than clusters.                       *)

LEMMA ClustersAreFew == IsFiniteSet(Cluster) /\ Cardinality(Cluster) < MaxCluster
<1>1. MaxCluster \in Nat /\ MaxCluster >= 2
  BY ClusterAssumption
<1>2. IsFiniteSet(2 .. MaxCluster) /\ Cardinality(2 .. MaxCluster) = MaxCluster - 2 + 1
  BY <1>1, FS_Interval
<1>. QED
  BY <1>1, <1>2 DEF Cluster

LEMMA HopsGrow ==
    ASSUME TypeOK, NEW d \in Cluster, NEW h, IsHops(h, MaxCluster, d), NEW n \in 0 .. MaxCluster
    PROVE  h[n] \in SUBSET Cluster /\ d \in h[n] /\ (Closed(h[n]) \/ Cardinality(h[n]) >= n + 1)
<1>. DEFINE Good(m) == /\ h[m] \in SUBSET Cluster /\ d \in h[m]
                       /\ Closed(h[m]) \/ Cardinality(h[m]) >= m + 1
            T == {m \in 0 .. MaxCluster : ~Good(m)}
<1>0. MaxCluster \in Nat
  BY ClusterAssumption
<1>1. ASSUME T # {}
      PROVE  FALSE
  <2>1. PICK k \in T : \A m \in T : ~(<<m, k>> \in OpToRel(<, Nat))
    <3>1. T \subseteq Nat
      BY <1>0
    <3>. QED
      BY <1>1, <3>1, LessIsWellFounded, WFMin
  <2>2. k \in 0 .. MaxCluster /\ k \in Nat /\ ~Good(k)
    BY <1>0
  <2>3. h[k] = IF k = 0 THEN {d}
               ELSE h[k - 1] \cup ({fat[c] : c \in h[k - 1]} \cap Cluster)
    BY <2>2 DEF IsHops
  <2>4. k # 0
    <3>1. CASE k = 0
      <4>1. h[k] = {d} /\ Cardinality({d}) = 1
        BY <2>3, <3>1, FS_Singleton
      <4>. QED
        BY <2>2, <3>1, <4>1
    <3>. QED
      BY <3>1
  <2>5. PICK j \in 0 .. MaxCluster : j \in Nat /\ k = j + 1
    <3>1. k \in 0 .. MaxCluster /\ k # 0
      BY <2>2, <2>4
    <3>. HIDE DEF T, Good
    <3>2. k - 1 \in 0 .. MaxCluster /\ k - 1 \in Nat /\ k = (k - 1) + 1
      BY <1>0, <3>1
    <3>. QED
      BY <3>2
  <2>6. Good(j)
    <3>1. <<j, k>> \in OpToRel(<, Nat)
      BY <2>2, <2>5 DEF OpToRel
    <3>. QED
      BY <2>1, <2>5, <3>1
  <2>7. PICK A \in SUBSET Cluster : A = h[j] /\ d \in A /\ (Closed(A) \/ Cardinality(A) >= j + 1)
    BY <2>6
  <2>8. h[k] = A \cup ({fat[c] : c \in A} \cap Cluster)
    <3>1. k - 1 = j
      BY <2>5
    <3>. QED
      BY <2>3, <2>4, <2>7, <3>1
  <2>9. h[k] \in SUBSET Cluster /\ d \in h[k]
    BY <2>7, <2>8
  <2>10. CASE Closed(A)
    <3>1. h[k] = A
      BY <2>8, <2>10 DEF Closed
    <3>. QED
      BY <2>2, <2>9, <2>10, <3>1
  <2>11. CASE ~Closed(A)
    <3>1. PICK c \in A : fat[c] \in Cluster /\ fat[c] \notin A
      BY <2>11 DEF Closed
    <3>2. IsFiniteSet(Cluster)
      BY ClustersAreFew
    <3>3. IsFiniteSet(A) /\ IsFiniteSet(h[k])
      BY <2>9, <3>2, FS_Subset
    <3>4. IsFiniteSet(A \cup {fat[c]}) /\ Cardinality(A \cup {fat[c]}) = Cardinality(A) + 1
      BY <3>1, <3>3, FS_AddElement
    <3>5. (A \cup {fat[c]}) \subseteq h[k]
      BY <2>8, <3>1
    <3>6. Cardinality(A \cup {fat[c]}) <= Cardinality(h[k])
      BY <3>3, <3>5, FS_Subset
    <3>7. Cardinality(A) \in Nat /\ Cardinality(h[k]) \in Nat
      BY <3>3, FS_CardinalityType
    <3>8. Cardinality(h[k]) >= k + 1
      BY <2>5, <2>7, <2>11, <3>4, <3>6, <3>7
    <3>. QED
      BY <2>2, <2>9, <3>8
  <2>. QED
    BY <2>10, <2>11
<1>. QED
  BY <1>1

LEMMA ReachIsChain ==
    ASSUME TypeOK, NEW d \in Cluster
    PROVE  \A c \in Reach(d) : c \in ChainOf(d)
<1>1. PICK h : IsHops(h, MaxCluster, d) /\ ChainOf(d) = h[MaxCluster]
  BY ChainOfIs
<1>2. PICK A \in SUBSET Cluster :
         /\ A = ChainOf(d) /\ d \in A
         /\ Closed(A) \/ Cardinality(A) >= MaxCluster + 1
  <2>1. MaxCluster \in 0 .. MaxCluster
    BY ClusterAssumption
  <2>. QED
    BY <1>1, <2>1, HopsGrow
<1>3. IsFiniteSet(Cluster) /\ Cardinality(Cluster) < MaxCluster /\ Cardinality(Cluster) \in Nat
  BY ClustersAreFew, FS_CardinalityType
<1>4. Cardinality(A) <= Cardinality(Cluster) /\ Cardinality(A) \in Nat
  BY <1>3, FS_Subset, FS_CardinalityType
<1>5. Closed(A)
  BY <1>2, <1>3, <1>4, ClusterAssumption
<1>. QED
  BY <1>2, <1>5, ReachIsLeast

(* As long as nothing failed, nothing leaks: between operations every      *)
(* cluster in use is on the chain of the root or of an entry.              *)
THEOREM NothingIsLeaked == Spec => []NothingLeaks
<1>1. Inv /\ Keeping => NothingLeaks
  <2>. SUFFICES ASSUME Inv, Keeping, op.pc = "idle", faults = {}, NEW c \in Cluster, fat[c] # FREE
                PROVE  \E d \in {Root} \cup {Unit(p).first : p \in Pointers} : c \in ChainOf(d)
    BY DEF NothingLeaks
  <2>1. TypeOK /\ Running /\ Held = {}
    BY HeldFacts DEF Inv
  <2>2. PICK a \in Cluster : Anchor(a) /\ c \in Reach(a)
    BY DEF Keeping, Tight, AllKept
  <2>3. c \in ChainOf(a)
    BY <2>1, <2>2, ReachIsChain
  <2>4. a \in {Root} \cup {Unit(p).first : p \in Pointers}
    BY <2>1, <2>2 DEF Anchor
  <2>. QED
    BY <2>3, <2>4
<1>. QED
  BY <1>1, Invariant, KeepingHolds, PTL

-----------------------------------------------------------------------------
(* Positions on a chain: how many links after cluster a the cluster c      *)
(* comes, again as the least sets that hold 0 at a and go up along links.  *)

Climbs(S) == \A c \in Cluster : fat[c] \in Cluster => \A i \in S[c] : i + 1 \in S[fat[c]]

Places(a, c) ==
    {i \in Nat : \A S \in [Cluster -> SUBSET Nat] : 0 \in S[a] /\ Climbs(S) => i \in S[c]}

LEMMA PlacesHold ==
    ASSUME NEW a \in Cluster
    PROVE  /\ 0 \in Places(a, a)
           /\ \A c \in Cluster : fat[c] \in Cluster =>
                 \A i \in Places(a, c) : i + 1 \in Places(a, fat[c])
BY DEF Places, Climbs

LEMMA PlacesAreLeast ==
    ASSUME NEW a, NEW S \in [Cluster -> SUBSET Nat], 0 \in S[a],
           \A c \in Cluster : fat[c] \in Cluster => \A i \in S[c] : i + 1 \in S[fat[c]]
    PROVE  \A c \in Cluster : \A i \in Places(a, c) : i \in S[c]
BY DEF Places, Climbs

LEMMA PlacesReached ==
    ASSUME NEW a \in Cluster, NEW c \in Cluster, NEW i \in Places(a, c)
    PROVE  c \in Reach(a)
<1>. DEFINE S == [b \in Cluster |-> IF b \in Reach(a) THEN Nat ELSE {}]
<1>1. S \in [Cluster -> SUBSET Nat] /\ 0 \in S[a]
  BY ReachHolds
<1>2. \A b \in Cluster : fat[b] \in Cluster => \A j \in S[b] : j + 1 \in S[fat[b]]
  BY ReachHolds
<1>3. i \in S[c]
  <2>. HIDE DEF S
  <2>. QED
    BY <1>1, <1>2, PlacesAreLeast
<1>. QED
  BY <1>3

(* Whoever is not at the beginning is one link after somebody.             *)
LEMMA PlacesFrom ==
    ASSUME NEW a \in Cluster, NEW c \in Cluster, NEW i \in Places(a, c), i # 0 \/ c # a
    PROVE  \E b \in Cluster, j \in Nat : j \in Places(a, b) /\ fat[b] = c /\ i = j + 1
<1>. SUFFICES ASSUME \A b \in Cluster, j \in Nat :
                        j \in Places(a, b) /\ fat[b] = c => i # j + 1
              PROVE  FALSE
  OBVIOUS
<1>. DEFINE S == [b \in Cluster |-> IF b = c THEN Places(a, b) \ {i} ELSE Places(a, b)]
<1>1. S \in [Cluster -> SUBSET Nat] /\ 0 \in S[a]
  BY PlacesHold DEF Places
<1>2. ASSUME NEW b \in Cluster, fat[b] \in Cluster, NEW j \in S[b]
      PROVE  j + 1 \in S[fat[b]]
  <2>1. j \in Places(a, b) /\ j \in Nat
    BY <1>1, <1>2
  <2>2. j + 1 \in Places(a, fat[b])
    BY <1>2, <2>1, PlacesHold
  <2>. QED
    BY <1>2, <2>1, <2>2
<1>3. i \in S[c]
  <2>. HIDE DEF S
  <2>. QED
    BY <1>1, <1>2, PlacesAreLeast
<1>. QED
  BY <1>3

(* A cluster is at one position of a chain only.                           *)
LEMMA PlacesAreOne ==
    ASSUME NEW a \in Cluster, Unlinked(a), LinksAreApart
    PROVE  \A c \in Cluster : \A i, j \in Places(a, c) : i = j
<1>. DEFINE S == [c \in Cluster |-> {i \in Places(a, c) : \A j \in Places(a, c) : i = j}]
<1>1. S \in [Cluster -> SUBSET Nat]
  BY DEF Places
<1>2. 0 \in S[a]
  <2>1. ASSUME NEW j \in Places(a, a), j # 0
        PROVE  FALSE
    BY <2>1, PlacesFrom DEF Unlinked
  <2>. QED
    BY <2>1, PlacesHold
<1>3. ASSUME NEW c \in Cluster, fat[c] \in Cluster, NEW i \in S[c]
      PROVE  i + 1 \in S[fat[c]]
  <2>1. i \in Places(a, c) /\ i \in Nat /\ \A j \in Places(a, c) : i = j
    BY <1>1
  <2>2. i + 1 \in Places(a, fat[c])
    BY <1>3, <2>1, PlacesHold
  <2>3. ASSUME NEW j \in Places(a, fat[c])
        PROVE  i + 1 = j
    <3>1. fat[c] # a
      BY DEF Unlinked
    <3>2. PICK b \in Cluster, k \in Nat : k \in Places(a, b) /\ fat[b] = fat[c] /\ j = k + 1
      BY <1>3, <2>3, <3>1, PlacesFrom
    <3>3. b = c
      BY <1>3, <3>2 DEF LinksAreApart
    <3>. QED
      BY <2>1, <3>2, <3>3
  <2>. QED
    BY <1>3, <2>2, <2>3
<1>4. \A c \in Cluster : \A i \in Places(a, c) : i \in S[c]
  <2>. HIDE DEF S
  <2>. QED
    BY <1>1, <1>2, <1>3, PlacesAreLeast
<1>. QED
  BY <1>4

(* Positions stay as long as the chain's links do.                         *)
LEMMA PlacesStay ==
    ASSUME NEW a \in Cluster, \A b \in Reach(a) : fat[b] \in Cluster => fat'[b] = fat[b]
    PROVE  \A c \in Cluster : \A i \in Places(a, c) : i \in Places(a, c)'
<1>. SUFFICES ASSUME NEW c \in Cluster, NEW i \in Places(a, c),
                     NEW S \in [Cluster -> SUBSET Nat], 0 \in S[a],
                     \A b \in Cluster : fat'[b] \in Cluster => \A j \in S[b] : j + 1 \in S[fat'[b]]
              PROVE  i \in S[c]
  BY DEF Places, Climbs
<1>. DEFINE T == [b \in Cluster |-> IF b \in Reach(a) THEN S[b] ELSE {}]
<1>1. T \in [Cluster -> SUBSET Nat] /\ 0 \in T[a]
  BY ReachHolds
<1>2. \A b \in Cluster : fat[b] \in Cluster => \A j \in T[b] : j + 1 \in T[fat[b]]
  BY ReachHolds
<1>3. i \in T[c]
  <2>. HIDE DEF T
  <2>. QED
    BY <1>1, <1>2, PlacesAreLeast
<1>. QED
  BY <1>3

-----------------------------------------------------------------------------
(* What is read along a chain.                                             *)

(* The units of the clusters before position i.                            *)
Base(i) == i * SLOTS

LEMMA Bases ==
    /\ Base(0) = 0
    /\ \A i \in Nat : Base(i) \in Nat /\ Base(i + 1) = Base(i) + SLOTS /\ i <= Base(i)
BY SlotsAssumption DEF Base

(* The k-th unit along the chain from cluster a is v.                      *)
Holds(a, k, v) ==
    /\ a \in Cluster
    /\ \E c \in Cluster, u \in Slot : \E i \in Places(a, c) :
          k = Base(i) + u /\ mem[c][u] = v

FileReads(p) ==
    /\ Len(expect[p]) = Unit(p).size
    /\ \A k \in 1 .. Unit(p).size : Holds(Unit(p).first, k, expect[p][k])

(* Every file except one whose chain is about to be replaced.              *)
Contents == \A p \in Files : ~(op.loose /\ p = op.pos) => FileReads(p)

LEMMA HoldsStay ==
    ASSUME NEW a,
           \A b \in Reach(a) : mem'[b] = mem[b] /\ (fat[b] \in Cluster => fat'[b] = fat[b]),
           NEW k, NEW v, Holds(a, k, v)
    PROVE  Holds(a, k, v)'
<1>1. a \in Cluster
  BY DEF Holds
<1>2. PICK c \in Cluster, u \in Slot : \E i \in Places(a, c) : k = Base(i) + u /\ mem[c][u] = v
  BY DEF Holds
<1>3. PICK i \in Places(a, c) : k = Base(i) + u /\ mem[c][u] = v
  BY <1>2
<1>4. c \in Reach(a)
  BY <1>1, <1>3, PlacesReached
<1>5. i \in Places(a, c)'
  BY <1>1, <1>3, PlacesStay
<1>6. mem'[c][u] = v
  BY <1>3, <1>4
<1>. QED
  BY <1>1, <1>3, <1>5, <1>6 DEF Holds, Base

-----------------------------------------------------------------------------
(* What fat32_cat shows is what the chain holds.                           *)

IsWalk(h, n, a) ==
    h = [k \in 0 .. n |-> IF k = 0 THEN a
                          ELSE IF h[k - 1] \in Cluster THEN fat[h[k - 1]] ELSE EOC]

LEMMA ThereIsWalk ==
    ASSUME NEW a, NEW n \in Nat
    PROVE  \E h : IsWalk(h, n, a)
<1>. DEFINE T == {m \in Nat : ~\E h : IsWalk(h, m, a)}
<1>. SUFFICES ASSUME T # {} PROVE FALSE
  OBVIOUS
<1>1. PICK k \in T : \A m \in T : ~(<<m, k>> \in OpToRel(<, Nat))
  <2>1. T \subseteq Nat
    OBVIOUS
  <2>. QED
    BY <2>1, LessIsWellFounded, WFMin
<1>2. CASE k = 0
  <2>1. IsWalk([j \in 0 .. 0 |-> a], 0, a)
    BY DEF IsWalk
  <2>. QED
    BY <1>2, <2>1
<1>3. CASE k # 0
  <2>1. k - 1 \in Nat /\ k \in Nat
    BY <1>3
  <2>2. <<k - 1, k>> \in OpToRel(<, Nat)
    BY <2>1 DEF OpToRel
  <2>3. PICK h : IsWalk(h, k - 1, a)
    BY <1>1, <2>1, <2>2
  <2>. DEFINE g == [j \in 0 .. k |->
                      IF j = k THEN IF h[k - 1] \in Cluster THEN fat[h[k - 1]] ELSE EOC
                      ELSE h[j]]
  <2>4. ASSUME NEW j \in 0 .. k
        PROVE  g[j] = IF j = 0 THEN a
                      ELSE IF g[j - 1] \in Cluster THEN fat[g[j - 1]] ELSE EOC
    <3>1. CASE j = k
      <4>1. g[j - 1] = h[k - 1] /\ j # 0
        BY <1>3, <2>1, <3>1
      <4>. QED
        BY <3>1, <4>1
    <3>2. CASE j # k
      <4>1. j \in 0 .. k - 1
        BY <2>1, <3>2
      <4>2. h[j] = IF j = 0 THEN a
                   ELSE IF h[j - 1] \in Cluster THEN fat[h[j - 1]] ELSE EOC
        BY <2>3, <4>1 DEF IsWalk
      <4>3. g[j] = h[j] /\ (j # 0 => g[j - 1] = h[j - 1])
        BY <2>1, <3>2, <4>1
      <4>. QED
        BY <4>2, <4>3
    <3>. QED
      BY <3>1, <3>2
  <2>5. IsWalk(g, k, a)
    BY <2>4 DEF IsWalk
  <2>. QED
    BY <2>5
<1>. QED
  BY <1>2, <1>3

(* The walk meets every cluster at its position.                           *)
LEMMA WalkMeets ==
    ASSUME NEW a \in Cluster, NEW n \in Nat, NEW h, IsWalk(h, n, a),
           NEW c \in Cluster, NEW i \in Places(a, c), i <= n
    PROVE  h[i] = c
<1>. DEFINE S == [b \in Cluster |-> {j \in Nat : j <= n => h[j] = b}]
<1>1. S \in [Cluster -> SUBSET Nat]
  OBVIOUS
<1>2. 0 \in S[a]
  <2>1. 0 \in 0 .. n
    OBVIOUS
  <2>2. h[0] = a
    BY <2>1 DEF IsWalk
  <2>. QED
    BY <2>2
<1>3. ASSUME NEW b \in Cluster, fat[b] \in Cluster, NEW j \in S[b]
      PROVE  j + 1 \in S[fat[b]]
  <2>1. j \in Nat
    BY <1>1
  <2>2. ASSUME j + 1 <= n
        PROVE  h[j + 1] = fat[b]
    <3>1. PICK m \in 0 .. n : m = j + 1 /\ m # 0 /\ m - 1 = j /\ j <= n
      BY <2>1, <2>2
    <3>2. h[m] = IF h[m - 1] \in Cluster THEN fat[h[m - 1]] ELSE EOC
      BY <3>1 DEF IsWalk
    <3>3. h[j] = b
      BY <3>1
    <3>. QED
      BY <3>1, <3>2, <3>3
  <2>. QED
    BY <1>3, <2>1, <2>2
<1>4. i \in S[c]
  <2>. HIDE DEF S
  <2>. QED
    BY <1>1, <1>2, <1>3, PlacesAreLeast
<1>. QED
  BY <1>4

LEMMA Division ==
    ASSUME NEW i \in Nat, NEW u \in Slot, NEW k \in Nat, k = Base(i) + u
    PROVE  (k - 1) \div SLOTS = i /\ ((k - 1) % SLOTS) + 1 = u
<1>1. PICK s \in Nat : s = SLOTS /\ s > 0
  BY SlotsAssumption
<1>2. PICK r \in 0 .. s - 1 : r = u - 1
  BY <1>1 DEF Slot
<1>3. (i * s + r) \div s = i /\ (i * s + r) % s = r
  BY <1>1, <1>2
<1>4. k - 1 = i * s + r
  <2>1. PICK b \in Nat : b = i * s /\ k = b + u /\ u \in Nat
    BY <1>1, Bases DEF Base, Slot
  <2>. QED
    BY <1>2, <2>1
<1>5. r + 1 = u
  BY <1>2 DEF Slot
<1>. QED
  BY <1>1, <1>3, <1>4, <1>5

LEMMA ContentIs ==
    ASSUME NEW p \in Pos, Unit(p).size \in Nat, expect[p] \in Seq(Values), FileReads(p)
    PROVE  Content(Unit(p)) = expect[p]
<1>1. PICK e : e = Unit(p)
  OBVIOUS
<1>2. PICK n \in Nat : n = e.size
  BY <1>1
<1>3. \E h : IsWalk(h, n, e.first)
  BY ThereIsWalk
<1>4. PICK h : h = CHOOSE w : IsWalk(w, n, e.first)
  OBVIOUS
<1>5. IsWalk(h, n, e.first)
  BY <1>3, <1>4
<1>6. Content(e) = [k \in 1 .. n |->
            LET c == h[(k - 1) \div SLOTS]
            IN  IF c \in Cluster THEN mem[c][((k - 1) % SLOTS) + 1] ELSE Zero]
  BY <1>2, <1>4 DEF Content, IsWalk
<1>7. ASSUME NEW k \in 1 .. n
      PROVE  Content(e)[k] = expect[p][k]
  <2>1. Holds(e.first, k, expect[p][k])
    BY <1>1, <1>2 DEF FileReads
  <2>2. PICK c \in Cluster, u \in Slot :
           \E i \in Places(e.first, c) : k = Base(i) + u /\ mem[c][u] = expect[p][k]
    BY <2>1 DEF Holds
  <2>3. PICK i \in Places(e.first, c) : k = Base(i) + u /\ mem[c][u] = expect[p][k]
    BY <2>2
  <2>4. i \in Nat /\ k \in Nat
    BY DEF Places
  <2>5. i <= n
    <3>1. Base(i) \in Nat /\ i <= Base(i) /\ u \in Nat
      BY <2>4, Bases DEF Slot
    <3>. QED
      BY <2>3, <2>4, <3>1
  <2>6. h[i] = c
    BY <1>5, <2>1, <2>5, WalkMeets DEF Holds
  <2>7. (k - 1) \div SLOTS = i /\ ((k - 1) % SLOTS) + 1 = u
    BY <2>3, <2>4, Division
  <2>. QED
    BY <1>6, <2>3, <2>6, <2>7
<1>8. expect[p] \in [1 .. n -> Values]
  BY <1>1, <1>2 DEF FileReads
<1>9. PICK x : x = Content(e)
  OBVIOUS
<1>10. x = [k \in 1 .. n |-> x[k]] /\ expect[p] = [k \in 1 .. n |-> expect[p][k]]
  BY <1>6, <1>8, <1>9
<1>. QED
  BY <1>1, <1>7, <1>9, <1>10

-----------------------------------------------------------------------------
(* Files and the operation under way.                                      *)

(* How much of the file was there before.                                  *)
From == op.size - Len(op.text)

NothingYet ==
    /\ Placing => op.done = 0 /\ op.off = 0
    /\ op.pc = "free" /\ op.kind = "write" =>
          op.size = Len(op.text) /\ op.done = 0 /\ op.off = 0

GrowsAtEnd ==
    /\ Allocating({"first"}) => op.first = 0
    /\ Allocating({"chain"}) \/ (op.pc = "grow" /\ op.count < op.target) =>
          fat[op.last] \notin Cluster

(* What an append adds to; nothing, for a write that has freed nothing.    *)
OldPart ==
    Filling /\ ~op.loose /\ op.pos \in Files =>
       Unit(op.pos).size = From /\ (Unit(op.pos).size > 0 => Unit(op.pos).first = op.first)

(* The next unit to write is op.off units into the cluster at hand.        *)
InPlace == \E i \in Places(op.first, op.cl) : Base(i) + op.off = From + op.done

Written ==
    Filling => /\ Len(op.text) <= op.size
               /\ op.kind = "write" => From = 0
               /\ op.kind = "append" => ~op.loose
               /\ op.pc \notin {"data", "commit"} => op.done = 0 /\ op.off = From
               /\ op.pc = "data" /\ op.cl \in Cluster => op.first \in Cluster /\ InPlace
               /\ op.pc = "commit" => op.done = Len(op.text)
               /\ \A k \in 1 .. op.done : Holds(op.first, From + k, op.text[k])

(* The entry to go is still in a directory, or in a cluster nobody uses.   *)
PlaceIsSafe ==
    op.pc \in {"free", "empty", "unlink"} => op.pos[1] \in dirs \/ fat[op.pos[1]] = FREE

Kept == Contents /\ NothingYet /\ GrowsAtEnd /\ OldPart /\ Written /\ PlaceIsSafe

Keeps == faults \cap {"hurt", "blind"} = {} => Kept

(* Nothing happens to the chain from a.                                    *)
Untouched(a) ==
    \A b \in Reach(a) : mem'[b] = mem[b] /\ (fat[b] \in Cluster => fat'[b] = fat[b])

LEMMA FileStays ==
    ASSUME NEW p \in Pos, FileReads(p), expect'[p] = expect[p],
           mem'[p[1]][p[2]] = mem[p[1]][p[2]],
           Unit(p).first \in Cluster => Untouched(Unit(p).first)
    PROVE  FileReads(p)'
<1>1. PICK a : a = Unit(p).first
  OBVIOUS
<1>2. PICK n : n = Unit(p).size
  OBVIOUS
<1>3. Unit(p)' = Unit(p) /\ Unit(p)'.first = a /\ Unit(p)'.size = n
  BY <1>1, <1>2 DEF Unit
<1>4. PICK x : x = expect[p]
  OBVIOUS
<1>5. ASSUME NEW k \in 1 .. n
      PROVE  Holds(a, k, x[k])'
  <2>1. Holds(a, k, x[k])
    BY <1>1, <1>2, <1>4 DEF FileReads
  <2>2. a \in Cluster
    BY <2>1 DEF Holds
  <2>3. \A b \in Reach(a) : mem'[b] = mem[b] /\ (fat[b] \in Cluster => fat'[b] = fat[b])
    BY <1>1, <2>2 DEF Untouched
  <2>. QED
    BY <2>1, <2>3, HoldsStay
<1>6. Len(x) = n
  BY <1>2, <1>4 DEF FileReads
<1>7. ASSUME NEW k \in 1 .. n
      PROVE  Holds(Unit(p).first, k, expect[p][k])'
  BY <1>3, <1>4, <1>5, <1>7
<1>. QED
  BY <1>3, <1>4, <1>6, <1>7 DEF FileReads

LEMMA FileChain ==
    ASSUME TypeOK, Volume, NEW p \in Files, ~(op.loose /\ p = op.pos), Unit(p).first \in Cluster
    PROVE  /\ p \in Pointers /\ Unlinked(Unit(p).first) /\ Unit(p).first \notin dirs
           /\ \A b \in Reach(Unit(p).first) : b \in Cluster /\ b \notin dirs /\ fat[b] # FREE
<1>1. p \in Pointers /\ ~Unit(p).dir
  BY Clusters DEF Files, Pointers
<1>2. /\ Unlinked(Unit(p).first) /\ Unit(p).first \notin dirs /\ fat[Unit(p).first] # FREE
  BY <1>1 DEF Volume, PointersAreSound
<1>3. PICK a \in Cluster : a = Unit(p).first
  OBVIOUS
<1>. DEFINE S == {b \in Cluster : fat[b] # FREE}
<1>4. S \in SUBSET Cluster /\ a \in S /\ Closed(S)
  BY <1>2, <1>3 DEF Closed, Volume, LinksAreSound
<1>5. \A b \in Reach(a) : b \in S
  BY <1>4, ReachIsLeast
<1>. QED
  BY <1>1, <1>2, <1>3, <1>5, FileReach DEF Reach

(* A file reads as before when only directories and free clusters change.  *)
LEMMA FileUntouched ==
    ASSUME TypeOK, Volume, NEW p \in Files, ~(op.loose /\ p = op.pos), Unit(p).first \in Cluster,
           \A b \in Cluster : b \notin dirs /\ fat[b] # FREE =>
              mem'[b] = mem[b] /\ (fat[b] \in Cluster => fat'[b] = fat[b])
    PROVE  Untouched(Unit(p).first)
BY FileChain DEF Untouched

(* Nor when something happens to a cluster no chain leads to.              *)
LEMMA UnlinkedUntouched ==
    ASSUME NEW a \in Cluster, NEW c \in Cluster, a # c, Unlinked(c),
           \A b \in Cluster : b # c =>
              mem'[b] = mem[b] /\ (fat[b] \in Cluster => fat'[b] = fat[b])
    PROVE  Untouched(a)
<1>1. c \notin Reach(a)
  BY ReachFrom, ReachHolds DEF Unlinked
<1>. QED
  BY <1>1, ReachHolds DEF Untouched

(* The disk does not change.                                               *)
LEMMA StillContents ==
    ASSUME TypeOK, Contents, Still, expect' = expect,
           op.loose => op'.loose /\ op'.pos = op.pos
    PROVE  Contents'
<1>. fat' = fat /\ mem' = mem /\ dirs' = dirs
  BY DEF Still
<1>1. Files' = Files
  BY DEF Files, IsEntryAt, Unit
<1>2. ASSUME NEW p \in Files, FileReads(p)
      PROVE  FileReads(p)'
  BY <1>2, FileStays DEF Untouched, Files
<1>. QED
  BY <1>1, <1>2 DEF Contents

(* One entry changes, or none.                                             *)
LEMMA ContentsElse ==
    ASSUME TypeOK, Volume, Contents, NEW q, NEW p \in Pos, p # q,
           p[1] \in dirs, mem'[p[1]][p[2]] = mem[p[1]][p[2]],
           p \in Files', ~(op'.loose /\ p = op'.pos),
           op.loose => p # op.pos \/ (op'.loose /\ op'.pos = op.pos),
           expect'[p] = expect[p],
           \A b \in Cluster : b \notin dirs /\ fat[b] # FREE =>
              mem'[b] = mem[b] /\ (fat[b] \in Cluster => fat'[b] = fat[b])
    PROVE  FileReads(p)'
<1>1. p \in Files
  BY DEF Files, IsEntryAt, Unit
<1>2. ~(op.loose /\ p = op.pos)
  OBVIOUS
<1>3. FileReads(p)
  BY <1>1, <1>2 DEF Contents
<1>. QED
  BY <1>1, <1>2, <1>3, FileUntouched, FileStays

-----------------------------------------------------------------------------
(* What the writing actions leave of the other files.                      *)

LEMMA MarkContents ==
    ASSUME TypeOK, Volume, Contents, Mark
    PROVE  Contents'
<1>. op \in Op
  BY DEF TypeOK
<1>1. PICK c \in Cluster : /\ fat[c] = FREE /\ fat' = [fat EXCEPT ![c] = EOC]
                           /\ op' = [op EXCEPT !.new = c, !.pc = "zero"]
  BY DEF Mark, Allocable
<1>2. mem' = mem /\ dirs' = dirs /\ expect' = expect /\ op'.loose = op.loose /\ op'.pos = op.pos
  BY <1>1 DEF Mark, Op
<1>3. \A b \in Cluster : fat[b] \in Cluster => fat'[b] = fat[b]
  BY <1>1, Clusters DEF TypeOK
<1>4. ASSUME NEW p \in Files', ~(op'.loose /\ p = op'.pos)
      PROVE  FileReads(p)'
  <2>1. p \in Files /\ p \in Pos
    BY <1>2, <1>4 DEF Files, IsEntryAt, Unit
  <2>2. ~(op.loose /\ p = op.pos) /\ FileReads(p)
    BY <1>2, <1>4, <2>1 DEF Contents
  <2>3. Unit(p).first \in Cluster => Untouched(Unit(p).first)
    BY <1>2, <1>3, ReachHolds DEF Untouched
  <2>. QED
    BY <1>2, <2>1, <2>2, <2>3, FileStays
<1>. QED
  BY <1>4 DEF Contents

LEMMA ZeroClusterContents ==
    ASSUME TypeOK, Control, Volume, Running, Contents, ZeroCluster
    PROVE  Contents'
<1>. op \in Op
  BY DEF TypeOK
<1>1. PICK n \in Cluster : n = op.new
  BY DEF ZeroCluster, Control
<1>2. /\ op.pc = "zero" /\ fat' = fat /\ dirs' = dirs /\ expect' = expect
      /\ mem' = [mem EXCEPT ![n] = [u \in Slot |-> Zero]]
  BY <1>1 DEF ZeroCluster
<1>3. n \notin dirs /\ Unlinked(n) /\ Unpointed(n)
  BY <1>1, <1>2 DEF Running, NewCluster, Fresh
<1>4. \A b \in Cluster : b # n => mem'[b] = mem[b]
  BY <1>2 DEF TypeOK
<1>5. op'.pos = op.pos /\ op'.loose = op.loose
  BY <1>2 DEF ZeroCluster, Op
<1>6. ASSUME NEW p \in Files', ~(op'.loose /\ p = op'.pos)
      PROVE  FileReads(p)'
  <2>1. p \in Pos /\ p[1] \in dirs /\ p[1] \in Cluster
    BY <1>2, <1>6, TypeFacts DEF Files
  <2>2. mem'[p[1]][p[2]] = mem[p[1]][p[2]]
    BY <1>3, <1>4, <2>1
  <2>3. p \in Files
    BY <1>6, <2>1, <2>2 DEF Files, IsEntryAt, Unit
  <2>4. ~(op.loose /\ p = op.pos) /\ FileReads(p)
    BY <1>5, <1>6, <2>3 DEF Contents
  <2>5. ASSUME Unit(p).first \in Cluster
        PROVE  Untouched(Unit(p).first)
    <3>1. PICK a \in Cluster : a = Unit(p).first
      BY <2>5
    <3>2. a # n
      BY <1>3, <2>3, <2>4, <3>1, FileChain DEF Unpointed
    <3>3. Untouched(a)
      BY <1>2, <1>3, <1>4, <3>2, UnlinkedUntouched
    <3>. QED
      BY <3>1, <3>3
  <2>. QED
    BY <1>2, <2>1, <2>2, <2>4, <2>5, FileStays
<1>. QED
  BY <1>6 DEF Contents

LEMMA LinkContents ==
    ASSUME TypeOK, Control, Volume, Running, GrowsAtEnd, Contents, Link
    PROVE  Contents'
<1>. op \in Op
  BY DEF TypeOK
<1>1. PICK n \in Cluster, l \in Cluster : n = op.new /\ l = op.last
  BY LinkFacts
<1>2. /\ mem' = mem /\ EmptyCluster(n)
      /\ \A c \in Cluster : c # l => fat'[c] = fat[c]
      /\ op'.pos = op.pos /\ op'.loose = op.loose
      /\ l \in dirs <=> op.goal = "extend"
  BY <1>1, LinkFacts
<1>3. op.pc = "link" /\ op.goal \in {"extend", "chain"} /\ expect' = expect
  BY DEF Link, Control
<1>4. l \notin dirs => fat[l] \notin Cluster
  BY <1>1, <1>2, <1>3 DEF GrowsAtEnd, Allocating
<1>5. \A p \in Files' : p \in Files /\ p \in Pos
  <2>1. \A c \in dirs' : c \in dirs \/ c = n
    BY <1>1 DEF Link
  <2>2. Zero \notin Entry
    BY UnitsAssumption DEF Bytes
  <2>3. ASSUME NEW p \in Files'
        PROVE  p \in Files /\ p \in Pos
    <3>1. p \in Pos /\ p[1] \in dirs' /\ p[2] \in Slot /\ Unit(p)' = Unit(p) /\ Unit(p) \in Entry
      BY <1>2, <2>3 DEF Files, IsEntryAt, Unit, Pos
    <3>2. p[1] # n
      BY <1>2, <2>2, <3>1 DEF EmptyCluster, Unit
    <3>. QED
      BY <1>2, <2>1, <2>3, <3>1, <3>2 DEF Files, IsEntryAt
  <2>. QED
    BY <2>3
<1>6. ASSUME NEW p \in Files', ~(op'.loose /\ p = op'.pos)
      PROVE  FileReads(p)'
  <2>1. p \in Files /\ p \in Pos /\ ~(op.loose /\ p = op.pos) /\ FileReads(p)
    BY <1>2, <1>5, <1>6 DEF Contents
  <2>2. ASSUME Unit(p).first \in Cluster
        PROVE  Untouched(Unit(p).first)
    BY <1>2, <1>4, <2>1, <2>2, FileChain DEF Untouched
  <2>. QED
    BY <1>2, <1>3, <2>1, <2>2, FileStays
<1>. QED
  BY <1>6 DEF Contents

LEMMA WriteEntryContents ==
    ASSUME TypeOK, Control, Volume, Running, Named, Contents, WriteEntry
    PROVE  Contents'
<1>. op \in Op
  BY DEF TypeOK
<1>1. PICK e \in Entry : /\ e = [name |-> op.name, dir |-> op.kind = "mkdir",
                                  first |-> op.first, size |-> 0]
  BY NewEntry
<1>2. PICK p \in Pos : p = op.pos
  BY DEF Op
<1>3. /\ op.pc = "entry" /\ mem' = Set(p, e) /\ fat' = fat /\ e.size = 0
      /\ expect' = [expect EXCEPT ![p] = <<>>]
      /\ dirs' = IF op.kind = "mkdir" THEN dirs \cup {op.first} ELSE dirs
      /\ op'.loose = op.loose /\ op'.pos = op.pos
  BY <1>1, <1>2 DEF WriteEntry, Op
<1>4. p[1] \in dirs /\ p[1] \in Cluster /\ ~op.loose
  BY <1>2, <1>3, PlaceFacts, TypeFacts
<1>5. /\ mem'[p[1]][p[2]] = e
      /\ \A q \in Pos : q # p => mem'[q[1]][q[2]] = mem[q[1]][q[2]]
      /\ \A b \in Cluster : b # p[1] => mem'[b] = mem[b]
  BY <1>3, SetFacts DEF Set, TypeOK
<1>6. expect'[p] = <<>> /\ \A q \in Pos : q # p => expect'[q] = expect[q]
  BY <1>3 DEF TypeOK
<1>7. \A c \in dirs' : c \in dirs \/ (c \in Cluster /\ EmptyCluster(c))
  <2>1. op.kind = "mkdir" => op.first \in Cluster /\ EmptyCluster(op.first)
    BY <1>3, Clusters DEF Control, Running, NewDirectory, Placing
  <2>. QED
    BY <1>3, <2>1
<1>8. ASSUME NEW q \in Files', ~(op'.loose /\ q = op'.pos)
      PROVE  FileReads(q)'
  <2>1. q \in Pos /\ q[1] \in dirs' /\ q[2] \in Slot /\ mem'[q[1]][q[2]] \in Entry
    BY <1>8 DEF Files, IsEntryAt, Unit, Pos
  <2>2. CASE q = p
    <3>1. Unit(q)'.size = 0 /\ Len(expect[q])' = 0
      BY <1>3, <1>5, <1>6, <2>2, EmptySeq DEF Unit
    <3>. QED
      BY <3>1 DEF FileReads
  <2>3. CASE q # p
    <3>1. q[1] \in dirs
      BY <1>5, <1>7, <2>1, <2>3, UnitsAssumption DEF EmptyCluster, Bytes
    <3>. QED
      BY <1>3, <1>4, <1>5, <1>6, <1>8, <2>1, <2>3, <3>1, ContentsElse
  <2>. QED
    BY <2>2, <2>3
<1>. QED
  BY <1>8 DEF Contents

(* An entry that no lookup finds any more.                                 *)
LEMMA EntryGoneContents ==
    ASSUME TypeOK, Volume, Contents, NEW p \in Pos, p = op.pos, NEW b \in Bytes, mem' = Set(p, b),
           fat' = fat, dirs' = dirs, expect' = expect, p[1] \in dirs \/ fat[p[1]] = FREE
    PROVE  Contents'
<1>1. /\ mem'[p[1]][p[2]] = b
      /\ \A q \in Pos : q # p => mem'[q[1]][q[2]] = mem[q[1]][q[2]]
      /\ \A c \in Cluster : c # p[1] => mem'[c] = mem[c]
  BY SetFacts DEF Set, TypeOK
<1>2. ASSUME NEW q \in Files', ~(op'.loose /\ q = op'.pos)
      PROVE  FileReads(q)'
  <2>1. q \in Pos /\ q[1] \in dirs /\ mem'[q[1]][q[2]] \in Entry
    BY <1>2 DEF Files, IsEntryAt, Unit
  <2>2. q # p
    BY <1>1, <2>1, UnitsAssumption
  <2>. QED
    BY <1>1, <1>2, <2>1, <2>2, ContentsElse
<1>. QED
  BY <1>2 DEF Contents

LEMMA WriteEntryFailsContents ==
    ASSUME TypeOK, Control, Volume, Running, Named, Contents, WriteEntryFails
    PROVE  Contents'
<1>1. PICK p \in Pos : p = op.pos
  BY DEF TypeOK, Op
<1>2. op.pc = "entry" /\ mem' = Set(p, Orphan) /\ fat' = fat /\ dirs' = dirs /\ expect' = expect
  BY <1>1 DEF WriteEntryFails
<1>3. p[1] \in dirs /\ Orphan \in Bytes
  BY <1>1, <1>2, PlaceFacts DEF Bytes
<1>. QED
  BY <1>1, <1>2, <1>3, EntryGoneContents

LEMMA UnlinkContents ==
    ASSUME TypeOK, Volume, Contents, PlaceIsSafe, Unlink
    PROVE  Contents'
<1>1. PICK p \in Pos : p = op.pos
  BY DEF TypeOK, Op
<1>2. op.pc = "unlink" /\ mem' = Set(p, Deleted) /\ fat' = fat /\ dirs' = dirs /\ expect' = expect
  BY <1>1 DEF Unlink
<1>3. (p[1] \in dirs \/ fat[p[1]] = FREE) /\ Deleted \in Bytes
  BY <1>1, <1>2 DEF PlaceIsSafe, Bytes
<1>. QED
  BY <1>1, <1>2, <1>3, EntryGoneContents

LEMMA FreeClusterContents ==
    ASSUME TypeOK, Control, Volume, Running, Contents, FreeCluster
    PROVE  Contents'
<1>. op \in Op
  BY DEF TypeOK
<1>1. PICK c \in Cluster : c = op.cl
  BY DEF FreeCluster, Control
<1>2. /\ op.pc = "free" /\ mem' = mem /\ dirs' = dirs \ {c} /\ expect' = expect
      /\ fat' = [fat EXCEPT ![c] = FREE]
  BY <1>1 DEF FreeCluster
<1>3. op'.pos = op.pos /\ op'.loose
  BY DEF FreeCluster, Op
<1>4. Unlinked(c) /\ UnpointedElse(c)
  BY <1>1, <1>2 DEF Running, OldChain, CutOff
<1>5. \A b \in Cluster : b # c => fat'[b] = fat[b]
  BY <1>2 DEF TypeOK
<1>6. ASSUME NEW p \in Files', ~(op'.loose /\ p = op'.pos)
      PROVE  FileReads(p)'
  <2>1. p \in Files /\ p \in Pos
    BY <1>2, <1>6 DEF Files, IsEntryAt, Unit
  <2>2. p # op.pos /\ FileReads(p)
    BY <1>3, <1>6, <2>1 DEF Contents
  <2>3. ASSUME Unit(p).first \in Cluster
        PROVE  Untouched(Unit(p).first)
    <3>1. PICK a \in Cluster : a = Unit(p).first
      BY <2>3
    <3>2. a # c
      BY <1>4, <2>1, <2>2, <3>1, FileChain DEF UnpointedElse
    <3>3. Untouched(a)
      BY <1>2, <1>4, <1>5, <3>2, UnlinkedUntouched
    <3>. QED
      BY <3>1, <3>3
  <2>. QED
    BY <1>2, <2>1, <2>2, <2>3, FileStays
<1>. QED
  BY <1>6 DEF Contents

-----------------------------------------------------------------------------
(* The data.                                                               *)

(* What comes before the units now written stays.                          *)
LEMMA EarlierStays ==
    ASSUME TypeOK, NEW a \in Cluster, Unlinked(a), LinksAreApart, fat' = fat,
           NEW c \in Cluster, NEW i \in Places(a, c), NEW off \in Nat,
           \A b \in Cluster : b # c => mem'[b] = mem[b],
           \A u \in Slot : u <= off => mem'[c][u] = mem[c][u],
           NEW k \in Nat, k <= Base(i) + off, NEW v, Holds(a, k, v)
    PROVE  Holds(a, k, v)'
<1>1. PICK d \in Cluster, u \in Slot : \E j \in Places(a, d) : k = Base(j) + u /\ mem[d][u] = v
  BY DEF Holds
<1>2. PICK j \in Places(a, d) : k = Base(j) + u /\ mem[d][u] = v
  BY <1>1
<1>3. j \in Places(a, d)'
  BY DEF Places, Climbs
<1>4. mem'[d][u] = v
  <2>1. CASE d # c
    BY <1>2, <2>1
  <2>2. CASE d = c
    <3>1. j = i
      BY <1>2, <2>2, PlacesAreOne
    <3>2. i \in Nat
      BY DEF Places
    <3>3. Base(i) \in Nat /\ u \in Nat
      BY <3>2, Bases DEF Slot
    <3>4. u <= off
      BY <1>2, <3>1, <3>3
    <3>. QED
      BY <1>2, <2>2, <3>4
  <2>. QED
    BY <2>1, <2>2
<1>. QED
  BY <1>2, <1>3, <1>4 DEF Holds, Base

LEMMA DataFacts ==
    ASSUME TypeOK, Control, Volume, Running, Named, Kept, WriteData
    PROVE  \E c \in Cluster, a \in Cluster : \E i \in Places(a, c) :
              /\ c = op.cl /\ a = op.first /\ c \notin dirs /\ CutOff(a) /\ a \notin dirs
              /\ i \in Nat /\ Base(i) \in Nat /\ Base(i) + op.off = From + op.done
              /\ From \in Nat
              /\ fat' = fat /\ dirs' = dirs /\ expect' = expect
              /\ \A b \in Cluster : b # c => mem'[b] = mem[b]
              /\ \A u \in Slot : u <= op.off => mem'[c][u] = mem[c][u]
              /\ \A n \in 1 .. Chunk :
                    op.off + n \in Slot /\ mem'[c][op.off + n] = op.text[op.done + n]
<1>. op \in Op
  BY DEF TypeOK
<1>1. PICK c \in Cluster : c = op.cl
  BY DEF WriteData
<1>2. op.pc = "data" /\ Filling /\ op.off < SLOTS
  BY DEF WriteData, Filling
<1>3. c \notin dirs /\ op.first \in Cluster /\ InPlace /\ Len(op.text) <= op.size
  BY <1>1, <1>2 DEF Named, EntryAtHand, Kept, Written
<1>4. PICK a \in Cluster : a = op.first
  BY <1>3
<1>5. CutOff(a) /\ a \notin dirs
  BY <1>2, <1>4, Clusters DEF Running, NewChain
<1>6. PICK i \in Places(a, c) : Base(i) + op.off = From + op.done
  BY <1>1, <1>3, <1>4 DEF InPlace
<1>7. i \in Nat /\ Base(i) \in Nat
  BY Bases DEF Places
<1>8. From \in Nat
  <2>1. Len(op.text) \in Nat /\ op.size \in Nat
    BY LenProperties DEF Op
  <2>. QED
    BY <1>3, <2>1 DEF From
<1>9. fat' = fat /\ dirs' = dirs /\ expect' = expect /\ mem' = [mem EXCEPT ![c] = Filled]
  BY <1>1 DEF WriteData, Filled
<1>10. mem'[c] = Filled /\ \A b \in Cluster : b # c => mem'[b] = mem[b]
  BY <1>9 DEF TypeOK
<1>11. op.off \in Nat /\ op.done \in Nat /\ Chunk \in Nat /\ Chunk <= SLOTS - op.off
  BY <1>2, ChunkFacts, SlotsAssumption, LenProperties DEF Op, Chunk, Control
<1>12. ASSUME NEW u \in Slot, u <= op.off
       PROVE  mem'[c][u] = mem[c][u]
  <2>1. u \notin op.off + 1 .. op.off + Chunk
    BY <1>11, <1>12 DEF Slot
  <2>. QED
    BY <1>1, <1>10, <2>1 DEF Filled
<1>13. ASSUME NEW n \in 1 .. Chunk
       PROVE  op.off + n \in Slot /\ mem'[c][op.off + n] = op.text[op.done + n]
  <2>1. PICK u \in Slot : u = op.off + n
    BY <1>11, SlotsAssumption DEF Slot
  <2>2. u \in op.off + 1 .. op.off + Chunk /\ op.done + u - op.off = op.done + n
    BY <1>11, <2>1
  <2>3. mem'[c][u] = op.text[op.done + u - op.off]
    BY <1>10, <2>2 DEF Filled
  <2>. QED
    BY <2>1, <2>2, <2>3
<1>. QED
  BY <1>1, <1>3, <1>4, <1>5, <1>6, <1>7, <1>8, <1>9, <1>10, <1>12, <1>13

LEMMA WriteDataContents ==
    ASSUME TypeOK, Control, Volume, Running, Named, Kept, WriteData
    PROVE  Contents'
<1>. op \in Op
  BY DEF TypeOK
<1>1. PICK c \in Cluster, a \in Cluster : \E i \in Places(a, c) :
              /\ c = op.cl /\ a = op.first /\ c \notin dirs /\ CutOff(a) /\ a \notin dirs
              /\ i \in Nat /\ Base(i) \in Nat /\ Base(i) + op.off = From + op.done
              /\ From \in Nat
              /\ fat' = fat /\ dirs' = dirs /\ expect' = expect
              /\ \A b \in Cluster : b # c => mem'[b] = mem[b]
              /\ \A u \in Slot : u <= op.off => mem'[c][u] = mem[c][u]
  BY DataFacts
<1>2. PICK i \in Places(a, c) :
              /\ c = op.cl /\ a = op.first /\ c \notin dirs /\ CutOff(a) /\ a \notin dirs
              /\ i \in Nat /\ Base(i) \in Nat /\ Base(i) + op.off = From + op.done
              /\ From \in Nat
              /\ fat' = fat /\ dirs' = dirs /\ expect' = expect
              /\ \A b \in Cluster : b # c => mem'[b] = mem[b]
              /\ \A u \in Slot : u <= op.off => mem'[c][u] = mem[c][u]
  BY <1>1
<1>3. op'.loose = op.loose /\ op'.pos = op.pos
  BY DEF WriteData, Op
<1>4. Unlinked(a) /\ LinksAreApart /\ op.off \in Nat /\ op.done \in Nat
  BY <1>2 DEF CutOff, Volume, LinksAreSound, LinksAreApart, Op
<1>5. c \in Reach(a)
  BY <1>2, PlacesReached
<1>6. ASSUME NEW p \in Files', ~(op'.loose /\ p = op'.pos)
      PROVE  FileReads(p)'
  <2>1. p \in Pos /\ p[1] \in dirs /\ p[1] \in Cluster
    BY <1>2, <1>6, TypeFacts DEF Files
  <2>2. mem'[p[1]][p[2]] = mem[p[1]][p[2]]
    BY <1>2, <2>1
  <2>3. p \in Files
    BY <1>6, <2>1, <2>2 DEF Files, IsEntryAt, Unit
  <2>4. ~(op.loose /\ p = op.pos) /\ FileReads(p)
    BY <1>3, <1>6, <2>3 DEF Kept, Contents
  <2>5. CASE p # op.pos
    <3>1. ASSUME Unit(p).first \in Cluster
          PROVE  Untouched(Unit(p).first)
      <4>1. PICK f \in Cluster : f = Unit(p).first
        BY <3>1
      <4>2. f # a /\ Unlinked(f)
        BY <1>2, <2>3, <2>4, <2>5, <4>1, FileChain DEF CutOff, UnpointedElse
      <4>3. c \notin Reach(f)
        BY <1>4, <1>5, <4>2, ReachesAreApart
      <4>4. Untouched(f)
        BY <1>2, <4>3, ReachHolds DEF Untouched
      <4>. QED
        BY <4>1, <4>4
    <3>. QED
      BY <1>2, <2>1, <2>2, <2>4, <3>1, FileStays
  <2>6. CASE p = op.pos
    <3>1. Unit(p).size = From /\ (Unit(p).size > 0 => Unit(p).first = a)
      BY <1>2, <2>3, <2>4, <2>6 DEF Kept, OldPart, Filling, WriteData
    <3>2. PICK n \in Nat : n = From /\ n = Unit(p).size
      BY <1>2, <3>1
    <3>3. PICK x : x = expect[p]
      OBVIOUS
    <3>4. Unit(p)' = Unit(p)
      BY <2>2 DEF Unit
    <3>5. ASSUME NEW k \in 1 .. n
          PROVE  Holds(Unit(p).first, k, expect[p][k])'
      <4>1. Unit(p).first = a
        BY <3>1, <3>2
      <4>2. Holds(a, k, x[k])
        BY <2>4, <3>2, <3>3, <4>1 DEF FileReads
      <4>3. k \in Nat /\ k <= Base(i) + op.off
        BY <1>2, <1>4, <3>2
      <4>4. Holds(a, k, x[k])'
        BY <1>2, <1>4, <4>2, <4>3, EarlierStays
      <4>. QED
        BY <1>2, <3>3, <3>4, <4>1, <4>4
    <3>. QED
      BY <1>2, <2>4, <3>2, <3>4, <3>5 DEF FileReads
  <2>. QED
    BY <2>5, <2>6
<1>. QED
  BY <1>6 DEF Contents

LEMMA CommitContents ==
    ASSUME TypeOK, Control, Volume, Running, Named, Kept, Commit
    PROVE  Contents'
<1>. op \in Op
  BY DEF TypeOK
<1>1. PICK p \in Pos : p = op.pos
  BY DEF Op
<1>2. PICK b \in Bytes \cup Entry : b = Settled(p)
  BY SettledType
<1>3. /\ op.pc = "commit" /\ fat' = fat /\ dirs' = dirs /\ mem' = Set(p, b) /\ Filling
      /\ expect' = [expect EXCEPT ![p] = IF op.kind = "append" THEN @ \o op.text ELSE op.text]
      /\ op.kind \in {"write", "append"}
  BY <1>1, <1>2 DEF Commit, Settled, Filling, Running, NewChain
<1>4. p[1] \in dirs /\ p[1] \in Cluster
  BY <1>1, <1>3, TypeFacts DEF Named, EntryAtHand
<1>5. /\ mem'[p[1]][p[2]] = b
      /\ \A q \in Pos : q # p => mem'[q[1]][q[2]] = mem[q[1]][q[2]]
      /\ \A c \in Cluster : c # p[1] => mem'[c] = mem[c]
  BY <1>3, SetFacts DEF Set, TypeOK
<1>6. \A q \in Pos : q # p => expect'[q] = expect[q]
  BY <1>3 DEF TypeOK
<1>7. ASSUME b \in Entry
      PROVE  FileReads(p)'
  <2>1. PICK n \in Nat, s \in Seq(Values) : n = op.size /\ s = op.text
    BY DEF Op
  <2>2. IsEntryAt(p) /\ b = [Unit(p) EXCEPT !.first = op.first, !.size = op.size]
    BY <1>2, <1>7, SettledType DEF Settled
  <2>3. b.first = op.first /\ b.size = n /\ p \in Files
    BY <1>1, <1>3, <1>4, <2>1, <2>2 DEF IsEntryAt, Entry, Running, NewChain, Files
  <2>4. PICK f \in Nat : f = From /\ f + Len(s) = n /\ Len(s) \in Nat
    <3>1. Len(s) \in Nat /\ Len(s) <= n
      BY <1>3, <2>1, LenProperties DEF Kept, Written
    <3>. QED
      BY <2>1, <3>1 DEF From
  <2>5. \A k \in 1 .. Len(s) : Holds(op.first, f + k, s[k])
    BY <1>3, <2>1, <2>4 DEF Kept, Written
  <2>6. PICK x \in Seq(Values) : x = expect[p]
    BY DEF TypeOK
  <2>7. PICK y \in Seq(Values) : y = IF op.kind = "append" THEN x \o s ELSE s
    BY ConcatProperties
  <2>8. expect'[p] = y
    BY <1>3, <2>1, <2>6, <2>7 DEF TypeOK
  <2>9. op.kind = "write" => f = 0
    BY <1>3, <2>4 DEF Kept, Written
  <2>10. op.kind = "append" => /\ FileReads(p)
                               /\ Unit(p).size = f /\ (f > 0 => Unit(p).first = op.first)
    BY <1>1, <1>3, <2>3, <2>4 DEF Kept, Written, OldPart, Contents
  <2>11. Len(y) = n /\ \A k \in 1 .. n : Holds(op.first, k, y[k])
    <3>1. CASE op.kind = "write"
      <4>1. y = s /\ Len(s) = n
        BY <2>4, <2>7, <2>9, <3>1
      <4>2. ASSUME NEW k \in 1 .. n
            PROVE  Holds(op.first, k, y[k])
        <5>1. f + k = k /\ k \in 1 .. Len(s)
          BY <2>4, <2>9, <3>1, <4>1
        <5>. QED
          BY <2>5, <4>1, <5>1
      <4>. QED
        BY <4>1, <4>2
    <3>2. CASE op.kind = "append"
      <4>1. y = x \o s /\ Len(x) = f
        BY <2>6, <2>7, <2>10, <3>2 DEF FileReads
      <4>2. Len(y) = n
        BY <2>4, <4>1, ConcatProperties
      <4>3. ASSUME NEW k \in 1 .. n
            PROVE  Holds(op.first, k, y[k])
        <5>1. CASE k <= f
          <6>1. y[k] = x[k]
            BY <4>1, <5>1, ConcatProperties
          <6>2. Holds(Unit(p).first, k, x[k])
            BY <2>6, <2>10, <3>2, <5>1 DEF FileReads
          <6>3. f > 0
            BY <5>1
          <6>. QED
            BY <2>10, <3>2, <6>1, <6>2, <6>3
        <5>2. CASE k > f
          <6>1. PICK m \in 1 .. Len(s) : k = f + m /\ m = k - f
            BY <2>4, <5>2
          <6>2. y[k] = s[m]
            BY <2>4, <4>1, <5>2, <6>1, ConcatProperties
          <6>. QED
            BY <2>5, <6>1, <6>2
        <5>. QED
          BY <5>1, <5>2
      <4>. QED
        BY <4>2, <4>3
    <3>. QED
      BY <1>3, <3>1, <3>2
  <2>12. PICK a : a = op.first
    OBVIOUS
  <2>13. ASSUME NEW k \in 1 .. n
         PROVE  Holds(a, k, y[k])'
    <3>1. Holds(a, k, y[k])
      BY <2>11, <2>12
    <3>2. a \in Cluster
      BY <3>1 DEF Holds
    <3>3. a \notin dirs
      BY <1>3, <2>12, <3>2, Clusters DEF Running, NewChain
    <3>4. \A d \in Reach(a) : mem'[d] = mem[d] /\ (fat[d] \in Cluster => fat'[d] = fat[d])
      BY <1>3, <1>4, <1>5, <3>2, <3>3, FileReach, ReachHolds
    <3>. QED
      BY <3>1, <3>4, HoldsStay
  <2>14. Unit(p)' = b
    BY <1>5 DEF Unit
  <2>15. ASSUME NEW k \in 1 .. n
         PROVE  Holds(Unit(p).first, k, expect[p][k])'
    BY <2>3, <2>8, <2>12, <2>13, <2>14
  <2>. QED
    BY <2>3, <2>8, <2>11, <2>14, <2>15 DEF FileReads
<1>8. ASSUME NEW q \in Files'
      PROVE  FileReads(q)'
  <2>1. q \in Pos /\ q[1] \in dirs /\ mem'[q[1]][q[2]] \in Entry
    BY <1>3, <1>8 DEF Files, IsEntryAt, Unit
  <2>2. CASE q = p
    BY <1>5, <1>7, <2>1, <2>2
  <2>3. CASE q # p
    <3>1. ~op'.loose
      BY DEF Commit, Op
    <3>. QED
      BY <1>1, <1>3, <1>4, <1>5, <1>6, <1>8, <2>1, <2>3, <3>1, ContentsElse DEF Kept
  <2>. QED
    BY <2>2, <2>3
<1>. QED
  BY <1>8 DEF Contents

-----------------------------------------------------------------------------
(* Files and the steps that find, place and remove.                        *)

LEMMA PlainKept ==
    ASSUME Contents', ~Filling', op'.pc \notin {"free", "empty", "unlink"},
           Placing' => op'.done = 0 /\ op'.off = 0
    PROVE  Kept'
BY DEF Kept, NothingYet, GrowsAtEnd, OldPart, Written, PlaceIsSafe, Filling, Allocating

LEMMA IdleKept ==
    ASSUME Contents', op' = Idle
    PROVE  Kept'
BY PlainKept DEF Idle, Filling, Placing, Allocating

(* What an operation begins with once it has its entry.                    *)
LEMMA TakenWith ==
    ASSUME op \in Op, NEW p, op' = WithEntry(p)
    PROVE  \/ op' = Idle
           \/ op' = [op EXCEPT !.leg = 3, !.cl = op.dir]
           \/ /\ op'.pos = p /\ op'.first = Start(Unit(p)) /\ op'.kind = op.kind
              /\ op'.loose = op.loose /\ op'.text = op.text /\ op'.done = op.done
              /\ \/ op'.pc \in {"empty", "unlink"}
                 \/ op'.pc = "free" /\ op.kind = "rm"
                 \/ /\ op'.pc = "free" /\ op.kind = "write"
                    /\ op'.size = Len(op.text) /\ op'.off = op.off
                 \/ /\ op'.pc = "ensure" /\ op.kind = "write"
                    /\ ~Unit(p).dir /\ Unit(p).first = 0
                    /\ op'.size = Len(op.text) /\ op'.off = op.off
                 \/ /\ op'.pc = "ensure" /\ op.kind \notin {"touch", "mkdir", "rm", "write"}
                    /\ ~(op.kind = "append" /\ Unit(p).dir)
                    /\ op'.size = Unit(p).size + Len(op.text) /\ op'.off = Unit(p).size
<1>1. PICK s : s = Start(Unit(p))
  OBVIOUS
<1>2. PICK h : h = [op EXCEPT !.pos = p, !.first = s, !.cl = s]
  OBVIOUS
<1>3. h = Here(p)
  BY <1>1, <1>2 DEF Here
<1>4. ASSUME NEW pc \in {"empty", "free", "unlink", "ensure"},
             \/ op' = [h EXCEPT !.pc = pc]
             \/ op' = [h EXCEPT !.size = Len(op.text), !.pc = pc]
             \/ op' = [h EXCEPT !.size = Unit(p).size + Len(op.text), !.off = Unit(p).size, !.pc = pc]
      PROVE  /\ op'.pos = p /\ op'.first = s /\ op'.pc = pc /\ op'.done = op.done
             /\ op'.kind = op.kind /\ op'.loose = op.loose /\ op'.text = op.text
  BY <1>2, <1>4 DEF Op
<1>5. ASSUME NEW pc \in {"free", "ensure"}, op' = [h EXCEPT !.size = Len(op.text), !.pc = pc]
      PROVE  op'.size = Len(op.text) /\ op'.off = op.off
  BY <1>2, <1>5 DEF Op
<1>6. op' = [h EXCEPT !.size = Unit(p).size + Len(op.text), !.off = Unit(p).size, !.pc = "ensure"]
         => op'.size = Unit(p).size + Len(op.text) /\ op'.off = Unit(p).size
  BY <1>2 DEF Op
<1>. HIDE <1>2
<1>7. \/ op' = Idle
      \/ op' = [op EXCEPT !.leg = 3, !.cl = op.dir]
      \/ op' = [h EXCEPT !.pc = "empty"]
      \/ op' = [h EXCEPT !.pc = "unlink"]
      \/ op' = [h EXCEPT !.pc = "free"] /\ op.kind = "rm"
      \/ op' = [h EXCEPT !.size = Len(op.text), !.pc = "free"] /\ op.kind = "write"
      \/ /\ op' = [h EXCEPT !.size = Len(op.text), !.pc = "ensure"] /\ op.kind = "write"
         /\ ~Unit(p).dir /\ Unit(p).first = 0
      \/ /\ op' = [h EXCEPT !.size = Unit(p).size + Len(op.text), !.off = Unit(p).size,
                            !.pc = "ensure"]
         /\ op.kind \notin {"touch", "mkdir", "rm", "write"}
         /\ ~(op.kind = "append" /\ Unit(p).dir)
  BY <1>3, WithCases
<1>. QED
  BY <1>1, <1>4, <1>5, <1>6, <1>7

LEMMA FindHitKept ==
    ASSUME TypeOK, Control, Volume, Running, Kept, FindHit
    PROVE  Kept'
<1>. op.pc = "find" /\ op \in Op /\ Still
  BY DEF FindHit, Move, Still, TypeOK
<1>0. /\ op.cl \in dirs /\ op.cl \in Cluster /\ Placing /\ op.done = 0 /\ op.off = 0
      /\ op.kind \in {"touch", "mkdir", "write", "append", "rm"}
      /\ Len(op.text) \in Nat
  BY LenProperties
     DEF Running, PlaceIsDirectory, Placing, Kept, NothingYet, Control, Op, OpKind, TypeOK
<1>1. ~op.loose /\ expect' = expect
  BY <1>0, PlacingIsTight DEF FindHit, Move
<1>2. PICK u \in Slot : FoundAt(u) /\ op' = WithEntry(<<op.cl, u>>)
  BY DEF FindHit, Move
<1>3. PICK p \in Pos : p[1] \in dirs /\ IsEntryAt(p) /\ op' = WithEntry(p)
  <2>1. <<op.cl, u>> \in Pos /\ Unit(<<op.cl, u>>) \in Entry
    BY <1>0, <1>2, TypeFacts DEF FoundAt, Matches
  <2>. QED
    BY <1>0, <1>2, <2>1 DEF IsEntryAt
<1>4. Contents'
  BY <1>1, StillContents DEF Kept
<1>5. CASE op' = Idle
  BY <1>4, <1>5, IdleKept
<1>6. CASE op' = [op EXCEPT !.leg = 3, !.cl = op.dir]
  <2>1. op'.pc = "find" /\ op'.done = 0 /\ op'.off = 0
    BY <1>0, <1>6 DEF Op
  <2>. QED
    BY <1>4, <2>1, PlainKept DEF Filling, Allocating
<1>7. ASSUME op'.pos = p, op'.first = Start(Unit(p)), op'.kind = op.kind,
             op'.loose = op.loose, op'.text = op.text, op'.done = op.done,
             \/ op'.pc \in {"empty", "unlink"}
             \/ op'.pc = "free" /\ op.kind = "rm"
             \/ op'.pc = "free" /\ op.kind = "write" /\ op'.size = Len(op.text) /\ op'.off = op.off
      PROVE  Kept'
  <2>1. ~Filling' /\ ~Placing'
    BY <1>7 DEF Filling, Placing, Allocating
  <2>2. op'.pos[1] \in dirs'
    BY <1>3, <1>7 DEF Still
  <2>. QED
    BY <1>0, <1>4, <1>7, <2>1, <2>2
       DEF Kept, NothingYet, GrowsAtEnd, OldPart, Written, PlaceIsSafe, Filling, Allocating
<1>8. ASSUME op'.pos = p, op'.first = Start(Unit(p)), op'.kind = op.kind,
             op'.loose = op.loose, op'.text = op.text, op'.done = op.done, op'.pc = "ensure",
             \/ /\ op.kind = "write" /\ ~Unit(p).dir /\ Unit(p).first = 0
                /\ op'.size = Len(op.text) /\ op'.off = op.off
             \/ /\ op.kind \notin {"touch", "mkdir", "rm", "write"}
                /\ ~(op.kind = "append" /\ Unit(p).dir)
                /\ op'.size = Unit(p).size + Len(op.text) /\ op'.off = Unit(p).size
      PROVE  Kept'
  <2>1. Unit(p) \in Entry /\ Unit(p).size \in Nat /\ ~Unit(p).dir
    BY <1>0, <1>3, <1>8, EntryFacts DEF IsEntryAt
  <2>2. Start(Unit(p)) = Unit(p).first /\ Unit(p)' = Unit(p)
    BY <2>1 DEF Start, Still, Unit
  <2>3. FileReads(p)
    BY <1>1, <1>3, <2>1 DEF Files, Kept, Contents
  <2>4. PICK l \in Nat, n \in Nat, s \in Nat :
           l = Len(op.text) /\ n = Unit(p).size /\ s = op'.size
    BY <1>0, <1>8, <2>1
  <2>5. op.kind = "write" => n = 0
    <3>1. ASSUME op.kind = "write", n # 0
          PROVE  FALSE
      <4>1. 1 \in 1 .. n
        BY <3>1
      <4>2. Holds(Unit(p).first, 1, expect[p][1])
        BY <2>3, <2>4, <4>1 DEF FileReads
      <4>. QED
        BY <1>8, <3>1, <4>2, Clusters DEF Holds
    <3>. QED
      BY <3>1
  <2>6. s = n + l /\ op'.off = n
    BY <1>0, <1>8, <2>4, <2>5
  <2>7. From' = n /\ Len(op'.text) = l
    BY <1>8, <2>4, <2>6 DEF From
  <2>8. OldPart'
    BY <1>8, <2>2, <2>4, <2>7 DEF OldPart
  <2>9. Written'
    <3>1. Len(op'.text) <= op'.size
      BY <2>4, <2>6, <2>7
    <3>2. \A k \in 1 .. op'.done : FALSE
      BY <1>0, <1>8
    <3>3. op'.kind = "write" => From' = 0
      BY <1>8, <2>5, <2>7
    <3>4. op'.off = From' /\ op'.done = 0 /\ ~op'.loose
      BY <1>0, <1>1, <1>8, <2>6, <2>7
    <3>. QED
      BY <1>8, <3>1, <3>2, <3>3, <3>4 DEF Written
  <2>. QED
    BY <1>4, <1>8, <2>8, <2>9 DEF Kept, NothingYet, GrowsAtEnd, PlaceIsSafe, Placing, Allocating
<1>. QED
  BY <1>3, <1>5, <1>6, <1>7, <1>8, TakenWith

LEMMA FindOnKept ==
    ASSUME TypeOK, Control, Running, Kept, FindNext \/ FindNothing \/ FindBlind
    PROVE  Kept'
<1>. op.pc = "find" /\ op \in Op /\ Still /\ expect' = expect
  BY DEF FindNext, FindNothing, FindBlind, Move, Still, TypeOK
<1>1. ~op.loose /\ op.done = 0 /\ op.off = 0
  BY PlacingIsTight DEF Placing, Kept, NothingYet
<1>2. Contents'
  BY <1>1, StillContents DEF Kept
<1>3. CASE op' = Idle
  BY <1>2, <1>3, IdleKept
<1>4. ASSUME op'.done = 0, op'.off = 0,
             \/ op'.pc \in {"find", "slot"}
             \/ op'.pc = "mark" /\ op'.goal = "mkdir"
      PROVE  Kept'
  BY <1>2, <1>4, PlainKept DEF Filling, Allocating
<1>5. CASE FindNext
  <2>1. op' = [op EXCEPT !.cl = fat[op.cl]]
    BY <1>5 DEF FindNext, Move
  <2>. QED
    BY <1>1, <1>4, <2>1 DEF Op
<1>6. CASE op' = WithoutEntry
  <2>1. CASE op' = [op EXCEPT !.pc = "mark", !.goal = "mkdir"]
    BY <1>1, <1>4, <2>1 DEF Op
  <2>2. CASE op' = [op EXCEPT !.leg = 2, !.cl = op.dir]
    BY <1>1, <1>4, <2>2 DEF Op
  <2>3. CASE op' = [op EXCEPT !.pc = "slot", !.cl = op.dir]
    BY <1>1, <1>4, <2>3 DEF Op
  <2>. QED
    BY <1>3, <1>6, <2>1, <2>2, <2>3, WithoutCases
<1>. QED
  BY <1>5, <1>6 DEF FindNothing, FindBlind, Move

LEMMA BeginKept ==
    ASSUME TypeOK, Running, Kept, NEW k, NEW d, NEW n, NEW t, Begin(k, d, n, t)
    PROVE  Kept'
<1>1. ~op.loose /\ Still /\ expect' = expect
  BY DEF Begin, Running, OldChain, Filling, Allocating, Still
<1>2. op'.pc = "find" /\ op'.done = 0 /\ op'.off = 0
  BY DEF Begin, Idle
<1>3. Contents'
  BY <1>1, StillContents DEF Kept
<1>. QED
  BY <1>2, <1>3, PlainKept DEF Filling, Allocating

LEMMA BumpKept ==
    ASSUME TypeOK, Running, Kept, Bump
    PROVE  Kept'
<1>. op.pc = "bump" /\ op \in Op /\ Still /\ expect' = expect
  BY DEF Bump, Still, TypeOK
<1>1. ~op.loose /\ (op.leg = 2 => op.done = 0 /\ op.off = 0)
  BY DEF Running, OldChain, Filling, Allocating, Kept, NothingYet, Placing
<1>2. Contents'
  BY <1>1, StillContents DEF Kept
<1>3. CASE op' = Idle
  BY <1>2, <1>3, IdleKept
<1>4. CASE op' # Idle
  <2>1. op'.pc = "find" /\ op'.done = 0 /\ op'.off = 0
    BY <1>1, <1>4 DEF Bump, Op
  <2>. QED
    BY <1>2, <2>1, PlainKept DEF Filling, Allocating
<1>. QED
  BY <1>3, <1>4

LEMMA StopKept ==
    ASSUME TypeOK, Kept, op' = Idle, Still, expect' = expect, Cut, "hurt" \notin faults'
    PROVE  Kept'
<1>1. ~op.loose
  BY DEF Cut
<1>2. Contents'
  BY <1>1, StillContents DEF Kept
<1>. QED
  BY <1>2, IdleKept

LEMMA RestKept ==
    ASSUME Kept, TypeOK, Still, UNCHANGED op, UNCHANGED expect
    PROVE  Kept'
<1>. fat' = fat /\ mem' = mem /\ dirs' = dirs /\ op' = op
  BY DEF Still
<1>1. Contents'
  BY StillContents DEF Kept
<1>2. NothingYet' /\ GrowsAtEnd' /\ PlaceIsSafe' /\ OldPart'
  BY DEF Kept, NothingYet, GrowsAtEnd, PlaceIsSafe, OldPart, From, Files, IsEntryAt, Unit,
         Placing, Filling, Allocating
<1>3. Written'
  BY DEF Kept, Written, InPlace, Holds, Places, Climbs, From, Base, Filling, Allocating
<1>. QED
  BY <1>1, <1>2, <1>3 DEF Kept

LEMMA SeekPlaceKept ==
    ASSUME TypeOK, Running, Kept, SlotHere \/ SlotNext \/ SlotNone \/ TailNext \/ TailEnd
    PROVE  Kept'
<1>. op \in Op
  BY DEF TypeOK
<1>1. /\ op.pc \in {"slot", "tail"} /\ Still /\ expect' = expect
      /\ op'.done = op.done /\ op'.off = op.off
      /\ \/ op'.pc \in {"slot", "tail", "entry"}
         \/ op'.pc = "mark" /\ op'.goal = "extend"
  <2>1. CASE SlotHere
    BY <2>1 DEF SlotHere, Move, Still, Op
  <2>2. CASE SlotNext \/ SlotNone \/ TailNext
    BY <2>2 DEF SlotNext, SlotNone, TailNext, Move, Still, Op
  <2>3. CASE TailEnd
    BY <2>3 DEF TailEnd, Still, Op
  <2>. QED
    BY <2>1, <2>2, <2>3
<1>2. ~op.loose /\ op.done = 0 /\ op.off = 0
  BY <1>1, PlacingIsTight DEF Placing, Kept, NothingYet
<1>3. Contents'
  BY <1>1, <1>2, StillContents DEF Kept
<1>. QED
  BY <1>1, <1>2, <1>3, PlainKept DEF Filling, Allocating

LEMMA WriteEntryKept ==
    ASSUME TypeOK, Control, Volume, Running, Named, Kept, WriteEntry \/ WriteEntryFails
    PROVE  Kept'
<1>1. Contents'
  BY WriteEntryContents, WriteEntryFailsContents DEF Kept
<1>2. CASE WriteEntry
  <2>1. op'.pc = "bump" /\ op'.done = op.done /\ op'.off = op.off /\ op.pc = "entry"
    BY <1>2 DEF WriteEntry, TypeOK, Op
  <2>2. op.done = 0 /\ op.off = 0
    BY <2>1 DEF Kept, NothingYet, Placing
  <2>. QED
    BY <1>1, <2>1, <2>2, PlainKept DEF Filling, Allocating
<1>3. CASE WriteEntryFails
  BY <1>1, <1>3, IdleKept DEF WriteEntryFails
<1>. QED
  BY <1>2, <1>3

LEMMA UnlinkKept ==
    ASSUME TypeOK, Volume, Running, Kept, Unlink
    PROVE  Kept'
<1>1. Contents'
  BY UnlinkContents DEF Kept
<1>2. op'.pc = "bump" /\ op'.leg # 2
  BY DEF Unlink, TypeOK, Op, Running, OldChain
<1>. QED
  BY <1>1, <1>2, PlainKept DEF Filling, Placing, Allocating

LEMMA EmptyKept ==
    ASSUME TypeOK, Running, Kept, EmptyNext \/ EmptyYes
    PROVE  Kept'
<1>. op \in Op
  BY DEF TypeOK
<1>1. /\ op.pc = "empty" /\ Still /\ expect' = expect /\ op.kind = "rm"
      /\ op'.pc \in {"empty", "free"} /\ op'.pos = op.pos /\ op'.loose = op.loose
      /\ op'.kind = op.kind
  <2>1. CASE EmptyNext
    BY <2>1 DEF EmptyNext, Move, Still, Op, Running, OldChain
  <2>2. CASE EmptyYes
    BY <2>2 DEF EmptyYes, Still, Op, Running, OldChain
  <2>. QED
    BY <2>1, <2>2
<1>2. Contents'
  BY <1>1, StillContents DEF Kept
<1>3. PlaceIsSafe'
  BY <1>1 DEF Kept, PlaceIsSafe, Still
<1>. QED
  BY <1>1, <1>2, <1>3
     DEF Kept, NothingYet, GrowsAtEnd, OldPart, Written, Placing, Filling, Allocating

LEMMA FreeClusterKept ==
    ASSUME TypeOK, Control, Volume, Running, Kept, FreeCluster
    PROVE  Kept'
<1>. op \in Op
  BY DEF TypeOK
<1>1. PICK c \in Cluster : c = op.cl
  BY DEF FreeCluster, Control
<1>2. op.pc = "free" /\ dirs' = dirs \ {c} /\ fat' = [fat EXCEPT ![c] = FREE]
  BY <1>1 DEF FreeCluster
<1>3. /\ op'.loose /\ op'.pos = op.pos /\ op'.kind = op.kind /\ op'.text = op.text
      /\ op'.size = op.size /\ op'.done = op.done /\ op'.off = op.off
      /\ op'.pc \in {"free", "unlink"} \/ (op'.pc = "ensure" /\ op.kind = "write")
  <2>1. PICK next : op' = IF next \in Cluster THEN [op EXCEPT !.cl = next, !.loose = TRUE]
                          ELSE IF op.kind = "write"
                          THEN [op EXCEPT !.first = 0, !.pc = "ensure", !.loose = TRUE]
                          ELSE [op EXCEPT !.pc = "unlink", !.loose = TRUE]
    BY DEF FreeCluster
  <2>. QED
    BY <1>2, <2>1 DEF Op
<1>4. Contents'
  BY FreeClusterContents DEF Kept
<1>5. op.kind = "write" => op.size = Len(op.text) /\ op.done = 0 /\ op.off = 0
  BY <1>2 DEF Kept, NothingYet
<1>6. PlaceIsSafe'
  <2>1. PICK d \in Cluster : d = op.pos[1]
    BY TypeFacts
  <2>2. d \in dirs \/ fat[d] = FREE
    BY <1>2, <2>1 DEF Kept, PlaceIsSafe
  <2>3. fat'[c] = FREE /\ (d # c => fat'[d] = fat[d])
    BY <1>2 DEF TypeOK
  <2>. QED
    BY <1>2, <1>3, <2>1, <2>2, <2>3 DEF PlaceIsSafe
<1>7. Written'
  <2>1. CASE op'.pc = "ensure" /\ op.kind = "write"
    <3>1. PICK l \in Nat : l = Len(op.text)
      BY LenProperties DEF Op
    <3>2. From' = 0 /\ Len(op'.text) <= op'.size
      BY <1>3, <1>5, <2>1, <3>1 DEF From
    <3>3. \A k \in 1 .. op'.done : FALSE
      BY <1>3, <1>5, <2>1
    <3>. QED
      BY <1>3, <1>5, <2>1, <3>2, <3>3 DEF Written
  <2>2. CASE op'.pc \in {"free", "unlink"}
    BY <2>2 DEF Written, Filling, Allocating
  <2>. QED
    BY <1>3, <2>1, <2>2
<1>8. NothingYet' /\ GrowsAtEnd' /\ OldPart'
  BY <1>3, <1>5 DEF NothingYet, GrowsAtEnd, OldPart, Placing, Allocating
<1>. QED
  BY <1>4, <1>6, <1>7, <1>8 DEF Kept

-----------------------------------------------------------------------------
(* Files and the filling of a chain.                                       *)

LEMMA SizesAreNat ==
    ASSUME TypeOK
    PROVE  /\ op.size \in Nat /\ op.off \in Nat /\ op.done \in Nat /\ Len(op.text) \in Nat
           /\ \A p \in Files : p \in Pos /\ Unit(p).size \in Nat
BY LenProperties, EntryFacts DEF TypeOK, Op, Files, IsEntryAt

LEMMA OldPartStays ==
    ASSUME TypeOK, Running, Named, Contents, OldPart, Filling, dirs' = dirs,
           \A c \in dirs : mem'[c] = mem[c],
           op'.pos = op.pos, op'.loose = op.loose, op'.size = op.size, op'.text = op.text,
           op'.first = op.first \/ op.first = 0 \/ op.size = 0
    PROVE  OldPart'
<1>. SUFFICES ASSUME ~op.loose, op.pos \in Files'
              PROVE  /\ Unit(op.pos)'.size = From
                     /\ Unit(op.pos)'.size > 0 => Unit(op.pos)'.first = op'.first
  BY DEF OldPart, From, Files
<1>1. PICK p \in Pos : p = op.pos
  BY DEF TypeOK, Op
<1>2. Unit(op.pos)' = Unit(p) /\ p[1] \in dirs
  BY <1>1, EntryStays
<1>3. Unit(p)' = Unit(p)
  BY <1>1, <1>2 DEF Unit
<1>4. p \in Files
  BY <1>1, <1>2, <1>3 DEF Files, IsEntryAt
<1>5. Unit(p).size = From /\ (Unit(p).size > 0 => Unit(p).first = op.first)
  BY <1>1, <1>4 DEF OldPart
<1>6. PICK n \in Nat, s \in Nat, l \in Nat : n = Unit(p).size /\ s = op.size /\ l = Len(op.text)
  BY <1>4, SizesAreNat
<1>7. op.size = 0 => n = 0
  BY <1>5, <1>6 DEF From
<1>8. op.first = 0 => n = 0
  <2>1. ASSUME op.first = 0, n # 0
        PROVE  FALSE
    <3>1. FileReads(p) /\ 1 \in 1 .. n
      BY <1>1, <1>4, <2>1 DEF Contents
    <3>2. Holds(Unit(p).first, 1, expect[p][1])
      BY <1>6, <3>1 DEF FileReads
    <3>3. Unit(p).first = 0
      BY <1>5, <1>6, <2>1
    <3>. QED
      BY <3>2, <3>3, Clusters DEF Holds
  <2>. QED
    BY <2>1
<1>9. n > 0 => op'.first = op.first
  BY <1>6, <1>7, <1>8
<1>. QED
  BY <1>2, <1>5, <1>6, <1>9

(* Nothing is written yet, and that stays so.                              *)
LEMMA StillToWrite ==
    ASSUME TypeOK, Written, Filling, op.pc \notin {"data", "commit"},
           op'.pc \notin {"data", "commit"}, op'.kind = op.kind, op'.loose = op.loose,
           op'.text = op.text, op'.size = op.size, op'.done = op.done, op'.off = op.off
    PROVE  Written'
<1>1. From' = From /\ op.done = 0
  BY DEF From, Written
<1>2. \A k \in 1 .. op'.done : FALSE
  BY <1>1
<1>. QED
  BY <1>1, <1>2 DEF Written

LEMMA FillingKept ==
    ASSUME Filling', ~Placing', op'.pc \notin {"free", "empty", "unlink"},
           Contents', GrowsAtEnd', OldPart', Written'
    PROVE  Kept'
BY DEF Kept, NothingYet, PlaceIsSafe

LEMMA EnsureKept ==
    ASSUME TypeOK, Running, Named, Kept, Ensure
    PROVE  Kept'
<1>. op.pc = "ensure" /\ op \in Op /\ Still /\ Filling /\ expect' = expect
  BY DEF Ensure, Move, Still, TypeOK, Filling
<1>. fat' = fat /\ mem' = mem /\ dirs' = dirs
  BY DEF Still
<1>1. /\ op.done = 0 /\ op.off = From /\ Len(op.text) <= op.size
      /\ op.kind = "write" => From = 0
      /\ op.kind = "append" => ~op.loose
  BY DEF Kept, Written
<1>2. CASE Needed = 0
  <2>1. op' = [op EXCEPT !.first = 0, !.pc = "commit"]
    BY <1>2 DEF Ensure, Move
  <2>2. /\ op'.pc = "commit" /\ op'.first = 0 /\ op'.pos = op.pos /\ op'.kind = op.kind
        /\ op'.loose = op.loose /\ op'.text = op.text /\ op'.size = op.size
        /\ op'.done = op.done /\ op'.off = op.off
    BY <2>1 DEF Op
  <2>3. op.size = 0 /\ Len(op.text) = 0
    BY <1>1, <1>2, NeededIsThere, SizesAreNat
  <2>4. Contents'
    BY <2>2, StillContents DEF Kept
  <2>5. OldPart'
    BY <2>2, <2>3, OldPartStays DEF Kept
  <2>6. Written'
    <3>1. \A k \in 1 .. op'.done : FALSE
      BY <1>1, <2>2
    <3>2. From' = From
      BY <2>2 DEF From
    <3>. QED
      BY <1>1, <2>2, <2>3, <3>1, <3>2 DEF Written
  <2>7. GrowsAtEnd' /\ Filling' /\ ~Placing'
    BY <2>2 DEF GrowsAtEnd, Filling, Placing, Allocating
  <2>. QED
    BY <2>2, <2>4, <2>5, <2>6, <2>7, FillingKept
<1>3. CASE Needed # 0
  <2>1. /\ op'.first = op.first /\ op'.pos = op.pos /\ op'.kind = op.kind
        /\ op'.loose = op.loose /\ op'.text = op.text /\ op'.size = op.size
        /\ op'.done = op.done /\ op'.off = op.off
        /\ op'.pc = "walk" \/ (op'.pc = "mark" /\ op'.goal = "first" /\ op.first = 0)
    <3>1. CASE op.first = 0
      <4>1. op' = [op EXCEPT !.target = Needed, !.goal = "first", !.pc = "mark"]
        BY <1>3, <3>1 DEF Ensure, Move
      <4>. QED
        BY <3>1, <4>1 DEF Op
    <3>2. CASE op.first # 0
      <4>1. op' = [op EXCEPT !.target = Needed + 1, !.last = op.first, !.count = 1, !.pc = "walk"]
        BY <1>3, <3>2 DEF Ensure, Move
      <4>. QED
        BY <4>1 DEF Op
    <3>. QED
      BY <3>1, <3>2
  <2>2. Contents'
    BY <2>1, StillContents DEF Kept
  <2>3. OldPart'
    BY <2>1, OldPartStays DEF Kept
  <2>4. Written'
    BY <2>1, StillToWrite DEF Kept
  <2>5. GrowsAtEnd' /\ Filling' /\ ~Placing'
    BY <2>1 DEF GrowsAtEnd, Filling, Placing, Allocating
  <2>. QED
    BY <2>1, <2>2, <2>3, <2>4, <2>5, FillingKept
<1>. QED
  BY <1>2, <1>3

LEMMA WalkOnKept ==
    ASSUME TypeOK, Running, Named, Kept, "blind" \notin faults', WalkNext \/ WalkEnd
    PROVE  Kept'
<1>. op.pc = "walk" /\ op \in Op /\ Still /\ Filling /\ expect' = expect
  BY DEF WalkNext, WalkEnd, Move, Still, TypeOK, Filling
<1>. fat' = fat /\ mem' = mem /\ dirs' = dirs
  BY DEF Still
<1>1. /\ op'.first = op.first /\ op'.pos = op.pos /\ op'.kind = op.kind
      /\ op'.loose = op.loose /\ op'.text = op.text /\ op'.size = op.size
      /\ op'.done = op.done /\ op'.off = op.off /\ op'.pc \in {"walk", "grow"}
      /\ op'.pc = "grow" /\ op'.count < op'.target => fat[op'.last] \notin Cluster
  <2>1. CASE WalkNext
    <3>1. op' = [op EXCEPT !.last = fat[op.last], !.count = @ + 1,
                           !.pc = IF op.count + 1 >= op.target THEN "grow" ELSE "walk"]
      BY <2>1 DEF WalkNext, Move
    <3>2. /\ op'.pc \in {"grow", "walk"} /\ op'.count = op.count + 1 /\ op'.target = op.target
          /\ op'.pc = "grow" => op.count + 1 >= op.target
      BY <3>1 DEF Op
    <3>3. ~(op'.pc = "grow" /\ op'.count < op'.target)
      <4>1. op.count \in Nat /\ op.target \in Nat
        BY DEF Op
      <4>. QED
        BY <3>2, <4>1
    <3>. QED
      BY <3>1, <3>2, <3>3 DEF Op
  <2>2. CASE WalkEnd
    BY <2>2 DEF WalkEnd, Noting, Op
  <2>. QED
    BY <2>1, <2>2
<1>2. Contents'
  BY <1>1, StillContents DEF Kept
<1>3. OldPart'
  BY <1>1, OldPartStays DEF Kept
<1>4. Written'
  BY <1>1, StillToWrite DEF Kept
<1>5. GrowsAtEnd' /\ Filling' /\ ~Placing'
  BY <1>1 DEF GrowsAtEnd, Filling, Placing, Allocating
<1>. QED
  BY <1>1, <1>2, <1>3, <1>4, <1>5, FillingKept

LEMMA GrowKept ==
    ASSUME TypeOK, Running, Named, Kept, Grow
    PROVE  Kept'
<1>. op.pc = "grow" /\ op \in Op /\ Still /\ Filling /\ expect' = expect
  BY DEF Grow, Move, Still, TypeOK, Filling
<1>. fat' = fat /\ mem' = mem /\ dirs' = dirs
  BY DEF Still
<1>1. /\ op.done = 0 /\ op.off = From /\ Len(op.text) <= op.size
      /\ op.kind = "write" => From = 0
      /\ op.kind = "append" => ~op.loose
  BY DEF Kept, Written
<1>2. /\ op'.first = op.first /\ op'.pos = op.pos /\ op'.kind = op.kind
      /\ op'.loose = op.loose /\ op'.text = op.text /\ op'.size = op.size
      /\ op'.done = op.done /\ op'.off = op.off
      /\ \/ op'.pc = "mark" /\ op'.goal = "chain" /\ op'.last = op.last /\ op.count < op.target
         \/ op'.pc = "data" /\ op'.cl = op.first
  <2>1. CASE op.count < op.target
    <3>1. op' = [op EXCEPT !.goal = "chain", !.pc = "mark"]
      BY <2>1 DEF Grow, Move
    <3>. QED
      BY <2>1, <3>1 DEF Op
  <2>2. CASE ~(op.count < op.target)
    <3>1. op' = [op EXCEPT !.cl = op.first, !.pc = "data"]
      BY <2>2 DEF Grow, Move
    <3>. QED
      BY <3>1 DEF Op
  <2>. QED
    BY <2>1, <2>2
<1>3. Contents'
  BY <1>2, StillContents DEF Kept
<1>4. OldPart'
  BY <1>2, OldPartStays DEF Kept
<1>5. GrowsAtEnd' /\ Filling' /\ ~Placing'
  BY <1>2 DEF Kept, GrowsAtEnd, Filling, Placing, Allocating
<1>6. CASE op'.pc = "mark"
  <2>1. Written'
    BY <1>2, <1>6, StillToWrite DEF Kept
  <2>. QED
    BY <1>3, <1>4, <1>5, <1>6, <2>1, FillingKept
<1>7. CASE op'.pc = "data" /\ op'.cl = op.first
  <2>1. PICK a \in Cluster : a = op.first
    BY DEF Running, NewChain, Op
  <2>2. 0 \in Places(a, a)' /\ Base(0) = 0
    BY PlacesHold, Bases DEF Places, Climbs
  <2>3. From' = From /\ From + op.done = From /\ 0 + op.off = From
    BY <1>1, <1>2, SizesAreNat DEF From
  <2>4. InPlace'
    <3>1. 0 \in Places(op.first, op.cl)'
      BY <1>2, <1>7, <2>1, <2>2
    <3>2. Base(0)' + op'.off = From' + op'.done
      BY <1>2, <2>2, <2>3 DEF Base
    <3>. QED
      BY <3>1, <3>2 DEF InPlace
  <2>5. \A k \in 1 .. op'.done : FALSE
    BY <1>1, <1>2
  <2>6. Written'
    BY <1>1, <1>2, <1>7, <2>1, <2>3, <2>4, <2>5 DEF Written
  <2>. QED
    BY <1>3, <1>4, <1>5, <1>7, <2>6, FillingKept
<1>. QED
  BY <1>2, <1>6, <1>7

LEMMA SeekKept ==
    ASSUME TypeOK, Running, Named, Kept, Seek
    PROVE  Kept'
<1>. op.pc = "data" /\ op \in Op /\ Still /\ Filling /\ expect' = expect
  BY DEF Seek, Move, Still, TypeOK, Filling
<1>. fat' = fat /\ mem' = mem /\ dirs' = dirs
  BY DEF Still
<1>1. PICK a \in Cluster, c \in Cluster : a = op.first /\ c = op.cl
  BY DEF Seek, Kept, Written
<1>2. /\ op'.first = op.first /\ op'.pos = op.pos /\ op'.kind = op.kind
      /\ op'.loose = op.loose /\ op'.text = op.text /\ op'.size = op.size
      /\ op'.done = op.done /\ op'.off = op.off - SLOTS /\ op'.pc = "data"
      /\ op'.cl \in {fat[c], EOC}
  BY <1>1 DEF Seek, Move, Op
<1>3. PICK i \in Places(a, c) : Base(i) + op.off = From + op.done
  BY <1>1 DEF Kept, Written, InPlace
<1>4. Contents'
  BY <1>2, StillContents DEF Kept
<1>5. OldPart'
  BY <1>2, OldPartStays DEF Kept
<1>6. GrowsAtEnd' /\ Filling' /\ ~Placing'
  BY <1>2 DEF GrowsAtEnd, Filling, Placing, Allocating
<1>7. From' = From
  BY <1>2 DEF From
<1>8. ASSUME op'.cl \in Cluster
      PROVE  InPlace'
  <2>1. op'.cl = fat[c] /\ i \in Nat
    BY <1>2, <1>8, Clusters DEF Places
  <2>2. i + 1 \in Places(a, fat[c])
    BY <1>8, <2>1, PlacesHold
  <2>3. i + 1 \in Places(op.first, op.cl)'
    BY <1>1, <1>2, <2>1, <2>2 DEF Places, Climbs
  <2>4. Base(i + 1) + op'.off = From + op.done
    <3>1. Base(i) \in Nat /\ Base(i + 1) = Base(i) + SLOTS /\ op.off \in Nat /\ SLOTS \in Nat
      BY <2>1, Bases, SlotsAssumption, SizesAreNat
    <3>2. Base(i + 1) + op'.off = Base(i) + op.off
      BY <1>2, <3>1
    <3>. QED
      BY <1>3, <3>2
  <2>5. Base(i + 1)' + op'.off = From' + op'.done
    BY <1>2, <1>7, <2>4 DEF Base
  <2>. QED
    BY <2>3, <2>5 DEF InPlace
<1>9. \A k, v : Holds(a, k, v) => Holds(a, k, v)'
  BY DEF Holds, Places, Climbs, Base
<1>10. Written'
  <2>1. ASSUME NEW k \in 1 .. op.done
        PROVE  Holds(a, From + k, op.text[k])'
    <3>1. Holds(a, From + k, op.text[k])
      BY <1>1 DEF Kept, Written
    <3>. QED
      BY <1>2, <1>7, <1>9, <3>1
  <2>2. ASSUME NEW k \in 1 .. op'.done
        PROVE  Holds(op.first, From + k, op.text[k])'
    BY <1>1, <1>2, <1>7, <2>1
  <2>3. /\ Len(op'.text) <= op'.size
        /\ op'.kind = "write" => From' = 0
        /\ op'.kind = "append" => ~op'.loose
        /\ op'.first \in Cluster
    BY <1>1, <1>2, <1>7 DEF Kept, Written
  <2>. QED
    BY <1>2, <1>8, <2>2, <2>3 DEF Written
<1>. QED
  BY <1>2, <1>4, <1>5, <1>6, <1>10, FillingKept

-----------------------------------------------------------------------------
(* Files and the allocation of a cluster.                                  *)

LEMMA MarkKept ==
    ASSUME TypeOK, Control, Volume, Running, Named, Kept, Mark
    PROVE  Kept'
<1>. op \in Op
  BY DEF TypeOK
<1>1. PICK c \in Cluster : /\ fat[c] = FREE /\ fat' = [fat EXCEPT ![c] = EOC]
                           /\ op' = [op EXCEPT !.new = c, !.pc = "zero"]
  BY DEF Mark, Allocable
<1>2. op.pc = "mark" /\ mem' = mem /\ dirs' = dirs
  BY DEF Mark
<1>3. /\ op'.pc = "zero" /\ op'.goal = op.goal /\ op'.first = op.first /\ op'.last = op.last
      /\ op'.pos = op.pos /\ op'.kind = op.kind /\ op'.text = op.text /\ op'.loose = op.loose
      /\ op'.size = op.size /\ op'.done = op.done /\ op'.off = op.off
  BY <1>1 DEF Op
<1>4. Contents'
  BY MarkContents DEF Kept
<1>5. CASE ~Filling
  <2>1. ~Filling'
    BY <1>2, <1>3, <1>5 DEF Filling, Allocating
  <2>2. Placing' => op'.done = 0 /\ op'.off = 0
    BY <1>2, <1>3 DEF Kept, NothingYet, Placing, Allocating
  <2>. QED
    BY <1>3, <1>4, <2>1, <2>2, PlainKept
<1>6. CASE Filling
  <2>1. Filling' /\ ~Placing'
    BY <1>2, <1>3, <1>6 DEF Filling, Placing, Allocating
  <2>2. OldPart'
    BY <1>2, <1>3, <1>6, OldPartStays DEF Kept
  <2>3. Written'
    BY <1>2, <1>3, <1>6, StillToWrite DEF Kept
  <2>4. GrowsAtEnd'
    <3>1. Allocating({"chain"}) => op.last \in Cluster /\ fat[op.last] \notin Cluster
      BY DEF Kept, GrowsAtEnd, Control, Allocating
    <3>2. \A b \in Cluster : fat[b] \notin Cluster => fat'[b] \notin Cluster
      BY <1>1, Clusters DEF TypeOK
    <3>3. Allocating({"first"})' => op'.first = 0
      BY <1>2, <1>3 DEF Kept, GrowsAtEnd, Allocating
    <3>4. Allocating({"chain"})' => fat'[op.last] \notin Cluster
      BY <1>2, <1>3, <3>1, <3>2 DEF Allocating
    <3>. QED
      BY <1>3, <3>3, <3>4 DEF GrowsAtEnd
  <2>. QED
    BY <1>3, <1>4, <2>1, <2>2, <2>3, <2>4, FillingKept
<1>. QED
  BY <1>5, <1>6

LEMMA ZeroClusterKept ==
    ASSUME TypeOK, Control, Volume, Running, Named, Kept, ZeroCluster
    PROVE  Kept'
<1>. op \in Op
  BY DEF TypeOK
<1>1. PICK n \in Cluster : n = op.new
  BY DEF ZeroCluster, Control
<1>2. /\ op.pc = "zero" /\ fat' = fat /\ dirs' = dirs
      /\ mem' = [mem EXCEPT ![n] = [u \in Slot |-> Zero]]
  BY <1>1 DEF ZeroCluster
<1>3. n \notin dirs /\ fat[n] \notin Cluster
  BY <1>1, <1>2, Clusters DEF Running, NewCluster, Fresh
<1>4. \A c \in dirs : mem'[c] = mem[c]
  BY <1>2, <1>3 DEF TypeOK
<1>5. /\ op'.pos = op.pos /\ op'.kind = op.kind /\ op'.text = op.text /\ op'.loose = op.loose
      /\ op'.goal = op.goal /\ op'.size = op.size /\ op'.done = op.done /\ op'.off = op.off
      /\ \/ op.goal = "mkdir" /\ op'.pc = "slot"
         \/ op.goal = "first" /\ op'.pc = "grow" /\ op'.first = n /\ op'.last = n
         \/ /\ op.goal \in {"extend", "chain"} /\ op'.pc = "link" /\ op'.first = op.first
            /\ op'.last = op.last
  <2>1. CASE op.goal = "mkdir"
    BY <1>1, <2>1 DEF ZeroCluster, Op
  <2>2. CASE op.goal = "first"
    BY <1>1, <2>2 DEF ZeroCluster, Op
  <2>3. CASE op.goal \in {"extend", "chain"}
    BY <1>1, <2>3 DEF ZeroCluster, Op
  <2>. QED
    BY <1>2, <2>1, <2>2, <2>3 DEF Control, Op, OpGoal
<1>6. Contents'
  BY ZeroClusterContents DEF Kept
<1>7. CASE op.goal \in {"mkdir", "extend"}
  <2>1. op.done = 0 /\ op.off = 0
    BY <1>2, <1>7 DEF Kept, NothingYet, Placing, Allocating
  <2>. QED
    BY <1>5, <1>6, <1>7, <2>1, PlainKept DEF Filling, Allocating
<1>8. CASE op.goal \in {"first", "chain"}
  <2>1. Filling /\ Filling' /\ ~Placing'
    BY <1>2, <1>5, <1>8 DEF Filling, Placing, Allocating
  <2>2. op.goal = "first" => op.first = 0
    BY <1>2 DEF Kept, GrowsAtEnd, Allocating
  <2>3. OldPart'
    BY <1>2, <1>4, <1>5, <1>8, <2>1, <2>2, OldPartStays DEF Kept
  <2>4. Written'
    BY <1>2, <1>5, <1>8, <2>1, StillToWrite DEF Kept
  <2>5. GrowsAtEnd'
    BY <1>2, <1>3, <1>5, <1>8 DEF Kept, GrowsAtEnd, Allocating
  <2>. QED
    BY <1>5, <1>6, <1>8, <2>1, <2>3, <2>4, <2>5, FillingKept
<1>. QED
  BY <1>5, <1>7, <1>8

LEMMA LinkKept ==
    ASSUME TypeOK, Control, Volume, Running, Named, Kept, Link
    PROVE  Kept'
<1>. op \in Op
  BY DEF TypeOK
<1>1. PICK n \in Cluster, l \in Cluster : n = op.new /\ l = op.last
  BY LinkFacts
<1>2. /\ n # l /\ Fresh(n) /\ mem' = mem
      /\ \A c \in Cluster : c # l => fat'[c] = fat[c]
      /\ op'.pos = op.pos /\ op'.kind = op.kind /\ op'.goal = op.goal /\ op'.first = op.first
      /\ op'.loose = op.loose
  BY <1>1, LinkFacts
<1>3. /\ op.pc = "link" /\ op.goal \in {"extend", "chain"}
      /\ op'.text = op.text /\ op'.size = op.size /\ op'.done = op.done /\ op'.off = op.off
      /\ op.goal = "extend" => op'.pc = "slot"
      /\ op.goal # "extend" => op'.pc = "grow" /\ op'.last = n /\ dirs' = dirs
  BY <1>1 DEF Link, Op, Control
<1>4. Contents'
  BY LinkContents DEF Kept
<1>5. CASE op.goal = "extend"
  <2>1. op.done = 0 /\ op.off = 0
    BY <1>3, <1>5 DEF Kept, NothingYet, Placing, Allocating
  <2>. QED
    BY <1>3, <1>4, <1>5, <2>1, PlainKept DEF Filling, Allocating
<1>6. CASE op.goal = "chain"
  <2>1. Filling /\ Filling' /\ ~Placing'
    BY <1>3, <1>6 DEF Filling, Placing, Allocating
  <2>2. OldPart'
    BY <1>2, <1>3, <1>6, <2>1, OldPartStays DEF Kept
  <2>3. Written'
    BY <1>2, <1>3, <1>6, <2>1, StillToWrite DEF Kept
  <2>4. fat'[n] \notin Cluster
    BY <1>2, Clusters DEF Fresh
  <2>5. GrowsAtEnd'
    BY <1>3, <1>6, <2>4 DEF GrowsAtEnd, Allocating
  <2>. QED
    BY <1>3, <1>4, <1>6, <2>1, <2>2, <2>3, <2>5, FillingKept
<1>. QED
  BY <1>3, <1>5, <1>6

-----------------------------------------------------------------------------
(* The data again: what is written can be read.                            *)

LEMMA WriteDataKept ==
    ASSUME TypeOK, Control, Volume, Running, Named, Kept, WriteData
    PROVE  Kept'
<1>. op \in Op
  BY DEF TypeOK
<1>1. PICK c \in Cluster, a \in Cluster : \E i \in Places(a, c) :
              /\ c = op.cl /\ a = op.first /\ c \notin dirs /\ CutOff(a) /\ a \notin dirs
              /\ i \in Nat /\ Base(i) \in Nat /\ Base(i) + op.off = From + op.done
              /\ From \in Nat
              /\ fat' = fat /\ dirs' = dirs /\ expect' = expect
              /\ \A b \in Cluster : b # c => mem'[b] = mem[b]
              /\ \A u \in Slot : u <= op.off => mem'[c][u] = mem[c][u]
              /\ \A n \in 1 .. Chunk :
                    op.off + n \in Slot /\ mem'[c][op.off + n] = op.text[op.done + n]
  BY DataFacts
<1>2. PICK i \in Places(a, c) :
              /\ c = op.cl /\ a = op.first /\ c \notin dirs /\ CutOff(a) /\ a \notin dirs
              /\ i \in Nat /\ Base(i) \in Nat /\ Base(i) + op.off = From + op.done
              /\ From \in Nat
              /\ fat' = fat /\ dirs' = dirs /\ expect' = expect
              /\ \A b \in Cluster : b # c => mem'[b] = mem[b]
              /\ \A u \in Slot : u <= op.off => mem'[c][u] = mem[c][u]
              /\ \A n \in 1 .. Chunk :
                    op.off + n \in Slot /\ mem'[c][op.off + n] = op.text[op.done + n]
  BY <1>1
<1>3. /\ op.pc = "data" /\ op.off < SLOTS /\ Filling
      /\ op'.loose = op.loose /\ op'.pos = op.pos /\ op'.first = op.first /\ op'.kind = op.kind
      /\ op'.text = op.text /\ op'.size = op.size /\ op'.done = op.done + Chunk
      /\ \/ op'.pc = "commit" /\ op.done + Chunk = Len(op.text)
         \/ /\ op'.pc = "data" /\ op'.off = 0 /\ op'.cl \in {fat[c], EOC}
            /\ op.done + Chunk # Len(op.text)
  <2>1. CASE op.done + Chunk = Len(op.text)
    <3>1. op' = [op EXCEPT !.done = @ + Chunk, !.pc = "commit"]
      BY <2>1 DEF WriteData
    <3>. QED
      BY <2>1, <3>1 DEF WriteData, Op, Filling
  <2>2. CASE op.done + Chunk # Len(op.text)
    <3>1. PICK next \in {fat[c], EOC} : op' = [op EXCEPT !.done = @ + Chunk, !.off = 0, !.cl = next]
      BY <1>2, <2>2 DEF WriteData
    <3>. QED
      BY <2>2, <3>1 DEF WriteData, Op, Filling
  <2>. QED
    BY <2>1, <2>2
<1>4. Unlinked(a) /\ LinksAreApart
  BY <1>2 DEF CutOff, Volume, LinksAreSound, LinksAreApart
<1>5. PICK f \in Nat, d \in Nat, o \in Nat, h \in Nat, s \in Nat :
         f = From /\ d = op.done /\ o = op.off /\ h = Chunk /\ s = SLOTS
  BY <1>2, <1>3, ChunkFacts, SizesAreNat, SlotsAssumption
<1>6. Contents'
  BY WriteDataContents
<1>7. OldPart'
  <2>1. \A b \in dirs : b \in Cluster /\ mem'[b] = mem[b]
    BY <1>2 DEF TypeOK
  <2>. QED
    BY <1>2, <1>3, <2>1, OldPartStays DEF Kept
<1>8. GrowsAtEnd' /\ Filling' /\ ~Placing'
  BY <1>3 DEF GrowsAtEnd, Filling, Placing, Allocating
<1>9. From' = f
  BY <1>3, <1>5 DEF From
<1>10. ASSUME op'.pc = "data", op'.cl \in Cluster
       PROVE  InPlace'
  <2>1. op'.cl = fat[c]
    BY <1>3, <1>10, Clusters
  <2>2. i + 1 \in Places(a, fat[c])
    BY <1>10, <2>1, PlacesHold
  <2>3. i + 1 \in Places(op.first, op.cl)'
    BY <1>2, <1>3, <2>1, <2>2 DEF Places, Climbs
  <2>4. o + h = s
    BY <1>3, <1>5, <1>10, SizesAreNat DEF Chunk
  <2>5. Base(i + 1) + 0 = f + (d + h)
    <3>1. Base(i + 1) = Base(i) + s
      BY <1>2, <1>5, Bases
    <3>. QED
      BY <1>2, <1>5, <2>4, <3>1
  <2>6. Base(i + 1)' + op'.off = From' + op'.done
    BY <1>3, <1>5, <1>9, <1>10, <2>5 DEF Base
  <2>. QED
    BY <2>3, <2>6 DEF InPlace
<1>11. ASSUME NEW k \in 1 .. d + h
       PROVE  Holds(a, f + k, op.text[k])'
  <2>1. PICK v : v = op.text[k]
    OBVIOUS
  <2>2. CASE k <= d
    <3>1. Holds(a, f + k, v)
      BY <1>2, <1>3, <1>5, <2>1, <2>2 DEF Kept, Written
    <3>2. PICK m \in Nat : m = f + k /\ m <= Base(i) + o
      BY <1>2, <1>5, <2>2
    <3>3. Holds(a, m, v)'
      BY <1>2, <1>4, <1>5, <3>1, <3>2, EarlierStays
    <3>. QED
      BY <1>3, <2>1, <3>2, <3>3
  <2>3. CASE k > d
    <3>1. PICK n \in 1 .. h : k = d + n
      <4>1. k - d \in 1 .. h /\ k = d + (k - d)
        BY <2>3
      <4>. QED
        BY <4>1
    <3>2. PICK u \in Slot : u = o + n /\ mem'[c][u] = v
      BY <1>2, <1>5, <2>1, <3>1
    <3>3. f + k = Base(i) + u
      BY <1>2, <1>5, <3>1, <3>2 DEF Slot
    <3>4. i \in Places(a, c)'
      BY <1>2 DEF Places, Climbs
    <3>5. Holds(a, f + k, v)'
      BY <3>2, <3>3, <3>4 DEF Holds, Base
    <3>. QED
      BY <1>3, <2>1, <3>5
  <2>. QED
    BY <1>5, <2>2, <2>3
<1>12. Written'
  <2>1. ASSUME NEW k \in 1 .. op'.done
        PROVE  Holds(op.first, From + k, op.text[k])'
    <3>1. k \in 1 .. d + h
      BY <1>3, <1>5, <2>1
    <3>. QED
      BY <1>2, <1>3, <1>9, <1>11, <3>1
  <2>2. /\ Len(op'.text) <= op'.size
        /\ op'.kind = "write" => From' = 0
        /\ op'.kind = "append" => ~op'.loose
        /\ op'.first \in Cluster
        /\ op'.pc = "commit" => op'.done = Len(op'.text)
    BY <1>2, <1>3, <1>5, <1>9 DEF Kept, Written
  <2>. QED
    BY <1>3, <1>10, <2>1, <2>2 DEF Written
<1>. QED
  BY <1>3, <1>6, <1>7, <1>8, <1>12, FillingKept

LEMMA CommitKept ==
    ASSUME TypeOK, Control, Volume, Running, Named, Kept, Commit
    PROVE  Kept'
<1>1. Contents'
  BY CommitContents
<1>2. op'.pc = "bump" /\ op'.leg # 2
  BY DEF Commit, TypeOK, Op, Running, NewChain, Filling
<1>. QED
  BY <1>1, <1>2, PlainKept DEF Filling, Placing, Allocating

-----------------------------------------------------------------------------
(* The invariant of the files.                                             *)

LEMMA InitKept == Init => Kept
<1>. SUFFICES ASSUME Init PROVE Kept
  OBVIOUS
<1>1. Files = {}
  <2>1. \A p \in Pos : Unit(p) = Zero
    BY DEF Init, Unit, Pos
  <2>. QED
    BY <2>1, UnitsAssumption DEF Files, IsEntryAt, Bytes
<1>2. op = Idle
  BY DEF Init
<1>. QED
  BY <1>1, <1>2 DEF Idle, Kept, Contents, NothingYet, GrowsAtEnd, OldPart, Written, PlaceIsSafe,
     Placing, Filling, Allocating

LEMMA StepKept == Inv /\ Naming /\ Keeps /\ [Next]_vars => Keeps'
<1>. SUFFICES ASSUME Inv, Naming, Keeps, [Next]_vars, faults' \cap {"hurt", "blind"} = {}
              PROVE  Kept'
  BY DEF Keeps
<1>1. TypeOK /\ Control /\ TypeOK' /\ faults \subseteq faults'
  BY StepTypes DEF Inv
<1>2. faults \cap {"hurt", "blind"} = {} /\ "hurt" \notin faults' /\ "blind" \notin faults'
  BY <1>1
<1>3. Volume /\ Running /\ Named /\ Kept
  BY <1>2 DEF Inv, Naming, Keeps
<1>. USE <1>1, <1>2, <1>3
<1>4. ASSUME Abort
      PROVE  Kept'
  BY <1>4, StopKept DEF Abort, Still
<1>5. CASE Call
  <2>1. PICK k, d, n, t : Begin(k, d, n, t)
    BY <1>5 DEF Call
  <2>. QED
    BY <2>1, BeginKept
<1>6. CASE (\E d \in Heads : Cd(d)) \/ UNCHANGED vars
  <2>1. Still /\ UNCHANGED op /\ UNCHANGED expect
    BY <1>6 DEF Cd, vars, Still
  <2>. QED
    BY <2>1, RestKept
<1>7. CASE Find
  BY <1>7, FindHitKept, FindOnKept DEF Find
<1>8. CASE Alloc
  BY <1>4, <1>8, MarkKept, ZeroClusterKept, LinkKept DEF Alloc, NoSpace
<1>9. CASE Place
  BY <1>9, SeekPlaceKept, WriteEntryKept DEF Place
<1>10. CASE Fill
  BY <1>4, <1>10, EnsureKept, WalkOnKept, GrowKept, SeekKept, WriteDataKept, CommitKept
     DEF Fill, WriteDataShort
<1>11. CASE Remove
  BY <1>4, <1>11, EmptyKept, FreeClusterKept, UnlinkKept DEF Remove, EmptyNo
<1>12. CASE Bump
  BY <1>12, BumpKept
<1>13. CASE Fail
  BY <1>4, <1>13 DEF Fail
<1>14. CASE PowerCut
  BY <1>14, StopKept DEF PowerCut, Still
<1>. QED
  BY <1>5, <1>6, <1>7, <1>8, <1>9, <1>10, <1>11, <1>12, <1>13, <1>14 DEF Next, Step

LEMMA KeepsHolds == Spec => []Keeps
<1>1. Init => Keeps
  BY InitKept DEF Keeps
<1>2. Inv /\ Naming /\ Keeps /\ [Next]_vars => Keeps'
  BY StepKept
<1>. QED
  BY <1>1, <1>2, Invariant, NamingHolds, PTL DEF Spec

(* Read your writes: between operations every file reads, unit for unit,   *)
(* as the writes and appends that succeeded left it, whatever happened to  *)
(* other files, whichever operations failed and whenever the power went.   *)
(* Excepted are volumes that were hurt, and searches and walks that could  *)
(* not read a sector.                                                      *)
THEOREM FilesKeepTheirText == Spec => []FilesReadBack
<1>1. Inv /\ Keeps => FilesReadBack
  <2>. SUFFICES ASSUME Inv, Keeps, op.pc = "idle", faults \cap {"hurt", "blind"} = {},
                       NEW p \in Files
                PROVE  Content(Unit(p)) = expect[p]
    BY DEF FilesReadBack
  <2>1. TypeOK /\ ~op.loose /\ Contents
    BY DEF Inv, Running, OldChain, Filling, Allocating, Keeps, Kept
  <2>2. FileReads(p) /\ p \in Pos
    BY <2>1 DEF Contents, Files
  <2>3. Unit(p).size \in Nat /\ expect[p] \in Seq(Values)
    BY <2>1, <2>2, SizesAreNat DEF TypeOK
  <2>. QED
    BY <2>2, <2>3, ContentIs
<1>. QED
  BY <1>1, Invariant, KeepsHolds, PTL
=============================================================================
