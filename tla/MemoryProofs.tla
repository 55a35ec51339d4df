---------------------------- MODULE MemoryProofs ----------------------------
(***************************************************************************)
(* Theorems about Memory, for every memory map, size of the bitmap and of  *)
(* a table, and every set of programs.                                     *)
(*                                                                         *)
(* Everything that takes or maps a frame is one of two operators on the    *)
(* record of pmm.c and paging.c, TakeFrame and PagingMap.  Sound says what *)
(* both keep of that record; the boot sequence and the handlers are chains *)
(* of the two.                                                             *)
(***************************************************************************)
EXTENDS Memory, FiniteSetTheorems, SequenceTheorems, WellFoundedInduction, TLAPS

Maps(V) == UNION {[D -> V] : D \in SUBSET Nat}

Pde == [table : Frames, user : BOOLEAN]
Pte == [frame : Nat, user : BOOLEAN]

MemoryRecord == [used : SUBSET Frames, free : Nat, pd : Frames, pde : Maps(Pde), pte : Maps(Pte)]

Clear(b, used) == {f \in Frames \ used : f < MaxFrame(b)}

(* What pmm_init lets be handed out.                                       *)
Usable(b) == {f \in (UNION {Inside(r) : r \in E820(b)}) \ Reserved(b) : f < MaxFrame(b)}

(* What has been.                                                          *)
Own(b, mm) == mm.used \cap Usable(b)

UserPagesOf(mm) == {v \in DOMAIN mm.pte : mm.pte[v].user}

(* Whoever holds f, it is not the directory, a table or a program.         *)
Unshared(mm, f) ==
    /\ f # mm.pd
    /\ \A t \in DOMAIN mm.pde : mm.pde[t].table # f
    /\ \A v \in UserPagesOf(mm) : mm.pte[v].frame # f

Sound(b, mm) ==
    /\ mm \in MemoryRecord
    /\ IsFiniteSet(DOMAIN mm.pde) /\ IsFiniteSet(UserPagesOf(mm))
    /\ Clear(b, mm.used) \subseteq Usable(b)
    /\ mm.free = Cardinality(Clear(b, mm.used))
    /\ mm.pd \in Own(b, mm)
    /\ \A t \in DOMAIN mm.pde : mm.pde[t].table \in Own(b, mm) /\ mm.pde[t].table # mm.pd
    /\ \A t, u \in DOMAIN mm.pde : mm.pde[t].table = mm.pde[u].table => t = u
    /\ \A v \in UserPagesOf(mm) :
          /\ mm.pte[v].frame \in Own(b, mm) /\ mm.pte[v].frame # mm.pd
          /\ \A t \in DOMAIN mm.pde : mm.pde[t].table # mm.pte[v].frame
    /\ \A v, w \in UserPagesOf(mm) : mm.pte[v].frame = mm.pte[w].frame => v = w

-----------------------------------------------------------------------------
(* Numbers.                                                                *)

Less == {p \in Nat \X Nat : p[1] < p[2]}

(* The order that inductions on numbers go down.                         *)
LEMMA LessIsWellFounded == IsWellFoundedOn(Less, Nat)
  BY NatLessThanWellFounded DEF OpToRel, Less

(* The least member of a set of numbers is one, and is the least.        *)
LEMMA MinIs ==
    ASSUME NEW S \in SUBSET Nat, S # {}
    PROVE  Min(S) \in S /\ \A y \in S : Min(S) <= y
  <1>1. PICK x \in S : \A y \in S : ~(<<y, x>> \in Less)
    BY LessIsWellFounded, WFMin
  <1>2. ASSUME NEW y \in S  PROVE x <= y
    <2>1. x \in Nat /\ y \in Nat /\ ~(<<y, x>> \in Less)
      BY <1>1
    <2> QED  BY <2>1 DEF Less
  <1> QED  BY <1>2 DEF Min

(* So is the greatest of a bounded set.                                  *)
LEMMA MaxIs ==
    ASSUME NEW S \in SUBSET Nat, S # {}, NEW B \in Nat, \A x \in S : x <= B
    PROVE  Max(S) \in S /\ \A y \in S : Max(S) >= y
  <1> DEFINE T == {B - x : x \in S}
  <1>1. T \in SUBSET Nat /\ T # {}
    <2>1. ASSUME NEW x \in S  PROVE B - x \in Nat
      <3>1. x \in Nat /\ x <= B
        OBVIOUS
      <3> QED  BY <3>1
    <2> QED  BY <2>1
  <1>2. PICK d \in T : \A y \in T : ~(<<y, d>> \in Less)
    BY <1>1, LessIsWellFounded, WFMin
  <1>3. PICK x \in S : d = B - x
    OBVIOUS
  <1>4. \A y \in S : x >= y
    <2> SUFFICES ASSUME NEW y \in S PROVE x >= y
      OBVIOUS
    <2>1. B - y \in T /\ B - y \in Nat /\ d \in Nat
      BY <1>1
    <2>2. ~(B - y < d)
      BY <1>2, <2>1 DEF Less
    <2> QED  BY <1>3, <2>1, <2>2
  <1> QED  BY <1>4 DEF Max

(* A page lies in exactly one table.                                     *)
LEMMA TableOf ==
    ASSUME NEW P \in Nat, P > 0, NEW v \in Nat
    PROVE  /\ v \div P \in Nat
           /\ (v \div P) * P <= v /\ v < (v \div P + 1) * P
           /\ \A t \in Nat : t * P <= v /\ v < (t + 1) * P => v \div P = t
  OBVIOUS

(* Tables enough for a pages.                                            *)
LEMMA RoundedUp ==
    ASSUME NEW a \in Nat, NEW P \in Nat, P > 0
    PROVE  ((a + P - 1) \div P) * P >= a /\ (a + P - 1) \div P \in Nat
  OBVIOUS

-----------------------------------------------------------------------------
(* The bitmap.                                                             *)

LEMMA Sizes ==
    /\ MAX_FRAMES \in Nat /\ MAX_FRAMES > 0 /\ MIN_PHYS \in Nat /\ FALLBACK \in Nat
    /\ PtPages \in Nat /\ PtPages > 0 /\ TASK_MAX \in Nat /\ StackTop \in Nat
    /\ LowTop \in Nat /\ LowTop > 0 /\ HeapStart \in Nat /\ HeapPages \in Nat
    /\ LowTop <= HeapStart /\ MIN_PHYS <= MAX_FRAMES /\ MAX_FRAMES + TASK_MAX <= StackTop
    /\ Frames \subseteq Nat
  BY SizesAssumption DEF SizesAssumption, Frames

(* The frames still free can be counted.                                 *)
LEMMA ClearIsFinite ==
    ASSUME NEW b, NEW used
    PROVE  IsFiniteSet(Clear(b, used)) /\ Cardinality(Clear(b, used)) \in Nat
  <1>1. IsFiniteSet(Frames)
    BY Sizes, FS_Interval DEF Frames
  <1>2. Clear(b, used) \subseteq Frames
    BY DEF Clear
  <1> QED  BY <1>1, <1>2, FS_Subset, FS_CardinalityType

(* Frame 0, which pmm_alloc returns for "none", is never free (pmm.c:125). *)
LEMMA LowFrameIsReserved == ASSUME NEW b PROVE NoFrame \notin Usable(b)
  <1>1. NoFrame \in Touched(Pages(0, LowTop))
    BY Sizes DEF NoFrame, Touched, Pages, Frames
  <1>2. Touched(Pages(0, LowTop)) \subseteq Reserved(b)
    BY DEF Reserved
  <1> DEFINE ram == UNION {Inside(r) : r \in E820(b)}
  <1>3. Usable(b) = {f \in ram \ Reserved(b) : f < MaxFrame(b)}
    BY DEF Usable
  <1> HIDE DEF ram
  <1> QED  BY <1>1, <1>2, <1>3

(* pmm_alloc returns a free frame, or 0 when there is none.              *)
LEMMA LowestClearIs ==
    ASSUME NEW b, NEW used, Clear(b, used) \subseteq Usable(b)
    PROVE  IF Clear(b, used) = {} THEN LowestClear(b, used) = NoFrame
           ELSE /\ LowestClear(b, used) \in Clear(b, used)
                /\ LowestClear(b, used) # NoFrame
  <1>1. LowestClear(b, used) = IF Clear(b, used) = {} THEN NoFrame ELSE Min(Clear(b, used))
    BY DEF LowestClear, Clear
  <1>2. Clear(b, used) \in SUBSET Nat
    BY Sizes DEF Clear
  <1> QED  BY <1>1, <1>2, MinIs, LowFrameIsReserved

(* Taking a frame: it belongs to nobody yet.                               *)
LEMMA TakeSound ==
    ASSUME NEW b, NEW mm, Sound(b, mm), NEW f, f = LowestClear(b, mm.used), f # NoFrame
    PROVE  /\ Sound(b, TakeFrame(mm, f))
           /\ f \in Own(b, TakeFrame(mm, f)) /\ f \notin mm.used
           /\ Unshared(TakeFrame(mm, f), f)
           /\ mm.used \subseteq TakeFrame(mm, f).used
           /\ TakeFrame(mm, f).pd = mm.pd /\ TakeFrame(mm, f).pde = mm.pde
           /\ TakeFrame(mm, f).pte = mm.pte
  <1> DEFINE x == TakeFrame(mm, f)
  <1>1. f \in Clear(b, mm.used) /\ f \in Usable(b) /\ f \in Frames /\ f \notin mm.used
    <2>1. f \in Clear(b, mm.used)
      BY LowestClearIs DEF Sound
    <2> QED  BY <2>1 DEF Sound, Clear
  <1>2. /\ mm.free = Cardinality(Clear(b, mm.used)) /\ mm.free \in Nat
        /\ mm.used \subseteq Frames
    BY DEF Sound, MemoryRecord
  <1>3. Clear(b, mm.used \cup {f}) = Clear(b, mm.used) \ {f}
    BY DEF Clear
  <1>4. Cardinality(Clear(b, mm.used \cup {f})) = mm.free - 1
    <2>1. PICK C : C = Clear(b, mm.used)
      OBVIOUS
    <2>2. IsFiniteSet(C) /\ f \in C
      BY <1>1, <2>1, ClearIsFinite
    <2>3. Cardinality(C \ {f}) = Cardinality(C) - 1
      BY <2>2, FS_RemoveElement
    <2> QED  BY <1>2, <1>3, <2>1, <2>3
  <1>5. mm.free - 1 \in Nat
    BY <1>4, ClearIsFinite
  <1>6. x = [mm EXCEPT !.used = @ \cup {f}, !.free = @ - 1]
    BY DEF TakeFrame
  <1>7. /\ x \in MemoryRecord /\ x.used = mm.used \cup {f} /\ x.free = mm.free - 1
        /\ x.pd = mm.pd /\ x.pde = mm.pde /\ x.pte = mm.pte
    <2>1. PICK n \in Nat : n = mm.free - 1
      BY <1>5
    <2>2. PICK U \in SUBSET Frames : U = mm.used \cup {f}
      BY <1>1, <1>2
    <2>3. mm \in MemoryRecord
      BY DEF Sound
    <2>4. x = [mm EXCEPT !.used = U, !.free = n]
      BY <1>6, <2>1, <2>2, <2>3 DEF MemoryRecord
    <2> QED  BY <2>1, <2>2, <2>3, <2>4 DEF MemoryRecord
  <1> HIDE DEF x
  <1>8. UserPagesOf(x) = UserPagesOf(mm)
    BY <1>7 DEF UserPagesOf
  <1>9. Own(b, mm) \subseteq Own(b, x) /\ f \in Own(b, x) /\ f \notin Own(b, mm)
    BY <1>1, <1>7 DEF Own
  <1>10. Sound(b, x)
    <2>1. Clear(b, x.used) \subseteq Usable(b)
      BY <1>3, <1>7 DEF Sound
    <2>2. x.free = Cardinality(Clear(b, x.used))
      BY <1>4, <1>7
    <2> QED  BY <1>7, <1>8, <1>9, <2>1, <2>2 DEF Sound
  <1>11. Unshared(x, f)
    BY <1>7, <1>8, <1>9 DEF Sound, Unshared
  <1> QED  BY <1>1, <1>7, <1>9, <1>10, <1>11 DEF x

-----------------------------------------------------------------------------
(* The page tables.                                                        *)

LEMMA WithMaps ==
    ASSUME NEW V, NEW fn \in Maps(V), NEW v \in Nat, NEW y \in V
    PROVE  With(fn, v, y) \in Maps(V)
  <1>1. PICK D \in SUBSET Nat : fn \in [D -> V]
    BY DEF Maps
  <1>2. With(fn, v, y) \in [D \cup {v} -> V]
    BY <1>1 DEF With
  <1>3. D \cup {v} \in SUBSET Nat
    OBVIOUS
  <1> QED  BY <1>2, <1>3 DEF Maps

(* Looking up a page or a table.                                         *)
LEMMA MapsApply ==
    ASSUME NEW V, NEW fn \in Maps(V), NEW v \in DOMAIN fn
    PROVE  fn[v] \in V /\ v \in Nat
  BY DEF Maps

(* A directory entry for a table that is the directory's already, or that  *)
(* has just been taken.                                                    *)
LEMMA SetPdeSound ==
    ASSUME NEW b, NEW x, Sound(b, x), NEW t \in Nat, NEW pt \in Own(b, x), NEW u \in BOOLEAN,
           \/ Unshared(x, pt) /\ t \notin DOMAIN x.pde
           \/ t \in DOMAIN x.pde /\ x.pde[t].table = pt,
           NEW y, y = [x EXCEPT !.pde = With(@, t, [table |-> pt, user |-> u])]
    PROVE  /\ Sound(b, y) /\ y.used = x.used /\ y.pd = x.pd /\ y.pte = x.pte
           /\ y.pde = With(x.pde, t, [table |-> pt, user |-> u])
  <1> DEFINE e == [table |-> pt, user |-> u]
  <1>1. e \in Pde /\ e.table = pt
    BY DEF Pde, Own, Sound, MemoryRecord
  <1> HIDE DEF e
  <1>2. x.pde \in Maps(Pde) /\ x \in MemoryRecord
    BY DEF Sound, MemoryRecord
  <1>3. /\ With(x.pde, t, e) \in Maps(Pde)
        /\ DOMAIN With(x.pde, t, e) = DOMAIN x.pde \cup {t}
        /\ With(x.pde, t, e)[t] = e
        /\ \A z \in DOMAIN x.pde : z # t => With(x.pde, t, e)[z] = x.pde[z]
    <2>1. With(x.pde, t, e) \in Maps(Pde)
      BY <1>1, <1>2, WithMaps
    <2>2. /\ DOMAIN With(x.pde, t, e) = DOMAIN x.pde \cup {t}
          /\ With(x.pde, t, e)[t] = e
      BY DEF With
    <2>3. \A z \in DOMAIN x.pde : z # t => With(x.pde, t, e)[z] = x.pde[z]
      BY DEF With
    <2> QED  BY <2>1, <2>2, <2>3
  <1>4. /\ y \in MemoryRecord /\ y.used = x.used /\ y.free = x.free /\ y.pd = x.pd
        /\ y.pte = x.pte /\ y.pde = With(x.pde, t, e)
    <2>1. y = [x EXCEPT !.pde = With(x.pde, t, e)]
      BY <1>2 DEF e
    <2> QED  BY <1>2, <1>3, <2>1 DEF MemoryRecord
  <1>5. UserPagesOf(y) = UserPagesOf(x) /\ Own(b, y) = Own(b, x)
    BY <1>4 DEF UserPagesOf, Own
  <1>6. IsFiniteSet(DOMAIN y.pde)
    BY <1>3, <1>4, FS_AddElement DEF Sound
  <1>7. \A z \in DOMAIN y.pde : y.pde[z].table = IF z = t THEN pt ELSE x.pde[z].table
    BY <1>1, <1>3, <1>4
  <1>8. \A z \in DOMAIN y.pde : y.pde[z].table \in Own(b, y) /\ y.pde[z].table # y.pd
    <2>1. pt # x.pd
      BY DEF Sound, Unshared
    <2> QED  BY <1>3, <1>4, <1>5, <1>7, <2>1 DEF Sound
  <1>9. \A z, w \in DOMAIN y.pde : y.pde[z].table = y.pde[w].table => z = w
    <2>1. \A z \in DOMAIN x.pde : z # t => x.pde[z].table # pt
      BY DEF Sound, Unshared
    <2>2. \A z, w \in DOMAIN x.pde : x.pde[z].table = x.pde[w].table => z = w
      BY DEF Sound
    <2> QED  BY <1>3, <1>4, <1>7, <2>1, <2>2
  <1>10. \A v \in UserPagesOf(y) : \A z \in DOMAIN y.pde : y.pde[z].table # y.pte[v].frame
    <2>1. \A v \in UserPagesOf(x) : pt # x.pte[v].frame
      BY DEF Sound, Unshared
    <2> QED  BY <1>3, <1>4, <1>5, <1>7, <2>1 DEF Sound
  <1>11. Sound(b, y)
    BY <1>4, <1>5, <1>6, <1>8, <1>9, <1>10 DEF Sound
  <1> QED  BY <1>3, <1>4, <1>11 DEF e

(* A page: the frame of a program's page is nobody else's.                 *)
LEMMA SetPteSound ==
    ASSUME NEW b, NEW x, Sound(b, x), NEW v \in Nat, NEW f \in Nat, NEW u \in BOOLEAN,
           u => f \in Own(b, x) /\ Unshared(x, f),
           NEW y, y = [x EXCEPT !.pte = With(@, v, [frame |-> f, user |-> u])]
    PROVE  /\ Sound(b, y) /\ y.used = x.used /\ y.pd = x.pd /\ y.pde = x.pde
           /\ y.pte = With(x.pte, v, [frame |-> f, user |-> u])
  <1> DEFINE e == [frame |-> f, user |-> u]
  <1>1. e \in Pte /\ e.frame = f /\ e.user = u
    BY DEF Pte
  <1> HIDE DEF e
  <1>2. x.pte \in Maps(Pte) /\ x \in MemoryRecord
    BY DEF Sound, MemoryRecord
  <1>3. /\ With(x.pte, v, e) \in Maps(Pte)
        /\ DOMAIN With(x.pte, v, e) = DOMAIN x.pte \cup {v}
        /\ With(x.pte, v, e)[v] = e
        /\ \A z \in DOMAIN x.pte : z # v => With(x.pte, v, e)[z] = x.pte[z]
    <2>1. With(x.pte, v, e) \in Maps(Pte)
      BY <1>1, <1>2, WithMaps
    <2>2. /\ DOMAIN With(x.pte, v, e) = DOMAIN x.pte \cup {v}
          /\ With(x.pte, v, e)[v] = e
      BY DEF With
    <2>3. \A z \in DOMAIN x.pte : z # v => With(x.pte, v, e)[z] = x.pte[z]
      BY DEF With
    <2> QED  BY <2>1, <2>2, <2>3
  <1>4. /\ y \in MemoryRecord /\ y.used = x.used /\ y.free = x.free /\ y.pd = x.pd
        /\ y.pde = x.pde /\ y.pte = With(x.pte, v, e)
    <2>1. y = [x EXCEPT !.pte = With(x.pte, v, e)]
      BY <1>2 DEF e
    <2> QED  BY <1>2, <1>3, <2>1 DEF MemoryRecord
  <1>5. Own(b, y) = Own(b, x)
    BY <1>4 DEF Own
  <1>6. /\ v \in UserPagesOf(y) => u /\ y.pte[v].frame = f
        /\ \A z \in UserPagesOf(y) : z # v => z \in UserPagesOf(x) /\ y.pte[z] = x.pte[z]
    BY <1>1, <1>3, <1>4 DEF UserPagesOf
  <1>7. IsFiniteSet(UserPagesOf(y))
    <2>1. UserPagesOf(y) \subseteq UserPagesOf(x) \cup {v}
      BY <1>6
    <2>2. IsFiniteSet(UserPagesOf(x) \cup {v})
      BY FS_AddElement DEF Sound
    <2> QED  BY <2>1, <2>2, FS_Subset
  <1>8. \A z \in UserPagesOf(y) : /\ y.pte[z].frame \in Own(b, y) /\ y.pte[z].frame # y.pd
                                  /\ \A t \in DOMAIN y.pde : y.pde[t].table # y.pte[z].frame
    <2> SUFFICES ASSUME NEW z \in UserPagesOf(y)
                 PROVE  /\ y.pte[z].frame \in Own(b, y) /\ y.pte[z].frame # y.pd
                        /\ \A t \in DOMAIN y.pde : y.pde[t].table # y.pte[z].frame
      OBVIOUS
    <2>1. CASE z = v
      BY <1>4, <1>5, <1>6, <2>1 DEF Unshared
    <2>2. CASE z # v
      <3>1. z \in UserPagesOf(x) /\ y.pte[z] = x.pte[z]
        BY <1>6, <2>2
      <3> QED  BY <1>4, <1>5, <3>1 DEF Sound
    <2> QED  BY <2>1, <2>2
  <1>9. \A z, w \in UserPagesOf(y) : y.pte[z].frame = y.pte[w].frame => z = w
    <2>1. \A z \in UserPagesOf(x) : u => x.pte[z].frame # f
      BY DEF Unshared
    <2>2. \A z, w \in UserPagesOf(x) : x.pte[z].frame = x.pte[w].frame => z = w
      BY DEF Sound
    <2> QED  BY <1>6, <2>1, <2>2
  <1>10. Sound(b, y)
    BY <1>4, <1>5, <1>7, <1>8, <1>9 DEF Sound
  <1> QED  BY <1>4, <1>10 DEF e

(* What paging_map does: without a frame for a table nothing.              *)
MapFails(b, mm, v, y) ==
    y = mm /\ Clear(b, mm.used) = {} /\ Table(v) \notin DOMAIN mm.pde

MapDone(b, mm, v, f, user, y) ==
    /\ y.pte = With(mm.pte, v, [frame |-> f, user |-> user])
    /\ DOMAIN y.pde = DOMAIN mm.pde \cup {Table(v)}
    /\ Table(v) \notin DOMAIN mm.pde => Clear(b, mm.used) # {}
    /\ user => y.pde[Table(v)].user
    /\ \A t \in DOMAIN mm.pde : /\ y.pde[t].table = mm.pde[t].table
                                /\ mm.pde[t].user => y.pde[t].user

(* The number of a table.                                                *)
LEMMA TableIsNat == ASSUME NEW v \in Nat PROVE Table(v) \in Nat
  BY Sizes, TableOf DEF Table

Grown(mm, y) == mm.used \subseteq y.used /\ y.pd = mm.pd

(* paging_map: fails, or maps the page, and keeps the bookkeeping.       *)
LEMMA MapSound ==
    ASSUME NEW b, NEW mm, Sound(b, mm), NEW v \in Nat, NEW f \in Nat, NEW user \in BOOLEAN,
           user => f \in Own(b, mm) /\ Unshared(mm, f),
           NEW y, y = PagingMap(b, mm, v, f, user)
    PROVE  /\ Sound(b, y) /\ Grown(mm, y)
           /\ MapFails(b, mm, v, y) \/ MapDone(b, mm, v, f, user, y)
  <1>1. mm \in MemoryRecord /\ Table(v) \in Nat
    BY TableIsNat DEF Sound
  <1>2. CASE Table(v) \in DOMAIN mm.pde
    <2> DEFINE pt == mm.pde[Table(v)].table
               u  == user \/ mm.pde[Table(v)].user
               x  == [mm EXCEPT !.pde = With(@, Table(v), [table |-> pt, user |-> u])]
    <2>1. pt \in Own(b, mm) /\ u \in BOOLEAN /\ pt # NoFrame /\ mm.pde[Table(v)].user \in BOOLEAN
      <3>1. mm.pde[Table(v)] \in Pde
        BY <1>1, <1>2, MapsApply DEF MemoryRecord
      <3>2. mm.pde[Table(v)].user \in BOOLEAN
        BY <3>1 DEF Pde
      <3>3. pt \in Own(b, mm)
        BY <1>2 DEF Sound
      <3> QED  BY <3>2, <3>3, LowFrameIsReserved DEF Own
    <2>2. y = [mm EXCEPT !.pde = With(@, Table(v), [table |-> pt, user |-> u]),
                         !.pte = With(@, v, [frame |-> f, user |-> user])]
      BY <1>2, <2>1 DEF PagingMap
    <2>3. y = [x EXCEPT !.pte = With(@, v, [frame |-> f, user |-> user])]
      BY <1>1, <2>2 DEF MemoryRecord
    <2> HIDE DEF x
    <2>4. /\ Sound(b, x) /\ x.used = mm.used /\ x.pd = mm.pd /\ x.pte = mm.pte
          /\ DOMAIN x.pde = DOMAIN mm.pde \cup {Table(v)}
          /\ x.pde[Table(v)] = [table |-> pt, user |-> u]
          /\ \A z \in DOMAIN mm.pde : z # Table(v) => x.pde[z] = mm.pde[z]
      <3>1. PICK a \in Own(b, mm), c \in BOOLEAN, t \in Nat : a = pt /\ c = u /\ t = Table(v)
        BY <1>1, <2>1
      <3>2. x = [mm EXCEPT !.pde = With(@, t, [table |-> a, user |-> c])]
        BY <3>1 DEF x
      <3>3. t \in DOMAIN mm.pde /\ mm.pde[t].table = a
        BY <1>2, <3>1
      <3>4. /\ Sound(b, x) /\ x.used = mm.used /\ x.pd = mm.pd /\ x.pte = mm.pte
            /\ x.pde = With(mm.pde, t, [table |-> a, user |-> c])
        BY <3>2, <3>3, SetPdeSound
      <3>5. /\ DOMAIN x.pde = DOMAIN mm.pde \cup {t}
            /\ x.pde[t] = [table |-> a, user |-> c]
        BY <3>4 DEF With
      <3>6. \A z \in DOMAIN mm.pde : z # t => x.pde[z] = mm.pde[z]
        BY <3>4 DEF With
      <3> QED  BY <3>1, <3>4, <3>5, <3>6
    <2>5. user => f \in Own(b, x) /\ Unshared(x, f)
      <3>1. \A z \in DOMAIN x.pde : x.pde[z].table = mm.pde[z].table /\ z \in DOMAIN mm.pde
        BY <1>2, <2>4
      <3> QED  BY <2>4, <3>1 DEF Own, Unshared, UserPagesOf
    <2>6. /\ Sound(b, y) /\ y.used = x.used /\ y.pd = x.pd /\ y.pde = x.pde
          /\ y.pte = With(x.pte, v, [frame |-> f, user |-> user])
      BY <2>3, <2>4, <2>5, SetPteSound
    <2>7. MapDone(b, mm, v, f, user, y)
      <3>1. /\ y.pte = With(mm.pte, v, [frame |-> f, user |-> user])
            /\ DOMAIN y.pde = DOMAIN mm.pde \cup {Table(v)}
        BY <2>4, <2>6
      <3>2. y.pde[Table(v)].table = pt /\ y.pde[Table(v)].user = u
        BY <2>4, <2>6
      <3>3. ASSUME NEW t \in DOMAIN mm.pde
            PROVE  y.pde[t].table = mm.pde[t].table /\ (mm.pde[t].user => y.pde[t].user)
        <4>1. CASE t = Table(v)
          BY <3>2, <4>1
        <4>2. CASE t # Table(v)
          BY <2>4, <2>6, <4>2
        <4> QED  BY <4>1, <4>2
      <3>4. user => y.pde[Table(v)].user
        BY <3>2
      <3> QED  BY <1>2, <3>1, <3>3, <3>4 DEF MapDone
    <2> QED  BY <2>4, <2>6, <2>7 DEF Grown
  <1>3. CASE Table(v) \notin DOMAIN mm.pde
    <2> DEFINE pt == LowestClear(b, mm.used)
               w  == TakeFrame(mm, pt)
               x  == [w EXCEPT !.pde = With(@, Table(v), [table |-> pt, user |-> user])]
    <2>1. CASE pt = NoFrame
      <3>1. y = mm
        BY <1>3, <2>1 DEF PagingMap
      <3>2. Clear(b, mm.used) = {}
        BY <2>1, LowestClearIs DEF Sound
      <3> QED  BY <1>3, <3>1, <3>2 DEF MapFails, Grown
    <2>2. CASE pt # NoFrame
      <3>1. /\ Sound(b, w) /\ pt \in Own(b, w) /\ pt \notin mm.used
            /\ Unshared(w, pt) /\ mm.used \subseteq w.used
            /\ w.pd = mm.pd /\ w.pde = mm.pde /\ w.pte = mm.pte
        BY <2>2, TakeSound
      <3>2. y = [w EXCEPT !.pde = With(@, Table(v), [table |-> pt, user |-> user]),
                          !.pte = With(@, v, [frame |-> f, user |-> user])]
        <4>1. y = [w EXCEPT !.pde = With(@, Table(v), [table |-> pt, user |-> user \/ FALSE]),
                            !.pte = With(@, v, [frame |-> f, user |-> user])]
          BY <1>3, <2>2 DEF PagingMap
        <4>2. (user \/ FALSE) = user
          OBVIOUS
        <4> QED  BY <4>1, <4>2
      <3> HIDE DEF w
      <3>3. y = [x EXCEPT !.pte = With(@, v, [frame |-> f, user |-> user])]
        BY <3>1, <3>2 DEF Sound, MemoryRecord
      <3> HIDE DEF x
      <3>4. /\ Sound(b, x) /\ x.used = w.used /\ x.pd = w.pd /\ x.pte = w.pte
            /\ DOMAIN x.pde = DOMAIN w.pde \cup {Table(v)}
            /\ x.pde[Table(v)] = [table |-> pt, user |-> user]
            /\ \A z \in DOMAIN w.pde : z # Table(v) => x.pde[z] = w.pde[z]
        <4>1. PICK a \in Own(b, w), t \in Nat : a = pt /\ t = Table(v)
          BY <1>1, <3>1
        <4>2. x = [w EXCEPT !.pde = With(@, t, [table |-> a, user |-> user])]
          BY <4>1 DEF x
        <4>3. Unshared(w, a) /\ t \notin DOMAIN w.pde
          BY <1>3, <3>1, <4>1
        <4>4. /\ Sound(b, x) /\ x.used = w.used /\ x.pd = w.pd /\ x.pte = w.pte
              /\ x.pde = With(w.pde, t, [table |-> a, user |-> user])
          BY <3>1, <4>2, <4>3, SetPdeSound
        <4>5. /\ DOMAIN x.pde = DOMAIN w.pde \cup {t}
              /\ x.pde[t] = [table |-> a, user |-> user]
          BY <4>4 DEF With
        <4>6. \A z \in DOMAIN w.pde : z # t => x.pde[z] = w.pde[z]
          BY <4>4 DEF With
        <4> QED  BY <4>1, <4>4, <4>5, <4>6
      <3>5. user => f \in Own(b, x) /\ Unshared(x, f)
        <4> SUFFICES ASSUME user PROVE f \in Own(b, x) /\ Unshared(x, f)
          OBVIOUS
        <4>1. f \in Own(b, mm) /\ Unshared(mm, f) /\ f # pt
          BY <3>1 DEF Own
        <4>2. f \in Own(b, x)
          BY <3>1, <3>4, <4>1 DEF Own
        <4>3. \A z \in DOMAIN x.pde : x.pde[z].table # f
          BY <3>1, <3>4, <4>1 DEF Unshared
        <4> QED  BY <3>1, <3>4, <4>1, <4>2, <4>3 DEF Unshared, UserPagesOf
      <3>6. /\ Sound(b, y) /\ y.used = x.used /\ y.pd = x.pd /\ y.pde = x.pde
            /\ y.pte = With(x.pte, v, [frame |-> f, user |-> user])
        BY <3>3, <3>4, <3>5, SetPteSound
      <3>7. MapDone(b, mm, v, f, user, y)
        <4>1. Clear(b, mm.used) # {}
          BY <2>2, LowestClearIs DEF Sound
        <4> QED  BY <1>3, <3>1, <3>4, <3>6, <4>1 DEF MapDone
      <3> QED  BY <3>1, <3>4, <3>6, <3>7 DEF Grown
    <2> QED  BY <2>1, <2>2
  <1> QED  BY <1>2, <1>3

-----------------------------------------------------------------------------
(* The boot sequence.                                                      *)

(* How far memory, the heap and the tables reach.                          *)
LEMMA HalfIs == ASSUME NEW k \in Nat
                PROVE  /\ k \div 2 \in Nat /\ (k + 1) \div 2 \in Nat /\ k \div 2 <= (k + 1) \div 2
                       /\ \A n \in Nat : k <= 2 * n => k \div 2 <= n
  OBVIOUS

LEMMA MaxPhysIs ==
    ASSUME NEW b \in BootInfos
    PROVE  MaxPhys(b) \in Nat /\ MaxPhys(b) <= 2 * MAX_FRAMES
  <1> DEFINE ends == {Min({r.end, 2 * MAX_FRAMES}) : r \in E820(b) \cup b.other}
  <1>1. \A r \in E820(b) \cup b.other : r.end \in Nat
    BY Sizes, BootInfosAssumption DEF BootInfosAssumption, E820, Pages
  <1>2. \A r \in E820(b) \cup b.other :
            Min({r.end, 2 * MAX_FRAMES}) \in Nat /\ Min({r.end, 2 * MAX_FRAMES}) <= 2 * MAX_FRAMES
    <2> SUFFICES ASSUME NEW r \in E820(b) \cup b.other
                 PROVE  Min({r.end, 2 * MAX_FRAMES}) \in Nat
                        /\ Min({r.end, 2 * MAX_FRAMES}) <= 2 * MAX_FRAMES
      OBVIOUS
    <2>1. PICK e \in Nat, k \in Nat : e = r.end /\ k = 2 * MAX_FRAMES
      BY <1>1, Sizes
    <2>2. Min({e, k}) \in {e, k} /\ \A y \in {e, k} : Min({e, k}) <= y
      <3>1. {e, k} \in SUBSET Nat /\ {e, k} # {}
        OBVIOUS
      <3> QED  BY <3>1, MinIs
    <2> QED  BY <2>1, <2>2
  <1>3. PICK S : S = {MIN_PHYS * 2} \cup ends
    OBVIOUS
  <1>4. /\ S \in SUBSET Nat /\ S # {} /\ 2 * MAX_FRAMES \in Nat
        /\ \A x \in S : x <= 2 * MAX_FRAMES
    <2>1. MIN_PHYS * 2 \in Nat /\ MIN_PHYS * 2 <= 2 * MAX_FRAMES /\ 2 * MAX_FRAMES \in Nat
      BY Sizes
    <2>2. ASSUME NEW x \in ends  PROVE x \in Nat /\ x <= 2 * MAX_FRAMES
      BY <1>2
    <2> HIDE DEF ends
    <2> QED  BY <1>3, <2>1, <2>2
  <1>5. Max(S) \in S
    BY <1>4, MaxIs
  <1>6. MaxPhys(b) = Max(S)
    BY <1>3 DEF MaxPhys
  <1> QED  BY <1>4, <1>5, <1>6

(* The bitmap has a bit for every frame the kernel counts (pmm.c:103).   *)
LEMMA MaxFrameIs ==
    ASSUME NEW b \in BootInfos
    PROVE  MaxFrame(b) \in Nat /\ MaxFrame(b) <= MAX_FRAMES
  <1>1. PICK k \in Nat : k = MaxPhys(b) /\ k <= 2 * MAX_FRAMES
    BY MaxPhysIs
  <1>2. k \div 2 \in Nat /\ k \div 2 <= MAX_FRAMES
    BY <1>1, HalfIs, Sizes
  <1> QED  BY <1>1, <1>2 DEF MaxFrame

(* The heap ends below the last frame.                                   *)
LEMMA HeapEndIs ==
    ASSUME NEW b \in BootInfos
    PROVE  /\ HeapEnd(b) \in Nat /\ HeapStart <= HeapEnd(b)
           /\ \A v \in HeapStart .. HeapEnd(b) - 1 :
                 /\ v \in Frames /\ v < MaxFrame(b)
                 /\ v \in HeapStart .. HeapStart + HeapPages - 1
  <1>0. PICK h \in Nat : h = HeapStart + HeapPages
    BY Sizes
  <1>1. PICK k \in Nat : k = MaxFrame(b) /\ k <= MAX_FRAMES
    BY MaxFrameIs
  <1>2. PICK l : l = Min({h, k}) /\ l \in Nat /\ l <= h /\ l <= k
    <2>1. {h, k} \in SUBSET Nat /\ {h, k} # {}
      OBVIOUS
    <2> QED  BY <2>1, MinIs
  <1>3. PICK s \in Nat : s = HeapStart
    BY Sizes
  <1>4. Max({s, l}) \in {s, l} /\ Max({s, l}) >= s
    <2>1. {s, l} \in SUBSET Nat /\ {s, l} # {} /\ s + l \in Nat /\ \A x \in {s, l} : x <= s + l
      BY <1>2
    <2> QED  BY <2>1, MaxIs
  <1>5. HeapEnd(b) = Max({s, l})
    BY <1>0, <1>1, <1>2, <1>3 DEF HeapEnd, MaxFrame
  <1>6. ASSUME NEW v \in HeapStart .. HeapEnd(b) - 1
        PROVE  v \in Nat /\ v < l /\ v >= s
    BY <1>2, <1>3, <1>4, <1>5
  <1>7. ASSUME NEW v \in HeapStart .. HeapEnd(b) - 1
        PROVE  /\ v \in Frames /\ v < MaxFrame(b)
               /\ v \in HeapStart .. HeapStart + HeapPages - 1
    <2>1. v \in Nat /\ v < k /\ v < h /\ s <= v
      BY <1>1, <1>0, <1>2, <1>6
    <2> QED  BY <1>0, <1>1, <1>3, <2>1, Sizes DEF Frames
  <1>8. HeapEnd(b) \in Nat /\ HeapStart <= HeapEnd(b)
    BY <1>2, <1>3, <1>4, <1>5
  <1> QED  BY <1>7, <1>8

(* The identity tables reach every frame.                                *)
LEMMA TablesIs ==
    ASSUME NEW b \in BootInfos
    PROVE  /\ IdentityTables(b) \in Nat
           /\ \A v \in Nat : v < MaxFrame(b) =>
                 Table(v) \in 0 .. IdentityTables(b) - 1 /\ v \in PagesOf(Table(v))
  <1>1. PICK c \in Nat, k \in Nat : c = (MaxPhys(b) + 1) \div 2 /\ k = MaxFrame(b) /\ k <= c
    BY MaxPhysIs, HalfIs DEF MaxFrame
  <1>2. PICK a : a = Max({c, FALLBACK}) /\ a \in Nat /\ a >= c
    <2>1. /\ {c, FALLBACK} \in SUBSET Nat /\ {c, FALLBACK} # {} /\ c + FALLBACK \in Nat
          /\ \A x \in {c, FALLBACK} : x <= c + FALLBACK
      BY Sizes
    <2> QED  BY <2>1, MaxIs
  <1>3. PICK P \in Nat : P = PtPages /\ P > 0
    BY Sizes
  <1>4. PICK n \in Nat : n = (a + P - 1) \div P /\ n * P >= a
    BY <1>2, <1>3, RoundedUp
  <1>5. IdentityTables(b) = n
    BY <1>1, <1>2, <1>3, <1>4 DEF IdentityTables
  <1>6. ASSUME NEW v \in Nat, v < k  PROVE v \div P \in 0 .. n - 1 /\ v \in (v \div P) * P .. (v \div P + 1) * P - 1
    <2>1. PICK t \in Nat : t = v \div P /\ t * P <= v /\ v < (t + 1) * P
      BY <1>3, TableOf
    <2>2. v < n * P
      BY <1>1, <1>2, <1>4, <1>6
    <2>3. t < n
      <3> SUFFICES ASSUME t >= n PROVE FALSE
        BY <2>1
      <3>1. t * P >= n * P
        BY <1>3
      <3>2. t * P \in Nat /\ n * P \in Nat
        BY <1>3
      <3> QED  BY <2>1, <2>2, <3>1, <3>2
    <2>4. t * P \in Nat /\ (t + 1) * P \in Nat
      BY <1>3
    <2> QED  BY <2>1, <2>3, <2>4
  <1> QED  BY <1>1, <1>3, <1>5, <1>6 DEF Table, PagesOf

(* What pmm_init lets be handed out is RAM and not reserved.             *)
LEMMA UsableIs ==
    ASSUME NEW b
    PROVE  /\ Usable(b) \subseteq Frames /\ Usable(b) \cap Reserved(b) = {}
           /\ \A f \in Usable(b) : f < MaxFrame(b) /\ \E r \in E820(b) : f \in Inside(r)
  <1> DEFINE ram == UNION {Inside(r) : r \in E820(b)}
  <1>1. Usable(b) = {f \in ram \ Reserved(b) : f < MaxFrame(b)}
    BY DEF Usable
  <1>2. ram \subseteq Frames /\ \A f \in ram : \E r \in E820(b) : f \in Inside(r)
    BY DEF Inside
  <1> HIDE DEF ram
  <1> QED  BY <1>1, <1>2

(* Nothing is mapped yet.                                                *)
LEMMA EmptyMap == ASSUME NEW V PROVE <<>> \in Maps(V) /\ DOMAIN <<>> = {}
  <1>1. <<>> \in Seq(V) /\ Len(<<>>) = 0
    OBVIOUS
  <1>2. <<>> \in [1 .. 0 -> V] /\ DOMAIN <<>> = {}
    BY <1>1
  <1>3. 1 .. 0 \in SUBSET Nat
    OBVIOUS
  <1> QED  BY <1>2, <1>3 DEF Maps

(* pmm_init, and the directory's frame.                                    *)
WithDirectory(b) ==
    LET pd == LowestClear(b, PmmInit(b).used)
    IN  [TakeFrame(PmmInit(b), pd) EXCEPT !.pd = pd]

(* The directory's frame is taken from a sound bitmap.                   *)
LEMMA DirectorySound ==
    ASSUME NEW b \in BootInfos, LowestClear(b, PmmInit(b).used) # NoFrame
    PROVE  Sound(b, WithDirectory(b)) /\ WithDirectory(b).pde = <<>> /\ WithDirectory(b).pte = <<>>
  <1> DEFINE U  == Usable(b)
             pd == LowestClear(b, PmmInit(b).used)
             x  == WithDirectory(b)
  <1>1. PmmInit(b) = [used |-> Frames \ U, free |-> Cardinality(U), pd |-> NoFrame, pde |-> <<>>, pte |-> <<>>]
    BY DEF PmmInit, Usable
  <1>2. Clear(b, Frames \ U) = U
    BY UsableIs DEF Clear
  <1>3. pd = LowestClear(b, Frames \ U) /\ pd # NoFrame
    BY <1>1
  <1>4. pd \in U
    BY <1>2, <1>3, LowestClearIs
  <1>7. Clear(b, (Frames \ U) \cup {pd}) = U \ {pd}
    BY <1>2 DEF Clear
  <1>8. Cardinality(U \ {pd}) = Cardinality(U) - 1
    <2>1. IsFiniteSet(U)
      BY <1>2, ClearIsFinite
    <2> HIDE DEF U, pd
    <2> QED  BY <1>4, <2>1, FS_RemoveElement
  <1>9. Cardinality(U) - 1 \in Nat
    <2>1. Cardinality(U \ {pd}) \in Nat
      BY <1>7, ClearIsFinite
    <2> QED  BY <1>8, <2>1
  <1>5. x = [[PmmInit(b) EXCEPT !.used = @ \cup {pd}, !.free = @ - 1] EXCEPT !.pd = pd]
    BY <1>3 DEF WithDirectory, TakeFrame
  <1>6. pd \in Frames /\ (Frames \ U) \cup {pd} \subseteq Frames /\ NoFrame \in Frames
    BY <1>4, UsableIs, Sizes DEF NoFrame, Frames
  <1>10. PICK W, n, c, e, r :
            /\ W \in SUBSET Frames /\ n \in Nat /\ c \in Nat /\ e \in Frames
            /\ W = (Frames \ U) \cup {pd} /\ c = Cardinality(U) /\ n = c - 1 /\ e = pd
            /\ r = PmmInit(b)
    <2>1. Cardinality(U) \in Nat
      BY <1>2, ClearIsFinite
    <2> QED  BY <1>6, <1>9, <2>1
  <1>11. /\ r \in MemoryRecord /\ r.used \cup {e} = W /\ r.free - 1 = n
         /\ r.pde = <<>> /\ r.pte = <<>>
    <2>1. PICK A \in SUBSET Frames : A = Frames \ U
      OBVIOUS
    <2>2. r = [used |-> A, free |-> c, pd |-> NoFrame, pde |-> <<>>, pte |-> <<>>]
      BY <1>1, <1>10, <2>1
    <2>3. <<>> \in Maps(Pde) /\ <<>> \in Maps(Pte)
      BY EmptyMap
    <2>4. r \in MemoryRecord
      BY <1>6, <1>10, <2>2, <2>3 DEF MemoryRecord
    <2>5. r.used = A /\ r.free = c /\ r.pde = <<>> /\ r.pte = <<>>
      BY <2>2
    <2> QED  BY <1>10, <2>1, <2>4, <2>5
  <1> HIDE DEF pd, x, U
  <1>12. x = [[r EXCEPT !.used = W, !.free = n] EXCEPT !.pd = e]
    BY <1>5, <1>10, <1>11
  <1>13. /\ x \in MemoryRecord /\ x.used = W /\ x.free = n /\ x.pd = e
         /\ x.pde = <<>> /\ x.pte = <<>>
    BY <1>10, <1>11, <1>12 DEF MemoryRecord
  <1>14. DOMAIN x.pde = {} /\ UserPagesOf(x) = {}
    BY <1>13, EmptyMap DEF UserPagesOf
  <1>15. IsFiniteSet(DOMAIN x.pde) /\ IsFiniteSet(UserPagesOf(x))
    BY <1>14, FS_EmptySet
  <1>16. Clear(b, x.used) = U \ {pd} /\ x.free = Cardinality(Clear(b, x.used))
    BY <1>7, <1>8, <1>10, <1>13
  <1>17. x.pd \in Own(b, x)
    BY <1>4, <1>10, <1>13 DEF Own, U
  <1>18. Clear(b, x.used) \subseteq Usable(b)
    BY <1>16 DEF U
  <1>19. Sound(b, x)
    BY <1>13, <1>14, <1>15, <1>16, <1>17, <1>18 DEF Sound
  <1> QED  BY <1>13, <1>19 DEF x

(* Pages none of which is a program's.                                     *)
LEMMA KernelPagesSound ==
    ASSUME NEW b, NEW x, Sound(b, x), NEW p \in Maps(Pte), \A v \in DOMAIN p : ~p[v].user,
           NEW y, y = [x EXCEPT !.pte = p]
    PROVE  Sound(b, y) /\ y.used = x.used /\ y.pd = x.pd /\ y.pde = x.pde /\ y.pte = p
  <1>1. x \in MemoryRecord
    BY DEF Sound
  <1>2. /\ y \in MemoryRecord /\ y.used = x.used /\ y.free = x.free /\ y.pd = x.pd
        /\ y.pde = x.pde /\ y.pte = p
    BY <1>1 DEF MemoryRecord
  <1>3. UserPagesOf(y) = {} /\ IsFiniteSet({})
    BY <1>2, FS_EmptySet DEF UserPagesOf
  <1>4. Own(b, y) = Own(b, x)
    BY <1>2 DEF Own
  <1>5. Sound(b, y)
    BY <1>2, <1>3, <1>4 DEF Sound
  <1> QED  BY <1>2, <1>5

(* Every page is mapped onto itself, and has a table.                      *)
Identical(x) ==
    \A v \in DOMAIN x.pte : x.pte[v] = [frame |-> v, user |-> FALSE] /\ Table(v) \in DOMAIN x.pde

(* A table among the first n is there with its pages, or no frame is left. *)
Tabled(b, x, n) ==
    \A t \in 0 .. n - 1 : /\ t \in DOMAIN x.pde => PagesOf(t) \subseteq DOMAIN x.pte
                          /\ t \notin DOMAIN x.pde => Clear(b, x.used) = {}

(* One step of the loop that maps memory onto itself (paging.c:72).      *)
LEMMA IdentityTableSound ==
    ASSUME NEW b, NEW x, NEW t \in Nat, NEW y, y = IdentityTable(b, x, t),
           Sound(b, x), Identical(x), Tabled(b, x, t), DOMAIN x.pde \subseteq 0 .. t - 1
    PROVE  Sound(b, y) /\ Identical(y) /\ Tabled(b, y, t + 1) /\ DOMAIN y.pde \subseteq 0 .. t
  <1> DEFINE f == LowestClear(b, x.used)
             w == TakeFrame(x, f)
             z == [w EXCEPT !.pde = With(@, t, [table |-> f, user |-> FALSE])]
             p == [v \in DOMAIN x.pte \cup PagesOf(t) |->
                      IF v \in PagesOf(t) THEN [frame |-> v, user |-> FALSE] ELSE x.pte[v]]
  <1>1. CASE f = NoFrame
    <2>1. y = x
      BY <1>1 DEF IdentityTable
    <2>2. Clear(b, x.used) = {}
      BY <1>1, LowestClearIs DEF Sound
    <2>3. t \notin DOMAIN x.pde
      OBVIOUS
    <2>4. Tabled(b, y, t + 1)
      <3>1. \A s \in 0 .. (t + 1) - 1 : s \in 0 .. t - 1 \/ s = t
        OBVIOUS
      <3> QED  BY <2>1, <2>2, <2>3, <3>1 DEF Tabled
    <2> QED  BY <2>1, <2>4
  <1>2. CASE f # NoFrame
    <2>1. /\ Sound(b, w) /\ f \in Own(b, w) /\ Unshared(w, f) /\ x.used \subseteq w.used
          /\ w.pd = x.pd /\ w.pde = x.pde /\ w.pte = x.pte
      BY <1>2, TakeSound
    <2>2. y = [w EXCEPT !.pde = With(@, t, [table |-> f, user |-> FALSE]),
                        !.pte = [v \in DOMAIN @ \cup PagesOf(t) |->
                                    IF v \in PagesOf(t) THEN [frame |-> v, user |-> FALSE] ELSE @[v]]]
      BY <1>2 DEF IdentityTable
    <2> HIDE DEF w
    <2>3. y = [z EXCEPT !.pte = p]
      BY <2>1, <2>2 DEF Sound, MemoryRecord
    <2>4. t \notin DOMAIN w.pde
      BY <2>1
    <2> HIDE DEF z, p, f
    <2>5. /\ Sound(b, z) /\ z.used = w.used /\ z.pd = w.pd /\ z.pte = w.pte
          /\ z.pde = With(w.pde, t, [table |-> f, user |-> FALSE])
      <3>1. z = [w EXCEPT !.pde = With(@, t, [table |-> f, user |-> FALSE])]
        BY DEF z
      <3>2. PICK u \in BOOLEAN : u = FALSE
        OBVIOUS
      <3>3. z = [w EXCEPT !.pde = With(@, t, [table |-> f, user |-> u])]
        BY <3>1, <3>2
      <3>4. /\ Sound(b, z) /\ z.used = w.used /\ z.pd = w.pd /\ z.pte = w.pte
            /\ z.pde = With(w.pde, t, [table |-> f, user |-> u])
        BY <2>1, <2>4, <3>3, SetPdeSound
      <3> QED  BY <3>2, <3>4
    <2>6. PagesOf(t) \subseteq Nat /\ \A v \in PagesOf(t) : Table(v) = t
      <3>1. PICK P \in Nat : P = PtPages /\ P > 0
        BY Sizes
      <3>2. t * P \in Nat /\ (t + 1) * P \in Nat
        BY <3>1
      <3>3. \A v \in t * P .. (t + 1) * P - 1 : v \in Nat /\ v \div P = t
        BY <3>1, <3>2, TableOf
      <3> QED  BY <3>1, <3>3 DEF PagesOf, Table
    <2>7. /\ DOMAIN p = DOMAIN x.pte \cup PagesOf(t)
          /\ \A v \in DOMAIN p : p[v] = [frame |-> v, user |-> FALSE]
      BY DEF p, Identical
    <2>8. p \in Maps(Pte)
      <3>1. DOMAIN x.pte \subseteq Nat
        BY MapsApply DEF Sound, MemoryRecord
      <3>2. DOMAIN p \in SUBSET Nat
        BY <2>6, <2>7, <3>1
      <3>3. p = [v \in DOMAIN p |-> p[v]]
        BY DEF p
      <3>4. \A v \in DOMAIN p : p[v] \in Pte
        <4> SUFFICES ASSUME NEW v \in DOMAIN p PROVE p[v] \in Pte
          OBVIOUS
        <4>1. v \in Nat /\ p[v] = [frame |-> v, user |-> FALSE]
          BY <2>7, <3>2
        <4>2. PICK u \in BOOLEAN : u = FALSE
          OBVIOUS
        <4>3. [frame |-> v, user |-> u] \in Pte
          BY <4>1 DEF Pte
        <4> QED  BY <4>1, <4>2, <4>3
      <3>5. p \in [DOMAIN p -> Pte]
        BY <3>3, <3>4
      <3> QED  BY <3>2, <3>5 DEF Maps
    <2>9. Sound(b, y) /\ y.used = z.used /\ y.pde = z.pde /\ y.pte = p
      <3>1. ASSUME NEW v \in DOMAIN p  PROVE ~p[v].user
        <4>1. p[v] = [frame |-> v, user |-> FALSE]
          BY <2>7
        <4> QED  BY <4>1
      <3> QED  BY <2>3, <2>5, <2>8, <3>1, KernelPagesSound
    <2>10. DOMAIN y.pde = DOMAIN x.pde \cup {t}
      BY <2>1, <2>5, <2>9 DEF With
    <2>11. Identical(y)
      BY <2>6, <2>7, <2>9, <2>10 DEF Identical
    <2>12. Tabled(b, y, t + 1)
      <3> SUFFICES ASSUME NEW s \in 0 .. (t + 1) - 1
                   PROVE  /\ s \in DOMAIN y.pde => PagesOf(s) \subseteq DOMAIN y.pte
                          /\ s \notin DOMAIN y.pde => Clear(b, y.used) = {}
        BY DEF Tabled
      <3>1. CASE s = t
        BY <2>7, <2>9, <2>10, <3>1
      <3>2. CASE s # t
        <4>1. s \in 0 .. t - 1
          BY <3>2
        <4>2. Clear(b, y.used) \subseteq Clear(b, x.used)
          BY <2>1, <2>5, <2>9 DEF Clear
        <4> QED  BY <2>7, <2>9, <2>10, <3>2, <4>1, <4>2 DEF Tabled
      <3> QED  BY <3>1, <3>2
    <2> QED  BY <2>9, <2>10, <2>11, <2>12
  <1> QED  BY <1>1, <1>2

IsTables(h, n, b, x) == h = [t \in 0 .. n |-> IF t = 0 THEN x ELSE IdentityTable(b, h[t - 1], t - 1)]

(* Boot's recursive function over the tables exists.                     *)
LEMMA ThereAreTables ==
    ASSUME NEW b, NEW x, NEW N \in Nat
    PROVE  \E h : IsTables(h, N, b, x)
  <1> DEFINE T == {n \in Nat : ~ \E h : IsTables(h, n, b, x)}
  <1> SUFFICES ASSUME T # {} PROVE FALSE
    OBVIOUS
  <1>1. PICK k \in T : \A y \in T : ~(<<y, k>> \in Less)
    <2>1. T \subseteq Nat
      OBVIOUS
    <2> QED  BY <2>1, LessIsWellFounded, WFMin
  <1>2. CASE k = 0
    <2>1. IsTables([t \in 0 .. 0 |-> x], 0, b, x)
      BY DEF IsTables
    <2> QED  BY <1>2, <2>1
  <1>3. CASE k # 0
    <2>1. k - 1 \in Nat /\ k \in Nat
      BY <1>3
    <2>2. <<k - 1, k>> \in Less
      BY <2>1 DEF Less
    <2>3. PICK h : IsTables(h, k - 1, b, x)
      BY <1>1, <2>1, <2>2
    <2> DEFINE g == [t \in 0 .. k |-> IF t = k THEN IdentityTable(b, h[k - 1], k - 1) ELSE h[t]]
    <2>4. ASSUME NEW t \in 0 .. k
          PROVE  g[t] = IF t = 0 THEN x ELSE IdentityTable(b, g[t - 1], t - 1)
      <3>1. CASE t = k
        <4>1. g[t - 1] = h[k - 1] /\ t # 0
          BY <1>3, <2>1, <3>1
        <4> QED  BY <3>1, <4>1
      <3>2. CASE t # k
        <4>1. t \in 0 .. k - 1
          BY <2>1, <3>2
        <4>2. h[t] = IF t = 0 THEN x ELSE IdentityTable(b, h[t - 1], t - 1)
          BY <2>3, <4>1 DEF IsTables
        <4>3. g[t] = h[t] /\ (t # 0 => g[t - 1] = h[t - 1])
          BY <2>1, <3>2, <4>1
        <4> QED  BY <4>2, <4>3
      <3> QED  BY <3>1, <3>2
    <2>5. IsTables(g, k, b, x)
      BY <2>4 DEF IsTables
    <2> QED  BY <2>5
  <1> QED  BY <1>2, <1>3

(* The whole loop.                                                       *)
LEMMA TablesSound ==
    ASSUME NEW b, NEW x, NEW N \in Nat, NEW h, IsTables(h, N, b, x),
           Sound(b, x), x.pde = <<>>, x.pte = <<>>
    PROVE  Sound(b, h[N]) /\ Identical(h[N]) /\ Tabled(b, h[N], N)
  <1> DEFINE Good(n) == /\ Sound(b, h[n]) /\ Identical(h[n]) /\ Tabled(b, h[n], n)
                        /\ DOMAIN h[n].pde \subseteq 0 .. n - 1
             T == {n \in Nat : n <= N /\ ~Good(n)}
  <1>1. ASSUME T # {} PROVE FALSE
    <2>1. PICK k \in T : \A y \in T : ~(<<y, k>> \in Less)
      <3>1. T \subseteq Nat
        OBVIOUS
      <3> QED  BY <1>1, <3>1, LessIsWellFounded, WFMin
    <2>2. k \in 0 .. N /\ k \in Nat /\ ~Good(k)
      OBVIOUS
    <2>3. h[k] = IF k = 0 THEN x ELSE IdentityTable(b, h[k - 1], k - 1)
      BY <2>2 DEF IsTables
    <2>4. CASE k = 0
      <3>1. DOMAIN x.pde = {} /\ DOMAIN x.pte = {}
        BY EmptyMap
      <3>2. Identical(x) /\ Tabled(b, x, 0)
        BY <3>1 DEF Identical, Tabled
      <3> QED  BY <2>2, <2>3, <2>4, <3>1, <3>2
    <2>5. CASE k # 0
      <3>1. k - 1 \in Nat /\ k - 1 <= N /\ <<k - 1, k>> \in Less
        BY <2>2, <2>5 DEF Less
      <3>2. Good(k - 1)
        BY <2>1, <3>1
      <3>3. PICK t, y, z : t \in Nat /\ y = h[k] /\ z = h[k - 1] /\ t = k - 1 /\ t + 1 = k
        BY <2>2, <3>1
      <3>4. /\ y = IdentityTable(b, z, t) /\ Sound(b, z) /\ Identical(z) /\ Tabled(b, z, t)
            /\ DOMAIN z.pde \subseteq 0 .. t - 1
        BY <2>3, <2>5, <3>2, <3>3
      <3>5. Sound(b, y) /\ Identical(y) /\ Tabled(b, y, t + 1) /\ DOMAIN y.pde \subseteq 0 .. t
        BY <3>3, <3>4, IdentityTableSound
      <3> QED  BY <2>2, <3>3, <3>5
    <2> QED  BY <2>4, <2>5
  <1>2. Good(N)
    BY <1>1
  <1> QED  BY <1>2

(* The framebuffer's pages, one after the other.                           *)
IsMapping(h, lo, hi, b, x) ==
    h = [p \in lo .. hi |-> IF p = lo THEN x ELSE PagingMap(b, h[p - 1], p - 1, p - 1, FALSE)]

(* And its recursive function over the framebuffer's pages.              *)
LEMMA ThereIsAMapping ==
    ASSUME NEW b, NEW x, NEW lo \in Nat, NEW N \in Nat, lo <= N
    PROVE  \E h : IsMapping(h, lo, N, b, x)
  <1> DEFINE T == {n \in Nat : lo <= n /\ ~ \E h : IsMapping(h, lo, n, b, x)}
  <1> SUFFICES ASSUME T # {} PROVE FALSE
    OBVIOUS
  <1>1. PICK k \in T : \A y \in T : ~(<<y, k>> \in Less)
    <2>1. T \subseteq Nat
      OBVIOUS
    <2> QED  BY <2>1, LessIsWellFounded, WFMin
  <1>2. CASE k = lo
    <2>1. IsMapping([p \in lo .. lo |-> x], lo, lo, b, x)
      BY DEF IsMapping
    <2> QED  BY <1>2, <2>1
  <1>3. CASE k # lo
    <2>1. k - 1 \in Nat /\ k \in Nat /\ lo <= k - 1
      BY <1>3
    <2>2. <<k - 1, k>> \in Less
      BY <2>1 DEF Less
    <2>3. PICK h : IsMapping(h, lo, k - 1, b, x)
      BY <1>1, <2>1, <2>2
    <2> DEFINE g == [p \in lo .. k |-> IF p = k THEN PagingMap(b, h[k - 1], k - 1, k - 1, FALSE) ELSE h[p]]
    <2>4. ASSUME NEW p \in lo .. k
          PROVE  g[p] = IF p = lo THEN x ELSE PagingMap(b, g[p - 1], p - 1, p - 1, FALSE)
      <3>1. CASE p = k
        <4>0. k - 1 \in lo .. k /\ k - 1 # k
          BY <2>1
        <4>1. g[p - 1] = h[k - 1] /\ p # lo
          BY <1>3, <3>1, <4>0
        <4> QED  BY <3>1, <4>1
      <3>2. CASE p # k
        <4>1. p \in lo .. k - 1
          BY <2>1, <3>2
        <4>2. h[p] = IF p = lo THEN x ELSE PagingMap(b, h[p - 1], p - 1, p - 1, FALSE)
          BY <2>3, <4>1 DEF IsMapping
        <4>3. g[p] = h[p]
          BY <3>2
        <4>4. ASSUME p # lo  PROVE g[p - 1] = h[p - 1]
          <5>1. p - 1 \in lo .. k /\ p - 1 # k
            BY <2>1, <4>1, <4>4
          <5> QED  BY <5>1
        <4> QED  BY <4>2, <4>3, <4>4
      <3> QED  BY <3>1, <3>2
    <2>5. IsMapping(g, lo, k, b, x)
      BY <2>4 DEF IsMapping
    <2> QED  BY <2>5
  <1> QED  BY <1>2, <1>3

(* One of them: a table is only made where there was none.                 *)
LEMMA MapOntoItself ==
    ASSUME NEW b, NEW x, NEW n \in Nat, NEW v \in Nat, NEW y, y = PagingMap(b, x, v, v, FALSE),
           Sound(b, x), Identical(x), Tabled(b, x, n)
    PROVE  Sound(b, y) /\ Identical(y) /\ Tabled(b, y, n)
  <1>1. PICK u \in BOOLEAN : u = FALSE
    OBVIOUS
  <1>2. y = PagingMap(b, x, v, v, u)
    BY <1>1
  <1>3. /\ Sound(b, y) /\ x.used \subseteq y.used
        /\ MapFails(b, x, v, y) \/ MapDone(b, x, v, v, u, y)
    <2>1. PICK f \in Nat : f = v
      OBVIOUS
    <2>2. y = PagingMap(b, x, v, f, u) /\ (u => f \in Own(b, x) /\ Unshared(x, f))
           /\ u \in BOOLEAN /\ f \in Nat
      BY <1>1, <1>2, <2>1
    <2>3. Sound(b, y)
      BY <2>2, MapSound
    <2>4. Grown(x, y)
      BY <2>2, MapSound
    <2>5. MapFails(b, x, v, y) \/ MapDone(b, x, v, f, u, y)
      BY <2>2, MapSound
    <2> QED  BY <2>1, <2>3, <2>4, <2>5 DEF Grown
  <1>4. CASE MapFails(b, x, v, y)
    BY <1>3, <1>4 DEF MapFails
  <1>5. CASE MapDone(b, x, v, v, u, y)
    <2>1. /\ DOMAIN y.pte = DOMAIN x.pte \cup {v}
          /\ y.pte[v] = [frame |-> v, user |-> FALSE]
      BY <1>1, <1>5 DEF MapDone, With
    <2>2. \A z \in DOMAIN x.pte : z # v => y.pte[z] = x.pte[z]
      BY <1>5 DEF MapDone, With
    <2>3. /\ DOMAIN y.pde = DOMAIN x.pde \cup {Table(v)}
          /\ Table(v) \notin DOMAIN x.pde => Clear(b, x.used) # {}
      BY <1>5 DEF MapDone
    <2>4. Identical(y)
      BY <2>1, <2>2, <2>3 DEF Identical
    <2>5. Clear(b, y.used) \subseteq Clear(b, x.used)
      BY <1>3 DEF Clear
    <2>6. Tabled(b, y, n)
      BY <2>1, <2>3, <2>5 DEF Tabled
    <2> QED  BY <1>3, <2>4, <2>6
  <1> QED  BY <1>3, <1>4, <1>5

(* The whole framebuffer.                                                *)
LEMMA MappingSound ==
    ASSUME NEW b, NEW x, NEW n \in Nat, NEW lo \in Nat, NEW hi \in Nat, lo <= hi,
           NEW h, IsMapping(h, lo, hi, b, x), Sound(b, x), Identical(x), Tabled(b, x, n)
    PROVE  Sound(b, h[hi]) /\ Identical(h[hi]) /\ Tabled(b, h[hi], n)
  <1> DEFINE Good(p) == Sound(b, h[p]) /\ Identical(h[p]) /\ Tabled(b, h[p], n)
             T == {p \in Nat : lo <= p /\ p <= hi /\ ~Good(p)}
  <1>1. ASSUME T # {} PROVE FALSE
    <2>1. PICK k \in T : \A y \in T : ~(<<y, k>> \in Less)
      <3>1. T \subseteq Nat
        OBVIOUS
      <3> QED  BY <1>1, <3>1, LessIsWellFounded, WFMin
    <2>2. k \in lo .. hi /\ k \in Nat /\ ~Good(k)
      OBVIOUS
    <2>3. h[k] = IF k = lo THEN x ELSE PagingMap(b, h[k - 1], k - 1, k - 1, FALSE)
      BY <2>2 DEF IsMapping
    <2>4. CASE k = lo
      BY <2>2, <2>3, <2>4
    <2>5. CASE k # lo
      <3>1. k - 1 \in Nat /\ lo <= k - 1 /\ k - 1 <= hi /\ <<k - 1, k>> \in Less
        BY <2>2, <2>5 DEF Less
      <3>2. Good(k - 1)
        BY <2>1, <3>1
      <3>3. PICK v, y, z : v \in Nat /\ y = h[k] /\ z = h[k - 1] /\ v = k - 1
        BY <3>1
      <3>4. /\ y = PagingMap(b, z, v, v, FALSE)
            /\ Sound(b, z) /\ Identical(z) /\ Tabled(b, z, n)
        BY <2>3, <2>5, <3>2, <3>3
      <3>5. Sound(b, y) /\ Identical(y) /\ Tabled(b, y, n)
        BY <3>3, <3>4, MapOntoItself
      <3> QED  BY <2>2, <3>3, <3>5
    <2> QED  BY <2>4, <2>5
  <1>2. Good(hi)
    BY <1>1
  <1> QED  BY <1>2

(* What kmain leaves: one frame, one use; the heap and everything a table  *)
(* or a program may get is mapped onto itself.                             *)
Mapped(b, mm) ==
    /\ \A v \in DOMAIN mm.pte : mm.pte[v].user \/ mm.pte[v].frame = v
    /\ \A v \in DOMAIN mm.pte : Table(v) \in DOMAIN mm.pde
    /\ \A v \in Usable(b) \cup (HeapStart .. HeapEnd(b) - 1) : v \in DOMAIN mm.pte

(* The memory that kmain leaves to the programs.                         *)
LEMMA BootSound ==
    ASSUME NEW b \in BootInfos
    PROVE  Sound(b, Boot(b)) /\ Mapped(b, Boot(b)) /\ UserPagesOf(Boot(b)) = {}
  <1>1. PICK n \in Nat : n = IdentityTables(b)
    BY TablesIs
  <1>2. PICK x : x = WithDirectory(b)
    OBVIOUS
  <1>3. LowestClear(b, PmmInit(b).used) # NoFrame
    BY EnoughRam DEF EnoughRam
  <1>4. Sound(b, x) /\ x.pde = <<>> /\ x.pte = <<>>
    BY <1>2, <1>3, DirectorySound
  <1>5. PICK h : h = CHOOSE f : IsTables(f, n, b, x)
    OBVIOUS
  <1>6. IsTables(h, n, b, x)
    BY <1>5, ThereAreTables
  <1>7. PICK k : k = h[n]
    OBVIOUS
  <1>8. PagingInitIdentity(b, PmmInit(b), n) = k
    BY <1>2, <1>3, <1>5, <1>7, Zenon DEF PagingInitIdentity, WithDirectory, IsTables
  <1>9. Sound(b, k) /\ Identical(k) /\ Tabled(b, k, n)
    BY <1>4, <1>6, <1>7, TablesSound
  <1>10. PICK y : y = Boot(b) /\ y = MapFramebuffer(b, k)
    BY <1>1, <1>8 DEF Boot
  <1>11. Sound(b, y) /\ Identical(y) /\ Tabled(b, y, n)
    <2>1. CASE b.fb = {}
      BY <1>9, <1>10, <2>1 DEF MapFramebuffer
    <2>2. CASE b.fb # {}
      <3>1. PICK r \in b.fb : /\ r.base \in Nat /\ r.end \in Nat /\ r.base < r.end
                              /\ b.fb = {r}
        BY <2>2, BootInfosAssumption DEF BootInfosAssumption
      <3>2. PICK lo \in Nat, hi \in Nat : lo = r.base \div 2 /\ hi = (r.end + 1) \div 2 /\ lo <= hi
        BY <3>1
      <3>3. Min({q.base \div 2 : q \in b.fb}) = lo
        <4>1. {q.base \div 2 : q \in b.fb} = {lo}
          BY <3>1, <3>2
        <4>2. Min({lo}) \in {lo}
          BY <3>2, MinIs
        <4> QED  BY <4>1, <4>2
      <3>4. Max({(q.end + 1) \div 2 : q \in b.fb}) = hi
        <4>1. {(q.end + 1) \div 2 : q \in b.fb} = {hi}
          BY <3>1, <3>2
        <4>2. {hi} \in SUBSET Nat /\ {hi} # {} /\ \A z \in {hi} : z <= hi
          BY <3>2
        <4>3. Max({hi}) \in {hi}
          BY <3>2, <4>2, MaxIs
        <4> QED  BY <4>1, <4>3
      <3>5. PICK g : g = CHOOSE f : IsMapping(f, lo, hi, b, k)
        OBVIOUS
      <3>6. IsMapping(g, lo, hi, b, k)
        BY <3>2, <3>5, ThereIsAMapping
      <3>7. y = g[hi]
        BY <1>10, <2>2, <3>3, <3>4, <3>5, Zenon DEF MapFramebuffer, IsMapping
      <3> QED  BY <1>9, <3>2, <3>6, <3>7, MappingSound
    <2> QED  BY <2>1, <2>2
  <1>12. \A t \in 0 .. n - 1 : t \in DOMAIN y.pde
    BY <1>1, <1>10, EnoughRam DEF EnoughRam
  <1>13. \A v \in Nat : v < MaxFrame(b) => v \in DOMAIN y.pte
    BY <1>1, <1>11, <1>12, TablesIs DEF Tabled
  <1>14. UserPagesOf(y) = {} /\ \A v \in DOMAIN y.pte : y.pte[v].frame = v
    <2>1. ASSUME NEW v \in DOMAIN y.pte  PROVE ~y.pte[v].user /\ y.pte[v].frame = v
      <3>1. y.pte[v] = [frame |-> v, user |-> FALSE]
        BY <1>11 DEF Identical
      <3> QED  BY <3>1
    <2> QED  BY <2>1 DEF UserPagesOf
  <1>15. \A v \in Usable(b) \cup (HeapStart .. HeapEnd(b) - 1) : v \in Nat /\ v < MaxFrame(b)
    BY UsableIs, HeapEndIs, Sizes
  <1>16. Mapped(b, y)
    BY <1>11, <1>13, <1>14, <1>15 DEF Mapped, Identical
  <1> QED  BY <1>10, <1>11, <1>14, <1>16

(* A page of a program, with the lowest clear frame.                       *)
UserMapped(mm, v, f, y) ==
    /\ y.pte = With(mm.pte, v, [frame |-> f, user |-> TRUE])
    /\ y.pde[Table(v)].user
    /\ \A t \in DOMAIN mm.pde : t \in DOMAIN y.pde /\ (mm.pde[t].user => y.pde[t].user)

NotMapped(b, mm, v, y) ==
    /\ y.pte = mm.pte /\ v \notin DOMAIN y.pte
    /\ Clear(b, y.used) = {}

(* The fields of a user page's entry.                                    *)
LEMMA UserEntry == \A f : [frame |-> f, user |-> TRUE].user /\ [frame |-> f, user |-> TRUE].frame = f
  OBVIOUS

(* map_user_page: a fresh frame under a user page, or none left for a table. *)
LEMMA UserPageSound ==
    ASSUME NEW b \in BootInfos, NEW mm, Sound(b, mm), Mapped(b, mm), NEW v \in Nat,
           NEW f, f = LowestClear(b, mm.used), f # NoFrame,
           NEW y, y = PagingMap(b, TakeFrame(mm, f), v, f, TRUE)
    PROVE  /\ Sound(b, y) /\ Mapped(b, y)
           /\ f \in Usable(b) /\ f \notin mm.used
           /\ NotMapped(b, mm, v, y) \/ UserMapped(mm, v, f, y)
  <1> DEFINE w == TakeFrame(mm, f)
  <1>1. /\ Sound(b, w) /\ f \in Own(b, w) /\ f \notin mm.used /\ Unshared(w, f)
        /\ w.pd = mm.pd /\ w.pde = mm.pde /\ w.pte = mm.pte
    BY TakeSound
  <1> HIDE DEF w
  <1>2. f \in Usable(b) /\ f \in Nat
    BY <1>1, UsableIs, Sizes DEF Own
  <1>3. PICK u \in BOOLEAN : u = TRUE
    OBVIOUS
  <1>4. /\ y = PagingMap(b, w, v, f, u) /\ u \in BOOLEAN
        /\ u => f \in Own(b, w) /\ Unshared(w, f)
    BY <1>1, <1>3 DEF w
  <1>5. Sound(b, y)
    BY <1>1, <1>2, <1>4, MapSound
  <1>6. Grown(w, y)
    BY <1>1, <1>2, <1>4, MapSound
  <1>7. MapFails(b, w, v, y) \/ MapDone(b, w, v, f, u, y)
    BY <1>1, <1>2, <1>4, MapSound
  <1>8. CASE MapFails(b, w, v, y)
    <2>1. y.pte = mm.pte /\ y.pde = mm.pde /\ Clear(b, y.used) = {} /\ Table(v) \notin DOMAIN mm.pde
      BY <1>1, <1>8 DEF MapFails
    <2>2. v \notin DOMAIN y.pte
      BY <2>1 DEF Mapped
    <2>3. Mapped(b, y)
      BY <2>1 DEF Mapped
    <2> QED  BY <1>1, <1>2, <1>5, <2>1, <2>2, <2>3 DEF NotMapped
  <1>9. CASE MapDone(b, w, v, f, u, y)
    <2>1. y.pte = With(mm.pte, v, [frame |-> f, user |-> TRUE])
      BY <1>1, <1>3, <1>9 DEF MapDone
    <2>2. /\ DOMAIN y.pde = DOMAIN mm.pde \cup {Table(v)}
          /\ y.pde[Table(v)].user
      BY <1>1, <1>3, <1>9 DEF MapDone
    <2>3. \A t \in DOMAIN mm.pde : t \in DOMAIN y.pde /\ (mm.pde[t].user => y.pde[t].user)
      BY <1>1, <1>9 DEF MapDone
    <2>4. UserMapped(mm, v, f, y)
      BY <2>1, <2>2, <2>3 DEF UserMapped
    <2>5. DOMAIN y.pte = DOMAIN mm.pte \cup {v} /\ y.pte[v] = [frame |-> f, user |-> TRUE]
      BY <2>1 DEF With
    <2>6. \A z \in DOMAIN mm.pte : z # v => y.pte[z] = mm.pte[z]
      BY <2>1 DEF With
    <2>7. y.pte[v].user
      BY <2>5, UserEntry
    <2>8. \A z \in DOMAIN y.pte : y.pte[z].user \/ y.pte[z].frame = z
      BY <2>5, <2>6, <2>7 DEF Mapped
    <2>9. Mapped(b, y)
      BY <2>2, <2>5, <2>8 DEF Mapped
    <2> QED  BY <1>1, <1>2, <1>5, <2>4, <2>9
  <1> QED  BY <1>7, <1>8, <1>9

-----------------------------------------------------------------------------
(* The inductive invariant.                                                *)

TaskStates == {"unused", "dead", "kernel", "user"}
Names      == {"none"} \cup {p.name : p \in Programs}
Stages     == {"segment", "load", "task", "fault"}

(* Where exec is: the image it read lies in the heap.                      *)
Exec ==
    \/ exec = Idle
    \/ /\ exec \in [pc : Stages, prog : Programs, img : Nat, seg : Nat, page : Nat]
       /\ exec.seg \in DOMAIN exec.prog.segs
       /\ HeapStart <= exec.img /\ exec.img + exec.prog.image <= heap_cur
       /\ exec.pc = "load" => Seg.ok /\ exec.page \in Seg.lo .. Seg.lo + Seg.n
       /\ exec.pc = "fault" => Clear(boot, m.used) = {}

Heap ==
    /\ heap_cur \in Nat /\ HeapStart <= heap_cur /\ heap_cur <= HeapEnd(boot)
    /\ tasks \in [Slots -> [state : TaskStates, prog : Names]]
    /\ DOMAIN bytes = Frames

Inv == boot \in BootInfos /\ Sound(boot, m) /\ Mapped(boot, m) /\ Heap /\ Exec

(* Boot establishes the invariant.                                       *)
LEMMA InitInv == Init => Inv
  <1> SUFFICES ASSUME Init PROVE Inv
    OBVIOUS
  <1>1. boot \in BootInfos /\ m = Boot(boot)
    BY DEF Init
  <1>2. Sound(boot, m) /\ Mapped(boot, m)
    BY <1>1, BootSound
  <1>3. Heap
    <2>1. heap_cur \in Nat /\ HeapStart <= heap_cur /\ heap_cur <= HeapEnd(boot)
      BY <1>1, EnoughRam, SizesAssumption DEF Init, EnoughRam, SizesAssumption
    <2>2. tasks \in [Slots -> [state : TaskStates, prog : Names]]
      BY DEF Init, TaskStates, Names
    <2> QED  BY <2>1, <2>2 DEF Heap, Init
  <1> QED  BY <1>1, <1>2, <1>3 DEF Inv, Exec, Init

(* What is known of the program and the segment being loaded.            *)
LEMMA SegIs ==
    ASSUME Exec, exec # Idle
    PROVE  /\ exec.prog \in Programs /\ exec.pc \in Stages /\ exec.seg \in DOMAIN exec.prog.segs
           /\ exec.img \in Nat /\ exec.seg \in Nat /\ exec.page \in Nat
           /\ exec.prog.segs \in Seq([lo : Nat, n : Nat, f : Nat, off : Nat, ok : BOOLEAN])
           /\ Seg \in [lo : Nat, n : Nat, f : Nat, off : Nat, ok : BOOLEAN]
           /\ Seg.lo \in Nat /\ Seg.n \in Nat /\ Seg.f \in Nat /\ Seg.off \in Nat /\ Seg.f <= Seg.n
           /\ exec.prog.image \in Nat /\ exec.prog.image > 0
  <1> DEFINE S == [lo : Nat, n : Nat, f : Nat, off : Nat, ok : BOOLEAN]
  <1>1. /\ exec \in [pc : Stages, prog : Programs, img : Nat, seg : Nat, page : Nat]
        /\ exec.seg \in DOMAIN exec.prog.segs
    BY DEF Exec
  <1>2. exec.prog \in Programs /\ exec.pc \in Stages /\ exec.img \in Nat /\ exec.seg \in Nat /\ exec.page \in Nat
    BY <1>1
  <1>3. /\ exec.prog.segs \in Seq(S) /\ exec.prog.image \in Nat \ {0}
        /\ \A i \in DOMAIN exec.prog.segs : exec.prog.segs[i].f <= exec.prog.segs[i].n
    BY <1>2, ProgramsAssumption DEF ProgramsAssumption
  <1>4. Seg \in S /\ Seg.f <= Seg.n
    <2>1. PICK q \in Seq(S) : q = exec.prog.segs
      BY <1>3
    <2> HIDE DEF S
    <2>2. PICK i : i = exec.seg /\ i \in 1 .. Len(q)
      BY <1>1, <2>1, LenProperties
    <2>3. q[i] \in S
      BY <2>1, <2>2, ElementOfSeq
    <2> QED  BY <1>1, <1>3, <2>1, <2>2, <2>3 DEF Seg
  <1>5. Seg.lo \in Nat /\ Seg.n \in Nat /\ Seg.f \in Nat /\ Seg.off \in Nat
    BY <1>4
  <1>6. exec.prog.image \in Nat /\ exec.prog.image > 0
    BY <1>3
  <1> QED  BY <1>1, <1>2, <1>3, <1>4, <1>5, <1>6

(* exec has nothing to do.                                               *)
LEMMA IdleIs == exec = Idle <=> exec = [pc |-> "idle"]
  BY DEF Idle

(* exec is at one of its stages.                                         *)
LEMMA NotIdle == ASSUME NEW p \in Stages, Exec, exec.pc = p PROVE exec # Idle
  BY DEF Stages, Idle

(* Each step of exec, of a task's creation and of its end keeps it.      *)
LEMMA ReadFileStep ==
    ASSUME Inv, NEW p \in Programs, ReadFile(p)
    PROVE  Inv'
  <1>1. /\ p.image \in Nat /\ p.image > 0
        /\ p.segs \in Seq([lo : Nat, n : Nat, f : Nat, off : Nat, ok : BOOLEAN])
    BY ProgramsAssumption DEF ProgramsAssumption
  <1>2. /\ heap_cur' = heap_cur + p.image /\ heap_cur + p.image <= HeapEnd(boot)
        /\ UNCHANGED <<boot, m, tasks>>
    BY DEF ReadFile, HasHeap
  <1>3. DOMAIN bytes' = Frames
    BY DEF ReadFile, Written
  <1>4. Heap'
    <2>1. Heap /\ HeapEnd(boot') = HeapEnd(boot)
      BY <1>2 DEF Inv
    <2>2. heap_cur' \in Nat /\ HeapStart <= heap_cur'
      BY <1>1, <1>2, <2>1, Sizes DEF Heap
    <2> QED  BY <1>2, <1>3, <2>1, <2>2 DEF Heap
  <1>5. Exec'
    <2>1. CASE p.header /\ p.segs # <<>>
      <3>1. exec' = [pc |-> "segment", prog |-> p, img |-> heap_cur, seg |-> 1, page |-> 0]
        BY <2>1 DEF ReadFile
      <3>2. exec' \in [pc : Stages, prog : Programs, img : Nat, seg : Nat, page : Nat]
        BY <3>1 DEF Inv, Heap, Stages
      <3>3. exec'.pc = "segment" /\ exec'.prog = p /\ exec'.img = heap_cur /\ exec'.seg = 1
        BY <3>1
      <3>4. 1 \in DOMAIN p.segs
        BY <1>1, <2>1, EmptySeq, LenProperties
      <3>5. HeapStart <= exec'.img /\ exec'.img + exec'.prog.image <= heap_cur'
        BY <1>1, <1>2, <3>3 DEF Inv, Heap
      <3> QED  BY <3>2, <3>3, <3>4, <3>5 DEF Exec
    <2>2. CASE ~(p.header /\ p.segs # <<>>)
      BY <2>2 DEF ReadFile, Exec
    <2> QED  BY <2>1, <2>2
  <1> QED  BY <1>2, <1>4, <1>5 DEF Inv

LEMMA CheckSegmentStep == ASSUME Inv, CheckSegment PROVE Inv'
  <1>1. exec # Idle /\ exec.pc = "segment"
    BY DEF CheckSegment, Idle
  <1>2. /\ exec \in [pc : Stages, prog : Programs, img : Nat, seg : Nat, page : Nat]
        /\ exec.seg \in DOMAIN exec.prog.segs
        /\ HeapStart <= exec.img /\ exec.img + exec.prog.image <= heap_cur
    BY <1>1 DEF Inv, Exec
  <1>3. Seg.lo \in Nat /\ Seg.n \in Nat
    BY <1>1, SegIs DEF Inv
  <1>4. Exec'
    <2>1. CASE Seg.ok
      <3>1. exec' = [exec EXCEPT !.pc = "load", !.page = Seg.lo]
        BY <2>1 DEF CheckSegment
      <3>2. exec' \in [pc : Stages, prog : Programs, img : Nat, seg : Nat, page : Nat]
        BY <1>2, <1>3, <3>1 DEF Stages
      <3>3. /\ exec'.pc = "load" /\ exec'.page = Seg.lo /\ exec'.prog = exec.prog
            /\ exec'.seg = exec.seg /\ exec'.img = exec.img
        BY <1>2, <3>1
      <3>4. Seg' = Seg
        BY <3>3 DEF Seg
      <3>5. exec'.page \in Seg'.lo .. Seg'.lo + Seg'.n
        BY <1>3, <3>3, <3>4
      <3> QED  BY <1>2, <2>1, <3>2, <3>3, <3>4, <3>5 DEF Exec, CheckSegment
    <2>2. CASE ~Seg.ok
      BY <2>2 DEF CheckSegment, Exec
    <2> QED  BY <2>1, <2>2
  <1>5. Heap'
    BY DEF CheckSegment, Inv, Heap
  <1> QED  BY <1>4, <1>5 DEF CheckSegment, Inv

LEMMA CopySegmentStep == ASSUME Inv, CopySegment PROVE Inv'
  <1>1. exec # Idle /\ exec.pc = "load"
    <2>1. exec.pc = "load"
      BY DEF CopySegment
    <2> QED  BY <2>1 DEF Idle
  <1>2. /\ exec \in [pc : Stages, prog : Programs, img : Nat, seg : Nat, page : Nat]
        /\ exec.seg \in DOMAIN exec.prog.segs
        /\ HeapStart <= exec.img /\ exec.img + exec.prog.image <= heap_cur
        /\ exec.prog.segs \in Seq([lo : Nat, n : Nat, f : Nat, off : Nat, ok : BOOLEAN])
    BY <1>1, SegIs DEF Inv, Exec
  <1>3. UNCHANGED <<boot, m, heap_cur, tasks>>
    BY DEF CopySegment
  <1>4. Exec'
    <2>1. CASE exec.seg = Len(exec.prog.segs)
      <3>1. exec' = [exec EXCEPT !.pc = "task"]
        BY <2>1 DEF CopySegment
      <3>2. exec' \in [pc : Stages, prog : Programs, img : Nat, seg : Nat, page : Nat]
        BY <1>2, <3>1 DEF Stages
      <3>3. exec'.pc = "task" /\ exec'.prog = exec.prog /\ exec'.seg = exec.seg /\ exec'.img = exec.img
        BY <1>2, <3>1
      <3> QED  BY <1>2, <1>3, <3>2, <3>3 DEF Exec
    <2>2. CASE exec.seg # Len(exec.prog.segs)
      <3>0. PICK k \in Nat : k = exec.seg + 1
        BY <1>2
      <3>1. exec' = [exec EXCEPT !.pc = "segment", !.seg = k]
        BY <2>2, <3>0 DEF CopySegment
      <3>2. exec' \in [pc : Stages, prog : Programs, img : Nat, seg : Nat, page : Nat]
        BY <1>2, <3>0, <3>1 DEF Stages
      <3>3. /\ exec'.pc = "segment" /\ exec'.prog = exec.prog /\ exec'.seg = exec.seg + 1
            /\ exec'.img = exec.img
        BY <1>2, <3>0, <3>1
      <3>4. exec.seg + 1 \in DOMAIN exec.prog.segs
        BY <1>2, <2>2, LenProperties
      <3> QED  BY <1>2, <1>3, <3>2, <3>3, <3>4 DEF Exec
    <2> QED  BY <2>1, <2>2
  <1>5. DOMAIN bytes' = Frames
    BY DEF CopySegment, Written
  <1>6. Heap'
    BY <1>3, <1>5 DEF Inv, Heap
  <1> QED  BY <1>3, <1>4, <1>6 DEF Inv

LEMMA LoadPageStep == ASSUME Inv, LoadPage PROVE Inv'
  <1> DEFINE f == LowestClear(boot, m.used)
             y == PagingMap(boot, TakeFrame(m, f), exec.page, f, TRUE)
  <1>1. exec # Idle /\ exec.pc = "load"
    BY DEF LoadPage, Idle
  <1>2. /\ exec \in [pc : Stages, prog : Programs, img : Nat, seg : Nat, page : Nat]
        /\ exec.seg \in DOMAIN exec.prog.segs
        /\ HeapStart <= exec.img /\ exec.img + exec.prog.image <= heap_cur
        /\ exec.page \in Nat /\ Seg.lo \in Nat /\ Seg.n \in Nat
        /\ Seg.ok /\ exec.page \in Seg.lo .. Seg.lo + Seg.n
    BY <1>1, SegIs DEF Inv, Exec
  <1>3. UNCHANGED <<boot, heap_cur, tasks>> /\ exec.page < Seg.lo + Seg.n
    BY DEF LoadPage
  <1>4. CASE f = NoFrame
    <2>1. exec' = Idle /\ UNCHANGED <<m, bytes>>
      BY <1>4 DEF LoadPage
    <2> QED  BY <1>3, <2>1 DEF Inv, Heap, Exec
  <1>5. CASE f # NoFrame
    <2>1. /\ m' = y
          /\ IF exec.page \in DOMAIN y.pte
             THEN /\ bytes' = [bytes EXCEPT ![y.pte[exec.page].frame] = {}]
                  /\ exec' = [exec EXCEPT !.page = @ + 1]
             ELSE exec' = [exec EXCEPT !.pc = "fault"] /\ UNCHANGED bytes
      BY <1>5 DEF LoadPage, Outcome
    <2>2. Sound(boot, m) /\ Mapped(boot, m) /\ boot \in BootInfos
      BY DEF Inv
    <2>3. Sound(boot, y)
      BY <1>2, <1>5, <2>2, UserPageSound
    <2>4. Mapped(boot, y)
      BY <1>2, <1>5, <2>2, UserPageSound
    <2>5. NotMapped(boot, m, exec.page, y) \/ UserMapped(m, exec.page, f, y)
      BY <1>2, <1>5, <2>2, UserPageSound
    <2> HIDE DEF y, f
    <2>6. DOMAIN bytes' = Frames
      BY <2>1 DEF Inv, Heap
    <2>7. Exec'
      <3>1. CASE exec.page \in DOMAIN y.pte
        <4>1. exec' = [exec EXCEPT !.page = exec.page + 1]
          BY <2>1, <3>1
        <4>2. exec' \in [pc : Stages, prog : Programs, img : Nat, seg : Nat, page : Nat]
          BY <1>2, <4>1
        <4>3. /\ exec'.pc = "load" /\ exec'.page = exec.page + 1 /\ exec'.prog = exec.prog
              /\ exec'.seg = exec.seg /\ exec'.img = exec.img
          BY <1>1, <1>2, <4>1
        <4>4. Seg' = Seg
          BY <4>3 DEF Seg
        <4>5. exec'.page \in Seg'.lo .. Seg'.lo + Seg'.n
          BY <1>2, <1>3, <4>3, <4>4
        <4> QED  BY <1>2, <1>3, <4>2, <4>3, <4>4, <4>5 DEF Exec
      <3>2. CASE exec.page \notin DOMAIN y.pte
        <4>1. exec' = [exec EXCEPT !.pc = "fault"]
          BY <2>1, <3>2
        <4>2. exec' \in [pc : Stages, prog : Programs, img : Nat, seg : Nat, page : Nat]
          BY <1>2, <4>1 DEF Stages
        <4>3. /\ exec'.pc = "fault" /\ exec'.prog = exec.prog
              /\ exec'.seg = exec.seg /\ exec'.img = exec.img
          BY <1>2, <4>1
        <4>4. Clear(boot, y.used) = {}
          BY <2>5, <3>2 DEF NotMapped, UserMapped, With
        <4> QED  BY <1>2, <1>3, <2>1, <4>2, <4>3, <4>4 DEF Exec
      <3> QED  BY <3>1, <3>2
    <2>8. Heap'
      <3>1. Heap
        BY DEF Inv
      <3>2. /\ boot' = boot /\ heap_cur' = heap_cur /\ tasks' = tasks
            /\ HeapEnd(boot') = HeapEnd(boot)
        BY <1>3
      <3> QED  BY <2>6, <3>1, <3>2 DEF Heap
    <2> QED  BY <1>3, <2>1, <2>2, <2>3, <2>4, <2>7, <2>8 DEF Inv
  <1> QED  BY <1>4, <1>5

(* The slot that task_create takes is one.                               *)
LEMMA FreeSlotIs == FreeSlots # {} => Min(FreeSlots) \in FreeSlots /\ Min(FreeSlots) \in Slots
  <1>1. FreeSlots \in SUBSET Nat /\ FreeSlots \subseteq Slots
    BY Sizes DEF FreeSlots, Slots
  <1> QED  BY <1>1, MinIs

LEMMA SpawnStep == ASSUME Inv, Spawn PROVE Inv'
  <1>1. PICK i \in Slots : tasks' = [tasks EXCEPT ![i] = [state |-> "kernel", prog |-> "none"]]
    BY FreeSlotIs DEF Spawn
  <1>2. tasks' \in [Slots -> [state : TaskStates, prog : Names]]
    BY <1>1 DEF Inv, Heap, TaskStates, Names
  <1>3. heap_cur' = heap_cur + 1 /\ heap_cur + 1 <= HeapEnd(boot) /\ UNCHANGED <<boot, m, bytes, exec>>
    BY DEF Spawn, HasHeap
  <1>4. Heap'
    <2>1. Heap /\ HeapEnd(boot') = HeapEnd(boot)
      BY <1>3 DEF Inv
    <2>2. heap_cur' \in Nat /\ HeapStart <= heap_cur'
      BY <1>3, <2>1, Sizes DEF Heap
    <2> QED  BY <1>2, <1>3, <2>1, <2>2 DEF Heap
  <1>5. Exec'
    BY <1>3 DEF Spawn, Exec
  <1> QED  BY <1>3, <1>4, <1>5 DEF Inv

LEMMA UserExitStep == ASSUME Inv, NEW i \in Slots, UserExit(i) PROVE Inv'
  <1>1. tasks' = [tasks EXCEPT ![i].state = "dead"] /\ UNCHANGED <<boot, m, bytes, heap_cur, exec>>
    BY DEF UserExit
  <1>2. tasks' \in [Slots -> [state : TaskStates, prog : Names]]
    BY <1>1 DEF Inv, Heap, TaskStates
  <1>3. Heap'
    BY <1>1, <1>2 DEF Inv, Heap
  <1>4. Exec'
    BY <1>1 DEF Inv, Exec, Seg
  <1> QED  BY <1>1, <1>3, <1>4 DEF Inv

(* What map_user_stack returns, by what became of the two allocations.     *)
StackMap(v, f, y, s) ==
    \/ f = NoFrame /\ s.m = m /\ ~s.ok /\ s.pc = "idle"
    \/ f # NoFrame /\ v \notin DOMAIN y.pte /\ s.m = y /\ ~s.ok /\ s.pc = "fault"
    \/ f # NoFrame /\ v \in DOMAIN y.pte /\ s.m = y /\ s.ok /\ s.pc = "idle"

(* It returns one of these.                                              *)
LEMMA StackIs ==
    ASSUME NEW v, NEW f, f = LowestClear(boot, m.used),
           NEW y, y = PagingMap(boot, TakeFrame(m, f), v, f, TRUE)
    PROVE  StackMap(v, f, y, MapUserStack(v))
  <1>1. ASSUME f = NoFrame
        PROVE  MapUserStack(v).m = m /\ ~MapUserStack(v).ok /\ MapUserStack(v).pc = "idle"
    <2>1. MapUserStack(v) = [m |-> m, ok |-> FALSE, pc |-> "idle"]
      BY <1>1 DEF MapUserStack
    <2> QED  BY <2>1
  <1>2. ASSUME f # NoFrame, v \notin DOMAIN y.pte
        PROVE  MapUserStack(v).m = y /\ ~MapUserStack(v).ok /\ MapUserStack(v).pc = "fault"
    <2>1. MapUserStack(v) = [m |-> y, ok |-> FALSE, pc |-> "fault"]
      BY <1>2 DEF MapUserStack
    <2> QED  BY <2>1
  <1>3. ASSUME f # NoFrame, v \in DOMAIN y.pte
        PROVE  MapUserStack(v).m = y /\ MapUserStack(v).ok /\ MapUserStack(v).pc = "idle"
    <2>1. MapUserStack(v) = [m |-> y, ok |-> TRUE, pc |-> "idle"]
      BY <1>3 DEF MapUserStack
    <2> QED  BY <2>1
  <1> QED  BY <1>1, <1>2, <1>3 DEF StackMap

(* task_create_user, by the same cases; the last maps the user stack.      *)
Created(i, v, f, y) ==
    /\ i \in Slots /\ v \in Nat /\ v = StackTop - i /\ v >= MAX_FRAMES
    /\ f = LowestClear(boot, m.used)
    /\ y = PagingMap(boot, TakeFrame(m, f), v, f, TRUE)
    /\ heap_cur' = heap_cur + 1 /\ heap_cur + 1 <= HeapEnd(boot) /\ boot' = boot
    /\ \/ f = NoFrame /\ m' = m /\ exec' = Idle /\ UNCHANGED <<bytes, tasks>>
       \/ /\ f # NoFrame /\ m' = y /\ v \notin DOMAIN y.pte
          /\ exec' = [exec EXCEPT !.pc = "fault"] /\ UNCHANGED <<bytes, tasks>>
       \/ /\ f # NoFrame /\ m' = y /\ v \in DOMAIN y.pte /\ exec' = Idle
          /\ bytes' = [bytes EXCEPT ![y.pte[v].frame] = {}]
          /\ tasks' = [tasks EXCEPT ![i] = [state |-> "user", prog |-> exec.prog.name]]

(* task_create_user gives up, or does what Created says.                 *)
LEMMA CreateCases ==
    ASSUME Inv, TaskCreateUser
    PROVE  \/ exec' = Idle /\ UNCHANGED <<boot, m, bytes, heap_cur, tasks>>
           \/ \E i, v, f, y : Created(i, v, f, y)
  <1>1. CASE FreeSlots = {} \/ ~HasHeap(1)
    BY <1>1 DEF TaskCreateUser
  <1>2. CASE ~(FreeSlots = {} \/ ~HasHeap(1))
    <2>1. PICK i \in Slots : i = Min(FreeSlots)
      BY <1>2, FreeSlotIs
    <2>2. PICK v \in Nat : v = StackTop - i /\ v >= MAX_FRAMES
      BY <2>1, Sizes DEF Slots
    <2>3. PICK f : f = LowestClear(boot, m.used)
      OBVIOUS
    <2>4. PICK y : y = PagingMap(boot, TakeFrame(m, f), v, f, TRUE)
      OBVIOUS
    <2>5. PICK s : s = MapUserStack(v)
      OBVIOUS
    <2>6. /\ heap_cur' = heap_cur + 1 /\ heap_cur + 1 <= HeapEnd(boot) /\ boot' = boot
          /\ m' = s.m
          /\ IF s.ok
             THEN /\ bytes' = [bytes EXCEPT ![s.m.pte[v].frame] = {}]
                  /\ tasks' = [tasks EXCEPT ![i] = [state |-> "user", prog |-> exec.prog.name]]
             ELSE UNCHANGED <<bytes, tasks>>
          /\ exec' = IF s.pc = "fault" THEN [exec EXCEPT !.pc = "fault"] ELSE Idle
      BY <1>2, <2>1, <2>2, <2>5 DEF TaskCreateUser, HasHeap
    <2>7. StackMap(v, f, y, s)
      BY <2>3, <2>4, <2>5, StackIs
    <2>8. Created(i, v, f, y)
      <3>1. CASE f = NoFrame
        BY <2>2, <2>3, <2>4, <2>6, <2>7, <3>1 DEF StackMap, Created
      <3>2. CASE f # NoFrame /\ v \notin DOMAIN y.pte
        BY <2>2, <2>3, <2>4, <2>6, <2>7, <3>2 DEF StackMap, Created
      <3>3. CASE f # NoFrame /\ v \in DOMAIN y.pte
        BY <2>2, <2>3, <2>4, <2>6, <2>7, <3>3 DEF StackMap, Created
      <3> QED  BY <3>1, <3>2, <3>3
    <2> QED  BY <2>1, <2>2, <2>8
  <1> QED  BY <1>1, <1>2

LEMMA TaskCreateUserStep == ASSUME Inv, TaskCreateUser PROVE Inv'
  <1>1. CASE exec' = Idle /\ UNCHANGED <<boot, m, bytes, heap_cur, tasks>>
    <2>1. Heap' /\ Exec'
      BY <1>1 DEF Inv, Heap, Exec
    <2> QED  BY <1>1, <2>1 DEF Inv
  <1>2. CASE ~(exec' = Idle /\ UNCHANGED <<boot, m, bytes, heap_cur, tasks>>)
    <2>1. PICK i, v, f, y :
                /\ i \in Slots /\ v \in Nat /\ v = StackTop - i /\ v >= MAX_FRAMES
                /\ f = LowestClear(boot, m.used)
                /\ y = PagingMap(boot, TakeFrame(m, f), v, f, TRUE)
                /\ heap_cur' = heap_cur + 1 /\ heap_cur + 1 <= HeapEnd(boot) /\ boot' = boot
                /\ \/ f = NoFrame /\ m' = m /\ exec' = Idle /\ UNCHANGED <<bytes, tasks>>
                   \/ /\ f # NoFrame /\ m' = y /\ v \notin DOMAIN y.pte
                      /\ exec' = [exec EXCEPT !.pc = "fault"] /\ UNCHANGED <<bytes, tasks>>
                   \/ /\ f # NoFrame /\ m' = y /\ v \in DOMAIN y.pte /\ exec' = Idle
                      /\ bytes' = [bytes EXCEPT ![y.pte[v].frame] = {}]
                      /\ tasks' = [tasks EXCEPT ![i] = [state |-> "user", prog |-> exec.prog.name]]
      BY <1>2, CreateCases DEF Created
    <2>2. Heap /\ Exec /\ HeapEnd(boot') = HeapEnd(boot) /\ exec # Idle
      BY <2>1 DEF Inv, TaskCreateUser, Idle
    <2>3. heap_cur' \in Nat /\ HeapStart <= heap_cur' /\ heap_cur' <= HeapEnd(boot')
      BY <2>1, <2>2, Sizes DEF Heap
    <2>4. DOMAIN bytes' = Frames
      BY <2>1, <2>2 DEF Heap
    <2>5. tasks' \in [Slots -> [state : TaskStates, prog : Names]]
      <3>1. exec.prog.name \in Names /\ "user" \in TaskStates
        BY <2>2, SegIs DEF Names, TaskStates
      <3>2. [state |-> "user", prog |-> exec.prog.name] \in [state : TaskStates, prog : Names]
        BY <3>1
      <3> QED  BY <2>1, <2>2, <3>2 DEF Heap
    <2>6. Heap'
      BY <2>3, <2>4, <2>5 DEF Heap
    <2>7. CASE f = NoFrame
      BY <2>1, <2>6, <2>7 DEF Inv, Exec
    <2>8. CASE f # NoFrame
      <3>1. Sound(boot, m) /\ Mapped(boot, m) /\ boot \in BootInfos /\ m' = y
        BY <2>1, <2>8 DEF Inv
      <3>2. Sound(boot, y)
        BY <2>1, <2>8, <3>1, UserPageSound
      <3>3. Mapped(boot, y)
        BY <2>1, <2>8, <3>1, UserPageSound
      <3>4. NotMapped(boot, m, v, y) \/ UserMapped(m, v, f, y)
        BY <2>1, <2>8, <3>1, UserPageSound
      <3>5. Exec'
        <4>1. CASE exec' = Idle
          BY <4>1 DEF Exec
        <4>2. CASE exec' # Idle
          <5>1. v \notin DOMAIN y.pte /\ exec' = [exec EXCEPT !.pc = "fault"]
            BY <2>1, <2>8, <4>2
          <5>2. Clear(boot, y.used) = {}
            BY <3>4, <5>1 DEF NotMapped, UserMapped, With
          <5>3. /\ exec \in [pc : Stages, prog : Programs, img : Nat, seg : Nat, page : Nat]
                /\ exec.seg \in DOMAIN exec.prog.segs
                /\ HeapStart <= exec.img /\ exec.img + exec.prog.image <= heap_cur
                /\ exec.prog.image \in Nat
            BY <2>2, SegIs DEF Exec
          <5>4. /\ exec' \in [pc : Stages, prog : Programs, img : Nat, seg : Nat, page : Nat]
                /\ exec'.pc = "fault" /\ exec'.prog = exec.prog
                /\ exec'.seg = exec.seg /\ exec'.img = exec.img
            BY <5>1, <5>3 DEF Stages
          <5>5. exec'.img + exec'.prog.image <= heap_cur'
            BY <2>1, <2>2, <5>3, <5>4 DEF Heap
          <5> QED  BY <2>1, <3>1, <5>2, <5>3, <5>4, <5>5 DEF Exec
        <4> QED  BY <4>1, <4>2
      <3> QED  BY <2>1, <2>6, <3>1, <3>2, <3>3, <3>5 DEF Inv
    <2> QED  BY <2>7, <2>8
  <1> QED  BY <1>1, <1>2

(* The bookkeeping of frames, tables and heap holds in every state.        *)
THEOREM Invariance == Spec => []Inv
  <1>1. Inv /\ [Next]_vars => Inv'
    <2> SUFFICES ASSUME Inv, [Next]_vars PROVE Inv'
      OBVIOUS
    <2>1. CASE \E p \in Programs : ReadFile(p)
      BY <2>1, ReadFileStep
    <2>2. CASE CheckSegment
      BY <2>2, CheckSegmentStep
    <2>3. CASE LoadPage
      BY <2>3, LoadPageStep
    <2>4. CASE CopySegment
      BY <2>4, CopySegmentStep
    <2>5. CASE TaskCreateUser
      BY <2>5, TaskCreateUserStep
    <2>6. CASE Spawn
      BY <2>6, SpawnStep
    <2>7. CASE \E i \in Slots : UserExit(i)
      BY <2>7, UserExitStep
    <2>8. CASE UNCHANGED vars
      <3>1. Heap' /\ Exec'
        BY <2>8 DEF vars, Inv, Heap, Exec, Seg
      <3> QED  BY <2>8, <3>1 DEF vars, Inv
    <2> QED  BY <2>1, <2>2, <2>3, <2>4, <2>5, <2>6, <2>7, <2>8 DEF Next
  <1> QED  BY <1>1, InitInv, PTL DEF Spec

-----------------------------------------------------------------------------
(* Frames.                                                                 *)

LEMMA ImageSize ==
    ASSUME NEW S, IsFiniteSet(S), NEW g, g = [x \in S |-> g[x]],
           \A x, y \in S : g[x] = g[y] => x = y
    PROVE  LET T == {g[x] : x \in S}
           IN  IsFiniteSet(T) /\ Cardinality(T) = Cardinality(S)
  <1> DEFINE T == {g[x] : x \in S}
  <1>1. g \in [S -> T]
    OBVIOUS
  <1>2. g \in Bijection(S, T)
    BY <1>1 DEF Bijection, Injection, IsInjective, Surjection
  <1>3. ExistsBijection(S, T)
    BY <1>2 DEF ExistsBijection
  <1> HIDE DEF T
  <1>4. IsFiniteSet(T) /\ Cardinality(T) = Cardinality(S)
    BY <1>3, FS_Bijection
  <1> QED  BY <1>4 DEF T

(* The frames handed out, counted by what they are for.                    *)
LEMMA TakenIs ==
    ASSUME NEW b, NEW mm, Sound(b, mm)
    PROVE  LET tables == {mm.pde[t].table : t \in DOMAIN mm.pde}
               pages  == {mm.pte[v].frame : v \in UserPagesOf(mm)}
           IN  /\ Cardinality({mm.pd} \cup tables \cup pages)
                     = 1 + Cardinality(DOMAIN mm.pde) + Cardinality(UserPagesOf(mm))
               /\ {mm.pd} \cup tables \cup pages \subseteq Own(b, mm)
  <1> DEFINE tables == {mm.pde[t].table : t \in DOMAIN mm.pde}
             pages  == {mm.pte[v].frame : v \in UserPagesOf(mm)}
             g == [t \in DOMAIN mm.pde |-> mm.pde[t].table]
             h == [v \in UserPagesOf(mm) |-> mm.pte[v].frame]
             D == DOMAIN mm.pde
             U == UserPagesOf(mm)
  <1>1. IsFiniteSet(tables) /\ Cardinality(tables) = Cardinality(D)
    <2>1. IsFiniteSet(D) /\ \A x, y \in D : g[x] = g[y] => x = y
      BY DEF Sound
    <2>2. g = [x \in D |-> g[x]]
      OBVIOUS
    <2>3. tables = {g[x] : x \in D}
      OBVIOUS
    <2> HIDE DEF g, D, tables
    <2> QED  BY <2>1, <2>2, <2>3, ImageSize
  <1>2. IsFiniteSet(pages) /\ Cardinality(pages) = Cardinality(U)
    <2>1. IsFiniteSet(U) /\ \A x, y \in U : h[x] = h[y] => x = y
      BY DEF Sound
    <2>2. h = [x \in U |-> h[x]]
      OBVIOUS
    <2>3. pages = {h[x] : x \in U}
      OBVIOUS
    <2> HIDE DEF h, U, pages
    <2> QED  BY <2>1, <2>2, <2>3, ImageSize
  <1>3. mm.pd \notin tables /\ tables \cap pages = {} /\ mm.pd \notin pages
    BY DEF Sound
  <1>4. {mm.pd} \cup tables \cup pages \subseteq Own(b, mm)
    BY DEF Sound
  <1>5. Cardinality({mm.pd} \cup tables \cup pages) = 1 + Cardinality(D) + Cardinality(U)
    <2> HIDE DEF tables, pages, D, U, g, h
    <2>1. IsFiniteSet({mm.pd}) /\ Cardinality({mm.pd}) = 1
      BY FS_Singleton
    <2>2. /\ IsFiniteSet(tables \cup pages)
          /\ Cardinality(tables \cup pages)
                = Cardinality(tables) + Cardinality(pages) - Cardinality(tables \cap pages)
      BY <1>1, <1>2, FS_Union
    <2>3. Cardinality(tables \cap pages) = 0
      BY <1>3, FS_EmptySet
    <2>4. /\ Cardinality(tables) \in Nat /\ Cardinality(pages) \in Nat
      BY <1>1, <1>2, FS_CardinalityType
    <2>5. mm.pd \notin tables \cup pages
      BY <1>3
    <2>6. PICK X : X = (tables \cup pages) \cup {mm.pd} /\ X = {mm.pd} \cup tables \cup pages
      OBVIOUS
    <2>7. Cardinality(X) = Cardinality(tables \cup pages) + 1
      BY <2>2, <2>5, <2>6, FS_AddElement
    <2>8. /\ Cardinality(tables \cup pages) = Cardinality(D) + Cardinality(U)
          /\ Cardinality(D) \in Nat /\ Cardinality(U) \in Nat
      BY <1>1, <1>2, <2>2, <2>3, <2>4
    <2>9. Cardinality(X) = 1 + Cardinality(D) + Cardinality(U)
      BY <2>7, <2>8
    <2> QED  BY <2>6, <2>9
  <1> QED  BY <1>4, <1>5

(* No frame handed out touches the framebuffer or the kernel's memory.   *)
LEMMA UsableIsKept ==
    ASSUME NEW b \in BootInfos, NEW f \in Usable(b)
    PROVE  /\ \E r \in E820(b) : r.base <= 2 * f /\ 2 * f + 2 <= r.end
           /\ \A r \in b.fb \cup {Pages(0, HeapStart + HeapPages)} : f \notin Touched(r)
  <1>1. f \in Frames /\ f \in Nat /\ f \notin Reserved(b) /\ \E r \in E820(b) : f \in Inside(r)
    BY UsableIs, Sizes
  <1>2. \E r \in E820(b) : r.base <= 2 * f /\ 2 * f + 2 <= r.end
    BY <1>1 DEF Inside
  <1> DEFINE R == {Pages(0, LowTop), Pages(LowTop, HeapStart),
                   Pages(HeapStart, HeapStart + HeapPages)} \cup b.fb
  <1>3. \A r \in R : f \notin Touched(r)
    BY <1>1 DEF Reserved
  <1>4. f \notin Touched(Pages(0, HeapStart + HeapPages))
    <2>1. /\ f \notin Touched(Pages(0, LowTop)) /\ f \notin Touched(Pages(LowTop, HeapStart))
          /\ f \notin Touched(Pages(HeapStart, HeapStart + HeapPages))
      BY <1>3
    <2> HIDE DEF R
    <2> QED  BY <1>1, <2>1, Sizes DEF Touched, Pages
  <1> QED  BY <1>2, <1>3, <1>4

(* No frame has two uses, none is outside usable RAM or in a range the     *)
(* kernel keeps, and the counter of free frames agrees with the bitmap:    *)
(* for every memory map, through boot, page tables made on demand and      *)
(* loads that fail half way (pmm.c:146, paging.c:17, elf.c:126).           *)
THEOREM FramesHaveOneUse == Spec => []FramesAreAccountedFor
  <1>1. Inv => FramesAreAccountedFor
    <2> SUFFICES ASSUME Inv PROVE FramesAreAccountedFor
      OBVIOUS
    <2> DEFINE taken == TableFrames \cup {Translate(v) : v \in UserPages}
    <2>1. boot \in BootInfos /\ Sound(boot, m)
      BY DEF Inv
    <2>2. /\ TableFrames = {m.pd} \cup {m.pde[t].table : t \in DOMAIN m.pde}
          /\ UserPages = UserPagesOf(m)
          /\ {Translate(v) : v \in UserPages} = {m.pte[v].frame : v \in UserPagesOf(m)}
      BY DEF TableFrames, UserPages, UserPagesOf, Translate
    <2>3. /\ Cardinality(taken) = 1 + Cardinality(DOMAIN m.pde) + Cardinality(UserPages)
          /\ taken \subseteq Own(boot, m)
      BY <2>1, <2>2, TakenIs
    <2> HIDE DEF taken
    <2>4. taken \subseteq m.used /\ taken \subseteq Usable(boot)
      BY <2>3 DEF Own
    <2>5. /\ \A f \in taken : \E r \in E820(boot) : r.base <= 2 * f /\ 2 * f + 2 <= r.end
          /\ \A r \in boot.fb \cup {Pages(0, HeapStart + HeapPages)} : taken \cap Touched(r) = {}
      BY <2>1, <2>4, UsableIsKept
    <2>6. m.free = Cardinality({f \in Frames \ m.used : f < MaxFrame(boot)})
      BY <2>1 DEF Sound, Clear
    <2> QED  BY <2>3, <2>4, <2>5, <2>6 DEF FramesAreAccountedFor, taken
  <1> QED  BY <1>1, Invariance, PTL

(* Every variable keeps its range.                                         *)
THEOREM TypesHold == Spec => []TypeOK
  <1>1. Inv => TypeOK
    <2> SUFFICES ASSUME Inv PROVE TypeOK
      OBVIOUS
    <2>1. boot \in BootInfos /\ Sound(boot, m) /\ Heap /\ Exec
      BY DEF Inv
    <2>2. m.used \subseteq Frames /\ m.free \in Nat /\ m.pde \in Maps(Pde) /\ m.pte \in Maps(Pte)
      BY <2>1 DEF Sound, MemoryRecord
    <2>3. m.free <= MAX_FRAMES
      <3>1. IsFiniteSet(Frames) /\ Cardinality(Frames) = MAX_FRAMES
        BY Sizes, FS_Interval DEF Frames
      <3>2. Clear(boot, m.used) \subseteq Frames
        BY DEF Clear
      <3>3. Cardinality(Clear(boot, m.used)) <= Cardinality(Frames)
        BY <3>1, <3>2, FS_Subset
      <3> QED  BY <2>1, <3>1, <3>3 DEF Sound
    <2>4. Own(boot, m) \subseteq Frames \ {NoFrame}
      BY LowFrameIsReserved, UsableIs DEF Own
    <2>5. m.pd \in Frames \ {NoFrame} /\ \A t \in DOMAIN m.pde : m.pde[t].table \in Frames \ {NoFrame}
      BY <2>1, <2>4 DEF Sound
    <2>6. ASSUME NEW t \in DOMAIN m.pde  PROVE m.pde[t].user \in BOOLEAN
      <3>1. m.pde[t] \in Pde
        BY <2>2, MapsApply
      <3> QED  BY <3>1 DEF Pde
    <2>7. ASSUME NEW v \in DOMAIN m.pte  PROVE m.pte[v].user \in BOOLEAN
      <3>1. m.pte[v] \in Pte
        BY <2>2, MapsApply
      <3> QED  BY <3>1 DEF Pte
    <2>8. \A v \in DOMAIN m.pte : m.pte[v].user => m.pte[v].frame \in Frames
      BY <2>1, <2>4 DEF Sound, UserPagesOf
    <2>9. heap_cur \in HeapStart .. HeapEnd(boot)
      BY <2>1, HeapEndIs, Sizes DEF Heap
    <2>10. \A i \in Slots : tasks[i].state \in {"unused", "dead", "kernel", "user"}
      BY <2>1 DEF Heap, TaskStates
    <2>11. exec.pc \in {"idle", "segment", "load", "task", "fault"}
      BY <2>1 DEF Exec, Idle, Stages
    <2>12. m.free \in 0 .. MAX_FRAMES
      BY <2>2, <2>3, Sizes
    <2> QED  BY <2>1, <2>2, <2>5, <2>6, <2>7, <2>8, <2>9, <2>10, <2>11, <2>12 DEF TypeOK
  <1> QED  BY <1>1, Invariance, PTL

-----------------------------------------------------------------------------
(* The page tables are reached through their physical addresses: what may  *)
(* become a table stays mapped onto itself, provided that programs are     *)
(* linked below the end of the heap or above physical memory.  The linker  *)
(* script of the applications does (apps/hello.ld:4); elf.c does not check.*)

LinkedApart ==
    \A p \in Programs : \A i \in DOMAIN p.segs :
        \A v \in p.segs[i].lo .. p.segs[i].lo + p.segs[i].n - 1 :
            v < HeapStart + HeapPages \/ v >= MAX_FRAMES

Owned(b, mm) == \A f \in Usable(b) : f \in DOMAIN mm.pte /\ ~mm.pte[f].user

(* No user page is put over a frame the allocator hands out.             *)
LEMMA OwnedStays ==
    ASSUME NEW b, NEW mm, Owned(b, mm), NEW v, v \notin Usable(b), NEW f, NEW y,
           NotMapped(b, mm, v, y) \/ UserMapped(mm, v, f, y)
    PROVE  Owned(b, y)
  <1>1. CASE NotMapped(b, mm, v, y)
    BY <1>1 DEF NotMapped, Owned
  <1>2. CASE UserMapped(mm, v, f, y)
    <2>1. DOMAIN mm.pte \subseteq DOMAIN y.pte
      BY <1>2 DEF UserMapped, With
    <2>2. \A z \in DOMAIN mm.pte : z # v => y.pte[z] = mm.pte[z]
      BY <1>2 DEF UserMapped, With
    <2> QED  BY <2>1, <2>2 DEF Owned
  <1> QED  BY <1>1, <1>2

(* A page outside the allocator's range is over none of its frames.      *)
LEMMA UsableLies ==
    ASSUME NEW b \in BootInfos, NEW v \in Nat, v < HeapStart + HeapPages \/ v >= MAX_FRAMES
    PROVE  v \notin Usable(b)
  <1>1. v \in Usable(b) => v \in Frames /\ v \notin Touched(Pages(0, HeapStart + HeapPages))
    BY UsableIs, UsableIsKept
  <1>2. v \in Frames => v < MAX_FRAMES
    BY Sizes DEF Frames
  <1>3. v \in Frames /\ v < HeapStart + HeapPages => v \in Touched(Pages(0, HeapStart + HeapPages))
    BY Sizes DEF Touched, Pages
  <1> QED  BY <1>1, <1>2, <1>3, Sizes

(* paging_map can write whatever frame it gets for a table.              *)
LEMMA OwnedInvariant ==
    ASSUME LinkedApart
    PROVE  Spec => []Owned(boot, m)
  <1>1. Init => Owned(boot, m)
    <2> SUFFICES ASSUME Init PROVE Owned(boot, m)
      OBVIOUS
    <2>1. boot \in BootInfos /\ m = Boot(boot)
      BY DEF Init
    <2>2. Mapped(boot, m) /\ UserPagesOf(m) = {}
      BY <2>1, BootSound
    <2> QED  BY <2>2 DEF Owned, Mapped, UserPagesOf
  <1>2. Inv /\ Owned(boot, m) /\ [Next]_vars => Owned(boot, m)'
    <2> SUFFICES ASSUME Inv, Owned(boot, m), [Next]_vars PROVE Owned(boot, m)'
      OBVIOUS
    <2>1. CASE UNCHANGED <<boot, m>>
      BY <2>1
    <2>2. CASE LoadPage
      <3>1. exec # Idle /\ exec.pc = "load"
        BY <2>2 DEF LoadPage, Idle
      <3>2. /\ exec.prog \in Programs /\ exec.seg \in DOMAIN exec.prog.segs
            /\ exec.page \in Nat /\ Seg.lo \in Nat /\ Seg.n \in Nat
            /\ exec.page \in Seg.lo .. Seg.lo + Seg.n /\ exec.page < Seg.lo + Seg.n
        BY <2>2, <3>1, SegIs DEF Inv, Exec, LoadPage
      <3>3. exec.page \in Seg.lo .. Seg.lo + Seg.n - 1
        BY <3>2
      <3>4. exec.page < HeapStart + HeapPages \/ exec.page >= MAX_FRAMES
        BY <3>2, <3>3, LinkedApart DEF LinkedApart, Seg
      <3>5. exec.page \notin Usable(boot)
        BY <3>2, <3>4, UsableLies DEF Inv
      <3>6. PICK v, f, y : /\ v \in Nat /\ v = exec.page /\ f = LowestClear(boot, m.used)
                            /\ y = PagingMap(boot, TakeFrame(m, f), v, f, TRUE)
        BY <3>2
      <3>7. CASE f = NoFrame
        BY <2>1, <2>2, <3>6, <3>7 DEF LoadPage
      <3>8. CASE f # NoFrame
        <4>1. m' = y /\ boot' = boot
          BY <2>2, <3>6, <3>8 DEF LoadPage
        <4>2. NotMapped(boot, m, v, y) \/ UserMapped(m, v, f, y)
          BY <3>6, <3>8, UserPageSound DEF Inv
        <4> QED  BY <3>5, <3>6, <4>1, <4>2, OwnedStays
      <3> QED  BY <3>7, <3>8
    <2>3. CASE TaskCreateUser
      <3>1. CASE exec' = Idle /\ UNCHANGED <<boot, m, bytes, heap_cur, tasks>>
        BY <2>1, <3>1
      <3>2. CASE ~(exec' = Idle /\ UNCHANGED <<boot, m, bytes, heap_cur, tasks>>)
        <4>1. PICK i, v, f, y : Created(i, v, f, y)
          BY <2>3, <3>2, CreateCases
        <4>2. /\ v \in Nat /\ v >= MAX_FRAMES /\ f = LowestClear(boot, m.used) /\ boot' = boot
              /\ y = PagingMap(boot, TakeFrame(m, f), v, f, TRUE)
              /\ m' = m \/ (f # NoFrame /\ m' = y)
          BY <4>1 DEF Created
        <4>3. CASE m' = m
          BY <2>1, <4>2, <4>3
        <4>4. CASE f # NoFrame /\ m' = y
          <5>1. NotMapped(boot, m, v, y) \/ UserMapped(m, v, f, y)
            BY <4>1, <4>2, <4>4, UserPageSound DEF Inv
          <5>2. v \notin Usable(boot)
            BY <4>1, <4>2, UsableLies DEF Inv
          <5> QED  BY <4>2, <4>4, <5>1, <5>2, OwnedStays
        <4> QED  BY <4>2, <4>3, <4>4
      <3> QED  BY <3>1, <3>2
    <2>4. CASE \/ \E p \in Programs : ReadFile(p)
               \/ CheckSegment \/ CopySegment \/ Spawn
               \/ \E i \in Slots : UserExit(i)
               \/ UNCHANGED vars
      <3>1. UNCHANGED <<boot, m>>
        BY <2>4 DEF ReadFile, CheckSegment, CopySegment, Spawn, UserExit, vars
      <3> QED  BY <2>1, <3>1
    <2> QED  BY <2>2, <2>3, <2>4 DEF Next
  <1> QED  BY <1>1, <1>2, Invariance, PTL DEF Spec

(* paging_map writes its tables where it means to, however many programs   *)
(* are loaded over one another, and a write through a fresh mapping faults *)
(* only when no frame was left for its table (paging.c:18, 29 and 45): for *)
(* every set of programs that LinkedApart holds of.                        *)
THEOREM WritesLand ==
    ASSUME LinkedApart
    PROVE  Spec => []KernelWritesLand
  <1>1. Inv /\ Owned(boot, m) => KernelWritesLand
    <2> SUFFICES ASSUME Inv, Owned(boot, m) PROVE KernelWritesLand
      OBVIOUS
    <2>1. boot \in BootInfos /\ Sound(boot, m) /\ Mapped(boot, m) /\ Exec
      BY DEF Inv
    <2>2. TableFrames \subseteq Usable(boot)
      BY <2>1 DEF TableFrames, Sound, Own
    <2>3. \A f \in TableFrames : f \in DOMAIN m.pte /\ Translate(f) = f /\ ~m.pte[f].user
      BY <2>1, <2>2 DEF Owned, Mapped, Translate
    <2>4. ASSUME exec.pc = "fault"  PROVE m.free = 0
      <3>1. Clear(boot, m.used) = {}
        BY <2>1, <2>4 DEF Exec, Idle
      <3> QED  BY <2>1, <3>1, FS_EmptySet DEF Sound
    <2> QED  BY <2>3, <2>4 DEF KernelWritesLand
  <1> QED  BY <1>1, OwnedInvariant, Invariance, PTL

-----------------------------------------------------------------------------
(* What is loaded.                                                         *)

Image == exec.img .. exec.img + exec.prog.image - 1
Clean ==
    /\ exec.pc \in {"segment", "load", "task"}
    /\ SegmentsApart(exec.prog) /\ SegPages(exec.prog) \cap Image = {}

PagesIn(s) == s.lo .. s.lo + s.n - 1
Copied(i)  == exec.pc = "task" \/ i < exec.seg

(* Page v of segment i has been mapped, and what it then holds.            *)
Loaded(i, v) == Copied(i) \/ (i = exec.seg /\ exec.pc = "load" /\ v < exec.page)
Holds(i, v) ==
    LET s == exec.prog.segs[i]
    IN  IF Copied(i) /\ v < s.lo + s.f THEN {<<exec.prog.name, s.off + v - s.lo>>} ELSE {}

ImageHeld == \A v \in Image : bytes[Translate(v)] = {<<exec.prog.name, v - exec.img>>}
PagesHeld ==
    \A i \in DOMAIN exec.prog.segs : \A v \in PagesIn(exec.prog.segs[i]) :
        Loaded(i, v) => /\ v \in UserPagesOf(m) /\ m.pde[Table(v)].user
                        /\ bytes[Translate(v)] = Holds(i, v)

Content == Clean => ImageHeld /\ PagesHeld

(* The heap's pages and the programs'.                                     *)
Kept == (HeapStart .. HeapEnd(boot) - 1) \cup UserPagesOf(m)

(* Pages of the heap and of programs have frames of their own.           *)
LEMMA KeptIsApart ==
    ASSUME Inv
    PROVE  /\ \A v \in Kept : v \in DOMAIN m.pte /\ Translate(v) \in Frames
           /\ \A v, w \in Kept : Translate(v) = Translate(w) => v = w
           /\ \A v \in Kept, f \in Usable(boot) : f \notin m.used => Translate(v) # f
  <1>1. boot \in BootInfos /\ Sound(boot, m) /\ Mapped(boot, m)
    BY DEF Inv
  <1>2. ASSUME NEW v \in Kept  PROVE v \in DOMAIN m.pte
    BY <1>1 DEF Kept, Mapped, UserPagesOf
  <1>3. ASSUME NEW v \in UserPagesOf(m)
        PROVE  Translate(v) \in Usable(boot) /\ Translate(v) \in m.used /\ Translate(v) \in Frames
    BY <1>1, UsableIs DEF Translate, Sound, Own
  <1>4. ASSUME NEW v \in Kept, v \notin UserPagesOf(m)
        PROVE  Translate(v) = v /\ v \in Frames /\ v \notin Usable(boot)
    <2>1. v \in HeapStart .. HeapEnd(boot) - 1 /\ v \in DOMAIN m.pte
      BY <1>2, <1>4 DEF Kept
    <2>2. v \in Frames /\ v \in Nat /\ v < HeapStart + HeapPages
      BY <1>1, <2>1, HeapEndIs, Sizes
    <2>3. Translate(v) = v
      BY <1>1, <1>4, <2>1 DEF Mapped, UserPagesOf, Translate
    <2> QED  BY <1>1, <2>2, <2>3, UsableLies
  <1>5. ASSUME NEW v \in Kept, NEW w \in Kept, Translate(v) = Translate(w)  PROVE v = w
    <2>1. CASE v \in UserPagesOf(m) /\ w \in UserPagesOf(m)
      BY <1>1, <1>5, <2>1 DEF Sound, Translate
    <2>2. CASE v \notin UserPagesOf(m) /\ w \notin UserPagesOf(m)
      BY <1>4, <1>5, <2>2
    <2>3. CASE v \in UserPagesOf(m) /\ w \notin UserPagesOf(m)
      BY <1>3, <1>4, <1>5, <2>3
    <2>4. CASE v \notin UserPagesOf(m) /\ w \in UserPagesOf(m)
      BY <1>3, <1>4, <1>5, <2>4
    <2> QED  BY <2>1, <2>2, <2>3, <2>4
  <1>6. ASSUME NEW v \in Kept, NEW f \in Usable(boot), f \notin m.used  PROVE Translate(v) # f
    BY <1>3, <1>4, <1>6
  <1>7. ASSUME NEW v \in Kept  PROVE Translate(v) \in Frames
    BY <1>3, <1>4
  <1> QED  BY <1>2, <1>5, <1>6, <1>7

(* The image lies in the heap.                                           *)
LEMMA ImageIsKept ==
    ASSUME Inv, exec # Idle
    PROVE  /\ Image \subseteq Kept
           /\ \A i \in DOMAIN exec.prog.segs : \A v \in PagesIn(exec.prog.segs[i]) :
                 v \in SegPages(exec.prog)
  <1>1. /\ HeapStart <= exec.img /\ exec.img + exec.prog.image <= heap_cur /\ heap_cur <= HeapEnd(boot)
        /\ heap_cur \in Nat /\ exec.img \in Nat /\ exec.prog.image \in Nat /\ boot \in BootInfos
    BY SegIs DEF Inv, Exec, Heap
  <1>2. HeapEnd(boot) \in Nat
    BY <1>1, HeapEndIs
  <1>3. Image \subseteq HeapStart .. HeapEnd(boot) - 1
    BY <1>1, <1>2, Sizes DEF Image
  <1>4. \A i \in DOMAIN exec.prog.segs : \A v \in PagesIn(exec.prog.segs[i]) : v \in SegPages(exec.prog)
    BY DEF PagesIn, SegPages
  <1> QED  BY <1>3, <1>4 DEF Kept

(* A write reaches the page it names, and no other that is kept.           *)
LEMMA WriteReaches ==
    ASSUME Inv, NEW vs \in SUBSET Kept
    PROVE  /\ \A v \in vs : (CHOOSE w \in vs : Translate(w) = Translate(v)) = v
           /\ \A v \in Kept : v \notin vs => ~ \E w \in vs : Translate(w) = Translate(v)
  <1>1. \A v, w \in Kept : Translate(v) = Translate(w) => v = w
    BY KeptIsApart
  <1>2. ASSUME NEW v \in vs  PROVE (CHOOSE w \in vs : Translate(w) = Translate(v)) = v
    <2>1. PICK c : c = CHOOSE w \in vs : Translate(w) = Translate(v)
      OBVIOUS
    <2>2. c \in vs /\ Translate(c) = Translate(v)
      BY <2>1
    <2> QED  BY <1>1, <2>1, <2>2
  <1> QED  BY <1>1, <1>2

(* What was read, and what was loaded, stays so in each step.            *)
LEMMA ReadFileHolds ==
    ASSUME Inv, NEW p \in Programs, ReadFile(p)
    PROVE  Content'
  <1> SUFFICES ASSUME Clean' PROVE ImageHeld' /\ PagesHeld'
    BY DEF Content
  <1> DEFINE img == heap_cur .. heap_cur + p.image - 1
  <1>1. exec' = [pc |-> "segment", prog |-> p, img |-> heap_cur, seg |-> 1, page |-> 0]
    <2>1. exec' # Idle
      BY DEF Clean, Idle
    <2> QED  BY <2>1 DEF ReadFile
  <1>2. /\ exec'.pc = "segment" /\ exec'.prog = p /\ exec'.img = heap_cur /\ exec'.seg = 1
    BY <1>1
  <1>3. UNCHANGED <<boot, m>> /\ heap_cur + p.image <= HeapEnd(boot)
    BY DEF ReadFile, HasHeap
  <1>4. /\ heap_cur \in Nat /\ p.image \in Nat /\ HeapStart <= heap_cur /\ HeapEnd(boot) \in Nat
        /\ HeapStart \in Nat
    BY ProgramsAssumption, HeapEndIs, Sizes DEF ProgramsAssumption, Inv, Heap
  <1>5. img \in SUBSET Kept
    BY <1>3, <1>4 DEF Kept
  <1>6. bytes' = [g \in Frames |->
                    IF \E v \in img : Translate(v) = g
                    THEN {<<p.name, (CHOOSE v \in img : Translate(v) = g) - heap_cur>>}
                    ELSE bytes[g]]
    BY DEF ReadFile, Written
  <1>7. Image' = img
    BY <1>2 DEF Image
  <1>8. ImageHeld'
    <2> SUFFICES ASSUME NEW v \in img
                 PROVE  bytes'[Translate(v)'] = {<<exec'.prog.name, v - exec'.img>>}
      BY <1>7 DEF ImageHeld
    <2> HIDE DEF img
    <2>1. Translate(v)' = Translate(v)
      BY <1>3 DEF Translate
    <2>2. Translate(v) \in Frames /\ (CHOOSE w \in img : Translate(w) = Translate(v)) = v
      BY <1>5, KeptIsApart, WriteReaches
    <2>3. bytes'[Translate(v)] = {<<p.name, v - heap_cur>>}
      BY <1>6, <2>2
    <2> QED  BY <1>2, <2>1, <2>3
  <1>9. PagesHeld'
    <2> SUFFICES ASSUME NEW i \in DOMAIN exec'.prog.segs PROVE ~(i < 1)
      BY <1>2 DEF PagesHeld, Loaded, Copied
    <2>1. p.segs \in Seq([lo : Nat, n : Nat, f : Nat, off : Nat, ok : BOOLEAN])
      BY ProgramsAssumption DEF ProgramsAssumption
    <2>2. i \in 1 .. Len(p.segs)
      BY <1>2, <2>1, LenProperties
    <2> QED  BY <2>2
  <1> QED  BY <1>8, <1>9

LEMMA CheckSegmentHolds ==
    ASSUME Inv, Content, CheckSegment
    PROVE  Content'
  <1> SUFFICES ASSUME Clean' PROVE ImageHeld' /\ PagesHeld'
    BY DEF Content
  <1>1. exec # Idle /\ exec.pc = "segment"
    BY DEF CheckSegment, Idle
  <1>2. exec \in [pc : Stages, prog : Programs, img : Nat, seg : Nat, page : Nat]
    BY <1>1 DEF Inv, Exec
  <1>3. exec' = [exec EXCEPT !.pc = "load", !.page = Seg.lo]
    <2>1. exec' # Idle
      BY DEF Clean, Idle
    <2> QED  BY <2>1 DEF CheckSegment
  <1>4. /\ exec'.pc = "load" /\ exec'.page = Seg.lo /\ exec'.prog = exec.prog
        /\ exec'.seg = exec.seg /\ exec'.img = exec.img
    BY <1>2, <1>3
  <1>5. UNCHANGED <<boot, m, bytes>>
    BY DEF CheckSegment
  <1>6. Image' = Image /\ Clean
    BY <1>1, <1>4 DEF Image, Clean
  <1>7. ImageHeld /\ PagesHeld
    BY <1>6 DEF Content
  <1>8. ImageHeld'
    BY <1>4, <1>5, <1>6, <1>7 DEF ImageHeld, Translate
  <1>9. PagesHeld'
    <2> SUFFICES ASSUME NEW i \in DOMAIN exec.prog.segs, NEW v \in PagesIn(exec.prog.segs[i]), Loaded(i, v)'
                 PROVE  /\ v \in UserPagesOf(m) /\ m.pde[Table(v)].user
                        /\ bytes[Translate(v)] = Holds(i, v)'
      BY <1>4, <1>5 DEF PagesHeld, Translate
    <2>1. i < exec.seg
      <3>1. ~(i = exec.seg /\ v < Seg.lo)
        <4>1. Seg.lo \in Nat /\ Seg.n \in Nat
          BY <1>1, SegIs DEF Inv
        <4>2. i = exec.seg => v \in Seg.lo .. Seg.lo + Seg.n - 1
          BY DEF PagesIn, Seg
        <4> QED  BY <4>1, <4>2
      <3> QED  BY <1>4, <3>1 DEF Loaded, Copied
    <2>2. Loaded(i, v)
      BY <2>1 DEF Loaded, Copied
    <2>3. Holds(i, v)' = Holds(i, v)
      BY <1>1, <1>4 DEF Holds, Copied
    <2> QED  BY <1>7, <2>2, <2>3 DEF PagesHeld
  <1> QED  BY <1>8, <1>9

LEMMA LoadPageHolds ==
    ASSUME Inv, Content, LoadPage
    PROVE  Content'
  <1> SUFFICES ASSUME Clean' PROVE ImageHeld' /\ PagesHeld'
    BY DEF Content
  <1>1. exec # Idle /\ exec.pc = "load"
    BY DEF LoadPage, Idle
  <1>2. /\ exec \in [pc : Stages, prog : Programs, img : Nat, seg : Nat, page : Nat]
        /\ exec.seg \in DOMAIN exec.prog.segs /\ exec.page \in Nat
        /\ Seg.lo \in Nat /\ Seg.n \in Nat /\ exec.seg \in Nat
        /\ exec.page \in Seg.lo .. Seg.lo + Seg.n /\ exec.page < Seg.lo + Seg.n
    BY <1>1, SegIs DEF Inv, Exec, LoadPage
  <1>3. PICK u, f, y : /\ u \in Nat /\ u = exec.page /\ f = LowestClear(boot, m.used)
                        /\ y = PagingMap(boot, TakeFrame(m, f), u, f, TRUE)
    BY <1>2
  <1>4. /\ f # NoFrame /\ m' = y /\ boot' = boot /\ u \in DOMAIN y.pte
        /\ bytes' = [bytes EXCEPT ![y.pte[u].frame] = {}]
        /\ exec' = [exec EXCEPT !.page = u + 1]
    <2>1. exec' # Idle /\ exec'.pc # "fault"
      BY DEF Clean, Idle
    <2>2. exec' # [exec EXCEPT !.pc = "fault"]
      BY <1>2, <2>1
    <2> QED  BY <1>3, <2>1, <2>2 DEF LoadPage, Outcome
  <1>5. /\ exec'.pc = "load" /\ exec'.page = u + 1 /\ exec'.prog = exec.prog
        /\ exec'.seg = exec.seg /\ exec'.img = exec.img
    BY <1>1, <1>2, <1>4
  <1>6. f \in Usable(boot) /\ f \notin m.used /\ (NotMapped(boot, m, u, y) \/ UserMapped(m, u, f, y))
    BY <1>3, <1>4, UserPageSound DEF Inv
  <1>7. UserMapped(m, u, f, y)
    BY <1>4, <1>6 DEF NotMapped
  <1>8. /\ DOMAIN y.pte = DOMAIN m.pte \cup {u} /\ y.pte[u] = [frame |-> f, user |-> TRUE]
        /\ y.pde[Table(u)].user
        /\ \A t \in DOMAIN m.pde : t \in DOMAIN y.pde /\ (m.pde[t].user => y.pde[t].user)
    BY <1>7 DEF UserMapped, With
  <1>9. \A z \in DOMAIN m.pte : z # u => y.pte[z] = m.pte[z]
    BY <1>7 DEF UserMapped, With
  <1>10. y.pte[u].user /\ y.pte[u].frame = f
    BY <1>8, UserEntry
  <1>11. ASSUME NEW v \in Kept, v # u
         PROVE  /\ Translate(v)' = Translate(v) /\ bytes'[Translate(v)'] = bytes[Translate(v)]
                /\ v \in UserPagesOf(m) => v \in UserPagesOf(m')
    <2>1. v \in DOMAIN m.pte /\ Translate(v) \in Frames /\ Translate(v) # f
      BY <1>6, <1>11, KeptIsApart
    <2>2. y.pte[v] = m.pte[v]
      BY <1>9, <1>11, <2>1
    <2>3. Translate(v)' = Translate(v)
      BY <1>4, <2>2 DEF Translate
    <2>4. bytes' = [bytes EXCEPT ![f] = {}] /\ DOMAIN bytes = Frames
      BY <1>4, <1>10 DEF Inv, Heap
    <2>5. bytes'[Translate(v)] = bytes[Translate(v)]
      BY <2>1, <2>4
    <2> QED  BY <1>4, <1>8, <2>1, <2>2, <2>3, <2>5 DEF UserPagesOf
  <1>12. Image' = Image /\ Clean
    BY <1>1, <1>5 DEF Image, Clean
  <1>13. ImageHeld /\ PagesHeld
    BY <1>12 DEF Content
  <1>14. u \in PagesIn(Seg) /\ PagesIn(Seg) = PagesIn(exec.prog.segs[exec.seg])
    BY <1>2, <1>3 DEF PagesIn, Seg
  <1>15. ImageHeld'
    <2> SUFFICES ASSUME NEW v \in Image
                 PROVE  bytes'[Translate(v)'] = {<<exec.prog.name, v - exec.img>>}
      BY <1>5, <1>12 DEF ImageHeld
    <2>1. v \in Kept
      BY <1>1, ImageIsKept
    <2>2. u \in SegPages(exec.prog)
      BY <1>1, <1>2, <1>14, ImageIsKept
    <2>3. v # u
      BY <1>12, <2>2 DEF Clean
    <2> QED  BY <1>11, <1>13, <2>1, <2>3 DEF ImageHeld
  <1>16. PagesHeld'
    <2> SUFFICES ASSUME NEW i \in DOMAIN exec.prog.segs, NEW v \in PagesIn(exec.prog.segs[i]), Loaded(i, v)'
                 PROVE  /\ v \in UserPagesOf(m') /\ m'.pde[Table(v)].user
                        /\ bytes'[Translate(v)'] = Holds(i, v)'
      BY <1>5 DEF PagesHeld
    <2>1. Holds(i, v)' = Holds(i, v)
      BY <1>1, <1>5 DEF Holds, Copied
    <2>2. CASE v = u
      <3>1. i = exec.seg
        <4>1. SegmentsApart(exec.prog)
          BY <1>12 DEF Clean
        <4>2. PICK s : s = exec.prog.segs[exec.seg]
          OBVIOUS
        <4>3. u \in s.lo .. s.lo + s.n - 1
          BY <1>14, <4>2 DEF PagesIn
        <4>4. s.lo <= u /\ u < s.lo + s.n
          BY <1>2, <4>2, <4>3 DEF Seg
        <4>5. i # exec.seg => ~(s.lo <= u /\ u < s.lo + s.n)
          BY <1>2, <2>2, <4>1, <4>2 DEF SegmentsApart, PagesIn
        <4> QED  BY <4>4, <4>5
      <3>2. Holds(i, v) = {}
        <4>1. ~Copied(i)
          BY <1>1, <1>2, <3>1 DEF Copied
        <4> QED  BY <4>1 DEF Holds
      <3>3. Translate(u)' = f
        BY <1>4, <1>10 DEF Translate
      <3>4. bytes'[f] = {}
        <4>1. f \in Frames /\ DOMAIN bytes = Frames
          BY <1>6, UsableIs DEF Inv, Heap
        <4> QED  BY <1>4, <1>10, <4>1
      <3>5. u \in UserPagesOf(m')
        BY <1>4, <1>8, <1>10 DEF UserPagesOf
      <3> QED  BY <1>4, <1>8, <2>1, <2>2, <3>2, <3>3, <3>4, <3>5
    <2>3. CASE v # u
      <3>1. Loaded(i, v)
        <4>1. CASE i < exec.seg
          BY <4>1 DEF Loaded, Copied
        <4>2. CASE ~(i < exec.seg)
          <5>1. i = exec.seg /\ v < u + 1
            BY <1>5, <4>2 DEF Loaded, Copied
          <5>2. v \in Nat
            <6>1. v \in PagesIn(Seg)
              BY <1>14, <5>1
            <6> QED  BY <1>2, <6>1 DEF PagesIn
          <5>3. v < exec.page
            BY <1>3, <2>3, <5>1, <5>2
          <5> QED  BY <1>1, <5>1, <5>3 DEF Loaded
        <4> QED  BY <4>1, <4>2
      <3>2. v \in UserPagesOf(m) /\ m.pde[Table(v)].user /\ bytes[Translate(v)] = Holds(i, v)
        BY <1>13, <3>1 DEF PagesHeld
      <3>3. v \in Kept /\ Table(v) \in DOMAIN m.pde
        BY <3>2 DEF Kept, Inv, Mapped, UserPagesOf
      <3> QED  BY <1>4, <1>8, <1>11, <2>1, <2>3, <3>2, <3>3
    <2> QED  BY <2>2, <2>3
  <1> QED  BY <1>15, <1>16

(* An index of a sequence.                                               *)
LEMMA IndexIs ==
    ASSUME NEW S, NEW q \in Seq(S), NEW i \in DOMAIN q
    PROVE  i \in Nat /\ 1 <= i /\ i <= Len(q) /\ Len(q) \in Nat
  BY LenProperties

LEMMA CopySegmentHolds ==
    ASSUME Inv, Content, CopySegment
    PROVE  Content'
  <1> SUFFICES ASSUME Clean' PROVE ImageHeld' /\ PagesHeld'
    BY DEF Content
  <1> DEFINE target == Seg.lo .. Seg.lo + Seg.f - 1
             source(v) == Translate(exec.img + Seg.off + v - Seg.lo)
  <1>1. exec # Idle /\ exec.pc = "load"
    <2>1. exec.pc = "load"
      BY DEF CopySegment
    <2> QED  BY <2>1 DEF Idle
  <1>2. /\ exec \in [pc : Stages, prog : Programs, img : Nat, seg : Nat, page : Nat]
        /\ exec.seg \in DOMAIN exec.prog.segs /\ exec.page \in Nat /\ exec.img \in Nat
        /\ Seg.lo \in Nat /\ Seg.n \in Nat /\ Seg.f \in Nat /\ Seg.off \in Nat /\ Seg.f <= Seg.n
        /\ exec.seg \in Nat /\ exec.prog.image \in Nat /\ Seg.ok
        /\ exec.prog.segs \in Seq([lo : Nat, n : Nat, f : Nat, off : Nat, ok : BOOLEAN])
    BY <1>1, SegIs DEF Inv, Exec
  <1>3. Seg.off + Seg.f <= exec.prog.image
    BY <1>2, ProgramsAssumption DEF ProgramsAssumption, Seg
  <1>4. UNCHANGED <<boot, m>> /\ exec.page = Seg.lo + Seg.n
    BY DEF CopySegment
  <1>5. bytes' = [g \in Frames |->
                    IF \E v \in target : Translate(v) = g
                    THEN bytes[Translate(CHOOSE v \in target : Translate(v) = g)]
                         \cup bytes[source(CHOOSE v \in target : Translate(v) = g)]
                    ELSE bytes[g]]
    BY DEF CopySegment, Written
  <1>6. /\ exec'.prog = exec.prog /\ exec'.img = exec.img
        /\ \A i \in DOMAIN exec.prog.segs :
              /\ Copied(i)' <=> i <= exec.seg
              /\ \A v : Loaded(i, v)' <=> Copied(i)'
    <2>1. \A i \in DOMAIN exec.prog.segs : i \in Nat /\ i <= Len(exec.prog.segs)
      BY <1>2, IndexIs
    <2>2. CASE exec.seg = Len(exec.prog.segs)
      <3>1. exec' = [exec EXCEPT !.pc = "task"]
        BY <2>2 DEF CopySegment
      <3>2. exec'.pc = "task" /\ exec'.prog = exec.prog /\ exec'.img = exec.img /\ exec'.seg = exec.seg
        BY <1>2, <3>1
      <3>3. ASSUME NEW i \in DOMAIN exec.prog.segs
            PROVE  (Copied(i)' <=> i <= exec.seg) /\ (\A v : Loaded(i, v)' <=> Copied(i)')
        <4>1. Copied(i)' /\ i <= exec.seg
          BY <2>1, <2>2, <3>2 DEF Copied
        <4> QED  BY <4>1 DEF Loaded
      <3> QED  BY <3>2, <3>3
    <2>3. CASE exec.seg # Len(exec.prog.segs)
      <3>1. exec' = [exec EXCEPT !.pc = "segment", !.seg = @ + 1]
        BY <2>3 DEF CopySegment
      <3>2. /\ exec'.pc = "segment" /\ exec'.prog = exec.prog /\ exec'.img = exec.img
            /\ exec'.seg = exec.seg + 1
        BY <1>2, <3>1
      <3>3. ASSUME NEW i \in DOMAIN exec.prog.segs
            PROVE  (Copied(i)' <=> i <= exec.seg) /\ (\A v : Loaded(i, v)' <=> Copied(i)')
        <4>1. i \in Nat /\ exec.seg \in Nat
          BY <1>2, <2>1
        <4>2. Copied(i)' <=> i < exec.seg + 1
          BY <3>2 DEF Copied
        <4>3. ASSUME NEW v  PROVE Loaded(i, v)' <=> Copied(i)'
          BY <3>2 DEF Loaded
        <4> QED  BY <4>1, <4>2, <4>3
      <3> QED  BY <3>2, <3>3
    <2> QED  BY <2>2, <2>3
  <1>7. Image' = Image /\ Clean
    BY <1>1, <1>6 DEF Image, Clean
  <1>8. ImageHeld /\ PagesHeld
    BY <1>7 DEF Content
  <1>0. PICK lo \in Nat, n \in Nat, c \in Nat, off \in Nat :
          lo = Seg.lo /\ n = Seg.n /\ c = Seg.f /\ off = Seg.off /\ c <= n
    BY <1>2
  <1>9. /\ target \subseteq PagesIn(exec.prog.segs[exec.seg])
        /\ \A v \in PagesIn(exec.prog.segs[exec.seg]) : v \in Nat /\ Seg.lo <= v /\ v < Seg.lo + Seg.n
        /\ \A v \in PagesIn(exec.prog.segs[exec.seg]) : v \in target <=> v < Seg.lo + Seg.f
    <2>1. PagesIn(exec.prog.segs[exec.seg]) = lo .. lo + n - 1 /\ target = lo .. lo + c - 1
      BY <1>0 DEF PagesIn, Seg
    <2>2. /\ lo .. lo + c - 1 \subseteq lo .. lo + n - 1
          /\ \A v \in lo .. lo + n - 1 : v \in Nat /\ lo <= v /\ v < lo + n
          /\ \A v \in lo .. lo + n - 1 : v \in lo .. lo + c - 1 <=> v < lo + c
      BY <1>0
    <2> QED  BY <1>0, <2>1, <2>2
  <1>10. \A v \in PagesIn(exec.prog.segs[exec.seg]) : Loaded(exec.seg, v) /\ Holds(exec.seg, v) = {}
    <2> SUFFICES ASSUME NEW v \in PagesIn(exec.prog.segs[exec.seg])
                 PROVE  Loaded(exec.seg, v) /\ Holds(exec.seg, v) = {}
      OBVIOUS
    <2>1. v < exec.page
      BY <1>4, <1>9
    <2>2. ~Copied(exec.seg)
      BY <1>1, <1>2 DEF Copied
    <2> QED  BY <1>1, <2>1, <2>2 DEF Loaded, Holds
  <1>11. \A v \in target : v \in UserPagesOf(m) /\ v \in Kept /\ bytes[Translate(v)] = {}
    BY <1>2, <1>8, <1>9, <1>10 DEF PagesHeld, Kept
  <1>12. \A v \in target : bytes[source(v)] = {<<exec.prog.name, Seg.off + v - Seg.lo>>}
    <2> SUFFICES ASSUME NEW v \in target
                 PROVE  bytes[source(v)] = {<<exec.prog.name, Seg.off + v - Seg.lo>>}
      OBVIOUS
    <2>0. PICK a \in Nat, z \in Nat : a = exec.img /\ z = exec.prog.image /\ off + c <= z
      BY <1>0, <1>2, <1>3
    <2>1. PICK k \in Nat : k = off + v - lo /\ k < z
      <3>1. v \in lo .. lo + c - 1
        BY <1>0
      <3> QED  BY <1>0, <2>0, <3>1
    <2>2. /\ exec.img + Seg.off + v - Seg.lo = exec.img + k /\ (exec.img + k) - exec.img = k
          /\ k = Seg.off + v - Seg.lo
      <3>1. v \in Nat
        BY <1>9
      <3>2. a + off + v - lo = a + k /\ (a + k) - a = k
        BY <1>0, <2>0, <2>1, <3>1
      <3> QED  BY <1>0, <2>0, <2>1, <3>2
    <2>3. exec.img + k \in Image
      <3>1. a + k \in a .. a + z - 1
        BY <2>0, <2>1
      <3> QED  BY <2>0, <3>1 DEF Image
    <2>4. bytes[Translate(exec.img + k)] = {<<exec.prog.name, (exec.img + k) - exec.img>>}
      BY <1>8, <2>3 DEF ImageHeld
    <2> QED  BY <2>1, <2>2, <2>4
  <1> HIDE DEF source, target
  <1>13. \A v \in target : bytes'[Translate(v)] = {<<exec.prog.name, Seg.off + v - Seg.lo>>}
    <2> SUFFICES ASSUME NEW v \in target
                 PROVE  bytes'[Translate(v)] = {<<exec.prog.name, Seg.off + v - Seg.lo>>}
      OBVIOUS
    <2>1. target \in SUBSET Kept /\ v \in Kept
      BY <1>11
    <2>2. (CHOOSE w \in target : Translate(w) = Translate(v)) = v /\ Translate(v) \in Frames
      BY <2>1, WriteReaches, KeptIsApart
    <2>3. bytes'[Translate(v)] = bytes[Translate(v)] \cup bytes[source(v)]
      BY <1>5, <2>2
    <2> QED  BY <1>11, <1>12, <2>3
  <1>14. \A v \in Kept : v \notin target => bytes'[Translate(v)] = bytes[Translate(v)]
    <2> SUFFICES ASSUME NEW v \in Kept, v \notin target
                 PROVE  bytes'[Translate(v)] = bytes[Translate(v)]
      OBVIOUS
    <2>1. target \in SUBSET Kept
      BY <1>11
    <2>2. Translate(v) \in Frames /\ ~ \E w \in target : Translate(w) = Translate(v)
      BY <2>1, WriteReaches, KeptIsApart
    <2> QED  BY <1>5, <2>2
  <1>15. \A v : Translate(v)' = Translate(v)
    BY <1>4 DEF Translate
  <1>16. ImageHeld'
    <2> SUFFICES ASSUME NEW v \in Image
                 PROVE  bytes'[Translate(v)] = {<<exec.prog.name, v - exec.img>>}
      BY <1>6, <1>7, <1>15 DEF ImageHeld
    <2>1. v \in Kept /\ v \notin target
      BY <1>1, <1>2, <1>7, <1>9, ImageIsKept DEF Clean
    <2> QED  BY <1>8, <1>14, <2>1 DEF ImageHeld
  <1>17. PagesHeld'
    <2> SUFFICES ASSUME NEW i \in DOMAIN exec.prog.segs, NEW v \in PagesIn(exec.prog.segs[i]), Loaded(i, v)'
                 PROVE  /\ v \in UserPagesOf(m) /\ m.pde[Table(v)].user
                        /\ bytes'[Translate(v)] = Holds(i, v)'
      BY <1>4, <1>6, <1>15 DEF PagesHeld
    <2>1. i \in Nat /\ i <= exec.seg /\ Copied(i)'
      BY <1>2, <1>6, IndexIs
    <2>2. Loaded(i, v)
      <3>1. CASE i = exec.seg
        BY <1>10, <3>1
      <3>2. CASE i # exec.seg
        BY <1>2, <2>1, <3>2 DEF Loaded, Copied
      <3> QED  BY <3>1, <3>2
    <2>3. v \in UserPagesOf(m) /\ m.pde[Table(v)].user /\ bytes[Translate(v)] = Holds(i, v)
      BY <1>8, <2>2 DEF PagesHeld
    <2>4. CASE i = exec.seg
      <3>1. v \in Nat /\ Seg.lo <= v
        BY <1>9, <2>4
      <3>2. Holds(i, v)' = IF v < Seg.lo + Seg.f THEN {<<exec.prog.name, Seg.off + v - Seg.lo>>} ELSE {}
        BY <1>6, <2>1, <2>4 DEF Holds, Seg
      <3>3. v \in target <=> v < Seg.lo + Seg.f
        BY <1>9, <2>4
      <3>4. bytes[Translate(v)] = {} /\ v \in Kept
        BY <1>10, <2>3, <2>4 DEF Kept
      <3> QED  BY <1>13, <1>14, <2>3, <3>2, <3>3, <3>4
    <2>5. CASE i # exec.seg
      <3>1. Holds(i, v)' = Holds(i, v)
        <4>1. Copied(i)
          BY <1>2, <2>1, <2>5 DEF Copied
        <4> QED  BY <1>6, <2>1, <4>1 DEF Holds
      <3>2. v \notin target
        <4>1. SegmentsApart(exec.prog)
          BY <1>7 DEF Clean
        <4>2. ~(exec.prog.segs[exec.seg].lo <= v
                /\ v < exec.prog.segs[exec.seg].lo + exec.prog.segs[exec.seg].n)
          BY <1>2, <2>5, <4>1 DEF SegmentsApart, PagesIn
        <4>3. v \in target => Seg.lo <= v /\ v < Seg.lo + Seg.n
          BY <1>9
        <4> QED  BY <4>2, <4>3 DEF Seg
      <3>3. v \in Kept
        BY <2>3 DEF Kept
      <3> QED  BY <1>14, <2>3, <3>1, <3>2, <3>3
    <2> QED  BY <2>4, <2>5
  <1> QED  BY <1>16, <1>17

(* What exec has read and loaded so far is intact.                       *)
THEOREM ContentInvariant == Spec => []Content
  <1>1. Init => Content
    BY DEF Init, Content, Clean, Idle
  <1>2. Inv /\ Content /\ [Next]_vars => Content'
    <2> SUFFICES ASSUME Inv, Content, [Next]_vars PROVE Content'
      OBVIOUS
    <2>1. CASE \E p \in Programs : ReadFile(p)
      BY <2>1, ReadFileHolds
    <2>2. CASE CheckSegment
      BY <2>2, CheckSegmentHolds
    <2>3. CASE LoadPage
      BY <2>3, LoadPageHolds
    <2>4. CASE CopySegment
      BY <2>4, CopySegmentHolds
    <2>5. CASE TaskCreateUser
      <3>1. exec # Idle
        BY <2>5 DEF TaskCreateUser, Idle
      <3>2. exec' = Idle \/ exec' = [exec EXCEPT !.pc = "fault"]
        BY <2>5, CreateCases DEF Created
      <3>3. exec'.pc \in {"idle", "fault"}
        BY <3>1, <3>2 DEF Inv, Exec, Idle
      <3> QED  BY <3>3 DEF Content, Clean
    <2>6. CASE Spawn \/ (\E i \in Slots : UserExit(i)) \/ UNCHANGED vars
      <3>1. UNCHANGED <<boot, m, bytes, exec>>
        BY <2>6 DEF Spawn, UserExit, vars
      <3> QED  BY <3>1 DEF Content, Clean, Image, ImageHeld, PagesHeld, Loaded, Copied, Holds, Translate
    <2> QED  BY <2>1, <2>2, <2>3, <2>4, <2>5, <2>6 DEF Next
  <1> QED  BY <1>1, <1>2, Invariance, PTL DEF Spec

(* When exec comes to create the task, every byte of the program is on a   *)
(* page that user mode reaches, whatever ran, exited or failed half way    *)
(* before: for every program whose segments share no page and whose image  *)
(* is not loaded over itself (elf.c:103, paging.c:17, fat32.c:1344).       *)
THEOREM ProgramsStartWhole == Spec => []FreshProgramIsWhole
  <1>1. Inv /\ Content => FreshProgramIsWhole
    <2> SUFFICES ASSUME Inv, Content, exec.pc = "task", SegmentsApart(exec.prog),
                        SegPages(exec.prog) \cap Image = {}
                 PROVE  Whole(exec.prog)
      BY DEF FreshProgramIsWhole, Image
    <2>1. PagesHeld
      BY DEF Content, Clean
    <2> SUFFICES ASSUME NEW i \in DOMAIN exec.prog.segs,
                        NEW s, s = exec.prog.segs[i], NEW v \in s.lo .. s.lo + s.n - 1
                 PROVE  /\ v \in DOMAIN m.pte /\ m.pte[v].user /\ m.pde[Table(v)].user
                        /\ bytes[Translate(v)] = IF v < s.lo + s.f
                                                 THEN {<<exec.prog.name, s.off + v - s.lo>>} ELSE {}
      BY DEF Whole
    <2>2. Copied(i) /\ Loaded(i, v)
      BY DEF Copied, Loaded
    <2>3. v \in UserPagesOf(m) /\ m.pde[Table(v)].user /\ bytes[Translate(v)] = Holds(i, v)
      BY <2>1, <2>2 DEF PagesHeld, PagesIn
    <2> QED  BY <2>2, <2>3 DEF Holds, UserPagesOf
  <1> QED  BY <1>1, ContentInvariant, Invariance, PTL
=============================================================================
