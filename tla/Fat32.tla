-------------------------------- MODULE Fat32 --------------------------------
(***************************************************************************)
(* The FAT32 volume of kernel/fat32.c and the shell's current directory.   *)
(*                                                                         *)
(* All callers (the shell's commands, Notepad, the file explorer) run on   *)
(* the one main-loop thread, so operations never overlap; but an operation *)
(* is many disk transfers, any of which can fail, and the machine can be   *)
(* reset between any two.  Every transfer that can change the volume, and  *)
(* every step of a walk along a cluster chain, is an action; op.pc says    *)
(* which one comes next.                                                   *)
(*                                                                         *)
(* Abstractions.  A cluster is SLOTS units: a directory entry together     *)
(* with its long-name parts is one unit, and so is a piece of file data.   *)
(* A name stands for its 8.3 form, which is what lookups compare.  The     *)
(* "." and ".." entries of a directory and the second copy of the FAT are  *)
(* left out: the code never reads the copy.                                *)
(***************************************************************************)
EXTENDS Integers, Sequences

CONSTANTS
    MaxCluster,    \* g_max_cluster: the clusters are 2 .. MaxCluster
    SLOTS,         \* units per cluster
    Names,         \* names of files and directories
    Values,        \* what a unit of file data may hold
    Texts,         \* what the user may write to a file: sequences of Values
    Zero, Deleted,  \* a unit never used, and one marked 0xE5
    Orphan,        \* a unit no lookup matches: a long name without its entry
    MaxOps         \* bound on the operations of a behaviour

Cluster == 2 .. MaxCluster
Slot    == 1 .. SLOTS
Pos     == Cluster \X Slot
FREE    == 0
EOC     == MaxCluster + 1
Root    == 2

Entry == [name : Names, dir : BOOLEAN, first : Cluster \cup {0}, size : Nat]
Bytes == Values \cup {Zero, Deleted, Orphan}

ASSUME ClusterAssumption == MaxCluster \in Nat /\ MaxCluster >= 2
ASSUME SlotsAssumption   == SLOTS \in Nat \ {0}
ASSUME UnitsAssumption   == \A b \in Bytes : b \notin Entry
ASSUME BytesAssumption   == Values \cap {Zero, Deleted, Orphan} = {}
ASSUME MarksAssumption   == Zero # Deleted /\ Orphan \notin {Zero, Deleted}
ASSUME TextsAssumption   == Texts \subseteq Seq(Values)
ASSUME OpsAssumption     == MaxOps \in Nat

VARIABLES
    fat,      \* the FAT: FREE, the next cluster, or EOC
    mem,      \* the units of every cluster
    op,       \* the running operation and its local variables
    cwd,      \* cwd_cluster
    dirty,    \* the volume was written since g_generation last moved
    ops,      \* operations begun
    \* Kept for the properties only:
    dirs,     \* the clusters that directories consist of
    expect,   \* what each file, named by its entry's place, must contain
    faults    \* what has gone wrong so far

disk == <<fat, mem, dirs, expect>>
vars == <<fat, mem, op, cwd, dirty, ops, dirs, expect, faults>>

Idle == [kind |-> "none", pc |-> "idle", leg |-> 1, dir |-> Root, name |-> Zero,
         text |-> <<>>, size |-> 0, off |-> 0, cl |-> 0, pos |-> <<Root, 1>>,
         first |-> 0, last |-> 0, new |-> 0, goal |-> "none", count |-> 0,
         target |-> 0, done |-> 0, loose |-> FALSE]

Unit(p)      == mem[p[1]][p[2]]
IsEntryAt(p) == Unit(p) \in Entry

(* Where directories begin: what a path can resolve to (resolve_path).     *)
Start(e) == IF e.dir /\ e.first = 0 THEN Root ELSE e.first

Heads == {Root} \cup {Start(Unit(p)) : p \in {q \in Pos : /\ q[1] \in dirs
                                                           /\ IsEntryAt(q)
                                                           /\ Unit(q).dir}}

Init ==
    /\ fat = [c \in Cluster |-> IF c = Root THEN EOC ELSE FREE]
    /\ mem = [c \in Cluster |-> [u \in Slot |-> Zero]]
    /\ op = Idle
    /\ cwd = Root
    /\ dirty = FALSE
    /\ ops = 0
    /\ dirs = {Root}
    /\ expect = [p \in Pos |-> <<>>]
    /\ faults = {}

Set(p, unit) == [mem EXCEPT ![p[1]] = [@ EXCEPT ![p[2]] = unit]]

(* A step that reads or computes only.                                     *)
Move(o) ==
    /\ op' = o
    /\ UNCHANGED <<fat, mem, cwd, dirty, ops, dirs, expect, faults>>

Noting(fault, happens) == IF happens THEN faults \cup {fault} ELSE faults

(* The operation stops where it is: "cut".  If it has freed what an entry  *)
(* still leads to, the volume is "hurt".                                   *)
Cut == faults' = faults \cup {"cut"} \cup (IF op.loose THEN {"hurt"} ELSE {})

(* It returns -1.                                                          *)
Abort ==
    /\ op' = Idle
    /\ Cut
    /\ UNCHANGED <<fat, mem, cwd, dirty, ops, dirs, expect>>

-----------------------------------------------------------------------------
(* A call of fat32_touch, fat32_mkdir, fat32_write or fat32_rm on name n   *)
(* in directory d.  fat32_write calls fat32_touch when the file is not     *)
(* there (leg 2) and then looks it up again (leg 3).                       *)

Begin(k, d, n, t) ==
    /\ op.pc = "idle"
    /\ ops < MaxOps
    /\ ops' = ops + 1
    /\ op' = [Idle EXCEPT !.kind = k, !.leg = IF k = "touch" THEN 2 ELSE 1,
                          !.pc = "find", !.dir = d, !.cl = d, !.name = n, !.text = t]
    /\ faults' = Noting("hurt", d \notin Heads)
    /\ UNCHANGED <<fat, mem, cwd, dirty, dirs, expect>>

Call ==
    \E d \in Heads \cup {cwd}, n \in Names :
       \/ \E k \in {"touch", "mkdir", "rm"} : Begin(k, d, n, <<>>)
       \/ \E t \in Texts : Begin("write", d, n, t)
       \/ \E t \in Texts \ {<<>>} : Begin("append", d, n, t)

(* The cd command.                                                         *)
Cd(d) ==
    /\ op.pc = "idle"
    /\ cwd' = d
    /\ UNCHANGED <<fat, mem, op, dirty, ops, dirs, expect, faults>>

-----------------------------------------------------------------------------
(* find_in_dir and find_entry_with_positions: cluster by cluster, up to    *)
(* the first unused unit.                                                  *)

Before(c, u) == {mem[c][v] : v \in 1 .. u - 1}

Matches(unit) == unit \in Entry /\ unit.name = op.name

FoundAt(u) ==
    /\ Matches(mem[op.cl][u])
    /\ \A b \in Before(op.cl, u) : b # Zero /\ ~Matches(b)

(* Mutant: only the first cluster of a directory is searched.              *)
GoesOnNever(c) == FALSE

(* The directory goes on in its next cluster.                              *)
GoesOn(c) == fat[c] \in Cluster /\ \A u \in Slot : mem[c][u] # Zero

(* Mutant: a directory can be written like a file.                         *)
RefusesNothing(e) == FALSE

(* "write: is a directory"                                                 *)
Refuses(e) == op.kind \in {"write", "append"} /\ e.dir

(* What the caller does with an entry it found ...                         *)
WithEntry(p) ==
    LET e == Unit(p)
        here == [op EXCEPT !.pos = p, !.first = Start(e), !.cl = Start(e)]
    IN  IF op.kind \in {"touch", "mkdir"} \/ (op.leg # 2 /\ Refuses(e)) THEN Idle
        ELSE IF op.kind = "rm"
        THEN [here EXCEPT !.pc = IF e.dir THEN "empty"
                                 ELSE IF e.first # 0 THEN "free" ELSE "unlink"]
        ELSE IF op.leg = 2 THEN [op EXCEPT !.leg = 3, !.cl = op.dir]
        ELSE IF op.kind = "write"
        THEN [here EXCEPT !.size = Len(op.text),
                          !.pc = IF e.first # 0 THEN "free" ELSE "ensure"]
        ELSE [here EXCEPT !.size = e.size + Len(op.text), !.off = e.size, !.pc = "ensure"]

(* ... and when there is none.                                             *)
WithoutEntry ==
    IF op.kind = "rm" \/ op.leg = 3 THEN Idle
    ELSE IF op.kind = "mkdir" THEN [op EXCEPT !.pc = "mark", !.goal = "mkdir"]
    ELSE IF op.leg = 1 THEN [op EXCEPT !.leg = 2, !.cl = op.dir]
    ELSE [op EXCEPT !.pc = "slot", !.cl = op.dir]

FindHit  == /\ op.pc = "find"
            /\ \E u \in Slot : FoundAt(u) /\ Move(WithEntry(<<op.cl, u>>))

FindNext == /\ op.pc = "find"
            /\ ~\E u \in Slot : FoundAt(u)
            /\ GoesOn(op.cl)
            /\ Move([op EXCEPT !.cl = fat[op.cl]])

FindNothing == /\ op.pc = "find"
               /\ ~\E u \in Slot : FoundAt(u)
               /\ ~GoesOn(op.cl)
               /\ Move(WithoutEntry)

(* A sector or a FAT entry cannot be read: "not there" to every caller.    *)
FindBlind ==
    /\ op.pc = "find"
    /\ op' = WithoutEntry
    /\ faults' = Noting("blind", WithoutEntry.pc \in {"slot", "mark"})
    /\ UNCHANGED <<fat, mem, cwd, dirty, ops, dirs, expect>>

-----------------------------------------------------------------------------
(* alloc_cluster                                                           *)

(* Mutant: the end-of-chain mark is taken for a free entry too.            *)
AllocableEnd(c) ==
    /\ fat[c] \in {FREE, EOC}
    /\ \A b \in Cluster : fat[b] \in {FREE, EOC} => c <= b

(* The lowest free cluster.                                                *)
Allocable(c) == fat[c] = FREE /\ \A b \in Cluster : fat[b] = FREE => c <= b

Mark ==
    /\ op.pc = "mark"
    /\ \E c \in Cluster :
          /\ Allocable(c)
          /\ fat' = [fat EXCEPT ![c] = EOC]
          /\ op' = [op EXCEPT !.new = c, !.pc = "zero"]
    /\ dirty' = TRUE
    /\ UNCHANGED <<mem, cwd, ops, dirs, expect, faults>>

NoSpace ==
    /\ op.pc = "mark"
    /\ \A c \in Cluster : fat[c] # FREE
    /\ Abort

(* zero_cluster, and for mkdir the "." and ".." of the new directory.      *)
ZeroCluster ==
    /\ op.pc = "zero"
    /\ mem' = [mem EXCEPT ![op.new] = [u \in Slot |-> Zero]]
    /\ op' = IF op.goal = "mkdir"
             THEN [op EXCEPT !.first = op.new, !.pc = "slot", !.cl = op.dir]
             ELSE IF op.goal = "first"
             THEN [op EXCEPT !.first = op.new, !.last = op.new, !.count = 1, !.pc = "grow"]
             ELSE [op EXCEPT !.pc = "link"]
    /\ dirty' = TRUE
    /\ UNCHANGED <<fat, cwd, ops, dirs, expect, faults>>

(* The new cluster becomes the end of a chain.                             *)
Link ==
    /\ op.pc = "link"
    /\ fat' = [fat EXCEPT ![op.last] = op.new]
    /\ op' = IF op.goal = "extend"
             THEN [op EXCEPT !.pc = "slot", !.cl = op.dir]
             ELSE [op EXCEPT !.last = op.new, !.count = @ + 1, !.pc = "grow"]
    /\ dirs' = IF op.goal = "extend" THEN dirs \cup {op.new} ELSE dirs
    /\ dirty' = TRUE
    /\ UNCHANGED <<mem, cwd, ops, expect, faults>>

-----------------------------------------------------------------------------
(* find_free_run, extend_dir_if_needed                                     *)

FreeUnit(c, u) == mem[c][u] \in {Zero, Deleted}

SlotHere ==
    /\ op.pc = "slot"
    /\ \E u \in Slot :
          /\ FreeUnit(op.cl, u)
          /\ \A v \in 1 .. u - 1 : ~FreeUnit(op.cl, v)
          /\ Move([op EXCEPT !.pos = <<op.cl, u>>, !.pc = "entry"])

SlotNext ==
    /\ op.pc = "slot"
    /\ \A u \in Slot : ~FreeUnit(op.cl, u)
    /\ fat[op.cl] \in Cluster
    /\ Move([op EXCEPT !.cl = fat[op.cl]])

(* The end of the directory, or a FAT entry that cannot be read.           *)
SlotNone ==
    /\ op.pc = "slot"
    /\ \A u \in Slot : ~FreeUnit(op.cl, u)
    /\ Move([op EXCEPT !.last = op.dir, !.pc = "tail"])

TailNext ==
    /\ op.pc = "tail"
    /\ fat[op.last] \in Cluster
    /\ Move([op EXCEPT !.last = fat[op.last]])

(* A FAT entry that cannot be read looks like the end of the chain.        *)
TailEnd ==
    /\ op.pc = "tail"
    /\ op' = [op EXCEPT !.pc = "mark", !.goal = "extend"]
    /\ faults' = Noting("blind", fat[op.last] \in Cluster)
    /\ UNCHANGED <<fat, mem, cwd, dirty, ops, dirs, expect>>

(* touch and mkdir: the entry is written, its long name before it.         *)
WriteEntry ==
    /\ op.pc = "entry"
    /\ mem' = Set(op.pos, [name |-> op.name, dir |-> op.kind = "mkdir",
                           first |-> op.first, size |-> 0])
    /\ dirs' = IF op.kind = "mkdir" THEN dirs \cup {op.first} ELSE dirs
    /\ expect' = [expect EXCEPT ![op.pos] = <<>>]
    /\ op' = [op EXCEPT !.pc = "bump"]
    /\ dirty' = TRUE
    /\ UNCHANGED <<fat, cwd, ops, faults>>

(* The transfer fails between the long name and the entry.                 *)
WriteEntryFails ==
    /\ op.pc = "entry"
    /\ mem' = Set(op.pos, Orphan)
    /\ op' = Idle
    /\ Cut
    /\ dirty' = TRUE
    /\ UNCHANGED <<fat, cwd, ops, dirs, expect>>

-----------------------------------------------------------------------------
(* Mutant: only the first cluster of a chain is freed.                     *)
FreeFirst ==
    /\ op.pc = "free"
    /\ fat' = [fat EXCEPT ![op.cl] = FREE]
    /\ dirs' = dirs \ {op.cl}
    /\ op' = IF op.kind = "write"
             THEN [op EXCEPT !.first = 0, !.pc = "ensure", !.loose = TRUE]
             ELSE [op EXCEPT !.pc = "unlink", !.loose = TRUE]
    /\ dirty' = TRUE
    /\ UNCHANGED <<mem, cwd, ops, expect, faults>>

(* free_chain: one FAT entry at a time.  The next one is read first; if    *)
(* that fails the rest of the chain is left allocated.                     *)
FreeCluster ==
    /\ op.pc = "free"
    /\ fat' = [fat EXCEPT ![op.cl] = FREE]
    /\ dirs' = dirs \ {op.cl}
    /\ \E next \in {fat[op.cl], EOC} :
       /\ faults' = Noting("cut", next # fat[op.cl])
       /\ op' = IF next \in Cluster THEN [op EXCEPT !.cl = next, !.loose = TRUE]
                 ELSE IF op.kind = "write"
                      THEN [op EXCEPT !.first = 0, !.pc = "ensure", !.loose = TRUE]
                      ELSE [op EXCEPT !.pc = "unlink", !.loose = TRUE]
    /\ dirty' = TRUE
    /\ UNCHANGED <<mem, cwd, ops, expect>>

-----------------------------------------------------------------------------
(* ensure_chain_size                                                       *)

Needed == (op.size + SLOTS - 1) \div SLOTS

Ensure ==
    /\ op.pc = "ensure"
    /\ Move(IF Needed = 0 THEN [op EXCEPT !.first = 0, !.pc = "commit"]
            ELSE IF op.first = 0
                 THEN [op EXCEPT !.target = Needed, !.goal = "first", !.pc = "mark"]
                 ELSE [op EXCEPT !.target = Needed + 1, !.last = op.first,
                                 !.count = 1, !.pc = "walk"])

WalkNext ==
    /\ op.pc = "walk"
    /\ fat[op.last] \in Cluster
    /\ Move([op EXCEPT !.last = fat[op.last], !.count = @ + 1,
                       !.pc = IF op.count + 1 >= op.target THEN "grow" ELSE "walk"])

WalkEnd ==
    /\ op.pc = "walk"
    /\ op' = [op EXCEPT !.pc = "grow"]
    /\ faults' = Noting("blind", fat[op.last] \in Cluster)
    /\ UNCHANGED <<fat, mem, cwd, dirty, ops, dirs, expect>>

Grow ==
    /\ op.pc = "grow"
    /\ Move(IF op.count < op.target THEN [op EXCEPT !.goal = "chain", !.pc = "mark"]
            ELSE [op EXCEPT !.cl = op.first, !.pc = "data"])

-----------------------------------------------------------------------------
(* write_data_to_chain; op.done units are written.  A FAT entry that       *)
(* cannot be read ends the chain.                                          *)

Seek ==
    /\ op.pc = "data"
    /\ op.cl \in Cluster
    /\ op.off >= SLOTS
    /\ \E next \in {fat[op.cl], EOC} : Move([op EXCEPT !.off = @ - SLOTS, !.cl = next])

(* Mutant: the offset within the first cluster is forgotten.               *)
ChunkFromStart == LET rest == Len(op.text) - op.done
                  IN  IF rest < SLOTS THEN rest ELSE SLOTS

Chunk == LET room == SLOTS - op.off
             rest == Len(op.text) - op.done
         IN  IF rest < room THEN rest ELSE room

WriteData ==
    /\ op.pc = "data"
    /\ op.cl \in Cluster
    /\ op.off < SLOTS
    /\ mem' = [mem EXCEPT ![op.cl] =
          [u \in Slot |-> IF u \in op.off + 1 .. op.off + Chunk
                          THEN op.text[op.done + u - op.off] ELSE @[u]]]
    /\ IF op.done + Chunk = Len(op.text)
       THEN op' = [op EXCEPT !.done = @ + Chunk, !.pc = "commit"]
       ELSE \E next \in {fat[op.cl], EOC} :
               op' = [op EXCEPT !.done = @ + Chunk, !.off = 0, !.cl = next]
    /\ dirty' = TRUE
    /\ UNCHANGED <<fat, cwd, ops, dirs, expect, faults>>

WriteDataShort ==
    /\ op.pc = "data"
    /\ op.cl \notin Cluster
    /\ Abort

(* fat32_write stores size and first cluster in the entry.                 *)
Commit ==
    /\ op.pc = "commit"
    /\ mem' = Set(op.pos, IF IsEntryAt(op.pos)
                          THEN [Unit(op.pos) EXCEPT !.first = op.first, !.size = op.size]
                          ELSE Orphan)
    /\ expect' = [expect EXCEPT ![op.pos] =
                     IF op.kind = "append" THEN @ \o op.text ELSE op.text]
    /\ op' = [op EXCEPT !.loose = FALSE, !.pc = "bump"]
    /\ dirty' = TRUE
    /\ UNCHANGED <<fat, cwd, ops, dirs, faults>>

-----------------------------------------------------------------------------
(* fat32_rm                                                                *)

(* dir_is_empty                                                            *)
Occupied(c) ==
    \E u \in Slot : /\ mem[c][u] \notin {Zero, Deleted, Orphan}
                    /\ Zero \notin Before(c, u)

EmptyNo == /\ op.pc = "empty"
           /\ Occupied(op.cl)
           /\ Abort

EmptyNext == /\ op.pc = "empty"
             /\ ~Occupied(op.cl)
             /\ GoesOn(op.cl)
             /\ Move([op EXCEPT !.cl = fat[op.cl]])

(* A FAT entry that cannot be read looks like the end of the directory.    *)
EmptyYes == /\ op.pc = "empty"
            /\ ~Occupied(op.cl)
            /\ op' = [op EXCEPT !.cl = op.first, !.pc = "free"]
            /\ faults' = Noting("blind", GoesOn(op.cl))
            /\ UNCHANGED <<fat, mem, cwd, dirty, ops, dirs, expect>>

(* dir_mark_deleted, for the long name and then for the entry.             *)
Unlink ==
    /\ op.pc = "unlink"
    /\ mem' = Set(op.pos, Deleted)
    /\ op' = [op EXCEPT !.loose = FALSE, !.pc = "bump"]
    /\ dirty' = TRUE
    /\ UNCHANGED <<fat, cwd, ops, dirs, expect, faults>>

-----------------------------------------------------------------------------
(* g_generation++, and the operation returns 0.  A touch made by           *)
(* fat32_write returns to its second lookup.                               *)
Bump ==
    /\ op.pc = "bump"
    /\ op' = IF op.leg = 2 /\ op.kind # "touch"
             THEN [op EXCEPT !.leg = 3, !.pc = "find", !.cl = op.dir]
             ELSE Idle
    /\ dirty' = FALSE
    /\ UNCHANGED <<fat, mem, cwd, ops, dirs, expect, faults>>

(* A transfer fails and the operation returns -1.  That the drive has      *)
(* stored the sector nevertheless is this action one step later.           *)
Fail ==
    /\ op.pc \in {"slot", "mark", "zero", "link", "entry", "free", "data",
                  "commit", "empty", "unlink", "bump"}
    /\ Abort

(* Reset or power cut, and the next boot: the volume is mounted again.     *)
PowerCut ==
    /\ op' = Idle
    /\ cwd' = Root
    /\ Cut
    /\ dirty' = FALSE
    /\ UNCHANGED <<fat, mem, ops, dirs, expect>>

Find  == FindHit \/ FindNext \/ FindNothing \/ FindBlind
Alloc == Mark \/ NoSpace \/ ZeroCluster \/ Link
Place == SlotHere \/ SlotNext \/ SlotNone \/ TailNext \/ TailEnd
            \/ WriteEntry \/ WriteEntryFails
Fill  == Ensure \/ WalkNext \/ WalkEnd \/ Grow \/ Seek \/ WriteData
            \/ WriteDataShort \/ Commit
Remove == EmptyNo \/ EmptyNext \/ EmptyYes \/ FreeCluster \/ Unlink

Step == Find \/ Alloc \/ Place \/ Fill \/ Remove \/ Bump \/ Fail

Next == Call \/ (\E d \in Heads : Cd(d)) \/ Step \/ PowerCut

Spec == Init /\ [][Next]_vars

(* The main loop keeps running the operation it has begun.                 *)
FairSpec == Spec /\ WF_vars(Step)

-----------------------------------------------------------------------------
(* Properties.                                                             *)

OpKind == {"none", "touch", "mkdir", "write", "append", "rm"}
OpPc   == {"idle", "find", "slot", "tail", "mark", "zero", "link", "entry", "free",
           "ensure", "walk", "grow", "data", "commit", "empty", "unlink", "bump"}
OpGoal == {"none", "mkdir", "extend", "first", "chain"}
OpLeg  == {1, 2, 3}

Op == [kind : OpKind, pc : OpPc, leg : OpLeg, dir : Cluster, name : Names \cup {Zero},
       text : Seq(Values), size : Nat, off : Nat, cl : Cluster \cup {0, EOC}, pos : Pos,
       first : Cluster \cup {0}, last : Cluster \cup {0}, new : Cluster \cup {0},
       goal : OpGoal, count : Nat, target : Nat, done : Nat, loose : BOOLEAN]

TypeOK ==
    /\ fat \in [Cluster -> Cluster \cup {FREE, EOC}]
    /\ mem \in [Cluster -> [Slot -> Bytes \cup Entry]]
    /\ op \in Op
    /\ cwd \in Cluster
    /\ dirty \in BOOLEAN
    /\ ops \in 0 .. MaxOps
    /\ dirs \subseteq Cluster
    /\ expect \in [Pos -> Seq(Values)]
    /\ faults \subseteq {"cut", "hurt", "blind"}

(* The entries of the volume that lead somewhere, except one whose chain   *)
(* the running operation is about to replace or has begun to free.         *)
Pointers == {p \in Pos : /\ p[1] \in dirs
                         /\ IsEntryAt(p)
                         /\ Unit(p).first # 0
                         /\ ~(op.loose /\ p = op.pos)}

(* Whatever fails and whenever the power goes, no cluster is on two        *)
(* chains, and none on a chain is free, as long as no operation stopped    *)
(* between freeing a chain and rewriting the entry that leads to it, and   *)
(* none was run in a directory that had been removed.                      *)
NoCrossLinks ==
    "hurt" \notin faults =>
      /\ \A c \in Cluster : fat[c] \in Cluster => fat[fat[c]] # FREE
      /\ \A c, d \in Cluster : fat[c] = fat[d] /\ fat[c] \in Cluster => c = d
      /\ \A p \in Pointers : /\ fat[Unit(p).first] # FREE
                             /\ Unit(p).first # Root
                             /\ \A c \in Cluster : fat[c] # Unit(p).first
      /\ \A p, q \in Pointers : Unit(p).first = Unit(q).first => p = q

(* No cluster serves both a directory and a file.                          *)
FilesApart ==
    "hurt" \notin faults =>
      /\ \A c \in Cluster : fat[c] \in Cluster => (c \in dirs <=> fat[c] \in dirs)
      /\ \A p \in Pointers : Unit(p).dir <=> Unit(p).first \in dirs

(* What fat32_cat shows of an entry.                                       *)
Content(e) ==
    LET hop[n \in 0 .. e.size] ==
            IF n = 0 THEN e.first
            ELSE IF hop[n - 1] \in Cluster THEN fat[hop[n - 1]] ELSE EOC
    IN  [k \in 1 .. e.size |->
            LET c == hop[(k - 1) \div SLOTS]
            IN  IF c \in Cluster THEN mem[c][((k - 1) % SLOTS) + 1] ELSE Zero]

Files == {p \in Pos : p[1] \in dirs /\ IsEntryAt(p) /\ ~Unit(p).dir}

(* Read your writes: between operations every file reads as the writes and *)
(* appends that succeeded left it, whatever happened to other files and    *)
(* whichever operations failed or were cut short since.                    *)
FilesReadBack ==
    op.pc = "idle" /\ faults \cap {"hurt", "blind"} = {} =>
       \A p \in Files : Content(Unit(p)) = expect[p]

(* No directory has two entries of one name.                               *)
ChainOf(d) ==
    LET hop[n \in 0 .. MaxCluster] ==
            IF n = 0 THEN {d}
            ELSE hop[n - 1] \cup ({fat[c] : c \in hop[n - 1]} \cap Cluster)
    IN  hop[MaxCluster]

NamesAreUnique ==
    faults \cap {"hurt", "blind"} = {} =>
       \A d \in Heads : \A p, q \in ChainOf(d) \X Slot :
          IsEntryAt(p) /\ IsEntryAt(q) /\ Unit(p).name = Unit(q).name => p = q

(* As long as nothing failed, nothing leaks: every cluster in use is on    *)
(* the chain of the root or of an entry.                                   *)
NothingLeaks ==
    op.pc = "idle" /\ faults = {} =>
       \A c \in Cluster : fat[c] # FREE =>
          \E d \in {Root} \cup {Unit(p).first : p \in Pointers} : c \in ChainOf(d)

(* Every operation comes back to the shell: no chain it follows is a       *)
(* circle, and no directory is extended for ever.                          *)
OperationsReturn ==
    op.pc # "idle" /\ "hurt" \notin faults ~> op.pc = "idle" \/ "hurt" \in faults

(* "Bumps whenever the FAT32 volume is modified" (fat32.h:37): a change    *)
(* that has not moved g_generation is not one a reader could see.  The     *)
(* code does not keep this: a write that runs out of space has already     *)
(* given away the old contents.                                            *)
UnannouncedIsInvisible ==
    op.pc = "idle" /\ dirty /\ "blind" \notin faults =>
       \A p \in Files : Content(Unit(p)) = expect[p]
=============================================================================
