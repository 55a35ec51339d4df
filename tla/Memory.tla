------------------------------- MODULE Memory -------------------------------
(***************************************************************************)
(* Memory: the frame bitmap (pmm.c), the page tables (paging.c), the       *)
(* kernel heap (kheap.c), the ELF loader (elf.c) and the command exec that *)
(* drives them (shell.c, task.c), after the boot sequence of kmain.        *)
(*                                                                         *)
(* Addresses are page numbers; the ranges the boot loader reports are in   *)
(* half pages, since pmm_init rounds some inwards and some outwards.  The  *)
(* content of a frame is the set of file pages whose bytes it holds.       *)
(* Exec runs in the preemptible shell thread, one action per page it       *)
(* loads; nothing ever returns a frame (pmm_free_frame has no caller).     *)
(***************************************************************************)
EXTENDS Integers, Sequences, FiniteSets, FiniteSetsExt

CONSTANTS
    MAX_FRAMES,            \* frames the bitmap has bits for
    MIN_PHYS, FALLBACK,    \* 16 MB, 64 MB, in pages
    PtPages,               \* pages one table maps (1024)
    LowTop,                \* 1 MB, where the kernel begins
    HeapStart, HeapPages,  \* __kernel_end, 32 MB
    Backbuffer,            \* heap pages gfx_init and splash_show take at boot
    StackTop,              \* page of the user stack of entry 0
    TASK_MAX,
    BootInfos,             \* what the boot loader may report
    Programs               \* the executables on the disk

ASSUME SizesAssumption ==
    /\ {MAX_FRAMES, MIN_PHYS, FALLBACK, PtPages, TASK_MAX} \subseteq Nat \ {0}
    /\ {LowTop, HeapStart, HeapPages, Backbuffer, StackTop} \subseteq Nat
    /\ 0 < LowTop /\ LowTop <= HeapStart /\ MIN_PHYS <= MAX_FRAMES
    /\ MAX_FRAMES + TASK_MAX <= StackTop
(* One framebuffer at most, of at least a page's half.                     *)
ASSUME BootInfosAssumption ==
    \A b \in BootInfos :
        /\ \A r \in b.usable \cup b.other \cup b.fb : r.base \in Nat /\ r.end \in Nat
        /\ \A r \in b.fb : r.base < r.end
        /\ \A r, s \in b.fb : r = s
(* A segment lies on n pages from lo on; the first f of them come from     *)
(* the file, from its page off on.  ok: the loader's checks accept it.     *)
ASSUME ProgramsAssumption ==
    \A p \in Programs :
        /\ p.image \in Nat \ {0} /\ p.header \in BOOLEAN
        /\ p.segs \in Seq([lo : Nat, n : Nat, f : Nat, off : Nat, ok : BOOLEAN])
        /\ \A i \in DOMAIN p.segs : /\ p.segs[i].f <= p.segs[i].n
                                    /\ p.segs[i].ok => p.segs[i].off + p.segs[i].f <= p.image

VARIABLES
    boot,      \* the boot information kmain was given
    m,         \* bitmap, g_free_kb in frames, directory and table entries
    bytes,     \* what each frame holds
    heap_cur,  \* first heap page not handed out
    tasks,     \* per table entry: state and program
    exec       \* where the shell thread is in exec

vars == <<boot, m, bytes, heap_cur, tasks, exec>>

Frames  == 0 .. MAX_FRAMES - 1
NoFrame == 0              \* what pmm_alloc_frame returns on failure
Slots   == 0 .. TASK_MAX - 1
Idle    == [pc |-> "idle"]

-----------------------------------------------------------------------------
(* Physical memory (pmm.c).                                                *)

(* Mutant: usable ranges are rounded outwards, like the reserved ones.     *)
InsideRoundedOut(r) == {f \in Frames : r.base < 2 * f + 2 /\ 2 * f < r.end}

Inside(r)  == {f \in Frames : r.base <= 2 * f /\ 2 * f + 2 <= r.end}
Touched(r) == {f \in Frames : r.base < 2 * f + 2 /\ 2 * f < r.end}
Pages(lo, hi) == [base |-> 2 * lo, end |-> 2 * hi]

(* Without a memory map 64 MB are assumed.                                 *)
E820(b) == IF b.usable \cup b.other = {} THEN {Pages(LowTop, FALLBACK)} ELSE b.usable

MaxPhys(b) == Max({MIN_PHYS * 2}
                  \cup {Min({r.end, 2 * MAX_FRAMES}) : r \in E820(b) \cup b.other})
MaxFrame(b) == MaxPhys(b) \div 2

(* Mutant: the heap is not reserved.                                       *)
ReservedWithoutHeap(b) ==
    UNION {Touched(r) : r \in {Pages(0, LowTop), Pages(LowTop, HeapStart)} \cup b.fb}

(* Low memory, the kernel, its heap, the framebuffer.                      *)
Reserved(b) ==
    UNION {Touched(r) : r \in {Pages(0, LowTop), Pages(LowTop, HeapStart),
                               Pages(HeapStart, HeapStart + HeapPages)} \cup b.fb}

(* Every frame is used but those inside usable ranges and not reserved.    *)
PmmInit(b) ==
    LET clear == {f \in (UNION {Inside(r) : r \in E820(b)}) \ Reserved(b) : f < MaxFrame(b)}
    IN  [used |-> Frames \ clear, free |-> Cardinality(clear),
         pd |-> NoFrame, pde |-> <<>>, pte |-> <<>>]

(* The lowest clear bit below g_max_frame.                                 *)
LowestClear(b, used) ==
    LET clear == {f \in Frames \ used : f < MaxFrame(b)}
    IN  IF clear = {} THEN NoFrame ELSE Min(clear)

TakeFrame(mm, f) ==
    IF f = NoFrame THEN mm ELSE [mm EXCEPT !.used = @ \cup {f}, !.free = @ - 1]

-----------------------------------------------------------------------------
(* Paging (paging.c).  A directory entry is a table's frame and the USER   *)
(* bit, a table entry a frame and the USER bit; absent when not present.   *)

With(fn, x, y) == [z \in DOMAIN fn \cup {x} |-> IF z = x THEN y ELSE fn[z]]
Table(v) == v \div PtPages

(* Mutant: a directory entry that exists keeps its USER bit.               *)
PagingMapKeepsPde(b, mm, v, f, user) ==
    LET new   == Table(v) \notin DOMAIN mm.pde
        pt    == IF new THEN LowestClear(b, mm.used) ELSE mm.pde[Table(v)].table
        taken == IF new THEN TakeFrame(mm, pt) ELSE mm
    IN  IF pt = NoFrame THEN mm
        ELSE [taken EXCEPT !.pde = IF new THEN With(@, Table(v), [table |-> pt, user |-> user]) ELSE @,
                           !.pte = With(@, v, [frame |-> f, user |-> user])]

(* Without a frame for a new table paging_map returns silently.            *)
PagingMap(b, mm, v, f, user) ==
    LET new   == Table(v) \notin DOMAIN mm.pde
        pt    == IF new THEN LowestClear(b, mm.used) ELSE mm.pde[Table(v)].table
        taken == IF new THEN TakeFrame(mm, pt) ELSE mm
        pde   == [table |-> pt,
                  user  |-> user \/ (~new /\ mm.pde[Table(v)].user)]
    IN  IF pt = NoFrame THEN mm
        ELSE [taken EXCEPT !.pde = With(@, Table(v), pde),
                           !.pte = With(@, v, [frame |-> f, user |-> user])]

(* Table t, which maps its pages onto themselves.                          *)
PagesOf(t) == t * PtPages .. (t + 1) * PtPages - 1
IdentityTable(b, x, t) ==
    LET f == LowestClear(b, x.used)
    IN  IF f = NoFrame THEN x
        ELSE [TakeFrame(x, f) EXCEPT
                !.pde = With(@, t, [table |-> f, user |-> FALSE]),
                !.pte = [v \in DOMAIN @ \cup PagesOf(t) |->
                            IF v \in PagesOf(t) THEN [frame |-> v, user |-> FALSE] ELSE @[v]]]

(* The directory and the first n tables: none after one gets no frame.     *)
PagingInitIdentity(b, mm, n) ==
    LET pd == LowestClear(b, mm.used)
        upto[t \in 0 .. n] == IF t = 0 THEN [TakeFrame(mm, pd) EXCEPT !.pd = pd]
                              ELSE IdentityTable(b, upto[t - 1], t - 1)
    IN  IF pd = NoFrame THEN mm ELSE upto[n]

(* Page by page onto itself, from the page of fb_addr on.                  *)
MapFramebuffer(b, mm) ==
    LET lo == Min({r.base \div 2 : r \in b.fb})
        hi == Max({(r.end + 1) \div 2 : r \in b.fb})
        upto[p \in lo .. hi] == IF p = lo THEN mm
                                ELSE PagingMap(b, upto[p - 1], p - 1, p - 1, FALSE)
    IN  IF b.fb = {} THEN mm ELSE upto[hi]

(* Tables for all physical memory, whole megabytes and at least 64 of them.*)
IdentityTables(b) == (Max({(MaxPhys(b) + 1) \div 2, FALLBACK}) + PtPages - 1) \div PtPages

(* kmain up to vfs_init.                                                   *)
Boot(b) == MapFramebuffer(b, PagingInitIdentity(b, PmmInit(b), IdentityTables(b)))

(* heap_end is cut to the highest address, not to what the PMM reserved.   *)
HeapEnd(b) == Max({HeapStart, Min({HeapStart + HeapPages, MaxPhys(b) \div 2})})

(* RAM for the heap and the tables: with less the kernel never gets here.  *)
ASSUME EnoughRam ==
    \A b \in BootInfos : /\ HeapStart + Backbuffer <= HeapEnd(b)
                         /\ LowestClear(b, PmmInit(b).used) # NoFrame
                         /\ \A t \in 0 .. IdentityTables(b) - 1 : t \in DOMAIN Boot(b).pde

Init ==
    /\ boot \in BootInfos
    /\ m = Boot(boot)
    /\ bytes = [f \in Frames |-> {}]
    /\ heap_cur = HeapStart + Backbuffer
    /\ tasks = [i \in Slots |-> [state |-> IF i < 2 THEN "kernel" ELSE "unused",
                                 prog |-> "none"]]
    /\ exec = Idle

-----------------------------------------------------------------------------
(* exec (shell.c): read the file, load its segments, create the task.      *)

Translate(v) == m.pte[v].frame
HasHeap(n)   == heap_cur + n <= HeapEnd(boot)
Outcome(pc)  == exec' = [exec EXCEPT !.pc = pc]

(* What a write of one value per page leaves in the frames.                *)
Written(vs, value(_)) ==
    [f \in Frames |-> IF \E v \in vs : Translate(v) = f
                      THEN value(CHOOSE v \in vs : Translate(v) = f) ELSE bytes[f]]

(* fat32_read_file: kmalloc, then the bytes, through the heap's addresses. *)
ReadFile(p) ==
    /\ exec = Idle
    /\ HasHeap(p.image)
    /\ LET img == heap_cur .. heap_cur + p.image - 1
       IN  bytes' = Written(img, LAMBDA v : {<<p.name, v - heap_cur>>})
    /\ heap_cur' = heap_cur + p.image
    /\ exec' = IF p.header /\ p.segs # <<>>
               THEN [pc |-> "segment", prog |-> p, img |-> heap_cur, seg |-> 1, page |-> 0]
               ELSE Idle
    /\ UNCHANGED <<boot, m, tasks>>

Seg == exec.prog.segs[exec.seg]

(* The checks of one program header; a bad one fails the whole load.       *)
CheckSegment ==
    /\ exec.pc = "segment"
    /\ exec' = IF Seg.ok THEN [exec EXCEPT !.pc = "load", !.page = Seg.lo] ELSE Idle
    /\ UNCHANGED <<boot, m, bytes, heap_cur, tasks>>

(* A frame, mapped at the page and zeroed through the new mapping.         *)
LoadPage ==
    /\ exec.pc = "load" /\ exec.page < Seg.lo + Seg.n
    /\ LET f      == LowestClear(boot, m.used)
           mapped == PagingMap(boot, TakeFrame(m, f), exec.page, f, TRUE)
       IN  IF f = NoFrame
           THEN exec' = Idle /\ UNCHANGED <<m, bytes>>
           ELSE /\ m' = mapped
                /\ IF exec.page \in DOMAIN mapped.pte
                   THEN /\ bytes' = [bytes EXCEPT ![mapped.pte[exec.page].frame] = {}]
                        /\ exec' = [exec EXCEPT !.page = @ + 1]
                   ELSE Outcome("fault") /\ UNCHANGED bytes
    /\ UNCHANGED <<boot, heap_cur, tasks>>

(* memcopy from the image, both through the page tables as they are now.   *)
CopySegment ==
    /\ exec.pc = "load" /\ exec.page = Seg.lo + Seg.n
    /\ LET target == Seg.lo .. Seg.lo + Seg.f - 1
           source(v) == Translate(exec.img + Seg.off + v - Seg.lo)
       IN  bytes' = Written(target, LAMBDA v : bytes[Translate(v)] \cup bytes[source(v)])
    /\ exec' = IF exec.seg = Len(exec.prog.segs)
               THEN [exec EXCEPT !.pc = "task"]
               ELSE [exec EXCEPT !.pc = "segment", !.seg = @ + 1]
    /\ UNCHANGED <<boot, m, heap_cur, tasks>>

FreeSlots == {i \in Slots : tasks[i].state \in {"unused", "dead"}}

(* map_user_stack: no frame is an error, no table a page fault.            *)
MapUserStack(v) ==
    LET f      == LowestClear(boot, m.used)
        mapped == PagingMap(boot, TakeFrame(m, f), v, f, TRUE)
    IN  IF f = NoFrame THEN [m |-> m, ok |-> FALSE, pc |-> "idle"]
        ELSE IF v \notin DOMAIN mapped.pte THEN [m |-> mapped, ok |-> FALSE, pc |-> "fault"]
        ELSE [m |-> mapped, ok |-> TRUE, pc |-> "idle"]

(* task_create_user: an entry, a kernel stack, a user stack.  The kernel   *)
(* stack is not given back when the user stack fails.                      *)
TaskCreateUser ==
    /\ exec.pc = "task"
    /\ IF FreeSlots = {} \/ ~HasHeap(1)
       THEN exec' = Idle /\ UNCHANGED <<m, bytes, heap_cur, tasks>>
       ELSE LET i == Min(FreeSlots)
                s == MapUserStack(StackTop - i)
            IN  /\ heap_cur' = heap_cur + 1
                /\ m' = s.m
                /\ IF s.ok
                   THEN /\ bytes' = [bytes EXCEPT ![s.m.pte[StackTop - i].frame] = {}]
                        /\ tasks' = [tasks EXCEPT ![i] = [state |-> "user", prog |-> exec.prog.name]]
                   ELSE UNCHANGED <<bytes, tasks>>
                /\ exec' = IF s.pc = "fault" THEN [exec EXCEPT !.pc = "fault"] ELSE Idle
    /\ UNCHANGED boot

(* spawn: task_create takes an entry and a kernel stack from the heap.     *)
Spawn ==
    /\ exec = Idle
    /\ FreeSlots # {} /\ HasHeap(1)
    /\ heap_cur' = heap_cur + 1
    /\ tasks' = [tasks EXCEPT ![Min(FreeSlots)] = [state |-> "kernel", prog |-> "none"]]
    /\ UNCHANGED <<boot, m, bytes, exec>>

(* A program runs to its SYS_EXIT; its frames and its stack's stay taken.  *)
UserExit(i) ==
    /\ exec.pc # "fault"
    /\ tasks[i].state = "user"
    /\ tasks' = [tasks EXCEPT ![i].state = "dead"]
    /\ UNCHANGED <<boot, m, bytes, heap_cur, exec>>

Next ==
    \/ \E p \in Programs : ReadFile(p)
    \/ CheckSegment \/ LoadPage \/ CopySegment \/ TaskCreateUser
    \/ Spawn
    \/ \E i \in Slots : UserExit(i)

Spec == Init /\ [][Next]_vars

-----------------------------------------------------------------------------
(* Properties.                                                             *)

(* Every variable keeps its range: tables and pages name frames.           *)
TypeOK ==
    /\ boot \in BootInfos
    /\ m.used \subseteq Frames /\ m.free \in 0 .. MAX_FRAMES /\ m.pd \in Frames \ {NoFrame}
    /\ \A t \in DOMAIN m.pde : m.pde[t].table \in Frames \ {NoFrame} /\ m.pde[t].user \in BOOLEAN
    /\ \A v \in DOMAIN m.pte : m.pte[v].user \in BOOLEAN /\ (m.pte[v].user => m.pte[v].frame \in Frames)
    /\ heap_cur \in HeapStart .. HeapEnd(boot)
    /\ \A i \in Slots : tasks[i].state \in {"unused", "dead", "kernel", "user"}
    /\ exec.pc \in {"idle", "segment", "load", "task", "fault"}

TableFrames == {m.pd} \cup {m.pde[t].table : t \in DOMAIN m.pde}
UserPages   == {v \in DOMAIN m.pte : m.pte[v].user}

(* No frame is handed out for two purposes (directory, tables, pages of    *)
(* programs), none is that pmm_init had to keep or that is not wholly      *)
(* usable RAM, and g_free_kb counts what the bitmap still has: across      *)
(* boot, tables made on demand, and loads that fail half way.              *)
FramesAreAccountedFor ==
    LET taken == TableFrames \cup {Translate(v) : v \in UserPages}
    IN  /\ Cardinality(taken) = 1 + Cardinality(DOMAIN m.pde) + Cardinality(UserPages)
        /\ taken \subseteq m.used
        /\ \A f \in taken : \E r \in E820(boot) : r.base <= 2 * f /\ 2 * f + 2 <= r.end
        /\ \A r \in boot.fb \cup {Pages(0, HeapStart + HeapPages)} : taken \cap Touched(r) = {}
        /\ m.free = Cardinality({f \in Frames \ m.used : f < MaxFrame(boot)})

(* paging_map reaches its tables through their physical addresses          *)
(* (paging.c:18 and 45): no program's pages are ever mapped over them.     *)
(* And the writes through a fresh mapping land: one faults only when       *)
(* paging_map found no frame for a table and returned without a word.      *)
KernelWritesLand ==
    /\ \A f \in TableFrames : f \in DOMAIN m.pte /\ Translate(f) = f /\ ~m.pte[f].user
    /\ exec.pc = "fault" => m.free = 0

SegPages(p) == UNION {p.segs[i].lo .. p.segs[i].lo + p.segs[i].n - 1 : i \in DOMAIN p.segs}
SegmentsApart(p) == \A i, j \in DOMAIN p.segs : i # j =>
    \A v \in p.segs[i].lo .. p.segs[i].lo + p.segs[i].n - 1 :
        ~(p.segs[j].lo <= v /\ v < p.segs[j].lo + p.segs[j].n)

(* The bytes of every segment are on its pages, and user mode reaches them.*)
Whole(p) == \A i \in DOMAIN p.segs : LET s == p.segs[i] IN
    \A v \in s.lo .. s.lo + s.n - 1 :
        /\ v \in DOMAIN m.pte /\ m.pte[v].user /\ m.pde[Table(v)].user
        /\ bytes[Translate(v)] = IF v < s.lo + s.f THEN {<<p.name, s.off + v - s.lo>>} ELSE {}

(* When exec comes to create the task, the whole program is in pages that  *)
(* user mode can reach, whatever ran or failed half way before.  Excepted: *)
(* segments that share a page (elf.c:126 maps and zeroes it again for the  *)
(* second) and an image that kmalloc put where the program goes.           *)
FreshProgramIsWhole ==
    (exec.pc = "task" /\ SegmentsApart(exec.prog)
     /\ SegPages(exec.prog) \cap (exec.img .. exec.img + exec.prog.image - 1) = {})
        => Whole(exec.prog)

(* What the kernel allocated from its heap stays at its addresses.         *)
(* apps/hello.ld:4 calls 0x400000 user space; the heap lies there too.     *)
HeapKeepsItsMemory ==
    \A v \in HeapStart .. heap_cur - 1 : Translate(v) = v
=============================================================================
