------------------------------ MODULE Scheduler ------------------------------
(***************************************************************************)
(* The preemptive round-robin scheduler of kernel/task.c, with the traps   *)
(* that drive it (isr.asm, isr.c, syscall.c) and the one field of the TSS  *)
(* it keeps (gdt.c).                                                       *)
(*                                                                         *)
(* A context is named by the id of the task it was built for.  cpu is the  *)
(* context the processor executes, esp[s] the context whose IRQ frame the  *)
(* table entry s points to (NoFrame: the field is 0), kstack[s] the task   *)
(* whose kernel stack the entry holds (NoStack: 0).  Nothing in the code   *)
(* ties cpu to g_current: do_switch keeps them together by loading the     *)
(* frame it finds in the entry it selects, whatever that frame is.         *)
(*                                                                         *)
(* Every trap runs with interrupts off from its entry to its iretd, so a   *)
(* trap is one action.  task_create runs in the shell thread with          *)
(* interrupts ON, so it is four actions, and a trap may fall between any   *)
(* two of them.  A trap that selects an entry task_create has published    *)
(* but not finished sets torn; what follows such a switch runs on a stack  *)
(* that two contexts share, or in a task that has already exited, and is   *)
(* not modelled: the behaviour ends there.                                 *)
(***************************************************************************)
EXTENDS Naturals

CONSTANTS
    TASK_MAX,        \* entries of g_tasks (16 in the code)
    QUANTUM_TICKS,   \* timer interrupts in a time slice (5 in the code)
    MaxPid           \* bound on g_next_id: at most MaxPid tasks are ever created

ASSUME TaskMaxAssumption == TASK_MAX \in Nat /\ TASK_MAX >= 2
ASSUME QuantumAssumption == QUANTUM_TICKS \in Nat \ {0}
ASSUME MaxPidAssumption  == MaxPid \in Nat /\ MaxPid >= 2

Slots == 0 .. TASK_MAX - 1

TaskState == {"UNUSED", "READY", "RUNNING", "DEAD"}
TaskKind  == {"kernel", "user"}

NoFrame == 0
NoStack == 0

ShellSlot == 0     \* task_init: task 0 is the shell thread, already running
ShellPid  == 1
IdleSlot  == 1     \* the idle task, created by task_init itself
IdlePid   == 2

VARIABLES
    state,      \* g_tasks[s].state
    pid,        \* g_tasks[s].id
    kind,       \* g_tasks[s].kind
    kstack,     \* g_tasks[s].kstack_top, as the task the stack was allocated for
    esp,        \* g_tasks[s].esp, as the context saved there
    current,    \* g_current
    nextId,     \* g_next_id
    quantum,    \* g_quantum
    tss,        \* the task whose kernel stack TSS.esp0 points into
    cpu,        \* the context being executed
    creation,   \* how far the shell thread is in task_create
    torn        \* a trap has selected an entry whose creation is unfinished

table   == <<state, pid, kind, kstack, esp>>
vars    == <<table, current, nextId, quantum, tss, cpu, creation, torn>>

(* The steps of task_create after which a trap sees something new. *)
CreationStep == {"none", "allocated", "published", "stacked"}
NotCreating  == [step |-> "none", slot |-> ShellSlot, kind |-> "kernel"]

(* Between the store to state and the store to esp the entry looks ready,  *)
(* but its esp is still 0 or the frame of the dead task it was taken from. *)
HalfBuilt(s) == creation.slot = s /\ creation.step \in {"published", "stacked"}

-----------------------------------------------------------------------------
(* task_init: entry 0 becomes the shell, entry 1 the idle task.  The shell *)
(* has no frame before its first timer interrupt and never has a kernel    *)
(* stack of its own: esp0 is pointed into the boot stack it runs on.       *)
Init ==
    /\ state    = [s \in Slots |-> IF s = ShellSlot THEN "RUNNING"
                                  ELSE IF s = IdleSlot THEN "READY"
                                  ELSE "UNUSED"]
    /\ pid      = [s \in Slots |-> IF s = ShellSlot THEN ShellPid
                                  ELSE IF s = IdleSlot THEN IdlePid
                                  ELSE 0]
    /\ kind     = [s \in Slots |-> "kernel"]
    /\ kstack   = [s \in Slots |-> IF s = IdleSlot THEN IdlePid ELSE NoStack]
    /\ esp      = [s \in Slots |-> IF s = IdleSlot THEN IdlePid ELSE NoFrame]
    /\ current  = ShellSlot
    /\ nextId   = IdlePid + 1
    /\ quantum  = 0
    /\ tss      = ShellPid
    /\ cpu      = ShellPid
    /\ creation = NotCreating
    /\ torn     = FALSE

-----------------------------------------------------------------------------
(* The scheduler proper.                                                   *)

(* Mutant: the scan always starts at entry 0 instead of after g_current.   *)
PicksFromZero(st, n) ==
    \/ st[n] = "READY" /\ \A s \in Slots : s < n => st[s] # "READY"
    \/ n = current /\ \A s \in Slots : st[s] # "READY"

(* pick_next_ready: n is the first READY entry of the table st after the   *)
(* current one, in cyclic order, the current one coming last; the current  *)
(* one as well when nothing is READY.                                      *)
Picks(st, n) ==
    \/ \E k \in 1 .. TASK_MAX :
          /\ n = (current + k) % TASK_MAX
          /\ st[n] = "READY"
          /\ \A j \in 1 .. (k - 1) : st[(current + j) % TASK_MAX] # "READY"
    \/ /\ n = current
       /\ \A s \in Slots : st[s] # "READY"

(* Mutant: g_current is advanced before the interrupted frame is saved.    *)
DoSwitchSavesLate(st, n) ==
    /\ esp'     = [esp EXCEPT ![n] = cpu]
    /\ state'   = [st EXCEPT ![current] = IF @ = "RUNNING" THEN "READY" ELSE @,
                             ![n] = "RUNNING"]
    /\ current' = n
    /\ tss'     = IF kstack[n] # NoStack THEN kstack[n] ELSE tss
    /\ cpu'     = IF esp[n] # NoFrame THEN esp[n] ELSE cpu
    /\ torn'    = (torn \/ HalfBuilt(n))

(* Mutant: TSS.esp0 is updated before g_current is advanced.               *)
DoSwitchOldStack(st, n) ==
    /\ esp'     = [esp EXCEPT ![current] = cpu]
    /\ state'   = [st EXCEPT ![current] = IF @ = "RUNNING" THEN "READY" ELSE @,
                             ![n] = "RUNNING"]
    /\ current' = n
    /\ tss'     = IF kstack[current] # NoStack THEN kstack[current] ELSE tss
    /\ cpu'     = IF esp[n] # NoFrame THEN esp[n] ELSE cpu
    /\ torn'    = (torn \/ HalfBuilt(n))

(* do_switch: park the interrupted context in the current entry, make n    *)
(* current, point TSS.esp0 at its stack if it has one, and load its frame; *)
(* with no frame the interrupted context simply goes on.                   *)
DoSwitch(st, n) ==
    /\ esp'     = [esp EXCEPT ![current] = cpu]
    /\ state'   = [st EXCEPT ![current] = IF @ = "RUNNING" THEN "READY" ELSE @,
                             ![n] = "RUNNING"]
    /\ current' = n
    /\ tss'     = IF kstack[n] # NoStack THEN kstack[n] ELSE tss
    /\ cpu'     = IF esp[n] # NoFrame THEN esp[n] ELSE cpu
    /\ torn'    = (torn \/ HalfBuilt(n))

(* The tail shared by every branch of task_maybe_switch that reschedules;  *)
(* st is the table as the handler of the trap has left it.                 *)
Reschedule(st) ==
    /\ \E n \in Slots :
          /\ Picks(st, n)
          /\ \/ n # current /\ DoSwitch(st, n)
             \/ /\ n = current
                /\ state' = st
                /\ UNCHANGED <<esp, current, tss, cpu, torn>>
    /\ UNCHANGED <<pid, kind, kstack, nextId, creation>>

-----------------------------------------------------------------------------
(* Traps.                                                                  *)

(* The first timer interrupt captures the frame of the shell, and that is  *)
(* all it does.                                                            *)
CaptureFirstFrame ==
    /\ ~torn
    /\ esp[current] = NoFrame
    /\ esp' = [esp EXCEPT ![current] = cpu]
    /\ UNCHANGED <<state, pid, kind, kstack, current, nextId, quantum, tss,
                   cpu, creation, torn>>

(* Any interrupt takes the processor from a task that has died.            *)
Reap ==
    /\ ~torn
    /\ esp[current] # NoFrame
    /\ state[current] = "DEAD"
    /\ Reschedule(state)
    /\ UNCHANGED quantum

(* Mutant: the slice test is off by one.                                   *)
CountTickLate ==
    /\ ~torn
    /\ esp[current] # NoFrame
    /\ state[current] # "DEAD"
    /\ quantum + 1 <= QUANTUM_TICKS
    /\ quantum' = quantum + 1
    /\ UNCHANGED <<table, current, nextId, tss, cpu, creation, torn>>

(* A timer interrupt inside the slice of the running task.                 *)
CountTick ==
    /\ ~torn
    /\ esp[current] # NoFrame
    /\ state[current] # "DEAD"
    /\ quantum + 1 < QUANTUM_TICKS
    /\ quantum' = quantum + 1
    /\ UNCHANGED <<table, current, nextId, tss, cpu, creation, torn>>

(* The timer interrupt that ends the slice.                                *)
EndOfSlice ==
    /\ ~torn
    /\ esp[current] # NoFrame
    /\ state[current] # "DEAD"
    /\ quantum + 1 >= QUANTUM_TICKS
    /\ quantum' = 0
    /\ Reschedule(state)

(* irq_handler for int 32, then task_maybe_switch.  Every other interrupt  *)
(* either does what Reap does or leaves the scheduler's state alone.       *)
TimerIrq == CaptureFirstFrame \/ Reap \/ CountTick \/ EndOfSlice

(* Mutant: the int_no # 32 test comes before the test for a dead task.     *)
SysExitKeepsCpu ==
    /\ ~torn
    /\ kind[current] = "user"
    /\ state[current] = "RUNNING"
    /\ state' = [state EXCEPT ![current] = "DEAD"]
    /\ UNCHANGED <<pid, kind, kstack, esp, current, nextId, quantum, tss, cpu,
                   creation, torn>>

(* int 0x80 with SYS_EXIT: the current entry is marked DEAD and the same   *)
(* trap reschedules.  Only user tasks make system calls.                   *)
SysExit ==
    /\ ~torn
    /\ kind[current] = "user"
    /\ state[current] = "RUNNING"
    /\ Reschedule([state EXCEPT ![current] = "DEAD"])
    /\ UNCHANGED quantum

(* int 0x80 with SYS_YIELD: g_yield_requested is set and consumed by the   *)
(* same trap.  The slice of the next task is not restarted.                *)
SysYield ==
    /\ ~torn
    /\ kind[current] = "user"
    /\ state[current] = "RUNNING"
    /\ Reschedule(state)
    /\ UNCHANGED quantum

(* task_trampoline after the entry function returns: the task marks itself *)
(* DEAD and halts until an interrupt reaps it.  The shell thread is not    *)
(* started by the trampoline and the idle loop never returns; task_create  *)
(* accepts any other entry (the only one in the tree, bg_worker, loops).   *)
EntryReturns ==
    /\ ~torn
    /\ kind[current] = "kernel"
    /\ state[current] = "RUNNING"
    /\ current \notin {ShellSlot, IdleSlot}
    /\ state' = [state EXCEPT ![current] = "DEAD"]
    /\ UNCHANGED <<pid, kind, kstack, esp, current, nextId, quantum, tss, cpu,
                   creation, torn>>

-----------------------------------------------------------------------------
(* task_create and task_create_user, called by the shell thread.           *)

(* Mutant: alloc_slot only skips the running task.                         *)
IsFreeUnlessRunning(s) == state[s] # "RUNNING"

(* alloc_slot: the lowest entry that is UNUSED or DEAD.                    *)
IsFree(s) == state[s] \in {"UNUSED", "DEAD"}
LowestFree(s) == IsFree(s) /\ \A j \in Slots : j < s => ~IsFree(j)

(* With no free entry task_create returns -1 and nothing changes.          *)
CreateBegin(k) ==
    /\ ~torn
    /\ cpu = ShellPid
    /\ creation.step = "none"
    /\ nextId <= MaxPid
    /\ \E s \in Slots :
          /\ LowestFree(s)
          /\ creation' = [step |-> "allocated", slot |-> s, kind |-> k]
    /\ UNCHANGED <<table, current, nextId, quantum, tss, cpu, torn>>

(* kmalloc_aligned returns 0, or map_user_stack finds no frame.            *)
CreateFails ==
    /\ ~torn
    /\ cpu = ShellPid
    /\ creation.step = "allocated"
    /\ creation' = NotCreating
    /\ UNCHANGED <<table, current, nextId, quantum, tss, cpu, torn>>

(* id = g_next_id++; state = TASK_READY; from here the entry is eligible.  *)
CreatePublish ==
    /\ ~torn
    /\ cpu = ShellPid
    /\ creation.step = "allocated"
    /\ pid'      = [pid EXCEPT ![creation.slot] = nextId]
    /\ state'    = [state EXCEPT ![creation.slot] = "READY"]
    /\ nextId'   = nextId + 1
    /\ creation' = [creation EXCEPT !.step = "published"]
    /\ UNCHANGED <<kind, kstack, esp, current, quantum, tss, cpu, torn>>

(* kind, entry, arg and the kernel stack.                                  *)
CreateSetStack ==
    /\ ~torn
    /\ cpu = ShellPid
    /\ creation.step = "published"
    /\ kind'     = [kind EXCEPT ![creation.slot] = creation.kind]
    /\ kstack'   = [kstack EXCEPT ![creation.slot] = pid[creation.slot]]
    /\ creation' = [creation EXCEPT !.step = "stacked"]
    /\ UNCHANGED <<state, pid, esp, current, nextId, quantum, tss, cpu, torn>>

(* esp = build_initial_esp_...(): the frame the task will start from.      *)
CreateSetFrame ==
    /\ ~torn
    /\ cpu = ShellPid
    /\ creation.step = "stacked"
    /\ esp'      = [esp EXCEPT ![creation.slot] = pid[creation.slot]]
    /\ creation' = NotCreating
    /\ UNCHANGED <<state, pid, kind, kstack, current, nextId, quantum, tss,
                   cpu, torn>>

TaskCreate ==
    \/ \E k \in TaskKind : CreateBegin(k)
    \/ CreateFails
    \/ CreatePublish
    \/ CreateSetStack
    \/ CreateSetFrame

-----------------------------------------------------------------------------
(* After a torn switch the behaviour is cut: it only stutters.             *)
Torn == torn /\ UNCHANGED vars

Next ==
    \/ TimerIrq
    \/ SysExit
    \/ SysYield
    \/ EntryReturns
    \/ TaskCreate
    \/ Torn

Spec == Init /\ [][Next]_vars

(* The PIT keeps interrupting: interrupts are only ever off for the length *)
(* of a handler or of a short cli section.  No task is assumed to do       *)
(* anything: it may loop forever, as bg_worker does.                       *)
FairSpec == Spec /\ WF_vars(TimerIrq)

-----------------------------------------------------------------------------
(* Properties.                                                             *)

(* Every variable keeps the range its C declaration gives it.              *)
TypeOK ==
    /\ state    \in [Slots -> TaskState]
    /\ pid      \in [Slots -> Nat]
    /\ kind     \in [Slots -> TaskKind]
    /\ kstack   \in [Slots -> Nat]
    /\ esp      \in [Slots -> Nat]
    /\ current  \in Slots
    /\ nextId   \in Nat
    /\ quantum  \in 0 .. QUANTUM_TICKS - 1
    /\ tss      \in Nat
    /\ cpu      \in Nat
    /\ creation \in [step : CreationStep, slot : Slots, kind : TaskKind]
    /\ torn     \in BOOLEAN

(* The table and the machine agree on who runs: g_current is the only      *)
(* entry marked RUNNING, the processor executes the context of that very   *)
(* task, and every other task that waits has its own frame, and nobody     *)
(* else's, in its entry (task_maybe_switch, do_switch, build_initial_esp). *)
ContextIdentity ==
    ~torn =>
       /\ cpu = pid[current]
       /\ \A s \in Slots \ {current} :
             /\ state[s] # "RUNNING"
             /\ state[s] = "READY" /\ ~HalfBuilt(s) => esp[s] = pid[s]

(* A trap from ring 3 lands on the kernel stack of the task it came from:  *)
(* whenever a user task runs, TSS.esp0 is the top of its own stack, however *)
(* many switches to the stackless shell (which leave esp0 alone) came      *)
(* before (do_switch, tss_set_esp0).                                       *)
TrapStackIsOwn ==
    ~torn /\ kind[current] = "user" => tss = pid[current]

(* SYS_EXIT never returns: the trap that marks a user task DEAD also takes *)
(* the processor from it, so a DEAD entry that is still current belongs to *)
(* a kernel task halting in its trampoline (syscall.c, task_maybe_switch). *)
ExitTakesTheCpu ==
    ~torn /\ state[current] = "DEAD" => kind[current] = "kernel"

(* alloc_slot chooses an entry, then task_create is preempted for as long  *)
(* as the other tasks like, then the entry is overwritten: no live task    *)
(* loses its entry to it, and no entry leaves the table for good           *)
(* (alloc_slot, task_create).                                              *)
LiveEntriesAreKept ==
    [][\A s \in Slots : state[s] \in {"READY", "RUNNING"} =>
          pid'[s] = pid[s] /\ state'[s] # "UNUSED"]_vars

(* Whatever the other tasks do, as long as no switch is torn a task that   *)
(* is ready gets the processor: the scan of pick_next_ready starts after   *)
(* the current entry, and a slice ends after QUANTUM_TICKS interrupts.     *)
NoStarvation ==
    []~torn => \A s \in Slots : state[s] = "READY" ~> state[s] = "RUNNING"

(* "esp: saved IRQ-frame pointer" (task.c:43): the frame that a switch     *)
(* loads is the frame of the task it switches to.  The code does not keep  *)
(* this: task_create makes an entry READY (task.c:209) before it has a     *)
(* frame (task.c:216).                                                     *)
SwitchLoadsOwnFrame ==
    [][current' # current => esp[current'] = pid[current']]_vars

=============================================================================
