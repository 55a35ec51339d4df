--------------------------- MODULE SchedulerProofs ---------------------------
(***************************************************************************)
(* Theorems about Scheduler, for every table size, slice and number of     *)
(* creations.  Inv is the inductive invariant: what ties the table, the    *)
(* context on the processor, TSS.esp0 and the progress of task_create      *)
(* together between two traps.                                             *)
(***************************************************************************)
EXTENDS Scheduler, TLAPS

(* Exactly the current entry may be marked RUNNING.                        *)
OneRunning ==
    /\ state[current] \in {"RUNNING", "DEAD"}
    /\ \A s \in Slots \ {current} : state[s] # "RUNNING"

(* The shell and the idle task are kernel tasks that never die, and no     *)
(* other entry is ever given the id of the shell.                          *)
Permanent ==
    /\ \A s \in {ShellSlot, IdleSlot} :
          state[s] \in {"READY", "RUNNING"} /\ kind[s] = "kernel"
    /\ \A s \in Slots : pid[s] = ShellPid <=> s = ShellSlot
    /\ nextId > ShellPid

(* An entry under construction is neither permanent nor current; it is     *)
(* free until it is published and waits from then on.                      *)
Construction ==
    creation.step # "none" =>
       /\ creation.slot \notin {ShellSlot, IdleSlot, current}
       /\ creation.step = "allocated" => IsFree(creation.slot)
       /\ creation.step # "allocated" => state[creation.slot] = "READY"
       /\ creation.step = "stacked" => kstack[creation.slot] = pid[creation.slot]

(* A live entry has an id; a finished one has, if it waits, its own frame, *)
(* and, if it is a user task, its own kernel stack.                        *)
Entries ==
    \A s \in Slots :
       state[s] \in {"READY", "RUNNING"} =>
          /\ pid[s] # 0
          /\ ~HalfBuilt(s) =>
                /\ state[s] = "READY" => esp[s] = pid[s]
                /\ kind[s] = "user" => kstack[s] = pid[s]

(* What the machine runs, and on which stack it would trap.                *)
Machine ==
    /\ cpu = pid[current]
    /\ kind[current] = "user" => tss = pid[current]
    /\ state[current] = "DEAD" => kind[current] = "kernel"

Intact == Permanent /\ Construction /\ Entries /\ Machine

Inv == TypeOK /\ OneRunning /\ (~torn => Intact)

LEMMA SlotFacts ==
    /\ ShellSlot \in Slots
    /\ IdleSlot \in Slots
    /\ ShellSlot # IdleSlot
BY TaskMaxAssumption DEF Slots, ShellSlot, IdleSlot

(* pick_next_ready returns a READY entry, or the current one if there is   *)
(* none.                                                                   *)
LEMMA PicksReady ==
    ASSUME NEW st, NEW n \in Slots, Picks(st, n)
    PROVE  \/ st[n] = "READY"
           \/ n = current /\ \A s \in Slots : st[s] # "READY"
BY DEF Picks

LEMMA InitInv == Init => Inv
<1> SUFFICES ASSUME Init PROVE Inv
    OBVIOUS
<1> USE SlotFacts, QuantumAssumption DEF Init, ShellPid, IdlePid, NoFrame, NoStack, NotCreating
<1>1. TypeOK
  <2>1. state \in [Slots -> TaskState]
    BY DEF TaskState
  <2>2. /\ pid \in [Slots -> Nat]
        /\ kind \in [Slots -> TaskKind]
        /\ kstack \in [Slots -> Nat]
        /\ esp \in [Slots -> Nat]
    BY DEF TaskKind
  <2>3. creation \in [step : CreationStep, slot : Slots, kind : TaskKind]
    BY DEF TaskKind, CreationStep
  <2>4. quantum \in 0 .. QUANTUM_TICKS - 1
    OBVIOUS
  <2>5. current \in Slots /\ nextId \in Nat /\ tss \in Nat /\ cpu \in Nat
    OBVIOUS
  <2>6. torn \in BOOLEAN
    OBVIOUS
  <2>. QED BY Zenon, <2>1, <2>2, <2>3, <2>4, <2>5, <2>6 DEF TypeOK
<1>2. OneRunning
    BY DEF OneRunning, ShellSlot, IdleSlot
<1>3. Permanent
    BY DEF Permanent, ShellSlot, IdleSlot
<1>4. Construction
    BY DEF Construction
<1>5. Entries
    BY DEF Entries, HalfBuilt, ShellSlot, IdleSlot
<1>6. Machine
    BY DEF Machine, ShellSlot
<1>. QED
    BY <1>1, <1>2, <1>3, <1>4, <1>5, <1>6 DEF Inv, Intact

(* The heart of the matter: rescheduling keeps everything but quantum.     *)
(* The table the handler hands over is the one it found, or the one where  *)
(* SYS_EXIT has just killed the current user task.                         *)
LEMMA ReschedulePreserves ==
    ASSUME Inv, ~torn, NEW st, Reschedule(st),
           \/ st = state
           \/ kind[current] = "user" /\ st = [state EXCEPT ![current] = "DEAD"],
           quantum' \in 0 .. QUANTUM_TICKS - 1
    PROVE  Inv'
<1> USE DEF Inv, Intact
<1>1. PICK n \in Slots :
         /\ Picks(st, n)
         /\ \/ n # current /\ DoSwitch(st, n)
            \/ /\ n = current
               /\ state' = st
               /\ UNCHANGED <<esp, current, tss, cpu, torn>>
    BY DEF Reschedule
<1>2. UNCHANGED <<pid, kind, kstack, nextId, creation>>
    BY DEF Reschedule
<1>3. /\ st \in [Slots -> TaskState]
      /\ st[current] \in {"RUNNING", "DEAD"}
      /\ \A s \in Slots \ {current} : st[s] = state[s]
    BY DEF TypeOK, OneRunning, TaskState
<1>4. CASE n # current /\ DoSwitch(st, n)
  <2>1. st[n] = "READY" /\ state[n] = "READY"
    BY <1>1, <1>3, <1>4, PicksReady
  <2>2. /\ state' \in [Slots -> TaskState]
        /\ state'[n] = "RUNNING"
        /\ state'[current] \in {"READY", "DEAD"}
        /\ state'[current] = "READY" => state[current] = "RUNNING"
        /\ \A s \in Slots \ {n, current} : state'[s] = state[s]
    BY <1>3, <1>4 DEF DoSwitch, TypeOK, TaskState
  <2>3. TypeOK'
    BY <1>2, <1>4, <2>2 DEF DoSwitch, TypeOK
  <2>4. OneRunning'
    BY <1>4, <2>2 DEF DoSwitch, OneRunning
  <2>5. SUFFICES ASSUME ~torn' PROVE Intact'
    BY <2>3, <2>4
  <2>6. ~HalfBuilt(n) /\ current' = n
    BY <1>4, <2>5 DEF DoSwitch
  <2>7. esp[n] = pid[n] /\ pid[n] # 0
    BY <2>1, <2>6 DEF Entries
  <2>8. cpu' = pid[n]
    BY <1>4, <2>7 DEF DoSwitch, NoFrame
  <2>9. Permanent'
    <3>1. ASSUME NEW s \in {ShellSlot, IdleSlot} PROVE state'[s] \in {"READY", "RUNNING"}
      <4>1. state[s] \in {"READY", "RUNNING"} /\ kind[s] = "kernel" /\ s \in Slots
        BY SlotFacts DEF Permanent
      <4>2. CASE s = current
        <5>1. kind[current] # "user" /\ state[current] = "RUNNING"
          BY <4>1, <4>2 DEF OneRunning
        <5>2. st = state
          BY <5>1
        <5>. QED BY <1>4, <4>2, <5>1, <5>2 DEF DoSwitch, TypeOK
      <4>3. CASE s # current
        BY <4>1, <4>3, <2>2
      <4>. QED BY <4>2, <4>3
    <3>. QED BY <3>1, <1>2 DEF Permanent
  <2>10. Construction'
    <3>1. SUFFICES ASSUME creation.step # "none" PROVE Construction'
      BY <1>2 DEF Construction
    <3>2. creation.slot \in Slots
      BY DEF TypeOK
    <3>3. creation.slot # n
      <4>1. CASE creation.step = "allocated"
        BY <3>1, <4>1, <2>1 DEF Construction, IsFree
      <4>2. CASE creation.step # "allocated"
        BY <3>1, <4>2, <2>6 DEF HalfBuilt, TypeOK, CreationStep
      <4>. QED BY <4>1, <4>2
    <3>4. creation.slot # current
      BY <3>1 DEF Construction
    <3>5. state'[creation.slot] = state[creation.slot]
      BY <2>2, <3>2, <3>3, <3>4
    <3>. QED
      BY <1>2, <2>6, <3>1, <3>3, <3>5 DEF Construction, IsFree
  <2>11. Entries'
    <3>1. SUFFICES ASSUME NEW s \in Slots, state'[s] \in {"READY", "RUNNING"}
                   PROVE  /\ pid[s] # 0
                          /\ ~HalfBuilt(s) => /\ state'[s] = "READY" => esp'[s] = pid[s]
                                              /\ kind[s] = "user" => kstack[s] = pid[s]
      BY <1>2 DEF Entries, HalfBuilt
    <3>2. CASE s = n
      BY <2>1, <2>2, <2>6, <3>2 DEF Entries
    <3>3. CASE s = current
      <4>1. state[s] = "RUNNING"
        BY <2>2, <3>1, <3>3
      <4>2. esp'[s] = cpu
        BY <1>4, <3>3 DEF DoSwitch, TypeOK
      <4>3. cpu = pid[s]
        BY <3>3 DEF Machine
      <4>4. pid[s] # 0 /\ (~HalfBuilt(s) => (kind[s] = "user" => kstack[s] = pid[s]))
        BY <4>1 DEF Entries
      <4>. QED BY <4>2, <4>3, <4>4
    <3>4. CASE s \notin {n, current}
      <4>1. state'[s] = state[s] /\ esp'[s] = esp[s]
        BY <1>4, <2>2, <3>4 DEF DoSwitch, TypeOK
      <4>. QED BY <3>1, <4>1 DEF Entries
    <3>. QED BY <3>2, <3>3, <3>4
  <2>12. Machine'
    <3>1. kind[n] = "user" => kstack[n] = pid[n]
      BY <2>1, <2>6 DEF Entries
    <3>2. kind[n] = "user" => tss' = pid[n]
      BY <1>4, <2>7, <3>1 DEF DoSwitch, NoStack
    <3>. QED BY <1>2, <2>2, <2>6, <2>8, <3>2 DEF Machine
  <2>. QED BY <2>9, <2>10, <2>11, <2>12
<1>5. CASE n = current /\ state' = st /\ UNCHANGED <<esp, current, tss, cpu, torn>>
  <2>1. \A s \in Slots : st[s] # "READY"
    BY <1>1, <1>3, <1>5, PicksReady
  <2>2. st = state
    (* otherwise the idle task would be READY *)
    <3>1. SUFFICES ASSUME kind[current] = "user" PROVE FALSE
      OBVIOUS
    <3>2. IdleSlot \in Slots \ {current}
      BY <3>1, SlotFacts DEF Permanent
    <3>3. st[IdleSlot] = "READY"
      BY <1>3, <3>2 DEF Permanent, OneRunning
    <3>. QED BY <2>1, <3>3, SlotFacts
  <2>3. UNCHANGED <<state, pid, kind, kstack, esp, current, nextId, tss, cpu, creation, torn>>
    BY <1>2, <1>5, <2>2
  <2>. QED
    BY <2>3 DEF TypeOK, OneRunning, Permanent, Construction, IsFree, Entries,
                HalfBuilt, Machine
<1>. QED BY <1>1, <1>4, <1>5

(* The steps of the shell thread inside task_create run only while the     *)
(* shell is the current task: the context identity is what says so.        *)
LEMMA ShellIsCurrent ==
    ASSUME Inv, ~torn, cpu = ShellPid
    PROVE  current = ShellSlot /\ state[ShellSlot] = "RUNNING"
BY SlotFacts DEF Inv, Intact, Machine, Permanent, OneRunning, TypeOK

LEMMA CreatePreserves ==
    ASSUME Inv, TaskCreate
    PROVE  Inv'
<1> USE SlotFacts DEF Inv, Intact
<1>0. /\ ~torn /\ torn' = torn /\ cpu = ShellPid
      /\ UNCHANGED <<current, quantum, tss, cpu>>
    BY DEF TaskCreate, CreateBegin, CreateFails, CreatePublish, CreateSetStack,
           CreateSetFrame
<1>1. current = ShellSlot /\ state[ShellSlot] = "RUNNING"
    BY <1>0, ShellIsCurrent
<1>2. CASE \E k \in TaskKind : CreateBegin(k)
  <2>1. PICK k \in TaskKind : CreateBegin(k)
    BY <1>2
  <2>2. PICK s \in Slots :
           LowestFree(s) /\ creation' = [step |-> "allocated", slot |-> s, kind |-> k]
    BY <2>1 DEF CreateBegin
  <2>3. UNCHANGED <<state, pid, kind, kstack, esp, current, nextId, quantum, tss, cpu, torn>>
    BY <2>1 DEF CreateBegin, table
  <2>4. IsFree(s) /\ s \notin {ShellSlot, IdleSlot, current}
    BY <1>0, <1>1, <2>2 DEF LowestFree, IsFree, Permanent
  <2>5. TypeOK'
    BY <2>2, <2>3 DEF TypeOK, CreationStep
  <2>6. Construction'
    BY <2>2, <2>3, <2>4 DEF Construction, IsFree
  <2>7. Entries'
    <3>1. SUFFICES ASSUME NEW r \in Slots, state[r] \in {"READY", "RUNNING"}
                   PROVE  /\ pid[r] # 0
                          /\ state[r] = "READY" => esp[r] = pid[r]
                          /\ kind[r] = "user" => kstack[r] = pid[r]
      BY <2>3 DEF Entries
    <3>2. creation.step = "none"
      BY <2>1 DEF CreateBegin
    <3>. QED BY <1>0, <3>1, <3>2 DEF Entries, HalfBuilt
  <2>. QED BY <1>0, <2>3, <2>5, <2>6, <2>7 DEF OneRunning, Permanent, Machine
<1>3. CASE CreateFails
  <2>1. UNCHANGED <<state, pid, kind, kstack, esp, current, nextId, quantum, tss, cpu, torn>>
    BY <1>3 DEF CreateFails, table
  <2>2. creation' = NotCreating /\ creation.step = "allocated"
    BY <1>3 DEF CreateFails
  <2>3. TypeOK'
    BY <2>1, <2>2 DEF TypeOK, NotCreating, CreationStep, TaskKind
  <2>4. Construction'
    BY <2>2 DEF Construction, NotCreating
  <2>5. Entries'
    BY <1>0, <2>1, <2>2 DEF Entries, HalfBuilt, NotCreating
  <2>. QED BY <1>0, <2>1, <2>3, <2>4, <2>5 DEF OneRunning, Permanent, Machine
<1>4. CASE CreatePublish
  <2> DEFINE c == creation.slot
  <2>1. /\ c \in Slots \ {ShellSlot, IdleSlot, current}
        /\ creation.step = "allocated"
    BY <1>0, <1>4 DEF CreatePublish, Construction, TypeOK
  <2>2. /\ pid' = [pid EXCEPT ![c] = nextId]
        /\ state' = [state EXCEPT ![c] = "READY"]
        /\ nextId' = nextId + 1
        /\ creation' = [creation EXCEPT !.step = "published"]
        /\ UNCHANGED <<kind, kstack, esp, current, quantum, tss, cpu, torn>>
    BY <1>4 DEF CreatePublish
  <2>3. /\ creation'.step = "published" /\ creation'.slot = c
        /\ creation' \in [step : CreationStep, slot : Slots, kind : TaskKind]
    BY <2>2 DEF TypeOK, CreationStep
  <2>4. TypeOK'
    BY <2>1, <2>2, <2>3 DEF TypeOK, TaskState
  <2>5. OneRunning'
    BY <2>1, <2>2 DEF OneRunning, TypeOK
  <2>6. Permanent'
    BY <1>0, <2>1, <2>2 DEF Permanent, TypeOK, ShellPid
  <2>7. Construction'
    BY <2>1, <2>2, <2>3 DEF Construction, TypeOK
  <2>8. Entries'
    <3>1. SUFFICES ASSUME NEW r \in Slots, state'[r] \in {"READY", "RUNNING"}
                   PROVE  /\ pid'[r] # 0
                          /\ ~HalfBuilt(r)' =>
                                /\ state'[r] = "READY" => esp[r] = pid'[r]
                                /\ kind[r] = "user" => kstack[r] = pid'[r]
      BY <2>2 DEF Entries
    <3>2. CASE r = c
      BY <1>0, <2>2, <2>3, <3>2 DEF HalfBuilt, TypeOK, Permanent, ShellPid
    <3>3. CASE r # c
      BY <1>0, <2>1, <2>2, <3>1, <3>3 DEF Entries, HalfBuilt, TypeOK
    <3>. QED BY <3>2, <3>3
  <2>9. Machine'
    BY <1>0, <2>1, <2>2 DEF Machine, TypeOK
  <2>. QED BY <2>4, <2>5, <2>6, <2>7, <2>8, <2>9
<1>5. CASE CreateSetStack
  <2> DEFINE c == creation.slot
  <2>1. /\ c \in Slots \ {ShellSlot, IdleSlot, current}
        /\ creation.step = "published" /\ state[c] = "READY"
    BY <1>0, <1>5 DEF CreateSetStack, Construction, TypeOK
  <2>2. /\ kind' = [kind EXCEPT ![c] = creation.kind]
        /\ kstack' = [kstack EXCEPT ![c] = pid[c]]
        /\ creation' = [creation EXCEPT !.step = "stacked"]
        /\ UNCHANGED <<state, pid, esp, current, nextId, quantum, tss, cpu, torn>>
    BY <1>5 DEF CreateSetStack
  <2>3. /\ creation'.step = "stacked" /\ creation'.slot = c
        /\ creation' \in [step : CreationStep, slot : Slots, kind : TaskKind]
    BY <2>2 DEF TypeOK, CreationStep
  <2>4. TypeOK'
    BY <2>1, <2>2, <2>3 DEF TypeOK
  <2>5. OneRunning'
    BY <2>2 DEF OneRunning
  <2>6. Permanent'
    BY <1>0, <2>1, <2>2 DEF Permanent, TypeOK
  <2>7. Construction'
    BY <2>1, <2>2, <2>3 DEF Construction, TypeOK
  <2>8. Entries'
    <3>1. SUFFICES ASSUME NEW r \in Slots, state[r] \in {"READY", "RUNNING"}
                   PROVE  /\ pid[r] # 0
                          /\ ~HalfBuilt(r)' =>
                                /\ state[r] = "READY" => esp[r] = pid[r]
                                /\ kind'[r] = "user" => kstack'[r] = pid[r]
      BY <2>2 DEF Entries
    <3>2. CASE r = c
      BY <1>0, <2>3, <3>1, <3>2 DEF HalfBuilt, Entries
    <3>3. CASE r # c
      BY <1>0, <2>1, <2>2, <3>1, <3>3 DEF Entries, HalfBuilt, TypeOK
    <3>. QED BY <3>2, <3>3
  <2>9. Machine'
    BY <1>0, <2>1, <2>2 DEF Machine, TypeOK
  <2>. QED BY <2>4, <2>5, <2>6, <2>7, <2>8, <2>9
<1>6. CASE CreateSetFrame
  <2> DEFINE c == creation.slot
  <2>1. /\ c \in Slots \ {ShellSlot, IdleSlot, current}
        /\ creation.step = "stacked" /\ state[c] = "READY"
    BY <1>0, <1>6 DEF CreateSetFrame, Construction, TypeOK
  <2>2. /\ esp' = [esp EXCEPT ![c] = pid[c]]
        /\ creation' = NotCreating
        /\ UNCHANGED <<state, pid, kind, kstack, current, nextId, quantum, tss, cpu, torn>>
    BY <1>6 DEF CreateSetFrame
  <2>3. TypeOK'
    BY <2>1, <2>2 DEF TypeOK, NotCreating, CreationStep, TaskKind
  <2>4. Construction'
    BY <2>2 DEF Construction, NotCreating
  <2>5. Entries'
    <3>1. SUFFICES ASSUME NEW r \in Slots, state[r] \in {"READY", "RUNNING"}
                   PROVE  /\ pid[r] # 0
                          /\ state[r] = "READY" => esp'[r] = pid[r]
                          /\ kind[r] = "user" => kstack[r] = pid[r]
      BY <2>2 DEF Entries
    <3>2. CASE r = c
      BY <1>0, <2>1, <2>2, <3>1, <3>2 DEF Entries, Construction, TypeOK
    <3>3. CASE r # c
      BY <1>0, <2>1, <2>2, <3>1, <3>3 DEF Entries, HalfBuilt, TypeOK
    <3>. QED BY <3>2, <3>3
  <2>. QED BY <1>0, <2>2, <2>3, <2>4, <2>5 DEF OneRunning, Permanent, Machine
<1>. QED BY <1>2, <1>3, <1>4, <1>5, <1>6 DEF TaskCreate

LEMMA NextInv == Inv /\ [Next]_vars => Inv'
<1> SUFFICES ASSUME Inv, [Next]_vars PROVE Inv'
    OBVIOUS
<1>1. CASE CaptureFirstFrame
  <2>1. UNCHANGED <<state, pid, kind, kstack, current, nextId, quantum, tss, cpu, creation, torn>>
    BY <1>1 DEF CaptureFirstFrame
  <2>2. esp' = [esp EXCEPT ![current] = cpu] /\ ~torn
    BY <1>1 DEF CaptureFirstFrame
  <2>3. TypeOK'
    BY <2>1, <2>2 DEF Inv, TypeOK
  <2>4. Entries'
    BY <2>1, <2>2 DEF Inv, Intact, TypeOK, OneRunning, Entries, HalfBuilt
  <2>. QED
    BY <2>1, <2>2, <2>3, <2>4 DEF Inv, Intact, OneRunning, Permanent,
       Construction, IsFree, Machine
<1>2. CASE Reap
  <2>1. quantum' \in 0 .. QUANTUM_TICKS - 1
    BY <1>2 DEF Reap, Inv, TypeOK
  <2>. QED BY <1>2, <2>1, ReschedulePreserves DEF Reap
<1>3. CASE CountTick
  <2>1. UNCHANGED <<state, pid, kind, kstack, esp, current, nextId, tss, cpu, creation, torn>>
    BY <1>3 DEF CountTick, table
  <2>2. quantum' \in 0 .. QUANTUM_TICKS - 1
    BY <1>3, QuantumAssumption DEF CountTick, Inv, TypeOK
  <2>. QED
    BY <2>1, <2>2 DEF Inv, TypeOK, Intact, OneRunning, Permanent, Construction,
       IsFree, Entries, HalfBuilt, Machine
<1>4. CASE EndOfSlice
  <2>1. quantum' \in 0 .. QUANTUM_TICKS - 1
    BY <1>4, QuantumAssumption DEF EndOfSlice
  <2>. QED BY <1>4, <2>1, ReschedulePreserves DEF EndOfSlice
<1>5. CASE SysExit
  <2>1. quantum' \in 0 .. QUANTUM_TICKS - 1
    BY <1>5 DEF SysExit, Inv, TypeOK
  <2>. QED BY <1>5, <2>1, ReschedulePreserves DEF SysExit
<1>6. CASE SysYield
  <2>1. quantum' \in 0 .. QUANTUM_TICKS - 1
    BY <1>6 DEF SysYield, Inv, TypeOK
  <2>. QED BY <1>6, <2>1, ReschedulePreserves DEF SysYield
<1>7. CASE EntryReturns
  <2>1. /\ ~torn /\ kind[current] = "kernel" /\ current \notin {ShellSlot, IdleSlot}
        /\ state' = [state EXCEPT ![current] = "DEAD"]
        /\ UNCHANGED <<pid, kind, kstack, esp, current, nextId, quantum, tss, cpu, creation, torn>>
    BY <1>7 DEF EntryReturns
  <2>2. Intact /\ TypeOK /\ OneRunning
    BY <2>1 DEF Inv
  <2>3. TypeOK' /\ OneRunning'
    BY <2>1, <2>2 DEF TypeOK, TaskState, OneRunning
  <2>4. Permanent'
    BY <2>1, <2>2, SlotFacts DEF Intact, Permanent, TypeOK
  <2>5. Construction'
    BY <2>1, <2>2 DEF Intact, Construction, IsFree, TypeOK
  <2>6. Entries'
    BY <2>1, <2>2 DEF Intact, Entries, HalfBuilt, TypeOK
  <2>7. Machine'
    BY <2>1, <2>2 DEF Intact, Machine, TypeOK
  <2>. QED BY <2>3, <2>4, <2>5, <2>6, <2>7 DEF Inv, Intact
<1>8. CASE TaskCreate
  BY <1>8, CreatePreserves
<1>9. CASE Torn \/ UNCHANGED vars
  <2>1. UNCHANGED <<state, pid, kind, kstack, esp, current, nextId, quantum, tss, cpu, creation, torn>>
    BY <1>9 DEF Torn, vars, table
  <2>. QED
    BY <2>1 DEF Inv, TypeOK, Intact, OneRunning, Permanent, Construction,
       IsFree, Entries, HalfBuilt, Machine
<1>. QED
  BY <1>1, <1>2, <1>3, <1>4, <1>5, <1>6, <1>7, <1>8, <1>9 DEF Next, TimerIrq

(* The inductive invariant holds throughout.                               *)
THEOREM InvHolds == Spec => []Inv
BY InitInv, NextInv, PTL DEF Spec

(* Every variable of the scheduler keeps its type, for every table size    *)
(* and slice; in particular g_quantum never reaches QUANTUM_TICKS.         *)
THEOREM TypeCorrect == Spec => []TypeOK
<1>1. Inv => TypeOK
  BY DEF Inv
<1>. QED BY <1>1, InvHolds, PTL

(* As long as no switch is torn, g_current is the task whose context the   *)
(* processor executes, and every waiting task is resumed from its own      *)
(* frame.                                                                  *)
THEOREM ContextsStayWithTheirTasks == Spec => []ContextIdentity
<1>1. Inv => ContextIdentity
  BY DEF Inv, Intact, ContextIdentity, OneRunning, Machine, Entries
<1>. QED BY <1>1, InvHolds, PTL

(* As long as no switch is torn, a user task traps onto its own kernel     *)
(* stack.                                                                  *)
THEOREM TrapsUseTheirOwnStack == Spec => []TrapStackIsOwn
<1>1. Inv => TrapStackIsOwn
  BY DEF Inv, Intact, TrapStackIsOwn, Machine
<1>. QED BY <1>1, InvHolds, PTL

(* The processor never returns to a user task that has called SYS_EXIT:    *)
(* the idle task is READY whenever a user task runs, so the trap always    *)
(* finds somebody to switch to.                                            *)
THEOREM ExitIsFinal == Spec => []ExitTakesTheCpu
<1>1. Inv => ExitTakesTheCpu
  BY DEF Inv, Intact, ExitTakesTheCpu, Machine
<1>. QED BY <1>1, InvHolds, PTL

LEMMA LiveEntryStep ==
    ASSUME Inv, [Next]_vars, NEW s \in Slots, state[s] \in {"READY", "RUNNING"}
    PROVE  pid'[s] = pid[s] /\ state'[s] # "UNUSED"
<1> USE DEF Inv, TypeOK
<1>1. ASSUME NEW st, Reschedule(st), st[s] # "UNUSED", st \in [Slots -> TaskState]
      PROVE  pid'[s] = pid[s] /\ state'[s] # "UNUSED"
  BY <1>1 DEF Reschedule, DoSwitch
<1>2. CASE TimerIrq \/ SysYield
  BY <1>1, <1>2 DEF TimerIrq, CaptureFirstFrame, Reap, CountTick, EndOfSlice, SysYield, table
<1>3. CASE SysExit
  <2>1. Reschedule([state EXCEPT ![current] = "DEAD"])
    BY <1>3 DEF SysExit
  <2>. QED BY <1>1, <2>1 DEF TaskState
<1>4. CASE EntryReturns
  BY <1>4 DEF EntryReturns
<1>5. CASE CreatePublish
  <2>1. creation.step = "allocated" /\ ~torn
    BY <1>5 DEF CreatePublish
  <2>2. creation.slot # s
    BY <2>1 DEF Intact, Construction, IsFree
  <2>. QED BY <1>5, <2>2 DEF CreatePublish
<1>6. CASE UNCHANGED <<state, pid>>
  BY <1>6
<1>7. CASE TaskCreate
  BY <1>5, <1>6, <1>7 DEF TaskCreate, CreateBegin, CreateFails, CreateSetStack,
                          CreateSetFrame, table
<1>. QED
  BY <1>2, <1>3, <1>4, <1>6, <1>7 DEF Next, Torn, vars, table

(* task_create never takes the entry of a live task, although it is        *)
(* preempted between choosing the entry and overwriting it.                *)
THEOREM LiveEntriesStay == Spec => LiveEntriesAreKept
<1>1. Inv /\ [Next]_vars =>
         [\A s \in Slots : state[s] \in {"READY", "RUNNING"} =>
             pid'[s] = pid[s] /\ state'[s] # "UNUSED"]_vars
  BY LiveEntryStep
<1>. QED BY <1>1, InvHolds, PTL DEF Spec, LiveEntriesAreKept

=============================================================================
