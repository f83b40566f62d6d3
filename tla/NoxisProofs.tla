------------------------------ MODULE NoxisProofs ------------------------------
(***************************************************************************)
(* What noxis (23-fixes) keeps for any number of tasks, weights and demos, *)
(* and for any rings, tables and hosts: the task table agrees with the     *)
(* saved frames, no two tasks share a stack, a task keeps to its weight,   *)
(* and what PING counts is what went out and came back.                    *)
(***************************************************************************)
EXTENDS TaskSched, NoxisNet, FiniteSetTheorems, NaturalsInduction, TLAPS

TaskSpec == task_init /\ [][TaskNext]_taskVars

(***************************************************************************)
(* The tasks: the inductive invariant.                                     *)
(***************************************************************************)
Alive == {"poll", "work", "sleep_2", "sleep_3", "exit_1"}
CodeOf(s) == IF s \in overrun THEN Ended ELSE Alive
TaskTypes ==
  /\ TaskTypeOK
  /\ weight \in [Slot -> Nat] /\ stack_base \in [Slot -> Nat]
  /\ free_mem_addr \in Nat /\ slices \in Nat /\ overrun \subseteq Slot \ {0}
\* where the code of a task may be, by its state in the table: one that RUN put
\* into the slot of the ended task on the CPU stands in the end of that
FramesOK ==
  /\ \A s \in Slot : state[s] = "RUNNING" => s = current_task
  /\ state[0] \in {"READY", "RUNNING"} /\ FrameOf(0) = "kernel"
  /\ \A s \in Slot \ {0} : IF state[s] = "DEAD" THEN FrameOf(s) \in Ended \cup {"none"}
                           ELSE FrameOf(s) \in CodeOf(s) /\ weight[s] > 0
  /\ \A s \in overrun : state[s] # "DEAD"
  /\ cpu # "none"
StacksOK ==
  LET owners == {s \in Slot \ {0} : stack_base[s] # 0} IN
  /\ free_mem_addr = HEAP_START + Cardinality(owners)
  /\ \A s \in owners : stack_base[s] < free_mem_addr
  /\ \A s, t \in owners : s # t => stack_base[s] # stack_base[t]
\* the slices a task has had and those left make at most its weight
BudgetOK ==
  /\ current_task # 0 /\ state[current_task] # "DEAD"
       => slices + quantum_left[current_task] <= weight[current_task]
  /\ slices = 0 => current_task # 0
TaskInv == TaskTypes /\ FramesOK /\ StacksOK /\ BudgetOK

LEMMA TaskSizes ==
  /\ MAX_TASKS \in Nat /\ MAX_TASKS > 1 /\ SleepTicks \in Nat /\ SleepTicks > 0
  /\ 0 \in Slot /\ 1 \in Slot /\ Slot \subseteq Nat
  /\ \A d \in Demos : d[1] \in {"sleeps", "yields"} /\ d[2] \in Nat /\ d[2] > 0
BY TaskAssumption DEF TaskAssumption, Slot

\* A set of naturals has a least element.
LEMMA LeastExists ==
  ASSUME NEW S \in SUBSET Nat, S # {}
  PROVE  \E x \in S : \A y \in S : x <= y
<1> DEFINE R == {ss \in Nat \X Nat : ss[1] < ss[2]}
<1>1. IsWellFoundedOn(R, Nat)
  BY NatLessThanWellFounded DEF OpToRel
<1>2. PICK x \in S : \A y \in S : <<y, x>> \notin R
  <2> HIDE DEF R
  <2> QED
    BY <1>1, WFMin
<1>3. \A y \in S : x <= y
  <2> SUFFICES ASSUME NEW y \in S PROVE x <= y
    OBVIOUS
  <2>1. ~ (y < x)
    BY <1>2
  <2> QED
    BY <2>1
<1> QED
  BY <1>2, <1>3

\* The search of scheduler_tick() finds a task that may run, or the kernel's.
LEMMA NextTaskFacts ==
  ASSUME NEW st, NEW left, current_task \in Slot
  PROVE  /\ NextTask(st, left) \in Slot
         /\ NextTask(st, left) # 0 => Runnable(st, left, NextTask(st, left))
<1>1. \A i \in 1 .. MAX_TASKS : Nth(i) \in Slot /\ Nth(i) # 0
  <2> SUFFICES ASSUME NEW i \in 1 .. MAX_TASKS PROVE Nth(i) \in Slot /\ Nth(i) # 0
    OBVIOUS
  <2>1. current_task + i \in Nat /\ MAX_TASKS \in Nat /\ MAX_TASKS > 0
    BY TaskSizes DEF Slot
  <2>2. (current_task + i) % MAX_TASKS \in 0 .. MAX_TASKS - 1
    BY <2>1
  <2> QED
    BY <2>2, TaskSizes DEF Nth, Slot
<1>2. CASE Found(st, left) = {}
  BY <1>2, TaskSizes DEF NextTask
<1>3. CASE Found(st, left) # {}
  <2> DEFINE i == CHOOSE i \in Found(st, left) : \A j \in Found(st, left) : i <= j
  <2>1. Found(st, left) \subseteq Nat
    BY TaskSizes DEF Found
  <2>2. i \in Found(st, left)
    BY <1>3, <2>1, LeastExists
  <2>3. NextTask(st, left) = Nth(i)
    BY <1>3 DEF NextTask
  <2> QED
    BY <2>2, <2>3, <1>1 DEF Found
<1> QED
  BY <1>2, <1>3

LEMMA TaskInitOK == task_init => TaskInv
<1> SUFFICES ASSUME task_init PROVE TaskInv
  OBVIOUS
<1>1. TaskTypes
  BY TaskSizes DEF task_init, TaskTypes, TaskTypeOK, TaskPoints, HEAP_START
<1>2. FramesOK
  BY TaskSizes DEF task_init, FramesOK, FrameOf, Ended
<1>3. {s \in Slot \ {0} : stack_base[s] # 0} = {}
  BY DEF task_init
<1>4. StacksOK
  BY <1>3, FS_EmptySet DEF task_init, StacksOK, HEAP_START
<1> QED
  BY <1>1, <1>2, <1>4 DEF TaskInv, BudgetOK, task_init

\* Whatever enters scheduler_tick() and wherever it goes on.
LEMMA TickKeeps ==
  ASSUME TaskInv, NEW STATE at, NEW STATE left, left \in [Slot -> 0 .. SleepTicks],
         at = cpu \/ (at = "poll" /\ cpu \in {"work", "sleep_3"}),
         scheduler_tick(at, left)
  PROVE  TaskInv' /\ QuantumKept
<1> DEFINE st    == [state EXCEPT ![current_task] = Preempted]
           saved == [regs EXCEPT ![current_task] = at]
           next  == IF HasQuantum(st) THEN current_task ELSE NextTask(st, left)
<1>1. TaskTypes /\ FramesOK /\ StacksOK /\ BudgetOK /\ TaskTypeOK
  BY DEF TaskInv, TaskTypes
<1>2. /\ current_task \in Slot /\ cpu \in TaskPoints /\ regs \in [Slot -> TaskPoints]
      /\ state \in [Slot -> {"DEAD", "READY", "RUNNING", "SLEEPING"}]
      /\ quantum_left \in [Slot -> Nat] /\ weight \in [Slot -> Nat] /\ slices \in Nat
  BY <1>1 DEF TaskTypes, TaskTypeOK
<1>3. st \in [Slot -> {"DEAD", "READY", "RUNNING", "SLEEPING"}] /\ saved \in [Slot -> TaskPoints]
  BY <1>2 DEF Preempted, TaskPoints
<1>4. next \in Slot /\ (next # 0 => st[next] \in {"READY", "SLEEPING"})
  BY <1>2, NextTaskFacts, TaskSizes DEF HasQuantum, Runnable
<1>5. /\ wake_in' = left /\ regs' = [saved EXCEPT ![next] = "none"]
      /\ state' = [st EXCEPT ![next] = "RUNNING"]
      /\ quantum_left' = IF next = 0 THEN quantum_left
                         ELSE [quantum_left EXCEPT ![next] =
                                 IF HasQuantum(st) THEN @ - 1 ELSE Fresh(next)]
      /\ current_task' = next /\ cpu' = saved[next]
      /\ slices' = IF HasQuantum(st) THEN slices + 1 ELSE 1
      /\ UNCHANGED <<weight, kill_req, entry, stack_base, free_mem_addr, overrun>>
  BY Zenon DEF scheduler_tick
<1> HIDE DEF next
<1>6. \A s \in Slot : FrameOf(s)' = saved[s]
  BY <1>2, <1>3, <1>4, <1>5 DEF FrameOf
<1>7. \A s \in Slot : saved[s] = (IF s = current_task THEN at ELSE FrameOf(s))
  BY <1>2 DEF FrameOf
<1>8. \A s \in Slot : st[s] # "RUNNING" /\ (st[s] = "DEAD" <=> state[s] = "DEAD")
  BY <1>1, <1>2 DEF FramesOK, Preempted
<1>9. \A s \in Slot \ {0} : IF st[s] = "DEAD" THEN saved[s] \in Ended \cup {"none"}
                            ELSE saved[s] \in CodeOf(s) /\ weight[s] > 0
  BY <1>1, <1>2, <1>7, <1>8 DEF FramesOK, FrameOf, Ended, Alive, CodeOf
<1>10. st[0] \in {"READY", "RUNNING"} /\ saved[0] = "kernel"
  <2>1. 0 \in Slot /\ (current_task = 0 => cpu = "kernel")
    BY <1>1, TaskSizes DEF FramesOK, FrameOf
  <2> QED
    BY <1>1, <1>2, <1>7, <2>1 DEF FramesOK, FrameOf, Preempted
<1>11. FramesOK'
  <2>1. \A s \in Slot : state'[s] = IF s = next THEN "RUNNING" ELSE st[s]
    BY <1>3, <1>4, <1>5
  <2>2. overrun' = overrun /\ weight' = weight /\ current_task' = next
    BY <1>5
  <2>3. \A s \in overrun : state[s] # "DEAD"
    BY <1>1 DEF FramesOK
  <2>4. overrun \subseteq Slot
    BY <1>1 DEF TaskTypes
  <2>5. \A s \in overrun : state'[s] # "DEAD"
    BY <1>8, <2>1, <2>3, <2>4
  <2>6. \A s \in Slot \ {0} : IF state'[s] = "DEAD" THEN saved[s] \in Ended \cup {"none"}
                              ELSE saved[s] \in CodeOf(s) /\ weight[s] > 0
    BY <1>4, <1>9, <2>1
  <2>7. state'[0] \in {"READY", "RUNNING"} /\ FrameOf(0)' = "kernel"
    BY <1>6, <1>10, <2>1, TaskSizes
  <2>8. \A s \in Slot : state'[s] = "RUNNING" => s = next
    BY <1>8, <2>1
  <2>9. cpu' # "none"
    BY <1>4, <1>5, <1>8, <1>9, <1>10 DEF CodeOf, Ended, Alive
  <2> QED
    BY <1>6, <2>2, <2>5, <2>6, <2>7, <2>8, <2>9 DEF FramesOK, CodeOf
<1>12. HasQuantum(st) => next = current_task /\ current_task # 0 /\ quantum_left[next] > 0
                         /\ state[next] # "DEAD"
  BY <1>2, <1>8, TaskSizes DEF HasQuantum, next
<1>13. next # 0 => weight[next] \in Nat \ {0}
  BY <1>2, <1>4, <1>9
<1>14. quantum_left' \in [Slot -> Nat] /\ slices' \in Nat
  BY <1>2, <1>4, <1>5, <1>12, <1>13 DEF Fresh
<1>15. TaskTypes'
  <2>1. /\ state' \in [Slot -> {"DEAD", "READY", "RUNNING", "SLEEPING"}] /\ current_task' \in Slot
        /\ wake_in' \in [Slot -> 0 .. SleepTicks]
    BY <1>3, <1>4, <1>5
  <2>2. regs' \in [Slot -> TaskPoints] /\ cpu' \in TaskPoints
    BY <1>3, <1>4, <1>5 DEF TaskPoints
  <2> QED
    BY <1>1, <1>5, <1>14, <2>1, <2>2 DEF TaskTypes, TaskTypeOK
<1>16. StacksOK'
  BY <1>1, <1>5 DEF StacksOK
<1>17. BudgetOK'
  <2>3. slices' # 0
    BY <1>2, <1>5
  <2> SUFFICES ASSUME next # 0 PROVE slices' + quantum_left'[next] <= weight[next]
    BY <1>5, <2>3 DEF BudgetOK
  <2>1. CASE HasQuantum(st)
    <3>1. slices + quantum_left[next] <= weight[next]
      BY <1>1, <1>12, <2>1 DEF BudgetOK
    <3>2. slices' = slices + 1 /\ quantum_left'[next] = quantum_left[next] - 1
      BY <1>2, <1>4, <1>5, <2>1
    <3> QED
      BY <1>2, <1>4, <3>1, <3>2
  <2>2. CASE ~ HasQuantum(st)
    <3>1. slices' = 1 /\ quantum_left'[next] = weight[next] - 1
      BY <1>2, <1>4, <1>5, <2>2 DEF Fresh
    <3> QED
      BY <1>13, <3>1
  <2> QED
    BY <2>1, <2>2
<1>18. QuantumKept
  <2> SUFFICES ASSUME slices' > slices, current_task' = current_task
               PROVE  slices' <= weight[current_task]
    BY DEF QuantumKept
  <2>1. CASE HasQuantum(st)
    <3>1. slices + quantum_left[current_task] <= weight[current_task] /\ quantum_left[current_task] > 0
      BY <1>1, <1>12, <2>1 DEF BudgetOK
    <3> QED
      BY <1>2, <1>5, <2>1, <3>1
  <2>2. CASE ~ HasQuantum(st)
    <3>1. slices' = 1 /\ next = current_task
      BY <1>5, <2>2
    <3>2. slices = 0
      BY <1>2, <3>1
    <3>3. next # 0
      BY <1>1, <3>1, <3>2 DEF BudgetOK
    <3> QED
      BY <1>13, <3>1, <3>3
  <2> QED
    BY <2>1, <2>2
<1> QED
  BY <1>11, <1>15, <1>16, <1>17, <1>18 DEF TaskInv

\* The stacks that have been given out are finitely many.
LEMMA OwnersFinite ==
  LET owners == {s \in Slot \ {0} : stack_base[s] # 0} IN
  IsFiniteSet(owners) /\ Cardinality(owners) \in Nat /\ Cardinality(owners) <= MAX_TASKS - 1
<1> DEFINE owners == {s \in Slot \ {0} : stack_base[s] # 0}
<1>1. IsFiniteSet(1 .. MAX_TASKS - 1) /\ Cardinality(1 .. MAX_TASKS - 1) = MAX_TASKS - 1
  BY TaskSizes, FS_Interval
<1>2. owners \in SUBSET (1 .. MAX_TASKS - 1)
  BY TaskSizes DEF Slot
<1> QED
  BY <1>1, <1>2, FS_Subset, FS_CardinalityType

LEMMA RunKeeps ==
  ASSUME TaskInv, NEW d \in Demos, task_create_prio(d[1], d[2])
  PROVE  TaskInv' /\ QuantumKept
<1> DEFINE free == {s \in Slot \ {0} : state[s] = "DEAD"}
           slot == CHOOSE s \in free : \A t \in free : s <= t
<1>1. TaskTypes /\ FramesOK /\ StacksOK /\ BudgetOK /\ TaskTypeOK
  BY DEF TaskInv, TaskTypes
<1>2. /\ free # {}
      /\ state' = [state EXCEPT ![slot] = "READY"]
      /\ kill_req' = [kill_req EXCEPT ![slot] = FALSE]
      /\ wake_in' = [wake_in EXCEPT ![slot] = 0]
      /\ entry' = [entry EXCEPT ![slot] = d[1]]
      /\ weight' = [weight EXCEPT ![slot] = d[2]]
      /\ quantum_left' = [quantum_left EXCEPT ![slot] = d[2]]
      /\ regs' = [regs EXCEPT ![slot] = "poll"]
      /\ stack_base' = [stack_base EXCEPT ![slot] = StackFor(slot).at]
      /\ free_mem_addr' = StackFor(slot).free
      /\ slices' = IF slot = current_task THEN 0 ELSE slices
      /\ overrun' = overrun \cup ({slot} \cap {current_task})
      /\ UNCHANGED <<current_task, cpu>>
  BY Zenon DEF task_create_prio
<1>3. slot \in Slot \ {0} /\ state[slot] = "DEAD"
  <2>1. free \subseteq Nat
    BY TaskSizes
  <2>2. slot \in free
    BY <1>2, <2>1, LeastExists
  <2> QED
    BY <2>2
<1> HIDE DEF slot
<1>4. d[1] \in {"sleeps", "yields"} /\ d[2] \in Nat /\ d[2] > 0
  BY TaskSizes
<1>5. /\ StackFor(slot).at \in Nat /\ StackFor(slot).free \in Nat
      /\ IF stack_base[slot] # 0 THEN StackFor(slot).at = stack_base[slot] /\ StackFor(slot).free = free_mem_addr
         ELSE StackFor(slot).at = free_mem_addr /\ StackFor(slot).free = free_mem_addr + 1
  BY <1>1, <1>3 DEF TaskTypes, StackFor
<1>6. TaskTypes'
  <2>1. TaskTypeOK'
    BY <1>1, <1>2, <1>3, <1>4, TaskSizes DEF TaskTypeOK, TaskPoints
  <2>2. /\ weight' \in [Slot -> Nat] /\ stack_base' \in [Slot -> Nat]
        /\ free_mem_addr' \in Nat /\ slices' \in Nat /\ overrun' \subseteq Slot \ {0}
    BY <1>1, <1>2, <1>3, <1>4, <1>5 DEF TaskTypes
  <2> QED
    BY <2>1, <2>2 DEF TaskTypes
<1>7. FramesOK'
  <2>1. \A s \in Slot : FrameOf(s)' = IF s = slot /\ s # current_task THEN "poll" ELSE FrameOf(s)
    BY <1>1, <1>2, <1>3 DEF FrameOf, TaskTypeOK
  <2>2. \A s \in Slot : state'[s] = (IF s = slot THEN "READY" ELSE state[s])
                        /\ weight'[s] = (IF s = slot THEN d[2] ELSE weight[s])
    BY <1>1, <1>2 DEF TaskTypes, TaskTypeOK
  <2>3. \A s \in Slot : state'[s] = "RUNNING" => s = current_task'
    <3>1. \A s \in Slot : state[s] = "RUNNING" => s = current_task
      BY <1>1 DEF FramesOK
    <3> QED
      BY <3>1, <1>2, <2>2
  <2>4. state'[0] \in {"READY", "RUNNING"} /\ FrameOf(0)' = "kernel"
    <3>1. 0 \in Slot /\ 0 # slot
      BY <1>3, TaskSizes
    <3>2. state[0] \in {"READY", "RUNNING"} /\ FrameOf(0) = "kernel"
      BY <1>1 DEF FramesOK
    <3> QED
      BY <3>1, <3>2, <2>1, <2>2
  <2>5. ASSUME NEW s \in Slot \ {0}
        PROVE  IF state'[s] = "DEAD" THEN FrameOf(s)' \in Ended \cup {"none"}
               ELSE FrameOf(s)' \in CodeOf(s)' /\ weight'[s] > 0
    <3>1. CASE s = slot /\ s # current_task
      <4>1. s \notin overrun'
        BY <1>1, <1>2, <1>3, <3>1 DEF FramesOK
      <4> QED
        BY <3>1, <4>1, <1>4, <2>1, <2>2 DEF Alive, CodeOf
    <3>3. CASE s = slot /\ s = current_task
      <4>1. s \in overrun' /\ FrameOf(s)' = FrameOf(s) /\ FrameOf(s) = cpu
        BY <1>2, <2>1, <3>3 DEF FrameOf
      <4>2. FrameOf(s) \in Ended \cup {"none"}
        BY <1>1, <1>3, <3>3 DEF FramesOK
      <4>3. cpu # "none"
        BY <1>1 DEF FramesOK
      <4> QED
        BY <3>3, <4>1, <4>2, <4>3, <1>4, <2>2 DEF CodeOf
    <3>2. CASE s # slot
      <4>1. FrameOf(s)' = FrameOf(s) /\ state'[s] = state[s] /\ weight'[s] = weight[s]
        BY <3>2, <2>1, <2>2
      <4>2. IF state[s] = "DEAD" THEN FrameOf(s) \in Ended \cup {"none"}
            ELSE FrameOf(s) \in CodeOf(s) /\ weight[s] > 0
        BY <1>1 DEF FramesOK
      <4>3. CodeOf(s)' = CodeOf(s)
        BY <1>2, <3>2 DEF CodeOf
      <4> QED
        BY <4>1, <4>2, <4>3
    <3> QED
      BY <3>1, <3>2, <3>3
  <2>6. \A s \in overrun' : state'[s] # "DEAD"
    <3>1. overrun \subseteq Slot /\ \A s \in overrun : state[s] # "DEAD"
      BY <1>1 DEF FramesOK, TaskTypes
    <3> QED
      BY <3>1, <1>2, <1>3, <2>2
  <2>7. cpu' # "none"
    BY <1>1, <1>2 DEF FramesOK
  <2> QED
    BY <2>3, <2>4, <2>5, <2>6, <2>7 DEF FramesOK
<1>8. StacksOK'
  <2> DEFINE owners == {s \in Slot \ {0} : stack_base[s] # 0}
  <2>1. IsFiniteSet(owners) /\ Cardinality(owners) \in Nat
    BY OwnersFinite
  <2>2. /\ free_mem_addr = HEAP_START + Cardinality(owners) /\ free_mem_addr \in Nat
        /\ \A s \in owners : stack_base[s] < free_mem_addr
        /\ \A s, t \in owners : s # t => stack_base[s] # stack_base[t]
        /\ stack_base \in [Slot -> Nat]
    BY <1>1 DEF StacksOK, TaskTypes
  <2>3. CASE stack_base[slot] # 0
    <3>1. stack_base' = stack_base /\ free_mem_addr' = free_mem_addr
      BY <1>2, <1>5, <2>2, <2>3
    <3> QED
      BY <1>1, <3>1 DEF StacksOK
  <2>4. CASE stack_base[slot] = 0
    <3>1. /\ stack_base' = [stack_base EXCEPT ![slot] = free_mem_addr]
          /\ free_mem_addr' = free_mem_addr + 1
      BY <1>2, <1>5, <2>4
    <3>2. free_mem_addr # 0
      BY <2>1, <2>2 DEF HEAP_START
    <3>3. {s \in Slot \ {0} : stack_base'[s] # 0} = owners \cup {slot} /\ slot \notin owners
      BY <1>3, <2>2, <2>4, <3>1, <3>2
    <3>4. Cardinality(owners \cup {slot}) = Cardinality(owners) + 1
      BY <2>1, <3>3, FS_AddElement
    <3>5. \A s \in owners : stack_base'[s] = stack_base[s] /\ stack_base[s] \in Nat
      BY <2>2, <2>4, <3>1
    <3>6. stack_base'[slot] = free_mem_addr
      BY <1>3, <2>2, <3>1
    <3>7. \A s \in owners \cup {slot} : stack_base'[s] < free_mem_addr'
      BY <2>2, <3>1, <3>5, <3>6
    <3>8. \A s, t \in owners \cup {slot} : s # t => stack_base'[s] # stack_base'[t]
      BY <2>2, <3>5, <3>6
    <3>9. free_mem_addr' = HEAP_START + Cardinality(owners \cup {slot})
      BY <2>1, <2>2, <3>1, <3>4 DEF HEAP_START
    <3> HIDE DEF owners
    <3> QED
      BY <3>3, <3>7, <3>8, <3>9 DEF StacksOK, HEAP_START
  <2> QED
    BY <2>3, <2>4
<1>9. BudgetOK'
  <2>1. CASE slot # current_task
    BY <1>1, <1>2, <1>3, <2>1 DEF BudgetOK, TaskTypes, TaskTypeOK
  <2>2. CASE slot = current_task
    <3>1. slices' = 0 /\ quantum_left'[slot] = d[2] /\ weight'[slot] = d[2] /\ current_task' = slot
      BY <1>1, <1>2, <1>3, <2>2 DEF TaskTypes, TaskTypeOK
    <3> QED
      BY <1>3, <1>4, <3>1 DEF BudgetOK
  <2> QED
    BY <2>1, <2>2
<1>10. QuantumKept
  BY <1>1, <1>2 DEF QuantumKept, TaskTypes
<1> QED
  BY <1>6, <1>7, <1>8, <1>9, <1>10 DEF TaskInv

\* Steps of a task's own code, and a request to exit, move one frame.
LEMMA CodeKeeps ==
  ASSUME TaskInv,
         \/ DemoPolls \/ SetsWake \/ SetsSleeping \/ MarksDead \/ ClearsKill
         \/ \E s \in Slot : task_kill(s)
  PROVE  TaskInv' /\ QuantumKept
<1>1. TaskTypes /\ FramesOK /\ StacksOK /\ BudgetOK /\ TaskTypeOK
  BY DEF TaskInv, TaskTypes
<1>2. UNCHANGED <<weight, quantum_left, entry, stack_base, regs, current_task, free_mem_addr,
                  slices, overrun>>
  BY DEF DemoPolls, SetsWake, SetsSleeping, MarksDead, ClearsKill, task_kill, TaskRest
<1>3. TaskTypes'
  <2>1. /\ state' \in [Slot -> {"DEAD", "READY", "RUNNING", "SLEEPING"}]
        /\ cpu' \in TaskPoints /\ kill_req' \in [Slot -> BOOLEAN] /\ wake_in' \in [Slot -> 0 .. SleepTicks]
    <3>1. CASE DemoPolls
      BY <1>1, <3>1 DEF DemoPolls, TaskTypeOK, TaskPoints
    <3>2. CASE SetsWake
      BY <1>1, <3>2, TaskSizes DEF SetsWake, TaskTypeOK, TaskPoints
    <3>3. CASE SetsSleeping \/ MarksDead
      BY <1>1, <3>3 DEF SetsSleeping, MarksDead, TaskTypeOK, TaskPoints
    <3>4. CASE ClearsKill \/ \E s \in Slot : task_kill(s)
      BY <1>1, <3>4 DEF ClearsKill, task_kill, TaskTypeOK, TaskPoints
    <3> QED
      BY <3>1, <3>2, <3>3, <3>4
  <2> QED
    BY <1>1, <1>2, <2>1 DEF TaskTypes, TaskTypeOK
<1>4. \A s \in Slot : FrameOf(s)' = IF s = current_task THEN cpu' ELSE FrameOf(s)
  BY <1>2 DEF FrameOf
<1>5. cpu = FrameOf(current_task) /\ current_task \in Slot
      /\ state \in [Slot -> {"DEAD", "READY", "RUNNING", "SLEEPING"}]
  BY <1>1 DEF FrameOf, TaskTypeOK
<1>6. FramesOK'
  <2>1. /\ \A s \in Slot : state[s] = "RUNNING" => s = current_task
        /\ state[0] \in {"READY", "RUNNING"} /\ FrameOf(0) = "kernel"
        /\ \A s \in Slot \ {0} : IF state[s] = "DEAD" THEN FrameOf(s) \in Ended \cup {"none"}
                                 ELSE FrameOf(s) \in CodeOf(s) /\ weight[s] > 0
        /\ \A s \in overrun : state[s] # "DEAD"
        /\ cpu # "none"
    BY <1>1 DEF FramesOK
  <2>2. overrun \subseteq Slot \ {0} /\ 0 \in Slot
    BY <1>1, TaskSizes DEF TaskTypes
  <2>3. CASE \E s \in Slot : task_kill(s)
    <3>1. state' = state /\ cpu' = cpu
      BY <2>3 DEF task_kill
    <3>2. \A s \in Slot : FrameOf(s)' = FrameOf(s) /\ CodeOf(s)' = CodeOf(s)
      BY <1>2, <1>4, <1>5, <3>1 DEF CodeOf
    <3>3. FrameOf(0)' = FrameOf(0)
      BY <2>2, <3>2
    <3> QED
      BY <1>2, <2>1, <3>1, <3>2, <3>3 DEF FramesOK
  <2>4. CASE DemoPolls \/ SetsWake \/ SetsSleeping \/ MarksDead \/ ClearsKill
    <3>1. cpu \in {"poll", "work", "sleep_2", "exit_1", "exit_2"}
      BY <2>4 DEF DemoPolls, SetsWake, SetsSleeping, MarksDead, ClearsKill
    <3>2. current_task # 0
      BY <1>5, <2>1, <3>1
    <3>3. IF state[current_task] = "DEAD" THEN cpu \in Ended
          ELSE cpu \in CodeOf(current_task) /\ weight[current_task] > 0
      BY <1>5, <2>1, <3>2
    <3>4. \A s \in Slot : s # current_task => state'[s] = state[s]
      BY <1>5, <2>4 DEF DemoPolls, SetsWake, SetsSleeping, MarksDead, ClearsKill
    <3>5. /\ cpu' # "none"
          /\ IF state'[current_task] = "DEAD" THEN cpu' \in Ended
             ELSE cpu' \in CodeOf(current_task) /\ weight[current_task] > 0
          /\ current_task \in overrun => state'[current_task] # "DEAD"
      <4>1. CASE DemoPolls \/ SetsWake
        BY <1>5, <2>1, <3>3, <4>1 DEF DemoPolls, SetsWake, CodeOf, Ended, Alive
      <4>2. CASE SetsSleeping
        BY <1>5, <2>1, <3>3, <4>2 DEF SetsSleeping, CodeOf, Ended, Alive
      <4>3. CASE MarksDead
        BY <1>5, <2>1, <3>3, <4>3 DEF MarksDead, CodeOf, Ended, Alive
      <4>4. CASE ClearsKill
        BY <1>5, <2>1, <3>3, <4>4 DEF ClearsKill, CodeOf, Ended, Alive
      <4> QED
        BY <2>4, <4>1, <4>2, <4>3, <4>4
    <3>6. \A s \in Slot : state'[s] = "RUNNING" => s = current_task
      BY <2>1, <3>4
    <3>7. state'[0] \in {"READY", "RUNNING"} /\ FrameOf(0)' = "kernel"
      BY <1>4, <2>1, <2>2, <3>2, <3>4
    <3>8. \A s \in Slot \ {0} : IF state'[s] = "DEAD" THEN FrameOf(s)' \in Ended \cup {"none"}
                                ELSE FrameOf(s)' \in CodeOf(s) /\ weight[s] > 0
      BY <1>4, <1>5, <2>1, <3>4, <3>5
    <3>9. \A s \in overrun : state'[s] # "DEAD"
      BY <2>1, <2>2, <3>4, <3>5
    <3> QED
      BY <1>2, <3>5, <3>6, <3>7, <3>8, <3>9 DEF FramesOK, CodeOf
  <2> QED
    BY <2>3, <2>4
<1>7. StacksOK'
  BY <1>1, <1>2 DEF StacksOK
<1>8. state'[current_task] # "DEAD" => state[current_task] # "DEAD"
  <2>1. CASE SetsSleeping
    BY <1>1, <1>5, <2>1, TaskSizes DEF SetsSleeping, FramesOK, Ended
  <2>2. CASE ~ SetsSleeping
    BY <1>5, <2>2 DEF DemoPolls, SetsWake, MarksDead, ClearsKill, task_kill
  <2> QED
    BY <2>1, <2>2
<1>9. BudgetOK'
  BY <1>1, <1>2, <1>8 DEF BudgetOK
<1>10. QuantumKept
  BY <1>1, <1>2 DEF QuantumKept, TaskTypes
<1> QED
  BY <1>3, <1>6, <1>7, <1>9, <1>10 DEF TaskInv

LEMMA TaskStep == TaskInv /\ [TaskNext]_taskVars => TaskInv' /\ [QuantumKept]_taskVars
<1> SUFFICES ASSUME TaskInv, [TaskNext]_taskVars
             PROVE  TaskInv' /\ [QuantumKept]_taskVars
  OBVIOUS
<1>1. wake_in \in [Slot -> 0 .. SleepTicks]
  BY DEF TaskInv, TaskTypes, TaskTypeOK
<1>2. CASE timer_callback
  <2> DEFINE left == [s \in Slot |-> IF wake_in[s] = 0 THEN 0 ELSE wake_in[s] - 1]
  <2>1. left \in [Slot -> 0 .. SleepTicks]
    BY <1>1, TaskSizes
  <2>2. scheduler_tick(cpu, left)
    BY <1>2 DEF timer_callback
  <2> HIDE DEF left
  <2> QED
    BY <2>1, <2>2, TickKeeps
<1>3. CASE task_yield \/ SleepYields
  BY <1>1, <1>3, TickKeeps DEF task_yield, SleepYields
<1>4. CASE cmd_yield
  BY <1>1, <1>4, TickKeeps DEF cmd_yield
<1>5. CASE cmd_run
  BY <1>5, RunKeeps DEF cmd_run
<1>6. CASE DemoPolls \/ SetsWake \/ SetsSleeping \/ MarksDead \/ ClearsKill \/ cmd_kill
  BY <1>6, CodeKeeps DEF cmd_kill
<1>7. CASE UNCHANGED taskVars
  BY <1>7 DEF taskVars, TaskInv, TaskTypes, TaskTypeOK, FramesOK, CodeOf, FrameOf, StacksOK, BudgetOK,
              QuantumKept
<1> QED
  BY <1>2, <1>3, <1>4, <1>5, <1>6, <1>7 DEF TaskNext, TaskRuns, keyboard_callback

LEMMA TablesMatch == TaskInv => TaskTypeOK /\ FramesMatchTable /\ StacksApart
<1> SUFFICES ASSUME TaskInv PROVE TaskTypeOK /\ FramesMatchTable /\ StacksApart
  OBVIOUS
<1>1. TaskTypeOK /\ TaskTypes /\ FramesOK /\ StacksOK
  BY DEF TaskInv, TaskTypes
<1>2. FramesMatchTable
  BY <1>1 DEF FramesOK, FramesMatchTable, CodeOf, Ended, Alive, TaskTypes
<1>3. StacksApart
  BY <1>1, OwnersFinite, TaskSizes DEF StacksOK, StacksApart, TaskTypes, HEAP_START
<1> QED
  BY <1>1, <1>2, <1>3

\* Wherever the timer, a key or a yield comes between two steps of a task, the
\* table agrees with the frames, no two tasks share a stack and none has more
\* slices than its weight.  What RUN breaks when it reuses the slot of the task
\* that is just ending on the CPU is that one slot (cpu/task.c:66-260).
THEOREM TasksRunAsSpawned == TaskSpec => TasksKept
<1>1. task_init => TaskInv
  BY TaskInitOK
<1>2. TaskInv /\ [TaskNext]_taskVars => TaskInv' /\ [QuantumKept]_taskVars
  BY TaskStep
<1>3. TaskInv => TaskTypeOK /\ FramesMatchTable /\ StacksApart
  BY TablesMatch
<1> QED
  BY <1>1, <1>2, <1>3, PTL DEF TaskSpec, TasksKept

(***************************************************************************)
(* The network: the inductive invariant.  Seen counts the frames that have *)
(* left the card; the k-th frame behind sw_tail carries a higher number    *)
(* than the one before it, and all of them one that was seen.              *)
(***************************************************************************)
NoxisNetSpec == NoxisNetInit /\ [][NoxisNetNext]_noxisNetVars

NxSlot == 0 .. NX_SW_RING - 1
Seen == rx_packets + rx_dropped
NxFrame == {"none", "stray", "who-has", "is-at", "echo", "reply"} \X NxAddress \X Nat
GoodFrame == {f \in NxFrame : f[1] \in {"who-has", "is-at"} => f[2] \in NxHost}
ArpState == [table : [1 .. NX_ARP_MAX -> NxHost \cup {"none"}], pending : BOOLEAN,
             ip : NxHost \cup {"none"}, age : Nat]
Used == IF sw_head >= sw_tail THEN sw_head - sw_tail ELSE sw_head + NX_SW_RING - sw_tail
Place(i, k) == IF i + k < NX_SW_RING THEN i + k ELSE i + k - NX_SW_RING
NumberBefore(k) == IF k = 0 THEN polled ELSE sw_ring[Place(sw_tail, k - 1)][1]

CardTypes ==
  /\ air \subseteq GoodFrame /\ card \in Seq(Nat \X GoodFrame)
  /\ sw_ring \in [NxSlot -> Nat \X GoodFrame]
  /\ sw_head \in NxSlot /\ sw_tail \in NxSlot
  /\ arrived \in Nat /\ rx_packets \in Nat /\ rx_dropped \in Nat /\ polled \in Nat
PingTypes ==
  /\ arp \in ArpState /\ ifl \in BOOLEAN /\ target \in NxAddress /\ seq \in Nat
  /\ sent \in Nat /\ transmitted \in Nat /\ commands \in Nat
  /\ nxPc \in {"prompt", "arp", "arp_hlt", "echo", "echo_hlt", "show"}
RingOK ==
  /\ arrived = Len(card) + Seen
  /\ \A k \in 1 .. Len(card) : card[k][1] = Seen + k
  /\ polled <= Seen /\ \A i \in NxSlot : sw_ring[i][1] <= Seen
  /\ Used = 0 => sw_ring[Place(sw_head, NX_SW_RING - 1)][1] = polled
  /\ \A k \in NxSlot : k < Used => NumberBefore(k) < sw_ring[Place(sw_tail, k)][1]
PingOK ==
  /\ sent = transmitted /\ asked \subseteq NxHost /\ (got_reply => fresh)
  /\ nxPc \in {"prompt", "echo", "echo_hlt"} => ifl
  /\ nxPc # "prompt" => commands > 0
  /\ nxPc = "arp_hlt" /\ ~ifl => arp.pending
  /\ arp.pending => commands > 0 /\ (~ifl => commands > 1)
NxInv == CardTypes /\ PingTypes /\ RingOK /\ PingOK /\ NxOneEntry

LEMMA NetSizes ==
  /\ NX_SW_RING \in Nat /\ NX_SW_RING > 1 /\ NX_ARP_MAX \in Nat /\ NX_ARP_MAX > 0
  /\ 1 \in 1 .. NX_ARP_MAX
  /\ net_gw \in NxHost /\ NxHost \subseteq NxAddress /\ "none" \notin NxHost
  /\ NX_RETRY \in Nat
  /\ \A ip \in NxAddress : NextHop(ip) \in NxHost
BY NoxisNetAssumption DEF NoxisNetAssumption, NxAddress, NextHop

\* An index that has gone round the ring at most once.
LEMMA ModOnce ==
  ASSUME NEW a \in Nat, NEW n \in Nat, n > 0, a < 2 * n
  PROVE  a % n = IF a < n THEN a ELSE a - n
<1>1. a = n * (a \div n) + (a % n) /\ a % n \in 0 .. n - 1 /\ a \div n \in Nat
  OBVIOUS
<1> DEFINE q == a \div n
           r == a % n
<1>2. q = 0 \/ q = 1 \/ q >= 2
  BY <1>1
<1>3. CASE q = 0
  <2>1. a = r /\ r < n
    BY <1>1, <1>3
  <2> QED
    BY <2>1
<1>4. CASE q = 1
  <2>1. a = n + r /\ r >= 0
    BY <1>1, <1>4
  <2> QED
    BY <2>1, <1>1
<1>5. CASE q >= 2
  <2>1. n * q >= 2 * n
    <3>1. PICK e \in Nat : q = 2 + e
      BY <1>5, <1>1
    <3>2. n * q = 2 * n + n * e /\ n * e >= 0
      BY <3>1
    <3> QED
      BY <3>2
  <2> QED
    BY <2>1, <1>1
<1> QED
  BY <1>2, <1>3, <1>4, <1>5

LEMMA RingArithmetic ==
  ASSUME sw_head \in NxSlot, sw_tail \in NxSlot
  PROVE  /\ \A i \in NxSlot : NextSlot(i) = Place(i, 1)
         /\ \A i, k \in NxSlot : Place(i, k) \in NxSlot /\ (i + k) % NX_SW_RING = Place(i, k)
         /\ Waiting = Used /\ Used \in NxSlot
<1> USE NetSizes DEF NxSlot
<1>1. ASSUME NEW i \in NxSlot, NEW k \in NxSlot
      PROVE  Place(i, k) \in NxSlot /\ (i + k) % NX_SW_RING = Place(i, k)
  <2>1. i + k \in Nat /\ i + k < 2 * NX_SW_RING
    OBVIOUS
  <2>2. (i + k) % NX_SW_RING = Place(i, k)
    BY <2>1, ModOnce, SMTT(40) DEF Place
  <2> QED
    BY <2>2 DEF Place
<1>2. \A i \in NxSlot : NextSlot(i) = Place(i, 1)
  BY <1>1 DEF NextSlot
<1>3. Waiting = Used
  <2> DEFINE a == sw_head + NX_SW_RING - sw_tail
  <2>1. a \in Nat /\ a < 2 * NX_SW_RING
    OBVIOUS
  <2>2. a % NX_SW_RING = IF a < NX_SW_RING THEN a ELSE a - NX_SW_RING
    <3> HIDE DEF a
    <3> QED
      BY <2>1, ModOnce
  <2> QED
    BY <2>2 DEF Waiting, Used
<1>4. Used \in NxSlot
  BY DEF Used
<1> QED
  BY <1>1, <1>2, <1>3, <1>4

\* Learning a host keeps one entry for each.
LEMMA LearnKeeps ==
  ASSUME NEW STATE a, a \in ArpState, NEW STATE ip, ip \in NxHost,
         \A i, j \in DOMAIN a.table : a.table[i] = a.table[j] /\ a.table[i] # "none" => i = j
  PROVE  /\ Learn(a, ip) \in ArpState /\ Learn(a, ip).pending = a.pending
         /\ \A i, j \in DOMAIN Learn(a, ip).table :
              Learn(a, ip).table[i] = Learn(a, ip).table[j] /\ Learn(a, ip).table[i] # "none"
                => i = j
<1>1. CASE Known(a, ip)
  BY <1>1 DEF Learn
<1>2. CASE ~ Known(a, ip)
  <2>1. LearnSlot(a) \in 1 .. NX_ARP_MAX
    <3>1. CASE Known(a, "none")
      <4> DEFINE empty == {i \in DOMAIN a.table : a.table[i] = "none"}
      <4>1. empty \in SUBSET Nat /\ empty # {}
        BY <3>1, NetSizes DEF Known, ArpState
      <4>2. PICK i \in empty : \A j \in empty : i <= j
        BY <4>1, LeastExists
      <4>3. i \in DOMAIN a.table /\ a.table[i] = "none"
            /\ \A j \in 1 .. (i - 1) : a.table[j] # "none"
        BY <4>2, NetSizes DEF ArpState
      <4> QED
        BY <4>3, <3>1 DEF LearnSlot, ArpState
    <3>2. CASE ~ Known(a, "none")
      BY <3>2, NetSizes DEF LearnSlot
    <3> QED
      BY <3>1, <3>2
  <2> DEFINE s == LearnSlot(a)
             t == [a.table EXCEPT ![s] = ip]
  <2>2. Learn(a, ip) = [a EXCEPT !.table = t]
    BY <1>2 DEF Learn, ArpState
  <2>3. t \in [1 .. NX_ARP_MAX -> NxHost \cup {"none"}] /\ \A i \in 1 .. NX_ARP_MAX : a.table[i] # ip
    BY <1>2, NetSizes DEF ArpState, Known
  <2>4. \A i \in 1 .. NX_ARP_MAX : t[i] = IF i = s THEN ip ELSE a.table[i]
    BY DEF ArpState
  <2>5. Learn(a, ip) \in ArpState /\ Learn(a, ip).pending = a.pending /\ Learn(a, ip).table = t
    <3> HIDE DEF t
    <3> QED
      BY <2>2, <2>3 DEF ArpState
  <2>6. \A i, j \in 1 .. NX_ARP_MAX : t[i] = t[j] /\ t[i] # "none" => i = j
    <3> HIDE DEF t, s
    <3>1. DOMAIN a.table = 1 .. NX_ARP_MAX
      BY DEF ArpState
    <3> QED
      BY <2>3, <2>4, <3>1
  <2> HIDE DEF t, s
  <2>7. DOMAIN t = 1 .. NX_ARP_MAX
    BY <2>3
  <2> QED
    BY <2>5, <2>6, <2>7
<1> QED
  BY <1>1, <1>2

\* A lookup that fails: who is asked is a neighbour, and a request in flight
\* is never forgotten.
LEMMA AskKeeps ==
  ASSUME NEW STATE a, a \in ArpState, NEW STATE ip, ip \in NxHost, AsksArp(a, ip),
         CardTypes, ifl \in BOOLEAN, asked \subseteq NxHost
  PROVE  /\ arp' \in ArpState /\ arp'.table = a.table /\ arp'.pending /\ ifl' \in BOOLEAN
         /\ air' \subseteq GoodFrame /\ asked' \subseteq NxHost
         /\ ifl' \/ (arp' = a /\ ifl' = ifl)
<1>1. arp' \in ArpState /\ arp'.table = a.table /\ arp'.pending
  BY NetSizes DEF AsksArp, Asking, MayAsk, ArpState
<1>2. <<"is-at", ip, 0>> \in GoodFrame
  BY NetSizes DEF GoodFrame, NxFrame
<1>3. air' \subseteq GoodFrame /\ asked' \subseteq NxHost
  BY <1>2 DEF AsksArp, CardTypes
<1>4. ifl' \in BOOLEAN /\ (ifl' \/ (arp' = a /\ ifl' = ifl))
  BY DEF AsksArp, Asking, ne2000_send
<1> QED
  BY <1>1, <1>3, <1>4

LEMMA IpSendKeeps ==
  ASSUME NEW STATE dst, dst \in NxAddress, NEW STATE answers, answers \subseteq GoodFrame,
         ip_send(dst, answers), CardTypes, PingTypes, asked \subseteq NxHost
  PROVE  /\ arp' \in ArpState /\ arp'.table = arp.table
         /\ ifl' \in BOOLEAN /\ air' \subseteq GoodFrame /\ asked' \subseteq NxHost
         /\ ifl' \/ (arp' = arp /\ ifl' = ifl)
         /\ arp'.pending => arp.pending \/ ifl'
         /\ Known(arp, NextHop(dst)) => ifl'
<1>1. CASE Known(arp, NextHop(dst))
  BY <1>1 DEF ip_send, ne2000_send, PingTypes, CardTypes
<1>2. CASE ~ Known(arp, NextHop(dst))
  <2>1. AsksArp(arp, NextHop(dst)) /\ NextHop(dst) \in NxHost
    BY <1>2, NetSizes DEF ip_send
  <2> QED
    BY <2>1, <1>2, AskKeeps DEF PingTypes
<1> QED
  BY <1>1, <1>2

LEMMA NetInitOK == NoxisNetInit => NxInv
<1> SUFFICES ASSUME NoxisNetInit PROVE NxInv
  OBVIOUS
<1> USE NetSizes DEF NoxisNetInit
<1>1. NoFrame \in GoodFrame /\ <<"stray", net_gw, 0>> \in GoodFrame
      /\ \A k \in {"who-has", "echo"}, h \in NxAsking : <<k, h, 0>> \in GoodFrame
  BY NoxisNetAssumption DEF NoxisNetAssumption, NoFrame, GoodFrame, NxFrame
<1>2. air \subseteq GoodFrame
  <2> SUFFICES ASSUME NEW f \in air PROVE f \in GoodFrame
    OBVIOUS
  <2>1. f = <<"stray", net_gw, 0>>
        \/ \E k \in {"who-has", "echo"}, h \in NxAsking : f = <<k, h, 0>>
    OBVIOUS
  <2> QED
    BY <2>1, <1>1
<1>3. sw_ring \in [NxSlot -> Nat \X GoodFrame] /\ \A i \in NxSlot : sw_ring[i][1] = 0
  BY <1>1 DEF NxSlot
<1>4. CardTypes
  <2>1. card \in Seq(Nat \X GoodFrame)
    OBVIOUS
  <2>2. sw_head \in NxSlot /\ sw_tail \in NxSlot /\ arrived \in Nat /\ rx_packets \in Nat
        /\ rx_dropped \in Nat /\ polled \in Nat
    BY DEF NxSlot
  <2> QED
    BY <1>2, <1>3, <2>1, <2>2 DEF CardTypes
<1>5. PingTypes
  BY DEF PingTypes, ArpState
<1>6. RingOK
  <2>1. Used = 0 /\ Place(sw_head, NX_SW_RING - 1) \in NxSlot
    BY DEF Used, Place, NxSlot
  <2> QED
    BY <1>3, <2>1 DEF RingOK, Seen, NxSlot
<1>7. PingOK /\ NxOneEntry
  BY DEF PingOK, NxOneEntry
<1> QED
  BY <1>4, <1>5, <1>6, <1>7 DEF NxInv

\* What PING and the ARP commands leave alone: the ring and what it holds.
LEMMA RingSame ==
  ASSUME RingOK, UNCHANGED <<arrived, card, sw_ring, sw_head, sw_tail, rx_packets,
                             rx_dropped, polled>>
  PROVE  RingOK'
BY DEF RingOK, Seen, Used, Place, NumberBefore

\* The interrupt: a frame comes, is put behind the others, or dropped.
LEMMA ArrivesKeeps == NxInv /\ nx_arrives => NxInv'
<1> SUFFICES ASSUME NxInv, nx_arrives PROVE NxInv'
  OBVIOUS
<1> USE DEF NxInv
<1>1. PICK f \in air : card' = Append(card, <<arrived + 1, f>>)
  BY DEF nx_arrives
<1>2. CardTypes'
  BY <1>1 DEF nx_arrives, CardTypes, ringVars
<1>3. PingTypes' /\ PingOK' /\ NxOneEntry'
  BY DEF nx_arrives, PingTypes, PingOK, NxOneEntry, pingVars, sendVars, replyVars
<1>4. Len(card) \in Nat /\ Len(card') = Len(card) + 1
      /\ \A k \in 1 .. Len(card') : card'[k] = IF k <= Len(card) THEN card[k] ELSE <<arrived + 1, f>>
  BY <1>1 DEF CardTypes
<1>5. Seen' = Seen /\ Used' = Used /\ Seen \in Nat
  BY DEF nx_arrives, ringVars, Seen, Used, CardTypes
<1>6. arrived' = Len(card') + Seen' /\ \A k \in 1 .. Len(card') : card'[k][1] = Seen' + k
  <2>1. arrived = Len(card) + Seen /\ arrived' = arrived + 1
    BY DEF RingOK, nx_arrives
  <2>2. ASSUME NEW k \in 1 .. Len(card') PROVE card'[k][1] = Seen + k
    <3>1. CASE k <= Len(card)
      BY <3>1, <1>4 DEF RingOK
    <3>2. CASE ~ (k <= Len(card))
      <4>1. k = Len(card) + 1 /\ card'[k][1] = arrived + 1
        BY <3>2, <1>4
      <4> QED
        BY <4>1, <2>1, <1>5, <1>4
    <3> QED
      BY <3>1, <3>2
  <2> QED
    BY <2>1, <2>2, <1>4, <1>5
<1>7. RingOK'
  BY <1>5, <1>6 DEF RingOK, nx_arrives, ringVars, Place, NumberBefore
<1> QED
  BY <1>2, <1>3, <1>7

LEMMA DrainKeeps == NxInv /\ drain_card_ring => NxInv'
<1> SUFFICES ASSUME NxInv, drain_card_ring PROVE NxInv'
  OBVIOUS
<1> USE DEF NxInv
<1>1. PingTypes' /\ PingOK' /\ NxOneEntry'
  BY DEF drain_card_ring, PingTypes, PingOK, NxOneEntry, pingVars, sendVars, replyVars
<1>2. /\ Head(card) \in Nat \X GoodFrame /\ card[1] = Head(card)
      /\ card' = Tail(card) /\ card' \in Seq(Nat \X GoodFrame)
      /\ Len(card) \in Nat /\ Len(card') = Len(card) - 1 /\ Len(card) > 0
      /\ \A k \in 1 .. Len(card') : card'[k] = card[k + 1]
  BY SMTT(40) DEF drain_card_ring, CardTypes
<1>3. Seen \in Nat /\ rx_packets \in Nat /\ rx_dropped \in Nat
  BY DEF CardTypes, Seen
<1>4. NextSlot(sw_head) = Place(sw_head, 1) /\ Place(sw_head, 1) \in NxSlot /\ Used \in NxSlot
      /\ \A i, k \in NxSlot : Place(i, k) \in NxSlot
  <2>1. 1 \in NxSlot /\ sw_head \in NxSlot /\ sw_tail \in NxSlot
    BY NetSizes DEF CardTypes, NxSlot
  <2> QED
    BY <2>1, RingArithmetic
<1>5. ASSUME Seen' = Seen + 1
      PROVE  /\ arrived' = Len(card') + Seen'
             /\ \A k \in 1 .. Len(card') : card'[k][1] = Seen' + k
  <2>1. arrived' = arrived
    BY DEF drain_card_ring
  <2>2. ASSUME NEW k \in 1 .. Len(card') PROVE card'[k][1] = Seen' + k
    <3>1. k + 1 \in 1 .. Len(card) /\ card'[k] = card[k + 1]
      BY <1>2
    <3>2. card[k + 1][1] = Seen + (k + 1)
      BY <3>1 DEF RingOK
    <3> QED
      BY <3>1, <3>2, <1>5, <1>3
  <2> QED
    BY <2>1, <2>2, <1>2, <1>3, <1>5 DEF RingOK
<1>6. CASE RingFull
  <2>1. /\ rx_dropped' = rx_dropped + 1
        /\ UNCHANGED <<sw_ring, sw_head, sw_tail, rx_packets, air, arrived, polled>>
    BY <1>6 DEF drain_card_ring
  <2>2. CardTypes'
    BY <2>1, <1>2 DEF CardTypes
  <2>3. Seen' = Seen + 1 /\ Used' = Used
    BY <2>1, <1>3 DEF Seen, Used
  <2>4. polled' <= Seen' /\ \A i \in NxSlot : sw_ring'[i][1] <= Seen'
    BY <2>1, <2>3, <1>3 DEF RingOK, CardTypes
  <2> QED
    BY <1>1, <1>5, <2>1, <2>2, <2>3, <2>4 DEF RingOK, Place, NumberBefore
<1>7. CASE ~ RingFull
  <2>1. /\ sw_ring' = [sw_ring EXCEPT ![sw_head] = Head(card)]
        /\ sw_head' = Place(sw_head, 1) /\ rx_packets' = rx_packets + 1
        /\ UNCHANGED <<rx_dropped, sw_tail, air, arrived, polled>>
    BY <1>7, <1>4 DEF drain_card_ring
  <2>2. CardTypes'
    BY <2>1, <1>2, <1>4 DEF CardTypes
  <2>3. Seen' = Seen + 1
    BY <2>1, <1>3 DEF Seen, CardTypes
  <2>4. Place(sw_head, 1) # sw_tail /\ Used' = Used + 1
    BY <1>7, <1>4, <2>1, NetSizes DEF RingFull, Used, Place, NxSlot, CardTypes
  <2>5. Head(card)[1] = Seen + 1
    <3>1. 1 \in 1 .. Len(card)
      BY <1>2
    <3> QED
      BY <3>1, <1>2, <1>3 DEF RingOK
  <2>6. \A i \in NxSlot : sw_ring'[i] = IF i = sw_head THEN Head(card) ELSE sw_ring[i]
    BY <2>1 DEF CardTypes
  <2>7. polled' <= Seen' /\ \A i \in NxSlot : sw_ring'[i][1] <= Seen'
    <3>1. \A i \in NxSlot : sw_ring[i][1] \in Nat /\ sw_ring[i][1] <= Seen
      BY DEF CardTypes, RingOK
    <3>2. \A i \in NxSlot : sw_ring'[i][1] <= Seen'
      BY <3>1, <2>3, <2>5, <2>6, <1>3
    <3> QED
      BY <3>2, <2>1, <2>3, <1>3 DEF RingOK, CardTypes
  <2>8. ASSUME NEW k \in NxSlot, k < Used'
        PROVE  NumberBefore(k)' < sw_ring'[Place(sw_tail', k)][1]
    <3>1. sw_tail' = sw_tail /\ Used \in NxSlot
      BY <2>1, <1>4
    <3>2. ASSUME NEW j \in NxSlot, j < Used
          PROVE  Place(sw_tail, j) \in NxSlot /\ Place(sw_tail, j) # sw_head
      BY <3>2, NetSizes DEF Place, NxSlot, Used, CardTypes
    <3>3. Place(sw_tail, Used) = sw_head
      BY NetSizes DEF Place, NxSlot, Used, CardTypes
    <3>4. NumberBefore(k)' = NumberBefore(k)
      <4>1. CASE k = 0
        BY <4>1, <2>1 DEF NumberBefore
      <4>2. CASE k # 0
        <5>1. k - 1 \in NxSlot /\ k - 1 < Used
          BY <4>2, <2>8, <2>4, <1>4, NetSizes DEF NxSlot
        <5>2. Place(sw_tail, k - 1) \in NxSlot /\ Place(sw_tail, k - 1) # sw_head
          BY <5>1, <3>2
        <5> QED
          BY <5>2, <4>2, <2>6, <3>1 DEF NumberBefore, Place
      <4> QED
        BY <4>1, <4>2
    <3>5. CASE k < Used
      <4>1. sw_ring'[Place(sw_tail, k)] = sw_ring[Place(sw_tail, k)]
        BY <3>2, <3>5, <2>6
      <4> QED
        BY <4>1, <3>1, <3>4, <3>5 DEF RingOK, Place
    <3>6. CASE ~ (k < Used)
      <4>1. k = Used
        BY <3>6, <2>8, <2>4, <1>4 DEF NxSlot
      <4>2. sw_ring'[Place(sw_tail, k)][1] = Seen + 1
        BY <4>1, <3>3, <2>5, <2>6 DEF CardTypes
      <4>3. NumberBefore(k) \in Nat /\ NumberBefore(k) <= Seen
        <5>1. CASE k = 0
          BY <5>1 DEF NumberBefore, RingOK, CardTypes
        <5>2. CASE k # 0
          <6>1. k - 1 \in NxSlot
            BY <5>2, NetSizes DEF NxSlot
          <6>2. Place(sw_tail, k - 1) \in NxSlot
            BY <6>1, <1>4 DEF CardTypes
          <6> QED
            BY <6>2, <5>2 DEF NumberBefore, RingOK, CardTypes
        <5> QED
          BY <5>1, <5>2
      <4> QED
        BY <4>2, <4>3, <3>1, <3>4, <1>3 DEF Place
    <3> QED
      BY <3>5, <3>6
  <2>9. ~ (Used' = 0)
    BY <2>4, <1>4 DEF NxSlot
  <2>10. RingOK'
    BY <1>5, <2>3, <2>7, <2>8, <2>9 DEF RingOK, Place
  <2> QED
    BY <1>1, <2>2, <2>10
<1> QED
  BY <1>6, <1>7

\* A turn of net_poll(): the oldest frame is taken out and looked at.
LEMMA PollKeeps == NxInv /\ net_poll => NxInv'
<1> SUFFICES ASSUME NxInv, net_poll PROVE NxInv'
  OBVIOUS
<1> USE DEF NxInv
<1> DEFINE f == sw_ring[sw_tail][2]
<1>1. f \in GoodFrame /\ f[2] \in NxAddress /\ (f[1] \in {"who-has", "is-at"} => f[2] \in NxHost)
      /\ sw_ring[sw_tail][1] \in Nat
  <2>1. sw_ring[sw_tail] \in Nat \X GoodFrame
    BY DEF CardTypes
  <2> QED
    BY <2>1 DEF GoodFrame, NxFrame
<1>2. /\ sw_tail # sw_head /\ nxPc \in {"arp", "echo", "show"}
      /\ sw_tail' = NextSlot(sw_tail) /\ polled' = sw_ring[sw_tail][1]
      /\ UNCHANGED <<card, arrived, sw_ring, sw_head, rx_packets, rx_dropped,
                     nxPc, target, seq, sent, transmitted, commands>>
  BY DEF net_poll, pingVars
<1>3. NextSlot(sw_tail) = Place(sw_tail, 1) /\ Place(sw_tail, 1) \in NxSlot /\ Used \in NxSlot
  <2>1. 1 \in NxSlot /\ sw_head \in NxSlot /\ sw_tail \in NxSlot
    BY NetSizes DEF CardTypes, NxSlot
  <2> QED
    BY <2>1, RingArithmetic
<1>4. RingOK'
  <2>1. Used > 0 /\ Used' = Used - 1 /\ Place(sw_tail, 0) = sw_tail
    BY <1>2, <1>3, NetSizes DEF Used, Place, NxSlot, CardTypes
  <2>2. Seen' = Seen
    BY <1>2 DEF Seen
  <2>3. \A k \in NxSlot : k < Used' => k + 1 \in NxSlot /\ k + 1 < Used
                                       /\ Place(sw_tail', k) = Place(sw_tail, k + 1)
    BY <1>2, <1>3, <2>1, NetSizes DEF NxSlot, CardTypes, Place, Used
  <2>4. ASSUME NEW k \in NxSlot, k < Used'
        PROVE  NumberBefore(k)' < sw_ring'[Place(sw_tail', k)][1]
    <3>1. NumberBefore(k + 1) < sw_ring[Place(sw_tail, k + 1)][1]
      BY <2>3, <2>4 DEF RingOK
    <3>2. NumberBefore(k)' = NumberBefore(k + 1)
      <4>1. CASE k = 0
        BY <4>1, <1>2, <2>1 DEF NumberBefore
      <4>2. CASE k # 0
        <5>1. k - 1 \in NxSlot /\ k - 1 < Used' /\ k - 1 + 1 = k /\ k + 1 - 1 = k
          BY <4>2, <2>4, <2>1, <1>3, NetSizes DEF NxSlot
        <5>2. Place(sw_tail', k - 1) = Place(sw_tail, k)
          BY <5>1, <2>3
        <5>3. NumberBefore(k)' = sw_ring'[Place(sw_tail', k - 1)][1]
          BY <4>2 DEF NumberBefore, Place
        <5>4. NumberBefore(k + 1) = sw_ring[Place(sw_tail, k)][1]
          BY <5>1, NetSizes DEF NumberBefore, NxSlot
        <5> QED
          BY <5>2, <5>3, <5>4, <1>2
      <4> QED
        BY <4>1, <4>2
    <3> QED
      BY <3>1, <3>2, <2>3, <2>4, <1>2
  <2>5. Used' = 0 => sw_ring'[Place(sw_head', NX_SW_RING - 1)][1] = polled'
    <3>1. Used' = 0 => Place(sw_head, NX_SW_RING - 1) = sw_tail
      BY <1>2, <1>3, <2>1, NetSizes DEF Used, Place, NxSlot, CardTypes
    <3> QED
      BY <3>1, <1>2
  <2>6. polled' <= Seen' /\ \A i \in NxSlot : sw_ring'[i][1] <= Seen'
    BY <1>2, <2>2 DEF RingOK, CardTypes
  <2>7. arrived' = Len(card') + Seen' /\ \A k \in 1 .. Len(card') : card'[k][1] = Seen' + k
    BY <1>2, <2>2 DEF RingOK
  <2>8. \A k \in NxSlot : k < Used' => NumberBefore(k)' < sw_ring'[Place(sw_tail', k)][1]
    BY <2>4
  <2> QED
    BY <2>5, <2>6, <2>7, <2>8 DEF RingOK, Place
<1>5. /\ arp' \in ArpState /\ ifl' \in BOOLEAN /\ air' \subseteq GoodFrame /\ asked' \subseteq NxHost
      /\ NxOneEntry' /\ (got_reply' => fresh')
      /\ arp'.pending => arp.pending \/ ifl'
      /\ ifl => ifl'
  <2>1. CASE arp_input(f)
    <3>1. f[2] \in NxHost /\ f[1] \in {"who-has", "is-at"}
      BY <2>1, <1>1 DEF arp_input
    <3>2. arp \in ArpState
          /\ \A i, j \in DOMAIN arp.table :
               arp.table[i] = arp.table[j] /\ arp.table[i] # "none" => i = j
      BY DEF PingTypes, NxOneEntry
    <3> DEFINE a == Learn(arp, f[2])
    <3>3. /\ a \in ArpState /\ a.pending = arp.pending
          /\ \A i, j \in DOMAIN a.table : a.table[i] = a.table[j] /\ a.table[i] # "none" => i = j
      <4> HIDE DEF f
      <4> QED
        BY <3>1, <3>2, LearnKeeps
    <3>4. \/ arp' = a /\ ifl' = TRUE
          \/ ifl' = ifl /\ arp' \in {a, [a EXCEPT !.pending = FALSE]}
      BY <2>1 DEF arp_input, ne2000_send
    <3>5. UNCHANGED <<air, asked, got_reply, fresh>>
      BY <2>1 DEF arp_input, replyVars
    <3> HIDE DEF a, f
    <3>6. arp' \in ArpState /\ arp'.table = a.table /\ (arp'.pending => a.pending)
      BY <3>3, <3>4 DEF ArpState
    <3> QED
      BY <3>3, <3>4, <3>5, <3>6 DEF PingTypes, CardTypes, NxOneEntry, PingOK
  <2>2. CASE f[1] = "echo" /\ ip_send(f[2], {}) /\ UNCHANGED replyVars
    <3>1. /\ arp' \in ArpState /\ arp'.table = arp.table
          /\ ifl' \in BOOLEAN /\ air' \subseteq GoodFrame /\ asked' \subseteq NxHost
          /\ ifl' \/ (arp' = arp /\ ifl' = ifl)
          /\ arp'.pending => arp.pending \/ ifl'
      <4> HIDE DEF f
      <4> QED
        BY <2>2, <1>1, IpSendKeeps DEF PingOK
    <3> HIDE DEF f
    <3> QED
      BY <3>1, <2>2 DEF NxOneEntry, PingOK, replyVars
  <2>3. CASE got_reply' = TRUE /\ fresh' = TRUE /\ UNCHANGED <<arp, air, asked, ifl>>
    BY <2>3 DEF PingTypes, CardTypes, NxOneEntry, PingOK
  <2>4. CASE UNCHANGED <<arp, air, asked, ifl, replyVars>>
    BY <2>4 DEF PingTypes, CardTypes, NxOneEntry, PingOK, replyVars
  <2>5. arp_input(f) \/ ip_input(f)
    BY DEF net_poll
  <2> QED
    BY <2>1, <2>2, <2>3, <2>4, <2>5 DEF ip_input, icmp_input
<1>6. CardTypes' /\ PingTypes'
  BY <1>1, <1>2, <1>3, <1>5 DEF CardTypes, PingTypes
<1>7. PingOK'
  BY <1>2, <1>5 DEF PingOK, PingTypes
<1> QED
  BY <1>4, <1>5, <1>6, <1>7

LEMMA AsksWhenOpen ==
  ASSUME PingTypes, CardTypes, PingOK, ping_sends
  PROVE  /\ sent' = transmitted' /\ sent' \in Nat /\ ifl' /\ arp' \in ArpState
         /\ arp'.table = arp.table /\ air' \subseteq GoodFrame /\ asked' \subseteq NxHost
<1>1. Known(arp, NextHop(target)) /\ target \in NxAddress
  BY DEF ping_sends, Hop, NextHop, PingTypes
<1> DEFINE answers == {<<"reply", target, seq>>}
<1>2. ip_send(target, answers) /\ answers \subseteq GoodFrame
  BY DEF ping_sends, icmp_ping, PingTypes, GoodFrame, NxFrame
<1>3. /\ ifl' /\ arp' \in ArpState /\ arp'.table = arp.table /\ air' \subseteq GoodFrame
      /\ asked' \subseteq NxHost
  <2> HIDE DEF answers
  <2> QED
    BY <1>1, <1>2, IpSendKeeps DEF PingOK
<1>4. sent' = transmitted' /\ sent' \in Nat
  BY <1>1 DEF ping_sends, PingOK, PingTypes
<1> QED
  BY <1>3, <1>4

LEMMA NxStep == NxInv /\ [NoxisNetNext]_noxisNetVars => NxInv'
<1> SUFFICES ASSUME NxInv, [NoxisNetNext]_noxisNetVars PROVE NxInv'
  OBVIOUS
<1> USE DEF NxInv
<1>1. CASE nx_arrives
  BY <1>1, ArrivesKeeps
<1>2. CASE ne2000_irq
  <2>1. RingOK' /\ CardTypes'
    BY <1>2, RingSame DEF ne2000_irq, cardVars, CardTypes
  <2> QED
    BY <1>2, <2>1 DEF ne2000_irq, PingTypes, PingOK, NxOneEntry, pingVars, sendVars, replyVars
<1>3. CASE drain_card_ring
  BY <1>3, DrainKeeps
<1>4. CASE irq_returns
  <2>1. RingOK' /\ CardTypes'
    BY <1>4, RingSame DEF irq_returns, CardTypes
  <2>2. PingTypes' /\ NxOneEntry'
    BY <1>4 DEF irq_returns, PingTypes, NxOneEntry, sendVars, Woken
  <2>3. PingOK'
    BY <1>4 DEF irq_returns, PingOK, sendVars, replyVars, Woken, PingTypes
  <2> QED
    BY <2>1, <2>2, <2>3
<1>5. CASE net_poll
  BY <1>5, PollKeeps
<1>6. CASE \E ip \in NxAddress : cmd_ping(ip)
  <2> PICK ip \in NxAddress : cmd_ping(ip)
    BY <1>6
  <2>1. RingOK' /\ CardTypes'
    BY RingSame DEF cmd_ping, CardTypes, cardVars, ringVars
  <2>2. CASE nic_present
    <3>1. NxOneEntry'
      BY DEF cmd_ping, NxOneEntry
    <3>2. PingTypes'
      <4>1. commands' \in Nat /\ seq' \in Nat /\ sent' \in Nat /\ transmitted' \in Nat
        BY <2>2 DEF cmd_ping, PingTypes
      <4>2. arp' = arp /\ ifl' = FALSE /\ target' = ip /\ nxPc' = "arp"
        BY <2>2 DEF cmd_ping
      <4> QED
        BY <4>1, <4>2 DEF PingTypes
    <3>3. PingOK'
      BY <2>2 DEF cmd_ping, PingTypes, PingOK, replyVars
    <3> QED
      BY <2>1, <3>1, <3>2, <3>3
  <2>3. CASE ~ nic_present
    BY <2>1, <2>3 DEF cmd_ping, PingTypes, PingOK, NxOneEntry, replyVars, pingVars
  <2> QED
    BY <2>2, <2>3
<1>7. CASE cmd_arp
  <2>1. RingOK' /\ CardTypes'
    BY <1>7, RingSame DEF cmd_arp, CardTypes, cardVars, ringVars
  <2>2. NxOneEntry'
    BY <1>7 DEF cmd_arp, NxOneEntry
  <2>3. PingTypes'
    <3>1. commands' \in Nat
      BY <1>7 DEF cmd_arp, PingTypes
    <3>2. UNCHANGED <<arp, target, seq, sent, transmitted>> /\ ifl' = FALSE /\ nxPc' = "show"
      BY <1>7 DEF cmd_arp
    <3> QED
      BY <3>1, <3>2 DEF PingTypes
  <2>4. PingOK'
    BY <1>7 DEF cmd_arp, PingTypes, PingOK, replyVars
  <2> QED
    BY <2>1, <2>2, <2>3, <2>4
<1>8. CASE arp_dump
  <2>1. RingOK' /\ CardTypes'
    BY <1>8, RingSame DEF arp_dump, CardTypes, cardVars, ringVars
  <2> QED
    BY <1>8, <2>1 DEF arp_dump, PingTypes, PingOK, NxOneEntry, replyVars
<1>9. CASE ping_sends
  <2>1. /\ sent' = transmitted' /\ sent' \in Nat /\ ifl' /\ arp' \in ArpState
        /\ arp'.table = arp.table /\ air' \subseteq GoodFrame /\ asked' \subseteq NxHost
    BY <1>9, AsksWhenOpen
  <2>2. ifl' = TRUE
    BY <1>9 DEF ping_sends, icmp_ping, ip_send, ne2000_send, Known, Hop, NextHop
  <2>3. RingOK'
    BY <1>9, RingSame DEF ping_sends, ringVars
  <2>4. CardTypes' /\ PingTypes' /\ NxOneEntry'
    BY <1>9, <2>1, <2>2 DEF ping_sends, CardTypes, PingTypes, NxOneEntry, ringVars
  <2>5. PingOK'
    BY <1>9, <2>1, <2>2 DEF ping_sends, PingOK, Polled, ClearsReply
  <2> QED
    BY <2>3, <2>4, <2>5
<1>10. CASE ping_asks
  <2>1. Hop \in NxHost /\ AsksArp(arp, Hop) /\ arp \in ArpState
    BY <1>10, NetSizes DEF ping_asks, Hop, NextHop, PingTypes
  <2>2. /\ arp' \in ArpState /\ arp'.table = arp.table /\ arp'.pending /\ ifl' \in BOOLEAN
        /\ air' \subseteq GoodFrame /\ asked' \subseteq NxHost
        /\ ifl' \/ (arp' = arp /\ ifl' = ifl)
    BY <2>1, AskKeeps DEF PingTypes, PingOK
  <2>3. RingOK'
    BY <1>10, RingSame DEF ping_asks, ringVars
  <2>4. CardTypes' /\ PingTypes' /\ NxOneEntry'
    BY <1>10, <2>2 DEF ping_asks, CardTypes, PingTypes, NxOneEntry, ringVars
  <2>5. PingOK'
    BY <1>10, <2>2 DEF ping_asks, PingOK, Polled, replyVars
  <2> QED
    BY <2>3, <2>4, <2>5
<1>11. CASE ping_waits
  <2>1. RingOK' /\ CardTypes'
    BY <1>11, RingSame DEF ping_waits, CardTypes, cardVars, ringVars
  <2> QED
    BY <1>11, <2>1 DEF ping_waits, PingTypes, PingOK, NxOneEntry, replyVars, sendVars, Polled
<1>12. CASE ping_prints
  <2>1. RingOK' /\ CardTypes'
    BY <1>12, RingSame DEF ping_prints, CardTypes, cardVars, ringVars
  <2>2. nxPc \in {"arp", "echo"} /\ ifl' \in BOOLEAN /\ seq' \in Nat
    <3>1. nxPc \in {"arp", "echo"} /\ NextEcho
      BY <1>12 DEF ping_prints, Polled
    <3>2. CASE seq = NX_SEQS
      BY <3>1, <3>2 DEF NextEcho, PingTypes
    <3>3. CASE seq # NX_SEQS
      BY <3>1, <3>3 DEF NextEcho, PingTypes
    <3> QED
      BY <3>1, <3>2, <3>3
  <2> QED
    BY <1>12, <2>1, <2>2 DEF ping_prints, NextEcho, PingTypes, PingOK, NxOneEntry, replyVars
<1>13. CASE nx_tick
  <2>1. RingOK' /\ CardTypes'
    BY <1>13, RingSame DEF nx_tick, CardTypes, cardVars, ringVars
  <2>2. arp' \in ArpState /\ arp'.table = arp.table /\ arp'.pending = arp.pending
    BY <1>13 DEF nx_tick, PingTypes, ArpState
  <2> QED
    BY <1>13, <2>1, <2>2 DEF nx_tick, Woken, PingTypes, PingOK, NxOneEntry, replyVars
<1>14. CASE UNCHANGED noxisNetVars
  <2>1. RingOK' /\ CardTypes'
    BY <1>14, RingSame DEF noxisNetVars, CardTypes, cardVars, ringVars
  <2> QED
    BY <1>14, <2>1 DEF noxisNetVars, PingTypes, PingOK, NxOneEntry, replyVars, sendVars, pingVars
<1> QED
  BY <1>1, <1>2, <1>3, <1>4, <1>5, <1>6, <1>7, <1>8, <1>9, <1>10, <1>11, <1>12, <1>13, <1>14
     DEF NoxisNetNext

LEMMA NxAccounts == NxInv => PingAccounted
<1> SUFFICES ASSUME NxInv PROVE PingAccounted
  OBVIOUS
<1>1. NxOneEntry /\ SentIsTransmitted /\ CountedIsFresh /\ AsksNeighbours /\ StuckBehindRequest
  BY DEF NxInv, PingOK, PingTypes, SentIsTransmitted, CountedIsFresh, Answered,
         AsksNeighbours, StuckBehindRequest
<1>2. sw_head \in NxSlot /\ sw_tail \in NxSlot /\ NX_SW_RING - 1 \in NxSlot
  BY NetSizes DEF NxInv, CardTypes, NxSlot
<1>3. Waiting = Used /\ Used \in NxSlot
      /\ \A i, k \in NxSlot : Place(i, k) \in NxSlot /\ (i + k) % NX_SW_RING = Place(i, k)
  BY <1>2, RingArithmetic
<1>4. arrived = Len(card) + rx_packets + rx_dropped
  BY DEF NxInv, RingOK, Seen, CardTypes
<1>5. Waiting = 0 => sw_ring[(sw_head + NX_SW_RING - 1) % NX_SW_RING][1] = polled
  <2>1. sw_head + NX_SW_RING - 1 = sw_head + (NX_SW_RING - 1)
    BY <1>2, NetSizes DEF NxSlot
  <2>2. (sw_head + NX_SW_RING - 1) % NX_SW_RING = Place(sw_head, NX_SW_RING - 1)
    BY <2>1, <1>2, <1>3
  <2> QED
    BY <2>2, <1>3 DEF NxInv, RingOK
<1>6. ASSUME NEW k \in 1 .. Waiting
      PROVE  (IF k = 1 THEN polled ELSE sw_ring[(sw_tail + k - 2) % NX_SW_RING][1])
               < sw_ring[(sw_tail + k - 1) % NX_SW_RING][1]
  <2>1. k - 1 \in NxSlot /\ k - 1 < Used /\ sw_tail + k - 1 = sw_tail + (k - 1)
    BY <1>2, <1>3, NetSizes DEF NxSlot
  <2>2. (sw_tail + k - 1) % NX_SW_RING = Place(sw_tail, k - 1)
    BY <2>1, <1>2, <1>3
  <2>3. NumberBefore(k - 1) < sw_ring[Place(sw_tail, k - 1)][1]
    BY <2>1 DEF NxInv, RingOK
  <2>4. CASE k = 1
    BY <2>2, <2>3, <2>4 DEF NumberBefore
  <2>5. CASE k # 1
    <3>1. k - 2 \in NxSlot /\ sw_tail + k - 2 = sw_tail + (k - 2) /\ k - 1 - 1 = k - 2 /\ k - 1 # 0
      BY <2>5, <1>2, <1>3, NetSizes DEF NxSlot
    <3>2. (sw_tail + k - 2) % NX_SW_RING = Place(sw_tail, k - 2)
      BY <3>1, <1>2, <1>3
    <3>3. NumberBefore(k - 1) = sw_ring[Place(sw_tail, k - 2)][1]
      BY <3>1 DEF NumberBefore
    <3> QED
      BY <3>2, <3>3, <2>2, <2>3, <2>5
  <2> QED
    BY <2>4, <2>5
<1>7. NxFramesAccounted
  BY <1>4, <1>5, <1>6 DEF NxFramesAccounted
<1> QED
  BY <1>1, <1>7 DEF PingAccounted

\* Whatever the card brings between two steps of PING, however late, often or
\* never the hosts answer, and whatever was asked before: every frame is
\* counted and in order, PING counts what went out and what came after its
\* request, and only hosts of the subnet are asked, with one entry for each
\* (net/ne2000.c:63-65, net/arp.c:25-105, drivers/shell.c:364-393).
THEOREM PingCountsAlways == NoxisNetSpec => []PingAccounted
<1>1. NoxisNetInit => NxInv
  BY NetInitOK
<1>2. NxInv /\ [NoxisNetNext]_noxisNetVars => NxInv'
  BY NxStep
<1>3. NxInv => PingAccounted
  BY NxAccounts
<1> QED
  BY <1>1, <1>2, <1>3, PTL DEF NoxisNetSpec
================================================================================
