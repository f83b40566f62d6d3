------------------------------- MODULE TaskSched -------------------------------
(* The tasks of noxis (23-fixes): the table and the weighted round robin of   *)
(* cpu/task.c, the timer and the yield interrupt that enter it, the demo      *)
(* tasks, and the shell commands RUN, KILL and YIELD.  The shell runs          *)
(* inside the keyboard interrupt (kernel/kernel.c:36), on the stack of        *)
(* whichever task the key interrupted and, the gates being interrupt gates    *)
(* (cpu/idt.c:8), as one step.  A saved register frame is abstracted to the   *)
(* point of the task's code at which it resumes.                              *)
EXTENDS Naturals, FiniteSets

CONSTANTS
  MAX_TASKS,     \* slots of the task table; slot 0 is the kernel task
  SleepTicks,    \* what task_sleep() is called with, in ticks
  Demos          \* what RUN may start: pairs of "sleeps" or "yields" and a weight

ASSUME TaskAssumption ==
  /\ MAX_TASKS \in Nat \ {0, 1} /\ SleepTicks \in Nat \ {0}
  /\ Demos \subseteq {"sleeps", "yields"} \X (Nat \ {0})

VARIABLES
  state,         \* [slot -> DEAD, READY, RUNNING or SLEEPING]
  weight, quantum_left, kill_req,
  wake_in,       \* [slot -> ticks until tick >= wake_tick]
  entry,         \* [slot -> the demo it runs]
  stack_base,    \* [slot -> address of its stack, 0 before the first]
  regs,          \* [slot -> where its saved frame resumes; none on the CPU]
  current_task,
  cpu,           \* where the code on the CPU is
  free_mem_addr, \* next free heap address, in pages
  slices,        \* history: consecutive slices of the current task
  overrun        \* history: slots that RUN took from the ended task on the CPU

taskVars == <<state, weight, quantum_left, kill_req, wake_in, entry, stack_base,
              regs, current_task, cpu, free_mem_addr, slices, overrun>>

Slot == 0..(MAX_TASKS - 1)
HEAP_START == 1

(* A demo goes round poll and work, for one that sleeps sleep_2 and sleep_3;  *)
(* ending takes it through exit_1 and exit_2 to the halt loop.                *)
TaskPoints == {"none", "kernel", "poll", "work", "sleep_2",
               "sleep_3", "exit_1", "exit_2", "halt"}
Ended == {"exit_2", "halt"}

task_init ==
  /\ state = [s \in Slot |-> IF s = 0 THEN "RUNNING" ELSE "DEAD"]
  /\ weight = [s \in Slot |-> 0] /\ quantum_left = [s \in Slot |-> 0]
  /\ kill_req = [s \in Slot |-> FALSE] /\ wake_in = [s \in Slot |-> 0]
  /\ entry = [s \in Slot |-> "none"] /\ stack_base = [s \in Slot |-> 0]
  /\ regs = [s \in Slot |-> "none"]
  /\ current_task = 0 /\ cpu = "kernel"
  /\ free_mem_addr = HEAP_START /\ slices = 1 /\ overrun = {}

-------------------------------------------------------------------------------
(* The search of scheduler_tick(): from the slot after the current one, the   *)
(* kernel's slot replaced by slot 1, the current one last.                    *)
Nth(i) == LET s == (current_task + i) % MAX_TASKS IN IF s = 0 THEN 1 ELSE s

\* Mutation: the wake time of a sleeping task is not looked at.
RunnableAwake(st, left, s) == st[s] = "READY"
Runnable(st, left, s) == st[s] = "READY" \/ (st[s] = "SLEEPING" /\ left[s] = 0)

Found(st, left) == {i \in 1..MAX_TASKS : Runnable(st, left, Nth(i))}

NextTask(st, left) ==
  IF Found(st, left) = {} THEN 0
  ELSE Nth(CHOOSE i \in Found(st, left) : \A j \in Found(st, left) : i <= j)

(* A weighted task keeps the CPU while its quantum lasts.                     *)
HasQuantum(st) ==
  current_task > 0 /\ st[current_task] = "READY" /\ quantum_left[current_task] > 0

Fresh(s) == weight[s] - 1

(* Being interrupted ends RUNNING, not SLEEPING and not DEAD.                 *)
\* Mutation: a task that sleeps is made ready.
PreemptedAlways == "READY"
Preempted == IF state[current_task] = "RUNNING" THEN "READY" ELSE state[current_task]

(* scheduler_tick(): `at` is the frame of the interrupted code.               *)
scheduler_tick(at, left) ==
  LET st    == [state EXCEPT ![current_task] = Preempted]
      saved == [regs EXCEPT ![current_task] = at]
      next  == IF HasQuantum(st) THEN current_task ELSE NextTask(st, left)
  IN /\ wake_in' = left /\ regs' = [saved EXCEPT ![next] = "none"]
     /\ state' = [st EXCEPT ![next] = "RUNNING"]
     /\ quantum_left' = IF next = 0 THEN quantum_left
                        ELSE [quantum_left EXCEPT ![next] =
                                IF HasQuantum(st) THEN @ - 1 ELSE Fresh(next)]
     /\ current_task' = next /\ cpu' = saved[next]
     /\ slices' = IF HasQuantum(st) THEN slices + 1 ELSE 1
     /\ UNCHANGED <<weight, kill_req, entry, stack_base, free_mem_addr, overrun>>

(* timer_callback(): one tick.                                                *)
timer_callback ==
  scheduler_tick(cpu, [s \in Slot |-> IF wake_in[s] = 0 THEN 0 ELSE wake_in[s] - 1])

-------------------------------------------------------------------------------
(* The code of a task.                                                        *)
TaskRest == UNCHANGED <<weight, quantum_left, entry, stack_base, regs,
                        current_task, free_mem_addr, slices, overrun>>

(* The head of a demo's loop: task_should_exit().                             *)
DemoPolls == /\ cpu = "poll"
             /\ cpu' = IF kill_req[current_task] THEN "exit_1" ELSE "work"
             /\ UNCHANGED <<state, kill_req, wake_in>> /\ TaskRest

(* task_yield(): spin's burst of work ends in int 0x81.                       *)
task_yield == /\ cpu = "work" /\ entry[current_task] = "yields"
              /\ scheduler_tick("poll", wake_in)

(* task_sleep(): the wake tick, then the state, then int 0x81; the timer may  *)
(* come between any two of them.                                              *)
SetsWake == /\ cpu = "work" /\ entry[current_task] = "sleeps"
            /\ wake_in' = [wake_in EXCEPT ![current_task] = SleepTicks]
            /\ cpu' = "sleep_2" /\ UNCHANGED <<state, kill_req>> /\ TaskRest
SetsSleeping == /\ cpu = "sleep_2"
                /\ state' = [state EXCEPT ![current_task] = "SLEEPING"]
                /\ cpu' = "sleep_3" /\ UNCHANGED <<kill_req, wake_in>> /\ TaskRest
SleepYields == cpu = "sleep_3" /\ scheduler_tick("poll", wake_in)

(* The end of task_trampoline().  Its `me` lies at the top of the stack, where *)
(* the frame of a task that RUN puts into the slot has 0.                      *)
MarksDead == /\ cpu = "exit_1"
             /\ state' = [state EXCEPT ![current_task] = "DEAD"]
             /\ cpu' = "exit_2" /\ UNCHANGED <<kill_req, wake_in>> /\ TaskRest
ClearsKill == /\ cpu = "exit_2"
              /\ \E me \in {current_task} \cup {s \in {0} : current_task \in overrun} :
                   kill_req' = [kill_req EXCEPT ![me] = FALSE]
              /\ cpu' = "halt" /\ UNCHANGED <<state, wake_in>> /\ TaskRest

TaskRuns == DemoPolls \/ task_yield \/ SetsWake \/ SetsSleeping
            \/ SleepYields \/ MarksDead \/ ClearsKill

-------------------------------------------------------------------------------
(* The stack task_create_prio() gives a slot: the one it had, or a page from  *)
(* kmalloc().                                                                 *)
StackFor(s) == IF stack_base[s] # 0
               THEN [at |-> stack_base[s], free |-> free_mem_addr]
               ELSE [at |-> free_mem_addr, free |-> free_mem_addr + 1]

(* RUN: task_create_prio() takes the lowest dead slot, that of the current    *)
(* task too: the next tick saves the code on the CPU over the new frame.      *)
task_create_prio(d, w) ==
  LET free == {s \in Slot \ {0} : state[s] = "DEAD"}
      slot == CHOOSE s \in free : \A t \in free : s <= t
  IN /\ free # {}
     /\ state' = [state EXCEPT ![slot] = "READY"]
     /\ kill_req' = [kill_req EXCEPT ![slot] = FALSE]
     /\ wake_in' = [wake_in EXCEPT ![slot] = 0]
     /\ entry' = [entry EXCEPT ![slot] = d]
     /\ weight' = [weight EXCEPT ![slot] = w]
     /\ quantum_left' = [quantum_left EXCEPT ![slot] = w]
     /\ regs' = [regs EXCEPT ![slot] = "poll"]
     /\ stack_base' = [stack_base EXCEPT ![slot] = StackFor(slot).at]
     /\ free_mem_addr' = StackFor(slot).free
     /\ slices' = IF slot = current_task THEN 0 ELSE slices
     /\ overrun' = overrun \cup ({slot} \cap {current_task})
     /\ UNCHANGED <<current_task, cpu>>

(* KILL: task_kill() only leaves a request.                                   *)
task_kill(s) ==
  /\ s # 0 /\ state[s] # "DEAD"
  /\ kill_req' = [kill_req EXCEPT ![s] = TRUE]
  /\ UNCHANGED <<state, wake_in, cpu>> /\ TaskRest

cmd_run  == \E d \in Demos : task_create_prio(d[1], d[2])
cmd_kill == \E s \in Slot : task_kill(s)
(* YIELD: int 0x81 from inside the keyboard interrupt.                        *)
cmd_yield == scheduler_tick(cpu, wake_in)
keyboard_callback == cmd_run \/ cmd_kill \/ cmd_yield

TaskNext == timer_callback \/ TaskRuns \/ keyboard_callback

(* The timer keeps ticking, and the code of a task that is on the CPU again   *)
(* and again gets on.                                                         *)
TaskFairness == /\ WF_taskVars(timer_callback)
                /\ \A s \in Slot \ {0} : SF_taskVars(current_task = s /\ TaskRuns)

-------------------------------------------------------------------------------
TaskTypeOK ==
  /\ state \in [Slot -> {"DEAD", "READY", "RUNNING", "SLEEPING"}]
  /\ regs \in [Slot -> TaskPoints] /\ cpu \in TaskPoints /\ current_task \in Slot
  /\ quantum_left \in [Slot -> Nat] /\ wake_in \in [Slot -> 0..SleepTicks]
  /\ entry \in [Slot -> {"none", "sleeps", "yields"}] /\ kill_req \in [Slot -> BOOLEAN]

FrameOf(s) == IF s = current_task THEN cpu ELSE regs[s]

(* The table and the frames agree, whenever RUN comes (task_create_prio()):   *)
(* only the current task is RUNNING, a task that is to run again resumes its  *)
(* own code, and a dead one only the halt loop.  A slot that was taken from   *)
(* the ended task on the CPU, and no other, is lost: its task counts as alive *)
(* for ever and stands in the halt loop of the one before.                    *)
FramesMatchTable ==
  \A s \in Slot :
    /\ state[s] = "RUNNING" => s = current_task
    /\ state[s] = "DEAD" => FrameOf(s) \in Ended \cup {"none"}
    /\ state[s] # "DEAD" => (FrameOf(s) \in Ended <=> s \in overrun)
    /\ s \in overrun => state[s] # "DEAD"

(* "The task becomes READY and is picked up by the preemptive scheduler on    *)
(* the next timer tick.  Safe to call from any context." (cpu/task.h:41-42):  *)
(* a task that is picked up runs its own code, never the end of another.      *)
SafeFromAnyContext == \A s \in Slot : state[s] = "RUNNING" => FrameOf(s) \notin Ended

(* However many tasks come and go, the heap holds one stack for each slot     *)
(* (cpu/task.c:79 "leak fix"), and no two tasks share one.                    *)
StacksApart ==
  /\ free_mem_addr - HEAP_START <= MAX_TASKS - 1
  /\ \A s, t \in Slot \ {0} : (s # t /\ stack_base[s] # 0) => stack_base[s] # stack_base[t]

(* "a task with weight w gets up to w consecutive slices before the scheduler *)
(* rotates" (src/README.md:165): with another task ready it gets no more.     *)
QuantumKept ==
  (slices' > slices /\ current_task' = current_task)
    => slices' <= weight[current_task]

(* A task that is asked to exit ends, asleep or not, and whatever the others  *)
(* do: it gets the CPU again and finds the request.  One in a lost slot never *)
(* looks.                                                                     *)
KilledEnds == \A s \in Slot \ {0} : kill_req[s] ~> (state[s] = "DEAD" \/ s \in overrun)

(* The tasks of noxis run as they were spawned: on their own stacks and for   *)
(* their share of slices (cpu/task.c:79-260).                                 *)
TasksKept ==
  /\ [](TaskTypeOK /\ FramesMatchTable /\ StacksApart)
  /\ [][QuantumKept]_taskVars
===============================================================================
