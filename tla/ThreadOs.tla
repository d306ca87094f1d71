------------------------------ MODULE ThreadOs ------------------------------
(***************************************************************************)
(* The multiprocessor threads of am-kernels/kernels/thread-os/thread-os.c  *)
(* on the abstract machine's native port: mpe_init and its start-up pipe   *)
(* (am/src/native/mpe.c), and the trap path that saves a context on the    *)
(* stack of the interrupted thread, lets the kernel choose another and     *)
(* restores that one (am/src/native/cte.c).                                *)
(*                                                                         *)
(* The hard part is what no lock protects: every processor runs            *)
(* on_interrupt on the stack of the thread it has just given up, so a      *)
(* thread must not be resumed elsewhere before the switch is over.         *)
(***************************************************************************)
EXTENDS Integers

CONSTANTS
    NCPU,       \* cpu_count()
    NTASK       \* LENGTH(tasks)

\* With more processors than tasks the search of on_interrupt never ends.
ASSUME ThreadOsAssumption == NCPU \in Nat \ {0} /\ NTASK \in Nat /\ NCPU <= NTASK

Cpus == 0 .. NCPU - 1
Tasks == 0 .. NTASK - 1
NoTask == -1

VARIABLES
    mode,       \* what a processor does: start-up, a thread, or a stage of the trap path
    currents,   \* per processor: the task it last chose, NoTask before the first
    stack,      \* per processor: the task on whose stack it is, NoTask for its boot stack
    reg,        \* per processor: where the running code is; in a trap, the context just saved
    context,    \* per task: where its saved context resumes
    locked,     \* the lock of the tasks
    pipe,       \* start-up bytes in the pipe
    at          \* per task: where it has got to (history)

tvars == <<mode, currents, stack, reg, context, locked, pipe, at>>

Modes == {"main", "wait", "entry", "open", "run", "trap", "pick", "iret"}
Spots == {"lock", "crit", "work", "boot"}

-----------------------------------------------------------------------------
(* Start-up.  The parent lets the children go once its devices are ready,  *)
(* with one byte for each; every processor then enters mp_entry.           *)
StartChildren ==
    /\ mode[0] = "main"
    /\ pipe' = NCPU - 1
    /\ mode' = [mode EXCEPT ![0] = "entry"]
    /\ UNCHANGED <<currents, stack, reg, context, locked, at>>

ChildStarts(c) ==
    /\ mode[c] = "wait" /\ pipe > 0
    /\ pipe' = pipe - 1
    /\ mode' = [mode EXCEPT ![c] = "entry"]
    /\ UNCHANGED <<currents, stack, reg, context, locked, at>>

\* iset(true); the yield() after it, or a timer signal before it, is the first trap.
iset(c) ==
    /\ mode[c] = "entry"
    /\ mode' = [mode EXCEPT ![c] = "open"]
    /\ UNCHANGED <<currents, stack, reg, context, locked, pipe, at>>

-----------------------------------------------------------------------------
(* The trap path, with interrupts masked from the signal to the return.    *)
Trap(c) ==
    /\ mode[c] \in {"open", "run"}
    /\ mode' = [mode EXCEPT ![c] = "trap"]
    /\ UNCHANGED <<currents, stack, reg, context, locked, pipe, at>>

(* Mutant: the context of the interrupted task is not kept.              *)
LosesContext(c) ==
    /\ mode[c] = "trap"
    /\ currents' = [currents EXCEPT ![c] = IF @ = NoTask THEN 0 ELSE @]
    /\ mode' = [mode EXCEPT ![c] = "pick"]
    /\ UNCHANGED <<stack, reg, context, locked, pipe, at>>

\* on_interrupt: keep the context of the current task; the boot context is given up.
SaveContext(c) ==
    /\ mode[c] = "trap"
    /\ IF currents[c] = NoTask
       THEN currents' = [currents EXCEPT ![c] = 0] /\ UNCHANGED context
       ELSE context' = [context EXCEPT ![currents[c]] = reg[c]] /\ UNCHANGED currents
    /\ mode' = [mode EXCEPT ![c] = "pick"]
    /\ UNCHANGED <<stack, reg, locked, pipe, at>>

(* Mutant: the tasks are shared by the processors.                       *)
Anyones(c, t) == TRUE

\* One turn of its loop: the next task of the ring, until it is one of this processor's.
Mine(c, t) == t % NCPU = c
(* Mutant: the search begins with the current task.                      *)
PickSame(c) ==
    /\ mode[c] = "pick"
    /\ LET t == IF Mine(c, currents[c]) THEN currents[c] ELSE (currents[c] + 1) % NTASK
       IN  /\ currents' = [currents EXCEPT ![c] = t]
           /\ mode' = [mode EXCEPT ![c] = IF Mine(c, t) THEN "iret" ELSE "pick"]
    /\ UNCHANGED <<stack, reg, context, locked, pipe, at>>

PickNext(c) ==
    /\ mode[c] = "pick"
    /\ LET t == (currents[c] + 1) % NTASK
       IN  /\ currents' = [currents EXCEPT ![c] = t]
           /\ mode' = [mode EXCEPT ![c] = IF Mine(c, t) THEN "iret" ELSE "pick"]
    /\ UNCHANGED <<stack, reg, context, locked, pipe, at>>

\* irq_handle returns into the chosen context; only now does it leave the old stack.
iret(c) ==
    /\ mode[c] = "iret"
    /\ stack' = [stack EXCEPT ![c] = currents[c]]
    /\ reg' = [reg EXCEPT ![c] = context[currents[c]]]
    /\ mode' = [mode EXCEPT ![c] = "run"]
    /\ UNCHANGED <<currents, context, locked, pipe, at>>

-----------------------------------------------------------------------------
(* The tasks: lock() spins on atomic_xchg, printf, unlock(), a delay.      *)
TaskStep(c, to) == /\ reg' = [reg EXCEPT ![c] = to]
               /\ at' = [at EXCEPT ![stack[c]] = to]
               /\ UNCHANGED <<mode, currents, stack, context, pipe>>

(* Mutant: the old value of the lock is not looked at.                   *)
LockBlindly(c) ==
    /\ mode[c] = "run" /\ reg[c] = "lock"
    /\ locked' = TRUE
    /\ TaskStep(c, "crit")

lock(c) ==
    /\ mode[c] = "run" /\ reg[c] = "lock"
    /\ locked' = TRUE
    /\ TaskStep(c, IF locked THEN "lock" ELSE "crit")

(* Mutant: the lock is not given back.                                   *)
KeepsLock(c) ==
    /\ mode[c] = "run" /\ reg[c] = "crit"
    /\ UNCHANGED locked
    /\ TaskStep(c, "work")

unlock(c) ==
    /\ mode[c] = "run" /\ reg[c] = "crit"
    /\ locked' = FALSE
    /\ TaskStep(c, "work")

Work(c) ==
    /\ mode[c] = "run" /\ reg[c] = "work"
    /\ TaskStep(c, "lock")
    /\ UNCHANGED locked

func(c) == lock(c) \/ unlock(c) \/ Work(c)

-----------------------------------------------------------------------------
TInit ==
    /\ mode = [c \in Cpus |-> IF c = 0 THEN "main" ELSE "wait"]
    /\ currents = [c \in Cpus |-> NoTask]
    /\ stack = [c \in Cpus |-> NoTask]
    /\ reg = [c \in Cpus |-> "boot"]
    /\ context = [t \in Tasks |-> "lock"]
    /\ locked = FALSE /\ pipe = 0
    /\ at = [t \in Tasks |-> "lock"]

Kernel(c) == SaveContext(c) \/ PickNext(c) \/ iret(c)
TNext ==
    \/ StartChildren
    \/ \E c \in Cpus : ChildStarts(c) \/ iset(c) \/ Trap(c) \/ Kernel(c) \/ func(c)

TSpec == TInit /\ [][TNext]_tvars

\* Every processor runs, the timer keeps interrupting it, and a thread that gets the processor
\* again and again gets on: a time slice is long enough for a step.
Runs(c) == ChildStarts(c) \/ iset(c) \/ Kernel(c)
RunsTask(t) == \E c \in Cpus : stack[c] = t /\ func(c)
TFair ==
    /\ TSpec /\ WF_tvars(StartChildren)
    /\ \A c \in Cpus : WF_tvars(Runs(c)) /\ WF_tvars(Trap(c))
    /\ \A t \in Tasks : SF_tvars(RunsTask(t))

-----------------------------------------------------------------------------
(* Type correctness of the threads and the processors.                     *)
TTypeOK ==
    /\ mode \in [Cpus -> Modes]
    /\ currents \in [Cpus -> Tasks \cup {NoTask}] /\ stack \in [Cpus -> Tasks \cup {NoTask}]
    /\ reg \in [Cpus -> Spots] /\ context \in [Tasks -> Spots] /\ at \in [Tasks -> Spots]
    /\ locked \in BOOLEAN /\ pipe \in 0 .. NCPU - 1

\* No stack is used by two processors, the one that is still switching away from its thread
\* included (thread-os.c on_interrupt, cte.c irq_handle).
OneCpuPerStack ==
    \A c, d \in Cpus : c # d /\ stack[c] # NoTask => stack[c] # stack[d]

\* A thread goes on exactly where it was interrupted: its place is in the registers of the
\* processor that runs or is interrupting it, and otherwise in its saved context.
Active(c) == mode[c] \in {"run", "trap"}
ResumesWhereItStopped ==
    /\ \A c \in Cpus : Active(c) /\ stack[c] # NoTask => reg[c] = at[stack[c]]
    /\ \A t \in Tasks : (\A c \in Cpus : ~(Active(c) /\ stack[c] = t)) => context[t] = at[t]

\* At most one thread is between lock() and unlock(), also while it is not running.
MutualExclusion ==
    \A s, t \in Tasks : at[s] = "crit" /\ at[t] = "crit" => s = t

\* Every task gets the processor again and again.
EveryTaskRuns == \A t \in Tasks : []<>(\E c \in Cpus : mode[c] = "run" /\ stack[c] = t)

\* The lock never stays taken, also when its holder is interrupted.
LockIsReleased == []<>~locked
=============================================================================
