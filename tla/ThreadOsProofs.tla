--------------------------- MODULE ThreadOsProofs ---------------------------
(***************************************************************************)
(* The threads keep their stacks, their places and the lock, for every     *)
(* number of processors and tasks.  No lock protects the scheduler: what   *)
(* makes it right is that a task is only ever chosen by one processor.     *)
(***************************************************************************)
EXTENDS ThreadOs, TLAPS

\* Where a processor is in the trap path says what its registers and currents are about.
Phase ==
    \A c \in Cpus :
        /\ mode[c] \in {"main", "wait", "entry", "open"} => currents[c] = NoTask /\ stack[c] = NoTask
        /\ mode[c] \in {"run", "trap"} => currents[c] = stack[c]
        /\ mode[c] = "run" => stack[c] # NoTask
        /\ mode[c] \in {"pick", "iret"} => currents[c] # NoTask
        /\ mode[c] = "main" => c = 0

\* A processor is on its boot stack or on the stack of a task of its own, and goes only to those.
Pinned ==
    \A c \in Cpus :
        /\ stack[c] # NoTask => Mine(c, stack[c])
        /\ mode[c] = "iret" => Mine(c, currents[c])

\* The lock is held by the one task in its critical section, if there is one.
LockHeld ==
    /\ locked => \E t \in Tasks : at[t] = "crit"
    /\ ~locked => \A t \in Tasks : at[t] # "crit"

TInv == /\ TTypeOK /\ Phase /\ Pinned
        /\ ResumesWhereItStopped /\ MutualExclusion /\ LockHeld

-----------------------------------------------------------------------------
\* The null pointer is no task.
LEMMA NoTaskIsNone == NoTask \notin Tasks
  BY DEF NoTask, Tasks

\* The task behind a task is a task (the ring main builds).
LEMMA NextTask ==
    ASSUME NEW t \in Tasks PROVE (t + 1) % NTASK \in Tasks
  BY ThreadOsAssumption DEF Tasks

\* There is a first processor.
LEMMA Bounds == /\ NCPU \in Nat /\ NCPU > 0 /\ 0 \in Cpus
                /\ NTASK \in Nat /\ NTASK > 0 /\ 0 \in Tasks
  BY ThreadOsAssumption DEF Cpus, Tasks

\* The invariant holds when mpe_init has forked.
LEMMA TInvInit == TInit => TInv
  <1> SUFFICES ASSUME TInit PROVE TInv
    OBVIOUS
  <1> USE Bounds, NoTaskIsNone DEF TInit
  <1>1. TTypeOK
    <2>1. mode \in [Cpus -> Modes] /\ reg \in [Cpus -> Spots]
      BY DEF Modes, Spots
    <2>2. context \in [Tasks -> Spots] /\ at \in [Tasks -> Spots]
      BY DEF Spots
    <2>3. currents \in [Cpus -> Tasks \cup {NoTask}] /\ stack \in [Cpus -> Tasks \cup {NoTask}]
      OBVIOUS
    <2>4. locked \in BOOLEAN
      OBVIOUS
    <2>5. pipe \in 0 .. NCPU - 1
      OBVIOUS
    <2> QED BY <2>1, <2>2, <2>3, <2>4, <2>5 DEF TTypeOK
  <1>2. Phase /\ Pinned
    BY DEF Phase, Pinned
  <1>3. ResumesWhereItStopped
    BY DEF ResumesWhereItStopped, Active
  <1>4. MutualExclusion /\ LockHeld
    BY DEF MutualExclusion, LockHeld
  <1> QED BY <1>1, <1>2, <1>3, <1>4 DEF TInv

\* Two processors never own the same task.
LEMMA PinnedApart ==
    ASSUME Pinned, NEW c \in Cpus, NEW d \in Cpus, c # d, stack[c] # NoTask
    PROVE  stack[c] # stack[d]
  BY DEF Pinned, Mine

-----------------------------------------------------------------------------
(* Steps that only move a processor from one phase to the next.            *)
LEMMA StartUpKeeps ==
    ASSUME TInv, NEW c \in Cpus, StartChildren \/ ChildStarts(c) \/ iset(c) \/ Trap(c)
    PROVE  TInv'
  <1> USE Bounds, NoTaskIsNone DEF TInv, TTypeOK, Modes
  <1>1. UNCHANGED <<currents, stack, reg, context, locked, at>>
    BY DEF StartChildren, ChildStarts, iset, Trap
  <1>2. PICK d \in Cpus, to \in {"entry", "open", "trap"} :
            /\ mode' = [mode EXCEPT ![d] = to]
            /\ to \in {"entry", "open"} => mode[d] \in {"main", "wait", "entry"}
            /\ to = "trap" => mode[d] \in {"open", "run"}
    BY DEF StartChildren, ChildStarts, iset, Trap
  <1>3. pipe' \in 0 .. NCPU - 1
    BY DEF StartChildren, ChildStarts, iset, Trap
  <1>4. TTypeOK'
    BY <1>1, <1>2, <1>3
  <1>5. Phase'
    BY <1>1, <1>2 DEF Phase
  <1>6. Pinned'
    BY <1>1, <1>2 DEF Pinned
  <1>7. \A e \in Cpus : stack[e] # NoTask => (Active(e)' <=> Active(e))
    BY <1>1, <1>2 DEF Phase, Active
  <1>8. ResumesWhereItStopped'
    BY <1>1, <1>2, <1>7 DEF ResumesWhereItStopped
  <1>9. MutualExclusion' /\ LockHeld'
    BY <1>1 DEF MutualExclusion, LockHeld
  <1> QED BY <1>4, <1>5, <1>6, <1>8, <1>9

\* Saving the context of the current task keeps it, the boot context being given up.
LEMMA SaveKeeps ==
    ASSUME TInv, NEW c \in Cpus, SaveContext(c)
    PROVE  TInv'
  <1> USE Bounds, NoTaskIsNone DEF TInv, TTypeOK, Modes, Spots
  <1>1. UNCHANGED <<stack, reg, locked, pipe, at>> /\ mode[c] = "trap" /\ currents[c] = stack[c]
        /\ mode' = [mode EXCEPT ![c] = "pick"]
    BY DEF SaveContext, Phase
  <1>2. CASE currents[c] = NoTask
    <2>1. currents' = [currents EXCEPT ![c] = 0] /\ context' = context
      BY <1>2 DEF SaveContext
    <2>2. TTypeOK'
      BY <1>1, <2>1
    <2>3. Phase' /\ Pinned'
      BY <1>1, <2>1 DEF Phase, Pinned
    <2>4. ResumesWhereItStopped'
      BY <1>1, <1>2, <2>1 DEF ResumesWhereItStopped, Active
    <2> QED BY <1>1, <2>2, <2>3, <2>4 DEF MutualExclusion, LockHeld
  <1>3. CASE currents[c] # NoTask
    <2>1. context' = [context EXCEPT ![stack[c]] = reg[c]] /\ currents' = currents
      BY <1>1, <1>3 DEF SaveContext
    <2>2. stack[c] \in Tasks /\ reg[c] = at[stack[c]]
      BY <1>1, <1>3 DEF ResumesWhereItStopped, Active
    <2>3. TTypeOK'
      BY <1>1, <2>1, <2>2
    <2>4. Phase' /\ Pinned'
      BY <1>1, <1>3, <2>1 DEF Phase, Pinned
    <2>5. ResumesWhereItStopped'
      BY <1>1, <2>1, <2>2 DEF ResumesWhereItStopped, Active
    <2> QED BY <1>1, <2>3, <2>4, <2>5 DEF MutualExclusion, LockHeld
  <1> QED BY <1>2, <1>3

\* A turn of the loop of on_interrupt keeps it.
LEMMA PickKeeps ==
    ASSUME TInv, NEW c \in Cpus, PickNext(c)
    PROVE  TInv'
  <1> USE Bounds, NoTaskIsNone DEF TInv, TTypeOK, Modes
  <1>1. PICK t \in Tasks, to \in {"iret", "pick"} :
            /\ mode[c] = "pick" /\ currents' = [currents EXCEPT ![c] = t]
            /\ mode' = [mode EXCEPT ![c] = to] /\ (to = "iret" => Mine(c, t))
    <2>1. currents[c] \in Tasks /\ mode[c] = "pick"
      BY DEF PickNext, Phase
    <2>2. (currents[c] + 1) % NTASK \in Tasks
      BY <2>1, NextTask
    <2> QED BY <2>1, <2>2 DEF PickNext
  <1>2. UNCHANGED <<stack, reg, context, locked, pipe, at>>
    BY DEF PickNext
  <1>3. TTypeOK'
    BY <1>1, <1>2
  <1>4. Phase' /\ Pinned'
    BY <1>1, <1>2 DEF Phase, Pinned
  <1>5. ResumesWhereItStopped'
    BY <1>1, <1>2 DEF ResumesWhereItStopped, Active
  <1> QED BY <1>2, <1>3, <1>4, <1>5 DEF MutualExclusion, LockHeld

\* Leaving the old stack for the chosen one keeps it.
LEMMA IretKeeps ==
    ASSUME TInv, NEW c \in Cpus, iret(c)
    PROVE  TInv'
  <1> USE Bounds, NoTaskIsNone DEF TInv, TTypeOK, Modes
  <1>1. /\ mode[c] = "iret" /\ currents[c] \in Tasks /\ Mine(c, currents[c])
        /\ stack' = [stack EXCEPT ![c] = currents[c]]
        /\ reg' = [reg EXCEPT ![c] = context[currents[c]]]
        /\ mode' = [mode EXCEPT ![c] = "run"]
        /\ UNCHANGED <<currents, context, locked, pipe, at>>
    BY DEF iret, Phase, Pinned
  <1>2. TTypeOK'
    BY <1>1
  <1>3. Phase' /\ Pinned'
    BY <1>1 DEF Phase, Pinned
  <1>4. \A d \in Cpus : d # c => stack[d] # currents[c]
    BY <1>1 DEF Pinned, Mine
  <1>5. context[currents[c]] = at[currents[c]]
    BY <1>1, <1>4 DEF ResumesWhereItStopped, Active
  <1>6. ResumesWhereItStopped'
    BY <1>1, <1>4, <1>5 DEF ResumesWhereItStopped, Active
  <1> QED BY <1>1, <1>2, <1>3, <1>6 DEF MutualExclusion, LockHeld

\* A task's own step moves the task that runs on the processor, and no other.
LEMMA TaskKeeps ==
    ASSUME TInv, NEW c \in Cpus, func(c)
    PROVE  TInv'
  <1> USE Bounds, NoTaskIsNone DEF TInv, TTypeOK, Modes, Spots
  <1> DEFINE s == stack[c]
  <1>1. mode[c] = "run" /\ s \in Tasks /\ reg[c] = at[s]
    BY DEF func, lock, unlock, Work, Phase, ResumesWhereItStopped, Active
  <1>2. PICK to \in Spots :
            /\ reg' = [reg EXCEPT ![c] = to] /\ at' = [at EXCEPT ![s] = to]
            /\ \/ at[s] = "lock" /\ locked' = TRUE /\ to = IF locked THEN "lock" ELSE "crit"
               \/ at[s] = "crit" /\ locked' = FALSE /\ to = "work"
               \/ at[s] = "work" /\ locked' = locked /\ to = "lock"
    BY <1>1 DEF func, lock, unlock, Work, TaskStep
  <1>3. UNCHANGED <<mode, currents, stack, context, pipe>>
    BY DEF func, lock, unlock, Work, TaskStep
  <1>4. TTypeOK'
    BY <1>1, <1>2, <1>3
  <1>5. Phase' /\ Pinned'
    BY <1>3 DEF Phase, Pinned
  <1>6. \A d \in Cpus : d # c => stack[d] # s
    BY <1>1, PinnedApart
  <1>7. ResumesWhereItStopped'
    BY <1>1, <1>2, <1>3, <1>6 DEF ResumesWhereItStopped, Active
  <1>8. MutualExclusion' /\ LockHeld'
    BY <1>1, <1>2 DEF MutualExclusion, LockHeld
  <1> QED BY <1>4, <1>5, <1>7, <1>8

\* Every step of every processor keeps it.
LEMMA TInvStep == TInv /\ [TNext]_tvars => TInv'
  <1> SUFFICES ASSUME TInv, [TNext]_tvars PROVE TInv'
    OBVIOUS
  <1>1. CASE StartChildren
    BY <1>1, StartUpKeeps, Bounds
  <1>2. ASSUME NEW c \in Cpus, ChildStarts(c) \/ iset(c) \/ Trap(c) PROVE TInv'
    BY <1>2, StartUpKeeps
  <1>3. ASSUME NEW c \in Cpus, Kernel(c) PROVE TInv'
    BY <1>3, SaveKeeps, PickKeeps, IretKeeps DEF Kernel
  <1>4. ASSUME NEW c \in Cpus, func(c) PROVE TInv'
    BY <1>4, TaskKeeps
  <1>5. CASE UNCHANGED tvars
    BY <1>5 DEF tvars, TInv, TTypeOK, Phase, Pinned, ResumesWhereItStopped, Active, MutualExclusion,
                LockHeld
  <1> QED BY <1>1, <1>2, <1>3, <1>4, <1>5 DEF TNext

\* The invariant holds always.
LEMMA TInvariant == TSpec => []TInv
  BY TInvInit, TInvStep, PTL DEF TSpec

\* The variables of processors and tasks keep their types; in particular the search of on_interrupt
\* never leaves the array of tasks.
THEOREM ThreadsTypeCorrect == TSpec => []TTypeOK
  <1>1. TInv => TTypeOK
    BY DEF TInv
  <1> QED BY <1>1, TInvariant, PTL

\* No stack is used by two processors, the one still switching away included (thread-os.c
\* on_interrupt, cte.c irq_handle).
THEOREM StacksApart == TSpec => []OneCpuPerStack
  <1>1. TInv => OneCpuPerStack
    BY PinnedApart DEF TInv, OneCpuPerStack
  <1> QED BY <1>1, TInvariant, PTL

\* A thread goes on exactly where it was interrupted (thread-os.c on_interrupt).
THEOREM ThreadsResume == TSpec => []ResumesWhereItStopped
  <1>1. TInv => ResumesWhereItStopped
    BY DEF TInv
  <1> QED BY <1>1, TInvariant, PTL

\* The lock of the tasks excludes, for any number of processors and interrupts (thread-os.c lock).
THEOREM LockExcludes == TSpec => []MutualExclusion
  <1>1. TInv => MutualExclusion
    BY DEF TInv
  <1> QED BY <1>1, TInvariant, PTL
=============================================================================
