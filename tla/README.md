# TLA+ models of the Triathlon core

Triathlon is a 4-wide out-of-order RV32IMAC processor in SystemVerilog (`npc/vsrc`), booted up to
Linux in simulation. This directory models the parts of it whose correctness depends on the order
in which things happen: the in-order spine of the back end, operand delivery, the load/store path,
instruction fetch, the data cache, and traps; and around the core the simulator's memory and block
device (`npc/csrc`) and the multiprocessor threads the abstract machine offers to programs
(`abstract-machine`, `am-kernels`). One step of a hardware model is one clock cycle; a cycle's inputs
(what is dispatched, which unit answers, whether memory is ready) are chosen freely.

## The system

| part | state it keeps | operations | what makes it correct |
|---|---|---|---|
| reorder buffer `retire/rob.sv` | ring of entries, head, tail, count | dispatch a bundle, accept write-backs, retire up to `COMMIT_WIDTH`, report an exception, flush | in-order retirement, each entry completed by its own instruction, precise exceptions |
| alias table, register file `rename/rat.sv`, `regfile/arf.sv` | register → ROB tag; values | allocate, release at commit, clear, write, read with bypass | names the youngest live writer, always |
| rename, operand read, stations `rename.sv`, `backend.sv`, `issue/*` | operands with ready bits and awaited tags | look up, capture from the data bus, issue | an operand is the value program order gives it; no wake-up is lost |
| load/store unit `execute/lsu_*.sv`, `sq.sv` | translation stage, lanes, store queue, reservation | issue, translate, forward, ask the cache, write back | loads see program order; nothing waits for ever |
| store buffer `buffer/store_buffer.sv` | ring of stores | allocate, fill, commit, drain, flush, forward | committed stores reach memory once, in order; others never |
| CSR unit and arbiter `execute/csr.sv`, `backend.sv` | privilege, mstatus, epc, … ; latched exception | CSR access, traps, returns, interrupts | every handler finds and resumes what was interrupted |
| fetch unit, FTQ `frontend/ifu.sv`, `ftq.sv` | request, in-flight and fetch queues, epoch, identifiers | predict, translate, request, capture, hand on, redirect, fence | the stream handed on is the predicted path with the right code, without gaps |
| instruction cache, page walker `cache/icache.sv`, `mmu/sv32_mmu.sv` | request pipeline, miss state machine; walk state | look up, refill, kill | a killed request never answers for another |
| instruction buffer, pending queue `buffer/ibuffer.sv`, `backend.sv` | halfword carried over, entries, decoded instructions not dispatched | cut and join a bundle, dispatch a part of it, flush | the instructions are those of the fetched path, whole, each once |
| data cache `cache/dcache.sv`, `mshr.sv` | lines, request and victim registers, MSHRs | load, store, refill, write back, flush | a single memory; every load answered once; no committed store lost |
| simulator's memory `memory_models.h`, `npc_main.cpp` | memory, misses with their countdown | answer misses, take write-backs, copy accepted stores | what the cache reads back is what it wrote |
| block device, interrupt controller `memory_models.h` | image, ring positions, interrupt status; pending, claimed | notify, acknowledge, claim, complete, reset | each request served once, in order, and noticed |
| threads `thread-os.c`, `native/mpe.c`, `native/cte.c` | per processor the current task and stack, per task a saved context, a spin lock | start, trap, save, choose, resume, lock, unlock | a stack has one processor; a thread resumes where it stopped |
| predictor `frontend/bpu.sv`, decoder, AXI wrappers, walk arbiter, rest of the host simulator | | | see "Not modelled" |

Rename asks the RAT and the ROB, fills the stations, and units write back to ROB and stations. ROB
commit writes the ARF, releases RAT entries and marks store buffer entries. A misprediction at
commit or a trap of the CSR unit flushes the back end, and redirects the fetch unit. SFENCE.VMA and
satp writes flush the fetch unit locally. Committed stores go from the store buffer to the data cache,
loads from the LSU lanes; a back end flush reaches the cache in the same cycle. Device registers are
reached through stores and loads; the device's interrupt line goes to the CSR unit.

What is hard: everything above happens in the same cycle. Commit, write-back, dispatch and flush
touch the same entry; tags, epochs and identifiers are reused; answers of caches and walkers arrive
after the flush that made them void; several traps compete for one unit. In the software parts it is
the interrupt between any two accesses of the driver, and the processors that switch threads without
a lock. PROJECT.json lists these
hazards with their lines and the properties aimed at them.

## Modules

* **Rob** – ROB, RAT, ARF and the dispatch side of rename. A result is the identity of the
  instruction that computed it, so a misrouted value is a wrong name. `Advance` is a cycle without
  flush, `RedirectFlush` one that retires a mispredicted instruction, the three `...Trap` actions
  those of the CSR unit. The assignments of one clock edge are composed in the order of the code
  (dispatch, write-back, commit: `RobAfter`, `RatAfter`).
* **InOrder** – what the back end promises: a queue of instructions that enter and leave in program
  order. **RobInOrder** has the mapping: the queue is the window of the ring from head to tail;
  `ImplementsInOrder` is Rob ⇒ InOrder.
* **Operands** – extends Rob with the operand fields of the stations and the fetch epoch; `want` is
  a history variable with the value program order asks for.
* **StoreBuffer** – the buffer as a value with operators for its outputs and its clock edge.
* **LoadStore** – memory instructions from dispatch to retirement around StoreBuffer; `arch` is the
  memory the committed program has made. Bytes are symbolic: (instruction, byte number).
* **Fetch** – fetch unit, FTQ, instruction cache pipeline and page walker. A bundle is its address,
  the predicted next address, and the address whose code it holds.
* **Csr** – CSR unit and arbiter, with the head of the ROB in front of them (Rob justifies keeping
  only the head). Registers are sets of named bits.
* **Privileged** – the abstract privileged architecture Csr implements: contexts per level, trap,
  return, write. `torn` marks a trap taken inside an instruction; nothing is promised after it.
* **DCache** – the data cache state machine and MSHR file, DCacheModel and the main loop's copy of
  stores. A cycle (`DCycle`) is what the memory sees and drives (`Memory`) together with one action
  per state of the machine (`IdleRefill`, `IdleAccept`, `LookupHit`, … ) or `Flushed`. The simulator
  samples outputs just after the clock edge: `seen` tells whether it sees the flush of the cycle.
  `live` (what a lane of the LSU waits for) and `st_req` (the store the buffer presents) are external;
  `arch` is a history variable with the memory the accepted stores have made.
* **Platform** – virtio-blk, PLIC and a driver (external). Operators named after the functions of
  `UnifiedMem` give their effect; the loop of `virtio_handle_notify` is one step because nothing runs
  during the guest's store. The offset of a segment and its end wrap as the 64-bit numbers of the code
  do: `SPAN` is the number of sectors with a 64-bit byte offset. `expect` is a history variable: a disk
  that serves requests one by one, whose offsets do not wrap.
* **ThreadOs** – start-up, the trap path in the stages trap, save, choose, resume, and the tasks.
  `on_interrupt` takes a step for each turn of its loop, since other processors run meanwhile.
* **Ingress** – instruction buffer and rename pending queue. A halfword is known by its address, so a
  misjoined instruction shows; `npc` is a history variable with the address dispatched next.
* **RobProofs** (with Operands), **LoadStoreProofs, CsrProofs, FetchProofs, IngressProofs,
  DCacheProofs, PlatformProofs, ThreadOsProofs** – the proofs, see below.
* **MCRob, MCOperands, MCLoadStore, MCFetch, MCCsr, MCIngress** – the instances. **MCSystem** – data
  cache, devices, threads, instruction buffer, and the fetch unit on one address, side by side: a
  behaviour is one of the part its initial state chooses. The parts share no state, so nothing is
  lost and nothing is claimed about their interaction.

## Runs

| run | checks | states | bounds |
|---|---|---|---|
| `rob` | `Window`, `ExecutedOnce`, `RatExact`, `ExceptionAtHead`, `RobInv` (with the type invariant), refinement of InOrder, `HeadLeaves` | 26 446 | 3 entries, 2-wide, 4 instructions: the ring wraps and fills; a load, a branch and a CSR instruction bring redirects, traps, two writers of a register in one cycle, and the port limit of branches (those of stores and loads have the same form) |
| `operands` | type, `OperandIsProgramValue`, `WaitsForLiveProducer` | 263 994 | 4 entries, 2-wide, 5 instructions, one source operand, 2 epochs so that they wrap |
| `operands_sfence` | **violated** `OperandIsProgramValue` | | with SFENCE.VMA among the instructions |
| `load_store` | type, `StoresInOrder`, `MemoryIsArchitectural`, `LoadIsProgramOrder` | 174 678 | 2-entry buffer, 2 words, 4 instructions, LW/SW, translation on |
| `atomics` | `MemoryIsArchitectural`, `Drains` | 17 371 | LR, SC, AMO, SW on one word, 3 instructions, both modes |
| `load_store_sizes` | **violated** `LoadIsProgramOrder` | | byte and word accesses |
| `fetch` | type, `CodeIsOfItsPc`, `StreamUnbroken`, `RoomForEveryAnswer`, `FtqExact` | 253 896 | 2 addresses, queues of 2, 2 epochs, one missing line, faults, fences, both modes; the mode changes with a redirect, a local flush (satp) or, by mret, some cycles before its redirect |
| `fetch_fence` | **violated** `FenceReplaysOldest` | | |
| `fetch_fault` | **violated** `FaultIsPrecise` | | |
| `csr` | type, refinement of Privileged | 3 070 832 | one address bit; firmware, kernel and user instructions; timer interrupts, misaligned accesses, fetch faults |
| `system` | the data cache (`StoresKept`, `ResponseIsLoads`, `OnePlacePerLoad`, `LookupNeverWaits`), the devices (`AnsweredOnce`, `ServedInOrder`, `InterruptNotLost`, `HeadsReturn`), the threads (`OneCpuPerStack`, `ResumesWhereItStopped`, `MutualExclusion`, `TasksRun`, `LockIsReleased`), the instruction buffer (`OnePath`, `WholeInstructions`), `FetchGoesOn`, `PartsTypeOK` | 49 381 | below |
| `ingress_next` | **violated** `OnePath` | | the compressed branch of the program goes to the halfword behind it |

Why the bounds are enough: every queue is at its limit and wraps within them; two addresses tell
right code from wrong code; two words tell a match from a mismatch; epochs of one bit are stricter
than the 3 bits of the code because they collide sooner. `MaxId` and `MaxOps` bound the length of
behaviours, and all other models are finite without a bound. The csr run takes from the three write
forms and the registers the ones that set up delegation, enables and return contexts; ebreak, wfi
and illegal encodings take the paths of ecall, a plain instruction and mret in U.

The bounds of `system`: two lines of one word that share a set of one way, so that every miss evicts
and every refill competes; both lines stored to; two lanes and two MSHRs; the countdown of two cycles
that DCacheModel has. A queue of two descriptor chains with indices modulo 4, an image of one sector in
an address range of four (`SPAN`), and five requests: a read, a write, one that leaves the image after
its first sector, one with a loop, and one for the last sector whose end does not wrap, far outside the
image. With the next sectors it would be different: the last of the range passes the check and is
undefined behaviour, and for `SPAN`, which wraps to sector 0, TLC finds `ServedInOrder` violated (see
the limits below). Two processors and
three tasks, so that one processor has two tasks and one a single one. A program of ten halfwords in
which a 32-bit instruction lies across two bundles and its second half looks like a first half, with
two jumps; four entries of buffer and three of pending queue for two slots. For the liveness of fetch
one address with two missing lines, since what matters is where the flush hits.

`rob` is small because it also checks liveness; its invariants are proved for every size.

Deadlock is checked in every run.

### Fairness

* Rob: the clock ticks, a latched exception is injected, and no instruction stays in its station or
  unit for ever (the stations issue ready entries, every unit's answer is accepted: `wb_ready_i` is
  tied high).
* LoadStore: retirement, write-back, cache acceptance and drain each happen when they stay possible;
  operands and translations arrive.
* Fetch: the predictor has a prediction in every cycle it is asked, memory and walker answer, the
  instruction buffer takes bundles again and again.
* Platform: the driver kicks what it submitted, its handler runs on, it unmasks the interrupt again,
  and an interrupt that is enabled again and again is taken (strong fairness: the driver may mask it
  in between). The guest runs only its own code, so nothing else can keep it from doing so.
* ThreadOs: every processor is a process of the host and runs; its timer signal keeps coming
  (`__am_init_timer_irq`); and a thread that gets the processor again and again takes a step (strong
  fairness: a time slice of 10 ms is longer than a step).

## Findings

The five violated runs, with the line of the repository each contradicts, are in PROJECT.json:

1. A local flush (SFENCE.VMA) drops bundles that wait in the fetch queue and resumes behind them
   (`ifu.sv:283`).
2. An instruction page fault is taken before older bundles and instructions are done
   (`backend.sv:1860`).
3. The epoch guard of the ROB query takes the register file's value for a producer in the ROB when
   SFENCE.VMA has advanced the epoch without a flush (`backend.sv:921`).
4. Store-to-load forwarding ignores access sizes (`store_buffer.sv:314`); in the same statement, the
   entry of a failed SC forwards, and without translation the store queue may hide a younger store
   in the buffer. The passing load/store runs therefore use full words under translation, and
   atomics without plain loads.
5. A compressed branch in the low half of a slot, predicted taken to the address right behind it, does
   not end its bundle in the instruction buffer although the fetch unit starts the next one there: the
   halfword behind it is delivered twice or joined with itself (`ibuffer.sv:253`).

Not a run, because no comment or test states the opposite: an interrupt taken between the execution
and the retirement of a CSR write, mret or sret (`backend.sv:1862`, `rob.sv:292`) makes that
instruction execute twice. The Csr model contains it as `torn`. Also, `test_privilege_csr.cpp:275`
expects the CSR unit alone to write mepc for ebreak; in the code only the injection by the back end
does (`csr.sv:533`).

Limits that are not findings, because no line of the repository claims otherwise: virtio-blk computes
`sector * 512` and the end of a segment in 64 bits and checks what is left after the wrap
(`memory_models.h:372`, `:385`), so a request for sector 2^55 is served as sector 0, and one whose
segment ends at 2^64 (sector 2^55 - 1) passes the check and indexes outside the image; a store miss
takes whatever refill comes first, which is right only because the simulator's memory is fast
(`dcache.sv:828`); device registers are cached (`memory_models.h:823`); a stale BTB hit
on an instruction that is no jump is not repaired (`bpu.sv:428`, `alu.sv:204`); mstatus.MPP stores the
reserved encoding 2 and mret enters it (`csr.sv:340`); the second line of a bundle is the next
physical line also across a page (`icache.sv:122`); a stream of loads holds off stores
(`dcache.sv:227`); an instruction buffer smaller than two entries per slot, which
`build_config_pkg.sv:65` allows, would stop (`ibuffer.sv:61`); thread-os needs at least as many tasks
as processors.

## Proofs

RobProofs proves, for every ROB depth, widths up to that depth, port limits, register set, set of
micro-ops and number of instructions (`RobAssumption`), that `RobInv` is an invariant of `Spec`, and
from it `TypeOK`, `Window`, `ExecutedOnce`, `RatExact`, `ExceptionAtHead` and `RegsCommitted`.

None of these is inductive alone. That the RAT survives commit needs that the valid entries are the
window and their tags differ (`Window`, lemmas on `Wrap` and `Dist`); that a write-back hits its own
instruction needs that stations and incomplete entries correspond (`ExecutedOnce`); that a latched
exception stays at the head needs that an entry has no flag before it is complete
(`CleanUntilDone`), and that the head with an exception cannot retire; that registers hold older
results needs `ProgramOrder`. `RobInv` is their conjunction. The proof has one step per kind of
cycle – an ordinary one, a redirect, a trap – and under each one step per conjunct. Ring arithmetic
is in lemmas of its own. From `RobInv` follows the refinement, `RobImplementsInOrder`: an ordinary
cycle is a step of the queue that takes the retired instructions off its front and puts the dispatched
ones at its end, in whatever slots they lie; a flush empties it.

RobProofs also adds operands to it, for every number of source ports and epochs. `OperandInv` is
`RobInv` with `OTypeOK` and `WaitsForLiveProducer`, which is inductive once the RAT is exact: what a
station waits for is the tag of the live producer program order names, and that producer's write-back
or its flush ends the wait. `NoLostWakeUp` needs no hypothesis. `OperandsRight`, that each captured
value is the right one, is proved for programs without SFENCE.VMA (`NoSfence`): with it the code is
wrong (run `operands_sfence`, see Findings): the epoch guard takes the register file's value although
the producer is in the ROB. The strengthening is `OneEpoch`: without local flushes everything alive is of one epoch.
`OperandsImplementRob` carries every theorem about Rob over to Operands.

LoadStoreProofs proves `LsTypeOK`, `StoresInOrder` and `MemoryIsArchitectural` for every depth of
store buffer and ROB, width, set of words and set of memory operations, with and without translation.
`LsInv` adds two links to them. `Linked` ties the registers of the LSU to the stages of the
instructions: at most one is in translation, and the store queue holds exactly the store that waits to
write back. `Filled` says that a store that has executed has its own address and data in its entry of
the buffer. Without it a commit could write anything; without `StoresInOrder` it could commit the
entry of another store. The buffer is a ring whose slots are compared by rank, the number of live
stores before them: lemmas on `Count` show that a retiring prefix, a flush and a dispatched bundle
move ranks as head, commit and tail pointers move. Memory is a run of writes: that of memory and the
committed entries is the architectural one, and draining the oldest only moves the line between them.

`LoadsSeeProgramOrder` proves `LoadIsProgramOrder` for full-word accesses under translation
(`FullWords`: LW, SW, LR and AMO); for other sizes, for failed SCs and without translation finding 4
shows the code wrong. `LoadInv` adds to `LsInv` that a load leaves the station only behind stores that
have address and data (`Behind`); that nothing is in translation beside an occupied store queue or an
AMO (`FrontClear`), so the store the queue hides is none that matters; that a filled entry is searched
under the tag of its store (`Tagged`); that a load which asks the cache has no older store to its word
left outside it (`Asked`); and that a value once taken stays the right one while older stores retire
and drain (`Valued`).

CsrProofs proves `CsrTypeOK` and `Architectural`, the refinement of Privileged, for every set of
addresses and instructions. The assumptions are software's part: addresses go into the registers for
addresses, causes into those for causes, and no program stores the reserved privilege 2 in MPP – the
unit would take it over and return to it (`mret_target_priv`). `CsrInv` says what the registers hold
and in which of four states the head is; the refinement has one lemma per action, which unfolds the
bits of mstatus and shows that together they are the saved context of a level.

FetchProofs proves `FTypeOK`, `CodeIsOfItsPc`, `RoomForEveryAnswer`, `StreamUnbroken` and `FtqExact`
for queues of every depth, any number of epochs, addresses and missing lines, and with every setting
of the two pipeline options. `FetchInv` links the queues to the units that work for them: the requests
in flight are those the cache will answer, in its order (`CacheLink`: a killed request is not in
flight); translation and walk are those of the oldest request (`WalkLink`); identifiers in use are
those of the requests (`IdLink`); and the path is stated by position (`Chain`), which makes a step's
effect on it a shift of indices.

IngressProofs proves, for every program, fetch and dispatch width and depth of the two queues, that
the queues never overflow (`ITypeOK`) and that every bundle that can arrive fits into an empty buffer
(`BundleFits`, which rests on `IB_DEPTH >= 2 * FETCH_WIDTH`: see the limits above). `OnePath` and
`WholeInstructions` have two hypotheses: no instruction begins inside another (`NoOverlap`), and no
compressed branch goes to the halfword behind it (`NoJumpNext`, finding 5). `PathInv` says that the
entries of pending queue and buffer, in this order, are a path from `npc` to some end `e`, each with
its own halves, and that the fetch unit goes on at `e`, or behind it with the first half at `e`
carried (`Ends`). The cutting of a bundle is a recursive function over its halfwords; its existence
and its equation are proved by building it from the end of the bundle (`CutExists`), and what it
delivers by induction backwards.

DCacheProofs proves, for every set of lines, number of sets, ways, words, lanes and MSHRs,
`OnePlacePerLoad` and `LookupNeverWaits` (`ControlInv`), and, for a memory that answers within two
cycles, `StoresKept` and `ResponseIsLoads` (`DataInv`). `ControlInv` says for each state of the machine
what else may be occupied, and that every live load is in exactly one of request register, MSHR, pending
answer and response. `DataInv` says where the current contents of a line are: in its way if it is cached, in a
victim register or in memory if not, and in a pending refill only if nothing younger has been stored.
That last part needs the hypothesis `DELAY <= 2`. A refill on its way must arrive before a store to the
same line can pass it, and the cache does nothing to make sure of that: with `DELAY = 3` TLC finds
`StoresKept` violated. DCacheModel has 2 (`txn.delay`, memory_models.h:974).

PlatformProofs proves `InterruptNotLost` for every queue size, ring modulus and set of requests. The
invariant `LineInv` adds to it what the line is between: the source is claimed exactly while the
handler runs; the source stays up from the device's push until the acknowledge; pending follows it
unless it is claimed; and what the handler has not seen while it reaps is either still in its reach or
has raised the source again. Only then does the refresh at `complete` bring the interrupt back.

It also proves `AnsweredOnce`, and `ServedInOrder` for requests whose byte offsets are below 2^64
(`NoWrap`: `sector < SPAN - 1`); for others the code does not serve what was asked. For the first, `HeadInv` says that a head is on one
of the rings once or free, and that the counts add up to the size of the queue; so neither window is
longer than the ring, and a slot is not written again before it has been read. This rests on lemmas
about the indices: that QNUM divides IDX is what makes the slots of a window differ when the index
wraps around. For the second, `ServeInv` relates each waiting request to the disk just before it: what it
was promised at submission is what it will get from there. The disk after n requests is defined by
recursion, so these lemmas need induction. The library's induction theorems take an operator, but
`WFMin` takes a set: a non-empty set of numbers has a least element (`LeastNat`), which gives induction
over a set (`InductionOver`), the existence of the recursive function (`ImageExists`) and its
independence of what a step leaves alone (`ImageSame`). `OffsetExact` is where `NoWrap` enters: the
first segment, and each that follows one inside the image, has an offset that does not wrap, so the
check of the code and that of the abstract disk agree up to the first segment that fails (`MovedFits`).
`DevicesTypeCorrect` proves `PTypeOK` from the same induction, also for sectors that wrap: no segment
that is moved lies outside the image (`MovedInside`). Its hypotheses exclude the request whose first
segment ends at 2^64, for which that is false (`DefinedRequests`), and bound the length of requests as
`PTypeOK` does (`ShortRequests`).

ThreadOsProofs proves `TTypeOK`, `OneCpuPerStack`, `ResumesWhereItStopped` and `MutualExclusion` for
every number of processors and at least as many tasks. `OneCpuPerStack` alone is not inductive: a
processor that resumes a thread must know that no other is on its stack. `Pinned` says that stacks and
chosen tasks belong to their processor (`t % NCPU = c`), except while the loop of `on_interrupt`
passes over others; `Phase` ties `stack`, `currents` and the stage of the trap path together, and
`LockHeld` the lock to the one thread between lock and unlock.

Only model-checked: `PartsTypeOK` itself, which joins the type invariants of parts that MCSystem only
puts side by side (each of them is a theorem of its own module: `DCacheTypeCorrect`,
`DevicesTypeCorrect`, `ThreadsTypeCorrect`, `IngressTypes`); and all liveness (`HeadLeaves`, `Drains`,
`FetchGoesOn`, `HeadsReturn`, `TasksRun`, `LockIsReleased`), since liveness under fairness and ENABLED
are out of the prover's reach.

## Not modelled

* Interaction of the data cache with the LSU models: LoadStore takes memory as external, DCache takes
  lanes and store buffer as external. The arbiter that lets page walks use the cache.
* The AXI wrappers; DCache is checked over the simulator's memory and its latency.
* Device registers behind the cache; UART, CLINT, and the feature and address registers of virtio.
* Station allocation and selection: free choices.
* The predictor (any prediction is allowed), decoder and arithmetic (pure functions of bits), TLB
  contents and permissions, addresses inside a bundle, counters.
* The rest of the C and C++ code: the simulator's options, loader, profiler and difftest client are
  sequential host code that only observes the core; klib is a small C library; `libgcc`, the ports to
  x86, MIPS and LoongArch, the emulators and games (`fceux-am`, `litenes`, …) and benchmarks are
  programs and platforms from elsewhere that the core runs or that it does not use. They make up most
  of the repository's lines of C, none of them part of the processor, and modelling them would say
  nothing about it.

## Plan

1. The external memory of LoadStore as an abstract specification that DCache implements; the walk
   arbiter between them.
2. Return address stack of the predictor.
