------------------------------ MODULE MCSystem ------------------------------
(***************************************************************************)
(* The parts around the back end, side by side: data cache, devices,       *)
(* threads, instruction buffer, and the fetch unit on an instance small    *)
(* enough for liveness.  A behaviour is one of the part chosen in its      *)
(* initial state; the parts share no state, so each is checked completely. *)
(***************************************************************************)
EXTENDS DCache, Platform, ThreadOs, MCIngress

VARIABLES
    part,
    pc_reg, fetch_epoch, requests, inf, fq, ftq, ic, mmu, walker, fault, xlate, next, trap

fvars == <<pc_reg, fetch_epoch, requests, inf, fq, ftq, ic, mmu, walker, fault, xlate, next, trap>>

\* Instruction fetch from one address, two lines of it missing.
FetchUnit == INSTANCE Fetch WITH
    Pcs <- {0}, REQ_DEPTH <- 2, INF_DEPTH <- 2, FQ_DEPTH <- 2, EPOCHS <- 2,
    HIT_PIPELINE_EN <- TRUE, BYPASS_EN <- TRUE, MaxLines <- 2,
    Translation <- {TRUE}, PageFaults <- BOOLEAN, Fences <- TRUE, req <- requests

\* Requests of the block device: a read, a write that leaves the image after one sector, a
\* write, one whose chain has a loop and one of the last sector whose end is a 64-bit offset.
Seg(write, val) == [write |-> write, mapped |-> TRUE, val |-> val]
Req(type, sector, data, shape) ==
    [type |-> type, sector |-> sector, data |-> data, shape |-> shape, status |-> "none"]
MCChains == {Req("IN", 0, <<Seg(TRUE, 0)>>, "ok"),
             Req("OUT", 0, <<Seg(FALSE, 1), Seg(FALSE, 0)>>, "ok"),
             Req("OUT", 0, <<Seg(FALSE, 0)>>, "ok"),
             Req("OUT", 0, <<Seg(FALSE, 1)>>, "loop"),
             Req("OUT", SPAN - 2, <<Seg(FALSE, 1)>>, "ok")}
MCImage == [s \in {0} |-> 0]

Parts == {"dcache", "platform", "threads", "ingress", "fetch"}
allvars == <<part, dvars, pvars, tvars, ivars, fvars>>

Init == part \in Parts /\ DInit /\ PInit /\ TInit /\ IInit /\ FetchUnit!Init
Next ==
    \/ part = "dcache" /\ DNext /\ UNCHANGED <<part, pvars, tvars, ivars, fvars>>
    \/ part = "platform" /\ PNext /\ UNCHANGED <<part, dvars, tvars, ivars, fvars>>
    \/ part = "threads" /\ TNext /\ UNCHANGED <<part, dvars, pvars, ivars, fvars>>
    \/ part = "ingress" /\ INext /\ UNCHANGED <<part, dvars, pvars, tvars, fvars>>
    \/ part = "fetch" /\ FetchUnit!Next /\ UNCHANGED <<part, dvars, pvars, tvars, ivars>>

\* PFair, TFair and the FairSpec of Fetch, each for the behaviours of its part.
Spec ==
    /\ Init /\ [][Next]_allvars
    /\ WF_pvars(part = "platform" /\ Notify) /\ WF_pvars(part = "platform" /\ Handled)
    /\ SF_pvars(part = "platform" /\ Claim) /\ WF_pvars(part = "platform" /\ Mask(TRUE))
    /\ WF_tvars(part = "threads" /\ StartChildren)
    /\ \A c \in Cpus : WF_tvars(part = "threads" /\ Runs(c)) /\ WF_tvars(part = "threads" /\ Trap(c))
    /\ \A t \in Tasks : SF_tvars(part = "threads" /\ RunsTask(t))
    /\ WF_fvars(part = "fetch" /\ FetchUnit!Predicts)
    /\ WF_fvars(part = "fetch" /\ FetchUnit!MemoryAnswers)
    /\ WF_fvars(part = "fetch" /\ FetchUnit!WalkerAnswers)
    /\ WF_fvars(part = "fetch" /\ FetchUnit!BufferTakes)

\* Type correctness of the parts; in particular the queues of the instruction buffer and before
\* rename never hold more than they have room for.
PartsTypeOK == DTypeOK /\ PTypeOK /\ TTypeOK /\ ITypeOK

\* EveryTaskRuns, for the behaviours of the threads: every task gets the processor again and again.
TasksRun == part = "threads" => EveryTaskRuns

\* FetchContinues, for the behaviours of the fetch unit: once redirects and fences stop, code keeps
\* arriving unless the unit waits for the trap of a fault.
FetchGoesOn == part = "fetch" => FetchUnit!FetchContinues
=============================================================================
