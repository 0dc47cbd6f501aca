------------------------------- MODULE Evaluation -------------------------------
(***************************************************************************)
(* The evaluation programs, each a process of its own: a probe of a RoomMem *)
(* arm in one service, the rooms of a RoomMem run, a module of ModuleMem,   *)
(* the public benchmark over its report files, and the LLM calls of a run   *)
(* over their disk cache.  They share no state, so that a behaviour is one  *)
(* of them alone.                                                           *)
(***************************************************************************)
EXTENDS RoomArm, RoomDelivery, ModuleArm, PublicBenchmark, ResponseCache

VARIABLE program    \* "arm", "rooms", "module", "public" or "calls"

vars == <<allVars, roomVars, modVars, benchVars, cacheVars, program>>

Init ==
    /\ ArmInit /\ RoomsInit /\ ModuleInit /\ BenchInit /\ CacheInit
    /\ program \in {"arm", "rooms", "module", "public", "calls"}

Arm ==
    /\ program = "arm" /\ ArmStep
    /\ UNCHANGED <<roomVars, modVars, benchVars, cacheVars, program>>
RoomRun ==
    /\ program = "rooms" /\ RoomsStep
    /\ UNCHANGED <<allVars, modVars, benchVars, cacheVars, program>>
ModuleRun ==
    /\ program = "module" /\ ModuleStep
    /\ UNCHANGED <<allVars, roomVars, benchVars, cacheVars, program>>
Bench ==
    /\ program = "public" /\ BenchStep
    /\ UNCHANGED <<allVars, roomVars, modVars, cacheVars, program>>
Cache ==
    /\ program = "calls" /\ CacheStep
    /\ UNCHANGED <<allVars, roomVars, modVars, benchVars, program>>

\* What nobody has to do: begin another probe or module, die, be run again.
Demand ==
    \/ /\ program = "arm" /\ ArmStart
       /\ UNCHANGED <<roomVars, modVars, benchVars, cacheVars, program>>
    \/ /\ program = "module" /\ StartModule
       /\ UNCHANGED <<allVars, roomVars, benchVars, cacheVars, program>>
    \/ /\ program = "public" /\ BenchFault
       /\ UNCHANGED <<allVars, roomVars, modVars, cacheVars, program>>
    \/ /\ program = "calls" /\ CacheFault
       /\ UNCHANGED <<allVars, roomVars, modVars, benchVars, program>>

Next == Arm \/ RoomRun \/ ModuleRun \/ Bench \/ Cache \/ Demand

Spec == Init /\ [][Next]_vars

\* A process that is up goes on, and one that died is started again: every
\* provider call returns or times out, and nobody gives up on a run.
FairSpec ==
    /\ Spec /\ WF_vars(Arm) /\ WF_vars(RoomRun) /\ WF_vars(ModuleRun)
    /\ WF_vars(Bench) /\ WF_vars(Cache)

-------------------------------------------------------------------------------
\* Every part that was called answers, every probe is put to all its arms or
\* fails, the rooms of a run are all scored unless one cannot be taken in, a
\* module gets through its tasks, the public benchmark ends with its rows unless a death has left a
\* report that cannot be read, and a run gets through all its calls, however
\* often it died: no loop over hits, passages, layers, items or rewrites goes
\* round for ever.
EverythingEnds ==
    /\ stage # "none" ~> stage = "none"
    /\ program = "rooms" ~> room_outcome \in {"ended", "raised"}
    /\ mod_step # "none" ~> mod_step = "none"
    /\ program = "public" ~>
          (bench_step = "returned" \/ (bench_step = "raised" /\ Torn \in {partial_report, report}))
    /\ program = "calls" ~> cache_step = "ended"
===============================================================================
