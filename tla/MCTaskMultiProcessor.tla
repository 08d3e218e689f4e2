------------------------ MODULE MCTaskMultiProcessor ------------------------
(***************************************************************************)
(* Instances of TaskMultiProcessor for TLC.                                *)
(***************************************************************************)
EXTENDS TaskMultiProcessor, TLC

CONSTANTS ModeSet, MaxSet, BreakerSet, DrainSet, ThreadSet

MCConfigs ==
    [mode                     : ModeSet,
     num_threads              : ThreadSet,
     max_queue_size           : MaxSet,
     enable_circuit_breaker   : BreakerSet,
     enable_drain_on_shutdown : DrainSet]

Symmetry == Permutations(Submitters) \cup Permutations(Tasks)
=============================================================================
