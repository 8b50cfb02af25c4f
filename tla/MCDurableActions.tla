---------------------------- MODULE MCDurableActions ----------------------------
(* Instances of DurableActions for TLC: threads are named after the kind of   *)
(* process they belong to.                                                    *)
EXTENDS DurableActions, TLC

CONSTANTS api, api2, worker

\* One API process and one worker.
MCOneApi == [th \in Threads |-> IF th \in WorkerThreads THEN worker ELSE api]

\* Every API thread has a process of its own.
MCTwoApis == [th \in Threads |->
    IF th \in WorkerThreads THEN worker
    ELSE IF th = CHOOSE x \in ApiThreads : TRUE THEN api ELSE api2]

NameSymmetry == Permutations(ApiThreads) \cup Permutations(ActionIds)
=============================================================================
