----------------------------- MODULE MCJobQueue -----------------------------
(***************************************************************************)
(* Values of JobQueue's constants for TLC.  One tick stands for 5 s in the *)
(* proportions of the code: a beat each tick, and a threshold that is one  *)
(* tick more than the longest silence of a process that stops.             *)
(***************************************************************************)
EXTENDS JobQueue, TLC

\* Every process has an id of its own (config.rs, default_worker_id).
OwnId == [p \in Procs |-> p]

\* Processes started the same way are interchangeable.
ServiceSymmetry == Permutations(Procs \ RunOnce)
=============================================================================
