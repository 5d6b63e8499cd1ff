---------------------------- MODULE MCExperiment ----------------------------
(***************************************************************************)
(* The instance of Experiment that TLC checks.                             *)
(***************************************************************************)
EXTENDS Experiment

\* With three keys and a cache of two, hits, evictions, refills and overwritten
\* entries all happen within five operations.
LabRequests ==
    {[structure |-> "memory", capacity |-> 2, dataset |-> 3, operations |-> 5],
     [structure |-> "durable", capacity |-> 2, dataset |-> 2, operations |-> 3],
     [structure |-> "durable", capacity |-> 0, dataset |-> 3, operations |-> 1],
     [structure |-> "memory", capacity |-> 3, dataset |-> 0, operations |-> 2],
     [structure |-> "unknown", capacity |-> 0, dataset |-> 0, operations |-> 1]}

=============================================================================
