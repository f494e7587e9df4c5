------------------------------- MODULE MCFarm -------------------------------
(* Values of the constants of Farm for model checking.                     *)
EXTENDS Farm

OneEpoch == [j \in 0..MaxJobs |-> 0]
EpochPerJob == [j \in 0..MaxJobs |-> j]
LastIsNew == [j \in 0..MaxJobs |-> IF j = MaxJobs THEN 1 ELSE 0]

=============================================================================
