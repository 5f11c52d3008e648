---------------------------- MODULE MCRecomputeJobs --------------------------
(* RecomputeJobs on a small instance.                                       *)
EXTENDS RecomputeJobs

ThreeMemes == 1 .. 3
=============================================================================
