----------------------------- MODULE MCVideoJobs -----------------------------
(* VideoJobs on small instances.                                            *)
EXTENDS VideoJobs

AllRetentions == {-1, 0, 1}
DefaultRetention == {0}
=============================================================================
