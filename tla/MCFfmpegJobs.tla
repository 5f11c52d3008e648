----------------------------- MODULE MCFfmpegJobs ----------------------------
(* FfmpegJobs on small instances.                                           *)
EXTENDS FfmpegJobs

AllRetentions == {-1, 0, 2}
NeverExpire == {-1}
=============================================================================
