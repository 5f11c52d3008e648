---------------------------- MODULE JobLifecycle ----------------------------
(****************************************************************************)
(* What the YouTube and the FFmpeg service promise about their jobs: at     *)
(* most Slots of them run at a time, a job runs once, and the outcome a     *)
(* client has seen never changes.  The services' own modules implement it.  *)
(****************************************************************************)
EXTENDS Naturals, FiniteSets

CONSTANTS Jobs, Slots

VARIABLE status

Status == {"unknown", "pending", "running", "done", "failed"}
Ended == {"done", "failed"}
In(s) == {j \in Jobs : status[j] = s}

Init == status = [j \in Jobs |-> "unknown"]

Submit(j) == status[j] = "unknown" /\ status' = [status EXCEPT ![j] = "pending"]

Run(j) == /\ status[j] = "pending"
          /\ Cardinality(In("running")) < Slots
          /\ status' = [status EXCEPT ![j] = "running"]

Settle(j) == /\ status[j] = "running"
             /\ \E s \in Ended : status' = [status EXCEPT ![j] = s]

Next == \E j \in Jobs : Submit(j) \/ Run(j) \/ Settle(j)

Spec == Init /\ [][Next]_status

=============================================================================
