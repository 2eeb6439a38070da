---------------------------- MODULE JobLifecycle ----------------------------
(***************************************************************************)
(* What the download queue promises about its jobs (JobStatus and the      *)
(* comment of DownloadManager in internal/web/downloads.go): a job is      *)
(* queued, runs once, ends as done or failed and stays so; jobs run one at *)
(* a time.                                                                 *)
(***************************************************************************)
EXTENDS Naturals

CONSTANT JobIds

VARIABLE phase

Init == phase = [j \in JobIds |-> "none"]

Create(j) ==
    /\ phase[j] = "none"
    /\ phase' = [phase EXCEPT ![j] = "queued"]

Start(j) ==
    /\ phase[j] = "queued"
    /\ \A i \in JobIds : phase[i] # "running"
    /\ phase' = [phase EXCEPT ![j] = "running"]

End(j) ==
    /\ phase[j] = "running"
    /\ \E v \in {"done", "failed"} : phase' = [phase EXCEPT ![j] = v]

Next == \E j \in JobIds : Create(j) \/ Start(j) \/ End(j)

Spec == Init /\ [][Next]_phase
=============================================================================
