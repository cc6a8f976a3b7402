---------------------------- MODULE JobLifecycle ----------------------------
(***************************************************************************)
(* What media_jobs.py promises of one publish job, whoever works on it and *)
(* however often the worker dies: it is claimed at most MaxAttempts times  *)
(* per request, a finished job is never picked up again, and only a failed *)
(* or cancelled one can be asked for anew.                                 *)
(***************************************************************************)
EXTENDS Naturals

CONSTANTS Jobs, MaxAttempts

VARIABLES status, attempts

TypeOK ==
    /\ status \in [Jobs -> {"none", "queued", "running", "succeeded",
                            "skipped", "failed", "cancelled"}]
    /\ attempts \in [Jobs -> 0..MaxAttempts]

Init ==
    /\ status = [j \in Jobs |-> "none"]
    /\ attempts = [j \in Jobs |-> 0]

Become(j, s) == status' = [status EXCEPT ![j] = s]

Ask(j) ==
    /\ status[j] \in {"none", "failed", "cancelled"}
    /\ Become(j, "queued")
    /\ attempts' = [attempts EXCEPT ![j] = 0]

Take(j) ==
    /\ status[j] = "queued"
    /\ attempts[j] < MaxAttempts
    /\ Become(j, "running")
    /\ attempts' = [attempts EXCEPT ![j] = @ + 1]

Conclude(j) ==
    /\ status[j] = "running"
    /\ \E s \in {"succeeded", "skipped", "failed", "cancelled"} : Become(j, s)
    /\ UNCHANGED attempts

(* Stop every live job of a set, or give back the ones that may try again  *)
(* and fail the ones that may not.                                         *)
Stop(S) ==
    /\ \A j \in S : status[j] \in {"queued", "running"}
    /\ status' = [j \in Jobs |-> IF j \in S THEN "cancelled" ELSE status[j]]
    /\ UNCHANGED attempts

GiveBack(S) ==
    /\ \A j \in S : status[j] = "running"
    /\ status' = [j \in Jobs |->
                    IF j \notin S THEN status[j]
                    ELSE IF attempts[j] < MaxAttempts THEN "queued" ELSE "failed"]
    /\ UNCHANGED attempts

Next ==
    \/ \E j \in Jobs : Ask(j) \/ Take(j) \/ Conclude(j)
    \/ \E S \in SUBSET Jobs : Stop(S) \/ GiveBack(S)

Spec == Init /\ [][Next]_<<status, attempts>>
=============================================================================
