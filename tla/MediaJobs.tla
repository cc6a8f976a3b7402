----------------------------- MODULE MediaJobs -----------------------------
(***************************************************************************)
(* The media_jobs table (PostgresMediaJobStore) for ONE file: the publish  *)
(* job of every (source version, profile).  Each operation is one          *)
(* transaction.  Of heartbeat_at only "older than media_stale_seconds"     *)
(* matters, kept as the set of stale jobs; of requested_at only the order. *)
(***************************************************************************)
EXTENDS Naturals

CONSTANTS
    MaxVersion,      \* bound: versions of the file
    Profiles,        \* publish profiles that apply to it
    MaxAttempts      \* media_max_attempts

ASSUME JobAssumption == MaxVersion \in Nat \ {0} /\ MaxAttempts \in Nat \ {0}

Versions == 1..MaxVersion
Jobs == Versions \X Profiles

Terminal == {"succeeded", "skipped", "failed", "cancelled"}
Restartable == {"failed", "cancelled"}
Statuses == {"none", "queued", "running"} \cup Terminal

VARIABLES
    status,      \* of each job; "none" when there is no row
    attempts,    \* claims since it was last requested
    earlier,     \* <<j, k>>: j was requested before k
    stale        \* running jobs whose last heartbeat is too old

jobVars == <<status, attempts, earlier, stale>>

JobsTypeOK ==
    /\ status \in [Jobs -> Statuses]
    /\ attempts \in [Jobs -> 0..MaxAttempts]
    /\ earlier \subseteq Jobs \X Jobs
    /\ stale \subseteq Jobs

JobsInit ==
    /\ status = [j \in Jobs |-> "none"]
    /\ attempts = [j \in Jobs |-> 0]
    /\ earlier = {}
    /\ stale = {}

Become(j, s) == status' = [status EXCEPT ![j] = s]

(* The insert, or the restart of a failed or cancelled job.  Any other     *)
(* existing job is returned unchanged.                                     *)
Request(j) ==
    IF status[j] \in {"none"} \cup Restartable
    THEN /\ Become(j, "queued")
         /\ attempts' = [attempts EXCEPT ![j] = 0]
         /\ earlier' = {p \in earlier : j \notin {p[1], p[2]}}
                         \cup {<<k, j>> : k \in {i \in Jobs \ {j} : status[i] # "none"}}
         /\ stale' = stale \ {j}
    ELSE UNCHANGED jobVars

(* The oldest queued job.                                                  *)
Claimable(j) ==
    status[j] = "queued" /\ \A k \in Jobs : status[k] = "queued" => <<k, j>> \notin earlier

Claim(j) ==
    /\ Claimable(j)
    /\ Become(j, "running")
    /\ attempts' = [attempts EXCEPT ![j] = @ + 1]
    /\ stale' = stale \ {j}
    /\ UNCHANGED earlier

(* Refreshes whatever the status, and answers with it.                     *)
Heartbeat(j) ==
    /\ stale' = stale \ {j}
    /\ UNCHANGED <<status, attempts, earlier>>

(* Mutant: a job cancelled while it encoded takes the encoder's word.      *)
AcceptsAnything(j) == status[j] # "none"

(* Only a job still running takes an outcome; whose attempt runs is not    *)
(* asked.                                                                  *)
Accepts(j) == status[j] = "running"

Finish(j, outcome) ==
    /\ Accepts(j)
    /\ Become(j, outcome)
    /\ UNCHANGED <<attempts, earlier, stale>>

StaleRunning == {j \in stale : status[j] = "running"}

(* Mutant: every recovery starts the count over.                           *)
RequeueStartsOver ==
    /\ status' = [j \in Jobs |-> IF j \in StaleRunning THEN "queued" ELSE status[j]]
    /\ attempts' = [j \in Jobs |-> IF j \in StaleRunning THEN 0 ELSE attempts[j]]
    /\ UNCHANGED <<earlier, stale>>

(* Crashed jobs go back to the queue, up to the cap.                       *)
RequeueStale ==
    /\ status' = [j \in Jobs |->
                    IF j \notin StaleRunning THEN status[j]
                    ELSE IF attempts[j] >= MaxAttempts THEN "failed" ELSE "queued"]
    /\ UNCHANGED <<attempts, earlier, stale>>

(* Every queued or running job of the file.                                *)
Cancel ==
    /\ status' = [j \in Jobs |->
                    IF status[j] \in {"queued", "running"} THEN "cancelled" ELSE status[j]]
    /\ UNCHANGED <<attempts, earlier, stale>>

(* media_stale_seconds pass without a heartbeat.                           *)
Lapse(j) ==
    /\ status[j] = "running" /\ j \notin stale
    /\ stale' = stale \cup {j}
    /\ UNCHANGED <<status, attempts, earlier>>
=============================================================================
