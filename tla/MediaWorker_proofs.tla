-------------------------- MODULE MediaWorker_proofs --------------------------
(***************************************************************************)
(* MediaWorker: its types, for any number of workers, jobs and attempts,   *)
(* and that its job table behaves as JobLifecycle promises; with one       *)
(* worker, that a recorded success has content and no link goes dark.      *)
(***************************************************************************)
EXTENDS MediaWorker, TLAPS

TableInv == JobsTypeOK /\ QueuedHasAttempts

TableStep == [Lifecycle!Next]_<<status, attempts>>

(* Every operation of the table keeps its invariant and is a step, or a    *)
(* stutter, of the lifecycle.                                              *)
LEMMA RequestJob == ASSUME TableInv, NEW j \in Jobs, Request(j)
                    PROVE  TableInv' /\ TableStep
<1> USE JobAssumption
<1>1. CASE status[j] \in {"none"} \cup Restartable
    <2>1. TableInv'
        BY <1>1 DEF TableInv, JobsTypeOK, QueuedHasAttempts, Request, Become,
                    Restartable, Statuses, Terminal
    <2>2. Lifecycle!Ask(j)
        BY <1>1 DEF Lifecycle!Ask, Lifecycle!Become, Request, Become, Restartable
    <2>3. QED
        BY <2>1, <2>2 DEF TableStep, Lifecycle!Next
<1>2. CASE status[j] \notin {"none"} \cup Restartable
    BY <1>2 DEF TableInv, TableStep, JobsTypeOK, QueuedHasAttempts, Request, jobVars
<1>3. QED
    BY <1>1, <1>2

LEMMA ClaimedJob == ASSUME TableInv, NEW j \in Jobs, Claim(j)
                    PROVE  TableInv' /\ TableStep
<1> USE JobAssumption
<1>1. TableInv'
    BY DEF TableInv, JobsTypeOK, QueuedHasAttempts, Claim, Claimable, Become,
           Statuses, Terminal
<1>2. Lifecycle!Take(j)
    BY DEF TableInv, QueuedHasAttempts, Lifecycle!Take, Lifecycle!Become, Claim,
           Claimable, Become
<1>3. QED
    BY <1>1, <1>2 DEF TableStep, Lifecycle!Next

LEMMA FinishedJob == ASSUME TableInv, NEW j \in Jobs, NEW r \in Terminal, Finish(j, r)
                     PROVE  TableInv' /\ TableStep
<1>1. TableInv'
    BY DEF TableInv, JobsTypeOK, QueuedHasAttempts, Finish, Accepts, Become,
           Statuses, Terminal
<1>2. Lifecycle!Conclude(j)
    BY DEF Lifecycle!Conclude, Lifecycle!Become, Finish, Accepts, Become, Terminal
<1>3. QED
    BY <1>1, <1>2 DEF TableStep, Lifecycle!Next

LEMMA RequeuedJobs == ASSUME TableInv, RequeueStale
                      PROVE  TableInv' /\ TableStep
<1> USE JobAssumption
<1>1. TableInv'
    BY DEF TableInv, JobsTypeOK, QueuedHasAttempts, RequeueStale, StaleRunning,
           Statuses, Terminal
<1>2. StaleRunning \in SUBSET Jobs
    BY DEF StaleRunning, TableInv, JobsTypeOK
<1>3. Lifecycle!GiveBack(StaleRunning)
    BY DEF Lifecycle!GiveBack, RequeueStale, StaleRunning, TableInv, JobsTypeOK
<1>4. QED
    BY <1>1, <1>2, <1>3 DEF TableStep, Lifecycle!Next

LEMMA CancelledJobs == ASSUME TableInv, Cancel
                       PROVE  TableInv' /\ TableStep
<1> DEFINE Live == {j \in Jobs : status[j] \in {"queued", "running"}}
<1>1. TableInv'
    BY DEF TableInv, JobsTypeOK, QueuedHasAttempts, Cancel, Statuses, Terminal
<1>2. Lifecycle!Stop(Live)
    BY DEF Lifecycle!Stop, Cancel
<1>3. QED
    BY <1>1, <1>2 DEF TableStep, Lifecycle!Next

(* Heartbeats come and go without touching a job's place in its life.      *)
LEMMA BeatingJob == ASSUME TableInv, UNCHANGED <<status, attempts, earlier>>,
                           stale' \subseteq Jobs
                    PROVE  TableInv' /\ TableStep
BY DEF TableInv, TableStep, JobsTypeOK, QueuedHasAttempts

LEMMA UntouchedJobs == ASSUME TableInv, UNCHANGED jobVars
                       PROVE  TableInv' /\ TableStep
BY DEF TableInv, TableStep, JobsTypeOK, QueuedHasAttempts, jobVars

-----------------------------------------------------------------------------
(* The three ways a worker moves.                                          *)
WorkerInv == WorkTypeOK /\ BusyHoldsJob /\ PutHoldsChild

LEMMA Advancing ==
    ASSUME WorkerInv, NEW w \in Workers, NEW s \in Steps \ {"put"}, Advance(w, s),
           s \in Busy => at[w] \in Busy
    PROVE  WorkerInv'
BY DEF WorkerInv, WorkTypeOK, BusyHoldsJob, PutHoldsChild, Advance, Goto, Busy

LEMMA Concluding ==
    ASSUME WorkerInv, NEW w \in Workers, NEW r \in Terminal, Conclude(w, r),
           at[w] \in Busy
    PROVE  WorkerInv'
BY DEF WorkerInv, WorkTypeOK, BusyHoldsJob, PutHoldsChild, Conclude, Goto, Busy, Steps

LEMMA Releasing ==
    ASSUME WorkerInv, NEW w \in Workers, Release(w)
    PROVE  WorkerInv'
BY WorkerAssumption
   DEF WorkerInv, WorkTypeOK, BusyHoldsJob, PutHoldsChild, Release, Goto, Busy, Steps,
       Terminal

LEMMA Resting == ASSUME WorkerInv, UNCHANGED workVars PROVE WorkerInv'
BY DEF WorkerInv, WorkTypeOK, BusyHoldsJob, PutHoldsChild, workVars

-----------------------------------------------------------------------------
(* Everything but the table and the workers.                               *)
AroundTypeOK ==
    /\ FileTypeOK /\ BoundTypeOK
    /\ api \in {"idle", "ask", "remove"}
    /\ last \in Jobs \cup {NoJob}
    /\ removed \subseteq Jobs

LEMMA WorkInvParts == WorkInv <=> TableInv /\ WorkerInv /\ AroundTypeOK
BY DEF WorkInv, TypeOK, TableInv, WorkerInv, AroundTypeOK

LEMMA Quiet == ASSUME AroundTypeOK,
                      UNCHANGED <<child, full, nextUid, removed, faults, quietVars>>
               PROVE  AroundTypeOK'
BY DEF AroundTypeOK, FileTypeOK, BoundTypeOK, quietVars

LEMMA Removing == ASSUME AroundTypeOK, NEW S \in SUBSET Jobs, Remove(S)
                  PROVE  FileTypeOK' /\ removed' \subseteq Jobs
BY WorkerAssumption DEF AroundTypeOK, FileTypeOK, Remove

LEMMA InitWorkInv == Init => WorkInv
<1> SUFFICES ASSUME Init PROVE WorkInv
    OBVIOUS
<1> USE JobAssumption, WorkerAssumption
<1>1. TableInv
    BY DEF Init, Fresh, JobsInit, TableInv, JobsTypeOK, Statuses, Terminal, QueuedHasAttempts
<1>2. AroundTypeOK
    <2>1. /\ MaxRequests \in Nat /\ MaxUnpublish \in Nat /\ MaxFaults \in Nat
          /\ MaxLinks \in Nat /\ MaxErasures \in Nat /\ MaxUids \in Nat
        OBVIOUS
    <2>2. FileTypeOK
        <3>1. cur \in Versions
            BY DEF Init, Fresh, Versions
        <3>2. child \in [Jobs -> 0..MaxUids] /\ nextUid \in 1..(MaxUids + 1)
            BY <2>1 DEF Init, Fresh
        <3>3. linked \in BOOLEAN /\ gone \in BOOLEAN /\ tomb \in BOOLEAN
            BY DEF Init, Fresh
        <3>4. QED
            BY <3>1, <3>2, <3>3 DEF Init, Fresh, FileTypeOK
    <2>3. BoundTypeOK
        BY <2>1 DEF Init, Fresh, BoundTypeOK
    <2>4. QED
        BY <2>2, <2>3 DEF Init, Fresh, AroundTypeOK
<1>3. WorkerInv
    BY DEF Init, Fresh, WorkerInv, WorkTypeOK, Steps, Busy, Terminal, BusyHoldsJob, PutHoldsChild
<1>4. QED
    BY <1>1, <1>2, <1>3, WorkInvParts

(* The steps of the API, the uploads, the links and the core.              *)
OutsideStep ==
    \/ Publish \/ UnpublishCancels \/ UnpublishAsks \/ UnpublishRemoves
    \/ Upload \/ LinkChanges \/ CoreErase \/ Tombstone
    \/ \E j \in Jobs : HeartbeatLapses(j)

LEMMA OutsideKeepsInv ==
    ASSUME WorkInv, OutsideStep
    PROVE  WorkInv' /\ TableStep
<1>1. TableInv /\ WorkerInv /\ AroundTypeOK
    BY WorkInvParts
<1> SUFFICES TableInv' /\ WorkerInv' /\ AroundTypeOK' /\ TableStep
    BY WorkInvParts DEF WorkInv, TypeOK, TableInv, WorkerInv, AroundTypeOK
<1> USE JobAssumption, WorkerAssumption
<1>2. CASE Publish
    <2>1. PICK j \in Jobs : Request(j) /\ last' = j
        BY <1>2 DEF Publish
    <2>2. TableInv' /\ TableStep
        BY <1>1, <2>1, RequestJob
    <2>3. WorkerInv'
        BY <1>1, <1>2, Resting DEF Publish
    <2>4. AroundTypeOK'
        BY <1>1, <1>2, <2>1 DEF Publish, AroundTypeOK, FileTypeOK, BoundTypeOK, fileVars
    <2>5. QED
        BY <2>2, <2>3, <2>4
<1>3. CASE UnpublishCancels
    <2>1. TableInv' /\ TableStep
        BY <1>1, <1>3, CancelledJobs DEF UnpublishCancels
    <2>2. WorkerInv'
        BY <1>1, <1>3, Resting DEF UnpublishCancels
    <2>3. AroundTypeOK'
        BY <1>1, <1>3 DEF UnpublishCancels, AroundTypeOK, FileTypeOK, BoundTypeOK, fileVars
    <2>4. QED
        BY <2>1, <2>2, <2>3
<1>4. CASE UnpublishAsks
    <2>1. TableInv' /\ TableStep
        BY <1>1, <1>4, UntouchedJobs DEF UnpublishAsks
    <2>2. WorkerInv'
        BY <1>1, <1>4, Resting DEF UnpublishAsks
    <2>3. AroundTypeOK'
        BY <1>1, <1>4 DEF UnpublishAsks, AroundTypeOK, FileTypeOK, BoundTypeOK, fileVars,
                          boundVars
    <2>4. QED
        BY <2>1, <2>2, <2>3
<1>5. CASE UnpublishRemoves
    <2>1. TableInv' /\ TableStep
        BY <1>1, <1>5, UntouchedJobs DEF UnpublishRemoves
    <2>2. WorkerInv'
        BY <1>1, <1>5, Resting DEF UnpublishRemoves
    <2>3. FileTypeOK' /\ removed' \subseteq Jobs
        BY <1>1, <1>5, Removing DEF UnpublishRemoves, RemoveAsFarAsItGoes
    <2>4. AroundTypeOK'
        BY <1>1, <1>5, <2>3 DEF UnpublishRemoves, AroundTypeOK, BoundTypeOK, boundVars
    <2>5. QED
        BY <2>1, <2>2, <2>4
<1>6. CASE Upload
    <2>1. TableInv' /\ TableStep
        BY <1>1, <1>6, UntouchedJobs DEF Upload
    <2>2. WorkerInv'
        BY <1>1, <1>6, Resting DEF Upload
    <2>3. AroundTypeOK'
        BY <1>1, <1>6 DEF Upload, AroundTypeOK, FileTypeOK, BoundTypeOK, boundVars, Versions
    <2>4. QED
        BY <2>1, <2>2, <2>3
<1>7. CASE LinkChanges
    <2>1. TableInv' /\ TableStep
        BY <1>1, <1>7, UntouchedJobs DEF LinkChanges
    <2>2. WorkerInv'
        BY <1>1, <1>7, Resting DEF LinkChanges
    <2>3. AroundTypeOK'
        BY <1>1, <1>7 DEF LinkChanges, AroundTypeOK, FileTypeOK, BoundTypeOK
    <2>4. QED
        BY <2>1, <2>2, <2>3
<1>8. CASE CoreErase
    <2>1. TableInv' /\ TableStep
        BY <1>1, <1>8, UntouchedJobs DEF CoreErase
    <2>2. WorkerInv'
        BY <1>1, <1>8, Resting DEF CoreErase
    <2>3. AroundTypeOK'
        BY <1>1, <1>8 DEF CoreErase, AroundTypeOK, FileTypeOK, BoundTypeOK
    <2>4. QED
        BY <2>1, <2>2, <2>3
<1>9. CASE Tombstone
    <2>1. TableInv' /\ TableStep
        BY <1>1, <1>9, UntouchedJobs DEF Tombstone
    <2>2. WorkerInv'
        BY <1>1, <1>9, Resting DEF Tombstone
    <2>3. AroundTypeOK'
        BY <1>1, <1>9 DEF Tombstone, AroundTypeOK, FileTypeOK, BoundTypeOK, boundVars
    <2>4. QED
        BY <2>1, <2>2, <2>3
<1>10. CASE \E j \in Jobs : HeartbeatLapses(j)
    <2>1. PICK j \in Jobs : HeartbeatLapses(j)
        BY <1>10
    <2>2. stale' \subseteq Jobs
        BY <1>1, <2>1 DEF HeartbeatLapses, Lapse, TableInv, JobsTypeOK
    <2>3. TableInv' /\ TableStep
        BY <1>1, <2>1, <2>2, BeatingJob DEF HeartbeatLapses, Lapse
    <2>4. WorkerInv'
        BY <1>1, <2>1, Resting DEF HeartbeatLapses
    <2>5. AroundTypeOK'
        BY <1>1, <2>1 DEF HeartbeatLapses, AroundTypeOK, FileTypeOK, BoundTypeOK, boundVars,
                          fileVars
    <2>6. QED
        BY <2>3, <2>4, <2>5
<1>11. QED
    BY <1>2, <1>3, <1>4, <1>5, <1>6, <1>7, <1>8, <1>9, <1>10 DEF OutsideStep

-----------------------------------------------------------------------------
(* The steps of a worker.                                                  *)
LEMMA WorkerKeepsInv ==
    ASSUME WorkInv, NEW w \in Workers, Work(w) \/ Fault(w) \/ Crash(w)
    PROVE  WorkInv' /\ TableStep
<1>1. TableInv /\ WorkerInv /\ AroundTypeOK
    BY WorkInvParts
<1> SUFFICES TableInv' /\ WorkerInv' /\ AroundTypeOK' /\ TableStep
    BY WorkInvParts DEF WorkInv, TypeOK, TableInv, WorkerInv, AroundTypeOK
<1> USE JobAssumption, WorkerAssumption
<1>2. /\ at[w] \in Steps /\ job[w] \in Jobs \cup {NoJob} /\ uid[w] \in 0..MaxUids
      /\ outcome[w] \in Terminal /\ doomed[w] \subseteq Jobs
      /\ (at[w] \in Busy => job[w] \in Jobs)
      /\ (at[w] = "put" => uid[w] # 0)
    BY <1>1 DEF WorkerInv, WorkTypeOK, BusyHoldsJob, PutHoldsChild
<1>3. at[w] \in Busy <=> at[w] \notin {"idle", "claim", "reap"}
    BY <1>2 DEF Busy
<1>4. CASE Recover(w)
    <2>1. TableInv' /\ TableStep
        BY <1>1, <1>4, RequeuedJobs DEF Recover
    <2>2. WorkerInv'
        BY <1>1, <1>4, Advancing DEF Recover, Steps, Busy
    <2>3. AroundTypeOK'
        BY <1>1, <1>4, Quiet DEF Recover
    <2>4. QED
        BY <2>1, <2>2, <2>3
<1>5. CASE ClaimJob(w)
    <2>1. PICK j \in Jobs : Claim(j) /\ job' = [job EXCEPT ![w] = j]
        BY <1>5 DEF ClaimJob
    <2>2. TableInv' /\ TableStep
        BY <1>1, <2>1, ClaimedJob
    <2>3. WorkerInv'
        BY <1>1, <1>5, <2>1 DEF ClaimJob, WorkerInv, WorkTypeOK, BusyHoldsJob, PutHoldsChild,
                             Goto, Busy, Steps
    <2>4. AroundTypeOK'
        BY <1>1, <1>5, Quiet DEF ClaimJob
    <2>5. QED
        BY <2>2, <2>3, <2>4
<1>6. CASE ClaimNothing(w)
    <2>1. TableInv' /\ TableStep
        BY <1>1, <1>6, UntouchedJobs DEF ClaimNothing
    <2>2. WorkerInv'
        BY <1>1, <1>6, Advancing DEF ClaimNothing, Steps, Busy
    <2>3. AroundTypeOK'
        BY <1>1, <1>6, Quiet DEF ClaimNothing
    <2>4. QED
        BY <2>1, <2>2, <2>3
<1>7. CASE Start(w)
    <2>1. TableInv' /\ TableStep
        BY <1>1, <1>7, UntouchedJobs DEF Start
    <2>2. WorkerInv'
        BY <1>1, <1>3, <1>7, Advancing, Concluding DEF Start, Steps, Terminal
    <2>3. AroundTypeOK'
        BY <1>1, <1>7, Quiet DEF Start
    <2>4. QED
        BY <2>1, <2>2, <2>3
<1>8. CASE Fetch(w)
    <2>1. TableInv' /\ TableStep
        BY <1>1, <1>8, UntouchedJobs DEF Fetch
    <2>2. WorkerInv'
        BY <1>1, <1>3, <1>8, Advancing, Concluding DEF Fetch, Steps, Terminal
    <2>3. AroundTypeOK'
        BY <1>1, <1>8, Quiet DEF Fetch
    <2>4. QED
        BY <2>1, <2>2, <2>3
<1>9. CASE Recheck(w)
    <2>1. TableInv' /\ TableStep
        BY <1>1, <1>9, UntouchedJobs DEF Recheck
    <2>2. WorkerInv'
        BY <1>1, <1>3, <1>9, Advancing, Concluding DEF Recheck, Steps, Terminal
    <2>3. AroundTypeOK'
        BY <1>1, <1>9, Quiet DEF Recheck
    <2>4. QED
        BY <2>1, <2>2, <2>3
<1>10. CASE Encode(w)
    <2>1. TableInv' /\ TableStep
        BY <1>1, <1>10, UntouchedJobs DEF Encode
    <2>2. WorkerInv'
        BY <1>1, <1>3, <1>10, Advancing, Concluding DEF Encode, Steps, Terminal
    <2>3. AroundTypeOK'
        BY <1>1, <1>10, Quiet DEF Encode
    <2>4. QED
        BY <2>1, <2>2, <2>3
<1>11. CASE EncodeBeats(w)
    <2>1. stale' \subseteq Jobs
        BY <1>1, <1>11 DEF EncodeBeats, Heartbeat, TableInv, JobsTypeOK
    <2>2. TableInv' /\ TableStep
        BY <1>1, <1>11, <2>1, BeatingJob DEF EncodeBeats, Heartbeat
    <2>3. WorkerInv'
        BY <1>1, <1>11, Releasing, Resting DEF EncodeBeats
    <2>4. AroundTypeOK'
        BY <1>1, <1>11, Quiet DEF EncodeBeats
    <2>5. QED
        BY <2>2, <2>3, <2>4
<1>12. CASE ForcedBeat(w)
    <2>1. stale' \subseteq Jobs
        BY <1>1, <1>12 DEF ForcedBeat, Heartbeat, TableInv, JobsTypeOK
    <2>2. TableInv' /\ TableStep
        BY <1>1, <1>12, <2>1, BeatingJob DEF ForcedBeat, Heartbeat
    <2>3. WorkerInv'
        BY <1>1, <1>3, <1>12, Releasing, Advancing DEF ForcedBeat, Steps
    <2>4. AroundTypeOK'
        BY <1>1, <1>12, Quiet DEF ForcedBeat
    <2>5. QED
        BY <2>2, <2>3, <2>4
<1>13. CASE Clear(w)
    <2>1. TableInv' /\ TableStep
        BY <1>1, <1>13, UntouchedJobs DEF Clear
    <2>2. WorkerInv'
        <3>1. CASE gone
            BY <1>1, <1>3, <1>13, <3>1, Concluding DEF Clear, Terminal
        <3>2. CASE ~gone /\ (Absent(job[w]) \/ Published(job[w]))
            BY <1>1, <1>3, <1>13, <3>2, Advancing DEF Clear, Steps
        <3>3. CASE ~gone /\ ~(Absent(job[w]) \/ Published(job[w]))
            <4>1. child[job[w]] \in 0..MaxUids
                BY <1>1, <1>2, <1>3, <1>13 DEF Clear, AroundTypeOK, FileTypeOK
            <4>2. QED
                BY <1>1, <1>2, <1>3, <1>13, <3>3, <4>1
                   DEF Clear, WorkerInv, WorkTypeOK, BusyHoldsJob, PutHoldsChild, Goto,
                       Busy, Steps
        <3>4. QED
            BY <3>1, <3>2, <3>3
    <2>3. AroundTypeOK'
        BY <1>1, <1>13, Quiet DEF Clear
    <2>4. QED
        BY <2>1, <2>2, <2>3
<1>14. CASE Unlink(w)
    <2>1. TableInv' /\ TableStep
        BY <1>1, <1>14, UntouchedJobs DEF Unlink
    <2>2. WorkerInv'
        BY <1>1, <1>3, <1>14, Advancing, Concluding DEF Unlink, Steps, Terminal
    <2>3. AroundTypeOK'
        BY <1>1, <1>14 DEF Unlink, AroundTypeOK, FileTypeOK, BoundTypeOK, quietVars
    <2>4. QED
        BY <2>1, <2>2, <2>3
<1>15. CASE List(w)
    <2>1. TableInv' /\ TableStep
        BY <1>1, <1>15, UntouchedJobs DEF List
    <2>2. WorkerInv'
        BY <1>1, <1>3, <1>15, Advancing, Concluding DEF List, Steps, Terminal
    <2>3. AroundTypeOK'
        BY <1>1, <1>15, Quiet DEF List
    <2>4. QED
        BY <2>1, <2>2, <2>3
<1>16. CASE Touch(w)
    <2>1. TableInv' /\ TableStep
        BY <1>1, <1>16, UntouchedJobs DEF Touch
    <2>2. WorkerInv'
        <3>1. CASE gone \/ ~Absent(job[w])
            BY <1>1, <1>3, <1>16, <3>1, Concluding DEF Touch, Terminal
        <3>2. CASE ~(gone \/ ~Absent(job[w]))
            <4>1. nextUid \in 1..MaxUids
                BY <1>1, <1>16 DEF Touch, AroundTypeOK, FileTypeOK
            <4>2. QED
                BY <1>1, <1>2, <1>3, <1>16, <3>2, <4>1
                   DEF Touch, WorkerInv, WorkTypeOK, BusyHoldsJob, PutHoldsChild, Goto,
                       Busy, Steps
        <3>3. QED
            BY <3>1, <3>2
    <2>3. AroundTypeOK'
        <3>1. FileTypeOK'
            BY <1>1, <1>16 DEF Touch, AroundTypeOK, FileTypeOK, quietVars
        <3>2. QED
            BY <1>1, <1>16, <3>1 DEF Touch, AroundTypeOK, BoundTypeOK, quietVars
    <2>4. QED
        BY <2>1, <2>2, <2>3
<1>17. CASE Put(w)
    <2>1. TableInv' /\ TableStep
        BY <1>1, <1>17, UntouchedJobs DEF Put
    <2>2. WorkerInv'
        BY <1>1, <1>3, <1>17, Concluding DEF Put, Terminal
    <2>3. AroundTypeOK'
        <3>1. uid[w] \in 1..MaxUids
            BY <1>2, <1>17 DEF Put
        <3>2. QED
            BY <1>1, <1>17, <3>1 DEF Put, AroundTypeOK, FileTypeOK, BoundTypeOK, quietVars
    <2>4. QED
        BY <2>1, <2>2, <2>3
<1>18. CASE FinishJob(w)
    <2>1. TableInv' /\ TableStep
        BY <1>1, <1>2, <1>3, <1>18, FinishedJob, UntouchedJobs DEF FinishJob
    <2>2. WorkerInv'
        BY <1>1, <1>3, <1>18, Advancing, Releasing DEF FinishJob, Steps
    <2>3. AroundTypeOK'
        BY <1>1, <1>18, Quiet DEF FinishJob
    <2>4. QED
        BY <2>1, <2>2, <2>3
<1>19. CASE Retire(w)
    <2>1. TableInv' /\ TableStep
        BY <1>1, <1>19, UntouchedJobs DEF Retire
    <2>2. WorkerInv'
        BY <1>1, <1>3, <1>19, Advancing, Releasing DEF Retire, Steps
    <2>3. AroundTypeOK'
        BY <1>1, <1>19, Quiet DEF Retire
    <2>4. QED
        BY <2>1, <2>2, <2>3
<1>20. CASE Sweep(w)
    <2>1. TableInv' /\ TableStep
        BY <1>1, <1>20, UntouchedJobs DEF Sweep
    <2>2. WorkerInv'
        BY <1>1, <1>20, Releasing DEF Sweep
    <2>3. FileTypeOK' /\ removed' \subseteq Jobs
        BY <1>1, <1>20, Removing DEF Sweep, RemoveAsFarAsItGoes
    <2>4. AroundTypeOK'
        BY <1>1, <1>20, <2>3 DEF Sweep, AroundTypeOK, BoundTypeOK, boundVars
    <2>5. QED
        BY <2>1, <2>2, <2>4
<1>21. CASE ReapAsks(w)
    <2>1. TableInv' /\ TableStep
        BY <1>1, <1>21, UntouchedJobs DEF ReapAsks
    <2>2. WorkerInv'
        <3>1. CASE linked
            BY <1>1, <1>21, <3>1, Advancing DEF ReapAsks, Steps, Busy
        <3>2. CASE ~linked
            BY <1>1, <1>21, <3>2 DEF ReapAsks, WorkerInv, WorkTypeOK, BusyHoldsJob,
                                 PutHoldsChild, Goto, Busy, Steps
        <3>3. QED
            BY <3>1, <3>2
    <2>3. AroundTypeOK'
        BY <1>1, <1>21, Quiet DEF ReapAsks
    <2>4. QED
        BY <2>1, <2>2, <2>3
<1>22. CASE ReapRemoves(w)
    <2>1. TableInv' /\ TableStep
        BY <1>1, <1>22, UntouchedJobs DEF ReapRemoves
    <2>2. WorkerInv'
        BY <1>1, <1>22 DEF ReapRemoves, WorkerInv, WorkTypeOK, BusyHoldsJob, PutHoldsChild,
                       Goto, Busy, Steps
    <2>3. FileTypeOK' /\ removed' \subseteq Jobs
        BY <1>1, <1>2, <1>22, Removing DEF ReapRemoves, RemoveAsFarAsItGoes
    <2>4. AroundTypeOK'
        BY <1>1, <1>22, <2>3 DEF ReapRemoves, AroundTypeOK, BoundTypeOK, boundVars
    <2>5. QED
        BY <2>1, <2>2, <2>4
<1>23. CASE Fault(w)
    <2>1. TableInv' /\ TableStep
        BY <1>1, <1>23, UntouchedJobs DEF Fault
    <2>2. WorkerInv'
        BY <1>1, <1>23, Advancing, Concluding, Releasing DEF Fault, Steps, Terminal
    <2>3. AroundTypeOK'
        BY <1>1, <1>23 DEF Fault, AroundTypeOK, FileTypeOK, BoundTypeOK, quietVars
    <2>4. QED
        BY <2>1, <2>2, <2>3
<1>24. CASE Crash(w)
    <2>1. TableInv' /\ TableStep
        BY <1>1, <1>24, UntouchedJobs DEF Crash
    <2>2. WorkerInv'
        BY <1>1, <1>24, Releasing DEF Crash
    <2>3. AroundTypeOK'
        BY <1>1, <1>24, Quiet DEF Crash
    <2>4. QED
        BY <2>1, <2>2, <2>3
<1>25. QED
    BY <1>4, <1>5, <1>6, <1>7, <1>8, <1>9, <1>10, <1>11, <1>12, <1>13, <1>14, <1>15,
       <1>16, <1>17, <1>18, <1>19, <1>20, <1>21, <1>22, <1>23, <1>24
       DEF Work

-----------------------------------------------------------------------------
(* The invariant, for any workers, profiles, versions and bounds.          *)
THEOREM WorkInvariant == Spec => []WorkInv
<1>1. WorkInv /\ [Next]_vars => WorkInv'
    <2> SUFFICES ASSUME WorkInv, [Next]_vars PROVE WorkInv'
        OBVIOUS
    <2>1. CASE UNCHANGED vars
        <3>1. TableInv /\ WorkerInv /\ AroundTypeOK
            BY WorkInvParts
        <3>2. TableInv' /\ WorkerInv'
            BY <2>1, <3>1, UntouchedJobs, Resting DEF vars
        <3>3. AroundTypeOK'
            BY <2>1, <3>1, Quiet DEF vars, fileVars, boundVars, quietVars
        <3>4. QED
            BY <3>2, <3>3 DEF WorkInv, TypeOK, TableInv, WorkerInv, AroundTypeOK
    <2>2. CASE Next
        BY <2>2, OutsideKeepsInv, WorkerKeepsInv DEF Next, OutsideStep
    <2>3. QED
        BY <2>1, <2>2
<1>2. QED
    BY <1>1, InitWorkInv, PTL DEF Spec

(* Every variable keeps its type; in particular no job is ever claimed     *)
(* more often than media_max_attempts (MediaJobStore.requeue_stale).       *)
THEOREM MediaTypeCorrect == Spec => []TypeOK
<1>1. WorkInv => TypeOK
    BY DEF WorkInv
<1>2. QED
    BY <1>1, WorkInvariant, PTL

(* Whatever the workers, the API and the crashes do, each job lives the    *)
(* life JobLifecycle allows: at most MaxAttempts claims per request, no    *)
(* finished job picked up again, only failed and cancelled ones restarted. *)
THEOREM MediaImplementsLifecycle == Spec => ImplementsLifecycle
<1>1. Init => Lifecycle!Init
    BY DEF Init, Fresh, JobsInit, Lifecycle!Init
<1>2. WorkInv /\ [Next]_vars => [Lifecycle!Next]_<<status, attempts>>
    <2> SUFFICES ASSUME WorkInv, [Next]_vars PROVE TableStep
        BY DEF TableStep
    <2>1. CASE UNCHANGED vars
        BY <2>1 DEF vars, jobVars, TableStep
    <2>2. CASE Next
        BY <2>2, OutsideKeepsInv, WorkerKeepsInv DEF Next, OutsideStep
    <2>3. QED
        BY <2>1, <2>2
<1>3. QED
    BY <1>1, <1>2, WorkInvariant, PTL DEF Spec, ImplementsLifecycle, Lifecycle!Spec

-----------------------------------------------------------------------------
(* What a worker of its own has to keep for a recorded success to have     *)
(* content: it does not work on a job already recorded, does not take an   *)
(* empty child for a rendition, and reports what is there.                 *)
Holds(w) == at[w] \in Busy \ {"retire", "sweep"}

WorksHonestly(w) ==
    /\ Holds(w) => status[job[w]] # "succeeded"
    /\ at[w] = "list" => Absent(job[w]) \/ Published(job[w])
    /\ at[w] = "finish" /\ outcome[w] = "succeeded" =>
          Published(job[w]) \/ job[w] \in removed

ContentInv == SucceededHasContent /\ \A w \in Workers : WorksHonestly(w)

(* A step that records no success and takes children away only on purpose. *)
Gentle ==
    /\ \A j \in Jobs : status'[j] = "succeeded" => status[j] = "succeeded"
    /\ removed \subseteq removed' /\ full \subseteq full'
    /\ \A j \in Jobs : child'[j] = child[j] \/ (child'[j] = 0 /\ j \in removed')

LEMMA GentleKeepsContent == ASSUME SucceededHasContent, Gentle PROVE SucceededHasContent'
BY DEF SucceededHasContent, Gentle, Published

LEMMA Bystander ==
    ASSUME WorkInv, ContentInv, Gentle, UNCHANGED <<at, job, outcome>>
    PROVE  ContentInv'
<1>1. \A w \in Workers : at[w] \in Busy => job[w] \in Jobs
    BY DEF WorkInv, BusyHoldsJob
<1>2. "list" \in Busy /\ "finish" \in Busy /\ Busy \ {"retire", "sweep"} \subseteq Busy
    BY DEF Busy, Steps
<1>3. \A w \in Workers : WorksHonestly(w)'
    BY <1>1, <1>2 DEF ContentInv, WorksHonestly, Holds, Gentle, Absent, Published
<1>4. QED
    BY <1>3, GentleKeepsContent DEF ContentInv

(* Removals on purpose are gentle.                                         *)
LEMMA RemovingIsGentle ==
    ASSUME WorkInv, NEW S \in SUBSET Jobs, RemoveAsFarAsItGoes(S), UNCHANGED status
    PROVE  Gentle
BY DEF RemoveAsFarAsItGoes, Remove, Gentle, WorkInv, TypeOK, FileTypeOK

LEMMA OutsideKeepsContent ==
    ASSUME WorkInv, ContentInv, OutsideStep
    PROVE  ContentInv'
<1>1. status \in [Jobs -> Statuses] /\ child \in [Jobs -> 0..MaxUids] /\ removed \subseteq Jobs
    BY DEF WorkInv, TypeOK, JobsTypeOK, FileTypeOK
<1>2. UNCHANGED <<at, job, outcome>>
    BY DEF OutsideStep, Publish, UnpublishCancels, UnpublishAsks, UnpublishRemoves, Upload,
           LinkChanges, CoreErase, Tombstone, HeartbeatLapses, workVars
<1>3. CASE Publish
    <2>1. PICK j \in Jobs : Request(j)
        BY <1>3 DEF Publish
    <2>2. \A k \in Jobs : status'[k] = "succeeded" => status[k] = "succeeded"
        BY <1>1, <2>1 DEF Request, Become, jobVars
    <2>3. Gentle
        BY <1>3, <2>2 DEF Publish, Gentle, fileVars
    <2>4. QED
        BY <1>2, <2>3, Bystander
<1>4. CASE UnpublishCancels
    <2>1. Gentle
        BY <1>1, <1>4 DEF UnpublishCancels, Cancel, Gentle, fileVars
    <2>2. QED
        BY <1>2, <2>1, Bystander
<1>5. CASE UnpublishRemoves
    <2>1. Gentle
        BY <1>5, RemovingIsGentle DEF UnpublishRemoves, jobVars
    <2>2. QED
        BY <1>2, <2>1, Bystander
<1>6. CASE CoreErase
    <2>1. Gentle
        BY <1>1, <1>6 DEF CoreErase, Gentle, jobVars
    <2>2. QED
        BY <1>2, <2>1, Bystander
<1>7. CASE \/ UnpublishAsks \/ Upload \/ LinkChanges \/ Tombstone
           \/ \E j \in Jobs : HeartbeatLapses(j)
    <2>1. UNCHANGED <<status, child, full, removed>>
        BY <1>7 DEF UnpublishAsks, Upload, LinkChanges, Tombstone, HeartbeatLapses, Lapse,
                    jobVars, fileVars
    <2>2. QED
        BY <1>2, <2>1, Bystander DEF Gentle
<1>8. QED
    BY <1>3, <1>4, <1>5, <1>6, <1>7 DEF OutsideStep

-----------------------------------------------------------------------------
OneWorker == \A v, w \in Workers : v = w

(* Where a step of the only worker leaves it.                              *)
LEMMA OwnStep ==
    ASSUME OneWorker, ContentInv, NEW w \in Workers, Gentle, WorksHonestly(w)'
    PROVE  ContentInv'
BY GentleKeepsContent DEF OneWorker, ContentInv

(* The three ways a worker moves without touching the table or a child.    *)
LEMMA AdvancesHonestly ==
    ASSUME WorkInv, OneWorker, ContentInv, NEW w \in Workers, NEW s \in Steps \ {"finish"},
           Advance(w, s), UNCHANGED <<status, child, full, removed>>,
           s \in Busy \ {"retire", "sweep"} => Holds(w),
           s = "list" => Absent(job[w]) \/ Published(job[w])
    PROVE  ContentInv'
<1>1. at'[w] = s /\ job' = job
    BY DEF Advance, Goto, WorkInv, TypeOK, WorkTypeOK
<1>2. WorksHonestly(w)'
    BY <1>1 DEF ContentInv, WorksHonestly, Holds, Absent, Published
<1>3. QED
    BY <1>2, OwnStep DEF Gentle

LEMMA ConcludesHonestly ==
    ASSUME WorkInv, OneWorker, ContentInv, NEW w \in Workers, NEW r \in Terminal,
           Conclude(w, r), Holds(w), Gentle, UNCHANGED status,
           r = "succeeded" => Published(job[w])'
    PROVE  ContentInv'
<1>1. at'[w] = "finish" /\ job' = job /\ outcome'[w] = r
    BY DEF Conclude, Goto, WorkInv, TypeOK, WorkTypeOK
<1>2. WorksHonestly(w)'
    BY <1>1 DEF ContentInv, WorksHonestly, Holds, Published
<1>3. QED
    BY <1>2, OwnStep

LEMMA ReleasesHonestly ==
    ASSUME WorkInv, OneWorker, ContentInv, NEW w \in Workers, Release(w), Gentle
    PROVE  ContentInv'
<1>1. at'[w] = "idle"
    BY DEF Release, Goto, WorkInv, TypeOK, WorkTypeOK
<1>2. WorksHonestly(w)'
    BY <1>1 DEF WorksHonestly, Holds, Busy
<1>3. QED
    BY <1>2, OwnStep

(* The steps of the only worker; in the last five it touches the table or  *)
(* a child.                                                                *)
LEMMA WorkerKeepsContent ==
    ASSUME WorkInv, OneWorker, ~StatMayFail, ContentInv, NEW w \in Workers,
           Work(w) \/ Fault(w) \/ Crash(w)
    PROVE  ContentInv'
<1>1. /\ at[w] \in Steps /\ job[w] \in Jobs \cup {NoJob} /\ outcome[w] \in Terminal
      /\ at[w] \in Busy => job[w] \in Jobs
      /\ status \in [Jobs -> Statuses] /\ child \in [Jobs -> 0..MaxUids]
      /\ full \subseteq 1..MaxUids /\ removed \subseteq Jobs
      /\ doomed[w] \subseteq Jobs
    BY DEF WorkInv, TypeOK, WorkTypeOK, BusyHoldsJob, JobsTypeOK, FileTypeOK
<1>2. at[w] \in Busy <=> at[w] \notin {"idle", "claim", "reap"}
    BY <1>1 DEF Busy
<1>3. Holds(w) <=> at[w] \notin {"idle", "claim", "reap", "retire", "sweep"}
    BY <1>1 DEF Holds, Busy
<1>4. WorksHonestly(w) /\ SucceededHasContent
    BY DEF ContentInv
<1>5. UNCHANGED <<status, child, full, removed>> => Gentle
    BY DEF Gentle
<1> USE DEF Steps, Terminal
<1>6. CASE Recover(w)
    <2>1. \A j \in Jobs : status'[j] = "succeeded" => status[j] = "succeeded"
        BY <1>1, <1>6 DEF Recover, RequeueStale
    <2>2. Gentle
        BY <1>6, <2>1 DEF Recover, Gentle
    <2>3. at'[w] = "claim"
        BY <1>1, <1>6 DEF Recover, Advance, Goto, WorkInv, TypeOK, WorkTypeOK
    <2>4. WorksHonestly(w)'
        BY <2>3 DEF WorksHonestly, Holds, Busy
    <2>5. QED
        BY <2>2, <2>4, OwnStep
<1>7. CASE ClaimJob(w)
    <2>1. PICK j \in Jobs : Claim(j) /\ job' = [job EXCEPT ![w] = j]
        BY <1>7 DEF ClaimJob
    <2>2. status' = [status EXCEPT ![j] = "running"]
        BY <2>1 DEF Claim, Become
    <2>3. Gentle
        BY <1>1, <1>7, <2>2 DEF ClaimJob, Gentle
    <2>4. at'[w] = "start" /\ job'[w] = j
        BY <1>7, <2>1 DEF ClaimJob, Goto, WorkInv, TypeOK, WorkTypeOK
    <2>5. WorksHonestly(w)'
        BY <1>1, <2>2, <2>4 DEF WorksHonestly
    <2>6. QED
        BY <2>3, <2>5, OwnStep
<1>8. CASE ClaimNothing(w)
    BY <1>8, AdvancesHonestly DEF ClaimNothing, jobVars, Busy
<1>9. CASE Start(w) \/ Fetch(w) \/ Recheck(w) \/ Encode(w)
    <2>1. UNCHANGED <<status, child, full, removed>> /\ Holds(w)
        BY <1>3, <1>9 DEF Start, Fetch, Recheck, Encode, jobVars
    <2>2. \/ \E s \in {"fetch", "encode", "beat", "recheck"} : Advance(w, s)
          \/ \E r \in {"cancelled", "failed", "skipped"} : Conclude(w, r)
        BY <1>9 DEF Start, Fetch, Recheck, Encode
    <2>3. QED
        BY <1>5, <2>1, <2>2, AdvancesHonestly, ConcludesHonestly
<1>10. CASE EncodeBeats(w) \/ ForcedBeat(w)
    <2>1. UNCHANGED <<status, child, full, removed>> /\ Holds(w)
        BY <1>3, <1>10 DEF EncodeBeats, ForcedBeat, Heartbeat
    <2>2. Release(w) \/ UNCHANGED workVars \/ Advance(w, "clear")
        BY <1>10 DEF EncodeBeats, ForcedBeat
    <2>3. QED
        BY <1>5, <2>1, <2>2, AdvancesHonestly, ReleasesHonestly, Bystander DEF workVars
<1>11. CASE Clear(w)
    <2>1. UNCHANGED <<status, child, full, removed>> /\ Holds(w)
        BY <1>3, <1>11 DEF Clear, jobVars
    <2>2. CASE gone
        BY <1>5, <1>11, <2>1, <2>2, ConcludesHonestly DEF Clear
    <2>3. CASE ~gone /\ (Absent(job[w]) \/ Published(job[w]))
        BY <1>11, <2>1, <2>3, AdvancesHonestly DEF Clear
    <2>4. CASE ~gone /\ ~(Absent(job[w]) \/ Published(job[w]))
        <3>1. at'[w] = "unlink" /\ job' = job
            BY <1>11, <2>4 DEF Clear, Goto, WorkInv, TypeOK, WorkTypeOK
        <3>2. WorksHonestly(w)'
            BY <1>4, <2>1, <3>1 DEF WorksHonestly
        <3>3. QED
            BY <1>5, <2>1, <3>2, OwnStep
    <2>5. QED
        BY <2>2, <2>3, <2>4
<1>12. CASE List(w)
    <2>1. UNCHANGED <<status, child, full, removed>> /\ at[w] = "list" /\ Holds(w)
        BY <1>3, <1>12 DEF List, jobVars
    <2>2. Absent(job[w]) \/ Published(job[w])
        BY <1>4, <2>1 DEF WorksHonestly
    <2>3. CASE Advance(w, "touch")
        BY <2>1, <2>3, AdvancesHonestly
    <2>4. CASE Conclude(w, "failed")
        BY <1>5, <2>1, <2>4, ConcludesHonestly
    <2>5. CASE Conclude(w, "succeeded") /\ ~Absent(job[w])
        <3>1. Published(job[w])'
            BY <2>1, <2>2, <2>5 DEF Published, Conclude
        <3>2. QED
            BY <1>5, <2>1, <2>5, <3>1, ConcludesHonestly
    <2>6. QED
        BY <1>12, <2>3, <2>4, <2>5 DEF List
<1>13. CASE Retire(w)
    BY <1>5, <1>13, AdvancesHonestly, ReleasesHonestly DEF Retire, jobVars
<1>14. CASE Sweep(w)
    <2>1. Gentle
        BY <1>14, RemovingIsGentle DEF Sweep, jobVars
    <2>2. QED
        BY <1>14, <2>1, ReleasesHonestly DEF Sweep
<1>15. CASE ReapAsks(w) \/ ReapRemoves(w)
    <2>1. at'[w] \in {"idle", "reap"}
        BY <1>15 DEF ReapAsks, ReapRemoves, Advance, Goto, WorkInv, TypeOK, WorkTypeOK
    <2>2. WorksHonestly(w)'
        BY <2>1 DEF WorksHonestly, Holds, Busy
    <2>3. Gentle
        <3>1. CASE ReapAsks(w)
            BY <1>5, <3>1 DEF ReapAsks, jobVars
        <3>2. CASE ReapRemoves(w)
            BY <1>1, <3>2, RemovingIsGentle DEF ReapRemoves, jobVars
        <3>3. QED
            BY <1>15, <3>1, <3>2
    <2>4. QED
        BY <2>2, <2>3, OwnStep
<1>16. CASE Fault(w)
    <2>1. UNCHANGED <<status, child, full, removed>> /\ Holds(w)
        BY <1>2, <1>3, <1>16 DEF Fault, jobVars
    <2>2. Conclude(w, "failed") \/ Release(w)
        BY <1>16 DEF Fault
    <2>3. QED
        BY <1>5, <2>1, <2>2, ConcludesHonestly, ReleasesHonestly
<1>17. CASE Crash(w)
    BY <1>5, <1>17, ReleasesHonestly DEF Crash, jobVars
<1>18. CASE Unlink(w)
    <2>1. /\ at[w] = "unlink" /\ Holds(w) /\ job[w] \in Jobs
          /\ UNCHANGED <<status, full, removed>>
        BY <1>1, <1>2, <1>3, <1>18 DEF Unlink, jobVars
    <2>2. CASE child[job[w]] = uid[w]
        <3>1. child' = [child EXCEPT ![job[w]] = 0] /\ at'[w] = "list" /\ job' = job
            BY <1>18, <2>2 DEF Unlink, Advance, Goto, WorkInv, TypeOK, WorkTypeOK
        <3>2. status[job[w]] # "succeeded"
            BY <1>4, <2>1 DEF WorksHonestly
        <3>3. SucceededHasContent'
            BY <1>1, <1>4, <2>1, <3>1, <3>2 DEF SucceededHasContent, Published
        <3>4. WorksHonestly(w)'
            BY <1>1, <2>1, <3>1, <3>2 DEF WorksHonestly, Absent
        <3>5. QED
            BY <3>3, <3>4 DEF OneWorker, ContentInv
    <2>3. CASE child[job[w]] # uid[w]
        BY <1>5, <1>18, <2>1, <2>3, ConcludesHonestly DEF Unlink
    <2>4. QED
        BY <2>2, <2>3
<1>19. CASE Touch(w)
    <2>1. Holds(w) /\ job[w] \in Jobs /\ UNCHANGED <<status, full>>
        BY <1>1, <1>2, <1>3, <1>19 DEF Touch, jobVars
    <2>2. CASE gone \/ ~Absent(job[w])
        BY <1>5, <1>19, <2>1, <2>2, ConcludesHonestly DEF Touch
    <2>3. CASE ~(gone \/ ~Absent(job[w]))
        <3>1. /\ child' = [child EXCEPT ![job[w]] = nextUid] /\ removed' = removed \ {job[w]}
              /\ at'[w] = "put" /\ job' = job
            BY <1>19, <2>3 DEF Touch, Goto, WorkInv, TypeOK, WorkTypeOK
        <3>2. status[job[w]] # "succeeded"
            BY <1>4, <2>1 DEF WorksHonestly
        <3>3. SucceededHasContent'
            BY <1>1, <1>4, <2>1, <3>1, <3>2 DEF SucceededHasContent, Published
        <3>4. WorksHonestly(w)'
            BY <2>1, <3>1, <3>2 DEF WorksHonestly
        <3>5. QED
            BY <3>3, <3>4 DEF OneWorker, ContentInv
    <2>4. QED
        BY <2>2, <2>3
<1>20. CASE Put(w)
    <2>1. Holds(w) /\ UNCHANGED <<status, child, removed>> /\ full \subseteq full'
        BY <1>3, <1>20 DEF Put, jobVars
    <2>2. Gentle
        BY <2>1 DEF Gentle
    <2>3. CASE child[job[w]] = uid[w]
        <3>1. Conclude(w, "succeeded") /\ full' = full \cup {uid[w]}
            BY <1>20, <2>3 DEF Put
        <3>2. Published(job[w])'
            BY <2>1, <2>3, <3>1 DEF Published, Conclude
        <3>3. QED
            BY <2>1, <2>2, <3>1, <3>2, ConcludesHonestly
    <2>4. CASE child[job[w]] # uid[w]
        BY <1>20, <2>1, <2>2, <2>4, ConcludesHonestly DEF Put
    <2>5. QED
        BY <2>3, <2>4
<1>21. CASE FinishJob(w)
    <2>1. at[w] = "finish" /\ job[w] \in Jobs /\ UNCHANGED <<child, full, removed>>
        BY <1>1, <1>2, <1>21 DEF FinishJob
    <2>2. CASE Accepts(job[w])
        <3>1. status' = [status EXCEPT ![job[w]] = outcome[w]] /\ at'[w] = "retire"
            BY <1>21, <2>2 DEF FinishJob, Finish, Become, Advance, Goto, WorkInv, TypeOK,
                               WorkTypeOK
        <3>2. SucceededHasContent'
            BY <1>1, <1>4, <2>1, <3>1 DEF SucceededHasContent, WorksHonestly, Published
        <3>3. WorksHonestly(w)'
            BY <3>1 DEF WorksHonestly, Holds
        <3>4. QED
            BY <3>2, <3>3 DEF OneWorker, ContentInv
    <2>3. CASE ~Accepts(job[w])
        BY <1>5, <1>21, <2>3, ReleasesHonestly DEF FinishJob, jobVars
    <2>4. QED
        BY <2>2, <2>3
<1>22. QED
    BY <1>6, <1>7, <1>8, <1>9, <1>10, <1>11, <1>12, <1>13, <1>14, <1>15, <1>16, <1>17,
       <1>18, <1>19, <1>20, <1>21
       DEF Work

(* With one worker, and as long as the core can say how large a child is.  *)
THEOREM ContentInvariant == OneWorker /\ ~StatMayFail => (Spec => []ContentInv)
<1> SUFFICES ASSUME OneWorker, ~StatMayFail PROVE Spec => []ContentInv
    OBVIOUS
<1>1. WorkInv /\ ContentInv /\ [Next]_vars => ContentInv'
    <2> SUFFICES ASSUME WorkInv, ContentInv, [Next]_vars PROVE ContentInv'
        OBVIOUS
    <2>1. CASE UNCHANGED vars
        BY <2>1, Bystander DEF vars, jobVars, fileVars, workVars, Gentle
    <2>2. CASE Next
        BY <2>2, OutsideKeepsContent, WorkerKeepsContent DEF Next, OutsideStep
    <2>3. QED
        BY <2>1, <2>2
<1>2. Init => ContentInv
    BY DEF Init, Fresh, JobsInit, ContentInv, SucceededHasContent, WorksHonestly, Holds, Busy
<1>3. QED
    BY <1>1, <1>2, WorkInvariant, PTL DEF Spec

(* With one worker, and as long as the core can say how large a child is,  *)
(* a job recorded succeeded has its rendition, whatever kills the worker   *)
(* between touch and put (_clear_empty_child), however often.              *)
THEOREM OneWorkerKeepsContent == OneWorker /\ ~StatMayFail => (Spec => []SucceededHasContent)
<1>1. ContentInv => SucceededHasContent
    BY DEF ContentInv
<1>2. QED
    BY <1>1, ContentInvariant, PTL

-----------------------------------------------------------------------------
(* Why a link never goes dark while the links stay as they are: what was   *)
(* removed from under a link has a newer copy that links can play; nobody  *)
(* who is about to remove all copies saw a link; and an empty child that   *)
(* is about to be removed is still empty.                                  *)
Newer(v) == \E k \in Jobs : k[1] >= v /\ k[2] \in Primary /\ Published(k)

DarkInv ==
    /\ linked => api # "remove" /\ \A w \in Workers : doomed[w] = {}
    /\ \A w \in Workers : at[w] = "unlink" => uid[w] \notin full
    /\ linked /\ ~gone =>
         /\ \A j \in removed : Newer(j[1] + 1)
         /\ \A w \in Workers : at[w] = "sweep" => Newer(job[w][1])

Spares == \A k \in Jobs : Published(k) => Published(k)'
StaysUp == linked /\ ~gone' /\ Playable => Playable'

(* What the API and the systems around do.                                 *)
LEMMA OutsideStaysUp ==
    ASSUME MaxLinks = 0, WorkInv, DarkInv, OutsideStep
    PROVE  DarkInv' /\ StaysUp /\ linked' = linked
<1>1. UNCHANGED <<workVars, full>>
    BY DEF OutsideStep, Publish, UnpublishCancels, UnpublishAsks, UnpublishRemoves, Upload,
           LinkChanges, CoreErase, Tombstone, HeartbeatLapses, fileVars, Remove,
           RemoveAsFarAsItGoes
<1>2. moves \in 0..0
    BY DEF WorkInv, TypeOK, BoundTypeOK
<1>3. ~LinkChanges
    BY <1>2 DEF LinkChanges
<1>4. linked' = linked /\ (linked => api' # "remove")
    BY <1>3 DEF DarkInv, OutsideStep, Publish, UnpublishCancels, UnpublishAsks,
           UnpublishRemoves, Upload, CoreErase, Tombstone, HeartbeatLapses, fileVars,
           Remove, RemoveAsFarAsItGoes
<1>5. linked /\ ~gone' => ~gone /\ UNCHANGED <<child, removed>>
    BY <1>3 DEF DarkInv, OutsideStep, Publish, UnpublishCancels, UnpublishAsks,
           UnpublishRemoves, Upload, CoreErase, Tombstone, HeartbeatLapses, fileVars
<1>6. DarkInv'
    BY <1>1, <1>4, <1>5 DEF DarkInv, Newer, Published, workVars
<1>7. StaysUp
    BY <1>1, <1>5 DEF StaysUp, Playable, Published
<1>8. QED
    BY <1>4, <1>6, <1>7

(* A step of the only worker that spares what is published.                *)
LEMMA SparingStep ==
    ASSUME OneWorker, DarkInv, NEW w \in Workers, Spares, removed' \subseteq removed,
           UNCHANGED <<linked, gone, api>>,
           linked => doomed'[w] = {},
           at'[w] = "unlink" => uid'[w] \notin full',
           at'[w] = "sweep" /\ linked /\ ~gone => Newer(job'[w][1])
    PROVE  DarkInv' /\ StaysUp
<1>1. ASSUME NEW v, Newer(v) PROVE \E k \in Jobs : k[1] >= v /\ k[2] \in Primary /\ Published(k)'
    BY <1>1 DEF Newer, Spares
<1>2. linked' => api' # "remove" /\ \A x \in Workers : doomed'[x] = {}
    BY DEF DarkInv, OneWorker
<1>3. \A x \in Workers : at'[x] = "unlink" => uid'[x] \notin full'
    BY DEF OneWorker
<1>4. ASSUME linked, ~gone
      PROVE  /\ \A j \in removed' : Newer(j[1] + 1)'
             /\ \A x \in Workers : at'[x] = "sweep" => Newer(job[x][1])'
    <2>1. ASSUME NEW j \in removed' PROVE Newer(j[1] + 1)'
        <3>1. Newer(j[1] + 1)
            BY <1>4, <2>1 DEF DarkInv
        <3>2. PICK k \in Jobs : k[1] >= j[1] + 1 /\ k[2] \in Primary /\ Published(k)'
            BY <1>1, <3>1
        <3>3. QED
            BY <3>2 DEF Newer
    <2>2. ASSUME NEW x \in Workers, at'[x] = "sweep" PROVE Newer(job[x][1])'
        <3>1. x = w
            BY DEF OneWorker
        <3>2. Newer(job'[w][1])
            BY <1>4, <2>2, <3>1
        <3>3. PICK v : v = job'[w][1]
            OBVIOUS
        <3>4. PICK k \in Jobs : k[1] >= v /\ k[2] \in Primary /\ Published(k)'
            BY <1>1, <3>2, <3>3
        <3>5. QED
            BY <3>1, <3>3, <3>4 DEF Newer
    <2>3. QED
        BY <2>1, <2>2
<1>5. DarkInv'
    BY <1>2, <1>3, <1>4 DEF DarkInv
<1>6. StaysUp
    BY DEF StaysUp, Playable, Spares
<1>7. QED
    BY <1>5, <1>6

(* The older copies go once the newer one can be played.                   *)
LEMMA SweepStaysUp ==
    ASSUME OneWorker, WorkInv, DarkInv, NEW w \in Workers, Sweep(w)
    PROVE  DarkInv' /\ StaysUp
<1>1. /\ at[w] = "sweep" /\ job[w] \in Jobs
      /\ \A k \in Jobs : k[1] \in Nat /\ k[2] \in Profiles
      /\ removed \subseteq Jobs
    BY JobAssumption DEF Sweep, WorkInv, BusyHoldsJob, Busy, Steps, Jobs, Versions, TypeOK
<1>2. PICK v : v = job[w][1]
    OBVIOUS
<1>3. PICK T \in SUBSET {j \in Jobs : j[1] < v} : Remove(T)
    BY <1>2 DEF Sweep, RemoveAsFarAsItGoes
<1>4. /\ \A k \in Jobs \ T : Published(k) => Published(k)'
      /\ removed' = removed \cup T /\ UNCHANGED <<linked, gone, api, full, doomed>>
    BY <1>3 DEF Remove, Published, Sweep, Release
<1>5. at'[w] = "idle"
    BY DEF Sweep, Release, Goto, WorkInv, TypeOK, WorkTypeOK
<1>6. ASSUME linked, ~gone
      PROVE  Playable' /\ \A j \in removed' : Newer(j[1] + 1)'
    <2>1. PICK k \in Jobs : k[1] >= v /\ k[2] \in Primary /\ Published(k)
        BY <1>1, <1>2, <1>6 DEF DarkInv, Newer
    <2>2. k \notin T /\ Published(k)'
        BY <1>1, <1>2, <1>3, <1>4, <2>1
    <2>3. ASSUME NEW j \in removed' PROVE Newer(j[1] + 1)'
        <3>1. CASE j \in T
            <4>1. k[1] >= j[1] + 1
                BY <1>1, <1>2, <1>3, <2>1, <3>1
            <4>2. QED
                BY <2>1, <2>2, <4>1 DEF Newer
        <3>2. CASE j \in removed
            <4>1. PICK m \in Jobs : m[1] >= j[1] + 1 /\ m[2] \in Primary /\ Published(m)
                BY <1>6, <3>2 DEF DarkInv, Newer
            <4>2. CASE m \in T
                <5>1. k[1] >= j[1] + 1
                    BY <1>1, <1>2, <1>3, <2>1, <3>2, <4>1, <4>2
                <5>2. QED
                    BY <2>1, <2>2, <5>1 DEF Newer
            <4>3. CASE m \notin T
                BY <1>4, <4>1, <4>3 DEF Newer
            <4>4. QED
                BY <4>2, <4>3
        <3>3. QED
            BY <1>4, <2>3, <3>1, <3>2
    <2>4. QED
        BY <2>1, <2>2, <2>3 DEF Playable
<1>7. DarkInv'
    BY <1>4, <1>5, <1>6 DEF DarkInv, OneWorker
<1>8. QED
    BY <1>4, <1>6, <1>7 DEF StaysUp

LEMMA WorkerStaysUp ==
    ASSUME OneWorker, WorkInv, ContentInv, DarkInv, NEW w \in Workers,
           Work(w) \/ Fault(w) \/ Crash(w)
    PROVE  DarkInv' /\ StaysUp /\ linked' = linked
<1>1. /\ at[w] \in Steps /\ at[w] \in Busy => job[w] \in Jobs
      /\ child \in [Jobs -> 0..MaxUids] /\ full \subseteq 1..MaxUids
      /\ at \in [Workers -> Steps] /\ uid \in [Workers -> 0..MaxUids]
      /\ doomed \in [Workers -> SUBSET Jobs]
    BY DEF WorkInv, TypeOK, WorkTypeOK, BusyHoldsJob, FileTypeOK
<1>2. linked => doomed[w] = {}
    BY DEF DarkInv
<1>3. CASE Sweep(w)
    BY <1>3, SweepStaysUp DEF Sweep, RemoveAsFarAsItGoes, Remove
<1>4. CASE ReapRemoves(w)
    <2>1. ~linked /\ UNCHANGED <<linked, full>> /\ at'[w] = "idle"
        BY <1>1, <1>2, <1>4 DEF ReapRemoves, RemoveAsFarAsItGoes, Remove, Goto
    <2>2. QED
        BY <2>1 DEF DarkInv, StaysUp, OneWorker
<1>5. CASE /\ UNCHANGED <<child, full, removed, linked, gone, api, doomed>>
           /\ at'[w] \notin {"unlink", "sweep"}
    BY <1>2, <1>5, SparingStep DEF Spares, Published
<1>6. CASE Recover(w) \/ ClaimJob(w) \/ ClaimNothing(w) \/ Start(w) \/ Fetch(w)
    <2>1. UNCHANGED <<child, full, removed, linked, gone, api, doomed>>
        BY <1>6 DEF Recover, ClaimJob, ClaimNothing, Start, Fetch, Advance, Conclude, quietVars
    <2>2. at'[w] \notin {"unlink", "sweep"}
        BY <1>1, <1>6 DEF Recover, ClaimJob, ClaimNothing, Start, Fetch, Advance, Conclude, Goto
    <2>3. QED
        BY <1>5, <2>1, <2>2
<1>7. CASE EncodeBeats(w) \/ Encode(w) \/ Recheck(w) \/ ForcedBeat(w)
    <2>1. UNCHANGED <<child, full, removed, linked, gone, api, doomed>>
        BY <1>7 DEF EncodeBeats, Encode, Recheck, ForcedBeat, Advance, Conclude, Release,
                    quietVars, workVars
    <2>2. at'[w] \notin {"unlink", "sweep"}
        BY <1>1, <1>7 DEF EncodeBeats, Encode, Recheck, ForcedBeat, Advance, Conclude, Release,
                          Goto, workVars
    <2>3. QED
        BY <1>5, <2>1, <2>2
<1>8. CASE List(w) \/ FinishJob(w) \/ Fault(w) \/ Crash(w)
    <2>1. UNCHANGED <<child, full, removed, linked, gone, api, doomed>>
        BY <1>8 DEF List, FinishJob, Fault, Crash, Advance, Conclude, Release, quietVars
    <2>2. at'[w] \notin {"unlink", "sweep"}
        BY <1>1, <1>8 DEF List, FinishJob, Fault, Crash, Advance, Conclude, Release, Goto
    <2>3. QED
        BY <1>5, <2>1, <2>2
<1>9. CASE Clear(w)
    <2>1. UNCHANGED <<child, full, removed, linked, gone, api, doomed>>
        BY <1>9 DEF Clear, Advance, Conclude, quietVars
    <2>2. \/ at'[w] \in {"list", "finish"}
          \/ at'[w] = "unlink" /\ uid'[w] = child[job[w]] /\ ~Published(job[w])
        BY <1>1, <1>9 DEF Clear, Advance, Conclude, Goto
    <2>3. at'[w] = "unlink" => uid'[w] \notin full'
        BY <2>1, <2>2 DEF Published
    <2>4. QED
        BY <1>2, <2>1, <2>2, <2>3, SparingStep DEF Spares, Published
<1>10. CASE Unlink(w)
    <2>1. UNCHANGED <<full, removed, linked, gone, api, doomed>> /\ at'[w] \in {"list", "finish"}
        BY <1>1, <1>10 DEF Unlink, Advance, Conclude, Goto, quietVars
    <2>2. uid[w] \notin full /\ job[w] \in Jobs
        BY <1>1, <1>10 DEF DarkInv, Unlink, Busy, Steps
    <2>3. child' = child \/ (child' = [child EXCEPT ![job[w]] = 0] /\ child[job[w]] = uid[w])
        BY <1>10 DEF Unlink
    <2>4. Spares
        BY <1>1, <2>1, <2>2, <2>3 DEF Spares, Published
    <2>5. QED
        BY <1>2, <2>1, <2>4, SparingStep
<1>11. CASE Touch(w)
    <2>1. UNCHANGED <<full, linked, gone, api, doomed>> /\ at'[w] \in {"put", "finish"}
          /\ removed' \subseteq removed
        BY <1>1, <1>11 DEF Touch, Conclude, Goto, quietVars
    <2>2. child' = child \/ (child' = [child EXCEPT ![job[w]] = nextUid] /\ child[job[w]] = 0)
        BY <1>11 DEF Touch, Absent
    <2>3. Spares
        BY <1>1, <2>1, <2>2 DEF Spares, Published
    <2>4. QED
        BY <1>2, <2>1, <2>3, SparingStep
<1>12. CASE Put(w)
    <2>1. UNCHANGED <<child, removed, linked, gone, api, doomed>> /\ at'[w] = "finish"
          /\ full \subseteq full'
        BY <1>1, <1>12 DEF Put, Conclude, Goto, quietVars
    <2>2. QED
        BY <1>2, <2>1, SparingStep DEF Spares, Published
<1>13. CASE ReapAsks(w)
    <2>1. UNCHANGED <<child, full, removed, linked, gone, api>>
        BY <1>13 DEF ReapAsks, quietVars
    <2>2. at'[w] \in {"idle", "reap"} /\ (linked => doomed' = doomed)
        BY <1>1, <1>13 DEF ReapAsks, Advance, Goto
    <2>3. QED
        BY <1>2, <2>1, <2>2, SparingStep DEF Spares, Published
<1>14. CASE Retire(w)
    <2>1. UNCHANGED <<child, full, removed, linked, gone, api, doomed>>
        BY <1>14 DEF Retire, Advance, Release, quietVars
    <2>2. at'[w] = "idle" \/ (at'[w] = "sweep" /\ job' = job /\ SetComplete(job[w][1]) /\ ~gone)
        BY <1>1, <1>14 DEF Retire, Advance, Release, Goto
    <2>3. ASSUME at'[w] = "sweep", linked, ~gone PROVE Newer(job'[w][1])
        <3>1. PICK v : v = job[w][1] /\ v = job'[w][1]
            BY <2>2, <2>3
        <3>2. PICK j \in SetOf(v) : j[2] \in Primary /\ status[j] = "succeeded"
            BY <2>2, <2>3, <3>1 DEF SetComplete
        <3>3. j \in Jobs /\ j[1] = v /\ v \in Nat /\ \A k \in Jobs : k[1] \in Nat
            BY <3>2, JobAssumption DEF SetOf, Jobs, Versions
        <3>4. Published(j) \/ Newer(j[1] + 1)
            BY <2>3, <3>2, <3>3 DEF ContentInv, SucceededHasContent, DarkInv
        <3>5. Newer(v)
            BY <3>2, <3>3, <3>4 DEF Newer
        <3>6. QED
            BY <3>1, <3>5
    <2>4. QED
        BY <1>2, <2>1, <2>2, <2>3, SparingStep DEF Spares, Published
<1>15. QED
    BY <1>3, <1>4, <1>6, <1>7, <1>8, <1>9, <1>10, <1>11, <1>12, <1>13, <1>14 DEF Work

(* While the links stay as they are, one worker, the API and the reaper    *)
(* never take a link dark: not by superseding a version, not by clearing   *)
(* an empty child, not by an unpublish under way; for any number of        *)
(* versions, profiles, kills and faults.                                   *)
THEOREM OneWorkerKeepsLinks == OneWorker /\ ~StatMayFail /\ MaxLinks = 0 => (Spec => NeverDark)
<1> SUFFICES ASSUME OneWorker, ~StatMayFail, MaxLinks = 0 PROVE Spec => NeverDark
    OBVIOUS
<1>1. Init => DarkInv
    BY DEF Init, Fresh, DarkInv
<1>2. WorkInv /\ ContentInv /\ DarkInv /\ [Next]_vars
          => DarkInv' /\ [linked /\ linked' /\ ~gone' /\ Playable => Playable']_vars
    <2> SUFFICES ASSUME WorkInv, ContentInv, DarkInv, [Next]_vars
                 PROVE  DarkInv' /\ (StaysUp \/ UNCHANGED vars)
        BY DEF StaysUp
    <2>1. CASE UNCHANGED vars
        BY <2>1 DEF vars, fileVars, workVars, DarkInv, Newer, Published
    <2>2. CASE Next
        BY <2>2, OutsideStaysUp, WorkerStaysUp DEF Next, OutsideStep
    <2>3. QED
        BY <2>1, <2>2
<1>3. Spec => []ContentInv
    BY ContentInvariant
<1>4. QED
    BY <1>1, <1>2, <1>3, WorkInvariant, PTL DEF Spec, NeverDark
===============================================================================
