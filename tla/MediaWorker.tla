---------------------------- MODULE MediaWorker ----------------------------
(***************************************************************************)
(* Publishing ONE media file: worker processes that claim jobs, encode for *)
(* hours and write hidden children (media_worker.py, RenditionWriter), the *)
(* API that requests and unpublishes (api.py), the orphan reaper, and, as  *)
(* far as they are seen from here, the core that holds the children and    *)
(* share_service that knows the live links.  A step is one call to         *)
(* Postgres, the core or share_service.                                    *)
(***************************************************************************)
EXTENDS MediaJobs, FiniteSets

CONSTANTS
    Workers,         \* media worker processes
    Primary,         \* the profiles links play (_PRIMARY)
    MaxRequests,     \* bound: publish requests
    MaxUnpublish,    \* bound: DELETE requests
    MaxFaults,       \* bound: failed writes and other errors of a job
    MaxLinks,        \* bound: changes of "some live link plays the file"
    MaxErasures,     \* bound: erasures of the file (0 or 1)
    MaxUids,         \* bound: children ever created
    Reaping,         \* does the orphan reaper run?
    StatMayFail      \* may the core fail to say how large a child is?

ASSUME WorkerAssumption ==
    /\ Primary \subseteq Profiles
    /\ {MaxRequests, MaxUnpublish, MaxFaults, MaxLinks, MaxErasures, MaxUids} \subseteq Nat
    /\ {Reaping, StatMayFail} \subseteq BOOLEAN

NoJob == <<0, 0>>

Steps == {"idle", "claim", "start", "fetch", "encode", "recheck", "beat",
          "clear", "unlink", "list", "touch", "put", "finish", "retire",
          "sweep", "reap"}

(* Where a worker holds a job whose process may still fail or die.         *)
Busy == Steps \ {"idle", "claim", "reap"}

VARIABLES
    cur,         \* the file's current version
    child,       \* the uid of each job's published child, or 0
    full,        \* uids that hold content
    nextUid,     \* the next uid the core gives out
    linked,      \* does a live media link play the file? (share_service)
    gone,        \* was the file erased in the core?
    tomb,        \* is its uid in erased_documents?
    at,          \* where each worker is
    job,         \* the job it claimed
    uid,         \* the child it looked up or touched
    outcome,     \* what it will report
    doomed,      \* reaper: the jobs whose child it decided to remove
    api,         \* the DELETE request: "idle", "ask" or "remove"
    last,        \* history: the job last requested
    removed,     \* history: jobs whose child was removed on purpose
    asked, dropped, faults, moves, erasures    \* how much of each bound is used

fileVars == <<cur, child, full, nextUid, linked, gone, tomb>>
workVars == <<at, job, uid, outcome, doomed>>
boundVars == <<asked, dropped, faults, moves, erasures>>
vars == <<jobVars, fileVars, workVars, api, last, removed, boundVars>>

-----------------------------------------------------------------------------
Published(j) == child[j] \in full
Absent(j) == child[j] = 0

FileTypeOK ==
    /\ cur \in Versions
    /\ child \in [Jobs -> 0..MaxUids]
    /\ full \subseteq 1..MaxUids
    /\ nextUid \in 1..(MaxUids + 1)
    /\ linked \in BOOLEAN /\ gone \in BOOLEAN /\ tomb \in BOOLEAN

WorkTypeOK ==
    /\ at \in [Workers -> Steps]
    /\ job \in [Workers -> Jobs \cup {NoJob}]
    /\ uid \in [Workers -> 0..MaxUids]
    /\ outcome \in [Workers -> Terminal]
    /\ doomed \in [Workers -> SUBSET Jobs]

BoundTypeOK ==
    /\ asked \in 0..MaxRequests /\ dropped \in 0..MaxUnpublish
    /\ faults \in 0..MaxFaults /\ moves \in 0..MaxLinks
    /\ erasures \in 0..MaxErasures

TypeOK ==
    /\ JobsTypeOK /\ FileTypeOK /\ WorkTypeOK /\ BoundTypeOK
    /\ api \in {"idle", "ask", "remove"}
    /\ last \in Jobs \cup {NoJob}
    /\ removed \subseteq Jobs

(* Nothing was asked for yet, whatever is left of the bounds.              *)
Fresh ==
    /\ JobsInit
    /\ cur = 1
    /\ child = [j \in Jobs |-> 0] /\ full = {} /\ nextUid = 1
    /\ linked \in BOOLEAN
    /\ gone = FALSE /\ tomb = FALSE
    /\ at = [w \in Workers |-> "idle"]
    /\ job = [w \in Workers |-> NoJob]
    /\ uid = [w \in Workers |-> 0]
    /\ outcome = [w \in Workers |-> "failed"]
    /\ doomed = [w \in Workers |-> {}]
    /\ api = "idle" /\ last = NoJob /\ removed = {}

Init ==
    /\ Fresh
    /\ asked = 0 /\ dropped = 0 /\ faults = 0 /\ moves = 0 /\ erasures = 0

-----------------------------------------------------------------------------
(* The API and the systems around.                                         *)

(* POST /documents/{uid}/media: the version was current when it was stat'ed *)
(* a moment ago.                                                           *)
Publish ==
    /\ asked < MaxRequests /\ ~gone
    /\ asked' = asked + 1
    /\ \E j \in Jobs :
         /\ j[1] <= cur
         /\ Request(j)
         /\ last' = j
    /\ UNCHANGED <<fileVars, workVars, api, removed, dropped, faults, moves, erasures>>

(* DELETE /documents/{uid}/media, in its three steps.                      *)
UnpublishCancels ==
    /\ api = "idle" /\ dropped < MaxUnpublish /\ ~gone
    /\ dropped' = dropped + 1
    /\ Cancel
    /\ api' = "ask"
    /\ UNCHANGED <<fileVars, workVars, last, removed, asked, faults, moves, erasures>>

(* share_service says how many live links, or nothing at all.              *)
UnpublishAsks ==
    /\ api = "ask"
    /\ api' = "idle" \/ (api' = "remove" /\ ~linked)
    /\ UNCHANGED <<jobVars, fileVars, workVars, last, removed, boundVars>>

Remove(S) ==
    /\ child' = [j \in Jobs |-> IF j \in S THEN 0 ELSE child[j]]
    /\ removed' = removed \cup S
    /\ UNCHANGED <<cur, full, nextUid, linked, gone, tomb>>

(* The children of S are removed one by one; an error ends it part-way.    *)
RemoveAsFarAsItGoes(S) == \E T \in SUBSET {j \in S : ~Absent(j)} : Remove(T)

UnpublishRemoves ==
    /\ api = "remove"
    /\ api' = "idle"
    /\ RemoveAsFarAsItGoes(Jobs)
    /\ UNCHANGED <<jobVars, workVars, last, boundVars>>

Upload ==
    /\ cur < MaxVersion /\ ~gone
    /\ cur' = cur + 1
    /\ UNCHANGED <<jobVars, child, full, nextUid, linked, gone, tomb, workVars, api,
                   last, removed, boundVars>>

(* share_service mints a link or the last one ends.                        *)
LinkChanges ==
    /\ moves < MaxLinks
    /\ moves' = moves + 1
    /\ linked' = ~linked
    /\ UNCHANGED <<jobVars, cur, child, full, nextUid, gone, tomb, workVars, api,
                   last, removed, asked, dropped, faults, erasures>>

(* The core erases the file and its children; the tombstone follows when   *)
(* the ingest worker honours the erasure.                                  *)
CoreErase ==
    /\ erasures < MaxErasures
    /\ erasures' = erasures + 1
    /\ gone' = TRUE
    /\ child' = [j \in Jobs |-> 0]
    /\ removed' = Jobs
    /\ UNCHANGED <<jobVars, cur, full, nextUid, linked, tomb, workVars, api, last,
                   asked, dropped, faults, moves>>

Tombstone ==
    /\ gone /\ ~tomb
    /\ tomb' = TRUE
    /\ UNCHANGED <<jobVars, cur, child, full, nextUid, linked, gone, workVars, api,
                   last, removed, boundVars>>

(* A job no worker is encoding has no heartbeat: its worker died, or it is *)
(* streaming a source or a rendition.                                      *)
HeartbeatLapses(j) ==
    /\ \A w \in Workers : job[w] = j => at[w] \notin {"start", "encode"}
    /\ Lapse(j)
    /\ UNCHANGED <<fileVars, workVars, api, last, removed, boundVars>>

-----------------------------------------------------------------------------
(* A media worker.                                                         *)

Goto(w, step) == at' = [at EXCEPT ![w] = step]

quietVars == <<cur, linked, gone, tomb, api, last, asked, dropped, moves, erasures>>

(* Steps that change nothing but the worker's own place and result.        *)
Advance(w, step) ==
    /\ Goto(w, step)
    /\ UNCHANGED <<job, uid, outcome, doomed>>

Conclude(w, result) ==
    /\ Goto(w, "finish")
    /\ outcome' = [outcome EXCEPT ![w] = result]
    /\ UNCHANGED <<job, uid, doomed>>

Release(w) ==
    /\ Goto(w, "idle")
    /\ job' = [job EXCEPT ![w] = NoJob]
    /\ uid' = [uid EXCEPT ![w] = 0]
    /\ outcome' = [outcome EXCEPT ![w] = "failed"]
    /\ UNCHANGED doomed

(* run_once: recover what crashed, then claim one job.                     *)
Recover(w) ==
    /\ at[w] = "idle"
    /\ RequeueStale
    /\ Advance(w, "claim")
    /\ UNCHANGED <<child, full, nextUid, removed, faults, quietVars>>

ClaimJob(w) ==
    /\ at[w] = "claim"
    /\ \E j \in Jobs : Claim(j) /\ job' = [job EXCEPT ![w] = j]
    /\ Goto(w, "start")
    /\ UNCHANGED <<uid, outcome, doomed, child, full, nextUid, removed, faults, quietVars>>

ClaimNothing(w) ==
    /\ at[w] = "claim"
    /\ \A j \in Jobs : status[j] # "queued"
    /\ \/ Advance(w, "idle")
       \/ Reaping /\ Advance(w, "reap")
    /\ UNCHANGED <<jobVars, child, full, nextUid, removed, faults, quietVars>>

(* process: is_erased, then the job's own version is streamed.             *)
Start(w) ==
    /\ at[w] = "start"
    /\ IF tomb THEN Conclude(w, "cancelled") ELSE Advance(w, "fetch")
    /\ UNCHANGED <<jobVars, child, full, nextUid, removed, faults, quietVars>>

Fetch(w) ==
    /\ at[w] = "fetch"
    /\ IF gone THEN Conclude(w, "failed") ELSE Advance(w, "encode")
    /\ UNCHANGED <<jobVars, child, full, nextUid, removed, faults, quietVars>>

(* The progress callback writes a heartbeat and learns of a cancel.        *)
EncodeBeats(w) ==
    /\ at[w] = "encode"
    /\ Heartbeat(job[w])
    /\ IF status[job[w]] = "cancelled" THEN Release(w)
       ELSE UNCHANGED workVars
    /\ UNCHANGED <<child, full, nextUid, removed, faults, quietVars>>

Encode(w) ==
    /\ at[w] = "encode"
    /\ \/ Advance(w, "recheck")
       \/ Conclude(w, "skipped")
       \/ Conclude(w, "failed")
    /\ UNCHANGED <<jobVars, child, full, nextUid, removed, faults, quietVars>>

Recheck(w) ==
    /\ at[w] = "recheck"
    /\ IF tomb THEN Conclude(w, "cancelled") ELSE Advance(w, "beat")
    /\ UNCHANGED <<jobVars, child, full, nextUid, removed, faults, quietVars>>

ForcedBeat(w) ==
    /\ at[w] = "beat"
    /\ Heartbeat(job[w])
    /\ IF status[job[w]] = "cancelled" THEN Release(w) ELSE Advance(w, "clear")
    /\ UNCHANGED <<child, full, nextUid, removed, faults, quietVars>>

(* Mutant: an empty child left by a killed worker is not cleared away.     *)
ClearNothing(w) ==
    /\ at[w] = "clear"
    /\ IF gone THEN Conclude(w, "failed") ELSE Advance(w, "list")
    /\ UNCHANGED <<jobVars, child, full, nextUid, removed, faults, quietVars>>

(* _clear_empty_child: the size is asked first, the child removed after.   *)
Clear(w) ==
    /\ at[w] = "clear"
    /\ IF gone THEN Conclude(w, "failed")
       ELSE IF Absent(job[w]) \/ Published(job[w]) THEN Advance(w, "list")
       ELSE /\ Goto(w, "unlink")
            /\ uid' = [uid EXCEPT ![w] = child[job[w]]]
            /\ UNCHANGED <<job, outcome, doomed>>
    /\ UNCHANGED <<jobVars, child, full, nextUid, removed, faults, quietVars>>

Unlink(w) ==
    /\ at[w] = "unlink"
    /\ IF child[job[w]] = uid[w]
       THEN child' = [child EXCEPT ![job[w]] = 0] /\ Advance(w, "list")
       ELSE Conclude(w, "failed") /\ UNCHANGED child
    /\ UNCHANGED <<jobVars, full, nextUid, removed, faults, quietVars>>

(* RenditionWriter.write: a name that exists is skipped, and the job       *)
(* reported as published.                                                  *)
List(w) ==
    /\ at[w] = "list"
    /\ IF gone THEN Conclude(w, "failed")
       ELSE IF Absent(job[w]) THEN Advance(w, "touch")
       ELSE Conclude(w, "succeeded")
    /\ UNCHANGED <<jobVars, child, full, nextUid, removed, faults, quietVars>>

Touch(w) ==
    /\ at[w] = "touch"
    /\ nextUid <= MaxUids
    /\ IF gone \/ ~Absent(job[w])
       THEN Conclude(w, "failed") /\ UNCHANGED <<child, nextUid, removed>>
       ELSE /\ child' = [child EXCEPT ![job[w]] = nextUid]
            /\ nextUid' = nextUid + 1
            /\ removed' = removed \ {job[w]}
            /\ uid' = [uid EXCEPT ![w] = nextUid]
            /\ Goto(w, "put")
            /\ UNCHANGED <<job, outcome, doomed>>
    /\ UNCHANGED <<jobVars, full, faults, quietVars>>

Put(w) ==
    /\ at[w] = "put"
    /\ IF child[job[w]] = uid[w]
       THEN full' = full \cup {uid[w]} /\ Conclude(w, "succeeded")
       ELSE Conclude(w, "failed") /\ UNCHANGED full
    /\ UNCHANGED <<jobVars, child, nextUid, removed, faults, quietVars>>

(* _end: a record that is no longer running stands.                        *)
FinishJob(w) ==
    /\ at[w] = "finish"
    /\ IF Accepts(job[w])
       THEN Finish(job[w], outcome[w]) /\ Advance(w, "retire")
       ELSE Release(w) /\ UNCHANGED jobVars
    /\ UNCHANGED <<child, full, nextUid, removed, faults, quietVars>>

SetOf(v) == {j \in Jobs : j[1] = v}

(* Mutant: one finished job of the version is enough.                      *)
AnyJobCompletes(v) == \E j \in SetOf(v) : status[j] = "succeeded"

(* Every job of the version has ended, and a copy links can play is there. *)
SetComplete(v) ==
    /\ \A j \in SetOf(v) : status[j] \notin {"queued", "running"}
    /\ \E j \in SetOf(v) : j[2] \in Primary /\ status[j] = "succeeded"

(* _retire_superseded: the table is read, then the older copies removed.   *)
Retire(w) ==
    /\ at[w] = "retire"
    /\ IF SetComplete(job[w][1]) /\ ~gone THEN Advance(w, "sweep") ELSE Release(w)
    /\ UNCHANGED <<jobVars, child, full, nextUid, removed, faults, quietVars>>

Sweep(w) ==
    /\ at[w] = "sweep"
    /\ RemoveAsFarAsItGoes({j \in Jobs : j[1] < job[w][1]})
    /\ Release(w)
    /\ UNCHANGED <<jobVars, api, last, boundVars>>

(* An error inside process is caught and fails the job.  One outside it,   *)
(* or while its failure is recorded, leaves the job to the stale recovery. *)
(* Only a size that cannot be asked is no error: the child is kept.        *)
Fault(w) ==
    /\ at[w] \in Busy \ {"retire", "sweep"}
    /\ faults < MaxFaults
    /\ faults' = faults + 1
    /\ \/ at[w] # "start" /\ Conclude(w, "failed")
       \/ at[w] = "start" /\ Release(w)
       \/ at[w] = "finish" /\ outcome[w] \in {"failed", "cancelled"} /\ Release(w)
       \/ StatMayFail /\ at[w] = "clear" /\ ~Absent(job[w]) /\ Advance(w, "list")
    /\ UNCHANGED <<jobVars, child, full, nextUid, removed, quietVars>>

(* The process dies with a job in hand and is started again.  No bound:    *)
(* the attempt cap has to end it.                                          *)
Crash(w) ==
    /\ at[w] \in Busy
    /\ Release(w)
    /\ UNCHANGED <<jobVars, child, full, nextUid, removed, faults, quietVars>>

(* reap_orphans: the finished jobs and the live links are read, and some   *)
(* of the candidates are older than the grace period.                      *)
ReapAsks(w) ==
    /\ at[w] = "reap" /\ doomed[w] = {}
    /\ \/ linked /\ Advance(w, "idle")
       \/ /\ ~linked
          /\ \E S \in SUBSET {j \in Jobs : status[j] = "succeeded"} :
               doomed' = [doomed EXCEPT ![w] = S]
          /\ Goto(w, IF doomed'[w] = {} THEN "idle" ELSE "reap")
          /\ UNCHANGED <<job, uid, outcome>>
    /\ UNCHANGED <<jobVars, child, full, nextUid, removed, faults, quietVars>>

ReapRemoves(w) ==
    /\ at[w] = "reap" /\ doomed[w] # {}
    /\ RemoveAsFarAsItGoes(doomed[w])
    /\ doomed' = [doomed EXCEPT ![w] = {}]
    /\ Goto(w, "idle")
    /\ UNCHANGED <<jobVars, job, uid, outcome, api, last, boundVars>>

Work(w) ==
    \/ Recover(w) \/ ClaimJob(w) \/ ClaimNothing(w) \/ Start(w) \/ Fetch(w)
    \/ EncodeBeats(w) \/ Encode(w) \/ Recheck(w) \/ ForcedBeat(w)
    \/ Clear(w) \/ Unlink(w) \/ List(w) \/ Touch(w) \/ Put(w)
    \/ FinishJob(w) \/ Retire(w) \/ Sweep(w) \/ ReapAsks(w) \/ ReapRemoves(w)

Next ==
    \/ Publish \/ UnpublishCancels \/ UnpublishAsks \/ UnpublishRemoves
    \/ Upload \/ LinkChanges \/ CoreErase \/ Tombstone
    \/ \E j \in Jobs : HeartbeatLapses(j)
    \/ \E w \in Workers : Work(w) \/ Fault(w) \/ Crash(w)

Spec == Init /\ [][Next]_vars

(* Encodes end, workers keep polling and time passes.                      *)
Encoding(w) == Work(w) /\ ~(at[w] = "encode" /\ at'[w] = "encode")

Fairness ==
    /\ \A w \in Workers : WF_vars(Encoding(w))
    /\ \A j \in Jobs : WF_vars(HeartbeatLapses(j))

FairSpec == Spec /\ Fairness

-----------------------------------------------------------------------------
(* What TypeOK rests on: a queued job has an attempt left, a busy worker   *)
(* holds a job, and a worker about to store content created the child.     *)
QueuedHasAttempts == \A j \in Jobs : status[j] = "queued" => attempts[j] < MaxAttempts
BusyHoldsJob == \A w \in Workers : at[w] \in Busy => job[w] \in Jobs
PutHoldsChild == \A w \in Workers : at[w] = "put" => uid[w] # 0

WorkInv == TypeOK /\ QueuedHasAttempts /\ BusyHoldsJob /\ PutHoldsChild

(* A job recorded succeeded has its rendition, with content, unless it was *)
(* unpublished, reaped or superseded: a kill between touch and put must    *)
(* not let the retry skip the empty child and report success.              *)
SucceededHasContent ==
    \A j \in Jobs : status[j] = "succeeded" /\ j \notin removed => Published(j)

(* While a live link plays the file and some copy it can play exists, one  *)
(* always does: a correction never takes a link dark.                      *)
Playable == \E j \in Jobs : j[2] \in Primary /\ Published(j)

NeverDark == [][linked /\ linked' /\ ~gone' /\ Playable => Playable']_vars

(* A cancelled job leaves no rendition, once nobody works on it any more   *)
(* and no unpublish is under way (MEDIA_SHARE.md, cancellation).           *)
CancelledLeavesNothing ==
    \A j \in Jobs :
        status[j] = "cancelled" /\ api = "idle" /\ (\A w \in Workers : job[w] # j)
            => ~Published(j)

(* Asking for the current version to be published, when no rendition of it *)
(* is there and the encoder did not decline it, puts it on the way         *)
(* (MEDIA_SHARE.md, the trigger).                                          *)
RequestIsServed ==
    [][asked' # asked /\ last'[1] = cur /\ Absent(last') /\ status[last'] # "skipped"
         => status'[last'] \in {"queued", "running"}]_vars

(* Every job asked for comes to an end, even if every attempt at it kills  *)
(* its worker.                                                             *)
EventuallyEnds ==
    \A j \in Jobs : status[j] \in {"queued", "running"} ~> status[j] \in Terminal

(* The table behaves as the lifecycle promises.                            *)
Lifecycle == INSTANCE JobLifecycle
ImplementsLifecycle == Lifecycle!Spec
=============================================================================
