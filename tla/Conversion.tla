----------------------------- MODULE Conversion -----------------------------
(***************************************************************************)
(* The life of ONE file in convert_search_ai: the core that stores it, the *)
(* ingest worker's event loop, its startup sweep and erasure sweeper, and  *)
(* the on-demand POST /convert of the API, all running                     *)
(* ConversionPipeline.convert over the same documents row, chunks and      *)
(* hidden rendition children.  Each access to the core, to Postgres or to  *)
(* the event stream is a step of its own, so any two processes interleave  *)
(* between them, and the worker may be killed between any two.             *)
(*                                                                         *)
(* Files are independent (rows, children and tombstones are keyed by the   *)
(* file's uid), so one file and the events about it are enough.            *)
(***************************************************************************)
EXTENDS DerivedStore, Sequences

CONSTANTS
    EventLoop,      \* the ingest worker's main loop
    Eraser,         \* its erasure-sweep thread
    Sweepers,       \* reconcile sweeps (forced, size-limited)
    OnDemand,       \* POST /documents/{uid}/convert requests (forced)
    Fmts,           \* rendition formats a converter of this file produces
    MaxQueue,       \* bound: events about the file in the stream
    Scopes          \* what one behaviour may hold, chosen at the start:
                    \*   agents     the sweeps and requests that take part
                    \*   kinds      content kinds the uploads are drawn from
                    \*   oversized  versions above reconcile_max_bytes
                    \*   versions   bound: versions uploaded
                    \*   deletes    bound: soft deletes
                    \*   crashes    bound: kills of the ingest worker
                    \*   faults     bound: failed database, embedding, gRPC calls
                    \*   flips      bound: changes of the core's read-only mode

Converters == {EventLoop} \cup Sweepers \cup OnDemand
Procs == Converters \cup {Eraser}
Worker == {EventLoop, Eraser} \cup Sweepers     \* one OS process

(* "document" converts to text and renditions, "note" to text, "dull" to   *)
(* text with nothing to search for in it (every chunk is degenerate),      *)
(* "image" to renditions, "dud" to nothing (a plugin matched and failed),  *)
(* "blob" has no plugin.                                                   *)
AllKinds == {"document", "note", "dull", "image", "dud", "blob"}

ASSUME ProcAssumption ==
    /\ EventLoop # Eraser
    /\ {EventLoop, Eraser} \cap (Sweepers \cup OnDemand) = {}
    /\ Sweepers \cap OnDemand = {}

ASSUME DataAssumption ==
    /\ MaxQueue \in Nat
    /\ \A s \in Scopes : s.kinds \subseteq AllKinds /\ s.versions \in Versions

Terminal == {"converted", "indexed", "index_failed", "unsupported"}

Steps == {"idle", "listed", "stat", "status", "fetch", "mark", "convert",
          "touch", "put", "prune", "index", "final", "emit", "done", "ack"}

(* ver is the version stat'ed, got the one whose content was read, reuse   *)
(* the code's already_indexed, result the status to record, todo and open  *)
(* the renditions still to write and the one touched but not yet put,      *)
(* wrote whether this call has written any.                                *)
Frames == [ver: Versions, got: Versions, reuse: BOOLEAN, result: Statuses,
           todo: SUBSET Fmts, open: SUBSET Fmts, wrote: BOOLEAN]

NoFrame == [ver |-> 1, got |-> 1, reuse |-> FALSE, result |-> "none",
            todo |-> {}, open |-> {}, wrote |-> FALSE]

(* A converter that has passed the is_erased refusal and has not returned. *)
InFlight == {"stat", "status", "fetch", "mark", "convert", "touch", "put",
             "prune", "index", "final", "emit"}

Announcements == [version: Versions, type: {"complete", "unsupported", "error"}]

VARIABLES
    \* the core
    cur,         \* the current version
    kind,        \* what kind of content each version is (fixed)
    live,        \* "present", "deleted" (soft) or "erased"
    child,       \* hidden rendition children, by version and format
    readonly,    \* is the core in read-only failover?
    erasure,     \* the erasure record: "none", "pending", "complied"
    \* the event stream of this file
    queue,       \* events not yet acked, oldest first
    delivered,   \* is the oldest one in the worker's pending list?
    draining,    \* is the worker replaying its pending list after a start?
    announced,   \* conversion events published
    \* the processes
    pc,          \* where each process is
    frame,       \* the local variables of its call of convert
    \* bounds and history
    scope,       \* which of Scopes this behaviour keeps to (fixed)
    crashes, faults, flips, deletes,    \* how much of it has happened
    racing       \* converters in flight when the row was last removed, by a
                 \* delete or by an erasure

coreVars == <<cur, kind, live, child, readonly, erasure>>
streamVars == <<queue, delivered, draining, announced>>
boundVars == <<scope, crashes, faults, flips, deletes>>

\* what no step of a conversion changes
aroundVars == <<cur, kind, live, readonly, erasure, queue, draining, scope,
                crashes, flips, deletes, racing>>
vars == <<storeVars, coreVars, streamVars, pc, frame, boundVars, racing>>

-----------------------------------------------------------------------------
HasText(v) == kind[v] \in {"document", "note", "dull"}
Dull(v) == kind[v] = "dull"
Renders(v) == kind[v] \in {"document", "image"}
Supported(v) == kind[v] # "blob"

NoChildren == [f \in Fmts |-> "absent"]

CoreTypeOK ==
    /\ cur \in Versions
    /\ kind \in [Versions -> AllKinds]
    /\ live \in {"present", "deleted", "erased"}
    /\ child \in [Versions -> [Fmts -> {"absent", "empty", "full"}]]
    /\ readonly \in BOOLEAN
    /\ erasure \in {"none", "pending", "complied"}

StreamTypeOK ==
    /\ queue \in Seq({"changed", "deleted", "erased"})
    /\ delivered \in BOOLEAN
    /\ draining \in BOOLEAN
    /\ announced \subseteq Announcements

ProcTypeOK ==
    /\ pc \in [Procs -> Steps]
    /\ frame \in [Procs -> Frames]
    /\ racing \subseteq Procs

BoundTypeOK ==
    /\ scope \in Scopes
    /\ crashes \in Nat /\ faults \in Nat /\ flips \in Nat /\ deletes \in Nat

TypeOK == StoreTypeOK /\ CoreTypeOK /\ StreamTypeOK /\ ProcTypeOK /\ BoundTypeOK

Init ==
    /\ scope \in Scopes
    /\ StoreInit
    /\ cur = 1
    /\ kind \in [Versions -> scope.kinds]
    /\ live = "present"
    /\ child = [v \in Versions |-> NoChildren]
    /\ readonly = FALSE
    /\ erasure = "none"
    /\ queue = <<"changed">>
    /\ delivered = FALSE
    /\ draining = FALSE
    /\ announced = {}
    /\ pc = [p \in Procs |-> "idle"]
    /\ frame = [p \in Procs |-> NoFrame]
    /\ crashes = 0 /\ faults = 0 /\ flips = 0 /\ deletes = 0
    /\ racing = {}

-----------------------------------------------------------------------------
(* The core: uploads, soft deletes, restores, erasures, failover.          *)

Publish(e) == Len(queue) < MaxQueue /\ queue' = Append(queue, e)

Upload ==
    /\ live = "present"
    /\ cur < scope.versions
    /\ cur' = cur + 1
    /\ Publish("changed")
    /\ UNCHANGED <<storeVars, kind, live, child, readonly, erasure, delivered,
                   draining, announced, pc, frame, boundVars, racing>>

SoftDelete ==
    /\ live = "present"
    /\ deletes < scope.deletes
    /\ deletes' = deletes + 1
    /\ live' = "deleted"
    /\ Publish("deleted")
    /\ UNCHANGED <<storeVars, cur, kind, child, readonly, erasure, delivered,
                   draining, announced, pc, frame, scope, crashes, faults,
                   flips, racing>>

Restore ==
    /\ live = "deleted"
    /\ live' = "present"
    /\ Publish("changed")
    /\ UNCHANGED <<storeVars, cur, kind, child, readonly, erasure, delivered,
                   draining, announced, pc, frame, boundVars, racing>>

(* A true delete.  The event is only a hint: the stream may drop it.       *)
CoreErase ==
    /\ live # "erased"
    /\ live' = "erased"
    /\ erasure' = "pending"
    /\ child' = [v \in Versions |-> NoChildren]
    /\ Publish("erased") \/ UNCHANGED queue
    /\ UNCHANGED <<storeVars, cur, kind, readonly, delivered, draining,
                   announced, pc, frame, boundVars, racing>>

Failover ==
    /\ flips < scope.flips
    /\ flips' = flips + 1
    /\ readonly' = ~readonly
    /\ UNCHANGED <<storeVars, cur, kind, live, child, erasure, streamVars, pc,
                   frame, scope, crashes, faults, deletes, racing>>

-----------------------------------------------------------------------------
(* ConversionPipeline.convert, one step per access to shared state.        *)

SpendFault == faults < scope.faults /\ faults' = faults + 1

Goto(c, step) == pc' = [pc EXCEPT ![c] = step]

(* A call ends: its locals are gone.  The event loop has to ack its event. *)
Leave(c, step) ==
    /\ Goto(c, step)
    /\ frame' = [frame EXCEPT ![c] = NoFrame]

Return(c) == Leave(c, IF c = EventLoop THEN "done" ELSE "idle")

Advance(c, step) == Goto(c, step) /\ UNCHANGED frame

HeadIs(e) == pc[EventLoop] = "idle" /\ queue # <<>> /\ Head(queue) = e

Forced(c) == c # EventLoop
SizeLimited(c) == c \in Sweepers \/ (c = EventLoop /\ draining)

(* reconcile.needs_conversion over the row a sweep listed: a run that did  *)
(* not finish, or text that never reached the index.                       *)
NeedsConversion ==
    \/ row.status \in {"converting", "index_failed"}
    \/ HasRow /\ chunks = 0 /\ HasText(row.version)

ListRow(c) ==
    /\ c \in Sweepers \cap scope.agents
    /\ pc[c] = "idle"
    /\ NeedsConversion
    /\ Advance(c, "listed")
    /\ UNCHANGED <<storeVars, child, delivered, announced, faults, aroundVars>>

(* The entry of convert: the is_erased refusal comes before everything.    *)
Begin(c) ==
    /\ \/ c = EventLoop /\ HeadIs("changed")
       \/ c \in Sweepers /\ pc[c] = "listed"
       \/ c \in OnDemand \cap scope.agents /\ pc[c] = "idle"
    /\ IF tomb THEN Return(c) ELSE Advance(c, "stat")
    /\ delivered' = (delivered \/ c = EventLoop)
    /\ UNCHANGED <<storeVars, child, announced, faults, aroundVars>>

Stat(c) ==
    /\ pc[c] = "stat"
    /\ IF live = "present" /\ ~(SizeLimited(c) /\ cur \in scope.oversized)
       THEN Goto(c, "status") /\ frame' = [frame EXCEPT ![c].ver = cur]
       ELSE Return(c)
    /\ UNCHANGED <<storeVars, child, delivered, announced, faults, aroundVars>>

SameVersion(c) == row.version = frame[c].ver

(* Mutant: any row of this version counts as done, a half-done one too.    *)
AnyRowIsDone(c) == SameVersion(c)

AlreadyDone(c) == SameVersion(c) /\ row.status \in {"converted", "indexed"}

GetStatus(c) ==
    /\ pc[c] = "status"
    /\ IF AlreadyDone(c) /\ ~Forced(c)
       THEN Return(c)
       ELSE /\ Goto(c, "fetch")
            /\ frame' = [frame EXCEPT ![c].reuse =
                             SameVersion(c) /\ row.status = "indexed"]
    /\ UNCHANGED <<storeVars, child, delivered, announced, faults, aroundVars>>

(* The content streamed is the CURRENT one, not the stat'ed version's.     *)
Fetch(c) ==
    /\ pc[c] = "fetch"
    /\ IF live = "present"
       THEN Goto(c, "mark") /\ frame' = [frame EXCEPT ![c].got = cur]
       ELSE Return(c)
    /\ UNCHANGED <<storeVars, child, delivered, announced, faults, aroundVars>>

MarkConverting(c) ==
    /\ pc[c] = "mark"
    /\ Upsert(frame[c].ver, "converting", 0)
    /\ Advance(c, "convert")
    /\ UNCHANGED <<child, delivered, announced, faults, aroundVars>>

Unsupported(c) ==
    /\ pc[c] = "convert"
    /\ ~Supported(frame[c].got)
    /\ Upsert(frame[c].ver, "unsupported", 0)
    /\ Goto(c, "emit")
    /\ frame' = [frame EXCEPT ![c].result = "unsupported"]
    /\ UNCHANGED <<child, delivered, announced, faults, aroundVars>>

(* RenditionWriter.write: list the children once, then touch and put each  *)
(* rendition whose NAME is not there yet.                                  *)
Missing(c) == {f \in Fmts : Renders(frame[c].got) /\ child[frame[c].ver][f] = "absent"}

ListChildren(c) ==
    /\ pc[c] = "convert"
    /\ Supported(frame[c].got)
    /\ live # "erased"
    /\ Goto(c, "touch")
    /\ frame' = [frame EXCEPT ![c].todo = Missing(c)]
    /\ UNCHANGED <<storeVars, child, delivered, announced, faults, aroundVars>>

Writable == live # "erased" /\ ~readonly

(* mf.touch creates the hidden child, mf.put_stream then fills it.         *)
Touch(c) ==
    /\ pc[c] = "touch"
    /\ Writable
    /\ \E f \in frame[c].todo :
         /\ child[frame[c].ver][f] = "absent"
         /\ child' = [child EXCEPT ![frame[c].ver][f] = "empty"]
         /\ frame' = [frame EXCEPT ![c].todo = @ \ {f}, ![c].open = {f}]
    /\ Goto(c, "put")
    /\ UNCHANGED <<storeVars, delivered, announced, faults, aroundVars>>

Put(c) ==
    /\ pc[c] = "put"
    /\ Writable
    /\ \E f \in frame[c].open :
         /\ child[frame[c].ver][f] # "absent"
         /\ child' = [child EXCEPT ![frame[c].ver][f] = "full"]
    /\ frame' = [frame EXCEPT ![c].open = {}, ![c].wrote = TRUE]
    /\ Goto(c, "touch")
    /\ UNCHANGED <<storeVars, delivered, announced, faults, aroundVars>>

WriteDone(c) ==
    /\ pc[c] = "touch"
    /\ frame[c].todo = {}
    /\ Advance(c, "prune")
    /\ UNCHANGED <<storeVars, child, delivered, announced, faults, aroundVars>>

(* prune_old_versions: the children of every OTHER version are removed,    *)
(* best effort; a read-only core refuses each removal, which is logged.    *)
Prune(c) ==
    /\ pc[c] = "prune"
    /\ live # "erased"
    /\ child' = IF readonly THEN child
                ELSE [v \in Versions |-> IF v = frame[c].ver THEN child[v]
                                         ELSE NoChildren]
    /\ Advance(c, "index")
    /\ UNCHANGED <<storeVars, delivered, announced, faults, aroundVars>>

NeedsIndexing(c) == HasText(frame[c].got) /\ ~frame[c].reuse

Resolve(c, status) ==
    /\ Goto(c, "final")
    /\ frame' = [frame EXCEPT ![c].result = status]

SkipIndex(c) ==
    /\ pc[c] = "index"
    /\ ~NeedsIndexing(c)
    /\ Resolve(c, IF frame[c].reuse THEN "indexed" ELSE "converted")
    /\ UNCHANGED <<storeVars, child, delivered, announced, faults, aroundVars>>

(* Degenerate chunks are dropped; when none is left the file's chunks are  *)
(* deleted, and the run counts as indexed all the same.                    *)
Index(c) ==
    /\ pc[c] = "index"
    /\ NeedsIndexing(c)
    /\ IF Dull(frame[c].got) THEN DropChunks ELSE ReplaceChunks(frame[c].got)
    /\ Resolve(c, "indexed")
    /\ UNCHANGED <<child, delivered, announced, faults, aroundVars>>

(* The embedder or the insert failed: caught, and recorded as a status.    *)
IndexFails(c) ==
    /\ pc[c] = "index"
    /\ NeedsIndexing(c)
    /\ \/ ~Dull(frame[c].got) /\ ~CanReplaceChunks /\ UNCHANGED faults
       \/ SpendFault
    /\ Resolve(c, "index_failed")
    /\ UNCHANGED <<storeVars, child, delivered, announced, aroundVars>>

Record(c) ==
    /\ pc[c] = "final"
    /\ Upsert(frame[c].ver, frame[c].result,
              IF HasText(frame[c].got) THEN frame[c].got ELSE 0)
    /\ Advance(c, "emit")
    /\ UNCHANGED <<child, delivered, announced, faults, aroundVars>>

(* What the outcome reports: a forced call lists every child of the        *)
(* version, the event loop only the ones this call wrote.                  *)
Produced(c) ==
    \/ HasText(frame[c].got)
    \/ IF Forced(c) THEN \E f \in Fmts : child[frame[c].ver][f] # "absent"
                    ELSE frame[c].wrote

Outcome(c) ==
    [version |-> frame[c].ver,
     type |-> IF frame[c].result = "unsupported" THEN "unsupported"
              ELSE IF Produced(c) THEN "complete" ELSE "error"]

(* names_for_version lists the children of a file that is gone.            *)
Unreportable(c) == Forced(c) /\ frame[c].result # "unsupported" /\ live = "erased"

(* Mutant: only the event loop announces what it resolved.                 *)
EmitFromLoopOnly(c) ==
    /\ pc[c] = "emit"
    /\ ~Unreportable(c)
    /\ announced' = announced \cup (IF Forced(c) THEN {} ELSE {Outcome(c)})
    /\ Return(c)
    /\ UNCHANGED <<storeVars, child, delivered, faults, aroundVars>>

(* emit_conversion: called by the event loop and by POST /convert, not by  *)
(* the sweeps.                                                             *)
Emit(c) ==
    /\ pc[c] = "emit"
    /\ ~Unreportable(c)
    /\ announced' = announced \cup (IF c \in Sweepers THEN {} ELSE {Outcome(c)})
    /\ Return(c)
    /\ UNCHANGED <<storeVars, child, delivered, faults, aroundVars>>

-----------------------------------------------------------------------------
(* Failures of a conversion.                                               *)

(* Mutant: a refused write is acked like any other failure.                *)
WriteRefusedAcks(c) ==
    /\ pc[c] = "put" \/ (pc[c] = "touch" /\ frame[c].todo # {})
    /\ readonly /\ live # "erased"
    /\ Return(c)
    /\ UNCHANGED <<storeVars, child, delivered, announced, faults, aroundVars>>

(* WriteUnavailableError.  The event loop leaves the event pending and     *)
(* retries it, except while it replays the pending list after a start:     *)
(* drain_pending catches everything and acks.                              *)
WriteRefused(c) ==
    /\ pc[c] = "put" \/ (pc[c] = "touch" /\ frame[c].todo # {})
    /\ readonly /\ live # "erased"
    /\ Leave(c, IF c = EventLoop /\ draining THEN "done" ELSE "idle")
    /\ UNCHANGED <<storeVars, child, delivered, announced, faults, aroundVars>>

(* A refusal of the core that is not transient: the file is gone, the name *)
(* was taken or the touched child removed by another call.                 *)
CoreRefuses(c) ==
    /\ \/ pc[c] \in {"touch", "put", "prune"} /\ live = "erased"
       \/ pc[c] = "convert" /\ Supported(frame[c].got) /\ live = "erased"
       \/ pc[c] = "emit" /\ Unreportable(c)
       \/ pc[c] = "touch" /\ \E f \in frame[c].todo : child[frame[c].ver][f] # "absent"
       \/ pc[c] = "put" /\ \E f \in frame[c].open : child[frame[c].ver][f] = "absent"
    /\ Return(c)
    /\ UNCHANGED <<storeVars, child, delivered, announced, faults, aroundVars>>

(* Any other exception (Postgres, gRPC): logged, and the event is acked.   *)
Fault(c) ==
    /\ pc[c] \in InFlight \ {"index", "emit"}
    /\ SpendFault
    /\ Return(c)
    /\ UNCHANGED <<storeVars, child, delivered, announced, aroundVars>>

-----------------------------------------------------------------------------
(* The rest of the event loop, and the erasure sweeper.                    *)

HandleDelete ==
    /\ HeadIs("deleted")
    /\ DeleteRow
    /\ racing' = {c \in Converters : pc[c] \in InFlight}
    /\ delivered' = TRUE
    /\ Advance(EventLoop, "done")
    /\ UNCHANGED <<coreVars, queue, draining, announced, boundVars>>

Ack ==
    /\ pc[EventLoop] = "done"
    /\ queue' = Tail(queue)
    /\ delivered' = FALSE
    /\ draining' = FALSE
    /\ Advance(EventLoop, "idle")
    /\ UNCHANGED <<storeVars, coreVars, announced, boundVars, racing>>

(* Mutant: only the event erases, nothing sweeps the pending erasures.     *)
MayEraseOnEvent(p) == p = EventLoop /\ HeadIs("erased")

(* _honour_erasure from the event or from the sweep of pending erasures.   *)
MayErase(p) ==
    \/ p = EventLoop /\ HeadIs("erased")
    \/ p = Eraser /\ pc[Eraser] = "idle" /\ erasure = "pending"

HonourErasure(p) ==
    /\ MayErase(p)
    /\ EraseDocument
    /\ racing' = {c \in Converters : pc[c] \in InFlight}
    /\ Advance(p, "ack")
    /\ delivered' = (delivered \/ p = EventLoop)
    /\ UNCHANGED <<coreVars, queue, draining, announced, boundVars>>

(* Mutant: the failure is swallowed and compliance is reported anyway.     *)
EraseFailsComplies(p) ==
    /\ MayErase(p)
    /\ SpendFault
    /\ Advance(p, "ack")
    /\ delivered' = (delivered \/ p = EventLoop)
    /\ UNCHANGED <<storeVars, child, announced, aroundVars>>

(* The transaction failed: complied = false is reported, nothing changed,  *)
(* and the core keeps offering the erasure.                                *)
EraseFails(p) ==
    /\ MayErase(p)
    /\ SpendFault
    /\ Return(p)
    /\ delivered' = (delivered \/ p = EventLoop)
    /\ UNCHANGED <<storeVars, child, announced, aroundVars>>

(* acknowledge_erasure(complied = true); its own failure is swallowed.     *)
Acknowledge(p) ==
    /\ pc[p] = "ack"
    /\ \/ erasure' = "complied" /\ UNCHANGED faults
       \/ SpendFault /\ UNCHANGED erasure
    /\ Return(p)
    /\ UNCHANGED <<storeVars, cur, kind, live, child, readonly, streamVars,
                   scope, crashes, flips, deletes, racing>>

(* The ingest worker is killed and restarted; the API process is not.      *)
Crash ==
    /\ crashes < scope.crashes
    /\ crashes' = crashes + 1
    /\ pc' = [p \in Procs |-> IF p \in Worker THEN "idle" ELSE pc[p]]
    /\ frame' = [p \in Procs |-> IF p \in Worker THEN NoFrame ELSE frame[p]]
    /\ draining' = delivered
    /\ UNCHANGED <<storeVars, coreVars, queue, delivered, announced, scope,
                   faults, flips, deletes, racing>>

-----------------------------------------------------------------------------
Convert(c) ==
    \/ ListRow(c) \/ Begin(c) \/ Stat(c) \/ GetStatus(c) \/ Fetch(c)
    \/ MarkConverting(c) \/ Unsupported(c) \/ ListChildren(c)
    \/ Touch(c) \/ Put(c) \/ WriteDone(c) \/ Prune(c)
    \/ SkipIndex(c) \/ Index(c) \/ IndexFails(c) \/ Record(c) \/ Emit(c)
    \/ WriteRefused(c) \/ CoreRefuses(c)

Erasing(p) == HonourErasure(p) \/ EraseFails(p) \/ Acknowledge(p)

Next ==
    \/ Upload \/ SoftDelete \/ Restore \/ CoreErase \/ Failover
    \/ \E c \in Converters : Convert(c) \/ Fault(c)
    \/ HandleDelete \/ Ack
    \/ \E p \in {EventLoop, Eraser} : Erasing(p)
    \/ Crash

Spec == Init /\ [][Next]_vars

(* The worker's loops run for ever, and a failover ends.                   *)
Fairness ==
    /\ WF_vars(Convert(EventLoop))
    /\ WF_vars(HandleDelete)
    /\ WF_vars(Ack)
    /\ \A p \in {EventLoop, Eraser} : WF_vars(Erasing(p))
    /\ WF_vars(readonly /\ Failover)

FairSpec == Spec /\ Fairness

-----------------------------------------------------------------------------
(* Properties.                                                             *)

(* What an indexed version leaves in the chunks table.                     *)
ChunksOf(v) == IF Dull(v) THEN 0 ELSE v

Settled == queue = <<>> /\ \A c \in Converters : pc[c] = "idle"

(* The database describes the file as it is: no row for a deleted one; for *)
(* a present one a resolved row of the CURRENT version, whose text and     *)
(* chunks come from that version when it has text, and a child for every   *)
(* rendition.                                                              *)
DescribesFile ==
    /\ live = "deleted" => row = NoRow /\ chunks = 0
    /\ live = "present" =>
         /\ row.version = cur
         /\ row.status \in Terminal
         /\ HasText(cur) /\ row.status = "indexed" =>
              row.text = cur /\ chunks = ChunksOf(cur)
         /\ Renders(cur) => \A f \in Fmts : child[cur][f] # "absent"

(* When the event loop is alone, every event about the file is acked and   *)
(* nothing runs, the database describes the file, whatever kills or        *)
(* outages there were.  Rests on the order of events, on redelivery and on *)
(* the idempotency guard, which must not mistake an unfinished run for a   *)
(* done one.  Not when a restart fell into an outage (EventsSurviveOutage), *)
(* and not for a version above the replay's size limit.                    *)
SettledConsistent ==
    /\ Settled /\ cur \notin scope.oversized /\ scope.agents = {}
    /\ faults = 0 /\ (crashes = 0 \/ flips = 0)
    => DescribesFile

(* The same over a restart during an outage: what the degraded mode        *)
(* promises of the events of a core failover (REPLICATION_FAILOVER.md).    *)
EventsSurviveOutage ==
    Settled /\ cur \notin scope.oversized /\ scope.agents = {} /\ faults = 0
    => DescribesFile

(* A row recorded "indexed" has chunks to find it by, unless the file had  *)
(* a version with nothing to search for, whatever calls raced, failed or   *)
(* were killed on the way, and whatever deletes and erasures came between  *)
(* them: already_indexed is judged from a row read long before it is       *)
(* relied on.  Not when the row was removed in the middle of a call, which *)
(* then records "indexed" of chunks that went with the row (SweepsHeal).   *)
IndexedHasChunks ==
    row.status = "indexed" /\ racing = {} =>
        chunks # 0 \/ \E v \in 1..cur : Dull(v)

(* The two together: what the row says of the file is true, when the loop  *)
(* is done with its events and of the chunks at any time.                  *)
RowsAreTrue == SettledConsistent /\ IndexedHasChunks

(* Whichever of the event loop and POST /convert resolved the current      *)
(* version, and whichever of the two found it already done, somebody told  *)
(* the consumers that wait for it.  Not when a sweep resolved it, nor when *)
(* the call that did was killed before its announcement (EveryResolution-  *)
(* IsAnnounced).                                                           *)
ResolvedIsAnnounced ==
    /\ Settled /\ live = "present" /\ row.version = cur /\ row.status \in Terminal
    /\ scope.agents \cap Sweepers = {} /\ crashes = 0 /\ faults = 0
    => \E a \in announced : a.version = cur

(* The same whichever path resolved it: "A conversion that resolves must   *)
(* say so, whichever path ran it" (api.py).                                *)
EveryResolutionIsAnnounced ==
    Settled /\ live = "present" /\ row.version = cur /\ row.status \in Terminal =>
        \E a \in announced : a.version = cur

(* An erasure that committed while no conversion was in flight is final:   *)
(* no text, no chunks and no row ever come back, whatever is redelivered,  *)
(* swept, requested or crashed afterwards.                                 *)
QuietErasureIsFinal == tomb /\ racing = {} => row = NoRow /\ chunks = 0

(* Compliance is acknowledged to the core only for a file whose derived    *)
(* data was destroyed and whose uid is refused from then on.               *)
ComplianceIsReal == erasure = "complied" => tomb

(* The strengthening under which the two above are inductive: the loop has *)
(* the event it works on, an acknowledgement follows a committed erasure,  *)
(* and whoever is still in flight on an erased file was so when it was     *)
(* erased, because convert refuses to start on a tombstone.                *)
LoopHasEvent == pc[EventLoop] # "idle" => queue # <<>>
AckAfterErase == \A p \in Procs : pc[p] = "ack" => tomb
OnlyRacersInFlight == tomb => \A c \in Converters : pc[c] \in InFlight => c \in racing

ErasureInv ==
    /\ TypeOK
    /\ LoopHasEvent
    /\ AckAfterErase
    /\ OnlyRacersInFlight
    /\ QuietErasureIsFinal
    /\ ComplianceIsReal

(* What needs_conversion promises of a row that is "indexed" without a     *)
(* chunk (reconcile.py: "Cheap to retry, and the alternative is trusting a *)
(* status that the chunk count contradicts"): a sweep's call that records  *)
(* a version with text as indexed, not itself cut by a removal of the row, *)
(* leaves it with chunks.                                                  *)
SweepsHeal ==
    [][\A c \in Sweepers \ racing :
          pc[c] = "final" /\ pc'[c] = "emit" /\ row'.status = "indexed"
            => chunks' # 0 \/ \E v \in 1..cur : Dull(v)]_vars

(* What the code promises of an erasure (schema.py, EVENT_CONTRACT.md):    *)
(* once it is recorded complete, no derived data is left or comes back.    *)
ErasedStaysErased == erasure = "complied" => row.text = 0 /\ chunks = 0

(* What renditions.write promises of its error path: a rendition is        *)
(* retried rather than silently dropped.                                   *)
RenditionsAreComplete ==
    Settled /\ live = "present" /\ row.version = cur /\ row.status \in Terminal =>
        \A f \in Fmts : child[cur][f] # "empty"

(* What emit.py promises of conversion.failed / error: the conversion      *)
(* produced no renditions.                                                 *)
FailedMeansNothingProduced ==
    [][\A a \in announced' \ announced :
          a.type = "error" => \A f \in Fmts : child[a.version][f] # "full"]_vars

(* What EVENT_CONTRACT.md asks of file.updated: stale data is superseded.  *)
StaleTextIsSuperseded ==
    Settled /\ live = "present" /\ row.version = cur /\ row.status \in Terminal =>
        row.text \in {0, cur}

(* What EVENT_CONTRACT.md asks for content state: the newest version wins, *)
(* so a slower call never puts the row back to an older version.           *)
NewestWins ==
    [][row # NoRow /\ row' # NoRow => row'.version >= row.version]_vars

(* What prune_old_versions promises: only SUPERSEDED versions lose their   *)
(* renditions, so a viewable set of the current one always exists.         *)
CurrentRenditionsSurvive ==
    [][\A f \in Fmts : live' # "erased" /\ cur' = cur /\ child[cur][f] = "full"
          => child'[cur][f] = "full"]_vars

(* Every upload is eventually resolved at its version, and every erasure   *)
(* the core records is eventually complied with, event or no event.        *)
EventuallyCurrent ==
    <>[](live = "present" => row.version = cur /\ row.status \in Terminal)

ErasureIsHonoured == erasure = "pending" ~> erasure = "complied"
=============================================================================
