------------------------------- MODULE Ingest -------------------------------
(***************************************************************************)
(* The ingest worker's event loop over the one Redis stream all tenants    *)
(* share: batches read through a consumer group, the pending list of       *)
(* delivered entries not yet acked, the read-only sleep/poll mode and the  *)
(* replay of the pending list after a restart, which may fail or time out  *)
(* half-way.  What handling one message does to a file is module           *)
(* Conversion; here a message only succeeds, is refused by a read-only     *)
(* core, or fails for good.                                                *)
(*                                                                         *)
(* Messages are numbered in stream order.  A batch is held as the set of   *)
(* its messages: the loop takes them oldest first.                         *)
(***************************************************************************)
EXTENDS Naturals, FiniteSets

CONSTANTS
    MaxSent,        \* bound: messages published
    Count,          \* how many messages a read asks for
    MaxCrashes,     \* bound: restarts of the worker
    MaxFlips,       \* bound: changes between writable and read-only core
    MaxFaults       \* bound: reads that time out and drains that fail

ASSUME IngestAssumption ==
    /\ MaxSent \in Nat /\ Count \in Nat \ {0}
    /\ MaxCrashes \in Nat /\ MaxFlips \in Nat /\ MaxFaults \in Nat

Messages == 1..MaxSent

(* "write" needs the core to accept renditions, "local" touches only the   *)
(* database or nothing, "poison" raises whatever the core's state.         *)
Kinds == {"write", "local", "poison"}

VARIABLES
    kind,       \* what handling each message takes (fixed)
    sent,       \* how many were published
    read,       \* the group's last delivered message
    acked,      \* messages acked
    done,       \* messages whose handling succeeded
    phase,      \* "drain" (replaying the pending list) or "run"
    degraded,   \* in read-only sleep/poll mode?
    batch,      \* the rest of the batch in hand
    acking,     \* the message handled and about to be acked, or 0
    stranded,   \* history: pending messages nobody will read before the
                \* next restart or outage (a fault took them off the path)
    readonly,   \* is the core read-only?
    crashes, failovers, faults

workerVars == <<phase, degraded, batch, acking>>
boundVars == <<crashes, failovers, faults>>
vars == <<kind, sent, read, acked, done, workerVars, stranded, readonly, boundVars>>

(* Delivered and not acked: what XREADGROUP with id 0 hands back.          *)
Pending == (1..read) \ acked

(* The oldest Count messages of a set.                                     *)
Oldest(S) == {m \in S : Cardinality({k \in S : k < m}) < Count}

(* The loop is about to handle m.                                          *)
UpNext(m) == acking = 0 /\ m \in batch /\ \A k \in batch : m <= k

TypeOK ==
    /\ kind \in [Messages -> Kinds]
    /\ sent \in 0..MaxSent
    /\ read \in 0..sent
    /\ acked \subseteq 1..read
    /\ done \subseteq 1..read
    /\ phase \in {"drain", "run"}
    /\ degraded \in BOOLEAN
    /\ batch \subseteq 1..read
    /\ acking \in 0..read
    /\ stranded \subseteq 1..read
    /\ readonly \in BOOLEAN
    /\ crashes \in 0..MaxCrashes
    /\ failovers \in 0..MaxFlips
    /\ faults \in 0..MaxFaults

(* ensure_group has run: the group starts at the stream's tail.            *)
Init ==
    /\ kind \in [Messages -> Kinds]
    /\ sent = 0 /\ read = 0
    /\ acked = {} /\ done = {}
    /\ phase = "drain" /\ degraded = FALSE /\ batch = {} /\ acking = 0
    /\ stranded = {} /\ readonly = FALSE
    /\ crashes = 0 /\ failovers = 0 /\ faults = 0

-----------------------------------------------------------------------------
Emit ==
    /\ sent < MaxSent
    /\ sent' = sent + 1
    /\ UNCHANGED <<kind, read, acked, done, workerVars, stranded, readonly, boundVars>>

Failover ==
    /\ failovers < MaxFlips
    /\ failovers' = failovers + 1
    /\ readonly' = ~readonly
    /\ UNCHANGED <<kind, sent, read, acked, done, workerVars, stranded, crashes, faults>>

Resting == batch = {} /\ acking = 0

Replaying == phase = "drain" \/ degraded

(* read_pending: while draining, or while degraded.                        *)
ReadPending ==
    /\ Resting /\ Replaying
    /\ Pending # {}
    /\ batch' = Oldest(Pending)
    /\ UNCHANGED <<kind, sent, read, acked, done, phase, degraded, acking,
                   stranded, readonly, boundVars>>

(* The drain or the degraded mode ends, and new entries are read.          *)
BackToNormal ==
    /\ phase' = "run"
    /\ degraded' = FALSE
    /\ batch' = {} /\ acking' = 0
    /\ UNCHANGED <<kind, sent, read, acked, done, readonly, crashes, failovers>>

(* Mutant: leave the mode after one look at the pending list.              *)
StopReplayingEarly ==
    /\ Resting /\ Replaying
    /\ BackToNormal
    /\ UNCHANGED <<stranded, faults>>

PendingCleared ==
    /\ Resting /\ Replaying
    /\ Pending = {}
    /\ BackToNormal
    /\ UNCHANGED <<stranded, faults>>

Strand(S) ==
    /\ faults < MaxFaults
    /\ faults' = faults + 1
    /\ stranded' = stranded \cup S

(* read_pending answers [] to a socket timeout, which reads the same as an *)
(* empty pending list.                                                     *)
PendingTimesOut ==
    /\ Resting /\ Replaying
    /\ BackToNormal
    /\ Strand(Pending)

(* A Redis error in the drain, reading or acking (whether the ack took     *)
(* effect or not), is caught by run_forever, which goes on to new entries. *)
DrainFails ==
    /\ phase = "drain"
    /\ BackToNormal
    /\ Strand(Pending)

(* XREADGROUP with ">" delivers the next entries never delivered to the    *)
(* group.                                                                  *)
TakeNew ==
    /\ Resting /\ ~Replaying
    /\ read < sent
    /\ read' = IF read + Count < sent THEN read + Count ELSE sent
    /\ UNCHANGED <<kind, sent, acked, done, phase, degraded, acking, readonly,
                   crashes, failovers>>

ReadNew ==
    /\ TakeNew
    /\ batch' = (read + 1)..read'
    /\ UNCHANGED <<stranded, faults>>

(* They are delivered and the answer does not arrive in time: read says [],*)
(* and nothing reads them again before the pending list is replayed.       *)
ReadTimesOut ==
    /\ TakeNew
    /\ batch' = {}
    /\ Strand((read + 1)..read')

(* Conversion is idempotent: a message already done writes nothing.        *)
WriteRefused(m) == kind[m] = "write" /\ readonly /\ m \notin done

(* handle returned, or raised an error that is logged and swallowed; while *)
(* draining that includes the refusal.                                     *)
Handle ==
    /\ \E m \in batch :
         /\ UpNext(m)
         /\ ~WriteRefused(m) \/ phase = "drain"
         /\ acking' = m
         /\ done' = IF kind[m] = "poison" \/ WriteRefused(m) THEN done ELSE done \cup {m}
    /\ UNCHANGED <<kind, sent, read, acked, phase, degraded, batch, stranded,
                   readonly, boundVars>>

(* Mutant: a refused message is acked like a failed one.                   *)
PauseAcks ==
    /\ phase = "run"
    /\ \E m \in batch : UpNext(m) /\ WriteRefused(m) /\ acking' = m
    /\ UNCHANGED <<kind, sent, read, acked, done, phase, degraded, batch,
                   stranded, readonly, boundVars>>

(* WriteUnavailableError: this message and the rest of the batch stay      *)
(* pending, and the loop sleeps before it polls the pending list, which    *)
(* brings back what was stranded.                                          *)
Pause ==
    /\ phase = "run"
    /\ \E m \in batch : UpNext(m) /\ WriteRefused(m)
    /\ degraded' = TRUE
    /\ batch' = {}
    /\ stranded' = {}
    /\ UNCHANGED <<kind, sent, read, acked, done, phase, acking, readonly,
                   boundVars>>

Ack ==
    /\ acking # 0
    /\ acked' = acked \cup {acking}
    /\ batch' = batch \ {acking}
    /\ acking' = 0
    /\ UNCHANGED <<kind, sent, read, done, phase, degraded, stranded, readonly,
                   boundVars>>

(* Killed, or a Redis error escaped run_once: the process starts again and *)
(* drains the pending list, all of it.                                     *)
Crash ==
    /\ crashes < MaxCrashes
    /\ crashes' = crashes + 1
    /\ phase' = "drain" /\ degraded' = FALSE /\ batch' = {} /\ acking' = 0
    /\ stranded' = {}
    /\ UNCHANGED <<kind, sent, read, acked, done, readonly, failovers, faults>>

-----------------------------------------------------------------------------
Loop == \/ ReadPending \/ PendingCleared \/ PendingTimesOut \/ DrainFails
        \/ ReadNew \/ ReadTimesOut \/ Handle \/ Pause \/ Ack

Next == Emit \/ Failover \/ Loop \/ Crash

Spec == Init /\ [][Next]_vars

(* The loop never stops, and an outage ends.                               *)
FairSpec == Spec /\ WF_vars(Loop) /\ WF_vars(readonly /\ Failover)

-----------------------------------------------------------------------------
(* A message is acked only after every earlier one, those apart that a     *)
(* fault stranded: what was paused on or in flight at a crash is replayed  *)
(* before anything newer is consumed, and what was stranded comes back in  *)
(* its place at the next restart or outage.  Only such a fault can let a   *)
(* file's delete overtake its upload.                                      *)
AcksInOrder == [][\A m \in acked' \ acked : 1..(m - 1) \subseteq acked \cup stranded]_vars

(* What makes that so: the batch is the oldest part of what is pending and *)
(* not stranded and, outside the replaying modes, all of it.               *)
BatchIsOldest == \A m \in batch : \A k \in Pending : k < m => k \in batch \cup stranded

OrderInv ==
    /\ TypeOK
    /\ batch \subseteq Pending \ stranded
    /\ stranded \subseteq Pending
    /\ Replaying => stranded = {}
    /\ ~Replaying => Pending \ stranded \subseteq batch
    /\ acking # 0 => acking \in batch /\ \A k \in batch : acking <= k
    /\ BatchIsOldest

(* The same with no exception: what run_once and drain_pending say of the  *)
(* pending list ("retried before consuming anything new").                 *)
AlwaysInOrder == \A m \in acked : \A k \in 1..m : k \in acked

(* While the worker is not restarted no message that needs the core to be  *)
(* writable is acked before it was carried out, however long the outage    *)
(* and whatever read times out or drain fails.                             *)
OutageDropsNothing ==
    crashes = 0 => \A m \in acked : kind[m] = "write" => m \in done

(* Every message published is eventually acked, or left by a fault for the *)
(* next restart or outage: a redelivery, a poison message, a crash or an   *)
(* outage alone never keeps one from being settled.                        *)
EventuallyAcked ==
    \A m \in Messages : m <= sent ~> m \in acked \cup stranded

(* The loop is an in-order, at-least-once consumer that sets a message     *)
(* aside only at a fault and takes all of them back: nothing else is       *)
(* carried out or acked before everything published earlier.               *)
Consumer == INSTANCE OrderedConsumer WITH settled <- acked, aside <- stranded
ImplementsConsumer == Consumer!Spec
=============================================================================
