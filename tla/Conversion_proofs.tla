------------------------- MODULE Conversion_proofs -------------------------
(***************************************************************************)
(* What Conversion guarantees for every set of sweeps and requests, every  *)
(* number of versions and every bound: type correctness; that an erasure   *)
(* is acknowledged only after it happened and is final for every           *)
(* conversion that was not already in flight when it committed; that the   *)
(* row an undisturbed event loop leaves behind describes the file, and an  *)
(* indexed one has its chunks; and that what is resolved is announced.     *)
(***************************************************************************)
EXTENDS Conversion, TLAPS, SequenceTheorems

(* Who is who.                                                             *)
LEMMA Cast ==
    /\ EventLoop \in Converters
    /\ Eraser \notin Converters
    /\ Procs = Converters \cup {Eraser}
    /\ EventLoop \notin Sweepers \cup OnDemand
  BY ProcAssumption DEF Converters, Procs

(* The empty locals are locals.                                            *)
LEMMA NoFrameIsFrame == NoFrame \in Frames
  BY MaxVersionAssumption DEF NoFrame, Frames, Versions, Statuses

(* The missing row is a row.                                               *)
LEMMA NoRowIsRow == NoRow \in Rows /\ 0 \in 0..MaxVersion
  <1>1. 0 \in 0..MaxVersion
    BY MaxVersionAssumption
  <1> QED
    BY <1>1 DEF NoRow, Rows, Statuses

-----------------------------------------------------------------------------
(* The initial state has every variable in its type.                       *)
LEMMA InitTypeOK == Init => TypeOK
  <1> SUFFICES ASSUME Init PROVE TypeOK
    OBVIOUS
  <1>1. StoreTypeOK
    BY NoRowIsRow DEF Init, StoreInit, StoreTypeOK
  <1>2. CoreTypeOK
    <2>1. 1 \in Versions /\ scope.kinds \subseteq AllKinds
      BY MaxVersionAssumption, DataAssumption DEF Init, Versions
    <2>2. child \in [Versions -> [Fmts -> {"absent", "empty", "full"}]]
      BY DEF Init, NoChildren
    <2> QED
      BY <2>1, <2>2 DEF Init, CoreTypeOK
  <1>3. StreamTypeOK
    <2>1. queue \in Seq({"changed", "deleted", "erased"})
      BY DEF Init
    <2> QED
      BY <2>1 DEF Init, StreamTypeOK
  <1>4. ProcTypeOK
    BY NoFrameIsFrame DEF Init, ProcTypeOK, Steps
  <1>5. BoundTypeOK
    BY DEF Init, BoundTypeOK
  <1> QED
    BY <1>1, <1>2, <1>3, <1>4, <1>5 DEF TypeOK

(* What a step that leaves a group of variables alone keeps of it.         *)
LEMMA Kept ==
    /\ StoreTypeOK /\ UNCHANGED storeVars => StoreTypeOK'
    /\ CoreTypeOK /\ UNCHANGED coreVars => CoreTypeOK'
    /\ StreamTypeOK /\ UNCHANGED streamVars => StreamTypeOK'
    /\ ProcTypeOK /\ UNCHANGED <<pc, frame, racing>> => ProcTypeOK'
    /\ BoundTypeOK /\ UNCHANGED boundVars => BoundTypeOK'
  BY DEF StoreTypeOK, CoreTypeOK, StreamTypeOK, ProcTypeOK, BoundTypeOK,
         storeVars, coreVars, streamVars, boundVars

(* The helpers a process moves with.                                       *)
LEMMA Moves ==
  ASSUME ProcTypeOK, UNCHANGED racing, NEW p \in Procs, NEW step \in Steps,
         \/ Advance(p, step)
         \/ Leave(p, step)
         \/ Goto(p, step) /\ \E g \in Frames : frame' = [frame EXCEPT ![p] = g]
  PROVE  ProcTypeOK'
  BY NoFrameIsFrame DEF ProcTypeOK, Advance, Leave, Goto

LEMMA Returns ==
  ASSUME ProcTypeOK, UNCHANGED racing, NEW p \in Procs, Return(p)
  PROVE  ProcTypeOK'
  BY Moves DEF Return, Steps

(* An upsert of well-typed arguments leaves a well-typed row.              *)
LEMMA UpsertTyped ==
  ASSUME StoreTypeOK, NEW v \in Versions, NEW s \in Statuses,
         NEW t \in 0..MaxVersion, Upsert(v, s, t)
  PROVE  StoreTypeOK'
  <1>1. row.text \in 0..MaxVersion /\ v \in 0..MaxVersion
    BY MaxVersionAssumption DEF StoreTypeOK, Rows, Versions
  <1> QED
    BY <1>1 DEF Upsert, StoreTypeOK, Rows

(* The locals of a call of convert.                                        *)
LEMMA FrameFields ==
  ASSUME ProcTypeOK, NEW c \in Procs
  PROVE  /\ frame[c] \in Frames
         /\ frame[c].ver \in Versions /\ frame[c].got \in Versions
         /\ frame[c].got \in 0..MaxVersion
         /\ frame[c].result \in Statuses /\ frame[c].reuse \in BOOLEAN
         /\ frame[c].todo \subseteq Fmts /\ frame[c].open \subseteq Fmts
  <1>1. frame[c] \in Frames
    BY DEF ProcTypeOK
  <1> QED
    BY <1>1, MaxVersionAssumption DEF Frames, Versions

LEMMA FaultSpent ==
  ASSUME BoundTypeOK, SpendFault \/ UNCHANGED faults,
         UNCHANGED <<scope, crashes, flips, deletes>>
  PROVE  BoundTypeOK'
  BY DEF BoundTypeOK, SpendFault

(* The children after one of them changed state.                           *)
LEMMA ChildTyped ==
  ASSUME CoreTypeOK, NEW v \in Versions, NEW f \in Fmts,
         NEW s \in {"absent", "empty", "full"},
         child' = [child EXCEPT ![v][f] = s],
         UNCHANGED <<cur, kind, live, readonly, erasure>>
  PROVE  CoreTypeOK'
  BY DEF CoreTypeOK

-----------------------------------------------------------------------------
(* Every step of a conversion keeps the types: it moves one process and    *)
(* changes one table, child or announcement.                               *)
LEMMA ConvertTypeOK ==
  ASSUME TypeOK, NEW c \in Converters, Convert(c) \/ Fault(c)
  PROVE  TypeOK'
  <1> USE DEF TypeOK
  <1>0. c \in Procs
    BY Cast
  <1>1. CASE ListRow(c)
    <2>1. ProcTypeOK'
      BY <1>0, <1>1, Moves, Returns DEF ListRow, aroundVars, Steps
    <2> QED
      BY <1>1, <2>1, Kept, FaultSpent DEF ListRow, storeVars, aroundVars, coreVars, streamVars, boundVars
  <1>2. CASE Begin(c)
    <2>1. ProcTypeOK'
      BY <1>0, <1>2, Moves, Returns DEF Begin, aroundVars, Steps
    <2>2. StreamTypeOK'
      BY <1>2 DEF Begin, StreamTypeOK, aroundVars
    <2> QED
      BY <1>2, <2>1, <2>2, Kept DEF Begin, storeVars, aroundVars, coreVars, streamVars, boundVars
  <1>3. CASE Stat(c)
    <2>1. ProcTypeOK'
      <3>1. [frame[c] EXCEPT !.ver = cur] \in Frames
        BY <1>0, FrameFields DEF Frames, CoreTypeOK
      <3> QED
        BY <1>0, <1>3, <3>1, Moves, Returns DEF Stat, aroundVars, Steps
    <2> QED
      BY <1>3, <2>1, Kept, FaultSpent DEF Stat, storeVars, aroundVars, coreVars, streamVars, boundVars
  <1>4. CASE GetStatus(c)
    <2>1. ProcTypeOK'
      <3>1. [frame[c] EXCEPT !.reuse = (SameVersion(c) /\ row.status = "indexed")] \in Frames
        BY <1>0, FrameFields DEF Frames
      <3> QED
        BY <1>0, <1>4, <3>1, Moves, Returns DEF GetStatus, aroundVars, Steps
    <2> QED
      BY <1>4, <2>1, Kept, FaultSpent DEF GetStatus, storeVars, aroundVars, coreVars, streamVars, boundVars
  <1>5. CASE Fetch(c)
    <2>1. ProcTypeOK'
      <3>1. [frame[c] EXCEPT !.got = cur] \in Frames
        BY <1>0, FrameFields DEF Frames, CoreTypeOK
      <3> QED
        BY <1>0, <1>5, <3>1, Moves, Returns DEF Fetch, aroundVars, Steps
    <2> QED
      BY <1>5, <2>1, Kept, FaultSpent DEF Fetch, storeVars, aroundVars, coreVars, streamVars, boundVars
  <1>6. CASE MarkConverting(c)
    <2>1. ProcTypeOK'
      BY <1>0, <1>6, Moves DEF MarkConverting, aroundVars, Steps
    <2>2. StoreTypeOK'
      BY <1>0, <1>6, UpsertTyped, FrameFields, NoRowIsRow DEF MarkConverting, Statuses
    <2> QED
      BY <1>6, <2>1, <2>2, Kept DEF MarkConverting, storeVars, aroundVars, coreVars, streamVars, boundVars
  <1>7. CASE Unsupported(c)
    <2>1. ProcTypeOK'
      <3>1. [frame[c] EXCEPT !.result = "unsupported"] \in Frames
        BY <1>0, FrameFields DEF Frames, Statuses
      <3> QED
        BY <1>0, <1>7, <3>1, Moves DEF Unsupported, aroundVars, Steps
    <2>2. StoreTypeOK'
      BY <1>0, <1>7, UpsertTyped, FrameFields, NoRowIsRow DEF Unsupported, Statuses
    <2> QED
      BY <1>7, <2>1, <2>2, Kept DEF Unsupported, storeVars, aroundVars, coreVars, streamVars, boundVars
  <1>8. CASE ListChildren(c)
    <2>1. ProcTypeOK'
      <3>1. [frame[c] EXCEPT !.todo = Missing(c)] \in Frames
        BY <1>0, FrameFields DEF Frames, Missing
      <3> QED
        BY <1>0, <1>8, <3>1, Moves, Returns DEF ListChildren, aroundVars, Steps
    <2> QED
      BY <1>8, <2>1, Kept, FaultSpent DEF ListChildren, storeVars, aroundVars, coreVars, streamVars, boundVars
  <1>9. CASE Touch(c)
    <2>1. PICK f \in frame[c].todo :
              /\ child' = [child EXCEPT ![frame[c].ver][f] = "empty"]
              /\ frame' = [frame EXCEPT ![c].todo = @ \ {f}, ![c].open = {f}]
      BY <1>9 DEF Touch
    <2>2. f \in Fmts
      BY <1>0, FrameFields
    <2>3. ProcTypeOK'
      <3>1. [frame[c] EXCEPT !.todo = @ \ {f}, !.open = {f}] \in Frames
        BY <1>0, <2>2, FrameFields DEF Frames
      <3>2. frame' = [frame EXCEPT ![c] = [frame[c] EXCEPT !.todo = @ \ {f}, !.open = {f}]]
        BY <2>1
      <3> QED
        BY <1>0, <1>9, <3>1, <3>2, Moves DEF Touch, aroundVars, Steps
    <2>4. CoreTypeOK'
      BY <1>0, <1>9, <2>1, <2>2, FrameFields, ChildTyped DEF Touch, aroundVars
    <2> QED
      BY <1>9, <2>3, <2>4, Kept DEF Touch, storeVars, aroundVars, coreVars, streamVars, boundVars
  <1>10. CASE Put(c)
    <2>1. PICK f \in frame[c].open : child' = [child EXCEPT ![frame[c].ver][f] = "full"]
      BY <1>10 DEF Put
    <2>2. ProcTypeOK'
      <3>1. [frame[c] EXCEPT !.open = {}, !.wrote = TRUE] \in Frames
        BY <1>0, FrameFields DEF Frames
      <3>2. frame' = [frame EXCEPT ![c] = [frame[c] EXCEPT !.open = {}, !.wrote = TRUE]]
        BY <1>10 DEF Put
      <3> QED
        BY <1>0, <1>10, <3>1, <3>2, Moves DEF Put, aroundVars, Steps
    <2>3. CoreTypeOK'
      BY <1>0, <1>10, <2>1, FrameFields, ChildTyped DEF Put, aroundVars
    <2> QED
      BY <1>10, <2>2, <2>3, Kept DEF Put, storeVars, aroundVars, coreVars, streamVars, boundVars
  <1>11. CASE WriteDone(c)
    <2>1. ProcTypeOK'
      BY <1>0, <1>11, Moves, Returns DEF WriteDone, aroundVars, Steps
    <2> QED
      BY <1>11, <2>1, Kept, FaultSpent DEF WriteDone, storeVars, aroundVars, coreVars, streamVars, boundVars
  <1>12. CASE Prune(c)
    <2>1. ProcTypeOK'
      BY <1>0, <1>12, Moves DEF Prune, aroundVars, Steps
    <2>2. child' \in [Versions -> [Fmts -> {"absent", "empty", "full"}]]
      BY <1>12 DEF Prune, CoreTypeOK, NoChildren
    <2> QED
      BY <1>12, <2>1, <2>2, Kept DEF Prune, CoreTypeOK, storeVars, aroundVars, coreVars, streamVars, boundVars
  <1>13. CASE SkipIndex(c)
    <2>1. ProcTypeOK'
      <3>1. \A s \in Statuses : Resolve(c, s) => \E g \in Frames : frame' = [frame EXCEPT ![c] = g]
        BY <1>0, FrameFields DEF Resolve, Frames
      <3> QED
        BY <1>0, <1>13, <3>1, Moves DEF SkipIndex, Resolve, aroundVars, Steps, Statuses
    <2> QED
      BY <1>13, <2>1, Kept, FaultSpent DEF SkipIndex, storeVars, aroundVars, coreVars, streamVars, boundVars
  <1>14. CASE Index(c)
    <2>1. ProcTypeOK'
      <3>1. \A s \in Statuses : Resolve(c, s) => \E g \in Frames : frame' = [frame EXCEPT ![c] = g]
        BY <1>0, FrameFields DEF Resolve, Frames
      <3> QED
        BY <1>0, <1>14, <3>1, Moves DEF Index, Resolve, aroundVars, Steps, Statuses
    <2>2. StoreTypeOK'
      <3>1. chunks' \in {0, frame[c].got} /\ UNCHANGED <<row, tomb>>
        BY <1>14 DEF Index, ReplaceChunks, DropChunks
      <3> QED
        BY <1>0, <3>1, FrameFields, NoRowIsRow DEF StoreTypeOK
    <2> QED
      BY <1>14, <2>1, <2>2, Kept DEF Index, storeVars, aroundVars, coreVars, streamVars, boundVars
  <1>15. CASE IndexFails(c)
    <2>1. ProcTypeOK'
      <3>1. \A s \in Statuses : Resolve(c, s) => \E g \in Frames : frame' = [frame EXCEPT ![c] = g]
        BY <1>0, FrameFields DEF Resolve, Frames
      <3> QED
        BY <1>0, <1>15, <3>1, Moves DEF IndexFails, Resolve, aroundVars, Steps, Statuses
    <2> QED
      BY <1>15, <2>1, Kept, FaultSpent DEF IndexFails, storeVars, aroundVars, coreVars, streamVars, boundVars
  <1>16. CASE Record(c)
    <2>1. ProcTypeOK'
      BY <1>0, <1>16, Moves DEF Record, aroundVars, Steps
    <2>2. StoreTypeOK'
      BY <1>0, <1>16, UpsertTyped, FrameFields, NoRowIsRow DEF Record
    <2> QED
      BY <1>16, <2>1, <2>2, Kept DEF Record, storeVars, aroundVars, coreVars, streamVars, boundVars
  <1>17. CASE Emit(c)
    <2>1. ProcTypeOK'
      BY <1>0, <1>17, Returns DEF Emit, aroundVars
    <2>2. StreamTypeOK'
      <3>1. Outcome(c) \in Announcements
        BY <1>0, FrameFields DEF Outcome, Announcements
      <3> QED
        BY <1>17, <3>1 DEF Emit, StreamTypeOK, aroundVars
    <2> QED
      BY <1>17, <2>1, <2>2, Kept DEF Emit, storeVars, aroundVars, coreVars, streamVars, boundVars
  <1>18. CASE WriteRefused(c)
    <2>1. ProcTypeOK'
      BY <1>0, <1>18, Moves, Returns DEF WriteRefused, aroundVars, Steps
    <2> QED
      BY <1>18, <2>1, Kept, FaultSpent DEF WriteRefused, storeVars, aroundVars, coreVars, streamVars, boundVars
  <1>19. CASE CoreRefuses(c)
    <2>1. ProcTypeOK'
      BY <1>0, <1>19, Moves, Returns DEF CoreRefuses, aroundVars, Steps
    <2> QED
      BY <1>19, <2>1, Kept, FaultSpent DEF CoreRefuses, storeVars, aroundVars, coreVars, streamVars, boundVars
  <1>20. CASE Fault(c)
    <2>1. ProcTypeOK'
      BY <1>0, <1>20, Moves, Returns DEF Fault, aroundVars, Steps
    <2> QED
      BY <1>20, <2>1, Kept, FaultSpent DEF Fault, storeVars, aroundVars, coreVars, streamVars, boundVars
  <1> QED
    BY <1>1, <1>2, <1>3, <1>4, <1>5, <1>6, <1>7, <1>8, <1>9, <1>10, <1>11, <1>12, <1>13, <1>14, <1>15, <1>16, <1>17, <1>18, <1>19, <1>20 DEF Convert

LEMMA ErasingTypeOK ==
  ASSUME TypeOK, NEW p \in {EventLoop, Eraser}, Erasing(p)
  PROVE  TypeOK'
  <1> USE DEF TypeOK
  <1>0. p \in Procs
    BY Cast
  <1>1. CASE HonourErasure(p)
    <2>1. ProcTypeOK'
      <3>1. /\ racing' = {c \in Converters : pc[c] \in InFlight}
            /\ pc' = [pc EXCEPT ![p] = "ack"]
            /\ frame' = frame
        BY <1>1 DEF HonourErasure, Advance, Goto
      <3>2. racing' \subseteq Procs
        BY <3>1, Cast
      <3> QED
        BY <1>0, <3>1, <3>2 DEF ProcTypeOK, Steps
    <2>2. StoreTypeOK'
      BY <1>1, NoRowIsRow DEF HonourErasure, EraseDocument, StoreTypeOK
    <2>3. StreamTypeOK'
      BY <1>1 DEF HonourErasure, StreamTypeOK
    <2> QED
      BY <1>1, <2>1, <2>2, <2>3, Kept DEF HonourErasure
  <1>2. CASE EraseFails(p)
    <2>1. ProcTypeOK'
      BY <1>0, <1>2, Returns DEF EraseFails, aroundVars
    <2>2. StreamTypeOK'
      BY <1>2 DEF EraseFails, StreamTypeOK, aroundVars
    <2> QED
      BY <1>2, <2>1, <2>2, Kept, FaultSpent DEF EraseFails, storeVars, aroundVars, coreVars
  <1>3. CASE Acknowledge(p)
    <2>1. ProcTypeOK'
      BY <1>0, <1>3, Returns DEF Acknowledge
    <2>2. CoreTypeOK'
      BY <1>3 DEF Acknowledge, CoreTypeOK
    <2> QED
      BY <1>3, <2>1, <2>2, Kept, FaultSpent DEF Acknowledge
  <1> QED
    BY <1>1, <1>2, <1>3 DEF Erasing

(* No step takes a variable out of its type.                               *)
LEMMA NextTypeOK == TypeOK /\ LoopHasEvent /\ [Next]_vars => TypeOK'
  <1> SUFFICES ASSUME TypeOK, LoopHasEvent, [Next]_vars PROVE TypeOK'
    OBVIOUS
  <1> USE DEF TypeOK
  <1>1. CASE Upload
    <2>1. CoreTypeOK'
      <3>1. cur' \in Versions
        BY <1>1, MaxVersionAssumption, DataAssumption
           DEF Upload, CoreTypeOK, BoundTypeOK, Versions
      <3> QED
        BY <1>1, <3>1 DEF Upload, CoreTypeOK
    <2>2. StreamTypeOK'
      BY <1>1 DEF Upload, Publish, StreamTypeOK
    <2> QED
      BY <1>1, <2>1, <2>2, Kept DEF Upload
  <1>2. CASE SoftDelete
    <2>1. CoreTypeOK'
      BY <1>2 DEF SoftDelete, CoreTypeOK
    <2>2. StreamTypeOK'
      BY <1>2 DEF SoftDelete, Publish, StreamTypeOK
    <2>3. BoundTypeOK'
      BY <1>2 DEF SoftDelete, BoundTypeOK
    <2> QED
      BY <1>2, <2>1, <2>2, <2>3, Kept DEF SoftDelete
  <1>3. CASE Restore
    <2>1. CoreTypeOK'
      BY <1>3 DEF Restore, CoreTypeOK
    <2>2. StreamTypeOK'
      BY <1>3 DEF Restore, Publish, StreamTypeOK
    <2> QED
      BY <1>3, <2>1, <2>2, Kept DEF Restore
  <1>4. CASE CoreErase
    <2>1. child' \in [Versions -> [Fmts -> {"absent", "empty", "full"}]]
      BY <1>4 DEF CoreErase, NoChildren
    <2>2. CoreTypeOK'
      BY <1>4, <2>1 DEF CoreErase, CoreTypeOK
    <2>3. StreamTypeOK'
      BY <1>4 DEF CoreErase, Publish, StreamTypeOK
    <2> QED
      BY <1>4, <2>2, <2>3, Kept DEF CoreErase
  <1>5. CASE Failover
    <2>1. CoreTypeOK'
      BY <1>5 DEF Failover, CoreTypeOK
    <2>2. BoundTypeOK'
      BY <1>5 DEF Failover, BoundTypeOK
    <2> QED
      BY <1>5, <2>1, <2>2, Kept DEF Failover
  <1>6. ASSUME NEW c \in Converters, Convert(c) \/ Fault(c) PROVE TypeOK'
    BY <1>6, ConvertTypeOK
  <1>7. CASE HandleDelete
    <2>1. ProcTypeOK'
      <3>1. /\ racing' = {c \in Converters : pc[c] \in InFlight}
            /\ pc' = [pc EXCEPT ![EventLoop] = "done"]
            /\ frame' = frame
        BY <1>7 DEF HandleDelete, Advance, Goto
      <3>2. racing' \subseteq Procs
        BY <3>1, Cast
      <3> QED
        BY <3>1, <3>2, Cast DEF ProcTypeOK, Steps
    <2>2. StoreTypeOK'
      BY <1>7, NoRowIsRow DEF HandleDelete, DeleteRow, StoreTypeOK
    <2>3. StreamTypeOK'
      BY <1>7 DEF HandleDelete, StreamTypeOK
    <2> QED
      BY <1>7, <2>1, <2>2, <2>3, Kept DEF HandleDelete
  <1>8. CASE Ack
    <2>1. ProcTypeOK'
      BY <1>8, Cast, Moves DEF Ack, Steps
    <2>2. queue # <<>>
      BY <1>8 DEF Ack, LoopHasEvent
    <2>3. queue' \in Seq({"changed", "deleted", "erased"})
      BY <1>8, <2>2, HeadTailProperties DEF Ack, StreamTypeOK
    <2>4. StreamTypeOK'
      BY <1>8, <2>3 DEF Ack, StreamTypeOK
    <2> QED
      BY <1>8, <2>1, <2>4, Kept DEF Ack
  <1>9. ASSUME NEW p \in {EventLoop, Eraser}, Erasing(p) PROVE TypeOK'
    BY <1>9, ErasingTypeOK
  <1>10. CASE Crash
    <2>1. ProcTypeOK'
      BY <1>10, NoFrameIsFrame DEF Crash, ProcTypeOK, Steps
    <2>2. StreamTypeOK'
      BY <1>10 DEF Crash, StreamTypeOK
    <2>3. BoundTypeOK'
      BY <1>10 DEF Crash, BoundTypeOK
    <2> QED
      BY <1>10, <2>1, <2>2, <2>3, Kept DEF Crash
  <1>11. CASE UNCHANGED vars
    BY <1>11, Kept DEF vars, coreVars, streamVars, boundVars, storeVars
  <1> QED
    BY <1>1, <1>2, <1>3, <1>4, <1>5, <1>6, <1>7, <1>8, <1>9, <1>10, <1>11 DEF Next

-----------------------------------------------------------------------------
(* What a step of a conversion can do to an erased file: it never   *)
(* touches the tombstone, only a call already in flight writes to the      *)
(* store, and none takes off past the refusal.                             *)
Tame(c) ==
    /\ UNCHANGED <<tomb, erasure, racing, queue>>
    /\ UNCHANGED storeVars \/ pc[c] \in InFlight
    /\ \E step \in Steps \ {"ack"} :
         /\ pc' = [pc EXCEPT ![c] = step]
         /\ step \in InFlight => pc[c] \in InFlight \/ ~tomb
         /\ c = EventLoop /\ pc[c] = "idle" => queue # <<>>

LEMMA ConvertIsTame ==
  ASSUME NEW c \in Converters, Convert(c) \/ Fault(c)
  PROVE  Tame(c)
  <1> USE DEF Tame, Steps, InFlight, aroundVars
  <1>0. c \notin Sweepers \cup OnDemand => c = EventLoop
    BY DEF Converters
  <1>00. EventLoop \notin Sweepers \cup OnDemand
    BY Cast
  <1>1. CASE ListRow(c)
    BY <1>1, <1>0, <1>00 DEF ListRow, Advance, Goto, storeVars
  <1>2. CASE Begin(c)
    BY <1>2, <1>0, <1>00 DEF Begin, HeadIs, Return, Leave, Advance, Goto, storeVars
  <1>3. CASE Stat(c)
    BY <1>3 DEF Stat, Goto, Return, Leave, storeVars
  <1>4. CASE GetStatus(c)
    BY <1>4 DEF GetStatus, Goto, Return, Leave, storeVars
  <1>5. CASE Fetch(c)
    BY <1>5 DEF Fetch, Goto, Return, Leave, storeVars
  <1>6. CASE MarkConverting(c)
    BY <1>6 DEF MarkConverting, Upsert, Advance, Goto
  <1>7. CASE Unsupported(c)
    BY <1>7 DEF Unsupported, Upsert, Goto
  <1>8. CASE ListChildren(c)
    BY <1>8 DEF ListChildren, Goto, storeVars
  <1>9. CASE Touch(c)
    BY <1>9 DEF Touch, Goto, storeVars
  <1>10. CASE Put(c)
    BY <1>10 DEF Put, Goto, storeVars
  <1>11. CASE WriteDone(c)
    BY <1>11 DEF WriteDone, Advance, Goto, storeVars
  <1>12. CASE Prune(c)
    BY <1>12 DEF Prune, Advance, Goto, storeVars
  <1>13. CASE SkipIndex(c)
    BY <1>13 DEF SkipIndex, Resolve, Goto, storeVars
  <1>14. CASE Index(c)
    BY <1>14 DEF Index, ReplaceChunks, DropChunks, Resolve, Goto
  <1>15. CASE IndexFails(c)
    BY <1>15 DEF IndexFails, Resolve, Goto, storeVars
  <1>16. CASE Record(c)
    BY <1>16 DEF Record, Upsert, Advance, Goto
  <1>17. CASE Emit(c)
    BY <1>17 DEF Emit, Return, Leave, Goto, storeVars
  <1>18. CASE WriteRefused(c)
    BY <1>18 DEF WriteRefused, Leave, Goto, storeVars
  <1>19. CASE CoreRefuses(c)
    BY <1>19 DEF CoreRefuses, Return, Leave, Goto, storeVars
  <1>20. CASE Fault(c)
    BY <1>20 DEF Fault, Return, Leave, Goto, storeVars
  <1> QED
    BY <1>1, <1>2, <1>3, <1>4, <1>5, <1>6, <1>7, <1>8, <1>9, <1>10, <1>11, <1>12, <1>13, <1>14, <1>15, <1>16, <1>17, <1>18, <1>19, <1>20 DEF Convert

-----------------------------------------------------------------------------
(* ErasureInv is inductive.                                               *)
LEMMA InitErasureInv == Init => ErasureInv
  <1> SUFFICES ASSUME Init PROVE ErasureInv
    OBVIOUS
  <1>1. \A p \in Procs : pc[p] = "idle"
    BY DEF Init
  <1>2. tomb = FALSE /\ erasure = "none"
    BY DEF Init, StoreInit
  <1> QED
    BY <1>1, <1>2, InitTypeOK, Cast
       DEF ErasureInv, LoopHasEvent, AckAfterErase, OnlyRacersInFlight,
           QuietErasureIsFinal, ComplianceIsReal

(* A step of a conversion keeps the erasure invariant.                     *)
LEMMA ConvertErasureInv ==
  ASSUME ErasureInv, TypeOK', NEW c \in Converters, Convert(c) \/ Fault(c)
  PROVE  ErasureInv'
  <1> USE DEF ErasureInv
  <1>1. Tame(c)
    BY ConvertIsTame
  <1>2. PICK step \in Steps \ {"ack"} :
           /\ pc' = [pc EXCEPT ![c] = step]
           /\ step \in InFlight => pc[c] \in InFlight \/ ~tomb
           /\ c = EventLoop /\ pc[c] = "idle" => queue # <<>>
    BY <1>1 DEF Tame
  <1>3. c \in Procs /\ pc \in [Procs -> Steps]
    BY Cast DEF TypeOK, ProcTypeOK
  <1>4. UNCHANGED <<tomb, erasure, racing, queue>>
    BY <1>1 DEF Tame
  <1>5. LoopHasEvent'
    BY <1>2, <1>3, <1>4, Cast DEF LoopHasEvent
  <1>6. AckAfterErase'
    BY <1>2, <1>3, <1>4 DEF AckAfterErase
  <1>7. OnlyRacersInFlight'
    BY <1>2, <1>3, <1>4, Cast DEF OnlyRacersInFlight
  <1>8. QuietErasureIsFinal'
    BY <1>1, <1>4 DEF Tame, OnlyRacersInFlight, QuietErasureIsFinal, storeVars
  <1>9. ComplianceIsReal'
    BY <1>4 DEF ComplianceIsReal
  <1> QED
    BY <1>5, <1>6, <1>7, <1>8, <1>9

(* So does a step of the event loop or the sweeper that erases.            *)
LEMMA ErasingErasureInv ==
  ASSUME ErasureInv, TypeOK', NEW p \in {EventLoop, Eraser}, Erasing(p)
  PROVE  ErasureInv'
  <1> USE DEF ErasureInv
  <1>0. p \in Procs /\ pc \in [Procs -> Steps]
    BY Cast DEF TypeOK, ProcTypeOK
  <1>1. CASE HonourErasure(p)
    <2>1. /\ pc' = [pc EXCEPT ![p] = "ack"] /\ UNCHANGED queue
          /\ tomb' /\ row' = NoRow /\ chunks' = 0
          /\ racing' = {c \in Converters : pc[c] \in InFlight}
          /\ p = EventLoop => queue # <<>>
      BY <1>1, Cast DEF HonourErasure, EraseDocument, Advance, Goto, MayErase, HeadIs
    <2>2. LoopHasEvent'
      BY <1>0, <2>1, Cast DEF LoopHasEvent
    <2>3. OnlyRacersInFlight'
      BY <1>0, <2>1, Cast DEF OnlyRacersInFlight, InFlight
    <2> QED
      BY <2>1, <2>2, <2>3 DEF AckAfterErase, QuietErasureIsFinal, ComplianceIsReal
  <1>2. CASE EraseFails(p)
    <2>1. /\ pc' = [pc EXCEPT ![p] = IF p = EventLoop THEN "done" ELSE "idle"]
          /\ UNCHANGED <<tomb, erasure, racing, queue, row, chunks>>
          /\ p = EventLoop => queue # <<>>
      BY <1>2, Cast DEF EraseFails, Return, Leave, Goto, MayErase, HeadIs,
                        aroundVars, storeVars
    <2>2. LoopHasEvent'
      BY <1>0, <2>1, Cast DEF LoopHasEvent
    <2>3. OnlyRacersInFlight'
      BY <1>0, <2>1, Cast DEF OnlyRacersInFlight, InFlight
    <2>4. AckAfterErase'
      BY <1>0, <2>1 DEF AckAfterErase
    <2> QED
      BY <2>1, <2>2, <2>3, <2>4 DEF QuietErasureIsFinal, ComplianceIsReal
  <1>3. CASE Acknowledge(p)
    <2>1. /\ pc[p] = "ack"
          /\ pc' = [pc EXCEPT ![p] = IF p = EventLoop THEN "done" ELSE "idle"]
          /\ UNCHANGED <<tomb, racing, queue, row, chunks>>
      BY <1>3 DEF Acknowledge, Return, Leave, Goto, streamVars, storeVars
    <2>2. tomb /\ tomb'
      BY <1>0, <2>1 DEF AckAfterErase
    <2>3. LoopHasEvent'
      BY <1>0, <2>1, Cast DEF LoopHasEvent
    <2>4. OnlyRacersInFlight'
      BY <1>0, <2>1, Cast DEF OnlyRacersInFlight, InFlight
    <2> QED
      BY <2>1, <2>2, <2>3, <2>4 DEF AckAfterErase, QuietErasureIsFinal, ComplianceIsReal
  <1> QED
    BY <1>1, <1>2, <1>3 DEF Erasing

LEMMA NextErasureInv == ErasureInv /\ [Next]_vars => ErasureInv'
  <1> SUFFICES ASSUME ErasureInv, [Next]_vars PROVE ErasureInv'
    OBVIOUS
  <1> USE DEF ErasureInv
  <1>0. TypeOK'
    BY NextTypeOK
  <1>00. pc \in [Procs -> Steps] /\ queue \in Seq({"changed", "deleted", "erased"})
    BY DEF TypeOK, ProcTypeOK, StreamTypeOK
  <1>1. ASSUME UNCHANGED <<storeVars, pc, racing>>,
               erasure' # "complied" \/ UNCHANGED erasure,
               UNCHANGED queue \/ \E e : queue' = Append(queue, e)
        PROVE  ErasureInv'
    <2>1. LoopHasEvent'
      <3>1. \A e : Append(queue, e) # <<>>
        BY <1>00, AppendProperties
      <3> QED
        BY <1>1, <3>1 DEF LoopHasEvent
    <2> QED
      BY <1>0, <1>1, <2>1 DEF AckAfterErase, OnlyRacersInFlight,
           QuietErasureIsFinal, ComplianceIsReal, storeVars
  <1>2. CASE Upload \/ SoftDelete \/ Restore
    BY <1>1, <1>2 DEF Upload, SoftDelete, Restore, Publish
  <1>3. CASE CoreErase
    BY <1>1, <1>3 DEF CoreErase, Publish
  <1>4. CASE Failover
    BY <1>1, <1>4 DEF Failover, streamVars
  <1>5. ASSUME NEW c \in Converters, Convert(c) \/ Fault(c) PROVE ErasureInv'
    BY <1>0, <1>5, ConvertErasureInv
  <1>6. CASE HandleDelete
    <2>1. /\ pc' = [pc EXCEPT ![EventLoop] = "done"] /\ queue # <<>>
          /\ row' = NoRow /\ chunks' = 0
          /\ racing' = {c \in Converters : pc[c] \in InFlight}
          /\ UNCHANGED <<tomb, erasure, queue>>
      BY <1>6 DEF HandleDelete, DeleteRow, HeadIs, Advance, Goto, coreVars
    <2> QED
      BY <1>0, <1>00, <2>1, Cast
         DEF LoopHasEvent, AckAfterErase, OnlyRacersInFlight, InFlight,
             QuietErasureIsFinal, ComplianceIsReal
  <1>7. CASE Ack
    <2>1. /\ pc' = [pc EXCEPT ![EventLoop] = "idle"]
          /\ UNCHANGED <<tomb, erasure, racing, row, chunks>>
      BY <1>7 DEF Ack, Advance, Goto, storeVars, coreVars
    <2> QED
      BY <1>0, <1>00, <2>1, Cast
         DEF LoopHasEvent, AckAfterErase, OnlyRacersInFlight, InFlight,
             QuietErasureIsFinal, ComplianceIsReal
  <1>8. ASSUME NEW p \in {EventLoop, Eraser}, Erasing(p) PROVE ErasureInv'
    BY <1>0, <1>8, ErasingErasureInv
  <1>9. CASE Crash
    <2>1. /\ \A p \in Procs : pc'[p] \in {"idle", pc[p]}
          /\ UNCHANGED <<tomb, erasure, racing, row, chunks, queue>>
      BY <1>9 DEF Crash, storeVars, coreVars
    <2> QED
      BY <1>0, <2>1, Cast
         DEF LoopHasEvent, AckAfterErase, OnlyRacersInFlight, InFlight,
             QuietErasureIsFinal, ComplianceIsReal
  <1>10. CASE UNCHANGED vars
    BY <1>1, <1>10 DEF vars, coreVars, streamVars
  <1> QED
    BY <1>2, <1>3, <1>4, <1>5, <1>6, <1>7, <1>8, <1>9, <1>10 DEF Next

(* The erasure invariant of every reachable state.                         *)
THEOREM ErasureInvariant == Spec => []ErasureInv
  BY InitErasureInv, NextErasureInv, PTL DEF Spec

(* Every reachable state is well typed.                                    *)
THEOREM TypeCorrect == Spec => []TypeOK
  <1>1. ErasureInv => TypeOK
    BY DEF ErasureInv
  <1> QED
    BY <1>1, ErasureInvariant, PTL

(* The core is told of a completed erasure only when the data is gone and  *)
(* the uid refused.                                                        *)
THEOREM ComplianceReal == Spec => []ComplianceIsReal
  <1>1. ErasureInv => ComplianceIsReal
    BY DEF ErasureInv
  <1> QED
    BY <1>1, ErasureInvariant, PTL

(* An erasure no conversion was in flight across is final.                 *)
THEOREM QuietErasureFinal == Spec => []QuietErasureIsFinal
  <1>1. ErasureInv => QuietErasureIsFinal
    BY DEF ErasureInv
  <1> QED
    BY <1>1, ErasureInvariant, PTL

-----------------------------------------------------------------------------
(* A row that says "indexed" has chunks.  A call that relies on the index  *)
(* has read such a row, or has written the chunks itself; only a removal   *)
(* of the row takes chunks away, and it finds no call in flight when       *)
(* racing is empty.                                                        *)
Relies(q) == q.reuse \/ q.result = "indexed"

Backed == chunks # 0 \/ \E v \in 1..cur : Dull(v)

(* A call reads no version that is not there yet, and none relies on the   *)
(* index before it has begun.                                              *)
FramesInv ==
    \A c \in Converters : /\ frame[c].got \in 1..cur
                          /\ Relies(frame[c]) => pc[c] \in InFlight

ChunksInv ==
    /\ FramesInv
    /\ racing = {} => /\ row.status = "indexed" => Backed
                      /\ \A c \in Converters : Relies(frame[c]) => Backed

(* What a step of a conversion does to the row, the chunks and its locals. *)
Founded(c) ==
    /\ UNCHANGED <<cur, kind, racing>>
    /\ \A p \in Procs : p # c => pc'[p] = pc[p]
    /\ chunks' = chunks \/ Backed'
    /\ row' = row \/ (row'.status = "indexed" => frame[c].result = "indexed")
    /\ \E g : /\ frame' = [frame EXCEPT ![c] = g]
              /\ g.got \in 1..cur
              /\ Relies(g) => /\ pc'[c] \in InFlight
                              /\ Relies(frame[c]) \/ row.status = "indexed" \/ Backed'

LEMMA NoFrameRelies == ~Relies(NoFrame) /\ NoFrame.got = 1
  BY DEF Relies, NoFrame

LEMMA FrameChanges ==
  ASSUME NEW q \in Frames, NEW x
  PROVE  /\ [q EXCEPT !.ver = x].reuse = q.reuse /\ [q EXCEPT !.ver = x].result = q.result
         /\ [q EXCEPT !.ver = x].got = q.got
         /\ [q EXCEPT !.got = x].reuse = q.reuse /\ [q EXCEPT !.got = x].result = q.result
         /\ [q EXCEPT !.got = x].got = x
         /\ [q EXCEPT !.todo = x].reuse = q.reuse /\ [q EXCEPT !.todo = x].result = q.result
         /\ [q EXCEPT !.todo = x].got = q.got
         /\ [q EXCEPT !.reuse = x].reuse = x /\ [q EXCEPT !.reuse = x].result = q.result
         /\ [q EXCEPT !.reuse = x].got = q.got
         /\ [q EXCEPT !.result = x].reuse = q.reuse /\ [q EXCEPT !.result = x].result = x
         /\ [q EXCEPT !.result = x].got = q.got
  BY DEF Frames

(* Locals that rely on what the call's own did before, if on anything.     *)
SameReliance(c, q) ==
    q.got \in {frame[c].got, cur} /\ q.reuse = frame[c].reuse /\ q.result = frame[c].result

(* A converter that goes on relies on what it has read or done.            *)
LEMMA GoesOn ==
  ASSUME TypeOK, NEW c \in Converters, NEW step \in InFlight, NEW q,
         Goto(c, step), frame' = [frame EXCEPT ![c] = q], q.got \in 1..cur,
         Relies(q) => Relies(frame[c]) \/ row.status = "indexed" \/ Backed',
         UNCHANGED <<cur, kind, racing>>, chunks' = chunks \/ Backed',
         row' = row \/ (row'.status = "indexed" => frame[c].result = "indexed")
  PROVE  Founded(c)
  BY Cast DEF Founded, Goto, TypeOK, ProcTypeOK

LEMMA Continues ==
  ASSUME TypeOK, FramesInv, NEW c \in Converters, NEW step \in InFlight,
         NEW q, SameReliance(c, q),
         Goto(c, step), frame' = [frame EXCEPT ![c] = q],
         UNCHANGED <<cur, kind, racing, chunks>>,
         row' = row \/ (row'.status = "indexed" => frame[c].result = "indexed")
  PROVE  Founded(c)
  <1>1. Relies(q) => Relies(frame[c])
    BY DEF SameReliance, Relies
  <1>2. q.got \in 1..cur
    BY MaxVersionAssumption DEF SameReliance, FramesInv, TypeOK, CoreTypeOK, Versions
  <1> QED
    BY <1>1, <1>2, GoesOn

(* One that records a status has it from the index or from the row.        *)
LEMMA Resolves ==
  ASSUME TypeOK, FramesInv, NEW c \in Converters, frame[c] \in Frames, NEW step \in InFlight,
         NEW s, s = "indexed" => frame[c].reuse \/ Backed',
         Goto(c, step), frame' = [frame EXCEPT ![c].result = s],
         UNCHANGED <<cur, kind, racing>>, chunks' = chunks \/ Backed',
         row' = row \/ row'.status # "indexed"
  PROVE  Founded(c)
  <1> DEFINE g == [frame[c] EXCEPT !.result = s]
  <1>1. frame' = [frame EXCEPT ![c] = g]
    OBVIOUS
  <1>2. g.reuse = frame[c].reuse /\ g.result = s /\ g.got = frame[c].got
    BY FrameChanges
  <1> HIDE DEF g
  <1>3. Relies(g) => Relies(frame[c]) \/ row.status = "indexed" \/ Backed'
    BY <1>2 DEF Relies
  <1>4. g.got \in 1..cur
    BY <1>2 DEF FramesInv
  <1> QED
    BY <1>1, <1>3, <1>4, GoesOn

(* One that leaves relies on nothing.                                      *)
LEMMA Left ==
  ASSUME TypeOK, NEW c \in Converters, NEW step, Leave(c, step),
         UNCHANGED <<cur, kind, racing, row, chunks>>
  PROVE  Founded(c)
  <1>1. NoFrame.got \in 1..cur
    BY NoFrameRelies, MaxVersionAssumption DEF TypeOK, CoreTypeOK, Versions
  <1> QED
    BY <1>1, NoFrameRelies, Cast DEF Founded, Leave, Goto, TypeOK, ProcTypeOK

LEMMA ConvertIsFounded ==
  ASSUME TypeOK, FramesInv, NEW c \in Converters, Convert(c) \/ Fault(c)
  PROVE  Founded(c)
  <1> USE DEF aroundVars, storeVars
  <1>0. /\ c \in Procs /\ frame[c] \in Frames /\ frame \in [Procs -> Frames]
        /\ pc \in [Procs -> Steps] /\ frame[c].got \in 1..cur
        /\ frame = [frame EXCEPT ![c] = frame[c]]
    BY Cast, FrameFields DEF TypeOK, ProcTypeOK, FramesInv
  <1>1. CASE ListRow(c)
    <2>1. ~Relies(frame[c])
      BY <1>1 DEF ListRow, FramesInv, InFlight
    <2> QED
      BY <1>0, <1>1, <2>1 DEF ListRow, Advance, Goto, Founded
  <1>2. CASE Begin(c)
    <2>1. CASE tomb
      BY <1>2, <2>1, Left DEF Begin, Return
    <2>2. CASE ~tomb
      BY <1>0, <1>2, <2>2, Continues DEF Begin, Advance, SameReliance, InFlight
    <2> QED
      BY <2>1, <2>2
  <1>3. CASE Stat(c)
    <2> DEFINE q == [frame[c] EXCEPT !.ver = cur]
    <2>1. CASE Return(c)
      BY <1>3, <2>1, Left DEF Stat, Return
    <2>2. CASE Goto(c, "status") /\ frame' = [frame EXCEPT ![c] = q]
      <3>1. SameReliance(c, q)
        BY <1>0, FrameChanges DEF SameReliance
      <3> HIDE DEF q
      <3> QED
        BY <1>3, <2>2, <3>1, Continues DEF Stat, InFlight
    <2> QED
      BY <1>3, <2>1, <2>2 DEF Stat
  <1>4. CASE GetStatus(c)
    <2> DEFINE q == [frame[c] EXCEPT !.reuse = (SameVersion(c) /\ row.status = "indexed")]
    <2>1. CASE Return(c)
      BY <1>4, <2>1, Left DEF GetStatus, Return
    <2>2. CASE Goto(c, "fetch") /\ frame' = [frame EXCEPT ![c] = q]
      <3>1. (q.reuse => row.status = "indexed") /\ q.result = frame[c].result
            /\ q.got = frame[c].got
        BY <1>0, FrameChanges
      <3> HIDE DEF q
      <3>2. Relies(q) => Relies(frame[c]) \/ row.status = "indexed"
        BY <3>1 DEF Relies
      <3> QED
        BY <1>0, <1>4, <2>2, <3>1, <3>2, GoesOn DEF GetStatus, InFlight
    <2> QED
      BY <1>4, <2>1, <2>2 DEF GetStatus
  <1>5. CASE Fetch(c)
    <2> DEFINE q == [frame[c] EXCEPT !.got = cur]
    <2>1. CASE Return(c)
      BY <1>5, <2>1, Left DEF Fetch, Return
    <2>2. CASE Goto(c, "mark") /\ frame' = [frame EXCEPT ![c] = q]
      <3>1. SameReliance(c, q)
        BY <1>0, FrameChanges DEF SameReliance
      <3> HIDE DEF q
      <3> QED
        BY <1>5, <2>2, <3>1, Continues DEF Fetch, InFlight
    <2> QED
      BY <1>5, <2>1, <2>2 DEF Fetch
  <1>6. CASE MarkConverting(c)
    BY <1>0, <1>6, Continues DEF MarkConverting, Advance, SameReliance, InFlight, Upsert
  <1>7. CASE Unsupported(c)
    <2>1. row'.status # "indexed" /\ UNCHANGED chunks
      BY <1>7 DEF Unsupported, Upsert
    <2> QED
      BY <1>0, <1>7, <2>1, Resolves DEF Unsupported, InFlight
  <1>8. CASE ListChildren(c)
    <2> DEFINE q == [frame[c] EXCEPT !.todo = Missing(c)]
    <2>1. SameReliance(c, q)
      BY <1>0, FrameChanges DEF SameReliance
    <2>2. frame' = [frame EXCEPT ![c] = q]
      BY <1>8 DEF ListChildren
    <2> HIDE DEF q
    <2> QED
      BY <1>8, <2>1, <2>2, Continues DEF ListChildren, InFlight
  <1>9. CASE Touch(c)
    <2>1. PICK f \in frame[c].todo : frame' = [frame EXCEPT ![c].todo = @ \ {f}, ![c].open = {f}]
      BY <1>9 DEF Touch
    <2> DEFINE q == [frame[c] EXCEPT !.todo = @ \ {f}, !.open = {f}]
    <2>2. SameReliance(c, q)
      BY <1>0 DEF Frames, SameReliance
    <2>3. frame' = [frame EXCEPT ![c] = q]
      BY <2>1
    <2> HIDE DEF q
    <2> QED
      BY <1>9, <2>2, <2>3, Continues DEF Touch, InFlight
  <1>10. CASE Put(c)
    <2> DEFINE q == [frame[c] EXCEPT !.open = {}, !.wrote = TRUE]
    <2>1. SameReliance(c, q)
      BY <1>0 DEF Frames, SameReliance
    <2>2. frame' = [frame EXCEPT ![c] = q]
      BY <1>10 DEF Put
    <2> HIDE DEF q
    <2> QED
      BY <1>10, <2>1, <2>2, Continues DEF Put, InFlight
  <1>11. CASE WriteDone(c)
    BY <1>0, <1>11, Continues DEF WriteDone, Advance, SameReliance, InFlight
  <1>12. CASE Prune(c)
    BY <1>0, <1>12, Continues DEF Prune, Advance, SameReliance, InFlight
  <1>13. CASE SkipIndex(c)
    <2>1. PICK s : (s = "indexed" => frame[c].reuse) /\ Resolve(c, s)
      BY <1>13 DEF SkipIndex
    <2> QED
      BY <1>0, <1>13, <2>1, Resolves DEF SkipIndex, Resolve, InFlight
  <1>14. CASE Index(c)
    <2>1. UNCHANGED <<row, cur, kind, racing>>
      BY <1>14 DEF Index, ReplaceChunks, DropChunks
    <2>2. Backed'
      <3>1. CASE Dull(frame[c].got)
        BY <1>0, <2>1, <3>1 DEF Backed, Dull
      <3>2. CASE ~Dull(frame[c].got)
        <4>1. chunks' = frame[c].got
          BY <1>14, <3>2 DEF Index, ReplaceChunks
        <4>2. frame[c].got # 0
          BY <1>0
        <4> QED
          BY <4>1, <4>2 DEF Backed
      <3> QED
        BY <3>1, <3>2
    <2> QED
      BY <1>0, <1>14, <2>1, <2>2, Resolves DEF Index, Resolve, InFlight
  <1>15. CASE IndexFails(c)
    BY <1>0, <1>15, Resolves DEF IndexFails, Resolve, InFlight
  <1>16. CASE Record(c)
    BY <1>0, <1>16, Continues DEF Record, Advance, SameReliance, InFlight, Upsert
  <1>17. CASE Emit(c)
    BY <1>17, Left DEF Emit, Return
  <1>18. CASE WriteRefused(c)
    BY <1>18, Left DEF WriteRefused
  <1>19. CASE CoreRefuses(c)
    BY <1>19, Left DEF CoreRefuses, Return
  <1>20. CASE Fault(c)
    BY <1>20, Left DEF Fault, Return
  <1> QED
    BY <1>1, <1>2, <1>3, <1>4, <1>5, <1>6, <1>7, <1>8, <1>9, <1>10, <1>11, <1>12, <1>13, <1>14, <1>15, <1>16, <1>17, <1>18, <1>19, <1>20 DEF Convert

(* A step that takes no chunks away, and relies on nothing new.            *)
LEMMA ChunksStay ==
  ASSUME TypeOK, ChunksInv, UNCHANGED <<row, chunks, kind, racing>>,
         cur' \in Nat, cur' >= cur,
         \A c \in Converters : \/ frame'[c] = NoFrame
                              \/ /\ frame'[c] = frame[c]
                                 /\ pc[c] \in InFlight => pc'[c] \in InFlight
  PROVE  ChunksInv'
  <1>1. cur \in Nat \ {0}
    BY MaxVersionAssumption DEF TypeOK, CoreTypeOK, Versions
  <1>2. FramesInv'
    BY <1>1, NoFrameRelies DEF ChunksInv, FramesInv
  <1>3. Backed => Backed'
    BY <1>1 DEF Backed, Dull
  <1> QED
    BY <1>2, <1>3, NoFrameRelies DEF ChunksInv

(* A step that removes the row, and notes who is in flight.                *)
LEMMA RowRemoved ==
  ASSUME TypeOK, ChunksInv, row' = NoRow, UNCHANGED <<cur, frame>>,
         racing' = {c \in Converters : pc[c] \in InFlight},
         \A c \in Converters : pc[c] \in InFlight => pc'[c] \in InFlight
  PROVE  ChunksInv'
  <1>1. FramesInv'
    BY DEF ChunksInv, FramesInv
  <1>2. NoRow.status # "indexed"
    BY DEF NoRow
  <1> QED
    BY <1>1, <1>2 DEF ChunksInv, FramesInv

LEMMA NextChunksInv == ErasureInv /\ ChunksInv /\ [Next]_vars => ChunksInv'
  <1> SUFFICES ASSUME ErasureInv, ChunksInv, [Next]_vars PROVE ChunksInv'
    OBVIOUS
  <1>0. /\ TypeOK /\ frame \in [Procs -> Frames] /\ pc \in [Procs -> Steps]
        /\ cur \in Nat \ {0}
    BY MaxVersionAssumption DEF ErasureInv, TypeOK, ProcTypeOK, CoreTypeOK, Versions
  <1>1. CASE Upload \/ SoftDelete \/ Restore \/ CoreErase \/ Failover
    BY <1>0, <1>1, ChunksStay DEF Upload, SoftDelete, Restore, CoreErase, Failover, storeVars
  <1>2. ASSUME NEW c \in Converters, Convert(c) \/ Fault(c) PROVE ChunksInv'
    <2>1. Founded(c)
      BY <1>0, <1>2, ConvertIsFounded DEF ChunksInv
    <2>2. PICK g : /\ frame' = [frame EXCEPT ![c] = g]
                   /\ g.got \in 1..cur
                   /\ Relies(g) => /\ pc'[c] \in InFlight
                                   /\ Relies(frame[c]) \/ row.status = "indexed" \/ Backed'
      BY <2>1 DEF Founded
    <2>3. frame'[c] = g /\ \A d \in Converters \ {c} : frame'[d] = frame[d] /\ pc'[d] = pc[d]
      BY <1>0, <2>1, <2>2, Cast DEF Founded
    <2>4. FramesInv'
      BY <2>1, <2>2, <2>3 DEF Founded, ChunksInv, FramesInv
    <2>5. Backed => Backed'
      BY <2>1 DEF Founded, Backed, Dull
    <2>6. ASSUME racing = {}
          PROVE  /\ row'.status = "indexed" => Backed'
                 /\ \A d \in Converters : Relies(frame'[d]) => Backed'
      <3>1. /\ row.status = "indexed" => Backed'
            /\ \A d \in Converters : Relies(frame[d]) => Backed'
        BY <2>5, <2>6 DEF ChunksInv
      <3>2. row'.status = "indexed" => Backed'
        BY <2>1, <3>1 DEF Founded, Relies
      <3> QED
        BY <2>2, <2>3, <3>1, <3>2
    <2> QED
      BY <2>1, <2>4, <2>6 DEF Founded, ChunksInv
  <1>3. CASE HandleDelete
    <2>1. pc[EventLoop] \notin InFlight
      BY <1>3 DEF HandleDelete, HeadIs, InFlight
    <2> QED
      BY <1>0, <1>3, <2>1, RowRemoved
         DEF HandleDelete, DeleteRow, Advance, Goto, coreVars
  <1>4. CASE Ack
    <2>1. pc[EventLoop] \notin InFlight
      BY <1>4 DEF Ack, InFlight
    <2> QED
      BY <1>0, <1>4, <2>1, ChunksStay DEF Ack, Advance, Goto, storeVars, coreVars
  <1>5. ASSUME NEW p \in {EventLoop, Eraser}, Erasing(p) PROVE ChunksInv'
    <2>1. CASE HonourErasure(p)
      <3>1. p \in Converters => pc[p] \notin InFlight
        BY <2>1, Cast DEF HonourErasure, MayErase, HeadIs, InFlight
      <3> QED
        BY <1>0, <2>1, <3>1, RowRemoved
           DEF HonourErasure, EraseDocument, Advance, Goto, coreVars
    <2>2. CASE EraseFails(p) \/ Acknowledge(p)
      <3>1. /\ UNCHANGED <<row, chunks, kind, racing, cur>>
            /\ \A c \in Converters : \/ frame'[c] = NoFrame
                                     \/ frame'[c] = frame[c] /\ pc'[c] = pc[c]
        BY <1>0, <2>2, Cast DEF EraseFails, Acknowledge, Return, Leave, Goto, storeVars, aroundVars
      <3> QED
        BY <1>0, <3>1, ChunksStay
    <2> QED
      BY <1>5, <2>1, <2>2 DEF Erasing
  <1>6. CASE Crash
    <2>1. /\ UNCHANGED <<row, chunks, kind, racing, cur>>
          /\ \A c \in Converters : \/ frame'[c] = NoFrame
                                   \/ frame'[c] = frame[c] /\ pc'[c] = pc[c]
      BY <1>6, Cast DEF Crash, storeVars, coreVars
    <2> QED
      BY <1>0, <2>1, ChunksStay
  <1>7. CASE UNCHANGED vars
    BY <1>0, <1>7, ChunksStay DEF vars, storeVars, coreVars
  <1> QED
    BY <1>1, <1>2, <1>3, <1>4, <1>5, <1>6, <1>7 DEF Next

LEMMA InitChunksInv == Init => ChunksInv
  <1> SUFFICES ASSUME Init PROVE ChunksInv
    OBVIOUS
  <1>1. row.status # "indexed"
    BY DEF Init, StoreInit, NoRow
  <1>2. \A c \in Converters : frame[c] = NoFrame
    BY Cast DEF Init
  <1>3. FramesInv
    BY <1>2, NoFrameRelies DEF Init, FramesInv
  <1> QED
    BY <1>1, <1>2, <1>3, NoFrameRelies DEF ChunksInv

-----------------------------------------------------------------------------
(* Who resolves the row says so: a resolved row has been announced, or the *)
(* call that resolved it is about to announce it.                          *)
Told(v) ==
    \/ \E a \in announced : a.version = v
    \/ \E c \in Converters \ Sweepers : pc[c] = "emit" /\ frame[c].ver = v

NoSweeps ==
    scope.agents \cap Sweepers = {} /\ crashes = 0 /\ faults = 0 /\ live # "erased"

TellsInv ==
    NoSweeps => /\ \A c \in Sweepers : pc[c] = "idle"
                /\ row.status \in Terminal => Told(row.version)

(* What a step of a conversion does to the row and its announcements.      *)
Tells(c) ==
    /\ UNCHANGED <<scope, crashes, live>> /\ (faults' = 0 => faults = 0)
    /\ announced \subseteq announced'
    /\ \A d \in Procs \ {c} : pc'[d] = pc[d] /\ frame'[d] = frame[d]
    /\ pc[c] = "emit" /\ live # "erased" /\ c \notin Sweepers =>
          \E a \in announced' : a.version = frame[c].ver
    /\ \/ row' = row
       \/ row'.status \notin Terminal
       \/ pc'[c] = "emit" /\ frame'[c].ver = row'.version
    /\ c \in Sweepers /\ pc[c] = "idle" => c \in scope.agents

(* A step that is no announcement and leaves the row alone.                *)
LEMMA TellsNothing ==
  ASSUME TypeOK, NEW c \in Converters, UNCHANGED <<scope, crashes, live, announced, row>>,
         pc[c] = "emit" => live = "erased", faults' = 0 => faults = 0,
         \A d \in Procs \ {c} : pc'[d] = pc[d] /\ frame'[d] = frame[d],
         c \in Sweepers /\ pc[c] = "idle" => c \in scope.agents
  PROVE  Tells(c)
  BY DEF Tells

LEMMA ConvertTells ==
  ASSUME TypeOK, NEW c \in Converters, Convert(c) \/ Fault(c)
  PROVE  Tells(c)
  <1> USE DEF aroundVars, storeVars
  <1>0. /\ c \in Procs /\ frame[c] \in Frames /\ frame \in [Procs -> Frames]
        /\ pc \in [Procs -> Steps] /\ faults \in Nat
    BY Cast, FrameFields DEF TypeOK, ProcTypeOK, BoundTypeOK
  <1>1. CASE ListRow(c)
    BY <1>0, <1>1, TellsNothing DEF ListRow, Advance, Goto
  <1>2. CASE Begin(c)
    <2>1. \A d \in Procs \ {c} : pc'[d] = pc[d] /\ frame'[d] = frame[d]
      BY <1>0, <1>2 DEF Begin, Advance, Return, Leave, Goto
    <2>2. pc[c] # "emit" /\ (c \in Sweepers => pc[c] # "idle")
      BY <1>2, Cast, ProcAssumption DEF Begin, HeadIs
    <2>3. UNCHANGED <<scope, crashes, live, announced, row, faults>>
      BY <1>2 DEF Begin
    <2> QED
      BY <2>1, <2>2, <2>3, TellsNothing
  <1>3. CASE Stat(c)
    BY <1>0, <1>3, TellsNothing DEF Stat, Return, Leave, Goto
  <1>4. CASE GetStatus(c)
    BY <1>0, <1>4, TellsNothing DEF GetStatus, Return, Leave, Goto
  <1>5. CASE Fetch(c)
    BY <1>0, <1>5, TellsNothing DEF Fetch, Return, Leave, Goto
  <1>6. CASE MarkConverting(c)
    BY <1>0, <1>6 DEF MarkConverting, Upsert, Advance, Goto, Tells, Terminal
  <1>7. CASE Unsupported(c)
    <2>1. pc'[c] = "emit" /\ row'.version = frame[c].ver
      BY <1>0, <1>7 DEF Unsupported, Upsert, Goto
    <2>2. frame'[c].ver = frame[c].ver
      BY <1>0, <1>7 DEF Unsupported, Frames
    <2> QED
      BY <1>0, <1>7, <2>1, <2>2 DEF Unsupported, Goto, Tells
  <1>8. CASE ListChildren(c)
    BY <1>0, <1>8, TellsNothing DEF ListChildren, Goto
  <1>9. CASE Touch(c)
    BY <1>0, <1>9, TellsNothing DEF Touch, Goto
  <1>10. CASE Put(c)
    BY <1>0, <1>10, TellsNothing DEF Put, Goto
  <1>11. CASE WriteDone(c)
    BY <1>0, <1>11, TellsNothing DEF WriteDone, Advance, Goto
  <1>12. CASE Prune(c)
    BY <1>0, <1>12, TellsNothing DEF Prune, Advance, Goto
  <1>13. CASE SkipIndex(c)
    BY <1>0, <1>13, TellsNothing DEF SkipIndex, Resolve, Goto
  <1>14. CASE Index(c)
    BY <1>0, <1>14, TellsNothing DEF Index, ReplaceChunks, DropChunks, Resolve, Goto
  <1>15. CASE IndexFails(c)
    BY <1>0, <1>15, TellsNothing DEF IndexFails, SpendFault, Resolve, Goto
  <1>16. CASE Record(c)
    BY <1>0, <1>16 DEF Record, Upsert, Advance, Goto, Tells
  <1>17. CASE Emit(c)
    <2>1. /\ announced \subseteq announced'
          /\ c \notin Sweepers => \E a \in announced' : a.version = frame[c].ver
      <3>1. Outcome(c).version = frame[c].ver
        BY DEF Outcome
      <3>2. announced' = announced \cup (IF c \in Sweepers THEN {} ELSE {Outcome(c)})
        BY <1>17 DEF Emit
      <3> QED
        BY <3>1, <3>2
    <2> QED
      BY <1>0, <1>17, <2>1 DEF Emit, Return, Leave, Goto, Tells
  <1>18. CASE WriteRefused(c)
    BY <1>0, <1>18, TellsNothing DEF WriteRefused, Leave, Goto
  <1>19. CASE CoreRefuses(c)
    BY <1>0, <1>19, TellsNothing DEF CoreRefuses, Unreportable, Return, Leave, Goto
  <1>20. CASE Fault(c)
    BY <1>0, <1>20, TellsNothing DEF Fault, InFlight, SpendFault, Return, Leave, Goto
  <1> QED
    BY <1>1, <1>2, <1>3, <1>4, <1>5, <1>6, <1>7, <1>8, <1>9, <1>10, <1>11, <1>12, <1>13, <1>14, <1>15, <1>16, <1>17, <1>18, <1>19, <1>20 DEF Convert

(* A step of nobody's conversion.                                          *)
LEMMA ToldStays ==
  ASSUME TellsInv, NoSweeps' => NoSweeps, UNCHANGED announced,
         row' = row \/ row'.status \notin Terminal,
         \A d \in Converters : \/ pc'[d] = pc[d] /\ frame'[d] = frame[d]
                               \/ d \notin Sweepers /\ pc[d] # "emit"
  PROVE  TellsInv'
  BY DEF TellsInv, Told, Converters

LEMMA NextTellsInv == TypeOK /\ TellsInv /\ [Next]_vars => TellsInv'
  <1> SUFFICES ASSUME TypeOK, TellsInv, [Next]_vars PROVE TellsInv'
    OBVIOUS
  <1> USE DEF NoSweeps
  <1>0. pc \in [Procs -> Steps] /\ frame \in [Procs -> Frames]
        /\ faults \in Nat /\ crashes \in Nat /\ row \in Rows
    BY DEF TypeOK, ProcTypeOK, BoundTypeOK, StoreTypeOK
  <1>00. NoRow.status \notin Terminal
    BY DEF NoRow, Terminal
  <1>1. CASE Upload \/ SoftDelete \/ Restore \/ CoreErase \/ Failover
    BY <1>1, ToldStays DEF Upload, SoftDelete, Restore, CoreErase, Failover, storeVars, boundVars,
                           streamVars
  <1>2. ASSUME NEW c \in Converters, Convert(c) \/ Fault(c) PROVE TellsInv'
    <2> SUFFICES ASSUME NoSweeps'
                 PROVE  /\ \A d \in Sweepers : pc'[d] = "idle"
                        /\ row'.status \in Terminal => Told(row.version)'
      BY DEF TellsInv
    <2>1. Tells(c)
      BY <1>2, ConvertTells
    <2>2. NoSweeps
      BY <2>1 DEF Tells
    <2>3. /\ \A d \in Sweepers : pc[d] = "idle"
          /\ row.status \in Terminal => Told(row.version)
      BY <2>2 DEF TellsInv
    <2>4. c \notin Sweepers
      BY <2>1, <2>2, <2>3 DEF Tells
    <2>5. \A d \in Sweepers : pc'[d] = "idle"
      BY <2>1, <2>3, <2>4, Cast DEF Tells, Converters
    <2>6. ASSUME Told(row.version) PROVE \/ \E a \in announced' : a.version = row.version
                                        \/ \E d \in Converters \ Sweepers :
                                              pc'[d] = "emit" /\ frame'[d].ver = row.version
      <3>1. CASE \E a \in announced : a.version = row.version
        BY <2>1, <3>1 DEF Tells
      <3>2. CASE \E d \in Converters \ Sweepers : pc[d] = "emit" /\ frame[d].ver = row.version
        <4>1. PICK d \in Converters \ Sweepers : pc[d] = "emit" /\ frame[d].ver = row.version
          BY <3>2
        <4>2. CASE d = c
          BY <2>1, <2>2, <4>1, <4>2 DEF Tells
        <4>3. CASE d # c
          BY <2>1, <4>1, <4>3, Cast DEF Tells
        <4> QED
          BY <4>2, <4>3
      <3> QED
        BY <2>6, <3>1, <3>2 DEF Told
    <2>7. CASE row' = row
      BY <2>3, <2>5, <2>6, <2>7 DEF Told
    <2>8. CASE row' # row
      BY <2>1, <2>4, <2>5, <2>8 DEF Tells, Told
    <2> QED
      BY <2>7, <2>8
  <1>3. CASE HandleDelete
    BY <1>0, <1>00, <1>3, Cast, ToldStays
       DEF HandleDelete, DeleteRow, HeadIs, Advance, Goto, coreVars, boundVars
  <1>4. CASE Ack
    BY <1>0, <1>4, Cast, ToldStays DEF Ack, Advance, Goto, storeVars, coreVars, boundVars
  <1>5. ASSUME NEW p \in {EventLoop, Eraser}, Erasing(p) PROVE TellsInv'
    <2>1. \A d \in Converters : \/ pc'[d] = pc[d] /\ frame'[d] = frame[d]
                                \/ d \notin Sweepers /\ pc[d] # "emit"
      BY <1>0, <1>5, Cast
         DEF Erasing, HonourErasure, EraseFails, Acknowledge, MayErase, HeadIs, Advance, Return,
             Leave, Goto
    <2>2. UNCHANGED announced /\ (NoSweeps' => NoSweeps)
      BY <1>0, <1>5 DEF Erasing, HonourErasure, EraseFails, Acknowledge, SpendFault,
                        coreVars, boundVars, aroundVars, streamVars
    <2>3. row' = row \/ row' = NoRow
      BY <1>5 DEF Erasing, HonourErasure, EraseFails, Acknowledge, EraseDocument, storeVars
    <2> QED
      BY <1>00, <2>1, <2>2, <2>3, ToldStays
  <1>6. CASE Crash
    <2>1. crashes' # 0
      BY <1>0, <1>6 DEF Crash
    <2> QED
      BY <2>1 DEF TellsInv
  <1>7. CASE UNCHANGED vars
    BY <1>7, ToldStays DEF vars, storeVars, coreVars, streamVars, boundVars
  <1> QED
    BY <1>1, <1>2, <1>3, <1>4, <1>5, <1>6, <1>7 DEF Next

(* Whichever of the event loop and POST /convert resolves the current      *)
(* version, somebody tells the consumers that wait for it                  *)
(* (ingest/worker.py, api.py, emit.py: emit_conversion after the row).     *)
THEOREM ResolutionIsAnnounced == Spec => []ResolvedIsAnnounced
  <1>1. Init => TellsInv
    BY Cast DEF Init, StoreInit, NoRow, Terminal, TellsInv, Converters
  <1>2. TellsInv => ResolvedIsAnnounced
    <2> SUFFICES ASSUME TellsInv, Settled, live = "present", row.version = cur,
                        row.status \in Terminal, scope.agents \cap Sweepers = {},
                        crashes = 0, faults = 0
                 PROVE  \E a \in announced : a.version = cur
      BY DEF ResolvedIsAnnounced
    <2>1. Told(cur)
      BY DEF TellsInv, NoSweeps
    <2> QED
      BY <2>1 DEF Told, Settled
  <1> QED
    BY <1>1, <1>2, TypeCorrect, NextTellsInv, PTL DEF Spec

-----------------------------------------------------------------------------
(* The event loop by itself: what it has recorded of the current version   *)
(* is true, and unless an event is still to come the row is of that        *)
(* version.                                                                *)
Alone == scope.agents = {} /\ faults = 0 /\ (crashes = 0 \/ flips = 0) /\ live # "erased"

(* Nobody else is under way.                                               *)
Undisturbed ==
    /\ \A c \in Converters \ {EventLoop} : pc[c] = "idle"
    /\ pc[EventLoop] \in InFlight \cup {"idle", "done"}
    /\ ~tomb /\ erasure = "none"
    /\ (draining => crashes # 0) /\ (readonly => flips # 0)
    /\ ~frame[EventLoop].reuse

(* The last event says what has become of the file.                        *)
EventsInOrder ==
    /\ \A i \in 1..Len(queue) : queue[i] # "erased"
    /\ queue # <<>> => queue[Len(queue)] = IF live = "present" THEN "changed" ELSE "deleted"
    /\ pc[EventLoop] \in InFlight => queue[1] = "changed"

(* The call that handles the last event is about the current version.      *)
OfCurrent ==
    /\ row.version <= cur
    /\ pc[EventLoop] \in InFlight \ {"stat"} =>
         LET v == frame[EventLoop].ver IN
         v <= cur /\ (row.version = cur \/ Len(queue) = 1 => v = cur)
    /\ pc[EventLoop] \in InFlight \ {"stat", "status", "fetch"} =>
         frame[EventLoop].ver <= frame[EventLoop].got /\ frame[EventLoop].got <= cur

Rendered(v) == \A f \in Fmts : child[v][f] # "absent"

(* What a call has achieved by each of its steps.                          *)
HalfDone ==
    LET q == frame[EventLoop]  at == pc[EventLoop] IN
    /\ at \in InFlight \ {"stat", "status", "fetch", "mark"} =>
         row.version = q.ver /\ row.status = IF at = "emit" THEN q.result ELSE "converting"
    /\ at = "emit" => q.result \in Terminal
    /\ at \in {"touch", "put"} => \A f \in Fmts :
         /\ f \in q.todo => child[q.ver][f] = "absent"
         /\ Renders(q.got) /\ child[q.ver][f] = "absent" => f \in q.todo
    /\ at = "put" => \A f \in q.open : child[q.ver][f] # "absent"
    /\ at \in {"prune", "index", "final"} /\ Renders(q.got) => Rendered(q.ver)
    /\ at = "final" => q.result \in Terminal \ {"unsupported"}
                       /\ (q.result = "indexed" => chunks = ChunksOf(q.got))

RowOfCurrent ==
    row.version = cur /\ row.status \in Terminal =>
        /\ HasText(cur) /\ row.status = "indexed" => row.text = cur /\ chunks = ChunksOf(cur)
        /\ Renders(cur) => Rendered(cur)

(* No event is left to come.                                               *)
LastHandled ==
    queue = <<>> \/ (Len(queue) = 1 /\ pc[EventLoop] = "done") =>
        cur \in scope.oversized \/ DescribesFile

LoopInv ==
    Undisturbed /\ EventsInOrder /\ OfCurrent /\ HalfDone /\ RowOfCurrent /\ LastHandled

AloneInv == Alone => LoopInv

fixedVars == <<tomb, erasure, draining, crashes, readonly, flips, queue, live, cur, scope, kind>>

(* The types that the steps of the loop need.                              *)
LEMMA LoopTypes ==
  ASSUME ErasureInv
  PROVE  /\ pc \in [Procs -> Steps] /\ frame \in [Procs -> Frames] /\ EventLoop \in Procs
         /\ frame[EventLoop] \in Frames
         /\ frame[EventLoop].ver \in Versions /\ frame[EventLoop].got \in Versions
         /\ frame[EventLoop].ver \in Nat \ {0} /\ frame[EventLoop].got \in Nat \ {0}
         /\ frame[EventLoop].todo \subseteq Fmts /\ frame[EventLoop].open \subseteq Fmts
         /\ queue \in Seq({"changed", "deleted", "erased"}) /\ Len(queue) \in Nat
         /\ cur \in Nat \ {0} /\ cur \in Versions /\ row.version \in Nat
         /\ pc[EventLoop] # "idle" => queue # <<>> /\ Len(queue) # 0
         /\ child \in [Versions -> [Fmts -> {"absent", "empty", "full"}]]
  <1>1. /\ pc \in [Procs -> Steps] /\ frame \in [Procs -> Frames] /\ EventLoop \in Procs
        /\ queue \in Seq({"changed", "deleted", "erased"})
        /\ cur \in Versions /\ row \in Rows
        /\ child \in [Versions -> [Fmts -> {"absent", "empty", "full"}]]
    BY Cast DEF ErasureInv, TypeOK, ProcTypeOK, StreamTypeOK, CoreTypeOK, StoreTypeOK
  <1>2. Versions \subseteq Nat \ {0} /\ row.version \in Nat
    BY <1>1, MaxVersionAssumption DEF Versions, Rows
  <1>3. Len(queue) \in Nat /\ (queue # <<>> => Len(queue) # 0)
    BY <1>1, LenProperties, EmptySeq
  <1>4. pc[EventLoop] # "idle" => queue # <<>>
    BY DEF ErasureInv, LoopHasEvent
  <1>5. /\ frame[EventLoop] \in Frames
        /\ frame[EventLoop].ver \in Versions /\ frame[EventLoop].got \in Versions
        /\ frame[EventLoop].todo \subseteq Fmts /\ frame[EventLoop].open \subseteq Fmts
    BY <1>1 DEF Frames
  <1> QED
    BY <1>1, <1>2, <1>3, <1>4, <1>5

(* The loop goes on with its call.                                         *)
LEMMA LoopGoes ==
  ASSUME ErasureInv, LoopInv, UNCHANGED fixedVars, NEW step \in InFlight, NEW g,
         pc' = [pc EXCEPT ![EventLoop] = step], frame' = [frame EXCEPT ![EventLoop] = g],
         ~g.reuse, queue # <<>>, queue[1] = "changed", OfCurrent', HalfDone', RowOfCurrent'
  PROVE  LoopInv'
  <1>1. Undisturbed'
    BY LoopTypes, Cast DEF LoopInv, Undisturbed, fixedVars
  <1>2. EventsInOrder'
    BY LoopTypes DEF LoopInv, EventsInOrder, fixedVars
  <1>3. LastHandled'
    BY LoopTypes DEF InFlight, LastHandled, fixedVars
  <1> QED
    BY <1>1, <1>2, <1>3 DEF LoopInv

(* The loop leaves its call, with the event handled or still to handle.    *)
LEMMA LoopLeaves ==
  ASSUME ErasureInv, LoopInv, UNCHANGED fixedVars, UNCHANGED <<row, chunks, child>>,
         NEW step \in {"idle", "done"}, pc[EventLoop] \in InFlight,
         pc' = [pc EXCEPT ![EventLoop] = step], frame' = [frame EXCEPT ![EventLoop] = NoFrame],
         step = "done" /\ Len(queue) = 1 => cur \in scope.oversized \/ DescribesFile
  PROVE  LoopInv'
  <1>0. pc'[EventLoop] = step /\ frame'[EventLoop] = NoFrame
        /\ queue # <<>>
    BY LoopTypes DEF InFlight
  <1>1. Undisturbed'
    BY <1>0, LoopTypes, Cast DEF LoopInv, Undisturbed, fixedVars, NoFrame
  <1>2. EventsInOrder'
    BY <1>0 DEF LoopInv, EventsInOrder, fixedVars, InFlight
  <1>3. OfCurrent' /\ HalfDone' /\ RowOfCurrent'
    BY <1>0 DEF LoopInv, OfCurrent, HalfDone, RowOfCurrent, fixedVars, InFlight, HasText, Dull,
                ChunksOf, Renders,
                Rendered
  <1>4. LastHandled'
    BY <1>0 DEF LastHandled, DescribesFile, HasText, Dull, ChunksOf, Renders, fixedVars
  <1> QED
    BY <1>1, <1>2, <1>3, <1>4 DEF LoopInv

(* The last event being a change, the file is there.                       *)
LEMMA LastIsChange ==
  ASSUME LoopInv, Len(queue) = 1, queue # <<>>, queue[1] = "changed"
  PROVE  live = "present"
  BY DEF LoopInv, EventsInOrder

(* The row of the current version, resolved, describes the file.           *)
LEMMA ResolvedDescribes ==
  ASSUME LoopInv, live = "present", row.version = cur, row.status \in Terminal
  PROVE  DescribesFile
  BY DEF LoopInv, RowOfCurrent, DescribesFile, Rendered

(* What the invariant says of the call under way, in the words of its      *)
(* steps.                                                                  *)
LEMMA LoopCall ==
  ASSUME ErasureInv, LoopInv, pc[EventLoop] \in InFlight
  PROVE  /\ queue # <<>> /\ queue[1] = "changed" /\ Len(queue) # 0
         /\ Len(queue) = 1 => live = "present"
         /\ ~frame[EventLoop].reuse /\ row.version <= cur
  BY LoopTypes DEF LoopInv, EventsInOrder, Undisturbed, OfCurrent, InFlight

(* The first steps of a call: what version it is about, and what of it is  *)
(* already there.                                                          *)
LEMMA LoopReads ==
  ASSUME ErasureInv, Alone, LoopInv,
         \/ Begin(EventLoop) \/ Stat(EventLoop) \/ GetStatus(EventLoop)
         \/ Fetch(EventLoop) \/ MarkConverting(EventLoop)
  PROVE  LoopInv'
  <1> DEFINE q == frame[EventLoop]
  <1>0. /\ pc \in [Procs -> Steps] /\ frame \in [Procs -> Frames] /\ EventLoop \in Procs
        /\ q \in Frames /\ q.ver \in Nat \ {0} /\ q.got \in Nat \ {0}
        /\ cur \in Nat \ {0} /\ row.version \in Nat /\ Len(queue) \in Nat
        /\ EventLoop \notin Sweepers /\ EventLoop \notin OnDemand
        /\ ~tomb
    BY LoopTypes, Cast DEF LoopInv, Undisturbed
  <1>1. CASE Begin(EventLoop)
    <2>1. /\ pc[EventLoop] = "idle" /\ queue # <<>> /\ queue[1] = "changed"
          /\ UNCHANGED fixedVars /\ UNCHANGED <<row, chunks, child, frame>>
          /\ pc' = [pc EXCEPT ![EventLoop] = "stat"] /\ frame' = [frame EXCEPT ![EventLoop] = q]
      BY <1>0, <1>1 DEF Begin, HeadIs, Advance, Goto, aroundVars, storeVars, fixedVars
    <2>2. ~q.reuse /\ pc'[EventLoop] = "stat"
      BY <1>0, <2>1 DEF LoopInv, Undisturbed
    <2>3. OfCurrent' /\ HalfDone' /\ RowOfCurrent'
      BY <2>1, <2>2 DEF LoopInv, OfCurrent, HalfDone, RowOfCurrent, fixedVars, InFlight, HasText,
                        Dull, ChunksOf,
                        Renders, Rendered
    <2> QED
      BY <2>1, <2>2, <2>3, LoopGoes DEF InFlight
  <1>2. CASE Stat(EventLoop)
    <2>0. /\ pc[EventLoop] = "stat" /\ UNCHANGED fixedVars /\ UNCHANGED <<row, chunks, child>>
      BY <1>2 DEF Stat, aroundVars, storeVars, fixedVars
    <2>1. CASE live = "present" /\ ~(SizeLimited(EventLoop) /\ cur \in scope.oversized)
      <3> DEFINE g == [q EXCEPT !.ver = cur]
      <3>1. /\ pc' = [pc EXCEPT ![EventLoop] = "status"]
            /\ frame' = [frame EXCEPT ![EventLoop] = g] /\ g.ver = cur /\ g.reuse = q.reuse
        BY <1>0, <1>2, <2>1 DEF Stat, Goto, Frames
      <3> HIDE DEF g
      <3>2. pc'[EventLoop] = "status" /\ frame'[EventLoop] = g
        BY <1>0, <3>1
      <3>3. OfCurrent' /\ HalfDone' /\ RowOfCurrent'
        BY <1>0, <2>0, <3>1, <3>2 DEF LoopInv, OfCurrent, HalfDone, RowOfCurrent, fixedVars,
                                      InFlight, HasText, Dull, ChunksOf, Renders, Rendered
      <3> QED
        BY <2>0, <3>1, <3>3, LoopCall, LoopGoes DEF InFlight
    <2>2. CASE ~(live = "present" /\ ~(SizeLimited(EventLoop) /\ cur \in scope.oversized))
      <3>1. /\ pc' = [pc EXCEPT ![EventLoop] = "done"]
            /\ frame' = [frame EXCEPT ![EventLoop] = NoFrame]
        BY <1>2, <2>2 DEF Stat, Return, Leave, Goto
      <3>2. Len(queue) = 1 => cur \in scope.oversized
        BY <2>0, <2>2, LoopCall DEF InFlight
      <3> QED
        BY <2>0, <3>1, <3>2, LoopLeaves DEF InFlight
    <2> QED
      BY <2>1, <2>2
  <1>3. CASE GetStatus(EventLoop)
    <2>0. /\ pc[EventLoop] = "status" /\ UNCHANGED fixedVars /\ UNCHANGED <<row, chunks, child>>
      BY <1>3 DEF GetStatus, aroundVars, storeVars, fixedVars
    <2>1. CASE AlreadyDone(EventLoop)
      <3>1. /\ pc' = [pc EXCEPT ![EventLoop] = "done"]
            /\ frame' = [frame EXCEPT ![EventLoop] = NoFrame]
        BY <1>3, <2>1 DEF GetStatus, Forced, Return, Leave, Goto
      <3>2. ASSUME Len(queue) = 1 PROVE DescribesFile
        <4>1. q.ver = cur
          BY <2>0, <3>2 DEF LoopInv, OfCurrent, InFlight
        <4> QED
          BY <2>0, <2>1, <3>2, <4>1, LoopCall, ResolvedDescribes
             DEF AlreadyDone, SameVersion, Terminal, InFlight
      <3> QED
        BY <2>0, <3>1, <3>2, LoopLeaves DEF InFlight
    <2>2. CASE ~AlreadyDone(EventLoop)
      <3> DEFINE g == [q EXCEPT !.reuse = (SameVersion(EventLoop) /\ row.status = "indexed")]
      <3>1. /\ pc' = [pc EXCEPT ![EventLoop] = "fetch"]
            /\ frame' = [frame EXCEPT ![EventLoop] = g] /\ g.ver = q.ver /\ ~g.reuse
        BY <1>0, <1>3, <2>2 DEF GetStatus, Goto, Frames, AlreadyDone
      <3> HIDE DEF g
      <3>2. pc'[EventLoop] = "fetch" /\ frame'[EventLoop] = g
        BY <1>0, <3>1
      <3>3. OfCurrent' /\ HalfDone' /\ RowOfCurrent'
        BY <1>0, <2>0, <3>1, <3>2 DEF LoopInv, OfCurrent, HalfDone, RowOfCurrent, fixedVars,
                                      InFlight, HasText, Dull, ChunksOf, Renders, Rendered
      <3> QED
        BY <2>0, <3>1, <3>3, LoopCall, LoopGoes DEF InFlight
    <2> QED
      BY <2>1, <2>2
  <1>4. CASE Fetch(EventLoop)
    <2>0. /\ pc[EventLoop] = "fetch" /\ UNCHANGED fixedVars /\ UNCHANGED <<row, chunks, child>>
      BY <1>4 DEF Fetch, aroundVars, storeVars, fixedVars
    <2>1. CASE live = "present"
      <3> DEFINE g == [q EXCEPT !.got = cur]
      <3>1. /\ pc' = [pc EXCEPT ![EventLoop] = "mark"]
            /\ frame' = [frame EXCEPT ![EventLoop] = g]
            /\ g.ver = q.ver /\ g.got = cur /\ g.reuse = q.reuse
        BY <1>0, <1>4, <2>1 DEF Fetch, Goto, Frames
      <3> HIDE DEF g
      <3>2. pc'[EventLoop] = "mark" /\ frame'[EventLoop] = g
        BY <1>0, <3>1
      <3>3. OfCurrent' /\ HalfDone' /\ RowOfCurrent'
        BY <1>0, <2>0, <3>1, <3>2 DEF LoopInv, OfCurrent, HalfDone, RowOfCurrent, fixedVars,
                                      InFlight, HasText, Dull, ChunksOf, Renders, Rendered
      <3> QED
        BY <2>0, <3>1, <3>3, LoopCall, LoopGoes DEF InFlight
    <2>2. CASE live # "present"
      <3>1. /\ pc' = [pc EXCEPT ![EventLoop] = "done"]
            /\ frame' = [frame EXCEPT ![EventLoop] = NoFrame]
        BY <1>4, <2>2 DEF Fetch, Return, Leave, Goto
      <3> QED
        BY <2>0, <2>2, <3>1, LoopCall, LoopLeaves DEF InFlight
    <2> QED
      BY <2>1, <2>2
  <1>5. CASE MarkConverting(EventLoop)
    <2>1. /\ pc[EventLoop] = "mark" /\ UNCHANGED fixedVars /\ UNCHANGED <<chunks, child, frame>>
          /\ row'.version = q.ver /\ row'.status = "converting"
          /\ pc' = [pc EXCEPT ![EventLoop] = "convert"]
          /\ frame' = [frame EXCEPT ![EventLoop] = q]
      BY <1>0, <1>5 DEF MarkConverting, Upsert, Advance, Goto, aroundVars, fixedVars
    <2>2. pc'[EventLoop] = "convert" /\ frame'[EventLoop] = q
      BY <1>0, <2>1
    <2>3. q.ver <= cur /\ (Len(queue) = 1 => q.ver = cur) /\ q.ver <= q.got /\ q.got <= cur
      BY <2>1 DEF LoopInv, OfCurrent, InFlight
    <2>4. OfCurrent'
      BY <1>0, <2>1, <2>2, <2>3 DEF OfCurrent, fixedVars, InFlight
    <2>5. HalfDone' /\ RowOfCurrent'
      BY <1>0, <2>1, <2>2 DEF HalfDone, RowOfCurrent, InFlight, Terminal
    <2> QED
      BY <2>1, <2>4, <2>5, LoopCall, LoopGoes DEF InFlight
  <1> QED
    BY <1>1, <1>2, <1>3, <1>4, <1>5

(* The renditions: what is missing of the version is written, the children *)
(* of the others are removed.                                              *)
LEMMA LoopWrites ==
  ASSUME ErasureInv, Alone, LoopInv,
         \/ Unsupported(EventLoop) \/ ListChildren(EventLoop) \/ Touch(EventLoop)
         \/ Put(EventLoop) \/ WriteDone(EventLoop) \/ Prune(EventLoop)
  PROVE  LoopInv'
  <1> DEFINE q == frame[EventLoop]
  <1>0. /\ pc \in [Procs -> Steps] /\ frame \in [Procs -> Frames] /\ EventLoop \in Procs
        /\ q \in Frames /\ q.ver \in Nat \ {0} /\ q.got \in Nat \ {0}
        /\ q.ver \in Versions /\ q.todo \subseteq Fmts /\ q.open \subseteq Fmts
        /\ cur \in Nat \ {0} /\ cur \in Versions /\ row.version \in Nat
        /\ child \in [Versions -> [Fmts -> {"absent", "empty", "full"}]]
    BY LoopTypes, Cast DEF LoopInv, Undisturbed
  <1>00. /\ pc[EventLoop] \in {"convert", "touch", "put", "prune"}
         /\ pc[EventLoop] \in InFlight /\ UNCHANGED fixedVars /\ UNCHANGED chunks
    BY DEF Unsupported, ListChildren, Touch, Put, WriteDone, Prune, Upsert, aroundVars,
           storeVars, fixedVars, InFlight
  <1>01. /\ q.ver <= cur /\ (row.version = cur \/ Len(queue) = 1 => q.ver = cur)
         /\ q.ver <= q.got /\ q.got <= cur /\ row.version <= cur
         /\ row.version = q.ver /\ row.status = "converting"
    BY <1>00 DEF LoopInv, OfCurrent, HalfDone, InFlight
  <1>1. CASE Unsupported(EventLoop)
    <2> DEFINE g == [q EXCEPT !.result = "unsupported"]
    <2>1. /\ pc' = [pc EXCEPT ![EventLoop] = "emit"] /\ frame' = [frame EXCEPT ![EventLoop] = g]
          /\ g.ver = q.ver /\ g.got = q.got /\ g.reuse = q.reuse /\ g.result = "unsupported"
          /\ row'.version = q.ver /\ row'.status = "unsupported" /\ UNCHANGED child
          /\ kind[q.got] = "blob"
      BY <1>0, <1>1 DEF Unsupported, Upsert, Goto, Frames, Supported
    <2> HIDE DEF g
    <2>2. pc'[EventLoop] = "emit" /\ frame'[EventLoop] = g
      BY <1>0, <2>1
    <2>3. OfCurrent' /\ HalfDone'
      BY <1>0, <1>00, <1>01, <2>1, <2>2 DEF OfCurrent, HalfDone, fixedVars, InFlight, Terminal
    <2>4. RowOfCurrent'
      <3>1. q.ver = cur => q.got = cur
        BY <1>0, <1>01
      <3> QED
        BY <1>00, <2>1, <3>1 DEF RowOfCurrent, fixedVars, HasText, Dull, ChunksOf, Renders
    <2> QED
      BY <1>00, <2>1, <2>3, <2>4, LoopCall, LoopGoes DEF InFlight
  <1>2. CASE ListChildren(EventLoop)
    <2> DEFINE g == [q EXCEPT !.todo = Missing(EventLoop)]
    <2>1. /\ pc' = [pc EXCEPT ![EventLoop] = "touch"] /\ frame' = [frame EXCEPT ![EventLoop] = g]
          /\ g.ver = q.ver /\ g.got = q.got /\ g.reuse = q.reuse
          /\ g.todo = {f \in Fmts : Renders(q.got) /\ child[q.ver][f] = "absent"}
          /\ UNCHANGED <<row, child>>
      BY <1>0, <1>2 DEF ListChildren, Goto, Frames, Missing, storeVars
    <2> HIDE DEF g
    <2>2. pc'[EventLoop] = "touch" /\ frame'[EventLoop] = g
      BY <1>0, <2>1
    <2>3. OfCurrent' /\ HalfDone' /\ RowOfCurrent'
      BY <1>0, <1>00, <1>01, <2>1, <2>2
         DEF OfCurrent, HalfDone, RowOfCurrent, fixedVars, InFlight, Terminal, Renders
    <2> QED
      BY <1>00, <2>1, <2>3, LoopCall, LoopGoes DEF InFlight
  <1>3. CASE Touch(EventLoop)
    <2>0. PICK f \in q.todo :
              /\ child' = [child EXCEPT ![q.ver][f] = "empty"]
              /\ frame' = [frame EXCEPT ![EventLoop].todo = @ \ {f}, ![EventLoop].open = {f}]
      BY <1>3 DEF Touch
    <2> DEFINE g == [q EXCEPT !.todo = @ \ {f}, !.open = {f}]
    <2>1. /\ pc' = [pc EXCEPT ![EventLoop] = "put"] /\ frame' = [frame EXCEPT ![EventLoop] = g]
          /\ g.ver = q.ver /\ g.got = q.got /\ g.reuse = q.reuse
          /\ g.todo = q.todo \ {f} /\ g.open = {f} /\ UNCHANGED row
          /\ pc[EventLoop] = "touch"
      BY <1>0, <1>3, <2>0 DEF Touch, Goto, Frames, storeVars
    <2> HIDE DEF g
    <2>2. pc'[EventLoop] = "put" /\ frame'[EventLoop] = g
      BY <1>0, <2>1
    <2>3. /\ child'[q.ver][f] = "empty"
          /\ \A e \in Fmts \ {f} : child'[q.ver][e] = child[q.ver][e]
      BY <1>0, <2>0
    <2>4. \A e \in Fmts : /\ e \in q.todo => child[q.ver][e] = "absent"
                          /\ Renders(q.got) /\ child[q.ver][e] = "absent" => e \in q.todo
      BY <2>1 DEF LoopInv, HalfDone
    <2>5. OfCurrent'
      BY <1>0, <1>00, <1>01, <2>1, <2>2 DEF OfCurrent, fixedVars, InFlight
    <2>6. HalfDone'
      BY <1>0, <1>00, <1>01, <2>0, <2>1, <2>2, <2>3, <2>4
         DEF HalfDone, fixedVars, InFlight, Renders
    <2>7. RowOfCurrent'
      BY <1>01, <2>1 DEF RowOfCurrent, Terminal
    <2> QED
      BY <1>00, <2>1, <2>5, <2>6, <2>7, LoopCall, LoopGoes DEF InFlight
  <1>4. CASE Put(EventLoop)
    <2>0. PICK f \in q.open : child' = [child EXCEPT ![q.ver][f] = "full"]
      BY <1>4 DEF Put
    <2> DEFINE g == [q EXCEPT !.open = {}, !.wrote = TRUE]
    <2>1. /\ pc' = [pc EXCEPT ![EventLoop] = "touch"] /\ frame' = [frame EXCEPT ![EventLoop] = g]
          /\ g.ver = q.ver /\ g.got = q.got /\ g.reuse = q.reuse
          /\ g.todo = q.todo /\ UNCHANGED row
          /\ pc[EventLoop] = "put"
      BY <1>0, <1>4 DEF Put, Goto, Frames, storeVars
    <2> HIDE DEF g
    <2>2. pc'[EventLoop] = "touch" /\ frame'[EventLoop] = g
      BY <1>0, <2>1
    <2>3. /\ child'[q.ver][f] = "full"
          /\ \A e \in Fmts \ {f} : child'[q.ver][e] = child[q.ver][e]
      BY <1>0, <2>0
    <2>4. \A e \in Fmts : /\ e \in q.todo => child[q.ver][e] = "absent"
                          /\ Renders(q.got) /\ child[q.ver][e] = "absent" => e \in q.todo
      BY <2>1 DEF LoopInv, HalfDone
    <2>5. f \notin q.todo
      BY <1>0, <2>0, <2>1, <2>4 DEF LoopInv, HalfDone
    <2>6. OfCurrent'
      BY <1>0, <1>00, <1>01, <2>1, <2>2 DEF OfCurrent, fixedVars, InFlight
    <2>7. HalfDone'
      BY <1>0, <1>00, <1>01, <2>0, <2>1, <2>2, <2>3, <2>4, <2>5
         DEF HalfDone, fixedVars, InFlight, Renders
    <2>8. RowOfCurrent'
      BY <1>01, <2>1 DEF RowOfCurrent, Terminal
    <2> QED
      BY <1>00, <2>1, <2>6, <2>7, <2>8, LoopCall, LoopGoes DEF InFlight
  <1>5. CASE WriteDone(EventLoop)
    <2>1. /\ pc' = [pc EXCEPT ![EventLoop] = "prune"] /\ frame' = [frame EXCEPT ![EventLoop] = q]
          /\ q.todo = {} /\ UNCHANGED <<row, child, frame>> /\ pc[EventLoop] = "touch"
      BY <1>0, <1>5 DEF WriteDone, Advance, Goto, storeVars
    <2>2. pc'[EventLoop] = "prune" /\ frame'[EventLoop] = q
      BY <1>0, <2>1
    <2>3. Renders(q.got) => Rendered(q.ver)
      BY <2>1 DEF LoopInv, HalfDone, Rendered
    <2>4. OfCurrent' /\ HalfDone' /\ RowOfCurrent'
      BY <1>0, <1>00, <1>01, <2>1, <2>2, <2>3
         DEF OfCurrent, HalfDone, RowOfCurrent, fixedVars, InFlight, Terminal, Renders, Rendered
    <2> QED
      BY <1>00, <2>1, <2>4, LoopCall, LoopGoes DEF InFlight
  <1>6. CASE Prune(EventLoop)
    <2>1. /\ pc' = [pc EXCEPT ![EventLoop] = "index"] /\ frame' = [frame EXCEPT ![EventLoop] = q]
          /\ UNCHANGED <<row, frame>> /\ pc[EventLoop] = "prune"
          /\ child'[q.ver] = child[q.ver]
      BY <1>0, <1>6 DEF Prune, Advance, Goto, storeVars
    <2>2. pc'[EventLoop] = "index" /\ frame'[EventLoop] = q
      BY <1>0, <2>1
    <2>3. Renders(q.got) => Rendered(q.ver)
      BY <2>1 DEF LoopInv, HalfDone
    <2>4. OfCurrent' /\ HalfDone' /\ RowOfCurrent'
      BY <1>0, <1>00, <1>01, <2>1, <2>2, <2>3
         DEF OfCurrent, HalfDone, RowOfCurrent, fixedVars, InFlight, Terminal, Renders, Rendered
    <2> QED
      BY <1>00, <2>1, <2>4, LoopCall, LoopGoes DEF InFlight
  <1> QED
    BY <1>1, <1>2, <1>3, <1>4, <1>5, <1>6

(* The end of a call: the chunks, the row and the announcement.            *)
LEMMA LoopEnds ==
  ASSUME ErasureInv, Alone, LoopInv, faults' = 0,
         \/ SkipIndex(EventLoop) \/ Index(EventLoop) \/ IndexFails(EventLoop)
         \/ Record(EventLoop) \/ Emit(EventLoop)
  PROVE  LoopInv'
  <1> DEFINE q == frame[EventLoop]
  <1>0. /\ pc \in [Procs -> Steps] /\ frame \in [Procs -> Frames] /\ EventLoop \in Procs
        /\ q \in Frames /\ q.ver \in Nat \ {0} /\ q.got \in Nat \ {0}
        /\ cur \in Nat \ {0} /\ row.version \in Nat /\ faults \in Nat
    BY LoopTypes, Cast DEF ErasureInv, TypeOK, BoundTypeOK
  <1>00. /\ pc[EventLoop] \in {"index", "final", "emit"}
         /\ pc[EventLoop] \in InFlight /\ UNCHANGED fixedVars /\ UNCHANGED child
         /\ ~q.reuse
    BY DEF SkipIndex, Index, IndexFails, Record, Emit, Upsert, ReplaceChunks, DropChunks,
           aroundVars,
           storeVars, fixedVars, InFlight, LoopInv, Undisturbed
  <1>01. /\ q.ver <= cur /\ (row.version = cur \/ Len(queue) = 1 => q.ver = cur)
         /\ q.ver <= q.got /\ q.got <= cur /\ row.version <= cur
         /\ row.version = q.ver
         /\ row.status = IF pc[EventLoop] = "emit" THEN q.result ELSE "converting"
         /\ pc[EventLoop] # "emit" /\ Renders(q.got) => Rendered(q.ver)
    BY <1>00 DEF LoopInv, OfCurrent, HalfDone, InFlight
  <1>1. CASE SkipIndex(EventLoop)
    <2> DEFINE g == [q EXCEPT !.result = "converted"]
    <2>1. /\ pc' = [pc EXCEPT ![EventLoop] = "final"] /\ frame' = [frame EXCEPT ![EventLoop] = g]
          /\ g.ver = q.ver /\ g.got = q.got /\ g.reuse = q.reuse /\ g.result = "converted"
          /\ UNCHANGED <<row, chunks>> /\ pc[EventLoop] = "index"
      BY <1>0, <1>00, <1>1 DEF SkipIndex, Resolve, Goto, Frames, storeVars
    <2> HIDE DEF g
    <2>2. pc'[EventLoop] = "final" /\ frame'[EventLoop] = g
      BY <1>0, <2>1
    <2>3. OfCurrent' /\ HalfDone' /\ RowOfCurrent'
      BY <1>0, <1>00, <1>01, <2>1, <2>2
         DEF OfCurrent, HalfDone, RowOfCurrent, fixedVars, InFlight, Terminal, Renders, Rendered
    <2> QED
      BY <1>00, <2>1, <2>3, LoopCall, LoopGoes DEF InFlight
  <1>2. CASE Index(EventLoop)
    <2> DEFINE g == [q EXCEPT !.result = "indexed"]
    <2>1. /\ pc' = [pc EXCEPT ![EventLoop] = "final"] /\ frame' = [frame EXCEPT ![EventLoop] = g]
          /\ g.ver = q.ver /\ g.got = q.got /\ g.reuse = q.reuse /\ g.result = "indexed"
          /\ UNCHANGED row /\ chunks' = ChunksOf(q.got) /\ pc[EventLoop] = "index"
      BY <1>0, <1>2 DEF Index, ReplaceChunks, DropChunks, ChunksOf, Resolve, Goto, Frames
    <2> HIDE DEF g
    <2>2. pc'[EventLoop] = "final" /\ frame'[EventLoop] = g
      BY <1>0, <2>1
    <2>3. OfCurrent' /\ HalfDone' /\ RowOfCurrent'
      <3>1. OfCurrent' /\ RowOfCurrent'
        BY <1>0, <1>00, <1>01, <2>1, <2>2
           DEF OfCurrent, RowOfCurrent, fixedVars, InFlight, Terminal
      <3>2. HalfDone'
        BY <1>0, <1>00, <1>01, <2>1, <2>2
           DEF HalfDone, fixedVars, InFlight, Terminal, Renders, Rendered, Dull, ChunksOf
      <3> QED
        BY <3>1, <3>2
    <2> QED
      BY <1>00, <2>1, <2>3, LoopCall, LoopGoes DEF InFlight
  <1>3. ~IndexFails(EventLoop)
    <2>1. SpendFault => faults' # 0
      BY <1>0 DEF SpendFault
    <2>2. pc[EventLoop] = "index" => CanReplaceChunks
      BY <1>01 DEF CanReplaceChunks, HasRow
    <2> QED
      BY <2>1, <2>2 DEF IndexFails
  <1>4. CASE Record(EventLoop)
    <2>1. /\ pc' = [pc EXCEPT ![EventLoop] = "emit"] /\ frame' = [frame EXCEPT ![EventLoop] = q]
          /\ row'.version = q.ver /\ row'.status = q.result
          /\ HasText(q.got) => row'.text = q.got
          /\ UNCHANGED <<chunks, frame>> /\ pc[EventLoop] = "final"
      BY <1>0, <1>4 DEF Record, Upsert, Advance, Goto
    <2>2. pc'[EventLoop] = "emit" /\ frame'[EventLoop] = q
      BY <1>0, <2>1
    <2>3. q.result \in Terminal /\ (q.result = "indexed" => chunks = ChunksOf(q.got))
      BY <2>1 DEF LoopInv, HalfDone
    <2>4. q.ver = cur => q.got = cur
      BY <1>0, <1>01
    <2>5. OfCurrent' /\ HalfDone'
      BY <1>0, <1>00, <1>01, <2>1, <2>2, <2>3 DEF OfCurrent, HalfDone, fixedVars, InFlight
    <2>6. RowOfCurrent'
      BY <1>00, <1>01, <2>1, <2>3, <2>4
         DEF RowOfCurrent, fixedVars, HasText, Dull, ChunksOf, Renders, Rendered
    <2> QED
      BY <1>00, <2>1, <2>5, <2>6, LoopCall, LoopGoes DEF InFlight
  <1>5. CASE Emit(EventLoop)
    <2>1. /\ pc' = [pc EXCEPT ![EventLoop] = "done"]
          /\ frame' = [frame EXCEPT ![EventLoop] = NoFrame]
          /\ UNCHANGED <<row, chunks, child>> /\ pc[EventLoop] = "emit"
      BY <1>5 DEF Emit, Return, Leave, Goto, storeVars
    <2>2. Len(queue) = 1 => DescribesFile
      BY <1>00, <1>01, <2>1, LoopCall, ResolvedDescribes DEF LoopInv, HalfDone
    <2> QED
      BY <1>00, <2>1, <2>2, LoopLeaves
  <1> QED
    BY <1>1, <1>2, <1>3, <1>4, <1>5

(* An outage leaves the event pending: it cannot fall into the replay of a *)
(* restart, and nothing else goes wrong.                                   *)
LEMMA LoopFails ==
  ASSUME ErasureInv, Alone, LoopInv, faults' = 0,
         \/ WriteRefused(EventLoop) \/ CoreRefuses(EventLoop) \/ Fault(EventLoop)
  PROVE  LoopInv'
  <1> DEFINE q == frame[EventLoop]
  <1>0. live # "erased" /\ ~Forced(EventLoop) /\ (crashes = 0 \/ flips = 0)
    BY DEF Alone, Forced
  <1>1. CASE WriteRefused(EventLoop)
    <2>1. /\ pc[EventLoop] \in InFlight /\ UNCHANGED fixedVars /\ UNCHANGED <<row, chunks, child>>
          /\ readonly
      BY <1>1 DEF WriteRefused, aroundVars, storeVars, fixedVars, InFlight
    <2>2. ~draining
      BY <1>0, <2>1 DEF LoopInv, Undisturbed
    <2>3. /\ pc' = [pc EXCEPT ![EventLoop] = "idle"]
          /\ frame' = [frame EXCEPT ![EventLoop] = NoFrame]
      BY <1>1, <2>2 DEF WriteRefused, Leave, Goto
    <2> QED
      BY <2>1, <2>3, LoopLeaves
  <1>2. ~CoreRefuses(EventLoop)
    <2>1. ~Unreportable(EventLoop)
      BY <1>0 DEF Unreportable
    <2>2. pc[EventLoop] = "touch" => \A f \in q.todo : child[q.ver][f] = "absent"
      BY LoopTypes DEF LoopInv, HalfDone
    <2>3. pc[EventLoop] = "put" => \A f \in q.open : child[q.ver][f] # "absent"
      BY DEF LoopInv, HalfDone
    <2> QED
      BY <1>0, <2>1, <2>2, <2>3 DEF CoreRefuses
  <1>3. ~Fault(EventLoop)
    BY DEF Fault, SpendFault, ErasureInv, TypeOK, BoundTypeOK
  <1> QED
    BY <1>1, <1>2, <1>3

(* No other call of convert is under way or begins.                        *)
LEMMA OthersRest ==
  ASSUME Alone, LoopInv, NEW c \in Converters, Convert(c) \/ Fault(c)
  PROVE  c = EventLoop
  <1> SUFFICES ASSUME c # EventLoop PROVE FALSE
    OBVIOUS
  <1>1. pc[c] = "idle" /\ scope.agents = {}
    BY DEF Alone, LoopInv, Undisturbed
  <1>2. ~ListRow(c) /\ ~Begin(c)
    BY <1>1 DEF ListRow, Begin
  <1>3. /\ ~Stat(c) /\ ~GetStatus(c) /\ ~Fetch(c) /\ ~MarkConverting(c) /\ ~Unsupported(c)
        /\ ~ListChildren(c) /\ ~Touch(c) /\ ~Put(c) /\ ~WriteDone(c) /\ ~Prune(c)
    BY <1>1 DEF Stat, GetStatus, Fetch, MarkConverting, Unsupported, ListChildren, Touch, Put,
                WriteDone, Prune
  <1>4. /\ ~SkipIndex(c) /\ ~Index(c) /\ ~IndexFails(c) /\ ~Record(c) /\ ~Emit(c)
        /\ ~WriteRefused(c) /\ ~CoreRefuses(c) /\ ~Fault(c)
    BY <1>1 DEF SkipIndex, Index, IndexFails, Record, Emit, WriteRefused, CoreRefuses, Fault,
                InFlight
  <1> QED
    BY <1>2, <1>3, <1>4 DEF Convert

(* What happens to the file meanwhile: every upload, delete and restore    *)
(* puts its event behind the one that is being handled.                    *)
LEMMA FileChanges ==
  ASSUME ErasureInv, LoopInv, Upload \/ SoftDelete \/ Restore
  PROVE  LoopInv'
  <1>0. queue \in Seq({"changed", "deleted", "erased"}) /\ Len(queue) \in Nat
        /\ cur \in Nat \ {0} /\ row.version \in Nat
        /\ (pc[EventLoop] # "idle" => Len(queue) # 0)
    BY LoopTypes
  <1>1. PICK e \in {"changed", "deleted"} :
           /\ queue' = Append(queue, e)
           /\ e = IF live' = "present" THEN "changed" ELSE "deleted"
    BY DEF Upload, SoftDelete, Restore, Publish
  <1>2. /\ Len(queue') = Len(queue) + 1 /\ queue'[Len(queue')] = e /\ queue' # <<>>
        /\ \A i \in 1..Len(queue) : queue'[i] = queue[i]
        /\ \A i \in 1..Len(queue') : i \in 1..Len(queue) \/ i = Len(queue')
    BY <1>0, <1>1
  <1>3. /\ UNCHANGED <<pc, frame, tomb, erasure, draining, crashes, readonly, flips, row, chunks,
                       child, scope, kind>>
        /\ cur' = cur \/ cur' = cur + 1
    BY DEF Upload, SoftDelete, Restore, storeVars, boundVars
  <1>4. Undisturbed'
    BY <1>3 DEF LoopInv, Undisturbed
  <1>5. EventsInOrder'
    BY <1>0, <1>1, <1>2, <1>3 DEF LoopInv, EventsInOrder, InFlight
  <1>6. OfCurrent'
    <2>1. pc[EventLoop] \in InFlight => Len(queue') # 1
      BY <1>0, <1>2 DEF InFlight
    <2>2. frame[EventLoop].ver \in Nat /\ frame[EventLoop].got \in Nat
      BY LoopTypes
    <2> QED
      BY <1>0, <1>3, <2>1, <2>2 DEF LoopInv, OfCurrent
  <1>7. HalfDone'
    BY <1>3 DEF LoopInv, HalfDone, Rendered, Renders, Dull, ChunksOf
  <1>8. RowOfCurrent'
    <2>1. cur' = cur + 1 => row.version # cur'
      BY <1>0 DEF LoopInv, OfCurrent
    <2> QED
      BY <1>3, <2>1 DEF LoopInv, RowOfCurrent, HasText, Dull, ChunksOf, Renders, Rendered
  <1>9. LastHandled'
    BY <1>0, <1>2, <1>3 DEF LastHandled
  <1> QED
    BY <1>4, <1>5, <1>6, <1>7, <1>8, <1>9 DEF LoopInv

(* The delete of the row, and the acknowledgement of an event.             *)
LEMMA EventHandled ==
  ASSUME ErasureInv, Alone, LoopInv, HandleDelete \/ Ack
  PROVE  LoopInv'
  <1>0. /\ pc \in [Procs -> Steps] /\ EventLoop \in Procs
        /\ queue \in Seq({"changed", "deleted", "erased"}) /\ Len(queue) \in Nat
        /\ cur \in Nat \ {0} /\ row.version \in Nat /\ live # "erased"
        /\ (pc[EventLoop] # "idle" => queue # <<>> /\ Len(queue) # 0)
    BY LoopTypes DEF Alone
  <1>1. CASE HandleDelete
    <2>1. /\ pc' = [pc EXCEPT ![EventLoop] = "done"] /\ UNCHANGED fixedVars
          /\ UNCHANGED <<child, frame>> /\ row' = NoRow /\ chunks' = 0
          /\ queue # <<>> /\ queue[1] = "deleted"
      BY <1>1 DEF HandleDelete, HeadIs, DeleteRow, Advance, Goto, coreVars, boundVars, fixedVars
    <2>2. pc'[EventLoop] = "done"
      BY <1>0, <2>1
    <2>3. NoRow.version = 0 /\ NoRow.status \notin Terminal
      BY DEF NoRow, Terminal
    <2>4. Undisturbed'
      BY <1>0, <2>1, <2>2, Cast DEF LoopInv, Undisturbed, fixedVars
    <2>5. EventsInOrder' /\ OfCurrent' /\ HalfDone' /\ RowOfCurrent'
      BY <1>0, <2>1, <2>2, <2>3
         DEF LoopInv, EventsInOrder, OfCurrent, HalfDone, RowOfCurrent, fixedVars, InFlight
    <2>6. LastHandled'
      <3>1. Len(queue) = 1 => live # "present"
        BY <2>1 DEF LoopInv, EventsInOrder
      <3> QED
        BY <1>0, <2>1, <3>1 DEF LastHandled, DescribesFile, fixedVars
    <2> QED
      BY <2>4, <2>5, <2>6 DEF LoopInv
  <1>2. CASE Ack
    <2>1. /\ pc[EventLoop] = "done" /\ pc' = [pc EXCEPT ![EventLoop] = "idle"]
          /\ queue' = Tail(queue) /\ draining' = FALSE
          /\ UNCHANGED <<frame, row, chunks, tomb, child, cur, kind, live, readonly, erasure,
                         scope, crashes, flips>>
      BY <1>2 DEF Ack, Advance, Goto, storeVars, coreVars, boundVars
    <2>2. pc'[EventLoop] = "idle"
      BY <1>0, <2>1
    <2>3. /\ Len(queue') = Len(queue) - 1
          /\ \A i \in 1..Len(queue') : queue'[i] = queue[i+1]
          /\ \A i \in 1..Len(queue') : i + 1 \in 1..Len(queue)
          /\ queue' # <<>> => Len(queue') # 0 /\ Len(queue') \in 1..Len(queue')
          /\ queue' = <<>> => Len(queue) = 1
      <3>1. /\ Len(queue') = Len(queue) - 1 /\ Len(queue') \in Nat
            /\ \A i \in 1..Len(queue') : queue'[i] = queue[i+1]
            /\ queue' \in Seq({"changed", "deleted", "erased"})
        BY <1>0, <2>1, HeadTailProperties
      <3>2. Len(queue') = 0 <=> queue' = <<>>
        BY <3>1, EmptySeq
      <3> QED
        BY <1>0, <2>1, <3>1, <3>2
    <2>4. Undisturbed'
      BY <1>0, <2>1, <2>2, Cast DEF LoopInv, Undisturbed
    <2>5. EventsInOrder'
      <3>1. queue' # <<>> => queue'[Len(queue')] = queue[Len(queue)]
        BY <1>0, <2>1, <2>3
      <3> QED
        BY <1>0, <2>1, <2>2, <2>3, <3>1 DEF LoopInv, EventsInOrder, InFlight
    <2>6. OfCurrent' /\ HalfDone' /\ RowOfCurrent'
      BY <2>1, <2>2
         DEF LoopInv, OfCurrent, HalfDone, RowOfCurrent, InFlight, HasText, Dull, ChunksOf,
             Renders, Rendered
    <2>7. LastHandled'
      BY <1>0, <2>1, <2>2, <2>3
         DEF LoopInv, LastHandled, DescribesFile, HasText, Dull, ChunksOf, Renders
    <2> QED
      BY <2>4, <2>5, <2>6, <2>7 DEF LoopInv
  <1> QED
    BY <1>1, <1>2

(* A restart: the event that was being handled is handled again.           *)
LEMMA Restarts ==
  ASSUME ErasureInv, Alone, LoopInv, Crash
  PROVE  LoopInv'
  <1>0. /\ pc \in [Procs -> Steps] /\ frame \in [Procs -> Frames] /\ EventLoop \in Procs
        /\ EventLoop \in Worker
    BY LoopTypes DEF Worker
  <1>1. /\ pc'[EventLoop] = "idle" /\ frame'[EventLoop] = NoFrame
        /\ \A c \in Procs : pc'[c] = pc[c] \/ pc'[c] = "idle"
        /\ UNCHANGED <<row, chunks, tomb, child, cur, kind, live, readonly, erasure,
                       scope, flips, queue>>
        /\ crashes' # 0
    BY <1>0 DEF Crash, storeVars, coreVars, ErasureInv, TypeOK, BoundTypeOK
  <1>2. Undisturbed'
    BY <1>0, <1>1, Cast DEF LoopInv, Undisturbed, NoFrame
  <1>3. EventsInOrder' /\ OfCurrent' /\ HalfDone' /\ RowOfCurrent'
    BY <1>1 DEF LoopInv, EventsInOrder, OfCurrent, HalfDone, RowOfCurrent, InFlight, HasText,
                Dull, ChunksOf,
                Renders, Rendered
  <1>4. LastHandled'
    BY <1>1 DEF LoopInv, LastHandled, DescribesFile, HasText, Dull, ChunksOf, Renders
  <1> QED
    BY <1>2, <1>3, <1>4 DEF LoopInv

(* What has once disturbed the loop has disturbed it for good.             *)
LEMMA AloneBefore ==
  ASSUME TypeOK, [Next]_vars, Alone'
  PROVE  Alone
  <1> USE DEF Alone, TypeOK, BoundTypeOK
  <1>1. CASE Upload \/ SoftDelete \/ Restore \/ CoreErase \/ Failover
    BY <1>1 DEF Upload, SoftDelete, Restore, CoreErase, Failover, boundVars
  <1>2. ASSUME NEW c \in Converters, Convert(c) \/ Fault(c) PROVE Alone
    <2>1. UNCHANGED <<scope, crashes, flips, live>> /\ (faults' = faults \/ SpendFault)
      BY <1>2 DEF Convert, ListRow, Begin, Stat, GetStatus, Fetch, MarkConverting, Unsupported,
                  ListChildren, Touch, Put, WriteDone, Prune, SkipIndex, Index, IndexFails,
                  Record, Emit, WriteRefused, CoreRefuses, Fault, aroundVars
    <2> QED
      BY <2>1 DEF SpendFault
  <1>3. CASE HandleDelete \/ Ack \/ Crash
    BY <1>3 DEF HandleDelete, Ack, Crash, coreVars, boundVars
  <1>4. ASSUME NEW p \in {EventLoop, Eraser}, Erasing(p) PROVE Alone
    BY <1>4 DEF Erasing, HonourErasure, EraseFails, Acknowledge, SpendFault, coreVars, boundVars,
                aroundVars
  <1>5. CASE UNCHANGED vars
    BY <1>5 DEF vars, coreVars, boundVars
  <1> QED
    BY <1>1, <1>2, <1>3, <1>4, <1>5 DEF Next

LEMMA NextAloneInv == ErasureInv /\ AloneInv /\ [Next]_vars => AloneInv'
  <1> SUFFICES ASSUME ErasureInv, AloneInv, [Next]_vars, Alone' PROVE LoopInv'
    BY DEF AloneInv
  <1>0. Alone /\ LoopInv /\ faults' = 0 /\ live' # "erased" /\ (crashes' = 0 \/ flips' = 0)
    <2>1. Alone
      BY AloneBefore DEF ErasureInv
    <2> QED
      BY <2>1 DEF AloneInv, Alone
  <1>1. CASE Upload \/ SoftDelete \/ Restore
    BY <1>0, <1>1, FileChanges
  <1>2. ~CoreErase
    BY <1>0 DEF CoreErase
  <1>3. CASE Failover
    <2>1. /\ UNCHANGED <<pc, frame, row, chunks, tomb, child, cur, kind, live, erasure, queue,
                         draining, scope, crashes>>
          /\ flips' # 0
      BY <1>3 DEF Failover, storeVars, streamVars, ErasureInv, TypeOK, BoundTypeOK
    <2>2. Undisturbed'
      BY <1>0, <2>1 DEF LoopInv, Undisturbed
    <2>3. EventsInOrder' /\ OfCurrent' /\ HalfDone' /\ RowOfCurrent'
      BY <1>0, <2>1 DEF LoopInv, EventsInOrder, OfCurrent, HalfDone, RowOfCurrent, HasText, Dull,
                        ChunksOf, Renders,
                  Rendered
    <2>4. LastHandled'
      BY <1>0, <2>1 DEF LoopInv, LastHandled, DescribesFile, HasText, Dull, ChunksOf, Renders
    <2> QED
      BY <2>2, <2>3, <2>4 DEF LoopInv
  <1>4. ASSUME NEW c \in Converters, Convert(c) \/ Fault(c) PROVE LoopInv'
    <2>1. Convert(EventLoop) \/ Fault(EventLoop)
      BY <1>0, <1>4, OthersRest
    <2>2. ~ListRow(EventLoop)
      BY Cast DEF ListRow
    <2> QED
      BY <1>0, <2>1, <2>2, LoopReads, LoopWrites, LoopEnds, LoopFails DEF Convert
  <1>5. CASE HandleDelete \/ Ack
    BY <1>0, <1>5, EventHandled
  <1>6. ~\E p \in {EventLoop, Eraser} : Erasing(p)
    <2> SUFFICES ASSUME NEW p \in {EventLoop, Eraser}, Erasing(p) PROVE FALSE
      OBVIOUS
    <2>1. ~HeadIs("erased")
      BY <1>0, LoopTypes DEF HeadIs, LoopInv, EventsInOrder
    <2>2. ~MayErase(p)
      BY <1>0, <2>1 DEF MayErase, LoopInv, Undisturbed
    <2>3. pc[p] # "ack"
      BY <1>0, Cast DEF ErasureInv, AckAfterErase, LoopInv, Undisturbed
    <2> QED
      BY <2>2, <2>3 DEF Erasing, HonourErasure, EraseFails, Acknowledge
  <1>7. CASE Crash
    BY <1>0, <1>7, Restarts
  <1>8. CASE UNCHANGED vars
    BY <1>0, <1>8 DEF vars, storeVars, coreVars, streamVars, boundVars, LoopInv, Undisturbed,
       EventsInOrder, OfCurrent, HalfDone, RowOfCurrent, LastHandled, DescribesFile, HasText,
       Dull, ChunksOf,
       Renders, Rendered
  <1> QED
    BY <1>1, <1>2, <1>3, <1>4, <1>5, <1>6, <1>7, <1>8 DEF Next

LEMMA InitAloneInv == Init => AloneInv
  <1> SUFFICES ASSUME Init PROVE LoopInv
    BY DEF AloneInv
  <1>1. /\ \A c \in Procs : pc[c] = "idle" /\ frame[c] = NoFrame
        /\ EventLoop \in Procs /\ Converters \subseteq Procs
        /\ queue = <<"changed">> /\ live = "present" /\ cur = 1 /\ row = NoRow
        /\ ~tomb /\ erasure = "none" /\ ~draining /\ ~readonly
    BY Cast DEF Init, StoreInit
  <1>2. Len(queue) = 1 /\ queue[1] = "changed" /\ queue # <<>>
    BY <1>1
  <1>3. Undisturbed
    BY <1>1 DEF Undisturbed, NoFrame
  <1>4. EventsInOrder
    BY <1>1, <1>2 DEF EventsInOrder
  <1>5. OfCurrent /\ HalfDone /\ RowOfCurrent
    BY <1>1 DEF OfCurrent, HalfDone, RowOfCurrent, InFlight, NoRow
  <1>6. LastHandled
    BY <1>1, <1>2 DEF LastHandled
  <1> QED
    BY <1>3, <1>4, <1>5, <1>6 DEF LoopInv

(* The database tells the truth about the file: of a row the event loop    *)
(* alone has settled, and of the chunks of an indexed one at any time      *)
(* (pipeline.py convert, consumer.py: redelivery and the pending list).    *)
THEOREM RowsStayTrue == Spec => []RowsAreTrue
  <1>1. ChunksInv => IndexedHasChunks
    BY DEF ChunksInv, Backed, IndexedHasChunks
  <1>2. TypeOK /\ AloneInv => SettledConsistent
    <2> SUFFICES ASSUME TypeOK, AloneInv, Settled, cur \notin scope.oversized,
                        scope.agents = {}, faults = 0, crashes = 0 \/ flips = 0
                 PROVE  DescribesFile
      BY DEF SettledConsistent
    <2>1. CASE live = "erased"
      BY <2>1 DEF DescribesFile
    <2>2. CASE live # "erased"
      BY <2>2 DEF Alone, AloneInv, LoopInv, LastHandled, Settled
    <2> QED
      BY <2>1, <2>2
  <1> QED
    BY <1>1, <1>2, TypeCorrect, ErasureInvariant, InitChunksInv, NextChunksInv, InitAloneInv,
       NextAloneInv, PTL DEF Spec, RowsAreTrue
=============================================================================
