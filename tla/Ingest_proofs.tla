---------------------------- MODULE Ingest_proofs ----------------------------
(***************************************************************************)
(* For every stream length, batch size and number of restarts, outages and *)
(* faults: the ingest loop's types, that it acks in stream order but for   *)
(* what a fault stranded, that it implements OrderedConsumer, and that an  *)
(* outage drops nothing.                                                   *)
(***************************************************************************)
EXTENDS Ingest, TLAPS, FiniteSetTheorems

LEMMA InitOrderInv == Init => OrderInv
  <1> SUFFICES ASSUME Init PROVE OrderInv
    OBVIOUS
  <1>1. TypeOK
    <2>1. \A n \in Nat : 0 \in 0..n
      OBVIOUS
    <2> QED
      BY <2>1, IngestAssumption DEF Init, TypeOK
  <1>2. Pending = {}
    BY DEF Init, Pending
  <1> QED
    BY <1>1, <1>2 DEF Init, OrderInv, BatchIsOldest, Replaying

(* The oldest messages of a set are an initial part of it.                 *)
LEMMA OldestIsInitial ==
  ASSUME NEW n \in Nat, NEW S \in SUBSET (1..n),
         NEW m \in Oldest(S), NEW k \in S, k < m
  PROVE  k \in Oldest(S)
  <1> DEFINE Below(i) == {j \in S : j < i}
  <1>1. IsFiniteSet(1..n)
    BY FS_Interval
  <1>2. IsFiniteSet(Below(m)) /\ IsFiniteSet(Below(k))
    BY <1>1, FS_Subset
  <1>3. Below(k) \subseteq Below(m)
    <2>1. m \in Nat /\ k \in Nat
      BY DEF Oldest
    <2> SUFFICES ASSUME NEW j \in S, j < k PROVE j < m
      OBVIOUS
    <2>2. j \in Nat
      OBVIOUS
    <2> QED
      BY <2>1, <2>2
  <1>4. /\ Cardinality(Below(k)) <= Cardinality(Below(m))
        /\ Cardinality(Below(k)) \in Nat /\ Cardinality(Below(m)) \in Nat
    BY <1>2, <1>3, FS_Subset, FS_CardinalityType
  <1>5. Cardinality(Below(m)) < Count
    BY DEF Oldest
  <1> QED
    BY <1>4, <1>5, IngestAssumption DEF Oldest

(* Every delivery adds the messages after the group's last one.            *)
LEMMA DeliverFacts ==
  ASSUME OrderInv, TakeNew
  PROVE  /\ read \in Nat /\ read' \in Nat /\ sent \in Nat
         /\ read < read' /\ read' <= sent
         /\ Pending' = Pending \cup (read + 1)..read'
         /\ Pending = stranded
         /\ ~Replaying'
         /\ sent' = sent /\ acked' = acked /\ acking' = 0
  <1>1. /\ read \in Nat /\ read' \in Nat /\ sent \in Nat
        /\ read < read' /\ read' <= sent
        /\ sent' = sent /\ acked' = acked /\ acking' = 0 /\ ~Replaying'
    BY IngestAssumption DEF TakeNew, OrderInv, TypeOK, Resting, Replaying
  <1>2. acked \subseteq 1..read
    BY DEF OrderInv, TypeOK
  <1>3. Pending' = Pending \cup (read + 1)..read'
    BY <1>1, <1>2 DEF Pending
  <1>4. Pending = stranded
    BY DEF TakeNew, OrderInv, Resting
  <1> QED
    BY <1>1, <1>3, <1>4

LEMMA NextOrderInv == OrderInv /\ [Next]_vars => OrderInv'
  <1> SUFFICES ASSUME OrderInv, [Next]_vars PROVE OrderInv'
    OBVIOUS
  <1> USE IngestAssumption DEF workerVars, boundVars
  <1>0. TypeOK /\ read \in Nat /\ sent \in Nat
    BY DEF OrderInv, TypeOK
  <1>1. CASE Emit \/ Failover
    <2>1. TypeOK'
      <3>1. CASE Emit
        BY <1>0, <3>1 DEF Emit, TypeOK
      <3>2. CASE Failover
        BY <1>0, <3>2 DEF Failover, TypeOK
      <3> QED
        BY <1>1, <3>1, <3>2
    <2>2. UNCHANGED <<read, acked, workerVars, stranded>>
      BY <1>1 DEF Emit, Failover
    <2>3. Pending' = Pending /\ (Replaying' <=> Replaying)
      BY <2>2 DEF Pending, Replaying
    <2> QED
      BY <2>1, <2>2, <2>3 DEF OrderInv, BatchIsOldest
  <1>2. CASE ReadPending
    <2>1. Pending \in SUBSET (1..read)
      BY DEF Pending
    <2>2. /\ batch' = Oldest(Pending) /\ Pending' = Pending /\ acking' = 0
          /\ stranded' = {} /\ Replaying' /\ stranded' = stranded
      BY <1>2 DEF ReadPending, Pending, Resting, Replaying, OrderInv
    <2>3. BatchIsOldest'
      <3>1. \A m \in Oldest(Pending), k \in Pending : k < m => k \in Oldest(Pending)
        BY <1>0, <2>1, OldestIsInitial
      <3> QED
        BY <2>2, <3>1 DEF BatchIsOldest
    <2>4. batch' \subseteq Pending'
      BY <2>2 DEF Oldest
    <2>5. TypeOK'
      BY <1>0, <1>2, <2>1, <2>2, <2>4 DEF ReadPending, TypeOK
    <2> QED
      BY <2>2, <2>3, <2>4, <2>5 DEF OrderInv
  <1>3. CASE PendingCleared
    BY <1>3 DEF PendingCleared, BackToNormal, OrderInv, TypeOK, Pending, Replaying, BatchIsOldest
  <1>4. CASE PendingTimesOut \/ DrainFails
    <2>1. /\ faults' \in 0..MaxFaults /\ stranded' = stranded \cup Pending
          /\ BackToNormal /\ Replaying
      BY <1>0, <1>4 DEF PendingTimesOut, DrainFails, Strand, TypeOK, Replaying
    <2>2. Pending \subseteq 1..read /\ Pending' = Pending /\ stranded' = Pending
      BY <2>1 DEF BackToNormal, Pending, OrderInv
    <2>4. acking' \in 0..read' /\ batch' \subseteq 1..read' /\ stranded' \subseteq 1..read'
      BY <1>0, <2>1, <2>2 DEF BackToNormal
    <2>3. TypeOK'
      BY <1>0, <2>1, <2>4 DEF BackToNormal, TypeOK
    <2> QED
      BY <2>1, <2>2, <2>3 DEF BackToNormal, OrderInv, Replaying, BatchIsOldest
  <1>5. CASE ReadNew
    <2> USE DeliverFacts
    <2>1. /\ batch' = (read + 1)..read' /\ stranded' = stranded /\ TakeNew
      BY <1>5 DEF ReadNew
    <2>2. TypeOK'
      BY <1>0, <1>5, <2>1 DEF ReadNew, TakeNew, TypeOK
    <2>3. stranded \subseteq 1..read
      BY <1>0 DEF TypeOK
    <2>4. /\ batch' \subseteq Pending' \ stranded' /\ stranded' \subseteq Pending'
          /\ Pending' \ stranded' \subseteq batch'
      BY <2>1, <2>3
    <2>5. BatchIsOldest'
      BY <2>4 DEF BatchIsOldest
    <2> QED
      BY <2>1, <2>2, <2>4, <2>5 DEF OrderInv
  <1>6. CASE ReadTimesOut
    <2> USE DeliverFacts
    <2>1. /\ batch' = {} /\ stranded' = stranded \cup (read + 1)..read' /\ TakeNew
          /\ faults' \in 0..MaxFaults
      BY <1>0, <1>6 DEF ReadTimesOut, Strand, TypeOK
    <2>2. stranded \subseteq 1..read
      BY <1>0 DEF TypeOK
    <2>3. TypeOK'
      BY <1>0, <1>6, <2>1, <2>2 DEF TakeNew, TypeOK
    <2> QED
      BY <2>1, <2>3 DEF OrderInv, BatchIsOldest
  <1>7. CASE Handle
    <2>1. PICK m \in batch : UpNext(m) /\ acking' = m
                             /\ done' \subseteq done \cup {m}
      BY <1>7 DEF Handle
    <2>2. TypeOK'
      BY <1>0, <1>7, <2>1 DEF Handle, TypeOK
    <2> QED
      BY <1>7, <2>1, <2>2 DEF Handle, UpNext, OrderInv, Pending, Replaying, BatchIsOldest
  <1>8. CASE Pause
    BY <1>8 DEF Pause, UpNext, OrderInv, TypeOK, Pending, Replaying, BatchIsOldest
  <1>9. CASE Ack
    <2>1. acking \in batch /\ acking \in Pending \ stranded /\ acking \in 1..read
      BY <1>0, <1>9 DEF Ack, OrderInv, TypeOK
    <2>2. /\ Pending' = Pending \ {acking} /\ batch' = batch \ {acking}
          /\ acking' = 0 /\ stranded' = stranded /\ Replaying' = Replaying
      BY <1>9 DEF Ack, Pending, Replaying
    <2>3. TypeOK'
      BY <1>0, <1>9, <2>1 DEF Ack, TypeOK
    <2>4. BatchIsOldest'
      BY <2>2 DEF OrderInv, BatchIsOldest
    <2> QED
      BY <2>1, <2>2, <2>3, <2>4 DEF OrderInv
  <1>10. CASE Crash
    <2>1. crashes' \in 0..MaxCrashes
      BY <1>0, <1>10 DEF Crash, TypeOK
    <2>3. acking' \in 0..read' /\ batch' \subseteq 1..read' /\ stranded' \subseteq 1..read'
      BY <1>0, <1>10 DEF Crash
    <2>2. TypeOK'
      BY <1>0, <1>10, <2>1, <2>3 DEF Crash, TypeOK
    <2> QED
      BY <1>10, <2>2 DEF Crash, OrderInv, Pending, Replaying, BatchIsOldest
  <1>11. CASE UNCHANGED vars
    BY <1>11 DEF vars, OrderInv, TypeOK, Pending, Replaying, BatchIsOldest
  <1> QED
    BY <1>1, <1>2, <1>3, <1>4, <1>5, <1>6, <1>7, <1>8, <1>9, <1>10, <1>11
       DEF Next, Loop

(* Every reachable state satisfies the strengthened invariant.             *)
THEOREM OrderInvariant == Spec => []OrderInv
  BY InitOrderInv, NextOrderInv, PTL DEF Spec

(* Every reachable state of the loop is well typed.                        *)
THEOREM IngestTypeCorrect == Spec => []TypeOK
  <1>1. OrderInv => TypeOK
    BY DEF OrderInv
  <1> QED
    BY <1>1, OrderInvariant, PTL

-----------------------------------------------------------------------------
(* The message the loop is about to handle, or has handled and not acked,  *)
(* is the oldest one neither acked nor stranded.                           *)
LEMMA HeadIsDue ==
  ASSUME OrderInv, NEW m \in batch, \A k \in batch : m <= k
  PROVE  Consumer!Due(m) /\ m \in 1..sent
  <1>1. /\ m \in Pending \ stranded /\ m \in 1..read
        /\ read \in Nat /\ sent \in Nat /\ read <= sent
    BY IngestAssumption DEF OrderInv, TypeOK, Pending
  <1>2. 1..(m - 1) \subseteq acked \cup stranded
    <2> SUFFICES ASSUME NEW k \in 1..(m - 1) PROVE k \in acked \cup stranded
      OBVIOUS
    <2>1. k \in 1..read /\ k < m
      BY <1>1
    <2>2. k \notin batch
      BY <1>1, <2>1
    <2> QED
      BY <2>1, <2>2 DEF OrderInv, BatchIsOldest, Pending
  <1> QED
    BY <1>1, <1>2 DEF Consumer!Due, Pending

(* Every step of the loop is a step of the consumer, or changes nothing it *)
(* sees.                                                                   *)
LEMMA StepImplements ==
  ASSUME OrderInv, [Next]_vars
  PROVE  [Consumer!Next]_<<sent, acked, done, stranded, faults>>
  <1> USE DEF workerVars, boundVars, Consumer!Next
  <1>0. /\ Pending \subseteq (1..sent) \ acked
        /\ read \in Nat /\ sent \in Nat
    BY IngestAssumption DEF OrderInv, TypeOK, Pending
  <1>1. CASE Emit
    BY <1>1 DEF Emit, Consumer!Send
  <1>2. CASE Handle
    <2>1. PICK m \in batch : UpNext(m) /\ (done' = done \/ done' = done \cup {m})
      BY <1>2 DEF Handle
    <2>2. Consumer!Due(m) /\ m \in 1..sent
      BY <2>1, HeadIsDue DEF UpNext
    <2> QED
      BY <1>2, <2>1, <2>2 DEF Handle, Consumer!CarryOut
  <1>3. CASE Ack
    <2>1. Consumer!Due(acking) /\ acking \in 1..sent
      BY <1>3, HeadIsDue DEF Ack, OrderInv
    <2> QED
      BY <1>3, <2>1 DEF Ack, Consumer!Settle
  <1>4. CASE PendingTimesOut \/ DrainFails
    <2>1. Pending \in SUBSET ((1..sent) \ acked)
      BY <1>0
    <2> QED
      BY <1>4, <2>1 DEF PendingTimesOut, DrainFails, Strand, BackToNormal, Consumer!SetAside
  <1>5. CASE ReadTimesOut
    <2>1. (read + 1)..read' \in SUBSET ((1..sent) \ acked)
      <3>1. acked \subseteq 1..read
        BY DEF OrderInv, TypeOK
      <3> QED
        BY <1>5, <3>1, DeliverFacts DEF ReadTimesOut
    <2> QED
      BY <1>5, <2>1 DEF ReadTimesOut, TakeNew, Strand, Consumer!SetAside
  <1>6. CASE Pause \/ Crash
    BY <1>6 DEF Pause, Crash, Consumer!TakeBack
  <1>7. CASE Failover \/ ReadPending \/ PendingCleared \/ ReadNew \/ UNCHANGED vars
    BY <1>7 DEF Failover, ReadPending, PendingCleared, ReadNew, TakeNew, BackToNormal, vars
  <1> QED
    BY <1>1, <1>2, <1>3, <1>4, <1>5, <1>6, <1>7 DEF Next, Loop

(* The loop implements the in-order consumer: no batch, pause, restart,    *)
(* outage or fault makes it carry out or ack a message out of turn, and it *)
(* skips none but at a fault.                                              *)
THEOREM IngestImplementsConsumer == Spec => ImplementsConsumer
  <1>1. Init => Consumer!Init
    BY DEF Init, Consumer!Init
  <1>2. OrderInv /\ [Next]_vars => [Consumer!Next]_<<sent, acked, done, stranded, faults>>
    BY StepImplements
  <1> QED
    BY <1>1, <1>2, OrderInvariant, PTL DEF Spec, ImplementsConsumer, Consumer!Spec

(* A message is acked only after every earlier one that no fault stranded, *)
(* also while the pending list is replayed after a restart or an outage.   *)
THEOREM AckedInOrder == Spec => AcksInOrder
  <1>1. OrderInv /\ [Next]_vars =>
          [\A m \in acked' \ acked : 1..(m - 1) \subseteq acked \cup stranded]_vars
    <2> SUFFICES ASSUME OrderInv, [Next]_vars, ~(UNCHANGED vars)
                 PROVE  \A m \in acked' \ acked : 1..(m - 1) \subseteq acked \cup stranded
      OBVIOUS
    <2>1. CASE Ack
      BY <2>1, HeadIsDue DEF Ack, OrderInv, Consumer!Due
    <2>2. CASE acked' = acked
      BY <2>2
    <2>3. Ack \/ acked' = acked
      BY DEF Next, Loop, Emit, Failover, ReadPending, PendingCleared, PendingTimesOut,
             DrainFails, ReadNew, ReadTimesOut, TakeNew, BackToNormal, Handle, Pause, Crash
    <2> QED
      BY <2>1, <2>2, <2>3
  <1> QED
    BY <1>1, OrderInvariant, PTL DEF Spec, AcksInOrder

-----------------------------------------------------------------------------
(* While nothing was restarted the first replay finds nothing to do, and a *)
(* message about to be acked was not merely refused.                       *)
DropInv ==
  /\ OrderInv
  /\ crashes = 0 => phase = "run" \/ read = 0
  /\ crashes = 0 /\ acking # 0 => (kind[acking] = "write" => acking \in done)
  /\ OutageDropsNothing

LEMMA InitDropInv == Init => DropInv
  BY InitOrderInv DEF Init, DropInv, OutageDropsNothing

LEMMA NextDropInv == DropInv /\ [Next]_vars => DropInv'
  <1> SUFFICES ASSUME DropInv, [Next]_vars PROVE DropInv'
    OBVIOUS
  <1> USE IngestAssumption DEF workerVars, boundVars
  <1>1. OrderInv /\ OrderInv'
    BY NextOrderInv DEF DropInv
  <1>2. CASE Handle
    <2>1. PICK m \in batch :
            /\ ~WriteRefused(m) \/ phase = "drain"
            /\ acking' = m
            /\ done' = IF kind[m] = "poison" \/ WriteRefused(m) THEN done ELSE done \cup {m}
      BY <1>2 DEF Handle
    <2>2. m \in 1..read /\ read \in Nat
      BY <1>1 DEF OrderInv, TypeOK
    <2>3. crashes = 0 => ~WriteRefused(m)
      BY <2>1, <2>2 DEF DropInv
    <2>4. crashes' = 0 => (kind'[acking'] = "write" => acking' \in done')
      BY <1>2, <2>1, <2>3 DEF Handle
    <2>5. OutageDropsNothing'
      BY <1>2, <2>1 DEF Handle, DropInv, OutageDropsNothing
    <2> QED
      BY <1>1, <1>2, <2>4, <2>5 DEF Handle, DropInv
  <1>3. CASE Ack
    BY <1>1, <1>3 DEF Ack, DropInv, OutageDropsNothing
  <1>4. CASE Crash
    <2>1. crashes' # 0
      BY <1>1, <1>4 DEF Crash, OrderInv, TypeOK
    <2> QED
      BY <1>1, <2>1 DEF DropInv, OutageDropsNothing
  <1>5. CASE ReadNew \/ ReadTimesOut
    BY <1>1, <1>5 DEF ReadNew, ReadTimesOut, TakeNew, Strand, Replaying, OrderInv, TypeOK, DropInv,
                      OutageDropsNothing
  <1>6. CASE \/ Emit \/ Failover \/ ReadPending \/ PendingCleared \/ PendingTimesOut
             \/ DrainFails \/ Pause \/ UNCHANGED vars
    BY <1>1, <1>6 DEF Emit, Failover, ReadPending, PendingCleared, PendingTimesOut, Pause,
                      DrainFails, BackToNormal, Strand, vars, DropInv, OutageDropsNothing
  <1> QED
    BY <1>2, <1>3, <1>4, <1>5, <1>6 DEF Next, Loop

(* Without a restart an outage of the core drops no event: what run_once   *)
(* acks was carried out if it needed the core to be writable.              *)
THEOREM OutageLosesNothing == Spec => []OutageDropsNothing
  <1>1. DropInv => OutageDropsNothing
    BY DEF DropInv
  <1> QED
    BY <1>1, InitDropInv, NextDropInv, PTL DEF Spec
=============================================================================
