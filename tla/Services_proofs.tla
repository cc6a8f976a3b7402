--------------------------- MODULE Services_proofs ---------------------------
(***************************************************************************)
(* Proofs about four parts of the service that many threads share: the     *)
(* failover of the database, the doors with their verdicts and caches, the *)
(* integrations with their tools and tokens, and the gate that a file's    *)
(* permissions are asked at.                                               *)
(***************************************************************************)
EXTENDS Failover, Access, Integrations, PermissionGate, FiniteSetTheorems, WellFoundedInduction,
        TLAPS

-----------------------------------------------------------------------------
(* Failover: that the tables of a tenant are made once, that no write      *)
(* meets missing ones and that a read falls back only from a primary that  *)
(* was down a moment ago, for any number of threads and tenants, whenever  *)
(* the primary goes away and comes back.                                   *)
Places == {"rest", "route", "connect", "open", "fall back", "lock", "make", "groups"}
Outcomes == {Nobody, "degraded", "error", "refused", "served", "no tables"}
Errands == [pc : Places, op : {"read", "write", "bind"}, tenant : Schemas \cup {Nobody},
          right : BOOLEAN, waited : Nat, on : {Nobody, "primary", "replica"},
          answer : Outcomes, quiet : Nat]

(* The types of what the proof below reads.                                *)
TasksTypeOK ==
    /\ task \in [Clients -> Errands] /\ quiet \in Nat /\ cooling \in Nat
    /\ primary \in BOOLEAN /\ lock \in Clients \cup {Nobody}
    /\ memo \in SUBSET Schemas /\ tables \in SUBSET Schemas /\ made \in [Schemas -> Nat]

(* Whoever makes tables has the lock, and whoever has it makes tables.     *)
LockedWhileMaking == \A t \in Clients : task[t].pc = "make" <=> lock = t

(* The tables about to be made are those of a tenant the memo lacks, for a *)
(* connection to write.                                                    *)
MakesWhatIsMissing ==
    \A t \in Clients : task[t].pc \in {"lock", "make"} =>
        /\ task[t].op = "write" /\ task[t].tenant \in Schemas
        /\ task[t].pc = "make" => task[t].tenant \notin memo

(* A thread that has begun something has a tenant.                         *)
HasTenant == \A t \in Clients : task[t].pc # "rest" => task[t].tenant \in Schemas

(* What is remembered exists, and what was made here is remembered.        *)
MemoIsTrue ==
    /\ memo \subseteq tables
    /\ \A s \in Schemas : made[s] <= 1 /\ (s \notin memo => made[s] = 0)

TablesInv ==
    /\ TasksTypeOK /\ LockedWhileMaking /\ MakesWhatIsMissing /\ HasTenant /\ MemoIsTrue
    /\ WritesFindTables

LEMMA TablesInvInit == FailoverInit => TablesInv
<1> SUFFICES ASSUME FailoverInit PROVE TablesInv
    OBVIOUS
<1>1. Unasked \in Errands /\ Old \in Nat
    BY FailoverAssumption DEF Unasked, Errands, Places, Outcomes, Old
<1>2. TasksTypeOK
    BY <1>1 DEF FailoverInit, TasksTypeOK
<1>3. \A t \in Clients : /\ task[t].pc = "rest" /\ task[t].answer = Nobody /\ lock # t
    BY FailoverAssumption DEF FailoverInit, Unasked
<1>4. LockedWhileMaking /\ MakesWhatIsMissing /\ HasTenant /\ WritesFindTables
    BY <1>3 DEF LockedWhileMaking, MakesWhatIsMissing, HasTenant, WritesFindTables, Nobody
<1>5. MemoIsTrue
    BY DEF FailoverInit, MemoIsTrue
<1>6. QED
    BY <1>2, <1>4, <1>5 DEF TablesInv

-----------------------------------------------------------------------------
(* A thread that goes from a place outside the lock to another one, or     *)
(* ends with an answer, and touches no table, disturbs nothing.            *)
Outside == Places \ {"lock", "make"}

LEMMA MovesOutside ==
    ASSUME TablesInv, NEW t \in Clients, NEW r \in Errands,
           task' = [task EXCEPT ![t] = r],
           task[t].pc \in Outside, r.pc \in Outside,
           r.pc # "rest" => r.tenant \in Schemas,
           r.op = "write" => r.answer # "no tables",
           cooling' \in Nat, UNCHANGED <<primary, quiet, memo, lock, tables, made>>
    PROVE  TablesInv'
<1>1. TasksTypeOK'
    BY DEF TablesInv, TasksTypeOK
<1>2. (LockedWhileMaking /\ MakesWhatIsMissing /\ HasTenant)'
    BY DEF TablesInv, TasksTypeOK, LockedWhileMaking, MakesWhatIsMissing, HasTenant, Outside
<1>3. (MemoIsTrue /\ WritesFindTables)'
    BY DEF TablesInv, TasksTypeOK, MemoIsTrue, WritesFindTables
<1>4. QED
    BY <1>1, <1>2, <1>3 DEF TablesInv

LEMMA TypesOfATask ==
    ASSUME TablesInv, NEW t \in Clients
    PROVE  /\ task[t] \in Errands
           /\ task[t].op = "write" => task[t].answer # "no tables"
           /\ task[t].pc # "rest" => task[t].tenant \in Schemas
           /\ quiet \in Nat /\ cooling \in Nat
BY DEF TablesInv, TasksTypeOK, WritesFindTables, HasTenant

(* The three ways in which the actions write a thread's record.            *)
LEMMA GoesOutside ==
    ASSUME TablesInv, NEW t \in Clients, NEW pc \in Outside \ {"rest"}, Goes(t, pc),
           task[t].pc \in Outside \ {"rest"},
           cooling' \in Nat, UNCHANGED <<primary, quiet, memo, lock, tables, made>>
    PROVE  TablesInv'
<1> DEFINE r == [task[t] EXCEPT !.pc = pc]
<1>1. r \in Errands /\ task' = [task EXCEPT ![t] = r]
    BY TypesOfATask DEF Goes, Errands, Outside, TablesInv, TasksTypeOK
<1>2. /\ r.pc \in Outside /\ r.tenant \in Schemas
      /\ r.op = "write" => r.answer # "no tables"
    BY TypesOfATask DEF Errands, Outside
<1> HIDE DEF r
<1>3. QED
    BY <1>1, <1>2, MovesOutside

LEMMA EndsOutside ==
    ASSUME TablesInv, NEW t \in Clients, NEW reply \in Outcomes, Ends(t, reply),
           task[t].pc \in Outside,
           task[t].op = "write" => reply # "no tables",
           cooling' \in Nat, UNCHANGED <<primary, quiet, memo, lock, tables, made>>
    PROVE  TablesInv'
<1> DEFINE r == [task[t] EXCEPT !.pc = "rest", !.answer = reply, !.waited = 0,
                                !.quiet = IF reply = "degraded" THEN quiet ELSE task[t].quiet]
<1>1. task' = [task EXCEPT ![t] = r]
    BY DEF Ends, TablesInv, TasksTypeOK
<1>2. r \in Errands
    BY TypesOfATask DEF Errands, Places
<1>3. r.pc = "rest" /\ r.op = task[t].op /\ r.answer = reply
    BY TypesOfATask DEF Errands
<1> HIDE DEF r
<1>4. QED
    BY <1>1, <1>2, <1>3, MovesOutside DEF Outside, Places

LEMMA FallsBackOutside ==
    ASSUME TablesInv, NEW t \in Clients, ToReplica(t),
           task[t].pc \in Outside \ {"rest"},
           cooling' \in Nat, UNCHANGED <<primary, quiet, memo, lock, tables, made>>
    PROVE  TablesInv'
<1> DEFINE r == [task[t] EXCEPT !.pc = "fall back", !.on = "replica", !.waited = 0,
                                !.quiet = quiet]
<1>1. r \in Errands /\ task' = [task EXCEPT ![t] = r]
    BY TypesOfATask DEF ToReplica, Errands, Places, TablesInv, TasksTypeOK
<1>2. /\ r.pc = "fall back" /\ r.tenant \in Schemas
      /\ r.op = "write" => r.answer # "no tables"
    BY TypesOfATask DEF Errands, Outside
<1> HIDE DEF r
<1>3. QED
    BY <1>1, <1>2, MovesOutside DEF Outside, Places

-----------------------------------------------------------------------------
(* A thread comes to the lock, and whoever gets it looks again.            *)
LEMMA ComesToTheLock ==
    ASSUME TablesInv, NEW t \in Clients, task[t].pc = "open", task[t].op = "write",
           Goes(t, "lock"), UNCHANGED <<primary, quiet, cooling, memo, lock, tables, made>>
    PROVE  TablesInv'
<1>1. TasksTypeOK'
    <2> DEFINE r == [task[t] EXCEPT !.pc = "lock"]
    <2>1. r \in Errands
        BY TypesOfATask DEF Errands, Places
    <2>2. task' = [task EXCEPT ![t] = r]
        BY DEF Goes
    <2> HIDE DEF r
    <2>3. QED
        BY <2>1, <2>2 DEF TablesInv, TasksTypeOK
<1>2. (LockedWhileMaking /\ MakesWhatIsMissing /\ HasTenant)'
    BY DEF TablesInv, TasksTypeOK, LockedWhileMaking, MakesWhatIsMissing, HasTenant, Goes, Errands
<1>3. (MemoIsTrue /\ WritesFindTables)'
    BY DEF TablesInv, TasksTypeOK, MemoIsTrue, WritesFindTables, Goes, Errands
<1>4. QED
    BY <1>1, <1>2, <1>3 DEF TablesInv

LEMMA LocksAndLooks ==
    ASSUME TablesInv, NEW t \in Clients, Lock(t)
    PROVE  TablesInv'
<1>1. task[t] \in Errands /\ task[t].pc = "lock" /\ lock = Nobody
    BY DEF Lock, TablesInv, TasksTypeOK
<1>2. PICK pc \in {"open", "make"} :
          /\ Goes(t, pc)
          /\ pc = "make" => task[t].tenant \notin memo
          /\ lock' = IF pc = "make" THEN t ELSE lock
    BY DEF Lock, MakeIfMissing
<1>3. UNCHANGED <<primary, quiet, cooling, memo, tables, made>>
    BY DEF Lock
<1>4. TasksTypeOK'
    BY <1>1, <1>2, <1>3 DEF TablesInv, TasksTypeOK, Goes, Errands, Places
<1>5. LockedWhileMaking'
    BY <1>1, <1>2, FailoverAssumption DEF TablesInv, TasksTypeOK, LockedWhileMaking, Goes, Errands
<1>6. (MakesWhatIsMissing /\ HasTenant)'
    BY <1>1, <1>2, <1>3 DEF TablesInv, TasksTypeOK, MakesWhatIsMissing, HasTenant, Goes, Errands
<1>7. (MemoIsTrue /\ WritesFindTables)'
    BY <1>1, <1>2, <1>3 DEF TablesInv, TasksTypeOK, MemoIsTrue, WritesFindTables, Goes, Errands
<1>8. QED
    BY <1>4, <1>5, <1>6, <1>7 DEF TablesInv

(* Whoever makes tables is alone, so no other thread is disturbed by what  *)
(* it remembers; and the tenant was not made before, or it would be        *)
(* remembered.                                                             *)
LEMMA MakesOnce ==
    ASSUME TablesInv, NEW t \in Clients, Make(t)
    PROVE  TablesInv'
<1> DEFINE s == task[t].tenant
<1>1. /\ task[t] \in Errands /\ task[t].pc = "make" /\ lock = t
      /\ task[t].op = "write" /\ task[t].answer # "no tables"
      /\ s \in Schemas /\ s \notin memo
    BY DEF Make, TablesInv, TasksTypeOK, LockedWhileMaking, MakesWhatIsMissing, WritesFindTables
<1>2. made[s] = 0
    BY <1>1 DEF TablesInv, MemoIsTrue
<1>3. \A u \in Clients \ {t} : task[u].pc # "make" /\ task'[u] = task[u]
    BY <1>1 DEF TablesInv, TasksTypeOK, LockedWhileMaking, Make, Goes, Ends
<1>4. lock' = Nobody /\ UNCHANGED <<primary, quiet, cooling>>
    BY DEF Make
<1>5. CASE primary
    <2>1. Goes(t, "open") /\ memo' = memo \cup {s} /\ tables' = tables \cup {s}
        BY <1>5 DEF Make, Memo
    <2>2. made' = [made EXCEPT ![s] = 1]
        BY <1>2, <1>5 DEF Make
    <2>3. TasksTypeOK'
        BY <1>1, <1>4, <2>1, <2>2 DEF TablesInv, TasksTypeOK, Goes, Errands, Places
    <2>4. task'[t].pc = "open" /\ task'[t].tenant = s /\ task'[t].answer # "no tables"
        BY <1>1, <2>1 DEF TablesInv, TasksTypeOK, Goes, Errands
    <2>5. LockedWhileMaking'
        BY <1>3, <1>4, <2>4, FailoverAssumption DEF LockedWhileMaking
    <2>6. (MakesWhatIsMissing /\ HasTenant)'
        BY <1>1, <1>3, <2>4 DEF TablesInv, MakesWhatIsMissing, HasTenant
    <2>7. MemoIsTrue'
        <3>1. memo' \subseteq tables'
            BY <2>1 DEF TablesInv, MemoIsTrue
        <3>2. \A z \in Schemas : made'[z] = IF z = s THEN 1 ELSE made[z]
            BY <1>1, <2>2 DEF TablesInv, TasksTypeOK
        <3>3. \A z \in Schemas : made'[z] <= 1 /\ (z \notin memo' => made'[z] = 0)
            BY <2>1, <3>2 DEF TablesInv, MemoIsTrue
        <3>4. QED
            BY <3>1, <3>3 DEF MemoIsTrue
    <2>8. WritesFindTables'
        BY <1>3, <2>4 DEF TablesInv, WritesFindTables
    <2>9. QED
        BY <2>3, <2>5, <2>6, <2>7, <2>8 DEF TablesInv
<1>6. CASE ~primary
    <2>1. Ends(t, "error") /\ UNCHANGED <<memo, tables, made>>
        BY <1>6 DEF Make, Memo
    <2>2. TasksTypeOK'
        BY <1>1, <1>4, <2>1 DEF TablesInv, TasksTypeOK, Ends, Errands, Places, Outcomes
    <2>3. task'[t].pc = "rest" /\ task'[t].answer = "error"
        BY <1>1, <2>1 DEF TablesInv, TasksTypeOK, Ends, Errands
    <2>4. LockedWhileMaking'
        BY <1>3, <1>4, <2>3, FailoverAssumption DEF LockedWhileMaking
    <2>5. (MakesWhatIsMissing /\ HasTenant)'
        BY <1>3, <2>1, <2>3 DEF TablesInv, MakesWhatIsMissing, HasTenant
    <2>6. (MemoIsTrue /\ WritesFindTables)'
        BY <1>3, <2>1, <2>3 DEF TablesInv, MemoIsTrue, WritesFindTables
    <2>7. QED
        BY <2>2, <2>4, <2>5, <2>6 DEF TablesInv
<1>7. QED
    BY <1>5, <1>6 DEF TablesInv, TasksTypeOK

-----------------------------------------------------------------------------
LEMMA TimeKeepsTables == ASSUME TablesInv, TimePasses PROVE TablesInv'
<1>1. cooling' \in Nat /\ quiet' \in Nat
    BY DEF TimePasses, TablesInv, TasksTypeOK
<1>2. UNCHANGED <<primary, memo, lock, tables, made>>
    BY DEF TimePasses
<1>3. \A t \in Clients :
        /\ task'[t] \in Errands
        /\ task'[t].pc = task[t].pc /\ task'[t].op = task[t].op
        /\ task'[t].tenant = task[t].tenant /\ task'[t].answer = task[t].answer
    <2> SUFFICES ASSUME NEW t \in Clients
                 PROVE  /\ task'[t] \in Errands
                        /\ task'[t].pc = task[t].pc /\ task'[t].op = task[t].op
                        /\ task'[t].tenant = task[t].tenant /\ task'[t].answer = task[t].answer
        OBVIOUS
    <2>1. task[t] \in Errands
        BY TypesOfATask
    <2>2. task'[t] = IF t \in Busy THEN [task[t] EXCEPT !.waited = @ + 1] ELSE task[t]
        BY DEF TimePasses
    <2>3. QED
        BY <2>1, <2>2 DEF Errands
<1>4. task' \in [Clients -> Errands]
    <2>1. task' = [t \in Clients |-> task'[t]]
        BY DEF TimePasses
    <2>2. QED
        BY <1>3, <2>1
<1>5. TasksTypeOK'
    BY <1>1, <1>2, <1>4 DEF TablesInv, TasksTypeOK
<1>6. (LockedWhileMaking /\ MakesWhatIsMissing /\ HasTenant)'
    BY <1>2, <1>3 DEF TablesInv, LockedWhileMaking, MakesWhatIsMissing, HasTenant
<1>7. (MemoIsTrue /\ WritesFindTables)'
    BY <1>2, <1>3 DEF TablesInv, MemoIsTrue, WritesFindTables
<1>8. QED
    BY <1>5, <1>6, <1>7 DEF TablesInv

LEMMA FlipKeepsTables == ASSUME TablesInv, PrimaryFlips PROVE TablesInv'
BY DEF PrimaryFlips, TablesInv, TasksTypeOK, LockedWhileMaking, MakesWhatIsMissing, HasTenant,
       MemoIsTrue, WritesFindTables

LEMMA BeginKeepsTables ==
    ASSUME TablesInv, NEW t \in Clients, NEW op \in {"read", "write", "bind"},
           NEW tenant \in Schemas, NEW right \in BOOLEAN, Begin(t, op, tenant, right)
    PROVE  TablesInv'
<1> DEFINE r == [Unasked EXCEPT !.pc = "route", !.op = op, !.tenant = tenant, !.right = right]
<1>1. Unasked \in Errands
    BY DEF Unasked, Errands, Places, Outcomes
<1>2. r \in Errands /\ r.pc = "route" /\ r.tenant = tenant /\ r.answer = Unasked.answer
    BY <1>1 DEF Errands, Places
<1>3. task' = [task EXCEPT ![t] = r] /\ task[t].pc = "rest"
    BY DEF Begin
<1>4. UNCHANGED <<primary, quiet, cooling, memo, lock, tables, made>> /\ cooling \in Nat
    BY DEF Begin, TablesInv, TasksTypeOK
<1>5. Unasked.answer # "no tables"
    BY DEF Unasked, Nobody
<1> HIDE DEF r
<1>6. QED
    BY <1>2, <1>3, <1>4, <1>5, MovesOutside DEF Outside, Places

LEMMA StepKeepsTables ==
    ASSUME TablesInv, NEW t \in Clients, Step(t)
    PROVE  TablesInv'
<1> USE DEF Outside, Places, Outcomes
<1>1. Cooldown \in Nat /\ cooling \in Nat
    BY FailoverAssumption DEF TablesInv, TasksTypeOK
<1>2. CASE Route(t)
    <2>1. CASE ShouldTryPrimary
        <3> DEFINE r == [task[t] EXCEPT !.pc = "connect", !.on = "primary"]
        <3>1. task' = [task EXCEPT ![t] = r] /\ task[t].pc = "route"
            BY <1>2, <2>1 DEF Route
        <3>2. r \in Errands
            BY TypesOfATask DEF Errands
        <3>3. r.pc = "connect" /\ r.tenant \in Schemas /\ (r.op = "write" => r.answer # "no tables")
            BY <3>1, TypesOfATask DEF Errands
        <3> HIDE DEF r
        <3>4. QED
            BY <1>1, <1>2, <2>1, <3>1, <3>2, <3>3, MovesOutside DEF Route
    <2>2. CASE ~ShouldTryPrimary
        BY <1>1, <1>2, <2>2, EndsOutside, FallsBackOutside DEF Route, Refused
    <2>3. QED
        BY <2>1, <2>2
<1>3. CASE Connect(t)
    <2> DEFINE r == [task[t] EXCEPT !.pc = "open", !.waited = 0]
    <2>1. task' = [task EXCEPT ![t] = r] /\ task[t].pc = "connect"
        BY <1>3 DEF Connect
    <2>2. r \in Errands
        BY TypesOfATask DEF Errands
    <2>3. r.pc = "open" /\ r.tenant \in Schemas /\ (r.op = "write" => r.answer # "no tables")
        BY <2>1, TypesOfATask DEF Errands
    <2> HIDE DEF r
    <2>4. cooling' \in Nat /\ UNCHANGED <<primary, quiet, memo, lock, tables, made>>
        BY <1>1, <1>3 DEF Connect, Reset
    <2>5. QED
        BY <2>1, <2>2, <2>3, <2>4, MovesOutside
<1>4. CASE ConnectFails(t)
    BY <1>1, <1>4, EndsOutside, FallsBackOutside DEF ConnectFails, Trip
<1>5. CASE FallBack(t)
    BY <1>1, <1>5, EndsOutside, GoesOutside DEF FallBack
<1>6. CASE Read(t)
    <2>1. \E reply \in Outcomes : Ends(t, reply)
        BY <1>6 DEF Read
    <2>2. QED
        BY <1>1, <1>6, <2>1, EndsOutside DEF Read
<1>7. CASE Write(t)
    <2>1. CASE task[t].tenant \notin memo
        BY <1>7, <2>1, ComesToTheLock DEF Write
    <2>2. CASE task[t].tenant \in memo
        <3>1. task[t].tenant \in tables
            BY <2>2 DEF TablesInv, MemoIsTrue
        <3>2. \E reply \in Outcomes \ {"no tables"} : Ends(t, reply)
            BY <1>7, <2>2, <3>1 DEF Write
        <3>3. QED
            BY <1>1, <1>7, <3>2, EndsOutside DEF Write
    <2>3. QED
        BY <2>1, <2>2
<1>8. CASE UserBind(t)
    <2>1. task[t].pc = "open" /\ UNCHANGED <<primary, quiet, memo, lock, tables, made>>
        BY <1>8 DEF UserBind
    <2>2. cooling' \in Nat
        BY <1>1, <1>8 DEF UserBind, Settled, Reset
    <2>3. Goes(t, "groups") \/ Ends(t, "refused")
        BY <1>8 DEF UserBind
    <2>4. QED
        BY <2>1, <2>2, <2>3, EndsOutside, GoesOutside
<1>9. CASE RolesOf(t)
    <2>1. \E reply \in Outcomes \ {"no tables"} : Ends(t, reply)
        BY <1>9 DEF RolesOf
    <2>2. cooling' \in Nat
        BY <1>1, <1>9 DEF RolesOf, Settled, Reset
    <2>3. QED
        BY <1>9, <2>1, <2>2, EndsOutside DEF RolesOf
<1>10. QED
    BY <1>2, <1>3, <1>4, <1>5, <1>6, <1>7, <1>8, <1>9, LocksAndLooks, MakesOnce DEF Step

(* TablesInv holds in every reachable state, whatever the number of        *)
(* threads and tenants and however often the primary goes and comes back.  *)
THEOREM TablesInvariant == FailoverSpec => []TablesInv
<1>1. TablesInv /\ [FailoverNext]_failoverVars => TablesInv'
    <2> SUFFICES ASSUME TablesInv, [FailoverNext]_failoverVars PROVE TablesInv'
        OBVIOUS
    <2>1. CASE FailoverNext
        BY <2>1, TimeKeepsTables, FlipKeepsTables, BeginKeepsTables, StepKeepsTables
        DEF FailoverNext
    <2>2. CASE UNCHANGED failoverVars
        BY <2>2 DEF failoverVars, TablesInv, TasksTypeOK, LockedWhileMaking, MakesWhatIsMissing,
                    HasTenant, MemoIsTrue, WritesFindTables
    <2>3. QED
        BY <2>1, <2>2
<1>2. QED
    BY <1>1, TablesInvInit, PTL DEF FailoverSpec

(* connect_for_tenant makes a tenant's tables once per process, one        *)
(* tenant's at a time, and no connection to write meets missing ones.      *)
THEOREM TablesMadeOnce == FailoverSpec => []TablesAreMade
<1>1. TablesInv => TablesAreMade
    <2> SUFFICES ASSUME TablesInv PROVE TablesAreMade
        OBVIOUS
    <2> DEFINE Makers == {t \in Clients : task[t].pc = "make"}
    <2>1. Makers = {} \/ Makers = {lock}
        BY DEF TablesInv, LockedWhileMaking
    <2>2. Cardinality(Makers) <= 1
        <3> HIDE DEF Makers
        <3>1. CASE Makers = {}
            BY <3>1, FS_EmptySet
        <3>2. CASE Makers = {lock}
            <4>1. Cardinality({lock}) = 1
                BY FS_Singleton
            <4>2. QED
                BY <3>2, <4>1
        <3>3. QED
            BY <2>1, <3>1, <3>2
    <2>3. QED
        BY <2>2 DEF TablesInv, MemoIsTrue, TablesAreMade, MadeOnce
<1>2. QED
    BY <1>1, TablesInvariant, PTL

-----------------------------------------------------------------------------
(* The fallback.  While the primary is down it was down just now, and the  *)
(* breaker opens only within an attempt of that, so that what is left of   *)
(* its cooldown and what has passed since add up to no more than the two.  *)
BreakerOK ==
    /\ ~primary => quiet = 0
    /\ cooling > 0 => quiet + cooling <= Cooldown + Timeout

(* Only an attempt waits, and no longer than it may.                       *)
RecordOK(r) ==
    /\ r.waited <= Timeout /\ (r.pc # "connect" => r.waited = 0)
    /\ r.answer = "degraded" \/ r.on = "replica" => r.quiet <= Cooldown + Timeout

RecencyInv == BreakerOK /\ \A t \in Clients : RecordOK(task[t])

LEMMA OneRecord ==
    ASSUME TablesInv, RecencyInv, BreakerOK', NEW t \in Clients, NEW r,
           task' = [task EXCEPT ![t] = r], RecordOK(r)
    PROVE  RecencyInv'
<1>1. \A u \in Clients : task'[u] = IF u = t THEN r ELSE task[u]
    BY DEF TablesInv, TasksTypeOK
<1>2. \A u \in Clients : RecordOK(task'[u])
    BY <1>1 DEF RecencyInv
<1>3. QED
    BY <1>2 DEF RecencyInv, RecordOK

LEMMA RecordTypes ==
    ASSUME TablesInv, RecencyInv, NEW t \in Clients
    PROVE  /\ task[t] \in Errands /\ RecordOK(task[t]) /\ task[t].waited \in Nat
           /\ quiet \in Nat /\ cooling \in Nat /\ primary \in BOOLEAN
           /\ Cooldown \in Nat /\ Cooldown > 0 /\ Timeout \in Nat
BY FailoverAssumption DEF TablesInv, TasksTypeOK, RecencyInv, Errands

(* The three ways in which the actions write a record, again.              *)
LEMMA GoesRecently ==
    ASSUME TablesInv, RecencyInv, BreakerOK', NEW t \in Clients, NEW pc \in Places, Goes(t, pc),
           task[t].pc # "connect"
    PROVE  RecencyInv'
<1> DEFINE r == [task[t] EXCEPT !.pc = pc]
<1>1. task' = [task EXCEPT ![t] = r]
    BY DEF Goes, TablesInv, TasksTypeOK
<1>2. RecordOK(r)
    BY RecordTypes DEF RecordOK, Errands
<1> HIDE DEF r
<1>3. QED
    BY <1>1, <1>2, OneRecord

LEMMA EndsRecently ==
    ASSUME TablesInv, RecencyInv, BreakerOK', NEW t \in Clients, NEW reply, Ends(t, reply),
           reply = "degraded" => quiet <= Cooldown + Timeout
    PROVE  RecencyInv'
<1> DEFINE r == [task[t] EXCEPT !.pc = "rest", !.answer = reply, !.waited = 0,
                                !.quiet = IF reply = "degraded" THEN quiet ELSE task[t].quiet]
<1>1. task' = [task EXCEPT ![t] = r]
    BY DEF Ends
<1>2. RecordOK(r)
    BY RecordTypes DEF RecordOK, Errands
<1> HIDE DEF r
<1>3. QED
    BY <1>1, <1>2, OneRecord

LEMMA FallsBackOnTime ==
    ASSUME TablesInv, RecencyInv, BreakerOK', NEW t \in Clients, ToReplica(t),
           quiet <= Cooldown + Timeout
    PROVE  RecencyInv'
<1> DEFINE r == [task[t] EXCEPT !.pc = "fall back", !.on = "replica", !.waited = 0, !.quiet = quiet]
<1>1. task' = [task EXCEPT ![t] = r]
    BY DEF ToReplica
<1>2. RecordOK(r)
    BY RecordTypes DEF RecordOK, Errands
<1> HIDE DEF r
<1>3. QED
    BY <1>1, <1>2, OneRecord

LEMMA TimeIsRecent == ASSUME TablesInv, RecencyInv, TimePasses PROVE RecencyInv'
<1>1. BreakerOK'
    BY FailoverAssumption DEF TimePasses, BreakerOK, RecencyInv, TablesInv, TasksTypeOK
<1>2. ASSUME NEW t \in Clients PROVE RecordOK(task'[t])
    <2>1. task'[t] = IF t \in Busy THEN [task[t] EXCEPT !.waited = @ + 1] ELSE task[t]
        BY DEF TimePasses
    <2>2. t \in Busy => task[t].waited < Timeout /\ task[t].pc = "connect"
        BY DEF TimePasses, Busy
    <2>3. QED
        BY <2>1, <2>2, RecordTypes DEF RecordOK, Errands
<1>3. QED
    BY <1>1, <1>2 DEF RecencyInv, RecordOK

LEMMA StepIsRecent ==
    ASSUME TablesInv, RecencyInv, NEW t \in Clients, Step(t)
    PROVE  RecencyInv'
<1> USE DEF Places
<1>1. /\ task[t] \in Errands /\ RecordOK(task[t]) /\ task[t].waited \in Nat
      /\ quiet \in Nat /\ cooling \in Nat /\ primary \in BOOLEAN
      /\ Cooldown \in Nat /\ Cooldown > 0 /\ Timeout \in Nat /\ BreakerOK
    BY RecordTypes DEF RecencyInv
<1>2. CASE Route(t)
    <2>1. UNCHANGED <<primary, quiet, cooling>> /\ task[t].pc = "route"
        BY <1>2 DEF Route, Refused
    <2>2. BreakerOK'
        BY <1>1, <2>1 DEF BreakerOK
    <2>3. CASE ShouldTryPrimary
        <3> DEFINE r == [task[t] EXCEPT !.pc = "connect", !.on = "primary"]
        <3>1. task' = [task EXCEPT ![t] = r]
            BY <1>2, <2>3 DEF Route
        <3>2. RecordOK(r)
            BY <1>1, <2>1 DEF RecordOK, Errands
        <3> HIDE DEF r
        <3>3. QED
            BY <2>2, <3>1, <3>2, OneRecord
    <2>4. CASE ~ShouldTryPrimary
        <3>1. quiet <= Cooldown + Timeout
            BY <1>1, <2>4 DEF ShouldTryPrimary, BreakerOK
        <3>2. Ends(t, "degraded") \/ ToReplica(t)
            BY <1>2, <2>4 DEF Route, Refused
        <3>3. QED
            BY <2>2, <3>1, <3>2, EndsRecently, FallsBackOnTime
    <2>5. QED
        BY <2>3, <2>4
<1>3. CASE Connect(t)
    <2> DEFINE r == [task[t] EXCEPT !.pc = "open", !.waited = 0]
    <2>1. /\ task' = [task EXCEPT ![t] = r] /\ UNCHANGED <<primary, quiet>>
          /\ cooling' = 0 \/ cooling' = cooling
        BY <1>3 DEF Connect, Reset
    <2>2. BreakerOK'
        BY <1>1, <2>1 DEF BreakerOK
    <2>3. RecordOK(r)
        <3>1. r.pc = "open" /\ r.waited = 0 /\ r.answer = task[t].answer
            BY <1>1 DEF Errands
        <3>2. r.on = task[t].on /\ r.quiet = task[t].quiet
            BY <1>1 DEF Errands
        <3> HIDE DEF r
        <3>3. QED
            BY <1>1, <3>1, <3>2 DEF RecordOK
    <2> HIDE DEF r
    <2>4. QED
        BY <2>1, <2>2, <2>3, OneRecord
<1>4. CASE ConnectFails(t)
    <2>1. /\ ~primary \/ quiet <= task[t].waited
          /\ cooling' = Cooldown
          /\ UNCHANGED <<primary, quiet>>
          /\ Ends(t, "degraded") \/ ToReplica(t)
        BY <1>4 DEF ConnectFails, Trip
    <2>2. quiet <= Timeout /\ cooling' = Cooldown
        BY <1>1, <1>4 DEF ConnectFails, Trip, BreakerOK, RecordOK
    <2>3. BreakerOK' /\ quiet <= Cooldown + Timeout
        BY <1>1, <2>1, <2>2 DEF BreakerOK
    <2>4. QED
        BY <2>1, <2>3, EndsRecently, FallsBackOnTime
<1>5. CASE FallBack(t) \/ Read(t) \/ Write(t) \/ Lock(t) \/ Make(t)
    <2>1. UNCHANGED <<primary, quiet, cooling>> /\ task[t].pc # "connect"
        BY <1>5 DEF FallBack, Read, Write, Lock, Make
    <2>2. BreakerOK'
        BY <1>1, <2>1 DEF BreakerOK
    <2>3. \/ \E pc \in Places : Goes(t, pc)
          \/ \E reply \in Outcomes \ {"degraded"} : Ends(t, reply)
        BY <1>5 DEF FallBack, Read, Write, Lock, MakeIfMissing, Make, Outcomes
    <2>4. QED
        BY <2>1, <2>2, <2>3, GoesRecently, EndsRecently
<1>6. CASE UserBind(t) \/ RolesOf(t)
    <2>1. /\ UNCHANGED <<primary, quiet>> /\ task[t].pc # "connect"
          /\ cooling' = 0 \/ cooling' = cooling
        BY <1>6 DEF UserBind, RolesOf, Settled, Reset
    <2>2. BreakerOK'
        BY <1>1, <2>1 DEF BreakerOK
    <2>3. \/ \E pc \in Places : Goes(t, pc)
          \/ \E reply \in Outcomes \ {"degraded"} : Ends(t, reply)
        BY <1>6 DEF UserBind, RolesOf, Outcomes
    <2>4. QED
        BY <2>1, <2>2, <2>3, GoesRecently, EndsRecently
<1>7. QED
    BY <1>2, <1>3, <1>4, <1>5, <1>6 DEF Step

LEMMA RecencyInitially == FailoverInit => RecencyInv
BY FailoverAssumption DEF FailoverInit, RecencyInv, BreakerOK, RecordOK, Unasked, Nobody

LEMMA RecencyKept == TablesInv /\ RecencyInv /\ [FailoverNext]_failoverVars => RecencyInv'
<1> SUFFICES ASSUME TablesInv, RecencyInv, [FailoverNext]_failoverVars PROVE RecencyInv'
    OBVIOUS
<1>1. CASE PrimaryFlips
    <2>1. primary' = ~primary /\ quiet' = 0 /\ UNCHANGED <<cooling, task>>
        BY <1>1 DEF PrimaryFlips
    <2>2. BreakerOK'
        BY <2>1, FailoverAssumption DEF BreakerOK, RecencyInv, TablesInv, TasksTypeOK
    <2>3. QED
        BY <2>1, <2>2 DEF RecencyInv, RecordOK
<1>2. ASSUME NEW t \in Clients, NEW op, NEW tenant, NEW right, Begin(t, op, tenant, right)
      PROVE  RecencyInv'
    <2> DEFINE r == [Unasked EXCEPT !.pc = "route", !.op = op, !.tenant = tenant, !.right = right]
    <2>1. task' = [task EXCEPT ![t] = r] /\ UNCHANGED <<primary, quiet, cooling>>
        BY <1>2 DEF Begin
    <2>2. RecordOK(r)
        BY FailoverAssumption DEF RecordOK, Unasked, Nobody
    <2>3. BreakerOK'
        BY <2>1 DEF BreakerOK, RecencyInv
    <2> HIDE DEF r
    <2>4. QED
        BY <2>1, <2>2, <2>3, OneRecord
<1>3. CASE UNCHANGED failoverVars
    BY <1>3 DEF failoverVars, RecencyInv, BreakerOK, RecordOK
<1>4. QED
    BY <1>1, <1>2, <1>3, TimeIsRecent, StepIsRecent DEF FailoverNext

(* Whoever is told that the service is degraded, or sent to the replica,   *)
(* comes within a cooldown and the longest attempt of a moment at which    *)
(* the primary was down: the breaker alone never keeps anyone away.        *)
THEOREM FallbackIsRecent == FailoverSpec => []FallsBackRecently
<1>1. RecencyInv => FallsBackRecently
    BY DEF RecencyInv, RecordOK, FallsBackRecently
<1>2. QED
    BY <1>1, TablesInvariant, RecencyInitially, RecencyKept, PTL DEF FailoverSpec

-----------------------------------------------------------------------------
(* Access: for any number of threads, tenants and sessions and any cache,  *)
(* that a sign-out is noticed within the life of a verdict, and that who   *)
(* is admitted and who is refused each has a reason.                       *)
Moments == 0..Horizon
CnOrNone == Cns \cup {None}
Stations == {"rest", "read", "ask", "introspect", "note", "keep", "groups", "done"}
Sayings == {None, "admitted", "refused", "unavailable", "permit", "revoked"}

RequestTypes ==
    [pc : Stations, door : {None, "own", "session", "password"}, tenant : Tenants,
     jti : Sessions \cup {None}, begin : Moments, at : Moments, made : Moments, answer : Sayings,
     roles : SUBSET Roles, end : Moments]
SessionTypes ==
    [at : 0..Never, names : SUBSET Tenants, map : [Tenants -> SUBSET Roles], ticket : BOOLEAN]
VerdictTypes == [revoked : BOOLEAN, until : Nat]
KnownTypes == [jti : Sessions, tenant : Tenants, roles : SUBSET Roles, until : Nat]

AccessTypes ==
    /\ time \in Moments /\ service \in BOOLEAN /\ redis \in BOOLEAN /\ secret \in BOOLEAN
    /\ member \in [Tenants -> CnOrNone]
    /\ held \in [Tenants -> [Moments -> SUBSET CnOrNone]]
    /\ session \in [Sessions -> SessionTypes] /\ revoked \in [Sessions -> 0..Never]
    /\ \A j \in DOMAIN verdicts : j \in Sessions /\ verdicts[j] \in VerdictTypes
    /\ known \subseteq KnownTypes
    /\ request \in [Threads -> RequestTypes]

(* What was remembered holds: the history has the present groups and those *)
(* of every session, a permission is not much older than a sign-out or the *)
(* end of the session, a refusal is of a session that was signed out, and  *)
(* what the bridge said is not much older than the session it was of.      *)
Signed(tn, roles, k) == \E cn \in held[tn][k] : roles = {cn} \ {None}
Found(tn, roles, k) == \E cn \in held[tn][k] \ {None} : roles = RolesIn(cn)

HistoryOK ==
    /\ \A tn \in Tenants : member[tn] \in held[tn][time]
    /\ \A j \in Sessions : session[j].at # Never =>
          /\ session[j].at <= time
          /\ \A tn \in Tenants : Signed(tn, session[j].map[tn], session[j].at)

VerdictOK(j) ==
    /\ session[j].at # Never /\ verdicts[j].until <= time + CacheTtl
    /\ IF verdicts[j].revoked THEN revoked[j] # Never
       ELSE verdicts[j].until <= revoked[j] + CacheTtl \/ Expired(j)

KnownOK(e) ==
    LET s == session[e.jti] IN
    /\ s.at # Never /\ ~s.ticket /\ e.tenant \in s.names /\ e.roles = s.map[e.tenant]
    /\ e.until <= time + CacheTtl /\ e.until <= revoked[e.jti] + CacheTtl
    /\ e.until <= s.at + SessionLife + CacheTtl

StoreOK(e) ==
    /\ e.tenant = Home /\ e.roles \in SUBSET Roles /\ e.asked \in Moments /\ e.made \in Moments
    /\ e.asked <= e.made /\ e.made <= time /\ e.until = e.made + TokenTtl
    /\ e.roles = {} => service
    /\ e.roles # {} => Found(Home, e.roles, e.asked)

(* What holds of a request on its way.                                     *)
Underway(t) ==
    LET r == request[t]  s == session[r.jti] IN
    /\ r.begin <= time /\ r.at <= time
    /\ r.pc # "rest" => r.door # None
    /\ r.door = "session" => r.jti \in Sessions /\ s.at # Never
    /\ r.pc \in {"ask", "introspect", "note", "keep"} => r.door = "session" /\ r.begin <= r.at
    /\ r.pc \in {"introspect", "keep"} => ~secret
    /\ r.pc \in {"ask", "note", "keep"} => r.at <= s.at + SessionLife
    /\ r.pc = "note" =>
          IF r.answer = "revoked" THEN revoked[r.jti] # Never
          ELSE r.at <= revoked[r.jti] \/ Expired(r.jti)
    /\ r.pc = "keep" =>
          /\ r.at <= revoked[r.jti] /\ ~s.ticket
          /\ r.tenant \in s.names /\ r.roles = s.map[r.tenant]
    /\ r.pc = "groups" => r.door = "password"

(* And of one that is over: the four properties, of one thread.            *)
Noticed(t) ==
    LET r == request[t] IN
    Admitted(t) /\ r.door = "session" =>
        \/ r.begin < revoked[r.jti] + CacheTtl
        \/ r.end > session[r.jti].at + SessionLife

MemberAttested(t) ==
    LET r == request[t]  s == session[r.jti] IN
    Admitted(t) =>
        IF r.door = "session"
        THEN IF s.ticket THEN r.roles = {}
             ELSE r.tenant \in s.names /\ Signed(r.tenant, r.roles, s.at)
        ELSE IF r.roles = {} THEN service ELSE Found(r.tenant, r.roles, r.at)

SessionLasts(k) == k + SessionLife + IF secret THEN 0 ELSE CacheTtl

OldRolesOut(t) ==
    LET r == request[t] IN
    Admitted(t) =>
        /\ r.door = "session" => r.begin <= SessionLasts(session[r.jti].at)
        /\ r.door = "own" => r.at <= r.made /\ r.begin <= r.made + TokenTtl
        /\ r.door \notin {"session", "own"} => r.begin <= r.at

RefusalDeserved(t) ==
    LET r == request[t] IN
    secret /\ r.pc = "done" /\ r.door = "session" /\ r.answer = "refused" =>
        \/ revoked[r.jti] # Never
        \/ time > session[r.jti].at + SessionLife
        \/ r.tenant \notin session[r.jti].names

OutcomeOK(t) == Noticed(t) /\ MemberAttested(t) /\ OldRolesOut(t) /\ RefusalDeserved(t)
ThreadOK(t) == Underway(t) /\ OutcomeOK(t)

CacheOK == IsFiniteSet(DOMAIN verdicts) /\ CacheIsBounded

AccessInv ==
    /\ AccessTypes /\ HistoryOK /\ CacheOK
    /\ \A j \in DOMAIN verdicts : VerdictOK(j)
    /\ \A e \in known : KnownOK(e)
    /\ \A e \in store : StoreOK(e)
    /\ \A t \in Threads : ThreadOK(t)

LEMMA Bounds ==
    /\ Horizon \in Nat /\ Never \in Nat /\ Never = Horizon + 1 /\ SessionLife \in Nat
    /\ TokenTtl \in Nat
    /\ CacheTtl \in Nat /\ CacheTtl > 0 /\ CacheMax \in Nat /\ CacheMax > 0 /\ Home \in Tenants
BY AccessAssumption DEF Never

(* The roles of a group, and of none.                                      *)
LEMMA GroupRoles ==
    /\ \A cn \in CnOrNone : {cn} \ {None} \in SUBSET Roles /\ RolesIn(cn) \in SUBSET Roles
    /\ RolesIn(None) = {}
BY DEF CnOrNone, Roles, Cns, RolesIn, None

(* Nothing is taken back: time runs on, a session stays what was signed    *)
(* and signed out, and the history is added to.                            *)
Onward ==
    /\ time' >= time /\ UNCHANGED <<service, secret>>
    /\ \A j \in Sessions : session[j].at # Never => session'[j] = session[j]
    /\ \A j \in Sessions : revoked'[j] = revoked[j] \/ (revoked[j] = Never /\ revoked'[j] = time)
    /\ \A tn \in Tenants, k \in Moments : held[tn][k] \subseteq held'[tn][k]

LEMMA SourcesStay ==
    ASSUME Onward, NEW tn \in Tenants, NEW k \in Moments, NEW roles
    PROVE  /\ Signed(tn, roles, k) => Signed(tn, roles, k)'
           /\ Found(tn, roles, k) => Found(tn, roles, k)'
<1>1. held[tn][k] \subseteq held'[tn][k]
    BY DEF Onward
<1>2. QED
    BY <1>1 DEF Signed, Found

LEMMA VerdictStays ==
    ASSUME AccessTypes, AccessTypes', Onward, NEW j \in DOMAIN verdicts,
           verdicts' = verdicts, VerdictOK(j)
    PROVE  VerdictOK(j)'
<1>1. /\ j \in Sessions /\ verdicts[j].until \in Nat
    BY DEF AccessTypes, VerdictTypes
<1>2. /\ time \in Nat /\ time' \in Nat /\ time' >= time
      /\ revoked[j] \in Nat /\ revoked'[j] \in Nat
      /\ \/ revoked'[j] = revoked[j]
         \/ revoked[j] = Never /\ revoked'[j] = time
    BY <1>1, Bounds DEF AccessTypes, Onward, Moments
<1>3. session'[j] = session[j] /\ session[j].at \in Nat
    BY <1>1, Bounds DEF VerdictOK, Onward, AccessTypes, SessionTypes
<1>4. Expired(j) => Expired(j)'
    BY <1>2, <1>3, Bounds DEF Expired
<1> DEFINE old == Expired(j)
           new == Expired(j)'
<1>5. VerdictOK(j)' <=>
          /\ session[j].at # Never /\ verdicts[j].until <= time' + CacheTtl
          /\ IF verdicts[j].revoked THEN revoked'[j] # Never
             ELSE verdicts[j].until <= revoked'[j] + CacheTtl \/ new
    BY <1>3 DEF VerdictOK
<1>6. old => new
    BY <1>4
<1> HIDE DEF new
<1>7. QED
    BY <1>1, <1>2, <1>5, <1>6, Bounds DEF VerdictOK

LEMMA KnownStays ==
    ASSUME AccessTypes, AccessTypes', Onward, NEW e \in KnownTypes, KnownOK(e)
    PROVE  KnownOK(e)'
<1>1. e.jti \in Sessions /\ e.until \in Nat
    BY DEF KnownTypes
<1>2. session'[e.jti] = session[e.jti]
    BY <1>1 DEF KnownOK, Onward
<1>3. e.until <= time' + CacheTtl /\ e.until <= revoked'[e.jti] + CacheTtl
    <2>1. /\ time \in Nat /\ time' \in Nat /\ time' >= time
          /\ revoked[e.jti] \in Nat /\ revoked'[e.jti] \in Nat
          /\ revoked'[e.jti] = revoked[e.jti] \/ revoked'[e.jti] = time
        BY <1>1, Bounds DEF AccessTypes, Onward, Moments
    <2>2. QED
        BY <1>1, <2>1, Bounds DEF KnownOK
<1>4. QED
    BY <1>2, <1>3 DEF KnownOK

LEMMA StoreStays ==
    ASSUME AccessTypes, AccessTypes', Onward, NEW e, StoreOK(e)
    PROVE  StoreOK(e)'
<1>1. Home \in Tenants /\ e.asked \in Moments
    BY Bounds DEF StoreOK
<1>2. e.roles # {} => Found(Home, e.roles, e.asked)'
    BY <1>1, SourcesStay DEF StoreOK
<1>3. e.made <= time'
    BY Bounds DEF StoreOK, Onward, AccessTypes, Moments
<1>4. QED
    BY <1>2, <1>3 DEF StoreOK, Onward

LEMMA ThreadStays ==
    ASSUME AccessTypes, AccessTypes', Onward, NEW t \in Threads,
           request'[t] = request[t], ThreadOK(t)
    PROVE  ThreadOK(t)'
<1> DEFINE r == request[t]
           s == session[r.jti]
<1>1. /\ r \in RequestTypes /\ r.tenant \in Tenants /\ r.at \in Moments
      /\ r.begin \in Nat /\ r.at \in Nat /\ time \in Nat /\ time' \in Nat
    BY Bounds DEF AccessTypes, RequestTypes, Moments
<1>2. r.door = "session" =>
          /\ r.jti \in Sessions /\ s.at # Never /\ session'[r.jti] = s
          /\ revoked[r.jti] \in Nat /\ revoked'[r.jti] \in Nat
          /\ s.at \in Nat /\ s.at <= Never
          /\ \/ revoked'[r.jti] = revoked[r.jti]
             \/ revoked[r.jti] = Never /\ revoked'[r.jti] = time
    BY Bounds DEF ThreadOK, Underway, Onward, AccessTypes, SessionTypes
<1>3. time' >= time /\ time \in Moments /\ service' = service /\ secret' = secret
    BY DEF Onward, AccessTypes
<1>4. r.door = "session" /\ Expired(r.jti) => Expired(r.jti)'
    BY <1>1, <1>2, <1>3, Bounds DEF Expired
<1>5. Underway(t)'
    <2>1. r.pc = "note" =>
              IF r.answer = "revoked" THEN revoked'[r.jti] # Never
              ELSE r.at <= revoked'[r.jti] \/ Expired(r.jti)'
        <3> DEFINE old == Expired(r.jti)
                   new == Expired(r.jti)'
        <3>1. r.door = "session" /\ old => new
            BY <1>4
        <3>2. r.pc = "note" =>
                  /\ r.door = "session"
                  /\ IF r.answer = "revoked" THEN revoked[r.jti] # Never
                     ELSE r.at <= revoked[r.jti] \/ old
            BY DEF ThreadOK, Underway
        <3>3. r.at <= time /\ time < Never
            BY <1>1, <1>3, Bounds DEF ThreadOK, Underway, Moments
        <3> HIDE DEF old, new
        <3>4. r.pc = "note" =>
                  IF r.answer = "revoked" THEN revoked'[r.jti] # Never
                  ELSE r.at <= revoked'[r.jti] \/ new
            BY <1>1, <1>2, <3>1, <3>2, <3>3, Bounds
        <3>5. QED
            BY <3>4 DEF new
    <2>2. r.begin <= time' /\ r.at <= time'
        BY <1>1, <1>3 DEF ThreadOK, Underway
    <2>3. r.pc = "keep" => r.at <= revoked'[r.jti]
        BY <1>1, <1>2, <1>3, Bounds DEF ThreadOK, Underway
    <2>4. QED
        BY <1>2, <1>3, <2>1, <2>2, <2>3 DEF ThreadOK, Underway
<1>6. Noticed(t)'
    <2>1. r.begin <= time
        BY DEF ThreadOK, Underway
    <2>2. QED
        BY <1>1, <1>2, <2>1, Bounds DEF ThreadOK, OutcomeOK, Noticed, Admitted
<1>7. MemberAttested(t)'
    <2>1. r.door = "session" => s.at \in Moments
        BY <1>2, Bounds DEF Moments
    <2>2. r.door = "session" /\ Signed(r.tenant, r.roles, s.at) => Signed(r.tenant, r.roles, s.at)'
        <3> DEFINE tn == r.tenant  roles == r.roles  k == s.at
        <3> SUFFICES ASSUME r.door = "session", Signed(tn, roles, k) PROVE Signed(tn, roles, k)'
            OBVIOUS
        <3>1. tn \in Tenants /\ k \in Moments /\ tn' = tn /\ roles' = roles /\ k' = k
            BY <1>1, <1>2, <2>1
        <3> HIDE DEF tn, roles, k
        <3>2. held[tn][k] \subseteq held'[tn][k]
            BY <3>1 DEF Onward
        <3>3. QED
            BY <3>1, <3>2 DEF Signed
    <2>3. Found(r.tenant, r.roles, r.at) => Found(r.tenant, r.roles, r.at)'
        <3> DEFINE tn == r.tenant  roles == r.roles  k == r.at
        <3> SUFFICES ASSUME Found(tn, roles, k) PROVE Found(tn, roles, k)'
            OBVIOUS
        <3>1. tn \in Tenants /\ k \in Moments /\ tn' = tn /\ roles' = roles /\ k' = k
            BY <1>1
        <3> HIDE DEF tn, roles, k
        <3>2. held[tn][k] \subseteq held'[tn][k]
            BY <3>1 DEF Onward
        <3>3. QED
            BY <3>1, <3>2 DEF Found
    <2>4. QED
        BY <1>2, <1>3, <2>2, <2>3 DEF ThreadOK, OutcomeOK, MemberAttested, Admitted
<1>8. OldRolesOut(t)'
    BY <1>2, <1>3 DEF ThreadOK, OutcomeOK, OldRolesOut, Admitted, SessionLasts
<1>9. RefusalDeserved(t)'
    BY <1>1, <1>2, <1>3, Bounds DEF ThreadOK, OutcomeOK, RefusalDeserved, Moments
<1>10. QED
    BY <1>5, <1>6, <1>7, <1>8, <1>9 DEF ThreadOK, OutcomeOK

-----------------------------------------------------------------------------
(* What happens to the world, and what a thread does.                      *)
LEMMA WorldStep ==
    ASSUME AccessInv, AccessTypes', HistoryOK', Onward, UNCHANGED <<verdicts, known, store, request>>
    PROVE  AccessInv'
<1>1. AccessTypes /\ CacheOK' /\ \A e \in known : e \in KnownTypes
    BY DEF AccessInv, AccessTypes, CacheOK, CacheIsBounded
<1>2. \A j \in DOMAIN verdicts' : VerdictOK(j)'
    BY <1>1, VerdictStays DEF AccessInv
<1>3. \A e \in known' : KnownOK(e)'
    BY <1>1, KnownStays DEF AccessInv
<1>4. \A e \in store' : StoreOK(e)'
    BY <1>1, StoreStays DEF AccessInv
<1>5. \A t \in Threads : ThreadOK(t)'
    BY <1>1, ThreadStays DEF AccessInv
<1>6. QED
    BY <1>1, <1>2, <1>3, <1>4, <1>5 DEF AccessInv

World == <<time, service, member, held, session, revoked, secret>>

LEMMA WorldRests ==
    ASSUME AccessInv, UNCHANGED World
    PROVE  Onward /\ HistoryOK'
<1>1. UNCHANGED <<time, service, member, held, session, revoked, secret>>
    BY DEF World
<1>2. time \in Nat
    BY Bounds DEF AccessInv, AccessTypes, Moments
<1>3. QED
    BY <1>1, <1>2 DEF Onward, HistoryOK, AccessInv, Signed

LEMMA ThreadStep ==
    ASSUME AccessInv, AccessTypes', UNCHANGED World, NEW t \in Threads,
           \A u \in Threads : u # t => request'[u] = request[u], ThreadOK(t)',
           CacheOK', \A j \in DOMAIN verdicts' : VerdictOK(j)',
           \A e \in known' : KnownOK(e)', \A e \in store' : StoreOK(e)'
    PROVE  AccessInv'
<1>1. AccessTypes /\ Onward /\ HistoryOK'
    BY WorldRests DEF AccessInv
<1>2. \A u \in Threads : ThreadOK(u)'
    BY <1>1, ThreadStays DEF AccessInv
<1>3. QED
    BY <1>1, <1>2 DEF AccessInv

(* Most leave what is remembered alone.                                    *)
Memories == <<verdicts, known, store>>

LEMMA MemoriesRest ==
    ASSUME AccessInv, AccessTypes', UNCHANGED World, UNCHANGED Memories
    PROVE  /\ CacheOK' /\ \A j \in DOMAIN verdicts' : VerdictOK(j)'
           /\ \A e \in known' : KnownOK(e)'
           /\ \A e \in store' : StoreOK(e)'
<1>1. UNCHANGED <<verdicts, known, store>>
    BY DEF Memories
<1>2. /\ AccessTypes /\ Onward /\ CacheOK' /\ \A e \in known : e \in KnownTypes
    BY <1>1, WorldRests DEF AccessInv, AccessTypes, CacheOK, CacheIsBounded
<1>3. \A j \in DOMAIN verdicts' : VerdictOK(j)'
    BY <1>1, <1>2, VerdictStays DEF AccessInv
<1>4. \A e \in known' : KnownOK(e)'
    BY <1>1, <1>2, KnownStays DEF AccessInv
<1>5. \A e \in store' : StoreOK(e)'
    BY <1>1, <1>2, StoreStays DEF AccessInv
<1>6. QED
    BY <1>2, <1>3, <1>4, <1>5

Puts(t, r) == request' = [request EXCEPT ![t] = r]

LEMMA OneRequest ==
    ASSUME AccessTypes, NEW t \in Threads, NEW r \in RequestTypes, Puts(t, r)
    PROVE  /\ request' \in [Threads -> RequestTypes] /\ request'[t] = r
           /\ \A u \in Threads : u # t => request'[u] = request[u]
BY DEF AccessTypes, Puts

(* A request that ends differs in its outcome only.                        *)
Over(t, reply, roles) ==
    LET r == request[t]  n == request'[t] IN
    /\ n.pc = "done" /\ n.answer = reply /\ n.roles = roles /\ n.end = time
    /\ n.door = r.door /\ n.tenant = r.tenant /\ n.jti = r.jti /\ n.begin = r.begin /\ n.at = r.at

Alone(t) == /\ request' \in [Threads -> RequestTypes]
            /\ \A u \in Threads : u # t => request'[u] = request[u]

LEMMA Ending ==
    ASSUME AccessTypes, NEW t \in Threads, NEW reply \in Sayings, NEW roles \in SUBSET Roles,
           Decided(t, reply, roles)
    PROVE  Alone(t) /\ Over(t, reply, roles)
<1> DEFINE n == [request[t] EXCEPT !.pc = "done", !.answer = reply, !.roles = roles, !.end = time]
<1>1. request[t] \in RequestTypes /\ time \in Moments
    BY DEF AccessTypes
<1>2. /\ n \in RequestTypes /\ n.pc = "done" /\ n.answer = reply /\ n.roles = roles /\ n.end = time
      /\ n.door = request[t].door /\ n.tenant = request[t].tenant /\ n.jti = request[t].jti
      /\ n.begin = request[t].begin /\ n.at = request[t].at
    BY <1>1 DEF RequestTypes, Stations
<1>3. Puts(t, n)
    BY DEF Decided, Puts
<1> HIDE DEF n
<1>4. QED
    BY <1>2, <1>3, OneRequest DEF Alone, Over

LEMMA Scoping ==
    ASSUME AccessTypes, NEW t \in Threads, NEW j \in Sessions, Scoped(t, session[j])
    PROVE  /\ Alone(t)
           /\ \/ Over(t, "admitted", {}) /\ session[j].ticket
              \/ /\ ~session[j].ticket /\ request[t].tenant \in session[j].names
                 /\ Over(t, "admitted", session[j].map[request[t].tenant])
              \/ request[t].tenant \notin session[j].names /\ Over(t, "refused", {})
<1> DEFINE roles == session[j].map[request[t].tenant]
<1>1. roles \in SUBSET Roles /\ {} \in SUBSET Roles /\ {"admitted", "refused"} \subseteq Sayings
    BY DEF AccessTypes, RequestTypes, SessionTypes, Sayings
<1>2. \/ Decided(t, "admitted", {}) /\ session[j].ticket
      \/ /\ ~session[j].ticket /\ request[t].tenant \in session[j].names
         /\ Decided(t, "admitted", roles)
      \/ request[t].tenant \notin session[j].names /\ Decided(t, "refused", {})
    BY DEF Scoped
<1> HIDE DEF roles
<1>3. QED
    BY <1>1, <1>2, Ending DEF roles

-----------------------------------------------------------------------------
(* The world's steps.                                                      *)
LEMMA HistoryStays ==
    ASSUME AccessInv, Onward, UNCHANGED session, time' \in Nat,
           \A tn \in Tenants : member'[tn] \in held'[tn][time']
    PROVE  HistoryOK'
<1>1. \A j \in Sessions : session[j].at \in 0..Never
    BY DEF AccessInv, AccessTypes, SessionTypes
<1>2. \A j \in Sessions : session[j].at # Never => session[j].at \in Moments
    BY <1>1, Bounds DEF Moments
<1>3. time' >= time /\ time \in Nat /\ HistoryOK
    BY Bounds DEF AccessInv, AccessTypes, Onward, Moments
<1>4. ASSUME NEW j \in Sessions, session'[j].at # Never
      PROVE  /\ session'[j].at <= time'
             /\ \A tn \in Tenants : Signed(tn, session[j].map[tn], session[j].at)'
    <2>1. session'[j] = session[j] /\ session[j].at \in Moments /\ session[j].at <= time
        BY <1>2, <1>3, <1>4 DEF HistoryOK
    <2>2. session[j].at <= time'
        BY <1>3, <2>1, Bounds DEF Moments
    <2>3. ASSUME NEW tn \in Tenants PROVE Signed(tn, session[j].map[tn], session[j].at)'
        <3>1. PICK cn \in held[tn][session[j].at] : session[j].map[tn] = {cn} \ {None}
            BY <1>3, <1>4, <2>1 DEF HistoryOK, Signed
        <3>2. cn \in held'[tn][session[j].at]
            BY <2>1, <3>1 DEF Onward
        <3>3. QED
            BY <2>1, <3>1, <3>2 DEF Signed
    <2>4. QED
        BY <2>1, <2>2, <2>3
<1>5. QED
    BY <1>4 DEF HistoryOK

LEMMA ClockStep ==
    ASSUME AccessInv, ClockMoves
    PROVE  AccessInv'
<1>1. /\ time \in Nat /\ time + 1 \in Moments /\ time' = time + 1 /\ member' = member
      /\ held' = Held(time + 1)
      /\ UNCHANGED <<service, session, revoked, redis, secret, verdicts, known, store, request>>
    BY Bounds DEF AccessInv, AccessTypes, ClockMoves, Moments
<1>2. /\ held \in [Tenants -> [Moments -> SUBSET CnOrNone]]
      /\ member \in [Tenants -> CnOrNone]
    BY DEF AccessInv, AccessTypes
<1>3. /\ held' \in [Tenants -> [Moments -> SUBSET CnOrNone]]
      /\ \A tn \in Tenants : member[tn] \in held'[tn][time + 1]
      /\ \A tn \in Tenants, k \in Moments : held[tn][k] \subseteq held'[tn][k]
    BY <1>1, <1>2 DEF Held
<1>4. AccessTypes' /\ Onward
    BY <1>1, <1>2, <1>3 DEF AccessInv, AccessTypes, Onward
<1>5. HistoryOK'
    BY <1>1, <1>3, <1>4, HistoryStays
<1>6. QED
    BY <1>1, <1>4, <1>5, WorldStep

LEMMA MoveStep ==
    ASSUME AccessInv, NEW t \in Tenants, NEW cn \in CnOrNone, Move(t, cn)
    PROVE  AccessInv'
<1>1. /\ time \in Nat /\ time \in Moments /\ member' = [member EXCEPT ![t] = cn]
      /\ held' = Held(time)
      /\ UNCHANGED <<time, service, session, revoked, redis, secret, verdicts, known, store, request>>
    BY Bounds DEF AccessInv, AccessTypes, Move, Moments
<1>2. /\ held \in [Tenants -> [Moments -> SUBSET CnOrNone]]
      /\ member \in [Tenants -> CnOrNone] /\ member' \in [Tenants -> CnOrNone]
    BY <1>1 DEF AccessInv, AccessTypes
<1>3. /\ held' \in [Tenants -> [Moments -> SUBSET CnOrNone]]
      /\ \A tn \in Tenants : member'[tn] \in held'[tn][time]
      /\ \A tn \in Tenants, k \in Moments : held[tn][k] \subseteq held'[tn][k]
    BY <1>1, <1>2 DEF Held
<1>4. AccessTypes' /\ Onward
    BY <1>1, <1>2, <1>3 DEF AccessInv, AccessTypes, Onward
<1>5. HistoryOK'
    BY <1>1, <1>3, <1>4, HistoryStays
<1>6. QED
    BY <1>1, <1>4, <1>5, WorldStep

LEMMA SignStep ==
    ASSUME AccessInv, NEW j \in Sessions, NEW ticket \in BOOLEAN, NEW bare \in SUBSET Tenants,
           Sign(j, ticket, bare)
    PROVE  AccessInv'
<1> DEFINE s == [at |-> time, names |-> {t \in Tenants : member[t] # None} \cup bare,
                 map |-> [t \in Tenants |-> {member[t]} \ {None}], ticket |-> ticket]
<1>1. /\ time \in Nat /\ time \in Moments /\ time \in 0..Never /\ session[j].at = Never
      /\ session' = [session EXCEPT ![j] = s]
      /\ UNCHANGED <<time, service, member, held, revoked, redis, secret, verdicts, known, store, request>>
    BY Bounds DEF AccessInv, AccessTypes, Sign, Moments
<1>2. /\ s.at = time /\ \A tn \in Tenants : s.map[tn] = {member[tn]} \ {None}
      /\ \A tn \in Tenants : s.map[tn] \in SUBSET Roles
    BY GroupRoles DEF AccessInv, AccessTypes
<1>3. s \in SessionTypes
    <2>1. s.map \in [Tenants -> SUBSET Roles]
        BY <1>2
    <2>2. QED
        BY <1>1, <2>1 DEF SessionTypes
<1> HIDE DEF s
<1>4. /\ session' \in [Sessions -> SessionTypes] /\ session'[j] = s
      /\ \A k \in Sessions : k # j => session'[k] = session[k]
    BY <1>1, <1>3 DEF AccessInv, AccessTypes
<1>5. AccessTypes' /\ Onward
    BY <1>1, <1>4 DEF AccessInv, AccessTypes, Onward
<1>6. HistoryOK'
    <2>1. \A tn \in Tenants : member[tn] \in held[tn][time]
        BY DEF AccessInv, HistoryOK
    <2>2. ASSUME NEW k \in Sessions, session'[k].at # Never
          PROVE  /\ session'[k].at <= time
                 /\ \A tn \in Tenants : Signed(tn, session[k].map[tn], session[k].at)'
        <3>1. CASE k = j
            BY <1>1, <1>2, <1>4, <2>1, <3>1 DEF Signed
        <3>2. CASE k # j
            BY <1>1, <1>4, <2>2, <3>2 DEF AccessInv, HistoryOK, Signed
        <3>3. QED
            BY <3>1, <3>2
    <2>3. QED
        BY <1>1, <2>1, <2>2 DEF HistoryOK
<1>7. QED
    BY <1>1, <1>5, <1>6, WorldStep

LEMMA SignOutStep ==
    ASSUME AccessInv, NEW j \in Sessions, SignOut(j)
    PROVE  AccessInv'
<1>1. /\ time \in Nat /\ time \in 0..Never /\ revoked[j] = Never
      /\ revoked' = [revoked EXCEPT ![j] = time]
      /\ UNCHANGED <<time, service, member, held, session, redis, secret, verdicts, known, store, request>>
    BY Bounds DEF AccessInv, AccessTypes, SignOut, Moments
<1>2. AccessTypes' /\ Onward
    BY <1>1 DEF AccessInv, AccessTypes, Onward
<1>3. HistoryOK'
    BY <1>1 DEF AccessInv, HistoryOK, Signed
<1>4. QED
    BY <1>1, <1>2, <1>3, WorldStep

LEMMA RedisStep ==
    ASSUME AccessInv, RedisFlips
    PROVE  AccessInv'
<1>1. /\ redis' = ~redis
      /\ UNCHANGED <<time, service, member, held, session, revoked, secret, verdicts, known, store, request>>
    BY DEF RedisFlips
<1>2. AccessTypes'
    BY <1>1 DEF AccessInv, AccessTypes
<1>3. Onward /\ HistoryOK'
    BY <1>1, WorldRests DEF World
<1>4. QED
    BY <1>1, <1>2, <1>3, WorldStep

-----------------------------------------------------------------------------
(* The steps of a request.  First those that leave what is remembered.     *)
LEMMA PlainStep ==
    ASSUME AccessInv, UNCHANGED World, UNCHANGED Memories, UNCHANGED redis,
           NEW t \in Threads, Alone(t), ThreadOK(t)'
    PROVE  AccessInv'
<1>1. UNCHANGED <<time, service, member, held, session, revoked, secret, verdicts, known, store>>
    BY DEF World, Memories
<1>2. AccessTypes'
    BY <1>1 DEF AccessInv, AccessTypes, Alone
<1>3. /\ CacheOK' /\ \A j \in DOMAIN verdicts' : VerdictOK(j)'
      /\ \A e \in known' : KnownOK(e)'
      /\ \A e \in store' : StoreOK(e)'
    BY <1>2, MemoriesRest
<1>4. QED
    BY <1>2, <1>3, ThreadStep DEF Alone

(* A refusal is in order whatever it is for, where it is not of a session  *)
(* that the service can check.                                             *)
LEMMA RefusedOK ==
    ASSUME AccessInv, UNCHANGED World, NEW t \in Threads, Alone(t), request[t].pc # "rest",
           NEW reply \in {"refused", "unavailable"}, Over(t, reply, {}),
           reply = "refused" /\ secret /\ request[t].door = "session" =>
               \/ revoked[request[t].jti] # Never
               \/ time > session[request[t].jti].at + SessionLife
               \/ request[t].tenant \notin session[request[t].jti].names
    PROVE  ThreadOK(t)'
<1>1. UNCHANGED <<time, session, revoked, secret>>
    BY DEF World
<1>2. Underway(t)
    BY DEF AccessInv, ThreadOK
<1>3. Underway(t)'
    BY <1>1, <1>2 DEF Underway, Over
<1>4. ~Admitted(t)'
    BY DEF Admitted, Over
<1>5. RefusalDeserved(t)'
    BY <1>1 DEF RefusalDeserved, Over
<1>6. QED
    BY <1>3, <1>4, <1>5 DEF ThreadOK, OutcomeOK, Noticed, MemberAttested, OldRolesOut

(* An admission of a session, with what its map says.                      *)
LEMMA AdmittedOK ==
    ASSUME AccessInv, UNCHANGED World, NEW t \in Threads, Alone(t),
           request[t].pc # "rest", request[t].door = "session",
           NEW roles, Over(t, "admitted", roles),
           \/ roles = {} /\ session[request[t].jti].ticket
           \/ /\ ~session[request[t].jti].ticket
              /\ request[t].tenant \in session[request[t].jti].names
              /\ roles = session[request[t].jti].map[request[t].tenant],
           \/ request[t].begin < revoked[request[t].jti] + CacheTtl
           \/ time > session[request[t].jti].at + SessionLife,
           request[t].begin <= SessionLasts(session[request[t].jti].at)
    PROVE  ThreadOK(t)'
<1>1. UNCHANGED <<time, service, held, session, revoked, secret>>
    BY DEF World
<1> DEFINE r == request[t]
<1>2. /\ Underway(t) /\ r.jti \in Sessions /\ session[r.jti].at # Never /\ r.tenant \in Tenants
    BY DEF AccessInv, ThreadOK, Underway, AccessTypes, RequestTypes
<1>3. Underway(t)'
    BY <1>1, <1>2 DEF Underway, Over
<1>4. Noticed(t)'
    BY <1>1 DEF Noticed, Over
<1>5. Signed(r.tenant, session[r.jti].map[r.tenant], session[r.jti].at)
    BY <1>2 DEF AccessInv, HistoryOK
<1>6. MemberAttested(t)'
    BY <1>1, <1>5 DEF MemberAttested, Over, Signed
<1>7. OldRolesOut(t)'
    BY <1>1 DEF OldRolesOut, Over, SessionLasts
<1>8. RefusalDeserved(t)'
    BY DEF RefusalDeserved, Over
<1>9. QED
    BY <1>3, <1>4, <1>6, <1>7, <1>8 DEF ThreadOK, OutcomeOK

(* An admission by another door.                                           *)
LEMMA OtherDoorOK ==
    ASSUME AccessInv, UNCHANGED World, NEW t \in Threads, Alone(t),
           request'[t].pc = "done", request'[t].answer = "admitted",
           request'[t].door \in {"own", "password"},
           request'[t].begin <= time, request'[t].at <= time,
           request'[t].roles = {} => service,
           request'[t].roles # {} => Found(request'[t].tenant, request'[t].roles, request'[t].at),
           IF request'[t].door = "own"
           THEN request'[t].at <= request'[t].made /\ request'[t].begin <= request'[t].made + TokenTtl
           ELSE request'[t].begin <= request'[t].at
    PROVE  ThreadOK(t)'
<1>1. UNCHANGED <<time, service, held, session, revoked, secret>>
    BY DEF World
<1>2. Noticed(t)' /\ RefusalDeserved(t)' /\ OldRolesOut(t)'
    BY DEF Noticed, RefusalDeserved, OldRolesOut
<1>3. Underway(t)'
    BY <1>1 DEF Underway, None
<1>4. MemberAttested(t)'
    BY <1>1 DEF MemberAttested, Found
<1>5. QED
    BY <1>2, <1>3, <1>4 DEF ThreadOK, OutcomeOK

LEMMA ArriveStep ==
    ASSUME AccessInv, NEW t \in Threads, NEW tenant \in Tenants,
           NEW door \in {"own", "session", "password"}, NEW j \in Sessions \cup {None},
           door = "session" => j \in Sessions /\ session[j].at # Never,
           Arrive(t, door, tenant, j)
    PROVE  AccessInv'
<1> DEFINE n == [Rest EXCEPT !.pc = "read", !.door = door, !.tenant = tenant, !.jti = j, !.begin = time]
<1>1. /\ UNCHANGED <<time, service, member, held, session, revoked, redis, secret, verdicts, known, store>>
      /\ Puts(t, n)
    BY DEF Arrive, Puts
<1>2. n.pc = "read" /\ n.door = door /\ n.jti = j /\ n.begin = time /\ n.at = 0
    BY DEF Rest
<1>3. n \in RequestTypes
    <2>1. /\ time \in Moments /\ 0 \in Moments /\ None \in Sayings
        BY Bounds DEF AccessInv, AccessTypes, Moments, Sayings
    <2>2. Rest \in RequestTypes
        BY <2>1, Bounds DEF Rest, RequestTypes, Stations
    <2>3. QED
        BY <2>1, <2>2 DEF RequestTypes, Stations
<1> HIDE DEF n
<1>4. UNCHANGED World /\ UNCHANGED Memories /\ UNCHANGED redis
    BY <1>1 DEF World, Memories
<1>5. Alone(t) /\ request'[t] = n
    BY <1>1, <1>3, OneRequest DEF Alone, AccessInv
<1>6. time \in Nat
    BY Bounds DEF AccessInv, AccessTypes, Moments
<1>7. Underway(t)'
    BY <1>1, <1>2, <1>5, <1>6 DEF Underway, None
<1>8. ThreadOK(t)'
    BY <1>2, <1>5, <1>7 DEF ThreadOK, OutcomeOK, Noticed, MemberAttested, OldRolesOut, RefusalDeserved, Admitted
<1>9. QED
    BY <1>4, <1>5, <1>8, PlainStep

LEMMA BindStep ==
    ASSUME AccessInv, NEW t \in Threads, Bind(t)
    PROVE  AccessInv'
<1> DEFINE n == [request[t] EXCEPT !.pc = "groups"]
<1>1. /\ request[t].pc = "read" /\ request[t].door = "password" /\ Puts(t, n)
      /\ UNCHANGED <<time, service, member, held, session, revoked, redis, secret, verdicts, known, store>>
    BY DEF Bind, Puts
<1>2. request[t] \in RequestTypes /\ Underway(t)
    BY DEF AccessInv, AccessTypes, ThreadOK
<1>3. /\ n \in RequestTypes /\ n.pc = "groups" /\ n.door = "password"
      /\ n.begin = request[t].begin /\ n.at = request[t].at
    BY <1>1, <1>2 DEF RequestTypes, Stations
<1> HIDE DEF n
<1>4. UNCHANGED World /\ UNCHANGED Memories /\ UNCHANGED redis
    BY <1>1 DEF World, Memories
<1>5. Alone(t) /\ request'[t] = n
    BY <1>1, <1>3, OneRequest DEF Alone, AccessInv
<1>6. ThreadOK(t)'
    BY <1>1, <1>2, <1>3, <1>5
       DEF Underway, ThreadOK, OutcomeOK, Noticed, MemberAttested, OldRolesOut, RefusalDeserved,
           Admitted
<1>7. QED
    BY <1>4, <1>5, <1>6, PlainStep

LEMMA GroupsStep ==
    ASSUME AccessInv, NEW t \in Threads, Groups(t)
    PROVE  AccessInv'
<1> DEFINE cn == member[request[t].tenant]
<1>1. /\ request[t].pc = "groups"
      /\ UNCHANGED <<time, service, member, held, session, revoked, redis, secret, verdicts, known, store>>
    BY DEF Groups
<1>2. /\ request[t] \in RequestTypes /\ Underway(t) /\ request[t].door = "password"
      /\ request[t].tenant \in Tenants /\ request[t].begin \in Nat
      /\ request[t].begin <= time /\ time \in Moments /\ time \in Nat
    BY <1>1, Bounds DEF AccessInv, AccessTypes, ThreadOK, Underway, RequestTypes, Moments
<1>3. /\ cn \in CnOrNone /\ cn \in held[request[t].tenant][time]
      /\ AccessTypes /\ UNCHANGED World /\ UNCHANGED Memories /\ UNCHANGED redis
    BY <1>1, <1>2 DEF AccessInv, AccessTypes, HistoryOK, World, Memories
<1>4. PICK roles \in {RolesIn(cn), {}} :
          Puts(t, [request[t] EXCEPT !.pc = "done", !.at = time, !.end = time, !.roles = roles,
                      !.answer = IF roles # {} \/ service THEN "admitted" ELSE "refused"])
    BY DEF Groups, Puts
<1> HIDE DEF cn
<1>5. /\ roles \in SUBSET Roles
      /\ roles # {} => Found(request[t].tenant, roles, time)
    BY <1>3, <1>4, GroupRoles DEF Found
<1> DEFINE said == IF roles # {} \/ service THEN "admitted" ELSE "refused"
           n == [request[t] EXCEPT !.pc = "done", !.at = time, !.end = time, !.roles = roles,
                     !.answer = said]
<1>6. said \in {"admitted", "refused"} /\ (said = "admitted" => roles # {} \/ service) /\ said \in Sayings
    BY DEF Sayings
<1>7. Puts(t, n)
    BY <1>4
<1> HIDE DEF said
<1>8. /\ n \in RequestTypes /\ n.pc = "done" /\ n.door = "password" /\ n.answer = said
      /\ n.begin = request[t].begin /\ n.at = time /\ n.roles = roles /\ n.tenant = request[t].tenant
    BY <1>2, <1>5, <1>6 DEF RequestTypes, Stations
<1> HIDE DEF n
<1>9. Alone(t) /\ request'[t] = n
    BY <1>3, <1>7, <1>8, OneRequest DEF Alone
<1>10. CASE said = "admitted"
    <2>1. ThreadOK(t)'
        BY <1>2, <1>3, <1>5, <1>6, <1>8, <1>9, <1>10, OtherDoorOK
    <2>2. QED
        BY <1>3, <1>9, <2>1, PlainStep
<1>11. CASE said = "refused"
    <2>1. Underway(t)'
        BY <1>1, <1>2, <1>8, <1>9 DEF Underway, None
    <2>2. ThreadOK(t)'
        BY <1>8, <1>9, <1>11, <2>1
           DEF ThreadOK, OutcomeOK, Noticed, MemberAttested, OldRolesOut, RefusalDeserved, Admitted
    <2>3. QED
        BY <1>3, <1>9, <2>2, PlainStep
<1>12. QED
    BY <1>6, <1>10, <1>11

(* With the verdict a session is let in on, its map decides.               *)
LEMMA ScopedOK ==
    ASSUME AccessInv, UNCHANGED World, NEW t \in Threads, NEW j \in Sessions,
           request[t].pc # "rest", request[t].door = "session", request[t].jti = j,
           request[t].begin < revoked[j] + CacheTtl \/ time > session[j].at + SessionLife,
           request[t].begin <= SessionLasts(session[j].at), Scoped(t, session[j])
    PROVE  Alone(t) /\ ThreadOK(t)'
<1>1. AccessTypes
    BY DEF AccessInv
<1>2. /\ Alone(t)
      /\ \/ Over(t, "admitted", {}) /\ session[j].ticket
         \/ /\ ~session[j].ticket /\ request[t].tenant \in session[j].names
            /\ Over(t, "admitted", session[j].map[request[t].tenant])
         \/ request[t].tenant \notin session[j].names /\ Over(t, "refused", {})
    BY <1>1, Scoping
<1>3. CASE Over(t, "admitted", {}) /\ session[j].ticket
    BY <1>2, <1>3, AdmittedOK
<1>4. CASE /\ ~session[j].ticket /\ request[t].tenant \in session[j].names
           /\ Over(t, "admitted", session[j].map[request[t].tenant])
    BY <1>2, <1>4, AdmittedOK
<1>5. CASE request[t].tenant \notin session[j].names /\ Over(t, "refused", {})
    BY <1>2, <1>5, RefusedOK
<1>6. QED
    BY <1>2, <1>3, <1>4, <1>5

LEMMA OwnTokenStep ==
    ASSUME AccessInv, NEW t \in Threads, OwnToken(t)
    PROVE  AccessInv'
<1>1. /\ request[t].pc = "read" /\ request[t].door = "own"
      /\ UNCHANGED <<time, service, member, held, session, revoked, redis, secret, verdicts, known>>
    BY DEF OwnToken
<1> DEFINE entered(e) == [request[t] EXCEPT !.pc = "done", !.answer = "admitted", !.roles = e.roles,
                                            !.at = e.asked, !.made = e.made, !.end = time]
<1> HIDE DEF entered
<1>0. PICK e \in store :
          IF time > e.until
          THEN store' = store \ {e} /\ Decided(t, "refused", {})
          ELSE /\ UNCHANGED store
               /\ IF e.tenant = request[t].tenant
                  THEN request' = [request EXCEPT ![t] = entered(e)]
                  ELSE Decided(t, "refused", {})
    BY Zenon DEF OwnToken, entered
<1>2. \/ store' = store \ {e} /\ Decided(t, "refused", {})
      \/ UNCHANGED store /\ Decided(t, "refused", {})
      \/ /\ UNCHANGED store /\ e.tenant = request[t].tenant /\ ~(time > e.until)
         /\ Puts(t, [request[t] EXCEPT !.pc = "done", !.answer = "admitted", !.roles = e.roles,
                                       !.at = e.asked, !.made = e.made, !.end = time])
    BY <1>0 DEF Puts, entered
<1>3. /\ request[t] \in RequestTypes /\ Underway(t) /\ request[t].begin <= time
      /\ request[t].tenant \in Tenants /\ AccessTypes /\ time \in Nat /\ time \in Moments
    BY Bounds DEF AccessInv, AccessTypes, ThreadOK, Underway, RequestTypes, Moments
<1>4. UNCHANGED World /\ StoreOK(e)
    BY <1>1 DEF World, AccessInv
<1>5. {"admitted", "refused"} \subseteq Sayings /\ {} \in SUBSET Roles
    BY DEF Sayings
<1>6. Alone(t) /\ ThreadOK(t)'
    <2>1. CASE Decided(t, "refused", {})
        <3>1. Alone(t) /\ Over(t, "refused", {})
            BY <1>3, <1>5, <2>1, Ending
        <3>2. QED
            BY <1>1, <1>3, <1>4, <3>1, RefusedOK
    <2>2. CASE /\ e.tenant = request[t].tenant
               /\ ~(time > e.until)
               /\ Puts(t, [request[t] EXCEPT !.pc = "done", !.answer = "admitted", !.roles = e.roles,
                                             !.at = e.asked, !.made = e.made, !.end = time])
        <3> DEFINE n == [request[t] EXCEPT !.pc = "done", !.answer = "admitted", !.roles = e.roles,
                                           !.at = e.asked, !.made = e.made, !.end = time]
        <3>1. /\ n \in RequestTypes /\ n.pc = "done" /\ n.answer = "admitted" /\ n.door = "own"
              /\ n.roles = e.roles /\ n.at = e.asked /\ n.made = e.made
              /\ n.begin = request[t].begin /\ n.tenant = request[t].tenant
            BY <1>1, <1>3, <1>4 DEF RequestTypes, Stations, Sayings, StoreOK
        <3>2. Puts(t, n)
            BY <2>2
        <3> HIDE DEF n
        <3>3. Alone(t) /\ request'[t] = n
            BY <1>3, <3>1, <3>2, OneRequest DEF Alone
        <3>4. e.asked \in Nat /\ e.made \in Nat /\ request[t].begin \in Nat
            BY <1>3, <1>4, Bounds DEF StoreOK, Moments, RequestTypes
        <3>5. e.asked <= time /\ request[t].begin <= e.made + TokenTtl
            BY <1>3, <1>4, <2>2, <3>4, Bounds DEF StoreOK
        <3>6. QED
            BY <1>3, <1>4, <2>2, <3>1, <3>3, <3>5, OtherDoorOK DEF StoreOK
    <2>3. QED
        BY <1>2, <2>1, <2>2
<1>7. /\ AccessTypes' /\ CacheOK' /\ store' \subseteq store
    BY <1>1, <1>2, <1>6 DEF AccessInv, AccessTypes, Alone, CacheOK, CacheIsBounded
<1>8. Onward
    BY <1>4, WorldRests
<1>9. \A j \in DOMAIN verdicts' : VerdictOK(j)'
    BY <1>1, <1>3, <1>7, <1>8, VerdictStays DEF AccessInv
<1>10. \A d \in known' : KnownOK(d)'
    BY <1>1, <1>3, <1>7, <1>8, KnownStays DEF AccessInv, AccessTypes
<1>11. \A d \in store' : StoreOK(d)'
    BY <1>3, <1>7, <1>8, StoreStays DEF AccessInv
<1>12. QED
    BY <1>4, <1>6, <1>7, <1>9, <1>10, <1>11, ThreadStep DEF Alone

LEMMA IssueStep ==
    ASSUME AccessInv, NEW t \in Threads, Issue(t)
    PROVE  AccessInv'
<1> DEFINE e == [tenant |-> Home, roles |-> request[t].roles, asked |-> request[t].at, made |-> time,
                 until |-> time + TokenTtl]
<1>1. /\ Admitted(t) /\ request[t].door = "password" /\ request[t].tenant = Home
      /\ store' = store \cup {e} /\ Puts(t, Rest)
      /\ UNCHANGED <<time, service, member, held, session, revoked, redis, secret, verdicts, known>>
    BY DEF Issue, Puts, Admitted
<1>2. /\ AccessTypes /\ request[t] \in RequestTypes /\ MemberAttested(t) /\ UNCHANGED World
      /\ time \in Moments
    BY <1>1 DEF AccessInv, AccessTypes, ThreadOK, OutcomeOK, World
<1>3. /\ Rest \in RequestTypes /\ Rest.pc = "rest" /\ Rest.door = None
      /\ Rest.begin = 0 /\ Rest.at = 0
    BY Bounds DEF Rest, RequestTypes, Stations, Sayings, Moments
<1>4. Alone(t) /\ request'[t] = Rest
    BY <1>1, <1>2, <1>3, OneRequest DEF Alone
<1>5. time' \in Nat
    BY <1>1, Bounds DEF AccessInv, AccessTypes, Moments
<1>6. Underway(t)'
    BY <1>3, <1>4, <1>5 DEF Underway, None
<1>7. ThreadOK(t)'
    BY <1>3, <1>4, <1>6 DEF ThreadOK, OutcomeOK, Noticed, MemberAttested, OldRolesOut, RefusalDeserved, Admitted
<1>8. StoreOK(e)
    <2>1. e.roles = {} => service
        BY <1>1, <1>2 DEF MemberAttested
    <2>2. e.roles # {} => Found(Home, e.roles, e.asked)
        BY <1>1, <1>2 DEF MemberAttested
    <2>3. request[t].at <= time
        BY DEF AccessInv, ThreadOK, Underway
    <2>4. QED
        BY <1>2, <2>1, <2>2, <2>3, Bounds DEF StoreOK, RequestTypes, Moments
<1> HIDE DEF e
<1>9. AccessTypes' /\ CacheOK' /\ Onward
    BY <1>1, <1>2, <1>4, WorldRests DEF AccessInv, AccessTypes, Alone, CacheOK, CacheIsBounded
<1>10. \A j \in DOMAIN verdicts' : VerdictOK(j)'
    BY <1>1, <1>2, <1>9, VerdictStays DEF AccessInv
<1>11. \A d \in known' : KnownOK(d)'
    BY <1>1, <1>2, <1>9, KnownStays DEF AccessInv, AccessTypes
<1>12. \A d \in store' : StoreOK(d)'
    BY <1>1, <1>2, <1>8, <1>9, StoreStays DEF AccessInv
<1>13. QED
    BY <1>2, <1>4, <1>7, <1>9, <1>10, <1>11, <1>12, ThreadStep DEF Alone

(* The session tokens.                                                     *)
AsksAt(t, pc) == request' = [request EXCEPT ![t] = [@ EXCEPT !.pc = pc, !.at = time]]

LEMMA BearerStep ==
    ASSUME AccessInv, NEW t \in Threads, Bearer(t)
    PROVE  AccessInv'
<1> DEFINE j == request[t].jti
<1>1. /\ request[t].pc = "read" /\ request[t].door = "session"
      /\ UNCHANGED <<time, service, member, held, session, revoked, redis, secret, verdicts, known, store>>
    BY DEF Bearer
<1>2. \/ Expired(j) /\ Decided(t, "refused", {})
      \/ /\ Remembered(j) /\ ~Expired(j)
         /\ IF verdicts[j].revoked THEN Decided(t, "refused", {}) ELSE Scoped(t, session[j])
      \/ ~Expired(j) /\ AsksAt(t, "ask")
      \/ ~secret /\ AsksAt(t, "introspect")
      \/ \E e \in known : /\ e.jti = j /\ e.tenant = request[t].tenant /\ e.until > time
                          /\ ~secret /\ Decided(t, "admitted", e.roles)
    BY DEF Bearer, AsksAt
<1>3. /\ request[t] \in RequestTypes /\ Underway(t) /\ j \in Sessions /\ AccessTypes
      /\ session[j].at # Never /\ request[t].begin <= time
      /\ request[t].begin \in Nat /\ time \in Nat /\ time \in Moments /\ revoked[j] \in Nat
      /\ session[j].at \in Nat
    BY <1>1, Bounds DEF AccessInv, AccessTypes, ThreadOK, Underway, RequestTypes, SessionTypes, Moments
<1>4. UNCHANGED World /\ UNCHANGED Memories /\ UNCHANGED redis
    BY <1>1 DEF World, Memories
<1>5. {"admitted", "refused"} \subseteq Sayings /\ {} \in SUBSET Roles
    BY DEF Sayings
<1> HIDE DEF j
<1>6. CASE Expired(j) /\ Decided(t, "refused", {})
    <2>1. Alone(t) /\ Over(t, "refused", {})
        BY <1>3, <1>5, <1>6, Ending
    <2>2. time > session[request[t].jti].at + SessionLife
        BY <1>6 DEF Expired, j
    <2>3. ThreadOK(t)'
        BY <1>1, <1>4, <2>1, <2>2, RefusedOK
    <2>4. QED
        BY <1>4, <2>1, <2>3, PlainStep
<1>7. CASE Remembered(j) /\ verdicts[j].revoked /\ Decided(t, "refused", {})
    <2>1. Alone(t) /\ Over(t, "refused", {})
        BY <1>3, <1>5, <1>7, Ending
    <2>2. revoked[request[t].jti] # Never
        BY <1>7 DEF Remembered, AccessInv, VerdictOK, j
    <2>3. ThreadOK(t)'
        BY <1>1, <1>4, <2>1, <2>2, RefusedOK
    <2>4. QED
        BY <1>4, <2>1, <2>3, PlainStep
<1>8. CASE Remembered(j) /\ ~Expired(j) /\ ~verdicts[j].revoked /\ Scoped(t, session[j])
    <2>1. j \in DOMAIN verdicts /\ verdicts[j].until > time /\ VerdictOK(j)
        BY <1>8 DEF Remembered, AccessInv
    <2>2. verdicts[j].until \in Nat
        BY <1>3, <2>1 DEF AccessTypes, VerdictTypes
    <2>3. request[t].begin < revoked[j] + CacheTtl
        BY <1>3, <1>8, <2>1, <2>2, Bounds DEF VerdictOK
    <2>4. request[t].begin <= SessionLasts(session[j].at)
        BY <1>3, <1>8, Bounds DEF Expired, SessionLasts
    <2>5. Alone(t) /\ ThreadOK(t)'
        BY <1>1, <1>3, <1>4, <1>8, <2>3, <2>4, ScopedOK DEF j
    <2>6. QED
        BY <1>4, <2>5, PlainStep
<1>9. CASE \E pc \in {"ask", "introspect"} : AsksAt(t, pc) /\ (IF pc = "introspect" THEN ~secret ELSE ~Expired(j))
    <2>1. PICK pc \in {"ask", "introspect"} : AsksAt(t, pc) /\ (IF pc = "introspect" THEN ~secret ELSE ~Expired(j))
        BY <1>9
    <2> DEFINE n == [request[t] EXCEPT !.pc = pc, !.at = time]
    <2>2. /\ n \in RequestTypes /\ n.pc = pc /\ n.at = time /\ n.door = "session"
          /\ n.jti = j /\ n.begin = request[t].begin
        BY <1>1, <1>3 DEF RequestTypes, Stations, j
    <2>3. Puts(t, n)
        BY <2>1 DEF AsksAt, Puts
    <2> HIDE DEF n
    <2>4. Alone(t) /\ request'[t] = n
        BY <1>3, <2>2, <2>3, OneRequest DEF Alone
    <2>5. Underway(t)'
        <3>1. pc = "ask" => time <= session[j].at + SessionLife
            BY <1>3, <2>1, Bounds DEF Expired
        <3>2. QED
            BY <1>1, <1>3, <2>1, <2>2, <2>4, <3>1 DEF Underway, None
    <2>6. ThreadOK(t)'
        BY <2>2, <2>4, <2>5 DEF ThreadOK, OutcomeOK, Noticed, MemberAttested, OldRolesOut, RefusalDeserved, Admitted
    <2>7. QED
        BY <1>4, <2>4, <2>6, PlainStep
<1>10. CASE \E e \in known : /\ e.jti = j /\ e.tenant = request[t].tenant /\ e.until > time
                             /\ ~secret /\ Decided(t, "admitted", e.roles)
    <2>1. PICK e \in known : /\ e.jti = j /\ e.tenant = request[t].tenant /\ e.until > time
                             /\ ~secret /\ Decided(t, "admitted", e.roles)
        BY <1>10
    <2>2. KnownOK(e) /\ e.roles \in SUBSET Roles /\ e.until \in Nat
        BY DEF AccessInv, AccessTypes, KnownTypes
    <2>3. Alone(t) /\ Over(t, "admitted", e.roles)
        BY <1>3, <1>5, <2>1, <2>2, Ending
    <2>4. request[t].begin < revoked[j] + CacheTtl
        BY <1>3, <2>1, <2>2, Bounds DEF KnownOK
    <2>5. /\ ~session[j].ticket /\ request[t].tenant \in session[j].names
          /\ e.roles = session[j].map[request[t].tenant]
        BY <2>1, <2>2 DEF KnownOK
    <2>6. request[t].begin <= SessionLasts(session[j].at)
        BY <1>3, <2>1, <2>2, Bounds DEF KnownOK, SessionLasts
    <2>7. ThreadOK(t)'
        BY <1>1, <1>4, <2>3, <2>4, <2>5, <2>6, AdmittedOK DEF j
    <2>8. QED
        BY <1>4, <2>3, <2>7, PlainStep
<1>11. QED
    BY <1>2, <1>6, <1>7, <1>8, <1>9, <1>10

LEMMA AskDenylistStep ==
    ASSUME AccessInv, NEW t \in Threads, AskDenylist(t)
    PROVE  AccessInv'
<1> DEFINE j == request[t].jti
<1>1. /\ request[t].pc = "ask"
      /\ UNCHANGED <<time, service, member, held, session, revoked, redis, secret, verdicts, known, store>>
      /\ \/ \E said \in {"permit", "revoked"} :
               /\ IF said = "revoked" THEN revoked[j] # Never ELSE revoked[j] = Never \/ Expired(j)
               /\ request' = [request EXCEPT ![t] = [@ EXCEPT !.pc = "note", !.answer = said]]
         \/ Decided(t, "unavailable", {})
    BY DEF AskDenylist, Unavailable, Denylisted
<1>2. /\ request[t] \in RequestTypes /\ Underway(t) /\ request[t].door = "session"
      /\ j \in Sessions /\ AccessTypes
      /\ request[t].begin <= request[t].at /\ request[t].at <= time
      /\ request[t].at \in Nat /\ time \in Nat /\ time < Never
    BY <1>1, Bounds DEF AccessInv, AccessTypes, ThreadOK, Underway, RequestTypes, Moments
<1>3. UNCHANGED World /\ UNCHANGED Memories /\ UNCHANGED redis
    BY <1>1 DEF World, Memories
<1> HIDE DEF j
<1>4. ASSUME NEW said \in {"permit", "revoked"},
             IF said = "revoked" THEN revoked[j] # Never ELSE revoked[j] = Never \/ Expired(j),
             request' = [request EXCEPT ![t] = [@ EXCEPT !.pc = "note", !.answer = said]]
      PROVE  AccessInv'
    <2> DEFINE n == [request[t] EXCEPT !.pc = "note", !.answer = said]
    <2>1. /\ n \in RequestTypes /\ n.pc = "note" /\ n.answer = said /\ n.door = "session"
          /\ n.jti = j /\ n.begin = request[t].begin /\ n.at = request[t].at
        BY <1>2, <1>4 DEF RequestTypes, Stations, Sayings, j
    <2>2. Puts(t, n)
        BY <1>4 DEF Puts
    <2> HIDE DEF n
    <2>3. Alone(t) /\ request'[t] = n
        BY <1>2, <2>1, <2>2, OneRequest DEF Alone
    <2>4. Underway(t)'
        BY <1>1, <1>2, <1>4, <2>1, <2>3, Bounds DEF Underway, Expired, None, j
    <2>5. ThreadOK(t)'
        BY <2>1, <2>3, <2>4 DEF ThreadOK, OutcomeOK, Noticed, MemberAttested, OldRolesOut, RefusalDeserved, Admitted
    <2>6. QED
        BY <1>3, <2>3, <2>5, PlainStep
<1>5. CASE Decided(t, "unavailable", {})
    <2>1. "unavailable" \in Sayings /\ {} \in SUBSET Roles
        BY DEF Sayings
    <2>2. Alone(t) /\ Over(t, "unavailable", {})
        BY <1>2, <1>5, <2>1, Ending
    <2>3. ThreadOK(t)'
        BY <1>1, <1>3, <2>2, RefusedOK
    <2>4. QED
        BY <1>3, <2>2, <2>3, PlainStep
<1>6. QED
    BY <1>1, <1>4, <1>5

LEMMA IntrospectStep ==
    ASSUME AccessInv, NEW t \in Threads, Introspect(t)
    PROVE  AccessInv'
<1> DEFINE j == request[t].jti
           roles == session[j].map[request[t].tenant]
           good == /\ revoked[j] = Never /\ ~Expired(j)
                   /\ ~session[j].ticket /\ request[t].tenant \in session[j].names
<1>1. /\ request[t].pc = "introspect"
      /\ UNCHANGED <<time, service, member, held, session, revoked, redis, secret, verdicts, known, store>>
      /\ \/ /\ good
            /\ request' = [request EXCEPT ![t] = [@ EXCEPT !.pc = "keep", !.roles = roles]]
         \/ Decided(t, "refused", {})
    BY DEF Introspect
<1>2. /\ request[t] \in RequestTypes /\ Underway(t) /\ request[t].door = "session"
      /\ j \in Sessions /\ AccessTypes /\ ~secret /\ roles \in SUBSET Roles
      /\ request[t].begin <= request[t].at /\ request[t].at <= time
      /\ request[t].at \in Nat /\ time \in Nat /\ time < Never /\ session[j].at \in Nat
    <2>1. AccessTypes /\ request[t] \in RequestTypes /\ time \in Moments
        BY DEF AccessInv, AccessTypes
    <2>2. /\ Underway(t) /\ request[t].door = "session" /\ j \in Sessions /\ ~secret
          /\ request[t].begin <= request[t].at /\ request[t].at <= time
        BY <1>1 DEF AccessInv, ThreadOK, Underway
    <2>3. time \in Nat /\ time < Never /\ request[t].at \in Nat
        BY <2>1, Bounds DEF RequestTypes, Moments
    <2>4. roles \in SUBSET Roles /\ session[j].at \in Nat
        BY <2>1, <2>2, Bounds DEF AccessTypes, RequestTypes, SessionTypes
    <2>5. QED
        BY <2>1, <2>2, <2>3, <2>4
<1>3. UNCHANGED World /\ UNCHANGED Memories /\ UNCHANGED redis
    BY <1>1 DEF World, Memories
<1>4. CASE /\ good
           /\ request' = [request EXCEPT ![t] = [@ EXCEPT !.pc = "keep", !.roles = roles]]
    <2> DEFINE n == [request[t] EXCEPT !.pc = "keep", !.roles = roles]
    <2>1. /\ n \in RequestTypes /\ n.pc = "keep" /\ n.roles = roles /\ n.door = "session"
          /\ n.jti = j /\ n.tenant = request[t].tenant
          /\ n.begin = request[t].begin /\ n.at = request[t].at
        BY <1>2 DEF RequestTypes, Stations
    <2>2. Puts(t, n)
        BY <1>4 DEF Puts
    <2> HIDE DEF n
    <2>3. Alone(t) /\ request'[t] = n
        BY <1>2, <2>1, <2>2, OneRequest DEF Alone
    <2>4. Underway(t)'
        <3>1. request[t].at <= session[j].at + SessionLife /\ request[t].at <= revoked[j]
            BY <1>2, <1>4, Bounds DEF Expired
        <3>2. QED
            BY <1>1, <1>2, <1>4, <2>1, <2>3, <3>1 DEF Underway, None
    <2>5. ThreadOK(t)'
        BY <2>1, <2>3, <2>4 DEF ThreadOK, OutcomeOK, Noticed, MemberAttested, OldRolesOut, RefusalDeserved, Admitted
    <2>6. QED
        BY <1>3, <2>3, <2>5, PlainStep
<1>5. CASE Decided(t, "refused", {})
    <2>1. "refused" \in Sayings /\ {} \in SUBSET Roles
        BY DEF Sayings
    <2>2. Alone(t) /\ Over(t, "refused", {})
        BY <1>2, <1>5, <2>1, Ending
    <2>3. ThreadOK(t)'
        BY <1>1, <1>2, <1>3, <2>2, RefusedOK
    <2>4. QED
        BY <1>3, <2>2, <2>3, PlainStep
<1>6. QED
    BY <1>1, <1>4, <1>5

LEMMA KeepStep ==
    ASSUME AccessInv, NEW t \in Threads, Keep(t)
    PROVE  AccessInv'
<1> DEFINE r == request[t]
           e == [jti |-> r.jti, tenant |-> r.tenant, roles |-> r.roles, until |-> Since(t) + CacheTtl]
<1>1. /\ r.pc = "keep" /\ Decided(t, "admitted", r.roles)
      /\ known' \subseteq known \cup {e}
      /\ UNCHANGED <<time, service, member, held, session, revoked, redis, secret, verdicts, store>>
    BY DEF Keep
<1>2. /\ r \in RequestTypes /\ Underway(t) /\ r.door = "session" /\ AccessTypes
      /\ r.jti \in Sessions /\ r.tenant \in Tenants /\ r.roles \in SUBSET Roles
      /\ session[r.jti].at # Never /\ session[r.jti].at \in Nat
      /\ ~secret /\ r.at <= session[r.jti].at + SessionLife
      /\ r.begin <= r.at /\ r.at <= time /\ r.at <= revoked[r.jti] /\ r.begin \in Nat /\ r.at \in Nat
      /\ revoked[r.jti] \in Nat /\ time \in Nat
      /\ ~session[r.jti].ticket /\ r.tenant \in session[r.jti].names
      /\ r.roles = session[r.jti].map[r.tenant]
    BY <1>1, Bounds DEF AccessInv, AccessTypes, ThreadOK, Underway, RequestTypes, SessionTypes, Moments
<1>3. UNCHANGED World
    BY <1>1 DEF World
<1>4. Alone(t) /\ Over(t, "admitted", r.roles)
    <2>1. "admitted" \in Sayings
        BY DEF Sayings
    <2>2. QED
        BY <1>1, <1>2, <2>1, Ending
<1>5. ThreadOK(t)'
    <2>1. r.begin < revoked[r.jti] + CacheTtl /\ r.begin <= SessionLasts(session[r.jti].at)
        BY <1>2, Bounds DEF SessionLasts
    <2>2. QED
        BY <1>1, <1>2, <1>3, <1>4, <2>1, AdmittedOK
<1>6. e \in KnownTypes /\ KnownOK(e)
    BY <1>2, Bounds DEF KnownTypes, KnownOK, Since
<1> HIDE DEF e
<1>7. AccessTypes' /\ CacheOK' /\ Onward
    BY <1>1, <1>2, <1>3, <1>4, <1>6, WorldRests
       DEF AccessInv, AccessTypes, Alone, CacheOK, CacheIsBounded
<1>8. \A j \in DOMAIN verdicts' : VerdictOK(j)'
    BY <1>1, <1>2, <1>7, VerdictStays DEF AccessInv
<1>9. \A d \in known' : KnownOK(d)'
    <2>1. \A d \in known \cup {e} : d \in KnownTypes /\ KnownOK(d)
        BY <1>2, <1>6 DEF AccessInv, AccessTypes
    <2>2. QED
        BY <1>1, <1>2, <1>7, <2>1, KnownStays
<1>10. \A d \in store' : StoreOK(d)'
    BY <1>1, <1>2, <1>7, StoreStays DEF AccessInv
<1>11. QED
    BY <1>3, <1>4, <1>5, <1>7, <1>8, <1>9, <1>10, ThreadStep DEF Alone

(* The pruned cache is a part of the cache, with room for one more.        *)
LEMMA PrunedFits ==
    ASSUME AccessInv, NEW now \in Nat
    PROVE  /\ DOMAIN Pruned(now) \subseteq DOMAIN verdicts
           /\ \A j \in DOMAIN Pruned(now) : Pruned(now)[j] = verdicts[j]
           /\ IsFiniteSet(DOMAIN Pruned(now))
           /\ Cardinality(DOMAIN Pruned(now)) < CacheMax
<1> DEFINE live == {j \in DOMAIN verdicts : verdicts[j].until > now}
<1>1. IsFiniteSet(DOMAIN verdicts)
    BY DEF AccessInv, CacheOK
<1>2. IsFiniteSet(live) /\ live \subseteq DOMAIN verdicts
    BY <1>1, FS_Subset
<1>3. CASE Cardinality(DOMAIN verdicts) < CacheMax
    BY <1>1, <1>3 DEF Pruned
<1>4. CASE ~(Cardinality(DOMAIN verdicts) < CacheMax) /\ Cardinality(live) < CacheMax
    <2>1. Pruned(now) = [j \in live |-> verdicts[j]]
        BY <1>4 DEF Pruned
    <2> HIDE DEF live
    <2>2. QED
        BY <1>2, <1>4, <2>1
<1>5. CASE ~(Cardinality(DOMAIN verdicts) < CacheMax) /\ ~(Cardinality(live) < CacheMax)
    <2>1. Pruned(now) = [j \in {} |-> None]
        BY <1>5 DEF Pruned
    <2>2. DOMAIN Pruned(now) = {}
        BY <2>1
    <2>3. QED
        BY <2>2, FS_EmptySet, Bounds
<1>6. QED
    BY <1>3, <1>4, <1>5

LEMMA NoteStep ==
    ASSUME AccessInv, NEW t \in Threads, Note(t)
    PROVE  AccessInv'
<1> DEFINE r == request[t]
           j == r.jti
           kept == Pruned(Since(t))
           entry == [revoked |-> r.answer = "revoked", until |-> Since(t) + CacheTtl]
<1>1. /\ r.pc = "note"
      /\ verdicts' = [k \in DOMAIN kept \cup {j} |-> IF k = j THEN entry ELSE kept[k]]
      /\ IF r.answer = "revoked" THEN Decided(t, "refused", {}) ELSE Scoped(t, session[j])
      /\ UNCHANGED <<time, service, member, held, session, revoked, redis, secret, known, store>>
    BY DEF Note
<1>2. /\ r \in RequestTypes /\ Underway(t) /\ r.door = "session" /\ AccessTypes
      /\ j \in Sessions /\ r.begin <= r.at /\ r.at <= time /\ r.begin \in Nat /\ r.at \in Nat
      /\ revoked[j] \in Nat /\ time \in Nat
      /\ session[j].at # Never /\ session[j].at \in Nat /\ r.at <= session[j].at + SessionLife
      /\ IF r.answer = "revoked" THEN revoked[j] # Never ELSE r.at <= revoked[j] \/ Expired(j)
    BY <1>1, Bounds DEF AccessInv, AccessTypes, ThreadOK, Underway, RequestTypes, SessionTypes, Moments
<1>3. UNCHANGED World
    BY <1>1 DEF World
<1>4. Alone(t) /\ ThreadOK(t)'
    <2>1. CASE r.answer = "revoked"
        <3>1. "refused" \in Sayings /\ {} \in SUBSET Roles
            BY DEF Sayings
        <3>2. Alone(t) /\ Over(t, "refused", {})
            BY <1>1, <1>2, <2>1, <3>1, Ending
        <3>3. QED
            BY <1>1, <1>2, <1>3, <2>1, <3>2, RefusedOK
    <2>2. CASE r.answer # "revoked"
        <3>1. /\ r.begin < revoked[j] + CacheTtl \/ time > session[j].at + SessionLife
              /\ r.begin <= SessionLasts(session[j].at)
            BY <1>2, <2>2, Bounds DEF SessionLasts, Expired
        <3>2. QED
            BY <1>1, <1>2, <1>3, <2>2, <3>1, ScopedOK
    <2>3. QED
        BY <2>1, <2>2
<1>5. /\ DOMAIN kept \subseteq DOMAIN verdicts
      /\ \A k \in DOMAIN kept : kept[k] = verdicts[k]
      /\ IsFiniteSet(DOMAIN kept) /\ Cardinality(DOMAIN kept) < CacheMax
    BY <1>2, PrunedFits DEF Since
<1>6. /\ entry \in VerdictTypes /\ entry.revoked = (r.answer = "revoked")
      /\ entry.until = r.at + CacheTtl
    BY <1>2, Bounds DEF VerdictTypes, Since
<1> HIDE DEF kept, entry
<1>7. /\ DOMAIN verdicts' = DOMAIN kept \cup {j} /\ verdicts'[j] = entry
      /\ \A k \in DOMAIN kept : k # j => verdicts'[k] = verdicts[k]
    BY <1>1, <1>5
<1>8. CacheOK'
    <2> DEFINE old == DOMAIN kept
    <2>1. IsFiniteSet(old) /\ Cardinality(old) \in Nat /\ Cardinality(old) < CacheMax
        BY <1>5, FS_CardinalityType
    <2>2. DOMAIN verdicts' = old \cup {j}
        BY <1>7
    <2> HIDE DEF old, j
    <2>3. /\ IsFiniteSet(old \cup {j})
          /\ Cardinality(old \cup {j}) \in {Cardinality(old), Cardinality(old) + 1}
        BY <2>1, FS_AddElement
    <2>4. QED
        BY <2>1, <2>2, <2>3, Bounds DEF CacheOK, CacheIsBounded
<1>9. \A k \in DOMAIN verdicts' : k \in Sessions /\ verdicts'[k] \in VerdictTypes
    BY <1>2, <1>5, <1>6, <1>7 DEF AccessTypes
<1>10. AccessTypes' /\ Onward
    BY <1>1, <1>2, <1>3, <1>4, <1>9, WorldRests DEF AccessInv, AccessTypes, Alone
<1>11. \A k \in DOMAIN verdicts' : VerdictOK(k)'
    <2> SUFFICES ASSUME NEW k \in DOMAIN verdicts' PROVE VerdictOK(k)'
        OBVIOUS
    <2>1. CASE k = j
        <3>1. /\ verdicts'[k] = entry /\ revoked'[k] = revoked[j] /\ time' = time
              /\ session'[k] = session[j] /\ session[j].at # Never /\ (Expired(j) => Expired(k)')
            BY <1>1, <1>2, <1>7, <2>1 DEF Expired
        <3>2. r.at + CacheTtl <= time + CacheTtl
            BY <1>2, Bounds
        <3>3. r.answer # "revoked" => r.at + CacheTtl <= revoked[j] + CacheTtl \/ Expired(k)'
            BY <1>2, <3>1, Bounds
        <3> DEFINE out == Expired(k)'
        <3>4. /\ session'[k].at # Never /\ verdicts'[k].until <= time' + CacheTtl
              /\ IF verdicts'[k].revoked THEN revoked'[k] # Never
                 ELSE verdicts'[k].until <= revoked'[k] + CacheTtl \/ out
            <4>1. r.answer # "revoked" => r.at + CacheTtl <= revoked[j] + CacheTtl \/ out
                BY <3>3
            <4> HIDE DEF j, r, out
            <4>2. QED
                BY <1>2, <1>6, <3>1, <3>2, <4>1
        <3>5. QED
            BY <3>4 DEF VerdictOK
    <2>2. CASE k # j
        <3>1. k \in DOMAIN verdicts /\ VerdictOK(k) /\ verdicts'[k] = verdicts[k]
            BY <1>5, <1>7, <2>2 DEF AccessInv
        <3>2. QED
            BY <1>1, <3>1 DEF VerdictOK, Expired
    <2>3. QED
        BY <2>1, <2>2
<1>12. \A d \in known' : KnownOK(d)'
    BY <1>1, <1>2, <1>10, KnownStays DEF AccessInv, AccessTypes
<1>13. \A d \in store' : StoreOK(d)'
    BY <1>1, <1>2, <1>10, StoreStays DEF AccessInv
<1>14. QED
    BY <1>3, <1>4, <1>8, <1>10, <1>11, <1>12, <1>13, ThreadStep DEF Alone

-----------------------------------------------------------------------------
LEMMA AccessInitially == AccessInit => AccessInv
<1> SUFFICES ASSUME AccessInit PROVE AccessInv
    OBVIOUS
<1>1. /\ 0 \in Moments /\ Never \in 0..Never /\ Never # 0
    BY Bounds DEF Moments
<1>2. Rest \in RequestTypes /\ Rest.pc = "rest" /\ Rest.door = None /\ Rest.begin = 0 /\ Rest.at = 0
    BY <1>1, Bounds DEF Rest, RequestTypes, Stations, Sayings
<1>3. Unsigned \in SessionTypes /\ Unsigned.at = Never
    BY <1>1 DEF Unsigned, SessionTypes
<1>4. /\ member \in [Tenants -> CnOrNone]
      /\ held \in [Tenants -> [Moments -> SUBSET CnOrNone]]
      /\ \A tn \in Tenants : member[tn] \in held[tn][0]
    BY <1>1 DEF AccessInit, Moments, CnOrNone
<1>5. DOMAIN verdicts = {}
    BY DEF AccessInit
<1>6. AccessTypes
    BY <1>1, <1>2, <1>3, <1>4, <1>5 DEF AccessInit, AccessTypes
<1>7. HistoryOK
    BY <1>3, <1>4 DEF AccessInit, HistoryOK
<1>8. CacheOK
    BY <1>5, FS_EmptySet, Bounds DEF CacheOK, CacheIsBounded
<1>9. \A t \in Threads : request[t] = Rest /\ time = 0
    BY DEF AccessInit
<1>10. \A t \in Threads : ThreadOK(t)
    BY <1>2, <1>9 DEF ThreadOK, OutcomeOK, Underway, Noticed, MemberAttested, OldRolesOut, RefusalDeserved, Admitted,
           None
<1>11. QED
    BY <1>5, <1>6, <1>7, <1>8, <1>10 DEF AccessInv, AccessInit

LEMMA AccessKept == AccessInv /\ [AccessNext]_accessVars => AccessInv'
<1> SUFFICES ASSUME AccessInv, [AccessNext]_accessVars PROVE AccessInv'
    OBVIOUS
<1>1. CASE ClockMoves
    BY <1>1, ClockStep
<1>2. CASE RedisFlips
    BY <1>2, RedisStep
<1>3. CASE \E t \in Tenants, cn \in Cns \cup {None} : Move(t, cn)
    BY <1>3, MoveStep DEF CnOrNone
<1>4. CASE \E j \in Sessions : \/ SignOut(j)
                                  \/ \E ticket \in BOOLEAN, bare \in SUBSET Tenants : Sign(j, ticket, bare)
    BY <1>4, SignOutStep, SignStep
<1>5. CASE \E t \in Threads, tenant \in Tenants :
              \/ Arrive(t, "password", tenant, None)
              \/ Arrive(t, "own", tenant, None)
              \/ \E j \in Sessions : session[j].at # Never /\ Arrive(t, "session", tenant, j)
    <2>1. PICK t \in Threads, tenant \in Tenants :
              \/ Arrive(t, "password", tenant, None)
              \/ Arrive(t, "own", tenant, None)
              \/ \E j \in Sessions : session[j].at # Never /\ Arrive(t, "session", tenant, j)
        BY <1>5
    <2>2. CASE Arrive(t, "password", tenant, None)
        BY <2>2, ArriveStep
    <2>3. CASE Arrive(t, "own", tenant, None)
        BY <2>3, ArriveStep
    <2>4. CASE \E j \in Sessions : session[j].at # Never /\ Arrive(t, "session", tenant, j)
        BY <2>4, ArriveStep
    <2>5. QED
        BY <2>1, <2>2, <2>3, <2>4
<1>6. CASE \E t \in Threads : Bearer(t) \/ AskDenylist(t) \/ Note(t) \/ Introspect(t) \/ Keep(t)
    BY <1>6, BearerStep, AskDenylistStep, NoteStep, IntrospectStep, KeepStep
<1>7. CASE \E t \in Threads : OwnToken(t) \/ Bind(t) \/ Groups(t) \/ Issue(t)
    BY <1>7, OwnTokenStep, BindStep, GroupsStep, IssueStep
<1>8. CASE UNCHANGED accessVars
    <2>1. UNCHANGED <<time, service, member, held, session, revoked, redis, secret, verdicts,
                      known, store, request>>
        BY <1>8 DEF accessVars
    <2>2. AccessTypes'
        BY <2>1 DEF AccessInv, AccessTypes
    <2>3. Onward /\ HistoryOK'
        BY <2>1, WorldRests DEF World
    <2>4. QED
        BY <2>1, <2>2, <2>3, WorldStep
<1>9. QED
    BY <1>1, <1>2, <1>3, <1>4, <1>5, <1>6, <1>7, <1>8 DEF AccessNext

(* The inductive invariant: types, and what the caches, the tokens and     *)
(* each request on its way stand for.                                      *)
THEOREM AccessInvariant == AccessSpec => []AccessInv
BY AccessInitially, AccessKept, PTL DEF AccessSpec

(* A request that comes a verdict's lifetime after the sign-out of its     *)
(* session is not admitted, however many threads asked the denylist, or    *)
(* the bridge, and remembered the answer in whatever order, but for one    *)
(* whose session runs out, and its key with it, while the denylist is      *)
(* asked; and the pruning of _prune_locked keeps the verdicts within their *)
(* bound.                                                                  *)
THEOREM SignOutEnds == AccessSpec => []RevocationHolds
<1>1. AccessInv => RevocationHolds
    BY DEF AccessInv, CacheOK, ThreadOK, OutcomeOK, Noticed, RevocationHolds, SignOutIsNoticed
<1>2. QED
    BY <1>1, AccessInvariant, PTL

(* Whoever is admitted with roles was in the group they come from when the *)
(* directory was read for the credential, and without roles has a session  *)
(* that names the tenant, a ticket, or is a service principal; roles the   *)
(* user no longer has run out with the credential; and a session refused   *)
(* by a service with the secret had expired, was signed out or does not    *)
(* name the tenant.                                                        *)
THEOREM DoorsAreJust == AccessSpec => []VerdictsAreDeserved
<1>1. AccessInv => MembershipIsAttested
    BY DEF AccessInv, ThreadOK, OutcomeOK, MemberAttested, MembershipIsAttested, Signed, Found
<1>2. AccessInv => OldRolesRunOut
    <2> SUFFICES ASSUME AccessInv, NEW t \in Threads, Admitted(t)
                 PROVE  CASE request[t].door = "session" ->
                                 request[t].begin <= SessionLasts(session[request[t].jti].at)
                          [] request[t].door = "own" ->
                                 /\ request[t].at <= request[t].made
                                 /\ request[t].begin <= request[t].made + TokenTtl
                          [] OTHER -> request[t].begin <= request[t].at
        BY DEF OldRolesRunOut, SessionLasts
    <2>1. OldRolesOut(t)
        BY DEF AccessInv, ThreadOK, OutcomeOK
    <2>2. CASE request[t].door = "session"
        BY <2>1, <2>2 DEF OldRolesOut
    <2>3. CASE request[t].door = "own"
        BY <2>1, <2>3 DEF OldRolesOut
    <2>4. CASE request[t].door \notin {"session", "own"}
        BY <2>1, <2>4 DEF OldRolesOut
    <2>5. QED
        BY <2>2, <2>3, <2>4
<1>3. AccessInv => RefusalIsDeserved
    BY DEF AccessInv, ThreadOK, OutcomeOK, RefusalDeserved, RefusalIsDeserved
<1>4. QED
    BY <1>1, <1>2, <1>3, AccessInvariant, PTL DEF VerdictsAreDeserved

-----------------------------------------------------------------------------
(* Integrations: for any number of administrators, turns, rows and calls,  *)
(* that the two caches cannot be told from asking again, and that the      *)
(* table stays within its limits.                                          *)
Stages == {"free", "list", "count", "get", "slug", "write", "bust", "bust tokens", "next", "model",
           "headers", "lookup", "token", "connect"}
Purposes == {"turn", "discover", "call", "test", "update", "delete"}
Works == Task \cup {[op |-> "none"]}
SpecTypes == [server : Nat, asked : Nat]
OfferTypes == [row : Rows, specs : SpecTypes, at : Nat]
FoundTypes == [key : Nat \X Nat, until : Nat, specs : SpecTypes]
TokenTypes == [key : Nat \X Nat \X Nat, dies : Nat, got : Nat, of : Nat]
KeptTypes == [token : TokenTypes, until : Nat]
WorkerTypes ==
    [pc : Stages, work : Works, row : Rows, slug : Nat, todo : SUBSET Rows, offered : SUBSET OfferTypes,
     secret : Nat, token : TokenTypes, asked : Nat, for : Purposes, calls : Nat, answer : Nat]

CachesTypes ==
    /\ tick \in Nat /\ stamp \in Nat /\ rows \subseteq Rows
    /\ found \subseteq FoundTypes /\ tokens \subseteq KeptTypes
    /\ worker \in [Workers -> WorkerTypes]

(* The rows are told apart, and numbers not yet given belong to none.      *)
RowsOK ==
    /\ IsFiniteSet(rows) /\ Distinct(rows)
    /\ \A r \in rows : 0 < r.id /\ r.id <= stamp

(* What is known of a row, wherever it is: its server by id and version.   *)
(* Nobody knows two, and no version is known before it is given.           *)
FactOf(r) == <<r.id, r.version, r.server>>
Heard(f) == <<f.key[1], f.key[2], f.specs.server>>
KnownBy(w, f) ==
    \/ f = FactOf(w.row)
    \/ \E r \in w.todo : f = FactOf(r)
    \/ \E o \in w.offered : f = FactOf(o.row)
Known(f) ==
    \/ f = FactOf(NoRow)
    \/ \E r \in rows : f = FactOf(r)
    \/ \E e \in found : f = Heard(e)
    \/ \E t \in Workers : KnownBy(worker[t], f)

Facts == Nat \X Nat \X Nat
FactsAgree ==
    /\ \A f \in Facts : Known(f) => f[2] <= stamp
    /\ \A f, g \in Facts : Known(f) /\ Known(g) /\ f[1] = g[1] /\ f[2] = g[2] => f = g

(* What is remembered is no older than it says.                            *)
FoundOK(f) == f.specs.asked <= tick /\ f.until = f.specs.asked + DiscoveryTtl
KeptOK(k) == k.until <= k.token.dies /\ k.token.of = k.token.key[3]

OfferOK(o) == o.specs.server = o.row.server /\ o.at - o.specs.asked <= DiscoveryTtl
TokenFits(w) ==
    /\ w.token.key[1] = w.row.id /\ w.token.key[2] = w.row.server /\ w.token.of = w.secret
    /\ w.token.dies > w.token.got + Skew

(* What each thread holds is in order.                                     *)
WorkerOK(w) ==
    /\ \A o \in w.offered : OfferOK(o)
    /\ w.asked <= tick /\ w.token.got <= tick
    /\ w.pc = "connect" /\ w.token # NoToken => TokenFits(w)
    /\ w.pc = "count" => w.work.op = "create"
    /\ w.pc = "get" => w.work.op \in {"update", "delete", "test"}
    /\ w.pc = "slug" => w.work.op \in {"create", "update"}
    /\ w.pc = "write" => w.work.op \in {"create", "update", "delete"}

CachesInv ==
    /\ CachesTypes /\ RowsOK /\ FactsAgree
    /\ \A f \in found : FoundOK(f)
    /\ \A k \in tokens : KeptOK(k)
    /\ \A t \in Workers : WorkerOK(worker[t])

LEMMA Limits ==
    /\ TokenLife \in Nat /\ Skew \in Nat /\ TokenLife > Skew /\ DiscoveryTtl \in Nat
    /\ MaxIntegrations \in Nat /\ Tasks \subseteq Works
BY IntegrationsAssumption DEF Works

LEMMA Blank ==
    /\ NoRow \in Rows /\ NoToken \in TokenTypes /\ Free \in WorkerTypes
    /\ NoToken.got = 0 /\ Free.row = NoRow /\ Free.todo = {} /\ Free.offered = {} /\ Free.asked = 0
    /\ Free.token = NoToken /\ Free.pc = "free"
<1>1. NoRow \in Rows
    BY DEF NoRow, Rows, Auths
<1>2. NoToken \in TokenTypes /\ NoToken.got = 0
    BY DEF NoToken, TokenTypes
<1>3. [op |-> "none"] \in Works
    BY DEF Works
<1>4. Free \in WorkerTypes
    BY <1>1, <1>2, <1>3 DEF Free, WorkerTypes, Stages, Purposes
<1>5. QED
    BY <1>1, <1>2, <1>4 DEF Free

(* A new row, a new discovery and a thread's new record know nothing new.  *)
LEMMA FactTypes ==
    /\ \A r \in Rows : FactOf(r) \in Facts /\ FactOf(r)[1] = r.id /\ FactOf(r)[2] = r.version
                       /\ FactOf(r)[3] = r.server
    /\ \A e \in FoundTypes : Heard(e) \in Facts
BY DEF FactOf, Heard, Facts, Rows, FoundTypes, SpecTypes

(* Unless a version is given, facts are only forgotten.                    *)
LEMMA FactsStay ==
    ASSUME CachesInv, stamp' \in Nat, stamp' >= stamp, NEW t \in Workers, NEW n,
           worker' = [worker EXCEPT ![t] = n],
           \A f \in Facts : KnownBy(n, f) => Known(f),
           \A f \in Facts : (\E r \in rows' : f = FactOf(r)) => Known(f),
           \A f \in Facts : (\E e \in found' : f = Heard(e)) => Known(f)
    PROVE  FactsAgree'
<1>1. \A u \in Workers : worker'[u] = IF u = t THEN n ELSE worker[u]
    BY DEF CachesInv, CachesTypes
<1>2. ASSUME NEW f \in Facts, Known(f)' PROVE Known(f)
    <2>1. \/ f = FactOf(NoRow)
          \/ \E r \in rows' : f = FactOf(r)
          \/ \E e \in found' : f = Heard(e)
          \/ \E u \in Workers : KnownBy(worker'[u], f)
        BY <1>2 DEF Known, KnownBy, FactOf, Heard
    <2>2. ASSUME NEW u \in Workers, KnownBy(worker'[u], f) PROVE Known(f)
        <3>1. CASE u = t
            BY <1>1, <2>2, <3>1
        <3>2. CASE u # t
            BY <1>1, <2>2, <3>2 DEF Known
        <3>3. QED
            BY <3>1, <3>2
    <2>3. QED
        BY <2>1, <2>2 DEF Known
<1>3. stamp \in Nat
    BY DEF CachesInv, CachesTypes
<1>4. QED
    BY <1>2, <1>3 DEF FactsAgree, CachesInv, Facts

LEMMA WorkerStays ==
    ASSUME NEW w \in WorkerTypes, WorkerOK(w), tick \in Nat, tick' \in Nat, tick' >= tick
    PROVE  WorkerOK(w)'
BY DEF WorkerOK, OfferOK, TokenFits, WorkerTypes, TokenTypes

-----------------------------------------------------------------------------
(* A thread's step, the rows at hand being those it may keep.              *)
RowsAt(t) ==
    {NoRow, worker[t].row} \cup rows \cup worker[t].todo \cup {o.row : o \in worker[t].offered}
Holds(t, n) ==
    n.row \in RowsAt(t) /\ n.todo \subseteq RowsAt(t) /\ \A o \in n.offered : o.row \in RowsAt(t)

LEMMA RowsAtKnown ==
    ASSUME NEW t \in Workers, NEW r \in RowsAt(t)
    PROVE  Known(FactOf(r))
BY DEF RowsAt, Known, KnownBy

LEMMA RowsAtTypes ==
    ASSUME CachesInv, NEW t \in Workers
    PROVE  /\ worker[t] \in WorkerTypes /\ WorkerOK(worker[t]) /\ RowsAt(t) \subseteq Rows
           /\ worker[t].row \in Rows /\ worker[t].todo \subseteq Rows
           /\ worker[t].offered \subseteq OfferTypes
           /\ Holds(t, worker[t]) /\ tick \in Nat /\ stamp \in Nat
BY Blank DEF CachesInv, CachesTypes, RowsAt, Holds, WorkerTypes, OfferTypes

LEMMA FewerRows ==
    ASSUME CachesInv, rows' \subseteq rows, stamp' \in Nat, stamp' >= stamp
    PROVE  RowsOK'
<1>1. IsFiniteSet(rows')
    BY FS_Subset DEF CachesInv, RowsOK
<1>2. QED
    BY <1>1 DEF CachesInv, CachesTypes, RowsOK, Distinct, Rows

LEMMA ThreadMoves ==
    ASSUME CachesInv, NEW t \in Workers, NEW n \in WorkerTypes, Becomes(t, n), WorkerOK(n), Holds(t, n),
           tick' = tick, rows' \subseteq rows, stamp' \in Nat, stamp' >= stamp,
           found' \subseteq FoundTypes, tokens' \subseteq KeptTypes,
           \A e \in found' : FoundOK(e) /\ Known(Heard(e)), \A k \in tokens' : KeptOK(k)
    PROVE  CachesInv'
<1>1. worker' = [worker EXCEPT ![t] = n]
    BY DEF Becomes
<1>2. \A u \in Workers : worker'[u] = IF u = t THEN n ELSE worker[u]
    BY <1>1 DEF CachesInv, CachesTypes
<1>3. CachesTypes'
    BY <1>1 DEF CachesInv, CachesTypes
<1>4. RowsOK'
    BY FewerRows
<1>5. FactsAgree'
    <2>1. \A f \in Facts : KnownBy(n, f) => Known(f)
        BY RowsAtKnown DEF KnownBy, Holds
    <2>2. \A f \in Facts : (\E r \in rows' : f = FactOf(r)) => Known(f)
        BY DEF Known
    <2>3. \A f \in Facts : (\E e \in found' : f = Heard(e)) => Known(f)
        OBVIOUS
    <2>4. QED
        BY <1>1, <2>1, <2>2, <2>3, FactsStay
<1>6. /\ \A e \in found' : FoundOK(e)'
      /\ \A k \in tokens' : KeptOK(k)'
    BY DEF FoundOK, KeptOK
<1>7. ASSUME NEW u \in Workers PROVE WorkerOK(worker[u])'
    <2>1. WorkerOK(worker'[u])
        BY <1>2 DEF CachesInv
    <2>2. QED
        BY <2>1 DEF WorkerOK
<1>8. QED
    BY <1>3, <1>4, <1>5, <1>6, <1>7 DEF CachesInv

LEMMA ThreadForgets ==
    ASSUME CachesInv, NEW t \in Workers, NEW n \in WorkerTypes, Becomes(t, n), WorkerOK(n), Holds(t, n),
           tick' = tick, rows' \subseteq rows, stamp' \in Nat, stamp' >= stamp,
           found' \subseteq found, tokens' \subseteq tokens
    PROVE  CachesInv'
<1>1. found' \subseteq FoundTypes /\ tokens' \subseteq KeptTypes
    BY DEF CachesInv, CachesTypes
<1>2. \A e \in found' : FoundOK(e) /\ Known(Heard(e))
    BY DEF CachesInv, Known
<1>3. \A k \in tokens' : KeptOK(k)
    BY DEF CachesInv
<1>4. QED
    BY <1>1, <1>2, <1>3, ThreadMoves

(* It goes on, or answers.                                                 *)
LEMMA ThreadGoes ==
    ASSUME CachesInv, NEW t \in Workers, NEW pc \in Stages \ {"connect", "count", "get"}, Moves(t, pc),
           pc = "slug" => worker[t].work.op \in {"create", "update"},
           pc = "write" => worker[t].work.op \in {"create", "update", "delete"},
           tick' = tick, rows' \subseteq rows, stamp' \in Nat, stamp' >= stamp,
           found' \subseteq found, tokens' \subseteq tokens
    PROVE  CachesInv'
<1> DEFINE w == worker[t]
           n == [w EXCEPT !.pc = pc]
<1>1. w \in WorkerTypes /\ WorkerOK(w) /\ Holds(t, w)
    BY RowsAtTypes
<1>2. /\ n \in WorkerTypes /\ n.pc = pc /\ n.row = w.row /\ n.todo = w.todo /\ n.work = w.work
      /\ n.offered = w.offered /\ n.asked = w.asked /\ n.token = w.token
    BY <1>1 DEF WorkerTypes
<1>3. Becomes(t, n)
    BY DEF Moves, Becomes
<1> HIDE DEF n
<1>4. WorkerOK(n) /\ Holds(t, n)
    BY <1>1, <1>2 DEF WorkerOK, Holds
<1>5. QED
    BY <1>2, <1>3, <1>4, ThreadForgets

LEMMA ThreadAnswers ==
    ASSUME CachesInv, NEW t \in Workers, NEW status \in Nat, Answers(t, status),
           tick' = tick, rows' \subseteq rows, stamp' \in Nat, stamp' >= stamp,
           found' \subseteq found, tokens' \subseteq tokens
    PROVE  CachesInv'
<1> DEFINE n == [Free EXCEPT !.answer = status]
<1>1. /\ n \in WorkerTypes /\ n.pc = "free" /\ n.row = NoRow /\ n.todo = {} /\ n.offered = {}
      /\ n.asked = 0 /\ n.token = NoToken
    BY Blank DEF WorkerTypes
<1>2. Becomes(t, n)
    BY DEF Answers
<1> HIDE DEF n
<1>3. WorkerOK(n) /\ Holds(t, n)
    BY <1>1, Blank, RowsAtTypes DEF WorkerOK, Holds, RowsAt
<1>4. QED
    BY <1>1, <1>2, <1>3, ThreadForgets

-----------------------------------------------------------------------------
(* Administration.                                                         *)
Rests == UNCHANGED <<tick, rows, stamp, found, tokens>>

LEMMA RestsRest ==
    ASSUME CachesInv, Rests
    PROVE  /\ tick' = tick /\ rows' \subseteq rows /\ stamp' \in Nat /\ stamp' >= stamp
           /\ found' \subseteq found /\ tokens' \subseteq tokens
BY DEF Rests, CachesInv, CachesTypes

LEMMA BeginsStep ==
    ASSUME CachesInv, NEW t \in Workers, NEW work \in Tasks, Begins(t, work)
    PROVE  CachesInv'
<1>1. PICK r \in rows \cup {NoRow} :
          Becomes(t, [Free EXCEPT !.work = work, !.row = r,
              !.pc = CASE work.op = "turn" -> "list" [] work.op = "create" -> "count" [] OTHER -> "get"])
    BY DEF Begins
<1> DEFINE pc == CASE work.op = "turn" -> "list" [] work.op = "create" -> "count" [] OTHER -> "get"
           n == [Free EXCEPT !.work = work, !.row = r, !.pc = pc]
<1>2. work \in Works /\ work \in Task /\ r \in Rows
    BY Limits, IntegrationsAssumption, Blank DEF CachesInv, CachesTypes
<1>3. /\ pc \in {"list", "count", "get"} /\ (pc = "count" => work.op = "create")
      /\ pc = "get" => work.op \in {"update", "delete", "test"}
    BY <1>2 DEF Task
<1> HIDE DEF pc
<1>4. /\ n \in WorkerTypes /\ n.pc = pc /\ n.work = work /\ n.row = r
      /\ n.todo = {} /\ n.offered = {} /\ n.asked = 0 /\ n.token = NoToken
    BY <1>2, <1>3, Blank DEF WorkerTypes, Stages
<1>5. Becomes(t, n)
    BY <1>1 DEF pc
<1> HIDE DEF n
<1>6. WorkerOK(n) /\ Holds(t, n)
    BY <1>3, <1>4, Blank, RowsAtTypes DEF WorkerOK, Holds, RowsAt
<1>7. Rests
    BY DEF Begins, Rests
<1>8. QED
    BY <1>4, <1>5, <1>6, <1>7, RestsRest, ThreadForgets

LEMMA CountStep ==
    ASSUME CachesInv, NEW t \in Workers, Count(t)
    PROVE  CachesInv'
<1>1. worker[t].work.op = "create" /\ Rests
    BY RowsAtTypes DEF Count, Rests, WorkerOK
<1>2. (\E status \in Nat : Answers(t, status)) \/ Moves(t, "slug")
    BY DEF Count, Fails
<1>3. QED
    BY <1>1, <1>2, RestsRest, ThreadGoes, ThreadAnswers DEF Stages

LEMMA RowOfListed ==
    ASSUME NEW id \in Listed
    PROVE  RowOf(id) \in rows /\ RowOf(id).id = id
BY DEF Listed, RowOf

LEMMA GetStep ==
    ASSUME CachesInv, NEW t \in Workers, Get(t)
    PROVE  CachesInv'
<1> DEFINE w == worker[t]
           r == RowOf(w.row.id)
           pc == CASE w.work.op = "test" -> "headers" [] w.work.op = "delete" -> "write"
                   [] OTHER -> IF w.work.edit.name = 0 THEN "write" ELSE "slug"
           n == [w EXCEPT !.row = r, !.for = w.work.op, !.pc = pc]
<1>1. Rests /\ w \in WorkerTypes /\ WorkerOK(w) /\ w.work.op \in {"update", "delete", "test"}
    BY RowsAtTypes DEF Get, Rests, WorkerOK
<1>2. (\E status \in Nat : Answers(t, status)) \/ (w.row.id \in Listed /\ Becomes(t, n))
    BY DEF Get, Fails
<1>3. CASE w.row.id \in Listed /\ Becomes(t, n)
    <2>1. r \in rows /\ r \in Rows
        BY <1>3, RowOfListed DEF CachesInv, CachesTypes
    <2>2. /\ pc \in {"headers", "write", "slug"} /\ (pc = "slug" => w.work.op = "update")
          /\ pc = "write" => w.work.op \in {"update", "delete"}
        BY <1>1
    <2> HIDE DEF r, pc
    <2>3. /\ n \in WorkerTypes /\ n.pc = pc /\ n.work = w.work /\ n.row = r /\ n.todo = w.todo
          /\ n.offered = w.offered /\ n.asked = w.asked /\ n.token = w.token
        BY <1>1, <2>1, <2>2 DEF WorkerTypes, Stages, Purposes
    <2> HIDE DEF n
    <2>4. WorkerOK(n) /\ Holds(t, n)
        BY <1>1, <2>1, <2>2, <2>3, RowsAtTypes DEF WorkerOK, Holds, RowsAt
    <2>5. QED
        BY <1>1, <1>3, <2>3, <2>4, RestsRest, ThreadForgets
<1>4. QED
    BY <1>1, <1>2, <1>3, RestsRest, ThreadAnswers

(* _unique_slug returns a slug that no other row has: of one more number   *)
(* than there are slugs taken, one is free, and there is a first.          *)
LEMMA SlugIsFree ==
    ASSUME CachesInv, NEW id
    PROVE  /\ UniqueSlug(id) \in Nat \ {0}
           /\ \A r \in rows : r.id # id => r.slug # UniqueSlug(id)
<1> DEFINE others == {r \in rows : r.id # id}
           taken == {r.slug : r \in others}
           free == (1..(Cardinality(taken) + 1)) \ taken
<1>1. IsFiniteSet(others)
    BY FS_Subset DEF CachesInv, RowsOK
<1>2. IsFiniteSet(taken) /\ Cardinality(taken) \in Nat
    <2> DEFINE f == [r \in others |-> r.slug]
    <2> HIDE DEF others
    <2>1. f \in Surjection(others, taken)
        BY DEF Surjection
    <2> HIDE DEF f, taken
    <2>2. QED
        BY <1>1, <2>1, FS_Surjection, FS_CardinalityType
<1>3. free # {}
    <2> HIDE DEF taken
    <2> DEFINE k == Cardinality(taken) + 1
    <2>1. k \in Nat /\ IsFiniteSet(1..k) /\ Cardinality(1..k) = k
        <3>1. k \in Nat /\ k >= 1
            BY <1>2
        <3> HIDE DEF k
        <3>2. IsFiniteSet(1..k) /\ Cardinality(1..k) = IF 1 > k THEN 0 ELSE k - 1 + 1
            BY <3>1, FS_Interval
        <3>3. QED
            BY <3>1, <3>2
    <2>2. ~(1..k \subseteq taken)
        <3>1. SUFFICES ASSUME 1..k \subseteq taken PROVE FALSE
            OBVIOUS
        <3>2. Cardinality(1..k) <= Cardinality(taken)
            BY <1>2, <3>1, FS_Subset
        <3>3. QED
            BY <1>2, <2>1, <3>2
    <2>3. QED
        BY <2>2
<1> HIDE DEF taken
<1>4. free \subseteq Nat \ {0}
    BY <1>2
<1> HIDE DEF free
<1>5. PICK m \in free : \A n \in free : m <= n
    <2>1. free \subseteq Nat
        BY <1>4
    <2> DEFINE R == OpToRel(<, Nat)
    <2>2. R = {p \in Nat \X Nat : p[1] < p[2]}
        BY DEF OpToRel
    <2>3. IsWellFoundedOn(R, Nat)
        BY NatLessThanWellFounded
    <2> HIDE DEF R
    <2>4. PICK m \in free : \A n \in free : ~(<<n, m>> \in R)
        BY <1>3, <2>1, <2>3, WFMin
    <2>5. \A n \in free : m <= n
        <3> SUFFICES ASSUME NEW n \in free PROVE m <= n
            OBVIOUS
        <3>1. n \in Nat /\ m \in Nat /\ <<n, m>> \notin R
            BY <2>1, <2>4
        <3>2. n < m => <<n, m>> \in R
            <4>1. ASSUME NEW p, p = <<n, m>>, n < m PROVE p \in Nat \X Nat /\ p[1] < p[2]
                BY <3>1, <4>1
            <4>2. QED
                BY <2>2, <4>1
        <3>3. QED
            BY <3>1, <3>2
    <2>6. QED
        BY <2>5
<1>6. UniqueSlug(id) = Min(free)
    BY DEF UniqueSlug, free, taken
<1>7. Min(free) \in free
    BY <1>5 DEF Min
<1>8. UniqueSlug(id) \in Nat \ {0} /\ UniqueSlug(id) \notin taken
    BY <1>4, <1>6, <1>7 DEF free
<1>9. QED
    BY <1>8 DEF taken

LEMMA SlugStep ==
    ASSUME CachesInv, NEW t \in Workers, Slug(t)
    PROVE  CachesInv'
<1> DEFINE w == worker[t]
           slug == UniqueSlug(w.row.id)
           n == [w EXCEPT !.slug = slug, !.pc = "write"]
<1>1. Rests /\ w \in WorkerTypes /\ WorkerOK(w) /\ w.pc = "slug" /\ Holds(t, w)
    BY RowsAtTypes DEF Slug, Rests
<1>2. (\E status \in Nat : Answers(t, status)) \/ Becomes(t, n)
    BY DEF Slug, Fails
<1>3. CASE Becomes(t, n)
    <2>1. slug \in Nat
        BY SlugIsFree
    <2> HIDE DEF slug
    <2>2. /\ n \in WorkerTypes /\ n.pc = "write" /\ n.work = w.work /\ n.row = w.row
          /\ n.todo = w.todo /\ n.offered = w.offered /\ n.asked = w.asked /\ n.token = w.token
        BY <1>1, <2>1 DEF WorkerTypes, Stages
    <2> HIDE DEF n
    <2>3. WorkerOK(n) /\ Holds(t, n)
        BY <1>1, <2>2 DEF WorkerOK, Holds
    <2>4. QED
        BY <1>1, <1>3, <2>2, <2>3, RestsRest, ThreadForgets
<1>4. QED
    BY <1>1, <1>2, <1>3, RestsRest, ThreadAnswers

(* A row is written: its version is one that nobody knew.                  *)
LEMMA RowIsWritten ==
    ASSUME CachesInv, NEW t \in Workers, NEW new \in Rows, NEW row \in Rows, NEW others \in SUBSET rows,
           FactOf(row) = FactOf(new), row.slug = new.slug,
           new.version = stamp + 1, 0 < new.id, new.id <= stamp + 1,
           \A r \in others : r.id # new.id /\ r.slug # new.slug,
           rows' = others \cup {row}, stamp' = stamp + 1,
           Becomes(t, [worker[t] EXCEPT !.pc = "bust", !.row = new]),
           UNCHANGED <<tick, found, tokens>>
    PROVE  CachesInv'
<1> DEFINE w == worker[t]
           n == [w EXCEPT !.pc = "bust", !.row = new]
<1>1. /\ w \in WorkerTypes /\ WorkerOK(w) /\ stamp \in Nat /\ tick \in Nat
      /\ row.id = new.id /\ row.version = new.version
    BY RowsAtTypes DEF FactOf
<1>2. /\ n \in WorkerTypes /\ n.pc = "bust" /\ n.row = new
      /\ n.todo = w.todo /\ n.offered = w.offered /\ n.asked = w.asked /\ n.token = w.token
    BY <1>1 DEF WorkerTypes, Stages
<1>3. worker' = [worker EXCEPT ![t] = n]
    BY DEF Becomes
<1> HIDE DEF n
<1>4. \A u \in Workers : worker'[u] = IF u = t THEN n ELSE worker[u]
    BY <1>3 DEF CachesInv, CachesTypes
<1>5. CachesTypes'
    BY <1>1, <1>2, <1>3 DEF CachesInv, CachesTypes
<1>6. RowsOK'
    <2>1. IsFiniteSet(others)
        BY FS_Subset DEF CachesInv, RowsOK
    <2>2. IsFiniteSet(rows')
        BY <2>1, FS_AddElement
    <2>3. Distinct(rows')
        BY <1>1 DEF CachesInv, RowsOK, Distinct
    <2>4. \A r \in rows' : 0 < r.id /\ r.id <= stamp'
        BY <1>1 DEF CachesInv, CachesTypes, RowsOK, Rows
    <2>5. QED
        BY <2>2, <2>3, <2>4 DEF RowsOK
<1>7. FactsAgree'
    <2>1. ASSUME NEW f \in Facts, Known(f)' PROVE Known(f) \/ f = FactOf(new)
        <3>1. \/ f = FactOf(NoRow)
              \/ \E r \in rows' : f = FactOf(r)
              \/ \E e \in found' : f = Heard(e)
              \/ \E u \in Workers : KnownBy(worker'[u], f)
            BY <2>1 DEF Known, KnownBy, FactOf, Heard
        <3>2. CASE \E r \in rows' : f = FactOf(r)
            BY <3>2 DEF Known
        <3>3. CASE \E u \in Workers : KnownBy(worker'[u], f)
            <4>1. PICK u \in Workers : KnownBy(worker'[u], f)
                BY <3>3
            <4>2. CASE u = t
                BY <1>2, <1>4, <4>1, <4>2 DEF KnownBy, Known
            <4>3. CASE u # t
                BY <1>4, <4>1, <4>3 DEF Known
            <4>4. QED
                BY <4>2, <4>3
        <3>4. QED
            BY <3>1, <3>2, <3>3 DEF Known
    <2>2. FactOf(new) \in Facts /\ FactOf(new)[2] = stamp + 1
        BY FactTypes
    <2>3. \A f \in Facts : Known(f) => f[2] <= stamp
        BY DEF CachesInv, FactsAgree
    <2>4. \A f \in Facts : f[2] \in Nat
        BY DEF Facts
    <2>5. \A f \in Facts : Known(f)' => f[2] <= stamp'
        BY <1>1, <2>1, <2>2, <2>3, <2>4
    <2>6. ASSUME NEW f \in Facts, NEW g \in Facts, Known(f)', Known(g)', f[1] = g[1], f[2] = g[2]
          PROVE  f = g
        <3>1. CASE Known(f) /\ Known(g)
            BY <2>6, <3>1 DEF CachesInv, FactsAgree
        <3>2. CASE f = FactOf(new) \/ g = FactOf(new)
            BY <1>1, <2>1, <2>2, <2>3, <2>4, <2>6, <3>2
        <3>3. QED
            BY <2>1, <2>6, <3>1, <3>2
    <2>7. QED
        BY <2>5, <2>6 DEF FactsAgree
<1>8. /\ \A e \in found' : FoundOK(e)'
      /\ \A k \in tokens' : KeptOK(k)'
    BY DEF FoundOK, KeptOK, CachesInv
<1>9. WorkerOK(n)
    BY <1>1, <1>2 DEF WorkerOK
<1>10. ASSUME NEW u \in Workers PROVE WorkerOK(worker[u])'
    <2>1. WorkerOK(worker'[u])
        BY <1>4, <1>9 DEF CachesInv
    <2>2. QED
        BY <2>1 DEF WorkerOK
<1>11. QED
    BY <1>5, <1>6, <1>7, <1>8, <1>10 DEF CachesInv

Rewritten(r, version, name, slug, auth, credential, endpoint) ==
    [r EXCEPT !.version = version, !.name = name, !.slug = slug, !.auth = auth,
              !.secret = credential, !.server = endpoint]

LEMMA RewrittenTypes ==
    ASSUME NEW r \in Rows, NEW version \in Nat, NEW name \in Nat, NEW slug \in Nat, NEW auth \in Auths,
           NEW credential \in Nat, NEW endpoint \in Nat
    PROVE  Rewritten(r, version, name, slug, auth, credential, endpoint) \in Rows
BY DEF Rewritten, Rows

LEMMA EditedTypes ==
    ASSUME NEW r \in Rows, NEW edit \in Edits, NEW slug \in Nat, stamp \in Nat
    PROVE  /\ Edited(r, edit, slug) \in Rows /\ Edited(r, edit, slug).id = r.id
           /\ Edited(r, edit, slug).version = stamp + 1
<1> DEFINE name == IF edit.name = 0 THEN r.name ELSE edit.name
           label == IF edit.name = 0 THEN r.slug ELSE slug
           auth == IF edit.auth = "same" THEN r.auth ELSE edit.auth
           credential == CASE edit.secret = "same" -> r.secret [] edit.secret = "clear" -> 0
                       [] OTHER -> stamp + 1
           endpoint == IF edit.server = "same" THEN r.server ELSE stamp + 1
           enabled == IF edit.enabled = "same" THEN r.enabled ELSE edit.enabled = "on"
<1>1. /\ r.id \in Nat /\ r.name \in Nat /\ r.slug \in Nat /\ r.auth \in Auths /\ r.secret \in Nat
      /\ r.server \in Nat /\ r.enabled \in BOOLEAN /\ r.open \in BOOLEAN
    BY DEF Rows
<1>2. edit.name \in Nat /\ (edit.auth # "same" => edit.auth \in Auths)
    <2>1. edit.name \in Titles \cup {0} /\ edit.auth \in Auths \cup {"same"}
        BY DEF Edits
    <2>2. Titles \subseteq Nat
        BY IntegrationsAssumption
    <2>3. edit.name \in Nat
        <3>1. \A title \in Titles \cup {0} : title \in Nat
            BY <2>2
        <3>2. QED
            BY <2>1, <3>1
    <2>4. edit.auth # "same" => edit.auth \in Auths
        BY <2>1
    <2>5. QED
        BY <2>3, <2>4
<1>3. name \in Nat /\ label \in Nat /\ auth \in Auths
    BY <1>1, <1>2
<1>4. credential \in Nat /\ endpoint \in Nat
    BY <1>1
<1>5. enabled \in BOOLEAN
    BY <1>1
<1> DEFINE n == Rewritten(r, stamp + 1, name, label, auth, credential, endpoint)
<1>6. Edited(r, edit, slug) = [n EXCEPT !.enabled = enabled]
    BY DEF Edited, Rewritten, Rows
<1>7. stamp + 1 \in Nat
    OBVIOUS
<1> HIDE DEF name, label, auth, credential, endpoint, enabled
<1>8. n \in Rows /\ n.id = r.id /\ n.version = stamp + 1
    <2>1. n \in Rows
        BY <1>3, <1>4, <1>7, RewrittenTypes
    <2>2. n.id = r.id /\ n.version = stamp + 1
        BY DEF Rewritten, Rows
    <2>3. QED
        BY <2>1, <2>2
<1> HIDE DEF n
<1>9. [n EXCEPT !.enabled = enabled] \in Rows
    BY <1>5, <1>8 DEF Rows
<1>10. QED
    BY <1>6, <1>8, <1>9 DEF Rows

LEMMA SaveRowStep ==
    ASSUME CachesInv, NEW t \in Workers, SaveRow(t)
    PROVE  CachesInv'
<1> DEFINE w == worker[t]
           id == w.row.id
           old == IF id \in Listed THEN RowOf(id) ELSE NoRow
           others == rows \ {old}
           kept == IF w.work.op = "create" THEN [NoRow EXCEPT !.id = stamp + 1] ELSE old
           new == Edited(kept, w.work.edit, w.slug)
<1>1. /\ w \in WorkerTypes /\ WorkerOK(w) /\ w.pc = "write" /\ stamp \in Nat
      /\ w.work.op \in {"create", "update", "delete"} /\ w.work \in Works /\ w.slug \in Nat
      /\ UNCHANGED <<tick, found, tokens>>
    BY RowsAtTypes DEF SaveRow, WorkerOK, WorkerTypes
<1>2. \/ (\E status \in Nat : Answers(t, status)) /\ rows' = rows /\ stamp' \in {stamp, stamp + 1}
      \/ rows' = others /\ Moves(t, "bust") /\ stamp' = stamp
      \/ /\ w.work.op # "delete" /\ kept # NoRow /\ Unique(new, others) /\ stamp' = stamp + 1
         /\ \E open \in BOOLEAN : rows' = others \cup {[new EXCEPT !.open = open]}
         /\ Becomes(t, [w EXCEPT !.pc = "bust", !.row = new])
    <2>1. \/ Fails(t) /\ UNCHANGED <<rows, stamp>>
          \/ rows' = others /\ Moves(t, "bust") /\ UNCHANGED stamp
          \/ /\ w.work.op # "delete" /\ stamp' = stamp + 1
             /\ IF kept = NoRow \/ ~Unique(new, others) THEN Answers(t, 500) /\ UNCHANGED rows
                ELSE \E open \in BOOLEAN :
                         /\ rows' = others \cup {[new EXCEPT !.open = open]}
                         /\ Becomes(t, [w EXCEPT !.pc = "bust", !.row = new])
        BY DEF SaveRow
    <2> HIDE DEF others, kept, new
    <2>2. 500 \in Nat /\ (Fails(t) => Answers(t, 500))
        BY DEF Fails
    <2>3. QED
        BY <2>1, <2>2
<1>3. CASE (\E status \in Nat : Answers(t, status)) /\ rows' = rows /\ stamp' \in {stamp, stamp + 1}
    <2>1. /\ rows' \subseteq rows /\ stamp' \in Nat /\ stamp' >= stamp
          /\ tick' = tick /\ found' \subseteq found /\ tokens' \subseteq tokens
        BY <1>1, <1>3
    <2>2. QED
        BY <1>3, <2>1, ThreadAnswers
<1>4. CASE rows' = others /\ Moves(t, "bust") /\ stamp' = stamp
    <2>1. rows' \subseteq rows /\ stamp' \in Nat /\ stamp' >= stamp
        BY <1>1, <1>4
    <2>2. /\ tick' = tick /\ found' \subseteq found /\ tokens' \subseteq tokens
          /\ "bust" \in Stages \ {"connect", "count", "get"}
        BY <1>1 DEF Stages
    <2> HIDE DEF w, others
    <2>3. QED
        BY <1>4, <2>1, <2>2, ThreadGoes
<1>5. CASE /\ w.work.op # "delete" /\ kept # NoRow /\ Unique(new, others) /\ stamp' = stamp + 1
           /\ \E open \in BOOLEAN : rows' = others \cup {[new EXCEPT !.open = open]}
           /\ Becomes(t, [w EXCEPT !.pc = "bust", !.row = new])
    <2>1. old \in Rows /\ (old # NoRow => old \in rows)
        BY RowOfListed, Blank DEF CachesInv, CachesTypes
    <2>2. kept \in Rows /\ 0 < kept.id /\ kept.id <= stamp + 1
        <3>1. CASE w.work.op = "create"
            BY <1>1, <3>1, Blank DEF Rows
        <3>2. CASE w.work.op # "create"
            BY <1>1, <1>5, <2>1, <3>2 DEF CachesInv, CachesTypes, RowsOK, Rows
        <3>3. QED
            BY <3>1, <3>2
    <2>3. \A r \in others : r.id # kept.id
        <3>1. CASE w.work.op = "create"
            <4>1. kept.id = stamp + 1
                BY <3>1, Blank DEF Rows
            <4>2. QED
                BY <1>1, <4>1 DEF CachesInv, CachesTypes, RowsOK, Rows
        <3>2. CASE w.work.op # "create"
            BY <1>5, <2>1, <3>2 DEF CachesInv, RowsOK, Distinct
        <3>3. QED
            BY <3>1, <3>2
    <2>4. w.work.edit \in Edits
        BY <1>1, <1>5 DEF Works, Task
    <2>5. PICK open \in BOOLEAN : rows' = others \cup {[new EXCEPT !.open = open]}
        BY <1>5
    <2> DEFINE row == [new EXCEPT !.open = open]
    <2> HIDE DEF kept, others, old
    <2>6. new \in Rows /\ new.id = kept.id /\ new.version = stamp + 1
        BY <1>1, <2>2, <2>4, EditedTypes
    <2> HIDE DEF new
    <2>7. row \in Rows /\ FactOf(row) = FactOf(new) /\ row.slug = new.slug
        BY <2>6 DEF Rows, FactOf
    <2> HIDE DEF row
    <2>8. \A r \in others : r.id # new.id /\ r.slug # new.slug
        BY <1>5, <2>3, <2>6 DEF Unique
    <2>9. others \in SUBSET rows /\ rows' = others \cup {row}
        BY <2>5 DEF others, row
    <2>10. QED
        BY <1>1, <1>5, <2>2, <2>6, <2>7, <2>8, <2>9, RowIsWritten
<1>6. QED
    BY <1>2, <1>3, <1>4, <1>5

LEMMA BustStep ==
    ASSUME CachesInv, NEW t \in Workers, BustTools(t) \/ BustTokens(t)
    PROVE  CachesInv'
<1>1. CASE BustTools(t)
    <2>1. Moves(t, "bust tokens") /\ found' \subseteq found /\ UNCHANGED <<tick, rows, stamp, tokens>>
        BY <1>1 DEF BustTools
    <2>2. stamp' \in Nat /\ stamp' >= stamp
        <3>1. stamp \in Nat /\ stamp' = stamp
            BY <2>1, RowsAtTypes
        <3>2. QED
            BY <3>1
    <2>3. tick' = tick /\ rows' \subseteq rows /\ tokens' \subseteq tokens
        BY <2>1
    <2>4. QED
        BY <2>1, <2>2, <2>3, ThreadGoes DEF Stages
<1>2. CASE BustTokens(t)
    <2>1. Answers(t, 200) /\ tokens' \subseteq tokens /\ UNCHANGED <<tick, rows, stamp, found>>
        BY <1>2 DEF BustTokens
    <2>2. stamp' \in Nat /\ stamp' >= stamp
        BY <2>1 DEF CachesInv, CachesTypes
    <2>3. QED
        BY <2>1, <2>2, ThreadAnswers
<1>3. QED
    BY <1>1, <1>2

-----------------------------------------------------------------------------
(* Turns.                                                                  *)
LEMMA ListStep ==
    ASSUME CachesInv, NEW t \in Workers, List(t)
    PROVE  CachesInv'
<1> DEFINE w == worker[t]
           todo == {r \in rows : r.enabled}
           n == [w EXCEPT !.pc = "next", !.todo = todo]
<1>1. Rests /\ w \in WorkerTypes /\ WorkerOK(w) /\ Holds(t, w)
    BY RowsAtTypes DEF List, Rests
<1>2. Moves(t, "model") \/ Becomes(t, n)
    BY DEF List
<1>3. CASE Moves(t, "model")
    BY <1>1, <1>3, RestsRest, ThreadGoes DEF Stages
<1>4. CASE Becomes(t, n)
    <2>1. todo \subseteq Rows /\ todo \subseteq RowsAt(t)
        BY DEF CachesInv, CachesTypes, RowsAt
    <2> HIDE DEF todo
    <2>2. /\ n \in WorkerTypes /\ n.pc = "next" /\ n.row = w.row /\ n.todo = todo
          /\ n.offered = w.offered /\ n.asked = w.asked /\ n.token = w.token
        BY <1>1, <2>1 DEF WorkerTypes, Stages
    <2> HIDE DEF n
    <2>3. WorkerOK(n) /\ Holds(t, n)
        BY <1>1, <2>1, <2>2 DEF WorkerOK, Holds
    <2>4. QED
        BY <1>1, <1>4, <2>2, <2>3, RestsRest, ThreadForgets
<1>5. QED
    BY <1>2, <1>3, <1>4

(* A hit was discovered of the same version, hence of the same server.     *)
LEMMA HitOffers ==
    ASSUME CachesInv, NEW t \in Workers, NEW r \in RowsAt(t), NEW f \in found,
           f.key = Key(r), f.until > tick
    PROVE  Offer(r, f.specs, tick) \in OfferTypes /\ OfferOK(Offer(r, f.specs, tick))
<1>1. /\ r \in Rows /\ f \in FoundTypes /\ FoundOK(f) /\ tick \in Nat /\ f.specs \in SpecTypes
      /\ f.specs.asked \in Nat /\ DiscoveryTtl \in Nat
    BY RowsAtTypes, Limits DEF CachesInv, CachesTypes, FoundTypes, SpecTypes
<1>2. f.specs.server = r.server
    <2>1. Known(FactOf(r)) /\ Known(Heard(f)) /\ FactOf(r) \in Facts /\ Heard(f) \in Facts
        BY <1>1, RowsAtKnown, FactTypes DEF Known
    <2>2. FactOf(r)[1] = Heard(f)[1] /\ FactOf(r)[2] = Heard(f)[2]
        BY DEF FactOf, Heard, Key
    <2>3. FactOf(r) = Heard(f)
        BY <2>1, <2>2 DEF CachesInv, FactsAgree
    <2>4. QED
        BY <2>3 DEF FactOf, Heard
<1>3. tick - f.specs.asked <= DiscoveryTtl
    BY <1>1 DEF FoundOK
<1>4. QED
    BY <1>1, <1>2, <1>3 DEF Offer, OfferTypes, OfferOK

LEMMA DiscoverStep ==
    ASSUME CachesInv, NEW t \in Workers, Discover(t)
    PROVE  CachesInv'
<1> DEFINE w == worker[t]
<1>1. /\ Rests /\ w \in WorkerTypes /\ WorkerOK(w) /\ Holds(t, w) /\ tick \in Nat
      /\ w.offered \subseteq OfferTypes /\ w.todo \subseteq Rows
    BY RowsAtTypes DEF Discover, Rests
<1>2. CASE Moves(t, "model")
    BY <1>1, <1>2, RestsRest, ThreadGoes DEF Stages
<1>3. ASSUME NEW r \in w.todo, Becomes(t, [w EXCEPT !.todo = @ \ {r}])
      PROVE  CachesInv'
    <2> DEFINE n == [w EXCEPT !.todo = @ \ {r}]
    <2>1. /\ n \in WorkerTypes /\ n.pc = w.pc /\ n.row = w.row /\ n.todo \subseteq w.todo
          /\ n.work = w.work /\ n.secret = w.secret
          /\ n.offered = w.offered /\ n.asked = w.asked /\ n.token = w.token
        BY <1>1 DEF WorkerTypes
    <2> HIDE DEF n
    <2>2. WorkerOK(n) /\ Holds(t, n)
        BY <1>1, <2>1 DEF WorkerOK, Holds, TokenFits
    <2>3. QED
        BY <1>1, <1>3, <2>1, <2>2, RestsRest, ThreadForgets DEF n
<1>4. ASSUME NEW r \in w.todo,
             Becomes(t, [w EXCEPT !.todo = @ \ {r}, !.pc = "headers", !.for = "discover", !.row = r,
                                  !.asked = tick])
      PROVE  CachesInv'
    <2> DEFINE n == [w EXCEPT !.todo = @ \ {r}, !.pc = "headers", !.for = "discover", !.row = r,
                              !.asked = tick]
    <2>1. r \in Rows /\ r \in RowsAt(t)
        BY <1>1 DEF RowsAt
    <2>2. /\ n \in WorkerTypes /\ n.pc = "headers" /\ n.row = r /\ n.todo \subseteq w.todo
          /\ n.offered = w.offered /\ n.asked = tick /\ n.token = w.token
        BY <1>1, <2>1 DEF WorkerTypes, Stages, Purposes
    <2> HIDE DEF n
    <2>3. WorkerOK(n) /\ Holds(t, n)
        BY <1>1, <2>1, <2>2 DEF WorkerOK, Holds
    <2>4. QED
        BY <1>1, <1>4, <2>2, <2>3, RestsRest, ThreadForgets DEF n
<1>5. ASSUME NEW r \in w.todo, NEW f \in found, f.key = Key(r), f.until > tick,
             Becomes(t, [w EXCEPT !.todo = @ \ {r}, !.offered = @ \cup {Offer(r, f.specs, tick)}])
      PROVE  CachesInv'
    <2> DEFINE o == Offer(r, f.specs, tick)
               n == [w EXCEPT !.todo = @ \ {r}, !.offered = @ \cup {o}]
    <2>1. r \in RowsAt(t) /\ o \in OfferTypes /\ OfferOK(o) /\ o.row = r
        BY <1>5, HitOffers DEF RowsAt, Offer
    <2> HIDE DEF o
    <2>2. /\ n \in WorkerTypes /\ n.pc = w.pc /\ n.row = w.row /\ n.todo \subseteq w.todo
          /\ n.work = w.work /\ n.secret = w.secret
          /\ n.offered = w.offered \cup {o} /\ n.asked = w.asked /\ n.token = w.token
        BY <1>1, <2>1 DEF WorkerTypes
    <2>3. Becomes(t, n)
        BY <1>5 DEF o
    <2> HIDE DEF n
    <2>4. WorkerOK(n) /\ Holds(t, n)
        BY <1>1, <2>1, <2>2 DEF WorkerOK, Holds, TokenFits
    <2>5. QED
        BY <1>1, <2>2, <2>3, <2>4, RestsRest, ThreadForgets
<1>6. QED
    BY <1>2, <1>3, <1>4, <1>5 DEF Discover

LEMMA ConverseStep ==
    ASSUME CachesInv, NEW t \in Workers, Converse(t)
    PROVE  CachesInv'
<1> DEFINE w == worker[t]
<1>1. /\ Rests /\ w \in WorkerTypes /\ WorkerOK(w) /\ Holds(t, w)
      /\ w.offered \subseteq OfferTypes
    BY RowsAtTypes DEF Converse, Rests
<1>2. CASE Answers(t, 200)
    BY <1>1, <1>2, RestsRest, ThreadAnswers
<1>3. ASSUME NEW o \in w.offered,
             Becomes(t, [w EXCEPT !.pc = "headers", !.for = "call", !.row = o.row, !.calls = @ + 1,
                                  !.offered = {o}])
      PROVE  CachesInv'
    <2> DEFINE r == o.row
               calls == w.calls + 1
               offered == {o}
               n == [w EXCEPT !.pc = "headers", !.for = "call", !.row = r, !.calls = calls,
                              !.offered = offered]
    <2>1. r \in Rows /\ r \in RowsAt(t) /\ o \in OfferTypes /\ OfferOK(o)
        BY <1>1 DEF OfferTypes, RowsAt, WorkerOK
    <2>2. Becomes(t, n)
        BY <1>3
    <2>3. o.row = r /\ calls \in Nat /\ offered \subseteq OfferTypes
        BY <1>1, <2>1 DEF WorkerTypes
    <2> HIDE DEF r, calls, offered
    <2>4. /\ n \in WorkerTypes /\ n.pc = "headers" /\ n.row = r /\ n.todo = w.todo
          /\ n.offered = offered /\ n.asked = w.asked /\ n.token = w.token
        BY <1>1, <2>1, <2>3 DEF WorkerTypes, Stages, Purposes
    <2> HIDE DEF n
    <2>5. WorkerOK(n) /\ Holds(t, n)
        BY <1>1, <2>1, <2>3, <2>4 DEF WorkerOK, Holds, offered
    <2>6. QED
        BY <1>1, <2>2, <2>4, <2>5, RestsRest, ThreadForgets
<1>4. QED
    BY <1>2, <1>3 DEF Converse

LEMMA RaisesStep ==
    ASSUME CachesInv, NEW t \in Workers, Rests, Raises(t)
    PROVE  CachesInv'
<1> DEFINE w == worker[t]
           n == [w EXCEPT !.pc = "model", !.offered = {}]
<1>1. w \in WorkerTypes /\ WorkerOK(w) /\ Holds(t, w)
    BY RowsAtTypes
<1>2. CASE Becomes(t, n)
    <2>1. /\ n \in WorkerTypes /\ n.pc = "model" /\ n.row = w.row /\ n.todo = w.todo
          /\ n.offered = {} /\ n.asked = w.asked /\ n.token = w.token
        BY <1>1 DEF WorkerTypes, Stages
    <2> HIDE DEF n
    <2>2. WorkerOK(n) /\ Holds(t, n)
        BY <1>1, <2>1 DEF WorkerOK, Holds
    <2>3. QED
        BY <1>2, <2>1, <2>2, RestsRest, ThreadForgets
<1>3. QED
    BY <1>2, RestsRest, ThreadAnswers DEF Raises

(* Whatever the credential: no token is held yet.                          *)
LEMMA HeadersStep ==
    ASSUME CachesInv, NEW t \in Workers, Headers(t)
    PROVE  CachesInv'
<1> DEFINE w == worker[t]
           read == IF w.row.id \in Listed THEN RowOf(w.row.id).secret ELSE 0
           n(credential, pc) == [w EXCEPT !.secret = credential, !.token = NoToken, !.pc = pc]
<1>1. Rests /\ w \in WorkerTypes /\ WorkerOK(w) /\ Holds(t, w)
    BY RowsAtTypes DEF Headers, Rests
<1>2. read \in Nat
    BY RowOfListed DEF CachesInv, CachesTypes, Rows
<1>3. Raises(t) \/ \E credential \in {0, read}, pc \in {"lookup", "connect"} : Becomes(t, n(credential, pc))
    <2>1. CASE w.row.auth = "none"
        <3>1. Becomes(t, n(0, "connect"))
            BY <1>1, <2>1 DEF Headers, WorkerTypes
        <3>2. QED
            BY <3>1
    <2>2. CASE w.row.auth # "none" /\ ~lost
        <3> DEFINE on == [w EXCEPT !.secret = 0, !.token = NoToken, !.pc = "connect"]
        <3>1. Becomes(t, [on EXCEPT !.secret = read,
                              !.pc = IF w.row.auth = "oauth" /\ read # 0 THEN "lookup" ELSE @])
            BY <2>2 DEF Headers
        <3> HIDE DEF read
        <3>2. CASE w.row.auth = "oauth" /\ read # 0
            <4>1. [on EXCEPT !.secret = read, !.pc = IF w.row.auth = "oauth" /\ read # 0 THEN "lookup" ELSE @]
                  = n(read, "lookup")
                BY <1>1, <3>2 DEF WorkerTypes
            <4>2. QED
                BY <3>1, <4>1
        <3>3. CASE ~(w.row.auth = "oauth" /\ read # 0)
            <4>1. [on EXCEPT !.secret = read, !.pc = IF w.row.auth = "oauth" /\ read # 0 THEN "lookup" ELSE @]
                  = n(read, "connect")
                BY <1>1, <3>3 DEF WorkerTypes
            <4>2. QED
                BY <3>1, <4>1
        <3>4. QED
            BY <3>2, <3>3
    <2>3. CASE w.row.auth # "none" /\ lost
        BY <2>3 DEF Headers
    <2>4. QED
        BY <2>1, <2>2, <2>3
<1> HIDE DEF read
<1>4. ASSUME NEW credential \in {0, read}, NEW pc \in {"lookup", "connect"}, Becomes(t, n(credential, pc))
      PROVE  CachesInv'
    <2> DEFINE m == n(credential, pc)
    <2>1. credential \in Nat
        BY <1>2
    <2>2. /\ m \in WorkerTypes /\ m.pc = pc /\ m.row = w.row /\ m.todo = w.todo
          /\ m.offered = w.offered /\ m.asked = w.asked /\ m.token = NoToken
        BY <1>1, <2>1, Blank DEF WorkerTypes, Stages
    <2> HIDE DEF m
    <2>3. WorkerOK(m) /\ Holds(t, m)
        BY <1>1, <2>2, Blank, RowsAtTypes DEF WorkerOK, Holds
    <2>4. QED
        BY <1>1, <1>4, <2>2, <2>3, RestsRest, ThreadForgets DEF m
<1>5. QED
    BY <1>1, <1>3, <1>4, RaisesStep

LEMMA LookupStep ==
    ASSUME CachesInv, NEW t \in Workers, Lookup(t)
    PROVE  CachesInv'
<1> DEFINE w == worker[t]
<1>1. /\ Rests /\ w \in WorkerTypes /\ WorkerOK(w) /\ Holds(t, w) /\ w.row \in Rows
      /\ w.token \in TokenTypes /\ w.secret \in Nat /\ tick \in Nat /\ Skew \in Nat
    BY RowsAtTypes, Limits DEF Lookup, Rests, WorkerTypes
<1>2. CASE Becomes(t, [w EXCEPT !.pc = "token", !.token.got = tick])
    <2> DEFINE token == [w.token EXCEPT !.got = tick]
               n == [w EXCEPT !.pc = "token", !.token = token]
    <2>1. token \in TokenTypes /\ token.got = tick
        BY <1>1 DEF TokenTypes
    <2>2. Becomes(t, n)
        BY <1>2
    <2> HIDE DEF token
    <2>3. /\ n \in WorkerTypes /\ n.pc = "token" /\ n.row = w.row /\ n.todo = w.todo
          /\ n.offered = w.offered /\ n.asked = w.asked /\ n.token = token
        BY <1>1, <2>1 DEF WorkerTypes, Stages
    <2> HIDE DEF n
    <2>4. WorkerOK(n) /\ Holds(t, n)
        BY <1>1, <2>1, <2>3 DEF WorkerOK, Holds
    <2>5. QED
        BY <1>1, <2>2, <2>3, <2>4, RestsRest, ThreadForgets
<1>3. ASSUME NEW k \in tokens, k.token.key = TokenKey(w.row, w.secret), Hit(k),
             Becomes(t, [w EXCEPT !.pc = "connect", !.token = [k.token EXCEPT !.got = tick]])
      PROVE  CachesInv'
    <2> DEFINE token == [k.token EXCEPT !.got = tick]
               n == [w EXCEPT !.pc = "connect", !.token = token]
    <2>1. k \in KeptTypes /\ KeptOK(k) /\ k.token \in TokenTypes /\ k.until \in Nat /\ k.token.dies \in Nat
        BY DEF CachesInv, CachesTypes, KeptTypes, TokenTypes
    <2>2. /\ token \in TokenTypes /\ token.got = tick /\ token.key = k.token.key
          /\ token.dies = k.token.dies /\ token.of = k.token.of
        BY <1>1, <2>1 DEF TokenTypes
    <2>3. /\ token.key[1] = w.row.id /\ token.key[2] = w.row.server /\ token.of = w.secret
          /\ token.dies > tick + Skew
        BY <1>1, <1>3, <2>1, <2>2 DEF TokenKey, KeptOK, Hit
    <2>4. Becomes(t, n)
        BY <1>3
    <2> HIDE DEF token
    <2>5. /\ n \in WorkerTypes /\ n.pc = "connect" /\ n.row = w.row /\ n.todo = w.todo
          /\ n.offered = w.offered /\ n.asked = w.asked /\ n.token = token /\ n.secret = w.secret
        BY <1>1, <2>2 DEF WorkerTypes, Stages
    <2> HIDE DEF n
    <2>6. WorkerOK(n) /\ Holds(t, n)
        BY <1>1, <2>2, <2>3, <2>5 DEF WorkerOK, Holds, TokenFits
    <2>7. QED
        BY <1>1, <2>4, <2>5, <2>6, RestsRest, ThreadForgets
<1>4. QED
    BY <1>2, <1>3 DEF Lookup

(* It is kept from when it was asked for, which is not later than its own  *)
(* end, and with the secret it was asked for with.                         *)
LEMMA TokenArrivesStep ==
    ASSUME CachesInv, NEW t \in Workers, TokenArrives(t)
    PROVE  CachesInv'
<1> DEFINE w == worker[t]
           key == TokenKey(w.row, w.secret)
           new == [key |-> key, dies |-> tick + TokenLife, got |-> tick, of |-> w.secret]
           kept == [token |-> new, until |-> w.token.got + TokenLife]
           n == [w EXCEPT !.pc = "connect", !.token = new]
<1>1. /\ w \in WorkerTypes /\ WorkerOK(w) /\ Holds(t, w) /\ w.row \in Rows /\ w.token.got \in Nat
      /\ w.secret \in Nat /\ tick \in Nat /\ Skew \in Nat /\ TokenLife \in Nat /\ TokenLife > Skew
    BY RowsAtTypes, Limits DEF WorkerTypes, TokenTypes
<1>2. /\ tokens' \subseteq tokens \cup {kept} /\ Becomes(t, n) /\ UNCHANGED <<tick, rows, stamp, found>>
    BY DEF TokenArrives
<1>3. /\ key \in Nat \X Nat \X Nat /\ key[1] = w.row.id /\ key[2] = w.row.server /\ key[3] = w.secret
    BY <1>1 DEF TokenKey, Rows
<1> HIDE DEF key
<1>4. /\ new \in TokenTypes /\ new.key = key /\ new.dies = tick + TokenLife /\ new.got = tick
      /\ new.of = w.secret
    BY <1>1, <1>3 DEF TokenTypes
<1> HIDE DEF new
<1>5. kept \in KeptTypes /\ KeptOK(kept)
    BY <1>1, <1>3, <1>4 DEF KeptTypes, KeptOK, WorkerOK
<1>6. /\ n \in WorkerTypes /\ n.pc = "connect" /\ n.row = w.row /\ n.todo = w.todo
      /\ n.offered = w.offered /\ n.asked = w.asked /\ n.token = new /\ n.secret = w.secret
    BY <1>1, <1>4 DEF WorkerTypes, Stages
<1> HIDE DEF n, kept
<1>7. WorkerOK(n) /\ Holds(t, n)
    BY <1>1, <1>3, <1>4, <1>6 DEF WorkerOK, Holds, TokenFits
<1>8. tokens' \subseteq KeptTypes /\ \A k \in tokens' : KeptOK(k)
    BY <1>2, <1>5 DEF CachesInv, CachesTypes
<1>9. found' \subseteq FoundTypes /\ \A e \in found' : FoundOK(e) /\ Known(Heard(e))
    BY <1>2 DEF CachesInv, CachesTypes, Known
<1>10. tick' = tick /\ rows' \subseteq rows /\ stamp' \in Nat /\ stamp' >= stamp
    BY <1>2 DEF CachesInv, CachesTypes
<1>11. QED
    BY <1>2, <1>6, <1>7, <1>8, <1>9, <1>10, ThreadMoves

LEMMA TokenRefusedStep ==
    ASSUME CachesInv, NEW t \in Workers, TokenRefused(t)
    PROVE  CachesInv'
<1> DEFINE w == worker[t]
           n == [w EXCEPT !.pc = "connect", !.token = NoToken]
<1>1. Rests /\ Becomes(t, n) /\ w \in WorkerTypes /\ WorkerOK(w) /\ Holds(t, w)
    BY RowsAtTypes DEF TokenRefused, Rests
<1>2. /\ n \in WorkerTypes /\ n.pc = "connect" /\ n.row = w.row /\ n.todo = w.todo
      /\ n.offered = w.offered /\ n.asked = w.asked /\ n.token = NoToken
    BY <1>1, Blank DEF WorkerTypes, Stages
<1> HIDE DEF n
<1>3. WorkerOK(n) /\ Holds(t, n)
    BY <1>1, <1>2, Blank, RowsAtTypes DEF WorkerOK, Holds
<1>4. QED
    BY <1>1, <1>2, <1>3, RestsRest, ThreadForgets

(* What a server offers is kept for the row and version it was asked of.   *)
LEMMA ExchangeStep ==
    ASSUME CachesInv, NEW t \in Workers, Exchange(t)
    PROVE  CachesInv'
<1> DEFINE w == worker[t]
           specs == [server |-> w.row.server, asked |-> w.asked]
           e == [key |-> Key(w.row), until |-> w.asked + DiscoveryTtl, specs |-> specs]
           o == Offer(w.row, specs, w.asked)
           n(pc, offered) == [w EXCEPT !.pc = pc, !.row = NoRow, !.secret = 0, !.token = NoToken,
                                       !.offered = offered]
<1>1. /\ w \in WorkerTypes /\ WorkerOK(w) /\ Holds(t, w) /\ w.row \in Rows /\ w.asked \in Nat
      /\ w.offered \subseteq OfferTypes /\ w.row \in RowsAt(t) /\ NoRow \in RowsAt(t) /\ tick \in Nat
    BY RowsAtTypes DEF WorkerTypes, RowsAt
<1>2. UNCHANGED <<tick, rows, stamp, tokens>>
    BY DEF Exchange
<1>3. \/ /\ found' \subseteq found \cup {e}
         /\ \E offered \in {w.offered, w.offered \cup {o}} : Becomes(t, n("next", offered))
      \/ found' = found /\ (Becomes(t, n("model", w.offered)) \/ Answers(t, 200))
    <2>1. PICK fine \in BOOLEAN :
             \/ /\ found' = IF fine THEN {f \in found : f.key # Key(w.row)} \cup {e} ELSE found
                /\ Becomes(t, [w EXCEPT !.pc = "next", !.row = NoRow, !.secret = 0, !.token = NoToken,
                       !.offered = IF fine THEN @ \cup {o} ELSE @])
             \/ /\ UNCHANGED found
                /\ Becomes(t, [w EXCEPT !.pc = "model", !.row = NoRow, !.secret = 0, !.token = NoToken])
             \/ UNCHANGED found /\ Answers(t, 200)
        BY DEF Exchange
    <2>2. n("model", w.offered) = [w EXCEPT !.pc = "model", !.row = NoRow, !.secret = 0, !.token = NoToken]
        BY <1>1 DEF WorkerTypes
    <2> HIDE DEF e, o
    <2>3. CASE fine
        BY <2>1, <2>2, <2>3
    <2>4. CASE ~fine
        BY <2>1, <2>2, <2>4
    <2>5. QED
        BY <2>3, <2>4
<1>4. DiscoveryTtl \in Nat /\ specs \in SpecTypes /\ w.row.id \in Nat /\ w.row.version \in Nat
    BY <1>1, Limits DEF SpecTypes, Rows
<1>5. e \in FoundTypes /\ FoundOK(e) /\ Heard(e) = FactOf(w.row)
    BY <1>1, <1>4 DEF FoundTypes, FoundOK, Heard, FactOf, Key, WorkerOK
<1>6. o \in OfferTypes /\ OfferOK(o) /\ o.row = w.row
    BY <1>1, <1>4 DEF Offer, OfferTypes, OfferOK
<1>7. Known(Heard(e))
    BY <1>1, <1>5, RowsAtKnown
<1> HIDE DEF e, o
<1>8. /\ found' \subseteq FoundTypes /\ tokens' \subseteq KeptTypes
      /\ \A f \in found' : FoundOK(f) /\ Known(Heard(f))
      /\ \A k \in tokens' : KeptOK(k)
    BY <1>2, <1>3, <1>5, <1>7 DEF CachesInv, CachesTypes, Known
<1>9. tick' = tick /\ rows' \subseteq rows /\ stamp' \in Nat /\ stamp' >= stamp
    BY <1>2 DEF CachesInv, CachesTypes
<1>10. ASSUME NEW pc \in {"next", "model"}, NEW offered \in {w.offered, w.offered \cup {o}},
              Becomes(t, n(pc, offered))
       PROVE  CachesInv'
    <2> DEFINE m == n(pc, offered)
    <2>1. offered \subseteq OfferTypes /\ \A p \in offered : OfferOK(p) /\ p.row \in RowsAt(t)
        BY <1>1, <1>6 DEF WorkerOK, Holds
    <2>2. /\ m \in WorkerTypes /\ m.pc = pc /\ m.row = NoRow /\ m.todo = w.todo
          /\ m.offered = offered /\ m.asked = w.asked /\ m.token = NoToken
        BY <1>1, <2>1, Blank DEF WorkerTypes, Stages
    <2> HIDE DEF m
    <2>3. WorkerOK(m) /\ Holds(t, m)
        BY <1>1, <2>1, <2>2, Blank DEF WorkerOK, Holds
    <2>4. QED
        BY <1>8, <1>9, <1>10, <2>2, <2>3, ThreadMoves DEF m
<1>11. ASSUME found' = found, Answers(t, 200)
       PROVE  CachesInv'
    BY <1>2, <1>9, <1>11, ThreadAnswers
<1>12. QED
    BY <1>3, <1>10, <1>11

-----------------------------------------------------------------------------
LEMMA HandlesStep ==
    ASSUME CachesInv, NEW t \in Workers, Handles(t)
    PROVE  CachesInv'
BY CountStep, GetStep, SlugStep, SaveRowStep, BustStep, ListStep, DiscoverStep, ConverseStep,
   HeadersStep, LookupStep, TokenArrivesStep, TokenRefusedStep, ExchangeStep DEF Handles

(* Time passes, or nothing that the invariant is about changes.            *)
LEMMA TickPasses ==
    ASSUME CachesInv, tick' \in Nat, tick' >= tick, UNCHANGED <<rows, stamp, found, tokens, worker>>
    PROVE  CachesInv'
<1>1. CachesTypes'
    BY DEF CachesInv, CachesTypes
<1>2. RowsOK'
    BY DEF CachesInv, RowsOK, Distinct
<1>3. FactsAgree'
    BY DEF CachesInv, FactsAgree, Known, KnownBy, FactOf, Heard
<1>4. \A f \in found' : FoundOK(f)'
    BY DEF CachesInv, CachesTypes, FoundOK, FoundTypes, SpecTypes
<1>5. \A k \in tokens' : KeptOK(k)'
    BY DEF CachesInv, KeptOK
<1>6. ASSUME NEW u \in Workers PROVE WorkerOK(worker[u])'
    <2>1. worker[u] \in WorkerTypes /\ WorkerOK(worker[u]) /\ tick \in Nat
        BY DEF CachesInv, CachesTypes
    <2>2. \A w \in WorkerTypes : WorkerOK(w) => w.asked <= tick' /\ w.token.got <= tick'
        BY <2>1 DEF WorkerTypes, TokenTypes, WorkerOK
    <2>3. QED
        BY <2>1, <2>2 DEF WorkerOK
<1>7. QED
    BY <1>1, <1>2, <1>3, <1>4, <1>5, <1>6 DEF CachesInv

LEMMA NextKeepsCaches ==
    ASSUME CachesInv, [IntegrationsNext]_integrationVars
    PROVE  CachesInv'
<1>1. CASE ClockTicks
    <2>1. tick' = tick + 1 /\ tick \in Nat /\ UNCHANGED <<rows, stamp, found, tokens, worker>>
        BY <1>1 DEF ClockTicks, CachesInv, CachesTypes
    <2>2. tick' \in Nat /\ tick' >= tick
        BY <2>1
    <2>3. QED
        BY <2>1, <2>2, TickPasses
<1>2. CASE DatabaseFlips \/ UNCHANGED integrationVars
    <2>1. tick' = tick /\ tick \in Nat /\ UNCHANGED <<rows, stamp, found, tokens, worker>>
        BY <1>2 DEF DatabaseFlips, integrationVars, CachesInv, CachesTypes
    <2>2. tick' \in Nat /\ tick' >= tick
        BY <2>1
    <2>3. QED
        BY <2>1, <2>2, TickPasses
<1>3. ASSUME NEW t \in Workers, Handles(t) \/ \E work \in Tasks : Begins(t, work) PROVE CachesInv'
    BY <1>3, HandlesStep, BeginsStep
<1>4. QED
    BY <1>1, <1>2, <1>3 DEF IntegrationsNext

(* At first each row is of its own number, and nobody knows another.       *)
LEMMA InitHasCaches ==
    ASSUME IntegrationsInit
    PROVE  CachesInv
<1>1. /\ rows \subseteq Rows /\ IsFiniteSet(rows) /\ Distinct(rows) /\ stamp = Cardinality(rows)
      /\ \A r \in rows : r.id \in 1..stamp /\ r.version \in 1..stamp
    BY IntegrationsAssumption DEF IntegrationsInit, Numbered
<1>2. stamp \in Nat
    BY <1>1, FS_CardinalityType
<1>3. /\ found = {} /\ tokens = {} /\ tick = 0
      /\ \A t \in Workers : worker[t] = Free
    BY DEF IntegrationsInit
<1>4. worker \in [Workers -> WorkerTypes]
    BY Blank DEF IntegrationsInit
<1>5. CachesTypes
    BY <1>1, <1>2, <1>3, <1>4 DEF CachesTypes
<1>6. RowsOK
    BY <1>1, <1>2 DEF RowsOK
<1>7. FactsAgree
    <2>1. ASSUME NEW f, Known(f) PROVE f = FactOf(NoRow) \/ \E r \in rows : f = FactOf(r)
        BY <1>3, <2>1, Blank DEF Known, KnownBy
    <2>2. /\ FactOf(NoRow)[1] = 0 /\ FactOf(NoRow)[2] = 0
          /\ \A r \in rows : FactOf(r)[1] = r.id /\ FactOf(r)[2] = r.version /\ r.id # 0 /\ r.version <= stamp
        BY <1>1, <1>2 DEF FactOf, NoRow
    <2>3. \A f \in Facts : Known(f) => f[2] <= stamp
        BY <1>2, <2>1, <2>2
    <2>4. \A f, g \in Facts : Known(f) /\ Known(g) /\ f[1] = g[1] /\ f[2] = g[2] => f = g
        BY <1>1, <2>1, <2>2 DEF Distinct
    <2>5. QED
        BY <2>3, <2>4 DEF FactsAgree
<1>8. WorkerOK(Free)
    BY <1>3, Blank DEF WorkerOK
<1>9. QED
    BY <1>3, <1>5, <1>6, <1>7, <1>8 DEF CachesInv

(* What is remembered of the rows, their tools and their tokens agrees,    *)
(* whoever holds it and whatever administrators write meanwhile.           *)
THEOREM CachesInvariant == IntegrationsSpec => []CachesInv
<1>1. IntegrationsInit => CachesInv
    BY InitHasCaches
<1>2. CachesInv /\ [IntegrationsNext]_integrationVars => CachesInv'
    BY NextKeepsCaches
<1>3. QED
    BY <1>1, <1>2, PTL DEF IntegrationsSpec

(* A turn is offered the tools of the server that its row had when it was  *)
(* listed, asked for within the time to live, and a call's token is that   *)
(* of its row and secret and has not expired: the two caches of            *)
(* mcp_client.py and mcp_oauth.py cannot be told from asking again.        *)
THEOREM CachesAreFaithful == IntegrationsSpec => []CachesAreTransparent
<1>1. CachesInv => CachesAreTransparent
    <2> SUFFICES ASSUME CachesInv PROVE CachesAreTransparent
        OBVIOUS
    <2>1. ToolsAreOfTheirRow
        BY DEF CachesInv, WorkerOK, OfferOK, ToolsAreOfTheirRow
    <2>2. TokensAreLive
        <3> SUFFICES ASSUME NEW t \in Workers, worker[t].pc = "connect", worker[t].token # NoToken
                     PROVE  LET w == worker[t] IN
                            /\ w.token.key[1] = w.row.id /\ w.token.key[2] = w.row.server
                            /\ w.token.of = w.secret
                            /\ tick <= w.token.got + Skew => w.token.dies > tick
            BY DEF TokensAreLive
        <3>1. TokenFits(worker[t])
            BY DEF CachesInv, WorkerOK
        <3>2. worker[t].token.dies \in Nat /\ worker[t].token.got \in Nat /\ tick \in Nat /\ Skew \in Nat
            BY RowsAtTypes, Limits DEF WorkerTypes, TokenTypes
        <3>3. QED
            BY <3>1, <3>2 DEF TokenFits
    <2>3. QED
        BY <2>1, <2>2 DEF CachesAreTransparent
<1>2. QED
    BY <1>1, CachesInvariant, PTL

-----------------------------------------------------------------------------
(* The limit: whoever has been counted in and has not written yet.         *)
Admits(w) == w.pc \in {"slug", "write"} /\ w.work.op = "create"
Creating == {t \in Workers : Admits(worker[t])}
LimitInv == Cardinality(rows) + Cardinality(Creating) <= MaxIntegrations - 1 + Cardinality(Workers)

LEMMA CreatingTypes ==
    ASSUME CachesInv, CachesInv'
    PROVE  /\ IsFiniteSet(Creating) /\ IsFiniteSet(Creating') /\ Creating \subseteq Workers
           /\ Cardinality(Creating) \in Nat /\ Cardinality(Creating') \in Nat
           /\ Cardinality(Creating') <= Cardinality(Workers)
           /\ IsFiniteSet(rows) /\ IsFiniteSet(rows') /\ Cardinality(rows) \in Nat
           /\ Cardinality(rows') \in Nat /\ Cardinality(Workers) \in Nat /\ Cardinality(Workers) > 0
<1>1. IsFiniteSet(Workers) /\ Workers # {}
    BY IntegrationsAssumption
<1>2. Creating \subseteq Workers /\ Creating' \subseteq Workers
    BY DEF Creating
<1>3. IsFiniteSet(rows) /\ IsFiniteSet(rows')
    BY DEF CachesInv, RowsOK
<1>4. Cardinality(Workers) # 0
    BY <1>1, FS_EmptySet
<1>5. Cardinality(Creating') <= Cardinality(Workers)
    BY <1>1, <1>2, FS_Subset
<1>6. QED
    BY <1>1, <1>2, <1>3, <1>4, <1>5, FS_Subset, FS_CardinalityType

LEMMA NobodyEnters ==
    ASSUME CachesInv, NEW t \in Workers, NEW n, Becomes(t, n), Admits(n) => t \in Creating
    PROVE  Creating' \subseteq Creating
<1>1. \A u \in Workers : worker'[u] = IF u = t THEN n ELSE worker[u]
    BY DEF Becomes, CachesInv, CachesTypes
<1>2. ASSUME NEW u \in Creating' PROVE u \in Creating
    <2>1. u \in Workers /\ Admits(worker'[u])
        BY <1>2 DEF Creating, Admits
    <2>2. QED
        BY <1>1, <2>1 DEF Creating
<1>3. QED
    BY <1>2

LEMMA LimitStays ==
    ASSUME CachesInv, CachesInv', LimitInv, rows' \subseteq rows, Creating' \subseteq Creating
    PROVE  LimitInv'
<1>1. Cardinality(rows') <= Cardinality(rows) /\ Cardinality(Creating') <= Cardinality(Creating)
    BY CreatingTypes, FS_Subset
<1>2. QED
    BY <1>1, CreatingTypes, Limits DEF LimitInv

(* Who is counted in found room for one.                                   *)
LEMMA CountKeepsLimit ==
    ASSUME CachesInv, CachesInv', LimitInv, NEW t \in Workers, Count(t)
    PROVE  LimitInv'
<1>1. rows' = rows
    BY DEF Count
<1>2. CASE \E status \in Nat : Answers(t, status)
    <2>1. PICK status \in Nat : Answers(t, status)
        BY <1>2
    <2>2. ~Admits([Free EXCEPT !.answer = status])
        BY DEF Admits, Free
    <2>3. Creating' \subseteq Creating
        BY <2>1, <2>2, NobodyEnters DEF Answers
    <2>4. QED
        BY <1>1, <2>3, LimitStays
<1>3. CASE ~AtCap
    <2>1. Cardinality(rows') < MaxIntegrations
        BY <1>1, <1>3, CreatingTypes, Limits DEF AtCap
    <2>2. QED
        BY <2>1, CreatingTypes, Limits DEF LimitInv
<1>4. QED
    BY <1>2, <1>3 DEF Count, Fails

(* A write adds at most the row that room was found for.                   *)
LEMMA SaveKeepsLimit ==
    ASSUME CachesInv, CachesInv', LimitInv, NEW t \in Workers, SaveRow(t)
    PROVE  LimitInv'
<1> DEFINE w == worker[t]
           id == w.row.id
           old == IF id \in Listed THEN RowOf(id) ELSE NoRow
           others == rows \ {old}
           kept == IF w.work.op = "create" THEN [NoRow EXCEPT !.id = stamp + 1] ELSE old
<1>1. w \in WorkerTypes /\ w.pc = "write"
    BY RowsAtTypes DEF SaveRow
<1>2. \/ rows' \subseteq rows /\ \E n : n.pc \in {"bust", "free"} /\ Becomes(t, n)
      \/ /\ kept # NoRow /\ \E row : rows' = others \cup {row}
         /\ \E n : n.pc = "bust" /\ Becomes(t, n)
    <2>1. \A status : [Free EXCEPT !.answer = status].pc = "free"
        BY DEF Free
    <2>2. \A new : [w EXCEPT !.pc = "bust", !.row = new].pc = "bust" /\ [w EXCEPT !.pc = "bust"].pc = "bust"
        BY <1>1 DEF WorkerTypes
    <2>3. Moves(t, "bust") => Becomes(t, [w EXCEPT !.pc = "bust"])
        BY DEF Moves, Becomes
    <2> DEFINE new == Edited(kept, w.work.edit, w.slug)
    <2>4. \/ (\E status : Answers(t, status)) /\ rows' = rows
          \/ rows' = others /\ Moves(t, "bust")
          \/ /\ kept # NoRow /\ \E open \in BOOLEAN : rows' = others \cup {[new EXCEPT !.open = open]}
             /\ Becomes(t, [w EXCEPT !.pc = "bust", !.row = new])
        BY DEF SaveRow, Fails
    <2> HIDE DEF w, new, kept, others
    <2>5. others \subseteq rows
        BY DEF others
    <2>6. CASE (\E status : Answers(t, status)) /\ rows' = rows
        <3>1. PICK status : Becomes(t, [Free EXCEPT !.answer = status])
            BY <2>6 DEF Answers
        <3> DEFINE n == [Free EXCEPT !.answer = status]
        <3>2. n.pc = "free" /\ Becomes(t, n)
            BY <2>1, <3>1
        <3> HIDE DEF n
        <3>3. QED
            BY <2>6, <3>2
    <2>7. CASE rows' = others /\ Moves(t, "bust")
        <3> DEFINE n == [w EXCEPT !.pc = "bust"]
        <3>1. n.pc = "bust" /\ Becomes(t, n)
            BY <2>2, <2>3, <2>7
        <3> HIDE DEF n
        <3>2. QED
            BY <2>5, <2>7, <3>1
    <2>8. CASE /\ kept # NoRow /\ \E open \in BOOLEAN : rows' = others \cup {[new EXCEPT !.open = open]}
               /\ Becomes(t, [w EXCEPT !.pc = "bust", !.row = new])
        BY <2>2, <2>8
    <2>9. QED
        BY <2>4, <2>6, <2>7, <2>8
<1>3. CASE rows' \subseteq rows /\ \E n : n.pc \in {"bust", "free"} /\ Becomes(t, n)
    <2>1. Creating' \subseteq Creating
        BY <1>3, NobodyEnters DEF Admits
    <2>2. QED
        BY <1>3, <2>1, LimitStays
<1>4. CASE /\ kept # NoRow /\ \E row : rows' = others \cup {row}
           /\ \E n : n.pc = "bust" /\ Becomes(t, n)
    <2>1. PICK n : n.pc = "bust" /\ Becomes(t, n)
        BY <1>4
    <2>2. PICK row : rows' = others \cup {row}
        BY <1>4
    <2>3. Creating' \subseteq Creating \ {t}
        <3>1. Creating' \subseteq Creating
            BY <2>1, NobodyEnters DEF Admits
        <3>2. worker'[t] = n
            BY <2>1 DEF Becomes, CachesInv, CachesTypes
        <3>3. ~Admits(worker[t])'
            BY <2>1, <3>2 DEF Admits
        <3>4. t \notin Creating'
            BY <3>3 DEF Creating
        <3>5. QED
            BY <3>1, <3>4
    <2>4. IsFiniteSet(others) /\ Cardinality(others) \in Nat
        BY CreatingTypes, FS_Subset, FS_CardinalityType
    <2>5. Cardinality(rows') <= Cardinality(others) + 1
        <3> HIDE DEF others
        <3>1. Cardinality(others \cup {row}) \in {Cardinality(others), Cardinality(others) + 1}
            BY <2>4, FS_AddElement
        <3>2. QED
            BY <2>2, <2>4, <3>1
    <2>6. CASE w.work.op = "create"
        <3>1. t \in Creating
            BY <1>1, <2>6 DEF Creating, Admits
        <3>2. IsFiniteSet(Creating \ {t}) /\ Cardinality(Creating \ {t}) = Cardinality(Creating) - 1
            BY <3>1, CreatingTypes, FS_RemoveElement
        <3>3. Cardinality(Creating') <= Cardinality(Creating) - 1
            BY <2>3, <3>2, FS_Subset
        <3>4. Cardinality(others) <= Cardinality(rows)
            BY CreatingTypes, FS_Subset
        <3>5. QED
            BY <2>4, <2>5, <3>3, <3>4, CreatingTypes, Limits DEF LimitInv
    <2>7. CASE w.work.op # "create"
        <3>1. old \in rows
            BY <1>4, <2>7, RowOfListed
        <3>2. Cardinality(others) = Cardinality(rows) - 1
            BY <3>1, CreatingTypes, FS_RemoveElement
        <3>3. Cardinality(Creating') <= Cardinality(Creating)
            BY <2>3, CreatingTypes, FS_Subset
        <3>4. QED
            BY <2>4, <2>5, <3>2, <3>3, CreatingTypes, Limits DEF LimitInv
    <2>8. QED
        BY <2>6, <2>7
<1>5. QED
    BY <1>2, <1>3, <1>4

(* No other step of a thread has it write a row it was not counted in for. *)
LEMMA OthersEnterNot ==
    ASSUME CachesInv, NEW t \in Workers, Handles(t), ~Count(t), ~SaveRow(t)
    PROVE  rows' = rows /\ \E n : Becomes(t, n) /\ (Admits(n) => t \in Creating)
<1> DEFINE w == worker[t]
<1>1. w \in WorkerTypes /\ WorkerOK(w) /\ (t \in Creating <=> Admits(w))
    BY RowsAtTypes DEF Creating
<1>2. \A status : Answers(t, status) => \E n : Becomes(t, n) /\ ~Admits(n)
    BY DEF Answers, Admits, Free
<1>3. \A pc : Moves(t, pc) /\ pc \notin {"slug", "write"} => \E n : Becomes(t, n) /\ ~Admits(n)
    <2> SUFFICES ASSUME NEW pc, Moves(t, pc), pc \notin {"slug", "write"}
                 PROVE  \E n : Becomes(t, n) /\ ~Admits(n)
        OBVIOUS
    <2>1. ~Admits([w EXCEPT !.pc = pc])
        BY <1>1 DEF Admits, WorkerTypes
    <2>2. QED
        BY <2>1 DEF Moves, Becomes
<1>4. CASE Get(t)
    <2>1. w.work.op # "create"
        BY <1>1, <1>4 DEF WorkerOK, Get
    <2>2. \A row, for, pc : ~Admits([w EXCEPT !.row = row, !.for = for, !.pc = pc])
        BY <1>1, <2>1 DEF Admits, WorkerTypes
    <2>3. QED
        BY <1>2, <1>4, <2>2 DEF Get, Fails
<1>5. CASE Slug(t)
    <2>1. \A slug : Admits([w EXCEPT !.slug = slug, !.pc = "write"]) => t \in Creating
        BY <1>1, <1>5 DEF Admits, WorkerTypes, Slug
    <2>2. QED
        BY <1>2, <1>5, <2>1 DEF Slug, Fails
<1>6. CASE BustTools(t) \/ BustTokens(t)
    BY <1>2, <1>3, <1>6 DEF BustTools, BustTokens
<1>7. CASE List(t)
    <2>1. \A todo : ~Admits([w EXCEPT !.pc = "next", !.todo = todo])
        BY <1>1 DEF Admits, WorkerTypes
    <2>2. QED
        BY <1>3, <1>7, <2>1 DEF List
<1>8. CASE Discover(t)
    <2>1. w.pc = "next"
        BY <1>8 DEF Discover
    <2> DEFINE Enters == \E n : Becomes(t, n) /\ ~Admits(n)
    <2>2. ASSUME NEW r, Becomes(t, [w EXCEPT !.todo = @ \ {r}]) PROVE Enters
        <3>1. ~Admits([w EXCEPT !.todo = @ \ {r}])
            BY <1>1, <2>1 DEF Admits, WorkerTypes
        <3>2. QED
            BY <2>2, <3>1
    <2>3. ASSUME NEW r, Becomes(t, [w EXCEPT !.todo = @ \ {r}, !.pc = "headers", !.for = "discover",
                                             !.row = r, !.asked = tick])
          PROVE  Enters
        <3>1. ~Admits([w EXCEPT !.todo = @ \ {r}, !.pc = "headers", !.for = "discover", !.row = r,
                                !.asked = tick])
            BY <1>1 DEF Admits, WorkerTypes
        <3>2. QED
            BY <2>3, <3>1
    <2>4. ASSUME NEW r, NEW o, Becomes(t, [w EXCEPT !.todo = @ \ {r}, !.offered = @ \cup {o}])
          PROVE  Enters
        <3>1. ~Admits([w EXCEPT !.todo = @ \ {r}, !.offered = @ \cup {o}])
            BY <1>1, <2>1 DEF Admits, WorkerTypes
        <3>2. QED
            BY <2>4, <3>1
    <2>5. Moves(t, "model") => Enters
        BY <1>3
    <2> HIDE DEF Enters
    <2>6. Enters
        BY <1>8, <2>2, <2>3, <2>4, <2>5 DEF Discover
    <2>7. QED
        BY <1>8, <2>6 DEF Enters, Discover
<1>9. CASE Converse(t)
    <2>1. \A o : ~Admits([w EXCEPT !.pc = "headers", !.for = "call", !.row = o.row, !.calls = @ + 1,
                                   !.offered = {o}])
        BY <1>1 DEF Admits, WorkerTypes
    <2>2. QED
        BY <1>2, <1>9, <2>1 DEF Converse
<1>10. CASE Headers(t)
    <2>1. /\ ~Admits([w EXCEPT !.pc = "model", !.offered = {}])
          /\ ~Admits([w EXCEPT !.secret = 0, !.token = NoToken, !.pc = "connect"])
        BY <1>1 DEF Admits, WorkerTypes
    <2>2. \A credential, c : ~Admits([[w EXCEPT !.secret = 0, !.token = NoToken, !.pc = "connect"] EXCEPT
                                     !.secret = credential, !.pc = IF c THEN "lookup" ELSE @])
        BY <1>1 DEF Admits, WorkerTypes
    <2>3. QED
        BY <1>2, <1>10, <2>1, <2>2 DEF Headers, Raises
<1>11. CASE Lookup(t)
    <2>1. /\ \A when : ~Admits([w EXCEPT !.pc = "token", !.token.got = when])
          /\ \A token : ~Admits([w EXCEPT !.pc = "connect", !.token = token])
        BY <1>1 DEF Admits, WorkerTypes
    <2>2. QED
        BY <1>11, <2>1 DEF Lookup
<1>12. CASE TokenArrives(t) \/ TokenRefused(t)
    <2>1. \A token : ~Admits([w EXCEPT !.pc = "connect", !.token = token])
        BY <1>1 DEF Admits, WorkerTypes
    <2>2. QED
        BY <1>12, <2>1 DEF TokenArrives, TokenRefused
<1>13. CASE Exchange(t)
    <2>1. /\ \A offered : ~Admits([w EXCEPT !.pc = "next", !.row = NoRow, !.secret = 0, !.token = NoToken,
                                           !.offered = offered])
          /\ ~Admits([w EXCEPT !.pc = "model", !.row = NoRow, !.secret = 0, !.token = NoToken])
        BY <1>1 DEF Admits, WorkerTypes
    <2>2. QED
        BY <1>2, <1>13, <2>1 DEF Exchange
<1>14. QED
    BY <1>4, <1>5, <1>6, <1>7, <1>8, <1>9, <1>10, <1>11, <1>12, <1>13 DEF Handles

LEMMA NextKeepsLimit ==
    ASSUME CachesInv, CachesInv', LimitInv, [IntegrationsNext]_integrationVars
    PROVE  LimitInv'
<1>1. ASSUME NEW t \in Workers, Handles(t) PROVE LimitInv'
    <2>1. CASE ~Count(t) /\ ~SaveRow(t)
        <3>1. rows' = rows /\ Creating' \subseteq Creating
            BY <1>1, <2>1, OthersEnterNot, NobodyEnters
        <3>2. QED
            BY <3>1, LimitStays
    <2>2. QED
        BY <2>1, CountKeepsLimit, SaveKeepsLimit
<1>2. ASSUME NEW t \in Workers, NEW work \in Tasks, Begins(t, work) PROVE LimitInv'
    <2>1. PICK n : Becomes(t, n) /\ ~Admits(n)
        <3>1. PICK r : Becomes(t, [Free EXCEPT !.work = work, !.row = r,
                  !.pc = CASE work.op = "turn" -> "list" [] work.op = "create" -> "count" [] OTHER -> "get"])
            BY <1>2 DEF Begins
        <3>2. ~Admits([Free EXCEPT !.work = work, !.row = r,
                  !.pc = CASE work.op = "turn" -> "list" [] work.op = "create" -> "count" [] OTHER -> "get"])
            BY DEF Admits, Free
        <3>3. QED
            BY <3>1, <3>2
    <2>2. rows' = rows /\ Creating' \subseteq Creating
        BY <1>2, <2>1, NobodyEnters DEF Begins
    <2>3. QED
        BY <2>2, LimitStays
<1>3. CASE ClockTicks \/ DatabaseFlips \/ UNCHANGED integrationVars
    <2>1. rows' = rows /\ worker' = worker
        BY <1>3 DEF ClockTicks, DatabaseFlips, integrationVars
    <2>2. Creating' = Creating
        BY <2>1 DEF Creating, Admits
    <2>3. QED
        BY <2>1, <2>2, LimitStays
<1>4. QED
    BY <1>1, <1>2, <1>3 DEF IntegrationsNext

(* No two integrations have one slug or one number, and administrators who *)
(* create at the same time, each having counted before another wrote,      *)
(* exceed the limit by less than their number.                             *)
THEOREM TableStaysOrderly == IntegrationsSpec => []TableIsOrderly
<1>1. IntegrationsInit => CachesInv /\ LimitInv
    <2> SUFFICES ASSUME IntegrationsInit PROVE CachesInv /\ LimitInv
        OBVIOUS
    <2>1. Creating = {}
        BY DEF IntegrationsInit, Creating, Admits, Free
    <2>2. Cardinality(rows) <= MaxIntegrations /\ IsFiniteSet(rows)
        BY IntegrationsAssumption DEF IntegrationsInit, Numbered
    <2>3. Cardinality(Workers) \in Nat /\ Cardinality(Workers) # 0 /\ Cardinality(Creating) = 0
        BY <2>1, IntegrationsAssumption, FS_CardinalityType, FS_EmptySet
    <2>4. Cardinality(rows) \in Nat
        BY <2>2, FS_CardinalityType
    <2>5. LimitInv
        BY <2>2, <2>3, <2>4, Limits DEF LimitInv
    <2>6. QED
        BY <2>5, InitHasCaches
<1>2. CachesInv /\ LimitInv /\ [IntegrationsNext]_integrationVars => (CachesInv /\ LimitInv)'
    BY NextKeepsCaches, NextKeepsLimit
<1>3. CachesInv /\ LimitInv => TableIsOrderly
    <2> SUFFICES ASSUME CachesInv, LimitInv PROVE TableIsOrderly
        OBVIOUS
    <2>1. Distinct(rows)
        BY DEF CachesInv, RowsOK
    <2>2. IsFiniteSet(Creating) /\ IsFiniteSet(rows)
        BY IntegrationsAssumption, FS_Subset DEF Creating, CachesInv, RowsOK
    <2>3. Cardinality(Creating) \in Nat /\ Cardinality(rows) \in Nat /\ Cardinality(Workers) \in Nat
        BY <2>2, IntegrationsAssumption, FS_CardinalityType
    <2>4. Cardinality(rows) < MaxIntegrations + Cardinality(Workers)
        BY <2>3, Limits DEF LimitInv
    <2>5. QED
        BY <2>1, <2>4 DEF TableIsOrderly
<1>4. QED
    BY <1>1, <1>2, <1>3, PTL DEF IntegrationsSpec

-----------------------------------------------------------------------------
(* The gate, for any users, files, calls, lifetime and bounds: its types,  *)
(* the freshness of its answers, and what an eviction covers.              *)
LEMMA ConstantsAreNat == Ttl \in Nat /\ MaxClock \in Nat /\ MaxChanges \in Nat
                         /\ MaxErrors \in Nat /\ MaxMisses \in Nat
  BY GateAssumption

(* The two parts of a pair are a user and a file.                          *)
LEMMA PairParts == \A p \in Pairs : p[1] \in Users /\ p[2] \in Files /\ p = <<p[1], p[2]>>
  BY DEF Pairs

-----------------------------------------------------------------------------
(* Types.                                                                  *)

LEMMA InitTypeOK == Init => TypeOK
  BY ConstantsAreNat
     DEF Init, TypeOK, CoreTypeOK, RequestTypeOK, HistoryTypeOK, Decisions, NoDecision

(* What a change of the core leaves typed besides what it changes itself.  *)
LEMMA RememberTypeOK ==
  ASSUME TypeOK, Remember, acl' \subseteq Pairs, there' \subseteq Files,
         erased' \subseteq Files, events' \in Seq(Events)
  PROVE  TypeOK'
  <1> USE DEF TypeOK, CoreTypeOK, RequestTypeOK, HistoryTypeOK, Remember, requestVars, evictionVars
  <1>1. aclLost' \in [Pairs -> Nat] /\ goneAt' \in [Files -> Nat] /\ badAt' \in [Pairs -> Nat]
    OBVIOUS
  <1>2. changes' \in Nat
    OBVIOUS
  <1> QED
    BY <1>1, <1>2

LEMMA ChangeTypeOK ==
  ASSUME TypeOK, Change
  PROVE  TypeOK'
  <1> SUFFICES /\ Remember
               /\ acl' \subseteq Pairs /\ there' \subseteq Files /\ erased' \subseteq Files
               /\ events' \in Seq(Events)
    BY RememberTypeOK
  <1> USE DEF TypeOK, CoreTypeOK
  <1>1. CASE RoleDeleted
    <2>1. [type |-> "role.deleted"] \in Events
      BY DEF Events
    <2> QED
      BY <1>1, <2>1 DEF RoleDeleted, Govern
  <1>2. CASE \E u \in Users : MemberRemoved(u)
    <2>1. PICK u \in Users : MemberRemoved(u)
      BY <1>2
    <2>2. [type |-> "role.member_removed", of |-> u] \in Events
      BY DEF Events
    <2> QED
      BY <2>1, <2>2 DEF MemberRemoved, Govern
  <1>3. CASE \E f \in Files : AclChanged(f) \/ SoftDelete(f) \/ Restore(f) \/ Erase(f)
    <2>1. PICK f \in Files : AclChanged(f) \/ SoftDelete(f) \/ Restore(f) \/ Erase(f)
      BY <1>3
    <2>2. /\ [type |-> "acl.changed", of |-> f] \in Events
          /\ [type |-> "file.deleted", of |-> f] \in Events
      BY DEF Events
    <2>3. CASE AclChanged(f)
      BY <2>2, <2>3 DEF AclChanged, Govern
    <2>4. CASE SoftDelete(f)
      BY <2>2, <2>4 DEF SoftDelete
    <2>5. CASE Restore(f) \/ Erase(f)
      BY <2>5 DEF Restore, Erase
    <2> QED
      BY <2>1, <2>3, <2>4, <2>5
  <1> QED
    BY <1>1, <1>2, <1>3 DEF Change

LEMMA CanReadTypeOK ==
  ASSUME TypeOK, NEW r \in Requests, CanRead(r)
  PROVE  TypeOK'
  <1> USE ConstantsAreNat
      DEF TypeOK, CoreTypeOK, RequestTypeOK, HistoryTypeOK, aroundVars, coreVars, historyVars,
          evictionVars
  <1>1. CASE Ask(r)
    BY <1>1 DEF Ask
  <1>2. CASE Look(r)
    BY <1>2 DEF Look, Answer, Decisions
  <1>3. CASE CheckPermission(r)
    BY <1>3 DEF CheckPermission, Decide
  <1>4. CASE EntityExists(r)
    BY <1>4 DEF EntityExists, Decide
  <1>5. CASE CoreFails(r)
    BY <1>5 DEF CoreFails, Decide
  <1>6. CASE Store(r)
    <2>1. [allowed |-> ok[r], expiry |-> began[r] + Ttl] \in Decisions
      BY DEF Decisions
    <2> QED
      BY <1>6, <2>1 DEF Store, Answer
  <1> QED
    BY <1>1, <1>2, <1>3, <1>4, <1>5, <1>6 DEF CanRead

LEMMA OtherTypeOK ==
  ASSUME TypeOK, Tick \/ Handle \/ Miss \/ Stop \/ UNCHANGED vars
  PROVE  TypeOK'
  <1> USE DEF TypeOK, CoreTypeOK, RequestTypeOK, HistoryTypeOK, coreVars, requestVars, historyVars,
             evictionVars
  <1>1. CASE Tick
    BY <1>1 DEF Tick
  <1>2. CASE Handle
    <2>1. Tail(events) \in Seq(Events)
      BY <1>2 DEF Handle
    <2>2. cache' \in [Pairs -> Decisions] /\ raced' \subseteq Pairs /\ missed' \subseteq Pairs
      BY <1>2 DEF Handle, Evicts, NoDecision, Decisions
    <2> QED
      BY <1>2, <2>1, <2>2 DEF Handle
  <1>3. CASE Stop
    BY <1>3 DEF Stop
  <1>4. CASE UNCHANGED vars
    BY <1>4 DEF vars
  <1>5. CASE Miss
    <2>1. Tail(events) \in Seq(Events)
      BY <1>5 DEF Miss
    <2>2. missed' \subseteq Pairs /\ misses' \in Nat
      BY <1>5 DEF Miss, Evicts
    <2> QED
      BY <1>5, <2>1, <2>2 DEF Miss
  <1> QED
    BY <1>1, <1>2, <1>3, <1>4, <1>5

LEMMA NextTypeOK == TypeOK /\ [Next]_vars => TypeOK'
  <1> SUFFICES ASSUME TypeOK, [Next]_vars PROVE TypeOK'
    OBVIOUS
  <1> QED
    BY ChangeTypeOK, CanReadTypeOK, OtherTypeOK DEF Next

THEOREM GateTypeCorrect == Spec => []TypeOK
  BY InitTypeOK, NextTypeOK, PTL DEF Spec

-----------------------------------------------------------------------------
(* Freshness: FreshInv is inductive.                                       *)

LEMMA InitFreshInv == Init => FreshInv
  <1> SUFFICES ASSUME Init PROVE FreshInv
    OBVIOUS
  <1> USE ConstantsAreNat DEF Init
  <1>1. TypeOK
    BY InitTypeOK
  <1>2. TimeBounds
    BY DEF TimeBounds, NoDecision
  <1>3. CacheIsFresh
    BY DEF CacheIsFresh, NoDecision
  <1>4. VerdictsAreFresh /\ AnsweredWhenDone /\ GrantsAreFresh /\ DenialsAreFresh
    BY DEF VerdictsAreFresh, AnsweredWhenDone, GrantsAreFresh, DenialsAreFresh
  <1> QED
    BY <1>1, <1>2, <1>3, <1>4 DEF FreshInv

(* A change of the core dates what it takes away at the present, and what  *)
(* it does not take away keeps its date.                                   *)
LEMMA ChangeFreshInv ==
  ASSUME FreshInv, Change
  PROVE  FreshInv'
  <1> USE ConstantsAreNat
  <1>1. Remember
    BY DEF Change, RoleDeleted, MemberRemoved, AclChanged, Govern, SoftDelete, Restore, Erase
  <1>2. TypeOK /\ TypeOK'
    BY ChangeTypeOK DEF FreshInv
  <1>3. UNCHANGED <<clock, cache, at, pair, began, ok, answer>>
    BY <1>1 DEF Remember, requestVars
  <1>4. ASSUME NEW p \in Pairs
        PROVE  /\ p \in acl' \/ (p \notin acl /\ aclLost'[p] = aclLost[p]) \/ aclLost'[p] = clock
               /\ \/ p[2] \in there'
                  \/ p[2] \notin there /\ goneAt'[p[2]] = goneAt[p[2]]
                  \/ goneAt'[p[2]] = clock
               /\ \/ ~(p \in acl' /\ p[2] \in there')
                  \/ Readable(p) /\ badAt'[p] = badAt[p]
                  \/ badAt'[p] = clock
    BY <1>1, PairParts DEF Remember, Readable
  <1>5. clock \in Nat /\ cache \in [Pairs -> Decisions] /\ began \in [Requests -> Nat]
        /\ pair \in [Requests -> Pairs]
    BY <1>2 DEF TypeOK, CoreTypeOK, RequestTypeOK
  <1>6. \A p \in Pairs : cache[p].expiry \in Nat
    BY <1>5 DEF Decisions
  <1>7. TimeBounds /\ TimeBounds'
    BY <1>3 DEF FreshInv, TimeBounds
  <1>8. CacheIsFresh'
    BY <1>3, <1>4, <1>5, <1>6, <1>7 DEF FreshInv, CacheIsFresh, TimeBounds, Readable
  <1>9. VerdictsAreFresh'
    BY <1>3, <1>4, <1>5, <1>7
       DEF FreshInv, VerdictsAreFresh, GrantShows, DenialShows, TimeBounds, Readable
  <1>10. GrantsAreFresh' /\ DenialsAreFresh'
    BY <1>3, <1>4, <1>5, <1>7
       DEF FreshInv, GrantsAreFresh, DenialsAreFresh, StillShows, TimeBounds, Readable
  <1>11. AnsweredWhenDone'
    BY <1>3 DEF FreshInv, AnsweredWhenDone
  <1> QED
    BY <1>2, <1>7, <1>8, <1>9, <1>10, <1>11 DEF FreshInv

(* A call: what it looks up is fresh, what it asks is true now, and what   *)
(* it stores lives from the moment it asked.                               *)
LEMMA CanReadFreshInv ==
  ASSUME FreshInv, NEW r \in Requests, CanRead(r)
  PROVE  FreshInv'
  <1> USE ConstantsAreNat
  <1>1. TypeOK /\ TypeOK'
    BY CanReadTypeOK DEF FreshInv
  <1>2. UNCHANGED <<acl, there, clock, pair>>
    BY DEF CanRead, Ask, Look, CheckPermission, EntityExists, CoreFails, Store, Answer,
           Decide, aroundVars, coreVars
  <1>3. /\ clock \in Nat /\ cache \in [Pairs -> Decisions] /\ began \in [Requests -> Nat]
        /\ pair \in [Requests -> Pairs] /\ ok \in [Requests -> BOOLEAN]
        /\ at \in [Requests -> {"idle", "look", "check", "exists", "store", "done"}]
        /\ answer \in [Requests -> {"none", "yes", "no"}]
        /\ aclLost \in [Pairs -> Nat] /\ goneAt \in [Files -> Nat] /\ badAt \in [Pairs -> Nat]
    BY <1>1 DEF TypeOK, CoreTypeOK, RequestTypeOK, HistoryTypeOK
  <1>4. \A p \in Pairs : cache[p].expiry \in Nat /\ cache[p].allowed \in BOOLEAN
    BY <1>3 DEF Decisions
  <1>5. TimeBounds /\ CacheIsFresh /\ VerdictsAreFresh /\ AnsweredWhenDone
        /\ GrantsAreFresh /\ DenialsAreFresh
    BY DEF FreshInv
  <1> USE DEF TimeBounds, CacheIsFresh, VerdictsAreFresh, AnsweredWhenDone,
              GrantsAreFresh, DenialsAreFresh, GrantShows, DenialShows, StillShows,
              Readable, historyVars
  <1>6. CASE Ask(r)
    BY <1>1, <1>2, <1>3, <1>5, <1>6 DEF Ask, FreshInv
  <1>7. CASE Look(r)
    <2>1. pair[r] \in Pairs /\ pair' = pair /\ began' = began
      BY <1>2, <1>3, <1>7 DEF Look, Answer
    <2>2. UNCHANGED <<cache, aclLost, goneAt, badAt>>
      BY <1>7 DEF Look
    <2>3. TimeBounds' /\ CacheIsFresh'
      BY <1>2, <1>5, <2>1, <2>2
    <2>4. VerdictsAreFresh' /\ AnsweredWhenDone'
      BY <1>2, <1>3, <1>5, <1>7, <2>1, <2>2 DEF Look, Answer
    <2>5. \A q \in Requests \ {r} : answer'[q] = answer[q]
      BY <1>3, <1>7 DEF Look, Answer
    <2>6. answer'[r] # "none" =>
            /\ cache[pair[r]].expiry > began[r]
            /\ answer'[r] = IF cache[pair[r]].allowed THEN "yes" ELSE "no"
      BY <1>3, <1>5, <1>7 DEF Look, Answer
    <2>7. GrantsAreFresh'
      BY <1>2, <1>3, <1>4, <1>5, <2>1, <2>2, <2>5, <2>6, PairParts
    <2>8. DenialsAreFresh'
      BY <1>2, <1>3, <1>4, <1>5, <2>1, <2>2, <2>5, <2>6, PairParts
    <2> QED
      BY <1>1, <2>3, <2>4, <2>7, <2>8 DEF FreshInv
  <1>8. CASE CheckPermission(r)
    BY <1>1, <1>2, <1>3, <1>5, <1>8 DEF CheckPermission, Decide, FreshInv
  <1>9. CASE EntityExists(r)
    BY <1>1, <1>2, <1>3, <1>5, <1>9 DEF EntityExists, Decide, FreshInv
  <1>10. CASE CoreFails(r)
    BY <1>1, <1>2, <1>3, <1>4, <1>5, <1>10 DEF CoreFails, Decide, FreshInv
  <1>11. CASE Store(r)
    <2>1. cache' = [cache EXCEPT ![pair[r]] = [allowed |-> ok[r], expiry |-> began[r] + Ttl]]
      BY <1>11 DEF Store
    <2>2. /\ pair[r] \in Pairs
          /\ cache'[pair[r]].allowed = ok[r] /\ cache'[pair[r]].expiry = began[r] + Ttl
          /\ \A p \in Pairs \ {pair[r]} : cache'[p] = cache[p]
          /\ UNCHANGED <<began, aclLost, goneAt, badAt>>
          /\ at[r] = "store"
      BY <1>3, <1>11, <2>1 DEF Store, Answer
    <2>4. TimeBounds'
      BY <1>2, <1>3, <1>5, <2>2
    <2>5. CacheIsFresh'
      BY <1>2, <1>3, <1>4, <1>5, <2>2, PairParts
    <2>3. VerdictsAreFresh' /\ AnsweredWhenDone' /\ GrantsAreFresh' /\ DenialsAreFresh'
      BY <1>2, <1>3, <1>5, <1>11 DEF Store, Answer
    <2> QED
      BY <1>1, <2>3, <2>4, <2>5 DEF FreshInv
  <1> QED
    BY <1>6, <1>7, <1>8, <1>9, <1>10, <1>11 DEF CanRead

LEMMA OtherFreshInv ==
  ASSUME FreshInv, Tick \/ Handle \/ Miss \/ Stop \/ UNCHANGED vars
  PROVE  FreshInv'
  <1> USE ConstantsAreNat
  <1>1. TypeOK /\ TypeOK'
    BY OtherTypeOK DEF FreshInv
  <1>2. UNCHANGED <<acl, there, requestVars, historyVars>>
    BY DEF Tick, Handle, Miss, Stop, vars, coreVars
  <1>3. clock \in Nat /\ began \in [Requests -> Nat] /\ badAt \in [Pairs -> Nat]
        /\ cache \in [Pairs -> Decisions]
    BY <1>1 DEF TypeOK, CoreTypeOK, RequestTypeOK, HistoryTypeOK
  <1>4. \A p \in Pairs : cache[p].expiry \in Nat
    BY <1>3 DEF Decisions
  <1>5. clock' = clock \/ clock' = clock + 1
    BY DEF Tick, Handle, Miss, Stop, vars, coreVars
  <1>6. \A p \in Pairs : cache'[p] = cache[p] \/ cache'[p] = NoDecision
    BY DEF Tick, Handle, Miss, Stop, vars
  <1>7. TimeBounds'
    BY <1>2, <1>3, <1>4, <1>5, <1>6 DEF FreshInv, TimeBounds, NoDecision, requestVars
  <1>8. CacheIsFresh'
    BY <1>2, <1>3, <1>6 DEF FreshInv, CacheIsFresh, NoDecision, Readable, historyVars
  <1>9. VerdictsAreFresh' /\ AnsweredWhenDone' /\ GrantsAreFresh' /\ DenialsAreFresh'
    BY <1>2 DEF FreshInv, VerdictsAreFresh, AnsweredWhenDone, GrantsAreFresh, DenialsAreFresh,
                GrantShows, DenialShows, StillShows, Readable, requestVars, historyVars
  <1> QED
    BY <1>1, <1>7, <1>8, <1>9 DEF FreshInv

LEMMA NextFreshInv == FreshInv /\ [Next]_vars => FreshInv'
  BY ChangeFreshInv, CanReadFreshInv, OtherFreshInv DEF Next

THEOREM GateFreshness == Spec => []FreshInv
  BY InitFreshInv, NextFreshInv, PTL DEF Spec

(* No answer "yes" rests on a permission or a file that was gone for       *)
(* longer than Ttl when the question was asked.                            *)
THEOREM GrantFreshness == Spec => []GrantsAreFresh
  BY GateFreshness, PTL DEF FreshInv

(* No answer "no" rests on a refusal or an error that old.                 *)
THEOREM DenialFreshness == Spec => []DenialsAreFresh
  BY GateFreshness, PTL DEF FreshInv

-----------------------------------------------------------------------------
(* Eviction: CoverInv is inductive on top of FreshInv.                     *)

(* An event appended covers its pairs and uncovers none.                   *)
LEMMA AppendEvicts ==
  ASSUME TypeOK, NEW e, events' = Append(events, e), raced' = raced,
         missed' = missed, NEW p,
         Evicted(p) \/ p \in Evicts(e)
  PROVE  Evicted(p)'
  <1>1. events \in Seq(Events)
    BY DEF TypeOK, CoreTypeOK
  <1>2. CASE p \in raced \cup missed
    BY <1>2 DEF Evicted
  <1>3. CASE \E i \in DOMAIN events : p \in Evicts(events[i])
    <2>1. PICK i \in DOMAIN events : p \in Evicts(events[i])
      BY <1>3
    <2>2. i \in DOMAIN events' /\ events'[i] = events[i]
      BY <1>1
    <2>3. p \in Evicts(events'[i])
      BY <2>1, <2>2
    <2> QED
      BY <2>2, <2>3 DEF Evicted, Evicts
  <1>4. CASE p \in Evicts(e)
    <2>1. Len(events) + 1 \in DOMAIN events' /\ events'[Len(events) + 1] = e
      BY <1>1
    <2> QED
      BY <1>4, <2>1 DEF Evicted, Evicts
  <1> QED
    BY <1>2, <1>3, <1>4 DEF Evicted

(* Handling or missing the oldest event uncovers only pairs it evicts.     *)
LEMMA HandleEvicts ==
  ASSUME TypeOK, Handle \/ Miss, NEW p \in Pairs, Evicted(p)
  PROVE  Evicted(p)' \/ p \in Evicts(Head(events))
  <1>1. events \in Seq(Events) /\ events # <<>>
    BY DEF TypeOK, CoreTypeOK, Handle, Miss
  <1>2. CASE p \in raced \cup missed
    BY <1>2 DEF Evicted, Handle, Miss
  <1>3. CASE \E i \in DOMAIN events : p \in Evicts(events[i])
    <2>1. PICK i \in DOMAIN events : p \in Evicts(events[i])
      BY <1>3
    <2>2. CASE i = 1
      BY <1>1, <2>1, <2>2
    <2>3. CASE i # 1
      <3>1. i - 1 \in DOMAIN events' /\ events'[i - 1] = events[i]
        BY <1>1, <2>3 DEF Handle, Miss
      <3> QED
        BY <2>1, <3>1 DEF Evicted, Evicts
    <2> QED
      BY <2>2, <2>3
  <1> QED
    BY <1>2, <1>3 DEF Evicted

LEMMA InitCoverInv == Init => CoverInv
  BY InitFreshInv
     DEF Init, CoverInv, CacheIsCovered, VerdictsAreCovered, NoDecision

(* A change publishes what takes its effect back from the cache, except    *)
(* for an erasure, which the invariant leaves out.                         *)
LEMMA ChangeCoverInv ==
  ASSUME CoverInv, Change
  PROVE  CoverInv'
  <1>1. TypeOK /\ FreshInv'
    BY ChangeFreshInv DEF CoverInv, FreshInv
  <1>2. Remember
    BY DEF Change, RoleDeleted, MemberRemoved, AclChanged, Govern, SoftDelete, Restore, Erase
  <1>3. UNCHANGED <<cache, at, pair, ok, raced, missed>>
    BY <1>2 DEF Remember, requestVars, evictionVars
  <1>4. pair \in [Requests -> Pairs]
    BY <1>1 DEF TypeOK, RequestTypeOK
  <1>5. ASSUME NEW p \in Pairs
        PROVE  /\ p \in acl => p \in acl' \/ Evicted(p)'
               /\ p[2] \in there => p[2] \in there' \cup erased' \/ Evicted(p)'
               /\ Evicted(p) => Evicted(p)'
               /\ erased \subseteq erased'
    <2>1. CASE RoleDeleted
      BY <1>1, <1>3, <2>1, AppendEvicts DEF RoleDeleted, Govern, Evicts
    <2>2. CASE \E u \in Users : MemberRemoved(u)
      <3>1. PICK u \in Users : MemberRemoved(u)
        BY <2>2
      <3> DEFINE e == [type |-> "role.member_removed", of |-> u]
      <3>2. p \in Evicts(e) \/ p \notin {u} \X Files
        BY PairParts DEF Evicts
      <3>3. events' = Append(events, e)
        BY <3>1 DEF MemberRemoved, Govern
      <3>4. Evicted(p) \/ p \in Evicts(e) => Evicted(p)'
        BY <1>1, <1>3, <3>3, AppendEvicts
      <3> QED
        BY <3>1, <3>2, <3>4 DEF MemberRemoved, Govern
    <2>3. CASE \E f \in Files : AclChanged(f)
      <3>1. PICK f \in Files : AclChanged(f)
        BY <2>3
      <3> DEFINE e == [type |-> "acl.changed", of |-> f]
      <3>2. p \in Evicts(e) \/ p \notin Users \X {f}
        BY PairParts DEF Evicts
      <3>3. events' = Append(events, e)
        BY <3>1 DEF AclChanged, Govern
      <3>4. Evicted(p) \/ p \in Evicts(e) => Evicted(p)'
        BY <1>1, <1>3, <3>3, AppendEvicts
      <3> QED
        BY <3>1, <3>2, <3>4 DEF AclChanged, Govern
    <2>4. CASE \E f \in Files : SoftDelete(f)
      <3>1. PICK f \in Files : SoftDelete(f)
        BY <2>4
      <3> DEFINE e == [type |-> "file.deleted", of |-> f]
      <3>2. p \in Evicts(e) \/ p[2] # f
        BY DEF Evicts
      <3>3. events' = Append(events, e)
        BY <3>1 DEF SoftDelete
      <3>4. Evicted(p) \/ p \in Evicts(e) => Evicted(p)'
        BY <1>1, <1>3, <3>3, AppendEvicts
      <3> QED
        BY <3>1, <3>2, <3>4 DEF SoftDelete
    <2>5. CASE \E f \in Files : Restore(f) \/ Erase(f)
      BY <1>3, <2>5 DEF Restore, Erase, Evicted
    <2> QED
      BY <2>1, <2>2, <2>3, <2>4, <2>5 DEF Change
  <1>6. CacheIsCovered'
    BY <1>3, <1>5, PairParts DEF CoverInv, CacheIsCovered, Readable
  <1>7. VerdictsAreCovered'
    BY <1>3, <1>4, <1>5, PairParts DEF CoverInv, VerdictsAreCovered, Readable
  <1> QED
    BY <1>1, <1>6, <1>7 DEF CoverInv

LEMMA CanReadCoverInv ==
  ASSUME CoverInv, NEW r \in Requests, CanRead(r)
  PROVE  CoverInv'
  <1>1. TypeOK /\ FreshInv'
    BY CanReadFreshInv DEF CoverInv, FreshInv
  <1>2. UNCHANGED <<acl, there, erased, events, raced, missed, pair>>
    BY DEF CanRead, Ask, Look, CheckPermission, EntityExists, CoreFails, Store, Answer,
           Decide, aroundVars, coreVars, evictionVars
  <1>3. \A p : Evicted(p)' <=> Evicted(p)
    BY <1>2 DEF Evicted, Evicts
  <1>4. /\ cache \in [Pairs -> Decisions] /\ pair \in [Requests -> Pairs]
        /\ at \in [Requests -> {"idle", "look", "check", "exists", "store", "done"}]
        /\ ok \in [Requests -> BOOLEAN]
    BY <1>1 DEF TypeOK, RequestTypeOK
  <1>5. CacheIsCovered /\ VerdictsAreCovered
    BY DEF CoverInv
  <1> USE DEF CacheIsCovered, VerdictsAreCovered, Readable
  <1>6. CASE Ask(r) \/ Look(r)
    BY <1>1, <1>2, <1>3, <1>4, <1>5, <1>6 DEF Ask, Look, Answer, CoverInv
  <1>7. CASE CheckPermission(r)
    BY <1>1, <1>2, <1>3, <1>4, <1>5, <1>7 DEF CheckPermission, Decide, CoverInv
  <1>8. CASE EntityExists(r)
    BY <1>1, <1>2, <1>3, <1>4, <1>5, <1>8 DEF EntityExists, Decide, CoverInv
  <1>9. CASE CoreFails(r)
    BY <1>1, <1>2, <1>3, <1>4, <1>5, <1>9 DEF CoreFails, Decide, CoverInv
  <1>10. CASE Store(r)
    <2>1. /\ pair[r] \in Pairs /\ at[r] = "store"
          /\ cache'[pair[r]].allowed = ok[r]
          /\ \A p \in Pairs \ {pair[r]} : cache'[p] = cache[p]
      BY <1>4, <1>10 DEF Store
    <2>2. CacheIsCovered'
      BY <1>2, <1>3, <1>5, <2>1
    <2>3. VerdictsAreCovered'
      BY <1>2, <1>3, <1>4, <1>5, <1>10 DEF Store, Answer
    <2> QED
      BY <1>1, <2>2, <2>3 DEF CoverInv
  <1> QED
    BY <1>6, <1>7, <1>8, <1>9, <1>10 DEF CanRead

(* An eviction empties what it covers, and marks the verdicts it overtook. *)
LEMMA OtherCoverInv ==
  ASSUME CoverInv, Tick \/ Handle \/ Miss \/ Stop \/ UNCHANGED vars
  PROVE  CoverInv'
  <1>1. TypeOK /\ FreshInv /\ FreshInv'
    BY OtherFreshInv DEF CoverInv, FreshInv
  <1>2. pair \in [Requests -> Pairs]
    BY <1>1 DEF TypeOK, RequestTypeOK
  <1>3. CASE Handle
    <2> DEFINE out == Evicts(Head(events))
    <2>1. UNCHANGED <<acl, there, erased, at, pair, ok>>
      BY <1>3 DEF Handle, requestVars
    <2>2. \A p \in Pairs \ out : cache'[p] = cache[p] /\ (Evicted(p) => Evicted(p)')
      BY <1>1, <1>3, HandleEvicts DEF Handle
    <2>3. \A p \in Pairs \cap out : ~cache'[p].allowed
      BY <1>3 DEF Handle, NoDecision
    <2>4. ASSUME NEW r \in Requests, pair[r] \in out,
                 at[r] \in {"exists", "store"}, ok[r]
          PROVE  Evicted(pair[r])'
      <3>1. InFlight(pair[r])
        BY <2>4 DEF InFlight
      <3>2. raced' = (raced \ out) \cup {p \in out : InFlight(p)}
        BY <1>3 DEF Handle
      <3>3. pair[r] \in raced'
        BY <2>4, <3>1, <3>2
      <3> QED
        BY <2>1, <3>3 DEF Evicted
    <2>5. CacheIsCovered'
      BY <2>1, <2>2, <2>3 DEF CoverInv, CacheIsCovered, Readable
    <2>6. VerdictsAreCovered'
      BY <1>1, <1>2, <2>1, <2>2, <2>4
         DEF CoverInv, FreshInv, VerdictsAreCovered, VerdictsAreFresh, Readable
    <2> QED
      BY <1>1, <2>5, <2>6 DEF CoverInv
  <1>4. CASE Tick \/ Stop \/ UNCHANGED vars
    BY <1>1, <1>4
       DEF CoverInv, CacheIsCovered, VerdictsAreCovered, Readable, Evicted, Evicts,
           Tick, Stop, vars, coreVars, requestVars, evictionVars
  <1>5. CASE Miss
    <2> DEFINE out == Evicts(Head(events))
    <2>1. /\ UNCHANGED <<acl, there, erased, at, pair, ok, cache>>
          /\ missed' = missed \cup {p \in out : cache[p].allowed \/ InFlight(p)}
      BY <1>5 DEF Miss, requestVars
    <2>2. \A p \in Pairs \ out : Evicted(p) => Evicted(p)'
      BY <1>1, <1>5, HandleEvicts
    <2>3. \A p \in out : cache[p].allowed \/ InFlight(p) => Evicted(p)'
      BY <2>1 DEF Evicted
    <2>4. ASSUME NEW r \in Requests, pair[r] \in out,
                 at[r] \in {"exists", "store"}, ok[r]
          PROVE  Evicted(pair[r])'
      <3>1. InFlight(pair[r])
        BY <2>4 DEF InFlight
      <3>2. pair[r] \in missed'
        BY <2>1, <2>4, <3>1
      <3> QED
        BY <2>1, <3>2 DEF Evicted
    <2>5. CacheIsCovered'
      BY <2>1, <2>2, <2>3 DEF CoverInv, CacheIsCovered, Readable
    <2>7. VerdictsAreCovered'
      BY <1>1, <1>2, <2>1, <2>2, <2>4
         DEF CoverInv, FreshInv, VerdictsAreCovered, VerdictsAreFresh, Readable
    <2> QED
      BY <1>1, <2>5, <2>7 DEF CoverInv
  <1> QED
    BY <1>3, <1>4, <1>5

LEMMA NextCoverInv == CoverInv /\ [Next]_vars => CoverInv'
  BY ChangeCoverInv, CanReadCoverInv, OtherCoverInv DEF Next

(* While the invalidator lives, every cached permission of a file that was *)
(* not erased is a real one, has an eviction waiting, or was overtaken by  *)
(* its own eviction or held when that was missed.                          *)
THEOREM EvictionIsComplete == Spec => []EvictionCoversLoss
  <1>1. CoverInv => EvictionCoversLoss
    BY DEF CoverInv, CacheIsCovered, EvictionCoversLoss
  <1> QED
    BY <1>1, InitCoverInv, NextCoverInv, PTL DEF Spec
=============================================================================
