------------------------------- MODULE Failover -------------------------------
(***************************************************************************)
(* What the service does while its primary server is out of reach.  The    *)
(* database and the directory each have a primary, a read-only replica and *)
(* a circuit breaker of the process; the module models one of the two,     *)
(* with the operations it serves.  A connection for a tenant also makes    *)
(* the tenant's tables, once per process.  Time is kept in relative form:  *)
(* what is left of the cooldown, and how long ago the primary was down.    *)
(***************************************************************************)
EXTENDS Naturals, FiniteSets

CONSTANTS
    Clients,    \* threads of the process
    Schemas,    \* the tenants
    Cooldown,   \* CSAI_FAILOVER_COOLDOWN_S
    Timeout     \* the longest a connection attempt may hang

Nobody == "nobody"

ASSUME FailoverAssumption ==
    /\ Cooldown \in Nat \ {0} /\ Timeout \in Nat
    /\ Nobody \notin Clients

VARIABLES
    server,    \* "database" or "directory" (fixed)
    primary,   \* the primary is reachable
    replica,   \* the replica is (fixed)
    cooling,   \* CircuitBreaker._down_until, as the time left until then
    quiet,     \* how long ago the primary was last down (history)
    task,      \* what each thread does
    memo,      \* _provisioned
    lock,      \* who has _provision_lock
    tables,    \* the tenants whose tables exist
    made       \* how often this process made a tenant's tables (history)

failoverVars == <<server, primary, replica, cooling, quiet, task, memo, lock, tables, made>>

Old == Cooldown + Timeout + 1   \* the clock of `quiet` stops here
Unasked == [pc |-> "rest", op |-> "read", tenant |-> Nobody, right |-> TRUE, waited |-> 0,
          on |-> Nobody, answer |-> Nobody, quiet |-> 0]

FailoverInit ==
    /\ server \in {"database", "directory"}
    /\ primary = TRUE /\ replica \in BOOLEAN /\ cooling = 0 /\ quiet = Old
    /\ task = [t \in Clients |-> Unasked]
    /\ memo = {} /\ lock = Nobody /\ tables \in SUBSET Schemas /\ made = [s \in Schemas |-> 0]

Busy == {t \in Clients : task[t].pc = "connect"}

TimePasses ==
    /\ \A t \in Busy : task[t].waited < Timeout
    /\ cooling > 0 \/ quiet < Old \/ Busy # {}
    /\ cooling' = IF cooling = 0 THEN 0 ELSE cooling - 1
    /\ quiet' = IF primary /\ quiet < Old THEN quiet + 1 ELSE quiet
    /\ task' = [t \in Clients |-> IF t \in Busy THEN [task[t] EXCEPT !.waited = @ + 1] ELSE task[t]]
    /\ UNCHANGED <<server, primary, replica, memo, lock, tables, made>>

PrimaryFlips ==
    /\ primary' = ~primary /\ quiet' = 0
    /\ UNCHANGED <<server, replica, cooling, task, memo, lock, tables, made>>

-----------------------------------------------------------------------------
Goes(t, pc) == task' = [task EXCEPT ![t].pc = pc]
Ends(t, answer) ==
    task' = [task EXCEPT ![t] = [@ EXCEPT !.pc = "rest", !.answer = answer, !.waited = 0,
                                 !.quiet = IF answer = "degraded" THEN quiet ELSE task[t].quiet]]
ToReplica(t) ==
    task' = [task EXCEPT ![t] = [@ EXCEPT !.pc = "fall back", !.on = "replica",
                                               !.waited = 0, !.quiet = quiet]]

(* The three things a breaker is told and asked.                           *)
ShouldTryPrimary == cooling = 0
Trip == cooling' = Cooldown
Reset == cooling' = 0

Begin(t, op, tenant, right) ==
    /\ task[t].pc = "rest"
    /\ op = "bind" <=> server = "directory"
    /\ op # "bind" => right
    /\ task' = [task EXCEPT ![t] = [Unasked EXCEPT !.pc = "route", !.op = op, !.tenant = tenant, !.right = right]]
    /\ UNCHANGED <<server, primary, replica, cooling, quiet, memo, lock, tables, made>>

(* While the breaker cools down a write is refused without an attempt, and *)
(* everything else goes to the replica.                                    *)
RefusedTrips(t) == Ends(t, "degraded") /\ Trip   \* mutant: and counts as a failure
Refused(t) == Ends(t, "degraded") /\ UNCHANGED cooling

Route(t) ==
    /\ task[t].pc = "route"
    /\ IF ShouldTryPrimary
       THEN task' = [task EXCEPT ![t] = [@ EXCEPT !.pc = "connect", !.on = "primary"]] /\ UNCHANGED cooling
       ELSE IF task[t].op = "write" THEN Refused(t) ELSE ToReplica(t) /\ UNCHANGED cooling
    /\ UNCHANGED <<server, primary, replica, quiet, memo, lock, tables, made>>

(* A connection of the database closes the breaker; a bind does so when    *)
(* the whole of it is over.                                                *)
Connect(t) ==
    /\ task[t].pc = "connect" /\ primary
    /\ task' = [task EXCEPT ![t] = [@ EXCEPT !.pc = "open", !.waited = 0]]
    /\ IF server = "database" THEN Reset ELSE UNCHANGED cooling
    /\ UNCHANGED <<server, primary, replica, quiet, memo, lock, tables, made>>

(* An attempt fails if the primary was down at some time since it began.   *)
ConnectFails(t) ==
    /\ task[t].pc = "connect" /\ (~primary \/ quiet <= task[t].waited)
    /\ Trip
    /\ IF task[t].op = "write" THEN Ends(t, "degraded") ELSE ToReplica(t)
    /\ UNCHANGED <<server, primary, replica, quiet, memo, lock, tables, made>>

FallBack(t) ==
    /\ task[t].pc = "fall back"
    /\ IF replica THEN Goes(t, "open") ELSE Ends(t, IF server = "directory" THEN "refused" ELSE "error")
    /\ UNCHANGED <<server, primary, replica, cooling, quiet, memo, lock, tables, made>>

Alive(t) == IF task[t].on = "primary" THEN primary ELSE replica

(* A connection to read makes no tables; it finds them or not.  One to     *)
(* write makes them, unless this process has.                              *)
Read(t) ==
    /\ task[t].pc = "open" /\ task[t].op = "read"
    /\ Ends(t, IF ~Alive(t) THEN "error" ELSE IF task[t].tenant \in tables THEN "served" ELSE "no tables")
    /\ UNCHANGED <<server, primary, replica, cooling, quiet, memo, lock, tables, made>>

Write(t) ==
    /\ task[t].pc = "open" /\ task[t].op = "write"
    /\ IF task[t].tenant \notin memo THEN Goes(t, "lock")
       ELSE Ends(t, IF ~Alive(t) THEN "error" ELSE IF task[t].tenant \in tables THEN "served" ELSE "no tables")
    /\ UNCHANGED <<server, primary, replica, cooling, quiet, memo, lock, tables, made>>

(* The memo is looked at again under the lock.                             *)
MakeIfMissing(t) ==
    IF task[t].tenant \in memo THEN Goes(t, "open") /\ UNCHANGED lock
    ELSE lock' = t /\ Goes(t, "make")

Lock(t) ==
    /\ task[t].pc = "lock" /\ lock = Nobody /\ MakeIfMissing(t)
    /\ UNCHANGED <<server, primary, replica, cooling, quiet, memo, tables, made>>

(* The tenant is remembered after its tables were made, so that a failure  *)
(* leaves it to the next connection.                                       *)
MemoAnyway(t) == memo' = memo \cup {task[t].tenant}   \* mutant: it is remembered in any case
Memo(t) == memo' = IF primary THEN memo \cup {task[t].tenant} ELSE memo

Make(t) ==
    /\ task[t].pc = "make" /\ lock' = Nobody /\ Memo(t)
    /\ IF primary
       THEN /\ tables' = tables \cup {task[t].tenant} /\ made' = [made EXCEPT ![task[t].tenant] = @ + 1]
            /\ Goes(t, "open")
       ELSE Ends(t, "error") /\ UNCHANGED <<tables, made>>
    /\ UNCHANGED <<server, primary, replica, cooling, quiet>>

(* The user's own bind: whatever goes wrong with it is a wrong password.   *)
(* Then the groups: a search that fails finds none.  Either result is one  *)
(* of the primary's, and closes the breaker.                               *)
Settled(t) == IF task[t].on = "primary" THEN Reset ELSE UNCHANGED cooling

UserBind(t) ==
    /\ task[t].pc = "open" /\ task[t].op = "bind"
    /\ IF Alive(t) /\ task[t].right THEN Goes(t, "groups") /\ UNCHANGED cooling
       ELSE Ends(t, "refused") /\ Settled(t)
    /\ UNCHANGED <<server, primary, replica, quiet, memo, lock, tables, made>>

RolesOf(t) ==
    /\ task[t].pc = "groups" /\ Settled(t)
    /\ Ends(t, IF Alive(t) THEN "served" ELSE "refused")
    /\ UNCHANGED <<server, primary, replica, quiet, memo, lock, tables, made>>

Step(t) ==
    \/ Route(t) \/ Connect(t) \/ ConnectFails(t) \/ FallBack(t) \/ Read(t) \/ Write(t)
    \/ Lock(t) \/ Make(t) \/ UserBind(t) \/ RolesOf(t)

FailoverNext ==
    \/ TimePasses \/ PrimaryFlips
    \/ \E t \in Clients :
          \/ Step(t)
          \/ \E op \in {"read", "write", "bind"}, tenant \in Schemas, right \in BOOLEAN :
                Begin(t, op, tenant, right)

FailoverSpec == FailoverInit /\ [][FailoverNext]_failoverVars

-----------------------------------------------------------------------------
(* Normal operation talks to the primary only: whoever is told that the    *)
(* service is degraded, or is sent to the replica, comes within a cooldown *)
(* (and an attempt that hung) of a moment the primary was down.            *)
FallsBackRecently ==
    \A t \in Clients :
        task[t].answer = "degraded" \/ task[t].on = "replica" => task[t].quiet <= Cooldown + Timeout

(* The process makes the tables of a tenant once, and one tenant's at a    *)
(* time, however many threads find them missing together.                  *)
MadeOnce ==
    /\ \A s \in Schemas : made[s] <= 1
    /\ Cardinality({t \in Clients : task[t].pc = "make"}) <= 1

(* A write never meets missing tables, failed attempts to make them        *)
(* included.                                                               *)
WritesFindTables == \A t \in Clients : task[t].op = "write" => task[t].answer # "no tables"

(* The two together: the memo of the tenants whose tables are made neither *)
(* forgets one nor runs ahead of one.                                      *)
TablesAreMade == MadeOnce /\ WritesFindTables

(* "reads never hit a missing table on a tenant that hasn't been ingested  *)
(* yet" (violated: a connection to read makes none).                       *)
ReadsFindTables == \A t \in Clients : task[t].answer # "no tables"

(* "an unreachable master fails over to the replica" (violated when it is  *)
(* lost between the service's bind and the user's).                        *)
RightPasswordIsTaken ==
    \A t \in Clients : task[t].answer = "refused" /\ task[t].right => task[t].on = "replica"
=============================================================================
