------------------------------ MODULE UsageMeter ------------------------------
(***************************************************************************)
(* What ONE subject (an API key or a user) may run and spend: the Redis    *)
(* counters of headless/usage.py as the runs of all csai instances use     *)
(* them.  The concurrency counter is one key with a time to live, the      *)
(* day's tokens another; each Redis call is a step.  A run asks the model  *)
(* file by file and counts what a file cost when the file is done          *)
(* (headless/extract.py).                                                  *)
(***************************************************************************)
EXTENDS Integers, FiniteSets

CONSTANTS
    Runs,           \* runs that may be in progress at once, over all instances
    Limit,          \* concurrent_runs
    TokenLimit,     \* tokens_per_day
    MaxCost,        \* bound: what the windows of one file cost
    KeyExpires,     \* do runs last until the counter's key expires?
    MaxDays,        \* bound: days that pass
    MaxLost,        \* bound: killed runs, and decrements that fail
    MaxFailed       \* bound: failed calls of the model

ASSUME MeterAssumption ==
    /\ IsFiniteSet(Runs)
    /\ Limit \in Nat \ {0} /\ TokenLimit \in Nat \ {0} /\ MaxCost \in Nat
    /\ KeyExpires \in BOOLEAN
    /\ MaxDays \in Nat /\ MaxLost \in Nat /\ MaxFailed \in Nat

VARIABLES
    slots,      \* the counter "runs" ...
    exists,     \* ... does its key exist, and
    expiring,   \* does it have a time to live?
    counted,    \* the counter of the day's tokens
    pc,         \* "idle", "over" (refused), "held" or "asking"
    cost,       \* what the windows of the file in hand have cost
    spent,      \* history: tokens the day really cost, of finished files
    expired,    \* history: did the counter's key ever expire?
    days, lost, failed      \* how much of each bound is used

slotVars == <<slots, exists, expiring>>
boundVars == <<days, lost, failed>>
vars == <<slotVars, counted, pc, cost, spent, expired, boundVars>>

Holding == {r \in Runs : pc[r] \in {"held", "asking"}}
Occupying == {r \in Runs : pc[r] # "idle"}

TypeOK ==
    /\ slots \in Int /\ exists \in BOOLEAN /\ expiring \in BOOLEAN
    /\ counted \in Nat /\ spent \in Nat
    /\ pc \in [Runs -> {"idle", "over", "held", "asking"}]
    /\ cost \in [Runs -> 0..MaxCost]
    /\ expired \in BOOLEAN
    /\ days \in 0..MaxDays /\ lost \in 0..MaxLost /\ failed \in 0..MaxFailed

Init ==
    /\ slots = 0 /\ exists = FALSE /\ expiring = FALSE
    /\ counted = 0 /\ spent = 0
    /\ pc = [r \in Runs |-> "idle"]
    /\ cost = [r \in Runs |-> 0]
    /\ expired = FALSE
    /\ days = 0 /\ lost = 0 /\ failed = 0

Goto(r, step) == pc' = [pc EXCEPT ![r] = step]

-----------------------------------------------------------------------------
(* The concurrency counter.                                                *)

(* SET 0 NX EX, then INCRBY: only a key that was missing gets a time to    *)
(* live.                                                                   *)
Increment ==
    /\ slots' = slots + 1
    /\ exists' = TRUE
    /\ expiring' = (expiring \/ ~exists)

(* DECR makes a missing key -1, without a time to live.                    *)
Decrement ==
    /\ slots' = slots - 1
    /\ exists' = TRUE
    /\ UNCHANGED expiring

(* Mutant: the new count is compared as if it were the old one.            *)
EnterOneTooMany(r) ==
    /\ pc[r] = "idle"
    /\ Increment
    /\ Goto(r, IF slots > Limit THEN "over" ELSE "held")
    /\ UNCHANGED <<counted, cost, spent, expired, boundVars>>

(* UsageMeter.run is entered: counted first, compared after.               *)
Enter(r) ==
    /\ pc[r] = "idle"
    /\ Increment
    /\ Goto(r, IF slots + 1 > Limit THEN "over" ELSE "held")
    /\ UNCHANGED <<counted, cost, spent, expired, boundVars>>

(* Mutant: a refused run keeps its count.                                  *)
RefuseWithoutDecrement(r) ==
    /\ pc[r] = "over"
    /\ Goto(r, "idle")
    /\ UNCHANGED <<slotVars, counted, cost, spent, expired, boundVars>>

(* The refused run gives its count back.                                   *)
Refuse(r) ==
    /\ pc[r] = "over"
    /\ Decrement
    /\ Goto(r, "idle")
    /\ UNCHANGED <<counted, cost, spent, expired, boundVars>>

(* The end of a run, whatever ended it.                                    *)
Leave(r) ==
    /\ pc[r] = "held"
    /\ Decrement
    /\ Goto(r, "idle")
    /\ UNCHANGED <<counted, cost, spent, expired, boundVars>>

(* The run is killed, or the decrement finds Redis unreachable: the count  *)
(* stays until the key expires.                                            *)
Vanish(r) ==
    /\ pc[r] # "idle"
    /\ lost < MaxLost
    /\ lost' = lost + 1
    /\ Goto(r, "idle")
    /\ cost' = [cost EXCEPT ![r] = 0]
    /\ spent' = spent + cost[r]
    /\ UNCHANGED <<slotVars, counted, expired, days, failed>>

(* _RUN_TTL seconds after the key was created.                             *)
Expire ==
    /\ KeyExpires /\ exists /\ expiring
    /\ expired' = TRUE
    /\ slots' = 0 /\ exists' = FALSE /\ expiring' = FALSE
    /\ UNCHANGED <<counted, pc, cost, spent, boundVars>>

-----------------------------------------------------------------------------
(* The tokens of the day.                                                  *)

(* Mutant: the budget is asked for once, when the run starts.              *)
StartFileUnasked(r) ==
    /\ pc[r] = "held"
    /\ Goto(r, "asking")
    /\ UNCHANGED <<slotVars, counted, cost, spent, expired, boundVars>>

(* tokens_exhausted is asked before every file; a file without budget is   *)
(* skipped.                                                                *)
StartFile(r) ==
    /\ pc[r] = "held"
    /\ counted < TokenLimit
    /\ Goto(r, "asking")
    /\ UNCHANGED <<slotVars, counted, cost, spent, expired, boundVars>>

AskWindow(r) ==
    /\ pc[r] = "asking"
    /\ cost[r] < MaxCost
    /\ cost' = [cost EXCEPT ![r] = @ + 1]
    /\ UNCHANGED <<slotVars, counted, pc, spent, expired, boundVars>>

(* add_tokens, after the last window.                                      *)
FileDone(r) ==
    /\ pc[r] = "asking"
    /\ counted' = counted + cost[r]
    /\ spent' = spent + cost[r]
    /\ cost' = [cost EXCEPT ![r] = 0]
    /\ Goto(r, "held")
    /\ UNCHANGED <<slotVars, expired, boundVars>>

(* A window raised: the item is an error, and what the windows before it   *)
(* cost is not added.                                                      *)
FileFails(r) ==
    /\ pc[r] = "asking"
    /\ failed < MaxFailed
    /\ failed' = failed + 1
    /\ spent' = spent + cost[r]
    /\ cost' = [cost EXCEPT ![r] = 0]
    /\ Goto(r, "held")
    /\ UNCHANGED <<slotVars, counted, expired, days, lost>>

(* A new UTC day has a new token key.                                      *)
NewDay ==
    /\ days < MaxDays
    /\ days' = days + 1
    /\ counted' = 0 /\ spent' = 0
    /\ UNCHANGED <<slotVars, pc, cost, expired, lost, failed>>

-----------------------------------------------------------------------------
Step(r) ==
    \/ Enter(r) \/ Refuse(r) \/ Leave(r)
    \/ StartFile(r) \/ AskWindow(r) \/ FileDone(r) \/ FileFails(r)

Next ==
    \/ \E r \in Runs : Step(r) \/ Vanish(r)
    \/ Expire \/ NewDay

Spec == Init /\ [][Next]_vars

(* Time passes: a key with a time to live expires in the end.              *)
FairSpec == Spec /\ WF_vars(Expire)

-----------------------------------------------------------------------------
(* What the counter counts at least: every run in progress, and the ones   *)
(* refused but not yet uncounted.                                          *)
SlotsCoverRuns == ~expired => slots >= Cardinality(Occupying)

(* As long as the counter's key does not expire, no more runs are in       *)
(* progress than the limit allows, whatever enters, is refused, leaves or  *)
(* dies at the same time on whichever instance.                            *)
LimitHolds == ~expired => Cardinality(Holding) <= Limit


(* Refusals and endings give back exactly what was taken: when nothing     *)
(* runs and nothing was killed, every slot is free again.                  *)
SlotsComeBack == Occupying = {} /\ lost = 0 /\ ~expired => slots = 0

(* The budget is overshot at most by what the runs allowed at once had in  *)
(* hand when it ran out, since every file asks before it spends.           *)
Asking == {r \in Runs : pc[r] = "asking"}

OvershootIsBounded ==
    ~expired => counted + Cardinality(Asking) * MaxCost < TokenLimit + Limit * MaxCost

MeterInv == TypeOK /\ SlotsCoverRuns /\ LimitHolds /\ OvershootIsBounded

(* "Hold a concurrency slot for the life of a run" (UsageMeter.run).       *)
LimitAlwaysHolds == Cardinality(Holding) <= Limit

(* "A crashed run's concurrency slot frees itself within the hour"         *)
(* (_RUN_TTL): a counter above the runs in progress comes down.            *)
CrashedSlotFrees == slots > Cardinality(Occupying) ~> slots <= Cardinality(Occupying)

(* No model call goes uncounted: what the day cost is what was counted     *)
(* (module docstring: not "let through uncounted").                        *)
SpentIsCounted == Occupying = {} => counted = spent
=============================================================================
