--------------------------- MODULE PermissionGate ---------------------------
(***************************************************************************)
(* The READ gate of one API process and one tenant: request threads that   *)
(* ask PermissionGate.can_read, the cache of decisions they share, the     *)
(* PermissionCacheInvalidator thread that evicts from it on events, and,   *)
(* as far as they are seen from here, the core that decides and the stream *)
(* that carries its governance events.  The lock makes each access to the  *)
(* cache one step; the core is asked outside it, in two calls.             *)
(*                                                                         *)
(* Wall-clock time is assumed not to go back.                              *)
(***************************************************************************)
EXTENDS Naturals, Sequences

CONSTANTS
    Users, Files,
    Requests,       \* calls of can_read
    Ttl,            \* permission_cache_ttl
    MaxClock,       \* bound: time
    MaxChanges,     \* bound: changes of permissions and files in the core
    MaxErrors,      \* bound: calls to the core that raise
    MaxMisses       \* bound: events delivered that the invalidator never sees

ASSUME GateAssumption == {Ttl, MaxClock, MaxChanges, MaxErrors, MaxMisses} \subseteq Nat

Pairs == Users \X Files

(* A decision and when it stops being one; an expiry of 0 is no entry.     *)
Decisions == [allowed: BOOLEAN, expiry: Nat]
NoDecision == [allowed |-> FALSE, expiry |-> 0]

(* The events that are handled at all; "role.assigned" is handled like     *)
(* "role.member_removed".                                                  *)
Events ==
    [type: {"acl.changed", "file.deleted"}, of: Files]
        \cup [type: {"role.member_removed"}, of: Users]
        \cup {[type |-> "role.deleted"]}

VARIABLES
    \* the core and its stream
    acl,         \* pairs whose ACL and roles give READ
    there,       \* files that exist and are not deleted
    erased,      \* files truly deleted
    events,      \* governance events not yet handled, oldest first
    clock,
    \* the process
    cache,       \* the decision held for each pair
    listening,   \* does the invalidator thread live?
    at,          \* where each request is in can_read
    pair,        \* what it asks about (fixed)
    began,       \* its "now", read once on entry
    ok,          \* the verdict it carries to the cache
    answer,      \* its answer: "none" yet, "yes" or "no"
    \* bounds and history
    changes, errors, misses,
    aclLost,     \* when each pair last lost READ
    goneAt,      \* when each file last disappeared
    badAt,       \* when each pair last became readable, or its check failed
    raced,       \* pairs last evicted while a verdict on them was in flight
    missed       \* pairs granted, or about to be, when an eviction was missed

coreVars == <<acl, there, erased, events, clock>>
requestVars == <<at, pair, began, ok, answer>>
historyVars == <<aclLost, goneAt, badAt>>
evictionVars == <<misses, raced, missed>>
vars == <<coreVars, cache, listening, requestVars, changes, errors, historyVars,
          evictionVars>>

-----------------------------------------------------------------------------
Readable(p) == p \in acl /\ p[2] \in there

CoreTypeOK ==
    /\ acl \subseteq Pairs /\ there \subseteq Files /\ erased \subseteq Files
    /\ events \in Seq(Events)
    /\ clock \in Nat

RequestTypeOK ==
    /\ at \in [Requests -> {"idle", "look", "check", "exists", "store", "done"}]
    /\ pair \in [Requests -> Pairs]
    /\ began \in [Requests -> Nat]
    /\ ok \in [Requests -> BOOLEAN]
    /\ answer \in [Requests -> {"none", "yes", "no"}]

HistoryTypeOK ==
    /\ changes \in Nat /\ errors \in Nat /\ misses \in Nat
    /\ aclLost \in [Pairs -> Nat]
    /\ goneAt \in [Files -> Nat]
    /\ badAt \in [Pairs -> Nat]
    /\ raced \subseteq Pairs /\ missed \subseteq Pairs

TypeOK ==
    /\ CoreTypeOK /\ RequestTypeOK /\ HistoryTypeOK
    /\ cache \in [Pairs -> Decisions]
    /\ listening \in BOOLEAN

(* Time starts at Ttl: what a pair lacked at the start it has lacked for   *)
(* longer than any decision lives.                                         *)
Init ==
    /\ acl \in SUBSET Pairs /\ there \in SUBSET Files /\ erased = {}
    /\ events = <<>> /\ clock = Ttl
    /\ cache = [p \in Pairs |-> NoDecision]
    /\ listening = TRUE
    /\ at = [r \in Requests |-> "idle"]
    /\ pair \in [Requests -> Pairs]
    /\ began = [r \in Requests |-> 0]
    /\ ok = [r \in Requests |-> FALSE]
    /\ answer = [r \in Requests |-> "none"]
    /\ changes = 0 /\ errors = 0 /\ misses = 0
    /\ aclLost = [p \in Pairs |-> 0]
    /\ goneAt = [f \in Files |-> 0]
    /\ badAt = [p \in Pairs |-> 0]
    /\ raced = {} /\ missed = {}

-----------------------------------------------------------------------------
(* The core.  A change is published after it took effect; the events that  *)
(* the invalidator ignores (restores and erasures among them) are left out *)
(* of the stream.                                                          *)

(* What the change at hand means for the history.                          *)
Remember ==
    /\ changes < MaxChanges
    /\ changes' = changes + 1
    /\ aclLost' = [p \in Pairs |-> IF p \in acl \ acl' THEN clock ELSE aclLost[p]]
    /\ goneAt' = [f \in Files |-> IF f \in there \ there' THEN clock ELSE goneAt[f]]
    /\ badAt' = [p \in Pairs |-> IF ~Readable(p) /\ p \in acl' /\ p[2] \in there'
                                 THEN clock ELSE badAt[p]]
    /\ UNCHANGED <<clock, cache, listening, requestVars, errors, evictionVars>>

Govern(e, touched) ==
    /\ acl' \in SUBSET Pairs
    /\ \A p \in Pairs \ touched : p \in acl <=> p \in acl'
    /\ events' = Append(events, e)
    /\ UNCHANGED <<there, erased>>
    /\ Remember

AclChanged(f) == Govern([type |-> "acl.changed", of |-> f], Users \X {f})
MemberRemoved(u) == Govern([type |-> "role.member_removed", of |-> u], {u} \X Files)
RoleDeleted == Govern([type |-> "role.deleted"], Pairs)

SoftDelete(f) ==
    /\ f \in there
    /\ there' = there \ {f}
    /\ events' = Append(events, [type |-> "file.deleted", of |-> f])
    /\ UNCHANGED <<acl, erased>>
    /\ Remember

Restore(f) ==
    /\ f \notin there \cup erased
    /\ there' = there \cup {f}
    /\ UNCHANGED <<acl, erased, events>>
    /\ Remember

Erase(f) ==
    /\ f \notin erased
    /\ there' = there \ {f}
    /\ erased' = erased \cup {f}
    /\ UNCHANGED <<acl, events>>
    /\ Remember

Tick ==
    /\ clock < MaxClock
    /\ clock' = clock + 1
    /\ UNCHANGED <<acl, there, erased, events, cache, listening, requestVars,
                   changes, errors, historyVars, evictionVars>>

-----------------------------------------------------------------------------
(* can_read, between whose steps anything may happen.                      *)

aroundVars == <<coreVars, listening, changes, evictionVars>>

(* The clock is read once, before the cache and before the core is asked.  *)
Ask(r) ==
    /\ at[r] = "idle"
    /\ at' = [at EXCEPT ![r] = "look"]
    /\ began' = [began EXCEPT ![r] = clock]
    /\ UNCHANGED <<pair, ok, answer, cache, errors, historyVars, aroundVars>>

Answer(r, allowed) ==
    /\ at' = [at EXCEPT ![r] = "done"]
    /\ answer' = [answer EXCEPT ![r] = IF allowed THEN "yes" ELSE "no"]
    /\ ok' = [ok EXCEPT ![r] = FALSE]
    /\ UNCHANGED <<pair, began>>

(* Mutant: whatever is in the cache is a hit, however old.                 *)
LookAtAnything(r) ==
    /\ at[r] = "look"
    /\ LET d == cache[pair[r]] IN
         IF d.expiry > 0 THEN Answer(r, d.allowed)
         ELSE /\ at' = [at EXCEPT ![r] = "check"]
              /\ UNCHANGED <<pair, began, ok, answer>>
    /\ UNCHANGED <<cache, errors, historyVars, aroundVars>>

Look(r) ==
    /\ at[r] = "look"
    /\ LET d == cache[pair[r]] IN
         IF d.expiry > began[r] THEN Answer(r, d.allowed)
         ELSE /\ at' = [at EXCEPT ![r] = "check"]
              /\ UNCHANGED <<pair, began, ok, answer>>
    /\ UNCHANGED <<cache, errors, historyVars, aroundVars>>

Decide(r, step, allowed) ==
    /\ at' = [at EXCEPT ![r] = step]
    /\ ok' = [ok EXCEPT ![r] = allowed]
    /\ UNCHANGED <<pair, began, answer>>

(* check_permission(file_uid, "r"): ACL and roles only.                    *)
CheckPermission(r) ==
    /\ at[r] = "check"
    /\ IF pair[r] \in acl THEN Decide(r, "exists", TRUE) ELSE Decide(r, "store", FALSE)
    /\ UNCHANGED <<cache, errors, historyVars, aroundVars>>

EntityExists(r) ==
    /\ at[r] = "exists"
    /\ Decide(r, "store", pair[r][2] \in there)
    /\ UNCHANGED <<cache, errors, historyVars, aroundVars>>

(* Either call raises: the verdict is "no", and is cached like any other.  *)
CoreFails(r) ==
    /\ at[r] \in {"check", "exists"}
    /\ errors < MaxErrors
    /\ errors' = errors + 1
    /\ Decide(r, "store", FALSE)
    /\ badAt' = [badAt EXCEPT ![pair[r]] = clock]
    /\ UNCHANGED <<cache, aclLost, goneAt, aroundVars>>

(* Mutant: the decision lives for Ttl from now, not from the question.     *)
StoreFromNow(r) ==
    /\ at[r] = "store"
    /\ cache' = [cache EXCEPT ![pair[r]] = [allowed |-> ok[r], expiry |-> clock + Ttl]]
    /\ Answer(r, ok[r])
    /\ UNCHANGED <<errors, historyVars, aroundVars>>

Store(r) ==
    /\ at[r] = "store"
    /\ cache' = [cache EXCEPT ![pair[r]] = [allowed |-> ok[r], expiry |-> began[r] + Ttl]]
    /\ Answer(r, ok[r])
    /\ UNCHANGED <<errors, historyVars, aroundVars>>

CanRead(r) ==
    \/ Ask(r) \/ Look(r) \/ CheckPermission(r) \/ EntityExists(r) \/ CoreFails(r)
    \/ Store(r)

-----------------------------------------------------------------------------
(* The invalidator thread.                                                 *)

(* Mutant: a role that is gone is nobody's in particular.                  *)
EvictsNamed(e) ==
    {p \in Pairs : \/ e.type \in {"acl.changed", "file.deleted"} /\ e.of = p[2]
                   \/ e.type = "role.member_removed" /\ e.of = p[1]}

(* invalidate_resource, invalidate_member, invalidate_tenant.              *)
Evicts(e) ==
    {p \in Pairs : \/ e.type \in {"acl.changed", "file.deleted"} /\ e.of = p[2]
                   \/ e.type = "role.member_removed" /\ e.of = p[1]
                   \/ e.type = "role.deleted"}

InFlight(p) == \E r \in Requests : pair[r] = p /\ at[r] \in {"exists", "store"} /\ ok[r]

Handle ==
    /\ listening
    /\ events # <<>>
    /\ LET out == Evicts(Head(events)) IN
         /\ cache' = [p \in Pairs |-> IF p \in out THEN NoDecision ELSE cache[p]]
         /\ raced' = (raced \ out) \cup {p \in out : InFlight(p)}
         /\ missed' = missed \ out
    /\ events' = Tail(events)
    /\ UNCHANGED <<acl, there, erased, clock, listening, requestVars, changes,
                   errors, misses, historyVars>>

(* An event is delivered and never seen here: the read that fetched it     *)
(* timed out and answered [], or another process read it, as the consumer  *)
(* of the same name.  It stays pending, and nobody reads pending entries.  *)
Miss ==
    /\ events # <<>>
    /\ misses < MaxMisses
    /\ misses' = misses + 1
    /\ missed' = missed \cup {p \in Evicts(Head(events)) : cache[p].allowed \/ InFlight(p)}
    /\ events' = Tail(events)
    /\ UNCHANGED <<acl, there, erased, clock, cache, listening, requestVars,
                   changes, errors, historyVars, raced>>

(* Redis raises: the thread logs and exits, for good.                      *)
Stop ==
    /\ listening
    /\ listening' = FALSE
    /\ UNCHANGED <<coreVars, cache, requestVars, changes, errors, historyVars,
                   evictionVars>>

-----------------------------------------------------------------------------
Change ==
    \/ RoleDeleted \/ \E u \in Users : MemberRemoved(u)
    \/ \E f \in Files : AclChanged(f) \/ SoftDelete(f) \/ Restore(f) \/ Erase(f)

Next ==
    \/ Change
    \/ \E r \in Requests : CanRead(r)
    \/ Tick \/ Handle \/ Miss \/ Stop

Spec == Init /\ [][Next]_vars

-----------------------------------------------------------------------------
(* Properties.                                                             *)

(* When something that happened at time t may still show in an answer to a *)
(* question asked at time b.                                               *)
StillShows(t, b) == b <= t \/ b < t + Ttl

(* Nobody is let in on a permission lost, or to a file gone, more than Ttl *)
(* before the question was asked: not by a slow check that stores its      *)
(* verdict late, not by two halves of a check that were true at different  *)
(* times, and not without the invalidator.                                 *)
GrantsAreFresh ==
    \A r \in Requests : answer[r] = "yes" =>
        /\ pair[r] \in acl \/ StillShows(aclLost[pair[r]], began[r])
        /\ pair[r][2] \in there \/ StillShows(goneAt[pair[r][2]], began[r])

(* Nor is anybody kept out by a refusal, or by an error of the core, that  *)
(* lies more than Ttl back: failing closed is cached too.                  *)
DenialsAreFresh ==
    \A r \in Requests : answer[r] = "no" /\ Readable(pair[r]) =>
        StillShows(badAt[pair[r]], began[r])

(* While the invalidator lives, a cached permission is a real one, or its  *)
(* eviction is on the way.  Three things slip through, and live no longer  *)
(* than Ttl (GrantsAreFresh): a verdict that an eviction overtook on its   *)
(* way to the cache, what was granted when an event that evicts it was     *)
(* missed, and a file erased without a soft delete, for which no eviction  *)
(* exists.  A later eviction that is handled ends the first two.           *)
Evicted(p) ==
    \/ p \in raced \cup missed
    \/ \E i \in DOMAIN events : p \in Evicts(events[i])

EvictionCoversLoss ==
    listening => \A p \in Pairs :
        cache[p].allowed /\ p[2] \notin erased => Readable(p) \/ Evicted(p)

(* The strengthening under which the first two are inductive: what the     *)
(* cache holds, and the verdicts on their way to it, show no older past    *)
(* than an answer may, and nothing in the cache outlives Ttl.              *)
GrantShows(p, t) ==
    /\ p \in acl \/ t <= aclLost[p]
    /\ p[2] \in there \/ t <= goneAt[p[2]]

DenialShows(p, t) == Readable(p) => t <= badAt[p]

TimeBounds ==
    /\ \A r \in Requests : began[r] <= clock
    /\ \A p \in Pairs : cache[p].expiry <= clock + Ttl

CacheIsFresh ==
    \A p \in Pairs :
        IF cache[p].allowed
        THEN /\ p \in acl \/ cache[p].expiry <= aclLost[p] + Ttl
             /\ p[2] \in there \/ cache[p].expiry <= goneAt[p[2]] + Ttl
        ELSE Readable(p) => cache[p].expiry <= badAt[p] + Ttl

VerdictsAreFresh ==
    \A r \in Requests :
        /\ at[r] = "exists" =>
             ok[r] /\ (pair[r] \in acl \/ began[r] <= aclLost[pair[r]])
        /\ at[r] = "store" =>
             IF ok[r] THEN GrantShows(pair[r], began[r]) ELSE DenialShows(pair[r], began[r])

AnsweredWhenDone == \A r \in Requests : at[r] # "done" => answer[r] = "none"

FreshInv ==
    /\ TypeOK /\ TimeBounds /\ CacheIsFresh /\ VerdictsAreFresh /\ AnsweredWhenDone
    /\ GrantsAreFresh /\ DenialsAreFresh

(* ... and the third: a verdict in flight is a real one, or its eviction   *)
(* is on the way, too.                                                     *)
CacheIsCovered ==
    \A p \in Pairs :
        cache[p].allowed /\ p[2] \notin erased => Readable(p) \/ Evicted(p)

VerdictsAreCovered ==
    \A r \in Requests :
        /\ at[r] = "exists" => pair[r] \in acl \/ Evicted(pair[r])
        /\ at[r] = "store" /\ ok[r] /\ pair[r][2] \notin erased =>
              Readable(pair[r]) \/ Evicted(pair[r])

CoverInv == FreshInv /\ CacheIsCovered /\ VerdictsAreCovered

(* What tests/test_permission_gate_security.py promises: a DENY is never   *)
(* silently upgraded to allow.                                             *)
DenyIsNotUpgraded ==
    [][\A p \in Pairs :
          ~cache[p].allowed /\ cache[p].expiry > clock /\ cache'[p].allowed =>
              Readable(p)]_vars
=============================================================================
