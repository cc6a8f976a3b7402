-------------------------------- MODULE Access --------------------------------
(***************************************************************************)
(* The doors of the service: a request presents a session token that the   *)
(* bridge signed, a token of this service's own store, or a password, and  *)
(* is admitted to one tenant with the roles held there.  Meanwhile an      *)
(* administrator moves the user between groups, the bridge signs tokens    *)
(* and revokes them, Redis goes away and time passes.  One user; one       *)
(* process, whose threads share the verdicts and the token store.          *)
(***************************************************************************)
EXTENDS Integers, FiniteSets

CONSTANTS
    Threads,       \* threads that serve requests
    Tenants,       \* the tenants
    Home,          \* the tenant of the configuration, that own tokens are for
    Sessions,      \* session tokens the bridge may sign (jti)
    Horizon,       \* how far the time runs
    SessionLife,   \* the life of a session token
    TokenTtl,      \* CSAI_TOKEN_TTL, of an own token
    CacheTtl,      \* AUTH_REVOCATION_CACHE_TTL_SECONDS
    CacheMax,      \* max_cache_entries
    MaxMoves,      \* changes of the groups
    MaxRequests,   \* requests a thread serves
    MaxOutages     \* times Redis goes away

ASSUME AccessAssumption ==
    /\ Home \in Tenants /\ {Horizon, SessionLife, TokenTtl} \subseteq Nat
    /\ CacheTtl \in Nat \ {0} /\ CacheMax \in Nat \ {0}

None == "none"
Never == Horizon + 1

(* The groups of a tenant, one of which the user may be in; and the roles  *)
(* that roles_in_tenant makes of it.                                       *)
Cns == {"reader", "administrators"}
Roles == Cns \cup {"system_admin"}
RolesIn(cn) == ({cn} \ {None}) \cup IF cn = "administrators" THEN {"system_admin"} ELSE {}

VARIABLES
    time,     \* the time
    service,  \* the user is one of the service principals (fixed)
    member,   \* the group the user is in, of each tenant
    held,     \* those the user was in at each time so far (history)
    session,  \* the session tokens: when they were signed, for what
    revoked,  \* when each was signed out
    redis,    \* Redis answers, and so does the bridge
    secret,   \* the service has the bridge's secret (fixed)
    verdicts, \* RevocationChecker._cache: verdict and expiry of a token
    known,    \* BridgeTokenVerifier._cache, of a service without the secret
    store,    \* TokenStore._tokens: the identity and its expiry
    request,  \* what each thread is doing
    served,   \* requests of each thread so far
    moves, outages

accessVars == <<time, service, member, held, session, revoked, redis, secret, verdicts, known, store,
                request, served, moves, outages>>

(* A session names tenants, and has a list of roles for each it names; a   *)
(* ticket has no such map.                                                 *)
Unsigned == [at |-> Never, names |-> {}, map |-> [t \in Tenants |-> {}], ticket |-> FALSE]

(* A request: the door, the tenant it names, the credential, when it came, *)
(* when it asked for what it goes by (for a token of the store, when the   *)
(* password had asked, and when the token was made), what has become of it *)
(* and when.                                                               *)
Rest == [pc |-> "rest", door |-> None, tenant |-> Home, jti |-> None, begin |-> 0,
         at |-> 0, made |-> 0, answer |-> None, roles |-> {}, end |-> 0]

AccessInit ==
    /\ time = 0 /\ service \in BOOLEAN
    /\ member \in [Tenants -> Cns \cup {None}]
    /\ held = [t \in Tenants |-> [k \in 0..Horizon |-> IF k = 0 THEN {member[t]} ELSE {}]]
    /\ session = [j \in Sessions |-> Unsigned] /\ revoked = [j \in Sessions |-> Never]
    /\ redis = TRUE
    /\ secret \in BOOLEAN /\ verdicts = [j \in {} |-> None] /\ known = {} /\ store = {}
    /\ request = [t \in Threads |-> Rest] /\ served = [t \in Threads |-> 0]
    /\ moves = 0 /\ outages = 0

Held(k) == [t \in Tenants |-> [held[t] EXCEPT ![k] = @ \cup {member'[t]}]]

ClockMoves ==
    /\ time < Horizon /\ time' = time + 1
    /\ member' = member /\ held' = Held(time + 1)
    /\ UNCHANGED <<service, session, revoked, redis, secret, verdicts, known, store, request, served, moves, outages>>

Move(t, cn) ==
    /\ moves < MaxMoves /\ cn # member[t] /\ moves' = moves + 1
    /\ member' = [member EXCEPT ![t] = cn] /\ held' = Held(time)
    /\ UNCHANGED <<time, service, session, revoked, redis, secret, verdicts, known, store, request, served, outages>>

(* The bridge signs a session with the user's roles in every tenant, and   *)
(* none to a user without any; it may name a tenant with an empty list.    *)
Sign(j, ticket, bare) ==
    /\ session[j].at = Never /\ \E t \in Tenants : member[t] # None
    /\ bare \subseteq {t \in Tenants : member[t] = None}
    /\ session' = [session EXCEPT ![j] =
          [at |-> time, names |-> {t \in Tenants : member[t] # None} \cup bare,
           map |-> [t \in Tenants |-> {member[t]} \ {None}], ticket |-> ticket]]
    /\ UNCHANGED <<time, service, member, held, revoked, redis, secret, verdicts, known, store, request, served, moves, outages>>

SignOut(j) ==
    /\ session[j].at # Never /\ revoked[j] = Never /\ redis
    /\ revoked' = [revoked EXCEPT ![j] = time]
    /\ UNCHANGED <<time, service, member, held, session, redis, secret, verdicts, known, store, request, served, moves, outages>>

RedisFlips ==
    /\ redis => outages < MaxOutages
    /\ redis' = ~redis /\ outages' = IF redis THEN outages + 1 ELSE outages
    /\ UNCHANGED <<time, service, member, held, session, revoked, secret, verdicts, known, store, request, served, moves>>

-----------------------------------------------------------------------------
(* How a request ends.                                                     *)
Decided(t, answer, roles) ==
    request' = [request EXCEPT ![t] = [@ EXCEPT !.pc = "done", !.answer = answer, !.roles = roles,
                                                !.end = time]]

(* scope_claims_to_tenant: a tenant that the token's map does not name is  *)
(* refused, one it names with an empty list is not; a token without a map  *)
(* has no roles anywhere.                                                  *)
ScopedUnion(t, s) ==   \* mutant: the roles of any tenant
    LET roles == UNION {s.map[tn] : tn \in Tenants}
    IN  IF roles # {} THEN Decided(t, "admitted", roles) ELSE Decided(t, "refused", {})

Scoped(t, s) ==
    IF s.ticket THEN Decided(t, "admitted", {})
    ELSE IF request[t].tenant \in s.names THEN Decided(t, "admitted", s.map[request[t].tenant])
    ELSE Decided(t, "refused", {})

Arrive(t, door, tenant, j) ==
    /\ request[t].pc \in {"rest", "done"} /\ served[t] < MaxRequests
    /\ served' = [served EXCEPT ![t] = @ + 1]
    /\ request' = [request EXCEPT ![t] = [Rest EXCEPT !.pc = "read", !.door = door, !.tenant = tenant,
                                                       !.jti = j, !.begin = time]]
    /\ UNCHANGED <<time, service, member, held, session, revoked, redis, secret, verdicts, known, store, moves, outages>>

(* A bearer token is looked for in this process's store first.  It is      *)
(* honoured in its own tenant only, and an expired one is removed.         *)
OwnToken(t) ==
    /\ request[t].pc = "read" /\ request[t].door = "own"
    /\ \E e \in store :
          IF time > e.until
          THEN store' = store \ {e} /\ Decided(t, "refused", {})
          ELSE /\ UNCHANGED store
               /\ IF e.tenant = request[t].tenant
                  THEN request' = [request EXCEPT ![t] = [@ EXCEPT !.pc = "done", !.answer = "admitted",
                                                                   !.roles = e.roles, !.at = e.asked,
                                                                   !.made = e.made, !.end = time]]
                  ELSE Decided(t, "refused", {})
    /\ UNCHANGED <<time, service, member, held, session, revoked, redis, secret, verdicts, known, served, moves, outages>>

(* An answer is remembered from the time the request began to ask.         *)
FromAnswer(t) == time   \* mutant: from the time the answer is stored
Since(t) == request[t].at

(* A session of the bridge: the signature and the expiry, then the cached  *)
(* verdict, if it has not expired.                                         *)
Expired(j) == time > session[j].at + SessionLife
Remembered(j) == j \in DOMAIN verdicts /\ verdicts[j].until > time

Bearer(t) ==
    LET j == request[t].jti
        hits == {e \in known : e.jti = j /\ e.tenant = request[t].tenant /\ e.until > time}
        asks(pc) == request' = [request EXCEPT ![t] = [@ EXCEPT !.pc = pc, !.at = time]]
    IN  /\ request[t].pc = "read" /\ request[t].door = "session"
        /\ \/ secret /\ Expired(j) /\ Decided(t, "refused", {})
           \/ /\ secret /\ ~Expired(j) /\ Remembered(j)
              /\ IF verdicts[j].revoked THEN Decided(t, "refused", {}) ELSE Scoped(t, session[j])
           \/ secret /\ ~Expired(j) /\ ~Remembered(j) /\ asks("ask")
           \/ ~secret /\ \E e \in hits : Decided(t, "admitted", e.roles)
           \/ ~secret /\ hits = {} /\ asks("introspect")
        /\ UNCHANGED <<time, service, member, held, session, revoked, redis, secret, verdicts, known, store, served, moves, outages>>

(* Without the secret the bridge is asked what a token is worth in the     *)
(* tenant, and judges it as above; no answer is a refusal, and only a good *)
(* one is remembered.                                                      *)
Introspect(t) ==
    LET j == request[t].jti
        tenant == request[t].tenant
        active == /\ redis /\ revoked[j] = Never /\ ~Expired(j)
                  /\ ~session[j].ticket /\ tenant \in session[j].names
    IN  /\ request[t].pc = "introspect"
        /\ IF active
           THEN request' = [request EXCEPT ![t] = [@ EXCEPT !.pc = "keep", !.roles = session[j].map[tenant]]]
           ELSE Decided(t, "refused", {})
        /\ UNCHANGED <<time, service, member, held, session, revoked, redis, secret, verdicts, known, store, served, moves, outages>>

Keep(t) ==
    LET r == request[t]
    IN  /\ r.pc = "keep" /\ Decided(t, "admitted", r.roles)
        /\ known' = {e \in known : e.jti # r.jti \/ e.tenant # r.tenant}
                        \cup {[jti |-> r.jti, tenant |-> r.tenant, roles |-> r.roles, until |-> Since(t) + CacheTtl]}
        /\ UNCHANGED <<time, service, member, held, session, revoked, redis, secret, verdicts, store, served, moves, outages>>

(* The denylist is asked, outside the lock.  No answer is remembered of a  *)
(* Redis that does not give one; the request is told to come back.         *)
Unavailable(t) == Decided(t, "unavailable", {})

(* The key of a token that was signed out lives as long as the token.      *)
Denylisted(j) == revoked[j] # Never /\ ~Expired(j)

AskDenylist(t) ==
    /\ request[t].pc = "ask"
    /\ IF redis
       THEN request' = [request EXCEPT ![t] = [@ EXCEPT !.pc = "note",
                            !.answer = IF Denylisted(request[t].jti) THEN "revoked" ELSE "permit"]]
       ELSE Unavailable(t)
    /\ UNCHANGED <<time, service, member, held, session, revoked, redis, secret, verdicts, known, store, served, moves, outages>>

(* _prune_locked: a full cache loses what has expired, and all if that was *)
(* not enough.                                                             *)
Pruned(now) ==
    LET live == {j \in DOMAIN verdicts : verdicts[j].until > now}
    IN  IF Cardinality(DOMAIN verdicts) < CacheMax THEN verdicts
        ELSE IF Cardinality(live) < CacheMax THEN [j \in live |-> verdicts[j]] ELSE [j \in {} |-> None]

Note(t) ==
    LET j == request[t].jti
        kept == Pruned(Since(t))
        entry == [revoked |-> request[t].answer = "revoked", until |-> Since(t) + CacheTtl]
    IN  /\ request[t].pc = "note"
        /\ verdicts' = [k \in DOMAIN kept \cup {j} |-> IF k = j THEN entry ELSE kept[k]]
        /\ IF entry.revoked THEN Decided(t, "refused", {}) ELSE Scoped(t, session[j])
        /\ UNCHANGED <<time, service, member, held, session, revoked, redis, secret, known, store, served, moves, outages>>

(* A password: the bind, and then the groups of the tenant the request     *)
(* names.  Without any there the user is not a member, and refused, unless *)
(* it is a service principal.  A search that fails is as good as none.     *)
Bind(t) ==
    /\ request[t].pc = "read" /\ request[t].door = "password"
    /\ request' = [request EXCEPT ![t].pc = "groups"]
    /\ UNCHANGED <<time, service, member, held, session, revoked, redis, secret, verdicts, known, store, served, moves, outages>>

Groups(t) ==
    /\ request[t].pc = "groups"
    /\ \E roles \in {RolesIn(member[request[t].tenant]), {}} :
          request' = [request EXCEPT ![t] =
              [@ EXCEPT !.pc = "done", !.at = time, !.end = time, !.roles = roles,
                        !.answer = IF roles # {} \/ service THEN "admitted" ELSE "refused"]]
    /\ UNCHANGED <<time, service, member, held, session, revoked, redis, secret, verdicts, known, store, served, moves, outages>>

(* POST /auth/token: what a password was admitted to is put in the store.  *)
(* Only the tenant of the configuration is ever asked for.                 *)
Issue(t) ==
    /\ request[t].pc = "done" /\ request[t].door = "password"
    /\ request[t].answer = "admitted" /\ request[t].tenant = Home
    /\ store' = store \cup {[tenant |-> Home, roles |-> request[t].roles, asked |-> request[t].at,
                             made |-> time, until |-> time + TokenTtl]}
    /\ request' = [request EXCEPT ![t] = Rest]
    /\ UNCHANGED <<time, service, member, held, session, revoked, redis, secret, verdicts, known, served, moves, outages>>

AccessNext ==
    \/ ClockMoves \/ RedisFlips
    \/ \E t \in Tenants, cn \in Cns \cup {None} : Move(t, cn)
    \/ \E j \in Sessions : \/ SignOut(j)
                           \/ \E ticket \in BOOLEAN, bare \in SUBSET Tenants : Sign(j, ticket, bare)
    \/ \E t \in Threads :
          \/ \E tenant \in Tenants :
                \/ Arrive(t, "password", tenant, None)
                \/ store # {} /\ Arrive(t, "own", tenant, None)
                \/ \E j \in Sessions : session[j].at # Never /\ Arrive(t, "session", tenant, j)
          \/ OwnToken(t) \/ Bearer(t) \/ AskDenylist(t) \/ Note(t) \/ Introspect(t) \/ Keep(t) \/ Bind(t) \/ Groups(t)
          \/ Issue(t)

AccessSpec == AccessInit /\ [][AccessNext]_accessVars

-----------------------------------------------------------------------------
Admitted(t) == request[t].pc = "done" /\ request[t].answer = "admitted"

(* A request that comes a verdict's lifetime after the sign-out of its     *)
(* session is not admitted, whichever threads have asked, and stored what  *)
(* they were told, in whatever order.  Only a session that runs out while  *)
(* the denylist is asked slips through: the key runs out with it.          *)
SignOutIsNoticed ==
    \A t \in Threads : Admitted(t) /\ request[t].door = "session" =>
        LET r == request[t] IN
        \/ r.begin < revoked[r.jti] + CacheTtl
        \/ r.end > session[r.jti].at + SessionLife

(* Whoever is admitted with roles was in the group they come from, of that *)
(* very tenant, at the moment the directory was read for the credential;   *)
(* without roles, a session must name the tenant or be a ticket, and any   *)
(* other caller be a service principal.                                    *)
MembershipIsAttested ==
    \A t \in Threads : Admitted(t) =>
        LET r == request[t]  s == session[r.jti] IN
        IF r.door = "session"
        THEN IF s.ticket THEN r.roles = {}
             ELSE /\ r.tenant \in s.names
                  /\ \E cn \in held[r.tenant][s.at] : r.roles = {cn} \ {None}
        ELSE IF r.roles = {} THEN service
             ELSE \E cn \in held[r.tenant][r.at] \ {None} : r.roles = RolesIn(cn)

(* A user who has left the group keeps its roles no longer than the        *)
(* credential lives that was made before: a session, and what the bridge   *)
(* said of it where the service asks the bridge; a token of the store; a   *)
(* password is always asked about anew.                                    *)
OldRolesRunOut ==
    \A t \in Threads : Admitted(t) =>
        LET r == request[t] IN
        CASE r.door = "session" ->
                 r.begin <= session[r.jti].at + SessionLife + IF secret THEN 0 ELSE CacheTtl
          [] r.door = "own" -> r.at <= r.made /\ r.begin <= r.made + TokenTtl
          [] OTHER -> r.begin <= r.at

(* A session is refused for a reason that holds: it had expired or was     *)
(* signed out, or its map does not name the tenant.  An outage is told as  *)
(* one and not as a bad credential, where the service has the secret.      *)
RefusalIsDeserved ==
    \A t \in Threads :
        LET r == request[t] IN
        secret /\ r.pc = "done" /\ r.door = "session" /\ r.answer = "refused" =>
            \/ revoked[r.jti] # Never
            \/ time > session[r.jti].at + SessionLife
            \/ r.tenant \notin session[r.jti].names

(* Together: who is admitted and who is refused, each has a reason.        *)
VerdictsAreDeserved == MembershipIsAttested /\ OldRolesRunOut /\ RefusalIsDeserved

(* The verdicts do not outgrow their bound.                                *)
CacheIsBounded == Cardinality(DOMAIN verdicts) <= CacheMax

(* The two together: neither the age of a verdict nor the pruning that     *)
(* keeps their number down lets a signed-out session in again.             *)
RevocationHolds == SignOutIsNoticed /\ CacheIsBounded

(* What core_client.py says: only an actual member of system_admin has     *)
(* that role.                                                              *)
SystemAdminIsHeld ==
    \A t \in Threads : Admitted(t) /\ "system_admin" \in request[t].roles =>
        \E k \in 0..time : "system_admin" \in held[request[t].tenant][k]
=============================================================================
