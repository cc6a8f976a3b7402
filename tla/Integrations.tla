----------------------------- MODULE Integrations -----------------------------
(***************************************************************************)
(* The external tool servers of one tenant.  Administrators write the rows *)
(* that describe them; a chat's turn lists the enabled rows, discovers the *)
(* tools of each and calls those the user approves, with a credential read *)
(* at that time.  Two caches of the process stand in between: discovered   *)
(* tools by row and version, and OAuth tokens by row and credential.  What *)
(* a server offers and which of it is exposed is data left out.            *)
(***************************************************************************)
EXTENDS Naturals, FiniteSets, FiniteSetsExt

CONSTANTS
    Workers,        \* threads that serve requests
    Tasks,          \* what they do: see Task
    Tables,         \* the rows there may be at first
    Titles,          \* names of integrations; all have one base slug
    MaxIntegrations,\* mcp_max_integrations
    DiscoveryTtl,   \* mcp_connect_cache_ttl
    TokenLife,      \* expires_in of the token endpoint
    Skew,           \* _REFRESH_SKEW
    LastTick, MaxCalls, MaxWrites, MaxFlips   \* bounds

(* What an administrator sends, 0 for a field left out.  A new secret and  *)
(* a new server (its endpoint, token endpoint, client and scope) are given *)
(* a number never used before; "clear" is the empty secret.                *)
Auths == {"none", "bearer", "oauth"}
Edits == [name: Titles \cup {0}, auth: Auths \cup {"same"}, secret: {"same", "clear", "new"},
          server: {"same", "new"}, enabled: {"same", "on", "off"}]
Task == [op: {"turn"}] \cup [op: {"create", "update"}, edit: Edits] \cup [op: {"delete", "test"}]

Rows == [id: Nat, version: Nat, name: Nat, slug: Nat, auth: Auths, secret: Nat, server: Nat,
         enabled: BOOLEAN, open: BOOLEAN]
NoRow == [id |-> 0, version |-> 0, name |-> 0, slug |-> 0, auth |-> "none", secret |-> 0,
          server |-> 0, enabled |-> FALSE, open |-> FALSE]
NoToken == [key |-> <<0, 0, 0>>, dies |-> 0, got |-> 0, of |-> 0]

Distinct(table) == \A r, s \in table : r.slug = s.slug \/ r.id = s.id => r = s

(* A table as there may be one: within the limit, its rows numbered.       *)
Numbered(table) ==
    LET n == Cardinality(table)
    IN  /\ table \subseteq Rows /\ IsFiniteSet(table) /\ n <= MaxIntegrations
        /\ Distinct(table) /\ \A r \in table : r.id \in 1..n /\ r.version \in 1..n

ASSUME IntegrationsAssumption ==
    /\ TokenLife \in Nat /\ Skew \in Nat /\ TokenLife > Skew
    /\ DiscoveryTtl \in Nat /\ MaxIntegrations \in Nat /\ Titles \subseteq Nat \ {0}
    /\ Workers # {} /\ IsFiniteSet(Workers)
    /\ Tasks \subseteq Task /\ \A table \in Tables : Numbered(table)

VARIABLES
    tick,       \* time.time()
    rows,       \* mcp_integration
    stamp,      \* the last number given to a row, version, secret or server
    found,      \* McpToolProvider._cache: [key, until, specs]
    tokens,     \* OAuthTokenCache._cache: [token, until]
    worker,     \* the threads
    lost,       \* the database cannot be reached
    flipped     \* how often that changed

integrationVars == <<tick, rows, stamp, found, tokens, worker, lost, flipped>>

Free == [pc |-> "free", work |-> [op |-> "none"], row |-> NoRow, slug |-> 0, todo |-> {},
         offered |-> {}, secret |-> 0, token |-> NoToken, asked |-> 0, for |-> "turn",
         calls |-> 0, answer |-> 0]

Listed == {r.id : r \in rows}
RowOf(id) == CHOOSE r \in rows : r.id = id

Becomes(t, new) == worker' = [worker EXCEPT ![t] = new]
Moves(t, pc) == worker' = [worker EXCEPT ![t].pc = pc]
Answers(t, status) == Becomes(t, [Free EXCEPT !.answer = status])

Begins(t, work) ==
    /\ worker[t].pc = "free"
    /\ work.op \in {"create", "update", "delete"} => stamp < MaxWrites
    /\ \E r \in rows \cup {NoRow} :
          /\ work.op \in {"turn", "create"} <=> r = NoRow
          /\ Becomes(t, [Free EXCEPT !.work = work, !.row = r,
                !.pc = CASE work.op = "turn" -> "list" [] work.op = "create" -> "count" [] OTHER -> "get"])
    /\ UNCHANGED <<tick, rows, stamp, found, tokens, lost, flipped>>

-----------------------------------------------------------------------------
(* Administration.  Every statement is a transaction of its own: what was  *)
(* counted or read before may have changed by the time of the write.       *)

(* Whatever raises without being handled is a 500.                         *)
Fails(t) == lost /\ Answers(t, 500)

EffectiveAuth(old, edit) == IF edit.auth = "same" THEN old.auth ELSE edit.auth
Valid(old, edit) == EffectiveAuth(old, edit) # "none" => edit.secret = "new" \/ old.secret # 0

AtCap == Cardinality(rows) >= MaxIntegrations

Count(t) ==
    /\ worker[t].pc = "count"
    /\ \/ Fails(t)
       \/ /\ ~lost
          /\ IF AtCap THEN Answers(t, 409)
             ELSE IF Valid(NoRow, worker[t].work.edit) THEN Moves(t, "slug") ELSE Answers(t, 400)
    /\ UNCHANGED <<tick, rows, stamp, found, tokens, lost, flipped>>

Get(t) ==
    /\ worker[t].pc = "get"
    /\ \/ Fails(t)
       \/ /\ ~lost
          /\ LET id == worker[t].row.id   w == worker[t].work IN
             IF id \notin Listed THEN Answers(t, 404)
             ELSE IF w.op = "update" /\ ~Valid(RowOf(id), w.edit) THEN Answers(t, 400)
             ELSE Becomes(t, [worker[t] EXCEPT !.row = RowOf(id), !.for = w.op,
                     !.pc = CASE w.op = "test" -> "headers" [] w.op = "delete" -> "write"
                              [] OTHER -> IF w.edit.name = 0 THEN "write" ELSE "slug"])
    /\ UNCHANGED <<tick, rows, stamp, found, tokens, lost, flipped>>

(* The first of base, base-2, base-3... that no other row has.             *)
UniqueSlug(id) ==
    LET taken == {r.slug : r \in {s \in rows : s.id # id}}
    IN  Min((1..(Cardinality(taken) + 1)) \ taken)

Slug(t) ==
    /\ worker[t].pc = "slug"
    /\ \/ Fails(t)
       \/ ~lost /\ Becomes(t, [worker[t] EXCEPT !.slug = UniqueSlug(worker[t].row.id), !.pc = "write"])
    /\ UNCHANGED <<tick, rows, stamp, found, tokens, lost, flipped>>

(* The columns an edit leaves out keep what the row has at that time.      *)
Edited(r, edit, slug) ==
    [r EXCEPT !.version = stamp + 1,
              !.name = IF edit.name = 0 THEN @ ELSE edit.name,
              !.slug = IF edit.name = 0 THEN @ ELSE slug,
              !.auth = IF edit.auth = "same" THEN @ ELSE edit.auth,
              !.secret = CASE edit.secret = "same" -> @ [] edit.secret = "clear" -> 0
                           [] OTHER -> stamp + 1,
              !.server = IF edit.server = "same" THEN @ ELSE stamp + 1,
              !.enabled = IF edit.enabled = "same" THEN @ ELSE edit.enabled = "on"]

NameOnly(new, others) == \A r \in others : r.name # new.name   \* mutant: a slug may be shared
Unique(new, others) == \A r \in others : r.name # new.name /\ r.slug # new.slug

(* A name or slug taken since makes the statement fail, and an update of a *)
(* row deleted since returns None, of which the handler reads the slug.    *)
SaveRow(t) ==
    /\ worker[t].pc = "write"
    /\ LET w == worker[t].work   id == worker[t].row.id
           old == IF id \in Listed THEN RowOf(id) ELSE NoRow
           others == rows \ {old}
       IN \/ Fails(t) /\ UNCHANGED <<rows, stamp>>
          \/ /\ ~lost /\ w.op = "delete"
             /\ rows' = others /\ Moves(t, "bust") /\ UNCHANGED stamp
          \/ /\ ~lost /\ w.op # "delete" /\ stamp' = stamp + 1
             /\ LET kept == IF w.op = "create" THEN [NoRow EXCEPT !.id = stamp + 1] ELSE old
                    new == Edited(kept, w.edit, worker[t].slug)
                IN  IF kept = NoRow \/ ~Unique(new, others) THEN Answers(t, 500) /\ UNCHANGED rows
                    ELSE \E open \in BOOLEAN :
                         /\ rows' = others \cup {[new EXCEPT !.open = open]}
                         /\ Becomes(t, [worker[t] EXCEPT !.pc = "bust", !.row = new])
    /\ UNCHANGED <<tick, found, tokens, lost, flipped>>

(* _bust: the discovered tools, unless another thread adds to the cache    *)
(* while its keys are looked through, then the tokens.                     *)
BustTools(t) ==
    /\ worker[t].pc = "bust" /\ Moves(t, "bust tokens")
    /\ \/ found' = {f \in found : f.key[1] # worker[t].row.id}
       \/ /\ \E s \in Workers \ {t} : worker[s].pc = "connect" /\ worker[s].for = "discover"
          /\ found' = found
    /\ UNCHANGED <<tick, rows, stamp, tokens, lost, flipped>>

BustTokens(t) ==
    /\ worker[t].pc = "bust tokens" /\ Answers(t, 200)
    /\ tokens' = {k \in tokens : k.token.key[1] # worker[t].row.id}
    /\ UNCHANGED <<tick, rows, stamp, found, lost, flipped>>

-----------------------------------------------------------------------------
(* tools_for: the tools of a turn.  A server that fails contributes none;  *)
(* anything else that fails leaves the turn without external tools.        *)
List(t) ==
    /\ worker[t].pc = "list"
    /\ IF lost THEN Moves(t, "model")
       ELSE Becomes(t, [worker[t] EXCEPT !.pc = "next", !.todo = {r \in rows : r.enabled}])
    /\ UNCHANGED <<tick, rows, stamp, found, tokens, lost, flipped>>

Key(r) == <<r.id, r.version>>
Offer(r, specs, at) == [row |-> r, specs |-> specs, at |-> at]

Discover(t) ==
    /\ worker[t].pc = "next"
    /\ LET w == worker[t] IN
       \/ w.todo = {} /\ Moves(t, "model")
       \/ \E r \in w.todo :
             LET hit == {f \in found : f.key = Key(r) /\ f.until > tick}
                 rest == [w EXCEPT !.todo = @ \ {r}]
             IN  CASE ~r.open -> Becomes(t, rest)
                   [] r.open /\ hit = {} ->
                        Becomes(t, [rest EXCEPT !.pc = "headers", !.for = "discover", !.row = r, !.asked = tick])
                   [] OTHER -> \E f \in hit :
                        Becomes(t, [rest EXCEPT !.offered = @ \cup {Offer(r, f.specs, tick)}])
    /\ UNCHANGED <<tick, rows, stamp, found, tokens, lost, flipped>>

(* The model calls a tool the user approves, or the turn is over.  What is *)
(* checked again is the row as it was listed.                              *)
Converse(t) ==
    /\ worker[t].pc = "model"
    /\ \/ Answers(t, 200)
       \/ \E o \in worker[t].offered :
             /\ worker[t].calls < MaxCalls /\ o.row.open
             /\ Becomes(t, [worker[t] EXCEPT !.pc = "headers", !.for = "call", !.row = o.row,
                                             !.calls = @ + 1, !.offered = {o}])
    /\ UNCHANGED <<tick, rows, stamp, found, tokens, lost, flipped>>

-----------------------------------------------------------------------------
(* _build_headers: the credential is read by the row's id, and for OAuth   *)
(* exchanged for a token.                                                  *)
Raises(t) ==
    IF worker[t].for = "discover" THEN Becomes(t, [worker[t] EXCEPT !.pc = "model", !.offered = {}])
    ELSE Answers(t, 500)

Headers(t) ==
    /\ worker[t].pc = "headers"
    /\ LET w == worker[t]   secret == IF w.row.id \in Listed THEN RowOf(w.row.id).secret ELSE 0
           on == [w EXCEPT !.secret = 0, !.token = NoToken, !.pc = "connect"]
       IN CASE w.row.auth = "none" -> Becomes(t, on)
            [] w.row.auth # "none" /\ lost -> Raises(t)
            [] OTHER -> Becomes(t, [on EXCEPT !.secret = secret,
                            !.pc = IF w.row.auth = "oauth" /\ secret # 0 THEN "lookup" ELSE @])
    /\ UNCHANGED <<tick, rows, stamp, found, tokens, lost, flipped>>

KeyWithoutSecret(r, secret) == <<r.id, r.server, 0>>   \* mutant: rotation is left to _bust
TokenKey(r, secret) == <<r.id, r.server, secret>>

Hit(k) == k.until > tick + Skew

Lookup(t) ==
    /\ worker[t].pc = "lookup"
    /\ LET w == worker[t]
           hit == {k \in tokens : k.token.key = TokenKey(w.row, w.secret) /\ Hit(k)}
       IN  IF hit = {} THEN Becomes(t, [w EXCEPT !.pc = "token", !.token.got = tick])
           ELSE \E k \in hit :
                Becomes(t, [w EXCEPT !.pc = "connect", !.token = [k.token EXCEPT !.got = tick]])
    /\ UNCHANGED <<tick, rows, stamp, found, tokens, lost, flipped>>

(* Kept from when it was asked for; the endpoint counts from its answer.   *)
TokenArrives(t) ==
    /\ worker[t].pc = "token"
    /\ LET w == worker[t]   key == TokenKey(w.row, w.secret)
           new == [key |-> key, dies |-> tick + TokenLife, got |-> tick, of |-> w.secret]
       IN  /\ tokens' = {k \in tokens : k.token.key # key}
                           \cup {[token |-> new, until |-> w.token.got + TokenLife]}
           /\ Becomes(t, [w EXCEPT !.pc = "connect", !.token = new])
    /\ UNCHANGED <<tick, rows, stamp, found, lost, flipped>>

(* Without a token the header is left out.                                 *)
TokenRefused(t) ==
    /\ worker[t].pc = "token"
    /\ Becomes(t, [worker[t] EXCEPT !.pc = "connect", !.token = NoToken])
    /\ UNCHANGED <<tick, rows, stamp, found, tokens, lost, flipped>>

(* The exchange with the server, or the end of its time.                   *)
Exchange(t) ==
    /\ worker[t].pc = "connect"
    /\ LET w == worker[t]   specs == [server |-> w.row.server, asked |-> w.asked] IN
       \E ok \in BOOLEAN :
          \/ /\ w.for = "discover"
             /\ found' = IF ok THEN {f \in found : f.key # Key(w.row)}
                                    \cup {[key |-> Key(w.row), until |-> w.asked + DiscoveryTtl, specs |-> specs]}
                         ELSE found
             /\ Becomes(t, [w EXCEPT !.pc = "next", !.row = NoRow, !.secret = 0, !.token = NoToken,
                    !.offered = IF ok THEN @ \cup {Offer(w.row, specs, w.asked)} ELSE @])
          \/ /\ w.for = "call" /\ UNCHANGED found
             /\ Becomes(t, [w EXCEPT !.pc = "model", !.row = NoRow, !.secret = 0, !.token = NoToken])
          \/ w.for = "test" /\ UNCHANGED found /\ Answers(t, 200)
    /\ UNCHANGED <<tick, rows, stamp, tokens, lost, flipped>>

-----------------------------------------------------------------------------
ClockTicks ==
    /\ tick < LastTick /\ tick' = tick + 1
    /\ UNCHANGED <<rows, stamp, found, tokens, worker, lost, flipped>>

DatabaseFlips ==
    /\ flipped < MaxFlips /\ flipped' = flipped + 1 /\ lost' = ~lost
    /\ UNCHANGED <<tick, rows, stamp, found, tokens, worker>>

IntegrationsInit ==
    /\ tick = 0 /\ rows \in Tables /\ stamp = Cardinality(rows) /\ found = {} /\ tokens = {}
    /\ worker = [t \in Workers |-> Free] /\ lost = FALSE /\ flipped = 0

Handles(t) ==
    \/ Count(t) \/ Get(t) \/ Slug(t) \/ SaveRow(t) \/ BustTools(t) \/ BustTokens(t)
    \/ List(t) \/ Discover(t) \/ Converse(t)
    \/ Headers(t) \/ Lookup(t) \/ TokenArrives(t) \/ TokenRefused(t) \/ Exchange(t)

IntegrationsNext ==
    \/ ClockTicks \/ DatabaseFlips
    \/ \E t \in Workers : Handles(t) \/ \E work \in Tasks : Begins(t, work)

IntegrationsSpec == IntegrationsInit /\ [][IntegrationsNext]_integrationVars

-----------------------------------------------------------------------------
(* A turn offers what the server of the row as it was listed has offered   *)
(* within the time to live, whatever was written and invalidated while the *)
(* discovery was on its way.                                               *)
ToolsAreOfTheirRow ==
    \A t \in Workers : \A o \in worker[t].offered :
        o.specs.server = o.row.server /\ o.at - o.specs.asked <= DiscoveryTtl

(* A token goes with the row and the secret it was obtained with, and has  *)
(* not expired when it reaches the server, the time set aside for that     *)
(* included.                                                               *)
TokensAreLive ==
    \A t \in Workers : LET w == worker[t] IN
        w.pc = "connect" /\ w.token # NoToken =>
            /\ w.token.key[1] = w.row.id /\ w.token.key[2] = w.row.server /\ w.token.of = w.secret
            /\ tick <= w.token.got + Skew => w.token.dies > tick

(* The two caches cannot be told from asking again.                        *)
CachesAreTransparent == ToolsAreOfTheirRow /\ TokensAreLive

(* The names that the tools of two integrations are called by differ, and  *)
(* administrators at work together exceed the number of integrations by    *)
(* less than their own number.                                             *)
TableIsOrderly ==
    /\ Distinct(rows)
    /\ Cardinality(rows) < MaxIntegrations + Cardinality(Workers)

(* "A secret is required to enable bearer/header/oauth auth on create (or  *)
(* when switching to it without one already stored)" (violated: the stored *)
(* one may be cleared by the same edit, or by another since).              *)
AuthHasItsSecret == \A r \in rows : r.auth # "none" => r.secret # 0

(* What a call presents is of one version of the row (violated: the secret *)
(* is read when the tool is called, the rest was when the turn began).     *)
CallIsOfOneVersion ==
    \A t \in Workers : LET w == worker[t] IN
        w.pc = "connect" /\ w.for = "call" => w.secret = 0 \/ w.secret = w.row.secret

(* An administrator is answered 500 only if the database is lost, and a    *)
(* turn not even then (violated: writes that meet another's, and a secret  *)
(* that cannot be read when a tool is called).                             *)
NobodyGets500 == flipped = 0 => \A t \in Workers : worker[t].answer # 500
=============================================================================
