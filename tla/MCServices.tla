------------------------------ MODULE MCServices ------------------------------
(***************************************************************************)
(* Six parts of the service that share no state, one at a time: the        *)
(* plugins, the doors, the failover, the indexer, the integrations and the *)
(* permission gate.  A behaviour is one of a single part, while the others *)
(* rest in one initial state.                                              *)
(***************************************************************************)
EXTENDS Plugins, Access, Failover, Indexing, Integrations, PermissionGate, TLC

VARIABLES
    turn,   \* which part this behaviour is of (fixed)
    part    \* which instance of Access or Integrations (fixed)

-----------------------------------------------------------------------------
(* Plugins: everything installed, nothing, or all but one or two programs. *)
All == {"soffice", "pdftoppm", "pdftotext", "chromium", "magick", "ffmpeg", "encoder",
        "ifcConvert", "convert2xkt", "DRAWEXE"}
SomeDeployments == {All, {}, All \ {"soffice"}, All \ {"pdftoppm"}, All \ {"ifcConvert", "chromium"},
                    All \ {"convert2xkt", "encoder"}, All \ {"DRAWEXE", "magick", "pdftotext"}}
SomeOrders == {<<"auto">>, <<"ifcopenshell">>}

PluginsStart == PluginInit /\ (turn # "plugins" => programs = {} /\ ifcOrder = <<"auto">>)

-----------------------------------------------------------------------------
(* Access, "cache": two threads and two sessions around the cache of       *)
(* verdicts, with nothing happening to the groups.  "doors": one thread    *)
(* that comes in by every door while the user's groups change.             *)
OnlyReads == [t \in Tenants |-> IF t = Home THEN "reader" ELSE None]

AccessStart ==
    /\ AccessInit /\ (turn = "access" => part \in {"cache", "doors"})
    /\ part # "doors" => ~service /\ member = OnlyReads
    /\ part = "doors" => service = ~secret /\ \A t \in Tenants \ {Home} : member[t] # "reader"
    /\ turn \notin {"access", "integrations"} => part = "cache"
    /\ turn # "access" => secret

Arrives(t) == served'[t] > served[t]
Alone(t) == \A s \in Threads \ {t} : served[s] = 0

AccessMoves ==
    /\ AccessNext
    /\ part = "cache" =>
          /\ member' = member
          /\ \A j \in Sessions : ~session'[j].ticket /\ session'[j].names \subseteq {Home}
          /\ \A t \in Threads : Arrives(t) =>
                served[t] = 0 /\ request'[t].door = "session" /\ request'[t].tenant = Home
    /\ part = "doors" =>
          /\ redis' /\ revoked' = revoked /\ time' < Horizon
          /\ \A j, k \in Sessions : session'[j].at # Never /\ session'[k].at # Never => j = k
          /\ \A t \in Threads : Arrives(t) => Alone(t)

-----------------------------------------------------------------------------
FailoverStart == FailoverInit /\ (turn # "failover" => server = "database" /\ replica /\ tables = {})

(* Indexing: providers that take one text or two or none: no letter of it, *)
(* only its beginning, just what cutting comes down to, or a whole chunk.  *)
SomeLimits == [items : 0..2, length : {0, 1, 2, 8}]

IndexingStart ==
    IF turn = "indexing" THEN IndexingInit
    ELSE /\ shape = <<>> /\ limit = [items |-> 1, length |-> 8]
         /\ phase = "indexed" /\ kept = <<>> /\ todo = <<>> /\ texts = <<>>

-----------------------------------------------------------------------------
(* Integrations, "table": the table is written by two administrators;      *)
(* "turns": one row that has tools, edited while a turn discovers and calls*)
(* them; "tokens": one row with OAuth, whose credential is changed.        *)
Same == [name |-> 0, auth |-> "same", secret |-> "same", server |-> "same", enabled |-> "same"]
Create(n) == [op |-> "create", edit |-> [Same EXCEPT !.name = n, !.auth = "none", !.server = "new",
                                                     !.enabled = "on"]]
Update(edit) == [op |-> "update", edit |-> edit]
TasksOf == [table |-> {Create(1), Create(2), Create(3), Update([Same EXCEPT !.name = 2]), [op |-> "delete"]},
            turns |-> {[op |-> "turn"], [op |-> "delete"], Update([Same EXCEPT !.auth = "none"]),
                       Update([Same EXCEPT !.server = "new", !.secret = "new"])},
            tokens |-> {[op |-> "test"], Update([Same EXCEPT !.secret = "new"]),
                        Update([Same EXCEPT !.server = "new", !.secret = "clear"])}]
SomeTasks == UNION {TasksOf[p] : p \in DOMAIN TasksOf}

Row(kind, key) ==
    [NoRow EXCEPT !.id = 1, !.version = 1, !.name = 1, !.slug = 1, !.auth = kind, !.secret = key,
                  !.server = 1, !.enabled = TRUE, !.open = TRUE]
TableOf == [table |-> {}, turns |-> {Row("bearer", 1)}, tokens |-> {Row("oauth", 1)}]
SomeTables == {TableOf[p] : p \in DOMAIN TableOf}

IntegrationsStart ==
    /\ IntegrationsInit
    /\ turn = "integrations" => part \in DOMAIN TableOf
    /\ rows = TableOf[IF turn = "integrations" THEN part ELSE "table"]

IntegrationsMoves ==
    /\ IntegrationsNext
    /\ \A t \in Workers : worker[t].pc = "free" /\ worker'[t].pc # "free" =>
          worker'[t].work \in TasksOf[part] /\ (part # "table" => worker'[t].work.op = "turn" \/ stamp < 2)
    /\ part = "table" => tick' = tick
    /\ part = "turns" => \A t, u \in Workers :
          (t # u /\ "free" \notin {worker'[t].pc, worker'[u].pc}) =>
              (worker'[t].work.op = "turn" <=> worker'[u].work.op # "turn")
    /\ part = "tokens" => \A r \in rows' : r.open

-----------------------------------------------------------------------------
(* The gate: every start, of calls that may ask about different pairs.     *)
GateStart ==
    Init /\ (turn # "gate" => /\ acl = Pairs /\ there = Files
                              /\ \E first \in Pairs : pair = [r \in Requests |-> first])

-----------------------------------------------------------------------------
ServicesInit ==
    /\ turn \in {"plugins", "access", "failover", "indexing", "integrations", "gate"}
    /\ part \in {"cache", "doors"} \cup DOMAIN TableOf
    /\ PluginsStart /\ AccessStart /\ FailoverStart /\ IndexingStart /\ IntegrationsStart
    /\ GateStart

PluginsTurn == turn = "plugins" /\ PluginNext
    /\ UNCHANGED <<turn, part, accessVars, failoverVars, indexingVars, integrationVars, vars>>
AccessTurn == turn = "access" /\ AccessMoves
    /\ UNCHANGED <<turn, part, pluginVars, failoverVars, indexingVars, integrationVars, vars>>
FailoverTurn == turn = "failover" /\ FailoverNext
    /\ UNCHANGED <<turn, part, pluginVars, accessVars, indexingVars, integrationVars, vars>>
IndexingTurn == turn = "indexing" /\ IndexingNext
    /\ UNCHANGED <<turn, part, pluginVars, accessVars, failoverVars, integrationVars, vars>>
IntegrationsTurn == turn = "integrations" /\ IntegrationsMoves
    /\ UNCHANGED <<turn, part, pluginVars, accessVars, failoverVars, indexingVars, vars>>

GateTurn == turn = "gate" /\ Next
    /\ UNCHANGED <<turn, part, pluginVars, accessVars, failoverVars, indexingVars, integrationVars>>

ServicesNext == PluginsTurn \/ AccessTurn \/ FailoverTurn \/ IndexingTurn \/ IntegrationsTurn \/ GateTurn

ServicesSpec ==
    /\ ServicesInit
    /\ [][ServicesNext]_<<turn, part, pluginVars, accessVars, failoverVars, indexingVars, integrationVars,
                          vars>>

(* Threads, clients and requests have the same names in Services.cfg, for  *)
(* only one part moves: a permutation renames them in all parts at once.   *)
Alike == Permutations(Threads) \cup Permutations(Sessions)
=============================================================================
