------------------------------ MODULE PromptSets ------------------------------
(***************************************************************************)
(* Extraction prompt sets of one tenant: a named definition with numbered  *)
(* revisions, drafted and published by editors in the web application,     *)
(* published by applications with an API key, and read by runs.  Every     *)
(* method of PromptSetStore is a transaction; a request of                 *)
(* PromptSetService is several of them, with what the earlier ones read    *)
(* still in hand when the later ones write.  The handlers run in threads   *)
(* and in several API processes, so requests interleave anywhere between   *)
(* transactions.                                                           *)
(***************************************************************************)
EXTENDS Naturals, Sequences, FiniteSets

CONSTANTS
    Editors,        \* people with an editor role, in the web application
    Apps,           \* API key sessions without one
    Readers,        \* extractions with a prompt set
    Sets,           \* ids there may be
    Texts, Slugs,   \* what two definitions may differ in
    NoSlug,
    AppSets,        \* prompt_set_app_max_sets
    PerDay,         \* prompt_set_app_revisions_per_day
    MaxRevisions,   \* bound: revisions of a set
    Bases,          \* bound: revisions that requests name
    Mixes           \* how many requests each client makes: see Mix

Clients == Editors \cup Apps \cup Readers
Mix == [Clients -> Nat]
Bodies == [text: Texts, slug: Slugs \cup {NoSlug}]

ASSUME PromptAssumption ==
    /\ NoSlug \notin Slugs /\ Mixes \subseteq Mix
    /\ Sets # {} /\ Texts # {} /\ Slugs # {}
    /\ Bases \subseteq 0..MaxRevisions
    /\ AppSets \in Nat /\ PerDay \in Nat \ {0} /\ MaxRevisions \in Nat \ {0}
    /\ IsFiniteSet(Apps) /\ Apps # {} /\ Editors \cap Apps = {} /\ (Editors \cup Apps) \cap Readers = {}

(* A row of prompt_sets: is it there, its slug, is it active, who manages  *)
(* it, is it locked, the current published revision.                       *)
Rows == [there: BOOLEAN, slug: Slugs \cup {NoSlug}, active: BOOLEAN,
         managed: {"builder", "application"}, locked: BOOLEAN, current: 0..MaxRevisions]
Absent == [there |-> FALSE, slug |-> NoSlug, active |-> TRUE, managed |-> "builder",
           locked |-> FALSE, current |-> 0]

(* A row of prompt_set_revisions; "app" if an application added it.        *)
Revisions == [body: Bodies, published: BOOLEAN, app: BOOLEAN]

EditorOps == {"create", "save", "publish", "retire", "control", "import"}
AppOps == {"app", "appdraft", "appretire"}
Ops == EditorOps \cup AppOps \cup {"run"}

(* Where a request is: the transaction that comes next.                    *)
Stages == {"idle", "look", "slug", "draft", "make", "write",
           "find", "again", "count", "check", "day", "pick"}

(* A request: what it is for, the revision it builds on or asks for (none  *)
(* or one), and what it read.                                              *)
Calls == [op: Ops, at: Stages, set: Sets, body: Bodies, base: SUBSET (0..MaxRevisions),
          seen: Rows, draft: 0..MaxRevisions]

VARIABLES
    row,        \* prompt_sets
    rev,        \* prompt_set_revisions, in order
    call,       \* the request of each client
    left,       \* requests each client still makes
    overtaken,  \* history: clients whose set was changed since they read it
    ran         \* history: <<set, revision, body>> that runs were given

promptVars == <<row, rev, call, left, overtaken, ran>>

PromptTypeOK ==
    /\ row \in [Sets -> Rows]
    /\ rev \in [Sets -> Seq(Revisions)]
    /\ \A s \in Sets : Len(rev[s]) <= MaxRevisions
    /\ call \in [Clients -> Calls]
    /\ left \in [Clients -> Nat]
    /\ overtaken \subseteq Clients
    /\ ran \subseteq Sets \X (1..MaxRevisions) \X Bodies

-----------------------------------------------------------------------------
(* The store.                                                              *)

Slugged(s, slug) == row[s].there /\ slug # NoSlug /\ row[s].slug = slug
BySlug(slug) == {s \in Sets : Slugged(s, slug)}

Latest(s) == rev[s][Len(rev[s])]

(* _draft: the latest revision, if it is a draft.                          *)
Draft(s) == IF rev[s] # <<>> /\ ~Latest(s).published THEN Len(rev[s]) ELSE 0

(* _sync: the row mirrors the revision that becomes current, unless its    *)
(* slug is another set's: the transaction is then rolled back.             *)
Fits(s, body) == BySlug(body.slug) \subseteq {s}

Synced(s, n, body) ==
    [row EXCEPT ![s].current = n, ![s].active = TRUE,
                ![s].slug = IF body.slug = NoSlug THEN @ ELSE body.slug]

InsertSet(s, slug, managed) ==
    row' = [row EXCEPT ![s] = [Absent EXCEPT !.there = TRUE, !.slug = slug,
                                             !.managed = managed]]

AddRevision(s, body, published, app) ==
    /\ Len(rev[s]) < MaxRevisions
    /\ rev' = [rev EXCEPT ![s] = Append(@, [body |-> body, published |-> published,
                                            app |-> app])]
    /\ row' = IF published THEN Synced(s, Len(rev[s]) + 1, body) ELSE row

(* update_draft: not a draft any more, nothing is updated.                 *)
UpdateDraft(s, n, body) ==
    /\ rev' = IF rev[s][n].published THEN rev ELSE [rev EXCEPT ![s][n].body = body]
    /\ UNCHANGED row

(* Mutant: the row is made to mirror the body that was checked.            *)
PublishAsRead(s, n, read) ==
    IF rev[s][n].published THEN UNCHANGED <<row, rev>>
    ELSE /\ rev' = [rev EXCEPT ![s][n].published = TRUE]
         /\ row' = Synced(s, n, read)

(* publish_revision of the draft n, whose body may not be the one read.    *)
PublishRevision(s, n, read) ==
    IF rev[s][n].published THEN UNCHANGED <<row, rev>>
    ELSE /\ rev' = [rev EXCEPT ![s][n].published = TRUE]
         /\ row' = Synced(s, n, rev[s][n].body)

UpdateSet(s, fields) == row' = [row EXCEPT ![s] = fields] /\ UNCHANGED rev

-----------------------------------------------------------------------------
(* Requests.                                                               *)

AnySet == CHOOSE s \in Sets : TRUE
AnyBody == CHOOSE b \in Bodies : b.slug # NoSlug

Blank == [op |-> "run", at |-> "idle", set |-> AnySet, body |-> AnyBody, base |-> {},
          seen |-> Absent, draft |-> 0]

(* A set there is at first, if any: published by either side.              *)
First(managed) ==
    /\ row = [r \in Sets |-> IF r # AnySet THEN Absent ELSE
                [Absent EXCEPT !.there = TRUE, !.slug = AnyBody.slug, !.managed = managed,
                               !.current = 1]]
    /\ rev = [r \in Sets |-> IF r # AnySet THEN <<>> ELSE
                <<[body |-> AnyBody, published |-> TRUE, app |-> managed = "application"]>>]

PromptInit ==
    /\ left \in Mixes
    /\ call = [c \in Clients |-> Blank]
    /\ overtaken = {} /\ ran = {}
    /\ \/ row = [s \in Sets |-> Absent] /\ rev = [s \in Sets |-> <<>>]
       \/ \E managed \in {"builder", "application"} : First(managed)

Advance(c, stage) == call' = [call EXCEPT ![c].at = stage]

Ends(c) == call' = [call EXCEPT ![c] = Blank]

(* Answered or refused, with nothing written.                              *)
Over(c) == Ends(c) /\ overtaken' = overtaken \ {c} /\ UNCHANGED <<row, rev>>

(* The last write of a request: whoever read the set is overtaken.         *)
WritesTo(c, s) ==
    /\ Ends(c)
    /\ overtaken' = (overtaken \cup {d \in Clients : call[d].at # "idle" /\ call[d].set = s})
                        \ {c}

(* A step that only reads.                                                 *)
Reads == UNCHANGED <<row, rev, overtaken>>

Entry(op) ==
    CASE op = "create" -> "make"
      [] op = "publish" -> "draft"
      [] op \in AppOps \cup {"import"} -> "find"
      [] OTHER -> "look"

(* What a request carries: the id of a set, a definition (an application's *)
(* has a slug), the revision it builds on or wants.                        *)
SetsOf(op) ==
    IF op \in {"save", "publish", "retire", "control", "run"} THEN Sets ELSE {AnySet}

BodiesOf(op) ==
    CASE op \in {"create", "save", "import"} -> Bodies
      [] op \in {"app", "appdraft"} -> {b \in Bodies : b.slug # NoSlug}
      [] OTHER -> {AnyBody}

BasesOf(op) ==
    IF op \in {"app", "appdraft", "run"} THEN {{}} \cup {{n} : n \in Bases} ELSE {{}}

Request(c) ==
    /\ call[c].at = "idle" /\ left[c] > 0
    /\ left' = [left EXCEPT ![c] = @ - 1]
    /\ \E op \in IF c \in Editors THEN EditorOps ELSE IF c \in Apps THEN AppOps ELSE {"run"} :
       \E s \in SetsOf(op), b \in BodiesOf(op), base \in BasesOf(op) :
         call' = [call EXCEPT ![c] = [Blank EXCEPT !.op = op, !.at = Entry(op), !.set = s,
                                                   !.body = b, !.base = base]]
    /\ Reads /\ UNCHANGED ran

(* The set is looked up by its id.                                         *)
GetSet(c) ==
    LET q == call[c] s == q.set IN
    /\ q.at = "look" /\ q.op # "run"
    /\ IF ~row[s].there THEN Over(c)
       ELSE /\ Advance(c, CASE q.op # "save" -> "write"
                         [] q.op = "save" /\ q.body.slug \in {NoSlug, row[s].slug} -> "draft"
                         [] OTHER -> "slug")
            /\ Reads
    /\ UNCHANGED <<left, ran>>

(* Is the slug another set's?                                              *)
CheckSlug(c) ==
    LET q == call[c] IN
    /\ q.at = "slug"
    /\ IF ~Fits(q.set, q.body) THEN Over(c)
       ELSE Advance(c, IF q.op = "save" THEN "draft" ELSE "write") /\ Reads
    /\ UNCHANGED <<left, ran>>

(* The draft that a save goes into, or that is published with the body it  *)
(* has now.                                                                *)
FindDraft(c) ==
    LET q == call[c] s == q.set n == Draft(s) IN
    /\ q.at = "draft"
    /\ IF q.op # "publish"
       THEN call' = [call EXCEPT ![c].draft = n, ![c].at = "write"] /\ Reads
       ELSE IF n = 0 THEN Over(c)
       ELSE /\ call' = [call EXCEPT ![c].draft = n, ![c].body = rev[s][n].body,
                          ![c].at = IF rev[s][n].body.slug = NoSlug THEN "write" ELSE "slug"]
            /\ Reads
    /\ UNCHANGED <<left, ran>>

(* A new set, in a transaction before the one of its first revision; the   *)
(* slug may be taken by now.                                               *)
CreateSet(c) ==
    LET q == call[c] app == q.op \in AppOps IN
    /\ q.at = "make"
    /\ IF BySlug(q.body.slug) # {}
       THEN IF app THEN Advance(c, "again") /\ Reads ELSE Over(c)
       ELSE LET free == {s \in Sets : ~row[s].there} s == CHOOSE r \in free : TRUE IN
              /\ free # {}
              /\ InsertSet(s, q.body.slug, IF app THEN "application" ELSE "builder")
              /\ call' = [call EXCEPT ![c].set = s, ![c].draft = 0,
                             ![c].at = IF q.op = "appdraft" THEN "draft" ELSE "write"]
              /\ overtaken' = overtaken \ {c}
              /\ UNCHANGED rev
    /\ UNCHANGED <<left, ran>>

(* import_yaml, one definition: an existing set of that slug or name gets  *)
(* a new draft, or the definition becomes a set of its own, without the    *)
(* slug if it is taken.                                                    *)
Import(c) ==
    LET q == call[c] IN
    /\ q.at = "find" /\ q.op = "import"
    /\ LET taken == BySlug(q.body.slug)
           same == IF taken # {} THEN taken ELSE {s \in Sets : row[s].there} IN
       \/ \E s \in same : call' = [call EXCEPT ![c].set = s, ![c].at = "draft"]
       \/ call' = [call EXCEPT ![c].at = "make",
                               ![c].body.slug = IF taken = {} THEN @ ELSE NoSlug]
    /\ Reads /\ UNCHANGED <<left, ran>>

-----------------------------------------------------------------------------
(* Applications.                                                           *)

(* by_slug: the row as it is now.  Asked again after the slug was taken,   *)
(* and given up by then, there is none and the request fails.              *)
FindSlug(c) ==
    LET q == call[c] IN
    /\ q.at \in {"find", "again"} /\ q.op \in AppOps
    /\ \/ \E s \in BySlug(q.body.slug) :
            /\ call' = [call EXCEPT ![c].set = s, ![c].seen = row[s], ![c].at = "check"]
            /\ overtaken' = overtaken \ {c} /\ UNCHANGED <<row, rev>>
       \/ /\ BySlug(q.body.slug) = {}
          /\ IF q.op = "appretire" \/ q.at = "again" THEN Over(c)
             ELSE Advance(c, "count") /\ Reads
    /\ UNCHANGED <<left, ran>>

CountSets(c) ==
    LET managed == {s \in Sets : row[s].there /\ row[s].managed = "application"} IN
    /\ call[c].at = "count"
    /\ IF Cardinality(managed) >= AppSets THEN Over(c) ELSE Advance(c, "make") /\ Reads
    /\ UNCHANGED <<left, ran>>

(* Mutant: a lock is not looked at.                                        *)
ForbiddenByOwner(seen) == seen.managed = "builder"

(* The editor's decisions, of the row that was read.                       *)
Forbidden(seen) == seen.managed = "builder" \/ seen.locked

Same(q) == q.seen.current # 0 /\ rev[q.set][q.seen.current].body = q.body

Stale(q) == q.base # {} /\ q.seen.current \notin q.base

CheckApp(c) ==
    LET q == call[c] IN
    /\ q.at = "check"
    /\ IF q.op = "appretire"
       THEN IF Forbidden(q.seen) THEN Over(c) ELSE Advance(c, "look") /\ Reads
       ELSE IF ~q.seen.active \/ (q.op = "app" /\ Same(q)) \/ Forbidden(q.seen) \/ Stale(q)
       THEN Over(c) ELSE Advance(c, "day") /\ Reads
    /\ UNCHANGED <<left, ran>>

(* Mutant: revisions are not counted.                                      *)
CheckNoDay(c) ==
    /\ call[c].at = "day"
    /\ Advance(c, IF call[c].op = "app" THEN "write" ELSE "draft") /\ Reads
    /\ UNCHANGED <<left, ran>>

(* revisions_since: the revisions of the day, here of all time.            *)
CheckDay(c) ==
    LET q == call[c] IN
    /\ q.at = "day"
    /\ IF Len(rev[q.set]) >= PerDay THEN Over(c)
       ELSE Advance(c, IF q.op = "app" THEN "write" ELSE "draft") /\ Reads
    /\ UNCHANGED <<left, ran>>

-----------------------------------------------------------------------------
(* The writes.                                                             *)

WriteDraft(c) ==
    LET q == call[c] IN
    /\ q.at = "write" /\ q.op \in {"create", "save", "import", "appdraft"}
    /\ IF q.draft # 0 THEN UpdateDraft(q.set, q.draft, q.body)
       ELSE AddRevision(q.set, q.body, FALSE, q.op = "appdraft")
    /\ WritesTo(c, q.set) /\ UNCHANGED <<left, ran>>

Publish(c) ==
    LET q == call[c] IN
    /\ q.at = "write" /\ q.op = "publish"
    /\ IF Fits(q.set, rev[q.set][q.draft].body)
       THEN PublishRevision(q.set, q.draft, q.body) /\ WritesTo(c, q.set)
       ELSE Over(c)
    /\ UNCHANGED <<left, ran>>

AppPublish(c) ==
    LET q == call[c] IN
    /\ q.at = "write" /\ q.op = "app"
    /\ IF Fits(q.set, q.body) THEN AddRevision(q.set, q.body, TRUE, TRUE) /\ WritesTo(c, q.set)
       ELSE Over(c)
    /\ UNCHANGED <<left, ran>>

Retire(c) ==
    LET q == call[c] IN
    /\ q.at = "write" /\ q.op \in {"retire", "appretire"}
    /\ UpdateSet(q.set, [row[q.set] EXCEPT !.active = FALSE])
    /\ WritesTo(c, q.set) /\ UNCHANGED <<left, ran>>

(* Taking over or giving back, locking or unlocking.                       *)
SetControl(c) ==
    LET q == call[c] IN
    /\ q.at = "write" /\ q.op = "control"
    /\ \E managed \in {"builder", "application"}, locked \in BOOLEAN :
         UpdateSet(q.set, [row[q.set] EXCEPT !.managed = managed, !.locked = locked])
    /\ WritesTo(c, q.set) /\ UNCHANGED <<left, ran>>

-----------------------------------------------------------------------------
(* resolve_for_run: the set, then the current revision or the one asked    *)
(* for.                                                                    *)
GetRunSet(c) ==
    LET q == call[c] s == q.set IN
    /\ q.at = "look" /\ q.op = "run"
    /\ IF row[s].there /\ row[s].current # 0 /\ row[s].active
       THEN call' = [call EXCEPT ![c].seen = row[s], ![c].at = "pick"] /\ Reads
       ELSE Over(c)
    /\ UNCHANGED <<left, ran>>

Wanted(q) == IF q.base = {} THEN {q.seen.current} ELSE q.base

GetRunRevision(c) ==
    LET q == call[c] IN
    /\ q.at = "pick"
    /\ ran' = ran \cup {<<q.set, n, rev[q.set][n].body>> :
                          n \in {m \in Wanted(q) \cap (1..Len(rev[q.set])) :
                                   rev[q.set][m].published}}
    /\ Over(c) /\ UNCHANGED left

-----------------------------------------------------------------------------
Serve(c) ==
    \/ Request(c)
    \/ GetSet(c) \/ CheckSlug(c) \/ FindDraft(c) \/ CreateSet(c) \/ Import(c)
    \/ FindSlug(c) \/ CountSets(c) \/ CheckApp(c) \/ CheckDay(c)
    \/ WriteDraft(c) \/ Publish(c) \/ AppPublish(c) \/ Retire(c) \/ SetControl(c)
    \/ GetRunSet(c) \/ GetRunRevision(c)

PromptNext == \E c \in Clients : Serve(c)

PromptSpec == PromptInit /\ [][PromptNext]_promptVars

-----------------------------------------------------------------------------
(* What a run was given was published then and still is, word for word,    *)
(* whatever drafts are saved, published or imported around it: a binding   *)
(* that pins a revision always runs the same definition.                   *)
RunsArePublished ==
    \A x \in ran : rev[x[1]][x[2]].published /\ rev[x[1]][x[2]].body = x[3]

(* A set's row mirrors its current revision, which is a published one,     *)
(* although drafts are updated between being read and being published.     *)
MirrorsCurrent ==
    \A s \in Sets : row[s].current # 0 =>
        LET r == rev[s][row[s].current] IN
        r.published /\ r.body.slug \in {NoSlug, row[s].slug}

(* The two together: publication is for good, seen from a run as from the  *)
(* set's row.                                                              *)
PublishedStays == RunsArePublished /\ MirrorsCurrent

(* Applications exceed the revisions of a day by at most one for each      *)
(* request that was let in together with others.                           *)
AppsStayInTheDay ==
    \A s \in Sets :
        Cardinality({n \in 1..Len(rev[s]) : rev[s][n].app}) < PerDay + Cardinality(Apps)

(* A publication of an application overrides neither an editor - a lock, a *)
(* takeover, a retirement - nor the revision it says it builds on, unless  *)
(* the set was changed while the request was under way.                    *)
OpenTo(q) ==
    /\ row[q.set].active /\ row[q.set].managed = "application" /\ ~row[q.set].locked
    /\ q.seen.there /\ q.base # {} => row[q.set].current \in q.base

QuietDecisionsStand ==
    [][\A c \in Apps \ overtaken :
         call[c].at = "write" /\ call[c].op = "app" /\ rev' # rev /\ call'[c].at = "idle"
           => OpenTo(call[c])]_promptVars

(* "Nothing an editor decides can be overridden by an application"         *)
(* (EXTRACTION_PROMPT_SETS.md, 4.5).                                       *)
DecisionsStand ==
    [][\A c \in Apps :
         call[c].at = "write" /\ call[c].op = "app" /\ call'[c].at = "idle"
           => ~Forbidden(row[call[c].set])]_promptVars

(* A save that answers with a draft has its definition in that draft       *)
(* (PromptSetService.save_draft; violated when the draft is published      *)
(* between the look for it and the update).                                *)
SavesAreKept ==
    [][\A c \in Editors :
         LET q == call[c] IN
         q.at = "write" /\ q.op = "save" /\ call'[c].at = "idle" /\ q.draft # 0
           => rev'[q.set][q.draft].body = q.body]_promptVars
=============================================================================
