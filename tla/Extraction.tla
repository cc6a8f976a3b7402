------------------------------ MODULE Extraction ------------------------------
(***************************************************************************)
(* Extraction runs: the job threads of all csai instances, which drain the *)
(* Redis stream folder automation fills, and POST /v1/extract requests.    *)
(* Both read a file's stored text, answer from the version's sidecar or    *)
(* ask the model, write the sidecar and announce it, while files are       *)
(* revised, re-indexed and erased around them.                             *)
(*                                                                         *)
(* Every call of a service that others write to as well is a step.  How a  *)
(* text is cut and asked is in Windows and ExtractItem: here the model     *)
(* answers validly, uselessly or not at all.  UsageMeter takes the calls   *)
(* of the counter behind the slots apart, Conversion those of re-indexing. *)
(* A run over several files repeats what is modelled here for one.         *)
(***************************************************************************)
EXTENDS Integers, FiniteSets

CONSTANTS
    Threads,        \* JobWorker threads
    Calls,          \* requests to POST /v1/extract
    Jobs,           \* extraction jobs
    Converters,     \* who converts files besides: the event loop, sweeps, requests
    Files,
    Questions,      \* what cache_key tells apart: schema, instructions, model
    MaxVersion,     \* bound: versions of a file
    Slots,          \* concurrent_runs of the automation budget
    Mixes           \* what happens in a behaviour: see Mix

Versions == 1..MaxVersion
Runs == Threads \cup Calls
Tasks == Jobs \cup Calls

(* A version's content: with text, without any, or of no supported type.   *)
Contents == {"text", "image", "blob"}

(* Which threads, jobs, calls and converters there are, how many versions  *)
(* of what content, whether the first one is converted already, whether    *)
(* files are erased, whether the budget runs out and the prompt set is     *)
(* retired, whether the counter's key expires meanwhile, and how often     *)
(* threads are killed and Redis is out of reach.                           *)
Mix == [threads: SUBSET Threads, jobs: SUBSET Jobs, calls: SUBSET Calls,
        converters: SUBSET Converters,
        versions: Versions, contents: SUBSET Contents, converted: BOOLEAN,
        erasures: BOOLEAN, refusals: BOOLEAN, expiries: BOOLEAN, kills: Nat, faults: Nat]

ASSUME ExtractionAssumption ==
    /\ Threads \cap Calls = {} /\ Jobs \cap Calls = {} /\ Converters \cap Runs = {}
    /\ IsFiniteSet(Threads)
    /\ MaxVersion \in Nat \ {0} /\ Slots \in Nat \ {0}
    /\ Mixes \subseteq Mix

(* Where a run is.  "pass" is a job thread between jobs, "done" a run that *)
(* has only its slot and its message left to give back.                    *)
Stages == {"pass", "begin", "resolve", "next", "text", "convert", "again",
           "lookup", "ask", "read", "write", "announce", "item", "done", "over"}

(* From the text to the result: the file's content is in hand.             *)
Reading == {"lookup", "ask", "read", "write", "announce", "item"}

(* <version>-extract.json: each entry with the version its text was of.    *)
Sidecars == [there: BOOLEAN, entries: SUBSET (Questions \X Versions)]
NoSidecar == [there |-> FALSE, entries |-> {}]

(* The row of a file in documents: the version it says it is of (0: there  *)
(* is no row), how far its conversion is, and the version that its text    *)
(* was fetched as (0: no text).                                            *)
Rows == [of: 0..MaxVersion, status: {"none", "converting", "settled", "unsupported"},
         text: 0..MaxVersion]
NoRow == [of |-> 0, status |-> "none", text |-> 0]
ConvertedRow == [of |-> 1, status |-> "settled", text |-> 1]

(* A call of convert that has passed the refusals: for whom, what was      *)
(* stat'ed, what was fetched and what it does next.                        *)
Conversions == [by: Converters \cup Runs, file: Files, of: Versions, got: Versions,
                step: {"fetch", "mark", "prune", "record"}]

VARIABLES
    mix,            \* which of Mixes this behaviour keeps to (fixed)
    \* the core and the derived store
    version,        \* the current version of each file
    erased,         \* files truly deleted
    forgotten,      \* erased files whose derived data was destroyed
    readable,       \* files the requesters may READ (fixed)
    content,        \* what each version is (fixed)
    row,            \* what is stored of each file
    conversions,    \* conversions in flight
    sidecar,        \* by file and version
    results,        \* values in headless_results: <<call, file, version, text's version>>
    \* the queue
    asks,           \* the file and the question of each job and call (fixed)
    msg,            \* "unsent", "queued", "pending" or "acked"
    idle,           \* pending jobs delivered extract_job_budget_retry_s ago
    aged,           \* jobs older than extract_job_budget_wait_s
    exhausted,      \* is the day's budget used up?
    retired,        \* is the prompt set retired?
    slots,          \* the counter of the automation's runs ...
    expiry,         \* ... and its key: there is "none", it is "set" to expire, or "never"
    \* the runs
    started,        \* threads there are
    at,
    claiming,       \* has the thread read its new job of this pass?
    hand,           \* jobs the thread was given and has not finished
    task,           \* what the run is for, as a set of one
    target,         \* the version resolved
    text,           \* the version its text is of, 0 before there is any
    seen,           \* the sidecar as last read
    hungUp,         \* calls whose client is gone
    \* history
    told,           \* jobs an event was published for
    excused,        \* jobs that met one of the ends that publish none
    lastReaders,    \* runs that had a file's text in hand when it was forgotten
    raced,          \* files forgotten with a conversion of theirs in flight
    hasty,          \* <<file, version>> of texts taken from a row in conversion
    promised,       \* entries announced, while their version and file last
    kills, faults

coreVars == <<version, erased, forgotten, readable, content, row, conversions>>
slotVars == <<slots, expiry>>
queueVars == <<asks, msg, idle, aged, exhausted, retired, slotVars>>
loopVars == <<claiming, hand, task>>
frameVars == <<target, text, seen>>
eventVars == <<told, excused>>
historyVars == <<lastReaders, raced, hasty, promised>>
boundVars == <<mix, kills, faults>>
extractionVars == <<coreVars, sidecar, results, queueVars, started, at, loopVars, frameVars,
                    hungUp, eventVars, historyVars, boundVars>>

ExtractionTypeOK ==
    /\ version \in [Files -> Versions] /\ erased \subseteq Files
    /\ forgotten \subseteq erased /\ row \in [Files -> Rows]
    /\ readable \subseteq Files /\ content \in [Versions -> Contents]
    /\ conversions \subseteq Conversions
    /\ sidecar \in [Files -> [Versions -> Sidecars]]
    /\ results \subseteq Calls \X Files \X Versions \X Versions
    /\ asks \in [Tasks -> Files \X Questions]
    /\ msg \in [Jobs -> {"unsent", "queued", "pending", "acked"}]
    /\ idle \subseteq Jobs /\ aged \subseteq Jobs
    /\ exhausted \in BOOLEAN /\ retired \in BOOLEAN
    /\ slots \in Int /\ expiry \in {"none", "set", "never"}
    /\ started \subseteq Threads
    /\ at \in [Runs -> Stages] /\ claiming \in [Threads -> BOOLEAN]
    /\ hand \in [Threads -> SUBSET Jobs] /\ task \in [Runs -> SUBSET Tasks]
    /\ target \in [Runs -> 0..MaxVersion] /\ text \in [Runs -> 0..MaxVersion]
    /\ seen \in [Runs -> Sidecars]
    /\ hungUp \subseteq Calls
    /\ told \subseteq Jobs /\ excused \subseteq Jobs
    /\ lastReaders \in [Files -> SUBSET Runs]
    /\ raced \subseteq Files /\ hasty \subseteq Files \X Versions
    /\ promised \subseteq Files \X Versions \X Questions
    /\ mix \in Mixes /\ kills \in Nat /\ faults \in Nat

ExtractionInit ==
    /\ mix \in Mixes
    /\ version = [f \in Files |-> 1] /\ erased = {} /\ forgotten = {}
    /\ readable \in {Files} \cup {Files \ {f} : f \in Files}
    /\ content \in [Versions -> mix.contents]
    /\ mix.converted => content[1] = "text"
    /\ row = [f \in Files |-> IF mix.converted THEN ConvertedRow ELSE NoRow]
    /\ conversions = {}
    /\ sidecar = [f \in Files |-> [v \in Versions |-> NoSidecar]]
    /\ results = {}
    /\ asks \in [Tasks -> Files \X Questions]
    /\ \A k \in Tasks \ (mix.jobs \cup mix.calls) :
         asks[k] = CHOOSE x \in Files \X Questions : TRUE
    /\ msg = [j \in Jobs |-> "unsent"] /\ idle = {} /\ aged = {}
    /\ exhausted = FALSE /\ retired = FALSE
    /\ slots = 0 /\ expiry = "none"
    /\ started \in IF mix.faults = 0 THEN {mix.threads} ELSE SUBSET mix.threads
    /\ at = [r \in Runs |-> IF r \in Threads THEN "pass" ELSE "begin"]
    /\ claiming = [t \in Threads |-> FALSE]
    /\ hand = [t \in Threads |-> {}]
    /\ task = [r \in Runs |-> IF r \in Threads THEN {} ELSE {r}]
    /\ target = [r \in Runs |-> 0] /\ text = [r \in Runs |-> 0]
    /\ seen = [r \in Runs |-> NoSidecar]
    /\ hungUp = {}
    /\ told = {} /\ excused = {}
    /\ lastReaders = [f \in Files |-> {}] /\ raced = {} /\ hasty = {} /\ promised = {}
    /\ kills = 0 /\ faults = 0

(* The file and the question of a run.                                     *)
Asks(r, f, q) == \E k \in task[r] : asks[k] = <<f, q>>

Goto(r, stage) == at' = [at EXCEPT ![r] = stage]

(* An event for the job, if the run is for one, published or lost; a call  *)
(* has its stream instead, which is not modelled.                          *)
Tell(r) ==
    \/ told' = told \cup (task[r] \cap Jobs) /\ UNCHANGED excused
    \/ excused' = excused \cup (task[r] \cap Jobs) /\ UNCHANGED told

Excuse(r) == excused' = excused \cup (task[r] \cap Jobs) /\ UNCHANGED told

-----------------------------------------------------------------------------
(* Around the runs.                                                        *)

quiet == <<started, at, loopVars, frameVars>>

(* The core takes a new version.                                           *)
Revise(f) ==
    /\ f \notin erased /\ version[f] < mix.versions
    /\ version' = [version EXCEPT ![f] = @ + 1]
    /\ UNCHANGED <<erased, forgotten, readable, content, row, conversions, sidecar, results,
                   queueVars, quiet, hungUp, eventVars, historyVars, boundVars>>

(* A true delete: the sidecars go with the file.                           *)
TrulyDelete(f) ==
    /\ mix.erasures /\ f \notin erased
    /\ erased' = erased \cup {f}
    /\ sidecar' = [sidecar EXCEPT ![f] = [v \in Versions |-> NoSidecar]]
    /\ promised' = {p \in promised : p[1] # f}
    /\ UNCHANGED <<version, forgotten, readable, content, row, conversions, results,
                   queueVars, quiet, hungUp, eventVars, lastReaders, raced, hasty, boundVars>>

(* Who could still bring something of the file back.                       *)
Readers(f) == {r \in Runs : at[r] \in Reading /\ \E q \in Questions : Asks(r, f, q)}
InFlight(f) == \E c \in conversions : c.file = f

(* Mutant: the tables of headless runs are not looked at.                  *)
ForgetDocumentOnly(f) ==
    /\ f \in erased \ forgotten
    /\ forgotten' = forgotten \cup {f}
    /\ row' = [row EXCEPT ![f] = NoRow]
    /\ lastReaders' = [lastReaders EXCEPT ![f] = Readers(f)]
    /\ raced' = IF InFlight(f) THEN raced \cup {f} ELSE raced
    /\ UNCHANGED <<version, erased, readable, content, conversions, sidecar, results,
                   queueVars, quiet, hungUp, eventVars, hasty, promised, boundVars>>

(* DocumentStore.erase: the text, and the values of every run.             *)
Forget(f) ==
    /\ f \in erased \ forgotten
    /\ forgotten' = forgotten \cup {f}
    /\ row' = [row EXCEPT ![f] = NoRow]
    /\ results' = {v \in results : v[2] # f}
    /\ lastReaders' = [lastReaders EXCEPT ![f] = Readers(f)]
    /\ raced' = IF InFlight(f) THEN raced \cup {f} ELSE raced
    /\ UNCHANGED <<version, erased, readable, content, conversions, sidecar, queueVars,
                   quiet, hungUp, eventVars, hasty, promised, boundVars>>

-----------------------------------------------------------------------------
(* ConversionPipeline.convert.                                             *)

Begun(x, f) == conversions' = conversions \cup
    {[by |-> x, file |-> f, of |-> version[f], got |-> version[f], step |-> "fetch"]}

(* The event loop, a sweep or POST /convert, which may force it.  A file   *)
(* that is erased, or not in the core any more, is refused.                *)
Begin(x) ==
    /\ x \in mix.converters
    /\ \A c \in conversions : c.by # x
    /\ \E f \in Files \ erased : Begun(x, f)
    /\ UNCHANGED <<version, erased, forgotten, readable, content, row, sidecar, results,
                   queueVars, quiet, hungUp, eventVars, historyVars, boundVars>>

\* what no step of a conversion changes
beyondVars == <<version, erased, forgotten, readable, content, results, queueVars, quiet,
                hungUp, eventVars, lastReaders, raced, hasty, boundVars>>

GoesOn(c, step) == conversions' = (conversions \ {c}) \cup {[c EXCEPT !.step = step]}
Ends(c) == conversions' = conversions \ {c}

(* The content fetched is the current one, whatever was stat'ed.           *)
Fetch(c) ==
    /\ c.step = "fetch" /\ c.file \notin erased
    /\ conversions' = (conversions \ {c})
                         \cup {[c EXCEPT !.got = version[c.file], !.step = "mark"]}
    /\ UNCHANGED <<row, sidecar, promised, beyondVars>>

(* upsert(status="converting"): the row is of the new version from here    *)
(* on, and keeps the text it had.                                          *)
Marked(c) == [of |-> c.of, status |-> "converting", text |-> row[c.file].text]

MarkConverting(c) ==
    /\ c.step = "mark"
    /\ row' = [row EXCEPT ![c.file] = Marked(c)]
    /\ GoesOn(c, IF content[c.got] = "blob" THEN "record" ELSE "prune")
    /\ UNCHANGED <<sidecar, promised, beyondVars>>

(* prune_old_versions takes the sidecars of every other version with it.   *)
(* The children of an erased file cannot be listed.                        *)
Prune(c) ==
    /\ c.step = "prune" /\ c.file \notin erased
    /\ sidecar' = [sidecar EXCEPT ![c.file] =
                     [v \in Versions |-> IF v = c.of THEN @[v] ELSE NoSidecar]]
    /\ promised' = {p \in promised : p[1] = c.file => p[2] = version[c.file]}
    /\ GoesOn(c, "record")
    /\ UNCHANGED <<row, beyondVars>>

(* The outcome, with the text if there is one; the row keeps its old text  *)
(* when there is none (COALESCE).                                          *)
Outcome(c) ==
    [of |-> c.of,
     status |-> IF content[c.got] = "blob" THEN "unsupported" ELSE "settled",
     text |-> IF content[c.got] = "text" THEN c.got ELSE row[c.file].text]

Record(c) ==
    /\ c.step = "record"
    /\ row' = [row EXCEPT ![c.file] = Outcome(c)]
    /\ Ends(c)
    /\ UNCHANGED <<sidecar, promised, beyondVars>>

(* It raises or its process is killed, wherever it is.                     *)
Break(c) ==
    /\ Ends(c)
    /\ UNCHANGED <<row, sidecar, promised, beyondVars>>

Convey(x) == \E c \in conversions :
    /\ c.by = x
    /\ Fetch(c) \/ MarkConverting(c) \/ Prune(c) \/ Record(c) \/ Break(c)

-----------------------------------------------------------------------------
(* Around the queue.                                                       *)

(* POST /v1/extract/jobs, for a set that can be run.                       *)
Enqueue(j) ==
    /\ j \in mix.jobs /\ msg[j] = "unsent" /\ ~retired
    /\ msg' = [msg EXCEPT ![j] = "queued"]
    /\ UNCHANGED <<coreVars, sidecar, results, asks, idle, aged, exhausted, retired,
                   slotVars, quiet, hungUp, eventVars, historyVars, boundVars>>

(* Time: a delivery grows old enough to be claimed, a job to be given up,  *)
(* whether or not it is being run.                                         *)
BecomeIdle(j) ==
    /\ msg[j] = "pending" /\ j \notin idle
    /\ idle' = idle \cup {j}
    /\ UNCHANGED <<coreVars, sidecar, results, asks, msg, aged, exhausted, retired,
                   slotVars, quiet, hungUp, eventVars, historyVars, boundVars>>

GrowOld(j) ==
    /\ mix.refusals /\ msg[j] \in {"queued", "pending"} /\ j \notin aged
    /\ aged' = aged \cup {j}
    /\ UNCHANGED <<coreVars, sidecar, results, asks, msg, idle, exhausted, retired,
                   slotVars, quiet, hungUp, eventVars, historyVars, boundVars>>

(* The day's budget is used up, or a new day begins.                       *)
Budget ==
    /\ mix.refusals
    /\ exhausted' = ~exhausted
    /\ UNCHANGED <<coreVars, sidecar, results, asks, msg, idle, aged, retired,
                   slotVars, quiet, hungUp, eventVars, historyVars, boundVars>>

Retire ==
    /\ mix.refusals /\ ~retired
    /\ retired' = TRUE
    /\ UNCHANGED <<coreVars, sidecar, results, asks, msg, idle, aged, exhausted,
                   slotVars, quiet, hungUp, eventVars, historyVars, boundVars>>

HangUp(c) ==
    /\ c \in mix.calls \ hungUp
    /\ hungUp' = hungUp \cup {c}
    /\ UNCHANGED <<coreVars, sidecar, results, queueVars, quiet, eventVars, historyVars,
                   boundVars>>

-----------------------------------------------------------------------------
(* The job loop of a thread.                                               *)

\* what no step of the loop changes
worldVars == <<coreVars, sidecar, results, asks, aged, exhausted, retired, started,
               hungUp, historyVars, mix>>

Queued == {j \in Jobs : msg[j] = "queued"}

Acknowledge(j) == msg' = [msg EXCEPT ![j] = "acked"] /\ idle' = idle \ {j}

(* The job in hand is over with; a batch that is, too, ends its half of    *)
(* the pass.                                                               *)
Turn(t, j) ==
    /\ hand' = [hand EXCEPT ![t] = @ \ {j}]
    /\ task' = [task EXCEPT ![t] = {}]
    /\ IF hand[t] = {j} THEN Goto(t, "pass") /\ claiming' = [claiming EXCEPT ![t] = ~@]
       ELSE Goto(t, "begin") /\ UNCHANGED claiming

(* XREADGROUP COUNT 1.                                                     *)
ReadNew(t) ==
    /\ t \in started /\ at[t] = "pass" /\ ~claiming[t]
    /\ \E j \in Queued :
         /\ msg' = [msg EXCEPT ![j] = "pending"]
         /\ hand' = [hand EXCEPT ![t] = {j}]
    /\ Goto(t, "begin")
    /\ UNCHANGED <<worldVars, slotVars, idle, claiming, task, frameVars, eventVars, kills, faults>>

(* Mutant: what a dead consumer left pending is not claimed.               *)
ClaimNone(t) ==
    /\ t \in started /\ at[t] = "pass" /\ claiming[t]
    /\ claiming' = [claiming EXCEPT ![t] = FALSE]
    /\ UNCHANGED <<worldVars, slotVars, at, hand, idle, msg, task, frameVars, eventVars, kills, faults>>

(* XAUTOCLAIM, also when there was no new job; a claim is a delivery.  The *)
(* four it takes at most are more than the jobs considered here.           *)
Claim(t) ==
    /\ t \in started /\ at[t] = "pass"
    /\ claiming[t] \/ Queued = {}
    /\ IF idle = {} THEN /\ claiming[t]
                         /\ claiming' = [claiming EXCEPT ![t] = FALSE]
                         /\ UNCHANGED <<at, hand, idle>>
       ELSE /\ hand' = [hand EXCEPT ![t] = idle]
            /\ idle' = {}
            /\ claiming' = [claiming EXCEPT ![t] = TRUE]
            /\ Goto(t, "begin")
    /\ UNCHANGED <<worldVars, slotVars, msg, task, frameVars, eventVars, kills, faults>>

(* UsageMeter.run.  The counter's key gets its time to live when it is     *)
(* created, by INCR; a DECR that creates it gives it none.                 *)
Increment ==
    /\ slots' = slots + 1
    /\ expiry' = IF expiry = "none" THEN "set" ELSE expiry

Decrement ==
    /\ slots' = slots - 1
    /\ expiry' = IF expiry = "none" THEN "never" ELSE expiry

SpendFault == faults < mix.faults /\ faults' = faults + 1

(* The end of a run gives its slot back, unless Redis is out of reach.     *)
GiveBack == Decrement \/ UNCHANGED slotVars

Expire ==
    /\ mix.expiries /\ expiry = "set"
    /\ slots' = 0 /\ expiry' = "none"
    /\ UNCHANGED <<worldVars, msg, idle, at, loopVars, frameVars, eventVars, kills, faults>>

(* Mutant: a job over budget is acked and waits for nobody.                *)
WaitAcks(t) ==
    /\ at[t] = "begin"
    /\ \E j \in hand[t] :
         /\ exhausted /\ j \notin aged
         /\ Acknowledge(j) /\ Turn(t, j)
    /\ UNCHANGED <<worldVars, slotVars, frameVars, eventVars, kills, faults>>

(* JobRunner.run.  Over budget a job waits, left pending, or is given up.  *)
Wait(t) ==
    /\ at[t] = "begin"
    /\ \E j \in hand[t] :
         /\ exhausted /\ j \notin aged
         /\ Turn(t, j)
    /\ UNCHANGED <<worldVars, slotVars, msg, idle, frameVars, eventVars, kills, faults>>

(* Out of budget for too long, or the set cannot be run any more.          *)
GiveUp(t) ==
    /\ at[t] = "begin"
    /\ \E j \in hand[t] :
         /\ IF exhausted THEN j \in aged ELSE retired
         /\ \/ told' = told \cup {j} /\ UNCHANGED excused
            \/ excused' = excused \cup {j} /\ UNCHANGED told
         /\ Acknowledge(j) /\ Turn(t, j)
    /\ UNCHANGED <<worldVars, slotVars, frameVars, kills, faults>>

(* Anything that JobRunner.run does not catch, the counters being out of   *)
(* reach when it first asks them among it: the job is acked, and that is   *)
(* all.                                                                    *)
Stumble(t) ==
    /\ at[t] = "begin"
    /\ SpendFault
    /\ \E j \in hand[t] :
         /\ excused' = excused \cup {j}
         /\ Acknowledge(j) /\ Turn(t, j)
    /\ UNCHANGED <<worldVars, slotVars, frameVars, told, kills>>

(* No slot is free, or nobody can say: the job is left pending.  A slot    *)
(* taken beyond the limit is given back, or that fails.                    *)
RefuseSlot(t) ==
    /\ at[t] = "begin"
    /\ ~exhausted /\ ~retired
    /\ \/ slots >= Slots /\ UNCHANGED <<slotVars, faults>>
       \/ slots >= Slots /\ Increment /\ SpendFault
       \/ UNCHANGED slotVars /\ SpendFault
    /\ \E j \in hand[t] : Turn(t, j)
    /\ UNCHANGED <<worldVars, msg, idle, frameVars, eventVars, kills>>

StartJob(t) ==
    /\ at[t] = "begin"
    /\ ~exhausted /\ ~retired
    /\ slots < Slots /\ Increment
    /\ \E j \in hand[t] : task' = [task EXCEPT ![t] = {j}]
    /\ Goto(t, "resolve")
    /\ UNCHANGED <<worldVars, msg, idle, claiming, hand, frameVars, eventVars, kills, faults>>

Forgotten(r) ==
    /\ target' = [target EXCEPT ![r] = 0]
    /\ text' = [text EXCEPT ![r] = 0]
    /\ seen' = [seen EXCEPT ![r] = NoSidecar]

(* The run is over: the slot is given back and the message acked.          *)
EndJob(t) ==
    /\ at[t] = "done"
    /\ \/ Decrement /\ UNCHANGED faults
       \/ UNCHANGED slotVars /\ SpendFault
    /\ \E j \in task[t] : Acknowledge(j) /\ Turn(t, j)
    /\ Forgotten(t)
    /\ UNCHANGED <<worldVars, eventVars, kills>>

(* The counters are out of reach in the middle of a run: retried later.    *)
PutOff(t) ==
    /\ at[t] = "next"
    /\ SpendFault
    /\ GiveBack
    /\ \E j \in task[t] : Turn(t, j)
    /\ Forgotten(t)
    /\ UNCHANGED <<worldVars, msg, idle, eventVars, kills>>

(* The process is killed, its slot not given back; a new one takes its     *)
(* place, without job threads if Redis is out of reach just then.  Its     *)
(* messages stay pending under a name nobody reads again, until they are   *)
(* claimed.                                                                *)
Kill(t) ==
    /\ at[t] # "pass"
    /\ kills < mix.kills /\ kills' = kills + 1
    /\ \/ UNCHANGED <<started, faults>>
       \/ started' = started \ {t} /\ SpendFault
    /\ Goto(t, "pass")
    /\ claiming' = [claiming EXCEPT ![t] = FALSE]
    /\ hand' = [hand EXCEPT ![t] = {}]
    /\ task' = [task EXCEPT ![t] = {}]
    /\ conversions' = {c \in conversions : c.by # t}
    /\ Forgotten(t)
    /\ UNCHANGED <<version, erased, forgotten, readable, content, row, sidecar, results,
                   queueVars, hungUp, eventVars, historyVars, mix>>

(* The producer of a call starts, and ends.                                *)
StartCall(c) ==
    /\ at[c] = "begin" /\ c \in mix.calls
    /\ Goto(c, "resolve")
    /\ UNCHANGED <<worldVars, slotVars, msg, idle, loopVars, frameVars, eventVars, kills, faults>>

EndCall(c) ==
    /\ at[c] = "done"
    /\ Goto(c, "over")
    /\ Forgotten(c)
    /\ UNCHANGED <<worldVars, slotVars, msg, idle, loopVars, eventVars, kills, faults>>

-----------------------------------------------------------------------------
(* Extractor.run for one file.                                             *)

\* what no step of a run changes, unless it says so
runVars == <<version, erased, forgotten, readable, content, row, queueVars, started,
             loopVars, hungUp, lastReaders, raced, boundVars>>
takingVars == <<conversions, hasty>>

(* The permission gate, then stat.  A file that is not there for the       *)
(* requester is no attempt, and no event.                                  *)
Resolve(r) ==
    /\ at[r] = "resolve"
    /\ \E f \in Files, q \in Questions :
         /\ Asks(r, f, q)
         /\ IF f \in readable \ erased
            THEN /\ target' = [target EXCEPT ![r] = version[f]]
                 /\ Goto(r, "next") /\ UNCHANGED eventVars
            ELSE Goto(r, "done") /\ Excuse(r) /\ UNCHANGED target
    /\ UNCHANGED <<runVars, takingVars, sidecar, results, promised, text, seen>>

(* Between files: is anybody there, is there budget?                       *)
NextFile(r) ==
    /\ at[r] = "next"
    /\ IF r \in hungUp THEN Goto(r, "done") /\ UNCHANGED eventVars
       ELSE IF exhausted THEN Goto(r, "done") /\ Tell(r)
       ELSE Goto(r, "text") /\ UNCHANGED eventVars
    /\ UNCHANGED <<runVars, takingVars, sidecar, results, promised, frameVars>>

(* The text in the store is that of the version resolved, or so its row    *)
(* says.                                                                   *)
TakeText(r, f) ==
    IF row[f].status # "unsupported" /\ row[f].text # 0
    THEN /\ text' = [text EXCEPT ![r] = row[f].text]
         /\ Goto(r, "lookup") /\ UNCHANGED eventVars
    ELSE Goto(r, "done") /\ Tell(r) /\ UNCHANGED text

InConversion(f) == row[f].status = "converting"

(* Mutant: a row that is being converted is taken at the first look, too.  *)
GetTextPending(r) ==
    /\ at[r] = "text"
    /\ \E f \in Files, q \in Questions :
         /\ Asks(r, f, q)
         /\ IF row[f].of = target[r] THEN TakeText(r, f)
            ELSE Goto(r, "convert") /\ UNCHANGED <<text, eventVars>>
    /\ UNCHANGED <<runVars, takingVars, sidecar, results, promised, target, seen>>

GetText(r) ==
    /\ at[r] = "text"
    /\ \E f \in Files, q \in Questions :
         /\ Asks(r, f, q)
         /\ IF row[f].of = target[r] /\ ~InConversion(f) THEN TakeText(r, f)
            ELSE Goto(r, "convert") /\ UNCHANGED <<text, eventVars>>
    /\ UNCHANGED <<runVars, takingVars, sidecar, results, promised, target, seen>>

(* A stale text is re-indexed first, which may be refused or fail, or be   *)
(* skipped for a row that is up to date, unless its indexing had failed.   *)
Convert(r) ==
    /\ at[r] = "convert"
    /\ \/ \E f \in Files \ erased, q \in Questions :
            Asks(r, f, q) /\ Begun(r, f)
       \/ UNCHANGED conversions
    /\ Goto(r, "again")
    /\ UNCHANGED <<runVars, hasty, sidecar, results, promised, frameVars, eventVars>>

(* When it has returned, somehow, only the version is looked at.           *)
GetTextAgain(r) ==
    /\ at[r] = "again"
    /\ \A c \in conversions : c.by # r
    /\ \E f \in Files, q \in Questions :
         /\ Asks(r, f, q)
         /\ IF row[f].of = target[r] THEN TakeText(r, f)
            ELSE Goto(r, "done") /\ Tell(r) /\ UNCHANGED text
         /\ hasty' = IF row[f].of = target[r] /\ InConversion(f)
                     THEN hasty \cup {<<f, target[r]>>} ELSE hasty
    /\ UNCHANGED <<runVars, conversions, sidecar, results, promised, target, seen>>

(* The cache answers, with the values of the text it was asked about; a    *)
(* hit was announced when it was written.  It may hold nothing, not be     *)
(* readable or not be wanted.                                              *)
Lookup(r) ==
    /\ at[r] = "lookup"
    /\ \E f \in Files, q \in Questions :
         /\ Asks(r, f, q)
         /\ \/ \E v \in Versions :
                /\ <<q, v>> \in sidecar[f][target[r]].entries
                /\ text' = [text EXCEPT ![r] = v]
                /\ Goto(r, "item") /\ Excuse(r)
            \/ Goto(r, "ask") /\ UNCHANGED <<text, eventVars>>
    /\ UNCHANGED <<runVars, takingVars, sidecar, results, promised, target, seen>>

(* The model is asked; a reply that stays invalid has values nonetheless,  *)
(* a call that raises has none.                                            *)
AskModel(r) ==
    /\ at[r] = "ask"
    /\ \/ Goto(r, "read") /\ UNCHANGED eventVars
       \/ Goto(r, "item") /\ Tell(r)
       \/ Goto(r, "done") /\ Tell(r)
    /\ UNCHANGED <<runVars, takingVars, sidecar, results, promised, frameVars>>

(* ExtractionCache.put: the entries are read, ...                          *)
PutRead(r) ==
    /\ at[r] = "read"
    /\ \E f \in Files, q \in Questions :
         Asks(r, f, q) /\ seen' = [seen EXCEPT ![r] = sidecar[f][target[r]]]
    /\ Goto(r, "write")
    /\ UNCHANGED <<runVars, takingVars, sidecar, results, promised, target, text, eventVars>>

(* ... and written back with this one, into the child that was found or    *)
(* into a new one.                                                         *)
Entered(r, q) == {e \in seen[r].entries : e[1] # q} \cup {<<q, text[r]>>}

PutWrite(r) ==
    /\ at[r] = "write"
    /\ \E f \in Files, q \in Questions :
         /\ Asks(r, f, q) /\ f \notin erased
         /\ seen[r].there <=> sidecar[f][target[r]].there
         /\ sidecar' = [sidecar EXCEPT ![f][target[r]] =
                          [there |-> TRUE, entries |-> Entered(r, q)]]
    /\ Goto(r, "announce")
    /\ UNCHANGED <<runVars, takingVars, results, promised, frameVars, eventVars>>

(* Reading or writing it fails, the child perhaps created but not filled:  *)
(* the result stands, and nothing is announced.                            *)
PutFails(r) ==
    /\ at[r] \in {"read", "write"}
    /\ \/ UNCHANGED sidecar
       \/ /\ at[r] = "write" /\ ~seen[r].there
          /\ \E f \in Files \ erased, q \in Questions :
               /\ Asks(r, f, q) /\ ~sidecar[f][target[r]].there
               /\ sidecar' = [sidecar EXCEPT ![f][target[r]].there = TRUE]
    /\ Goto(r, "item") /\ Excuse(r)
    /\ UNCHANGED <<runVars, takingVars, results, promised, frameVars>>

(* extraction.complete names the entry.                                    *)
Announce(r) ==
    /\ at[r] = "announce"
    /\ \E f \in Files, q \in Questions :
         /\ Asks(r, f, q)
         /\ promised' = IF sidecar[f][target[r]].there
                        THEN promised \cup {<<f, target[r], q>>} ELSE promised
    /\ Tell(r) /\ Goto(r, "item")
    /\ UNCHANGED <<runVars, takingVars, sidecar, results, frameVars>>

(* on_item: a call's values are kept with its run, or that fails; the      *)
(* values of a job are in the sidecar only.                                *)
Item(r) ==
    /\ at[r] = "item"
    /\ \/ /\ r \in Calls
          /\ \E f \in Files, q \in Questions :
               Asks(r, f, q) /\ results' = results \cup {<<r, f, target[r], text[r]>>}
       \/ UNCHANGED results
    /\ Goto(r, "done")
    /\ UNCHANGED <<runVars, takingVars, sidecar, promised, frameVars, eventVars>>

-----------------------------------------------------------------------------
Extract(r) ==
    \/ Resolve(r) \/ NextFile(r) \/ GetText(r) \/ Convert(r) \/ GetTextAgain(r)
    \/ Lookup(r) \/ AskModel(r) \/ PutRead(r) \/ PutWrite(r) \/ PutFails(r)
    \/ Announce(r) \/ Item(r)

JobStep(t) ==
    \/ ReadNew(t) \/ Claim(t) \/ Wait(t) \/ GiveUp(t) \/ Stumble(t) \/ RefuseSlot(t)
    \/ StartJob(t) \/ EndJob(t) \/ PutOff(t) \/ Extract(t) \/ Convey(t)

CallStep(c) == StartCall(c) \/ EndCall(c) \/ Extract(c) \/ Convey(c)

Around ==
    \/ \E f \in Files : Revise(f) \/ TrulyDelete(f) \/ Forget(f)
    \/ \E j \in Jobs : Enqueue(j) \/ BecomeIdle(j) \/ GrowOld(j)
    \/ \E x \in Converters : Begin(x) \/ Convey(x)
    \/ Expire \/ Budget \/ Retire \/ \E c \in Calls : HangUp(c)

ExtractionNext ==
    \/ \E t \in Threads : JobStep(t) \/ Kill(t)
    \/ \E c \in Calls : CallStep(c)
    \/ Around

ExtractionSpec == ExtractionInit /\ [][ExtractionNext]_extractionVars

(* The threads run, and time passes.                                       *)
ExtractionFairness ==
    /\ \A t \in Threads : WF_extractionVars(JobStep(t))
    /\ \A j \in Jobs : WF_extractionVars(BecomeIdle(j)) /\ WF_extractionVars(GrowOld(j))
    /\ WF_extractionVars(Expire)

ExtractionFairSpec == ExtractionSpec /\ ExtractionFairness

-----------------------------------------------------------------------------
(* A value is given for a version, in its sidecar or in the record of a    *)
(* run, that was not read from the text of an earlier one, although files  *)
(* are revised and converted between resolving a file, reading its text,   *)
(* asking and writing.  It may come from a later text, fetched under the   *)
(* stat of the version; where a version fetched has none, the row keeps    *)
(* the one before; and at the second look a row is taken that is still     *)
(* being converted.                                                        *)
KeptText(f, v) == \E u \in v..version[f] : content[u] = "image"

FreshFor(f, v, w) == w >= v \/ KeptText(f, v) \/ <<f, v>> \in hasty

ValuesAreNotStale ==
    /\ \A f \in Files, v \in Versions : \A e \in sidecar[f][v].entries : FreshFor(f, v, e[2])
    /\ \A x \in results : FreshFor(x[2], x[3], x[4])

(* What was read from an erased file is gone from every run, of the runs   *)
(* that did not have the text in hand when the derived data was destroyed, *)
(* if no conversion of the file was in flight at that moment.              *)
QuietErasureForgetsValues ==
    \A x \in results : x[2] \in forgotten \ raced => x[1] \in lastReaders[x[2]]

(* However often a job is claimed, killed, put off or given up: one that   *)
(* was acked had its event, or met one of the ends that have none - its    *)
(* file is not there for the requester, the cache had the answer or could  *)
(* not be written, the runner stumbled, the event was lost on its way.     *)
JobsAreAnswered == \A j \in Jobs : msg[j] = "acked" => j \in told \cup excused

(* Killed runs keep their slots; if they take all there are on a counter   *)
(* whose key has lost its time to live, nothing runs any more.             *)
Holding == {t \in Threads : at[t] \notin {"pass", "begin"}}
Jammed == expiry = "never" /\ slots - Cardinality(Holding) >= Slots

(* A job comes to an end, through kills, refused slots and budgets, while  *)
(* there is a job thread at all and the slots are not jammed for good.     *)
JobsEnd ==
    \A j \in Jobs : msg[j] = "queued" ~> msg[j] = "acked" \/ started = {} \/ Jammed

(* "The outcome is an extraction.complete / extraction.failed event"       *)
(* (headless/jobs.py).                                                     *)
EveryJobHasItsEvent == \A j \in Jobs : msg[j] = "acked" => j \in told

(* "Re-indexes stale or pending text first." (Extractor._text)             *)
PendingTextIsNotTaken ==
    \A x \in results : x[4] >= x[3] \/ KeptText(x[2], x[3])

(* A text-less version has "no text" (Extractor._text), a version's values *)
(* are those of its own text.                                              *)
ValuesAreOfTheirVersion == \A x \in results : x[4] = x[3]

(* "so erasure of a source file can destroy that file's values and quotes  *)
(* from every run" (headless/runs.py).                                     *)
ErasureForgetsValues == \A x \in results : x[2] \notin forgotten

(* The event "NAMES the JSON payload to read" (headless/events.py): the    *)
(* entry announced is in the sidecar as long as file and version last.     *)
AnnouncedIsThere ==
    \A p \in promised : \E v \in Versions : <<p[3], v>> \in sidecar[p[1]][p[2]].entries
=============================================================================
