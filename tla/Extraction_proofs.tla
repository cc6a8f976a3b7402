--------------------------- MODULE Extraction_proofs ---------------------------
(***************************************************************************)
(* Extraction: for any number of threads, calls, converters, jobs, files   *)
(* and versions, where a value given for a version can come from, what an  *)
(* erasure takes with it, and that no job is acked without an answer.      *)
(***************************************************************************)
EXTENDS Extraction, TLAPS

(* The next job, or the end of the batch.                                  *)
LEMMA TurnTypes ==
    ASSUME ExtractionTypeOK, NEW t \in Threads, NEW j, Turn(t, j)
    PROVE  /\ at' \in [Runs -> Stages] /\ claiming' \in [Threads -> BOOLEAN]
           /\ hand' \in [Threads -> SUBSET Jobs] /\ task' \in [Runs -> SUBSET Tasks]
BY DEF Turn, Goto, ExtractionTypeOK, Runs, Stages

LEMMA VersionRange == Versions \subseteq 0..MaxVersion /\ 0 \in 0..MaxVersion
BY ExtractionAssumption DEF Versions

LEMMA RowTypes == NoRow \in Rows /\ ConvertedRow \in Rows /\ NoSidecar \in Sidecars
BY ExtractionAssumption DEF NoRow, ConvertedRow, Rows, NoSidecar, Sidecars

(* A conversion begins, and goes on.                                       *)
LEMMA BegunTypes ==
    ASSUME ExtractionTypeOK, NEW x \in Converters \cup Runs, NEW f \in Files, Begun(x, f)
    PROVE  conversions' \subseteq Conversions
BY DEF ExtractionTypeOK, Begun, Conversions

LEMMA StepTypes ==
    ASSUME NEW c \in Conversions, NEW step \in {"fetch", "mark", "prune", "record"},
           conversions \subseteq Conversions, GoesOn(c, step) \/ Ends(c)
    PROVE  conversions' \subseteq Conversions
BY DEF GoesOn, Ends, Conversions

LEMMA ConveyTypes ==
    ASSUME ExtractionTypeOK, NEW x, Convey(x)
    PROVE  ExtractionTypeOK'
<1> USE DEF beyondVars, boundVars, eventVars, historyVars, quiet, loopVars, frameVars,
            queueVars, slotVars, coreVars
<1>1. PICK c \in conversions : Fetch(c) \/ MarkConverting(c) \/ Prune(c) \/ Record(c) \/ Break(c)
    BY DEF Convey
<1>2. c \in Conversions /\ conversions \subseteq Conversions
    BY DEF ExtractionTypeOK
<1>3. UNCHANGED beyondVars
    BY <1>1 DEF Fetch, MarkConverting, Prune, Record, Break
<1>4. /\ conversions' \subseteq Conversions /\ row' \in [Files -> Rows]
      /\ sidecar' \in [Files -> [Versions -> Sidecars]]
      /\ promised' \subseteq Files \X Versions \X Questions
    <2>1. CASE Fetch(c)
        <3>1. version[c.file] \in Versions
            BY <1>2 DEF ExtractionTypeOK, Conversions
        <3>2. [c EXCEPT !.got = version[c.file], !.step = "mark"] \in Conversions
            BY <1>2, <3>1 DEF Conversions
        <3>3. QED
            BY <1>2, <2>1, <3>2 DEF Fetch, ExtractionTypeOK
    <2>2. CASE MarkConverting(c)
        <3>1. row[c.file] \in Rows /\ c.file \in Files /\ c.of \in 0..MaxVersion
            BY <1>2, VersionRange DEF ExtractionTypeOK, Conversions
        <3>2. Marked(c) \in Rows
            BY <3>1 DEF Marked, Rows
        <3>3. conversions' \subseteq Conversions
            BY <1>2, <2>2, StepTypes DEF MarkConverting
        <3>4. QED
            BY <2>2, <3>1, <3>2, <3>3 DEF MarkConverting, ExtractionTypeOK
    <2>3. CASE Prune(c)
        <3>1. conversions' \subseteq Conversions /\ c.file \in Files
            BY <1>2, <2>3, StepTypes DEF Prune, Conversions
        <3>2. [v \in Versions |-> IF v = c.of THEN sidecar[c.file][v] ELSE NoSidecar]
                \in [Versions -> Sidecars]
            BY <3>1, RowTypes DEF ExtractionTypeOK
        <3>3. sidecar' \in [Files -> [Versions -> Sidecars]]
            BY <2>3, <3>1, <3>2 DEF ExtractionTypeOK, Prune
        <3>4. QED
            BY <2>3, <3>1, <3>3 DEF Prune, ExtractionTypeOK
    <2>4. CASE Record(c)
        <3>1. /\ row[c.file] \in Rows /\ c.file \in Files
              /\ c.of \in 0..MaxVersion /\ c.got \in 0..MaxVersion
            BY <1>2, VersionRange DEF ExtractionTypeOK, Conversions
        <3>2. Outcome(c) \in Rows
            BY <3>1 DEF Outcome, Rows
        <3>3. conversions' \subseteq Conversions
            BY <1>2, <2>4 DEF Record, Ends
        <3>4. QED
            BY <2>4, <3>1, <3>2, <3>3 DEF Record, ExtractionTypeOK
    <2>5. CASE Break(c)
        BY <1>2, <2>5 DEF Break, Ends, ExtractionTypeOK
    <2>6. QED
        BY <1>1, <2>1, <2>2, <2>3, <2>4, <2>5
<1>5. QED
    BY <1>3, <1>4 DEF ExtractionTypeOK

LEMMA ForgottenTypes ==
    ASSUME ExtractionTypeOK, NEW r \in Runs, Forgotten(r)
    PROVE  /\ target' \in [Runs -> 0..MaxVersion] /\ text' \in [Runs -> 0..MaxVersion]
           /\ seen' \in [Runs -> Sidecars]
BY ExtractionAssumption DEF ExtractionTypeOK, Forgotten, NoSidecar, Sidecars

(* A run that has resolved its file has a version of it.                   *)
Resolved == {"next", "text", "convert", "again"} \cup Reading

TargetsResolved ==
    \A r \in Runs : /\ at[r] \in Resolved => target[r] \in Versions
                    /\ at[r] \in Reading => text[r] \in Versions

(* One child of a file changes.                                            *)
Replaces(f, v, s) == sidecar' = [sidecar EXCEPT ![f][v] = s]

LEMMA SidecarWrite ==
    ASSUME ExtractionTypeOK, NEW f \in Files, NEW v \in Versions, NEW s \in Sidecars,
           Replaces(f, v, s)
    PROVE  /\ sidecar' \in [Files -> [Versions -> Sidecars]]
           /\ sidecar'[f][v] = s
           /\ \A g \in Files, w \in Versions : g # f \/ w # v => sidecar'[g][w] = sidecar[g][w]
BY DEF ExtractionTypeOK, Replaces

LEMMA TypeInit == ExtractionInit => ExtractionTypeOK
<1> SUFFICES ASSUME ExtractionInit PROVE ExtractionTypeOK
    OBVIOUS
<1>1. 1 \in Versions
    BY ExtractionAssumption DEF Versions
<1>2. at \in [Runs -> Stages] /\ task \in [Runs -> SUBSET Tasks]
    BY DEF ExtractionInit, Stages, Runs, Tasks
<1>3. mix \in Mixes /\ mix \in Mix
    BY ExtractionAssumption DEF ExtractionInit
<1>4. /\ readable \subseteq Files /\ content \in [Versions -> Contents]
      /\ asks \in [Tasks -> Files \X Questions] /\ started \subseteq Threads
    BY <1>3 DEF ExtractionInit, Mix
<1>5. /\ sidecar \in [Files -> [Versions -> Sidecars]] /\ seen \in [Runs -> Sidecars]
      /\ row \in [Files -> Rows] /\ version \in [Files -> Versions]
      /\ target \in [Runs -> 0..MaxVersion] /\ text \in [Runs -> 0..MaxVersion]
    BY <1>1, RowTypes, VersionRange DEF ExtractionInit
<1>6. /\ conversions \subseteq Conversions /\ results \subseteq Calls \X Files \X Versions \X Versions
      /\ lastReaders \in [Files -> SUBSET Runs] /\ raced \subseteq Files
      /\ hasty \subseteq Files \X Versions /\ promised \subseteq Files \X Versions \X Questions
      /\ slots \in Int /\ expiry \in {"none", "set", "never"}
    BY DEF ExtractionInit
<1>7. QED
    BY <1>2, <1>3, <1>4, <1>5, <1>6 DEF ExtractionInit, ExtractionTypeOK

LEMMA TypeAround == ExtractionTypeOK /\ Around => ExtractionTypeOK'
<1> SUFFICES ASSUME ExtractionTypeOK, Around PROVE ExtractionTypeOK'
    OBVIOUS
<1> USE DEF boundVars, eventVars, historyVars, quiet, loopVars, frameVars, queueVars, slotVars,
            coreVars
<1>1. ASSUME NEW f \in Files, Revise(f) PROVE ExtractionTypeOK'
    <2>1. version' \in [Files -> Versions]
        BY <1>1, ExtractionAssumption DEF ExtractionTypeOK, Revise, Mix, Versions
    <2>2. QED
        BY <1>1, <2>1 DEF ExtractionTypeOK, Revise
<1>2. ASSUME NEW x \in Converters, Begin(x) \/ Convey(x) PROVE ExtractionTypeOK'
    <2>1. CASE Begin(x)
        <3>1. conversions' \subseteq Conversions
            BY <1>2, <2>1, BegunTypes DEF Begin
        <3>2. QED
            BY <2>1, <3>1 DEF ExtractionTypeOK, Begin
    <2>2. CASE Convey(x)
        BY <2>2, ConveyTypes
    <2>3. QED
        BY <1>2, <2>1, <2>2
<1>3. ASSUME NEW f \in Files, TrulyDelete(f) PROVE ExtractionTypeOK'
    <2>1. sidecar' \in [Files -> [Versions -> Sidecars]]
        BY <1>3, RowTypes DEF ExtractionTypeOK, TrulyDelete
    <2>2. erased' \subseteq Files /\ forgotten \subseteq erased'
          /\ promised' \subseteq Files \X Versions \X Questions
        BY <1>3 DEF ExtractionTypeOK, TrulyDelete
    <2>3. QED
        BY <1>3, <2>1, <2>2 DEF ExtractionTypeOK, TrulyDelete
<1>4. ASSUME NEW f \in Files, Forget(f) PROVE ExtractionTypeOK'
    <2>1. row' \in [Files -> Rows] /\ forgotten' \subseteq erased
        BY <1>4, RowTypes DEF ExtractionTypeOK, Forget
    <2>2. /\ results' \subseteq results /\ lastReaders' \in [Files -> SUBSET Runs]
          /\ raced' \subseteq Files
        BY <1>4 DEF ExtractionTypeOK, Forget, Readers
    <2>3. QED
        BY <1>4, <2>1, <2>2 DEF ExtractionTypeOK, Forget
<1>5. ASSUME NEW j \in Jobs, Enqueue(j) \/ BecomeIdle(j) \/ GrowOld(j) PROVE ExtractionTypeOK'
    <2>1. CASE Enqueue(j)
        BY <2>1 DEF ExtractionTypeOK, Enqueue
    <2>2. CASE BecomeIdle(j)
        BY <1>5, <2>2 DEF ExtractionTypeOK, BecomeIdle
    <2>3. CASE GrowOld(j)
        BY <1>5, <2>3 DEF ExtractionTypeOK, GrowOld
    <2>4. QED
        BY <1>5, <2>1, <2>2, <2>3
<1>6. CASE Expire \/ Budget \/ Retire \/ \E c \in Calls : HangUp(c)
    <2>1. CASE Expire
        BY <2>1 DEF ExtractionTypeOK, Expire, worldVars
    <2>2. CASE Budget \/ Retire
        BY <2>2 DEF ExtractionTypeOK, Budget, Retire
    <2>3. CASE \E c \in Calls : HangUp(c)
        BY <2>3 DEF ExtractionTypeOK, HangUp
    <2>4. QED
        BY <1>6, <2>1, <2>2, <2>3
<1>7. QED
    BY <1>1, <1>2, <1>3, <1>4, <1>5, <1>6 DEF Around

LEMMA TypeLoop ==
    ASSUME ExtractionTypeOK, NEW t \in Threads,
           \/ ReadNew(t) \/ Claim(t) \/ Wait(t) \/ GiveUp(t) \/ Stumble(t) \/ RefuseSlot(t)
           \/ StartJob(t) \/ EndJob(t) \/ PutOff(t) \/ Kill(t)
    PROVE  ExtractionTypeOK'
<1> USE DEF boundVars, eventVars, historyVars, loopVars, frameVars, coreVars, slotVars, worldVars
<1>1. t \in Runs
    BY DEF Runs
<1>2. CASE ReadNew(t)
    <2>1. at' \in [Runs -> Stages]
        BY <1>2 DEF ExtractionTypeOK, ReadNew, Goto, Stages
    <2>2. /\ msg' \in [Jobs -> {"unsent", "queued", "pending", "acked"}]
          /\ hand' \in [Threads -> SUBSET Jobs]
        BY <1>2 DEF ExtractionTypeOK, ReadNew, Queued
    <2>3. QED
        BY <1>2, <2>1, <2>2 DEF ExtractionTypeOK, ReadNew
<1>3. CASE Claim(t)
    <2>1. at' \in [Runs -> Stages]
        BY <1>3 DEF ExtractionTypeOK, Claim, Goto, Stages
    <2>2. /\ hand' \in [Threads -> SUBSET Jobs] /\ idle' \subseteq Jobs
          /\ claiming' \in [Threads -> BOOLEAN]
        BY <1>3 DEF ExtractionTypeOK, Claim
    <2>3. QED
        BY <1>3, <2>1, <2>2 DEF ExtractionTypeOK, Claim
<1>4. CASE Wait(t) \/ RefuseSlot(t)
    <2>1. faults' \in Nat /\ slots' \in Int /\ expiry' \in {"none", "set", "never"}
        BY <1>4 DEF ExtractionTypeOK, Wait, RefuseSlot, SpendFault, Increment
    <2>2. QED
        BY <1>4, <2>1, TurnTypes DEF ExtractionTypeOK, Wait, RefuseSlot
<1>5. CASE GiveUp(t) \/ Stumble(t)
    <2>1. PICK j \in hand[t] : Acknowledge(j) /\ Turn(t, j)
        BY <1>5 DEF GiveUp, Stumble
    <2>2. j \in Jobs
        BY <2>1 DEF ExtractionTypeOK
    <2>3. msg' \in [Jobs -> {"unsent", "queued", "pending", "acked"}] /\ idle' \subseteq Jobs
        BY <2>1 DEF ExtractionTypeOK, Acknowledge
    <2>4. told' \subseteq Jobs /\ excused' \subseteq Jobs /\ faults' \in Nat
        BY <1>5 DEF ExtractionTypeOK, GiveUp, Stumble, SpendFault
    <2>5. QED
        BY <1>5, <2>1, <2>3, <2>4, TurnTypes DEF ExtractionTypeOK, GiveUp, Stumble
<1>6. CASE StartJob(t)
    <2>1. slots' \in Int /\ expiry' \in {"none", "set", "never"}
        BY <1>6 DEF ExtractionTypeOK, StartJob, Increment
    <2>2. at' \in [Runs -> Stages] /\ task' \in [Runs -> SUBSET Tasks]
        BY <1>1, <1>6 DEF ExtractionTypeOK, StartJob, Goto, Stages, Tasks
    <2>3. QED
        BY <1>6, <2>1, <2>2 DEF ExtractionTypeOK, StartJob
<1>7. CASE EndJob(t) \/ PutOff(t)
    <2>1. PICK j \in task[t] : Turn(t, j)
        BY <1>7 DEF EndJob, PutOff
    <2>2. msg' \in [Jobs -> {"unsent", "queued", "pending", "acked"}] /\ idle' \subseteq Jobs
        BY <1>7 DEF ExtractionTypeOK, EndJob, PutOff, Acknowledge
    <2>3. faults' \in Nat /\ slots' \in Int /\ expiry' \in {"none", "set", "never"}
        BY <1>7 DEF ExtractionTypeOK, EndJob, PutOff, SpendFault, GiveBack, Decrement
    <2>4. Forgotten(t)
        BY <1>7 DEF EndJob, PutOff
    <2>5. QED
        BY <1>1, <1>7, <2>1, <2>2, <2>3, <2>4, ForgottenTypes, TurnTypes
           DEF ExtractionTypeOK, EndJob, PutOff
<1>8. CASE Kill(t)
    <2>1. at' \in [Runs -> Stages] /\ task' \in [Runs -> SUBSET Tasks]
        BY <1>1, <1>8 DEF ExtractionTypeOK, Kill, Goto, Stages
    <2>2. /\ started' \subseteq Threads /\ conversions' \subseteq Conversions
          /\ kills' \in Nat /\ faults' \in Nat
        BY <1>8 DEF ExtractionTypeOK, Kill, SpendFault
    <2>3. QED
        BY <1>1, <1>8, <2>1, <2>2, ForgottenTypes DEF ExtractionTypeOK, Kill, queueVars
<1>9. QED
    BY <1>2, <1>3, <1>4, <1>5, <1>6, <1>7, <1>8

LEMMA EventTypes ==
    ASSUME ExtractionTypeOK, NEW r \in Runs, Tell(r) \/ Excuse(r) \/ UNCHANGED eventVars
    PROVE  told' \subseteq Jobs /\ excused' \subseteq Jobs
BY DEF ExtractionTypeOK, Tell, Excuse, eventVars

LEMMA TypeExtract ==
    ASSUME ExtractionTypeOK, TargetsResolved, NEW r \in Runs, Extract(r)
    PROVE  ExtractionTypeOK'
<1> USE DEF boundVars, loopVars, frameVars, queueVars, slotVars, runVars, takingVars
<1>1. CASE Resolve(r)
    <2>1. at' \in [Runs -> Stages]
        BY <1>1 DEF ExtractionTypeOK, Resolve, Goto, Stages
    <2>2. \A f \in Files : version[f] \in 0..MaxVersion
        BY VersionRange DEF ExtractionTypeOK
    <2>3. target' \in [Runs -> 0..MaxVersion]
        BY <1>1, <2>2 DEF ExtractionTypeOK, Resolve
    <2>4. QED
        BY <1>1, <2>1, <2>3, EventTypes DEF ExtractionTypeOK, Resolve
<1>2. CASE NextFile(r)
    BY <1>2, EventTypes DEF ExtractionTypeOK, NextFile, Goto, Stages
<1>3. CASE GetText(r) \/ GetTextAgain(r)
    <2>1. PICK f \in Files, q \in Questions :
            \/ TakeText(r, f)
            \/ Goto(r, "convert") /\ UNCHANGED <<text, eventVars>>
            \/ Goto(r, "done") /\ Tell(r) /\ UNCHANGED text
        BY <1>3 DEF GetText, GetTextAgain
    <2>2. row[f].text \in 0..MaxVersion
        BY DEF ExtractionTypeOK, Rows
    <2>3. at' \in [Runs -> Stages] /\ text' \in [Runs -> 0..MaxVersion]
        BY <2>1, <2>2 DEF ExtractionTypeOK, TakeText, Goto, Stages
    <2>4. told' \subseteq Jobs /\ excused' \subseteq Jobs
        BY <2>1, EventTypes DEF TakeText
    <2>5. hasty' \subseteq Files \X Versions
        BY <1>3 DEF GetText, GetTextAgain, ExtractionTypeOK, TargetsResolved, Resolved
    <2>6. QED
        BY <1>3, <2>3, <2>4, <2>5 DEF ExtractionTypeOK, GetText, GetTextAgain
<1>4. CASE Convert(r)
    <2>1. conversions' \subseteq Conversions
        BY <1>4, BegunTypes DEF Convert, ExtractionTypeOK
    <2>2. at' \in [Runs -> Stages]
        BY <1>4 DEF ExtractionTypeOK, Convert, Goto, Stages
    <2>3. QED
        BY <1>4, <2>1, <2>2 DEF ExtractionTypeOK, Convert, eventVars
<1>5. CASE Lookup(r)
    <2>1. at' \in [Runs -> Stages]
        BY <1>5 DEF ExtractionTypeOK, Lookup, Goto, Stages
    <2>2. \A v \in Versions : v \in 0..MaxVersion
        BY VersionRange
    <2>3. text' \in [Runs -> 0..MaxVersion]
        BY <1>5, <2>2 DEF ExtractionTypeOK, Lookup
    <2>4. Excuse(r) \/ UNCHANGED eventVars
        BY <1>5 DEF Lookup
    <2>5. QED
        BY <1>5, <2>1, <2>3, <2>4, EventTypes DEF ExtractionTypeOK, Lookup
<1>6. CASE AskModel(r)
    <2>1. at' \in [Runs -> Stages]
        BY <1>6 DEF ExtractionTypeOK, AskModel, Goto, Stages
    <2>2. Tell(r) \/ UNCHANGED eventVars
        BY <1>6 DEF AskModel
    <2>3. told' \subseteq Jobs /\ excused' \subseteq Jobs
        BY <2>2, EventTypes
    <2>4. QED
        BY <1>6, <2>1, <2>3 DEF ExtractionTypeOK, AskModel
<1>7. CASE PutRead(r)
    <2>1. at' \in [Runs -> Stages]
        BY <1>7 DEF ExtractionTypeOK, PutRead, Goto, Stages
    <2>2. target[r] \in Versions
        BY <1>7 DEF PutRead, TargetsResolved, Resolved, Reading
    <2>3. seen' \in [Runs -> Sidecars]
        BY <1>7, <2>2 DEF ExtractionTypeOK, PutRead
    <2>4. QED
        BY <1>7, <2>1, <2>3, EventTypes DEF ExtractionTypeOK, PutRead
<1>8. CASE PutWrite(r)
    <2>1. at' \in [Runs -> Stages]
        BY <1>8 DEF ExtractionTypeOK, PutWrite, Goto, Stages
    <2>2. PICK f \in Files, q \in Questions :
              sidecar' = [sidecar EXCEPT ![f][target[r]] =
                            [there |-> TRUE, entries |-> Entered(r, q)]]
        BY <1>8 DEF PutWrite
    <2>3. target[r] \in Versions /\ text[r] \in Versions
        BY <1>8 DEF PutWrite, TargetsResolved, Resolved, Reading
    <2>4. [there |-> TRUE, entries |-> Entered(r, q)] \in Sidecars
        BY <2>3 DEF Entered, Sidecars, ExtractionTypeOK
    <2>5. sidecar' \in [Files -> [Versions -> Sidecars]]
        <3>1. Replaces(f, target[r], [there |-> TRUE, entries |-> Entered(r, q)])
            BY <2>2 DEF Replaces
        <3>2. QED
            BY <2>3, <2>4, <3>1, SidecarWrite
    <2>6. QED
        BY <1>8, <2>1, <2>5, EventTypes DEF ExtractionTypeOK, PutWrite
<1>9. CASE PutFails(r)
    <2>1. at' \in [Runs -> Stages]
        BY <1>9 DEF ExtractionTypeOK, PutFails, Goto, Stages
    <2>2. sidecar' \in [Files -> [Versions -> Sidecars]]
        <3>1. CASE UNCHANGED sidecar
            BY <3>1 DEF ExtractionTypeOK
        <3>2. CASE ~UNCHANGED sidecar
            <4>1. PICK f \in Files :
                      sidecar' = [sidecar EXCEPT ![f][target[r]].there = TRUE]
                BY <1>9, <3>2 DEF PutFails
            <4>2. target[r] \in Versions
                BY <1>9 DEF PutFails, TargetsResolved, Resolved, Reading
            <4> DEFINE s == [sidecar[f][target[r]] EXCEPT !.there = TRUE]
            <4>3. s \in Sidecars
                <5>1. sidecar[f][target[r]] \in Sidecars
                    BY <4>2 DEF ExtractionTypeOK
                <5>2. QED
                    BY <5>1 DEF Sidecars
            <4>4. Replaces(f, target[r], s)
                BY <4>1 DEF Replaces
            <4> HIDE DEF s
            <4>5. QED
                BY <4>2, <4>3, <4>4, SidecarWrite
        <3>3. QED
            BY <3>1, <3>2
    <2>3. QED
        BY <1>9, <2>1, <2>2, EventTypes DEF ExtractionTypeOK, PutFails
<1>10. CASE Announce(r)
    <2>1. at' \in [Runs -> Stages]
        BY <1>10 DEF ExtractionTypeOK, Announce, Goto, Stages
    <2>2. target[r] \in Versions
        BY <1>10 DEF Announce, TargetsResolved, Resolved, Reading
    <2>3. promised' \subseteq Files \X Versions \X Questions
        BY <1>10, <2>2 DEF ExtractionTypeOK, Announce
    <2>4. QED
        BY <1>10, <2>1, <2>3, EventTypes DEF ExtractionTypeOK, Announce
<1>11. CASE Item(r)
    <2>1. at' \in [Runs -> Stages]
        BY <1>11 DEF ExtractionTypeOK, Item, Goto, Stages
    <2>2. target[r] \in Versions /\ text[r] \in Versions
        BY <1>11 DEF Item, TargetsResolved, Resolved, Reading
    <2>3. results' \subseteq Calls \X Files \X Versions \X Versions
        BY <1>11, <2>2 DEF ExtractionTypeOK, Item
    <2>4. QED
        BY <1>11, <2>1, <2>3, EventTypes DEF ExtractionTypeOK, Item
<1>12. QED
    BY <1>1, <1>2, <1>3, <1>4, <1>5, <1>6, <1>7, <1>8, <1>9, <1>10, <1>11 DEF Extract

-----------------------------------------------------------------------------
(* What holds of every run: it is for one task, what it reads and what it  *)
(* is about to write back may be given for the version it resolved, its    *)
(* job has had an answer once it only has to be given back, and of a       *)
(* forgotten file it has only what it had in hand before.                  *)
ReadsFresh(r) ==
    /\ text[r] \in Versions
    /\ \A f \in Files, q \in Questions, v, w \in Versions :
          Asks(r, f, q) /\ target[r] = v /\ text[r] = w => FreshFor(f, v, w)

HoldsFresh(r) ==
    \A e \in seen[r].entries, f \in Files, q \in Questions, v \in Versions :
        Asks(r, f, q) /\ target[r] = v => FreshFor(f, v, e[2])

RunOK(r) ==
    /\ at[r] \in Resolved => target[r] \in Versions
    /\ at[r] \in Reading => ReadsFresh(r)
    /\ at[r] = "write" => HoldsFresh(r)
    /\ at[r] \in {"item", "done"} => task[r] \cap Jobs \subseteq told \cup excused
    /\ task[r] \subseteq IF r \in Calls THEN {r} ELSE Jobs
    /\ \A k, l \in task[r] : k = l
    /\ at[r] \in Reading =>
          \A f \in forgotten \ raced, q \in Questions : Asks(r, f, q) => r \in lastReaders[f]

(* The text of a row that is settled is not older than its version, unless *)
(* it was kept; a conversion fetches what it has stat'ed or what is newer. *)
RowOK(f) ==
    /\ row[f].status = "none" => row[f].of = 0
    /\ row[f].status = "settled" =>
          row[f].text = 0 \/ row[f].text >= row[f].of \/ KeptText(f, row[f].of)

ConversionOK(c) == c.of <= c.got /\ c.got <= version[c.file]

(* The text of a forgotten file does not come back, if nobody was          *)
(* converting it.                                                          *)
ForgottenStays ==
    \A f \in forgotten \ raced : row[f].text = 0 /\ \A c \in conversions : c.file # f

StoreInv ==
    /\ \A f \in Files : RowOK(f)
    /\ \A c \in conversions : ConversionOK(c)
    /\ ForgottenStays

ExtractionInv ==
    /\ ExtractionTypeOK
    /\ \A r \in Runs : RunOK(r)
    /\ StoreInv
    /\ ValuesAreNotStale /\ JobsAreAnswered /\ QuietErasureForgetsValues

LEMMA InvTargets == ExtractionInv => TargetsResolved
BY DEF ExtractionInv, RunOK, ReadsFresh, TargetsResolved

LEMMA InvInit == ExtractionInit => ExtractionInv
<1> SUFFICES ASSUME ExtractionInit PROVE ExtractionInv
    OBVIOUS
<1>1. \A r \in Runs : RunOK(r)
    BY ExtractionAssumption DEF ExtractionInit, RunOK, Resolved, Reading, Runs
<1>2. ValuesAreNotStale
    BY DEF ExtractionInit, ValuesAreNotStale, NoSidecar
<1>3. StoreInv
    BY DEF ExtractionInit, StoreInv, RowOK, ForgottenStays, NoRow, ConvertedRow
<1>4. QED
    BY <1>1, <1>2, <1>3, TypeInit
       DEF ExtractionInit, ExtractionInv, JobsAreAnswered, QuietErasureForgetsValues

-----------------------------------------------------------------------------
LEMMA VersionTypes ==
    ASSUME ExtractionTypeOK, ExtractionTypeOK'
    PROVE  /\ version \in [Files -> Versions] /\ version' \in [Files -> Versions]
           /\ Versions \subseteq Int
BY ExtractionAssumption DEF ExtractionTypeOK, Versions

(* What may be given for a version may be given for good.                  *)
Grows ==
    /\ hasty \subseteq hasty' /\ UNCHANGED content
    /\ \A f \in Files : version[f] <= version'[f]

LEMMA KeptGrows ==
    ASSUME ExtractionTypeOK, ExtractionTypeOK', Grows, NEW f \in Files, NEW v \in 0..MaxVersion,
           KeptText(f, v)
    PROVE  KeptText(f, v)'
<1>1. PICK u \in v..version[f] : content[u] = "image"
    BY DEF KeptText
<1>2. version[f] \in Int /\ version'[f] \in Int /\ version[f] <= version'[f] /\ v \in Int
    BY ExtractionAssumption DEF ExtractionTypeOK, Versions, Grows
<1>3. u \in v..version'[f]
    BY <1>2
<1>4. QED
    BY <1>1, <1>3 DEF KeptText, Grows

LEMMA FreshGrows ==
    ASSUME ExtractionTypeOK, ExtractionTypeOK', Grows
    PROVE  \A f \in Files, v, w \in Versions : FreshFor(f, v, w) => FreshFor(f, v, w)'
<1> SUFFICES ASSUME NEW f \in Files, NEW v \in Versions, NEW w \in Versions, FreshFor(f, v, w)
             PROVE  FreshFor(f, v, w)'
    OBVIOUS
<1>1. KeptText(f, v) => KeptText(f, v)'
    BY KeptGrows, VersionRange
<1>2. QED
    BY <1>1 DEF FreshFor, Grows

(* Values are taken away, never changed.                                   *)
Loses ==
    /\ results' \subseteq results
    /\ \A f \in Files, v \in Versions : sidecar'[f][v].entries \subseteq sidecar[f][v].entries

LEMMA EntryTypes ==
    ASSUME ExtractionTypeOK, NEW f \in Files, NEW v \in Versions
    PROVE  \A e \in sidecar[f][v].entries : e[2] \in Versions
<1>1. sidecar[f][v] \in Sidecars
    BY DEF ExtractionTypeOK
<1>2. QED
    BY <1>1 DEF Sidecars

LEMMA LosesKeepsFresh ==
    ASSUME ExtractionTypeOK, ExtractionTypeOK', Grows, ValuesAreNotStale, Loses
    PROVE  ValuesAreNotStale'
<1>1. ASSUME NEW f \in Files, NEW v \in Versions, NEW e \in sidecar'[f][v].entries
      PROVE  FreshFor(f, v, e[2])'
    <2>1. FreshFor(f, v, e[2]) /\ e[2] \in Versions
        BY <1>1, EntryTypes DEF Loses, ValuesAreNotStale
    <2>2. QED
        BY <2>1, FreshGrows
<1>2. ASSUME NEW x \in results' PROVE FreshFor(x[2], x[3], x[4])'
    <2>1. FreshFor(x[2], x[3], x[4]) /\ x[2] \in Files /\ x[3] \in Versions /\ x[4] \in Versions
        BY <1>2 DEF Loses, ValuesAreNotStale, ExtractionTypeOK
    <2>2. QED
        BY <2>1, FreshGrows
<1>3. QED
    BY <1>1, <1>2 DEF ValuesAreNotStale

(* Rows and conversions stay in order while files are revised.             *)
LEMMA RowGrows ==
    ASSUME ExtractionTypeOK, ExtractionTypeOK', Grows, NEW f \in Files, RowOK(f),
           row'[f] = row[f]
    PROVE  RowOK(f)'
<1>1. row[f].of \in 0..MaxVersion
    BY DEF ExtractionTypeOK, Rows
<1>2. ASSUME NEW v, v = row[f].of, KeptText(f, v) PROVE KeptText(f, v)'
    BY <1>1, <1>2, KeptGrows
<1>3. KeptText(f, row[f].of) => KeptText(f, row[f].of)'
    BY <1>2 DEF KeptText
<1>4. QED
    BY <1>3 DEF RowOK, KeptText

LEMMA ConversionGrows ==
    ASSUME ExtractionTypeOK, ExtractionTypeOK', Grows, NEW c \in Conversions, ConversionOK(c)
    PROVE  ConversionOK(c)'
<1>1. /\ c.file \in Files /\ c.got \in Int /\ version[c.file] \in Int
      /\ version'[c.file] \in Int
    BY ExtractionAssumption DEF Conversions, ExtractionTypeOK, Versions
<1>2. QED
    BY <1>1 DEF ConversionOK, Grows

LEMMA StoreKept ==
    ASSUME ExtractionTypeOK, ExtractionTypeOK', Grows, StoreInv,
           UNCHANGED <<row, forgotten, raced>>, conversions' \subseteq conversions
    PROVE  StoreInv'
<1>1. \A f \in Files : RowOK(f)'
    BY RowGrows DEF StoreInv
<1>2. \A c \in conversions' : ConversionOK(c)'
    BY ConversionGrows DEF StoreInv, ExtractionTypeOK
<1>3. ForgottenStays'
    BY DEF StoreInv, ForgottenStays
<1>4. QED
    BY <1>1, <1>2, <1>3 DEF StoreInv

LEMMA StoreBegun ==
    ASSUME ExtractionTypeOK, ExtractionTypeOK', Grows, StoreInv, UNCHANGED <<row, forgotten, raced>>,
           NEW x, NEW f \in Files \ erased, Begun(x, f)
    PROVE  StoreInv'
<1>1. PICK n : /\ n = [by |-> x, file |-> f, of |-> version[f], got |-> version[f], step |-> "fetch"]
               /\ conversions' = conversions \cup {n}
    BY DEF Begun
<1>2. version[f] \in Int /\ version'[f] \in Int /\ version[f] <= version'[f]
    BY VersionTypes DEF Grows
<1>3. ConversionOK(n)' /\ n.file = f
    BY <1>1, <1>2 DEF ConversionOK
<1>4. \A c \in conversions' : ConversionOK(c)'
    BY <1>1, <1>3, ConversionGrows DEF StoreInv, ExtractionTypeOK
<1>5. f \notin forgotten
    BY DEF ExtractionTypeOK
<1>6. ForgottenStays'
    BY <1>1, <1>3, <1>5 DEF StoreInv, ForgottenStays
<1>7. \A g \in Files : RowOK(g)'
    BY RowGrows DEF StoreInv
<1>8. QED
    BY <1>4, <1>6, <1>7 DEF StoreInv

-----------------------------------------------------------------------------
(* Around the runs nothing changes for them, unless their file is erased.  *)
LEMMA ReadingKept ==
    ASSUME ExtractionTypeOK, ExtractionTypeOK', Grows, NEW r \in Runs,
           UNCHANGED <<task[r], target[r], text[r], asks>>, ReadsFresh(r)
    PROVE  ReadsFresh(r)'
<1>1. \A f, q : Asks(r, f, q)' <=> Asks(r, f, q)
    BY DEF Asks
<1>2. QED
    BY <1>1, FreshGrows DEF ReadsFresh

LEMMA HoldingKept ==
    ASSUME ExtractionTypeOK, ExtractionTypeOK', Grows, NEW r \in Runs,
           UNCHANGED <<task[r], target[r], seen[r], asks>>, HoldsFresh(r)
    PROVE  HoldsFresh(r)'
<1>1. \A f, q : Asks(r, f, q)' <=> Asks(r, f, q)
    BY DEF Asks
<1>2. \A e \in seen[r].entries : e[2] \in Versions
    <2>1. seen[r] \in Sidecars
        BY DEF ExtractionTypeOK
    <2>2. QED
        BY <2>1 DEF Sidecars
<1>3. QED
    BY <1>1, <1>2, FreshGrows DEF HoldsFresh

LEMMA RunKept ==
    ASSUME ExtractionTypeOK, ExtractionTypeOK', Grows, NEW r \in Runs, RunOK(r),
           UNCHANGED <<at[r], task[r], target[r], text[r], seen[r], asks, forgotten, raced,
                       lastReaders>>,
           told \subseteq told', excused \subseteq excused'
    PROVE  RunOK(r)'
<1>1. at[r] \in Reading => ReadsFresh(r)'
    BY ReadingKept DEF RunOK
<1>2. at[r] = "write" => HoldsFresh(r)'
    BY HoldingKept DEF RunOK
<1>3. \A f, q : Asks(r, f, q)' <=> Asks(r, f, q)
    BY DEF Asks
<1>4. QED
    BY <1>1, <1>2, <1>3 DEF RunOK

LEMMA AroundKeepsRuns ==
    ASSUME ExtractionInv, ExtractionTypeOK', Grows,
           UNCHANGED <<quiet, asks, eventVars, forgotten, raced, lastReaders>>
    PROVE  \A r \in Runs : RunOK(r)'
<1>1. UNCHANGED <<at, task, target, text, seen, told, excused>>
    BY DEF quiet, loopVars, frameVars, eventVars
<1>2. QED
    BY <1>1, RunKept DEF ExtractionInv

(* A step that disturbs neither runs nor answers.                          *)
LEMMA AroundKeeps ==
    ASSUME ExtractionInv, ExtractionTypeOK', Grows, StoreInv', Loses,
           UNCHANGED <<quiet, asks, eventVars, forgotten, raced, lastReaders>>,
           \A j \in Jobs : msg'[j] = "acked" => msg[j] = "acked"
    PROVE  ExtractionInv'
<1>1. JobsAreAnswered'
    BY DEF ExtractionInv, JobsAreAnswered, eventVars
<1>2. QuietErasureForgetsValues'
    BY DEF ExtractionInv, QuietErasureForgetsValues, Loses
<1>3. QED
    BY <1>1, <1>2, AroundKeepsRuns, LosesKeepsFresh DEF ExtractionInv

(* The steps of a conversion.                                              *)
LEMMA InvConvey ==
    ASSUME ExtractionInv, NEW x, Convey(x)
    PROVE  ExtractionInv'
<1>1. ExtractionTypeOK /\ ExtractionTypeOK' /\ StoreInv
    BY ConveyTypes DEF ExtractionInv
<1>2. PICK c \in conversions : Fetch(c) \/ MarkConverting(c) \/ Prune(c) \/ Record(c) \/ Break(c)
    BY DEF Convey
<1>3. UNCHANGED beyondVars
    BY <1>2 DEF Fetch, MarkConverting, Prune, Record, Break
<1>4. UNCHANGED <<quiet, asks, eventVars, forgotten, raced, lastReaders, results, msg, content,
                  version, hasty>>
    BY <1>3 DEF beyondVars, queueVars
<1>5. /\ c \in Conversions /\ c.file \in Files /\ c.file \notin forgotten \ raced
      /\ c.of \in Versions /\ c.got \in Versions /\ ConversionOK(c)
    BY <1>1 DEF ExtractionTypeOK, Conversions, StoreInv, ForgottenStays
<1>6. Grows
    BY <1>1, <1>4, ExtractionAssumption DEF Grows, ExtractionTypeOK, Versions
<1>7. Loses
    <2>1. CASE Prune(c)
        <3>1. \A g \in Files, v \in Versions :
                sidecar'[g][v] = IF g = c.file /\ v # c.of THEN NoSidecar ELSE sidecar[g][v]
            BY <1>1, <1>5, <2>1 DEF Prune, ExtractionTypeOK
        <3>2. QED
            BY <1>4, <3>1 DEF Loses, NoSidecar
    <2>2. CASE ~Prune(c)
        BY <1>2, <1>4, <2>2 DEF Loses, Fetch, MarkConverting, Record, Break
    <2>3. QED
        BY <2>1, <2>2
<1>8. StoreInv'
    <2>1. CASE Fetch(c)
        <3>1. PICK n : /\ n = [c EXCEPT !.got = version[c.file], !.step = "mark"]
                       /\ conversions' = (conversions \ {c}) \cup {n} /\ UNCHANGED row
            BY <2>1 DEF Fetch
        <3>1a. n.file = c.file /\ n.of = c.of /\ n.got = version[c.file]
            BY <1>5, <3>1 DEF Conversions
        <3>2. version[c.file] \in Int /\ c.of \in Int /\ c.got \in Int
            BY <1>1, <1>5, VersionTypes DEF Versions
        <3>3. ConversionOK(n)'
            BY <1>4, <1>5, <3>1a, <3>2 DEF ConversionOK
        <3>4. \A b \in conversions' : ConversionOK(b)'
            BY <1>1, <1>6, <3>1, <3>3, ConversionGrows DEF StoreInv, ExtractionTypeOK
        <3>5. ForgottenStays'
            BY <1>1, <1>4, <1>5, <3>1, <3>1a DEF StoreInv, ForgottenStays
        <3>6. \A g \in Files : RowOK(g)'
            BY <1>1, <1>6, <3>1, RowGrows DEF StoreInv
        <3>7. QED
            BY <3>4, <3>5, <3>6 DEF StoreInv
    <2>2. CASE MarkConverting(c) \/ Prune(c)
        <3>1. PICK step : GoesOn(c, step)
            BY <2>2 DEF MarkConverting, Prune
        <3>1a. PICK n : /\ n = [c EXCEPT !.step = step]
                       /\ conversions' = (conversions \ {c}) \cup {n}
            BY <3>1 DEF GoesOn
        <3>2. /\ n.file = c.file /\ n.of = c.of /\ n.got = c.got
              /\ conversions' = (conversions \ {c}) \cup {n}
            BY <1>5, <3>1a DEF Conversions
        <3>3. ConversionOK(n)'
            BY <1>4, <1>5, <3>2 DEF ConversionOK
        <3>4. \A b \in conversions' : ConversionOK(b)'
            BY <1>1, <1>6, <3>2, <3>3, ConversionGrows DEF StoreInv, ExtractionTypeOK
        <3>5. \A g \in Files : \/ row'[g] = row[g]
                                 \/ (g = c.file /\ row'[g].status = "converting")
            BY <1>1, <1>5, <2>2 DEF MarkConverting, Prune, Marked, ExtractionTypeOK
        <3>6. \A g \in Files : RowOK(g)'
            <4> SUFFICES ASSUME NEW g \in Files PROVE RowOK(g)'
                OBVIOUS
            <4>1. CASE row'[g] = row[g]
                BY <1>1, <1>6, <4>1, RowGrows DEF StoreInv
            <4>2. CASE row'[g].status = "converting"
                BY <4>2 DEF RowOK
            <4>3. QED
                BY <3>5, <4>1, <4>2
        <3>7. \A g \in forgotten \ raced : row'[g] = row[g]
            BY <1>1, <1>5, <3>5 DEF ExtractionTypeOK
        <3>8. ForgottenStays'
            BY <1>1, <1>4, <1>5, <3>2, <3>7 DEF StoreInv, ForgottenStays
        <3>9. QED
            BY <3>4, <3>6, <3>8 DEF StoreInv
    <2>3. CASE Record(c)
        <3>1. /\ row' = [row EXCEPT ![c.file] = Outcome(c)] /\ conversions' \subseteq conversions
            BY <2>3 DEF Record, Ends
        <3>2. /\ row'[c.file] = Outcome(c)
              /\ \A g \in Files : g # c.file => row'[g] = row[g]
            BY <1>1, <1>5, <3>1 DEF ExtractionTypeOK
        <3>3. /\ Outcome(c).of = c.of
              /\ Outcome(c).status = IF content[c.got] = "blob" THEN "unsupported" ELSE "settled"
              /\ Outcome(c).text = IF content[c.got] = "text" THEN c.got ELSE row[c.file].text
            BY DEF Outcome
        <3>4. /\ c.of \in Int /\ c.got \in Int /\ version[c.file] \in Int
              /\ c.of <= c.got /\ c.got <= version[c.file]
            BY <1>1, <1>5, ExtractionAssumption DEF ExtractionTypeOK, Versions, ConversionOK
        <3>5. content[c.got] \in {"text", "image", "blob"}
            BY <1>1, <1>5 DEF ExtractionTypeOK, Contents
        <3>6. content[c.got] = "image" => KeptText(c.file, c.of)
            BY <3>4 DEF KeptText
        <3>7. content[c.got] = "image" => KeptText(c.file, c.of)'
            BY <1>4, <3>6 DEF KeptText
        <3>8. RowOK(c.file)'
            <4>1. CASE content[c.got] = "text"
                BY <3>2, <3>3, <3>4, <4>1 DEF RowOK
            <4>2. CASE content[c.got] = "image"
                BY <3>2, <3>3, <3>7, <4>2 DEF RowOK, KeptText
            <4>3. CASE content[c.got] = "blob"
                BY <3>2, <3>3, <4>3 DEF RowOK
            <4>4. QED
                BY <3>5, <4>1, <4>2, <4>3
        <3>9. \A g \in Files : RowOK(g)'
            BY <1>1, <1>6, <3>2, <3>8, RowGrows DEF StoreInv
        <3>10. \A b \in conversions' : ConversionOK(b)'
            BY <1>1, <1>6, <3>1, ConversionGrows DEF StoreInv, ExtractionTypeOK
        <3>11. ForgottenStays'
            BY <1>1, <1>4, <1>5, <3>1, <3>2 DEF StoreInv, ForgottenStays, ExtractionTypeOK
        <3>12. QED
            BY <3>9, <3>10, <3>11 DEF StoreInv
    <2>4. CASE Break(c)
        BY <1>1, <1>4, <1>6, <2>4, StoreKept DEF Break, Ends
    <2>5. QED
        BY <1>2, <2>1, <2>2, <2>3, <2>4
<1>9. QED
    BY <1>1, <1>4, <1>6, <1>7, <1>8, AroundKeeps

LEMMA InvAround == ExtractionInv /\ Around => ExtractionInv'
<1> SUFFICES ASSUME ExtractionInv, Around PROVE ExtractionInv'
    OBVIOUS
<1>1. ExtractionTypeOK /\ ExtractionTypeOK' /\ StoreInv
    BY TypeAround DEF ExtractionInv
<1>2. \A f \in Files : version[f] \in Int /\ version[f] <= version[f]
    BY <1>1, ExtractionAssumption DEF ExtractionTypeOK, Versions
<1>3. ASSUME NEW f \in Files, Revise(f) \/ TrulyDelete(f) PROVE ExtractionInv'
    <2>1. UNCHANGED <<quiet, asks, eventVars, forgotten, raced, lastReaders, results, msg, content,
                      hasty, row, conversions>>
        BY <1>3 DEF Revise, TrulyDelete, queueVars, historyVars
    <2>2. Grows
        <3>1. \A g \in Files : version[g] <= version'[g]
            <4>1. CASE Revise(f)
                <5>1. \A g \in Files : version'[g] = IF g = f THEN version[f] + 1 ELSE version[g]
                    BY <1>1, <4>1, VersionTypes DEF Revise
                <5>2. QED
                    BY <1>2, <5>1
            <4>2. CASE TrulyDelete(f)
                BY <1>2, <4>2 DEF TrulyDelete
            <4>3. QED
                BY <1>3, <4>1, <4>2
        <3>2. QED
            BY <2>1, <3>1 DEF Grows
    <2>3. Loses
        <3>1. CASE Revise(f)
            BY <3>1 DEF Revise, Loses
        <3>2. CASE TrulyDelete(f)
            BY <1>1, <3>2 DEF TrulyDelete, Loses, NoSidecar, ExtractionTypeOK
        <3>3. QED
            BY <1>3, <3>1, <3>2
    <2>4. QED
        BY <1>1, <2>1, <2>2, <2>3, StoreKept, AroundKeeps
<1>4. ASSUME NEW x \in Converters, Begin(x) PROVE ExtractionInv'
    <2>1. UNCHANGED <<quiet, asks, eventVars, forgotten, raced, lastReaders, results, msg, content,
                      version, hasty, row, sidecar>>
        BY <1>4 DEF Begin, queueVars, historyVars
    <2>2. Grows /\ Loses
        BY <1>2, <2>1 DEF Grows, Loses
    <2>3. StoreInv'
        BY <1>1, <1>4, <2>1, <2>2, StoreBegun DEF Begin
    <2>4. QED
        BY <1>1, <2>1, <2>2, <2>3, AroundKeeps
<1>5. ASSUME NEW f \in Files, Forget(f) PROVE ExtractionInv'
    <2>1. UNCHANGED <<at, task, target, text, seen, asks, told, excused, content, version, hasty,
                      conversions, msg, sidecar>>
        BY <1>5 DEF Forget, quiet, loopVars, frameVars, queueVars, eventVars
    <2>2. Grows
        BY <1>2, <2>1 DEF Grows
    <2>3. Loses
        BY <1>5, <2>1 DEF Forget, Loses
    <2>4. /\ forgotten' = forgotten \cup {f} /\ f \notin forgotten
          /\ raced \subseteq raced' /\ raced' \subseteq raced \cup {f}
          /\ f \notin raced' => \A c \in conversions : c.file # f
          /\ row'[f] = NoRow /\ \A g \in Files : g # f => row'[g] = row[g]
          /\ lastReaders'[f] = Readers(f)
          /\ \A g \in Files : g # f => lastReaders'[g] = lastReaders[g]
        BY <1>1, <1>5 DEF Forget, InFlight, ExtractionTypeOK
    <2>5. StoreInv'
        <3>1. RowOK(f)'
            BY <2>4 DEF RowOK, NoRow
        <3>2. \A g \in Files : RowOK(g)'
            BY <1>1, <2>2, <2>4, <3>1, RowGrows DEF StoreInv
        <3>3. \A c \in conversions' : ConversionOK(c)'
            BY <1>1, <2>1, <2>2, ConversionGrows DEF StoreInv, ExtractionTypeOK
        <3>4. row'[f].text = 0
            BY <2>4 DEF NoRow
        <3>5. ForgottenStays'
            BY <1>1, <2>1, <2>4, <3>4 DEF StoreInv, ForgottenStays, ExtractionTypeOK
        <3>6. QED
            BY <3>2, <3>3, <3>5 DEF StoreInv
    <2>6. \A r \in Runs : RunOK(r)'
        <3> SUFFICES ASSUME NEW r \in Runs PROVE RunOK(r)'
            OBVIOUS
        <3>1. RunOK(r) /\ \A g, q : Asks(r, g, q)' <=> Asks(r, g, q)
            BY <2>1 DEF ExtractionInv, Asks
        <3>2. at[r] \in Reading => ReadsFresh(r)'
            BY <1>1, <2>1, <2>2, <3>1, ReadingKept DEF RunOK
        <3>3. at[r] = "write" => HoldsFresh(r)'
            BY <1>1, <2>1, <2>2, <3>1, HoldingKept DEF RunOK
        <3>4. ASSUME at[r] \in Reading, NEW g \in forgotten' \ raced', NEW q \in Questions,
                     Asks(r, g, q)
              PROVE  r \in lastReaders'[g]
            <4>1. CASE g = f
                BY <2>4, <3>4, <4>1 DEF Readers
            <4>2. CASE g # f
                BY <1>1, <2>4, <3>1, <3>4, <4>2 DEF RunOK, ExtractionTypeOK
            <4>3. QED
                BY <4>1, <4>2
        <3>5. QED
            BY <2>1, <3>1, <3>2, <3>3, <3>4 DEF RunOK
    <2>7. QuietErasureForgetsValues'
        <3>1. \A z \in results' : z \in results /\ z[2] # f /\ z[2] \in Files
            BY <1>1, <1>5 DEF Forget, ExtractionTypeOK
        <3>2. QED
            BY <2>4, <3>1 DEF ExtractionInv, QuietErasureForgetsValues
    <2>8. JobsAreAnswered'
        BY <2>1 DEF ExtractionInv, JobsAreAnswered
    <2>9. QED
        BY <1>1, <2>2, <2>3, <2>5, <2>6, <2>7, <2>8, LosesKeepsFresh DEF ExtractionInv
<1>6. CASE \/ \E j \in Jobs : Enqueue(j) \/ BecomeIdle(j) \/ GrowOld(j)
           \/ Expire \/ Budget \/ Retire \/ \E c \in Calls : HangUp(c)
    <2>1. UNCHANGED <<quiet, asks, eventVars, coreVars, forgotten, historyVars, results, sidecar>>
        BY <1>6 DEF Enqueue, BecomeIdle, GrowOld, Expire, Budget, Retire, HangUp, worldVars,
                    coreVars, queueVars, quiet
    <2>2. \A j \in Jobs : msg'[j] = "acked" => msg[j] = "acked"
        BY <1>1, <1>6 DEF Enqueue, BecomeIdle, GrowOld, Expire, Budget, Retire, HangUp, queueVars,
                          ExtractionTypeOK
    <2>3. UNCHANGED <<row, conversions, content, version, forgotten, raced, hasty, lastReaders>>
        BY <2>1 DEF coreVars, historyVars
    <2>4. Grows /\ Loses
        BY <1>2, <2>1, <2>3 DEF Grows, Loses
    <2>5. QED
        BY <1>1, <2>1, <2>2, <2>3, <2>4, StoreKept, AroundKeeps
<1>7. QED
    BY <1>3, <1>4, <1>5, <1>6, InvConvey DEF Around

-----------------------------------------------------------------------------
(* A step of one run leaves the others alone, and takes no answer back.    *)
Aside(r) ==
    /\ \A s \in Runs \ {r} : /\ at'[s] = at[s] /\ task'[s] = task[s] /\ target'[s] = target[s]
                             /\ text'[s] = text[s] /\ seen'[s] = seen[s]
    /\ told \subseteq told' /\ excused \subseteq excused'
    /\ UNCHANGED <<asks, forgotten, raced, lastReaders>>

LEMMA OthersKeep ==
    ASSUME ExtractionTypeOK, ExtractionTypeOK', Grows, \A s \in Runs : RunOK(s), NEW r \in Runs,
           Aside(r), RunOK(r)'
    PROVE  \A s \in Runs : RunOK(s)'
<1> SUFFICES ASSUME NEW s \in Runs, s # r PROVE RunOK(s)'
    OBVIOUS
<1>1. RunOK(s) /\ UNCHANGED <<at[s], task[s], target[s], text[s], seen[s], asks, forgotten, raced,
                              lastReaders>>
    BY DEF Aside
<1>2. QED
    BY <1>1, RunKept DEF Aside

(* Where the core and the rows stay as they are.                           *)
LEMMA StillGrows ==
    ASSUME ExtractionTypeOK, UNCHANGED <<content, version>>, hasty \subseteq hasty'
    PROVE  Grows
<1>1. \A f \in Files : version[f] \in Int
    BY ExtractionAssumption DEF ExtractionTypeOK, Versions
<1>2. QED
    BY <1>1 DEF Grows

LEMMA TurnsAside ==
    ASSUME ExtractionTypeOK, NEW t \in Threads, NEW j, Turn(t, j)
    PROVE  /\ \A s \in Runs \ {t} : at'[s] = at[s] /\ task'[s] = task[s]
           /\ at'[t] \in {"pass", "begin"} /\ task'[t] = {}
BY DEF Turn, Goto, ExtractionTypeOK, Runs

(* The steps of the job loop.                                              *)
LEMMA InvLoop ==
    ASSUME ExtractionInv, NEW t \in Threads,
           \/ ReadNew(t) \/ Claim(t) \/ Wait(t) \/ GiveUp(t) \/ Stumble(t) \/ RefuseSlot(t)
           \/ StartJob(t) \/ EndJob(t) \/ PutOff(t) \/ Kill(t)
    PROVE  ExtractionInv'
<1>1. ExtractionTypeOK'
    BY TypeLoop DEF ExtractionInv
<1>2. t \in Runs /\ t \notin Calls /\ ExtractionTypeOK /\ StoreInv
    BY ExtractionAssumption DEF Runs, ExtractionInv
<1>3. /\ UNCHANGED <<version, content, row, sidecar, results, asks, forgotten, raced, lastReaders,
                     hasty>>
      /\ conversions' \subseteq conversions
      /\ told \subseteq told' /\ excused \subseteq excused'
    <2>1. CASE Kill(t)
        BY <2>1 DEF Kill, queueVars, historyVars, eventVars
    <2>2. CASE ~Kill(t)
        <3>1. /\ UNCHANGED worldVars
              /\ told \subseteq told' /\ excused \subseteq excused'
            BY <2>2 DEF ReadNew, Claim, Wait, GiveUp, Stumble, RefuseSlot, StartJob, EndJob, PutOff,
                      eventVars
        <3>2. QED
            BY <3>1 DEF worldVars, coreVars, historyVars
    <2>3. QED
        BY <2>1, <2>2
<1>4. Grows /\ Loses
    BY <1>2, <1>3, StillGrows DEF Loses
<1>5. /\ \A s \in Runs \ {t} : target'[s] = target[s] /\ text'[s] = text[s] /\ seen'[s] = seen[s]
    BY <1>2 DEF ReadNew, Claim, Wait, GiveUp, Stumble, RefuseSlot, StartJob, EndJob, PutOff, Kill,
              frameVars, Forgotten, ExtractionTypeOK
<1>6. /\ \A s \in Runs \ {t} : at'[s] = at[s] /\ task'[s] = task[s]
      /\ at'[t] \notin Resolved \cup {"done"}
      /\ task'[t] = task[t] \/ task'[t] = {} \/ \E j \in Jobs : task'[t] = {j}
    <2>1. CASE ReadNew(t) \/ Claim(t)
        BY <1>2, <2>1 DEF ReadNew, Claim, Goto, ExtractionTypeOK, Resolved, Reading
    <2>2. CASE Wait(t) \/ GiveUp(t) \/ Stumble(t) \/ RefuseSlot(t) \/ EndJob(t) \/ PutOff(t)
        BY <1>2, <2>2, TurnsAside DEF Wait, GiveUp, Stumble, RefuseSlot, EndJob, PutOff, Resolved, Reading
    <2>3. CASE StartJob(t)
        BY <1>2, <2>3 DEF StartJob, Goto, ExtractionTypeOK, Resolved, Reading
    <2>4. CASE Kill(t)
        BY <1>2, <2>4 DEF Kill, Goto, ExtractionTypeOK, Resolved, Reading
    <2>5. QED
        BY <2>1, <2>2, <2>3, <2>4
<1>7. Aside(t)
    BY <1>3, <1>5, <1>6 DEF Aside
<1>8. RunOK(t)'
    <2>1. RunOK(t)
        BY <1>2 DEF ExtractionInv
    <2>2. /\ at'[t] \notin Resolved /\ at'[t] \notin Reading
          /\ at'[t] # "write" /\ at'[t] \notin {"item", "done"}
        BY <1>6 DEF Resolved, Reading
    <2>3. task'[t] \subseteq Jobs /\ \A k, l \in task'[t] : k = l
        BY <1>2, <1>6, <2>1 DEF RunOK
    <2>4. QED
        BY <1>2, <2>2, <2>3 DEF RunOK
<1>9. JobsAreAnswered'
    <2>1. \A j \in Jobs : msg'[j] = "acked" => msg[j] = "acked" \/ j \in told' \cup excused'
        <3>1. CASE ReadNew(t)
            BY <3>1 DEF ReadNew, ExtractionInv, ExtractionTypeOK
        <3>2. CASE Claim(t) \/ Wait(t) \/ RefuseSlot(t) \/ StartJob(t) \/ PutOff(t) \/ Kill(t)
            BY <3>2 DEF Claim, Wait, RefuseSlot, StartJob, PutOff, Kill, queueVars
        <3>3. CASE GiveUp(t) \/ Stumble(t)
            BY <3>3 DEF GiveUp, Stumble, Acknowledge, ExtractionInv, ExtractionTypeOK
        <3>4. CASE EndJob(t)
            BY <1>2, <3>4 DEF EndJob, Acknowledge, ExtractionInv, ExtractionTypeOK, RunOK, eventVars
        <3>5. QED
            BY <3>1, <3>2, <3>3, <3>4
    <2>2. QED
        BY <1>3, <2>1 DEF ExtractionInv, JobsAreAnswered
<1>10. StoreInv'
    BY <1>1, <1>2, <1>3, <1>4, StoreKept
<1>11. QuietErasureForgetsValues'
    BY <1>3 DEF ExtractionInv, QuietErasureForgetsValues
<1>12. (\A s \in Runs : RunOK(s)') /\ ValuesAreNotStale'
    BY <1>1, <1>2, <1>4, <1>7, <1>8, OthersKeep, LosesKeepsFresh DEF ExtractionInv
<1>13. QED
    BY <1>1, <1>9, <1>10, <1>11, <1>12 DEF ExtractionInv

(* A call starts, and ends.                                                *)
LEMMA InvCall ==
    ASSUME ExtractionInv, NEW c \in Calls, StartCall(c) \/ EndCall(c)
    PROVE  ExtractionInv'
<1> USE DEF worldVars, coreVars, historyVars, loopVars, eventVars, slotVars
<1>1. c \in Runs /\ ExtractionTypeOK /\ StoreInv
    BY DEF Runs, ExtractionInv
<1>2. UNCHANGED <<asks, forgotten, raced, lastReaders, results, sidecar, row, conversions, content,
                  version, hasty, msg, told, excused, task>>
    BY DEF StartCall, EndCall
<1>3. /\ \A s \in Runs \ {c} : /\ at'[s] = at[s] /\ target'[s] = target[s] /\ text'[s] = text[s]
                               /\ seen'[s] = seen[s]
      /\ at'[c] \in {"resolve", "over"}
    BY <1>1 DEF StartCall, EndCall, Goto, Forgotten, frameVars, ExtractionTypeOK
<1>4. Aside(c)
    BY <1>2, <1>3 DEF Aside
<1>5. RunOK(c)'
    BY <1>1, <1>2, <1>3 DEF RunOK, Resolved, Reading, ExtractionInv
<1>6. ExtractionTypeOK'
    <2>1. at' \in [Runs -> Stages]
        BY <1>1 DEF StartCall, EndCall, Goto, Stages, ExtractionTypeOK
    <2>2. Forgotten(c) \/ UNCHANGED frameVars
        BY DEF StartCall, EndCall
    <2>3. /\ target' \in [Runs -> 0..MaxVersion] /\ text' \in [Runs -> 0..MaxVersion]
          /\ seen' \in [Runs -> Sidecars]
        BY <1>1, <2>2, ForgottenTypes DEF frameVars, ExtractionTypeOK
    <2>4. QED
        BY <1>1, <2>1, <2>3 DEF StartCall, EndCall, ExtractionTypeOK
<1>7. Grows /\ Loses
    BY <1>1, <1>2, StillGrows DEF Loses
<1>8. JobsAreAnswered' /\ QuietErasureForgetsValues'
    BY <1>2 DEF ExtractionInv, QuietErasureForgetsValues, JobsAreAnswered
<1>9. StoreInv'
    BY <1>1, <1>2, <1>6, <1>7, StoreKept
<1>10. (\A s \in Runs : RunOK(s)') /\ ValuesAreNotStale'
    BY <1>1, <1>4, <1>5, <1>6, <1>7, OthersKeep, LosesKeepsFresh DEF ExtractionInv
<1>11. QED
    BY <1>6, <1>8, <1>9, <1>10 DEF ExtractionInv

-----------------------------------------------------------------------------
(* The steps of Extractor.run.  What is known of the run that moves: its   *)
(* file and question are one each, and none it did not have before.        *)
LEMMA OneFile ==
    ASSUME ExtractionInv, NEW r \in Runs, NEW f \in Files, NEW q \in Questions, Asks(r, f, q),
           NEW g, NEW p, Asks(r, g, p)
    PROVE  g = f /\ p = q
BY DEF ExtractionInv, RunOK, Asks

(* A text that is taken may be given for the version of its row, and it is *)
(* not that of a file forgotten in peace.                                  *)
LEMMA TakenIsFresh ==
    ASSUME ExtractionInv, ExtractionTypeOK', Grows, NEW f \in Files,
           NEW v \in Versions, NEW w \in Versions,
           row[f].of = v, row[f].text = w, row[f].status # "unsupported",
           InConversion(f) => <<f, v>> \in hasty'
    PROVE  FreshFor(f, v, w)' /\ f \notin forgotten \ raced
<1>1. RowOK(f) /\ row[f] \in Rows /\ ForgottenStays /\ ExtractionTypeOK
    BY DEF ExtractionInv, StoreInv, ExtractionTypeOK
<1>2. v # 0 /\ w # 0
    BY DEF Versions
<1>3. row[f].status \in {"converting", "settled"}
    BY <1>1, <1>2 DEF RowOK, Rows
<1>4. CASE row[f].status = "converting"
    <2>1. <<f, v>> \in hasty'
        BY <1>4 DEF InConversion
    <2>2. FreshFor(f, v, w)'
        BY <2>1 DEF FreshFor
    <2>3. QED
        BY <1>1, <1>2, <2>2 DEF ForgottenStays
<1>5. CASE row[f].status = "settled"
    <2>1. w >= v \/ KeptText(f, v)
        BY <1>1, <1>2, <1>5 DEF RowOK
    <2>2. FreshFor(f, v, w)
        BY <2>1 DEF FreshFor
    <2>3. FreshFor(f, v, w)'
        BY <1>1, <2>2, FreshGrows
    <2>4. QED
        BY <1>1, <1>2, <2>3 DEF ForgottenStays
<1>6. QED
    BY <1>3, <1>4, <1>5

LEMMA AsideOf ==
    ASSUME ExtractionInv, NEW r \in Runs, Extract(r)
    PROVE  /\ Aside(r) /\ Grows
           /\ UNCHANGED <<msg, row, task, asks, forgotten, raced, lastReaders>>
<1>1. UNCHANGED runVars
    BY DEF Extract, Resolve, NextFile, GetText, Convert, GetTextAgain, Lookup, AskModel, PutRead,
           PutWrite, PutFails, Announce, Item
<1>2. UNCHANGED <<msg, row, task, asks, forgotten, raced, lastReaders, version, content>>
    BY <1>1 DEF runVars, queueVars, loopVars
<1>3. /\ \A s \in Runs \ {r} : at'[s] = at[s] /\ target'[s] = target[s] /\ text'[s] = text[s]
                               /\ seen'[s] = seen[s]
    BY DEF Extract, Resolve, NextFile, GetText, Convert, GetTextAgain, Lookup, AskModel, PutRead,
           PutWrite, PutFails, Announce, Item, TakeText, Goto, frameVars, ExtractionInv,
           ExtractionTypeOK
<1>4. told \subseteq told' /\ excused \subseteq excused'
    BY DEF Extract, Resolve, NextFile, GetText, Convert, GetTextAgain, Lookup, AskModel, PutRead,
           PutWrite, PutFails, Announce, Item, TakeText, Tell, Excuse, eventVars
<1>5. hasty \subseteq hasty'
    BY DEF Extract, Resolve, NextFile, GetText, Convert, GetTextAgain, Lookup, AskModel, PutRead,
           PutWrite, PutFails, Announce, Item, takingVars
<1>6. QED
    BY <1>2, <1>3, <1>4, <1>5, StillGrows DEF Aside, ExtractionInv

(* A step of the run keeps the invariant if it keeps it for this run.      *)
LEMMA StepKeeps ==
    ASSUME ExtractionInv, NEW r \in Runs, Extract(r), RunOK(r)', StoreInv',
           ValuesAreNotStale', QuietErasureForgetsValues'
    PROVE  ExtractionInv'
<1>1. ExtractionTypeOK'
    BY TypeExtract, InvTargets DEF ExtractionInv
<1>2. Aside(r) /\ Grows /\ UNCHANGED msg
    BY AsideOf
<1>3. JobsAreAnswered'
    BY <1>2 DEF ExtractionInv, JobsAreAnswered, Aside
<1>4. QED
    BY <1>1, <1>2, <1>3, OthersKeep DEF ExtractionInv

(* Steps that write nothing new anywhere.                                  *)
LEMMA PrivateStep ==
    ASSUME ExtractionInv, NEW r \in Runs, Extract(r), RunOK(r)', Loses, UNCHANGED conversions
    PROVE  ExtractionInv'
<1>1. ExtractionTypeOK /\ ExtractionTypeOK' /\ StoreInv
    BY TypeExtract, InvTargets DEF ExtractionInv
<1>2. Grows /\ UNCHANGED <<row, forgotten, raced, lastReaders>>
    BY AsideOf
<1>3. QuietErasureForgetsValues'
    BY <1>2 DEF ExtractionInv, QuietErasureForgetsValues, Loses
<1>4. StoreInv'
    BY <1>1, <1>2, StoreKept
<1>5. ValuesAreNotStale'
    BY <1>1, <1>2, LosesKeepsFresh DEF ExtractionInv
<1>6. QED
    BY <1>3, <1>4, <1>5, StepKeeps

(* Telling and excusing answer the job.                                    *)
LEMMA Answers ==
    ASSUME NEW r \in Runs, Tell(r) \/ Excuse(r), UNCHANGED task
    PROVE  task'[r] \cap Jobs \subseteq told' \cup excused'
BY DEF Tell, Excuse

(* What a run has read it may still give.                                  *)
LEMMA ReadsOn ==
    ASSUME ExtractionInv, NEW r \in Runs, Extract(r), at[r] \in Reading,
           UNCHANGED <<target[r], text[r]>>
    PROVE  /\ ReadsFresh(r)' /\ target'[r] \in Versions
           /\ \A f \in forgotten' \ raced', q \in Questions : Asks(r, f, q)' => r \in lastReaders'[f]
<1>1. /\ ExtractionTypeOK /\ ExtractionTypeOK' /\ RunOK(r)
      /\ Grows /\ UNCHANGED <<task, asks, forgotten, raced, lastReaders>>
    BY TypeExtract, InvTargets, AsideOf DEF ExtractionInv
<1>2. ReadsFresh(r)'
    BY <1>1, ReadingKept DEF RunOK
<1>3. \A f, q : Asks(r, f, q)' <=> Asks(r, f, q)
    BY <1>1 DEF Asks
<1>4. QED
    BY <1>1, <1>2, <1>3 DEF RunOK, Resolved

LEMMA InvExtract ==
    ASSUME ExtractionInv, NEW r \in Runs, Extract(r)
    PROVE  ExtractionInv'
<1>1. /\ Grows /\ UNCHANGED <<msg, row, task, asks, forgotten, raced, lastReaders>>
      /\ ExtractionTypeOK'
    BY AsideOf, TypeExtract, InvTargets DEF ExtractionInv
<1>2. ExtractionTypeOK /\ RunOK(r) /\ StoreInv
    BY DEF ExtractionInv
<1>3. \A f, q : Asks(r, f, q)' <=> Asks(r, f, q)
    BY <1>1 DEF Asks
<1>4. CASE Resolve(r)
    <2>1. /\ at'[r] \in {"next", "done"}
          /\ at'[r] = "next" => target'[r] \in Versions
          /\ at'[r] = "done" => Excuse(r)
          /\ UNCHANGED <<conversions, sidecar, results>>
        BY <1>2, <1>4 DEF Resolve, Goto, ExtractionTypeOK, takingVars
    <2>2. at'[r] = "done" => task'[r] \cap Jobs \subseteq told' \cup excused'
        BY <1>1, <2>1, Answers
    <2>3. RunOK(r)'
        BY <1>1, <1>2, <2>1, <2>2 DEF RunOK, Resolved, Reading
    <2>4. QED
        BY <2>1, <2>3, PrivateStep DEF Loses
<1>5. CASE NextFile(r)
    <2>1. /\ at[r] = "next" /\ target'[r] = target[r] /\ at'[r] \in {"text", "done"}
          /\ at'[r] = "done" => Tell(r) \/ r \in hungUp
          /\ UNCHANGED <<conversions, sidecar, results>>
        BY <1>2, <1>5 DEF NextFile, Goto, ExtractionTypeOK, frameVars, takingVars
    <2>2. r \in hungUp => task[r] \cap Jobs = {}
        BY <1>2, ExtractionAssumption DEF RunOK, ExtractionTypeOK
    <2>3. RunOK(r)'
        BY <1>1, <1>2, <2>1, <2>2, Answers DEF RunOK, Resolved, Reading
    <2>4. QED
        BY <2>1, <2>3, PrivateStep DEF Loses
<1>6. CASE GetText(r) \/ GetTextAgain(r)
    <2>1. PICK f \in Files, q \in Questions :
            /\ Asks(r, f, q)
            /\ \/ /\ row[f].of = target[r] /\ TakeText(r, f)
                  /\ InConversion(f) => <<f, target[r]>> \in hasty'
               \/ Goto(r, "convert") /\ UNCHANGED <<text, eventVars>>
               \/ Goto(r, "done") /\ Tell(r) /\ UNCHANGED text
        BY <1>6 DEF GetText, GetTextAgain
    <2>2. /\ at[r] \in Resolved /\ target'[r] = target[r]
          /\ UNCHANGED <<conversions, sidecar, results>>
        BY <1>6 DEF GetText, GetTextAgain, Resolved, takingVars
    <2>3. target[r] \in Versions
        BY <1>2, <2>2 DEF RunOK
    <2>4. /\ at'[r] \in {"lookup", "convert", "done"}
          /\ at'[r] = "done" => Tell(r)
          /\ at'[r] = "lookup" => /\ text'[r] = row[f].text /\ row[f].of = target[r]
                                  /\ row[f].text # 0 /\ row[f].status # "unsupported"
                                  /\ InConversion(f) => <<f, target[r]>> \in hasty'
        BY <1>2, <2>1 DEF TakeText, Goto, ExtractionTypeOK
    <2>5. at'[r] = "lookup" =>
            /\ ReadsFresh(r)'
            /\ \A g \in forgotten \ raced, p \in Questions : ~Asks(r, g, p)
        <3> SUFFICES ASSUME at'[r] = "lookup"
                     PROVE  /\ ReadsFresh(r)'
                            /\ \A g \in forgotten \ raced, p \in Questions : ~Asks(r, g, p)
            OBVIOUS
        <3>1. text'[r] \in Versions
            <4>1. row[f].text \in 0..MaxVersion
                BY <1>2 DEF ExtractionTypeOK, Rows
            <4>2. QED
                BY <2>4, <4>1, ExtractionAssumption DEF Versions
        <3>2. ASSUME NEW v \in Versions, NEW w \in Versions, target'[r] = v, text'[r] = w
              PROVE  FreshFor(f, v, w)' /\ f \notin forgotten \ raced
            BY <1>1, <2>2, <2>4, <3>2, TakenIsFresh
        <3>3. \A g, p : Asks(r, g, p) => g = f
            BY <2>1, OneFile
        <3>4. QED
            BY <1>3, <2>2, <2>3, <3>1, <3>2, <3>3 DEF ReadsFresh
    <2>6. at'[r] = "done" => task'[r] \cap Jobs \subseteq told' \cup excused'
        BY <1>1, <2>4, Answers
    <2>7. RunOK(r)'
        <3>1. at'[r] \in Reading => at'[r] = "lookup"
            BY <2>4 DEF Reading
        <3>2. at'[r] # "write" /\ at'[r] # "item"
            BY <2>4
        <3>3. QED
            BY <1>1, <1>2, <1>3, <2>2, <2>3, <2>5, <2>6, <3>1, <3>2 DEF RunOK
    <2>8. QED
        BY <2>2, <2>7, PrivateStep DEF Loses
<1>7. CASE Convert(r)
    <2>1. at[r] = "convert" /\ at'[r] = "again" /\ target'[r] = target[r]
          /\ UNCHANGED <<results, sidecar>>
        BY <1>2, <1>7 DEF Convert, Goto, ExtractionTypeOK, frameVars
    <2>2. RunOK(r)'
        BY <1>1, <1>2, <2>1 DEF RunOK, Resolved, Reading
    <2>3. StoreInv'
        <3>1. CASE \E f \in Files \ erased : Begun(r, f)
            BY <1>1, <1>2, <3>1, StoreBegun
        <3>2. CASE UNCHANGED conversions
            BY <1>1, <1>2, <3>2, StoreKept
        <3>3. QED
            BY <1>7, <3>1, <3>2 DEF Convert
    <2>4. QuietErasureForgetsValues'
        BY <1>1, <2>1 DEF ExtractionInv, QuietErasureForgetsValues
    <2>5. ValuesAreNotStale'
        BY <1>1, <1>2, <2>1, LosesKeepsFresh DEF Loses, ExtractionInv
    <2>6. QED
        BY <2>2, <2>3, <2>4, <2>5, StepKeeps
<1>8. CASE Lookup(r)
    <2>1. /\ at[r] = "lookup" /\ at[r] \in Reading /\ target'[r] = target[r]
          /\ UNCHANGED <<conversions, sidecar, results>>
        BY <1>8 DEF Lookup, takingVars, Reading
    <2>2. target[r] \in Versions
        BY <1>2, <2>1 DEF RunOK, Resolved
    <2>3. PICK f \in Files, q \in Questions :
            /\ Asks(r, f, q)
            /\ \/ \E v \in Versions :
                    /\ <<q, v>> \in sidecar[f][target[r]].entries
                    /\ text' = [text EXCEPT ![r] = v]
                    /\ Goto(r, "item") /\ Excuse(r)
               \/ Goto(r, "ask") /\ UNCHANGED <<text, eventVars>>
        BY <1>8 DEF Lookup
    <2>4. CASE Goto(r, "ask") /\ UNCHANGED <<text, eventVars>>
        <3>1. at'[r] = "ask" /\ text'[r] = text[r]
            BY <1>2, <2>4 DEF Goto, ExtractionTypeOK
        <3>2. RunOK(r)'
            BY <1>1, <1>2, <2>1, <3>1, ReadsOn DEF RunOK
        <3>3. QED
            BY <2>1, <3>2, PrivateStep DEF Loses
    <2>5. CASE \E v \in Versions :
                    /\ <<q, v>> \in sidecar[f][target[r]].entries
                    /\ text' = [text EXCEPT ![r] = v]
                    /\ Goto(r, "item") /\ Excuse(r)
        <3>1. PICK w \in Versions : /\ <<q, w>> \in sidecar[f][target[r]].entries
                                    /\ text' = [text EXCEPT ![r] = w]
                                    /\ Goto(r, "item") /\ Excuse(r)
            BY <2>5
        <3>2. at'[r] = "item" /\ text'[r] = w
            BY <1>2, <3>1 DEF Goto, ExtractionTypeOK
        <3>3. \A v \in Versions : target[r] = v => FreshFor(f, v, w)'
            <4>1. \A v \in Versions : target[r] = v => FreshFor(f, v, w)
                BY <2>2, <3>1 DEF ExtractionInv, ValuesAreNotStale
            <4>2. QED
                BY <1>1, <1>2, <4>1, FreshGrows
        <3>4. \A g, p : Asks(r, g, p) => g = f
            BY <2>3, OneFile
        <3>5. ReadsFresh(r)'
            BY <1>3, <2>1, <3>2, <3>3, <3>4 DEF ReadsFresh
        <3>6. task'[r] \cap Jobs \subseteq told' \cup excused'
            BY <1>1, <3>1, Answers
        <3>7. RunOK(r)'
            BY <1>1, <1>2, <1>3, <2>1, <2>2, <3>2, <3>5, <3>6 DEF RunOK
        <3>8. QED
            BY <2>1, <3>7, PrivateStep DEF Loses
    <2>6. QED
        BY <2>3, <2>4, <2>5
<1>9. CASE AskModel(r)
    <2>1. /\ at[r] = "ask" /\ at[r] \in Reading /\ at'[r] \in {"read", "item", "done"}
          /\ at'[r] # "read" => Tell(r)
          /\ UNCHANGED <<target[r], text[r], conversions, sidecar, results>>
        BY <1>2, <1>9 DEF AskModel, Goto, ExtractionTypeOK, frameVars, takingVars, Reading
    <2>2. at'[r] # "read" => task'[r] \cap Jobs \subseteq told' \cup excused'
        BY <1>1, <2>1, Answers
    <2>3. RunOK(r)'
        BY <1>1, <1>2, <2>1, <2>2, ReadsOn DEF RunOK
    <2>4. QED
        BY <2>1, <2>3, PrivateStep DEF Loses
<1>10. CASE PutRead(r)
    <2>1. /\ at[r] = "read" /\ at[r] \in Reading /\ at'[r] = "write"
          /\ UNCHANGED <<target[r], text[r], conversions, sidecar, results>>
        BY <1>2, <1>10 DEF PutRead, Goto, ExtractionTypeOK, takingVars, Reading
    <2>2. PICK f \in Files, q \in Questions :
            Asks(r, f, q) /\ seen'[r] = sidecar[f][target[r]]
        BY <1>2, <1>10 DEF PutRead, ExtractionTypeOK
    <2>3. \A v \in Versions : target'[r] = v =>
            \A e \in seen'[r].entries : FreshFor(f, v, e[2])'
        <3> SUFFICES ASSUME NEW v \in Versions, target'[r] = v, NEW e \in sidecar[f][v].entries
                     PROVE  FreshFor(f, v, e[2])'
            BY <2>1, <2>2
        <3>1. FreshFor(f, v, e[2]) /\ e[2] \in Versions
            BY <1>2, EntryTypes DEF ExtractionInv, ValuesAreNotStale
        <3>2. QED
            BY <1>1, <1>2, <3>1, FreshGrows
    <2>4. \A g, p : Asks(r, g, p) => g = f
        BY <2>2, OneFile
    <2>5. HoldsFresh(r)'
        BY <1>3, <2>3, <2>4 DEF HoldsFresh
    <2>6. RunOK(r)'
        BY <1>1, <1>2, <2>1, <2>5, ReadsOn DEF RunOK
    <2>7. QED
        BY <2>1, <2>6, PrivateStep DEF Loses
<1>11. CASE PutWrite(r)
    <2>1. PICK f \in Files, q \in Questions :
              /\ Asks(r, f, q)
              /\ sidecar' = [sidecar EXCEPT ![f][target[r]] =
                               [there |-> TRUE, entries |-> Entered(r, q)]]
        BY <1>11 DEF PutWrite
    <2>2. /\ at[r] = "write" /\ at[r] \in Reading /\ at'[r] = "announce"
          /\ UNCHANGED <<target[r], text[r], conversions, results>>
        BY <1>2, <1>11 DEF PutWrite, Goto, ExtractionTypeOK, frameVars, takingVars, Reading
    <2>3. target[r] \in Versions /\ text[r] \in Versions
        BY <1>2, <2>2 DEF RunOK, Resolved, ReadsFresh
    <2>4. [there |-> TRUE, entries |-> Entered(r, q)] \in Sidecars
        BY <1>2, <2>3 DEF Entered, Sidecars, ExtractionTypeOK
    <2>5. /\ sidecar'[f][target[r]].entries = Entered(r, q)
          /\ \A g \in Files, w \in Versions :
                g # f \/ w # target[r] => sidecar'[g][w] = sidecar[g][w]
        <3> DEFINE s == [there |-> TRUE, entries |-> Entered(r, q)]
        <3>1. /\ s \in Sidecars /\ s.entries = Entered(r, q)
              /\ Replaces(f, target[r], s)
            BY <2>1, <2>4 DEF Replaces
        <3> HIDE DEF s
        <3>2. /\ sidecar'[f][target[r]] = s
              /\ \A g \in Files, w \in Versions :
                    g # f \/ w # target[r] => sidecar'[g][w] = sidecar[g][w]
            BY <1>2, <2>3, <3>1, SidecarWrite
        <3>3. QED
            BY <3>1, <3>2
    <2>6. ASSUME NEW v \in Versions, v = target[r], NEW e \in Entered(r, q)
          PROVE  FreshFor(f, v, e[2]) /\ e[2] \in Versions
        <3>1. CASE e = <<q, text[r]>>
            BY <1>2, <2>1, <2>2, <2>3, <2>6, <3>1 DEF RunOK, ReadsFresh
        <3>2. CASE e \in seen[r].entries
            <4>1. seen[r] \in Sidecars
                BY <1>2 DEF ExtractionTypeOK
            <4>2. QED
                BY <1>2, <2>1, <2>2, <2>6, <3>2, <4>1 DEF RunOK, HoldsFresh, Sidecars
        <3>3. QED
            BY <2>6, <3>1, <3>2 DEF Entered
    <2>7. ASSUME NEW g \in Files, NEW v \in Versions, NEW e \in sidecar'[g][v].entries
          PROVE  FreshFor(g, v, e[2])'
        <3>1. FreshFor(g, v, e[2]) /\ e[2] \in Versions
            <4>1. CASE g = f /\ v = target[r]
                BY <2>5, <2>6, <2>7, <4>1
            <4>2. CASE ~(g = f /\ v = target[r])
                BY <1>2, <2>5, <2>7, <4>2, EntryTypes DEF ExtractionInv, ValuesAreNotStale
            <4>3. QED
                BY <4>1, <4>2
        <3>2. QED
            BY <1>1, <1>2, <3>1, FreshGrows
    <2>8. ASSUME NEW x \in results' PROVE FreshFor(x[2], x[3], x[4])'
        <3>1. FreshFor(x[2], x[3], x[4]) /\ x[2] \in Files /\ x[3] \in Versions /\ x[4] \in Versions
            BY <1>2, <2>2, <2>8 DEF ExtractionInv, ValuesAreNotStale, ExtractionTypeOK
        <3>2. QED
            BY <1>1, <1>2, <3>1, FreshGrows
    <2>9. ValuesAreNotStale'
        BY <2>7, <2>8 DEF ValuesAreNotStale
    <2>10. RunOK(r)'
        BY <1>1, <1>2, <2>2, ReadsOn DEF RunOK
    <2>11. StoreInv' /\ QuietErasureForgetsValues'
        BY <1>1, <1>2, <2>2, StoreKept DEF ExtractionInv, QuietErasureForgetsValues
    <2>12. QED
        BY <2>9, <2>10, <2>11, StepKeeps
<1>12. CASE PutFails(r)
    <2>1. /\ at[r] \in {"read", "write"} /\ at[r] \in Reading /\ at'[r] = "item"
          /\ UNCHANGED <<target[r], text[r], conversions, results>> /\ Excuse(r)
        BY <1>2, <1>12 DEF PutFails, Goto, ExtractionTypeOK, frameVars, takingVars, Reading
    <2>2. target[r] \in Versions
        BY <1>2, <2>1 DEF RunOK, Resolved
    <2>3. Loses
        <3>1. CASE UNCHANGED sidecar
            BY <2>1, <3>1 DEF Loses
        <3>2. CASE ~UNCHANGED sidecar
            <4>1. PICK f \in Files :
                      sidecar' = [sidecar EXCEPT ![f][target[r]].there = TRUE]
                BY <1>12, <3>2 DEF PutFails
            <4>2. sidecar[f][target[r]] \in Sidecars
                BY <1>2, <2>2 DEF ExtractionTypeOK
            <4> DEFINE s == [sidecar[f][target[r]] EXCEPT !.there = TRUE]
            <4>3. s \in Sidecars /\ s.entries = sidecar[f][target[r]].entries
                BY <4>2 DEF Sidecars
            <4>4. Replaces(f, target[r], s)
                BY <4>1 DEF Replaces
            <4> HIDE DEF s
            <4>5. \A g \in Files, w \in Versions : sidecar'[g][w].entries = sidecar[g][w].entries
                BY <1>2, <2>2, <4>3, <4>4, SidecarWrite
            <4>6. QED
                BY <2>1, <4>5 DEF Loses
        <3>3. QED
            BY <3>1, <3>2
    <2>4. RunOK(r)'
        <3>1. task'[r] \cap Jobs \subseteq told' \cup excused'
            BY <1>1, <2>1, Answers
        <3>2. QED
            BY <1>1, <1>2, <2>1, <3>1, ReadsOn DEF RunOK
    <2>5. QED
        BY <2>1, <2>3, <2>4, PrivateStep
<1>13. CASE Announce(r)
    <2>1. /\ at[r] = "announce" /\ at[r] \in Reading /\ at'[r] = "item" /\ Tell(r)
          /\ UNCHANGED <<target[r], text[r], conversions, sidecar, results>>
        BY <1>2, <1>13 DEF Announce, Goto, ExtractionTypeOK, frameVars, takingVars, Reading
    <2>2. task'[r] \cap Jobs \subseteq told' \cup excused'
        BY <1>1, <2>1, Answers
    <2>3. RunOK(r)'
        BY <1>1, <1>2, <2>1, <2>2, ReadsOn DEF RunOK
    <2>4. QED
        BY <2>1, <2>3, PrivateStep DEF Loses
<1>14. CASE Item(r)
    <2>1. /\ at[r] = "item" /\ at[r] \in Reading /\ at'[r] = "done"
          /\ UNCHANGED <<target[r], text[r], conversions, sidecar, told, excused>>
        BY <1>2, <1>14 DEF Item, Goto, ExtractionTypeOK, frameVars, eventVars, takingVars, Reading
    <2>2. \A x \in results' :
            \/ x \in results
            \/ \E f \in Files, q \in Questions :
                  Asks(r, f, q) /\ x = <<r, f, target[r], text[r]>>
        BY <1>14 DEF Item
    <2>3. target[r] \in Versions /\ text[r] \in Versions
        BY <1>2, <2>1 DEF RunOK, Resolved, ReadsFresh
    <2>4. ASSUME NEW x \in results' PROVE FreshFor(x[2], x[3], x[4])'
        <3>1. x[2] \in Files /\ x[3] \in Versions /\ x[4] \in Versions
            BY <1>1 DEF ExtractionTypeOK
        <3>2. FreshFor(x[2], x[3], x[4])
            <4>1. CASE x \in results
                BY <4>1 DEF ExtractionInv, ValuesAreNotStale
            <4>2. CASE x \notin results
                <5>1. PICK f \in Files, q \in Questions :
                          Asks(r, f, q) /\ x = <<r, f, target[r], text[r]>>
                    BY <2>2, <4>2
                <5>2. QED
                    BY <1>2, <2>1, <2>3, <5>1 DEF RunOK, ReadsFresh
            <4>3. QED
                BY <4>1, <4>2
        <3>3. QED
            BY <1>1, <1>2, <3>1, <3>2, FreshGrows
    <2>5. ASSUME NEW f \in Files, NEW v \in Versions, NEW e \in sidecar'[f][v].entries
          PROVE  FreshFor(f, v, e[2])'
        <3>1. FreshFor(f, v, e[2]) /\ e[2] \in Versions
            BY <1>2, <2>1, <2>5, EntryTypes DEF ExtractionInv, ValuesAreNotStale
        <3>2. QED
            BY <1>1, <1>2, <3>1, FreshGrows
    <2>6. ValuesAreNotStale'
        BY <2>4, <2>5 DEF ValuesAreNotStale
    <2>7. QuietErasureForgetsValues'
        BY <1>1, <1>2, <2>1, <2>2 DEF ExtractionInv, QuietErasureForgetsValues, RunOK
    <2>8. RunOK(r)'
        BY <1>1, <1>2, <2>1, ReadsOn DEF RunOK, Reading, Resolved
    <2>9. StoreInv'
        BY <1>1, <1>2, <2>1, StoreKept
    <2>10. QED
        BY <2>6, <2>7, <2>8, <2>9, StepKeeps
<1>15. QED
    BY <1>4, <1>5, <1>6, <1>7, <1>8, <1>9, <1>10, <1>11, <1>12, <1>13, <1>14 DEF Extract

-----------------------------------------------------------------------------
LEMMA InvNext == ExtractionInv /\ [ExtractionNext]_extractionVars => ExtractionInv'
<1> SUFFICES ASSUME ExtractionInv, [ExtractionNext]_extractionVars PROVE ExtractionInv'
    OBVIOUS
<1>1. ASSUME NEW t \in Threads, JobStep(t) \/ Kill(t) PROVE ExtractionInv'
    <2>1. CASE Extract(t)
        BY <2>1, InvExtract DEF Runs
    <2>2. CASE Convey(t)
        BY <2>2, InvConvey
    <2>3. CASE ~Extract(t) /\ ~Convey(t)
        BY <1>1, <2>3, InvLoop DEF JobStep
    <2>4. QED
        BY <2>1, <2>2, <2>3
<1>2. ASSUME NEW c \in Calls, CallStep(c) PROVE ExtractionInv'
    <2>1. c \in Runs
        BY DEF Runs
    <2>2. QED
        BY <1>2, <2>1, InvCall, InvExtract, InvConvey DEF CallStep
<1>3. CASE UNCHANGED extractionVars
    <2>1. /\ UNCHANGED <<quiet, asks, eventVars, forgotten, raced, lastReaders, row, conversions,
                         results, sidecar, msg, content, version, hasty>>
          /\ ExtractionTypeOK /\ StoreInv
        BY <1>3 DEF extractionVars, quiet, queueVars, coreVars, historyVars, ExtractionInv
    <2>2. ExtractionTypeOK'
        BY <1>3, <2>1
           DEF extractionVars, coreVars, queueVars, slotVars, loopVars, frameVars, eventVars,
               historyVars, boundVars, ExtractionTypeOK
    <2>3. Grows /\ Loses
        BY <2>1, StillGrows DEF Loses
    <2>4. QED
        BY <2>1, <2>2, <2>3, StoreKept, AroundKeeps
<1>4. QED
    BY <1>1, <1>2, <1>3, InvAround DEF ExtractionNext

LEMMA ExtractionInvariant == ExtractionSpec => []ExtractionInv
BY InvInit, InvNext, PTL DEF ExtractionSpec

(* Every variable keeps its type, whatever the threads, the calls, the     *)
(* converters, the core and the clock do.                                  *)
THEOREM ExtractionTypeCorrect == ExtractionSpec => []ExtractionTypeOK
<1>1. ExtractionInv => ExtractionTypeOK
    BY DEF ExtractionInv
<1>2. QED
    BY <1>1, ExtractionInvariant, PTL

(* A value in a version's sidecar, or in the record of a run, was read     *)
(* from a text no older than that version, unless a text-less version kept *)
(* an older one or the second look took it from a row in conversion        *)
(* (Extractor._text, DocumentPipeline.convert, ExtractionCache.put).       *)
THEOREM ValuesStayFresh == ExtractionSpec => []ValuesAreNotStale
<1>1. ExtractionInv => ValuesAreNotStale
    BY DEF ExtractionInv
<1>2. QED
    BY <1>1, ExtractionInvariant, PTL

(* An erasure takes the values of a file from every run but those that     *)
(* held its text at that moment, if nobody was converting the file then    *)
(* (DocumentStore.erase, DocumentPipeline.convert, RunStore.add_result).   *)
THEOREM ErasureTakesValues == ExtractionSpec => []QuietErasureForgetsValues
<1>1. ExtractionInv => QuietErasureForgetsValues
    BY DEF ExtractionInv
<1>2. QED
    BY <1>1, ExtractionInvariant, PTL

(* No job is acked without its event or one of the ends that have none     *)
(* (JobWorker._process, JobRunner.run).                                    *)
THEOREM AckedIsAnswered == ExtractionSpec => []JobsAreAnswered
<1>1. ExtractionInv => JobsAreAnswered
    BY DEF ExtractionInv
<1>2. QED
    BY <1>1, ExtractionInvariant, PTL
=============================================================================
