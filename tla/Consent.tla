------------------------------- MODULE Consent -------------------------------
(***************************************************************************)
(* Approvals of external tool calls in headless research runs.  A run's    *)
(* thread asks through its ConsentBroker and waits; its request is         *)
(* registered with the ConsentRelay of the instance the run is on and      *)
(* recorded in Redis, and shown to the client as an event of the run.  The *)
(* answer is another HTTP request, served by that instance or by another   *)
(* one, which claims the record and publishes the answer to the run.       *)
(***************************************************************************)
EXTENDS Naturals, Sequences, FiniteSets

CONSTANTS
    Runs, Users,
    Owner,          \* [Runs -> Users]: who started the run
    Tools,          \* external tools
    Calls,          \* bound: tool calls of a run
    Clients,        \* HTTP requests that answer
    Posts,          \* bound: answers of each client
    Mixes           \* how much of the bounds is used up at first

ASSUME ConsentAssumption ==
    /\ Owner \in [Runs -> Users]
    /\ Calls \in Nat \ {0} /\ Posts \in Nat
    /\ Mixes \subseteq [calls: 0..Calls, posts: [Clients -> 0..Posts],
                     fault: {"never", "once"}]

(* The requests of a run are numbered here; in the code their ids are      *)
(* random, known to who saw the event.                                     *)
Ids == Runs \X (1..Calls)

(* _pending[rid] of the broker.                                            *)
Slots == [waiting: BOOLEAN, event: BOOLEAN, decision: BOOLEAN, remember: BOOLEAN]
NoSlot == [waiting |-> FALSE, event |-> FALSE, decision |-> FALSE, remember |-> FALSE]

Answers == [at: {"idle", "look", "deliver", "drop", "claim", "publish"},
            id: Ids, user: Users, yes: BOOLEAN, remember: BOOLEAN, here: BOOLEAN]

VARIABLES
    run,        \* the thread of each run: at, calls made, tool, got the event
    slot,       \* of every broker
    remembered, \* tools a run may call without asking
    local,      \* ConsentRelay._pending
    record,     \* pending records in Redis
    listener,   \* the thread that hears the run's channel
    channel,    \* answers published to it
    cancelled,  \* runs whose client hung up
    shown,      \* requests their client was shown
    answer,     \* the request of each answering client
    posts, fault,
    made,       \* history: calls that were made: <<id, tool>>
    asked,      \* history: requests: <<id, tool>>
    given,      \* history: answers of owners: <<id, yes, remember>>
    accepted,   \* history: answers that were accepted: <<id, yes>>
    closed      \* history: how a request ended: <<id, decision, in time>>

runVars == <<run, slot, remembered>>
relayVars == <<local, record, listener, channel>>
clientVars == <<answer, posts, given, accepted>>
consentVars == <<runVars, relayVars, clientVars, cancelled, shown, fault, made, asked, closed>>

Stages == {"model", "ask", "wait", "woken", "event", "close", "done"}

ConsentTypeOK ==
    /\ run \in [Runs -> [at: Stages, n: 0..Calls, tool: Tools, got: BOOLEAN]]
    /\ slot \in [Ids -> Slots] /\ remembered \in [Runs -> SUBSET Tools]
    /\ local \subseteq Ids /\ record \subseteq Ids
    /\ listener \in [Runs -> {"starting", "on", "off"}]
    /\ channel \in [Runs -> Seq(Ids \X BOOLEAN \X BOOLEAN)]
    /\ cancelled \subseteq Runs /\ shown \subseteq Ids
    /\ answer \in [Clients -> Answers] /\ posts \in [Clients -> 0..Posts]
    /\ fault \in {"never", "once", "seen"}
    /\ made \subseteq Ids \X Tools /\ asked \subseteq Ids \X Tools
    /\ given \subseteq Ids \X BOOLEAN \X BOOLEAN /\ accepted \subseteq Ids \X BOOLEAN
    /\ closed \subseteq Ids \X BOOLEAN \X BOOLEAN

AnyId == CHOOSE id \in Ids : TRUE
NoAnswer == [at |-> "idle", id |-> AnyId, user |-> Owner[AnyId[1]], yes |-> FALSE,
             remember |-> FALSE, here |-> TRUE]

ConsentInit ==
  \E mix \in Mixes :
    /\ run = [r \in Runs |-> [at |-> "model", n |-> mix.calls, tool |-> CHOOSE t \in Tools : TRUE,
                              got |-> FALSE]]
    /\ slot = [id \in Ids |-> NoSlot] /\ remembered = [r \in Runs |-> {}]
    /\ local = {} /\ record = {}
    /\ listener = [r \in Runs |-> "starting"] /\ channel = [r \in Runs |-> <<>>]
    /\ cancelled = {} /\ shown = {}
    /\ answer = [c \in Clients |-> NoAnswer] /\ posts = mix.posts
    /\ fault = mix.fault
    /\ made = {} /\ asked = {} /\ given = {} /\ accepted = {} /\ closed = {}

(* A call of Redis fails, at most once.                                    *)
Fault == fault = "once" /\ fault' = "seen"

To(r, stage) == run' = [run EXCEPT ![r].at = stage]

-----------------------------------------------------------------------------
(* The thread of a run.                                                    *)

(* The model calls a tool: ConsentBroker.request up to the slot.           *)
CallTool(r, t) ==
    LET n == run[r].n + 1 IN
    /\ run[r].at = "model" /\ run[r].n < Calls
    /\ run' = [run EXCEPT ![r] = [at |-> IF t \in remembered[r] THEN "event" ELSE "ask",
                                  n |-> n, tool |-> t, got |-> FALSE]]
    /\ IF t \in remembered[r]
       THEN made' = made \cup {<<<<r, n>>, t>>} /\ UNCHANGED <<slot, asked>>
       ELSE /\ slot' = [slot EXCEPT ![<<r, n>>].waiting = TRUE]
            /\ asked' = asked \cup {<<<<r, n>>, t>>} /\ UNCHANGED made
    /\ UNCHANGED <<remembered, relayVars, clientVars, cancelled, shown, fault, closed>>

Answered(r) ==
    /\ run[r].at = "model" /\ To(r, "close")
    /\ UNCHANGED <<slot, remembered, relayVars, clientVars, cancelled, shown, fault, made,
                   asked, closed>>

(* Between two events of the answer the run looks whether it is cancelled. *)
NextEvent(r) ==
    /\ run[r].at = "event" /\ To(r, IF r \in cancelled THEN "close" ELSE "model")
    /\ UNCHANGED <<slot, remembered, relayVars, clientVars, cancelled, shown, fault, made,
                   asked, closed>>

(* emit_consent: registered, recorded in Redis if it can be, then shown if *)
(* the client is still there.                                              *)
Register(r) ==
    LET id == <<r, run[r].n>> IN
    /\ run[r].at = "ask" /\ To(r, "wait")
    /\ local' = local \cup {id}
    /\ \/ record' = record \cup {id} /\ UNCHANGED fault
       \/ Fault /\ UNCHANGED record
    /\ shown' = IF r \in cancelled THEN shown ELSE shown \cup {id}
    /\ UNCHANGED <<slot, remembered, listener, channel, clientVars, cancelled, made, asked,
                   closed>>

(* The wait ends: with the event, or when its time is up.                  *)
Wake(r) ==
    /\ run[r].at = "wait" /\ slot[<<r, run[r].n>>].event
    /\ run' = [run EXCEPT ![r].at = "woken", ![r].got = TRUE]
    /\ UNCHANGED <<slot, remembered, relayVars, clientVars, cancelled, shown, fault, made,
                   asked, closed>>

TimeOut(r) ==
    /\ run[r].at = "wait" /\ ~slot[<<r, run[r].n>>].event
    /\ run' = [run EXCEPT ![r].at = "woken", ![r].got = FALSE]
    /\ UNCHANGED <<slot, remembered, relayVars, clientVars, cancelled, shown, fault, made,
                   asked, closed>>

Approved(r) == run[r].got /\ slot[<<r, run[r].n>>].decision

(* The rest of request, and the call itself.                               *)
Return(r) ==
    LET id == <<r, run[r].n>> t == run[r].tool IN
    /\ run[r].at = "woken" /\ To(r, "event")
    /\ slot' = [slot EXCEPT ![id] = NoSlot]
    /\ remembered' = IF Approved(r) /\ slot[id].remember
                     THEN [remembered EXCEPT ![r] = @ \cup {t}] ELSE remembered
    /\ made' = IF Approved(r) THEN made \cup {<<id, t>>} ELSE made
    /\ closed' = closed \cup {<<id, Approved(r), run[r].got>>}
    /\ UNCHANGED <<relayVars, clientVars, cancelled, shown, fault, asked>>

(* forget_run drops what is still pending of the run, here and in Redis.   *)
(* Its broker was shut down; only its own thread ever waited on it.        *)
Close(r) ==
    LET gone == {id \in local : id[1] = r} IN
    /\ run[r].at = "close" /\ To(r, "done")
    /\ local' = local \ gone
    /\ \/ record' = record \ gone /\ UNCHANGED fault
       \/ gone # {} /\ Fault /\ UNCHANGED record
    /\ UNCHANGED <<slot, remembered, listener, channel, clientVars, cancelled, shown, made,
                   asked, closed>>

HangUp(r) ==
    /\ r \notin cancelled /\ run[r].at # "done"
    /\ cancelled' = cancelled \cup {r}
    /\ UNCHANGED <<runVars, relayVars, clientVars, shown, fault, made, asked, closed>>

RunStep(r) ==
    \/ \E t \in Tools : CallTool(r, t)
    \/ Answered(r) \/ NextEvent(r) \/ Register(r) \/ Wake(r) \/ TimeOut(r) \/ Return(r) \/ Close(r)

-----------------------------------------------------------------------------
(* The relay.                                                              *)

Resolve(id, yes, remember) ==
    slot' = IF slot[id].waiting
            THEN [slot EXCEPT ![id].event = TRUE, ![id].decision = yes, ![id].remember = remember]
            ELSE slot

(* An answer is posted to an instance, the run's own or another.           *)
Post(c) ==
    /\ answer[c].at = "idle" /\ posts[c] < Posts
    /\ \E id \in shown, user \in Users, yes, remember, here \in BOOLEAN :
         /\ remember => yes
         /\ answer' = [answer EXCEPT ![c] = [at |-> "look", id |-> id, user |-> user, yes |-> yes,
                                             remember |-> remember, here |-> here]]
         /\ given' = IF user = Owner[id[1]] THEN given \cup {<<id, yes, remember>>} ELSE given
    /\ posts' = [posts EXCEPT ![c] = @ + 1]
    /\ UNCHANGED <<runVars, relayVars, cancelled, shown, fault, made, asked, accepted, closed>>

Step(c, stage) == answer' = [answer EXCEPT ![c].at = stage]

Refused(c) ==
    /\ answer' = [answer EXCEPT ![c] = NoAnswer]
    /\ UNCHANGED <<slot, local, record, channel, accepted>>

Accepted(c) ==
    /\ answer' = [answer EXCEPT ![c] = NoAnswer]
    /\ accepted' = accepted \cup {<<answer[c].id, answer[c].yes>>}

Unmoved == UNCHANGED <<run, remembered, listener, posts, given, cancelled, shown, made, asked,
                       closed>>

Look(c) ==
    LET a == answer[c] IN
    /\ a.at = "look"
    /\ Step(c, IF a.here /\ a.id \in local THEN "deliver" ELSE "claim")
    /\ Unmoved /\ UNCHANGED <<slot, local, record, channel, accepted, fault>>

(* Mutant: anyone's answer is delivered.                                   *)
DeliverAnyones(c) ==
    LET a == answer[c] IN
    /\ a.at = "deliver"
    /\ IF a.id \in local
       THEN /\ local' = local \ {a.id} /\ Resolve(a.id, a.yes, a.remember)
            /\ Step(c, "drop") /\ UNCHANGED <<record, channel, accepted>>
       ELSE Refused(c)
    /\ Unmoved /\ UNCHANGED fault

(* _deliver: whoever takes the request out of the relay resolves it.       *)
Deliver(c) ==
    LET a == answer[c] IN
    /\ a.at = "deliver"
    /\ IF a.id \in local /\ a.user = Owner[a.id[1]]
       THEN /\ local' = local \ {a.id} /\ Resolve(a.id, a.yes, a.remember)
            /\ Step(c, "drop") /\ UNCHANGED <<record, channel, accepted>>
       ELSE Refused(c)
    /\ Unmoved /\ UNCHANGED fault

DropRecord(c) ==
    /\ answer[c].at = "drop" /\ Accepted(c)
    /\ \/ record' = record \ {answer[c].id} /\ UNCHANGED fault
       \/ Fault /\ UNCHANGED record
    /\ Unmoved /\ UNCHANGED <<slot, local, channel>>

(* _CLAIM: the record is taken if it is the owner's.                       *)
Claim(c) ==
    LET a == answer[c] IN
    /\ a.at = "claim"
    /\ \/ /\ IF a.id \in record /\ a.user = Owner[a.id[1]]
             THEN /\ record' = record \ {a.id} /\ Step(c, "publish")
                  /\ UNCHANGED <<slot, local, channel, accepted>>
             ELSE Refused(c)
          /\ UNCHANGED fault
       \/ Fault /\ Refused(c)
    /\ Unmoved

(* Accepted if an instance is subscribed.                                  *)
Publish(c) ==
    LET a == answer[c] r == a.id[1] IN
    /\ answer[c].at = "publish"
    /\ \/ /\ IF listener[r] = "on"
             THEN /\ channel' = [channel EXCEPT ![r] = Append(@, <<a.id, a.yes, a.remember>>)]
                  /\ Accepted(c) /\ UNCHANGED <<slot, local, record>>
             ELSE Refused(c)
          /\ UNCHANGED fault
       \/ Fault /\ Refused(c)
    /\ Unmoved

Listening(r, to) == listener' = [listener EXCEPT ![r] = to]

(* The listener's thread: it subscribes, hears, and stops after its run or *)
(* with its connection, and what it has not heard is lost.                 *)
Listen(r) ==
    /\ listener[r] = "starting"
    /\ \/ Listening(r, "on") /\ UNCHANGED fault
       \/ Listening(r, "off") /\ Fault
    /\ UNCHANGED <<runVars, local, record, channel, clientVars, cancelled, shown, made, asked,
                   closed>>

Hear(r) ==
    /\ listener[r] = "on" /\ channel[r] # <<>>
    /\ LET m == Head(channel[r]) id == m[1] IN
       IF id \in local THEN local' = local \ {id} /\ Resolve(id, m[2], m[3])
       ELSE UNCHANGED <<local, slot>>
    /\ channel' = [channel EXCEPT ![r] = Tail(@)]
    /\ UNCHANGED <<run, remembered, record, listener, clientVars, cancelled, shown, fault, made,
                   asked, closed>>

StopListening(r) ==
    /\ listener[r] = "on"
    /\ IF run[r].at = "done" THEN UNCHANGED fault ELSE Fault
    /\ Listening(r, "off") /\ channel' = [channel EXCEPT ![r] = <<>>]
    /\ UNCHANGED <<runVars, local, record, clientVars, cancelled, shown, made, asked, closed>>

(* A record lives a second longer than the wait.                           *)
Expire(id) ==
    /\ id \in record /\ ~slot[id].waiting
    /\ record' = record \ {id}
    /\ UNCHANGED <<runVars, local, listener, channel, clientVars, cancelled, shown, fault, made,
                   asked, closed>>

AnswerStep(c) ==
    Post(c) \/ Look(c) \/ Deliver(c) \/ DropRecord(c) \/ Claim(c) \/ Publish(c)

ListenerStep(r) == Listen(r) \/ Hear(r) \/ StopListening(r)

ConsentNext ==
    \/ \E r \in Runs : RunStep(r) \/ HangUp(r) \/ ListenerStep(r)
    \/ \E c \in Clients : AnswerStep(c)
    \/ \E id \in Ids : Expire(id)

(* A run's thread goes on; how long a wait lasts is bounded.               *)
ConsentFairness == \A r \in Runs : WF_consentVars(RunStep(r))

ConsentSpec == ConsentInit /\ [][ConsentNext]_consentVars
ConsentFairSpec == ConsentSpec /\ ConsentFairness

-----------------------------------------------------------------------------
(* A tool is called only if the run's owner approved this very call, or    *)
(* approved an earlier call of the same tool in the same run for good.     *)
Approval(m) ==
    \E g \in given :
        /\ g[2] /\ g[1][1] = m[1][1]
        /\ \/ g[1] = m[1]
           \/ g[3] /\ g[1][2] < m[1][2] /\ <<g[1], m[2]>> \in asked

CalledWithApproval == \A m \in made : Approval(m)

(* A request that was answered in time ends with an answer that a client   *)
(* was told is accepted, or is being told so.                              *)
AcceptedCounts ==
    \A x \in closed :
        x[3] => \E a \in accepted \cup {<<answer[c].id, answer[c].yes>> :
                                          c \in {d \in Clients : answer[d].at = "drop"}} :
                    a = <<x[1], x[2]>>

(* A run that is over leaves no request behind, neither in the relay nor,  *)
(* with Redis up, in Redis.                                                *)
NothingLeftBehind ==
    \A r \in Runs : run[r].at = "done" =>
        /\ \A id \in local : id[1] # r
        /\ fault # "seen" => \A id \in record : id[1] = r =>
              \E c \in Clients : answer[c].at = "drop" /\ answer[c].id = id

(* Every run ends, answered or not.                                        *)
RunsEnd == \A r \in Runs : <>(run[r].at = "done")

(* "Deliver an answer. True when it reached a waiting broker here, or was  *)
(* handed to at least one instance subscribed to the run"                  *)
(* (ConsentRelay.answer).                                                  *)
AcceptedReachesAWaiter ==
    [][\A c \in Clients : answer[c].at = "deliver" /\ answer'[c].at = "drop"
         => slot[answer[c].id].waiting]_consentVars

(* "Claim the pending record first: only the run's owner can, once":       *)
(* a request does not have two answers accepted.                           *)
AcceptedOnce == \A id \in Ids : ~({<<id, TRUE>>, <<id, FALSE>>} \subseteq accepted)
=============================================================================
