------------------------------- MODULE ChatTurn -------------------------------
(***************************************************************************)
(* One chat connection.  For each message the handler begins a turn in the *)
(* user's conversation, lets a worker thread produce the answer into a     *)
(* bounded stream, forwards the stream to the socket while another task    *)
(* reads the client's replies, and saves what was answered.  The thread    *)
(* stops in the middle of a call of an external tool until the client      *)
(* approves it.  Another window of the user may delete conversations, and  *)
(* the database may be away.                                               *)
(***************************************************************************)
EXTENDS Naturals, Sequences, FiniteSets

CONSTANTS
    Turns,      \* bound: messages of the connection
    Tokens,     \* bound: tokens of an answer
    Rounds,     \* web_max_iterations: rounds of tool calls
    Buffer,     \* room in the stream (256)
    ChatMixes       \* bounds of a behaviour: see Mix

(* How many turns, tokens and rounds there are at most, how often the      *)
(* database goes or comes back, and whether conversations are deleted.     *)
Mix == [turns: 1..Turns, tokens: 0..Tokens, rounds: 0..Rounds, flips: Nat, deletes: BOOLEAN]

ASSUME ChatAssumption ==
    /\ ChatMixes \subseteq Mix
    /\ Turns \in Nat \ {0} /\ Tokens \in Nat /\ Rounds \in Nat \ {0}
    /\ Buffer \in Nat \ {0}

None == 0
Headless == 1                   \* a run of an application, kept with the chats
Old == 2                        \* a chat of an earlier connection
Convs == 1..(Turns + 2)

Message == [role: {"user", "assistant"}, turn: 1..Turns, tokens: Seq((1..Turns) \X (1..Tokens))]
Events == {"token", "call", "consent", "end", "error"}
ThreadStages == {"off", "answer", "send", "ask", "wait", "close", "raised"}
HandlerStages == {"receive", "owns", "create", "question", "conversation", "stream", "join", "save",
           "done", "closed"}

VARIABLES
    mix,        \* the bounds
    at,         \* the handler
    turn,       \* messages received
    named,      \* the conversation the message names
    conv,       \* the turn's conversation
    chats,      \* conversation -> its messages, for those there are
    thread,     \* the producer: where, tokens and rounds so far, event in hand
    stream,     \* the memory stream: events, and is each end open
    broker,       \* the broker: the call that waits for approval, is it closed
    reader,     \* does the control reader run
    parts,      \* what the turn answered so far
    trusted, \* was the tool approved for the whole connection
    gone,       \* the client
    away, flips,    \* the database
    unsure,         \* is the headless run being deleted, not known to be one
    seen,       \* history: tokens the client was sent in this turn
    called,     \* history: <<turn, round>> of calls that were made
    approved    \* history: <<turn, round, for good>> that the client approved

turnVars == <<mix, at, turn, named, conv, parts, trusted>>
threadVars == <<thread, stream, broker>>
chatVars == <<turnVars, threadVars, chats, reader, gone, away, flips, unsure, seen, called,
              approved>>

ChatTypeOK ==
    /\ at \in HandlerStages /\ turn \in 0..Turns /\ named \in Convs \cup {None}
    /\ conv \in Convs \cup {None}
    /\ DOMAIN chats \subseteq Convs
    /\ \A c \in DOMAIN chats : chats[c] \in Seq(Message)
    /\ thread \in [at: ThreadStages, tokens: 0..Tokens, rounds: 0..Rounds, event: Events]
    /\ stream.sendable \in BOOLEAN /\ stream.receivable \in BOOLEAN
    /\ stream.events \in Seq(Events) /\ Len(stream.events) <= Buffer
    /\ broker \in [waiting: BOOLEAN, event: BOOLEAN, yes: BOOLEAN, good: BOOLEAN, shown: BOOLEAN,
                 closed: BOOLEAN]
    /\ reader \in BOOLEAN /\ trusted \in BOOLEAN /\ gone \in BOOLEAN /\ away \in BOOLEAN
    /\ parts \in Seq((1..Turns) \X (1..Tokens)) /\ seen \in 0..Tokens /\ flips \in 0..mix.flips
    /\ unsure \in BOOLEAN /\ mix \in ChatMixes

Quiet == [at |-> "off", tokens |-> 0, rounds |-> 0, event |-> "end"]
Idle == [waiting |-> FALSE, event |-> FALSE, yes |-> FALSE, good |-> FALSE, shown |-> FALSE,
         closed |-> FALSE]
Shut == [events |-> <<>>, sendable |-> FALSE, receivable |-> FALSE]

ChatInit ==
    /\ mix \in ChatMixes
    /\ at = "receive" /\ turn = 0 /\ named = None /\ conv = None
    /\ chats = [c \in {Headless, Old} |-> <<>>]
    /\ thread = Quiet /\ stream = Shut /\ broker = Idle
    /\ reader = FALSE /\ parts = <<>> /\ trusted = FALSE
    /\ gone = FALSE /\ away = FALSE /\ flips = 0 /\ unsure = FALSE
    /\ seen = 0 /\ called = {} /\ approved = {}

-----------------------------------------------------------------------------
(* The handler: a message, and the conversation it goes to.                *)

Reach(stage) == at' = stage

Elsewhere == UNCHANGED <<threadVars, reader, gone, away, flips, seen, called, approved>>

Receive ==
    /\ at = "receive"
    /\ IF gone THEN Reach("closed") /\ UNCHANGED <<mix, turn, named, conv>>
       ELSE /\ turn < mix.turns /\ turn' = turn + 1 /\ Reach("owns")
            /\ named' \in {None} \cup (DOMAIN chats) /\ conv' = None
    /\ UNCHANGED <<mix, parts, trusted, chats>> /\ Elsewhere

(* _begin_turn: any failure leaves the turn without a conversation.        *)
Persistless == Reach("conversation") /\ conv' = None /\ UNCHANGED chats

Owned(c) == c \in DOMAIN chats /\ c # Headless

Owns ==
    /\ at = "owns"
    /\ IF away /\ named # None THEN Persistless
       ELSE /\ IF Owned(named) THEN conv' = named /\ Reach("question")
               ELSE conv' = conv /\ Reach("create")
            /\ UNCHANGED chats
    /\ UNCHANGED <<mix, turn, named, parts, trusted>> /\ Elsewhere

Create ==
    /\ at = "create"
    /\ IF away THEN Persistless
       ELSE /\ conv' = turn + 2 /\ Reach("question")
            /\ chats' = [c \in DOMAIN chats \cup {turn + 2} |->
                           IF c \in DOMAIN chats THEN chats[c] ELSE <<>>]
    /\ UNCHANGED <<mix, turn, named, parts, trusted>> /\ Elsewhere

(* append: nothing, if the conversation was deleted.                       *)
Add(c, role, tokens) ==
    chats' = IF c \in DOMAIN chats
             THEN [chats EXCEPT ![c] = Append(@, [role |-> role, turn |-> turn,
                                                  tokens |-> tokens])]
             ELSE chats

(* Mutant: the answer is saved although the question was not.              *)
AskAnyway ==
    /\ at = "question" /\ Reach("conversation") /\ conv' = conv
    /\ IF away THEN UNCHANGED chats ELSE Add(conv, "user", <<>>)
    /\ UNCHANGED <<mix, turn, named, parts, trusted>> /\ Elsewhere

Question ==
    /\ at = "question"
    /\ IF away THEN Persistless
       ELSE /\ Add(conv, "user", <<>>) /\ conv' = conv /\ Reach("conversation")
    /\ UNCHANGED <<mix, turn, named, parts, trusted>> /\ Elsewhere

(* The client is told; sending to a client that is gone fails, or is lost  *)
(* without a word.  Then the turn's stream, thread and reader are set up.  *)
Start ==
    /\ at = "conversation"
    /\ \/ gone /\ conv # None /\ Reach("closed") /\ UNCHANGED <<parts, threadVars, reader, seen>>
       \/ /\ Reach("stream") /\ parts' = <<>> /\ reader' = TRUE /\ seen' = 0
          /\ thread' = [Quiet EXCEPT !.at = "answer"] /\ broker' = Idle
          /\ stream' = [events |-> <<>>, sendable |-> TRUE, receivable |-> TRUE]
    /\ UNCHANGED <<mix, turn, named, conv, trusted, chats, gone, away, flips, called, approved>>

-----------------------------------------------------------------------------
(* The worker thread: answer() and run_tools.                              *)

Beside == UNCHANGED <<turnVars, chats, reader, gone, away, flips, seen, approved>>

Hands(event, stage) == thread' = [thread EXCEPT !.at = stage, !.event = event]

(* The model: a token, a call while there are rounds, the end, a failure.  *)
Answer ==
    /\ thread.at = "answer"
    /\ \/ /\ thread.tokens < mix.tokens
          /\ thread' = [thread EXCEPT !.at = "send", !.event = "token", !.tokens = @ + 1]
       \/ /\ thread.rounds < mix.rounds
          /\ thread' = [thread EXCEPT !.at = "send", !.event = "call", !.rounds = @ + 1]
       \/ \E event \in {"end", "error"} : Hands(event, "send")
    /\ UNCHANGED <<stream, broker, called>> /\ Beside

(* What the thread does once its event is in the stream.                   *)
After(event) ==
    CASE event = "token" -> "answer" [] event = "call" -> "ask" [] event = "consent" -> "wait"
      [] OTHER -> "close"

(* send.send: waits for room; without a receiver it fails, and so does     *)
(* the sending of that failure.                                            *)
Send ==
    /\ thread.at = "send"
    /\ IF stream.receivable
       THEN /\ Len(stream.events) < Buffer
            /\ stream' = [stream EXCEPT !.events = Append(@, thread.event)]
            /\ Hands(thread.event, After(thread.event))
       ELSE Hands(thread.event, "raised") /\ stream' = [stream EXCEPT !.sendable = FALSE]
    /\ UNCHANGED <<broker, called>> /\ Beside

(* ConsentBroker.request.                                                  *)
Ask ==
    /\ thread.at = "ask"
    /\ CASE trusted ->
              Hands("call", "answer") /\ called' = called \cup {<<turn, thread.rounds>>}
                /\ UNCHANGED broker
         [] ~trusted /\ broker.closed -> Hands("call", "answer") /\ UNCHANGED <<broker, called>>
         [] OTHER -> Hands("consent", "send") /\ broker' = [Idle EXCEPT !.waiting = TRUE]
                       /\ UNCHANGED called
    /\ UNCHANGED stream /\ Beside

Rest == UNCHANGED <<mix, at, turn, named, conv, parts, chats, reader, gone, away, flips, seen, approved,
                    stream>>

Approve ==
    /\ thread.at = "wait" /\ broker.event /\ Hands("call", "answer")
    /\ broker' = [Idle EXCEPT !.closed = broker.closed]
    /\ called' = IF broker.yes THEN called \cup {<<turn, thread.rounds>>} ELSE called
    /\ trusted' = (trusted \/ (broker.yes /\ broker.good))
    /\ Rest

GiveUp ==
    /\ thread.at = "wait" /\ ~broker.event /\ Hands("call", "answer")
    /\ broker' = [Idle EXCEPT !.closed = broker.closed]
    /\ UNCHANGED <<called, trusted>> /\ Rest

Finish ==
    /\ thread.at = "close" /\ Hands("end", "off")
    /\ stream' = [stream EXCEPT !.sendable = FALSE]
    /\ UNCHANGED <<broker, called>> /\ Beside

-----------------------------------------------------------------------------
(* The handler forwards the stream.                                        *)

(* shutdown: the call that waits is denied, and so is every later one.     *)
Shutdown == broker' = [broker EXCEPT !.closed = TRUE, !.event = broker.event \/ broker.waiting]

Take ==
    /\ parts' = IF Head(stream.events) = "token" THEN Append(parts, <<turn, Len(parts) + 1>>)
                ELSE parts

Forward ==
    /\ at = "stream" /\ stream.events # <<>> /\ Take
    /\ \/ /\ Reach("stream") /\ stream' = [stream EXCEPT !.events = Tail(@)]
          /\ seen' = IF ~gone /\ Head(stream.events) = "token" THEN seen + 1 ELSE seen
          /\ broker' = IF ~gone /\ Head(stream.events) = "consent" THEN [broker EXCEPT !.shown = TRUE]
                     ELSE broker
       \/ /\ gone /\ Shutdown /\ Reach("join") /\ stream' = [Shut EXCEPT !.sendable = TRUE]
          /\ UNCHANGED seen
    /\ UNCHANGED <<mix, turn, named, conv, trusted, thread, chats, reader, gone, away, flips, called,
                   approved>>

Exhausted ==
    /\ at = "stream" /\ stream.events = <<>> /\ ~stream.sendable
    /\ Reach("join") /\ stream' = Shut
    /\ UNCHANGED <<mix, turn, named, conv, parts, trusted, thread, broker, chats, reader, gone, away,
                   flips, seen, called, approved>>

(* The reader is cancelled and the thread waited for; if it raised, so     *)
(* does the handler.                                                       *)
Join ==
    /\ at = "join" /\ thread.at \in {"off", "raised"}
    /\ Reach(IF thread.at = "raised" THEN "closed" ELSE "save")
    /\ reader' = FALSE /\ thread' = Quiet
    /\ UNCHANGED <<mix, turn, named, conv, parts, trusted, stream, broker, chats, gone, away, flips,
                   seen, called, approved>>

Save ==
    /\ at = "save" /\ Reach("done")
    /\ IF conv = None \/ away THEN UNCHANGED chats ELSE Add(conv, "assistant", parts)
    /\ UNCHANGED <<mix, turn, named, conv, parts, trusted>> /\ Elsewhere

Done ==
    /\ at = "done"
    /\ \/ Reach("receive")
       \/ gone /\ Reach("closed")
    /\ UNCHANGED <<mix, turn, named, conv, parts, trusted, chats>> /\ Elsewhere

-----------------------------------------------------------------------------
(* The control reader and the client.                                      *)

Reply ==
    /\ reader /\ ~gone /\ broker.waiting /\ broker.shown /\ ~broker.event
    /\ \E yes, good \in BOOLEAN :
         /\ broker' = [broker EXCEPT !.event = TRUE, !.yes = yes, !.good = good]
         /\ approved' = IF yes THEN approved \cup {<<turn, thread.rounds, good>>} ELSE approved
    /\ UNCHANGED <<turnVars, thread, stream, chats, reader, gone, away, flips, seen, called>>

(* Mutant: a disconnect ends the reader and nothing else.                  *)
ReaderLeaves ==
    /\ reader /\ reader' = FALSE
    /\ UNCHANGED <<turnVars, threadVars, chats, gone, away, flips, seen, called, approved>>

(* The client hung up, or sent a frame that is no JSON.                    *)
ReaderEnds ==
    /\ reader /\ reader' = FALSE /\ Shutdown
    /\ UNCHANGED <<turnVars, thread, stream, chats, gone, away, flips, seen, called, approved>>

Disconnect ==
    /\ ~gone /\ gone' = TRUE
    /\ UNCHANGED <<turnVars, threadVars, chats, reader, away, flips, seen, called, approved>>

(* DELETE /conversations: a headless run is refused, unless the database   *)
(* could not say that it is one.                                           *)
AskHeadless ==
    /\ mix.deletes /\ away /\ ~unsure /\ unsure' = TRUE
    /\ UNCHANGED <<turnVars, threadVars, chats, reader, gone, away, flips, seen, called, approved>>

Delete(c) ==
    /\ mix.deletes /\ ~away /\ c \in DOMAIN chats /\ (c = Headless => unsure)
    /\ chats' = [d \in DOMAIN chats \ {c} |-> chats[d]]
    /\ unsure' = (unsure /\ c # Headless)
    /\ UNCHANGED <<turnVars, threadVars, reader, gone, away, flips, seen, called, approved>>

Flip ==
    /\ flips < mix.flips /\ flips' = flips + 1 /\ away' = ~away
    /\ UNCHANGED <<turnVars, threadVars, chats, reader, gone, seen, called, approved>>

Handler ==
    /\ \/ Receive \/ Owns \/ Create \/ Question \/ Start
       \/ Forward \/ Exhausted \/ Join \/ Save \/ Done
    /\ UNCHANGED unsure

Thread == (Answer \/ Send \/ Ask \/ Approve \/ Finish) /\ UNCHANGED unsure
SitOut == GiveUp /\ UNCHANGED unsure
Hangs == ReaderEnds /\ UNCHANGED unsure

ChatNext ==
    \/ Handler \/ Thread \/ SitOut \/ Hangs
    \/ (Reply \/ Disconnect \/ Flip) /\ UNCHANGED unsure
    \/ AskHeadless \/ \E c \in Convs : Delete(c)

(* The tasks and the thread go on.  A wait for a client that is there ends *)
(* with its time; one for a client that is gone must not need to.          *)
ChatFairness ==
    /\ WF_chatVars(Handler) /\ WF_chatVars(Thread) /\ WF_chatVars(gone /\ Hangs)
    /\ WF_chatVars(~gone /\ SitOut)

ChatSpec == ChatInit /\ [][ChatNext]_chatVars
ChatFairSpec == ChatSpec /\ ChatFairness

-----------------------------------------------------------------------------
(* In every conversation an answer directly follows the question of its    *)
(* turn, whatever was deleted or could not be stored.                      *)
AnswersFollowQuestions ==
    \A c \in DOMAIN chats : \A i \in 1..Len(chats[c]) :
        chats[c][i].role = "assistant" =>
            /\ i > 1 /\ chats[c][i - 1].role = "user" /\ chats[c][i - 1].turn = chats[c][i].turn

(* An answer that is saved holds everything the client was sent of it, and *)
(* nothing of another turn.                                                *)
SavedIsSaid ==
    at = "save" => /\ Len(parts) >= seen
                   /\ \A i \in 1..Len(parts) : parts[i] = <<turn, i>>

(* Together: what a conversation keeps of a turn is the turn.              *)
TurnsAreWhole == AnswersFollowQuestions /\ SavedIsSaid

(* Every call of the external tool was approved, or an earlier one of the  *)
(* connection was for good.                                                *)
ToolsAreApproved ==
    \A x \in called : \E y \in approved :
        \/ y[1] = x[1] /\ y[2] = x[2]
        \/ y[3] /\ (y[1] < x[1] \/ (y[1] = x[1] /\ y[2] < x[2]))

(* "Headless runs are kept ... not deletable from here"                    *)
(* (delete_conversation): neither deleted nor continued as a chat.         *)
HeadlessIsKept == Headless \in DOMAIN chats /\ chats[Headless] = <<>>

(* Every turn ends: a client that hangs up frees the thread that waits for *)
(* its approval, without the wait being sat out, and a full stream is no   *)
(* deadlock.                                                               *)
TurnsEnd == at \notin {"receive", "closed"} ~> at \in {"receive", "closed"}

(* "returns the accumulated (answer_text, citations) so the turn can be    *)
(* persisted" (_stream_answer).                                            *)
TurnsAreSaved == [][at = "join" => at' # "closed"]_chatVars
=============================================================================
