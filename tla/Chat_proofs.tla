------------------------------ MODULE Chat_proofs ------------------------------
(***************************************************************************)
(* Proofs about the approval of external tool calls and about the turns of *)
(* a chat, for any number of turns, tokens, rounds, runs, clients and      *)
(* answers: ChatTurn, the socket; Consent, the relay between instances.    *)
(***************************************************************************)
EXTENDS MCChat, SequenceTheorems, TLAPS

-----------------------------------------------------------------------------
(* ChatTurn: what a conversation keeps of a turn.                          *)
Notes == [role : {"user", "assistant"}, turn : Nat, tokens : Seq(Nat \X Nat)]

TurnTypes ==
    /\ turn \in Nat /\ seen \in Nat /\ parts \in Seq(Nat \X Nat) /\ None \notin DOMAIN chats
    /\ \A c \in DOMAIN chats : chats[c] \in Seq(Notes)

Follows(notes) ==
    \A i \in 1..Len(notes) :
        notes[i].role = "assistant" =>
            i > 1 /\ notes[i - 1].role = "user" /\ notes[i - 1].turn = notes[i].turn

(* The question of this turn is the last there is in its conversation.     *)
Awaits(notes) ==
    /\ notes # <<>> /\ notes[Len(notes)].role = "user" /\ notes[Len(notes)].turn = turn

QuestionIsLast ==
    at \in {"conversation", "stream", "join", "save"} /\ conv \in DOMAIN chats => Awaits(chats[conv])

SaidOK ==
    at \in {"stream", "join", "save"} =>
        Len(parts) >= seen /\ \A i \in 1..Len(parts) : parts[i] = <<turn, i>>

TurnsInv ==
    TurnTypes /\ (\A c \in DOMAIN chats : Follows(chats[c])) /\ QuestionIsLast /\ SaidOK

LEMMA NoteAppended ==
    ASSUME NEW notes \in Seq(Notes), NEW note \in Notes, Follows(notes),
           note.role = "assistant" =>
               /\ notes # <<>> /\ notes[Len(notes)].role = "user"
               /\ notes[Len(notes)].turn = note.turn
    PROVE  /\ Append(notes, note) \in Seq(Notes) /\ Follows(Append(notes, note))
           /\ Append(notes, note) # <<>>
           /\ Append(notes, note)[Len(Append(notes, note))] = note
<1> DEFINE more == Append(notes, note)
           n == Len(notes)
<1>1. /\ n \in Nat /\ more \in Seq(Notes) /\ Len(more) = n + 1 /\ more[n + 1] = note
      /\ \A i \in 1..n : more[i] = notes[i]
    BY AppendProperties, LenProperties
<1>2. notes # <<>> => n > 0
    BY EmptySeq, LenProperties
<1>3. more # <<>>
    BY <1>1, EmptySeq
<1> HIDE DEF more
<1>4. ASSUME NEW i \in 1..(n + 1), more[i].role = "assistant"
      PROVE  i > 1 /\ more[i - 1].role = "user" /\ more[i - 1].turn = more[i].turn
    <2>1. CASE i = n + 1
        <3>1. n > 0 /\ n \in 1..n /\ more[n] = notes[n] /\ i - 1 = n
            BY <1>1, <1>2, <1>4, <2>1
        <3>2. QED
            BY <1>1, <1>4, <2>1, <3>1
    <2>2. CASE i # n + 1
        <3>1. i \in 1..n /\ more[i] = notes[i]
            BY <1>1, <2>2
        <3>2. i > 1 /\ notes[i - 1].role = "user" /\ notes[i - 1].turn = notes[i].turn
            BY <1>4, <3>1 DEF Follows
        <3>3. i - 1 \in 1..n
            BY <1>1, <3>1, <3>2
        <3>4. QED
            BY <1>1, <3>1, <3>2, <3>3
    <2>3. QED
        BY <2>1, <2>2
<1>5. QED
    BY <1>1, <1>3, <1>4 DEF Follows, more

(* Steps of others leave the turn alone.                                   *)
LEMMA TurnRests ==
    ASSUME TurnsInv, UNCHANGED <<at, turn, conv, parts, seen, chats>>
    PROVE  TurnsInv'
BY DEF TurnsInv, TurnTypes, QuestionIsLast, Awaits, SaidOK, Follows, Notes

(* Going on within a turn, where nothing is awaited yet.                   *)
LEMMA TurnGoes ==
    ASSUME TurnsInv, UNCHANGED <<parts, seen, chats>>, turn' \in Nat,
           at' \in {"conversation", "stream", "join", "save"} /\ conv' \in DOMAIN chats =>
               /\ at \in {"conversation", "stream", "join", "save"}
               /\ conv' = conv /\ turn' = turn,
           at' \in {"stream", "join", "save"} =>
               at \in {"stream", "join", "save"} /\ turn' = turn
    PROVE  TurnsInv'
<1>1. TurnTypes'
    BY DEF TurnsInv, TurnTypes
<1>2. QuestionIsLast'
    BY DEF TurnsInv, QuestionIsLast, Awaits
<1>3. SaidOK'
    BY DEF TurnsInv, SaidOK
<1>4. QED
    BY <1>1, <1>2, <1>3 DEF TurnsInv, Follows

LEMMA AddKeepsTurns ==
    ASSUME TurnsInv, NEW role \in {"user", "assistant"}, NEW tokens \in Seq(Nat \X Nat),
           Add(conv, role, tokens), UNCHANGED <<turn, parts, seen, conv>>,
           role = "assistant" => at = "save" /\ at' = "done",
           role = "user" => at' = "conversation"
    PROVE  TurnsInv'
<1> DEFINE note == [role |-> role, turn |-> turn, tokens |-> tokens]
<1>1. DOMAIN chats' = DOMAIN chats
    BY DEF Add
<1>2. CASE conv \notin DOMAIN chats
    <2>1. chats' = chats
        BY <1>2 DEF Add
    <2>2. QED
        BY <1>2, <2>1, TurnGoes DEF TurnsInv, TurnTypes
<1>3. CASE conv \in DOMAIN chats
    <2>1. /\ chats[conv] \in Seq(Notes) /\ Follows(chats[conv]) /\ turn \in Nat
          /\ role = "assistant" => Awaits(chats[conv])
        BY <1>3 DEF TurnsInv, TurnTypes, QuestionIsLast
    <2>2. note \in Notes /\ note.role = role /\ note.turn = turn
        BY <2>1 DEF Notes
    <2>3. chats' = [chats EXCEPT ![conv] = Append(@, note)]
        BY <1>3 DEF Add
    <2> HIDE DEF note
    <2>4. /\ chats'[conv] = Append(chats[conv], note)
          /\ \A c \in DOMAIN chats : c # conv => chats'[c] = chats[c]
        BY <1>3, <2>3
    <2>5. /\ chats'[conv] \in Seq(Notes) /\ Follows(chats'[conv]) /\ chats'[conv] # <<>>
          /\ chats'[conv][Len(chats'[conv])] = note
        BY <2>1, <2>2, <2>4, NoteAppended DEF Awaits
    <2>6. TurnTypes'
        BY <1>1, <2>4, <2>5 DEF TurnsInv, TurnTypes
    <2>7. \A c \in DOMAIN chats' : Follows(chats'[c])
        BY <1>1, <2>4, <2>5 DEF TurnsInv
    <2>8. QuestionIsLast'
        BY <2>2, <2>5 DEF QuestionIsLast, Awaits
    <2>9. SaidOK'
        BY DEF SaidOK
    <2>10. QED
        BY <2>6, <2>7, <2>8, <2>9 DEF TurnsInv, Follows
<1>4. QED
    BY <1>2, <1>3

LEMMA HandlerKeepsTurns ==
    ASSUME TurnsInv, Handler
    PROVE  TurnsInv'
<1>1. CASE Receive
    <2>1. at' \in {"closed", "owns"} /\ turn' \in {turn, turn + 1} /\ UNCHANGED <<parts, seen, chats>>
        BY <1>1 DEF Receive, Reach, Elsewhere
    <2>2. turn' \in Nat
        BY <2>1 DEF TurnsInv, TurnTypes
    <2>3. QED
        BY <2>1, <2>2, TurnGoes
<1>2. CASE Owns
    <2>1. /\ UNCHANGED <<parts, seen, chats, turn>> /\ turn \in Nat /\ None \notin DOMAIN chats
          /\ at' \in {"question", "create"} \/ (at' = "conversation" /\ conv' = None)
        BY <1>2 DEF Owns, Persistless, Reach, Elsewhere, TurnsInv, TurnTypes
    <2>2. QED
        BY <2>1, TurnGoes
<1>3. CASE Create
    <2>1. UNCHANGED <<parts, seen, turn>> /\ turn \in Nat
        BY <1>3 DEF Create, Elsewhere, TurnsInv, TurnTypes
    <2>2. CASE Persistless
        <3>1. UNCHANGED chats /\ at' = "conversation" /\ conv' \notin DOMAIN chats
            BY <2>2 DEF Persistless, Reach, TurnsInv, TurnTypes
        <3>2. QED
            BY <2>1, <3>1, TurnGoes
    <2>3. CASE at' = "question" /\ chats' = [c \in DOMAIN chats \cup {turn + 2} |->
                                               IF c \in DOMAIN chats THEN chats[c] ELSE <<>>]
        <3>1. <<>> \in Seq(Notes) /\ Follows(<<>>)
            BY EmptySeq DEF Follows
        <3>2. /\ DOMAIN chats' = DOMAIN chats \cup {turn + 2}
              /\ \A c \in DOMAIN chats' : chats'[c] \in {<<>>} \cup {chats[d] : d \in DOMAIN chats}
            BY <2>3
        <3>3. TurnTypes'
            <4>1. None \notin DOMAIN chats'
                BY <2>1, <3>2 DEF TurnsInv, TurnTypes, None
            <4>2. \A c \in DOMAIN chats' : chats'[c] \in Seq(Notes)
                BY <3>1, <3>2 DEF TurnsInv, TurnTypes
            <4>3. QED
                BY <2>1, <4>1, <4>2 DEF TurnsInv, TurnTypes
        <3>4. \A c \in DOMAIN chats' : Follows(chats'[c])
            BY <3>1, <3>2 DEF TurnsInv
        <3>5. QuestionIsLast' /\ SaidOK'
            BY <2>3 DEF QuestionIsLast, SaidOK
        <3>6. QED
            BY <3>3, <3>4, <3>5 DEF TurnsInv, Follows
    <2>4. QED
        BY <1>3, <2>2, <2>3 DEF Create, Reach
<1>4. CASE Question
    <2>1. UNCHANGED <<parts, seen, turn>> /\ turn \in Nat
        BY <1>4 DEF Question, Elsewhere, TurnsInv, TurnTypes
    <2>2. CASE Persistless
        <3>1. UNCHANGED chats /\ at' = "conversation" /\ conv' \notin DOMAIN chats
            BY <2>2 DEF Persistless, Reach, TurnsInv, TurnTypes
        <3>2. QED
            BY <2>1, <3>1, TurnGoes
    <2>3. CASE Add(conv, "user", <<>>) /\ conv' = conv /\ at' = "conversation"
        <3>1. <<>> \in Seq(Nat \X Nat)
            BY EmptySeq
        <3>2. QED
            BY <2>1, <2>3, <3>1, AddKeepsTurns
    <2>4. QED
        BY <1>4, <2>2, <2>3 DEF Question, Reach
<1>5. CASE Start
    <2>1. UNCHANGED <<turn, conv, chats>> /\ at = "conversation" /\ turn \in Nat
        BY <1>5 DEF Start, TurnsInv, TurnTypes
    <2>2. CASE at' = "closed" /\ UNCHANGED <<parts, seen>>
        BY <2>1, <2>2, TurnGoes
    <2>3. CASE at' = "stream" /\ parts' = <<>> /\ seen' = 0
        <3>1. parts' \in Seq(Nat \X Nat) /\ Len(parts') = 0
            BY <2>3, EmptySeq
        <3>2. TurnTypes' /\ SaidOK'
            BY <2>1, <2>3, <3>1 DEF TurnsInv, TurnTypes, SaidOK
        <3>3. QuestionIsLast'
            BY <2>1, <2>3 DEF TurnsInv, QuestionIsLast, Awaits
        <3>4. QED
            BY <2>1, <3>2, <3>3 DEF TurnsInv, Follows
    <2>4. QED
        BY <1>5, <2>2, <2>3 DEF Start, Reach
<1>6. CASE Forward
    <2> DEFINE piece == <<turn, Len(parts) + 1>>
    <2>1. /\ UNCHANGED <<turn, conv, chats>> /\ at = "stream" /\ at' \in {"stream", "join"}
          /\ \/ parts' = Append(parts, piece) /\ seen' \in {seen, seen + 1}
             \/ parts' = parts /\ seen' = seen
        BY <1>6 DEF Forward, Take, Reach
    <2>2. /\ turn \in Nat /\ seen \in Nat /\ parts \in Seq(Nat \X Nat) /\ Len(parts) \in Nat
          /\ Len(parts) >= seen /\ \A i \in 1..Len(parts) : parts[i] = <<turn, i>>
        BY <2>1, LenProperties DEF TurnsInv, TurnTypes, SaidOK
    <2>3. /\ parts' \in Seq(Nat \X Nat) /\ seen' \in Nat /\ Len(parts') >= seen'
          /\ \A i \in 1..Len(parts') : parts'[i] = <<turn, i>>
        <3>1. CASE parts' = parts /\ seen' = seen
            BY <2>2, <3>1
        <3>2. CASE parts' = Append(parts, piece) /\ seen' \in {seen, seen + 1}
            <4>1. piece \in Nat \X Nat
                BY <2>2
            <4>2. /\ Append(parts, piece) \in Seq(Nat \X Nat)
                  /\ Len(Append(parts, piece)) = Len(parts) + 1
                  /\ Append(parts, piece)[Len(parts) + 1] = piece
                  /\ \A i \in 1..Len(parts) : Append(parts, piece)[i] = parts[i]
                BY <2>2, <4>1, AppendProperties
            <4>3. Len(parts') = Len(parts) + 1 /\ seen' \in Nat /\ Len(parts') >= seen'
                BY <2>2, <3>2, <4>2
            <4>4. ASSUME NEW i \in 1..Len(parts') PROVE parts'[i] = <<turn, i>>
                <5>1. i \in 1..Len(parts) \/ i = Len(parts) + 1
                    BY <2>2, <4>3
                <5>2. QED
                    BY <2>2, <3>2, <4>2, <5>1
            <4>5. QED
                BY <3>2, <4>2, <4>3, <4>4
        <3>3. QED
            BY <2>1, <3>1, <3>2
    <2>4. TurnTypes' /\ SaidOK'
        BY <2>1, <2>3 DEF TurnsInv, TurnTypes, SaidOK
    <2>5. QuestionIsLast'
        BY <2>1 DEF TurnsInv, QuestionIsLast, Awaits
    <2>6. QED
        BY <2>1, <2>4, <2>5 DEF TurnsInv, Follows
<1>7. CASE Exhausted \/ Join \/ Done
    <2>1. /\ UNCHANGED <<turn, conv, parts, seen, chats>> /\ turn \in Nat
          /\ at' \in {"join", "save"} => at \in {"stream", "join"}
          /\ at' \in {"join", "save", "closed", "receive"}
        BY <1>7 DEF Exhausted, Join, Done, Reach, Elsewhere, TurnsInv, TurnTypes
    <2>2. QED
        BY <2>1, TurnGoes
<1>8. CASE Save
    <2>1. at = "save" /\ at' = "done" /\ UNCHANGED <<turn, parts, seen, conv>>
        BY <1>8 DEF Save, Reach, Elsewhere
    <2>2. CASE UNCHANGED chats
        BY <2>1, <2>2, TurnGoes DEF TurnsInv, TurnTypes
    <2>3. CASE Add(conv, "assistant", parts)
        <3>1. parts \in Seq(Nat \X Nat)
            BY DEF TurnsInv, TurnTypes
        <3>2. QED
            BY <2>1, <2>3, <3>1, AddKeepsTurns
    <2>4. QED
        BY <1>8, <2>2, <2>3 DEF Save
<1>9. QED
    BY <1>1, <1>2, <1>3, <1>4, <1>5, <1>6, <1>7, <1>8 DEF Handler

LEMMA DeleteKeepsTurns ==
    ASSUME TurnsInv, NEW c, Delete(c)
    PROVE  TurnsInv'
<1>1. chats' = [d \in DOMAIN chats \ {c} |-> chats[d]] /\ UNCHANGED <<at, turn, conv, parts, seen>>
    BY DEF Delete, turnVars
<1>2. DOMAIN chats' = DOMAIN chats \ {c} /\ \A d \in DOMAIN chats' : chats'[d] = chats[d]
    BY <1>1
<1>3. TurnTypes' /\ SaidOK'
    BY <1>1, <1>2 DEF TurnsInv, TurnTypes, SaidOK
<1>4. QuestionIsLast'
    BY <1>1, <1>2 DEF TurnsInv, QuestionIsLast, Awaits
<1>5. QED
    BY <1>2, <1>3, <1>4 DEF TurnsInv, Follows

LEMMA NextKeepsTurns ==
    ASSUME TurnsInv, [ChatNext]_chatVars
    PROVE  TurnsInv'
<1>1. CASE Thread \/ SitOut \/ Hangs \/ Reply \/ Disconnect \/ Flip \/ AskHeadless \/ UNCHANGED chatVars
    <2>1. UNCHANGED <<at, turn, conv, parts, seen, chats>>
        BY <1>1 DEF Thread, SitOut, Hangs, Reply, Disconnect, Flip, AskHeadless, chatVars, turnVars,
                    Answer, Send, Ask, Approve, GiveUp, Finish, ReaderEnds, Beside, Rest
    <2>2. QED
        BY <2>1, TurnRests
<1>2. QED
    BY <1>1, HandlerKeepsTurns, DeleteKeepsTurns DEF ChatNext

LEMMA InitHasTurns == ASSUME ChatInit PROVE TurnsInv
<1>1. chats = [c \in {Headless, Old} |-> <<>>] /\ parts = <<>> /\ turn = 0 /\ seen = 0 /\ at = "receive"
    BY DEF ChatInit
<1>2. <<>> \in Seq(Notes) /\ <<>> \in Seq(Nat \X Nat) /\ Follows(<<>>)
    BY EmptySeq DEF Follows
<1>3. QED
    BY <1>1, <1>2 DEF TurnsInv, TurnTypes, QuestionIsLast, SaidOK, None, Headless, Old

(* In a conversation an answer directly follows the question of its turn,  *)
(* whatever was deleted or could not be stored, and an answer that is      *)
(* saved holds what the client was sent of it and nothing of another turn  *)
(* (chat_ws, _begin_turn, _stream_answer, _end_turn).                      *)
THEOREM TurnsStayWhole == ChatSpec => []TurnsAreWhole
<1>1. TurnsInv => TurnsAreWhole
    BY DEF TurnsInv, SaidOK, Follows, TurnsAreWhole, AnswersFollowQuestions, SavedIsSaid
<1>2. ChatInit => TurnsInv
    BY InitHasTurns
<1>3. TurnsInv /\ [ChatNext]_chatVars => TurnsInv'
    BY NextKeepsTurns
<1>4. QED
    BY <1>1, <1>2, <1>3, PTL DEF ChatSpec

-----------------------------------------------------------------------------
(* ChatTurn: who approved a call.                                          *)
ApprovedTypes ==
    /\ turn \in Nat /\ thread \in [at : ThreadStages, tokens : Nat, rounds : Nat, event : Events]
    /\ broker \in [waiting : BOOLEAN, event : BOOLEAN, yes : BOOLEAN, good : BOOLEAN,
                   shown : BOOLEAN, closed : BOOLEAN]
    /\ \A y \in approved : y[1] \in Nat /\ y[2] \in Nat

(* A thread is there while its turn streams, and asks for one call at a    *)
(* time.                                                                   *)
Streaming == at \in {"stream", "join"}
ThreadIsOfTheTurn == ~Streaming => thread.at = "off"

Unasked ==
    thread.at \in {"answer", "ask"} \/ (thread.at = "send" /\ thread.event # "consent") =>
        ~broker.waiting /\ ~broker.yes

YesIsApproved ==
    thread.at \in {"send", "wait"} /\ broker.yes => <<turn, thread.rounds, broker.good>> \in approved

(* Approved before the call the thread is about to make.                   *)
Calling == thread.at = "ask" \/ (thread.at = "send" /\ thread.event = "call")

Earlier(y) ==
    \/ y[1] < turn
    \/ /\ y[1] = turn /\ at \notin {"owns", "create", "question", "conversation"}
       /\ Streaming => y[2] < thread.rounds \/ (y[2] = thread.rounds /\ ~Calling)

TrustIsApproved == trusted => \E y \in approved : y[3] /\ Earlier(y)

ApprovedInv ==
    /\ ApprovedTypes /\ ThreadIsOfTheTurn /\ Unasked /\ YesIsApproved /\ TrustIsApproved
    /\ ToolsAreApproved

(* An approval is not taken back, and earlier ones stay so.                *)
LEMMA ApprovedStays ==
    ASSUME ApprovedInv, approved \subseteq approved', called' = called, trusted' => trusted,
           \A y \in approved : Earlier(y) => Earlier(y)'
    PROVE  TrustIsApproved' /\ ToolsAreApproved'
<1>1. TrustIsApproved'
    <2>1. CASE trusted
        <3>1. PICK y \in approved : y[3] /\ Earlier(y)
            BY <2>1 DEF ApprovedInv, TrustIsApproved
        <3>2. y \in approved' /\ y[3] /\ Earlier(y)'
            BY <3>1
        <3>3. QED
            BY <3>2 DEF TrustIsApproved
    <2>2. QED
        BY <2>1 DEF TrustIsApproved
<1>2. ToolsAreApproved'
    BY DEF ApprovedInv, ToolsAreApproved
<1>3. QED
    BY <1>1, <1>2

LEMMA HandlerIsApproved ==
    ASSUME ApprovedInv, Handler
    PROVE  ApprovedInv'
<1>1. ApprovedTypes /\ called' = called /\ trusted' = trusted /\ approved' = approved
    BY DEF Handler, Receive, Owns, Create, Question, Start, Forward, Exhausted, Join, Save, Done,
           Elsewhere, ApprovedInv
<1>2. CASE Receive \/ Owns \/ Create \/ Question \/ Save \/ Done
    <2>1. /\ UNCHANGED <<thread, broker>> /\ at \notin {"stream", "join"} /\ at' \notin {"stream", "join"}
          /\ \/ at \in {"receive", "save", "done"} /\ at' \in {"receive", "save", "done", "closed"} /\ turn' = turn
             \/ at = "receive" /\ at' = "owns" /\ turn' = turn + 1
             \/ at \in {"owns", "create", "question"} /\ turn' = turn
        BY <1>2 DEF Receive, Owns, Create, Question, Save, Done, Elsewhere, threadVars, Reach, Persistless
    <2>2. thread.at = "off" /\ turn \in Nat /\ turn' \in Nat
        BY <1>1, <2>1 DEF ApprovedInv, ThreadIsOfTheTurn, Streaming, ApprovedTypes
    <2>3. \A y \in approved : Earlier(y) => Earlier(y)'
        BY <1>1, <2>1, <2>2 DEF Earlier, Streaming, ApprovedTypes
    <2>4. ApprovedTypes' /\ ThreadIsOfTheTurn' /\ Unasked' /\ YesIsApproved'
        BY <1>1, <2>1, <2>2 DEF ApprovedTypes, ThreadIsOfTheTurn, Unasked, YesIsApproved
    <2>5. QED
        BY <1>1, <2>3, <2>4, ApprovedStays DEF ApprovedInv
<1>3. CASE Start
    <2>1. turn' = turn /\ at = "conversation" /\ thread.at = "off"
        BY <1>3 DEF Start, ApprovedInv, ThreadIsOfTheTurn, Streaming
    <2>2. \A y \in approved : Earlier(y) => Earlier(y)'
        BY <1>1, <2>1 DEF Earlier, ApprovedTypes
    <2>3. CASE at' = "closed" /\ UNCHANGED <<thread, broker>>
        <3>1. ApprovedTypes' /\ ThreadIsOfTheTurn' /\ Unasked' /\ YesIsApproved'
            BY <1>1, <2>1, <2>3 DEF ApprovedTypes, ThreadIsOfTheTurn, Unasked, YesIsApproved
        <3>2. QED
            BY <1>1, <2>2, <3>1, ApprovedStays DEF ApprovedInv
    <2>4. CASE at' = "stream" /\ thread' = [Quiet EXCEPT !.at = "answer"] /\ broker' = Idle
        <3>1. /\ thread' = [at |-> "answer", tokens |-> 0, rounds |-> 0, event |-> "end"]
              /\ broker' = [waiting |-> FALSE, event |-> FALSE, yes |-> FALSE, good |-> FALSE,
                            shown |-> FALSE, closed |-> FALSE]
            BY <2>4 DEF Quiet, Idle
        <3>2. ApprovedTypes'
            BY <1>1, <2>1, <3>1 DEF ApprovedTypes, ThreadStages, Events
        <3>3. ThreadIsOfTheTurn'
            BY <2>4 DEF ThreadIsOfTheTurn, Streaming
        <3>4. Unasked' /\ YesIsApproved'
            BY <3>1 DEF Unasked, YesIsApproved
        <3>5. QED
            BY <1>1, <2>2, <3>2, <3>3, <3>4, ApprovedStays DEF ApprovedInv
    <2>5. QED
        BY <1>3, <2>3, <2>4 DEF Start, Reach, threadVars
<1>4. CASE Forward \/ Exhausted
    <2>1. /\ UNCHANGED <<turn, thread>> /\ Streaming /\ Streaming'
          /\ \/ broker' = broker
             \/ broker' = [broker EXCEPT !.shown = TRUE]
             \/ broker' = [broker EXCEPT !.closed = TRUE, !.event = broker.event \/ broker.waiting]
        BY <1>4 DEF Forward, Exhausted, Streaming, Reach, Shutdown
    <2>2. /\ broker' \in [waiting : BOOLEAN, event : BOOLEAN, yes : BOOLEAN, good : BOOLEAN,
                          shown : BOOLEAN, closed : BOOLEAN]
          /\ broker'.waiting = broker.waiting /\ broker'.yes = broker.yes /\ broker'.good = broker.good
        BY <1>1, <2>1 DEF ApprovedTypes
    <2>3. \A y \in approved : Earlier(y) => Earlier(y)'
        BY <1>1, <2>1 DEF Earlier, Calling, ApprovedTypes, Streaming
    <2>4. ApprovedTypes' /\ ThreadIsOfTheTurn' /\ Unasked' /\ YesIsApproved'
        BY <1>1, <2>1, <2>2 DEF ApprovedInv, ApprovedTypes, ThreadIsOfTheTurn, Unasked, YesIsApproved
    <2>5. QED
        BY <1>1, <2>3, <2>4, ApprovedStays DEF ApprovedInv
<1>5. CASE Join
    <2>1. /\ UNCHANGED <<turn, broker>> /\ Streaming /\ at' \in {"closed", "save"}
          /\ thread' = [at |-> "off", tokens |-> 0, rounds |-> 0, event |-> "end"]
        BY <1>5 DEF Join, Streaming, Reach, Quiet
    <2>2. \A y \in approved : Earlier(y) => Earlier(y)'
        BY <1>1, <2>1 DEF Earlier, ApprovedTypes, Streaming
    <2>3. ApprovedTypes' /\ ThreadIsOfTheTurn' /\ Unasked' /\ YesIsApproved'
        BY <1>1, <2>1 DEF ApprovedTypes, ThreadIsOfTheTurn, Unasked, YesIsApproved, ThreadStages, Events
    <2>4. QED
        BY <1>1, <2>2, <2>3, ApprovedStays DEF ApprovedInv
<1>6. QED
    BY <1>2, <1>3, <1>4, <1>5 DEF Handler

LEMMA ThreadIsApproved ==
    ASSUME ApprovedInv, Thread \/ SitOut
    PROVE  ApprovedInv'
<1>1. /\ ApprovedTypes /\ UNCHANGED <<at, turn, approved>> /\ thread.at # "off"
      /\ Streaming /\ Streaming'
    BY DEF ApprovedInv, ThreadIsOfTheTurn, Streaming, Thread, SitOut, Answer, Send, Ask, Approve, GiveUp,
           Finish, Beside, Rest, turnVars
<1>2. CASE Answer \/ Send \/ Finish
    <2>1. /\ UNCHANGED <<broker, called, trusted>>
          /\ \/ /\ thread.at = "answer"
                /\ \/ thread' = [thread EXCEPT !.at = "send", !.event = "token", !.tokens = @ + 1]
                   \/ thread' = [thread EXCEPT !.at = "send", !.event = "call", !.rounds = @ + 1]
                   \/ \E event \in {"end", "error"} : Hands(event, "send")
             \/ /\ thread.at = "send"
                /\ Hands(thread.event, After(thread.event)) \/ Hands(thread.event, "raised")
             \/ thread.at = "close" /\ Hands("end", "off")
        BY <1>2 DEF Answer, Send, Finish, Beside, turnVars
    <2> DEFINE Goes(event, stage, rounds) ==
                   /\ thread'.at = stage /\ thread'.event = event /\ thread'.rounds = rounds
                   /\ thread' \in [at : ThreadStages, tokens : Nat, rounds : Nat, event : Events]
    <2>2. ASSUME thread.at = "answer"
          PROVE  \/ Goes("token", "send", thread.rounds) \/ Goes("call", "send", thread.rounds + 1)
                 \/ \E event \in {"end", "error"} : Goes(event, "send", thread.rounds)
        <3>1. CASE thread' = [thread EXCEPT !.at = "send", !.event = "token", !.tokens = @ + 1]
            <4>1. thread' = [at |-> "send", tokens |-> thread.tokens + 1, rounds |-> thread.rounds,
                             event |-> "token"]
                BY <1>1, <3>1 DEF ApprovedTypes
            <4>2. Goes("token", "send", thread.rounds)
                BY <1>1, <4>1 DEF ApprovedTypes, ThreadStages, Events
            <4>3. QED
                BY <4>2
        <3>2. CASE thread' = [thread EXCEPT !.at = "send", !.event = "call", !.rounds = @ + 1]
            <4>1. thread' = [at |-> "send", tokens |-> thread.tokens, rounds |-> thread.rounds + 1,
                             event |-> "call"]
                BY <1>1, <3>2 DEF ApprovedTypes
            <4>2. Goes("call", "send", thread.rounds + 1)
                BY <1>1, <4>1 DEF ApprovedTypes, ThreadStages, Events
            <4>3. QED
                BY <4>2
        <3>3. CASE \E event \in {"end", "error"} : Hands(event, "send")
            BY <1>1, <3>3 DEF ApprovedTypes, ThreadStages, Events, Hands
        <3>4. QED
            BY <2>1, <2>2, <3>1, <3>2, <3>3
    <2>3. ASSUME thread.at = "send"
          PROVE  Goes(thread.event, After(thread.event), thread.rounds)
                    \/ Goes(thread.event, "raised", thread.rounds)
        <3>1. thread.event \in Events /\ After(thread.event) \in ThreadStages
            BY <1>1 DEF ApprovedTypes, After, Events, ThreadStages
        <3>2. QED
            BY <1>1, <2>1, <2>3, <3>1 DEF ApprovedTypes, ThreadStages, Hands
    <2>4. ASSUME thread.at = "close" PROVE Goes("end", "off", thread.rounds)
        BY <1>1, <2>1, <2>4 DEF ApprovedTypes, ThreadStages, Events, Hands
    <2>5. thread.at \in {"answer", "send", "close"}
        BY <2>1
    <2>6. /\ thread' \in [at : ThreadStages, tokens : Nat, rounds : Nat, event : Events]
          /\ thread'.rounds >= thread.rounds /\ thread'.rounds \in Nat /\ thread.rounds \in Nat
          /\ Calling' => Calling \/ thread'.rounds > thread.rounds
          /\ thread'.at \in {"send", "wait"} =>
                 \/ thread'.event # "consent" /\ thread.at = "answer"
                 \/ thread'.at = "wait" /\ thread.at = "send" /\ thread'.rounds = thread.rounds
          /\ thread'.at \in {"answer", "ask"} => thread.at = "send" /\ thread.event # "consent"
        BY <1>1, <2>2, <2>3, <2>4, <2>5 DEF ApprovedTypes, Calling, After, Events
    <2> HIDE DEF Goes
    <2>7. ApprovedTypes'
        BY <1>1, <2>1, <2>6 DEF ApprovedTypes
    <2>8. Unasked' /\ YesIsApproved'
        BY <1>1, <2>1, <2>5, <2>6 DEF ApprovedInv, Unasked, YesIsApproved
    <2>9. \A y \in approved : Earlier(y) => Earlier(y)'
        BY <1>1, <2>6 DEF Earlier, ApprovedTypes
    <2>10. QED
        BY <1>1, <2>1, <2>7, <2>8, <2>9, ApprovedStays DEF ApprovedInv, ThreadIsOfTheTurn
<1>3. CASE Ask
    <2>1. /\ thread.at = "ask" /\ trusted' = trusted
          /\ \/ /\ thread' = [thread EXCEPT !.at = "answer", !.event = "call"] /\ broker' = broker
                /\ \/ trusted /\ called' = called \cup {<<turn, thread.rounds>>}
                   \/ called' = called
             \/ /\ thread' = [thread EXCEPT !.at = "send", !.event = "consent"] /\ called' = called
                /\ broker' = [waiting |-> TRUE, event |-> FALSE, yes |-> FALSE, good |-> FALSE,
                              shown |-> FALSE, closed |-> FALSE]
        BY <1>3 DEF Ask, Beside, turnVars, Hands, Idle
    <2>2. /\ thread'.at \in {"answer", "send"} /\ thread'.event \in {"call", "consent"}
          /\ thread'.at = "send" => thread'.event = "consent"
          /\ thread'.at = "answer" => broker' = broker
          /\ thread'.at = "send" => broker'.yes = FALSE
          /\ thread'.rounds = thread.rounds /\ thread.rounds \in Nat
          /\ ApprovedTypes'
        <3>1. CASE thread' = [thread EXCEPT !.at = "answer", !.event = "call"] /\ broker' = broker
            <4>1. thread' = [at |-> "answer", tokens |-> thread.tokens, rounds |-> thread.rounds,
                             event |-> "call"]
                BY <1>1, <3>1 DEF ApprovedTypes
            <4>2. QED
                BY <1>1, <3>1, <4>1 DEF ApprovedTypes, ThreadStages, Events
        <3>2. CASE /\ thread' = [thread EXCEPT !.at = "send", !.event = "consent"]
                   /\ broker' = [waiting |-> TRUE, event |-> FALSE, yes |-> FALSE, good |-> FALSE,
                                 shown |-> FALSE, closed |-> FALSE]
            <4>1. thread' = [at |-> "send", tokens |-> thread.tokens, rounds |-> thread.rounds,
                             event |-> "consent"]
                BY <1>1, <3>2 DEF ApprovedTypes
            <4>2. QED
                BY <1>1, <3>2, <4>1 DEF ApprovedTypes, ThreadStages, Events
        <3>3. QED
            BY <2>1, <3>1, <3>2
    <2>3. Unasked' /\ YesIsApproved'
        BY <1>1, <2>1, <2>2 DEF ApprovedInv, Unasked, YesIsApproved
    <2>4. \A y \in approved : Earlier(y) => Earlier(y)'
        BY <1>1, <2>1, <2>2 DEF Earlier, Calling, ApprovedTypes
    <2>5. CASE called' = called
        BY <1>1, <2>1, <2>2, <2>3, <2>4, <2>5, ApprovedStays DEF ApprovedInv, ThreadIsOfTheTurn
    <2>6. CASE trusted /\ called' = called \cup {<<turn, thread.rounds>>}
        <3>1. PICK y \in approved : y[3] /\ Earlier(y)
            BY <2>6 DEF ApprovedInv, TrustIsApproved
        <3>2. y[1] < turn \/ (y[1] = turn /\ y[2] < thread.rounds)
            BY <1>1, <2>1, <3>1 DEF Earlier, Calling
        <3>3. ToolsAreApproved'
            BY <1>1, <2>6, <3>1, <3>2 DEF ApprovedInv, ToolsAreApproved
        <3>4. TrustIsApproved'
            BY <1>1, <2>1, <2>4, <3>1 DEF TrustIsApproved
        <3>5. QED
            BY <1>1, <2>2, <2>3, <3>3, <3>4 DEF ApprovedInv, ThreadIsOfTheTurn
    <2>7. QED
        BY <2>1, <2>5, <2>6
<1>4. CASE Approve \/ GiveUp
    <2>1. /\ thread.at = "wait" /\ Hands("call", "answer")
          /\ broker' = [Idle EXCEPT !.closed = broker.closed]
        BY <1>4 DEF Approve, GiveUp
    <2>2. /\ thread' = [at |-> "answer", tokens |-> thread.tokens, rounds |-> thread.rounds,
                        event |-> "call"]
          /\ broker' = [waiting |-> FALSE, event |-> FALSE, yes |-> FALSE, good |-> FALSE,
                        shown |-> FALSE, closed |-> broker.closed]
        BY <1>1, <2>1 DEF ApprovedTypes, Hands, Idle
    <2>3. ApprovedTypes' /\ Unasked' /\ YesIsApproved'
        <3>1. ApprovedTypes'
            BY <1>1, <2>2 DEF ApprovedTypes, ThreadStages, Events
        <3>2. QED
            BY <2>2, <3>1 DEF Unasked, YesIsApproved
    <2>4. \A y \in approved : Earlier(y) => Earlier(y)'
        BY <1>1, <2>1, <2>2 DEF Earlier, Calling, ApprovedTypes
    <2>5. ASSUME called' = called, trusted' => trusted PROVE ApprovedInv'
        BY <1>1, <2>3, <2>4, <2>5, ApprovedStays DEF ApprovedInv, ThreadIsOfTheTurn
    <2>6. ASSUME broker.yes, called' = called \cup {<<turn, thread.rounds>>},
                 trusted' => trusted \/ broker.good
          PROVE  ApprovedInv'
        <3>1. PICK z \in approved : z[1] = turn /\ z[2] = thread.rounds /\ z[3] = broker.good
            BY <2>1, <2>6 DEF ApprovedInv, YesIsApproved
        <3>2. ToolsAreApproved'
            BY <1>1, <2>6, <3>1 DEF ApprovedInv, ToolsAreApproved
        <3>3. ASSUME trusted PROVE TrustIsApproved'
            <4>1. PICK y \in approved : y[3] /\ Earlier(y)
                BY <3>3 DEF ApprovedInv, TrustIsApproved
            <4>2. y \in approved' /\ y[3] /\ Earlier(y)'
                BY <1>1, <2>4, <4>1
            <4>3. QED
                BY <4>2 DEF TrustIsApproved
        <3>4. ASSUME broker.good PROVE TrustIsApproved'
            <4>1. Earlier(z)'
                BY <1>1, <2>2, <3>1 DEF Earlier, Calling, Streaming, ApprovedTypes
            <4>2. z \in approved' /\ z[3]
                BY <1>1, <3>1, <3>4
            <4>3. QED
                BY <4>1, <4>2 DEF TrustIsApproved
        <3>5. ASSUME ~trusted, ~broker.good PROVE TrustIsApproved'
            BY <2>6, <3>5 DEF TrustIsApproved
        <3>6. QED
            BY <1>1, <2>3, <2>6, <3>2, <3>3, <3>4, <3>5 DEF ApprovedInv, ThreadIsOfTheTurn
    <2>7. CASE Approve
        <3>1. CASE broker.yes
            BY <2>6, <2>7, <3>1 DEF Approve
        <3>2. CASE ~broker.yes
            BY <2>5, <2>7, <3>2 DEF Approve
        <3>3. QED
            BY <3>1, <3>2
    <2>8. CASE GiveUp
        BY <2>5, <2>8 DEF GiveUp
    <2>9. QED
        BY <1>4, <2>7, <2>8
<1>5. QED
    BY <1>2, <1>3, <1>4 DEF Thread, SitOut

LEMMA OthersApprove ==
    ASSUME ApprovedInv,
           Reply \/ Hangs \/ Disconnect \/ Flip \/ AskHeadless \/ (\E c \in Convs : Delete(c))
                 \/ UNCHANGED chatVars
    PROVE  ApprovedInv'
<1>1. ApprovedTypes /\ UNCHANGED <<at, turn, thread, called, trusted>>
    BY DEF Reply, Hangs, ReaderEnds, Disconnect, Flip, AskHeadless, Delete, turnVars, threadVars, chatVars,
           ApprovedInv
<1>2. \A y \in approved : Earlier(y) => Earlier(y)'
    BY <1>1 DEF Earlier, Calling, Streaming
<1>3. CASE Reply
    <2>1. PICK yes \in BOOLEAN, good \in BOOLEAN :
              /\ broker' = [broker EXCEPT !.event = TRUE, !.yes = yes, !.good = good]
              /\ approved' = IF yes THEN approved \cup {<<turn, thread.rounds, good>>} ELSE approved
        BY <1>3 DEF Reply
    <2>2. /\ broker'.waiting = broker.waiting /\ broker'.yes = yes /\ broker'.good = good
          /\ broker' \in [waiting : BOOLEAN, event : BOOLEAN, yes : BOOLEAN, good : BOOLEAN,
                          shown : BOOLEAN, closed : BOOLEAN]
        BY <1>1, <2>1 DEF ApprovedTypes
    <2>3. approved \subseteq approved' /\ ApprovedTypes'
        BY <1>1, <2>1, <2>2 DEF ApprovedTypes
    <2>4. broker.waiting
        BY <1>3 DEF Reply
    <2>5. ThreadIsOfTheTurn' /\ Unasked' /\ YesIsApproved'
        BY <1>1, <2>1, <2>2, <2>4 DEF ApprovedInv, ThreadIsOfTheTurn, Streaming, Unasked, YesIsApproved
    <2>6. QED
        BY <1>1, <1>2, <2>3, <2>5, ApprovedStays DEF ApprovedInv
<1>4. CASE Hangs
    <2>1. /\ approved' = approved
          /\ broker' = [broker EXCEPT !.closed = TRUE, !.event = broker.event \/ broker.waiting]
        BY <1>4 DEF Hangs, ReaderEnds, Shutdown
    <2>2. /\ broker'.waiting = broker.waiting /\ broker'.yes = broker.yes /\ broker'.good = broker.good
          /\ broker' \in [waiting : BOOLEAN, event : BOOLEAN, yes : BOOLEAN, good : BOOLEAN,
                          shown : BOOLEAN, closed : BOOLEAN]
        BY <1>1, <2>1 DEF ApprovedTypes
    <2>3. ApprovedTypes' /\ ThreadIsOfTheTurn' /\ Unasked' /\ YesIsApproved'
        BY <1>1, <2>1, <2>2 DEF ApprovedInv, ApprovedTypes, ThreadIsOfTheTurn, Streaming, Unasked,
                                YesIsApproved
    <2>4. QED
        BY <1>1, <1>2, <2>1, <2>3, ApprovedStays DEF ApprovedInv
<1>5. CASE Disconnect \/ Flip \/ AskHeadless \/ (\E c \in Convs : Delete(c)) \/ UNCHANGED chatVars
    <2>1. UNCHANGED <<broker, approved>>
        BY <1>5 DEF Disconnect, Flip, AskHeadless, Delete, turnVars, threadVars, chatVars
    <2>2. ApprovedTypes' /\ ThreadIsOfTheTurn' /\ Unasked' /\ YesIsApproved'
        BY <1>1, <2>1 DEF ApprovedInv, ApprovedTypes, ThreadIsOfTheTurn, Streaming, Unasked, YesIsApproved
    <2>3. QED
        BY <1>1, <1>2, <2>1, <2>2, ApprovedStays DEF ApprovedInv
<1>6. QED
    BY <1>3, <1>4, <1>5

LEMMA InitIsApproved == ASSUME ChatInit PROVE ApprovedInv
BY DEF ChatInit, ApprovedInv, ApprovedTypes, ThreadIsOfTheTurn, Streaming, Unasked, YesIsApproved,
       TrustIsApproved, ToolsAreApproved, Quiet, Idle, ThreadStages, Events

LEMMA NextIsApproved == ASSUME ApprovedInv, [ChatNext]_chatVars PROVE ApprovedInv'
BY HandlerIsApproved, ThreadIsApproved, OthersApprove DEF ChatNext

(* Over the socket, every call of an external tool was approved by the     *)
(* client, or an earlier one of the connection was for good: an answer     *)
(* never counts for another call, and trust is never without an approval   *)
(* (ConsentBroker.request, resolve, shutdown).                             *)
THEOREM SocketCallsAreApproved == ChatSpec => []ToolsAreApproved
<1>1. ApprovedInv => ToolsAreApproved
    BY DEF ApprovedInv
<1>2. ChatInit => ApprovedInv
    BY InitIsApproved
<1>3. ApprovedInv /\ [ChatNext]_chatVars => ApprovedInv'
    BY NextIsApproved
<1>4. QED
    BY <1>1, <1>2, <1>3, PTL DEF ChatSpec

-----------------------------------------------------------------------------
(* Consent: the relay.                                                     *)
Now(r) == <<r, run[r].n>>

(* The request was registered, and will not be again.                      *)
Registered(id) ==
    id[2] < run[id[1]].n \/ (id[2] = run[id[1]].n /\ run[id[1]].at # "ask")

Dropping == {<<answer[c].id, answer[c].yes>> : c \in {d \in Clients : answer[d].at = "drop"}}
Accepting == accepted \cup Dropping

RunRecords == [at : Stages, n : Nat, tool : Tools \cup {CHOOSE t \in Tools : TRUE}, got : BOOLEAN]
AnswerRecords ==
    [at : {"idle", "look", "deliver", "drop", "claim", "publish"}, id : Ids \cup {NoAnswer.id},
     user : Users \cup {NoAnswer.user}, yes : BOOLEAN, remember : BOOLEAN, here : BOOLEAN]

RelayTypes ==
    /\ run \in [Runs -> RunRecords] /\ slot \in [Ids -> Slots]
    /\ DOMAIN remembered = Runs /\ answer \in [Clients -> AnswerRecords]
    /\ local \subseteq Ids /\ record \subseteq Ids /\ given \subseteq Ids \X BOOLEAN \X BOOLEAN
    /\ DOMAIN channel = Runs

(* What may be on a channel: answers of owners that were accepted, to      *)
(* requests whose record was claimed.                                      *)
Claimed ==
    {m \in given : <<m[1], m[2]>> \in accepted /\ m[1] \notin record /\ Registered(m[1])}

ChannelOK == \A r \in Runs : channel[r] \in Seq(Claimed)

AnswerOK(c) ==
    LET a == answer[c] IN
    a.at # "idle" =>
        /\ a.id \in Ids /\ Registered(a.id)
        /\ a.user = Owner[a.id[1]] => <<a.id, a.yes, a.remember>> \in given
        /\ a.at \in {"drop", "publish"} => a.user = Owner[a.id[1]]
        /\ a.at = "publish" => a.id \notin record

SlotOK(id) ==
    /\ slot[id].decision => <<id, TRUE, slot[id].remember>> \in given
    /\ slot[id].event => <<id, slot[id].decision>> \in Accepting

(* A tool is remembered for an approval of an earlier call of it.          *)
Licensed(r, t) ==
    \E g \in given :
        g[2] /\ g[3] /\ g[1][1] = r /\ g[1][2] <= run[r].n /\ <<g[1], t>> \in asked

RunOK(r) ==
    /\ run[r].at \in {"ask", "wait", "woken"} =>
           Now(r) \in Ids /\ <<Now(r), run[r].tool>> \in asked
    /\ run[r].at = "woken" /\ run[r].got => slot[Now(r)].event
    /\ run[r].at = "done" => \A id \in local : id[1] # r
    /\ \A t \in remembered[r] : Licensed(r, t)

PendingOK ==
    fault # "seen" =>
        \A id \in record : id \in local \/ \E c \in Clients : answer[c].at = "drop" /\ answer[c].id = id

ClosedOK == \A x \in closed : x[3] => <<x[1], x[2]>> \in Accepting

RelayInv ==
    /\ RelayTypes /\ ChannelOK /\ (\A c \in Clients : AnswerOK(c)) /\ (\A id \in Ids : SlotOK(id))
    /\ (\A r \in Runs : RunOK(r)) /\ (\A id \in shown : id \in Ids /\ Registered(id))
    /\ PendingOK /\ ClosedOK /\ CalledWithApproval

-----------------------------------------------------------------------------
(* What every step keeps of the relay's past.                              *)
Grows ==
    /\ given \subseteq given' /\ accepted \subseteq accepted' /\ asked \subseteq asked'
    /\ Accepting \subseteq Accepting'
    /\ \A id \in Ids : Registered(id) => Registered(id)' /\ (id \in record' => id \in record)
    /\ \A r \in Runs : run[r].n \in Nat /\ run'[r].n \in Nat /\ run[r].n <= run'[r].n

LEMMA IdsOfRuns == \A id \in Ids : id[1] \in Runs /\ id[2] \in Nat /\ id = <<id[1], id[2]>>
BY ConsentAssumption DEF Ids

LEMMA SeqOfMore ==
    ASSUME NEW S, NEW T, S \subseteq T, NEW s \in Seq(S)
    PROVE  s \in Seq(T)
OBVIOUS

LEMMA ChannelStays ==
    ASSUME RelayInv, Grows, NEW r \in Runs, channel'[r] = channel[r]
    PROVE  channel'[r] \in Seq(Claimed')
<1>1. Claimed \subseteq Claimed'
    BY DEF RelayInv, RelayTypes, Claimed, Grows
<1>2. channel[r] \in Seq(Claimed)
    BY DEF RelayInv, ChannelOK
<1>3. QED
    BY <1>1, <1>2, SeqOfMore

LEMMA AnswerStays ==
    ASSUME RelayInv, Grows, NEW c \in Clients, answer'[c] = answer[c]
    PROVE  AnswerOK(c)'
BY DEF RelayInv, AnswerOK, Grows

LEMMA SlotStays ==
    ASSUME RelayInv, Grows, NEW id \in Ids, slot'[id].event = slot[id].event,
           slot'[id].decision = slot[id].decision, slot'[id].remember = slot[id].remember
    PROVE  SlotOK(id)'
BY DEF RelayInv, SlotOK, Grows

LEMMA LicenseStays ==
    ASSUME Grows, NEW r \in Runs, NEW t, Licensed(r, t), given \subseteq Ids \X BOOLEAN \X BOOLEAN
    PROVE  Licensed(r, t)'
<1>1. PICK g \in given :
          g[2] /\ g[3] /\ g[1][1] = r /\ g[1][2] <= run[r].n /\ <<g[1], t>> \in asked
    BY DEF Licensed
<1>2. g \in given' /\ <<g[1], t>> \in asked' /\ g[1][2] <= run'[r].n
    BY <1>1, IdsOfRuns DEF Grows
<1>3. QED
    BY <1>1, <1>2 DEF Licensed

LEMMA RunStays ==
    ASSUME RelayInv, Grows, NEW r \in Runs, run'[r] = run[r], remembered'[r] = remembered[r],
           \A id \in local' : id[1] = r => id \in local,
           Now(r) \in Ids => (slot[Now(r)].event => slot'[Now(r)].event)
    PROVE  RunOK(r)'
<1>1. Now(r)' = Now(r) /\ RunOK(r)
    BY DEF Now, RelayInv
<1>2. \A t \in remembered'[r] : Licensed(r, t)'
    BY <1>1, LicenseStays DEF RunOK, RelayInv, RelayTypes
<1>3. QED
    BY <1>1, <1>2 DEF RunOK, Grows

LEMMA CallsStay ==
    ASSUME RelayInv, Grows, made' = made
    PROVE  CalledWithApproval'
BY DEF RelayInv, CalledWithApproval, Approval, Grows

LEMMA ClosedStays ==
    ASSUME RelayInv, Grows, closed' = closed
    PROVE  ClosedOK'
BY DEF RelayInv, ClosedOK, Grows

LEMMA ShownStays ==
    ASSUME RelayInv, Grows, shown' = shown
    PROVE  \A id \in shown' : id \in Ids /\ Registered(id)'
BY DEF RelayInv, Grows

(* Steps of clients and of listeners, which leave the runs alone.          *)
LEMMA GrowsBeside ==
    ASSUME RelayInv, run' = run, asked' = asked, given \subseteq given', accepted \subseteq accepted',
           record' \subseteq record, Accepting \subseteq Accepting'
    PROVE  Grows
BY DEF RelayInv, RelayTypes, RunRecords, Grows, Registered

LEMMA AcceptingGrows ==
    ASSUME accepted \subseteq accepted', NEW c \in Clients,
           answer[c].at = "drop" => <<answer[c].id, answer[c].yes>> \in accepted',
           \A d \in Clients : d # c => answer'[d] = answer[d]
    PROVE  Accepting \subseteq Accepting'
BY DEF Accepting, Dropping

LEMMA BesideKeepsRelay ==
    ASSUME RelayInv, Grows, UNCHANGED <<run, remembered, made, closed, shown>>, local' \subseteq local,
           \A id \in Ids : slot[id].event => slot'[id].event,
           RelayTypes', ChannelOK', \A c \in Clients : AnswerOK(c)',
           \A id \in Ids : SlotOK(id)', PendingOK'
    PROVE  RelayInv'
<1>1. \A r \in Runs : RunOK(r)'
    BY RunStays
<1>2. CalledWithApproval' /\ ClosedOK' /\ \A id \in shown' : id \in Ids /\ Registered(id)'
    BY CallsStay, ClosedStays, ShownStays
<1>3. QED
    BY <1>1, <1>2 DEF RelayInv

LEMMA PendingStays ==
    ASSUME RelayInv, record' \subseteq record, fault' = fault,
           \A id \in record' : id \in local =>
               id \in local' \/ \E c \in Clients : answer'[c].at = "drop" /\ answer'[c].id = id,
           \A c \in Clients : answer[c].at = "drop" /\ answer[c].id \in record' => answer'[c] = answer[c]
    PROVE  PendingOK'
<1>1. ASSUME fault # "seen", NEW id \in record', id \notin local'
      PROVE  \E c \in Clients : answer'[c].at = "drop" /\ answer'[c].id = id
    <2>1. CASE id \in local
        BY <1>1, <2>1
    <2>2. CASE id \notin local
        <3>1. PICK c \in Clients : answer[c].at = "drop" /\ answer[c].id = id
            BY <1>1, <2>2 DEF RelayInv, PendingOK
        <3>2. QED
            BY <3>1
    <2>3. QED
        BY <2>1, <2>2
<1>2. QED
    BY <1>1 DEF PendingOK

LEMMA Resolved ==
    ASSUME RelayInv, Grows, NEW i \in Ids, NEW yes \in BOOLEAN, NEW remember \in BOOLEAN,
           Resolve(i, yes, remember), <<i, yes, remember>> \in given', <<i, yes>> \in Accepting'
    PROVE  /\ slot' \in [Ids -> Slots] /\ \A id \in Ids : SlotOK(id)'
           /\ \A id \in Ids : slot[id].event => slot'[id].event
<1>1. CASE ~slot[i].waiting
    <2>1. slot' = slot
        BY <1>1 DEF Resolve
    <2>2. QED
        BY <2>1, SlotStays DEF RelayInv, RelayTypes
<1>2. CASE slot[i].waiting
    <2>1. slot' = [slot EXCEPT ![i].event = TRUE, ![i].decision = yes, ![i].remember = remember]
        BY <1>2 DEF Resolve
    <2>2. /\ slot' \in [Ids -> Slots] /\ slot'[i].event = TRUE
          /\ slot'[i].decision = yes /\ slot'[i].remember = remember
          /\ \A id \in Ids : id # i => slot'[id] = slot[id]
        BY <2>1 DEF RelayInv, RelayTypes, Slots
    <2>3. SlotOK(i)'
        BY <2>2 DEF SlotOK
    <2>4. \A id \in Ids : id # i => SlotOK(id)'
        BY <2>2, SlotStays
    <2>5. QED
        BY <2>2, <2>3, <2>4
<1>3. QED
    BY <1>1, <1>2

LEMMA PostKeepsRelay ==
    ASSUME RelayInv, NEW c \in Clients, Post(c)
    PROVE  RelayInv'
<1>1. PICK id \in shown, user \in Users, yes, remember, here \in BOOLEAN :
          /\ remember => yes
          /\ answer' = [answer EXCEPT ![c] = [at |-> "look", id |-> id, user |-> user, yes |-> yes,
                                              remember |-> remember, here |-> here]]
          /\ given' = IF user = Owner[id[1]] THEN given \cup {<<id, yes, remember>>} ELSE given
    BY DEF Post
<1> DEFINE a == [at |-> "look", id |-> id, user |-> user, yes |-> yes, remember |-> remember, here |-> here]
<1>2. /\ UNCHANGED <<run, slot, remembered, local, record, channel, accepted, shown, fault, made, asked,
                     closed>>
      /\ answer[c].at = "idle"
    BY DEF Post, runVars, relayVars
<1>3. id \in Ids /\ Registered(id) /\ a \in AnswerRecords
    BY DEF RelayInv, AnswerRecords
<1>4. /\ given \subseteq given' /\ given' \subseteq Ids \X BOOLEAN \X BOOLEAN
      /\ user = Owner[id[1]] => <<id, yes, remember>> \in given'
    BY <1>1, <1>3 DEF RelayInv, RelayTypes
<1>5. /\ answer' \in [Clients -> AnswerRecords] /\ answer'[c] = a
      /\ \A d \in Clients : d # c => answer'[d] = answer[d]
    BY <1>1, <1>3 DEF RelayInv, RelayTypes
<1>6. Grows
    BY <1>2, <1>4, <1>5, AcceptingGrows, GrowsBeside
<1>7. Registered(id)'
    BY <1>3, <1>6 DEF Grows
<1>8. AnswerOK(c)'
    BY <1>3, <1>4, <1>5, <1>7 DEF AnswerOK
<1>9. \A d \in Clients : AnswerOK(d)'
    BY <1>5, <1>6, <1>8, AnswerStays
<1>10. RelayTypes'
    BY <1>2, <1>4, <1>5 DEF RelayInv, RelayTypes
<1>11. PendingOK'
    BY <1>2, <1>5, PendingStays
<1>12. ChannelOK' /\ \A i \in Ids : SlotOK(i)'
    BY <1>2, <1>6, ChannelStays, SlotStays DEF ChannelOK
<1>13. QED
    BY <1>2, <1>6, <1>9, <1>10, <1>11, <1>12, BesideKeepsRelay

(* The client's request goes on to another stage, or is over.              *)
LEMMA Moved ==
    ASSUME RelayInv, NEW c \in Clients,
           NEW stage \in {"idle", "look", "deliver", "drop", "claim", "publish"},
           Step(c, stage) \/ (answer' = [answer EXCEPT ![c] = NoAnswer] /\ stage = "idle")
    PROVE  /\ answer' \in [Clients -> AnswerRecords] /\ answer'[c].at = stage
           /\ \A d \in Clients : d # c => answer'[d] = answer[d]
           /\ Step(c, stage) => answer'[c].id = answer[c].id /\ answer'[c].user = answer[c].user
                  /\ answer'[c].yes = answer[c].yes /\ answer'[c].remember = answer[c].remember
<1>1. answer[c] \in AnswerRecords
    BY DEF RelayInv, RelayTypes
<1>2. CASE Step(c, stage)
    BY <1>1, <1>2 DEF Step, AnswerRecords, RelayInv, RelayTypes
<1>3. CASE answer' = [answer EXCEPT ![c] = NoAnswer] /\ stage = "idle" /\ ~Step(c, stage)
    <2>1. NoAnswer \in AnswerRecords /\ NoAnswer.at = "idle"
        BY DEF NoAnswer, AnswerRecords
    <2> HIDE DEF NoAnswer
    <2>2. QED
        BY <1>3, <2>1 DEF RelayInv, RelayTypes
<1>4. QED
    BY <1>2, <1>3

LEMMA MovedIsOK ==
    ASSUME RelayInv, Grows, NEW c \in Clients,
           NEW stage \in {"idle", "look", "deliver", "drop", "claim", "publish"},
           Step(c, stage) \/ (answer' = [answer EXCEPT ![c] = NoAnswer] /\ stage = "idle"),
           Step(c, stage) => answer[c].at # "idle",
           stage \in {"drop", "publish"} => answer[c].user = Owner[answer[c].id[1]],
           stage = "publish" => answer[c].id \notin record'
    PROVE  \A d \in Clients : AnswerOK(d)'
<1>1. AnswerOK(c)'
    BY Moved DEF RelayInv, AnswerOK, Grows
<1>2. QED
    BY <1>1, Moved, AnswerStays

LEMMA LookKeepsRelay ==
    ASSUME RelayInv, NEW c \in Clients, Look(c)
    PROVE  RelayInv'
<1>1. PICK stage \in {"deliver", "claim"} : Step(c, stage)
    BY DEF Look
<1>2. /\ UNCHANGED <<run, slot, remembered, local, record, channel, given, accepted, shown, fault, made,
                     asked, closed>>
      /\ answer[c].at = "look"
    BY DEF Look, Unmoved
<1>3. /\ answer' \in [Clients -> AnswerRecords] /\ \A d \in Clients : d # c => answer'[d] = answer[d]
    BY <1>1, Moved
<1>4. Grows
    BY <1>2, <1>3, AcceptingGrows, GrowsBeside
<1>5. \A d \in Clients : AnswerOK(d)'
    BY <1>1, <1>2, <1>4, MovedIsOK
<1>6. RelayTypes'
    BY <1>2, <1>3 DEF RelayInv, RelayTypes
<1>7. PendingOK'
    BY <1>2, <1>3, PendingStays
<1>8. ChannelOK' /\ \A i \in Ids : SlotOK(i)'
    BY <1>2, <1>4, ChannelStays, SlotStays DEF ChannelOK
<1>9. QED
    BY <1>2, <1>4, <1>5, <1>6, <1>7, <1>8, BesideKeepsRelay

LEMMA RefusedKeepsRelay ==
    ASSUME RelayInv, NEW c \in Clients, Refused(c), Unmoved, answer[c].at # "drop",
           fault' \in {fault, "seen"}
    PROVE  RelayInv'
<1>1. /\ UNCHANGED <<run, slot, remembered, local, record, channel, given, accepted, shown, made, asked,
                     closed>>
      /\ answer' = [answer EXCEPT ![c] = NoAnswer]
    BY DEF Refused, Unmoved
<1>2. /\ answer' \in [Clients -> AnswerRecords] /\ \A d \in Clients : d # c => answer'[d] = answer[d]
    BY <1>1, Moved
<1>3. Grows
    BY <1>1, <1>2, AcceptingGrows, GrowsBeside
<1>4. \A d \in Clients : AnswerOK(d)'
    <2>1. answer'[c].at = "idle"
        BY <1>1, Moved
    <2>2. AnswerOK(c)'
        BY <2>1 DEF AnswerOK
    <2>3. QED
        BY <1>2, <1>3, <2>2, AnswerStays
<1>5. RelayTypes'
    BY <1>1, <1>2 DEF RelayInv, RelayTypes
<1>6. PendingOK'
    <2>1. CASE fault' = fault
        BY <1>1, <1>2, <2>1, PendingStays
    <2>2. CASE fault' = "seen"
        BY <2>2 DEF PendingOK
    <2>3. QED
        BY <2>1, <2>2
<1>7. ChannelOK' /\ \A i \in Ids : SlotOK(i)'
    BY <1>1, <1>3, ChannelStays, SlotStays DEF ChannelOK
<1>8. QED
    BY <1>1, <1>3, <1>4, <1>5, <1>6, <1>7, BesideKeepsRelay

LEMMA DeliverKeepsRelay ==
    ASSUME RelayInv, NEW c \in Clients, Deliver(c)
    PROVE  RelayInv'
<1>1. CASE Refused(c)
    BY <1>1, RefusedKeepsRelay DEF Deliver
<1>2. CASE ~Refused(c)
    <2> DEFINE i == answer[c].id
               yes == answer[c].yes
               remember == answer[c].remember
    <2>1. /\ answer[c].at = "deliver" /\ i \in local /\ answer[c].user = Owner[i[1]]
          /\ local' = local \ {i} /\ Resolve(i, yes, remember) /\ Step(c, "drop")
          /\ UNCHANGED <<run, remembered, record, channel, given, accepted, shown, fault, made, asked,
                         closed>>
        BY <1>2 DEF Deliver, Unmoved
    <2>2. /\ answer' \in [Clients -> AnswerRecords] /\ \A d \in Clients : d # c => answer'[d] = answer[d]
          /\ answer'[c].at = "drop" /\ answer'[c].id = i /\ answer'[c].yes = yes
        BY <2>1, Moved
    <2>3. i \in Ids /\ yes \in BOOLEAN /\ remember \in BOOLEAN /\ <<i, yes, remember>> \in given'
        BY <2>1 DEF RelayInv, RelayTypes, AnswerRecords, AnswerOK
    <2>4. Grows
        BY <2>1, <2>2, AcceptingGrows, GrowsBeside
    <2>5. <<i, yes>> \in Accepting'
        BY <2>2 DEF Accepting, Dropping
    <2> HIDE DEF i, yes, remember
    <2>6. /\ slot' \in [Ids -> Slots] /\ \A id \in Ids : SlotOK(id)'
          /\ \A id \in Ids : slot[id].event => slot'[id].event
        BY <2>1, <2>3, <2>4, <2>5, Resolved
    <2>7. \A d \in Clients : AnswerOK(d)'
        BY <2>1, <2>4, MovedIsOK DEF i
    <2>8. RelayTypes'
        BY <2>1, <2>2, <2>6 DEF RelayInv, RelayTypes
    <2>9. PendingOK'
        BY <2>1, <2>2, PendingStays
    <2>10. ChannelOK'
        BY <2>1, <2>4, ChannelStays DEF ChannelOK
    <2>11. local' \subseteq local
        BY <2>1
    <2>12. QED
        BY <2>1, <2>4, <2>6, <2>7, <2>8, <2>9, <2>10, <2>11, BesideKeepsRelay
<1>3. QED
    BY <1>1, <1>2

LEMMA DropRecordKeepsRelay ==
    ASSUME RelayInv, NEW c \in Clients, DropRecord(c)
    PROVE  RelayInv'
<1>1. /\ UNCHANGED <<run, slot, remembered, local, channel, given, shown, made, asked, closed>>
      /\ answer[c].at = "drop" /\ answer' = [answer EXCEPT ![c] = NoAnswer]
      /\ accepted' = accepted \cup {<<answer[c].id, answer[c].yes>>}
      /\ \/ record' = record \ {answer[c].id} /\ fault' = fault
         \/ record' = record /\ fault' = "seen"
    BY DEF DropRecord, Unmoved, Accepted, Fault
<1>2. /\ answer' \in [Clients -> AnswerRecords] /\ \A d \in Clients : d # c => answer'[d] = answer[d]
      /\ answer'[c].at = "idle"
    BY <1>1, Moved
<1>3. Grows /\ record' \subseteq record
    BY <1>1, <1>2, AcceptingGrows, GrowsBeside
<1>4. \A d \in Clients : AnswerOK(d)'
    BY <1>2, <1>3, AnswerStays DEF AnswerOK
<1>5. RelayTypes'
    BY <1>1, <1>2, <1>3 DEF RelayInv, RelayTypes
<1>6. PendingOK'
    <2>1. CASE record' = record \ {answer[c].id} /\ fault' = fault
        BY <1>1, <1>2, <2>1, PendingStays
    <2>2. CASE fault' = "seen"
        BY <2>2 DEF PendingOK
    <2>3. QED
        BY <1>1, <2>1, <2>2
<1>7. ChannelOK' /\ \A i \in Ids : SlotOK(i)'
    BY <1>1, <1>3, ChannelStays, SlotStays DEF ChannelOK
<1>8. QED
    BY <1>1, <1>3, <1>4, <1>5, <1>6, <1>7, BesideKeepsRelay

LEMMA ClaimKeepsRelay ==
    ASSUME RelayInv, NEW c \in Clients, Claim(c)
    PROVE  RelayInv'
<1>1. CASE Refused(c)
    BY <1>1, RefusedKeepsRelay DEF Claim, Fault
<1>2. CASE ~Refused(c)
    <2>1. /\ answer[c].at = "claim" /\ answer[c].user = Owner[answer[c].id[1]]
          /\ record' = record \ {answer[c].id} /\ Step(c, "publish")
          /\ UNCHANGED <<run, slot, remembered, local, channel, given, accepted, shown, fault, made,
                         asked, closed>>
        BY <1>2 DEF Claim, Unmoved
    <2>2. /\ answer' \in [Clients -> AnswerRecords] /\ \A d \in Clients : d # c => answer'[d] = answer[d]
        BY <2>1, Moved
    <2>3. Grows
        BY <2>1, <2>2, AcceptingGrows, GrowsBeside
    <2>4. \A d \in Clients : AnswerOK(d)'
        BY <2>1, <2>3, MovedIsOK
    <2>5. RelayTypes'
        BY <2>1, <2>2 DEF RelayInv, RelayTypes
    <2>6. PendingOK'
        BY <2>1, <2>2, PendingStays
    <2>7. ChannelOK' /\ \A i \in Ids : SlotOK(i)'
        BY <2>1, <2>3, ChannelStays, SlotStays DEF ChannelOK
    <2>8. QED
        BY <2>1, <2>3, <2>4, <2>5, <2>6, <2>7, BesideKeepsRelay
<1>3. QED
    BY <1>1, <1>2

LEMMA PublishKeepsRelay ==
    ASSUME RelayInv, NEW c \in Clients, Publish(c)
    PROVE  RelayInv'
<1>1. CASE Refused(c)
    BY <1>1, RefusedKeepsRelay DEF Publish, Fault
<1>2. CASE ~Refused(c)
    <2>1. answer[c].at = "publish"
        BY DEF Publish
    <2>2. PICK i \in Ids, r \in Runs, m \in given :
              /\ i = answer[c].id /\ r = i[1] /\ m = <<i, answer[c].yes, answer[c].remember>>
              /\ Registered(i) /\ i \notin record
        BY <2>1, IdsOfRuns DEF RelayInv, AnswerOK
    <2>3. /\ channel' = [channel EXCEPT ![r] = Append(@, m)]
          /\ answer' = [answer EXCEPT ![c] = NoAnswer]
          /\ accepted' = accepted \cup {<<i, answer[c].yes>>}
          /\ UNCHANGED <<run, slot, remembered, local, record, given, shown, fault, made, asked, closed>>
        BY <1>2, <2>2 DEF Publish, Unmoved, Accepted
    <2>4. /\ answer' \in [Clients -> AnswerRecords] /\ \A d \in Clients : d # c => answer'[d] = answer[d]
          /\ answer'[c].at = "idle"
        BY <2>3, Moved
    <2>5. Grows
        BY <2>1, <2>3, <2>4, AcceptingGrows, GrowsBeside
    <2>6. m \in Claimed'
        <3>1. Registered(i)'
            BY <2>5, <2>2 DEF Grows
        <3>2. m[1] = i /\ <<m[1], m[2]>> \in accepted'
            BY <2>3, <2>2
        <3>3. QED
            BY <2>3, <2>2, <3>1, <3>2 DEF Claimed
    <2>7. ChannelOK' /\ DOMAIN channel' = Runs
        <3>1. channel[r] \in Seq(Claimed')
            <4>1. Claimed \subseteq Claimed'
                BY <2>5 DEF RelayInv, RelayTypes, Claimed, Grows
            <4>2. QED
                BY <2>6, <4>1, SeqOfMore DEF RelayInv, ChannelOK
        <3>2. Append(channel[r], m) \in Seq(Claimed')
            BY <2>6, <3>1, AppendProperties
        <3>3. /\ channel'[r] = Append(channel[r], m) /\ DOMAIN channel' = Runs
              /\ \A q \in Runs : q # r => channel'[q] = channel[q]
            BY <2>3, <2>6 DEF RelayInv, RelayTypes
        <3>4. QED
            BY <2>5, <3>2, <3>3, ChannelStays DEF ChannelOK
    <2>8. \A d \in Clients : AnswerOK(d)'
        BY <2>4, <2>5, AnswerStays DEF AnswerOK
    <2>9. RelayTypes'
        BY <2>3, <2>4, <2>7 DEF RelayInv, RelayTypes
    <2>10. PendingOK'
        BY <2>1, <2>3, <2>4, PendingStays
    <2>11. \A id \in Ids : SlotOK(id)'
        BY <2>3, <2>5, SlotStays
    <2>12. QED
        BY <2>3, <2>5, <2>7, <2>8, <2>9, <2>10, <2>11, BesideKeepsRelay
<1>3. QED
    BY <1>1, <1>2

LEMMA LookRound ==
    ASSUME RelayInv, UNCHANGED <<runVars, answer, given, accepted, made, asked, closed, shown, local>>,
           record' \subseteq record, fault' \in {fault, "seen"}, DOMAIN channel' = Runs,
           \A r \in Runs : channel'[r] \in {channel[r], <<>>}
    PROVE  RelayInv'
<1>1. UNCHANGED <<run, slot, remembered, answer, given, accepted, made, asked, closed, shown, local>>
    BY DEF runVars
<1>2. Grows
    BY <1>1, GrowsBeside DEF Accepting, Dropping
<1>3. RelayTypes'
    BY <1>1 DEF RelayInv, RelayTypes
<1>4. ChannelOK'
    BY <1>2, ChannelStays, EmptySeq DEF ChannelOK
<1>5. (\A c \in Clients : AnswerOK(c)') /\ \A id \in Ids : SlotOK(id)'
    BY <1>1, <1>2, AnswerStays, SlotStays
<1>6. PendingOK'
    BY <1>1 DEF RelayInv, PendingOK
<1>7. QED
    BY <1>1, <1>2, <1>3, <1>4, <1>5, <1>6, BesideKeepsRelay

LEMMA HearKeepsRelay ==
    ASSUME RelayInv, NEW r \in Runs, Hear(r)
    PROVE  RelayInv'
<1>1. PICK m : m = Head(channel[r])
    OBVIOUS
<1>2. /\ channel' = [channel EXCEPT ![r] = Tail(@)] /\ channel[r] # <<>>
      /\ UNCHANGED <<run, remembered, record, answer, given, accepted, shown, fault, made, asked, closed>>
      /\ \/ m[1] \in local /\ local' = local \ {m[1]} /\ Resolve(m[1], m[2], m[3])
         \/ local' = local /\ slot' = slot
    BY <1>1 DEF Hear, clientVars
<1>3. m \in Claimed /\ Tail(channel[r]) \in Seq(Claimed)
    BY <1>1, <1>2, HeadTailProperties DEF RelayInv, ChannelOK
<1>4. Grows
    BY <1>2, GrowsBeside DEF Accepting, Dropping
<1>5. ChannelOK' /\ DOMAIN channel' = Runs
    <2>1. Claimed \subseteq Claimed'
        BY <1>4 DEF RelayInv, RelayTypes, Claimed, Grows
    <2>2. Tail(channel[r]) \in Seq(Claimed')
        BY <1>3, <2>1, SeqOfMore
    <2>3. /\ channel'[r] = Tail(channel[r]) /\ DOMAIN channel' = Runs
          /\ \A q \in Runs : q # r => channel'[q] = channel[q]
        BY <1>2 DEF RelayInv, RelayTypes
    <2>4. QED
        BY <1>4, <2>2, <2>3, ChannelStays DEF ChannelOK
<1>6. /\ slot' \in [Ids -> Slots] /\ \A id \in Ids : SlotOK(id)'
      /\ \A id \in Ids : slot[id].event => slot'[id].event
    <2>1. /\ m = <<m[1], m[2], m[3]>> /\ m[1] \in Ids /\ m[2] \in BOOLEAN /\ m[3] \in BOOLEAN
          /\ m \in given' /\ <<m[1], m[2]>> \in Accepting'
        BY <1>2, <1>3 DEF RelayInv, RelayTypes, Claimed, Accepting
    <2>2. CASE Resolve(m[1], m[2], m[3])
        BY <1>4, <2>1, <2>2, Resolved
    <2>3. CASE slot' = slot
        BY <1>4, <2>3, SlotStays DEF RelayInv, RelayTypes
    <2>4. QED
        BY <1>2, <2>2, <2>3
<1>7. \A d \in Clients : AnswerOK(d)'
    BY <1>2, <1>4, AnswerStays
<1>8. local' \subseteq local /\ RelayTypes'
    BY <1>2, <1>5, <1>6 DEF RelayInv, RelayTypes
<1>9. PendingOK'
    BY <1>2, <1>3, PendingStays DEF Claimed
<1>10. QED
    BY <1>2, <1>4, <1>5, <1>6, <1>7, <1>8, <1>9, BesideKeepsRelay

LEMMA ListenerKeepsRelay ==
    ASSUME RelayInv, NEW r \in Runs, ListenerStep(r)
    PROVE  RelayInv'
<1>1. CASE Listen(r) \/ StopListening(r)
    <2>1. /\ UNCHANGED <<runVars, answer, given, accepted, made, asked, closed, shown, local, record>>
          /\ fault' \in {fault, "seen"}
          /\ channel' = channel \/ channel' = [channel EXCEPT ![r] = <<>>]
        BY <1>1 DEF Listen, StopListening, Fault, clientVars
    <2>2. DOMAIN channel' = Runs /\ \A q \in Runs : channel'[q] \in {channel[q], <<>>}
        BY <2>1 DEF RelayInv, RelayTypes
    <2>3. QED
        BY <2>1, <2>2, LookRound
<1>2. QED
    BY <1>1, HearKeepsRelay DEF ListenerStep

LEMMA OthersKeepRelay ==
    ASSUME RelayInv,
           (\E id \in Ids : Expire(id)) \/ (\E r \in Runs : HangUp(r)) \/ UNCHANGED consentVars
    PROVE  RelayInv'
<1>1. /\ UNCHANGED <<runVars, answer, given, accepted, made, asked, closed, shown, local, channel>>
      /\ record' \subseteq record /\ fault' \in {fault, "seen"}
    BY DEF Expire, HangUp, consentVars, relayVars, clientVars
<1>2. DOMAIN channel' = Runs /\ \A q \in Runs : channel'[q] \in {channel[q], <<>>}
    BY <1>1 DEF RelayInv, RelayTypes
<1>3. QED
    BY <1>1, <1>2, LookRound

(* Steps of a run's thread.                                                *)
LEMMA RunGrows ==
    ASSUME RelayInv, NEW r \in Runs, UNCHANGED <<answer, given, accepted, channel>>,
           asked \subseteq asked', run' \in [Runs -> RunRecords],
           \A q \in Runs : q # r => run'[q] = run[q],
           \/ run'[r].n = run[r].n /\ run'[r].at # "ask"
           \/ run'[r].n = run[r].n + 1,
           record' \subseteq record \/ (run[r].at = "ask" /\ record' \subseteq record \cup {Now(r)})
    PROVE  Grows /\ ChannelOK' /\ (\A c \in Clients : AnswerOK(c)')
<1>1. \A q \in Runs : run[q].n \in Nat /\ run'[q].n \in Nat /\ run[q].n <= run'[q].n
    BY DEF RelayInv, RelayTypes, RunRecords
<1>2. \A id \in Ids : Registered(id) => Registered(id)'
    BY <1>1, IdsOfRuns DEF Registered
<1>3. \A id \in Ids : Registered(id) => (id \in record' => id \in record)
    BY <1>1, IdsOfRuns DEF Registered, Now
<1>4. Grows
    BY <1>1, <1>2, <1>3 DEF Grows, Accepting, Dropping
<1>5. QED
    BY <1>4, ChannelStays, AnswerStays DEF ChannelOK

LEMMA RunKeepsRelay ==
    ASSUME RelayInv, NEW r \in Runs, UNCHANGED <<answer, given, accepted, channel>>,
           asked \subseteq asked', run' \in [Runs -> RunRecords],
           \A q \in Runs : q # r => run'[q] = run[q] /\ remembered'[q] = remembered[q],
           \/ run'[r].n = run[r].n /\ run'[r].at # "ask"
           \/ run'[r].n = run[r].n + 1,
           record' \subseteq record \/ (run[r].at = "ask" /\ record' \subseteq record \cup {Now(r)}),
           \A id \in local' : id[1] # r => id \in local,
           \A id \in Ids : id[1] # r => slot'[id] = slot[id],
           RelayTypes', Grows => RunOK(r)', Grows => \A id \in Ids : SlotOK(id)',
           Grows => \A id \in shown' : id \in Ids /\ Registered(id)',
           PendingOK', Grows => ClosedOK', Grows => CalledWithApproval'
    PROVE  RelayInv'
<1>1. Grows /\ ChannelOK' /\ (\A c \in Clients : AnswerOK(c)')
    BY RunGrows
<1>2. \A q \in Runs : RunOK(q)'
    <2>1. ASSUME NEW q \in Runs, q # r PROVE RunOK(q)'
        <3>1. \A id \in local' : id[1] = q => id \in local
            BY <2>1
        <3>2. Now(q) \in Ids => slot'[Now(q)] = slot[Now(q)]
            BY <2>1 DEF Now
        <3>3. QED
            BY <1>1, <2>1, <3>1, <3>2, RunStays
    <2>2. QED
        BY <1>1, <2>1
<1>3. QED
    BY <1>1, <1>2 DEF RelayInv

(* The thread only goes on; its requests and what it may call are as they  *)
(* were.                                                                   *)
LEMMA GoesOn ==
    ASSUME RelayInv, NEW r \in Runs,
           Answered(r) \/ NextEvent(r) \/ Wake(r) \/ TimeOut(r)
    PROVE  RelayInv'
<1>1. /\ UNCHANGED <<slot, remembered, local, record, channel, answer, given, accepted, shown, fault,
                     made, asked, closed>>
      /\ \/ \E stage \in {"close", "model"} : run' = [run EXCEPT ![r].at = stage]
         \/ /\ run[r].at = "wait"
            /\ \/ slot[Now(r)].event /\ run' = [run EXCEPT ![r].at = "woken", ![r].got = TRUE]
               \/ run' = [run EXCEPT ![r].at = "woken", ![r].got = FALSE]
    BY DEF Answered, NextEvent, Wake, TimeOut, To, Now, relayVars, clientVars
<1>2. /\ run' \in [Runs -> RunRecords] /\ \A q \in Runs : q # r => run'[q] = run[q]
      /\ run'[r].n = run[r].n /\ run'[r].tool = run[r].tool
      /\ run'[r].at \in {"close", "model", "woken"}
      /\ run'[r].at = "woken" => run[r].at = "wait" /\ (run'[r].got => slot[Now(r)].event)
    BY <1>1 DEF RelayInv, RelayTypes, RunRecords, Stages
<1>3. RelayTypes'
    BY <1>1, <1>2 DEF RelayInv, RelayTypes
<1>4. ASSUME Grows PROVE RunOK(r)'
    <2>1. Now(r)' = Now(r) /\ RunOK(r)
        BY <1>2 DEF Now, RelayInv
    <2>2. \A t \in remembered'[r] : Licensed(r, t)'
        BY <1>1, <1>4, <2>1, LicenseStays DEF RunOK, RelayInv, RelayTypes
    <2>3. QED
        BY <1>1, <1>2, <2>1, <2>2 DEF RunOK
<1>5. PendingOK'
    BY <1>1 DEF RelayInv, PendingOK
<1>6. ASSUME Grows PROVE \A id \in Ids : SlotOK(id)'
    BY <1>1, <1>6, SlotStays
<1>7. QED
    BY <1>1, <1>2, <1>3, <1>4, <1>5, <1>6, RunKeepsRelay, ShownStays, ClosedStays, CallsStay

LEMMA CallToolKeepsRelay ==
    ASSUME RelayInv, NEW r \in Runs, NEW t \in Tools, CallTool(r, t)
    PROVE  RelayInv'
<1> DEFINE n == run[r].n + 1
<1>1. /\ run[r].at = "model" /\ run[r].n \in Nat /\ <<r, n>> \in Ids
      /\ UNCHANGED <<remembered, local, record, channel, answer, given, accepted, shown, fault, closed>>
    BY ConsentAssumption DEF CallTool, RelayInv, RelayTypes, RunRecords, Ids, relayVars, clientVars
<1>2. PICK k \in Nat : k = n
    BY <1>1
<1>3. /\ run' = [run EXCEPT ![r] = [at |-> IF t \in remembered[r] THEN "event" ELSE "ask",
                                    n |-> k, tool |-> t, got |-> FALSE]]
      /\ IF t \in remembered[r]
         THEN made' = made \cup {<<<<r, k>>, t>>} /\ UNCHANGED <<slot, asked>>
         ELSE /\ slot' = [slot EXCEPT ![<<r, k>>].waiting = TRUE]
              /\ asked' = asked \cup {<<<<r, k>>, t>>} /\ UNCHANGED made
    BY <1>2 DEF CallTool
<1>4. /\ run' \in [Runs -> RunRecords] /\ (\A q \in Runs : q # r => run'[q] = run[q])
      /\ run'[r].n = k /\ run'[r].tool = t /\ run'[r].got = FALSE
      /\ run'[r].at = (IF t \in remembered[r] THEN "event" ELSE "ask")
    BY <1>3 DEF RelayInv, RelayTypes, RunRecords, Stages
<1>5. /\ slot' \in [Ids -> Slots] /\ \A id \in Ids : id[1] # r => slot'[id] = slot[id]
      /\ \A id \in Ids : /\ slot'[id].event = slot[id].event /\ slot'[id].decision = slot[id].decision
                         /\ slot'[id].remember = slot[id].remember
    <2>1. CASE slot' = slot
        BY <2>1 DEF RelayInv, RelayTypes
    <2>2. CASE slot' = [slot EXCEPT ![<<r, k>>].waiting = TRUE]
        <3>1. PICK i \in Ids : i = <<r, k>> /\ i[1] = r
            BY <1>1, <1>2
        <3>2. slot[i] \in Slots /\ slot' = [slot EXCEPT ![i].waiting = TRUE]
            BY <2>2, <3>1 DEF RelayInv, RelayTypes
        <3>3. /\ [slot[i] EXCEPT !.waiting = TRUE] \in Slots
              /\ [slot[i] EXCEPT !.waiting = TRUE].event = slot[i].event
              /\ [slot[i] EXCEPT !.waiting = TRUE].decision = slot[i].decision
              /\ [slot[i] EXCEPT !.waiting = TRUE].remember = slot[i].remember
            BY <3>2 DEF Slots
        <3>4. /\ slot'[i] = [slot[i] EXCEPT !.waiting = TRUE] /\ DOMAIN slot' = Ids
              /\ \A id \in Ids : id # i => slot'[id] = slot[id]
            BY <3>2 DEF RelayInv, RelayTypes
        <3>5. slot' \in [Ids -> Slots]
            BY <3>2, <3>3, <3>4 DEF RelayInv, RelayTypes
        <3>6. QED
            BY <3>1, <3>3, <3>4, <3>5
    <2>3. QED
        BY <1>3, <2>1, <2>2
<1>6. RelayTypes'
    BY <1>1, <1>4, <1>5 DEF RelayInv, RelayTypes
<1>7. asked \subseteq asked'
    BY <1>3
<1>8. ASSUME Grows PROVE RunOK(r)'
    <2>1. Now(r)' = <<r, k>> /\ RunOK(r)
        BY <1>4 DEF Now, RelayInv
    <2>2. \A u \in remembered'[r] : Licensed(r, u)'
        BY <1>1, <1>8, <2>1, LicenseStays DEF RunOK, RelayInv, RelayTypes
    <2>3. QED
        BY <1>1, <1>2, <1>3, <1>4, <2>1, <2>2 DEF RunOK
<1>9. ASSUME Grows PROVE CalledWithApproval'
    <2>1. CASE t \notin remembered[r]
        BY <1>3, <1>9, <2>1, CallsStay
    <2>2. CASE t \in remembered[r]
        <3>1. PICK g \in given :
                  g[2] /\ g[3] /\ g[1][1] = r /\ g[1][2] <= run[r].n /\ <<g[1], t>> \in asked
            BY <2>2 DEF RelayInv, RunOK, Licensed
        <3>2. g[1][2] < k
            BY <1>1, <1>2, <3>1, IdsOfRuns DEF RelayInv, RelayTypes
        <3>3. Approval(<<<<r, k>>, t>>)'
            BY <1>1, <1>7, <3>1, <3>2 DEF Approval
        <3>4. \A m \in made : Approval(m)'
            BY <1>1, <1>7 DEF RelayInv, CalledWithApproval, Approval
        <3>5. QED
            BY <1>3, <2>2, <3>3, <3>4 DEF CalledWithApproval
    <2>3. QED
        BY <2>1, <2>2
<1>10. PendingOK'
    BY <1>1 DEF RelayInv, PendingOK
<1>11. ASSUME Grows PROVE \A id \in Ids : SlotOK(id)'
    BY <1>5, <1>11, SlotStays
<1>12. QED
    BY <1>1, <1>2, <1>4, <1>5, <1>6, <1>7, <1>8, <1>9, <1>10, <1>11, RunKeepsRelay, ShownStays, ClosedStays

LEMMA RegisterKeepsRelay ==
    ASSUME RelayInv, NEW r \in Runs, Register(r)
    PROVE  RelayInv'
<1>1. PICK i \in Ids : i = Now(r)
    BY DEF Register, RelayInv, RunOK
<1>2. /\ run[r].at = "ask" /\ run' = [run EXCEPT ![r].at = "wait"] /\ local' = local \cup {i}
      /\ UNCHANGED <<slot, remembered, channel, answer, given, accepted, made, asked, closed>>
      /\ \/ record' = record \cup {i} /\ fault' = fault
         \/ record' = record /\ fault' = "seen"
      /\ shown' \in {shown, shown \cup {i}}
    BY <1>1 DEF Register, Now, To, Fault, clientVars
<1>3. /\ run' \in [Runs -> RunRecords] /\ \A q \in Runs : q # r => run'[q] = run[q]
      /\ run'[r].n = run[r].n /\ run'[r].tool = run[r].tool /\ run'[r].at = "wait"
    BY <1>2 DEF RelayInv, RelayTypes, RunRecords, Stages
<1>4. i = <<r, run[r].n>> /\ i[1] = r /\ i[2] = run'[r].n
    BY <1>1, <1>3 DEF Now
<1>5. RelayTypes'
    BY <1>2, <1>3 DEF RelayInv, RelayTypes
<1>6. ASSUME Grows PROVE RunOK(r)'
    <2>1. Now(r)' = Now(r) /\ RunOK(r)
        BY <1>3 DEF Now, RelayInv
    <2>2. \A t \in remembered'[r] : Licensed(r, t)'
        BY <1>2, <1>6, <2>1, LicenseStays DEF RunOK, RelayInv, RelayTypes
    <2>3. QED
        BY <1>2, <1>3, <2>1, <2>2 DEF RunOK
<1>7. ASSUME Grows PROVE \A id \in shown' : id \in Ids /\ Registered(id)'
    <2>1. Registered(i)'
        BY <1>3, <1>4 DEF Registered
    <2>2. QED
        BY <1>2, <1>7, <2>1 DEF RelayInv, Grows
<1>8. PendingOK'
    BY <1>2 DEF RelayInv, PendingOK
<1>9. ASSUME Grows PROVE \A id \in Ids : SlotOK(id)'
    BY <1>2, <1>9, SlotStays
<1>10. record' \subseteq record \cup {Now(r)} /\ \A id \in local' : id[1] # r => id \in local
    BY <1>1, <1>2, <1>4
<1>11. QED
    BY <1>2, <1>3, <1>5, <1>6, <1>7, <1>8, <1>9, <1>10, RunKeepsRelay, ClosedStays, CallsStay

LEMMA ReturnKeepsRelay ==
    ASSUME RelayInv, NEW r \in Runs, Return(r)
    PROVE  RelayInv'
<1>1. PICK i \in Ids, t \in {run[r].tool} : i = Now(r) /\ t = run[r].tool
    BY DEF Return, RelayInv, RunOK
<1>2. /\ run[r].at = "woken" /\ run' = [run EXCEPT ![r].at = "event"] /\ slot' = [slot EXCEPT ![i] = NoSlot]
      /\ remembered' = IF Approved(r) /\ slot[i].remember
                       THEN [remembered EXCEPT ![r] = @ \cup {t}] ELSE remembered
      /\ made' = IF Approved(r) THEN made \cup {<<i, t>>} ELSE made
      /\ closed' = closed \cup {<<i, Approved(r), run[r].got>>}
      /\ Approved(r) = (run[r].got /\ slot[i].decision)
      /\ UNCHANGED <<local, record, channel, answer, given, accepted, shown, fault, asked>>
    BY <1>1 DEF Return, Now, To, Approved, relayVars, clientVars
<1>3. /\ run' \in [Runs -> RunRecords] /\ \A q \in Runs : q # r => run'[q] = run[q]
      /\ run'[r].n = run[r].n /\ run'[r].tool = run[r].tool /\ run'[r].at = "event"
    BY <1>2 DEF RelayInv, RelayTypes, RunRecords, Stages
<1>4. /\ i = <<r, run[r].n>> /\ i[1] = r /\ <<i, t>> \in asked
      /\ run[r].got => slot[i].event
      /\ slot[i].decision => <<i, TRUE, slot[i].remember>> \in given
      /\ slot[i].event => <<i, slot[i].decision>> \in Accepting
      /\ run[r].n \in Nat /\ run[r].got \in BOOLEAN
      /\ slot[i].decision \in BOOLEAN /\ slot[i].remember \in BOOLEAN
    BY <1>1, <1>2 DEF Now, RelayInv, RunOK, SlotOK, RelayTypes, RunRecords, Slots
<1>5. /\ slot' \in [Ids -> Slots] /\ slot'[i] = NoSlot
      /\ \A id \in Ids : id # i => slot'[id] = slot[id]
    <2>1. NoSlot \in Slots
        BY DEF NoSlot, Slots
    <2>2. QED
        BY <1>2, <2>1 DEF RelayInv, RelayTypes
<1>6. /\ DOMAIN remembered' = Runs /\ \A q \in Runs : q # r => remembered'[q] = remembered[q]
      /\ remembered'[r] \subseteq remembered[r] \cup {t}
      /\ t \in remembered'[r] => t \in remembered[r] \/ (Approved(r) /\ slot[i].remember)
    BY <1>2 DEF RelayInv, RelayTypes
<1>7. RelayTypes'
    BY <1>2, <1>3, <1>5, <1>6 DEF RelayInv, RelayTypes
<1>8. ASSUME Grows PROVE RunOK(r)'
    <2>1. \A u \in remembered[r] : Licensed(r, u)'
        BY <1>8, LicenseStays DEF RelayInv, RunOK, RelayTypes
    <2>2. ASSUME Approved(r), slot[i].remember PROVE Licensed(r, t)'
        <3>1. PICK g \in given : g = <<i, TRUE, slot[i].remember>>
            BY <1>2, <1>4, <2>2
        <3>2. g[1] = i /\ g[2] /\ g[3]
            BY <2>2, <3>1
        <3>3. g \in given' /\ g[1][1] = r /\ g[1][2] <= run'[r].n /\ <<g[1], t>> \in asked'
            BY <1>2, <1>3, <1>4, <3>2
        <3>4. QED
            BY <3>2, <3>3 DEF Licensed
    <2>3. QED
        BY <1>3, <1>6, <2>1, <2>2 DEF RunOK
<1>9. ASSUME Grows PROVE \A id \in Ids : SlotOK(id)'
    <2>1. SlotOK(i)'
        BY <1>5 DEF SlotOK, NoSlot
    <2>2. QED
        BY <1>5, <1>9, <2>1, SlotStays
<1>10. ASSUME Grows PROVE ClosedOK'
    <2>1. run[r].got => <<i, Approved(r)>> \in Accepting
        <3>1. run[r].got => Approved(r) = slot[i].decision
            BY <1>2, <1>4
        <3>2. QED
            BY <1>4, <3>1
    <2>2. \A x \in closed' : x \in closed \/ x = <<i, Approved(r), run[r].got>>
        BY <1>2
    <2>3. QED
        BY <1>10, <2>1, <2>2 DEF RelayInv, ClosedOK, Grows
<1>11. ASSUME Grows PROVE CalledWithApproval'
    <2>1. \A m \in made : Approval(m)'
        BY <1>11 DEF RelayInv, CalledWithApproval, Approval, Grows
    <2>2. ASSUME Approved(r) PROVE Approval(<<i, t>>)'
        <3>1. PICK g \in given : g = <<i, TRUE, slot[i].remember>>
            BY <1>2, <1>4, <2>2
        <3>2. g[1] = i /\ g[2] /\ g \in given'
            BY <1>2, <3>1
        <3>3. QED
            BY <3>2 DEF Approval
    <2>3. QED
        BY <1>2, <2>1, <2>2 DEF CalledWithApproval
<1>12. PendingOK'
    BY <1>2 DEF RelayInv, PendingOK
<1>13. \A id \in Ids : id[1] # r => slot'[id] = slot[id]
    BY <1>4, <1>5
<1>14. QED
    BY <1>2, <1>3, <1>6, <1>7, <1>8, <1>9, <1>10, <1>11, <1>12, <1>13, RunKeepsRelay, ShownStays

LEMMA CloseKeepsRelay ==
    ASSUME RelayInv, NEW r \in Runs, Close(r)
    PROVE  RelayInv'
<1>1. /\ run' = [run EXCEPT ![r].at = "done"] /\ local' = local \ {id \in local : id[1] = r}
      /\ UNCHANGED <<slot, remembered, channel, answer, given, accepted, shown, made, asked, closed>>
      /\ \/ record' = record \ {id \in local : id[1] = r} /\ fault' = fault
         \/ record' = record /\ fault' = "seen"
    BY DEF Close, To, Fault, clientVars
<1>2. /\ run' \in [Runs -> RunRecords] /\ \A q \in Runs : q # r => run'[q] = run[q]
      /\ run'[r].n = run[r].n /\ run'[r].at = "done"
    BY <1>1 DEF RelayInv, RelayTypes, RunRecords, Stages
<1>3. local' \subseteq local /\ record' \subseteq record /\ \A id \in local' : id[1] # r
    BY <1>1
<1>4. RelayTypes'
    BY <1>1, <1>2, <1>3 DEF RelayInv, RelayTypes
<1>5. ASSUME Grows PROVE RunOK(r)'
    <2>1. \A t \in remembered'[r] : Licensed(r, t)'
        BY <1>1, <1>5, LicenseStays DEF RunOK, RelayInv, RelayTypes
    <2>2. QED
        BY <1>2, <1>3, <2>1 DEF RunOK
<1>6. PendingOK'
    BY <1>1 DEF RelayInv, PendingOK
<1>7. ASSUME Grows PROVE \A id \in Ids : SlotOK(id)'
    BY <1>1, <1>7, SlotStays
<1>8. QED
    BY <1>1, <1>2, <1>3, <1>4, <1>5, <1>6, <1>7, RunKeepsRelay, ShownStays, ClosedStays, CallsStay

LEMMA ConsentNextKeepsRelay ==
    ASSUME RelayInv, [ConsentNext]_consentVars
    PROVE  RelayInv'
<1>1. CASE \E r \in Runs : RunStep(r)
    <2>1. PICK r \in Runs : RunStep(r)
        BY <1>1
    <2>2. QED
        BY <2>1, GoesOn, CallToolKeepsRelay, RegisterKeepsRelay, ReturnKeepsRelay, CloseKeepsRelay DEF RunStep
<1>2. CASE \E c \in Clients : AnswerStep(c)
    <2>1. PICK c \in Clients : AnswerStep(c)
        BY <1>2
    <2>2. QED
        BY <2>1, PostKeepsRelay, LookKeepsRelay, DeliverKeepsRelay, DropRecordKeepsRelay, ClaimKeepsRelay,
           PublishKeepsRelay DEF AnswerStep
<1>3. QED
    BY <1>1, <1>2, ListenerKeepsRelay, OthersKeepRelay DEF ConsentNext

LEMMA InitHasRelay == ASSUME ConsentInit PROVE RelayInv
<1>1. PICK m \in Mixes :
          /\ run = [r \in Runs |-> [at |-> "model", n |-> m.calls, tool |-> CHOOSE t \in Tools : TRUE,
                                    got |-> FALSE]]
          /\ slot = [id \in Ids |-> NoSlot] /\ remembered = [r \in Runs |-> {}]
          /\ local = {} /\ record = {} /\ channel = [r \in Runs |-> <<>>]
          /\ shown = {} /\ answer = [c \in Clients |-> NoAnswer]
          /\ made = {} /\ given = {} /\ accepted = {} /\ closed = {}
    BY DEF ConsentInit
<1>2. m.calls \in Nat
    BY ConsentAssumption
<1>3. NoSlot \in Slots /\ NoSlot.event = FALSE /\ NoSlot.decision = FALSE
    BY DEF NoSlot, Slots
<1>4. NoAnswer \in AnswerRecords /\ NoAnswer.at = "idle"
    BY DEF NoAnswer, AnswerRecords
<1> HIDE DEF NoAnswer, NoSlot
<1>5. RelayTypes
    BY <1>1, <1>2, <1>3, <1>4 DEF RelayTypes, RunRecords, Stages
<1>6. ChannelOK
    BY <1>1, EmptySeq DEF ChannelOK
<1>7. (\A c \in Clients : AnswerOK(c)) /\ \A id \in Ids : SlotOK(id)
    BY <1>1, <1>3, <1>4 DEF AnswerOK, SlotOK
<1>8. \A r \in Runs : RunOK(r)
    BY <1>1 DEF RunOK
<1>9. QED
    BY <1>1, <1>5, <1>6, <1>7, <1>8 DEF RelayInv, PendingOK, ClosedOK, CalledWithApproval

LEMMA RelayMeans == RelayInv => CalledWithApproval /\ AcceptedCounts /\ NothingLeftBehind
<1>1. RelayInv => AcceptedCounts
    BY DEF RelayInv, ClosedOK, AcceptedCounts, Accepting, Dropping
<1>2. RelayInv => NothingLeftBehind
    BY DEF RelayInv, RunOK, PendingOK, NothingLeftBehind
<1>3. QED
    BY <1>1, <1>2 DEF RelayInv

(* Between the instances, a call is made only if the owner of the run      *)
(* approved it or approved an earlier call of that tool for good, what a   *)
(* call got in time is an answer that was accepted, and a run that is over *)
(* leaves no request behind (ConsentBroker.request, ConsentRelay.answer,   *)
(* _claim, _deliver, forget_run).                                          *)
THEOREM RelayCallsAreApproved ==
    ConsentSpec => [](CalledWithApproval /\ AcceptedCounts /\ NothingLeftBehind)
<1>1. ConsentInit => RelayInv
    BY InitHasRelay
<1>2. RelayInv /\ [ConsentNext]_consentVars => RelayInv'
    BY ConsentNextKeepsRelay
<1>3. QED
    BY <1>1, <1>2, RelayMeans, PTL DEF ConsentSpec

(* Both ways side by side: whichever moves, every call of an external tool *)
(* was approved.                                                           *)
THEOREM ApprovalsAreKept == ApprovalSpec => []ApprovalsHold
<1> DEFINE Inv == RelayInv /\ ApprovedInv
           vars == <<part, consentVars, chatVars>>
<1>1. ApprovalInit => Inv
    <2>1. ChatInit => ApprovedInv
        BY InitIsApproved
    <2>2. QED
        BY <2>1, InitHasRelay DEF ApprovalInit
<1>2. Inv /\ [ApprovalNext]_vars => Inv'
    <2> SUFFICES ASSUME Inv, [ApprovalNext]_vars PROVE Inv'
        OBVIOUS
    <2>1. [ConsentNext]_consentVars /\ [ChatNext]_chatVars
        BY DEF ApprovalNext, RelayPart, SocketPart
    <2>2. QED
        BY <2>1, ConsentNextKeepsRelay, NextIsApproved
<1>3. Inv => ApprovalsHold
    BY RelayMeans DEF ApprovedInv, ApprovalsHold
<1>4. QED
    BY <1>1, <1>2, <1>3, PTL DEF ApprovalSpec
=============================================================================
