-------------------------------- MODULE MCChat --------------------------------
(***************************************************************************)
(* The two ways a tool call is approved, one at a time: the chat's own     *)
(* socket, and the relay between the instances.  A behaviour is of one of  *)
(* them; the other rests.  Instances: two turns with a call each; one      *)
(* longer turn; two turns while the database is away and conversations are *)
(* deleted; two answers to one call of a run; one answer and two calls of  *)
(* two tools; one answer, one call and a fault of Redis.                   *)
(***************************************************************************)
EXTENDS Consent, ChatTurn, TLC

CONSTANTS r1, u1, c1, c2

VARIABLE part   \* which of them this behaviour is of (fixed)

Bounds(t, k, r, f, d) == [turns |-> t, tokens |-> k, rounds |-> r, flips |-> f, deletes |-> d]

AllChatMixes == {Bounds(2, 1, 1, 0, FALSE), Bounds(1, 2, 2, 0, FALSE), Bounds(2, 0, 0, 2, TRUE)}

Owners == r1 :> u1

Used(calls, first, second, redis) ==
    [calls |-> calls, posts |-> c1 :> first @@ c2 :> second, fault |-> redis]

AllMixes == {Used(1, 0, 0, "never"), Used(0, 0, 1, "never"), Used(1, 0, 1, "once")}

ApprovalInit ==
    /\ ConsentInit /\ ChatInit
    /\ \/ part = "relay" /\ mix = Bounds(2, 1, 1, 0, FALSE)
       \/ part = "socket" /\ fault = "once"

RelayPart == part = "relay" /\ ConsentNext /\ UNCHANGED <<part, chatVars>>
SocketPart == part = "socket" /\ ChatNext /\ UNCHANGED <<part, consentVars>>

ApprovalNext == RelayPart \/ SocketPart

(* The part that moves is scheduled as it is in Consent and in ChatTurn.   *)
ApprovalFairness ==
    /\ \A r \in Runs : WF_consentVars(part = "relay" /\ RunStep(r))
    /\ WF_chatVars(part = "socket" /\ Handler) /\ WF_chatVars(part = "socket" /\ Thread)
    /\ WF_chatVars(part = "socket" /\ gone /\ Hangs)
    /\ WF_chatVars(part = "socket" /\ ~gone /\ SitOut)

ApprovalSpec ==
    ApprovalInit /\ [][ApprovalNext]_<<part, consentVars, chatVars>> /\ ApprovalFairness

(* Every run of the relay ends, and every turn of the socket.              *)
RelayRunsEnd == part = "relay" => RunsEnd
EverybodyEnds == RelayRunsEnd /\ TurnsEnd

(* A call is made with an approval, an approval that was accepted counts,  *)
(* by the relay as over the socket, and a run that is over leaves no       *)
(* request behind.                                                         *)
ApprovalsHold == CalledWithApproval /\ AcceptedCounts /\ NothingLeftBehind /\ ToolsAreApproved
=============================================================================
