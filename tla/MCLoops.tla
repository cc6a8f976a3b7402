-------------------------------- MODULE MCLoops --------------------------------
(***************************************************************************)
(* The loops of the service that are never done: the ingest worker's, the  *)
(* chat's and the relay's, one at a time.  A behaviour is of one of them;  *)
(* the others rest in one initial state.                                   *)
(***************************************************************************)
EXTENDS MCChat, Ingest

LoopsInit ==
    /\ Init
    /\ \/ ApprovalInit /\ kind = [m \in Messages |-> "local"]
       \/ /\ part = "ingest" /\ ConsentInit /\ ChatInit
          /\ fault = "once" /\ mix = Bounds(2, 1, 1, 0, FALSE)

ChatPart == ApprovalNext /\ UNCHANGED vars
IngestPart == part = "ingest" /\ Next /\ UNCHANGED <<part, consentVars, chatVars>>

LoopsNext == ChatPart \/ IngestPart

LoopsFairness ==
    /\ ApprovalFairness
    /\ WF_vars(part = "ingest" /\ Loop) /\ WF_vars(part = "ingest" /\ readonly /\ Failover)

LoopsSpec ==
    LoopsInit /\ [][LoopsNext]_<<part, consentVars, chatVars, vars>> /\ LoopsFairness
=============================================================================
