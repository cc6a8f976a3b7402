-------------------------------- MODULE MCMedia --------------------------------
(***************************************************************************)
(* Instances of MediaWorker.  The bounds on requests, unpublishing, faults *)
(* and changes of the links are large enough for each to happen, but not   *)
(* everything happens in one behaviour: in a mix some of each bound is     *)
(* used up from the start.                                                 *)
(***************************************************************************)
EXTENDS MediaWorker

CONSTANT Mixes      \* what is used up of asked, dropped, faults and moves

(* Two requests and an unpublish; one request, a fault and a change of the *)
(* links; two requests and an erasure, nothing else.                       *)
Unpublished == {<<0, 0, 1, 1>>, <<1, 1, 0, 0>>}
Replaced == {<<0, 1, 1, 0>>, <<1, 0, 0, 0>>}

MixInit ==
    /\ Fresh /\ erasures = 0
    /\ \E m \in Mixes : asked = m[1] /\ dropped = m[2] /\ faults = m[3] /\ moves = m[4]

MixSpec == MixInit /\ [][Next]_vars
MixFairSpec == MixSpec /\ Fairness
=============================================================================
