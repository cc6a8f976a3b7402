---------------------------- MODULE MCConversion ----------------------------
(***************************************************************************)
(* The mixes of agents, contents and disturbances Conversion is checked    *)
(* with.  One behaviour keeps to one of them, so that each can go far in   *)
(* its own direction.                                                      *)
(***************************************************************************)
EXTENDS Conversion

CONSTANTS sweep, request    \* a sweep and a POST /convert

(* The event loop alone, with uploads of every kind.                       *)
Plain == [agents |-> {}, kinds |-> {"document", "image", "blob"},
          oversized |-> {}, versions |-> 2, deletes |-> 0, crashes |-> 0,
          faults |-> 0, flips |-> 0]

(* ... killed twice around deletes and restores,                           *)
Killed == [Plain EXCEPT !.crashes = 2, !.deletes = 1]

(* ... through an outage of the core,                                      *)
Outage == [Plain EXCEPT !.flips = 2]

(* ... with POST /convert requests at the same time,                       *)
Requested == [Plain EXCEPT !.agents = {request},
                           !.kinds = {"document", "dud", "blob"}]

(* ... with a sweep, a kill, a failure and a version too large for sweeps, *)
Swept == [Plain EXCEPT !.agents = {sweep}, !.kinds = {"note", "blob"},
                       !.oversized = {2}, !.crashes = 1, !.faults = 1]

(* ... with everybody at once over a single version, and a failure,         *)
Crowded == [Plain EXCEPT !.agents = {sweep, request}, !.kinds = {"document"},
                         !.versions = 1, !.faults = 1]

(* ... restarted during an outage,                                         *)
Restarted == [Plain EXCEPT !.versions = 1, !.crashes = 1, !.flips = 2]

(* ... and with a request over texts with and without chunks, one of them  *)
(* deleted and restored.                                                   *)
Deleted == [Plain EXCEPT !.agents = {request}, !.kinds = {"note", "dull"},
                         !.deletes = 1]

AllScopes == {Killed, Outage, Requested, Swept, Crowded, Restarted, Deleted}

(* For the liveness properties: a delete with an outage or a kill, but not *)
(* a restart during an outage, which loses the event (EventsSurviveOutage).*)
LiveScopes == {[Plain EXCEPT !.flips = 2, !.deletes = 1],
               [Plain EXCEPT !.crashes = 1, !.deletes = 1]}

(* A sweep after a delete that landed in the middle of a request.          *)
HealScopes == {[Plain EXCEPT !.agents = {sweep, request}, !.kinds = {"note"},
                             !.versions = 1, !.deletes = 1]}
=============================================================================
