----------------------------- MODULE MCExtraction -----------------------------
(***************************************************************************)
(* Instances of Extraction.  What can happen around a file's extraction is *)
(* split into mixes, each of which a behaviour keeps to.                   *)
(***************************************************************************)
EXTENDS Extraction

CONSTANTS t1, t2, c1, c2, j1, j2, w1

Calm == [threads |-> {t1, t2}, jobs |-> {}, calls |-> {}, converters |-> {},
         versions |-> 1, contents |-> {"text"}, converted |-> FALSE, erasures |-> FALSE,
         refusals |-> FALSE, expiries |-> FALSE, kills |-> 0, faults |-> 0]

(* Two requests while the file is erased; a request, then a job, while it  *)
(* is revised; a request while it is converted by others and erased.       *)
Requested == [Calm EXCEPT !.calls = {c1, c2}, !.erasures = TRUE]
Revised == [Calm EXCEPT !.calls = {c1}, !.versions = 2, !.converters = {w1},
                        !.contents = Contents]
Rewritten == [Calm EXCEPT !.jobs = {j1}, !.versions = 2]
Raced == [Calm EXCEPT !.calls = {c1}, !.converters = {w1}, !.erasures = TRUE,
                      !.contents = Contents]

(* Jobs that wait for each other or are refused, and threads that are      *)
(* killed, once and with Redis out of reach, or twice.                     *)
Busy == [Calm EXCEPT !.jobs = {j1, j2}, !.converted = TRUE]
Refused == [Calm EXCEPT !.jobs = {j1}, !.converted = TRUE, !.refusals = TRUE]
Killed == [Calm EXCEPT !.jobs = {j1}, !.converted = TRUE, !.expiries = TRUE,
                       !.kills = 1, !.faults = 1]
Jam == [Busy EXCEPT !.threads = {t1}, !.expiries = TRUE, !.kills = 2]

AllMixes == {Requested, Revised, Rewritten, Raced, Busy, Refused, Killed, Jam}

(* Besides, three runs over the same version.                              *)
OpenMixes == AllMixes \cup {[Calm EXCEPT !.calls = {c1, c2}, !.jobs = {j1}]}
=============================================================================
