------------------------------ MODULE MCHeadless ------------------------------
(***************************************************************************)
(* Four parts of extraction that do not touch each other's state, one  *)
(* at a time: a behaviour is one of a subject's counters, of a document    *)
(* being cut, of a document being asked or of the prompt sets, while the   *)
(* others rest in one initial state.                                       *)
(***************************************************************************)
EXTENDS UsageMeter, Windows, ExtractItem, PromptSets, TLC

CONSTANTS e1, e2, a1, a2, x1

(* Few requests at a time, of every kind of client: two editors, with a    *)
(* run and with an application; two applications; an editor and an         *)
(* application, with a run.                                                *)
Requests(e, f, a, b, r) ==
    e1 :> e @@ e2 :> f @@ a1 :> a @@ a2 :> b @@ x1 :> r

AllMixes == {Requests(2, 1, 0, 0, 0), Requests(1, 1, 0, 0, 1), Requests(1, 1, 1, 0, 0),
             Requests(0, 0, 2, 1, 0), Requests(0, 0, 0, 0, 0), Requests(2, 0, 1, 0, 0), Requests(1, 0, 1, 0, 1)}

VARIABLE turn   \* which part this behaviour is of (fixed)

HeadlessInit ==
    /\ turn \in {"meter", "windows", "item", "sets"}
    /\ Init /\ ItemInit
    /\ PromptInit /\ (turn # "sets" => left = Requests(0, 0, 0, 0, 0) /\ row = [s \in Sets |-> Absent])
    /\ WindowsInit /\ (turn # "windows" => size = 0 /\ length = 0)

MeterTurn == turn = "meter" /\ Next /\ UNCHANGED <<turn, windowVars, itemVars, promptVars>>
WindowsTurn == turn = "windows" /\ WindowsNext /\ UNCHANGED <<turn, vars, itemVars, promptVars>>
ItemTurn == turn = "item" /\ ItemNext /\ UNCHANGED <<turn, vars, windowVars, promptVars>>
SetsTurn == turn = "sets" /\ PromptNext /\ UNCHANGED <<turn, vars, windowVars, itemVars>>

HeadlessNext == MeterTurn \/ WindowsTurn \/ ItemTurn \/ SetsTurn

HeadlessSpec == HeadlessInit /\ [][HeadlessNext]_<<turn, vars, windowVars, itemVars, promptVars>>
=============================================================================
