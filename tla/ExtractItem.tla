------------------------------ MODULE ExtractItem ------------------------------
(***************************************************************************)
(* How one document's values come about (headless/extract.py): each window *)
(* is asked for every field, the reply is checked and, if it cannot be     *)
(* used, asked for once more; what the windows gave is merged.  Of a reply *)
(* is kept what the checks tell apart.                                     *)
(***************************************************************************)
EXTENDS Naturals, FiniteSets

CONSTANTS
    Fields,         \* properties of the schema
    Parts           \* windows the document was cut into

ASSUME ItemAssumption == Parts \in Nat \ {0}

(* What a reply says of a field: nothing or null; something that is no     *)
(* wrapper, or a value its schema refuses; that it is not found; a value   *)
(* whose quote is not in the document; a value with its evidence.          *)
Entries == {"missing", "wrong", "denied", "unquoted", "stated"}

(* A reply without a JSON object is unreadable; a readable one may have    *)
(* fields nobody asked for.                                                *)
Unreadable == [entry |-> [f \in Fields |-> "missing"], extra |-> FALSE, readable |-> FALSE]
Replies == [entry: [Fields -> Entries], extra: BOOLEAN, readable: {TRUE}] \cup {Unreadable}

(* What is known of a field.                                               *)
Data == {"empty", "dropped", "found"}
Nothing == [f \in Fields |-> "empty"]

VARIABLES
    part,       \* the window being asked for, Parts + 1 after the last
    first,      \* the reply a repair was asked for, as a set of one or none
    answers,    \* the data of each window so far
    flawed,     \* windows with problems left
    given,      \* history: the last reply to each window
    stated      \* history: fields stated with evidence, in any reply

itemVars == <<part, first, answers, flawed, given, stated>>

ItemTypeOK ==
    /\ part \in 1..(Parts + 1)
    /\ first \subseteq Replies /\ Cardinality(first) <= 1
    /\ answers \in [1..Parts -> [Fields -> Data]]
    /\ flawed \subseteq 1..Parts
    /\ given \in [1..Parts -> Replies]
    /\ stated \subseteq Fields

ItemInit ==
    /\ part = 1 /\ first = {}
    /\ answers = [n \in 1..Parts |-> Nothing]
    /\ flawed = {}
    /\ given = [n \in 1..Parts |-> Unreadable]
    /\ stated = {}

-----------------------------------------------------------------------------
(* check(): the data of a reply, and what to ask the model to correct.     *)
Check(r) ==
    [f \in Fields |-> CASE r.entry[f] = "stated" -> "found"
                        [] r.entry[f] = "unquoted" -> "dropped"
                        [] OTHER -> "empty"]

Omits(r) == \E f \in Fields : r.entry[f] = "missing"
Errs(r) == r.extra \/ \E f \in Fields : r.entry[f] = "wrong"
Usable(r) == r.readable /\ ~Omits(r) /\ ~Errs(r)

Given(r) ==
    /\ given' = [given EXCEPT ![part] = r]
    /\ stated' = stated \cup {f \in Fields : r.entry[f] = "stated"}

Keep(data, problems) ==
    /\ answers' = [answers EXCEPT ![part] = data]
    /\ flawed' = IF problems THEN flawed \cup {part} ELSE flawed
    /\ part' = part + 1

(* complete_json, asked for the first time.                                *)
Ask ==
    /\ part <= Parts /\ first = {}
    /\ \E r \in Replies :
         /\ Given(r)
         /\ IF Usable(r) THEN Keep(Check(r), FALSE) /\ UNCHANGED first
            ELSE first' = {r} /\ UNCHANGED <<answers, flawed, part>>

(* Mutant: a repaired reply is as good as any.                             *)
RepairTrusts ==
    /\ first # {}
    /\ \E r \in Replies : Given(r) /\ Keep(Check(r), FALSE)
    /\ first' = {}

(* The repair.  A second reply that cannot be read leaves what the first   *)
(* one gave, with its problems; a field it leaves out is taken to be not   *)
(* found.                                                                  *)
Repair ==
    /\ first # {}
    /\ \E r \in Replies :
         /\ Given(r)
         /\ IF r.readable THEN Keep(Check(r), Errs(r))
            ELSE \E one \in first : Keep(Check(one), TRUE)
    /\ first' = {}

ItemNext == Ask \/ Repair

ItemSpec == ItemInit /\ [][ItemNext]_itemVars

-----------------------------------------------------------------------------
Asked == part > Parts
Valid == flawed = {}

(* merge(): found if a window found it, else dropped if one dropped it.    *)
Merged(f) ==
    IF \E n \in 1..Parts : answers[n][f] = "found" THEN "found"
    ELSE IF \E n \in 1..Parts : answers[n][f] = "dropped" THEN "dropped"
    ELSE "empty"

(* What a caller may conclude from a valid item: every window ended in a   *)
(* reply that could be read and that the schema accepts, a field is found  *)
(* exactly if such a reply stated it with evidence that is in the          *)
(* document, and one said to be not found was nowhere claimed without.     *)
ValidMeansAnswered ==
    Asked /\ Valid =>
        /\ \A n \in 1..Parts : given[n].readable /\ ~Errs(given[n])
        /\ \A f \in Fields :
             /\ Merged(f) = "found" <=> \E n \in 1..Parts : given[n].entry[f] = "stated"
             /\ Merged(f) = "empty" =>
                  \A n \in 1..Parts : given[n].entry[f] \in {"missing", "denied"}

(* "found: false when the document does not state it" (module docstring):  *)
(* what a reply stated with evidence is not reported as not found.         *)
FoundIsKept ==
    Asked /\ Valid => \A f \in stated : Merged(f) = "found"
=============================================================================
