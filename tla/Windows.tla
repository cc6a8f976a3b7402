------------------------------- MODULE Windows -------------------------------
(***************************************************************************)
(* How a document is cut for the model (headless/extract.py, windows):     *)
(* windows of about `size' characters, cut at a line break of their second *)
(* half when there is one, each overlapping the one before.  A text is its *)
(* length and where its line breaks are; each turn of the loop is a step.  *)
(***************************************************************************)
EXTENDS Integers

CONSTANTS
    Sizes,          \* values of headless_extract_window_chars
    MaxLength       \* bound: characters of a document

ASSUME WindowsAssumption == Sizes \subseteq Int /\ MaxLength \in Nat

VARIABLES
    size, length, breaks,   \* the request and the text (fixed)
    start,                  \* where the next window starts
    out,                    \* the windows so far, as <<first, after the last>>
    cut                     \* is the text cut?

textVars == <<size, length, breaks>>
windowVars == <<textVars, start, out, cut>>

WindowsTypeOK ==
    /\ size \in Int /\ length \in Nat /\ breaks \subseteq Nat
    /\ start \in Nat /\ out \subseteq Nat \X Nat /\ cut \in BOOLEAN

Min2(a, b) == IF a < b THEN a ELSE b

Overlap == Min2(2000, size \div 10)

TooShort == size <= 0 \/ length <= size

WindowsInit ==
    /\ size \in Sizes /\ length \in 0..MaxLength
    /\ breaks \in SUBSET (0..(length - 1))
    /\ start = 0
    /\ out = IF TooShort THEN {<<0, length>>} ELSE {}
    /\ cut = TooShort

(* text.rfind("\n", start + size // 2, end), when the text goes on after.  *)
Reach == Min2(length, start + size)

Breaks == {n \in breaks : start < n /\ start + size \div 2 <= n /\ n < Reach}

Last(n) == n \in Breaks /\ \A m \in Breaks : m <= n

EndsAt(e) ==
    IF Reach = length \/ Breaks = {} THEN e = Reach ELSE Last(e)

(* Mutant: the break is skipped along with the overlap.                    *)
CutAfterBreak ==
    /\ ~cut
    /\ \E e \in 0..Reach :
         /\ EndsAt(e)
         /\ out' = out \cup {<<start, e>>}
         /\ cut' = (e >= length)
         /\ start' = IF e >= length THEN start ELSE e + 1
    /\ UNCHANGED textVars

Cut ==
    /\ ~cut
    /\ \E e \in 0..Reach :
         /\ EndsAt(e)
         /\ out' = out \cup {<<start, e>>}
         /\ cut' = (e >= length)
         /\ start' = IF e >= length THEN start
                     ELSE IF e - Overlap > start THEN e - Overlap ELSE start + 1
    /\ UNCHANGED textVars

WindowsNext == Cut

WindowsSpec == WindowsInit /\ [][WindowsNext]_windowVars

-----------------------------------------------------------------------------
(* Some window holds the text from a to b.                                 *)
Whole(a, b) == \E w \in out : w[1] <= a /\ b <= w[2]

(* No passage that is no longer than the overlap and a character is cut    *)
(* apart, wherever the breaks are: a value at a cut is seen whole in a     *)
(* window.                                                                 *)
NoPassageIsCut ==
    cut => \A a, b \in 0..length :
              a <= b /\ (b - a <= Overlap + 1 \/ TooShort) => Whole(a, b)

(* The strengthening: up to where the next window starts plus the overlap, *)
(* nothing is lost yet.                                                    *)
SoFar ==
    ~TooShort /\ ~cut =>
        /\ 0 < size /\ start < length
        /\ \A a, b \in 0..length :
              a <= b /\ b - a <= Overlap + 1 /\ a < start => Whole(a, b)

WindowsInv == WindowsTypeOK /\ SoFar /\ (TooShort => cut) /\ NoPassageIsCut
=============================================================================
