--------------------------- MODULE OrderedConsumer ---------------------------
(***************************************************************************)
(* What the ingest loop promises of the shared event stream, whatever its  *)
(* batches, pauses and restarts: messages are carried out and settled one  *)
(* at a time in the order they were published.  A fault may set some       *)
(* aside; they are then skipped until they are taken back, all at once,    *)
(* each to its own place in the order.                                     *)
(***************************************************************************)
EXTENDS Naturals

CONSTANT MaxSent     \* bound: messages ever published

VARIABLES
    sent,       \* how many messages were published
    settled,    \* those settled
    done,       \* those whose effect took place
    aside,      \* those set aside and not settled
    faults      \* how many faults there were

Init == sent = 0 /\ settled = {} /\ done = {} /\ aside = {} /\ faults = 0

(* The oldest message neither settled nor aside.                           *)
Due(m) ==
    /\ m \in (1..sent) \ (settled \cup aside)
    /\ 1..(m - 1) \subseteq settled \cup aside

Send ==
    /\ sent < MaxSent
    /\ sent' = sent + 1
    /\ UNCHANGED <<settled, done, aside, faults>>

CarryOut ==
    /\ \E m \in 1..sent : Due(m) /\ done' = done \cup {m}
    /\ UNCHANGED <<sent, settled, aside, faults>>

Settle ==
    /\ \E m \in 1..sent : Due(m) /\ settled' = settled \cup {m}
    /\ UNCHANGED <<sent, done, aside, faults>>

SetAside ==
    /\ \E S \in SUBSET ((1..sent) \ settled) : aside' = aside \cup S
    /\ faults' = faults + 1
    /\ UNCHANGED <<sent, settled, done>>

TakeBack ==
    /\ aside' = {}
    /\ UNCHANGED <<sent, settled, done, faults>>

Next == Send \/ CarryOut \/ Settle \/ SetAside \/ TakeBack

Spec == Init /\ [][Next]_<<sent, settled, done, aside, faults>>
=============================================================================
