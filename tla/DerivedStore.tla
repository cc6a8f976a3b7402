---------------------------- MODULE DerivedStore ----------------------------
(***************************************************************************)
(* What convert_search_ai keeps about ONE file in a tenant's schema: the   *)
(* documents row (store.py), the vectorised chunks (vectorstore.py) and    *)
(* the permanent erasure tombstone (schema.py, erased_documents).  Every   *)
(* operation is one Postgres transaction, hence one step of whichever      *)
(* module uses it.  Versions are the positions of a file's versions in     *)
(* upload order; text and chunks are abstracted to the version whose       *)
(* content they were extracted from, 0 when there is none.                 *)
(***************************************************************************)
EXTENDS Naturals

CONSTANT MaxVersion      \* bound: how many versions of the file are uploaded

ASSUME MaxVersionAssumption == MaxVersion \in Nat \ {0}

Versions == 1..MaxVersion

(* The statuses the code writes, plus "none" for "there is no row".        *)
Statuses == {"none", "converting", "converted", "indexed", "index_failed",
             "unsupported"}

Rows == [status: Statuses, version: 0..MaxVersion, text: 0..MaxVersion]

NoRow == [status |-> "none", version |-> 0, text |-> 0]

VARIABLES
    row,       \* the documents row of the file
    chunks,    \* the version whose text the chunks were cut from, or 0
    tomb       \* does erased_documents hold the file's uid?

storeVars == <<row, chunks, tomb>>

StoreTypeOK ==
    /\ row \in Rows
    /\ chunks \in 0..MaxVersion
    /\ tomb \in BOOLEAN

StoreInit == row = NoRow /\ chunks = 0 /\ tomb = FALSE

HasRow == row.status # "none"

(* INSERT ... ON CONFLICT DO UPDATE: unconditional on the stored version,  *)
(* and COALESCE keeps the stored text when the new one is NULL.            *)
Upsert(v, status, text) ==
    /\ row' = [status |-> status, version |-> v,
               text |-> IF text = 0 THEN row.text ELSE text]
    /\ UNCHANGED <<chunks, tomb>>

(* The soft delete: the chunks go with the row (ON DELETE CASCADE).        *)
DeleteRow ==
    /\ row' = NoRow
    /\ chunks' = 0
    /\ UNCHANGED tomb

(* Mutant: the row goes, chunks without a foreign key to it would stay.    *)
EraseKeepsChunks ==
    /\ row' = NoRow
    /\ tomb' = TRUE
    /\ UNCHANGED chunks

(* The erasure: destruction and tombstone in the same transaction.         *)
EraseDocument ==
    /\ row' = NoRow
    /\ chunks' = 0
    /\ tomb' = TRUE

(* Delete and re-insert the chunks of a file in one transaction.  The      *)
(* foreign key refuses the insert when the documents row is gone.          *)
CanReplaceChunks == HasRow

ReplaceChunks(v) ==
    /\ CanReplaceChunks
    /\ chunks' = v
    /\ UNCHANGED <<row, tomb>>

(* A text without one chunk worth an embedding: the chunks are deleted,    *)
(* whether or not there is a row.                                          *)
DropChunks == chunks' = 0 /\ UNCHANGED <<row, tomb>>

=============================================================================
