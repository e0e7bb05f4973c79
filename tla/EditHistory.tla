----------------------------- MODULE EditHistory -----------------------------
(***************************************************************************)
(* What edit_document and revert_document promise together: the document   *)
(* carries an undo history that only moves backwards.  Every edit adds one *)
(* step, every revert takes the newest one back, and one revert never      *)
(* undoes two edits: the bytes a step restores are bytes the document had  *)
(* since the edit before it, so they differ from what the edit replaced by *)
(* writes from outside the extension at most.                              *)
(*                                                                         *)
(* Stated from the header comments of src/word/snapshots.mjs and the       *)
(* comment on #withLock in src/word/document-editor.mjs.                   *)
(***************************************************************************)
EXTENDS Integers, Sequences

CONSTANTS
    Contents,   \* what the document can hold
    Nothing,    \* the state of a document that was removed
    MaxSteps    \* how many steps back are kept, at least one

VARIABLES
    doc,        \* what the document holds
    undo,       \* the contents the reverts would restore, oldest first
    since       \* what the document held since the last edit or revert

vars == <<doc, undo, since>>

Init == /\ doc \in Contents
        /\ undo = <<>>
        /\ since = {doc}

\* An edit replaces the document and records what it replaced.
Edit ==
    /\ Len(undo) < MaxSteps
    /\ doc' \in Contents
    /\ since' = {doc'}
    /\ \E before \in since \ {Nothing} : undo' = Append(undo, before)

\* A revert takes the newest step.
Undo ==
    /\ undo # <<>>
    /\ doc' = undo[Len(undo)]
    /\ undo' = SubSeq(undo, 1, Len(undo) - 1)
    /\ since' = {doc'}

\* Somebody else changes, removes or recreates the document; so does an edit
\* that fails when it puts the document back.
Outside ==
    /\ doc' \in Contents \cup {Nothing}
    /\ since' = since \cup {doc'}
    /\ UNCHANGED undo

\* A full history makes room for the next step, even if that edit is refused.
Forget ==
    /\ Len(undo) >= MaxSteps
    /\ undo' = SubSeq(undo, Len(undo) - MaxSteps + 2, Len(undo))
    /\ UNCHANGED <<doc, since>>

\* An interrupted edit or revert may leave a step, even one too many, that goes
\* back no further than to what the document already held.
EmptyStep ==
    /\ \E before \in since \ {Nothing} : undo' = Append(undo, before)
    /\ UNCHANGED <<doc, since>>

Next == Edit \/ Undo \/ Outside \/ Forget \/ EmptyStep

Spec == Init /\ [][Next]_vars
=============================================================================
