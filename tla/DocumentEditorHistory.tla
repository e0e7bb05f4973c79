------------------------ MODULE DocumentEditorHistory ------------------------
(***************************************************************************)
(* DocumentEditor implements EditHistory: the snapshot directory is the    *)
(* undo history, once the snapshots that stand for no step are left out.   *)
(***************************************************************************)
EXTENDS DocumentEditor, TLC

\* A snapshot is a step of the history from the moment its edit is in the file
\* or will never be, to the moment it is put back over the document.
Settled(s) ==
    /\ savedAs[s.by] # None \/ Over(s.by)
    /\ ~\E c \in Calls : pc[c] = "removing" /\ victim[c] = s.name

Steps ==
    LET settled == {s \in snaps : Settled(s)}
        older(s) == {t \in settled : t.name < s.name}
        step(i) == CHOOSE s \in settled : Cardinality(older(s)) = i - 1
    IN  [i \in 1..Cardinality(settled) |-> step(i).bytes]

History == INSTANCE EditHistory WITH
    Contents <- 0..MaxVersions,
    Nothing <- None,
    MaxSteps <- MaxSnapshots,
    doc <- file,
    undo <- Steps

\* One edit, one step back: every step of the editor, the host, other programs
\* and a crash is a step of the undo history or changes nothing of it.  That rests on
\* names that sort as the snapshots were taken: if the clock can go back, the order of
\* the steps is that of their names and this does not hold.
ImplementsHistory == History!Spec

CallSymmetry == Permutations(Calls)
=============================================================================
