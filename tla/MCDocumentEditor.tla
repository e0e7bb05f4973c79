--------------------------- MODULE MCDocumentEditor ---------------------------
(* Instances of DocumentEditor for TLC.                                    *)
EXTENDS DocumentEditor, TLC

\* The calls differ in nothing but their name.
CallSymmetry == Permutations(Calls)
=============================================================================
