------------------------------- MODULE MCViewer -------------------------------
(* Model checking of Viewer: callers and documents are interchangeable.    *)
EXTENDS Viewer, TLC

CallerSymmetry == Permutations(Callers) \cup Permutations(Paths)
=============================================================================
