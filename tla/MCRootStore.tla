---------------------------- MODULE MCRootStore ----------------------------
(* Instances of RootStore for TLC.                                         *)
EXTENDS RootStore, TLC

\* Processes are interchangeable; the safety runs may use it.
ProcSymmetry == Permutations(Proc)
=============================================================================
