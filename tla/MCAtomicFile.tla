------------------------------ MODULE MCAtomicFile ------------------------------
(* AtomicFile for model checking: writers, contents and files are interchangeable. *)
EXTENDS AtomicFile, TLC

Symmetry == Permutations(Writer) \cup Permutations(Content) \cup Permutations(File)
================================================================================
