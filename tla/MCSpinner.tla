----------------------------- MODULE MCSpinner -----------------------------
(***************************************************************************)
(* Instances of Spinner for TLC.  Frames 1 and 2 are the IO and the local  *)
(* memory; page 3 holds the binary and the stacks, 4 to 6 the heap.        *)
(***************************************************************************)
EXTENDS Spinner, TLC

OneOfEach == <<3, 2, 1>>

\* The threads are interchangeable, and so are the files.
Symmetry == Permutations(Thread) \cup Permutations(Binary)
============================================================================
