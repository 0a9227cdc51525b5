--------------------------- MODULE MCResponseFlow ---------------------------
(* Streams with the same response are interchangeable.                     *)
EXTENDS ResponseFlow, TLC

StreamSymmetry == Permutations(Streams)
=============================================================================
