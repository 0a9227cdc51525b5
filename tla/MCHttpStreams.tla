--------------------------- MODULE MCHttpStreams ----------------------------
EXTENDS HttpStreams, TLC

StreamSymmetry == Permutations(Bidi) \cup Permutations(Push)
=============================================================================
