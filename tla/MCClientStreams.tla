--------------------------- MODULE MCClientStreams ---------------------------
EXTENDS ClientStreams
=============================================================================
