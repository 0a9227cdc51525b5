--------------------------- MODULE MCQuicsyClient ---------------------------
EXTENDS QuicsyClient
=============================================================================
