--------------------------- MODULE MCQuicsyServer ---------------------------
(* Two clients and a handful of server ids; the ids are interchangeable.   *)
EXTENDS QuicsyServer, TLC

IdSymmetry == Permutations(ClientCid) \cup Permutations(ServerCid)
=============================================================================
