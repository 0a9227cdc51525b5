--------------------------- MODULE RequestService ---------------------------
(***************************************************************************)
(* What one connection of the server promises a client about its requests, *)
(* without streams and header blocks: a service with a number of places.   *)
(* A request takes a free place, is answered at most once and only while   *)
(* it has its place, and gives the place back when it is over, answered or *)
(* not.                                                                    *)
(***************************************************************************)
EXTENDS Naturals

CONSTANTS
  Request,
  Places    (* how many requests may be in service at a time *)

VARIABLES
  stage,    (* of each request: "waiting", "served", "over"  *)
  free,     (* the places a client may still take            *)
  answers   (* how many answers each request got             *)

Answered(r) ==
  /\ answers[r] = 0
  /\ answers' = [answers EXCEPT ![r] = 1]

Begin(r) ==
  /\ stage[r] = "waiting"
  /\ free > 0
  /\ stage' = [stage EXCEPT ![r] = "served"]
  /\ free' = free - 1
  /\ UNCHANGED answers

Answer(r) ==
  /\ stage[r] = "served"
  /\ Answered(r)
  /\ UNCHANGED <<stage, free>>

(* The answer may be the last thing that happens to a request. *)
End(r) ==
  /\ stage[r] = "served"
  /\ stage' = [stage EXCEPT ![r] = "over"]
  /\ free' = free + 1
  /\ Answered(r) \/ UNCHANGED answers

Init ==
  /\ stage   = [r \in Request |-> "waiting"]
  /\ free    = Places
  /\ answers = [r \in Request |-> 0]

Next == \E r \in Request : Begin(r) \/ Answer(r) \/ End(r)

Spec == Init /\ [][Next]_<<stage, free, answers>>
=============================================================================
