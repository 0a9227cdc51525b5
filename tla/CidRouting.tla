----------------------------- MODULE CidRouting -----------------------------
(***************************************************************************)
(* What the server's two tables promise together, without tables: each     *)
(* connection id has at most one owner, the connection that gets the       *)
(* datagrams sent to it.  A connection is named by the first id the server *)
(* drew for it, and no drawn id names a second one.  An id never passes    *)
(* from one connection to another without being nobody's in between.  Once *)
(* free it may start another connection; whoever owns it then, it is       *)
(* nobody's again when a connection that was opened with it ends.          *)
(***************************************************************************)
CONSTANTS
  Key,    (* ids that can name a connection  *)
  Id,     (* all ids                         *)
  Nobody

VARIABLES
  owner,  (* the connection that owns each id              *)
  drawn,  (* the ids already given out                     *)
  first   (* the other ids each connection was opened with *)

Live(h) == owner[h] = h

Free(c) == owner[c] = Nobody

(* The ids that are h's before or after the step, and no others, change.   *)
OnlyIdsOf(h) ==
  \A c \in Id : owner'[c] # owner[c] =>
                  \/ Free(c) /\ owner'[c] = h
                  \/ owner[c] = h /\ owner'[c] = Nobody

Open(h) ==
  /\ h \in Key \ drawn
  /\ Free(h)
  /\ owner'[h] = h
  /\ OnlyIdsOf(h)
  /\ drawn \cup {h} \subseteq drawn'
  /\ first' = [first EXCEPT ![h] = {c \in Id : owner'[c] = h} \ {h}]

Renew(h) ==
  /\ Live(h)
  /\ owner'[h] = h
  /\ OnlyIdsOf(h)
  /\ \A c \in Id : Free(c) /\ owner'[c] = h => c \in drawn' \ drawn
  /\ drawn \subseteq drawn'
  /\ UNCHANGED first

Close(h) ==
  /\ Live(h)
  /\ owner' = [c \in Id |-> IF owner[c] = h \/ c \in first[h] THEN Nobody ELSE owner[c]]
  /\ first' = [first EXCEPT ![h] = {}]
  /\ UNCHANGED drawn

Init ==
  /\ owner = [c \in Id |-> Nobody]
  /\ drawn = {}
  /\ first = [h \in Key |-> {}]

Next == \E h \in Key : Open(h) \/ Renew(h) \/ Close(h)

Spec == Init /\ [][Next]_<<owner, drawn, first>>
=============================================================================
