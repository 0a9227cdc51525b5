---------------------- MODULE AddressValidationProofs -----------------------
(***************************************************************************)
(* Proofs about AddressValidation, for any clients, addresses, window and  *)
(* clock, and any number of packets and restarts.                          *)
(***************************************************************************)
EXTENDS AddressValidation, TLAPS

(* The tokens in Retry packets say whom they were sent to and about what.  *)
RetriesTrue ==
  \A r \in retries : r.token.to = r.to /\ r.token.ocid = r.dcid

(* A client has a token iff it followed a Retry, and then uses its id.     *)
ClientsTrue ==
  \A c \in Client :
    /\ token[c] = None => dcid[c] = c
    /\ token[c] # None =>
         /\ dcid[c] \in RetryCid
         /\ token[c].ocid = c
         /\ \E h \in heard : /\ h[1] = c
                             /\ h[2].token = token[c]
                             /\ h[2].to = token[c].to

(* What an Initial in the network says is still true of its client: a      *)
(* client gets one token for good.                                         *)
PacketsTrue ==
  \A p \in net : p.type = "initial" =>
    /\ p.token = None => p.dcid = p.client
    /\ p.token # None => p.token = token[p.client] /\ p.dcid = dcid[p.client]

(* A connection comes from an Initial whose token, if any, was verified.   *)
ConnsTrue ==
  \A k \in conns :
    /\ k.packet \in net
    /\ k.packet.type = "initial"
    /\ k.packet.token = None => ~ValidateAddr /\ k.ocid = None
    /\ k.packet.token # None =>
         /\ k.packet.token.secret = secret
         /\ k.packet.token.to = k.packet.from
         /\ k.at <= k.packet.token.time + Window
         /\ k.ocid = k.packet.token.ocid

(* Live connections differ in the id they were created with. *)
ConnsDistinct ==
  \A j, k \in conns : j.packet.dcid = k.packet.dcid => j = k

ValidationInv ==
  TypeOK /\ RetriesTrue /\ ClientsTrue /\ PacketsTrue /\ ConnsTrue /\ ConnsDistinct

-----------------------------------------------------------------------------
(* What the server's answers to a packet do: a connection is added, a      *)
(* Retry sent or a close.                                                  *)
AddsConn(p) ==
  \E ocid \in Dcid \cup {None} :
    /\ p.type = "initial"
    /\ p.token = None => ~ValidateAddr /\ ocid = None
    /\ p.token # None => VerifyToken(p) /\ ocid = p.token.ocid
    /\ conns' = conns \cup {[packet |-> p, ocid |-> ocid, at |-> now]}
    /\ UNCHANGED <<secret, drawn, retries, closes>>

AddsClose(p) ==
  /\ closes' = closes \cup {[to |-> p.from, dcid |-> p.dcid]}
  /\ UNCHANGED <<secret, drawn, conns, retries>>

(* Every read comes to one of these outcomes.                              *)
LEMMA ReadShape ==
  ASSUME TypeOK, NEW p \in net, Read(p)
  PROVE  /\ Unrouted(p.dcid)
         /\ UNCHANGED <<now, net, client>>
         /\ AddsConn(p) \/ SendRetry(p) \/ AddsClose(p)
<1>1. p \in Packet
  BY DEF TypeOK
<1>2. CASE ReadZeroRtt(p)
  BY <1>2 DEF Read, ReadZeroRtt
<1>3. CASE ReadWithoutToken(p)
  BY <1>3 DEF Read, ReadWithoutToken, Accept, AddsConn
<1>4. CASE ReadWithToken(p)
  <2>1. p.token \in Token
    BY <1>1, <1>4 DEF ReadWithToken, Packet
  <2>2. p.token.ocid \in Dcid
    BY <2>1 DEF Token
  <2>3. CASE VerifyToken(p) /\ Accept(p, p.token.ocid)
    BY <1>4, <2>2, <2>3 DEF Read, ReadWithToken, Accept, AddsConn
  <2>4. CASE ~VerifyToken(p)
    BY <1>4, <2>4 DEF Read, ReadWithToken, AddsClose
  <2> QED
    BY <1>4, <2>3, <2>4 DEF ReadWithToken
<1> QED
  BY <1>2, <1>3, <1>4 DEF Read

(* A Retry keeps the types and says the truth. *)
LEMMA SendRetryInv ==
  ASSUME ValidationInv, NEW p \in net, SendRetry(p), UNCHANGED <<now, net, client>>
  PROVE  ValidationInv'
<1> USE DEF ValidationInv
<1>1. p \in Packet
  BY DEF TypeOK
<1>2. p.from \in Addr /\ p.dcid \in Dcid
  BY <1>1 DEF Packet
<1>3. PICK scid \in RetryCid :
        /\ drawn'   = drawn \cup {scid}
        /\ retries' = retries \cup {[to |-> p.from, dcid |-> p.dcid, scid |-> scid,
                                     token |-> GenerateToken(p, scid)]}
        /\ UNCHANGED <<secret, conns, closes>>
  BY DEF SendRetry
<1> DEFINE t == GenerateToken(p, scid)
           r == [to |-> p.from, dcid |-> p.dcid, scid |-> scid, token |-> t]
<1>4. t \in Token /\ t.to = p.from /\ t.ocid = p.dcid
  BY <1>2 DEF GenerateToken, Token, TypeOK
<1> HIDE DEF t
<1>5. r \in Retry /\ r.token.to = r.to /\ r.token.ocid = r.dcid
  BY <1>2, <1>4 DEF Retry
<1>6. retries' = retries \cup {r}
  BY <1>3 DEF t
<1> HIDE DEF r
<1>7. TypeOK'
  BY <1>3, <1>5, <1>6 DEF TypeOK, client
<1>8. RetriesTrue'
  BY <1>5, <1>6 DEF RetriesTrue
<1>9. ClientsTrue' /\ PacketsTrue' /\ ConnsTrue' /\ ConnsDistinct'
  BY <1>3 DEF ClientsTrue, PacketsTrue, ConnsTrue, ConnsDistinct, client
<1> QED
  BY <1>7, <1>8, <1>9

(* So does a close. *)
LEMMA AddsCloseInv ==
  ASSUME ValidationInv, NEW p \in net, AddsClose(p), UNCHANGED <<now, net, client>>
  PROVE  ValidationInv'
<1> USE DEF ValidationInv
<1>1. p \in Packet
  BY DEF TypeOK
<1>2. [to |-> p.from, dcid |-> p.dcid] \in [to : Addr, dcid : Dcid]
  BY <1>1 DEF Packet
<1>3. TypeOK'
  BY <1>2 DEF AddsClose, TypeOK, client
<1>4. RetriesTrue' /\ ClientsTrue' /\ PacketsTrue' /\ ConnsTrue' /\ ConnsDistinct'
  BY DEF AddsClose, RetriesTrue, ClientsTrue, PacketsTrue, ConnsTrue, ConnsDistinct, client
<1> QED
  BY <1>3, <1>4

(* A new connection has a verified token, if any, and an id of its own. *)
LEMMA AddsConnInv ==
  ASSUME ValidationInv, NEW p \in net, AddsConn(p), Unrouted(p.dcid),
         UNCHANGED <<now, net, client>>
  PROVE  ValidationInv'
<1> USE DEF ValidationInv
<1>1. PICK ocid \in Dcid \cup {None} :
        /\ p.type = "initial"
        /\ p.token = None => ~ValidateAddr /\ ocid = None
        /\ p.token # None => VerifyToken(p) /\ ocid = p.token.ocid
        /\ conns' = conns \cup {[packet |-> p, ocid |-> ocid, at |-> now]}
        /\ UNCHANGED <<secret, drawn, retries, closes>>
  BY DEF AddsConn
<1> DEFINE k == [packet |-> p, ocid |-> ocid, at |-> now]
<1>2. k.packet = p /\ k.ocid = ocid /\ k.at = now /\ conns' = conns \cup {k}
  BY <1>1
<1>3. p \in Packet /\ k \in [packet : Packet, ocid : Dcid \cup {None}, at : Time]
  BY DEF TypeOK
<1>4. p.token \in Token \cup {None}
  BY <1>3 DEF Packet
<1> HIDE DEF k
<1>5. TypeOK'
  BY <1>1, <1>2, <1>3 DEF TypeOK, client
<1>6. RetriesTrue' /\ ClientsTrue' /\ PacketsTrue'
  BY <1>1 DEF RetriesTrue, ClientsTrue, PacketsTrue, client
<1>7. p.token # None =>
        /\ p.token.secret = secret
        /\ p.token.to = p.from
        /\ now <= p.token.time + Window
  <2>1. ASSUME p.token # None PROVE p.token.time \in Nat
    BY <1>4, <2>1, ValidationAssumption DEF Token, Time
  <2>2. now \in Nat /\ Window \in Nat
    BY ValidationAssumption DEF TypeOK, Time
  <2> QED
    BY <1>1, <2>1, <2>2 DEF VerifyToken
<1>8. ConnsTrue'
  BY <1>1, <1>2, <1>7 DEF ConnsTrue
<1>9. ConnsDistinct'
  BY <1>2 DEF ConnsDistinct, Unrouted
<1> QED
  BY <1>5, <1>6, <1>8, <1>9

-----------------------------------------------------------------------------
(* A client that sends tells the truth about itself. *)
LEMMA SendInv ==
  ASSUME ValidationInv, NEW c \in Client, Send(c)
  PROVE  ValidationInv'
<1> USE DEF ValidationInv
<1>1. PICK type \in {"initial", "0rtt"} :
        net' = net \cup {[type |-> type, client |-> c, from |-> addr[c], dcid |-> dcid[c],
                          token |-> IF type = "initial" THEN token[c] ELSE None]}
  BY DEF Send
<1>2. UNCHANGED <<now, server, client>>
  BY DEF Send
<1> DEFINE t == IF type = "initial" THEN token[c] ELSE None
           p == [type |-> type, client |-> c, from |-> addr[c], dcid |-> dcid[c], token |-> t]
<1>3. p \in Packet
  <2>1. t \in Token \cup {None} /\ addr[c] \in Addr /\ dcid[c] \in Dcid
    BY DEF TypeOK
  <2> HIDE DEF t
  <2> QED
    BY <2>1 DEF Packet
<1>4. /\ net' = net \cup {p}
      /\ p.client = c /\ p.dcid = dcid[c]
      /\ p.type = "initial" => p.token = token[c]
  BY <1>1
<1> HIDE DEF p
<1>5. TypeOK'
  BY <1>2, <1>3, <1>4 DEF TypeOK, server, client
<1>6. RetriesTrue' /\ ClientsTrue' /\ ConnsTrue' /\ ConnsDistinct'
  BY <1>2, <1>4 DEF RetriesTrue, ClientsTrue, ConnsTrue, ConnsDistinct, server, client
<1>7. PacketsTrue'
  BY <1>2, <1>4 DEF PacketsTrue, ClientsTrue, client
<1> QED
  BY <1>5, <1>6, <1>7

(* A client that follows a Retry had no token, and no packet says it had.  *)
LEMMA FollowRetryInv ==
  ASSUME ValidationInv, NEW c \in Client, NEW r \in retries, FollowRetry(c, r)
  PROVE  ValidationInv'
<1> USE DEF ValidationInv
<1>1. /\ token[c] = None
      /\ r.to = addr[c] /\ r.dcid = dcid[c]
      /\ token' = [token EXCEPT ![c] = r.token]
      /\ dcid'  = [dcid EXCEPT ![c] = r.scid]
      /\ heard' = heard \cup {<<c, r>>}
      /\ UNCHANGED <<now, server, net, addr, gone>>
  BY DEF FollowRetry
<1>2. r \in Retry
  BY DEF TypeOK
<1>3. r.token \in Token /\ r.scid \in RetryCid /\ r.token # None
  BY <1>2, NoneIsNoToken DEF Retry
<1>4. r.token.ocid = c /\ r.token.to = r.to
  BY <1>1 DEF RetriesTrue, ClientsTrue
<1>5. TypeOK'
  BY <1>1, <1>2, <1>3 DEF TypeOK, server, Dcid
<1>6. RetriesTrue'
  BY <1>1 DEF RetriesTrue, server
<1>7. token'[c] = r.token /\ dcid'[c] = r.scid
  BY <1>1 DEF TypeOK
<1>8. \A d \in Client \ {c} : token'[d] = token[d] /\ dcid'[d] = dcid[d]
  BY <1>1 DEF TypeOK
<1>9. ClientsTrue'
  <2> SUFFICES ASSUME NEW d \in Client
               PROVE  /\ token'[d] = None => dcid'[d] = d
                      /\ token'[d] # None =>
                           /\ dcid'[d] \in RetryCid
                           /\ token'[d].ocid = d
                           /\ \E h \in heard' : /\ h[1] = d
                                                /\ h[2].token = token'[d]
                                                /\ h[2].to = token'[d].to
    BY DEF ClientsTrue
  <2>1. CASE d = c
    <3>1. <<c, r>> \in heard'
      BY <1>1
    <3> QED
      BY <1>3, <1>4, <1>7, <2>1, <3>1
  <2>2. CASE d # c
    BY <1>1, <1>8, <2>2 DEF ClientsTrue
  <2> QED
    BY <2>1, <2>2
<1>10. PacketsTrue'
  <2> SUFFICES ASSUME NEW p \in net, p.type = "initial"
               PROVE  /\ p.token = None => p.dcid = p.client
                      /\ p.token # None => p.token = token'[p.client] /\ p.dcid = dcid'[p.client]
    BY <1>1 DEF PacketsTrue
  <2>1. p.client \in Client
    BY DEF TypeOK, Packet
  <2>2. CASE p.client = c
    BY <1>1, <2>2 DEF PacketsTrue
  <2>3. CASE p.client # c
    BY <1>8, <2>1, <2>3 DEF PacketsTrue
  <2> QED
    BY <2>2, <2>3
<1>11. ConnsTrue' /\ ConnsDistinct'
  BY <1>1 DEF ConnsTrue, ConnsDistinct, server
<1> QED
  BY <1>5, <1>6, <1>9, <1>10, <1>11

(* The invariant is inductive. *)
LEMMA ValidationStep == ValidationInv /\ [Next]_vars => ValidationInv'
<1> SUFFICES ASSUME ValidationInv, [Next]_vars PROVE ValidationInv'
  OBVIOUS
<1> USE DEF ValidationInv
<1>1. CASE UNCHANGED vars
  BY <1>1 DEF TypeOK, RetriesTrue, ClientsTrue, PacketsTrue, ConnsTrue, ConnsDistinct,
              vars, server, client
<1>2. ASSUME NEW p \in net, Read(p) PROVE ValidationInv'
  BY <1>2, ReadShape, SendRetryInv, AddsCloseInv, AddsConnInv
<1>3. ASSUME NEW k \in conns, Remove(k) PROVE ValidationInv'
  BY <1>3 DEF Remove, TypeOK, RetriesTrue, ClientsTrue, PacketsTrue, ConnsTrue,
              ConnsDistinct, client
<1>4. CASE Restart
  <2>1. secret' \in 0 .. MaxRestarts
    BY <1>4, ValidationAssumption DEF Restart, TypeOK
  <2> QED
    BY <1>4, <2>1 DEF Restart, TypeOK, RetriesTrue, ClientsTrue, PacketsTrue, ConnsTrue,
                      ConnsDistinct, client
<1>5. CASE ClockMoves
  BY <1>5 DEF ClockMoves, TypeOK, RetriesTrue, ClientsTrue, PacketsTrue, ConnsTrue,
              ConnsDistinct, server, client
<1>6. ASSUME NEW c \in Client, GiveUp(c) PROVE ValidationInv'
  BY <1>6 DEF GiveUp, TypeOK, RetriesTrue, ClientsTrue, PacketsTrue, ConnsTrue,
              ConnsDistinct, server
<1>7. ASSUME NEW c \in Client, Rebind(c) PROVE ValidationInv'
  <2>1. addr' \in [Client -> Addr]
    BY <1>7 DEF Rebind, TypeOK
  <2> QED
    BY <1>7, <2>1 DEF Rebind, TypeOK, RetriesTrue, ClientsTrue, PacketsTrue, ConnsTrue,
                      ConnsDistinct, server
<1> QED
  BY <1>1, <1>2, <1>3, <1>4, <1>5, <1>6, <1>7, SendInv, FollowRetryInv
     DEF Next, ServerStep, ClientStep

(* Nothing is known of anyone at first. *)
LEMMA ValidationInit == Init => ValidationInv
BY ValidationAssumption
   DEF Init, ValidationInv, TypeOK, RetriesTrue, ClientsTrue, PacketsTrue, ConnsTrue,
       ConnsDistinct, Time, Dcid

(* The invariant holds in every reachable state. *)
LEMMA ValidationInvariant == Spec => []ValidationInv
BY ValidationInit, ValidationStep, PTL DEF Spec

(* Packets, tokens and Retries are what their senders can have made.       *)
THEOREM ValidationTypes == Spec => []TypeOK
<1>1. ValidationInv => TypeOK
  BY DEF ValidationInv
<1> QED
  BY <1>1, ValidationInvariant, PTL

(* With -V there is no connection whose client did not follow a Retry this *)
(* server process sent to that address within the window.                  *)
THEOREM AddressesAreValidated == Spec => []AddressValidated
<1>1. ValidationInv => AddressValidated
  <2> SUFFICES ASSUME ValidationInv, ValidateAddr, NEW k \in conns
               PROVE  \E h \in heard :
                        /\ h[1] = k.packet.client
                        /\ h[2].to = k.packet.from
                        /\ h[2].token.secret = secret
                        /\ k.at <= h[2].token.time + Window
    BY DEF AddressValidated
  <2> DEFINE p == k.packet
  <2>1. p \in net /\ p.type = "initial" /\ p.token # None
    BY DEF ValidationInv, ConnsTrue
  <2>2. p.client \in Client
    BY <2>1 DEF ValidationInv, TypeOK, Packet
  <2>3. p.token = token[p.client]
    BY <2>1 DEF ValidationInv, PacketsTrue
  <2>4. PICK h \in heard : h[1] = p.client /\ h[2].token = p.token /\ h[2].to = p.token.to
    BY <2>1, <2>2, <2>3 DEF ValidationInv, ClientsTrue
  <2>5. /\ p.token.secret = secret
        /\ p.token.to = p.from
        /\ k.at <= p.token.time + Window
    BY <2>1 DEF ValidationInv, ConnsTrue
  <2> QED
    BY <2>4, <2>5
<1> QED
  BY <1>1, ValidationInvariant, PTL

(* The original_connection_id every connection announces is the one its    *)
(* client looks for, with and without -V.                                  *)
THEOREM OriginalIdsFit == Spec => []OriginalIdFits
<1>1. ValidationInv => OriginalIdFits
  <2> SUFFICES ASSUME ValidationInv, NEW k \in conns
               PROVE  k.ocid = IF k.packet.dcid = k.packet.client
                               THEN None ELSE k.packet.client
    BY DEF OriginalIdFits
  <2> DEFINE p == k.packet
  <2>1. p \in net /\ p.type = "initial"
    BY DEF ValidationInv, ConnsTrue
  <2>2. p.client \in Client
    BY <2>1 DEF ValidationInv, TypeOK, Packet
  <2>3. CASE p.token = None
    BY <2>1, <2>3 DEF ValidationInv, ConnsTrue, PacketsTrue
  <2>4. CASE p.token # None
    <3>1. p.token = token[p.client] /\ p.dcid = dcid[p.client] /\ k.ocid = p.token.ocid
      BY <2>1, <2>4 DEF ValidationInv, ConnsTrue, PacketsTrue
    <3>2. p.dcid \in RetryCid /\ p.token.ocid = p.client
      BY <2>2, <2>4, <3>1 DEF ValidationInv, ClientsTrue
    <3> QED
      BY <2>2, <3>1, <3>2, ValidationAssumption
  <2> QED
    BY <2>3, <2>4
<1> QED
  BY <1>1, ValidationInvariant, PTL

(* With -V no client ever has two connections on the server. *)
THEOREM ConnectionsAreSingle == Spec => []OneConnectionPerClient
<1>1. ValidationInv => OneConnectionPerClient
  <2> SUFFICES ASSUME ValidationInv, ValidateAddr, NEW j \in conns, NEW k \in conns,
                      j.packet.client = k.packet.client
               PROVE  j = k
    BY DEF OneConnectionPerClient
  <2>1. j.packet.dcid = dcid[j.packet.client] /\ k.packet.dcid = dcid[k.packet.client]
    BY DEF ValidationInv, ConnsTrue, PacketsTrue
  <2> QED
    BY <2>1 DEF ValidationInv, ConnsDistinct
<1> QED
  BY <1>1, ValidationInvariant, PTL
=============================================================================
