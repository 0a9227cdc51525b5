------------------------- MODULE AddressValidation --------------------------
(***************************************************************************)
(* Stateless address validation of src/quicsy_server.cc: the part of       *)
(* Server::on_read that answers an Initial or 0-RTT packet of no known     *)
(* connection with a Retry, refuses its token or creates a connection,     *)
(* with send_retry, generate_token and verify_token.  The network keeps    *)
(* every packet: it may arrive late, again, in any order or never.         *)
(* Clients may change their address, the server may restart (its token     *)
(* secret is drawn anew) and its clock, system_clock, may be set.          *)
(*                                                                         *)
(* The cipher is taken to be sound: a token decrypts only under the secret *)
(* and for the address it was made with.                                   *)
(***************************************************************************)
EXTENDS Naturals, FiniteSets

CONSTANTS
  Client,        (* each client, which stands for its first destination id  *)
  Addr,          (* client addresses                                        *)
  RetryCid,      (* the ids the server draws for its Retry packets          *)
  None,          (* no token, no id                                         *)
  ValidateAddr,  (* -V, config.validate_addr                                *)
  Window,        (* the 10 seconds a token is good for                      *)
  MaxTime,       (* bound on the clock                                      *)
  MaxPackets,    (* bound on the packets clients send                       *)
  MaxRestarts    (* bound on the restarts of the server                     *)

ASSUME ValidationAssumption ==
  /\ Client \cap RetryCid = {}
  /\ None \notin Client \cup RetryCid
  /\ ValidateAddr \in BOOLEAN
  /\ {Window, MaxTime, MaxPackets, MaxRestarts} \subseteq Nat

Dcid == Client \cup RetryCid

Time == 0 .. MaxTime

Token == [to : Addr, time : Time, ocid : Dcid, secret : 0 .. MaxRestarts]

ASSUME NoneIsNoToken == None \notin Token

VARIABLES
  now,      (* the server's clock                                           *)
  secret,   (* static_secret: the number of restarts                        *)
  drawn,    (* the members of RetryCid used so far                          *)
  conns,    (* the live connections, each with the packet that created it   *)
  net,      (* every packet clients sent                                    *)
  retries,  (* every Retry the server sent                                  *)
  closes,   (* every stateless CONNECTION_CLOSE it sent                     *)
  addr,     (* the address of each client                                   *)
  dcid,     (* the destination id each client puts into its packets         *)
  token,    (* the token each client got                                    *)
  heard,    (* pairs of a client and the Retry it followed                  *)
  gone      (* the clients that were refused                                *)

server == <<secret, drawn, conns, retries, closes>>
client == <<addr, dcid, token, heard, gone>>
vars   == <<now, server, net, client>>

Packet == [type : {"initial", "0rtt"}, client : Client, from : Addr, dcid : Dcid,
           token : Token \cup {None}]

-----------------------------------------------------------------------------
(* The server                                                              *)

(* Mutant: ctos_ does not get the id the Initial was sent to. *)
UnroutedAlways(d) == TRUE

(* ctos_ has the id a live connection was created with. *)
Unrouted(d) == \A k \in conns : k.packet.dcid # d

(* Mutant: the id of the Retry itself goes into the token. *)
GenerateTokenForScid(p, scid) ==
  [to |-> p.from, time |-> now, ocid |-> scid, secret |-> secret]

GenerateToken(p, scid) ==
  [to |-> p.from, time |-> now, ocid |-> p.dcid, secret |-> secret]

(* Mutant: a token never expires. *)
VerifyTokenAnyAge(p) == p.token.secret = secret /\ p.token.to = p.from

(* verify_token: the token decrypts with the address as associated data,   *)
(* names that address, and is not older than the window.                   *)
VerifyToken(p) ==
  /\ p.token.secret = secret
  /\ p.token.to = p.from
  /\ ~(p.token.time + Window < now)

SendRetry(p) ==
  \E scid \in RetryCid \ drawn :
    /\ drawn'   = drawn \cup {scid}
    /\ retries' = retries \cup {[to |-> p.from, dcid |-> p.dcid, scid |-> scid,
                                 token |-> GenerateToken(p, scid)]}
    /\ UNCHANGED <<secret, conns, closes>>

(* A Handler is initialised with ocid, put into the tables and answers; or *)
(* ngtcp2 wants a Retry first; or the Handler fails and is dropped, which  *)
(* leaves no trace.                                                        *)
Accept(p, ocid) ==
  \/ /\ conns' = conns \cup {[packet |-> p, ocid |-> ocid, at |-> now]}
     /\ UNCHANGED <<secret, drawn, retries, closes>>
  \/ SendRetry(p)

ReadZeroRtt(p) == p.type = "0rtt" /\ SendRetry(p)

ReadWithoutToken(p) ==
  /\ p.type = "initial"
  /\ p.token = None
  /\ IF ValidateAddr THEN SendRetry(p) ELSE Accept(p, None)

ReadWithToken(p) ==
  /\ p.type = "initial"
  /\ p.token # None
  /\ IF VerifyToken(p)
     THEN Accept(p, p.token.ocid)
     ELSE /\ closes' = closes \cup {[to |-> p.from, dcid |-> p.dcid]}
          /\ UNCHANGED <<secret, drawn, conns, retries>>

(* A packet of a known connection is not this module's matter. *)
Read(p) ==
  /\ p \in net
  /\ Unrouted(p.dcid)
  /\ ReadZeroRtt(p) \/ ReadWithoutToken(p) \/ ReadWithToken(p)
  /\ UNCHANGED <<now, net, client>>

(* Server::remove, at the end of any connection. *)
Remove(k) ==
  /\ conns' = conns \ {k}
  /\ UNCHANGED <<now, secret, drawn, retries, closes, net, client>>

(* main() draws static_secret; nothing else survives the process. *)
Restart ==
  /\ secret < MaxRestarts
  /\ secret' = secret + 1
  /\ conns' = {}
  /\ UNCHANGED <<now, drawn, retries, closes, net, client>>

ClockMoves ==
  /\ now' \in Time \ {now}
  /\ UNCHANGED <<server, net, client>>

-----------------------------------------------------------------------------
(* The clients: Client of src/quicsy_client.cc leaves all of this to       *)
(* ngtcp2.                                                                 *)

Send(c) ==
  /\ c \notin gone
  /\ \E type \in {"initial", "0rtt"} :
       net' = net \cup {[type |-> type, client |-> c, from |-> addr[c], dcid |-> dcid[c],
                         token |-> IF type = "initial" THEN token[c] ELSE None]}
  /\ Cardinality(net) < MaxPackets
  /\ UNCHANGED <<now, server, client>>

(* Only the first Retry is followed, and only if it answers this client's  *)
(* packet.                                                                 *)
FollowRetry(c, r) ==
  /\ c \notin gone
  /\ token[c] = None
  /\ r.to = addr[c] /\ r.dcid = dcid[c]
  /\ token' = [token EXCEPT ![c] = r.token]
  /\ dcid'  = [dcid EXCEPT ![c] = r.scid]
  /\ heard' = heard \cup {<<c, r>>}
  /\ UNCHANGED <<now, server, net, addr, gone>>

GiveUp(c) ==
  /\ c \notin gone
  /\ [to |-> addr[c], dcid |-> dcid[c]] \in closes
  /\ gone' = gone \cup {c}
  /\ UNCHANGED <<now, server, net, addr, dcid, token, heard>>

Rebind(c) ==
  /\ addr' \in {[addr EXCEPT ![c] = a] : a \in Addr \ {addr[c]}}
  /\ UNCHANGED <<now, server, net, dcid, token, heard, gone>>

-----------------------------------------------------------------------------
Init ==
  /\ now = 0
  /\ secret = 0
  /\ drawn = {}
  /\ conns = {}
  /\ net = {}
  /\ retries = {}
  /\ closes = {}
  /\ addr \in [Client -> Addr]
  /\ dcid = [c \in Client |-> c]
  /\ token = [c \in Client |-> None]
  /\ heard = {}
  /\ gone = {}

ServerStep ==
  \/ \E p \in net : Read(p)
  \/ \E k \in conns : Remove(k)
  \/ Restart
  \/ ClockMoves

ClientStep ==
  \E c \in Client :
    Send(c) \/ GiveUp(c) \/ Rebind(c) \/ \E r \in retries : FollowRetry(c, r)

Next == ServerStep \/ ClientStep

Spec == Init /\ [][Next]_vars

-----------------------------------------------------------------------------
(* Properties                                                              *)

Retry == [to : Addr, dcid : Dcid, scid : RetryCid, token : Token]

TypeOK ==
  /\ now \in Time
  /\ secret \in 0 .. MaxRestarts
  /\ drawn \subseteq RetryCid
  /\ conns \subseteq [packet : Packet, ocid : Dcid \cup {None}, at : Time]
  /\ net \subseteq Packet
  /\ retries \subseteq Retry
  /\ closes \subseteq [to : Addr, dcid : Dcid]
  /\ addr \in [Client -> Addr]
  /\ dcid \in [Client -> Dcid]
  /\ token \in [Client -> Token \cup {None}]
  /\ heard \subseteq Client \X Retry
  /\ gone \subseteq Client

(* With -V every connection was created from an address at which its       *)
(* client had got a Retry of this very server process, not longer than the *)
(* window before by the server's clock; whatever was lost, repeated,       *)
(* reordered or kept from before a restart.                                *)
AddressValidated ==
  ValidateAddr =>
    \A k \in conns :
      \E h \in heard :
        /\ h[1] = k.packet.client
        /\ h[2].to = k.packet.from
        /\ h[2].token.secret = secret
        /\ k.at <= h[2].token.time + Window

(* The original_connection_id a connection announces is what its client    *)
(* expects: the client's first destination id if it followed a Retry, none *)
(* if it did not.  A client closes the handshake over any other.           *)
OriginalIdFits ==
  \A k \in conns :
    k.ocid = IF k.packet.dcid = k.packet.client THEN None ELSE k.packet.client

(* With -V the copies of a client's packets, of either type, sent before   *)
(* or after the Retry, never make a second connection next to its first.   *)
OneConnectionPerClient ==
  ValidateAddr =>
    \A j, k \in conns : j.packet.client = k.packet.client => j = k
=============================================================================
