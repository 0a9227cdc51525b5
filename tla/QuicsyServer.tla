---------------------------- MODULE QuicsyServer ----------------------------
(***************************************************************************)
(* The UDP server of src/quicsy_server.cc: the two routing tables          *)
(* (handlers_, keyed by the source connection id the server chose, and     *)
(* ctos_, every other connection id -> that key) and the life of a Handler *)
(* from its first Initial to its removal.                                  *)
(*                                                                         *)
(* The program is one libev loop, so a callback is one step: writecb,      *)
(* timeoutcb, retransmitcb, and one turn of the loop of Server::on_read    *)
(* for each datagram.  What ngtcp2 answers is a nondeterministic choice    *)
(* over the results the code distinguishes.  Whether an Initial is         *)
(* accepted, refused or answered with a Retry is a choice here, too.  A    *)
(* handler is identified with its scid_.                                   *)
(*                                                                         *)
(* The ids the server draws are random and long enough not to meet each    *)
(* other or what clients choose; but a client may start a connection with  *)
(* any id it knows, those the server drew earlier included.                *)
(***************************************************************************)
EXTENDS Naturals, FiniteSets

CONSTANTS
  ClientCid,      (* destination ids clients make up for their Initials      *)
  ServerCid,      (* the ids the server draws at random                      *)
  NoCid,          (* no entry / pscid_.datalen = 0                           *)
  PreferredAddr,  (* --preferred-ipv4-addr or -ipv6-addr was given           *)
  CidLimit        (* bound on the live ids of a connection                   *)

ASSUME ServerAssumption ==
  /\ ClientCid \cap ServerCid = {}
  /\ NoCid \notin ClientCid \cup ServerCid
  /\ PreferredAddr \in BOOLEAN
  /\ CidLimit \in Nat

Cid == ClientCid \cup ServerCid

VARIABLES
  conn,      (* handlers_: "none", or the state of the handler's ngtcp2_conn  *)
  draining,  (* handlers whose draining_ is true                              *)
  closebuf,  (* handlers whose conn_closebuf_ holds a packet                  *)
  timer,     (* timer_: "off", armed with the idle timeout, or with 3 * PTO   *)
  rttimer,   (* handlers whose rttimer_ is active                             *)
  wev,       (* handlers whose wev_ is active                                 *)
  rcid,      (* rcid_ of each handler: the id its client started it with      *)
  pscid,     (* pscid_ of each handler                                        *)
  scids,     (* the ids ngtcp2 lists for each handler                         *)
  ctos,      (* ctos_: id -> key in handlers_, NoCid where there is no entry  *)
  used,      (* the server ids drawn so far                                   *)
  stopping,  (* SIGINT broke the loop, the destructor runs disconnect()       *)
  sent       (* what the last step sent: pairs <<handler or dcid, kind>>      *)

PacketKind == {"data", "close", "retry", "stateless close", "version negotiation"}

lifecycle == <<conn, draining, closebuf, timer, rttimer, wev>>
tables    == <<rcid, pscid, scids, ctos, used>>
vars      == <<lifecycle, tables, stopping, sent>>

Handlers == {h \in ServerCid : conn[h] # "none"}

(* ngtcp2 is in its closing or its draining period *)
Terminal(h) == conn[h] \in {"closing", "draining"}

(* The handler a datagram for c is given to: handlers_ is searched first.  *)
Route(c) == IF c \in Handlers THEN c ELSE ctos[c]

-----------------------------------------------------------------------------
(* The tables                                                              *)

Emplace(f, S, h) == [c \in Cid |-> IF c \in S /\ f[c] = NoCid THEN h ELSE f[c]]

Erase(f, S) == [c \in Cid |-> IF c \in S THEN NoCid ELSE f[c]]

(* Mutant: dissociate_cid is not called for retired ids. *)
CidCallbacksKeepRetired(h) ==
  \E add \in SUBSET (ServerCid \ used), del \in SUBSET scids[h] :
    /\ Cardinality(scids[h] \cup add) <= CidLimit
    /\ del # scids[h]
    /\ ctos'  = Emplace(ctos, add, h)
    /\ scids' = [scids EXCEPT ![h] = (@ \ del) \cup add]
    /\ used'  = used \cup add
    /\ UNCHANGED <<rcid, pscid>>

(* ngtcp2 calls get_new_connection_id and remove_connection_id from inside *)
(* a read, a write or an expiry: each new id gets an entry of ctos_, each  *)
(* retired one loses it.  A connection keeps at least one id.              *)
CidCallbacks(h) ==
  \E add \in SUBSET (ServerCid \ used), del \in SUBSET scids[h] :
    /\ Cardinality(scids[h] \cup add) <= CidLimit
    /\ del # scids[h]
    /\ ctos'  = Emplace(Erase(ctos, del), add, h)
    /\ scids' = [scids EXCEPT ![h] = (@ \ del) \cup add]
    /\ used'  = used \cup add
    /\ UNCHANGED <<rcid, pscid>>

(* Mutant: the client's first id keeps its entry. *)
EraseAllButRcid(h) == ctos' = Erase(ctos, {pscid[h]} \cup scids[h])

(* Server::remove looks up every id of the connection. *)
EraseRoutes(h) == ctos' = Erase(ctos, {rcid[h], pscid[h]} \cup scids[h])

(* Mutant: the destructor leaves rttimer_ active. *)
StopAllButRttimer(h) ==
  /\ timer' = [timer EXCEPT ![h] = "off"]
  /\ wev'   = wev \ {h}
  /\ UNCHANGED rttimer

(* The destructor's three ev_*_stop. *)
StopWatchers(h) ==
  /\ timer'   = [timer EXCEPT ![h] = "off"]
  /\ wev'     = wev \ {h}
  /\ rttimer' = rttimer \ {h}

(* Server::remove, which destroys the handler.  Ids issued earlier in the  *)
(* same callback are listed by ngtcp2 when remove() asks: they come and go *)
(* within the step.                                                        *)
Remove(h) ==
  /\ EraseRoutes(h)
  /\ StopWatchers(h)
  /\ scids'    = [scids EXCEPT ![h] = {}]
  /\ rcid'     = [rcid EXCEPT ![h] = NoCid]
  /\ pscid'    = [pscid EXCEPT ![h] = NoCid]
  /\ conn'     = [conn EXCEPT ![h] = "none"]
  /\ draining' = draining \ {h}
  /\ closebuf' = closebuf \ {h}
  /\ UNCHANGED used

-----------------------------------------------------------------------------
(* The end of a connection                                                 *)

StartDrainingPeriod(h) ==
  /\ draining' = draining \cup {h}
  /\ rttimer'  = rttimer \ {h}
  /\ timer'    = [timer EXCEPT ![h] = "pto"]

(* Mutant: the close packet is sent but not kept. *)
StartClosingWithoutPacket(h) ==
  /\ conn'     = [conn EXCEPT ![h] = "closing"]
  /\ rttimer'  = rttimer \ {h}
  /\ timer'    = [timer EXCEPT ![h] = "pto"]
  /\ UNCHANGED <<draining, closebuf>>

(* handle_error of a connection that is not closing yet, when ngtcp2       *)
(* writes the close packet: the caller gets NETWORK_ERR_CLOSE_WAIT.        *)
StartClosingPeriod(h) ==
  /\ conn'     = [conn EXCEPT ![h] = "closing"]
  /\ closebuf' = closebuf \cup {h}
  /\ rttimer'  = rttimer \ {h}
  /\ timer'    = [timer EXCEPT ![h] = "pto"]
  /\ UNCHANGED draining

(* handle_error as the callbacks other than disconnect() reach it: on a    *)
(* connection that is not closing.  If the close packet cannot be written  *)
(* it returns -1, and each of those callers removes the handler.  already  *)
(* is what the callback sent before the error.                             *)
FailConnection(h, already, wevNow) ==
  \/ /\ StartClosingPeriod(h)
     /\ CidCallbacks(h)
     /\ wev'  = wevNow
     /\ sent' = already \cup {<<h, "close">>}
  \/ /\ Remove(h)
     /\ sent' = already

-----------------------------------------------------------------------------
(* Server::on_read: a datagram of no known connection                      *)

(* A packet of an unknown version is answered before the tables are read.  *)
Misversioned(d) ==
  /\ sent' = {<<d, "version negotiation">>}
  /\ UNCHANGED <<lifecycle, tables, stopping>>

(* Replies that create no state, and datagrams that are ignored.           *)
Refuse(d) ==
  /\ Route(d) = NoCid
  /\ \/ sent' = {<<d, "stateless close">>}     \* Initial with a bad token
     \/ sent' = {<<d, "retry">>}               \* 0-RTT, or no token while validating
     \/ sent' = {}                             \* ngtcp2_accept refuses it
  /\ UNCHANGED <<lifecycle, tables, stopping>>

(* An accepted Initial may carry any id that leads nowhere: one its client *)
(* made up, or one the server drew and has retired or removed since.       *)
Startable(d) == d \in ClientCid \cup used /\ Route(d) = NoCid

(* The Initial was accepted and a Handler built, but its init(), on_read() *)
(* or on_write() fails: the object dies unregistered.  It may have sent a  *)
(* flight, a CONNECTION_CLOSE, or be answered with a Retry.                *)
NewDropped(d) ==
  /\ Startable(d)
  /\ \/ sent' \in SUBSET {<<d, "data">>, <<d, "close">>}
     \/ sent' = {<<d, "retry">>}
  /\ UNCHANGED <<lifecycle, tables, stopping>>

(* schedule_retransmit: rttimer_ repeats after the time to ngtcp2's expiry. *)
(* An expiry that is exactly now makes that 0, for which ev_timer_again    *)
(* stops the timer instead.                                                *)
ScheduleRetransmit(h) == rttimer' \in {rttimer \cup {h}, rttimer \ {h}}

(* The Initial leads to a registered Handler, with the drawn id s and, if  *)
(* p is an id, the one of the preferred address.  No id is issued before   *)
(* the handshake completes, which takes a later datagram.                  *)
Register(d, s, p) ==
  LET own == {p} \ {NoCid} IN
    /\ conn'    = [conn EXCEPT ![s] = "active"]
    /\ timer'   = [timer EXCEPT ![s] = "idle"]
    /\ ScheduleRetransmit(s)
    /\ wev'     \in {wev, wev \cup {s}}
    /\ rcid'    = [rcid EXCEPT ![s] = d]
    /\ pscid'   = [pscid EXCEPT ![s] = p]
    /\ scids'   = [scids EXCEPT ![s] = {s} \cup own]
    /\ ctos'    = Emplace(ctos, {d} \cup own, s)
    /\ used'    = used \cup {s} \cup own
    /\ sent'    \in {{}, {<<s, "data">>}}

PscidChoice(s) == IF PreferredAddr THEN ServerCid \ (used \cup {s}) ELSE {NoCid}

NewRegistered(d) ==
  /\ Startable(d)
  /\ \E s \in ServerCid \ used : \E p \in PscidChoice(s) : Register(d, s, p)
  /\ UNCHANGED <<draining, closebuf, stopping>>

-----------------------------------------------------------------------------
(* Server::on_read: a datagram of handler h                                *)

(* In the closing period every datagram is answered with the close packet. *)
ReadClosing(h) ==
  /\ conn[h] = "closing"
  /\ sent' = {<<h, "close">>}
  /\ UNCHANGED <<lifecycle, tables, stopping>>

ReadDraining(h) ==
  /\ conn[h] # "closing"
  /\ h \in draining
  /\ sent' = {}
  /\ UNCHANGED <<lifecycle, tables, stopping>>

Readable(h) == conn[h] # "closing" /\ h \notin draining

ReadOk(h) ==
  /\ Readable(h)
  /\ CidCallbacks(h)
  /\ timer' = [timer EXCEPT ![h] = "idle"]
  /\ wev'   = wev \cup {h}
  /\ sent'  = {}
  /\ UNCHANGED <<conn, draining, closebuf, rttimer, stopping>>

(* NGTCP2_ERR_DRAINING: the peer closed the connection. *)
ReadPeerClosed(h) ==
  /\ Readable(h)
  /\ conn' = [conn EXCEPT ![h] = "draining"]
  /\ StartDrainingPeriod(h)
  /\ CidCallbacks(h)
  /\ sent' = {}
  /\ UNCHANGED <<closebuf, wev, stopping>>

ReadError(h) ==
  /\ Readable(h)
  /\ FailConnection(h, {}, wev)
  /\ UNCHANGED stopping

(* NETWORK_ERR_RETRY is not CLOSE_WAIT: the handler is removed. *)
ReadRetry(h) ==
  /\ Readable(h)
  /\ Remove(h)
  /\ sent' = {}
  /\ UNCHANGED stopping

Receive(c) ==
  /\ Route(c) \in Handlers
  /\ LET h == Route(c) IN
       \/ ReadClosing(h)
       \/ ReadDraining(h)
       \/ ReadOk(h)
       \/ ReadPeerClosed(h)
       \/ ReadError(h)
       \/ ReadRetry(h)

-----------------------------------------------------------------------------
(* Handler::on_write, with wevNow what the caller left of wev_             *)

(* write_streams returned 0: maybe packets, then schedule_retransmit.  A   *)
(* full batch starts wev_ again.                                           *)
WriteOk(h, wevNow) ==
  /\ CidCallbacks(h)
  /\ ScheduleRetransmit(h)
  /\ \/ sent' = {} /\ wev' = wevNow /\ UNCHANGED timer
     \/ /\ sent'  = {<<h, "data">>}
        /\ timer' = [timer EXCEPT ![h] = "idle"]
        /\ wev'  \in {wevNow, wevNow \cup {h}}
  /\ UNCHANGED <<conn, draining, closebuf>>

(* Mutants: on_write has no check, or checks the closing period only. *)
OnWriteUnchecked(h, wevNow) == WriteOk(h, wevNow)

OnWriteChecksClosing(h, wevNow) ==
  IF conn[h] = "closing"
  THEN /\ sent' = {}
       /\ wev' = wevNow
       /\ UNCHANGED <<conn, draining, closebuf, timer, rttimer, tables>>
  ELSE WriteOk(h, wevNow)

OnWrite(h, wevNow) ==
  \/ /\ Terminal(h)
     /\ sent' = {}
     /\ wev' = wevNow
     /\ UNCHANGED <<conn, draining, closebuf, timer, rttimer, tables>>
  \/ /\ ~Terminal(h)
     /\ \/ WriteOk(h, wevNow)
        \/ FailConnection(h, {}, wevNow)
        \/ FailConnection(h, {<<h, "data">>}, wevNow)

-----------------------------------------------------------------------------
(* The callbacks of the handler's watchers                                 *)

WriteCb(h) ==
  /\ h \in wev
  /\ OnWrite(h, wev \ {h})
  /\ UNCHANGED stopping

(* rttimer_ repeats: it is active while its callback runs. *)
RetransmitCb(h) ==
  /\ h \in rttimer
  /\ \/ FailConnection(h, {}, wev)      \* handle_expiry
     \/ OnWrite(h, wev)
  /\ UNCHANGED stopping

(* Mutant: asks ngtcp2 whether the connection drains, not draining_. *)
PeriodOverByNgtcp2(h) ==
  /\ timer[h] # "off"
  /\ Terminal(h)
  /\ Remove(h)
  /\ sent' = {}
  /\ UNCHANGED stopping

(* The closing or draining period is over. *)
PeriodOver(h) ==
  /\ timer[h] # "off"
  /\ conn[h] = "closing" \/ h \in draining
  /\ Remove(h)
  /\ sent' = {}
  /\ UNCHANGED stopping

(* The idle timer: the handler is drained, ngtcp2 is not told. *)
IdleTimeout(h) ==
  /\ timer[h] # "off"
  /\ conn[h] # "closing"
  /\ h \notin draining
  /\ StartDrainingPeriod(h)
  /\ sent' = {}
  /\ UNCHANGED <<conn, closebuf, wev, tables, stopping>>

TimeoutCb(h) == PeriodOver(h) \/ IdleTimeout(h)

-----------------------------------------------------------------------------
(* Shutdown                                                                *)

SigInt ==
  /\ ~stopping
  /\ stopping' = TRUE
  /\ sent' = {}
  /\ UNCHANGED <<lifecycle, tables>>

(* Mutant: removes only when handle_error returned CLOSE_WAIT. *)
DisconnectIfClosed(h) ==
  /\ stopping
  /\ h \in Handlers
  /\ conn[h] # "draining"
  /\ Remove(h)
  /\ sent' = {<<h, "close">>}
  /\ UNCHANGED stopping

(* One turn of the loop of Server::disconnect: handle_error, then remove.  *)
(* ngtcp2 writes no close packet for a connection in its draining period.  *)
Disconnect(h) ==
  /\ stopping
  /\ h \in Handlers
  /\ Remove(h)
  /\ \/ conn[h] # "draining" /\ sent' = {<<h, "close">>}
     \/ conn[h] # "closing" /\ sent' = {}
  /\ UNCHANGED stopping

-----------------------------------------------------------------------------
Init ==
  /\ conn     = [h \in ServerCid |-> "none"]
  /\ timer    = [h \in ServerCid |-> "off"]
  /\ draining = {}
  /\ closebuf = {}
  /\ rttimer  = {}
  /\ wev      = {}
  /\ rcid     = [h \in ServerCid |-> NoCid]
  /\ pscid    = [h \in ServerCid |-> NoCid]
  /\ scids    = [h \in ServerCid |-> {}]
  /\ ctos     = [c \in Cid |-> NoCid]
  /\ used     = {}
  /\ stopping = FALSE
  /\ sent     = {}

(* A callback runs only while the loop does. *)
Callback ==
  /\ ~stopping
  /\ \/ \E c \in Cid :
          Misversioned(c) \/ Refuse(c) \/ NewDropped(c) \/ NewRegistered(c) \/ Receive(c)
     \/ \E h \in Handlers : WriteCb(h) \/ RetransmitCb(h) \/ TimeoutCb(h)

Next == Callback \/ SigInt \/ \E h \in ServerCid : Disconnect(h)

(* libev fires an active timer, and nothing re-arms timer_ of a handler    *)
(* whose period runs except a late write after an idle timeout (which is   *)
(* bounded: no datagram of it is read any more).  The destructor's loop    *)
(* runs to its end.  Nothing is assumed of clients, sockets or SIGINT.     *)
Fairness ==
  /\ \A h \in ServerCid : WF_vars(~stopping /\ PeriodOver(h))
  /\ \A h \in ServerCid : WF_vars(Disconnect(h))

Spec == Init /\ [][Next]_vars

FairSpec == Spec /\ Fairness

-----------------------------------------------------------------------------
(* Properties                                                              *)

TypeOK ==
  /\ conn \in [ServerCid -> {"none", "active", "closing", "draining"}]
  /\ timer \in [ServerCid -> {"off", "idle", "pto"}]
  /\ draining \subseteq ServerCid
  /\ closebuf \subseteq ServerCid
  /\ rttimer \subseteq ServerCid
  /\ wev \subseteq ServerCid
  /\ rcid \in [ServerCid -> Cid \cup {NoCid}]
  /\ pscid \in [ServerCid -> ServerCid \cup {NoCid}]
  /\ scids \in [ServerCid -> SUBSET ServerCid]
  /\ ctos \in [Cid -> ServerCid \cup {NoCid}]
  /\ used \subseteq ServerCid
  /\ stopping \in BOOLEAN
  /\ sent \subseteq Cid \X PacketKind

(* Server::on_read asserts that the handler an entry of ctos_ names is in  *)
(* handlers_: whatever callbacks, retirements and removals came before, no *)
(* entry outlives its handler.                                             *)
NoDanglingRoute == \A c \in Cid : ctos[c] # NoCid => ctos[c] \in Handlers

(* ctos_ leads only to live connections, from the id the client started    *)
(* one with and the ids it has issued and not retired; each issued id      *)
(* keeps its entry as long as its connection has it.  So does the client's *)
(* id, unless it is one the server drew for a preferred address: remove()  *)
(* of the connection that once announced it takes that route away.         *)
RoutesExact ==
  \A c \in Cid, h \in ServerCid :
    /\ ctos[c] = h => h \in Handlers /\ (c = rcid[h] \/ c \in scids[h] \ {h})
    /\ h \in Handlers /\ c \in scids[h] \ {h} => ctos[c] = h
    /\ h \in Handlers /\ c = rcid[h] =>
         ctos[c] = h \/ (PreferredAddr /\ c \in ServerCid)

(* A removed handler has no armed watcher left that would call back into   *)
(* it, and a registered one always has timer_ armed, so it cannot be       *)
(* forgotten.                                                              *)
WatchersMatchHandlers ==
  /\ rttimer \cup wev \cup draining \cup closebuf \subseteq Handlers
  /\ \A h \in ServerCid : timer[h] # "off" <=> h \in Handlers

(* send_conn_close asserts that conn_closebuf_ holds the close packet: it  *)
(* does for every connection a datagram or disconnect() can find closing.  *)
ClosePacketReady == \A h \in ServerCid : conn[h] = "closing" => h \in closebuf

(* From the start of a closing or draining period to its end nothing       *)
(* rearms the retransmission timer or replaces the 3 * PTO in timer_ by an *)
(* idle timeout, whatever writes were pending when the period began.       *)
PeriodUndisturbed ==
  \A h \in ServerCid : Terminal(h) => h \notin rttimer /\ timer[h] = "pto"

(* Once closing, a connection sends its close packet and nothing else; one *)
(* the peer closed sends nothing at all, not even at shutdown; and neither *)
(* leaves that state but by its removal.                                   *)
TerminalIsFinal ==
  [][\A h \in ServerCid :
       /\ conn[h] = "closing" =>
            /\ conn'[h] \in {"closing", "none"}
            /\ <<h, "data">> \notin sent'
       /\ conn[h] = "draining" =>
            /\ conn'[h] \in {"draining", "none"}
            /\ \A k \in {"data", "close"} : <<h, k>> \notin sent']_vars

(* The tables implement the map from ids to connections they stand for:    *)
(* a datagram is never handed to another connection than the one its id    *)
(* was given to, and an id loses its connection only by its retirement, or *)
(* by the end of that connection or of one opened with the same id, in any *)
(* order of issue, retirement, reuse by a client, removal and shutdown.    *)
Routing ==
  INSTANCE CidRouting WITH
    Key <- ServerCid, Id <- Cid, Nobody <- NoCid,
    owner <- [c \in Cid |-> Route(c)], drawn <- used,
    first <- [h \in ServerCid |-> {rcid[h], pscid[h]} \ {NoCid}]

RoutesFaithfully == Routing!Spec

(* Every connection that starts to close or drain is removed.              *)
PeriodsEnd ==
  \A h \in ServerCid :
    (conn[h] = "closing" \/ h \in draining) ~> h \notin Handlers

(* After SIGINT every connection is closed and removed.                    *)
ShutdownCompletes == stopping ~> Handlers = {}
=============================================================================
