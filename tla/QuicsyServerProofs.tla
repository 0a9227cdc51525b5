-------------------------- MODULE QuicsyServerProofs --------------------------
(***************************************************************************)
(* Theorems about QuicsyServer, for every set of ids, with and without a   *)
(* preferred address.                                                      *)
(***************************************************************************)
EXTENDS QuicsyServer, TLAPS

(***************************************************************************)
(* Type correctness                                                        *)
(***************************************************************************)

(* What the handler an action is about is known to be. *)
LEMMA RouteIsHandler ==
  ASSUME TypeOK, NEW c \in Cid, Route(c) \in Handlers
  PROVE  Route(c) \in ServerCid
BY DEF Handlers

(* Every packet of a known id is well typed. *)
LEMMA PacketTyped ==
  ASSUME NEW c \in Cid
  PROVE  /\ <<c, "data">> \in Cid \X PacketKind
         /\ <<c, "close">> \in Cid \X PacketKind
         /\ <<c, "retry">> \in Cid \X PacketKind
         /\ <<c, "stateless close">> \in Cid \X PacketKind
         /\ <<c, "version negotiation">> \in Cid \X PacketKind
<1>1. /\ "data" \in PacketKind
      /\ "close" \in PacketKind
      /\ "retry" \in PacketKind
      /\ "stateless close" \in PacketKind
      /\ "version negotiation" \in PacketKind
  BY DEF PacketKind
<1> QED
  BY <1>1

(* Both kinds of ids are ids. *)
LEMMA ServerIdIsId == ServerCid \subseteq Cid /\ ClientCid \subseteq Cid
BY DEF Cid

(* The callbacks for ids, the removal and the error path keep the types. *)
LEMMA CidCallbacksType ==
  ASSUME TypeOK, NEW h \in ServerCid, CidCallbacks(h)
  PROVE  /\ rcid' \in [ServerCid -> Cid \cup {NoCid}]
         /\ pscid' \in [ServerCid -> ServerCid \cup {NoCid}]
         /\ scids' \in [ServerCid -> SUBSET ServerCid]
         /\ ctos' \in [Cid -> ServerCid \cup {NoCid}]
         /\ used' \subseteq ServerCid
<1>1. PICK add \in SUBSET (ServerCid \ used) : \E del \in SUBSET scids[h] :
           /\ ctos'  = Emplace(Erase(ctos, del), add, h)
           /\ scids' = [scids EXCEPT ![h] = (@ \ del) \cup add]
           /\ used'  = used \cup add
           /\ UNCHANGED <<rcid, pscid>>
  BY DEF CidCallbacks
<1>2. PICK del \in SUBSET scids[h] :
           /\ ctos'  = Emplace(Erase(ctos, del), add, h)
           /\ scids' = [scids EXCEPT ![h] = (@ \ del) \cup add]
           /\ used'  = used \cup add
           /\ UNCHANGED <<rcid, pscid>>
  BY <1>1
<1>3. ctos' \in [Cid -> ServerCid \cup {NoCid}]
  BY <1>2 DEF TypeOK, Emplace, Erase
<1>4. scids[h] \subseteq ServerCid
  BY DEF TypeOK
<1>5. (scids[h] \ del) \cup add \in SUBSET ServerCid
  BY <1>4
<1> QED
  BY <1>2, <1>3, <1>5 DEF TypeOK

(* Server::remove keeps the types. *)
LEMMA RemoveType ==
  ASSUME TypeOK, NEW h \in ServerCid, Remove(h), UNCHANGED stopping,
         sent' \subseteq Cid \X PacketKind
  PROVE  TypeOK'
BY DEF TypeOK, Remove, EraseRoutes, StopWatchers, Erase

(* handle_error with its two outcomes keeps the types. *)
LEMMA FailConnectionType ==
  ASSUME TypeOK, NEW h \in ServerCid, NEW already \in SUBSET {<<h, "data">>},
         NEW wevNow \in SUBSET ServerCid,
         FailConnection(h, already, wevNow), UNCHANGED stopping
  PROVE  TypeOK'
<1>1. CASE /\ StartClosingPeriod(h)
           /\ CidCallbacks(h)
           /\ wev'  = wevNow
           /\ sent' = already \cup {<<h, "close">>}
  <2>1. sent' \subseteq Cid \X PacketKind
    BY <1>1, PacketTyped, ServerIdIsId
  <2> QED
    BY <1>1, <2>1, CidCallbacksType DEF TypeOK, StartClosingPeriod
<1>2. CASE Remove(h) /\ sent' = already
  <2>1. sent' \subseteq Cid \X PacketKind
    BY <1>2, PacketTyped, ServerIdIsId
  <2> QED
    BY <1>2, <2>1, RemoveType
<1> QED
  BY <1>1, <1>2 DEF FailConnection

(* Handler::on_write keeps the types. *)
LEMMA OnWriteType ==
  ASSUME TypeOK, NEW h \in ServerCid, NEW wevNow \in SUBSET ServerCid,
         OnWrite(h, wevNow), UNCHANGED stopping
  PROVE  TypeOK'
<1>1. CASE /\ sent' = {}
           /\ wev' = wevNow
           /\ UNCHANGED <<conn, draining, closebuf, timer, rttimer, tables>>
  BY <1>1 DEF TypeOK, tables
<1>2. CASE WriteOk(h, wevNow)
  <2>1. sent' \subseteq Cid \X PacketKind
    BY <1>2, PacketTyped, ServerIdIsId DEF WriteOk
  <2> QED
    BY <1>2, <2>1, CidCallbacksType DEF TypeOK, WriteOk, ScheduleRetransmit
<1>3. CASE FailConnection(h, {}, wevNow)
  BY <1>3, FailConnectionType
<1>4. CASE FailConnection(h, {<<h, "data">>}, wevNow)
  BY <1>4, FailConnectionType
<1> QED
  BY <1>1, <1>2, <1>3, <1>4 DEF OnWrite

(* A registration keeps the types. *)
LEMMA NewRegisteredType ==
  ASSUME TypeOK, NEW d \in Cid, NewRegistered(d)
  PROVE  TypeOK'
<1>0. PICK s \in ServerCid \ used : \E p \in PscidChoice(s) : Register(d, s, p)
  BY DEF NewRegistered
<1>1. PICK p \in PscidChoice(s) : Register(d, s, p)
  BY <1>0
<1>2. p \in ServerCid \cup {NoCid}
  BY DEF PscidChoice
<1>3. {s} \cup ({p} \ {NoCid}) \subseteq ServerCid
  BY <1>2
<1>4. Emplace(ctos, {d} \cup ({p} \ {NoCid}), s) \in [Cid -> ServerCid \cup {NoCid}]
  BY DEF TypeOK, Emplace
<1>5. sent' \subseteq Cid \X PacketKind
  BY <1>1, PacketTyped, ServerIdIsId DEF Register
<1> QED
  BY <1>1, <1>2, <1>3, <1>4, <1>5 DEF TypeOK, NewRegistered, Register, ScheduleRetransmit

(* A datagram given to a handler keeps the types. *)
LEMMA ReceiveType ==
  ASSUME TypeOK, NEW c \in Cid, Receive(c)
  PROVE  TypeOK'
<1> DEFINE h == Route(c)
<1>0. h \in ServerCid
  BY RouteIsHandler DEF Receive
<1>1. CASE ReadClosing(h)
  <2>1. sent' \subseteq Cid \X PacketKind
    BY <1>0, <1>1, PacketTyped, ServerIdIsId DEF ReadClosing
  <2> QED
    BY <1>1, <2>1 DEF TypeOK, ReadClosing, lifecycle, tables
<1>2. CASE ReadDraining(h)
  BY <1>0, <1>2 DEF TypeOK, ReadDraining, lifecycle, tables
<1>3. CASE ReadOk(h)
  BY <1>0, <1>3, CidCallbacksType DEF TypeOK, ReadOk
<1>4. CASE ReadPeerClosed(h)
  BY <1>0, <1>4, CidCallbacksType DEF TypeOK, ReadPeerClosed, StartDrainingPeriod
<1>5. CASE ReadError(h)
  BY <1>0, <1>5, FailConnectionType DEF TypeOK, ReadError
<1>6. CASE ReadRetry(h)
  BY <1>0, <1>6, RemoveType DEF ReadRetry
<1> QED
  BY <1>1, <1>2, <1>3, <1>4, <1>5, <1>6 DEF Receive

(* The type invariant is inductive. *)
LEMMA TypeStep == TypeOK /\ [Next]_vars => TypeOK'
<1> SUFFICES ASSUME TypeOK, [Next]_vars PROVE TypeOK'
  OBVIOUS
<1>1. CASE UNCHANGED vars
  BY <1>1 DEF TypeOK, vars, lifecycle, tables
<1>2. ASSUME NEW c \in Cid, Misversioned(c) \/ Refuse(c) PROVE TypeOK'
  <2>1. sent' \subseteq Cid \X PacketKind
    BY <1>2, PacketTyped DEF Misversioned, Refuse
  <2> QED
    BY <1>2, <2>1 DEF TypeOK, Misversioned, Refuse, lifecycle, tables
<1>3. ASSUME NEW c \in Cid, NewDropped(c) PROVE TypeOK'
  <2>1. sent' \subseteq Cid \X PacketKind
    BY <1>3, PacketTyped DEF NewDropped
  <2> QED
    BY <1>3, <2>1 DEF TypeOK, NewDropped, lifecycle, tables
<1>4. ASSUME NEW c \in Cid, NewRegistered(c) PROVE TypeOK'
  BY <1>4, NewRegisteredType
<1>5. ASSUME NEW c \in Cid, Receive(c) PROVE TypeOK'
  BY <1>5, ReceiveType
<1>6. ASSUME NEW h \in Handlers, WriteCb(h) PROVE TypeOK'
  <2>1. h \in ServerCid /\ wev \ {h} \in SUBSET ServerCid
    BY DEF Handlers, TypeOK
  <2> QED
    BY <1>6, <2>1, OnWriteType DEF WriteCb
<1>7. ASSUME NEW h \in Handlers, RetransmitCb(h) PROVE TypeOK'
  <2>1. h \in ServerCid /\ wev \in SUBSET ServerCid
    BY DEF Handlers, TypeOK
  <2> QED
    BY <1>7, <2>1, OnWriteType, FailConnectionType DEF RetransmitCb
<1>8. ASSUME NEW h \in Handlers, PeriodOver(h) PROVE TypeOK'
  BY <1>8, RemoveType DEF PeriodOver, Handlers
<1>9. ASSUME NEW h \in Handlers, IdleTimeout(h) PROVE TypeOK'
  BY <1>9 DEF TypeOK, IdleTimeout, StartDrainingPeriod, Handlers, tables
<1>10. CASE SigInt
  <2>1. stopping' \in BOOLEAN
    BY <1>10 DEF SigInt
  <2> QED
    BY <1>10, <2>1 DEF TypeOK, SigInt, lifecycle, tables
<1>11. ASSUME NEW h \in ServerCid, Disconnect(h) PROVE TypeOK'
  <2>1. sent' \subseteq Cid \X PacketKind
    BY <1>11, PacketTyped, ServerIdIsId DEF Disconnect
  <2> QED
    BY <1>11, <2>1, RemoveType DEF Disconnect
<1> QED
  BY <1>1, <1>2, <1>3, <1>4, <1>5, <1>6, <1>7, <1>8, <1>9, <1>10, <1>11
     DEF Next, Callback, TimeoutCb

(* Every variable keeps its type in every reachable state. *)
THEOREM TypeCorrect == Spec => []TypeOK
<1>1. Init => TypeOK
  <2> SUFFICES ASSUME Init PROVE TypeOK
    OBVIOUS
  <2>1. stopping \in BOOLEAN
    BY DEF Init
  <2> QED
    BY <2>1 DEF Init, TypeOK
<1> QED
  BY <1>1, TypeStep, PTL DEF Spec

(***************************************************************************)
(* The routing tables                                                      *)
(***************************************************************************)

(* A drawn id is never drawn again, so what names, or belongs to, a        *)
(* connection is not new, and neither is an id a connection was opened     *)
(* with if the server ever drew it; handlers_ keys have no entry in ctos_. *)
IdsDrawn ==
  /\ \A h \in Handlers : h \in used /\ ctos[h] = NoCid
  /\ \A h \in ServerCid : scids[h] \subseteq used
  /\ \A c \in ServerCid : c \notin used => ctos[c] = NoCid
  /\ \A h \in ServerCid : pscid[h] # NoCid => pscid[h] \in used /\ PreferredAddr
  /\ \A h \in ServerCid : rcid[h] \in ServerCid => rcid[h] \in used

(* The ids a connection was opened with name no connection; the client's   *)
(* is not issued to anybody, a preferred address's to nobody else.         *)
FirstIdsApart ==
  \A g \in ServerCid :
    /\ rcid[g] \notin Handlers /\ pscid[g] \notin Handlers
    /\ \A h \in ServerCid : /\ rcid[g] \notin scids[h]
                            /\ pscid[g] \in scids[h] => g = h

(* A removed handler has left nothing of itself in the tables. *)
NothingLeft ==
  \A h \in ServerCid : h \notin Handlers => rcid[h] = NoCid /\ scids[h] = {}

RoutingInv == RoutesExact /\ IdsDrawn /\ FirstIdsApart /\ NothingLeft

(* What a step does to the tables, as far as routing is concerned. *)
TablesUnchanged == UNCHANGED <<ctos, rcid, pscid, scids, used>> /\ Handlers' = Handlers

Reissued(h) == CidCallbacks(h) /\ Handlers' = Handlers

(* handle_error either reissues ids or removes the handler. *)
LEMMA FailConnectionShape ==
  ASSUME TypeOK, NEW h \in Handlers, NEW already, NEW wevNow,
         FailConnection(h, already, wevNow)
  PROVE  Reissued(h) \/ Remove(h)
<1>1. CASE StartClosingPeriod(h) /\ CidCallbacks(h)
  <2>1. Handlers' = Handlers
    BY <1>1 DEF StartClosingPeriod, Handlers, TypeOK
  <2> QED
    BY <1>1, <2>1 DEF Reissued
<1> QED
  BY <1>1 DEF FailConnection

(* on_write leaves the tables alone, reissues ids or removes the handler. *)
LEMMA OnWriteShape ==
  ASSUME TypeOK, NEW h \in Handlers, NEW wevNow, OnWrite(h, wevNow)
  PROVE  TablesUnchanged \/ Reissued(h) \/ Remove(h)
<1>1. CASE UNCHANGED <<conn, draining, closebuf, timer, rttimer, tables>>
  BY <1>1 DEF TablesUnchanged, tables, Handlers
<1>2. CASE WriteOk(h, wevNow)
  BY <1>2 DEF WriteOk, Reissued, Handlers
<1> QED
  BY <1>1, <1>2, FailConnectionShape DEF OnWrite

(* So does a datagram given to a handler. *)
LEMMA ReceiveShape ==
  ASSUME TypeOK, NEW c \in Cid, Receive(c)
  PROVE  TablesUnchanged \/ \E h \in Handlers : Reissued(h) \/ Remove(h)
<1> DEFINE h == Route(c)
<1>0. h \in Handlers
  BY DEF Receive
<1>1. CASE ReadClosing(h) \/ ReadDraining(h)
  BY <1>1 DEF ReadClosing, ReadDraining, TablesUnchanged, lifecycle, tables, Handlers
<1>2. CASE ReadOk(h)
  <2>1. Reissued(h)
    BY <1>2 DEF ReadOk, Reissued, Handlers
  <2> QED
    BY <1>0, <2>1
<1>3. CASE ReadPeerClosed(h)
  <2>1. Handlers' = Handlers
    BY <1>0, <1>3 DEF ReadPeerClosed, Handlers, TypeOK
  <2>2. Reissued(h)
    BY <1>3, <2>1 DEF ReadPeerClosed, Reissued
  <2> QED
    BY <1>0, <2>2
<1>4. CASE ReadError(h)
  <2>1. Reissued(h) \/ Remove(h)
    BY <1>0, <1>4, FailConnectionShape DEF ReadError
  <2> QED
    BY <1>0, <2>1
<1>5. CASE ReadRetry(h)
  BY <1>0, <1>5 DEF ReadRetry
<1> QED
  BY <1>1, <1>2, <1>3, <1>4, <1>5 DEF Receive

(* Every step leaves the tables alone, lets one connection issue and       *)
(* retire ids, removes one handler or registers one.                       *)
LEMMA StepShape ==
  ASSUME TypeOK, [Next]_vars
  PROVE  \/ TablesUnchanged
         \/ \E h \in Handlers : Reissued(h) \/ Remove(h)
         \/ \E c \in Cid : NewRegistered(c)
<1>1. CASE UNCHANGED vars
  BY <1>1 DEF vars, lifecycle, tables, TablesUnchanged, Handlers
<1>2. ASSUME NEW c \in Cid, Misversioned(c) \/ Refuse(c) \/ NewDropped(c) PROVE TablesUnchanged
  BY <1>2 DEF Misversioned, Refuse, NewDropped, lifecycle, tables, TablesUnchanged, Handlers
<1>3. ASSUME NEW h \in Handlers, WriteCb(h)
      PROVE  TablesUnchanged \/ Reissued(h) \/ Remove(h)
  BY <1>3, OnWriteShape DEF WriteCb
<1>4. ASSUME NEW h \in Handlers, RetransmitCb(h)
      PROVE  TablesUnchanged \/ Reissued(h) \/ Remove(h)
  BY <1>4, OnWriteShape, FailConnectionShape DEF RetransmitCb
<1>5. ASSUME NEW h \in Handlers, PeriodOver(h) PROVE Remove(h)
  BY <1>5 DEF PeriodOver
<1>6. ASSUME NEW h \in Handlers, IdleTimeout(h) PROVE TablesUnchanged
  BY <1>6 DEF IdleTimeout, tables, TablesUnchanged, Handlers
<1>7. CASE SigInt
  BY <1>7 DEF SigInt, lifecycle, tables, TablesUnchanged, Handlers
<1>8. ASSUME NEW h \in ServerCid, Disconnect(h) PROVE h \in Handlers /\ Remove(h)
  BY <1>8 DEF Disconnect
<1> QED
  BY <1>1, <1>2, <1>3, <1>4, <1>5, <1>6, <1>7, <1>8, ReceiveShape
     DEF Next, Callback, TimeoutCb

(* Issuing and retiring ids keeps the routing invariant. *)
LEMMA ReissuedRouting ==
  ASSUME ServerAssumption, TypeOK, RoutingInv, NEW h \in Handlers, Reissued(h)
  PROVE  RoutingInv'
<1>0. h \in ServerCid
  BY DEF Handlers
<1>1. PICK add \in SUBSET (ServerCid \ used) : \E del \in SUBSET scids[h] :
           /\ ctos'  = Emplace(Erase(ctos, del), add, h)
           /\ scids' = [scids EXCEPT ![h] = (@ \ del) \cup add]
           /\ used'  = used \cup add
           /\ UNCHANGED <<rcid, pscid>>
  BY DEF Reissued, CidCallbacks
<1>2. PICK del \in SUBSET scids[h] :
           /\ ctos'  = Emplace(Erase(ctos, del), add, h)
           /\ scids' = [scids EXCEPT ![h] = (@ \ del) \cup add]
           /\ used'  = used \cup add
           /\ UNCHANGED <<rcid, pscid>>
  BY <1>1
<1>3. Handlers' = Handlers
  BY DEF Reissued
<1>4. \A c \in ServerCid \ used : ctos[c] = NoCid
  BY DEF RoutingInv, IdsDrawn
<1>5. ASSUME NEW c \in Cid
      PROVE  ctos'[c] = IF c \in add THEN h ELSE IF c \in del THEN NoCid ELSE ctos[c]
  <2>1. c \in add => ctos[c] = NoCid
    BY <1>4
  <2> QED
    BY <1>2, <2>1 DEF Emplace, Erase
<1>6. \A g \in ServerCid :
        scids'[g] = IF g = h THEN (scids[h] \ del) \cup add ELSE scids[g]
  BY <1>0, <1>2 DEF TypeOK
<1>7. h \in used /\ add \cap used = {} /\ del \subseteq used
  BY <1>0, <1>2 DEF RoutingInv, IdsDrawn
<1>8. RoutesExact'
  <2> SUFFICES ASSUME NEW c \in Cid, NEW g \in ServerCid
               PROVE  /\ ctos'[c] = g => g \in Handlers /\ (c = rcid[g] \/ c \in scids'[g] \ {g})
                      /\ g \in Handlers /\ c \in scids'[g] \ {g} => ctos'[c] = g
                      /\ g \in Handlers /\ c = rcid[g] =>
                           ctos'[c] = g \/ (PreferredAddr /\ c \in ServerCid)
    BY <1>2, <1>3 DEF RoutesExact
  <2>1. /\ ctos[c] = g => g \in Handlers /\ (c = rcid[g] \/ c \in scids[g] \ {g})
        /\ g \in Handlers /\ c \in scids[g] \ {g} => ctos[c] = g
        /\ g \in Handlers /\ c = rcid[g] =>
             ctos[c] = g \/ (PreferredAddr /\ c \in ServerCid)
    BY DEF RoutingInv, RoutesExact
  <2>2. /\ NoCid # g
        /\ rcid[g] \in ServerCid => rcid[g] \in used
        /\ rcid[g] \notin scids[h]
    BY <1>0 DEF ServerAssumption, RoutingInv, IdsDrawn, FirstIdsApart
  <2>3. CASE c \in add
    <3>1. c \in ServerCid /\ c # h /\ \A k \in ServerCid : c \notin scids[k]
      BY <2>3, <1>7 DEF RoutingInv, IdsDrawn
    <3>2. ctos'[c] = h
      BY <2>3, <1>5
    <3> QED
      BY <2>2, <2>3, <3>1, <3>2, <1>6, <1>7
  <2>4. CASE c \in del
    <3>1. c \in ServerCid /\ c \notin add /\ ctos'[c] = NoCid
      BY <2>4, <1>0, <1>5, <1>7 DEF TypeOK
    <3>2. c # h => ctos[c] = h
      BY <2>4, <1>0 DEF RoutingInv, RoutesExact
    <3>3. c = h => ctos[c] = NoCid
      BY DEF RoutingInv, IdsDrawn
    <3> QED
      BY <2>1, <2>2, <2>4, <3>1, <3>2, <3>3, <1>0, <1>6
  <2>5. CASE c \notin add /\ c \notin del
    BY <2>1, <2>5, <1>5, <1>6
  <2> QED
    BY <2>3, <2>4, <2>5
<1>9. IdsDrawn'
  <2>1. ASSUME NEW g \in Handlers PROVE g \in used' /\ ctos'[g] = NoCid
    <3>1. g \in Cid /\ g \in used /\ ctos[g] = NoCid
      BY ServerIdIsId DEF Handlers, RoutingInv, IdsDrawn
    <3> QED
      BY <3>1, <1>2, <1>5, <1>7
  <2>2. ASSUME NEW g \in ServerCid PROVE scids'[g] \subseteq used'
    BY <1>2, <1>6 DEF RoutingInv, IdsDrawn
  <2>3. ASSUME NEW c \in ServerCid, c \notin used' PROVE ctos'[c] = NoCid
    BY <2>3, <1>2, <1>4, <1>5, ServerIdIsId
  <2>4. ASSUME NEW g \in ServerCid, pscid'[g] # NoCid
        PROVE  pscid'[g] \in used' /\ PreferredAddr
    BY <2>4, <1>2 DEF RoutingInv, IdsDrawn
  <2>5. ASSUME NEW g \in ServerCid, rcid'[g] \in ServerCid PROVE rcid'[g] \in used'
    BY <2>5, <1>2 DEF RoutingInv, IdsDrawn
  <2> QED
    BY <1>3, <2>1, <2>2, <2>3, <2>4, <2>5 DEF IdsDrawn
<1>10. FirstIdsApart'
  <2> SUFFICES ASSUME NEW g \in ServerCid, NEW k \in ServerCid
               PROVE  /\ rcid[g] \notin Handlers /\ pscid[g] \notin Handlers
                      /\ rcid[g] \notin scids'[k]
                      /\ pscid[g] \in scids'[k] => g = k
    BY <1>2, <1>3 DEF FirstIdsApart
  <2>1. /\ rcid[g] \notin Handlers /\ pscid[g] \notin Handlers
        /\ rcid[g] \notin scids[k]
        /\ pscid[g] \in scids[k] => g = k
    BY DEF RoutingInv, FirstIdsApart
  <2>2. rcid[g] \notin add /\ pscid[g] \notin add
    BY <1>7 DEF RoutingInv, IdsDrawn, ServerAssumption
  <2> QED
    BY <2>1, <2>2, <1>6
<1>11. NothingLeft'
  BY <1>2, <1>3, <1>6 DEF RoutingInv, NothingLeft
<1> QED
  BY <1>8, <1>9, <1>10, <1>11 DEF RoutingInv

(* Removing a handler keeps the routing invariant. *)
LEMMA RemoveRouting ==
  ASSUME ServerAssumption, TypeOK, RoutingInv, NEW h \in Handlers, Remove(h)
  PROVE  RoutingInv'
<1> DEFINE gone == {rcid[h], pscid[h]} \cup scids[h]
<1>0. h \in ServerCid
  BY DEF Handlers
<1>1. Handlers' = Handlers \ {h}
  BY DEF Remove, Handlers, TypeOK
<1>2. \A c \in Cid : ctos'[c] = IF c \in gone THEN NoCid ELSE ctos[c]
  BY DEF Remove, EraseRoutes, Erase
<1>3. /\ rcid'[h] = NoCid /\ pscid'[h] = NoCid /\ scids'[h] = {}
      /\ \A g \in ServerCid : g # h =>
           rcid'[g] = rcid[g] /\ pscid'[g] = pscid[g] /\ scids'[g] = scids[g]
  BY <1>0 DEF Remove, TypeOK
<1>4. used' = used
  BY DEF Remove
<1>5. NoCid \notin ServerCid /\ NoCid \notin Cid
  BY DEF ServerAssumption, Cid
<1>6. \A c \in Cid : ctos[c] = h => c \in gone
  BY <1>0 DEF RoutingInv, RoutesExact
<1>7. ASSUME NEW g \in Handlers, g # h, NEW c \in scids[g], c # g PROVE c \notin gone
  <2>1. g \in ServerCid /\ c \in Cid /\ ctos[c] = g
    BY <1>7, ServerIdIsId DEF Handlers, TypeOK, RoutingInv, RoutesExact
  <2>2. c # rcid[h] /\ c # pscid[h]
    BY <1>0, <1>7, <2>1 DEF RoutingInv, FirstIdsApart
  <2>3. c \notin scids[h]
    <3>1. c # h
      BY <1>5, <2>1 DEF RoutingInv, IdsDrawn
    <3> QED
      BY <1>0, <1>7, <2>1, <3>1 DEF RoutingInv, RoutesExact
  <2> QED
    BY <2>2, <2>3
<1>8. ASSUME NEW g \in Handlers, g # h, NEW c \in Cid, c = rcid[g], c \in gone
      PROVE  ctos[c] # g \/ (PreferredAddr /\ c \in ServerCid)
  <2>1. g \in ServerCid /\ c \notin scids[h]
    BY <1>0, <1>8 DEF Handlers, RoutingInv, FirstIdsApart
  <2>2. CASE c = pscid[h]
    BY <1>0, <1>5, <2>2 DEF RoutingInv, IdsDrawn, TypeOK
  <2>3. CASE c = rcid[h]
    BY <1>0, <1>8, <2>3 DEF RoutingInv, RoutesExact
  <2> QED
    BY <1>8, <2>1, <2>2, <2>3
<1>9. RoutesExact'
  <2> SUFFICES ASSUME NEW c \in Cid, NEW g \in ServerCid
               PROVE  /\ ctos'[c] = g => g \in Handlers' /\ (c = rcid'[g] \/ c \in scids'[g] \ {g})
                      /\ g \in Handlers' /\ c \in scids'[g] \ {g} => ctos'[c] = g
                      /\ g \in Handlers' /\ c = rcid'[g] =>
                           ctos'[c] = g \/ (PreferredAddr /\ c \in ServerCid)
    BY DEF RoutesExact
  <2>1. /\ ctos[c] = g => g \in Handlers /\ (c = rcid[g] \/ c \in scids[g] \ {g})
        /\ g \in Handlers /\ c \in scids[g] \ {g} => ctos[c] = g
        /\ g \in Handlers /\ c = rcid[g] =>
             ctos[c] = g \/ (PreferredAddr /\ c \in ServerCid)
    BY DEF RoutingInv, RoutesExact
  <2>2. CASE g = h
    BY <2>2, <1>1, <1>2, <1>5, <1>6
  <2>3. CASE g # h
    <3>1. ctos'[c] = g => ctos[c] = g
      BY <1>2, <1>5
    <3>2. g \in Handlers /\ c \in scids[g] \ {g} => c \notin gone
      BY <2>3, <1>7
    <3>3. g \in Handlers /\ c = rcid[g] /\ c \in gone =>
            (PreferredAddr /\ c \in ServerCid)
      <4> SUFFICES ASSUME g \in Handlers, c = rcid[g], c \in gone
                   PROVE  PreferredAddr /\ c \in ServerCid
        OBVIOUS
      <4> QED
        BY <2>1, <2>3, <1>8
    <3> HIDE DEF gone
    <3> QED
      BY <2>1, <2>3, <3>1, <3>2, <3>3, <1>1, <1>2, <1>3
  <2> QED
    BY <2>2, <2>3
<1>10. IdsDrawn'
  <2>1. ASSUME NEW g \in Handlers' PROVE g \in used' /\ ctos'[g] = NoCid
    <3>1. g \in Handlers /\ g \in Cid
      BY <1>1, ServerIdIsId DEF Handlers
    <3> QED
      BY <3>1, <1>2, <1>4 DEF RoutingInv, IdsDrawn
  <2>2. ASSUME NEW g \in ServerCid PROVE scids'[g] \subseteq used'
    BY <1>3, <1>4 DEF RoutingInv, IdsDrawn
  <2>3. ASSUME NEW c \in ServerCid, c \notin used' PROVE ctos'[c] = NoCid
    BY <2>3, <1>2, <1>4, ServerIdIsId DEF RoutingInv, IdsDrawn
  <2>4. ASSUME NEW g \in ServerCid, pscid'[g] # NoCid
        PROVE  pscid'[g] \in used' /\ PreferredAddr
    BY <2>4, <1>3, <1>4 DEF RoutingInv, IdsDrawn
  <2>5. ASSUME NEW g \in ServerCid, rcid'[g] \in ServerCid PROVE rcid'[g] \in used'
    BY <2>5, <1>3, <1>4, <1>5 DEF RoutingInv, IdsDrawn
  <2> QED
    BY <2>1, <2>2, <2>3, <2>4, <2>5 DEF IdsDrawn
<1>11. FirstIdsApart'
  <2> SUFFICES ASSUME NEW g \in ServerCid, NEW k \in ServerCid
               PROVE  /\ rcid'[g] \notin Handlers' /\ pscid'[g] \notin Handlers'
                      /\ rcid'[g] \notin scids'[k]
                      /\ pscid'[g] \in scids'[k] => g = k
    BY DEF FirstIdsApart
  <2>1. /\ rcid[g] \notin Handlers /\ pscid[g] \notin Handlers
        /\ rcid[g] \notin scids[k]
        /\ pscid[g] \in scids[k] => g = k
    BY DEF RoutingInv, FirstIdsApart
  <2>2. scids'[k] \subseteq scids[k] /\ scids[k] \subseteq ServerCid
    BY <1>3 DEF TypeOK
  <2>3. CASE g = h
    BY <2>2, <2>3, <1>1, <1>3, <1>5 DEF Handlers
  <2>4. CASE g # h
    BY <2>1, <2>2, <2>4, <1>1, <1>3
  <2> QED
    BY <2>3, <2>4
<1>12. NothingLeft'
  BY <1>1, <1>3 DEF RoutingInv, NothingLeft
<1> QED
  BY <1>9, <1>10, <1>11, <1>12 DEF RoutingInv

(* Registering a handler keeps the routing invariant. *)
LEMMA RegisterRouting ==
  ASSUME ServerAssumption, TypeOK, RoutingInv, NEW d \in Cid, NewRegistered(d)
  PROVE  RoutingInv'
<1>1. PICK s \in ServerCid \ used : \E p \in PscidChoice(s) : Register(d, s, p)
  BY DEF NewRegistered
<1>2. PICK p \in PscidChoice(s) : Register(d, s, p)
  BY <1>1
<1> DEFINE own == {p} \ {NoCid}
<1>3. /\ d \in ServerCid => d \in used
      /\ d \notin Handlers /\ ctos[d] = NoCid
      /\ NoCid \notin ServerCid /\ NoCid \notin Cid
  BY DEF NewRegistered, Startable, Route, Handlers, ServerAssumption, Cid
<1>4. own \subseteq ServerCid \ (used \cup {s})
  BY <1>3 DEF PscidChoice
<1>5. p # NoCid => p \in own
  OBVIOUS
<1>6. \A h \in Handlers : h \in ServerCid /\ h \in used
  BY DEF Handlers, RoutingInv, IdsDrawn
<1>7. Handlers' = Handlers \cup {s}
  BY <1>2 DEF Register, Handlers, TypeOK
<1>8. \A c \in ServerCid \ used : ctos[c] = NoCid
  BY DEF RoutingInv, IdsDrawn
<1>9. d \notin own /\ d # s
  BY <1>3, <1>4
<1>10. \A c \in Cid : ctos'[c] = IF c = d \/ c \in own THEN s ELSE ctos[c]
  BY <1>2, <1>3, <1>4, <1>8 DEF Register, Emplace
<1>11. /\ rcid'[s] = d /\ pscid'[s] = p /\ scids'[s] = {s} \cup own
       /\ \A g \in ServerCid : g # s =>
            rcid'[g] = rcid[g] /\ pscid'[g] = pscid[g] /\ scids'[g] = scids[g]
  BY <1>2 DEF Register, TypeOK
<1>12. used' = used \cup {s} \cup own
  BY <1>2 DEF Register
<1>13. RoutesExact'
  <2> SUFFICES ASSUME NEW c \in Cid, NEW g \in ServerCid
               PROVE  /\ ctos'[c] = g => g \in Handlers' /\ (c = rcid'[g] \/ c \in scids'[g] \ {g})
                      /\ g \in Handlers' /\ c \in scids'[g] \ {g} => ctos'[c] = g
                      /\ g \in Handlers' /\ c = rcid'[g] =>
                           ctos'[c] = g \/ (PreferredAddr /\ c \in ServerCid)
    BY DEF RoutesExact
  <2>1. /\ ctos[c] = g => g \in Handlers /\ (c = rcid[g] \/ c \in scids[g] \ {g})
        /\ g \in Handlers /\ c \in scids[g] \ {g} => ctos[c] = g
        /\ g \in Handlers /\ c = rcid[g] =>
             ctos[c] = g \/ (PreferredAddr /\ c \in ServerCid)
    BY DEF RoutingInv, RoutesExact
  <2>2. g # NoCid /\ s \notin Handlers /\ scids[g] \subseteq used
    BY <1>3, <1>6 DEF RoutingInv, IdsDrawn
  <2>3. CASE g = s
    <3>1. ctos[c] # s
      BY <1>6, <2>1, <2>3
    <3> QED
      BY <2>3, <3>1, <1>4, <1>7, <1>10, <1>11
  <2>4. CASE g # s /\ (c = d \/ c \in own)
    <3>1. ctos[c] = NoCid
      BY <2>4, <1>3, <1>4, <1>8
    <3>2. /\ ctos'[c] = s
          /\ g \in Handlers' => g \in Handlers
          /\ rcid'[g] = rcid[g] /\ scids'[g] = scids[g]
      BY <2>4, <1>7, <1>10, <1>11
    <3> QED
      BY <2>1, <2>2, <2>4, <3>1, <3>2
  <2>5. CASE g # s /\ c # d /\ c \notin own
    BY <2>1, <2>5, <1>7, <1>10, <1>11
  <2> QED
    BY <2>3, <2>4, <2>5
<1>14. IdsDrawn'
  <2>1. ASSUME NEW g \in Handlers' PROVE g \in used' /\ ctos'[g] = NoCid
    <3>1. g \in Cid /\ g \in ServerCid /\ g # d
      BY <1>3, <1>7, <1>9, ServerIdIsId DEF Handlers
    <3>2. CASE g = s
      BY <3>1, <3>2, <1>4, <1>8, <1>10, <1>12
    <3>3. CASE g \in Handlers
      <4>1. g \in used /\ ctos[g] = NoCid
        BY <3>3 DEF RoutingInv, IdsDrawn
      <4> QED
        BY <3>1, <4>1, <1>4, <1>10, <1>12
    <3> QED
      BY <3>2, <3>3, <1>7
  <2>2. ASSUME NEW g \in ServerCid PROVE scids'[g] \subseteq used'
    BY <1>11, <1>12 DEF RoutingInv, IdsDrawn
  <2>3. ASSUME NEW c \in ServerCid, c \notin used' PROVE ctos'[c] = NoCid
    BY <2>3, <1>3, <1>8, <1>10, <1>12, ServerIdIsId
  <2>4. ASSUME NEW g \in ServerCid, pscid'[g] # NoCid
        PROVE  pscid'[g] \in used' /\ PreferredAddr
    <3>1. CASE g = s
      <4>1. pscid'[g] = p /\ p \in own /\ PreferredAddr
        BY <2>4, <3>1, <1>5, <1>11 DEF PscidChoice
      <4> QED
        BY <4>1, <1>12
    <3>2. CASE g # s
      BY <2>4, <3>2, <1>11, <1>12 DEF RoutingInv, IdsDrawn
    <3> QED
      BY <3>1, <3>2
  <2>5. ASSUME NEW g \in ServerCid, rcid'[g] \in ServerCid PROVE rcid'[g] \in used'
    BY <2>5, <1>3, <1>11, <1>12 DEF RoutingInv, IdsDrawn
  <2> QED
    BY <2>1, <2>2, <2>3, <2>4, <2>5 DEF IdsDrawn
<1>15. FirstIdsApart'
  <2> SUFFICES ASSUME NEW g \in ServerCid, NEW k \in ServerCid
               PROVE  /\ rcid'[g] \notin Handlers' /\ pscid'[g] \notin Handlers'
                      /\ rcid'[g] \notin scids'[k]
                      /\ pscid'[g] \in scids'[k] => g = k
    BY DEF FirstIdsApart
  <2>1. /\ rcid[g] \notin Handlers /\ pscid[g] \notin Handlers
        /\ rcid[g] \notin scids[k]
        /\ pscid[g] \in scids[k] => g = k
        /\ scids[k] \subseteq used
        /\ rcid[g] \in ServerCid => rcid[g] \in used
        /\ pscid[g] # NoCid => pscid[g] \in used
    BY DEF RoutingInv, FirstIdsApart, IdsDrawn
  <2>2. s \in ServerCid /\ s \notin used /\ d \notin scids[k]
    <3>1. k \in Handlers => d \notin scids[k] \/ d = k
      BY <1>3 DEF RoutingInv, RoutesExact, Handlers
    <3> QED
      BY <3>1, <1>3 DEF RoutingInv, NothingLeft
  <2>3. rcid'[g] \notin scids'[k] /\ rcid'[g] \notin Handlers'
    <3>1. CASE g = s
      BY <3>1, <2>2, <1>3, <1>7, <1>9, <1>11
    <3>2. CASE g # s
      BY <3>2, <2>1, <2>2, <1>4, <1>7, <1>11
    <3> QED
      BY <3>1, <3>2
  <2>4. pscid'[g] \notin Handlers' /\ (pscid'[g] \in scids'[k] => g = k)
    <3>1. CASE g = s
      <4>1. p \notin used /\ p # s
        BY <1>3, <1>4, <1>5 DEF TypeOK
      <4> QED
        BY <3>1, <4>1, <2>1, <1>6, <1>7, <1>11
    <3>2. CASE g # s
      BY <3>2, <2>1, <2>2, <1>3, <1>4, <1>7, <1>11
    <3> QED
      BY <3>1, <3>2
  <2> QED
    BY <2>3, <2>4
<1>16. NothingLeft'
  BY <1>7, <1>11 DEF RoutingInv, NothingLeft
<1> QED
  BY <1>13, <1>14, <1>15, <1>16 DEF RoutingInv

(* The routing invariant is inductive. *)
LEMMA RoutingStep == TypeOK /\ RoutingInv /\ [Next]_vars => RoutingInv'
<1> SUFFICES ASSUME TypeOK, RoutingInv, [Next]_vars PROVE RoutingInv'
  OBVIOUS
<1>1. CASE TablesUnchanged
  BY <1>1 DEF TablesUnchanged, RoutingInv, RoutesExact, IdsDrawn, FirstIdsApart, NothingLeft
<1>2. ASSUME NEW h \in Handlers, Reissued(h) PROVE RoutingInv'
  BY <1>2, ReissuedRouting, ServerAssumption
<1>3. ASSUME NEW h \in Handlers, Remove(h) PROVE RoutingInv'
  BY <1>3, RemoveRouting, ServerAssumption
<1>4. ASSUME NEW c \in Cid, NewRegistered(c) PROVE RoutingInv'
  BY <1>4, RegisterRouting, ServerAssumption
<1> QED
  BY <1>1, <1>2, <1>3, <1>4, StepShape

(* The empty tables satisfy the routing invariant. *)
LEMMA RoutingInit == Init => RoutingInv
<1>1. NoCid \notin ServerCid
  BY ServerAssumption DEF ServerAssumption
<1> QED
  BY <1>1, ServerIdIsId
     DEF Init, RoutingInv, RoutesExact, IdsDrawn, FirstIdsApart, NothingLeft, Handlers

(* The routing invariant holds in every reachable state. *)
LEMMA RoutingInvariant == Spec => []RoutingInv
<1> QED
  BY RoutingInit, RoutingStep, TypeCorrect, PTL DEF Spec

(* In every reachable state ctos_ leads only to live connections and from  *)
(* their own ids, and of these only one that a client took over from a     *)
(* preferred address may be missing.                                       *)
THEOREM RoutesAreExact == Spec => []RoutesExact
<1>1. RoutingInv => RoutesExact
  BY DEF RoutingInv
<1> QED
  BY <1>1, RoutingInvariant, PTL

(* The assertion of Server::on_read never fails: the handler an entry of   *)
(* ctos_ names is registered.                                              *)
THEOREM AssertedRouteExists == Spec => []NoDanglingRoute
<1>1. TypeOK /\ RoutingInv => NoDanglingRoute
  BY DEF TypeOK, RoutingInv, RoutesExact, NoDanglingRoute
<1> QED
  BY <1>1, RoutingInvariant, TypeCorrect, PTL

(***************************************************************************)
(* The end of a connection                                                 *)
(***************************************************************************)

(* Inductive: a connection the peer closed is one the server drains, so    *)
(* neither a datagram nor the idle timer touches it again.                 *)
LifeInv ==
  /\ WatchersMatchHandlers
  /\ ClosePacketReady
  /\ PeriodUndisturbed
  /\ \A h \in ServerCid : conn[h] = "draining" => h \in draining

(* Removing a handler keeps the life cycle invariant. *)
LEMMA RemoveLife ==
  ASSUME TypeOK, LifeInv, NEW h \in Handlers, Remove(h)
  PROVE  LifeInv'
BY DEF TypeOK, LifeInv, Handlers, Remove, StopWatchers, WatchersMatchHandlers,
       ClosePacketReady, PeriodUndisturbed, Terminal

(* Starting the closing period keeps the life cycle invariant. *)
LEMMA StartClosingLife ==
  ASSUME TypeOK, LifeInv, NEW h \in Handlers, conn[h] = "active",
         StartClosingPeriod(h), wev' \in {wev, wev \ {h}, wev \cup {h}}
  PROVE  LifeInv'
BY DEF TypeOK, LifeInv, Handlers, StartClosingPeriod, WatchersMatchHandlers,
       ClosePacketReady, PeriodUndisturbed, Terminal

(* handle_error keeps the life cycle invariant. *)
LEMMA FailConnectionLife ==
  ASSUME TypeOK, LifeInv, NEW h \in Handlers, conn[h] = "active",
         NEW already, NEW wevNow \in {wev, wev \ {h}},
         FailConnection(h, already, wevNow)
  PROVE  LifeInv'
BY RemoveLife, StartClosingLife DEF FailConnection

(* on_write keeps the life cycle invariant. *)
LEMMA OnWriteLife ==
  ASSUME TypeOK, LifeInv, NEW h \in Handlers,
         NEW wevNow \in {wev, wev \ {h}}, OnWrite(h, wevNow)
  PROVE  LifeInv'
<1>1. CASE wev' = wevNow /\ UNCHANGED <<conn, draining, closebuf, timer, rttimer, tables>>
  BY <1>1 DEF LifeInv, Handlers, WatchersMatchHandlers, ClosePacketReady,
              PeriodUndisturbed, Terminal
<1>2. CASE ~Terminal(h)
  <2>1. conn[h] = "active"
    BY <1>2 DEF Terminal, Handlers, TypeOK
  <2>2. CASE WriteOk(h, wevNow)
    <3>1. /\ UNCHANGED <<conn, draining, closebuf>>
          /\ rttimer' \in {rttimer \cup {h}, rttimer \ {h}}
          /\ timer' \in {timer, [timer EXCEPT ![h] = "idle"]}
          /\ wev' \subseteq wev \cup {h}
      BY <2>2 DEF WriteOk, ScheduleRetransmit
    <3> QED
      BY <2>1, <3>1 DEF TypeOK, LifeInv, Handlers, WatchersMatchHandlers,
              ClosePacketReady, PeriodUndisturbed, Terminal
  <2> QED
    BY <1>2, <2>1, <2>2, FailConnectionLife DEF OnWrite
<1> QED
  BY <1>1, <1>2 DEF OnWrite

(* A datagram given to a handler keeps the life cycle invariant. *)
LEMMA ReceiveLife ==
  ASSUME TypeOK, LifeInv, NEW c \in Cid, Receive(c)
  PROVE  LifeInv'
<1> DEFINE h == Route(c)
<1>0. h \in Handlers
  BY DEF Receive
<1>1. Readable(h) => conn[h] = "active"
  BY <1>0 DEF Readable, LifeInv, Handlers, TypeOK
<1>2. CASE ReadClosing(h) \/ ReadDraining(h)
  BY <1>2 DEF ReadClosing, ReadDraining, lifecycle, LifeInv, Handlers,
              WatchersMatchHandlers, ClosePacketReady, PeriodUndisturbed, Terminal
<1>3. CASE ReadOk(h)
  <2>1. /\ conn[h] = "active"
        /\ timer' = [timer EXCEPT ![h] = "idle"]
        /\ wev' = wev \cup {h}
        /\ UNCHANGED <<conn, draining, closebuf, rttimer>>
    BY <1>1, <1>3 DEF ReadOk
  <2> QED
    BY <1>0, <2>1 DEF TypeOK, LifeInv, Handlers, WatchersMatchHandlers,
            ClosePacketReady, PeriodUndisturbed, Terminal
<1>4. CASE ReadPeerClosed(h)
  <2>1. /\ conn[h] = "active"
        /\ conn' = [conn EXCEPT ![h] = "draining"]
        /\ StartDrainingPeriod(h)
        /\ UNCHANGED <<closebuf, wev>>
    BY <1>1, <1>4 DEF ReadPeerClosed
  <2> QED
    BY <1>0, <2>1 DEF TypeOK, LifeInv, Handlers, WatchersMatchHandlers,
            ClosePacketReady, PeriodUndisturbed, Terminal, StartDrainingPeriod
<1>5. CASE ReadError(h)
  BY <1>0, <1>1, <1>5, FailConnectionLife DEF ReadError
<1>6. CASE ReadRetry(h)
  BY <1>0, <1>6, RemoveLife DEF ReadRetry
<1> QED
  BY <1>2, <1>3, <1>4, <1>5, <1>6 DEF Receive

(* The life cycle invariant is inductive, given the other two. *)
LEMMA LifeStep == TypeOK /\ RoutingInv /\ LifeInv /\ [Next]_vars => LifeInv'
<1> SUFFICES ASSUME TypeOK, RoutingInv, LifeInv, [Next]_vars PROVE LifeInv'
  OBVIOUS
<1> USE DEF Handlers, WatchersMatchHandlers, ClosePacketReady, PeriodUndisturbed, Terminal
<1>1. CASE UNCHANGED lifecycle
  BY <1>1 DEF lifecycle, LifeInv
<1>2. ASSUME NEW c \in Cid, NewRegistered(c) PROVE LifeInv'
  <2>1. PICK s \in ServerCid \ used : \E p \in PscidChoice(s) : Register(c, s, p)
    BY <1>2 DEF NewRegistered
  <2>2. /\ conn'    = [conn EXCEPT ![s] = "active"]
        /\ timer'   = [timer EXCEPT ![s] = "idle"]
        /\ rttimer' \in {rttimer \cup {s}, rttimer \ {s}}
        /\ wev'     \in {wev, wev \cup {s}}
        /\ UNCHANGED <<draining, closebuf>>
    BY <1>2, <2>1 DEF Register, NewRegistered, ScheduleRetransmit
  <2> QED
    BY <2>2 DEF TypeOK, LifeInv
<1>3. ASSUME NEW h \in Handlers, WriteCb(h) PROVE LifeInv'
  BY <1>3, OnWriteLife DEF WriteCb
<1>4. ASSUME NEW h \in Handlers, RetransmitCb(h) PROVE LifeInv'
  <2>1. conn[h] = "active"
    BY <1>4 DEF RetransmitCb, LifeInv, TypeOK
  <2> QED
    BY <1>4, <2>1, OnWriteLife, FailConnectionLife DEF RetransmitCb
<1>5. ASSUME NEW h \in Handlers, PeriodOver(h) PROVE LifeInv'
  BY <1>5, RemoveLife DEF PeriodOver
<1>6. ASSUME NEW h \in Handlers, IdleTimeout(h) PROVE LifeInv'
  <2>1. /\ h \notin draining
        /\ StartDrainingPeriod(h)
        /\ UNCHANGED <<conn, closebuf, wev>>
    BY <1>6 DEF IdleTimeout
  <2> QED
    BY <2>1 DEF TypeOK, LifeInv, StartDrainingPeriod
<1>7. ASSUME NEW h \in ServerCid, Disconnect(h) PROVE LifeInv'
  BY <1>7, RemoveLife DEF Disconnect
<1> QED
  BY <1>1, <1>2, <1>3, <1>4, <1>5, <1>6, <1>7, ReceiveLife
     DEF Next, Callback, TimeoutCb, Misversioned, Refuse, NewDropped, SigInt, vars

(* The life cycle invariant holds in every reachable state. *)
LEMMA LifeInvariant == Spec => []LifeInv
<1>1. Init => LifeInv
  BY DEF Init, LifeInv, Handlers, WatchersMatchHandlers, ClosePacketReady,
         PeriodUndisturbed, Terminal
<1> QED
  BY <1>1, LifeStep, TypeCorrect, RoutingInvariant, PTL DEF Spec

(* A registered handler has timer_ armed, and none of its watchers         *)
(* outlives it.                                                            *)
THEOREM WatchersCorrect == Spec => []WatchersMatchHandlers
<1>1. LifeInv => WatchersMatchHandlers
  BY DEF LifeInv
<1> QED
  BY <1>1, LifeInvariant, PTL

(* The assertion of send_conn_close holds.                                 *)
THEOREM ClosePacketKept == Spec => []ClosePacketReady
<1>1. LifeInv => ClosePacketReady
  BY DEF LifeInv
<1> QED
  BY <1>1, LifeInvariant, PTL

(* No late write disturbs the timers of a closing or draining period.      *)
THEOREM PeriodsUndisturbed == Spec => []PeriodUndisturbed
<1>1. LifeInv => PeriodUndisturbed
  BY DEF LifeInv
<1> QED
  BY <1>1, LifeInvariant, PTL

(* The body of TerminalIsFinal, for one handler. *)
StaysFinal(g) ==
  /\ conn[g] = "closing" =>
       /\ conn'[g] \in {"closing", "none"}
       /\ <<g, "data">> \notin sent'
  /\ conn[g] = "draining" =>
       /\ conn'[g] \in {"draining", "none"}
       /\ \A k \in {"data", "close"} : <<g, k>> \notin sent'

(* A step that sends only another connection's packets keeps this one final. *)
LEMMA OwnPacketsOnly ==
  ASSUME TypeOK, NEW h \in ServerCid, NEW g \in ServerCid,
         g = h => conn[g] = "active",
         sent' \subseteq {<<h, "data">>, <<h, "close">>},
         g # h => conn'[g] = conn[g]
  PROVE  StaysFinal(g)
BY DEF StaysFinal

(* handle_error of one connection keeps every other one final. *)
LEMMA FailConnectionFinal ==
  ASSUME TypeOK, NEW h \in Handlers, conn[h] = "active",
         NEW already \in SUBSET {<<h, "data">>}, NEW wevNow,
         FailConnection(h, already, wevNow), NEW g \in ServerCid
  PROVE  StaysFinal(g)
<1>1. h \in ServerCid
  BY DEF Handlers
<1>2. sent' \subseteq {<<h, "data">>, <<h, "close">>}
  BY DEF FailConnection
<1>3. g # h => conn'[g] = conn[g]
  BY DEF FailConnection, StartClosingPeriod, Remove, TypeOK
<1> QED
  BY <1>1, <1>2, <1>3, OwnPacketsOnly

(* A step that sends nothing and keeps conn leaves every connection final. *)
LEMMA QuietFinal ==
  ASSUME TypeOK, sent' = {}, NEW g \in ServerCid, conn'[g] \in {conn[g], "none"}
  PROVE  StaysFinal(g)
BY DEF StaysFinal

(* What a removal does to conn. *)
LEMMA RemoveConn ==
  ASSUME TypeOK, NEW h \in ServerCid, Remove(h), NEW g \in ServerCid
  PROVE  conn'[g] = IF g = h THEN "none" ELSE conn[g]
BY DEF TypeOK, Remove

(* on_write keeps every connection final. *)
LEMMA OnWriteFinal ==
  ASSUME TypeOK, NEW h \in Handlers, NEW wevNow, OnWrite(h, wevNow),
         NEW g \in ServerCid
  PROVE  StaysFinal(g)
<1>1. CASE sent' = {} /\ UNCHANGED conn
  BY <1>1, QuietFinal
<1>2. CASE ~Terminal(h) /\ WriteOk(h, wevNow)
  <2>1. conn[h] = "active" /\ UNCHANGED conn
    BY <1>2 DEF Terminal, Handlers, TypeOK, WriteOk
  <2>2. sent' \subseteq {<<h, "data">>, <<h, "close">>}
    BY <1>2 DEF WriteOk
  <2> QED
    BY <2>1, <2>2, OwnPacketsOnly DEF Handlers
<1>3. CASE ~Terminal(h) /\ (FailConnection(h, {}, wevNow)
                              \/ FailConnection(h, {<<h, "data">>}, wevNow))
  <2>1. conn[h] = "active"
    BY <1>3 DEF Terminal, Handlers, TypeOK
  <2> QED
    BY <1>3, <2>1, FailConnectionFinal
<1> QED
  BY <1>1, <1>2, <1>3 DEF OnWrite

(* A datagram given to a handler keeps every connection final. *)
LEMMA ReceiveFinal ==
  ASSUME TypeOK, LifeInv, NEW c \in Cid, Receive(c), NEW g \in ServerCid
  PROVE  StaysFinal(g)
<1> DEFINE h == Route(c)
<1>0. h \in Handlers /\ h \in ServerCid
  BY RouteIsHandler DEF Receive
<1>1. Readable(h) => conn[h] = "active"
  BY <1>0 DEF Readable, LifeInv, Handlers, TypeOK
<1>2. CASE ReadClosing(h)
  BY <1>2 DEF ReadClosing, lifecycle, StaysFinal
<1>3. CASE ReadDraining(h)
  BY <1>3, QuietFinal DEF ReadDraining, lifecycle
<1>4. CASE ReadOk(h)
  BY <1>4, QuietFinal DEF ReadOk
<1>5. CASE ReadPeerClosed(h)
  <2>1. conn[h] = "active" /\ sent' = {} /\ conn' = [conn EXCEPT ![h] = "draining"]
    BY <1>1, <1>5 DEF ReadPeerClosed
  <2> QED
    BY <1>0, <2>1 DEF StaysFinal, TypeOK
<1>6. CASE ReadError(h)
  BY <1>0, <1>1, <1>6, FailConnectionFinal DEF ReadError
<1>7. CASE ReadRetry(h)
  BY <1>0, <1>7, RemoveConn, QuietFinal DEF ReadRetry
<1> QED
  BY <1>2, <1>3, <1>4, <1>5, <1>6, <1>7 DEF Receive

(* Every step keeps every terminal connection final. *)
LEMMA FinalStep ==
  ASSUME TypeOK, RoutingInv, LifeInv, Next, NEW g \in ServerCid
  PROVE  StaysFinal(g)
<1>1. ASSUME NEW c \in Cid, Misversioned(c) \/ Refuse(c) PROVE StaysFinal(g)
  BY <1>1 DEF Misversioned, Refuse, lifecycle, StaysFinal
<1>2. ASSUME NEW c \in Cid, NewDropped(c) PROVE StaysFinal(g)
  <2>1. c \notin Handlers /\ UNCHANGED conn
    BY <1>2, ServerAssumption DEF NewDropped, Startable, Route, lifecycle, Handlers, ServerAssumption
  <2>2. CASE c = g
    BY <2>1, <2>2 DEF StaysFinal, Handlers
  <2>3. CASE c # g
    <3>1. \A k \in {"data", "close"} : <<g, k>> \notin sent'
      BY <1>2, <2>3 DEF NewDropped
    <3> QED
      BY <2>1, <3>1 DEF StaysFinal
  <2> QED
    BY <2>2, <2>3
<1>3. ASSUME NEW c \in Cid, NewRegistered(c) PROVE StaysFinal(g)
  <2>1. PICK s \in ServerCid \ used : \E p \in PscidChoice(s) : Register(c, s, p)
    BY <1>3 DEF NewRegistered
  <2>2. conn' = [conn EXCEPT ![s] = "active"] /\ sent' \subseteq {<<s, "data">>}
    BY <2>1 DEF Register
  <2>3. conn[s] = "none"
    BY DEF RoutingInv, IdsDrawn, Handlers
  <2> QED
    BY <2>2, <2>3 DEF StaysFinal, TypeOK
<1>4. ASSUME NEW h \in Handlers, WriteCb(h) PROVE StaysFinal(g)
  BY <1>4, OnWriteFinal DEF WriteCb
<1>5. ASSUME NEW h \in Handlers, RetransmitCb(h) PROVE StaysFinal(g)
  <2>1. conn[h] = "active"
    BY <1>5 DEF RetransmitCb, LifeInv, PeriodUndisturbed, Terminal, Handlers, TypeOK
  <2> QED
    BY <1>5, <2>1, OnWriteFinal, FailConnectionFinal DEF RetransmitCb
<1>6. ASSUME NEW h \in Handlers, PeriodOver(h) PROVE StaysFinal(g)
  BY <1>6, RemoveConn, QuietFinal DEF PeriodOver, Handlers
<1>7. ASSUME NEW h \in Handlers, IdleTimeout(h) PROVE StaysFinal(g)
  BY <1>7, QuietFinal DEF IdleTimeout
<1>8. CASE SigInt
  BY <1>8, QuietFinal DEF SigInt, lifecycle
<1>9. ASSUME NEW h \in ServerCid, Disconnect(h) PROVE StaysFinal(g)
  <2>1. conn'[g] = IF g = h THEN "none" ELSE conn[g]
    BY <1>9, RemoveConn DEF Disconnect
  <2> QED
    BY <1>9, <2>1 DEF Disconnect, StaysFinal
<1> QED
  BY <1>1, <1>2, <1>3, <1>4, <1>5, <1>6, <1>7, <1>8, <1>9, ReceiveFinal
     DEF Next, Callback, TimeoutCb

(* Once closing, a connection only ever repeats its close packet; one the  *)
(* peer closed never sends again; neither comes back.                      *)
THEOREM ClosedStaysClosed == Spec => TerminalIsFinal
<1>1. TypeOK /\ RoutingInv /\ LifeInv /\ [Next]_vars =>
        [\A h \in ServerCid : StaysFinal(h)]_vars
  BY FinalStep
<1>2. [\A h \in ServerCid : StaysFinal(h)]_vars <=>
      [\A h \in ServerCid :
         /\ conn[h] = "closing" =>
              /\ conn'[h] \in {"closing", "none"}
              /\ <<h, "data">> \notin sent'
         /\ conn[h] = "draining" =>
              /\ conn'[h] \in {"draining", "none"}
              /\ \A k \in {"data", "close"} : <<h, k>> \notin sent']_vars
  BY DEF StaysFinal
<1> QED
  BY <1>1, <1>2, TypeCorrect, RoutingInvariant, LifeInvariant, PTL
     DEF Spec, TerminalIsFinal

(***************************************************************************)
(* The tables implement CidRouting                                         *)
(***************************************************************************)

(* The owner CidRouting sees. *)
Owner == [c \in Cid |-> Route(c)]

(* The ids other than its name it sees a connection opened with. *)
First == [h \in ServerCid |-> {rcid[h], pscid[h]} \ {NoCid}]

(* A step that leaves the tables alone is a stutter of CidRouting.         *)
LEMMA StutterRefines ==
  ASSUME TablesUnchanged
  PROVE  UNCHANGED <<Owner, used, First>>
BY DEF TablesUnchanged, Owner, First, Route

(* Issuing and retiring ids is Renew.                                      *)
LEMMA ReissuedRefines ==
  ASSUME TypeOK, RoutingInv, NEW h \in Handlers, Reissued(h)
  PROVE  Routing!Renew(h)
<1>1. PICK add \in SUBSET (ServerCid \ used), del \in SUBSET scids[h] :
        /\ ctos' = Emplace(Erase(ctos, del), add, h)
        /\ used' = used \cup add
        /\ UNCHANGED <<rcid, pscid>>
  BY DEF Reissued, CidCallbacks
<1>2. Handlers' = Handlers /\ h \in ServerCid /\ ServerCid \subseteq Cid
  BY DEF Reissued, Handlers, Cid
<1>3. NoCid \notin Cid
  BY ServerAssumption DEF ServerAssumption, Cid
<1>4. \A c \in add : ctos[c] = NoCid
  BY DEF RoutingInv, IdsDrawn
<1>5. \A c \in del : c # h => ctos[c] = h
  BY <1>2 DEF RoutingInv, RoutesExact, TypeOK
<1>6. ASSUME NEW c \in Cid, c \notin Handlers, ctos'[c] # ctos[c]
      PROVE  \/ c \in add /\ ctos[c] = NoCid /\ ctos'[c] = h
             \/ ctos[c] = h /\ ctos'[c] = NoCid
  <2>1. ctos'[c] = IF c \in add /\ (IF c \in del THEN NoCid ELSE ctos[c]) = NoCid
                   THEN h ELSE IF c \in del THEN NoCid ELSE ctos[c]
    BY <1>1 DEF Emplace, Erase
  <2>2. c # h
    BY <1>6
  <2> QED
    BY <1>4, <1>5, <1>6, <2>1, <2>2
<1>7. Owner[h] = h /\ Owner'[h] = h
  BY <1>2 DEF Owner, Route
<1>8. \A c \in Cid : Owner'[c] # Owner[c] =>
        /\ \/ Owner[c] = NoCid /\ Owner'[c] = h
           \/ Owner[c] = h /\ Owner'[c] = NoCid
        /\ Owner'[c] = h => c \in used' \ used
  <2> SUFFICES ASSUME NEW c \in Cid, Owner'[c] # Owner[c]
               PROVE  /\ \/ Owner[c] = NoCid /\ Owner'[c] = h
                         \/ Owner[c] = h /\ Owner'[c] = NoCid
                      /\ Owner'[c] = h => c \in used' \ used
    OBVIOUS
  <2>1. /\ c \notin Handlers
        /\ Owner[c] = ctos[c] /\ Owner'[c] = ctos'[c]
    BY <1>2 DEF Owner, Route
  <2>2. h # NoCid
    BY <1>2, <1>3
  <2> QED
    BY <1>1, <1>6, <2>1, <2>2
<1>9. \A c \in Cid : Owner[c] = NoCid /\ Owner'[c] = h => c \in used' \ used
  BY <1>2, <1>3, <1>8
<1>10. used \subseteq used'
  BY <1>1
<1>11. First' = First
  BY <1>1 DEF First
<1> QED
  BY <1>7, <1>8, <1>9, <1>10, <1>11
     DEF Routing!Renew, Routing!Live, Routing!OnlyIdsOf, Routing!Free, Owner, First

(* Removing a handler is Close.                                            *)
LEMMA RemoveRefines ==
  ASSUME TypeOK, RoutingInv, NEW h \in Handlers, Remove(h)
  PROVE  Routing!Close(h)
<1>1. h \in ServerCid /\ h \in Cid /\ ServerCid \subseteq Cid
  BY DEF Handlers, Cid
<1>2. NoCid \notin Cid
  BY ServerAssumption DEF ServerAssumption, Cid
<1>3. Handlers' = Handlers \ {h} /\ used' = used
  BY DEF Remove, Handlers, TypeOK
<1>4. \A c \in Cid : ctos'[c] = IF c \in {rcid[h], pscid[h]} \cup scids[h]
                               THEN NoCid ELSE ctos[c]
  BY DEF Remove, EraseRoutes, Erase
<1>5. /\ ctos[h] = NoCid
      /\ rcid[h] \notin Handlers /\ pscid[h] \notin Handlers
      /\ \A c \in scids[h] : c # h => ctos[c] = h
      /\ scids[h] \subseteq Cid
  BY <1>1 DEF RoutingInv, IdsDrawn, FirstIdsApart, RoutesExact, TypeOK
<1>6. \A c \in Cid : ctos[c] = h => c = rcid[h] \/ c \in scids[h] \ {h}
  BY <1>1 DEF RoutingInv, RoutesExact
<1>7. Owner[h] = h
  BY <1>1 DEF Owner, Route
<1>8. ASSUME NEW c \in Cid
      PROVE  Owner'[c] = IF Owner[c] = h \/ c \in First[h] THEN NoCid ELSE Owner[c]
  <2>0. c \in First[h] <=> c \in {rcid[h], pscid[h]}
    BY <1>1, <1>2 DEF First
  <2>1. CASE c = h
    <3>1. Owner'[c] = ctos'[c]
      BY <1>1, <1>3, <2>1 DEF Owner, Route
    <3>2. ctos'[h] = NoCid
      BY <1>1, <1>4, <1>5
    <3> QED
      BY <1>7, <2>1, <3>1, <3>2
  <2>2. CASE c # h /\ c \in Handlers
    <3>1. Owner[c] = c /\ Owner'[c] = c
      BY <1>3, <2>2 DEF Owner, Route
    <3> QED
      BY <1>5, <2>0, <2>2, <3>1
  <2>3. CASE c # h /\ c \notin Handlers
    <3>1. Owner[c] = ctos[c] /\ Owner'[c] = ctos'[c]
      BY <1>3, <2>3 DEF Owner, Route
    <3>2. ctos'[c] = IF ctos[c] = h \/ c \in {rcid[h], pscid[h]} THEN NoCid ELSE ctos[c]
      BY <1>4, <1>5, <1>6, <2>3
    <3> QED
      BY <2>0, <3>1, <3>2
  <2> QED
    BY <2>1, <2>2, <2>3
<1>9. Owner' = [c \in Cid |-> IF Owner[c] = h \/ c \in First[h] THEN NoCid ELSE Owner[c]]
  BY <1>8 DEF Owner
<1>10. First' = [First EXCEPT ![h] = {}]
  <2>1. /\ rcid' = [rcid EXCEPT ![h] = NoCid]
        /\ pscid' = [pscid EXCEPT ![h] = NoCid]
    BY DEF Remove
  <2>2. \A g \in ServerCid : {rcid'[g], pscid'[g]} \ {NoCid} = IF g = h THEN {} ELSE First[g]
    BY <1>1, <2>1 DEF First, TypeOK
  <2> QED
    BY <1>1, <2>2 DEF First
<1> QED
  BY <1>3, <1>7, <1>9, <1>10 DEF Routing!Close, Routing!Live, Owner, First

(* Registering a handler is Open.                                          *)
LEMMA RegisterRefines ==
  ASSUME TypeOK, RoutingInv, NEW d \in Cid, NewRegistered(d)
  PROVE  \E s \in ServerCid : Routing!Open(s)
<1>1. PICK s \in ServerCid \ used : \E p \in PscidChoice(s) : Register(d, s, p)
  BY DEF NewRegistered
<1>2. PICK p \in PscidChoice(s) : Register(d, s, p)
  BY <1>1
<1> DEFINE own == {p} \ {NoCid}
<1>3. s \in Cid /\ s # NoCid /\ NoCid \notin Cid
  BY ServerAssumption DEF ServerAssumption, Cid
<1>4. Handlers' = Handlers \cup {s}
  BY <1>2 DEF Register, Handlers, TypeOK
<1>5. s \notin Handlers /\ ctos[s] = NoCid
  BY DEF RoutingInv, IdsDrawn
<1>6. ctos' = Emplace(ctos, {d} \cup own, s) /\ used' = used \cup {s} \cup own
  BY <1>2 DEF Register
<1>7. Owner[s] = NoCid /\ Owner'[s] = s
  BY <1>3, <1>4, <1>5 DEF Owner, Route
<1> HIDE DEF own
<1>8. ASSUME NEW c \in Cid, Owner'[c] # Owner[c]
      PROVE  Owner[c] = NoCid /\ Owner'[c] = s
  <2>1. CASE c = s
    BY <1>7, <2>1
  <2>2. CASE c # s
    <3>1. c \notin Handlers /\ Owner[c] = ctos[c] /\ Owner'[c] = ctos'[c]
      BY <1>4, <1>8, <2>2 DEF Owner, Route
    <3>2. ctos'[c] = IF c \in {d} \cup own /\ ctos[c] = NoCid THEN s ELSE ctos[c]
      BY <1>6 DEF Emplace
    <3> QED
      BY <1>8, <3>1, <3>2
  <2> QED
    BY <2>1, <2>2
<1>9. used \cup {s} \subseteq used'
  BY <1>6
<1>10. First' = [First EXCEPT ![s] = {c \in Cid : Owner'[c] = s} \ {s}]
  <2>1. rcid' = [rcid EXCEPT ![s] = d] /\ pscid' = [pscid EXCEPT ![s] = p]
    BY <1>2 DEF Register
  <2>2. \A g \in ServerCid :
          {rcid'[g], pscid'[g]} \ {NoCid} = IF g = s THEN {d} \cup own ELSE First[g]
    BY <1>3, <2>1 DEF First, TypeOK, own
  <2>3. /\ d \notin Handlers' /\ d # s /\ ctos[d] = NoCid
        /\ own \subseteq ServerCid \ (used \cup {s})
        /\ \A c \in own : c \notin Handlers' /\ ctos[c] = NoCid
    <3>1. /\ d \in ServerCid => d \in used
          /\ d \notin Handlers /\ ctos[d] = NoCid
      BY <1>3, ServerAssumption DEF NewRegistered, Startable, Route, Handlers, ServerAssumption, Cid
    <3>2. own \subseteq ServerCid \ (used \cup {s})
      BY DEF PscidChoice, own
    <3>3. \A c \in ServerCid \ used : c \notin Handlers /\ ctos[c] = NoCid
      BY DEF RoutingInv, IdsDrawn
    <3> QED
      BY <3>1, <3>2, <3>3, <1>4
  <2>4. \A c \in Cid : c # s => ctos[c] # s
    BY <1>5 DEF RoutingInv, RoutesExact
  <2>5. \A c \in Cid : c # s => (Owner'[c] = s <=> c \in {d} \cup own)
    <3> SUFFICES ASSUME NEW c \in Cid, c # s PROVE Owner'[c] = s <=> c \in {d} \cup own
      OBVIOUS
    <3>1. ctos'[c] = IF c \in {d} \cup own /\ ctos[c] = NoCid THEN s ELSE ctos[c]
      BY <1>6 DEF Emplace
    <3>2. Owner'[c] = IF c \in Handlers' THEN c ELSE ctos'[c]
      BY DEF Owner, Route
    <3> QED
      BY <1>3, <2>3, <2>4, <3>1, <3>2
  <2>6. {c \in Cid : Owner'[c] = s} \ {s} = {d} \cup own
    BY <1>3, <2>3, <2>5, ServerIdIsId
  <2> QED
    BY <2>2, <2>6 DEF First
<1>11. Routing!Open(s)
  BY <1>7, <1>8, <1>9, <1>10 DEF Routing!Open, Routing!OnlyIdsOf, Routing!Free, Owner, First
<1> QED
  BY <1>11

(* The two tables, however reads, retirements, removals and shutdown fall, *)
(* implement a map from ids to the one connection each belongs to.         *)
THEOREM TablesImplementRouting == Spec => RoutesFaithfully
<1>1. Init => Routing!Init
  BY DEF Init, Routing!Init, Route, Handlers
<1>2. TypeOK /\ RoutingInv /\ [Next]_vars => [Routing!Next]_<<Owner, used, First>>
  <2> SUFFICES ASSUME TypeOK, RoutingInv, [Next]_vars
               PROVE  Routing!Next \/ UNCHANGED <<Owner, used, First>>
    OBVIOUS
  <2>1. ASSUME NEW h \in Handlers, Reissued(h) \/ Remove(h) PROVE Routing!Next
    <3>1. h \in ServerCid
      BY DEF Handlers
    <3> QED
      BY <2>1, <3>1, ReissuedRefines, RemoveRefines DEF Routing!Next
  <2>2. ASSUME NEW c \in Cid, NewRegistered(c) PROVE Routing!Next
    BY <2>2, RegisterRefines DEF Routing!Next
  <2> QED
    BY <2>1, <2>2, StepShape, StutterRefines
<1>3. TypeOK /\ RoutingInv /\ [Next]_vars =>
        [Routing!Next]_<<[c \in Cid |-> Route(c)], used,
                         [h \in ServerCid |-> {rcid[h], pscid[h]} \ {NoCid}]>>
  BY <1>2 DEF Owner, First
<1> QED
  BY <1>1, <1>3, TypeCorrect, RoutingInvariant, PTL
     DEF Spec, RoutesFaithfully, Routing!Spec
=============================================================================
