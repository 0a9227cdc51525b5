---------------------------- MODULE QuicsyClient ----------------------------
(***************************************************************************)
(* The event loop of src/quicsy_client.cc: one connection, the libev       *)
(* watchers that drive it, the packet that waits in sendbuf_, and the ways *)
(* the connection and the program end.                                     *)
(*                                                                         *)
(* A method of Client is an operator from the client before the call to    *)
(* the set of its possible results; a callback of the loop is one action.  *)
(* What ngtcp2, nghttp3 and the socket answer is a choice over the results *)
(* the code distinguishes.  Which streams are opened is ClientStreams.     *)
(***************************************************************************)
EXTENDS Naturals, Sequences, FiniteSets

CONSTANTS
  Changes,       (* config.change_local_addr is set                         *)
  NatRebinding,  (* config.nat_rebinding                                    *)
  Preferred,     (* the server offers a preferred address and it is taken   *)
  Timers,        (* which of "key", "delay" config sets                     *)
  ExitOnFirst,   (* config.exit_on_first_stream_close                       *)
  TxLoss         (* config.tx_loss_prob > 0                                 *)

ASSUME ClientAssumption ==
  /\ Changes \in BOOLEAN /\ NatRebinding \in BOOLEAN /\ Preferred \in BOOLEAN
  /\ Timers \subseteq {"key", "delay"}
  /\ ExitOnFirst \in BOOLEAN /\ TxLoss \in BOOLEAN

Remote == {"server", "preferred"}
Packet == [kind : {"data", "close"}, to : Remote]

(* Every watcher of the client, and those a running client always has.     *)
(* rttimer_ is none of them, see Schedule.                                 *)
Watcher == {"wev", "rev", "timer", "rttimer", "sigint", "change", "key", "delay"}
Basic   == {"rev", "timer", "sigint"}

(***************************************************************************)
(* client.conn      state of conn_: nothing written yet, open, or in its   *)
(*                  closing or draining period                             *)
(* client.sendbuf   the packets written into sendbuf_ since it was reset   *)
(* client.blocked   the last send of them got EAGAIN                       *)
(* client.watchers  the active watchers                                    *)
(* client.local     local_addr_, the address of fd_                        *)
(* client.remote    remote_addr_                                           *)
(* client.path      ngtcp2's current path                                  *)
(* client.done      the handshake is completed                             *)
(* client.exit      should_exit_                                           *)
(* client.vn        last_error_ is TransportVersionNegotiation             *)
(* client.down      disconnect() was called                                *)
(* client.sent      what this callback sent                                *)
(* client.closes    close packets sent so far                              *)
(***************************************************************************)
VARIABLES
  client,
  phase    (* "start": run() before its on_write, "loop": ev_run, "over":   *)
           (* ev_run has returned, "gone": the process is                   *)

vars == <<client, phase>>

Terminal(c) == c.conn \in {"closing", "draining"}

Return(r, c) == [rv |-> r, c |-> c]

Start(c, W) == [c EXCEPT !.watchers = @ \cup W]
Stop(c, W)  == [c EXCEPT !.watchers = @ \ W]

-----------------------------------------------------------------------------
(* Sending                                                                 *)

Sent(c) ==
  [c EXCEPT !.sendbuf = <<>>, !.blocked = FALSE,
            !.sent = @ \cup {c.sendbuf[i].kind : i \in DOMAIN c.sendbuf},
            !.closes = @ + Cardinality({i \in DOMAIN c.sendbuf : c.sendbuf[i].kind = "close"})]

Dropped(c) == [c EXCEPT !.sendbuf = <<>>, !.blocked = FALSE]

(* disconnect() turns simulated loss off, after its own close packet. *)
SendPacket(c) ==
  { Return("ok", Sent(c)),
    Return("blocked", [c EXCEPT !.blocked = TRUE]),
    Return("fatal", [c EXCEPT !.blocked = FALSE]) }
  \cup IF TxLoss /\ ~c.down THEN {Return("ok", Dropped(c))} ELSE {}

Push(c, kind, r) == [c EXCEPT !.sendbuf = Append(@, [kind |-> kind, to |-> r])]

(* Mutant: the destination is that of the packet before. *)
PushPacketOnly(c, r) == Start(Push(c, "data", r), {"timer"})

ResetIdleTimer(c) == Start(c, {"timer"})

(* ngtcp2 writes a packet, update_remote_addr and reset_idle_timer follow. *)
PushPacket(c, r) ==
  [ResetIdleTimer(Push(c, "data", r)) EXCEPT
     !.remote = r, !.conn = IF @ = "initial" THEN "open" ELSE @]

(* The addresses select_preferred_address leads to: one of the family of   *)
(* the local address, when the server offers it and it is wanted.          *)
PreferredAddrs(c) == IF Preferred /\ c.done THEN {"preferred"} ELSE {}

(* Packets of the current path, or one that probes the preferred address.  *)
Destinations(c) == {c.path.remote} \cup PreferredAddrs(c)

(* Mutant: a second error writes and sends the close packet again. *)
HandleErrorAgain(c) ==
  LET d == Dropped(c)
      e == [Push(d, "close", c.path.remote) EXCEPT !.conn = "closing", !.remote = c.path.remote]
  IN IF c.conn = "draining" \/ c.vn THEN {d}
     ELSE {d} \cup {o.c : o \in SendPacket(e)}

(* Mutant: a packet that waits is kept. *)
HandleErrorKeepsWaiting(c) ==
  IF c.conn = "closing" THEN {c}
  ELSE LET e == [Push(c, "close", c.path.remote) EXCEPT !.conn = "closing", !.remote = c.path.remote]
       IN IF c.conn \in {"initial", "draining"} \/ c.vn THEN {c}
          ELSE {c} \cup {o.c : o \in SendPacket(e)}

(* A packet that waits is thrown away for the close packet.  ngtcp2 may    *)
(* fail to write one, and does for a connection the peer has closed.       *)
HandleError(c) ==
  IF c.conn = "closing" THEN {c}
  ELSE LET d == Dropped(c)
           e == [Push(d, "close", c.path.remote) EXCEPT !.conn = "closing", !.remote = c.path.remote]
       IN IF c.conn \in {"initial", "draining"} \/ c.vn THEN {d}
          ELSE {d} \cup {o.c : o \in SendPacket(e)}

(* Mutant: the retransmission timer is forgotten. *)
DisconnectKeepsRttimer(c) ==
  {[d EXCEPT !.watchers = @ \cap {"wev", "rttimer"}, !.down = TRUE] : d \in HandleError(c)}

(* Every watcher but wev_ is stopped. *)
Disconnect(c) ==
  {[d EXCEPT !.watchers = @ \cap {"wev"}, !.down = TRUE] : d \in HandleError(c)}

Failed(c) == {Return("error", d) : d \in Disconnect(c)}

-----------------------------------------------------------------------------
(* Client::on_write                                                        *)

(* c, and c after some packets were written and sent. *)
Progress(c) ==
  {c} \cup {o.c : o \in {s \in UNION {SendPacket(PushPacket(c, r)) : r \in Destinations(c)} : s.rv = "ok"}}

(* The next packet that cannot be sent stays in sendbuf_. *)
Stuck(c) ==
  {o \in UNION {SendPacket(PushPacket(c, r)) : r \in Destinations(c)} : o.rv # "ok"}

(* Ends when ngtcp2 has nothing to write, after ten packets with wev_      *)
(* started, when a packet cannot be sent, or with an error; the only way   *)
(* where ngtcp2 is closing.                                                *)
WriteStreams(c) ==
  IF Terminal(c) THEN Failed(c)
  ELSE UNION { (IF d.conn = "initial" THEN {} ELSE {Return("ok", d)})
               \cup (IF d = c THEN {} ELSE {Return("ok", Start(d, {"wev"}))})
               \cup Stuck(d) \cup Failed(d)
             : d \in Progress(c) }

(* schedule_retransmit: rttimer_ repeats after the time to ngtcp2's expiry. *)
(* An expiry that is exactly now makes that 0, for which ev_timer_again    *)
(* stops the timer instead.                                                *)
Schedule(c) == {Start(c, {"rttimer"}), Stop(c, {"rttimer"})}

(* on_write from its write_streams on. *)
Write(c) ==
  UNION { CASE o.rv = "ok" /\ o.c.exit       -> Failed(o.c)
            [] o.rv = "blocked" \/ (o.rv = "ok" /\ ~o.c.exit)
                                             -> {Return(o.rv, d) : d \in Schedule(o.c)}
            [] o.rv \in {"fatal", "error"}   -> {o}
        : o \in WriteStreams(c) }

(* Mutant: what waits in sendbuf_ is not sent first. *)
OnWriteAtOnce(c) == Write(c)

OnWrite(c) ==
  IF c.sendbuf = <<>> THEN Write(c)
  ELSE UNION { CASE o.rv = "ok"      -> Write(o.c)
                 [] o.rv = "blocked" -> {o}
                 [] o.rv = "fatal"   -> {Return("fatal", d) : d \in Disconnect(o.c)}
             : o \in SendPacket(c) }

-----------------------------------------------------------------------------
(* Client::on_read                                                         *)

(* The timers handshake_completed starts. *)
HandshakeTimers == Timers \cup IF Changes THEN {"change"} ELSE {}

(* The handshake completes, in the first of these datagrams if it has not. *)
Completed(c) ==
  IF c.done THEN {c} ELSE {c, Start([c EXCEPT !.done = TRUE], HandshakeTimers)}

(* A stream that closes, which may end the client; the path to the         *)
(* preferred address is validated.                                         *)
Exits(c) == {c.exit} \cup IF ExitOnFirst /\ c.done THEN {TRUE} ELSE {}
Validated(c) == {c.path.remote} \cup PreferredAddrs(c)

Feed(c, x, r) == [c EXCEPT !.exit = x, !.path.remote = r]

Datagrams(c) == {Feed(c, x, r) : x \in Exits(c), r \in Validated(c)}

(* What the datagrams of one on_read can do, those that complete the       *)
(* handshake included.  Those that come on a path ngtcp2 does not know are *)
(* ignored.                                                                *)
Fed(c) ==
  IF c.local # c.path.local THEN {c} ELSE UNION {Datagrams(d) : d \in Completed(c)}

(* feed_data fails: the peer closed, the version is not supported, or any  *)
(* other error.                                                            *)
FeedErrors(c) ==
  {c, [c EXCEPT !.conn = "draining"]} \cup IF c.done THEN {} ELSE {[c EXCEPT !.vn = TRUE]}

OnRead(c) ==
  UNION { (IF c.local = c.path.local THEN UNION {Failed(e) : e \in FeedErrors(d)} ELSE {})
          \cup (IF d.exit THEN Failed(d) ELSE {Return("ok", ResetIdleTimer(d))})
        : d \in Fed(c) }

-----------------------------------------------------------------------------
(* Callbacks of the loop                                                   *)

(* The callback of watcher w starts; a one-shot watcher is stopped. *)
Fires(w, c) ==
  /\ phase = "loop"
  /\ w \in client.watchers
  /\ c = [(IF w \in {"wev", "change", "key", "delay"} THEN Stop(client, {w}) ELSE client)
            EXCEPT !.sent = {}]

(* What the callbacks do with the result of on_write. *)
AfterWrite(o) == client' = IF o.rv = "blocked" THEN Start(o.c, {"wev"}) ELSE o.c

WriteCb ==
  \E c \in {[Stop(client, {"wev"}) EXCEPT !.sent = {}]} :
    /\ Fires("wev", c)
    /\ \E o \in OnWrite(c) : AfterWrite(o)
    /\ UNCHANGED phase

ReadCb ==
  \E c \in {[client EXCEPT !.sent = {}]} :
    /\ Fires("rev", c)
    /\ \E r \in OnRead(c) :
         IF r.rv = "ok" THEN \E o \in OnWrite(r.c) : AfterWrite(o) ELSE client' = r.c
    /\ UNCHANGED phase

TimeoutCb ==
  \E c \in {[client EXCEPT !.sent = {}]} :
    /\ Fires("timer", c)
    /\ client' \in Disconnect(c)
    /\ UNCHANGED phase

(* Disconnects when it fails. *)
HandleExpiry(c) == {Return("ok", c)} \cup Failed(c)

(* handle_expiry and on_write; a failure of either disconnects, again.     *)
RetransmitCb ==
  \E c \in {[client EXCEPT !.sent = {}]} :
    /\ Fires("rttimer", c)
    /\ \E e \in HandleExpiry(c) : \E o \in (IF e.rv = "ok" THEN OnWrite(e.c) ELSE {e}) :
         IF o.rv \in {"ok", "blocked"} THEN AfterWrite(o) ELSE client' \in Disconnect(o.c)
    /\ UNCHANGED phase

(* ngtcp2 refuses while an update is under way. *)
InitiateKeyUpdate(c) == {Return("ok", c), Return("error", c)}

KeyUpdateCb ==
  \E c \in {[Stop(client, {"key"}) EXCEPT !.sent = {}]} :
    /\ Fires("key", c)
    /\ \E r \in InitiateKeyUpdate(c) :
         IF r.rv = "ok" THEN client' = c ELSE client' \in Disconnect(c)
    /\ UNCHANGED phase

DelayStreamCb ==
  \E c \in {[Stop(client, {"delay"}) EXCEPT !.sent = {}]} :
    /\ Fires("delay", c)
    /\ \E o \in OnWrite(c) : AfterWrite(o)
    /\ UNCHANGED phase

(* A new socket towards addr_ and port_.  With NAT rebinding ngtcp2's path *)
(* follows; otherwise ngtcp2 migrates to the new path, or refuses to.      *)
NewPaths(c, l) ==
  IF NatRebinding THEN {[c.path EXCEPT !.local = l]}
  ELSE {[local |-> l, remote |-> "server"], c.path}

(* Mutant: wev_ is not started again for the new socket. *)
ChangeLocalAddrForgetsWev(c) ==
  {[Stop(c, {"wev"}) EXCEPT !.local = c.local + 1, !.remote = "server", !.path = p]
     : p \in NewPaths(c, c.local + 1)}

ChangeLocalAddr(c) ==
  {[c EXCEPT !.local = c.local + 1, !.remote = "server", !.path = p]
     : p \in NewPaths(c, c.local + 1)}

(* create_sock or bind_addr may fail, which leaves everything as it is. *)
ChangeLocalAddrCb ==
  \E c \in {[Stop(client, {"change"}) EXCEPT !.sent = {}]} :
    /\ Fires("change", c)
    /\ client' \in {c} \cup ChangeLocalAddr(c)
    /\ UNCHANGED phase

(* siginthandler breaks the loop. *)
SigInt ==
  /\ phase = "loop"
  /\ "sigint" \in client.watchers
  /\ phase' = "over"
  /\ UNCHANGED client

-----------------------------------------------------------------------------
(* run() and main                                                          *)

(* Client::init has started rev_, timer_ and sigintev_.  If the first      *)
(* on_write returns anything but 0 the process exits, without ~Client.     *)
Run ==
  /\ phase = "start"
  /\ \E o \in OnWrite(client) :
       /\ client' = o.c
       /\ phase' = IF o.rv = "ok" THEN "loop" ELSE "gone"

(* create_sock, bind_addr or Client::init fail. *)
SetUpFails ==
  /\ phase = "start"
  /\ phase' = "gone"
  /\ UNCHANGED client

(* ev_run returns when no watcher is active. *)
EvRunReturns ==
  /\ phase = "loop" /\ client.watchers = {}
  /\ phase' = "over"
  /\ UNCHANGED client

(* ~Client: disconnect() and close(). *)
Destroy ==
  /\ phase = "over"
  /\ \E d \in Disconnect([client EXCEPT !.sent = {}]) :
       client' = [d EXCEPT !.watchers = {}, !.sendbuf = <<>>, !.blocked = FALSE]
  /\ phase' = "gone"

Init ==
  /\ client = [ conn |-> "initial", sendbuf |-> <<>>, blocked |-> FALSE,
                watchers |-> {"rev", "timer", "sigint"},
                local |-> 0, remote |-> "server",
                path |-> [local |-> 0, remote |-> "server"],
                done |-> FALSE, exit |-> FALSE, vn |-> FALSE, down |-> FALSE,
                sent |-> {}, closes |-> 0 ]
  /\ phase = "start"

Callback ==
  \/ WriteCb \/ ReadCb \/ TimeoutCb \/ RetransmitCb
  \/ KeyUpdateCb \/ DelayStreamCb \/ ChangeLocalAddrCb \/ SigInt

Next == Run \/ SetUpFails \/ Callback \/ EvRunReturns \/ Destroy

Spec == Init /\ [][Next]_vars

(* The loop runs pending callbacks, and a socket does not stay unwritable. *)
Fairness ==
  /\ WF_vars(WriteCb /\ ~client'.blocked)
  /\ WF_vars(Run) /\ WF_vars(EvRunReturns) /\ WF_vars(Destroy)

FairSpec == Spec /\ Fairness

-----------------------------------------------------------------------------
(* Properties                                                              *)

(* The types.  The timer runs once, so there are two local addresses, and  *)
(* ngtcp2's path starts at one the client has or had.                      *)
TypeOK ==
  /\ client.path.local <= client.local
  /\ client \in [ conn : {"initial", "open", "closing", "draining"},
                  sendbuf : Seq(Packet), blocked : BOOLEAN,
                  watchers : SUBSET Watcher,
                  local : {0, 1}, remote : Remote,
                  path : [local : {0, 1}, remote : Remote],
                  done : BOOLEAN, exit : BOOLEAN, vn : BOOLEAN, down : BOOLEAN,
                  sent : SUBSET {"data", "close"}, closes : Nat ]
  /\ phase \in {"start", "loop", "over", "gone"}

(* on_write asserts room for a packet: whatever blocks, fails or closes in *)
(* between, sendbuf_ never holds two, so a datagram carries one packet and *)
(* the assertion holds; a blocked send has its packet in the buffer.       *)
RoomForPacket ==
  /\ Len(client.sendbuf) <= 1
  /\ client.blocked => client.sendbuf # <<>>

(* A client that has not disconnected is driven by its basic watchers, and *)
(* waits with wev_ for a packet the socket refused, in whatever callback   *)
(* that was and also when the socket was replaced since; once ngtcp2 is    *)
(* closing or draining none but wev_ is left to keep the loop running.     *)
WatchersMatchConnection ==
  phase = "loop" =>
    /\ ~client.down =>
         /\ Basic \subseteq client.watchers
         /\ client.blocked => "wev" \in client.watchers
    /\ Terminal(client) => client.down /\ client.watchers \subseteq {"wev"}

(* Errors may meet each other (a failing write in a failing expiry, then   *)
(* the destructor): at most one close packet is sent.                      *)
CloseSentOnce ==
  client.closes + Cardinality({i \in DOMAIN client.sendbuf : client.sendbuf[i].kind = "close"}) <= 1

(* A packet that waits is sent to the address ngtcp2 wrote it for, as long *)
(* as the client keeps its socket.                                         *)
WaitingGoesWhereMeant ==
  client.local = 0 =>
    \A i \in DOMAIN client.sendbuf : client.sendbuf[i].to = client.remote

(* After the close packet was written, or the peer closed, no callback     *)
(* sends data, whatever was waiting then.                                  *)
TerminalIsSilent ==
  [][Terminal(client) /\ client' # client
       => Terminal(client)' /\ "data" \notin client'.sent]_vars

(* disconnect() leaves wev_ active: the loop ends nevertheless, and the    *)
(* process with it.                                                        *)
ClosedClientEnds == Terminal(client) ~> phase = "gone"
=============================================================================
