------------------------- MODULE QuicsyClientProofs -------------------------
(***************************************************************************)
(* Proofs about the client's event loop, for every configuration.  What a  *)
(* method makes of a well formed client is a lemma of its own; the         *)
(* callbacks put them together.                                            *)
(***************************************************************************)
EXTENDS QuicsyClient, FiniteSetTheorems, TLAPS

Client ==
  [ conn : {"initial", "open", "closing", "draining"},
    sendbuf : Seq(Packet), blocked : BOOLEAN,
    watchers : SUBSET Watcher,
    local : {0, 1}, remote : Remote,
    path : [local : {0, 1}, remote : Remote],
    done : BOOLEAN, exit : BOOLEAN, vn : BOOLEAN, down : BOOLEAN,
    sent : SUBSET {"data", "close"}, closes : Nat ]

(* The close packets in a buffer. *)
Closes(s) == Cardinality({i \in DOMAIN s : s[i].kind = "close"})

Silent(c) == \A i \in DOMAIN c.sendbuf : c.sendbuf[i].kind = "close"

(* A client in, or between, the calls of a callback: one packet at most in *)
(* sendbuf_, for the address packets go to; one close packet, written by a *)
(* connection that is closing and nothing else after it; one change of     *)
(* address.                                                                *)
WellFormed(c) ==
  /\ c \in Client
  /\ c.path.local <= c.local
  /\ c.local = 1 => c.done /\ "change" \notin c.watchers
  /\ "change" \in c.watchers => c.done
  /\ Len(c.sendbuf) <= 1
  /\ c.blocked => c.sendbuf # <<>>
  /\ c.local = 0 => \A i \in DOMAIN c.sendbuf : c.sendbuf[i].to = c.remote
  /\ c.conn # "closing" => c.closes = 0 /\ Closes(c.sendbuf) = 0
  /\ c.conn = "closing" => c.closes + Closes(c.sendbuf) <= 1 /\ Silent(c)

-----------------------------------------------------------------------------
(* Buffers                                                                 *)

LEMMA EmptyBuffer == <<>> \in Seq(Packet) /\ Len(<<>>) = 0 /\ Closes(<<>>) = 0
                     /\ DOMAIN <<>> = {}
<1>1. {i \in DOMAIN <<>> : <<>>[i].kind = "close"} = {}
  OBVIOUS
<1>2. Closes(<<>>) = 0
  BY <1>1, FS_EmptySet DEF Closes
<1> QED BY <1>2

LEMMA OnePacket ==
  ASSUME NEW k \in {"data", "close"}, NEW r \in Remote
  PROVE  LET s == Append(<<>>, [kind |-> k, to |-> r]) IN
         /\ s \in Seq(Packet) /\ Len(s) = 1 /\ s # <<>> /\ DOMAIN s = {1}
         /\ \A i \in DOMAIN s : s[i].kind = k /\ s[i].to = r
         /\ Closes(s) = IF k = "close" THEN 1 ELSE 0
<1> DEFINE p == [kind |-> k, to |-> r]
           s == Append(<<>>, p)
<1>1. p \in Packet /\ p.kind = k /\ p.to = r
  BY DEF Packet
<1> HIDE DEF p
<1>2. s \in Seq(Packet) /\ Len(s) = 1 /\ s[1] = p /\ s # <<>>
  BY <1>1
<1>3. DOMAIN s = {1}
  BY <1>2
<1> HIDE DEF s
<1>4. {i \in DOMAIN s : s[i].kind = "close"} = IF k = "close" THEN {1} ELSE {}
  BY <1>1, <1>2, <1>3
<1>5. Cardinality({1}) = 1 /\ Cardinality({}) = 0
  BY FS_Singleton, FS_EmptySet
<1>6. Closes(s) = IF k = "close" THEN 1 ELSE 0
  BY <1>4, <1>5 DEF Closes
<1>7. \A i \in DOMAIN s : s[i].kind = k /\ s[i].to = r
  BY <1>1, <1>2, <1>3
<1> QED BY <1>2, <1>3, <1>6, <1>7 DEF s, p

(* What the close packets of a buffer add up to. *)
LEMMA ClosesType ==
  ASSUME NEW s \in Seq(Packet), Len(s) <= 1
  PROVE  Closes(s) \in Nat
<1>1. IsFiniteSet(1 .. Len(s))
  BY FS_Interval
<1>2. IsFiniteSet({i \in DOMAIN s : s[i].kind = "close"})
  BY <1>1, FS_Subset
<1> QED BY <1>2, FS_CardinalityType DEF Closes

-----------------------------------------------------------------------------
(* Sending                                                                 *)

(* send_packet leaves all but the buffer alone. *)
SendKeeps(c, d) ==
  /\ d.conn = c.conn /\ d.watchers = c.watchers /\ d.local = c.local /\ d.down = c.down
  /\ d.exit = c.exit /\ d.path = c.path /\ d.done = c.done

LEMMA SentForm ==
  ASSUME NEW c, WellFormed(c)
  PROVE  /\ WellFormed(Sent(c)) /\ SendKeeps(c, Sent(c))
         /\ Sent(c).sendbuf = <<>> /\ ~Sent(c).blocked
         /\ Silent(c) /\ "data" \in Sent(c).sent => "data" \in c.sent
<1> DEFINE d == Sent(c)
           kinds == {c.sendbuf[i].kind : i \in DOMAIN c.sendbuf}
<1>1. c \in Client /\ c.closes \in Nat /\ c.sendbuf \in Seq(Packet) /\ Closes(c.sendbuf) \in Nat
  BY ClosesType DEF WellFormed, Client
<1>2. kinds \subseteq {"data", "close"}
  <2>1. \A i \in DOMAIN c.sendbuf : c.sendbuf[i] \in Packet
    BY <1>1
  <2> QED BY <2>1 DEF Packet
<1>3. d = [c EXCEPT !.sendbuf = <<>>, !.blocked = FALSE, !.sent = @ \cup kinds,
                    !.closes = @ + Closes(c.sendbuf)]
  BY DEF Sent, Closes
<1>4. Silent(c) => "data" \notin kinds
  BY DEF Silent
<1> HIDE DEF d, kinds
<1>5. d \in Client
  <2>1. c.sent \subseteq {"data", "close"}
    BY <1>1 DEF Client
  <2>2. c.closes + Closes(c.sendbuf) \in Nat
    BY <1>1
  <2>3. c.sent \cup kinds \in SUBSET {"data", "close"}
    BY <2>1, <1>2
  <2> QED BY <1>1, <2>2, <2>3, <1>3, EmptyBuffer DEF Client
<1>6. /\ SendKeeps(c, d) /\ d.sendbuf = <<>> /\ d.blocked = FALSE /\ d.sent = c.sent \cup kinds
      /\ d.closes = c.closes + Closes(c.sendbuf)
  BY <1>1, <1>3 DEF Client, SendKeeps
<1>7. WellFormed(d)
  BY <1>1, <1>5, <1>6, EmptyBuffer DEF WellFormed, SendKeeps, Silent
<1> QED BY <1>4, <1>6, <1>7 DEF d

LEMMA DroppedForm ==
  ASSUME NEW c, WellFormed(c)
  PROVE  /\ WellFormed(Dropped(c)) /\ SendKeeps(c, Dropped(c))
         /\ Dropped(c).sendbuf = <<>> /\ ~Dropped(c).blocked
         /\ Dropped(c).sent = c.sent /\ Dropped(c).vn = c.vn /\ Dropped(c).remote = c.remote
<1> DEFINE d == Dropped(c)
<1>1. c \in Client /\ c.closes \in Nat /\ Closes(c.sendbuf) \in Nat
  BY ClosesType DEF WellFormed, Client
<1>2. d = [c EXCEPT !.sendbuf = <<>>, !.blocked = FALSE]
  BY DEF Dropped
<1> HIDE DEF d
<1>3. d \in Client
  BY <1>1, <1>2, EmptyBuffer DEF Client
<1>4. /\ SendKeeps(c, d) /\ d.sendbuf = <<>> /\ d.blocked = FALSE /\ d.sent = c.sent
      /\ d.closes = c.closes /\ d.vn = c.vn /\ d.remote = c.remote
  BY <1>1, <1>2 DEF Client, SendKeeps
<1>5. WellFormed(d)
  BY <1>1, <1>3, <1>4, EmptyBuffer DEF WellFormed, SendKeeps, Silent
<1> QED BY <1>4, <1>5 DEF d

(* The outcomes of send_packet. *)
LEMMA SendPacketForm ==
  ASSUME NEW c, WellFormed(c), c.sendbuf # <<>>, NEW o \in SendPacket(c)
  PROVE  /\ WellFormed(o.c) /\ SendKeeps(c, o.c) /\ o.rv \in {"ok", "blocked", "fatal"}
         /\ o.rv = "ok" => o.c.sendbuf = <<>> /\ ~o.c.blocked
         /\ o.rv # "ok" => o.c.sendbuf = c.sendbuf /\ o.c.sent = c.sent
         /\ o.rv = "fatal" => ~o.c.blocked
         /\ Silent(c) /\ "data" \in o.c.sent => "data" \in c.sent
<1>1. CASE o = Return("ok", Sent(c))
  BY <1>1, SentForm DEF Return
<1>2. CASE o = Return("ok", Dropped(c))
  BY <1>2, DroppedForm DEF Return
<1>3. ASSUME NEW b \in BOOLEAN, NEW rv \in {"blocked", "fatal"}, rv = "fatal" => ~b,
             o = Return(rv, [c EXCEPT !.blocked = b])
      PROVE  /\ WellFormed(o.c) /\ SendKeeps(c, o.c) /\ o.rv = rv
             /\ o.c.sendbuf = c.sendbuf /\ o.c.sent = c.sent /\ o.c.blocked = b
  <2> DEFINE d == [c EXCEPT !.blocked = b]
  <2>1. c \in Client
    BY DEF WellFormed
  <2>2. d \in Client
    BY <2>1 DEF Client
  <2>3. /\ SendKeeps(c, d) /\ d.sendbuf = c.sendbuf /\ d.blocked = b /\ d.sent = c.sent
        /\ d.closes = c.closes /\ d.remote = c.remote
    BY <2>1 DEF Client, SendKeeps
  <2>4. o.rv = rv /\ o.c = d
    BY <1>3 DEF Return
  <2> HIDE DEF d
  <2>5. WellFormed(d)
    BY <2>2, <2>3 DEF WellFormed, SendKeeps, Silent
  <2> QED BY <2>3, <2>4, <2>5
<1>4. CASE o = Return("blocked", [c EXCEPT !.blocked = TRUE])
  BY <1>3, <1>4
<1>5. CASE o = Return("fatal", [c EXCEPT !.blocked = FALSE])
  BY <1>3, <1>5
<1> QED BY <1>1, <1>2, <1>4, <1>5 DEF SendPacket

(* Watchers start and stop; only handshake_completed starts "change".      *)
WatchersKeep(c, d) ==
  /\ d.conn = c.conn /\ d.sendbuf = c.sendbuf /\ d.blocked = c.blocked
  /\ d.local = c.local /\ d.down = c.down /\ d.exit = c.exit /\ d.sent = c.sent
  /\ d.path = c.path /\ d.done = c.done /\ d.vn = c.vn /\ d.closes = c.closes
  /\ d.remote = c.remote

LEMMA WatchersForm ==
  ASSUME NEW c, WellFormed(c), NEW S, S \subseteq Watcher, "change" \in S => "change" \in c.watchers,
         NEW d, d = [c EXCEPT !.watchers = S]
  PROVE  WellFormed(d) /\ WatchersKeep(c, d) /\ d.watchers = S
<1>1. c \in Client
  BY DEF WellFormed
<1>2. d \in Client
  BY <1>1 DEF Client
<1>3. WatchersKeep(c, d) /\ d.watchers = S
  BY <1>1 DEF Client, WatchersKeep
<1>4. WellFormed(d)
  BY <1>2, <1>3 DEF WellFormed, WatchersKeep, Silent
<1> QED BY <1>3, <1>4

LEMMA StartForm ==
  ASSUME NEW c, WellFormed(c), NEW W, W \subseteq Watcher \ {"change"}
  PROVE  /\ WellFormed(Start(c, W)) /\ WatchersKeep(c, Start(c, W))
         /\ Start(c, W).watchers = c.watchers \cup W
<1>1. c.watchers \cup W \subseteq Watcher /\ ("change" \in c.watchers \cup W => "change" \in c.watchers)
  <2>1. c.watchers \subseteq Watcher
    BY DEF WellFormed, Client
  <2> QED BY <2>1
<1>2. Start(c, W) = [c EXCEPT !.watchers = c.watchers \cup W]
  BY DEF Start
<1> QED BY <1>1, <1>2, WatchersForm

LEMMA StopForm ==
  ASSUME NEW c, WellFormed(c), NEW W
  PROVE  /\ WellFormed(Stop(c, W)) /\ WatchersKeep(c, Stop(c, W))
         /\ Stop(c, W).watchers = c.watchers \ W
<1>1. c.watchers \ W \subseteq Watcher
  <2>1. c.watchers \subseteq Watcher
    BY DEF WellFormed, Client
  <2> QED BY <2>1
<1>2. Stop(c, W) = [c EXCEPT !.watchers = c.watchers \ W]
  BY DEF Stop
<1> QED BY <1>1, <1>2, WatchersForm

(* A packet of ngtcp2's, written into an empty buffer.                     *)
LEMMA PushPacketForm ==
  ASSUME NEW c, WellFormed(c), c.sendbuf = <<>>, ~Terminal(c), NEW r \in Remote
  PROVE  LET d == PushPacket(c, r) IN
         /\ WellFormed(d) /\ d.sendbuf # <<>> /\ ~Terminal(d)
         /\ d.down = c.down /\ d.exit = c.exit /\ c.watchers \subseteq d.watchers
<1> DEFINE d == PushPacket(c, r)
           buf == Append(<<>>, [kind |-> "data", to |-> r])
           st == IF c.conn = "initial" THEN "open" ELSE c.conn
<1>1. /\ c \in Client /\ c.conn \in {"initial", "open"} /\ st = "open"
      /\ c.watchers \cup {"timer"} \subseteq Watcher
  <2>1. c \in Client
    BY DEF WellFormed
  <2> QED BY <2>1 DEF Client, Terminal, Watcher
<1>2. d = [c EXCEPT !.sendbuf = buf, !.watchers = c.watchers \cup {"timer"},
                    !.remote = r, !.conn = st]
  BY <1>1 DEF PushPacket, ResetIdleTimer, Push, Start, Client
<1>3. /\ buf \in Seq(Packet) /\ Len(buf) = 1 /\ buf # <<>> /\ DOMAIN buf = {1}
      /\ (\A i \in DOMAIN buf : buf[i].to = r) /\ Closes(buf) = 0
  BY OnePacket
<1> HIDE DEF d, buf, st
<1>4. d \in Client
  BY <1>1, <1>2, <1>3 DEF Client
<1>5. /\ d.sendbuf = buf /\ d.watchers = c.watchers \cup {"timer"} /\ d.remote = r /\ d.conn = "open"
      /\ d.blocked = c.blocked /\ d.local = c.local /\ d.path = c.path /\ d.done = c.done
      /\ d.down = c.down /\ d.exit = c.exit /\ d.closes = c.closes
  BY <1>1, <1>2 DEF Client
<1>6. WellFormed(d)
  <2>1. /\ c.path.local <= c.local /\ (c.local = 1 => c.done /\ "change" \notin c.watchers)
        /\ ("change" \in c.watchers => c.done) /\ c.closes = 0
    BY <1>1 DEF WellFormed
  <2>2. /\ d.path.local <= d.local /\ (d.local = 1 => d.done /\ "change" \notin d.watchers)
        /\ ("change" \in d.watchers => d.done)
    BY <2>1, <1>5
  <2>3. Len(d.sendbuf) <= 1 /\ d.sendbuf # <<>> /\ \A i \in DOMAIN d.sendbuf : d.sendbuf[i].to = d.remote
    <3>1. Len(buf) <= 1
      BY <1>3
    <3>2. d.sendbuf = buf /\ d.remote = r
      BY <1>5
    <3> QED BY <1>3, <3>1, <3>2, Zenon
  <2>4. d.conn # "closing" /\ d.closes = 0 /\ Closes(d.sendbuf) = 0
    BY <2>1, <1>3, <1>5
  <2> QED BY <1>4, <2>2, <2>3, <2>4 DEF WellFormed
<1> QED BY <1>3, <1>5, <1>6 DEF d, Terminal

-----------------------------------------------------------------------------
(* Errors                                                                  *)

(* After disconnect(): no watcher but wev_, and a closing or draining      *)
(* connection has no data to send and has sent none.                       *)
Ends(c, d) ==
  /\ WellFormed(d)
  /\ Terminal(d) => Silent(d)
  /\ Terminal(c) => Terminal(d) /\ ("data" \in d.sent => "data" \in c.sent)

LEMMA HandleErrorForm ==
  ASSUME NEW c, WellFormed(c), NEW d \in HandleError(c)
  PROVE  Ends(c, d) /\ d.watchers = c.watchers
<1> DEFINE b == Dropped(c)
           buf == Append(<<>>, [kind |-> "close", to |-> c.path.remote])
           e == [Push(b, "close", c.path.remote) EXCEPT !.conn = "closing", !.remote = c.path.remote]
<1>1. CASE c.conn = "closing"
  BY <1>1 DEF HandleError, Ends, WellFormed
<1>2. CASE c.conn # "closing" /\ d = b
  <2>1. WellFormed(b) /\ SendKeeps(c, b) /\ b.sendbuf = <<>> /\ b.sent = c.sent
    BY DroppedForm
  <2> QED BY <1>2, <2>1, EmptyBuffer DEF Ends, SendKeeps, Terminal, Silent
<1>3. CASE /\ c.conn = "open"
           /\ \E o \in SendPacket(e) : d = o.c
  <2>1. /\ WellFormed(b) /\ SendKeeps(c, b) /\ b.sendbuf = <<>> /\ b.blocked = FALSE
        /\ b \in Client /\ c.path.remote \in Remote
    BY DroppedForm DEF WellFormed, Client
  <2>2. /\ buf \in Seq(Packet) /\ Len(buf) = 1 /\ buf # <<>> /\ DOMAIN buf = {1}
        /\ (\A i \in DOMAIN buf : buf[i].kind = "close" /\ buf[i].to = c.path.remote) /\ Closes(buf) = 1
    BY <2>1, OnePacket
  <2>3. e = [b EXCEPT !.sendbuf = buf, !.conn = "closing", !.remote = c.path.remote]
    BY <2>1 DEF Push, Client
  <2> HIDE DEF e, b, buf
  <2>4. e \in Client
    BY <2>1, <2>2, <2>3 DEF Client
  <2>5. /\ e.sendbuf = buf /\ e.conn = "closing" /\ e.remote = c.path.remote
        /\ e.watchers = b.watchers /\ e.blocked = b.blocked /\ e.local = b.local
        /\ e.path = b.path /\ e.done = b.done /\ e.closes = b.closes
    BY <2>1, <2>3 DEF Client
  <2>6. b.closes = 0
    BY <1>3, <2>1 DEF WellFormed, SendKeeps
  <2>7. WellFormed(e) /\ Silent(e)
    <3>1. /\ e.path.local <= e.local /\ (e.local = 1 => e.done /\ "change" \notin e.watchers)
          /\ ("change" \in e.watchers => e.done)
      BY <2>1, <2>5 DEF WellFormed
    <3>2. /\ Len(e.sendbuf) <= 1 /\ e.sendbuf # <<>>
          /\ \A i \in DOMAIN e.sendbuf : e.sendbuf[i].to = e.remote
      <4>1. Len(buf) <= 1
        BY <2>2
      <4>2. e.sendbuf = buf /\ e.remote = c.path.remote
        BY <2>5
      <4> QED BY <2>2, <4>1, <4>2, Zenon
    <3>3. e.closes + Closes(e.sendbuf) <= 1
      BY <2>2, <2>5, <2>6
    <3>4. Silent(e)
      BY <2>2, <2>5 DEF Silent
    <3> QED BY <2>4, <2>5, <3>1, <3>2, <3>3, <3>4 DEF WellFormed
  <2>8. PICK o \in SendPacket(e) : d = o.c
    BY <1>3
  <2>9. WellFormed(d) /\ SendKeeps(e, d)
    BY <2>2, <2>5, <2>7, <2>8, SendPacketForm
  <2>10. Silent(d) /\ d.watchers = c.watchers
    BY <2>1, <2>5, <2>9 DEF WellFormed, SendKeeps
  <2>11. ~Terminal(c)
    BY <1>3 DEF Terminal
  <2> QED BY <2>9, <2>10, <2>11 DEF Ends
<1> QED
  <2>1. c.conn \in {"initial", "open", "closing", "draining"}
    BY DEF WellFormed, Client
  <2> QED BY <2>1, <1>1, <1>2, <1>3 DEF HandleError

LEMMA DisconnectForm ==
  ASSUME NEW c, WellFormed(c), NEW d \in Disconnect(c)
  PROVE  Ends(c, d) /\ d.down /\ d.watchers \subseteq {"wev"}
<1>1. PICK h \in HandleError(c) : d = [h EXCEPT !.watchers = @ \cap {"wev"}, !.down = TRUE]
  BY DEF Disconnect
<1>2. Ends(c, h) /\ WellFormed(h) /\ h \in Client
  BY HandleErrorForm DEF Ends, WellFormed
<1> DEFINE w == [h EXCEPT !.watchers = h.watchers \cap {"wev"}]
<1>3. h.watchers \cap {"wev"} \subseteq Watcher /\ "change" \notin h.watchers \cap {"wev"}
  BY DEF Watcher
<1>4. WellFormed(w) /\ WatchersKeep(h, w) /\ w.watchers = h.watchers \cap {"wev"} /\ w \in Client
  <2>1. WellFormed(w) /\ WatchersKeep(h, w) /\ w.watchers = h.watchers \cap {"wev"}
    <3> DEFINE S == h.watchers \cap {"wev"}
    <3>1. S \subseteq Watcher /\ ("change" \in S => "change" \in h.watchers)
      BY <1>3
    <3>2. w = [h EXCEPT !.watchers = S]
      OBVIOUS
    <3> HIDE DEF S, w
    <3>3. WellFormed(w) /\ WatchersKeep(h, w) /\ w.watchers = S
      BY <1>2, <3>1, <3>2, WatchersForm
    <3> QED BY <3>3 DEF S
  <2> QED BY <2>1 DEF WellFormed
<1>5. d = [w EXCEPT !.down = TRUE]
  BY <1>1
<1> HIDE DEF w
<1>6. d \in Client
  BY <1>4, <1>5 DEF Client
<1>7. /\ d.conn = w.conn /\ d.sendbuf = w.sendbuf /\ d.blocked = w.blocked /\ d.watchers = w.watchers
      /\ d.local = w.local /\ d.down = TRUE /\ d.sent = w.sent /\ d.path = w.path /\ d.done = w.done
      /\ d.closes = w.closes /\ d.remote = w.remote
  BY <1>4, <1>5 DEF Client
<1>8. WellFormed(d)
  BY <1>4, <1>6, <1>7 DEF WellFormed, Silent
<1> QED
  BY <1>2, <1>4, <1>7, <1>8 DEF Ends, WatchersKeep, Terminal, Silent

(* A callback's function failed and disconnected. *)
Over(c, o) == Ends(c, o.c) /\ o.c.down /\ o.c.watchers \subseteq {"wev"}

LEMMA FailedForm ==
  ASSUME NEW c, WellFormed(c), NEW o \in Failed(c)
  PROVE  o.rv = "error" /\ Over(c, o)
<1>1. PICK d \in Disconnect(c) : o = Return("error", d)
  BY DEF Failed
<1>2. o.rv = "error" /\ o.c = d
  BY <1>1 DEF Return
<1> QED BY <1>2, DisconnectForm DEF Over

-----------------------------------------------------------------------------
(* Client::on_write                                                        *)

(* A client goes on: it is not closing, and its watchers still run, those  *)
(* at least that no schedule_retransmit stops.                             *)
GoesOn(c, d) ==
  /\ WellFormed(d) /\ ~Terminal(d) /\ ~Terminal(c)
  /\ d.down = c.down /\ c.watchers \ {"rttimer"} \subseteq d.watchers

LEMMA DestinationsType ==
  ASSUME NEW c, WellFormed(c)
  PROVE  Destinations(c) \subseteq Remote
<1>1. c.path.remote \in Remote
  BY DEF WellFormed, Client
<1> QED BY <1>1 DEF Destinations, PreferredAddrs, Remote

(* A packet is written and sent, or stays. *)
LEMMA PacketForm ==
  ASSUME NEW c, WellFormed(c), c.sendbuf = <<>>, ~Terminal(c),
         NEW o \in UNION {SendPacket(PushPacket(c, r)) : r \in Destinations(c)}
  PROVE  /\ GoesOn(c, o.c) /\ o.c.exit = c.exit /\ o.rv \in {"ok", "blocked", "fatal"}
         /\ o.rv = "ok" => o.c.sendbuf = <<>> /\ ~o.c.blocked
         /\ o.rv = "fatal" => ~o.c.blocked
<1>1. PICK r \in Destinations(c) : o \in SendPacket(PushPacket(c, r))
  OBVIOUS
<1>2. r \in Remote
  BY DestinationsType
<1> DEFINE d == PushPacket(c, r)
<1>3. /\ WellFormed(d) /\ d.sendbuf # <<>> /\ ~Terminal(d)
      /\ d.down = c.down /\ d.exit = c.exit /\ c.watchers \subseteq d.watchers
  BY <1>2, PushPacketForm
<1>4. o \in SendPacket(d)
  BY <1>1
<1> HIDE DEF d
<1>5. /\ WellFormed(o.c) /\ SendKeeps(d, o.c) /\ o.rv \in {"ok", "blocked", "fatal"}
      /\ o.rv = "ok" => o.c.sendbuf = <<>> /\ ~o.c.blocked
      /\ o.rv = "fatal" => ~o.c.blocked
  BY <1>3, <1>4, SendPacketForm
<1> QED BY <1>3, <1>5 DEF GoesOn, SendKeeps, Terminal

LEMMA ProgressForm ==
  ASSUME NEW c, WellFormed(c), c.sendbuf = <<>>, ~Terminal(c), NEW d \in Progress(c)
  PROVE  GoesOn(c, d) /\ d.sendbuf = <<>> /\ d.exit = c.exit
<1>1. CASE d = c
  BY <1>1 DEF GoesOn
<1>2. CASE \E o \in UNION {SendPacket(PushPacket(c, r)) : r \in Destinations(c)} :
             o.rv = "ok" /\ d = o.c
  <2>1. PICK o \in UNION {SendPacket(PushPacket(c, r)) : r \in Destinations(c)} :
               o.rv = "ok" /\ d = o.c
    BY <1>2
  <2> QED BY <2>1, PacketForm
<1> QED BY <1>1, <1>2 DEF Progress

(* What write_streams and on_write return: they failed and disconnected,   *)
(* or go on.                                                               *)
Writes(c, o) ==
  /\ o.rv \in {"ok", "blocked", "fatal", "error"}
  /\ \/ o.rv = "error" /\ Over(c, o)
     \/ GoesOn(c, o.c) /\ o.rv # "error" /\ (o.rv # "blocked" => ~o.c.blocked)

(* What goes on from there, and ends. *)
LEMMA GoesOnOver ==
  ASSUME NEW c, NEW d, GoesOn(c, d), NEW o, Over(d, o)
  PROVE  Over(c, o)
BY DEF GoesOn, Over, Ends

LEMMA WriteStreamsForm ==
  ASSUME NEW c, WellFormed(c), c.sendbuf = <<>>, NEW o \in WriteStreams(c)
  PROVE  Writes(c, o)
<1>1. CASE Terminal(c)
  <2>1. o \in Failed(c)
    BY <1>1 DEF WriteStreams
  <2> QED BY <2>1, FailedForm DEF Writes
<1>2. CASE ~Terminal(c)
  <2>1. PICK d \in Progress(c) :
          o \in (IF d.conn = "initial" THEN {} ELSE {Return("ok", d)})
                \cup (IF d = c THEN {} ELSE {Return("ok", Start(d, {"wev"}))})
                \cup Stuck(d) \cup Failed(d)
    BY <1>2 DEF WriteStreams
  <2>2. GoesOn(c, d) /\ d.sendbuf = <<>> /\ WellFormed(d) /\ ~Terminal(d) /\ ~d.blocked
    BY <1>2, ProgressForm DEF GoesOn, WellFormed
  <2>3. CASE o = Return("ok", d)
    BY <2>2, <2>3 DEF Writes, Return
  <2>4. CASE o = Return("ok", Start(d, {"wev"}))
    <3>1. /\ WellFormed(Start(d, {"wev"})) /\ WatchersKeep(d, Start(d, {"wev"}))
          /\ Start(d, {"wev"}).watchers = d.watchers \cup {"wev"}
      BY <2>2, StartForm DEF Watcher
    <3>2. o.rv = "ok" /\ o.c = Start(d, {"wev"})
      BY <2>4 DEF Return
    <3>3. GoesOn(c, o.c)
      BY <2>2, <3>1, <3>2 DEF GoesOn, WatchersKeep, Terminal
    <3> QED BY <2>2, <3>1, <3>2, <3>3 DEF Writes, WatchersKeep
  <2>5. CASE o \in Stuck(d)
    <3>1. o \in UNION {SendPacket(PushPacket(d, r)) : r \in Destinations(d)} /\ o.rv # "ok"
      BY <2>5 DEF Stuck
    <3>2. GoesOn(d, o.c) /\ o.rv \in {"ok", "blocked", "fatal"} /\ (o.rv = "fatal" => ~o.c.blocked)
      BY <2>2, <3>1, PacketForm
    <3> QED BY <2>2, <3>1, <3>2 DEF Writes, GoesOn
  <2>6. CASE o \in Failed(d)
    BY <2>2, <2>6, FailedForm, GoesOnOver DEF Writes
  <2> QED BY <2>1, <2>3, <2>4, <2>5, <2>6
<1> QED BY <1>1, <1>2

(* schedule_retransmit. *)
LEMMA ScheduleForm ==
  ASSUME NEW c, NEW d, GoesOn(c, d), NEW e \in Schedule(d)
  PROVE  GoesOn(c, e) /\ e.blocked = d.blocked
<1>1. WellFormed(d)
  BY DEF GoesOn
<1>2. CASE e = Start(d, {"rttimer"})
  <2>1. /\ WellFormed(Start(d, {"rttimer"})) /\ WatchersKeep(d, Start(d, {"rttimer"}))
        /\ Start(d, {"rttimer"}).watchers = d.watchers \cup {"rttimer"}
    BY <1>1, StartForm DEF Watcher
  <2> QED BY <1>2, <2>1 DEF GoesOn, WatchersKeep, Terminal
<1>3. CASE e = Stop(d, {"rttimer"})
  <2>1. /\ WellFormed(Stop(d, {"rttimer"})) /\ WatchersKeep(d, Stop(d, {"rttimer"}))
        /\ Stop(d, {"rttimer"}).watchers = d.watchers \ {"rttimer"}
    BY <1>1, StopForm
  <2> QED BY <1>3, <2>1 DEF GoesOn, WatchersKeep, Terminal
<1> QED BY <1>2, <1>3 DEF Schedule

LEMMA WriteForm ==
  ASSUME NEW c, WellFormed(c), c.sendbuf = <<>>, NEW o \in Write(c)
  PROVE  Writes(c, o)
<1>1. PICK w \in WriteStreams(c) :
        o \in CASE w.rv = "ok" /\ w.c.exit      -> Failed(w.c)
               [] w.rv = "blocked" \/ (w.rv = "ok" /\ ~w.c.exit)
                                               -> {Return(w.rv, d) : d \in Schedule(w.c)}
               [] w.rv \in {"fatal", "error"}  -> {w}
  BY DEF Write
<1>2. Writes(c, w)
  BY WriteStreamsForm
<1>3. CASE w.rv = "blocked" \/ (w.rv = "ok" /\ ~w.c.exit)
  <2>1. GoesOn(c, w.c)
    BY <1>2, <1>3 DEF Writes
  <2>2. PICK d \in Schedule(w.c) : o = Return(w.rv, d)
    BY <1>1, <1>3
  <2>3. o.rv = w.rv /\ o.c = d
    BY <2>2 DEF Return
  <2>4. GoesOn(c, d) /\ d.blocked = w.c.blocked
    BY <2>1, ScheduleForm
  <2> QED BY <1>2, <1>3, <2>3, <2>4 DEF Writes
<1>4. CASE w.rv = "ok" /\ w.c.exit
  <2>1. o \in Failed(w.c) /\ GoesOn(c, w.c) /\ WellFormed(w.c)
    BY <1>1, <1>2, <1>4 DEF Writes, GoesOn
  <2> QED BY <2>1, FailedForm, GoesOnOver DEF Writes
<1>5. CASE w.rv \in {"fatal", "error"}
  <2>1. o = w
    BY <1>1, <1>5
  <2> QED BY <2>1, <1>2, <1>5
<1> QED BY <1>2, <1>3, <1>4, <1>5 DEF Writes

(* on_write also sends what waits: a closing connection's close packet may *)
(* have to wait again.                                                     *)
OnWrites(c, o) ==
  /\ o.rv \in {"ok", "blocked", "fatal", "error"}
  /\ \/ o.rv \in {"error", "fatal"} /\ Over(c, o)
     \/ GoesOn(c, o.c) /\ o.rv # "error" /\ (o.rv # "blocked" => ~o.c.blocked)
     \/ /\ Terminal(c) /\ o.rv = "blocked" /\ WellFormed(o.c) /\ SendKeeps(c, o.c)
        /\ Silent(o.c) /\ o.c.sent = c.sent

LEMMA OnWriteForm ==
  ASSUME NEW c, WellFormed(c), Terminal(c) => Silent(c), NEW o \in OnWrite(c)
  PROVE  OnWrites(c, o)
<1>1. CASE c.sendbuf = <<>>
  <2>1. o \in Write(c)
    BY <1>1 DEF OnWrite
  <2> QED BY <1>1, <2>1, WriteForm DEF OnWrites, Writes
<1>2. CASE c.sendbuf # <<>>
  <2>1. PICK p \in SendPacket(c) :
          o \in CASE p.rv = "ok"      -> Write(p.c)
                 [] p.rv = "blocked" -> {p}
                 [] p.rv = "fatal"   -> {Return("fatal", d) : d \in Disconnect(p.c)}
    BY <1>2 DEF OnWrite
  <2>2. /\ WellFormed(p.c) /\ SendKeeps(c, p.c) /\ p.rv \in {"ok", "blocked", "fatal"}
        /\ p.rv = "ok" => p.c.sendbuf = <<>>
        /\ p.rv # "ok" => p.c.sendbuf = c.sendbuf /\ p.c.sent = c.sent
        /\ Silent(c) /\ "data" \in p.c.sent => "data" \in c.sent
    BY <1>2, SendPacketForm
  <2>3. /\ Terminal(p.c) <=> Terminal(c)
        /\ \A x : Over(p.c, x) => Over(c, x)
        /\ \A x : GoesOn(p.c, x) => GoesOn(c, x)
    BY <2>2 DEF Terminal, SendKeeps, Over, Ends, GoesOn
  <2>4. CASE p.rv = "ok"
    <3>1. o \in Write(p.c)
      BY <2>1, <2>4
    <3>2. Writes(p.c, o)
      BY <2>2, <2>4, <3>1, WriteForm
    <3> QED BY <2>3, <3>2 DEF Writes, OnWrites
  <2>5. CASE p.rv = "blocked"
    <3>1. o = p
      BY <2>1, <2>5
    <3>2. CASE Terminal(c)
      BY <2>2, <2>5, <3>1, <3>2 DEF OnWrites, Silent
    <3>3. CASE ~Terminal(c)
      <4>1. GoesOn(c, o.c)
        BY <2>2, <2>3, <3>1, <3>3 DEF GoesOn, SendKeeps
      <4> QED BY <2>5, <3>1, <4>1 DEF OnWrites
    <3> QED BY <3>2, <3>3
  <2>6. CASE p.rv = "fatal"
    <3>1. PICK d \in Disconnect(p.c) : o = Return("fatal", d)
      BY <2>1, <2>6
    <3>2. o.rv = "fatal" /\ o.c = d
      BY <3>1 DEF Return
    <3>3. Over(p.c, o)
      BY <2>2, <3>2, DisconnectForm DEF Over
    <3> QED BY <2>3, <3>2, <3>3 DEF OnWrites
  <2> QED BY <2>2, <2>4, <2>5, <2>6
<1> QED BY <1>1, <1>2

-----------------------------------------------------------------------------
(* Client::on_read                                                         *)

(* The client goes on with what it had to send. *)
Reads(c, d) == GoesOn(c, d) /\ d.blocked = c.blocked /\ d.sendbuf = c.sendbuf

LEMMA CompletedForm ==
  ASSUME NEW c, WellFormed(c), ~Terminal(c), NEW d \in Completed(c)
  PROVE  Reads(c, d)
<1>1. CASE d = c
  BY <1>1 DEF Reads, GoesOn
<1>2. CASE ~c.done /\ d = Start([c EXCEPT !.done = TRUE], HandshakeTimers)
  <2>1. c \in Client /\ c.local = 0 /\ c.watchers \cup HandshakeTimers \in SUBSET Watcher
    <3>1. c \in Client /\ c.local \in {0, 1} /\ c.local # 1 /\ c.watchers \subseteq Watcher
      BY <1>2 DEF WellFormed, Client
    <3>2. HandshakeTimers \subseteq Watcher
      BY ClientAssumption DEF ClientAssumption, HandshakeTimers, Watcher
    <3> QED BY <3>1, <3>2
  <2>2. d = [c EXCEPT !.done = TRUE, !.watchers = c.watchers \cup HandshakeTimers]
    BY <1>2, <2>1 DEF Start, Client
  <2>3. d \in Client
    BY <2>1, <2>2 DEF Client
  <2>4. /\ d.done = TRUE /\ d.watchers = c.watchers \cup HandshakeTimers /\ d.local = 0
        /\ d.conn = c.conn /\ d.sendbuf = c.sendbuf /\ d.blocked = c.blocked /\ d.down = c.down
        /\ d.path = c.path /\ d.closes = c.closes /\ d.remote = c.remote
    BY <2>1, <2>2 DEF Client
  <2>5. WellFormed(d)
    BY <2>1, <2>3, <2>4 DEF WellFormed, Silent
  <2> QED BY <2>4, <2>5 DEF Reads, GoesOn, Terminal
<1> QED BY <1>1, <1>2 DEF Completed

LEMMA FedForm ==
  ASSUME NEW c, WellFormed(c), ~Terminal(c), NEW d \in Fed(c)
  PROVE  Reads(c, d)
<1>1. CASE d = c
  BY <1>1 DEF Reads, GoesOn
<1>2. CASE \E b \in Completed(c) :
             \E x \in BOOLEAN, r \in Remote : d = [b EXCEPT !.exit = x, !.path.remote = r]
  <2>1. PICK b \in Completed(c) :
               \E x \in BOOLEAN, r \in Remote : d = [b EXCEPT !.exit = x, !.path.remote = r]
    BY <1>2
  <2>2. PICK x \in BOOLEAN, r \in Remote : d = [b EXCEPT !.exit = x, !.path.remote = r]
    BY <2>1
  <2>3. Reads(c, b) /\ WellFormed(b) /\ b \in Client
    BY CompletedForm DEF Reads, GoesOn, WellFormed
  <2>4. d = [b EXCEPT !.exit = x, !.path = [b.path EXCEPT !.remote = r]]
    BY <2>2, <2>3 DEF Client
  <2>5. /\ [b.path EXCEPT !.remote = r] \in [local : {0, 1}, remote : Remote]
        /\ [b.path EXCEPT !.remote = r].local = b.path.local
    BY <2>3 DEF Client
  <2>6. d \in Client
    BY <2>3, <2>4, <2>5 DEF Client
  <2>7. /\ d.done = b.done /\ d.watchers = b.watchers /\ d.local = b.local
        /\ d.conn = b.conn /\ d.sendbuf = b.sendbuf /\ d.blocked = b.blocked /\ d.down = b.down
        /\ d.path.local = b.path.local /\ d.closes = b.closes /\ d.remote = b.remote
    BY <2>3, <2>4, <2>5 DEF Client
  <2>8. WellFormed(d)
    BY <2>3, <2>6, <2>7 DEF WellFormed, Silent
  <2> QED BY <2>3, <2>7, <2>8 DEF Reads, GoesOn, Terminal
<1>3. CASE c.local # c.path.local
  <2>1. d = c
    BY <1>3 DEF Fed
  <2> QED BY <2>1, <1>1
<1>4. CASE c.local = c.path.local
  <2>1. PICK b \in Completed(c) : d \in Datagrams(b)
    BY <1>4 DEF Fed
  <2>2. PICK x \in Exits(b), r \in Validated(b) : d = Feed(b, x, r)
    BY <2>1 DEF Datagrams
  <2>3. b \in Client
    BY CompletedForm DEF Reads, GoesOn, WellFormed
  <2>4. x \in BOOLEAN
    BY <2>2, <2>3 DEF Exits, Client
  <2>5. r \in Remote
    BY <2>2, <2>3 DEF Validated, Client, PreferredAddrs, Remote
  <2> QED BY <2>2, <2>4, <2>5, <1>2 DEF Feed
<1> QED BY <1>3, <1>4

(* What makes reading fail leaves the client well formed. *)
LEMMA FeedErrorsForm ==
  ASSUME NEW c, WellFormed(c), ~Terminal(c), NEW d \in FeedErrors(c)
  PROVE  WellFormed(d)
<1>1. c \in Client /\ c.conn # "closing"
  BY DEF WellFormed, Terminal
<1>2. CASE d = c
  BY <1>2
<1>3. CASE d = [c EXCEPT !.conn = "draining"]
  <2>1. d \in Client
    BY <1>1, <1>3 DEF Client
  <2>2. /\ d.done = c.done /\ d.watchers = c.watchers /\ d.local = c.local
        /\ d.conn = "draining" /\ d.sendbuf = c.sendbuf /\ d.blocked = c.blocked
        /\ d.path = c.path /\ d.closes = c.closes /\ d.remote = c.remote
    BY <1>1, <1>3 DEF Client
  <2> QED BY <1>1, <2>1, <2>2 DEF WellFormed
<1>4. CASE d = [c EXCEPT !.vn = TRUE]
  <2>1. d \in Client
    BY <1>1, <1>4 DEF Client
  <2>2. /\ d.done = c.done /\ d.watchers = c.watchers /\ d.local = c.local
        /\ d.conn = c.conn /\ d.sendbuf = c.sendbuf /\ d.blocked = c.blocked
        /\ d.path = c.path /\ d.closes = c.closes /\ d.remote = c.remote
    BY <1>1, <1>4 DEF Client
  <2> QED BY <1>1, <2>1, <2>2 DEF WellFormed
<1> QED BY <1>2, <1>3, <1>4 DEF FeedErrors

LEMMA OnReadForm ==
  ASSUME NEW c, WellFormed(c), ~Terminal(c), NEW o \in OnRead(c)
  PROVE  \/ o.rv = "error" /\ WellFormed(o.c) /\ (Terminal(o.c) => Silent(o.c))
            /\ o.c.down /\ o.c.watchers \subseteq {"wev"}
         \/ o.rv = "ok" /\ Reads(c, o.c)
<1>1. PICK d \in Fed(c) :
        o \in (IF c.local = c.path.local THEN UNION {Failed(e) : e \in FeedErrors(d)} ELSE {})
              \cup (IF d.exit THEN Failed(d) ELSE {Return("ok", ResetIdleTimer(d))})
  BY DEF OnRead
<1>2. Reads(c, d) /\ WellFormed(d) /\ ~Terminal(d)
  BY FedForm DEF Reads, GoesOn
<1>3. CASE \E e \in FeedErrors(d) \cup {d} : o \in Failed(e)
  <2>1. PICK e \in FeedErrors(d) \cup {d} : o \in Failed(e)
    BY <1>3
  <2>2. WellFormed(e)
    BY <1>2, <2>1, FeedErrorsForm
  <2> QED BY <2>1, <2>2, FailedForm DEF Over, Ends
<1>4. CASE o = Return("ok", ResetIdleTimer(d))
  <2>1. /\ WellFormed(Start(d, {"timer"})) /\ WatchersKeep(d, Start(d, {"timer"}))
        /\ Start(d, {"timer"}).watchers = d.watchers \cup {"timer"}
    BY <1>2, StartForm DEF Watcher
  <2>2. o.rv = "ok" /\ o.c = Start(d, {"timer"})
    BY <1>4 DEF Return, ResetIdleTimer
  <2> QED BY <1>2, <2>1, <2>2 DEF Reads, GoesOn, WatchersKeep, Terminal
<1> QED BY <1>1, <1>3, <1>4

-----------------------------------------------------------------------------
(* The invariant                                                           *)

(* Well formed, and watched as its connection is.  Before run() nothing    *)
(* was sent and Client::init has started what it starts.                   *)
ClientInv ==
  /\ WellFormed(client)
  /\ Terminal(client) => Silent(client)
  /\ phase \in {"start", "loop", "over", "gone"}
  /\ phase = "start" =>
       /\ ~Terminal(client) /\ ~client.down
       /\ client.watchers = {"rev", "timer", "sigint"}
       /\ client.sendbuf = <<>>
  /\ WatchersMatchConnection

(* A step keeps the invariant and is silent where ngtcp2 is closing. *)
Kept ==
  /\ ClientInv'
  /\ Terminal(client) => Terminal(client)' /\ "data" \notin client'.sent

(* c is the client as a callback has it: some watchers are stopped. *)
Begins(W, c) ==
  /\ WellFormed(c) /\ c.sent = {} /\ c.watchers = client.watchers \ W
  /\ c.conn = client.conn /\ c.sendbuf = client.sendbuf /\ c.blocked = client.blocked
  /\ c.down = client.down /\ c.done = client.done /\ c.local = client.local

LEMMA NoneSent ==
  ASSUME NEW c, WellFormed(c), NEW d, d = [c EXCEPT !.sent = {}]
  PROVE  /\ WellFormed(d) /\ d.sent = {} /\ d.watchers = c.watchers
         /\ d.conn = c.conn /\ d.sendbuf = c.sendbuf /\ d.blocked = c.blocked
         /\ d.down = c.down /\ d.done = c.done /\ d.local = c.local
<1>1. c \in Client
  BY DEF WellFormed
<1>2. d \in Client
  BY <1>1 DEF Client
<1>3. /\ d.sent = {} /\ d.watchers = c.watchers
      /\ d.conn = c.conn /\ d.sendbuf = c.sendbuf /\ d.blocked = c.blocked
      /\ d.down = c.down /\ d.done = c.done /\ d.local = c.local
      /\ d.path = c.path /\ d.closes = c.closes /\ d.remote = c.remote
  BY <1>1 DEF Client
<1>4. WellFormed(d)
  BY <1>2, <1>3 DEF WellFormed, Silent
<1> QED BY <1>3, <1>4

LEMMA BeginForm ==
  ASSUME WellFormed(client)
  PROVE  /\ \A c : c = [client EXCEPT !.sent = {}] => Begins({}, c)
         /\ \A c, W : c = [Stop(client, W) EXCEPT !.sent = {}] => Begins(W, c)
<1>1. ASSUME NEW c, c = [client EXCEPT !.sent = {}]
      PROVE  Begins({}, c)
  BY <1>1, NoneSent DEF Begins
<1>2. ASSUME NEW c, NEW W, c = [Stop(client, W) EXCEPT !.sent = {}]
      PROVE  Begins(W, c)
  <2> DEFINE d == Stop(client, W)
  <2>1. WellFormed(d) /\ WatchersKeep(client, d) /\ d.watchers = client.watchers \ W
    BY StopForm
  <2>2. c = [d EXCEPT !.sent = {}]
    BY <1>2
  <2> HIDE DEF d
  <2>3. /\ WellFormed(c) /\ c.sent = {} /\ c.watchers = d.watchers
        /\ c.conn = d.conn /\ c.sendbuf = d.sendbuf /\ c.blocked = d.blocked
        /\ c.down = d.down /\ c.done = d.done /\ c.local = d.local
    BY <2>1, <2>2, NoneSent
  <2> QED BY <2>1, <2>3 DEF Begins, WatchersKeep
<1> QED BY <1>1, <1>2

(* c is ready for on_write in a callback. *)
Ready(c) ==
  /\ WellFormed(c)
  /\ Terminal(c) <=> Terminal(client)
  /\ Terminal(c) => Silent(c) /\ c.down /\ c.watchers \subseteq {"wev"} /\ "data" \notin c.sent
  /\ ~c.down => Basic \subseteq c.watchers

LEMMA BeginsReady ==
  ASSUME ClientInv, phase = "loop", NEW c, NEW W, W \cap Basic = {}, Begins(W, c)
  PROVE  Ready(c)
BY DEF ClientInv, Begins, Ready, Terminal, Silent, WatchersMatchConnection

(* on_write and what a callback does with its result. *)
LEMMA AfterWriteStep ==
  ASSUME phase = "loop", phase' = phase, NEW c, Ready(c), NEW o, OnWrites(c, o), AfterWrite(o)
  PROVE  Kept
<1>1. CASE Over(c, o) /\ o.rv # "blocked"
  <2>1. client' = o.c
    BY <1>1 DEF AfterWrite
  <2>2. /\ WellFormed(o.c) /\ (Terminal(o.c) => Silent(o.c)) /\ o.c.down
        /\ o.c.watchers \subseteq {"wev"}
        /\ (Terminal(c) => Terminal(o.c) /\ ("data" \in o.c.sent => "data" \in c.sent))
    BY <1>1 DEF Over, Ends
  <2> QED BY <2>1, <2>2 DEF Kept, ClientInv, WatchersMatchConnection, Ready, Terminal, Silent, WellFormed
<1>2. CASE /\ GoesOn(c, o.c) /\ (o.rv # "blocked" => ~o.c.blocked)
  <2>1. /\ WellFormed(o.c) /\ ~Terminal(o.c) /\ ~Terminal(client) /\ o.c.down = c.down
        /\ (Basic \subseteq c.watchers => Basic \subseteq o.c.watchers)
    BY <1>2 DEF GoesOn, Ready, Basic
  <2>2. CASE o.rv = "blocked"
    <3> DEFINE d == Start(o.c, {"wev"})
    <3>1. WellFormed(d) /\ WatchersKeep(o.c, d) /\ d.watchers = o.c.watchers \cup {"wev"}
      BY <2>1, StartForm DEF Watcher
    <3>2. client' = d
      BY <2>2 DEF AfterWrite
    <3> HIDE DEF d
    <3>3. /\ WellFormed(client') /\ ~Terminal(client') /\ "wev" \in client'.watchers
          /\ (~client'.down => Basic \subseteq client'.watchers)
      BY <2>1, <3>1, <3>2 DEF WatchersKeep, Terminal, Ready
    <3> QED BY <2>1, <3>3 DEF Kept, ClientInv, WatchersMatchConnection, Terminal, Silent, WellFormed
  <2>3. CASE o.rv # "blocked"
    <3>1. client' = o.c /\ ~client'.blocked
      BY <1>2, <2>3 DEF AfterWrite
    <3>2. ~client'.down => Basic \subseteq client'.watchers
      BY <2>1, <3>1 DEF Ready
    <3> QED BY <2>1, <3>1, <3>2 DEF Kept, ClientInv, WatchersMatchConnection, Terminal, Silent, WellFormed
  <2> QED BY <2>2, <2>3
<1>3. CASE /\ Terminal(c) /\ o.rv = "blocked" /\ WellFormed(o.c) /\ SendKeeps(c, o.c)
           /\ Silent(o.c) /\ o.c.sent = c.sent
  <2> DEFINE d == Start(o.c, {"wev"})
  <2>1. WellFormed(d) /\ WatchersKeep(o.c, d) /\ d.watchers = o.c.watchers \cup {"wev"}
    BY <1>3, StartForm DEF Watcher
  <2>2. client' = d
    BY <1>3 DEF AfterWrite
  <2> HIDE DEF d
  <2>3. /\ WellFormed(client') /\ Terminal(client') /\ Silent(client') /\ client'.down
        /\ client'.watchers \subseteq {"wev"} /\ "data" \notin client'.sent
    BY <1>3, <2>1, <2>2 DEF WatchersKeep, SendKeeps, Terminal, Ready, Silent
  <2> QED BY <2>3 DEF Kept, ClientInv, WatchersMatchConnection, Terminal, Silent, WellFormed
<1> QED BY <1>1, <1>2, <1>3 DEF OnWrites

(* A callback, or the destructor, ends with disconnect(). *)
LEMMA DisconnectStep ==
  ASSUME phase = "loop", phase' = phase, ~Terminal(client), NEW c, WellFormed(c), client' \in Disconnect(c)
  PROVE  Kept
<1>1. /\ WellFormed(client') /\ (Terminal(client') => Silent(client')) /\ client'.down
      /\ client'.watchers \subseteq {"wev"}
  BY DisconnectForm DEF Ends
<1> QED BY <1>1 DEF Kept, ClientInv, WatchersMatchConnection, Terminal, Silent, WellFormed

-----------------------------------------------------------------------------
(* Callbacks                                                               *)

(* Only wev_ is active while ngtcp2 is closing. *)
LEMMA OthersAreOff ==
  ASSUME ClientInv, phase = "loop", NEW w \in Watcher \ {"wev"}, w \in client.watchers
  PROVE  ~Terminal(client)
BY DEF ClientInv, WatchersMatchConnection

(* on_write, in a callback. *)
LEMMA OnWriteStep ==
  ASSUME phase = "loop", phase' = phase, NEW c, Ready(c), NEW o \in OnWrite(c), AfterWrite(o)
  PROVE  Kept
<1>1. WellFormed(c) /\ (Terminal(c) => Silent(c))
  BY DEF Ready
<1>2. OnWrites(c, o)
  BY <1>1, OnWriteForm
<1> QED BY <1>2, AfterWriteStep

LEMMA WriteCbStep ==
  ASSUME ClientInv, WriteCb
  PROVE  Kept
<1> DEFINE c == [Stop(client, {"wev"}) EXCEPT !.sent = {}]
<1>1. PICK o \in OnWrite(c) : AfterWrite(o)
  BY DEF WriteCb
<1>2. phase = "loop" /\ phase' = phase
  BY DEF WriteCb, Fires
<1>3. Begins({"wev"}, c)
  BY BeginForm DEF ClientInv
<1> HIDE DEF c
<1>4. Ready(c)
  BY <1>2, <1>3, BeginsReady DEF Basic
<1> QED BY <1>1, <1>2, <1>4, OnWriteStep

LEMMA DelayStreamCbStep ==
  ASSUME ClientInv, DelayStreamCb
  PROVE  Kept
<1> DEFINE c == [Stop(client, {"delay"}) EXCEPT !.sent = {}]
<1>1. PICK o \in OnWrite(c) : AfterWrite(o)
  BY DEF DelayStreamCb
<1>2. phase = "loop" /\ phase' = phase
  BY DEF DelayStreamCb, Fires
<1>3. Begins({"delay"}, c)
  BY BeginForm DEF ClientInv
<1> HIDE DEF c
<1>4. Ready(c)
  BY <1>2, <1>3, BeginsReady DEF Basic
<1> QED BY <1>1, <1>2, <1>4, OnWriteStep

LEMMA ReadCbStep ==
  ASSUME ClientInv, ReadCb
  PROVE  Kept
<1> DEFINE c == [client EXCEPT !.sent = {}]
<1>1. PICK r \in OnRead(c) :
        IF r.rv = "ok" THEN \E o \in OnWrite(r.c) : AfterWrite(o) ELSE client' = r.c
  BY DEF ReadCb
<1>2. phase = "loop" /\ phase' = phase /\ "rev" \in client.watchers
  BY DEF ReadCb, Fires
<1>3. Begins({}, c)
  BY BeginForm DEF ClientInv
<1> HIDE DEF c
<1>4. ~Terminal(client)
  BY <1>2, OthersAreOff DEF Watcher
<1>5. Ready(c) /\ WellFormed(c) /\ ~Terminal(c)
  <2>1. Ready(c)
    BY <1>2, <1>3, BeginsReady
  <2> QED BY <2>1, <1>4 DEF Ready
<1>6. CASE r.rv = "ok"
  <2>1. Reads(c, r.c)
    BY <1>1, <1>5, <1>6, OnReadForm
  <2>2. Ready(r.c)
    BY <1>4, <1>5, <2>1 DEF Reads, GoesOn, Ready, Basic
  <2>3. PICK o \in OnWrite(r.c) : AfterWrite(o)
    BY <1>1, <1>6
  <2> QED BY <1>2, <2>2, <2>3, OnWriteStep
<1>7. CASE r.rv # "ok"
  <2>1. /\ WellFormed(client') /\ (Terminal(client') => Silent(client')) /\ client'.down
        /\ client'.watchers \subseteq {"wev"}
    BY <1>1, <1>5, <1>7, OnReadForm
  <2> QED
    BY <1>2, <1>4, <2>1 DEF Kept, ClientInv, WatchersMatchConnection, Terminal, Silent, WellFormed
<1> QED BY <1>6, <1>7

LEMMA TimeoutCbStep ==
  ASSUME ClientInv, TimeoutCb
  PROVE  Kept
<1> DEFINE c == [client EXCEPT !.sent = {}]
<1>1. phase = "loop" /\ phase' = phase /\ "timer" \in client.watchers /\ client' \in Disconnect(c)
  BY DEF TimeoutCb, Fires
<1>2. WellFormed(c)
  BY BeginForm DEF ClientInv, Begins
<1> HIDE DEF c
<1>3. ~Terminal(client)
  BY <1>1, OthersAreOff DEF Watcher
<1> QED BY <1>1, <1>2, <1>3, DisconnectStep

LEMMA RetransmitCbStep ==
  ASSUME ClientInv, RetransmitCb
  PROVE  Kept
<1> DEFINE c == [client EXCEPT !.sent = {}]
<1>1. PICK e \in HandleExpiry(c) :
        \E o \in (IF e.rv = "ok" THEN OnWrite(e.c) ELSE {e}) :
          IF o.rv \in {"ok", "blocked"} THEN AfterWrite(o) ELSE client' \in Disconnect(o.c)
  BY DEF RetransmitCb
<1>2. phase = "loop" /\ phase' = phase /\ "rttimer" \in client.watchers
  BY DEF RetransmitCb, Fires
<1>3. Begins({}, c)
  BY BeginForm DEF ClientInv
<1> HIDE DEF c
<1>4. ~Terminal(client)
  BY <1>2, OthersAreOff DEF Watcher
<1>5. Ready(c) /\ WellFormed(c) /\ ~Terminal(c)
  <2>1. Ready(c)
    BY <1>2, <1>3, BeginsReady
  <2> QED BY <2>1, <1>4 DEF Ready
<1>6. PICK o \in (IF e.rv = "ok" THEN OnWrite(e.c) ELSE {e}) :
        IF o.rv \in {"ok", "blocked"} THEN AfterWrite(o) ELSE client' \in Disconnect(o.c)
  BY <1>1
<1>7. CASE e = Return("ok", c)
  <2>1. o \in OnWrite(c)
    BY <1>6, <1>7 DEF Return
  <2>2. CASE o.rv \in {"ok", "blocked"}
    BY <1>2, <1>5, <1>6, <2>1, <2>2, OnWriteStep
  <2>3. CASE o.rv \notin {"ok", "blocked"}
    <3>1. OnWrites(c, o)
      BY <1>5, <2>1, OnWriteForm
    <3>2. WellFormed(o.c)
      BY <3>1 DEF OnWrites, Over, Ends, GoesOn
    <3> QED BY <1>2, <1>4, <1>6, <2>3, <3>2, DisconnectStep
  <2> QED BY <2>2, <2>3
<1>8. CASE e \in Failed(c)
  <2>1. e.rv = "error" /\ WellFormed(e.c)
    BY <1>5, <1>8, FailedForm DEF Over, Ends
  <2>2. o = e
    BY <1>6, <2>1
  <2>3. client' \in Disconnect(e.c)
    BY <1>6, <2>1, <2>2
  <2> QED BY <1>2, <1>4, <2>1, <2>3, DisconnectStep
<1> QED BY <1>7, <1>8 DEF HandleExpiry

(* A one-shot timer other than wev_ ends, and nothing else. *)
LEMMA TimerEnds ==
  ASSUME ClientInv, phase = "loop", phase' = phase, ~Terminal(client),
         NEW w \in {"key", "change"}, Begins({w}, client')
  PROVE  Kept
BY DEF Kept, ClientInv, Begins, WatchersMatchConnection, Terminal, Silent, WellFormed, Basic

LEMMA KeyUpdateCbStep ==
  ASSUME ClientInv, KeyUpdateCb
  PROVE  Kept
<1> DEFINE c == [Stop(client, {"key"}) EXCEPT !.sent = {}]
<1>1. client' = c \/ client' \in Disconnect(c)
  BY DEF KeyUpdateCb
<1>2. phase = "loop" /\ phase' = phase /\ "key" \in client.watchers
  BY DEF KeyUpdateCb, Fires
<1>3. Begins({"key"}, c) /\ WellFormed(c)
  BY BeginForm DEF ClientInv, Begins
<1> HIDE DEF c
<1>4. ~Terminal(client)
  BY <1>2, OthersAreOff DEF Watcher
<1>5. CASE client' = c
  BY <1>2, <1>3, <1>4, <1>5, TimerEnds
<1>6. CASE client' \in Disconnect(c)
  BY <1>2, <1>3, <1>4, <1>6, DisconnectStep
<1> QED BY <1>1, <1>5, <1>6

(* The first local address is left once; the paths start at the old one or *)
(* the new one.                                                            *)
LEMMA NewPathsType ==
  ASSUME NEW c, WellFormed(c), NEW p \in NewPaths(c, 1)
  PROVE  p \in [local : {0, 1}, remote : Remote]
<1>1. c.path \in [local : {0, 1}, remote : Remote]
  BY DEF WellFormed, Client
<1> QED BY <1>1 DEF NewPaths, Remote

LEMMA ChangeLocalAddrCbStep ==
  ASSUME ClientInv, ChangeLocalAddrCb
  PROVE  Kept
<1> DEFINE c == [Stop(client, {"change"}) EXCEPT !.sent = {}]
<1>1. client' = c \/ client' \in ChangeLocalAddr(c)
  BY DEF ChangeLocalAddrCb
<1>2. phase = "loop" /\ phase' = phase /\ "change" \in client.watchers
  BY DEF ChangeLocalAddrCb, Fires
<1>a. Begins({"change"}, c)
  BY BeginForm DEF ClientInv
<1> HIDE DEF c
<1>3. Begins({"change"}, c) /\ WellFormed(c) /\ c \in Client
  BY <1>a DEF Begins, WellFormed
<1>4. ~Terminal(client)
  BY <1>2, OthersAreOff DEF Watcher
<1>5. CASE client' = c
  BY <1>2, <1>3, <1>4, <1>5, TimerEnds
<1>6. CASE client' \in ChangeLocalAddr(c)
  <2>1. c.local = 0 /\ c.done /\ "change" \notin c.watchers
    BY <1>2, <1>3 DEF ClientInv, WellFormed, Begins, Client
  <2>2. PICK p \in NewPaths(c, c.local + 1) :
          client' = [c EXCEPT !.local = c.local + 1, !.remote = "server", !.path = p]
    BY <1>6 DEF ChangeLocalAddr
  <2>3. client' = [c EXCEPT !.local = 1, !.remote = "server", !.path = p]
    BY <2>1, <2>2
  <2>4. p \in [local : {0, 1}, remote : Remote]
    BY <1>3, <2>1, NewPathsType
  <2>5. client' \in Client
    BY <1>3, <2>3, <2>4 DEF Client, Remote
  <2>6. /\ client'.local = 1 /\ client'.path = p /\ client'.conn = c.conn
        /\ client'.sendbuf = c.sendbuf /\ client'.blocked = c.blocked /\ client'.down = c.down
        /\ client'.watchers = c.watchers /\ client'.done = c.done /\ client'.closes = c.closes
    BY <1>3, <2>3 DEF Client
  <2>7. WellFormed(client')
    <3>1. client'.path.local <= client'.local
      BY <2>4, <2>6
    <3> QED BY <1>3, <2>1, <2>5, <2>6, <3>1 DEF WellFormed, Silent
  <2> QED
    BY <1>2, <1>3, <1>4, <2>6, <2>7
    DEF Kept, ClientInv, Begins, WatchersMatchConnection, Terminal, Silent, WellFormed, Basic
<1> QED BY <1>1, <1>5, <1>6

-----------------------------------------------------------------------------
(* run() and main                                                          *)

LEMMA RunStep ==
  ASSUME ClientInv, Run
  PROVE  Kept
<1>1. PICK o \in OnWrite(client) : client' = o.c /\ phase' = IF o.rv = "ok" THEN "loop" ELSE "gone"
  BY DEF Run
<1>2. /\ WellFormed(client) /\ ~Terminal(client) /\ ~client.down
      /\ client.watchers = {"rev", "timer", "sigint"}
  BY DEF Run, ClientInv
<1>3. OnWrites(client, o)
  BY <1>2, OnWriteForm
<1>4. CASE o.rv = "ok"
  <2>1. GoesOn(client, client') /\ ~client'.blocked
    BY <1>1, <1>2, <1>3, <1>4 DEF OnWrites
  <2>2. WellFormed(client') /\ ~Terminal(client') /\ Basic \subseteq client'.watchers
    BY <1>2, <2>1 DEF GoesOn, Basic
  <2> QED
    BY <1>1, <1>2, <1>4, <2>1, <2>2 DEF Kept, ClientInv, WatchersMatchConnection, Terminal, Silent, WellFormed
<1>5. CASE o.rv # "ok"
  <2>1. WellFormed(client') /\ (Terminal(client') => Silent(client'))
    BY <1>1, <1>2, <1>3, <1>5 DEF OnWrites, Over, Ends, GoesOn
  <2> QED
    BY <1>1, <1>2, <1>5, <2>1 DEF Kept, ClientInv, WatchersMatchConnection, Terminal, Silent, WellFormed
<1> QED BY <1>4, <1>5

(* ~Client stops what disconnect() left, and the buffer goes with it. *)
LEMMA DestroyStep ==
  ASSUME ClientInv, Destroy
  PROVE  Kept
<1> DEFINE c == [client EXCEPT !.sent = {}]
<1>1. PICK d \in Disconnect(c) : client' = [d EXCEPT !.watchers = {}, !.sendbuf = <<>>, !.blocked = FALSE]
  BY DEF Destroy
<1>2. phase' = "gone"
  BY DEF Destroy
<1>3. Begins({}, c)
  BY BeginForm DEF ClientInv
<1> HIDE DEF c
<1>4. Ends(c, d) /\ WellFormed(d)
  BY <1>1, <1>3, DisconnectForm DEF Begins, Ends
<1> DEFINE b == Dropped(d)
<1>5. WellFormed(b) /\ SendKeeps(d, b) /\ b.sendbuf = <<>> /\ ~b.blocked /\ b.sent = d.sent /\ b \in Client
  BY <1>4, DroppedForm DEF WellFormed
<1>6. client' = [b EXCEPT !.watchers = {}]
  BY <1>1, <1>4 DEF Dropped, WellFormed, Client
<1> HIDE DEF b
<1>7. WellFormed(client') /\ WatchersKeep(b, client')
  BY <1>5, <1>6, WatchersForm
<1>8. Terminal(client) => Terminal(client') /\ "data" \notin client'.sent
  BY <1>3, <1>4, <1>5, <1>7 DEF Begins, Ends, SendKeeps, WatchersKeep, Terminal
<1>9. client'.sendbuf = <<>>
  BY <1>5, <1>7 DEF WatchersKeep
<1> QED
  BY <1>2, <1>7, <1>8, <1>9, EmptyBuffer
  DEF Kept, ClientInv, WatchersMatchConnection, Terminal, Silent, WellFormed

(* Only the phase changes. *)
LEMMA PhaseStep ==
  ASSUME ClientInv, client' = client, phase' \in {"over", "gone"} \/ phase' = phase
  PROVE  ClientInv'
BY DEF ClientInv, WatchersMatchConnection, Terminal, Silent, WellFormed

-----------------------------------------------------------------------------
(* The theorems                                                            *)

(* Every step keeps the invariant, and is silent where ngtcp2 is closing,  *)
(* or leaves the client as it is.                                          *)
LEMMA NextStep ==
  ASSUME ClientInv, Next
  PROVE  Kept \/ (ClientInv' /\ client' = client)
<1>1. CASE Run
  BY <1>1, RunStep
<1>2. CASE SetUpFails \/ EvRunReturns \/ SigInt
  BY <1>2, PhaseStep DEF SetUpFails, EvRunReturns, SigInt
<1>3. CASE WriteCb
  BY <1>3, WriteCbStep
<1>4. CASE ReadCb
  BY <1>4, ReadCbStep
<1>5. CASE TimeoutCb
  BY <1>5, TimeoutCbStep
<1>6. CASE RetransmitCb
  BY <1>6, RetransmitCbStep
<1>7. CASE KeyUpdateCb
  BY <1>7, KeyUpdateCbStep
<1>8. CASE DelayStreamCb
  BY <1>8, DelayStreamCbStep
<1>9. CASE ChangeLocalAddrCb
  BY <1>9, ChangeLocalAddrCbStep
<1>10. CASE Destroy
  BY <1>10, DestroyStep
<1> QED
  BY <1>1, <1>2, <1>3, <1>4, <1>5, <1>6, <1>7, <1>8, <1>9, <1>10 DEF Next, Callback

LEMMA InitInv == Init => ClientInv
<1> SUFFICES ASSUME Init PROVE ClientInv
  OBVIOUS
<1>1. /\ client.conn = "initial" /\ client.sendbuf = <<>> /\ client.blocked = FALSE
      /\ client.watchers = {"rev", "timer", "sigint"} /\ client.local = 0 /\ client.remote = "server"
      /\ client.path.local = 0 /\ client.done = FALSE /\ client.down = FALSE /\ client.closes = 0
  BY DEF Init
<1>2. client \in Client
  BY EmptyBuffer DEF Init, Client, Remote, Watcher
<1>3. WellFormed(client)
  BY <1>1, <1>2, EmptyBuffer DEF WellFormed
<1> QED BY <1>1, <1>3 DEF ClientInv, WatchersMatchConnection, Terminal, Init

LEMMA StutterStep ==
  ASSUME ClientInv, UNCHANGED vars
  PROVE  ClientInv'
BY PhaseStep DEF vars

(* The invariant of the event loop. *)
THEOREM ClientAlways == Spec => []ClientInv
<1>1. ClientInv /\ [Next]_vars => ClientInv'
  BY NextStep, StutterStep DEF Kept
<1> QED BY <1>1, InitInv, PTL DEF Spec

(* The client's state has its types: in particular its socket is replaced  *)
(* once at most and ngtcp2's path starts at an address the client has or   *)
(* had.                                                                    *)
THEOREM ClientTypeCorrect == Spec => []TypeOK
<1>1. ClientInv => TypeOK
  BY DEF ClientInv, TypeOK, WellFormed, Client
<1> QED BY <1>1, ClientAlways, PTL

(* on_write's assertion of room for a packet holds in every configuration: *)
(* sendbuf_ never holds two packets.                                       *)
THEOREM RoomIsThere == Spec => []RoomForPacket
<1>1. ClientInv => RoomForPacket
  BY DEF ClientInv, RoomForPacket, WellFormed
<1> QED BY <1>1, ClientAlways, PTL

(* The watchers of a connected client run, rttimer_ apart, a refused       *)
(* packet has wev_, and a closing client keeps none but wev_.              *)
THEOREM WatchersFollow == Spec => []WatchersMatchConnection
<1>1. ClientInv => WatchersMatchConnection
  BY DEF ClientInv
<1> QED BY <1>1, ClientAlways, PTL

(* However errors meet, handle_error sends one close packet at most.       *)
THEOREM ClosesOnce == Spec => []CloseSentOnce
<1>1. ASSUME WellFormed(client) PROVE client.closes + Closes(client.sendbuf) <= 1
  BY <1>1 DEF WellFormed
<1>2. ClientInv => CloseSentOnce
  BY <1>1 DEF ClientInv, CloseSentOnce, Closes
<1> QED BY <1>2, ClientAlways, PTL

(* A packet that waits goes where ngtcp2 meant it to, while the client has *)
(* its first socket.                                                       *)
THEOREM WaitingIsMeant == Spec => []WaitingGoesWhereMeant
<1>1. ClientInv => WaitingGoesWhereMeant
  BY DEF ClientInv, WaitingGoesWhereMeant, WellFormed
<1> QED BY <1>1, ClientAlways, PTL

(* No callback of a closing or draining client, nor its destructor, sends  *)
(* data or opens the connection again.                                     *)
THEOREM TerminalStaysSilent == Spec => TerminalIsSilent
<1>1. ClientInv /\ [Next]_vars =>
        [Terminal(client) /\ client' # client => Terminal(client)' /\ "data" \notin client'.sent]_vars
  <2> SUFFICES ASSUME ClientInv, Next, Terminal(client), client' # client
               PROVE  Terminal(client)' /\ "data" \notin client'.sent
    OBVIOUS
  <2> QED BY NextStep DEF Kept
<1> QED BY <1>1, ClientAlways, PTL DEF Spec, TerminalIsSilent
=============================================================================
