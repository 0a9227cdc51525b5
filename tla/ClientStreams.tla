---------------------------- MODULE ClientStreams ----------------------------
(***************************************************************************)
(* The streams of the client, src/quicsy_client.cc: the requests it has to *)
(* make, one on each bidirectional stream the server allows, the first     *)
(* perhaps as early data; the push streams of the server; and the three    *)
(* tables that know them: ngtcp2's, nghttp3's and streams_.                *)
(*                                                                         *)
(* Stream i is the i-th bidirectional stream the client opens.  A step is  *)
(* one callback with every call made inside it.                            *)
(***************************************************************************)
EXTENDS Naturals, Sequences, FiniteSets

CONSTANTS
  NStreams,       (* config.nstreams, the requests to make                  *)
  NRequests,      (* config.requests.size(), the URIs they go to            *)
  MaxStreams,     (* bound on the bidirectional streams the server allows   *)
  ServerCredit,   (* those it allows at first                               *)
  Push,           (* the push streams it may open                           *)
  Early,          (* a session allows early data and tp_file is set         *)
  EarlyCredit,    (* initial_max_streams_bidi of the tp_file                *)
  EarlyUni,       (* its initial_max_streams_uni is at least 3              *)
  Delay,          (* config.delay_stream is set                             *)
  Quiet,          (* config.quiet                                           *)
  ExitOnFirst,    (* config.exit_on_first_stream_close                      *)
  SubmitMayFail   (* nghttp3 may refuse a request                           *)

ASSUME StreamsAssumption ==
  /\ NStreams \in Nat /\ NRequests \in Nat \ {0}
  /\ MaxStreams \in Nat /\ IsFiniteSet(Push) /\ ServerCredit \in 0 .. MaxStreams
  /\ EarlyCredit \in 0 .. ServerCredit
  /\ Early \in BOOLEAN /\ EarlyUni \in BOOLEAN /\ Delay \in BOOLEAN /\ Quiet \in BOOLEAN
  /\ ExitOnFirst \in BOOLEAN /\ SubmitMayFail \in BOOLEAN

Id == 0 .. MaxStreams - 1

VARIABLES
  phase,       (* "start", "handshake", "keyed" (on_key at the APP level),  *)
               (* "open" (handshake completed), "failed", or "rejected":    *)
               (* completed with early data rejected                        *)
  quic,        (* ngtcp2's bidirectional streams                            *)
  h3,          (* nghttp3's: "waiting" is closed but for its header block   *)
  streams,     (* streams_, the position in config.requests for each        *)
  done,        (* nstreams_done_                                            *)
  submitted,   (* the values of nstreams_done_ requests were submitted with *)
  http,        (* httpconn_ is set up                                       *)
  credit,      (* bidirectional streams ngtcp2 may open                     *)
  delay,       (* delay_stream_timer_                                       *)
  exit,        (* should_exit_                                              *)
  early,       (* early_data_                                               *)
  told,        (* ngtcp2_conn_early_data_rejected was called                *)
  push,        (* the server's push streams                                 *)
  uniCredit    (* ngtcp2_conn_extend_max_streams_uni's total                *)

bidi == <<quic, h3, streams, done, submitted>>
vars == <<phase, bidi, http, credit, delay, exit, early, told, push, uniCredit>>

Opened == Cardinality({i \in Id : quic[i] # "idle"})

Smaller(a, b) == IF a < b THEN a ELSE b

-----------------------------------------------------------------------------
(* Requests                                                                *)

(* The URI of request k. *)
UriOf(k) == k % NRequests

(* Opens n streams and submits the next n requests on them; with a further *)
(* stream open where nghttp3 refuses the request after them.               *)
MakeStreams(n, refused) ==
  LET first == Opened
      fresh == first .. first + n - 1
  IN /\ quic' = [i \in Id |-> IF i \in fresh \/ (refused /\ i = first + n) THEN "open" ELSE quic[i]]
     /\ h3' = [i \in Id |-> IF i \in fresh THEN "open" ELSE h3[i]]
     /\ streams' = [i \in DOMAIN streams \cup fresh |->
                      IF i \in fresh THEN UriOf(done + i - first) ELSE streams[i]]
     /\ submitted' = submitted \o [k \in 1 .. n |-> done + k - 1]
     /\ done' = done + n

(* setup_httpconn succeeds, at once where httpconn_ exists, or the peer    *)
(* allows fewer than the three unidirectional streams HTTP/3 needs.        *)
SetupHttpconn(ok) == (ok \/ ~http) /\ http' = ok

(* What submit_http_request may answer. *)
Refusals == IF SubmitMayFail THEN BOOLEAN ELSE {FALSE}

(* Mutant: the request is not counted. *)
MakeStreamEarlyUncounted ==
  /\ NStreams > 0 /\ EarlyCredit > 0 /\ EarlyUni
  /\ http' = TRUE
  /\ quic' = [quic EXCEPT ![0] = "open"] /\ h3' = [h3 EXCEPT ![0] = "open"]
  /\ streams' = [i \in {0} |-> 0] /\ submitted' = <<0>> /\ UNCHANGED done

(* The stream is opened first; where httpconn_ cannot be set up or the     *)
(* request is refused, it stays open without a request.                    *)
MakeStreamEarly ==
  \/ /\ NStreams = 0 \/ EarlyCredit = 0
     /\ UNCHANGED <<bidi, http>>
  \/ /\ NStreams > 0 /\ EarlyCredit > 0
     /\ SetupHttpconn(EarlyUni)
     /\ \E refused \in Refusals :
          IF EarlyUni /\ ~refused THEN MakeStreams(1, FALSE) ELSE MakeStreams(0, TRUE)

(* Mutant: one stream for each callback. *)
OnExtendMaxStreamsOnce(timer, allowed) ==
  IF timer = "active" \/ Smaller(NStreams - done, allowed - Opened) = 0
  THEN UNCHANGED bidi ELSE MakeStreams(1, FALSE)

(* Until all requests are made, no stream can be opened or a request is    *)
(* refused; not at all while the delay timer runs.                         *)
OnExtendMaxStreams(timer, allowed) ==
  LET room == Smaller(NStreams - done, allowed - Opened)
  IN \/ timer = "active" /\ UNCHANGED bidi
     \/ timer # "active" /\ MakeStreams(room, FALSE)
     \/ /\ timer # "active" /\ TRUE \in Refusals
        /\ \E n \in 0 .. room - 1 : MakeStreams(n, TRUE)

-----------------------------------------------------------------------------
(* The connection                                                          *)

(* Client::init: early data needs a tp_file that can be read. *)
Start ==
  /\ phase = "start" /\ phase' = "handshake"
  /\ \/ early /\ MakeStreamEarly /\ UNCHANGED early
     \/ early' = FALSE /\ UNCHANGED <<bidi, http>>
  /\ UNCHANGED <<credit, delay, exit, told, push, uniCredit>>

(* on_key at the APP level; the handshake fails with setup_httpconn. *)
OnKey ==
  /\ phase = "handshake"
  /\ \E ok \in BOOLEAN :
       SetupHttpconn(ok) /\ phase' = IF ok THEN "keyed" ELSE "failed"
  /\ UNCHANGED <<bidi, credit, delay, exit, early, told, push, uniCredit>>

(* Mutant: the streams are made before the timer is started. *)
HandshakeDelayLate ==
  /\ phase = "keyed" /\ phase' = "open"
  /\ delay' = IF Delay THEN "active" ELSE "off"
  /\ credit' = ServerCredit
  /\ OnExtendMaxStreams(delay, credit')
  /\ UNCHANGED <<http, exit, early, told, push, uniCredit>>

(* handshake_completed, and then extend_max_streams_bidi with what the     *)
(* server allows.                                                          *)
Handshake ==
  /\ phase = "keyed"
  /\ phase' = "open"
  /\ delay' = IF Delay THEN "active" ELSE "off"
  /\ credit' = ServerCredit
  /\ IF ServerCredit > 0 THEN OnExtendMaxStreams(delay', credit') ELSE UNCHANGED bidi
  /\ UNCHANGED <<http, exit, early, told, push, uniCredit>>

(* The same after early data was rejected.  What ngtcp2 makes of the early *)
(* stream from here on is its own matter.                                  *)
HandshakeRejected ==
  /\ phase = "keyed"
  /\ early
  /\ phase' = "rejected"
  /\ told' = ~Quiet
  /\ UNCHANGED <<bidi, http, credit, delay, exit, early, push, uniCredit>>

(* delay_streamcb stops the timer before it makes streams. *)
DelayStreamCb ==
  /\ phase = "open" /\ delay = "active"
  /\ delay' = "off"
  /\ OnExtendMaxStreams(delay', credit)
  /\ UNCHANGED <<phase, http, credit, exit, early, told, push, uniCredit>>

(* A MAX_STREAMS frame: the server allows one more for each that ended.    *)
ExtendMaxStreams ==
  /\ phase = "open"
  /\ credit < MaxStreams
  /\ credit < ServerCredit + Cardinality({i \in Id : quic[i] = "closed"})
  /\ credit' = credit + 1
  /\ OnExtendMaxStreams(delay, credit')
  /\ UNCHANGED <<phase, http, delay, exit, early, told, push, uniCredit>>

-----------------------------------------------------------------------------
(* The end of streams                                                      *)

Receiving == phase \in {"keyed", "open"}

(* Mutant: the entry stays. *)
HttpStreamCloseKeeps(i) ==
  /\ exit' = (exit \/ ExitOnFirst)
  /\ UNCHANGED streams

(* http_stream_close of a request. *)
HttpStreamClose(i) ==
  /\ exit' = (exit \/ ExitOnFirst)
  /\ streams' = [k \in DOMAIN streams \ {i} |-> streams[k]]

(* nghttp3 tells at once, or when a header block that waits for the        *)
(* encoder stream is complete.                                             *)
OnStreamClose(i) ==
  /\ Receiving
  /\ quic[i] = "open" /\ h3[i] = "open"
  /\ quic' = [quic EXCEPT ![i] = "closed"]
  /\ \/ h3' = [h3 EXCEPT ![i] = "gone"] /\ HttpStreamClose(i)
     \/ h3' = [h3 EXCEPT ![i] = "waiting"] /\ UNCHANGED <<streams, exit>>
  /\ UNCHANGED <<phase, done, submitted, http, credit, delay, early, told, push, uniCredit>>

WaitingDone(i) ==
  /\ Receiving
  /\ h3[i] = "waiting"
  /\ h3' = [h3 EXCEPT ![i] = "gone"]
  /\ HttpStreamClose(i)
  /\ UNCHANGED <<phase, quic, done, submitted, http, credit, delay, early, told, push, uniCredit>>

PushOpens(p) ==
  /\ phase = "open" /\ push[p] = "idle"
  /\ \E s \in {"unread", "read"} : push' = [push EXCEPT ![p] = s]
  /\ UNCHANGED <<phase, bidi, http, credit, delay, exit, early, told, uniCredit>>

(* Mutant: nothing is done for a stream nghttp3 does not know. *)
PushClosesKnownOnly(p) ==
  /\ phase = "open" /\ push[p] \in {"unread", "read"}
  /\ push' = [push EXCEPT ![p] = "closed"]
  /\ uniCredit' = uniCredit + (IF push[p] = "read" THEN 1 ELSE 0)
  /\ exit' = (exit \/ (ExitOnFirst /\ push[p] = "read"))
  /\ UNCHANGED <<phase, bidi, http, credit, delay, early, told>>

(* A push stream ends: nghttp3 does not know it (on_stream_close gives the *)
(* credit back), tells of its end (http_stream_close does), or waits.      *)
PushCloses(p) ==
  /\ phase = "open"
  /\ \/ /\ push[p] \in {"unread", "read"}
        /\ push' = [push EXCEPT ![p] = "closed"]
        /\ uniCredit' = uniCredit + 1
        /\ exit' = (exit \/ (ExitOnFirst /\ push[p] = "read"))
     \/ /\ push[p] = "read"
        /\ push' = [push EXCEPT ![p] = "waiting"]
        /\ UNCHANGED <<uniCredit, exit>>
     \/ /\ push[p] = "waiting"
        /\ push' = [push EXCEPT ![p] = "closed"]
        /\ uniCredit' = uniCredit + 1
        /\ exit' = (exit \/ ExitOnFirst)
  /\ UNCHANGED <<phase, bidi, http, credit, delay, early, told>>

-----------------------------------------------------------------------------
Init ==
  /\ phase = "start"
  /\ quic = [i \in Id |-> "idle"] /\ h3 = [i \in Id |-> "unknown"]
  /\ streams = << >> /\ done = 0 /\ submitted = << >>
  /\ http = FALSE /\ credit = 0 /\ delay = "off"
  /\ exit = FALSE /\ early = Early /\ told = FALSE
  /\ push = [p \in Push |-> "idle"] /\ uniCredit = 0

Next ==
  \/ Start \/ OnKey \/ Handshake \/ HandshakeRejected
  \/ DelayStreamCb \/ ExtendMaxStreams
  \/ \E i \in Id : OnStreamClose(i) \/ WaitingDone(i)
  \/ \E p \in Push : PushOpens(p) \/ PushCloses(p)

Spec == Init /\ [][Next]_vars

(* The handshake succeeds, the timer fires, the server answers every       *)
(* request, completes its header blocks and returns the credit.            *)
Fairness ==
  /\ WF_vars(Start) /\ WF_vars(OnKey /\ http') /\ WF_vars(Handshake)
  /\ WF_vars(DelayStreamCb) /\ WF_vars(ExtendMaxStreams)
  /\ \A i \in Id : WF_vars(OnStreamClose(i)) /\ WF_vars(WaitingDone(i))

FairSpec == Spec /\ Fairness

-----------------------------------------------------------------------------
(* Properties                                                              *)

(* The types; streams are opened in order.                                 *)
TypeOK ==
  /\ phase \in {"start", "handshake", "keyed", "open", "failed", "rejected"}
  /\ quic \in [Id -> {"idle", "open", "closed"}]
  /\ \A i, k \in Id : i < k /\ quic[k] # "idle" => quic[i] # "idle"
  /\ h3 \in [Id -> {"unknown", "open", "waiting", "gone"}]
  /\ DOMAIN streams \subseteq Id
  /\ \A i \in DOMAIN streams : streams[i] \in 0 .. NRequests - 1
  /\ done \in 0 .. NStreams
  /\ submitted \in Seq(Nat)
  /\ http \in BOOLEAN /\ exit \in BOOLEAN /\ early \in BOOLEAN /\ told \in BOOLEAN
  /\ credit \in 0 .. MaxStreams
  /\ delay \in {"off", "active"}
  /\ push \in [Push -> {"idle", "unread", "read", "waiting", "closed"}]
  /\ uniCredit \in Nat

(* Requests are made in init, when the handshake completes, when the delay *)
(* is over and when credit comes: each is submitted once, in the order of  *)
(* the command line, and nstreams_done_ counts them.                       *)
RequestsOnce ==
  /\ Len(submitted) = done
  /\ \A k \in DOMAIN submitted : submitted[k] = k - 1

(* http_recv_data and http_stream_close look their stream up, and          *)
(* submit_http_request uses httpconn_ unseen: it exists wherever nghttp3   *)
(* knows a stream, and streams_ lists a request while nghttp3 knows it,    *)
(* through the wait for a header block after QUIC closed the stream too,   *)
(* and no longer.                                                          *)
EntriesFollowHttp3 ==
  /\ DOMAIN streams = {i \in Id : h3[i] \in {"open", "waiting"}}
  /\ streams # << >> => http

(* Each push stream's credit is returned once, whether nghttp3 had read    *)
(* the stream or not.                                                      *)
UniCreditExact ==
  uniCredit = Cardinality({p \in Push : push[p] = "closed"})

(* --delay-stream: from the end of the handshake on, no request is made    *)
(* until the delay is over, whatever credit comes.                         *)
NothingInDelay ==
  [][delay' = "active" => submitted' = submitted]_vars

(* -n: the requests are all made and answered, as many at a time as the    *)
(* server allows, unless a stream was opened for a request that was not    *)
(* made: what the code does not take back.                                 *)
AllServed ==
  <>( \/ phase \in {"failed", "rejected"}
      \/ Opened # done
      \/ done = NStreams /\ streams = << >> )

(* What the client prints of rejected early data, it also tells ngtcp2.    *)
RejectionTold == phase = "rejected" => told
=============================================================================
