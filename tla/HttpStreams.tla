---------------------------- MODULE HttpStreams -----------------------------
(***************************************************************************)
(* The HTTP/3 streams of one server connection of src/quicsy_server.cc,    *)
(* from setup_httpconn on: the table streams_ that Handler keeps beside    *)
(* those of ngtcp2 (QUIC streams) and nghttp3 (HTTP streams), the requests *)
(* that arrive, the responses and pushes they start, and the stream        *)
(* credit given back to the client.                                        *)
(*                                                                         *)
(* Each action is a callback of ngtcp2 with everything nghttp3 calls back  *)
(* from inside it.  What the bodies contain, and how they get sent, is     *)
(* module ResponseFlow.                                                    *)
(***************************************************************************)
EXTENDS Naturals, FiniteSets

CONSTANTS
  Bidi,           (* the client's request streams                           *)
  Push,           (* the server's push streams                              *)
  MaxBidi,        (* config.max_streams_bidi                                *)
  MaxPushId,      (* how many pushes the client allows                      *)
  MaxUni,         (* how many push streams the client allows                *)
  EarlyResponse   (* config.early_response                                  *)

ASSUME StreamsAssumption ==
  /\ Bidi \cap Push = {}
  /\ IsFiniteSet(Bidi) /\ IsFiniteSet(Push)
  /\ MaxBidi \in Nat \ {0}
  /\ MaxPushId \in Nat /\ MaxUni \in Nat
  /\ EarlyResponse \in BOOLEAN

Stream == Bidi \cup Push

VARIABLES
  quic,       (* the state of each QUIC stream                              *)
  streams,    (* streams_                                                   *)
  h3,         (* nghttp3's state of each stream; "closing": closed while    *)
              (* its header block waits for the QPACK encoder stream        *)
  blocked,    (* streams whose header block waits                           *)
  request,    (* how far each request was read                              *)
  responses,  (* nghttp3_conn_submit_response calls that succeeded          *)
  limit,      (* how many request streams the client may have opened in all *)
  promised,   (* push ids used                                              *)
  alive       (* no callback has failed                                     *)

vars == <<quic, streams, h3, blocked, request, responses, limit, promised, alive>>

(* Stages of a request. *)
Nothing   == 0
InHeaders == 1   \* http_begin_request_headers
InBody    == 2   \* http_end_request_headers
Complete  == 3   \* http_end_stream

In(state, S) == {s \in S : quic[s] = state}

-----------------------------------------------------------------------------
(* Streams come and go                                                     *)

(* A callback fails: ngtcp2 and then the Handler close the connection, and *)
(* what the callback had done so far goes with it.                         *)
Fail ==
  /\ alive' = FALSE
  /\ UNCHANGED <<quic, streams, h3, blocked, request, responses, limit, promised>>

(* on_stream_open, which asserts that the stream is not in streams_. *)
OnStreamOpen(s) ==
  /\ alive
  /\ quic[s] = "idle"
  /\ Cardinality(Bidi \ In("idle", Bidi)) < limit
  /\ quic'    = [quic EXCEPT ![s] = "open"]
  /\ streams' = streams \cup {s}
  /\ UNCHANGED <<h3, blocked, request, responses, limit, promised, alive>>

(* What a stream's end gives back to the client. *)
Credit(s) == IF s \in Bidi THEN 1 ELSE 0

(* Mutant: no credit for a stream nghttp3 never saw. *)
CloseUnknownNoCredit(s) ==
  /\ h3[s] = "absent"
  /\ UNCHANGED <<limit, streams, h3>>

(* nghttp3_conn_close_stream says STREAM_NOT_FOUND: on_stream_close gives  *)
(* the credit, and the stream stays in streams_.                           *)
CloseUnknown(s) ==
  /\ h3[s] = "absent"
  /\ limit' = limit + Credit(s)
  /\ UNCHANGED <<streams, h3>>

(* Mutant: http_stream_close does not erase the stream. *)
CloseKnownKeeps(s) ==
  /\ h3[s] = "open" /\ s \notin blocked
  /\ h3' = [h3 EXCEPT ![s] = "absent"]
  /\ limit' = limit + Credit(s)
  /\ UNCHANGED streams

(* nghttp3 deletes its stream: http_stream_close. *)
CloseKnown(s) ==
  /\ h3[s] = "open" /\ s \notin blocked
  /\ h3' = [h3 EXCEPT ![s] = "absent"]
  /\ streams' = streams \ {s}
  /\ limit' = limit + Credit(s)

(* Mutant: nghttp3's later call to http_stream_close is not awaited. *)
CloseWaitingAtOnce(s) ==
  /\ h3[s] = "open" /\ s \in blocked
  /\ h3' = [h3 EXCEPT ![s] = "closing"]
  /\ streams' = streams \ {s}
  /\ limit' = limit + Credit(s)

(* nghttp3 keeps a stream whose header block waits. *)
CloseWaiting(s) ==
  /\ h3[s] = "open" /\ s \in blocked
  /\ h3' = [h3 EXCEPT ![s] = "closing"]
  /\ UNCHANGED <<limit, streams>>

(* Handler::on_stream_close: QUIC is done with the stream, because both    *)
(* ends are finished or were reset, at whatever stage the request is.      *)
OnStreamClose(s) ==
  /\ alive
  /\ quic[s] = "open"
  /\ \/ Fail
     \/ /\ quic' = [quic EXCEPT ![s] = "closed"]
        /\ CloseUnknown(s) \/ CloseKnown(s) \/ CloseWaiting(s)
        /\ UNCHANGED <<blocked, request, responses, promised, alive>>

-----------------------------------------------------------------------------
(* Stream::start_response                                                  *)

(* nghttp3_conn_submit_response for each stream in S. *)
Submit(S) == responses' = [t \in Stream |-> responses[t] + IF t \in S THEN 1 ELSE 0]

(* nghttp3 knows the streams in known, and deletes those in done, which    *)
(* calls http_stream_close.                                                *)
Http3(known, done) ==
  h3' = [t \in Stream |-> IF t \in done THEN "absent"
                          ELSE IF t \in known THEN "open" ELSE h3[t]]

(* A 400, 404, 308 or 500.  A failed submission of one of the last three   *)
(* is ignored.                                                             *)
StatusResponse(s, known, done) ==
  /\ Submit({s}) \/ Submit({})
  /\ Http3(known, done)
  /\ streams' = streams \ done
  /\ UNCHANGED <<quic, promised>>

ListPushes(P, done) == streams' = (streams \cup P) \ done

(* push_content for the push= values of the query: n promises are made, as *)
(* far as push ids go, and the streams in P opened for them, as far as the *)
(* client lets the server open streams; the others stay promises.          *)
PushContent(P, n, known, done) ==
  /\ Cardinality(P) <= n
  /\ promised + n <= MaxPushId
  /\ LET opened == Cardinality(P \cup (Push \ In("idle", Push))) IN
       opened <= MaxUni /\ (Cardinality(P) < n => opened = MaxUni)
  /\ promised' = promised + n
  /\ quic'     = [t \in Stream |-> IF t \in P THEN "open" ELSE quic[t]]
  /\ Http3(known \cup P, done)
  /\ ListPushes(P, done)

(* A 200, with the body of a file or a dynamic one.  The responses on the  *)
(* pushed streams push nothing themselves, and those not in A fail, which  *)
(* is ignored.                                                             *)
FullResponse(s, known, done) ==
  \E P \in SUBSET In("idle", Push) : \E A \in SUBSET P, n \in 0 .. MaxPushId :
    /\ PushContent(P, n, known, done)
    /\ Submit(A \cup {s})

(* Mutant: both callbacks start the response. *)
StartsAtBoth(from, to) ==
  \/ from < InBody /\ InBody <= to
  \/ from < Complete /\ Complete <= to

(* Does reading the request on start the response?  With early_response    *)
(* http_end_request_headers does it, without it http_end_stream does.      *)
Starts(from, to) ==
  \/ EarlyResponse /\ from < InBody /\ InBody <= to
  \/ ~EarlyResponse /\ from < Complete /\ Complete <= to

-----------------------------------------------------------------------------
(* Requests                                                                *)

(* nghttp3 reads the request of s on to a stage. *)
ReadOn(s, to, known, done) ==
  /\ request[s] <= to
  /\ request' = [request EXCEPT ![s] = to]
  /\ \/ /\ Starts(request[s], to)
        /\ StatusResponse(s, known, done) \/ FullResponse(s, known, done)
     \/ /\ ~Starts(request[s], to)
        /\ Http3(known, done)
        /\ streams' = streams \ done
        /\ UNCHANGED <<quic, responses, promised>>

(* recv_stream_data of a request stream; the first makes it known to       *)
(* nghttp3.  Reading may stop at a header block that waits for the encoder *)
(* stream, or at an error.                                                 *)
RecvStreamData(s) ==
  /\ alive
  /\ quic[s] = "open"
  /\ s \notin blocked
  /\ \/ Fail
     \/ /\ \E to \in Nothing .. Complete : ReadOn(s, to, {s}, {})
        /\ UNCHANGED <<blocked, limit, alive>>
     \/ /\ \E to \in {InHeaders, InBody} : ReadOn(s, to, {s}, {})
        /\ blocked' = blocked \cup {s}
        /\ UNCHANGED <<limit, alive>>

(* recv_stream_data of the QPACK encoder stream: a waiting stream is read  *)
(* on, maybe to another header block that waits.  If it is closed, nghttp3 *)
(* deletes it then.                                                        *)
RecvEncoderData(s) ==
  /\ alive
  /\ s \in blocked
  /\ \/ Fail
     \/ /\ \E to \in {InHeaders, InBody} : ReadOn(s, to, {}, {})
        /\ UNCHANGED <<blocked, limit, alive>>
     \/ /\ h3[s] = "open"
        /\ \E to \in Nothing .. Complete : ReadOn(s, to, {}, {})
        /\ blocked' = blocked \ {s}
        /\ UNCHANGED <<limit, alive>>
     \/ /\ h3[s] = "closing"
        /\ \E to \in Nothing .. Complete : ReadOn(s, to, {}, {s})
        /\ blocked' = blocked \ {s}
        /\ limit' = limit + Credit(s)
        /\ UNCHANGED alive

-----------------------------------------------------------------------------
Init ==
  /\ quic      = [s \in Stream |-> "idle"]
  /\ streams   = {}
  /\ h3        = [s \in Stream |-> "absent"]
  /\ blocked   = {}
  /\ request   = [s \in Bidi |-> Nothing]
  /\ responses = [s \in Stream |-> 0]
  /\ limit     = MaxBidi
  /\ promised  = 0
  /\ alive     = TRUE

Next ==
  \/ \E s \in Bidi : OnStreamOpen(s) \/ RecvStreamData(s) \/ RecvEncoderData(s)
  \/ \E s \in Stream : OnStreamClose(s)

(* A client goes on to open streams while it may; ngtcp2 ends a stream     *)
(* sooner or later (what a client leaves half open ends with the           *)
(* connection's idle timeout, module QuicsyServer); the encoder stream is  *)
(* reliable.                                                               *)
Fairness ==
  /\ \A s \in Bidi : WF_vars(OnStreamOpen(s)) /\ WF_vars(OnStreamClose(s))
  /\ \A s \in Bidi : WF_vars(RecvEncoderData(s) /\ s \notin blocked')

Spec == Init /\ [][Next]_vars

FairSpec == Spec /\ Fairness

-----------------------------------------------------------------------------
(* Properties                                                              *)

TypeOK ==
  /\ quic \in [Stream -> {"idle", "open", "closed"}]
  /\ streams \subseteq Stream
  /\ h3 \in [Stream -> {"absent", "open", "closing"}]
  /\ blocked \subseteq Bidi
  /\ request \in [Bidi -> Nothing .. Complete]
  /\ responses \in [Stream -> Nat]
  /\ limit \in Nat
  /\ promised \in 0 .. MaxPushId
  /\ alive \in BOOLEAN

(* http_begin_request_headers, http_recv_request_header, start_response    *)
(* and http_acked_stream_data assert that the stream nghttp3 calls about   *)
(* is in streams_: every stream nghttp3 knows is, also one that QUIC has   *)
(* closed and one that was pushed.                                         *)
KnownStreamsListed == \A s \in Stream : h3[s] # "absent" => s \in streams

(* Every request stream that is over gives its credit back exactly once:   *)
(* whether nghttp3 never saw it, deleted it, or had to wait for it.        *)
CreditExact ==
  limit = MaxBidi + Cardinality({s \in In("closed", Bidi) : h3[s] = "absent"})

(* No request is answered twice, and none before its headers are read.     *)
AnsweredOnce ==
  \A s \in Stream : /\ responses[s] <= 1
                    /\ s \in Bidi /\ responses[s] = 1 => request[s] >= InBody

(* What streams_ holds besides the streams that are open or waiting are    *)
(* request streams that ended before nghttp3 had read anything of them; a  *)
(* push stream leaves no entry.                                            *)
EntriesExplained ==
  \A s \in streams :
    \/ quic[s] = "open"
    \/ h3[s] = "closing"
    \/ quic[s] = "closed" /\ s \in Bidi /\ request[s] = Nothing

(* include/quicsy/server.h: "max_streams_bidi is the number of the         *)
(* concurrent bidirectional streams", which the table of the connection's  *)
(* streams should not outgrow.                                             *)
ConcurrentStreamsBounded == Cardinality(streams \cap Bidi) <= MaxBidi

(* How far a request is for the client that waits for a place: over when   *)
(* neither QUIC nor nghttp3 has its stream any more.                       *)
Stage(s) ==
  IF quic[s] = "idle" THEN "waiting"
  ELSE IF quic[s] = "closed" /\ h3[s] = "absent" THEN "over" ELSE "served"

(* How many more streams the client may open. *)
CreditLeft == limit - Cardinality(Bidi \ In("idle", Bidi))

(* The connection is a service with max_streams_bidi places, although no   *)
(* code counts the requests in service: opens, resets, waiting header      *)
(* blocks, pushes and responses fall in any order, the credit goes back on *)
(* three paths, and yet each request takes one place and gives it back     *)
(* once, when it is over and not before, and gets no second answer and     *)
(* none after that.                                                        *)
Service ==
  INSTANCE RequestService WITH
    Request <- Bidi, Places <- MaxBidi,
    stage <- [s \in Bidi |-> Stage(s)], free <- CreditLeft,
    answers <- [s \in Bidi |-> responses[s]]

ServesRequests == Service!Spec

(* A client that waits for its turn gets all its streams opened and ended, *)
(* more than it may have open at a time: no credit is lost for good.       *)
AllStreamsServed == <>(alive => \A s \in Bidi : quic[s] = "closed")
=============================================================================
