---------------------------- MODULE ResponseFlow ----------------------------
(***************************************************************************)
(* How the server of src/quicsy_server.cc produces and sends the bodies of *)
(* dynamic responses on the streams of one connection.  dyn_read_data      *)
(* makes a chunk when nghttp3 asks for one, unless too many bytes of the   *)
(* stream are unacknowledged; http_acked_stream_data gives the room back   *)
(* and resumes the stream.  write_streams takes what nghttp3 has queued as *)
(* far as the peer's two flow control windows allow.                       *)
(*                                                                         *)
(* A turn of the loop of write_streams is cut into Fill, Send and Block:   *)
(* the loop may stop after any of them (congestion, ten packets), so every *)
(* state in between is one in which the callbacks of the next datagram     *)
(* can find the connection.  Sizes are in units of body bytes; the header  *)
(* bytes around them are left out.                                         *)
(***************************************************************************)
EXTENDS Naturals

CONSTANTS
  Streams,    (* the streams with a dynamic response        *)
  Length,     (* dyn_len of each                            *)
  MaxBuf,     (* MAX_DYNBUFLEN                              *)
  Chunk,      (* the size of dyn_buf, 16384                 *)
  MaxWindow   (* bound on the peer's flow control windows   *)

(* MAX_DYNBUFLEN is 64 chunks. *)
ASSUME FlowAssumption ==
  /\ Length \in Nat
  /\ Chunk \in Nat \ {0}
  /\ MaxBuf \in Nat
  /\ MaxBuf > Chunk
  /\ MaxWindow \in Nat \ {0}

VARIABLES
  left,     (* dyndataleft                                               *)
  buflen,   (* dynbuflen                                                 *)
  eof,      (* streams whose last chunk was made                         *)
  waiting,  (* streams that answered WOULDBLOCK and were not resumed     *)
  queued,   (* bytes nghttp3 holds for ngtcp2                            *)
  flight,   (* bytes ngtcp2 sent that are not acknowledged               *)
  acked,    (* bytes acknowledged                                        *)
  window,   (* what the peer still lets each stream send                 *)
  connwin,  (* ngtcp2_conn_get_max_data_left                             *)
  blocked,  (* streams nghttp3_conn_block_stream was called for          *)
  shut,     (* streams the peer told to stop sending                     *)
  alive     (* no callback has failed                                    *)

body == <<left, buflen, eof, waiting>>
wire == <<queued, flight, acked>>
flow == <<window, connwin, blocked, shut>>
vars == <<body, wire, flow, alive>>

AtMost(a, b) == IF a < b THEN a ELSE b

(* nghttp3 offers s to write_streams, which asks only while the            *)
(* connection's window is open.                                            *)
Scheduled(s) == alive /\ connwin > 0 /\ s \notin blocked

-----------------------------------------------------------------------------
(* dyn_read_data                                                           *)

(* Mutant: the limit is not tested. *)
WouldBlockNever(s) == FALSE

WouldBlock(s) == buflen[s] > MaxBuf

(* Mutant: a chunk is not taken from what is left. *)
ReadChunkKeepsLeft(s) ==
  LET len == AtMost(Chunk, left[s]) IN
    /\ buflen' = [buflen EXCEPT ![s] = @ + len]
    /\ queued' = [queued EXCEPT ![s] = @ + len]
    /\ eof'    = IF left[s] = len THEN eof \cup {s} ELSE eof
    /\ UNCHANGED left

ReadChunk(s) ==
  LET len == AtMost(Chunk, left[s]) IN
    /\ buflen' = [buflen EXCEPT ![s] = @ + len]
    /\ queued' = [queued EXCEPT ![s] = @ + len]
    /\ left'   = [left EXCEPT ![s] = @ - len]
    /\ eof'    = IF left[s] = len THEN eof \cup {s} ELSE eof

(* nghttp3 calls dyn_read_data until it has said EOF.  The trailers that   *)
(* go with the last chunk may be refused: the callback fails, and with it  *)
(* the connection.                                                         *)
Fill(s) ==
  /\ Scheduled(s)
  /\ s \notin eof \cup waiting
  /\ \/ /\ WouldBlock(s)
        /\ waiting' = waiting \cup {s}
        /\ UNCHANGED <<left, buflen, eof, queued, alive>>
     \/ /\ ~WouldBlock(s)
        /\ ReadChunk(s)
        /\ alive' \in IF s \in eof' THEN BOOLEAN ELSE {TRUE}
        /\ UNCHANGED waiting
  /\ UNCHANGED <<flight, acked, flow>>

-----------------------------------------------------------------------------
(* write_streams                                                           *)

(* ngtcp2_conn_writev_stream takes some of what is queued. *)
Send(s) ==
  /\ Scheduled(s)
  /\ s \notin shut
  /\ \E n \in 1 .. AtMost(queued[s], AtMost(window[s], connwin)) :
       /\ queued'  = [queued EXCEPT ![s] = @ - n]
       /\ flight'  = [flight EXCEPT ![s] = @ + n]
       /\ window'  = [window EXCEPT ![s] = @ - n]
       /\ connwin' = connwin - n
  /\ UNCHANGED <<body, acked, blocked, shut, alive>>

(* STREAM_DATA_BLOCKED or STREAM_SHUT_WR. *)
Block(s) ==
  /\ Scheduled(s)
  /\ queued[s] > 0
  /\ window[s] = 0 \/ s \in shut
  /\ blocked' = blocked \cup {s}
  /\ UNCHANGED <<body, wire, window, connwin, shut, alive>>

-----------------------------------------------------------------------------
(* The peer                                                                *)

(* Mutant: the room is tested before the bytes are given back. *)
ResumeOnStaleLength(s) ==
  waiting' = IF buflen[s] < MaxBuf - Chunk THEN waiting \ {s} ELSE waiting

(* nghttp3_conn_resume_stream when there is room again.  A dynamic         *)
(* response has no file: fd = -1.                                          *)
Resume(s) ==
  waiting' = IF buflen'[s] < MaxBuf - Chunk THEN waiting \ {s} ELSE waiting

(* acked_stream_data_offset of n bytes of the body, down to Stream::       *)
(* http_acked_stream_data.                                                 *)
Ack(s) ==
  /\ alive
  /\ \E n \in 1 .. flight[s] :
       /\ flight' = [flight EXCEPT ![s] = @ - n]
       /\ acked'  = [acked EXCEPT ![s] = @ + n]
       /\ buflen' = [buflen EXCEPT ![s] = @ - n]
       /\ Resume(s)
  /\ UNCHANGED <<left, eof, queued, flow, alive>>

(* Mutant: extend_max_stream_data does not unblock the stream. *)
GrantStreamStaysBlocked(s) ==
  /\ alive
  /\ \E w \in window[s] + 1 .. MaxWindow : window' = [window EXCEPT ![s] = w]
  /\ UNCHANGED <<body, wire, connwin, blocked, shut, alive>>

(* MAX_STREAM_DATA: extend_max_stream_data unblocks the stream. *)
GrantStream(s) ==
  /\ alive
  /\ \E w \in window[s] + 1 .. MaxWindow : window' = [window EXCEPT ![s] = w]
  /\ blocked' = blocked \ {s}
  /\ UNCHANGED <<body, wire, connwin, shut, alive>>

(* MAX_DATA: no callback, the write that follows the datagram sees it. *)
GrantConn ==
  /\ alive
  /\ connwin' \in connwin + 1 .. MaxWindow
  /\ UNCHANGED <<body, wire, window, blocked, shut, alive>>

StopSending(s) ==
  /\ alive
  /\ s \notin shut
  /\ shut' = shut \cup {s}
  /\ UNCHANGED <<body, wire, window, connwin, blocked, alive>>

-----------------------------------------------------------------------------
(* start_response has set up the streams; the peer chose the windows.      *)
Init ==
  /\ left    = [s \in Streams |-> Length]
  /\ buflen  = [s \in Streams |-> 0]
  /\ eof     = {}
  /\ waiting = {}
  /\ queued  = [s \in Streams |-> 0]
  /\ flight  = [s \in Streams |-> 0]
  /\ acked   = [s \in Streams |-> 0]
  /\ window  \in [Streams -> 0 .. MaxWindow]
  /\ connwin \in 0 .. MaxWindow
  /\ blocked = {}
  /\ shut    = {}
  /\ alive   = TRUE

StreamStep(s) ==
  Fill(s) \/ Send(s) \/ Block(s) \/ Ack(s) \/ GrantStream(s) \/ StopSending(s)

Next == GrantConn \/ \E s \in Streams : StreamStep(s)

(* A read is always followed by signal_write, and the timers of the        *)
(* QuicsyServer module repeat the write, so what is offered gets written;  *)
(* the peer acknowledges and, as src/quicsy_client.cc does for all it      *)
(* consumes, extends its windows.                                          *)
Fairness ==
  /\ WF_vars(GrantConn)
  /\ \A s \in Streams :
       WF_vars(Fill(s)) /\ WF_vars(Send(s)) /\ WF_vars(Ack(s)) /\ WF_vars(GrantStream(s))

Spec == Init /\ [][Next]_vars

FairSpec == Spec /\ Fairness

-----------------------------------------------------------------------------
(* Properties                                                              *)

TypeOK ==
  /\ left \in [Streams -> Nat]
  /\ buflen \in [Streams -> Nat]
  /\ eof \subseteq Streams
  /\ waiting \subseteq Streams
  /\ queued \in [Streams -> Nat]
  /\ flight \in [Streams -> Nat]
  /\ acked \in [Streams -> Nat]
  /\ window \in [Streams -> 0 .. MaxWindow]
  /\ connwin \in 0 .. MaxWindow
  /\ blocked \subseteq Streams
  /\ shut \subseteq Streams
  /\ alive \in BOOLEAN

(* A stream never holds more than MAX_DYNBUFLEN and one chunk              *)
(* unacknowledged, whatever the peer acknowledges or grants.               *)
BufferBounded == \A s \in Streams : buflen[s] <= MaxBuf + Chunk

(* Every byte of the response is left to make, unacknowledged or           *)
(* acknowledged, once; and dynbuflen counts the unacknowledged ones, so an *)
(* acknowledgement never takes more from it than it holds, which           *)
(* Stream::http_acked_stream_data asserts.                                 *)
BytesAccounted ==
  \A s \in Streams :
    /\ buflen[s] = queued[s] + flight[s]
    /\ left[s] + buflen[s] + acked[s] = Length

(* A stream that waits for room still has at least the bytes               *)
(* unacknowledged whose acknowledgement resumes it: it does not wait for a *)
(* call that never comes.                                                  *)
NoLostWakeup ==
  \A s \in waiting : buflen[s] >= MaxBuf - Chunk /\ queued[s] + flight[s] > 0

(* nghttp3 skips a stream only while its window is used up or the peer has *)
(* stopped it: no window opens without the stream being offered again.     *)
BlockedForCause == \A s \in blocked : window[s] = 0 \/ s \in shut

(* The whole body of every response is acknowledged, unless the peer stops *)
(* it or the connection fails.                                             *)
AllDelivered ==
  \A s \in Streams : <>(acked[s] = Length \/ s \in shut \/ ~alive)
=============================================================================
