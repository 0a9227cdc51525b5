------------------------- MODULE ResponseFlowProofs -------------------------
(***************************************************************************)
(* Proofs about ResponseFlow, for every number of streams, length of the   *)
(* response, limit and chunk size.                                         *)
(***************************************************************************)
EXTENDS ResponseFlow, TLAPS

USE FlowAssumption DEF FlowAssumption

(* The smaller of two numbers is one of them and exceeds neither. *)
LEMMA AtMostIsLower ==
  ASSUME NEW a \in Nat, NEW b \in Nat
  PROVE  AtMost(a, b) \in Nat /\ AtMost(a, b) <= a /\ AtMost(a, b) <= b
BY DEF AtMost

(* The four bytes-moving steps, each with the amount it moves. *)
LEMMA FillType == ASSUME TypeOK, NEW s \in Streams, Fill(s) PROVE TypeOK'
<1>1. CASE WouldBlock(s)
  BY <1>1 DEF TypeOK, Fill, flow
<1>2. CASE ~WouldBlock(s)
  <2> DEFINE len == AtMost(Chunk, left[s])
  <2>1. len \in Nat /\ left[s] - len \in Nat
    <3>1. left[s] \in Nat /\ Chunk \in Nat
      BY DEF TypeOK
    <3>2. len \in Nat /\ len <= left[s]
      BY <3>1, AtMostIsLower
    <3> HIDE DEF len
    <3> QED
      BY <3>1, <3>2
  <2>2. ReadChunk(s) /\ waiting' = waiting /\ flight' = flight
        /\ acked' = acked /\ UNCHANGED flow
    BY <1>2 DEF Fill
  <2>3. alive' \in BOOLEAN
    <3>1. alive' \in IF s \in eof' THEN BOOLEAN ELSE {TRUE}
      BY <1>2 DEF Fill
    <3> QED
      BY <3>1
  <2>4. /\ buflen' = [buflen EXCEPT ![s] = @ + len]
        /\ queued' = [queued EXCEPT ![s] = @ + len]
        /\ left'   = [left EXCEPT ![s] = @ - len]
        /\ eof'    = IF left[s] = len THEN eof \cup {s} ELSE eof
    BY <2>2 DEF ReadChunk
  <2> HIDE DEF len
  <2>5. /\ buflen' \in [Streams -> Nat]
        /\ queued' \in [Streams -> Nat]
        /\ left' \in [Streams -> Nat]
        /\ eof' \subseteq Streams
    BY <2>1, <2>4 DEF TypeOK
  <2> QED
    BY <2>2, <2>3, <2>5 DEF TypeOK, flow
<1> QED
  BY <1>1, <1>2

(* Sending n bytes moves them from queued to flight. *)
LEMMA SendAmount ==
  ASSUME TypeOK, NEW s \in Streams, Send(s)
  PROVE  \E n \in Nat :
           /\ n <= queued[s] /\ n <= window[s] /\ n <= connwin
           /\ queued'  = [queued EXCEPT ![s] = @ - n]
           /\ flight'  = [flight EXCEPT ![s] = @ + n]
           /\ window'  = [window EXCEPT ![s] = @ - n]
           /\ connwin' = connwin - n
<1>1. AtMost(window[s], connwin) \in Nat
      /\ AtMost(window[s], connwin) <= window[s]
      /\ AtMost(window[s], connwin) <= connwin
  <2>1. window[s] \in Nat /\ connwin \in Nat
    BY DEF TypeOK
  <2> QED
    BY <2>1, AtMostIsLower
<1>2. AtMost(queued[s], AtMost(window[s], connwin)) \in Nat
      /\ AtMost(queued[s], AtMost(window[s], connwin)) <= queued[s]
      /\ AtMost(queued[s], AtMost(window[s], connwin)) <= AtMost(window[s], connwin)
  BY <1>1, AtMostIsLower DEF TypeOK
<1>3. PICK n \in 1 .. AtMost(queued[s], AtMost(window[s], connwin)) :
        /\ queued'  = [queued EXCEPT ![s] = @ - n]
        /\ flight'  = [flight EXCEPT ![s] = @ + n]
        /\ window'  = [window EXCEPT ![s] = @ - n]
        /\ connwin' = connwin - n
  BY DEF Send
<1>4. n \in Nat /\ n <= queued[s] /\ n <= window[s] /\ n <= connwin
  BY <1>1, <1>2 DEF TypeOK
<1> QED
  BY <1>3, <1>4

(* Acknowledging n bytes takes them from flight and dynbuflen. *)
LEMMA AckAmount ==
  ASSUME TypeOK, NEW s \in Streams, Ack(s)
  PROVE  \E n \in Nat :
           /\ n <= flight[s]
           /\ flight' = [flight EXCEPT ![s] = @ - n]
           /\ acked'  = [acked EXCEPT ![s] = @ + n]
           /\ buflen' = [buflen EXCEPT ![s] = @ - n]
           /\ Resume(s)
<1>1. PICK n \in 1 .. flight[s] :
        /\ flight' = [flight EXCEPT ![s] = @ - n]
        /\ acked'  = [acked EXCEPT ![s] = @ + n]
        /\ buflen' = [buflen EXCEPT ![s] = @ - n]
        /\ Resume(s)
  BY DEF Ack
<1>2. n \in Nat /\ n <= flight[s]
  BY DEF TypeOK
<1> QED
  BY <1>1, <1>2

(* Bytes are conserved and well typed: the part of the invariant the other *)
(* three rest on.                                                          *)
Conserved == TypeOK /\ BytesAccounted

(* Sending keeps the types and the accounts. *)
LEMMA SendConserves ==
  ASSUME Conserved, NEW s \in Streams, Send(s)
  PROVE  Conserved'
<1> USE DEF Conserved
<1>1. PICK n \in Nat :
        /\ n <= queued[s] /\ n <= window[s] /\ n <= connwin
        /\ queued'  = [queued EXCEPT ![s] = @ - n]
        /\ flight'  = [flight EXCEPT ![s] = @ + n]
        /\ window'  = [window EXCEPT ![s] = @ - n]
        /\ connwin' = connwin - n
  BY SendAmount
<1>2. UNCHANGED <<body, acked, blocked, shut, alive>>
  BY DEF Send
<1>3. TypeOK'
  <2>1. queued' \in [Streams -> Nat] /\ flight' \in [Streams -> Nat]
    BY <1>1 DEF TypeOK
  <2>2. window' \in [Streams -> 0 .. MaxWindow] /\ connwin' \in 0 .. MaxWindow
    BY <1>1 DEF TypeOK
  <2> QED
    BY <1>2, <2>1, <2>2 DEF TypeOK, body
<1>4. BytesAccounted'
  BY <1>1, <1>2 DEF TypeOK, BytesAccounted, body
<1> QED
  BY <1>3, <1>4

(* So does an acknowledgement. *)
LEMMA AckConserves ==
  ASSUME Conserved, NEW s \in Streams, Ack(s)
  PROVE  Conserved'
<1> USE DEF Conserved
<1>1. PICK n \in Nat :
        /\ n <= flight[s]
        /\ flight' = [flight EXCEPT ![s] = @ - n]
        /\ acked'  = [acked EXCEPT ![s] = @ + n]
        /\ buflen' = [buflen EXCEPT ![s] = @ - n]
        /\ Resume(s)
  BY AckAmount
<1>2. UNCHANGED <<left, eof, queued, flow, alive>>
  BY DEF Ack
<1>3. n <= buflen[s]
  BY <1>1 DEF TypeOK, BytesAccounted
<1>4. TypeOK'
  <2>1. /\ flight' \in [Streams -> Nat]
        /\ acked' \in [Streams -> Nat]
        /\ buflen' \in [Streams -> Nat]
    BY <1>1, <1>3 DEF TypeOK
  <2>2. waiting' \subseteq Streams
    BY <1>1 DEF TypeOK, Resume
  <2> QED
    BY <1>2, <2>1, <2>2 DEF TypeOK, flow
<1>5. BytesAccounted'
  BY <1>1, <1>2 DEF TypeOK, BytesAccounted
<1> QED
  BY <1>4, <1>5

(* So does a chunk made, or refused for want of room. *)
LEMMA FillConserves ==
  ASSUME Conserved, NEW s \in Streams, Fill(s)
  PROVE  Conserved'
<1> USE DEF Conserved
<1>1. CASE WouldBlock(s)
  BY <1>1, FillType DEF Fill, BytesAccounted
<1>2. CASE ~WouldBlock(s)
  <2> DEFINE len == AtMost(Chunk, left[s])
  <2>1. len \in Nat
    BY AtMostIsLower DEF TypeOK
  <2>2. /\ buflen' = [buflen EXCEPT ![s] = @ + len]
        /\ queued' = [queued EXCEPT ![s] = @ + len]
        /\ left'   = [left EXCEPT ![s] = @ - len]
        /\ UNCHANGED <<flight, acked>>
    BY <1>2 DEF Fill, ReadChunk
  <2> HIDE DEF len
  <2> QED
    BY <2>1, <2>2, FillType DEF TypeOK, BytesAccounted
<1> QED
  BY <1>1, <1>2

(* Types and accounts are inductive. *)
LEMMA ConservedStep == Conserved /\ [Next]_vars => Conserved'
<1> SUFFICES ASSUME Conserved, [Next]_vars PROVE Conserved'
  OBVIOUS
<1> USE DEF Conserved
<1>1. CASE UNCHANGED vars
  BY <1>1 DEF TypeOK, BytesAccounted, vars, body, wire, flow
<1>2. CASE GrantConn
  BY <1>2 DEF GrantConn, TypeOK, BytesAccounted, body, wire
<1>3. ASSUME NEW s \in Streams, Block(s) PROVE Conserved'
  BY <1>3 DEF Block, TypeOK, BytesAccounted, body, wire
<1>4. ASSUME NEW s \in Streams, GrantStream(s) PROVE Conserved'
  BY <1>4 DEF GrantStream, TypeOK, BytesAccounted, body, wire
<1>5. ASSUME NEW s \in Streams, StopSending(s) PROVE Conserved'
  BY <1>5 DEF StopSending, TypeOK, BytesAccounted, body, wire
<1> QED
  BY <1>1, <1>2, <1>3, <1>4, <1>5, FillConserves, SendConserves, AckConserves
     DEF Next, StreamStep

(* dynbuflen counts exactly the unacknowledged bytes, so the assertion in  *)
(* Stream::http_acked_stream_data holds, and no byte is made twice or      *)
(* dropped.                                                                *)
THEOREM BytesAreAccounted == Spec => [](TypeOK /\ BytesAccounted)
<1>1. Init => Conserved
  BY DEF Init, Conserved, TypeOK, BytesAccounted
<1> QED
  BY <1>1, ConservedStep, PTL DEF Spec, Conserved

-----------------------------------------------------------------------------
(* The limit on the unacknowledged bytes: no step but a chunk made below   *)
(* the limit adds to them.                                                 *)
LEMMA BoundStep ==
  Conserved /\ Conserved' /\ BufferBounded /\ [Next]_vars => BufferBounded'
<1> SUFFICES ASSUME Conserved, Conserved', BufferBounded, [Next]_vars
             PROVE  BufferBounded'
  OBVIOUS
<1> USE DEF Conserved, BufferBounded
<1>1. CASE UNCHANGED <<buflen>>
  BY <1>1 DEF TypeOK
<1>2. ASSUME NEW s \in Streams, Fill(s) PROVE BufferBounded'
  <2>1. CASE WouldBlock(s)
    BY <1>1, <1>2, <2>1 DEF Fill
  <2>2. CASE ~WouldBlock(s)
    <3> DEFINE len == AtMost(Chunk, left[s])
    <3>1. len \in Nat /\ len <= Chunk
      BY AtMostIsLower DEF TypeOK
    <3>2. buflen' = [buflen EXCEPT ![s] = @ + len]
      BY <1>2, <2>2 DEF Fill, ReadChunk
    <3>3. buflen[s] <= MaxBuf
      BY <2>2 DEF WouldBlock, TypeOK
    <3> HIDE DEF len
    <3> QED
      BY <3>1, <3>2, <3>3 DEF TypeOK
  <2> QED
    BY <2>1, <2>2
<1>3. ASSUME NEW s \in Streams, Ack(s) PROVE BufferBounded'
  <2>1. PICK n \in Nat : buflen' = [buflen EXCEPT ![s] = @ - n]
    BY <1>3, AckAmount
  <2> QED
    BY <2>1 DEF TypeOK
<1> QED
  BY <1>1, <1>2, <1>3
     DEF Next, StreamStep, GrantConn, Send, Block, GrantStream, StopSending, vars, body

(* No stream ever has more than MAX_DYNBUFLEN and one chunk in flight.     *)
THEOREM BufferIsBounded == Spec => []BufferBounded
<1>1. Init => Conserved /\ BufferBounded
  BY DEF Init, Conserved, TypeOK, BytesAccounted, BufferBounded
<1> QED
  BY <1>1, ConservedStep, BoundStep, PTL DEF Spec

-----------------------------------------------------------------------------
(* What waits for room has enough in flight. *)
Waits == \A s \in waiting : buflen[s] >= MaxBuf - Chunk

(* The wait invariant is inductive. *)
LEMMA WaitsStep ==
  Conserved /\ Conserved' /\ Waits /\ [Next]_vars => Waits'
<1> SUFFICES ASSUME Conserved, Conserved', Waits, [Next]_vars PROVE Waits'
  OBVIOUS
<1> USE DEF Conserved, Waits
<1>1. CASE UNCHANGED <<buflen, waiting>>
  BY <1>1
<1>2. ASSUME NEW s \in Streams, Fill(s) PROVE Waits'
  <2>1. CASE WouldBlock(s)
    <3>1. waiting' = waiting \cup {s} /\ buflen' = buflen /\ buflen[s] > MaxBuf
      BY <1>2, <2>1 DEF Fill, WouldBlock
    <3> QED
      BY <3>1 DEF TypeOK
  <2>2. CASE ~WouldBlock(s)
    <3>1. waiting' = waiting /\ s \notin waiting
      BY <1>2, <2>2 DEF Fill
    <3>2. \A t \in waiting : buflen'[t] = buflen[t]
      BY <1>2, <2>2, <3>1 DEF Fill, ReadChunk, TypeOK
    <3> QED
      BY <3>1, <3>2
  <2> QED
    BY <2>1, <2>2
<1>3. ASSUME NEW s \in Streams, Ack(s) PROVE Waits'
  <2>1. PICK n \in Nat : buflen' = [buflen EXCEPT ![s] = @ - n] /\ Resume(s)
    BY <1>3, AckAmount
  <2>2. ASSUME NEW t \in waiting' PROVE buflen'[t] >= MaxBuf - Chunk
    <3>1. t \in waiting /\ t \in Streams
      BY <2>1 DEF Resume, TypeOK
    <3>2. CASE t = s
      <4>1. ~(buflen'[s] < MaxBuf - Chunk)
        BY <2>1, <3>2 DEF Resume
      <4> QED
        BY <3>1, <3>2, <4>1 DEF TypeOK
    <3>3. CASE t # s
      BY <2>1, <3>1, <3>3 DEF TypeOK
    <3> QED
      BY <3>2, <3>3
  <2> QED
    BY <2>2
<1> QED
  BY <1>1, <1>2, <1>3
     DEF Next, StreamStep, GrantConn, Send, Block, GrantStream, StopSending, vars, body

(* A stream that answered WOULDBLOCK always has unacknowledged bytes whose *)
(* acknowledgement resumes it.                                             *)
THEOREM NoWakeupIsLost == Spec => []NoLostWakeup
<1>1. Init => Conserved /\ Waits
  BY DEF Init, Conserved, TypeOK, BytesAccounted, Waits
<1>2. Conserved /\ Waits => NoLostWakeup
  <2> SUFFICES ASSUME Conserved, Waits, NEW s \in waiting
               PROVE  buflen[s] >= MaxBuf - Chunk /\ queued[s] + flight[s] > 0
    BY DEF NoLostWakeup
  <2>1. s \in Streams /\ buflen[s] = queued[s] + flight[s]
    BY DEF Conserved, TypeOK, BytesAccounted
  <2>2. buflen[s] \in Nat /\ buflen[s] >= MaxBuf - Chunk
    BY <2>1 DEF Conserved, TypeOK, Waits
  <2> QED
    BY <2>1, <2>2
<1> QED
  BY <1>1, <1>2, ConservedStep, WaitsStep, PTL DEF Spec

-----------------------------------------------------------------------------
(* Blocking and unblocking follow the windows. *)
LEMMA BlockedStep ==
  Conserved /\ BlockedForCause /\ [Next]_vars => BlockedForCause'
<1> SUFFICES ASSUME Conserved, BlockedForCause, [Next]_vars PROVE BlockedForCause'
  OBVIOUS
<1> USE DEF Conserved, BlockedForCause
<1>1. CASE UNCHANGED <<window, blocked, shut>>
  BY <1>1
<1>2. ASSUME NEW s \in Streams, Send(s) PROVE BlockedForCause'
  <2>1. PICK n \in Nat : window' = [window EXCEPT ![s] = @ - n]
    BY <1>2, SendAmount
  <2>2. s \notin blocked /\ UNCHANGED <<blocked, shut>>
    BY <1>2 DEF Send, Scheduled
  <2> QED
    BY <2>1, <2>2 DEF TypeOK
<1>3. ASSUME NEW s \in Streams, Block(s) PROVE BlockedForCause'
  BY <1>3 DEF Block
<1>4. ASSUME NEW s \in Streams, GrantStream(s) PROVE BlockedForCause'
  <2>1. PICK w \in window[s] + 1 .. MaxWindow : window' = [window EXCEPT ![s] = w]
    BY <1>4 DEF GrantStream
  <2>2. blocked' = blocked \ {s} /\ shut' = shut
    BY <1>4 DEF GrantStream
  <2> QED
    BY <2>1, <2>2 DEF TypeOK
<1>5. ASSUME NEW s \in Streams, StopSending(s) PROVE BlockedForCause'
  BY <1>5 DEF StopSending
<1> QED
  BY <1>1, <1>2, <1>3, <1>4, <1>5
     DEF Next, StreamStep, GrantConn, Fill, Ack, vars, flow

(* nghttp3 never skips a stream whose window is open and that is not shut. *)
THEOREM BlockingHasCause == Spec => []BlockedForCause
<1>1. Init => Conserved /\ BlockedForCause
  BY DEF Init, Conserved, TypeOK, BytesAccounted, BlockedForCause
<1> QED
  BY <1>1, ConservedStep, BlockedStep, PTL DEF Spec
=============================================================================
