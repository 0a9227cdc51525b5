------------------------- MODULE HttpStreamsProofs --------------------------
(***************************************************************************)
(* Proofs about HttpStreams, for any number of streams and pushes, any     *)
(* limits, with and without early_response.                                *)
(***************************************************************************)
EXTENDS HttpStreams, FiniteSetTheorems, TLAPS

USE DEF Stream, Nothing, InHeaders, InBody, Complete

(* The three tables agree. *)
OpenListed == \A s \in Stream : quic[s] = "open" => s \in streams

WaitingClosed ==
  \A s \in Stream : h3[s] = "closing" => quic[s] = "closed" /\ s \in blocked

KnownOpen == \A s \in Stream : h3[s] = "open" => quic[s] = "open"

UnknownUnread ==
  \A s \in Stream : quic[s] = "open" /\ h3[s] = "absent" => s \in Bidi /\ request[s] = Nothing

IdleUnlisted ==
  \A s \in Stream :
    quic[s] = "idle" => /\ h3[s] = "absent" /\ s \notin streams
                        /\ s \in Bidi => request[s] = Nothing

BlockedKnown == \A s \in blocked : h3[s] # "absent"

(* How far a request was read when it was answered. *)
AnsweredAt ==
  /\ \A s \in Bidi : /\ responses[s] \in {0, 1}
                     /\ responses[s] = 1 => IF EarlyResponse THEN request[s] >= InBody
                                                             ELSE request[s] = Complete
  /\ \A s \in Push : /\ responses[s] \in {0, 1}
                     /\ quic[s] = "idle" => responses[s] = 0

TablesInv ==
  /\ OpenListed /\ KnownStreamsListed /\ WaitingClosed /\ KnownOpen
  /\ UnknownUnread /\ IdleUnlisted /\ BlockedKnown /\ EntriesExplained

StreamsInv == TypeOK /\ TablesInv /\ AnsweredAt

-----------------------------------------------------------------------------
(* What reading on does: it opens some push streams, P, deletes those in   *)
(* done, and answers those in S.                                           *)
Reads(s, to, known, done, P, S) ==
  /\ P \subseteq In("idle", Push)
  /\ S \subseteq P \cup {s}
  /\ s \in S => Starts(request[s], to)
  /\ request[s] <= to
  /\ request'   = [request EXCEPT ![s] = to]
  /\ quic'      = [t \in Stream |-> IF t \in P THEN "open" ELSE quic[t]]
  /\ h3'        = [t \in Stream |-> IF t \in done THEN "absent"
                                    ELSE IF t \in known \cup P THEN "open" ELSE h3[t]]
  /\ streams'   = (streams \cup P) \ done
  /\ responses' = [t \in Stream |-> responses[t] + IF t \in S THEN 1 ELSE 0]
  /\ promised' \in 0 .. MaxPushId

(* Every outcome of ReadOn has that shape. *)
LEMMA ReadOnShape ==
  ASSUME TypeOK, NEW s \in Bidi, NEW to \in Nothing .. Complete, NEW known, NEW done,
         ReadOn(s, to, known, done)
  PROVE  \E P, S : Reads(s, to, known, done, P, S)
<1>1. request[s] <= to /\ request' = [request EXCEPT ![s] = to]
  BY DEF ReadOn
<1>2. CASE Starts(request[s], to) /\ StatusResponse(s, known, done)
  <2>1. PICK S \in {{s}, {}} : Submit(S)
    BY <1>2 DEF StatusResponse
  <2>2. quic' = [t \in Stream |-> IF t \in {} THEN "open" ELSE quic[t]]
    BY <1>2 DEF StatusResponse, TypeOK
  <2>3. Reads(s, to, known, done, {}, S)
    BY <1>1, <1>2, <2>1, <2>2 DEF StatusResponse, Http3, Submit, Reads, TypeOK
  <2> QED
    BY <2>3
<1>3. CASE Starts(request[s], to) /\ FullResponse(s, known, done)
  <2>1. PICK P \in SUBSET In("idle", Push) :
          \E A \in SUBSET P, n \in 0 .. MaxPushId :
            PushContent(P, n, known, done) /\ Submit(A \cup {s})
    BY <1>3 DEF FullResponse
  <2>2. PICK A \in SUBSET P, n \in 0 .. MaxPushId :
          PushContent(P, n, known, done) /\ Submit(A \cup {s})
    BY <2>1
  <2>3. promised' \in 0 .. MaxPushId
    BY <2>2, StreamsAssumption DEF PushContent, TypeOK
  <2>4. Reads(s, to, known, done, P, A \cup {s})
    BY <1>1, <1>3, <2>2, <2>3 DEF PushContent, ListPushes, Http3, Submit, Reads
  <2> QED
    BY <2>4
<1>4. CASE ~Starts(request[s], to)
  <2>1. /\ Http3(known, done)
        /\ streams' = streams \ done
        /\ UNCHANGED <<quic, responses, promised>>
    BY <1>4 DEF ReadOn
  <2>2. quic' = [t \in Stream |-> IF t \in {} THEN "open" ELSE quic[t]]
    BY <2>1 DEF TypeOK
  <2>3. responses' = [t \in Stream |-> responses[t] + IF t \in {} THEN 1 ELSE 0]
    BY <2>1 DEF TypeOK
  <2>4. Reads(s, to, known, done, {}, {})
    BY <1>1, <2>1, <2>2, <2>3 DEF Http3, Reads, TypeOK
  <2> QED
    BY <2>4
<1> QED
  BY <1>2, <1>3, <1>4 DEF ReadOn

(* Reading on keeps the types. *)
LEMMA ReadsType ==
  ASSUME TypeOK, NEW s \in Bidi, NEW to \in Nothing .. Complete, NEW known, NEW done,
         NEW P, NEW S, Reads(s, to, known, done, P, S),
         blocked' \subseteq Bidi, limit' \in Nat, alive' \in BOOLEAN
  PROVE  TypeOK'
<1>1. P \subseteq Stream
  BY DEF Reads, In
<1>2. quic' \in [Stream -> {"idle", "open", "closed"}]
  BY DEF Reads, TypeOK
<1>3. h3' \in [Stream -> {"absent", "open", "closing"}]
  BY DEF Reads, TypeOK
<1>4. responses' \in [Stream -> Nat]
  BY DEF Reads, TypeOK
<1>5. request' \in [Bidi -> Nothing .. Complete]
  BY DEF Reads, TypeOK
<1>6. streams' \subseteq Stream
  BY <1>1 DEF Reads, TypeOK
<1> QED
  BY <1>2, <1>3, <1>4, <1>5, <1>6 DEF Reads, TypeOK

(* Reading on answers a request at most once. *)
LEMMA ReadsAnswered ==
  ASSUME TypeOK, AnsweredAt, NEW s \in Bidi, NEW to \in Nothing .. Complete,
         NEW known, NEW done, NEW P, NEW S, Reads(s, to, known, done, P, S)
  PROVE  AnsweredAt'
<1>1. ASSUME NEW t \in Bidi
      PROVE  /\ responses'[t] \in {0, 1}
             /\ responses'[t] = 1 => IF EarlyResponse THEN request'[t] >= InBody
                                                     ELSE request'[t] = Complete
  <2>1. t \notin P
    BY StreamsAssumption DEF Reads, In
  <2>2. responses[t] \in {0, 1} /\ request[t] \in Nothing .. Complete
    BY DEF TypeOK, AnsweredAt
  <2>3. CASE t = s
    <3>1. request'[s] = to /\ request[s] <= to
      BY DEF Reads, TypeOK
    <3>2. responses'[s] = responses[s] + IF s \in S THEN 1 ELSE 0
      BY DEF Reads
    <3>3. s \in S => Starts(request[s], to)
      BY DEF Reads
    <3>4. responses[s] = 1 => IF EarlyResponse THEN request[s] >= InBody
                                              ELSE request[s] = Complete
      BY DEF AnsweredAt
    <3> QED
      BY <2>2, <2>3, <3>1, <3>2, <3>3, <3>4 DEF Starts
  <2>4. CASE t # s
    <3>1. t \notin S /\ request'[t] = request[t]
      BY <2>1, <2>4 DEF Reads, TypeOK
    <3>2. responses'[t] = responses[t] + 0
      BY <3>1 DEF Reads
    <3> QED
      BY <2>2, <3>1, <3>2 DEF AnsweredAt
  <2> QED
    BY <2>3, <2>4
<1>2. ASSUME NEW t \in Push
      PROVE  /\ responses'[t] \in {0, 1}
             /\ quic'[t] = "idle" => responses'[t] = 0
  <2>1. t # s /\ responses[t] \in {0, 1}
    BY StreamsAssumption DEF AnsweredAt
  <2>2. CASE t \in P
    <3>1. responses[t] = 0 /\ quic'[t] = "open"
      BY <2>2 DEF Reads, In, AnsweredAt
    <3> QED
      BY <3>1 DEF Reads
  <2>3. CASE t \notin P
    <3>1. t \notin S /\ quic'[t] = quic[t]
      BY <2>1, <2>3 DEF Reads
    <3>2. responses'[t] = responses[t] + 0
      BY <3>1 DEF Reads
    <3> QED
      BY <2>1, <3>1, <3>2 DEF AnsweredAt
  <2> QED
    BY <2>2, <2>3
<1> QED
  BY <1>1, <1>2 DEF AnsweredAt

(* Reading on a stream that stays keeps the tables in agreement. *)
LEMMA ReadsTables ==
  ASSUME TypeOK, TablesInv, NEW s \in Bidi, NEW to \in Nothing .. Complete,
         NEW known, known \subseteq {s}, NEW P, NEW S,
         Reads(s, to, known, {}, P, S),
         \/ quic[s] = "open" /\ s \in known
         \/ h3[s] = "open" /\ s \in blocked
         \/ h3[s] = "closing" /\ s \in blocked /\ s \in blocked' /\ known = {},
         blocked' \in {blocked, blocked \cup {s}, blocked \ {s}}
  PROVE  TablesInv'
<1> USE DEF TablesInv
<1>1. \A t \in Stream \ (known \cup P) : h3'[t] = h3[t]
  BY DEF Reads
<1>2. \A t \in known \cup P : t \in Stream => h3'[t] = "open"
  BY DEF Reads
<1>3. \A t \in Stream \ P : quic'[t] = quic[t]
  BY DEF Reads
<1>4. \A t \in P : t \in Push /\ quic[t] = "idle" /\ quic'[t] = "open" /\ t \in Stream
  BY DEF Reads, In
<1>5. streams' = streams \cup P
  BY DEF Reads
<1>6. \A t \in Bidi \ {s} : request'[t] = request[t]
  BY DEF Reads, TypeOK
<1>7. s \in Stream /\ s \notin P
  BY <1>4, StreamsAssumption
<1>8. \/ quic[s] = "open"
      \/ h3[s] = "closing" /\ s \in blocked' /\ known = {}
  BY <1>7 DEF KnownOpen
<1>9. h3'[s] # "absent"
  BY <1>1, <1>2, <1>7
<1>10. OpenListed'
  BY <1>3, <1>5 DEF OpenListed
<1>11. KnownStreamsListed'
  <2> SUFFICES ASSUME NEW t \in Stream, h3'[t] # "absent" PROVE t \in streams'
    BY DEF KnownStreamsListed
  <2>1. CASE t \in P
    BY <1>5, <2>1
  <2>2. CASE t = s
    <3>1. quic[s] = "open" \/ h3[s] # "absent"
      BY <1>8
    <3> QED
      BY <1>5, <1>7, <2>2, <3>1 DEF OpenListed, KnownStreamsListed
  <2>3. CASE t \notin P /\ t # s
    BY <1>1, <1>5, <2>3 DEF KnownStreamsListed
  <2> QED
    BY <2>1, <2>2, <2>3
<1>12. WaitingClosed'
  <2> SUFFICES ASSUME NEW t \in Stream, h3'[t] = "closing"
               PROVE  quic'[t] = "closed" /\ t \in blocked'
    BY DEF WaitingClosed
  <2>1. t \notin P /\ t \notin known /\ h3[t] = "closing"
    BY <1>1, <1>2
  <2>2. quic[t] = "closed" /\ t \in blocked
    BY <2>1 DEF WaitingClosed
  <2>3. t = s => t \in blocked'
    BY <1>8, <2>2
  <2> QED
    BY <1>3, <2>1, <2>2, <2>3
<1>13. KnownOpen'
  <2> SUFFICES ASSUME NEW t \in Stream, h3'[t] = "open" PROVE quic'[t] = "open"
    BY DEF KnownOpen
  <2>1. CASE t \in P
    BY <1>4, <2>1
  <2>2. CASE t \notin P /\ t \in known
    BY <1>3, <1>8, <2>2
  <2>3. CASE t \notin P /\ t \notin known
    BY <1>1, <1>3, <2>3 DEF KnownOpen
  <2> QED
    BY <2>1, <2>2, <2>3
<1>14. UnknownUnread'
  <2> SUFFICES ASSUME NEW t \in Stream, quic'[t] = "open", h3'[t] = "absent"
               PROVE  t \in Bidi /\ request'[t] = Nothing
    BY DEF UnknownUnread
  <2>1. t \notin P /\ t # s
    BY <1>2, <1>9
  <2> QED
    BY <1>1, <1>3, <1>6, <2>1 DEF UnknownUnread
<1>15. IdleUnlisted'
  <2> SUFFICES ASSUME NEW t \in Stream, quic'[t] = "idle"
               PROVE  /\ h3'[t] = "absent" /\ t \notin streams'
                      /\ t \in Bidi => request'[t] = Nothing
    BY DEF IdleUnlisted
  <2>1. t \notin P /\ quic[t] = "idle"
    BY <1>3, <1>4
  <2>2. t # s
    BY <1>8, <2>1 DEF WaitingClosed
  <2>3. h3[t] = "absent" /\ t \notin streams /\ (t \in Bidi => request[t] = Nothing)
    BY <2>1 DEF IdleUnlisted
  <2>4. h3'[t] = "absent" /\ t \notin streams'
    BY <1>1, <1>5, <2>1, <2>2, <2>3
  <2> QED
    BY <1>6, <2>2, <2>3, <2>4
<1>16. BlockedKnown'
  <2> SUFFICES ASSUME NEW t \in blocked' PROVE h3'[t] # "absent"
    BY DEF BlockedKnown
  <2>1. CASE t = s
    BY <1>9, <2>1
  <2>2. CASE t # s
    <3>1. t \in blocked /\ t \in Stream
      BY <2>2 DEF TypeOK
    <3>2. h3[t] # "absent"
      BY <3>1 DEF BlockedKnown
    <3> QED
      BY <1>1, <1>2, <3>1, <3>2
  <2> QED
    BY <2>1, <2>2
<1>17. EntriesExplained'
  <2> SUFFICES ASSUME NEW t \in streams'
               PROVE  \/ quic'[t] = "open"
                      \/ h3'[t] = "closing"
                      \/ quic'[t] = "closed" /\ t \in Bidi /\ request'[t] = Nothing
    BY DEF EntriesExplained
  <2>1. CASE t \in P
    BY <1>4, <2>1
  <2>2. CASE t = s
    BY <1>1, <1>3, <1>7, <1>8, <2>2
  <2>3. CASE t \notin P /\ t # s
    <3>1. t \in streams /\ t \in Stream
      BY <1>5, <2>3 DEF TypeOK
    <3> QED
      BY <1>1, <1>3, <1>6, <2>3, <3>1 DEF EntriesExplained
  <2> QED
    BY <2>1, <2>2, <2>3
<1> QED
  BY <1>10, <1>11, <1>12, <1>13, <1>14, <1>15, <1>16, <1>17

(* Reading on a stream that QUIC has closed, until nghttp3 deletes it.     *)
LEMMA ReadsLastTables ==
  ASSUME TypeOK, TablesInv, NEW s \in Bidi, NEW to \in Nothing .. Complete,
         NEW P, NEW S, Reads(s, to, {}, {s}, P, S),
         h3[s] = "closing", blocked' = blocked \ {s}
  PROVE  TablesInv'
<1> USE DEF TablesInv
<1>1. \A t \in Stream \ (P \cup {s}) : h3'[t] = h3[t] /\ quic'[t] = quic[t]
  BY DEF Reads
<1>2. \A t \in P : /\ t \in Push /\ t \in Stream /\ t # s
                  /\ quic[t] = "idle" /\ quic'[t] = "open" /\ h3'[t] = "open"
  BY StreamsAssumption DEF Reads, In
<1>3. s \in Stream /\ h3'[s] = "absent" /\ quic'[s] = "closed"
  BY <1>2 DEF Reads, WaitingClosed
<1>4. streams' = (streams \cup P) \ {s}
  BY DEF Reads
<1>5. \A t \in Bidi \ {s} : request'[t] = request[t]
  BY DEF Reads, TypeOK
<1>6. OpenListed'
  BY <1>1, <1>3, <1>4 DEF OpenListed
<1>7. KnownStreamsListed'
  BY <1>1, <1>3, <1>4 DEF KnownStreamsListed
<1>8. WaitingClosed'
  BY <1>1, <1>2, <1>3 DEF WaitingClosed
<1>9. KnownOpen'
  BY <1>1, <1>2, <1>3 DEF KnownOpen
<1>10. UnknownUnread'
  BY <1>1, <1>2, <1>3, <1>5 DEF UnknownUnread
<1>11. IdleUnlisted'
  BY <1>1, <1>2, <1>3, <1>4, <1>5 DEF IdleUnlisted
<1>12. BlockedKnown'
  BY <1>1, <1>2 DEF BlockedKnown, TypeOK
<1>13. EntriesExplained'
  BY <1>1, <1>2, <1>3, <1>4, <1>5 DEF EntriesExplained, TypeOK
<1> QED
  BY <1>6, <1>7, <1>8, <1>9, <1>10, <1>11, <1>12, <1>13

(* A callback that fails leaves the tables as they are.                    *)
LEMMA FailStep ==
  ASSUME StreamsInv, Fail
  PROVE  StreamsInv'
BY DEF StreamsInv, Fail, TypeOK, TablesInv, AnsweredAt, OpenListed, KnownStreamsListed,
       WaitingClosed, KnownOpen, UnknownUnread, IdleUnlisted, BlockedKnown, EntriesExplained

(* A stream opens: in QUIC and in streams_, not yet in nghttp3.            *)
LEMMA OpenStep ==
  ASSUME StreamsInv, NEW s \in Bidi, OnStreamOpen(s)
  PROVE  StreamsInv'
<1> USE DEF StreamsInv, TablesInv
<1>1. /\ s \in Stream /\ quic[s] = "idle" /\ quic'[s] = "open"
      /\ \A t \in Stream \ {s} : quic'[t] = quic[t]
      /\ streams' = streams \cup {s}
      /\ UNCHANGED <<h3, blocked, request, responses, limit, promised, alive>>
  <2>1. quic \in [Stream -> {"idle", "open", "closed"}] /\ s \in Stream
    BY DEF TypeOK
  <2> QED
    BY <2>1 DEF OnStreamOpen
<1>2. TypeOK'
  BY DEF OnStreamOpen, TypeOK
<1>3. h3[s] = "absent" /\ request[s] = Nothing
  BY <1>1 DEF IdleUnlisted
<1>4. OpenListed' /\ KnownStreamsListed'
  BY <1>1 DEF OpenListed, KnownStreamsListed
<1>5. WaitingClosed' /\ KnownOpen' /\ BlockedKnown'
  BY <1>1, <1>3 DEF WaitingClosed, KnownOpen, BlockedKnown
<1>6. UnknownUnread' /\ IdleUnlisted'
  BY <1>1, <1>3 DEF UnknownUnread, IdleUnlisted
<1>7. EntriesExplained'
  BY <1>1 DEF EntriesExplained, TypeOK
<1>8. AnsweredAt'
  BY <1>1, StreamsAssumption DEF AnsweredAt
<1> QED
  BY <1>2, <1>4, <1>5, <1>6, <1>7, <1>8

(* A stream closes, unknown to nghttp3, known to it, or waiting in it.     *)
LEMMA CloseStep ==
  ASSUME StreamsInv, NEW s \in Stream, OnStreamClose(s), ~Fail
  PROVE  StreamsInv'
<1> USE DEF StreamsInv, TablesInv
<1>1. /\ quic[s] = "open" /\ quic' = [quic EXCEPT ![s] = "closed"]
      /\ UNCHANGED <<blocked, request, responses, promised, alive>>
      /\ CloseUnknown(s) \/ CloseKnown(s) \/ CloseWaiting(s)
  BY DEF OnStreamClose
<1>2. Credit(s) \in Nat
  BY DEF Credit
<1>3. TypeOK'
  BY <1>1, <1>2 DEF TypeOK, CloseUnknown, CloseKnown, CloseWaiting
<1>4. quic'[s] = "closed" /\ \A t \in Stream \ {s} : quic'[t] = quic[t]
  BY <1>1 DEF TypeOK
<1>5. AnsweredAt'
  BY <1>1, <1>4 DEF AnsweredAt
<1>6. CASE CloseUnknown(s)
  <2>1. UNCHANGED <<streams, h3>> /\ h3[s] = "absent"
    BY <1>6 DEF CloseUnknown
  <2>2. s \in Bidi /\ request[s] = Nothing
    BY <1>1, <2>1 DEF UnknownUnread
  <2>3. OpenListed' /\ KnownStreamsListed' /\ WaitingClosed' /\ KnownOpen'
    BY <1>1, <1>4, <2>1 DEF OpenListed, KnownStreamsListed, WaitingClosed, KnownOpen
  <2>4. UnknownUnread' /\ IdleUnlisted' /\ BlockedKnown'
    BY <1>1, <1>4, <2>1 DEF UnknownUnread, IdleUnlisted, BlockedKnown
  <2>5. EntriesExplained'
    BY <1>1, <1>4, <2>1, <2>2 DEF EntriesExplained, TypeOK
  <2> QED
    BY <1>3, <1>5, <2>3, <2>4, <2>5
<1>7. CASE CloseKnown(s)
  <2>1. /\ s \notin blocked /\ streams' = streams \ {s} /\ h3'[s] = "absent"
        /\ \A t \in Stream \ {s} : h3'[t] = h3[t]
    BY <1>7 DEF CloseKnown, TypeOK
  <2>2. OpenListed' /\ KnownStreamsListed' /\ WaitingClosed' /\ KnownOpen'
    BY <1>1, <1>4, <2>1 DEF OpenListed, KnownStreamsListed, WaitingClosed, KnownOpen
  <2>3. UnknownUnread' /\ IdleUnlisted'
    BY <1>1, <1>4, <2>1 DEF UnknownUnread, IdleUnlisted
  <2>4. BlockedKnown'
    BY <1>1, <2>1 DEF BlockedKnown, TypeOK
  <2>5. EntriesExplained'
    BY <1>1, <1>4, <2>1 DEF EntriesExplained, TypeOK
  <2> QED
    BY <1>3, <1>5, <2>2, <2>3, <2>4, <2>5
<1>8. CASE CloseWaiting(s)
  <2>1. /\ s \in blocked /\ streams' = streams /\ h3'[s] = "closing" /\ h3[s] = "open"
        /\ \A t \in Stream \ {s} : h3'[t] = h3[t]
    BY <1>8 DEF CloseWaiting, TypeOK
  <2>2. OpenListed' /\ KnownStreamsListed' /\ WaitingClosed' /\ KnownOpen'
    BY <1>1, <1>4, <2>1 DEF OpenListed, KnownStreamsListed, WaitingClosed, KnownOpen
  <2>3. UnknownUnread' /\ IdleUnlisted'
    BY <1>1, <1>4, <2>1 DEF UnknownUnread, IdleUnlisted
  <2>4. BlockedKnown'
    BY <1>1, <2>1 DEF BlockedKnown, TypeOK
  <2>5. EntriesExplained'
    BY <1>1, <1>4, <2>1 DEF EntriesExplained, TypeOK
  <2> QED
    BY <1>3, <1>5, <2>2, <2>3, <2>4, <2>5
<1> QED
  BY <1>1, <1>6, <1>7, <1>8

(* Data of a request stream arrives.                                       *)
LEMMA RecvStep ==
  ASSUME StreamsInv, NEW s \in Bidi, RecvStreamData(s), ~Fail
  PROVE  StreamsInv'
<1>1. PICK to \in Nothing .. Complete :
        /\ ReadOn(s, to, {s}, {})
        /\ blocked' \in {blocked, blocked \cup {s}}
        /\ UNCHANGED <<limit, alive>>
  <2>1. CASE \E to \in Nothing .. Complete : ReadOn(s, to, {s}, {}) /\ UNCHANGED <<blocked, limit, alive>>
    BY <2>1
  <2>2. CASE \E to \in {InHeaders, InBody} :
               ReadOn(s, to, {s}, {}) /\ blocked' = blocked \cup {s} /\ UNCHANGED <<limit, alive>>
    <3>1. {InHeaders, InBody} \subseteq Nothing .. Complete
      OBVIOUS
    <3> QED
      BY <2>2, <3>1
  <2> QED
    BY <2>1, <2>2 DEF RecvStreamData
<1>2. TypeOK /\ TablesInv /\ AnsweredAt
  BY DEF StreamsInv
<1>3. PICK P, S : Reads(s, to, {s}, {}, P, S)
  BY <1>1, <1>2, ReadOnShape
<1>4. quic[s] = "open"
  BY DEF RecvStreamData
<1>5. blocked' \subseteq Bidi /\ limit' \in Nat /\ alive' \in BOOLEAN
  BY <1>1, <1>2 DEF TypeOK
<1>6. TypeOK'
  BY <1>2, <1>3, <1>5, ReadsType
<1>7. AnsweredAt'
  BY <1>2, <1>3, ReadsAnswered
<1>8. TablesInv'
  BY <1>1, <1>2, <1>3, <1>4, ReadsTables
<1> QED
  BY <1>6, <1>7, <1>8 DEF StreamsInv

(* Data of the encoder stream arrives.                                     *)
LEMMA EncoderStep ==
  ASSUME StreamsInv, NEW s \in Bidi, RecvEncoderData(s), ~Fail
  PROVE  StreamsInv'
<1>1. TypeOK /\ TablesInv /\ AnsweredAt
  BY DEF StreamsInv
<1>2. s \in blocked /\ s \in Stream
  BY DEF RecvEncoderData
<1>3. h3[s] \in {"open", "closing"}
  BY <1>1, <1>2 DEF TypeOK, TablesInv, BlockedKnown
<1>4. Credit(s) \in Nat
  BY DEF Credit
<1>5. ASSUME NEW to \in Nothing .. Complete, ReadOn(s, to, {}, {}),
             \/ blocked' = blocked
             \/ h3[s] = "open" /\ blocked' = blocked \ {s},
             UNCHANGED <<limit, alive>>
      PROVE  StreamsInv'
  <2>1. PICK P, S : Reads(s, to, {}, {}, P, S)
    BY <1>1, <1>5, ReadOnShape
  <2>2. blocked' \subseteq Bidi /\ limit' \in Nat /\ alive' \in BOOLEAN
    BY <1>1, <1>5 DEF TypeOK
  <2>3. TypeOK'
    BY <1>1, <2>1, <2>2, ReadsType
  <2>4. AnsweredAt'
    BY <1>1, <2>1, ReadsAnswered
  <2>5. \/ h3[s] = "open" /\ s \in blocked
        \/ h3[s] = "closing" /\ s \in blocked /\ s \in blocked'
    BY <1>2, <1>3, <1>5
  <2>6. blocked' \in {blocked, blocked \cup {s}, blocked \ {s}}
    BY <1>5
  <2>7. TablesInv'
    BY <1>1, <2>1, <2>5, <2>6, ReadsTables
  <2> QED
    BY <2>3, <2>4, <2>7 DEF StreamsInv
<1>6. ASSUME h3[s] = "closing", NEW to \in Nothing .. Complete, ReadOn(s, to, {}, {s}),
             blocked' = blocked \ {s}, limit' = limit + Credit(s), UNCHANGED alive
      PROVE  StreamsInv'
  <2>1. PICK P, S : Reads(s, to, {}, {s}, P, S)
    BY <1>1, <1>6, ReadOnShape
  <2>2. blocked' \subseteq Bidi /\ limit' \in Nat /\ alive' \in BOOLEAN
    BY <1>1, <1>4, <1>6 DEF TypeOK
  <2>3. TypeOK'
    BY <1>1, <2>1, <2>2, ReadsType
  <2>4. AnsweredAt'
    BY <1>1, <2>1, ReadsAnswered
  <2>5. TablesInv'
    BY <1>1, <1>6, <2>1, ReadsLastTables
  <2> QED
    BY <2>3, <2>4, <2>5 DEF StreamsInv
<1>7. {InHeaders, InBody} \subseteq Nothing .. Complete
  OBVIOUS
<1>8. CASE \E to \in {InHeaders, InBody} : ReadOn(s, to, {}, {}) /\ UNCHANGED <<blocked, limit, alive>>
  BY <1>5, <1>7, <1>8
<1>9. CASE /\ h3[s] = "open"
           /\ \E to \in Nothing .. Complete : ReadOn(s, to, {}, {})
           /\ blocked' = blocked \ {s}
           /\ UNCHANGED <<limit, alive>>
  BY <1>5, <1>9
<1>10. CASE /\ h3[s] = "closing"
            /\ \E to \in Nothing .. Complete : ReadOn(s, to, {}, {s})
            /\ blocked' = blocked \ {s}
            /\ limit' = limit + Credit(s)
            /\ UNCHANGED alive
  BY <1>6, <1>10
<1> QED
  BY <1>8, <1>9, <1>10 DEF RecvEncoderData

-----------------------------------------------------------------------------
(* The invariant holds throughout.                                         *)
LEMMA StreamsInvariant == Spec => []StreamsInv
<1>1. Init => StreamsInv
  BY StreamsAssumption
     DEF Init, StreamsInv, TypeOK, TablesInv, AnsweredAt, OpenListed, KnownStreamsListed,
         WaitingClosed, KnownOpen, UnknownUnread, IdleUnlisted, BlockedKnown, EntriesExplained
<1>2. StreamsInv /\ [Next]_vars => StreamsInv'
  <2> SUFFICES ASSUME StreamsInv, [Next]_vars PROVE StreamsInv'
    OBVIOUS
  <2>1. CASE Fail
    BY <2>1, FailStep
  <2>2. CASE ~Fail
    <3>1. ASSUME NEW s \in Bidi, OnStreamOpen(s) PROVE StreamsInv'
      BY <3>1, OpenStep
    <3>2. ASSUME NEW s \in Bidi, RecvStreamData(s) PROVE StreamsInv'
      BY <2>2, <3>2, RecvStep
    <3>3. ASSUME NEW s \in Bidi, RecvEncoderData(s) PROVE StreamsInv'
      BY <2>2, <3>3, EncoderStep
    <3>4. ASSUME NEW s \in Stream, OnStreamClose(s) PROVE StreamsInv'
      BY <2>2, <3>4, CloseStep
    <3>5. CASE UNCHANGED vars
      BY <3>5 DEF vars, StreamsInv, TypeOK, TablesInv, AnsweredAt, OpenListed,
                  KnownStreamsListed, WaitingClosed, KnownOpen, UnknownUnread,
                  IdleUnlisted, BlockedKnown, EntriesExplained
    <3> QED
      BY <3>1, <3>2, <3>3, <3>4, <3>5 DEF Next
  <2> QED
    BY <2>1, <2>2
<1> QED
  BY <1>1, <1>2, PTL DEF Spec

(* Types, and no more pushes promised than the client allows.              *)
THEOREM StreamTypes == Spec => []TypeOK
<1>1. StreamsInv => TypeOK
  BY DEF StreamsInv
<1> QED
  BY <1>1, StreamsInvariant, PTL

(* The assertions of the nghttp3 callbacks hold: they find the stream in   *)
(* streams_.                                                               *)
THEOREM KnownStreamsAreListed == Spec => []KnownStreamsListed
<1>1. StreamsInv => KnownStreamsListed
  BY DEF StreamsInv, TablesInv
<1> QED
  BY <1>1, StreamsInvariant, PTL

(* What is left in streams_ are request streams that nghttp3 never saw.    *)
THEOREM EntriesAreExplained == Spec => []EntriesExplained
<1>1. StreamsInv => EntriesExplained
  BY DEF StreamsInv, TablesInv
<1> QED
  BY <1>1, StreamsInvariant, PTL

(* A request is answered once, by one callback or the other.               *)
THEOREM AnswersAreSingle == Spec => []AnsweredOnce
<1>1. StreamsInv => AnsweredOnce
  <2> SUFFICES ASSUME StreamsInv, NEW s \in Stream
               PROVE  /\ responses[s] <= 1
                      /\ s \in Bidi /\ responses[s] = 1 => request[s] >= InBody
    BY DEF AnsweredOnce
  <2>1. AnsweredAt
    BY DEF StreamsInv
  <2> QED
    BY <2>1 DEF AnsweredAt
<1> QED
  BY <1>1, StreamsInvariant, PTL

-----------------------------------------------------------------------------
(* Request streams that are over for QUIC and for nghttp3.                 *)
Over == {s \in Bidi : quic[s] = "closed" /\ h3[s] = "absent"}

CreditInv == limit = MaxBidi + Cardinality(Over)

(* One more stream is over, and gives its credit back.                     *)
LEMMA OverOneMore ==
  ASSUME CreditInv, NEW s \in Bidi, s \notin Over, Over' = Over \cup {s}, limit' = limit + 1
  PROVE  CreditInv'
<1>1. IsFiniteSet(Over)
  BY StreamsAssumption, FS_Subset DEF Over
<1>2. Cardinality(Over \cup {s}) = Cardinality(Over) + 1
  BY <1>1, FS_AddElement
<1>3. Cardinality(Over) \in Nat /\ MaxBidi \in Nat
  BY <1>1, FS_CardinalityType, StreamsAssumption
<1> QED
  BY <1>2, <1>3 DEF CreditInv

(* A stream of the request side is over, or none.                          *)
LEMMA ReadsOver ==
  ASSUME StreamsInv, NEW s \in Bidi, NEW to, NEW known \in SUBSET {s}, NEW P, NEW S,
         Reads(s, to, known, {}, P, S), known = {} \/ quic[s] = "open"
  PROVE  Over' = Over
<1>1. \A t \in Bidi : quic'[t] = quic[t]
  BY StreamsAssumption DEF Reads, In, StreamsInv, TypeOK
<1>2. \A t \in Bidi : h3'[t] = IF t \in known THEN "open" ELSE h3[t]
  BY StreamsAssumption DEF Reads, In, StreamsInv, TypeOK
<1> QED
  BY <1>1, <1>2 DEF Over

LEMMA RecvCredit ==
  ASSUME StreamsInv, CreditInv, NEW s \in Bidi, RecvStreamData(s), ~Fail
  PROVE  CreditInv'
<1>1. {InHeaders, InBody} \subseteq Nothing .. Complete
  OBVIOUS
<1>2. quic[s] = "open" /\ limit' = limit
      /\ \E to \in Nothing .. Complete : ReadOn(s, to, {s}, {})
  BY <1>1 DEF RecvStreamData
<1>3. PICK to \in Nothing .. Complete : ReadOn(s, to, {s}, {})
  BY <1>2
<1>4. PICK P, S : Reads(s, to, {s}, {}, P, S)
  BY <1>3, ReadOnShape DEF StreamsInv
<1>5. Over' = Over
  BY <1>2, <1>4, ReadsOver
<1> QED
  BY <1>2, <1>5 DEF CreditInv

LEMMA EncoderCredit ==
  ASSUME StreamsInv, CreditInv, NEW s \in Bidi, RecvEncoderData(s), ~Fail
  PROVE  CreditInv'
<1>1. {InHeaders, InBody} \subseteq Nothing .. Complete
  OBVIOUS
<1>2. \/ limit' = limit /\ \E to \in Nothing .. Complete : ReadOn(s, to, {}, {})
      \/ /\ h3[s] = "closing" /\ limit' = limit + Credit(s)
         /\ \E to \in Nothing .. Complete : ReadOn(s, to, {}, {s})
  BY <1>1 DEF RecvEncoderData
<1>3. CASE limit' = limit /\ \E to \in Nothing .. Complete : ReadOn(s, to, {}, {})
  <2>1. PICK to \in Nothing .. Complete : ReadOn(s, to, {}, {})
    BY <1>3
  <2>2. PICK P, S : Reads(s, to, {}, {}, P, S)
    BY <2>1, ReadOnShape DEF StreamsInv
  <2>3. Over' = Over
    BY <2>2, ReadsOver
  <2> QED
    BY <1>3, <2>3 DEF CreditInv
<1>4. CASE /\ h3[s] = "closing" /\ limit' = limit + Credit(s)
           /\ \E to \in Nothing .. Complete : ReadOn(s, to, {}, {s})
  <2>1. PICK to \in Nothing .. Complete : ReadOn(s, to, {}, {s})
    BY <1>4
  <2>2. PICK P, S : Reads(s, to, {}, {s}, P, S)
    BY <2>1, ReadOnShape DEF StreamsInv
  <2>3. s \in Stream /\ quic[s] = "closed" /\ s \notin Over
    BY <1>4 DEF StreamsInv, TablesInv, WaitingClosed, Over
  <2>4. \A t \in Bidi : quic'[t] = quic[t] /\ h3'[t] = IF t = s THEN "absent" ELSE h3[t]
    BY <2>2, StreamsAssumption DEF Reads, In, StreamsInv, TypeOK
  <2>5. Over' = Over \cup {s}
    BY <2>3, <2>4 DEF Over
  <2> QED
    BY <1>4, <2>3, <2>5, OverOneMore DEF Credit
<1> QED
  BY <1>2, <1>3, <1>4

LEMMA CloseCredit ==
  ASSUME StreamsInv, CreditInv, NEW s \in Stream, OnStreamClose(s), ~Fail
  PROVE  CreditInv'
<1>1. /\ quic[s] = "open" /\ quic' = [quic EXCEPT ![s] = "closed"]
      /\ quic \in [Stream -> {"idle", "open", "closed"}]
      /\ h3 \in [Stream -> {"absent", "open", "closing"}] /\ limit \in Nat
  BY DEF OnStreamClose, StreamsInv, TypeOK
<1>2. CASE /\ h3' \in {h3, [h3 EXCEPT ![s] = "absent"]} /\ h3'[s] = "absent"
           /\ limit' = limit + Credit(s)
  <2>1. \A t \in Stream : t # s => h3'[t] = h3[t] /\ quic'[t] = quic[t]
    BY <1>1, <1>2
  <2>2. quic'[s] = "closed"
    BY <1>1
  <2>3. CASE s \in Bidi
    <3>1. s \notin Over /\ Over' = Over \cup {s}
      BY <2>1, <2>2, <2>3, <1>1, <1>2 DEF Over
    <3> QED
      BY <2>3, <3>1, <1>2, OverOneMore DEF Credit
  <2>4. CASE s \notin Bidi
    <3>1. Over' = Over
      BY <2>1, <2>4 DEF Over
    <3>2. limit' = limit
      BY <2>4, <1>1, <1>2 DEF Credit
    <3> QED
      BY <3>1, <3>2 DEF CreditInv
  <2> QED
    BY <2>3, <2>4
<1>3. CASE h3' = [h3 EXCEPT ![s] = "closing"] /\ limit' = limit
  <2>1. Over' = Over
    BY <1>1, <1>3 DEF Over
  <2> QED
    BY <2>1, <1>3 DEF CreditInv
<1>4. CASE CloseUnknown(s)
  BY <1>2, <1>4 DEF CloseUnknown
<1>5. CASE CloseKnown(s)
  <2>1. h3' = [h3 EXCEPT ![s] = "absent"] /\ h3'[s] = "absent" /\ limit' = limit + Credit(s)
    BY <1>1, <1>5 DEF CloseKnown
  <2> QED
    BY <2>1, <1>2
<1>6. CASE CloseWaiting(s)
  BY <1>3, <1>6 DEF CloseWaiting
<1> QED
  BY <1>4, <1>5, <1>6 DEF OnStreamClose

LEMMA CreditStep == StreamsInv /\ CreditInv /\ [Next]_vars => CreditInv'
<1> SUFFICES ASSUME StreamsInv, CreditInv, [Next]_vars PROVE CreditInv'
  OBVIOUS
<1>1. CASE UNCHANGED <<quic, h3, limit>>
  <2>1. Over' = Over
    BY <1>1 DEF Over
  <2> QED
    BY <1>1, <2>1 DEF CreditInv
<1>2. CASE Fail \/ UNCHANGED vars
  BY <1>1, <1>2 DEF Fail, vars
<1>3. ASSUME NEW s \in Bidi, OnStreamOpen(s) PROVE CreditInv'
  <2>1. quic[s] = "idle" /\ quic' = [quic EXCEPT ![s] = "open"] /\ h3' = h3 /\ limit' = limit
    BY <1>3 DEF OnStreamOpen
  <2>2. Over' = Over
    BY <2>1 DEF Over, StreamsInv, TypeOK
  <2> QED
    BY <2>1, <2>2 DEF CreditInv
<1> QED
  BY <1>2, <1>3, RecvCredit, EncoderCredit, CloseCredit DEF Next

LEMMA CreditInvariant == Spec => []CreditInv
<1>1. Init => CreditInv
  <2> SUFFICES ASSUME Init PROVE CreditInv
    OBVIOUS
  <2>1. Over = {}
    BY DEF Init, Over
  <2>2. Cardinality(Over) = 0
    BY <2>1, FS_EmptySet
  <2> QED
    BY <2>2, StreamsAssumption DEF Init, CreditInv
<1> QED
  BY <1>1, StreamsInvariant, CreditStep, PTL DEF Spec

(* Each request stream that is over gave its credit back once, whether     *)
(* nghttp3 never saw it, deleted it at once or had to wait for it.         *)
THEOREM CreditIsExact == Spec => []CreditExact
<1>1. CreditInv => CreditExact
  <2>1. Over = {s \in In("closed", Bidi) : h3[s] = "absent"}
    BY DEF Over, In
  <2> QED
    BY <2>1 DEF CreditInv, CreditExact
<1> QED
  BY <1>1, CreditInvariant, PTL

(***************************************************************************)
(* The connection implements RequestService                                *)
(***************************************************************************)

(* The stages and answers RequestService sees. *)
Stages == [s \in Bidi |-> Stage(s)]

Answers == [s \in Bidi |-> responses[s]]

(* The streams of the requests in service are open or wait in nghttp3. *)
Serving == {s \in Bidi : Stages[s] = "served"}

(* The streams opened are those in service and those that are over, and    *)
(* the latter gave their credit back: what is left are the free places.    *)
PlacesLeft == CreditLeft = MaxBidi - Cardinality(Serving)

LEMMA PlacesAreLeft ==
  ASSUME StreamsInv, CreditInv
  PROVE  PlacesLeft
<1>1. Bidi \ In("idle", Bidi) = Serving \cup Over
  BY DEF In, Serving, Stages, Stage, Over, StreamsInv, TablesInv, IdleUnlisted
<1>2. Serving \cap Over = {}
  BY DEF Serving, Stages, Stage, Over
<1>3. IsFiniteSet(Serving) /\ IsFiniteSet(Over)
  BY StreamsAssumption, FS_Subset DEF Serving, Over
<1>4. Cardinality(Serving \cup Over) = Cardinality(Serving) + Cardinality(Over) - 0
  BY <1>2, <1>3, FS_Union, FS_EmptySet
<1>5. Cardinality(Serving) \in Nat /\ Cardinality(Over) \in Nat /\ MaxBidi \in Nat
  BY <1>3, FS_CardinalityType, StreamsAssumption
<1>6. CreditLeft = limit - Cardinality(Serving \cup Over)
  BY <1>1 DEF CreditLeft
<1>7. limit = MaxBidi + Cardinality(Over)
  BY DEF CreditInv
<1> QED
  BY <1>4, <1>5, <1>6, <1>7 DEF PlacesLeft

(* A request takes a place. *)
LEMMA PlaceTaken ==
  ASSUME PlacesLeft, PlacesLeft', NEW s \in Bidi,
         Stages[s] = "waiting", Stages' = [Stages EXCEPT ![s] = "served"]
  PROVE  CreditLeft' = CreditLeft - 1
<1>1. IsFiniteSet(Serving)
  BY StreamsAssumption, FS_Subset DEF Serving
<1>2. s \notin Serving /\ Serving' = Serving \cup {s}
  BY DEF Serving, Stages
<1>3. Cardinality(Serving') = Cardinality(Serving) + 1
  BY <1>1, <1>2, FS_AddElement
<1>4. Cardinality(Serving) \in Nat /\ MaxBidi \in Nat
  BY <1>1, FS_CardinalityType, StreamsAssumption
<1> QED
  BY <1>3, <1>4 DEF PlacesLeft

(* A request gives its place back. *)
LEMMA PlaceGivenBack ==
  ASSUME PlacesLeft, PlacesLeft', NEW s \in Bidi,
         Stages[s] = "served", Stages' = [Stages EXCEPT ![s] = "over"]
  PROVE  CreditLeft' = CreditLeft + 1
<1>1. IsFiniteSet(Serving)
  BY StreamsAssumption, FS_Subset DEF Serving
<1>2. s \in Serving /\ Serving' = Serving \ {s}
  BY DEF Serving, Stages
<1>3. Cardinality(Serving') = Cardinality(Serving) - 1
  BY <1>1, <1>2, FS_RemoveElement
<1>4. Cardinality(Serving) \in Nat /\ MaxBidi \in Nat
  BY <1>1, FS_CardinalityType, StreamsAssumption
<1> QED
  BY <1>3, <1>4 DEF PlacesLeft

LEMMA PlaceKept ==
  ASSUME PlacesLeft, PlacesLeft', Stages' = Stages
  PROVE  CreditLeft' = CreditLeft
BY DEF PlacesLeft, Serving

(* Opening a stream takes a free place. *)
LEMMA OpenRefines ==
  ASSUME StreamsInv, PlacesLeft, PlacesLeft', NEW s \in Bidi, OnStreamOpen(s)
  PROVE  Service!Begin(s)
<1>1. /\ quic[s] = "idle" /\ quic' = [quic EXCEPT ![s] = "open"]
      /\ h3' = h3 /\ responses' = responses /\ quic \in [Stream -> {"idle", "open", "closed"}]
  BY DEF OnStreamOpen, StreamsInv, TypeOK
<1>2. Stages[s] = "waiting"
  BY <1>1 DEF Stages, Stage
<1>3. Stages' = [Stages EXCEPT ![s] = "served"]
  BY <1>1 DEF Stages, Stage
<1>4. CreditLeft > 0
  <2>1. IsFiniteSet(Bidi \ In("idle", Bidi))
    BY StreamsAssumption, FS_Subset
  <2>2. Cardinality(Bidi \ In("idle", Bidi)) \in Nat /\ limit \in Nat
    BY <2>1, FS_CardinalityType DEF StreamsInv, TypeOK
  <2> QED
    BY <2>2 DEF OnStreamOpen, CreditLeft
<1>5. CreditLeft' = CreditLeft - 1
  BY <1>2, <1>3, PlaceTaken
<1>6. Answers' = Answers
  BY <1>1 DEF Answers
<1> QED
  BY <1>2, <1>3, <1>4, <1>5, <1>6 DEF Service!Begin, Stages, Answers

(* Reading on answers no request but its own, and that for the first time. *)
LEMMA ReadsAnswers ==
  ASSUME StreamsInv, NEW s \in Bidi, NEW to \in Nothing .. Complete,
         NEW known, NEW done, NEW P, NEW S, Reads(s, to, known, done, P, S)
  PROVE  Service!Answered(s) \/ Answers' = Answers
<1>1. \A t \in Bidi : responses[t] \in Nat /\ request[t] \in Nothing .. Complete
  BY DEF StreamsInv, TypeOK
<1>2. \A t \in Bidi : t # s => t \notin S
  BY StreamsAssumption DEF Reads, In
<1>3. \A t \in Bidi : responses'[t] = responses[t] + IF t \in S THEN 1 ELSE 0
  BY DEF Reads
<1>4. CASE s \in S
  <2>1. Starts(request[s], to)
    BY <1>4 DEF Reads
  <2>2. responses[s] = 0
    BY <1>1, <2>1 DEF Starts, StreamsInv, AnsweredAt
  <2>3. \A t \in Bidi : responses'[t] = IF t = s THEN 1 ELSE responses[t]
    BY <1>1, <1>2, <1>3, <1>4, <2>2
  <2>4. Answers[s] = 0 /\ Answers' = [Answers EXCEPT ![s] = 1]
    BY <2>2, <2>3 DEF Answers
  <2> QED
    BY <2>4 DEF Service!Answered, Answers
<1>5. CASE s \notin S
  BY <1>1, <1>2, <1>3, <1>5 DEF Answers
<1> QED
  BY <1>4, <1>5

(* Reading on leaves the stages as they are. *)
LEMMA ReadsStages ==
  ASSUME StreamsInv, NEW s \in Bidi, NEW to, NEW known \in SUBSET {s}, NEW P, NEW S,
         Reads(s, to, known, {}, P, S), known = {} \/ quic[s] = "open"
  PROVE  Stages' = Stages
<1>1. \A t \in Bidi : quic'[t] = quic[t]
  BY StreamsAssumption DEF Reads, In, StreamsInv, TypeOK
<1>2. \A t \in Bidi : h3'[t] = IF t \in known THEN "open" ELSE h3[t]
  BY StreamsAssumption DEF Reads, In, StreamsInv, TypeOK
<1> QED
  BY <1>1, <1>2 DEF Stages, Stage

(* Data of a request in service may get it its answer. *)
LEMMA RecvRefines ==
  ASSUME StreamsInv, PlacesLeft, PlacesLeft', NEW s \in Bidi, RecvStreamData(s), ~Fail
  PROVE  Service!Answer(s) \/ UNCHANGED <<Stages, CreditLeft, Answers>>
<1>1. {InHeaders, InBody} \subseteq Nothing .. Complete
  OBVIOUS
<1>2. quic[s] = "open" /\ \E to \in Nothing .. Complete : ReadOn(s, to, {s}, {})
  BY <1>1 DEF RecvStreamData
<1>3. PICK to \in Nothing .. Complete : ReadOn(s, to, {s}, {})
  BY <1>2
<1>4. PICK P, S : Reads(s, to, {s}, {}, P, S)
  BY <1>3, ReadOnShape DEF StreamsInv
<1>5. Stages' = Stages
  BY <1>2, <1>4, ReadsStages
<1>6. Stages[s] = "served"
  BY <1>2 DEF Stages, Stage
<1>7. Service!Answered(s) \/ Answers' = Answers
  BY <1>4, ReadsAnswers
<1>8. CreditLeft' = CreditLeft
  BY <1>5, PlaceKept
<1> QED
  BY <1>5, <1>6, <1>7, <1>8 DEF Service!Answer, Stages, Answers

(* So may data of the encoder stream, and end it if QUIC has closed it.    *)
LEMMA EncoderRefines ==
  ASSUME StreamsInv, PlacesLeft, PlacesLeft', NEW s \in Bidi, RecvEncoderData(s), ~Fail
  PROVE  Service!Answer(s) \/ Service!End(s) \/ UNCHANGED <<Stages, CreditLeft, Answers>>
<1>1. {InHeaders, InBody} \subseteq Nothing .. Complete
  OBVIOUS
<1>2. s \in Stream /\ s \in blocked /\ h3[s] # "absent"
  BY DEF RecvEncoderData, StreamsInv, TablesInv, BlockedKnown
<1>3. Stages[s] = "served"
  BY <1>2 DEF Stages, Stage, StreamsInv, TablesInv, IdleUnlisted
<1>4. \/ \E to \in Nothing .. Complete : ReadOn(s, to, {}, {})
      \/ /\ h3[s] = "closing"
         /\ \E to \in Nothing .. Complete : ReadOn(s, to, {}, {s})
  BY <1>1 DEF RecvEncoderData
<1>5. CASE \E to \in Nothing .. Complete : ReadOn(s, to, {}, {})
  <2>1. PICK to \in Nothing .. Complete : ReadOn(s, to, {}, {})
    BY <1>5
  <2>2. PICK P, S : Reads(s, to, {}, {}, P, S)
    BY <2>1, ReadOnShape DEF StreamsInv
  <2>3. Stages' = Stages
    BY <2>2, ReadsStages
  <2>4. Service!Answered(s) \/ Answers' = Answers
    BY <2>2, ReadsAnswers
  <2>5. CreditLeft' = CreditLeft
    BY <2>3, PlaceKept
  <2> QED
    BY <1>3, <2>3, <2>4, <2>5 DEF Service!Answer, Stages, Answers
<1>6. CASE h3[s] = "closing" /\ \E to \in Nothing .. Complete : ReadOn(s, to, {}, {s})
  <2>1. PICK to \in Nothing .. Complete : ReadOn(s, to, {}, {s})
    BY <1>6
  <2>2. PICK P, S : Reads(s, to, {}, {s}, P, S)
    BY <2>1, ReadOnShape DEF StreamsInv
  <2>3. quic[s] = "closed"
    BY <1>2, <1>6 DEF StreamsInv, TablesInv, WaitingClosed
  <2>4. \A t \in Bidi : quic'[t] = quic[t] /\ h3'[t] = IF t = s THEN "absent" ELSE h3[t]
    BY <2>2, StreamsAssumption DEF Reads, In, StreamsInv, TypeOK
  <2>5. Stages' = [Stages EXCEPT ![s] = "over"]
    BY <2>3, <2>4 DEF Stages, Stage
  <2>6. Service!Answered(s) \/ Answers' = Answers
    BY <2>2, ReadsAnswers
  <2>7. CreditLeft' = CreditLeft + 1
    BY <1>3, <2>5, PlaceGivenBack
  <2> QED
    BY <1>3, <2>5, <2>6, <2>7 DEF Service!End, Stages, Answers
<1> QED
  BY <1>4, <1>5, <1>6

(* A request is over when its stream closes, unless nghttp3 keeps it.      *)
LEMMA CloseRefines ==
  ASSUME StreamsInv, PlacesLeft, PlacesLeft', NEW s \in Stream, OnStreamClose(s), ~Fail
  PROVE  \/ s \in Bidi /\ Service!End(s)
         \/ UNCHANGED <<Stages, CreditLeft, Answers>>
<1>1. /\ quic[s] = "open" /\ quic' = [quic EXCEPT ![s] = "closed"]
      /\ responses' = responses
      /\ CloseUnknown(s) \/ CloseKnown(s) \/ CloseWaiting(s)
      /\ quic \in [Stream -> {"idle", "open", "closed"}]
      /\ h3 \in [Stream -> {"absent", "open", "closing"}]
  BY DEF OnStreamClose, StreamsInv, TypeOK
<1>2. Answers' = Answers
  BY <1>1 DEF Answers
<1>3. quic'[s] = "closed" /\ \A t \in Stream : t # s => quic'[t] = quic[t] /\ h3'[t] = h3[t]
  BY <1>1 DEF CloseUnknown, CloseKnown, CloseWaiting
<1>4. CASE s \in Bidi /\ h3'[s] = "absent"
  <2>1. Stages[s] = "served" /\ Stages' = [Stages EXCEPT ![s] = "over"]
    BY <1>1, <1>3, <1>4 DEF Stages, Stage
  <2>2. CreditLeft' = CreditLeft + 1
    BY <1>4, <2>1, PlaceGivenBack
  <2> QED
    BY <1>2, <1>4, <2>1, <2>2 DEF Service!End, Stages, Answers
<1>5. CASE s \in Bidi /\ h3'[s] # "absent"
  <2>1. Stages' = Stages
    BY <1>1, <1>3, <1>5 DEF Stages, Stage
  <2> QED
    BY <1>2, <2>1, PlaceKept
<1>6. CASE s \notin Bidi
  <2>1. Stages' = Stages
    BY <1>3, <1>6 DEF Stages, Stage
  <2> QED
    BY <1>2, <2>1, PlaceKept
<1> QED
  BY <1>4, <1>5, <1>6

LEMMA StepRefines ==
  ASSUME StreamsInv, PlacesLeft, PlacesLeft', [Next]_vars
  PROVE  Service!Next \/ UNCHANGED <<Stages, CreditLeft, Answers>>
<1>1. CASE UNCHANGED <<quic, h3, responses>>
  <2>1. Stages' = Stages /\ Answers' = Answers
    BY <1>1 DEF Stages, Stage, Answers
  <2> QED
    BY <2>1, PlaceKept
<1>2. CASE Fail \/ UNCHANGED vars
  BY <1>1, <1>2 DEF Fail, vars
<1>3. ASSUME NEW s \in Bidi, OnStreamOpen(s) PROVE Service!Next
  BY <1>3, OpenRefines DEF Service!Next
<1>4. ASSUME NEW s \in Bidi, RecvStreamData(s), ~Fail
      PROVE  Service!Next \/ UNCHANGED <<Stages, CreditLeft, Answers>>
  BY <1>4, RecvRefines DEF Service!Next
<1>5. ASSUME NEW s \in Bidi, RecvEncoderData(s), ~Fail
      PROVE  Service!Next \/ UNCHANGED <<Stages, CreditLeft, Answers>>
  BY <1>5, EncoderRefines DEF Service!Next
<1>6. ASSUME NEW s \in Stream, OnStreamClose(s), ~Fail
      PROVE  Service!Next \/ UNCHANGED <<Stages, CreditLeft, Answers>>
  BY <1>6, CloseRefines DEF Service!Next
<1> QED
  BY <1>2, <1>3, <1>4, <1>5, <1>6 DEF Next

(* A connection is a service with max_streams_bidi places: no request gets *)
(* a place that is not free, a second answer, or one after it is over.     *)
THEOREM RequestsAreServed == Spec => ServesRequests
<1>1. Init => Service!Init
  <2> SUFFICES ASSUME Init PROVE Service!Init
    OBVIOUS
  <2>1. Bidi \ In("idle", Bidi) = {}
    BY DEF Init, In
  <2>2. CreditLeft = MaxBidi - 0
    BY <2>1, FS_EmptySet DEF Init, CreditLeft
  <2>3. CreditLeft = MaxBidi
    BY <2>2, StreamsAssumption
  <2> QED
    BY <2>3, StreamsAssumption DEF Init, Service!Init, Stage
<1>2. StreamsInv /\ CreditInv => PlacesLeft
  BY PlacesAreLeft
<1>3. PlacesLeft /\ PlacesLeft' /\ StreamsInv /\ [Next]_vars =>
        [Service!Next]_<<[s \in Bidi |-> Stage(s)], CreditLeft, [s \in Bidi |-> responses[s]]>>
  BY StepRefines DEF Stages, Answers
<1> QED
  BY <1>1, <1>2, <1>3, StreamsInvariant, CreditInvariant, PTL
     DEF Spec, ServesRequests, Service!Spec
=============================================================================
