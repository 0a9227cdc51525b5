------------------------ MODULE ClientStreamsProofs ------------------------
(***************************************************************************)
(* Proofs about the client's requests, for any number of requests, URIs    *)
(* and streams, early data or not, delay or not, refused requests or not.  *)
(***************************************************************************)
EXTENDS ClientStreams, FiniteSetTheorems, SequenceTheorems, TLAPS

(* The streams opened are the first ones, and the tables agree on them.    *)
BidiInv ==
  /\ quic \in [Id -> {"idle", "open", "closed"}]
  /\ h3 \in [Id -> {"unknown", "open", "waiting", "gone"}]
  /\ Opened \in 0 .. MaxStreams
  /\ \A i \in Id : quic[i] # "idle" <=> i < Opened
  /\ streams = [i \in DOMAIN streams |-> streams[i]]
  /\ DOMAIN streams = {i \in Id : h3[i] \in {"open", "waiting"}}
  /\ \A i \in DOMAIN streams : streams[i] \in 0 .. NRequests - 1
  /\ done \in 0 .. NStreams
  /\ submitted \in Seq(Nat)
  /\ RequestsOnce

(* The rest of the types.                                                  *)
OtherTypes ==
  /\ phase \in {"start", "handshake", "keyed", "open", "failed", "rejected"}
  /\ http \in BOOLEAN /\ exit \in BOOLEAN /\ early \in BOOLEAN /\ told \in BOOLEAN
  /\ credit \in 0 .. MaxStreams
  /\ delay \in {"off", "active"}
  /\ push \in [Push -> {"idle", "unread", "read", "waiting", "closed"}]
  /\ uniCredit \in Nat

(* What is open never exceeds what the server allows, the early stream     *)
(* included; httpconn_ exists where requests are made.                     *)
StageInv ==
  /\ phase = "start" => Opened = 0 /\ done = 0 /\ DOMAIN streams = {}
  /\ phase \in {"handshake", "keyed"} => Opened <= ServerCredit
  /\ phase = "open" => Opened <= credit
  /\ phase \in {"keyed", "open"} => http
  /\ DOMAIN streams # {} => http
  /\ delay = "active" => phase = "open"

StreamsInv == BidiInv /\ OtherTypes /\ StageInv /\ UniCreditExact

-----------------------------------------------------------------------------
(* Streams opened in order are counted by the first that is not.           *)
LEMMA CountOpened ==
  ASSUME NEW q, NEW n \in 0 .. MaxStreams, \A i \in Id : q[i] # "idle" <=> i < n
  PROVE  Cardinality({i \in Id : q[i] # "idle"}) = n
<1> USE StreamsAssumption DEF StreamsAssumption
<1>1. {i \in Id : q[i] # "idle"} = 0 .. n - 1
  <2>1. \A i \in 0 .. n - 1 : i \in Id /\ i < n
    BY DEF Id
  <2>2. \A i \in Id : i < n => i \in 0 .. n - 1
    BY DEF Id
  <2> QED BY <2>1, <2>2
<1>2. Cardinality(0 .. n - 1) = n
  <2>1. Cardinality(0 .. n - 1) = IF 0 > n - 1 THEN 0 ELSE n - 1 - 0 + 1
    BY FS_Interval
  <2> QED BY <2>1
<1> QED BY <1>1, <1>2, Zenon

(* Making requests: n streams with a request, and one without after a      *)
(* refusal.                                                                *)
LEMMA MakeStreamsInv ==
  ASSUME BidiInv, NEW n \in Nat, NEW refused \in BOOLEAN,
         NEW m \in Nat, m = n + (IF refused THEN 1 ELSE 0),
         Opened + m <= MaxStreams, done + n <= NStreams,
         MakeStreams(n, refused)
  PROVE  /\ BidiInv'
         /\ Opened' = Opened + m
         /\ n = 0 => DOMAIN streams' = DOMAIN streams
<1> USE StreamsAssumption DEF StreamsAssumption
<1> DEFINE first == Opened
           fresh == first .. first + n - 1
<1>1. first \in Nat /\ done \in Nat /\ first + m \in 0 .. MaxStreams
  BY DEF BidiInv
<1>2. /\ quic' = [i \in Id |-> IF i \in fresh \/ (refused /\ i = first + n) THEN "open" ELSE quic[i]]
      /\ h3' = [i \in Id |-> IF i \in fresh THEN "open" ELSE h3[i]]
      /\ streams' = [i \in DOMAIN streams \cup fresh |->
                       IF i \in fresh THEN UriOf(done + i - first) ELSE streams[i]]
      /\ submitted' = submitted \o [k \in 1 .. n |-> done + k - 1]
      /\ done' = done + n
  BY DEF MakeStreams
<1> HIDE DEF first
<1>3. fresh \subseteq Id /\ (n = 0 => fresh = {})
  BY <1>1 DEF Id
<1>4. \A i \in Id : quic'[i] # "idle" <=> i < first + m
  <2> SUFFICES ASSUME NEW i \in Id
               PROVE  quic'[i] # "idle" <=> i < first + m
    OBVIOUS
  <2>1. i \in Nat /\ (quic[i] # "idle" <=> i < first)
    BY DEF BidiInv, Id, first
  <2>2. (i \in fresh \/ (refused /\ i = first + n)) <=> (first <= i /\ i < first + m)
    BY <2>1, <1>1
  <2>3. quic'[i] = IF i \in fresh \/ (refused /\ i = first + n) THEN "open" ELSE quic[i]
    BY <1>2
  <2> HIDE DEF fresh
  <2> QED BY <2>1, <2>2, <2>3, <1>1
<1>5. Opened' = first + m
  BY <1>4, <1>1, CountOpened DEF Opened
<1>6. quic' \in [Id -> {"idle", "open", "closed"}] /\ h3' \in [Id -> {"unknown", "open", "waiting", "gone"}]
  BY <1>2 DEF BidiInv
<1>7. /\ streams' = [i \in DOMAIN streams' |-> streams'[i]]
      /\ DOMAIN streams' = DOMAIN streams \cup fresh
  BY <1>2
<1>8. DOMAIN streams' = {i \in Id : h3'[i] \in {"open", "waiting"}}
  BY <1>7, <1>2, <1>3 DEF BidiInv
<1>9. \A i \in DOMAIN streams' : streams'[i] \in 0 .. NRequests - 1
  <2> SUFFICES ASSUME NEW i \in DOMAIN streams'
               PROVE  streams'[i] \in 0 .. NRequests - 1
    OBVIOUS
  <2>1. CASE i \in fresh
    <3>1. streams'[i] = UriOf(done + i - first) /\ done + i - first \in Nat
      BY <2>1, <1>1, <1>2, <1>7
    <3> QED BY <3>1 DEF UriOf
  <2>2. CASE i \notin fresh
    <3>1. i \in DOMAIN streams /\ streams'[i] = streams[i]
      BY <2>2, <1>2, <1>7
    <3> QED BY <3>1 DEF BidiInv
  <2> QED BY <2>1, <2>2
<1>10. done' \in 0 .. NStreams
  BY <1>1, <1>2
<1>11. submitted' \in Seq(Nat) /\ Len(submitted') = done'
       /\ \A k \in DOMAIN submitted' : submitted'[k] = k - 1
  <2> DEFINE new == [k \in 1 .. n |-> done + k - 1]
  <2>1. new \in Seq(Nat) /\ Len(new) = n /\ \A k \in 1 .. n : new[k] = done + k - 1
    BY <1>1
  <2>2. submitted \in Seq(Nat) /\ Len(submitted) = done /\ \A k \in 1 .. done : submitted[k] = k - 1
    BY <1>1 DEF BidiInv, RequestsOnce
  <2>3. submitted' = submitted \o new
    BY <1>2
  <2> HIDE DEF new
  <2>4. submitted' \in Seq(Nat) /\ Len(submitted') = done + n
    BY <2>1, <2>2, <2>3, ConcatProperties
  <2>5. \A k \in 1 .. done + n : submitted'[k] = IF k <= done THEN submitted[k] ELSE new[k - done]
    BY <2>1, <2>2, <2>3, ConcatProperties
  <2>6. ASSUME NEW k \in 1 .. done + n
        PROVE  submitted'[k] = k - 1
    <3>1. CASE k <= done
      BY <3>1, <2>5, <2>2, <1>1
    <3>2. CASE k > done
      <4>1. k - done \in 1 .. n
        BY <3>2, <1>1
      <4>2. submitted'[k] = new[k - done]
        BY <3>2, <2>5, <1>1
      <4> QED BY <4>1, <4>2, <2>1, <1>1
    <3> QED BY <3>1, <3>2, <1>1
  <2>7. DOMAIN submitted' = 1 .. done + n
    BY <2>4
  <2> QED BY <2>4, <2>6, <2>7, <1>2
<1>12. Opened' \in 0 .. MaxStreams /\ \A i \in Id : quic'[i] # "idle" <=> i < Opened'
  BY <1>1, <1>4, <1>5
<1>13. BidiInv'
  BY <1>6, <1>7, <1>8, <1>9, <1>10, <1>11, <1>12 DEF BidiInv, RequestsOnce
<1> QED BY <1>13, <1>5, <1>3, <1>7 DEF first

(* Nothing is opened or closed. *)
LEMMA BidiUnchanged ==
  ASSUME BidiInv, UNCHANGED bidi
  PROVE  /\ BidiInv' /\ Opened' = Opened /\ done' = done
         /\ DOMAIN streams' = DOMAIN streams /\ submitted' = submitted
  BY DEF BidiInv, bidi, Opened, RequestsOnce

(* on_extend_max_streams, in any step that leaves httpconn_ as it is.      *)
LEMMA OnExtendInv ==
  ASSUME BidiInv, NEW timer, NEW allowed \in 0 .. MaxStreams, Opened <= allowed,
         OnExtendMaxStreams(timer, allowed)
  PROVE  /\ BidiInv' /\ Opened' <= allowed
         /\ timer = "active" => submitted' = submitted
<1> USE StreamsAssumption DEF StreamsAssumption
<1> DEFINE room == Smaller(NStreams - done, allowed - Opened)
<1>1. /\ Opened \in Nat /\ done \in 0 .. NStreams
      /\ room \in Nat /\ Opened + room <= allowed /\ done + room <= NStreams
  BY DEF BidiInv, Smaller
<1>2. \/ timer = "active" /\ UNCHANGED bidi
      \/ timer # "active" /\ MakeStreams(room, FALSE)
      \/ timer # "active" /\ \E n \in 0 .. room - 1 : MakeStreams(n, TRUE)
  BY DEF OnExtendMaxStreams
<1> HIDE DEF room
<1>3. CASE UNCHANGED bidi
  BY <1>3, BidiUnchanged
<1>4. CASE timer # "active" /\ MakeStreams(room, FALSE)
  <2>1. room = room + (IF FALSE THEN 1 ELSE 0) /\ Opened + room <= MaxStreams
    BY <1>1
  <2>2. BidiInv' /\ Opened' = Opened + room
    BY <1>4, <1>1, <2>1, MakeStreamsInv
  <2> QED BY <2>2, <1>4, <1>1
<1>5. CASE timer # "active" /\ \E n \in 0 .. room - 1 : MakeStreams(n, TRUE)
  <2>1. PICK n \in 0 .. room - 1 : MakeStreams(n, TRUE)
    BY <1>5
  <2>2. /\ n \in Nat /\ n + 1 \in Nat /\ n + 1 = n + (IF TRUE THEN 1 ELSE 0)
        /\ Opened + (n + 1) <= MaxStreams /\ done + n <= NStreams /\ Opened + (n + 1) <= allowed
    BY <2>1, <1>1
  <2>3. BidiInv' /\ Opened' = Opened + (n + 1)
    BY <2>1, <2>2, MakeStreamsInv
  <2> QED BY <2>2, <2>3, <1>5
<1> QED BY <1>2, <1>3, <1>4, <1>5

(* make_stream_early, in Client::init.                                     *)
LEMMA MakeStreamEarlyInv ==
  ASSUME BidiInv, OtherTypes, Opened = 0, done = 0, DOMAIN streams = {}, MakeStreamEarly
  PROVE  /\ BidiInv' /\ http' \in BOOLEAN /\ Opened' <= ServerCredit
         /\ DOMAIN streams' # {} => http'
<1> USE StreamsAssumption DEF StreamsAssumption
<1>1. CASE UNCHANGED <<bidi, http>>
  <2>1. BidiInv' /\ Opened' = 0 /\ DOMAIN streams' = {}
    BY <1>1, BidiUnchanged DEF bidi
  <2> QED BY <2>1, <1>1 DEF OtherTypes
<1>2. CASE /\ NStreams > 0 /\ EarlyCredit > 0
           /\ SetupHttpconn(EarlyUni)
           /\ \E refused \in Refusals :
                IF EarlyUni /\ ~refused THEN MakeStreams(1, FALSE) ELSE MakeStreams(0, TRUE)
  <2>1. http' = EarlyUni /\ http' \in BOOLEAN /\ 1 <= ServerCredit
    BY <1>2 DEF SetupHttpconn
  <2>2. CASE EarlyUni /\ MakeStreams(1, FALSE)
    <3>1. /\ 1 \in Nat /\ 1 = 1 + (IF FALSE THEN 1 ELSE 0) /\ FALSE \in BOOLEAN
          /\ Opened + 1 <= MaxStreams /\ done + 1 <= NStreams
      BY <1>2
    <3>2. BidiInv' /\ Opened' = Opened + 1
      BY <2>2, <3>1, MakeStreamsInv
    <3> QED BY <3>2, <2>1, <2>2
  <2>3. CASE MakeStreams(0, TRUE)
    <3>1. /\ 0 \in Nat /\ 1 \in Nat /\ 1 = 0 + (IF TRUE THEN 1 ELSE 0) /\ TRUE \in BOOLEAN
          /\ Opened + 1 <= MaxStreams /\ done + 0 <= NStreams
      BY <1>2
    <3>2. BidiInv' /\ Opened' = Opened + 1 /\ DOMAIN streams' = DOMAIN streams
      BY <2>3, <3>1, MakeStreamsInv
    <3> QED BY <3>2, <2>1
  <2> QED BY <1>2, <2>2, <2>3
<1> QED BY <1>1, <1>2 DEF MakeStreamEarly

-----------------------------------------------------------------------------
(* UniCreditExact where no push stream changes.                            *)
LEMMA UniUnchanged ==
  ASSUME UniCreditExact, UNCHANGED <<push, uniCredit>>
  PROVE  UniCreditExact'
  BY DEF UniCreditExact

LEMMA StreamsInitInv == Init => StreamsInv
<1> USE StreamsAssumption DEF StreamsAssumption
<1> SUFFICES ASSUME Init PROVE StreamsInv
  OBVIOUS
<1>1. Opened = 0
  <2>1. {i \in Id : quic[i] # "idle"} = {}
    BY DEF Init
  <2> QED BY <2>1, FS_EmptySet DEF Opened
<1>2. BidiInv
  <2>1. \A i \in Id : quic[i] # "idle" <=> i < Opened
    BY <1>1 DEF Init, Id
  <2>2. streams = [i \in DOMAIN streams |-> streams[i]] /\ DOMAIN streams = {}
    BY DEF Init
  <2>3. DOMAIN streams = {i \in Id : h3[i] \in {"open", "waiting"}}
    BY <2>2 DEF Init
  <2>4. submitted \in Seq(Nat) /\ RequestsOnce /\ done \in 0 .. NStreams
    BY DEF Init, RequestsOnce
  <2> QED BY <1>1, <2>1, <2>2, <2>3, <2>4 DEF Init, BidiInv
<1>3. OtherTypes
  <2>1. http \in BOOLEAN /\ exit \in BOOLEAN /\ early \in BOOLEAN /\ told \in BOOLEAN
    BY Zenon DEF Init
  <2>2. credit \in 0 .. MaxStreams /\ uniCredit \in Nat
    BY DEF Init
  <2> QED BY <2>1, <2>2 DEF Init, OtherTypes
<1>5. StageInv
  <2>1. DOMAIN streams = {}
    BY DEF Init
  <2> QED BY <1>1, <2>1 DEF Init, StageInv
<1>4. UniCreditExact
  <2>1. {p \in Push : push[p] = "closed"} = {}
    BY DEF Init
  <2> QED BY <2>1, FS_EmptySet DEF Init, UniCreditExact
<1> QED BY <1>2, <1>3, <1>4, <1>5 DEF StreamsInv

LEMMA StartInv == StreamsInv /\ Start => StreamsInv'
<1> SUFFICES ASSUME StreamsInv, Start PROVE StreamsInv'
  OBVIOUS
<1> USE StreamsAssumption DEF StreamsAssumption
<1>1. /\ phase = "start" /\ phase' = "handshake" /\ early' \in BOOLEAN
      /\ UNCHANGED <<credit, delay, exit, told, push, uniCredit>>
  BY DEF Start, StreamsInv, OtherTypes
<1>2. Opened = 0 /\ done = 0 /\ DOMAIN streams = {} /\ BidiInv /\ OtherTypes /\ UniCreditExact
  BY <1>1 DEF StreamsInv, StageInv
<1>3. /\ BidiInv' /\ http' \in BOOLEAN /\ Opened' <= ServerCredit
      /\ DOMAIN streams' # {} => http'
  <2>1. CASE MakeStreamEarly
    BY <2>1, <1>2, MakeStreamEarlyInv
  <2>2. CASE UNCHANGED <<bidi, http>>
    <3>1. BidiInv' /\ Opened' = 0 /\ DOMAIN streams' = {}
      BY <2>2, <1>2, BidiUnchanged DEF bidi
    <3> QED BY <3>1, <2>2, <1>2 DEF OtherTypes
  <2> QED BY <2>1, <2>2 DEF Start
<1>4. OtherTypes'
  BY <1>1, <1>2, <1>3 DEF OtherTypes
<1>5. StageInv'
  BY <1>1, <1>3, <1>2 DEF StageInv, StreamsInv
<1> QED BY <1>1, <1>2, <1>3, <1>4, <1>5, UniUnchanged DEF StreamsInv

LEMMA OnKeyInv == StreamsInv /\ OnKey => StreamsInv'
<1> SUFFICES ASSUME StreamsInv, OnKey PROVE StreamsInv'
  OBVIOUS
<1>1. /\ phase = "handshake" /\ http' \in BOOLEAN /\ (http => http')
      /\ phase' = (IF http' THEN "keyed" ELSE "failed")
      /\ UNCHANGED bidi /\ UNCHANGED <<credit, delay, exit, early, told, push, uniCredit>>
  BY DEF OnKey, SetupHttpconn
<1>2. BidiInv' /\ Opened' = Opened /\ DOMAIN streams' = DOMAIN streams
  BY <1>1, BidiUnchanged DEF StreamsInv
<1>3. OtherTypes'
  BY <1>1 DEF OtherTypes, StreamsInv
<1>4. StageInv'
  BY <1>1, <1>2 DEF StageInv, StreamsInv
<1> QED BY <1>1, <1>2, <1>3, <1>4, UniUnchanged DEF StreamsInv

(* Handshake, DelayStreamCb and ExtendMaxStreams end with the requests     *)
(* that have become possible.                                              *)
LEMMA RequestsInv ==
  ASSUME StreamsInv, NEW allowed \in 0 .. MaxStreams, Opened <= allowed,
         phase' = "open", credit' = allowed, http,
         delay' \in {"off", "active"},
         OnExtendMaxStreams(delay', allowed) \/ UNCHANGED bidi,
         UNCHANGED <<http, exit, early, told, push, uniCredit>>
  PROVE  StreamsInv'
<1> USE StreamsAssumption DEF StreamsAssumption
<1>1. BidiInv' /\ Opened' <= allowed
  BY OnExtendInv, BidiUnchanged DEF StreamsInv
<1>2. OtherTypes'
  BY DEF OtherTypes, StreamsInv
<1>3. StageInv'
  BY <1>1 DEF StageInv, StreamsInv
<1> QED BY <1>1, <1>2, <1>3, UniUnchanged DEF StreamsInv

LEMMA HandshakeInv == StreamsInv /\ Handshake => StreamsInv'
<1> SUFFICES ASSUME StreamsInv, Handshake PROVE StreamsInv'
  OBVIOUS
<1> USE StreamsAssumption DEF StreamsAssumption
<1>1. /\ phase = "keyed" /\ phase' = "open" /\ credit' = ServerCredit
      /\ delay' \in {"off", "active"}
      /\ OnExtendMaxStreams(delay', ServerCredit) \/ UNCHANGED bidi
      /\ UNCHANGED <<http, exit, early, told, push, uniCredit>>
  BY DEF Handshake
<1>2. Opened <= ServerCredit /\ http /\ ServerCredit \in 0 .. MaxStreams
  BY <1>1 DEF StreamsInv, StageInv
<1> QED BY <1>1, <1>2, RequestsInv

LEMMA DelayStreamCbInv == StreamsInv /\ DelayStreamCb => StreamsInv'
<1> SUFFICES ASSUME StreamsInv, DelayStreamCb PROVE StreamsInv'
  OBVIOUS
<1>1. /\ phase = "open" /\ phase' = "open" /\ credit' = credit
      /\ delay' \in {"off", "active"}
      /\ OnExtendMaxStreams(delay', credit)
      /\ UNCHANGED <<http, exit, early, told, push, uniCredit>>
  BY DEF DelayStreamCb
<1>2. Opened <= credit /\ http /\ credit \in 0 .. MaxStreams
  BY <1>1 DEF StreamsInv, StageInv, OtherTypes
<1> QED BY <1>1, <1>2, RequestsInv

LEMMA ExtendMaxStreamsInv == StreamsInv /\ ExtendMaxStreams => StreamsInv'
<1> SUFFICES ASSUME StreamsInv, ExtendMaxStreams PROVE StreamsInv'
  OBVIOUS
<1> USE StreamsAssumption DEF StreamsAssumption
<1>1. /\ phase = "open" /\ phase' = "open" /\ credit < MaxStreams /\ credit' = credit + 1
      /\ delay' = delay /\ OnExtendMaxStreams(delay, credit')
      /\ UNCHANGED <<http, exit, early, told, push, uniCredit>>
  BY DEF ExtendMaxStreams
<1>2. /\ Opened <= credit /\ http /\ credit \in 0 .. MaxStreams /\ delay \in {"off", "active"}
      /\ Opened \in Nat
  BY <1>1 DEF StreamsInv, StageInv, OtherTypes, BidiInv
<1>3. credit + 1 \in 0 .. MaxStreams /\ Opened <= credit + 1
  BY <1>1, <1>2
<1> QED BY <1>1, <1>2, <1>3, RequestsInv

LEMMA HandshakeRejectedInv == StreamsInv /\ HandshakeRejected => StreamsInv'
<1> SUFFICES ASSUME StreamsInv, HandshakeRejected PROVE StreamsInv'
  OBVIOUS
<1> USE StreamsAssumption DEF StreamsAssumption
<1>1. /\ phase = "keyed" /\ phase' = "rejected" /\ told' \in BOOLEAN
      /\ UNCHANGED bidi /\ UNCHANGED <<http, credit, delay, exit, early, push, uniCredit>>
  BY DEF HandshakeRejected
<1>2. BidiInv' /\ Opened' = Opened /\ DOMAIN streams' = DOMAIN streams
  BY <1>1, BidiUnchanged DEF StreamsInv
<1>3. OtherTypes'
  BY <1>1 DEF OtherTypes, StreamsInv
<1>4. StageInv'
  BY <1>1, <1>2 DEF StageInv, StreamsInv
<1> QED BY <1>1, <1>2, <1>3, <1>4, UniUnchanged DEF StreamsInv

(* A stream ends: its entry goes with nghttp3's.                           *)
LEMMA EndsInv ==
  ASSUME StreamsInv, NEW i \in Id, h3[i] \in {"open", "waiting"},
         quic' = quic \/ (quic[i] # "idle" /\ quic' = [quic EXCEPT ![i] = "closed"]),
         \/ /\ h3' = [h3 EXCEPT ![i] = "gone"]
            /\ streams' = [k \in DOMAIN streams \ {i} |-> streams[k]]
         \/ h3' = [h3 EXCEPT ![i] = "waiting"] /\ streams' = streams,
         exit' \in BOOLEAN, done' = done, submitted' = submitted,
         UNCHANGED <<phase, http, credit, delay, early, told, push, uniCredit>>
  PROVE  StreamsInv'
<1>1. BidiInv
  BY DEF StreamsInv
<1>2. /\ quic' \in [Id -> {"idle", "open", "closed"}]
      /\ h3' \in [Id -> {"unknown", "open", "waiting", "gone"}]
      /\ \A k \in Id : quic'[k] # "idle" <=> quic[k] # "idle"
  BY <1>1 DEF BidiInv
<1>3. Opened' = Opened
  <2>1. {k \in Id : quic'[k] # "idle"} = {k \in Id : quic[k] # "idle"}
    BY <1>2
  <2> QED BY <2>1 DEF Opened
<1>4. /\ streams' = [k \in DOMAIN streams' |-> streams'[k]]
      /\ DOMAIN streams' \subseteq DOMAIN streams
      /\ \A k \in DOMAIN streams' : streams'[k] = streams[k]
  BY <1>1 DEF BidiInv
<1>5. DOMAIN streams' = {k \in Id : h3'[k] \in {"open", "waiting"}}
  <2>1. CASE /\ h3' = [h3 EXCEPT ![i] = "gone"]
             /\ streams' = [k \in DOMAIN streams \ {i} |-> streams[k]]
    <3>1. DOMAIN streams' = DOMAIN streams \ {i}
      BY <2>1
    <3> QED BY <3>1, <2>1, <1>1 DEF BidiInv
  <2>2. CASE h3' = [h3 EXCEPT ![i] = "waiting"] /\ streams' = streams
    BY <2>2, <1>1 DEF BidiInv
  <2> QED BY <2>1, <2>2
<1>6. BidiInv'
  BY <1>1, <1>2, <1>3, <1>4, <1>5 DEF BidiInv, RequestsOnce
<1>7. OtherTypes'
  <2>1. OtherTypes
    BY DEF StreamsInv
  <2> QED BY <2>1 DEF OtherTypes
<1>8. StageInv'
  <2>1. StageInv
    BY DEF StreamsInv
  <2> QED BY <1>3, <1>4, <2>1 DEF StageInv
<1> QED BY <1>6, <1>7, <1>8, UniUnchanged DEF StreamsInv

LEMMA OnStreamCloseInv ==
  ASSUME StreamsInv, NEW i \in Id, OnStreamClose(i)
  PROVE  StreamsInv'
<1>1. exit \in BOOLEAN /\ ExitOnFirst \in BOOLEAN
  BY StreamsAssumption DEF StreamsAssumption, StreamsInv, OtherTypes
<1>2. /\ quic[i] = "open" /\ h3[i] = "open" /\ quic' = [quic EXCEPT ![i] = "closed"]
      /\ done' = done /\ submitted' = submitted
      /\ UNCHANGED <<phase, http, credit, delay, early, told, push, uniCredit>>
  BY DEF OnStreamClose
<1>3. /\ exit' \in BOOLEAN
      /\ \/ /\ h3' = [h3 EXCEPT ![i] = "gone"]
            /\ streams' = [k \in DOMAIN streams \ {i} |-> streams[k]]
         \/ h3' = [h3 EXCEPT ![i] = "waiting"] /\ streams' = streams
  BY <1>1 DEF OnStreamClose, HttpStreamClose
<1> QED BY <1>2, <1>3, EndsInv

LEMMA WaitingDoneInv ==
  ASSUME StreamsInv, NEW i \in Id, WaitingDone(i)
  PROVE  StreamsInv'
<1>1. exit \in BOOLEAN /\ ExitOnFirst \in BOOLEAN
  BY StreamsAssumption DEF StreamsAssumption, StreamsInv, OtherTypes
<1>2. /\ h3[i] = "waiting" /\ h3' = [h3 EXCEPT ![i] = "gone"] /\ quic' = quic
      /\ streams' = [k \in DOMAIN streams \ {i} |-> streams[k]] /\ exit' \in BOOLEAN
      /\ done' = done /\ submitted' = submitted
      /\ UNCHANGED <<phase, http, credit, delay, early, told, push, uniCredit>>
  BY <1>1 DEF WaitingDone, HttpStreamClose
<1> QED BY <1>2, EndsInv

LEMMA PushInv ==
  ASSUME StreamsInv, NEW p \in Push, PushOpens(p) \/ PushCloses(p)
  PROVE  StreamsInv'
<1> USE StreamsAssumption DEF StreamsAssumption
<1> DEFINE Closed == {r \in Push : push[r] = "closed"}
<1>1. /\ UNCHANGED <<phase, bidi, http, credit, delay, early, told>>
      /\ exit' \in BOOLEAN
      /\ \/ /\ \E s \in {"unread", "read", "waiting"} : push' = [push EXCEPT ![p] = s]
            /\ uniCredit' = uniCredit
         \/ push' = [push EXCEPT ![p] = "closed"] /\ uniCredit' = uniCredit + 1
      /\ push[p] # "closed"
  <2>1. exit \in BOOLEAN
    BY DEF StreamsInv, OtherTypes
  <2> QED BY <2>1 DEF PushOpens, PushCloses
<1>2. BidiInv' /\ Opened' = Opened /\ DOMAIN streams' = DOMAIN streams
  BY <1>1, BidiUnchanged DEF StreamsInv
<1>3. push \in [Push -> {"idle", "unread", "read", "waiting", "closed"}] /\ uniCredit \in Nat
      /\ uniCredit = Cardinality(Closed)
  BY DEF StreamsInv, OtherTypes, UniCreditExact
<1>4. push' \in [Push -> {"idle", "unread", "read", "waiting", "closed"}] /\ uniCredit' \in Nat
  BY <1>1, <1>3
<1>5. OtherTypes'
  BY <1>1, <1>4 DEF OtherTypes, StreamsInv
<1>6. StageInv'
  BY <1>1, <1>2 DEF StageInv, StreamsInv, bidi
<1>7. UniCreditExact'
  <2>1. CASE /\ \E s \in {"unread", "read", "waiting"} : push' = [push EXCEPT ![p] = s]
             /\ uniCredit' = uniCredit
    <3>1. Closed' = Closed
      BY <2>1, <1>1, <1>3
    <3> QED BY <3>1, <2>1, <1>3 DEF UniCreditExact
  <2>2. CASE push' = [push EXCEPT ![p] = "closed"] /\ uniCredit' = uniCredit + 1
    <3>1. Closed' = Closed \cup {p} /\ p \notin Closed
      BY <2>2, <1>1, <1>3
    <3>2. IsFiniteSet(Closed)
      BY FS_Subset
    <3>3. Cardinality(Closed \cup {p}) = Cardinality(Closed) + 1
      BY <3>1, <3>2, FS_AddElement
    <3>4. uniCredit' = Cardinality(Closed')
      BY <3>1, <3>3, <2>2, <1>3
    <3> QED BY <3>4 DEF UniCreditExact
  <2> QED BY <1>1, <2>1, <2>2
<1> QED BY <1>2, <1>5, <1>6, <1>7 DEF StreamsInv

LEMMA StreamsNextInv == StreamsInv /\ [Next]_vars => StreamsInv'
<1> SUFFICES ASSUME StreamsInv, [Next]_vars PROVE StreamsInv'
  OBVIOUS
<1>1. CASE UNCHANGED vars
  <2>1. BidiInv' /\ Opened' = Opened /\ DOMAIN streams' = DOMAIN streams
    BY <1>1, BidiUnchanged DEF StreamsInv, vars
  <2>2. UNCHANGED <<phase, http, credit, delay, exit, early, told, push, uniCredit>>
    BY <1>1 DEF vars
  <2>3. OtherTypes'
    <3>1. OtherTypes
      BY DEF StreamsInv
    <3> QED BY <2>2, <3>1 DEF OtherTypes
  <2>4. StageInv'
    <3>1. StageInv /\ done' = done
      BY <1>1 DEF StreamsInv, vars, bidi
    <3> QED BY <2>1, <2>2, <3>1 DEF StageInv
  <2> QED BY <2>1, <2>2, <2>3, <2>4, UniUnchanged DEF StreamsInv
<1>2. CASE \E i \in Id : OnStreamClose(i) \/ WaitingDone(i)
  BY <1>2, OnStreamCloseInv, WaitingDoneInv
<1>3. CASE \E p \in Push : PushOpens(p) \/ PushCloses(p)
  BY <1>3, PushInv
<1> QED
  BY <1>1, <1>2, <1>3, StartInv, OnKeyInv, HandshakeInv, HandshakeRejectedInv,
     DelayStreamCbInv, ExtendMaxStreamsInv DEF Next

LEMMA StreamsInvariant == Spec => []StreamsInv
  BY StreamsInitInv, StreamsNextInv, PTL DEF Spec

-----------------------------------------------------------------------------
(* TypeOK of ClientStreams: the types, and streams are opened in order.    *)
THEOREM ClientTypes == Spec => []TypeOK
<1>1. StreamsInv => TypeOK
  <2> SUFFICES ASSUME StreamsInv PROVE TypeOK
    OBVIOUS
  <2>1. \A i, k \in Id : i < k /\ quic[k] # "idle" => quic[i] # "idle"
    <3>1. \A i \in Id : i \in Nat
      BY DEF Id
    <3>2. Opened \in Nat /\ \A i \in Id : quic[i] # "idle" <=> i < Opened
      BY DEF StreamsInv, BidiInv
    <3> QED BY <3>1, <3>2
  <2>2. DOMAIN streams \subseteq Id
    BY DEF StreamsInv, BidiInv
  <2> QED BY <2>1, <2>2 DEF StreamsInv, BidiInv, OtherTypes, TypeOK
<1> QED BY <1>1, StreamsInvariant, PTL

(* RequestsOnce of ClientStreams: the requests are made once each and in   *)
(* the order of the command line, by whichever of the four callers of      *)
(* make_stream_early and on_extend_max_streams comes first.                *)
THEOREM RequestsAreSingle == Spec => []RequestsOnce
<1>1. StreamsInv => RequestsOnce
  BY DEF StreamsInv, BidiInv
<1> QED BY <1>1, StreamsInvariant, PTL

(* EntriesFollowHttp3 of ClientStreams: streams_ has an entry for a        *)
(* request exactly as long as nghttp3 may call back about it, and there is *)
(* a httpconn_ then.                                                       *)
THEOREM EntriesFollow == Spec => []EntriesFollowHttp3
<1>1. StreamsInv => EntriesFollowHttp3
  <2> SUFFICES ASSUME StreamsInv PROVE EntriesFollowHttp3
    OBVIOUS
  <2>1. DOMAIN streams = {i \in Id : h3[i] \in {"open", "waiting"}}
        /\ streams = [i \in DOMAIN streams |-> streams[i]]
        /\ (DOMAIN streams # {} => http)
    BY DEF StreamsInv, BidiInv, StageInv
  <2>2. DOMAIN streams = {} => streams = << >>
    BY <2>1
  <2> QED BY <2>1, <2>2 DEF EntriesFollowHttp3
<1> QED BY <1>1, StreamsInvariant, PTL

(* UniCreditExact of ClientStreams: a push stream's credit is returned     *)
(* exactly once, at its end, by on_stream_close or http_stream_close.      *)
THEOREM UniCreditIsExact == Spec => []UniCreditExact
<1>1. StreamsInv => UniCreditExact
  BY DEF StreamsInv
<1> QED BY <1>1, StreamsInvariant, PTL

(* NothingInDelay of ClientStreams: from the end of the handshake to the   *)
(* end of --delay-stream, neither credit nor a callback makes a request.   *)
THEOREM DelayIsKept == Spec => NothingInDelay
<1>1. StreamsInv /\ [Next]_vars => [delay' = "active" => submitted' = submitted]_vars
  <2> SUFFICES ASSUME StreamsInv, Next, delay' = "active"
               PROVE  submitted' = submitted
    OBVIOUS
  <2>1. CASE Start
    <3>1. phase = "start" /\ delay' = delay
      BY <2>1 DEF Start
    <3> QED BY <3>1 DEF StreamsInv, StageInv
  <2>2. CASE OnKey \/ HandshakeRejected
    BY <2>2 DEF OnKey, HandshakeRejected, bidi
  <2>3. CASE Handshake \/ DelayStreamCb \/ ExtendMaxStreams
    <3>1. OnExtendMaxStreams(delay', credit') \/ UNCHANGED bidi
      BY <2>3 DEF Handshake, DelayStreamCb, ExtendMaxStreams
    <3> QED BY <3>1 DEF OnExtendMaxStreams, bidi
  <2>4. CASE \E i \in Id : OnStreamClose(i) \/ WaitingDone(i)
    BY <2>4 DEF OnStreamClose, WaitingDone
  <2>5. CASE \E p \in Push : PushOpens(p) \/ PushCloses(p)
    BY <2>5 DEF PushOpens, PushCloses, bidi
  <2> QED BY <2>1, <2>2, <2>3, <2>4, <2>5 DEF Next
<1> QED BY <1>1, StreamsInvariant, PTL DEF Spec, NothingInDelay
=============================================================================
