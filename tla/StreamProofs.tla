---------------------------- MODULE StreamProofs -----------------------------
(***************************************************************************)
(* Proofs about the parts that pass data on in pieces: CRYPTO data to      *)
(* ngtcp2, a file over TCP, and packets and frames through the transcoder. *)
(***************************************************************************)
EXTENDS CryptoBuffer, TcpFile, Transcoder, FiniteSetTheorems, WellFoundedInduction, TLAPS

-----------------------------------------------------------------------------
(***************************************************************************)
(* Induction.  The induction theorem of NaturalsInduction takes an operator;*)
(* this one takes a set, and follows from the well-foundedness of the      *)
(* subsets of a finite set.                                                *)
(***************************************************************************)

LEMMA NatSetInduction ==
  ASSUME NEW T, 0 \in T, \A n \in Nat : n \in T => n + 1 \in T
  PROVE  \A n \in Nat : n \in T
<1> SUFFICES ASSUME Nat \ T # {} PROVE FALSE
  OBVIOUS
<1> DEFINE Below == {0 .. m : m \in Nat \ T}
<1>1. Below \subseteq FiniteSubsetsOf(Nat) /\ Below # {}
  <2>1. ASSUME NEW m \in Nat \ T PROVE 0 .. m \in FiniteSubsetsOf(Nat)
    <3>1. IsFiniteSet(0 .. m)
      BY FS_Interval
    <3>2. 0 .. m \in SUBSET Nat
      OBVIOUS
    <3> QED BY <3>1, <3>2 DEF FiniteSubsetsOf
  <2> QED BY <2>1
<1>2. IsWellFoundedOn(StrictSubsetOrdering(Nat), FiniteSubsetsOf(Nat))
  BY FS_StrictSubsetOrderingWellFounded
<1>3. \E S \in Below : \A R \in Below : ~ (<<R, S>> \in StrictSubsetOrdering(Nat))
  <2> HIDE DEF Below
  <2> QED BY <1>1, <1>2, WFMin
<1>4. PICK x \in Nat \ T : \A R \in Below : ~ (<<R, 0 .. x>> \in StrictSubsetOrdering(Nat))
  BY <1>3
<1>5. x - 1 \in Nat \ T
  BY x # 0
<1>6. 0 .. (x - 1) \in Below
  BY <1>5
<1>7. <<0 .. (x - 1), 0 .. x>> \in StrictSubsetOrdering(Nat)
  <2>1. 0 .. (x - 1) \subseteq 0 .. x /\ x \in 0 .. x /\ x \notin 0 .. (x - 1)
    OBVIOUS
  <2>2. 0 .. (x - 1) \in SUBSET Nat /\ 0 .. x \in SUBSET Nat
    OBVIOUS
  <2> QED BY <2>1, <2>2 DEF StrictSubsetOrdering
<1> QED BY <1>4, <1>6, <1>7

LEMMA Greatest ==
  ASSUME NEW S \in SUBSET Nat, S # {}, NEW b \in Nat, \A s \in S : s <= b
  PROVE  \E m \in S : \A s \in S : s <= m
<1> SUFFICES ASSUME \A m \in S : \E s \in S : s > m PROVE FALSE
  OBVIOUS
<1> DEFINE T == {k \in Nat : \A s \in S : s + k <= b}
<1>1. 0 \in T
  OBVIOUS
<1>2. ASSUME NEW k \in Nat, k \in T PROVE k + 1 \in T
  BY <1>2
<1>3. \A k \in Nat : k \in T
  <2> HIDE DEF T
  <2> QED BY <1>1, <1>2, NatSetInduction
<1>4. PICK s \in S : TRUE
  OBVIOUS
<1>5. s + (b + 1) <= b
  BY <1>3, <1>4
<1> QED BY <1>4, <1>5

-----------------------------------------------------------------------------
(* CryptoBuffer: CRYPTO data outlives the bytes ngtcp2 may read, for any     *)
(* levels, sizes of buffers and cuts into packets.                           *)

Buffer == [offset : Nat, size : Nat \ {0}]

\* Buffers d hold the bytes from first up to end, one after the other.
Holds(d, first, end) ==
  /\ d = <<>> => first = end
  /\ d # <<>> => d[1].offset = first /\ d[Len(d)].offset + d[Len(d)].size = end
  /\ \A i \in 1 .. Len(d) : d[i].offset + d[i].size <= end
  /\ \A i, j \in 1 .. Len(d) : i < j => d[i].offset + d[i].size <= d[j].offset
  /\ \A i \in 1 .. Len(d) - 1 : d[i + 1].offset = d[i].offset + d[i].size
  /\ \A byte \in first .. end - 1 : \E i \in 1 .. Len(d) : byte \in Bytes(d[i])

CryptoTypes ==
  /\ crypto_data \in [Levels -> Seq(Buffer)]
  /\ acked_offset \in [Levels -> Nat]
  /\ submitted \in [Levels -> Nat]
  /\ acked \in [Levels -> Nat]
  /\ target \in [Levels -> Nat \cup {-1}]

CryptoInv ==
  /\ CryptoTypes
  /\ \A l \in Levels :
       /\ Holds(crypto_data[l], acked_offset[l], submitted[l])
       /\ acked_offset[l] <= acked[l] /\ acked[l] <= submitted[l]
       /\ target[l] \in {-1, acked[l]}
       /\ target[l] = -1 /\ crypto_data[l] # <<>> =>
            acked_offset[l] + crypto_data[l][1].size > acked[l]

(* A buffer behind the others holds the next bytes. *)
LEMMA AppendHolds ==
  ASSUME NEW d \in Seq(Buffer), NEW first \in Nat, NEW end \in Nat, first <= end,
         Holds(d, first, end), NEW len \in Nat \ {0}
  PROVE  Holds(Append(d, [offset |-> end, size |-> len]), first, end + len)
<1> DEFINE b == [offset |-> end, size |-> len]
           e == Append(d, b)
<1>1. /\ b \in Buffer /\ e \in Seq(Buffer) /\ Len(e) = Len(d) + 1 /\ Len(d) \in Nat
      /\ e[Len(d) + 1] = b /\ \A i \in 1 .. Len(d) : e[i] = d[i]
      /\ b.offset = end /\ b.size = len
  BY DEF Buffer
<1>2. \A i \in 1 .. Len(d) : d[i].offset \in Nat /\ d[i].size \in Nat \ {0}
  <2>1. \A i \in 1 .. Len(d) : d[i] \in Buffer
    OBVIOUS
  <2> QED BY <2>1 DEF Buffer
<1> HIDE DEF b, e
<1>3. e # <<>>
  BY <1>1
<1>4. e[1].offset = first /\ e[Len(e)].offset + e[Len(e)].size = end + len
  <2>1. CASE d = <<>>
    BY <2>1, <1>1 DEF Holds
  <2>2. CASE d # <<>>
    <3>1. Len(d) >= 1
      BY <2>2, <1>1
    <3> QED BY <3>1, <2>2, <1>1 DEF Holds
  <2> QED BY <2>1, <2>2
<1>5. \A i \in 1 .. Len(e) : e[i].offset + e[i].size <= end + len
  BY <1>1, <1>2 DEF Holds
<1>6. \A i, j \in 1 .. Len(e) : i < j => e[i].offset + e[i].size <= e[j].offset
  <2> SUFFICES ASSUME NEW i \in 1 .. Len(e), NEW j \in 1 .. Len(e), i < j
               PROVE  e[i].offset + e[i].size <= e[j].offset
    OBVIOUS
  <2>1. i \in 1 .. Len(d) /\ e[i] = d[i]
    BY <1>1
  <2>2. CASE j = Len(d) + 1
    BY <2>1, <2>2, <1>1 DEF Holds
  <2>3. CASE j # Len(d) + 1
    <3>1. j \in 1 .. Len(d) /\ e[j] = d[j]
      BY <2>3, <1>1
    <3> QED BY <3>1, <2>1 DEF Holds
  <2> QED BY <2>2, <2>3
<1>7. \A i \in 1 .. Len(e) - 1 : e[i + 1].offset = e[i].offset + e[i].size
  <2> SUFFICES ASSUME NEW i \in 1 .. Len(e) - 1
               PROVE  e[i + 1].offset = e[i].offset + e[i].size
    OBVIOUS
  <2>1. CASE i = Len(d)
    BY <2>1, <1>1 DEF Holds
  <2>2. CASE i # Len(d)
    <3>1. i \in 1 .. Len(d) - 1 /\ i + 1 \in 1 .. Len(d)
      BY <2>2, <1>1
    <3> QED BY <3>1, <1>1 DEF Holds
  <2> QED BY <2>1, <2>2
<1>8. \A byte \in first .. end + len - 1 : \E i \in 1 .. Len(e) : byte \in Bytes(e[i])
  <2> SUFFICES ASSUME NEW byte \in first .. end + len - 1
               PROVE  \E i \in 1 .. Len(e) : byte \in Bytes(e[i])
    OBVIOUS
  <2>1. CASE byte < end
    <3>1. PICK i \in 1 .. Len(d) : byte \in Bytes(d[i])
      BY <2>1 DEF Holds
    <3> QED BY <3>1, <1>1
  <2>2. CASE byte >= end
    <3>1. byte \in Bytes(e[Len(e)])
      BY <2>2, <1>1 DEF Bytes
    <3> QED BY <3>1, <1>1
  <2> QED BY <2>1, <2>2
<1>9. Holds(e, first, end + len)
  BY <1>3, <1>4, <1>5, <1>6, <1>7, <1>8 DEF Holds
<1> QED BY <1>9 DEF e, b

(* Without the first buffer the rest holds the rest. *)
LEMMA TailHolds ==
  ASSUME NEW d \in Seq(Buffer), NEW first \in Nat, NEW end \in Nat,
         Holds(d, first, end), d # <<>>
  PROVE  /\ Holds(Tail(d), first + d[1].size, end)
         /\ first + d[1].size <= end
         /\ first + d[1].size \in Nat
<1> DEFINE e == Tail(d)
           next == first + d[1].size
<1>1. /\ e \in Seq(Buffer) /\ Len(e) = Len(d) - 1 /\ Len(d) \in Nat /\ Len(d) >= 1
      /\ \A i \in 1 .. Len(e) : e[i] = d[i + 1]
  OBVIOUS
<1>2. \A i \in 1 .. Len(d) : d[i].offset \in Nat /\ d[i].size \in Nat \ {0}
  <2>1. \A i \in 1 .. Len(d) : d[i] \in Buffer
    OBVIOUS
  <2> QED BY <2>1 DEF Buffer
<1>3. next \in Nat /\ next = d[1].offset + d[1].size /\ next <= end
  BY <1>1, <1>2 DEF Holds
<1> HIDE DEF e, next
<1>4. e = <<>> => next = end
  <2>1. e = <<>> => Len(d) = 1
    BY <1>1
  <2> QED BY <2>1, <1>1, <1>3 DEF Holds
<1>5. e # <<>> => e[1].offset = next /\ e[Len(e)].offset + e[Len(e)].size = end
  <2> SUFFICES ASSUME e # <<>>
               PROVE  e[1].offset = next /\ e[Len(e)].offset + e[Len(e)].size = end
    OBVIOUS
  <2>1. Len(e) >= 1
    BY <1>1
  <2>2. e[1] = d[2] /\ e[Len(e)] = d[Len(d)] /\ 1 \in 1 .. Len(d) - 1
    BY <2>1, <1>1
  <2>3. d[1 + 1].offset = d[1].offset + d[1].size
    BY <2>2 DEF Holds
  <2> QED BY <2>2, <2>3, <1>3, <1>1 DEF Holds
<1>6. \A i \in 1 .. Len(e) : e[i].offset + e[i].size <= end
  <2>1. \A i \in 1 .. Len(e) : i + 1 \in 1 .. Len(d) /\ e[i] = d[i + 1]
    BY <1>1
  <2> QED BY <2>1 DEF Holds
<1>7. \A i, j \in 1 .. Len(e) : i < j => e[i].offset + e[i].size <= e[j].offset
  <2> SUFFICES ASSUME NEW i \in 1 .. Len(e), NEW j \in 1 .. Len(e), i < j
               PROVE  e[i].offset + e[i].size <= e[j].offset
    OBVIOUS
  <2>1. /\ i + 1 \in 1 .. Len(d) /\ j + 1 \in 1 .. Len(d) /\ i + 1 < j + 1
        /\ e[i] = d[i + 1] /\ e[j] = d[j + 1]
    BY <1>1, <1>2
  <2> QED BY <2>1 DEF Holds
<1>8. \A i \in 1 .. Len(e) - 1 : e[i + 1].offset = e[i].offset + e[i].size
  <2> SUFFICES ASSUME NEW i \in 1 .. Len(e) - 1
               PROVE  e[i + 1].offset = e[i].offset + e[i].size
    OBVIOUS
  <2>1. e[i + 1] = d[i + 1 + 1] /\ e[i] = d[i + 1] /\ i + 1 \in 1 .. Len(d) - 1
    BY <1>1
  <2> QED BY <2>1 DEF Holds
<1>9. \A byte \in next .. end - 1 : \E i \in 1 .. Len(e) : byte \in Bytes(e[i])
  <2> SUFFICES ASSUME NEW byte \in next .. end - 1
               PROVE  \E i \in 1 .. Len(e) : byte \in Bytes(e[i])
    OBVIOUS
  <2>0. byte \in first .. end - 1
    BY <1>3, <1>2, <1>1 DEF next
  <2>1. PICK i \in 1 .. Len(d) : byte \in Bytes(d[i])
    BY <2>0 DEF Holds
  <2>2. i # 1
    BY <2>1, <1>3, <1>2, <1>1 DEF Bytes
  <2>3. i - 1 \in 1 .. Len(e) /\ e[i - 1] = d[i - 1 + 1] /\ i - 1 + 1 = i
    BY <2>2, <1>1
  <2> QED BY <2>1, <2>3
<1>10. Holds(e, next, end)
  BY <1>4, <1>5, <1>6, <1>7, <1>8, <1>9 DEF Holds
<1> QED BY <1>10, <1>3 DEF e, next

-----------------------------------------------------------------------------
LEMMA CryptoInitInv == CryptoInit => CryptoInv
  BY DEF CryptoInit, CryptoInv, CryptoTypes, Holds, Buffer

LEMMA WriteHandshakeInv ==
  ASSUME CryptoInv, NEW l \in Levels, NEW len \in 1 .. MaxCrypto, WriteHandshake(l, len)
  PROVE  CryptoInv'
<1> USE CryptoAssumption DEF CryptoAssumption
<1> DEFINE b == [offset |-> submitted[l], size |-> len]
<1>1. /\ crypto_data' = [crypto_data EXCEPT ![l] = Append(@, b)]
      /\ submitted' = [submitted EXCEPT ![l] = @ + len]
      /\ UNCHANGED <<acked_offset, acked, target>>
      /\ target[l] = -1
  BY DEF WriteHandshake, InCall
<1>2. /\ len \in Nat \ {0} /\ submitted[l] \in Nat /\ acked_offset[l] \in Nat /\ acked[l] \in Nat
      /\ crypto_data[l] \in Seq(Buffer) /\ b \in Buffer
      /\ Holds(crypto_data[l], acked_offset[l], submitted[l])
      /\ acked_offset[l] <= acked[l] /\ acked[l] <= submitted[l]
  BY DEF CryptoInv, CryptoTypes, Buffer
<1>3. acked_offset[l] <= submitted[l]
  BY <1>2
<1>4. Holds(Append(crypto_data[l], b), acked_offset[l], submitted[l] + len)
  BY <1>2, <1>3, AppendHolds
<1>5. /\ Append(crypto_data[l], b) \in Seq(Buffer)
      /\ Append(crypto_data[l], b)[1].size =
           IF crypto_data[l] = <<>> THEN len ELSE crypto_data[l][1].size
  <2>1. CASE crypto_data[l] = <<>>
    BY <2>1, <1>2
  <2>2. CASE crypto_data[l] # <<>>
    <3>1. Len(crypto_data[l]) >= 1
      BY <2>2, <1>2
    <3> QED BY <2>2, <3>1, <1>2
  <2> QED BY <2>1, <2>2
<1>6. CryptoTypes'
  BY <1>1, <1>2, <1>5 DEF CryptoInv, CryptoTypes
<1>7. ASSUME NEW k \in Levels
      PROVE  /\ Holds(crypto_data'[k], acked_offset'[k], submitted'[k])
             /\ acked_offset'[k] <= acked'[k] /\ acked'[k] <= submitted'[k]
             /\ target'[k] \in {-1, acked'[k]}
             /\ target'[k] = -1 /\ crypto_data'[k] # <<>> =>
                  acked_offset'[k] + crypto_data'[k][1].size > acked'[k]
  <2>1. CASE k = l
    <3>1. /\ crypto_data'[k] = Append(crypto_data[l], b) /\ submitted'[k] = submitted[l] + len
          /\ acked_offset'[k] = acked_offset[l] /\ acked'[k] = acked[l] /\ target'[k] = -1
      BY <2>1, <1>1 DEF CryptoInv, CryptoTypes
    <3>2. crypto_data[l] = <<>> => acked_offset[l] = submitted[l]
      BY <1>2 DEF Holds
    <3>3. crypto_data[l] # <<>> => acked_offset[l] + crypto_data[l][1].size > acked[l]
      BY <1>1 DEF CryptoInv
    <3> HIDE DEF b
    <3>4. acked_offset[l] + Append(crypto_data[l], b)[1].size > acked[l]
      BY <3>2, <3>3, <1>5, <1>2
    <3>5. acked[l] <= submitted[l] + len
      BY <1>2
    <3> QED BY <3>1, <3>4, <3>5, <1>4, <1>2
  <2>2. CASE k # l
    <3>1. /\ crypto_data'[k] = crypto_data[k] /\ submitted'[k] = submitted[k]
          /\ acked_offset'[k] = acked_offset[k] /\ acked'[k] = acked[k] /\ target'[k] = target[k]
      BY <2>2, <1>1 DEF CryptoInv, CryptoTypes
    <3> QED BY <3>1 DEF CryptoInv
  <2> QED BY <2>1, <2>2
<1> QED BY <1>6, <1>7 DEF CryptoInv

LEMMA AckedCryptoOffsetInv ==
  ASSUME CryptoInv, NEW l \in Levels, NEW datalen \in 1 .. MaxCrypto, AckedCryptoOffset(l, datalen)
  PROVE  CryptoInv'
<1> USE CryptoAssumption DEF CryptoAssumption
<1>1. /\ acked' = [acked EXCEPT ![l] = @ + datalen]
      /\ target' = [target EXCEPT ![l] = acked[l] + datalen]
      /\ acked[l] + datalen <= submitted[l]
      /\ UNCHANGED <<crypto_data, acked_offset, submitted>>
  BY DEF AckedCryptoOffset
<1>2. acked[l] \in Nat /\ datalen \in Nat \ {0}
  BY DEF CryptoInv, CryptoTypes
<1>3. CryptoTypes'
  BY <1>1, <1>2 DEF CryptoInv, CryptoTypes
<1>4. ASSUME NEW k \in Levels
      PROVE  /\ acked_offset'[k] <= acked'[k] /\ acked'[k] <= submitted'[k]
             /\ target'[k] \in {-1, acked'[k]}
             /\ target'[k] = -1 /\ crypto_data'[k] # <<>> =>
                  acked_offset'[k] + crypto_data'[k][1].size > acked'[k]
  <2>1. CASE k = l
    <3>1. acked'[k] = acked[k] + datalen /\ target'[k] = acked[k] + datalen
      BY <2>1, <1>1 DEF CryptoInv, CryptoTypes
    <3>2. acked_offset[k] \in Nat /\ acked_offset[k] <= acked[k]
      BY DEF CryptoInv, CryptoTypes
    <3> QED BY <2>1, <3>1, <3>2, <1>1, <1>2
  <2>2. CASE k # l
    <3>1. acked'[k] = acked[k] /\ target'[k] = target[k]
      BY <2>2, <1>1 DEF CryptoInv, CryptoTypes
    <3> QED BY <3>1, <1>1 DEF CryptoInv
  <2> QED BY <2>1, <2>2
<1> QED BY <1>1, <1>3, <1>4 DEF CryptoInv

LEMMA RemoveFrontInv ==
  ASSUME CryptoInv, NEW l \in Levels, RemoveFront(l)
  PROVE  CryptoInv'
<1> DEFINE d == crypto_data[l]
           size == d[1].size
<1>1. /\ target[l] # -1 /\ d # <<>> /\ acked_offset[l] + size <= target[l]
      /\ acked_offset' = [acked_offset EXCEPT ![l] = @ + size]
      /\ crypto_data' = [crypto_data EXCEPT ![l] = Tail(@)]
      /\ UNCHANGED <<submitted, acked, target>>
  BY DEF RemoveFront, FrontDone
<1>2. /\ d \in Seq(Buffer) /\ acked_offset[l] \in Nat /\ submitted[l] \in Nat
      /\ Holds(d, acked_offset[l], submitted[l])
      /\ target[l] = acked[l] /\ acked[l] <= submitted[l]
  BY <1>1 DEF CryptoInv, CryptoTypes
<1>3. /\ Holds(Tail(d), acked_offset[l] + size, submitted[l])
      /\ acked_offset[l] + size \in Nat
  BY <1>1, <1>2, TailHolds
<1>4. Tail(d) \in Seq(Buffer)
  BY <1>1, <1>2
<1> HIDE DEF size
<1>5. CryptoTypes'
  BY <1>1, <1>3, <1>4 DEF CryptoInv, CryptoTypes
<1>6. ASSUME NEW k \in Levels
      PROVE  /\ Holds(crypto_data'[k], acked_offset'[k], submitted'[k])
             /\ acked_offset'[k] <= acked'[k] /\ acked'[k] <= submitted'[k]
             /\ target'[k] \in {-1, acked'[k]}
             /\ target'[k] = -1 /\ crypto_data'[k] # <<>> =>
                  acked_offset'[k] + crypto_data'[k][1].size > acked'[k]
  <2>1. CASE k = l
    <3>1. crypto_data'[k] = Tail(d) /\ acked_offset'[k] = acked_offset[l] + size
      BY <2>1, <1>1 DEF CryptoInv, CryptoTypes
    <3> QED BY <2>1, <3>1, <1>1, <1>2, <1>3
  <2>2. CASE k # l
    <3>1. crypto_data'[k] = crypto_data[k] /\ acked_offset'[k] = acked_offset[k]
      BY <2>2, <1>1 DEF CryptoInv, CryptoTypes
    <3> QED BY <3>1, <1>1 DEF CryptoInv
  <2> QED BY <2>1, <2>2
<1> QED BY <1>5, <1>6 DEF CryptoInv

LEMMA RemoveReturnInv ==
  ASSUME CryptoInv, NEW l \in Levels, RemoveReturn(l)
  PROVE  CryptoInv'
<1>1. /\ target[l] # -1
      /\ crypto_data[l] # <<>> => ~(acked_offset[l] + crypto_data[l][1].size <= target[l])
      /\ target' = [target EXCEPT ![l] = -1]
      /\ UNCHANGED <<crypto_data, acked_offset, submitted, acked>>
  BY DEF RemoveReturn, FrontDone
<1>2. CryptoTypes'
  BY <1>1 DEF CryptoInv, CryptoTypes
<1>3. ASSUME NEW k \in Levels
      PROVE  /\ target'[k] \in {-1, acked'[k]}
             /\ target'[k] = -1 /\ crypto_data'[k] # <<>> =>
                  acked_offset'[k] + crypto_data'[k][1].size > acked'[k]
  <2>1. CASE k = l
    <3>1. target'[k] = -1 /\ target[k] = acked[k]
      BY <2>1, <1>1 DEF CryptoInv, CryptoTypes
    <3>2. ASSUME crypto_data[k] # <<>>
          PROVE  acked_offset[k] + crypto_data[k][1].size > acked[k]
      <4>1. crypto_data[k] \in Seq(Buffer) /\ acked_offset[k] \in Nat /\ acked[k] \in Nat
        BY DEF CryptoInv, CryptoTypes
      <4>2. crypto_data[k][1] \in Buffer
        BY <4>1, <3>2
      <4>3. crypto_data[k][1].size \in Nat
        BY <4>2 DEF Buffer
      <4> QED BY <2>1, <3>1, <3>2, <4>1, <4>3, <1>1
    <3> QED BY <3>1, <3>2, <1>1
  <2>2. CASE k # l
    <3>1. target'[k] = target[k]
      BY <2>2, <1>1 DEF CryptoInv, CryptoTypes
    <3> QED BY <3>1, <1>1 DEF CryptoInv
  <2> QED BY <2>1, <2>2
<1> QED BY <1>1, <1>2, <1>3 DEF CryptoInv

LEMMA CryptoNextInv ==
  ASSUME CryptoInv, [CryptoNext]_cryptoVars
  PROVE  CryptoInv'
<1>1. ASSUME NEW l \in Levels, DiscardKeys(l)
      PROVE  CryptoInv'
  BY <1>1 DEF DiscardKeys, CryptoInv, CryptoTypes
<1>2. CASE UNCHANGED cryptoVars
  BY <1>2 DEF cryptoVars, CryptoInv, CryptoTypes
<1> QED
  BY <1>1, <1>2, WriteHandshakeInv, AckedCryptoOffsetInv, RemoveFrontInv, RemoveReturnInv
     DEF CryptoNext

-----------------------------------------------------------------------------
(* What is covered in one piece leaves nothing acknowledged behind. *)
LEMMA KeptFromInv == CryptoInv => BytesKept
<1> SUFFICES ASSUME CryptoInv, NEW l \in Levels
             PROVE  /\ \A byte \in Readable(l) :
                         \E i \in DOMAIN crypto_data[l] : byte \in Bytes(crypto_data[l][i])
                    /\ target[l] = -1 =>
                         \A i \in DOMAIN crypto_data[l] :
                           crypto_data[l][i].offset + crypto_data[l][i].size > acked[l]
  BY DEF BytesKept
<1> DEFINE d == crypto_data[l]
<1>1. /\ d \in Seq(Buffer) /\ DOMAIN d = 1 .. Len(d) /\ Len(d) \in Nat
      /\ acked_offset[l] \in Nat /\ acked[l] \in Nat /\ submitted[l] \in Nat
      /\ Holds(d, acked_offset[l], submitted[l]) /\ acked_offset[l] <= acked[l]
  BY DEF CryptoInv, CryptoTypes
<1>2. \A i \in 1 .. Len(d) : d[i].offset \in Nat /\ d[i].size \in Nat
  <2>1. \A i \in 1 .. Len(d) : d[i] \in Buffer
    BY <1>1
  <2> QED BY <2>1 DEF Buffer
<1>3. \A byte \in Readable(l) : byte \in acked_offset[l] .. submitted[l] - 1
  BY <1>1 DEF Readable
<1>4. ASSUME target[l] = -1, NEW i \in 1 .. Len(d)
      PROVE  d[i].offset + d[i].size > acked[l]
  <2>1. 1 \in 1 .. Len(d) /\ d # <<>>
    BY <1>1
  <2>2. d[1].offset + d[1].size > acked[l]
    BY <2>1, <1>4, <1>1 DEF CryptoInv, Holds
  <2>3. CASE i = 1
    BY <2>2, <2>3
  <2>4. CASE i # 1
    <3>1. d[1].offset + d[1].size <= d[i].offset
      BY <2>1, <2>4, <1>1 DEF Holds
    <3>2. /\ d[i].offset \in Nat /\ d[i].size \in Nat /\ d[1].offset \in Nat /\ d[1].size \in Nat
          /\ acked[l] \in Nat
      BY <1>2, <2>1, <1>1
    <3> HIDE DEF d
    <3> QED BY <3>1, <3>2, <2>2
  <2> QED BY <2>3, <2>4
<1> HIDE DEF d
<1>5. \A byte \in Readable(l) : \E i \in DOMAIN d : byte \in Bytes(d[i])
  BY <1>1, <1>3 DEF Holds
<1> QED BY <1>1, <1>4, <1>5 DEF d

(* BytesKept of CryptoBuffer, for any levels and any amount of data: what  *)
(* remove_tx_stream_data frees, ngtcp2 will not read, and it frees what it *)
(* can.                                                                    *)
THEOREM CryptoBytesKept == CryptoSpec => []BytesKept
<1>1. CryptoSpec => []CryptoInv
  BY CryptoInitInv, CryptoNextInv, PTL DEF CryptoSpec
<1> QED BY <1>1, KeptFromInv, PTL

-----------------------------------------------------------------------------
(* TcpFile: the file arrives as it is, for any file, any buffer, any cut of  *)
(* the bytes on their way, and whichever process is killed.                  *)

\* The file is there and can be read, and every write has worked.
Transferred == present /\ openable /\ ~hole

\* The output, what is under way and the rest of the file are the file; what
\* a client that is gone would have read is lost.
Pieces ==
  /\ position \in 0 .. FileLen
  /\ output \in Seq(Nat) /\ wire \in Seq(Nat)
  /\ Len(output) + Len(wire) <= position
  /\ client # "end" => Len(output) + Len(wire) = position
  /\ \A i \in 1 .. Len(output) : output[i] = i
  /\ \A i \in 1 .. Len(wire) : wire[i] = Len(output) + i

\* As long as both processes live they follow each other: a client that copies
\* was told the file is there, and a server that ended has read all of it.
Steps ==
  /\ server \in {"name", "exist"} =>
       /\ client \in {"name", "exist"} /\ answer = <<>>
       /\ client = "name" => server = "name" /\ ~named
  /\ server \in {"copy", "end"} =>
       /\ client \in {"exist", "copy", "success", "end"}
       /\ client = "exist" => answer = <<exist>>
       /\ client \in {"copy", "success"} => exist >= 0
       /\ client # "end" /\ exist >= 0 /\ server = "end" => position = FileLen
  /\ server = "copy" => exist >= 0
  /\ client = "success" => Len(output) = FileLen

TcpTypes ==
  /\ present \in BOOLEAN /\ openable \in BOOLEAN /\ hole \in BOOLEAN /\ killed \in BOOLEAN
  /\ exist \in {-1, 1}
  /\ server \in {"name", "exist", "copy", "spin", "end"}
  /\ client \in {"name", "exist", "copy", "success", "end"}
  /\ openable => server # "spin"

TcpInv ==
  /\ TcpTypes
  /\ Transferred => Pieces
  /\ Transferred /\ ~killed => Steps

-----------------------------------------------------------------------------
LEMMA TypesKept ==
  ASSUME TcpTypes, TcpNext
  PROVE  TcpTypes'
<1>1. CASE ReadName
  BY <1>1 DEF TcpTypes, ReadName, clientVars, serverVars
<1>2. CASE SendExist
  BY <1>2 DEF TcpTypes, SendExist, clientVars, serverVars
<1>3. CASE CopyChunk
  BY <1>3 DEF TcpTypes, CopyChunk, clientVars, serverVars
<1>4. CASE CopyUnopened
  BY <1>4 DEF TcpTypes, CopyUnopened, clientVars, serverVars
<1>5. CASE SendName
  BY <1>5 DEF TcpTypes, SendName, clientVars, serverVars
<1>6. CASE ReadExist
  BY <1>6 DEF TcpTypes, ReadExist, clientVars, serverVars
<1>7. CASE ReadChunk
  BY <1>7 DEF TcpTypes, ReadChunk, clientVars, serverVars
<1>8. CASE CloseSocket
  BY <1>8 DEF TcpTypes, CloseSocket, clientVars, serverVars
<1>9. CASE Kill
  BY <1>9 DEF TcpTypes, Kill, clientVars, serverVars
<1> QED
  BY <1>1, <1>2, <1>3, <1>4, <1>5, <1>6, <1>7, <1>8, <1>9 DEF TcpNext, ServerStep, ClientStep

\* Files that are transferred were so before.
LEMMA TransferredBefore ==
  ASSUME TcpTypes, TcpNext, Transferred'
  PROVE  Transferred
<1>1. CASE ReadName
  BY <1>1 DEF Transferred, ReadName, clientVars, serverVars
<1>2. CASE SendExist
  BY <1>2 DEF Transferred, SendExist, clientVars, serverVars
<1>3. CASE CopyChunk
  BY <1>3 DEF Transferred, CopyChunk, clientVars, serverVars
<1>4. CASE CopyUnopened
  BY <1>4 DEF Transferred, CopyUnopened, clientVars, serverVars
<1>5. CASE SendName
  BY <1>5 DEF Transferred, SendName, clientVars, serverVars
<1>6. CASE ReadExist
  BY <1>6 DEF Transferred, ReadExist, clientVars, serverVars
<1>7. CASE ReadChunk
  BY <1>7 DEF Transferred, ReadChunk, clientVars, serverVars
<1>8. CASE CloseSocket
  BY <1>8 DEF Transferred, CloseSocket, clientVars, serverVars
<1>9. CASE Kill
  BY <1>9 DEF Transferred, Kill, clientVars, serverVars
<1> QED
  BY <1>1, <1>2, <1>3, <1>4, <1>5, <1>6, <1>7, <1>8, <1>9 DEF TcpNext, ServerStep, ClientStep

LEMMA ConcatForm ==
  ASSUME NEW S, NEW s \in Seq(S), NEW t \in Seq(S)
  PROVE  /\ s \o t \in Seq(S) /\ Len(s \o t) = Len(s) + Len(t)
         /\ \A i \in 1 .. Len(s) : (s \o t)[i] = s[i]
         /\ \A i \in 1 .. Len(t) : (s \o t)[Len(s) + i] = t[i]
OBVIOUS

LEMMA CutForm ==
  ASSUME NEW s \in Seq(Nat), NEW n \in 1 .. Len(s)
  PROVE  /\ SubSeq(s, 1, n) \in Seq(Nat) /\ Len(SubSeq(s, 1, n)) = n
         /\ \A i \in 1 .. n : SubSeq(s, 1, n)[i] = s[i]
         /\ SubSeq(s, n + 1, Len(s)) \in Seq(Nat) /\ Len(SubSeq(s, n + 1, Len(s))) = Len(s) - n
         /\ \A i \in 1 .. Len(s) - n : SubSeq(s, n + 1, Len(s))[i] = s[n + i]
<1>1. /\ Len(SubSeq(s, 1, n)) = n
      /\ \A i \in 1 .. n : SubSeq(s, 1, n)[i] = s[i]
  OBVIOUS
<1>2. SubSeq(s, 1, n) \in Seq(Nat)
  OBVIOUS
<1>3. CASE n < Len(s)
  <2>1. /\ Len(SubSeq(s, n + 1, Len(s))) = Len(s) - n
        /\ \A i \in 1 .. Len(s) - n : SubSeq(s, n + 1, Len(s))[i] = s[n + i]
    BY <1>3
  <2>2. SubSeq(s, n + 1, Len(s)) \in Seq(Nat)
    BY <1>3
  <2> QED BY <1>1, <1>2, <2>1, <2>2
<1>4. CASE n = Len(s)
  <2>1. SubSeq(s, n + 1, Len(s)) = <<>>
    BY <1>4
  <2> QED BY <1>1, <1>2, <1>4, <2>1
<1> QED BY <1>3, <1>4

LEMMA CopyChunkStep ==
  ASSUME TcpTypes, Pieces, CopyChunk
  PROVE  /\ Pieces'
         /\ client # "end" /\ server' = "end" => position' = FileLen
<1> DEFINE len == IF FileLen - position < BuffLen THEN FileLen - position ELSE BuffLen
           piece == [i \in 1 .. len |-> position + i]
<1>1. /\ position' = position + len /\ server' = IF len = 0 \/ client = "end" THEN "end" ELSE "copy"
      /\ wire' = IF client = "end" THEN wire ELSE wire \o piece
      /\ output' = output /\ client' = client
  BY DEF CopyChunk, clientVars
<1>2. len \in Nat /\ position + len \in 0 .. FileLen /\ (len = 0 => position = FileLen)
  BY TcpAssumption DEF Pieces, TcpAssumption
<1>3. /\ piece \in Seq(Nat) /\ Len(piece) = len /\ \A i \in 1 .. len : piece[i] = position + i
  <2>1. \A i \in 1 .. len : position + i \in Nat
    BY <1>2 DEF Pieces
  <2> HIDE DEF len
  <2> QED BY <1>2, <2>1
<1> HIDE DEF len, piece
<1>4. CASE client = "end"
  BY <1>1, <1>2, <1>4 DEF Pieces
<1>5. CASE client # "end"
  <2>1. /\ wire \in Seq(Nat) /\ output \in Seq(Nat) /\ Len(output) + Len(wire) = position
        /\ wire' = wire \o piece /\ output' = output /\ position' = position + len /\ position \in Nat
    BY <1>1, <1>5, TcpAssumption DEF Pieces, TcpAssumption
  <2>a. Len(output) + Len(wire) = position /\ Len(output) \in Nat /\ Len(wire) \in Nat
    BY <2>1
  <2>2. wire' \in Seq(Nat) /\ Len(wire') = Len(wire) + len
    BY <2>1, <1>2, <1>3, ConcatForm
  <2>3. \A i \in 1 .. Len(wire') : wire'[i] = Len(output) + i
    <3> TAKE i \in 1 .. Len(wire')
    <3>1. CASE i <= Len(wire)
      <4>1. wire'[i] = wire[i] /\ i \in 1 .. Len(wire)
        BY <1>3, <2>1, <3>1, ConcatForm
      <4> QED BY <4>1 DEF Pieces
    <3>2. CASE i > Len(wire)
      <4>1. i - Len(wire) \in 1 .. len /\ i = Len(wire) + (i - Len(wire))
        BY <1>2, <2>1, <2>2, <3>2
      <4>2. wire'[i] = piece[i - Len(wire)]
        BY <1>3, <2>1, <4>1, ConcatForm
      <4>3. piece[i - Len(wire)] = position + (i - Len(wire))
        BY <1>3, <4>1
      <4>4. position + (i - Len(wire)) = Len(output) + i
        BY <2>a
      <4> QED BY <4>2, <4>3, <4>4
    <3> QED BY <3>1, <3>2, <2>1
  <2>4. \A i \in 1 .. Len(output') : output'[i] = i
    BY <2>1 DEF Pieces
  <2>5. Pieces'
    <3>1. Len(output') + Len(wire') = position' /\ output' \in Seq(Nat) /\ position' \in 0 .. FileLen
      <4>1. Len(output') = Len(output) /\ Len(wire') = Len(wire) + len /\ position' = position + len
        BY <2>1, <2>2
      <4>2. Len(output') + Len(wire') = position'
        BY <1>2, <2>a, <4>1
      <4> QED BY <1>2, <2>1, <4>2
    <3>2. \A i \in 1 .. Len(wire') : wire'[i] = Len(output') + i
      BY <2>1, <2>3
    <3> QED BY <2>2, <2>4, <3>1, <3>2 DEF Pieces
  <2> QED BY <1>1, <1>2, <1>5, <2>5 DEF Pieces
<1> QED BY <1>4, <1>5

LEMMA ReadChunkStep ==
  ASSUME Pieces, ReadChunk, ~hole'
  PROVE  /\ Pieces' /\ position' = position
         /\ client' = client \/ (client' = "success" /\ wire = <<>> /\ server = "end" /\ output' = output)
<1>1. position' = position /\ server' = server
  BY DEF ReadChunk, serverVars
<1>2. CASE wire = <<>> /\ server = "end" /\ client' = "success" /\ UNCHANGED <<wire, output, hole>>
  BY <1>1, <1>2 DEF Pieces, ReadChunk
<1>3. ASSUME NEW len \in 1 .. BuffLen, len <= Len(wire), wire' = SubSeq(wire, len + 1, Len(wire)),
             output' = output \o SubSeq(wire, 1, len), client' = client
      PROVE  Pieces'
  <2> DEFINE piece == SubSeq(wire, 1, len)
  <2>1. wire \in Seq(Nat) /\ output \in Seq(Nat) /\ len \in Nat \ {0}
    BY <1>3, TcpAssumption DEF Pieces, TcpAssumption
  <2>a. len \in 1 .. Len(wire)
    BY <1>3, <2>1
  <2>2. piece \in Seq(Nat) /\ Len(piece) = len /\ \A i \in 1 .. len : piece[i] = wire[i]
    BY <2>1, <2>a, CutForm
  <2>3. /\ wire' \in Seq(Nat) /\ Len(wire') = Len(wire) - len
        /\ \A i \in 1 .. Len(wire') : wire'[i] = wire[len + i]
    BY <1>3, <2>1, <2>a, CutForm
  <2> HIDE DEF piece
  <2>4. output' = output \o piece
    BY <1>3 DEF piece
  <2>5. output' \in Seq(Nat) /\ Len(output') = Len(output) + len
    BY <2>1, <2>2, <2>4, ConcatForm
  <2>6. \A i \in 1 .. Len(output') : output'[i] = i
    <3> TAKE i \in 1 .. Len(output')
    <3>1. CASE i <= Len(output)
      BY <2>1, <2>2, <2>4, <2>5, <3>1 DEF Pieces
    <3>2. CASE i > Len(output)
      <4>1. output'[i] = piece[i - Len(output)] /\ i - Len(output) \in 1 .. len
        BY <2>1, <2>2, <2>4, <2>5, <3>2
      <4>2. i - Len(output) \in 1 .. Len(wire)
        BY <4>1, <1>3, <2>1
      <4>3. wire[i - Len(output)] = i
        BY <4>2, <2>1 DEF Pieces
      <4> QED BY <2>2, <4>1, <4>3
    <3> QED BY <3>1, <3>2, <2>1, <2>5
  <2>7. \A i \in 1 .. Len(wire') : wire'[i] = Len(output') + i
    <3> TAKE i \in 1 .. Len(wire')
    <3>1. len + i \in 1 .. Len(wire) /\ i \in Nat
      BY <1>3, <2>1, <2>3
    <3>2. wire[len + i] = Len(output) + (len + i)
      BY <3>1 DEF Pieces
    <3> QED BY <2>1, <2>3, <2>5, <3>1, <3>2
  <2>8. Len(output') + Len(wire') = Len(output) + Len(wire)
    BY <2>1, <2>3, <2>5
  <2> QED BY <1>1, <1>3, <2>3, <2>5, <2>6, <2>7, <2>8 DEF Pieces
<1> QED BY <1>1, <1>2, <1>3 DEF ReadChunk

\* No other step moves bytes of the file.
LEMMA OtherStep ==
  ASSUME TcpNext, openable, ~CopyChunk, ~ReadChunk
  PROVE  /\ position' = position /\ wire' = wire /\ output' = output
         /\ client = "end" => client' = "end"
BY DEF TcpNext, ServerStep, ClientStep, ReadName, SendExist, CopyUnopened,
       SendName, ReadExist, CloseSocket, Kill, clientVars, serverVars

LEMMA PiecesKept ==
  ASSUME TcpTypes, Pieces, TcpNext, openable, ~hole'
  PROVE  Pieces'
<1>1. CASE CopyChunk
  BY <1>1, CopyChunkStep
<1>2. CASE ReadChunk
  BY <1>2, ReadChunkStep
<1>3. CASE ~CopyChunk /\ ~ReadChunk
  BY <1>3, OtherStep DEF Pieces
<1> QED BY <1>1, <1>2, <1>3

LEMMA StepsKept ==
  ASSUME TcpTypes, Transferred, Pieces, Steps, TcpNext, Transferred', ~killed'
  PROVE  Steps'
<1>1. present /\ openable /\ ~hole /\ ~hole' /\ server # "spin"
  BY DEF Transferred, TcpTypes
<1>2. CASE ReadName
  BY <1>1, <1>2 DEF TcpTypes, Steps, ReadName, clientVars
<1>3. CASE SendExist
  BY <1>1, <1>3 DEF TcpTypes, Steps, SendExist, clientVars
<1>4. CASE CopyChunk
  <2>1. client # "end" /\ server' = "end" => position' = FileLen
    BY <1>4, CopyChunkStep
  <2> QED BY <1>1, <1>4, <2>1 DEF TcpTypes, Steps, CopyChunk, clientVars
<1>5. CASE CopyUnopened
  BY <1>1, <1>5 DEF CopyUnopened
<1>6. CASE SendName
  BY <1>1, <1>6 DEF TcpTypes, Steps, SendName, serverVars
<1>7. CASE ReadExist
  BY <1>1, <1>7 DEF TcpTypes, Steps, ReadExist, serverVars
<1>8. CASE ReadChunk
  <2>1. /\ position' = position
        /\ client' = client \/ (client' = "success" /\ wire = <<>> /\ server = "end" /\ output' = output)
    BY <1>1, <1>8, ReadChunkStep
  <2>2. client = "copy" /\ server' = server /\ exist' = exist /\ answer' = answer /\ named' = named
    BY <1>8 DEF ReadChunk, serverVars
  <2>3. CASE client' = client
    BY <2>1, <2>2, <2>3 DEF Steps
  <2>4. CASE client' = "success" /\ wire = <<>> /\ server = "end" /\ output' = output
    <3>1. Len(output) = position /\ position = FileLen
      BY <2>2, <2>4 DEF Pieces, Steps
    <3> QED BY <2>1, <2>2, <2>4, <3>1 DEF Steps
  <2> QED BY <2>1, <2>3, <2>4
<1>9. CASE CloseSocket
  BY <1>1, <1>9 DEF TcpTypes, Steps, CloseSocket, serverVars
<1>10. CASE Kill
  BY <1>10 DEF Kill
<1> QED
  BY <1>2, <1>3, <1>4, <1>5, <1>6, <1>7, <1>8, <1>9, <1>10 DEF TcpNext, ServerStep, ClientStep

LEMMA KilledStays ==
  ASSUME TcpNext, killed
  PROVE  killed'
BY DEF TcpNext, ServerStep, ClientStep, ReadName, SendExist, CopyChunk, CopyUnopened,
       SendName, ReadExist, ReadChunk, CloseSocket, Kill, clientVars, serverVars

LEMMA InvKept ==
  ASSUME TcpInv, [TcpNext]_tcpVars
  PROVE  TcpInv'
<1>1. CASE TcpNext
  <2>1. TcpTypes /\ TcpTypes'
    BY <1>1, TypesKept DEF TcpInv
  <2>2. Transferred' => Transferred /\ openable /\ ~hole'
    BY <1>1, <2>1, TransferredBefore DEF Transferred
  <2>3. Transferred' => Pieces'
    BY <1>1, <2>1, <2>2, PiecesKept DEF TcpInv
  <2>4. Transferred' /\ ~killed' => Steps'
    BY <1>1, <2>1, <2>2, StepsKept, KilledStays DEF TcpInv
  <2> QED BY <2>1, <2>3, <2>4 DEF TcpInv
<1>2. CASE UNCHANGED tcpVars
  BY <1>2 DEF TcpInv, TcpTypes, Transferred, Pieces, Steps, tcpVars
<1> QED BY <1>1, <1>2

LEMMA InitInv == TcpInit => TcpInv
<1> SUFFICES ASSUME TcpInit PROVE TcpInv
  OBVIOUS
<1>1. TcpTypes
  BY DEF TcpInit, TcpTypes
<1>2. Pieces
  BY TcpAssumption DEF TcpInit, Pieces, TcpAssumption
<1>3. Steps
  BY DEF TcpInit, Steps
<1> QED BY <1>1, <1>2, <1>3 DEF TcpInv

\* A sequence that counts up is a beginning of the file, the whole of it when
\* it is as long.
LEMMA CountsUp ==
  ASSUME NEW s \in Seq(Nat), Len(s) <= FileLen, \A i \in 1 .. Len(s) : s[i] = i
  PROVE  IsPrefix(s, Content) /\ (Len(s) = FileLen => s = Content)
<1>1. Content \in Seq(Nat) /\ Len(Content) = FileLen /\ \A i \in 1 .. FileLen : Content[i] = i
  BY TcpAssumption DEF Content, TcpAssumption
<1>2. SubSeq(s, 1, Len(s)) = SubSeq(Content, 1, Len(s))
  BY <1>1
<1>3. IsPrefix(s, Content)
  BY <1>1, <1>2 DEF IsPrefix
<1>4. ASSUME Len(s) = FileLen PROVE s = Content
  BY <1>1, <1>4
<1> QED BY <1>3, <1>4

-----------------------------------------------------------------------------
(***************************************************************************)
(* What recvFile writes is a beginning of the file sentFile read, and all  *)
(* of it when it says so, wherever the network cuts the bytes and whatever *)
(* the sizes of the file and of the buffers, unless a process is killed.   *)
(***************************************************************************)
THEOREM FileArrives == TcpSpec => []OutputIsFile
<1>1. TcpInv => OutputIsFile
  <2> SUFFICES ASSUME TcpInv, Transferred
               PROVE  /\ IsPrefix(output, Content)
                      /\ client = "success" /\ ~killed => output = Content
    BY DEF OutputIsFile, Transferred
  <2>1. /\ output \in Seq(Nat) /\ Len(output) <= FileLen
        /\ \A i \in 1 .. Len(output) : output[i] = i
    BY TcpAssumption DEF TcpInv, Pieces, TcpAssumption
  <2>2. client = "success" /\ ~killed => Len(output) = FileLen
    BY DEF TcpInv, Steps
  <2> QED BY <2>1, <2>2, CountsUp
<1> QED BY <1>1, InitInv, InvKept, PTL DEF TcpSpec

-----------------------------------------------------------------------------
(* Transcoder: every frame of the input is in one place. *)

\* Every number of S is less than every number of T.
Precedes(S, T) == \A x \in S, y \in T : x < y

Packet == [stream : Nat, kind : StreamKinds, number : Nat]

Once(w) ==
  \A i, j \in DOMAIN w :
    i < j /\ w[i].kind = w[j].kind =>
      /\ w[i].number # w[j].number
      /\ w[i].kind = "audio" => w[i].number < w[j].number

\* v is w with a packet behind it.
Grown(w, v, stream, kind, number) ==
  /\ v \in Seq(Packet) /\ Once(v)
  /\ Numbers(v, kind) = Numbers(w, kind) \cup {number}
  /\ \A other : other # kind => Numbers(v, other) = Numbers(w, other)
  /\ \A i \in DOMAIN v : \/ i \in DOMAIN w /\ v[i] = w[i]
                         \/ v[i].stream = stream /\ v[i].kind = kind

LEMMA WritePacket ==
  ASSUME NEW w \in Seq(Packet), Once(w), NEW stream \in Nat, NEW kind \in StreamKinds,
         NEW number \in Nat, number \notin Numbers(w, kind),
         kind = "audio" => Precedes(Numbers(w, kind), {number}),
         NEW v, v = Append(w, [stream |-> stream, kind |-> kind, number |-> number])
  PROVE  Grown(w, v, stream, kind, number)
<1> DEFINE p == [stream |-> stream, kind |-> kind, number |-> number]
<1>1. p \in Packet /\ p.stream = stream /\ p.kind = kind /\ p.number = number
  BY DEF Packet
<1> HIDE DEF p
<1>2. Len(w) \in Nat /\ DOMAIN w = 1 .. Len(w) /\ \A i \in DOMAIN w : w[i] \in Packet
  OBVIOUS
<1>3. /\ v \in Seq(Packet) /\ DOMAIN v = 1 .. Len(w) + 1
      /\ v[Len(w) + 1] = p /\ \A i \in 1 .. Len(w) : v[i] = w[i]
  <2>1. v = Append(w, p)
    BY DEF p
  <2> QED BY <1>1, <1>2, <2>1
<1>4. \A i \in DOMAIN v : (i \in DOMAIN w /\ v[i] = w[i]) \/ (i = Len(w) + 1 /\ v[i] = p)
  BY <1>2, <1>3
<1>5. \A i \in DOMAIN w : i \in DOMAIN v /\ v[i] = w[i]
  BY <1>2, <1>3
<1>6. Len(w) + 1 \in DOMAIN v
  BY <1>2, <1>3
<1>7. \A i \in DOMAIN w : w[i].number \in Numbers(w, w[i].kind)
  BY DEF Numbers
<1>8. Once(v)
  <2> SUFFICES ASSUME NEW i \in DOMAIN v, NEW j \in DOMAIN v, i < j, v[i].kind = v[j].kind
               PROVE  /\ v[i].number # v[j].number
                      /\ v[i].kind = "audio" => v[i].number < v[j].number
    BY DEF Once
  <2>1. i \in DOMAIN w /\ v[i] = w[i]
    BY <1>2, <1>3, <1>4
  <2>2. CASE j \in DOMAIN w /\ v[j] = w[j]
    BY <2>1, <2>2 DEF Once
  <2>3. CASE v[j] = p
    <3>1. w[i].number \in Numbers(w, kind) /\ v[j].number = number /\ w[i].kind = kind
      BY <1>1, <1>7, <2>1, <2>3
    <3>2. w[i].number # number
      BY <3>1
    <3>3. kind = "audio" => w[i].number < number
      BY <3>1 DEF Precedes
    <3> QED BY <2>1, <3>1, <3>2, <3>3
  <2> QED BY <1>4, <2>2, <2>3
<1>9. \A k : Numbers(w, k) \subseteq Numbers(v, k)
  BY <1>5 DEF Numbers
<1>10. number \in Numbers(v, kind)
  BY <1>1, <1>3, <1>6 DEF Numbers
<1>11. Numbers(v, kind) \subseteq Numbers(w, kind) \cup {number}
  BY <1>1, <1>4 DEF Numbers
<1>12. ASSUME NEW other, other # kind PROVE Numbers(v, other) \subseteq Numbers(w, other)
  BY <1>1, <1>4, <1>12 DEF Numbers
<1>13. Numbers(v, kind) = Numbers(w, kind) \cup {number}
  BY <1>9, <1>10, <1>11
<1>14. \A other : other # kind => Numbers(v, other) = Numbers(w, other)
  <2> SUFFICES ASSUME NEW other, other # kind
               PROVE  Numbers(v, other) = Numbers(w, other)
    OBVIOUS
  <2>1. Numbers(v, other) \subseteq Numbers(w, other)
    BY <1>12
  <2>2. Numbers(w, other) \subseteq Numbers(v, other)
    BY <1>9
  <2> QED BY <2>1, <2>2
<1>15. \A i \in DOMAIN v : \/ i \in DOMAIN w /\ v[i] = w[i]
                           \/ v[i].stream = stream /\ v[i].kind = kind
  BY <1>1, <1>4
<1> QED BY <1>3, <1>8, <1>13, <1>14, <1>15 DEF Grown

-----------------------------------------------------------------------------
InputPacket == [kind : StreamKinds, number : Nat]

Typed ==
  /\ layout \in Layouts
  /\ encoder \in {"none", "closed", "open"}
  /\ input \in Seq(InputPacket)
  /\ decoding \subseteq Nat /\ encoding \subseteq Nat /\ lost \subseteq Nat
  /\ written \in Seq(Packet)

InputInv ==
  /\ \A n \in DOMAIN input : input[n].number = n
  /\ Numbers(written, "audio") = Numbers(input, "audio")

\* A frame V of the input is written, or in a codec, or lost, and in one of these
\* places only.
Parted(W, E, D, L, V) ==
  /\ W \cup E \cup D \cup L = V
  /\ W \cap (E \cup D \cup L) = {}
  /\ E \cap D = {} /\ (E \cup D) \cap L = {}

VideoInv ==
  Parted(Numbers(written, "video"), encoding, decoding, lost, Numbers(input, "video"))

\* Every packet is written with the index of the input stream it came from.
StreamsInv ==
  /\ \A i \in DOMAIN written :
       /\ written[i].stream \in DOMAIN OutputKinds
       /\ written[i].stream \in DOMAIN layout
       /\ layout[written[i].stream] = written[i].kind
  /\ video_index # 0 => video_index \in DOMAIN layout /\ layout[video_index] = "video"

StagesInv ==
  /\ at \in {"loop", "decode", "encode", "flush"} => video_index # 0
  /\ at \in {"open", "encoder"} => written = <<>>
  /\ at = "done" => encoding = {}

TranscoderInv ==
  /\ Typed
  /\ InputInv
  /\ Once(written)
  /\ VideoInv
  /\ StreamsInv
  /\ StagesInv

LEMMA NoPackets == ASSUME NEW k PROVE Numbers(<<>>, k) = {}
BY DEF Numbers

LEMMA TranscoderInitInv == TranscoderInit => TranscoderInv
<1> SUFFICES ASSUME TranscoderInit PROVE TranscoderInv
  OBVIOUS
<1>1. Typed
  BY DEF TranscoderInit, Typed
<1>2. InputInv
  BY NoPackets DEF TranscoderInit, InputInv
<1>3. Once(written)
  BY DEF TranscoderInit, Once
<1>4. VideoInv
  BY NoPackets DEF TranscoderInit, VideoInv, Parted
<1>5. StreamsInv /\ StagesInv
  BY DEF TranscoderInit, StreamsInv, StagesInv
<1> QED BY <1>1, <1>2, <1>3, <1>4, <1>5 DEF TranscoderInv

LEMMA LastOfIs ==
  ASSUME layout \in Layouts, NEW kind, LastOf(kind) # 0
  PROVE  LastOf(kind) \in DOMAIN layout /\ layout[LastOf(kind)] = kind
<1> DEFINE found == {i \in DOMAIN layout : layout[i] = kind}
<1>1. layout \in Seq(StreamKinds)
  BY TranscoderAssumption
<1>2. Len(layout) \in Nat /\ DOMAIN layout = 1 .. Len(layout)
  BY <1>1
<1>3. found # {}
  BY DEF LastOf
<1>4. \E i \in found : \A j \in found : j <= i
  <2>1. found \in SUBSET Nat /\ \A i \in found : i <= Len(layout)
    BY <1>2
  <2> HIDE DEF found
  <2> QED BY <1>2, <1>3, <2>1, Greatest
<1>5. LastOf(kind) = CHOOSE i \in found : \A j \in found : j <= i
  BY <1>3 DEF LastOf
<1>6. LastOf(kind) \in found
  <2> HIDE DEF found
  <2> QED BY <1>4, <1>5
<1> QED BY <1>6

\* A packet that is read comes behind all that were read before.
InputGrown(q, v, kind) ==
  /\ v \in Seq(InputPacket) /\ \A n \in DOMAIN v : v[n].number = n
  /\ Numbers(v, kind) = Numbers(q, kind) \cup {Len(q) + 1}
  /\ \A other : other # kind => Numbers(v, other) = Numbers(q, other)
  /\ \A k : Numbers(q, k) \subseteq Nat /\ Precedes(Numbers(q, k), {Len(q) + 1})

LEMMA InputGrows ==
  ASSUME NEW q \in Seq(InputPacket), \A n \in DOMAIN q : q[n].number = n,
         NEW kind \in StreamKinds,
         NEW v, v = Append(q, [kind |-> kind, number |-> Len(q) + 1])
  PROVE  InputGrown(q, v, kind)
<1> DEFINE r == [kind |-> kind, number |-> Len(q) + 1]
<1>1. Len(q) \in Nat /\ DOMAIN q = 1 .. Len(q) /\ \A i \in DOMAIN q : q[i] \in InputPacket
  OBVIOUS
<1>2. r \in InputPacket /\ r.kind = kind /\ r.number = Len(q) + 1
  BY <1>1 DEF InputPacket
<1> HIDE DEF r
<1>3. /\ v \in Seq(InputPacket) /\ Len(v) = Len(q) + 1 /\ DOMAIN v = 1 .. Len(q) + 1
      /\ v[Len(q) + 1] = r /\ \A i \in 1 .. Len(q) : v[i] = q[i]
  <2>1. v = Append(q, r)
    BY DEF r
  <2> QED BY <1>2, <2>1
<1>4. \A i \in DOMAIN v : (i \in DOMAIN q /\ v[i] = q[i]) \/ (i = Len(q) + 1 /\ v[i] = r)
  BY <1>1, <1>3
<1>5. \A n \in DOMAIN v : v[n].number = n
  BY <1>2, <1>4
<1>6. \A i \in DOMAIN q : i \in DOMAIN v /\ v[i] = q[i]
  BY <1>1, <1>3
<1>7. \A k : Numbers(q, k) \subseteq Numbers(v, k)
  BY <1>6 DEF Numbers
<1>8. Len(q) + 1 \in Numbers(v, kind)
  <2>1. Len(q) + 1 \in DOMAIN v
    BY <1>1, <1>3
  <2> QED BY <1>2, <1>3, <2>1 DEF Numbers
<1>9. Numbers(v, kind) \subseteq Numbers(q, kind) \cup {Len(q) + 1}
  BY <1>2, <1>4 DEF Numbers
<1>10. ASSUME NEW other, other # kind PROVE Numbers(v, other) \subseteq Numbers(q, other)
  BY <1>2, <1>4, <1>10 DEF Numbers
<1>11. Numbers(v, kind) = Numbers(q, kind) \cup {Len(q) + 1}
  BY <1>7, <1>8, <1>9
<1>12. \A other : other # kind => Numbers(v, other) = Numbers(q, other)
  <2> SUFFICES ASSUME NEW other, other # kind
               PROVE  Numbers(v, other) = Numbers(q, other)
    OBVIOUS
  <2>1. Numbers(v, other) \subseteq Numbers(q, other)
    BY <1>10
  <2>2. Numbers(q, other) \subseteq Numbers(v, other)
    BY <1>7
  <2> QED BY <2>1, <2>2
<1>13. \A k : Numbers(q, k) \subseteq Nat /\ Precedes(Numbers(q, k), {Len(q) + 1})
  <2> SUFFICES ASSUME NEW k, NEW i \in DOMAIN q
               PROVE  q[i].number \in Nat /\ q[i].number < Len(q) + 1
    BY DEF Numbers, Precedes
  <2>1. q[i].number = i
    OBVIOUS
  <2> QED BY <1>1, <2>1
<1> QED BY <1>3, <1>5, <1>11, <1>12, <1>13 DEF InputGrown

LEMMA LayoutKnown ==
  ASSUME layout \in Layouts
  PROVE  \A i \in DOMAIN layout : i \in Nat /\ layout[i] \in StreamKinds
<1>1. layout \in Seq(StreamKinds)
  BY TranscoderAssumption
<1> QED BY <1>1

\* A packet with the index of an input stream of its kind is written: what the
\* invariant says of the output still holds.
LEMMA WriteInv ==
  ASSUME Typed, Once(written), StreamsInv, UNCHANGED <<layout, video_index>>,
         NEW stream \in DOMAIN layout, NEW number \in Nat,
         number \notin Numbers(written, layout[stream]),
         layout[stream] = "audio" => Precedes(Numbers(written, layout[stream]), {number}),
         Write(stream, layout[stream], number)
  PROVE  /\ written' \in Seq(Packet) /\ Once(written)' /\ StreamsInv'
         /\ Numbers(written', layout[stream]) = Numbers(written, layout[stream]) \cup {number}
         /\ \A other : other # layout[stream] => Numbers(written', other) = Numbers(written, other)
<1>1. /\ stream \in Nat /\ layout[stream] \in StreamKinds /\ written \in Seq(Packet)
      /\ written' = Append(written, [stream |-> stream, kind |-> layout[stream], number |-> number])
      /\ stream \in DOMAIN OutputKinds
  BY LayoutKnown DEF Typed, Write, Accepts
<1>2. Grown(written, written', stream, layout[stream], number)
  BY <1>1, WritePacket
<1>3. StreamsInv'
  BY <1>1, <1>2 DEF StreamsInv, Grown
<1>4. Once(written)'
  BY <1>2 DEF Grown, Once
<1> QED BY <1>2, <1>3, <1>4 DEF Grown

\* The output stays as it is, and so does the input.
LEMMA OutputKept ==
  ASSUME TranscoderInv, UNCHANGED <<layout, video_index, input, written>>
  PROVE  /\ InputInv' /\ Once(written)' /\ StreamsInv'
         /\ layout' \in Layouts /\ input' \in Seq(InputPacket) /\ written' \in Seq(Packet)
BY DEF TranscoderInv, Typed, InputInv, Once, StreamsInv

LEMMA ReadFrameInv ==
  ASSUME TranscoderInv, ReadFrame
  PROVE  TranscoderInv'
<1> DEFINE number == Len(input) + 1
<1>1. PICK stream \in DOMAIN layout :
         /\ input' = Append(input, [kind |-> layout[stream], number |-> number])
         /\ \/ /\ layout[stream] = "video"
               /\ decoding' = decoding \cup {number}
               /\ at' = "decode"
               /\ written' = written
            \/ /\ layout[stream] = "audio"
               /\ Write(stream, "audio", number)
               /\ UNCHANGED <<at, decoding>>
            \/ /\ layout[stream] = "other"
               /\ UNCHANGED <<at, decoding, written>>
  BY DEF ReadFrame
<1>2. /\ at = "loop" /\ video_index # 0
      /\ UNCHANGED <<layout, video_index, audio_index, encoder, encoding, lost>>
  BY DEF ReadFrame, TranscoderInv, StagesInv
<1>3. /\ input \in Seq(InputPacket) /\ \A n \in DOMAIN input : input[n].number = n
      /\ layout[stream] \in StreamKinds /\ number \in Nat
      /\ Numbers(written, "audio") = Numbers(input, "audio")
      /\ Parted(Numbers(written, "video"), encoding, decoding, lost, Numbers(input, "video"))
      /\ Typed /\ Once(written) /\ StreamsInv
  BY LayoutKnown DEF TranscoderInv, Typed, InputInv, VideoInv
<1>4. /\ input' \in Seq(InputPacket) /\ \A n \in DOMAIN input' : input'[n].number = n
      /\ Numbers(input', layout[stream]) = Numbers(input, layout[stream]) \cup {number}
      /\ \A other : other # layout[stream] => Numbers(input', other) = Numbers(input, other)
      /\ \A k : Numbers(input, k) \subseteq Nat /\ Precedes(Numbers(input, k), {number})
  <2>1. InputGrown(input, input', layout[stream])
    BY <1>1, <1>3, InputGrows
  <2> QED BY <2>1 DEF InputGrown
<1>5. \A k : number \notin Numbers(input, k)
  BY <1>3, <1>4 DEF Precedes
<1> HIDE DEF number
<1>6. CASE layout[stream] = "video"
  <2>1. decoding' = decoding \cup {number} /\ at' = "decode" /\ written' = written
    BY <1>1, <1>6
  <2>2. /\ Numbers(input', "video") = Numbers(input, "video") \cup {number}
        /\ Numbers(input', "audio") = Numbers(input, "audio")
    BY <1>4, <1>6
  <2>3. VideoInv'
    BY <1>2, <1>3, <1>5, <2>1, <2>2 DEF VideoInv, Parted
  <2>4. Typed'
    BY <1>2, <1>3, <1>4, <2>1 DEF Typed
  <2>5. InputInv'
    BY <1>3, <1>4, <2>1, <2>2 DEF InputInv
  <2>6. Once(written)' /\ StreamsInv'
    BY <1>2, <1>3, <2>1 DEF Once, StreamsInv
  <2>7. StagesInv'
    BY <1>2, <2>1 DEF StagesInv
  <2> QED BY <2>3, <2>4, <2>5, <2>6, <2>7 DEF TranscoderInv
<1>7. CASE layout[stream] = "audio"
  <2>1. Write(stream, layout[stream], number) /\ UNCHANGED <<at, decoding>>
    BY <1>1, <1>7
  <2>2. /\ Numbers(input', "video") = Numbers(input, "video")
        /\ Numbers(input', "audio") = Numbers(input, "audio") \cup {number}
    BY <1>4, <1>7
  <2>3. /\ number \notin Numbers(written, layout[stream])
        /\ Precedes(Numbers(written, layout[stream]), {number})
    BY <1>3, <1>4, <1>5, <1>7
  <2>4. /\ written' \in Seq(Packet) /\ Once(written)' /\ StreamsInv'
        /\ Numbers(written', layout[stream]) = Numbers(written, layout[stream]) \cup {number}
        /\ \A other : other # layout[stream] => Numbers(written', other) = Numbers(written, other)
    BY <1>2, <1>3, <2>1, <2>3, WriteInv
  <2>5. /\ Numbers(written', "audio") = Numbers(written, "audio") \cup {number}
        /\ Numbers(written', "video") = Numbers(written, "video")
    BY <1>7, <2>4
  <2>6. VideoInv'
    BY <1>2, <1>3, <2>1, <2>2, <2>5 DEF VideoInv
  <2>7. Typed'
    BY <1>2, <1>3, <1>4, <2>1, <2>4 DEF Typed
  <2>8. InputInv'
    BY <1>3, <1>4, <2>2, <2>5 DEF InputInv
  <2>9. StagesInv'
    BY <1>2, <2>1 DEF StagesInv
  <2> QED BY <2>4, <2>6, <2>7, <2>8, <2>9 DEF TranscoderInv
<1>8. CASE layout[stream] = "other"
  <2>1. UNCHANGED <<at, decoding, written>>
    BY <1>1, <1>8
  <2>2. /\ Numbers(input', "video") = Numbers(input, "video")
        /\ Numbers(input', "audio") = Numbers(input, "audio")
    BY <1>4, <1>8
  <2>3. VideoInv'
    BY <1>2, <1>3, <2>1, <2>2 DEF VideoInv
  <2>4. Typed'
    BY <1>2, <1>3, <1>4, <2>1 DEF Typed
  <2>5. InputInv'
    BY <1>3, <1>4, <2>1, <2>2 DEF InputInv
  <2>6. Once(written)' /\ StreamsInv'
    BY <1>2, <1>3, <2>1 DEF Once, StreamsInv
  <2>7. StagesInv'
    BY <1>2, <2>1 DEF StagesInv
  <2> QED BY <2>3, <2>4, <2>5, <2>6, <2>7 DEF TranscoderInv
<1> QED BY <1>1, <1>6, <1>7, <1>8

LEMMA TranscodeVideoInv ==
  ASSUME TranscoderInv, TranscodeVideo
  PROVE  TranscoderInv'
<1>1. /\ at = "decode" /\ video_index # 0
      /\ UNCHANGED <<layout, video_index, audio_index, encoder, input, written>>
  BY DEF TranscodeVideo, TranscoderInv, StagesInv
<1>2. /\ InputInv' /\ Once(written)' /\ StreamsInv'
      /\ layout' \in Layouts /\ input' \in Seq(InputPacket) /\ written' \in Seq(Packet)
  BY <1>1, OutputKept
<1>3. /\ Parted(Numbers(written, "video"), encoding, decoding, lost, Numbers(input, "video"))
      /\ decoding \subseteq Nat /\ encoding \subseteq Nat /\ lost \subseteq Nat
      /\ encoder \in {"none", "closed", "open"}
  BY DEF TranscoderInv, VideoInv, Typed
<1>4. CASE at' = "loop" /\ UNCHANGED <<decoding, encoding, lost>>
  <2>1. VideoInv'
    BY <1>1, <1>3, <1>4 DEF VideoInv
  <2>2. Typed' /\ StagesInv'
    BY <1>1, <1>2, <1>3, <1>4 DEF Typed, StagesInv
  <2> QED BY <1>2, <2>1, <2>2 DEF TranscoderInv
<1>5. ASSUME NEW frame \in decoding, decoding' = decoding \ {frame}, EncodeVideo(frame)
      PROVE  TranscoderInv'
  <2>1. \/ encoding' = encoding \cup {frame} /\ lost' = lost
        \/ encoding' = encoding /\ lost' = lost \cup {frame}
    BY <1>5 DEF EncodeVideo
  <2>2. at' \in {"decode", "encode", "crashed"}
    BY <1>1, <1>5 DEF EncodeVideo
  <2>3. VideoInv'
    BY <1>1, <1>3, <1>5, <2>1 DEF VideoInv, Parted
  <2>4. Typed'
    BY <1>1, <1>2, <1>3, <1>5, <2>1 DEF Typed
  <2>5. StagesInv'
    BY <1>1, <2>2 DEF StagesInv
  <2> QED BY <1>2, <2>3, <2>4, <2>5 DEF TranscoderInv
<1> QED BY <1>4, <1>5 DEF TranscodeVideo

LEMMA ReceivePacketInv ==
  ASSUME TranscoderInv, ReceivePacket
  PROVE  TranscoderInv'
<1>1. UNCHANGED <<layout, video_index, audio_index, encoder, input, decoding, lost>>
  BY DEF ReceivePacket
<1>2. /\ Parted(Numbers(written, "video"), encoding, decoding, lost, Numbers(input, "video"))
      /\ decoding \subseteq Nat /\ encoding \subseteq Nat /\ lost \subseteq Nat
      /\ Typed /\ Once(written) /\ StreamsInv
  BY DEF TranscoderInv, VideoInv, Typed
<1>3. ASSUME UNCHANGED <<encoding, written>>, at' \in {"decode", "done"},
             at' = "decode" => at = "encode", at' = "done" => encoding = {}
      PROVE  TranscoderInv'
  <2>1. /\ InputInv' /\ Once(written)' /\ StreamsInv'
        /\ layout' \in Layouts /\ input' \in Seq(InputPacket) /\ written' \in Seq(Packet)
    BY <1>1, <1>3, OutputKept
  <2>2. VideoInv'
    BY <1>1, <1>2, <1>3 DEF VideoInv
  <2>3. Typed'
    BY <1>1, <1>2, <1>3, <2>1 DEF Typed
  <2>4. StagesInv'
    BY <1>1, <1>3 DEF TranscoderInv, StagesInv
  <2> QED BY <2>1, <2>2, <2>3, <2>4 DEF TranscoderInv
<1>4. ASSUME NEW frame \in encoding, at \in {"encode", "flush"}, at' = at,
             Write(video_index, "video", frame), encoding' = encoding \ {frame}
      PROVE  TranscoderInv'
  <2>1. video_index # 0 /\ video_index \in DOMAIN layout /\ layout[video_index] = "video"
    BY <1>4 DEF TranscoderInv, StagesInv, StreamsInv
  <2>2. frame \in Nat /\ frame \notin Numbers(written, "video")
    BY <1>2, <1>4 DEF Parted
  <2>3. Write(video_index, layout[video_index], frame)
    BY <1>4, <2>1
  <2>4. /\ written' \in Seq(Packet) /\ Once(written)' /\ StreamsInv'
        /\ Numbers(written', layout[video_index]) = Numbers(written, layout[video_index]) \cup {frame}
        /\ \A other : other # layout[video_index] => Numbers(written', other) = Numbers(written, other)
    BY <1>1, <1>2, <2>1, <2>2, <2>3, WriteInv
  <2>5. /\ Numbers(written', "video") = Numbers(written, "video") \cup {frame}
        /\ Numbers(written', "audio") = Numbers(written, "audio")
    BY <2>1, <2>4
  <2>6. VideoInv'
    BY <1>1, <1>2, <1>4, <2>5 DEF VideoInv, Parted
  <2>7. Typed'
    BY <1>1, <1>2, <1>4, <2>4 DEF Typed
  <2>8. InputInv'
    BY <1>1, <2>5 DEF TranscoderInv, InputInv
  <2>9. StagesInv'
    BY <1>1, <1>4, <2>1 DEF StagesInv
  <2> QED BY <2>4, <2>6, <2>7, <2>8, <2>9 DEF TranscoderInv
<1> QED BY <1>3, <1>4 DEF ReceivePacket

LEMMA FlushInv ==
  ASSUME TranscoderInv, Flush
  PROVE  TranscoderInv'
<1>1. /\ at = "loop" /\ video_index # 0
      /\ UNCHANGED <<layout, video_index, audio_index, encoder, input, decoding, written>>
  BY DEF Flush, TranscoderInv, StagesInv
<1>2. /\ InputInv' /\ Once(written)' /\ StreamsInv'
      /\ layout' \in Layouts /\ input' \in Seq(InputPacket) /\ written' \in Seq(Packet)
  BY <1>1, OutputKept
<1>3. /\ Parted(Numbers(written, "video"), encoding, decoding, lost, Numbers(input, "video"))
      /\ decoding \subseteq Nat /\ encoding \subseteq Nat /\ lost \subseteq Nat
      /\ encoder \in {"none", "closed", "open"}
  BY DEF TranscoderInv, VideoInv, Typed
<1>4. \/ at' = "flush" /\ UNCHANGED <<encoding, lost>>
      \/ at' \in {"crashed", "done"} /\ lost' = lost \cup encoding /\ encoding' = {}
  BY DEF Flush
<1>5. VideoInv'
  BY <1>1, <1>3, <1>4 DEF VideoInv, Parted
<1>6. Typed'
  BY <1>1, <1>2, <1>3, <1>4 DEF Typed
<1>7. StagesInv'
  BY <1>1, <1>4 DEF StagesInv
<1> QED BY <1>2, <1>5, <1>6, <1>7 DEF TranscoderInv

LEMMA TranscoderNextInv == TranscoderInv /\ [TranscoderNext]_transcoderVars => TranscoderInv'
<1> SUFFICES ASSUME TranscoderInv, [TranscoderNext]_transcoderVars PROVE TranscoderInv'
  OBVIOUS
<1>1. ASSUME UNCHANGED <<layout, input, decoding, encoding, lost, written>>,
             encoder' \in {"none", "closed", "open"}, StreamsInv', StagesInv'
      PROVE  TranscoderInv'
  <2>1. VideoInv' /\ InputInv'
    BY <1>1 DEF TranscoderInv, VideoInv, InputInv
  <2>2. Typed' /\ Once(written)'
    BY <1>1 DEF TranscoderInv, Typed, Once
  <2> QED BY <1>1, <2>1, <2>2 DEF TranscoderInv
<1>2. encoder \in {"none", "closed", "open"} /\ layout \in Layouts
  BY DEF TranscoderInv, Typed
<1>3. CASE PrepareDecoder
  <2>1. /\ written = <<>> /\ at' = "encoder" /\ video_index' = LastOf("video")
        /\ UNCHANGED <<layout, encoder, input, decoding, encoding, lost, written>>
    BY <1>3 DEF PrepareDecoder, TranscoderInv, StagesInv
  <2>2. StreamsInv'
    BY <1>2, <2>1, LastOfIs DEF StreamsInv
  <2>3. StagesInv'
    BY <2>1 DEF StagesInv
  <2> QED BY <1>1, <1>2, <2>1, <2>2, <2>3
<1>4. CASE PrepareEncoder
  <2>1. /\ encoder' \in {"none", "closed", "open"} /\ at' \in {"crashed", "loop"}
        /\ at' = "loop" => video_index # 0
        /\ UNCHANGED <<layout, video_index, input, decoding, encoding, lost, written>>
    BY <1>2, <1>4 DEF PrepareEncoder
  <2>2. StreamsInv'
    BY <2>1 DEF TranscoderInv, StreamsInv
  <2>3. StagesInv'
    BY <2>1 DEF StagesInv
  <2> QED BY <1>1, <2>1, <2>2, <2>3
<1>5. CASE Fail
  <2>1. StagesInv' /\ StreamsInv'
    BY <1>5 DEF Fail, TranscoderInv, StagesInv, StreamsInv
  <2> QED BY <1>1, <1>2, <1>5, <2>1 DEF Fail
<1>6. CASE UNCHANGED transcoderVars
  <2>1. StagesInv' /\ StreamsInv'
    BY <1>6 DEF transcoderVars, TranscoderInv, StagesInv, StreamsInv
  <2> QED BY <1>1, <1>2, <1>6, <2>1 DEF transcoderVars
<1> QED
  BY <1>3, <1>4, <1>5, <1>6, ReadFrameInv, TranscodeVideoInv, ReceivePacketInv, FlushInv
  DEF TranscoderNext

(***************************************************************************)
(* The output follows the input: whatever the codecs keep back, for how    *)
(* long, and in whatever order they give it back, the loops of main,       *)
(* transcode_video and encode_video copy the audio in order and put every  *)
(* frame of the video into the output once, in the stream of its kind, or  *)
(* lose it in one of two ways: the encoder refuses it, or the decoder      *)
(* still holds it at the end.                                              *)
(***************************************************************************)
THEOREM TranscoderCorrect == TranscoderSpec => []OutputFollowsInput
<1>1. TranscoderInv => OutputFollowsInput
  <2> SUFFICES ASSUME TranscoderInv PROVE OutputFollowsInput
    OBVIOUS
  <2>1. OnceEach
    BY DEF TranscoderInv, Once, OnceEach
  <2>2. SameStreams => \A i \in DOMAIN written : OutputKinds[written[i].stream] = written[i].kind
    BY DEF TranscoderInv, StreamsInv, SameStreams
  <2> QED BY <2>1, <2>2 DEF OutputFollowsInput, TranscoderInv, InputInv, VideoInv, Parted, StagesInv
<1>2. TranscoderSpec => []TranscoderInv
  BY TranscoderInitInv, TranscoderNextInv, PTL DEF TranscoderSpec
<1> QED BY <1>1, <1>2, PTL
=============================================================================
