---------------------------- MODULE CryptoBuffer ----------------------------
(***************************************************************************)
(* The CRYPTO data a client or a server keeps for ngtcp2: Crypto::data and *)
(* acked_offset of each encryption level (quicsy_client.cc and             *)
(* quicsy_server.cc have the same code).  ngtcp2 is given the address of   *)
(* the bytes, not the bytes, so a buffer may be freed only when all its    *)
(* bytes are acknowledged.                                                 *)
(***************************************************************************)
EXTENDS Integers, Sequences

CONSTANTS Levels,      \* the encryption levels with CRYPTO data
          MaxCrypto    \* bound: the bytes of CRYPTO data of a level

ASSUME CryptoAssumption == MaxCrypto \in Nat

VARIABLES crypto_data,   \* per level, Crypto::data: the buffers in order, each
                         \* with its size and the offset ngtcp2 gave its bytes
          acked_offset,  \* per level, the offset of the first buffer
          submitted,     \* per level, ngtcp2's count of bytes submitted
          acked,         \* per level, the offset up to which all is acknowledged
          target,        \* per level, the offset of the call in progress, or -1
          discarded      \* the levels whose keys ngtcp2 has discarded

cryptoVars == <<crypto_data, acked_offset, submitted, acked, target, discarded>>

CryptoInit ==
  /\ crypto_data = [l \in Levels |-> <<>>]
  /\ acked_offset = [l \in Levels |-> 0]
  /\ submitted = [l \in Levels |-> 0]
  /\ acked = [l \in Levels |-> 0]
  /\ target = [l \in Levels |-> -1]
  /\ discarded = {}

\* The program is in a callback of ngtcp2 and does nothing else meanwhile.
InCall == \E l \in Levels : target[l] # -1

(***************************************************************************)
(* write_client_handshake, write_server_handshake: TLS has data to send.   *)
(***************************************************************************)
WriteHandshake(l, len) ==
  /\ ~InCall
  /\ l \notin discarded
  /\ submitted[l] + len <= MaxCrypto
  /\ crypto_data' = [crypto_data EXCEPT ![l] =
                       Append(@, [offset |-> submitted[l], size |-> len])]
  /\ submitted' = [submitted EXCEPT ![l] = @ + len]
  /\ UNCHANGED <<acked_offset, acked, target, discarded>>

(***************************************************************************)
(* acked_crypto_offset: ngtcp2 tells how far all bytes are acknowledged.   *)
(* Its packets cut the data anywhere, so this is seldom a buffer's end.    *)
(***************************************************************************)
AckedCryptoOffset(l, datalen) ==
  /\ ~InCall
  /\ l \notin discarded
  /\ acked[l] + datalen <= submitted[l]
  /\ acked' = [acked EXCEPT ![l] = @ + datalen]
  /\ target' = [target EXCEPT ![l] = acked[l] + datalen]
  /\ UNCHANGED <<crypto_data, acked_offset, submitted, discarded>>

(* Mutant: a buffer is freed as soon as some of it is acknowledged. *)
FrontTouched(l) ==
  /\ crypto_data[l] # <<>>
  /\ acked_offset[l] < target[l]

\* The condition of remove_tx_stream_data's loop.
FrontDone(l) ==
  /\ crypto_data[l] # <<>>
  /\ acked_offset[l] + Head(crypto_data[l]).size <= target[l]

\* One turn of the loop.
RemoveFront(l) ==
  /\ target[l] # -1
  /\ FrontDone(l)
  /\ acked_offset' = [acked_offset EXCEPT ![l] = @ + Head(crypto_data[l]).size]
  /\ crypto_data' = [crypto_data EXCEPT ![l] = Tail(@)]
  /\ UNCHANGED <<submitted, acked, target, discarded>>

\* The loop ends and the callback returns.
RemoveReturn(l) ==
  /\ target[l] # -1
  /\ ~FrontDone(l)
  /\ target' = [target EXCEPT ![l] = -1]
  /\ UNCHANGED <<crypto_data, acked_offset, submitted, acked, discarded>>

(***************************************************************************)
(* ngtcp2 discards the keys of a level and forgets its data.  Nothing      *)
(* tells the program: its buffers stay until the connection ends.          *)
(***************************************************************************)
DiscardKeys(l) ==
  /\ ~InCall
  /\ discarded' = discarded \cup {l}
  /\ UNCHANGED <<crypto_data, acked_offset, submitted, acked, target>>

CryptoNext ==
  \E l \in Levels :
    \/ \E len \in 1 .. MaxCrypto : WriteHandshake(l, len)
    \/ \E datalen \in 1 .. MaxCrypto : AckedCryptoOffset(l, datalen)
    \/ RemoveFront(l)
    \/ RemoveReturn(l)
    \/ DiscardKeys(l)

CryptoSpec == CryptoInit /\ [][CryptoNext]_cryptoVars

-----------------------------------------------------------------------------
\* The bytes ngtcp2 may still read, to send them or to send them again.
Readable(l) == acked[l] .. submitted[l] - 1

\* The bytes buffer b holds.
Bytes(b) == b.offset .. b.offset + b.size - 1

(***************************************************************************)
(* Whatever the sizes of the buffers and of the packets, the bytes ngtcp2  *)
(* may read are in a buffer that still exists, and outside a call the      *)
(* buffers that are wholly acknowledged are gone: remove_tx_stream_data    *)
(* counts by sizes what ngtcp2 counts by offsets.                          *)
(***************************************************************************)
BytesKept ==
  \A l \in Levels \ discarded :
    /\ \A byte \in Readable(l) :
         \E i \in DOMAIN crypto_data[l] : byte \in Bytes(crypto_data[l][i])
    /\ target[l] = -1 =>
         \A i \in DOMAIN crypto_data[l] :
           crypto_data[l][i].offset + crypto_data[l][i].size > acked[l]

=============================================================================
