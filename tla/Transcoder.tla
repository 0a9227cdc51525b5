----------------------------- MODULE Transcoder -----------------------------
(***************************************************************************)
(* src/streaming/transcoder.c: video is decoded and encoded again, audio   *)
(* is copied (sp.copy_audio is 1, so the code that transcodes audio is     *)
(* never reached).  A packet and the frame it holds are its number in the  *)
(* input.  A codec keeps frames as long as it likes and gives them back in *)
(* the order it likes: libx264 makes B-frames, whose packets leave in the  *)
(* order of decoding.  Streams are numbered from 1.                        *)
(***************************************************************************)
EXTENDS Integers, Sequences

CONSTANTS Layouts,     \* the inputs: the kinds of their streams, in order
          MaxPackets   \* bound: the packets in the input

VARIABLES layout,      \* the input
          at,          \* where main is
          video_index, audio_index,  \* decoder's, 0 until a stream is found
          encoder,     \* encoder->video_avcc: "none", "closed" or "open"
          input,       \* the packets read: kind and number
          decoding,    \* the frames in the decoder
          encoding,    \* the frames in the encoder
          lost,        \* the frames avcodec_send_frame refused to take or to flush
          written      \* the packets given to the muxer: stream, kind and number

StreamKinds == {"video", "audio", "other"}

ASSUME TranscoderAssumption == \A streams \in Layouts : streams \in Seq(StreamKinds)

transcoderVars == <<layout, at, video_index, audio_index, encoder, input,
                    decoding, encoding, lost, written>>

\* How main ends: with 0, with -1, or by a null pointer.
Finished == {"done", "failed", "crashed"}

\* The output has the streams main makes: video first, then audio.
OutputKinds == <<"video", "audio">>

TranscoderInit ==
  /\ layout \in Layouts
  /\ at = "open"
  /\ video_index = 0 /\ audio_index = 0
  /\ encoder = "none"
  /\ input = <<>> /\ decoding = {} /\ encoding = {} /\ lost = {} /\ written = <<>>

\* Almost every call of FFmpeg may fail, and most failures end main with -1,
\* without a trailer.
Fail ==
  /\ at \notin Finished
  /\ at' = "failed"
  /\ UNCHANGED <<layout, video_index, audio_index, encoder, input, decoding,
                 encoding, lost, written>>

-----------------------------------------------------------------------------
\* prepare_decoder: the last stream of each kind counts.
LastOf(kind) ==
  LET found == {i \in DOMAIN layout : layout[i] = kind}
  IN IF found = {} THEN 0 ELSE CHOOSE i \in found : \A j \in found : j <= i

PrepareDecoder ==
  /\ at = "open"
  /\ video_index' = LastOf("video")
  /\ audio_index' = LastOf("audio")
  /\ at' = "encoder"
  /\ UNCHANGED <<layout, encoder, input, decoding, encoding, lost, written>>

\* What prepare_video_encoder returns is not looked at: an encoder that is not
\* there or did not open is noticed by the muxer, or not at all.  Without a video
\* or an audio stream main follows a null pointer.
PrepareEncoder ==
  /\ at = "encoder"
  /\ IF video_index = 0 \/ audio_index = 0
     THEN at' = "crashed" /\ encoder' = encoder
     ELSE at' = "loop" /\ encoder' \in {"none", "closed", "open"}
  /\ UNCHANGED <<layout, video_index, audio_index, input, decoding, encoding, lost, written>>

-----------------------------------------------------------------------------
\* av_interleaved_write_frame refuses a stream the output does not have.
Accepts(stream) == stream \in DOMAIN OutputKinds

Write(stream, kind, number) ==
  /\ Accepts(stream)
  /\ written' = Append(written, [stream |-> stream, kind |-> kind, number |-> number])

\* One turn of main's loop over the packets of the input.  A video packet goes
\* into the decoder; an audio packet is remuxed and keeps the index it has in
\* the input.
ReadFrame ==
  /\ at = "loop"
  /\ Len(input) < MaxPackets
  /\ \E stream \in DOMAIN layout :
       LET number == Len(input) + 1 IN
       /\ input' = Append(input, [kind |-> layout[stream], number |-> number])
       /\ \/ /\ layout[stream] = "video"
             /\ decoding' = decoding \cup {number}
             /\ at' = "decode"
             /\ written' = written
          \/ /\ layout[stream] = "audio"
             /\ Write(stream, "audio", number)
             /\ UNCHANGED <<at, decoding>>
          \/ /\ layout[stream] = "other"
             /\ UNCHANGED <<at, decoding, written>>
  /\ UNCHANGED <<layout, video_index, audio_index, encoder, encoding, lost>>

\* encode_video gives a frame to the encoder.  If that fails it returns 0 all
\* the same, and the frame is lost.
EncodeVideo(frame) ==
  \/ /\ encoder = "open"
     /\ encoding' = encoding \cup {frame}
     /\ at' = "encode"
     /\ lost' = lost
  \/ /\ lost' = lost \cup {frame}
     /\ at' = IF encoder = "none" THEN "crashed" ELSE at
     /\ encoding' = encoding

\* One turn of transcode_video's loop: the decoder has a frame, or wants more.
TranscodeVideo ==
  /\ at = "decode"
  /\ \/ \E frame \in decoding : decoding' = decoding \ {frame} /\ EncodeVideo(frame)
     \/ at' = "loop" /\ UNCHANGED <<decoding, encoding, lost>>
  /\ UNCHANGED <<layout, video_index, audio_index, encoder, input, written>>

(* Mutant: the encoder is asked for one packet only. *)
ReceivePacketOnce ==
  /\ at \in {"encode", "flush"}
  /\ \/ \E frame \in encoding :
          /\ Write(video_index, "video", frame)
          /\ encoding' = encoding \ {frame}
     \/ UNCHANGED <<encoding, written>>
  /\ at' = IF at = "encode" THEN "decode" ELSE "done"
  /\ UNCHANGED <<layout, video_index, audio_index, encoder, input, decoding, lost>>

\* One turn of encode_video's loop: a packet is written with the index of the
\* input's video stream, the encoder wants more frames, or has given all back.
ReceivePacket ==
  /\ \/ \E frame \in encoding :
          /\ at \in {"encode", "flush"}
          /\ Write(video_index, "video", frame)
          /\ encoding' = encoding \ {frame}
          /\ at' = at
     \/ at = "encode" /\ at' = "decode" /\ UNCHANGED <<encoding, written>>
     \/ at = "flush" /\ encoding = {} /\ at' = "done" /\ UNCHANGED <<encoding, written>>
  /\ UNCHANGED <<layout, video_index, audio_index, encoder, input, decoding, lost>>

\* The input has ended: the encoder is flushed and the trailer written.  When the
\* encoder refuses, main returns 0 all the same.  The decoder is not flushed.
Flush ==
  /\ at = "loop"
  /\ \/ encoder = "open" /\ at' = "flush" /\ UNCHANGED <<encoding, lost>>
     \/ /\ at' = IF encoder = "none" THEN "crashed" ELSE "done"
        /\ lost' = lost \cup encoding
        /\ encoding' = {}
  /\ UNCHANGED <<layout, video_index, audio_index, encoder, input, decoding, written>>

TranscoderNext ==
  PrepareDecoder \/ PrepareEncoder \/ ReadFrame \/ TranscodeVideo \/ ReceivePacket \/ Flush \/ Fail

TranscoderSpec == TranscoderInit /\ [][TranscoderNext]_transcoderVars

-----------------------------------------------------------------------------
\* The numbers of the packets of a kind.
Numbers(packets, kind) ==
  {packets[i].number : i \in {j \in DOMAIN packets : packets[j].kind = kind}}

\* No packet is written twice, and the audio in the order of the input.
OnceEach ==
  \A i, j \in DOMAIN written :
    i < j /\ written[i].kind = written[j].kind =>
      /\ written[i].number # written[j].number
      /\ written[i].kind = "audio" => written[i].number < written[j].number

\* The input begins with the streams of the output.
SameStreams ==
  \A stream \in DOMAIN OutputKinds :
    stream \in DOMAIN layout /\ layout[stream] = OutputKinds[stream]

(***************************************************************************)
(* All the audio of the input is in the output, in order, and every frame  *)
(* of its video is in one place: written once, in a codec, or lost because *)
(* the encoder refused it.  When main returns 0 nothing is left in the     *)
(* encoder: what the output lacks was refused, or is in the decoder, which *)
(* is not flushed.  Each packet is in its own stream when the input begins *)
(* with video, then audio.                                                 *)
(***************************************************************************)
OutputFollowsInput ==
  LET done == Numbers(written, "video")
  IN /\ OnceEach
     /\ Numbers(written, "audio") = Numbers(input, "audio")
     /\ done \cup encoding \cup decoding \cup lost = Numbers(input, "video")
     /\ done \cap (encoding \cup decoding \cup lost) = {}
     /\ encoding \cap decoding = {} /\ (encoding \cup decoding) \cap lost = {}
     /\ at = "done" => encoding = {}
     /\ SameStreams => \A i \in DOMAIN written : OutputKinds[written[i].stream] = written[i].kind
=============================================================================
