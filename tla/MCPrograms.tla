----------------------------- MODULE MCPrograms -----------------------------
(***************************************************************************)
(* The parts and programs that share no state with the rest, each on a     *)
(* small instance: a behaviour is of one of them, and the others have      *)
(* nothing to do.                                                          *)
(***************************************************************************)
EXTENDS CryptoBuffer, TcpFile, Transcoder, MpdParser, Options

VARIABLES program,   \* the one that runs
          number,    \* Util: a number that is formatted
          text       \* Util: a text that is parsed

vars == <<cryptoVars, tcpVars, transcoderVars, mpdVars, optionsVars, program, number, text>>

-----------------------------------------------------------------------------
TheLayouts == {<<"video", "audio">>, <<"audio", "video">>, <<"video">>,
               <<"video", "audio", "audio">>, <<"video", "other", "audio">>}

Duration(h, m, s) == [hours |-> h, minutes |-> m, seconds |-> s]

TheDurations == {Duration(0, 0, 3), Duration(0, 0, 4), Duration(-1, -1, 3), Duration(-1, 1, 3), Duration(0, -1, 5)}

Template(attributes, segdur, timescale, start, placeholders) ==
  [attributes |-> attributes, duration |-> segdur, timescale |-> timescale,
   start |-> start, placeholders |-> placeholders]

\* Segments of 2 seconds, written in two ways, of 3/2 seconds, and of what the
\* Representation before has left.
TheTemplates ==
  {Template(<<"duration", "timescale", "startNumber", "initialization", "media">>, 2, 1, 0, {"Number"}),
   Template(<<"startNumber", "initialization", "media", "timescale", "duration">>, 3, 2, 5, {"Number", "Bandwidth"}),
   Template(<<"initialization", "media", "startNumber", "duration">>, 4, 2, 2, {"Number"}),
   Template(<<"timescale", "media">>, 1, 2, 1, {"Number", "id"}),
   Template(<<"initialization", "other", "timescale">>, 2, 0, 3, {})}

\* The units keep their ratios' divisibility, not their sizes.
TheWorth ==
  [unit \in SizeUnits \cup DurationUnits |->
     CASE unit = "K" -> 4 [] unit = "M" -> 16 [] unit = "G" -> 64
       [] unit = "ns" -> 1 [] unit = "us" -> 2 [] unit = "ms" -> 4
       [] unit = "s" -> 8 [] unit = "m" -> 24 [] unit = "h" -> 48]

Text(digits, rest) == [negative |-> FALSE, digits |-> digits, rest |-> rest]

Minus(t) == [t EXCEPT !.negative = TRUE]

TheTexts ==
  {[negative |-> negative, digits |-> digits, rest |-> rest] :
     negative \in BOOLEAN, digits \in UNION {[1 .. k -> {0, 2, 5, 6}] : k \in 0 .. 3},
     rest \in SizeUnits \cup DurationUnits \cup {NoUnit, "x"}}

TheOptions == {"quiet", "early_response", "timeout", "max_data", "max_streams_bidi",
               "nstreams", "dcid", "htdocs", "data"}

TheCounts == {Text(<<>>, "x"), Text(<<3>>, NoUnit), Text(<<9, 9, 9>>, NoUnit),
              Minus(Text(<<1>>, NoUnit))}

TheArguments ==
  [flag |-> {Text(<<>>, NoUnit)}, optarg |-> {Text(<<>>, NoUnit)}, text |-> {Text(<<1>>, NoUnit)},
   path |-> {Text(<<1>>, NoUnit), Text(<<1>>, "invalid")}, address |-> {Text(<<1>>, NoUnit)},
   cid |-> {Text(<<1, 5>>, NoUnit), Text(<<1, 6>>, NoUnit), Text(<<3, 6>>, NoUnit), Text(<<3, 8>>, NoUnit)},
   count |-> TheCounts, long |-> TheCounts \cup {Text(<<0>>, NoUnit), Minus(Text(<<9, 9, 9>>, NoUnit))},
   size |-> {Text(<<>>, NoUnit), Text(<<6, 3>>, "K"), Text(<<6, 4>>, "K"), Text(<<2, 5, 5>>, NoUnit),
             Text(<<2, 5, 6>>, NoUnit), Text(<<1>>, "s")},
   duration |-> {Text(<<5>>, NoUnit), Text(<<5>>, "h"), Text(<<6>>, "h"), Text(<<3, 1>>, "s"),
                 Text(<<3>>, "K"), Minus(Text(<<3>>, "s"))}]

-----------------------------------------------------------------------------
\* The programs that do not run have ended, or wait for ever for a first step.
TcpIdle ==
  /\ present = TRUE /\ openable = TRUE /\ exist = 1 /\ told = 1
  /\ server = "end" /\ client = "end"
  /\ position = 0 /\ named = FALSE /\ answer = <<>> /\ wire = <<>>
  /\ output = <<>> /\ hole = FALSE /\ killed = TRUE

TranscoderIdle == TranscoderInit /\ layout = <<"video">>

MpdIdle == MpdInit /\ duration = Duration(0, 0, 3)

OptionsIdle == OptionsInit /\ main = "client"

UtilIdle == number = 0 /\ text = Text(<<0>>, NoUnit)

Init ==
  /\ program \in {"crypto", "tcp", "transcoder", "mpd", "options", "util"}
  /\ CryptoInit
  /\ IF program = "tcp" THEN TcpInit ELSE TcpIdle
  /\ IF program = "transcoder" THEN TranscoderInit ELSE TranscoderIdle
  /\ IF program = "mpd" THEN MpdInit ELSE MpdIdle
  /\ IF program = "options" THEN OptionsInit ELSE OptionsIdle
  /\ IF program = "util"
     THEN \/ number \in 0 .. MaxUint /\ text = Text(<<0>>, NoUnit)
          \/ number = 0 /\ text \in TheTexts
     ELSE UtilIdle

Crypto ==
  /\ program = "crypto" /\ CryptoNext
  /\ UNCHANGED <<tcpVars, transcoderVars, mpdVars, optionsVars>>

Tcp ==
  /\ program = "tcp" /\ TcpNext
  /\ UNCHANGED <<cryptoVars, transcoderVars, mpdVars, optionsVars>>

Transcode ==
  /\ program = "transcoder" /\ TranscoderNext
  /\ UNCHANGED <<cryptoVars, tcpVars, mpdVars, optionsVars>>

Mpd ==
  /\ program = "mpd" /\ MpdNext
  /\ UNCHANGED <<cryptoVars, tcpVars, transcoderVars, optionsVars>>

CommandLine ==
  /\ program = "options" /\ OptionsNext
  /\ UNCHANGED <<cryptoVars, tcpVars, transcoderVars, mpdVars>>

Next ==
  /\ Crypto \/ Tcp \/ Transcode \/ Mpd \/ CommandLine
  /\ UNCHANGED <<program, number, text>>

Spec == Init /\ [][Next]_vars /\ TcpFairness

(***************************************************************************)
(* util.cc, for every number up to the limit and every text of up to three *)
(* digits and a unit: see ReadsAs in Util.                                 *)
(***************************************************************************)
NumbersReadBack == text # Text(<<>>, NoUnit) => ReadsAs(number, text)
=============================================================================
