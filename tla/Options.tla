------------------------------ MODULE Options -------------------------------
(***************************************************************************)
(* From the command line to config: main of quicsy_client.cc and           *)
(* quicsy_server.cc up to the event loop.  Options are taken one by one,   *)
(* and a bad argument ends the program.  An option is of a kind, which     *)
(* says how its argument is read; those whose argument is kept as it is    *)
(* (ciphers, groups, files and directories) are of kind "text".  An        *)
(* argument is a text of Util, and a string with no number in it is known  *)
(* by a number of its own.                                                 *)
(***************************************************************************)
EXTENDS Util

CONSTANTS Given,       \* the options a command line may have
          Arguments,   \* kind |-> the arguments such an option may be given
          MaxOptions   \* bound: the options on a command line

VARIABLES main,        \* which program: "client" or "server"
          parsing,     \* where main is
          line,        \* the options taken so far, with their arguments
          config,      \* config, by option
          data,        \* client: config.datalen, -1 while config.data is null
          requests,    \* client: the number of URIs
          nstreams     \* client: config.nstreams as the event loop sees it

optionsVars == <<main, parsing, line, config, data, requests, nstreams>>

OptionKinds == {"flag", "optarg", "duration", "size", "count", "long",
                "cid", "address", "path", "text"}

\* An argument is a text, whatever the option.
ASSUME OptionsAssumption == \A kind \in OptionKinds : \A arg \in Arguments[kind] : IsText(arg)

ClientKinds ==
  [quiet |-> "flag", show_secret |-> "flag", nat_rebinding |-> "flag",
   no_preferred_addr |-> "flag", no_quic_dump |-> "flag", no_http_dump |-> "flag",
   exit_on_first_stream_close |-> "flag", disable_early_data |-> "flag",
   timeout |-> "duration", change_local_addr |-> "duration", key_update |-> "duration",
   delay_stream |-> "duration", max_data |-> "size",
   max_stream_data_bidi_local |-> "size", max_stream_data_bidi_remote |-> "size",
   max_stream_data_uni |-> "size", max_streams_bidi |-> "count",
   max_streams_uni |-> "count", nstreams |-> "long", dcid |-> "cid",
   ciphers |-> "text", groups |-> "text", session_file |-> "text", tp_file |-> "text",
   http_method |-> "text", key |-> "text", cert |-> "text", download |-> "text",
   qlog_file |-> "text", data |-> "text"]

ServerKinds ==
  [quiet |-> "flag", show_secret |-> "flag", validate_addr |-> "flag",
   verify_client |-> "flag", no_quic_dump |-> "flag", no_http_dump |-> "flag",
   early_response |-> "optarg", timeout |-> "duration", max_data |-> "size",
   max_stream_data_bidi_local |-> "size", max_stream_data_bidi_remote |-> "size",
   max_stream_data_uni |-> "size", max_dyn_length |-> "size",
   max_streams_bidi |-> "count", max_streams_uni |-> "count",
   preferred_ipv4_addr |-> "address", preferred_ipv6_addr |-> "address",
   htdocs |-> "path", ciphers |-> "text", groups |-> "text",
   mime_types_file |-> "text", qlog_dir |-> "text"]

Kinds == IF main = "client" THEN ClientKinds ELSE ServerKinds

\* A value is a number, and so are a bool (0 or 1) and a text (its identity).
\* Unset stands for the defaults that are neither 0 nor false.
Unset == -2

\* config_set_default.
Default(o) ==
  IF Kinds[o] \in {"flag", "optarg", "cid", "address"} \/ o = "nstreams" THEN 0 ELSE Unset

ConfigSetDefault == [o \in DOMAIN Kinds |-> Default(o)]

OptionsInit ==
  /\ main \in {"client", "server"}
  /\ parsing = "options"
  /\ line = <<>>
  /\ config = ConfigSetDefault
  /\ data = -1
  /\ requests = 0
  /\ nstreams = 0

-----------------------------------------------------------------------------
\* The C library's strtoull and strtol: what follows the digits is not looked at,
\* and no digits are 0.  Too many digits are ULLONG_MAX, or the nearest long; with
\* a minus sign strtoull gives the value modulo 2^64.
Signed(text) == IF text.negative THEN 0 - Number(text.digits) ELSE Number(text.digits)

strtoull(text) ==
  IF Number(text.digits) > MaxUint THEN MaxUint ELSE Wrap(Signed(text))

MaxLong == MaxUint \div 2

MinLong == -MaxLong - 1

strtol(text) ==
  IF Signed(text) > MaxLong THEN MaxLong
  ELSE IF Signed(text) < MinLong THEN MinLong ELSE Signed(text)

\* --dcid: an even number of hexadecimal digits, for 8 to 18 bytes (the number
\* of the text is how many it has).
DcidLength(digits) ==
  IF digits % 2 # 0 \/ digits \div 2 < 8 \/ digits \div 2 > 18 THEN Error ELSE digits \div 2

\* How an argument is read: Error for one that main refuses.  realpath and
\* parse_host_port refuse what is invalid by their rules.  A flag has no
\* argument: optarg is null, which as a bool is false.
Read(kind, arg) ==
  CASE kind = "flag" -> 1
    [] kind = "optarg" -> 0
    [] kind = "duration" -> parse_duration(arg)
    [] kind = "size" -> parse_uint_iec(arg)
    [] kind = "count" -> strtoull(arg)
    [] kind = "long" -> Wrap(strtol(arg))   \* nstreams is a size_t
    [] kind = "cid" -> DcidLength(Number(arg.digits))
    [] kind \in {"path", "address"} /\ arg.rest = "invalid" -> Error
    [] OTHER -> Number(arg.digits)

(* Mutant: an option keeps the first value it is given. *)
TakeOptionFirst(o, arg) ==
  LET value == Read(Kinds[o], arg) IN
  /\ line' = Append(line, [option |-> o, arg |-> arg])
  /\ IF value = Error
     THEN parsing' = "failed" /\ config' = config
     ELSE /\ parsing' = parsing
          /\ config' = IF \E i \in DOMAIN line : line[i].option = o THEN config
                       ELSE [config EXCEPT ![o] = value]

\* One turn of the loop over the options.
TakeOption(o, arg) ==
  LET value == Read(Kinds[o], arg) IN
  /\ line' = Append(line, [option |-> o, arg |-> arg])
  /\ IF value = Error
     THEN parsing' = "failed" /\ config' = config
     ELSE parsing' = parsing /\ config' = [config EXCEPT ![o] = value]

NextOption ==
  /\ parsing = "options"
  /\ Len(line) < MaxOptions
  /\ \E o \in DOMAIN Kinds \cap Given :
       \E arg \in Arguments[Kinds[o]] : TakeOption(o, arg)
  /\ UNCHANGED <<main, data, requests, nstreams>>

\* --help shows the defaults and exits; an unknown option exits too.
HelpOrUnknown ==
  /\ parsing = "options"
  /\ \/ parsing' = "help" /\ config' = ConfigSetDefault
     \/ parsing' = "failed" /\ config' = config
  /\ UNCHANGED <<main, line, data, requests, nstreams>>

\* The options have ended: there must be an address and a port, and for a
\* server a key and a certificate, in which the numbers are not looked at.
EndOptions ==
  /\ parsing = "options"
  /\ \/ parsing' = "failed"
     \/ parsing' = IF main = "client" THEN "data" ELSE "run"
  /\ UNCHANGED <<main, line, config, data, requests, nstreams>>

\* --data: the file is opened and mapped; mmap refuses an empty one.
OpenData ==
  /\ parsing = "data"
  /\ IF config.data = Unset THEN parsing' = "requests" /\ data' = data
     ELSE \/ parsing' = "failed" /\ data' = data
          \/ \E size \in 0 .. 2 :
               /\ parsing' = IF size = 0 THEN "failed" ELSE "requests"
               /\ data' = IF size = 0 THEN data ELSE size
  /\ UNCHANGED <<main, line, config, requests, nstreams>>

\* No --nstreams, or 0, means the number of URIs.
DefaultNstreams(uris) ==
  IF config.nstreams = 0 THEN uris ELSE config.nstreams

\* parse_requests: a URI without scheme or host ends the program.
ParseRequests ==
  /\ parsing = "requests"
  /\ \/ parsing' = "failed" /\ UNCHANGED <<requests, nstreams>>
     \/ \E uris \in 0 .. 2 :
          /\ parsing' = "run"
          /\ requests' = uris
          /\ nstreams' = DefaultNstreams(uris)
  /\ UNCHANGED <<main, line, config, data>>

OptionsNext == NextOption \/ HelpOrUnknown \/ EndOptions \/ OpenData \/ ParseRequests

OptionsSpec == OptionsInit /\ [][OptionsNext]_optionsVars

-----------------------------------------------------------------------------
\* The places of an option on the command line.
Places(o) == {i \in DOMAIN line : line[i].option = o}

\* The last argument an option was given.
LastGiven(o) ==
  LET last == CHOOSE i \in Places(o) : \A j \in Places(o) : j <= i IN line[last].arg

\* What the number of a count means when the greatest of its type is max.
Counts(arg, max, value) ==
  value = IF Number(arg.digits) <= max THEN Number(arg.digits) ELSE max

\* What an argument means, for the kinds whose reading could go wrong.  A negative
\* count and a duration without a unit mean nothing: the code takes the first
\* modulo 2^64, and the second as nanoseconds where --help says seconds.
Means(kind, arg, value) ==
  CASE kind = "duration" -> arg.rest # NoUnit => value = Says(arg) /\ ~arg.negative
    [] kind = "size" -> value = Says(arg) /\ ~arg.negative
    [] kind = "count" -> ~arg.negative => Counts(arg, MaxUint, value)
    [] kind = "long" -> ~arg.negative => Counts(arg, MaxLong, value)
    [] kind = "cid" -> value \in 8 .. 18 /\ 2 * value = Number(arg.digits)
    [] kind = "flag" -> value = 1
    [] kind = "optarg" -> value \in {0, 1}
    [] OTHER -> value = Number(arg.digits)

(***************************************************************************)
(* A program that gets as far as its event loop does what its command line *)
(* says: each option has its default or the meaning of its last argument,  *)
(* in full and not modulo 2^64; and a client makes the number of requests  *)
(* last asked for, or one for each URI if none or 0 was, and has data      *)
(* exactly if it was given some.                                           *)
(***************************************************************************)
ConfigFollowsLine ==
  parsing = "run" =>
    /\ \A o \in DOMAIN Kinds :
         IF Places(o) = {} THEN config[o] = Default(o)
         ELSE Means(Kinds[o], LastGiven(o), config[o])
    /\ main = "client" =>
         /\ (data > 0) <=> (Places("data") # {})
         /\ IF Places("nstreams") = {} \/ Number(LastGiven("nstreams").digits) = 0
            THEN nstreams = requests
            ELSE ~LastGiven("nstreams").negative =>
                   Counts(LastGiven("nstreams"), MaxLong, nstreams)

(***************************************************************************)
(* A server started with --early-response answers early: "early_response   *)
(* is true if server starts sending response when it receives HTTP header  *)
(* fields without waiting for request body" (server.h).  The code assigns  *)
(* optarg, which is null for an option without an argument.                *)
(***************************************************************************)
EarlyResponseObeyed ==
  main = "server" /\ parsing = "run" /\ Places("early_response") # {} =>
    config.early_response = 1
=============================================================================
