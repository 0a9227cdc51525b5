----------------------------- MODULE MpdParser ------------------------------
(***************************************************************************)
(* parse_mpd of src/abr/mpd_parse.c: from the Period of an MPD to the URLs *)
(* of the segments of each bitrate level.  The document is chosen while it *)
(* is parsed.  The n-th Representation has bandwidth n, and its            *)
(* SegmentTemplate, if it says so, an initialization n and a media         *)
(* template n; a media template is known by the placeholders it contains.  *)
(***************************************************************************)
EXTENDS Integers, Sequences, FiniteSets

CONSTANTS Durations,      \* the Periods' durations: hours, minutes, seconds, -1 if absent
          Templates,      \* the SegmentTemplates: [attributes, duration, timescale,
                          \* start, placeholders]
          MaxLevels,      \* MAX_SUPPORTED_BITRATE_LEVELS
          MaxReps         \* bound: the Representations in a document

\* The attributes parse_mpd looks at; "index" is read as "initialization", and
\* an element has one media attribute at most.
TemplateAttributes ==
  {"duration", "timescale", "startNumber", "initialization", "media", "other"}

ASSUME MpdAssumption ==
  /\ \A d \in Durations : {d.hours, d.minutes, d.seconds} \subseteq Nat \cup {-1}
  /\ \A t \in Templates :
       /\ t.attributes \in Seq(TemplateAttributes)
       /\ \A i, j \in DOMAIN t.attributes :
            t.attributes[i] = "media" /\ t.attributes[j] = "media" => i = j
       /\ t.start \in Int /\ t.duration \in Nat /\ t.timescale \in Nat

VARIABLES step,        \* where parse_mpd is: "period", "set", "stuck", "done", "rejected"
          duration,    \* the Period's duration
          reps,        \* the Representations read: attributes and template
          mpd          \* parse_mpd's variables

mpdVars == <<step, duration, reps, mpd>>

NoUrl == 0

\* startNumber is 1, no template has been seen, and the manifest is all zero.
MpdInit ==
  /\ step = "period"
  /\ duration \in Durations
  /\ reps = <<>>
  /\ mpd = [dur |-> 0, segdur |-> 0, timescale |-> 0, bw |-> 0, sn |-> 1,
            init_url_template |-> NoUrl, levels |-> <<>>,
            init |-> 0, num_of_segments |-> 0, segments |-> <<>>]

-----------------------------------------------------------------------------
\* get_duration: atof is given the text from its beginning, "PT", unless there
\* are hours, and returns 0 for it.
OrNone(n) == IF n = -1 THEN 0 ELSE n

Seconds(d) ==
  IF d.hours # -1 THEN d.hours * 3600 + OrNone(d.minutes) * 60 + OrNone(d.seconds)
  ELSE IF d.minutes # -1 THEN OrNone(d.seconds)
  ELSE 0

ReadPeriod ==
  /\ step = "period"
  /\ mpd' = [mpd EXCEPT !.dur = Seconds(duration)]
  /\ step' = "set"
  /\ UNCHANGED <<duration, reps>>

(* Mutant: a level keeps the start number of the first. *)
MediaFirstStart(m, n) ==
  [m EXCEPT !.levels = Append(@, [bandwidth |-> m.bw, media |-> n,
                                  init_url |-> m.init_url_template,
                                  start |-> IF @ = <<>> THEN m.sn ELSE Head(@).start])]

\* The media attribute makes a level of what has been read by then.
Media(m, n) ==
  [m EXCEPT !.levels = Append(@, [bandwidth |-> m.bw, media |-> n,
                                  init_url |-> m.init_url_template, start |-> m.sn])]

\* One attribute of the n-th Representation's SegmentTemplate.
Attribute(m, name, n, template) ==
  CASE name = "duration" -> [m EXCEPT !.segdur = template.duration]
    [] name = "timescale" -> [m EXCEPT !.timescale = template.timescale]
    [] name = "startNumber" -> [m EXCEPT !.sn = template.start]
    [] name = "initialization" -> [m EXCEPT !.init_url_template = n]
    [] name = "media" -> Media(m, n)
    [] OTHER -> m

\* All of them, from the first to the last.
Attributes(m, n, template) ==
  LET attributes == template.attributes
      read[i \in 0 .. Len(attributes)] ==
        IF i = 0 THEN m ELSE Attribute(read[i - 1], attributes[i], n, template)
  IN read[Len(attributes)]

\* ceil(dur / (segdur / timescale)), in floats: exact for segments of whole
\* seconds, and one more or less when segdur / timescale was rounded.
Quotients(dur, segdur, timescale) ==
  LET exact == (dur * timescale + segdur - 1) \div segdur
  IN IF timescale = 0 \/ dur = 0 THEN {0}
     ELSE IF segdur % timescale = 0 THEN {exact}
     ELSE {exact - 1, exact, exact + 1}

\* Without a segdur it is infinite or no number, which as an int is INT_MIN.
IntMin == -1

NumbersOfSegments(dur, segdur, timescale, init) ==
  IF segdur = 0 THEN {IntMin} ELSE {count + init : count \in Quotients(dur, segdur, timescale)}

Counted(m, init, num) == [m EXCEPT !.init = init, !.num_of_segments = num]

\* The attributes of a SegmentTemplate, then the number of segments, which is
\* that of the last template for every level.
SegmentTemplate(m, n, template) ==
  LET read == Attributes(m, n, template)
      init == IF read.init_url_template = NoUrl THEN 0 ELSE 1
  IN {Counted(read, init, num) :
        num \in NumbersOfSegments(read.dur, read.segdur, read.timescale, init)}

\* A Representation: the loop looks for bandwidth without going on to the next
\* attribute, so it ends only if that is the first, or there is none.
ReadRepresentation ==
  /\ step = "set"
  /\ Len(reps) < MaxReps
  /\ \E attributes \in {<<>>, <<"bandwidth", "id">>, <<"id", "bandwidth">>},
        template \in Templates :
       LET n == Len(reps) + 1 IN
       /\ reps' = Append(reps, [attributes |-> attributes, template |-> template])
       /\ IF attributes # <<>> /\ Head(attributes) # "bandwidth"
          THEN step' = "stuck" /\ mpd' = mpd
          ELSE /\ step' = step
               /\ mpd' \in SegmentTemplate(IF attributes = <<>> THEN mpd ELSE [mpd EXCEPT !.bw = n],
                                           n, template)
  /\ UNCHANGED duration

-----------------------------------------------------------------------------
\* str_replace of the first placeholder that is found, bandwidth or id (which
\* is always empty), then of the number.
MediaUrl(level, number) ==
  LET placeholders == reps[level.media].template.placeholders
  IN [media |-> level.media,
      bandwidth |-> IF "Bandwidth" \in placeholders THEN level.bandwidth ELSE 0,
      number |-> IF "Number" \in placeholders THEN number ELSE 0]

InitUrl(level) == [media |-> level.init_url, bandwidth |-> 0, number |-> -1]

\* What malloc returned.
Garbage == [media |-> 0, bandwidth |-> 0, number |-> -2]

\* The URLs of a level, at their index from 0 as in the code.
Segments(level) ==
  [k \in 0 .. mpd.num_of_segments - 1 |->
     IF k >= mpd.init THEN MediaUrl(level, level.start + k - mpd.init)
     ELSE IF level.init_url # NoUrl THEN InitUrl(level)
     ELSE Garbage]

\* An AdaptationSet ends: too many levels so far end the parser.
EndSet ==
  /\ step = "set"
  /\ reps # <<>>
  /\ Len(mpd.levels) >= MaxLevels
  /\ step' = "rejected"
  /\ UNCHANGED <<duration, reps, mpd>>

\* The document ends: the segments of each level are named, unless their number
\* is negative.
EndMpd ==
  /\ step = "set"
  /\ Len(mpd.levels) < MaxLevels
  /\ IF mpd.num_of_segments < 0
     THEN step' = "rejected" /\ mpd' = mpd
     ELSE /\ step' = "done"
          /\ mpd' = [mpd EXCEPT !.segments = [j \in DOMAIN mpd.levels |-> Segments(mpd.levels[j])]]
  /\ UNCHANGED <<duration, reps>>

MpdNext == ReadPeriod \/ ReadRepresentation \/ EndSet \/ EndMpd

MpdSpec == MpdInit /\ [][MpdNext]_mpdVars

-----------------------------------------------------------------------------
Before(template, name) ==
  \E i, j \in DOMAIN template.attributes :
    i < j /\ template.attributes[i] = name /\ template.attributes[j] = "media"

\* The Representation gives its bandwidth, and all else a level needs before media.
Complete(rep) ==
  /\ rep.attributes # <<>>
  /\ Before(rep.template, "initialization")
  /\ Before(rep.template, "startNumber")

Total == duration.hours * 3600 + OrNone(duration.minutes) * 60 + OrNone(duration.seconds)

\* The URLs are those the n-th Representation declares.
Declares(n, template, urls) ==
  /\ urls[0] = [media |-> n, bandwidth |-> 0, number |-> -1]
  /\ \A k \in DOMAIN urls \ {0} :
       /\ urls[k].media = n
       /\ "Bandwidth" \in template.placeholders => urls[k].bandwidth = n
       /\ "Number" \in template.placeholders => urls[k].number = template.start + k - 1

\* The segments last duration / timescale each, by the template's own attributes.
Timed(template) ==
  /\ \E i \in DOMAIN template.attributes : template.attributes[i] = "duration"
  /\ \E i \in DOMAIN template.attributes : template.attributes[i] = "timescale"
  /\ template.timescale > 0

\* So many segments, one more or less if they are of no whole seconds, are as
\* many as a time needs.
Fills(template, total, count) ==
  LET slack == IF template.duration % template.timescale = 0 THEN 0 ELSE template.duration
  IN count * template.duration \in
       total * template.timescale - slack
         .. total * template.timescale + template.duration - 1 + slack

AsLong(template, last) ==
  /\ Timed(template) /\ Timed(last)
  /\ template.duration = last.duration /\ template.timescale = last.timescale

(***************************************************************************)
(* Whatever the other Representations give, late or not at all: a complete *)
(* one gets the URLs it declares, first its own initialization, then one   *)
(* segment after the other from its own startNumber and with its own       *)
(* bandwidth.  The levels are in the order of the document.  parse_mpd     *)
(* keeps its variables from one Representation to the next.  The number of *)
(* segments is that of the last Representation for all: they fill the      *)
(* Period, if its duration has hours, for one that declares segments as    *)
(* long as those the last declares, and not for others.                    *)
(***************************************************************************)
SegmentsAsDeclared ==
  step = "done" =>
    /\ \A i, j \in DOMAIN mpd.levels : i < j => mpd.levels[i].media < mpd.levels[j].media
    /\ \A n \in DOMAIN reps :
         Complete(reps[n]) =>
           \E j \in DOMAIN mpd.levels :
             /\ mpd.levels[j].media = n
             /\ Declares(n, reps[n].template, mpd.segments[j])
             /\ duration.hours >= 0 /\ AsLong(reps[n].template, reps[Len(reps)].template) =>
                  Fills(reps[n].template, Total, Cardinality(DOMAIN mpd.segments[j]) - 1)
=============================================================================
