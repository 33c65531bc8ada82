----------------------------- MODULE ChannelPlan -----------------------------
(***************************************************************************)
(* The channel a capture is tuned to, and what it says of its coverage     *)
(* (channel.py; live.py's definitions, tune commands and coverage): a      *)
(* definition is requested, replaced where the adapter cannot have it,     *)
(* tuned, read back, and from then on compared with the definition that    *)
(* every beacon on the selected primary advertises.                        *)
(*                                                                         *)
(* Frequencies are MHz.  complete stands for complete and not ambiguous,   *)
(* which every constructor sets together; punct is the set of the bits of  *)
(* puncturing_bitmap.                                                      *)
(***************************************************************************)
EXTENDS Optional, Integers, Sequences, FiniteSets

CONSTANTS
  Requests,      \* a capture's options: [band, primary, width, centers], width None for auto
  Adapters,      \* RadioCapabilities: [widths, frequencies, puncturing, known]; known is
                 \* source_complete
  Channels,      \* of a band, definitions that its access points have, or a radio had before
  Stations,      \* BSSIDs
  Retention,     \* window_seconds of the analyzer
  MaxSeconds     \* bound: seconds of capture

VARIABLES
  plan,       \* run_live: phase, requested, initial, actual, fallback, verified
  coverage,   \* CoverageDecision: covered, partial, status
  lastSeen,   \* bssid_last_seen, None where a BSSID is not in it
  now,        \* last_bssid_prune_second: the second of the last beacon
  evidence    \* the channel a BSSID had at its last conclusive beacon, and when

planVars == <<plan, coverage, lastSeen, now, evidence>>

-----------------------------------------------------------------------------
(* Channel definitions.                                                    *)

Split == 8080  \* ChannelWidth.MHZ80P80

_continuous_centers(center, mhz) ==
  {center - (mhz \div 20 - 1) * 10 + 20 * i : i \in 0..(mhz \div 20 - 1)}

\* active_20mhz_centers: bit i punctures the i-th centre from below.
active_20mhz_centers(d) ==
  LET whole == UNION {_continuous_centers(d.centers[i], IF d.width = Split THEN 80 ELSE d.width)
                        : i \in DOMAIN d.centers}
  IN {c \in whole : Cardinality({b \in whole : b < c}) \notin d.punct}

contains(d, other) ==
  d.primary = other.primary /\ active_20mhz_centers(other) \subseteq active_20mhz_centers(d)

same_tuning(d, other) ==
  /\ d.primary = other.primary /\ d.width = other.width
  /\ d.centers = other.centers /\ d.punct = other.punct

Definition(primary, width, centers) ==
  [primary |-> primary, width |-> width, centers |-> centers, punct |-> {}, complete |-> TRUE]
Ht20(primary) == Definition(primary, 20, <<primary>>)

\* The channel numbers that have a frequency.
Numbers(band) == CASE band = "2.4" -> 1..14 [] band = "5" -> 1..184 [] band = "6" -> -5..235

channel_to_frequency(channel, band) ==
  IF channel \notin Numbers(band) THEN None
  ELSE CASE band = "2.4" -> IF channel = 14 THEN 2484 ELSE 2407 + channel * 5
         [] band = "5"   -> 5000 + channel * 5
         [] band = "6"   -> 5950 + channel * 5

supports(adapter, d) ==
  /\ d.width \in adapter.widths
  /\ adapter.frequencies # {} => active_20mhz_centers(d) \subseteq adapter.frequencies
  /\ d.punct # {} => adapter.puncturing

\* What 802.11 has of channels, in those of access points and in requests: centres
\* are channels themselves, 2.4 GHz has no wide channel, only wide contiguous
\* channels are punctured, and not where the primary is.
Bands == {"2.4", "5", "6"}
Width == {20, 40, 80, 160, 320, Split}
Channel == [primary : Int, width : Width, centers : Seq(Int), punct : SUBSET Nat,
            complete : BOOLEAN]
IsChannelOf(c, band) ==
  /\ c \in Channel /\ Len(c.centers) = IF c.width = Split THEN 2 ELSE 1
  /\ \A f \in {c.primary} \cup {c.centers[i] : i \in DOMAIN c.centers} :
       \E n \in Numbers(band) : n > 0 /\ f = channel_to_frequency(n, band)
  /\ band = "2.4" => c.width \in {20, 40}
  /\ c.width \in {20, 40, Split} => c.punct = {}
  /\ c.width = Split => \/ c.centers[2] - c.centers[1] > 80
                        \/ c.centers[1] - c.centers[2] > 80
  /\ c.primary \in active_20mhz_centers(c)

ASSUME ChannelAssumption ==
  /\ None \notin Int /\ None \notin Channel /\ None \notin [channel : Channel, at : Nat]
  /\ Requests \subseteq [band : Bands, primary : Int, width : Width \cup {None},
                          centers : Seq(Int)]
  /\ DOMAIN Channels = Bands
  /\ \A band \in Bands : \A c \in Channels[band] : IsChannelOf(c, band)
  /\ Retention \in Nat /\ MaxSeconds \in Nat

-----------------------------------------------------------------------------
(* What a beacon's operation fields say.  Fields that are absent are None. *)

_ambiguous_definition(primary) == [Ht20(primary) EXCEPT !.complete = FALSE]

_segment_frequency(segment, band) ==
  IF segment \in {None, 0} THEN None ELSE channel_to_frequency(segment, band)

\* A definition without its centres is incomplete, and so is one that does
\* not contain its own primary.
_operation_definition(primary, width, center1, center2, punct) ==
  LET first == IF center1 = None THEN primary ELSE center1
      d == [primary |-> primary, width |-> width, punct |-> punct, complete |-> TRUE,
            centers |-> IF center2 = None THEN <<first>> ELSE <<first, center2>>]
  IN [d EXCEPT !.complete = /\ center1 # None /\ (width = Split => center2 # None)
                            /\ primary \in active_20mhz_centers(d)]

\* A width by its code, counted from 1.
Widths == <<20, 40, 80, 160, 320>>

EhtDefinition(f, primary, band) ==
  IF f.eht \notin 0..4 THEN _ambiguous_definition(primary)
  ELSE _operation_definition(primary, Widths[f.eht + 1],
         _segment_frequency(f.center0, band), _segment_frequency(f.center1, band), f.punct)

Apart(f) == IF f.center0 < f.center1 THEN f.center1 - f.center0 ELSE f.center0 - f.center1

\* The second segment of code 3 is the centre of 160 MHz, or of the other half.
HeDefinition(f, primary, band) ==
  IF f.he \notin 0..3 THEN _ambiguous_definition(primary)
  ELSE IF f.he < 3 \/ f.center1 \in {None, 0}
  THEN _operation_definition(primary, Widths[f.he + 1],
         _segment_frequency(IF f.he = 3 THEN f.center1 ELSE f.center0, band), None, {})
  ELSE IF f.center0 # None /\ Apart(f) = 8
  THEN _operation_definition(primary, 160, _segment_frequency(f.center1, band), None, {})
  ELSE IF f.center0 # None /\ Apart(f) > 16
  THEN _operation_definition(primary, Split, _segment_frequency(f.center0, band),
         _segment_frequency(f.center1, band), {})
  ELSE _ambiguous_definition(primary)

\* Mutant: the second segment of a wide code 1 is always the other half.
VhtDefinitionSplit(f, primary, band) ==
  IF f.vht = 1 /\ f.center1 \in {None, 0}
  THEN _operation_definition(primary, 80, _segment_frequency(f.center0, band), None, {})
  ELSE IF f.vht = 2
  THEN _operation_definition(primary, 160, _segment_frequency(f.center0, band), None, {})
  ELSE _operation_definition(primary, Split, _segment_frequency(f.center0, band),
         _segment_frequency(f.center1, band), {})

\* Code 1 is 80 MHz, or anything wider that its second segment tells.
VhtDefinition(f, primary, band) ==
  IF f.vht = 1 /\ f.center1 \in {None, 0}
  THEN _operation_definition(primary, 80, _segment_frequency(f.center0, band), None, {})
  ELSE IF f.vht = 2 \/ (f.vht = 1 /\ f.center0 # None /\ Apart(f) = 8)
  THEN _operation_definition(primary, 160,
         _segment_frequency(IF f.vht = 2 THEN f.center0 ELSE f.center1, band), None, {})
  ELSE IF f.vht = 3 \/ (f.vht = 1 /\ f.center0 # None /\ Apart(f) > 16)
  THEN _operation_definition(primary, Split, _segment_frequency(f.center0, band),
         _segment_frequency(f.center1, band), {})
  ELSE _ambiguous_definition(primary)

\* Without any operation element only the capture's frequency is known.
HtDefinition(f, primary) ==
  IF f.offset \in {1, 3}
  THEN Definition(primary, 40, <<primary + (IF f.offset = 1 THEN 10 ELSE -10)>>)
  ELSE IF f.offset \notin {None, 0} \/ f.channel = None THEN _ambiguous_definition(primary)
  ELSE Ht20(primary)

\* None where not even the primary is known.
definition_from_operation_fields(f, band) ==
  LET primary == IF f.channel # None THEN channel_to_frequency(f.channel, band) ELSE f.radio
  IN IF primary = None THEN None
     ELSE IF f.eht # None THEN EhtDefinition(f, primary, band)
     ELSE IF f.he # None THEN HeDefinition(f, primary, band)
     ELSE IF f.vht \notin {None, 0} THEN VhtDefinition(f, primary, band)
     ELSE HtDefinition(f, primary)

-----------------------------------------------------------------------------
(* The definition a capture asks for.                                      *)

\* The standard 80 MHz block of the primary, 20 MHz where there is none.
default_channel_definition(request) ==
  LET blocks == IF request.band = "5" THEN {42, 58, 106, 122, 138, 155, 171}
                ELSE IF request.band = "6" THEN {7 + 16 * i : i \in 0..13} ELSE {}
      wide == {Definition(request.primary, 80, <<channel_to_frequency(c, request.band)>>) :
                 c \in blocks}
      own == {d \in wide : request.primary \in active_20mhz_centers(d)}
  IN IF own = {} THEN Ht20(request.primary) ELSE CHOOSE d \in own : TRUE

\* None where the options do not make a definition.
explicit_channel_definition(request) ==
  LET d == IF request.width = 20 THEN Ht20(request.primary)
           ELSE Definition(request.primary, request.width, request.centers)
  IN IF /\ Len(request.centers) \in (CASE request.width = 20 -> 0..1
                                       [] request.width = Split -> {2} [] OTHER -> {1})
        /\ request.primary \in active_20mhz_centers(d)
     THEN d ELSE None

\* The arguments of iw's "set freq".
build_definition_tune_command(d) ==
  LET plain == [freq |-> d.primary, ht |-> "", width |-> None, centers |-> << >>, punct |-> {}]
  IN CASE d.width = 20 -> [plain EXCEPT !.ht = "HT20"]
       [] d.width = 40 ->
            [plain EXCEPT !.ht = IF d.centers[1] > d.primary THEN "HT40+" ELSE "HT40-"]
       [] OTHER -> [plain EXCEPT !.width = d.width, !.centers = d.centers, !.punct = d.punct]

\* What iw makes of them, as its interface report reads afterwards.
Tuned(command) ==
  CASE command.ht = "HT20" -> Ht20(command.freq)
    [] command.ht = "HT40+" -> Definition(command.freq, 40, <<command.freq + 10>>)
    [] command.ht = "HT40-" -> Definition(command.freq, 40, <<command.freq - 10>>)
    [] OTHER -> [Definition(command.freq, command.width, command.centers)
                   EXCEPT !.punct = command.punct]

\* The centre Core tunes a 80 MHz request for freq to, None where it has none.
CoreCenter(freq) ==
  CASE freq >= 5180 /\ freq <= 5720 /\ freq % 20 = 0 -> 5210 + ((freq - 5180) \div 80) * 80
    [] freq \in {5745, 5825} -> freq + 30
    [] freq >= 5955 /\ freq <= 7055 /\ (freq - 5955) % 20 = 0 -> 5985 + ((freq - 5955) \div 80) * 80
    [] OTHER -> None

validate_core_request(d) ==
  /\ d.width \in {20, 80} /\ d.punct = {} /\ Len(d.centers) = 1
  /\ d.centers[1] = (IF d.width = 80 THEN CoreCenter(d.primary) ELSE d.primary)

-----------------------------------------------------------------------------
NoPlan == [phase |-> "refused", requested |-> None, initial |-> None, actual |-> None,
           fallback |-> FALSE, verified |-> FALSE, request |-> None, backend |-> None]
NoCoverage == [covered |-> {}, partial |-> {}, status |-> "initial"]

TuningInit ==
  /\ \E request \in Requests, backend \in {"core", "direct"} :
       plan = [NoPlan EXCEPT !.phase = "asked", !.request = request, !.backend = backend]
  /\ coverage = NoCoverage
  /\ lastSeen = [b \in Stations |-> None] /\ evidence = lastSeen
  /\ now = 0

\* run_live chooses the definition for this adapter, and refuses what was
\* asked for explicitly and cannot be had; Core takes only what it can map.
Plan ==
  /\ plan.phase = "asked"
  /\ \E adapter \in Adapters :
       LET auto == plan.request.width = None
           wanted == IF auto THEN default_channel_definition(plan.request)
                     ELSE explicit_channel_definition(plan.request)
           fits == wanted # None /\ supports(adapter, wanted)
           chosen == IF fits THEN wanted ELSE Ht20(plan.request.primary)
       IN plan' = IF \/ ~auto /\ ~fits
                     \/ /\ plan.backend = "core"
                        /\ ~(adapter.known /\ validate_core_request(chosen))
                  THEN NoPlan
                  ELSE [plan EXCEPT
                          !.phase = "planned", !.requested = wanted, !.initial = chosen,
                          !.fallback = \/ ~fits
                                       \/ auto /\ plan.request.band # "2.4" /\ wanted.width = 20]
  /\ UNCHANGED <<coverage, lastSeen, now, evidence>>

\* Mutant: the retry forgets that it is one.
RetriedSilently(p) == [p EXCEPT !.phase = "tuned", !.initial = Ht20(p.request.primary)]

\* A rejected default is tried once more at 20 MHz.
Retried(p) ==
  [p EXCEPT !.phase = "tuned", !.initial = Ht20(p.request.primary), !.fallback = TRUE]

Tune ==
  /\ plan.phase = "planned"
  /\ \/ plan' = [plan EXCEPT !.phase = "tuned"]
     \/ plan' = NoPlan
     \/ /\ plan.backend = "direct" /\ plan.request.width = None /\ plan.initial.width # 20
        /\ plan' = Retried(plan)
  /\ UNCHANGED <<coverage, lastSeen, now, evidence>>

\* A radio that took another definition than the one asked for is a fallback.
Differs(p) == p.fallback \/ ~same_tuning(p.actual, p.initial)

\* iw reports what the radio took, or cannot be read: the definition asked
\* for is then assumed.  Core's capture goes on only with what was asked for.
ReadBack ==
  /\ plan.phase = "tuned"
  /\ \E verified \in BOOLEAN, taken \in {Tuned(build_definition_tune_command(plan.initial)),
                                         Ht20(plan.initial.primary)} :
       LET read == [plan EXCEPT !.phase = "live", !.verified = verified,
                                !.actual = IF verified THEN taken ELSE plan.initial]
       IN IF plan.backend = "core" /\ (~verified \/ ~same_tuning(taken, plan.initial))
          THEN plan' = NoPlan /\ coverage' = coverage
          ELSE /\ plan' = [read EXCEPT !.fallback = Differs(read)]
               /\ coverage' = [NoCoverage EXCEPT !.status =
                    IF Differs(read) THEN "fallback"
                    ELSE IF verified THEN "complete" ELSE "unverified"]
  /\ UNCHANGED <<lastSeen, now, evidence>>

-----------------------------------------------------------------------------
(* Coverage while the capture runs.                                        *)

\* A definition without complete fields says nothing, except that of a 20 MHz
\* capture without any: see Inferred.
update_fixed_capture_coverage(decision, bssid, advertised, actual) ==
  IF ~advertised.complete THEN decision
  ELSE IF contains(actual, advertised)
  THEN LET left == decision.partial \ {bssid}
       IN [covered |-> decision.covered \cup {bssid}, partial |-> left,
           status |-> IF decision.status = "partial" /\ left = {} THEN "complete"
                      ELSE decision.status]
  ELSE [covered |-> decision.covered \ {bssid}, partial |-> decision.partial \cup {bssid},
        status |-> IF decision.status = "fallback" THEN "fallback" ELSE "partial"]

prune_fixed_capture_coverage(decision, active) ==
  LET left == decision.partial \cap active
  IN [covered |-> decision.covered \cap active, partial |-> left,
      status |-> IF plan.fallback THEN "fallback"
                 ELSE IF ~plan.verified THEN "unverified"
                 ELSE IF left # {} THEN "partial" ELSE "complete"]

\* The BSSIDs kept at the first beacon of another second: those heard in the window.
Active(heard, time) == {b \in Stations : heard[b] # None /\ heard[b] >= time - Retention}

\* At 20 MHz a beacon that says nothing at all is taken for one of 20 MHz; it
\* counts for coverage where the radio is on that primary.
OnPrimary == plan.actual.primary = plan.request.primary
Inferred(d) ==
  IF d = None /\ plan.actual.width = 20
  THEN [Ht20(plan.request.primary) EXCEPT !.complete = OnPrimary] ELSE d

\* The fields an access point of that channel sends, in each of the ways
\* there are to say it, or none of them.
NoFields == [channel |-> None, radio |-> None, offset |-> None, vht |-> None, he |-> None,
             eht |-> None, center0 |-> None, center1 |-> None, punct |-> {}]
Number(frequency, band) ==
  CASE band = "5" -> (frequency - 5000) \div 5 [] band = "6" -> (frequency - 5950) \div 5
    [] OTHER -> IF frequency = 2484 THEN 14 ELSE (frequency - 2407) \div 5
HalfOf(c) == c.centers[1] + (IF c.primary < c.centers[1] THEN -40 ELSE 40)
Code(width) ==
  CASE width = 20 -> 0 [] width = 40 -> 1 [] width = 80 -> 2 [] width = 320 -> 4
    [] OTHER -> 3
HtFields(c, own) ==
  IF c.width = 20 THEN {[own EXCEPT !.offset = 0], own}
  ELSE {[own EXCEPT !.offset = IF c.centers[1] > c.primary THEN 1 ELSE 3, !.vht = 0]}
VhtFields(c, own, first, second, half) ==
  LET Vht(code, s0, s1) == [own EXCEPT !.vht = code, !.center0 = s0, !.center1 = s1]
  IN CASE c.width = 160   -> {Vht(2, first, 0), Vht(1, half, first)}
       [] c.width = Split -> {Vht(3, first, second), Vht(1, first, second)}
       [] OTHER           -> {Vht(1, first, 0)}
HeFields(c, own, first, second, half) ==
  {[own EXCEPT !.he = Code(c.width), !.channel = n,
               !.center0 = IF c.width = 160 THEN half ELSE first,
               !.center1 = CASE c.width = 160 -> first [] c.width = Split -> second
                             [] OTHER -> 0] : n \in {own.channel, None}}
Fields(c, band) ==
  LET own == [NoFields EXCEPT !.channel = Number(c.primary, band), !.radio = c.primary]
      first == Number(c.centers[1], band)
      second == Number(c.centers[Len(c.centers)], band)
      half == Number(HalfOf(c), band)
  IN IF c.punct # {} \/ c.width = 320
     THEN {[own EXCEPT !.eht = Code(c.width), !.center0 = first, !.center1 = 0,
                       !.punct = c.punct]}
     ELSE IF band # "6" /\ c.width \in {20, 40} THEN HtFields(c, own)
     ELSE IF band = "5" THEN VhtFields(c, own, first, second, half)
     ELSE HeFields(c, own, first, second, half)

\* The loop takes a beacon: the BSSID is heard, the first one of another
\* second prunes, and one on the selected primary is compared.
Hear(bssid, time, d, channel) ==
  LET heard == [lastSeen EXCEPT ![bssid] = time]
      active == IF time # now THEN Active(heard, time) ELSE {b \in Stations : heard[b] # None}
      pruned == IF time # now THEN prune_fixed_capture_coverage(coverage, active) ELSE coverage
      advertised == Inferred(d)
      compared == advertised # None /\ advertised.primary = plan.request.primary
  IN /\ lastSeen' = [b \in Stations |-> IF b \in active THEN heard[b] ELSE None]
     /\ now' = time
     /\ coverage' = IF compared
                    THEN update_fixed_capture_coverage(pruned, bssid, advertised, plan.actual)
                    ELSE pruned
     /\ evidence' = IF channel # None /\ compared
                    THEN [evidence EXCEPT ![bssid] = [channel |-> channel, at |-> time]]
                    ELSE evidence
     /\ UNCHANGED plan

\* What a beacon can be parsed as, with the channel it is conclusive of.
Parsed(band) ==
  (UNION {{[definition |-> definition_from_operation_fields(f, band), channel |-> channel]
             : f \in Fields(channel, band)} : channel \in Channels[band]})
  \cup {[definition |-> _ambiguous_definition(channel.primary), channel |-> None]
          : channel \in Channels[band]}
  \cup {[definition |-> None,
         channel |-> IF plan.actual.width = 20 /\ OnPrimary THEN Ht20(plan.request.primary)
                     ELSE None]}

Beacon ==
  /\ plan.phase = "live"
  /\ \E bssid \in Stations, time \in now..MaxSeconds, p \in Parsed(plan.request.band) :
       Hear(bssid, time, p.definition, p.channel)

TuningNext == Plan \/ Tune \/ ReadBack \/ Beacon
TuningSpec == TuningInit /\ [][TuningNext]_planVars

-----------------------------------------------------------------------------
\* The tuning that is reported is the one that was asked for, or a fallback is
\* declared: a width asked for explicitly is never replaced, a capture without
\* a fallback that was read back has exactly the requested definition, which
\* contains its primary, and a command makes the radio read as the definition
\* it was built from, for the capture and for the channel that is restored
\* after it.
TuningKept ==
  /\ plan.phase \in {"planned", "tuned", "live"} =>
       /\ plan.request.width # None => plan.initial = explicit_channel_definition(plan.request)
       /\ plan.initial.primary \in active_20mhz_centers(plan.initial)
       /\ \A d \in (UNION {Channels[band] : band \in DOMAIN Channels}) \cup {plan.initial} :
            same_tuning(Tuned(build_definition_tune_command(d)), d)
  /\ plan.phase = "live" /\ ~plan.fallback =>
       same_tuning(plan.actual, plan.requested)

Missed(bssid) == evidence[bssid] # None /\ ~contains(plan.actual, evidence[bssid].channel)

\* Coverage is what the access points really have: a beacon is understood as
\* its channel, whichever of the ways to say it was used; the BSSIDs listed as
\* partial are those whose channel the capture does not contain; every one of
\* them that spoke in the window is listed; and while one is, the status does
\* not claim complete coverage (channel.py:217-411, live.py:1041-1135).
CoverageHonest ==
  plan.phase = "live" =>
    /\ \A p \in Parsed(plan.request.band) :
         p.channel # None => same_tuning(Inferred(p.definition), p.channel)
    /\ \A b \in coverage.partial : Missed(b)
    /\ \A b \in coverage.covered : evidence[b] # None /\ ~Missed(b)
    /\ \A b \in Stations :
         Missed(b) /\ evidence[b].at >= now - Retention => b \in coverage.partial
    /\ coverage.partial # {} => coverage.status # "complete"
    /\ coverage.status = "partial" => coverage.partial # {}

\* A capture whose width could not be read back never claims complete coverage.
UnverifiedStaysExplicit ==
  plan.phase = "live" /\ coverage.status = "complete" => plan.verified /\ ~plan.fallback
=============================================================================
