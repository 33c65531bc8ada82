---------------------------- MODULE AnalysisProofs ----------------------------
(***************************************************************************)
(* The analysis of a channel and of the beacons and frames heard on it.    *)
(*                                                                         *)
(* The channel of a capture, for every request, adapter, set of access     *)
(* points on channels that 802.11 has, length and retention: the run knows *)
(* what it is tuned to, and what it says of its coverage is what the       *)
(* access points really have.                                              *)
(*                                                                         *)
(* The schedule inferred from capture times is the best there is, for any  *)
(* interval, any capture times in any order and any number of them.  The   *)
(* code takes slots greedily and narrows the phase as it goes; the         *)
(* argument is an exchange: a schedule that explains the beacons never has *)
(* a slot before the one the code took, so its phase is never after the    *)
(* code's latest (Latest); and one without a gap is never before its       *)
(* earliest either, so the code has no gap (Gapless).                      *)
(*                                                                         *)
(* The frames counted second by second as they arrive and merged later are *)
(* those of one pass over all of them, for any frames, length of a second, *)
(* target and size of the host table.  The argument is a strengthening:    *)
(* merging agrees with one pass for every choice of the hosts that are     *)
(* listed (StreamInv), since only then is it kept by a frame that changes  *)
(* which hosts were active last; what frames say cannot change when every  *)
(* BSSID was heard before (SaidStays); and the last bucket absorbed with a *)
(* frame more is the merge with a frame more (AccumulatesLater).           *)
(***************************************************************************)
EXTENDS ChannelPlan, BeaconReception, FrameProjection, FiniteSetTheorems,
        NaturalsInduction, WellFoundedInduction, TLAPS

-----------------------------------------------------------------------------
(* Centres.                                                                *)

\* A 20 MHz channel has one centre.
LEMMA OneCentre ==
  ASSUME NEW p \in Int
  PROVE  /\ _continuous_centers(p, 20) = {p}
         /\ active_20mhz_centers(Ht20(p)) = {p}
<1>1. _continuous_centers(p, 20) = {p}
  BY DEF _continuous_centers
<1>2. \A b \in {p} : ~(b < p)
  OBVIOUS
<1>3. Cardinality({b \in {p} : b < p}) \notin {}
  OBVIOUS
<1> DEFINE d == Ht20(p)
<1>4. d.centers = <<p>> /\ d.width = 20 /\ d.punct = {} /\ d.primary = p
  BY DEF Ht20, Definition
<1>5. DOMAIN d.centers = {1} /\ d.centers[1] = p /\ 20 # Split
  BY <1>4 DEF Split
<1>6. UNION {_continuous_centers(d.centers[i], IF d.width = Split THEN 80 ELSE d.width)
               : i \in DOMAIN d.centers} = {p}
  BY <1>1, <1>4, <1>5
<1> HIDE DEF d
<1>7. active_20mhz_centers(d) = {p}
  BY <1>4, <1>6 DEF active_20mhz_centers
<1> QED BY <1>1, <1>7 DEF d

\* Definitions that are tuned alike have the same centres.
LEMMA SameCentres ==
  ASSUME NEW c, NEW d, same_tuning(c, d)
  PROVE  /\ active_20mhz_centers(c) = active_20mhz_centers(d)
         /\ \A e : contains(e, c) <=> contains(e, d)
<1>1. active_20mhz_centers(c) = active_20mhz_centers(d)
  BY DEF same_tuning, active_20mhz_centers
<1> QED BY <1>1 DEF contains, same_tuning

\* A 40 MHz channel lies on one side of its primary.
LEMMA TwoCentres ==
  ASSUME NEW d \in Channel, d.width = 40, Len(d.centers) = 1,
         d.primary \in active_20mhz_centers(d)
  PROVE  d.centers = <<d.primary + 10>> \/ d.centers = <<d.primary - 10>>
<1>1. /\ d.primary \in Int /\ d.centers \in Seq(Int) /\ DOMAIN d.centers = {1}
      /\ d.centers[1] \in Int /\ 40 # Split
  BY DEF Channel, Split
<1>2. d.primary \in _continuous_centers(d.centers[1], 40)
  BY <1>1 DEF active_20mhz_centers
<1>3. d.primary = d.centers[1] - 10 \/ d.primary = d.centers[1] + 10
  BY <1>1, <1>2 DEF _continuous_centers
<1>4. d.centers = <<d.centers[1]>>
  BY <1>1
<1> QED BY <1>1, <1>3, <1>4

-----------------------------------------------------------------------------
(* What beacons say is understood.                                         *)

LEMMA NumberOfFrequency ==
  ASSUME NEW band \in Bands, NEW n \in Numbers(band)
  PROVE  /\ channel_to_frequency(n, band) \in Int
         /\ Number(channel_to_frequency(n, band), band) = n
<1>1. CASE band = "2.4"
  BY <1>1 DEF Numbers, Number, channel_to_frequency
<1>2. CASE band = "5"
  BY <1>2 DEF Numbers, Number, channel_to_frequency
<1>3. CASE band = "6"
  BY <1>3 DEF Numbers, Number, channel_to_frequency
<1> QED BY <1>1, <1>2, <1>3 DEF Bands

\* The frequencies of an access point's channel are read as they were sent.
LEMMA FrequencyOfNumber ==
  ASSUME NEW band \in Bands, NEW c, IsChannelOf(c, band),
         NEW f \in {c.primary} \cup {c.centers[i] : i \in DOMAIN c.centers}
  PROVE  /\ Number(f, band) \in Int /\ Number(f, band) > 0 /\ f \in Int /\ f # None
         /\ channel_to_frequency(Number(f, band), band) = f
         /\ _segment_frequency(Number(f, band), band) = f
<1>1. PICK n \in Numbers(band) : n > 0 /\ f = channel_to_frequency(n, band)
  BY DEF IsChannelOf
<1>2. Numbers(band) \subseteq Int
  BY DEF Numbers, Bands
<1>3. Number(f, band) = n /\ f \in Int
  BY <1>1, NumberOfFrequency
<1>4. n # 0 /\ n # None
  BY <1>1, <1>2, ChannelAssumption
<1>5. f # None
  BY <1>3, ChannelAssumption
<1> QED BY <1>1, <1>2, <1>3, <1>4, <1>5 DEF _segment_frequency

Sound(d, c) == d \in Channel /\ same_tuning(d, c) /\ d.complete

LEMMA OneSegment ==
  ASSUME NEW band \in Bands, NEW c, IsChannelOf(c, band), c.width # Split
  PROVE  Sound(_operation_definition(c.primary, c.width, c.centers[1], None, c.punct), c)
<1> DEFINE d == _operation_definition(c.primary, c.width, c.centers[1], None, c.punct)
<1>1. c \in Channel /\ Len(c.centers) = 1 /\ c.primary \in active_20mhz_centers(c)
  BY DEF IsChannelOf
<1>2. DOMAIN c.centers = {1} /\ c.centers = <<c.centers[1]>> /\ c.centers[1] \in Int
  BY <1>1 DEF Channel
<1>3. c.centers[1] # None
  BY <1>2, ChannelAssumption
<1> DEFINE e == [primary |-> c.primary, width |-> c.width, punct |-> c.punct,
                 complete |-> TRUE, centers |-> <<c.centers[1]>>]
<1>4. e \in Channel /\ same_tuning(e, c)
  BY <1>1, <1>2 DEF Channel, same_tuning
<1>5. c.primary \in active_20mhz_centers(e)
  BY <1>1, <1>4, SameCentres
<1>6. d = [e EXCEPT !.complete = TRUE]
  <2> HIDE DEF e
  <2>1. d = [e EXCEPT !.complete = /\ c.centers[1] # None /\ (c.width = Split => None # None)
                                   /\ c.primary \in active_20mhz_centers(e)]
    BY <1>3 DEF _operation_definition, e
  <2> HIDE DEF d
  <2> QED BY <2>1, <1>3, <1>5
<1>7. d \in Channel /\ same_tuning(d, c) /\ d.complete
  <2> HIDE DEF d
  <2> QED BY <1>4, <1>6 DEF same_tuning, Channel
<1> QED BY <1>7 DEF Sound

LEMMA TwoSegments ==
  ASSUME NEW band \in Bands, NEW c, IsChannelOf(c, band), c.width = Split
  PROVE  Sound(_operation_definition(c.primary, Split, c.centers[1], c.centers[2], {}), c)
<1> DEFINE d == _operation_definition(c.primary, Split, c.centers[1], c.centers[2], {})
<1>1. /\ c \in Channel /\ Len(c.centers) = 2 /\ c.punct = {}
      /\ c.primary \in active_20mhz_centers(c)
  BY DEF IsChannelOf
<1>2. /\ DOMAIN c.centers = {1, 2} /\ c.centers = <<c.centers[1], c.centers[2]>>
      /\ c.centers[1] \in Int /\ c.centers[2] \in Int
  BY <1>1 DEF Channel
<1>3. c.centers[1] # None /\ c.centers[2] # None
  BY <1>2, ChannelAssumption
<1> DEFINE e == [primary |-> c.primary, width |-> Split, punct |-> {},
                 complete |-> TRUE, centers |-> <<c.centers[1], c.centers[2]>>]
<1>4. e \in Channel /\ same_tuning(e, c)
  BY <1>1, <1>2 DEF Channel, same_tuning
<1>5. c.primary \in active_20mhz_centers(e)
  BY <1>1, <1>4, SameCentres
<1>6. d = [e EXCEPT !.complete = TRUE]
  <2> HIDE DEF e
  <2>1. d = [e EXCEPT !.complete =
               /\ c.centers[1] # None /\ (Split = Split => c.centers[2] # None)
               /\ c.primary \in active_20mhz_centers(e)]
    BY <1>3 DEF _operation_definition, e
  <2> HIDE DEF d
  <2> QED BY <2>1, <1>3, <1>5
<1>7. d \in Channel /\ same_tuning(d, c) /\ d.complete
  <2> HIDE DEF d
  <2> QED BY <1>4, <1>6 DEF same_tuning, Channel
<1> QED BY <1>7 DEF Sound

\* Only the elements that are there decide, the newest first.
LEMMA Elements ==
  ASSUME NEW band \in Bands, NEW c, IsChannelOf(c, band), NEW f,
         f.channel \in {Number(c.primary, band), None}, f.radio = c.primary
  PROVE  definition_from_operation_fields(f, band) =
           IF f.eht # None THEN EhtDefinition(f, c.primary, band)
           ELSE IF f.he # None THEN HeDefinition(f, c.primary, band)
           ELSE IF f.vht \notin {None, 0} THEN VhtDefinition(f, c.primary, band)
           ELSE HtDefinition(f, c.primary)
<1>1. /\ Number(c.primary, band) \in Int /\ c.primary # None
      /\ channel_to_frequency(Number(c.primary, band), band) = c.primary
  BY FrequencyOfNumber
<1>2. Number(c.primary, band) # None
  BY <1>1, ChannelAssumption
<1> QED BY <1>1, <1>2 DEF definition_from_operation_fields

\* Codes and widths.
LEMMA CodeOfWidth ==
  ASSUME NEW w \in Width, w # Split
  PROVE  /\ Code(w) \in 0..4 /\ Code(w) # None /\ Widths[Code(w) + 1] = w
         /\ w # 320 => Code(w) \in 0..3
         /\ Code(w) = 3 <=> w = 160
<1>1. Code(w) \in 0..4 /\ (w # 320 => Code(w) \in 0..3) /\ (Code(w) = 3 <=> w = 160)
  BY DEF Width, Code, Split
<1>2. /\ Widths[1] = 20 /\ Widths[2] = 40 /\ Widths[3] = 80 /\ Widths[4] = 160
      /\ Widths[5] = 320
  BY DEF Widths
<1>3. Widths[Code(w) + 1] = w
  BY <1>2 DEF Width, Code, Split
<1> QED BY <1>1, <1>3, ChannelAssumption

LEMMA EhtUnderstood ==
  ASSUME NEW band \in Bands, NEW c, IsChannelOf(c, band), c.width # Split, NEW f,
         f.channel = Number(c.primary, band), f.radio = c.primary,
         f.eht = Code(c.width), f.center0 = Number(c.centers[1], band), f.center1 = 0,
         f.punct = c.punct
  PROVE  Sound(definition_from_operation_fields(f, band), c)
<1>1. c.width \in Width /\ DOMAIN c.centers = {1}
  BY DEF IsChannelOf, Channel
<1>2. _segment_frequency(f.center0, band) = c.centers[1]
  BY <1>1, FrequencyOfNumber
<1>3. _segment_frequency(0, band) = None
  BY DEF _segment_frequency
<1>4. definition_from_operation_fields(f, band) = EhtDefinition(f, c.primary, band)
  BY <1>1, Elements, CodeOfWidth
<1>5. EhtDefinition(f, c.primary, band)
        = _operation_definition(c.primary, c.width, c.centers[1], None, c.punct)
  <2> HIDE DEF Widths
  <2> QED BY <1>1, <1>2, <1>3, CodeOfWidth DEF EhtDefinition
<1> QED BY <1>4, <1>5, OneSegment

\* Without a later element, the HT one tells up to 40 MHz.
LEMMA HtUnderstood ==
  ASSUME NEW band \in Bands, NEW c, IsChannelOf(c, band), c.width \in {20, 40}, NEW f,
         f.channel = Number(c.primary, band), f.radio = c.primary,
         f.eht = None, f.he = None, f.vht \in {None, 0},
         IF c.width = 20 THEN f.offset \in {None, 0}
         ELSE f.offset = IF c.centers[1] > c.primary THEN 1 ELSE 3
  PROVE  Sound(definition_from_operation_fields(f, band), c)
<1>1. /\ c \in Channel /\ c.punct = {} /\ c.primary \in Int /\ c.width # Split
      /\ Len(c.centers) = 1 /\ c.primary \in active_20mhz_centers(c)
  BY DEF IsChannelOf, Channel, Split
<1>2. definition_from_operation_fields(f, band) = HtDefinition(f, c.primary)
  BY Elements
<1>3. f.channel # None /\ None \notin {1, 3, 0}
  BY FrequencyOfNumber, ChannelAssumption
<1>4. CASE c.width = 20
  <2>1. HtDefinition(f, c.primary) = Ht20(c.primary)
    BY <1>3, <1>4 DEF HtDefinition
  <2>2. c.centers \in Seq(Int) /\ DOMAIN c.centers = {1} /\ c.centers[1] \in Int
    BY <1>1 DEF Channel
  <2>3. active_20mhz_centers(c) \subseteq {c.centers[1]}
    BY <1>1, <1>4, <2>2, OneCentre DEF active_20mhz_centers
  <2>4. c.centers = <<c.primary>>
    BY <1>1, <2>2, <2>3
  <2> QED BY <1>1, <1>2, <1>4, <2>1, <2>4
          DEF Sound, Ht20, Definition, same_tuning, Channel, Width
<1>5. CASE c.width = 40
  <2>1. c.centers = <<c.primary + 10>> \/ c.centers = <<c.primary - 10>>
    BY <1>1, <1>5, TwoCentres
  <2>2. HtDefinition(f, c.primary) =
          Definition(c.primary, 40, <<c.primary + (IF c.centers[1] > c.primary THEN 10 ELSE -10)>>)
    BY <1>3, <1>5 DEF HtDefinition
  <2>3. c.centers = <<c.primary + (IF c.centers[1] > c.primary THEN 10 ELSE -10)>>
    BY <1>1, <2>1
  <2> QED BY <1>1, <1>2, <1>5, <2>2, <2>3
          DEF Sound, Definition, same_tuning, Channel, Width
<1> QED BY <1>4, <1>5

\* 5 MHz from a channel number to the next.
LEMMA WideBands ==
  ASSUME NEW band \in Bands, band # "2.4", NEW n \in Numbers(band)
  PROVE  /\ n \in Int
         /\ channel_to_frequency(n, band) = (IF band = "5" THEN 5000 ELSE 5950) + n * 5
<1>1. CASE band = "5"
  BY <1>1 DEF Numbers, channel_to_frequency
<1>2. CASE band = "6"
  BY <1>2 DEF Numbers, channel_to_frequency
<1> QED BY <1>1, <1>2 DEF Bands

\* The centres of the two halves, as their numbers tell them apart.
LEMMA Separation ==
  ASSUME NEW band \in Bands, NEW c, IsChannelOf(c, band), band # "2.4", NEW f,
         f.center1 = Number(c.centers[Len(c.centers)], band)
  PROVE  /\ c.width = 160 /\ f.center0 = Number(HalfOf(c), band) =>
              f.center0 \in Int /\ Apart(f) = 8
         /\ c.width = Split /\ f.center0 = Number(c.centers[1], band) =>
              f.center0 \in Int /\ Apart(f) > 16
<1>1. /\ c \in Channel /\ c.primary \in Int /\ c.centers \in Seq(Int)
      /\ Len(c.centers) = IF c.width = Split THEN 2 ELSE 1
      /\ DOMAIN c.centers = 1..Len(c.centers) /\ 160 # Split
      /\ c.width = Split => \/ c.centers[2] - c.centers[1] > 80
                            \/ c.centers[1] - c.centers[2] > 80
  <2>1. /\ c \in Channel /\ 160 # Split
        /\ Len(c.centers) = IF c.width = Split THEN 2 ELSE 1
        /\ c.width = Split => \/ c.centers[2] - c.centers[1] > 80
                              \/ c.centers[1] - c.centers[2] > 80
    BY DEF IsChannelOf, Split
  <2>2. c.primary \in Int /\ c.centers \in Seq(Int)
    BY <2>1 DEF Channel
  <2>3. DOMAIN c.centers = 1..Len(c.centers)
    BY <2>2
  <2> QED BY <2>1, <2>2, <2>3
<1>2. \A i \in DOMAIN c.centers :
        \E n \in Numbers(band) : c.centers[i] = channel_to_frequency(n, band)
  BY DEF IsChannelOf
<1> DEFINE base == IF band = "5" THEN 5000 ELSE 5950
<1>3. \A x \in Int : Number(x, band) = (x - base) \div 5
  BY DEF Number, Bands
<1>4. \A n \in Numbers(band) : n \in Int /\ channel_to_frequency(n, band) = base + n * 5
  BY WideBands
<1>5. base \in Int /\ \A n \in Int : Number(base + n * 5, band) = n
  <2>1. base \in Int
    OBVIOUS
  <2> HIDE DEF base
  <2>2. \A n \in Int : (base + n * 5 - base) \div 5 = n
    BY <2>1
  <2> QED BY <1>3, <2>1, <2>2
<1> HIDE DEF base
<1>6. CASE c.width = 160
  <2>1. PICK n \in Int : c.centers[1] = base + n * 5
    BY <1>1, <1>2, <1>4, <1>6
  <2>2. Number(c.centers[1], band) = n
    BY <1>5, <2>1
  <2>3. HalfOf(c) = base + (n - 8) * 5 \/ HalfOf(c) = base + (n + 8) * 5
    BY <1>1, <1>5, <2>1, <1>6 DEF HalfOf
  <2>4. Number(HalfOf(c), band) = n - 8 \/ Number(HalfOf(c), band) = n + 8
    <3>1. n - 8 \in Int /\ n + 8 \in Int
      OBVIOUS
    <3> QED BY <1>5, <2>3, <3>1
  <2> QED BY <1>1, <1>6, <2>2, <2>4 DEF Apart
<1>7. CASE c.width = Split
  <2>1. PICK n \in Int : c.centers[1] = base + n * 5
    BY <1>1, <1>2, <1>4, <1>7
  <2>2. PICK m \in Int : c.centers[2] = base + m * 5
    BY <1>1, <1>2, <1>4, <1>7
  <2>3. Number(c.centers[1], band) = n /\ Number(c.centers[2], band) = m
    BY <1>5, <2>1, <2>2
  <2>4. m - n > 16 \/ n - m > 16
    BY <1>1, <1>5, <1>7, <2>1, <2>2
  <2> QED BY <1>1, <1>7, <2>3, <2>4 DEF Apart
<1> QED BY <1>1, <1>6, <1>7

\* What the last two elements have in common: their centres are read back.
LEMMA Centres ==
  ASSUME NEW band \in Bands, NEW c, IsChannelOf(c, band)
  PROVE  /\ \A i \in {1, Len(c.centers)} :
              /\ Number(c.centers[i], band) \notin {None, 0}
              /\ _segment_frequency(Number(c.centers[i], band), band) = c.centers[i]
         /\ c.width \in Width
         /\ c.width # Split => Len(c.centers) = 1
         /\ c.width = Split => Len(c.centers) = 2 /\ c.punct = {}
<1>1. /\ c.width \in Width /\ DOMAIN c.centers = 1..Len(c.centers)
      /\ Len(c.centers) = IF c.width = Split THEN 2 ELSE 1
      /\ c.width = Split => c.punct = {}
  <2>1. /\ c \in Channel /\ Len(c.centers) = IF c.width = Split THEN 2 ELSE 1
        /\ c.width = Split => c.punct = {}
    BY DEF IsChannelOf
  <2>2. c.width \in Width /\ c.centers \in Seq(Int)
    BY <2>1 DEF Channel
  <2>3. DOMAIN c.centers = 1..Len(c.centers)
    BY <2>2
  <2> QED BY <2>1, <2>2, <2>3
<1>2. 1 \in DOMAIN c.centers /\ Len(c.centers) \in DOMAIN c.centers
  BY <1>1
<1>3. \A i \in DOMAIN c.centers :
        /\ Number(c.centers[i], band) \in Int /\ Number(c.centers[i], band) > 0
        /\ _segment_frequency(Number(c.centers[i], band), band) = c.centers[i]
  BY FrequencyOfNumber
<1> QED BY <1>1, <1>2, <1>3, ChannelAssumption

LEMMA VhtUnderstood ==
  ASSUME NEW band \in Bands, NEW c, IsChannelOf(c, band), band = "5",
         c.width \in {80, 160, Split}, c.punct = {}, NEW f,
         f.channel = Number(c.primary, band), f.radio = c.primary,
         f.eht = None, f.he = None,
         \/ /\ c.width = 80 /\ f.vht = 1 /\ f.center0 = Number(c.centers[1], band)
            /\ f.center1 = 0
         \/ /\ c.width = 160 /\ f.vht = 2 /\ f.center0 = Number(c.centers[1], band)
            /\ f.center1 = 0
         \/ /\ c.width = 160 /\ f.vht = 1 /\ f.center0 = Number(HalfOf(c), band)
            /\ f.center1 = Number(c.centers[1], band)
         \/ /\ c.width = Split /\ f.vht \in {1, 3} /\ f.center0 = Number(c.centers[1], band)
            /\ f.center1 = Number(c.centers[2], band)
  PROVE  Sound(definition_from_operation_fields(f, band), c)
<1>1. f.vht \notin {None, 0} /\ None \notin {0, 1, 2, 3} /\ 80 # Split /\ 160 # Split
  BY ChannelAssumption DEF Split
<1>2. definition_from_operation_fields(f, band) = VhtDefinition(f, c.primary, band)
  BY <1>1, Elements
<1>3. CASE c.width = 80
  <2>1. VhtDefinition(f, c.primary, band)
          = _operation_definition(c.primary, 80, c.centers[1], None, {})
    BY <1>1, <1>3, Centres DEF VhtDefinition
  <2> QED BY <1>1, <1>2, <1>3, <2>1, OneSegment
<1>4. CASE c.width = 160
  <2>1. f.vht = 1 => /\ f.center1 \notin {None, 0} /\ f.center0 \in Int /\ Apart(f) = 8
    BY <1>1, <1>4, Centres, Separation
  <2>2. f.vht = 1 => f.center0 # None
    BY <2>1, ChannelAssumption
  <2>3. VhtDefinition(f, c.primary, band)
          = _operation_definition(c.primary, 160, c.centers[1], None, {})
    BY <1>1, <1>4, <2>1, <2>2, Centres DEF VhtDefinition
  <2> QED BY <1>1, <1>2, <1>4, <2>3, OneSegment
<1>5. CASE c.width = Split
  <2>1. /\ f.center1 \notin {None, 0} /\ f.center0 \in Int /\ Apart(f) > 16
        /\ _segment_frequency(f.center0, band) = c.centers[1]
        /\ _segment_frequency(f.center1, band) = c.centers[2]
    BY <1>1, <1>5, Centres, Separation
  <2>2. f.center0 # None /\ Apart(f) # 8
    BY <2>1, ChannelAssumption
  <2>3. VhtDefinition(f, c.primary, band)
          = _operation_definition(c.primary, Split, c.centers[1], c.centers[2], {})
    BY <1>1, <1>5, <2>1, <2>2 DEF VhtDefinition
  <2> QED BY <1>2, <1>5, <2>3, TwoSegments
<1> QED BY <1>3, <1>4, <1>5

LEMMA HeUnderstood ==
  ASSUME NEW band \in Bands, NEW c, IsChannelOf(c, band), band = "6",
         c.width # 320, c.punct = {}, NEW f,
         f.channel \in {Number(c.primary, band), None}, f.radio = c.primary,
         f.eht = None, f.he = Code(c.width),
         f.center0 = Number(IF c.width = 160 THEN HalfOf(c) ELSE c.centers[1], band),
         f.center1 = IF c.width \in {160, Split}
                     THEN Number(c.centers[Len(c.centers)], band) ELSE 0
  PROVE  Sound(definition_from_operation_fields(f, band), c)
<1>o. c.width # Split =>
        Sound(_operation_definition(c.primary, c.width, c.centers[1], None, c.punct), c)
  BY OneSegment
<1>1. c.width \in Width /\ 160 # Split /\ Code(Split) = 3 /\ band # "2.4"
  BY Centres DEF Split, Code
<1>2. f.he # None /\ f.he \in 0..3
  BY <1>1, CodeOfWidth, ChannelAssumption
<1>3. definition_from_operation_fields(f, band) = HeDefinition(f, c.primary, band)
  BY <1>2, Elements
<1>4. CASE c.width = 160
  <2>1. /\ f.center1 \notin {None, 0} /\ f.center0 \in Int /\ Apart(f) = 8 /\ f.he = 3
        /\ _segment_frequency(f.center1, band) = c.centers[1]
    BY <1>1, <1>4, Centres, Separation, CodeOfWidth
  <2>2. f.center0 # None
    BY <2>1, ChannelAssumption
  <2>3. HeDefinition(f, c.primary, band)
          = _operation_definition(c.primary, 160, c.centers[1], None, {})
    BY <2>1, <2>2 DEF HeDefinition
  <2> QED BY <1>1, <1>3, <1>4, <1>o, <2>3
<1>5. CASE c.width = Split
  <2>1. /\ f.center1 \notin {None, 0} /\ f.center0 \in Int /\ Apart(f) > 16 /\ f.he = 3
        /\ _segment_frequency(f.center0, band) = c.centers[1]
        /\ _segment_frequency(f.center1, band) = c.centers[2]
    BY <1>1, <1>5, Centres, Separation
  <2>2. f.center0 # None /\ Apart(f) # 8
    BY <2>1, ChannelAssumption
  <2>3. HeDefinition(f, c.primary, band)
          = _operation_definition(c.primary, Split, c.centers[1], c.centers[2], {})
    BY <2>1, <2>2 DEF HeDefinition
  <2> QED BY <1>3, <1>5, <2>3, TwoSegments
<1>6. CASE c.width \notin {160, Split}
  <2>1. /\ f.he < 3 /\ Widths[f.he + 1] = c.width /\ f.he # 3
        /\ _segment_frequency(f.center0, band) = c.centers[1]
    BY <1>1, <1>2, <1>6, Centres, CodeOfWidth
  <2>2. HeDefinition(f, c.primary, band)
          = _operation_definition(c.primary, c.width, c.centers[1], None, {})
    <3> HIDE DEF Widths
    <3> QED BY <1>2, <2>1 DEF HeDefinition
  <2> QED BY <1>3, <1>6, <2>2, OneSegment
<1> QED BY <1>4, <1>5, <1>6

\* Whatever element an access point uses, its channel is understood.
LEMMA Understood ==
  ASSUME NEW band \in Bands, NEW c, IsChannelOf(c, band), NEW f \in Fields(c, band)
  PROVE  Sound(definition_from_operation_fields(f, band), c)
<1> DEFINE number == Number(c.primary, band)
           own == [NoFields EXCEPT !.channel = number, !.radio = c.primary]
           first == Number(c.centers[1], band)
           second == Number(c.centers[Len(c.centers)], band)
           half == Number(HalfOf(c), band)
<1>1. own = [NoFields EXCEPT !.channel = number, !.radio = c.primary]
  OBVIOUS
<1>2. /\ band = "2.4" => c.width \in {20, 40}
      /\ c.width \in {20, 40, Split} => c.punct = {}
  BY DEF IsChannelOf
<1>3. /\ c.width \in Width
      /\ c.width # Split => Len(c.centers) = 1
      /\ c.width = Split => Len(c.centers) = 2
      /\ 320 # Split /\ 160 # Split /\ 80 # Split
  BY Centres DEF Split
<1>4. CASE c.punct # {} \/ c.width = 320
  <2>1. f = [own EXCEPT !.eht = Code(c.width), !.center0 = first, !.center1 = 0,
                        !.punct = c.punct]
    BY <1>4 DEF Fields
  <2> HIDE DEF own, number, first
  <2>2. /\ f.channel = number /\ f.radio = c.primary /\ f.eht = Code(c.width)
        /\ f.center0 = first /\ f.center1 = 0 /\ f.punct = c.punct
    BY <1>1, <2>1 DEF NoFields
  <2> QED BY <1>2, <1>3, <1>4, <2>2, EhtUnderstood DEF number, first
<1>5. CASE c.punct = {} /\ c.width \in {20, 40} /\ band # "6"
  <2> DEFINE side == IF c.centers[1] > c.primary THEN 1 ELSE 3
  <2>1. f \in HtFields(c, own)
    BY <1>5 DEF Fields
  <2> HIDE DEF own, number, side
  <2>2. \/ c.width = 20 /\ f = [own EXCEPT !.offset = 0]
        \/ c.width = 20 /\ f = own
        \/ c.width = 40 /\ f = [own EXCEPT !.offset = side, !.vht = 0]
    BY <1>5, <2>1 DEF HtFields, side
  <2>3. /\ f.channel = number /\ f.radio = c.primary /\ f.eht = None /\ f.he = None
        /\ f.vht \in {None, 0}
        /\ c.width = 20 => f.offset \in {None, 0}
        /\ c.width # 20 => f.offset = side
    <3>1. CASE c.width = 20 /\ f = [own EXCEPT !.offset = 0]
      BY <1>1, <3>1 DEF NoFields
    <3>2. CASE c.width = 20 /\ f = own
      BY <1>1, <3>2 DEF NoFields
    <3>3. CASE c.width = 40 /\ f = [own EXCEPT !.offset = side, !.vht = 0]
      BY <1>1, <3>3 DEF NoFields
    <3> QED BY <2>2, <3>1, <3>2, <3>3
  <2> QED BY <1>5, <2>3, HtUnderstood DEF number, side
<1>6. CASE c.punct = {} /\ c.width \in {80, 160, Split} /\ band = "5"
  <2> DEFINE Vht(code, s0, s1) == [own EXCEPT !.vht = code, !.center0 = s0, !.center1 = s1]
  <2>1. f \in VhtFields(c, own, first, second, half)
    BY <1>6, <1>3 DEF Fields, Split
  <2> HIDE DEF own, number, first, second, half
  <2>2. \/ c.width = 80 /\ f = Vht(1, first, 0)
        \/ c.width = 160 /\ f = Vht(2, first, 0)
        \/ c.width = 160 /\ f = Vht(1, half, first)
        \/ c.width = Split /\ (f = Vht(3, first, second) \/ f = Vht(1, first, second))
    <3> HIDE DEF Vht
    <3>1. VhtFields(c, own, first, second, half)
            = CASE c.width = 160   -> {Vht(2, first, 0), Vht(1, half, first)}
                [] c.width = Split -> {Vht(3, first, second), Vht(1, first, second)}
                [] OTHER           -> {Vht(1, first, 0)}
      BY DEF VhtFields, Vht
    <3> QED BY <1>3, <1>6, <2>1, <3>1
  <2>3. \A code, s0, s1 : f = Vht(code, s0, s1) =>
          /\ f.channel = number /\ f.radio = c.primary /\ f.eht = None /\ f.he = None
          /\ f.vht = code /\ f.center0 = s0 /\ f.center1 = s1
    BY <1>1 DEF NoFields
  <2> HIDE DEF Vht
  <2>4. /\ f.channel = number /\ f.radio = c.primary /\ f.eht = None /\ f.he = None
        /\ \/ c.width = 80 /\ f.vht = 1 /\ f.center0 = first /\ f.center1 = 0
           \/ c.width = 160 /\ f.vht = 2 /\ f.center0 = first /\ f.center1 = 0
           \/ c.width = 160 /\ f.vht = 1 /\ f.center0 = half /\ f.center1 = first
           \/ c.width = Split /\ f.vht \in {1, 3} /\ f.center0 = first /\ f.center1 = second
    BY <2>2, <2>3
  <2> QED BY <1>3, <1>6, <2>4, VhtUnderstood DEF number, first, second, half
<1>7. CASE c.punct = {} /\ c.width # 320 /\ band = "6"
  <2> DEFINE s0 == IF c.width = 160 THEN half ELSE first
             s1 == CASE c.width = 160 -> first [] c.width = Split -> second [] OTHER -> 0
  <2>1. f \in HeFields(c, own, first, second, half)
    BY <1>7, <1>3 DEF Fields, Split
  <2> HIDE DEF own, number, first, second, half
  <2>2. PICK n \in {own.channel, None} :
          f = [own EXCEPT !.he = Code(c.width), !.channel = n, !.center0 = s0, !.center1 = s1]
    BY <2>1 DEF HeFields
  <2>3. s1 = IF c.width \in {160, Split} THEN second ELSE 0
    BY <1>3 DEF first, second
  <2> HIDE DEF s0, s1
  <2>4. own.channel = number
    BY <1>1 DEF NoFields
  <2>5. /\ f.channel = n /\ f.radio = c.primary /\ f.eht = None /\ f.he = Code(c.width)
        /\ f.center0 = s0 /\ f.center1 = s1
    BY <1>1, <2>2 DEF NoFields
  <2>6. f.center0 = Number(IF c.width = 160 THEN HalfOf(c) ELSE c.centers[1], band)
    BY <2>5 DEF s0, first, half
  <2>7. f.channel \in {Number(c.primary, band), None}
    BY <2>2, <2>4, <2>5 DEF number
  <2>8. f.center1 = IF c.width \in {160, Split}
                    THEN Number(c.centers[Len(c.centers)], band) ELSE 0
    BY <2>3, <2>5 DEF second
  <2> HIDE DEF Sound
  <2> QED BY <1>7, <2>5, <2>6, <2>7, <2>8, HeUnderstood
<1>8. band = "2.4" \/ band = "5" \/ band = "6"
  BY DEF Bands
<1>9. c.width \in {20, 40} \/ c.width = 320 \/ c.width \in {80, 160, Split}
  BY <1>3 DEF Width
<1> QED BY <1>2, <1>3, <1>4, <1>5, <1>6, <1>7, <1>8, <1>9

-----------------------------------------------------------------------------
(* The channel that is asked for, tuned and read back.                     *)

\* What a command can tune: it has its centres, and is punctured only if wide.
Commanded(d) ==
  /\ d \in Channel /\ Len(d.centers) = IF d.width = Split THEN 2 ELSE 1
  /\ d.width \in {20, 40} => d.punct = {}
  /\ d.primary \in active_20mhz_centers(d)

Readable(d) ==
  /\ d.primary \in active_20mhz_centers(d)
  /\ Tuned(build_definition_tune_command(d)) \in Channel
  /\ same_tuning(Tuned(build_definition_tune_command(d)), d)

\* A command makes the radio read as the definition it was built from.
LEMMA ReadAsCommanded ==
  ASSUME NEW d, Commanded(d)
  PROVE  Readable(d)
<1> DEFINE plain == [freq |-> d.primary, ht |-> "", width |-> None, centers |-> << >>,
                     punct |-> {}]
<1>1. /\ d \in Channel /\ d.primary \in Int /\ d.width \in Width /\ d.centers \in Seq(Int)
      /\ d.punct \in SUBSET Nat /\ d.primary \in active_20mhz_centers(d)
      /\ d.width \in {20, 40} => d.punct = {} /\ Len(d.centers) = 1
  <2>1. d \in Channel /\ d.primary \in active_20mhz_centers(d)
    BY DEF Commanded
  <2>2. d.width \in {20, 40} => d.punct = {} /\ Len(d.centers) = 1
    BY DEF Commanded, Split
  <2> QED BY <2>1, <2>2 DEF Channel
<1>2. CASE d.width = 20
  <2>1. d.centers = <<d.primary>>
    <3>1. DOMAIN d.centers = {1} /\ d.centers[1] \in Int /\ d.centers = <<d.centers[1]>>
      BY <1>1, <1>2
    <3>2. active_20mhz_centers(d) \subseteq {d.centers[1]}
      BY <1>2, <3>1, OneCentre DEF active_20mhz_centers, Split
    <3> QED BY <1>1, <3>1, <3>2
  <2>2. build_definition_tune_command(d) = [plain EXCEPT !.ht = "HT20"]
    BY <1>2 DEF build_definition_tune_command
  <2>3. Tuned(build_definition_tune_command(d)) = Ht20(d.primary)
    BY <2>2 DEF Tuned
  <2> QED BY <1>1, <1>2, <2>1, <2>3
          DEF Readable, Ht20, Definition, same_tuning, Channel, Width
<1>3. CASE d.width = 40
  <2>1. d.centers = <<d.primary + 10>> \/ d.centers = <<d.primary - 10>>
    BY <1>1, <1>3, TwoCentres
  <2> DEFINE sign == IF d.centers[1] > d.primary THEN "HT40+" ELSE "HT40-"
  <2>2. build_definition_tune_command(d) = [plain EXCEPT !.ht = sign]
    BY <1>3 DEF build_definition_tune_command
  <2>3. build_definition_tune_command(d).ht = sign
        /\ build_definition_tune_command(d).freq = d.primary
    <3> HIDE DEF sign
    <3> QED BY <2>2
  <2>4. CASE d.centers = <<d.primary + 10>>
    <3>1. sign = "HT40+"
      BY <1>1, <2>4
    <3>2. Tuned(build_definition_tune_command(d)) = Definition(d.primary, 40, <<d.primary + 10>>)
      BY <2>3, <3>1 DEF Tuned
    <3> QED BY <1>1, <1>3, <2>4, <3>2 DEF Readable, Definition, same_tuning, Channel, Width
  <2>5. CASE d.centers = <<d.primary - 10>>
    <3>1. sign = "HT40-"
      BY <1>1, <2>5
    <3>2. Tuned(build_definition_tune_command(d)) = Definition(d.primary, 40, <<d.primary - 10>>)
      BY <2>3, <3>1 DEF Tuned
    <3> QED BY <1>1, <1>3, <2>5, <3>2 DEF Readable, Definition, same_tuning, Channel, Width
  <2> QED BY <2>1, <2>4, <2>5
<1>4. CASE d.width \notin {20, 40}
  <2>1. build_definition_tune_command(d)
          = [plain EXCEPT !.width = d.width, !.centers = d.centers, !.punct = d.punct]
    BY <1>4 DEF build_definition_tune_command
  <2>2. /\ build_definition_tune_command(d).ht = ""
        /\ build_definition_tune_command(d).freq = d.primary
        /\ build_definition_tune_command(d).width = d.width
        /\ build_definition_tune_command(d).centers = d.centers
        /\ build_definition_tune_command(d).punct = d.punct
    BY <2>1
  <2>3. Tuned(build_definition_tune_command(d))
          = [Definition(d.primary, d.width, d.centers) EXCEPT !.punct = d.punct]
    BY <2>2 DEF Tuned
  <2>4. Tuned(build_definition_tune_command(d))
          = [primary |-> d.primary, width |-> d.width, centers |-> d.centers,
             punct |-> d.punct, complete |-> TRUE]
    BY <2>3 DEF Definition
  <2> QED BY <1>1, <2>4 DEF Readable, same_tuning, Channel
<1> QED BY <1>2, <1>3, <1>4

LEMMA CommandedHt20 ==
  ASSUME NEW p \in Int
  PROVE  Commanded(Ht20(p)) /\ Ht20(p).primary = p
BY OneCentre DEF Commanded, Ht20, Definition, Channel, Width, Split

LEMMA CommandedChannel ==
  ASSUME NEW band \in Bands, NEW c, IsChannelOf(c, band)
  PROVE  Commanded(c)
BY DEF Commanded, IsChannelOf

LEMMA RequestTypes ==
  ASSUME NEW r \in Requests
  PROVE  /\ r.band \in Bands /\ r.primary \in Int /\ r.centers \in Seq(Int)
         /\ r.width # None => r.width \in Width
<1>1. r \in [band : Bands, primary : Int, width : Width \cup {None}, centers : Seq(Int)]
  BY ChannelAssumption
<1> QED BY <1>1

\* An explicit request makes a definition that can be tuned, or none.
LEMMA CommandedExplicit ==
  ASSUME NEW r \in Requests, r.width # None, explicit_channel_definition(r) # None
  PROVE  /\ Commanded(explicit_channel_definition(r))
         /\ explicit_channel_definition(r).primary = r.primary
<1>1. r.primary \in Int /\ r.width \in Width /\ r.centers \in Seq(Int)
  BY RequestTypes
<1> DEFINE d == IF r.width = 20 THEN Ht20(r.primary)
                ELSE Definition(r.primary, r.width, r.centers)
<1>2. /\ explicit_channel_definition(r) = d
      /\ r.primary \in active_20mhz_centers(d)
      /\ r.width \notin {20, Split} => Len(r.centers) \in {1}
      /\ r.width = Split => Len(r.centers) \in {2}
  <2> DEFINE lengths == CASE r.width = 20 -> 0..1 [] r.width = Split -> {2} [] OTHER -> {1}
  <2>1. explicit_channel_definition(r) =
          IF Len(r.centers) \in lengths /\ r.primary \in active_20mhz_centers(d)
          THEN d ELSE None
    BY DEF explicit_channel_definition
  <2>2. /\ r.width \notin {20, Split} => lengths = {1}
        /\ r.width = Split => lengths = {2}
    BY DEF Split
  <2> HIDE DEF lengths, d
  <2> QED BY <2>1, <2>2
<1>3. CASE r.width = 20
  BY <1>1, <1>2, <1>3, CommandedHt20
<1>4. CASE r.width # 20
  <2>1. d = Definition(r.primary, r.width, r.centers)
    BY <1>4
  <2>2. /\ d \in Channel /\ d.primary = r.primary /\ d.punct = {} /\ d.centers = r.centers
        /\ d.width = r.width
    <3> HIDE DEF d
    <3>1. d = [primary |-> r.primary, width |-> r.width, centers |-> r.centers,
               punct |-> {}, complete |-> TRUE]
      BY <2>1 DEF Definition
    <3> QED BY <1>1, <3>1 DEF Channel
  <2> HIDE DEF d
  <2> QED BY <1>2, <1>4, <2>2 DEF Commanded
<1> QED BY <1>3, <1>4

\* The default definition can be tuned.
LEMMA CommandedDefault ==
  ASSUME NEW r \in Requests
  PROVE  Commanded(default_channel_definition(r))
<1>1. r.primary \in Int /\ r.band \in Bands
  BY RequestTypes
<1> DEFINE blocks == IF r.band = "5" THEN {42, 58, 106, 122, 138, 155, 171}
                     ELSE IF r.band = "6" THEN {7 + 16 * i : i \in 0..13} ELSE {}
           wide == {Definition(r.primary, 80, <<channel_to_frequency(c, r.band)>>) : c \in blocks}
           own == {d \in wide : r.primary \in active_20mhz_centers(d)}
<1>2. blocks \subseteq Numbers(r.band)
  BY <1>1 DEF Numbers, Bands
<1>3. default_channel_definition(r) = Ht20(r.primary) \/ default_channel_definition(r) \in own
  BY DEF default_channel_definition
<1>4. ASSUME NEW d \in own PROVE Commanded(d)
  <2>1. PICK c \in Numbers(r.band) :
          d = Definition(r.primary, 80, <<channel_to_frequency(c, r.band)>>)
    BY <1>2
  <2>2. channel_to_frequency(c, r.band) \in Int
    BY <1>1, NumberOfFrequency
  <2>3. r.primary \in active_20mhz_centers(d)
    OBVIOUS
  <2> QED BY <1>1, <2>1, <2>2, <2>3 DEF Definition, Commanded, Channel, Width, Split
<1> QED BY <1>1, <1>3, <1>4, CommandedHt20

\* The plan so far: what is asked for can be tuned, and is what was requested
\* unless a fallback is declared.
Plans ==
  [phase : {"asked", "refused", "planned", "tuned", "live"}, requested : Channel \cup {None},
   initial : Channel \cup {None}, actual : Channel \cup {None}, fallback : BOOLEAN,
   verified : BOOLEAN, request : Requests \cup {None}, backend : {"core", "direct", None}]

PlanInv ==
  /\ plan \in Plans
  /\ plan.phase # "refused" => plan.request \in Requests
  /\ plan.phase \in {"planned", "tuned", "live"} =>
       /\ Commanded(plan.initial)
       /\ plan.request.width # None => plan.initial = explicit_channel_definition(plan.request)
       /\ ~plan.fallback => plan.initial = plan.requested
  /\ plan.phase = "live" /\ ~plan.fallback => same_tuning(plan.actual, plan.initial)

LEMMA RefusedPlan ==
  ASSUME plan' = NoPlan
  PROVE  PlanInv' /\ plan'.phase = "refused"
BY DEF NoPlan, Plans, PlanInv

LEMMA InitPlan == TuningInit => PlanInv
<1> SUFFICES ASSUME TuningInit PROVE PlanInv
  OBVIOUS
<1>1. PICK request \in Requests, backend \in {"core", "direct"} :
        plan = [NoPlan EXCEPT !.phase = "asked", !.request = request, !.backend = backend]
  BY DEF TuningInit
<1>2. plan = [phase |-> "asked", requested |-> None, initial |-> None, actual |-> None,
              fallback |-> FALSE, verified |-> FALSE, request |-> request,
              backend |-> backend]
  BY <1>1 DEF NoPlan
<1> HIDE DEF Plans
<1>3. plan \in Plans
  BY <1>2 DEF Plans
<1> QED BY <1>2, <1>3 DEF PlanInv

LEMMA PlanPlans == PlanInv /\ Plan => PlanInv'
<1> SUFFICES ASSUME PlanInv, Plan PROVE PlanInv'
  OBVIOUS
<1>1. plan \in Plans /\ plan.request \in Requests /\ plan.phase = "asked"
  BY DEF PlanInv, Plan
<1> DEFINE r == plan.request
           auto == r.width = None
           wanted == IF auto THEN default_channel_definition(r) ELSE explicit_channel_definition(r)
<1>2. wanted # None => Commanded(wanted)
  BY <1>1, CommandedDefault, CommandedExplicit
<1>3. Commanded(Ht20(r.primary))
  BY <1>1, CommandedHt20, RequestTypes
<1>4. wanted \in Channel \cup {None}
  <2>1. explicit_channel_definition(r) = None \/ explicit_channel_definition(r) # None
    OBVIOUS
  <2> HIDE DEF wanted
  <2> QED BY <1>2 DEF Commanded
<1>5. PICK adapter \in Adapters :
        LET fits == wanted # None /\ supports(adapter, wanted)
            chosen == IF fits THEN wanted ELSE Ht20(r.primary)
        IN plan' = IF \/ ~auto /\ ~fits
                      \/ /\ plan.backend = "core"
                         /\ ~(adapter.known /\ validate_core_request(chosen))
                   THEN NoPlan
                   ELSE [plan EXCEPT
                           !.phase = "planned", !.requested = wanted, !.initial = chosen,
                           !.fallback = \/ ~fits
                                        \/ auto /\ r.band # "2.4" /\ wanted.width = 20]
  BY DEF Plan
<1> DEFINE fits == wanted # None /\ supports(adapter, wanted)
           chosen == IF fits THEN wanted ELSE Ht20(r.primary)
           fell == ~fits \/ (auto /\ r.band # "2.4" /\ wanted.width = 20)
<1>6. CASE plan' = NoPlan
  BY <1>6, RefusedPlan
<1>7. CASE ~(~auto /\ ~fits) /\
           plan' = [plan EXCEPT !.phase = "planned", !.requested = wanted, !.initial = chosen,
                                !.fallback = fell]
  <2>1. Commanded(chosen) /\ chosen \in Channel
    BY <1>2, <1>3 DEF Commanded
  <2>2. fell \in BOOLEAN /\ (~fell => chosen = wanted)
    OBVIOUS
  <2>3. ~auto => chosen = explicit_channel_definition(r)
    BY <1>7
  <2> HIDE DEF wanted, fits, chosen, fell
  <2>4. /\ plan' \in Plans
        /\ plan'.phase = "planned" /\ plan'.requested = wanted /\ plan'.initial = chosen
        /\ plan'.fallback = fell /\ plan'.request = r
    BY <1>1, <1>4, <1>7, <2>1, <2>2 DEF Plans
  <2> QED BY <1>1, <2>1, <2>2, <2>3, <2>4 DEF PlanInv
<1> HIDE DEF wanted, auto
<1> QED BY <1>5, <1>6, <1>7

LEMMA PlanTunes == PlanInv /\ Tune => PlanInv'
<1> SUFFICES ASSUME PlanInv, Tune PROVE PlanInv'
  OBVIOUS
<1>1. plan \in Plans /\ plan.request \in Requests /\ plan.phase = "planned"
  BY DEF PlanInv, Tune
<1>2. CASE plan' = NoPlan
  BY <1>2, RefusedPlan
<1>3. CASE plan' = [plan EXCEPT !.phase = "tuned"]
  <2>1. /\ plan' \in Plans /\ plan'.phase = "tuned" /\ plan'.request = plan.request
        /\ plan'.initial = plan.initial /\ plan'.requested = plan.requested
        /\ plan'.fallback = plan.fallback
    BY <1>1, <1>3 DEF Plans
  <2> QED BY <1>1, <2>1 DEF PlanInv
<1>4. CASE plan.request.width = None /\ plan' = Retried(plan)
  <2>1. Commanded(Ht20(plan.request.primary)) /\ Ht20(plan.request.primary) \in Channel
    BY <1>1, CommandedHt20, RequestTypes DEF Commanded
  <2>2. /\ plan' \in Plans /\ plan'.phase = "tuned" /\ plan'.request = plan.request
        /\ plan'.initial = Ht20(plan.request.primary) /\ plan'.fallback = TRUE
    BY <1>1, <1>4, <2>1 DEF Plans, Retried
  <2> QED BY <1>1, <1>4, <2>1, <2>2 DEF PlanInv
<1> QED BY <1>2, <1>3, <1>4 DEF Tune

LEMMA PlanReadBack == PlanInv /\ ReadBack => PlanInv'
<1> SUFFICES ASSUME PlanInv, ReadBack PROVE PlanInv'
  OBVIOUS
<1>1. plan \in Plans /\ plan.request \in Requests /\ plan.phase = "tuned" /\ Commanded(plan.initial)
  BY DEF PlanInv, ReadBack
<1>2. CASE plan' = NoPlan
  BY <1>2, RefusedPlan
<1>3. ASSUME plan' # NoPlan PROVE PlanInv'
  <2>1. PICK verified \in BOOLEAN, taken \in {Tuned(build_definition_tune_command(plan.initial)),
                                              Ht20(plan.initial.primary)} :
          LET read == [plan EXCEPT !.phase = "live", !.verified = verified,
                                   !.actual = IF verified THEN taken ELSE plan.initial]
          IN plan' = [read EXCEPT !.fallback = Differs(read)]
    BY <1>3 DEF ReadBack
  <2>2. plan.initial \in Channel /\ plan.initial.primary \in Int
    BY <1>1 DEF Commanded, Channel
  <2>3. taken \in Channel
    BY <1>1, <2>2, ReadAsCommanded, CommandedHt20 DEF Readable, Commanded
  <2> DEFINE actual == IF verified THEN taken ELSE plan.initial
             read == [plan EXCEPT !.phase = "live", !.verified = verified, !.actual = actual]
  <2>4. actual \in Channel
    BY <2>2, <2>3
  <2> HIDE DEF actual
  <2>5. /\ read \in Plans /\ read.phase = "live" /\ read.actual = actual
        /\ read.request = plan.request /\ read.initial = plan.initial
        /\ read.requested = plan.requested /\ read.fallback = plan.fallback
    BY <1>1, <2>4 DEF Plans
  <2>6. plan' = [read EXCEPT !.fallback = Differs(read)]
    BY <2>1 DEF actual
  <2>7. Differs(read) \in BOOLEAN
    BY <2>5 DEF Differs, Plans
  <2>8. ~Differs(read) => ~plan.fallback /\ same_tuning(actual, plan.initial)
    BY <2>5 DEF Differs
  <2> HIDE DEF read
  <2>9. /\ plan' \in Plans /\ plan'.phase = "live" /\ plan'.actual = actual
        /\ plan'.request = plan.request /\ plan'.initial = plan.initial
        /\ plan'.requested = plan.requested /\ plan'.fallback = Differs(read)
    BY <2>5, <2>6, <2>7 DEF Plans
  <2> QED BY <1>1, <2>8, <2>9 DEF PlanInv
<1> QED BY <1>2, <1>3

LEMMA PlanStep == PlanInv /\ [TuningNext]_planVars => PlanInv'
<1>1. PlanInv /\ plan' = plan => PlanInv'
  BY DEF PlanInv
<1>2. Beacon \/ UNCHANGED planVars => plan' = plan
  BY DEF Beacon, Hear, planVars
<1> QED BY <1>1, <1>2, PlanPlans, PlanTunes, PlanReadBack DEF TuningNext

LEMMA PlanSuffices == PlanInv => TuningKept
<1> SUFFICES ASSUME PlanInv PROVE TuningKept
  OBVIOUS
<1>1. ASSUME plan.phase \in {"planned", "tuned", "live"}
      PROVE  /\ plan.request.width # None =>
                  plan.initial = explicit_channel_definition(plan.request)
             /\ plan.initial.primary \in active_20mhz_centers(plan.initial)
             /\ \A d \in (UNION {Channels[band] : band \in DOMAIN Channels}) \cup {plan.initial} :
                  same_tuning(Tuned(build_definition_tune_command(d)), d)
  <2>1. Commanded(plan.initial)
    BY <1>1 DEF PlanInv
  <2>2. \A band \in DOMAIN Channels : \A d \in Channels[band] : Commanded(d)
    BY CommandedChannel, ChannelAssumption
  <2>3. \A d : Commanded(d) => same_tuning(Tuned(build_definition_tune_command(d)), d)
    BY ReadAsCommanded DEF Readable
  <2>4. plan.initial.primary \in active_20mhz_centers(plan.initial)
    BY <2>1 DEF Commanded
  <2>5. plan.request.width # None => plan.initial = explicit_channel_definition(plan.request)
    BY <1>1 DEF PlanInv
  <2>6. \A d \in (UNION {Channels[band] : band \in DOMAIN Channels}) \cup {plan.initial} :
          same_tuning(Tuned(build_definition_tune_command(d)), d)
    <3> SUFFICES ASSUME NEW d \in (UNION {Channels[band] : band \in DOMAIN Channels})
                                   \cup {plan.initial}
                 PROVE  Commanded(d)
      BY <2>3
    <3>1. d = plan.initial \/ \E band \in DOMAIN Channels : d \in Channels[band]
      OBVIOUS
    <3> QED BY <2>1, <2>2, <3>1
  <2> QED BY <2>4, <2>5, <2>6
<1>2. ASSUME plan.phase = "live", ~plan.fallback PROVE same_tuning(plan.actual, plan.requested)
  BY <1>2 DEF PlanInv
<1> QED BY <1>1, <1>2 DEF TuningKept

\* The run knows what it is tuned to, for every request, adapter and channel:
\* what is reported is what was asked for or a declared fallback, an explicit
\* width is never replaced, and a command is read back as it was meant.
THEOREM TuningIsKept == TuningSpec => []TuningKept
BY InitPlan, PlanStep, PlanSuffices, PTL DEF TuningSpec

-----------------------------------------------------------------------------
(* What is said of coverage.                                               *)

Evidence == {None} \cup [channel : Channel, at : Nat]
Status == {"initial", "fallback", "complete", "unverified", "partial"}
Decision == [covered : SUBSET Stations, partial : SUBSET Stations, status : Status]

\* What a beacon says is conclusive of its channel, or says nothing.
LEMMA ParsedSound ==
  ASSUME plan.request \in Requests, NEW p \in Parsed(plan.request.band)
  PROVE  /\ p.channel # None =>
              /\ p.channel \in Channel
              /\ Inferred(p.definition) # None /\ Sound(Inferred(p.definition), p.channel)
         /\ p.channel = None =>
              Inferred(p.definition) = None \/ ~Inferred(p.definition).complete
<1> DEFINE band == plan.request.band
           own == Ht20(plan.request.primary)
<1>1. band \in Bands /\ plan.request.primary \in Int
  BY RequestTypes
<1>2. \A c \in Channels[band] : IsChannelOf(c, band) /\ c \in Channel /\ c # None
  <2>1. \A c \in Channels[band] : IsChannelOf(c, band)
    BY <1>1, ChannelAssumption
  <2>2. None \notin Channel
    BY ChannelAssumption
  <2> QED BY <2>1, <2>2 DEF IsChannelOf
<1>3. own \in Channel /\ own # None /\ own.complete
  <2>1. own \in Channel /\ own.complete
    BY <1>1, CommandedHt20 DEF Commanded, Ht20, Definition
  <2> QED BY <2>1, ChannelAssumption
<1> HIDE DEF band
<1>4. ASSUME NEW c \in Channels[band], NEW f \in Fields(c, band),
             p = [definition |-> definition_from_operation_fields(f, band), channel |-> c]
      PROVE  /\ p.channel # None /\ p.channel \in Channel
             /\ Inferred(p.definition) # None /\ Sound(Inferred(p.definition), p.channel)
  <2>1. Sound(p.definition, c) /\ p.channel = c
    BY <1>1, <1>2, <1>4, Understood
  <2>2. p.definition # None
    BY <2>1, ChannelAssumption DEF Sound
  <2> QED BY <1>2, <2>1, <2>2 DEF Inferred
<1>5. ASSUME NEW c \in Channels[band],
             p = [definition |-> _ambiguous_definition(c.primary), channel |-> None]
      PROVE  p.channel = None /\ ~Inferred(p.definition).complete
  <2> DEFINE d == _ambiguous_definition(c.primary)
  <2>1. d = [primary |-> c.primary, width |-> 20, centers |-> <<c.primary>>, punct |-> {},
             complete |-> FALSE]
    <3> DEFINE plain == [primary |-> c.primary, width |-> 20, centers |-> <<c.primary>>,
                         punct |-> {}, complete |-> TRUE]
    <3>1. Ht20(c.primary) = plain
      BY DEF Ht20, Definition
    <3> HIDE DEF d
    <3>2. d = [Ht20(c.primary) EXCEPT !.complete = FALSE]
      BY DEF d, _ambiguous_definition
    <3>3. d = [plain EXCEPT !.complete = FALSE]
      BY <3>1, <3>2
    <3> QED BY <3>3
  <2>2. c.primary \in Int
    BY <1>2 DEF Channel
  <2> HIDE DEF d
  <2>3. d \in Channel /\ ~d.complete
    BY <2>1, <2>2 DEF Channel, Width
  <2>4. d # None
    BY <2>3, ChannelAssumption
  <2>5. p.definition = d /\ p.channel = None
    BY <1>5 DEF d
  <2> QED BY <2>3, <2>4, <2>5 DEF Inferred
<1>6. ASSUME p = [definition |-> None,
                  channel |-> IF plan.actual.width = 20 /\ OnPrimary THEN own ELSE None]
      PROVE  /\ p.channel # None =>
                  /\ p.channel \in Channel
                  /\ Inferred(p.definition) # None /\ Sound(Inferred(p.definition), p.channel)
             /\ p.channel = None =>
                  Inferred(p.definition) = None \/ ~Inferred(p.definition).complete
  <2>1. /\ p.definition = None
        /\ p.channel = IF plan.actual.width = 20 /\ OnPrimary THEN own ELSE None
    BY <1>6
  <2>2. Inferred(None) = IF plan.actual.width = 20 THEN [own EXCEPT !.complete = OnPrimary]
                         ELSE None
    BY DEF Inferred
  <2> HIDE DEF own
  <2>3. OnPrimary => [own EXCEPT !.complete = OnPrimary] = own
    <3> SUFFICES ASSUME OnPrimary
                 PROVE  [own EXCEPT !.complete = OnPrimary] = own
      OBVIOUS
    <3>1. OnPrimary = TRUE
      BY DEF OnPrimary
    <3>2. [own EXCEPT !.complete = TRUE] = own
      BY <1>3 DEF Channel
    <3> QED BY <3>1, <3>2
  <2>4. ~OnPrimary => ~[own EXCEPT !.complete = OnPrimary].complete
    BY <1>3 DEF Channel
  <2>5. CASE plan.actual.width = 20 /\ OnPrimary
    BY <1>3, <2>1, <2>2, <2>3, <2>5 DEF Sound, same_tuning
  <2>6. CASE plan.actual.width = 20 /\ ~OnPrimary
    BY <2>1, <2>2, <2>4, <2>6
  <2>7. CASE plan.actual.width # 20
    BY <2>1, <2>2, <2>7
  <2> QED BY <2>5, <2>6, <2>7
<1>7. \/ \E c \in Channels[band] : \E f \in Fields(c, band) :
           p = [definition |-> definition_from_operation_fields(f, band), channel |-> c]
      \/ \E c \in Channels[band] :
           p = [definition |-> _ambiguous_definition(c.primary), channel |-> None]
      \/ p = [definition |-> None,
              channel |-> IF plan.actual.width = 20 /\ OnPrimary THEN own ELSE None]
  BY DEF Parsed, band
<1> HIDE DEF own
<1> QED BY <1>4, <1>5, <1>6, <1>7

\* A beacon's channel is not inside what is captured.
Outside(e) == e # None /\ ~contains(plan.actual, e.channel)

\* Coverage at second t, of which ev is known and after seen: what is listed is
\* so, what was outside lately is listed, and what was known lately was heard.
Fair(cov, ev, seen, t) ==
  /\ \A b \in cov.partial : Outside(ev[b])
  /\ \A b \in cov.covered : ev[b] # None /\ ~Outside(ev[b])
  /\ \A b \in Stations : Outside(ev[b]) /\ ev[b].at >= t - Retention => b \in cov.partial
  /\ \A b \in Stations :
       ev[b] # None /\ ev[b].at >= t - Retention => seen[b] # None /\ seen[b] >= ev[b].at
  /\ \A b \in Stations : ev[b] # None => ev[b].at <= t
  /\ cov.partial # {} => cov.status # "complete"
  /\ cov.status = "partial" => cov.partial # {}

CoverInv ==
  /\ coverage \in Decision /\ evidence \in [Stations -> Evidence] /\ now \in Nat
  /\ lastSeen \in [Stations -> Nat \cup {None}]
  /\ plan.phase # "live" => coverage = NoCoverage /\ evidence = [b \in Stations |-> None]
  /\ Fair(coverage, evidence, lastSeen, now)

\* Pruning at a later second drops what nothing was heard of in the window.
LEMMA FairPruned ==
  ASSUME CoverInv, NEW time \in Nat, time >= now, NEW heard \in [Stations -> Nat \cup {None}],
         \A b \in Stations : heard[b] = lastSeen[b] \/ heard[b] = time,
         NEW seen,
         seen = [b \in Stations |-> IF b \in Active(heard, time) THEN heard[b] ELSE None]
  PROVE  /\ Fair(prune_fixed_capture_coverage(coverage, Active(heard, time)), evidence, seen, time)
         /\ prune_fixed_capture_coverage(coverage, Active(heard, time)) \in Decision
<1> DEFINE active == Active(heard, time)
           left == coverage.partial \cap active
           cov == prune_fixed_capture_coverage(coverage, active)
           status == IF plan.fallback THEN "fallback" ELSE IF ~plan.verified THEN "unverified"
                     ELSE IF left # {} THEN "partial" ELSE "complete"
<1>1. cov = [covered |-> coverage.covered \cap active, partial |-> left, status |-> status]
  BY DEF prune_fixed_capture_coverage
<1>2. cov.covered = coverage.covered \cap active /\ cov.partial = left /\ cov.status = status
  BY <1>1
<1>3. /\ left # {} => status # "complete"
      /\ status = "partial" => left # {}
      /\ status \in Status
  <2> HIDE DEF left
  <2>1. \/ status = "fallback"
        \/ status = "unverified"
        \/ status = "partial" /\ left # {}
        \/ status = "complete" /\ left = {}
    BY Zenon
  <2> HIDE DEF status
  <2>2. left # {} => status # "complete"
    BY <2>1
  <2>3. status = "partial" => left # {}
    BY <2>1
  <2>4. status \in Status
    BY <2>1 DEF Status
  <2> QED BY <2>2, <2>3, <2>4
<1>4. /\ coverage.partial \subseteq Stations /\ coverage.covered \subseteq Stations
      /\ evidence \in [Stations -> Evidence] /\ now \in Nat /\ Retention \in Nat
      /\ lastSeen \in [Stations -> Nat \cup {None}]
  BY ChannelAssumption DEF CoverInv, Decision
<1>5. ASSUME NEW b \in Stations, evidence[b] # None, evidence[b].at >= time - Retention
      PROVE  /\ b \in active /\ seen[b] # None /\ seen[b] >= evidence[b].at
             /\ Outside(evidence[b]) => b \in coverage.partial
  <2>1. evidence[b].at \in Nat /\ evidence[b].at <= now
    BY <1>4, <1>5 DEF Evidence, CoverInv, Fair
  <2>2. evidence[b].at >= now - Retention
    BY <1>4, <1>5, <2>1
  <2>3. /\ lastSeen[b] # None /\ lastSeen[b] >= evidence[b].at
        /\ Outside(evidence[b]) => b \in coverage.partial
    BY <1>5, <2>2 DEF CoverInv, Fair
  <2>4. lastSeen[b] \in Nat /\ heard[b] \in Nat \cup {None}
    BY <1>4, <2>3
  <2>5. heard[b] # None /\ heard[b] >= time - Retention
    <3>1. CASE heard[b] = lastSeen[b]
      BY <1>4, <1>5, <2>1, <2>3, <2>4, <3>1
    <3>2. CASE heard[b] = time
      BY <1>4, <3>2, ChannelAssumption
    <3> QED BY <3>1, <3>2
  <2>6. b \in active
    BY <2>5 DEF Active
  <2>7. seen[b] = heard[b]
    BY <2>6
  <2>8. heard[b] >= evidence[b].at
    <3>1. CASE heard[b] = lastSeen[b]
      BY <2>3, <3>1
    <3>2. CASE heard[b] = time
      BY <1>4, <2>1, <3>2
    <3> QED BY <3>1, <3>2
  <2> QED BY <2>3, <2>5, <2>6, <2>7, <2>8
<1> HIDE DEF active, left, status, cov
<1>6. /\ \A b \in cov.partial : Outside(evidence[b])
      /\ \A b \in cov.covered : evidence[b] # None /\ ~Outside(evidence[b])
  BY <1>2 DEF CoverInv, Fair, left
<1>7. \A b \in Stations :
        Outside(evidence[b]) /\ evidence[b].at >= time - Retention => b \in cov.partial
  BY <1>2, <1>5 DEF left, Outside
<1>8. \A b \in Stations : evidence[b] # None => evidence[b].at <= time
  <2> SUFFICES ASSUME NEW b \in Stations, evidence[b] # None PROVE evidence[b].at <= time
    OBVIOUS
  <2>1. evidence[b].at \in Nat /\ evidence[b].at <= now
    BY <1>4 DEF Evidence, CoverInv, Fair
  <2> QED BY <1>4, <2>1
<1>9. cov \in Decision
  BY <1>1, <1>3, <1>4 DEF Decision, left
<1>10. Fair(cov, evidence, seen, time)
  BY <1>2, <1>3, <1>5, <1>6, <1>7, <1>8 DEF Fair
<1> QED BY <1>9, <1>10 DEF cov, active

\* A conclusive beacon of an access point is taken over.
LEMMA FairUpdated ==
  ASSUME NEW cov \in Decision, NEW seen, NEW time \in Nat, NEW bssid \in Stations,
         evidence \in [Stations -> Evidence], Fair(cov, evidence, seen, time),
         seen[bssid] = time, time # None,
         NEW d, NEW channel \in Channel, channel # None, Sound(d, channel), NEW ev,
         ev = [evidence EXCEPT ![bssid] = [channel |-> channel, at |-> time]]
  PROVE  /\ Fair(update_fixed_capture_coverage(cov, bssid, d, plan.actual), ev, seen, time)
         /\ update_fixed_capture_coverage(cov, bssid, d, plan.actual) \in Decision
         /\ ev \in [Stations -> Evidence]
<1> DEFINE next == update_fixed_capture_coverage(cov, bssid, d, plan.actual)
           entry == [channel |-> channel, at |-> time]
           left == cov.partial \ {bssid}
<1>1. d.complete /\ (contains(plan.actual, d) <=> contains(plan.actual, channel))
  BY SameCentres DEF Sound
<1>2. /\ entry \in Evidence /\ entry # None /\ entry.at = time
      /\ Outside(entry) <=> ~contains(plan.actual, channel)
  BY ChannelAssumption DEF Evidence, Outside
<1> HIDE DEF entry
<1>3. /\ ev \in [Stations -> Evidence] /\ ev[bssid] = entry
      /\ \A b \in Stations : b # bssid => ev[b] = evidence[b]
  BY <1>2 DEF entry
<1>4. /\ cov.partial \subseteq Stations /\ cov.covered \subseteq Stations
      /\ cov.status \in Status
  BY DEF Decision
<1>5. /\ time <= time /\ time >= time
  OBVIOUS
<1>6. CASE contains(plan.actual, d)
  <2> DEFINE status == IF cov.status = "partial" /\ left = {} THEN "complete" ELSE cov.status
  <2>1. next = [covered |-> cov.covered \cup {bssid}, partial |-> left, status |-> status]
    BY <1>1, <1>6 DEF update_fixed_capture_coverage
  <2>2. next.covered = cov.covered \cup {bssid} /\ next.partial = left /\ next.status = status
    BY <2>1
  <2>3. /\ left # {} => status # "complete"
        /\ status = "partial" => left # {}
        /\ status \in Status
    BY <1>4 DEF Fair, Status
  <2>4. ~Outside(entry)
    BY <1>1, <1>2, <1>6
  <2> HIDE DEF next, status
  <2>5. next \in Decision
    BY <1>4, <2>1, <2>3 DEF Decision
  <2>6. /\ \A b \in next.partial : Outside(ev[b])
        /\ \A b \in next.covered : ev[b] # None /\ ~Outside(ev[b])
    BY <1>2, <1>3, <1>4, <2>2, <2>4 DEF Fair
  <2>7. /\ \A b \in Stations : Outside(ev[b]) /\ ev[b].at >= time - Retention => b \in next.partial
        /\ \A b \in Stations : ev[b] # None /\ ev[b].at >= time - Retention =>
             seen[b] # None /\ seen[b] >= ev[b].at
        /\ \A b \in Stations : ev[b] # None => ev[b].at <= time
    BY <1>2, <1>3, <1>5, <2>2, <2>4 DEF Fair
  <2>8. Fair(next, ev, seen, time)
    BY <2>2, <2>3, <2>6, <2>7 DEF Fair
  <2> QED BY <1>3, <2>5, <2>8 DEF next
<1>7. CASE ~contains(plan.actual, d)
  <2> DEFINE status == IF cov.status = "fallback" THEN "fallback" ELSE "partial"
  <2>1. next = [covered |-> cov.covered \ {bssid}, partial |-> cov.partial \cup {bssid},
                status |-> status]
    BY <1>1, <1>7 DEF update_fixed_capture_coverage
  <2>2. /\ next.covered = cov.covered \ {bssid} /\ next.partial = cov.partial \cup {bssid}
        /\ next.status = status
    BY <2>1
  <2>3. status # "complete" /\ status \in Status
    BY DEF Status
  <2>4. Outside(entry)
    BY <1>1, <1>2, <1>7
  <2> HIDE DEF next, status
  <2>5. next \in Decision
    BY <1>4, <2>1, <2>3 DEF Decision
  <2>6. /\ \A b \in next.partial : Outside(ev[b])
        /\ \A b \in next.covered : ev[b] # None /\ ~Outside(ev[b])
    BY <1>2, <1>3, <1>4, <2>2, <2>4 DEF Fair
  <2>7. /\ \A b \in Stations : Outside(ev[b]) /\ ev[b].at >= time - Retention => b \in next.partial
        /\ \A b \in Stations : ev[b] # None /\ ev[b].at >= time - Retention =>
             seen[b] # None /\ seen[b] >= ev[b].at
        /\ \A b \in Stations : ev[b] # None => ev[b].at <= time
    BY <1>2, <1>3, <1>5, <2>2, <2>4 DEF Fair
  <2>8. Fair(next, ev, seen, time)
    BY <2>2, <2>3, <2>6, <2>7 DEF Fair
  <2> QED BY <1>3, <2>5, <2>8 DEF next
<1> QED BY <1>6, <1>7

\* Nothing is said before there is evidence, but how the capture began.
LEMMA NothingHeard ==
  ASSUME evidence = [b \in Stations |-> None], coverage.covered = {}, coverage.partial = {},
         coverage.status # "partial"
  PROVE  Fair(coverage, evidence, lastSeen, now)
BY DEF Fair, Outside

LEMMA InitCover == TuningInit => CoverInv
<1> SUFFICES ASSUME TuningInit PROVE CoverInv
  OBVIOUS
<1>1. /\ coverage = NoCoverage /\ evidence = [b \in Stations |-> None] /\ now = 0
      /\ lastSeen = [b \in Stations |-> None]
  BY DEF TuningInit
<1>2. coverage.covered = {} /\ coverage.partial = {} /\ coverage.status # "partial"
  BY <1>1 DEF NoCoverage
<1>3. coverage \in Decision
  BY <1>1 DEF NoCoverage, Decision, Status
<1>4. evidence \in [Stations -> Evidence] /\ lastSeen \in [Stations -> Nat \cup {None}]
  BY <1>1 DEF Evidence
<1> QED BY <1>1, <1>2, <1>3, <1>4, NothingHeard DEF CoverInv

LEMMA CoverBefore ==
  ASSUME PlanInv, CoverInv, Plan \/ Tune \/ ReadBack
  PROVE  CoverInv'
<1>1. plan.phase # "live" /\ UNCHANGED <<lastSeen, now, evidence>>
  BY DEF Plan, Tune, ReadBack
<1>2. coverage = NoCoverage /\ evidence = [b \in Stations |-> None]
  BY <1>1 DEF CoverInv
<1>3. \/ coverage' = NoCoverage
      \/ plan'.phase = "live" /\ \E s \in {"fallback", "complete", "unverified"} :
                                   coverage' = [NoCoverage EXCEPT !.status = s]
  <2>1. Plan \/ Tune => coverage' = NoCoverage
    BY <1>2 DEF Plan, Tune
  <2>2. ASSUME ReadBack, coverage' # NoCoverage
        PROVE  plan'.phase = "live" /\ \E s \in {"fallback", "complete", "unverified"} :
                                         coverage' = [NoCoverage EXCEPT !.status = s]
    <3>1. PICK verified \in BOOLEAN, taken \in {Tuned(build_definition_tune_command(plan.initial)),
                                                Ht20(plan.initial.primary)} :
            LET read == [plan EXCEPT !.phase = "live", !.verified = verified,
                                     !.actual = IF verified THEN taken ELSE plan.initial]
            IN /\ plan' = [read EXCEPT !.fallback = Differs(read)]
               /\ coverage' = [NoCoverage EXCEPT !.status =
                    IF Differs(read) THEN "fallback"
                    ELSE IF verified THEN "complete" ELSE "unverified"]
      BY <1>2, <2>2 DEF ReadBack
    <3>2. plan'.phase = "live"
      BY <3>1 DEF PlanInv, Plans
    <3> QED BY <3>1, <3>2
  <2> QED BY <2>1, <2>2
<1>4. /\ coverage'.covered = {} /\ coverage'.partial = {} /\ coverage'.status # "partial"
      /\ coverage' \in Decision
      /\ plan'.phase # "live" => coverage' = NoCoverage
  BY <1>3 DEF NoCoverage, Decision, Status
<1>5. /\ evidence' = [b \in Stations |-> None]
      /\ evidence' \in [Stations -> Evidence] /\ now' \in Nat
      /\ lastSeen' \in [Stations -> Nat \cup {None}]
  BY <1>1, <1>2 DEF CoverInv
<1>6. Fair(coverage, evidence, lastSeen, now)'
  BY <1>4, <1>5 DEF Fair, Outside
<1> QED BY <1>4, <1>5, <1>6 DEF CoverInv

LEMMA CoverHears == PlanInv /\ CoverInv /\ Beacon => CoverInv'
<1> SUFFICES ASSUME PlanInv, CoverInv, Beacon PROVE CoverInv'
  OBVIOUS
<1>1. PICK bssid \in Stations, time \in now..MaxSeconds, p \in Parsed(plan.request.band) :
        Hear(bssid, time, p.definition, p.channel)
  BY DEF Beacon
<1>2. /\ now \in Nat /\ time \in Nat /\ time >= now /\ time # None
      /\ plan.phase = "live" /\ plan.request \in Requests
      /\ evidence \in [Stations -> Evidence] /\ coverage \in Decision
      /\ lastSeen \in [Stations -> Nat \cup {None}]
  <2>1. now \in Nat /\ MaxSeconds \in Nat
    BY ChannelAssumption DEF CoverInv
  <2>2. time \in Nat /\ time >= now
    BY <2>1
  <2>3. time # None
    BY <2>2, ChannelAssumption
  <2> QED BY <2>1, <2>2, <2>3 DEF Beacon, PlanInv, CoverInv
<1> DEFINE heard == [lastSeen EXCEPT ![bssid] = time]
           active == IF time # now THEN Active(heard, time)
                     ELSE {b \in Stations : heard[b] # None}
           pruned == IF time # now THEN prune_fixed_capture_coverage(coverage, active)
                     ELSE coverage
           advertised == Inferred(p.definition)
           compared == advertised # None /\ advertised.primary = plan.request.primary
<1>3. /\ lastSeen' = [b \in Stations |-> IF b \in active THEN heard[b] ELSE None]
      /\ now' = time /\ plan' = plan
      /\ coverage' = IF compared
                     THEN update_fixed_capture_coverage(pruned, bssid, advertised, plan.actual)
                     ELSE pruned
      /\ evidence' = IF p.channel # None /\ compared
                     THEN [evidence EXCEPT ![bssid] = [channel |-> p.channel, at |-> time]]
                     ELSE evidence
  BY <1>1 DEF Hear
<1>4. /\ heard \in [Stations -> Nat \cup {None}] /\ heard[bssid] = time
      /\ \A b \in Stations : b # bssid => heard[b] = lastSeen[b]
  BY <1>2
<1> HIDE DEF heard
<1>5. lastSeen' \in [Stations -> Nat \cup {None}]
  <2> HIDE DEF active
  <2> QED BY <1>3, <1>4
<1>6. bssid \in active
  <2>1. heard[bssid] # None /\ time >= time - Retention
    BY <1>2, <1>4, ChannelAssumption
  <2> QED BY <1>4, <2>1 DEF Active
<1>7. lastSeen'[bssid] = time
  <2> HIDE DEF active
  <2> QED BY <1>3, <1>4, <1>6
<1>8. Fair(pruned, evidence, lastSeen', time) /\ pruned \in Decision
  <2>1. CASE time # now
    <3>1. \A b \in Stations : heard[b] = lastSeen[b] \/ heard[b] = time
      BY <1>4
    <3>2. lastSeen' = [b \in Stations |-> IF b \in Active(heard, time) THEN heard[b] ELSE None]
      BY <1>3, <2>1
    <3> QED BY <1>2, <1>4, <2>1, <3>1, <3>2, FairPruned
  <2>2. CASE time = now
    <3>1. \A b \in Stations : lastSeen'[b] = heard[b]
      BY <1>3, <2>2
    <3>2. /\ Fair(coverage, evidence, lastSeen, now)
          /\ \A b \in Stations : lastSeen'[b] = IF b = bssid THEN now ELSE lastSeen[b]
      BY <1>4, <2>2, <3>1 DEF CoverInv
    <3>3. now # None
      BY <1>2, <2>2
    <3>4. Fair(coverage, evidence, lastSeen', now)
      BY <3>2, <3>3 DEF Fair
    <3> QED BY <1>2, <2>2, <3>4
  <2> QED BY <2>1, <2>2
<1> HIDE DEF pruned, active, advertised
<1>9. /\ p.channel # None => /\ p.channel \in Channel
                             /\ advertised # None /\ Sound(advertised, p.channel)
      /\ p.channel = None => advertised = None \/ ~advertised.complete
  BY <1>2, ParsedSound DEF advertised
<1>10. CASE p.channel # None /\ compared
  <2>1. evidence' = [evidence EXCEPT ![bssid] = [channel |-> p.channel, at |-> time]]
    BY <1>3, <1>10
  <2>2. coverage' = update_fixed_capture_coverage(pruned, bssid, advertised, plan.actual)
    BY <1>3, <1>10
  <2>3. /\ Fair(coverage', evidence', lastSeen', time) /\ coverage' \in Decision
        /\ evidence' \in [Stations -> Evidence]
    BY <1>2, <1>7, <1>8, <1>9, <1>10, <2>1, <2>2, FairUpdated
  <2> QED BY <1>2, <1>3, <1>5, <2>3 DEF CoverInv, Fair, Outside
<1>11. CASE ~(p.channel # None /\ compared)
  <2>1. evidence' = evidence
    BY <1>3, <1>11
  <2>2. coverage' = pruned
    BY <1>3, <1>9, <1>11 DEF update_fixed_capture_coverage
  <2> QED BY <1>2, <1>3, <1>5, <1>8, <2>1, <2>2 DEF CoverInv, Fair, Outside
<1> QED BY <1>10, <1>11

LEMMA CoverStep == PlanInv /\ CoverInv /\ [TuningNext]_planVars => CoverInv'
<1>1. CoverInv /\ UNCHANGED planVars => CoverInv'
  BY DEF CoverInv, Fair, Outside, planVars
<1> QED BY <1>1, CoverBefore, CoverHears DEF TuningNext

LEMMA CoverSuffices == PlanInv /\ CoverInv => CoverageHonest
<1> SUFFICES ASSUME PlanInv, CoverInv, plan.phase = "live" PROVE
      /\ \A p \in Parsed(plan.request.band) :
           p.channel # None => same_tuning(Inferred(p.definition), p.channel)
      /\ \A b \in coverage.partial : Missed(b)
      /\ \A b \in coverage.covered : evidence[b] # None /\ ~Missed(b)
      /\ \A b \in Stations :
           Missed(b) /\ evidence[b].at >= now - Retention => b \in coverage.partial
      /\ coverage.partial # {} => coverage.status # "complete"
      /\ coverage.status = "partial" => coverage.partial # {}
  BY DEF CoverageHonest
<1>1. \A p \in Parsed(plan.request.band) :
        p.channel # None => same_tuning(Inferred(p.definition), p.channel)
  BY ParsedSound DEF PlanInv, Sound
<1>2. \A b : Missed(b) <=> Outside(evidence[b])
  BY DEF Missed, Outside
<1>3. Fair(coverage, evidence, lastSeen, now)
  BY DEF CoverInv
<1> QED BY <1>1, <1>2, <1>3 DEF Fair

\* Coverage is what the access points really have, for every set of them,
\* request, adapter and retention: a beacon is understood as its channel,
\* whichever way it is said; what is listed as partial is not contained in the
\* capture, and what was not contained lately is listed; and while something
\* is, the status does not claim complete coverage.
THEOREM CoverageIsHonest == TuningSpec => []CoverageHonest
<1>1. TuningInit => PlanInv /\ CoverInv
  BY InitPlan, InitCover
<1>2. PlanInv /\ CoverInv /\ [TuningNext]_planVars => PlanInv' /\ CoverInv'
  BY PlanStep, CoverStep
<1> QED BY <1>1, <1>2, CoverSuffices, PTL DEF TuningSpec

-----------------------------------------------------------------------------
(* Arithmetic.                                                             *)

\* The integer quotient by an interval.
LEMMA Quotient ==
  ASSUME NEW n \in Int
  PROVE  /\ n \div Interval \in Int
         /\ (n \div Interval) * Interval <= n
         /\ n < (n \div Interval) * Interval + Interval
BY ReceptionAssumption

\* What fits an integral number of times is no more than the quotient.
LEMMA AtMostQuotient ==
  ASSUME NEW n \in Int, NEW k \in Int, k * Interval <= n
  PROVE  k <= n \div Interval
BY Quotient, ReceptionAssumption

\* A later slot is sent later.
LEMMA LaterSlot ==
  ASSUME NEW k \in Int, NEW m \in Int, k <= m
  PROVE  k * Interval \in Int /\ m * Interval \in Int /\ k * Interval <= m * Interval
BY ReceptionAssumption

\* Rounded up, it is enough, and no more than what is enough.
LEMMA RoundedUp ==
  ASSUME NEW n \in Int
  PROVE  /\ CeilDiv(n) \in Int
         /\ n <= CeilDiv(n) * Interval
         /\ \A k \in Int : n <= k * Interval => CeilDiv(n) <= k
BY Quotient, AtMostQuotient, ReceptionAssumption DEF CeilDiv

\* A set of numbers has a least one.
LEMMA LeastOf ==
  ASSUME NEW S \in SUBSET Nat, S # {}
  PROVE  Min(S) \in S /\ \A k \in S : Min(S) <= k
<1>1. PICK m \in S : \A k \in S : ~(<<k, m>> \in OpToRel(<, Nat))
  BY NatLessThanWellFounded, WFMin
<1>2. ASSUME NEW k \in S PROVE m <= k
  <2>1. SUFFICES ASSUME k < m PROVE FALSE
    OBVIOUS
  <2>2. <<k, m>> \in Nat \X Nat
    OBVIOUS
  <2>3. <<k, m>>[1] < <<k, m>>[2]
    BY <2>1
  <2>4. <<k, m>> \in {ss \in Nat \X Nat : ss[1] < ss[2]}
    BY <2>2, <2>3
  <2>5. OpToRel(<, Nat) = {ss \in Nat \X Nat : ss[1] < ss[2]}
    BY DEF OpToRel
  <2> QED BY <1>1, <2>4, <2>5
<1> QED BY <1>2 DEF Min

-----------------------------------------------------------------------------
(* One beacon.                                                             *)

Increasing(slots) == \A i, j \in DOMAIN slots : i < j => slots[i] < slots[j]

FitType ==
  /\ times \in Seq(Int)
  /\ fit.low \in Int /\ fit.high \in Int /\ fit.slots \in Seq(Nat)
  /\ times # << >> => fit.slots # << >> /\ fit.low <= fit.high
  /\ Increasing(fit.slots)

\* Where a beacon may go: after the slots taken, as far as the phases allow.
LEMMA SlotsForType ==
  ASSUME FitType, times # << >>, NEW t \in Int
  PROVE  /\ SlotsFor(t) \in SUBSET Nat
         /\ \A slot \in SlotsFor(t) :
              /\ Last(fit.slots) < slot
              /\ slot <= (t - fit.low) \div Interval
              /\ PhaseLow(t, slot) <= PhaseHigh(t, slot)
<1>1. Last(fit.slots) \in Nat
  BY DEF FitType, Last
<1>2. t - fit.low \in Int
  BY DEF FitType
<1>3. (t - fit.low) \div Interval \in Int
  BY <1>2, Quotient
<1> QED BY <1>1, <1>3 DEF SlotsFor

\* The slot a beacon takes, and what is left of the phases.
LEMMA Takes ==
  ASSUME FitType, times # << >>, NEW t \in Int, SlotsFor(t) # {}
  PROVE  \E slot \in SlotsFor(t) :
           /\ \A other \in SlotsFor(t) : slot <= other
           /\ Fitted(t).low = PhaseLow(t, slot)
           /\ Fitted(t).high = PhaseHigh(t, slot)
           /\ Fitted(t).slots = Append(fit.slots, slot)
<1> DEFINE slot == Min(SlotsFor(t))
<1>1. slot \in SlotsFor(t) /\ \A other \in SlotsFor(t) : slot <= other
  BY SlotsForType, LeastOf
<1>2. Fitted(t) = Assigned(t)
  BY DEF Fitted
<1>3. Assigned(t) = [low |-> PhaseLow(t, slot), high |-> PhaseHigh(t, slot),
                    slots |-> Append(fit.slots, slot)]
  BY DEF Assigned
<1> HIDE DEF slot
<1> QED BY <1>1, <1>2, <1>3

\* A slot that a schedule has for a beacon is one the beacon may take, unless
\* it is later than any of those.
LEMMA MayTake ==
  ASSUME FitType, times # << >>, NEW t \in Int, NEW phase \in Int, NEW slot \in Nat,
         Last(fit.slots) < slot, phase <= fit.high,
         phase + slot * Interval <= t, t <= phase + slot * Interval + Interval,
         slot <= (t - fit.low) \div Interval
  PROVE  slot \in SlotsFor(t)
<1>1. Last(fit.slots) \in Nat
  BY SMTT(30) DEF FitType, Last
<1> DEFINE left == t - fit.low
<1>2. left \in Int /\ left \div Interval \in Int
  <2>1. left \in Int
    BY DEF FitType
  <2> QED BY <2>1, Quotient
<1> DEFINE sent == slot * Interval
<1>3. sent \in Nat /\ (slot + 1) * Interval = sent + Interval
  BY ReceptionAssumption
<1>4. fit.low + sent <= t
  <2> DEFINE last == left \div Interval
  <2>1. last \in Int /\ last * Interval <= left
    <3> HIDE DEF left
    <3> QED BY <1>2, Quotient
  <2>2. slot <= last
    OBVIOUS
  <2> HIDE DEF last
  <2>3. slot * Interval <= last * Interval /\ last * Interval \in Int
    BY <2>1, <2>2, LaterSlot
  <2> QED BY <1>3, <2>1, <2>3 DEF FitType
<1>5. phase + sent <= t /\ t <= phase + sent + Interval
  OBVIOUS
<1> HIDE DEF sent
<1>6. PhaseLow(t, slot) = Larger(fit.low, t - (sent + Interval))
      /\ PhaseHigh(t, slot) = Smaller(fit.high, t - sent)
  BY <1>3 DEF PhaseLow, PhaseHigh, sent
<1>7. PhaseLow(t, slot) <= PhaseHigh(t, slot)
  BY <1>3, <1>4, <1>5, <1>6, ReceptionAssumption, SMTT(30) DEF FitType, Larger, Smaller
<1> QED BY <1>1, <1>2, <1>7 DEF SlotsFor, left

\* After a beacon the types are as before.
LEMMA FittedType ==
  ASSUME FitType, NEW t \in Int, times' = Append(times, t), fit' = Fitted(t)
  PROVE  FitType'
<1>1. times' \in Seq(Int) /\ times' # << >>
  BY DEF FitType
<1>2. CASE times = << >>
  <2>1. /\ fit'.low = t - Interval /\ fit'.high = t /\ fit'.slots = <<0>>
    BY <1>2 DEF Fitted
  <2> QED BY <1>1, <2>1, ReceptionAssumption DEF FitType, Increasing
<1>3. CASE times # << >> /\ SlotsFor(t) = {}
  <2>1. fit' = fit
    BY <1>3 DEF Fitted
  <2> QED BY <1>1, <1>3, <2>1 DEF FitType, Increasing
<1>4. CASE times # << >> /\ SlotsFor(t) # {}
  <2>1. PICK slot \in SlotsFor(t) :
          /\ fit'.low = PhaseLow(t, slot)
          /\ fit'.high = PhaseHigh(t, slot)
          /\ fit'.slots = Append(fit.slots, slot)
    BY <1>4, Takes
  <2>2. slot \in Nat /\ Last(fit.slots) < slot /\ fit'.low <= fit'.high
    BY <1>4, <2>1, SlotsForType
  <2>3. fit'.low \in Int /\ fit'.high \in Int
    BY <2>1, <2>2, ReceptionAssumption DEF FitType, PhaseLow, PhaseHigh, Larger, Smaller
  <2>4. fit'.slots \in Seq(Nat) /\ fit'.slots # << >>
    <3>1. fit.slots \in Seq(Nat)
      BY DEF FitType
    <3> QED BY <2>1, <2>2, <3>1
  <2>5. Increasing(fit'.slots)
    <3> DEFINE q == fit.slots
    <3>1. q \in Seq(Nat) /\ Len(q) \in Nat \ {0} /\ Increasing(q) /\ q[Len(q)] < slot
      BY <1>4, <2>2 DEF FitType, Last
    <3>2. fit'.slots = Append(q, slot)
      BY <2>1
    <3> HIDE DEF q
    <3>3. \A i \in 1..Len(q) : q[i] \in Nat /\ q[i] < slot
      <4> TAKE i \in 1..Len(q)
      <4>1. i = Len(q) \/ i < Len(q)
        BY <3>1
      <4>2. q[i] \in Nat /\ q[Len(q)] \in Nat /\ DOMAIN q = 1..Len(q)
        BY <3>1
      <4>3. i < Len(q) => q[i] < q[Len(q)]
        BY <3>1, <4>2 DEF Increasing
      <4>4. q[Len(q)] < slot
        BY <3>1
      <4>5. q[i] = q[Len(q)] \/ q[i] < q[Len(q)]
        BY <4>1, <4>3
      <4>6. slot \in Nat
        BY <2>2
      <4> QED BY <4>2, <4>4, <4>5, <4>6
    <3>4. /\ DOMAIN Append(q, slot) = 1..(Len(q) + 1)
          /\ \A i \in 1..Len(q) : Append(q, slot)[i] = q[i]
          /\ Append(q, slot)[Len(q) + 1] = slot
      BY <2>2, <3>1
    <3>5. DOMAIN q = 1..Len(q)
      BY <3>1
    <3> QED BY <3>1, <3>2, <3>3, <3>4, <3>5 DEF Increasing
  <2> QED BY <1>1, <2>2, <2>3, <2>4, <2>5 DEF FitType
<1> QED BY <1>2, <1>3, <1>4

-----------------------------------------------------------------------------
(* The schedules that explain the beacons.                                 *)

\* A schedule for all beacons so far.
Schedule(phase, slots) ==
  slots[1] = 0 /\ Increasing(slots) /\ Explains(phase, slots)

\* The code's last slot is no later, and its latest phase no earlier, than any
\* schedule's.
Latest ==
  times # << >> =>
    \A phase \in Int : \A slots \in [DOMAIN times -> Nat] :
      Schedule(phase, slots) => Last(fit.slots) <= slots[Len(times)] /\ phase <= fit.high

\* What a sequence is, one longer.
LEMMA Longer ==
  ASSUME NEW S, NEW q \in Seq(S), NEW e \in S
  PROVE  /\ Append(q, e) \in Seq(S) /\ Append(q, e) # << >>
         /\ DOMAIN q = 1..Len(q) /\ Len(q) \in Nat
         /\ Len(Append(q, e)) = Len(q) + 1
         /\ DOMAIN Append(q, e) = 1..(Len(q) + 1)
         /\ \A i \in 1..Len(q) : Append(q, e)[i] = q[i]
         /\ Append(q, e)[Len(q) + 1] = e
         /\ Last(Append(q, e)) = e
BY DEF Last

\* A schedule for one beacon more was one for those before it.
LEMMA Shortened ==
  ASSUME FitType, NEW t \in Int, times' = Append(times, t), times # << >>,
         NEW phase \in Int, NEW slots \in [DOMAIN times' -> Nat], Schedule(phase, slots)'
  PROVE  LET n == Len(times)
             older == [i \in DOMAIN times |-> slots[i]]
         IN  /\ older \in [DOMAIN times -> Nat] /\ Schedule(phase, older)
             /\ older[n] = slots[n] /\ slots[n] \in Nat
             /\ slots[n + 1] \in Nat /\ slots[n] < slots[n + 1]
             /\ phase + slots[n + 1] * Interval <= t
             /\ t <= phase + slots[n + 1] * Interval + Interval
<1> DEFINE n == Len(times)
           older == [i \in DOMAIN times |-> slots[i]]
<1>1. /\ n \in Nat \ {0} /\ DOMAIN times = 1..n /\ Len(times') = n + 1
      /\ DOMAIN times' = 1..(n + 1)
      /\ \A i \in 1..n : times'[i] = times[i]
      /\ times'[n + 1] = t
  <2>1. times \in Seq(Int)
    BY DEF FitType
  <2>2. n # 0
    BY <2>1
  <2> QED BY <2>1, <2>2, Longer
<1>2. /\ slots[1] = 0
      /\ \A i, j \in 1..(n + 1) : i < j => slots[i] < slots[j]
      /\ \A i \in 1..(n + 1) : /\ phase + slots[i] * Interval <= times'[i]
                               /\ times'[i] <= phase + slots[i] * Interval + Interval
  BY <1>1 DEF Schedule, Increasing, Explains
<1> HIDE DEF n
<1>3. older \in [DOMAIN times -> Nat] /\ \A i \in 1..n : older[i] = slots[i]
  BY <1>1
<1> HIDE DEF older
<1>4. older[1] = 0
  BY <1>1, <1>2, <1>3
<1>5. Increasing(older)
  BY <1>1, <1>2, <1>3 DEF Increasing
<1>6. Explains(phase, older)
  BY <1>1, <1>2, <1>3 DEF Explains
<1>7. /\ phase + slots[n + 1] * Interval <= t
      /\ t <= phase + slots[n + 1] * Interval + Interval
  BY <1>1, <1>2
<1>8. slots[n + 1] \in Nat /\ slots[n] \in Nat /\ slots[n] < slots[n + 1]
  BY <1>1, <1>2
<1> QED BY <1>1, <1>3, <1>4, <1>5, <1>6, <1>7, <1>8 DEF Schedule, n, older

LEMMA LatestStep ==
  ASSUME FitType, Latest, NEW t \in Int, times' = Append(times, t), fit' = Fitted(t)
  PROVE  Latest'
<1> SUFFICES ASSUME NEW phase \in Int, NEW slots \in [DOMAIN times' -> Nat],
                    Schedule(phase, slots)'
             PROVE  Last(fit'.slots) <= slots[Len(times')] /\ phase <= fit'.high
  BY DEF Latest
<1>1. CASE times = << >>
  <2>1. fit'.high = t /\ fit'.slots = <<0>> /\ times' = <<t>>
    BY <1>1 DEF Fitted
  <2>2. Last(fit'.slots) = 0 /\ Len(times') = 1
    BY <2>1 DEF Last
  <2>3. slots[1] = 0 /\ phase + slots[1] * Interval <= t
    BY <2>1, <2>2 DEF Schedule, Explains
  <2> QED BY <2>1, <2>2, <2>3, ReceptionAssumption
<1>2. CASE times # << >>
  <2> DEFINE n == Len(times)
             older == [i \in DOMAIN times |-> slots[i]]
  <2>1. /\ older \in [DOMAIN times -> Nat] /\ Schedule(phase, older) /\ older[n] = slots[n]
        /\ slots[n] \in Nat /\ slots[n + 1] \in Nat /\ slots[n] < slots[n + 1]
        /\ phase + slots[n + 1] * Interval <= t
        /\ t <= phase + slots[n + 1] * Interval + Interval
    BY <1>2, Shortened
  <2>2. Last(fit.slots) <= slots[n] /\ phase <= fit.high
    BY <1>2, <2>1 DEF Latest
  <2>3. Len(times') = n + 1
    BY Longer DEF FitType
  <2>4. Last(fit.slots) \in Nat
    BY <1>2, SMTT(30) DEF FitType, Last
  <2> HIDE DEF n, older
  <2>5. CASE SlotsFor(t) = {}
    <3>1. fit' = fit
      BY <1>2, <2>5 DEF Fitted
    <3> QED BY <2>1, <2>2, <2>3, <2>4, <3>1
  <2>6. CASE SlotsFor(t) # {}
    <3>1. PICK slot \in SlotsFor(t) :
            /\ \A other \in SlotsFor(t) : slot <= other
            /\ fit'.high = PhaseHigh(t, slot)
            /\ fit'.slots = Append(fit.slots, slot)
      BY <1>2, <2>6, Takes
    <3>2. slot \in Nat /\ slot <= (t - fit.low) \div Interval
      BY <1>2, SlotsForType
    <3>3. slot <= slots[n + 1]
      <4>1. t - fit.low \in Int
        BY DEF FitType
      <4>2. (t - fit.low) \div Interval \in Int
        BY <4>1, Quotient
      <4>3. CASE slots[n + 1] <= (t - fit.low) \div Interval
        <5>1. Last(fit.slots) < slots[n + 1]
          BY <2>1, <2>2, <2>4
        <5>2. slots[n + 1] \in SlotsFor(t)
          BY <1>2, <2>1, <2>2, <4>3, <5>1, MayTake
        <5> QED BY <3>1, <5>2
      <4> QED BY <2>1, <3>2, <4>2, <4>3
    <3>4. Last(fit'.slots) = slot
      BY <3>1, <3>2, Longer DEF FitType
    <3>5. phase <= fit'.high
      <4> DEFINE mine == slot * Interval
                 theirs == slots[n + 1] * Interval
      <4>1. mine \in Int /\ theirs \in Int /\ mine <= theirs
        <5>1. slot \in Int /\ slots[n + 1] \in Int
          BY <2>1, <3>2
        <5> QED BY <3>3, <5>1, LaterSlot
      <4>2. phase + theirs <= t
        BY <2>1
      <4>3. fit'.high = Smaller(fit.high, t - mine)
        BY <3>1 DEF PhaseHigh
      <4> HIDE DEF mine, theirs
      <4> QED BY <2>2, <4>1, <4>2, <4>3 DEF Smaller, FitType
    <3> QED BY <2>3, <3>3, <3>4, <3>5
  <2> QED BY <2>5, <2>6
<1> QED BY <1>1, <1>2

\* The schedule without a gap.
Consecutive == [i \in DOMAIN times |-> i - 1]

\* Where it explains the beacons the code has no gap, and no phase before its.
Gapless ==
  \A phase \in Int :
    times # << >> /\ Explains(phase, Consecutive) =>
      /\ Len(fit.slots) = Len(times)
      /\ \A i \in DOMAIN times : fit.slots[i] = i - 1
      /\ fit.low <= phase

\* It is a schedule like another.
LEMMA ConsecutiveSchedule ==
  ASSUME FitType, times # << >>, NEW phase \in Int, Explains(phase, Consecutive)
  PROVE  /\ Consecutive \in [DOMAIN times -> Nat] /\ Schedule(phase, Consecutive)
         /\ Consecutive[Len(times)] = Len(times) - 1
         /\ Len(times) \in Nat \ {0} /\ DOMAIN times = 1..Len(times)
<1> DEFINE n == Len(times)
<1>1. n \in Nat \ {0} /\ DOMAIN times = 1..n
  <2>1. times \in Seq(Int)
    BY DEF FitType
  <2>2. n # 0
    BY <2>1
  <2> QED BY <2>1, <2>2
<1> HIDE DEF n
<1>2. Consecutive \in [1..n -> Nat] /\ \A i \in 1..n : Consecutive[i] = i - 1
  BY <1>1 DEF Consecutive
<1>3. Increasing(Consecutive)
  BY <1>1, <1>2 DEF Increasing
<1> QED BY <1>1, <1>2, <1>3 DEF Schedule, n

LEMMA GaplessStep ==
  ASSUME FitType, Latest, Gapless,
         NEW t \in Int, times' = Append(times, t), fit' = Fitted(t)
  PROVE  Gapless'
<1> SUFFICES ASSUME NEW phase \in Int, Explains(phase, Consecutive)',
                    NEW next, next = Consecutive'
             PROVE  /\ Len(fit'.slots) = Len(times')
                    /\ \A i \in DOMAIN times' : fit'.slots[i] = i - 1
                    /\ fit'.low <= phase
  BY DEF Gapless
<1>1. times' # << >> /\ Len(times') = Len(times) + 1 /\ DOMAIN times' = 1..(Len(times) + 1)
  BY Longer DEF FitType
<1> DEFINE n == Len(times)
<1>2. /\ next \in [DOMAIN times' -> Nat] /\ Schedule(phase, next)'
      /\ next[n + 1] = n
      /\ \A i \in DOMAIN times' : next[i] = i - 1
  <2>1. n \in Nat
    BY Longer DEF FitType
  <2>2. next = [i \in 1..(n + 1) |-> i - 1]
    BY <1>1 DEF Consecutive
  <2>3. next \in [1..(n + 1) -> Nat] /\ \A i \in 1..(n + 1) : next[i] = i - 1
    BY <2>1, <2>2
  <2>4. next[1] = 0 /\ Increasing(next)
    BY <2>1, <2>3 DEF Increasing
  <2>5. Explains(phase, next)'
    BY DEF Explains
  <2> QED BY <1>1, <2>1, <2>3, <2>4, <2>5 DEF Schedule
<1>3. CASE times = << >>
  <2>1. fit'.low = t - Interval /\ fit'.slots = <<0>> /\ times' = <<t>>
    BY <1>3 DEF Fitted
  <2>2. Len(fit'.slots) = 1 /\ fit'.slots[1] = 0 /\ Len(times') = 1 /\ DOMAIN times' = {1}
    BY <2>1
  <2>3. next[1] = 0 /\ t <= phase + next[1] * Interval + Interval
    BY <1>2, <2>1, <2>2 DEF Schedule, Explains
  <2> QED BY <2>1, <2>2, <2>3, ReceptionAssumption
<1>4. CASE times # << >>
  <2> DEFINE older == [i \in DOMAIN times |-> next[i]]
  <2>1. /\ older \in [DOMAIN times -> Nat] /\ Schedule(phase, older)
        /\ phase + n * Interval <= t
        /\ t <= phase + n * Interval + Interval
    BY <1>2, <1>4, Shortened
  <2>2. older = Consecutive
    <3>1. DOMAIN times = 1..n /\ n \in Nat
      BY Longer DEF FitType
    <3>2. \A i \in DOMAIN times : next[i] = i - 1
      BY <1>1, <1>2, <3>1
    <3> QED BY <3>2 DEF Consecutive
  <2>3. /\ Len(fit.slots) = n
        /\ \A i \in DOMAIN times : fit.slots[i] = i - 1
        /\ fit.low <= phase
    BY <1>4, <2>1, <2>2 DEF Gapless, Schedule
  <2>4. n \in Nat \ {0} /\ DOMAIN times = 1..n
    BY <1>4, <2>1, <2>2, ConsecutiveSchedule DEF Schedule
  <2>5. phase <= fit.high
    BY <1>4, <2>1, <2>2 DEF Latest
  <2> HIDE DEF older, n
  <2>6. Last(fit.slots) = n - 1
    BY <2>3, <2>4 DEF Last
  <2>7. n <= (t - fit.low) \div Interval
    <3>1. t - fit.low \in Int
      BY DEF FitType
    <3>2. n * Interval \in Int
      BY <2>4, LaterSlot
    <3>3. n * Interval <= t - fit.low
      BY <2>1, <2>3, <3>2 DEF FitType
    <3> QED BY <2>4, <3>1, <3>3, AtMostQuotient
  <2>8. n \in SlotsFor(t)
    BY <1>4, <2>1, <2>4, <2>5, <2>6, <2>7, MayTake
  <2>9. PICK slot \in SlotsFor(t) :
          /\ \A other \in SlotsFor(t) : slot <= other
          /\ fit'.low = PhaseLow(t, slot)
          /\ fit'.slots = Append(fit.slots, slot)
    BY <1>4, <2>8, Takes
  <2>10. slot = n
    <3>1. slot \in Nat /\ n - 1 < slot
      BY <1>4, <2>6, SlotsForType
    <3> QED BY <2>4, <2>8, <2>9, <3>1
  <2>11. /\ Len(fit'.slots) = n + 1
         /\ \A i \in 1..n : fit'.slots[i] = fit.slots[i]
         /\ fit'.slots[n + 1] = n
    <3>1. fit.slots \in Seq(Nat) /\ n \in Nat
      BY <2>4 DEF FitType
    <3> QED BY <2>3, <2>9, <2>10, <3>1, Longer
  <2>12. fit'.low <= phase
    <3>1. (n + 1) * Interval = n * Interval + Interval /\ n * Interval \in Int
      BY <2>4, ReceptionAssumption
    <3> QED BY <2>1, <2>3, <2>9, <2>10, <3>1, ReceptionAssumption DEF PhaseLow, Larger, FitType
  <2>13. \A i \in 1..(n + 1) : fit'.slots[i] = i - 1
    <3> TAKE i \in 1..(n + 1)
    <3>1. i \in 1..n \/ i = n + 1
      BY <2>4
    <3>2. CASE i \in 1..n
      <4>1. fit'.slots[i] = fit.slots[i] /\ fit.slots[i] = i - 1
        BY <2>3, <2>4, <2>11, <3>2
      <4> QED BY <4>1
    <3>3. CASE i = n + 1
      BY <2>4, <2>11, <3>3
    <3> QED BY <3>1, <3>2, <3>3
  <2> QED BY <1>1, <2>4, <2>11, <2>12, <2>13 DEF n
<1> QED BY <1>3, <1>4

-----------------------------------------------------------------------------
(* What is counted.                                                        *)

\* The interval's slots, and those of them that have a beacon.
LEMMA ExpectedType ==
  ASSUME FitType
  PROVE  /\ IsFiniteSet(ExpectedSlots)
         /\ \A slot \in ExpectedSlots :
              slot \in Nat /\ slot < CeilDiv(End - fit.high)
<1> DEFINE from == CeilDiv(Start - fit.high)
           to == CeilDiv(End - fit.high)
<1>1. from \in Int /\ to \in Int
  <2>1. Start - fit.high \in Int /\ End - fit.high \in Int
    BY ReceptionAssumption DEF FitType
  <2> QED BY <2>1, RoundedUp
<1>2. ExpectedSlots = Larger(0, from) .. (Larger(Larger(0, from), to) - 1)
  BY DEF ExpectedSlots
<1> HIDE DEF from, to
<1>3. Larger(0, from) \in Nat /\ Larger(Larger(0, from), to) - 1 \in Int
  BY <1>1 DEF Larger
<1>4. \A slot \in ExpectedSlots : slot \in Nat /\ slot < to
  BY <1>1, <1>2, <1>3 DEF Larger
<1>5. IsFiniteSet(ExpectedSlots)
  BY <1>2, <1>3, FS_Interval
<1> QED BY <1>4, <1>5 DEF to

\* No slot is counted twice, and all of them are where each has its beacon.
LEMMA SlotsCounted ==
  ASSUME FitType, times # << >>
  PROVE  /\ Received <= Expected
         /\ (\A slot \in ExpectedSlots : \E i \in DOMAIN fit.slots : fit.slots[i] = slot)
            => Received = Expected
<1> DEFINE came == {i \in DOMAIN fit.slots : fit.slots[i] \in ExpectedSlots}
           slotOf == [i \in came |-> fit.slots[i]]
<1>1. DOMAIN fit.slots \subseteq Nat /\ \A i \in DOMAIN fit.slots : fit.slots[i] \in Nat
  BY DEF FitType
<1>2. slotOf \in Injection(came, ExpectedSlots)
  <2>1. slotOf \in [came -> ExpectedSlots]
    OBVIOUS
  <2>2. ASSUME NEW i \in came, NEW j \in came, slotOf[i] = slotOf[j] PROVE i = j
    <3>1. fit.slots[i] = fit.slots[j] /\ fit.slots[i] \in Nat /\ i \in Nat /\ j \in Nat
      BY <1>1, <2>2
    <3>2. ~(i < j) /\ ~(j < i)
      BY <3>1, SMTT(30) DEF FitType, Increasing
    <3> QED BY <3>1, <3>2
  <2> HIDE DEF slotOf, came
  <2> QED BY <2>1, <2>2 DEF Injection, IsInjective
<1>3. Received = Cardinality(came) /\ Expected = Cardinality(ExpectedSlots)
  BY DEF Received, Expected
<1>4. (\A slot \in ExpectedSlots : \E i \in DOMAIN fit.slots : fit.slots[i] = slot)
      => slotOf \in Surjection(came, ExpectedSlots)
  <2> SUFFICES ASSUME \A slot \in ExpectedSlots : \E i \in DOMAIN fit.slots : fit.slots[i] = slot
               PROVE  slotOf \in Surjection(came, ExpectedSlots)
    OBVIOUS
  <2>1. \A slot \in ExpectedSlots : \E i \in came : slotOf[i] = slot
    OBVIOUS
  <2>2. slotOf \in [came -> ExpectedSlots]
    OBVIOUS
  <2> HIDE DEF slotOf, came
  <2> QED BY <2>1, <2>2 DEF Surjection
<1> HIDE DEF slotOf, came
<1> QED BY <1>2, <1>3, <1>4, ExpectedType, FS_Injection

-----------------------------------------------------------------------------
(* The theorem.                                                            *)

ReceptionInv == FitType /\ Latest /\ Gapless

LEMMA StartsReceptionInv == ReceptionInit => ReceptionInv
<1> SUFFICES ASSUME ReceptionInit PROVE ReceptionInv
  OBVIOUS
<1>1. fit.low = 0 /\ fit.high = 0 /\ fit.slots = << >> /\ times = << >>
  BY DEF ReceptionInit
<1> QED BY <1>1 DEF ReceptionInv, FitType, Increasing, Latest, Gapless

LEMMA KeepsReceptionInv == ReceptionInv /\ [ReceptionNext]_receptionVars => ReceptionInv'
<1> SUFFICES ASSUME ReceptionInv, [ReceptionNext]_receptionVars PROVE ReceptionInv'
  OBVIOUS
<1>1. CASE ReceptionNext
  <2>1. PICK t \in (IF times = << >> THEN 0 ELSE Last(times))..(End + Interval) :
          times' = Append(times, t) /\ fit' = Fitted(t)
    BY <1>1 DEF ReceptionNext
  <2>2. t \in Int
    BY <2>1
  <2> QED BY <2>1, <2>2, FittedType, LatestStep, GaplessStep DEF ReceptionInv
<1>2. CASE UNCHANGED receptionVars
  <2>1. times' = times /\ fit' = fit
    BY <1>2 DEF receptionVars
  <2>2. FitType'
    BY <2>1 DEF ReceptionInv, FitType
  <2>3. Latest'
    BY <2>1 DEF ReceptionInv, Latest, Schedule, Explains
  <2>4. Gapless'
    BY <2>1 DEF ReceptionInv, Gapless, Consecutive, Explains
  <2> QED BY <2>2, <2>3, <2>4 DEF ReceptionInv
<1> QED BY <1>1, <1>2

\* Whatever the delays, the schedule inferred misses no more beacons than any
\* that explains the capture, a complete capture has none lost, and no more
\* are received than expected (_beacon_reception_counts, analyzer.py).
THEOREM ReceptionIsSound == ReceptionSpec => []ReceptionSound
<1>1. ReceptionInv => ReceptionSound
  <2> SUFFICES ASSUME ReceptionInv PROVE ReceptionSound
    OBVIOUS
  <2>1. CASE times = << >>
    BY <2>1 DEF ReceptionSound, Received, Expected
  <2>2. CASE times # << >>
    <3> DEFINE n == Len(times)
    <3>1. n \in Nat \ {0} /\ DOMAIN times = 1..n
          /\ times[1] \in Int /\ Last(times) \in Int
      <4>1. times \in Seq(Int)
        BY DEF ReceptionInv, FitType
      <4>2. n # 0
        BY <2>2, <4>1
      <4> QED BY <4>1, <4>2 DEF Last
    <3> SUFFICES ASSUME NEW phase \in (times[1] - Interval)..times[1]
                 PROVE  /\ \A slots \in Assignments((Last(times) - phase) \div Interval) :
                             Explains(phase, slots) => Last(fit.slots) <= Last(slots)
                        /\ /\ Explains(phase, Consecutive)
                           /\ phase + n * Interval >= End
                           => Received = Expected
      BY <2>2, SlotsCounted DEF ReceptionSound, ReceptionInv, Consecutive
    <3>2. phase \in Int
      OBVIOUS
    <3> HIDE DEF n
    <3>3. ASSUME NEW slots \in Assignments((Last(times) - phase) \div Interval),
                 Explains(phase, slots)
          PROVE  Last(fit.slots) <= Last(slots)
      <4>1. Last(times) - phase \in Int
        BY <3>1, <3>2
      <4>2. (Last(times) - phase) \div Interval \in Int
        BY <4>1, Quotient
      <4>3. slots \in [1..n -> Nat] /\ Schedule(phase, slots)
        BY <3>1, <3>3, <4>2 DEF Assignments, Schedule, Increasing
      <4>4. Last(slots) = slots[n]
        BY <3>1, <4>3 DEF Last
      <4>5. Last(fit.slots) <= slots[Len(times)]
        BY <2>2, <3>1, <3>2, <4>3 DEF ReceptionInv, Latest
      <4> QED BY <4>4, <4>5 DEF n
    <3>4. ASSUME Explains(phase, Consecutive), phase + n * Interval >= End
          PROVE  Received = Expected
      <4>1. /\ Len(fit.slots) = n
            /\ \A i \in 1..n : fit.slots[i] = i - 1
        BY <2>2, <3>1, <3>2, <3>4 DEF ReceptionInv, Gapless, n
      <4>2. phase <= fit.high
        BY <2>2, <3>2, <3>4, ConsecutiveSchedule DEF ReceptionInv, Latest
      <4>3. End - fit.high \in Int /\ n \in Int /\ n * Interval \in Int
        BY <3>1, LaterSlot, ReceptionAssumption DEF ReceptionInv, FitType
      <4>4. End - fit.high <= n * Interval
        BY <3>2, <3>4, <4>2, <4>3, ReceptionAssumption DEF ReceptionInv, FitType
      <4>5. CeilDiv(End - fit.high) \in Int /\ CeilDiv(End - fit.high) <= n
        BY <4>3, <4>4, RoundedUp
      <4>6. ASSUME NEW slot \in ExpectedSlots
            PROVE  \E i \in DOMAIN fit.slots : fit.slots[i] = slot
        <5>1. slot \in Nat /\ slot < n
          BY <3>1, <4>5, ExpectedType DEF ReceptionInv
        <5>2. slot + 1 \in 1..n /\ DOMAIN fit.slots = 1..n
          BY <3>1, <4>1, <5>1 DEF ReceptionInv, FitType
        <5>3. fit.slots[slot + 1] = slot
          BY <4>1, <5>1, <5>2
        <5> QED BY <5>2, <5>3
      <4> QED BY <2>2, <4>6, SlotsCounted DEF ReceptionInv
    <3> QED BY <3>3, <3>4
  <2> QED BY <2>1, <2>2
<1> QED BY <1>1, StartsReceptionInv, KeepsReceptionInv, PTL DEF ReceptionSpec

-----------------------------------------------------------------------------
(* Recursion over a sequence.                                              *)

\* What holds of 0 and goes from each number to the next holds up to k.
LEMMA Upward ==
  ASSUME NEW k \in Nat, NEW G, 0 \in G, \A n \in 1..k : n - 1 \in G => n \in G
  PROVE  \A n \in 0..k : n \in G
<1> DEFINE T == {n \in 0..k : n \notin G}
<1>1. ASSUME T # {}
      PROVE  FALSE
  <2>1. PICK n \in T : \A i \in T : n <= i
    <3>1. T \in SUBSET Nat
      OBVIOUS
    <3> HIDE DEF T
    <3> QED BY <1>1, <3>1, LeastOf
  <2>2. n \in 1..k
    BY <2>1
  <2>3. n - 1 \in 0..k /\ ~(n <= n - 1)
    BY <2>2
  <2>4. n - 1 \in G
    BY <2>1, <2>3
  <2> QED BY <2>1, <2>2, <2>4
<1> QED BY <1>1

\* What Passes defines, for the first k frames.
Passing(f, some, known, records, most, k) ==
  f = [n \in 0..k |-> IF n = 0 THEN NoProjection
                      ELSE Counted(f[n - 1], some[n], known, records, most)]

LEMMA PassesExist ==
  ASSUME NEW some, NEW known, NEW records, NEW most, NEW k \in Nat
  PROVE  \E f : Passing(f, some, known, records, most, k)
<1> DEFINE G == {j \in Nat : \E f : Passing(f, some, known, records, most, j)}
<1>1. 0 \in G
  <2> DEFINE f == [n \in 0..0 |-> NoProjection]
  <2>1. f = [n \in 0..0 |-> IF n = 0 THEN NoProjection
                            ELSE Counted(f[n - 1], some[n], known, records, most)]
    OBVIOUS
  <2> HIDE DEF f
  <2> QED BY <2>1 DEF Passing
<1>2. ASSUME NEW j \in 1..k, j - 1 \in G
      PROVE  j \in G
  <2>1. PICK g : Passing(g, some, known, records, most, j - 1)
    BY <1>2
  <2> DEFINE last == Counted(g[j - 1], some[j], known, records, most)
             f == [n \in 0..j |-> IF n = j THEN last ELSE g[n]]
  <2>2. \A n \in 0..(j - 1) :
          g[n] = IF n = 0 THEN NoProjection ELSE Counted(g[n - 1], some[n], known, records, most)
    BY <2>1 DEF Passing
  <2>3. \A n \in 0..(j - 1) : f[n] = g[n]
    OBVIOUS
  <2>4. f[j] = last /\ f = [n \in 0..j |-> f[n]]
    OBVIOUS
  <2> HIDE DEF f
  <2>5. ASSUME NEW n \in 0..j
        PROVE  f[n] = IF n = 0 THEN NoProjection
                      ELSE Counted(f[n - 1], some[n], known, records, most)
    <3>1. CASE n = j
      <4>1. j # 0 /\ j - 1 \in 0..(j - 1)
        OBVIOUS
      <4> QED BY <2>3, <2>4, <3>1, <4>1
    <3>2. CASE n # j
      <4>1. n \in 0..(j - 1) /\ (n # 0 => n - 1 \in 0..(j - 1))
        BY <3>2
      <4> QED BY <2>2, <2>3, <4>1
    <3> QED BY <3>1, <3>2
  <2>6. Passing(f, some, known, records, most, j)
    BY <2>4, <2>5 DEF Passing
  <2> QED BY <2>6
<1> HIDE DEF G
<1>3. k \in G
  BY <1>1, <1>2, Upward
<1> QED BY <1>3 DEF G

\* The frames are counted one after the other.
LEMMA PassesStep ==
  ASSUME NEW some, Len(some) \in Nat, NEW known, NEW records, NEW most,
         NEW f, f = Passes(some, known, records, most)
  PROVE  /\ f[0] = NoProjection
         /\ \A n \in 1..Len(some) : f[n] = Counted(f[n - 1], some[n], known, records, most)
<1>1. f = [n \in 0..Len(some) |->
             IF n = 0 THEN NoProjection ELSE Counted(f[n - 1], some[n], known, records, most)]
  BY PassesExist DEF Passes, Passing
<1> QED BY <1>1

\* What Merged defines, for the first k seconds.
Merging(f, projections, selected, k) ==
  f = [n \in 0..k |-> IF n = 0 THEN NoProjection
                      ELSE Absorbed(f[n - 1], projections[n], selected)]

LEMMA MergedExist ==
  ASSUME NEW projections, NEW selected, NEW k \in Nat
  PROVE  \E f : Merging(f, projections, selected, k)
<1> DEFINE G == {j \in Nat : \E f : Merging(f, projections, selected, j)}
<1>1. 0 \in G
  <2> DEFINE f == [n \in 0..0 |-> NoProjection]
  <2>1. f = [n \in 0..0 |-> IF n = 0 THEN NoProjection
                            ELSE Absorbed(f[n - 1], projections[n], selected)]
    OBVIOUS
  <2> HIDE DEF f
  <2> QED BY <2>1 DEF Merging
<1>2. ASSUME NEW j \in 1..k, j - 1 \in G
      PROVE  j \in G
  <2>1. PICK g : Merging(g, projections, selected, j - 1)
    BY <1>2
  <2> DEFINE last == Absorbed(g[j - 1], projections[j], selected)
             f == [n \in 0..j |-> IF n = j THEN last ELSE g[n]]
  <2>2. \A n \in 0..(j - 1) :
          g[n] = IF n = 0 THEN NoProjection ELSE Absorbed(g[n - 1], projections[n], selected)
    BY <2>1 DEF Merging
  <2>3. \A n \in 0..(j - 1) : f[n] = g[n]
    OBVIOUS
  <2>4. f[j] = last /\ f = [n \in 0..j |-> f[n]]
    OBVIOUS
  <2> HIDE DEF f
  <2>5. ASSUME NEW n \in 0..j
        PROVE  f[n] = IF n = 0 THEN NoProjection
                      ELSE Absorbed(f[n - 1], projections[n], selected)
    <3>1. CASE n = j
      <4>1. j # 0 /\ j - 1 \in 0..(j - 1)
        OBVIOUS
      <4> QED BY <2>3, <2>4, <3>1, <4>1
    <3>2. CASE n # j
      <4>1. n \in 0..(j - 1) /\ (n # 0 => n - 1 \in 0..(j - 1))
        BY <3>2
      <4> QED BY <2>2, <2>3, <4>1
    <3> QED BY <3>1, <3>2
  <2>6. Merging(f, projections, selected, j)
    BY <2>4, <2>5 DEF Merging
  <2> QED BY <2>6
<1> HIDE DEF G
<1>3. k \in G
  BY <1>1, <1>2, Upward
<1> QED BY <1>3 DEF G

\* The seconds are merged one after the other.
LEMMA MergedStep ==
  ASSUME NEW projections, Len(projections) \in Nat, NEW selected,
         NEW f, f = Merged(projections, selected)
  PROVE  /\ f[0] = NoProjection
         /\ \A n \in 1..Len(projections) : f[n] = Absorbed(f[n - 1], projections[n], selected)
<1>1. f = [n \in 0..Len(projections) |->
             IF n = 0 THEN NoProjection ELSE Absorbed(f[n - 1], projections[n], selected)]
  BY MergedExist DEF Merged, Merging
<1> QED BY <1>1

-----------------------------------------------------------------------------
(* Counts, summaries, hosts.                                               *)

Count == {"frames", "observed", "eligible", "retries"}

LEMMA Sums ==
  ASSUME NEW x \in [Count -> Nat], NEW y \in [Count -> Nat], NEW z \in [Count -> Nat]
  PROVE  /\ Sum(x, y) \in [Count -> Nat]
         /\ Sum(x, Sum(y, z)) = Sum(Sum(x, y), z)
         /\ NoCounts \in [Count -> Nat] /\ Sum(x, NoCounts) = x /\ Sum(NoCounts, x) = x
<1>1. \A v, w \in [Count -> Nat] :
        Sum(v, w) \in [Count -> Nat] /\ \A c \in Count : Sum(v, w)[c] = v[c] + w[c]
  BY DEF Sum
<1>2. NoCounts \in [Count -> Nat] /\ \A c \in Count : NoCounts[c] = 0
  BY DEF NoCounts, Count
<1>3. Sum(x, Sum(y, z)) \in [Count -> Nat] /\ Sum(Sum(x, y), z) \in [Count -> Nat]
  BY <1>1
<1>4. \A c \in Count : Sum(x, Sum(y, z))[c] = Sum(Sum(x, y), z)[c]
  <2> SUFFICES ASSUME NEW c \in Count PROVE Sum(x, Sum(y, z))[c] = Sum(Sum(x, y), z)[c]
    OBVIOUS
  <2>1. Sum(x, Sum(y, z))[c] = x[c] + (y[c] + z[c])
    BY <1>1
  <2>2. Sum(Sum(x, y), z)[c] = (x[c] + y[c]) + z[c]
    BY <1>1
  <2>3. x[c] \in Nat /\ y[c] \in Nat /\ z[c] \in Nat
    OBVIOUS
  <2> QED BY <2>1, <2>2, <2>3
<1>5. \A c \in Count : Sum(x, NoCounts)[c] = x[c] /\ Sum(NoCounts, x)[c] = x[c]
  BY <1>1, <1>2
<1>6. Sum(x, NoCounts) = x /\ Sum(NoCounts, x) = x
  <2>1. Sum(x, NoCounts) \in [Count -> Nat] /\ Sum(NoCounts, x) \in [Count -> Nat]
    BY <1>1, <1>2
  <2> QED BY <1>5, <2>1
<1> QED BY <1>1, <1>2, <1>3, <1>4, <1>6

IsSummary(s) ==
  /\ s = [counts |-> s.counts, first |-> s.first, last |-> s.last, clients |-> s.clients]
  /\ s.counts \in [Count -> Nat]

LEMMA Summaries ==
  ASSUME NEW x, NEW y, IsSummary(x), IsSummary(y), NEW frame, frame.time \in Nat,
         NEW said, said.counts \in [Count -> Nat]
  PROVE  /\ IsSummary(NoSummary) /\ IsSummary(JoinedSummary(x, y))
         /\ IsSummary(Updated(x, frame, said))
         /\ JoinedSummary(x, NoSummary) = x /\ JoinedSummary(NoSummary, x) = x
         /\ JoinedSummary(x, Updated(y, frame, said)) = Updated(JoinedSummary(x, y), frame, said)
<1>1. frame.time # None
  BY ProjectionAssumption
<1>2. IsSummary(NoSummary)
  BY Sums DEF IsSummary, NoSummary
<1>3. IsSummary(JoinedSummary(x, y))
  BY Sums DEF IsSummary, JoinedSummary
<1>4. IsSummary(Updated(x, frame, said))
  BY Sums DEF IsSummary, Updated
<1>5. JoinedSummary(x, NoSummary) = x
  BY Sums DEF IsSummary, JoinedSummary, NoSummary
<1>6. JoinedSummary(NoSummary, x) = x
  BY Sums DEF IsSummary, JoinedSummary, NoSummary
<1>7. JoinedSummary(x, Updated(y, frame, said)) = Updated(JoinedSummary(x, y), frame, said)
  <2>1. Sum(x.counts, Sum(y.counts, said.counts)) = Sum(Sum(x.counts, y.counts), said.counts)
    BY Sums DEF IsSummary
  <2> QED BY <1>1, <2>1 DEF JoinedSummary, Updated
<1> QED BY <1>2, <1>3, <1>4, <1>5, <1>6, <1>7

IsHost(h) ==
  /\ h = [bssid |-> h.bssid, active |-> h.active, tx |-> h.tx, rx |-> h.rx,
          eligible |-> h.eligible, retries |-> h.retries]
  /\ h.active \in Nat /\ h.tx \in Nat /\ h.rx \in Nat /\ h.eligible \in Nat /\ h.retries \in Nat

LEMMA LaterOf ==
  ASSUME NEW i \in Nat, NEW j \in Nat
  PROVE  Max({i, j}) = IF i > j THEN i ELSE j
<1> DEFINE top == IF i > j THEN i ELSE j
<1>1. top \in {i, j} /\ \A k \in {i, j} : top >= k
  OBVIOUS
<1>2. \A m \in {i, j} : (\A k \in {i, j} : m >= k) => m = top
  OBVIOUS
<1>3. Max({i, j}) = CHOOSE m \in {i, j} : \A k \in {i, j} : m >= k
  BY DEF Max
<1> HIDE DEF top
<1>4. \E m \in {i, j} : \A k \in {i, j} : m >= k
  BY <1>1
<1> QED BY <1>2, <1>3, <1>4 DEF top

LEMMA LatestOf ==
  \A i, j : i \in Nat /\ j \in Nat =>
    /\ Max({i, j}) \in Nat /\ i <= Max({i, j}) /\ j <= Max({i, j})
    /\ i <= j => Max({i, j}) = j
    /\ j <= i => Max({i, j}) = i
<1> SUFFICES ASSUME NEW i \in Nat, NEW j \in Nat
             PROVE  /\ Max({i, j}) \in Nat /\ i <= Max({i, j}) /\ j <= Max({i, j})
                    /\ i <= j => Max({i, j}) = j
                    /\ j <= i => Max({i, j}) = i
  OBVIOUS
<1>1. PICK m : m = Max({i, j})
  OBVIOUS
<1>2. m = IF i > j THEN i ELSE j
  BY <1>1, LaterOf
<1> QED BY <1>1, <1>2

LEMMA Hosts ==
  ASSUME NEW x, NEW y, IsHost(x), IsHost(y), NEW frame, frame.time \in Nat,
         NEW bssid, NEW eligible \in BOOLEAN, NEW mac
  PROVE  /\ IsHost(NewHost(bssid, frame.time)) /\ IsHost(JoinedHost(x, y))
         /\ IsHost(Observed(x, mac, frame, bssid, eligible))
         /\ x.active <= frame.time =>
              /\ Observed(x, mac, frame, bssid, eligible).active = frame.time
              /\ JoinedHost(x, Observed(NewHost(bssid, frame.time), mac, frame, bssid, eligible))
                   = Observed(x, mac, frame, bssid, eligible)
              /\ y.active <= frame.time =>
                   /\ JoinedHost(x, y).active <= frame.time
                   /\ JoinedHost(x, Observed(y, mac, frame, bssid, eligible))
                        = Observed(JoinedHost(x, y), mac, frame, bssid, eligible)
<1> DEFINE sent == IF mac = frame.ta THEN 1 ELSE 0
           received == IF mac = frame.ra THEN 1 ELSE 0
           counted == IF mac = frame.ta /\ eligible THEN 1 ELSE 0
           repeated == IF mac = frame.ta /\ eligible /\ frame.retry = TRUE THEN 1 ELSE 0
<1>1. /\ sent \in Nat /\ received \in Nat /\ counted \in Nat /\ repeated \in Nat
      /\ \A h : Observed(h, mac, frame, bssid, eligible) =
           [bssid |-> IF frame.time >= h.active THEN bssid ELSE h.bssid,
            active |-> Max({h.active, frame.time}),
            tx |-> h.tx + sent, rx |-> h.rx + received,
            eligible |-> h.eligible + counted, retries |-> h.retries + repeated]
  BY DEF Observed
<1> HIDE DEF sent, received, counted, repeated
<1>2. IsHost(NewHost(bssid, frame.time))
  BY DEF IsHost, NewHost
<1>3. IsHost(JoinedHost(x, y))
  <2>1. Max({x.active, y.active}) \in Nat
    BY LatestOf DEF IsHost
  <2>2. PICK top \in Nat : top = Max({x.active, y.active})
    BY <2>1
  <2>3. JoinedHost(x, y) =
          [bssid |-> IF y.active >= x.active THEN y.bssid ELSE x.bssid, active |-> top,
           tx |-> x.tx + y.tx, rx |-> x.rx + y.rx,
           eligible |-> x.eligible + y.eligible, retries |-> x.retries + y.retries]
    BY <2>2 DEF JoinedHost
  <2> QED BY <2>3 DEF IsHost
<1>4. \A h : IsHost(h) => IsHost(Observed(h, mac, frame, bssid, eligible))
  <2> SUFFICES ASSUME NEW h, IsHost(h) PROVE IsHost(Observed(h, mac, frame, bssid, eligible))
    OBVIOUS
  <2>1. Max({h.active, frame.time}) \in Nat
    BY LatestOf DEF IsHost
  <2>2. PICK top \in Nat : top = Max({h.active, frame.time})
    BY <2>1
  <2>3. Observed(h, mac, frame, bssid, eligible) =
           [bssid |-> IF frame.time >= h.active THEN bssid ELSE h.bssid, active |-> top,
            tx |-> h.tx + sent, rx |-> h.rx + received,
            eligible |-> h.eligible + counted, retries |-> h.retries + repeated]
    BY <1>1, <2>2
  <2> QED BY <1>1, <2>3 DEF IsHost
<1>5. ASSUME NEW h, IsHost(h), h.active <= frame.time
      PROVE  Observed(h, mac, frame, bssid, eligible) =
           [bssid |-> bssid, active |-> frame.time,
            tx |-> h.tx + sent, rx |-> h.rx + received,
            eligible |-> h.eligible + counted, retries |-> h.retries + repeated]
  <2>1. Max({h.active, frame.time}) = frame.time /\ frame.time >= h.active
    BY <1>5, LatestOf DEF IsHost
  <2> QED BY <1>1, <2>1
<1>6. ASSUME NEW h, IsHost(h), h.active <= frame.time, x.active <= frame.time
      PROVE  JoinedHost(x, Observed(h, mac, frame, bssid, eligible)) =
           [bssid |-> bssid, active |-> frame.time,
            tx |-> x.tx + (h.tx + sent), rx |-> x.rx + (h.rx + received),
            eligible |-> x.eligible + (h.eligible + counted),
            retries |-> x.retries + (h.retries + repeated)]
  <2>1. Max({x.active, frame.time}) = frame.time /\ frame.time >= x.active
    BY <1>6, LatestOf DEF IsHost
  <2>2. Observed(h, mac, frame, bssid, eligible) =
           [bssid |-> bssid, active |-> frame.time,
            tx |-> h.tx + sent, rx |-> h.rx + received,
            eligible |-> h.eligible + counted, retries |-> h.retries + repeated]
    BY <1>5, <1>6
  <2> QED BY <2>1, <2>2 DEF JoinedHost
<1>7. ASSUME x.active <= frame.time
      PROVE  JoinedHost(x, Observed(NewHost(bssid, frame.time), mac, frame, bssid, eligible))
               = Observed(x, mac, frame, bssid, eligible)
  <2>1. NewHost(bssid, frame.time).active <= frame.time
        /\ NewHost(bssid, frame.time).tx = 0 /\ NewHost(bssid, frame.time).rx = 0
        /\ NewHost(bssid, frame.time).eligible = 0 /\ NewHost(bssid, frame.time).retries = 0
    BY DEF NewHost
  <2>2. 0 + sent = sent /\ 0 + received = received /\ 0 + counted = counted
        /\ 0 + repeated = repeated
    BY <1>1
  <2>3. PICK new : new = NewHost(bssid, frame.time)
    OBVIOUS
  <2>4. JoinedHost(x, Observed(new, mac, frame, bssid, eligible)) =
           [bssid |-> bssid, active |-> frame.time,
            tx |-> x.tx + (new.tx + sent), rx |-> x.rx + (new.rx + received),
            eligible |-> x.eligible + (new.eligible + counted),
            retries |-> x.retries + (new.retries + repeated)]
    BY <1>2, <1>6, <1>7, <2>1, <2>3
  <2>5. Observed(x, mac, frame, bssid, eligible) =
           [bssid |-> bssid, active |-> frame.time,
            tx |-> x.tx + sent, rx |-> x.rx + received,
            eligible |-> x.eligible + counted, retries |-> x.retries + repeated]
    BY <1>5, <1>7
  <2> QED BY <2>1, <2>2, <2>3, <2>4, <2>5
<1>8. ASSUME x.active <= frame.time, y.active <= frame.time
      PROVE  /\ JoinedHost(x, y).active <= frame.time
             /\ JoinedHost(x, Observed(y, mac, frame, bssid, eligible))
                  = Observed(JoinedHost(x, y), mac, frame, bssid, eligible)
  <2>1. JoinedHost(x, y).active <= frame.time
    <3>1. x.active \in Nat /\ y.active \in Nat /\ Max({x.active, y.active}) <= frame.time
      BY <1>8, LatestOf DEF IsHost
    <3>2. JoinedHost(x, y).active = Max({x.active, y.active})
      BY DEF JoinedHost
    <3> QED BY <3>1, <3>2
  <2>2. JoinedHost(x, y).tx = x.tx + y.tx /\ JoinedHost(x, y).rx = x.rx + y.rx
        /\ JoinedHost(x, y).eligible = x.eligible + y.eligible
        /\ JoinedHost(x, y).retries = x.retries + y.retries
    BY DEF JoinedHost
  <2>3. /\ x.tx + (y.tx + sent) = (x.tx + y.tx) + sent
        /\ x.rx + (y.rx + received) = (x.rx + y.rx) + received
        /\ x.eligible + (y.eligible + counted) = (x.eligible + y.eligible) + counted
        /\ x.retries + (y.retries + repeated) = (x.retries + y.retries) + repeated
    BY <1>1 DEF IsHost
  <2>4. PICK both : both = JoinedHost(x, y)
    OBVIOUS
  <2>5. JoinedHost(x, Observed(y, mac, frame, bssid, eligible)) =
           [bssid |-> bssid, active |-> frame.time,
            tx |-> x.tx + (y.tx + sent), rx |-> x.rx + (y.rx + received),
            eligible |-> x.eligible + (y.eligible + counted),
            retries |-> x.retries + (y.retries + repeated)]
    BY <1>6, <1>8
  <2>6. Observed(both, mac, frame, bssid, eligible) =
           [bssid |-> bssid, active |-> frame.time,
            tx |-> both.tx + sent, rx |-> both.rx + received,
            eligible |-> both.eligible + counted, retries |-> both.retries + repeated]
    BY <1>3, <1>5, <2>1, <2>4
  <2> QED BY <2>1, <2>2, <2>3, <2>4, <2>5, <2>6
<1>9. x.active <= frame.time => Observed(x, mac, frame, bssid, eligible).active = frame.time
  BY <1>5
<1> QED BY <1>2, <1>3, <1>4, <1>7, <1>8, <1>9

IsHosts(h) == h = [m \in DOMAIN h |-> h[m]] /\ \A m \in DOMAIN h : IsHost(h[m])
ActiveBy(h, time) == \A m \in DOMAIN h : h[m].active <= time

IsSaid(said) ==
  /\ said.counts \in [Count -> Nat] /\ said.eligible \in BOOLEAN /\ said.scoped \in BOOLEAN
  /\ said.clients \in SUBSET Int /\ IsFiniteSet(said.clients)

\* A host is met: the others stay as they are.
LEMMA Meeting ==
  ASSUME NEW h, IsHosts(h), IsFiniteSet(DOMAIN h), NEW frame, frame.time \in Nat,
         NEW said, IsSaid(said), NEW mac, NEW most \in Nat,
         NEW met, met = Met(h, mac, frame, said, most)
  PROVE  /\ IsHosts(met) /\ IsFiniteSet(DOMAIN met)
         /\ DOMAIN h \subseteq DOMAIN met
         /\ DOMAIN met \subseteq DOMAIN h \cup (said.clients \cap {mac})
         /\ Cardinality(DOMAIN h) \in Nat /\ Cardinality(DOMAIN met) <= Cardinality(DOMAIN h) + 1
         /\ Cardinality(DOMAIN h) <= most => Cardinality(DOMAIN met) <= most
         /\ Omitted(h, mac, said, most) =>
              met = h /\ Cardinality(DOMAIN h) >= most /\ mac \in said.clients \ DOMAIN h
         /\ ~Omitted(h, mac, said, most) => said.clients \cap {mac} \subseteq DOMAIN met
         /\ ActiveBy(h, frame.time) => ActiveBy(met, frame.time)
<1>1. Cardinality(DOMAIN h) \in Nat
  BY FS_CardinalityType
<1>2. CASE mac \notin said.clients
  <2>1. met = h
    BY <1>2 DEF Met
  <2>2. ~Omitted(h, mac, said, most) /\ said.clients \cap {mac} = {}
    BY <1>2 DEF Omitted
  <2> QED BY <1>1, <2>1, <2>2
<1>3. CASE mac \in said.clients /\ Full(h, mac, most)
  <2>1. met = h
    BY <1>3 DEF Met, WithHost
  <2>2. Omitted(h, mac, said, most) /\ Cardinality(DOMAIN h) >= most /\ mac \notin DOMAIN h
    BY <1>3 DEF Omitted, Full
  <2> QED BY <1>1, <1>3, <2>1, <2>2
<1>4. CASE mac \in said.clients /\ ~Full(h, mac, most)
  <2> DEFINE host == IF mac \in DOMAIN h THEN h[mac] ELSE NewHost(said.bssid, frame.time)
             seen == Observed(host, mac, frame, said.bssid, said.eligible)
  <2>1. met = [m \in DOMAIN h \cup {mac} |-> IF m = mac THEN seen ELSE h[m]]
    BY <1>4 DEF Met, WithHost
  <2>2. \A x : IsHost(x) => IsHost(Observed(x, mac, frame, said.bssid, said.eligible))
    BY Hosts DEF IsSaid
  <2>3. \A x : IsHost(x) => IsHost(NewHost(said.bssid, frame.time))
    BY Hosts
  <2>4. IsHost(NewHost(said.bssid, frame.time))
        /\ NewHost(said.bssid, frame.time).active = frame.time
    BY DEF NewHost, IsHost
  <2>5. IsHost(host) /\ IsHost(seen)
    <3>1. IsHost(host)
      BY <2>4 DEF IsHosts
    <3> HIDE DEF host
    <3> QED BY <2>2, <3>1
  <2>6. ASSUME ActiveBy(h, frame.time) PROVE seen.active <= frame.time
    <3>1. host.active <= frame.time
      BY <2>4, <2>6 DEF ActiveBy
    <3> HIDE DEF host
    <3>2. seen.active = frame.time
      BY <2>5, <3>1, Hosts DEF IsSaid
    <3> QED BY <3>2
  <2> HIDE DEF host, seen
  <2>7. DOMAIN met = DOMAIN h \cup {mac} /\ said.clients \cap {mac} = {mac}
    BY <1>4, <2>1
  <2>8. IsHosts(met)
    BY <2>1, <2>5 DEF IsHosts
  <2>9. /\ IsFiniteSet(DOMAIN met)
        /\ Cardinality(DOMAIN met) = IF mac \in DOMAIN h THEN Cardinality(DOMAIN h)
                                     ELSE Cardinality(DOMAIN h) + 1
    BY <2>7, FS_AddElement
  <2>10. mac \notin DOMAIN h => Cardinality(DOMAIN h) < most
    BY <1>1, <1>4 DEF Full
  <2>11. ~Omitted(h, mac, said, most)
    BY <1>4 DEF Omitted
  <2>12. ActiveBy(h, frame.time) => ActiveBy(met, frame.time)
    BY <2>1, <2>6 DEF ActiveBy
  <2> QED BY <1>1, <2>7, <2>8, <2>9, <2>10, <2>11, <2>12
<1> QED BY <1>2, <1>3, <1>4

\* The hosts of two seconds, of those selected.
JoinedHosts(h, later, selected) ==
  [m \in DOMAIN h \cup (DOMAIN later \cap selected) |->
     IF m \notin DOMAIN later THEN h[m]
     ELSE IF m \notin DOMAIN h THEN later[m]
     ELSE JoinedHost(h[m], later[m])]

LEMMA HostsJoin ==
  ASSUME NEW h, IsHosts(h), NEW later, IsHosts(later), NEW selected, NEW time \in Nat
  PROVE  /\ IsHosts(JoinedHosts(h, later, selected))
         /\ \A m : m \in DOMAIN JoinedHosts(h, later, selected)
                   <=> m \in DOMAIN h \cup (DOMAIN later \cap selected)
         /\ ActiveBy(h, time) /\ ActiveBy(later, time) =>
              ActiveBy(JoinedHosts(h, later, selected), time)
<1> DEFINE both == JoinedHosts(h, later, selected)
<1>1. /\ DOMAIN both = DOMAIN h \cup (DOMAIN later \cap selected)
      /\ both = [m \in DOMAIN both |-> both[m]]
      /\ \A m \in DOMAIN both :
           both[m] = IF m \notin DOMAIN later THEN h[m]
                     ELSE IF m \notin DOMAIN h THEN later[m]
                     ELSE JoinedHost(h[m], later[m])
  BY DEF JoinedHosts
<1> HIDE DEF both
<1>2. \A x, y : IsHost(x) /\ IsHost(y) =>
        /\ IsHost(JoinedHost(x, y))
        /\ x.active <= time /\ y.active <= time => JoinedHost(x, y).active <= time
  <2> SUFFICES ASSUME NEW x, NEW y, IsHost(x), IsHost(y)
               PROVE  /\ IsHost(JoinedHost(x, y))
                      /\ x.active <= time /\ y.active <= time => JoinedHost(x, y).active <= time
    OBVIOUS
  <2> DEFINE f == [time |-> time]
  <2>1. f.time = time
    OBVIOUS
  <2> HIDE DEF f
  <2> QED BY <2>1, Hosts
<1>3. IsHosts(both)
  BY <1>1, <1>2 DEF IsHosts
<1>4. ActiveBy(h, time) /\ ActiveBy(later, time) => ActiveBy(both, time)
  BY <1>1, <1>2 DEF IsHosts, ActiveBy
<1> QED BY <1>1, <1>3, <1>4 DEF both

\* Meeting a host in the later of two seconds is meeting it in both.
LEMMA MeetingLater ==
  ASSUME NEW h, IsHosts(h), NEW later, IsHosts(later), NEW frame, frame.time \in Nat,
         ActiveBy(h, frame.time), ActiveBy(later, frame.time),
         NEW said, IsSaid(said), NEW mac, NEW most, NEW all, NEW selected,
         said.clients \subseteq selected,
         ~Omitted(later, mac, said, most),
         ~Omitted(JoinedHosts(h, later, selected), mac, said, all)
  PROVE  JoinedHosts(h, Met(later, mac, frame, said, most), selected)
           = Met(JoinedHosts(h, later, selected), mac, frame, said, all)
<1> DEFINE both == JoinedHosts(h, later, selected)
           met == Met(later, mac, frame, said, most)
<1>1. CASE mac \notin said.clients
  BY <1>1 DEF Met
<1>2. CASE mac \in said.clients
  <2> DEFINE Seen(x) == Observed(x, mac, frame, said.bssid, said.eligible)
             new == NewHost(said.bssid, frame.time)
             host == IF mac \in DOMAIN later THEN later[mac] ELSE new
             known == IF mac \in DOMAIN both THEN both[mac] ELSE new
  <2>1. ~Full(later, mac, most) /\ ~Full(both, mac, all) /\ mac \in selected
    BY <1>2 DEF Omitted
  <2>2. met = [m \in DOMAIN later \cup {mac} |-> IF m = mac THEN Seen(host) ELSE later[m]]
    BY <1>2, <2>1 DEF Met, WithHost
  <2>3. Met(both, mac, frame, said, all)
          = [m \in DOMAIN both \cup {mac} |-> IF m = mac THEN Seen(known) ELSE both[m]]
    BY <1>2, <2>1 DEF Met, WithHost
  <2>4. /\ DOMAIN both = DOMAIN h \cup (DOMAIN later \cap selected)
        /\ \A m \in DOMAIN both :
             both[m] = IF m \notin DOMAIN later THEN h[m]
                       ELSE IF m \notin DOMAIN h THEN later[m]
                       ELSE JoinedHost(h[m], later[m])
    BY DEF JoinedHosts
  <2>5. IsHost(new)
    BY DEF NewHost, IsHost
  <2>6. \A x, y : IsHost(x) /\ IsHost(y) /\ x.active <= frame.time /\ y.active <= frame.time =>
          JoinedHost(x, Seen(y)) = Seen(JoinedHost(x, y)) /\ JoinedHost(x, Seen(new)) = Seen(x)
    BY Hosts DEF IsSaid
  <2> HIDE DEF Seen, new
  <2>7. IF mac \in DOMAIN h THEN JoinedHost(h[mac], Seen(host)) = Seen(known)
        ELSE Seen(host) = Seen(known)
    <3>1. CASE mac \in DOMAIN h /\ mac \in DOMAIN later
      <4>1. host = later[mac] /\ known = JoinedHost(h[mac], later[mac])
        BY <2>1, <2>4, <3>1
      <4> QED BY <2>6, <3>1, <4>1 DEF IsHosts, ActiveBy
    <3>2. CASE mac \in DOMAIN h /\ mac \notin DOMAIN later
      <4>1. host = new /\ known = h[mac]
        BY <2>1, <2>4, <3>2
      <4>2. IsHost(h[mac]) /\ h[mac].active <= frame.time
        BY <3>2 DEF IsHosts, ActiveBy
      <4> QED BY <2>6, <3>2, <4>1, <4>2
    <3>3. CASE mac \notin DOMAIN h /\ mac \in DOMAIN later
      <4>1. host = later[mac] /\ known = later[mac]
        BY <2>1, <2>4, <3>3
      <4> QED BY <3>3, <4>1
    <3>4. CASE mac \notin DOMAIN h /\ mac \notin DOMAIN later
      <4>1. host = new /\ known = new
        BY <2>1, <2>4, <3>4
      <4> QED BY <3>4, <4>1
    <3> QED BY <3>1, <3>2, <3>3, <3>4
  <2> HIDE DEF host, known, met, both
  <2>8. DOMAIN met = DOMAIN later \cup {mac}
    BY <2>2
  <2>9. JoinedHosts(h, met, selected)
          = [m \in DOMAIN h \cup (DOMAIN met \cap selected) |->
               IF m \notin DOMAIN met THEN h[m]
               ELSE IF m \notin DOMAIN h THEN met[m]
               ELSE JoinedHost(h[m], met[m])]
    BY DEF JoinedHosts
  <2>10. DOMAIN h \cup (DOMAIN met \cap selected) = DOMAIN both \cup {mac}
    BY <2>1, <2>4, <2>8
  <2>11. ASSUME NEW m \in DOMAIN both \cup {mac}
         PROVE  (IF m \notin DOMAIN met THEN h[m]
                 ELSE IF m \notin DOMAIN h THEN met[m]
                 ELSE JoinedHost(h[m], met[m]))
                  = IF m = mac THEN Seen(known) ELSE both[m]
    <3>1. CASE m = mac
      <4>1. met[mac] = Seen(host) /\ mac \in DOMAIN met
        BY <2>2
      <4> QED BY <2>7, <3>1, <4>1
    <3>2. CASE m # mac
      <4>1. m \in DOMAIN both /\ (m \in DOMAIN met <=> m \in DOMAIN later)
        BY <2>8, <3>2
      <4>2. m \in DOMAIN later => met[m] = later[m]
        BY <2>2, <3>2
      <4> QED BY <2>4, <3>2, <4>1, <4>2
    <3> QED BY <3>1, <3>2
  <2>12. JoinedHosts(h, met, selected)
           = [m \in DOMAIN both \cup {mac} |-> IF m = mac THEN Seen(known) ELSE both[m]]
    BY <2>9, <2>10, <2>11
  <2> QED BY <2>3, <2>12 DEF met, both
<1> QED BY <1>1, <1>2

-----------------------------------------------------------------------------
(* Projections.                                                            *)

IsBy(by) == by = [b \in DOMAIN by |-> by[b]] /\ \A b \in DOMAIN by : IsSummary(by[b])

IsProjection(p) ==
  /\ p = [counts |-> p.counts, by |-> p.by, clients |-> p.clients, hosts |-> p.hosts,
          limited |-> p.limited]
  /\ p.counts \in [Count -> Nat] /\ IsBy(p.by)
  /\ p.clients \in SUBSET Int /\ IsFiniteSet(p.clients)
  /\ IsHosts(p.hosts) /\ DOMAIN p.hosts \subseteq p.clients

LEMMA EmptyProjection ==
  IsProjection(NoProjection) /\ DOMAIN NoProjection.hosts = {} /\ NoProjection.clients = {}
<1>1. IsBy(<< >>) /\ IsHosts(<< >>) /\ DOMAIN << >> = {}
  BY DEF IsBy, IsHosts
<1>2. NoCounts \in [Count -> Nat]
  BY DEF NoCounts, Count
<1> QED BY <1>1, <1>2, FS_EmptySet DEF IsProjection, NoProjection

LEMMA SummaryIs ==
  ASSUME NEW p, IsProjection(p), NEW b
  PROVE  IsSummary(SummaryOf(p, b))
<1>1. IsSummary(NoSummary)
  BY DEF NoSummary, IsSummary, NoCounts, Count
<1> QED BY <1>1 DEF SummaryOf, IsProjection, IsBy

\* A frame is counted.
LEMMA Accumulates ==
  ASSUME NEW p, IsProjection(p), NEW frame, frame.time \in Nat, NEW said, IsSaid(said),
         NEW most \in Nat, NEW q, q = Accumulated(p, frame, said, most)
  PROVE  IsProjection(q) /\ \A m : m \in q.clients <=> m \in p.clients \cup said.clients
<1>1. IsFiniteSet(DOMAIN p.hosts) /\ IsHosts(p.hosts)
  BY FS_Subset DEF IsProjection
<1>0. PICK sent : sent = Met(p.hosts, frame.ta, frame, said, most)
  OBVIOUS
<1>2. /\ IsHosts(sent) /\ IsFiniteSet(DOMAIN sent)
      /\ DOMAIN sent \subseteq DOMAIN p.hosts \cup said.clients
  BY <1>0, <1>1, Meeting
<1>3. /\ q.counts = Sum(p.counts, said.counts)
      /\ q.clients = p.clients \cup said.clients
      /\ q.hosts = Met(sent, frame.ra, frame, said, most)
      /\ q.by = IF said.bssid = None \/ ~said.scoped THEN p.by
                ELSE [b \in DOMAIN p.by \cup {said.bssid} |->
                        IF b = said.bssid THEN Updated(SummaryOf(p, b), frame, said) ELSE p.by[b]]
      /\ q = [counts |-> q.counts, by |-> q.by, clients |-> q.clients, hosts |-> q.hosts,
              limited |-> q.limited]
  BY <1>0 DEF Accumulated
<1>4. IsHosts(q.hosts) /\ DOMAIN q.hosts \subseteq q.clients
  <2>0. PICK met : met = Met(sent, frame.ra, frame, said, most)
    OBVIOUS
  <2>1. /\ IsHosts(met)
        /\ DOMAIN met \subseteq DOMAIN sent \cup said.clients
    BY <1>2, <2>0, Meeting
  <2> QED BY <1>2, <1>3, <2>0, <2>1 DEF IsProjection
<1>5. q.counts \in [Count -> Nat]
  BY <1>3, Sums DEF IsProjection, IsSaid
<1>6. IsFiniteSet(q.clients) /\ q.clients \in SUBSET Int
  <2>1. IsFiniteSet(p.clients) /\ IsFiniteSet(said.clients)
    BY DEF IsProjection, IsSaid
  <2>2. IsFiniteSet(p.clients \cup said.clients)
    BY <2>1, FS_Union
  <2>3. p.clients \in SUBSET Int /\ said.clients \in SUBSET Int
    BY DEF IsProjection, IsSaid
  <2> QED BY <1>3, <2>2, <2>3
<1>7. IsBy(q.by)
  <2>1. CASE said.bssid = None \/ ~said.scoped
    BY <1>3, <2>1 DEF IsProjection
  <2>2. CASE ~(said.bssid = None \/ ~said.scoped)
    <3>1. q.by = [b \in DOMAIN p.by \cup {said.bssid} |->
                    IF b = said.bssid THEN Updated(SummaryOf(p, b), frame, said) ELSE p.by[b]]
      BY <1>3, <2>2
    <3>2. IsSummary(Updated(SummaryOf(p, said.bssid), frame, said))
      BY SummaryIs, Summaries DEF IsSaid
    <3> QED BY <3>1, <3>2 DEF IsBy, IsProjection
  <2> QED BY <2>1, <2>2
<1> QED BY <1>3, <1>4, <1>5, <1>6, <1>7 DEF IsProjection

\* A second is merged.
LEMMA Absorbs ==
  ASSUME NEW p, IsProjection(p), NEW q, IsProjection(q), NEW selected, NEW time \in Nat,
         NEW both, both = Absorbed(p, q, selected)
  PROVE  /\ IsProjection(both)
         /\ \A m : m \in both.clients <=> m \in p.clients \cup q.clients
         /\ both.hosts = JoinedHosts(p.hosts, q.hosts, selected)
         /\ \A m : m \in DOMAIN both.hosts <=> m \in DOMAIN p.hosts \cup (DOMAIN q.hosts \cap selected)
         /\ ActiveBy(p.hosts, time) /\ ActiveBy(q.hosts, time) => ActiveBy(both.hosts, time)
<1>1. /\ both.counts = Sum(p.counts, q.counts)
      /\ both.clients = p.clients \cup q.clients
      /\ both.hosts = JoinedHosts(p.hosts, q.hosts, selected)
      /\ both.by = [b \in DOMAIN p.by \cup DOMAIN q.by |->
                      JoinedSummary(SummaryOf(p, b), SummaryOf(q, b))]
      /\ both = [counts |-> both.counts, by |-> both.by, clients |-> both.clients,
                 hosts |-> both.hosts, limited |-> both.limited]
  BY DEF Absorbed, JoinedHosts
<1>2. both.counts \in [Count -> Nat]
  BY <1>1, Sums DEF IsProjection
<1>3. IsFiniteSet(both.clients) /\ both.clients \in SUBSET Int
  <2>1. IsFiniteSet(p.clients) /\ IsFiniteSet(q.clients)
    BY DEF IsProjection
  <2>2. IsFiniteSet(p.clients \cup q.clients)
    BY <2>1, FS_Union
  <2>3. p.clients \in SUBSET Int /\ q.clients \in SUBSET Int
    BY DEF IsProjection
  <2> QED BY <1>1, <2>2, <2>3
<1>4. /\ IsHosts(both.hosts)
      /\ \A m : m \in DOMAIN both.hosts <=> m \in DOMAIN p.hosts \cup (DOMAIN q.hosts \cap selected)
      /\ ActiveBy(p.hosts, time) /\ ActiveBy(q.hosts, time) => ActiveBy(both.hosts, time)
  <2>1. PICK h, later : h = p.hosts /\ later = q.hosts
    OBVIOUS
  <2>2. IsHosts(h) /\ IsHosts(later)
    BY <2>1 DEF IsProjection
  <2>3. PICK joined : joined = JoinedHosts(h, later, selected)
    OBVIOUS
  <2>4. /\ IsHosts(joined)
        /\ \A m : m \in DOMAIN joined <=> m \in DOMAIN h \cup (DOMAIN later \cap selected)
        /\ ActiveBy(h, time) /\ ActiveBy(later, time) => ActiveBy(joined, time)
    BY <2>2, <2>3, HostsJoin
  <2> QED BY <1>1, <2>1, <2>3, <2>4
<1>5. IsBy(both.by)
  <2>1. \A b : IsSummary(JoinedSummary(SummaryOf(p, b), SummaryOf(q, b)))
    <3> SUFFICES ASSUME NEW b PROVE IsSummary(JoinedSummary(SummaryOf(p, b), SummaryOf(q, b)))
      OBVIOUS
    <3>1. IsSummary(SummaryOf(p, b)) /\ IsSummary(SummaryOf(q, b))
      BY SummaryIs
    <3> QED BY <3>1, Sums DEF IsSummary, JoinedSummary
  <2> QED BY <1>1, <2>1 DEF IsBy
<1>6. DOMAIN both.hosts \subseteq both.clients
  BY <1>1, <1>4 DEF IsProjection
<1> QED BY <1>1, <1>2, <1>3, <1>4, <1>5, <1>6 DEF IsProjection

\* A second without a frame adds nothing.
LEMMA AbsorbsNothing ==
  ASSUME NEW p, IsProjection(p), NEW selected
  PROVE  Absorbed(p, NoProjection, selected) = p
<1> DEFINE both == Absorbed(p, NoProjection, selected)
<1>1. DOMAIN << >> = {}
  OBVIOUS
<1>2. /\ both.counts = Sum(p.counts, NoCounts)
      /\ both.clients = p.clients
      /\ both.limited = p.limited
      /\ both.hosts = [m \in DOMAIN p.hosts |-> p.hosts[m]]
      /\ both.by = [b \in DOMAIN p.by |-> JoinedSummary(SummaryOf(p, b), NoSummary)]
      /\ both = [counts |-> both.counts, by |-> both.by, clients |-> both.clients,
                 hosts |-> both.hosts, limited |-> both.limited]
  BY <1>1 DEF Absorbed, NoProjection, SummaryOf
<1> HIDE DEF both
<1>3. both.counts = p.counts
  BY <1>2, Sums DEF IsProjection
<1>4. both.hosts = p.hosts
  BY <1>2 DEF IsProjection, IsHosts
<1>5. both.by = p.by
  <2>1. \A b \in DOMAIN p.by : JoinedSummary(SummaryOf(p, b), NoSummary) = p.by[b]
    <3> SUFFICES ASSUME NEW b \in DOMAIN p.by
                 PROVE  JoinedSummary(SummaryOf(p, b), NoSummary) = p.by[b]
      OBVIOUS
    <3>1. IsSummary(p.by[b]) /\ SummaryOf(p, b) = p.by[b]
      BY DEF IsProjection, IsBy, SummaryOf
    <3> QED BY <3>1, Sums DEF IsSummary, JoinedSummary, NoSummary
  <2> QED BY <1>2, <2>1 DEF IsProjection, IsBy
<1> QED BY <1>2, <1>3, <1>4, <1>5 DEF both, IsProjection

\* Two projections agree on counts, summaries and clients.
Same(p, q) == p.counts = q.counts /\ p.by = q.by /\ p.clients = q.clients

\* Nobody is left out when this frame is counted.
AllMet(hosts, frame, said, most) ==
  /\ ~Omitted(hosts, frame.ta, said, most)
  /\ ~Omitted(Met(hosts, frame.ta, frame, said, most), frame.ra, said, most)

\* To count a frame in the later of two seconds is to count it in both.
LEMMA AccumulatesLater ==
  ASSUME NEW p, IsProjection(p), NEW q, IsProjection(q), NEW frame, frame.time \in Nat,
         NEW said, IsSaid(said), NEW most \in Nat, NEW all \in Nat, NEW selected,
         NEW left, left = Absorbed(p, Accumulated(q, frame, said, most), selected),
         NEW right, right = Accumulated(Absorbed(p, q, selected), frame, said, all)
  PROVE  /\ Same(left, right)
         /\ ActiveBy(p.hosts, frame.time) /\ ActiveBy(q.hosts, frame.time)
              /\ said.clients \subseteq selected
              /\ AllMet(q.hosts, frame, said, most)
              /\ AllMet(JoinedHosts(p.hosts, q.hosts, selected), frame, said, all)
            => left.hosts = right.hosts
<1>1. PICK r : r = Accumulated(q, frame, said, most)
  OBVIOUS
<1>2. PICK both : both = Absorbed(p, q, selected)
  OBVIOUS
<1>3. IsProjection(r) /\ IsProjection(both)
  <2>1. 0 \in Nat
    OBVIOUS
  <2> QED BY <1>1, <1>2, <2>1, Accumulates, Absorbs
<1>4. left.counts = right.counts
  <2>1. r.counts = Sum(q.counts, said.counts) /\ both.counts = Sum(p.counts, q.counts)
    BY <1>1, <1>2 DEF Accumulated, Absorbed
  <2>2. left.counts = Sum(p.counts, r.counts) /\ right.counts = Sum(both.counts, said.counts)
    BY <1>1, <1>2 DEF Accumulated, Absorbed
  <2> QED BY <2>1, <2>2, Sums DEF IsProjection, IsSaid
<1>5. left.clients = right.clients
  <2>1. r.clients = q.clients \cup said.clients /\ both.clients = p.clients \cup q.clients
    BY <1>1, <1>2 DEF Accumulated, Absorbed
  <2>2. left.clients = p.clients \cup r.clients /\ right.clients = both.clients \cup said.clients
    BY <1>1, <1>2 DEF Accumulated, Absorbed
  <2> QED BY <2>1, <2>2
<1>6. left.by = right.by
  <2>1. left.by = [b \in DOMAIN p.by \cup DOMAIN r.by |->
                     JoinedSummary(SummaryOf(p, b), SummaryOf(r, b))]
    BY <1>1 DEF Absorbed
  <2>2. both.by = [b \in DOMAIN p.by \cup DOMAIN q.by |->
                     JoinedSummary(SummaryOf(p, b), SummaryOf(q, b))]
    BY <1>2 DEF Absorbed
  <2>3. CASE said.bssid = None \/ ~said.scoped
    <3>1. r.by = q.by /\ right.by = both.by
      BY <1>1, <1>2, <2>3 DEF Accumulated
    <3>2. \A b : SummaryOf(r, b) = SummaryOf(q, b)
      BY <3>1 DEF SummaryOf
    <3> QED BY <2>1, <2>2, <3>1, <3>2
  <2>4. CASE ~(said.bssid = None \/ ~said.scoped)
    <3>1. r.by = [b \in DOMAIN q.by \cup {said.bssid} |->
                    IF b = said.bssid THEN Updated(SummaryOf(q, b), frame, said) ELSE q.by[b]]
      BY <1>1, <2>4 DEF Accumulated
    <3>2. right.by = [b \in DOMAIN both.by \cup {said.bssid} |->
                    IF b = said.bssid THEN Updated(SummaryOf(both, b), frame, said) ELSE both.by[b]]
      BY <1>2, <2>4 DEF Accumulated
    <3>3. DOMAIN p.by \cup DOMAIN r.by = DOMAIN both.by \cup {said.bssid}
      BY <2>2, <3>1
    <3>4. ASSUME NEW b \in DOMAIN both.by \cup {said.bssid}
          PROVE  JoinedSummary(SummaryOf(p, b), SummaryOf(r, b))
                   = IF b = said.bssid THEN Updated(SummaryOf(both, b), frame, said) ELSE both.by[b]
      <4>1. CASE b = said.bssid
        <5>1. SummaryOf(r, b) = Updated(SummaryOf(q, b), frame, said)
          BY <3>1, <4>1 DEF SummaryOf
        <5>2. SummaryOf(both, b) = JoinedSummary(SummaryOf(p, b), SummaryOf(q, b))
          <6>1. CASE b \in DOMAIN both.by
            BY <2>2, <6>1 DEF SummaryOf
          <6>2. CASE b \notin DOMAIN both.by
            <7>1. /\ SummaryOf(both, b) = NoSummary /\ SummaryOf(p, b) = NoSummary
                  /\ SummaryOf(q, b) = NoSummary
              BY <2>2, <6>2 DEF SummaryOf
            <7>2. IsSummary(NoSummary)
              BY <1>3, <7>1, SummaryIs
            <7>3. JoinedSummary(NoSummary, NoSummary) = NoSummary
              BY <7>2, Summaries DEF IsSaid
            <7> QED BY <7>1, <7>3
          <6> QED BY <6>1, <6>2
        <5>3. IsSummary(SummaryOf(p, b)) /\ IsSummary(SummaryOf(q, b))
          BY SummaryIs
        <5>4. JoinedSummary(SummaryOf(p, b), Updated(SummaryOf(q, b), frame, said))
                = Updated(JoinedSummary(SummaryOf(p, b), SummaryOf(q, b)), frame, said)
          BY <5>3, Summaries DEF IsSaid
        <5> QED BY <4>1, <5>1, <5>2, <5>4
      <4>2. CASE b # said.bssid
        <5>1. SummaryOf(r, b) = SummaryOf(q, b)
          BY <3>1, <4>2 DEF SummaryOf
        <5>2. b \in DOMAIN both.by
          BY <4>2
        <5> QED BY <2>2, <4>2, <5>1, <5>2
      <4> QED BY <4>1, <4>2
    <3> QED BY <2>1, <3>2, <3>3, <3>4
  <2> QED BY <2>3, <2>4
<1>7. ASSUME ActiveBy(p.hosts, frame.time), ActiveBy(q.hosts, frame.time),
             said.clients \subseteq selected,
             AllMet(q.hosts, frame, said, most),
             AllMet(JoinedHosts(p.hosts, q.hosts, selected), frame, said, all)
      PROVE  left.hosts = right.hosts
  <2>1. PICK joined : joined = JoinedHosts(p.hosts, q.hosts, selected)
    OBVIOUS
  <2>2. PICK sent : sent = Met(q.hosts, frame.ta, frame, said, most)
    OBVIOUS
  <2>3. /\ r.hosts = Met(sent, frame.ra, frame, said, most)
        /\ left.hosts = JoinedHosts(p.hosts, r.hosts, selected)
        /\ right.hosts = Met(Met(joined, frame.ta, frame, said, all), frame.ra, frame, said, all)
    <3>1. both.hosts = joined
      BY <1>2, <2>1 DEF Absorbed, JoinedHosts
    <3> QED BY <1>1, <1>2, <2>2, <3>1 DEF Accumulated, Absorbed, JoinedHosts
  <2>4. IsHosts(p.hosts) /\ IsHosts(q.hosts) /\ IsFiniteSet(DOMAIN q.hosts)
    BY FS_Subset DEF IsProjection
  <2>5. IsHosts(sent) /\ ActiveBy(sent, frame.time)
    BY <1>7, <2>2, <2>4, Meeting
  <2>6. JoinedHosts(p.hosts, sent, selected) = Met(joined, frame.ta, frame, said, all)
    BY <1>7, <2>1, <2>2, <2>4, MeetingLater DEF AllMet
  <2>7. ~Omitted(sent, frame.ra, said, most)
    BY <1>7, <2>2 DEF AllMet
  <2>8. ~Omitted(JoinedHosts(p.hosts, sent, selected), frame.ra, said, all)
    BY <1>7, <2>1, <2>6 DEF AllMet
  <2>9. JoinedHosts(p.hosts, Met(sent, frame.ra, frame, said, most), selected)
          = Met(JoinedHosts(p.hosts, sent, selected), frame.ra, frame, said, all)
    BY <1>7, <2>4, <2>5, <2>7, <2>8, MeetingLater
  <2> QED BY <2>3, <2>6, <2>9
<1> QED BY <1>4, <1>5, <1>6, <1>7 DEF Same

-----------------------------------------------------------------------------
(* What frames say.                                                        *)

IsFrame(f) == f.time \in Nat /\ {f.bssid, f.ta, f.ra, f.other} \subseteq Int \cup {None}
Frames == {Captured(shape, time) : shape \in Shapes, time \in 0..MaxTime}

LEMMA FrameIs ==
  ASSUME NEW f \in Frames
  PROVE  IsFrame(f)
<1>1. PICK shape \in Shapes, time \in 0..MaxTime : f = Captured(shape, time)
  BY DEF Frames
<1>2. {shape.bssid, shape.ta, shape.ra, shape.other} \subseteq Int \cup {None}
  BY ProjectionAssumption
<1>3. f.time = time /\ f.bssid = shape.bssid /\ f.ta = shape.ta /\ f.ra = shape.ra
      /\ f.other = shape.other
  BY <1>1 DEF Captured
<1>4. time \in Nat
  OBVIOUS
<1> QED BY <1>2, <1>3, <1>4 DEF IsFrame

LEMMA SaidIs ==
  ASSUME NEW f, IsFrame(f), NEW known, NEW records, NEW said, said = Said(f, known, records)
  PROVE  IsSaid(said) /\ said.clients \subseteq {f.ta, f.ra}
<1> DEFINE bssid == Associated(f, known)
           scoped == ~f.bad /\ InScope(f, bssid, records)
           eligible == scoped /\ retry_eligible(f)
<1>1. /\ said.scoped = scoped /\ said.eligible = eligible
      /\ said.counts = CountsOf(scoped, f, eligible)
      /\ said.clients = IF scoped THEN LinkClients(f, bssid, known) ELSE {}
  BY DEF Said
<1>2. scoped \in BOOLEAN /\ eligible \in BOOLEAN
  OBVIOUS
<1> HIDE DEF bssid, scoped, eligible
<1>3. said.counts \in [Count -> Nat]
  BY <1>1 DEF CountsOf, Count
<1>4. said.clients \subseteq {f.ta, f.ra} /\ said.clients \subseteq Int
  BY <1>1 DEF LinkClients, IsFrame
<1>5. IsFiniteSet(said.clients)
  <2>1. IsFiniteSet({f.ta} \cup {f.ra})
    BY FS_Singleton, FS_AddElement
  <2>2. said.clients \in SUBSET ({f.ta} \cup {f.ra})
    BY <1>4
  <2> QED BY <2>1, <2>2, FS_Subset
<1> QED BY <1>1, <1>2, <1>3, <1>4, <1>5 DEF IsSaid

\* A corrupt frame is only counted.
LEMMA CountsBad ==
  ASSUME NEW f, f.bad, NEW p, NEW most, NEW known, NEW records
  PROVE  Counted(p, f, known, records, most) =
           [counts |-> Sum(p.counts, CountsOf(FALSE, f, FALSE)), by |-> p.by,
            clients |-> p.clients \cup {}, hosts |-> p.hosts, limited |-> p.limited \/ FALSE]
<1>1. PICK said : said = Said(f, known, records)
  OBVIOUS
<1>2. said.counts = CountsOf(FALSE, f, FALSE) /\ said.clients = {} /\ ~said.scoped
  BY <1>1 DEF Said
<1>3. /\ \A h, mac : Met(h, mac, f, said, most) = h
      /\ \A h, mac : ~Omitted(h, mac, said, most)
  BY <1>2 DEF Met, Omitted
<1> QED BY <1>1, <1>2, <1>3 DEF Counted, Accumulated

\* One frame more.
LEMMA OneMore ==
  ASSUME NEW some \in Seq(Frames), NEW frame \in Frames, NEW after, after = Append(some, frame)
  PROVE  /\ after \in Seq(Frames) /\ Len(some) \in Nat /\ Len(after) = Len(some) + 1
         /\ DOMAIN some = 1..Len(some) /\ DOMAIN after = 1..(Len(some) + 1)
         /\ after[Len(some) + 1] = frame /\ Last(after) = frame
         /\ \A i \in 1..Len(some) : after[i] = some[i] /\ some[i] \in Frames
         /\ \A f : f \in ToSet(after) <=> f \in ToSet(some) \/ f = frame
         /\ \A f : f \in Records(after) <=> f \in Records(some) \/ (f = frame /\ IsRecord(f))
         /\ \A b : b \in Known(after)
                   <=> b \in Known(some) \/ (b = frame.bssid /\ IsRecord(frame))
         /\ ~IsRecord(frame) => Records(after) = Records(some)
         /\ ~IsRecord(frame) \/ frame.bssid \in Known(some) => Known(after) = Known(some)
<1>1. /\ after \in Seq(Frames) /\ Len(some) \in Nat /\ Len(after) = Len(some) + 1
      /\ DOMAIN some = 1..Len(some) /\ DOMAIN after = 1..(Len(some) + 1)
      /\ after[Len(some) + 1] = frame
      /\ \A i \in 1..Len(some) : after[i] = some[i] /\ some[i] \in Frames
  OBVIOUS
<1>2. Last(after) = frame
  BY <1>1 DEF Last
<1>3. \A f : f \in ToSet(after) <=> f \in ToSet(some) \/ f = frame
  <2>1. \A i \in DOMAIN after : i \in DOMAIN some \/ i = Len(some) + 1
    BY <1>1
  <2>2. \A i \in DOMAIN some : i \in DOMAIN after /\ after[i] = some[i]
    BY <1>1
  <2>3. Len(some) + 1 \in DOMAIN after
    BY <1>1
  <2> QED BY <1>1, <2>1, <2>2, <2>3 DEF ToSet
<1>4. \A f : f \in Records(after) <=> f \in Records(some) \/ (f = frame /\ IsRecord(f))
  BY <1>3 DEF Records
<1>5. \A b : b \in Known(after) <=> b \in Known(some) \/ (b = frame.bssid /\ IsRecord(frame))
  BY <1>4 DEF Known
<1>6. ASSUME ~IsRecord(frame) PROVE Records(after) = Records(some)
  <2>1. \A f : f \in Records(after) <=> f \in Records(some)
    BY <1>4, <1>6
  <2> QED BY <2>1, Zenon
<1>7. ASSUME ~IsRecord(frame) \/ frame.bssid \in Known(some) PROVE Known(after) = Known(some)
  <2>1. \A b : b \in Known(after) <=> b \in Known(some)
    BY <1>5, <1>7
  <2> QED BY <2>1, Zenon
<1> QED BY <1>1, <1>2, <1>3, <1>4, <1>5, <1>6, <1>7

\* The BSSIDs known are addresses.
LEMMA KnownAre ==
  ASSUME NEW some \in Seq(Frames)
  PROVE  Known(some) \subseteq Int
<1>1. ASSUME NEW r \in Records(some) PROVE r.bssid \in Int
  <2>1. r \in Frames /\ IsRecord(r)
    BY <1>1 DEF Records, ToSet
  <2> QED BY <2>1, FrameIs DEF IsFrame, IsRecord
<1> QED BY <1>1 DEF Known

DiscoveredIn(some) ==
  \A i, j \in DOMAIN some :
    IsRecord(some[i]) /\ ~IsRecord(some[j]) /\ ~some[j].bad /\ j < i =>
      \E k \in 1..j : IsRecord(some[k]) /\ some[k].bssid = some[i].bssid

Rising(some) == \A i, j \in DOMAIN some : i < j => some[i].time < some[j].time

\* A beacon's own BSSID is known: it says the same whatever else is.
LEMMA OwnBssid ==
  ASSUME NEW f, f.bssid # None, NEW known, f.bssid \in known
  PROVE  Associated(f, known) = f.bssid
<1> DEFINE macs == mac_addresses(f)
           matching == {i \in 1..4 : macs[i] # None /\ macs[i] \in known}
<1>1. macs[1] = f.bssid
  BY DEF mac_addresses
<1>2. 1 \in matching /\ \A i \in matching : 1 <= i /\ i \in Nat
  BY <1>1
<1>3. Associated(f, known) = IF matching = {} THEN f.bssid ELSE macs[Min(matching)]
  BY DEF Associated
<1> HIDE DEF matching, macs
<1>4. matching # {} /\ matching \in SUBSET Nat
  BY <1>2
<1>5. PICK least : least = Min(matching)
  OBVIOUS
<1>6. least \in matching /\ \A i \in matching : least <= i
  BY <1>4, <1>5, LeastOf
<1>7. least = 1
  BY <1>2, <1>6
<1> QED BY <1>1, <1>3, <1>4, <1>5, <1>7

\* The first k frames count for the same.
CountAlike(some, known, records, other, known2, records2, most, k) ==
  \A i \in 1..k : \A p : Counted(p, other[i], known2, records2, most)
                         = Counted(p, some[i], known, records, most)

Before(some, frame) == \A i \in DOMAIN some : some[i].time < frame.time

\* What a frame says does not change when BSSIDs are not discovered later.
LEMMA SaidStays ==
  ASSUME NEW some \in Seq(Frames), NEW frame \in Frames, NEW after, after = Append(some, frame),
         Before(some, frame), DiscoveredIn(after),
         NEW most
  PROVE  CountAlike(some, Known(some), Records(some),
                    after, Known(after), Records(after), most, Len(some))
<1>0. \A i \in 1..Len(some) : after[i] = some[i] /\ i \in DOMAIN some
  BY OneMore
<1> SUFFICES ASSUME NEW n \in DOMAIN some, NEW p
             PROVE  Counted(p, some[n], Known(after), Records(after), most)
                      = Counted(p, some[n], Known(some), Records(some), most)
  BY <1>0 DEF CountAlike
<1> DEFINE f == some[n]
<1>1. /\ f \in Frames /\ frame \in Frames /\ after[n] = f /\ n \in DOMAIN after
      /\ n \in 1..Len(some) /\ Len(some) \in Nat
  BY OneMore
<1>2. IsFrame(f) /\ IsFrame(frame) /\ f.time < frame.time
  BY <1>1, FrameIs DEF Before
<1>3. CASE ~IsRecord(frame)
  <2>1. Records(after) = Records(some)
    BY <1>3, OneMore
  <2>2. Known(after) = Known(some)
    BY <1>3, OneMore
  <2> QED BY <2>1, <2>2
<1>4. CASE f.bad
  BY <1>4, CountsBad
<1>5. CASE IsRecord(frame) /\ ~f.bad
  <2>1. \A b : Definitions(Records(after), b, f.time) = Definitions(Records(some), b, f.time)
    <3> SUFFICES ASSUME NEW b
                 PROVE  Definitions(Records(after), b, f.time) = Definitions(Records(some), b, f.time)
      OBVIOUS
    <3>1. \A r : r \in Records(after) /\ r.time <= f.time <=> r \in Records(some) /\ r.time <= f.time
      <4>1. ~(frame.time <= f.time)
        BY <1>2 DEF IsFrame
      <4>2. \A r : r \in Records(after) <=> r \in Records(some) \/ (r = frame /\ IsRecord(r))
        BY OneMore
      <4> QED BY <4>1, <4>2
    <3> QED BY <3>1 DEF Definitions
  <2>2. \A b : InScope(f, b, Records(after)) = InScope(f, b, Records(some))
    BY <2>1 DEF InScope, MatchesPrimary
  <2>3. CASE IsRecord(f)
    <3>1. f.bssid # None /\ f.bssid \in Known(some) /\ f.bssid \in Known(after)
      <4>1. f \in Records(some)
        BY <2>3 DEF Records, ToSet
      <4>2. f.bssid \in Known(some)
        BY <4>1 DEF Known
      <4> QED BY <2>3, <4>2, OneMore DEF IsRecord
    <3>2. Associated(f, Known(after)) = f.bssid /\ Associated(f, Known(some)) = f.bssid
      BY <3>1, OwnBssid
    <3>3. \A known : LinkClients(f, f.bssid, known) = {}
      BY <2>3 DEF LinkClients, IsRecord
    <3>4. Said(f, Known(after), Records(after)) = Said(f, Known(some), Records(some))
      BY <2>2, <3>2, <3>3 DEF Said
    <3> QED BY <3>4 DEF Counted
  <2>4. CASE ~IsRecord(f)
    <3>1. frame.bssid \in Known(some)
      <4>1. /\ after[Len(some) + 1] = frame /\ Len(some) + 1 \in DOMAIN after
            /\ n < Len(some) + 1
        BY <1>1, OneMore
      <4>2. PICK k \in 1..n : IsRecord(after[k]) /\ after[k].bssid = frame.bssid
        <5>1. \E k \in 1..n : IsRecord(after[k]) /\ after[k].bssid = after[Len(some) + 1].bssid
          BY <1>1, <1>5, <2>4, <4>1 DEF DiscoveredIn
        <5> QED BY <4>1, <5>1
      <4>3. k \in 1..Len(some)
        BY <1>1
      <4>4. k \in DOMAIN some /\ after[k] = some[k]
        BY <4>3, OneMore
      <4>5. some[k] \in Records(some)
        BY <4>2, <4>4 DEF Records, ToSet
      <4> QED BY <4>2, <4>4, <4>5 DEF Known
    <3>2. Known(after) = Known(some)
      BY <3>1, OneMore
    <3>3. Said(f, Known(after), Records(after)) = Said(f, Known(some), Records(some))
      BY <2>2, <3>2 DEF Said
    <3> QED BY <3>3 DEF Counted
  <2> QED BY <2>3, <2>4
<1> QED BY <1>3, <1>4, <1>5

\* A frame is of one link: it meets at most two hosts.
LEMMA AccumulatesTwo ==
  ASSUME NEW p, IsProjection(p), NEW frame, frame.time \in Nat, NEW said, IsSaid(said),
         NEW most \in Nat, NEW q, q = Accumulated(p, frame, said, most)
  PROVE  /\ Cardinality(DOMAIN p.hosts) \in Nat /\ Cardinality(DOMAIN q.hosts) \in Nat
         /\ Cardinality(DOMAIN q.hosts) <= Cardinality(DOMAIN p.hosts) + 2
<1>1. PICK h : h = p.hosts
  OBVIOUS
<1>2. IsFiniteSet(DOMAIN h) /\ IsHosts(h)
  BY <1>1, FS_Subset DEF IsProjection
<1>3. PICK sent : sent = Met(h, frame.ta, frame, said, most)
  OBVIOUS
<1>4. PICK met : met = Met(sent, frame.ra, frame, said, most)
  OBVIOUS
<1>5. q.hosts = met
  BY <1>1, <1>3, <1>4 DEF Accumulated
<1>6. /\ IsHosts(sent) /\ IsFiniteSet(DOMAIN sent)
      /\ Cardinality(DOMAIN h) \in Nat /\ Cardinality(DOMAIN sent) <= Cardinality(DOMAIN h) + 1
  BY <1>2, <1>3, Meeting
<1>7. /\ IsFiniteSet(DOMAIN met) /\ Cardinality(DOMAIN sent) \in Nat
      /\ Cardinality(DOMAIN met) <= Cardinality(DOMAIN sent) + 1
  BY <1>4, <1>6, Meeting
<1>8. Cardinality(DOMAIN met) \in Nat
  BY <1>7, FS_CardinalityType
<1> QED BY <1>1, <1>5, <1>6, <1>7, <1>8

\* The projections of the first frames.
LEMMA PassesAre ==
  ASSUME NEW some \in Seq(Frames), NEW known, NEW records, NEW most \in Nat,
         NEW passes, passes = Passes(some, known, records, most)
  PROVE  \A n \in 0..Len(some) :
           /\ IsProjection(passes[n])
           /\ Cardinality(DOMAIN passes[n].hosts) \in Nat
           /\ Cardinality(DOMAIN passes[n].hosts) <= 2 * n
<1> DEFINE G == {n \in 0..Len(some) :
                   /\ IsProjection(passes[n])
                   /\ Cardinality(DOMAIN passes[n].hosts) \in Nat
                   /\ Cardinality(DOMAIN passes[n].hosts) <= 2 * n}
<1>1. Len(some) \in Nat
  OBVIOUS
<1>2. /\ passes[0] = NoProjection
      /\ \A n \in 1..Len(some) : passes[n] = Counted(passes[n - 1], some[n], known, records, most)
  BY <1>1, PassesStep
<1>3. 0 \in G
  <2>1. Cardinality({}) = 0
    BY FS_EmptySet
  <2>2. IsProjection(passes[0]) /\ Cardinality(DOMAIN passes[0].hosts) = 0
    BY <1>2, <2>1, EmptyProjection
  <2>3. 0 \in 0..Len(some) /\ Cardinality(DOMAIN passes[0].hosts) \in Nat
        /\ Cardinality(DOMAIN passes[0].hosts) <= 2 * 0
    BY <1>1, <2>2
  <2> QED BY <2>2, <2>3
<1>4. ASSUME NEW n \in 1..Len(some), n - 1 \in G PROVE n \in G
  <2>1. PICK p : p = passes[n - 1]
    OBVIOUS
  <2>2. IsProjection(p) /\ Cardinality(DOMAIN p.hosts) <= 2 * (n - 1)
    BY <1>4, <2>1
  <2>3. PICK f : f = some[n]
    OBVIOUS
  <2>4. IsFrame(f) /\ f.time \in Nat
    <3>1. f \in Frames
      BY <1>4, <2>3
    <3> QED BY <3>1, FrameIs DEF IsFrame
  <2>5. PICK said : said = Said(f, known, records)
    OBVIOUS
  <2>6. IsSaid(said)
    BY <2>4, <2>5, SaidIs
  <2>7. PICK q : q = Accumulated(p, f, said, most)
    OBVIOUS
  <2>8. passes[n] = q
    BY <1>2, <2>1, <2>3, <2>5, <2>7 DEF Counted
  <2>9. IsProjection(q)
    BY <2>2, <2>4, <2>6, <2>7, Accumulates
  <2>10. /\ Cardinality(DOMAIN p.hosts) \in Nat /\ Cardinality(DOMAIN q.hosts) \in Nat
         /\ Cardinality(DOMAIN q.hosts) <= Cardinality(DOMAIN p.hosts) + 2
    BY <2>2, <2>4, <2>6, <2>7, AccumulatesTwo
  <2>11. Cardinality(DOMAIN q.hosts) <= 2 * n /\ n \in 0..Len(some)
    BY <1>1, <2>2, <2>10
  <2> QED BY <2>8, <2>9, <2>10, <2>11
<1> HIDE DEF G
<1>5. \A n \in 0..Len(some) : n \in G
  BY <1>1, <1>3, <1>4, Upward
<1> QED BY <1>5 DEF G

\* Where the first frames count for the same, so do their projections.
LEMMA PassesAgree ==
  ASSUME NEW some, Len(some) \in Nat, NEW known, NEW records, NEW most,
         NEW other, Len(other) \in Nat, NEW known2, NEW records2,
         NEW k \in Nat, k <= Len(some), k <= Len(other),
         \A i \in 1..k : \A p : Counted(p, other[i], known2, records2, most)
                                  = Counted(p, some[i], known, records, most)
  PROVE  Passes(other, known2, records2, most)[k] = Passes(some, known, records, most)[k]
<1>1. PICK a : a = Passes(some, known, records, most)
  OBVIOUS
<1>2. PICK b : b = Passes(other, known2, records2, most)
  OBVIOUS
<1>3. /\ a[0] = NoProjection
      /\ \A n \in 1..Len(some) : a[n] = Counted(a[n - 1], some[n], known, records, most)
  BY <1>1, PassesStep
<1>4. /\ b[0] = NoProjection
      /\ \A n \in 1..Len(other) : b[n] = Counted(b[n - 1], other[n], known2, records2, most)
  BY <1>2, PassesStep
<1> DEFINE G == {n \in Nat : b[n] = a[n]}
<1>5. 0 \in G
  BY <1>3, <1>4
<1>6. ASSUME NEW n \in 1..k, n - 1 \in G PROVE n \in G
  <2>1. n \in 1..Len(some) /\ n \in 1..Len(other) /\ n \in Nat
    OBVIOUS
  <2>2. a[n] = Counted(a[n - 1], some[n], known, records, most)
    BY <1>3, <2>1
  <2>3. b[n] = Counted(b[n - 1], other[n], known2, records2, most)
    BY <1>4, <2>1
  <2>4. b[n - 1] = a[n - 1]
    BY <1>6
  <2> QED BY <2>1, <2>2, <2>3, <2>4
<1> HIDE DEF G
<1>7. k \in G
  <2>1. k \in 0..k
    OBVIOUS
  <2> QED BY <1>5, <1>6, <2>1, Upward
<1> QED BY <1>1, <1>2, <1>7 DEF G

\* What is counted does not depend on the hosts.
LEMMA CountedSame ==
  ASSUME NEW p, NEW q, Same(p, q), NEW frame, NEW said, NEW most, NEW all
  PROVE  /\ Same(Accumulated(p, frame, said, most), Accumulated(q, frame, said, all))
         /\ p.hosts = q.hosts =>
              Accumulated(p, frame, said, all).hosts = Accumulated(q, frame, said, all).hosts
<1>1. \A b : SummaryOf(p, b) = SummaryOf(q, b)
  BY DEF SummaryOf, Same
<1>2. Accumulated(p, frame, said, most).by = Accumulated(q, frame, said, all).by
  <2>1. p.by = q.by
    BY DEF Same
  <2>2. CASE said.bssid = None \/ ~said.scoped
    BY <2>1, <2>2 DEF Accumulated
  <2>3. CASE ~(said.bssid = None \/ ~said.scoped)
    <3>1. Accumulated(p, frame, said, most).by =
            [b \in DOMAIN p.by \cup {said.bssid} |->
               IF b = said.bssid THEN Updated(SummaryOf(p, b), frame, said) ELSE p.by[b]]
      BY <2>3 DEF Accumulated
    <3>2. Accumulated(q, frame, said, all).by =
            [b \in DOMAIN q.by \cup {said.bssid} |->
               IF b = said.bssid THEN Updated(SummaryOf(q, b), frame, said) ELSE q.by[b]]
      BY <2>3 DEF Accumulated
    <3> QED BY <1>1, <2>1, <3>1, <3>2
  <2> QED BY <2>2, <2>3
<1>3. /\ Accumulated(p, frame, said, most).counts = Sum(p.counts, said.counts)
      /\ Accumulated(q, frame, said, all).counts = Sum(q.counts, said.counts)
      /\ Accumulated(p, frame, said, most).clients = p.clients \cup said.clients
      /\ Accumulated(q, frame, said, all).clients = q.clients \cup said.clients
  BY DEF Accumulated
<1>4. p.hosts = q.hosts =>
        Accumulated(p, frame, said, all).hosts = Accumulated(q, frame, said, all).hosts
  BY DEF Accumulated
<1> QED BY <1>2, <1>3, <1>4 DEF Same

-----------------------------------------------------------------------------
(* Seconds merged.                                                         *)

\* The seconds merged: the clients of all, and the hosts selected of all.
LEMMA MergedAre ==
  ASSUME NEW ps, Len(ps) \in Nat, NEW chosen, NEW time \in Nat,
         \A i \in 1..Len(ps) : IsProjection(ps[i]) /\ ActiveBy(ps[i].hosts, time),
         NEW merged, merged = Merged(ps, chosen)
  PROVE  \A n \in 0..Len(ps) :
           /\ IsProjection(merged[n]) /\ ActiveBy(merged[n].hosts, time)
           /\ \A m : m \in merged[n].clients <=> \E i \in 1..n : m \in ps[i].clients
           /\ \A m : m \in DOMAIN merged[n].hosts
                       <=> m \in chosen /\ \E i \in 1..n : m \in DOMAIN ps[i].hosts
<1> DEFINE Clients(n) == \A m : m \in merged[n].clients <=> \E i \in 1..n : m \in ps[i].clients
           Details(n) == \A m : m \in DOMAIN merged[n].hosts
                       <=> m \in chosen /\ \E i \in 1..n : m \in DOMAIN ps[i].hosts
           G == {n \in Nat : /\ IsProjection(merged[n]) /\ ActiveBy(merged[n].hosts, time)
                             /\ Clients(n) /\ Details(n)}
<1>1. /\ merged[0] = NoProjection
      /\ \A n \in 1..Len(ps) : merged[n] = Absorbed(merged[n - 1], ps[n], chosen)
  BY MergedStep
<1>2. 0 \in G
  <2>1. /\ IsProjection(merged[0]) /\ DOMAIN merged[0].hosts = {} /\ merged[0].clients = {}
    BY <1>1, EmptyProjection
  <2>2. ActiveBy(merged[0].hosts, time)
    BY <2>1 DEF ActiveBy
  <2>3. 1..0 = {}
    OBVIOUS
  <2> QED BY <2>1, <2>2, <2>3
<1>3. ASSUME NEW n \in 1..Len(ps), n - 1 \in G PROVE n \in G
  <2>1. PICK p : p = merged[n - 1]
    OBVIOUS
  <2>2. PICK q : q = ps[n]
    OBVIOUS
  <2>3. IsProjection(p) /\ IsProjection(q) /\ ActiveBy(p.hosts, time) /\ ActiveBy(q.hosts, time)
    BY <1>3, <2>1, <2>2
  <2>4. PICK both : both = Absorbed(p, q, chosen)
    OBVIOUS
  <2>5. merged[n] = both
    BY <1>1, <2>1, <2>2, <2>4
  <2>6. /\ IsProjection(both)
        /\ \A m : m \in both.clients <=> m \in p.clients \cup q.clients
        /\ \A m : m \in DOMAIN both.hosts
                    <=> m \in DOMAIN p.hosts \cup (DOMAIN q.hosts \cap chosen)
        /\ ActiveBy(p.hosts, time) /\ ActiveBy(q.hosts, time) => ActiveBy(both.hosts, time)
    BY <2>3, <2>4, Absorbs
  <2>7. \A i : i \in 1..n <=> i \in 1..(n - 1) \/ i = n
    OBVIOUS
  <2>8. Clients(n)
    <3>1. Clients(n - 1)
      BY <1>3
    <3>2. \A m : m \in p.clients <=> \E i \in 1..(n - 1) : m \in ps[i].clients
      BY <2>1, <3>1
    <3> QED BY <2>2, <2>5, <2>6, <2>7, <3>2
  <2>9. Details(n)
    <3>1. Details(n - 1)
      BY <1>3
    <3>2. \A m : m \in DOMAIN p.hosts
                   <=> m \in chosen /\ \E i \in 1..(n - 1) : m \in DOMAIN ps[i].hosts
      BY <2>1, <3>1
    <3> QED BY <2>2, <2>5, <2>6, <2>7, <3>2
  <2> HIDE DEF Clients, Details
  <2> QED BY <2>3, <2>5, <2>6, <2>8, <2>9
<1> HIDE DEF G
<1>4. \A n \in 0..Len(ps) : n \in G
  BY <1>2, <1>3, Upward
<1> QED BY <1>4 DEF G

\* The same seconds merge to the same.
LEMMA MergedAgree ==
  ASSUME NEW ps, Len(ps) \in Nat, NEW qs, Len(qs) \in Nat, NEW chosen,
         NEW k \in Nat, k <= Len(ps), k <= Len(qs), \A i \in 1..k : qs[i] = ps[i]
  PROVE  Merged(qs, chosen)[k] = Merged(ps, chosen)[k]
<1>1. PICK a : a = Merged(ps, chosen)
  OBVIOUS
<1>2. PICK b : b = Merged(qs, chosen)
  OBVIOUS
<1>3. /\ a[0] = NoProjection
      /\ \A n \in 1..Len(ps) : a[n] = Absorbed(a[n - 1], ps[n], chosen)
  BY <1>1, MergedStep
<1>4. /\ b[0] = NoProjection
      /\ \A n \in 1..Len(qs) : b[n] = Absorbed(b[n - 1], qs[n], chosen)
  BY <1>2, MergedStep
<1> DEFINE G == {n \in Nat : b[n] = a[n]}
<1>5. 0 \in G
  BY <1>3, <1>4
<1>6. ASSUME NEW n \in 1..k, n - 1 \in G PROVE n \in G
  <2>1. n \in 1..Len(ps) /\ n \in 1..Len(qs) /\ n \in Nat
    OBVIOUS
  <2>2. a[n] = Absorbed(a[n - 1], ps[n], chosen)
    BY <1>3, <2>1
  <2>3. b[n] = Absorbed(b[n - 1], qs[n], chosen)
    BY <1>4, <2>1
  <2>4. b[n - 1] = a[n - 1] /\ qs[n] = ps[n]
    BY <1>6
  <2> QED BY <2>1, <2>2, <2>3, <2>4
<1> HIDE DEF G
<1>7. k \in G
  <2>1. k \in 0..k
    OBVIOUS
  <2> QED BY <1>5, <1>6, <2>1, Upward
<1> QED BY <1>1, <1>2, <1>7 DEF G

\* Seconds without a frame change nothing.
LEMMA MergedPads ==
  ASSUME NEW ps, Len(ps) \in Nat, NEW chosen, NEW k \in Nat, NEW n \in Nat,
         k <= n, n <= Len(ps), IsProjection(Merged(ps, chosen)[k]),
         \A i \in (k + 1)..n : ps[i] = NoProjection
  PROVE  Merged(ps, chosen)[n] = Merged(ps, chosen)[k]
<1>1. PICK a : a = Merged(ps, chosen)
  OBVIOUS
<1>2. \A i \in 1..Len(ps) : a[i] = Absorbed(a[i - 1], ps[i], chosen)
  BY <1>1, MergedStep
<1> DEFINE G == {i \in Nat : i > k => a[i] = a[k]}
<1>3. 0 \in G
  OBVIOUS
<1>4. ASSUME NEW i \in 1..n, i - 1 \in G PROVE i \in G
  <2>1. CASE i > k
    <3>1. a[i] = Absorbed(a[i - 1], ps[i], chosen) /\ ps[i] = NoProjection
      BY <1>2, <2>1
    <3>2. a[i - 1] = a[k]
      <4>1. i - 1 > k \/ i - 1 = k
        BY <2>1
      <4> QED BY <1>4, <4>1
    <3>3. Absorbed(a[k], NoProjection, chosen) = a[k]
      BY <1>1, AbsorbsNothing
    <3> QED BY <3>1, <3>2, <3>3
  <2>2. CASE ~(i > k)
    BY <2>2
  <2> QED BY <2>1, <2>2
<1> HIDE DEF G
<1>5. n \in G
  <2>1. n \in 0..n
    OBVIOUS
  <2> QED BY <1>3, <1>4, <2>1, Upward
<1>6. n > k \/ n = k
  OBVIOUS
<1> QED BY <1>1, <1>5, <1>6 DEF G

-----------------------------------------------------------------------------
(* The bucket of a second.                                                 *)

\* A bucket lists every client, or as many as it can and says so.
IsBucket(b, time) ==
  /\ IsProjection(b) /\ ActiveBy(b.hosts, time)
  /\ Cardinality(DOMAIN b.hosts) <= MaxHosts
  /\ b.limited => /\ Cardinality(DOMAIN b.hosts) = MaxHosts
                  /\ \E c \in b.clients : c \notin DOMAIN b.hosts
  /\ ~b.limited => b.clients \subseteq DOMAIN b.hosts

LEMMA EmptyBucket ==
  ASSUME NEW time
  PROVE  IsBucket(NoProjection, time)
<1>1. Cardinality({}) = 0 /\ MaxHosts \in Nat
  BY FS_EmptySet, ProjectionAssumption
<1>2. ~NoProjection.limited
  BY DEF NoProjection
<1>3. ActiveBy(NoProjection.hosts, time)
  BY EmptyProjection DEF ActiveBy
<1> QED BY <1>1, <1>2, <1>3, EmptyProjection DEF IsBucket

LEMMA BucketCounts ==
  ASSUME NEW time \in Nat, NEW b, IsBucket(b, time), NEW f, IsFrame(f), time <= f.time,
         NEW said, IsSaid(said), said.clients \subseteq {f.ta, f.ra},
         NEW q, q = Accumulated(b, f, said, MaxHosts)
  PROVE  /\ IsBucket(q, f.time)
         /\ ~q.limited => ~b.limited /\ AllMet(b.hosts, f, said, MaxHosts)
<1>1. PICK h : h = b.hosts
  OBVIOUS
<1>2. /\ IsProjection(b) /\ IsHosts(h) /\ IsFiniteSet(DOMAIN h) /\ f.time \in Nat
      /\ MaxHosts \in Nat /\ Cardinality(DOMAIN h) <= MaxHosts
  BY <1>1, FS_Subset, ProjectionAssumption DEF IsBucket, IsProjection, IsFrame
<1>3. ActiveBy(h, f.time)
  <2>1. \A m \in DOMAIN h : h[m].active \in Nat /\ h[m].active <= time
    BY <1>1, <1>2 DEF IsBucket, ActiveBy, IsHosts, IsHost
  <2> QED BY <1>2, <2>1 DEF ActiveBy
<1>4. PICK sent : sent = Met(h, f.ta, f, said, MaxHosts)
  OBVIOUS
<1>5. PICK met : met = Met(sent, f.ra, f, said, MaxHosts)
  OBVIOUS
<1>6. /\ q.hosts = met /\ q.clients = b.clients \cup said.clients
      /\ q.limited = (\/ b.limited \/ Omitted(h, f.ta, said, MaxHosts)
                      \/ Omitted(sent, f.ra, said, MaxHosts))
  BY <1>1, <1>4, <1>5 DEF Accumulated
<1>7. /\ IsHosts(sent) /\ IsFiniteSet(DOMAIN sent) /\ ActiveBy(sent, f.time)
      /\ Cardinality(DOMAIN sent) <= MaxHosts /\ DOMAIN h \subseteq DOMAIN sent
      /\ Omitted(h, f.ta, said, MaxHosts) =>
           Cardinality(DOMAIN h) >= MaxHosts /\ f.ta \in said.clients \ DOMAIN h
      /\ ~Omitted(h, f.ta, said, MaxHosts) => said.clients \cap {f.ta} \subseteq DOMAIN sent
  BY <1>2, <1>3, <1>4, Meeting
<1>8. /\ IsFiniteSet(DOMAIN met) /\ ActiveBy(met, f.time)
      /\ Cardinality(DOMAIN met) <= MaxHosts /\ DOMAIN sent \subseteq DOMAIN met
      /\ Omitted(sent, f.ra, said, MaxHosts) =>
           Cardinality(DOMAIN sent) >= MaxHosts /\ f.ra \in said.clients \ DOMAIN sent
      /\ ~Omitted(sent, f.ra, said, MaxHosts) => said.clients \cap {f.ra} \subseteq DOMAIN met
  BY <1>2, <1>5, <1>7, Meeting
<1>9. IsProjection(q)
  BY <1>2, Accumulates
<1>10. \A T : T \subseteq DOMAIN met /\ Cardinality(T) >= MaxHosts =>
         Cardinality(DOMAIN met) = MaxHosts /\ T = DOMAIN met
  <2> SUFFICES ASSUME NEW T \in SUBSET DOMAIN met, Cardinality(T) >= MaxHosts
               PROVE  Cardinality(DOMAIN met) = MaxHosts /\ T = DOMAIN met
    OBVIOUS
  <2>1. /\ Cardinality(T) <= Cardinality(DOMAIN met)
        /\ Cardinality(DOMAIN met) = Cardinality(T) => T = DOMAIN met
        /\ IsFiniteSet(T)
    BY <1>8, FS_Subset
  <2>2. Cardinality(T) \in Nat /\ Cardinality(DOMAIN met) \in Nat
    BY <1>8, <2>1, FS_CardinalityType
  <2> QED BY <1>2, <1>8, <2>1, <2>2
<1>11. ASSUME q.limited
       PROVE  /\ Cardinality(DOMAIN met) = MaxHosts
              /\ \E c \in q.clients : c \notin DOMAIN met
  <2>1. CASE b.limited
    <3>1. Cardinality(DOMAIN h) = MaxHosts /\ \E c \in b.clients : c \notin DOMAIN h
      BY <1>1, <2>1 DEF IsBucket
    <3>2. DOMAIN h \subseteq DOMAIN met /\ Cardinality(DOMAIN h) >= MaxHosts
      BY <1>2, <1>7, <1>8, <3>1
    <3>3. Cardinality(DOMAIN met) = MaxHosts /\ DOMAIN h = DOMAIN met
      BY <1>10, <3>2
    <3> QED BY <1>6, <3>1, <3>3
  <2>2. CASE Omitted(h, f.ta, said, MaxHosts)
    <3>1. Cardinality(DOMAIN h) >= MaxHosts /\ f.ta \in said.clients /\ f.ta \notin DOMAIN h
      BY <1>7, <2>2
    <3>2. DOMAIN h \subseteq DOMAIN met
      BY <1>7, <1>8
    <3>3. Cardinality(DOMAIN met) = MaxHosts /\ DOMAIN h = DOMAIN met
      BY <1>10, <3>1, <3>2
    <3> QED BY <1>6, <3>1, <3>3
  <2>3. CASE Omitted(sent, f.ra, said, MaxHosts)
    <3>1. Cardinality(DOMAIN sent) >= MaxHosts /\ f.ra \in said.clients /\ f.ra \notin DOMAIN sent
      BY <1>8, <2>3
    <3>2. Cardinality(DOMAIN met) = MaxHosts /\ DOMAIN sent = DOMAIN met
      BY <1>8, <1>10, <3>1
    <3> QED BY <1>6, <3>1, <3>2
  <2> QED BY <1>6, <1>11, <2>1, <2>2, <2>3
<1>12. ASSUME ~q.limited
       PROVE  /\ ~b.limited /\ AllMet(h, f, said, MaxHosts)
              /\ q.clients \subseteq DOMAIN met
  <2>1. /\ ~b.limited /\ ~Omitted(h, f.ta, said, MaxHosts)
        /\ ~Omitted(sent, f.ra, said, MaxHosts)
    BY <1>6, <1>12
  <2>2. b.clients \subseteq DOMAIN h
    BY <1>1, <2>1 DEF IsBucket
  <2>3. said.clients \subseteq DOMAIN met
    <3>1. \A c \in said.clients : c = f.ta \/ c = f.ra
      OBVIOUS
    <3> QED BY <1>7, <1>8, <2>1, <3>1
  <2>4. AllMet(h, f, said, MaxHosts)
    BY <1>4, <2>1 DEF AllMet
  <2> QED BY <1>6, <1>7, <1>8, <2>1, <2>2, <2>3, <2>4
<1>13. IsBucket(q, f.time)
  <2>1. /\ q.limited => /\ Cardinality(DOMAIN met) = MaxHosts
                        /\ \E c \in q.clients : c \notin DOMAIN met
        /\ ~q.limited => q.clients \subseteq DOMAIN met
    BY <1>11, <1>12
  <2> QED BY <1>6, <1>8, <1>9, <2>1 DEF IsBucket
<1> QED BY <1>1, <1>12, <1>13

-----------------------------------------------------------------------------
(* One more frame counted in its second.                                   *)

\* A table with two places left leaves nobody out.
LEMMA RoomForBoth ==
  ASSUME NEW h, IsHosts(h), IsFiniteSet(DOMAIN h), NEW frame, frame.time \in Nat,
         NEW said, IsSaid(said), NEW most \in Nat, Cardinality(DOMAIN h) + 2 <= most
  PROVE  AllMet(h, frame, said, most)
<1>1. PICK sent : sent = Met(h, frame.ta, frame, said, most)
  OBVIOUS
<1>2. /\ Cardinality(DOMAIN h) \in Nat /\ Cardinality(DOMAIN sent) <= Cardinality(DOMAIN h) + 1
      /\ IsFiniteSet(DOMAIN sent)
  BY <1>1, Meeting
<1>3. Cardinality(DOMAIN sent) \in Nat
  BY <1>2, FS_CardinalityType
<1>4. ~(Cardinality(DOMAIN h) >= most) /\ ~(Cardinality(DOMAIN sent) >= most)
  BY <1>2, <1>3
<1> QED BY <1>1, <1>4 DEF AllMet, Omitted, Full

\* The seconds merged agree with one pass over the frames.
StreamMatches(some, seconds, chosen) ==
  LET whole == Passes(some, Known(some), Records(some), 2 * MaxFrames)[Len(some)]
      merged == Merged(seconds, chosen)[Len(seconds)]
  IN /\ Same(merged, whole)
     /\ (\A i \in 1..Len(seconds) : ~seconds[i].limited) /\ whole.clients \subseteq chosen
          => merged.hosts = whole.hosts

StreamsAgree(some, seconds) ==
  DiscoveredIn(some) => \A chosen : StreamMatches(some, seconds, chosen)

LEMMA DiscoveredBefore ==
  ASSUME NEW some \in Seq(Frames), NEW frame \in Frames, NEW after, after = Append(some, frame),
         DiscoveredIn(after)
  PROVE  DiscoveredIn(some)
<1>1. \A i \in DOMAIN some : i \in DOMAIN after /\ after[i] = some[i]
  BY OneMore
<1>2. DOMAIN some = 1..Len(some) /\ Len(some) \in Nat
  BY OneMore
<1> SUFFICES ASSUME NEW i \in DOMAIN some, NEW j \in DOMAIN some,
                    IsRecord(some[i]), ~IsRecord(some[j]), ~some[j].bad, j < i
             PROVE  \E k \in 1..j : IsRecord(some[k]) /\ some[k].bssid = some[i].bssid
  BY DEF DiscoveredIn
<1>3. \E k \in 1..j : IsRecord(after[k]) /\ after[k].bssid = after[i].bssid
  BY <1>1 DEF DiscoveredIn
<1>4. \A k \in 1..j : k \in DOMAIN some
  BY <1>2
<1> QED BY <1>1, <1>3, <1>4

\* Of two sequences of which one has a frame more, the projections too.
LEMMA PassesExtend ==
  ASSUME NEW some, Len(some) \in Nat, NEW after, Len(after) \in Nat,
         Len(some) + 1 <= Len(after), Len(after) <= Len(some) + 1,
         NEW known, NEW records, NEW known2, NEW records2, NEW most,
         CountAlike(some, known, records, after, known2, records2, most, Len(some))
  PROVE  Passes(after, known2, records2, most)[Len(after)]
           = Counted(Passes(some, known, records, most)[Len(some)],
                     after[Len(after)], known2, records2, most)
<1>1. PICK k : k = Len(some)
  OBVIOUS
<1>2. PICK passes : passes = Passes(after, known2, records2, most)
  OBVIOUS
<1>3. k \in Nat /\ k <= Len(some) /\ k <= Len(after) /\ Len(after) \in Nat
  BY <1>1
<1>4. \A n \in 1..Len(after) :
        passes[n] = Counted(passes[n - 1], after[n], known2, records2, most)
  BY <1>2, <1>3, PassesStep
<1>5. passes[Len(after)] = Counted(passes[k], after[Len(after)], known2, records2, most)
  <2>1. Len(after) \in 1..Len(after) /\ Len(after) - 1 = k
    BY <1>1
  <2> QED BY <1>4, <2>1
<1>6. passes[k] = Passes(some, known, records, most)[k]
  BY <1>1, <1>2, <1>3, PassesAgree DEF CountAlike
<1> QED BY <1>1, <1>2, <1>5, <1>6

\* The whole counts the last frame last.
More(some, frame) == Append(some, frame)

LEMMA LastOne ==
  ASSUME NEW some \in Seq(Frames), NEW frame \in Frames, NEW after, after = More(some, frame)
  PROVE  Last(after) = frame
<1>1. after = Append(some, frame)
  BY DEF More
<1>2. Len(after) = Len(some) + 1 /\ after[Len(some) + 1] = frame
  BY <1>1, OneMore
<1> QED BY <1>2 DEF Last

LEMMA WholeCounts ==
  ASSUME NEW some \in Seq(Frames), NEW frame \in Frames, NEW after, after = More(some, frame),
         Before(some, frame), DiscoveredIn(after),
         NEW most
  PROVE  Passes(after, Known(after), Records(after), most)[Len(after)]
           = Counted(Passes(some, Known(some), Records(some), most)[Len(some)],
                     frame, Known(after), Records(after), most)
<1>1. after = Append(some, frame)
  BY DEF More
<1>2. CountAlike(some, Known(some), Records(some), after, Known(after), Records(after), most, Len(some))
  BY <1>1, SaidStays
<1>3. Len(some) \in Nat /\ Len(after) \in Nat /\ after[Len(after)] = frame
      /\ Len(some) + 1 <= Len(after) /\ Len(after) <= Len(some) + 1
  <2>1. Len(after) = Len(some) + 1 /\ after[Len(some) + 1] = frame /\ Len(some) \in Nat
    BY <1>1, OneMore
  <2> QED BY <2>1
<1> QED BY <1>2, <1>3, PassesExtend

\* Seconds are added, the new ones but the last without a frame.
Buckets(ps, time) == \A i \in 1..Len(ps) : IsBucket(ps[i], time)
Grown(ps, qs) ==
  \A i \in 1..(Len(qs) - 1) : qs[i] = IF i <= Len(ps) THEN ps[i] ELSE NoProjection
LastBucket(ps, qs) == IF Len(qs) = Len(ps) THEN ps[Len(ps)] ELSE NoProjection

\* The bucket a frame goes into was the last that was merged.
LEMMA MergedGrows ==
  ASSUME NEW ps, NEW qs, Len(ps) \in Nat, Len(qs) \in Nat, 1 <= Len(ps), Len(ps) <= Len(qs),
         NEW time \in Nat, Buckets(ps, time), Grown(ps, qs), NEW chosen,
         NEW p, p = Merged(qs, chosen)[Len(qs) - 1],
         NEW old, old = Merged(ps, chosen)[Len(ps)],
         NEW bucket, bucket = LastBucket(ps, qs)
  PROVE  /\ IsProjection(p) /\ ActiveBy(p.hosts, time) /\ IsBucket(bucket, time)
         /\ old = Absorbed(p, bucket, chosen)
         /\ Merged(qs, chosen)[Len(qs)] = Absorbed(p, qs[Len(qs)], chosen)
<1>1. PICK a : a = Merged(ps, chosen)
  OBVIOUS
<1>2. PICK b : b = Merged(qs, chosen)
  OBVIOUS
<1>3. PICK l \in Nat, k \in Nat : l = Len(ps) /\ k = Len(qs)
  OBVIOUS
<1>4. \A i \in 1..l : IsProjection(ps[i]) /\ ActiveBy(ps[i].hosts, time) /\ IsBucket(ps[i], time)
  BY <1>3 DEF Buckets, IsBucket
<1>5. \A n \in 0..l : IsProjection(a[n]) /\ ActiveBy(a[n].hosts, time)
  BY <1>1, <1>3, <1>4, MergedAre
<1>6. \A n \in 1..l : a[n] = Absorbed(a[n - 1], ps[n], chosen)
  BY <1>1, <1>3, MergedStep
<1>7. b[k] = Absorbed(b[k - 1], qs[k], chosen)
  <2>1. \A n \in 1..k : b[n] = Absorbed(b[n - 1], qs[n], chosen)
    BY <1>2, <1>3, MergedStep
  <2>2. k \in 1..k
    BY <1>3
  <2> QED BY <2>1, <2>2
<1>8. CASE k = l
  <2>1. \A i \in 1..(l - 1) : qs[i] = ps[i]
    BY <1>3, <1>8 DEF Grown
  <2>2. PICK j : j = l - 1
    OBVIOUS
  <2>3. j \in Nat /\ j <= Len(ps) /\ j <= Len(qs) /\ \A i \in 1..j : qs[i] = ps[i]
    BY <1>3, <1>8, <2>1, <2>2
  <2>4. b[j] = a[j]
    BY <1>1, <1>2, <2>3, MergedAgree
  <2>5. a[l] = Absorbed(a[j], ps[l], chosen)
    <3>1. l \in 1..l
      BY <1>3
    <3> QED BY <1>6, <2>2, <3>1
  <2>6. IsProjection(a[j]) /\ ActiveBy(a[j].hosts, time) /\ IsBucket(ps[l], time)
    <3>1. j \in 0..l /\ l \in 1..l
      BY <1>3, <2>2
    <3> QED BY <1>4, <1>5, <3>1
  <2>7. p = a[j] /\ old = a[l] /\ bucket = ps[l]
    BY <1>1, <1>2, <1>3, <1>8, <2>2, <2>4 DEF LastBucket
  <2> QED BY <1>2, <1>3, <1>7, <1>8, <2>2, <2>4, <2>5, <2>6, <2>7
<1>9. CASE k # l
  <2>1. \A i \in 1..l : qs[i] = ps[i]
    BY <1>3, <1>9 DEF Grown
  <2>2. PICK j : j = k - 1
    OBVIOUS
  <2>3. b[l] = a[l]
    BY <1>1, <1>2, <1>3, <2>1, MergedAgree
  <2>4. IsProjection(a[l]) /\ ActiveBy(a[l].hosts, time)
    <3>1. l \in 0..l
      BY <1>3
    <3> QED BY <1>5, <3>1
  <2>5. b[j] = b[l]
    <3>1. j \in Nat /\ l <= j /\ j <= Len(qs)
      BY <1>3, <1>9, <2>2
    <3>2. \A i \in (l + 1)..j : qs[i] = NoProjection
      BY <1>3, <2>2 DEF Grown
    <3>3. IsProjection(Merged(qs, chosen)[l])
      BY <1>2, <2>3, <2>4
    <3>4. Merged(qs, chosen)[j] = Merged(qs, chosen)[l]
      BY <1>3, <3>1, <3>2, <3>3, MergedPads
    <3> QED BY <1>2, <3>4
  <2>6. bucket = NoProjection /\ IsBucket(bucket, time)
    BY <1>3, <1>9, EmptyBucket DEF LastBucket
  <2>7. p = a[l] /\ old = a[l]
    BY <1>1, <1>2, <1>3, <2>2, <2>3, <2>5
  <2>8. old = Absorbed(p, bucket, chosen)
    BY <2>4, <2>6, <2>7, AbsorbsNothing
  <2> QED BY <1>2, <1>3, <1>7, <2>2, <2>3, <2>4, <2>5, <2>6, <2>7, <2>8
<1> QED BY <1>8, <1>9

\* The buckets keep agreeing with one pass when a frame is counted into the last.
LEMMA StreamGoes ==
  ASSUME NEW some \in Seq(Frames), NEW frame \in Frames, NEW after, after = More(some, frame),
         Before(some, frame), Len(some) + 1 <= MaxFrames,
         NEW ps, NEW qs, Len(ps) \in Nat, Len(qs) \in Nat, 1 <= Len(ps), Len(ps) <= Len(qs),
         NEW time \in Nat, time <= frame.time, Buckets(ps, time), Grown(ps, qs),
         qs[Len(qs)] = Counted(LastBucket(ps, qs), frame, Known(after), Records(after), MaxHosts),
         StreamsAgree(some, ps)
  PROVE  StreamsAgree(after, qs)
<1> SUFFICES ASSUME DiscoveredIn(after), NEW chosen
             PROVE  StreamMatches(after, qs, chosen)
  BY DEF StreamsAgree
<1> DEFINE all == 2 * MaxFrames
<1>1. after = Append(some, frame)
  BY DEF More
<1>2. DiscoveredIn(some)
  BY <1>1, DiscoveredBefore
<1>3. IsFrame(frame) /\ frame.time \in Nat
  BY FrameIs DEF IsFrame
<1>4. MaxHosts \in Nat /\ all \in Nat
  BY ProjectionAssumption
<1> HIDE DEF all
<1>5. PICK said : said = Said(frame, Known(after), Records(after))
  OBVIOUS
<1>6. IsSaid(said) /\ said.clients \subseteq {frame.ta, frame.ra}
  BY <1>3, <1>5, SaidIs
<1>7. PICK before : before = Passes(some, Known(some), Records(some), all)[Len(some)]
  OBVIOUS
<1>8. PICK whole : whole = Accumulated(before, frame, said, all)
  OBVIOUS
<1>9. Passes(after, Known(after), Records(after), all)[Len(after)] = whole
  BY <1>2, <1>5, <1>7, <1>8, WholeCounts DEF Counted
<1>10. IsProjection(before) /\ Cardinality(DOMAIN before.hosts) + 2 <= all
  <2>1. PICK n \in Nat : n = Len(some)
    BY <1>1, OneMore
  <2>2. n \in 0..Len(some)
    BY <2>1
  <2>3. PICK passes : passes = Passes(some, Known(some), Records(some), all)
    OBVIOUS
  <2>4. /\ IsProjection(passes[n]) /\ Cardinality(DOMAIN passes[n].hosts) \in Nat
        /\ Cardinality(DOMAIN passes[n].hosts) <= 2 * n
    BY <1>4, <2>2, <2>3, PassesAre
  <2>5. passes[n] = before /\ n + 1 <= MaxFrames /\ MaxFrames \in Nat
    BY <1>7, <2>1, <2>3, ProjectionAssumption
  <2> QED BY <2>1, <2>4, <2>5 DEF all
<1>11. PICK bucket : bucket = LastBucket(ps, qs)
  OBVIOUS
<1>12. PICK p : p = Merged(qs, chosen)[Len(qs) - 1]
  OBVIOUS
<1>13. PICK old : old = Merged(ps, chosen)[Len(ps)]
  OBVIOUS
<1>14. /\ IsProjection(p) /\ ActiveBy(p.hosts, time) /\ IsBucket(bucket, time)
       /\ old = Absorbed(p, bucket, chosen)
       /\ Merged(qs, chosen)[Len(qs)] = Absorbed(p, qs[Len(qs)], chosen)
  BY <1>11, <1>12, <1>13, MergedGrows
<1>15. PICK last : last = Accumulated(bucket, frame, said, MaxHosts)
  OBVIOUS
<1>16. qs[Len(qs)] = last
  BY <1>5, <1>11, <1>15 DEF Counted
<1>17. PICK new : new = Absorbed(p, last, chosen)
  OBVIOUS
<1>18. PICK counted : counted = Accumulated(old, frame, said, all)
  OBVIOUS
<1>19. IsProjection(bucket)
  BY <1>14 DEF IsBucket
<1>20. PICK joined : joined = JoinedHosts(p.hosts, bucket.hosts, chosen)
  OBVIOUS
<1>21. old.hosts = joined
  BY <1>14, <1>20 DEF Absorbed, JoinedHosts
<1>22. /\ Same(new, counted)
       /\ ActiveBy(p.hosts, frame.time) /\ ActiveBy(bucket.hosts, frame.time)
            /\ said.clients \subseteq chosen
            /\ AllMet(bucket.hosts, frame, said, MaxHosts)
            /\ AllMet(joined, frame, said, all)
          => new.hosts = counted.hosts
  BY <1>3, <1>4, <1>6, <1>14, <1>15, <1>17, <1>18, <1>19, <1>20, AccumulatesLater
<1>23. /\ Same(old, before)
       /\ (\A i \in 1..Len(ps) : ~ps[i].limited) /\ before.clients \subseteq chosen
            => old.hosts = before.hosts
  BY <1>2, <1>7, <1>13 DEF StreamsAgree, StreamMatches, all
<1>24. /\ Same(counted, whole)
       /\ old.hosts = before.hosts => counted.hosts = whole.hosts
  BY <1>8, <1>18, <1>23, CountedSame
<1>25. Same(new, whole)
  BY <1>22, <1>24 DEF Same
<1>26. ASSUME \A i \in 1..Len(qs) : ~qs[i].limited, whole.clients \subseteq chosen
       PROVE  new.hosts = whole.hosts
  <2>1. whole.clients = before.clients \cup said.clients
    BY <1>8 DEF Accumulated
  <2>2. ~bucket.limited /\ AllMet(bucket.hosts, frame, said, MaxHosts)
    <3>1. ~last.limited
      <4>1. Len(qs) \in 1..Len(qs)
        OBVIOUS
      <4> QED BY <1>16, <1>26, <4>1
    <3> QED BY <1>3, <1>6, <1>14, <1>15, <3>1, BucketCounts
  <2>3. \A i \in 1..Len(ps) : ~ps[i].limited
    <3> SUFFICES ASSUME NEW i \in 1..Len(ps) PROVE ~ps[i].limited
      OBVIOUS
    <3>1. CASE i = Len(qs)
      <4>1. Len(ps) = Len(qs)
        BY <3>1
      <4>2. bucket = ps[i]
        BY <1>11, <3>1, <4>1 DEF LastBucket
      <4> QED BY <2>2, <4>2
    <3>2. CASE i # Len(qs)
      <4>1. i \in 1..(Len(qs) - 1) /\ i \in 1..Len(qs) /\ i <= Len(ps)
        BY <3>2
      <4>2. qs[i] = ps[i]
        BY <4>1 DEF Grown
      <4> QED BY <1>26, <4>1, <4>2
    <3> QED BY <3>1, <3>2
  <2>4. old.hosts = before.hosts
    BY <1>23, <1>26, <2>1, <2>3
  <2>5. AllMet(joined, frame, said, all)
    <3>1. PICK h : h = before.hosts
      OBVIOUS
    <3>2. IsHosts(h) /\ IsFiniteSet(DOMAIN h) /\ Cardinality(DOMAIN h) + 2 <= all
      BY <1>10, <3>1, FS_Subset DEF IsProjection
    <3>3. AllMet(h, frame, said, all)
      BY <1>3, <1>4, <1>6, <3>2, RoomForBoth
    <3> QED BY <1>21, <2>4, <3>1, <3>3
  <2>6. ActiveBy(p.hosts, frame.time) /\ ActiveBy(bucket.hosts, frame.time)
    <3>1. ASSUME NEW h, IsHosts(h), ActiveBy(h, time) PROVE ActiveBy(h, frame.time)
      <4>1. \A m \in DOMAIN h : h[m].active \in Nat /\ h[m].active <= time
        BY <3>1 DEF IsHosts, IsHost, ActiveBy
      <4> QED BY <1>3, <4>1 DEF ActiveBy
    <3>2. IsHosts(p.hosts) /\ IsHosts(bucket.hosts) /\ ActiveBy(bucket.hosts, time)
      BY <1>14, <1>19 DEF IsProjection, IsBucket
    <3> QED BY <1>14, <3>1, <3>2
  <2>7. new.hosts = counted.hosts
    BY <1>22, <1>26, <2>1, <2>2, <2>5, <2>6
  <2> QED BY <1>24, <2>4, <2>7
<1>27. new = Merged(qs, chosen)[Len(qs)]
  BY <1>14, <1>16, <1>17
<1> QED BY <1>9, <1>25, <1>26, <1>27 DEF StreamMatches, all

-----------------------------------------------------------------------------
(* The seconds of the stream.                                              *)

LEMMA SecondIs ==
  ASSUME NEW i \in Nat, NEW j \in Nat
  PROVE  /\ Second(i) \in Nat /\ Second(j) \in Nat
         /\ i <= j => Second(i) <= Second(j)
<1>1. Ticks \in Nat \ {0}
  BY ProjectionAssumption
<1>2. \A n \in Nat : n \div Ticks \in Nat /\ (n \div Ticks) * Ticks <= n
                       /\ n < (n \div Ticks) * Ticks + Ticks
  BY <1>1
<1>3. PICK a \in Nat : a = i \div Ticks
  BY <1>2
<1>4. PICK b \in Nat : b = j \div Ticks
  BY <1>2
<1>5. a * Ticks <= i /\ j < b * Ticks + Ticks
  BY <1>2, <1>3, <1>4
<1>6. ASSUME i <= j, b < a PROVE FALSE
  <2>1. (b + 1) * Ticks <= a * Ticks
    BY <1>1, <1>6
  <2>2. (b + 1) * Ticks = b * Ticks + Ticks
    BY <1>1
  <2>3. a * Ticks \in Nat /\ b * Ticks \in Nat
    BY <1>1
  <2> QED BY <1>1, <1>5, <1>6, <2>1, <2>2, <2>3
<1> QED BY <1>3, <1>4, <1>6 DEF Second

\* BucketSeq of any buckets.
SecondsOf(bs, last) ==
  [i \in 1..(last + 1) |-> IF i - 1 \in DOMAIN bs THEN bs[i - 1] ELSE NoProjection]

LEMMA SecondsAre ==
  ASSUME NEW last \in Nat, NEW bs, NEW time,
         \A s \in DOMAIN bs : s \in 0..last /\ IsBucket(bs[s], time),
         NEW ps, ps = SecondsOf(bs, last)
  PROVE  /\ Len(ps) \in Nat /\ Len(ps) = last + 1 /\ Buckets(ps, time)
         /\ \A i \in 1..(last + 1) :
              ps[i] = IF i - 1 \in DOMAIN bs THEN bs[i - 1] ELSE NoProjection
<1>1. /\ DOMAIN ps = 1..(last + 1) /\ ps = [i \in 1..(last + 1) |-> ps[i]]
      /\ \A i \in 1..(last + 1) :
           ps[i] = IF i - 1 \in DOMAIN bs THEN bs[i - 1] ELSE NoProjection
  BY DEF SecondsOf
<1>2. Len(ps) = last + 1
  <2> DEFINE S == {ps[i] : i \in 1..(last + 1)}
  <2>1. ps \in [1..(last + 1) -> S]
    BY <1>1
  <2> HIDE DEF S
  <2> QED BY <2>1
<1>3. Buckets(ps, time)
  BY <1>1, <1>2, EmptyBucket DEF Buckets
<1> QED BY <1>1, <1>2, <1>3

BucketsAre(bs, last, time) == \A s \in DOMAIN bs : s \in 0..last /\ IsBucket(bs[s], time)

\* The seconds that are listed are those merged.
Listed(ps, time) ==
  /\ Len(ps) \in Nat /\ Buckets(ps, time)
  /\ \A p : p \in ToSet(ps) <=> \E i \in 1..Len(ps) : p = ps[i]

LEMMA SecondsListed ==
  ASSUME NEW last \in Nat, NEW bs, NEW time, BucketsAre(bs, last, time),
         NEW ps, ps = SecondsOf(bs, last)
  PROVE  Listed(ps, time)
<1>1. Len(ps) \in Nat /\ Len(ps) = last + 1 /\ Buckets(ps, time)
  BY SecondsAre DEF BucketsAre
<1>2. DOMAIN ps = 1..(last + 1)
  BY DEF SecondsOf
<1> HIDE DEF SecondsOf
<1>3. \A p : p \in ToSet(ps) <=> \E i \in DOMAIN ps : p = ps[i]
  BY DEF ToSet
<1> QED BY <1>1, <1>2, <1>3 DEF Listed

BucketOf(bs, second) == IF second \in DOMAIN bs THEN bs[second] ELSE NoProjection
WithBucket(bs, second, bucket) ==
  [s \in DOMAIN bs \cup {second} |-> IF s = second THEN bucket ELSE bs[s]]

\* A frame is counted into the bucket of its second, the last or a later one.
LEMMA SecondsGrow ==
  ASSUME NEW last \in Nat, NEW new \in Nat, last <= new, NEW bs, NEW time,
         BucketsAre(bs, last, time),
         NEW bucket, bucket = BucketOf(bs, new),
         NEW counted, NEW bs2,
         bs2 = WithBucket(bs, new, counted),
         NEW ps, ps = SecondsOf(bs, last), NEW qs, qs = SecondsOf(bs2, new)
  PROVE  /\ Len(ps) \in Nat /\ Len(qs) \in Nat /\ 1 <= Len(ps) /\ Len(ps) <= Len(qs)
         /\ Buckets(ps, time) /\ Grown(ps, qs)
         /\ LastBucket(ps, qs) = bucket /\ qs[Len(qs)] = counted
<1>1. /\ Len(ps) = last + 1 /\ Buckets(ps, time)
      /\ \A i \in 1..(last + 1) :
           ps[i] = IF i - 1 \in DOMAIN bs THEN bs[i - 1] ELSE NoProjection
  BY SecondsAre DEF BucketsAre
<1>0. bs2 = [s \in DOMAIN bs \cup {new} |-> IF s = new THEN counted ELSE bs[s]]
  BY DEF WithBucket
<1>2. /\ DOMAIN qs = 1..(new + 1) /\ qs = [i \in 1..(new + 1) |-> qs[i]]
      /\ \A i \in 1..(new + 1) :
           qs[i] = IF i - 1 \in DOMAIN bs2 THEN bs2[i - 1] ELSE NoProjection
  BY DEF SecondsOf
<1>3. Len(qs) = new + 1
  <2> DEFINE S == {qs[i] : i \in 1..(new + 1)}
  <2>1. qs \in [1..(new + 1) -> S]
    BY <1>2
  <2> HIDE DEF S
  <2> QED BY <2>1
<1>4. Grown(ps, qs)
  <2> SUFFICES ASSUME NEW i \in 1..new
               PROVE  qs[i] = IF i <= last + 1 THEN ps[i] ELSE NoProjection
    <3>1. Len(qs) - 1 = new /\ Len(ps) = last + 1
      BY <1>1, <1>3
    <3>2. ASSUME \A i \in 1..new : qs[i] = IF i <= last + 1 THEN ps[i] ELSE NoProjection
          PROVE  Grown(ps, qs)
      <4> SUFFICES ASSUME NEW i \in 1..(Len(qs) - 1)
                   PROVE  qs[i] = IF i <= Len(ps) THEN ps[i] ELSE NoProjection
        BY DEF Grown
      <4>1. i \in 1..new
        BY <3>1
      <4>2. qs[i] = IF i <= last + 1 THEN ps[i] ELSE NoProjection
        BY <3>2, <4>1
      <4> QED BY <3>1, <4>2
    <3> QED BY <3>2
  <2>1. /\ i \in 1..(new + 1) /\ i - 1 # new /\ i - 1 \in Nat
        /\ i - 1 \in DOMAIN bs2 <=> i - 1 \in DOMAIN bs
    BY <1>0
  <2>2. i - 1 \in DOMAIN bs => bs2[i - 1] = bs[i - 1]
    BY <1>0, <2>1
  <2>3. CASE i <= last + 1
    <3>1. i \in 1..(last + 1)
      BY <2>3
    <3> QED BY <1>1, <1>2, <2>1, <2>2, <2>3, <3>1
  <2>4. CASE ~(i <= last + 1)
    <3>1. i - 1 \notin DOMAIN bs
      BY <2>4 DEF BucketsAre
    <3> QED BY <1>2, <2>1, <2>4, <3>1
  <2> QED BY <2>3, <2>4
<1>5. LastBucket(ps, qs) = bucket
  <2>0. bucket = IF new \in DOMAIN bs THEN bs[new] ELSE NoProjection
    BY DEF BucketOf
  <2>1. CASE new = last
    <3>1. Len(qs) = Len(ps) /\ Len(ps) = last + 1
      BY <1>1, <1>3, <2>1
    <3>2. last + 1 \in 1..(last + 1) /\ (last + 1) - 1 = last
      OBVIOUS
    <3>3. ps[last + 1] = IF last \in DOMAIN bs THEN bs[last] ELSE NoProjection
      BY <1>1, <3>2
    <3> QED BY <2>0, <2>1, <3>1, <3>3 DEF LastBucket
  <2>2. CASE new # last
    <3>1. Len(qs) # Len(ps) /\ new \notin DOMAIN bs
      BY <1>1, <1>3, <2>2 DEF BucketsAre
    <3> QED BY <2>0, <3>1 DEF LastBucket
  <2> QED BY <2>1, <2>2
<1>6. qs[Len(qs)] = counted
  <2>1. new + 1 \in 1..(new + 1) /\ (new + 1) - 1 = new
    OBVIOUS
  <2>2. new \in DOMAIN bs2 /\ bs2[new] = counted
    BY <1>0
  <2> QED BY <1>2, <1>3, <2>1, <2>2
<1>7. Len(ps) \in Nat /\ Len(qs) \in Nat /\ 1 <= Len(ps) /\ Len(ps) <= Len(qs)
  BY <1>1, <1>3
<1> QED BY <1>1, <1>4, <1>5, <1>6, <1>7

-----------------------------------------------------------------------------
(* The invariant of the stream.                                            *)

\* The frames are in order of time, and every second's bucket is sound.
FrameInv ==
  /\ frames \in Seq(Frames) /\ Rising(frames) /\ Len(frames) <= MaxFrames
  /\ \A s \in DOMAIN buckets : s \in 0..Second(Now) /\ IsBucket(buckets[s], Now)

\* Strengthened for every choice of the hosts listed.
StreamInv == StreamsAgree(frames, SecondsOf(buckets, Second(Now)))

\* The target of an analyzer does not change.
LEMMA TargetStays ==
  ASSUME target' = target
  PROVE  \A some, seconds : StreamsAgree(some, seconds) => StreamsAgree(some, seconds)'
<1>1. \A f, known, records : Said(f, known, records)' = Said(f, known, records)
  BY DEF Said, InScope, MatchesPrimary
<1>2. \A p, f, known, records, most :
        Counted(p, f, known, records, most)' = Counted(p, f, known, records, most)
  BY <1>1 DEF Counted
<1>3. \A some, known, records, most :
        Passes(some, known, records, most)' = Passes(some, known, records, most)
  BY <1>2 DEF Passes
<1> QED BY <1>3 DEF StreamsAgree, StreamMatches

LEMMA NowIs ==
  ASSUME FrameInv
  PROVE  /\ Now \in Nat /\ Second(Now) \in Nat
         /\ \A i \in DOMAIN frames : frames[i].time \in Nat /\ frames[i].time <= Now
         /\ frames = << >> => Now = 0
<1>1. CASE frames = << >>
  <2>1. Now = 0 /\ DOMAIN frames = {}
    BY <1>1 DEF Now
  <2> QED BY <1>1, <2>1, SecondIs
<1>2. CASE frames # << >>
  <2>1. frames \in Seq(Frames) /\ Rising(frames)
    BY DEF FrameInv
  <2>2. PICK n \in Nat : n = Len(frames)
    BY <2>1
  <2>3. n \in DOMAIN frames /\ DOMAIN frames = 1..n
    BY <1>2, <2>1, <2>2
  <2>4. Now = frames[n].time
    BY <1>2, <2>2 DEF Now, Last
  <2>5. \A i \in DOMAIN frames : frames[i].time \in Nat
    <3>1. \A i \in DOMAIN frames : frames[i] \in Frames
      BY <2>1
    <3> QED BY <3>1, FrameIs DEF IsFrame
  <2>6. \A i \in DOMAIN frames : frames[i].time <= Now
    <3> SUFFICES ASSUME NEW i \in DOMAIN frames PROVE frames[i].time <= Now
      OBVIOUS
    <3>1. i = n \/ i < n
      BY <2>3
    <3>2. i < n => frames[i].time < frames[n].time
      BY <2>1, <2>3 DEF Rising
    <3>3. frames[i].time \in Nat /\ frames[n].time \in Nat
      BY <2>3, <2>5
    <3> QED BY <2>4, <3>1, <3>2, <3>3
  <2>7. Now \in Nat
    BY <2>3, <2>4, <2>5
  <2> QED BY <1>2, <2>5, <2>6, <2>7, SecondIs
<1> QED BY <1>1, <1>2

LEMMA BucketLater ==
  ASSUME NEW time \in Nat, NEW later \in Nat, time <= later, NEW b, IsBucket(b, time)
  PROVE  IsBucket(b, later)
<1>1. \A m \in DOMAIN b.hosts : b.hosts[m].active \in Nat /\ b.hosts[m].active <= time
  BY DEF IsBucket, IsProjection, IsHosts, IsHost, ActiveBy
<1>2. ActiveBy(b.hosts, later)
  BY <1>1 DEF ActiveBy
<1> QED BY <1>2 DEF IsBucket

LEMMA FramesStart == ProjectionInit => FrameInv /\ StreamInv
<1> SUFFICES ASSUME ProjectionInit PROVE FrameInv /\ StreamInv
  OBVIOUS
<1>1. frames = << >> /\ buckets = << >> /\ DOMAIN buckets = {} /\ Len(frames) = 0
  BY DEF ProjectionInit
<1>2. FrameInv
  BY <1>1, ProjectionAssumption DEF FrameInv, Rising
<1>3. ASSUME NEW chosen PROVE StreamMatches(frames, SecondsOf(buckets, Second(Now)), chosen)
  <2>1. PICK ps : ps = SecondsOf(buckets, Second(Now))
    OBVIOUS
  <2>2. PICK last \in Nat : last = Second(Now)
    BY <1>2, NowIs
  <2>3. Len(ps) \in Nat /\ Len(ps) = last + 1 /\ \A i \in 1..(last + 1) : ps[i] = NoProjection
    BY <1>1, <2>1, <2>2, SecondsAre
  <2>4. PICK n \in Nat : n = Len(ps)
    BY <2>3
  <2>5. Merged(ps, chosen)[0] = NoProjection
    BY <2>4, MergedStep
  <2>6. Merged(ps, chosen)[n] = Merged(ps, chosen)[0]
    <3>1. \A i \in (0 + 1)..n : ps[i] = NoProjection
      BY <2>3, <2>4
    <3>2. IsProjection(Merged(ps, chosen)[0])
      BY <2>5, EmptyProjection
    <3>3. n \in Nat /\ 0 \in Nat /\ 0 <= n /\ n <= Len(ps) /\ Len(ps) \in Nat
      BY <2>4
    <3> QED BY <3>1, <3>2, <3>3, MergedPads
  <2>7. PICK passes : passes = Passes(frames, Known(frames), Records(frames), 2 * MaxFrames)
    OBVIOUS
  <2>8. passes[Len(frames)] = NoProjection
    <3>1. Len(frames) \in Nat
      BY <1>1
    <3> QED BY <1>1, <2>7, <3>1, PassesStep
  <2> QED BY <2>1, <2>4, <2>5, <2>6, <2>7, <2>8 DEF StreamMatches, Same
<1>4. StreamInv
  BY <1>3 DEF StreamInv, StreamsAgree
<1> QED BY <1>2, <1>4

LEMMA FramesStep == FrameInv /\ StreamInv /\ [ProjectionNext]_projectionVars => FrameInv' /\ StreamInv'
<1> SUFFICES ASSUME FrameInv, StreamInv, [ProjectionNext]_projectionVars
             PROVE  FrameInv' /\ StreamInv'
  OBVIOUS
<1>1. CASE UNCHANGED projectionVars
  <2>1. frames' = frames /\ buckets' = buckets /\ target' = target
    BY <1>1 DEF projectionVars
  <2>2. Now' = Now
    BY <2>1 DEF Now
  <2>3. Second(Now)' = Second(Now)
    BY <2>2 DEF Second
  <2>4. FrameInv'
    BY <2>1, <2>2, <2>3 DEF FrameInv
  <2>5. StreamsAgree(frames, SecondsOf(buckets, Second(Now)))
    BY DEF StreamInv
  <2>6. StreamInv'
    BY <2>1, <2>3, <2>5, TargetStays DEF StreamInv
  <2> QED BY <2>4, <2>6
<1>2. CASE ProjectionNext
  <2>1. PICK shape \in Shapes, time \in (IF frames = << >> THEN 0 ELSE Now + 1)..MaxTime :
          Ingest(Captured(shape, time))
    BY <1>2 DEF ProjectionNext
  <2>2. PICK frame : frame = Captured(shape, time)
    OBVIOUS
  <2>3. time \in 0..MaxTime /\ Now <= time /\ (frames # << >> => Now < time)
    BY <2>1, NowIs, ProjectionAssumption
  <2>4. frame \in Frames /\ frame.time = time /\ IsFrame(frame)
    <3>1. frame \in Frames
      BY <2>2, <2>3 DEF Frames
    <3> QED BY <2>2, <3>1, FrameIs DEF Captured
  <2>5. PICK after : after = More(frames, frame)
    OBVIOUS
  <2>6. after = Append(frames, frame)
    BY <2>5 DEF More
  <2>7. PICK new : new = Second(frame.time)
    OBVIOUS
  <2>8. PICK bucket : bucket = IF new \in DOMAIN buckets THEN buckets[new] ELSE NoProjection
    OBVIOUS
  <2>9. PICK counted : counted = Counted(bucket, frame, Known(after), Records(after), MaxHosts)
    OBVIOUS
  <2>10. /\ frames' = after /\ target' = target
         /\ buckets' = [s \in DOMAIN buckets \cup {new} |-> IF s = new THEN counted ELSE buckets[s]]
    BY <2>1, <2>2, <2>6, <2>7, <2>8, <2>9 DEF Ingest
  <2>11. /\ Now \in Nat /\ Second(Now) \in Nat /\ frame.time \in Nat /\ Now <= frame.time
         /\ new \in Nat /\ Second(Now) <= new
    BY <2>3, <2>4, <2>7, NowIs, SecondIs DEF IsFrame
  <2>12. Before(frames, frame)
    <3>1. \A i \in DOMAIN frames : frames[i].time \in Nat /\ frames[i].time <= Now
      BY NowIs
    <3>2. \A i \in DOMAIN frames : frames # << >>
      OBVIOUS
    <3> QED BY <2>3, <2>4, <2>11, <3>1, <3>2 DEF Before
  <2>13. frames \in Seq(Frames) /\ Len(frames) \in Nat /\ Len(frames) + 1 <= MaxFrames
    BY <1>2, ProjectionAssumption DEF ProjectionNext, FrameInv
  <2>14. \A s \in DOMAIN buckets : s \in 0..Second(Now) /\ IsBucket(buckets[s], Now)
    BY DEF FrameInv
  <2>15. IsBucket(bucket, Now)
    BY <2>8, <2>14, EmptyBucket
  <2>16. IsBucket(counted, frame.time)
    <3>1. PICK said : said = Said(frame, Known(after), Records(after))
      OBVIOUS
    <3>2. IsSaid(said) /\ said.clients \subseteq {frame.ta, frame.ra}
      BY <2>4, <3>1, SaidIs
    <3>3. counted = Accumulated(bucket, frame, said, MaxHosts)
      BY <2>9, <3>1 DEF Counted
    <3>4. PICK instant : instant = Now
      OBVIOUS
    <3>5. instant \in Nat /\ instant <= frame.time /\ IsBucket(bucket, instant) /\ IsFrame(frame)
      BY <2>4, <2>11, <2>15, <3>4
    <3> QED BY <3>2, <3>3, <3>5, BucketCounts
  <2>17. Now' = frame.time
    <3>1. /\ Last(after) = frame /\ Len(frames) + 1 \in DOMAIN after
      <4>1. DOMAIN after = 1..(Len(frames) + 1)
        BY <2>4, <2>6, <2>13, OneMore
      <4>2. Last(after) = frame
        BY <2>4, <2>5, <2>13, LastOne
      <4> QED BY <2>13, <4>1, <4>2
    <3>2. DOMAIN << >> = {}
      OBVIOUS
    <3>3. after # << >>
      BY <3>1, <3>2, Zenon
    <3> QED BY <2>10, <3>1, <3>3 DEF Now
  <2>18. Second(Now)' = new
    BY <2>7, <2>17 DEF Second
  <2>19. FrameInv'
    <3>1. after \in Seq(Frames) /\ Len(after) <= MaxFrames
      BY <2>4, <2>6, <2>13, OneMore
    <3>2. Rising(after)
      <4> SUFFICES ASSUME NEW i \in DOMAIN after, NEW j \in DOMAIN after, i < j
                   PROVE  after[i].time < after[j].time
        BY DEF Rising
      <4>1. /\ DOMAIN after = 1..(Len(frames) + 1) /\ DOMAIN frames = 1..Len(frames)
            /\ after[Len(frames) + 1] = frame
            /\ \A n \in 1..Len(frames) : after[n] = frames[n]
        BY <2>4, <2>6, <2>13, OneMore
      <4>2. i \in DOMAIN frames /\ after[i] = frames[i]
        BY <2>13, <4>1
      <4>3. CASE j \in DOMAIN frames
        <5>1. after[j] = frames[j]
          BY <4>1, <4>3
        <5> QED BY <4>2, <4>3, <5>1 DEF FrameInv, Rising
      <4>4. CASE j \notin DOMAIN frames
        <5>1. after[j] = frame
          BY <2>13, <4>1, <4>4
        <5> QED BY <2>12, <4>2, <5>1 DEF Before
      <4> QED BY <4>3, <4>4
    <3>3. \A s \in DOMAIN buckets' : s \in 0..new /\ IsBucket(buckets'[s], frame.time)
      <4> SUFFICES ASSUME NEW s \in DOMAIN buckets'
                   PROVE  s \in 0..new /\ IsBucket(buckets'[s], frame.time)
        OBVIOUS
      <4>1. CASE s = new
        BY <2>10, <2>11, <2>16, <4>1
      <4>2. CASE s # new
        <5>1. s \in DOMAIN buckets /\ buckets'[s] = buckets[s]
          BY <2>10, <4>2
        <5>2. s \in 0..Second(Now) /\ IsBucket(buckets[s], Now)
          BY <2>14, <5>1
        <5> QED BY <2>11, <5>1, <5>2, BucketLater
      <4> QED BY <4>1, <4>2
    <3> QED BY <2>10, <2>17, <2>18, <3>1, <3>2, <3>3 DEF FrameInv
  <2>20. StreamInv'
    <3>1. PICK ps : ps = SecondsOf(buckets, Second(Now))
      OBVIOUS
    <3>2. PICK qs : qs = SecondsOf(buckets', new)
      OBVIOUS
    <3>3. /\ Len(ps) \in Nat /\ Len(qs) \in Nat /\ 1 <= Len(ps) /\ Len(ps) <= Len(qs)
          /\ Buckets(ps, Now) /\ Grown(ps, qs)
          /\ LastBucket(ps, qs) = bucket /\ qs[Len(qs)] = counted
      <4>1. PICK last, instant, bs, bs2 :
              last = Second(Now) /\ instant = Now /\ bs = buckets /\ bs2 = buckets'
        OBVIOUS
      <4>2. /\ last \in Nat /\ new \in Nat /\ last <= new
            /\ BucketsAre(bs, last, instant)
            /\ bucket = BucketOf(bs, new)
            /\ bs2 = WithBucket(bs, new, counted)
            /\ ps = SecondsOf(bs, last) /\ qs = SecondsOf(bs2, new)
        BY <2>8, <2>10, <2>11, <2>14, <3>1, <3>2, <4>1 DEF WithBucket, BucketOf, BucketsAre
      <4>3. /\ Len(ps) \in Nat /\ Len(qs) \in Nat /\ 1 <= Len(ps) /\ Len(ps) <= Len(qs)
            /\ Buckets(ps, instant) /\ Grown(ps, qs)
            /\ LastBucket(ps, qs) = bucket /\ qs[Len(qs)] = counted
        BY <4>2, SecondsGrow
      <4> QED BY <4>1, <4>3
    <3>4. qs[Len(qs)] = Counted(LastBucket(ps, qs), frame, Known(after), Records(after), MaxHosts)
      BY <2>9, <3>3
    <3>5. StreamsAgree(frames, ps)
      BY <3>1 DEF StreamInv
    <3>6. StreamsAgree(after, qs)
      <4>1. PICK instant : instant = Now
        OBVIOUS
      <4> QED BY <2>4, <2>5, <2>11, <2>12, <2>13, <3>3, <3>4, <3>5, <4>1, StreamGoes
    <3>7. StreamsAgree(after, qs)'
      BY <2>10, <3>6, TargetStays
    <3> QED BY <2>10, <2>18, <3>2, <3>7 DEF StreamInv
  <2> QED BY <2>19, <2>20
<1> QED BY <1>1, <1>2

-----------------------------------------------------------------------------
(* The hosts selected.                                                     *)

LEMMA GreatestOf ==
  ASSUME NEW S \in SUBSET Nat, S # {}, NEW bound \in Nat, \A n \in S : n <= bound
  PROVE  Max(S) \in S /\ \A n \in S : n <= Max(S)
<1> DEFINE T == {bound - n : n \in S}
<1>1. T \in SUBSET Nat /\ T # {}
  <2>1. ASSUME NEW n \in S PROVE bound - n \in Nat
    <3>1. n \in Nat /\ n <= bound
      OBVIOUS
    <3> QED BY <3>1
  <2>2. \A t \in T : t \in Nat
    BY <2>1
  <2>3. \E n \in S : bound - n \in T
    OBVIOUS
  <2> QED BY <2>2, <2>3
<1>2. PICK t \in T : \A n \in T : t <= n
  <2> HIDE DEF T
  <2> QED BY <1>1, LeastOf
<1>3. PICK m \in S : t = bound - m
  BY <1>2
<1>4. ASSUME NEW n \in S PROVE m >= n
  <2>1. bound - n \in T
    BY <1>4
  <2>2. t <= bound - n
    BY <1>2, <2>1
  <2> QED BY <1>3, <2>2
<1>5. PICK greatest : greatest = Max(S)
  OBVIOUS
<1>6. greatest \in S /\ \A n \in S : greatest >= n
  BY <1>3, <1>4, <1>5 DEF Max
<1>7. greatest \in Nat /\ \A n \in S : n <= greatest
  BY <1>6
<1> QED BY <1>5, <1>6, <1>7

\* The addresses of a sequence's hosts can be ordered by when they were active.
Ordered(ps) ==
  /\ Addresses(ps) \in SUBSET Int /\ IsFiniteSet(Addresses(ps))
  /\ \A m \in Addresses(ps) : LastActive(ps, m) \in Nat

Places(ps, m) == Cardinality(Ahead(ps, m))

\* Fewer are ahead of one that is ahead.
LEMMA PlacesOrder ==
  ASSUME NEW ps, Ordered(ps), NEW all, all = Addresses(ps)
  PROVE  /\ \A m \in all : /\ Places(ps, m) \in Nat /\ Places(ps, m) < Cardinality(all)
                           /\ Ahead(ps, m) \in SUBSET all /\ IsFiniteSet(Ahead(ps, m))
         /\ \A m, n \in all : Later(ps, n, m) => Places(ps, n) < Places(ps, m)
         /\ \A m, n \in all : m # n => Later(ps, m, n) \/ Later(ps, n, m)
<1>1. IsFiniteSet(all) /\ all \in SUBSET Int /\ \A m \in all : LastActive(ps, m) \in Nat
  BY DEF Ordered
<1>2. /\ \A m \in all : ~Later(ps, m, m)
      /\ \A m, n, o \in all : Later(ps, o, n) /\ Later(ps, n, m) => Later(ps, o, m)
      /\ \A m, n \in all : m # n => Later(ps, m, n) \/ Later(ps, n, m)
  BY <1>1 DEF Later
<1>3. \A m \in all : \A n : n \in Ahead(ps, m) <=> n \in all /\ Later(ps, n, m)
  BY DEF Ahead
<1>4. ASSUME NEW m \in all
      PROVE  /\ Places(ps, m) \in Nat /\ Places(ps, m) < Cardinality(all)
             /\ Ahead(ps, m) \in SUBSET all /\ IsFiniteSet(Ahead(ps, m))
  <2>1. Ahead(ps, m) \in SUBSET all /\ m \notin Ahead(ps, m)
    BY <1>2, <1>3
  <2>2. PICK ahead : ahead = Ahead(ps, m)
    OBVIOUS
  <2>3. IsFiniteSet(ahead) /\ Cardinality(ahead) <= Cardinality(all)
        /\ (Cardinality(all) = Cardinality(ahead) => all = ahead)
    BY <1>1, <2>1, <2>2, FS_Subset
  <2>4. all # ahead
    BY <2>1, <2>2
  <2>5. Cardinality(ahead) \in Nat /\ Cardinality(all) \in Nat
    BY <1>1, <2>3, FS_CardinalityType
  <2> QED BY <2>1, <2>2, <2>3, <2>4, <2>5 DEF Places
<1>5. ASSUME NEW m \in all, NEW n \in all, Later(ps, n, m)
      PROVE  Places(ps, n) < Places(ps, m)
  <2>1. PICK a, b : a = Ahead(ps, n) /\ b = Ahead(ps, m)
    OBVIOUS
  <2>2. a \in SUBSET b /\ n \in b /\ n \notin a
    BY <1>2, <1>3, <1>5, <2>1
  <2>3. IsFiniteSet(a) /\ IsFiniteSet(b)
    BY <1>4, <2>1
  <2>4. Cardinality(a) <= Cardinality(b) /\ (Cardinality(b) = Cardinality(a) => b = a)
    BY <2>2, <2>3, FS_Subset
  <2>5. a # b
    BY <2>2
  <2>6. Cardinality(a) \in Nat /\ Cardinality(b) \in Nat
    BY <2>3, FS_CardinalityType
  <2> QED BY <2>1, <2>4, <2>5, <2>6 DEF Places
<1> QED BY <1>2, <1>4, <1>5

\* The first k in that order.
Leading(ps, k) == {m \in Addresses(ps) : Places(ps, m) < k}

LEMMA LeadingCount ==
  ASSUME NEW ps, Ordered(ps), NEW k \in Nat, k <= Cardinality(Addresses(ps))
  PROVE  Cardinality(Leading(ps, k)) = k
<1>1. PICK all : all = Addresses(ps)
  OBVIOUS
<1>2. IsFiniteSet(all) /\ Cardinality(all) \in Nat /\ k <= Cardinality(all)
  BY <1>1, FS_CardinalityType DEF Ordered
<1>3. \A n : Leading(ps, n) \in SUBSET all /\ IsFiniteSet(Leading(ps, n))
  <2> TAKE n
  <2>1. PICK some : some = Leading(ps, n)
    OBVIOUS
  <2>2. some \in SUBSET all
    BY <1>1, <2>1 DEF Leading
  <2> QED BY <1>2, <2>1, <2>2, FS_Subset
<1>4. /\ \A m \in all : Places(ps, m) \in Nat
      /\ \A m \in all : Ahead(ps, m) \in SUBSET all
      /\ \A m, n \in all : Later(ps, n, m) => Places(ps, n) < Places(ps, m)
      /\ \A m, n \in all : m # n => Later(ps, m, n) \/ Later(ps, n, m)
  BY <1>1, PlacesOrder
<1>5. \A n : \A m : m \in Leading(ps, n) <=> m \in all /\ Places(ps, m) < n
  BY <1>1 DEF Leading
<1> DEFINE G == {n \in Nat : Cardinality(Leading(ps, n)) = n}
<1>6. 0 \in G
  <2>1. \A m : m \notin Leading(ps, 0)
    BY <1>4, <1>5
  <2>2. Leading(ps, 0) = {}
    BY <2>1
  <2> QED BY <2>2, FS_EmptySet
<1>7. ASSUME NEW n \in 1..k, n - 1 \in G
      PROVE  n \in G
  <2>1. PICK old \in Nat : old = n - 1
    OBVIOUS
  <2>2. PICK few : few = Leading(ps, old)
    OBVIOUS
  <2>3. Cardinality(few) = old /\ few \in SUBSET all /\ IsFiniteSet(few) /\ old < Cardinality(all)
    BY <1>2, <1>3, <1>7, <2>1, <2>2
  <2>4. few # all
    BY <2>3
  <2> DEFINE T == {Places(ps, m) : m \in all \ few}
  <2>5. T \in SUBSET Nat /\ T # {}
    BY <1>4, <2>3, <2>4
  <2>6. PICK t \in T : \A other \in T : t <= other
    <3> HIDE DEF T
    <3> QED BY <2>5, LeastOf
  <2>7. PICK m \in all \ few : t = Places(ps, m)
    BY <2>6
  <2>8. \A other \in all \ few : Places(ps, m) <= Places(ps, other)
    BY <2>6, <2>7
  <2>9. \A other : other \in few <=> other \in all /\ Places(ps, other) < old
    BY <1>5, <2>2
  <2>10. \A other : other \in Ahead(ps, m) <=> other \in few
    <3> TAKE other
    <3>1. other \in Ahead(ps, m) <=> other \in all /\ Later(ps, other, m)
      BY <1>1 DEF Ahead
    <3>2. ASSUME other \in all, Later(ps, other, m) PROVE other \in few
      <4>1. Places(ps, other) < Places(ps, m)
        BY <1>4, <2>7, <3>2
      <4> QED BY <1>4, <2>7, <2>8, <3>2, <4>1
    <3>3. ASSUME other \in few PROVE other \in all /\ Later(ps, other, m)
      <4>1. other \in all /\ Places(ps, other) < old /\ ~(Places(ps, m) < old) /\ other # m
        BY <2>7, <2>9, <3>3
      <4>2. ~Later(ps, m, other)
        BY <1>4, <2>1, <2>7, <4>1
      <4> QED BY <1>4, <2>7, <4>1, <4>2
    <3> QED BY <3>1, <3>2, <3>3
  <2>11. Ahead(ps, m) = few
    BY <2>10, Zenon
  <2>12. Places(ps, m) = old
    BY <2>3, <2>11 DEF Places
  <2>13. \A other : other \in Leading(ps, n) <=> other \in few \/ other = m
    <3> TAKE other
    <3>1. other \in Leading(ps, n) <=> other \in all /\ Places(ps, other) < n
      BY <1>5
    <3>2. ASSUME other \in few \/ other = m PROVE other \in all /\ Places(ps, other) < n
      BY <1>4, <2>1, <2>7, <2>9, <2>12, <3>2
    <3>3. ASSUME other \in all, Places(ps, other) < n, other \notin few PROVE other = m
      <4>1. Places(ps, other) = Places(ps, m)
        BY <1>4, <2>1, <2>9, <2>12, <3>3
      <4> QED BY <1>4, <2>7, <3>3, <4>1
    <3> QED BY <3>1, <3>2, <3>3
  <2>14. PICK more : more = Leading(ps, n)
    OBVIOUS
  <2>15. more = few \cup {m}
    BY <2>13, <2>14
  <2>16. Cardinality(more) = old + 1
    BY <2>3, <2>7, <2>15, FS_AddElement
  <2> QED BY <2>1, <2>14, <2>16
<1> HIDE DEF G
<1>8. k \in G
  BY <1>6, <1>7, Upward
<1> QED BY <1>8 DEF G

\* As many hosts are selected as there are, or as fit.
LEMMA SelectedAre ==
  ASSUME NEW ps, Ordered(ps), NEW selected, selected = SelectedHosts(ps)
  PROVE  /\ selected \in SUBSET Addresses(ps)
         /\ Cardinality(Addresses(ps)) <= MaxHosts => Addresses(ps) \in SUBSET selected
         /\ MaxHosts <= Cardinality(Addresses(ps)) => Cardinality(selected) = MaxHosts
<1>1. MaxHosts \in Nat
  BY ProjectionAssumption
<1>2. \A m : m \in selected <=> m \in Leading(ps, MaxHosts)
  BY DEF SelectedHosts, Leading, Places
<1>3. selected = Leading(ps, MaxHosts)
  BY <1>2, Zenon
<1>4. PICK all : all = Addresses(ps)
  OBVIOUS
<1>5. \A m \in all : Places(ps, m) \in Nat /\ Places(ps, m) < Cardinality(all)
  BY <1>4, PlacesOrder
<1>6. IsFiniteSet(all) /\ Cardinality(all) \in Nat
  BY <1>4, FS_CardinalityType DEF Ordered
<1>7. \A m : m \in selected <=> m \in all /\ Places(ps, m) < MaxHosts
  BY <1>3, <1>4 DEF Leading
<1>8. selected \in SUBSET all
  BY <1>7
<1>9. ASSUME Cardinality(all) <= MaxHosts PROVE all \in SUBSET selected
  BY <1>1, <1>5, <1>6, <1>7, <1>9
<1>10. ASSUME MaxHosts <= Cardinality(all) PROVE Cardinality(selected) = MaxHosts
  BY <1>1, <1>3, <1>4, <1>10, LeadingCount
<1> QED BY <1>4, <1>8, <1>9, <1>10

LEMMA LesserOf ==
  ASSUME NEW m \in Nat, NEW n \in Nat
  PROVE  Min({m, n}) = IF m <= n THEN m ELSE n
<1>1. PICK least : least = Min({m, n})
  OBVIOUS
<1>2. {m, n} \in SUBSET Nat /\ {m, n} # {}
  OBVIOUS
<1>3. least \in {m, n} /\ \A k \in {m, n} : least <= k
  BY <1>1, <1>2, LeastOf
<1> QED BY <1>1, <1>3

\* The hosts of buckets have addresses and were active at some time.
LEMMA BucketsOrdered ==
  ASSUME NEW ps, Len(ps) \in Nat, NEW time \in Nat, Buckets(ps, time),
         \A p : p \in ToSet(ps) <=> \E i \in 1..Len(ps) : p = ps[i]
  PROVE  /\ Ordered(ps)
         /\ \A m : m \in Addresses(ps) <=> \E i \in 1..Len(ps) : m \in DOMAIN ps[i].hosts
<1>1. \A i \in 1..Len(ps) : IsBucket(ps[i], time)
  BY DEF Buckets
<1>2. \A i \in 1..Len(ps) : IsProjection(ps[i]) /\ ActiveBy(ps[i].hosts, time)
  BY <1>1 DEF IsBucket
<1>3. \A m : m \in Addresses(ps) <=> \E i \in 1..Len(ps) : m \in DOMAIN ps[i].hosts
  <2>1. \A m : m \in Addresses(ps) <=> \E p \in ToSet(ps) : m \in DOMAIN p.hosts
    BY DEF Addresses
  <2> QED BY <2>1
<1>4. PICK merged : merged = Merged(ps, {})
  OBVIOUS
<1>5. /\ IsProjection(merged[Len(ps)])
      /\ \A m : m \in merged[Len(ps)].clients <=> \E i \in 1..Len(ps) : m \in ps[i].clients
  <2>1. Len(ps) \in 0..Len(ps)
    OBVIOUS
  <2> QED BY <1>2, <1>4, <2>1, MergedAre
<1>6. PICK clients : clients = merged[Len(ps)].clients
  OBVIOUS
<1>7. clients \in SUBSET Int /\ IsFiniteSet(clients)
  BY <1>5, <1>6 DEF IsProjection
<1>8. Addresses(ps) \in SUBSET clients
  <2>1. \A i \in 1..Len(ps) : DOMAIN ps[i].hosts \subseteq ps[i].clients
    BY <1>2 DEF IsProjection
  <2> QED BY <1>3, <1>5, <1>6, <2>1
<1>9. PICK all : all = Addresses(ps)
  OBVIOUS
<1>10. all \in SUBSET Int /\ IsFiniteSet(all)
  BY <1>7, <1>8, <1>9, FS_Subset
<1>11. ASSUME NEW m \in Addresses(ps) PROVE LastActive(ps, m) \in Nat
  <2> DEFINE S == {p.hosts[m].active : p \in {q \in ToSet(ps) : m \in DOMAIN q.hosts}}
  <2>1. ASSUME NEW p \in ToSet(ps), m \in DOMAIN p.hosts
        PROVE  p.hosts[m].active \in Nat /\ p.hosts[m].active <= time
    <3>1. PICK i \in 1..Len(ps) : p = ps[i]
      OBVIOUS
    <3>2. IsHosts(ps[i].hosts) /\ ActiveBy(ps[i].hosts, time)
      BY <1>2 DEF IsProjection
    <3> QED BY <2>1, <3>1, <3>2 DEF IsHosts, IsHost, ActiveBy
  <2>2. S \in SUBSET Nat /\ \A n \in S : n <= time
    BY <2>1
  <2>3. S # {}
    BY <1>3
  <2>4. LastActive(ps, m) = Max(S)
    BY DEF LastActive
  <2> HIDE DEF S
  <2>5. PICK greatest : greatest = Max(S)
    OBVIOUS
  <2>6. greatest \in S
    BY <2>2, <2>3, <2>5, GreatestOf
  <2> QED BY <2>2, <2>4, <2>5, <2>6
<1> QED BY <1>3, <1>9, <1>10, <1>11 DEF Ordered

\* What is known of the buckets merged in a state.
MergedSound(ps, folded, selected) ==
  /\ IsProjection(folded)
  /\ DOMAIN folded.hosts = selected
  /\ selected \in SUBSET folded.clients
  /\ Limited(ps) <=> Cardinality(folded.clients) > MaxHosts
  /\ Cardinality(selected)
       = IF MaxHosts <= Cardinality(folded.clients) THEN MaxHosts
         ELSE Cardinality(folded.clients)
  /\ ~Limited(ps) => /\ \A i \in 1..Len(ps) : ~ps[i].limited
                     /\ folded.clients \subseteq selected

LEMMA MergedIsSound ==
  ASSUME NEW ps, Len(ps) \in Nat, NEW time \in Nat, Buckets(ps, time),
         \A p : p \in ToSet(ps) <=> \E i \in 1..Len(ps) : p = ps[i],
         NEW selected, selected = SelectedHosts(ps),
         NEW folded, folded = Merged(ps, selected)[Len(ps)]
  PROVE  MergedSound(ps, folded, selected)
<1>1. \A i \in 1..Len(ps) : IsBucket(ps[i], time)
  BY DEF Buckets
<1>2. \A i \in 1..Len(ps) : IsProjection(ps[i]) /\ ActiveBy(ps[i].hosts, time)
  BY <1>1 DEF IsBucket
<1>3. PICK all : all = Addresses(ps)
  OBVIOUS
<1>4. /\ Ordered(ps) /\ IsFiniteSet(all)
      /\ \A m : m \in all <=> \E i \in 1..Len(ps) : m \in DOMAIN ps[i].hosts
  BY <1>3, BucketsOrdered DEF Ordered
<1>5. /\ selected \in SUBSET all
      /\ Cardinality(all) <= MaxHosts => all \in SUBSET selected
      /\ MaxHosts <= Cardinality(all) => Cardinality(selected) = MaxHosts
  BY <1>3, <1>4, SelectedAre
<1>6. PICK merged : merged = Merged(ps, selected)
  OBVIOUS
<1>7. /\ IsProjection(folded)
      /\ \A m : m \in folded.clients <=> \E i \in 1..Len(ps) : m \in ps[i].clients
      /\ \A m : m \in DOMAIN folded.hosts
                  <=> m \in selected /\ \E i \in 1..Len(ps) : m \in DOMAIN ps[i].hosts
  <2>1. Len(ps) \in 0..Len(ps)
    OBVIOUS
  <2>2. /\ IsProjection(merged[Len(ps)])
        /\ \A m : m \in merged[Len(ps)].clients <=> \E i \in 1..Len(ps) : m \in ps[i].clients
        /\ \A m : m \in DOMAIN merged[Len(ps)].hosts
                    <=> m \in selected /\ \E i \in 1..Len(ps) : m \in DOMAIN ps[i].hosts
    BY <1>2, <1>6, <2>1, MergedAre
  <2> QED BY <1>6, <2>2
<1>8. PICK clients : clients = folded.clients
  OBVIOUS
<1>9. PICK listed : listed = DOMAIN folded.hosts
  OBVIOUS
<1>10. listed = selected
  <2>1. \A m : m \in listed <=> m \in selected
    BY <1>4, <1>5, <1>7, <1>9
  <2> QED BY <2>1, Zenon
<1>11. /\ IsFiniteSet(clients) /\ all \in SUBSET clients
       /\ \A m : m \in clients <=> \E i \in 1..Len(ps) : m \in ps[i].clients
  <2>1. \A i \in 1..Len(ps) : DOMAIN ps[i].hosts \subseteq ps[i].clients
    BY <1>2 DEF IsProjection
  <2>2. IsFiniteSet(clients)
    BY <1>7, <1>8 DEF IsProjection
  <2> QED BY <1>4, <1>7, <1>8, <2>1, <2>2
<1>12. /\ Cardinality(all) <= Cardinality(clients)
       /\ Cardinality(all) \in Nat /\ Cardinality(clients) \in Nat /\ MaxHosts \in Nat
  BY <1>4, <1>11, FS_Subset, FS_CardinalityType, ProjectionAssumption
<1>13. Limited(ps) <=> (\E i \in 1..Len(ps) : ps[i].limited) \/ Cardinality(all) > MaxHosts
  BY <1>3 DEF Limited
<1>14. CASE \E i \in 1..Len(ps) : ps[i].limited
  <2>1. PICK i \in 1..Len(ps) : ps[i].limited
    BY <1>14
  <2>2. PICK full : full = DOMAIN ps[i].hosts
    OBVIOUS
  <2>3. PICK c \in ps[i].clients : c \notin full
    BY <1>1, <2>1, <2>2 DEF IsBucket
  <2>4. Cardinality(full) = MaxHosts /\ full \in SUBSET all
    BY <1>1, <1>4, <2>1, <2>2 DEF IsBucket
  <2>5. IsFiniteSet(full) /\ Cardinality(full) <= Cardinality(all)
    BY <1>4, <2>4, FS_Subset
  <2>6. PICK more : more = full \cup {c}
    OBVIOUS
  <2>7. more \in SUBSET clients
    BY <1>11, <2>3, <2>4, <2>6
  <2>8. Cardinality(more) = MaxHosts + 1
    BY <2>3, <2>4, <2>5, <2>6, FS_AddElement
  <2>9. Cardinality(more) <= Cardinality(clients)
    BY <1>11, <2>7, FS_Subset
  <2>10. Cardinality(clients) > MaxHosts /\ MaxHosts <= Cardinality(all)
    BY <1>12, <2>4, <2>5, <2>8, <2>9
  <2>11. Limited(ps) /\ Cardinality(selected) = MaxHosts /\ MaxHosts <= Cardinality(clients)
    BY <1>5, <1>12, <1>13, <1>14, <2>10
  <2>12. selected \in SUBSET clients
    BY <1>5, <1>11
  <2> QED BY <1>7, <1>8, <1>9, <1>10, <2>10, <2>11, <2>12 DEF MergedSound
<1>15. CASE \A i \in 1..Len(ps) : ~ps[i].limited
  <2>1. \A i \in 1..Len(ps) : ps[i].clients \subseteq DOMAIN ps[i].hosts
    BY <1>1, <1>15 DEF IsBucket
  <2>2. clients = all
    <3>1. \A m : m \in clients <=> m \in all
      BY <1>4, <1>11, <2>1
    <3> QED BY <3>1, Zenon
  <2>3. Limited(ps) <=> Cardinality(clients) > MaxHosts
    BY <1>13, <1>15, <2>2
  <2>4. selected \in SUBSET clients
    BY <1>5, <2>2
  <2>5. CASE MaxHosts <= Cardinality(clients)
    <3>1. Cardinality(selected) = MaxHosts
      BY <1>5, <2>2, <2>5
    <3>2. ~Limited(ps) => clients \subseteq selected
      BY <1>5, <1>12, <2>2, <2>3
    <3> QED BY <1>7, <1>8, <1>9, <1>10, <1>15, <2>3, <2>4, <2>5, <3>1, <3>2 DEF MergedSound
  <2>6. CASE ~(MaxHosts <= Cardinality(clients))
    <3>1. clients \in SUBSET selected
      BY <1>5, <1>12, <2>2, <2>6
    <3>2. selected = clients
      BY <2>4, <3>1
    <3> QED BY <1>7, <1>8, <1>9, <1>10, <1>15, <2>3, <2>4, <2>6, <3>1, <3>2 DEF MergedSound
  <2> QED BY <2>5, <2>6
<1> QED BY <1>14, <1>15

\* The two properties follow from the invariant.
LEMMA StreamMeans == FrameInv /\ StreamInv => StreamIsWhole /\ HostsHonest
<1> SUFFICES ASSUME FrameInv, StreamInv PROVE StreamIsWhole /\ HostsHonest
  OBVIOUS
<1>1. PICK ps : ps = SecondsOf(buckets, Second(Now))
  OBVIOUS
<1>2. BucketSeq = ps
  BY <1>1 DEF BucketSeq, SecondsOf
<1>3. PICK instant \in Nat, last \in Nat : instant = Now /\ last = Second(Now)
  BY NowIs
<1>4. /\ Len(ps) \in Nat /\ Buckets(ps, instant)
      /\ \A p : p \in ToSet(ps) <=> \E i \in 1..Len(ps) : p = ps[i]
  <2>1. PICK bs : bs = buckets
    OBVIOUS
  <2>2. ps = SecondsOf(bs, last) /\ BucketsAre(bs, last, instant)
    BY <1>1, <1>3, <2>1 DEF FrameInv, BucketsAre
  <2>3. Listed(ps, instant)
    BY <2>2, SecondsListed
  <2> QED BY <2>3 DEF Listed
<1>5. PICK selected : selected = SelectedHosts(ps)
  OBVIOUS
<1>6. PICK folded : folded = Merged(ps, selected)[Len(ps)]
  OBVIOUS
<1>7. MergedSound(ps, folded, selected)
  BY <1>4, <1>5, <1>6, MergedIsSound
<1>8. PICK merged : merged = Merge(ps)
  OBVIOUS
<1>9. /\ merged.counts = folded.counts /\ merged.by = folded.by
      /\ merged.clients = folded.clients /\ merged.hosts = folded.hosts
      /\ merged.limited = Limited(ps)
  <2>1. merged = [folded EXCEPT !.limited = Limited(ps)]
    BY <1>5, <1>6, <1>8 DEF Merge
  <2>2. folded = [counts |-> folded.counts, by |-> folded.by, clients |-> folded.clients,
                  hosts |-> folded.hosts, limited |-> folded.limited]
    BY <1>7 DEF MergedSound, IsProjection
  <2> QED BY <2>1, <2>2
<1>10. PICK whole : whole = Project(frames, Known(frames), Records(frames), 2 * MaxFrames)
  OBVIOUS
<1>11. Discovered
         => /\ Same(folded, whole)
            /\ (\A i \in 1..Len(ps) : ~ps[i].limited) /\ whole.clients \subseteq selected
                 => folded.hosts = whole.hosts
  <2>1. StreamsAgree(frames, ps)
    BY <1>1 DEF StreamInv
  <2>2. Discovered <=> DiscoveredIn(frames)
    BY DEF Discovered, DiscoveredIn
  <2>3. whole = Passes(frames, Known(frames), Records(frames), 2 * MaxFrames)[Len(frames)]
    BY <1>10 DEF Project
  <2>4. ASSUME DiscoveredIn(frames) PROVE StreamMatches(frames, ps, selected)
    BY <2>1, <2>4 DEF StreamsAgree
  <2> QED BY <1>6, <2>2, <2>3, <2>4 DEF StreamMatches
<1>12. StreamIsWhole
  BY <1>2, <1>8, <1>9, <1>10, <1>11 DEF StreamIsWhole, Same
<1>13. HostsHonest
  <2>1. PICK clients : clients = folded.clients
    OBVIOUS
  <2>2. IsFiniteSet(clients) /\ Cardinality(clients) \in Nat /\ MaxHosts \in Nat
    BY <1>7, <2>1, FS_CardinalityType, ProjectionAssumption DEF MergedSound, IsProjection
  <2>3. Cardinality(selected) = Min({MaxHosts, Cardinality(clients)})
    <3>1. Cardinality(selected) = IF MaxHosts <= Cardinality(clients) THEN MaxHosts
                                  ELSE Cardinality(clients)
      BY <1>7, <2>1 DEF MergedSound
    <3>2. PICK n \in Nat : n = Cardinality(clients)
      BY <2>2
    <3> QED BY <2>2, <3>1, <3>2, LesserOf
  <2>4. merged.limited = (Cardinality(clients) > MaxHosts)
    <3>1. merged.limited \in BOOLEAN
      BY <1>9 DEF Limited
    <3> QED BY <1>7, <1>9, <2>1, <3>1 DEF MergedSound
  <2>5. DOMAIN merged.hosts = selected /\ selected \subseteq clients
    BY <1>7, <1>9, <2>1 DEF MergedSound
  <2>6. Discovered /\ ~merged.limited => merged.hosts = whole.hosts
    <3> SUFFICES ASSUME Discovered, ~merged.limited PROVE merged.hosts = whole.hosts
      OBVIOUS
    <3>1. ~Limited(ps)
      BY <1>9
    <3>2. (\A i \in 1..Len(ps) : ~ps[i].limited) /\ folded.clients \subseteq selected
      BY <1>7, <3>1 DEF MergedSound
    <3>3. folded.clients = whole.clients
      BY <1>11 DEF Same
    <3> QED BY <1>9, <1>11, <3>2, <3>3
  <2>7. merged.clients = clients
    BY <1>9, <2>1
  <2> QED BY <1>2, <1>8, <1>10, <2>3, <2>4, <2>5, <2>6, <2>7 DEF HostsHonest
<1> QED BY <1>12, <1>13

\* Live, the frames' counts, BSSID summaries and clients of the seconds merged
\* are those of one pass over all the frames, whatever the frames, the length
\* of a second, the target and the limit of the host table, once every BSSID
\* was heard before the other frames (analyzer.py 1277-1354, 1572-1619).
THEOREM StreamsAreWhole == ProjectionSpec => []StreamIsWhole
<1>1. ProjectionInit => FrameInv /\ StreamInv
  BY FramesStart
<1>2. FrameInv /\ StreamInv /\ [ProjectionNext]_projectionVars => FrameInv' /\ StreamInv'
  BY FramesStep
<1>3. FrameInv /\ StreamInv => StreamIsWhole
  BY StreamMeans
<1> QED BY <1>1, <1>2, <1>3, PTL DEF ProjectionSpec

\* The host table lists as many clients as it can hold, says that it is
\* limited exactly when there are more, and is exact when it is not
\* (host_tracking.py).
THEOREM HostsAreHonest == ProjectionSpec => []HostsHonest
<1>1. ProjectionInit => FrameInv /\ StreamInv
  BY FramesStart
<1>2. FrameInv /\ StreamInv /\ [ProjectionNext]_projectionVars => FrameInv' /\ StreamInv'
  BY FramesStep
<1>3. FrameInv /\ StreamInv => HostsHonest
  BY StreamMeans
<1> QED BY <1>1, <1>2, <1>3, PTL DEF ProjectionSpec
=============================================================================
