---------------------------- MODULE DisplayChoice ----------------------------
(***************************************************************************)
(* Which BSSID each metric names, from one refresh of the analyzer to the  *)
(* next (analyzer.py): the selected QBSS reporter, the retry footer's      *)
(* source, the strongest radio and the SSID that rotates over its BSSIDs.  *)
(* Each choice depends on the one before it, so that the display does not  *)
(* flicker; here refreshes come at any second, beacons and expiries in any *)
(* order between them.  Frames are of BSSIDs that may not have been heard. *)
(***************************************************************************)
EXTENDS RadioGrouping

CONSTANTS
  Profiles,    \* bound: what each BSSID's rolling state may be, but for when it is seen
  Bssids,      \* bound: the addresses heard
  Senders,     \* bound: the BSSIDs frames may be associated with, heard or not
  Counts,      \* bound: what a BSSID's frames of a second count for
  Hysteresis,  \* hysteresis_db
  Rotation,    \* COMPOSITION_ROTATION_SECONDS
  MaxAge,      \* BEACON_RADIO_MAX_AGE_SECONDS, in whole seconds
  MaxSecond    \* bound: the last second refreshed

\* A frame that is a retry counts as one that could be.
ASSUME DisplayAssumption ==
  /\ \A b \in Bssids : \A profile \in Profiles[b] :
       profile \in BssidState /\ profile.bssid = b
  /\ IsFiniteSet(Senders) /\ Senders \subseteq Nat
  /\ Counts \subseteq [retries : Nat, eligible : Nat]
  /\ \A count \in Counts : count.retries <= count.eligible
  /\ Hysteresis \in Nat /\ Rotation \in Nat \ {0} /\ MaxAge \in Nat /\ MaxSecond \in Nat

VARIABLES
  heard,       \* the BSSIDs in the window: address -> state
  by_bssid,      \* the last refresh's frames, until something is heard: BSSID -> counts
  second,      \* the last second refreshed
  selected,    \* _current_selected_bssid
  retry,       \* _current_retry_bssid
  radio,       \* _composition_rotation_second, _strongest_radio_bssids, _composition_display_bssid
  fresh        \* nothing was heard since the last refresh

displayVars == <<heard, by_bssid, second, selected, retry, radio, fresh>>

States == {heard[b] : b \in DOMAIN heard}

Summaries == UNION {[some -> Counts] : some \in SUBSET Senders}

\* _retry_states_from_projection: of the BSSIDs heard, and of those that only
\* frames were associated with, whose RSSI is not known.
RetryStates ==
  {[bssid |-> b,
    peak |-> IF b \in DOMAIN heard THEN heard[b].peak ELSE None,
    retries |-> IF b \in DOMAIN by_bssid THEN by_bssid[b].retries ELSE 0,
    eligible |-> IF b \in DOMAIN by_bssid THEN by_bssid[b].eligible ELSE 0] :
     b \in DOMAIN heard \cup DOMAIN by_bssid}

NoRadio == [rotated |-> None, bssids |-> {}, displayed |-> None]

DisplayInit ==
  /\ heard = << >> /\ by_bssid = << >>
  /\ second = 0
  /\ selected = None /\ retry = None
  /\ radio = NoRadio
  /\ fresh = FALSE

-----------------------------------------------------------------------------
(* The selected BSSID and the retry source.                                *)

StationCount(state) == IF state.stations = None THEN -1 ELSE state.stations
Strength(state) == IF state.peak = None THEN -200 ELSE state.peak

\* The strongest of a set of states, the highest or the lowest address first.
Stronger(x, y) == Strength(x) > Strength(y)
StrongestHigh(states) ==
  CHOOSE s \in states : \A t \in states \ {s} :
    \/ s.peak # None /\ t.peak = None
    \/ (s.peak = None) = (t.peak = None)
         /\ (Stronger(s, t) \/ (~Stronger(t, s) /\ s.bssid > t.bssid))
StrongestLow(states) ==
  CHOOSE s \in states : \A t \in states \ {s} :
    Stronger(s, t) \/ (~Stronger(t, s) /\ s.bssid < t.bssid)

\* The reporters within the hysteresis of the strongest one.
NearEqual(candidates) ==
  LET measured == {s \in candidates : s.peak # None}
  IN IF measured = {} THEN candidates
     ELSE {s \in measured : Max({t.peak : t \in measured}) - s.peak <= Hysteresis}

\* Mutant: the BSSID that is shown stays whatever the others report.
select_bssid_sticky(states, current) ==
  LET candidates == {s \in states : s.qbss}
  IN IF candidates = {} THEN None
     ELSE IF current \in BssidsOf(candidates) THEN current
     ELSE StrongestHigh(NearEqual(candidates)).bssid

select_bssid(states, current) ==
  LET candidates == {s \in states : s.qbss}
      near == NearEqual(candidates)
      finalists == {s \in near : \A t \in near : StationCount(t) <= StationCount(s)}
  IN IF candidates = {} THEN None
     ELSE IF current \in BssidsOf(finalists) THEN current
     ELSE StrongestHigh(finalists).bssid

\* _strongest_signal_bssid.
Strongest(states, current) ==
  LET measured == {s \in states : s.peak # None}
      finalists == IF measured = {} THEN states
                   ELSE {s \in measured : \A t \in measured : t.peak <= s.peak}
  IN IF states = {} THEN None
     ELSE IF current \in BssidsOf(finalists) THEN current
     ELSE Min(BssidsOf(finalists))

\* The retry ratio of x is above that of y.
MoreRetries(x, y) == x.retries * y.eligible > y.retries * x.eligible

\* The highest retry ratio there is, of whatever BSSID; without a retry, the
\* strongest BSSID heard.
select_retry_bssid(retrying, states, current) ==
  LET candidates == {s \in retrying : s.retries > 0}
      finalists == {s \in candidates : \A t \in candidates : ~MoreRetries(t, s)}
  IN IF candidates = {} THEN Strongest(states, current)
     ELSE IF current \in BssidsOf(finalists) THEN current
     ELSE StrongestLow(finalists).bssid

\* _recent_radio_states, at the end of the second shown.
Recent(states, at) == {s \in states : s.seen >= at - MaxAge /\ s.seen <= at}

-----------------------------------------------------------------------------
(* The strongest radio and the SSID that rotates over its BSSIDs.          *)

\* Mutant: the rotation starts again from the second of the refresh.
RotatedDrifting(shown, members, at) ==
  LET order == Ascending(members)
      steps == (at - shown.rotated) \div Rotation
      index == CHOOSE i \in DOMAIN order : order[i] = shown.displayed
  IN [rotated |-> IF steps > 0 THEN at ELSE shown.rotated, bssids |-> members,
      displayed |-> order[((index - 1 + steps) % Len(order)) + 1]]

Rotated(shown, members, at) ==
  LET order == Ascending(members)
      steps == IF shown.rotated < at THEN (at - shown.rotated) \div Rotation ELSE 0
      index == CHOOSE i \in DOMAIN order : order[i] = shown.displayed
  IN [rotated |-> shown.rotated + steps * Rotation, bssids |-> members,
      displayed |-> order[((index - 1 + steps) % Len(order)) + 1]]

Restarted(members, at) ==
  [rotated |-> at, bssids |-> members, displayed |-> Min(members)]

\* _composition_snapshot of the recent states: what it leaves for the next one.
Composed(shown, recent, at) ==
  LET strongest == select_strongest_radio(estimate_radio_groups(recent), shown.bssids)
      members == BssidsOf(strongest)
  IN IF strongest = {} THEN NoRadio
     ELSE IF \/ shown.bssids \cap members = {} \/ shown.rotated = None
             \/ shown.displayed \notin members
          THEN Restarted(members, at)
     ELSE Rotated(shown, members, at)

-----------------------------------------------------------------------------
(* Beacons, expiries, refreshes.                                           *)

\* A beacon of b: its rolling state changes.  The window's peak is at least
\* the latest RSSI by the way Profiles are chosen.
Heard(b) ==
  /\ \E profile \in Profiles[b] :
       heard' = [x \in DOMAIN heard \cup {b} |->
                   IF x # b THEN heard[x] ELSE [profile EXCEPT !.seen = second + 1]]
  /\ fresh' = FALSE /\ by_bssid' = << >>
  /\ UNCHANGED <<second, selected, retry, radio>>

\* The last beacon of b leaves the window.
Leave(b) ==
  /\ b \in DOMAIN heard
  /\ heard' = [x \in DOMAIN heard \ {b} |-> heard[x]]
  /\ fresh' = FALSE /\ by_bssid' = << >>
  /\ UNCHANGED <<second, selected, retry, radio>>

\* _refresh_current_snapshot, for the same second or a later one, with the
\* frames there are of it by then.
Refresh(at) ==
  /\ UNCHANGED heard
  /\ second' = at
  /\ by_bssid' \in Summaries
  /\ selected' = select_bssid(States, selected)
  /\ retry' = select_retry_bssid(RetryStates', States, retry)
  /\ radio' = Composed(radio, Recent(States, at + 1), at)
  /\ fresh' = TRUE

RefreshAny == \E at \in second..MaxSecond : Refresh(at)

DisplayNext ==
  \/ \E b \in Bssids : Heard(b) \/ Leave(b)
  \/ RefreshAny

DisplaySpec == DisplayInit /\ [][DisplayNext]_displayVars

-----------------------------------------------------------------------------
\* After a refresh the selected BSSID reports QBSS, no reporter is stronger
\* than it by more than the hysteresis, and none that is as near as that has
\* more stations; the retry source has the highest retry ratio there is, of the
\* BSSIDs heard or not, and without retries it is the strongest one heard; the
\* SSID shown is of the radio shown, and that is the strongest recent one.
\* A choice that is kept may not outlive its reasons (analyzer.py
\* 178-234, 819-916, 1409-1483, 1775-1806).
ChoicesJustified ==
  fresh =>
    /\ (selected = None) = (\A s \in States : ~s.qbss)
    /\ selected # None =>
         /\ selected \in DOMAIN heard /\ heard[selected].qbss
         /\ \A s \in States : s.qbss /\ s.peak # None =>
              /\ heard[selected].peak # None
              /\ s.peak - heard[selected].peak <= Hysteresis
         /\ \A s \in NearEqual({t \in States : t.qbss}) :
              StationCount(s) <= StationCount(heard[selected])
    /\ (radio.displayed = None) = (Recent(States, second + 1) = {})
    /\ radio.displayed # None =>
         /\ radio.displayed \in radio.bssids
         /\ \A s \in Recent(States, second + 1) : s.peak # None =>
              \E b \in radio.bssids : heard[b].peak # None /\ s.peak <= heard[b].peak
    /\ (\E s \in RetryStates : s.retries > 0) =>
         \E source \in RetryStates :
           /\ source.bssid = retry /\ source.retries > 0
           /\ \A s \in RetryStates : ~MoreRetries(s, source)
    /\ (\A s \in RetryStates : s.retries = 0) =>
         /\ (retry = None) = (States = {})
         /\ retry # None =>
              /\ retry \in DOMAIN heard
              /\ \A s \in States : s.peak # None =>
                   heard[retry].peak # None /\ s.peak <= heard[retry].peak

\* How often the display is refreshed does not decide which SSID is shown
\* when: a refresh at a second shows what it would have shown had the seconds
\* before it been refreshed too, while the same BSSIDs keep beaconing; the
\* selection and the retry source are not moved by refreshing again (the
\* live loop refreshes one second many times).
CadenceFree ==
  fresh =>
    /\ select_bssid(States, selected) = selected
    /\ select_retry_bssid(RetryStates, States, retry) = retry
    /\ LET recent == Recent(States, second + 1)
       IN \A middle, at \in second..MaxSecond :
            middle <= at =>
              Composed(Composed(radio, recent, middle), recent, at)
                = Composed(radio, recent, at)

\* The estimated radios of the recent BSSIDs are a partition of them, any two
\* of one radio are compatible (no chain of pairs joins two that are not),
\* and no two radios could have been one.
RadiosSound ==
  LET groups == estimate_radio_groups(States)
  IN /\ UNION groups = States
     /\ \A g, h \in groups : g # h => g \cap h = {}
     /\ \A g \in groups : g # {} /\ \A x, y \in g : likely_same_radio(x, y)
     /\ \A g, h \in groups : g # h =>
          \E x \in g, y \in h : ~likely_same_radio(x, y)
=============================================================================
