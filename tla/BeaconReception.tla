--------------------------- MODULE BeaconReception ---------------------------
(***************************************************************************)
(* How many beacons of a BSSID were expected in an interval and how many   *)
(* of those came (_beacon_reception_counts, analyzer.py): the schedule of  *)
(* an access point is not captured, so it is inferred from capture times,  *)
(* each of which may be up to one beacon interval late.                    *)
(*                                                                         *)
(* Times are ticks, Interval of them to ASSUMED_BEACON_INTERVAL_SECONDS;   *)
(* the code's tolerance only absorbs the rounding of floats.               *)
(***************************************************************************)
EXTENDS Integers, Sequences, FiniteSets, FiniteSetsExt, SequencesExt

CONSTANTS
  Interval,    \* beacon_interval_seconds
  Start, End,  \* interval_start, interval_end
  MaxBeacons   \* bound: beacons captured

ASSUME ReceptionAssumption ==
  /\ Interval \in Nat \ {0}
  /\ Start \in Int /\ End \in Int /\ Start < End

VARIABLES
  times,  \* the capture times of the beacons so far, in order
  fit     \* what the code infers from them: phase_low, phase_high, assigned_slots

receptionVars == <<times, fit>>

CeilDiv(n) == -((-n) \div Interval)
Larger(m, n) == IF m > n THEN m ELSE n
Smaller(m, n) == IF m < n THEN m ELSE n

-----------------------------------------------------------------------------
\* The phases with which slot may have been sent before time, an interval late at most.
PhaseLow(time, slot) == Larger(fit.low, time - (slot + 1) * Interval)
PhaseHigh(time, slot) == Smaller(fit.high, time - slot * Interval)

\* Mutant: a beacon may take the slot of the one before it.
SlotsForAgain(time) ==
  {slot \in Last(fit.slots)..((time - fit.low) \div Interval) :
     PhaseLow(time, slot) <= PhaseHigh(time, slot)}

\* The slots after the last one taken that time may belong to.
SlotsFor(time) ==
  {slot \in (Last(fit.slots) + 1)..((time - fit.low) \div Interval) :
     PhaseLow(time, slot) <= PhaseHigh(time, slot)}

\* A beacon takes the first slot that fits.
Assigned(time) ==
  LET slot == Min(SlotsFor(time))
  IN [low |-> PhaseLow(time, slot), high |-> PhaseHigh(time, slot),
      slots |-> Append(fit.slots, slot)]

\* The first beacon has slot 0; one for which no slot fits has none.
Fitted(time) ==
  IF times = << >> THEN [low |-> time - Interval, high |-> time, slots |-> <<0>>]
  ELSE IF SlotsFor(time) = {} THEN fit ELSE Assigned(time)

ReceptionInit == times = << >> /\ fit = [low |-> 0, high |-> 0, slots |-> << >>]

\* A beacon is captured, and the loop over all of them is one turn longer.
\* Later ones than an interval after End are cut off.
ReceptionNext ==
  /\ Len(times) < MaxBeacons
  /\ \E t \in (IF times = << >> THEN 0 ELSE Last(times))..(End + Interval) :
       times' = Append(times, t) /\ fit' = Fitted(t)

ReceptionSpec == ReceptionInit /\ [][ReceptionNext]_receptionVars

-----------------------------------------------------------------------------
\* The slots expected in the interval, by the latest phase.
ExpectedSlots ==
  LET first == Larger(0, CeilDiv(Start - fit.high))
  IN first..(Larger(first, CeilDiv(End - fit.high)) - 1)

Expected == IF times = << >> THEN 0 ELSE Cardinality(ExpectedSlots)
Received ==
  IF times = << >> THEN 0
  ELSE Cardinality({i \in DOMAIN fit.slots : fit.slots[i] \in ExpectedSlots})

-----------------------------------------------------------------------------
(* Every schedule there could have been.                                   *)

\* The slots were sent with that phase and captured 0..Interval late.
Explains(phase, slots) ==
  \A i \in DOMAIN times :
    LET sent == phase + slots[i] * Interval
    IN sent <= times[i] /\ times[i] <= sent + Interval

\* The increasing assignments of slots to the beacons, slot 0 to the first one.
Assignments(top) ==
  {slots \in [DOMAIN times -> 0..top] :
     /\ slots[1] = 0
     /\ \A i, j \in DOMAIN times : i < j => slots[i] < slots[j]}

\* The inferred schedule has the fewest missing slots there can be: no
\* schedule that explains all the beacons ends with an earlier slot.  Of a
\* complete capture, however late each of its beacons was, none is counted as
\* lost, and never are more received than expected.  The greedy choice of the
\* first slot that fits narrows the phase, and must not cost a later beacon
\* its slot (analyzer.py 1951-2000).
ReceptionSound ==
  /\ Received <= Expected
  /\ times # << >> =>
       \A phase \in (times[1] - Interval)..times[1] :
         /\ \A slots \in Assignments((Last(times) - phase) \div Interval) :
              Explains(phase, slots) => Last(fit.slots) <= Last(slots)
         /\ /\ Explains(phase, [i \in DOMAIN times |-> i - 1])
            /\ phase + Len(times) * Interval >= End
            => Received = Expected
=============================================================================
