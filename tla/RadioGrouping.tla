---------------------------- MODULE RadioGrouping ----------------------------
(***************************************************************************)
(* Which BSSIDs are shown as one physical radio (radio_grouping.py).       *)
(*                                                                         *)
(* A BSSID is a number of three digits in base Base, the first of which    *)
(* stands for the vendor's half of the address: order, adjacency and the   *)
(* count of differing digits are those of the code's hexadecimal strings.  *)
(* A state is a BssidState: [bssid, peak, name, stations, qbss, seen];     *)
(* names are compared trimmed and case-folded, so equal names are one      *)
(* value, and a blank name is None.                                        *)
(***************************************************************************)
EXTENDS Optional, Ordering, FiniteSetsExt, SequencesExt

CONSTANTS
  Base,           \* digits an address digit ranges over
  Tolerance,      \* DEFAULT_RADIO_RSSI_TOLERANCE_DB
  NamedLimit      \* AP_NAME_RSSI_LIMIT_DB

Reading == Int \cup {None}

BssidState ==
  [bssid : Nat, peak : Reading, name : Reading, stations : Reading, qbss : BOOLEAN,
   seen : Int]

ASSUME GroupingAssumption ==
  /\ Base \in Nat /\ Base > 1
  /\ Tolerance \in Nat /\ NamedLimit \in Nat /\ Tolerance <= NamedLimit
  /\ None \notin Int

Digits(bssid) == <<bssid \div (Base * Base), (bssid \div Base) % Base, bssid % Base>>
vendor_oui(bssid) == Digits(bssid)[1]

Distance(m, n) == IF m < n THEN n - m ELSE m - n

related_bssid_macs(first, second) ==
  \/ Distance(first, second) = 1
  \/ Cardinality({i \in 1..3 : Digits(first)[i] # Digits(second)[i]}) = 1

Near(first, second, limit) ==
  /\ first.peak # None /\ second.peak # None
  /\ Distance(first.peak, second.peak) <= limit

\* With one AP name the RSSI may be unknown, without one it must be close.
likely_same_radio(first, second) ==
  \/ first.bssid = second.bssid
  \/ /\ vendor_oui(first.bssid) = vendor_oui(second.bssid)
     /\ \/ /\ first.name # None /\ first.name = second.name
           /\ \/ first.peak = None \/ second.peak = None
              \/ Near(first, second, NamedLimit)
        \/ /\ first.name = None \/ second.name = None
           /\ Near(first, second, Tolerance)
           /\ related_bssid_macs(first.bssid, second.bssid)

BssidsOf(group) == {state.bssid : state \in group}

\* group_id: the lowest address of its members.
GroupId(group) == Min(BssidsOf(group))

\* Mutant: a BSSID joins a group when one of its members is compatible.
JoinedSingleLink(groups, state) ==
  LET open == {i \in DOMAIN groups :
                 \E member \in groups[i] : likely_same_radio(state, member)}
  IN IF open = {} THEN Append(groups, {state})
     ELSE [groups EXCEPT ![Min(open)] = @ \cup {state}]

\* A BSSID joins the first group with every member of which it is compatible.
Joined(groups, state) ==
  LET open == {i \in DOMAIN groups :
                 \A member \in groups[i] : likely_same_radio(state, member)}
  IN IF open = {} THEN Append(groups, {state})
     ELSE [groups EXCEPT ![Min(open)] = @ \cup {state}]

\* The states in the order of their addresses.
ByAddress(states) ==
  LET order == Ascending(BssidsOf(states))
  IN [k \in DOMAIN order |-> CHOOSE s \in states : s.bssid = order[k]]

\* The groups after each state of a sequence has joined one.
Placed(order) ==
  LET groups[n \in 0..Len(order)] ==
        IF n = 0 THEN << >> ELSE Joined(groups[n - 1], order[n])
  IN groups

estimate_radio_groups(states) ==
  LET order == ByAddress(states) IN ToSet(Placed(order)[Len(order)])

\* best_rssi_dbm: None where no member's RSSI is known.
Peaks(group) == {state.peak : state \in group} \ {None}
Best(group) == IF Peaks(group) = {} THEN None ELSE Max(Peaks(group))

\* Of the strongest groups one that holds a BSSID shown before, then the
\* lowest group; the empty set where there is no group.
select_strongest_radio(groups, current) ==
  LET measured == {g \in groups : Best(g) # None}
      finalists == IF measured = {} THEN groups
                   ELSE {g \in measured : Best(g) = Max({Best(h) : h \in measured})}
      retained == {g \in finalists : BssidsOf(g) \cap current # {}}
      choices == IF retained = {} THEN finalists ELSE retained
  IN IF groups = {} THEN {}
     ELSE CHOOSE g \in choices : \A h \in choices : GroupId(g) <= GroupId(h)
=============================================================================
