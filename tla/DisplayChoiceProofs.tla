------------------------- MODULE DisplayChoiceProofs -------------------------
(***************************************************************************)
(* What is shown of the BSSIDs heard, for any number of them, whatever     *)
(* they report, in whatever order beacons, expiries and refreshes come:    *)
(* estimated radios are sound, and a choice is never kept for longer than  *)
(* its reasons hold.                                                       *)
(***************************************************************************)
EXTENDS DisplayChoice, FiniteSetTheorems, NaturalsInduction, WellFoundedInduction, TLAPS

-----------------------------------------------------------------------------
(* Greatest members.                                                       *)

\* A set of numbers has a least one.
LEMMA LeastNumber ==
  ASSUME NEW T \in SUBSET Nat, T # {}
  PROVE  \E n \in T : \A k \in T : n <= k
<1>1. PICK m \in T : \A k \in T : ~(<<k, m>> \in OpToRel(<, Nat))
  BY NatLessThanWellFounded, WFMin
<1>2. ASSUME NEW k \in T PROVE m <= k
  <2>1. SUFFICES ASSUME k < m PROVE FALSE
    OBVIOUS
  <2>2. <<k, m>> \in Nat \X Nat /\ <<k, m>>[1] < <<k, m>>[2]
    BY <2>1
  <2>3. <<k, m>> \in {ss \in Nat \X Nat : ss[1] < ss[2]}
    BY <2>2
  <2>4. OpToRel(<, Nat) = {ss \in Nat \X Nat : ss[1] < ss[2]}
    BY DEF OpToRel
  <2> QED BY <1>1, <2>3, <2>4
<1> QED BY <1>2

\* A finite set has a greatest member, by any total and transitive relation.
LEMMA Greatest ==
  ASSUME NEW S, IsFiniteSet(S), S # {}, NEW R,
         \A x, y \in S : <<x, y>> \in R \/ <<y, x>> \in R,
         \A x, y, z \in S : <<x, y>> \in R /\ <<y, z>> \in R => <<x, z>> \in R
  PROVE  \E m \in S : \A x \in S : <<x, m>> \in R
<1> DEFINE Has(U) == \E m \in U : \A x \in U : <<x, m>> \in R
           T == {n \in Nat : \E U \in SUBSET S : U # {} /\ Cardinality(U) = n /\ ~Has(U)}
<1>1. ASSUME T # {}
      PROVE  FALSE
  <2>1. PICK n \in T : \A k \in T : n <= k
    <3>1. T \in SUBSET Nat
      OBVIOUS
    <3> HIDE DEF T
    <3> QED BY <1>1, <3>1, LeastNumber
  <2>2. PICK U \in SUBSET S : U # {} /\ Cardinality(U) = n /\ ~Has(U)
    BY <2>1
  <2>3. PICK x \in U : TRUE
    BY <2>2
  <2>4. IsFiniteSet(U)
    BY <2>2, FS_Subset
  <2>5. Cardinality(U \ {x}) = n - 1 /\ n \in Nat /\ IsFiniteSet(U \ {x})
    BY <2>1, <2>2, <2>3, <2>4, FS_RemoveElement
  <2>6. Cardinality(U \ {x}) \in Nat
    BY <2>5, FS_CardinalityType
  <2>7. CASE U \ {x} = {}
    <3>1. <<x, x>> \in R
      BY <2>2, <2>3
    <3>2. \A y \in U : y = x
      BY <2>7
    <3> QED BY <2>2, <2>3, <3>1, <3>2
  <2>8. CASE U \ {x} # {}
    <3>1. U \ {x} \in SUBSET S
      BY <2>2
    <3>2. n - 1 \notin T
      BY <2>1, <2>5
    <3>3. Has(U \ {x})
      <4> HIDE DEF Has
      <4> QED BY <2>5, <2>6, <2>8, <3>1, <3>2
    <3>4. PICK m \in U \ {x} : \A y \in U \ {x} : <<y, m>> \in R
      BY <3>3
    <3>5. m \in S /\ x \in S /\ m \in U /\ U \subseteq S
      BY <2>2, <2>3, <3>4
    <3>6. CASE <<x, m>> \in R
      <4>1. \A y \in U : <<y, m>> \in R
        BY <3>4, <3>6
      <4> QED BY <2>2, <3>5, <4>1
    <3>7. CASE <<m, x>> \in R
      <4>1. \A y \in U : <<y, x>> \in R
        BY <3>4, <3>5, <3>7
      <4> QED BY <2>2, <2>3, <4>1
    <3> QED BY <3>5, <3>6, <3>7
  <2> QED BY <2>7, <2>8
<1>2. Cardinality(S) \in Nat
  BY FS_CardinalityType
<1>3. Has(S)
  <2> HIDE DEF Has
  <2> QED BY <1>1, <1>2
<1> QED BY <1>3

\* The largest of finitely many numbers.
LEMMA Largest ==
  ASSUME NEW S \in SUBSET Int, IsFiniteSet(S), S # {}
  PROVE  /\ Max(S) \in S /\ \A k \in S : k <= Max(S)
         /\ Min(S) \in S /\ \A k \in S : Min(S) <= k
<1> DEFINE Up == {p \in S \X S : p[1] <= p[2]}
           Down == {p \in S \X S : p[2] <= p[1]}
<1>1. /\ \A x, y \in S : <<x, y>> \in Up <=> x <= y
      /\ \A x, y \in S : <<x, y>> \in Down <=> y <= x
  OBVIOUS
<1> HIDE DEF Up, Down
<1>2. \E m \in S : \A x \in S : <<x, m>> \in Up
  <2>1. ASSUME NEW x \in S, NEW y \in S
        PROVE  <<x, y>> \in Up \/ <<y, x>> \in Up
    <3>1. x \in Int /\ y \in Int /\ (x <= y \/ y <= x)
      OBVIOUS
    <3> QED BY <1>1, <3>1
  <2>2. \A x, y, z \in S : <<x, y>> \in Up /\ <<y, z>> \in Up => <<x, z>> \in Up
    BY <1>1
  <2> QED BY <2>1, <2>2, Greatest
<1>3. \E m \in S : \A x \in S : <<x, m>> \in Down
  <2>1. ASSUME NEW x \in S, NEW y \in S
        PROVE  <<x, y>> \in Down \/ <<y, x>> \in Down
    <3>1. x \in Int /\ y \in Int /\ (x <= y \/ y <= x)
      OBVIOUS
    <3> QED BY <1>1, <3>1
  <2>2. \A x, y, z \in S : <<x, y>> \in Down /\ <<y, z>> \in Down => <<x, z>> \in Down
    BY <1>1
  <2> QED BY <2>1, <2>2, Greatest
<1>4. Max(S) \in S /\ \A k \in S : k <= Max(S)
  <2>1. \E m \in S : \A k \in S : m >= k
    BY <1>1, <1>2
  <2> QED BY <2>1 DEF Max
<1>5. Min(S) \in S /\ \A k \in S : Min(S) <= k
  <2>1. \E m \in S : \A k \in S : m <= k
    BY <1>1, <1>3
  <2> QED BY <2>1 DEF Min
<1> QED BY <1>4, <1>5

-----------------------------------------------------------------------------
(* Ascending order.                                                        *)

Rank(S, n) == Cardinality({m \in S : m < n})

\* Of two members the larger has more below it.
LEMMA RanksRise ==
  ASSUME NEW S \in SUBSET Int, IsFiniteSet(S), NEW m \in S, NEW n \in S, m < n
  PROVE  Rank(S, m) \in Nat /\ Rank(S, n) \in Nat /\ Rank(S, m) < Rank(S, n)
<1> DEFINE L == {k \in S : k < m}
           U == {k \in S : k < n}
<1>1. IsFiniteSet(L) /\ IsFiniteSet(U)
  <2>1. L \subseteq S /\ U \subseteq S
    OBVIOUS
  <2> QED BY <2>1, FS_Subset
<1>2. Cardinality(L) \in Nat /\ Cardinality(U) \in Nat
  BY <1>1, FS_CardinalityType
<1>3. m \in Int /\ n \in Int /\ m \notin L
  OBVIOUS
<1>4. Cardinality(L \cup {m}) = Cardinality(L) + 1
  BY <1>1, <1>3, FS_AddElement
<1>5. L \cup {m} \subseteq U
  <2>1. \A k \in L : k \in S /\ k < n
    BY <1>3
  <2> QED BY <2>1
<1> HIDE DEF L, U
<1>6. Cardinality(L \cup {m}) <= Cardinality(U)
  BY <1>1, <1>5, FS_Subset
<1> QED BY <1>2, <1>4, <1>6 DEF Rank, L, U

\* Every rank is some member's.
LEMMA RankTaken ==
  ASSUME NEW S \in SUBSET Int, IsFiniteSet(S), NEW k \in 1..Cardinality(S)
  PROVE  \E n \in S : Rank(S, n) = k - 1
<1>1. Cardinality(S) \in Nat
  BY FS_CardinalityType
<1>2. \A n \in S : Rank(S, n) \in Nat
  <2>1. ASSUME NEW n \in S
        PROVE  Rank(S, n) \in Nat
    <3>1. {m \in S : m < n} \subseteq S
      OBVIOUS
    <3>2. IsFiniteSet({m \in S : m < n})
      BY <3>1, FS_Subset
    <3> QED BY <3>2, FS_CardinalityType DEF Rank
  <2> QED BY <2>1
<1>3. ASSUME NEW L \in SUBSET S, L # {}, \A m \in S : m < Max(L) => m \in L
      PROVE  Max(L) \in L /\ Rank(S, Max(L)) = Cardinality(L) - 1
  <2>1. IsFiniteSet(L) /\ L \in SUBSET Int
    BY FS_Subset
  <2>2. Max(L) \in L /\ \A m \in L : m <= Max(L)
    BY <1>3, <2>1, Largest
  <2>3. {m \in S : m < Max(L)} = L \ {Max(L)}
    <3>1. Max(L) \in Int
      BY <2>1, <2>2
    <3>2. \A m \in L : m < Max(L) \/ m = Max(L)
      BY <2>1, <2>2, <3>1
    <3>3. \A m \in S : m < Max(L) => m \in L /\ m # Max(L)
      BY <1>3, <3>1
    <3>4. \A m \in L \ {Max(L)} : m \in S /\ m < Max(L)
      BY <3>2
    <3> HIDE <1>3
    <3> QED BY <3>3, <3>4
  <2>4. Cardinality(L \ {Max(L)}) = Cardinality(L) - 1
    BY <2>1, <2>2, FS_RemoveElement
  <2> QED BY <2>2, <2>3, <2>4 DEF Rank
<1> DEFINE T == {n \in S : Rank(S, n) >= k - 1}
<1>4. S # {}
  BY <1>1, FS_EmptySet
<1>5. Max(S) \in S /\ Rank(S, Max(S)) = Cardinality(S) - 1
  BY <1>3, <1>4
<1>6. T # {} /\ T \subseteq S
  BY <1>1, <1>5
<1>7. Min(T) \in T /\ \A n \in T : Min(T) <= n
  <2>1. IsFiniteSet(T) /\ T \in SUBSET Int
    BY <1>6, FS_Subset
  <2> HIDE DEF T
  <2> QED BY <1>6, <2>1, Largest
<1> DEFINE n == Min(T)
           L == {m \in S : m < n}
<1>8. n \in S /\ n \in Int /\ Rank(S, n) >= k - 1 /\ Rank(S, n) = Cardinality(L)
  BY <1>7 DEF Rank
<1>9. \A m \in L : m \in S /\ m \in Int /\ m < n /\ m \notin T
  BY <1>7, <1>8
<1>10. \A m \in L : Rank(S, m) < k - 1
  BY <1>2, <1>9
<1>11. CASE L = {}
  <2>1. Cardinality(L) = 0
    BY <1>11, FS_EmptySet
  <2> QED BY <1>8, <2>1
<1>12. CASE L # {}
  <2>1. \A m \in S : m < Max(L) => m \in L
    <3>1. IsFiniteSet(L) /\ L \in SUBSET Int
      BY FS_Subset
    <3>2. Max(L) \in L
      <4> HIDE DEF L
      <4> QED BY <1>12, <3>1, Largest
    <3>3. Max(L) \in Int /\ Max(L) < n
      BY <1>9, <3>2
    <3>4. \A m \in S : m < Max(L) => m < n
      BY <1>8, <3>3
    <3> QED BY <3>4
  <2>2. Max(L) \in L /\ Rank(S, Max(L)) = Cardinality(L) - 1
    <3>1. L \in SUBSET S
      OBVIOUS
    <3> HIDE DEF L
    <3> QED BY <1>3, <1>12, <2>1, <3>1
  <2>3. Rank(S, Max(L)) < k - 1
    BY <1>10, <2>2
  <2>4. Rank(S, n) \in Nat /\ Rank(S, Max(L)) \in Nat
    BY <1>2, <1>8, <1>9, <2>2
  <2> HIDE DEF L, n
  <2>5. Rank(S, n) = k - 1
    BY <1>1, <1>8, <2>2, <2>3, <2>4
  <2> QED BY <1>8, <2>5
<1> QED BY <1>11, <1>12

\* Ascending lists every member once, in order.
LEMMA InOrder ==
  ASSUME NEW S \in SUBSET Int, IsFiniteSet(S), NEW q, q = Ascending(S)
  PROVE  /\ Cardinality(S) \in Nat /\ q \in Seq(S) /\ Len(q) = Cardinality(S)
         /\ DOMAIN q = 1..Cardinality(S)
         /\ \A i, j \in DOMAIN q : i < j => q[i] < q[j]
         /\ \A n \in S : \E i \in DOMAIN q : q[i] = n
<1> DEFINE c == Cardinality(S)
<1>1. c \in Nat
  BY FS_CardinalityType
<1>2. q = [k \in 1..c |-> Nth(S, k)]
  BY DEF Ascending
<1>3. \A k \in 1..c : Nth(S, k) \in S /\ Rank(S, Nth(S, k)) = k - 1
  <2> SUFFICES ASSUME NEW k \in 1..c
               PROVE  Nth(S, k) \in S /\ Rank(S, Nth(S, k)) = k - 1
    OBVIOUS
  <2>1. \E n \in S : Rank(S, n) = k - 1
    BY RankTaken
  <2>2. Nth(S, k) = CHOOSE n \in S : Rank(S, n) = k - 1
    BY DEF Nth, Rank
  <2> QED BY <2>1, <2>2
<1>4. q \in [1..c -> S] /\ DOMAIN q = 1..c /\ \A k \in 1..c : Rank(S, q[k]) = k - 1
  BY <1>2, <1>3
<1> HIDE DEF c
<1>5. q \in Seq(S) /\ Len(q) = c
  BY <1>1, <1>4
<1>6. ASSUME NEW i \in 1..c, NEW j \in 1..c, i < j
      PROVE  q[i] < q[j]
  <2>1. q[i] \in S /\ q[j] \in S /\ q[i] \in Int /\ q[j] \in Int
    BY <1>4
  <2>2. q[j] < q[i] => Rank(S, q[j]) < Rank(S, q[i])
    BY <2>1, RanksRise
  <2>3. Rank(S, q[i]) = i - 1 /\ Rank(S, q[j]) = j - 1
    BY <1>4
  <2>4. q[i] # q[j]
    BY <1>6, <2>3
  <2> QED BY <1>1, <1>6, <2>1, <2>2, <2>3, <2>4
<1>7. ASSUME NEW n \in S
      PROVE  \E i \in 1..c : q[i] = n
  <2> DEFINE L == {m \in S : m < n}
  <2>1. IsFiniteSet(L)
    <3>1. L \subseteq S
      OBVIOUS
    <3> QED BY <3>1, FS_Subset
  <2>2. n \in Int /\ n \notin L /\ L \cup {n} \subseteq S
    OBVIOUS
  <2>3. Cardinality(L) \in Nat /\ Cardinality(L \cup {n}) = Cardinality(L) + 1
        /\ Cardinality(L \cup {n}) <= Cardinality(S)
    BY <2>1, <2>2, FS_CardinalityType, FS_AddElement, FS_Subset
  <2>4. Rank(S, n) = Cardinality(L)
    BY DEF Rank
  <2> HIDE DEF L
  <2>5. Rank(S, n) + 1 \in 1..c /\ Rank(S, n) \in Nat
    BY <1>1, <2>3, <2>4 DEF c
  <2> DEFINE i == Rank(S, n) + 1
  <2>6. Rank(S, q[i]) = Rank(S, n) /\ q[i] \in S
    BY <1>4, <2>5
  <2>7. q[i] \in Int /\ ~(q[i] < n) /\ ~(n < q[i])
    <3>1. \A x \in S : Rank(S, x) = Rank(S, n) => ~(x < n) /\ ~(n < x)
      <4> SUFFICES ASSUME NEW x \in S, Rank(S, x) = Rank(S, n)
                   PROVE  ~(x < n) /\ ~(n < x)
        OBVIOUS
      <4>1. x < n => Rank(S, x) < Rank(S, n)
        BY RanksRise
      <4>2. n < x => Rank(S, n) < Rank(S, x)
        BY RanksRise
      <4>3. ~(Rank(S, n) < Rank(S, n))
        BY <2>5
      <4> QED BY <4>1, <4>2, <4>3
    <3> QED BY <2>6, <3>1
  <2>8. q[i] = n
    BY <2>2, <2>7
  <2> QED BY <2>5, <2>8
<1> QED BY <1>1, <1>4, <1>5, <1>6, <1>7 DEF c

-----------------------------------------------------------------------------
(* States in the order of their addresses.                                 *)

\* Finitely many states of different BSSIDs.
Addressed(states) ==
  /\ IsFiniteSet(states) /\ states \subseteq BssidState
  /\ \A s, t \in states : s.bssid = t.bssid => s = t

\* Some of them are such states too.
LEMMA SomeAddressed ==
  ASSUME NEW states, Addressed(states), NEW some \in SUBSET states
  PROVE  Addressed(some)
BY FS_Subset DEF Addressed

\* Their addresses are finitely many numbers.
LEMMA TheirBssids ==
  ASSUME NEW states, Addressed(states)
  PROVE  /\ IsFiniteSet(BssidsOf(states)) /\ BssidsOf(states) \subseteq Nat
         /\ \A b \in BssidsOf(states) : \E s \in states : s.bssid = b
         /\ \A s \in states : s.bssid \in BssidsOf(states) /\ s.bssid \in Nat
<1> DEFINE f == [s \in states |-> s.bssid]
<1>1. f \in Surjection(states, BssidsOf(states))
  BY DEF BssidsOf, Surjection
<1>2. IsFiniteSet(states) /\ \A s \in states : s \in BssidState
  BY DEF Addressed
<1>3. IsFiniteSet(BssidsOf(states))
  BY <1>1, <1>2, FS_Surjection
<1>4. \A s \in states : s.bssid \in Nat
  BY <1>2 DEF BssidState
<1> QED BY <1>3, <1>4 DEF BssidsOf

\* The code's sorted order of states.
LEMMA ByAddresses ==
  ASSUME NEW states, Addressed(states), NEW order, order = ByAddress(states)
  PROVE  /\ order \in Seq(states) /\ Len(order) \in Nat /\ DOMAIN order = 1..Len(order)
         /\ \A i, j \in 1..Len(order) : i < j => order[i].bssid < order[j].bssid
         /\ \A s \in states : \E i \in 1..Len(order) : order[i] = s
<1> DEFINE q == Ascending(BssidsOf(states))
<1>1. /\ q \in Seq(BssidsOf(states)) /\ Len(q) \in Nat /\ DOMAIN q = 1..Len(q)
      /\ \A i, j \in DOMAIN q : i < j => q[i] < q[j]
      /\ \A b \in BssidsOf(states) : \E i \in DOMAIN q : q[i] = b
  <2>1. BssidsOf(states) \in SUBSET Int /\ IsFiniteSet(BssidsOf(states))
    BY TheirBssids
  <2> QED BY <2>1, InOrder
<1>2. order = [k \in DOMAIN q |-> CHOOSE s \in states : s.bssid = q[k]]
  BY DEF ByAddress
<1> HIDE DEF q
<1>3. ASSUME NEW k \in DOMAIN q
      PROVE  order[k] \in states /\ order[k].bssid = q[k]
  <2>1. q[k] \in BssidsOf(states)
    BY <1>1
  <2>2. \E s \in states : s.bssid = q[k]
    BY <2>1, TheirBssids
  <2> QED BY <1>2, <2>2
<1>4. order \in Seq(states) /\ Len(order) = Len(q) /\ DOMAIN order = 1..Len(order)
  <2>1. order \in [1..Len(q) -> states]
    BY <1>1, <1>2, <1>3
  <2> QED BY <1>1, <2>1
<1>5. ASSUME NEW s \in states
      PROVE  \E i \in 1..Len(order) : order[i] = s
  <2>1. PICK i \in DOMAIN q : q[i] = s.bssid
    BY <1>1, TheirBssids
  <2>2. order[i] \in states /\ order[i].bssid = s.bssid
    BY <1>3, <2>1
  <2>3. order[i] = s
    BY <2>2 DEF Addressed
  <2>4. i \in 1..Len(order)
    BY <1>1, <1>4
  <2> QED BY <2>3, <2>4
<1>6. Len(order) \in Nat /\ DOMAIN q = 1..Len(order)
  BY <1>1, <1>4
<1>7. ASSUME NEW i \in 1..Len(order), NEW j \in 1..Len(order), i < j
      PROVE  order[i].bssid < order[j].bssid
  <2>1. i \in DOMAIN q /\ j \in DOMAIN q
    BY <1>6
  <2>2. q[i] < q[j]
    BY <1>1, <1>7, <2>1
  <2> QED BY <1>3, <2>1, <2>2
<1> QED BY <1>4, <1>5, <1>6, <1>7

-----------------------------------------------------------------------------
(* Likely one radio.                                                       *)

\* It does not matter which of two is looked at first.
LEMMA Alike ==
  ASSUME NEW s \in BssidState, NEW t \in BssidState
  PROVE  /\ likely_same_radio(s, s) /\ likely_same_radio(s, t) \in BOOLEAN
         /\ likely_same_radio(s, t) = likely_same_radio(t, s)
<1>1. s.bssid \in Nat /\ t.bssid \in Nat /\ s.peak \in Reading /\ t.peak \in Reading
  BY DEF BssidState
<1>2. \A m, n \in Int : Distance(m, n) = Distance(n, m)
  BY DEF Distance
<1>3. ASSUME NEW limit
      PROVE  Near(s, t, limit) = Near(t, s, limit)
  <2>1. s.peak # None /\ t.peak # None => s.peak \in Int /\ t.peak \in Int
    BY <1>1 DEF Reading
  <2> QED BY <1>2, <2>1 DEF Near
<1>4. related_bssid_macs(s.bssid, t.bssid) = related_bssid_macs(t.bssid, s.bssid)
  <2>1. {i \in 1..3 : Digits(s.bssid)[i] # Digits(t.bssid)[i]}
          = {i \in 1..3 : Digits(t.bssid)[i] # Digits(s.bssid)[i]}
    OBVIOUS
  <2> QED BY <1>1, <1>2, <2>1 DEF related_bssid_macs
<1> QED BY <1>3, <1>4 DEF likely_same_radio

-----------------------------------------------------------------------------
(* Estimated radios.                                                       *)

\* The groups of some states, in the order in which they were opened.
Grouped(groups, states) ==
  /\ groups \in Seq(SUBSET states)
  /\ \A s \in states : \E i \in DOMAIN groups : s \in groups[i]
  /\ \A i \in DOMAIN groups :
       groups[i] # {} /\ \A x, y \in groups[i] : likely_same_radio(x, y)
  /\ \A i, j \in DOMAIN groups : i < j =>
       /\ groups[i] \cap groups[j] = {}
       /\ \E x \in groups[i], y \in groups[j] : ~likely_same_radio(x, y)

\* A state joins the first group that is compatible, or opens one.
LEMMA Joining ==
  ASSUME NEW states \in SUBSET BssidState, NEW groups, Grouped(groups, states),
         NEW s \in BssidState, s \notin states
  PROVE  Grouped(Joined(groups, s), states \cup {s})
<1> DEFINE n == Len(groups)
           all == states \cup {s}
           open == {i \in DOMAIN groups :
                      \A member \in groups[i] : likely_same_radio(s, member)}
<1>1. /\ n \in Nat /\ DOMAIN groups = 1..n /\ groups \in Seq(SUBSET states)
      /\ \A i \in 1..n : groups[i] \subseteq states /\ groups[i] # {}
      /\ \A i \in 1..n : \A x, y \in groups[i] : likely_same_radio(x, y)
      /\ \A x \in states : \E i \in 1..n : x \in groups[i]
  BY DEF Grouped
<1>2. \A i, j \in 1..n : i < j =>
        /\ groups[i] \cap groups[j] = {}
        /\ \E x \in groups[i], y \in groups[j] : ~likely_same_radio(x, y)
  BY <1>1 DEF Grouped
<1>3. \A x \in states : likely_same_radio(s, x) = likely_same_radio(x, s)
  BY Alike
<1>4. likely_same_radio(s, s)
  BY Alike
<1>0. PICK joined : joined = Joined(groups, s)
  OBVIOUS
<1>5. joined = IF open = {} THEN Append(groups, {s})
               ELSE [groups EXCEPT ![Min(open)] = @ \cup {s}]
  BY <1>0 DEF Joined
<1>6. CASE open = {}
  <2>1. /\ joined = Append(groups, {s}) /\ joined \in Seq(SUBSET all)
        /\ DOMAIN joined = 1..(n + 1) /\ joined[n + 1] = {s}
        /\ \A i \in 1..n : joined[i] = groups[i]
    <3>1. groups \in Seq(SUBSET all) /\ {s} \in SUBSET all
      BY <1>1
    <3> HIDE DEF open, all
    <3> QED BY <1>1, <1>5, <1>6, <3>1
  <2>2. \A x \in all : \E i \in 1..(n + 1) : x \in joined[i]
    <3>1. \A x \in states : \E i \in 1..n : x \in joined[i]
      BY <1>1, <2>1
    <3>2. 1..n \subseteq 1..(n + 1) /\ n + 1 \in 1..(n + 1)
      BY <1>1
    <3>3. s \in joined[n + 1]
      BY <2>1
    <3> QED BY <3>1, <3>2, <3>3
  <2>3. \A i \in 1..(n + 1) : i \in 1..n \/ i = n + 1
    BY <1>1
  <2>4. ASSUME NEW i \in 1..(n + 1)
        PROVE  joined[i] # {} /\ \A x, y \in joined[i] : likely_same_radio(x, y)
    BY <1>1, <1>4, <2>1, <2>3
  <2>5. ASSUME NEW i \in 1..(n + 1), NEW j \in 1..(n + 1), i < j
        PROVE  /\ joined[i] \cap joined[j] = {}
               /\ \E x \in joined[i], y \in joined[j] : ~likely_same_radio(x, y)
    <3>1. i \in 1..n
      BY <1>1, <2>5
    <3>2. CASE j \in 1..n
      BY <1>2, <2>1, <2>5, <3>1, <3>2
    <3>3. CASE j = n + 1
      <4>1. i \notin open
        BY <1>6
      <4>2. PICK member \in groups[i] : ~likely_same_radio(s, member)
        BY <1>1, <3>1, <4>1
      <4>3. member \in states /\ ~likely_same_radio(member, s)
        BY <1>1, <1>3, <3>1, <4>2
      <4>4. groups[i] \cap {s} = {}
        BY <1>1, <3>1
      <4> QED BY <2>1, <3>1, <3>3, <4>2, <4>3, <4>4
    <3> QED BY <2>3, <3>2, <3>3
  <2>6. Grouped(joined, all)
    <3>1. joined \in Seq(SUBSET all) /\ \A x \in all : \E i \in DOMAIN joined : x \in joined[i]
      BY <2>1, <2>2
    <3>2. \A i \in DOMAIN joined :
            joined[i] # {} /\ \A x, y \in joined[i] : likely_same_radio(x, y)
      BY <2>1, <2>4
    <3>3. \A i, j \in DOMAIN joined : i < j =>
            /\ joined[i] \cap joined[j] = {}
            /\ \E x \in joined[i], y \in joined[j] : ~likely_same_radio(x, y)
      BY <2>1, <2>5
    <3> HIDE DEF all
    <3> QED BY <3>1, <3>2, <3>3 DEF Grouped
  <2> QED BY <1>0, <2>6
<1>7. CASE open # {}
  <2> DEFINE m == Min(open)
  <2>1. m \in open
    <3>1. open \in SUBSET Int /\ IsFiniteSet(open)
      <4>1. open \subseteq 1..n /\ open \subseteq Int
        BY <1>1
      <4>2. IsFiniteSet(1..n)
        BY <1>1, FS_Interval
      <4> HIDE DEF open
      <4> QED BY <4>1, <4>2, FS_Subset
    <3> HIDE DEF open
    <3> QED BY <1>7, <3>1, Largest
  <2>2. m \in 1..n /\ \A member \in groups[m] : likely_same_radio(s, member)
    BY <1>1, <2>1
  <2> HIDE DEF m
  <2>3. /\ joined \in Seq(SUBSET all) /\ DOMAIN joined = 1..n
        /\ \A i \in 1..n : joined[i] = IF i = m THEN groups[m] \cup {s} ELSE groups[i]
    <3>1. joined = [groups EXCEPT ![m] = @ \cup {s}]
      BY <1>5, <1>7 DEF m
    <3>2. \A i \in 1..n : groups[i] \in SUBSET all
      BY <1>1
    <3>3. groups[m] \cup {s} \in SUBSET all
      BY <1>1, <2>2
    <3>4. groups \in [1..n -> SUBSET all]
      BY <1>1, <3>2
    <3> HIDE DEF all, open
    <3>5. joined \in [1..n -> SUBSET all]
      BY <3>1, <3>3, <3>4
    <3>6. joined \in Seq(SUBSET all) /\ DOMAIN joined = 1..n
      <4>1. n \in Nat
        BY <1>1
      <4> QED BY <3>5, <4>1
    <3>7. \A i \in 1..n : joined[i] = IF i = m THEN groups[m] \cup {s} ELSE groups[i]
      BY <3>1, <3>4
    <3> QED BY <3>6, <3>7
  <2>4. \A i \in 1..n : groups[i] \subseteq joined[i]
    BY <2>3
  <2>5. \A x \in all : \E i \in 1..n : x \in joined[i]
    BY <1>1, <2>2, <2>3, <2>4
  <2>6. ASSUME NEW i \in 1..n
        PROVE  joined[i] # {} /\ \A x, y \in joined[i] : likely_same_radio(x, y)
    <3>1. CASE i # m
      BY <1>1, <2>3, <3>1
    <3>2. CASE i = m
      <4>1. joined[i] = groups[m] \cup {s}
        BY <2>3, <3>2
      <4>2. \A x \in groups[m] : likely_same_radio(s, x) /\ likely_same_radio(x, s)
        BY <1>1, <1>3, <2>2
      <4> QED BY <1>1, <1>4, <2>2, <4>1, <4>2
    <3> QED BY <3>1, <3>2
  <2>7. ASSUME NEW i \in 1..n, NEW j \in 1..n, i < j
        PROVE  /\ joined[i] \cap joined[j] = {}
               /\ \E x \in joined[i], y \in joined[j] : ~likely_same_radio(x, y)
    <3>1. groups[i] \cap groups[j] = {} /\ s \notin groups[i] /\ s \notin groups[j]
      BY <1>1, <1>2, <2>7
    <3>2. ~(i = m /\ j = m)
      BY <2>7
    <3>3. joined[i] \cap joined[j] = {}
      BY <2>3, <3>1, <3>2
    <3> QED BY <1>2, <2>4, <2>7, <3>3
  <2>8. Grouped(joined, all)
    <3>1. joined \in Seq(SUBSET all) /\ \A x \in all : \E i \in DOMAIN joined : x \in joined[i]
      BY <2>3, <2>5
    <3>2. \A i \in DOMAIN joined :
            joined[i] # {} /\ \A x, y \in joined[i] : likely_same_radio(x, y)
      BY <2>3, <2>6
    <3>3. \A i, j \in DOMAIN joined : i < j =>
            /\ joined[i] \cap joined[j] = {}
            /\ \E x \in joined[i], y \in joined[j] : ~likely_same_radio(x, y)
      BY <2>3, <2>7
    <3> HIDE DEF all
    <3> QED BY <3>1, <3>2, <3>3 DEF Grouped
  <2> QED BY <1>0, <2>8
<1> QED BY <1>6, <1>7

\* What Placed defines, for the first k states.
Placing(f, order, k) ==
  f = [n \in 0..k |-> IF n = 0 THEN << >> ELSE Joined(f[n - 1], order[n])]

\* It is defined.
LEMMA PlacedExists ==
  ASSUME NEW order, Len(order) \in Nat
  PROVE  \E f : Placing(f, order, Len(order))
<1> DEFINE T == {k \in Nat : ~(\E f : Placing(f, order, k))}
<1>1. ASSUME T # {}
      PROVE  FALSE
  <2>1. PICK k \in T : \A i \in T : k <= i
    <3>1. T \in SUBSET Nat
      OBVIOUS
    <3> HIDE DEF T
    <3> QED BY <1>1, <3>1, LeastNumber
  <2>2. k \in Nat /\ ~(\E f : Placing(f, order, k))
    BY <2>1
  <2>3. CASE k = 0
    <3> DEFINE f == [n \in 0..0 |-> << >>]
    <3>1. f = [n \in 0..0 |-> IF n = 0 THEN << >> ELSE Joined(f[n - 1], order[n])]
      OBVIOUS
    <3> HIDE DEF f
    <3> QED BY <2>2, <2>3, <3>1 DEF Placing
  <2>4. CASE k # 0
    <3>1. k - 1 \in Nat /\ k - 1 \notin T
      BY <2>1, <2>2, <2>4
    <3>2. PICK g : Placing(g, order, k - 1)
      BY <3>1
    <3> DEFINE f == [n \in 0..k |-> IF n = k THEN Joined(g[k - 1], order[k]) ELSE g[n]]
    <3>3. \A n \in 0..(k - 1) :
            g[n] = IF n = 0 THEN << >> ELSE Joined(g[n - 1], order[n])
      BY <3>2 DEF Placing
    <3>4. \A n \in 0..(k - 1) : f[n] = g[n]
      BY <2>2
    <3>5. f[k] = Joined(g[k - 1], order[k]) /\ f[k - 1] = g[k - 1]
      BY <2>2, <2>4
    <3>6. ASSUME NEW n \in 0..k
          PROVE  f[n] = IF n = 0 THEN << >> ELSE Joined(f[n - 1], order[n])
      <4>1. CASE n = k
        BY <2>4, <3>5, <4>1
      <4>2. CASE n = 0
        BY <2>2, <2>4, <3>3, <3>4, <4>2
      <4>3. CASE n # k /\ n # 0
        <5>1. n \in 0..(k - 1) /\ n - 1 \in 0..(k - 1)
          BY <2>2, <4>3
        <5> HIDE DEF f
        <5> QED BY <3>3, <3>4, <4>3, <5>1
      <4> QED BY <4>1, <4>2, <4>3
    <3>7. f = [n \in 0..k |-> f[n]]
      OBVIOUS
    <3> HIDE DEF f
    <3>8. Placing(f, order, k)
      BY <3>6, <3>7 DEF Placing
    <3> QED BY <2>2, <3>8
  <2> QED BY <2>3, <2>4
<1>2. Len(order) \notin T
  <2> HIDE DEF T
  <2> QED BY <1>1
<1> QED BY <1>2

\* The states join one after the other.
LEMMA PlacedStep ==
  ASSUME NEW order, Len(order) \in Nat
  PROVE  /\ Placed(order)[0] = << >>
         /\ \A n \in 1..Len(order) :
              Placed(order)[n] = Joined(Placed(order)[n - 1], order[n])
<1> DEFINE g == Placed(order)
<1>1. g = [n \in 0..Len(order) |-> IF n = 0 THEN << >> ELSE Joined(g[n - 1], order[n])]
  BY PlacedExists DEF Placed, Placing
<1> HIDE DEF g
<1>2. g[0] = << >> /\ \A n \in 1..Len(order) : g[n] = Joined(g[n - 1], order[n])
  BY <1>1
<1> QED BY <1>2 DEF g

\* All of them are grouped in the end.
LEMMA Grouping ==
  ASSUME NEW states, Addressed(states), NEW order, order = ByAddress(states)
  PROVE  Grouped(Placed(order)[Len(order)], states)
<1>1. /\ order \in Seq(states) /\ Len(order) \in Nat /\ DOMAIN order = 1..Len(order)
      /\ \A i, j \in 1..Len(order) : i < j => order[i].bssid < order[j].bssid
      /\ \A s \in states : \E i \in 1..Len(order) : order[i] = s
  BY ByAddresses
<1> DEFINE First(n) == {order[i] : i \in 1..n}
           T == {n \in 0..Len(order) : ~Grouped(Placed(order)[n], First(n))}
<1>2. /\ Placed(order)[0] = << >>
      /\ \A n \in 1..Len(order) : Placed(order)[n] = Joined(Placed(order)[n - 1], order[n])
  BY <1>1, PlacedStep
<1>3. Grouped(Placed(order)[0], First(0))
  <2>1. First(0) = {} /\ << >> \in Seq(SUBSET First(0)) /\ DOMAIN << >> = {}
    OBVIOUS
  <2> HIDE DEF First
  <2> QED BY <1>2, <2>1 DEF Grouped
<1>4. ASSUME NEW n \in 1..Len(order), Grouped(Placed(order)[n - 1], First(n - 1))
      PROVE  Grouped(Placed(order)[n], First(n))
  <2>1. \A i \in 1..(n - 1) : i \in 1..Len(order) /\ i < n
    BY <1>1
  <2>2. \A i \in 1..Len(order) : order[i] \in states /\ order[i] \in BssidState
                                   /\ order[i].bssid \in Nat
    BY <1>1 DEF Addressed, BssidState
  <2>3. order[n] \notin First(n - 1)
    <3>1. \A i \in 1..(n - 1) : order[i].bssid < order[n].bssid
      BY <1>1, <2>1
    <3>2. \A i \in 1..(n - 1) : order[i] # order[n]
      BY <2>1, <2>2, <3>1
    <3> QED BY <3>2
  <2>4. First(n - 1) \in SUBSET BssidState
    BY <2>1, <2>2
  <2>5. First(n) = First(n - 1) \cup {order[n]}
    <3>1. 1..n = 1..(n - 1) \cup {n}
      BY <1>1
    <3> QED BY <3>1
  <2> HIDE DEF First
  <2>6. Grouped(Joined(Placed(order)[n - 1], order[n]), First(n - 1) \cup {order[n]})
    BY <1>4, <2>2, <2>3, <2>4, Joining
  <2> QED BY <1>2, <2>5, <2>6
<1>5. ASSUME T # {}
      PROVE  FALSE
  <2>1. PICK n \in T : \A k \in T : n <= k
    <3>1. T \in SUBSET Nat
      OBVIOUS
    <3> HIDE DEF T
    <3> QED BY <1>5, <3>1, LeastNumber
  <2> HIDE DEF First
  <2>2. n \in 0..Len(order) /\ ~Grouped(Placed(order)[n], First(n))
    BY <2>1
  <2>3. n # 0
    BY <1>3, <2>2
  <2>4. n \in 1..Len(order) /\ n - 1 \in 0..Len(order) /\ n - 1 \notin T
    BY <1>1, <2>1, <2>2, <2>3
  <2>5. Grouped(Placed(order)[n - 1], First(n - 1))
    BY <2>4
  <2> QED BY <1>4, <2>2, <2>4, <2>5
<1>6. Grouped(Placed(order)[Len(order)], First(Len(order)))
  <2>1. Len(order) \in 0..Len(order) /\ Len(order) \notin T
    <3>1. Len(order) \in 0..Len(order)
      BY <1>1
    <3> HIDE DEF T
    <3> QED BY <1>5, <3>1
  <2> HIDE DEF First
  <2> QED BY <2>1
<1>7. First(Len(order)) = states
  BY <1>1
<1> HIDE DEF First
<1> QED BY <1>6, <1>7

\* A sound estimate: complete, disjoint, compatible, and not to be joined.
SoundGroups(groups, states) ==
  /\ UNION groups = states
  /\ \A g, h \in groups : g # h => g \cap h = {}
  /\ \A g \in groups : g # {} /\ \A x, y \in g : likely_same_radio(x, y)
  /\ \A g, h \in groups : g # h => \E x \in g, y \in h : ~likely_same_radio(x, y)

LEMMA Estimating ==
  ASSUME NEW states, Addressed(states)
  PROVE  /\ SoundGroups(estimate_radio_groups(states), states)
         /\ IsFiniteSet(estimate_radio_groups(states))
<1>1. PICK order : order = ByAddress(states)
  OBVIOUS
<1>2. PICK groups : groups = Placed(order)[Len(order)]
  OBVIOUS
<1>3. Grouped(groups, states)
  BY <1>1, <1>2, Grouping
<1>4. estimate_radio_groups(states) = {groups[i] : i \in DOMAIN groups}
  BY <1>1, <1>2 DEF estimate_radio_groups, ToSet
<1>5. /\ Len(groups) \in Nat /\ DOMAIN groups = 1..Len(groups)
      /\ \A i \in DOMAIN groups : groups[i] \subseteq states
  BY <1>3 DEF Grouped
<1>6. ASSUME NEW i \in DOMAIN groups, NEW j \in DOMAIN groups, groups[i] # groups[j]
      PROVE  /\ groups[i] \cap groups[j] = {}
             /\ \E x \in groups[i], y \in groups[j] : ~likely_same_radio(x, y)
  <2>1. i < j \/ j < i
    BY <1>5, <1>6
  <2>2. CASE i < j
    BY <1>3, <2>2 DEF Grouped
  <2>3. CASE j < i
    <3>1. /\ groups[j] \cap groups[i] = {}
          /\ \E x \in groups[j], y \in groups[i] : ~likely_same_radio(x, y)
      BY <1>3, <2>3 DEF Grouped
    <3>2. PICK x \in groups[j], y \in groups[i] : ~likely_same_radio(x, y)
      BY <3>1
    <3>3. ~likely_same_radio(y, x)
      <4>1. x \in BssidState /\ y \in BssidState
        BY <1>5 DEF Addressed
      <4> QED BY <3>2, <4>1, Alike
    <3> QED BY <3>1, <3>3
  <2> QED BY <2>1, <2>2, <2>3
<1>7. SoundGroups(estimate_radio_groups(states), states)
  <2>1. UNION {groups[i] : i \in DOMAIN groups} = states
    BY <1>3, <1>5 DEF Grouped
  <2>2. \A i \in DOMAIN groups :
          groups[i] # {} /\ \A x, y \in groups[i] : likely_same_radio(x, y)
    BY <1>3 DEF Grouped
  <2> QED BY <1>4, <1>6, <2>1, <2>2 DEF SoundGroups
<1>8. IsFiniteSet(estimate_radio_groups(states))
  <2> DEFINE all == {groups[i] : i \in DOMAIN groups}
             f == [i \in 1..Len(groups) |-> groups[i]]
  <2>1. f \in Surjection(1..Len(groups), all)
    BY <1>5 DEF Surjection
  <2>2. IsFiniteSet(1..Len(groups))
    BY <1>5, FS_Interval
  <2> QED BY <1>4, <2>1, <2>2, FS_Surjection
<1> QED BY <1>7, <1>8

-----------------------------------------------------------------------------
(* The selected BSSID.                                                     *)

\* Stronger signals and more stations are larger numbers.
LEMMA Measures ==
  ASSUME NEW states \in SUBSET BssidState
  PROVE  \A s \in states :
           /\ s.peak = None \/ s.peak \in Int
           /\ StationCount(s) \in Int /\ Strength(s) \in Int
           /\ s.peak # None => Strength(s) = s.peak
           /\ s.bssid \in Nat /\ s.bssid # None
BY GroupingAssumption DEF BssidState, Reading, StationCount, Strength

\* What the strongest of some states is chosen by.
Ranked(states) ==
  /\ IsFiniteSet(states)
  /\ \A s \in states : s.bssid \in Nat /\ s.peak \in Reading
  /\ \A s, t \in states : s.bssid = t.bssid => s = t

LEMMA AddressedIsRanked ==
  ASSUME NEW states, Addressed(states)
  PROVE  Ranked(states)
BY DEF Addressed, Ranked, BssidState

LEMMA SomeRanked ==
  ASSUME NEW states, Ranked(states), NEW some \in SUBSET states
  PROVE  Ranked(some)
BY FS_Subset DEF Ranked

\* The known peaks of finitely many states have a largest one.
LEMMA LargestPeak ==
  ASSUME NEW states, Addressed(states), NEW s \in states, s.peak # None
  PROVE  /\ {t.peak : t \in {u \in states : u.peak # None}} \in SUBSET Int
         /\ IsFiniteSet({t.peak : t \in {u \in states : u.peak # None}})
         /\ \E m \in states : /\ m.peak # None
                              /\ m.peak = Max({t.peak : t \in {u \in states : u.peak # None}})
         /\ \A t \in states : t.peak # None =>
              t.peak <= Max({v.peak : v \in {u \in states : u.peak # None}})
<1> DEFINE measured == {u \in states : u.peak # None}
           peaks == {t.peak : t \in measured}
           f == [t \in measured |-> t.peak]
<1>1. f \in Surjection(measured, peaks)
  BY DEF Surjection
<1>2. IsFiniteSet(measured) /\ states \in SUBSET BssidState
  <2>1. measured \subseteq states
    OBVIOUS
  <2> QED BY <2>1, FS_Subset DEF Addressed
<1>3. IsFiniteSet(peaks)
  BY <1>1, <1>2, FS_Surjection
<1>4. peaks \in SUBSET Int /\ s.peak \in peaks
  BY <1>2, Measures
<1>5. Max(peaks) \in peaks /\ \A k \in peaks : k <= Max(peaks)
  <2> HIDE DEF peaks
  <2> QED BY <1>3, <1>4, Largest
<1>6. \E m \in states : m.peak # None /\ m.peak = Max(peaks)
  BY <1>5
<1>7. \A t \in states : t.peak # None => t.peak \in peaks
  OBVIOUS
<1> QED BY <1>3, <1>4, <1>5, <1>6, <1>7

\* The reporters that are as good as the strongest.
LEMMA NearEqualIs ==
  ASSUME NEW candidates, Addressed(candidates), candidates # {}
  PROVE  /\ NearEqual(candidates) # {} /\ NearEqual(candidates) \subseteq candidates
         /\ \A s \in NearEqual(candidates), t \in candidates : t.peak # None =>
              s.peak # None /\ t.peak - s.peak <= Hysteresis
<1> DEFINE measured == {s \in candidates : s.peak # None}
           best == Max({t.peak : t \in measured})
<1>1. NearEqual(candidates)
        = IF measured = {} THEN candidates
          ELSE {s \in measured : best - s.peak <= Hysteresis}
  BY DEF NearEqual
<1>2. CASE measured = {}
  BY <1>1, <1>2
<1>3. CASE measured # {}
  <2>1. PICK s \in candidates : s.peak # None
    BY <1>3
  <2>2. /\ \E m \in candidates : m.peak # None /\ m.peak = best
        /\ \A t \in candidates : t.peak # None => t.peak <= best
    BY <2>1, LargestPeak
  <2>3. \A t \in candidates : t.peak # None => t.peak \in Int
    BY Measures DEF Addressed
  <2> HIDE DEF best
  <2>4. PICK m \in candidates : m.peak # None /\ m.peak = best
    BY <2>2
  <2>5. best \in Int /\ best - m.peak <= Hysteresis
    BY <2>3, <2>4, DisplayAssumption
  <2>6. m \in NearEqual(candidates)
    BY <1>1, <1>3, <2>4, <2>5
  <2>7. ASSUME NEW x \in NearEqual(candidates), NEW t \in candidates, t.peak # None
        PROVE  x.peak # None /\ t.peak - x.peak <= Hysteresis
    <3>1. x \in candidates /\ x.peak # None /\ best - x.peak <= Hysteresis
      BY <1>1, <1>3
    <3>2. x.peak \in Int /\ t.peak \in Int /\ t.peak <= best
      BY <2>2, <2>3, <2>7, <3>1
    <3> QED BY <2>5, <3>1, <3>2, DisplayAssumption
  <2> QED BY <1>1, <1>3, <2>6, <2>7
<1> QED BY <1>2, <1>3

\* Of finitely many states one is the strongest, however ties are broken.
LEMMA StrongestIs ==
  ASSUME NEW states, Ranked(states), states # {}
  PROVE  StrongestHigh(states) \in states /\ StrongestLow(states) \in states
<1> DEFINE Key(s) == IF s.peak = None THEN 0 ELSE 1
           High == {p \in states \X states :
                      \/ Key(p[1]) < Key(p[2])
                      \/ /\ Key(p[1]) = Key(p[2])
                         /\ \/ Strength(p[1]) < Strength(p[2])
                            \/ /\ Strength(p[1]) = Strength(p[2])
                               /\ p[1].bssid <= p[2].bssid}
           Low == {p \in states \X states :
                     \/ Strength(p[1]) < Strength(p[2])
                     \/ /\ Strength(p[1]) = Strength(p[2])
                        /\ p[2].bssid <= p[1].bssid}
<1>1. /\ IsFiniteSet(states)
      /\ \A s \in states : Strength(s) \in Int /\ s.bssid \in Int /\ Key(s) \in {0, 1}
      /\ \A s, t \in states : s.bssid = t.bssid => s = t
  BY GroupingAssumption DEF Ranked, Reading, Strength
<1>2. \A s, t \in states :
        <<s, t>> \in High <=>
          \/ Key(s) < Key(t)
          \/ /\ Key(s) = Key(t)
             /\ \/ Strength(s) < Strength(t)
                \/ Strength(s) = Strength(t) /\ s.bssid <= t.bssid
  OBVIOUS
<1>3. \A s, t \in states :
        <<s, t>> \in Low <=>
          \/ Strength(s) < Strength(t)
          \/ Strength(s) = Strength(t) /\ t.bssid <= s.bssid
  OBVIOUS
<1>4. StrongestHigh(states) \in states
  <2>1. \E m \in states : \A s \in states : <<s, m>> \in High
    <3>1. ASSUME NEW s \in states, NEW t \in states
          PROVE  <<s, t>> \in High \/ <<t, s>> \in High
      <4> HIDE DEF High, Key
      <4> QED BY <1>1, <1>2
    <3>2. ASSUME NEW s \in states, NEW t \in states, NEW u \in states,
                 <<s, t>> \in High, <<t, u>> \in High
          PROVE  <<s, u>> \in High
      <4> HIDE DEF High, Key
      <4> QED BY <1>1, <1>2, <3>2
    <3> HIDE DEF High
    <3> QED BY <1>1, <3>1, <3>2, Greatest
  <2>2. PICK m \in states : \A s \in states : <<s, m>> \in High
    BY <2>1
  <2>3. \A t \in states \ {m} :
          \/ m.peak # None /\ t.peak = None
          \/ (m.peak = None) = (t.peak = None)
               /\ (Stronger(m, t) \/ (~Stronger(t, m) /\ m.bssid > t.bssid))
    <3> SUFFICES ASSUME NEW t \in states, t # m
                 PROVE  \/ m.peak # None /\ t.peak = None
                        \/ (m.peak = None) = (t.peak = None)
                             /\ (Stronger(m, t) \/ (~Stronger(t, m) /\ m.bssid > t.bssid))
      OBVIOUS
    <3>1. t.bssid # m.bssid /\ <<t, m>> \in High
      BY <1>1, <2>2
    <3> HIDE DEF High
    <3> QED BY <1>1, <1>2, <3>1 DEF Stronger
  <2> QED BY <2>3 DEF StrongestHigh
<1>5. StrongestLow(states) \in states
  <2>1. \E m \in states : \A s \in states : <<s, m>> \in Low
    <3>1. ASSUME NEW s \in states, NEW t \in states
          PROVE  <<s, t>> \in Low \/ <<t, s>> \in Low
      <4> HIDE DEF Low
      <4> QED BY <1>1, <1>3
    <3>2. ASSUME NEW s \in states, NEW t \in states, NEW u \in states,
                 <<s, t>> \in Low, <<t, u>> \in Low
          PROVE  <<s, u>> \in Low
      <4> HIDE DEF Low
      <4> QED BY <1>1, <1>3, <3>2
    <3> HIDE DEF Low
    <3> QED BY <1>1, <3>1, <3>2, Greatest
  <2>2. PICK m \in states : \A s \in states : <<s, m>> \in Low
    BY <2>1
  <2>3. \A t \in states \ {m} :
          Stronger(m, t) \/ (~Stronger(t, m) /\ m.bssid < t.bssid)
    <3> SUFFICES ASSUME NEW t \in states, t # m
                 PROVE  Stronger(m, t) \/ (~Stronger(t, m) /\ m.bssid < t.bssid)
      OBVIOUS
    <3>1. t.bssid # m.bssid /\ <<t, m>> \in Low
      BY <1>1, <2>2
    <3> HIDE DEF Low
    <3> QED BY <1>1, <1>3, <3>1 DEF Stronger
  <2> QED BY <2>3 DEF StrongestLow
<1> QED BY <1>4, <1>5

\* What select_bssid names reports QBSS, and is the busiest of the nearest.
LEMMA SelectedIs ==
  ASSUME NEW states, Addressed(states), NEW current,
         NEW chosen, chosen = select_bssid(states, current)
  PROVE  /\ select_bssid(states, chosen) = chosen
         /\ chosen = None <=> \A s \in states : ~s.qbss
         /\ chosen # None =>
              \E s \in states :
                /\ s.bssid = chosen /\ s.qbss
                /\ s \in NearEqual({t \in states : t.qbss})
                /\ \A t \in NearEqual({u \in states : u.qbss}) :
                     StationCount(t) <= StationCount(s)
<1>1. PICK candidates : candidates = {s \in states : s.qbss}
  OBVIOUS
<1>2. PICK near : near = NearEqual(candidates)
  OBVIOUS
<1>3. PICK finalists :
        finalists = {s \in near : \A t \in near : StationCount(t) <= StationCount(s)}
  OBVIOUS
<1>7. \A shown : select_bssid(states, shown)
                   = IF candidates = {} THEN None
                     ELSE IF shown \in BssidsOf(finalists) THEN shown
                     ELSE StrongestHigh(finalists).bssid
  BY <1>1, <1>2, <1>3 DEF select_bssid
<1>4. chosen = IF candidates = {} THEN None
               ELSE IF current \in BssidsOf(finalists) THEN current
               ELSE StrongestHigh(finalists).bssid
  BY <1>7
<1>5. CASE candidates = {}
  BY <1>1, <1>4, <1>5, <1>7
<1>6. CASE candidates # {}
  <2>1. Addressed(candidates) /\ candidates \subseteq states
    <3>1. candidates \in SUBSET states
      BY <1>1
    <3> QED BY <3>1, SomeAddressed
  <2>2. near # {} /\ near \subseteq candidates
    BY <1>2, <1>6, <2>1, NearEqualIs
  <2>3. Addressed(near)
    <3>1. near \in SUBSET candidates
      BY <2>2
    <3> QED BY <2>1, <3>1, SomeAddressed
  <2>4. \A s \in near : StationCount(s) \in Int /\ s.bssid # None
    BY <2>3, Measures DEF Addressed
  <2>5. finalists # {}
    <3> DEFINE R == {p \in near \X near : StationCount(p[1]) <= StationCount(p[2])}
    <3>1. \A s, t \in near : <<s, t>> \in R <=> StationCount(s) <= StationCount(t)
      OBVIOUS
    <3> HIDE DEF R
    <3>2. ASSUME NEW s \in near, NEW t \in near
          PROVE  <<s, t>> \in R \/ <<t, s>> \in R
      <4>1. StationCount(s) \in Int /\ StationCount(t) \in Int
        BY <2>4
      <4> QED BY <3>1, <4>1
    <3>3. ASSUME NEW s \in near, NEW t \in near, NEW u \in near,
                 <<s, t>> \in R, <<t, u>> \in R
          PROVE  <<s, u>> \in R
      <4>1. StationCount(s) \in Int /\ StationCount(t) \in Int /\ StationCount(u) \in Int
        BY <2>4
      <4>2. StationCount(s) <= StationCount(t) /\ StationCount(t) <= StationCount(u)
        BY <3>1, <3>3
      <4>3. StationCount(s) <= StationCount(u)
        BY <4>1, <4>2
      <4> QED BY <3>1, <4>3
    <3>4. IsFiniteSet(near)
      BY <2>3 DEF Addressed
    <3>5. \E m \in near : \A s \in near : <<s, m>> \in R
      BY <2>2, <3>2, <3>3, <3>4, Greatest
    <3> QED BY <1>3, <3>1, <3>5
  <2>6. Addressed(finalists) /\ finalists \subseteq near
    <3>1. finalists \in SUBSET near
      BY <1>3
    <3> QED BY <2>3, <3>1, SomeAddressed
  <2>7. \E s \in finalists : s.bssid = chosen
    <3>1. CASE current \in BssidsOf(finalists)
      BY <1>4, <1>6, <3>1 DEF BssidsOf
    <3>2. CASE current \notin BssidsOf(finalists)
      BY <1>4, <1>6, <2>5, <2>6, <3>2, StrongestIs, AddressedIsRanked
    <3> QED BY <3>1, <3>2
  <2>8. PICK s \in finalists : s.bssid = chosen
    BY <2>7
  <2>9. s \in near /\ \A t \in near : StationCount(t) <= StationCount(s)
    BY <1>3, <2>8
  <2>10. s \in states /\ s.qbss /\ chosen # None
    BY <1>1, <2>1, <2>2, <2>4, <2>8, <2>9
  <2>11. ~(\A t \in states : ~t.qbss)
    BY <2>10
  <2>12. select_bssid(states, chosen) = chosen
    BY <1>6, <1>7, <2>7 DEF BssidsOf
  <2> QED BY <1>1, <1>2, <2>8, <2>9, <2>10, <2>11, <2>12
<1> QED BY <1>5, <1>6

-----------------------------------------------------------------------------
(* The retry source.                                                       *)

LEMMA Times ==
  ASSUME NEW x \in Int, NEW y \in Int, NEW k \in Nat
  PROVE  /\ x <= y => x * k <= y * k
         /\ k > 0 /\ x * k <= y * k => x <= y
<1>1. ASSUME x <= y
      PROVE  x * k <= y * k
  <2>1. y - x \in Nat /\ (y - x) * k >= 0
    BY <1>1
  <2>2. (y - x) * k = y * k - x * k
    OBVIOUS
  <2> QED BY <2>1, <2>2
<1>2. ASSUME k > 0, x * k <= y * k, ~(x <= y)
      PROVE  FALSE
  <2>1. x - y - 1 \in Nat /\ (x - y - 1) * k >= 0
    BY <1>2
  <2>2. (x - y - 1) * k = x * k - y * k - k
    OBVIOUS
  <2>3. x * k \in Int /\ y * k \in Int
    OBVIOUS
  <2> QED BY <1>2, <2>1, <2>2, <2>3
<1> QED BY <1>1, <1>2

\* Comparing ratios by their cross products is transitive.
LEMMA RatiosCompare ==
  ASSUME NEW a \in Nat, NEW b \in Nat, NEW c \in Nat,
         NEW x \in Nat, NEW y \in Nat, NEW z \in Nat, y > 0,
         a * y <= b * x, b * z <= c * y
  PROVE  a * z <= c * x
<1>1. /\ a * y \in Int /\ b * x \in Int /\ b * z \in Int /\ c * y \in Int
      /\ a * z \in Int /\ c * x \in Int
  OBVIOUS
<1>2. (a * y) * z <= (b * x) * z /\ (b * z) * x <= (c * y) * x
  <2>1. \A m, n \in Int, k \in Nat : m <= n => m * k <= n * k
    BY Times
  <2> QED BY <1>1, <2>1
<1>3. /\ (a * y) * z = (a * z) * y /\ (b * x) * z = (b * z) * x
      /\ (c * y) * x = (c * x) * y
  OBVIOUS
<1>4. (a * z) * y \in Int /\ (b * z) * x \in Int /\ (c * x) * y \in Int
  BY <1>1
<1>5. (a * z) * y <= (c * x) * y
  BY <1>2, <1>3, <1>4
<1>6. \A m, n \in Int, k \in Nat : k > 0 /\ m * k <= n * k => m <= n
  BY Times
<1> QED BY <1>1, <1>5, <1>6

\* The strongest signal is some BSSID's, where there is one.
LEMMA StrongestSignal ==
  ASSUME NEW states, Addressed(states), NEW current
  PROVE  /\ Strongest(states, Strongest(states, current)) = Strongest(states, current)
         /\ states = {} => Strongest(states, current) = None
         /\ states # {} =>
              \E s \in states :
                /\ s.bssid = Strongest(states, current)
                /\ \A t \in states : t.peak # None => s.peak # None /\ t.peak <= s.peak
<1>1. PICK measured : measured = {s \in states : s.peak # None}
  OBVIOUS
<1>2. PICK finalists :
        finalists = IF measured = {} THEN states
                    ELSE {s \in measured : \A t \in measured : t.peak <= s.peak}
  OBVIOUS
<1>3. \A shown : Strongest(states, shown)
                   = IF states = {} THEN None
                     ELSE IF shown \in BssidsOf(finalists) THEN shown
                     ELSE Min(BssidsOf(finalists))
  BY <1>1, <1>2 DEF Strongest
<1>4. ASSUME states # {}
      PROVE  /\ \E s \in states :
                  /\ s.bssid = Strongest(states, current)
                  /\ \A t \in states : t.peak # None => s.peak # None /\ t.peak <= s.peak
             /\ Strongest(states, Strongest(states, current)) = Strongest(states, current)
  <2>1. finalists \in SUBSET states /\ finalists # {}
    <3>1. CASE measured = {}
      BY <1>2, <1>4, <3>1
    <3>2. CASE measured # {}
      <4>1. PICK s \in states : s.peak # None
        BY <1>1, <3>2
      <4>2. PICK best : best = Max({t.peak : t \in {u \in states : u.peak # None}})
        OBVIOUS
      <4>3. /\ \E m \in states : m.peak # None /\ m.peak = best
            /\ \A t \in states : t.peak # None => t.peak <= best
        BY <4>1, <4>2, LargestPeak
      <4>4. PICK m \in states : m.peak # None /\ m.peak = best
        BY <4>3
      <4>5. m \in finalists
        BY <1>1, <1>2, <3>2, <4>3, <4>4
      <4>6. finalists \subseteq states
        BY <1>1, <1>2, <3>2
      <4> QED BY <4>5, <4>6
    <3> QED BY <3>1, <3>2
  <2>2. Addressed(finalists)
    BY <2>1, SomeAddressed
  <2>3. Strongest(states, current) \in BssidsOf(finalists)
    <3>1. CASE current \in BssidsOf(finalists)
      BY <1>3, <1>4, <3>1
    <3>2. CASE current \notin BssidsOf(finalists)
      <4>1. PICK s \in finalists : TRUE
        BY <2>1
      <4>2. /\ IsFiniteSet(BssidsOf(finalists)) /\ BssidsOf(finalists) \subseteq Nat
            /\ s.bssid \in BssidsOf(finalists)
        BY <2>2, <4>1, TheirBssids
      <4>3. BssidsOf(finalists) \in SUBSET Int /\ BssidsOf(finalists) # {}
        BY <4>2
      <4>4. Min(BssidsOf(finalists)) \in BssidsOf(finalists)
        BY <4>2, <4>3, Largest
      <4> QED BY <1>3, <1>4, <3>2, <4>4
    <3> QED BY <3>1, <3>2
  <2>4. Strongest(states, Strongest(states, current)) = Strongest(states, current)
    BY <1>3, <1>4, <2>3
  <2>5. PICK s \in finalists : s.bssid = Strongest(states, current)
    BY <2>3 DEF BssidsOf
  <2>6. \A t \in states : t.peak # None => s.peak # None /\ t.peak <= s.peak
    BY <1>1, <1>2
  <2> QED BY <2>1, <2>4, <2>5, <2>6
<1> QED BY <1>3, <1>4

\* What the retry source is chosen by.
Counted(states) ==
  \A s \in states : s.retries \in Nat /\ s.eligible \in Nat /\ s.retries <= s.eligible

\* The retry source has the highest ratio there is; without retries it is the
\* strongest signal.
LEMMA RetryIs ==
  ASSUME NEW retrying, Ranked(retrying), Counted(retrying),
         NEW states, Addressed(states),
         NEW current, NEW chosen, chosen = select_retry_bssid(retrying, states, current)
  PROVE  /\ select_retry_bssid(retrying, states, chosen) = chosen
         /\ (\E s \in retrying : s.retries > 0) =>
              \E s \in retrying :
                /\ s.bssid = chosen /\ s.retries > 0
                /\ \A t \in retrying : ~MoreRetries(t, s)
         /\ (\A s \in retrying : s.retries = 0) =>
              /\ chosen = None <=> states = {}
              /\ chosen # None =>
                   \E s \in states :
                     /\ s.bssid = chosen
                     /\ \A t \in states : t.peak # None =>
                          s.peak # None /\ t.peak <= s.peak
<1>1. PICK candidates : candidates = {s \in retrying : s.retries > 0}
  OBVIOUS
<1>2. PICK finalists :
        finalists = {s \in candidates : \A t \in candidates : ~MoreRetries(t, s)}
  OBVIOUS
<1>8. \A shown : select_retry_bssid(retrying, states, shown)
                   = IF candidates = {} THEN Strongest(states, shown)
                     ELSE IF shown \in BssidsOf(finalists) THEN shown
                     ELSE StrongestLow(finalists).bssid
  BY <1>1, <1>2 DEF select_retry_bssid
<1>3. chosen = IF candidates = {} THEN Strongest(states, current)
               ELSE IF current \in BssidsOf(finalists) THEN current
               ELSE StrongestLow(finalists).bssid
  BY <1>8
<1>4. \A s \in retrying : /\ s.retries \in Nat /\ s.eligible \in Nat /\ s.bssid # None
                        /\ s.retries <= s.eligible
  BY GroupingAssumption DEF Ranked, Counted
<1>5. \A s, t \in retrying :
        /\ s.retries * t.eligible \in Int
        /\ s.retries = 0 => s.retries * t.eligible <= t.retries * s.eligible
  <2> SUFFICES ASSUME NEW s \in retrying, NEW t \in retrying
               PROVE  /\ s.retries * t.eligible \in Int
                      /\ s.retries = 0 => s.retries * t.eligible <= t.retries * s.eligible
    OBVIOUS
  <2>1. /\ s.retries \in Nat /\ t.retries \in Nat
        /\ s.eligible \in Nat /\ t.eligible \in Nat
    BY <1>4
  <2>2. /\ s.retries * t.eligible \in Nat /\ t.retries * s.eligible \in Nat
        /\ 0 * t.eligible = 0
    BY <2>1
  <2>3. s.retries = 0 => s.retries * t.eligible = 0
    BY <2>2
  <2>4. 0 <= t.retries * s.eligible
    BY <2>2
  <2> QED BY <2>2, <2>3, <2>4
<1>6. CASE candidates = {}
  <2>1. ~(\E s \in retrying : s.retries > 0)
    BY <1>1, <1>6
  <2>2. chosen = Strongest(states, current)
    BY <1>3, <1>6
  <2>3. /\ states = {} => chosen = None
        /\ states # {} =>
             \E s \in states :
               /\ s.bssid = chosen
               /\ \A t \in states : t.peak # None => s.peak # None /\ t.peak <= s.peak
    BY <2>2, StrongestSignal
  <2>4. \A s \in states : s.bssid # None
    BY Measures DEF Addressed
  <2>5. select_retry_bssid(retrying, states, chosen) = chosen
    BY <1>6, <1>8, <2>2, StrongestSignal
  <2> QED BY <2>1, <2>3, <2>4, <2>5
<1>7. CASE candidates # {}
  <2>1. Ranked(candidates) /\ candidates \subseteq retrying
    <3>1. candidates \in SUBSET retrying
      BY <1>1
    <3> QED BY <3>1, SomeRanked
  <2>2. \A s \in candidates : /\ s.retries \in Nat /\ s.eligible \in Nat
                              /\ s.retries > 0 /\ s.eligible > 0
    <3> SUFFICES ASSUME NEW s \in candidates
                 PROVE  /\ s.retries \in Nat /\ s.eligible \in Nat
                        /\ s.retries > 0 /\ s.eligible > 0
      OBVIOUS
    <3>1. /\ s.retries \in Nat /\ s.eligible \in Nat /\ s.retries <= s.eligible
          /\ s.retries > 0
      BY <1>1, <1>4
    <3> QED BY <3>1
  <2>3. finalists # {}
    <3> DEFINE R == {p \in candidates \X candidates :
                       p[1].retries * p[2].eligible <= p[2].retries * p[1].eligible}
    <3>1. \A s, t \in candidates :
            <<s, t>> \in R <=> s.retries * t.eligible <= t.retries * s.eligible
      OBVIOUS
    <3> HIDE DEF R
    <3>2. ASSUME NEW s \in candidates, NEW t \in candidates
          PROVE  <<s, t>> \in R \/ <<t, s>> \in R
      <4>1. s.retries * t.eligible \in Int /\ t.retries * s.eligible \in Int
        BY <1>5, <2>1
      <4>2. \A m, n \in Int : m <= n \/ n <= m
        OBVIOUS
      <4>3. \/ s.retries * t.eligible <= t.retries * s.eligible
            \/ t.retries * s.eligible <= s.retries * t.eligible
        BY <4>1, <4>2
      <4> QED BY <3>1, <4>3
    <3>3. ASSUME NEW s \in candidates, NEW t \in candidates, NEW u \in candidates,
                 <<s, t>> \in R, <<t, u>> \in R
          PROVE  <<s, u>> \in R
      <4>1. /\ s.retries \in Nat /\ t.retries \in Nat /\ u.retries \in Nat
            /\ s.eligible \in Nat /\ t.eligible \in Nat /\ u.eligible \in Nat /\ t.eligible > 0
        BY <2>2
      <4>2. /\ s.retries * t.eligible <= t.retries * s.eligible
            /\ t.retries * u.eligible <= u.retries * t.eligible
        BY <3>1, <3>3
      <4>3. s.retries * u.eligible <= u.retries * s.eligible
        BY <4>1, <4>2, RatiosCompare
      <4> QED BY <3>1, <4>3
    <3>4. IsFiniteSet(candidates)
      BY <2>1 DEF Ranked
    <3>5. PICK m \in candidates : \A s \in candidates : <<s, m>> \in R
      BY <1>7, <3>2, <3>3, <3>4, Greatest
    <3>6. ASSUME NEW s \in candidates
          PROVE  ~MoreRetries(s, m)
      <4>1. s.retries * m.eligible <= m.retries * s.eligible
        BY <3>1, <3>5
      <4>2. s.retries * m.eligible \in Int /\ m.retries * s.eligible \in Int
        BY <1>5, <2>1
      <4>3. \A j, k \in Int : j <= k => ~(j > k)
        OBVIOUS
      <4> QED BY <4>1, <4>2, <4>3 DEF MoreRetries
    <3> QED BY <1>2, <3>6
  <2>4. Ranked(finalists) /\ finalists \subseteq candidates
    <3>1. finalists \in SUBSET candidates
      BY <1>2
    <3> QED BY <2>1, <3>1, SomeRanked
  <2>5. \E s \in finalists : s.bssid = chosen
    <3>1. CASE current \in BssidsOf(finalists)
      BY <1>3, <1>7, <3>1 DEF BssidsOf
    <3>2. CASE current \notin BssidsOf(finalists)
      BY <1>3, <1>7, <2>3, <2>4, <3>2, StrongestIs
    <3> QED BY <3>1, <3>2
  <2>6. PICK s \in finalists : s.bssid = chosen
    BY <2>5
  <2>7. s \in candidates /\ s \in retrying /\ \A t \in candidates : ~MoreRetries(t, s)
    BY <1>2, <2>1, <2>6
  <2>8. ASSUME NEW t \in retrying
        PROVE  ~MoreRetries(t, s)
    <3>1. CASE t \in candidates
      BY <2>7, <3>1
    <3>2. CASE t \notin candidates
      <4>1. ~(t.retries > 0) /\ t.retries \in Nat
        BY <1>1, <1>4, <3>2
      <4>2. t.retries * s.eligible <= s.retries * t.eligible
        BY <1>5, <2>7, <4>1
      <4>3. t.retries * s.eligible \in Int /\ s.retries * t.eligible \in Int
        BY <1>5, <2>7
      <4>4. \A j, k \in Int : j <= k => ~(j > k)
        OBVIOUS
      <4> QED BY <4>2, <4>3, <4>4 DEF MoreRetries
    <3> QED BY <3>1, <3>2
  <2>9. s.retries > 0 /\ ~(\A t \in retrying : t.retries = 0)
    BY <2>2, <2>7
  <2>10. select_retry_bssid(retrying, states, chosen) = chosen
    BY <1>7, <1>8, <2>5 DEF BssidsOf
  <2> QED BY <2>6, <2>7, <2>8, <2>9, <2>10
<1> QED BY <1>6, <1>7

-----------------------------------------------------------------------------
(* The strongest radio.                                                    *)

\* A radio's best RSSI is the largest that is known of its members.
LEMMA BestIs ==
  ASSUME NEW group, Addressed(group)
  PROVE  /\ Best(group) = None \/ Best(group) \in Int
         /\ Best(group) # None => \E s \in group : s.peak # None /\ s.peak = Best(group)
         /\ \A s \in group : s.peak # None =>
              /\ Best(group) # None /\ s.peak <= Best(group)
<1>1. PICK peaks : peaks = {t.peak : t \in {u \in group : u.peak # None}}
  OBVIOUS
<1>2. Peaks(group) = peaks
  BY <1>1 DEF Peaks
<1>3. Best(group) = IF peaks = {} THEN None ELSE Max(peaks)
  BY <1>2 DEF Best
<1>4. CASE \A s \in group : s.peak = None
  <2>1. peaks = {}
    BY <1>1, <1>4
  <2> QED BY <1>3, <1>4, <2>1
<1>5. ASSUME NEW s \in group, s.peak # None
      PROVE  /\ Best(group) \in Int
             /\ \E m \in group : m.peak # None /\ m.peak = Best(group)
             /\ \A t \in group : t.peak # None => t.peak <= Best(group)
  <2>1. /\ peaks \in SUBSET Int
        /\ \E m \in group : m.peak # None /\ m.peak = Max(peaks)
        /\ \A t \in group : t.peak # None => t.peak <= Max(peaks)
    BY <1>1, <1>5, LargestPeak
  <2>2. s.peak \in peaks
    BY <1>1, <1>5
  <2>3. Best(group) = Max(peaks)
    BY <1>3, <2>2
  <2>4. \E m \in group : m.peak # None /\ m.peak = Best(group)
    BY <2>1, <2>3
  <2>5. \A m \in group : m.peak # None => m.peak \in peaks
    BY <1>1
  <2> QED BY <2>1, <2>3, <2>4, <2>5
<1>6. Best(group) \in Int => Best(group) # None
  BY GroupingAssumption
<1>7. CASE \E s \in group : s.peak # None
  <2>1. PICK s \in group : s.peak # None
    BY <1>7
  <2>2. /\ Best(group) \in Int
        /\ \E m \in group : m.peak # None /\ m.peak = Best(group)
        /\ \A t \in group : t.peak # None => t.peak <= Best(group)
    BY <1>5, <2>1
  <2> QED BY <1>6, <2>2
<1> QED BY <1>4, <1>7

\* The groups select_strongest_radio chooses among.
Finalists(groups) ==
  LET measured == {g \in groups : Best(g) # None}
  IN IF measured = {} THEN groups
     ELSE {g \in measured : Best(g) = Max({Best(h) : h \in measured})}

\* The radio shown is a group, and none holds a stronger BSSID than it does.
LEMMA StrongestRadioIs ==
  ASSUME NEW states, Addressed(states), NEW groups, IsFiniteSet(groups),
         SoundGroups(groups, states), NEW current,
         NEW strongest, strongest = select_strongest_radio(groups, current)
  PROVE  /\ states = {} => strongest = {}
         /\ states # {} =>
              /\ strongest \in groups
              /\ strongest # {} /\ strongest \subseteq states
              /\ strongest \in Finalists(groups) /\ GroupId(strongest) \in Int
              /\ \A s \in states : s.peak # None =>
                   \E t \in strongest : t.peak # None /\ s.peak <= t.peak
<1> DEFINE measured == {g \in groups : Best(g) # None}
           finalists == IF measured = {} THEN groups
                        ELSE {g \in measured : Best(g) = Max({Best(h) : h \in measured})}
           retained == {g \in finalists : BssidsOf(g) \cap current # {}}
           choices == IF retained = {} THEN finalists ELSE retained
<1>1. measured = {g \in groups : Best(g) # None}
  OBVIOUS
<1>2. finalists = IF measured = {} THEN groups
                  ELSE {g \in measured : Best(g) = Max({Best(h) : h \in measured})}
  OBVIOUS
<1>3. choices \subseteq finalists /\ (finalists # {} => choices # {})
  <2> HIDE DEF finalists
  <2> QED OBVIOUS
<1>4. strongest = IF groups = {} THEN {}
                  ELSE CHOOSE g \in choices : \A h \in choices : GroupId(g) <= GroupId(h)
  BY DEF select_strongest_radio
<1>9. finalists = Finalists(groups)
  BY DEF Finalists
<1> HIDE DEF measured, finalists, retained, choices
<1>5. /\ UNION groups = states
      /\ \A g \in groups : g # {} /\ g \subseteq states
  BY DEF SoundGroups
<1>6. \A g \in groups : Addressed(g)
  <2>1. \A g \in groups : g \in SUBSET states
    BY <1>5
  <2> QED BY <2>1, SomeAddressed
<1>7. CASE states = {}
  <2>1. groups = {}
    BY <1>5, <1>7
  <2> QED BY <1>4, <1>7, <2>1
<1>8. CASE states # {}
  <2>1. groups # {}
    BY <1>5, <1>8
  <2>2. /\ finalists # {} /\ finalists \subseteq groups
        /\ \A g \in finalists, h \in groups : Best(h) # None =>
             Best(g) # None /\ Best(h) <= Best(g)
    <3>1. CASE measured = {}
      BY <1>1, <1>2, <2>1, <3>1
    <3>2. CASE measured # {}
      <4> DEFINE bests == {Best(h) : h \in measured}
                 f == [h \in measured |-> Best(h)]
      <4>1. f \in Surjection(measured, bests)
        BY DEF Surjection
      <4>2. IsFiniteSet(measured)
        <5>1. measured \subseteq groups
          BY <1>1
        <5> QED BY <5>1, FS_Subset
      <4>3. IsFiniteSet(bests)
        BY <4>1, <4>2, FS_Surjection
      <4>4. bests \in SUBSET Int
        <5>1. ASSUME NEW h \in measured
              PROVE  Best(h) \in Int
          <6>1. h \in groups /\ Best(h) # None /\ Addressed(h)
            BY <1>1, <1>6
          <6> QED BY <6>1, BestIs
        <5> QED BY <5>1
      <4>5. bests # {}
        BY <3>2
      <4>6. finalists = {g \in measured : Best(g) = Max(bests)}
        BY <1>2, <3>2
      <4>7. \A h \in measured : Best(h) \in bests
        OBVIOUS
      <4>8. \A n \in bests : \E h \in measured : Best(h) = n
        OBVIOUS
      <4> HIDE DEF bests
      <4>9. Max(bests) \in bests /\ \A n \in bests : n <= Max(bests)
        BY <4>3, <4>4, <4>5, Largest
      <4>10. finalists # {}
        BY <4>6, <4>8, <4>9
      <4>11. finalists \subseteq groups
        BY <1>1, <4>6
      <4>12. \A g \in finalists, h \in groups : Best(h) # None =>
               Best(g) # None /\ Best(h) <= Best(g)
        BY <1>1, <4>6, <4>7, <4>9
      <4> QED BY <4>10, <4>11, <4>12
    <3> QED BY <3>1, <3>2
  <2>3. choices # {} /\ choices \subseteq finalists
    BY <1>3, <2>2
  <2>4. \A g \in choices : GroupId(g) \in Int
    <3> SUFFICES ASSUME NEW g \in choices
                 PROVE  GroupId(g) \in Int
      OBVIOUS
    <3>1. g # {} /\ Addressed(g)
      BY <1>5, <1>6, <2>2, <2>3
    <3>2. PICK s \in g : TRUE
      BY <3>1
    <3>3. /\ IsFiniteSet(BssidsOf(g)) /\ BssidsOf(g) \subseteq Nat
          /\ s.bssid \in BssidsOf(g)
      BY <3>1, <3>2, TheirBssids
    <3>4. BssidsOf(g) \in SUBSET Int /\ BssidsOf(g) # {}
      BY <3>3
    <3>5. Min(BssidsOf(g)) \in BssidsOf(g)
      BY <3>3, <3>4, Largest
    <3> QED BY <3>4, <3>5 DEF GroupId
  <2>5. strongest \in choices
    <3> DEFINE R == {p \in choices \X choices : GroupId(p[2]) <= GroupId(p[1])}
    <3>1. \A g, h \in choices : <<g, h>> \in R <=> GroupId(h) <= GroupId(g)
      OBVIOUS
    <3> HIDE DEF R
    <3>2. ASSUME NEW g \in choices, NEW h \in choices
          PROVE  <<g, h>> \in R \/ <<h, g>> \in R
      <4>1. GroupId(g) \in Int /\ GroupId(h) \in Int
        BY <2>4
      <4>2. GroupId(g) <= GroupId(h) \/ GroupId(h) <= GroupId(g)
        BY <4>1
      <4> QED BY <3>1, <4>2
    <3>3. ASSUME NEW g \in choices, NEW h \in choices, NEW k \in choices,
                 <<g, h>> \in R, <<h, k>> \in R
          PROVE  <<g, k>> \in R
      <4>1. GroupId(g) \in Int /\ GroupId(h) \in Int /\ GroupId(k) \in Int
        BY <2>4
      <4>2. GroupId(h) <= GroupId(g) /\ GroupId(k) <= GroupId(h)
        BY <3>1, <3>3
      <4>3. GroupId(k) <= GroupId(g)
        BY <4>1, <4>2
      <4> QED BY <3>1, <4>3
    <3>4. IsFiniteSet(choices)
      <4>1. choices \subseteq groups
        BY <2>2, <2>3
      <4> QED BY <4>1, FS_Subset
    <3>5. \E g \in choices : \A h \in choices : <<h, g>> \in R
      BY <2>3, <3>2, <3>3, <3>4, Greatest
    <3>6. \E g \in choices : \A h \in choices : GroupId(g) <= GroupId(h)
      BY <3>1, <3>5
    <3> QED BY <1>4, <2>1, <3>6
  <2>6. strongest \in groups /\ strongest \in finalists
    BY <2>2, <2>3, <2>5
  <2>9. strongest \in Finalists(groups) /\ GroupId(strongest) \in Int
    BY <1>9, <2>4, <2>5, <2>6
  <2>8. ASSUME NEW s \in states, s.peak # None
        PROVE  \E t \in strongest : t.peak # None /\ s.peak <= t.peak
    <3>1. PICK g \in groups : s \in g
      BY <1>5
    <3>2. Best(g) # None /\ s.peak <= Best(g)
      BY <1>6, <2>8, <3>1, BestIs
    <3>3. Best(strongest) # None /\ Best(g) <= Best(strongest)
      BY <2>2, <2>6, <3>1, <3>2
    <3>4. PICK t \in strongest : t.peak # None /\ t.peak = Best(strongest)
      BY <1>6, <2>6, <3>3, BestIs
    <3>5. Best(g) \in Int /\ Best(strongest) \in Int
      BY <1>6, <2>6, <3>1, <3>2, <3>3, BestIs
    <3>6. s.peak \in Int
      BY <2>8, Measures DEF Addressed
    <3> QED BY <3>2, <3>3, <3>4, <3>5, <3>6
  <2> QED BY <1>5, <1>8, <2>6, <2>8, <2>9
<1> QED BY <1>7, <1>8

\* It stays the radio shown.
LEMMA StrongestRadioStays ==
  ASSUME NEW states, Addressed(states), states # {}, NEW groups, IsFiniteSet(groups),
         SoundGroups(groups, states), NEW current,
         NEW strongest, strongest = select_strongest_radio(groups, current)
  PROVE  select_strongest_radio(groups, BssidsOf(strongest)) = strongest
<1>1. /\ strongest \in Finalists(groups) /\ GroupId(strongest) \in Int
      /\ strongest \in groups /\ strongest # {}
  BY StrongestRadioIs
<1> DEFINE finalists == Finalists(groups)
           retained == {g \in finalists : BssidsOf(g) \cap BssidsOf(strongest) # {}}
           choices == IF retained = {} THEN finalists ELSE retained
<1>2. select_strongest_radio(groups, BssidsOf(strongest))
        = IF groups = {} THEN {}
          ELSE CHOOSE g \in choices : \A h \in choices : GroupId(g) <= GroupId(h)
  BY DEF select_strongest_radio, Finalists
<1>3. finalists \subseteq groups
  BY DEF Finalists
<1>4. retained = {g \in finalists : BssidsOf(g) \cap BssidsOf(strongest) # {}}
  OBVIOUS
<1>5. strongest \in finalists
  BY <1>1
<1> HIDE DEF finalists
<1>6. \A g \in groups : g \subseteq states /\ (g # strongest => g \cap strongest = {})
  BY <1>1 DEF SoundGroups
<1>7. ASSUME NEW g \in retained
      PROVE  g = strongest
  <2>1. PICK b \in BssidsOf(g) : b \in BssidsOf(strongest)
    BY <1>4
  <2>2. PICK s \in g, t \in strongest : s.bssid = b /\ t.bssid = b
    BY <2>1 DEF BssidsOf
  <2>3. g \in groups
    BY <1>3, <1>4
  <2>4. s = t
    BY <1>1, <1>6, <2>2, <2>3 DEF Addressed
  <2> QED BY <1>6, <2>2, <2>3, <2>4
<1>8. strongest \in retained
  <2>1. PICK s \in strongest : TRUE
    BY <1>1
  <2>2. s.bssid \in BssidsOf(strongest)
    BY <2>1 DEF BssidsOf
  <2> QED BY <1>4, <1>5, <2>2
<1>9. retained = {strongest}
  BY <1>7, <1>8
<1>10. choices = {strongest}
  BY <1>9
<1>11. \A h \in choices : GroupId(strongest) <= GroupId(h)
  BY <1>1, <1>10
<1> HIDE DEF retained, choices
<1> QED BY <1>1, <1>2, <1>10, <1>11

-----------------------------------------------------------------------------
(* The radio shown and the SSID that rotates.                              *)

\* Quotients and remainders are what they should be.
LEMMA Rotating ==
  ASSUME NEW elapsed \in Nat, NEW index \in Nat, NEW count \in Nat, count > 0
  PROVE  /\ elapsed \div Rotation \in Nat
         /\ ((index + (elapsed \div Rotation)) % count) + 1 \in 1..count
<1>1. Rotation \in Nat /\ Rotation > 0
  BY DisplayAssumption
<1>2. elapsed \div Rotation \in Nat
  BY <1>1
<1>3. \A n \in Nat : n % count \in 0..(count - 1)
  OBVIOUS
<1>4. (index + (elapsed \div Rotation)) % count \in 0..(count - 1)
  BY <1>2, <1>3
<1> QED BY <1>2, <1>4

\* The rotation goes to a member.
LEMMA RotatedIs ==
  ASSUME NEW members \in SUBSET Nat, IsFiniteSet(members), NEW at \in Int,
         NEW shown, shown.rotated \in Int, shown.displayed \in members,
         NEW next, next = Rotated(shown, members, at)
  PROVE  next.rotated \in Int /\ next.bssids = members /\ next.displayed \in members
<1>1. PICK order : order = Ascending(members)
  OBVIOUS
<1>2. /\ Len(order) \in Nat /\ DOMAIN order = 1..Len(order)
      /\ \A n \in members : \E i \in DOMAIN order : order[i] = n
      /\ \A i \in DOMAIN order : order[i] \in members
  <2>1. members \in SUBSET Int
    OBVIOUS
  <2>2. /\ Cardinality(members) \in Nat /\ order \in Seq(members)
        /\ Len(order) = Cardinality(members) /\ DOMAIN order = 1..Cardinality(members)
        /\ \A n \in members : \E i \in DOMAIN order : order[i] = n
    BY <1>1, <2>1, InOrder
  <2> QED BY <2>2
<1>3. PICK steps :
        steps = IF shown.rotated < at THEN (at - shown.rotated) \div Rotation ELSE 0
  OBVIOUS
<1>4. PICK index : index = CHOOSE i \in DOMAIN order : order[i] = shown.displayed
  OBVIOUS
<1>5. next = [rotated |-> shown.rotated + steps * Rotation, bssids |-> members,
              displayed |-> order[((index - 1 + steps) % Len(order)) + 1]]
  BY <1>1, <1>3, <1>4 DEF Rotated
<1>6. index \in 1..Len(order)
  BY <1>2, <1>4
<1>7. Rotation \in Nat /\ Rotation > 0
  BY DisplayAssumption
<1>8. steps \in Nat /\ ((index - 1 + steps) % Len(order)) + 1 \in 1..Len(order)
  <2>1. index - 1 \in Nat /\ Len(order) \in Nat /\ Len(order) > 0
    BY <1>2, <1>6
  <2>2. CASE shown.rotated < at
    <3>1. at - shown.rotated \in Nat
      BY <2>2
    <3> QED BY <1>3, <2>1, <2>2, <3>1, Rotating
  <2>3. CASE ~(shown.rotated < at)
    <3>1. steps = 0
      BY <1>3, <2>3
    <3>2. \A m, n \in Nat : n > 0 => m % n \in 0..(n - 1)
      OBVIOUS
    <3>3. index - 1 + steps = index - 1
      BY <1>6, <3>1
    <3>4. (index - 1) % Len(order) \in 0..(Len(order) - 1)
      BY <2>1, <3>2
    <3> QED BY <2>1, <3>1, <3>3, <3>4
  <2> QED BY <2>2, <2>3
<1>9. steps * Rotation \in Int
  BY <1>7, <1>8
<1>10. order[((index - 1 + steps) % Len(order)) + 1] \in members
  BY <1>2, <1>8
<1>11. next.rotated = shown.rotated + steps * Rotation
  BY <1>5
<1>12. shown.rotated + steps * Rotation \in Int
  BY <1>9
<1> QED BY <1>5, <1>10, <1>11, <1>12

\* What is left of a snapshot: the SSID shown is a BSSID of the radio shown,
\* and that is the strongest of those heard lately.
LEMMA ComposedIs ==
  ASSUME NEW recent, Addressed(recent), NEW at \in Int, NEW shown, shown.rotated \in Reading,
         NEW next, next = Composed(shown, recent, at)
  PROVE  /\ next.rotated \in Reading
         /\ next.displayed = None <=> recent = {}
         /\ next.displayed # None =>
              /\ next.rotated \in Int /\ next.displayed \in next.bssids
              /\ next.bssids = BssidsOf(
                    select_strongest_radio(estimate_radio_groups(recent), shown.bssids))
              /\ \A s \in recent : s.peak # None =>
                   \E t \in recent :
                     t.bssid \in next.bssids /\ t.peak # None /\ s.peak <= t.peak
<1>2. PICK strongest :
        strongest = select_strongest_radio(estimate_radio_groups(recent), shown.bssids)
  OBVIOUS
<1>3. PICK members : members = BssidsOf(strongest)
  OBVIOUS
<1>4. next = IF strongest = {} THEN NoRadio
             ELSE IF \/ shown.bssids \cap members = {} \/ shown.rotated = None
                     \/ shown.displayed \notin members
                  THEN Restarted(members, at)
             ELSE Rotated(shown, members, at)
  BY <1>2, <1>3 DEF Composed
<1>6. /\ recent = {} => strongest = {}
      /\ recent # {} =>
           /\ strongest # {} /\ strongest \subseteq recent
           /\ \A s \in recent : s.peak # None =>
                \E t \in strongest : t.peak # None /\ s.peak <= t.peak
  <2>1. PICK groups : groups = estimate_radio_groups(recent)
    OBVIOUS
  <2>2. SoundGroups(groups, recent) /\ IsFiniteSet(groups)
    BY <2>1, Estimating
  <2>3. strongest = select_strongest_radio(groups, shown.bssids)
    BY <1>2, <2>1
  <2> QED BY <2>2, <2>3, StrongestRadioIs
<1>7. CASE recent = {}
  <2>1. next = NoRadio
    BY <1>4, <1>6, <1>7
  <2> QED BY <1>7, <2>1 DEF NoRadio, Reading
<1>8. CASE recent # {}
  <2>1. /\ strongest # {} /\ strongest \subseteq recent
        /\ \A s \in recent : s.peak # None =>
             \E t \in strongest : t.peak # None /\ s.peak <= t.peak
    BY <1>6, <1>8
  <2>2. Addressed(strongest)
    <3>1. strongest \in SUBSET recent
      BY <2>1
    <3> QED BY <3>1, SomeAddressed
  <2>3. /\ IsFiniteSet(members) /\ members \in SUBSET Nat
        /\ \A s \in strongest : s.bssid \in members
    BY <1>3, <2>2, TheirBssids
  <2>4. members # {}
    BY <2>1, <2>3
  <2>5. next.rotated \in Int /\ next.bssids = members /\ next.displayed \in members
    <3>1. CASE \/ shown.bssids \cap members = {} \/ shown.rotated = None
               \/ shown.displayed \notin members
      <4>1. next = Restarted(members, at)
        BY <1>4, <2>1, <3>1
      <4>2. next = [rotated |-> at, bssids |-> members, displayed |-> Min(members)]
        BY <4>1 DEF Restarted
      <4>3. Min(members) \in members
        <5>1. members \in SUBSET Int
          BY <2>3
        <5> QED BY <2>3, <2>4, <5>1, Largest
      <4> QED BY <4>2, <4>3
    <3>2. CASE ~(\/ shown.bssids \cap members = {} \/ shown.rotated = None
                 \/ shown.displayed \notin members)
      <4>1. next = Rotated(shown, members, at)
        BY <1>4, <2>1, <3>2
      <4>2. shown.rotated \in Int /\ shown.displayed \in members
        BY <3>2 DEF Reading
      <4> QED BY <2>3, <4>1, <4>2, RotatedIs
    <3> QED BY <3>1, <3>2
  <2>6. next.displayed # None
    <3>1. next.displayed \in members
      BY <2>5
    <3>2. \A b \in members : b \in Int
      BY <2>3
    <3>3. next.displayed \in Int
      BY <3>1, <3>2
    <3> QED BY <3>3, GroupingAssumption
  <2>7. ASSUME NEW s \in recent, s.peak # None
        PROVE  \E t \in recent :
                 t.bssid \in next.bssids /\ t.peak # None /\ s.peak <= t.peak
    <3>1. PICK t \in strongest : t.peak # None /\ s.peak <= t.peak
      BY <2>1, <2>7
    <3>2. t \in recent /\ t.bssid \in next.bssids
      BY <2>1, <2>3, <2>5, <3>1
    <3> QED BY <3>1, <3>2
  <2>8. next.rotated \in Reading
    BY <2>5 DEF Reading
  <2> QED BY <1>2, <1>3, <1>8, <2>5, <2>6, <2>7, <2>8
<1> QED BY <1>7, <1>8

-----------------------------------------------------------------------------
(* Refreshing again.                                                       *)

\* Division with a remainder, and that there is only one way to divide.
LEMMA Dividing ==
  ASSUME NEW x \in Nat, NEW n \in Nat, n > 0
  PROVE  /\ x \div n \in Nat /\ x % n \in 0..(n - 1)
         /\ x = n * (x \div n) + (x % n)
<1>1. x \div n \in Nat
  OBVIOUS
<1>2. x % n \in 0..(n - 1)
  OBVIOUS
<1>3. x % n = x - n * (x \div n)
  OBVIOUS
<1>4. n * (x \div n) \in Int
  BY <1>1
<1> QED BY <1>1, <1>2, <1>3, <1>4

LEMMA OneQuotient ==
  ASSUME NEW n \in Nat, n > 0, NEW q \in Int, NEW r \in 0..(n - 1),
         NEW p \in Int, NEW s \in 0..(n - 1), n * q + r = n * p + s
  PROVE  q = p /\ r = s
<1>1. n * q \in Int /\ n * p \in Int /\ n \in Int
  OBVIOUS
<1>2. ASSUME NEW a \in Int, NEW b \in Int, a < b
      PROVE  n * a + n <= n * b
  <2>1. (b - a - 1) \in Nat
    BY <1>2
  <2>2. n * (b - a - 1) >= 0
    BY <2>1
  <2>3. n * (b - a - 1) = n * b - n * a - n
    OBVIOUS
  <2>4. n * a \in Int /\ n * b \in Int
    OBVIOUS
  <2> QED BY <2>2, <2>3, <2>4
<1>3. ~(q < p)
  <2> SUFFICES ASSUME q < p
               PROVE  FALSE
    OBVIOUS
  <2>1. n * q + n <= n * p
    BY <1>2
  <2> QED BY <1>1, <2>1
<1>4. ~(p < q)
  <2> SUFFICES ASSUME p < q
               PROVE  FALSE
    OBVIOUS
  <2>1. n * p + n <= n * q
    BY <1>2
  <2> QED BY <1>1, <2>1
<1>5. q = p
  BY <1>3, <1>4
<1> QED BY <1>1, <1>5

\* Turning twice is turning once.
LEMMA TurningTwice ==
  ASSUME NEW n \in Nat, n > 0, NEW i \in Nat, NEW j \in Nat
  PROVE  ((i % n) + j) % n = (i + j) % n
<1>1. PICK q \in Nat, r \in 0..(n - 1) : r = i % n /\ i = n * q + r
  <2>1. i \div n \in Nat /\ i % n \in 0..(n - 1) /\ i = n * (i \div n) + (i % n)
    BY Dividing
  <2> QED BY <2>1
<1>2. PICK p \in Nat, s \in 0..(n - 1) : s = (r + j) % n /\ r + j = n * p + s
  <2>1. PICK x \in Nat : x = r + j
    OBVIOUS
  <2>2. x \div n \in Nat /\ x % n \in 0..(n - 1) /\ x = n * (x \div n) + (x % n)
    BY Dividing
  <2> QED BY <2>1, <2>2
<1>3. PICK u \in Nat, t \in 0..(n - 1) : t = (i + j) % n /\ i + j = n * u + t
  <2>1. PICK x \in Nat : x = i + j
    OBVIOUS
  <2>2. x \div n \in Nat /\ x % n \in 0..(n - 1) /\ x = n * (x \div n) + (x % n)
    BY Dividing
  <2> QED BY <2>1, <2>2
<1>4. n * (q + p) = n * q + n * p /\ n * q \in Int /\ n * p \in Int /\ n * u \in Int
  OBVIOUS
<1>5. n * (q + p) + s = n * u + t
  BY <1>1, <1>2, <1>3, <1>4
<1>6. s = t
  <2>1. q + p \in Int /\ u \in Int
    OBVIOUS
  <2> QED BY <1>5, <2>1, OneQuotient
<1> QED BY <1>1, <1>2, <1>3, <1>6

\* The steps of the rotation due at a second.
Steps(rotated, at) == IF rotated < at THEN (at - rotated) \div Rotation ELSE 0

\* Those due at two seconds, one after the other, are those due at the later.
LEMMA StepsAdd ==
  ASSUME NEW rotated \in Int, NEW middle \in Int, NEW at \in Int, middle <= at,
         NEW first, first = Steps(rotated, middle),
         NEW next, next = Steps(rotated + first * Rotation, at)
  PROVE  /\ first \in Nat /\ next \in Nat /\ Steps(rotated, at) = first + next
         /\ first * Rotation \in Int
<1>1. Rotation \in Nat /\ Rotation > 0
  BY DisplayAssumption
<1>2. 0 \div Rotation = 0
  <2>1. 0 \div Rotation \in Nat /\ 0 % Rotation \in 0..(Rotation - 1)
        /\ Rotation * (0 \div Rotation) + (0 % Rotation) = 0
    BY <1>1, Dividing
  <2>2. Rotation * 0 + 0 = 0 /\ 0 \in 0..(Rotation - 1)
    BY <1>1
  <2> QED BY <1>1, <2>1, <2>2, OneQuotient
<1>3. CASE rotated < middle
  <2>1. middle - rotated \in Nat /\ first = (middle - rotated) \div Rotation
    BY <1>3 DEF Steps
  <2>2. /\ first \in Nat
        /\ \E r \in 0..(Rotation - 1) : middle - rotated = Rotation * first + r
    <3>1. PICK x \in Nat : x = middle - rotated
      BY <2>1
    <3>2. /\ x \div Rotation \in Nat /\ x % Rotation \in 0..(Rotation - 1)
          /\ x = Rotation * (x \div Rotation) + (x % Rotation)
      BY <1>1, Dividing
    <3> QED BY <2>1, <3>1, <3>2
  <2>3. PICK r \in 0..(Rotation - 1) : middle - rotated = Rotation * first + r
    BY <2>2
  <2>4. /\ first * Rotation = Rotation * first /\ first * Rotation \in Nat
        /\ rotated + first * Rotation <= middle
    BY <1>1, <2>2, <2>3
  <2>5. PICK mid : mid = rotated + first * Rotation
    OBVIOUS
  <2>6. mid \in Int /\ mid <= at /\ at - mid \in Nat
    BY <2>4, <2>5
  <2>7. next = (at - mid) \div Rotation
    <3>1. CASE mid < at
      BY <2>5, <3>1 DEF Steps
    <3>2. CASE mid = at
      <4>1. next = 0 /\ at - mid = 0
        BY <2>5, <2>6, <3>2 DEF Steps
      <4> QED BY <1>2, <4>1
    <3> QED BY <2>6, <3>1, <3>2
  <2>8. /\ next \in Nat
        /\ \E s \in 0..(Rotation - 1) : at - mid = Rotation * next + s
    <3>1. PICK x \in Nat : x = at - mid
      BY <2>6
    <3>2. /\ x \div Rotation \in Nat /\ x % Rotation \in 0..(Rotation - 1)
          /\ x = Rotation * (x \div Rotation) + (x % Rotation)
      BY <1>1, Dividing
    <3> QED BY <2>7, <3>1, <3>2
  <2>9. PICK s \in 0..(Rotation - 1) : at - mid = Rotation * next + s
    BY <2>8
  <2>10. at - rotated \in Nat /\ rotated < at
    BY <1>3
  <2>11. PICK all : all = (at - rotated) \div Rotation
    OBVIOUS
  <2>12. /\ all \in Nat
         /\ \E t \in 0..(Rotation - 1) : at - rotated = Rotation * all + t
    <3>1. PICK x \in Nat : x = at - rotated
      BY <2>10
    <3>2. /\ x \div Rotation \in Nat /\ x % Rotation \in 0..(Rotation - 1)
          /\ x = Rotation * (x \div Rotation) + (x % Rotation)
      BY <1>1, Dividing
    <3> QED BY <2>11, <3>1, <3>2
  <2>13. PICK t \in 0..(Rotation - 1) : at - rotated = Rotation * all + t
    BY <2>12
  <2>14. /\ Rotation * (first + next) = Rotation * first + Rotation * next
         /\ Rotation * first \in Int /\ Rotation * next \in Int /\ Rotation * all \in Int
    BY <1>1, <2>2, <2>8, <2>12
  <2>15. Rotation * (first + next) + s = Rotation * all + t
    BY <2>4, <2>5, <2>6, <2>9, <2>13, <2>14
  <2>16. first + next = all
    <3>1. first + next \in Int /\ all \in Int
      BY <2>2, <2>8, <2>12
    <3> QED BY <1>1, <2>15, <3>1, OneQuotient
  <2>17. Steps(rotated, at) = all
    BY <2>10, <2>11 DEF Steps
  <2> QED BY <2>2, <2>4, <2>8, <2>16, <2>17
<1>4. CASE ~(rotated < middle)
  <2>1. first = 0 /\ first * Rotation = 0
    BY <1>1, <1>4 DEF Steps
  <2>2. rotated + first * Rotation = rotated
    BY <2>1
  <2>3. next = Steps(rotated, at)
    BY <2>2
  <2>4. next \in Nat
    <3>1. CASE rotated < at
      <4>1. at - rotated \in Nat
        BY <3>1
      <4>2. (at - rotated) \div Rotation \in Nat
        BY <1>1, <4>1, Dividing
      <4> QED BY <2>3, <3>1, <4>2 DEF Steps
    <3>2. CASE ~(rotated < at)
      BY <2>3, <3>2 DEF Steps
    <3> QED BY <3>1, <3>2
  <2> QED BY <2>1, <2>3, <2>4
<1> QED BY <1>3, <1>4

\* What Rotated does, by the place of the SSID shown.
LEMMA RotatedTo ==
  ASSUME NEW members \in SUBSET Nat, IsFiniteSet(members), NEW at \in Int,
         NEW shown, shown.rotated \in Int,
         NEW order, order = Ascending(members),
         NEW i \in DOMAIN order, order[i] = shown.displayed,
         NEW steps, steps = Steps(shown.rotated, at)
  PROVE  Rotated(shown, members, at)
           = [rotated |-> shown.rotated + steps * Rotation, bssids |-> members,
              displayed |-> order[((i - 1 + steps) % Len(order)) + 1]]
<1>1. \A j, k \in DOMAIN order : order[j] = order[k] => j = k
  <2>1. members \in SUBSET Int
    OBVIOUS
  <2>2. /\ Cardinality(members) \in Nat /\ DOMAIN order = 1..Cardinality(members)
        /\ order \in Seq(members)
        /\ \A j, k \in DOMAIN order : j < k => order[j] < order[k]
    BY <2>1, InOrder
  <2>3. ASSUME NEW j \in DOMAIN order, NEW k \in DOMAIN order, order[j] = order[k]
        PROVE  j = k
    <3>1. order[j] \in members /\ order[k] \in members
      BY <2>2
    <3>3. order[j] \in Nat /\ order[k] \in Nat
      BY <3>1
    <3>4. j \in Int /\ k \in Int
      BY <2>2
    <3>2. ~(j < k) /\ ~(k < j)
      <4>1. ~(order[j] < order[k]) /\ ~(order[k] < order[j])
        BY <2>3, <3>3
      <4> QED BY <2>2, <4>1
    <3> QED BY <3>2, <3>4
  <2> QED BY <2>3
<1>2. PICK index : index = CHOOSE j \in DOMAIN order : order[j] = shown.displayed
  OBVIOUS
<1>3. index = i
  <2>1. index \in DOMAIN order /\ order[index] = shown.displayed
    BY <1>2
  <2> QED BY <1>1, <2>1
<1>4. Rotated(shown, members, at)
        = [rotated |-> shown.rotated + steps * Rotation, bssids |-> members,
           displayed |-> order[((index - 1 + steps) % Len(order)) + 1]]
  BY <1>2 DEF Rotated, Steps
<1> QED BY <1>3, <1>4

\* Rotating at two seconds, one after the other, is rotating at the later.
LEMMA RotatedTwice ==
  ASSUME NEW members \in SUBSET Nat, IsFiniteSet(members),
         NEW middle \in Int, NEW at \in Int, middle <= at,
         NEW shown, shown.rotated \in Int, shown.displayed \in members
  PROVE  Rotated(Rotated(shown, members, middle), members, at) = Rotated(shown, members, at)
<1>1. PICK order : order = Ascending(members)
  OBVIOUS
<1>2. PICK n : n = Len(order)
  OBVIOUS
<1>3. n \in Nat /\ DOMAIN order = 1..n /\ \A b \in members : \E i \in DOMAIN order : order[i] = b
  <2>1. members \in SUBSET Int
    OBVIOUS
  <2> QED BY <1>1, <1>2, <2>1, InOrder
<1>4. PICK i \in DOMAIN order : order[i] = shown.displayed
  BY <1>3
<1>5. i - 1 \in Nat /\ n > 0
  BY <1>3, <1>4
<1>6. PICK first : first = Steps(shown.rotated, middle)
  OBVIOUS
<1>7. PICK mid : mid = shown.rotated + first * Rotation
  OBVIOUS
<1>8. PICK next : next = Steps(mid, at)
  OBVIOUS
<1>9. PICK all : all = Steps(shown.rotated, at)
  OBVIOUS
<1>10. first \in Nat /\ next \in Nat /\ all = first + next /\ first * Rotation \in Int
  <2>1. PICK rotated \in Int : rotated = shown.rotated
    OBVIOUS
  <2>2. first = Steps(rotated, middle) /\ next = Steps(rotated + first * Rotation, at)
    BY <1>6, <1>7, <1>8, <2>1
  <2>3. /\ first \in Nat /\ next \in Nat /\ Steps(rotated, at) = first + next
        /\ first * Rotation \in Int
    BY <2>2, StepsAdd
  <2> QED BY <1>9, <2>1, <2>3
<1>11. PICK j : j = ((i - 1 + first) % n) + 1
  OBVIOUS
<1>12. j \in 1..n /\ j - 1 = (i - 1 + first) % n
  <2>1. PICK x \in Nat : x = i - 1 + first
    BY <1>5, <1>10
  <2>2. x % n \in 0..(n - 1)
    BY <1>3, <1>5, Dividing
  <2> QED BY <1>3, <1>11, <2>1, <2>2
<1>13. PICK turned : turned = Rotated(shown, members, middle)
  OBVIOUS
<1>14. turned = [rotated |-> mid, bssids |-> members, displayed |-> order[j]]
  BY <1>1, <1>2, <1>4, <1>6, <1>7, <1>11, <1>13, RotatedTo
<1>15. turned.rotated = mid /\ mid \in Int /\ order[j] = turned.displayed /\ j \in DOMAIN order
  BY <1>3, <1>7, <1>10, <1>12, <1>14
<1>16. Rotated(turned, members, at)
         = [rotated |-> mid + next * Rotation, bssids |-> members,
            displayed |-> order[((j - 1 + next) % n) + 1]]
  BY <1>1, <1>2, <1>8, <1>15, RotatedTo
<1>17. Rotated(shown, members, at)
         = [rotated |-> shown.rotated + all * Rotation, bssids |-> members,
            displayed |-> order[((i - 1 + all) % n) + 1]]
  BY <1>1, <1>2, <1>4, <1>9, RotatedTo
<1>18. mid + next * Rotation = shown.rotated + all * Rotation
  <2>1. Rotation \in Nat
    BY DisplayAssumption
  <2>2. (first + next) * Rotation = first * Rotation + next * Rotation
    BY <1>10, <2>1
  <2>3. next * Rotation \in Int
    BY <1>10, <2>1
  <2> QED BY <1>7, <1>10, <2>2, <2>3
<1>19. (j - 1 + next) % n = (i - 1 + all) % n
  <2>1. PICK x \in Nat : x = i - 1 + first
    BY <1>5, <1>10
  <2>2. ((x % n) + next) % n = (x + next) % n
    BY <1>3, <1>5, <1>10, TurningTwice
  <2>3. x + next = i - 1 + all
    BY <1>5, <1>10, <2>1
  <2> QED BY <1>12, <2>1, <2>2, <2>3
<1> QED BY <1>13, <1>16, <1>17, <1>18, <1>19

\* So is composing, of the same states, what one of them left.
LEMMA ComposedTwice ==
  ASSUME NEW recent, Addressed(recent), NEW now \in Int, NEW before, before.rotated \in Reading,
         NEW shown, shown = Composed(before, recent, now),
         NEW middle \in Int, NEW at \in Int, middle <= at
  PROVE  Composed(Composed(shown, recent, middle), recent, at) = Composed(shown, recent, at)
<1>1. PICK groups : groups = estimate_radio_groups(recent)
  OBVIOUS
<1>2. SoundGroups(groups, recent) /\ IsFiniteSet(groups)
  BY <1>1, Estimating
<1>3. PICK strongest : strongest = select_strongest_radio(groups, before.bssids)
  OBVIOUS
<1>4. CASE recent = {}
  <2>1. \A current : select_strongest_radio(groups, current) = {}
    BY <1>2, <1>4, StrongestRadioIs
  <2>2. \A anything, second_ : Composed(anything, recent, second_) = NoRadio
    BY <1>1, <2>1 DEF Composed
  <2> QED BY <2>2
<1>5. CASE recent # {}
  <2>1. PICK members : members = BssidsOf(strongest)
    OBVIOUS
  <2>2. /\ strongest # {} /\ strongest \subseteq recent
    BY <1>2, <1>3, <1>5, StrongestRadioIs
  <2>3. IsFiniteSet(members) /\ members \in SUBSET Nat /\ members # {}
    <3>1. strongest \in SUBSET recent
      BY <2>2
    <3>2. Addressed(strongest)
      BY <3>1, SomeAddressed
    <3>3. PICK s \in strongest : TRUE
      BY <2>2
    <3> QED BY <2>1, <3>2, <3>3, TheirBssids
  <2>4. select_strongest_radio(groups, members) = strongest
    BY <1>2, <1>3, <1>5, <2>1, StrongestRadioStays
  <2>5. shown.rotated \in Int /\ shown.displayed \in members /\ shown.bssids = members
    BY <1>1, <1>3, <1>5, <2>1, ComposedIs
  <2>6. ASSUME NEW state, state.rotated \in Int, state.displayed \in members,
               state.bssids = members, NEW when
        PROVE  Composed(state, recent, when) = Rotated(state, members, when)
    <3>1. select_strongest_radio(estimate_radio_groups(recent), state.bssids) = strongest
      BY <1>1, <2>4, <2>6
    <3>2. state.bssids \cap members # {} /\ state.rotated # None
      BY <2>3, <2>6, GroupingAssumption
    <3> QED BY <2>1, <2>2, <2>6, <3>1, <3>2 DEF Composed
  <2>7. PICK turned : turned = Rotated(shown, members, middle)
    OBVIOUS
  <2>8. turned.rotated \in Int /\ turned.bssids = members /\ turned.displayed \in members
    BY <2>3, <2>5, <2>7, RotatedIs
  <2>9. Composed(shown, recent, middle) = turned
    BY <2>5, <2>6, <2>7
  <2>10. Composed(turned, recent, at) = Rotated(turned, members, at)
    BY <2>6, <2>8
  <2>11. Composed(shown, recent, at) = Rotated(shown, members, at)
    BY <2>5, <2>6
  <2>12. Rotated(turned, members, at) = Rotated(shown, members, at)
    BY <2>3, <2>5, <2>7, RotatedTwice
  <2> QED BY <2>9, <2>10, <2>11, <2>12
<1> QED BY <1>4, <1>5

-----------------------------------------------------------------------------
(* Refresh by refresh.                                                     *)

\* What is in the window: finitely many states, each under its own address.
HeardOK ==
  /\ IsFiniteSet(DOMAIN heard)
  /\ \A b \in DOMAIN heard :
       /\ heard[b] \in BssidState /\ heard[b].bssid = b

ChoiceInv ==
  /\ HeardOK /\ second \in Int /\ radio.rotated \in Reading
  /\ ChoicesJustified /\ CadenceFree

LEMMA StatesAddressed ==
  ASSUME HeardOK
  PROVE  /\ Addressed(States)
         /\ \A s \in States : s.bssid \in DOMAIN heard /\ heard[s.bssid] = s
<1> DEFINE f == [b \in DOMAIN heard |-> heard[b]]
<1>1. f \in Surjection(DOMAIN heard, States)
  BY DEF Surjection, States
<1>2. IsFiniteSet(States)
  BY <1>1, FS_Surjection DEF HeardOK
<1>3. \A s \in States : /\ s.bssid \in DOMAIN heard /\ heard[s.bssid] = s
                        /\ s \in BssidState
  BY DEF HeardOK, States
<1> QED BY <1>2, <1>3 DEF Addressed

\* The candidates for the retry source, of what is heard and of the frames.
RetryStatesOf(h, by) ==
  {[bssid |-> b,
    peak |-> IF b \in DOMAIN h THEN h[b].peak ELSE None,
    retries |-> IF b \in DOMAIN by THEN by[b].retries ELSE 0,
    eligible |-> IF b \in DOMAIN by THEN by[b].eligible ELSE 0] :
     b \in DOMAIN h \cup DOMAIN by}

LEMMA RetryStatesRanked ==
  ASSUME NEW h, IsFiniteSet(DOMAIN h),
         \A b \in DOMAIN h : b \in Nat /\ h[b].peak \in Reading,
         NEW by \in Summaries
  PROVE  Ranked(RetryStatesOf(h, by)) /\ Counted(RetryStatesOf(h, by))
<1> DEFINE all == DOMAIN h \cup DOMAIN by
           f == [b \in all |->
                   [bssid |-> b,
                    peak |-> IF b \in DOMAIN h THEN h[b].peak ELSE None,
                    retries |-> IF b \in DOMAIN by THEN by[b].retries ELSE 0,
                    eligible |-> IF b \in DOMAIN by THEN by[b].eligible ELSE 0]]
<1>1. PICK some \in SUBSET Senders : by \in [some -> Counts]
  BY DEF Summaries
<1>2. IsFiniteSet(some) /\ some \subseteq Nat /\ DOMAIN by = some
  BY <1>1, DisplayAssumption, FS_Subset
<1>3. \A b \in DOMAIN by : /\ by[b].retries \in Nat /\ by[b].eligible \in Nat
                           /\ by[b].retries <= by[b].eligible
  <2>1. \A b \in DOMAIN by : by[b] \in Counts
    BY <1>1
  <2> QED BY <2>1, DisplayAssumption
<1>4. PICK states : states = RetryStatesOf(h, by)
  OBVIOUS
<1>5. f \in Surjection(all, states)
  BY <1>4 DEF Surjection, RetryStatesOf
<1>6. IsFiniteSet(states)
  <2>1. IsFiniteSet(all)
    BY <1>2, FS_Union
  <2> HIDE DEF f, all
  <2> QED BY <1>5, <2>1, FS_Surjection
<1>7. ASSUME NEW s \in states
      PROVE  /\ s = f[s.bssid]
             /\ s.bssid \in Nat /\ s.peak \in Reading
             /\ s.retries \in Nat /\ s.eligible \in Nat /\ s.retries <= s.eligible
  <2>1. PICK b \in all : s = f[b]
    BY <1>5 DEF Surjection
  <2>2. /\ s.bssid = b
        /\ s.peak = IF b \in DOMAIN h THEN h[b].peak ELSE None
        /\ s.retries = IF b \in DOMAIN by THEN by[b].retries ELSE 0
        /\ s.eligible = IF b \in DOMAIN by THEN by[b].eligible ELSE 0
    BY <2>1
  <2>3. b \in Nat /\ s.peak \in Reading
    BY <1>2, <2>2 DEF Reading
  <2>4. s.retries \in Nat /\ s.eligible \in Nat /\ s.retries <= s.eligible
    BY <1>3, <2>2
  <2>5. s = f[s.bssid]
    BY <2>1, <2>2
  <2> QED BY <2>2, <2>3, <2>4, <2>5
<1>8. \A s, t \in states : s.bssid = t.bssid => s = t
  <2> HIDE DEF f
  <2> QED BY <1>7
<1> QED BY <1>4, <1>6, <1>7, <1>8 DEF Ranked, Counted

\* The radios estimated of what is heard are sound.
LEMMA HeardRadios ==
  ASSUME HeardOK
  PROVE  RadiosSound
<1>1. SoundGroups(estimate_radio_groups(States), States)
  BY StatesAddressed, Estimating
<1> QED BY <1>1 DEF RadiosSound, SoundGroups

\* Beacons and expiries leave the window as it should be.
LEMMA WindowKept ==
  ASSUME HeardOK, second \in Int, DisplayNext \/ UNCHANGED displayVars
  PROVE  HeardOK'
<1>1. ASSUME NEW b \in Bssids, Heard(b)
      PROVE  HeardOK'
  <2>1. PICK profile \in Profiles[b] :
          heard' = [x \in DOMAIN heard \cup {b} |->
                      IF x # b THEN heard[x] ELSE [profile EXCEPT !.seen = second + 1]]
    BY <1>1 DEF Heard
  <2>2. profile \in BssidState /\ profile.bssid = b
    BY DisplayAssumption
  <2>3. PICK state : state = [profile EXCEPT !.seen = second + 1]
    OBVIOUS
  <2>4. state \in BssidState /\ state.bssid = b
    <3>1. second + 1 \in Int
      OBVIOUS
    <3> QED BY <2>2, <2>3, <3>1 DEF BssidState
  <2>5. IsFiniteSet(DOMAIN heard \cup {b})
    BY FS_AddElement DEF HeardOK
  <2>6. DOMAIN heard' = DOMAIN heard \cup {b}
    BY <2>1
  <2>7. \A x \in DOMAIN heard' : heard'[x] = IF x # b THEN heard[x] ELSE state
    BY <2>1, <2>3
  <2>8. \A x \in DOMAIN heard' : /\ heard'[x] \in BssidState /\ heard'[x].bssid = x
    BY <2>4, <2>6, <2>7 DEF HeardOK
  <2> QED BY <2>5, <2>6, <2>8 DEF HeardOK
<1>2. ASSUME NEW b \in Bssids, Leave(b)
      PROVE  HeardOK'
  <2>1. heard' = [x \in DOMAIN heard \ {b} |-> heard[x]]
    BY <1>2 DEF Leave
  <2>2. IsFiniteSet(DOMAIN heard \ {b})
    <3>1. DOMAIN heard \ {b} \subseteq DOMAIN heard
      OBVIOUS
    <3> QED BY <3>1, FS_Subset DEF HeardOK
  <2>3. DOMAIN heard' = DOMAIN heard \ {b} /\ \A x \in DOMAIN heard' : heard'[x] = heard[x]
    BY <2>1
  <2>4. \A x \in DOMAIN heard' : /\ heard'[x] \in BssidState /\ heard'[x].bssid = x
    BY <2>3 DEF HeardOK
  <2> QED BY <2>2, <2>3, <2>4 DEF HeardOK
<1>3. CASE RefreshAny \/ UNCHANGED displayVars
  <2>1. heard' = heard
    BY <1>3 DEF RefreshAny, Refresh, displayVars
  <2> QED BY <2>1 DEF HeardOK
<1> QED BY <1>1, <1>2, <1>3 DEF DisplayNext

\* A refresh chooses the retry source among such candidates.
LEMMA RefreshRanked ==
  ASSUME HeardOK, NEW at, Refresh(at), NEW retrying, retrying = RetryStates'
  PROVE  Ranked(retrying) /\ Counted(retrying)
<1>1. PICK h, by : h = heard' /\ by = by_bssid'
  OBVIOUS
<1>2. h = heard /\ by \in Summaries
  BY <1>1 DEF Refresh, Summaries
<1>3. RetryStates' = RetryStatesOf(h, by)
  BY <1>1 DEF RetryStates, RetryStatesOf
<1>4. IsFiniteSet(DOMAIN h) /\ \A b \in DOMAIN h : b \in Nat /\ h[b].peak \in Reading
  BY <1>2 DEF HeardOK, BssidState
<1> QED BY <1>2, <1>3, <1>4, RetryStatesRanked

\* After a refresh every choice has its reasons.
LEMMA RefreshJustifies ==
  ASSUME HeardOK, radio.rotated \in Reading, NEW at \in Int, Refresh(at),
         NEW retrying, retrying = RetryStates', Ranked(retrying), Counted(retrying)
  PROVE  radio'.rotated \in Reading /\ ChoicesJustified' /\ CadenceFree'
<1>1. PICK states : states = States
  OBVIOUS
<1>2. /\ Addressed(states)
      /\ \A s \in states : s.bssid \in DOMAIN heard /\ heard[s.bssid] = s
  BY <1>1, StatesAddressed
<1>3. /\ second' = at /\ heard' = heard /\ States' = states
      /\ selected' = select_bssid(states, selected)
      /\ retry' = select_retry_bssid(retrying, states, retry)
      /\ radio' = Composed(radio, Recent(states, at + 1), at)
  BY <1>1 DEF Refresh, States
<1>4. /\ (selected' = None) = (\A s \in states : ~s.qbss)
      /\ selected' # None =>
           /\ selected' \in DOMAIN heard /\ heard[selected'].qbss
           /\ \A s \in states : s.qbss /\ s.peak # None =>
                /\ heard[selected'].peak # None
                /\ s.peak - heard[selected'].peak <= Hysteresis
           /\ \A s \in NearEqual({t \in states : t.qbss}) :
                StationCount(s) <= StationCount(heard[selected'])
  <2>1. /\ selected' = None <=> \A s \in states : ~s.qbss
        /\ selected' # None =>
             \E s \in states :
               /\ s.bssid = selected' /\ s.qbss
               /\ s \in NearEqual({t \in states : t.qbss})
               /\ \A t \in NearEqual({u \in states : u.qbss}) :
                    StationCount(t) <= StationCount(s)
    BY <1>2, <1>3, SelectedIs
  <2>2. ASSUME selected' # None
        PROVE  /\ selected' \in DOMAIN heard /\ heard[selected'].qbss
               /\ \A s \in states : s.qbss /\ s.peak # None =>
                    /\ heard[selected'].peak # None
                    /\ s.peak - heard[selected'].peak <= Hysteresis
               /\ \A s \in NearEqual({t \in states : t.qbss}) :
                    StationCount(s) <= StationCount(heard[selected'])
    <3>1. PICK candidates : candidates = {t \in states : t.qbss}
      OBVIOUS
    <3>2. PICK s \in states :
            /\ s.bssid = selected' /\ s.qbss /\ s \in NearEqual(candidates)
            /\ \A t \in NearEqual(candidates) : StationCount(t) <= StationCount(s)
      BY <2>1, <2>2, <3>1
    <3>3. Addressed(candidates) /\ s \in candidates
      <4>1. candidates \in SUBSET states
        BY <3>1
      <4> QED BY <1>2, <3>1, <3>2, <4>1, SomeAddressed
    <3>4. \A t \in candidates : t.peak # None =>
            s.peak # None /\ t.peak - s.peak <= Hysteresis
      BY <3>2, <3>3, NearEqualIs
    <3>5. selected' \in DOMAIN heard /\ heard[selected'] = s
      BY <1>2, <3>2
    <3>6. \A t \in states : t.qbss => t \in candidates
      BY <3>1
    <3> QED BY <3>1, <3>2, <3>4, <3>5, <3>6
  <2> QED BY <2>1, <2>2
<1>5. /\ (\E s \in retrying : s.retries > 0) =>
           \E source \in retrying :
             /\ source.bssid = retry' /\ source.retries > 0
             /\ \A s \in retrying : ~MoreRetries(s, source)
      /\ (\A s \in retrying : s.retries = 0) =>
           /\ (retry' = None) = (states = {})
           /\ retry' # None =>
                /\ retry' \in DOMAIN heard
                /\ \A s \in states : s.peak # None =>
                     heard[retry'].peak # None /\ s.peak <= heard[retry'].peak
  <2>1. /\ (\E s \in retrying : s.retries > 0) =>
             \E source \in retrying :
               /\ source.bssid = retry' /\ source.retries > 0
               /\ \A s \in retrying : ~MoreRetries(s, source)
        /\ (\A s \in retrying : s.retries = 0) =>
             /\ retry' = None <=> states = {}
             /\ retry' # None =>
                  \E s \in states :
                    /\ s.bssid = retry'
                    /\ \A t \in states : t.peak # None =>
                         s.peak # None /\ t.peak <= s.peak
    BY <1>2, <1>3, RetryIs
  <2>2. ASSUME \A s \in retrying : s.retries = 0, retry' # None
        PROVE  /\ retry' \in DOMAIN heard
               /\ \A t \in states : t.peak # None =>
                    heard[retry'].peak # None /\ t.peak <= heard[retry'].peak
    <3>1. PICK s \in states :
            /\ s.bssid = retry'
            /\ \A t \in states : t.peak # None => s.peak # None /\ t.peak <= s.peak
      BY <2>1, <2>2
    <3>2. retry' \in DOMAIN heard /\ heard[retry'] = s
      BY <1>2, <3>1
    <3> QED BY <3>1, <3>2
  <2> QED BY <2>1, <2>2
<1>6. /\ radio'.rotated \in Reading
      /\ (radio'.displayed = None) = (Recent(states, at + 1) = {})
      /\ radio'.displayed # None =>
           /\ radio'.displayed \in radio'.bssids
           /\ \A s \in Recent(states, at + 1) : s.peak # None =>
                \E b \in radio'.bssids : heard[b].peak # None /\ s.peak <= heard[b].peak
  <2>1. PICK next : next = radio'
    OBVIOUS
  <2>4. PICK recent : recent = Recent(states, at + 1)
    OBVIOUS
  <2>5. Addressed(recent) /\ recent \subseteq states
    <3>1. recent \in SUBSET states
      BY <2>4 DEF Recent
    <3> QED BY <1>2, <3>1, SomeAddressed
  <2>6. next = Composed(radio, recent, at)
    BY <1>3, <2>1, <2>4
  <2>2. /\ next.rotated \in Reading
        /\ next.displayed = None <=> recent = {}
        /\ next.displayed # None =>
             /\ next.displayed \in next.bssids
             /\ \A s \in recent : s.peak # None =>
                  \E t \in recent :
                    t.bssid \in next.bssids /\ t.peak # None /\ s.peak <= t.peak
    BY <2>5, <2>6, ComposedIs
  <2>3. ASSUME next.displayed # None, NEW s \in recent, s.peak # None
        PROVE  \E b \in next.bssids : heard[b].peak # None /\ s.peak <= heard[b].peak
    <3>1. PICK t \in recent : t.bssid \in next.bssids /\ t.peak # None /\ s.peak <= t.peak
      BY <2>2, <2>3
    <3>2. heard[t.bssid] = t
      BY <1>2, <2>5
    <3> QED BY <3>1, <3>2
  <2> QED BY <2>1, <2>2, <2>3, <2>4
<1>7. ChoicesJustified'
  BY <1>3, <1>4, <1>5, <1>6 DEF ChoicesJustified
<1>8. CadenceFree'
  <2>1. PICK recent : recent = Recent(states, at + 1)
    OBVIOUS
  <2>2. Addressed(recent)
    <3>1. recent \in SUBSET states
      BY <2>1 DEF Recent
    <3> QED BY <1>2, <3>1, SomeAddressed
  <2>3. Recent(States', second' + 1) = recent
    BY <1>3, <2>1
  <2>4. /\ select_bssid(states, selected') = selected'
        /\ select_retry_bssid(retrying, states, retry') = retry'
    <3>1. PICK chosen, source : chosen = selected' /\ source = retry'
      OBVIOUS
    <3>2. select_bssid(states, chosen) = chosen
      BY <1>2, <1>3, <3>1, SelectedIs
    <3>3. select_retry_bssid(retrying, states, source) = source
      BY <1>2, <1>3, <3>1, RetryIs
    <3> QED BY <3>1, <3>2, <3>3
  <2>5. ASSUME NEW middle \in at..MaxSecond, NEW late \in at..MaxSecond, middle <= late
        PROVE  Composed(Composed(radio', recent, middle), recent, late)
                 = Composed(radio', recent, late)
    <3>1. middle \in Int /\ late \in Int
      BY DisplayAssumption
    <3>2. PICK shown : shown = radio'
      OBVIOUS
    <3>3. shown = Composed(radio, recent, at)
      BY <1>3, <2>1, <3>2
    <3>4. Composed(Composed(shown, recent, middle), recent, late)
            = Composed(shown, recent, late)
      BY <2>2, <2>5, <3>1, <3>3, ComposedTwice
    <3> QED BY <3>2, <3>4
  <2> QED BY <1>3, <2>3, <2>4, <2>5 DEF CadenceFree
<1> QED BY <1>6, <1>7, <1>8

\* ChoicesJustified, and what it needs of the window, are inductive.
LEMMA ChoiceInductive ==
  ASSUME ChoiceInv, DisplayNext \/ UNCHANGED displayVars
  PROVE  ChoiceInv'
<1>1. HeardOK' /\ second \in Int /\ radio.rotated \in Reading
  BY WindowKept DEF ChoiceInv
<1>2. ASSUME NEW at \in second..MaxSecond, Refresh(at)
      PROVE  ChoiceInv'
  <2>1. at \in Int
    BY <1>1, DisplayAssumption
  <2>2. PICK retrying : retrying = RetryStates'
    OBVIOUS
  <2>3. Ranked(retrying) /\ Counted(retrying)
    BY <1>1, <1>2, <2>2, RefreshRanked DEF ChoiceInv
  <2>4. radio'.rotated \in Reading /\ ChoicesJustified' /\ CadenceFree'
    BY <1>1, <1>2, <2>1, <2>2, <2>3, RefreshJustifies DEF ChoiceInv
  <2>5. second' = at
    BY <1>2 DEF Refresh
  <2> QED BY <1>1, <2>1, <2>4, <2>5 DEF ChoiceInv
<1>3. CASE \E b \in Bssids : Heard(b) \/ Leave(b)
  <2>1. fresh' = FALSE /\ second' = second /\ radio' = radio
    BY <1>3 DEF Heard, Leave
  <2>2. ChoicesJustified' /\ CadenceFree'
    BY <2>1 DEF ChoicesJustified, CadenceFree
  <2> QED BY <1>1, <2>1, <2>2 DEF ChoiceInv
<1>4. CASE UNCHANGED displayVars
  <2>1. /\ heard' = heard /\ second' = second /\ selected' = selected
        /\ retry' = retry /\ radio' = radio /\ fresh' = fresh /\ by_bssid' = by_bssid
    BY <1>4 DEF displayVars
  <2>2. States' = States /\ RetryStates' = RetryStates
    BY <2>1 DEF States, RetryStates
  <2>3. ChoicesJustified'
    BY <2>1, <2>2 DEF ChoiceInv, ChoicesJustified
  <2>4. CadenceFree'
    BY <2>1, <2>2 DEF ChoiceInv, CadenceFree
  <2> QED BY <1>1, <2>1, <2>3, <2>4 DEF ChoiceInv
<1> QED BY <1>2, <1>3, <1>4 DEF DisplayNext, RefreshAny

LEMMA ChoiceStarts ==
  ASSUME DisplayInit
  PROVE  ChoiceInv
<1>1. /\ DOMAIN heard = {} /\ second = 0 /\ fresh = FALSE /\ radio = NoRadio
  BY DEF DisplayInit
<1>2. HeardOK
  BY <1>1, FS_EmptySet DEF HeardOK
<1>3. second \in Int /\ radio.rotated \in Reading
  BY <1>1 DEF NoRadio, Reading
<1>4. ChoicesJustified /\ CadenceFree
  BY <1>1 DEF ChoicesJustified, CadenceFree
<1> QED BY <1>2, <1>3, <1>4 DEF ChoiceInv

\* After a refresh the selected BSSID, the retry source and the SSID shown are
\* what the window as it is now gives reasons for: a choice kept for the sake
\* of a steady display never outlives them (analyzer.py 178-234, 819-916,
\* 1409-1483, 1775-1806).
THEOREM ChoicesAreJustified == DisplaySpec => []ChoicesJustified
<1>1. DisplayInit => ChoiceInv
  BY ChoiceStarts
<1>2. ChoiceInv /\ [DisplayNext]_displayVars => ChoiceInv'
  BY ChoiceInductive
<1>3. ChoiceInv => ChoicesJustified
  BY DEF ChoiceInv
<1> QED BY <1>1, <1>2, <1>3, PTL DEF DisplaySpec

\* Whatever is heard, the radios estimated of it partition it into groups all
\* of whose members go together, of which no two could have been one
\* (radio_grouping.py 29-123).
THEOREM RadiosAreSound == DisplaySpec => []RadiosSound
<1>1. DisplayInit => ChoiceInv
  BY ChoiceStarts
<1>2. ChoiceInv /\ [DisplayNext]_displayVars => ChoiceInv'
  BY ChoiceInductive
<1>3. ChoiceInv => RadiosSound
  BY HeardRadios DEF ChoiceInv
<1> QED BY <1>1, <1>2, <1>3, PTL DEF DisplaySpec

\* How often the display is refreshed decides neither what is shown nor when
\* the SSID changes: refreshing again changes nothing, and seconds that were
\* skipped make up for themselves (analyzer.py 842-866).
THEOREM CadenceIsFree == DisplaySpec => []CadenceFree
<1>1. DisplayInit => ChoiceInv
  BY ChoiceStarts
<1>2. ChoiceInv /\ [DisplayNext]_displayVars => ChoiceInv'
  BY ChoiceInductive
<1>3. ChoiceInv => CadenceFree
  BY DEF ChoiceInv
<1> QED BY <1>1, <1>2, <1>3, PTL DEF DisplaySpec

=============================================================================
