-------------------------- MODULE LivePipelineProofs --------------------------
(***************************************************************************)
(* From captured frames to rows and graphs, for any frames, any number of  *)
(* them and any times that do not go back, any second and window, any pipe *)
(* and any readings: the log misses no second and no beacon, what it says  *)
(* of a second is exact, and the graph agrees with it.                     *)
(***************************************************************************)
EXTENDS LivePipeline, FiniteSetTheorems, SequenceTheorems, NaturalsInduction,
        WellFoundedInduction, TLAPS

-----------------------------------------------------------------------------
(* Ranks.                                                                  *)

\* Of the members of an interval the k-th is k after the one before the first.
LEMMA NthOfInterval ==
  ASSUME NEW a \in Int, NEW b \in Int, NEW k \in 1..(b - a + 1)
  PROVE  Nth(a..b, k) = a + k - 1
<1>1. ASSUME NEW n \in a..b
      PROVE  Cardinality({m \in a..b : m < n}) = n - a
  <2>1. n \in Int /\ n - 1 \in Int /\ a <= n /\ n <= b
    BY <1>1
  <2>2. {m \in a..b : m < n} = a..(n - 1)
    BY <2>1
  <2>3. Cardinality(a..(n - 1)) = IF a > n - 1 THEN 0 ELSE (n - 1) - a + 1
    BY <2>1, FS_Interval
  <2>4. Cardinality({m \in a..b : m < n}) = Cardinality(a..(n - 1))
    BY <2>2, Zenon
  <2> QED BY <2>1, <2>3, <2>4
<1>2. a + k - 1 \in a..b /\ (a + k - 1) - a = k - 1
  OBVIOUS
<1>3. \A n \in a..b : Cardinality({m \in a..b : m < n}) = k - 1 <=> n = a + k - 1
  BY <1>1
<1> QED BY <1>2, <1>3 DEF Nth

\* A sequence from one of its positions on.
LEMMA KeptFrom ==
  ASSUME NEW S, NEW q \in Seq(S), NEW from \in 1..(Len(q) + 1)
  PROVE  /\ KeptAt(q, from..Len(q)) \in Seq(S)
         /\ Len(KeptAt(q, from..Len(q))) = Len(q) + 1 - from
         /\ \A k \in 1..(Len(q) + 1 - from) :
              KeptAt(q, from..Len(q))[k] = q[from + k - 1]
<1> DEFINE n == Len(q)
           m == n + 1 - from
           kept == KeptAt(q, from..n)
<1>1. n \in Nat /\ m \in Nat /\ from \in Int
  OBVIOUS
<1>2. Cardinality(from..n) = m
  <2>1. n \in Int /\ from <= n + 1
    BY <1>1
  <2>2. Cardinality(from..n) = IF from > n THEN 0 ELSE n - from + 1
    BY <1>1, <2>1, FS_Interval
  <2> HIDE DEF n
  <2> QED BY <1>1, <2>1, <2>2
<1>3. kept = [k \in 1..m |-> q[Nth(from..n, k)]]
  BY <1>2 DEF KeptAt
<1>4. ASSUME NEW k \in 1..m
      PROVE  q[Nth(from..n, k)] = q[from + k - 1] /\ q[from + k - 1] \in S
  <2>1. k \in 1..(n - from + 1)
    BY <1>1
  <2>2. Nth(from..n, k) = from + k - 1
    BY <1>1, <2>1, NthOfInterval
  <2>3. from + k - 1 \in 1..n
    BY <1>1, <2>1
  <2> QED BY <2>2, <2>3
<1> HIDE DEF kept, m, n
<1>5. kept \in [1..m -> S] /\ \A k \in 1..m : kept[k] = q[from + k - 1]
  BY <1>3, <1>4
<1>6. kept \in Seq(S) /\ Len(kept) = m
  BY <1>1, <1>5
<1> QED BY <1>5, <1>6 DEF kept, m, n

\* Samples of the seconds from one on and before another: some of each of
\* them, and of no other.
OfSeconds(samples, from, upto) == {s.second : s \in samples} = from..(upto - 1)

\* Samples of consecutive seconds, in their order.
LEMMA InOrder ==
  ASSUME NEW samples, NEW from \in Int, NEW upto \in Int, from <= upto,
         OfSeconds(samples, from, upto),
         NEW q, q = BySecond(samples)
  PROVE  /\ q \in Seq(samples)
         /\ Len(q) = upto - from /\ DOMAIN q = 1..(upto - from)
         /\ \A k \in 1..(upto - from) : q[k].second = from + k - 1
<1> DEFINE n == upto - from
           last == upto - 1
           seconds == {s.second : s \in samples}
<1>0. last \in Int /\ last - from + 1 = n /\ n \in Nat
  OBVIOUS
<1>1. seconds = from..last /\ Cardinality(seconds) = Cardinality(from..last)
  <2>1. seconds = from..last
    BY DEF OfSeconds
  <2> HIDE DEF seconds
  <2> QED BY <2>1, Zenon
<1>2. Cardinality(from..last) = n
  <2>1. Cardinality(from..last) = IF from > last THEN 0 ELSE last - from + 1
    BY <1>0, FS_Interval
  <2> HIDE DEF last
  <2> QED BY <1>0, <2>1
<1>3. q = [k \in 1..Cardinality(seconds) |->
             CHOOSE s \in samples : s.second = Nth(seconds, k)]
  BY DEF BySecond
<1>4. ASSUME NEW k \in 1..n
      PROVE  /\ Nth(seconds, k) = from + k - 1
             /\ \E s \in samples : s.second = from + k - 1
  <2>1. k \in 1..(last - from + 1) /\ from + k - 1 \in from..last
    OBVIOUS
  <2>2. Nth(from..last, k) = from + k - 1
    BY <1>0, <2>1, NthOfInterval
  <2>3. \E s \in samples : s.second = from + k - 1
    BY <2>1 DEF OfSeconds
  <2> HIDE DEF n, seconds, last
  <2>4. Nth(seconds, k) = Nth(from..last, k)
    BY <1>1, Zenon
  <2> QED BY <2>2, <2>3, <2>4
<1> HIDE DEF n, seconds, last
<1>5. DOMAIN q = 1..n /\ \A k \in 1..n : q[k] \in samples /\ q[k].second = from + k - 1
  BY <1>1, <1>2, <1>3, <1>4
<1>6. q \in [1..n -> samples]
  <2>1. q = [k \in 1..n |-> q[k]]
    BY <1>1, <1>2, <1>3
  <2> QED BY <1>5, <2>1
<1>7. q \in Seq(samples) /\ Len(q) = n
  BY <1>0, <1>6
<1> QED BY <1>5, <1>7 DEF n

-----------------------------------------------------------------------------
(* Seconds.                                                                *)

\* The second of a time, and the times of a second.
LEMMA SecondOf ==
  ASSUME NEW t \in Int
  PROVE  Second(t) \in Int /\ StartOf(Second(t)) <= t /\ t < StartOf(Second(t) + 1)
BY AnalyzerAssumption DEF Second, StartOf

LEMMA StartOfSecond ==
  ASSUME NEW s \in Int
  PROVE  StartOf(s) \in Int /\ StartOf(s + 1) = StartOf(s) + Ticks /\ Ticks \in Int /\ Ticks >= 2
BY AnalyzerAssumption DEF StartOf

\* Later seconds start later.
LEMMA StartsInOrder ==
  ASSUME NEW r \in Int, NEW s \in Int, r <= s
  PROVE  StartOf(r) <= StartOf(s)
BY AnalyzerAssumption DEF StartOf

\* A second that has started is not after the current one.
LEMMA Started ==
  ASSUME NEW s \in Int, NEW t \in Int
  PROVE  StartOf(s) <= t <=> s <= Second(t)
<1>1. Second(t) \in Int /\ StartOf(Second(t)) <= t /\ t < StartOf(Second(t) + 1)
  BY SecondOf
<1>2. ASSUME s <= Second(t) PROVE StartOf(s) <= t
  BY <1>1, <1>2, StartsInOrder, StartOfSecond
<1>3. ASSUME ~(s <= Second(t)) PROVE ~(StartOf(s) <= t)
  <2>1. Second(t) + 1 <= s
    BY <1>1, <1>3
  <2>2. StartOf(Second(t) + 1) <= StartOf(s)
    BY <1>1, <2>1, StartsInOrder
  <2> QED BY <1>1, <2>2, StartOfSecond
<1> QED BY <1>2, <1>3

\* The window is whole seconds.
LEMMA WindowBefore ==
  ASSUME NEW t \in Int
  PROVE  /\ RetainedFrom(t) \in Int
         /\ Second(RetainedFrom(t)) = Second(t) - Window
         /\ RetainedFrom(t) + Ticks <= t
<1>1. StartOf(Window) \in Int /\ StartOf(Window) >= Ticks /\ Window \in Nat /\ Window >= 1
  BY AnalyzerAssumption DEF StartOf
<1>2. RetainedFrom(t) = t - StartOf(Window)
  BY DEF RetainedFrom
<1>3. Second(t - StartOf(Window)) = Second(t) - Window
  BY AnalyzerAssumption DEF Second, StartOf
<1> QED BY <1>1, <1>2, <1>3, AnalyzerAssumption

-----------------------------------------------------------------------------
(* The analyzer's operators, field by field.                               *)

\* A record of the analyzer's fields.
AnalyzerShape(a) ==
  a = [records |-> a.records, buckets |-> a.buckets, pending |-> a.pending,
       completed |-> a.completed, ready |-> a.ready, history |-> a.history,
       reference |-> a.reference, next |-> a.next, projection |-> a.projection,
       start |-> a.start, snapshot |-> a.snapshot]

\* Later of two seconds.
Later(r, s) == IF r >= s THEN r ELSE s

\* The samples made of the seconds from one on and before another.
Made(a, from, upto) == {Stats(a, s) : s \in from..(upto - 1)}

\* The samples that are ready, or become so when the seconds before m are closed.
Awaiting(a, m) == a.ready \cup Made(a, a.next, m)

\* The first second that stays open.
Opened(a, ended) == IF ended THEN Later(a.next, Second(a.reference)) ELSE a.next

\* No second from next on is completed.
Open(a) == \A s \in a.completed : s \in Int /\ s < a.next

\* Closing the seconds before one: a sample of each of them that was open.
LEMMA Closing ==
  ASSUME NEW a, AnalyzerShape(a), a.next \in Int, Open(a), NEW second \in Int,
         NEW b, b = FinalizeBefore(a, second)
  PROVE  /\ AnalyzerShape(b) /\ Open(b)
         /\ b.next = Later(a.next, second)
         /\ b.ready = Awaiting(a, b.next)
         /\ b.records = a.records /\ b.buckets = a.buckets
         /\ b.reference = a.reference /\ b.start = a.start
         /\ b.history = a.history /\ b.snapshot = a.snapshot
<1>0. a.next # None
  BY AnalyzerAssumption
<1>1. CASE a.next >= second
  <2>1. b = a
    BY <1>1 DEF FinalizeBefore
  <2>2. b.next = a.next /\ Later(a.next, second) = a.next
    BY <1>1, <2>1 DEF Later
  <2>3. \A s \in a.next..(b.next - 1) : FALSE
    BY <2>2
  <2>4. Awaiting(a, b.next) = a.ready
    BY <2>3 DEF Awaiting, Made
  <2> QED BY <2>1, <2>2, <2>4
<1>2. CASE ~(a.next >= second)
  <2> DEFINE passed == a.next..(second - 1)
             new == passed \ a.completed
             ready == {Stats(a, s) : s \in new}
             projection == IF new = {} THEN a.projection ELSE Projection(a, Max(new))
  <2>1. new = passed
    BY DEF Open
  <2>2. b = [a EXCEPT !.ready = @ \cup ready,
                      !.projection = projection,
                      !.completed = @ \cup passed,
                      !.pending = @ \ passed,
                      !.next = second]
    BY <1>0, <1>2 DEF FinalizeBefore
  <2>3. Later(a.next, second) = second
    BY <1>2 DEF Later
  <2>4. a.ready \cup ready = Awaiting(a, second)
    BY <2>1 DEF Awaiting, Made
  <2>5. \A s \in a.completed \cup passed : s \in Int /\ s < second
    BY <1>2 DEF Open
  <2> HIDE DEF passed, new, ready, projection
  <2>6. /\ AnalyzerShape(b)
        /\ b.ready = a.ready \cup ready /\ b.completed = a.completed \cup passed
        /\ b.next = second
        /\ b.records = a.records /\ b.buckets = a.buckets
        /\ b.reference = a.reference /\ b.start = a.start
        /\ b.history = a.history /\ b.snapshot = a.snapshot
    BY <2>2 DEF AnalyzerShape
  <2>7. Open(b)
    BY <2>5, <2>6 DEF Open
  <2> QED BY <2>3, <2>4, <2>6, <2>7
<1> QED BY <1>1, <1>2

\* What a sample says depends on the records and the buckets alone.
LEMMA SameStats ==
  ASSUME NEW a, NEW b, a.records = b.records, a.buckets = b.buckets, NEW s
  PROVE  Stats(a, s) = Stats(b, s)
BY DEF Stats, HeardBetween, Bucket, Observations

\* A frame counts in the bucket of its second.
LEMMA Accumulating ==
  ASSUME NEW a, NEW f, NEW b, b.buckets = Accumulated(a, f), NEW s
  PROVE  Bucket(b, s) = IF s = Second(f.time) THEN Bucket(a, s) + 1
                                                    ELSE Bucket(a, s)
<1> DEFINE now == Second(f.time)
           counted == Bucket(a, now) + 1
<1>1. b.buckets = [r \in DOMAIN a.buckets \cup {now} |->
                     IF r = now THEN counted ELSE a.buckets[r]]
  BY DEF Accumulated
<1> HIDE DEF now, counted
<1>2. CASE s = now
  <2>1. s \in DOMAIN b.buckets /\ b.buckets[s] = counted
    BY <1>1, <1>2
  <2> QED BY <1>2, <2>1 DEF Bucket, now, counted
<1>3. CASE s # now
  <2>1. s \in DOMAIN b.buckets <=> s \in DOMAIN a.buckets
    BY <1>1, <1>3
  <2>2. s \in DOMAIN a.buckets => b.buckets[s] = a.buckets[s]
    BY <1>1, <1>3
  <2> QED BY <1>3, <2>1, <2>2 DEF Bucket, now
<1> QED BY <1>2, <1>3

\* A frame that is not older than any before it: the seconds it closes have
\* their samples, without it; it is counted, and kept when it is a beacon.
Ingested(a, f, next, b) ==
  /\ AnalyzerShape(b) /\ Open(b)
  /\ b.next = Later(next, LastClosed(f.time))
  /\ b.ready = a.ready \cup Made(a, next, b.next)
  /\ b.records = IF f.beacon THEN a.records \cup {f} ELSE a.records
  /\ \A s : Bucket(b, s) = IF s = Second(f.time) THEN Bucket(a, s) + 1
                                                       ELSE Bucket(a, s)
  /\ b.reference = f.time /\ b.start = a.start
  /\ b.history = a.history /\ b.snapshot = a.snapshot

LEMMA Ingesting ==
  ASSUME NEW a, AnalyzerShape(a), NEW f, f.time \in Int,
         a.next = None => a.completed = {},
         a.next # None => a.next \in Int /\ Open(a),
         a.reference # None => a.reference \in Int /\ a.reference <= f.time,
         NEW next, next = IF a.next = None THEN Second(f.time) ELSE a.next,
         NEW b, b = Ingest(a, f)
  PROVE  Ingested(a, f, next, b)
<1> DEFINE now == Second(f.time)
           begun == [a EXCEPT !.next = IF @ = None THEN now ELSE @]
           closed == FinalizeAfterGrace(begun, f.time)
           hidden == closed.projection # None
                       /\ f.time < StartOf(closed.projection.second + 1)
           projection == IF hidden THEN None ELSE closed.projection
           records == IF f.beacon THEN closed.records \cup {f} ELSE closed.records
           kept == [closed EXCEPT
                      !.projection = IF hidden THEN None ELSE @,
                      !.records = IF f.beacon THEN @ \cup {f} ELSE @]
           buckets == Accumulated(kept, f)
           pending == IF now \in closed.completed THEN closed.pending
                      ELSE closed.pending \cup {now}
<1>1. now \in Int /\ LastClosed(f.time) \in Int
  BY SecondOf, AnalyzerAssumption DEF LastClosed, Grace
<1>2. b = IF ExpiredLate(closed, f.time) THEN closed
          ELSE [kept EXCEPT
                  !.buckets = buckets,
                  !.pending = IF now \in closed.completed THEN @ ELSE @ \cup {now},
                  !.reference = IF @ = None \/ f.time > @ THEN f.time ELSE @]
  BY DEF Ingest
<1>3. /\ AnalyzerShape(begun)
      /\ begun.next = next /\ begun.completed = a.completed /\ begun.ready = a.ready
      /\ begun.records = a.records /\ begun.buckets = a.buckets
      /\ begun.reference = a.reference /\ begun.start = a.start
      /\ begun.history = a.history /\ begun.snapshot = a.snapshot
  <2> HIDE DEF now
  <2>1. begun = [a EXCEPT !.next = next]
    BY DEF AnalyzerShape, now
  <2> HIDE DEF begun
  <2> QED BY <2>1 DEF AnalyzerShape
<1>4. next \in Int /\ Open(begun)
  BY <1>1, <1>3 DEF Open
<1>5. closed = FinalizeBefore(begun, LastClosed(f.time))
  BY DEF FinalizeAfterGrace
<1> HIDE DEF begun, closed, now
<1>6. /\ AnalyzerShape(closed) /\ Open(closed)
      /\ closed.next = Later(next, LastClosed(f.time))
      /\ closed.ready = begun.ready \cup Made(begun, next, closed.next)
      /\ closed.records = a.records /\ closed.buckets = a.buckets
      /\ closed.reference = a.reference /\ closed.start = a.start
      /\ closed.history = a.history /\ closed.snapshot = a.snapshot
  BY <1>1, <1>3, <1>4, <1>5, Closing DEF Awaiting
<1>7. closed.ready = a.ready \cup Made(a, next, closed.next)
  <2>1. \A s : Stats(begun, s) = Stats(a, s)
    BY <1>3, SameStats
  <2>2. Made(begun, next, closed.next) = Made(a, next, closed.next)
    BY <2>1 DEF Made
  <2> QED BY <1>3, <1>6, <2>2
<1>8. ~ExpiredLate(closed, f.time)
  <2>1. CASE a.reference = None
    BY <1>6, <2>1 DEF ExpiredLate
  <2>2. CASE a.reference # None
    <3>1. RetainedFrom(a.reference) \in Int
            /\ RetainedFrom(a.reference) + Ticks <= a.reference
      BY <2>2, WindowBefore
    <3> QED BY <1>6, <2>2, <3>1, AnalyzerAssumption DEF ExpiredLate
  <2> QED BY <2>1, <2>2
<1>9. /\ AnalyzerShape(kept)
      /\ kept.records = records /\ kept.buckets = a.buckets
      /\ kept.next = closed.next /\ kept.ready = closed.ready
      /\ kept.completed = closed.completed
      /\ kept.reference = a.reference /\ kept.start = a.start
      /\ kept.history = a.history /\ kept.snapshot = a.snapshot
      /\ kept.pending = closed.pending
  <2>1. kept = [closed EXCEPT !.projection = projection, !.records = records]
    BY <1>6 DEF AnalyzerShape
  <2> HIDE DEF kept, projection, records, hidden
  <2> QED BY <1>6, <2>1 DEF AnalyzerShape
<1>10. f.time = IF kept.reference = None \/ f.time > kept.reference THEN f.time
                ELSE kept.reference
  BY <1>9
<1> HIDE DEF records, hidden
<1>11. b = [kept EXCEPT !.buckets = buckets, !.pending = pending, !.reference = f.time]
  <2> HIDE DEF kept, buckets
  <2>1. b = [kept EXCEPT
               !.buckets = buckets,
               !.pending = IF now \in closed.completed THEN kept.pending
                           ELSE kept.pending \cup {now},
               !.reference = IF kept.reference = None \/ f.time > kept.reference
                             THEN f.time ELSE kept.reference]
    BY <1>2, <1>8, <1>9 DEF AnalyzerShape
  <2> QED BY <1>9, <1>10, <2>1
<1> HIDE DEF kept, buckets, pending
<1>12. /\ AnalyzerShape(b)
       /\ b.buckets = buckets /\ b.reference = f.time
       /\ b.records = records /\ b.next = closed.next /\ b.ready = closed.ready
       /\ b.completed = closed.completed /\ b.start = a.start
       /\ b.history = a.history /\ b.snapshot = a.snapshot
  <2>1. AnalyzerShape(kept)
    BY <1>9
  <2>2. /\ AnalyzerShape(b)
        /\ b.buckets = buckets /\ b.reference = f.time
        /\ b.records = kept.records /\ b.next = kept.next /\ b.ready = kept.ready
        /\ b.completed = kept.completed /\ b.start = kept.start
        /\ b.history = kept.history /\ b.snapshot = kept.snapshot
    BY <1>11, <2>1 DEF AnalyzerShape
  <2> QED BY <1>9, <2>2
<1>13. Open(b)
  <2>1. b.next = closed.next /\ b.completed = closed.completed /\ Open(closed)
    BY <1>6, <1>12
  <2> QED BY <2>1 DEF Open
<1>14. \A s : Bucket(b, s) = IF s = Second(f.time) THEN Bucket(a, s) + 1
                                                         ELSE Bucket(a, s)
  <2>1. \A s : Bucket(kept, s) = Bucket(a, s)
    BY <1>9 DEF Bucket
  <2>2. b.buckets = Accumulated(kept, f)
    BY <1>12 DEF buckets
  <2>3. \A s : Bucket(b, s) = IF s = Second(f.time) THEN Bucket(kept, s) + 1
                                                          ELSE Bucket(kept, s)
    BY <2>2, Accumulating
  <2> QED BY <2>1, <2>3
<1>15. records = IF f.beacon THEN a.records \cup {f} ELSE a.records
  BY <1>6 DEF records
<1> QED BY <1>6, <1>7, <1>12, <1>13, <1>14, <1>15 DEF Ingested

\* The history is the newest Window of the seconds from the start on.
LEMMA Recording ==
  ASSUME NEW a, a.start \in Int, NEW n \in Int, NEW m \in Int, n <= m, NEW stats,
         OfSeconds(a.history, Later(a.start, n - Window), n),
         OfSeconds(ToSet(stats), n, m)
  PROVE  OfSeconds(Recorded(a, stats), Later(a.start, m - Window), m)
<1> DEFINE new == {s \in ToSet(stats) : a.start # None => s.second >= a.start}
           all == a.history \cup new
           first == a.start
<1>1. Window \in Int /\ Window >= 1 /\ first \in Int /\ first # None
  BY AnalyzerAssumption
<1>2. Recorded(a, stats) = {h \in all : \A other \in all : h.second > other.second - Window}
  BY DEF Recorded
<1>3. \A h \in a.history : h.second \in Later(first, n - Window)..(n - 1)
  BY DEF OfSeconds
<1>4. \A h \in new : h.second \in n..(m - 1) /\ h.second >= first
  BY <1>1 DEF OfSeconds
<1>5. \A v \in Later(first, n - Window)..(n - 1) : \E h \in a.history : h.second = v
  BY DEF OfSeconds
<1>6. \A v \in n..(m - 1) : v >= first => \E h \in new : h.second = v
  BY <1>1 DEF OfSeconds
<1> DEFINE recorded == {h \in all : \A other \in all : h.second > other.second - Window}
<1> HIDE DEF new, first
<1>7. \A h \in all : h.second \in Int /\ h.second <= m - 1 /\ h.second >= first
  BY <1>1, <1>3, <1>4 DEF Later
<1>8. ASSUME NEW h \in recorded
      PROVE  h.second \in Later(first, m - Window)..(m - 1)
  <2>1. h.second \in Int /\ h.second <= m - 1 /\ h.second >= first
    BY <1>7
  <2>2. h.second >= m - Window
    <3>1. CASE m = n
      BY <1>1, <1>3, <1>4, <3>1 DEF Later
    <3>2. CASE m # n
      <4>1. m - 1 \in n..(m - 1) /\ m - 1 >= first
        BY <1>1, <2>1, <3>2
      <4>2. PICK other \in new : other.second = m - 1
        BY <1>6, <4>1
      <4>3. h.second > other.second - Window
        OBVIOUS
      <4> QED BY <1>1, <2>1, <4>2, <4>3
    <3> QED BY <3>1, <3>2
  <2> QED BY <1>1, <2>1, <2>2 DEF Later
<1>9. ASSUME NEW v \in Later(first, m - Window)..(m - 1)
      PROVE  \E h \in recorded : h.second = v
  <2>1. v \in Int /\ v >= first /\ v >= m - Window /\ v <= m - 1
    BY <1>1 DEF Later
  <2>2. \E h \in all : h.second = v
    <3>1. CASE v < n
      BY <1>1, <1>5, <2>1, <3>1 DEF Later
    <3>2. CASE v >= n
      BY <1>6, <2>1, <3>2
    <3> QED BY <2>1, <3>1, <3>2
  <2>3. PICK h \in all : h.second = v
    BY <2>2
  <2>4. \A other \in all : h.second > other.second - Window
    BY <1>1, <1>7, <2>1, <2>3
  <2> QED BY <2>3, <2>4
<1> HIDE DEF all
<1>10. {h.second : h \in recorded} = Later(first, m - Window)..(m - 1)
  BY <1>8, <1>9
<1>11. {h.second : h \in Recorded(a, stats)} = {h.second : h \in recorded}
  <2>1. Recorded(a, stats) = recorded
    BY <1>2
  <2> HIDE DEF recorded
  <2> QED BY <2>1
<1> HIDE DEF recorded
<1> QED BY <1>10, <1>11 DEF first, OfSeconds

\* What expiry leaves: the records and the buckets of the window.
LEMMA Expiring ==
  ASSUME NEW a, AnalyzerShape(a), NEW reference, NEW b, b = Expire(a, reference)
  PROVE  /\ AnalyzerShape(b)
         /\ b.records = {r \in a.records : r.time >= RetainedFrom(reference)}
         /\ \A s : s >= Second(RetainedFrom(reference)) => Bucket(b, s) = Bucket(a, s)
         /\ b.next = a.next /\ b.completed = a.completed /\ b.ready = a.ready
         /\ b.reference = a.reference /\ b.start = a.start
         /\ b.history = a.history /\ b.snapshot = a.snapshot
<1> DEFINE cutoff == RetainedFrom(reference)
           records == {r \in a.records : r.time >= cutoff}
           buckets == [s \in {s \in DOMAIN a.buckets : s >= Second(cutoff)} |-> a.buckets[s]]
<1>1. b = [a EXCEPT !.records = records, !.buckets = buckets]
  BY DEF Expire, AnalyzerShape
<1>2. \A s : s >= Second(cutoff) =>
        /\ s \in DOMAIN buckets <=> s \in DOMAIN a.buckets
        /\ s \in DOMAIN a.buckets => buckets[s] = a.buckets[s]
  OBVIOUS
<1> HIDE DEF records, buckets, cutoff
<1>3. /\ AnalyzerShape(b) /\ b.records = records /\ b.buckets = buckets
      /\ b.next = a.next /\ b.completed = a.completed /\ b.ready = a.ready
      /\ b.reference = a.reference /\ b.start = a.start
      /\ b.history = a.history /\ b.snapshot = a.snapshot
  BY <1>1 DEF AnalyzerShape
<1>4. \A s : s >= Second(cutoff) => Bucket(b, s) = Bucket(a, s)
  BY <1>2, <1>3 DEF Bucket
<1> QED BY <1>3, <1>4 DEF records, cutoff

\* A refreshed snapshot: its second, and the history in the order of seconds.
LEMMA Refreshing ==
  ASSUME NEW a, AnalyzerShape(a), NEW reference, NEW second \in Int, NEW upper,
         NEW b, b = RefreshSnapshot(a, reference, second, upper)
  PROVE  /\ AnalyzerShape(b)
         /\ b.snapshot.current = second /\ b.snapshot.history = BySecond(a.history)
         /\ upper = None => b.snapshot.bssids = HeardBetween(a, RetainedFrom(reference), None)
         /\ b.records = a.records /\ b.buckets = a.buckets
         /\ b.next = a.next /\ b.completed = a.completed /\ b.ready = a.ready
         /\ b.reference = a.reference /\ b.start = a.start /\ b.history = a.history
<1> DEFINE reuse == /\ a.projection # None /\ a.projection.second = second
                    /\ reference = StartOf(second + 1) /\ upper = StartOf(second + 1)
           low == RetainedFrom(reference)
           bssids == IF reuse THEN a.projection.bssids ELSE HeardBetween(a, low, upper)
           snapshot == [at |-> reference, current |-> second, bssids |-> bssids,
                        history |-> BySecond(a.history)]
<1>1. b = [a EXCEPT !.snapshot = snapshot]
  BY DEF RefreshSnapshot, AnalyzerShape
<1>0. upper = None => bssids = HeardBetween(a, low, None)
  <2>1. StartOf(second + 1) \in Int
    BY StartOfSecond
  <2>2. upper = None => ~reuse
    BY <2>1, AnalyzerAssumption
  <2> HIDE DEF reuse
  <2> QED BY <2>2
<1> HIDE DEF bssids
<1>2. /\ snapshot.current = second /\ snapshot.history = BySecond(a.history)
      /\ snapshot.bssids = bssids
  OBVIOUS
<1> HIDE DEF snapshot
<1>3. /\ AnalyzerShape(b) /\ b.snapshot = snapshot
      /\ b.records = a.records /\ b.buckets = a.buckets
      /\ b.next = a.next /\ b.completed = a.completed /\ b.ready = a.ready
      /\ b.reference = a.reference /\ b.start = a.start /\ b.history = a.history
  BY <1>1 DEF AnalyzerShape
<1> QED BY <1>0, <1>2, <1>3

\* A sample is its second's.
LEMMA StatsSecond ==
  ASSUME NEW a, NEW s
  PROVE  Stats(a, s).second = s
BY DEF Stats

\* Publishing: every ready sample, in the order of the seconds; nothing stays
\* ready, the history ends with the newest second, and so does the snapshot.
LEMMA Publishing ==
  ASSUME NEW a, AnalyzerShape(a), Open(a), a.next \in Int, a.reference \in Int,
         a.start \in Int, NEW ended,
         NEW m, m = Opened(a, ended),
         m <= Second(a.reference),
         NEW n \in Int, n <= a.next, a.start <= n + 1,
         OfSeconds(a.ready, n, a.next),
         OfSeconds(a.history, Later(a.start, n - Window), n),
         NEW first, first = Later(a.start, m - Window),
         NEW stats, stats = Published(a, ended),
         NEW b, b = AfterPublish(a, ended)
  PROVE  /\ stats \in Seq(Awaiting(a, m)) /\ Len(stats) = m - n
         /\ \A k \in 1..(m - n) : stats[k].second = n + k - 1
         /\ AnalyzerShape(b) /\ Open(b)
         /\ b.next = m /\ b.ready = {} /\ b.reference = a.reference /\ b.start = a.start
         /\ OfSeconds(b.history, first, m)
         /\ b.records \subseteq a.records
         /\ \A r \in a.records : r.time >= RetainedFrom(a.reference) => r \in b.records
         /\ \A s : s >= Second(RetainedFrom(a.reference)) => Bucket(b, s) = Bucket(a, s)
         /\ n = m => b.snapshot = a.snapshot
         /\ n # m => /\ b.snapshot.current = m - 1
                     /\ DOMAIN b.snapshot.history = 1..(m - first)
                     /\ \A k \in 1..(m - first) :
                          b.snapshot.history[k].second = first + k - 1
<1> DEFINE now == Second(a.reference)
           c == Closed(a, ended)
           newest == Last(stats).second
           closed == [c EXCEPT !.history = Recorded(a, stats),
                               !.ready = {s \in @ : s.second >= now}]
<1>1. now \in Int /\ a.reference # None /\ Window \in Int /\ Window >= 1 /\ m \in Int
  BY SecondOf, AnalyzerAssumption DEF Opened, Later
<1>2. a.next <= m /\ n <= m
  BY <1>1 DEF Opened, Later
<1>3. /\ AnalyzerShape(c) /\ Open(c)
      /\ c.next = m /\ c.ready = Awaiting(a, m)
      /\ c.records = a.records /\ c.buckets = a.buckets
      /\ c.reference = a.reference /\ c.start = a.start
      /\ c.history = a.history /\ c.snapshot = a.snapshot
  <2>1. CASE ended
    <3>1. c = FinalizeBefore(a, now)
      BY <2>1 DEF Closed
    <3> HIDE DEF c, now
    <3>2. Later(a.next, now) = m
      BY <2>1 DEF Opened, now
    <3> QED BY <1>1, <3>1, <3>2, Closing
  <2>2. CASE ~ended
    <3>1. c = a /\ m = a.next
      BY <2>2 DEF Closed, Opened
    <3>2. \A s \in a.next..(m - 1) : FALSE
      BY <3>1
    <3>3. Made(a, a.next, m) = {}
      BY <3>2 DEF Made
    <3>4. Awaiting(a, m) = a.ready
      BY <3>3 DEF Awaiting
    <3> QED BY <3>1, <3>4
  <2> QED BY <2>1, <2>2
<1>4. OfSeconds(Awaiting(a, m), n, m)
  <2>1. \A s \in a.ready : s.second \in n..(a.next - 1)
    BY DEF OfSeconds
  <2>2. \A v \in n..(a.next - 1) : \E s \in a.ready : s.second = v
    BY DEF OfSeconds
  <2>3. \A s \in Awaiting(a, m) : s.second \in n..(m - 1)
    BY <1>1, <1>2, <2>1, StatsSecond DEF Awaiting, Made
  <2>4. ASSUME NEW v \in n..(m - 1)
        PROVE  \E s \in Awaiting(a, m) : s.second = v
    <3>1. CASE v <= a.next - 1
      BY <1>1, <1>2, <2>2, <3>1 DEF Awaiting
    <3>2. CASE ~(v <= a.next - 1)
      <4>1. v \in a.next..(m - 1)
        BY <1>1, <1>2, <3>2
      <4>2. Stats(a, v) \in Awaiting(a, m) /\ Stats(a, v).second = v
        BY <4>1, StatsSecond DEF Awaiting, Made
      <4> QED BY <4>2
    <3> QED BY <3>1, <3>2
  <2> HIDE DEF c
  <2> QED BY <2>3, <2>4 DEF OfSeconds
<1>5. /\ stats = BySecond(Awaiting(a, m))
      /\ {s \in Awaiting(a, m) : s.second >= now} = {}
  <2>1. \A s \in Awaiting(a, m) : s.second \in n..(m - 1)
    BY <1>4 DEF OfSeconds
  <2>2. {s \in Awaiting(a, m) : s.second < now} = Awaiting(a, m) /\ {s \in Awaiting(a, m) : s.second >= now} = {}
    BY <1>1, <1>2, <2>1
  <2>3. stats = BySecond({s \in c.ready : s.second < now})
    BY <1>1 DEF Published
  <2> DEFINE due == {s \in c.ready : s.second < now}
  <2>4. due = Awaiting(a, m)
    BY <1>3, <2>2
  <2> HIDE DEF due, c, now
  <2> QED BY <2>2, <2>3, <2>4, Zenon DEF due
<1>6. /\ stats \in Seq(Awaiting(a, m)) /\ Len(stats) = m - n
      /\ \A k \in 1..(m - n) : stats[k].second = n + k - 1
  <2>1. stats = BySecond(Awaiting(a, m)) /\ m \in Int /\ n <= m
    BY <1>1, <1>2, <1>5
  <2>2. stats \in Seq(Awaiting(a, m))
    BY <1>4, <2>1, InOrder, Zenon
  <2>3. Len(stats) = m - n
    BY <1>4, <2>1, InOrder, SMTT(60)
  <2>4. \A k \in 1..(m - n) : BySecond(Awaiting(a, m))[k].second = n + k - 1
    BY <1>4, <2>1, InOrder, SMTT(60)
  <2> QED BY <2>1, <2>2, <2>3, <2>4
<1>7. OfSeconds(ToSet(stats), n, m)
  <2>1. DOMAIN stats = 1..(m - n)
    BY <1>6
  <2>2. \A s \in ToSet(stats) : s.second \in n..(m - 1)
    <3> SUFFICES ASSUME NEW k \in 1..(m - n)
                 PROVE  stats[k].second \in n..(m - 1)
      BY <2>1 DEF ToSet
    <3>1. stats[k].second = n + k - 1
      BY <1>6
    <3> QED BY <1>1, <1>2, <3>1
  <2>3. ASSUME NEW v \in n..(m - 1)
        PROVE  \E s \in ToSet(stats) : s.second = v
    <3>1. v - n + 1 \in 1..(m - n) /\ n + (v - n + 1) - 1 = v
      BY <1>1, <1>2
    <3>2. stats[v - n + 1] \in ToSet(stats) /\ stats[v - n + 1].second = v
      BY <1>6, <2>1, <3>1 DEF ToSet
    <3> QED BY <3>2
  <2> QED BY <2>2, <2>3 DEF OfSeconds
<1>8. OfSeconds(Recorded(a, stats), first, m)
  BY <1>1, <1>2, <1>7, Recording
<1>9. /\ AnalyzerShape(closed) /\ Open(closed)
      /\ closed.next = m /\ closed.ready = {}
      /\ closed.records = a.records /\ closed.buckets = a.buckets
      /\ closed.reference = a.reference /\ closed.start = a.start
      /\ closed.history = Recorded(a, stats) /\ closed.snapshot = a.snapshot
      /\ closed.completed = c.completed
  <2> DEFINE later == {s \in c.ready : s.second >= now}
             recorded == Recorded(a, stats)
  <2>1. later = {}
    BY <1>3, <1>5
  <2>2. closed = [c EXCEPT !.history = recorded, !.ready = later]
    BY <1>3 DEF AnalyzerShape
  <2> HIDE DEF c, recorded, closed, later
  <2>3. /\ AnalyzerShape(closed)
        /\ closed.next = m /\ closed.ready = {}
        /\ closed.records = a.records /\ closed.buckets = a.buckets
        /\ closed.reference = a.reference /\ closed.start = a.start
        /\ closed.history = recorded /\ closed.snapshot = a.snapshot
        /\ closed.completed = c.completed
    BY <1>3, <2>1, <2>2 DEF AnalyzerShape
  <2>4. Open(closed)
    BY <1>3, <2>3 DEF Open
  <2> QED BY <2>3, <2>4 DEF recorded
<1>10. b = IF stats = << >> THEN closed
           ELSE RefreshSnapshot(Prune(Expire(closed, a.reference), newest),
                                StartOf(newest + 1), newest, StartOf(newest + 1))
  BY <1>1 DEF AfterPublish
<1> HIDE DEF c, closed, newest, now
<1>11. stats = << >> <=> n = m
  BY <1>1, <1>2, <1>6
<1>12. CASE n = m
  <2>1. b = closed
    BY <1>10, <1>11, <1>12
  <2> QED BY <1>6, <1>8, <1>9, <1>12, <2>1 DEF Bucket
<1>13. CASE n # m
  <2> DEFINE expired == Expire(closed, a.reference)
             pruned == Prune(expired, newest)
  <2>1. newest = m - 1 /\ newest \in Int
    <3>1. m - n \in 1..(m - n) /\ n + (m - n) - 1 = m - 1
      BY <1>1, <1>2, <1>13
    <3>2. stats[m - n].second = m - 1
      BY <1>6, <3>1
    <3>3. newest = stats[Len(stats)].second
      BY DEF newest, Last
    <3>4. Len(stats) = m - n
      BY <1>6
    <3>5. newest = stats[m - n].second
      BY <3>3, <3>4
    <3> QED BY <1>1, <3>2, <3>5
  <2>2. b = RefreshSnapshot(pruned, StartOf(newest + 1), newest, StartOf(newest + 1))
    BY <1>10, <1>11, <1>13
  <2>3. /\ AnalyzerShape(expired)
        /\ expired.records = {r \in a.records : r.time >= RetainedFrom(a.reference)}
        /\ \A s : s >= Second(RetainedFrom(a.reference)) => Bucket(expired, s) = Bucket(closed, s)
        /\ expired.next = m /\ expired.completed = c.completed /\ expired.ready = {}
        /\ expired.reference = a.reference /\ expired.start = a.start
        /\ expired.history = Recorded(a, stats)
    BY <1>9, Expiring
  <2> HIDE DEF expired
  <2>4. /\ AnalyzerShape(pruned)
        /\ pruned.completed \subseteq expired.completed
        /\ pruned.records = expired.records /\ pruned.buckets = expired.buckets
        /\ pruned.next = m /\ pruned.ready = {}
        /\ pruned.reference = a.reference /\ pruned.start = a.start
        /\ pruned.history = Recorded(a, stats)
    <3> DEFINE completed == {s \in expired.completed : s > newest - Window}
    <3>1. pruned = [expired EXCEPT !.completed = completed]
      BY <2>3 DEF Prune, AnalyzerShape
    <3>2. completed \subseteq expired.completed
      OBVIOUS
    <3> HIDE DEF completed, pruned
    <3> QED BY <2>3, <3>1, <3>2 DEF AnalyzerShape
  <2> HIDE DEF pruned
  <2>5. /\ AnalyzerShape(b)
        /\ b.snapshot.current = newest /\ b.snapshot.history = BySecond(pruned.history)
        /\ b.records = pruned.records /\ b.buckets = pruned.buckets
        /\ b.next = m /\ b.completed = pruned.completed /\ b.ready = {}
        /\ b.reference = a.reference /\ b.start = a.start
        /\ b.history = pruned.history
    BY <2>1, <2>2, <2>4, Refreshing
  <2>6. Open(b)
    BY <1>3, <2>3, <2>4, <2>5 DEF Open
  <2>7. \A s : s >= Second(RetainedFrom(a.reference)) => Bucket(b, s) = Bucket(a, s)
    <3>1. \A s : Bucket(b, s) = Bucket(expired, s)
      BY <2>4, <2>5 DEF Bucket
    <3>2. \A s : Bucket(closed, s) = Bucket(a, s)
      BY <1>9 DEF Bucket
    <3> QED BY <2>3, <3>1, <3>2
  <2>8. /\ DOMAIN b.snapshot.history = 1..(m - first)
        /\ \A k \in 1..(m - first) : b.snapshot.history[k].second = first + k - 1
    <3>1. first \in Int /\ first <= m
      BY <1>1, <1>2, <1>13 DEF Later
    <3>2. OfSeconds(b.history, first, m)
      BY <1>8, <2>4, <2>5
    <3>3. b.snapshot.history = BySecond(b.history)
      BY <2>5
    <3>4. m \in Int
      BY <1>1
    <3>5. DOMAIN BySecond(b.history) = 1..(m - first)
      BY <3>1, <3>2, <3>4, InOrder, SMTT(60)
    <3>6. \A k \in 1..(m - first) : BySecond(b.history)[k].second = first + k - 1
      BY <3>1, <3>2, <3>4, InOrder, SMTT(60)
    <3> QED BY <3>3, <3>5, <3>6
  <2>9. OfSeconds(b.history, first, m)
    BY <1>8, <2>4, <2>5
  <2>10. /\ b.records \subseteq a.records
         /\ \A r \in a.records : r.time >= RetainedFrom(a.reference) => r \in b.records
    BY <2>3, <2>4, <2>5
  <2> QED BY <1>6, <1>13, <2>1, <2>5, <2>6, <2>7, <2>8, <2>9, <2>10
<1> QED BY <1>12, <1>13

-----------------------------------------------------------------------------
(* The invariant.                                                          *)

\* A finite sequence of whatever it holds.
Sequence(q) == q \in Seq(ToSet(q))

Frame == [id : Nat, time : Nat, beacon : BOOLEAN, bssid : {shape.bssid : shape \in Shapes}]

\* Frames are numbered as they come, and their times do not go back.
FramesInv ==
  /\ delivered \in Seq(Frame)
  /\ \A i \in DOMAIN delivered : delivered[i].id = i
  /\ \A i, j \in DOMAIN delivered : i <= j => delivered[i].time <= delivered[j].time

\* The worker's fields; capture begins in second 0, the partial one.
WorkerInv ==
  /\ worker = [pc |-> worker.pc, partial |-> worker.partial, batch |-> worker.batch,
               beacons |-> worker.beacons]
  /\ worker.partial = IF delivered = << >> THEN None ELSE 0

\* What the analyzer retains: every beacon of the window, beacons only, and
\* the count of every second of the window and later.
RetainsInv ==
  /\ \A r \in analyzer.records : \E i \in DOMAIN delivered :
       delivered[i].beacon /\ r = delivered[i]
  /\ \A i \in DOMAIN delivered :
       delivered[i].beacon /\ delivered[i].time >= RetainedFrom(Now) =>
         delivered[i] \in analyzer.records
  /\ \A s \in Int : s >= Second(RetainedFrom(Now)) =>
       Bucket(analyzer, s) = Cardinality(In(s))

\* The first second that is not closed; 0 before there is a frame.
NextOpen == IF delivered = << >> THEN 0 ELSE analyzer.next

\* Which seconds are closed and recorded: those before next, which are all
\* whose end lies more than the grace back, and none that has not ended.
ClosedInv ==
  /\ AnalyzerShape(analyzer) /\ analyzer.ready = {}
  /\ IF delivered = << >> THEN analyzer = NewAnalyzer
     ELSE /\ analyzer.next \in Nat /\ Open(analyzer)
          /\ analyzer.reference = Now /\ analyzer.start = 1
          /\ analyzer.next <= Second(Now) /\ LastClosed(Now) <= analyzer.next
          /\ OfSeconds(analyzer.history, Later(1, analyzer.next - Window), analyzer.next)

\* The newest second a snapshot has the history of; 0 is the partial one's.
Upto(snapshot) == IF snapshot.current = None THEN 0 ELSE snapshot.current

\* The first second in the history of one that goes up to last.
Oldest(last) == Later(1, last + 1 - Window)

\* The history of a snapshot is the window of its second.
Windowed(snapshot) ==
  LET last == Upto(snapshot)
  IN /\ last \in Nat
     /\ DOMAIN snapshot.history = 1..(last + 1 - Oldest(last))
     /\ \A k \in DOMAIN snapshot.history :
          snapshot.history[k].second = Oldest(last) + k - 1

\* What was published before message k goes up to this second.
Before(k) == IF k = 1 THEN Len(rows) ELSE Upto(Messages[k - 1].snapshot)

SnapshotsInv ==
  /\ Sequence(Messages)
  /\ Upto(analyzer.snapshot) = Later(NextOpen - 1, 0)
  /\ Windowed(analyzer.snapshot)
  /\ \A k \in DOMAIN Messages : Windowed(Messages[k].snapshot)

\* The rows, the samples in messages and those of the batch are consecutive
\* seconds; only the batch may begin with the partial one.
ChainInv ==
  LET first == NextOpen - 1 - Len(worker.batch)
  IN /\ Sequence(rows)
     /\ \A i \in DOMAIN rows : rows[i].second = i
     /\ \A k \in DOMAIN Messages :
          /\ Sequence(Messages[k].stats)
          /\ Before(k + 1) = Before(k) + Len(Messages[k].stats)
          /\ \A j \in DOMAIN Messages[k].stats : Messages[k].stats[j].second = Before(k) + j
     /\ Sequence(worker.batch) /\ first >= -1
     /\ Before(Len(Messages) + 1) = Later(first, 0)
     /\ \A j \in DOMAIN worker.batch : worker.batch[j].second = first + j

\* The samples there are, from the batch to the rows.
SamplesOf(logged, messages, batch) ==
  {logged[i].sample : i \in DOMAIN logged}
    \cup (UNION {ToSet(messages[k].stats) : k \in DOMAIN messages}) \cup ToSet(batch)
Samples == SamplesOf(rows, Messages, worker.batch)

\* A sample is exact, and its second over, its delayed beacons in.
SamplesInv ==
  \A s \in Samples :
    /\ s.second \in Int /\ Exact(s)
    /\ worker.pc = "reading" => StartOf(s.second + 1) + Grace < Now

\* The message that is being taken in: there is one while its rows are
\* published and its beacons recorded, and of an interrupted one some may be left.
TakenInv ==
  /\ loop.pc \in {"looping", "publishing", "recording", "exhausted", "interrupted"}
  /\ Sequence(taken) /\ Sequence(pipe) /\ Len(taken) <= 1
  /\ loop.pc \in {"looping", "exhausted"} => taken = << >>
  /\ loop.pc \in {"publishing", "recording"} => Len(taken) = 1
  /\ loop.pc = "recording" => taken[1].stats = << >>
  /\ \A k \in DOMAIN Messages :
       Messages[k] = [stats |-> Messages[k].stats, beacons |-> Messages[k].beacons,
                      eof |-> Messages[k].eof, snapshot |-> Messages[k].snapshot]

\* The seconds up to this one have readings: those of the rows, and of the
\* message that is being taken in.
Read == Before(Len(taken) + 1)

\* The readings the rows were, or will be, logged with, and the graph painted
\* with them; it lags behind the rows only within a message.
PaintedInv ==
  LET last == Upto(shown)
  IN /\ DOMAIN stamped = 1..Read
     /\ \A i \in DOMAIN rows : stamped[i] = rows[i].cu
     /\ \A i \in DOMAIN stamped : i > Len(rows) => stamped[i] = cu.latest
     /\ last \in Nat /\ last <= Len(rows)
     /\ taken = << >> \/ loop.pc = "recording" => last = Len(rows)
     /\ shown.history = [k \in DOMAIN shown.history |-> shown.history[k]]
     /\ DOMAIN shown.history = 1..(last + 1 - Oldest(last))
     /\ \A k \in DOMAIN shown.history :
          shown.history[k] = [second |-> Oldest(last) + k - 1,
                              cu |-> rows[Oldest(last) + k - 1].cu]

\* The end of capture is the last message, and closed all but the last second.
EofInv ==
  /\ loop = [pc |-> loop.pc, failed |-> loop.failed]
  /\ worker.pc \in {"reading", "ended", "dead"}
  /\ \A k \in DOMAIN Messages : Messages[k].eof => k = Len(Messages) /\ worker.pc = "ended"
  /\ worker.pc = "ended" =>
       worker.batch = << >> /\ (delivered # << >> => analyzer.next = Second(Now))
  /\ loop.pc = "exhausted" /\ ~loop.failed => Messages = << >> /\ worker.pc = "ended"

\* The numbers of these places, all in ascending order, are those of ids.
Ordered(places, ids) ==
  /\ Sequence(places) /\ \A p \in DOMAIN places : Sequence(places[p])
  /\ \A p \in DOMAIN places : \A i \in DOMAIN places[p] : places[p][i] \in ids
  /\ \A id \in ids : \E p \in DOMAIN places : \E i \in DOMAIN places[p] : places[p][i] = id
  /\ \A p, q \in DOMAIN places : \A i \in DOMAIN places[p], j \in DOMAIN places[q] :
       p < q \/ (p = q /\ i < j) => places[p][i] < places[q][j]

\* Every decoded beacon is in one place, in the order of decoding.
Beacons == {i \in DOMAIN delivered : delivered[i].beacon}
BeaconsInv == Ordered(Places, Beacons)

\* No sample is on its way before there is a frame.
EmptyInv ==
  delivered = << >> =>
    rows = << >> /\ \A k \in DOMAIN Messages : Messages[k].stats = << >>

\* The inductive invariant of the pipeline.
PipelineInv ==
  /\ FramesInv /\ WorkerInv /\ RetainsInv /\ ClosedInv /\ SnapshotsInv
  /\ ChainInv /\ SamplesInv /\ TakenInv /\ PaintedInv /\ EofInv /\ BeaconsInv /\ EmptyInv

-----------------------------------------------------------------------------
(* Sequences of whatever they hold.                                        *)

\* A sequence over any set is one.
LEMMA IsSequence ==
  ASSUME NEW S, NEW q \in Seq(S)
  PROVE  Sequence(q)
<1>1. Len(q) \in Nat /\ q = [i \in 1..Len(q) |-> q[i]] /\ DOMAIN q = 1..Len(q)
  OBVIOUS
<1>2. \A i \in 1..Len(q) : q[i] \in ToSet(q)
  BY <1>1 DEF ToSet
<1> QED BY <1>1, <1>2 DEF Sequence

\* A function on an initial segment of the positions is one.
LEMMA FunctionIsSequence ==
  ASSUME NEW n \in Nat, NEW q, q = [i \in 1..n |-> q[i]]
  PROVE  Sequence(q) /\ Len(q) = n
<1>1. \A i \in 1..n : q[i] \in ToSet(q)
  BY DEF ToSet
<1>2. q \in [1..n -> ToSet(q)]
  BY <1>1
<1> QED BY <1>2 DEF Sequence

\* Its positions.
LEMMA Positions ==
  ASSUME NEW q, Sequence(q)
  PROVE  /\ Len(q) \in Nat /\ DOMAIN q = 1..Len(q)
         /\ q = [i \in 1..Len(q) |-> q[i]]
         /\ q = << >> <=> Len(q) = 0
BY DEF Sequence

\* One more at the end.
LEMMA Appending ==
  ASSUME NEW q, Sequence(q), NEW e
  PROVE  /\ Sequence(Append(q, e)) /\ Len(Append(q, e)) = Len(q) + 1
         /\ \A i \in 1..Len(q) : Append(q, e)[i] = q[i]
         /\ Append(q, e)[Len(q) + 1] = e
         /\ DOMAIN Append(q, e) = 1..(Len(q) + 1)
<1> DEFINE S == ToSet(q) \cup {e}
<1>1. q \in Seq(S) /\ e \in S
  <2>1. q \in Seq(ToSet(q)) /\ ToSet(q) \subseteq S
    BY DEF Sequence
  <2> HIDE DEF S
  <2>2. \A i \in 1..Len(q) : q[i] \in S
    BY <2>1
  <2> QED BY <2>1, <2>2 DEF S
<1> HIDE DEF S
<1>2. Append(q, e) \in Seq(S)
  BY <1>1
<1>3. Sequence(Append(q, e))
  BY <1>2, IsSequence
<1> QED BY <1>1, <1>2, <1>3

\* Two, one after the other.
LEMMA Joining ==
  ASSUME NEW q, Sequence(q), NEW r, Sequence(r)
  PROVE  /\ Sequence(q \o r) /\ Len(q \o r) = Len(q) + Len(r)
         /\ DOMAIN (q \o r) = 1..(Len(q) + Len(r))
         /\ \A i \in 1..Len(q) : (q \o r)[i] = q[i]
         /\ \A i \in 1..Len(r) : (q \o r)[Len(q) + i] = r[i]
<1> DEFINE S == ToSet(q) \cup ToSet(r)
<1>1. q \in Seq(S) /\ r \in Seq(S)
  <2>1. q \in Seq(ToSet(q)) /\ ToSet(q) \subseteq S /\ r \in Seq(ToSet(r)) /\ ToSet(r) \subseteq S
    BY DEF Sequence
  <2> HIDE DEF S
  <2>2. \A i \in 1..Len(q) : q[i] \in S
    BY <2>1
  <2>3. \A i \in 1..Len(r) : r[i] \in S
    BY <2>1
  <2> QED BY <2>1, <2>2, <2>3
<1> HIDE DEF S
<1>2. q \o r \in Seq(S)
  BY <1>1
<1>3. Sequence(q \o r)
  BY <1>2, IsSequence
<1> QED BY <1>1, <1>2, <1>3

\* All but the first.
LEMMA Dropping ==
  ASSUME NEW q, Sequence(q), q # << >>
  PROVE  /\ Sequence(Tail(q)) /\ Len(Tail(q)) = Len(q) - 1
         /\ DOMAIN Tail(q) = 1..(Len(q) - 1)
         /\ \A i \in 1..(Len(q) - 1) : Tail(q)[i] = q[i + 1]
         /\ Head(q) = q[1]
<1>1. q \in Seq(ToSet(q))
  BY DEF Sequence
<1>2. Tail(q) \in Seq(ToSet(q))
  BY <1>1
<1>3. Sequence(Tail(q))
  BY <1>2, IsSequence
<1> QED BY <1>1, <1>2, <1>3

-----------------------------------------------------------------------------
(* Decoding a frame.                                                       *)

\* The newest frame's time is no earlier than any other's.
LEMMA NewestTime ==
  ASSUME FramesInv
  PROVE  /\ Now \in Nat
         /\ \A i \in DOMAIN delivered : delivered[i].time \in Nat /\ delivered[i].time <= Now
<1>1. Len(delivered) \in Nat /\ DOMAIN delivered = 1..Len(delivered)
  BY DEF FramesInv
<1>2. \A i \in DOMAIN delivered : delivered[i] \in Frame
  BY DEF FramesInv
<1>3. \A i \in DOMAIN delivered : delivered[i].time \in Nat
  BY <1>2 DEF Frame
<1>4. CASE delivered = << >>
  BY <1>4 DEF Now
<1>5. CASE delivered # << >>
  <2>1. Len(delivered) \in DOMAIN delivered
    BY <1>1, <1>5 DEF FramesInv
  <2>2. Now = delivered[Len(delivered)].time
    BY <1>5 DEF Now, Last
  <2>3. \A i \in DOMAIN delivered : i <= Len(delivered)
    BY <1>1
  <2>4. \A i \in DOMAIN delivered : delivered[i].time <= delivered[Len(delivered)].time
    BY <2>1, <2>3 DEF FramesInv
  <2> QED BY <1>3, <2>1, <2>2, <2>4
<1> QED BY <1>4, <1>5

\* Later times are in later seconds.
LEMMA SecondsInOrder ==
  ASSUME NEW t \in Int, NEW u \in Int, t <= u
  PROVE  Second(t) <= Second(u)
<1>1. Second(t) \in Int /\ StartOf(Second(t)) <= t /\ StartOf(Second(t)) \in Int
  BY SecondOf, StartOfSecond
<1>2. StartOf(Second(t)) <= u
  BY <1>1
<1> QED BY <1>1, <1>2, Started

\* The seconds that are closed: their end lies more than the grace back.
LEMMA ClosedSeconds ==
  ASSUME NEW t \in Int
  PROVE  /\ LastClosed(t) \in Int
         /\ LastClosed(t) <= Second(t) /\ Second(t) <= LastClosed(t) + 1
         /\ \A s \in Int : s < LastClosed(t) <=> StartOf(s + 1) + Grace < t
<1> DEFINE u == t - Grace - 1
<1>1. u \in Int /\ u = t - 2 /\ Grace = 1
  BY DEF Grace
<1>2. LastClosed(t) = Second(u)
  BY DEF LastClosed, Second
<1>3. LastClosed(t) \in Int /\ LastClosed(t) <= Second(t)
  BY <1>1, <1>2, SecondOf, SecondsInOrder
<1>4. Second(t) <= LastClosed(t) + 1
  <2>1. Second(t) \in Int /\ StartOf(Second(t)) <= t
    BY SecondOf
  <2>2. StartOf((Second(t) - 1) + 1) = StartOf(Second(t) - 1) + Ticks
          /\ StartOf(Second(t) - 1) \in Int /\ Ticks \in Int /\ Ticks >= 2
    BY <2>1, StartOfSecond
  <2>3. (Second(t) - 1) + 1 = Second(t)
    BY <2>1
  <2>4. StartOf(Second(t) - 1) <= u
    BY <1>1, <2>1, <2>2, <2>3
  <2>5. Second(t) - 1 <= Second(u)
    BY <1>1, <2>1, <2>4, Started
  <2> QED BY <1>2, <1>3, <2>1, <2>5
<1>5. ASSUME NEW s \in Int
      PROVE  s < LastClosed(t) <=> StartOf(s + 1) + Grace < t
  <2>1. s + 1 \in Int /\ StartOf(s + 1) \in Int
    BY StartOfSecond
  <2>2. StartOf(s + 1) <= u <=> s + 1 <= Second(u)
    BY <1>1, <2>1, Started
  <2> HIDE DEF u
  <2> QED BY <1>1, <1>2, <1>3, <2>1, <2>2
<1> QED BY <1>3, <1>4, <1>5

\* What decoding a frame does: the seconds it closes are published, with
\* samples made of what was retained before it, and the frame is taken in.
Decoded(frame, stats, next) ==
  /\ next = Later(NextOpen, LastClosed(frame.time))
  /\ frame \in Frame /\ frame.id = Len(delivered) + 1 /\ frame.time >= Now
  /\ delivered = << >> => Second(frame.time) = 0
  /\ delivered' = Append(delivered, frame)
  /\ worker.pc = "reading"
  /\ worker' = [pc |-> "reading", partial |-> 0, batch |-> worker.batch \o stats,
                beacons |-> IF frame.beacon THEN Append(worker.beacons, frame.id)
                            ELSE worker.beacons]
  /\ Sequence(stats) /\ Len(stats) = next - NextOpen
  /\ \A k \in DOMAIN stats : stats[k] = Stats(analyzer, NextOpen + k - 1)
  /\ AnalyzerShape(analyzer') /\ Open(analyzer') /\ analyzer'.ready = {}
  /\ analyzer'.next = next
  /\ analyzer'.reference = frame.time /\ analyzer'.start = 1
  /\ OfSeconds(analyzer'.history, Later(1, next - Window), next)
  /\ analyzer'.records \subseteq (analyzer.records \cup IF frame.beacon THEN {frame} ELSE {})
  /\ \A r \in analyzer.records :
       r.time >= RetainedFrom(frame.time) => r \in analyzer'.records
  /\ frame.beacon => frame \in analyzer'.records
  /\ \A s \in Int : s >= Second(RetainedFrom(frame.time)) =>
       Bucket(analyzer', s) = IF s = Second(frame.time) THEN Bucket(analyzer, s) + 1
                                    ELSE Bucket(analyzer, s)
  /\ next = NextOpen => analyzer'.snapshot = analyzer.snapshot
  /\ next # NextOpen =>
       /\ analyzer'.snapshot.current = next - 1
       /\ DOMAIN analyzer'.snapshot.history = 1..(next - Later(1, next - Window))
       /\ \A k \in DOMAIN analyzer'.snapshot.history :
            analyzer'.snapshot.history[k].second = Later(1, next - Window) + k - 1
  /\ UNCHANGED <<pipe, taken, Messages, loop, rows, beacons, cu, stamped, shown>>

\* Capture begins in second 0.
LEMMA FirstSecond ==
  ASSUME NEW t \in 0..(Ticks - 1)
  PROVE  Second(t) = 0
<1>1. Ticks \in Int /\ t \in Int /\ t >= 0 /\ t < Ticks
  BY AnalyzerAssumption
<1>2. StartOf(0) = 0 /\ StartOf(1) = Ticks
  BY <1>1 DEF StartOf
<1>3. 0 <= Second(t) /\ ~(1 <= Second(t))
  BY <1>1, <1>2, Started
<1> QED BY <1>1, <1>3, SecondOf

LEMMA Decodes ==
  ASSUME FramesInv, WorkerInv, ClosedInv, Sequence(worker.batch), Decode
  PROVE  \E frame, stats, next : Decoded(frame, stats, next)
<1>1. PICK time \in Times, shape \in Shapes :
        LET frame == [id |-> Len(delivered) + 1, time |-> time, beacon |-> shape.beacon,
                      bssid |-> shape.bssid]
            first == worker.partial = None
            ingested == Ingest(IF first THEN [analyzer EXCEPT !.start = Second(time) + 1]
                                        ELSE analyzer, frame)
            completes == ingested.ready # {}
        IN /\ delivered' = Append(delivered, frame)
           /\ analyzer' = IF completes THEN AfterPublish(ingested, FALSE) ELSE ingested
           /\ worker' = [worker EXCEPT
                           !.partial = IF first THEN Second(time) ELSE @,
                           !.beacons = IF frame.beacon THEN Append(@, frame.id) ELSE @,
                           !.batch = IF completes THEN @ \o Published(ingested, FALSE)
                                                  ELSE @]
  BY DEF Decode
<1>2. /\ worker.pc = "reading"
      /\ UNCHANGED <<pipe, taken, Messages, loop, rows, beacons, cu, stamped, shown>>
  <2>1. worker.pc = "reading" /\ UNCHANGED <<pipe, taken, loop, rows, beacons, cu, stamped, shown>>
    BY DEF Decode
  <2> QED BY <2>1 DEF Messages
<1> DEFINE frame == [id |-> Len(delivered) + 1, time |-> time, beacon |-> shape.beacon,
                     bssid |-> shape.bssid]
           first == worker.partial = None
           begun == IF first THEN [analyzer EXCEPT !.start = Second(time) + 1] ELSE analyzer
           b == Ingest(begun, frame)
           ended == FALSE
           next == Later(NextOpen, LastClosed(time))
           low == Second(RetainedFrom(time))
<1>3. first <=> delivered = << >>
  BY AnalyzerAssumption DEF WorkerInv
<1>4. /\ time \in Nat /\ time >= Now /\ Len(delivered) \in Nat
      /\ delivered = << >> => Second(time) = 0
  <2>1. Len(delivered) \in Nat /\ Now \in Nat /\ Ticks \in Nat
    BY NewestTime, AnalyzerAssumption DEF FramesInv
  <2>2. CASE delivered = << >>
    <3>1. time \in 0..(Ticks - 1) /\ Now = 0
      BY <2>2 DEF Times, Now
    <3>2. Second(time) = 0
      BY <3>1, FirstSecond
    <3> QED BY <2>1, <3>1, <3>2
  <2>3. CASE delivered # << >>
    BY <2>1, <2>3, PipelineAssumption DEF Times
  <2> QED BY <2>2, <2>3
<1>5. frame \in Frame /\ frame.id = Len(delivered) + 1 /\ frame.time = time
        /\ frame.beacon = shape.beacon
  BY <1>4, PipelineAssumption DEF Frame
<1>6. /\ AnalyzerShape(begun) /\ begun.ready = {} /\ begun.start = 1
      /\ begun.records = analyzer.records /\ begun.buckets = analyzer.buckets
      /\ begun.snapshot = analyzer.snapshot
      /\ begun.next = None => begun.completed = {}
      /\ begun.next # None => begun.next \in Int /\ Open(begun)
      /\ begun.reference # None => begun.reference \in Int /\ begun.reference <= time
      /\ NextOpen = IF begun.next = None THEN Second(time) ELSE begun.next
      /\ NextOpen \in Nat /\ NextOpen <= Second(time)
      /\ OfSeconds(begun.history, Later(1, NextOpen - Window), NextOpen)
  <2>1. CASE delivered = << >>
    <3>1. begun = [analyzer EXCEPT !.start = 1] /\ analyzer = NewAnalyzer
      BY <1>3, <1>4, <2>1 DEF ClosedInv
    <3> HIDE DEF begun
    <3>2. NextOpen = 0 /\ Second(time) = 0
      BY <1>4, <2>1 DEF NextOpen
    <3>3. /\ AnalyzerShape(begun) /\ begun.ready = {} /\ begun.start = 1
          /\ begun.records = analyzer.records /\ begun.buckets = analyzer.buckets
          /\ begun.snapshot = analyzer.snapshot
          /\ begun.next = None /\ begun.completed = {} /\ begun.reference = None
          /\ begun.history = {}
      BY <3>1 DEF AnalyzerShape, NewAnalyzer
    <3>4. OfSeconds({}, Later(1, 0 - Window), 0)
      <4>1. \A s \in Later(1, 0 - Window)..(0 - 1) : FALSE
        BY AnalyzerAssumption DEF Later
      <4> QED BY <4>1 DEF OfSeconds
    <3> QED BY <3>2, <3>3, <3>4
  <2>2. CASE delivered # << >>
    <3>1. begun = analyzer
      BY <1>3, <2>2
    <3> HIDE DEF begun
    <3>2. NextOpen = analyzer.next /\ analyzer.next # None
      BY <2>2, AnalyzerAssumption DEF NextOpen, ClosedInv
    <3>3. analyzer.reference = Now /\ Now \in Nat /\ analyzer.next <= Second(Now)
            /\ analyzer.next \in Nat
      BY <2>2, NewestTime DEF ClosedInv
    <3>4. Second(Now) <= Second(time) /\ Second(Now) \in Int /\ Second(time) \in Int
      <4>1. Now \in Int /\ time \in Int /\ Now <= time
        BY <1>4, <3>3
      <4>2. Second(Now) <= Second(time)
        BY <4>1, SecondsInOrder
      <4> QED BY <4>1, <4>2, SecondOf
    <3>5. AnalyzerShape(analyzer) /\ analyzer.ready = {} /\ analyzer.start = 1 /\ Open(analyzer)
            /\ OfSeconds(analyzer.history, Later(1, NextOpen - Window), NextOpen)
      BY <2>2, <3>2 DEF ClosedInv
    <3> QED BY <1>4, <3>1, <3>2, <3>3, <3>4, <3>5
  <2> QED BY <2>1, <2>2
<1> HIDE DEF frame, begun, first
<1>7. /\ AnalyzerShape(b) /\ Open(b)
      /\ b.next = next
      /\ b.ready = begun.ready \cup Made(begun, NextOpen, b.next)
      /\ b.records = IF frame.beacon THEN begun.records \cup {frame} ELSE begun.records
      /\ \A s : Bucket(b, s) = IF s = Second(time) THEN Bucket(begun, s) + 1
                                                         ELSE Bucket(begun, s)
      /\ b.reference = time /\ b.start = begun.start
      /\ b.history = begun.history /\ b.snapshot = begun.snapshot
  <2> HIDE DEF b
  <2>1. frame.time = time /\ frame.time \in Int
    BY <1>4, <1>5
  <2>2. NextOpen = IF begun.next = None THEN Second(frame.time) ELSE begun.next
    BY <1>6, <2>1
  <2>3. begun.reference # None => begun.reference \in Int /\ begun.reference <= frame.time
    BY <1>6, <2>1
  <2>4. b = Ingest(begun, frame)
    BY DEF b
  <2>5. /\ AnalyzerShape(begun)
        /\ begun.next = None => begun.completed = {}
        /\ begun.next # None => begun.next \in Int /\ Open(begun)
    BY <1>6
  <2>6. /\ AnalyzerShape(b) /\ Open(b)
        /\ b.next = Later(NextOpen, LastClosed(frame.time))
        /\ b.ready = begun.ready \cup Made(begun, NextOpen, b.next)
        /\ b.records = IF frame.beacon THEN begun.records \cup {frame} ELSE begun.records
        /\ \A s : Bucket(b, s) = IF s = Second(frame.time) THEN Bucket(begun, s) + 1
                                                                 ELSE Bucket(begun, s)
        /\ b.reference = frame.time /\ b.start = begun.start
        /\ b.history = begun.history /\ b.snapshot = begun.snapshot
    <3>1. Ingested(begun, frame, NextOpen, b)
      BY <2>1, <2>2, <2>3, <2>4, <2>5, Ingesting
    <3> QED BY <3>1 DEF Ingested
  <2> QED BY <2>1, <2>6
<1>8. b.ready = Made(analyzer, NextOpen, next)
  <2>1. \A s : Stats(begun, s) = Stats(analyzer, s)
    BY <1>6, SameStats
  <2>2. Made(begun, NextOpen, next) = Made(analyzer, NextOpen, next)
    BY <2>1 DEF Made
  <2> QED BY <1>6, <1>7, <2>2
<1>9. \A s : Bucket(begun, s) = Bucket(analyzer, s)
  BY <1>6 DEF Bucket
<1> HIDE DEF b
<1>10. /\ LastClosed(time) \in Int /\ LastClosed(time) <= Second(time)
       /\ next \in Nat /\ NextOpen <= next /\ next <= Second(time)
  <2>1. time \in Int
    BY <1>4
  <2>2. LastClosed(time) \in Int /\ LastClosed(time) <= Second(time)
    BY <2>1, ClosedSeconds
  <2>3. NextOpen \in Nat /\ NextOpen <= Second(time) /\ Second(time) \in Int
    BY <1>6, <2>1, SecondOf
  <2> QED BY <2>2, <2>3 DEF Later
<1>11. b.ready = {} <=> next = NextOpen
  <2>1. next = NextOpen => \A s \in NextOpen..(next - 1) : FALSE
    BY <1>6
  <2>2. next # NextOpen => NextOpen \in NextOpen..(next - 1)
    BY <1>6, <1>10
  <2> HIDE DEF next
  <2> QED BY <1>8, <2>1, <2>2 DEF Made
<1>12. OfSeconds(b.ready, NextOpen, next)
  <2>1. \A s \in Made(analyzer, NextOpen, next) : s.second \in NextOpen..(next - 1)
    BY StatsSecond DEF Made
  <2>2. \A v \in NextOpen..(next - 1) : \E s \in Made(analyzer, NextOpen, next) : s.second = v
    BY StatsSecond DEF Made
  <2> HIDE DEF next
  <2> QED BY <1>8, <2>1, <2>2 DEF OfSeconds
<1>13. Opened(b, ended) = next /\ Awaiting(b, next) = Made(analyzer, NextOpen, next)
  <2>1. \A s \in b.next..(next - 1) : FALSE
    BY <1>7, <1>10
  <2> HIDE DEF next
  <2> QED BY <1>7, <1>8, <2>1 DEF Opened, Awaiting, Made
<1> HIDE DEF next, ended
<1> DEFINE oldest == Later(1, next - Window)
           c == AfterPublish(b, ended)
           published == Published(b, ended)
<1>14. /\ published \in Seq(Awaiting(b, next)) /\ Len(published) = next - NextOpen
       /\ \A k \in 1..(next - NextOpen) : published[k].second = NextOpen + k - 1
       /\ AnalyzerShape(c) /\ Open(c)
       /\ c.next = next /\ c.ready = {} /\ c.reference = b.reference /\ c.start = b.start
       /\ OfSeconds(c.history, oldest, next)
       /\ c.records \subseteq b.records
       /\ \A r \in b.records : r.time >= RetainedFrom(b.reference) => r \in c.records
       /\ \A s : s >= Second(RetainedFrom(b.reference)) => Bucket(c, s) = Bucket(b, s)
       /\ NextOpen = next => c.snapshot = b.snapshot
       /\ NextOpen # next => /\ c.snapshot.current = next - 1
                             /\ DOMAIN c.snapshot.history = 1..(next - oldest)
                             /\ \A k \in 1..(next - oldest) :
                                  c.snapshot.history[k].second = oldest + k - 1
  <2>1. AnalyzerShape(b) /\ Open(b) /\ b.next = next /\ b.reference = time /\ b.start = 1
    BY <1>6, <1>7
  <2>2. b.history = begun.history
    BY <1>7
  <2>3. /\ b.next \in Int /\ b.reference \in Int /\ b.start \in Int
        /\ next = Opened(b, ended) /\ next <= Second(b.reference)
    <3>1. next \in Int /\ time \in Int
      BY <1>4, <1>10
    <3>2. next <= Second(time) /\ Opened(b, ended) = next
      BY <1>10, <1>13
    <3> QED BY <2>1, <3>1, <3>2
  <2>4. NextOpen \in Int /\ NextOpen <= b.next /\ b.start <= NextOpen + 1
    BY <1>6, <1>10, <2>1
  <2>5. OfSeconds(b.ready, NextOpen, b.next)
    BY <1>12, <2>1
  <2>6. OfSeconds(b.history, Later(b.start, NextOpen - Window), NextOpen)
    BY <1>6, <2>1, <2>2
  <2>7. oldest = Later(b.start, next - Window)
    BY <2>1
  <2> HIDE DEF oldest, c, published
  <2>8. c = AfterPublish(b, ended) /\ published = Published(b, ended)
    BY DEF c, published
  <2> QED BY <2>1, <2>3, <2>4, <2>5, <2>6, <2>7, <2>8, Publishing, SMTT(40)
<1> DEFINE stats == IF b.ready = {} THEN << >> ELSE published
<1>15. /\ delivered' = Append(delivered, frame)
       /\ analyzer' = IF b.ready # {} THEN c ELSE b
       /\ worker' = [worker EXCEPT
                       !.partial = IF first THEN Second(time) ELSE @,
                       !.beacons = IF frame.beacon THEN Append(@, frame.id) ELSE @,
                       !.batch = IF b.ready # {} THEN @ \o published ELSE @]
  BY <1>1 DEF frame, first, begun, b, ended
<1> HIDE DEF c, published, oldest
<1>16. Sequence(published)
  BY <1>14, IsSequence
<1>17. /\ Sequence(stats) /\ Len(stats) = next - NextOpen
       /\ \A k \in DOMAIN stats : stats[k] = Stats(analyzer, NextOpen + k - 1)
  <2>1. CASE next = NextOpen
    <3>1. stats = << >> /\ << >> \in Seq({})
      BY <1>11, <2>1
    <3>2. Sequence(stats)
      BY <3>1, IsSequence
    <3> QED BY <1>6, <2>1, <3>1, <3>2
  <2>2. CASE next # NextOpen
    <3>1. stats = published /\ DOMAIN published = 1..(next - NextOpen)
      BY <1>11, <1>14, <1>16, <2>2, Positions
    <3>2. ASSUME NEW k \in 1..(next - NextOpen)
          PROVE  published[k] = Stats(analyzer, NextOpen + k - 1)
      <4>1. published[k] \in Made(analyzer, NextOpen, next)
        BY <1>13, <1>14
      <4>2. PICK s \in NextOpen..(next - 1) : published[k] = Stats(analyzer, s)
        BY <4>1 DEF Made
      <4>3. published[k].second = s /\ published[k].second = NextOpen + k - 1
        BY <1>14, <4>2, StatsSecond
      <4> QED BY <4>2, <4>3
    <3>3. Len(published) = next - NextOpen
      BY <1>14
    <3> QED BY <1>16, <3>1, <3>2, <3>3
  <2> QED BY <2>1, <2>2
<1>18. worker' = [pc |-> "reading", partial |-> 0, batch |-> worker.batch \o stats,
                  beacons |-> IF frame.beacon THEN Append(worker.beacons, frame.id)
                              ELSE worker.beacons]
  <2> DEFINE batch == IF b.ready # {} THEN worker.batch \o published ELSE worker.batch
             partial == IF first THEN Second(time) ELSE worker.partial
             sent == IF frame.beacon THEN Append(worker.beacons, frame.id) ELSE worker.beacons
  <2>1. batch = worker.batch \o stats
    <3>1. worker.batch \o << >> = worker.batch
      BY ConcatEmptySeq DEF Sequence
    <3> HIDE DEF b
    <3> QED BY <3>1
  <2>2. partial = 0
    BY <1>3, <1>4 DEF WorkerInv
  <2>3. worker' = [worker EXCEPT !.partial = partial, !.beacons = sent, !.batch = batch]
    BY <1>15 DEF WorkerInv
  <2> HIDE DEF batch, partial, sent
  <2>4. worker' = [pc |-> worker.pc, partial |-> partial, batch |-> batch, beacons |-> sent]
    BY <2>3 DEF WorkerInv
  <2> QED BY <1>2, <2>1, <2>2, <2>4 DEF sent
<1>19. /\ AnalyzerShape(analyzer') /\ Open(analyzer') /\ analyzer'.ready = {}
       /\ analyzer'.next = next /\ analyzer'.reference = time /\ analyzer'.start = 1
       /\ OfSeconds(analyzer'.history, oldest, next)
       /\ analyzer'.records \subseteq b.records
       /\ \A r \in b.records : r.time >= RetainedFrom(time) => r \in analyzer'.records
       /\ \A s : s >= low => Bucket(analyzer', s) = Bucket(b, s)
       /\ next = NextOpen => analyzer'.snapshot = analyzer.snapshot
       /\ next # NextOpen =>
            /\ analyzer'.snapshot.current = next - 1
            /\ DOMAIN analyzer'.snapshot.history = 1..(next - oldest)
            /\ \A k \in DOMAIN analyzer'.snapshot.history :
                 analyzer'.snapshot.history[k].second = oldest + k - 1
  <2>1. b.reference = time /\ b.start = 1 /\ b.snapshot = analyzer.snapshot
    BY <1>6, <1>7
  <2>2. CASE next = NextOpen
    <3>1. analyzer' = b /\ b.ready = {}
      BY <1>11, <1>15, <2>2
    <3>2. OfSeconds(b.history, oldest, next)
      BY <1>6, <1>7, <2>2 DEF oldest
    <3> QED BY <1>7, <2>1, <2>2, <3>1, <3>2
  <2>3. CASE next # NextOpen
    <3>1. analyzer' = c
      BY <1>11, <1>15, <2>3
    <3> QED BY <1>14, <2>1, <2>3, <3>1
  <2> QED BY <2>2, <2>3
<1>20. /\ frame.time = time /\ Later(NextOpen, LastClosed(frame.time)) = next
       /\ b.records = analyzer.records \cup IF frame.beacon THEN {frame} ELSE {}
       /\ frame \in Frame /\ frame.time >= RetainedFrom(time)
  <2>1. RetainedFrom(time) \in Int /\ RetainedFrom(time) + Ticks <= time /\ time \in Int
    BY <1>4, WindowBefore
  <2>2. RetainedFrom(time) <= time
    BY <2>1, AnalyzerAssumption
  <2> QED BY <1>4, <1>5, <1>6, <1>7, <2>1, <2>2 DEF next
<1>21. \A s \in Int : s >= low =>
         Bucket(analyzer', s) = IF s = Second(time) THEN Bucket(analyzer, s) + 1
                                      ELSE Bucket(analyzer, s)
  BY <1>7, <1>9, <1>19
<1> HIDE DEF stats
<1>22. Decoded(frame, stats, next)
  <2>1. /\ frame \in Frame /\ frame.id = Len(delivered) + 1 /\ frame.time >= Now
        /\ delivered = << >> => Second(frame.time) = 0
    BY <1>4, <1>5
  <2>2. /\ analyzer'.records \subseteq (analyzer.records \cup IF frame.beacon THEN {frame} ELSE {})
        /\ \A r \in analyzer.records : r.time >= RetainedFrom(frame.time) => r \in analyzer'.records
        /\ frame.beacon => frame \in analyzer'.records
    BY <1>19, <1>20
  <2>3. \A s \in Int : s >= Second(RetainedFrom(frame.time)) =>
          Bucket(analyzer', s) = IF s = Second(frame.time) THEN Bucket(analyzer, s) + 1
                                       ELSE Bucket(analyzer, s)
    BY <1>20, <1>21
  <2>4. /\ analyzer'.reference = frame.time /\ Later(NextOpen, LastClosed(frame.time)) = next
        /\ oldest = Later(1, next - Window)
    BY <1>19, <1>20 DEF oldest
  <2> HIDE DEF low
  <2> QED BY <1>2, <1>15, <1>17, <1>18, <1>19, <2>1, <2>2, <2>3, <2>4 DEF Decoded
<1> QED BY <1>22

\* The frames after one more was decoded.
LEMMA DecodedFrames ==
  ASSUME FramesInv, NEW frame, NEW stats, NEW next, Decoded(frame, stats, next)
  PROVE  /\ FramesInv'
         /\ Len(delivered) \in Nat /\ DOMAIN delivered = 1..Len(delivered)
         /\ Len(delivered') = Len(delivered) + 1
         /\ DOMAIN delivered' = 1..(Len(delivered) + 1)
         /\ \A i \in 1..Len(delivered) : delivered'[i] = delivered[i]
         /\ delivered'[Len(delivered) + 1] = frame
         /\ Now' = frame.time /\ Now <= frame.time /\ frame.time \in Nat
         /\ delivered' # << >>
<1> DEFINE n == Len(delivered)
<1>1. delivered' = Append(delivered, frame) /\ frame \in Frame /\ frame.id = n + 1
        /\ frame.time >= Now
  BY DEF Decoded
<1>2. /\ n \in Nat /\ DOMAIN delivered = 1..n /\ delivered' \in Seq(Frame)
      /\ Len(delivered') = n + 1 /\ DOMAIN delivered' = 1..(n + 1)
      /\ \A i \in 1..n : delivered'[i] = delivered[i]
      /\ delivered'[n + 1] = frame
  BY <1>1 DEF FramesInv
<1>3. frame.time \in Nat /\ Now \in Nat /\ \A i \in 1..n : delivered[i].time <= Now
        /\ delivered[i].time \in Nat
  BY <1>1, <1>2, NewestTime DEF Frame
<1> HIDE DEF n
<1>4. \A i \in DOMAIN delivered' : i \in 1..n \/ i = n + 1
  BY <1>2
<1>5. \A i \in DOMAIN delivered' : delivered'[i].id = i
  BY <1>1, <1>2, <1>4 DEF FramesInv
<1>6. ASSUME NEW i \in DOMAIN delivered', NEW j \in DOMAIN delivered', i <= j
      PROVE  delivered'[i].time <= delivered'[j].time
  <2>1. CASE j \in 1..n
    <3>1. i \in 1..n
      BY <1>2, <1>4, <1>6, <2>1
    <3> QED BY <1>2, <1>6, <2>1, <3>1 DEF FramesInv
  <2>2. CASE j = n + 1
    <3>1. CASE i = n + 1
      BY <1>2, <1>3, <2>2, <3>1
    <3>2. CASE i \in 1..n
      BY <1>1, <1>2, <1>3, <2>2, <3>2
    <3> QED BY <1>4, <3>1, <3>2
  <2> QED BY <1>4, <2>1, <2>2
<1>7. FramesInv'
  BY <1>2, <1>5, <1>6 DEF FramesInv
<1>8. delivered' # << >>
  BY <1>2
<1>9. Now' = frame.time
  BY <1>2, <1>8 DEF Now, Last
<1> QED BY <1>1, <1>2, <1>3, <1>7, <1>8, <1>9 DEF n

\* The frames of a second, and of a window, after one more was decoded.
LEMMA DecodedIn ==
  ASSUME FramesInv, NEW frame, NEW stats, NEW next, Decoded(frame, stats, next)
  PROVE  /\ \A s \in Int :
              /\ Cardinality(In(s)) \in Nat
              /\ Cardinality(In(s)') = IF s = Second(frame.time) THEN Cardinality(In(s)) + 1
                                       ELSE Cardinality(In(s))
              /\ s # Second(frame.time) => In(s)' = In(s)
         /\ \A low \in Int, upper \in Int :
              frame.time >= upper => BeaconsIn(low, upper)' = BeaconsIn(low, upper)
<1> DEFINE n == Len(delivered)
<1>1. /\ n \in Nat /\ DOMAIN delivered = 1..n /\ DOMAIN delivered' = 1..(n + 1)
      /\ \A i \in 1..n : delivered'[i] = delivered[i]
      /\ delivered'[n + 1] = frame
      /\ Now <= frame.time /\ frame.time \in Nat
  BY DecodedFrames
<1> HIDE DEF n
<1>2. \A i : i \in DOMAIN delivered' <=> i \in DOMAIN delivered \/ i = n + 1
  BY <1>1
<1>3. ASSUME NEW s \in Int
      PROVE  /\ Cardinality(In(s)) \in Nat
             /\ Cardinality(In(s)') = IF s = Second(frame.time) THEN Cardinality(In(s)) + 1
                                      ELSE Cardinality(In(s))
             /\ s # Second(frame.time) => In(s)' = In(s)
  <2>1. IsFiniteSet(In(s)) /\ Cardinality(In(s)) \in Nat /\ n + 1 \notin In(s)
    <3>1. In(s) \subseteq 1..n
      BY <1>1 DEF In
    <3>2. IsFiniteSet(1..n)
      BY <1>1, FS_Interval
    <3> QED BY <1>1, <3>1, <3>2, FS_Subset, FS_CardinalityType
  <2>2. CASE s = Second(frame.time)
    <3>1. In(s)' = In(s) \cup {n + 1}
      BY <1>1, <1>2, <2>2 DEF In
    <3>2. Cardinality(In(s) \cup {n + 1}) = Cardinality(In(s)) + 1
      BY <2>1, FS_AddElement
    <3> QED BY <2>1, <2>2, <3>1, <3>2
  <2>3. CASE s # Second(frame.time)
    <3>1. In(s)' = In(s)
      BY <1>1, <1>2, <2>3 DEF In
    <3> QED BY <2>1, <2>3, <3>1
  <2> QED BY <2>2, <2>3
<1>4. ASSUME NEW low \in Int, NEW upper \in Int, frame.time >= upper
      PROVE  BeaconsIn(low, upper)' = BeaconsIn(low, upper)
  <2>1. ~(frame.time < upper)
    BY <1>1, <1>4
  <2> QED BY <1>1, <1>2, <2>1 DEF BeaconsIn
<1> QED BY <1>3, <1>4

\* What is retained, after one more frame.
LEMMA DecodedRetains ==
  ASSUME FramesInv, RetainsInv, NEW frame, NEW stats, NEW next, Decoded(frame, stats, next)
  PROVE  RetainsInv'
<1> DEFINE n == Len(delivered)
           low == RetainedFrom(frame.time)
<1>1. /\ n \in Nat /\ DOMAIN delivered = 1..n /\ DOMAIN delivered' = 1..(n + 1)
      /\ \A i \in 1..n : delivered'[i] = delivered[i]
      /\ delivered'[n + 1] = frame
      /\ Now' = frame.time /\ Now <= frame.time /\ frame.time \in Nat /\ Now \in Nat
  BY DecodedFrames, NewestTime
<1>2. /\ \A r \in analyzer'.records : r \in analyzer.records \/ (r = frame /\ frame.beacon)
      /\ \A r \in analyzer.records : r.time >= low => r \in analyzer'.records
      /\ frame.beacon => frame \in analyzer'.records
      /\ \A s \in Int : s >= Second(low) =>
           Bucket(analyzer', s) = IF s = Second(frame.time) THEN Bucket(analyzer, s) + 1
                                        ELSE Bucket(analyzer, s)
  BY DEF Decoded
<1>3. /\ RetainedFrom(Now)' = low /\ low \in Int /\ RetainedFrom(Now) \in Int
      /\ RetainedFrom(Now) <= low /\ Second(RetainedFrom(Now)) <= Second(low)
      /\ Second(low) \in Int /\ Second(RetainedFrom(Now)) \in Int
  <2>1. StartOf(Window) \in Int /\ Now \in Int /\ frame.time \in Int
    <3>1. Window \in Int
      BY AnalyzerAssumption
    <3>2. StartOf(Window) \in Int
      BY <3>1, StartOfSecond
    <3>3. Now \in Int /\ frame.time \in Int
      BY <1>1
    <3> QED BY <3>2, <3>3
  <2>2. RetainedFrom(Now)' = low /\ low \in Int /\ RetainedFrom(Now) \in Int
          /\ RetainedFrom(Now) <= low
    BY <1>1, <2>1 DEF RetainedFrom
  <2> QED BY <2>2, SecondsInOrder, SecondOf
<1> HIDE DEF n
<1>4. \A i \in DOMAIN delivered' : i \in 1..n \/ i = n + 1
  BY <1>1
<1>5. ASSUME NEW r \in analyzer'.records
      PROVE  \E i \in DOMAIN delivered' : delivered'[i].beacon /\ r = delivered'[i]
  <2>1. CASE r \in analyzer.records
    <3>1. PICK i \in DOMAIN delivered : delivered[i].beacon /\ r = delivered[i]
      BY <2>1 DEF RetainsInv
    <3> QED BY <1>1, <3>1
  <2>2. CASE r = frame /\ frame.beacon
    BY <1>1, <2>2
  <2> QED BY <1>2, <2>1, <2>2
<1>6. ASSUME NEW i \in DOMAIN delivered', delivered'[i].beacon, delivered'[i].time >= low
      PROVE  delivered'[i] \in analyzer'.records
  <2>1. CASE i \in 1..n
    <3>1. delivered[i].time \in Nat
      BY <1>1, <2>1, NewestTime
    <3>2. delivered[i].beacon /\ delivered[i].time >= RetainedFrom(Now)
      BY <1>1, <1>3, <1>6, <2>1, <3>1
    <3>3. delivered[i] \in analyzer.records
      BY <1>1, <2>1, <3>2 DEF RetainsInv
    <3> QED BY <1>1, <1>2, <1>6, <2>1, <3>3
  <2>2. CASE i = n + 1
    BY <1>1, <1>2, <1>6, <2>2
  <2> QED BY <1>4, <2>1, <2>2
<1>7. ASSUME NEW s \in Int, s >= Second(low)
      PROVE  Bucket(analyzer', s) = Cardinality(In(s)')
  <2>1. s >= Second(RetainedFrom(Now))
    BY <1>3, <1>7
  <2>2. Bucket(analyzer, s) = Cardinality(In(s))
    BY <2>1 DEF RetainsInv
  <2>3. Cardinality(In(s)') = IF s = Second(frame.time) THEN Cardinality(In(s)) + 1
                              ELSE Cardinality(In(s))
    BY DecodedIn
  <2> QED BY <1>2, <1>7, <2>2, <2>3
<1> HIDE DEF low
<1> QED BY <1>3, <1>5, <1>6, <1>7 DEF RetainsInv

\* What is closed, after one more frame.
LEMMA DecodedClosed ==
  ASSUME FramesInv, ClosedInv, NEW frame, NEW stats, NEW next, Decoded(frame, stats, next)
  PROVE  /\ ClosedInv'
         /\ NextOpen \in Nat /\ next \in Nat /\ NextOpen <= next /\ NextOpen' = next
         /\ LastClosed(frame.time) <= next
         /\ next # NextOpen => next = LastClosed(frame.time)
<1>1. /\ Now' = frame.time /\ Now <= frame.time /\ frame.time \in Nat /\ Now \in Nat
      /\ delivered' # << >>
  BY DecodedFrames, NewestTime
<1>2. /\ frame.time \in Int /\ Now \in Int /\ Second(frame.time) \in Int
      /\ Second(Now) <= Second(frame.time) /\ Second(Now) \in Int
  <2>1. frame.time \in Int /\ Now \in Int
    BY <1>1
  <2> QED BY <1>1, <2>1, SecondsInOrder, SecondOf
<1>3. LastClosed(frame.time) \in Int /\ LastClosed(frame.time) <= Second(frame.time)
  BY <1>2, ClosedSeconds
<1>4. NextOpen \in Nat /\ NextOpen <= Second(frame.time)
  <2>1. CASE delivered = << >>
    BY <2>1 DEF NextOpen, Decoded
  <2>2. CASE delivered # << >>
    <3>1. NextOpen = analyzer.next /\ analyzer.next \in Nat /\ analyzer.next <= Second(Now)
      BY <2>2 DEF NextOpen, ClosedInv
    <3> QED BY <1>2, <3>1
  <2> QED BY <2>1, <2>2
<1>5. /\ next = Later(NextOpen, LastClosed(frame.time))
      /\ AnalyzerShape(analyzer') /\ Open(analyzer') /\ analyzer'.ready = {}
      /\ analyzer'.next = next
      /\ analyzer'.reference = frame.time /\ analyzer'.start = 1
      /\ OfSeconds(analyzer'.history, Later(1, next - Window), next)
  BY DEF Decoded
<1>6. /\ next \in Nat /\ NextOpen <= next /\ LastClosed(frame.time) <= next
      /\ next <= Second(frame.time)
      /\ next # NextOpen => next = LastClosed(frame.time)
  BY <1>3, <1>4, <1>5 DEF Later
<1>7. NextOpen' = next
  BY <1>1, <1>5 DEF NextOpen
<1>8. ClosedInv'
  BY <1>1, <1>5, <1>6 DEF ClosedInv
<1> QED BY <1>4, <1>6, <1>7, <1>8

-----------------------------------------------------------------------------
(* Samples.                                                                *)

\* The seconds that are not closed: their frames are counted, and the beacons
\* of their window but for its first beacon interval are retained.
LEMMA OpenSeconds ==
  ASSUME FramesInv, ClosedInv, NEW s \in Int, s >= NextOpen
  PROVE  /\ s >= Second(RetainedFrom(Now))
         /\ RetainedFrom(Now) <= StartOf(s + 1) - StartOf(Window) + Grace
<1>1. Now \in Int
  BY NewestTime
<1>2. /\ LastClosed(Now) \in Int /\ LastClosed(Now) <= Second(Now) /\ Second(Now) \in Int
      /\ Second(Now) <= LastClosed(Now) + 1
      /\ s < LastClosed(Now) <=> StartOf(s + 1) + Grace < Now
  BY <1>1, ClosedSeconds, SecondOf
<1>3. LastClosed(Now) <= NextOpen /\ NextOpen \in Nat
  <2>1. CASE delivered = << >>
    <3>1. Now = 0 /\ NextOpen = 0 /\ 0 \in 0..(Ticks - 1)
      BY <2>1, AnalyzerAssumption DEF Now, NextOpen
    <3>2. Second(Now) = 0
      BY <3>1, FirstSecond
    <3> QED BY <1>2, <3>1, <3>2
  <2>2. CASE delivered # << >>
    BY <2>2 DEF NextOpen, ClosedInv
  <2> QED BY <2>1, <2>2
<1>4. Second(RetainedFrom(Now)) = Second(Now) - Window /\ Window \in Int /\ Window >= 1
  BY <1>1, WindowBefore, AnalyzerAssumption
<1>5. s >= Second(RetainedFrom(Now))
  BY <1>2, <1>3, <1>4
<1>6. StartOf(s + 1) \in Int /\ StartOf(Window) \in Int
  BY <1>4, StartOfSecond
<1>7. Now <= StartOf(s + 1) + Grace
  BY <1>1, <1>2, <1>3, <1>6 DEF Grace
<1>8. RetainedFrom(Now) = Now - StartOf(Window)
  BY DEF RetainedFrom
<1> QED BY <1>1, <1>5, <1>6, <1>7, <1>8 DEF Grace

\* A sample made of what is retained is exact.
LEMMA MadeExact ==
  ASSUME FramesInv, ClosedInv, RetainsInv, NEW s \in Int, s >= NextOpen
  PROVE  Exact(Stats(analyzer, s))
<1> DEFINE end == StartOf(s + 1)
           bottom == end - StartOf(Window)
           sample == Stats(analyzer, s)
<1>1. /\ sample.second = s /\ sample.frames = Bucket(analyzer, s)
      /\ sample.bssids = HeardBetween(analyzer, bottom, end)
      /\ sample.observed = Observations(analyzer, s)
  BY DEF Stats
<1>2. end \in Int /\ StartOf(Window) \in Int /\ bottom \in Int
        /\ RetainedFrom(Now) \in Int /\ end # None
  <2>1. Window \in Int /\ Now \in Int
    BY NewestTime, AnalyzerAssumption
  <2>2. end \in Int /\ StartOf(Window) \in Int
    BY <2>1, StartOfSecond
  <2>3. RetainedFrom(Now) \in Int
    BY <2>1, WindowBefore
  <2> QED BY <2>2, <2>3, AnalyzerAssumption
<1>3. s >= Second(RetainedFrom(Now)) /\ RetainedFrom(Now) <= bottom + Grace
  BY OpenSeconds
<1>4. \A i \in DOMAIN delivered : delivered[i].time \in Int /\ delivered[i].id = i
  BY NewestTime DEF FramesInv
<1> HIDE DEF end, bottom, sample
<1>5. sample.frames = Cardinality(In(s))
  BY <1>1, <1>3 DEF RetainsInv
<1>6. \A i \in DOMAIN delivered : delivered[i].beacon /\ delivered[i].time >= bottom + Grace
        => delivered[i] \in analyzer.records /\ delivered[i].time >= bottom
  BY <1>2, <1>3, <1>4 DEF RetainsInv, Grace
<1>7. Senders(BeaconsIn(bottom + Grace, end)) \subseteq sample.bssids
  BY <1>1, <1>6 DEF Senders, BeaconsIn, HeardBetween
<1>8. sample.bssids \subseteq Senders(BeaconsIn(bottom, end))
  <2> SUFFICES ASSUME NEW r \in analyzer.records, r.time >= bottom, r.time < end
               PROVE  r.bssid \in Senders(BeaconsIn(bottom, end))
    BY <1>1, <1>2 DEF HeardBetween
  <2>1. PICK i \in DOMAIN delivered : delivered[i].beacon /\ r = delivered[i]
    BY DEF RetainsInv
  <2>2. i \in BeaconsIn(bottom, end)
    BY <2>1 DEF BeaconsIn
  <2> QED BY <2>1, <2>2 DEF Senders
<1>9. BeaconsIn(bottom + Grace, end + Grace + 1) \subseteq sample.observed
  <2> SUFFICES ASSUME NEW i \in DOMAIN delivered, delivered[i].beacon,
                      delivered[i].time >= bottom + Grace, delivered[i].time < end + Grace + 1
               PROVE  i \in sample.observed
    BY DEF BeaconsIn
  <2>1. delivered[i] \in analyzer.records
    BY <1>6
  <2>2. delivered[i].time <= end + Grace
    BY <1>2, <1>4 DEF Grace
  <2> QED BY <1>1, <1>4, <2>1, <2>2 DEF Observations, end
<1> QED BY <1>1, <1>5, <1>7, <1>8, <1>9 DEF Exact, end, bottom, sample

\* It stays exact: no later frame is one of its second, or a delayed one.
LEMMA StaysExact ==
  ASSUME FramesInv, NEW frame, NEW stats, NEW next, Decoded(frame, stats, next),
         NEW s, s.second \in Int, Exact(s), StartOf(s.second + 1) + Grace < frame.time
  PROVE  Exact(s)'
<1> DEFINE end == StartOf(s.second + 1)
           bottom == end - StartOf(Window)
<1>1. /\ Len(delivered) \in Nat /\ DOMAIN delivered = 1..Len(delivered)
      /\ \A i \in DOMAIN delivered : delivered'[i] = delivered[i]
      /\ frame.time \in Int
  BY DecodedFrames
<1>2. end \in Int /\ StartOf(Window) \in Int /\ bottom \in Int /\ s.second + 1 \in Int
  <2>1. Window \in Int
    BY AnalyzerAssumption
  <2>2. end \in Int /\ StartOf(Window) \in Int
    BY <2>1, StartOfSecond
  <2> QED BY <2>2
<1>3. end <= frame.time /\ end + Grace + 1 <= frame.time
  BY <1>1, <1>2 DEF Grace
<1>4. s.second # Second(frame.time)
  <2>1. s.second + 1 <= Second(frame.time)
    BY <1>1, <1>2, <1>3, Started
  <2>2. Second(frame.time) \in Int
    BY <1>1, SecondOf
  <2> QED BY <2>1, <2>2
<1>5. In(s.second)' = In(s.second)
  BY <1>4, DecodedIn
<1>6. ASSUME NEW low \in Int, NEW upper \in Int, frame.time >= upper
      PROVE  /\ BeaconsIn(low, upper)' = BeaconsIn(low, upper)
             /\ Senders(BeaconsIn(low, upper))' = Senders(BeaconsIn(low, upper))
  <2>1. BeaconsIn(low, upper)' = BeaconsIn(low, upper)
    BY <1>6, DecodedIn
  <2>2. BeaconsIn(low, upper) \subseteq DOMAIN delivered
    BY DEF BeaconsIn
  <2> QED BY <1>1, <2>1, <2>2 DEF Senders
<1> HIDE DEF end, bottom
<1>7. /\ Senders(BeaconsIn(bottom + Grace, end))' = Senders(BeaconsIn(bottom + Grace, end))
      /\ Senders(BeaconsIn(bottom, end))' = Senders(BeaconsIn(bottom, end))
      /\ BeaconsIn(bottom + Grace, end + Grace + 1)' = BeaconsIn(bottom + Grace, end + Grace + 1)
  <2>1. bottom + Grace \in Int /\ end + Grace + 1 \in Int
    BY <1>2 DEF Grace
  <2> QED BY <1>1, <1>2, <1>3, <1>6, <2>1
<1> QED BY <1>5, <1>7 DEF Exact, end, bottom

\* What a joined sequence holds.
LEMMA JoinedSet ==
  ASSUME NEW q, Sequence(q), NEW r, Sequence(r)
  PROVE  ToSet(q \o r) = ToSet(q) \cup ToSet(r)
<1>0. /\ DOMAIN (q \o r) = 1..(Len(q) + Len(r))
      /\ \A i \in 1..Len(q) : (q \o r)[i] = q[i]
      /\ \A i \in 1..Len(r) : (q \o r)[Len(q) + i] = r[i]
  <2>1. DOMAIN (q \o r) = 1..(Len(q) + Len(r))
    BY Joining
  <2>2. \A i \in 1..Len(q) : (q \o r)[i] = q[i]
    BY Joining
  <2>3. \A i \in 1..Len(r) : (q \o r)[Len(q) + i] = r[i]
    BY Joining
  <2> QED BY <2>1, <2>2, <2>3
<1>1. /\ DOMAIN (q \o r) = 1..(Len(q) + Len(r))
      /\ DOMAIN q = 1..Len(q) /\ DOMAIN r = 1..Len(r)
      /\ Len(q) \in Nat /\ Len(r) \in Nat
      /\ \A i \in 1..Len(q) : (q \o r)[i] = q[i]
      /\ \A i \in 1..Len(r) : (q \o r)[Len(q) + i] = r[i]
  BY <1>0, Positions
<1>2. ASSUME NEW i \in 1..(Len(q) + Len(r))
      PROVE  (q \o r)[i] \in ToSet(q) \cup ToSet(r)
  <2>1. CASE i <= Len(q)
    BY <1>1, <2>1 DEF ToSet
  <2>2. CASE ~(i <= Len(q))
    <3>1. i - Len(q) \in 1..Len(r) /\ Len(q) + (i - Len(q)) = i
      BY <1>1, <2>2
    <3> QED BY <1>1, <3>1 DEF ToSet
  <2> QED BY <2>1, <2>2
<1>3. ASSUME NEW i \in 1..Len(q)
      PROVE  q[i] \in ToSet(q \o r)
  BY <1>1 DEF ToSet
<1>4. ASSUME NEW i \in 1..Len(r)
      PROVE  r[i] \in ToSet(q \o r)
  <2>1. Len(q) + i \in 1..(Len(q) + Len(r))
    BY <1>1
  <2> QED BY <1>1, <2>1 DEF ToSet
<1>5. ToSet(q \o r) \subseteq ToSet(q) \cup ToSet(r)
  BY <1>1, <1>2 DEF ToSet
<1>6. ToSet(q) \subseteq ToSet(q \o r)
  BY <1>1, <1>3 DEF ToSet
<1>7. ToSet(r) \subseteq ToSet(q \o r)
  BY <1>1, <1>4 DEF ToSet
<1> QED BY <1>5, <1>6, <1>7

\* Where a sample is.
LEMMA SampleIsIn ==
  ASSUME NEW logged, NEW messages, NEW batch, NEW s
  PROVE  s \in SamplesOf(logged, messages, batch) <=>
           \/ \E i \in DOMAIN logged : s = logged[i].sample
           \/ \E k \in DOMAIN messages : s \in ToSet(messages[k].stats)
           \/ s \in ToSet(batch)
BY DEF SamplesOf

LEMMA DecodedSamples ==
  ASSUME FramesInv, ClosedInv, RetainsInv, Sequence(worker.batch), SamplesInv,
         NEW frame, NEW stats, NEW next, Decoded(frame, stats, next)
  PROVE  SamplesInv'
<1>1. /\ worker.pc = "reading" /\ worker'.pc = "reading" /\ rows' = rows /\ Messages' = Messages
      /\ worker'.batch = worker.batch \o stats
      /\ Sequence(stats) /\ Len(stats) = next - NextOpen
      /\ \A k \in DOMAIN stats : stats[k] = Stats(analyzer, NextOpen + k - 1)
  BY DEF Decoded
<1>2. /\ Now' = frame.time /\ Now <= frame.time /\ frame.time \in Int /\ Now \in Int
      /\ NextOpen \in Nat /\ next \in Nat
      /\ next # NextOpen => next = LastClosed(frame.time)
  BY DecodedFrames, DecodedClosed, NewestTime
<1>3. ASSUME NEW s \in Samples'
      PROVE  s \in Samples \/ s \in ToSet(stats)
  <2>1. ToSet(worker'.batch) = ToSet(worker.batch) \cup ToSet(stats)
    BY <1>1, JoinedSet
  <2>2. s \in SamplesOf(rows, Messages, worker'.batch)
    BY <1>1, <1>3 DEF Samples
  <2> QED BY <2>1, <2>2, SampleIsIn DEF Samples
<1>4. ASSUME NEW s \in Samples
      PROVE  s.second \in Int /\ Exact(s)' /\ StartOf(s.second + 1) + Grace < Now'
  <2>1. s.second \in Int /\ Exact(s) /\ StartOf(s.second + 1) + Grace < Now
    BY <1>1, <1>4 DEF SamplesInv
  <2>2. StartOf(s.second + 1) \in Int
    BY <2>1, StartOfSecond
  <2>3. StartOf(s.second + 1) + Grace < frame.time
    BY <1>2, <2>1, <2>2 DEF Grace
  <2> QED BY <1>2, <2>1, <2>3, StaysExact
<1>5. ASSUME NEW s \in ToSet(stats)
      PROVE  s.second \in Int /\ Exact(s)' /\ StartOf(s.second + 1) + Grace < Now'
  <2>1. PICK k \in DOMAIN stats : s = stats[k]
    BY <1>5 DEF ToSet
  <2> DEFINE v == NextOpen + k - 1
  <2>2. k \in 1..(next - NextOpen)
    BY <1>1, <2>1, Positions
  <2>3. v \in Int /\ v >= NextOpen /\ v < next /\ next # NextOpen
    BY <1>2, <2>2
  <2>4. s = Stats(analyzer, v)
    BY <1>1, <2>1
  <2> HIDE DEF v
  <2>5. s.second = v /\ Exact(s)
    BY <2>3, <2>4, MadeExact, StatsSecond
  <2>6. StartOf(v + 1) + Grace < frame.time
    BY <1>2, <2>3, ClosedSeconds
  <2> QED BY <1>2, <2>3, <2>5, <2>6, StaysExact
<1> QED BY <1>3, <1>4, <1>5 DEF SamplesInv

\* A snapshot taken when the seconds before next were published.
LEMMA TakenSnapshot ==
  ASSUME NEW snapshot, NEW next \in Nat, next > 0, snapshot.current = next - 1,
         NEW first, first = Later(1, next - Window),
         NEW history, history = snapshot.history, DOMAIN history = 1..(next - first),
         \A k \in DOMAIN history : history[k].second = first + k - 1
  PROVE  Upto(snapshot) = Later(next - 1, 0) /\ Windowed(snapshot)
<1>1. PICK last : last = next - 1
  OBVIOUS
<1>2. last \in Nat /\ last # None /\ next = last + 1 /\ first \in Int
  BY <1>1, AnalyzerAssumption DEF Later
<1>3. Upto(snapshot) = last /\ Later(next - 1, 0) = last
  BY <1>1, <1>2 DEF Upto, Later
<1>4. Oldest(last) = first
  BY <1>2, AnalyzerAssumption DEF Oldest, Later
<1>5. DOMAIN history = 1..(last + 1 - Oldest(last))
  <2>1. next - first = last + 1 - Oldest(last)
    BY <1>2, <1>4
  <2> QED BY <2>1, Zenon
<1> QED BY <1>2, <1>3, <1>4, <1>5 DEF Windowed

LEMMA DecodedSnapshots ==
  ASSUME FramesInv, ClosedInv, SnapshotsInv,
         NEW frame, NEW stats, NEW next, Decoded(frame, stats, next)
  PROVE  SnapshotsInv' /\ \A k : Before(k)' = Before(k)
<1>1. Messages' = Messages /\ rows' = rows
  BY DEF Decoded
<1>2. NextOpen \in Nat /\ next \in Nat /\ NextOpen <= next /\ NextOpen' = next
  BY DecodedClosed
<1>3. /\ Upto(analyzer'.snapshot) = Later(next - 1, 0)
      /\ Windowed(analyzer'.snapshot)
  <2>1. CASE next = NextOpen
    <3>1. analyzer'.snapshot = analyzer.snapshot
      BY <2>1 DEF Decoded
    <3> QED BY <2>1, <3>1 DEF SnapshotsInv
  <2>2. CASE next # NextOpen
    <3>1. next > 0
      BY <1>2, <2>2
    <3>2. PICK first : first = Later(1, next - Window)
      OBVIOUS
    <3>3. PICK snapshot : snapshot = analyzer'.snapshot
      OBVIOUS
    <3>4. PICK history : history = snapshot.history
      OBVIOUS
    <3>5. snapshot.current = next - 1 /\ DOMAIN history = 1..(next - first)
      BY <2>2, <3>2, <3>3, <3>4 DEF Decoded
    <3>6. \A k \in DOMAIN history : history[k].second = first + k - 1
      BY <2>2, <3>2, <3>3, <3>4 DEF Decoded
    <3>7. Upto(snapshot) = Later(next - 1, 0) /\ Windowed(snapshot)
      BY <1>2, <3>1, <3>2, <3>4, <3>5, <3>6, TakenSnapshot, Zenon
    <3> QED BY <3>3, <3>7
  <2> QED BY <2>1, <2>2
<1> QED BY <1>1, <1>2, <1>3 DEF SnapshotsInv, Before

LEMMA DecodedChain ==
  ASSUME FramesInv, ClosedInv, SnapshotsInv, ChainInv,
         NEW frame, NEW stats, NEW next, Decoded(frame, stats, next)
  PROVE  ChainInv'
<1> DEFINE first == NextOpen - 1 - Len(worker.batch)
           batch == worker.batch \o stats
<1>1. /\ Messages' = Messages /\ rows' = rows /\ worker'.batch = batch
      /\ Sequence(stats) /\ Len(stats) = next - NextOpen
      /\ \A k \in DOMAIN stats : stats[k] = Stats(analyzer, NextOpen + k - 1)
  BY DEF Decoded
<1>2. NextOpen \in Nat /\ next \in Nat /\ NextOpen <= next /\ NextOpen' = next
  BY DecodedClosed
<1>3. \A k : Before(k)' = Before(k)
  BY DecodedSnapshots
<1>4. /\ Sequence(worker.batch) /\ first >= -1
      /\ Before(Len(Messages) + 1) = Later(first, 0)
      /\ \A j \in DOMAIN worker.batch : worker.batch[j].second = first + j
  BY DEF ChainInv
<1>5. /\ Len(worker.batch) \in Nat /\ DOMAIN worker.batch = 1..Len(worker.batch)
      /\ Len(stats) \in Nat /\ DOMAIN stats = 1..Len(stats)
  BY <1>1, <1>4, Positions
<1>6. /\ Sequence(batch) /\ Len(batch) = Len(worker.batch) + Len(stats)
      /\ DOMAIN batch = 1..(Len(worker.batch) + Len(stats))
      /\ \A i \in 1..Len(worker.batch) : batch[i] = worker.batch[i]
      /\ \A i \in 1..Len(stats) : batch[Len(worker.batch) + i] = stats[i]
  <2> DEFINE q == worker.batch
  <2>1. Sequence(q) /\ Sequence(stats)
    BY <1>1, <1>4
  <2> HIDE DEF q
  <2>2. Sequence(q \o stats) /\ Len(q \o stats) = Len(q) + Len(stats)
          /\ DOMAIN (q \o stats) = 1..(Len(q) + Len(stats))
    BY <2>1, Joining
  <2>3. \A i \in 1..Len(q) : (q \o stats)[i] = q[i]
    BY <2>1, Joining
  <2>4. \A i \in 1..Len(stats) : (q \o stats)[Len(q) + i] = stats[i]
    BY <2>1, Joining
  <2> QED BY <2>2, <2>3, <2>4 DEF q
<1>7. next - 1 - Len(batch) = first
  BY <1>1, <1>2, <1>5, <1>6
<1>8. ASSUME NEW j \in DOMAIN batch
      PROVE  batch[j].second = first + j
  <2>1. CASE j <= Len(worker.batch)
    BY <1>4, <1>5, <1>6, <2>1
  <2>2. CASE ~(j <= Len(worker.batch))
    <3> DEFINE i == j - Len(worker.batch)
    <3>0. j \in 1..(Len(worker.batch) + Len(stats))
      BY <1>6
    <3>1. i \in 1..Len(stats) /\ Len(worker.batch) + i = j
      BY <1>5, <2>2, <3>0
    <3>2. NextOpen + i - 1 = first + j
      <4> DEFINE n == Len(worker.batch)
      <4>1. NextOpen \in Int /\ n \in Int
        BY <1>2, <1>5
      <4>2. j \in Int
        BY <3>0
      <4> HIDE DEF batch, n
      <4>3. NextOpen + (j - n) - 1 = (NextOpen - 1 - n) + j
        BY <4>1, <4>2
      <4> QED BY <4>3 DEF n
    <3> HIDE DEF i, first, batch
    <3>3. batch[j] = Stats(analyzer, NextOpen + i - 1)
      BY <1>1, <1>5, <1>6, <3>1
    <3> QED BY <3>2, <3>3, StatsSecond
  <2> QED BY <2>1, <2>2
<1> HIDE DEF batch
<1>9. /\ Sequence(rows)
      /\ \A i \in DOMAIN rows : rows[i].second = i
      /\ \A k \in DOMAIN Messages :
           /\ Sequence(Messages[k].stats)
           /\ Before(k + 1) = Before(k) + Len(Messages[k].stats)
           /\ \A j \in DOMAIN Messages[k].stats : Messages[k].stats[j].second = Before(k) + j
  BY DEF ChainInv
<1>10. NextOpen' - 1 - Len(worker'.batch) = first
  BY <1>1, <1>2, <1>7
<1> HIDE DEF first
<1> QED BY <1>1, <1>3, <1>4, <1>6, <1>8, <1>9, <1>10 DEF ChainInv

-----------------------------------------------------------------------------
(* Beacons on their way.                                                   *)

\* The same of a name for the result.
LEMMA Joins ==
  ASSUME NEW q, Sequence(q), NEW r, Sequence(r), NEW s, s = q \o r
  PROVE  /\ Sequence(s) /\ Len(s) = Len(q) + Len(r)
         /\ DOMAIN s = 1..(Len(q) + Len(r))
         /\ \A i \in 1..Len(q) : s[i] = q[i]
         /\ \A i \in 1..Len(r) : s[Len(q) + i] = r[i]
BY Joining

LEMMA Appends ==
  ASSUME NEW q, Sequence(q), NEW e, NEW s, s = Append(q, e)
  PROVE  /\ Sequence(s) /\ Len(s) = Len(q) + 1
         /\ DOMAIN s = 1..(Len(q) + 1)
         /\ \A i \in 1..Len(q) : s[i] = q[i]
         /\ s[Len(q) + 1] = e
BY Appending

\* One more in front.
LEMMA Preceding ==
  ASSUME NEW q, Sequence(q), NEW e
  PROVE  /\ Sequence(<<e>> \o q) /\ Len(<<e>> \o q) = Len(q) + 1
         /\ (<<e>> \o q)[1] = e
         /\ \A k \in 1..Len(q) : (<<e>> \o q)[k + 1] = q[k]
<1>1. PICK one : one = <<e>>
  OBVIOUS
<1>2. Sequence(one) /\ Len(one) = 1 /\ one[1] = e
  <2>1. one \in Seq({e}) /\ Len(one) = 1 /\ one[1] = e
    BY <1>1
  <2> QED BY <2>1, IsSequence
<1>3. PICK joined : joined = one \o q
  OBVIOUS
<1>4. /\ Sequence(joined) /\ Len(joined) = Len(one) + Len(q)
      /\ \A i \in 1..Len(one) : joined[i] = one[i]
      /\ \A i \in 1..Len(q) : joined[Len(one) + i] = q[i]
  <2>1. Sequence(one)
    BY <1>2
  <2>2. Sequence(one \o q) /\ Len(one \o q) = Len(one) + Len(q)
    BY <2>1, Joining
  <2>3. \A i \in 1..Len(one) : (one \o q)[i] = one[i]
    BY <2>1, Joining
  <2>4. \A i \in 1..Len(q) : (one \o q)[Len(one) + i] = q[i]
    BY <2>1, Joining
  <2> QED BY <1>3, <2>2, <2>3, <2>4, Zenon
<1>5. /\ Sequence(joined) /\ Len(joined) = Len(q) + 1 /\ joined[1] = e
      /\ \A k \in 1..Len(q) : joined[k + 1] = q[k]
  <2>1. Len(q) \in Nat
    BY Positions
  <2> QED BY <1>2, <1>4, <2>1
<1> QED BY <1>1, <1>3, <1>5, Zenon

\* Appending is joining with a single one.
LEMMA AppendingIsJoining ==
  ASSUME NEW q, Sequence(q), NEW e
  PROVE  q \o <<e>> = Append(q, e)
<1>1. q \in Seq(ToSet(q) \cup {e})
  <2>1. q = [i \in 1..Len(q) |-> q[i]] /\ Len(q) \in Nat
    BY Positions
  <2>2. \A i \in 1..Len(q) : q[i] \in ToSet(q) \cup {e}
    BY <2>1 DEF ToSet
  <2> QED BY <2>1, <2>2
<1> QED BY <1>1

\* The places: the log, the messages, the worker.
PlacesOf(logged, messages, held) ==
  <<logged>> \o [k \in DOMAIN messages |-> messages[k].beacons] \o <<held>>

LEMMA PlacesAre ==
  ASSUME NEW logged, NEW messages, Sequence(messages), NEW held,
         NEW places, places = PlacesOf(logged, messages, held)
  PROVE  /\ Sequence(places) /\ Len(places) = Len(messages) + 2
         /\ places[1] = logged /\ places[Len(messages) + 2] = held
         /\ \A k \in 1..Len(messages) : places[k + 1] = messages[k].beacons
<1>1. PICK n : n = Len(messages)
  OBVIOUS
<1>2. n \in Nat /\ DOMAIN messages = 1..n
  BY <1>1, Positions
<1>3. PICK sent : sent = [k \in DOMAIN messages |-> messages[k].beacons]
  OBVIOUS
<1>4. Sequence(sent) /\ Len(sent) = n /\ \A k \in 1..n : sent[k] = messages[k].beacons
  <2>1. sent = [k \in 1..n |-> sent[k]] /\ \A k \in 1..n : sent[k] = messages[k].beacons
    BY <1>2, <1>3
  <2> QED BY <1>2, <2>1, FunctionIsSequence
<1>5. PICK front : front = <<logged>> \o sent
  OBVIOUS
<1>6. /\ Sequence(front) /\ Len(front) = n + 1 /\ front[1] = logged
      /\ \A k \in 1..n : front[k + 1] = sent[k]
  <2>1. Sequence(front)
    BY <1>4, <1>5, Preceding, Zenon
  <2>2. Len(front) = Len(sent) + 1
    BY <1>4, <1>5, Preceding, Zenon
  <2>3. front[1] = logged
    BY <1>4, <1>5, Preceding, Zenon
  <2>4. ASSUME NEW k \in 1..Len(sent) PROVE front[k + 1] = sent[k]
    BY <1>4, <1>5, Preceding
  <2> QED BY <1>4, <2>1, <2>2, <2>3, <2>4
<1>7. places = Append(front, held)
  <2>1. places = front \o <<held>>
    BY <1>3, <1>5 DEF PlacesOf
  <2> QED BY <1>6, <2>1, AppendingIsJoining, Zenon
<1>8. /\ Sequence(places) /\ Len(places) = Len(front) + 1
      /\ \A i \in 1..Len(front) : places[i] = front[i]
      /\ places[Len(front) + 1] = held
  <2>1. Sequence(places)
    BY <1>6, <1>7, Appends, Zenon
  <2>2. Len(places) = Len(front) + 1
    BY <1>6, <1>7, Appends, Zenon
  <2>3. ASSUME NEW i \in 1..Len(front) PROVE places[i] = front[i]
    <3>1. Append(front, held)[i] = front[i]
      BY <1>6, <2>3, Appending
    <3> QED BY <1>7, <3>1, Zenon
  <2>4. places[Len(front) + 1] = held
    BY <1>6, <1>7, Appends, Zenon
  <2> QED BY <2>1, <2>2, <2>3, <2>4
<1>9. /\ Len(places) = n + 2 /\ places[1] = logged /\ places[n + 2] = held
      /\ \A k \in 1..n : places[k + 1] = messages[k].beacons
  <2>1. 1 \in 1..(n + 1) /\ \A k \in 1..n : k + 1 \in 1..(n + 1)
    BY <1>2
  <2>2. (n + 1) + 1 = n + 2
    BY <1>2
  <2> QED BY <1>4, <1>6, <1>8, <2>1, <2>2
<1> QED BY <1>1, <1>8, <1>9

\* A greater number at the end of the last place.
LEMMA OrderedGrows ==
  ASSUME NEW places, NEW ids \in SUBSET Int, Ordered(places, ids),
         NEW n \in Nat \ {0}, Len(places) = n,
         NEW e \in Int, \A id \in ids : id < e,
         NEW grown, Sequence(grown), Len(grown) = n,
         \A p \in 1..n : p # n => grown[p] = places[p],
         grown[n] = Append(places[n], e)
  PROVE  Ordered(grown, ids \cup {e})
<1>1. DOMAIN places = 1..n /\ DOMAIN grown = 1..n
  BY Positions DEF Ordered
<1>2. \A p \in 1..n : Sequence(places[p])
  BY <1>1 DEF Ordered
<1> DEFINE last == Len(places[n])
<1>3. /\ last \in Nat /\ DOMAIN places[n] = 1..last
      /\ Sequence(grown[n]) /\ DOMAIN grown[n] = 1..(last + 1)
      /\ \A i \in 1..last : grown[n][i] = places[n][i]
      /\ grown[n][last + 1] = e
  <2>1. Sequence(places[n])
    BY <1>2
  <2> DEFINE q == places[n]
  <2> HIDE DEF q
  <2>2. /\ Sequence(Append(q, e)) /\ DOMAIN Append(q, e) = 1..(Len(q) + 1)
        /\ \A i \in 1..Len(q) : Append(q, e)[i] = q[i]
        /\ Append(q, e)[Len(q) + 1] = e
        /\ Len(q) \in Nat /\ DOMAIN q = 1..Len(q)
    BY <2>1, Appending, Positions DEF q
  <2> QED BY <2>2 DEF q
<1> HIDE DEF last
<1>4. ASSUME NEW p \in 1..n, NEW i \in DOMAIN grown[p]
      PROVE  \/ i \in DOMAIN places[p] /\ grown[p][i] = places[p][i] /\ i \in Int
             \/ p = n /\ i = last + 1 /\ grown[p][i] = e
  <2>1. CASE p = n
    BY <1>3, <1>4, <2>1
  <2>2. CASE p # n
    <3>1. grown[p] = places[p] /\ DOMAIN places[p] = 1..Len(places[p])
      BY <1>2, <2>2, Positions
    <3> QED BY <1>4, <3>1
  <2> QED BY <2>1, <2>2
<1>5. \A p \in 1..n : \A i \in DOMAIN places[p] :
        i \in DOMAIN grown[p] /\ grown[p][i] = places[p][i]
  <2> SUFFICES ASSUME NEW p \in 1..n, NEW i \in DOMAIN places[p]
               PROVE  i \in DOMAIN grown[p] /\ grown[p][i] = places[p][i]
    OBVIOUS
  <2>1. CASE p = n
    BY <1>3, <2>1
  <2>2. CASE p # n
    BY <2>2
  <2> QED BY <2>1, <2>2
<1>6. \A p \in 1..n : Sequence(grown[p])
  BY <1>2, <1>3
<1>7. \A p \in 1..n : \A i \in DOMAIN places[p] : places[p][i] \in ids
  BY <1>1 DEF Ordered
<1>8. \A p \in 1..n : \A i \in DOMAIN grown[p] : grown[p][i] \in ids \cup {e}
  BY <1>4, <1>7
<1>9. ASSUME NEW id \in ids \cup {e}
      PROVE  \E p \in 1..n : \E i \in DOMAIN grown[p] : grown[p][i] = id
  <2>1. CASE id \in ids
    <3>1. PICK p \in 1..n : \E i \in DOMAIN places[p] : places[p][i] = id
      BY <1>1, <2>1 DEF Ordered
    <3> QED BY <1>5, <3>1
  <2>2. CASE id = e
    <3>1. n \in 1..n /\ last + 1 \in DOMAIN grown[n] /\ grown[n][last + 1] = e
      BY <1>3
    <3> QED BY <2>2, <3>1
  <2> QED BY <2>1, <2>2
<1>10. ASSUME NEW p \in 1..n, NEW q \in 1..n, NEW i \in DOMAIN grown[p], NEW j \in DOMAIN grown[q],
              p < q \/ (p = q /\ i < j)
       PROVE  grown[p][i] < grown[q][j]
  <2>1. CASE j \in DOMAIN places[q] /\ grown[q][j] = places[q][j] /\ j \in Int
    <3>1. i \in DOMAIN places[p] /\ grown[p][i] = places[p][i]
      <4>1. CASE p = n /\ i = last + 1
        <5>1. q = n /\ i < j
          BY <1>10, <4>1
        <5>2. j \in 1..last
          BY <1>3, <2>1, <5>1
        <5> QED BY <1>3, <4>1, <5>1, <5>2
      <4> QED BY <1>4, <4>1
    <3>2. places[p][i] < places[q][j]
      BY <1>1, <1>10, <2>1, <3>1 DEF Ordered
    <3> QED BY <2>1, <3>1, <3>2
  <2>2. CASE q = n /\ j = last + 1 /\ grown[q][j] = e
    <3>1. i \in DOMAIN places[p] /\ grown[p][i] = places[p][i]
      <4>1. CASE p = n /\ i = last + 1
        BY <1>3, <1>10, <2>2, <4>1
      <4> QED BY <1>4, <4>1
    <3> QED BY <1>7, <2>2, <3>1
  <2> QED BY <1>4, <2>1, <2>2
<1> QED BY <1>1, <1>6, <1>8, <1>9, <1>10 DEF Ordered

\* A place is added that holds nothing.
LEMMA OrderedWaits ==
  ASSUME NEW places, NEW ids, Ordered(places, ids), NEW n \in Nat, Len(places) = n,
         NEW grown, Sequence(grown), Len(grown) = n + 1,
         \A p \in 1..n : grown[p] = places[p], grown[n + 1] = << >>
  PROVE  Ordered(grown, ids)
<1>1. DOMAIN places = 1..n /\ DOMAIN grown = 1..(n + 1)
  BY Positions DEF Ordered
<1>2. ASSUME NEW p \in 1..(n + 1), NEW i \in DOMAIN grown[p]
      PROVE  p \in 1..n /\ grown[p] = places[p] /\ i \in DOMAIN places[p]
  <2>1. DOMAIN << >> = {}
    OBVIOUS
  <2>2. p # n + 1
    BY <1>2, <2>1
  <2> QED BY <1>2, <2>2
<1>3. \A p \in 1..(n + 1) : Sequence(grown[p])
  <2>1. Sequence(<< >>)
    <3>1. << >> \in Seq({})
      OBVIOUS
    <3> QED BY <3>1, IsSequence
  <2>2. \A p \in 1..n : Sequence(places[p])
    BY <1>1 DEF Ordered
  <2> QED BY <2>1, <2>2
<1>4. ASSUME NEW p \in 1..(n + 1), NEW i \in DOMAIN grown[p]
      PROVE  grown[p][i] \in ids
  BY <1>1, <1>2, <1>4 DEF Ordered
<1>5. ASSUME NEW id \in ids
      PROVE  \E p \in 1..(n + 1) : \E i \in DOMAIN grown[p] : grown[p][i] = id
  <2>1. PICK p \in 1..n : \E i \in DOMAIN places[p] : places[p][i] = id
    BY <1>1 DEF Ordered
  <2> QED BY <2>1
<1>6. ASSUME NEW p \in 1..(n + 1), NEW q \in 1..(n + 1), NEW i \in DOMAIN grown[p],
             NEW j \in DOMAIN grown[q], p < q \/ (p = q /\ i < j)
      PROVE  grown[p][i] < grown[q][j]
  <2>1. p \in 1..n /\ grown[p] = places[p] /\ i \in DOMAIN places[p]
    BY <1>2
  <2>2. q \in 1..n /\ grown[q] = places[q] /\ j \in DOMAIN places[q]
    BY <1>2
  <2> QED BY <1>1, <1>6, <2>1, <2>2 DEF Ordered
<1> QED BY <1>1, <1>3, <1>4, <1>5, <1>6 DEF Ordered

\* The first number of the second place goes to the end of the first.
LEMMA OrderedMoves ==
  ASSUME NEW places, NEW ids, Ordered(places, ids), NEW n \in Nat, n > 1, Len(places) = n,
         NEW moved, Sequence(moved), Len(moved) = n, places[2] # << >>,
         moved[1] = Append(places[1], Head(places[2])), moved[2] = Tail(places[2]),
         \A p \in 3..n : moved[p] = places[p]
  PROVE  Ordered(moved, ids)
<1>1. DOMAIN places = 1..n /\ DOMAIN moved = 1..n
  BY Positions DEF Ordered
<1>2. \A p \in 1..n : Sequence(places[p])
  BY <1>1 DEF Ordered
<1>3. PICK k : k = Len(places[1])
  OBVIOUS
<1>4. PICK m : m = Len(places[2])
  OBVIOUS
<1>5. /\ k \in Nat /\ m \in Nat \ {0}
      /\ DOMAIN places[1] = 1..k /\ DOMAIN places[2] = 1..m
  BY <1>2, <1>3, <1>4, Positions
<1>6. /\ Sequence(moved[1]) /\ DOMAIN moved[1] = 1..(k + 1)
      /\ \A i \in 1..k : moved[1][i] = places[1][i]
      /\ moved[1][k + 1] = places[2][1]
      /\ Sequence(moved[2]) /\ DOMAIN moved[2] = 1..(m - 1)
      /\ \A i \in 1..(m - 1) : moved[2][i] = places[2][i + 1]
  <2>1. PICK q : q = places[1]
    OBVIOUS
  <2>2. PICK r : r = places[2]
    OBVIOUS
  <2>3. Sequence(q) /\ Sequence(r) /\ r # << >>
    BY <1>2, <2>1, <2>2
  <2>4. /\ Sequence(Append(q, Head(r))) /\ DOMAIN Append(q, Head(r)) = 1..(Len(q) + 1)
        /\ \A i \in 1..Len(q) : Append(q, Head(r))[i] = q[i]
        /\ Append(q, Head(r))[Len(q) + 1] = Head(r)
    BY <2>3, Appending
  <2>5. /\ Sequence(Tail(r)) /\ DOMAIN Tail(r) = 1..(Len(r) - 1)
        /\ \A i \in 1..(Len(r) - 1) : Tail(r)[i] = r[i + 1]
        /\ Head(r) = r[1]
    BY <2>3, Dropping
  <2> QED BY <1>3, <1>4, <2>1, <2>2, <2>4, <2>5
<1>7. ASSUME NEW p \in 1..n, NEW i \in DOMAIN moved[p]
      PROVE  \E q \in 1..n : \E j \in DOMAIN places[q] :
               /\ moved[p][i] = places[q][j] /\ i \in Int /\ j \in Int
               /\ \/ p = 1 /\ q = 1 /\ i = j
                  \/ p = 1 /\ q = 2 /\ i = k + 1 /\ j = 1
                  \/ p = 2 /\ q = 2 /\ j = i + 1 /\ i >= 1
                  \/ p > 2 /\ q = p /\ i = j
  <2>1. CASE p = 1 /\ i <= k
    <3>1. i \in 1..k /\ 1 \in 1..n
      BY <1>5, <1>6, <1>7, <2>1
    <3> QED BY <1>5, <1>6, <2>1, <3>1
  <2>2. CASE p = 1 /\ ~(i <= k)
    <3>1. i = k + 1 /\ 2 \in 1..n /\ 1 \in DOMAIN places[2]
      BY <1>5, <1>6, <1>7, <2>2
    <3>2. moved[p][i] = places[2][1]
      BY <1>6, <2>2, <3>1
    <3> QED BY <1>5, <2>2, <3>1, <3>2
  <2>3. CASE p = 2
    <3>1. PICK j : j = i + 1
      OBVIOUS
    <3>2. i \in 1..(m - 1)
      BY <1>6, <1>7, <2>3
    <3>3. j \in 1..m /\ 2 \in 1..n /\ i >= 1 /\ i \in Int
      BY <1>5, <3>1, <3>2
    <3>4. moved[p][i] = places[2][j]
      BY <1>6, <2>3, <3>1, <3>2
    <3> QED BY <1>5, <2>3, <3>1, <3>3, <3>4
  <2>4. CASE p > 2
    <3>1. p \in 3..n
      BY <2>4
    <3>2. moved[p] = places[p] /\ DOMAIN places[p] = 1..Len(places[p])
      BY <1>2, <3>1, Positions
    <3> QED BY <1>7, <2>4, <3>2
  <2> QED BY <2>1, <2>2, <2>3, <2>4
<1>8. ASSUME NEW q \in 1..n, NEW j \in DOMAIN places[q]
      PROVE  \E p \in 1..n : \E i \in DOMAIN moved[p] : moved[p][i] = places[q][j]
  <2>1. CASE q = 1
    <3>1. j \in 1..k /\ j \in 1..(k + 1) /\ 1 \in 1..n
      BY <1>5, <1>8, <2>1
    <3> QED BY <1>6, <2>1, <3>1
  <2>2. CASE q = 2 /\ j = 1
    <3>1. k + 1 \in 1..(k + 1) /\ 1 \in 1..n
      BY <1>5
    <3> QED BY <1>6, <2>2, <3>1
  <2>3. CASE q = 2 /\ j # 1
    <3>1. PICK i : i = j - 1
      OBVIOUS
    <3>2. i \in 1..(m - 1) /\ i + 1 = j /\ 2 \in 1..n
      BY <1>5, <1>8, <2>3, <3>1
    <3>3. moved[2][i] = places[2][j]
      BY <1>6, <3>2
    <3> QED BY <1>6, <2>3, <3>2, <3>3
  <2>4. CASE q > 2
    <3>1. q \in 3..n
      BY <2>4
    <3> QED BY <1>8, <3>1
  <2> QED BY <2>1, <2>2, <2>3, <2>4
<1>9. \A p \in 1..n : Sequence(moved[p])
  <2> SUFFICES ASSUME NEW p \in 1..n PROVE Sequence(moved[p])
    OBVIOUS
  <2>1. CASE p \in {1, 2}
    BY <1>6, <2>1
  <2>2. CASE p \notin {1, 2}
    <3>1. p \in 3..n
      BY <2>2
    <3> QED BY <1>2, <3>1
  <2> QED BY <2>1, <2>2
<1>10. ASSUME NEW p \in 1..n, NEW i \in DOMAIN moved[p]
       PROVE  moved[p][i] \in ids
  <2>1. \A q \in 1..n : \A j \in DOMAIN places[q] : places[q][j] \in ids
    BY <1>1 DEF Ordered
  <2> QED BY <1>7, <2>1
<1>11. ASSUME NEW id \in ids
       PROVE  \E p \in 1..n : \E i \in DOMAIN moved[p] : moved[p][i] = id
  <2>1. PICK q \in 1..n : \E j \in DOMAIN places[q] : places[q][j] = id
    BY <1>1 DEF Ordered
  <2> QED BY <1>8, <2>1
<1>12. ASSUME NEW p \in 1..n, NEW q \in 1..n, NEW i \in DOMAIN moved[p],
              NEW j \in DOMAIN moved[q], p < q \/ (p = q /\ i < j)
       PROVE  moved[p][i] < moved[q][j]
  <2>1. PICK r \in 1..n : \E u \in DOMAIN places[r] :
               /\ moved[p][i] = places[r][u] /\ i \in Int /\ u \in Int
               /\ \/ p = 1 /\ r = 1 /\ i = u
                  \/ p = 1 /\ r = 2 /\ i = k + 1 /\ u = 1
                  \/ p = 2 /\ r = 2 /\ u = i + 1 /\ i >= 1
                  \/ p > 2 /\ r = p /\ i = u
    BY <1>7
  <2>2. PICK u \in DOMAIN places[r] :
               /\ moved[p][i] = places[r][u] /\ i \in Int /\ u \in Int
               /\ \/ p = 1 /\ r = 1 /\ i = u
                  \/ p = 1 /\ r = 2 /\ i = k + 1 /\ u = 1
                  \/ p = 2 /\ r = 2 /\ u = i + 1 /\ i >= 1
                  \/ p > 2 /\ r = p /\ i = u
    BY <2>1
  <2>3. PICK s \in 1..n : \E v \in DOMAIN places[s] :
               /\ moved[q][j] = places[s][v] /\ j \in Int /\ v \in Int
               /\ \/ q = 1 /\ s = 1 /\ j = v
                  \/ q = 1 /\ s = 2 /\ j = k + 1 /\ v = 1
                  \/ q = 2 /\ s = 2 /\ v = j + 1 /\ j >= 1
                  \/ q > 2 /\ s = q /\ j = v
    BY <1>7
  <2>4. PICK v \in DOMAIN places[s] :
               /\ moved[q][j] = places[s][v] /\ j \in Int /\ v \in Int
               /\ \/ q = 1 /\ s = 1 /\ j = v
                  \/ q = 1 /\ s = 2 /\ j = k + 1 /\ v = 1
                  \/ q = 2 /\ s = 2 /\ v = j + 1 /\ j >= 1
                  \/ q > 2 /\ s = q /\ j = v
    BY <2>3
  <2>5. r < s \/ (r = s /\ u < v)
    <3>1. r = 1 => u <= k
      BY <1>5
    <3>2. s = 1 => v <= k
      BY <1>5
    <3> QED BY <1>5, <1>12, <2>2, <2>4, <3>1, <3>2
  <2>6. places[r][u] < places[s][v]
    BY <1>1, <2>5 DEF Ordered
  <2> QED BY <2>2, <2>4, <2>6
<1> QED BY <1>1, <1>9, <1>10, <1>11, <1>12 DEF Ordered

\* The second place, which holds nothing, is dropped.
LEMMA OrderedDrops ==
  ASSUME NEW places, NEW ids, Ordered(places, ids), NEW n \in Nat, n > 1, Len(places) = n,
         NEW left, Sequence(left), Len(left) = n - 1,
         left[1] = places[1], places[2] = << >>,
         \A p \in 2..(n - 1) : left[p] = places[p + 1]
  PROVE  Ordered(left, ids)
<1> DEFINE At(p) == IF p = 1 THEN 1 ELSE p + 1
<1>1. DOMAIN places = 1..n /\ DOMAIN left = 1..(n - 1)
  BY Positions DEF Ordered
<1>2. \A p \in 1..(n - 1) : At(p) \in 1..n /\ left[p] = places[At(p)]
  <2> SUFFICES ASSUME NEW p \in 1..(n - 1) PROVE At(p) \in 1..n /\ left[p] = places[At(p)]
    OBVIOUS
  <2>1. CASE p = 1
    BY <2>1
  <2>2. CASE p # 1
    <3>1. p \in 2..(n - 1)
      BY <2>2
    <3> QED BY <2>2, <3>1
  <2> QED BY <2>1, <2>2
<1>3. \A p, q \in 1..(n - 1) : p < q => At(p) < At(q)
  OBVIOUS
<1>4. ASSUME NEW q \in 1..n, NEW j \in DOMAIN places[q]
      PROVE  \E p \in 1..(n - 1) : q = At(p)
  <2>1. q # 2
    <3>1. DOMAIN << >> = {}
      OBVIOUS
    <3> QED BY <1>4, <3>1
  <2>2. CASE q = 1
    <3>1. 1 \in 1..(n - 1) /\ At(1) = 1
      OBVIOUS
    <3> QED BY <2>2, <3>1
  <2>3. CASE q # 1
    <3>1. q - 1 \in 1..(n - 1) /\ At(q - 1) = q
      BY <2>1, <2>3
    <3> QED BY <3>1
  <2> QED BY <2>2, <2>3
<1> HIDE DEF At
<1>5. \A p \in 1..n : Sequence(places[p])
  BY <1>1 DEF Ordered
<1>6. \A p \in 1..(n - 1) : Sequence(left[p])
  BY <1>2, <1>5
<1>7. ASSUME NEW p \in 1..(n - 1), NEW i \in DOMAIN left[p]
      PROVE  left[p][i] \in ids
  BY <1>1, <1>2, <1>7 DEF Ordered
<1>8. ASSUME NEW id \in ids
      PROVE  \E p \in 1..(n - 1) : \E i \in DOMAIN left[p] : left[p][i] = id
  <2>1. PICK q \in 1..n : \E j \in DOMAIN places[q] : places[q][j] = id
    BY <1>1 DEF Ordered
  <2>2. PICK j \in DOMAIN places[q] : places[q][j] = id
    BY <2>1
  <2>3. PICK p \in 1..(n - 1) : q = At(p)
    BY <1>4, <2>2
  <2> QED BY <1>2, <2>2, <2>3
<1>9. ASSUME NEW p \in 1..(n - 1), NEW q \in 1..(n - 1), NEW i \in DOMAIN left[p],
             NEW j \in DOMAIN left[q], p < q \/ (p = q /\ i < j)
      PROVE  left[p][i] < left[q][j]
  <2>1. PICK r : r = At(p)
    OBVIOUS
  <2>2. PICK s : s = At(q)
    OBVIOUS
  <2>3. r \in 1..n /\ s \in 1..n /\ left[p] = places[r] /\ left[q] = places[s]
    BY <1>2, <2>1, <2>2
  <2>4. r < s \/ (r = s /\ i < j)
    BY <1>3, <1>9, <2>1, <2>2
  <2> QED BY <1>1, <1>9, <2>3, <2>4 DEF Ordered
<1> QED BY <1>1, <1>6, <1>7, <1>8, <1>9 DEF Ordered

LEMMA PlacesNow ==
  ASSUME Sequence(Messages)
  PROVE  /\ Sequence(Places) /\ Len(Places) = Len(Messages) + 2
         /\ Places[1] = beacons /\ Places[Len(Messages) + 2] = worker.beacons
         /\ \A k \in 1..Len(Messages) : Places[k + 1] = Messages[k].beacons
<1>1. PICK places : places = Places
  OBVIOUS
<1>2. places = PlacesOf(beacons, Messages, worker.beacons)
  BY <1>1 DEF Places, PlacesOf
<1>3. /\ Sequence(places) /\ Len(places) = Len(Messages) + 2
      /\ places[1] = beacons /\ places[Len(Messages) + 2] = worker.beacons
  BY <1>2, PlacesAre
<1>4. ASSUME NEW k \in 1..Len(Messages) PROVE places[k + 1] = Messages[k].beacons
  BY <1>2, <1>4, PlacesAre
<1> QED BY <1>1, <1>3, <1>4

LEMMA PlacesNext ==
  ASSUME Sequence(Messages')
  PROVE  /\ Sequence(Places') /\ Len(Places') = Len(Messages') + 2
         /\ Places'[1] = beacons' /\ Places'[Len(Messages') + 2] = worker'.beacons
         /\ \A k \in 1..Len(Messages') : Places'[k + 1] = Messages'[k].beacons
<1>1. PICK places : places = Places'
  OBVIOUS
<1>2. places = PlacesOf(beacons', Messages', worker'.beacons)
  BY <1>1 DEF Places, PlacesOf
<1>3. /\ Sequence(places) /\ Len(places) = Len(Messages') + 2
      /\ places[1] = beacons' /\ places[Len(Messages') + 2] = worker'.beacons
  BY <1>2, PlacesAre
<1>4. ASSUME NEW k \in 1..Len(Messages') PROVE places[k + 1] = Messages'[k].beacons
  BY <1>2, <1>4, PlacesAre
<1> QED BY <1>1, <1>3, <1>4

LEMMA DecodedBeacons ==
  ASSUME FramesInv, SnapshotsInv, BeaconsInv,
         NEW frame, NEW stats, NEW next, Decoded(frame, stats, next)
  PROVE  BeaconsInv'
<1>1. PICK n : n = Len(Messages) + 2
  OBVIOUS
<1>2. /\ Sequence(Messages) /\ Messages' = Messages /\ beacons' = beacons
      /\ worker'.beacons = IF frame.beacon THEN Append(worker.beacons, frame.id)
                           ELSE worker.beacons
      /\ frame.id = Len(delivered) + 1 /\ frame \in Frame
  BY DEF SnapshotsInv, Decoded
<1>3. n \in Nat /\ n > 0 /\ \A p \in 1..n : p = 1 \/ p = n \/ p - 1 \in 1..Len(Messages)
  BY <1>1, <1>2, Positions
<1>4. /\ Sequence(Places) /\ Len(Places) = n
      /\ Places[1] = beacons /\ Places[n] = worker.beacons
      /\ \A k \in 1..Len(Messages) : Places[k + 1] = Messages[k].beacons
  BY <1>1, <1>2, PlacesNow
<1>5. /\ Sequence(Places') /\ Len(Places') = n
      /\ Places'[1] = beacons /\ Places'[n] = worker'.beacons
      /\ \A k \in 1..Len(Messages) : Places'[k + 1] = Messages[k].beacons
  BY <1>1, <1>2, PlacesNext
<1>6. ASSUME NEW p \in 1..n, p # n
      PROVE  Places'[p] = Places[p]
  <2>1. CASE p = 1
    BY <1>4, <1>5, <2>1
  <2>2. CASE p # 1
    <3>1. p - 1 \in 1..Len(Messages) /\ (p - 1) + 1 = p
      BY <1>3, <1>6, <2>2
    <3>2. Places'[(p - 1) + 1] = Places[(p - 1) + 1]
      BY <1>4, <1>5, <3>1
    <3> QED BY <3>1, <3>2
  <2> QED BY <2>1, <2>2
<1>7. /\ Len(delivered) \in Nat /\ DOMAIN delivered = 1..Len(delivered)
      /\ DOMAIN delivered' = 1..(Len(delivered) + 1)
      /\ \A i \in 1..Len(delivered) : delivered'[i] = delivered[i]
      /\ delivered'[Len(delivered) + 1] = frame
  BY DecodedFrames
<1>8. Beacons' = IF frame.beacon THEN Beacons \cup {frame.id} ELSE Beacons
  <2>1. frame.beacon \in BOOLEAN
    BY <1>2 DEF Frame
  <2> QED BY <1>2, <1>7, <2>1 DEF Beacons
<1>9. Beacons \in SUBSET Int /\ frame.id \in Int /\ \A id \in Beacons : id < frame.id
  BY <1>2, <1>7 DEF Beacons
<1>10. CASE frame.beacon
  <2>1. PICK places : places = Places
    OBVIOUS
  <2>2. PICK grown : grown = Places'
    OBVIOUS
  <2>3. grown[n] = Append(places[n], frame.id)
    BY <1>2, <1>4, <1>5, <1>10, <2>1, <2>2
  <2>4. Ordered(grown, Beacons \cup {frame.id})
    <3>1. Ordered(places, Beacons) /\ Len(places) = n
      BY <1>4, <2>1 DEF BeaconsInv
    <3>2. \A p \in 1..n : p # n => grown[p] = places[p]
      BY <1>6, <2>1, <2>2
    <3>3. Sequence(grown) /\ Len(grown) = n /\ n \in Nat \ {0}
      BY <1>3, <1>5, <2>2
    <3> QED BY <1>9, <2>3, <3>1, <3>2, <3>3, OrderedGrows, Zenon
  <2> QED BY <1>8, <1>10, <2>2, <2>4 DEF BeaconsInv
<1>11. CASE ~frame.beacon
  <2>1. worker'.beacons = worker.beacons
    BY <1>2, <1>11
  <2>2. Places' = Places
    BY <1>2, <2>1 DEF Places
  <2> QED BY <1>8, <1>11, <2>2 DEF BeaconsInv
<1> QED BY <1>10, <1>11

\* What decoding leaves alone.
LEMMA DecodedRest ==
  ASSUME FramesInv, TakenInv, PaintedInv, EofInv,
         NEW frame, NEW stats, NEW next, Decoded(frame, stats, next)
  PROVE  TakenInv' /\ PaintedInv' /\ EofInv' /\ WorkerInv'
<1>1. /\ UNCHANGED <<pipe, taken, Messages, loop, rows, cu, stamped, shown>>
      /\ worker.pc = "reading"
      /\ worker' = [pc |-> "reading", partial |-> 0, batch |-> worker.batch \o stats,
                    beacons |-> IF frame.beacon THEN Append(worker.beacons, frame.id)
                                ELSE worker.beacons]
      /\ delivered' = Append(delivered, frame)
  BY DEF Decoded
<1>2. PaintedInv'
  BY <1>1 DEF PaintedInv, Upto, Oldest, Read, Before
<1>5. TakenInv'
  BY <1>1 DEF TakenInv
<1>3. EofInv'
  <2>1. worker'.pc = "reading"
    BY <1>1
  <2> QED BY <1>1, <2>1 DEF EofInv
<1>4. WorkerInv'
  <2>1. delivered' # << >>
    <3>1. delivered \in Seq(Frame) /\ delivered' = Append(delivered, frame)
      BY <1>1 DEF FramesInv
    <3>2. Len(Append(delivered, frame)) = Len(delivered) + 1 /\ Len(delivered) \in Nat
      BY <3>1
    <3> QED BY <3>1, <3>2
  <2>2. worker'.partial = 0 /\ worker' = [pc |-> worker'.pc, partial |-> worker'.partial,
                                          batch |-> worker'.batch, beacons |-> worker'.beacons]
    BY <1>1
  <2> QED BY <2>1, <2>2 DEF WorkerInv
<1> QED BY <1>2, <1>3, <1>4, <1>5

\* Decoding a frame keeps the invariant.
LEMMA DecodeStep ==
  ASSUME PipelineInv, Decode
  PROVE  PipelineInv'
<1>1. /\ FramesInv /\ WorkerInv /\ RetainsInv /\ ClosedInv /\ SnapshotsInv
      /\ ChainInv /\ SamplesInv /\ TakenInv /\ PaintedInv /\ EofInv /\ BeaconsInv
  BY DEF PipelineInv
<1>2. Sequence(worker.batch)
  BY <1>1 DEF ChainInv
<1>3. PICK frame, stats, next : Decoded(frame, stats, next)
  BY <1>1, <1>2, Decodes
<1>4. FramesInv' /\ RetainsInv' /\ ClosedInv' /\ SnapshotsInv'
  BY <1>1, <1>3, DecodedFrames, DecodedRetains, DecodedClosed, DecodedSnapshots
<1>5. ChainInv' /\ SamplesInv' /\ BeaconsInv'
  BY <1>1, <1>2, <1>3, DecodedChain, DecodedSamples, DecodedBeacons
<1>6. TakenInv' /\ PaintedInv' /\ EofInv' /\ WorkerInv'
  BY <1>1, <1>3, DecodedRest
<1>7. EmptyInv'
  <2>1. delivered' # << >>
    BY <1>1, <1>3, DecodedFrames
  <2> QED BY <2>1 DEF EmptyInv
<1> QED BY <1>4, <1>5, <1>6, <1>7 DEF PipelineInv

-----------------------------------------------------------------------------
(* Sending.                                                                *)

\* What the startup filter leaves of consecutive seconds: all after second 0.
LEMMA VisibleSeconds ==
  ASSUME NEW stats, Sequence(stats), NEW first \in Int, first >= -1,
         \A j \in DOMAIN stats : stats[j].second = first + j,
         NEW partial, partial = None => stats = << >>, partial # None => partial = 0,
         NEW v, v = Visible(stats, partial)
  PROVE  /\ Sequence(v) /\ Len(v) = Later(first + Len(stats), 0) - Later(first, 0)
         /\ \A j \in DOMAIN v : v[j].second = Later(first, 0) + j
         /\ ToSet(v) \subseteq ToSet(stats)
<1>1. PICK n : n = Len(stats)
  OBVIOUS
<1>2. n \in Nat /\ DOMAIN stats = 1..n
  BY <1>1, Positions
<1>3. CASE partial = None
  <2>1. v = stats /\ n = 0
    BY <1>1, <1>3, Positions DEF Visible
  <2>2. Later(first + n, 0) - Later(first, 0) = 0
    BY <2>1 DEF Later
  <2> QED BY <1>1, <1>2, <2>1, <2>2
<1>4. CASE partial # None
  <2>1. PICK from : from = IF first = -1 /\ n > 0 THEN 2 ELSE 1
    OBVIOUS
  <2>2. from \in 1..(n + 1)
    BY <1>2, <2>1
  <2>3. {i \in DOMAIN stats : stats[i].second > partial} = from..n
    <3>1. ASSUME NEW i \in 1..n
          PROVE  stats[i].second > partial <=> i >= from
      <4>1. stats[i].second = first + i /\ partial = 0
        BY <1>2, <1>4
      <4> QED BY <1>2, <2>1, <4>1
    <3> QED BY <1>2, <2>2, <3>1
  <2>4. v = KeptAt(stats, from..Len(stats))
    BY <1>1, <1>4, <2>3 DEF Visible
  <2>5. stats \in Seq(ToSet(stats))
    BY DEF Sequence
  <2>6. /\ v \in Seq(ToSet(stats)) /\ Len(v) = n + 1 - from
        /\ \A k \in 1..(n + 1 - from) : v[k] = stats[from + k - 1]
    <3>1. from \in 1..(Len(stats) + 1)
      BY <1>1, <2>2
    <3> HIDE DEF KeptAt
    <3>2. PICK S : S = ToSet(stats)
      OBVIOUS
    <3>3. PICK kept : kept = KeptAt(stats, from..Len(stats))
      OBVIOUS
    <3>4. stats \in Seq(S)
      BY <2>5, <3>2
    <3>5. /\ kept \in Seq(S) /\ Len(kept) = Len(stats) + 1 - from
          /\ \A k \in 1..(Len(stats) + 1 - from) : kept[k] = stats[from + k - 1]
      <4>1. /\ KeptAt(stats, from..Len(stats)) \in Seq(S)
            /\ Len(KeptAt(stats, from..Len(stats))) = Len(stats) + 1 - from
        BY <3>1, <3>4, KeptFrom
      <4>2. \A k \in 1..(Len(stats) + 1 - from) :
              KeptAt(stats, from..Len(stats))[k] = stats[from + k - 1]
        BY <3>1, <3>4, KeptFrom
      <4> QED BY <3>3, <4>1, <4>2, Zenon
    <3>6. kept = v
      BY <2>4, <3>3, Zenon
    <3> QED BY <1>1, <3>2, <3>5, <3>6
  <2>7. Sequence(v) /\ DOMAIN v = 1..(n + 1 - from)
    BY <2>6, IsSequence, Positions
  <2>8. n + 1 - from = Later(first + n, 0) - Later(first, 0)
    BY <1>2, <2>1 DEF Later
  <2>9. ASSUME NEW j \in 1..(n + 1 - from)
        PROVE  v[j].second = Later(first, 0) + j
    <3>1. from + j - 1 \in 1..n
      BY <1>2, <2>2
    <3>2. v[j].second = first + (from + j - 1)
      BY <1>2, <2>6, <3>1
    <3>3. first + (from + j - 1) = Later(first, 0) + j
      BY <1>2, <2>1 DEF Later
    <3> QED BY <3>2, <3>3
  <2>10. ToSet(v) \subseteq ToSet(stats)
    BY <2>6 DEF ToSet
  <2> QED BY <1>1, <2>6, <2>7, <2>8, <2>9, <2>10
<1> QED BY <1>3, <1>4

\* What a send does: the batch, or what the end of capture closes, is sent,
\* and the beacons that were waiting with it.
Sending(stats, eof, message) ==
  /\ worker.pc = "reading"
  /\ message.stats = Visible(stats, worker.partial) /\ message.beacons = worker.beacons
  /\ message.eof = eof /\ message.snapshot = analyzer'.snapshot
  /\ message = [stats |-> message.stats, beacons |-> message.beacons, eof |-> message.eof,
                snapshot |-> message.snapshot]
  /\ Messages' = Append(Messages, message) /\ Sequence(pipe') /\ taken' = taken
  /\ worker' = [pc |-> IF eof THEN "ended" ELSE "reading", partial |-> worker.partial,
                batch |-> << >>, beacons |-> << >>]
  /\ UNCHANGED <<delivered, loop, rows, beacons, cu, stamped, shown>>
  /\ Sequence(stats)
  /\ NextOpen' \in Int /\ NextOpen \in Int
  /\ NextOpen' - 1 - Len(stats) = NextOpen - 1 - Len(worker.batch)
  /\ \A j \in DOMAIN stats : stats[j].second = (NextOpen' - 1 - Len(stats)) + j
  /\ \A s \in ToSet(stats) :
       /\ s.second \in Int /\ Exact(s)
       /\ ~eof => StartOf(s.second + 1) + Grace < Now
  /\ Upto(analyzer'.snapshot) = Later(NextOpen' - 1, 0) /\ Windowed(analyzer'.snapshot)
  /\ delivered = << >> => stats = << >> /\ worker.partial = None

\* The messages: what is left of the one that is being taken in, then the pipe.
LEMMA MessagesAre ==
  ASSUME TakenInv
  PROVE  /\ Sequence(Messages) /\ Len(Messages) = Len(taken) + Len(pipe)
         /\ Len(taken) \in {0, 1} /\ Len(pipe) \in Nat
         /\ taken = << >> => Messages = pipe
         /\ \A k \in 1..Len(taken) : Messages[k] = taken[k]
         /\ \A k \in 1..Len(pipe) : Messages[Len(taken) + k] = pipe[k]
<1>1. Sequence(taken) /\ Sequence(pipe) /\ Len(taken) <= 1
  BY DEF TakenInv
<1>2. Len(taken) \in {0, 1} /\ Len(pipe) \in Nat
  <2>1. Len(taken) \in Nat /\ Len(pipe) \in Nat
    BY <1>1, Positions
  <2>2. ASSUME NEW m \in Nat, m <= 1
        PROVE  m \in {0, 1}
    BY <2>2
  <2> QED BY <1>1, <2>1, <2>2
<1>3. Sequence(taken \o pipe) /\ Len(taken \o pipe) = Len(taken) + Len(pipe)
  BY <1>1, Joining
<1>4. \A k \in 1..Len(taken) : (taken \o pipe)[k] = taken[k]
  BY <1>1, Joining
<1>5. \A k \in 1..Len(pipe) : (taken \o pipe)[Len(taken) + k] = pipe[k]
  BY <1>1, Joining
<1>6. taken = << >> => taken \o pipe = pipe
  BY <1>1 DEF Sequence
<1> QED BY <1>2, <1>3, <1>4, <1>5, <1>6 DEF Messages

\* One more message is sent.
LEMMA Sends ==
  ASSUME TakenInv, NEW message, pipe' = Append(pipe, message), taken' = taken
  PROVE  Messages' = Append(Messages, message) /\ Sequence(pipe')
<1>1. Sequence(taken) /\ Sequence(pipe)
  BY DEF TakenInv
<1>2. Sequence(Append(pipe, message))
  BY <1>1, Appending
<1>3. PICK S : S = ToSet(taken) \cup ToSet(pipe) \cup {message}
  OBVIOUS
<1>4. taken \in Seq(S) /\ pipe \in Seq(S) /\ message \in S
  <2>1. taken \in Seq(ToSet(taken)) /\ pipe \in Seq(ToSet(pipe))
    BY <1>1 DEF Sequence
  <2>2. ToSet(taken) \subseteq S /\ ToSet(pipe) \subseteq S
    BY <1>3
  <2> HIDE DEF ToSet
  <2> QED BY <1>3, <2>1, <2>2
<1>5. taken \o Append(pipe, message) = Append(taken \o pipe, message)
  BY <1>4
<1> QED BY <1>2, <1>5 DEF Messages

\* The messages after a send.
LEMMA SentPipe ==
  ASSUME SnapshotsInv, NEW stats, NEW eof, NEW message, Sending(stats, eof, message)
  PROVE  /\ Sequence(Messages) /\ Len(Messages) \in Nat /\ DOMAIN Messages = 1..Len(Messages)
         /\ Sequence(Messages') /\ Len(Messages') = Len(Messages) + 1
         /\ DOMAIN Messages' = 1..(Len(Messages) + 1)
         /\ \A k \in 1..Len(Messages) : Messages'[k] = Messages[k]
         /\ Messages'[Len(Messages) + 1] = message
         /\ \A k \in 1..(Len(Messages) + 1) : Before(k)' = Before(k)
         /\ \A k \in Nat : k = Len(Messages) + 2 => Before(k)' = Upto(analyzer'.snapshot)
<1>1. /\ Sequence(Messages) /\ Messages' = Append(Messages, message) /\ rows' = rows
      /\ message.snapshot = analyzer'.snapshot
  BY DEF SnapshotsInv, Sending
<1>2. PICK n : n = Len(Messages)
  OBVIOUS
<1>3. n \in Nat /\ DOMAIN Messages = 1..n
  BY <1>1, <1>2, Positions
<1>4. /\ Sequence(Messages') /\ Len(Messages') = n + 1 /\ DOMAIN Messages' = 1..(n + 1)
      /\ \A k \in 1..n : Messages'[k] = Messages[k]
      /\ Messages'[n + 1] = message
  <2>1. /\ Sequence(Append(Messages, message)) /\ Len(Append(Messages, message)) = Len(Messages) + 1
        /\ \A k \in 1..Len(Messages) : Append(Messages, message)[k] = Messages[k]
        /\ Append(Messages, message)[Len(Messages) + 1] = message
        /\ DOMAIN Append(Messages, message) = 1..(Len(Messages) + 1)
    BY <1>1, Appending
  <2> QED BY <1>1, <1>2, <2>1, Zenon
<1>5. ASSUME NEW k \in 1..(n + 1)
      PROVE  Before(k)' = Before(k)
  <2>1. CASE k = 1
    BY <1>1, <2>1 DEF Before, Upto
  <2>2. CASE k # 1
    <3>1. k - 1 \in 1..n
      BY <1>3, <2>2
    <3>2. Messages'[k - 1] = Messages[k - 1]
      BY <1>4, <3>1
    <3> QED BY <2>2, <3>2 DEF Before, Upto
  <2> QED BY <2>1, <2>2
<1>6. ASSUME NEW k \in Nat, k = n + 2
      PROVE  Before(k)' = Upto(analyzer'.snapshot)
  <2>1. k # 1 /\ k - 1 = n + 1
    BY <1>3, <1>6
  <2>2. Before(k)' = Upto(Messages'[n + 1].snapshot)
    BY <2>1 DEF Before, Upto
  <2> QED BY <1>1, <1>4, <2>2
<1> QED BY <1>1, <1>2, <1>3, <1>4, <1>5, <1>6

LEMMA SentSnapshots ==
  ASSUME SnapshotsInv, NEW stats, NEW eof, NEW message, Sending(stats, eof, message)
  PROVE  SnapshotsInv'
<1>1. /\ Len(Messages) \in Nat /\ Sequence(Messages') /\ DOMAIN Messages' = 1..(Len(Messages) + 1)
      /\ \A k \in 1..Len(Messages) : Messages'[k] = Messages[k]
      /\ Messages'[Len(Messages) + 1] = message /\ DOMAIN Messages = 1..Len(Messages)
  BY SentPipe
<1>2. Windowed(analyzer'.snapshot) /\ Upto(analyzer'.snapshot) = Later(NextOpen' - 1, 0)
      /\ message.snapshot = analyzer'.snapshot
  BY DEF Sending
<1>3. ASSUME NEW k \in DOMAIN Messages'
      PROVE  Windowed(Messages'[k].snapshot)
  <2>1. CASE k \in 1..Len(Messages)
    <3>1. Messages'[k] = Messages[k] /\ Windowed(Messages[k].snapshot)
      BY <1>1, <2>1 DEF SnapshotsInv
    <3> QED BY <3>1
  <2>2. CASE k \notin 1..Len(Messages)
    <3>1. Messages'[k] = message
      BY <1>1, <1>3, <2>2
    <3> QED BY <1>2, <3>1
  <2> QED BY <2>1, <2>2
<1>4. (Windowed(analyzer.snapshot) /\ Upto(analyzer.snapshot) = Later(NextOpen - 1, 0))'
  BY <1>2 DEF Windowed, Upto, Oldest
<1>5. ASSUME NEW k \in DOMAIN Messages'
      PROVE  Windowed(Messages[k].snapshot)'
  BY <1>3, <1>5 DEF Windowed, Upto, Oldest
<1> QED BY <1>1, <1>4, <1>5 DEF SnapshotsInv

LEMMA SentChain ==
  ASSUME WorkerInv, ChainInv, SnapshotsInv, NEW stats, NEW eof, NEW message,
         Sending(stats, eof, message), delivered = << >> => NextOpen = 0
  PROVE  ChainInv' /\ ToSet(message.stats) \subseteq ToSet(stats)
<1>1. PICK n : n = Len(Messages)
  OBVIOUS
<1>2. PICK first : first = NextOpen' - 1 - Len(stats)
  OBVIOUS
<1>3. PICK v : v = Visible(stats, worker.partial)
  OBVIOUS
<1>4. /\ n \in Nat /\ DOMAIN Messages = 1..n /\ Sequence(Messages') /\ Len(Messages') = n + 1
      /\ DOMAIN Messages' = 1..(n + 1)
      /\ \A k \in 1..n : Messages'[k] = Messages[k]
      /\ Messages'[n + 1] = message /\ message.stats = v
      /\ \A k \in 1..(n + 1) : Before(k)' = Before(k)
      /\ Before(n + 2)' = Upto(analyzer'.snapshot)
  <2>1. Len(Messages) \in Nat
    BY SentPipe
  <2>2. n + 2 \in Nat /\ n + 2 = Len(Messages) + 2
    BY <1>1, <2>1
  <2>3. Before(n + 2)' = Upto(analyzer'.snapshot)
    BY <2>2, SentPipe
  <2>4. message.stats = v
    BY <1>3 DEF Sending
  <2> QED BY <1>1, <2>1, <2>3, <2>4, SentPipe
<1>5. /\ Sequence(stats) /\ Len(stats) \in Nat /\ NextOpen' \in Int /\ first \in Int
      /\ first + Len(stats) = NextOpen' - 1
  <2>1. Sequence(stats) /\ NextOpen' \in Int
    BY DEF Sending
  <2>2. Len(stats) \in Nat
    BY <2>1, Positions
  <2> QED BY <1>2, <2>1, <2>2
<1>6. /\ first = NextOpen - 1 - Len(worker.batch) /\ first >= -1
      /\ Before(n + 1) = Later(first, 0)
  BY <1>1, <1>2 DEF Sending, ChainInv
<1>7. worker.partial = None => stats = << >>
  <2>1. ASSUME delivered = << >> PROVE stats = << >>
    <3>1. NextOpen' = 0
      <4>1. delivered' = << >>
        BY <2>1 DEF Sending
      <4> QED BY <4>1 DEF NextOpen
    <3>2. Len(stats) = 0
      BY <1>5, <1>6, <3>1
    <3> QED BY <1>5, <3>2, Positions
  <2>2. delivered # << >> => worker.partial = 0 /\ 0 # None
    BY AnalyzerAssumption DEF WorkerInv
  <2> QED BY <2>1, <2>2
<1>8. PICK partial : partial = worker.partial
  OBVIOUS
<1>9. \A j \in DOMAIN stats : stats[j].second = first + j
  BY <1>2 DEF Sending
<1>10. /\ Sequence(v) /\ Len(v) = Later(first + Len(stats), 0) - Later(first, 0)
       /\ \A j \in DOMAIN v : v[j].second = Later(first, 0) + j
       /\ ToSet(v) \subseteq ToSet(stats)
  <2>1. Sequence(stats) /\ first \in Int /\ first >= -1
    BY <1>5, <1>6
  <2>2. (partial = None => stats = << >>) /\ (partial # None => partial = 0)
    BY <1>7, <1>8 DEF WorkerInv
  <2>3. v = Visible(stats, partial)
    BY <1>3, <1>8
  <2>4. Sequence(v) /\ Len(v) = Later(first + Len(stats), 0) - Later(first, 0)
    <3>1. Sequence(v)
      BY <1>9, <2>1, <2>2, <2>3, VisibleSeconds, Zenon
    <3>2. Len(v) = Later(first + Len(stats), 0) - Later(first, 0)
      BY <1>9, <2>1, <2>2, <2>3, VisibleSeconds, SMTT(40)
    <3> QED BY <3>1, <3>2
  <2>5. ToSet(v) \subseteq ToSet(stats)
    BY <1>9, <2>1, <2>2, <2>3, VisibleSeconds, Zenon
  <2>6. ASSUME NEW j \in DOMAIN v
        PROVE  v[j].second = Later(first, 0) + j
    BY <1>9, <2>1, <2>2, <2>3, <2>6, VisibleSeconds, SMTT(40)
  <2> QED BY <2>4, <2>5, <2>6
<1>11. Upto(analyzer'.snapshot) = Later(NextOpen' - 1, 0)
  BY DEF Sending
<1>12. Before(n + 2)' = Before(n + 1) + Len(v)
  <2>1. Later(first, 0) \in Int /\ Later(first + Len(stats), 0) \in Int
    BY <1>5 DEF Later
  <2>2. Later(NextOpen' - 1, 0) = Later(first + Len(stats), 0)
    BY <1>5
  <2> QED BY <1>4, <1>6, <1>10, <1>11, <2>1, <2>2
<1>13. ASSUME NEW k \in 1..(n + 1)
       PROVE  /\ Sequence(Messages'[k].stats)
              /\ Before(k + 1)' = Before(k)' + Len(Messages'[k].stats)
              /\ \A j \in DOMAIN Messages'[k].stats : Messages'[k].stats[j].second = Before(k)' + j
  <2>1. CASE k \in 1..n
    <3>1. Messages'[k] = Messages[k] /\ k + 1 \in 1..(n + 1) /\ k \in 1..(n + 1)
      BY <1>4, <2>1
    <3>2. Before(k)' = Before(k) /\ Before(k + 1)' = Before(k + 1)
      BY <1>4, <3>1
    <3>3. /\ Sequence(Messages[k].stats)
          /\ Before(k + 1) = Before(k) + Len(Messages[k].stats)
          /\ \A j \in DOMAIN Messages[k].stats : Messages[k].stats[j].second = Before(k) + j
      BY <1>4, <2>1 DEF ChainInv
    <3> QED BY <3>1, <3>2, <3>3
  <2>2. CASE k \notin 1..n
    <3>1. k = n + 1 /\ k + 1 = n + 2
      BY <1>4, <2>2
    <3>2. Messages'[k].stats = v
      BY <1>4, <3>1
    <3>3. Before(k)' = Later(first, 0) /\ Before(k + 1)' = Before(k)' + Len(v)
      BY <1>4, <1>6, <1>12, <3>1
    <3> QED BY <1>10, <3>2, <3>3
  <2> QED BY <2>1, <2>2
<1>14. /\ rows' = rows /\ worker'.batch = << >>
       /\ Sequence(rows)
       /\ \A i \in DOMAIN rows : rows[i].second = i
  BY DEF Sending, ChainInv
<1>16. /\ Sequence(worker'.batch) /\ DOMAIN worker'.batch = {} /\ Len(worker'.batch) = 0
  <2>1. << >> \in Seq({}) /\ DOMAIN << >> = {} /\ Len(<< >>) = 0
    OBVIOUS
  <2> QED BY <1>14, <2>1, IsSequence
<1>17. PICK open : open = NextOpen'
  OBVIOUS
<1>18. open - 1 - 0 = open - 1 /\ open - 1 >= -1
  <2>1. PICK len : len = Len(stats)
    OBVIOUS
  <2>2. len \in Nat /\ first \in Int /\ first + len = open - 1 /\ open \in Int
    BY <1>5, <1>17, <2>1
  <2>3. first >= -1
    BY <1>6
  <2> QED BY <2>2, <2>3
<1>19. ChainInv' <=>
         /\ Sequence(rows')
         /\ \A i \in DOMAIN rows' : rows'[i].second = i
         /\ \A k \in DOMAIN Messages' :
              /\ Sequence(Messages'[k].stats)
              /\ Before(k + 1)' = Before(k)' + Len(Messages'[k].stats)
              /\ \A j \in DOMAIN Messages'[k].stats : Messages'[k].stats[j].second = Before(k)' + j
         /\ Sequence(worker'.batch) /\ open - 1 - Len(worker'.batch) >= -1
         /\ Before(n + 2)' = Later(open - 1 - Len(worker'.batch), 0)
         /\ \A j \in DOMAIN worker'.batch :
              worker'.batch[j].second = (open - 1 - Len(worker'.batch)) + j
  <2>1. Len(Messages') + 1 = n + 2
    BY <1>4
  <2> HIDE DEF Sequence
  <2> QED BY <1>17, <2>1 DEF ChainInv, Before
<1>20. ToSet(message.stats) \subseteq ToSet(stats)
  <2>1. ToSet(v) \subseteq ToSet(stats)
    BY <1>10
  <2> QED BY <1>4, <2>1, Zenon
<1>21. ChainInv'
  BY <1>4, <1>11, <1>13, <1>14, <1>16, <1>17, <1>18, <1>19
<1> QED BY <1>20, <1>21

LEMMA SentSamples ==
  ASSUME WorkerInv, ChainInv, SnapshotsInv, SamplesInv, NEW stats, NEW eof, NEW message,
         Sending(stats, eof, message), delivered = << >> => NextOpen = 0
  PROVE  SamplesInv'
<1>1. /\ rows' = rows /\ delivered' = delivered /\ worker.pc = "reading"
      /\ worker'.pc = IF eof THEN "ended" ELSE "reading"
      /\ worker'.batch = << >>
      /\ message.stats = Visible(stats, worker.partial)
      /\ \A s \in ToSet(stats) :
           /\ s.second \in Int /\ Exact(s)
           /\ ~eof => StartOf(s.second + 1) + Grace < Now
  BY DEF Sending
<1>2. /\ DOMAIN Messages = 1..Len(Messages) /\ DOMAIN Messages' = 1..(Len(Messages) + 1) /\ Len(Messages) \in Nat
      /\ \A k \in 1..Len(Messages) : Messages'[k] = Messages[k]
      /\ Messages'[Len(Messages) + 1] = message
  BY SentPipe
<1>3. ToSet(message.stats) \subseteq ToSet(stats)
  BY SentChain
<1>4. ASSUME NEW s \in Samples'
      PROVE  s \in Samples \/ s \in ToSet(stats)
  <2>1. s \in SamplesOf(rows', Messages', worker'.batch)
    BY <1>4 DEF Samples
  <2>2. \/ \E i \in DOMAIN rows' : s = rows'[i].sample
        \/ \E k \in DOMAIN Messages' : s \in ToSet(Messages'[k].stats)
        \/ s \in ToSet(worker'.batch)
    BY <2>1, SampleIsIn
  <2>3. CASE \E i \in DOMAIN rows' : s = rows'[i].sample
    <3>1. s \in SamplesOf(rows, Messages, worker.batch)
      BY <1>1, <2>3, SampleIsIn
    <3> QED BY <3>1 DEF Samples
  <2>4. CASE \E k \in DOMAIN Messages' : s \in ToSet(Messages'[k].stats)
    <3>1. PICK k \in DOMAIN Messages' : s \in ToSet(Messages'[k].stats)
      BY <2>4
    <3>2. CASE k \in 1..Len(Messages)
      <4>1. k \in DOMAIN Messages /\ s \in ToSet(Messages[k].stats)
        BY <1>2, <3>1, <3>2
      <4>2. s \in SamplesOf(rows, Messages, worker.batch)
        BY <4>1, SampleIsIn
      <4> QED BY <4>2 DEF Samples
    <3>3. CASE k \notin 1..Len(Messages)
      <4>1. Messages'[k] = message
        BY <1>2, <3>3
      <4> QED BY <1>3, <3>1, <4>1
    <3> QED BY <3>2, <3>3
  <2>5. CASE s \in ToSet(worker'.batch)
    <3>1. ToSet(<< >>) = {}
      BY DEF ToSet
    <3> QED BY <1>1, <2>5, <3>1
  <2> QED BY <2>2, <2>3, <2>4, <2>5
<1>5. ASSUME NEW s, s.second \in Int, Exact(s)
      PROVE  Exact(s)'
  BY <1>1, <1>5 DEF Exact, In, BeaconsIn, Senders
<1>6. Now' = Now
  BY <1>1 DEF Now
<1>7. ASSUME NEW s \in Samples'
      PROVE  /\ s.second \in Int /\ Exact(s)'
             /\ worker'.pc = "reading" => StartOf(s.second + 1) + Grace < Now'
  <2>1. s.second \in Int /\ Exact(s) /\ (~eof => StartOf(s.second + 1) + Grace < Now)
    <3>1. CASE s \in Samples
      BY <1>1, <3>1 DEF SamplesInv
    <3>2. CASE s \in ToSet(stats)
      BY <1>1, <3>2
    <3> QED BY <1>4, <3>1, <3>2
  <2>2. worker'.pc = "reading" => ~eof
    BY <1>1
  <2> QED BY <1>5, <1>6, <2>1, <2>2
<1> HIDE DEF Samples, Exact
<1> QED BY <1>7 DEF SamplesInv

LEMMA SentBeacons ==
  ASSUME SnapshotsInv, BeaconsInv, NEW stats, NEW eof, NEW message, Sending(stats, eof, message)
  PROVE  BeaconsInv'
<1>1. PICK n : n = Len(Messages) + 2
  OBVIOUS
<1>2. /\ delivered' = delivered /\ beacons' = beacons /\ message.beacons = worker.beacons
      /\ worker'.beacons = << >>
  BY DEF Sending
<1>3. /\ Sequence(Messages) /\ Len(Messages) \in Nat
      /\ Sequence(Messages') /\ Len(Messages') = Len(Messages) + 1
      /\ \A k \in 1..Len(Messages) : Messages'[k] = Messages[k]
      /\ Messages'[Len(Messages) + 1] = message
  BY SentPipe
<1>4. PICK places : places = Places
  OBVIOUS
<1>5. PICK grown : grown = Places'
  OBVIOUS
<1>6. /\ Sequence(places) /\ Len(places) = n
      /\ places[1] = beacons /\ places[n] = worker.beacons
      /\ \A k \in 1..Len(Messages) : places[k + 1] = Messages[k].beacons
  BY <1>1, <1>3, <1>4, PlacesNow
<1>7. n \in Nat /\ n = Len(Messages) + 2 /\ Len(Messages') + 2 = n + 1
  BY <1>1, <1>3
<1>8. /\ Sequence(grown) /\ Len(grown) = n + 1
      /\ grown[1] = beacons /\ grown[n + 1] = << >>
      /\ \A k \in 1..Len(Messages') : grown[k + 1] = Messages'[k].beacons
  BY <1>2, <1>3, <1>5, <1>7, PlacesNext
<1>9. ASSUME NEW p \in 1..n
      PROVE  grown[p] = places[p]
  <2>1. CASE p = 1
    BY <1>6, <1>8, <2>1
  <2>2. CASE p = n /\ p # 1
    <3>1. p - 1 = Len(Messages) + 1 /\ p - 1 \in 1..Len(Messages') /\ (p - 1) + 1 = p
      BY <1>3, <1>7, <2>2
    <3>2. grown[(p - 1) + 1] = Messages'[p - 1].beacons
      BY <1>8, <3>1
    <3> QED BY <1>2, <1>3, <1>6, <2>2, <3>1, <3>2
  <2>3. CASE p # n /\ p # 1
    <3>1. p - 1 \in 1..Len(Messages) /\ p - 1 \in 1..Len(Messages') /\ (p - 1) + 1 = p
      BY <1>3, <1>7, <2>3
    <3>2. grown[(p - 1) + 1] = Messages'[p - 1].beacons /\ places[(p - 1) + 1] = Messages[p - 1].beacons
      BY <1>6, <1>8, <3>1
    <3> QED BY <1>3, <3>1, <3>2
  <2> QED BY <2>1, <2>2, <2>3
<1>10. Ordered(places, Beacons)
  BY <1>4 DEF BeaconsInv
<1>11. Ordered(grown, Beacons)
  BY <1>6, <1>7, <1>8, <1>9, <1>10, OrderedWaits, Zenon
<1>12. Beacons' = Beacons
  BY <1>2 DEF Beacons
<1> QED BY <1>5, <1>11, <1>12 DEF BeaconsInv

LEMMA SentRest ==
  ASSUME FramesInv, WorkerInv, TakenInv, PaintedInv, EofInv, SnapshotsInv,
         NEW stats, NEW eof \in BOOLEAN, NEW message, Sending(stats, eof, message),
         eof => (delivered # << >> => analyzer'.next = Second(Now))
  PROVE  FramesInv' /\ WorkerInv' /\ TakenInv' /\ PaintedInv' /\ EofInv'
<1>1. /\ UNCHANGED <<delivered, taken, loop, rows, cu, stamped, shown>>
      /\ worker.pc = "reading" /\ message.eof = eof
      /\ worker' = [pc |-> IF eof THEN "ended" ELSE "reading", partial |-> worker.partial,
                    batch |-> << >>, beacons |-> << >>]
  BY DEF Sending
<1>2. FramesInv'
  BY <1>1 DEF FramesInv
<1>3. PaintedInv'
  <2>1. Read' = Read
    <3>1. Len(taken) + 1 \in 1..(Len(Messages) + 1)
      BY MessagesAre
    <3>2. \A k \in 1..(Len(Messages) + 1) : Before(k)' = Before(k)
      BY SentPipe
    <3>3. Before(Len(taken) + 1)' = Before(Len(taken) + 1)
      BY <1>1, <3>1, <3>2
    <3> QED BY <3>3 DEF Read
  <2> QED BY <1>1, <2>1 DEF PaintedInv, Upto, Oldest
<1>6. TakenInv'
  <2>1. /\ Len(Messages) \in Nat /\ DOMAIN Messages = 1..Len(Messages)
        /\ DOMAIN Messages' = 1..(Len(Messages) + 1)
        /\ \A k \in 1..Len(Messages) : Messages'[k] = Messages[k]
        /\ Messages'[Len(Messages) + 1] = message
    BY SentPipe
  <2>2. /\ Sequence(pipe')
        /\ message = [stats |-> message.stats, beacons |-> message.beacons,
                      eof |-> message.eof, snapshot |-> message.snapshot]
    BY DEF Sending
  <2>3. ASSUME NEW k \in DOMAIN Messages'
        PROVE  Messages'[k] = [stats |-> Messages'[k].stats, beacons |-> Messages'[k].beacons,
                               eof |-> Messages'[k].eof, snapshot |-> Messages'[k].snapshot]
    <3>1. CASE k \in 1..Len(Messages)
      BY <2>1, <3>1 DEF TakenInv
    <3>2. CASE k \notin 1..Len(Messages)
      <4>1. Messages'[k] = message
        BY <2>1, <3>2
      <4> QED BY <2>2, <4>1
    <3> QED BY <3>1, <3>2
  <2> QED BY <1>1, <2>2, <2>3 DEF TakenInv
<1>4. WorkerInv'
  <2>1. worker'.partial = worker.partial /\ delivered' = delivered
    BY <1>1
  <2>2. worker' = [pc |-> worker'.pc, partial |-> worker'.partial, batch |-> worker'.batch,
                   beacons |-> worker'.beacons]
    BY <1>1
  <2> QED BY <2>1, <2>2 DEF WorkerInv
<1>5. EofInv'
  <2>1. worker'.pc = (IF eof THEN "ended" ELSE "reading") /\ worker'.batch = << >>
    BY <1>1
  <2>2. /\ Len(Messages) \in Nat /\ Len(Messages') = Len(Messages) + 1 /\ DOMAIN Messages = 1..Len(Messages)
        /\ DOMAIN Messages' = 1..(Len(Messages) + 1)
        /\ \A k \in 1..Len(Messages) : Messages'[k] = Messages[k]
        /\ Messages'[Len(Messages) + 1] = message
    BY SentPipe
  <2>3. ASSUME NEW k \in DOMAIN Messages', Messages'[k].eof
        PROVE  k = Len(Messages') /\ worker'.pc = "ended"
    <3>1. CASE k \in 1..Len(Messages)
      <4>1. Messages[k].eof
        BY <2>2, <2>3, <3>1
      <4> QED BY <1>1, <2>2, <3>1, <4>1 DEF EofInv
    <3>2. CASE k \notin 1..Len(Messages)
      <4>1. k = Len(Messages) + 1 /\ Messages'[k] = message
        BY <2>2, <3>2
      <4>2. eof
        BY <1>1, <2>3, <4>1, Zenon
      <4> QED BY <2>1, <2>2, <4>1, <4>2
    <3> QED BY <3>1, <3>2
  <2>4. ~(loop'.pc = "exhausted" /\ ~loop'.failed)
    BY <1>1 DEF EofInv
  <2>5. worker'.pc = "ended" => eof
    BY <2>1
  <2>6. Now' = Now
    BY <1>1 DEF Now
  <2>7. worker'.pc = "ended" =>
          worker'.batch = << >> /\ (delivered' # << >> => analyzer'.next = Second(Now'))
    BY <1>1, <2>1, <2>5, <2>6
  <2>8. worker'.pc \in {"reading", "ended", "dead"}
    BY <2>1
  <2>9. loop' = [pc |-> loop'.pc, failed |-> loop'.failed]
    BY <1>1 DEF EofInv
  <2> QED BY <2>3, <2>4, <2>7, <2>8, <2>9 DEF EofInv
<1> QED BY <1>2, <1>3, <1>4, <1>5, <1>6

\* A send keeps the invariant.
LEMMA SendStep ==
  ASSUME PipelineInv, NEW stats, NEW eof \in BOOLEAN, NEW message,
         Sending(stats, eof, message), RetainsInv', ClosedInv',
         eof => (delivered # << >> => analyzer'.next = Second(Now))
  PROVE  PipelineInv'
<1>1. /\ FramesInv /\ WorkerInv /\ SnapshotsInv /\ ChainInv /\ SamplesInv
      /\ TakenInv /\ PaintedInv /\ EofInv /\ BeaconsInv
  BY DEF PipelineInv
<1>2. delivered = << >> => NextOpen = 0
  BY DEF NextOpen
<1>3. FramesInv' /\ WorkerInv' /\ TakenInv' /\ PaintedInv' /\ EofInv'
  BY <1>1, SentRest
<1>4. SnapshotsInv' /\ ChainInv' /\ SamplesInv' /\ BeaconsInv'
  BY <1>1, <1>2, SentSnapshots, SentChain, SentSamples, SentBeacons
<1>5. EmptyInv'
  <2>1. SUFFICES ASSUME delivered' = << >>
                 PROVE  rows' = << >> /\ \A k \in DOMAIN Messages' : Messages'[k].stats = << >>
    BY DEF EmptyInv
  <2>2. /\ delivered = << >> /\ rows' = rows /\ stats = << >> /\ worker.partial = None
        /\ message.stats = Visible(stats, worker.partial)
    BY <2>1 DEF Sending
  <2>3. message.stats = << >>
    BY <2>2 DEF Visible
  <2>4. rows = << >> /\ \A k \in DOMAIN Messages : Messages[k].stats = << >>
    BY <2>2 DEF PipelineInv, EmptyInv
  <2>5. /\ DOMAIN Messages = 1..Len(Messages) /\ DOMAIN Messages' = 1..(Len(Messages) + 1) /\ Len(Messages) \in Nat
        /\ \A k \in 1..Len(Messages) : Messages'[k] = Messages[k]
        /\ Messages'[Len(Messages) + 1] = message
    BY <1>1, SentPipe
  <2> QED BY <2>2, <2>3, <2>4, <2>5
<1> QED BY <1>3, <1>4, <1>5 DEF PipelineInv

-----------------------------------------------------------------------------
(* The end of a batch, and of the capture.                                 *)

LEMMA NextOpenIsNat ==
  ASSUME ClosedInv
  PROVE  NextOpen \in Nat
BY DEF ClosedInv, NextOpen

LEMMA EndBatchStep ==
  ASSUME PipelineInv, EndBatch
  PROVE  PipelineInv'
<1>1. PICK eof : eof = FALSE
  OBVIOUS
<1>2. PICK message : message = [stats |-> Visible(worker.batch, worker.partial),
                                beacons |-> worker.beacons, eof |-> eof,
                                snapshot |-> analyzer.snapshot]
  OBVIOUS
<1>3. /\ WorkerInv /\ RetainsInv /\ ClosedInv /\ SnapshotsInv /\ ChainInv /\ SamplesInv
      /\ TakenInv
  BY DEF PipelineInv
<1>4. /\ worker.pc = "reading" /\ Messages' = Append(Messages, message) /\ Sequence(pipe')
      /\ worker' = [worker EXCEPT !.batch = << >>, !.beacons = << >>,
                                  !.pc = IF eof THEN "ended" ELSE @]
      /\ UNCHANGED <<delivered, analyzer, taken, loop, rows, beacons, cu, stamped, shown>>
  <2>1. /\ worker.pc = "reading" /\ pipe' = Append(pipe, message)
        /\ worker' = [worker EXCEPT !.batch = << >>, !.beacons = << >>,
                                    !.pc = IF eof THEN "ended" ELSE @]
        /\ UNCHANGED <<delivered, analyzer, taken, loop, rows, beacons, cu, stamped, shown>>
    BY <1>1, <1>2 DEF EndBatch, Sent
  <2> QED BY <1>3, <2>1, Sends
<1>5. NextOpen \in Int /\ NextOpen' = NextOpen
  <2>1. NextOpen \in Nat
    BY <1>3, NextOpenIsNat
  <2> QED BY <1>4, <2>1 DEF NextOpen
<1>6. worker' = [pc |-> IF eof THEN "ended" ELSE "reading", partial |-> worker.partial,
                 batch |-> << >>, beacons |-> << >>]
  <2>1. PICK w : w = worker
    OBVIOUS
  <2>2. w = [pc |-> w.pc, partial |-> w.partial, batch |-> w.batch, beacons |-> w.beacons]
          /\ w.pc = "reading"
    BY <1>3, <1>4, <2>1 DEF WorkerInv
  <2>3. worker' = [w EXCEPT !.batch = << >>, !.beacons = << >>, !.pc = "reading"]
    BY <1>1, <1>4, <2>1, <2>2
  <2> QED BY <1>1, <2>1, <2>2, <2>3
<1>7. /\ Sequence(worker.batch)
      /\ \A j \in DOMAIN worker.batch :
           worker.batch[j].second = (NextOpen - 1 - Len(worker.batch)) + j
  BY <1>3 DEF ChainInv
<1>8. \A s \in ToSet(worker.batch) :
        /\ s.second \in Int /\ Exact(s) /\ StartOf(s.second + 1) + Grace < Now
  <2>1. \A s \in ToSet(worker.batch) : s \in Samples
    BY SampleIsIn DEF Samples
  <2> QED BY <1>3, <1>4, <2>1 DEF SamplesInv
<1>9. /\ Upto(analyzer.snapshot) = Later(NextOpen - 1, 0) /\ Windowed(analyzer.snapshot)
      /\ analyzer'.snapshot = analyzer.snapshot
  BY <1>3, <1>4 DEF SnapshotsInv
<1>10. /\ message.stats = Visible(worker.batch, worker.partial)
       /\ message.beacons = worker.beacons /\ message.eof = eof
       /\ message.snapshot = analyzer.snapshot
       /\ message = [stats |-> message.stats, beacons |-> message.beacons,
                     eof |-> message.eof, snapshot |-> message.snapshot]
  BY <1>2
<1>11. Sending(worker.batch, eof, message)
  <2>1. delivered # << >>
    BY DEF EndBatch
  <2> QED BY <1>4, <1>5, <1>6, <1>7, <1>8, <1>9, <1>10, <2>1 DEF Sending
<1>12. RetainsInv' /\ ClosedInv'
  <2>1. delivered' = delivered /\ analyzer' = analyzer
    BY <1>4
  <2>2. RetainsInv'
    BY <1>3, <2>1 DEF RetainsInv, Now, In
  <2>3. ClosedInv'
    BY <1>3, <2>1 DEF ClosedInv, Now
  <2> QED BY <2>2, <2>3
<1> QED BY <1>1, <1>11, <1>12, SendStep

\* What the end of the capture closes, and the analyzer after it.
LEMMA Finishing ==
  ASSUME FramesInv, ClosedInv, RetainsInv, SnapshotsInv, delivered # << >>,
         NEW stats, stats = Published(analyzer, Ended),
         analyzer' = AfterPublish(analyzer, Ended), delivered' = delivered
  PROVE  /\ Sequence(stats) /\ NextOpen' = Second(Now) /\ analyzer'.next = Second(Now)
         /\ Len(stats) = Second(Now) - NextOpen
         /\ \A k \in DOMAIN stats :
              stats[k] = Stats(analyzer, NextOpen + k - 1)
         /\ RetainsInv' /\ ClosedInv'
         /\ Upto(analyzer'.snapshot) = Later(NextOpen' - 1, 0)
         /\ Windowed(analyzer'.snapshot)
<1>1. PICK a : a = analyzer
  OBVIOUS
<1>2. PICK b : b = analyzer'
  OBVIOUS
<1>3. PICK n : n = NextOpen
  OBVIOUS
<1>4. PICK m : m = Second(Now)
  OBVIOUS
<1>5. /\ Now \in Nat /\ m \in Int /\ LastClosed(Now) \in Int /\ LastClosed(Now) <= m
  <2>1. Now \in Int /\ Now \in Nat
    BY NewestTime
  <2> QED BY <1>4, <2>1, SecondOf, ClosedSeconds
<1>6. /\ AnalyzerShape(a) /\ Open(a) /\ a.next = n /\ n \in Nat /\ n <= m
      /\ a.reference = Now /\ a.start = 1 /\ a.ready = {}
      /\ OfSeconds(a.history, Later(1, n - Window), n)
  BY <1>1, <1>3, <1>4 DEF ClosedInv, NextOpen
<1>7. m \in Nat
  BY <1>5, <1>6
<1>8. Opened(a, Ended) = m
  <2>1. Opened(a, Ended) = Later(n, m)
    BY <1>4, <1>6 DEF Opened, Ended
  <2> QED BY <1>6, <1>7, <2>1 DEF Later
<1>9. OfSeconds(a.ready, n, n)
  <2>1. \A s \in n..(n - 1) : FALSE
    BY <1>6
  <2> QED BY <1>6, <2>1 DEF OfSeconds
<1>10. PICK first : first = Later(1, m - Window)
  OBVIOUS
<1>11. /\ stats \in Seq(Awaiting(a, m)) /\ Len(stats) = m - n
       /\ \A k \in 1..(m - n) : stats[k].second = n + k - 1
       /\ AnalyzerShape(b) /\ Open(b)
       /\ b.next = m /\ b.ready = {} /\ b.reference = a.reference /\ b.start = a.start
       /\ OfSeconds(b.history, first, m)
       /\ b.records \subseteq a.records
       /\ \A r \in a.records : r.time >= RetainedFrom(a.reference) => r \in b.records
       /\ \A s : s >= Second(RetainedFrom(a.reference)) => Bucket(b, s) = Bucket(a, s)
       /\ n = m => b.snapshot = a.snapshot
       /\ n # m => /\ b.snapshot.current = m - 1
                   /\ DOMAIN b.snapshot.history = 1..(m - first)
                   /\ \A k \in 1..(m - first) :
                        b.snapshot.history[k].second = first + k - 1
  <2>1. stats = Published(a, Ended) /\ b = AfterPublish(a, Ended)
    BY <1>1, <1>2
  <2>2. a.next \in Int /\ a.reference \in Int /\ a.start \in Int /\ n \in Int
    BY <1>5, <1>6
  <2>3. m = Opened(a, Ended) /\ m <= Second(a.reference)
    BY <1>4, <1>5, <1>6, <1>8
  <2>4. n <= a.next /\ a.start <= n + 1
    BY <1>6
  <2>5. OfSeconds(a.ready, n, a.next) /\ OfSeconds(a.history, Later(a.start, n - Window), n)
    BY <1>6, <1>9
  <2>6. first = Later(a.start, m - Window)
    BY <1>6, <1>10
  <2>7. AnalyzerShape(a) /\ Open(a)
    BY <1>6
  <2> HIDE DEF Ended
  <2> QED BY <2>1, <2>2, <2>3, <2>4, <2>5, <2>6, <2>7, Publishing
<1>12. Sequence(stats) /\ DOMAIN stats = 1..(m - n)
  BY <1>11, IsSequence, Positions
<1>13. ASSUME NEW k \in 1..(m - n)
       PROVE  stats[k] = Stats(a, n + k - 1)
  <2>1. stats[k] \in Awaiting(a, m)
    BY <1>11, <1>13
  <2>2. PICK s \in n..(m - 1) : stats[k] = Stats(a, s)
    BY <1>6, <2>1 DEF Awaiting, Made
  <2>3. stats[k].second = s /\ stats[k].second = n + k - 1
    BY <1>11, <2>2, StatsSecond
  <2> QED BY <2>2, <2>3
<1>14. NextOpen' = m /\ Now' = Now
  BY <1>2, <1>11 DEF NextOpen, Now
<1>15. RetainsInv'
  <2>1. ASSUME NEW s \in Int PROVE In(s)' = In(s)
    BY DEF In
  <2>2. \A r \in b.records : \E i \in DOMAIN delivered : delivered[i].beacon /\ r = delivered[i]
    BY <1>1, <1>11 DEF RetainsInv
  <2>3. ASSUME NEW i \in DOMAIN delivered, delivered[i].beacon,
               delivered[i].time >= RetainedFrom(Now)
        PROVE  delivered[i] \in b.records
    BY <1>1, <1>6, <1>11, <2>3 DEF RetainsInv
  <2>4. ASSUME NEW s \in Int, s >= Second(RetainedFrom(Now))
        PROVE  Bucket(b, s) = Cardinality(In(s))
    BY <1>1, <1>6, <1>11, <2>4 DEF RetainsInv
  <2> QED BY <1>2, <1>14, <2>1, <2>2, <2>3, <2>4 DEF RetainsInv
<1>16. ClosedInv'
  BY <1>2, <1>4, <1>5, <1>6, <1>7, <1>10, <1>11, <1>14 DEF ClosedInv
<1>17. /\ Upto(b.snapshot) = Later(m - 1, 0)
       /\ Windowed(b.snapshot)
  <2>1. CASE n = m
    BY <1>1, <1>3, <1>11, <2>1 DEF SnapshotsInv
  <2>2. CASE n # m
    <3>1. m > 0
      BY <1>6, <1>7, <2>2
    <3>2. PICK snapshot : snapshot = b.snapshot
      OBVIOUS
    <3>3. PICK history : history = snapshot.history
      OBVIOUS
    <3>4. snapshot.current = m - 1 /\ DOMAIN history = 1..(m - first)
      BY <1>11, <2>2, <3>2, <3>3
    <3>5. \A k \in DOMAIN history : history[k].second = first + k - 1
      BY <1>11, <2>2, <3>2, <3>3
    <3>6. Upto(snapshot) = Later(m - 1, 0) /\ Windowed(snapshot)
      BY <1>7, <1>10, <3>1, <3>3, <3>4, <3>5, TakenSnapshot, Zenon
    <3> QED BY <3>2, <3>6
  <2> QED BY <2>1, <2>2
<1> QED BY <1>1, <1>2, <1>3, <1>4, <1>11, <1>12, <1>13, <1>14, <1>15, <1>16, <1>17

\* Before there is a frame there is nothing to close.
LEMMA NothingToFinish ==
  ASSUME ClosedInv, delivered = << >>
  PROVE  Published(analyzer, Ended) = << >> /\ AfterPublish(analyzer, Ended) = analyzer
<1>1. analyzer.reference = None
  BY DEF ClosedInv, NewAnalyzer
<1> QED BY <1>1 DEF Published, AfterPublish

LEMMA EofStep ==
  ASSUME PipelineInv, Eof
  PROVE  PipelineInv'
<1>1. PICK eof : eof = TRUE
  OBVIOUS
<1>2. PICK stats : stats = Published(analyzer, Ended)
  OBVIOUS
<1>3. PICK message : message = [stats |-> Visible(stats, worker.partial),
                                beacons |-> worker.beacons, eof |-> eof,
                                snapshot |-> AfterPublish(analyzer, Ended).snapshot]
  OBVIOUS
<1>4. /\ FramesInv /\ WorkerInv /\ RetainsInv /\ ClosedInv /\ SnapshotsInv /\ ChainInv
      /\ SamplesInv /\ TakenInv
  BY DEF PipelineInv
<1>5. /\ worker.pc = "reading" /\ worker.batch = << >>
      /\ Messages' = Append(Messages, message) /\ Sequence(pipe')
      /\ analyzer' = AfterPublish(analyzer, Ended)
      /\ worker' = [worker EXCEPT !.batch = << >>, !.beacons = << >>,
                                  !.pc = IF eof THEN "ended" ELSE @]
      /\ UNCHANGED <<delivered, taken, loop, rows, beacons, cu, stamped, shown>>
  <2> HIDE DEF Ended
  <2>1. /\ worker.pc = "reading" /\ worker.batch = << >> /\ pipe' = Append(pipe, message)
        /\ analyzer' = AfterPublish(analyzer, Ended)
        /\ worker' = [worker EXCEPT !.batch = << >>, !.beacons = << >>,
                                    !.pc = IF eof THEN "ended" ELSE @]
        /\ UNCHANGED <<delivered, taken, loop, rows, beacons, cu, stamped, shown>>
    BY <1>1, <1>2, <1>3 DEF Eof, Sent
  <2> QED BY <1>4, <2>1, Sends
<1>6. worker' = [pc |-> IF eof THEN "ended" ELSE "reading", partial |-> worker.partial,
                 batch |-> << >>, beacons |-> << >>]
  <2>1. PICK w : w = worker
    OBVIOUS
  <2>2. w = [pc |-> w.pc, partial |-> w.partial, batch |-> w.batch, beacons |-> w.beacons]
    BY <1>4, <2>1 DEF WorkerInv
  <2>3. worker' = [w EXCEPT !.batch = << >>, !.beacons = << >>, !.pc = "ended"]
    BY <1>1, <1>5, <2>1, <2>2
  <2> QED BY <1>1, <2>1, <2>2, <2>3
<1>7. /\ message.stats = Visible(stats, worker.partial)
      /\ message.beacons = worker.beacons /\ message.eof = eof
      /\ message.snapshot = analyzer'.snapshot
      /\ message = [stats |-> message.stats, beacons |-> message.beacons,
                    eof |-> message.eof, snapshot |-> message.snapshot]
  BY <1>3, <1>5
<1>8. PICK n : n = NextOpen
  OBVIOUS
<1>9. PICK m : m = NextOpen'
  OBVIOUS
<1>10. n \in Nat /\ Len(worker.batch) = 0
  <2>1. Len(<< >>) = 0
    OBVIOUS
  <2> QED BY <1>4, <1>5, <1>8, <2>1, NextOpenIsNat
<1>11. /\ Sequence(stats) /\ m \in Int /\ Len(stats) = m - n
       /\ \A k \in DOMAIN stats : stats[k] = Stats(analyzer, n + k - 1)
       /\ RetainsInv' /\ ClosedInv'
       /\ Upto(analyzer'.snapshot) = Later(m - 1, 0)
       /\ Windowed(analyzer'.snapshot)
       /\ eof => (delivered # << >> => analyzer'.next = Second(Now))
  <2>1. CASE delivered # << >>
    <3>1. /\ Sequence(stats) /\ m = Second(Now) /\ analyzer'.next = Second(Now)
          /\ Len(stats) = Second(Now) - n
          /\ \A k \in DOMAIN stats : stats[k] = Stats(analyzer, n + k - 1)
          /\ RetainsInv' /\ ClosedInv'
          /\ Upto(analyzer'.snapshot) = Later(NextOpen' - 1, 0)
          /\ Windowed(analyzer'.snapshot)
      BY <1>2, <1>4, <1>5, <1>8, <1>9, <2>1, Finishing
    <3>2. Second(Now) \in Int
      <4>1. Now \in Int
        BY <1>4, NewestTime
      <4> QED BY <4>1, SecondOf
    <3> QED BY <1>9, <3>1, <3>2
  <2>2. CASE delivered = << >>
    <3>1. stats = << >> /\ analyzer' = analyzer /\ delivered' = delivered
      BY <1>2, <1>4, <1>5, <2>2, NothingToFinish
    <3>2. m = n
      BY <1>8, <1>9, <3>1 DEF NextOpen
    <3>3. RetainsInv'
      BY <1>4, <3>1 DEF RetainsInv, Now, In
    <3>4. ClosedInv'
      BY <1>4, <3>1 DEF ClosedInv, Now
    <3>5. Sequence(stats) /\ DOMAIN stats = {} /\ Len(stats) = 0
      <4>1. << >> \in Seq({}) /\ DOMAIN << >> = {} /\ Len(<< >>) = 0
        OBVIOUS
      <4> QED BY <3>1, <4>1, IsSequence
    <3>6. Upto(analyzer'.snapshot) = Later(m - 1, 0) /\ Windowed(analyzer'.snapshot)
      BY <1>4, <1>8, <3>1, <3>2 DEF SnapshotsInv
    <3>7. m \in Int /\ 0 = m - n
      BY <1>10, <3>2
    <3> QED BY <2>2, <3>3, <3>4, <3>5, <3>6, <3>7
  <2> QED BY <2>1, <2>2
<1>12. DOMAIN stats = 1..(m - n)
  BY <1>11, Positions
<1>13. m - 1 - Len(stats) = n - 1 - Len(worker.batch)
         /\ m - 1 - Len(stats) = n - 1
  BY <1>10, <1>11
<1>14. \A j \in DOMAIN stats : stats[j].second = (m - 1 - Len(stats)) + j
  <2> SUFFICES ASSUME NEW j \in 1..(m - n)
               PROVE  stats[j].second = (m - 1 - Len(stats)) + j
    BY <1>12
  <2>1. stats[j].second = n + j - 1
    BY <1>11, <1>12, StatsSecond
  <2>2. n + j - 1 = (n - 1) + j
    BY <1>10
  <2> QED BY <1>13, <2>1, <2>2
<1>15. ASSUME NEW s \in ToSet(stats)
       PROVE  s.second \in Int /\ Exact(s)
  <2>1. PICK k \in 1..(m - n) : s = Stats(analyzer, n + k - 1)
    BY <1>11, <1>12 DEF ToSet
  <2>2. n + k - 1 \in Int /\ n + k - 1 >= n
    BY <1>10
  <2>3. Exact(Stats(analyzer, n + k - 1))
    BY <1>4, <1>8, <2>2, MadeExact
  <2> HIDE DEF Exact
  <2> QED BY <2>1, <2>2, <2>3, StatsSecond
<1>16. Sending(stats, eof, message)
  <2> HIDE DEF Exact
  <2>1. /\ NextOpen' \in Int /\ NextOpen \in Int
        /\ NextOpen' - 1 - Len(stats) = NextOpen - 1 - Len(worker.batch)
        /\ \A j \in DOMAIN stats : stats[j].second = (NextOpen' - 1 - Len(stats)) + j
        /\ Upto(analyzer'.snapshot) = Later(NextOpen' - 1, 0)
    <3>1. m \in Int /\ n \in Int
      BY <1>10, <1>11
    <3>2. m - 1 - Len(stats) = n - 1 - Len(worker.batch)
      BY <1>13
    <3>3. Upto(analyzer'.snapshot) = Later(m - 1, 0)
      BY <1>11
    <3>4. \A j \in DOMAIN stats : stats[j].second = (NextOpen' - 1 - Len(stats)) + j
      BY <1>9, <1>14, Zenon
    <3> QED BY <1>8, <1>9, <3>1, <3>2, <3>3, <3>4, Zenon
  <2>2. ASSUME delivered = << >>
        PROVE  stats = << >> /\ worker.partial = None
    BY <1>2, <1>4, <2>2, NothingToFinish DEF WorkerInv
  <2> QED BY <1>1, <1>5, <1>6, <1>7, <1>11, <1>15, <2>1, <2>2 DEF Sending
<1> QED BY <1>1, <1>11, <1>16, SendStep

-----------------------------------------------------------------------------
(* Taking in a message.                                                    *)

\* The message that comes next, in numbers: its samples are those of the
\* seconds after the rows, and its snapshot goes up to the last of them.
First(message, count, size) ==
  /\ count \in Nat /\ size \in Nat /\ DOMAIN rows = 1..count
  /\ Sequence(message.stats) /\ DOMAIN message.stats = 1..size
  /\ \A j \in 1..size : message.stats[j].second = count + j
  /\ Before(1) = count /\ Before(2) = count + size
  /\ Windowed(message.snapshot) /\ Upto(message.snapshot) = count + size

LEMMA FirstMessage ==
  ASSUME SnapshotsInv, ChainInv, Messages # << >>,
         NEW message, message = Messages[1], NEW count, count = Len(rows),
         NEW size, size = Len(message.stats)
  PROVE  First(message, count, size)
<1>1. Sequence(Messages) /\ Sequence(rows)
  BY DEF SnapshotsInv, ChainInv
<1>2. 1 \in DOMAIN Messages
  <2>1. /\ Len(Messages) \in Nat /\ DOMAIN Messages = 1..Len(Messages)
        /\ Len(Messages) = 0 => Messages = << >>
    BY <1>1, Positions
  <2> QED BY <2>1
<1>3. /\ Sequence(message.stats) /\ Before(1 + 1) = Before(1) + Len(message.stats)
      /\ \A j \in DOMAIN message.stats : message.stats[j].second = Before(1) + j
  BY <1>2 DEF ChainInv
<1>4. Before(1) = count
  BY DEF Before
<1>5. Before(2) = Upto(message.snapshot) /\ Before(2) = count + size
  <2>1. 1 + 1 = 2
    OBVIOUS
  <2>2. Before(2) = Before(1) + size
    BY <1>3, <2>1
  <2> QED BY <1>4, <2>2 DEF Before
<1>6. Windowed(message.snapshot)
  BY <1>2 DEF SnapshotsInv
<1>7. count \in Nat /\ size \in Nat /\ DOMAIN rows = 1..count /\ DOMAIN message.stats = 1..size
  BY <1>1, <1>3, Positions
<1>8. \A j \in 1..size : message.stats[j].second = count + j
  BY <1>3, <1>4, <1>7
<1> QED BY <1>3, <1>4, <1>5, <1>6, <1>7, <1>8 DEF First

\* Steps that move no frame, sample or beacon: the worker may only die.
LEMMA Untouched ==
  ASSUME PipelineInv, UNCHANGED <<delivered, analyzer, Messages, rows, beacons>>,
         worker' = [pc |-> worker'.pc, partial |-> worker.partial, batch |-> worker.batch,
                    beacons |-> worker.beacons],
         worker'.pc \in {worker.pc, "dead"}, TakenInv', PaintedInv', EofInv'
  PROVE  PipelineInv'
<1>1. /\ FramesInv /\ WorkerInv /\ RetainsInv /\ ClosedInv /\ SnapshotsInv
      /\ ChainInv /\ SamplesInv /\ BeaconsInv
  BY DEF PipelineInv
<1>2. /\ worker'.partial = worker.partial /\ worker'.batch = worker.batch
      /\ worker'.beacons = worker.beacons
  OBVIOUS
<1>3. FramesInv'
  BY <1>1 DEF FramesInv
<1>4. WorkerInv'
  BY <1>1, <1>2 DEF WorkerInv
<1>5. RetainsInv'
  BY <1>1 DEF RetainsInv, Now, In
<1>6. ClosedInv'
  BY <1>1 DEF ClosedInv, Now
<1>7. SnapshotsInv'
  BY <1>1 DEF SnapshotsInv, NextOpen, Windowed, Upto, Oldest
<1>8. ChainInv'
  BY <1>1, <1>2 DEF ChainInv, NextOpen, Before, Upto
<1>9. SamplesInv'
  <2>1. Samples' = Samples
    BY <1>2 DEF Samples
  <2>2. ASSUME NEW s, Exact(s)
        PROVE  Exact(s)'
    BY <2>2 DEF Exact, In, BeaconsIn, Senders
  <2>3. Now' = Now
    BY DEF Now
  <2>4. worker'.pc = "reading" => worker.pc = "reading"
    OBVIOUS
  <2> HIDE DEF Samples, Exact
  <2> QED BY <1>1, <2>1, <2>2, <2>3, <2>4 DEF SamplesInv
<1>11. BeaconsInv'
  <2>1. Places' = Places
    BY <1>2 DEF Places
  <2>2. Beacons' = Beacons
    BY DEF Beacons
  <2> QED BY <1>1, <2>1, <2>2 DEF BeaconsInv
<1>12. EmptyInv'
  BY DEF PipelineInv, EmptyInv
<1> QED BY <1>3, <1>4, <1>5, <1>6, <1>7, <1>8, <1>9, <1>11, <1>12 DEF PipelineInv

\* A change of run_live's pc.
LEMMA SameLoop ==
  ASSUME EofInv, NEW pc, loop' = [loop EXCEPT !.pc = pc]
  PROVE  loop' = [pc |-> pc, failed |-> loop.failed]
<1>1. PICK end : end = loop
  OBVIOUS
<1>2. end = [pc |-> end.pc, failed |-> end.failed]
  BY <1>1 DEF EofInv
<1>3. [end EXCEPT !.pc = pc] = [pc |-> pc, failed |-> end.failed]
  BY <1>2
<1> QED BY <1>1, <1>3

\* recv(): the message is the loop's now, and its seconds have readings.
LEMMA ReceiveStep ==
  ASSUME PipelineInv, Receive
  PROVE  PipelineInv'
<1>0. /\ WorkerInv /\ SnapshotsInv /\ ChainInv /\ TakenInv /\ PaintedInv /\ EofInv
  BY DEF PipelineInv
<1>1. /\ loop.pc = "looping" /\ pipe # << >>
      /\ taken' = <<Head(pipe)>> /\ pipe' = Tail(pipe)
      /\ loop' = [loop EXCEPT !.pc = "publishing"]
      /\ UNCHANGED <<delivered, worker, analyzer, rows, beacons, cu, shown>>
  BY DEF Receive
<1>2. PICK message : message = Head(pipe)
  OBVIOUS
<1>3. taken = << >> /\ Messages = pipe /\ Sequence(pipe)
  BY <1>0, <1>1, MessagesAre DEF TakenInv
<1>4. /\ Messages' = Messages /\ message = Messages[1] /\ Sequence(pipe')
      /\ Len(pipe) \in Nat \ {0}
  <2>1. /\ Sequence(Tail(pipe)) /\ Len(Tail(pipe)) = Len(pipe) - 1
        /\ DOMAIN Tail(pipe) = 1..(Len(pipe) - 1)
        /\ Head(pipe) = pipe[1]
    BY <1>1, <1>3, Dropping
  <2>2. pipe \in Seq(ToSet(pipe))
    BY <1>3 DEF Sequence
  <2>3. <<Head(pipe)>> \o Tail(pipe) = pipe
    <3>1. PICK S : S = ToSet(pipe)
      OBVIOUS
    <3> QED BY <1>1, <2>2, <3>1
  <2>4. Len(pipe) \in Nat \ {0}
    BY <1>1, <2>2
  <2> QED BY <1>1, <1>2, <1>3, <2>1, <2>3, <2>4 DEF Messages
<1>5. Sequence(taken') /\ Len(taken') = 1
  <2>1. <<message>> \in Seq({message}) /\ Len(<<message>>) = 1
    OBVIOUS
  <2> QED BY <1>1, <1>2, <2>1, IsSequence
<1>6. loop' = [pc |-> "publishing", failed |-> loop.failed]
  BY <1>0, <1>1, SameLoop
<1>7. PICK pc : pc = loop'.pc
  OBVIOUS
<1>8. pc = "publishing" /\ loop' = [pc |-> loop'.pc, failed |-> loop'.failed]
  BY <1>6, <1>7
<1>9. TakenInv'
  BY <1>0, <1>4, <1>5, <1>7, <1>8 DEF TakenInv
<1>10. EofInv'
  BY <1>0, <1>1, <1>4, <1>7, <1>8 DEF EofInv, Now
<1>11. PICK count : count = Len(rows)
  OBVIOUS
<1>12. PICK size : size = Len(message.stats)
  OBVIOUS
<1>13. /\ count \in Nat /\ size \in Nat /\ DOMAIN rows = 1..count
       /\ DOMAIN message.stats = 1..size
       /\ \A j \in 1..size : message.stats[j].second = count + j
       /\ Before(1) = count /\ Before(2) = count + size
  <2>1. Messages # << >>
    BY <1>1, <1>3
  <2>2. First(message, count, size)
    BY <1>0, <1>4, <1>11, <1>12, <2>1, FirstMessage
  <2> QED BY <2>2 DEF First
<1>14. Read' = count + size
  <2>1. Len(taken') + 1 = 2
    BY <1>5
  <2>2. Read' = Before(2)'
    BY <2>1 DEF Read
  <2>3. Before(2)' = Before(2)
    BY <1>1, <1>4 DEF Before, Upto
  <2> QED BY <1>13, <2>2, <2>3
<1>15. PICK seconds : seconds = {s.second : s \in ToSet(message.stats)}
  OBVIOUS
<1>16. stamped' = [s \in DOMAIN stamped \cup seconds |->
                     IF s \in seconds THEN cu.latest ELSE stamped[s]]
  BY <1>2, <1>15 DEF Receive
<1>17. \A i : i \in seconds <=> i \in (count + 1)..(count + size)
  <2>1. ASSUME NEW i \in seconds
        PROVE  i \in (count + 1)..(count + size)
    <3>1. PICK j \in 1..size : i = message.stats[j].second
      BY <1>13, <1>15 DEF ToSet
    <3> QED BY <1>13, <3>1
  <2>2. ASSUME NEW i \in (count + 1)..(count + size)
        PROVE  i \in seconds
    <3>1. PICK j : j = i - count
      OBVIOUS
    <3>2. j \in 1..size /\ i = count + j
      BY <1>13, <3>1
    <3>3. message.stats[j].second = i /\ message.stats[j] \in ToSet(message.stats)
      BY <1>13, <3>2 DEF ToSet
    <3> QED BY <1>15, <3>3
  <2> QED BY <2>1, <2>2
<1>18. DOMAIN stamped = 1..count
  <2>1. Len(taken) + 1 = 1
    BY <1>3
  <2>2. Read = count
    BY <1>13, <2>1 DEF Read
  <2> QED BY <1>0, <2>2 DEF PaintedInv
<1>19. DOMAIN stamped' = 1..(count + size)
  <2>1. DOMAIN stamped' = DOMAIN stamped \cup seconds
    BY <1>16
  <2> QED BY <1>13, <1>17, <1>18, <2>1
<1>20. \A i \in 1..count : stamped'[i] = rows[i].cu
  <2> SUFFICES ASSUME NEW i \in 1..count PROVE stamped'[i] = rows[i].cu
    OBVIOUS
  <2>1. i \notin seconds /\ i \in DOMAIN stamped
    BY <1>13, <1>17, <1>18
  <2>2. stamped'[i] = stamped[i]
    BY <1>16, <2>1
  <2>3. stamped[i] = rows[i].cu
    BY <1>0, <1>13 DEF PaintedInv
  <2> QED BY <2>2, <2>3
<1>21. \A i \in 1..(count + size) : i > count => stamped'[i] = cu.latest
  <2> SUFFICES ASSUME NEW i \in 1..(count + size), i > count PROVE stamped'[i] = cu.latest
    OBVIOUS
  <2>1. count \in Nat /\ size \in Nat
    BY <1>13
  <2>2. i \in (count + 1)..(count + size)
    BY <2>1
  <2>3. i \in seconds
    BY <1>17, <2>2
  <2> QED BY <1>16, <2>3
<1>22. PaintedInv'
  <2>1. taken = << >>
    BY <1>3
  <2> QED BY <1>0, <1>1, <1>11, <1>13, <1>14, <1>19, <1>20, <1>21, <2>1
          DEF PaintedInv, Upto, Oldest
<1>23. /\ worker' = [pc |-> worker'.pc, partial |-> worker.partial, batch |-> worker.batch,
                     beacons |-> worker.beacons]
       /\ worker'.pc = worker.pc
  BY <1>0, <1>1 DEF WorkerInv
<1> QED BY <1>1, <1>4, <1>9, <1>10, <1>22, <1>23, Untouched

\* The snapshot with the readings of its rows replaces the one before.
LEMMA PaintStep ==
  ASSUME PipelineInv, Paint
  PROVE  PipelineInv'
<1>0. /\ WorkerInv /\ SnapshotsInv /\ ChainInv /\ TakenInv /\ PaintedInv /\ EofInv
  BY DEF PipelineInv
<1>1. /\ loop.pc = "publishing" /\ taken[1].stats = << >>
      /\ loop' = [loop EXCEPT !.pc = "recording"]
      /\ UNCHANGED <<delivered, worker, analyzer, pipe, taken, rows, beacons, cu, stamped>>
      /\ shown'.history = Patched(taken[1].snapshot.history)
      /\ shown'.current = taken[1].snapshot.current
  BY DEF Paint
<1>2. PICK message : message = taken[1]
  OBVIOUS
<1>3. Messages' = Messages
  BY <1>1 DEF Messages
<1>4. Len(taken) = 1 /\ message = Messages[1] /\ Messages # << >>
  <2>1. Len(taken) = 1
    BY <1>0, <1>1 DEF TakenInv
  <2>2. /\ Len(Messages) = Len(taken) + Len(pipe) /\ Len(pipe) \in Nat
        /\ \A k \in 1..Len(taken) : Messages[k] = taken[k]
    BY <1>0, MessagesAre
  <2>3. Len(<< >>) = 0
    OBVIOUS
  <2> QED BY <1>2, <2>1, <2>2, <2>3
<1>5. loop' = [pc |-> "recording", failed |-> loop.failed]
  BY <1>0, <1>1, SameLoop
<1>6. loop'.pc = "recording" /\ loop' = [pc |-> loop'.pc, failed |-> loop'.failed]
  BY <1>5
<1>7. TakenInv'
  BY <1>0, <1>1, <1>3, <1>4, <1>6 DEF TakenInv
<1>8. EofInv'
  BY <1>0, <1>1, <1>3, <1>6 DEF EofInv, Now
<1>9. PICK last : last = Len(rows)
  OBVIOUS
<1>10. PICK size : size = Len(message.stats)
  OBVIOUS
<1>11. /\ last \in Nat /\ DOMAIN rows = 1..last
       /\ Windowed(message.snapshot) /\ Upto(message.snapshot) = last
       /\ Before(2) = last
  <2>1. size = 0
    <3>1. Len(<< >>) = 0
      OBVIOUS
    <3> QED BY <1>1, <1>2, <1>10, <3>1
  <2>2. First(message, last, size)
    BY <1>0, <1>4, <1>9, <1>10, FirstMessage
  <2> QED BY <2>1, <2>2 DEF First
<1>12. PICK history : history = message.snapshot.history
  OBVIOUS
<1>13. last \in Nat /\ Oldest(last) \in Int /\ Oldest(last) >= 1
  BY <1>11, AnalyzerAssumption DEF Oldest, Later
<1>14. /\ DOMAIN history = 1..(last + 1 - Oldest(last))
       /\ \A k \in DOMAIN history : history[k].second = Oldest(last) + k - 1
  BY <1>11, <1>12 DEF Windowed
<1>15. /\ Read = last /\ Read' = Read
       /\ DOMAIN stamped = 1..last /\ \A i \in 1..last : stamped[i] = rows[i].cu
  <2>1. Len(taken) + 1 = 2
    BY <1>4
  <2>2. Read = last
    BY <1>11, <2>1 DEF Read
  <2>3. Read' = Read
    BY <1>1, <1>3 DEF Read, Before, Upto
  <2> QED BY <1>0, <1>11, <2>2, <2>3 DEF PaintedInv
<1>16. /\ DOMAIN shown'.history = DOMAIN history
       /\ shown'.history = [k \in DOMAIN shown'.history |-> shown'.history[k]]
       /\ \A k \in DOMAIN history :
            shown'.history[k] =
              [second |-> history[k].second,
               cu |-> IF history[k].second \in DOMAIN stamped THEN stamped[history[k].second]
                      ELSE None]
  BY <1>1, <1>2, <1>12 DEF Patched
<1>17. ASSUME NEW k \in DOMAIN history
       PROVE  shown'.history[k] = [second |-> Oldest(last) + k - 1,
                                   cu |-> rows[Oldest(last) + k - 1].cu]
  <2>1. PICK i : i = Oldest(last) + k - 1
    OBVIOUS
  <2>2. i \in 1..last
    BY <1>13, <1>14, <2>1
  <2>3. history[k].second = i
    BY <1>14, <2>1
  <2>4. shown'.history[k] = [second |-> i, cu |-> rows[i].cu]
    BY <1>15, <1>16, <2>2, <2>3
  <2> QED BY <2>1, <2>4
<1>18. Upto(shown') = last
  BY <1>1, <1>2, <1>11 DEF Upto
<1>19. PaintedInv'
  <2>1. \A i \in DOMAIN stamped' : ~(i > Len(rows'))
    BY <1>1, <1>9, <1>11, <1>15
  <2>2. DOMAIN stamped' = 1..Read'
    BY <1>1, <1>15
  <2>3. \A i \in DOMAIN rows' : stamped'[i] = rows'[i].cu
    BY <1>1, <1>11, <1>15
  <2>4. Upto(shown') \in Nat /\ Upto(shown') = Len(rows')
    BY <1>1, <1>9, <1>11, <1>18
  <2>5. Upto(shown)' = Upto(shown')
    BY DEF Upto
  <2>7. /\ DOMAIN shown'.history = 1..(last + 1 - Oldest(last))
        /\ \A k \in DOMAIN shown'.history :
             shown'.history[k] = [second |-> Oldest(last) + k - 1,
                                  cu |-> rows'[Oldest(last) + k - 1].cu]
    BY <1>1, <1>14, <1>16, <1>17
  <2> QED BY <1>16, <1>18, <2>1, <2>2, <2>3, <2>4, <2>5, <2>7 DEF PaintedInv, Oldest
<1>20. /\ worker' = [pc |-> worker'.pc, partial |-> worker.partial, batch |-> worker.batch,
                     beacons |-> worker.beacons]
       /\ worker'.pc = worker.pc
  BY <1>0, <1>1 DEF WorkerInv
<1> QED BY <1>1, <1>3, <1>7, <1>8, <1>19, <1>20, Untouched

\* What is left of the message that is being taken in replaces it.
Replaced(message, rest) ==
  /\ Sequence(Messages) /\ Len(Messages) \in Nat \ {0} /\ DOMAIN Messages = 1..Len(Messages)
  /\ Sequence(Messages') /\ Len(Messages') = Len(Messages) /\ DOMAIN Messages' = 1..Len(Messages)
  /\ message = taken[1] /\ message = Messages[1] /\ rest = taken'[1] /\ rest = Messages'[1]
  /\ \A k \in 2..Len(Messages) : Messages'[k] = Messages[k]
  /\ rest = [stats |-> rest.stats, beacons |-> rest.beacons, eof |-> message.eof,
             snapshot |-> message.snapshot]
  /\ Len(taken) = 1 /\ Sequence(taken') /\ Len(taken') = 1
  /\ pipe' = pipe /\ Sequence(pipe)
  /\ UNCHANGED <<delivered, worker, analyzer, loop, cu, stamped, shown>>

LEMMA Replaces ==
  ASSUME TakenInv, Len(taken) = 1, NEW message, message = taken[1],
         NEW stats, NEW held,
         NEW rest, rest = [stats |-> stats, beacons |-> held, eof |-> message.eof,
                           snapshot |-> message.snapshot],
         taken' = <<rest>>, pipe' = pipe,
         UNCHANGED <<delivered, worker, analyzer, loop, cu, stamped, shown>>
  PROVE  Replaced(message, rest) /\ rest.stats = stats /\ rest.beacons = held
<1>1. /\ Sequence(Messages) /\ Len(Messages) = 1 + Len(pipe) /\ Len(pipe) \in Nat
      /\ Messages[1] = taken[1]
      /\ \A k \in 1..Len(pipe) : Messages[1 + k] = pipe[k]
      /\ Sequence(pipe)
  <2>1. /\ Sequence(Messages) /\ Len(Messages) = Len(taken) + Len(pipe) /\ Len(pipe) \in Nat
        /\ \A k \in 1..Len(taken) : Messages[k] = taken[k]
        /\ \A k \in 1..Len(pipe) : Messages[Len(taken) + k] = pipe[k]
    BY MessagesAre
  <2>2. 1 \in 1..Len(taken)
    OBVIOUS
  <2>3. Sequence(pipe)
    BY DEF TakenInv
  <2>4. Messages[1] = taken[1]
    BY <2>1, <2>2
  <2> QED BY <2>1, <2>3, <2>4
<1>2. PICK after : after = Messages'
  OBVIOUS
<1>3. /\ Sequence(after) /\ Len(after) = Len(pipe) + 1 /\ after[1] = rest
      /\ \A k \in 1..Len(pipe) : after[k + 1] = pipe[k]
  <2>1. after = <<rest>> \o pipe
    BY <1>2 DEF Messages
  <2>2. Sequence(<<rest>> \o pipe) /\ Len(<<rest>> \o pipe) = Len(pipe) + 1
          /\ (<<rest>> \o pipe)[1] = rest
    BY <1>1, Preceding
  <2>3. \A k \in 1..Len(pipe) : (<<rest>> \o pipe)[k + 1] = pipe[k]
    BY <1>1, Preceding
  <2> QED BY <2>1, <2>2, <2>3, Zenon
<1>4. Sequence(taken') /\ Len(taken') = 1 /\ taken'[1] = rest
  <2>1. <<rest>> \in Seq({rest}) /\ Len(<<rest>>) = 1 /\ <<rest>>[1] = rest
    OBVIOUS
  <2> QED BY <2>1, IsSequence
<1>5. PICK n : n = Len(Messages)
  OBVIOUS
<1>6. /\ n \in Nat \ {0} /\ DOMAIN Messages = 1..n /\ DOMAIN after = 1..n /\ Len(after) = n
  BY <1>1, <1>3, <1>5, Positions
<1>7. ASSUME NEW k \in 2..n
      PROVE  after[k] = Messages[k]
  <2>1. PICK j : j = k - 1
    OBVIOUS
  <2>2. j \in 1..Len(pipe) /\ j + 1 = k /\ 1 + j = k
    BY <1>1, <1>5, <2>1
  <2>3. after[j + 1] = pipe[j] /\ Messages[1 + j] = pipe[j]
    BY <1>1, <1>3, <2>2
  <2> QED BY <2>2, <2>3
<1>8. rest = [stats |-> rest.stats, beacons |-> rest.beacons, eof |-> message.eof,
              snapshot |-> message.snapshot]
        /\ rest.stats = stats /\ rest.beacons = held
  OBVIOUS
<1>9. Replaced(message, rest)
  BY <1>1, <1>2, <1>3, <1>4, <1>5, <1>6, <1>7, <1>8 DEF Replaced
<1> QED BY <1>8, <1>9

\* What no part of a message that is taken in disturbs.
LEMMA ReplacedRest ==
  ASSUME PipelineInv, NEW message, NEW rest, Replaced(message, rest),
         loop.pc = "recording" => rest.stats = << >>
  PROVE  /\ FramesInv' /\ WorkerInv' /\ RetainsInv' /\ ClosedInv' /\ SnapshotsInv'
         /\ TakenInv' /\ EofInv'
         /\ \A k \in 2..(Len(Messages) + 1) : Before(k)' = Before(k)
<1>0. /\ FramesInv /\ WorkerInv /\ RetainsInv /\ ClosedInv /\ SnapshotsInv
      /\ TakenInv /\ EofInv
  BY DEF PipelineInv
<1>1. PICK n : n = Len(Messages)
  OBVIOUS
<1>2. /\ n \in Nat \ {0} /\ DOMAIN Messages = 1..n
      /\ Sequence(Messages') /\ Len(Messages') = n /\ DOMAIN Messages' = 1..n
      /\ message = Messages[1] /\ rest = taken'[1] /\ rest = Messages'[1]
      /\ \A k \in 2..n : Messages'[k] = Messages[k]
      /\ rest = [stats |-> rest.stats, beacons |-> rest.beacons, eof |-> message.eof,
                 snapshot |-> message.snapshot]
      /\ Len(taken) = 1 /\ Sequence(taken') /\ Len(taken') = 1
      /\ pipe' = pipe /\ Sequence(pipe)
      /\ UNCHANGED <<delivered, worker, analyzer, loop, cu, stamped, shown>>
  BY <1>1 DEF Replaced
<1>3. rest.eof = message.eof /\ rest.snapshot = message.snapshot
  <2>1. PICK stats : stats = rest.stats
    OBVIOUS
  <2>2. PICK held : held = rest.beacons
    OBVIOUS
  <2>3. PICK eof : eof = message.eof
    OBVIOUS
  <2>4. PICK snapshot : snapshot = message.snapshot
    OBVIOUS
  <2>5. rest = [stats |-> stats, beacons |-> held, eof |-> eof, snapshot |-> snapshot]
    BY <1>2, <2>1, <2>2, <2>3, <2>4, Zenon
  <2> QED BY <2>3, <2>4, <2>5
<1>4. \A k \in 1..n : /\ Messages'[k].eof = Messages[k].eof
                      /\ Messages'[k].snapshot = Messages[k].snapshot
  <2> SUFFICES ASSUME NEW k \in 1..n
               PROVE  /\ Messages'[k].eof = Messages[k].eof
                      /\ Messages'[k].snapshot = Messages[k].snapshot
    OBVIOUS
  <2>1. CASE k = 1
    BY <1>2, <1>3, <2>1
  <2>2. CASE k # 1
    BY <1>2, <2>2
  <2> QED BY <2>1, <2>2
<1>5. ASSUME NEW k \in 2..(n + 1)
      PROVE  Before(k)' = Before(k)
  <2>1. k - 1 \in 1..n /\ k # 1
    BY <1>2
  <2>2. Messages'[k - 1].snapshot = Messages[k - 1].snapshot
    BY <1>4, <2>1
  <2> QED BY <2>1, <2>2 DEF Before, Upto
<1>6. FramesInv'
  BY <1>0, <1>2 DEF FramesInv
<1>7. WorkerInv'
  BY <1>0, <1>2 DEF WorkerInv
<1>8. RetainsInv'
  BY <1>0, <1>2 DEF RetainsInv, Now, In
<1>9. ClosedInv'
  BY <1>0, <1>2 DEF ClosedInv, Now
<1>10. SnapshotsInv'
  <2>1. ASSUME NEW k \in DOMAIN Messages'
        PROVE  Windowed(Messages[k].snapshot)'
    <3>1. Windowed(Messages[k].snapshot) /\ Messages'[k].snapshot = Messages[k].snapshot
      BY <1>0, <1>2, <1>4, <2>1 DEF SnapshotsInv
    <3> QED BY <3>1 DEF Windowed, Upto, Oldest
  <2>2. (Upto(analyzer.snapshot) = Later(NextOpen - 1, 0) /\ Windowed(analyzer.snapshot))'
    BY <1>0, <1>2 DEF SnapshotsInv, NextOpen, Windowed, Upto, Oldest
  <2> QED BY <1>2, <2>1, <2>2 DEF SnapshotsInv
<1>11. TakenInv'
  <2>1. ASSUME NEW k \in DOMAIN Messages'
        PROVE  Messages'[k] = [stats |-> Messages'[k].stats, beacons |-> Messages'[k].beacons,
                               eof |-> Messages'[k].eof, snapshot |-> Messages'[k].snapshot]
    <3>1. CASE k = 1
      BY <1>2, <1>3, <3>1
    <3>2. CASE k # 1
      <4>1. k \in 2..n /\ k \in DOMAIN Messages
        BY <1>2, <2>1, <3>2
      <4> QED BY <1>0, <1>2, <4>1 DEF TakenInv
    <3> QED BY <3>1, <3>2
  <2>2. loop.pc \notin {"looping", "exhausted"}
    <3>1. Len(<< >>) = 0
      OBVIOUS
    <3> QED BY <1>0, <1>2, <3>1 DEF TakenInv
  <2> QED BY <1>0, <1>2, <2>1, <2>2 DEF TakenInv
<1>12. EofInv'
  <2>1. \A k \in DOMAIN Messages' : Messages'[k].eof => k = Len(Messages') /\ worker.pc = "ended"
    BY <1>0, <1>1, <1>2, <1>4 DEF EofInv
  <2>2. loop.pc # "exhausted"
    <3>1. Len(<< >>) = 0
      OBVIOUS
    <3>2. Len(taken) = 1
      BY <1>2
    <3>3. taken # << >>
      BY <3>1, <3>2
    <3> QED BY <1>0, <3>3 DEF TakenInv
  <2> QED BY <1>0, <1>2, <2>1, <2>2 DEF EofInv, Now
<1> QED BY <1>1, <1>5, <1>6, <1>7, <1>8, <1>9, <1>10, <1>11, <1>12

\* The places around what is left of a message.
LEMMA ReplacedPlaces ==
  ASSUME NEW message, NEW rest, Replaced(message, rest),
         NEW n, n = Len(Messages) + 2
  PROVE  /\ n \in Nat /\ n > 2
         /\ Sequence(Places) /\ Len(Places) = n
         /\ Sequence(Places') /\ Len(Places') = n
         /\ Places[1] = beacons /\ Places[2] = message.beacons
         /\ Places'[1] = beacons' /\ Places'[2] = rest.beacons
         /\ \A p \in 3..n : Places'[p] = Places[p]
<1>1. PICK m : m = Len(Messages)
  OBVIOUS
<1>2. /\ Sequence(Messages) /\ m \in Nat \ {0} /\ Sequence(Messages') /\ Len(Messages') = m
      /\ message = Messages[1] /\ rest = Messages'[1]
      /\ \A k \in 2..m : Messages'[k] = Messages[k]
      /\ worker' = worker
  BY <1>1 DEF Replaced
<1>3. PICK places : places = Places
  OBVIOUS
<1>4. PICK after : after = Places'
  OBVIOUS
<1>5. /\ Sequence(places) /\ Len(places) = m + 2
      /\ places[1] = beacons /\ places[m + 2] = worker.beacons
      /\ \A k \in 1..m : places[k + 1] = Messages[k].beacons
  BY <1>1, <1>2, <1>3, PlacesNow
<1>6. /\ Sequence(after) /\ Len(after) = m + 2
      /\ after[1] = beacons' /\ after[m + 2] = worker.beacons
      /\ \A k \in 1..m : after[k + 1] = Messages'[k].beacons
  BY <1>2, <1>4, PlacesNext
<1>7. n = m + 2 /\ n \in Nat /\ n > 2
  BY <1>1, <1>2
<1>8. places[2] = message.beacons /\ after[2] = rest.beacons
  <2>1. 1 \in 1..m /\ 1 + 1 = 2
    BY <1>2
  <2>2. places[1 + 1] = Messages[1].beacons /\ after[1 + 1] = Messages'[1].beacons
    BY <1>5, <1>6, <2>1
  <2> QED BY <1>2, <2>1, <2>2
<1>9. ASSUME NEW p \in 3..n
      PROVE  after[p] = places[p]
  <2>1. CASE p = n
    BY <1>5, <1>6, <1>7, <2>1
  <2>2. CASE p # n
    <3>1. PICK k : k = p - 1
      OBVIOUS
    <3>2. k \in 2..m /\ k \in 1..m /\ k + 1 = p
      <4>1. m \in Nat /\ n = m + 2
        BY <1>2, <1>7
      <4> QED BY <2>2, <3>1, <4>1
    <3>3. after[k + 1] = Messages'[k].beacons /\ places[k + 1] = Messages[k].beacons
      BY <1>5, <1>6, <3>2
    <3> QED BY <1>2, <3>2, <3>3
  <2> QED BY <2>1, <2>2
<1> QED BY <1>3, <1>4, <1>5, <1>6, <1>7, <1>8, <1>9

\* Same sequences.
LEMMA SamePlaces ==
  ASSUME NEW places, Sequence(places), NEW after, Sequence(after),
         NEW n, Len(places) = n, Len(after) = n, \A p \in 1..n : after[p] = places[p]
  PROVE  after = places
<1>1. places = [p \in 1..n |-> places[p]] /\ after = [p \in 1..n |-> after[p]]
  BY Positions
<1> QED BY <1>1

\* One of the message's rows is published.
LEMMA PublishStep ==
  ASSUME PipelineInv, Publish
  PROVE  PipelineInv'
<1>0. /\ SnapshotsInv /\ ChainInv /\ TakenInv /\ PaintedInv /\ SamplesInv /\ BeaconsInv
  BY DEF PipelineInv
<1>1. /\ loop.pc = "publishing" /\ taken[1].stats # << >>
      /\ rows' = Append(rows, Stamp(Head(taken[1].stats)))
      /\ taken' = <<[taken[1] EXCEPT !.stats = Tail(@)]>>
      /\ UNCHANGED <<delivered, worker, analyzer, pipe, loop, beacons, cu, stamped, shown>>
  BY DEF Publish
<1>2. PICK message : message = taken[1]
  OBVIOUS
<1>3. PICK sample : sample = Head(message.stats)
  OBVIOUS
<1>4. PICK stats : stats = Tail(message.stats)
  OBVIOUS
<1>5. PICK rest : rest = [stats |-> stats, beacons |-> message.beacons, eof |-> message.eof,
                          snapshot |-> message.snapshot]
  OBVIOUS
<1>6. Len(taken) = 1 /\ message = Messages[1] /\ Messages # << >>
        /\ message = [stats |-> message.stats, beacons |-> message.beacons,
                      eof |-> message.eof, snapshot |-> message.snapshot]
  <2>1. Len(taken) = 1
    BY <1>0, <1>1 DEF TakenInv
  <2>2. /\ Sequence(Messages) /\ Len(Messages) = Len(taken) + Len(pipe) /\ Len(pipe) \in Nat
        /\ \A k \in 1..Len(taken) : Messages[k] = taken[k]
    BY <1>0, MessagesAre
  <2>3. 1 \in DOMAIN Messages /\ 1 \in 1..Len(taken)
    BY <2>1, <2>2, Positions
  <2>4. Messages # << >>
    <3>1. Len(<< >>) = 0
      OBVIOUS
    <3> QED BY <2>1, <2>2, <3>1
  <2> QED BY <1>0, <1>2, <2>1, <2>2, <2>3, <2>4 DEF TakenInv
<1>7. Replaced(message, rest) /\ rest.stats = stats /\ rest.beacons = message.beacons
  <2>1. taken' = <<rest>>
    <3>1. message = [stats |-> message.stats, beacons |-> message.beacons,
                     eof |-> message.eof, snapshot |-> message.snapshot]
      BY <1>6
    <3>2. [message EXCEPT !.stats = stats] = rest
      BY <1>5, <3>1
    <3>3. taken' = <<[message EXCEPT !.stats = Tail(message.stats)]>>
      BY <1>1, <1>2
    <3> QED BY <1>4, <3>2, <3>3, Zenon
  <2> QED BY <1>0, <1>1, <1>2, <1>5, <1>6, <2>1, Replaces
<1>8. /\ FramesInv' /\ WorkerInv' /\ RetainsInv' /\ ClosedInv' /\ SnapshotsInv'
      /\ TakenInv' /\ EofInv'
      /\ \A k \in 2..(Len(Messages) + 1) : Before(k)' = Before(k)
  BY <1>1, <1>7, ReplacedRest
<1>9. PICK count : count = Len(rows)
  OBVIOUS
<1>10. PICK size : size = Len(message.stats)
  OBVIOUS
<1>11. /\ count \in Nat /\ size \in Nat /\ DOMAIN rows = 1..count
       /\ Sequence(message.stats) /\ DOMAIN message.stats = 1..size
       /\ \A j \in 1..size : message.stats[j].second = count + j
       /\ Before(1) = count /\ Before(2) = count + size
  <2>1. First(message, count, size)
    BY <1>0, <1>6, <1>9, <1>10, FirstMessage
  <2> QED BY <2>1 DEF First
<1>12. /\ Sequence(stats) /\ Len(stats) = size - 1 /\ DOMAIN stats = 1..(size - 1)
       /\ \A j \in 1..(size - 1) : stats[j] = message.stats[j + 1]
       /\ sample = message.stats[1] /\ size > 0
  <2>1. PICK q : q = message.stats
    OBVIOUS
  <2>2. Sequence(q) /\ q # << >>
    BY <1>1, <1>2, <1>11, <2>1
  <2>3. /\ Sequence(Tail(q)) /\ Len(Tail(q)) = Len(q) - 1
        /\ DOMAIN Tail(q) = 1..(Len(q) - 1)
        /\ \A j \in 1..(Len(q) - 1) : Tail(q)[j] = q[j + 1]
        /\ Head(q) = q[1]
    BY <2>2, Dropping
  <2>4. Len(q) > 0
    BY <2>2, Positions
  <2> QED BY <1>3, <1>4, <1>10, <2>1, <2>3, <2>4
<1>13. /\ Sequence(rows') /\ Len(rows') = count + 1 /\ DOMAIN rows' = 1..(count + 1)
       /\ \A i \in 1..count : rows'[i] = rows[i]
       /\ rows'[count + 1] = Stamp(sample)
  <2>1. PICK row : row = Stamp(sample)
    OBVIOUS
  <2>2. rows' = Append(rows, row) /\ Sequence(rows)
    BY <1>0, <1>1, <1>2, <1>3, <2>1 DEF ChainInv
  <2>3. /\ Sequence(Append(rows, row)) /\ Len(Append(rows, row)) = Len(rows) + 1
        /\ \A i \in 1..Len(rows) : Append(rows, row)[i] = rows[i]
        /\ Append(rows, row)[Len(rows) + 1] = row
        /\ DOMAIN Append(rows, row) = 1..(Len(rows) + 1)
    BY <2>2, Appending
  <2> QED BY <1>9, <2>1, <2>2, <2>3, Zenon
<1>14. Stamp(sample).second = count + 1 /\ Stamp(sample).sample = sample
         /\ Stamp(sample).cu = cu.latest
  <2>1. sample.second = count + 1
    BY <1>11, <1>12
  <2> QED BY <2>1 DEF Stamp
<1>15. PICK n : n = Len(Messages)
  OBVIOUS
<1>16. /\ n \in Nat \ {0} /\ DOMAIN Messages = 1..n /\ DOMAIN Messages' = 1..n
       /\ Len(Messages') = n /\ rest = Messages'[1]
       /\ \A k \in 2..n : Messages'[k] = Messages[k]
  BY <1>7, <1>15 DEF Replaced
<1>17. Before(1)' = count + 1
  BY <1>13 DEF Before
<1>18. ChainInv'
  <2>1. ASSUME NEW k \in 1..n
        PROVE  /\ Sequence(Messages'[k].stats)
               /\ Before(k + 1)' = Before(k)' + Len(Messages'[k].stats)
               /\ \A j \in DOMAIN Messages'[k].stats :
                    Messages'[k].stats[j].second = Before(k)' + j
    <3>1. CASE k = 1
      <4>1. Messages'[k].stats = stats
        BY <1>7, <1>16, <3>1
      <4>2. Before(2)' = count + size
        <5>1. 2 \in 2..(n + 1)
          BY <1>16
        <5> QED BY <1>8, <1>11, <1>15, <5>1
      <4>3. k + 1 = 2
        BY <3>1
      <4>4. ASSUME NEW j \in 1..(size - 1)
            PROVE  stats[j].second = count + 1 + j
        <5>1. PICK i : i = j + 1
          OBVIOUS
        <5>2. i \in 1..size /\ count + i = count + 1 + j
          BY <1>11, <5>1
        <5>3. stats[j] = message.stats[i]
          BY <1>12, <5>1
        <5> QED BY <1>11, <5>2, <5>3
      <4>5. Before(k)' = count + 1 /\ Before(k + 1)' = count + size
        BY <1>17, <3>1, <4>2, <4>3
      <4>6. Sequence(stats) /\ Len(stats) = size - 1 /\ DOMAIN stats = 1..(size - 1)
        BY <1>12
      <4>7. Before(k + 1)' = Before(k)' + Len(stats)
        <5>1. count \in Nat /\ size \in Nat
          BY <1>11
        <5> QED BY <4>5, <4>6, <5>1
      <4>8. \A j \in DOMAIN stats : stats[j].second = Before(k)' + j
        BY <4>4, <4>5, <4>6
      <4> QED BY <4>1, <4>6, <4>7, <4>8
    <3>2. CASE k # 1
      <4>1. k \in 2..n /\ k \in 2..(n + 1) /\ k + 1 \in 2..(n + 1)
        BY <1>16, <3>2
      <4>2. Messages'[k] = Messages[k] /\ Before(k)' = Before(k) /\ Before(k + 1)' = Before(k + 1)
        BY <1>8, <1>15, <1>16, <4>1
      <4> QED BY <1>0, <1>16, <4>1, <4>2 DEF ChainInv
    <3> QED BY <3>1, <3>2
  <2>2. ASSUME NEW i \in 1..(count + 1)
        PROVE  rows'[i].second = i
    <3>1. CASE i = count + 1
      BY <1>13, <1>14, <3>1
    <3>2. CASE i # count + 1
      <4>1. i \in 1..count
        BY <1>11, <3>2
      <4> QED BY <1>0, <1>11, <1>13, <4>1 DEF ChainInv
    <3> QED BY <3>1, <3>2
  <2>3. n + 1 \in 2..(n + 1)
    BY <1>16
  <2>4. Before(n + 1)' = Before(n + 1)
    BY <1>8, <1>15, <2>3
  <2>5. PICK first : first = NextOpen - 1 - Len(worker.batch)
    OBVIOUS
  <2>6. /\ Sequence(worker.batch) /\ first >= -1 /\ Before(n + 1) = Later(first, 0)
        /\ \A j \in DOMAIN worker.batch : worker.batch[j].second = first + j
    BY <1>0, <1>15, <2>5 DEF ChainInv
  <2>7. NextOpen' - 1 - Len(worker'.batch) = first /\ worker' = worker
    BY <1>1, <2>5 DEF NextOpen
  <2>8. ChainInv' <=>
         /\ Sequence(rows')
         /\ \A i \in DOMAIN rows' : rows'[i].second = i
         /\ \A k \in DOMAIN Messages' :
              /\ Sequence(Messages'[k].stats)
              /\ Before(k + 1)' = Before(k)' + Len(Messages'[k].stats)
              /\ \A j \in DOMAIN Messages'[k].stats :
                   Messages'[k].stats[j].second = Before(k)' + j
         /\ Sequence(worker'.batch) /\ first >= -1
         /\ Before(n + 1)' = Later(first, 0)
         /\ \A j \in DOMAIN worker'.batch : worker'.batch[j].second = first + j
    <3> HIDE DEF Sequence
    <3> QED BY <1>16, <2>7 DEF ChainInv, Before
  <2> QED BY <1>13, <1>16, <2>1, <2>2, <2>4, <2>6, <2>7, <2>8
<1>19. SamplesInv'
  <2>1. ASSUME NEW s \in Samples'
        PROVE  s \in Samples
    <3>1. s \in SamplesOf(rows', Messages', worker'.batch)
      BY <2>1 DEF Samples
    <3>2. \/ \E i \in DOMAIN rows' : s = rows'[i].sample
          \/ \E k \in DOMAIN Messages' : s \in ToSet(Messages'[k].stats)
          \/ s \in ToSet(worker'.batch)
      BY <3>1, SampleIsIn
    <3>3. \A j \in 1..size : message.stats[j] \in ToSet(message.stats)
      BY <1>11 DEF ToSet
    <3>4. 1 \in DOMAIN Messages
      BY <1>16
    <3>5. CASE \E i \in DOMAIN rows' : s = rows'[i].sample
      <4>1. PICK i \in 1..(count + 1) : s = rows'[i].sample
        BY <1>13, <3>5
      <4>2. CASE i = count + 1
        <5>1. s = message.stats[1] /\ 1 \in 1..size
          BY <1>11, <1>12, <1>13, <1>14, <4>1, <4>2
        <5>2. s \in ToSet(Messages[1].stats)
          BY <1>6, <3>3, <5>1
        <5>3. s \in SamplesOf(rows, Messages, worker.batch)
          BY <3>4, <5>2, SampleIsIn
        <5> QED BY <5>3 DEF Samples
      <4>3. CASE i # count + 1
        <5>1. i \in DOMAIN rows /\ s = rows[i].sample
          BY <1>11, <1>13, <4>1, <4>3
        <5>2. s \in SamplesOf(rows, Messages, worker.batch)
          BY <5>1, SampleIsIn
        <5> QED BY <5>2 DEF Samples
      <4> QED BY <4>2, <4>3
    <3>6. CASE \E k \in DOMAIN Messages' : s \in ToSet(Messages'[k].stats)
      <4>1. PICK k \in 1..n : s \in ToSet(Messages'[k].stats)
        BY <1>16, <3>6
      <4>2. s \in ToSet(Messages[k].stats)
        <5>1. CASE k = 1
          <6>1. s \in ToSet(stats)
            BY <1>7, <1>16, <4>1, <5>1
          <6>2. PICK j \in 1..(size - 1) : s = stats[j]
            BY <1>12, <6>1 DEF ToSet
          <6>3. PICK i : i = j + 1
            OBVIOUS
          <6>4. i \in 1..size /\ s = message.stats[i]
            <7>1. stats[j] = message.stats[j + 1]
              BY <1>12
            <7>2. size \in Nat
              BY <1>11
            <7>3. i \in 1..size
              BY <6>3, <7>2
            <7> QED BY <6>2, <6>3, <7>1, <7>3
          <6> QED BY <1>6, <3>3, <5>1, <6>4
        <5>2. CASE k # 1
          <6>1. k \in 2..n
            BY <1>16, <5>2
          <6> QED BY <1>16, <4>1, <6>1
        <5> QED BY <5>1, <5>2
      <4>3. s \in SamplesOf(rows, Messages, worker.batch)
        BY <1>16, <4>1, <4>2, SampleIsIn
      <4> QED BY <4>3 DEF Samples
    <3>7. CASE s \in ToSet(worker'.batch)
      <4>1. s \in SamplesOf(rows, Messages, worker.batch)
        BY <1>1, <3>7, SampleIsIn
      <4> QED BY <4>1 DEF Samples
    <3> QED BY <3>2, <3>5, <3>6, <3>7
  <2>2. ASSUME NEW s, Exact(s)
        PROVE  Exact(s)'
    BY <1>1, <2>2 DEF Exact, In, BeaconsIn, Senders
  <2>3. Now' = Now
    BY <1>1 DEF Now
  <2> HIDE DEF Samples, Exact
  <2> QED BY <1>0, <1>1, <2>1, <2>2, <2>3 DEF SamplesInv
<1>20. PaintedInv'
  <2>1. Read = count + size /\ Read' = count + size
    <3>1. Len(taken) + 1 = 2 /\ Len(taken') + 1 = 2
      BY <1>6, <1>7 DEF Replaced
    <3>2. Read = Before(2) /\ Read' = Before(2)'
      BY <3>1 DEF Read
    <3>3. 2 \in 2..(n + 1)
      BY <1>16
    <3> QED BY <1>8, <1>11, <1>15, <3>2, <3>3
  <2>2. PICK last : last = Upto(shown)
    OBVIOUS
  <2>3. /\ DOMAIN stamped = 1..(count + size)
        /\ \A i \in 1..count : stamped[i] = rows[i].cu
        /\ \A i \in 1..(count + size) : i > count => stamped[i] = cu.latest
        /\ last \in Nat /\ last <= count
        /\ shown.history = [k \in DOMAIN shown.history |-> shown.history[k]]
        /\ DOMAIN shown.history = 1..(last + 1 - Oldest(last))
        /\ \A k \in DOMAIN shown.history :
             shown.history[k] = [second |-> Oldest(last) + k - 1,
                                 cu |-> rows[Oldest(last) + k - 1].cu]
    BY <1>0, <1>9, <1>11, <2>1, <2>2 DEF PaintedInv
  <2>4. ASSUME NEW i \in 1..(count + 1)
        PROVE  stamped[i] = rows'[i].cu
    <3>1. CASE i = count + 1
      <4>1. i \in 1..(count + size) /\ i > count
        BY <1>11, <1>12, <3>1
      <4> QED BY <1>13, <1>14, <2>3, <3>1, <4>1
    <3>2. CASE i # count + 1
      <4>1. i \in 1..count
        BY <1>11, <3>2
      <4> QED BY <1>13, <2>3, <4>1
    <3> QED BY <3>1, <3>2
  <2>5. Oldest(last) \in Int /\ Oldest(last) >= 1
    BY <2>3, AnalyzerAssumption DEF Oldest, Later
  <2>6. ASSUME NEW k \in DOMAIN shown.history
        PROVE  shown.history[k] = [second |-> Oldest(last) + k - 1,
                                   cu |-> rows'[Oldest(last) + k - 1].cu]
    <3>1. PICK i : i = Oldest(last) + k - 1
      OBVIOUS
    <3>2. i \in 1..count
      BY <1>11, <2>3, <2>5, <3>1
    <3>3. rows'[i] = rows[i]
      BY <1>13, <3>2
    <3> QED BY <2>3, <3>1, <3>3
  <2>7. \A i \in 1..(count + size) : i > count + 1 => stamped[i] = cu.latest
    BY <1>11, <2>3
  <2>8. last <= count + 1
    BY <1>11, <2>3
  <2>9. taken' # << >> /\ loop'.pc # "recording"
    <3>1. Len(<< >>) = 0
      OBVIOUS
    <3> QED BY <1>1, <1>7, <3>1 DEF Replaced
  <2> QED BY <1>1, <1>13, <2>1, <2>2, <2>3, <2>4, <2>6, <2>7, <2>8, <2>9
          DEF PaintedInv, Upto, Oldest
<1>21. BeaconsInv'
  <2>1. PICK m : m = Len(Messages) + 2
    OBVIOUS
  <2>2. PICK places : places = Places
    OBVIOUS
  <2>3. PICK after : after = Places'
    OBVIOUS
  <2>4. /\ m \in Nat /\ m > 2
        /\ Sequence(places) /\ Len(places) = m /\ Sequence(after) /\ Len(after) = m
        /\ places[1] = beacons /\ places[2] = message.beacons
        /\ after[1] = beacons' /\ after[2] = rest.beacons
        /\ \A p \in 3..m : after[p] = places[p]
    BY <1>7, <2>1, <2>2, <2>3, ReplacedPlaces
  <2>5. ASSUME NEW p \in 1..m
        PROVE  after[p] = places[p]
    <3>1. CASE p \in {1, 2}
      BY <1>1, <1>7, <2>4, <3>1
    <3>2. CASE p \notin {1, 2}
      BY <2>4, <3>2
    <3> QED BY <3>1, <3>2
  <2>6. after = places
    BY <2>4, <2>5, SamePlaces, Zenon
  <2>7. Beacons' = Beacons
    BY <1>1 DEF Beacons
  <2> QED BY <1>0, <2>2, <2>3, <2>6, <2>7 DEF BeaconsInv
<1>22. EmptyInv'
  <2>1. delivered # << >>
    <3>1. 1 \in DOMAIN Messages /\ Messages[1].stats # << >>
      BY <1>1, <1>2, <1>6, <1>16
    <3> QED BY <3>1 DEF PipelineInv, EmptyInv
  <2> QED BY <1>1, <2>1 DEF EmptyInv
<1> QED BY <1>8, <1>18, <1>19, <1>20, <1>21, <1>22 DEF PipelineInv

\* One of the message's beacons is logged.
LEMMA RecordStep ==
  ASSUME PipelineInv, Record
  PROVE  PipelineInv'
<1>0. /\ SnapshotsInv /\ ChainInv /\ TakenInv /\ PaintedInv /\ SamplesInv /\ BeaconsInv
  BY DEF PipelineInv
<1>1. /\ loop.pc = "recording" /\ taken[1].beacons # << >>
      /\ beacons' = Append(beacons, Head(taken[1].beacons))
      /\ taken' = <<[taken[1] EXCEPT !.beacons = Tail(@)]>>
      /\ UNCHANGED <<delivered, worker, analyzer, pipe, loop, rows, cu, stamped, shown>>
  BY DEF Record
<1>2. PICK message : message = taken[1]
  OBVIOUS
<1>3. PICK held : held = Tail(message.beacons)
  OBVIOUS
<1>4. PICK rest : rest = [stats |-> message.stats, beacons |-> held, eof |-> message.eof,
                          snapshot |-> message.snapshot]
  OBVIOUS
<1>5. Len(taken) = 1 /\ message = Messages[1] /\ message.stats = << >>
        /\ message = [stats |-> message.stats, beacons |-> message.beacons,
                      eof |-> message.eof, snapshot |-> message.snapshot]
  <2>1. Len(taken) = 1
    BY <1>0, <1>1 DEF TakenInv
  <2>2. /\ Sequence(Messages) /\ Len(Messages) = Len(taken) + Len(pipe) /\ Len(pipe) \in Nat
        /\ \A k \in 1..Len(taken) : Messages[k] = taken[k]
    BY <1>0, MessagesAre
  <2>3. 1 \in DOMAIN Messages /\ 1 \in 1..Len(taken)
    BY <2>1, <2>2, Positions
  <2> QED BY <1>0, <1>1, <1>2, <2>1, <2>2, <2>3 DEF TakenInv
<1>6. Replaced(message, rest) /\ rest.stats = message.stats /\ rest.beacons = held
  <2>1. taken' = <<rest>>
    <3>1. message = [stats |-> message.stats, beacons |-> message.beacons,
                     eof |-> message.eof, snapshot |-> message.snapshot]
      BY <1>5
    <3>2. [message EXCEPT !.beacons = held] = rest
      BY <1>4, <3>1
    <3>3. taken' = <<[message EXCEPT !.beacons = Tail(message.beacons)]>>
      BY <1>1, <1>2
    <3> QED BY <1>3, <3>2, <3>3, Zenon
  <2> QED BY <1>0, <1>1, <1>2, <1>4, <1>5, <2>1, Replaces
<1>7. /\ FramesInv' /\ WorkerInv' /\ RetainsInv' /\ ClosedInv' /\ SnapshotsInv'
      /\ TakenInv' /\ EofInv'
      /\ \A k \in 2..(Len(Messages) + 1) : Before(k)' = Before(k)
  BY <1>5, <1>6, ReplacedRest
<1>8. PICK n : n = Len(Messages)
  OBVIOUS
<1>9. /\ n \in Nat \ {0} /\ DOMAIN Messages = 1..n /\ DOMAIN Messages' = 1..n
      /\ Len(Messages') = n /\ rest = Messages'[1]
      /\ \A k \in 2..n : Messages'[k] = Messages[k]
  BY <1>6, <1>8 DEF Replaced
<1>10. ASSUME NEW k \in 1..n
       PROVE  Messages'[k].stats = Messages[k].stats
  <2>1. CASE k = 1
    BY <1>5, <1>6, <1>9, <2>1
  <2>2. CASE k # 1
    BY <1>9, <2>2
  <2> QED BY <2>1, <2>2
<1>11. ASSUME NEW k \in 1..(n + 1)
       PROVE  Before(k)' = Before(k)
  <2>1. CASE k = 1
    BY <1>1, <2>1 DEF Before
  <2>2. CASE k # 1
    <3>1. k \in 2..(n + 1)
      BY <1>9, <2>2
    <3> QED BY <1>7, <1>8, <3>1
  <2> QED BY <2>1, <2>2
<1>12. ChainInv'
  <2>1. ASSUME NEW k \in 1..n
        PROVE  /\ Sequence(Messages'[k].stats)
               /\ Before(k + 1)' = Before(k)' + Len(Messages'[k].stats)
               /\ \A j \in DOMAIN Messages'[k].stats :
                    Messages'[k].stats[j].second = Before(k)' + j
    <3>1. k \in 1..(n + 1) /\ k + 1 \in 1..(n + 1)
      BY <1>9
    <3> QED BY <1>0, <1>9, <1>10, <1>11, <3>1 DEF ChainInv
  <2>2. n + 1 \in 1..(n + 1)
    BY <1>9
  <2>3. Before(n + 1)' = Before(n + 1)
    BY <1>11, <2>2
  <2>4. PICK first : first = NextOpen - 1 - Len(worker.batch)
    OBVIOUS
  <2>5. /\ Sequence(worker.batch) /\ first >= -1 /\ Before(n + 1) = Later(first, 0)
        /\ \A j \in DOMAIN worker.batch : worker.batch[j].second = first + j
    BY <1>0, <1>8, <2>4 DEF ChainInv
  <2>6. NextOpen' - 1 - Len(worker'.batch) = first /\ worker' = worker
    BY <1>1, <2>4 DEF NextOpen
  <2>7. ChainInv' <=>
         /\ Sequence(rows')
         /\ \A i \in DOMAIN rows' : rows'[i].second = i
         /\ \A k \in DOMAIN Messages' :
              /\ Sequence(Messages'[k].stats)
              /\ Before(k + 1)' = Before(k)' + Len(Messages'[k].stats)
              /\ \A j \in DOMAIN Messages'[k].stats :
                   Messages'[k].stats[j].second = Before(k)' + j
         /\ Sequence(worker'.batch) /\ first >= -1
         /\ Before(n + 1)' = Later(first, 0)
         /\ \A j \in DOMAIN worker'.batch : worker'.batch[j].second = first + j
    <3> HIDE DEF Sequence
    <3> QED BY <1>9, <2>6 DEF ChainInv, Before
  <2>8. Sequence(rows') /\ \A i \in DOMAIN rows' : rows'[i].second = i
    BY <1>0, <1>1 DEF ChainInv
  <2> QED BY <1>9, <2>1, <2>3, <2>5, <2>6, <2>7, <2>8
<1>13. SamplesInv'
  <2>1. ASSUME NEW s \in Samples'
        PROVE  s \in Samples
    <3>1. s \in SamplesOf(rows', Messages', worker'.batch)
      BY <2>1 DEF Samples
    <3>2. \/ \E i \in DOMAIN rows : s = rows[i].sample
          \/ \E k \in DOMAIN Messages : s \in ToSet(Messages[k].stats)
          \/ s \in ToSet(worker.batch)
      <4>1. \/ \E i \in DOMAIN rows' : s = rows'[i].sample
            \/ \E k \in DOMAIN Messages' : s \in ToSet(Messages'[k].stats)
            \/ s \in ToSet(worker'.batch)
        BY <3>1, SampleIsIn
      <4> HIDE DEF ToSet
      <4> QED BY <1>1, <1>9, <1>10, <4>1
    <3>3. s \in SamplesOf(rows, Messages, worker.batch)
      BY <3>2, SampleIsIn
    <3> QED BY <3>3 DEF Samples
  <2>2. ASSUME NEW s, Exact(s)
        PROVE  Exact(s)'
    BY <1>1, <2>2 DEF Exact, In, BeaconsIn, Senders
  <2>3. Now' = Now
    BY <1>1 DEF Now
  <2> HIDE DEF Samples, Exact
  <2> QED BY <1>0, <1>1, <2>1, <2>2, <2>3 DEF SamplesInv
<1>14. PaintedInv'
  <2>1. Read' = Read
    <3>1. Len(taken) + 1 = 2 /\ Len(taken') + 1 = 2
      BY <1>6 DEF Replaced
    <3>2. Read = Before(2) /\ Read' = Before(2)'
      BY <3>1 DEF Read
    <3>3. 2 \in 1..(n + 1)
      BY <1>9
    <3> QED BY <1>11, <3>2, <3>3
  <2> QED BY <1>0, <1>1, <2>1 DEF PaintedInv, Upto, Oldest
<1>15. BeaconsInv'
  <2>1. PICK m : m = Len(Messages) + 2
    OBVIOUS
  <2>2. PICK places : places = Places
    OBVIOUS
  <2>3. PICK moved : moved = Places'
    OBVIOUS
  <2>4. /\ m \in Nat /\ m > 2
        /\ Sequence(places) /\ Len(places) = m /\ Sequence(moved) /\ Len(moved) = m
        /\ places[1] = beacons /\ places[2] = message.beacons
        /\ moved[1] = beacons' /\ moved[2] = rest.beacons
        /\ \A p \in 3..m : moved[p] = places[p]
    BY <1>6, <2>1, <2>2, <2>3, ReplacedPlaces
  <2>5. Ordered(places, Beacons)
    BY <1>0, <2>2 DEF BeaconsInv
  <2>6. /\ places[2] # << >> /\ moved[2] = Tail(places[2])
        /\ moved[1] = Append(places[1], Head(places[2]))
    BY <1>1, <1>2, <1>3, <1>6, <2>4
  <2>7. m > 1
    BY <2>4
  <2>8. Ordered(moved, Beacons)
    BY <2>4, <2>5, <2>6, <2>7, OrderedMoves, Zenon
  <2>9. Beacons' = Beacons
    BY <1>1 DEF Beacons
  <2> QED BY <2>3, <2>8, <2>9 DEF BeaconsInv
<1>16. EmptyInv'
  BY <1>1, <1>9, <1>10 DEF PipelineInv, EmptyInv
<1> QED BY <1>7, <1>12, <1>13, <1>14, <1>15, <1>16 DEF PipelineInv

\* Nothing is left of the message: the loop goes on, or is at the end.
LEMMA ReceivedStep ==
  ASSUME PipelineInv, Received
  PROVE  PipelineInv'
<1>0. /\ FramesInv /\ WorkerInv /\ RetainsInv /\ ClosedInv /\ SnapshotsInv /\ ChainInv
      /\ TakenInv /\ PaintedInv /\ SamplesInv /\ BeaconsInv /\ EofInv
  BY DEF PipelineInv
<1>1. /\ loop.pc = "recording" /\ taken[1].beacons = << >> /\ taken' = << >>
      /\ loop' = [loop EXCEPT !.pc = IF taken[1].eof THEN "exhausted" ELSE "looping"]
      /\ UNCHANGED <<delivered, worker, analyzer, pipe, rows, beacons, cu, stamped, shown>>
  BY DEF Received
<1>2. PICK message : message = taken[1]
  OBVIOUS
<1>3. PICK n : n = Len(Messages)
  OBVIOUS
<1>4. /\ Len(taken) = 1 /\ message = Messages[1] /\ message.stats = << >>
      /\ Sequence(Messages) /\ n = 1 + Len(pipe) /\ Len(pipe) \in Nat /\ Messages # << >>
      /\ \A k \in 1..Len(pipe) : Messages[1 + k] = pipe[k]
      /\ Sequence(pipe)
  <2>1. Len(taken) = 1 /\ taken[1].stats = << >> /\ Sequence(pipe)
    BY <1>0, <1>1 DEF TakenInv
  <2>2. /\ Sequence(Messages) /\ Len(Messages) = Len(taken) + Len(pipe) /\ Len(pipe) \in Nat
        /\ \A k \in 1..Len(taken) : Messages[k] = taken[k]
        /\ \A k \in 1..Len(pipe) : Messages[Len(taken) + k] = pipe[k]
    BY <1>0, MessagesAre
  <2>3. Messages[1] = taken[1]
    <3>1. 1 \in 1..Len(taken)
      BY <2>1
    <3> QED BY <2>2, <3>1
  <2>4. Messages # << >>
    <3>1. Len(<< >>) = 0
      OBVIOUS
    <3> QED BY <2>1, <2>2, <3>1
  <2> QED BY <1>2, <1>3, <2>1, <2>2, <2>3, <2>4
<1>5. Messages' = pipe
  <2>1. pipe \in Seq(ToSet(pipe))
    BY <1>4 DEF Sequence
  <2>2. << >> \o pipe = pipe
    <3>1. PICK S : S = ToSet(pipe)
      OBVIOUS
    <3> QED BY <2>1, <3>1
  <2> QED BY <1>1, <2>2 DEF Messages
<1>6. /\ n \in Nat \ {0} /\ DOMAIN Messages = 1..n
      /\ Sequence(Messages') /\ Len(Messages') = n - 1 /\ DOMAIN Messages' = 1..(n - 1)
      /\ \A k \in 1..(n - 1) : Messages'[k] = Messages[k + 1]
  <2>1. DOMAIN Messages = 1..n /\ DOMAIN pipe = 1..Len(pipe) /\ Len(pipe) = n - 1
    <3>1. /\ Len(Messages) \in Nat /\ DOMAIN Messages = 1..Len(Messages)
          /\ DOMAIN pipe = 1..Len(pipe)
      BY <1>4, Positions
    <3>2. Len(pipe) = n - 1
      BY <1>4
    <3> QED BY <1>3, <3>1, <3>2
  <2>2. \A k \in 1..(n - 1) : 1 + k = k + 1
    OBVIOUS
  <2> QED BY <1>4, <1>5, <2>1, <2>2
<1>7. PICK count : count = Len(rows)
  OBVIOUS
<1>8. /\ count \in Nat /\ DOMAIN rows = 1..count /\ Before(1) = count /\ Before(2) = count
  <2>1. PICK size : size = Len(message.stats)
    OBVIOUS
  <2>2. size = 0
    <3>1. Len(<< >>) = 0
      OBVIOUS
    <3> QED BY <1>4, <2>1, <3>1
  <2>3. First(message, count, size)
    BY <1>0, <1>4, <1>7, <2>1, FirstMessage
  <2> QED BY <2>2, <2>3 DEF First
<1>9. ASSUME NEW k \in 1..n
      PROVE  Before(k)' = Before(k + 1)
  <2>1. CASE k = 1
    <3>1. Before(k)' = count
      BY <1>1, <1>7, <2>1 DEF Before
    <3> QED BY <1>8, <2>1, <3>1
  <2>2. CASE k # 1
    <3>1. k - 1 \in 1..(n - 1) /\ (k - 1) + 1 = k /\ (k + 1) - 1 = k /\ k + 1 # 1
      BY <1>6, <2>2
    <3>2. Messages'[k - 1] = Messages[k]
      BY <1>6, <3>1
    <3> QED BY <2>2, <3>1, <3>2 DEF Before, Upto
  <2> QED BY <2>1, <2>2
<1>10. FramesInv'
  BY <1>0, <1>1 DEF FramesInv
<1>11. WorkerInv'
  BY <1>0, <1>1 DEF WorkerInv
<1>12. RetainsInv'
  BY <1>0, <1>1 DEF RetainsInv, Now, In
<1>13. ClosedInv'
  BY <1>0, <1>1 DEF ClosedInv, Now
<1>14. SnapshotsInv'
  <2>1. ASSUME NEW k \in DOMAIN Messages'
        PROVE  Windowed(Messages[k].snapshot)'
    <3>1. k + 1 \in DOMAIN Messages /\ Messages'[k] = Messages[k + 1]
      BY <1>6
    <3>2. Windowed(Messages[k + 1].snapshot)
      BY <1>0, <3>1 DEF SnapshotsInv
    <3> QED BY <3>1, <3>2 DEF Windowed, Upto, Oldest
  <2>2. (Upto(analyzer.snapshot) = Later(NextOpen - 1, 0) /\ Windowed(analyzer.snapshot))'
    BY <1>0, <1>1 DEF SnapshotsInv, NextOpen, Windowed, Upto, Oldest
  <2> QED BY <1>6, <2>1, <2>2 DEF SnapshotsInv
<1>15. ChainInv'
  <2>1. ASSUME NEW k \in 1..(n - 1)
        PROVE  /\ Sequence(Messages'[k].stats)
               /\ Before(k + 1)' = Before(k)' + Len(Messages'[k].stats)
               /\ \A j \in DOMAIN Messages'[k].stats :
                    Messages'[k].stats[j].second = Before(k)' + j
    <3>1. PICK next : next = k + 1
      OBVIOUS
    <3>2. next \in 1..n /\ k \in 1..n
      BY <1>6, <3>1
    <3>3. /\ Messages'[k] = Messages[next] /\ Before(k)' = Before(next)
          /\ Before(next)' = Before(next + 1)
      BY <1>6, <1>9, <3>1, <3>2
    <3>4. /\ Sequence(Messages[next].stats)
          /\ Before(next + 1) = Before(next) + Len(Messages[next].stats)
          /\ \A j \in DOMAIN Messages[next].stats :
               Messages[next].stats[j].second = Before(next) + j
      BY <1>0, <1>6, <3>2 DEF ChainInv
    <3> QED BY <3>1, <3>3, <3>4
  <2>2. PICK first : first = NextOpen - 1 - Len(worker.batch)
    OBVIOUS
  <2>3. /\ Sequence(worker.batch) /\ first >= -1 /\ Before(n + 1) = Later(first, 0)
        /\ \A j \in DOMAIN worker.batch : worker.batch[j].second = first + j
    BY <1>0, <1>3, <2>2 DEF ChainInv
  <2>4. NextOpen' - 1 - Len(worker'.batch) = first /\ worker' = worker
    BY <1>1, <2>2 DEF NextOpen
  <2>5. Before(n)' = Later(first, 0)
    <3>1. n \in 1..n
      BY <1>6
    <3> QED BY <1>9, <2>3, <3>1
  <2>6. ChainInv' <=>
         /\ Sequence(rows')
         /\ \A i \in DOMAIN rows' : rows'[i].second = i
         /\ \A k \in DOMAIN Messages' :
              /\ Sequence(Messages'[k].stats)
              /\ Before(k + 1)' = Before(k)' + Len(Messages'[k].stats)
              /\ \A j \in DOMAIN Messages'[k].stats :
                   Messages'[k].stats[j].second = Before(k)' + j
         /\ Sequence(worker'.batch) /\ first >= -1
         /\ Before(n)' = Later(first, 0)
         /\ \A j \in DOMAIN worker'.batch : worker'.batch[j].second = first + j
    <3>1. Len(Messages') + 1 = n
      BY <1>6
    <3> HIDE DEF Sequence
    <3> QED BY <2>4, <3>1 DEF ChainInv, Before
  <2>7. Sequence(rows') /\ \A i \in DOMAIN rows' : rows'[i].second = i
    BY <1>0, <1>1 DEF ChainInv
  <2> QED BY <1>6, <2>1, <2>3, <2>4, <2>5, <2>6, <2>7
<1>16. SamplesInv'
  <2>1. ASSUME NEW s \in Samples'
        PROVE  s \in Samples
    <3>1. s \in SamplesOf(rows', Messages', worker'.batch)
      BY <2>1 DEF Samples
    <3>2. \/ \E i \in DOMAIN rows : s = rows[i].sample
          \/ \E k \in DOMAIN Messages : s \in ToSet(Messages[k].stats)
          \/ s \in ToSet(worker.batch)
      <4>1. \/ \E i \in DOMAIN rows' : s = rows'[i].sample
            \/ \E k \in DOMAIN Messages' : s \in ToSet(Messages'[k].stats)
            \/ s \in ToSet(worker'.batch)
        BY <3>1, SampleIsIn
      <4>2. \A k \in 1..(n - 1) : k + 1 \in 1..n /\ Messages'[k] = Messages[k + 1]
        BY <1>6
      <4> HIDE DEF ToSet
      <4> QED BY <1>1, <1>6, <4>1, <4>2
    <3>3. s \in SamplesOf(rows, Messages, worker.batch)
      BY <3>2, SampleIsIn
    <3> QED BY <3>3 DEF Samples
  <2>2. ASSUME NEW s, Exact(s)
        PROVE  Exact(s)'
    BY <1>1, <2>2 DEF Exact, In, BeaconsIn, Senders
  <2>3. Now' = Now
    BY <1>1 DEF Now
  <2> HIDE DEF Samples, Exact
  <2> QED BY <1>0, <1>1, <2>1, <2>2, <2>3 DEF SamplesInv
<1>17. PICK pc : pc = IF message.eof THEN "exhausted" ELSE "looping"
  OBVIOUS
<1>18. loop' = [pc |-> loop'.pc, failed |-> loop'.failed] /\ loop'.pc = pc
  <2>1. loop' = [pc |-> pc, failed |-> loop.failed]
    BY <1>0, <1>1, <1>2, <1>17, SameLoop
  <2> QED BY <2>1
<1>19. Sequence(taken') /\ Len(taken') = 0
  <2>1. << >> \in Seq({}) /\ Len(<< >>) = 0
    OBVIOUS
  <2> QED BY <1>1, <2>1, IsSequence
<1>20. TakenInv'
  <2>1. \A k \in DOMAIN Messages' :
          Messages'[k] = [stats |-> Messages'[k].stats, beacons |-> Messages'[k].beacons,
                          eof |-> Messages'[k].eof, snapshot |-> Messages'[k].snapshot]
    <3>1. \A k \in 1..(n - 1) : k + 1 \in 1..n
      BY <1>6
    <3> QED BY <1>0, <1>6, <3>1 DEF TakenInv
  <2> QED BY <1>1, <1>4, <1>17, <1>18, <1>19, <2>1 DEF TakenInv
<1>21. PaintedInv'
  <2>1. Read = count /\ Read' = count
    <3>1. Len(taken) + 1 = 2 /\ Len(taken') + 1 = 1 /\ 1 \in 1..n
      BY <1>4, <1>6, <1>19
    <3>2. Read = Before(2) /\ Read' = Before(1)'
      BY <3>1 DEF Read
    <3>3. Before(1)' = Before(1 + 1)
      BY <1>9, <3>1
    <3> QED BY <1>8, <3>2, <3>3
  <2> QED BY <1>0, <1>1, <2>1 DEF PaintedInv, Upto, Oldest
<1>22. BeaconsInv'
  <2>1. PICK m : m = n + 2
    OBVIOUS
  <2>2. PICK places : places = Places
    OBVIOUS
  <2>3. PICK left : left = Places'
    OBVIOUS
  <2>4. /\ Sequence(places) /\ Len(places) = m
        /\ places[1] = beacons /\ places[m] = worker.beacons
        /\ \A k \in 1..n : places[k + 1] = Messages[k].beacons
    BY <1>3, <1>4, <2>1, <2>2, PlacesNow
  <2>5. m \in Nat /\ m > 2 /\ n = m - 2 /\ (n - 1) + 2 = m - 1
    BY <1>6, <2>1
  <2>6. /\ Sequence(left) /\ Len(left) = m - 1
        /\ left[1] = beacons /\ left[m - 1] = worker.beacons
        /\ \A k \in 1..(n - 1) : left[k + 1] = Messages'[k].beacons
    BY <1>1, <1>6, <2>3, <2>5, PlacesNext
  <2>7. left[1] = places[1] /\ places[2] = << >>
    <3>1. 1 \in 1..n /\ 1 + 1 = 2
      BY <1>6
    <3>2. places[1 + 1] = Messages[1].beacons
      BY <2>4, <3>1
    <3> QED BY <1>1, <1>2, <1>4, <2>4, <2>6, <3>1, <3>2
  <2>8. ASSUME NEW p \in 2..(m - 1)
        PROVE  left[p] = places[p + 1]
    <3>1. CASE p = m - 1
      <4>1. p + 1 = m
        BY <2>5, <3>1
      <4> QED BY <2>4, <2>6, <3>1, <4>1
    <3>2. CASE p # m - 1
      <4>1. PICK k : k = p - 1
        OBVIOUS
      <4>2. k \in 1..(n - 1) /\ k + 1 = p /\ k + 1 \in 1..n /\ (k + 1) + 1 = p + 1
        BY <2>5, <3>2, <4>1
      <4>3. left[k + 1] = Messages'[k].beacons /\ Messages'[k] = Messages[k + 1]
        BY <1>6, <2>6, <4>2
      <4>4. places[(k + 1) + 1] = Messages[k + 1].beacons
        BY <2>4, <4>2
      <4> QED BY <4>2, <4>3, <4>4
    <3> QED BY <3>1, <3>2
  <2>9. Ordered(places, Beacons)
    BY <1>0, <2>2 DEF BeaconsInv
  <2>10. m > 1
    BY <2>5
  <2>11. Ordered(left, Beacons)
    BY <2>4, <2>5, <2>6, <2>7, <2>8, <2>9, <2>10, OrderedDrops, Zenon
  <2>12. Beacons' = Beacons
    BY <1>1 DEF Beacons
  <2> QED BY <2>3, <2>11, <2>12 DEF BeaconsInv
<1>23. EofInv'
  <2>1. ASSUME NEW k \in DOMAIN Messages', Messages'[k].eof
        PROVE  k = Len(Messages') /\ worker.pc = "ended"
    <3>1. k + 1 \in DOMAIN Messages /\ Messages'[k] = Messages[k + 1]
      BY <1>6
    <3>2. Messages[k + 1].eof
      BY <2>1, <3>1
    <3>3. k + 1 = n /\ worker.pc = "ended"
      BY <1>0, <1>3, <3>1, <3>2 DEF EofInv
    <3> QED BY <1>6, <3>3
  <2>2. loop'.pc = "exhausted" => Messages' = << >> /\ worker.pc = "ended"
    <3>1. SUFFICES ASSUME loop'.pc = "exhausted"
                   PROVE  Messages' = << >> /\ worker.pc = "ended"
      OBVIOUS
    <3>2. message.eof
      BY <1>17, <1>18, <3>1
    <3>3. 1 = n /\ worker.pc = "ended"
      <4>1. 1 \in DOMAIN Messages /\ Messages[1].eof
        BY <1>4, <1>6, <3>2
      <4> QED BY <1>0, <1>3, <4>1 DEF EofInv
    <3>4. Len(Messages') = 0
      BY <1>6, <3>3
    <3> QED BY <1>6, <3>3, <3>4, Positions
  <2>3. /\ worker.pc \in {"reading", "ended", "dead"}
        /\ worker.pc = "ended" =>
             worker.batch = << >> /\ (delivered # << >> => analyzer.next = Second(Now))
    BY <1>0 DEF EofInv
  <2>4. Now' = Now
    BY <1>1 DEF Now
  <2> QED BY <1>1, <1>18, <2>1, <2>2, <2>3, <2>4 DEF EofInv
<1>24. EmptyInv'
  <2>1. \A k \in 1..(n - 1) : k + 1 \in 1..n
    BY <1>6
  <2> QED BY <1>1, <1>6, <2>1 DEF PipelineInv, EmptyInv
<1> QED BY <1>10, <1>11, <1>12, <1>13, <1>14, <1>15, <1>16, <1>20, <1>21, <1>22, <1>23, <1>24
        DEF PipelineInv

-----------------------------------------------------------------------------
(* The other steps.                                                        *)

\* The worker, but for its pc.
LEMMA SameWorker ==
  ASSUME WorkerInv, NEW pc, worker' = [worker EXCEPT !.pc = pc]
  PROVE  /\ worker' = [pc |-> worker'.pc, partial |-> worker.partial, batch |-> worker.batch,
                       beacons |-> worker.beacons]
         /\ worker'.pc = pc
<1>1. PICK w : w = worker
  OBVIOUS
<1>2. w = [pc |-> w.pc, partial |-> w.partial, batch |-> w.batch, beacons |-> w.beacons]
  BY <1>1 DEF WorkerInv
<1>3. [w EXCEPT !.pc = pc] = [pc |-> pc, partial |-> w.partial, batch |-> w.batch,
                              beacons |-> w.beacons]
  BY <1>2
<1>4. worker' = [pc |-> pc, partial |-> worker.partial, batch |-> worker.batch,
                 beacons |-> worker.beacons]
  BY <1>1, <1>3
<1> QED BY <1>4

LEMMA OtherStep ==
  ASSUME PipelineInv, WorkerDies \/ PipeBreaks \/ Survey \/ Interrupt \/ UNCHANGED vars
  PROVE  PipelineInv'
<1>1. WorkerInv /\ TakenInv /\ PaintedInv /\ EofInv
  BY DEF PipelineInv
<1>2. worker = [pc |-> worker.pc, partial |-> worker.partial, batch |-> worker.batch,
                beacons |-> worker.beacons]
  BY <1>1 DEF WorkerInv
<1>3. /\ UNCHANGED <<delivered, analyzer, pipe, taken, rows, beacons, stamped, shown>>
      /\ cu' = cu \/ loop.pc = "looping"
  BY DEF WorkerDies, PipeBreaks, Survey, Interrupt, vars
<1>4. Messages' = Messages /\ Read' = Read /\ Now' = Now
  BY <1>3 DEF Messages, Read, Before, Upto, Now
<1>5. ASSUME \/ loop'.pc \in {loop.pc, "interrupted"}
             \/ loop.pc = "looping" /\ loop'.pc = "exhausted"
      PROVE  TakenInv' /\ PaintedInv'
  <2>1. TakenInv'
    BY <1>1, <1>3, <1>4, <1>5 DEF TakenInv
  <2>2. PICK last : last = Upto(shown)
    OBVIOUS
  <2>3. Upto(shown)' = last
    BY <1>3, <2>2 DEF Upto
  <2>4. /\ DOMAIN stamped = 1..Read
        /\ \A i \in DOMAIN rows : stamped[i] = rows[i].cu
        /\ \A i \in DOMAIN stamped : i > Len(rows) => stamped[i] = cu.latest
        /\ last \in Nat /\ last <= Len(rows)
        /\ taken = << >> \/ loop.pc = "recording" => last = Len(rows)
        /\ shown.history = [k \in DOMAIN shown.history |-> shown.history[k]]
        /\ DOMAIN shown.history = 1..(last + 1 - Oldest(last))
        /\ \A k \in DOMAIN shown.history :
             shown.history[k] = [second |-> Oldest(last) + k - 1,
                                 cu |-> rows[Oldest(last) + k - 1].cu]
    BY <1>1, <2>2 DEF PaintedInv
  <2>5. taken = << >> \/ loop'.pc = "recording" => last = Len(rows)
    <3>1. taken = << >> \/ loop'.pc = "recording" => taken = << >> \/ loop.pc = "recording"
      BY <1>5
    <3> QED BY <2>4, <3>1
  <2>6. \A i \in DOMAIN stamped : i > Len(rows) => stamped[i] = cu'.latest
    <3>1. CASE cu' = cu
      BY <2>4, <3>1
    <3>2. CASE loop.pc = "looping"
      <4>1. taken = << >> /\ Len(<< >>) = 0
        BY <1>1, <3>2 DEF TakenInv
      <4>2. Len(taken) + 1 = 1
        BY <4>1
      <4>3. Read = Len(rows)
        BY <4>2 DEF Read, Before
      <4>4. \A i \in DOMAIN stamped : ~(i > Len(rows))
        BY <1>1, <4>3 DEF PaintedInv
      <4> QED BY <4>4
    <3> QED BY <1>3, <3>1, <3>2
  <2>7. PaintedInv'
    BY <1>3, <1>4, <2>3, <2>4, <2>5, <2>6 DEF PaintedInv, Oldest
  <2> QED BY <2>1, <2>7
<1>6. CASE WorkerDies
  <2>1. /\ UNCHANGED loop
        /\ worker.pc = "reading" /\ worker' = [worker EXCEPT !.pc = "dead"]
    BY <1>6 DEF WorkerDies
  <2>2. /\ worker' = [pc |-> worker'.pc, partial |-> worker.partial, batch |-> worker.batch,
                      beacons |-> worker.beacons]
        /\ worker'.pc = "dead"
    BY <1>1, <2>1, SameWorker
  <2>3. EofInv'
    BY <1>1, <1>3, <1>4, <2>1, <2>2 DEF EofInv
  <2>4. TakenInv' /\ PaintedInv'
    BY <1>5, <2>1
  <2> QED BY <1>3, <1>4, <2>2, <2>3, <2>4, Untouched
<1>7. CASE PipeBreaks
  <2>1. UNCHANGED worker /\ loop.pc = "looping" /\ loop' = [pc |-> "exhausted", failed |-> TRUE]
    BY <1>7 DEF PipeBreaks
  <2>2. EofInv'
    BY <1>1, <1>3, <1>4, <2>1 DEF EofInv
  <2>3. TakenInv' /\ PaintedInv'
    BY <1>5, <2>1
  <2> QED BY <1>2, <1>3, <1>4, <2>1, <2>2, <2>3, Untouched
<1>8. CASE Survey \/ UNCHANGED vars
  <2>1. UNCHANGED <<worker, loop>>
    BY <1>8 DEF Survey, vars
  <2>2. EofInv'
    BY <1>1, <1>3, <1>4, <2>1 DEF EofInv
  <2>3. TakenInv' /\ PaintedInv'
    BY <1>5, <2>1
  <2> QED BY <1>2, <1>3, <1>4, <2>1, <2>2, <2>3, Untouched
<1>9. CASE Interrupt
  <2>1. PICK pc : pc = IF worker.pc = "reading" THEN "dead" ELSE worker.pc
    OBVIOUS
  <2>2. worker' = [worker EXCEPT !.pc = pc] /\ loop' = [loop EXCEPT !.pc = "interrupted"]
    BY <1>9, <2>1 DEF Interrupt
  <2>3. /\ worker' = [pc |-> worker'.pc, partial |-> worker.partial, batch |-> worker.batch,
                      beacons |-> worker.beacons]
        /\ worker'.pc = pc
    BY <1>1, <2>2, SameWorker
  <2>4. loop' = [pc |-> loop'.pc, failed |-> loop'.failed] /\ loop'.pc = "interrupted"
    <3>1. loop' = [pc |-> "interrupted", failed |-> loop.failed]
      BY <1>1, <2>2, SameLoop
    <3> QED BY <3>1
  <2>5. EofInv'
    <3>1. worker'.pc = "ended" <=> worker.pc = "ended"
      BY <2>1, <2>3
    <3>2. worker'.pc \in {"reading", "ended", "dead"} /\ worker'.batch = worker.batch
      BY <1>1, <2>1, <2>3 DEF EofInv
    <3> QED BY <1>1, <1>3, <1>4, <2>4, <3>1, <3>2 DEF EofInv
  <2>6. TakenInv' /\ PaintedInv'
    BY <1>5, <2>4
  <2> QED BY <1>3, <1>4, <2>1, <2>3, <2>5, <2>6, Untouched
<1> QED BY <1>6, <1>7, <1>8, <1>9

\* The invariant holds before capture begins.
LEMMA PipelineBegins ==
  ASSUME Init
  PROVE  PipelineInv
<1>1. /\ delivered = << >> /\ analyzer = NewAnalyzer /\ rows = << >>
      /\ pipe = << >> /\ taken = << >> /\ Messages = << >>
      /\ worker = [pc |-> "reading", partial |-> None, batch |-> << >>, beacons |-> << >>]
      /\ beacons = << >> /\ stamped = << >> /\ loop = [pc |-> "looping", failed |-> FALSE]
      /\ shown = [history |-> << >>, current |-> None, bssids |-> {}]
  BY DEF Init, Messages
<1>2. /\ DOMAIN << >> = {} /\ Len(<< >>) = 0 /\ << >> = [k \in {} |-> << >>[k]]
      /\ Sequence(<< >>)
  <2>1. << >> \in Seq({}) /\ DOMAIN << >> = {} /\ Len(<< >>) = 0
          /\ << >> = [k \in {} |-> << >>[k]]
    OBVIOUS
  <2> QED BY <2>1, IsSequence
<1>3. NextOpen = 0 /\ Now = 0
  BY <1>1 DEF NextOpen, Now
<1>4. FramesInv
  <2>1. << >> \in Seq(Frame)
    OBVIOUS
  <2> QED BY <1>1, <1>2, <2>1 DEF FramesInv
<1>5. WorkerInv
  BY <1>1 DEF WorkerInv
<1>6. RetainsInv
  <2>1. analyzer.records = {} /\ analyzer.buckets = << >>
    BY <1>1 DEF NewAnalyzer
  <2>2. ASSUME NEW s \in Int
        PROVE  Bucket(analyzer, s) = Cardinality(In(s))
    <3>1. In(s) = {}
      BY <1>1, <1>2 DEF In
    <3>2. Cardinality(In(s)) = 0
      BY <3>1, FS_EmptySet, Zenon
    <3>3. s \notin DOMAIN analyzer.buckets
      BY <1>2, <2>1
    <3>4. Bucket(analyzer, s) = 0
      BY <3>3 DEF Bucket
    <3> QED BY <3>2, <3>4
  <2> QED BY <1>1, <1>2, <2>1, <2>2 DEF RetainsInv
<1>7. ClosedInv
  <2>1. AnalyzerShape(NewAnalyzer) /\ NewAnalyzer.ready = {}
    BY DEF AnalyzerShape, NewAnalyzer
  <2> QED BY <1>1, <2>1 DEF ClosedInv
<1>8. Oldest(0) = 1 /\ Later(0 - 1, 0) = 0
  BY AnalyzerAssumption DEF Oldest, Later
<1>9. Upto(shown) = 0
  BY <1>1 DEF Upto
<1>10. SnapshotsInv
  <2>1. analyzer.snapshot.current = None /\ analyzer.snapshot.history = << >>
    BY <1>1 DEF NewAnalyzer, NoSnapshot
  <2>2. Upto(analyzer.snapshot) = 0
    BY <2>1 DEF Upto
  <2>3. DOMAIN << >> = 1..(0 + 1 - Oldest(0))
    BY <1>2, <1>8
  <2>4. Windowed(analyzer.snapshot)
    BY <1>2, <2>1, <2>2, <2>3 DEF Windowed
  <2>5. Upto(analyzer.snapshot) = Later(NextOpen - 1, 0)
    BY <1>3, <1>8, <2>2
  <2> QED BY <1>1, <1>2, <2>4, <2>5 DEF SnapshotsInv
<1>11. ChainInv
  <2>1. Before(1) = 0 /\ worker.batch = << >>
    BY <1>1, <1>2 DEF Before
  <2>2. NextOpen - 1 - Len(worker.batch) = -1 /\ Later(-1, 0) = 0
    BY <1>2, <1>3, <2>1 DEF Later
  <2>3. Len(Messages) + 1 = 1
    BY <1>1, <1>2
  <2> QED BY <1>1, <1>2, <2>1, <2>2, <2>3 DEF ChainInv
<1>12. SamplesInv
  <2>1. ASSUME NEW s \in Samples PROVE FALSE
    <3>1. s \in SamplesOf(rows, Messages, worker.batch)
      BY <2>1 DEF Samples
    <3>2. ToSet(worker.batch) = {}
      BY <1>1, <1>2 DEF ToSet
    <3> QED BY <1>1, <1>2, <3>1, <3>2, SampleIsIn
  <2> HIDE DEF Samples
  <2> QED BY <2>1 DEF SamplesInv
<1>13. PaintedInv
  <2>1. DOMAIN << >> = 1..(0 + 1 - Oldest(0))
    BY <1>2, <1>8
  <2>2. Len(taken) + 1 = 1
    BY <1>1, <1>2
  <2>3. Read = 0
    BY <1>1, <1>2, <2>2 DEF Read, Before
  <2>4. Upto(shown) = 0 /\ shown.history = << >> /\ stamped = << >> /\ rows = << >>
    BY <1>1 DEF Upto
  <2>5. << >> = [k \in DOMAIN << >> |-> << >>[k]] /\ DOMAIN << >> = 1..0
    BY <1>2
  <2>6. Len(rows) = 0
    BY <1>2, <2>4
  <2>7. \A k \in 1..0 : FALSE
    OBVIOUS
  <2> QED BY <2>1, <2>3, <2>4, <2>5, <2>6, <2>7 DEF PaintedInv
<1>17. TakenInv
  BY <1>1, <1>2 DEF TakenInv
<1>14. EofInv
  BY <1>1, <1>2 DEF EofInv
<1>15. BeaconsInv
  <2>1. /\ Sequence(Places) /\ Len(Places) = 2
        /\ Places[1] = << >> /\ Places[2] = << >>
    BY <1>1, <1>2, PlacesNow
  <2>2. DOMAIN Places = 1..2
    BY <2>1, Positions
  <2>3. \A p \in 1..2 : Places[p] = << >>
    BY <2>1
  <2>4. Beacons = {}
    BY <1>1, <1>2 DEF Beacons
  <2> HIDE DEF Places
  <2> QED BY <1>2, <2>1, <2>2, <2>3, <2>4 DEF BeaconsInv, Ordered
<1>16. EmptyInv
  BY <1>1, <1>2 DEF EmptyInv
<1> QED BY <1>4, <1>5, <1>6, <1>7, <1>10, <1>11, <1>12, <1>13, <1>14, <1>15, <1>16, <1>17
        DEF PipelineInv

\* Frames, samples, snapshots and beacons are where they should be, from the
\* first frame on, whatever the batches, and however the capture ends.
THEOREM PipelineIsSound == Spec => []PipelineInv
<1>1. Init => PipelineInv
  BY PipelineBegins
<1>2. PipelineInv /\ [Next]_vars => PipelineInv'
  <2> SUFFICES ASSUME PipelineInv, [Next]_vars
               PROVE  PipelineInv'
    OBVIOUS
  <2>1. CASE Decode
    BY <2>1, DecodeStep
  <2>2. CASE EndBatch
    BY <2>2, EndBatchStep
  <2>3. CASE Eof
    BY <2>3, EofStep
  <2>4. CASE Receive
    BY <2>4, ReceiveStep
  <2>5. CASE Publish
    BY <2>5, PublishStep
  <2>6. CASE Paint
    BY <2>6, PaintStep
  <2>7. CASE Record
    BY <2>7, RecordStep
  <2>8. CASE Received
    BY <2>8, ReceivedStep
  <2>9. CASE WorkerDies \/ PipeBreaks \/ Survey \/ Interrupt \/ UNCHANGED vars
    BY <2>9, OtherStep
  <2> QED BY <2>1, <2>2, <2>3, <2>4, <2>5, <2>6, <2>7, <2>8, <2>9 DEF Next, Take
<1> QED BY <1>1, <1>2, PTL DEF Spec

-----------------------------------------------------------------------------
(* What the runs check.                                                    *)

\* The provisional snapshot holds who beaconed in the window up to the newest
\* frame.
LEMMA ProvisionalIsExact ==
  ASSUME FramesInv, ClosedInv, RetainsInv
  PROVE  RefreshCurrent(analyzer).snapshot.bssids
           = Senders(BeaconsIn(Now - StartOf(Window), Now + 1))
<1>1. CASE delivered = << >>
  <2>1. analyzer = NewAnalyzer
    BY <1>1 DEF ClosedInv
  <2>2. RefreshCurrent(analyzer).snapshot.bssids = {}
    BY <2>1 DEF RefreshCurrent, NewAnalyzer, NoSnapshot
  <2>3. BeaconsIn(Now - StartOf(Window), Now + 1) = {}
    BY <1>1 DEF BeaconsIn
  <2>4. Senders({}) = {}
    BY DEF Senders
  <2> QED BY <2>2, <2>3, <2>4, Zenon
<1>2. CASE delivered # << >>
  <2>1. AnalyzerShape(analyzer) /\ analyzer.reference = Now /\ Now \in Int
    BY <1>2, NewestTime DEF ClosedInv
  <2>2. Now # None /\ Second(Now) \in Int
    BY <2>1, AnalyzerAssumption, SecondOf
  <2>3. PICK b : b = Expire(analyzer, Now)
    OBVIOUS
  <2>4. PICK c : c = RefreshSnapshot(b, Now, Second(Now), None)
    OBVIOUS
  <2>5. RefreshCurrent(analyzer) = c
    BY <2>1, <2>2, <2>3, <2>4 DEF RefreshCurrent
  <2>6. /\ AnalyzerShape(b)
        /\ b.records = {r \in analyzer.records : r.time >= RetainedFrom(Now)}
    BY <2>1, <2>3, Expiring
  <2>7. c.snapshot.bssids = HeardBetween(b, RetainedFrom(Now), None)
    BY <2>2, <2>4, <2>6, Refreshing
  <2>8. ASSUME NEW e
        PROVE  e \in HeardBetween(b, RetainedFrom(Now), None)
                 <=> e \in Senders(BeaconsIn(Now - StartOf(Window), Now + 1))
    <3>1. RetainedFrom(Now) = Now - StartOf(Window)
      BY DEF RetainedFrom
    <3>2. e \in HeardBetween(b, RetainedFrom(Now), None)
            <=> \E r \in analyzer.records : r.time >= RetainedFrom(Now) /\ e = r.bssid
      BY <2>6 DEF HeardBetween
    <3>3. e \in Senders(BeaconsIn(Now - StartOf(Window), Now + 1))
            <=> \E i \in DOMAIN delivered :
                  /\ delivered[i].beacon /\ delivered[i].time >= RetainedFrom(Now)
                  /\ delivered[i].time < Now + 1 /\ e = delivered[i].bssid
      BY <3>1 DEF Senders, BeaconsIn
    <3>4. ASSUME NEW i \in DOMAIN delivered
          PROVE  delivered[i].time < Now + 1
      <4>1. delivered[i].time \in Nat /\ delivered[i].time <= Now
        BY NewestTime
      <4> QED BY <2>1, <4>1
    <3>5. \A r \in analyzer.records : \E i \in DOMAIN delivered :
            delivered[i].beacon /\ r = delivered[i]
      BY DEF RetainsInv
    <3>6. \A i \in DOMAIN delivered :
            delivered[i].beacon /\ delivered[i].time >= RetainedFrom(Now) =>
              delivered[i] \in analyzer.records
      BY DEF RetainsInv
    <3> QED BY <3>2, <3>3, <3>4, <3>5, <3>6
  <2> QED BY <2>5, <2>7, <2>8
<1> QED BY <1>1, <1>2

\* A published second is exact, whatever the batches and delays, and so is the
\* provisional snapshot.
THEOREM SamplesAreExact == Spec => []SamplesExact
<1>1. PipelineInv => SamplesExact
  <2> SUFFICES ASSUME PipelineInv
               PROVE  SamplesExact
    OBVIOUS
  <2>1. FramesInv /\ ClosedInv /\ RetainsInv /\ SamplesInv
    BY DEF PipelineInv
  <2>2. ASSUME NEW i \in DOMAIN rows
        PROVE  Exact(rows[i].sample)
    <3>1. rows[i].sample \in SamplesOf(rows, Messages, worker.batch)
      BY SampleIsIn
    <3>2. rows[i].sample \in Samples
      BY <3>1 DEF Samples
    <3> HIDE DEF Samples, Exact
    <3> QED BY <2>1, <3>2 DEF SamplesInv
  <2>3. RefreshCurrent(analyzer).snapshot.bssids
          = Senders(BeaconsIn(Now - StartOf(Window), Now + 1))
    BY <2>1, ProvisionalIsExact
  <2> QED BY <2>2, <2>3 DEF SamplesExact
<1> QED BY <1>1, PipelineIsSound, PTL

\* The log misses no second and no beacon, and says nothing twice.
THEOREM RowsAreComplete == Spec => []RowsComplete
<1>1. PipelineInv => RowsComplete
  <2> SUFFICES ASSUME PipelineInv
               PROVE  RowsComplete
    OBVIOUS
  <2>1. /\ FramesInv /\ WorkerInv /\ ChainInv /\ EofInv /\ EmptyInv /\ BeaconsInv
        /\ SnapshotsInv
    BY DEF PipelineInv
  <2>2. ASSUME NEW i \in DOMAIN rows
        PROVE  rows[i].second = worker.partial + i
    <3>1. i \in Int /\ rows[i].second = i
      <4>1. DOMAIN rows = 1..Len(rows)
        BY <2>1, Positions DEF ChainInv
      <4> QED BY <2>1, <4>1 DEF ChainInv
    <3>2. delivered # << >>
      <4>1. DOMAIN << >> = {}
        OBVIOUS
      <4> QED BY <2>1, <2>2, <4>1 DEF EmptyInv
    <3>3. worker.partial = 0
      BY <2>1, <3>2 DEF WorkerInv
    <3> QED BY <3>1, <3>3
  <2>3. ASSUME loop.pc = "exhausted", ~loop.failed, delivered # << >>
        PROVE  Len(rows) = IF Second(Now) - 1 - worker.partial > 0
                           THEN Second(Now) - 1 - worker.partial ELSE 0
    <3>1. Messages = << >> /\ worker.batch = << >> /\ NextOpen = Second(Now)
      BY <2>1, <2>3 DEF EofInv, NextOpen
    <3>2. Len(<< >>) = 0
      OBVIOUS
    <3>3. PICK m : m = Second(Now)
      OBVIOUS
    <3>4. m \in Int
      <4>1. Now \in Int
        BY <2>1, NewestTime
      <4> QED BY <3>3, <4>1, SecondOf
    <3>5. Len(rows) = Later(m - 1, 0)
      <4>1. Len(rows) = Before(1)
        BY DEF Before
      <4>2. Len(Messages) + 1 = 1
        BY <3>1, <3>2
      <4>3. NextOpen - 1 - Len(worker.batch) = m - 1
        BY <3>1, <3>2, <3>3, <3>4
      <4>4. Before(1) = Later(m - 1, 0)
        BY <2>1, <4>2, <4>3 DEF ChainInv
      <4> QED BY <4>1, <4>4
    <3>6. worker.partial = 0
      BY <2>1, <2>3 DEF WorkerInv
    <3> QED BY <3>3, <3>4, <3>5, <3>6 DEF Later
  <2>4. /\ DOMAIN Places = DOMAIN Places
        /\ \A p \in DOMAIN Places : \A i \in DOMAIN Places[p] : Places[p][i] \in Beacons
        /\ \A id \in Beacons : \E p \in DOMAIN Places : \E i \in DOMAIN Places[p] :
             Places[p][i] = id
        /\ \A p, q \in DOMAIN Places : \A i \in DOMAIN Places[p], j \in DOMAIN Places[q] :
             p < q \/ (p = q /\ i < j) => Places[p][i] < Places[q][j]
    <3> HIDE DEF Places, Beacons
    <3> QED BY <2>1 DEF BeaconsInv, Ordered
  <2>5. UNION {ToSet(Places[p]) : p \in DOMAIN Places}
          = {i \in DOMAIN delivered : delivered[i].beacon}
    <3> HIDE DEF Places, Beacons
    <3>1. UNION {ToSet(Places[p]) : p \in DOMAIN Places} = Beacons
      <4>1. ASSUME NEW e
            PROVE  e \in UNION {ToSet(Places[p]) : p \in DOMAIN Places} <=> e \in Beacons
        <5>1. e \in UNION {ToSet(Places[p]) : p \in DOMAIN Places}
                <=> \E p \in DOMAIN Places : e \in ToSet(Places[p])
          OBVIOUS
        <5>2. \A p \in DOMAIN Places : e \in ToSet(Places[p])
                <=> \E i \in DOMAIN Places[p] : Places[p][i] = e
          BY DEF ToSet
        <5> QED BY <2>4, <5>1, <5>2
      <4> QED BY <4>1
    <3> QED BY <3>1 DEF Beacons
  <2> HIDE DEF Places
  <2> QED BY <2>2, <2>3, <2>4, <2>5 DEF RowsComplete
<1> QED BY <1>1, PipelineIsSound, PTL

\* The graph is the newest window of the rows it has to show, with the log's
\* readings, also when an interrupt comes while a message is being taken in.
THEOREM GraphMatches == Spec => []GraphMatchesLog
<1>1. PipelineInv => GraphMatchesLog
  <2> SUFFICES ASSUME PipelineInv
               PROVE  GraphMatchesLog
    OBVIOUS
  <2>1. PICK last : last = Upto(shown)
    OBVIOUS
  <2>2. PICK history : history = shown.history
    OBVIOUS
  <2>3. PICK count : count = Len(rows)
    OBVIOUS
  <2>4. /\ Sequence(rows) /\ \A i \in DOMAIN rows : rows[i].second = i
        /\ count \in Nat /\ DOMAIN rows = 1..count
    <3>1. Sequence(rows) /\ \A i \in DOMAIN rows : rows[i].second = i
      BY DEF PipelineInv, ChainInv
    <3> QED BY <2>3, <3>1, Positions
  <2>5. /\ last \in Nat /\ last <= count
        /\ taken = << >> \/ loop.pc = "recording" => last = count
        /\ history = [k \in DOMAIN history |-> history[k]]
        /\ DOMAIN history = 1..(last + 1 - Oldest(last))
        /\ \A k \in DOMAIN history :
             history[k] = [second |-> Oldest(last) + k - 1, cu |-> rows[Oldest(last) + k - 1].cu]
    BY <2>1, <2>2, <2>3 DEF PipelineInv, PaintedInv
  <2>6. /\ Oldest(last) \in Int /\ Oldest(last) >= 1 /\ Oldest(last) >= last + 1 - Window
        /\ Oldest(last) <= last + 1 /\ Window \in Int
    BY <2>5, AnalyzerAssumption DEF Oldest, Later
  <2>7. PICK size : size = last + 1 - Oldest(last)
    OBVIOUS
  <2>8. size \in Nat /\ size <= Window /\ DOMAIN history = 1..size
    BY <2>5, <2>6, <2>7
  <2>9. Len(history) = size
    <3>1. history = [k \in 1..size |-> history[k]]
      BY <2>5, <2>8
    <3> QED BY <2>8, <3>1, FunctionIsSequence
  <2>10. \A i : i \in Due <=> i \in 1..last
    <3>1. CASE loop.pc \in {"publishing", "interrupted"} /\ taken # << >>
      <4>1. shown.current = None => last = 0
        BY <2>1 DEF Upto
      <4>2. shown.current # None => shown.current = last
        BY <2>1 DEF Upto
      <4>3. \A i : i \in Due <=>
              i \in 1..count /\ shown.current # None /\ rows[i].second <= shown.current
        BY <2>4, <3>1 DEF Due
      <4> QED BY <2>4, <2>5, <4>1, <4>2, <4>3
    <3>2. CASE ~(loop.pc \in {"publishing", "interrupted"} /\ taken # << >>)
      <4>1. taken = << >> \/ loop.pc = "recording"
        BY <3>2 DEF PipelineInv, TakenInv
      <4>2. \A i : i \in Due <=> i \in 1..count
        BY <2>4, <3>2 DEF Due
      <4> QED BY <2>5, <4>1, <4>2
    <3> QED BY <3>1, <3>2
  <2>11. ASSUME NEW k \in 1..size
         PROVE  \E i \in Due : history[k] = Point(i)
    <3>1. PICK i : i = Oldest(last) + k - 1
      OBVIOUS
    <3>2. i \in 1..last
      BY <2>5, <2>6, <2>7, <3>1
    <3>3. i \in Due /\ rows[i].second = i
      BY <2>4, <2>5, <2>10, <3>2
    <3>4. history[k] = [second |-> i, cu |-> rows[i].cu]
      BY <2>5, <2>8, <3>1
    <3> QED BY <3>3, <3>4 DEF Point
  <2>12. ToSet(history) \subseteq {Point(i) : i \in Due}
    BY <2>8, <2>11 DEF ToSet
  <2>13. ASSUME NEW i \in Due, \A j \in Due : rows[i].second > rows[j].second - Window
         PROVE  Point(i) \in ToSet(history)
    <3>1. i \in 1..last /\ last \in 1..last
      BY <2>5, <2>10
    <3>2. i \in DOMAIN rows /\ last \in DOMAIN rows
      BY <2>4, <2>5, <3>1
    <3>3. rows[i].second = i /\ rows[last].second = last
      BY <2>4, <3>2
    <3>4. i > last - Window
      <4>1. last \in Due
        BY <2>10, <3>1
      <4> QED BY <2>13, <3>3, <4>1
    <3>5. i >= Oldest(last)
      BY <2>5, <2>6, <3>1, <3>4 DEF Oldest, Later
    <3>6. PICK k : k = i - Oldest(last) + 1
      OBVIOUS
    <3>7. k \in 1..size /\ Oldest(last) + k - 1 = i
      BY <2>5, <2>6, <2>7, <3>1, <3>5, <3>6
    <3>8. history[k] = [second |-> i, cu |-> rows[i].cu]
      BY <2>5, <2>8, <3>7
    <3>9. history[k] \in ToSet(history)
      BY <2>8, <3>7 DEF ToSet
    <3> QED BY <3>3, <3>8, <3>9 DEF Point
  <2> HIDE DEF Due, Point
  <2> QED BY <2>2, <2>8, <2>9, <2>12, <2>13 DEF GraphMatchesLog
<1> QED BY <1>1, PipelineIsSound, PTL
=============================================================================
