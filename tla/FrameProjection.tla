--------------------------- MODULE FrameProjection ---------------------------
(***************************************************************************)
(* What the analyzer derives from frames by their addresses (analyzer.py,  *)
(* host_tracking.py): retry counts per channel and per BSSID, the clients  *)
(* seen and a bounded table of their details.                              *)
(*                                                                         *)
(* In streaming mode, each frame is counted into its second's bucket with  *)
(* the BSSIDs known when it arrives, and forgotten; buckets are merged.    *)
(* Without streaming, frames are retained and projected in one pass.  The  *)
(* frames come in the order of capture, and the window outlasts them.      *)
(*                                                                         *)
(* A frame is [time, bssid, ta, ra, other, kind, retry, bad, primary]:     *)
(* other stands for SA and DA, kind is "beacon", "management" or "data",   *)
(* primary the channel definition a beacon carries.  Addresses are numbers.*)
(***************************************************************************)
EXTENDS Optional, Integers, Sequences, FiniteSets, FiniteSetsExt, SequencesExt

CONSTANTS
  Shapes,      \* bound: the frames captured, without their times
  Targets,     \* target_primary_frequency_mhz, None among them
  Groups,      \* group addresses
  MaxHosts,    \* MAX_HOST_DETAILS
  DefinitionAge, \* channel_definition_max_age_seconds, in ticks
  Ticks,       \* ticks (beacon intervals) in a second
  MaxFrames,   \* bound: frames captured
  MaxTime      \* bound: the last capture time

ASSUME ProjectionAssumption ==
  /\ \A shape \in Shapes : {shape.bssid, shape.ta, shape.ra, shape.other} \subseteq Int \cup {None}
  /\ Ticks \in Nat \ {0} /\ MaxHosts \in Nat \ {0} /\ DefinitionAge \in Nat
  /\ MaxFrames \in Nat /\ MaxTime \in Nat
  /\ None \notin Int

VARIABLES
  target,      \* target_primary_frequency_mhz of this analyzer
  frames,      \* the frames captured, in order
  buckets      \* _streaming_frames_by_second

projectionVars == <<target, frames, buckets>>

Second(time) == time \div Ticks
Now == IF frames = << >> THEN 0 ELSE Last(frames).time

\* No summary, no projection: the counts are zero.
NoCounts == [frames |-> 0, observed |-> 0, eligible |-> 0, retries |-> 0]
NoSummary == [counts |-> NoCounts, first |-> None, last |-> None, clients |-> {}]
NoProjection == [counts |-> NoCounts, by |-> << >>, clients |-> {}, hosts |-> << >>,
                 limited |-> FALSE]

ProjectionInit ==
  /\ target \in Targets
  /\ frames = << >>
  /\ buckets = << >>

-----------------------------------------------------------------------------
(* What a frame is.                                                        *)

\* mac_addresses, in the order of association.
mac_addresses(frame) == <<frame.bssid, frame.ta, frame.ra, frame.other>>

\* retry_exclusion_reason is None, for a frame that is not corrupt.
retry_eligible(frame) ==
  /\ frame.ra \notin Groups /\ frame.other \notin Groups
  /\ frame.retry # None
  /\ frame.kind \in {"data", "management"}   \* those management frames that are retried

\* _associated_bssid: the first address that is a known BSSID, or its own.
Associated(frame, known) ==
  LET macs == mac_addresses(frame)
      matching == {i \in 1..4 : macs[i] # None /\ macs[i] \in known}
  IN IF matching = {} THEN frame.bssid ELSE macs[Min(matching)]

\* The beacons of a BSSID that define its channel, up to that time.
Definitions(records, bssid, time) ==
  {r \in records : r.bssid = bssid /\ r.primary # None /\ r.time <= time}

\* _frame_matches_primary_scope and its streaming twin: the newest definition
\* at the frame's time is fresh and of the target's primary channel.
MatchesPrimary(frame, bssid, records) ==
  \E r \in Definitions(records, bssid, frame.time) :
    /\ \A other \in Definitions(records, bssid, frame.time) : other.time <= r.time
    /\ frame.time - r.time <= DefinitionAge
    /\ r.primary = target

InScope(frame, bssid, records) ==
  target = None \/ (bssid # None /\ MatchesPrimary(frame, bssid, records))

-----------------------------------------------------------------------------
(* Host details (host_tracking.py).                                        *)

\* observe: the counts of one link address, and where it was last active.
Observed(host, mac, frame, bssid, eligible) ==
  LET sent == mac = frame.ta
  IN [bssid |-> IF frame.time >= host.active THEN bssid ELSE host.bssid,
      active |-> Max({host.active, frame.time}),
      tx |-> host.tx + (IF sent THEN 1 ELSE 0),
      rx |-> host.rx + (IF mac = frame.ra THEN 1 ELSE 0),
      eligible |-> host.eligible + (IF sent /\ eligible THEN 1 ELSE 0),
      retries |-> host.retries + (IF sent /\ eligible /\ frame.retry = TRUE THEN 1 ELSE 0)]

NewHost(bssid, time) ==
  [bssid |-> bssid, active |-> time, tx |-> 0, rx |-> 0, eligible |-> 0, retries |-> 0]

\* observe_host: a new address has no place in a full table.
Full(hosts, mac, most) == mac \notin DOMAIN hosts /\ Cardinality(DOMAIN hosts) >= most

WithHost(hosts, mac, frame, bssid, eligible, most) ==
  LET host == IF mac \in DOMAIN hosts THEN hosts[mac] ELSE NewHost(bssid, frame.time)
  IN IF Full(hosts, mac, most) THEN hosts
     ELSE [m \in DOMAIN hosts \cup {mac} |->
             IF m = mac THEN Observed(host, mac, frame, bssid, eligible) ELSE hosts[m]]

\* merge, of what a later second saw of the same address.
JoinedHost(host, later) ==
  [bssid |-> IF later.active >= host.active THEN later.bssid ELSE host.bssid,
   active |-> Max({host.active, later.active}),
   tx |-> host.tx + later.tx, rx |-> host.rx + later.rx,
   eligible |-> host.eligible + later.eligible, retries |-> host.retries + later.retries]

\* The selection of merge_hosts: the addresses active last, at most MaxHosts.
LastActive(projections, mac) ==
  Max({p.hosts[mac].active : p \in {q \in ToSet(projections) : mac \in DOMAIN q.hosts}})
Addresses(projections) == UNION {DOMAIN p.hosts : p \in ToSet(projections)}
Later(projections, m, n) ==
  \/ LastActive(projections, m) > LastActive(projections, n)
  \/ LastActive(projections, m) = LastActive(projections, n) /\ m > n
Ahead(projections, m) == {n \in Addresses(projections) : Later(projections, n, m)}
SelectedHosts(projections) ==
  {m \in Addresses(projections) : Cardinality(Ahead(projections, m)) < MaxHosts}

-----------------------------------------------------------------------------
(* Counting a frame, projecting frames, merging projections.               *)

CountsOf(inScope, frame, eligible) ==
  [frames |-> 1,
   observed |-> IF inScope /\ frame.retry # None THEN 1 ELSE 0,
   eligible |-> IF inScope /\ eligible THEN 1 ELSE 0,
   retries |-> IF inScope /\ eligible /\ frame.retry = TRUE THEN 1 ELSE 0]

Sum(x, y) == [c \in DOMAIN x |-> x[c] + y[c]]

\* The unicast ends of a data frame's link with a known BSSID that are no BSSIDs.
LinkClients(frame, bssid, known) ==
  IF frame.kind # "data" \/ bssid \notin known \/ bssid \notin {frame.ta, frame.ra} THEN {}
  ELSE {frame.ta, frame.ra} \ (known \cup {None} \cup Groups)

\* What a frame says; a corrupt one only that it was there.
Said(frame, known, records) ==
  LET bssid == Associated(frame, known)
      scoped == ~frame.bad /\ InScope(frame, bssid, records)
      eligible == scoped /\ retry_eligible(frame)
  IN [bssid |-> bssid, scoped |-> scoped, eligible |-> eligible,
      counts |-> CountsOf(scoped, frame, eligible),
      clients |-> IF scoped THEN LinkClients(frame, bssid, known) ELSE {}]

SummaryOf(p, bssid) == IF bssid \in DOMAIN p.by THEN p.by[bssid] ELSE NoSummary

Updated(summary, frame, said) ==
  [counts |-> Sum(summary.counts, said.counts),
   first |-> IF summary.first = None THEN frame.time ELSE summary.first,
   last |-> frame.time,
   clients |-> summary.clients \cup said.clients]

\* One end of the frame's link: its host, where it is a client.
Met(hosts, mac, frame, said, most) ==
  IF mac \in said.clients THEN WithHost(hosts, mac, frame, said.bssid, said.eligible, most)
  ELSE hosts
Omitted(hosts, mac, said, most) == mac \in said.clients /\ Full(hosts, mac, most)

\* _accumulate_streaming_frame, and the body of _project_frames's loop.
Accumulated(p, frame, said, most) ==
  LET sent == Met(p.hosts, frame.ta, frame, said, most)
  IN [counts |-> Sum(p.counts, said.counts),
      by |-> IF said.bssid = None \/ ~said.scoped THEN p.by
             ELSE [b \in DOMAIN p.by \cup {said.bssid} |->
                     IF b = said.bssid THEN Updated(SummaryOf(p, b), frame, said) ELSE p.by[b]],
      clients |-> p.clients \cup said.clients,
      hosts |-> Met(sent, frame.ra, frame, said, most),
      limited |-> \/ p.limited
                  \/ Omitted(p.hosts, frame.ta, said, most)
                  \/ Omitted(sent, frame.ra, said, most)]

Counted(p, frame, known, records, most) == Accumulated(p, frame, Said(frame, known, records), most)

\* The projections of the first frames of a sequence.
Passes(some, known, records, most) ==
  LET pass[n \in 0..Len(some)] ==
        IF n = 0 THEN NoProjection ELSE Counted(pass[n - 1], some[n], known, records, most)
  IN pass

\* _project_frames.
Project(some, known, records, most) == Passes(some, known, records, most)[Len(some)]

\* Mutant: the frames of the later second replace the earlier summary's start.
JoinedSummaryRestarted(x, y) ==
  [counts |-> Sum(x.counts, y.counts),
   first |-> IF y.first = None THEN x.first ELSE y.first,
   last |-> IF y.last = None THEN x.last ELSE y.last,
   clients |-> x.clients \cup y.clients]

JoinedSummary(x, y) ==
  [counts |-> Sum(x.counts, y.counts),
   first |-> IF x.first = None THEN y.first ELSE x.first,
   last |-> IF y.last = None THEN x.last ELSE y.last,
   clients |-> x.clients \cup y.clients]

\* The loops of _merge_frame_projections and merge_hosts: one more second.
Absorbed(p, q, selected) ==
  [counts |-> Sum(p.counts, q.counts),
   by |-> [b \in DOMAIN p.by \cup DOMAIN q.by |-> JoinedSummary(SummaryOf(p, b), SummaryOf(q, b))],
   clients |-> p.clients \cup q.clients,
   hosts |-> [m \in DOMAIN p.hosts \cup (DOMAIN q.hosts \cap selected) |->
                IF m \notin DOMAIN q.hosts THEN p.hosts[m]
                ELSE IF m \notin DOMAIN p.hosts THEN q.hosts[m]
                ELSE JoinedHost(p.hosts[m], q.hosts[m])],
   limited |-> p.limited]

Merged(projections, selected) ==
  LET merged[n \in 0..Len(projections)] ==
        IF n = 0 THEN NoProjection ELSE Absorbed(merged[n - 1], projections[n], selected)
  IN merged

\* Mutant: only the merged table's own limit is told.
LimitedMergeOnly(projections) == Cardinality(Addresses(projections)) > MaxHosts

Limited(projections) ==
  \/ \E p \in ToSet(projections) : p.limited
  \/ Cardinality(Addresses(projections)) > MaxHosts

\* _merge_frame_projections: the seconds in order.
Merge(projections) ==
  [Merged(projections, SelectedHosts(projections))[Len(projections)]
     EXCEPT !.limited = Limited(projections)]

-----------------------------------------------------------------------------
(* The streaming analyzer.                                                 *)

\* beacon_record: the beacons it retains.
IsRecord(frame) == frame.kind = "beacon" /\ frame.bssid # None /\ ~frame.bad
Records(some) == {f \in ToSet(some) : IsRecord(f)}
Known(some) == {r.bssid : r \in Records(some)}
\* ingest of one frame by a streaming analyzer.
Ingest(frame) ==
  LET bucket == IF Second(frame.time) \in DOMAIN buckets THEN buckets[Second(frame.time)]
                ELSE NoProjection
      after == Append(frames, frame)
  IN /\ frames' = after
     /\ buckets' = [s \in DOMAIN buckets \cup {Second(frame.time)} |->
          IF s = Second(frame.time)
          THEN Counted(bucket, frame, Known(after), Records(after), MaxHosts)
          ELSE buckets[s]]
     /\ UNCHANGED target

Captured(shape, time) ==
  [time |-> time, bssid |-> shape.bssid, ta |-> shape.ta, ra |-> shape.ra, other |-> shape.other,
   kind |-> shape.kind, retry |-> shape.retry, bad |-> shape.bad, primary |-> shape.primary]

ProjectionNext ==
  /\ Len(frames) < MaxFrames
  /\ \E shape \in Shapes, time \in (IF frames = << >> THEN 0 ELSE Now + 1)..MaxTime :
       Ingest(Captured(shape, time))

ProjectionSpec == ProjectionInit /\ [][ProjectionNext]_projectionVars

-----------------------------------------------------------------------------
(* Properties.                                                             *)

BucketSeq == [i \in 1..(Second(Now) + 1) |->
                IF i - 1 \in DOMAIN buckets THEN buckets[i - 1] ELSE NoProjection]

\* Every BSSID was heard before the frames that are not beacons.
Discovered ==
  \A i, j \in DOMAIN frames :
    IsRecord(frames[i]) /\ ~IsRecord(frames[j]) /\ ~frames[j].bad /\ j < i =>
      \E k \in 1..j : IsRecord(frames[k]) /\ frames[k].bssid = frames[i].bssid

\* Merging the buckets of the seconds gives what one pass over all the frames
\* gives, with every BSSID known from the start: counts, BSSID summaries,
\* clients.  Nothing depends on where a second ends, and forgetting the
\* frames (analyzer.py 1277-1354) loses nothing once the BSSIDs are known.
StreamIsWhole ==
  Discovered /\ frames # << >> =>
    LET whole == Project(frames, Known(frames), Records(frames), 2 * MaxFrames)
        merged == Merge(BucketSeq)
    IN /\ merged.counts = whole.counts
       /\ merged.by = whole.by
       /\ merged.clients = whole.clients

\* The host table is exact or says that it is not: it is limited if and only
\* if there are more clients than it can hold, lists as many as it can hold,
\* clients only, and when it is not limited it has every client's exact counts
\* over all the seconds (host_tracking.py).
HostsHonest ==
  frames # << >> =>
    LET merged == Merge(BucketSeq)
        whole == Project(frames, Known(frames), Records(frames), 2 * MaxFrames)
    IN /\ merged.limited = (Cardinality(merged.clients) > MaxHosts)
       /\ DOMAIN merged.hosts \subseteq merged.clients
       /\ Cardinality(DOMAIN merged.hosts) = Min({MaxHosts, Cardinality(merged.clients)})
       /\ Discovered /\ ~merged.limited => merged.hosts = whole.hosts

=============================================================================
