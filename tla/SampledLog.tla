----------------------------- MODULE SampledLog -----------------------------
(***************************************************************************)
(* What a log of one live session promises its reader: a series of files,  *)
(* one open at a time, that together hold an ordered sample of the records *)
(* offered.  A file may end with a marker; nothing follows a marker, and   *)
(* nothing is added to a file once it is closed or succeeded.              *)
(***************************************************************************)
EXTENDS Naturals, Sequences

CONSTANT MaxRecords   \* records are numbered 1..MaxRecords as they are offered

VARIABLES
  log,      \* each file: its record numbers, whether marked, whether open
  offered   \* the number of the newest record

vars == <<log, offered>>

\* The rows of every file, in order.
Written == UNION {{log[i].rows[j] : j \in DOMAIN log[i].rows} : i \in DOMAIN log}

Increasing(rows) == \A i, j \in DOMAIN rows : i < j => rows[i] < rows[j]

Init == log = << >> /\ offered = 0

Offer == offered' \in offered + 1 .. MaxRecords /\ UNCHANGED log

NoneOpen == \A i \in DOMAIN log : ~log[i].open

Open ==
  /\ NoneOpen
  /\ log' = Append(log, [rows |-> << >>, ended |-> FALSE, open |-> TRUE])
  /\ UNCHANGED offered

Last == Len(log)

\* Some more records reach the open file, each newer than all before.
Extend ==
  /\ log # << >> /\ log[Last].open /\ ~log[Last].ended
  /\ log' = [log EXCEPT ![Last].rows = log'[Last].rows]
  /\ Len(log[Last].rows) < Len(log'[Last].rows)
  /\ SubSeq(log'[Last].rows, 1, Len(log[Last].rows)) = log[Last].rows
  /\ Increasing(log'[Last].rows)
  /\ \A j \in Len(log[Last].rows) + 1 .. Len(log'[Last].rows) :
       log'[Last].rows[j] <= offered /\ \A r \in Written : r < log'[Last].rows[j]
  /\ UNCHANGED offered

Mark ==
  /\ log # << >> /\ log[Last].open /\ ~log[Last].ended
  /\ log' = [log EXCEPT ![Last].ended = TRUE]
  /\ UNCHANGED offered

Close ==
  /\ log # << >> /\ log[Last].open
  /\ log' = [log EXCEPT ![Last].open = FALSE]
  /\ UNCHANGED offered

Next == Offer \/ Open \/ Extend \/ Mark \/ Close

LogSpec == Init /\ [][Next]_vars
=============================================================================
