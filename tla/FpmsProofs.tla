----------------------------- MODULE FpmsProofs -----------------------------
(***************************************************************************)
(* What is proved of Fpms, for any number of sessions and buttons pressed: *)
(* a child's exit is reported once and only when it ended, and launching   *)
(* is refused only while a thread still has to lift the refusal.           *)
(***************************************************************************)
EXTENDS Fpms, SequenceTheorems, TLAPS

(***************************************************************************)
(* What an actor still has to do: steps that end a session or return to    *)
(* the menu, where leaving the page is followed by drawing the menu;       *)
(* steps that only look or act; or a list of its own.                      *)
(***************************************************************************)
ExitStep == {"stop", "wait", "tell", "unregister", "alert", "return", "left", "redraw", "recovered"}
OtherStep == {"dispatch", "check", "find", "launch", "resume", "proxy", "attach", "install", "show",
              "log_only", "find_log", "start_log", "stop_log", "control",
              "frames", "poll", "notice"}
AnyStep == ExitStep \cup OtherStep \cup {"register", "popen", "start", "report", "fail"}

Ending(q) ==
  /\ q \in Seq(ExitStep)
  /\ \A i \in 1..Len(q) : q[i] = "left" => i + 1 \in 1..Len(q) /\ q[i + 1] = "redraw"
Other(q) == q \in Seq(OtherStep)
Registering == <<"register", "popen", "install", "start">>
Opening == <<"popen", "install", "start">>
Starting == {Opening, <<"install", "start">>, <<"start">>}
Listed(q) == Ending(q) \/ Other(q) \/ q \in Starting \cup {Registering, <<"report">>, <<"fail">>}
Rec(q) == \E i \in 1..Len(q) : q[i] = "recovered"

\* What the menu runs, or "" for an entry that is not the adapter's.
Entry == {"launch", "resume", "log_only", "stop_log", "control", ""}

TypeInv ==
  /\ todo \in [Actor -> Seq(AnyStep)] /\ target \in [Actor -> 0..MaxSessions]
  /\ registered \in 0..MaxSessions /\ exit_handler \in 0..MaxSessions /\ selected \in Entry
  /\ launched \in 0..MaxSessions /\ recovering \in BOOLEAN
  /\ child \in [Session -> {"none", "run", "dead"}] /\ reported \in [Session -> {0, 1}]

ListInv == \A a \in Actor : Listed(todo[a])

\* A session that is being launched is nobody else's, and has no thread yet.
StartInv ==
  \A a \in Actor : todo[a] \in Starting =>
    /\ target[a] \in 1..launched /\ todo[target[a]] = << >>
    /\ todo[a] = Opening => child[target[a]] = "none"
    /\ \A b \in Actor : todo[b] \in Starting /\ target[b] = target[a] => b = a

FreshInv == \A s \in Session : s > launched => todo[s] = << >> /\ child[s] = "none"

ReportInv ==
  /\ \A a \in Actor : todo[a] = <<"report">> =>
       target[a] \in Session /\ child[target[a]] = "dead"
  /\ \A s \in Session : reported[s] = 1 => child[s] = "dead"

RecInv == recovering => \E a \in Actor : Rec(todo[a])

Inv == TypeInv /\ ListInv /\ StartInv /\ FreshInv /\ ReportInv /\ RecInv

LEMMA Actors == Session \subseteq Actor /\ Main \in Actor /\ Buttons \in Actor
                  /\ Main \notin Session /\ Buttons \notin Session
BY FpmsAssumption DEF Session, Actor, Main, Buttons

LEMMA InvSuffices == Inv => ExitsReported
BY DEF Inv, TypeInv, ReportInv, RecInv, Rec, ExitsReported

LEMMA InitInv == Init => Inv
<1> SUFFICES ASSUME Init PROVE Inv
  OBVIOUS
<1>1. TypeInv
  <2>1. << >> \in Seq(AnyStep) /\ 0 \in 0..MaxSessions /\ "" \in Entry
    BY FpmsAssumption DEF Entry
  <2> QED
    BY <2>1 DEF Init, TypeInv
<1>2. ListInv
  <2>1. Other(<< >>)
    BY DEF Other
  <2> QED
    BY <2>1 DEF Init, ListInv, Listed
<1>3. StartInv
  BY DEF Init, StartInv, Starting, Opening
<1>4. FreshInv
  BY Actors DEF Init, FreshInv
<1>5. ReportInv
  <2>1. << >> # <<"report">>
    OBVIOUS
  <2>2. \A a \in Actor : todo[a] = << >>
    BY DEF Init
  <2>3. \A s \in Session : reported[s] = 0
    BY DEF Init
  <2>4. \A a \in Actor : todo[a] # <<"report">>
    BY <2>1, <2>2, Zenon
  <2>5. \A s \in Session : reported[s] # 1
    BY <2>3
  <2> QED
    BY <2>4, <2>5 DEF ReportInv
<1>6. RecInv
  BY DEF Init, RecInv
<1> QED
  BY <1>1, <1>2, <1>3, <1>4, <1>5, <1>6 DEF Inv

-----------------------------------------------------------------------------
(* Lists.                                                                  *)

LEMMA ReturningEnds == Ending(Returning) /\ Ending(Leaving) /\ Ending(Recovering) /\ Rec(Recovering)
<1>1. Ending(Returning)
  BY DEF Ending, Returning, ExitStep
<1>2. Ending(Leaving)
  BY DEF Ending, Leaving, ExitStep
<1>3. Ending(Recovering)
  BY DEF Ending, Recovering, ExitStep
<1>4. Recovering[5] = "recovered" /\ 5 \in 1..Len(Recovering)
  BY DEF Recovering
<1> QED
  BY <1>1, <1>2, <1>3, <1>4 DEF Rec

LEMMA StopThenEnds ==
  ASSUME NEW q, Ending(q)
  PROVE  Ending(Stopping \o q) /\ (Rec(q) => Rec(Stopping \o q))
<1> DEFINE r == Stopping \o q
<1>0. q \in Seq(ExitStep) /\ Stopping \in Seq(ExitStep) /\ Len(Stopping) = 4 /\ Len(q) \in Nat
  BY DEF Ending, Stopping, ExitStep
<1>1. r \in Seq(ExitStep) /\ Len(r) = 4 + Len(q)
  <2>1. r \in Seq(ExitStep) /\ Len(r) = Len(Stopping) + Len(q)
    BY <1>0, ConcatProperties, Zenon
  <2> QED
    BY <1>0, <2>1
<1>a. \A i \in 1..Len(Stopping) + Len(q) :
        r[i] = IF i <= Len(Stopping) THEN Stopping[i] ELSE q[i - Len(Stopping)]
  BY <1>0, ConcatProperties, Zenon
<1>2. \A i \in 1..4 : r[i] = Stopping[i] /\ r[i] # "left"
  <2> HIDE DEF r
  <2>1. \A i \in 1..4 : r[i] = Stopping[i]
    BY <1>0, <1>a
  <2>2. \A i \in 1..4 : Stopping[i] # "left"
    BY DEF Stopping
  <2> QED
    BY <2>1, <2>2
<1>3. \A i \in 1..Len(q) : r[4 + i] = q[i]
  <2> HIDE DEF r
  <2> TAKE i \in 1..Len(q)
  <2>1. 4 + i \in 1..4 + Len(q) /\ ~(4 + i <= 4) /\ (4 + i) - 4 = i
    BY <1>0
  <2> QED
    BY <1>0, <1>a, <2>1
<1>4. ASSUME NEW i \in 1..Len(r), r[i] = "left"
      PROVE  i + 1 \in 1..Len(r) /\ r[i + 1] = "redraw"
  <2> HIDE DEF r
  <2>1. i \notin 1..4
    BY <1>2, <1>4
  <2>2. PICK j \in 1..Len(q) : i = 4 + j
    <3>1. i - 4 \in 1..Len(q) /\ i = 4 + (i - 4)
      BY <1>0, <1>1, <2>1
    <3> QED
      BY <3>1
  <2>3. q[j] = "left"
    BY <1>3, <1>4, <2>2
  <2>4. j + 1 \in 1..Len(q) /\ q[j + 1] = "redraw"
    BY <2>3 DEF Ending
  <2>5. r[4 + (j + 1)] = "redraw"
    BY <1>3, <2>4
  <2> QED
    BY <1>0, <1>1, <2>2, <2>4, <2>5
<1>5. ASSUME Rec(q) PROVE Rec(r)
  <2> HIDE DEF r
  <2>1. PICK i \in 1..Len(q) : q[i] = "recovered"
    BY <1>5 DEF Rec
  <2>2. 4 + i \in 1..Len(r) /\ r[4 + i] = "recovered"
    BY <1>0, <1>1, <1>3, <2>1
  <2> QED
    BY <2>2 DEF Rec
<1> QED
  BY <1>1, <1>4, <1>5 DEF Ending

\* What stays to do after the first step, of a list of either kind.
LEMMA EndsOn ==
  ASSUME NEW q, Ending(q), q # << >>
  PROVE  Ending(Tail(q)) /\ (Rec(q) /\ Head(q) # "recovered" => Rec(Tail(q)))
<1>0. q \in Seq(ExitStep) /\ Len(q) \in Nat /\ Len(q) >= 1
  BY DEF Ending
<1>1. Tail(q) \in Seq(ExitStep) /\ Len(Tail(q)) = Len(q) - 1
  BY <1>0
<1>2. \A i \in 1..Len(q) - 1 : Tail(q)[i] = q[i + 1]
  BY <1>0
<1>3. ASSUME NEW i \in 1..Len(Tail(q)), Tail(q)[i] = "left"
      PROVE  i + 1 \in 1..Len(Tail(q)) /\ Tail(q)[i + 1] = "redraw"
  <2>1. i \in 1..Len(q) - 1 /\ i + 1 \in 1..Len(q)
    BY <1>0, <1>1
  <2>2. q[i + 1] = "left"
    BY <1>2, <1>3, <2>1
  <2>3. (i + 1) + 1 \in 1..Len(q) /\ q[(i + 1) + 1] = "redraw"
    BY <2>1, <2>2 DEF Ending
  <2>4. i + 1 \in 1..Len(q) - 1
    BY <1>0, <2>1, <2>3
  <2> QED
    BY <1>1, <1>2, <2>3, <2>4
<1>4. ASSUME Rec(q), Head(q) # "recovered" PROVE Rec(Tail(q))
  <2>1. PICK i \in 1..Len(q) : q[i] = "recovered"
    BY <1>4 DEF Rec
  <2>2. i # 1
    BY <1>0, <1>4, <2>1
  <2>3. PICK j \in 1..Len(q) - 1 : i = j + 1
    <3>1. i - 1 \in 1..Len(q) - 1 /\ i = (i - 1) + 1
      BY <1>0, <2>2
    <3> QED
      BY <3>1
  <2> QED
    BY <1>1, <1>2, <2>1, <2>3 DEF Rec
<1> QED
  BY <1>1, <1>3, <1>4 DEF Ending

LEMMA ThenRedraw ==
  ASSUME NEW q, Ending(q), q # << >>, Head(q) = "left"
  PROVE  Tail(q) # << >> /\ Head(Tail(q)) = "redraw"
<1>1. q \in Seq(ExitStep) /\ Len(q) >= 2 /\ q[2] = "redraw"
  BY DEF Ending
<1>2. Tail(q) \in Seq(ExitStep) /\ Len(Tail(q)) = Len(q) - 1 /\ Tail(q)[1] = q[2]
  BY <1>1
<1>3. Len(Tail(q)) >= 1
  BY <1>1, <1>2
<1>4. Tail(q) # << >>
  BY <1>3
<1>5. Head(Tail(q)) = Tail(q)[1]
  BY <1>1, <1>4
<1> QED
  BY <1>1, <1>2, <1>4, <1>5

LEMMA OthersGoOn ==
  ASSUME NEW q, Other(q), q # << >> PROVE Other(Tail(q)) /\ ~Rec(q)
<1>1. Tail(q) \in Seq(OtherStep)
  BY DEF Other
<1>2. \A i \in 1..Len(q) : q[i] \in OtherStep
  BY DEF Other
<1>3. "recovered" \notin OtherStep
  BY DEF OtherStep
<1> QED
  BY <1>1, <1>2, <1>3 DEF Other, Rec

\* The kind of a list shows in its first step.
LEMMA Kinds ==
  ASSUME NEW q, Listed(q), q # << >>
  PROVE  /\ Head(q) \in ExitStep => Ending(q)
         /\ Head(q) \in OtherStep => Other(q) \/ q = <<"install", "start">>
         /\ Head(q) = "report" => q = <<"report">>
         /\ Head(q) = "fail" => q = <<"fail">>
         /\ Head(q) = "register" => q = Registering
         /\ Head(q) = "popen" => q = Opening
         /\ Head(q) = "start" => q = <<"start">>
<1>1. CASE Ending(q)
  <2>1. Head(q) \in ExitStep
    BY <1>1 DEF Ending
  <2> QED
    BY <1>1, <2>1 DEF ExitStep, OtherStep
<1>2. CASE Other(q)
  <2>1. Head(q) \in OtherStep
    BY <1>2 DEF Other
  <2> QED
    BY <1>2, <2>1 DEF ExitStep, OtherStep
<1>3. CASE q \in Starting \cup {Registering, <<"report">>, <<"fail">>}
  BY <1>3 DEF Starting, Registering, Opening, ExitStep, OtherStep
<1> QED
  BY <1>1, <1>2, <1>3 DEF Listed

LEMMA Apart ==
  ASSUME NEW q, Ending(q) \/ Other(q) \/ q = Registering \/ q = <<"fail">>
  PROVE  q \notin Starting /\ q # <<"report">>
<1>1. CASE Ending(q)
  <2>1. \A i \in 1..Len(q) : q[i] \in ExitStep
    BY <1>1 DEF Ending
  <2> QED
    BY <2>1 DEF ExitStep, Starting, Opening
<1>2. CASE Other(q)
  <2>1. \A i \in 1..Len(q) : q[i] \in OtherStep
    BY <1>2 DEF Other
  <2>2. ASSUME q \in Starting \cup {<<"report">>} PROVE q[Len(q)] \in {"start", "report"} /\ Len(q) \in 1..Len(q)
    BY <2>2 DEF Starting, Opening
  <2> QED
    BY <2>1, <2>2 DEF OtherStep
<1>3. CASE q = Registering \/ q = <<"fail">>
  BY <1>3 DEF Registering, Starting, Opening
<1> QED
  BY <1>1, <1>2, <1>3

LEMMA NotRec ==
  ASSUME NEW q, q \in Starting \cup {Registering, <<"report">>, <<"fail">>} PROVE ~Rec(q)
BY DEF Starting, Registering, Opening, Rec

LEMMA ListsAreLists == ASSUME NEW q, Listed(q) PROVE q \in Seq(AnyStep)
<1>1. ASSUME NEW S, S \subseteq AnyStep, q \in Seq(S) PROVE q \in Seq(AnyStep)
  BY <1>1, SeqMonotonic, Zenon
<1>2. CASE Ending(q)
  <2>1. ExitStep \subseteq AnyStep
    BY DEF AnyStep
  <2>2. q \in Seq(ExitStep)
    BY <1>2 DEF Ending
  <2> QED
    BY <1>1, <2>1, <2>2
<1>3. CASE Other(q)
  <2>1. OtherStep \subseteq AnyStep
    BY DEF AnyStep
  <2>2. q \in Seq(OtherStep)
    BY <1>3 DEF Other
  <2> QED
    BY <1>1, <2>1, <2>2
<1>4. CASE q \in Starting \cup {Registering, <<"report">>, <<"fail">>}
  <2>1. \A x \in {"register", "popen", "install", "start", "report", "fail"} : x \in AnyStep
    BY DEF AnyStep, OtherStep
  <2>2. /\ Registering \in Seq(AnyStep) /\ Opening \in Seq(AnyStep)
        /\ <<"install", "start">> \in Seq(AnyStep) /\ <<"start">> \in Seq(AnyStep)
        /\ <<"report">> \in Seq(AnyStep) /\ <<"fail">> \in Seq(AnyStep)
    BY <2>1 DEF Registering, Opening
  <2> QED
    BY <1>4, <2>2, Zenon DEF Starting
<1> QED
  BY <1>2, <1>3, <1>4 DEF Listed

-----------------------------------------------------------------------------
(* An actor goes on with a list q, for the session t.                      *)

Goes(a, q, t) == todo' = [todo EXCEPT ![a] = q] /\ target' = [target EXCEPT ![a] = t]

\* What becomes of the children and the reports, whoever acts.
Kept ==
  /\ child' \in [Session -> {"none", "run", "dead"}] /\ reported' \in [Session -> {0, 1}]
  /\ \A s \in Session : child[s] = "dead" => child'[s] = "dead"
  /\ \A s \in Session : reported'[s] = 1 => reported[s] = 1 \/ child[s] = "dead"
Named ==
  registered' \in 0..MaxSessions /\ exit_handler' \in 0..MaxSessions /\ selected' \in Entry

LEMMA Moves ==
  ASSUME Inv, NEW a \in Actor, NEW q, NEW t \in 0..MaxSessions,
         todo[a] # << >> \/ a \notin Session,
         Goes(a, q, t), Listed(q), Named, Kept, launched' = launched,
         q \in Starting => todo[a] \in Starting /\ t = target[a] /\ q # Opening,
         q = <<"report">> => t \in Session /\ child[t] = "dead",
         recovering' \in BOOLEAN,
         recovering' => Rec(q) \/ (recovering /\ ~Rec(todo[a])),
         \A s \in Session : child[s] = "none" => 
            child'[s] = "none" \/ (todo[a] = Opening /\ s = target[a])
  PROVE  Inv'
<1> USE DEF Goes
<1>0. TypeInv /\ ListInv /\ StartInv /\ FreshInv /\ ReportInv /\ RecInv
  BY DEF Inv
<1>1. /\ \A b \in Actor : b # a => todo'[b] = todo[b] /\ target'[b] = target[b]
      /\ todo'[a] = q /\ target'[a] = t
  BY <1>0 DEF TypeInv
<1>2. TypeInv'
  <2>1. q \in Seq(AnyStep)
    BY ListsAreLists
  <2>2. todo' \in [Actor -> Seq(AnyStep)] /\ target' \in [Actor -> 0..MaxSessions]
    BY <1>0, <2>1 DEF TypeInv
  <2> QED
    BY <1>0, <2>2 DEF TypeInv, Named, Kept
<1>3. ListInv'
  BY <1>0, <1>1 DEF ListInv
<1>4. StartInv'
  <2> SUFFICES ASSUME NEW b \in Actor, todo'[b] \in Starting
               PROVE  /\ target'[b] \in 1..launched' /\ todo'[target'[b]] = << >>
                      /\ todo'[b] = Opening => child'[target'[b]] = "none"
                      /\ \A c \in Actor : todo'[c] \in Starting /\ target'[c] = target'[b] => c = b
    BY DEF StartInv
  <2>1. \A c \in Actor : todo'[c] \in Starting => todo[c] \in Starting /\ target'[c] = target[c]
                            /\ (todo'[c] = Opening => todo[c] = Opening /\ c # a)
    BY <1>1
  <2>2. /\ target[b] \in 1..launched /\ todo[target[b]] = << >>
        /\ todo[b] = Opening => child[target[b]] = "none"
        /\ \A c \in Actor : todo[c] \in Starting /\ target[c] = target[b] => c = b
    BY <1>0, <2>1 DEF StartInv
  <2>3. target[b] \in Session /\ target[b] \in Actor
    BY <1>0, <2>2, Actors, FpmsAssumption DEF TypeInv, Session
  <2>4. target[b] # a
    BY <2>2, <2>3
  <2>5. todo'[target[b]] = << >>
    BY <1>1, <2>2, <2>3, <2>4
  <2>6. ASSUME todo'[b] = Opening PROVE child'[target[b]] = "none"
    <3>1. b # a /\ todo[b] = Opening /\ child[target[b]] = "none"
      BY <2>1, <2>2, <2>6
    <3>2. Opening \in Starting
      BY DEF Starting
    <3> QED
      BY <2>2, <2>3, <3>1, <3>2
  <2>7. \A c \in Actor : todo'[c] \in Starting /\ target'[c] = target'[b] => c = b
    BY <2>1, <2>2
  <2> QED
    BY <2>1, <2>2, <2>5, <2>6, <2>7
<1>5. FreshInv'
  <2> SUFFICES ASSUME NEW s \in Session, s > launched PROVE todo'[s] = << >> /\ child'[s] = "none"
    BY DEF FreshInv
  <2>1. todo[s] = << >> /\ child[s] = "none" /\ s \in Actor
    BY <1>0, Actors DEF FreshInv
  <2>2. s # a
    BY <2>1
  <2>3. ~(todo[a] = Opening /\ s = target[a])
    <3>1. todo[a] = Opening => target[a] \in 1..launched
      BY <1>0 DEF StartInv, Starting
    <3> QED
      BY <1>0, <3>1 DEF TypeInv, Session
  <2> QED
    BY <1>1, <2>1, <2>2, <2>3
<1>6. ReportInv'
  <2>1. ASSUME NEW b \in Actor, todo'[b] = <<"report">>
        PROVE  target'[b] \in Session /\ child'[target'[b]] = "dead"
    <3>1. target'[b] \in Session /\ child[target'[b]] = "dead"
      BY <1>0, <1>1, <2>1 DEF ReportInv
    <3> QED
      BY <3>1 DEF Kept
  <2>2. \A s \in Session : reported'[s] = 1 => child'[s] = "dead"
    BY <1>0 DEF ReportInv, Kept
  <2> QED
    BY <2>1, <2>2 DEF ReportInv
<1>7. RecInv'
  <2>1. CASE Rec(q)
    BY <1>1, <2>1 DEF RecInv
  <2>2. CASE recovering' /\ ~Rec(q)
    <3>1. PICK b \in Actor : Rec(todo[b])
      BY <1>0, <2>2 DEF RecInv
    <3>2. b # a
      BY <2>2, <3>1
    <3> QED
      BY <1>1, <3>1, <3>2 DEF RecInv
  <2>3. CASE ~recovering'
    BY <2>3 DEF RecInv
  <2> QED
    BY <2>1, <2>2, <2>3
<1> QED
  BY <1>2, <1>3, <1>4, <1>5, <1>6, <1>7 DEF Inv

-----------------------------------------------------------------------------
(* The moves that change neither the children, the reports nor the refusal. *)

Same == UNCHANGED <<recovering, launched, child, reported>>
Plain(q) == Ending(q) \/ Other(q) \/ q = Registering \/ q = <<"fail">>
KeepsOrDrops(a) == UNCHANGED target \/ Drops(a)

\* What the first step of an actor's list says of the list.
Heads(a, step) ==
  /\ todo[a] # << >>
  /\ step \in ExitStep => /\ Ending(todo[a]) /\ Ending(Tail(todo[a]))
                          /\ Rec(todo[a]) /\ step # "recovered" => Rec(Tail(todo[a]))
  /\ step \in OtherStep \ {"install"} => Other(Tail(todo[a]))
  /\ step \notin ExitStep => ~Rec(todo[a])

LEMMA Heading == ASSUME Inv, NEW a \in Actor, NEW step, At(a, step) PROVE Heads(a, step)
<1>0. todo[a] # << >> /\ Head(todo[a]) = step /\ Listed(todo[a])
  BY DEF At, Inv, ListInv
<1>1. ASSUME step \in ExitStep
      PROVE  /\ Ending(todo[a]) /\ Ending(Tail(todo[a]))
             /\ Rec(todo[a]) /\ step # "recovered" => Rec(Tail(todo[a]))
  BY <1>0, <1>1, Kinds, EndsOn
<1>2. ASSUME step \in OtherStep \ {"install"} PROVE Other(Tail(todo[a]))
  <2>1. Other(todo[a])
    BY <1>0, <1>2, Kinds
  <2> QED
    BY <1>0, <2>1, OthersGoOn
<1>3. ASSUME step \notin ExitStep PROVE ~Rec(todo[a])
  <2>1. CASE Ending(todo[a])
    BY <1>0, <1>3, <2>1 DEF Ending
  <2>2. CASE Other(todo[a])
    BY <1>0, <2>2, OthersGoOn
  <2>3. CASE todo[a] \in Starting \cup {Registering, <<"report">>, <<"fail">>}
    BY <2>3, NotRec
  <2> QED
    BY <1>0, <2>1, <2>2, <2>3 DEF Listed
<1> QED
  BY <1>0, <1>1, <1>2, <1>3 DEF Heads

LEMMA Targets ==
  ASSUME Inv, NEW a \in Actor, KeepsOrDrops(a)
  PROVE  \E t \in 0..MaxSessions : target' = [target EXCEPT ![a] = t]
<1>1. 0 \in 0..MaxSessions /\ target[a] \in 0..MaxSessions /\ target = [target EXCEPT ![a] = target[a]]
  BY FpmsAssumption DEF Inv, TypeInv
<1> QED
  BY <1>1 DEF KeepsOrDrops, Drops

LEMMA Goodness == Inv => (UNCHANGED <<child, reported>> => Kept)
BY DEF Inv, TypeInv, Kept

LEMMA GoesTo ==
  ASSUME Inv, NEW a \in Actor, NEW q, todo[a] # << >> \/ a \notin Session,
         Will(a, q), KeepsOrDrops(a), Plain(q), Rec(todo[a]) => Rec(q), Named, Same
  PROVE  Inv'
<1>1. PICK t \in 0..MaxSessions : target' = [target EXCEPT ![a] = t]
  BY Targets
<1>2. Goes(a, q, t)
  BY <1>1 DEF Goes, Will
<1>3. Listed(q) /\ q \notin Starting /\ q # <<"report">>
  BY Apart DEF Plain, Listed
<1>4. Kept
  BY Goodness DEF Same
<1>5. launched' = launched /\ recovering' = recovering /\ child' = child /\ recovering \in BOOLEAN
  BY DEF Same, Inv, TypeInv
<1> QED
  BY <1>2, <1>3, <1>4, <1>5, Moves

\* Any list may follow a step that only looks or acts.
LEMMA GoesAnywhere ==
  ASSUME Inv, NEW a \in Actor, NEW step, step \notin ExitStep, At(a, step), NEW q, Will(a, q),
         KeepsOrDrops(a), Plain(q), Named, Same
  PROVE  Inv'
<1>1. todo[a] # << >> /\ ~Rec(todo[a])
  BY Heading DEF Heads
<1> QED
  BY <1>1, GoesTo

LEMMA GoesOn ==
  ASSUME Inv, NEW a \in Actor, NEW step \in (ExitStep \cup OtherStep) \ {"recovered", "install"},
         At(a, step), Done(a), KeepsOrDrops(a), Named, Same
  PROVE  Inv'
<1>1. Heads(a, step)
  BY Heading
<1>2. todo[a] # << >> /\ Plain(Tail(todo[a])) /\ (Rec(todo[a]) => Rec(Tail(todo[a])))
  BY <1>1 DEF Heads, Plain
<1>3. Will(a, Tail(todo[a]))
  BY DEF Done
<1> HIDE DEF Will
<1> QED
  BY <1>2, <1>3, GoesTo

-----------------------------------------------------------------------------
(* The actions.                                                            *)

LEMMA Names ==
  ASSUME Inv, registered' \in {registered, 0}, exit_handler' \in {exit_handler, 0},
         selected' \in Entry \cup {selected}
  PROVE  Named
BY FpmsAssumption DEF Inv, TypeInv, Named

LEMMA Nothing == Other(<< >>)
BY DEF Other

LEMMA OtherLists ==
  ASSUME NEW S, \A x \in {"check", "find", "launch", "resume", "proxy", "attach", "log_only",
                          "find_log", "start_log", "stop_log", "control"} : x \in S
  PROVE  /\ <<"check", "find", "launch", "proxy", "attach">> \in Seq(S)
         /\ <<"check", "find", "resume", "proxy", "attach">> \in Seq(S)
         /\ <<"log_only", "find_log", "start_log">> \in Seq(S)
         /\ <<"stop_log">> \in Seq(S) /\ <<"control">> \in Seq(S)
OBVIOUS

LEMMA PlainSteps == ASSUME NEW action \in Entry, action # "" PROVE Plain(Steps(action))
<1>1. \A x \in {"check", "find", "launch", "resume", "proxy", "attach", "log_only",
                "find_log", "start_log", "stop_log", "control"} : x \in OtherStep
  BY DEF OtherStep
<1>2. /\ Other(<<"check", "find", "launch", "proxy", "attach">>)
      /\ Other(<<"check", "find", "resume", "proxy", "attach">>)
      /\ Other(<<"log_only", "find_log", "start_log">>)
      /\ Other(<<"stop_log">>) /\ Other(<<"control">>)
  BY <1>1, OtherLists, Zenon DEF Other
<1> QED
  BY <1>2 DEF Steps, Plain, Entry

LEMMA PlainReturns ==
  ASSUME NEW a \in Actor, Returns(a) PROVE \E q : Will(a, q) /\ Plain(q)
<1>1. Plain(Returning) /\ Plain(<< >>)
  BY ReturningEnds, Nothing DEF Plain
<1> HIDE DEF Will
<1> QED
  BY <1>1 DEF Returns

\* The commands of an entry other than the launch.
LEMMA LogsKeep == ASSUME Inv, NEW a \in Actor, Logs(a) PROVE Inv'
<1> USE DEF gVars, childVars, sessionVars
<1>1. ASSUME NEW step \in OtherStep \ {"install"}, At(a, step), Returns(a), UNCHANGED target,
             UNCHANGED <<selected, registered, exit_handler, recovering, launched, child, reported>>
      PROVE  Inv'
  <2>1. PICK q : Will(a, q) /\ Plain(q)
    BY <1>1, PlainReturns
  <2>2. Named /\ Same /\ KeepsOrDrops(a) /\ step \notin ExitStep
    BY <1>1, Names DEF Same, KeepsOrDrops, ExitStep, OtherStep
  <2> QED
    BY <1>1, <2>1, <2>2, GoesAnywhere
<1>2. ASSUME NEW step \in OtherStep \ {"install"}, At(a, step), Done(a), UNCHANGED target,
             UNCHANGED <<selected, registered, exit_handler, recovering, launched, child, reported>>
      PROVE  Inv'
  <2>1. Named /\ Same /\ KeepsOrDrops(a)
    BY <1>2, Names DEF Same, KeepsOrDrops
  <2>2. step \in (ExitStep \cup OtherStep) \ {"recovered", "install"}
    BY DEF OtherStep
  <2> QED
    BY <1>2, <2>1, <2>2, GoesOn
<1>3. CASE Commands(a)
  BY <1>1, <1>3 DEF Commands, OtherStep
<1>4. CASE RequestsLogging(a)
  BY <1>1, <1>2, <1>4 DEF RequestsLogging, OtherStep
<1>5. CASE FindsLog(a)
  BY <1>1, <1>2, <1>5 DEF FindsLog, OtherStep
<1>6. CASE StartsLogging(a)
  BY <1>1, <1>6 DEF StartsLogging, OtherStep
<1>7. CASE StopsLogging(a)
  BY <1>1, <1>7 DEF StopsLogging, OtherStep
<1> QED
  BY <1>3, <1>4, <1>5, <1>6, <1>7 DEF Logs

\* FPMS's own steps.
LEMMA FpmsKeeps == ASSUME Inv, Center \/ Left \/ Turn \/ Dispatch PROVE Inv'
<1> USE DEF gVars, childVars, sessionVars
<1>1. selected \in Entry /\ Actions \subseteq Entry \ {""}
  BY DEF Inv, TypeInv, Actions, Entry
<1>2. Named /\ Same
  <2>1. selected' \in Entry \cup {selected} /\ registered' = registered /\ exit_handler' = exit_handler
    BY <1>1 DEF Center, Left, Turn, Dispatch
  <2> QED
    BY <2>1, Names DEF Center, Left, Turn, Dispatch, Same
<1>3. ~Rec(<< >>)
  BY DEF Rec
<1>4. CASE Center
  <2>1. selected' \in Entry /\ selected' # ""
    BY <1>1, <1>4 DEF Center
  <2>2. Will(Buttons, Steps(selected')) /\ KeepsOrDrops(Buttons) /\ todo[Buttons] = << >>
    BY <1>4 DEF Center, Free, KeepsOrDrops
  <2>3. Plain(Steps(selected'))
    BY <2>1, PlainSteps
  <2> HIDE DEF Will
  <2> QED
    BY <1>2, <1>3, <2>2, <2>3, Actors, GoesTo
<1>5. CASE Left
  <2>1. Will(Buttons, Leaving) /\ KeepsOrDrops(Buttons) /\ todo[Buttons] = << >> /\ Plain(Leaving)
    BY <1>5, ReturningEnds DEF Left, Free, KeepsOrDrops, Plain
  <2> QED
    BY <1>2, <1>3, <2>1, Actors, GoesTo
<1>6. CASE Turn
  <2>1. Other(<<"dispatch">>)
    BY DEF Other, OtherStep
  <2>2. Will(Main, <<"dispatch">>) /\ KeepsOrDrops(Main) /\ todo[Main] = << >>
        /\ Plain(<<"dispatch">>)
    BY <1>6, <2>1 DEF Turn, Free, KeepsOrDrops, Plain
  <2> QED
    BY <1>2, <1>3, <2>2, Actors, GoesTo
<1>7. CASE Dispatch
  <2>1. Plain(<< >>) /\ (selected # "" => Plain(Steps(selected)))
    BY <1>1, Nothing, PlainSteps DEF Plain
  <2>2. PICK q : Will(Main, q) /\ Plain(q)
    <3> HIDE DEF Will
    <3> QED
      BY <1>7, <2>1 DEF Dispatch
  <2>3. At(Main, "dispatch") /\ KeepsOrDrops(Main) /\ "dispatch" \notin ExitStep
    BY <1>7 DEF Dispatch, KeepsOrDrops, ExitStep
  <2> QED
    BY <1>2, <2>2, <2>3, Actors, GoesAnywhere
<1> QED
  BY <1>4, <1>5, <1>6, <1>7

\* Steps that end a session, other than leaving the page and the whole report.
LEMMA StoppingKeeps ==
  ASSUME Inv, NEW a \in Actor,
         StopSession(a) \/ Overlay(a) \/ Unregister(a) \/ ReturnToMenu(a) \/ Redraw(a)
  PROVE  Inv'
<1> USE DEF gVars, childVars, sessionVars
<1>1. Same /\ KeepsOrDrops(a) /\ Done(a)
  BY DEF StopSession, Overlay, Unregister, ReturnToMenu, Redraw, Same, KeepsOrDrops
<1>2. Named
  <2>1. selected' \in Entry \cup {selected}
    BY DEF StopSession, Overlay, Unregister, ReturnToMenu, Redraw, Entry
  <2>2. registered' \in {registered, 0} /\ exit_handler' \in {exit_handler, 0}
    BY DEF StopSession, Overlay, Unregister, ReturnToMenu, Redraw
  <2> QED
    BY <2>1, <2>2, Names
<1>3. PICK step \in {"stop", "tell", "notice", "alert", "unregister", "return", "redraw"} : At(a, step)
  BY DEF StopSession, Overlay, Unregister, ReturnToMenu, Redraw
<1>4. step \in (ExitStep \cup OtherStep) \ {"recovered", "install"}
  BY DEF ExitStep, OtherStep
<1> HIDE DEF Done
<1> QED
  BY <1>1, <1>2, <1>3, <1>4, GoesOn

LEMMA LeavePageKeeps == ASSUME Inv, NEW a \in Actor, LeavePage(a) PROVE Inv'
<1> USE DEF gVars, childVars, sessionVars
<1> DEFINE q == todo[a]
<1>1. /\ q # << >> /\ Ending(q) /\ Ending(Tail(q)) /\ (Rec(q) => Rec(Tail(q))) /\ Head(q) = "left"
  BY Heading DEF LeavePage, Heads, ExitStep, At
<1>2. Tail(q) # << >> /\ Head(Tail(q)) = "redraw"
  BY <1>1, ThenRedraw
<1>3. Ending(Tail(Tail(q))) /\ (Rec(q) => Rec(Tail(Tail(q))))
  BY <1>1, <1>2, EndsOn
<1>4. Ending(Stopping \o Tail(q)) /\ (Rec(q) => Rec(Stopping \o Tail(q)))
  BY <1>1, StopThenEnds
<1>5. PICK r : Will(a, r) /\ Ending(r) /\ (Rec(q) => Rec(r))
  <2> HIDE DEF Will
  <2> QED
    BY <1>1, <1>3, <1>4 DEF LeavePage
<1>6. PICK t \in 0..MaxSessions : target' = [target EXCEPT ![a] = t]
  <2>1. exit_handler \in 0..MaxSessions /\ (UNCHANGED target => KeepsOrDrops(a))
    BY DEF Inv, TypeInv, KeepsOrDrops
  <2> QED
    BY <2>1, Targets DEF LeavePage
<1>7. Named
  <2>1. selected' \in Entry \cup {selected} /\ registered' \in {registered, 0}
          /\ exit_handler' \in {exit_handler, 0}
    BY DEF LeavePage, Entry
  <2> QED
    BY <2>1, Names
<1>8. Same
  BY DEF LeavePage, Same
<1>9. Goes(a, r, t) /\ Listed(r) /\ r \notin Starting /\ r # <<"report">>
  BY <1>5, <1>6, Apart DEF Goes, Will, Listed
<1>10. Kept
  BY <1>8, Goodness DEF Same
<1>11. launched' = launched /\ recovering' = recovering /\ child' = child /\ recovering \in BOOLEAN
  BY <1>8 DEF Same, Inv, TypeInv
<1> QED
  BY <1>1, <1>5, <1>7, <1>9, <1>10, <1>11, Moves

\* The steps that set the refusal, lift it, or end a child.
LEMMA RecoveryKeeps ==
  ASSUME Inv, NEW a \in Actor, ReportExit(a) \/ Recovered(a) \/ LaunchFails(a) \/ ChildStopped(a)
  PROVE  Inv'
<1> USE DEF gVars, childVars, sessionVars
<1>0. target[a] \in 0..MaxSessions /\ recovering \in BOOLEAN
        /\ child \in [Session -> {"none", "run", "dead"}] /\ reported \in [Session -> {0, 1}]
  BY DEF Inv, TypeInv
<1>1. Named
  <2>1. registered' = registered /\ exit_handler' = exit_handler /\ selected' = selected
    BY DEF ReportExit, Recovered, LaunchFails, ChildStopped
  <2> QED
    BY <2>1, Names
<1>2. launched' = launched
  BY DEF ReportExit, Recovered, LaunchFails, ChildStopped
<1>3. PICK t \in 0..MaxSessions : target' = [target EXCEPT ![a] = t]
  <2>1. KeepsOrDrops(a)
    BY DEF ReportExit, Recovered, LaunchFails, ChildStopped, KeepsOrDrops
  <2> QED
    BY <2>1, Targets
<1>4. CASE Recovered(a)
  <2>1. Heads(a, "recovered") /\ Will(a, Tail(todo[a])) /\ ~recovering' /\ UNCHANGED <<child, reported>>
    BY <1>4, Heading DEF Recovered, Done
  <2>2. Ending(Tail(todo[a])) /\ todo[a] # << >>
    BY <2>1 DEF Heads, ExitStep
  <2>3. PICK q : q = Tail(todo[a])
    OBVIOUS
  <2>4. Goes(a, q, t) /\ Listed(q) /\ q \notin Starting /\ q # <<"report">>
    BY <1>3, <2>1, <2>2, <2>3, Apart DEF Goes, Will, Listed
  <2>5. Kept /\ recovering' \in BOOLEAN /\ child' = child
    BY <1>4, <2>1, Goodness DEF Recovered
  <2> QED
    BY <1>1, <1>2, <2>1, <2>2, <2>4, <2>5, Moves
<1>5. CASE LaunchFails(a)
  <2>1. Will(a, Recovering) /\ todo[a] # << >> /\ recovering' = TRUE /\ UNCHANGED <<child, reported>>
    BY <1>5 DEF LaunchFails, At
  <2>2. PICK q : q = Recovering
    OBVIOUS
  <2>3. Ending(q) /\ Rec(q)
    BY <2>2, ReturningEnds
  <2>4. Goes(a, q, t) /\ Listed(q) /\ q \notin Starting /\ q # <<"report">>
    BY <1>3, <2>1, <2>2, <2>3, Apart DEF Goes, Will, Listed
  <2>5. Kept /\ recovering' \in BOOLEAN /\ child' = child
    BY <2>1, Goodness
  <2> QED
    BY <1>1, <1>2, <2>1, <2>3, <2>4, <2>5, Moves
<1>6. CASE ChildStopped(a)
  <2>1. Heads(a, "wait") /\ Will(a, Tail(todo[a])) /\ UNCHANGED <<recovering, reported>>
    BY <1>6, Heading DEF ChildStopped, Done
  <2>2. Ending(Tail(todo[a])) /\ todo[a] # << >> /\ (Rec(todo[a]) => Rec(Tail(todo[a])))
    BY <2>1 DEF Heads, ExitStep
  <2>3. PICK q : q = Tail(todo[a])
    OBVIOUS
  <2>4. Goes(a, q, t) /\ Listed(q) /\ q \notin Starting /\ q # <<"report">>
    BY <1>3, <2>1, <2>2, <2>3, Apart DEF Goes, Will, Listed
  <2>5. \A s \in Session : child'[s] = IF s = target[a] /\ child[s] = "run" THEN "dead" ELSE child[s]
    BY <1>0, <1>6 DEF ChildStopped
  <2>6. child' \in [Session -> {"none", "run", "dead"}]
    BY <1>0, <1>6 DEF ChildStopped
  <2>7. Kept
    BY <1>0, <2>1, <2>5, <2>6 DEF Kept
  <2> QED
    BY <1>0, <1>1, <1>2, <2>1, <2>2, <2>3, <2>4, <2>5, <2>7, Moves
<1>7. CASE ReportExit(a)
  <2>1. At(a, "report") /\ UNCHANGED child
    BY <1>7 DEF ReportExit
  <2>2. todo[a] = <<"report">> /\ todo[a] # << >> /\ ~Rec(todo[a])
    BY <2>1, Kinds, NotRec DEF At, Inv, ListInv
  <2>3. target[a] \in Session /\ child[target[a]] = "dead"
    BY <2>2 DEF Inv, ReportInv
  <2>4. CASE Will(a, << >>) /\ UNCHANGED <<reported, recovering>>
    <3>1. Same /\ KeepsOrDrops(a) /\ Plain(<< >>) /\ "report" \notin ExitStep
      BY <1>2, <1>7, <2>1, <2>4, Nothing DEF Same, KeepsOrDrops, ReportExit, Plain, ExitStep
    <3> QED
      BY <1>1, <2>1, <2>4, <3>1, GoesAnywhere
  <2>5. CASE /\ Will(a, Stopping \o Recovering) /\ reported[target[a]] = 0
             /\ reported' = [reported EXCEPT ![target[a]] = @ + 1] /\ recovering' = TRUE
    <3>1. PICK q : q = Stopping \o Recovering
      OBVIOUS
    <3>2. Ending(q) /\ Rec(q)
      BY <3>1, ReturningEnds, StopThenEnds
    <3>3. Goes(a, q, t) /\ Listed(q) /\ q \notin Starting /\ q # <<"report">>
      BY <1>3, <2>5, <3>1, <3>2, Apart DEF Goes, Will, Listed
    <3>4. reported' = [reported EXCEPT ![target[a]] = 1]
      BY <1>0, <2>3, <2>5
    <3>5. Kept
      BY <1>0, <2>1, <2>3, <3>4 DEF Kept
    <3> QED
      BY <1>1, <1>2, <2>1, <2>2, <2>5, <3>2, <3>3, <3>5, Moves
  <2>6. reported[target[a]] \in {0, 1}
    BY <1>0, <2>3
  <2> HIDE DEF Will
  <2>7. CASE reported[target[a]] > 0 \/ stop_event[target[a]]
    BY <1>7, <2>4, <2>7 DEF ReportExit
  <2>8. CASE ~(reported[target[a]] > 0 \/ stop_event[target[a]])
    <3>1. reported[target[a]] = 0
      BY <2>6, <2>8
    <3>2. /\ Will(a, Stopping \o Recovering) /\ recovering' = TRUE
          /\ reported' = [reported EXCEPT ![target[a]] = @ + 1]
      BY <1>7, <2>8, Zenon DEF ReportExit
    <3> QED
      BY <2>5, <3>1, <3>2
  <2> QED
    BY <2>7, <2>8
<1> QED
  BY <1>4, <1>5, <1>6, <1>7

\* A session whose child ended is reported; a registered one is otherwise left as it is.
LEMMA ReportsKeep ==
  ASSUME Inv, NEW a \in Actor, NEW step \in OtherStep, At(a, step), Named, Same,
         NEW s \in Session, Will(a, <<"report">>), target' = [target EXCEPT ![a] = s],
         child[s] = "dead"
  PROVE  Inv'
<1>1. todo[a] # << >> /\ ~Rec(todo[a])
  BY Heading DEF Heads, OtherStep, ExitStep
<1>2. Goes(a, <<"report">>, s) /\ Listed(<<"report">>) /\ s \in 0..MaxSessions
  BY DEF Goes, Will, Listed, Session
<1>3. <<"report">> \notin Starting
  BY DEF Starting, Opening
<1>4. Kept /\ launched' = launched /\ recovering' = recovering /\ child' = child
        /\ recovering \in BOOLEAN
  BY Goodness DEF Same, Inv, TypeInv
<1> QED
  BY <1>1, <1>2, <1>3, <1>4, Moves

LEMMA ThreadKeeps == ASSUME Inv, NEW s \in Session, Frames(s) \/ Polls(s) PROVE Inv'
<1> USE DEF gVars, childVars, sessionVars
<1>1. Same /\ Named /\ s \in Actor
  <2>1. registered' = registered /\ exit_handler' = exit_handler /\ selected' = selected
    BY DEF Frames, Polls
  <2> QED
    BY <2>1, Names, Actors DEF Frames, Polls, Same
<1>2. Plain(<< >>) /\ Plain(<<"poll">>) /\ Plain(<<"notice", "poll">>) /\ Plain(<<"frames">>)
  <2>1. "poll" \in OtherStep /\ "notice" \in OtherStep /\ "frames" \in OtherStep
    BY DEF OtherStep
  <2> QED
    BY <2>1 DEF Plain, Other
<1>3. "frames" \in OtherStep \ ExitStep /\ "poll" \in OtherStep \ ExitStep
  BY DEF OtherStep, ExitStep
<1>4. CASE Frames(s)
  <2>1. PICK q : Will(s, q) /\ Plain(q)
    <3> HIDE DEF Will
    <3> QED
      BY <1>2, <1>4 DEF Frames
  <2>2. At(s, "frames") /\ KeepsOrDrops(s)
    BY <1>4 DEF Frames, KeepsOrDrops
  <2> QED
    BY <1>1, <1>3, <2>1, <2>2, GoesAnywhere
<1>5. CASE Polls(s)
  <2>1. At(s, "poll")
    BY <1>5 DEF Polls
  <2>2. CASE child[s] = "dead"
    BY <1>1, <1>3, <1>5, <2>1, <2>2, ReportsKeep DEF Polls
  <2>3. CASE child[s] # "dead"
    <3>1. Will(s, <<"frames">>) /\ KeepsOrDrops(s)
      BY <1>5, <2>3 DEF Polls, KeepsOrDrops
    <3> QED
      BY <1>1, <1>2, <1>3, <2>1, <3>1, GoesAnywhere
  <2> QED
    BY <2>2, <2>3
<1> QED
  BY <1>4, <1>5

\* A launch up to the registration.
LEMMA LooksKeep ==
  ASSUME Inv, NEW a \in Actor,
         ChecksRecovery(a) \/ FindsSession(a) \/ LooksUp(a) \/ ChecksProxy(a) \/ Attaches(a)
  PROVE  Inv'
<1> USE DEF gVars, childVars, sessionVars
<1>1. Same /\ Named
  <2>1. registered' = registered /\ exit_handler' = exit_handler /\ selected' = selected
    BY DEF ChecksRecovery, FindsSession, LooksUp, ChecksProxy, Attaches
  <2> QED
    BY <2>1, Names DEF ChecksRecovery, FindsSession, LooksUp, ChecksProxy, Attaches, Same
<1>2. PICK step \in {"check", "find", "launch", "resume", "proxy", "attach"} : At(a, step)
  BY DEF ChecksRecovery, FindsSession, LooksUp, ChecksProxy, Attaches
<1>3. step \in OtherStep \ {"install"} /\ step \notin ExitStep /\ step # "recovered"
  BY DEF OtherStep, ExitStep
<1>4. ASSUME Done(a), KeepsOrDrops(a) PROVE Inv'
  BY <1>1, <1>2, <1>3, <1>4, GoesOn
<1>5. ASSUME Will(a, << >>), KeepsOrDrops(a) PROVE Inv'
  <2>1. Plain(<< >>)
    BY Nothing DEF Plain
  <2> QED
    BY <1>1, <1>2, <1>3, <1>5, <2>1, GoesAnywhere
<1>6. ASSUME registered # 0, Existing(a, registered) PROVE Inv'
  <2>1. registered \in Session
    BY <1>6, FpmsAssumption DEF Inv, TypeInv, Session
  <2> HIDE DEF Will
  <2>2. CASE child[registered] = "dead"
    BY <1>1, <1>2, <1>3, <1>6, <2>1, <2>2, ReportsKeep DEF Existing
  <2>3. CASE child[registered] # "dead"
    BY <1>5, <1>6, <2>3 DEF Existing, KeepsOrDrops
  <2> QED
    BY <2>2, <2>3
<1> HIDE DEF Will, Done, Existing
<1>7. CASE ChecksRecovery(a)
  BY <1>4, <1>5, <1>7 DEF ChecksRecovery, KeepsOrDrops
<1>8. CASE FindsSession(a)
  BY <1>4, <1>6, <1>8 DEF FindsSession, KeepsOrDrops
<1>9. CASE LooksUp(a)
  BY <1>4, <1>5, <1>9 DEF LooksUp, KeepsOrDrops
<1>10. CASE ChecksProxy(a)
  BY <1>4, <1>5, <1>10 DEF ChecksProxy, KeepsOrDrops
<1>11. CASE Attaches(a)
  <2>1. CASE registered = 0
    <3>1. Will(a, Registering) /\ KeepsOrDrops(a)
      BY <1>11, <2>1 DEF Attaches, KeepsOrDrops, Registering
    <3>2. Plain(Registering)
      BY DEF Plain
    <3> QED
      BY <1>1, <1>2, <1>3, <3>1, <3>2, GoesAnywhere
  <2>2. CASE registered # 0 /\ child[registered] = "dead"
    BY <1>6, <1>11, <2>2 DEF Attaches
  <2>3. CASE registered # 0 /\ child[registered] # "dead"
    <3>1. PICK q : q = <<"install", "show">>
      OBVIOUS
    <3>2. Other(q)
      BY <3>1 DEF Other, OtherStep
    <3>3. Goes(a, q, registered)
      BY <1>11, <2>3, <3>1 DEF Attaches, Goes, Will
    <3>4. Listed(q) /\ q \notin Starting /\ q # <<"report">>
      BY <3>2, Apart DEF Listed
    <3>5. Kept /\ launched' = launched /\ recovering' = recovering /\ child' = child
            /\ recovering \in BOOLEAN /\ registered \in 0..MaxSessions
      BY <1>1, Goodness DEF Same, Inv, TypeInv
    <3>6. todo[a] # << >> /\ ~Rec(todo[a])
      BY <1>2, <1>3, Heading DEF Heads
    <3> QED
      BY <1>1, <3>3, <3>4, <3>5, <3>6, Moves
  <2> QED
    BY <2>1, <2>2, <2>3
<1> QED
  BY <1>7, <1>8, <1>9, <1>10, <1>11

\* The child is started, and the handlers installed.
LEMMA OpeningKeeps == ASSUME Inv, NEW a \in Actor, StartsChild(a) \/ InstallsHandlers(a) PROVE Inv'
<1> USE DEF gVars, childVars, sessionVars
<1>0. /\ target[a] \in 0..MaxSessions /\ target = [target EXCEPT ![a] = target[a]]
      /\ 0 \in 0..MaxSessions /\ recovering \in BOOLEAN
      /\ child \in [Session -> {"none", "run", "dead"}] /\ reported \in [Session -> {0, 1}]
      /\ registered \in 0..MaxSessions /\ exit_handler \in 0..MaxSessions /\ selected \in Entry
  BY FpmsAssumption DEF Inv, TypeInv
<1>1. Named
  BY <1>0 DEF StartsChild, InstallsHandlers, Named
<1>2. launched' = launched /\ recovering' = recovering /\ reported' = reported
  BY DEF StartsChild, InstallsHandlers
<1>3. <<"install", "start">> \in Starting /\ <<"start">> \in Starting /\ Opening \in Starting
  BY DEF Starting
<1>4. CASE InstallsHandlers(a)
  <2>1. todo[a] # << >> /\ Listed(todo[a]) /\ Head(todo[a]) = "install"
    BY <1>4 DEF InstallsHandlers, At, Inv, ListInv
  <2>2. Other(todo[a]) \/ todo[a] = <<"install", "start">>
    BY <2>1, Kinds DEF OtherStep
  <2>3. Will(a, Tail(todo[a])) /\ KeepsOrDrops(a) /\ child' = child
    BY <1>4 DEF InstallsHandlers, Done, KeepsOrDrops
  <2>4. CASE Other(todo[a])
    <3>1. Plain(Tail(todo[a])) /\ ~Rec(todo[a])
      BY <2>1, <2>4, OthersGoOn DEF Plain
    <3>2. Same
      BY <1>2, <2>3 DEF Same
    <3> HIDE DEF Will
    <3> QED
      BY <1>1, <2>1, <2>3, <3>1, <3>2, GoesTo
  <2>5. CASE todo[a] = <<"install", "start">>
    <3>1. PICK q : q = <<"start">>
      OBVIOUS
    <3>2. Goes(a, q, target[a])
      BY <1>0, <1>4, <2>3, <2>5, <3>1 DEF InstallsHandlers, Goes, Will
    <3>3. Listed(q) /\ q # Opening /\ q # <<"report">> /\ q \in Starting /\ todo[a] \in Starting
      BY <1>3, <2>5, <3>1 DEF Listed, Opening
    <3>4. Kept
      BY <1>2, <2>3, Goodness
    <3>5. ~Rec(todo[a])
      BY <1>3, <2>5, NotRec
    <3> QED
      BY <1>0, <1>1, <1>2, <2>1, <2>3, <3>2, <3>3, <3>4, <3>5, Moves
  <2> QED
    BY <2>2, <2>4, <2>5
<1>5. CASE StartsChild(a)
  <2>1. todo[a] # << >> /\ Listed(todo[a]) /\ Head(todo[a]) = "popen"
    BY <1>5 DEF StartsChild, At, Inv, ListInv
  <2>2. todo[a] = Opening /\ ~Rec(todo[a])
    BY <1>3, <2>1, Kinds, NotRec
  <2>3. target[a] \in Session /\ child[target[a]] = "none"
    BY <1>3, <2>2, FpmsAssumption DEF Inv, StartInv, TypeInv, Session
  <2>4. CASE Done(a) /\ child' = [child EXCEPT ![target[a]] = "run"] /\ UNCHANGED target
    <3>1. PICK q : q = <<"install", "start">>
      OBVIOUS
    <3>2. Goes(a, q, target[a])
      BY <1>0, <2>2, <2>4, <3>1 DEF Goes, Done, Will, Opening
    <3>3. Listed(q) /\ q # Opening /\ q # <<"report">> /\ q \in Starting /\ todo[a] \in Starting
      BY <1>3, <2>2, <3>1 DEF Listed, Opening
    <3>4. Kept
      BY <1>0, <1>2, <2>3, <2>4 DEF Kept
    <3>5. \A s \in Session : s # target[a] => child'[s] = child[s]
      BY <1>0, <2>4
    <3> QED
      BY <1>0, <1>1, <1>2, <2>1, <2>2, <3>2, <3>3, <3>4, <3>5, Moves
  <2>5. CASE Will(a, <<"fail">>) /\ Drops(a) /\ UNCHANGED child
    <3>1. Same /\ KeepsOrDrops(a) /\ Plain(<<"fail">>) /\ At(a, "popen") /\ "popen" \notin ExitStep
      BY <1>2, <1>5, <2>5 DEF Same, KeepsOrDrops, Plain, StartsChild, ExitStep
    <3> QED
      BY <1>1, <2>5, <3>1, GoesAnywhere
  <2> QED
    BY <1>5, <2>4, <2>5 DEF StartsChild
<1> QED
  BY <1>4, <1>5

\* A new session.
LEMMA RegistersKeeps == ASSUME Inv, NEW a \in Actor, Registers(a) PROVE Inv'
<1> USE DEF gVars, childVars, sessionVars
<1>0. TypeInv /\ ListInv /\ StartInv /\ FreshInv /\ ReportInv /\ RecInv
  BY DEF Inv
<1>1. todo[a] = Registering /\ todo[a] # << >> /\ At(a, "register")
  BY <1>0, Kinds DEF Registers, At, ListInv
<1>2. CASE Will(a, << >>) /\ UNCHANGED <<launched, registered, target>>
  <2>1. Named
    BY <1>2, Names DEF Registers
  <2>2. Same /\ KeepsOrDrops(a) /\ Plain(<< >>) /\ "register" \notin ExitStep
    BY <1>2, Nothing DEF Registers, Same, KeepsOrDrops, Plain, ExitStep
  <2> QED
    BY <1>1, <1>2, <2>1, <2>2, GoesAnywhere
<1>3. CASE /\ launched # MaxSessions /\ Done(a) /\ launched' = launched + 1
           /\ registered' = launched' /\ target' = [target EXCEPT ![a] = launched']
  <2> DEFINE n == launched + 1
  <2>1. n \in Session /\ n \in 1..MaxSessions /\ n \in Actor /\ launched \in Nat
    BY <1>0, <1>3, Actors, FpmsAssumption DEF TypeInv, Session
  <2>2. todo' = [todo EXCEPT ![a] = Opening] /\ target' = [target EXCEPT ![a] = n]
    BY <1>1, <1>3 DEF Done, Will, Registering, Opening
  <2>3. /\ child' = child /\ reported' = reported /\ recovering' = recovering
        /\ exit_handler' = exit_handler /\ selected' = selected
    BY DEF Registers
  <2> HIDE DEF n
  <2>4. /\ \A b \in Actor : b # a => todo'[b] = todo[b] /\ target'[b] = target[b]
        /\ todo'[a] = Opening /\ target'[a] = n
    BY <1>0, <2>2 DEF TypeInv
  <2>5. Listed(Opening) /\ Opening \in Starting /\ Opening # <<"report">> /\ ~Rec(Registering)
    BY NotRec DEF Listed, Starting, Opening
  <2>6. todo[n] = << >> /\ child[n] = "none" /\ n # a
    BY <1>0, <1>1, <2>1 DEF FreshInv, n
  <2>7. TypeInv'
    <3>1. Opening \in Seq(AnyStep)
      BY <2>5, ListsAreLists
    <3>2. todo' \in [Actor -> Seq(AnyStep)] /\ target' \in [Actor -> 0..MaxSessions]
      BY <1>0, <2>1, <2>2, <3>1 DEF TypeInv
    <3>3. launched' \in 0..MaxSessions /\ registered' \in 0..MaxSessions
      BY <1>3, <2>1 DEF n
    <3> QED
      BY <1>0, <2>3, <3>2, <3>3 DEF TypeInv
  <2>8. ListInv'
    BY <1>0, <2>4, <2>5 DEF ListInv
  <2>9. StartInv'
    <3>1. ASSUME NEW b \in Actor, b # a, todo'[b] \in Starting
          PROVE  /\ target[b] \in 1..launched /\ todo[target[b]] = << >>
                 /\ todo[b] = Opening => child[target[b]] = "none"
                 /\ \A c \in Actor : todo[c] \in Starting /\ target[c] = target[b] => c = b
      BY <1>0, <2>4, <3>1 DEF StartInv
    <3>2. ASSUME NEW b \in Actor, b # a, todo'[b] \in Starting
          PROVE  target'[b] # n /\ target'[b] \in 1..n /\ todo'[target'[b]] = << >>
      <4>1. target[b] \in 1..launched /\ todo[target[b]] = << >> /\ target'[b] = target[b]
        BY <2>4, <3>1, <3>2
      <4>2. target[b] \in Actor /\ target[b] # a /\ target[b] # n /\ target[b] \in 1..n
        BY <1>0, <1>1, <2>1, <4>1, Actors, FpmsAssumption DEF n, Session
      <4> QED
        BY <2>4, <4>1, <4>2
    <3>3. n \in 1..n /\ todo'[n] = << >> /\ child'[n] = "none"
      BY <2>1, <2>3, <2>4, <2>6
    <3>4. ASSUME NEW b \in Actor, todo'[b] \in Starting
          PROVE  /\ target'[b] \in 1..launched' /\ todo'[target'[b]] = << >>
                 /\ todo'[b] = Opening => child'[target'[b]] = "none"
                 /\ \A c \in Actor : todo'[c] \in Starting /\ target'[c] = target'[b] => c = b
      <4>1. CASE b = a
        <5>1. \A c \in Actor : todo'[c] \in Starting /\ target'[c] = n => c = a
          BY <3>2
        <5> QED
          BY <1>3, <2>4, <3>3, <4>1, <5>1 DEF n
      <4>2. CASE b # a
        <5>1. ASSUME NEW c \in Actor, todo'[c] \in Starting, target'[c] = target'[b] PROVE c = b
          <6>1. c # a
            BY <2>4, <3>2, <3>4, <4>2, <5>1
          <6>2. todo[c] \in Starting /\ target[c] = target[b]
            BY <2>4, <4>2, <5>1, <6>1
          <6> QED
            BY <3>1, <3>4, <4>2, <6>2
        <5>2. todo'[b] = Opening => child'[target'[b]] = "none"
          BY <2>3, <2>4, <3>1, <3>4, <4>2
        <5>3. target'[b] \in 1..launched' /\ todo'[target'[b]] = << >>
          BY <1>3, <3>2, <3>4, <4>2 DEF n
        <5> QED
          BY <5>1, <5>2, <5>3
      <4> QED
        BY <4>1, <4>2
    <3> QED
      BY <3>4 DEF StartInv
  <2>10. FreshInv'
    <3>1. ASSUME NEW s \in Session, s > launched' PROVE todo'[s] = << >> /\ child'[s] = "none"
      <4>1. s > launched
        BY <1>3, <2>1, <3>1 DEF Session
      <4>2. todo[s] = << >> /\ child[s] = "none" /\ s \in Actor
        BY <1>0, <4>1, Actors DEF FreshInv
      <4> QED
        BY <1>1, <2>3, <2>4, <4>2
    <3> QED
      BY <3>1 DEF FreshInv
  <2>11. ReportInv'
    <3>1. ASSUME NEW b \in Actor, todo'[b] = <<"report">>
          PROVE  target'[b] \in Session /\ child'[target'[b]] = "dead"
      BY <1>0, <2>3, <2>4, <2>5, <3>1 DEF ReportInv
    <3> QED
      BY <1>0, <2>3, <3>1 DEF ReportInv
  <2>12. RecInv'
    <3>1. ASSUME recovering' PROVE \E b \in Actor : Rec(todo'[b])
      <4>1. PICK b \in Actor : Rec(todo[b])
        BY <1>0, <2>3, <3>1 DEF RecInv
      <4>2. b # a
        BY <1>1, <2>5, <4>1
      <4> QED
        BY <2>4, <4>1, <4>2
    <3> QED
      BY <3>1 DEF RecInv
  <2> QED
    BY <2>7, <2>8, <2>9, <2>10, <2>11, <2>12 DEF Inv
<1> QED
  BY <1>2, <1>3 DEF Registers

\* The display thread of a new session starts.
LEMMA DisplayKeeps == ASSUME Inv, NEW a \in Actor, StartsDisplay(a) PROVE Inv'
<1> USE DEF gVars, childVars, sessionVars
<1>0. TypeInv /\ ListInv /\ StartInv /\ FreshInv /\ ReportInv /\ RecInv
  BY DEF Inv
<1>1. Named /\ Same /\ KeepsOrDrops(a)
  <2>1. registered' = registered /\ exit_handler' = exit_handler /\ selected' = selected
    BY DEF StartsDisplay
  <2> QED
    BY <2>1, Names DEF StartsDisplay, Same, KeepsOrDrops
<1>2. CASE At(a, "show")
  <2>1. Will(a, << >>) /\ Plain(<< >>) /\ "show" \notin ExitStep
    BY <1>2, Nothing DEF StartsDisplay, Will, Plain, ExitStep
  <2> QED
    BY <1>1, <1>2, <2>1, GoesAnywhere
<1>3. CASE ~At(a, "show")
  <2>1. todo[a] = <<"start">> /\ todo[a] # << >>
    BY <1>0, <1>3, Kinds DEF StartsDisplay, At, ListInv
  <2>2. todo[a] \in Starting /\ ~Rec(todo[a])
    BY <2>1, NotRec DEF Starting
  <2>3. PICK s \in Session : s = target[a]
    BY <1>0, <2>2, FpmsAssumption DEF StartInv, TypeInv, Session
  <2>4. /\ s \in 1..launched /\ todo[s] = << >> /\ s # a /\ s \in Actor
        /\ \A b \in Actor : todo[b] \in Starting /\ target[b] = s => b = a
    BY <1>0, <2>1, <2>2, <2>3, Actors DEF StartInv
  <2>5. todo' = [todo EXCEPT ![a] = << >>, ![s] = <<"frames">>] /\ target' = [target EXCEPT ![a] = 0]
    BY <1>3, <2>3 DEF StartsDisplay, Drops
  <2>6. /\ \A b \in Actor : b # a => target'[b] = target[b]
        /\ \A b \in Actor : b # a /\ b # s => todo'[b] = todo[b]
        /\ todo'[a] = << >> /\ todo'[s] = <<"frames">>
    BY <1>0, <2>4, <2>5 DEF TypeInv
  <2>7. /\ child' = child /\ reported' = reported /\ recovering' = recovering
        /\ launched' = launched
    BY <1>1 DEF Same
  <2>8. Plain(<< >>) /\ Other(<<"frames">>)
    BY Nothing DEF Plain, Other, OtherStep
  <2>9. /\ Listed(<< >>) /\ << >> \notin Starting /\ << >> # <<"report">>
        /\ Listed(<<"frames">>) /\ <<"frames">> \notin Starting /\ <<"frames">> # <<"report">>
    BY <2>8, Nothing, Apart DEF Listed
  <2>10. TypeInv'
    <3>1. << >> \in Seq(AnyStep) /\ <<"frames">> \in Seq(AnyStep) /\ 0 \in 0..MaxSessions
      BY <2>9, ListsAreLists, FpmsAssumption
    <3>2. todo' \in [Actor -> Seq(AnyStep)] /\ target' \in [Actor -> 0..MaxSessions]
      BY <1>0, <2>5, <3>1 DEF TypeInv
    <3> QED
      BY <1>0, <1>1, <2>7, <3>2 DEF TypeInv, Named
  <2>11. ListInv'
    BY <1>0, <2>6, <2>9 DEF ListInv
  <2>12. StartInv'
    <3>1. ASSUME NEW b \in Actor, todo'[b] \in Starting
          PROVE  /\ todo'[b] = todo[b] /\ target'[b] = target[b] /\ target[b] # s /\ b # a
      BY <2>4, <2>6, <2>9, <3>1
    <3>2. ASSUME NEW b \in Actor, todo'[b] \in Starting
          PROVE  /\ target'[b] \in 1..launched' /\ todo'[target'[b]] = << >>
                 /\ todo'[b] = Opening => child'[target'[b]] = "none"
                 /\ \A c \in Actor : todo'[c] \in Starting /\ target'[c] = target'[b] => c = b
      <4>1. /\ target[b] \in 1..launched /\ todo[target[b]] = << >>
            /\ todo[b] = Opening => child[target[b]] = "none"
            /\ \A c \in Actor : todo[c] \in Starting /\ target[c] = target[b] => c = b
        BY <1>0, <3>1, <3>2 DEF StartInv
      <4>2. target[b] \in Actor /\ target[b] # a
        <5>1. launched \in 0..MaxSessions
          BY <1>0 DEF TypeInv
        <5>2. target[b] \in Session
          BY <4>1, <5>1, FpmsAssumption DEF Session
        <5> QED
          BY <2>1, <4>1, <5>2, Actors
      <4>3. todo'[target[b]] = << >>
        BY <2>6, <3>1, <3>2, <4>1, <4>2
      <4>4. \A c \in Actor : todo'[c] \in Starting /\ target'[c] = target'[b] => c = b
        BY <3>1, <3>2, <4>1
      <4> QED
        BY <2>7, <3>1, <3>2, <4>1, <4>3, <4>4
    <3> QED
      BY <3>2 DEF StartInv
  <2>13. FreshInv'
    <3>1. ASSUME NEW x \in Session, x > launched' PROVE todo'[x] = << >> /\ child'[x] = "none"
      <4>1. todo[x] = << >> /\ child[x] = "none" /\ x \in Actor
        BY <1>0, <2>7, <3>1, Actors DEF FreshInv
      <4>2. x # s
        BY <1>0, <2>4, <2>7, <3>1 DEF TypeInv, Session
      <4> QED
        BY <2>6, <2>7, <4>1, <4>2
    <3> QED
      BY <3>1 DEF FreshInv
  <2>14. ReportInv'
    <3>1. ASSUME NEW b \in Actor, todo'[b] = <<"report">>
          PROVE  target'[b] \in Session /\ child'[target'[b]] = "dead"
      BY <1>0, <2>6, <2>7, <2>9, <3>1 DEF ReportInv
    <3> QED
      BY <1>0, <2>7, <3>1 DEF ReportInv
  <2>15. RecInv'
    <3>1. ASSUME recovering' PROVE \E b \in Actor : Rec(todo'[b])
      <4>1. PICK b \in Actor : Rec(todo[b])
        BY <1>0, <2>7, <3>1 DEF RecInv
      <4>2. b # a /\ b # s
        BY <2>2, <2>4, <4>1 DEF Rec
      <4> QED
        BY <2>6, <4>1, <4>2
    <3> QED
      BY <3>1 DEF RecInv
  <2> QED
    BY <2>10, <2>11, <2>12, <2>13, <2>14, <2>15 DEF Inv
<1> QED
  BY <1>2, <1>3

\* A child ends; or nothing that the invariant speaks of changes.
LEMMA ChildrenKeep == ASSUME Inv, ChildExits \/ UNCHANGED vars PROVE Inv'
<1> USE DEF gVars, childVars, sessionVars, vars
<1>0. TypeInv /\ ListInv /\ StartInv /\ FreshInv /\ ReportInv /\ RecInv
  BY DEF Inv
<1>1. /\ todo' = todo /\ target' = target /\ registered' = registered
      /\ exit_handler' = exit_handler /\ selected' = selected /\ recovering' = recovering
      /\ launched' = launched /\ reported' = reported
  BY DEF ChildExits
<1>2. child' \in [Session -> {"none", "run", "dead"}]
  BY <1>0 DEF TypeInv, ChildExits
<1>3. \A s \in Session : /\ child[s] = "dead" => child'[s] = "dead"
                         /\ child[s] = "none" => child'[s] = "none"
  BY <1>0 DEF TypeInv, ChildExits
<1>4. TypeInv'
  BY <1>0, <1>1, <1>2 DEF TypeInv
<1>5. ListInv' /\ RecInv'
  BY <1>0, <1>1 DEF ListInv, RecInv
<1>6. StartInv'
  <2>1. ASSUME NEW b \in Actor, todo[b] \in Starting, todo[b] = Opening
        PROVE  child'[target[b]] = "none"
    <3>1. target[b] \in Session /\ child[target[b]] = "none"
      BY <1>0, <2>1, FpmsAssumption DEF StartInv, TypeInv, Session
    <3> QED
      BY <1>3, <3>1
  <2> QED
    BY <1>0, <1>1, <2>1 DEF StartInv
<1>7. FreshInv'
  BY <1>0, <1>1, <1>3 DEF FreshInv
<1>8. ReportInv'
  BY <1>0, <1>1, <1>3 DEF ReportInv
<1> QED
  BY <1>4, <1>5, <1>6, <1>7, <1>8 DEF Inv

LEMMA StepInv == ASSUME Inv, [Next]_vars PROVE Inv'
<1>1. ASSUME NEW a \in Actor, Step(a) PROVE Inv'
  <2>1. CASE Exits(a)
    BY <2>1, StoppingKeeps, LeavePageKeeps, RecoveryKeeps DEF Exits
  <2>2. CASE Launches(a)
    BY <2>2, LooksKeep, OpeningKeeps, RegistersKeeps, DisplayKeeps, RecoveryKeeps DEF Launches
  <2>3. CASE Logs(a)
    BY <2>3, LogsKeep
  <2>4. CASE Turn \/ Dispatch
    BY <2>4, FpmsKeeps
  <2>5. CASE a \in Session /\ (Frames(a) \/ Polls(a))
    BY <2>5, ThreadKeeps
  <2> QED
    BY <1>1, <2>1, <2>2, <2>3, <2>4, <2>5 DEF Step
<1>2. CASE Center \/ Left
  BY <1>2, FpmsKeeps
<1>3. CASE ChildExits \/ UNCHANGED vars
  BY <1>3, ChildrenKeep
<1> QED
  BY <1>1, <1>2, <1>3 DEF Next

(***************************************************************************)
(* Whatever the three kinds of threads do, and in whatever order: a        *)
(* child's exit is reported at most once and only of a child that ended,   *)
(* and launching is refused only while a thread still has to lift the      *)
(* refusal (channel_utilization.py, report_exit and launch).               *)
(***************************************************************************)
THEOREM ExitsAreReported == Spec => []ExitsReported
<1>1. Init => Inv
  BY InitInv
<1>2. Inv /\ [Next]_vars => Inv'
  BY StepInv
<1>3. Inv => ExitsReported
  BY InvSuffices
<1> QED
  BY <1>1, <1>2, <1>3, PTL DEF Spec
=============================================================================
