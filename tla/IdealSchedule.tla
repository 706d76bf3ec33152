---------------------------- MODULE IdealSchedule ----------------------------
(***************************************************************************)
(* What scheduling promises: the status of a survey changes at the very    *)
(* instant of its dates, a save puts the survey into the state it was saved*)
(* in - as that state has become by now - and the response limit completes *)
(* it.  Nothing else changes it: neither the job that carries the dates    *)
(* out nor the moment it runs can be seen.                                 *)
(***************************************************************************)
EXTENDS SurveyDates

CONSTANTS Savers, NoDecision

VARIABLES
  now,
  survey,
  decision   (* what each saver is about to write, or NoDecision           *)

vars == <<now, survey, decision>>

Init ==
  /\ now \in Times
  /\ survey \in {s \in Survey : AtTime(s, now) = s}
  /\ decision = [e \in Savers |-> NoDecision]

Aged(d, t) == IF d = NoDecision THEN d ELSE AtTime(d, t)

Tick ==
  /\ now' \in Times /\ now' = now + 1
  /\ survey' = AtTime(survey, now')
  /\ decision' = [e \in Savers |-> Aged(decision[e], now')]

Decide(e) ==
  LET d == decision'[e] IN
  /\ UNCHANGED <<now, survey>>
  /\ decision[e] = NoDecision
  /\ d \in Survey /\ AtTime(d, now) = d
  /\ decision' = [decision EXCEPT ![e] = d]

(* A save may drop dates, and change none.                                 *)
Save(e) ==
  LET d == decision[e] IN
  /\ d # NoDecision /\ UNCHANGED now
  /\ \E p \in {d.publishOn, NoDate}, c \in {d.closeOn, NoDate} :
       survey' = [status |-> d.status, publishOn |-> p, closeOn |-> c]
  /\ decision' = [decision EXCEPT ![e] = NoDecision]

\* the save is refused or its process ends
Drop(e) ==
  /\ UNCHANGED <<now, survey>>
  /\ decision' = [decision EXCEPT ![e] = NoDecision]

(* A date that has passed may stay behind in a completed survey.           *)
LimitReached ==
  /\ UNCHANGED <<now, decision>>
  /\ \E p \in {survey.publishOn} \cup 1 .. now, c \in {survey.closeOn} \cup 1 .. now :
       survey' = [status |-> "completed", publishOn |-> p, closeOn |-> c]

Next ==
  \/ Tick \/ LimitReached
  \/ \E e \in Savers : Decide(e) \/ Save(e) \/ Drop(e)

Spec == Init /\ [][Next]_vars
=============================================================================
