----------------------------- MODULE SurveyDates -----------------------------
(***************************************************************************)
(* The status and the two dates of a survey, the two transitions that the  *)
(* dates cause, and what saving does to them (apps/web/modules/survey/     *)
(* scheduling/lib/survey-scheduling.ts and date-utils.ts).  Pure operators,*)
(* shared by IdealSchedule and SurveyStatus.                               *)
(*                                                                         *)
(* Time is a number.  A day has two instants: the odd one, when the daily  *)
(* job runs and at which all dates of a survey lie, and one later on.      *)
(***************************************************************************)
EXTENDS Naturals

CONSTANT MaxTime   (* bound of the model: the last instant                 *)

ASSUME MaxTimeAssumption == MaxTime \in Nat

NoDate == 0
Times  == 0 .. MaxTime
Status == {"draft", "paused", "inProgress", "completed"}
Survey == [status : Status, publishOn : Times, closeOn : Times]

\* isDateDue
Due(date, t) == date # NoDate /\ date <= t

\* isSurveySchedulingDue asks for the dates alone
AnyDue(s, t) == Due(s.publishOn, t) \/ Due(s.closeOn, t)

(* getTransitionConfig, and the condition that loadDueTransitionCandidates *)
(* and the update of applyTransition share.                                *)
DuePublish(s, t) == s.status = "paused" /\ Due(s.publishOn, t)
DueClose(s, t)   == s.status = "inProgress" /\ Due(s.closeOn, t)

Published(s) == [status |-> "inProgress", publishOn |-> NoDate, closeOn |-> s.closeOn]
Closed(s)    == [status |-> "completed", publishOn |-> s.publishOn, closeOn |-> NoDate]

Publish(s, t) == IF DuePublish(s, t) THEN Published(s) ELSE s
Close(s, t)   == IF DueClose(s, t) THEN Closed(s) ELSE s

(* A survey as it is once all that is due at time t has happened.          *)
AtTime(s, t) == Close(Publish(s, t), t)

\* normalizeDateOnlySelectionToSurveySchedulingDateTime: the run of that day
RunTime(date) == IF date = NoDate \/ date % 2 = 1 THEN date ELSE date - 1
OnRunTimes(s) == [status |-> s.status, publishOn |-> RunTime(s.publishOn),
                  closeOn |-> RunTime(s.closeOn)]

RefusedBefore(s) ==                                                \* mutant
  s.publishOn # NoDate /\ s.closeOn # NoDate /\ s.closeOn < s.publishOn

\* the check at the end of normalizeSurveyScheduling
Refused(s) ==
  s.publishOn # NoDate /\ s.closeOn # NoDate /\ s.closeOn <= s.publishOn

(* normalizeSurveyScheduling: a change of the status by hand drops dates.  *)
Normalized(s, currentStatus) ==
  LET r      == OnRunTimes(s)
      manual == currentStatus # r.status
      noPublish == manual /\ r.status \in {"inProgress", "completed"}
      noClose   == manual /\ \/ r.status = "completed"
                             \/ r.status = "paused" /\ r.publishOn = NoDate
  IN [status    |-> r.status,
      publishOn |-> IF noPublish THEN NoDate ELSE r.publishOn,
      closeOn   |-> IF noClose THEN NoDate ELSE r.closeOn]
=============================================================================
