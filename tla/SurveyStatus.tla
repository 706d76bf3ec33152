---------------------------- MODULE SurveyStatus ----------------------------
(***************************************************************************)
(* Who changes the status of a survey in the database, and in which steps: *)
(* saves of a possibly old copy (updateSurveyInternal in apps/web/lib/     *)
(* survey/service.ts, executeV3SurveyPatch in app/api/v3/surveys/patch.ts),*)
(* the scheduling job, and the auto-complete of the response pipeline.  A  *)
(* save and the job reconcile: they publish, then close, each by looking   *)
(* for a due survey and by a conditional update.  A step is one database   *)
(* call; any of them may fail, or the process may end.                     *)
(***************************************************************************)
EXTENDS SurveyDates

CONSTANTS
  Editors, Menus,         (* survey editors, and status menus and PATCHes  *)
  Worker,                 (* the scheduling job                            *)
  NoDecision,
  MaxFaults, MaxLimits    (* bounds of the model                           *)

Savers == Editors \cup Menus

ASSUME SaversAssumption == Worker \notin Savers /\ NoDecision \notin Survey
ASSUME BoundsAssumption == MaxFaults \in Nat /\ MaxLimits \in Nat

VARIABLES
  now,
  survey,    (* the row in the database                                    *)
  phase,     (* where each saver and the job are                           *)
  time,      (* the time with which each of them reconciles                *)
  copy,      (* the survey in each saver                                   *)
  current,   (* the status it believes the survey to have                  *)
  faults, limits,
  settled,   (* the time of the last complete run of the job, or 0 after   *)
             (* a save that ended between its write and its reconciliation *)
  whole      (* there was no such save since the run began (both history)  *)

vars    == <<now, survey, phase, time, copy, current, faults, limits, settled, whole>>
history == <<settled, whole>>

Processes   == Savers \cup {Worker}
Reconciling == {"publish", "publishing", "close", "closing"}

Blank == [status |-> "draft", publishOn |-> NoDate, closeOn |-> NoDate]

Init ==
  /\ now = 0
  /\ survey = Blank
  /\ phase = [p \in Processes |-> IF p = Worker THEN "idle" ELSE "closed"]
  /\ time = [p \in Processes |-> 0]
  /\ copy = [e \in Savers |-> Blank]
  /\ current = [e \in Savers |-> "draft"]
  /\ faults = 0 /\ limits = 0 /\ settled = 0 /\ whole = TRUE

Tick ==
  /\ now < MaxTime
  /\ now' = now + 1
  /\ UNCHANGED <<survey, phase, time, copy, current, faults, limits, history>>

-----------------------------------------------------------------------------
(* An editor or a page with the status menu is opened, or a PATCH reads    *)
(* the survey.  Each saver saves once.                                     *)
Open(e) ==
  /\ phase[e] = "closed"
  /\ phase' = [phase EXCEPT ![e] = "open"]
  /\ copy' = [copy EXCEPT ![e] = survey]
  /\ current' = [current EXCEPT ![e] = survey.status]
  /\ UNCHANGED <<now, survey, time, faults, limits, history>>

\* the editor offers the days whose run is still to come
Picks(date) == {date, NoDate} \cup {d \in Times : d > 0 /\ RunTime(d) > now}

(* The editor changes dates, and publishes or schedules a draft; the status*)
(* menu and the API change the status.                                     *)
MayDecide(e, was, s) ==
  \/ s = was
  \/ /\ e \in Editors
     /\ s.publishOn \in Picks(was.publishOn) /\ s.closeOn \in Picks(was.closeOn)
     /\ \/ s.status = was.status
        \/ was.status = "draft" /\ s.status = "inProgress"
        \/ was.status = "draft" /\ s.status = "paused" /\ s.publishOn # NoDate
  \/ /\ e \in Menus /\ was.status # "draft" /\ s.status # "draft"
     /\ s.publishOn = was.publishOn /\ s.closeOn = was.closeOn

(* The save begins: the editor's reads the status anew, the API's does not.*)
Decide(e) ==
  /\ phase[e] = "open"
  /\ phase' = [phase EXCEPT ![e] = "saving"]
  /\ \E s \in Survey : MayDecide(e, copy[e], s) /\ copy' = [copy EXCEPT ![e] = s]
  /\ \E st \in {survey.status, current[e]} : current' = [current EXCEPT ![e] = st]
  /\ UNCHANGED <<now, survey, time, faults, limits, history>>

\* what a saver that has written knows is used no more
Forget(e) ==
  /\ copy' = [copy EXCEPT ![e] = Blank]
  /\ current' = [current EXCEPT ![e] = "draft"]

Refuse(e) ==
  /\ phase[e] = "saving" /\ Refused(Normalized(copy[e], current[e]))
  /\ phase' = [phase EXCEPT ![e] = "done"]
  /\ Forget(e)
  /\ UNCHANGED <<now, survey, time, faults, limits, history>>

(* The whole row is written, status and dates included, and reconciled if  *)
(* one of its dates is due.                                                *)
AfterWriteOfPublish(s) ==                                          \* mutant
  IF Due(s.publishOn, now) THEN "publish" ELSE "done"
AfterWrite(s) == IF AnyDue(s, now) THEN "publish" ELSE "done"

Write(e) ==
  LET s == Normalized(copy[e], current[e]) IN
  /\ phase[e] = "saving" /\ ~Refused(s)
  /\ survey' = s
  /\ phase' = [phase EXCEPT ![e] = AfterWrite(s)]
  /\ time' = [time EXCEPT ![e] = IF AnyDue(s, now) THEN now ELSE 0]
  /\ Forget(e)
  /\ UNCHANGED <<now, faults, limits, history>>

-----------------------------------------------------------------------------
(* The daily job, or one of its retries, begins.                           *)
MayStartOnce == phase[Worker] = "idle" /\ settled = 0              \* mutant
MayStart == phase[Worker] = "idle"

Start ==
  /\ MayStart
  /\ phase' = [phase EXCEPT ![Worker] = "publish"]
  /\ time' = [time EXCEPT ![Worker] = now]
  /\ whole' = TRUE
  /\ UNCHANGED <<now, survey, copy, current, faults, limits, settled>>

End(p) ==
  /\ phase' = [phase EXCEPT ![p] = IF p = Worker THEN "idle" ELSE "done"]
  /\ time' = [time EXCEPT ![p] = 0]

Complete(p) ==
  /\ End(p)
  /\ settled' = IF p = Worker /\ whole THEN time[p] ELSE settled
  /\ UNCHANGED whole

(* loadDueTransitionCandidates, then applyTransition, whose update repeats *)
(* the condition.                                                          *)
LoadPublish(p) ==
  /\ phase[p] = "publish"
  /\ phase' = [phase EXCEPT ![p] = IF DuePublish(survey, time[p]) THEN "publishing" ELSE "close"]
  /\ UNCHANGED <<now, survey, time, copy, current, faults, limits, history>>

UpdatePublishedById(p) == survey' = Published(survey)              \* mutant
UpdatePublished(p) == survey' = Publish(survey, time[p])

ApplyPublish(p) ==
  /\ phase[p] = "publishing"
  /\ UpdatePublished(p)
  /\ phase' = [phase EXCEPT ![p] = "close"]
  /\ UNCHANGED <<now, time, copy, current, faults, limits, history>>

LoadClose(p) ==
  /\ phase[p] = "close"
  /\ \/ /\ DueClose(survey, time[p])
        /\ phase' = [phase EXCEPT ![p] = "closing"]
        /\ UNCHANGED <<time, history>>
     \/ ~DueClose(survey, time[p]) /\ Complete(p)
  /\ UNCHANGED <<now, survey, copy, current, faults, limits>>

UpdateClosed(p) == survey' = Close(survey, time[p])

ApplyClose(p) ==
  /\ phase[p] = "closing"
  /\ UpdateClosed(p)
  /\ Complete(p)
  /\ UNCHANGED <<now, copy, current, faults, limits>>

(* A database call fails, or the process ends: the save or the run is over.*)
Fail(p) ==
  /\ phase[p] \in Reconciling \cup {"saving"} /\ faults < MaxFaults
  /\ faults' = faults + 1
  /\ End(p)
  /\ IF p \in Savers THEN Forget(p) ELSE UNCHANGED <<copy, current>>
  /\ IF p \in Savers /\ phase[p] # "saving" THEN settled' = 0 /\ whole' = FALSE
     ELSE UNCHANGED history
  /\ UNCHANGED <<now, survey, limits>>

(* handleSurveyAutoCompleteSafely: whatever the status has become since the*)
(* response was accepted, and with the dates left as they are.             *)
LimitReached ==
  /\ limits < MaxLimits /\ survey.status # "draft"
  /\ limits' = limits + 1
  /\ survey' = [survey EXCEPT !.status = "completed"]
  /\ UNCHANGED <<now, phase, time, copy, current, faults, history>>

-----------------------------------------------------------------------------
Reconcile(p) == LoadPublish(p) \/ ApplyPublish(p) \/ LoadClose(p) \/ ApplyClose(p)

Next ==
  \/ Tick \/ Start \/ LimitReached
  \/ \E e \in Savers : Open(e) \/ Decide(e) \/ Refuse(e) \/ Write(e)
  \/ \E p \in Processes : Reconcile(p) \/ Fail(p)

Spec == Init /\ [][Next]_vars

(* The job is run every day (instrumentation-jobs.ts:43-63) and its calls  *)
(* return.                                                                 *)
FairSpec == Spec /\ WF_vars(Start) /\ WF_vars(Reconcile(Worker))
-----------------------------------------------------------------------------
(* A save that is to come holds what it writes; processes reconcile with a *)
(* time that has been; the dates in the database are runs of the job, the  *)
(* publication before the closing.                                         *)
TypeOK ==
  /\ now \in Times
  /\ survey \in Survey /\ survey = OnRunTimes(survey)
  /\ survey.publishOn # NoDate /\ survey.closeOn # NoDate => survey.publishOn < survey.closeOn
  /\ phase \in [Processes -> {"closed", "open", "saving", "idle", "done"} \cup Reconciling]
  /\ phase[Worker] \in {"idle"} \cup Reconciling
  /\ time \in [Processes -> 0 .. now]
  /\ copy \in [Savers -> Survey] /\ current \in [Savers -> Status]
  /\ faults \in 0 .. MaxFaults /\ limits \in 0 .. MaxLimits
  /\ settled \in 0 .. now /\ whole \in BOOLEAN

(* What a run of the job has carried out is not undone: with no save       *)
(* between its write and its reconciliation, nothing is due that was due   *)
(* when the last complete run began - however old the copies that were     *)
(* saved meanwhile, and in whatever order saves and runs took their steps. *)
(* (service.ts:543-547, patch.ts:142-145)                                  *)
NothingComesBack ==
  (\A e \in Savers : phase[e] \notin Reconciling) => AtTime(survey, settled) = survey

(* Dates are carried out in the end, though reconciliations fail and are   *)
(* overtaken.                                                              *)
DatesTakeEffect == (AtTime(survey, now) # survey) ~> (AtTime(survey, now) = survey)

(* Scheduling cannot be told from one that acts at the very instant of the *)
(* dates: the job, the reconciliation after a save and the time they take  *)
(* change nothing but how soon the row shows it.                           *)
SurveyNow   == AtTime(survey, now)
DecisionNow == [e \in Savers |-> IF phase[e] = "saving" THEN AtTime(OnRunTimes(copy[e]), now)
                                 ELSE NoDecision]

Ideal == INSTANCE IdealSchedule WITH survey <- SurveyNow, decision <- DecisionNow

ActsOnTime == Ideal!Spec
=============================================================================
