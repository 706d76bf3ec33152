------------------------- MODULE SurveyStatus_proofs -------------------------
(***************************************************************************)
(* Proofs about SurveyStatus for every number of instants and every set of *)
(* savers: its type invariant, that it implements IdealSchedule, and that  *)
(* nothing a run of the job carried out comes back.                        *)
(*                                                                         *)
(* A step of the reconciliation is a stutter of IdealSchedule, because a   *)
(* transition that is due at an earlier time is due now, and carrying it   *)
(* out does not change what the survey has become by now (AtTimePublish,   *)
(* AtTimeClose).  That the clock's step is the ideal one is AtTimeTwice.   *)
(***************************************************************************)
EXTENDS SurveyStatus, TLAPS

LEMMA TimesFacts ==
  /\ Times \subseteq Nat /\ NoDate \in Times
  /\ \A d \in Times : RunTime(d) \in Times /\ RunTime(RunTime(d)) = RunTime(d)
<1>1. Times \subseteq Nat /\ NoDate \in Times
  BY MaxTimeAssumption DEF Times, NoDate
<1>2. ASSUME NEW d \in Times
      PROVE  RunTime(d) \in Times /\ RunTime(RunTime(d)) = RunTime(d)
  BY MaxTimeAssumption DEF Times, NoDate, RunTime
<1>. QED  BY <1>1, <1>2

LEMMA SurveyFields ==
  ASSUME NEW s \in Survey
  PROVE  /\ s.status \in Status /\ s.publishOn \in Times /\ s.closeOn \in Times
         /\ s = [status |-> s.status, publishOn |-> s.publishOn, closeOn |-> s.closeOn]
BY DEF Survey

LEMMA RecordInSurvey ==
  ASSUME NEW st \in Status, NEW p \in Times, NEW c \in Times
  PROVE  [status |-> st, publishOn |-> p, closeOn |-> c] \in Survey
BY DEF Survey

LEMMA OnRunTimesFacts ==
  ASSUME NEW s \in Survey
  PROVE  OnRunTimes(s) \in Survey /\ OnRunTimes(OnRunTimes(s)) = OnRunTimes(s)
<1>1. s.status \in Status /\ s.publishOn \in Times /\ s.closeOn \in Times
  BY SurveyFields
<1>2. OnRunTimes(s) \in Survey
  BY <1>1, TimesFacts, RecordInSurvey DEF OnRunTimes
<1>3. OnRunTimes(OnRunTimes(s)) = OnRunTimes(s)
  BY <1>1, TimesFacts DEF OnRunTimes
<1>. QED  BY <1>2, <1>3

-----------------------------------------------------------------------------
(* What carrying out the dates does to a survey.                           *)
LEMMA TransitionTypes ==
  ASSUME NEW s \in Survey, NEW t \in Nat
  PROVE  Publish(s, t) \in Survey /\ Close(s, t) \in Survey /\ AtTime(s, t) \in Survey
<1>1. ASSUME NEW r \in Survey PROVE Publish(r, t) \in Survey /\ Close(r, t) \in Survey
  <2>1. NoDate \in Times /\ {"inProgress", "completed"} \subseteq Status
    BY TimesFacts DEF Status
  <2>2. r.publishOn \in Times /\ r.closeOn \in Times
    BY SurveyFields
  <2>3. Published(r) \in Survey /\ Closed(r) \in Survey
    BY <2>1, <2>2, RecordInSurvey DEF Published, Closed
  <2>. QED  BY <2>3 DEF Publish, Close
<1>. QED  BY <1>1 DEF AtTime

(* AtTime in one step, without intermediate survey.                        *)
LEMMA AtTimeFields ==
  ASSUME NEW s \in Survey, NEW t \in Nat
  PROVE  AtTime(s, t) =
           IF s.status = "paused" /\ Due(s.publishOn, t)
           THEN IF Due(s.closeOn, t)
                THEN [status |-> "completed", publishOn |-> NoDate, closeOn |-> NoDate]
                ELSE [status |-> "inProgress", publishOn |-> NoDate, closeOn |-> s.closeOn]
           ELSE IF s.status = "inProgress" /\ Due(s.closeOn, t)
                THEN [status |-> "completed", publishOn |-> s.publishOn, closeOn |-> NoDate]
                ELSE s
<1>1. Publish(s, t) \in Survey
  BY TransitionTypes
<1>2. Close(Publish(s, t), t) =
        IF DueClose(Publish(s, t), t)
        THEN [status |-> "completed", publishOn |-> Publish(s, t).publishOn, closeOn |-> NoDate]
        ELSE Publish(s, t)
  BY DEF Close, Closed
<1>3. CASE DuePublish(s, t)
  <2>1. Publish(s, t) = [status |-> "inProgress", publishOn |-> NoDate, closeOn |-> s.closeOn]
    BY <1>3 DEF Publish, Published
  <2>. QED  BY <1>2, <1>3, <2>1 DEF AtTime, DueClose, DuePublish
<1>4. CASE ~DuePublish(s, t)
  <2>1. Publish(s, t) = s
    BY <1>4 DEF Publish
  <2>. QED  BY <1>2, <1>4, <2>1 DEF AtTime, DueClose, DuePublish
<1>. QED  BY <1>3, <1>4

LEMMA DueLater ==
  ASSUME NEW d \in Times, NEW t \in Nat, NEW u \in Nat, t <= u
  PROVE  (Due(d, t) => Due(d, u)) /\ ~Due(NoDate, t)
BY TimesFacts DEF Due

(* What is due at t has happened at u, too.                                *)
LEMMA AtTimeTwice ==
  ASSUME NEW s \in Survey, NEW t \in Nat, NEW u \in Nat, t <= u
  PROVE  AtTime(AtTime(s, t), u) = AtTime(s, u)
<1>. DEFINE r == AtTime(s, t)
<1>1. r \in Survey
  BY TransitionTypes
<1>2. /\ Due(s.publishOn, t) => Due(s.publishOn, u)
      /\ Due(s.closeOn, t) => Due(s.closeOn, u)
      /\ ~Due(NoDate, u)
  BY SurveyFields, DueLater
<1>3. CASE s.status = "paused" /\ Due(s.publishOn, t)
  <2>1. CASE Due(s.closeOn, t)
    <3>1. r = [status |-> "completed", publishOn |-> NoDate, closeOn |-> NoDate]
      BY <1>3, <2>1, AtTimeFields
    <3>. HIDE DEF r
    <3>2. AtTime(r, u) = r
      BY <1>1, <3>1, AtTimeFields
    <3>3. AtTime(s, u) = [status |-> "completed", publishOn |-> NoDate, closeOn |-> NoDate]
      BY <1>2, <1>3, <2>1, AtTimeFields
    <3>. QED  BY <3>1, <3>2, <3>3 DEF r
  <2>2. CASE ~Due(s.closeOn, t)
    <3>1. r = [status |-> "inProgress", publishOn |-> NoDate, closeOn |-> s.closeOn]
      BY <1>3, <2>2, AtTimeFields
    <3>. HIDE DEF r
    <3>2. AtTime(r, u) = IF Due(s.closeOn, u)
                         THEN [status |-> "completed", publishOn |-> NoDate, closeOn |-> NoDate]
                         ELSE r
      BY <1>1, <3>1, AtTimeFields
    <3>3. AtTime(s, u) = IF Due(s.closeOn, u)
                         THEN [status |-> "completed", publishOn |-> NoDate, closeOn |-> NoDate]
                         ELSE r
      BY <1>2, <1>3, <3>1, AtTimeFields
    <3>. QED  BY <3>2, <3>3 DEF r
  <2>. QED  BY <2>1, <2>2
<1>4. CASE s.status = "inProgress" /\ Due(s.closeOn, t)
  <2>1. r = [status |-> "completed", publishOn |-> s.publishOn, closeOn |-> NoDate]
    BY <1>4, AtTimeFields
  <2>. HIDE DEF r
  <2>2. AtTime(r, u) = r
    BY <1>1, <2>1, AtTimeFields
  <2>3. AtTime(s, u) = r
    BY <1>2, <1>4, <2>1, AtTimeFields
  <2>. QED  BY <2>2, <2>3 DEF r
<1>5. CASE /\ ~(s.status = "paused" /\ Due(s.publishOn, t))
           /\ ~(s.status = "inProgress" /\ Due(s.closeOn, t))
  <2>1. r = s
    BY <1>5, AtTimeFields
  <2>. QED  BY <2>1
<1>. QED  BY <1>3, <1>4, <1>5

(* A reconciliation with an earlier time changes nothing by now.           *)
LEMMA AtTimePublish ==
  ASSUME NEW s \in Survey, NEW t \in Nat, NEW u \in Nat, t <= u
  PROVE  AtTime(Publish(s, t), u) = AtTime(s, u)
<1>1. CASE DuePublish(s, t)
  <2>. DEFINE r == [status |-> "inProgress", publishOn |-> NoDate, closeOn |-> s.closeOn]
  <2>1. Publish(s, t) = r /\ r \in Survey
    BY <1>1, TransitionTypes DEF Publish, Published
  <2>2. s.status = "paused" /\ Due(s.publishOn, u)
    BY <1>1, SurveyFields, DueLater DEF DuePublish
  <2>3. AtTime(r, u) = IF Due(s.closeOn, u)
                       THEN [status |-> "completed", publishOn |-> NoDate, closeOn |-> NoDate]
                       ELSE r
    BY <2>1, AtTimeFields
  <2>4. AtTime(s, u) = IF Due(s.closeOn, u)
                       THEN [status |-> "completed", publishOn |-> NoDate, closeOn |-> NoDate]
                       ELSE r
    BY <2>2, AtTimeFields
  <2>. QED  BY <2>1, <2>3, <2>4
<1>2. CASE ~DuePublish(s, t)
  BY <1>2 DEF Publish
<1>. QED  BY <1>1, <1>2

LEMMA AtTimeClose ==
  ASSUME NEW s \in Survey, NEW t \in Nat, NEW u \in Nat, t <= u
  PROVE  AtTime(Close(s, t), u) = AtTime(s, u)
<1>1. CASE DueClose(s, t)
  <2>. DEFINE r == [status |-> "completed", publishOn |-> s.publishOn, closeOn |-> NoDate]
  <2>1. Close(s, t) = r /\ r \in Survey
    BY <1>1, TransitionTypes DEF Close, Closed
  <2>2. s.status = "inProgress" /\ Due(s.closeOn, u)
    BY <1>1, SurveyFields, DueLater DEF DueClose
  <2>3. AtTime(r, u) = r
    BY <2>1, AtTimeFields
  <2>4. AtTime(s, u) = r
    BY <2>2, AtTimeFields
  <2>. QED  BY <2>1, <2>3, <2>4
<1>2. CASE ~DueClose(s, t)
  BY <1>2 DEF Close
<1>. QED  BY <1>1, <1>2

-----------------------------------------------------------------------------
(* A save of a well-typed survey that is not refused leaves dates in the   *)
(* database that are runs of the job, in order.                            *)
LEMMA NormalizedFacts ==
  ASSUME NEW s \in Survey, NEW st \in Status
  PROVE  LET n == Normalized(s, st) IN
         /\ n \in Survey /\ OnRunTimes(n) = n
         /\ ~Refused(n) /\ n.publishOn # NoDate /\ n.closeOn # NoDate => n.publishOn < n.closeOn
<1>. DEFINE r == OnRunTimes(s)
            n == Normalized(s, st)
<1>1. /\ r \in Survey /\ r.publishOn = RunTime(r.publishOn) /\ r.closeOn = RunTime(r.closeOn)
      /\ r.status \in Status /\ r.publishOn \in Times /\ r.closeOn \in Times
  <2>1. r \in Survey /\ OnRunTimes(r) = r
    BY OnRunTimesFacts
  <2>. HIDE DEF r
  <2>2. r.status \in Status /\ r.publishOn \in Times /\ r.closeOn \in Times
    BY <2>1, SurveyFields
  <2>3. r.publishOn = RunTime(r.publishOn) /\ r.closeOn = RunTime(r.closeOn)
    BY <2>1 DEF OnRunTimes
  <2>. QED  BY <2>1, <2>2, <2>3
<1>2. NoDate \in Times /\ RunTime(NoDate) = NoDate
  BY TimesFacts DEF RunTime
<1>3. PICK p \in {r.publishOn, NoDate}, c \in {r.closeOn, NoDate} :
        n = [status |-> r.status, publishOn |-> p, closeOn |-> c]
  BY DEF Normalized
<1>. HIDE DEF r, n
<1>4. p \in Times /\ c \in Times /\ RunTime(p) = p /\ RunTime(c) = c
  BY <1>1, <1>2
<1>5. n \in Survey /\ n.publishOn \in Nat /\ n.closeOn \in Nat
  BY <1>1, <1>3, <1>4, RecordInSurvey, TimesFacts
<1>6. OnRunTimes(n) = n
  BY <1>3, <1>4 DEF OnRunTimes
<1>7. ~Refused(n) /\ n.publishOn # NoDate /\ n.closeOn # NoDate => n.publishOn < n.closeOn
  BY <1>5 DEF Refused
<1>. QED  BY <1>5, <1>6, <1>7 DEF n

(* What a reconciliation keeps of the dates.                               *)
RowOK(s) ==
  /\ s \in Survey /\ s = OnRunTimes(s)
  /\ s.publishOn # NoDate /\ s.closeOn # NoDate => s.publishOn < s.closeOn

LEMMA TransitionsKeepRow ==
  ASSUME NEW s, RowOK(s), NEW t \in Nat
  PROVE  RowOK(Publish(s, t)) /\ RowOK(Close(s, t)) /\ RowOK([s EXCEPT !.status = "completed"])
<1>1. s.publishOn = RunTime(s.publishOn) /\ s.closeOn = RunTime(s.closeOn)
  BY DEF RowOK, OnRunTimes
<1>2. RunTime(NoDate) = NoDate /\ NoDate \in Times /\ {"inProgress", "completed"} \subseteq Status
  BY TimesFacts DEF RunTime, Status
<1>3. s.publishOn \in Times /\ s.closeOn \in Times
  BY SurveyFields DEF RowOK
<1>4. RowOK(Published(s))
  <2>1. Published(s) \in Survey
    BY <1>2, <1>3, RecordInSurvey DEF Published
  <2>. QED  BY <1>1, <1>2, <2>1 DEF RowOK, Published, OnRunTimes
<1>5. RowOK(Closed(s))
  <2>1. Closed(s) \in Survey
    BY <1>2, <1>3, RecordInSurvey DEF Closed
  <2>. QED  BY <1>1, <1>2, <2>1 DEF RowOK, Closed, OnRunTimes
<1>6. RowOK([s EXCEPT !.status = "completed"])
  <2>1. [s EXCEPT !.status = "completed"] =
          [status |-> "completed", publishOn |-> s.publishOn, closeOn |-> s.closeOn]
    BY DEF RowOK, Survey
  <2>2. [s EXCEPT !.status = "completed"] \in Survey
    BY <1>2, <1>3, <2>1, RecordInSurvey
  <2>. QED  BY <1>1, <2>1, <2>2 DEF RowOK, OnRunTimes
<1>. QED  BY <1>4, <1>5, <1>6 DEF Publish, Close, RowOK

-----------------------------------------------------------------------------
(* Type correctness.                                                       *)
Phases == {"closed", "open", "saving", "idle", "done"} \cup Reconciling

LEMMA BlankFacts == RowOK(Blank) /\ Blank \in Survey /\ "draft" \in Status
<1>1. Blank \in Survey
  BY TimesFacts, RecordInSurvey DEF Blank, Status
<1>. QED  BY <1>1 DEF RowOK, Blank, OnRunTimes, RunTime, Status

LEMMA TypeInit == Init => TypeOK
<1>. SUFFICES ASSUME Init PROVE TypeOK
  OBVIOUS
<1>1. now \in Times /\ time \in [Processes -> 0 .. now] /\ settled \in 0 .. now
  BY MaxTimeAssumption DEF Init, Times
<1>2. /\ survey \in Survey /\ survey = OnRunTimes(survey)
      /\ survey.publishOn # NoDate /\ survey.closeOn # NoDate => survey.publishOn < survey.closeOn
  BY BlankFacts DEF Init, RowOK
<1>3. phase \in [Processes -> Phases] /\ phase[Worker] \in {"idle"} \cup Reconciling
  BY DEF Init, Processes, Phases
<1>4. copy \in [Savers -> Survey] /\ current \in [Savers -> Status]
  BY BlankFacts DEF Init
<1>5. faults \in 0 .. MaxFaults /\ limits \in 0 .. MaxLimits /\ whole \in BOOLEAN
  BY BoundsAssumption DEF Init
<1>. QED  BY <1>1, <1>2, <1>3, <1>4, <1>5 DEF TypeOK, Phases

(* The parts of TypeOK, named for the steps that disturb them.             *)
RowPart   == now \in Times /\ RowOK(survey)
PhasePart == phase \in [Processes -> Phases] /\ phase[Worker] \in {"idle"} \cup Reconciling
TimePart  == time \in [Processes -> 0 .. now] /\ settled \in 0 .. now /\ whole \in BOOLEAN
CopyPart  == copy \in [Savers -> Survey] /\ current \in [Savers -> Status]
CountPart == faults \in 0 .. MaxFaults /\ limits \in 0 .. MaxLimits

LEMMA TypeParts == TypeOK <=> RowPart /\ PhasePart /\ TimePart /\ CopyPart /\ CountPart
BY DEF TypeOK, RowPart, RowOK, PhasePart, Phases, TimePart, CopyPart, CountPart

LEMMA SaverIsProcess ==
  ASSUME NEW e \in Savers
  PROVE  e \in Processes /\ e # Worker
BY SaversAssumption DEF Processes

LEMMA NowFacts ==
  ASSUME RowPart
  PROVE  now \in Nat /\ 0 \in 0 .. now /\ now \in 0 .. now
BY TimesFacts DEF RowPart

LEMMA ForgetKeepsCopy ==
  ASSUME NEW e \in Savers, CopyPart, Forget(e)
  PROVE  CopyPart'
BY BlankFacts DEF CopyPart, Forget

LEMMA EndKeepsType ==
  ASSUME NEW p \in Processes, RowPart, PhasePart, TimePart, End(p), UNCHANGED now
  PROVE  PhasePart' /\ time' \in [Processes -> 0 .. now']
<1>1. PhasePart'
  <2>1. {"idle", "done"} \subseteq Phases
    BY DEF Phases
  <2>2. Worker \in Processes
    BY DEF Processes
  <2>. QED  BY <2>1, <2>2 DEF PhasePart, End
<1>2. time' \in [Processes -> 0 .. now']
  BY NowFacts DEF TimePart, End
<1>. QED  BY <1>1, <1>2

LEMMA CompleteKeepsType ==
  ASSUME NEW p \in Processes, RowPart, PhasePart, TimePart, Complete(p), UNCHANGED now
  PROVE  PhasePart' /\ TimePart'
<1>1. PhasePart' /\ time' \in [Processes -> 0 .. now']
  BY EndKeepsType DEF Complete
<1>2. settled' \in 0 .. now' /\ whole' \in BOOLEAN
  BY DEF Complete, TimePart
<1>. QED  BY <1>1, <1>2 DEF TimePart

(* A process goes on with its reconciliation, or a saver with its save.    *)
LEMMA PhaseMoves ==
  ASSUME NEW p \in Processes, NEW to \in Phases, PhasePart,
         phase' = [phase EXCEPT ![p] = to],
         p = Worker => to \in {"idle"} \cup Reconciling
  PROVE  PhasePart'
BY DEF PhasePart, Processes

LEMMA TypeStep == TypeOK /\ [Next]_vars => TypeOK'
<1>. SUFFICES ASSUME TypeOK, [Next]_vars PROVE TypeOK'
  OBVIOUS
<1>. RowPart /\ PhasePart /\ TimePart /\ CopyPart /\ CountPart
  BY TypeParts
<1>. SUFFICES RowPart' /\ PhasePart' /\ TimePart' /\ CopyPart' /\ CountPart'
  BY DEF TypeOK, RowPart, RowOK, PhasePart, Phases, TimePart, CopyPart, CountPart
<1>. now \in Nat /\ 0 \in 0 .. now /\ now \in 0 .. now
  BY NowFacts
<1>. Reconciling \subseteq Phases /\ {"closed", "open", "saving", "idle", "done"} \subseteq Phases
  BY DEF Phases
<1>1. CASE UNCHANGED vars
  BY <1>1 DEF vars, RowPart, RowOK, PhasePart, TimePart, CopyPart, CountPart
<1>2. CASE Tick
  <2>1. now' \in Times /\ 0 .. now \subseteq 0 .. now'
    BY <1>2, MaxTimeAssumption DEF Tick, Times
  <2>2. RowPart' /\ PhasePart' /\ CopyPart' /\ CountPart'
    BY <1>2, <2>1 DEF Tick, RowPart, PhasePart, CopyPart, CountPart
  <2>3. TimePart'
    BY <1>2, <2>1 DEF Tick, history, TimePart
  <2>. QED  BY <2>2, <2>3
<1>3. CASE Start
  <2>1. PhasePart'
    BY <1>3, PhaseMoves DEF Start, Processes, Reconciling
  <2>2. TimePart'
    BY <1>3 DEF Start, TimePart
  <2>3. RowPart' /\ CopyPart' /\ CountPart'
    BY <1>3 DEF Start, RowPart, CopyPart, CountPart
  <2>. QED  BY <2>1, <2>2, <2>3
<1>4. CASE LimitReached
  <2>1. RowPart'
    BY <1>4, TransitionsKeepRow DEF LimitReached, RowPart
  <2>2. CountPart'
    BY <1>4, BoundsAssumption DEF LimitReached, CountPart
  <2>3. PhasePart' /\ TimePart' /\ CopyPart'
    BY <1>4 DEF LimitReached, history, PhasePart, TimePart, CopyPart
  <2>. QED  BY <2>1, <2>2, <2>3
<1>5. ASSUME NEW e \in Savers, Open(e) \/ Decide(e) \/ Refuse(e) \/ Write(e)
      PROVE  RowPart' /\ PhasePart' /\ TimePart' /\ CopyPart' /\ CountPart'
  <2>. e \in Processes /\ e # Worker
    BY SaverIsProcess
  <2>. survey.status \in Status
    BY SurveyFields DEF RowPart, RowOK
  <2>1. CASE Open(e)
    <3>1. PhasePart'
      BY <2>1, PhaseMoves DEF Open
    <3>2. CopyPart'
      BY <2>1 DEF Open, CopyPart, RowPart, RowOK
    <3>3. RowPart' /\ TimePart' /\ CountPart'
      BY <2>1 DEF Open, history, RowPart, TimePart, CountPart
    <3>. QED  BY <3>1, <3>2, <3>3
  <2>2. CASE Decide(e)
    <3>1. PhasePart'
      BY <2>2, PhaseMoves DEF Decide
    <3>2. CopyPart'
      BY <2>2 DEF Decide, CopyPart
    <3>3. RowPart' /\ TimePart' /\ CountPart'
      BY <2>2 DEF Decide, history, RowPart, TimePart, CountPart
    <3>. QED  BY <3>1, <3>2, <3>3
  <2>3. CASE Refuse(e)
    <3>1. PhasePart'
      BY <2>3, PhaseMoves DEF Refuse
    <3>2. CopyPart'
      BY <2>3, ForgetKeepsCopy DEF Refuse
    <3>3. RowPart' /\ TimePart' /\ CountPart'
      BY <2>3 DEF Refuse, history, RowPart, TimePart, CountPart
    <3>. QED  BY <3>1, <3>2, <3>3
  <2>4. CASE Write(e)
    <3>1. copy[e] \in Survey /\ current[e] \in Status
      BY DEF CopyPart
    <3>2. RowOK(Normalized(copy[e], current[e]))
      BY <2>4, <3>1, NormalizedFacts DEF Write, RowOK
    <3>3. RowPart'
      BY <2>4, <3>2 DEF Write, RowPart
    <3>4. PhasePart'
      <4>1. AfterWrite(Normalized(copy[e], current[e])) \in Phases
        BY DEF AfterWrite, Phases, Reconciling
      <4>. QED  BY <2>4, <4>1, PhaseMoves DEF Write
    <3>5. TimePart'
      BY <2>4 DEF Write, history, TimePart
    <3>6. CopyPart'
      BY <2>4, ForgetKeepsCopy DEF Write
    <3>7. CountPart'
      BY <2>4 DEF Write, CountPart
    <3>. QED  BY <3>3, <3>4, <3>5, <3>6, <3>7
  <2>. QED  BY <1>5, <2>1, <2>2, <2>3, <2>4
<1>6. ASSUME NEW p \in Processes, Reconcile(p) \/ Fail(p)
      PROVE  RowPart' /\ PhasePart' /\ TimePart' /\ CopyPart' /\ CountPart'
  <2>. {"publish", "publishing", "close", "closing"} = Reconciling
    BY DEF Reconciling
  <2>. time[p] \in Nat
    BY DEF TimePart
  <2>1. CASE LoadPublish(p)
    <3>1. PhasePart'
      BY <2>1, PhaseMoves DEF LoadPublish
    <3>2. RowPart' /\ TimePart' /\ CopyPart' /\ CountPart'
      BY <2>1 DEF LoadPublish, history, RowPart, TimePart, CopyPart, CountPart
    <3>. QED  BY <3>1, <3>2
  <2>2. CASE ApplyPublish(p)
    <3>1. PhasePart'
      BY <2>2, PhaseMoves DEF ApplyPublish
    <3>2. RowPart'
      BY <2>2, TransitionsKeepRow DEF ApplyPublish, UpdatePublished, RowPart
    <3>3. TimePart' /\ CopyPart' /\ CountPart'
      BY <2>2 DEF ApplyPublish, history, TimePart, CopyPart, CountPart
    <3>. QED  BY <3>1, <3>2, <3>3
  <2>3. CASE LoadClose(p)
    <3>1. RowPart' /\ CopyPart' /\ CountPart'
      BY <2>3 DEF LoadClose, RowPart, CopyPart, CountPart
    <3>2. PhasePart' /\ TimePart'
      <4>1. CASE DueClose(survey, time[p])
        <5>1. PhasePart'
          BY <2>3, <4>1, PhaseMoves DEF LoadClose
        <5>2. TimePart'
          BY <2>3, <4>1 DEF LoadClose, history, TimePart
        <5>. QED  BY <5>1, <5>2
      <4>2. CASE ~DueClose(survey, time[p])
        BY <2>3, <4>2, CompleteKeepsType DEF LoadClose
      <4>. QED  BY <4>1, <4>2
    <3>. QED  BY <3>1, <3>2
  <2>4. CASE ApplyClose(p)
    <3>1. PhasePart' /\ TimePart'
      BY <2>4, CompleteKeepsType DEF ApplyClose
    <3>2. RowPart'
      BY <2>4, TransitionsKeepRow DEF ApplyClose, UpdateClosed, RowPart
    <3>3. CopyPart' /\ CountPart'
      BY <2>4 DEF ApplyClose, CopyPart, CountPart
    <3>. QED  BY <3>1, <3>2, <3>3
  <2>5. CASE Fail(p)
    <3>1. PhasePart' /\ time' \in [Processes -> 0 .. now']
      BY <2>5, EndKeepsType DEF Fail
    <3>2. TimePart'
      BY <2>5, <3>1 DEF Fail, history, TimePart
    <3>3. CopyPart'
      BY <2>5, ForgetKeepsCopy DEF Fail, CopyPart
    <3>4. CountPart'
      BY <2>5, BoundsAssumption DEF Fail, CountPart
    <3>5. RowPart'
      BY <2>5 DEF Fail, RowPart
    <3>. QED  BY <3>1, <3>2, <3>3, <3>4, <3>5
  <2>. QED  BY <1>6, <2>1, <2>2, <2>3, <2>4, <2>5 DEF Reconcile
<1>. QED  BY <1>1, <1>2, <1>3, <1>4, <1>5, <1>6 DEF Next

(* A save that is to come holds what it writes, processes reconcile with a *)
(* time that has been, and the dates in the database are runs of the job in*)
(* order, for any number of instants and any set of savers.                *)
THEOREM TypeCorrect == Spec => []TypeOK
BY TypeInit, TypeStep, PTL DEF Spec

-----------------------------------------------------------------------------
(* The refinement.  The operators of IdealSchedule are those of SurveyDates*)
(* under another name.                                                     *)
LEMMA IdealOperators ==
  /\ Ideal!Times = Times /\ Ideal!Survey = Survey /\ Ideal!NoDate = NoDate
  /\ \A s, t : Ideal!AtTime(s, t) = AtTime(s, t)
<1>1. Ideal!Times = Times /\ Ideal!NoDate = NoDate
  BY DEF Ideal!Times, Times, Ideal!NoDate, NoDate
<1>2. Ideal!Survey = Survey
  BY <1>1 DEF Ideal!Survey, Survey, Ideal!Status, Status
<1>3. ASSUME NEW s, NEW t PROVE Ideal!AtTime(s, t) = AtTime(s, t)
  <2>1. ASSUME NEW d PROVE Ideal!Due(d, t) = Due(d, t)
    BY <1>1 DEF Ideal!Due, Due
  <2>2. ASSUME NEW r PROVE Ideal!Publish(r, t) = Publish(r, t) /\ Ideal!Close(r, t) = Close(r, t)
    BY <1>1, <2>1 DEF Ideal!Publish, Publish, Ideal!Published, Published, Ideal!DuePublish, DuePublish,
                      Ideal!Close, Close, Ideal!Closed, Closed, Ideal!DueClose, DueClose
  <2>. QED  BY <2>2 DEF Ideal!AtTime, AtTime
<1>. QED  BY <1>1, <1>2, <1>3

(* What a saver is about to write is a survey, or NoDecision.              *)
LEMMA DecisionFacts ==
  ASSUME TypeOK, NEW e \in Savers
  PROVE  /\ phase[e] = "saving" =>
              /\ DecisionNow[e] = AtTime(OnRunTimes(copy[e]), now)
              /\ DecisionNow[e] \in Survey /\ DecisionNow[e] # NoDecision
         /\ phase[e] # "saving" => DecisionNow[e] = NoDecision
<1>1. OnRunTimes(copy[e]) \in Survey /\ now \in Nat
  BY OnRunTimesFacts, TimesFacts DEF TypeOK
<1>2. AtTime(OnRunTimes(copy[e]), now) \in Survey
  BY <1>1, TransitionTypes
<1>. QED  BY <1>2, SaversAssumption DEF DecisionNow

(* A step of a process that is not about to write changes no decision.     *)
LEMMA SameDecisions ==
  ASSUME NEW e, UNCHANGED now,
         \A x \in Savers \ {e} : phase'[x] = phase[x] /\ copy'[x] = copy[x],
         e \in Savers => phase[e] # "saving" /\ phase'[e] # "saving"
  PROVE  DecisionNow' = DecisionNow
<1>1. ASSUME NEW x \in Savers
      PROVE  (IF phase'[x] = "saving" THEN AtTime(OnRunTimes(copy'[x]), now') ELSE NoDecision)
           = (IF phase[x] = "saving" THEN AtTime(OnRunTimes(copy[x]), now) ELSE NoDecision)
  <2>1. CASE x = e
    BY <2>1
  <2>2. CASE x # e
    BY <2>2
  <2>. QED  BY <2>1, <2>2
<1>. QED  BY <1>1 DEF DecisionNow

(* A save that is written, refused or given up leaves no decision behind.  *)
LEMMA DecisionGone ==
  ASSUME NEW e \in Savers, UNCHANGED now,
         \A x \in Savers \ {e} : phase'[x] = phase[x] /\ copy'[x] = copy[x],
         phase'[e] # "saving"
  PROVE  DecisionNow' = [DecisionNow EXCEPT ![e] = NoDecision]
<1>1. ASSUME NEW x \in Savers
      PROVE  (IF phase'[x] = "saving" THEN AtTime(OnRunTimes(copy'[x]), now') ELSE NoDecision)
           = (IF x = e THEN NoDecision ELSE DecisionNow[x])
  <2>1. CASE x = e
    BY <2>1
  <2>2. CASE x # e
    BY <2>2 DEF DecisionNow
  <2>. QED  BY <2>1, <2>2
<1>. QED  BY <1>1 DEF DecisionNow

(* A save drops dates, and never one that would change the status.         *)
LEMMA SaveAsDecided ==
  ASSUME NEW s \in Survey, NEW st \in Status, NEW t \in Nat
  PROVE  LET d == AtTime(OnRunTimes(s), t) IN
         \E p \in {d.publishOn, NoDate}, c \in {d.closeOn, NoDate} :
           AtTime(Normalized(s, st), t) = [status |-> d.status, publishOn |-> p, closeOn |-> c]
<1>. DEFINE r == OnRunTimes(s)
            n == Normalized(s, st)
            d == AtTime(r, t)
<1>1. r \in Survey /\ n \in Survey
  BY OnRunTimesFacts, NormalizedFacts
<1>2. /\ n.status = r.status
      /\ n.publishOn \in {r.publishOn, NoDate}
      /\ n.closeOn \in {r.closeOn, NoDate}
      /\ r.status = "paused" => n.publishOn = r.publishOn
      /\ r.status = "paused" /\ r.publishOn # NoDate => n.closeOn = r.closeOn
      /\ r.status = "inProgress" => n.closeOn = r.closeOn
  BY DEF Normalized
<1>. HIDE DEF r, n
<1>3. ~Due(NoDate, t) /\ (Due(r.publishOn, t) => r.publishOn # NoDate)
  BY DEF Due
<1>4. CASE r.status = "paused" /\ Due(r.publishOn, t)
  <2>1. n.status = r.status /\ n.publishOn = r.publishOn /\ n.closeOn = r.closeOn
    BY <1>2, <1>3, <1>4
  <2>2. n = r
    BY <1>1, <2>1, SurveyFields
  <2>3. d \in Survey
    BY <1>1, TransitionTypes
  <2>. QED  BY <2>2, <2>3, SurveyFields DEF r, n
<1>5. CASE r.status = "inProgress" /\ Due(r.closeOn, t)
  <2>1. d = [status |-> "completed", publishOn |-> r.publishOn, closeOn |-> NoDate]
    BY <1>1, <1>5, AtTimeFields
  <2>2. AtTime(n, t) = [status |-> "completed", publishOn |-> n.publishOn, closeOn |-> NoDate]
    BY <1>1, <1>2, <1>5, AtTimeFields
  <2>3. n.publishOn \in {d.publishOn, NoDate} /\ NoDate \in {d.closeOn, NoDate}
    BY <1>2, <2>1
  <2>. QED  BY <2>1, <2>2, <2>3 DEF r, n
<1>6. CASE /\ ~(r.status = "paused" /\ Due(r.publishOn, t))
           /\ ~(r.status = "inProgress" /\ Due(r.closeOn, t))
  <2>1. d = r
    BY <1>1, <1>6, AtTimeFields
  <2>2. AtTime(n, t) = n
    BY <1>1, <1>2, <1>6, AtTimeFields
  <2>3. n = [status |-> r.status, publishOn |-> n.publishOn, closeOn |-> n.closeOn]
    BY <1>1, <1>2, SurveyFields
  <2>. QED  BY <1>2, <2>1, <2>2, <2>3 DEF r, n
<1>. QED  BY <1>4, <1>5, <1>6 DEF r, n

LEMMA ImplementsInit == Init => Ideal!Init
<1>. SUFFICES ASSUME Init PROVE Ideal!Init
  OBVIOUS
<1>1. now \in Times /\ now \in Nat
  BY TimesFacts, MaxTimeAssumption DEF Init, Times
<1>2. SurveyNow \in Survey /\ AtTime(SurveyNow, now) = SurveyNow
  BY <1>1, BlankFacts, TransitionTypes, AtTimeTwice DEF Init, SurveyNow
<1>3. DecisionNow = [e \in Savers |-> NoDecision]
  BY SaversAssumption DEF Init, DecisionNow, Processes
<1>. QED  BY <1>1, <1>2, <1>3, IdealOperators DEF Ideal!Init

LEMMA ImplementsTick == TypeOK /\ Tick => Ideal!Tick
<1>. SUFFICES ASSUME TypeOK, Tick PROVE Ideal!Tick
  OBVIOUS
<1>1. now \in Nat /\ now' \in Nat /\ now' \in Times /\ now' = now + 1 /\ now <= now'
  BY MaxTimeAssumption DEF TypeOK, Tick, Times
<1>2. SurveyNow' = AtTime(SurveyNow, now')
  BY <1>1, AtTimeTwice DEF TypeOK, Tick, SurveyNow
<1>3. ASSUME NEW e \in Savers
      PROVE  (IF phase'[e] = "saving" THEN AtTime(OnRunTimes(copy'[e]), now') ELSE NoDecision)
           = Ideal!Aged(DecisionNow[e], now')
  <2>1. CASE phase[e] = "saving"
    <3>1. OnRunTimes(copy[e]) \in Survey
      BY OnRunTimesFacts DEF TypeOK
    <3>2. AtTime(AtTime(OnRunTimes(copy[e]), now), now') = AtTime(OnRunTimes(copy[e]), now')
      BY <1>1, <3>1, AtTimeTwice
    <3>. QED  BY <2>1, <3>2, DecisionFacts, IdealOperators DEF Ideal!Aged, Tick
  <2>2. CASE phase[e] # "saving"
    BY <2>2, DecisionFacts DEF Ideal!Aged, Tick
  <2>. QED  BY <2>1, <2>2
<1>4. DecisionNow' = [e \in Savers |-> Ideal!Aged(DecisionNow[e], now')]
  BY <1>3 DEF DecisionNow
<1>. QED  BY <1>1, <1>2, <1>4, IdealOperators DEF Ideal!Tick

LEMMA ImplementsLimitReached == TypeOK /\ LimitReached => Ideal!LimitReached
<1>. SUFFICES ASSUME TypeOK, LimitReached PROVE Ideal!LimitReached
  OBVIOUS
<1>1. survey \in Survey /\ now \in Nat
  BY TimesFacts DEF TypeOK
<1>2. survey' = [status |-> "completed", publishOn |-> survey.publishOn, closeOn |-> survey.closeOn]
  BY <1>1 DEF LimitReached, Survey
<1>3. survey.publishOn \in Nat /\ survey.closeOn \in Nat /\ survey' \in Survey
  BY <1>1, <1>2, SurveyFields, RecordInSurvey, TimesFacts DEF Status
<1>4. SurveyNow' = survey'
  BY <1>1, <1>2, <1>3, AtTimeFields DEF LimitReached, SurveyNow
<1>5. /\ survey.publishOn \in {SurveyNow.publishOn} \cup 1 .. now
      /\ survey.closeOn \in {SurveyNow.closeOn} \cup 1 .. now
  <2>1. ASSUME NEW d \in Nat, Due(d, now) PROVE d \in 1 .. now
    BY <1>1, <2>1 DEF Due, NoDate
  <2>2. CASE survey.status = "paused" /\ Due(survey.publishOn, now)
    BY <1>1, <1>3, <2>1, <2>2, AtTimeFields DEF SurveyNow
  <2>3. CASE survey.status = "inProgress" /\ Due(survey.closeOn, now)
    BY <1>1, <1>3, <2>1, <2>3, AtTimeFields DEF SurveyNow
  <2>4. CASE /\ ~(survey.status = "paused" /\ Due(survey.publishOn, now))
             /\ ~(survey.status = "inProgress" /\ Due(survey.closeOn, now))
    BY <1>1, <2>4, AtTimeFields DEF SurveyNow
  <2>. QED  BY <2>2, <2>3, <2>4
<1>6. UNCHANGED <<now, DecisionNow>>
  BY DEF LimitReached, DecisionNow
<1>. QED  BY <1>2, <1>4, <1>5, <1>6 DEF Ideal!LimitReached

LEMMA ImplementsDecide ==
  ASSUME TypeOK, TypeOK', NEW e \in Savers, Decide(e)
  PROVE  Ideal!Decide(e)
<1>1. UNCHANGED <<now, SurveyNow>> /\ now \in Nat
  BY TimesFacts DEF Decide, SurveyNow, TypeOK
<1>2. phase[e] = "open" /\ phase'[e] = "saving"
  BY DEF Decide, TypeOK, Processes
<1>3. OnRunTimes(copy'[e]) \in Survey
  BY OnRunTimesFacts DEF TypeOK
<1>. DEFINE d == AtTime(OnRunTimes(copy'[e]), now)
<1>4. d \in Survey /\ AtTime(d, now) = d
  BY <1>1, <1>3, TransitionTypes, AtTimeTwice
<1>5. DecisionNow[e] = NoDecision
  BY <1>2, DecisionFacts
<1>6. DecisionNow' = [DecisionNow EXCEPT ![e] = d]
  <2>1. ASSUME NEW x \in Savers
        PROVE  (IF phase'[x] = "saving" THEN AtTime(OnRunTimes(copy'[x]), now') ELSE NoDecision)
             = (IF x = e THEN d ELSE DecisionNow[x])
    <3>1. CASE x = e
      BY <1>1, <1>2, <3>1
    <3>2. CASE x # e
      <4>1. phase'[x] = phase[x] /\ copy'[x] = copy[x]
        BY <3>2 DEF Decide
      <4>. QED  BY <1>1, <3>2, <4>1 DEF DecisionNow
    <3>. QED  BY <3>1, <3>2
  <2>. HIDE DEF d
  <2>. QED  BY <2>1 DEF DecisionNow
<1>. HIDE DEF d
<1>7. DecisionNow'[e] = d
  BY <1>6 DEF DecisionNow
<1>8. DecisionNow'[e] \in Ideal!Survey /\ Ideal!AtTime(DecisionNow'[e], now) = DecisionNow'[e]
  BY <1>4, <1>7, IdealOperators
<1>9. DecisionNow' = [DecisionNow EXCEPT ![e] = DecisionNow'[e]]
  BY <1>6, <1>7
<1>. QED  BY <1>1, <1>5, <1>8, <1>9 DEF Ideal!Decide

LEMMA ImplementsWrite ==
  ASSUME TypeOK, NEW e \in Savers, Write(e)
  PROVE  Ideal!Save(e)
<1>. DEFINE d == AtTime(OnRunTimes(copy[e]), now)
<1>1. copy[e] \in Survey /\ current[e] \in Status /\ now \in Nat
  BY TimesFacts DEF TypeOK
<1>2. \E p \in {d.publishOn, NoDate}, c \in {d.closeOn, NoDate} :
        SurveyNow' = [status |-> d.status, publishOn |-> p, closeOn |-> c]
  BY <1>1, SaveAsDecided DEF Write, SurveyNow
<1>3. DecisionNow[e] = d /\ DecisionNow[e] # NoDecision
  BY DecisionFacts DEF Write
<1>. HIDE DEF d
<1>4. phase'[e] # "saving"
  BY SaverIsProcess DEF Write, TypeOK, AfterWrite
<1>5. DecisionNow' = [DecisionNow EXCEPT ![e] = NoDecision]
  BY <1>4, DecisionGone DEF Write, Forget
<1>6. UNCHANGED now
  BY DEF Write
<1>. QED  BY <1>2, <1>3, <1>5, <1>6, IdealOperators DEF Ideal!Save

LEMMA ImplementsDrop ==
  ASSUME TypeOK, NEW e \in Savers, Refuse(e) \/ Fail(e)
  PROVE  Ideal!Drop(e)
<1>1. UNCHANGED <<now, SurveyNow>>
  BY DEF Refuse, Fail, SurveyNow
<1>2. phase'[e] # "saving"
  BY SaverIsProcess DEF Refuse, Fail, End, TypeOK
<1>3. \A x \in Savers \ {e} : phase'[x] = phase[x] /\ copy'[x] = copy[x]
  BY DEF Refuse, Fail, End, Forget, TypeOK, Processes
<1>4. DecisionNow' = [DecisionNow EXCEPT ![e] = NoDecision]
  BY <1>1, <1>2, <1>3, DecisionGone
<1>. QED  BY <1>1, <1>4 DEF Ideal!Drop

(* What a process does that neither ends a save nor begins one cannot be   *)
(* seen.                                                                   *)
LEMMA ImplementsStutter ==
  ASSUME TypeOK, NEW p \in Processes,
         \/ p \in Savers /\ Open(p)
         \/ p = Worker /\ (Start \/ Fail(p))
         \/ Reconcile(p)
  PROVE  UNCHANGED <<now, SurveyNow, DecisionNow>>
<1>1. UNCHANGED now /\ now \in Nat /\ survey \in Survey
  BY TimesFacts DEF Open, Start, Fail, Reconcile, LoadPublish, ApplyPublish, LoadClose, ApplyClose, TypeOK
<1>2. time[p] \in Nat /\ time[p] <= now
  BY <1>1 DEF TypeOK
<1>3. survey' \in {survey, Publish(survey, time[p]), Close(survey, time[p])}
  BY DEF Open, Start, Fail, Reconcile, LoadPublish, ApplyPublish, UpdatePublished, LoadClose,
         ApplyClose, UpdateClosed
<1>4. UNCHANGED SurveyNow
  BY <1>1, <1>2, <1>3, AtTimePublish, AtTimeClose DEF SurveyNow
<1>5. \A x \in Savers \ {p} : phase'[x] = phase[x] /\ copy'[x] = copy[x]
  <2>1. CASE p \in Savers /\ Open(p)
    BY <2>1 DEF Open
  <2>2. CASE p = Worker /\ (Start \/ Fail(p))
    BY <2>2, SaversAssumption DEF Start, Fail, End, TypeOK, Processes
  <2>3. CASE Reconcile(p)
    BY <2>3 DEF Reconcile, LoadPublish, ApplyPublish, LoadClose, ApplyClose, Complete, End,
                TypeOK, Processes
  <2>. QED  BY <2>1, <2>2, <2>3
<1>6. p \in Savers => phase[p] # "saving" /\ phase'[p] # "saving"
  <2>1. phase \in [Processes -> Phases] /\ Worker \notin Savers
    BY SaversAssumption DEF TypeOK, Phases
  <2>. QED  BY <2>1 DEF Open, Start, Fail, Reconcile, LoadPublish, ApplyPublish, LoadClose, ApplyClose,
                        Complete, End
<1>7. UNCHANGED DecisionNow
  BY <1>1, <1>5, <1>6, SameDecisions
<1>. QED  BY <1>1, <1>4, <1>7

LEMMA ImplementsStep == TypeOK /\ TypeOK' /\ [Next]_vars => [Ideal!Next]_(Ideal!vars)
<1>. SUFFICES ASSUME TypeOK, TypeOK', [Next]_vars
              PROVE  Ideal!Next \/ UNCHANGED <<now, SurveyNow, DecisionNow>>
  BY DEF Ideal!vars
<1>1. CASE UNCHANGED vars
  BY <1>1 DEF vars, SurveyNow, DecisionNow
<1>2. CASE Tick
  BY <1>2, ImplementsTick DEF Ideal!Next
<1>3. CASE Start
  BY <1>3, ImplementsStutter DEF Processes
<1>4. CASE LimitReached
  BY <1>4, ImplementsLimitReached DEF Ideal!Next
<1>5. ASSUME NEW e \in Savers, Open(e) \/ Decide(e) \/ Refuse(e) \/ Write(e)
      PROVE  Ideal!Next \/ UNCHANGED <<now, SurveyNow, DecisionNow>>
  <2>1. CASE Open(e)
    BY <2>1, ImplementsStutter, SaverIsProcess
  <2>2. CASE Decide(e)
    BY <2>2, ImplementsDecide DEF Ideal!Next
  <2>3. CASE Refuse(e)
    BY <2>3, ImplementsDrop DEF Ideal!Next
  <2>4. CASE Write(e)
    BY <2>4, ImplementsWrite DEF Ideal!Next
  <2>. QED  BY <1>5, <2>1, <2>2, <2>3, <2>4
<1>6. ASSUME NEW p \in Processes, Reconcile(p) \/ Fail(p)
      PROVE  Ideal!Next \/ UNCHANGED <<now, SurveyNow, DecisionNow>>
  <2>1. CASE Reconcile(p)
    BY <2>1, ImplementsStutter
  <2>2. CASE Fail(p) /\ p \in Savers
    BY <2>2, ImplementsDrop DEF Ideal!Next
  <2>3. CASE Fail(p) /\ p = Worker
    BY <2>3, ImplementsStutter
  <2>. QED  BY <1>6, <2>1, <2>2, <2>3 DEF Processes
<1>. QED  BY <1>1, <1>2, <1>3, <1>4, <1>5, <1>6 DEF Next

(* However saves, the daily job, its retries and the auto-complete take    *)
(* turns, and whatever fails in between, the survey is at every moment what*)
(* it would be if its dates were carried out on time.                      *)
THEOREM Implements == Spec => ActsOnTime
<1>1. Init => Ideal!Init
  BY ImplementsInit
<1>2. TypeOK /\ TypeOK' /\ [Next]_vars => [Ideal!Next]_(Ideal!vars)
  BY ImplementsStep
<1>. QED  BY <1>1, <1>2, TypeCorrect, PTL DEF Spec, ActsOnTime, Ideal!Spec

-----------------------------------------------------------------------------
(* Nothing comes back.  What is due at a time is owed by a saver that is   *)
(* between its write and its reconciliation and reconciles with a time not *)
(* before: a publication by one that has not passed its first half.        *)
Publishing == {"publish", "publishing"}

PublishOwed(s, ph, tm, t) ==
  DuePublish(s, t) => \E e \in Savers : ph[e] \in Publishing /\ t <= tm[e]

CloseOwed(s, ph, tm, t) ==
  DueClose(s, t) => \E e \in Savers : ph[e] \in Reconciling /\ t <= tm[e]

\* the run of the job that is to settle its time has passed its first half
HalfSettled == whole /\ phase[Worker] \in {"close", "closing"}

SettledInv ==
  /\ PublishOwed(survey, phase, time, settled)
  /\ CloseOwed(survey, phase, time, settled)
  /\ HalfSettled => PublishOwed(survey, phase, time, time[Worker])

LEMMA StillDueLater ==
  ASSUME NEW s \in Survey, NEW t \in Nat, NEW u \in Nat, t <= u
  PROVE  (DuePublish(s, t) => DuePublish(s, u)) /\ (DueClose(s, t) => DueClose(s, u))
BY SurveyFields, DueLater DEF DuePublish, DueClose

LEMMA SettledFacts ==
  ASSUME TypeOK
  PROVE  /\ survey \in Survey /\ now \in Nat /\ settled \in Nat /\ settled <= now
         /\ \A p \in Processes : time[p] \in Nat /\ time[p] <= now
         /\ phase \in [Processes -> Phases] /\ Worker \in Processes /\ Worker \notin Savers
         /\ \A e \in Savers : e \in Processes
<1>1. now \in Nat
  BY TimesFacts DEF TypeOK
<1>2. settled \in 0 .. now /\ time \in [Processes -> 0 .. now]
  BY DEF TypeOK
<1>. QED  BY <1>1, <1>2, SaversAssumption DEF TypeOK, Phases, Processes

(* Nothing is owed of a survey that is completed.                          *)
LEMMA CompletedOwesNothing ==
  ASSUME NEW s, s.status = "completed", NEW ph, NEW tm, NEW t
  PROVE  PublishOwed(s, ph, tm, t) /\ CloseOwed(s, ph, tm, t)
BY DEF PublishOwed, CloseOwed, DuePublish, DueClose

(* What owes goes on owing while it stays where it is.                     *)
LEMMA OwedKept ==
  ASSUME NEW s, NEW ph, NEW tm, NEW ph2, NEW tm2, NEW t,
         \A e \in Savers : ph[e] \in Reconciling => ph2[e] = ph[e] /\ tm2[e] = tm[e]
  PROVE  /\ PublishOwed(s, ph, tm, t) => PublishOwed(s, ph2, tm2, t)
         /\ CloseOwed(s, ph, tm, t) => CloseOwed(s, ph2, tm2, t)
BY DEF PublishOwed, CloseOwed, Publishing, Reconciling

LEMMA OutsideStep ==
  ASSUME TypeOK, SettledInv, UNCHANGED <<survey, time, settled>>,
         \A e \in Savers : phase[e] \in Reconciling => phase'[e] = phase[e],
         HalfSettled' => HalfSettled
  PROVE  SettledInv'
<1>1. \A t : /\ PublishOwed(survey, phase, time, t) => PublishOwed(survey, phase', time', t)
             /\ CloseOwed(survey, phase, time, t) => CloseOwed(survey, phase', time', t)
  BY OwedKept
<1>. QED  BY <1>1 DEF SettledInv

LEMMA WriteStep ==
  ASSUME TypeOK, SettledInv, NEW e \in Savers, Write(e)
  PROVE  SettledInv'
<1>. DEFINE s == Normalized(copy[e], current[e])
<1>1. survey' = s /\ s \in Survey
  BY NormalizedFacts DEF Write, TypeOK
<1>2. /\ phase' = [phase EXCEPT ![e] = AfterWrite(s)]
      /\ time' = [time EXCEPT ![e] = IF AnyDue(s, now) THEN now ELSE 0]
      /\ UNCHANGED settled
  BY DEF Write, history
<1>. HIDE DEF s
<1>3. e \in Processes /\ e # Worker
  BY SaverIsProcess
<1>4. phase'[Worker] = phase[Worker] /\ time'[Worker] = time[Worker]
  BY <1>2, <1>3, SettledFacts
<1>5. AnyDue(s, now) => phase'[e] = "publish" /\ time'[e] = now
  BY <1>2, <1>3, SettledFacts DEF AfterWrite, TypeOK
<1>6. ASSUME NEW t \in Nat, t <= now
      PROVE  PublishOwed(s, phase', time', t) /\ CloseOwed(s, phase', time', t)
  <2>1. DuePublish(s, t) \/ DueClose(s, t) => AnyDue(s, now)
    BY <1>1, <1>6, SettledFacts, StillDueLater DEF AnyDue, DuePublish, DueClose
  <2>. QED  BY <1>5, <1>6, <2>1 DEF PublishOwed, CloseOwed, Publishing, Reconciling
<1>. QED  BY <1>1, <1>2, <1>4, <1>6, SettledFacts DEF SettledInv

(* The first half of a reconciliation.                                     *)
LEMMA PublishStep ==
  ASSUME TypeOK, SettledInv, NEW p \in Processes, LoadPublish(p) \/ ApplyPublish(p)
  PROVE  SettledInv'
<1>1. /\ phase[p] \in Publishing /\ UNCHANGED <<time, settled, whole>>
      /\ \E to \in Reconciling : phase' = [phase EXCEPT ![p] = to]
  BY DEF LoadPublish, ApplyPublish, history, Publishing, Reconciling
<1>2. \/ survey' = survey /\ (phase'[p] \in Publishing \/ ~DuePublish(survey, time[p]))
      \/ DuePublish(survey, time[p]) /\ survey' = Published(survey)
  BY SettledFacts DEF LoadPublish, ApplyPublish, UpdatePublished, Publish, Publishing
<1>3. ASSUME NEW t \in Nat, PublishOwed(survey, phase, time, t)
      PROVE  PublishOwed(survey', phase', time', t)
  <2>1. CASE survey' = Published(survey)
    BY <2>1 DEF PublishOwed, DuePublish, Published
  <2>2. CASE survey' = survey /\ (phase'[p] \in Publishing \/ ~DuePublish(survey, time[p]))
    <3>1. CASE DuePublish(survey, t)
      <4>1. PICK e \in Savers : phase[e] \in Publishing /\ t <= time[e]
        BY <1>3, <3>1 DEF PublishOwed
      <4>2. DuePublish(survey, time[e])
        BY <3>1, <4>1, SettledFacts, StillDueLater
      <4>3. phase'[e] \in Publishing
        BY <1>1, <2>2, <4>1, <4>2, SettledFacts
      <4>. QED  BY <1>1, <4>1, <4>3 DEF PublishOwed
    <3>2. CASE ~DuePublish(survey, t)
      BY <2>2, <3>2 DEF PublishOwed
    <3>. QED  BY <3>1, <3>2
  <2>. QED  BY <1>2, <2>1, <2>2
<1>4. \A e \in Savers : phase[e] \in Reconciling => phase'[e] \in Reconciling
  BY <1>1, SettledFacts
<1>5. CloseOwed(survey', phase', time', settled)
  <2>1. CASE survey' = survey
    BY <1>1, <1>4, <2>1 DEF SettledInv, CloseOwed
  <2>2. CASE DuePublish(survey, time[p]) /\ survey' = Published(survey)
    <3>. SUFFICES ASSUME DueClose(survey', settled)
                  PROVE  \E e \in Savers : phase'[e] \in Reconciling /\ settled <= time'[e]
      BY DEF CloseOwed
    <3>1. survey.publishOn \in Nat /\ survey.closeOn \in Nat
      BY SettledFacts, SurveyFields, TimesFacts
    <3>2. survey.closeOn # NoDate /\ survey.closeOn <= settled
      BY <2>2 DEF DueClose, Due, Published
    <3>3. survey.publishOn < survey.closeOn
      BY <2>2, <3>2 DEF TypeOK, DuePublish, Due
    <3>4. DuePublish(survey, settled)
      BY <2>2, <3>1, <3>2, <3>3, SettledFacts DEF DuePublish, Due
    <3>5. PICK e \in Savers : phase[e] \in Publishing /\ settled <= time[e]
      BY <3>4 DEF SettledInv, PublishOwed
    <3>. QED  BY <1>1, <1>4, <3>5 DEF Publishing, Reconciling
  <2>. QED  BY <1>2, <2>1, <2>2
<1>6. ASSUME HalfSettled'
      PROVE  PublishOwed(survey', phase', time', time[Worker])
  <2>1. CASE p = Worker
    <3>1. ~DuePublish(survey', time[Worker])
      BY <1>2, <1>6, <2>1 DEF HalfSettled, Publishing, DuePublish, Published
    <3>. QED  BY <3>1 DEF PublishOwed
  <2>2. CASE p # Worker
    <3>1. HalfSettled
      BY <1>1, <1>6, <2>2 DEF HalfSettled
    <3>. QED  BY <1>3, <3>1, SettledFacts DEF SettledInv
  <2>. QED  BY <2>1, <2>2
<1>. QED  BY <1>1, <1>3, <1>5, <1>6, SettledFacts DEF SettledInv

(* A reconciliation has reached its end.                                   *)
LEMMA CloseStep ==
  ASSUME TypeOK, SettledInv, NEW p \in Processes, phase[p] \in {"close", "closing"},
         survey' \in {survey, Closed(survey)}, ~DueClose(survey', time[p]), Complete(p)
  PROVE  SettledInv'
<1>1. CASE survey' = Closed(survey)
  BY <1>1, CompletedOwesNothing DEF SettledInv, Closed
<1>2. CASE survey' = survey
  <2>1. \A e \in Savers \ {p} : phase'[e] = phase[e] /\ time'[e] = time[e]
    BY SettledFacts DEF Complete, End, TypeOK
  <2>2. phase'[Worker] \in {"close", "closing"} => p # Worker
    BY SettledFacts DEF Complete, End
  <2>3. p # Worker => phase'[Worker] = phase[Worker] /\ time'[Worker] = time[Worker]
    BY SettledFacts DEF Complete, End, TypeOK
  <2>4. ASSUME NEW t \in Nat, PublishOwed(survey, phase, time, t)
        PROVE  PublishOwed(survey', phase', time', t)
    BY <1>2, <2>1, <2>4 DEF PublishOwed, Publishing
  <2>5. ASSUME NEW t \in Nat, CloseOwed(survey, phase, time, t) \/ t = time[p]
        PROVE  CloseOwed(survey', phase', time', t)
    <3>. SUFFICES ASSUME DueClose(survey, t)
                  PROVE  \E e \in Savers : phase'[e] \in Reconciling /\ t <= time'[e]
      BY <1>2 DEF CloseOwed
    <3>1. t # time[p]
      BY <1>2
    <3>2. PICK e \in Savers : phase[e] \in Reconciling /\ t <= time[e]
      BY <2>5, <3>1 DEF CloseOwed
    <3>3. DueClose(survey, time[e])
      BY <3>2, SettledFacts, StillDueLater
    <3>4. e # p
      BY <1>2, <3>3
    <3>. QED  BY <2>1, <3>2, <3>4
  <2>6. settled' = settled \/ (p = Worker /\ whole /\ settled' = time[p])
    BY DEF Complete
  <2>7. p = Worker /\ whole => PublishOwed(survey, phase, time, time[p])
    BY DEF SettledInv, HalfSettled
  <2>8. PublishOwed(survey', phase', time', settled') /\ CloseOwed(survey', phase', time', settled')
    BY <2>4, <2>5, <2>6, <2>7, SettledFacts DEF SettledInv
  <2>9. HalfSettled' => PublishOwed(survey', phase', time', time'[Worker])
    BY <2>2, <2>3, <2>4, SettledFacts DEF SettledInv, HalfSettled, Complete
  <2>. QED  BY <2>8, <2>9 DEF SettledInv
<1>. QED  BY <1>1, <1>2

LEMMA FailStep ==
  ASSUME TypeOK, SettledInv, NEW p \in Processes, Fail(p)
  PROVE  SettledInv'
<1>1. \A e \in Savers \ {p} : phase'[e] = phase[e] /\ time'[e] = time[e]
  BY SettledFacts DEF Fail, End, TypeOK
<1>2. CASE p = Worker
  <2>1. \A e \in Savers : phase'[e] = phase[e] /\ time'[e] = time[e]
    BY <1>1, <1>2, SettledFacts
  <2>2. phase'[Worker] = "idle" /\ UNCHANGED <<survey, settled>>
    BY <1>2, SettledFacts DEF Fail, End, history
  <2>. QED  BY <2>1, <2>2, OwedKept DEF SettledInv, HalfSettled
<1>3. CASE p \in Savers /\ phase[p] = "saving"
  <2>1. UNCHANGED <<survey, settled, whole>>
    BY <1>3 DEF Fail, history
  <2>2. phase'[Worker] = phase[Worker] /\ time'[Worker] = time[Worker]
    BY <1>3, SettledFacts DEF Fail, End, TypeOK
  <2>3. \A e \in Savers : phase[e] \in Reconciling => phase'[e] = phase[e] /\ time'[e] = time[e]
    BY <1>1, <1>3 DEF Reconciling
  <2>. QED  BY <2>1, <2>2, <2>3, OwedKept DEF SettledInv, HalfSettled
<1>4. CASE p \in Savers /\ phase[p] # "saving"
  <2>1. settled' = 0 /\ whole' = FALSE
    BY <1>4 DEF Fail
  <2>2. ~DuePublish(survey', 0) /\ ~DueClose(survey', 0)
    <3>1. survey.publishOn \in Nat /\ survey.closeOn \in Nat /\ survey' = survey
      BY SettledFacts, SurveyFields, TimesFacts DEF Fail
    <3>. QED  BY <3>1 DEF DuePublish, DueClose, Due, NoDate
  <2>. QED  BY <2>1, <2>2 DEF SettledInv, HalfSettled, PublishOwed, CloseOwed
<1>. QED  BY <1>2, <1>3, <1>4 DEF Processes

LEMMA SettledStep == TypeOK /\ SettledInv /\ [Next]_vars => SettledInv'
<1>. SUFFICES ASSUME TypeOK, SettledInv, [Next]_vars PROVE SettledInv'
  OBVIOUS
<1>1. CASE UNCHANGED vars \/ Tick
  BY <1>1, OutsideStep DEF vars, Tick, history, HalfSettled
<1>2. CASE Start
  <2>1. \A e \in Savers : phase'[e] = phase[e] /\ time'[e] = time[e]
    BY <1>2, SettledFacts DEF Start
  <2>2. phase'[Worker] = "publish" /\ UNCHANGED <<survey, settled>>
    BY <1>2, SettledFacts DEF Start
  <2>. QED  BY <2>1, <2>2, OwedKept DEF SettledInv, HalfSettled
<1>3. CASE LimitReached
  <2>1. survey'.status = "completed"
    BY <1>3 DEF LimitReached, TypeOK, Survey
  <2>. QED  BY <2>1, CompletedOwesNothing DEF SettledInv
<1>4. ASSUME NEW e \in Savers, Open(e) \/ Decide(e) \/ Refuse(e)
      PROVE  SettledInv'
  <2>1. phase[e] \notin Reconciling /\ (\E to : phase' = [phase EXCEPT ![e] = to])
    BY <1>4 DEF Open, Decide, Refuse, Reconciling
  <2>2. e # Worker
    BY SaverIsProcess
  <2>3. UNCHANGED <<survey, time, settled, whole>>
    BY <1>4 DEF Open, Decide, Refuse, history
  <2>. QED  BY <2>1, <2>2, <2>3, OutsideStep, SettledFacts DEF HalfSettled
<1>5. ASSUME NEW p \in Processes, LoadClose(p)
      PROVE  SettledInv'
  <2>1. CASE DueClose(survey, time[p]) /\ phase' = [phase EXCEPT ![p] = "closing"] /\ UNCHANGED <<time, history>>
    <3>1. \A e \in Savers : /\ phase[e] \in Publishing => phase'[e] \in Publishing
                            /\ phase[e] \in Reconciling => phase'[e] \in Reconciling
      BY <1>5, <2>1, SettledFacts DEF LoadClose, Publishing, Reconciling
    <3>2. HalfSettled' => HalfSettled
      BY <1>5, <2>1, SettledFacts DEF LoadClose, HalfSettled, history
    <3>3. UNCHANGED <<survey, time, settled>>
      BY <1>5, <2>1 DEF LoadClose, history
    <3>. QED  BY <3>1, <3>2, <3>3 DEF SettledInv, PublishOwed, CloseOwed
  <2>2. CASE ~DueClose(survey, time[p]) /\ Complete(p)
    BY <1>5, <2>2, CloseStep DEF LoadClose
  <2>. QED  BY <1>5, <2>1, <2>2 DEF LoadClose
<1>6. ASSUME NEW p \in Processes, ApplyClose(p)
      PROVE  SettledInv'
  <2>1. survey' \in {survey, Closed(survey)} /\ ~DueClose(survey', time[p])
    BY <1>6 DEF ApplyClose, UpdateClosed, Close, Closed, DueClose
  <2>. QED  BY <1>6, <2>1, CloseStep DEF ApplyClose
<1>. QED  BY <1>1, <1>2, <1>3, <1>4, <1>5, <1>6, WriteStep, PublishStep, FailStep DEF Next, Reconcile

(* What a complete run of the job has carried out is not undone: with no   *)
(* save between its write and its reconciliation, nothing is due that was  *)
(* due when the run began (service.ts:543-547, patch.ts:142-145).          *)
THEOREM NothingIsUndone == Spec => []NothingComesBack
<1>1. Init => SettledInv
  <2>. SUFFICES ASSUME Init PROVE SettledInv
    OBVIOUS
  <2>1. survey.status = "draft" /\ phase[Worker] = "idle"
    BY DEF Init, Blank, Processes
  <2>. QED  BY <2>1 DEF SettledInv, PublishOwed, CloseOwed, HalfSettled, DuePublish, DueClose
<1>2. SettledInv => NothingComesBack
  <2>. SUFFICES ASSUME SettledInv, \A e \in Savers : phase[e] \notin Reconciling
                PROVE  AtTime(survey, settled) = survey
    BY DEF NothingComesBack
  <2>1. ~DuePublish(survey, settled) /\ ~DueClose(survey, settled)
    BY DEF SettledInv, PublishOwed, CloseOwed, Publishing, Reconciling
  <2>. QED  BY <2>1 DEF AtTime, Publish, Close
<1>. QED  BY <1>1, <1>2, SettledStep, TypeCorrect, PTL DEF Spec

=============================================================================
