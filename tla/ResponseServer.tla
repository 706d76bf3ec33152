--------------------------- MODULE ResponseServer ---------------------------
(***************************************************************************)
(* What the server does with the responses to one survey: the requests that*)
(* create and update them (apps/web/app/api/v1/client/[workspaceId]/       *)
(* responses/), each in a transaction that evaluates the quotas            *)
(* (modules/ee/quotas/lib/), and the background job that a finished        *)
(* response causes (modules/response-pipeline/lib/): webhooks, e-mails and *)
(* the auto-complete of the survey.  Requests and jobs run concurrently; a *)
(* step is what one of them does between two waits that matter.            *)
(*                                                                         *)
(* The database is read committed: a transaction is seen when it commits,  *)
(* and a row it has written is locked until then.                          *)
(***************************************************************************)
EXTENDS Naturals, FiniteSetsExt

CONSTANTS
  Quotas,         (* numbers, in the order of getQuotas                    *)
  EndingQuotas,   (* action "endSurvey"                                    *)
  PartialQuotas,  (* countPartialSubmissions                               *)
  WideQuotas,     (* whose logic any answer meets; the others': "in"       *)
  Limit,          (* of each quota                                         *)
  AutoComplete,   (* survey.autoComplete                                   *)
  MaxAttempts,    (* JOBS_DEFAULT_JOB_OPTIONS.attempts                     *)
  MaxResponses, MaxRequests, MaxDisturbances  (* bounds of the model       *)

ASSUME QuotasAssumption ==
  /\ Quotas \subseteq Nat
  /\ \A Q \in {EndingQuotas, PartialQuotas, WideQuotas} : Q \subseteq Quotas
ASSUME NumbersAssumption ==
  /\ {Limit, AutoComplete, MaxAttempts} \subseteq Nat \ {0}
  /\ {MaxResponses, MaxRequests, MaxDisturbances} \subseteq Nat

VARIABLES
  status,     (* survey.status                                             *)
  rows,       (* the responses in the database                             *)
  links,      (* ResponseQuotaLink.status, "none" without a link           *)
  phase, req, (* where each request is, and what it holds                  *)
  job, tries, (* the responseFinished job of each request, attemptsMade    *)
  count,      (* the number of responses it has read                       *)
  emails,     (* notifications sent of each response                       *)
  broken,     (* a webhook's server is down for good                       *)
  faults, switches,
  raced,      (* quotas that two open transactions counted for, or one     *)
              (* could not                                                 *)
  met,        (* responses with two requests under way at once             *)
  dropped,    (* finished, and the job could not be queued                 *)
  stalled,    (* responses whose job began anew when its worker had died   *)
  reopened    (* the survey was taken out of "completed" by hand (history) *)

survey  == <<status, switches, reopened>>
stored  == <<rows, links>>
jobs    == <<job, tries, count, emails>>
history == <<raced, met, dropped, stalled>>
vars    == <<survey, stored, phase, req, jobs, broken, faults, history>>

(* Ids in the order of their first use.  A second create of one has its    *)
(* displayId or its singleUseId.                                           *)
Responses == 1 .. MaxResponses
Requests  == 1 .. MaxRequests
Answers  == {"in", "out"}
NoAnswer == "none"
Status   == {"inProgress", "paused", "completed"}

Row     == [answer : Answers \cup {NoAnswer}, finished : BOOLEAN]
NoRow   == [answer |-> "absent", finished |-> FALSE]
NoLinks == [q \in Quotas |-> "none"]

Blank == [op |-> "create", r |-> 0, fin |-> FALSE, row |-> NoRow, links |-> NoLinks]

-----------------------------------------------------------------------------
(* evaluateQuotas, on the answers of the response.                         *)
Passed(row) == {q \in Quotas : row.answer = "in" \/ (q \in WideQuotas /\ row.answer # NoAnswer)}

\* the count of handleQuotas: screened in by other responses
ScreenedIn(q, r) ==
  Cardinality({x \in Responses \ {r} : /\ links[x][q] = "screenedIn"
                                       /\ q \in PartialQuotas \/ rows[x].finished})

FullAbove(row, r) == {q \in Passed(row) : ScreenedIn(q, r) > Limit} \* mutant
Full(row, r) == {q \in Passed(row) : ScreenedIn(q, r) >= Limit}

\* the first of the full quotas decides
Ends(row, r) == Full(row, r) # {} /\ Min(Full(row, r)) \in EndingQuotas

(* upsertResponseQuotaLinks: a link that says screenedOut is not taken back*)
(* by a later evaluation.                                                  *)
Linked(row, r) ==
  LET kept == IF row.finished \/ Ends(row, r) THEN Quotas ELSE PartialQuotas IN
  [q \in Quotas |->
     IF q \notin Passed(row) THEN "none"
     ELSE IF q \notin kept THEN links[r][q]
     ELSE IF q \in Full(row, r) THEN "screenedOut"
     ELSE IF links[r][q] = "none" THEN "screenedIn" ELSE links[r][q]]

\* updateResponse with finished: true at the end of handleQuotas
Ended(row, r) == [answer |-> row.answer, finished |-> row.finished \/ Ends(row, r)]

-----------------------------------------------------------------------------
\* requests are numbered as they arrive
Newcomer == Min({i \in Requests : phase[i] = "idle"})

Move(i, to) == phase' = [phase EXCEPT ![i] = to]

Fault == faults + switches < MaxDisturbances /\ faults' = faults + 1

\* what request i holds from now on
Hold(i, fin, row, ls) ==
  req' = [req EXCEPT ![i] = [op |-> @.op, r |-> @.r, fin |-> fin, row |-> row, links |-> ls]]

Done(i) ==
  /\ Move(i, "done")
  /\ req' = [req EXCEPT ![i] = Blank]

UnderWay(r, i) == \E k \in Requests \ {i} : phase[k] \notin {"idle", "done"} /\ req[k].r = r

AcceptsAny(op, r) ==                                               \* mutant
  \/ op = "create" /\ status = "inProgress"
  \/ op = "update" /\ rows[r] # NoRow

(* The checks before the transaction: a create asks for a survey in        *)
(* progress, an update for an unfinished response.                         *)
Accepts(op, r) ==
  \/ op = "create" /\ status = "inProgress"
  \/ op = "update" /\ rows[r] # NoRow /\ ~rows[r].finished

Named == ({req[k].r : k \in Requests} \cup {x \in Responses : rows[x] # NoRow}) \ {0}

Arrive ==
  /\ \E i \in Requests : phase[i] = "idle"
  /\ \E op \in {"create", "update"}, r \in Responses :
       /\ Accepts(op, r) /\ r <= Cardinality(Named) + 1
       /\ Move(Newcomer, "checked")
       /\ req' = [req EXCEPT ![Newcomer] =
                   [op |-> op, r |-> r, fin |-> FALSE, row |-> NoRow, links |-> NoLinks]]
       /\ met' = IF UnderWay(r, Newcomer) THEN met \cup {r} ELSE met
  /\ UNCHANGED <<survey, stored, jobs, broken, faults, raced, dropped, stalled>>

(* updateResponse reads the row, and merges the new answers into it.       *)
Replaced(row, input) == input                                      \* mutant
Merged(row, input) ==
  [answer |-> IF input.answer = NoAnswer THEN row.answer ELSE input.answer,
   finished |-> input.finished]

Read(i) ==
  /\ phase[i] = "checked" /\ req[i].op = "update"
  /\ Move(i, "read")
  /\ \E input \in Row : Hold(i, FALSE, Merged(rows[req[i].r], input), NoLinks)
  /\ UNCHANGED <<survey, stored, jobs, broken, faults, history>>

LockedFromCheck(r) ==                                              \* mutant
  \E k \in Requests : phase[k] \in {"checked", "stored"} /\ req[k].r = r
Locked(r) == \E k \in Requests : phase[k] = "stored" /\ req[k].r = r

(* The row is written, the quotas are evaluated - or cannot be, which is   *)
(* logged and ignored.  A second create violates a unique constraint.      *)
Write(i, row) ==
  LET r == req[i].r IN
  /\ ~Locked(r)
  /\ Move(i, "stored")
  /\ \/ /\ Hold(i, row.finished, Ended(row, r), Linked(row, r))
        /\ raced' = raced \cup UNION {Passed(row) \cap Passed(req[k].row) :
                                        k \in {n \in Requests : phase[n] = "stored"}}
        /\ UNCHANGED faults
     \/ /\ Fault
        /\ Hold(i, row.finished, row, links[r])
        /\ raced' = raced \cup Passed(row) \cup {q \in Quotas : links[r][q] # "none"}

Store(i) ==
  /\ \/ phase[i] = "read" /\ Write(i, req[i].row)
     \/ /\ phase[i] = "checked" /\ req[i].op = "create" /\ rows[req[i].r] = NoRow
        /\ \E input \in Row : Write(i, input)
  /\ UNCHANGED <<survey, stored, jobs, broken, met, dropped, stalled>>

Conflict(i) ==
  /\ phase[i] = "checked" /\ req[i].op = "create"
  /\ rows[req[i].r] # NoRow /\ ~Locked(req[i].r)
  /\ Done(i)
  /\ UNCHANGED <<survey, stored, jobs, broken, faults, history>>

Commit(i) ==
  /\ phase[i] = "stored"
  /\ rows' = [rows EXCEPT ![req[i].r] = req[i].row]
  /\ links' = [links EXCEPT ![req[i].r] = req[i].links]
  /\ Hold(i, req[i].fin, NoRow, NoLinks)
  /\ Move(i, "committed")
  /\ UNCHANGED <<survey, jobs, broken, faults, history>>

(* sendToPipeline with responseCreated or responseUpdated, then with       *)
(* responseFinished.  An update that the quotas have finished reports the  *)
(* row of before: not finished.                                            *)
AnnounceAsked(i) == req[i].op = "create" /\ req[i].fin   \* mutant
SaysFinished(i) == req[i].fin

Announce(i) ==
  /\ phase[i] = "committed"
  /\ job' = IF SaysFinished(i) THEN [job EXCEPT ![i] = [state |-> "waiting", r |-> req[i].r]]
            ELSE job
  /\ Done(i)
  /\ UNCHANGED <<survey, stored, tries, count, emails, broken, faults, history>>

(* The database or the queue fails, or the process ends: before the commit *)
(* nothing has happened, after it the rest is missing.                     *)
Fail(i) ==
  /\ phase[i] \in {"stored", "committed"}
  /\ Fault
  /\ dropped' = IF phase[i] = "committed" /\ SaysFinished(i)
                THEN dropped \cup {req[i].r} ELSE dropped
  /\ Done(i)
  /\ UNCHANGED <<survey, stored, jobs, broken, raced, met, stalled>>

-----------------------------------------------------------------------------
(* The job, by the request that queued it.  deliverWebhooks throws for a   *)
(* webhook that fails, and goes on at the last attempt; a lookup that fails*)
(* fails the last attempt, too.                                            *)
SetJob(i, to) == job' = [job EXCEPT ![i] = [state |-> to, r |-> @.r]]

LastAttemptLate(i) == tries[i] >= MaxAttempts                      \* mutant
LastAttempt(i) == tries[i] + 1 >= MaxAttempts

Retry(i) ==
  /\ ~LastAttempt(i)
  /\ tries' = [tries EXCEPT ![i] = @ + 1]
  /\ UNCHANGED <<job, count, emails, faults>>

ResponseCount == Cardinality({r \in Responses : rows[r] # NoRow})

(* The e-mails go out and the responses are counted - or that fails, then  *)
(* no e-mail is sent either.                                               *)
Notify(i) ==
  /\ SetJob(i, "notified")
  /\ UNCHANGED tries
  /\ \/ /\ count' = [count EXCEPT ![i] = ResponseCount]
        /\ emails' = [emails EXCEPT ![job[i].r] = @ + 1]
        /\ UNCHANGED faults
     \/ /\ Fault
        /\ UNCHANGED <<count, emails>>

LookupFails(i) ==
  /\ LastAttempt(i) /\ Fault
  /\ SetJob(i, "failed")
  /\ UNCHANGED <<tries, count, emails>>

Attempt(i) ==
  /\ job[i].state = "waiting"
  /\ \/ (~broken \/ LastAttempt(i)) /\ Notify(i)
     \/ Retry(i)
     \/ LookupFails(i)
  /\ UNCHANGED <<survey, stored, phase, req, broken, history>>

ReachedAbove(i) == count[i] > AutoComplete                         \* mutant
Reached(i) == count[i] >= AutoComplete

(* handleSurveyAutoCompleteSafely: its update may fail, too.               *)
CompleteSurvey(i) ==
  /\ job[i].state = "notified"
  /\ SetJob(i, "done")
  /\ count' = [count EXCEPT ![i] = 0] /\ tries' = [tries EXCEPT ![i] = 0]
  /\ \/ /\ status' = IF Reached(i) THEN "completed" ELSE status
        /\ UNCHANGED faults
     \/ Reached(i) /\ Fault /\ UNCHANGED status
  /\ UNCHANGED <<switches, reopened, stored, phase, req, emails, broken, history>>

(* The worker dies: the job is taken up again, from its beginning.         *)
Stall(i) ==
  /\ job[i].state = "notified"
  /\ Fault
  /\ SetJob(i, "waiting")
  /\ count' = [count EXCEPT ![i] = 0]
  /\ stalled' = stalled \cup {job[i].r}
  /\ UNCHANGED <<survey, stored, phase, req, tries, emails, broken, raced, met, dropped>>

(* The survey is paused, completed or resumed.                             *)
Switch ==
  /\ faults + switches < MaxDisturbances /\ switches' = switches + 1
  /\ status' \in Status \ {status}
  /\ reopened' = (reopened \/ status = "completed")
  /\ UNCHANGED <<stored, phase, req, jobs, broken, faults, history>>

-----------------------------------------------------------------------------
Init ==
  /\ status = "inProgress" /\ switches = 0 /\ reopened = FALSE
  /\ rows = [r \in Responses |-> NoRow] /\ links = [r \in Responses |-> NoLinks]
  /\ phase = [i \in Requests |-> "idle"] /\ req = [i \in Requests |-> Blank]
  /\ job = [i \in Requests |-> [state |-> "none", r |-> 0]]
  /\ tries = [i \in Requests |-> 0]
  /\ count = [i \in Requests |-> 0] /\ emails = [r \in Responses |-> 0]
  /\ broken \in BOOLEAN /\ faults = 0
  /\ raced = {} /\ met = {} /\ dropped = {} /\ stalled = {}

Serve(i) == Read(i) \/ Store(i) \/ Conflict(i) \/ Commit(i) \/ Announce(i)
Work(i) == Attempt(i) \/ CompleteSurvey(i)

Next ==
  \/ Arrive \/ Switch
  \/ \E i \in Requests : Serve(i) \/ Fail(i) \/ Work(i) \/ Stall(i)

Spec == Init /\ [][Next]_vars

(* As long as there is something to do, some request or some job goes on.  *)
FairSpec == Spec /\ WF_vars(\E i \in Requests : Serve(i) \/ Work(i))
-----------------------------------------------------------------------------
TypeOK ==
  /\ status \in Status /\ faults \in Nat /\ switches \in Nat /\ reopened \in BOOLEAN
  /\ rows \in [Responses -> Row \cup {NoRow}]
  /\ links \in [Responses -> [Quotas -> {"none", "screenedIn", "screenedOut"}]]
  /\ phase \in [Requests -> {"idle", "checked", "read", "stored", "committed", "done"}]
  /\ \A i \in Requests : phase[i] \notin {"idle", "done"} => req[i].r \in Responses
  /\ job \in [Requests -> [state : {"none", "waiting", "notified", "done", "failed"},
                           r : Responses \cup {0}]]
  /\ tries \in [Requests -> 0 .. MaxAttempts - 1]
  /\ count \in [Requests -> Nat]
  /\ emails \in [Responses -> Nat]
  /\ broken \in BOOLEAN /\ faults + switches <= MaxDisturbances
  /\ raced \subseteq Quotas /\ met \subseteq Responses /\ dropped \subseteq Responses
  /\ stalled \subseteq Responses

(* A quota screens in no more responses than its limit, whatever order     *)
(* creates and updates of several respondents take, and whatever answers   *)
(* are changed on the way - unless two transactions counted for it at once *)
(* or it could not be evaluated (utils.ts:121-184, evaluation-service.ts:  *)
(* 32-86).                                                                 *)
QuotaLimit ==
  \A q \in Quotas \ raced :
    Cardinality({r \in Responses : /\ links[r][q] = "screenedIn"
                                   /\ q \in PartialQuotas \/ rows[r].finished}) <= Limit

(* A finished response is announced: once no request for it is under way   *)
(* there is a job - but for responses that the quotas ended, and if the    *)
(* queue failed after the commit.                                          *)
EndedByQuota(r) == \E q \in EndingQuotas : links[r][q] = "screenedOut"

FinishedIsAnnounced ==
  \A r \in Responses \ dropped :
    rows[r].finished /\ ~UnderWay(r, 0) =>
      EndedByQuota(r) \/ \E i \in Requests : job[i].r = r

(* A respondent's completion is notified once, through all the retries of  *)
(* the webhooks - unless two requests for the response were under way at   *)
(* once or a worker died after the e-mails.                                *)
NotifiedOnce ==
  \A r \in Responses \ (met \cup stalled) : emails[r] <= 1

(* What was accepted stays: an answer is not lost and a finished response  *)
(* is not opened again - unless two requests for it were under way at once.*)
NothingTakenBack ==
  [][\A r \in Responses \ met :
       /\ rows[r].answer \in Answers => rows'[r].answer \in Answers
       /\ rows[r].finished => rows'[r].finished]_vars

(* The auto-complete does not miss its number: when as many finished       *)
(* responses have been worked off, the survey is completed, unless someone *)
(* has reopened it or a step failed.                                       *)
WorkedOff == {job[i].r : i \in {k \in Requests : job[k].state = "done"}}

LimitCompletes ==
  Cardinality(WorkedOff) >= AutoComplete /\ faults = 0 /\ ~reopened => status = "completed"

(* Every request that was accepted ends, and so does every job: neither a  *)
(* lock nor a webhook that is down for good holds them up.                 *)
Busy ==
  \E i \in Requests : phase[i] \notin {"idle", "done"} \/ job[i].state \in {"waiting", "notified"}

EverythingEnds == Busy ~> ~Busy
=============================================================================
