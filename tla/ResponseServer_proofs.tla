------------------------ MODULE ResponseServer_proofs ------------------------
(***************************************************************************)
(* Proofs about ResponseServer for every set of quotas and every number of *)
(* responses, requests, attempts and disturbances: the types and the five  *)
(* safety properties.                                                      *)
(*                                                                         *)
(* None of the five is inductive.  What a request has read or counted      *)
(* before it commits must still be true when it does: QuotaInv says it of  *)
(* the places in a quota, Alone and Current of the row, JobInv and         *)
(* AnnounceInv of the announcement, Low of the responses that a job counts.*)
(***************************************************************************)
EXTENDS ResponseServer, FiniteSetTheorems, WellFoundedInduction, TLAPS

LinkStatus == {"none", "screenedIn", "screenedOut"}
JobStates  == {"none", "waiting", "notified", "done", "failed"}
Request == [op : {"create", "update"}, r : Responses \cup {0}, fin : BOOLEAN,
            row : Row \cup {NoRow}, links : [Quotas -> LinkStatus]]

Active(i) == phase[i] \notin {"idle", "done"}
Stored(i) == phase[i] = "stored"

DataInv ==
  /\ status \in Status /\ reopened \in BOOLEAN
  /\ faults \in Nat /\ switches \in Nat /\ faults + switches <= MaxDisturbances
  /\ rows \in [Responses -> Row \cup {NoRow}]
  /\ links \in [Responses -> [Quotas -> LinkStatus]]
  /\ phase \in [Requests -> {"idle", "checked", "read", "stored", "committed", "done"}]
  /\ req \in [Requests -> Request]
  /\ job \in [Requests -> [state : JobStates, r : Responses \cup {0}]]
  /\ tries \in [Requests -> 0 .. MaxAttempts - 1]
  /\ count \in [Requests -> Nat]
  /\ emails \in [Responses -> Nat]
  /\ broken \in BOOLEAN
  /\ raced \subseteq Quotas /\ met \subseteq Responses /\ dropped \subseteq Responses
  /\ stalled \subseteq Responses

RowsInv ==
  \A i \in Requests :
    /\ Active(i) => req[i].r \in Responses
    /\ phase[i] \in {"read", "stored"} => req[i].row \in Row
    /\ phase[i] = "checked" /\ req[i].op = "update" => rows[req[i].r] # NoRow
    /\ phase[i] = "committed" => rows[req[i].r] # NoRow
    /\ job[i].state # "none" => job[i].r \in Responses /\ rows[job[i].r] # NoRow

TypeInv == DataInv /\ RowsInv

-----------------------------------------------------------------------------
In(q) == {x \in Responses : /\ links[x][q] = "screenedIn"
                            /\ q \in PartialQuotas \/ rows[x].finished}
Counts(i, q) == req[i].links[q] = "screenedIn" /\ (q \in PartialQuotas \/ req[i].row.finished)

QuotaInv ==
  /\ \A i, k \in Requests : Stored(i) /\ Stored(k) /\ i # k =>
       /\ req[i].r # req[k].r
       /\ Passed(req[i].row) \cap Passed(req[k].row) \subseteq raced
  /\ \A i \in Requests, q \in Quotas \ raced : Stored(i) =>
       /\ req[i].links[q] # "none" => q \in Passed(req[i].row)
       /\ Counts(i, q) => Cardinality(In(q) \ {req[i].r}) < Limit
  /\ QuotaLimit

JobInv ==
  \A i \in Requests :
    /\ phase[i] # "done" => job[i].state = "none"
    /\ job[i].state = "none" => job[i].r = 0
    /\ Stored(i) /\ req[i].fin => req[i].row.finished
    /\ Stored(i) /\ req[i].row.finished =>
         req[i].fin \/ \E q \in EndingQuotas : req[i].links[q] = "screenedOut"

Announced(r) ==
  \/ \E i \in Requests : job[i].r = r
  \/ \E i \in Requests : phase[i] = "committed" /\ req[i].r = r /\ req[i].fin

AnnounceInv ==
  \A r \in Responses \ dropped : rows[r].finished => EndedByQuota(r) \/ Announced(r)

\* one request, and one job, for a response that has not met
Alone ==
  \A i, k \in Requests :
    Active(i) /\ Active(k) /\ req[i].r = req[k].r /\ req[i].r \notin met => i = k

OneJob ==
  \A i, k \in Requests :
    job[i].state # "none" /\ job[k].state # "none" /\ job[i].r = job[k].r /\ job[i].r \notin met
      => i = k

\* what such a request knows of the row
Current ==
  \A i \in Requests : Active(i) /\ req[i].r \notin met =>
    /\ (phase[i] = "checked" /\ req[i].op = "update") \/ phase[i] \in {"read", "stored"}
         => ~rows[req[i].r].finished
    /\ phase[i] \in {"read", "stored"} /\ rows[req[i].r].answer \in Answers
         => req[i].row.answer \in Answers
    /\ phase[i] = "committed" /\ req[i].fin
         => rows[req[i].r].finished /\ \A k \in Requests : job[k].r # req[i].r

JobIsFinished == \A i \in Requests : job[i].state # "none" /\ job[i].r \notin met => rows[job[i].r].finished

Unmailed ==
  /\ \A i \in Requests :
       job[i].state = "waiting" /\ job[i].r \notin met \cup stalled => emails[job[i].r] = 0
  /\ \A r \in Responses : (\A i \in Requests : job[i].r # r) => emails[r] = 0

OnceInv == Alone /\ OneJob /\ Current /\ JobIsFinished /\ Unmailed /\ NotifiedOnce

Low == {job[i].r : i \in {k \in Requests : \/ job[k].state = "done"
                                           \/ job[k].state = "notified" /\ count[k] < AutoComplete}}
LimitInv ==
  faults = 0 /\ ~reopened /\ status # "completed" => Cardinality(Low) < AutoComplete

-----------------------------------------------------------------------------
(* A non-empty set of numbers has a minimum.                               *)
LEMMA MinExists ==
  ASSUME NEW S \in SUBSET Nat, S # {}
  PROVE  Min(S) \in S
<1>. DEFINE R == OpToRel(<, Nat)
<1>1. PICK m \in S : \A y \in S : ~(<<y, m>> \in R)
  <2>1. IsWellFoundedOn(R, Nat)
    BY NatLessThanWellFounded
  <2>. HIDE DEF R
  <2>. QED  BY <2>1, WFMin
<1>2. \A y \in S : m <= y
  <2>. SUFFICES ASSUME NEW y \in S PROVE m <= y
    OBVIOUS
  <2>1. y \in Nat /\ m \in Nat
    OBVIOUS
  <2>2. ~(y < m)
    BY <1>1, <2>1 DEF OpToRel
  <2>. QED  BY <2>1, <2>2
<1>. QED  BY <1>2 DEF Min

(* What evaluateQuotas and upsertResponseQuotaLinks return.                *)
LEMMA LinkedType ==
  ASSUME NEW row, NEW r \in Responses, links \in [Responses -> [Quotas -> LinkStatus]]
  PROVE  Linked(row, r) \in [Quotas -> LinkStatus]
BY DEF Linked, LinkStatus

LEMMA EndedType ==
  ASSUME NEW row \in Row, NEW r
  PROVE  Ended(row, r) \in Row
BY DEF Ended, Row, Ends

LEMMA AbsentIsNoRow ==
  /\ NoRow \notin Row
  /\ \A row \in Row : row # NoRow
BY DEF Row, NoRow, Answers, NoAnswer

LEMMA NewcomerIsIdle ==
  ASSUME NEW i \in Requests, phase[i] = "idle"
  PROVE  Newcomer \in Requests /\ phase[Newcomer] = "idle"
<1>1. {k \in Requests : phase[k] = "idle"} \in SUBSET Nat
  BY DEF Requests
<1>. QED  BY <1>1, MinExists DEF Newcomer

-----------------------------------------------------------------------------
(* Every step keeps the types and the rows that requests and jobs rely on. *)
LEMMA InitType == Init => TypeInv
<1>. SUFFICES ASSUME Init PROVE TypeInv
  OBVIOUS
<1>1. MaxAttempts \in Nat \ {0} /\ MaxDisturbances \in Nat
  BY NumbersAssumption
<1>2. Blank \in Request /\ NoLinks \in [Quotas -> LinkStatus]
  BY DEF Blank, Request, NoLinks, LinkStatus
<1>3. DataInv
  <2>1. status \in Status /\ reopened \in BOOLEAN
    BY DEF Init, Status
  <2>5. faults \in Nat /\ switches \in Nat /\ faults + switches <= MaxDisturbances
    BY <1>1 DEF Init
  <2>2. rows \in [Responses -> Row \cup {NoRow}] /\ links \in [Responses -> [Quotas -> LinkStatus]]
    BY <1>2 DEF Init
  <2>3. tries \in [Requests -> 0 .. MaxAttempts - 1]
    BY <1>1 DEF Init
  <2>4. job \in [Requests -> [state : JobStates, r : Responses \cup {0}]]
    BY DEF Init, JobStates
  <2>. QED  BY <1>2, <2>1, <2>2, <2>3, <2>4, <2>5 DEF Init, DataInv
<1>4. RowsInv
  BY DEF Init, RowsInv, Active
<1>. QED  BY <1>3, <1>4 DEF TypeInv

LEMMA ArriveType ==
  ASSUME TypeInv, Arrive
  PROVE  TypeInv'
<1>. USE DEF TypeInv, DataInv
<1>1. Newcomer \in Requests /\ phase[Newcomer] = "idle"
  BY NewcomerIsIdle DEF Arrive
<1>2. PICK op \in {"create", "update"}, r \in Responses :
        /\ Accepts(op, r)
        /\ Move(Newcomer, "checked")
        /\ req' = [req EXCEPT ![Newcomer] =
                    [op |-> op, r |-> r, fin |-> FALSE, row |-> NoRow, links |-> NoLinks]]
        /\ met' = IF UnderWay(r, Newcomer) THEN met \cup {r} ELSE met
  BY DEF Arrive
<1>3. [op |-> op, r |-> r, fin |-> FALSE, row |-> NoRow, links |-> NoLinks] \in Request
  BY DEF Request, NoLinks, LinkStatus
<1>4. DataInv'
  BY <1>1, <1>2, <1>3 DEF Arrive, Move, survey, stored, jobs
<1>5. RowsInv'
  BY <1>1, <1>2 DEF Arrive, Move, RowsInv, Active, Accepts, survey, stored, jobs
<1>. QED  BY <1>4, <1>5

LEMMA HoldType ==
  ASSUME req \in [Requests -> Request], NEW i \in Requests, NEW fin \in BOOLEAN,
         NEW row \in Row \cup {NoRow}, NEW ls \in [Quotas -> LinkStatus], Hold(i, fin, row, ls)
  PROVE  /\ req' \in [Requests -> Request]
         /\ \A k \in Requests : req'[k].op = req[k].op /\ req'[k].r = req[k].r
         /\ \A k \in Requests \ {i} : req'[k] = req[k]
         /\ req'[i].fin = fin /\ req'[i].row = row /\ req'[i].links = ls
<1>1. [op |-> req[i].op, r |-> req[i].r, fin |-> fin, row |-> row, links |-> ls] \in Request
  BY DEF Request
<1>2. req' = [req EXCEPT ![i] = [op |-> req[i].op, r |-> req[i].r, fin |-> fin, row |-> row,
                                 links |-> ls]]
  BY DEF Hold
<1>. QED  BY <1>1, <1>2

LEMMA DoneType ==
  ASSUME TypeInv, NEW i \in Requests, Done(i), UNCHANGED <<rows, job>>
  PROVE  /\ phase' \in [Requests -> {"idle", "checked", "read", "stored", "committed", "done"}]
         /\ req' \in [Requests -> Request]
         /\ RowsInv'
<1>1. Blank \in Request
  BY DEF Blank, Request, NoLinks, LinkStatus
<1>. QED  BY <1>1 DEF TypeInv, DataInv, RowsInv, Done, Move, Active

LEMMA ReadType ==
  ASSUME TypeInv, NEW i \in Requests, Read(i)
  PROVE  TypeInv'
<1>. USE DEF TypeInv, DataInv
<1>1. PICK input \in Row : Hold(i, FALSE, Merged(rows[req[i].r], input), NoLinks)
  BY DEF Read
<1>2. req[i].r \in Responses /\ rows[req[i].r] \in Row
  BY DEF Read, RowsInv, Active
<1>3. Merged(rows[req[i].r], input) \in Row
  BY <1>2 DEF Merged, Row
<1>4. NoLinks \in [Quotas -> LinkStatus]
  BY DEF NoLinks, LinkStatus
<1>5. /\ req' \in [Requests -> Request]
      /\ \A k \in Requests : req'[k].op = req[k].op /\ req'[k].r = req[k].r
      /\ \A k \in Requests \ {i} : req'[k] = req[k]
      /\ req'[i].row \in Row
  BY <1>1, <1>3, <1>4, HoldType
<1>6. DataInv'
  BY <1>5 DEF Read, Move, survey, stored, jobs, history
<1>7. RowsInv'
  BY <1>2, <1>5 DEF Read, Move, RowsInv, Active, survey, stored, jobs
<1>. QED  BY <1>6, <1>7

\* the row and the links that Write leaves for the commit
LEMMA WriteType ==
  ASSUME TypeInv, NEW i \in Requests, NEW row \in Row, Write(i, row), req[i].r \in Responses,
         UNCHANGED <<survey, stored, jobs, broken, met, dropped, stalled>>
  PROVE  TypeInv'
<1>. USE DEF TypeInv, DataInv
<1>. DEFINE r == req[i].r
<1>1. Linked(row, r) \in [Quotas -> LinkStatus] /\ links[r] \in [Quotas -> LinkStatus]
  BY LinkedType
<1>2. Ended(row, r) \in Row /\ row.finished \in BOOLEAN /\ Passed(row) \subseteq Quotas
  BY EndedType DEF Row, Passed
<1>3. PICK new \in Row, ls \in [Quotas -> LinkStatus] : Hold(i, row.finished, new, ls)
  BY <1>1, <1>2 DEF Write
<1>4. /\ req' \in [Requests -> Request]
      /\ \A k \in Requests : req'[k].op = req[k].op /\ req'[k].r = req[k].r
      /\ \A k \in Requests \ {i} : req'[k] = req[k]
      /\ req'[i].row \in Row
  BY <1>2, <1>3, HoldType
<1>5. faults' \in Nat /\ faults' + switches <= MaxDisturbances
  BY NumbersAssumption DEF Write, Fault
<1>6. raced' \subseteq Quotas
  <2>1. \A k \in Requests : Passed(row) \cap Passed(req[k].row) \subseteq Quotas
    BY <1>2
  <2>. QED  BY <1>2, <2>1 DEF Write
<1>7. phase' = [phase EXCEPT ![i] = "stored"]
  BY DEF Write, Move
<1>8. DataInv'
  BY <1>4, <1>5, <1>6, <1>7 DEF survey, stored, jobs
<1>9. RowsInv'
  BY <1>4, <1>7 DEF RowsInv, Active, stored, jobs
<1>. QED  BY <1>8, <1>9

LEMMA StoreType ==
  ASSUME TypeInv, NEW i \in Requests, Store(i)
  PROVE  TypeInv'
<1>1. req[i].r \in Responses
  BY DEF Store, TypeInv, RowsInv, Active
<1>2. PICK row \in Row : Write(i, row)
  BY DEF Store, TypeInv, RowsInv
<1>. QED  BY <1>1, <1>2, WriteType DEF Store

LEMMA CommitType ==
  ASSUME TypeInv, NEW i \in Requests, Commit(i)
  PROVE  TypeInv'
<1>. USE DEF TypeInv, DataInv
<1>1. req[i].r \in Responses /\ req[i].row \in Row /\ req[i] \in Request
  BY DEF Commit, RowsInv, Active
<1>2. /\ req' \in [Requests -> Request]
      /\ \A k \in Requests : req'[k].op = req[k].op /\ req'[k].r = req[k].r
      /\ \A k \in Requests \ {i} : req'[k] = req[k]
  <2>1. req[i].fin \in BOOLEAN /\ NoLinks \in [Quotas -> LinkStatus]
    BY <1>1 DEF Request, NoLinks, LinkStatus
  <2>. QED  BY <2>1, HoldType DEF Commit
<1>3. /\ rows' \in [Responses -> Row \cup {NoRow}]
      /\ \A x \in Responses : x = req[i].r \/ rows[x] # NoRow => rows'[x] # NoRow
  BY <1>1, AbsentIsNoRow DEF Commit
<1>4. links' \in [Responses -> [Quotas -> LinkStatus]]
  BY <1>1 DEF Commit, Request
<1>5. DataInv'
  BY <1>2, <1>3, <1>4 DEF Commit, Move, survey, jobs, history
<1>6. RowsInv'
  BY <1>1, <1>2, <1>3 DEF Commit, Move, RowsInv, Active, jobs
<1>. QED  BY <1>5, <1>6

LEMMA AnnounceType ==
  ASSUME TypeInv, NEW i \in Requests, Announce(i)
  PROVE  TypeInv'
<1>. USE DEF TypeInv, DataInv
<1>1. req[i].r \in Responses /\ rows[req[i].r] # NoRow
  BY DEF Announce, RowsInv, Active
<1>2. /\ job' \in [Requests -> [state : JobStates, r : Responses \cup {0}]]
      /\ \A k \in Requests : job'[k].state # "none" =>
           job'[k].r \in Responses /\ rows[job'[k].r] # NoRow
  BY <1>1 DEF Announce, JobStates, RowsInv
<1>3. Blank \in Request
  BY DEF Blank, Request, NoLinks, LinkStatus
<1>4. DataInv'
  BY <1>2, <1>3 DEF Announce, Done, Move, survey, stored, history
<1>5. RowsInv'
  BY <1>2 DEF Announce, Done, Move, RowsInv, Active, stored
<1>. QED  BY <1>4, <1>5

LEMMA EndsType ==
  ASSUME TypeInv, NEW i \in Requests, Conflict(i) \/ Fail(i)
  PROVE  TypeInv'
<1>. USE DEF TypeInv, DataInv
<1>1. Done(i) /\ UNCHANGED <<rows, job>>
  BY DEF Conflict, Fail, stored, jobs
<1>2. /\ phase' \in [Requests -> {"idle", "checked", "read", "stored", "committed", "done"}]
      /\ req' \in [Requests -> Request]
      /\ RowsInv'
  BY <1>1, DoneType
<1>3. dropped' \subseteq Responses /\ faults' \in Nat /\ faults' + switches' <= MaxDisturbances
  BY NumbersAssumption DEF Conflict, Fail, Fault, RowsInv, Active, survey, history
<1>4. DataInv'
  BY <1>2, <1>3 DEF Conflict, Fail, survey, stored, jobs, history
<1>. QED  BY <1>2, <1>4

\* what becomes of a job
LEMMA SetJobType ==
  ASSUME TypeInv, NEW i \in Requests, job[i].state # "none", NEW to \in JobStates, SetJob(i, to),
         UNCHANGED <<rows, phase, req>>
  PROVE  /\ job' \in [Requests -> [state : JobStates, r : Responses \cup {0}]]
         /\ \A k \in Requests : job'[k].r = job[k].r
         /\ \A k \in Requests \ {i} : job'[k] = job[k]
         /\ job'[i].state = to
         /\ RowsInv'
BY DEF TypeInv, DataInv, RowsInv, SetJob, Active

LEMMA ResponseCountType == ResponseCount \in Nat
<1>1. MaxResponses \in Nat /\ IsFiniteSet(Responses)
  BY NumbersAssumption, FS_Interval DEF Responses
<1>2. {r \in Responses : rows[r] # NoRow} \in SUBSET Responses
  OBVIOUS
<1>. QED  BY <1>1, <1>2, FS_Subset, FS_CardinalityType DEF ResponseCount

LEMMA AttemptType ==
  ASSUME TypeInv, NEW i \in Requests, Attempt(i)
  PROVE  TypeInv'
<1>. USE DEF TypeInv, DataInv
<1>1. job[i].state # "none" /\ job[i].r \in Responses
  BY DEF Attempt, RowsInv
<1>2. CASE Notify(i)
  <2>1. /\ job' \in [Requests -> [state : JobStates, r : Responses \cup {0}]]
        /\ RowsInv'
    BY <1>1, <1>2, SetJobType DEF Notify, Attempt, stored, JobStates
  <2>2. /\ count' \in [Requests -> Nat] /\ emails' \in [Responses -> Nat]
        /\ faults' \in Nat /\ faults' + switches <= MaxDisturbances
    <3>1. emails[job[i].r] + 1 \in Nat /\ faults + 1 \in Nat /\ MaxDisturbances \in Nat
      BY <1>1, NumbersAssumption
    <3>2. count' \in [Requests -> Nat]
      BY <1>2, ResponseCountType DEF Notify
    <3>3. emails' \in [Responses -> Nat]
      BY <1>1, <1>2, <3>1 DEF Notify
    <3>4. faults' \in Nat /\ faults' + switches <= MaxDisturbances
      BY <1>2, <3>1 DEF Notify, Fault
    <3>. QED  BY <3>2, <3>3, <3>4
  <2>3. DataInv'
    BY <1>2, <2>1, <2>2 DEF Notify, Attempt, survey, stored, history
  <2>. QED  BY <2>1, <2>3
<1>3. CASE Retry(i)
  <2>1. tries' \in [Requests -> 0 .. MaxAttempts - 1]
    BY <1>3, NumbersAssumption DEF Retry, LastAttempt
  <2>2. DataInv'
    BY <1>3, <2>1 DEF Retry, Attempt, survey, stored, history
  <2>3. RowsInv'
    BY <1>3 DEF Retry, Attempt, stored, RowsInv, Active
  <2>. QED  BY <2>2, <2>3
<1>4. CASE LookupFails(i)
  <2>1. /\ job' \in [Requests -> [state : JobStates, r : Responses \cup {0}]]
        /\ RowsInv'
    BY <1>1, <1>4, SetJobType DEF LookupFails, Attempt, stored, JobStates
  <2>2. faults' \in Nat /\ faults' + switches <= MaxDisturbances
    BY <1>4, NumbersAssumption DEF LookupFails, Fault
  <2>3. DataInv'
    BY <1>4, <2>1, <2>2 DEF LookupFails, Attempt, survey, stored, history
  <2>. QED  BY <2>1, <2>3
<1>. QED  BY <1>2, <1>3, <1>4 DEF Attempt

LEMMA CompleteSurveyType ==
  ASSUME TypeInv, NEW i \in Requests, CompleteSurvey(i)
  PROVE  TypeInv'
<1>. USE DEF TypeInv, DataInv
<1>1. /\ job' \in [Requests -> [state : JobStates, r : Responses \cup {0}]]
      /\ RowsInv'
  BY SetJobType DEF CompleteSurvey, stored, JobStates
<1>2. /\ status' \in Status /\ faults' \in Nat /\ faults' + switches <= MaxDisturbances
      /\ count' \in [Requests -> Nat] /\ tries' \in [Requests -> 0 .. MaxAttempts - 1]
  BY NumbersAssumption DEF CompleteSurvey, Fault, Status
<1>3. DataInv'
  BY <1>1, <1>2 DEF CompleteSurvey, stored, history
<1>. QED  BY <1>1, <1>3

LEMMA StallType ==
  ASSUME TypeInv, NEW i \in Requests, Stall(i)
  PROVE  TypeInv'
<1>. USE DEF TypeInv, DataInv
<1>1. /\ job' \in [Requests -> [state : JobStates, r : Responses \cup {0}]]
      /\ RowsInv'
  BY SetJobType DEF Stall, stored, JobStates
<1>2. /\ faults' \in Nat /\ faults' + switches <= MaxDisturbances
      /\ count' \in [Requests -> Nat] /\ stalled' \subseteq Responses
  BY NumbersAssumption DEF Stall, Fault, RowsInv
<1>3. DataInv'
  BY <1>1, <1>2 DEF Stall, survey, stored
<1>. QED  BY <1>1, <1>3

LEMMA SwitchType ==
  ASSUME TypeInv, Switch
  PROVE  TypeInv'
<1>1. switches' \in Nat /\ faults + switches' <= MaxDisturbances
  BY NumbersAssumption DEF Switch, TypeInv, DataInv
<1>2. reopened' \in BOOLEAN
  BY DEF Switch, TypeInv, DataInv
<1>. QED  BY <1>1, <1>2 DEF Switch, TypeInv, DataInv, RowsInv, Active, stored, jobs, history

LEMMA StutterType ==
  ASSUME TypeInv, UNCHANGED vars
  PROVE  TypeInv'
BY DEF vars, TypeInv, DataInv, RowsInv, Active, survey, stored, jobs, history

(* The invariant of the types, in every reachable state.                   *)
THEOREM TypesHold == Spec => []TypeInv
<1>1. TypeInv /\ [Next]_vars => TypeInv'
  BY ArriveType, SwitchType, ReadType, StoreType, EndsType, CommitType, AnnounceType, AttemptType,
     CompleteSurveyType, StallType, StutterType DEF Next, Serve, Work
<1>. QED  BY <1>1, InitType, PTL DEF Spec

(* TypeOK: every variable has its type, for every number of responses,     *)
(* requests and disturbances, and every set of quotas.                     *)
THEOREM TypeCorrect == Spec => []TypeOK
<1>1. TypeInv => TypeOK
  BY DEF TypeInv, DataInv, RowsInv, TypeOK, LinkStatus, JobStates, Active
<1>. QED  BY <1>1, TypesHold, PTL

-----------------------------------------------------------------------------
(* The quotas.  A transaction that has counted holds a place: QuotaInv says*)
(* that the place is still there when it commits, because the others that  *)
(* are open meet other quotas, or the quota is in raced.                   *)
LEMMA ScreenedFinite ==
  ASSUME NEW S \in SUBSET Responses
  PROVE  IsFiniteSet(S) /\ Cardinality(S) \in Nat
<1>1. MaxResponses \in Nat /\ IsFiniteSet(Responses)
  BY NumbersAssumption, FS_Interval DEF Responses
<1>. QED  BY <1>1, FS_Subset, FS_CardinalityType

LEMMA QuotaKept ==
  ASSUME QuotaInv, UNCHANGED <<rows, links, raced>>,
         \A k \in Requests : Stored(k)' => Stored(k) /\ req'[k] = req[k]
  PROVE  QuotaInv'
<1>1. \A q : In(q)' = In(q)
  BY DEF In
<1>2. \A k \in Requests, q \in Quotas : Stored(k)' => (Counts(k, q)' <=> Counts(k, q))
  BY DEF Counts
<1>3. QuotaLimit'
  BY DEF QuotaInv, QuotaLimit
<1>4. \A i, k \in Requests : Stored(i)' /\ Stored(k)' /\ i # k =>
        /\ req'[i].r # req'[k].r
        /\ Passed(req'[i].row) \cap Passed(req'[k].row) \subseteq raced'
  BY DEF QuotaInv
<1>5. \A i \in Requests, q \in Quotas \ raced' : Stored(i)' =>
        /\ req'[i].links[q] # "none" => q \in Passed(req'[i].row)
        /\ Counts(i, q)' => Cardinality(In(q)' \ {req'[i].r}) < Limit
  BY <1>1, <1>2 DEF QuotaInv
<1>. QED  BY <1>3, <1>4, <1>5 DEF QuotaInv, Passed

\* a place that Linked gives is free
LEMMA LinkedHasPlace ==
  ASSUME TypeInv, NEW row \in Row, NEW r \in Responses, NEW q \in Quotas
  PROVE  /\ Linked(row, r)[q] # "none" => q \in Passed(row)
         /\ Linked(row, r)[q] = "screenedIn" /\ (q \in PartialQuotas \/ Ended(row, r).finished)
              => Cardinality(In(q) \ {r}) < Limit
<1>1. Linked(row, r)[q] # "none" => q \in Passed(row)
  BY DEF Linked
<1>2. ASSUME Linked(row, r)[q] = "screenedIn", q \in PartialQuotas \/ Ended(row, r).finished
      PROVE  Cardinality(In(q) \ {r}) < Limit
  <2>1. q \in Passed(row)
    BY <1>1, <1>2
  <2>2. q \notin Full(row, r)
    BY <1>2, <2>1 DEF Linked, Ended
  <2>3. ~(ScreenedIn(q, r) >= Limit)
    BY <2>1, <2>2 DEF Full
  <2>4. {x \in Responses \ {r} : /\ links[x][q] = "screenedIn"
                                 /\ q \in PartialQuotas \/ rows[x].finished} = In(q) \ {r}
    BY DEF In
  <2>5. Cardinality(In(q) \ {r}) \in Nat
    BY ScreenedFinite DEF In
  <2>6. ScreenedIn(q, r) = Cardinality(In(q) \ {r})
    BY <2>4 DEF ScreenedIn
  <2>7. Limit \in Nat
    BY NumbersAssumption
  <2>. QED  BY <2>3, <2>5, <2>6, <2>7
<1>. QED  BY <1>1, <1>2

LEMMA WriteQuota ==
  ASSUME TypeInv, QuotaInv, NEW i \in Requests, NEW row \in Row, Write(i, row),
         req[i].r \in Responses, phase[i] # "stored", UNCHANGED <<rows, links>>
  PROVE  QuotaInv'
<1>. USE DEF TypeInv, DataInv
<1>. DEFINE r == req[i].r
<1>1. phase' = [phase EXCEPT ![i] = "stored"] /\ ~Locked(r)
  BY DEF Write, Move
<1>2. Linked(row, r) \in [Quotas -> LinkStatus] /\ links[r] \in [Quotas -> LinkStatus]
  BY LinkedType
<1>3. Ended(row, r) \in Row /\ row.finished \in BOOLEAN
  BY EndedType DEF Row
<1>4. /\ \A k \in Requests : req'[k].r = req[k].r
      /\ \A k \in Requests \ {i} : req'[k] = req[k]
  BY <1>2, <1>3, HoldType DEF Write
<1>5. raced \subseteq raced'
  BY DEF Write
<1>6. \A k \in Requests \ {i} : Stored(k)' <=> Stored(k)
  BY <1>1 DEF Stored
<1>7. \A q : In(q)' = In(q)
  BY DEF In
<1>8. \A k \in Requests \ {i} : Stored(k) => req[k].r # r
  BY <1>1 DEF Stored, Locked
<1>9. /\ \A k \in Requests \ {i} : Stored(k) =>
           Passed(req'[i].row) \cap Passed(req[k].row) \subseteq raced'
      /\ \A q \in Quotas \ raced' :
           /\ req'[i].links[q] # "none" => q \in Passed(req'[i].row)
           /\ Counts(i, q)' => Cardinality(In(q) \ {r}) < Limit
  <2>1. CASE /\ Hold(i, row.finished, Ended(row, r), Linked(row, r))
             /\ raced' = raced \cup UNION {Passed(row) \cap Passed(req[k].row) :
                                             k \in {n \in Requests : phase[n] = "stored"}}
    <3>1. req'[i].row = Ended(row, r) /\ req'[i].links = Linked(row, r)
      BY <1>2, <1>3, <2>1, HoldType
    <3>2. Passed(req'[i].row) = Passed(row)
      BY <3>1 DEF Passed, Ended
    <3>3. \A k \in Requests : Stored(k) => Passed(row) \cap Passed(req[k].row) \subseteq raced'
      BY <2>1 DEF Stored
    <3>4. \A q \in Quotas : Counts(i, q)' => Cardinality(In(q) \ {r}) < Limit
      BY <3>1, LinkedHasPlace DEF Counts
    <3>. QED  BY <3>1, <3>2, <3>3, <3>4, LinkedHasPlace
  <2>2. CASE /\ Hold(i, row.finished, row, links[r])
             /\ raced' = raced \cup Passed(row) \cup {q \in Quotas : links[r][q] # "none"}
    <3>1. req'[i].row = row /\ req'[i].links = links[r]
      BY <1>2, <1>3, <2>2, HoldType
    <3>. QED  BY <2>2, <3>1 DEF Counts
  <2>. QED  BY <2>1, <2>2 DEF Write
<1>10. QuotaLimit'
  BY <1>5 DEF QuotaInv, QuotaLimit
<1>11. \A m, k \in Requests : Stored(m)' /\ Stored(k)' /\ m # k =>
         /\ req'[m].r # req'[k].r
         /\ Passed(req'[m].row) \cap Passed(req'[k].row) \subseteq raced'
  <2>. TAKE m, k \in Requests
  <2>1. CASE m # i /\ k # i
    BY <1>4, <1>5, <1>6, <2>1 DEF QuotaInv
  <2>2. CASE m = i /\ k # i
    BY <1>4, <1>6, <1>8, <1>9, <2>2
  <2>3. CASE k = i /\ m # i
    BY <1>4, <1>6, <1>8, <1>9, <2>3
  <2>. QED  BY <2>1, <2>2, <2>3
<1>12. \A m \in Requests, q \in Quotas \ raced' : Stored(m)' =>
         /\ req'[m].links[q] # "none" => q \in Passed(req'[m].row)
         /\ Counts(m, q)' => Cardinality(In(q)' \ {req'[m].r}) < Limit
  <2>. TAKE m \in Requests, q \in Quotas \ raced'
  <2>1. CASE m = i
    BY <1>4, <1>7, <1>9, <2>1
  <2>2. CASE m # i
    BY <1>4, <1>5, <1>6, <1>7, <2>2 DEF QuotaInv, Counts
  <2>. QED  BY <2>1, <2>2
<1>. QED  BY <1>10, <1>11, <1>12 DEF QuotaInv, Passed

LEMMA CommitQuota ==
  ASSUME TypeInv, QuotaInv, NEW i \in Requests, Commit(i)
  PROVE  QuotaInv'
<1>. USE DEF TypeInv, DataInv
<1>. DEFINE r == req[i].r
<1>1. r \in Responses /\ req[i] \in Request /\ phase[i] = "stored"
  BY DEF Commit, RowsInv, Active
<1>2. /\ phase' = [phase EXCEPT ![i] = "committed"] /\ raced' = raced
      /\ rows' = [rows EXCEPT ![r] = req[i].row]
      /\ links' = [links EXCEPT ![r] = req[i].links]
  BY DEF Commit, Move, history
<1>3. \A k \in Requests \ {i} : req'[k] = req[k]
  <2>1. req[i].fin \in BOOLEAN /\ NoLinks \in [Quotas -> LinkStatus]
    BY <1>1 DEF Request, NoLinks, LinkStatus
  <2>. QED  BY <2>1, HoldType DEF Commit
<1>4. \A k \in Requests : Stored(k)' <=> Stored(k) /\ k # i
  BY <1>2 DEF Stored
<1>5. \A q \in Quotas : In(q)' = (In(q) \ {r}) \cup (IF Counts(i, q) THEN {r} ELSE {})
  BY <1>1, <1>2 DEF In, Counts
<1>6. \A q \in Quotas : /\ IsFiniteSet(In(q)) /\ IsFiniteSet(In(q) \ {r})
                        /\ Cardinality(In(q)) \in Nat /\ Cardinality(In(q) \ {r}) \in Nat
                        /\ Cardinality(In(q) \ {r}) <= Cardinality(In(q))
  <2>. TAKE q \in Quotas
  <2>1. In(q) \in SUBSET Responses /\ In(q) \ {r} \in SUBSET Responses
    BY DEF In
  <2>. QED  BY <2>1, ScreenedFinite, FS_Subset
<1>7. \A q \in Quotas \ raced : Cardinality(In(q)') <= Limit
  <2>. TAKE q \in Quotas \ raced
  <2>. USE NumbersAssumption
  <2>1. Limit \in Nat
    OBVIOUS
  <2>2. CASE Counts(i, q)
    <3>1. Cardinality(In(q) \ {r}) < Limit
      BY <1>1, <2>2 DEF QuotaInv, Stored
    <3>2. Cardinality((In(q) \ {r}) \cup {r}) = Cardinality(In(q) \ {r}) + 1
      BY <1>6, FS_AddElement
    <3>3. In(q)' = (In(q) \ {r}) \cup {r}
      BY <1>5, <2>2
    <3>4. Cardinality(In(q)') = Cardinality(In(q) \ {r}) + 1
      BY <3>2, <3>3
    <3>5. Cardinality(In(q) \ {r}) \in Nat
      BY <1>6
    <3>. QED  BY <2>1, <3>1, <3>4, <3>5
  <2>3. CASE ~Counts(i, q)
    <3>1. Cardinality(In(q)) <= Limit
      BY DEF QuotaInv, QuotaLimit, In
    <3>2. In(q)' = In(q) \ {r}
      BY <1>5, <2>3
    <3>. QED  BY <1>6, <2>1, <3>1, <3>2
  <2>. QED  BY <2>2, <2>3
<1>8. QuotaLimit'
  BY <1>2, <1>7 DEF QuotaLimit, In
<1>9. \A m, k \in Requests : Stored(m)' /\ Stored(k)' /\ m # k =>
        /\ req'[m].r # req'[k].r
        /\ Passed(req'[m].row) \cap Passed(req'[k].row) \subseteq raced'
  BY <1>2, <1>3, <1>4 DEF QuotaInv
<1>10. \A m \in Requests, q \in Quotas \ raced' : Stored(m)' =>
         /\ req'[m].links[q] # "none" => q \in Passed(req'[m].row)
         /\ Counts(m, q)' => Cardinality(In(q)' \ {req'[m].r}) < Limit
  <2>. SUFFICES ASSUME NEW m \in Requests, NEW q \in Quotas \ raced, Stored(m), m # i
                PROVE  /\ req[m].links[q] # "none" => q \in Passed(req[m].row)
                       /\ Counts(m, q) => Cardinality(In(q)' \ {req[m].r}) < Limit
    BY <1>2, <1>3, <1>4 DEF Counts
  <2>1. req[m].links[q] # "none" => q \in Passed(req[m].row)
    BY DEF QuotaInv
  <2>2. ASSUME Counts(m, q) PROVE Cardinality(In(q)' \ {req[m].r}) < Limit
    <3>1. q \in Passed(req[m].row) /\ Cardinality(In(q) \ {req[m].r}) < Limit
      BY <2>1, <2>2 DEF QuotaInv, Counts
    <3>2. ~Counts(i, q)
      BY <1>1, <3>1 DEF QuotaInv, Stored, Counts
    <3>3. In(q)' \ {req[m].r} \in SUBSET (In(q) \ {req[m].r})
      BY <1>5, <3>2
    <3>4. IsFiniteSet(In(q) \ {req[m].r}) /\ Cardinality(In(q) \ {req[m].r}) \in Nat
      BY ScreenedFinite DEF In
    <3>5. Cardinality(In(q)' \ {req[m].r}) \in Nat
          /\ Cardinality(In(q)' \ {req[m].r}) <= Cardinality(In(q) \ {req[m].r})
      BY <3>3, <3>4, FS_Subset, FS_CardinalityType
    <3>. QED  BY <3>1, <3>4, <3>5, NumbersAssumption
  <2>. QED  BY <2>1, <2>2
<1>. QED  BY <1>8, <1>9, <1>10 DEF QuotaInv, Passed

LEMMA InitQuota == Init => QuotaInv
<1>. SUFFICES ASSUME Init PROVE QuotaInv
  OBVIOUS
<1>1. \A i \in Requests : ~Stored(i)
  BY DEF Init, Stored
<1>2. \A q \in Quotas : {r \in Responses : /\ links[r][q] = "screenedIn"
                                           /\ q \in PartialQuotas \/ rows[r].finished} = {}
  BY DEF Init, NoLinks
<1>3. QuotaLimit
  BY <1>2, FS_EmptySet, NumbersAssumption DEF QuotaLimit
<1>. QED  BY <1>1, <1>3 DEF QuotaInv

(* QuotaLimit: a quota that no two open transactions have counted for at   *)
(* once, and that was evaluated, never screens in more than its limit -    *)
(* for every number of quotas, respondents and requests.                   *)
THEOREM QuotaHolds == Spec => []QuotaLimit
<1>1. TypeInv /\ QuotaInv /\ [Next]_vars => QuotaInv'
  <2>. SUFFICES ASSUME TypeInv, QuotaInv, [Next]_vars PROVE QuotaInv'
    OBVIOUS
  <2>. USE DEF TypeInv, DataInv
  <2>1. CASE Arrive
    <3>1. Newcomer \in Requests /\ phase[Newcomer] = "idle"
      BY <2>1, NewcomerIsIdle DEF Arrive
    <3>2. \A k \in Requests : Stored(k)' => Stored(k) /\ req'[k] = req[k]
      BY <2>1, <3>1 DEF Arrive, Move, Stored
    <3>. QED  BY <2>1, <3>2, QuotaKept DEF Arrive, stored
  <2>2. ASSUME NEW i \in Requests, Read(i) PROVE QuotaInv'
    <3>1. \A k \in Requests : Stored(k)' => Stored(k) /\ req'[k] = req[k]
      BY <2>2 DEF Read, Move, Hold, Stored
    <3>. QED  BY <2>2, <3>1, QuotaKept DEF Read, stored, history
  <2>3. ASSUME NEW i \in Requests, Store(i) PROVE QuotaInv'
    <3>1. req[i].r \in Responses /\ phase[i] # "stored"
      BY <2>3 DEF Store, RowsInv, Active
    <3>2. PICK row \in Row : Write(i, row)
      BY <2>3 DEF Store, RowsInv
    <3>. QED  BY <2>3, <3>1, <3>2, WriteQuota DEF Store, stored
  <2>4. ASSUME NEW i \in Requests, Commit(i) PROVE QuotaInv'
    BY <2>4, CommitQuota
  <2>5. ASSUME NEW i \in Requests, Conflict(i) \/ Announce(i) \/ Fail(i) PROVE QuotaInv'
    <3>1. \A k \in Requests : Stored(k)' => Stored(k) /\ req'[k] = req[k]
      BY <2>5 DEF Conflict, Announce, Fail, Done, Move, Stored
    <3>. QED  BY <2>5, <3>1, QuotaKept DEF Conflict, Announce, Fail, stored, history
  <2>6. CASE UNCHANGED <<stored, phase, req, raced>>
    <3>1. \A k \in Requests : Stored(k)' => Stored(k) /\ req'[k] = req[k]
      BY <2>6 DEF Stored
    <3>. QED  BY <2>6, <3>1, QuotaKept DEF stored
  <2>7. (\E i \in Requests : Work(i) \/ Stall(i)) \/ Switch \/ UNCHANGED vars
          => UNCHANGED <<stored, phase, req, raced>>
    BY DEF Work, Attempt, CompleteSurvey, Stall, Switch, vars, history
  <2>. QED  BY <2>1, <2>2, <2>3, <2>4, <2>5, <2>6, <2>7 DEF Next, Serve
<1>2. QuotaInv => QuotaLimit
  BY DEF QuotaInv
<1>. QED  BY <1>1, <1>2, InitQuota, TypesHold, PTL DEF Spec

-----------------------------------------------------------------------------
(* Announcements.  The first full quota that ends the survey is linked     *)
(* screenedOut, so that a row that is finished without its request saying  *)
(* so shows which quota has ended it.                                      *)
LEMMA EndsIsLinked ==
  ASSUME NEW row, NEW r, Ends(row, r)
  PROVE  \E q \in EndingQuotas : Linked(row, r)[q] = "screenedOut"
<1>1. Full(row, r) \in SUBSET Nat /\ Full(row, r) \subseteq Passed(row) /\ Passed(row) \subseteq Quotas
  BY QuotasAssumption DEF Full, Passed
<1>2. Min(Full(row, r)) \in Full(row, r) /\ Min(Full(row, r)) \in EndingQuotas
  BY <1>1, MinExists DEF Ends
<1>. QED  BY <1>1, <1>2 DEF Linked

LEMMA WriteJob ==
  ASSUME TypeInv, JobInv, NEW i \in Requests, NEW row \in Row, Write(i, row),
         req[i].r \in Responses, phase[i] # "done", UNCHANGED job
  PROVE  JobInv'
<1>. USE DEF TypeInv, DataInv
<1>. DEFINE r == req[i].r
<1>1. phase' = [phase EXCEPT ![i] = "stored"]
  BY DEF Write, Move
<1>2. Linked(row, r) \in [Quotas -> LinkStatus] /\ links[r] \in [Quotas -> LinkStatus]
  BY LinkedType
<1>3. Ended(row, r) \in Row /\ row.finished \in BOOLEAN
  BY EndedType DEF Row
<1>4. \A k \in Requests \ {i} : req'[k] = req[k]
  BY <1>2, <1>3, HoldType DEF Write
<1>5. /\ req'[i].fin => req'[i].row.finished
      /\ req'[i].row.finished =>
           req'[i].fin \/ \E q \in EndingQuotas : req'[i].links[q] = "screenedOut"
  <2>1. CASE Hold(i, row.finished, Ended(row, r), Linked(row, r))
    <3>1. /\ req'[i].fin = row.finished /\ req'[i].row = Ended(row, r)
          /\ req'[i].links = Linked(row, r)
      BY <1>2, <1>3, <2>1, HoldType
    <3>2. Ended(row, r).finished <=> row.finished \/ Ends(row, r)
      BY <1>3 DEF Ended
    <3>3. Ends(row, r) => \E q \in EndingQuotas : req'[i].links[q] = "screenedOut"
      BY <3>1, EndsIsLinked
    <3>. QED  BY <3>1, <3>2, <3>3
  <2>2. CASE Hold(i, row.finished, row, links[r])
    <3>1. req'[i].fin = row.finished /\ req'[i].row = row
      BY <1>2, <1>3, <2>2, HoldType
    <3>. QED  BY <3>1
  <2>. QED  BY <2>1, <2>2 DEF Write
<1>. QED  BY <1>1, <1>4, <1>5 DEF JobInv, Stored

\* where no request is stored anew and every job stays with its response
LEMMA JobKept ==
  ASSUME JobInv,
         \A k \in Requests : Stored(k)' => Stored(k) /\ req'[k] = req[k],
         \A k \in Requests : job'[k].r = job[k].r /\ (job'[k].state = "none" <=> job[k].state = "none"),
         \A k \in Requests : phase[k] = "done" => phase'[k] = "done"
  PROVE  JobInv'
BY DEF JobInv, Stored

LEMMA SetJobKeeps ==
  ASSUME TypeInv, NEW i \in Requests, NEW to \in JobStates \ {"none"}, SetJob(i, to),
         job[i].state # "none"
  PROVE  \A k \in Requests : job'[k].r = job[k].r /\ (job'[k].state = "none" <=> job[k].state = "none")
BY DEF TypeInv, DataInv, SetJob

LEMMA WorkKeeps ==
  ASSUME TypeInv, NEW i \in Requests, Work(i) \/ Stall(i)
  PROVE  /\ UNCHANGED <<stored, phase, req>>
         /\ \A k \in Requests :
              job'[k].r = job[k].r /\ (job'[k].state = "none" <=> job[k].state = "none")
<1>1. CASE Attempt(i)
  <2>1. CASE Notify(i) \/ LookupFails(i)
    BY <1>1, <2>1, SetJobKeeps DEF Attempt, Notify, LookupFails, JobStates
  <2>2. CASE Retry(i)
    BY <1>1, <2>2 DEF Attempt, Retry
  <2>. QED  BY <1>1, <2>1, <2>2 DEF Attempt
<1>2. CASE CompleteSurvey(i)
  BY <1>2, SetJobKeeps DEF CompleteSurvey, JobStates
<1>3. CASE Stall(i)
  BY <1>3, SetJobKeeps DEF Stall, JobStates
<1>. QED  BY <1>1, <1>2, <1>3 DEF Work

LEMMA JobStep == TypeInv /\ JobInv /\ [Next]_vars => JobInv'
<1>. SUFFICES ASSUME TypeInv, JobInv, [Next]_vars PROVE JobInv'
  OBVIOUS
<1>. USE DEF TypeInv, DataInv
<1>1. CASE Arrive
  <2>1. Newcomer \in Requests /\ phase[Newcomer] = "idle"
    BY <1>1, NewcomerIsIdle DEF Arrive
  <2>. QED  BY <1>1, <2>1 DEF Arrive, Move, JobInv, Stored, jobs
<1>2. ASSUME NEW i \in Requests, Read(i) PROVE JobInv'
  BY <1>2 DEF Read, Move, Hold, JobInv, Stored, jobs
<1>3. ASSUME NEW i \in Requests, Store(i) PROVE JobInv'
  <2>1. req[i].r \in Responses /\ phase[i] # "done"
    BY <1>3 DEF Store, RowsInv, Active
  <2>2. PICK row \in Row : Write(i, row)
    BY <1>3 DEF Store, RowsInv
  <2>. QED  BY <1>3, <2>1, <2>2, WriteJob DEF Store, jobs
<1>4. ASSUME NEW i \in Requests, Commit(i) PROVE JobInv'
  BY <1>4 DEF Commit, Move, Hold, JobInv, Stored, jobs
<1>5. ASSUME NEW i \in Requests, Conflict(i) \/ Fail(i) PROVE JobInv'
  BY <1>5 DEF Conflict, Fail, Done, Move, JobInv, Stored, jobs
<1>6. ASSUME NEW i \in Requests, Announce(i) PROVE JobInv'
  BY <1>6 DEF Announce, Done, Move, JobInv, Stored
<1>7. ASSUME NEW i \in Requests, Work(i) \/ Stall(i) PROVE JobInv'
  BY <1>7, WorkKeeps, JobKept DEF Stored
<1>8. CASE Switch \/ UNCHANGED vars
  BY <1>8 DEF Switch, vars, jobs, JobInv, Stored
<1>. QED  BY <1>1, <1>2, <1>3, <1>4, <1>5, <1>6, <1>7, <1>8 DEF Next, Serve

LEMMA JobHolds == Spec => []JobInv
<1>1. Init => JobInv
  BY DEF Init, JobInv, Stored
<1>. QED  BY <1>1, JobStep, TypesHold, PTL DEF Spec

LEMMA AnnounceKept ==
  ASSUME AnnounceInv, UNCHANGED <<rows, links>>, dropped \subseteq dropped',
         \A r \in Responses \ dropped' : Announced(r) => Announced(r)'
  PROVE  AnnounceInv'
<1>1. \A r : EndedByQuota(r)' <=> EndedByQuota(r)
  BY DEF EndedByQuota
<1>. QED  BY <1>1 DEF AnnounceInv

LEMMA AnnouncedKept ==
  ASSUME UNCHANGED job,
         \A k \in Requests : phase[k] = "committed" => phase'[k] = "committed" /\ req'[k] = req[k]
  PROVE  \A r : Announced(r) => Announced(r)'
<1>. SUFFICES ASSUME NEW r, Announced(r) PROVE Announced(r)'
  OBVIOUS
<1>1. CASE \E i \in Requests : job[i].r = r
  BY <1>1 DEF Announced
<1>2. CASE \E i \in Requests : phase[i] = "committed" /\ req[i].r = r /\ req[i].fin
  BY <1>2 DEF Announced
<1>. QED  BY <1>1, <1>2 DEF Announced

LEMMA CommitAnnounce ==
  ASSUME TypeInv, JobInv, AnnounceInv, NEW i \in Requests, Commit(i)
  PROVE  AnnounceInv'
<1>. USE DEF TypeInv, DataInv
<1>1. PICK r \in Responses : r = req[i].r
  BY DEF Commit, RowsInv, Active
<1>2. phase[i] = "stored" /\ req[i] \in Request
  BY DEF Commit
<1>3. /\ phase' = [phase EXCEPT ![i] = "committed"]
      /\ rows' = [rows EXCEPT ![r] = req[i].row] /\ links' = [links EXCEPT ![r] = req[i].links]
      /\ UNCHANGED <<job, dropped>>
  BY <1>1 DEF Commit, Move, jobs, history
<1>4. /\ req'[i].r = r /\ req'[i].fin = req[i].fin
      /\ \A k \in Requests \ {i} : req'[k] = req[k]
  <2>1. req[i].fin \in BOOLEAN /\ NoLinks \in [Quotas -> LinkStatus]
    BY <1>2 DEF Request, NoLinks, LinkStatus
  <2>. QED  BY <1>1, <2>1, HoldType DEF Commit
<1>5. \A x : Announced(x) => Announced(x)'
  <2>1. \A k \in Requests : phase[k] = "committed" => phase'[k] = "committed" /\ req'[k] = req[k]
    BY <1>3, <1>4, <1>2
  <2>. QED  BY <1>3, <2>1, AnnouncedKept
<1>6. \A x \in Responses \ {r} : (EndedByQuota(x)' <=> EndedByQuota(x)) /\ rows'[x] = rows[x]
  BY <1>1, <1>3 DEF EndedByQuota
<1>7. rows'[r].finished => EndedByQuota(r)' \/ Announced(r)'
  <2>1. CASE req[i].fin
    BY <1>1, <1>3, <1>4, <2>1 DEF Announced
  <2>2. CASE \E q \in EndingQuotas : req[i].links[q] = "screenedOut"
    BY <1>1, <1>3, <1>2, <2>2 DEF EndedByQuota
  <2>3. rows'[r] = req[i].row
    BY <1>1, <1>3, <1>2
  <2>4. req[i].row.finished => req[i].fin \/ \E q \in EndingQuotas : req[i].links[q] = "screenedOut"
    BY <1>2 DEF JobInv, Stored
  <2>. QED  BY <2>1, <2>2, <2>3, <2>4
<1>8. ASSUME NEW x \in Responses \ dropped', rows'[x].finished
      PROVE  EndedByQuota(x)' \/ Announced(x)'
  <2>1. CASE x = r
    BY <1>7, <1>8, <2>1
  <2>2. CASE x # r
    BY <1>3, <1>5, <1>6, <1>8, <2>2 DEF AnnounceInv
  <2>. QED  BY <2>1, <2>2
<1>. QED  BY <1>8 DEF AnnounceInv

LEMMA AnnounceStep == TypeInv /\ JobInv /\ AnnounceInv /\ [Next]_vars => AnnounceInv'
<1>. SUFFICES ASSUME TypeInv, JobInv, AnnounceInv, [Next]_vars PROVE AnnounceInv'
  OBVIOUS
<1>. USE DEF TypeInv, DataInv
<1>1. CASE Arrive
  <2>1. Newcomer \in Requests /\ phase[Newcomer] = "idle"
    BY <1>1, NewcomerIsIdle DEF Arrive
  <2>2. \A k \in Requests : phase[k] = "committed" => phase'[k] = "committed" /\ req'[k] = req[k]
    BY <1>1, <2>1 DEF Arrive, Move
  <2>3. UNCHANGED <<job, rows, links, dropped>>
    BY <1>1 DEF Arrive, stored, jobs
  <2>. QED  BY <2>2, <2>3, AnnouncedKept, AnnounceKept
<1>2. ASSUME NEW i \in Requests, Read(i) \/ Store(i) \/ Conflict(i) PROVE AnnounceInv'
  <2>1. phase[i] # "committed" /\ \A k \in Requests \ {i} : phase'[k] = phase[k] /\ req'[k] = req[k]
    BY <1>2 DEF Read, Store, Write, Conflict, Done, Move, Hold
  <2>2. UNCHANGED <<job, rows, links, dropped>>
    BY <1>2 DEF Read, Store, Conflict, stored, jobs, history
  <2>. QED  BY <2>1, <2>2, AnnouncedKept, AnnounceKept
<1>3. ASSUME NEW i \in Requests, Commit(i) PROVE AnnounceInv'
  BY <1>3, CommitAnnounce
<1>4. ASSUME NEW i \in Requests, Fail(i) PROVE AnnounceInv'
  <2>1. \A k \in Requests \ {i} : phase'[k] = phase[k] /\ req'[k] = req[k]
    BY <1>4 DEF Fail, Done, Move
  <2>2. /\ phase[i] = "committed" /\ req[i].fin => req[i].r \in dropped'
        /\ dropped \subseteq dropped' /\ UNCHANGED <<job, rows, links>>
    BY <1>4 DEF Fail, SaysFinished, stored, jobs
  <2>3. ASSUME NEW r \in Responses \ dropped', Announced(r) PROVE Announced(r)'
    <3>1. CASE \E k \in Requests : job[k].r = r
      BY <2>2, <3>1 DEF Announced
    <3>2. CASE \E k \in Requests : phase[k] = "committed" /\ req[k].r = r /\ req[k].fin
      <4>1. PICK k \in Requests : phase[k] = "committed" /\ req[k].r = r /\ req[k].fin
        BY <3>2
      <4>2. k # i
        BY <2>2, <4>1
      <4>. QED  BY <2>1, <4>1, <4>2 DEF Announced
    <3>. QED  BY <2>3, <3>1, <3>2 DEF Announced
  <2>. QED  BY <2>2, <2>3, AnnounceKept
<1>5. ASSUME NEW i \in Requests, Announce(i) PROVE AnnounceInv'
  <2>1. req[i].r \in Responses /\ phase[i] = "committed" /\ job[i].r = 0
    BY <1>5 DEF Announce, RowsInv, Active, JobInv
  <2>2. \A k \in Requests \ {i} : phase'[k] = phase[k] /\ req'[k] = req[k] /\ job'[k] = job[k]
    BY <1>5 DEF Announce, Done, Move
  <2>3. (req[i].fin => job'[i].r = req[i].r) /\ UNCHANGED <<rows, links, dropped>>
    BY <1>5 DEF Announce, SaysFinished, stored, history
  <2>4. ASSUME NEW r \in Responses, Announced(r) PROVE Announced(r)'
    <3>1. CASE \E k \in Requests : job[k].r = r
      <4>1. PICK k \in Requests : job[k].r = r
        BY <3>1
      <4>2. k # i
        BY <2>1, <4>1 DEF Responses
      <4>. QED  BY <2>2, <4>1, <4>2 DEF Announced
    <3>2. CASE \E k \in Requests : phase[k] = "committed" /\ req[k].r = r /\ req[k].fin
      <4>1. PICK k \in Requests : phase[k] = "committed" /\ req[k].r = r /\ req[k].fin
        BY <3>2
      <4>2. CASE k = i
        BY <2>3, <4>1, <4>2 DEF Announced
      <4>3. CASE k # i
        BY <2>2, <4>1, <4>3 DEF Announced
      <4>. QED  BY <4>2, <4>3
    <3>. QED  BY <2>4, <3>1, <3>2 DEF Announced
  <2>. QED  BY <2>3, <2>4, AnnounceKept
<1>6. ASSUME NEW i \in Requests, Work(i) \/ Stall(i) PROVE AnnounceInv'
  <2>1. UNCHANGED <<rows, links, dropped>>
    BY <1>6, WorkKeeps DEF Work, Attempt, CompleteSurvey, Stall, stored, history
  <2>2. \A r : Announced(r) => Announced(r)'
    BY <1>6, WorkKeeps DEF Announced
  <2>. QED  BY <2>1, <2>2, AnnounceKept
<1>7. CASE Switch \/ UNCHANGED vars
  <2>1. UNCHANGED <<stored, phase, req, job, dropped>>
    BY <1>7 DEF Switch, vars, jobs, history
  <2>. QED  BY <2>1, AnnouncedKept, AnnounceKept DEF stored
<1>. QED  BY <1>1, <1>2, <1>3, <1>4, <1>5, <1>6, <1>7 DEF Next, Serve

(* FinishedIsAnnounced: once no request for it is under way, a finished    *)
(* response has its job, or a link that shows the quota that ended it, or  *)
(* its announcement failed.                                                *)
THEOREM FinishedAnnounced == Spec => []FinishedIsAnnounced
<1>1. Init => AnnounceInv
  BY DEF Init, AnnounceInv, NoRow
<1>2. AnnounceInv => FinishedIsAnnounced
  BY DEF AnnounceInv, Announced, FinishedIsAnnounced, UnderWay, Requests
<1>. QED  BY <1>1, <1>2, AnnounceStep, JobHolds, TypesHold, PTL DEF Spec

-----------------------------------------------------------------------------
(* One request at a time.  A response that has not met has one request; it *)
(* knows whether the row is finished, so that a finished row has no second *)
(* announcement, and with it no second job.                                *)
LEMMA ArriveOnce ==
  ASSUME TypeInv, OnceInv, Arrive
  PROVE  OnceInv'
<1>. USE DEF TypeInv, DataInv
<1>1. PICK n \in Requests : n = Newcomer /\ phase[n] = "idle"
  BY NewcomerIsIdle DEF Arrive
<1>2. PICK op \in {"create", "update"}, r \in Responses :
        /\ Accepts(op, r)
        /\ phase' = [phase EXCEPT ![n] = "checked"]
        /\ req' = [req EXCEPT ![n] =
                    [op |-> op, r |-> r, fin |-> FALSE, row |-> NoRow, links |-> NoLinks]]
        /\ met' = IF UnderWay(r, n) THEN met \cup {r} ELSE met
  BY <1>1 DEF Arrive, Move
<1>3. met \subseteq met' /\ UNCHANGED <<rows, job, emails, stalled>>
  BY <1>2 DEF Arrive, stored, jobs
<1>4. /\ req'[n].r = r /\ req'[n].op = op /\ phase'[n] = "checked"
      /\ \A k \in Requests \ {n} : phase'[k] = phase[k] /\ req'[k] = req[k]
  BY <1>2
<1>5. r \notin met' => \A k \in Requests \ {n} : Active(k) => req[k].r # r
  BY <1>2 DEF UnderWay, Active
<1>6. Alone'
  <2>1. ASSUME NEW i \in Requests, NEW k \in Requests, i # k, Active(i)', Active(k)',
               req'[i].r = req'[k].r, req'[i].r \notin met'
        PROVE  FALSE
    <3>1. CASE i = n
      BY <1>4, <1>5, <2>1, <3>1 DEF Active
    <3>2. CASE k = n
      BY <1>4, <1>5, <2>1, <3>2 DEF Active
    <3>3. CASE i # n /\ k # n
      BY <1>3, <1>4, <2>1, <3>3 DEF OnceInv, Alone, Active
    <3>. QED  BY <3>1, <3>2, <3>3
  <2>. QED  BY <2>1 DEF Alone
<1>7. Current'
  <2>1. ~rows[r].finished \/ op = "create"
    BY <1>2 DEF Accepts
  <2>. QED  BY <1>3, <1>4, <2>1 DEF OnceInv, Current, Active
<1>8. OneJob' /\ JobIsFinished' /\ Unmailed' /\ NotifiedOnce'
  BY <1>3 DEF OnceInv, OneJob, JobIsFinished, Unmailed, NotifiedOnce
<1>. QED  BY <1>6, <1>7, <1>8 DEF OnceInv

\* a request that ends, or goes on without a change of the database
LEMMA RequestOnce ==
  ASSUME TypeInv, OnceInv, NEW i \in Requests, UNCHANGED <<rows, job, emails, stalled, met>>,
         \A k \in Requests \ {i} : phase'[k] = phase[k] /\ req'[k] = req[k],
         \/ ~Active(i)'
         \/ /\ Active(i) /\ req'[i].r = req[i].r /\ phase'[i] \in {"read", "stored"}
            /\ req[i].r \notin met =>
                 /\ ~rows[req[i].r].finished
                 /\ rows[req[i].r].answer \in Answers => req'[i].row.answer \in Answers
  PROVE  OnceInv'
<1>1. Alone'
  BY DEF OnceInv, Alone, Active
<1>2. Current'
  BY DEF OnceInv, Current, Active
<1>3. OneJob' /\ JobIsFinished' /\ Unmailed' /\ NotifiedOnce'
  BY DEF OnceInv, OneJob, JobIsFinished, Unmailed, NotifiedOnce
<1>. QED  BY <1>1, <1>2, <1>3 DEF OnceInv

LEMMA ReadOnce ==
  ASSUME TypeInv, OnceInv, NEW i \in Requests, Read(i)
  PROVE  OnceInv'
<1>. USE DEF TypeInv, DataInv
<1>1. PICK input \in Row : Hold(i, FALSE, Merged(rows[req[i].r], input), NoLinks)
  BY DEF Read
<1>2. rows[req[i].r] \in Row /\ NoLinks \in [Quotas -> LinkStatus]
  BY DEF Read, RowsInv, Active, NoLinks, LinkStatus
<1>3. Merged(rows[req[i].r], input) \in Row
  BY <1>2 DEF Merged, Row
<1>4. /\ req'[i].r = req[i].r /\ req'[i].row = Merged(rows[req[i].r], input)
      /\ \A k \in Requests \ {i} : req'[k] = req[k]
  BY <1>1, <1>2, <1>3, HoldType
<1>5. rows[req[i].r].answer \in Answers => req'[i].row.answer \in Answers
  BY <1>4 DEF Merged, Row
<1>6. req[i].r \notin met => ~rows[req[i].r].finished
  BY DEF Read, OnceInv, Current, Active
<1>7. /\ Active(i) /\ phase'[i] = "read" /\ \A k \in Requests \ {i} : phase'[k] = phase[k]
      /\ UNCHANGED <<rows, job, emails, stalled, met>>
  BY DEF Read, Move, Active, stored, jobs, history
<1>. QED  BY <1>4, <1>5, <1>6, <1>7, RequestOnce

LEMMA StoreOnce ==
  ASSUME TypeInv, OnceInv, NEW i \in Requests, Store(i)
  PROVE  OnceInv'
<1>. USE DEF TypeInv, DataInv
<1>1. /\ Active(i) /\ phase'[i] = "stored" /\ \A k \in Requests \ {i} : phase'[k] = phase[k]
      /\ UNCHANGED <<rows, job, emails, stalled, met>>
  BY DEF Store, Write, Move, Active, stored, jobs
<1>2. PICK r \in Responses : r = req[i].r
  BY <1>1 DEF RowsInv
<1>3. PICK row \in Row :
        /\ Write(i, row)
        /\ \/ phase[i] = "read" /\ row = req[i].row
           \/ phase[i] = "checked" /\ rows[r] = NoRow
  BY <1>2 DEF Store, RowsInv
<1>4. Linked(row, r) \in [Quotas -> LinkStatus] /\ links[r] \in [Quotas -> LinkStatus]
  BY LinkedType
<1>5. Ended(row, r) \in Row /\ Ended(row, r).answer = row.answer /\ row.finished \in BOOLEAN
  BY EndedType DEF Row, Ended
<1>6. /\ req'[i].r = r /\ req'[i].row.answer = row.answer
      /\ \A k \in Requests \ {i} : req'[k] = req[k]
  BY <1>2, <1>3, <1>4, <1>5, HoldType DEF Write
<1>7. r \notin met => ~rows[r].finished /\ (rows[r].answer \in Answers => row.answer \in Answers)
  <2>1. CASE phase[i] = "read" /\ row = req[i].row
    BY <1>1, <1>2, <2>1 DEF OnceInv, Current
  <2>2. CASE rows[r] = NoRow
    BY <2>2 DEF NoRow, Answers
  <2>. QED  BY <1>3, <2>1, <2>2
<1>. QED  BY <1>1, <1>2, <1>6, <1>7, RequestOnce

LEMMA CommitOnce ==
  ASSUME TypeInv, JobInv, OnceInv, NEW i \in Requests, Commit(i)
  PROVE  OnceInv'
<1>. USE DEF TypeInv, DataInv
<1>1. PICK r \in Responses : r = req[i].r
  BY DEF Commit, RowsInv, Active
<1>2. phase[i] = "stored" /\ Active(i) /\ req[i] \in Request
  BY DEF Commit, Active
<1>3. /\ phase' = [phase EXCEPT ![i] = "committed"] /\ rows' = [rows EXCEPT ![r] = req[i].row]
      /\ UNCHANGED <<job, emails, stalled, met>>
  BY <1>1 DEF Commit, Move, jobs, history
<1>4. /\ req'[i].r = r /\ req'[i].fin = req[i].fin
      /\ \A k \in Requests \ {i} : req'[k] = req[k]
  <2>1. req[i].fin \in BOOLEAN /\ NoLinks \in [Quotas -> LinkStatus]
    BY <1>2 DEF Request, NoLinks, LinkStatus
  <2>. QED  BY <1>1, <2>1, HoldType DEF Commit
<1>5. r \notin met => \A k \in Requests : job[k].r # r
  <2>. SUFFICES ASSUME r \notin met, NEW k \in Requests, job[k].r = r PROVE FALSE
    OBVIOUS
  <2>1. ~rows[r].finished
    BY <1>1, <1>2 DEF OnceInv, Current
  <2>2. job[k].state = "none"
    BY <2>1 DEF OnceInv, JobIsFinished
  <2>. QED  BY <2>2 DEF JobInv, Responses
<1>6. req[i].fin => rows'[r].finished
  BY <1>2, <1>3 DEF JobInv, Stored
<1>7. Alone'
  BY <1>1, <1>2, <1>3, <1>4 DEF OnceInv, Alone, Active
<1>8. Current'
  <2>. SUFFICES ASSUME NEW k \in Requests, Active(k)', req'[k].r \notin met
                PROVE  /\ (phase'[k] = "checked" /\ req'[k].op = "update")
                            \/ phase'[k] \in {"read", "stored"}
                            => ~rows'[req'[k].r].finished
                       /\ phase'[k] \in {"read", "stored"} /\ rows'[req'[k].r].answer \in Answers
                            => req'[k].row.answer \in Answers
                       /\ phase'[k] = "committed" /\ req'[k].fin
                            => rows'[req'[k].r].finished /\ \A m \in Requests : job'[m].r # req'[k].r
    BY <1>3 DEF Current
  <2>1. CASE k = i
    BY <1>3, <1>4, <1>5, <1>6, <2>1
  <2>2. CASE k # i
    <3>1. Active(k) /\ req[k].r \notin met /\ phase'[k] = phase[k] /\ req'[k] = req[k]
      BY <1>3, <1>4, <2>2 DEF Active
    <3>2. req[k].r # r /\ req[k].r \in Responses
      BY <1>1, <1>2, <2>2, <3>1 DEF OnceInv, Alone, RowsInv
    <3>3. rows'[req[k].r] = rows[req[k].r]
      BY <1>3, <3>2
    <3>. QED  BY <1>3, <3>1, <3>3 DEF OnceInv, Current
  <2>. QED  BY <2>1, <2>2
<1>9. JobIsFinished'
  BY <1>3, <1>5 DEF OnceInv, JobIsFinished, RowsInv
<1>10. OneJob' /\ Unmailed' /\ NotifiedOnce'
  BY <1>3 DEF OnceInv, OneJob, Unmailed, NotifiedOnce
<1>. QED  BY <1>7, <1>8, <1>9, <1>10 DEF OnceInv

LEMMA AnnounceOnce ==
  ASSUME TypeInv, JobInv, OnceInv, NEW i \in Requests, Announce(i)
  PROVE  OnceInv'
<1>. USE DEF TypeInv, DataInv
<1>1. PICK r \in Responses : r = req[i].r
  BY DEF Announce, RowsInv, Active
<1>2. phase[i] = "committed" /\ job[i].r = 0 /\ job[i].state = "none" /\ Active(i)
  BY DEF Announce, JobInv, Active
<1>3. /\ ~Active(i)' /\ \A k \in Requests \ {i} : phase'[k] = phase[k] /\ req'[k] = req[k]
      /\ UNCHANGED <<rows, emails, stalled, met>>
  BY DEF Announce, Done, Move, Active, stored, history
<1>4. CASE ~req[i].fin
  <2>1. UNCHANGED job
    BY <1>4 DEF Announce, SaysFinished
  <2>. QED  BY <1>3, <2>1, RequestOnce
<1>5. CASE req[i].fin
  <2>1. job' = [job EXCEPT ![i] = [state |-> "waiting", r |-> r]]
    BY <1>1, <1>5 DEF Announce, SaysFinished
  <2>2. r \notin met => rows[r].finished /\ \A k \in Requests : job[k].r # r
    BY <1>1, <1>2, <1>5 DEF OnceInv, Current
  <2>3. r \notin met => emails[r] = 0
    BY <2>2 DEF OnceInv, Unmailed
  <2>4. Alone'
    BY <1>3 DEF OnceInv, Alone, Active
  <2>5. OneJob'
    BY <1>3, <2>1, <2>2 DEF OnceInv, OneJob
  <2>6. Current'
    <3>. SUFFICES ASSUME NEW k \in Requests, k # i, Active(k), req[k].r \notin met,
                         phase[k] = "committed", req[k].fin,
                         NEW m \in Requests
                  PROVE  job'[m].r # req[k].r
      BY <1>3 DEF OnceInv, Current, Active
    <3>1. req[k].r # r
      BY <1>1, <1>2 DEF OnceInv, Alone
    <3>2. job[m].r # req[k].r
      BY DEF OnceInv, Current
    <3>. QED  BY <2>1, <3>1, <3>2
  <2>7. JobIsFinished'
    BY <1>3, <2>1, <2>2 DEF OnceInv, JobIsFinished
  <2>8. Unmailed'
    <3>1. \A k \in Requests :
            job'[k].state = "waiting" /\ job'[k].r \notin met \cup stalled => emails[job'[k].r] = 0
      BY <2>1, <2>3 DEF OnceInv, Unmailed
    <3>2. \A x \in Responses : (\A k \in Requests : job'[k].r # x) => \A k \in Requests : job[k].r # x
      BY <1>2, <2>1 DEF Responses
    <3>. QED  BY <1>3, <3>1, <3>2 DEF OnceInv, Unmailed
  <2>9. NotifiedOnce'
    BY <1>3 DEF OnceInv, NotifiedOnce
  <2>. QED  BY <2>4, <2>5, <2>6, <2>7, <2>8, <2>9 DEF OnceInv
<1>. QED  BY <1>4, <1>5

\* the jobs: one of them is notified, begins anew, or goes on without an e-mail
LEMMA WorkOnce ==
  ASSUME TypeInv, OnceInv, NEW i \in Requests, Work(i) \/ Stall(i)
  PROVE  OnceInv'
<1>. USE DEF TypeInv, DataInv
<1>1. /\ UNCHANGED <<rows, phase, req, met>>
      /\ \A k \in Requests :
           job'[k].r = job[k].r /\ (job'[k].state = "none" <=> job[k].state = "none")
  BY WorkKeeps DEF Work, Attempt, CompleteSurvey, Stall, history, stored
<1>2. Alone' /\ Current'
  BY <1>1 DEF OnceInv, Alone, Current, Active
<1>3. OneJob' /\ JobIsFinished'
  BY <1>1 DEF OnceInv, OneJob, JobIsFinished
<1>4. PICK r \in Responses : r = job[i].r
  BY DEF Work, Attempt, CompleteSurvey, Stall, RowsInv
<1>5. CASE /\ emails' = [emails EXCEPT ![r] = @ + 1] /\ job[i].state = "waiting"
           /\ SetJob(i, "notified") /\ UNCHANGED stalled
  <2>1. job' = [job EXCEPT ![i] = [state |-> "notified", r |-> r]]
    BY <1>4, <1>5 DEF SetJob
  <2>2. r \notin met \cup stalled => emails[r] = 0
    BY <1>4, <1>5 DEF OnceInv, Unmailed
  <2>3. \A k \in Requests \ {i} :
          job[k].state = "waiting" /\ job[k].r \notin met => job[k].r # r
    BY <1>4, <1>5 DEF OnceInv, OneJob
  <2>4. \A k \in Requests :
          job'[k].state = "waiting" /\ job'[k].r \notin met \cup stalled => emails'[job'[k].r] = 0
    <3>. SUFFICES ASSUME NEW k \in Requests, k # i, job[k].state = "waiting",
                         job[k].r \notin met \cup stalled
                  PROVE  emails'[job[k].r] = 0
      BY <2>1
    <3>1. emails[job[k].r] = 0 /\ job[k].r # r
      BY <2>3 DEF OnceInv, Unmailed
    <3>2. job[k].r \in Responses
      BY DEF RowsInv
    <3>. QED  BY <1>5, <3>1, <3>2
  <2>5. \A x \in Responses : (\A k \in Requests : job'[k].r # x) => emails'[x] = 0
    BY <1>1, <1>4, <1>5 DEF OnceInv, Unmailed
  <2>6. \A x \in Responses \ (met \cup stalled) : emails'[x] <= 1
    BY <1>5, <2>2 DEF OnceInv, NotifiedOnce
  <2>7. Unmailed' /\ NotifiedOnce'
    BY <1>1, <1>5, <2>4, <2>5, <2>6 DEF Unmailed, NotifiedOnce
  <2>. QED  BY <1>2, <1>3, <2>7 DEF OnceInv
<1>6. CASE /\ UNCHANGED emails /\ stalled \subseteq stalled'
           /\ \A k \in Requests : job'[k].state = "waiting" => job[k].state = "waiting" \/ job[k].r \in stalled'
  <2>1. Unmailed' /\ NotifiedOnce'
    BY <1>1, <1>6 DEF OnceInv, Unmailed, NotifiedOnce
  <2>. QED  BY <1>2, <1>3, <2>1 DEF OnceInv
<1>7. CASE Attempt(i)
  <2>1. CASE Notify(i) /\ emails' = [emails EXCEPT ![job[i].r] = @ + 1]
    BY <1>4, <1>5, <1>7, <2>1 DEF Attempt, Notify, history
  <2>2. CASE Notify(i) /\ UNCHANGED emails
    BY <1>6, <1>7, <2>2 DEF Attempt, Notify, SetJob, history
  <2>3. CASE Retry(i)
    BY <1>6, <1>7, <2>3 DEF Attempt, Retry, history
  <2>4. CASE LookupFails(i)
    BY <1>6, <1>7, <2>4 DEF Attempt, LookupFails, SetJob, history
  <2>. QED  BY <1>7, <2>1, <2>2, <2>3, <2>4 DEF Attempt, Notify
<1>8. CASE CompleteSurvey(i)
  BY <1>6, <1>8 DEF CompleteSurvey, SetJob, history
<1>9. CASE Stall(i)
  BY <1>6, <1>9 DEF Stall, SetJob
<1>. QED  BY <1>7, <1>8, <1>9 DEF Work

LEMMA OnceStep == TypeInv /\ JobInv /\ OnceInv /\ [Next]_vars => OnceInv'
<1>. SUFFICES ASSUME TypeInv, JobInv, OnceInv, [Next]_vars PROVE OnceInv'
  OBVIOUS
<1>1. ASSUME NEW i \in Requests, Conflict(i) \/ Fail(i) PROVE OnceInv'
  <2>1. /\ ~Active(i)' /\ \A k \in Requests \ {i} : phase'[k] = phase[k] /\ req'[k] = req[k]
        /\ UNCHANGED <<rows, job, emails, stalled, met>>
    BY <1>1 DEF Conflict, Fail, Done, Move, Active, stored, jobs, history, TypeInv, DataInv
  <2>. QED  BY <2>1, RequestOnce
<1>2. CASE Switch \/ UNCHANGED vars
  <2>1. UNCHANGED <<rows, phase, req, job, emails, stalled, met>>
    BY <1>2 DEF Switch, vars, stored, jobs, history
  <2>. QED  BY <2>1 DEF OnceInv, Alone, OneJob, Current, JobIsFinished, Unmailed, NotifiedOnce, Active
<1>. QED  BY <1>1, <1>2, ArriveOnce, ReadOnce, StoreOnce, CommitOnce, AnnounceOnce, WorkOnce
          DEF Next, Serve

LEMMA OnceHolds == Spec => []OnceInv
<1>1. Init => OnceInv
  BY DEF Init, OnceInv, Alone, OneJob, Current, JobIsFinished, Unmailed, NotifiedOnce, Active
<1>. QED  BY <1>1, OnceStep, JobHolds, TypesHold, PTL DEF Spec

(* NotifiedOnce: the e-mails about a response go out at most once, however *)
(* often its webhooks are tried, unless two requests for it were under way *)
(* at once or a worker died.                                               *)
THEOREM OnceNotified == Spec => []NotifiedOnce
<1>1. OnceInv => NotifiedOnce
  BY DEF OnceInv
<1>. QED  BY <1>1, OnceHolds, PTL

(* NothingTakenBack: the row that a commit replaces is not finished, and   *)
(* its answer is in the row that replaces it.                              *)
THEOREM NothingIsTakenBack == Spec => NothingTakenBack
<1>. DEFINE Kept == \A r \in Responses \ met :
                      /\ rows[r].answer \in Answers => rows'[r].answer \in Answers
                      /\ rows[r].finished => rows'[r].finished
<1>1. TypeInv /\ OnceInv /\ [Next]_vars => [Kept]_vars
  <2>. SUFFICES ASSUME TypeInv, OnceInv, Next PROVE Kept
    OBVIOUS
  <2>. USE DEF TypeInv, DataInv
  <2>1. ASSUME NEW i \in Requests, Commit(i) PROVE Kept
    <3>1. phase[i] = "stored" /\ req[i].r \in Responses /\ rows' = [rows EXCEPT ![req[i].r] = req[i].row]
      BY <2>1 DEF Commit, RowsInv, Active
    <3>2. req[i].r \notin met =>
            /\ ~rows[req[i].r].finished
            /\ rows[req[i].r].answer \in Answers => req[i].row.answer \in Answers
      BY <3>1 DEF OnceInv, Current, Active
    <3>. QED  BY <3>1, <3>2
  <2>2. CASE UNCHANGED rows
    BY <2>2
  <2>3. (\E i \in Requests : Commit(i)) \/ UNCHANGED rows
    BY DEF Next, Arrive, Switch, Serve, Read, Store, Conflict, Announce, Fail, Work, Attempt,
           CompleteSurvey, Stall, stored
  <2>. QED  BY <2>1, <2>2, <2>3
<1>. QED  BY <1>1, OnceHolds, TypesHold, PTL DEF Spec, NothingTakenBack

-----------------------------------------------------------------------------
(* The auto-complete.  Each job that has read too small a number has, with *)
(* all the others like it, a row that this number counts.                  *)
LEMMA LowIsSmall ==
  ASSUME TypeInv
  PROVE  /\ Low \in SUBSET Responses /\ IsFiniteSet(Low) /\ Cardinality(Low) \in Nat
         /\ Cardinality(Low) <= ResponseCount
<1>1. Low \in SUBSET {r \in Responses : rows[r] # NoRow}
  BY DEF Low, TypeInv, RowsInv
<1>2. IsFiniteSet({r \in Responses : rows[r] # NoRow})
  BY ScreenedFinite
<1>3. Low \in SUBSET Responses
  BY <1>1
<1>. QED  BY <1>1, <1>2, <1>3, FS_Subset, ScreenedFinite DEF ResponseCount

LEMMA LimitKept ==
  ASSUME TypeInv, LimitInv, Low' \subseteq Low,
         faults' = 0 /\ ~reopened' /\ status' # "completed"
           => faults = 0 /\ ~reopened /\ status # "completed"
  PROVE  LimitInv'
<1>1. Cardinality(Low') <= Cardinality(Low) /\ Cardinality(Low') \in Nat /\ Cardinality(Low) \in Nat
  BY LowIsSmall, FS_Subset, FS_CardinalityType
<1>2. AutoComplete \in Nat
  BY NumbersAssumption
<1>3. LimitInv' <=> (faults' = 0 /\ ~reopened' /\ status' # "completed"
                       => Cardinality(Low') < AutoComplete)
  BY DEF LimitInv
<1>. QED  BY <1>1, <1>2, <1>3 DEF LimitInv

LEMMA AttemptLimit ==
  ASSUME TypeInv, LimitInv, NEW i \in Requests, Attempt(i)
  PROVE  LimitInv'
<1>. USE DEF TypeInv, DataInv
<1>1. /\ UNCHANGED <<rows, status, reopened>> /\ job[i].state = "waiting"
      /\ \A k \in Requests : job'[k].r = job[k].r /\ (job'[k].state = "none" <=> job[k].state = "none")
  BY WorkKeeps DEF Attempt, Work, survey, stored
<1>2. CASE Notify(i) /\ faults' = faults /\ count' = [count EXCEPT ![i] = ResponseCount]
  <2>1. /\ job'[i].state = "notified" /\ count'[i] = ResponseCount
        /\ \A k \in Requests \ {i} : job'[k] = job[k] /\ count'[k] = count[k]
    BY <1>2 DEF Notify, SetJob
  <2>2. CASE ~(ResponseCount < AutoComplete)
    <3>1. Low' \subseteq Low
      BY <1>1, <2>1, <2>2 DEF Low
    <3>. QED  BY <1>1, <1>2, <3>1, LimitKept
  <2>3. CASE ResponseCount < AutoComplete
    <3>1. Low' \in SUBSET {r \in Responses : rows[r] # NoRow}
      BY <1>1 DEF Low, RowsInv
    <3>2. IsFiniteSet({r \in Responses : rows[r] # NoRow})
      BY ScreenedFinite
    <3>3. Cardinality(Low') <= ResponseCount /\ Cardinality(Low') \in Nat
      BY <3>1, <3>2, FS_Subset, FS_CardinalityType DEF ResponseCount
    <3>4. ResponseCount \in Nat /\ AutoComplete \in Nat
      BY ResponseCountType, NumbersAssumption
    <3>5. Cardinality(Low') < AutoComplete
      BY <2>3, <3>3, <3>4
    <3>. QED  BY <3>5 DEF LimitInv
  <2>. QED  BY <2>2, <2>3
<1>3. CASE Fault
  BY <1>3 DEF Fault, LimitInv
<1>4. CASE Retry(i)
  <2>1. Low' \subseteq Low /\ faults' = faults
    BY <1>4 DEF Retry, Low
  <2>. QED  BY <1>1, <2>1, LimitKept
<1>. QED  BY <1>2, <1>3, <1>4 DEF Attempt, Notify, LookupFails

LEMMA LimitStep == TypeInv /\ JobInv /\ LimitInv /\ [Next]_vars => LimitInv'
<1>. SUFFICES ASSUME TypeInv, JobInv, LimitInv, [Next]_vars PROVE LimitInv'
  OBVIOUS
<1>. USE DEF TypeInv, DataInv
<1>1. CASE UNCHANGED <<survey, job, count>> /\ (faults' = 0 => faults = 0)
  <2>1. Low' \subseteq Low
    BY <1>1 DEF Low
  <2>. QED  BY <1>1, <2>1, LimitKept DEF survey
<1>2. CASE Arrive \/ UNCHANGED vars
  BY <1>1, <1>2 DEF Arrive, vars, jobs
<1>3. ASSUME NEW i \in Requests, Read(i) \/ Store(i) \/ Conflict(i) \/ Commit(i) \/ Fail(i)
      PROVE  UNCHANGED <<survey, job, count>> /\ (faults' = 0 => faults = 0)
  <2>1. UNCHANGED <<survey, job, count>>
    BY <1>3 DEF Read, Store, Conflict, Commit, Fail, jobs
  <2>2. faults' = faults \/ faults' = faults + 1
    BY <1>3 DEF Read, Store, Write, Conflict, Commit, Fail, Fault
  <2>. QED  BY <2>1, <2>2
<1>4. ASSUME NEW i \in Requests, Announce(i) PROVE LimitInv'
  <2>1. Low' \subseteq Low
    BY <1>4 DEF Announce, Low
  <2>. QED  BY <1>4, <2>1, LimitKept DEF Announce, survey
<1>5. ASSUME NEW i \in Requests, CompleteSurvey(i) PROVE LimitInv'
  <2>1. CASE Reached(i)
    BY <1>5, <2>1 DEF CompleteSurvey, Fault, LimitInv
  <2>2. CASE ~Reached(i)
    <3>1. job[i].state = "notified" /\ count[i] < AutoComplete
      BY <1>5, <2>2, NumbersAssumption DEF CompleteSurvey, Reached
    <3>2. /\ \A k \in Requests : job'[k].r = job[k].r
          /\ \A k \in Requests \ {i} : job'[k] = job[k] /\ count'[k] = count[k]
      BY <1>5 DEF CompleteSurvey, SetJob
    <3>3. Low' \subseteq Low
      BY <3>1, <3>2 DEF Low
    <3>4. UNCHANGED <<faults, status, reopened>>
      BY <1>5, <2>2 DEF CompleteSurvey
    <3>. QED  BY <3>3, <3>4, LimitKept
  <2>. QED  BY <2>1, <2>2
<1>6. ASSUME NEW i \in Requests, Stall(i) PROVE LimitInv'
  BY <1>6 DEF Stall, Fault, LimitInv
<1>7. CASE Switch
  <2>1. Low' \subseteq Low
    BY <1>7 DEF Switch, jobs, Low
  <2>. QED  BY <1>7, <2>1, LimitKept DEF Switch
<1>. QED  BY <1>1, <1>2, <1>3, <1>4, <1>5, <1>6, <1>7, AttemptLimit DEF Next, Serve, Work

(* LimitCompletes: when as many finished responses as the limit have been  *)
(* worked off, the survey is completed - for every limit, every number of  *)
(* responses and jobs, and every order of them.                            *)
THEOREM AutoCompletes == Spec => []LimitCompletes
<1>1. Init => LimitInv
  <2>. SUFFICES ASSUME Init PROVE LimitInv
    OBVIOUS
  <2>1. Low = {}
    BY DEF Init, Low
  <2>. QED  BY <2>1, FS_EmptySet, NumbersAssumption DEF LimitInv
<1>2. TypeInv /\ LimitInv => LimitCompletes
  <2>. SUFFICES ASSUME TypeInv, LimitInv PROVE LimitCompletes
    OBVIOUS
  <2>1. WorkedOff \in SUBSET Low
    BY DEF WorkedOff, Low
  <2>2. Cardinality(WorkedOff) <= Cardinality(Low) /\ Cardinality(WorkedOff) \in Nat
        /\ Cardinality(Low) \in Nat
    BY <2>1, LowIsSmall, FS_Subset, FS_CardinalityType
  <2>. QED  BY <2>2, NumbersAssumption DEF LimitInv, LimitCompletes
<1>. QED  BY <1>1, <1>2, LimitStep, JobHolds, TypesHold, PTL DEF Spec

=============================================================================
