---------------------------- MODULE License_proofs ----------------------------
(***************************************************************************)
(* Proofs about License for every set of instances, all lifetimes that     *)
(* TimesAssumption allows and any number of events: the types, and that    *)
(* the license ends in time, is not withdrawn early, and is never judged   *)
(* by an answer that is too old.                                           *)
(*                                                                         *)
(* None of the properties is inductive.  An answer passes from the service *)
(* to a check, to Redis, to other checks and into memories, and what it    *)
(* says of its age must hold at each place (AnswersInv); so must what a    *)
(* record says of the license (LicenseInv).  GraceInv adds that a check    *)
(* that need not renew the record it has read leaves one as recent.        *)
(***************************************************************************)
EXTENDS License, TLAPS

Record == [active : BOOLEAN, checked : Nat, till : Nat]
State  == [at : At, answer : Answer, keeps : BOOLEAN, record : Record]

TypeInv ==
  /\ now \in Nat \ {0} /\ now <= MaxTime /\ service \in Service
  /\ fetched \in [value : Answer, till : Nat] /\ fetched.till <= now + FetchTTL
  /\ previous \in Record /\ previous.checked <= now /\ previous.till <= now + PreviousTTL
  /\ previous.active => previous.till = previous.checked + PreviousTTL
  /\ lock \in BOOLEAN
  /\ memory \in [Instances -> [status : Service \cup {"none"}, active : BOOLEAN]]
  /\ check \in [Checks -> State] /\ \A c \in Checks : check[c].record.checked <= now
  /\ events \in Nat /\ failed \in BOOLEAN
  /\ said \in [Answer -> Nat] /\ (\A a \in Answer : said[a] <= now) /\ seen \in Nat /\ raced \in BOOLEAN

\* the answer is as recent as it may be
Recent(a) == said[a] > 0 /\ now < said[a] + TTL(a)

\* what a check holds of the answer: just given, or recent
Fresh(s) ==
  /\ s.at = "store" => said[s.answer] = now
  /\ s.at \in {"previous", "compute"} => Recent(s.answer)

FetchedInv ==
  fetched # NoFetch =>
    LET s == said[fetched.value] IN
      s > 0 /\ now < fetched.till /\ fetched.till <= s + TTL(fetched.value)

AnswersInv ==
  /\ FetchedInv
  /\ \A c \in Checks : Fresh(check[c])
  /\ \A p \in Instances : memory[p].status \in Answer => Recent(memory[p].status)

\* what a record says the service has said
Told(r) == r.active => said["active"] > 0 /\ r.checked < said["active"] + FetchTTL

LicenseInv ==
  /\ Told(previous)
  /\ \A c \in Checks : Told(check[c].record)
  /\ NoFreeLicense

Renewed(r) == r.active /\ now - r.checked <= Refresh

\* the last check that found the license active is long ago, or recorded
SeenInv ==
  \/ seen = 0
  \/ now + Refresh >= seen + Grace
  \/ /\ previous.active /\ previous.checked + Refresh >= seen
     /\ previous.till = previous.checked + PreviousTTL

\* a check that finds no need to renew the record is right
ReadInv ==
  \A c \in Checks : check[c].at = "compute" /\ Renewed(check[c].record) => Renewed(previous)

GraceInv == ~failed /\ ~raced => SeenInv /\ ReadInv

-----------------------------------------------------------------------------
LEMMA Times ==
  /\ FetchTTL \in Nat \ {0} /\ FailedTTL \in Nat \ {0} /\ PreviousTTL \in Nat \ {0}
  /\ Grace \in Nat \ {0} /\ Refresh \in Nat
  /\ FailedTTL <= FetchTTL /\ Refresh < Grace /\ Grace < PreviousTTL
  /\ MaxTime \in Nat \ {0} /\ MaxEvents \in Nat
BY TimesAssumption, BoundsAssumption

LEMMA TTLType == \A a \in Answer : TTL(a) \in Nat \ {0} /\ TTL(a) <= FetchTTL
BY Times DEF TTL

LEMMA IdleType == Idle \in State /\ Idle.at = "idle" /\ Idle.record = NoRecord
BY DEF Idle, State, At, Answer, Record, NoRecord

LEMMA CheckParts ==
  ASSUME NEW c \in Checks
  PROVE  /\ c[1] \in Instances /\ Other(c) \in Checks
         /\ c[2] \in {"request", "recheck"}
BY DEF Checks, Kinds, Other

(* What an action does to the checks it touches is of the right type.      *)
LEMMA BecomeType ==
  ASSUME TypeInv, NEW c \in Checks, NEW s \in State, Become(c, s), s.record.checked <= now
  PROVE  check' \in [Checks -> State] /\ \A d \in Checks : check'[d].record.checked <= now
BY DEF Become, TypeInv

LEMMA GoType ==
  ASSUME TypeInv, NEW c \in Checks, NEW to \in At, Go(c, to)
  PROVE  /\ check' \in [Checks -> State]
         /\ \A d \in Checks : check'[d].record = check[d].record
BY DEF Go, TypeInv, State

LEMMA RememberType ==
  ASSUME TypeInv, NEW c \in Checks, NEW s \in Service, NEW b \in BOOLEAN, Remember(c, s, b)
  PROVE  memory' \in [Instances -> [status : Service \cup {"none"}, active : BOOLEAN]]
BY CheckParts DEF Remember, TypeInv

LEMMA FaultType ==
  ASSUME TypeInv
  PROVE  /\ Fault => events' \in Nat /\ failed' = TRUE
         /\ NoFault => events' = events /\ failed' = failed
         /\ Event => events' \in Nat
BY DEF Fault, NoFault, Event, TypeInv

LEMMA SetPreviousType ==
  ASSUME TypeInv, NEW b \in BOOLEAN, SetPrevious(b)
  PROVE  /\ previous' \in Record /\ previous'.checked <= now /\ previous'.till <= now + PreviousTTL
         /\ previous'.active => previous'.till = previous'.checked + PreviousTTL
         /\ events' \in Nat /\ failed' \in BOOLEAN
         /\ \/ previous' = [active |-> b, checked |-> now, till |-> now + PreviousTTL]
               /\ failed' = failed
            \/ previous' = previous /\ failed' = TRUE
<1>. DEFINE r == [active |-> b, checked |-> now, till |-> now + PreviousTTL]
<1>1. r \in Record /\ r.checked <= now /\ r.till = r.checked + PreviousTTL /\ r.till <= now + PreviousTTL
  BY Times DEF Record, TypeInv
<1>2. CASE previous' = r /\ NoFault
  BY <1>1, <1>2, FaultType DEF TypeInv
<1>3. CASE Fault /\ UNCHANGED previous
  BY <1>3, FaultType DEF TypeInv
<1>. QED  BY <1>2, <1>3 DEF SetPrevious

LEMMA HitType ==
  ASSUME TypeInv, NEW c \in Checks, Hit(c)
  PROVE  /\ check' \in [Checks -> State]
         /\ \A d \in Checks : check'[d].record = check[d].record
BY DEF Hit, Become, TypeInv, State, At

LEMMA StateType ==
  ASSUME TypeInv, NEW c \in Checks, NEW s \in State, Become(c, s), s.record = check[c].record
  PROVE  /\ check' \in [Checks -> State]
         /\ \A d \in Checks : check'[d].record = check[d].record
BY DEF Become, TypeInv

LEMMA MissType == ASSUME TypeInv, Miss PROVE events' \in Nat /\ failed' \in BOOLEAN
BY FaultType DEF Miss, TypeInv

LEMMA AskType == ASSUME TypeInv, NEW c \in Checks, Ask(c) PROVE TypeInv'
<1>1. events' \in Nat /\ failed' \in BOOLEAN
  BY MissType, FaultType DEF Ask, Hit, TypeInv
<1>2. check' \in [Checks -> State] /\ \A d \in Checks : check'[d].record = check[d].record
  BY HitType, GoType DEF Ask, At
<1>. QED  BY <1>1, <1>2 DEF Ask, TypeInv, redis, history

LEMMA RecheckType == ASSUME TypeInv, NEW c \in Checks, Recheck(c) PROVE TypeInv'
<1>1. events' \in Nat /\ failed' \in BOOLEAN
  BY FaultType DEF Recheck, TypeInv
<1>2. check' \in [Checks -> State] /\ \A d \in Checks : check'[d].record.checked <= now
  <2>. DEFINE s == [Idle EXCEPT !.at = "fetch", !.keeps = TRUE]
  <2>1. s \in State /\ s.record.checked <= now
    <3>1. s.record = NoRecord /\ NoRecord.checked = 0 /\ now >= 0
      BY IdleType DEF NoRecord, State, TypeInv
    <3>. QED  BY <3>1, IdleType DEF State, At
  <2>. QED  BY <2>1, BecomeType DEF Recheck
<1>3. memory' \in [Instances -> [status : Service \cup {"none"}, active : BOOLEAN]]
  BY CheckParts DEF Recheck, TypeInv, NoMemory
<1>. QED  BY <1>1, <1>2, <1>3, Times DEF Recheck, Clear, TypeInv, NoFetch, Answer, history

LEMMA TryLockType == ASSUME TypeInv, NEW c \in Checks, TryLock(c) PROVE TypeInv'
<1>1. events' \in Nat /\ failed' \in BOOLEAN /\ lock' \in BOOLEAN
  BY FaultType DEF TryLock, TypeInv
<1>2. check' \in [Checks -> State] /\ \A d \in Checks : check'[d].record = check[d].record
  <2>. DEFINE s == [check[c] EXCEPT !.at = "fetch", !.keeps = TRUE]
  <2>1. s \in State /\ s.record = check[c].record
    BY DEF State, At, TypeInv
  <2>. QED  BY <2>1, StateType, GoType DEF TryLock, At
<1>. QED  BY <1>1, <1>2 DEF TryLock, TypeInv, history

LEMMA PollType == ASSUME TypeInv, NEW c \in Checks, Poll(c) PROVE TypeInv'
<1>1. events' \in Nat /\ failed' \in BOOLEAN
  BY MissType, FaultType DEF Poll, GivesUp, Hit, TypeInv
<1>2. check' \in [Checks -> State] /\ \A d \in Checks : check'[d].record = check[d].record
  <2>. DEFINE s == [check[c] EXCEPT !.at = "fetch", !.keeps = TRUE]
  <2>1. s \in State /\ s.record = check[c].record
    BY DEF State, At, TypeInv
  <2>. QED  BY <2>1, StateType, HitType DEF Poll, GivesUp
<1>. QED  BY <1>1, <1>2 DEF Poll, TypeInv, redis, history

LEMMA FetchType == ASSUME TypeInv, NEW c \in Checks, Fetch(c) PROVE TypeInv'
<1>1. CASE service = "refused"
  <2>1. check' \in [Checks -> State] /\ \A d \in Checks : check'[d].record.checked <= now
    BY <1>1, IdleType, BecomeType DEF Fetch, NoRecord, TypeInv
  <2>2. memory' \in [Instances -> [status : Service \cup {"none"}, active : BOOLEAN]]
    BY <1>1, RememberType DEF Fetch, TypeInv, Service
  <2>. QED  BY <1>1, <2>1, <2>2 DEF Fetch, TypeInv, redis
<1>2. CASE service # "refused"
  <2>. DEFINE s == [check[c] EXCEPT !.answer = service, !.keeps = FALSE,
                                    !.at = IF check[c].keeps THEN "store" ELSE "previous"]
  <2>1. service \in Answer
    BY <1>2 DEF TypeInv, Service
  <2>2. s \in State /\ s.record = check[c].record
    BY <2>1 DEF State, At, TypeInv
  <2>3. check' \in [Checks -> State] /\ \A d \in Checks : check'[d].record = check[d].record
    BY <1>2, <2>2, StateType DEF Fetch
  <2>4. said' \in [Answer -> Nat] /\ \A a \in Answer : said'[a] <= now
    <3>1. said' = [said EXCEPT ![service] = now] /\ now \in Nat
      BY <1>2 DEF Fetch, TypeInv
    <3>. QED  BY <2>1, <3>1 DEF TypeInv
  <2>. QED  BY <1>2, <2>3, <2>4 DEF Fetch, TypeInv, redis
<1>. QED  BY <1>1, <1>2

LEMMA StoreType == ASSUME TypeInv, NEW c \in Checks, Store(c) PROVE TypeInv'
<1>1. events' \in Nat /\ failed' \in BOOLEAN
  BY FaultType DEF Store, TypeInv
<1>2. check' \in [Checks -> State] /\ \A d \in Checks : check'[d].record = check[d].record
  BY GoType DEF Store, At
<1>3. fetched' \in [value : Answer, till : Nat] /\ fetched'.till <= now + FetchTTL
  <2>1. check[c].answer \in Answer
    BY DEF TypeInv, State
  <2>. QED  BY <2>1, TTLType, Times DEF Store, TypeInv
<1>. QED  BY <1>1, <1>2, <1>3 DEF Store, TypeInv, history

LEMMA PreviousType == ASSUME TypeInv, NEW c \in Checks, Previous(c) PROVE TypeInv'
<1>1. events' \in Nat /\ failed' \in BOOLEAN
  BY FaultType DEF Previous, TypeInv
<1>2. check' \in [Checks -> State] /\ \A d \in Checks : check'[d].record.checked <= now
  <2>1. ASSUME NEW r \in Record, r.checked <= now
        PROVE  /\ [check[c] EXCEPT !.at = "compute", !.record = r] \in State
               /\ [check[c] EXCEPT !.at = "compute", !.record = r].record.checked <= now
    BY <2>1 DEF State, At, TypeInv
  <2>2. /\ previous \in Record /\ previous.checked <= now
        /\ check[Other(c)].record \in Record /\ check[Other(c)].record.checked <= now
    BY CheckParts DEF TypeInv, State
  <2>. QED  BY <2>1, <2>2, BecomeType, GoType DEF Previous, At, TypeInv
<1>3. memory' \in [Instances -> [status : Service \cup {"none"}, active : BOOLEAN]]
  BY CheckParts DEF Previous, TypeInv, NoMemory
<1>. QED  BY <1>1, <1>2, <1>3 DEF Previous, TypeInv, redis, history

LEMMA ComputeType == ASSUME TypeInv, NEW c \in Checks, Compute(c) PROVE TypeInv'
<1>1. check' \in [Checks -> State] /\ \A d \in Checks : check'[d].record.checked <= now
  BY IdleType, BecomeType DEF Compute, NoRecord, TypeInv
<1>2. check[c].answer \in Service
  BY DEF TypeInv, State, Service
<1>3. CASE Live(c, check[c])
  <2>1. memory' \in [Instances -> [status : Service \cup {"none"}, active : BOOLEAN]]
    BY <1>3, RememberType DEF Live, Service, Answer
  <2>. QED  BY <1>1, <1>3, <2>1, SetPreviousType DEF Compute, Live, TypeInv
<1>4. CASE UseGrace(c, check[c])
  <2>1. memory' \in [Instances -> [status : Service \cup {"none"}, active : BOOLEAN]]
    BY <1>2, <1>4, RememberType DEF UseGrace
  <2>. QED  BY <1>1, <1>4, <2>1 DEF Compute, UseGrace, TypeInv
<1>5. CASE Default(c, check[c])
  <2>1. memory' \in [Instances -> [status : Service \cup {"none"}, active : BOOLEAN]]
    BY <1>2, <1>5, RememberType DEF Default
  <2>2. raced' \in BOOLEAN
    BY <1>5 DEF Default, TypeInv
  <2>. QED  BY <1>1, <1>5, <2>1, <2>2, SetPreviousType DEF Compute, Default, TypeInv
<1>. QED  BY <1>3, <1>4, <1>5 DEF Compute

LEMMA InitType == Init => TypeInv
<1>. SUFFICES ASSUME Init PROVE TypeInv
  OBVIOUS
<1>1. now \in Nat \ {0} /\ now <= MaxTime
  BY Times DEF Init
<1>2. check \in [Checks -> State] /\ \A c \in Checks : check[c].record.checked <= now
  BY IdleType, <1>1 DEF Init, NoRecord
<1>3. /\ fetched \in [value : Answer, till : Nat] /\ fetched.till <= now + FetchTTL
      /\ previous \in Record /\ previous.checked <= now /\ previous.till <= now + PreviousTTL
      /\ ~previous.active
  BY <1>1, Times DEF Init, NoFetch, NoRecord, Record, Answer
<1>4. memory \in [Instances -> [status : Service \cup {"none"}, active : BOOLEAN]]
  BY DEF Init, NoMemory
<1>5. said \in [Answer -> Nat] /\ \A a \in Answer : said[a] <= now
  BY <1>1 DEF Init
<1>. QED  BY <1>1, <1>2, <1>3, <1>4, <1>5 DEF Init, TypeInv, Service, Answer

LEMMA TypeStep == TypeInv /\ [Next]_vars => TypeInv'
<1>. SUFFICES ASSUME TypeInv, [Next]_vars PROVE TypeInv'
  OBVIOUS
<1>. USE Times
<1>1. CASE Tick
  <2>1. fetched' \in [value : Answer, till : Nat] /\ fetched'.till <= now' + FetchTTL
    BY <1>1 DEF Tick, TypeInv, NoFetch, Answer
  <2>2. /\ previous' \in Record /\ previous'.checked <= now' /\ previous'.till <= now' + PreviousTTL
        /\ previous'.active => previous'.till = previous'.checked + PreviousTTL
    BY <1>1 DEF Tick, TypeInv, NoRecord, Record
  <2>3. memory' \in [Instances -> [status : Service \cup {"none"}, active : BOOLEAN]]
    BY <1>1 DEF Tick, NoMemory
  <2>4. now' \in Nat \ {0} /\ now' <= MaxTime /\ \A c \in Checks : check'[c].record.checked <= now'
    <3>1. \A c \in Checks : check[c].record.checked \in Nat
      BY DEF TypeInv, State, Record
    <3>. QED  BY <1>1, <3>1 DEF Tick, TypeInv
  <2>5. said' \in [Answer -> Nat] /\ \A a \in Answer : said'[a] <= now'
    BY <1>1 DEF Tick, TypeInv, history
  <2>. QED  BY <1>1, <2>1, <2>2, <2>3, <2>4, <2>5 DEF Tick, TypeInv, history
<1>2. CASE Forget
  <2>1. lock' \in BOOLEAN
    BY <1>2 DEF Forget, TypeInv
  <2>2. memory' \in [Instances -> [status : Service \cup {"none"}, active : BOOLEAN]]
    <3>1. ASSUME NEW p \in Instances, memory' = [memory EXCEPT ![p] = NoMemory]
          PROVE  memory' \in [Instances -> [status : Service \cup {"none"}, active : BOOLEAN]]
      BY <3>1 DEF TypeInv, NoMemory
    <3>2. CASE UNCHANGED memory
      BY <3>2 DEF TypeInv
    <3>. QED  BY <1>2, <3>1, <3>2 DEF Forget
  <2>. QED  BY <1>2, <2>1, <2>2 DEF Forget, TypeInv, history
<1>3. CASE Change
  <2>1. service' \in Service /\ events' \in Nat
    BY <1>3, FaultType DEF Change
  <2>. QED  BY <1>3, <2>1 DEF Change, TypeInv, redis, history
<1>4. ASSUME NEW c \in Checks, Ask(c) PROVE TypeInv'
  BY <1>4, AskType
<1>5. ASSUME NEW c \in Checks, Recheck(c) PROVE TypeInv'
  BY <1>5, RecheckType
<1>6. ASSUME NEW c \in Checks, TryLock(c) PROVE TypeInv'
  BY <1>6, TryLockType
<1>7. ASSUME NEW c \in Checks, Poll(c) PROVE TypeInv'
  BY <1>7, PollType
<1>8. ASSUME NEW c \in Checks, Fetch(c) PROVE TypeInv'
  BY <1>8, FetchType
<1>9. ASSUME NEW c \in Checks, Store(c) PROVE TypeInv'
  BY <1>9, StoreType
<1>10. ASSUME NEW c \in Checks, Previous(c) PROVE TypeInv'
  BY <1>10, PreviousType
<1>11. ASSUME NEW c \in Checks, Compute(c) PROVE TypeInv'
  BY <1>11, ComputeType
<1>12. ASSUME NEW p \in Instances, Restart(p) PROVE TypeInv'
  <2>1. check' \in [Checks -> State] /\ \A c \in Checks : check'[c].record.checked <= now
    BY <1>12, IdleType DEF Restart, TypeInv, NoRecord
  <2>2. memory' \in [Instances -> [status : Service \cup {"none"}, active : BOOLEAN]]
    BY <1>12 DEF Restart, TypeInv, NoMemory
  <2>. QED  BY <1>12, <2>1, <2>2, FaultType DEF Restart, TypeInv, redis, history
<1>13. CASE UNCHANGED vars
  BY <1>13 DEF vars, redis, history, TypeInv
<1>. QED  BY <1>1, <1>2, <1>3, <1>4, <1>5, <1>6, <1>7, <1>8, <1>9, <1>10, <1>11, <1>12, <1>13
          DEF Next, Continue

THEOREM TypesHold == Spec => []TypeInv
BY InitType, TypeStep, PTL DEF Spec

(* The type invariant of the runs, from every initial state on.            *)
THEOREM TypeCorrect == Spec => []TypeOK
<1>1. TypeInv => TypeOK
  BY DEF TypeInv, TypeOK, Record, State
<1>. QED  BY <1>1, TypesHold, PTL

-----------------------------------------------------------------------------
(* The age of answers.                                                     *)
LEMMA IdleIsFresh == Fresh(Idle)
BY DEF Fresh, Idle

(* A step that hears nothing from the service, in which nothing is learned *)
(* but from what is there.                                                 *)
LEMMA AnswersKept ==
  ASSUME TypeInv, AnswersInv, now' = now, said' = said, fetched' = fetched \/ fetched' = NoFetch,
         \A c \in Checks : Fresh(check'[c]),
         \A p \in Instances : \/ memory'[p] = memory[p]
                               \/ memory'[p].status \notin Answer
                               \/ Recent(memory'[p].status)
  PROVE  AnswersInv'
BY DEF AnswersInv, FetchedInv, Fresh, Recent, TTL

LEMMA BecomeFresh ==
  ASSUME TypeInv, AnswersInv, NEW c \in Checks, NEW s, Become(c, s), Fresh(s)
  PROVE  \A d \in Checks : Fresh(check'[d])
BY DEF AnswersInv, Become, TypeInv

LEMMA HitIsFresh ==
  ASSUME TypeInv, AnswersInv, NEW c \in Checks, Hit(c)
  PROVE  \A d \in Checks : Fresh(check'[d])
<1>. DEFINE s == [check[c] EXCEPT !.at = "previous", !.answer = fetched.value]
<1>1. s.at = "previous" /\ s.answer = fetched.value
  BY DEF TypeInv, State
<1>2. Recent(fetched.value)
  <2>1. said[fetched.value] \in Nat /\ TTL(fetched.value) \in Nat /\ fetched.till \in Nat /\ now \in Nat
    BY TTLType DEF TypeInv
  <2>. QED  BY <2>1 DEF Hit, AnswersInv, FetchedInv, Recent
<1>3. Fresh(s)
  BY <1>1, <1>2 DEF Fresh
<1>. QED  BY <1>3, BecomeFresh DEF Hit

(* A check that goes on to ask, or that keeps the answer it has.           *)
LEMMA GoIsFresh ==
  ASSUME TypeInv, AnswersInv, NEW c \in Checks, NEW to \in At, Go(c, to),
         to \in {"lock", "poll", "fetch"} \/ Recent(check[c].answer)
  PROVE  to # "store" => \A d \in Checks : Fresh(check'[d])
<1>. SUFFICES ASSUME to # "store" PROVE \A d \in Checks : Fresh(check'[d])
  OBVIOUS
<1>1. check'[c].at = to /\ check'[c].answer = check[c].answer
  BY DEF Go, TypeInv, State
<1>2. \A d \in Checks \ {c} : check'[d] = check[d]
  BY DEF Go, TypeInv
<1>3. Fresh(check'[c])
  BY <1>1 DEF Fresh
<1>. QED  BY <1>2, <1>3 DEF AnswersInv

LEMMA StoreIsFresh ==
  ASSUME TypeInv, AnswersInv, NEW c \in Checks, check[c].at = "store"
  PROVE  check[c].answer \in Answer /\ said[check[c].answer] = now /\ Recent(check[c].answer)
<1>1. check[c].answer \in Answer /\ now \in Nat \ {0}
  BY DEF TypeInv, State
<1>2. said[check[c].answer] = now
  BY DEF AnswersInv, Fresh
<1>. QED  BY <1>1, <1>2, TTLType DEF Recent

LEMMA InitAnswers == Init => AnswersInv
BY IdleIsFresh DEF Init, AnswersInv, FetchedInv, NoMemory, Answer

LEMMA AnswersStep == TypeInv /\ AnswersInv /\ [Next]_vars => AnswersInv'
<1>. SUFFICES ASSUME TypeInv, AnswersInv, [Next]_vars PROVE AnswersInv'
  OBVIOUS
<1>0. "none" \notin Answer /\ "refused" \notin Answer
  BY DEF Answer
<1>1. CASE Tick
  <2>1. \A c \in Checks : check'[c] = Idle
    BY <1>1 DEF Tick
  <2>2. \A p \in Instances : memory'[p].status \notin Answer
    BY <1>0, <1>1 DEF Tick, NoMemory
  <2>3. FetchedInv'
    <3>1. CASE fetched.till <= now + 1
      BY <1>1, <3>1 DEF Tick, FetchedInv
    <3>2. CASE ~(fetched.till <= now + 1)
      BY <1>1, <3>2 DEF Tick, FetchedInv, AnswersInv, TTL, TypeInv, history
    <3>. QED  BY <3>1, <3>2
  <2>4. \A c \in Checks : Fresh(check[c])'
    BY <2>1 DEF Fresh, Idle
  <2>. QED  BY <2>2, <2>3, <2>4 DEF AnswersInv
<1>2. CASE Forget
  <2>1. \A p \in Instances : memory'[p] = memory[p] \/ memory'[p].status \notin Answer
    BY <1>0, <1>2 DEF Forget, TypeInv, NoMemory
  <2>. QED  BY <1>2, <2>1, AnswersKept DEF Forget, AnswersInv, history
<1>3. CASE Change
  BY <1>3, AnswersKept DEF Change, AnswersInv, redis, history
<1>4. ASSUME NEW c \in Checks, Ask(c) PROVE AnswersInv'
  BY <1>4, HitIsFresh, GoIsFresh, AnswersKept DEF Ask, At, redis, history
<1>5. ASSUME NEW c \in Checks, Recheck(c) PROVE AnswersInv'
  <2>1. \A d \in Checks : Fresh(check'[d])
    <3>1. [Idle EXCEPT !.at = "fetch", !.keeps = TRUE].at = "fetch"
      BY DEF Idle
    <3>. QED  BY <1>5, <3>1, BecomeFresh DEF Recheck, Fresh
  <2>2. \A p \in Instances : memory'[p] = memory[p] \/ memory'[p].status \notin Answer
    BY <1>0, <1>5 DEF Recheck, TypeInv, NoMemory
  <2>. QED  BY <1>5, <2>1, <2>2, AnswersKept DEF Recheck, Clear, history
<1>6. ASSUME NEW c \in Checks, TryLock(c) PROVE AnswersInv'
  <2>1. [check[c] EXCEPT !.at = "fetch", !.keeps = TRUE].at = "fetch"
    BY DEF TypeInv, State
  <2>2. \A d \in Checks : Fresh(check'[d])
    BY <1>6, <2>1, BecomeFresh, GoIsFresh DEF TryLock, Fresh, At
  <2>. QED  BY <1>6, <2>2, AnswersKept DEF TryLock, history
<1>7. ASSUME NEW c \in Checks, Poll(c) PROVE AnswersInv'
  <2>1. [check[c] EXCEPT !.at = "fetch", !.keeps = TRUE].at = "fetch"
    BY DEF TypeInv, State
  <2>2. \A d \in Checks : Fresh(check'[d])
    BY <1>7, <2>1, BecomeFresh, HitIsFresh DEF Poll, GivesUp, Fresh
  <2>. QED  BY <1>7, <2>2, AnswersKept DEF Poll, redis, history
<1>8. ASSUME NEW c \in Checks, Fetch(c) PROVE AnswersInv'
  <2>1. CASE service = "refused"
    <3>1. \A p \in Instances : memory'[p] = memory[p] \/ memory'[p].status \notin Answer
      BY <1>0, <1>8, <2>1 DEF Fetch, Remember, TypeInv
    <3>. QED  BY <1>8, <2>1, <3>1, IdleIsFresh, BecomeFresh, AnswersKept DEF Fetch, redis
  <2>2. CASE service # "refused"
    <3>. DEFINE s == [check[c] EXCEPT !.answer = service, !.keeps = FALSE,
                                      !.at = IF check[c].keeps THEN "store" ELSE "previous"]
    <3>1. service \in Answer
      BY <2>2 DEF TypeInv, Service
    <3>2. /\ said'[service] = now /\ now' = now /\ now \in Nat \ {0} /\ service' = service
          /\ \A a \in Answer : said[a] \in Nat /\ said[a] <= said'[a] /\ said'[a] \in Nat
          /\ \A a \in Answer \ {service} : said'[a] = said[a]
      <4>1. said' = [said EXCEPT ![service] = now] /\ now' = now /\ service' = service
        BY <1>8, <2>2 DEF Fetch
      <4>. QED  BY <3>1, <4>1 DEF TypeInv
    <3>3. Recent(service)' /\ \A a \in Answer : Recent(a) => Recent(a)'
      <4>1. TTL(service)' = TTL(service)
        BY <3>2 DEF TTL
      <4>2. Recent(service)'
        BY <3>1, <3>2, <4>1, TTLType DEF Recent
      <4>3. ASSUME NEW a \in Answer, Recent(a) PROVE Recent(a)'
        <5>1. TTL(a)' = TTL(a) /\ TTL(a) \in Nat
          BY TTLType DEF TTL
        <5>. QED  BY <3>2, <4>3, <5>1 DEF Recent
      <4>. QED  BY <4>2, <4>3
    <3>4. \A d \in Checks : Fresh(check[d])'
      <4>1. s.answer = service /\ s.at \in {"store", "previous"}
        BY DEF TypeInv, State
      <4>2. check'[c] = s /\ \A d \in Checks \ {c} : check'[d] = check[d]
        BY <1>8, <2>2 DEF Fetch, Become, TypeInv
      <4>3. Fresh(check[c])'
        <5>1. check'[c].answer = service /\ check'[c].at \in {"store", "previous"} /\ service' = service
          BY <3>2, <4>1, <4>2
        <5>2. said'[service] = now' /\ Recent(service)'
          BY <3>2, <3>3
        <5>. QED  BY <5>1, <5>2 DEF Fresh, Recent
      <4>4. ASSUME NEW d \in Checks \ {c} PROVE Fresh(check[d])'
        <5>1. check[d].answer \in Answer
          BY DEF TypeInv, State
        <5>2. Fresh(check[d])
          BY DEF AnswersInv
        <5>. QED  BY <3>2, <3>3, <4>2, <5>1, <5>2 DEF Fresh
      <4>. QED  BY <4>3, <4>4
    <3>5. \A p \in Instances : memory'[p].status \in Answer => Recent(memory[p].status)'
      BY <1>8, <2>2, <3>3 DEF Fetch, AnswersInv
    <3>6. FetchedInv'
      <4>1. fetched' = fetched /\ fetched.value \in Answer /\ fetched.till \in Nat
        BY <1>8 DEF Fetch, redis, TypeInv
      <4>2. CASE fetched.value = service
        <5>1. TTL(service) \in Nat /\ said[service] \in Nat
          BY <3>1, TTLType DEF TypeInv
        <5>2. fetched # NoFetch => fetched.till <= now + TTL(service)
          BY <4>1, <4>2, <5>1, <3>2 DEF AnswersInv, FetchedInv
        <5>. QED  BY <3>2, <4>1, <4>2, <5>2 DEF FetchedInv, AnswersInv, TTL
      <4>3. CASE fetched.value # service
        BY <3>2, <4>1, <4>3 DEF FetchedInv, AnswersInv, TTL
      <4>. QED  BY <4>2, <4>3
    <3>. QED  BY <3>4, <3>5, <3>6 DEF AnswersInv
  <2>. QED  BY <2>1, <2>2
<1>9. ASSUME NEW c \in Checks, Store(c) PROVE AnswersInv'
  <2>1. check[c].answer \in Answer /\ said[check[c].answer] = now /\ Recent(check[c].answer)
    BY <1>9, StoreIsFresh DEF Store
  <2>2. \A d \in Checks : Fresh(check'[d])
    BY <1>9, <2>1, GoIsFresh DEF Store, At
  <2>3. CASE UNCHANGED fetched
    BY <1>9, <2>2, <2>3, AnswersKept DEF Store, history
  <2>4. CASE fetched' = [value |-> check[c].answer, till |-> now + TTL(check[c].answer)]
    <3>1. FetchedInv'
      <4>1. TTL(check[c].answer) \in Nat \ {0} /\ now \in Nat \ {0}
        BY <2>1, TTLType DEF TypeInv
      <4>. QED  BY <1>9, <2>1, <2>4, <4>1 DEF Store, FetchedInv, history, TTL
    <3>2. /\ \A d \in Checks : Fresh(check[d])'
          /\ \A p \in Instances : memory'[p].status \in Answer => Recent(memory[p].status)'
      BY <1>9, <2>2 DEF Store, AnswersInv, Fresh, Recent, TTL, history
    <3>. QED  BY <3>1, <3>2 DEF AnswersInv
  <2>. QED  BY <1>9, <2>3, <2>4 DEF Store
<1>10. ASSUME NEW c \in Checks, Previous(c) PROVE AnswersInv'
  <2>1. Recent(check[c].answer)
    BY <1>10 DEF Previous, AnswersInv, Fresh
  <2>2. ASSUME NEW r PROVE /\ [check[c] EXCEPT !.at = "compute", !.record = r].at = "compute"
                           /\ [check[c] EXCEPT !.at = "compute", !.record = r].answer = check[c].answer
    BY DEF TypeInv, State
  <2>3. \A d \in Checks : Fresh(check'[d])
    BY <1>10, <2>1, <2>2, BecomeFresh, GoIsFresh DEF Previous, Fresh, At
  <2>4. \A p \in Instances : memory'[p] = memory[p] \/ memory'[p].status \notin Answer
    BY <1>0, <1>10 DEF Previous, TypeInv, NoMemory
  <2>. QED  BY <1>10, <2>3, <2>4, AnswersKept DEF Previous, redis, history
<1>11. ASSUME NEW c \in Checks, Compute(c) PROVE AnswersInv'
  <2>1. Recent(check[c].answer)
    BY <1>11 DEF Compute, AnswersInv, Fresh
  <2>2. \A p \in Instances : memory'[p] = memory[p] \/ memory'[p].status = check[c].answer
    <3>1. \E a \in Service, b \in BOOLEAN : a = check[c].answer /\ Remember(c, a, b)
      <4>1. check[c].answer \in Service
        BY DEF TypeInv, State, Service
      <4>. QED  BY <1>11, <4>1 DEF Compute, Live, UseGrace, Default
    <3>. QED  BY <3>1 DEF Remember, TypeInv
  <2>3. \A d \in Checks : Fresh(check'[d])
    BY <1>11, IdleIsFresh, BecomeFresh DEF Compute
  <2>. QED  BY <1>11, <2>1, <2>2, <2>3, AnswersKept DEF Compute
<1>12. ASSUME NEW p \in Instances, Restart(p) PROVE AnswersInv'
  <2>1. \A q \in Instances : memory'[q] = memory[q] \/ memory'[q].status \notin Answer
    BY <1>0, <1>12 DEF Restart, TypeInv, NoMemory
  <2>2. \A d \in Checks : Fresh(check'[d])
    BY <1>12, IdleIsFresh DEF Restart, AnswersInv
  <2>. QED  BY <1>12, <2>1, <2>2, AnswersKept DEF Restart, redis, history
<1>13. CASE UNCHANGED vars
  BY <1>13, AnswersKept DEF vars, redis, history, AnswersInv
<1>. QED  BY <1>1, <1>2, <1>3, <1>4, <1>5, <1>6, <1>7, <1>8, <1>9, <1>10, <1>11, <1>12, <1>13
          DEF Next, Continue

LEMMA AnswersHold == Spec => []AnswersInv
BY TypesHold, InitAnswers, AnswersStep, PTL DEF Spec

(* An instance never judges the license by an answer older than it may be. *)
THEOREM StatusStaysRecent == Spec => []StatusIsRecent
<1>1. AnswersInv => StatusIsRecent
  BY DEF AnswersInv, StatusIsRecent, Recent, TTL
<1>. QED  BY <1>1, AnswersHold, PTL

-----------------------------------------------------------------------------
(* The end of the license.                                                 *)
LEMMA SaidGrows ==
  ASSUME TypeInv, [Next]_vars
  PROVE  \A a \in Answer : said[a] \in Nat /\ said'[a] \in Nat /\ said[a] <= said'[a]
<1>1. ASSUME NEW c \in Checks, Fetch(c) PROVE said' = said \/ said' = [said EXCEPT ![service] = now]
  BY <1>1 DEF Fetch
<1>2. said' = said \/ \E c \in Checks : Fetch(c)
  BY DEF Next, Continue, vars, redis, history, Tick, Forget, Change, Ask, Recheck, TryLock, Poll,
         Store, Previous, Compute, Restart
<1>. QED  BY <1>1, <1>2 DEF TypeInv

(* The records that a step leaves with the checks were there before.       *)
LEMMA RecordsFrom ==
  ASSUME TypeInv, [Next]_vars, NEW d \in Checks
  PROVE  \/ check'[d].record = NoRecord
         \/ check'[d].record = previous
         \/ \E e \in Checks : check'[d].record = check[e].record
<1>. DEFINE From == \/ check'[d].record = NoRecord
                    \/ check'[d].record = previous
                    \/ \E e \in Checks : check'[d].record = check[e].record
<1>. USE DEF TypeInv
<1>1. ASSUME NEW c \in Checks, NEW s, Become(c, s),
             \/ s.record = NoRecord
             \/ s.record = previous
             \/ \E e \in Checks : s.record = check[e].record
      PROVE  From
  BY <1>1 DEF Become
<1>2. ASSUME NEW c \in Checks, NEW to, Go(c, to) PROVE From
  BY <1>2 DEF Go, State
<1>3. ASSUME NEW c \in Checks, Hit(c) PROVE From
  BY <1>3, <1>1 DEF Hit, State
<1>4. CASE UNCHANGED check
  BY <1>4
<1>5. ASSUME NEW c \in Checks, Ask(c) PROVE From
  BY <1>5, <1>2, <1>3 DEF Ask
<1>6. ASSUME NEW c \in Checks, Recheck(c) PROVE From
  <2>1. [Idle EXCEPT !.at = "fetch", !.keeps = TRUE].record = NoRecord
    BY DEF Idle
  <2>. QED  BY <1>6, <1>1, <2>1 DEF Recheck
<1>7. ASSUME NEW c \in Checks, TryLock(c) \/ Poll(c) PROVE From
  <2>1. [check[c] EXCEPT !.at = "fetch", !.keeps = TRUE].record = check[c].record
    BY DEF State
  <2>. QED  BY <1>7, <1>1, <1>2, <1>3, <2>1 DEF TryLock, Poll, GivesUp
<1>8. ASSUME NEW c \in Checks, Fetch(c) PROVE From
  <2>1. [check[c] EXCEPT !.answer = service, !.keeps = FALSE,
                         !.at = IF check[c].keeps THEN "store" ELSE "previous"].record = check[c].record
    BY DEF State
  <2>. QED  BY <1>8, <1>1, <2>1, IdleType DEF Fetch
<1>9. ASSUME NEW c \in Checks, Store(c) PROVE From
  BY <1>9, <1>2 DEF Store
<1>10. ASSUME NEW c \in Checks, Previous(c) PROVE From
  <2>1. ASSUME NEW x PROVE [check[c] EXCEPT !.at = "compute", !.record = x].record = x
    BY DEF State
  <2>. QED  BY <1>10, <1>1, <1>2, <2>1, CheckParts DEF Previous
<1>11. ASSUME NEW c \in Checks, Compute(c) PROVE From
  BY <1>11, <1>1, IdleType DEF Compute
<1>12. ASSUME NEW p \in Instances, Restart(p) PROVE From
  BY <1>12, IdleType DEF Restart
<1>. QED  BY <1>4, <1>5, <1>6, <1>7, <1>8, <1>9, <1>10, <1>11, <1>12
          DEF Next, Continue, vars, Tick, Forget, Change

(* Only a verdict writes a record, and only a verdict, or its end, changes *)
(* what an instance takes the license for.                                 *)
LEMMA OnlyVerdicts ==
  ASSUME TypeInv, [Next]_vars
  PROVE  \/ /\ previous' = previous \/ previous' = NoRecord
            /\ \A p \in Instances : /\ memory'[p].active => memory'[p] = memory[p] /\ now' = now
         \/ \E c \in Checks : Compute(c)
<1>. DEFINE Quiet == /\ previous' = previous \/ previous' = NoRecord
                     /\ \A p \in Instances : memory'[p].active => memory'[p] = memory[p] /\ now' = now
<1>. USE DEF TypeInv
<1>1. CASE Tick
  BY <1>1 DEF Tick, NoMemory
<1>2. CASE Forget
  BY <1>2 DEF Forget, NoMemory
<1>3. ASSUME NEW c \in Checks, Recheck(c) PROVE Quiet
  BY <1>3 DEF Recheck, Clear, NoMemory
<1>4. ASSUME NEW c \in Checks, Fetch(c) PROVE Quiet
  BY <1>4 DEF Fetch, Remember, redis
<1>5. ASSUME NEW c \in Checks, Previous(c) PROVE Quiet
  BY <1>5 DEF Previous, NoMemory, redis
<1>6. ASSUME NEW p \in Instances, Restart(p) PROVE Quiet
  BY <1>6 DEF Restart, NoMemory, redis
<1>7. ASSUME NEW c \in Checks, Ask(c) \/ TryLock(c) \/ Poll(c) \/ Store(c) PROVE Quiet
  BY <1>7 DEF Ask, TryLock, Poll, Store, redis
<1>8. CASE Change \/ UNCHANGED vars
  BY <1>8 DEF Change, vars, redis
<1>. QED  BY <1>1, <1>2, <1>3, <1>4, <1>5, <1>6, <1>7, <1>8 DEF Next, Continue

LEMMA InitLicense == Init => LicenseInv
BY IdleType DEF Init, LicenseInv, Told, NoRecord, NoFreeLicense, NoMemory

LEMMA LicenseStep == TypeInv /\ AnswersInv /\ LicenseInv /\ [Next]_vars => LicenseInv'
<1>. SUFFICES ASSUME TypeInv, AnswersInv, LicenseInv, [Next]_vars PROVE LicenseInv'
  OBVIOUS
<1>. USE Times
<1>1. "active" \in Answer /\ TTL("active") = FetchTTL
  BY DEF Answer, TTL
<1>2. /\ said["active"] \in Nat /\ said'["active"] \in Nat /\ said["active"] <= said'["active"]
      /\ now \in Nat
  BY <1>1, SaidGrows DEF TypeInv
<1>3. ASSUME NEW x \in Record, Told(x) PROVE Told(x)'
  BY <1>2, <1>3 DEF Told, Record
<1>4. /\ Told(NoRecord) /\ NoRecord \in Record
      /\ Told(previous) /\ previous \in Record
      /\ \A c \in Checks : Told(check[c].record) /\ check[c].record \in Record
  BY DEF LicenseInv, Told, NoRecord, Record, TypeInv, State
<1>5. \A c \in Checks : Told(check[c].record)'
  <2>. SUFFICES ASSUME NEW c \in Checks PROVE Told(check[c].record)'
    OBVIOUS
  <2>1. PICK x \in Record : Told(x) /\ check'[c].record = x
    BY <1>4, RecordsFrom
  <2>. QED  BY <1>3, <2>1 DEF Told
<1>6. CASE /\ previous' = previous \/ previous' = NoRecord
           /\ \A p \in Instances : memory'[p].active => memory'[p] = memory[p] /\ now' = now
  <2>1. Told(previous)'
    <3>1. PICK x \in Record : Told(x) /\ previous' = x
      BY <1>4, <1>6
    <3>. QED  BY <1>3, <3>1 DEF Told
  <2>2. NoFreeLicense'
    BY <1>2, <1>6 DEF LicenseInv, NoFreeLicense
  <2>. QED  BY <1>5, <2>1, <2>2 DEF LicenseInv
<1>7. ASSUME NEW c \in Checks, Compute(c) PROVE LicenseInv'
  <2>1. now' = now /\ said' = said
    BY <1>7 DEF Compute
  <2>2. check[c].answer = "active" => said["active"] > 0 /\ now < said["active"] + FetchTTL
    BY <1>1, <1>7 DEF Compute, AnswersInv, Fresh, Recent
  <2>3. check[c].record.active => said["active"] > 0 /\ check[c].record.checked < said["active"] + FetchTTL
    BY <1>4 DEF Told
  <2>4. check[c].record.checked \in Nat
    BY <1>4 DEF Record
  <2>5. Told(previous)'
    <3>1. CASE previous' = previous
      BY <1>4, <2>1, <3>1 DEF Told
    <3>2. ASSUME NEW b \in BOOLEAN, b => check[c].answer = "active",
                 previous' = [active |-> b, checked |-> now, till |-> now + PreviousTTL]
          PROVE  Told(previous)'
      BY <2>1, <2>2, <3>2 DEF Told
    <3>. QED  BY <1>7, <3>1, <3>2 DEF Compute, Live, UseGrace, Default, SetPrevious
  <2>6. memory'[c[1]].active => said["active"] > 0 /\ now < said["active"] + FetchTTL + Grace
    <3>1. CASE Live(c, check[c])
      BY <1>2, <2>2, <3>1 DEF Live
    <3>2. CASE UseGrace(c, check[c])
      BY <1>2, <2>3, <2>4, <3>2 DEF UseGrace, InGrace
    <3>3. CASE Default(c, check[c])
      BY <3>3, CheckParts DEF Default, Remember, TypeInv
    <3>. QED  BY <1>7, <3>1, <3>2, <3>3 DEF Compute
  <2>7. \A p \in Instances \ {c[1]} : memory'[p] = memory[p]
    BY <1>7 DEF Compute, Live, UseGrace, Default, Remember, TypeInv
  <2>8. NoFreeLicense'
    BY <2>1, <2>6, <2>7 DEF NoFreeLicense, LicenseInv
  <2>. QED  BY <1>5, <2>5, <2>8 DEF LicenseInv
<1>. QED  BY <1>6, <1>7, OnlyVerdicts

LEMMA LicenseHolds == Spec => []LicenseInv
BY TypesHold, AnswersHold, InitLicense, LicenseStep, PTL DEF Spec

(* Enterprise features end once the service no longer grants the license:  *)
(* no chain of cached answers, records and memories keeps them longer than *)
(* an answer lives and the grace period lasts.                             *)
THEOREM LicenseEnds == Spec => []NoFreeLicense
<1>1. LicenseInv => NoFreeLicense
  BY DEF LicenseInv
<1>. QED  BY <1>1, LicenseHolds, PTL

-----------------------------------------------------------------------------
(* The grace period.                                                       *)
LEMMA ExceptionsStay ==
  ASSUME TypeInv, [Next]_vars
  PROVE  (failed => failed') /\ (raced => raced')
<1>1. ASSUME NEW c \in Checks, Ask(c) \/ Recheck(c) \/ Continue(c) PROVE failed => failed'
  BY <1>1 DEF Ask, Recheck, Continue, TryLock, Poll, Fetch, Store, Previous, Compute, GivesUp, Hit,
              Miss, Fault, NoFault, Live, UseGrace, Default, SetPrevious
<1>2. ASSUME NEW c \in Checks, Ask(c) \/ Recheck(c) \/ Continue(c) PROVE raced => raced'
  BY <1>2 DEF Ask, Recheck, Continue, TryLock, Poll, Fetch, Store, Previous, Compute, history,
              Live, UseGrace, Default
<1>3. CASE Tick \/ Forget \/ Change \/ UNCHANGED vars
  BY <1>3 DEF Tick, Forget, Change, vars, history
<1>4. ASSUME NEW p \in Instances, Restart(p) PROVE (failed => failed') /\ (raced => raced')
  BY <1>4 DEF Restart, history
<1>. QED  BY <1>1, <1>2, <1>3, <1>4 DEF Next

(* Most steps neither read nor write the record.                           *)
LEMMA GraceKeeps ==
  ASSUME GraceInv, ~failed, ~raced, UNCHANGED <<now, seen, previous>>,
         \A d \in Checks : check'[d].at = "compute" => check'[d] = check[d]
  PROVE  SeenInv' /\ ReadInv'
BY DEF GraceInv, SeenInv, ReadInv, Renewed

LEMMA BecomeOther ==
  ASSUME TypeInv, NEW c \in Checks, NEW s, Become(c, s), s.at # "compute"
  PROVE  \A d \in Checks : check'[d].at = "compute" => check'[d] = check[d]
BY DEF TypeInv, Become

LEMMA GoOther ==
  ASSUME TypeInv, NEW c \in Checks, NEW to, Go(c, to), to # "compute"
  PROVE  \A d \in Checks : check'[d].at = "compute" => check'[d] = check[d]
BY DEF TypeInv, Go, State

LEMMA HitOther ==
  ASSUME TypeInv, NEW c \in Checks, Hit(c)
  PROVE  \A d \in Checks : check'[d].at = "compute" => check'[d] = check[d]
<1>1. [check[c] EXCEPT !.at = "previous", !.answer = fetched.value].at = "previous"
  BY DEF TypeInv, State
<1>. QED  BY <1>1, BecomeOther DEF Hit

LEMMA InitGrace == Init => GraceInv
BY IdleType DEF Init, GraceInv, SeenInv, ReadInv

LEMMA GraceStep == TypeInv /\ GraceInv /\ [Next]_vars => GraceInv'
<1>. SUFFICES ASSUME TypeInv, GraceInv, [Next]_vars, ~failed', ~raced' PROVE SeenInv' /\ ReadInv'
  BY DEF GraceInv
<1>. USE Times
<1>0. ~failed /\ ~raced /\ SeenInv /\ ReadInv
  BY ExceptionsStay DEF GraceInv
<1>00. ~Fault
  BY DEF Fault
<1>1. CASE Tick
  <2>1. now' = now + 1 /\ seen' = seen /\ now \in Nat /\ seen \in Nat /\ previous \in Record
    BY <1>1 DEF Tick, TypeInv, history
  <2>2. SeenInv'
    <3>1. CASE previous.till <= now + 1
      <4>1. seen = 0 \/ now + Refresh >= seen + Grace \/ now + 1 + Refresh >= seen + Grace
        BY <1>0, <2>1, <3>1 DEF SeenInv, Record
      <4>. QED  BY <2>1, <4>1 DEF SeenInv
    <3>2. CASE ~(previous.till <= now + 1)
      <4>1. previous' = previous
        BY <1>1, <3>2 DEF Tick
      <4>. QED  BY <1>0, <2>1, <4>1 DEF SeenInv
    <3>. QED  BY <3>1, <3>2
  <2>3. ReadInv'
    BY <1>1, IdleType DEF Tick, ReadInv
  <2>. QED  BY <2>2, <2>3
<1>2. CASE Forget \/ Change \/ UNCHANGED vars
  BY <1>0, <1>2, GraceKeeps DEF Forget, Change, vars, redis, history
<1>4. ASSUME NEW c \in Checks, Ask(c) PROVE SeenInv' /\ ReadInv'
  BY <1>0, <1>4, HitOther, GoOther, GraceKeeps DEF Ask, redis, history
<1>5. ASSUME NEW c \in Checks, Recheck(c) PROVE SeenInv' /\ ReadInv'
  <2>1. [Idle EXCEPT !.at = "fetch", !.keeps = TRUE].at = "fetch"
    BY DEF Idle
  <2>. QED  BY <1>0, <1>00, <1>5, <2>1, BecomeOther, GraceKeeps DEF Recheck, Clear, history
<1>6. ASSUME NEW c \in Checks, TryLock(c) \/ Poll(c) PROVE SeenInv' /\ ReadInv'
  <2>1. [check[c] EXCEPT !.at = "fetch", !.keeps = TRUE].at = "fetch"
    BY DEF TypeInv, State
  <2>2. \A d \in Checks : check'[d].at = "compute" => check'[d] = check[d]
    BY <1>6, <2>1, BecomeOther, GoOther, HitOther DEF TryLock, Poll, GivesUp
  <2>. QED  BY <1>0, <1>6, <2>2, GraceKeeps DEF TryLock, Poll, redis, history
<1>8. ASSUME NEW c \in Checks, Fetch(c) PROVE SeenInv' /\ ReadInv'
  <2>1. [check[c] EXCEPT !.answer = service, !.keeps = FALSE,
                         !.at = IF check[c].keeps THEN "store" ELSE "previous"].at # "compute"
    BY DEF TypeInv, State
  <2>2. \A d \in Checks : check'[d].at = "compute" => check'[d] = check[d]
    BY <1>8, <2>1, IdleType, BecomeOther DEF Fetch
  <2>. QED  BY <1>0, <1>8, <2>2, GraceKeeps DEF Fetch, redis
<1>9. ASSUME NEW c \in Checks, Store(c) PROVE SeenInv' /\ ReadInv'
  BY <1>0, <1>9, GoOther, GraceKeeps DEF Store, history
<1>10. ASSUME NEW c \in Checks, Previous(c) PROVE SeenInv' /\ ReadInv'
  <2>1. UNCHANGED <<now, seen, previous>>
    BY <1>10 DEF Previous, redis, history
  <2>2. SeenInv'
    BY <1>0, <2>1 DEF SeenInv
  <2>3. \A x : [check[c] EXCEPT !.at = "compute", !.record = x].record = x
    BY DEF TypeInv, State
  <2>4. \A d \in Checks \ {c} : check'[d] = check[d]
    BY <1>10 DEF Previous, Become, Go, TypeInv
  <2>5. \/ check'[c].record = previous
        \/ check[Other(c)].at = "compute" /\ check'[c].record = check[Other(c)].record
    BY <1>00, <1>10, <2>3 DEF Previous, Become, TypeInv
  <2>6. ReadInv'
    BY <1>0, <2>1, <2>4, <2>5, CheckParts DEF ReadInv, Renewed
  <2>. QED  BY <2>2, <2>6
<1>11. ASSUME NEW c \in Checks, Compute(c) PROVE SeenInv' /\ ReadInv'
  <2>1. now' = now /\ now \in Nat /\ seen \in Nat
    BY <1>11 DEF Compute, TypeInv
  <2>2. \A d \in Checks : check'[d].at = "compute" => check'[d] = check[d]
    BY <1>11, IdleType, BecomeOther DEF Compute
  <2>3. check[c].at = "compute" /\ check[c].record \in Record
    BY <1>11 DEF Compute, TypeInv, State
  <2>4. CASE Live(c, check[c]) /\ ~Records(check[c])
    <3>1. previous' = previous /\ seen' = now
      BY <2>4 DEF Live
    <3>2. Renewed(previous)
      BY <1>0, <2>1, <2>3, <2>4 DEF ReadInv, Renewed, Records, Record
    <3>3. previous.till = previous.checked + PreviousTTL
      BY <3>2 DEF Renewed, TypeInv
    <3>4. previous.checked \in Nat
      BY DEF TypeInv, Record
    <3>5. SeenInv'
      BY <2>1, <3>1, <3>2, <3>3, <3>4 DEF SeenInv, Renewed
    <3>6. ReadInv'
      BY <1>0, <2>1, <2>2, <3>1 DEF ReadInv, Renewed
    <3>. QED  BY <3>5, <3>6
  <2>5. CASE Live(c, check[c]) /\ Records(check[c])
    <3>1. previous' = [active |-> TRUE, checked |-> now, till |-> now + PreviousTTL] /\ seen' = now
      BY <1>00, <2>5 DEF Live, SetPrevious
    <3>. QED  BY <2>1, <3>1 DEF SeenInv, ReadInv, Renewed
  <2>6. CASE UseGrace(c, check[c]) \/ (Default(c, check[c]) /\ check[c].answer = "expired")
    BY <1>0, <2>1, <2>2, <2>6, GraceKeeps DEF UseGrace, Default
  <2>7. CASE Default(c, check[c]) /\ check[c].answer # "expired"
    <3>1. /\ previous' = [active |-> FALSE, checked |-> now, till |-> now + PreviousTTL]
          /\ seen' = seen /\ check[c].record = previous /\ ~InGrace(check[c])
      BY <1>00, <2>7 DEF Default, SetPrevious
    <3>2. previous.checked \in Nat /\ (previous.active => now - previous.checked >= Grace)
      BY <2>1, <2>3, <3>1 DEF InGrace, Record
    <3>3. SeenInv'
      BY <1>0, <2>1, <3>1, <3>2 DEF SeenInv
    <3>4. ~Renewed(previous)
      BY <2>1, <3>2 DEF Renewed
    <3>5. ReadInv'
      BY <1>0, <2>1, <2>2, <3>4 DEF ReadInv, Renewed
    <3>. QED  BY <3>3, <3>5
  <2>. QED  BY <1>11, <2>4, <2>5, <2>6, <2>7 DEF Compute
<1>12. ASSUME NEW p \in Instances, Restart(p) PROVE SeenInv' /\ ReadInv'
  <2>1. \A d \in Checks : check'[d].at = "compute" => check'[d] = check[d]
    BY <1>12, IdleType DEF Restart
  <2>. QED  BY <1>0, <1>12, <2>1, GraceKeeps DEF Restart, redis, history
<1>. QED  BY <1>1, <1>2, <1>4, <1>5, <1>6, <1>8, <1>9, <1>10, <1>11, <1>12 DEF Next, Continue

LEMMA GraceHolds == Spec => []GraceInv
BY TypesHold, InitGrace, GraceStep, PTL DEF Spec

(* Only a verdict by default denies the license.                           *)
LEMMA OnlyDefaultDenies ==
  ASSUME TypeInv, Next, NEW c \in Checks, Denies(c), check'[c] = Idle
  PROVE  Default(c, check[c])
<1>1. check[c].at = "compute" /\ check[c] # Idle /\ check'[c] # check[c]
  BY IdleType DEF Denies
<1>2. ASSUME NEW d \in Checks, Ask(d) \/ Recheck(d) \/ Continue(d) PROVE d = c
  <2>1. \A e \in Checks \ {d} : check'[e] = check[e]
    BY <1>2 DEF TypeInv, Ask, Recheck, Continue, TryLock, Poll, Fetch, Store, Previous, Compute,
                Hit, GivesUp, Become, Go
  <2>. QED  BY <1>1, <2>1
<1>3. ASSUME NEW p \in Instances, Restart(p) PROVE FALSE
  <2>1. c[1] = p
    BY <1>1, <1>3 DEF Restart
  <2>. QED  BY <1>3, <2>1 DEF Restart, Denies, NoMemory, TypeInv
<1>4. ~Tick /\ ~Forget /\ ~Change
  BY <1>1 DEF Tick, Forget, Change, history
<1>5. Compute(c)
  BY <1>1, <1>2, <1>3, <1>4 DEF Next, Continue, Ask, Recheck, TryLock, Poll, Fetch, Store, Previous
<1>6. ASSUME NEW a, Remember(c, a, TRUE) PROVE FALSE
  BY <1>6, CheckParts DEF Remember, Denies, TypeInv
<1>. QED  BY <1>5, <1>6 DEF Compute, Live, UseGrace

(* The grace period is given in full: no restart, recheck or other         *)
(* instance withdraws the license before, unless a call to Redis fails or  *)
(* another check comes between the record and the verdict.                 *)
THEOREM GraceIsKept == Spec => GraceKept
<1>. DEFINE Kept == \A c \in Checks :
                      Denies(c) /\ check'[c] = Idle =>
                        \/ failed \/ raced \/ check[c].record # previous
                        \/ seen = 0 \/ now + Refresh >= seen + Grace
<1>1. TypeInv /\ GraceInv /\ [Next]_vars => [Kept]_vars
  <2>. SUFFICES ASSUME TypeInv, GraceInv, Next, NEW c \in Checks, Denies(c), check'[c] = Idle,
                       ~failed, ~raced, check[c].record = previous
                PROVE  seen = 0 \/ now + Refresh >= seen + Grace
    OBVIOUS
  <2>1. Default(c, check[c])
    BY OnlyDefaultDenies
  <2>2. previous.active => now - previous.checked >= Grace
    BY <2>1, Times DEF Default, InGrace, TypeInv, Record
  <2>. QED  BY <2>2, Times DEF GraceInv, SeenInv, TypeInv, Record
<1>. QED  BY <1>1, GraceHolds, TypesHold, PTL DEF Spec, GraceKept
=============================================================================
