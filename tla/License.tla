------------------------------- MODULE License -------------------------------
(***************************************************************************)
(* The enterprise license of a self-hosted installation, as its instances  *)
(* see it (apps/web/modules/ee/license-check): the license service is      *)
(* asked, its answer is kept in Redis for all of them and the outcome in   *)
(* the memory of each; a license that was active lives on for a grace      *)
(* period when the service cannot be reached.  A manager's recheck asks    *)
(* again at once.                                                          *)
(*                                                                         *)
(* A step is what a check does between two awaits; the last write to Redis *)
(* and what follows it are one step.  Time is counted in units that are    *)
(* long against a check and a lock, so that it stands still while a check  *)
(* is under way; memories and locks, which last minutes, are gone by then. *)
(***************************************************************************)
EXTENDS Naturals, TLC

CONSTANTS
  Instances,
  FetchTTL, FailedTTL, PreviousTTL,            (* of the keys in Redis     *)
  Grace,                                       (* GRACE_PERIOD_MS          *)
  Refresh,                                     (* the hour after which the *)
                                               (* record is written anew   *)
  MaxTime, MaxEvents                           (* bounds of the model      *)

ASSUME TimesAssumption ==
  /\ {FetchTTL, FailedTTL, PreviousTTL, Grace} \subseteq Nat \ {0}
  /\ Refresh \in Nat /\ Refresh < Grace /\ FailedTTL <= FetchTTL
  /\ Grace < PreviousTTL                       (* validateConfig           *)
ASSUME BoundsAssumption == MaxTime \in Nat \ {0} /\ MaxEvents \in Nat

VARIABLES
  now, service,         (* what the license service would answer           *)
  fetched,              (* FETCH_LICENSE_CACHE_KEY: an answer, and till when *)
  previous,             (* PREVIOUS_RESULT_CACHE_KEY                       *)
  lock,                 (* FETCH_LOCK_CACHE_KEY: is it held?               *)
  memory,               (* memoryCache of each instance                    *)
  check,                (* the checks: the await each is at, what it holds *)
  events,               (* changes of the service, rechecks, restarts and  *)
                        (* failed calls to Redis, counted                  *)
  failed,               (* has a call to Redis failed?                     *)
  said,                 (* when the service last gave each answer          *)
  seen,                 (* when a check last found the license active      *)
  raced                 (* a failure was recorded over a record that its   *)
                        (* check had not read                              *)

redis   == <<fetched, previous, lock>>
history == <<said, seen, raced>>
vars    == <<now, service, redis, memory, check, events, failed, history>>

Kinds  == {"request", "recheck"}     \* getEnterpriseLicense, recheckLicenseAction
Checks == Instances \X Kinds
Other(c) == <<c[1], IF c[2] = "request" THEN "recheck" ELSE "request">>

Answer  == {"active", "expired", "unreachable"}    \* "unreachable" for null
Service == Answer \cup {"refused"}                 \* 400 or 403
At      == {"idle", "lock", "poll", "fetch", "store", "previous", "compute"}

NoFetch  == [value |-> "unreachable", till |-> 0]
NoRecord == [active |-> FALSE, checked |-> 0, till |-> 0]
NoMemory == [status |-> "none", active |-> FALSE]

(* record is previousResult, keeps says whether the answer goes to Redis.   *)
Idle == [at |-> "idle", answer |-> "unreachable", keeps |-> FALSE, record |-> NoRecord]
-----------------------------------------------------------------------------
Event == events < MaxEvents /\ events' = events + 1
NoFault == UNCHANGED <<events, failed>>
Fault == Event /\ failed' = TRUE

Become(c, state) == check' = [check EXCEPT ![c] = state]
Go(c, to) == check' = [check EXCEPT ![c].at = to]

Remember(c, status, active) ==
  memory' = [memory EXCEPT ![c[1]] = [status |-> status, active |-> active]]

(* getCachedLicense: the key, or undefined if it is missing or Redis fails. *)
Hit(c) ==
  /\ fetched # NoFetch
  /\ Become(c, [check[c] EXCEPT !.at = "previous", !.answer = fetched.value])
  /\ NoFault

Miss == \/ fetched = NoFetch /\ NoFault
        \/ Fault

(* A request that finds nothing in memory.                                 *)
Ask(c) ==
  /\ c[2] = "request" /\ check[c] = Idle /\ memory[c[1]] = NoMemory
  /\ Hit(c) \/ (Miss /\ Go(c, "lock"))
  /\ UNCHANGED <<now, service, redis, memory, history>>

(* clearLicenseCache; the previous result stays.                           *)
Clear == fetched' = NoFetch /\ UNCHANGED previous

Recheck(c) ==
  /\ c[2] = "recheck" /\ check[c] = Idle
  /\ memory' = [memory EXCEPT ![c[1]] = NoMemory]
  /\ \/ Clear /\ Event /\ UNCHANGED failed
     \/ Fault /\ UNCHANGED <<fetched, previous>>
  /\ Become(c, [Idle EXCEPT !.at = "fetch", !.keeps = TRUE])
  /\ UNCHANGED <<now, service, lock, history>>

TryLock(c) ==
  /\ check[c].at = "lock"
  /\ \/ /\ ~lock /\ lock' = TRUE
        /\ Become(c, [check[c] EXCEPT !.at = "fetch", !.keeps = TRUE])
        /\ NoFault
     \/ lock /\ Go(c, "poll") /\ UNCHANGED lock /\ NoFault
     \/ Fault /\ Go(c, "fetch") /\ UNCHANGED lock
  /\ UNCHANGED <<now, service, fetched, previous, memory, history>>

GivesUp(c) ==
  Miss /\ Become(c, [check[c] EXCEPT !.at = "fetch", !.keeps = TRUE])

(* Until the value is there, or for two seconds.                           *)
Poll(c) ==
  /\ check[c].at = "poll"
  /\ Hit(c) \/ GivesUp(c)
  /\ UNCHANGED <<now, service, redis, memory, history>>

(* The answer to fetchLicenseFromServerInternal.  A refusal is thrown: it  *)
(* ends the check, and only getEnterpriseLicense remembers it.             *)
Fetch(c) ==
  /\ check[c].at = "fetch"
  /\ \/ /\ service = "refused"
        /\ IF c[2] = "request" THEN Remember(c, "refused", FALSE) ELSE UNCHANGED memory
        /\ Become(c, Idle) /\ UNCHANGED said
     \/ /\ service # "refused"
        /\ Become(c, [check[c] EXCEPT !.answer = service,
                                      !.keeps = FALSE,
                                      !.at = IF check[c].keeps THEN "store" ELSE "previous"])
        /\ said' = [said EXCEPT ![service] = now]
        /\ UNCHANGED memory
  /\ UNCHANGED <<now, service, redis, events, failed, seen, raced>>

AlwaysLong(a) == FetchTTL                                           \* mutant
LastsLong(a) == PreviousTTL                                        \* mutant
TTL(a) == IF a = "unreachable" THEN FailedTTL ELSE FetchTTL

Store(c) ==
  /\ check[c].at = "store"
  /\ \/ /\ fetched' = [value |-> check[c].answer, till |-> now + TTL(check[c].answer)]
        /\ NoFault
     \/ Fault /\ UNCHANGED fetched
  /\ Go(c, "previous")
  /\ UNCHANGED <<now, service, previous, lock, memory, history>>

(* getPreviousResult, which joins a read under way in the same instance.    *)
Previous(c) ==
  /\ check[c].at = "previous"
  /\ \/ Become(c, [check[c] EXCEPT !.at = "compute", !.record = previous])
        /\ NoFault
     \/ /\ check[Other(c)].at = "compute"
        /\ Become(c, [check[c] EXCEPT !.at = "compute",
                                      !.record = check[Other(c)].record])
        /\ NoFault
     \/ Go(c, "compute") /\ Fault
  /\ memory' = IF c[2] = "recheck" THEN [memory EXCEPT ![c[1]] = NoMemory] ELSE memory
  /\ UNCHANGED <<now, service, redis, history>>

EndlessGrace(s) == s.record.active                                 \* mutant
InGrace(s) == s.record.active /\ now - s.record.checked < Grace

RecordsOnce(s) == ~s.record.active                                 \* mutant
Records(s) == ~s.record.active \/ now - s.record.checked > Refresh

(* setPreviousResult                                                       *)
SetPrevious(active) ==
  \/ /\ previous' = [active |-> active, checked |-> now, till |-> now + PreviousTTL]
     /\ NoFault
  \/ Fault /\ UNCHANGED previous

Live(c, s) ==
  /\ s.answer = "active"
  /\ IF Records(s) THEN SetPrevious(TRUE) ELSE UNCHANGED <<previous, events, failed>>
  /\ Remember(c, "active", TRUE)
  /\ seen' = now
  /\ UNCHANGED raced

UseGrace(c, s) ==
  /\ s.answer # "active" /\ InGrace(s)
  /\ Remember(c, s.answer, TRUE)
  /\ UNCHANGED <<previous, events, failed, seen, raced>>

(* handleInitialFailure, unless the license has expired.                   *)
Default(c, s) ==
  /\ s.answer # "active" /\ ~InGrace(s)
  /\ IF s.answer = "expired" THEN UNCHANGED <<previous, events, failed, raced>>
     ELSE /\ SetPrevious(FALSE)
          /\ raced' = (raced \/ s.record # previous)
  /\ Remember(c, s.answer, FALSE)
  /\ UNCHANGED seen

Compute(c) ==
  /\ check[c].at = "compute"
  /\ Live(c, check[c]) \/ UseGrace(c, check[c]) \/ Default(c, check[c])
  /\ Become(c, Idle)
  /\ UNCHANGED <<now, service, fetched, lock, said>>

-----------------------------------------------------------------------------
(* What Redis and the memory no longer hold is forgotten.                  *)
Tick ==
  /\ now < MaxTime /\ now' = now + 1
  /\ \A c \in Checks : check[c] = Idle
  /\ fetched' = IF fetched.till <= now' THEN NoFetch ELSE fetched
  /\ previous' = IF previous.till <= now' THEN NoRecord ELSE previous
  /\ lock' = FALSE /\ memory' = [p \in Instances |-> NoMemory]
  /\ UNCHANGED <<service, check, events, failed, history>>

(* A minute passes; the lock outlasts the request it was taken for.        *)
Forget ==
  /\ \/ \E p \in Instances : /\ memory[p] # NoMemory
                             /\ memory' = [memory EXCEPT ![p] = NoMemory]
                             /\ UNCHANGED lock
     \/ lock /\ lock' = FALSE /\ UNCHANGED memory
  /\ UNCHANGED <<now, service, fetched, previous, check, events, failed, history>>

Change ==
  /\ Event /\ UNCHANGED failed
  /\ service' \in Service \ {service}
  /\ UNCHANGED <<now, redis, memory, check, history>>

(* An instance is restarted.                                               *)
Restart(p) ==
  /\ Event /\ UNCHANGED failed
  /\ memory' = [memory EXCEPT ![p] = NoMemory]
  /\ check' = [c \in Checks |-> IF c[1] = p THEN Idle ELSE check[c]]
  /\ UNCHANGED <<now, service, redis, history>>

(* A license key is put in.  What the service says of it may change before *)
(* it is asked.                                                            *)
Init ==
  /\ now = 1 /\ service = "active"
  /\ fetched = NoFetch /\ previous = NoRecord /\ lock = FALSE
  /\ memory = [p \in Instances |-> NoMemory]
  /\ check = [c \in Checks |-> Idle]
  /\ events = 0 /\ failed = FALSE
  /\ said = [a \in Answer |-> 0] /\ seen = 0 /\ raced = FALSE

Continue(c) == TryLock(c) \/ Poll(c) \/ Fetch(c) \/ Store(c) \/ Previous(c) \/ Compute(c)

Next ==
  \/ Tick \/ Forget \/ Change
  \/ \E c \in Checks : Ask(c) \/ Recheck(c) \/ Continue(c)
  \/ \E p \in Instances : Restart(p)

Spec == Init /\ [][Next]_vars

-----------------------------------------------------------------------------
(* Type correctness.  Nothing outlives its lifetime.                       *)
TypeOK ==
  /\ now \in 1 .. MaxTime /\ service \in Service
  /\ fetched.value \in Answer /\ fetched.till \in 0 .. now + FetchTTL
  /\ previous.active \in BOOLEAN /\ previous.checked \in 0 .. now
  /\ previous.till \in 0 .. now + PreviousTTL
  /\ lock \in BOOLEAN
  /\ \A p \in Instances : /\ memory[p].status \in Service \cup {"none"}
                          /\ memory[p].active \in BOOLEAN
  /\ \A c \in Checks : /\ check[c].at \in At /\ check[c].answer \in Answer
                       /\ check[c].record.checked <= now

(* Enterprise features end: an instance takes the license for active only  *)
(* if the service has said so, and no longer than an answer is kept and    *)
(* the grace period lasts.  Answers, records and memories follow one       *)
(* another, and each must not restart the clock of the one before.         *)
NoFreeLicense ==
  \A p \in Instances :
    memory[p].active => said["active"] > 0 /\ now < said["active"] + FetchTTL + Grace

(* License-activation.mdx, line 38: "a 3-day grace period".  A check never *)
(* finds a license inactive within the grace period of the last check that *)
(* found it active, less the hour for which the record is not renewed.  It *)
(* may if a call to Redis failed, if another check wrote the record after  *)
(* this one had read it, or if that has happened before and the write was  *)
(* lost.  Restarts, rechecks and several instances do not matter.          *)
Denies(c) ==
  /\ check[c].at = "compute"
  /\ memory'[c[1]].status \in {"expired", "unreachable"} /\ ~memory'[c[1]].active
GraceKept ==
  [][\A c \in Checks :
       Denies(c) /\ check'[c] = Idle =>
         \/ failed \/ raced \/ check[c].record # previous
         \/ seen = 0 \/ now + Refresh >= seen + Grace]_vars

(* What an instance says of the license is what the service said within    *)
(* the lifetime of that answer, which for no answer is ten minutes: two    *)
(* instances that both cache it do not pass it back and forth.             *)
StatusIsRecent ==
  \A p \in Instances :
    LET s == memory[p].status IN
      s \in Answer =>
        now < said[s] + (IF s = "unreachable" THEN FailedTTL ELSE FetchTTL)

Alike == Permutations(Instances)
=============================================================================
