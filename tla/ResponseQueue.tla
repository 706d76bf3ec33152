---------------------------- MODULE ResponseQueue ----------------------------
(***************************************************************************)
(* The client's delivery of survey answers: class ResponseQueue of         *)
(* packages/surveys/src/lib/response-queue.ts, the IndexedDB store of      *)
(* pending responses it writes through, the part of survey.tsx that drives *)
(* it, and the server's response endpoints as far as a reply depends on    *)
(* what was stored before.                                                 *)
(*                                                                         *)
(* JavaScript runs one task at a time, so a step of the model is the code  *)
(* between two awaits.  A suspended async function is a frame: the await   *)
(* it is at and the locals it needs afterwards.  Frames waiting for        *)
(* IndexedDB are in dbq, which is first-in first-out because transactions  *)
(* on one object store are; frames waiting for the network or for a        *)
(* back-off timer are in net, in no particular order.                      *)
(*                                                                         *)
(* An answer is a natural number: the n-th answer the respondent submits   *)
(* in this page.  The answer MaxItems finishes the survey.                 *)
(***************************************************************************)
EXTENDS Naturals, FiniteSets, SequencesExt

CONSTANTS
  MaxItems,     (* answers the respondent can submit                       *)
  MaxInsts,     (* ResponseQueue objects the component can create          *)
  MaxResp,      (* responses the server stores (bounds the model)          *)
  MaxEffects,   (* calls of syncPending waiting at a time (bounds it too)  *)
  Retries,      (* config.retryAttempts                                    *)
  Persist,      (* config.persistOffline                                   *)
  LostReplies,  (* a request may be committed and its reply be an error    *)
  Refuses,      (* the server may refuse a request that is in order: rate  *)
                (* limit, spam check, validation                           *)
  DbFaults,     (* IndexedDB requests may fail                             *)
  Deletions     (* stored responses may be deleted in the dashboard        *)

ASSUME BoundsAssumption ==
  /\ MaxItems \in Nat \ {0} /\ MaxInsts \in Nat \ {0}
  /\ MaxResp \in Nat \ {0}  /\ Retries \in Nat \ {0}
  /\ MaxEffects \in Nat \ {0}
ASSUME ModeAssumption ==
  /\ Persist \in BOOLEAN    /\ LostReplies \in BOOLEAN
  /\ DbFaults \in BOOLEAN   /\ Deletions \in BOOLEAN
  /\ Refuses \in BOOLEAN

VARIABLES
  queue,     (* queue[i]: the in-memory queue of instance i                *)
  known,     (* the answers that are keys of some instance's pendingDbIds  *)
  cur,       (* the instance the component currently holds                 *)
  syncing,   (* syncingBySurvey.get(surveyId)                              *)
  busy,      (* requestInProgressBySurvey.get(surveyId)                    *)
  syncRef,   (* survey.tsx: isSyncingRef.current                           *)
  rid,       (* surveyState.responseId, 0 for null                         *)
  disp,      (* surveyState.displayId, 0 for null                          *)
  boot,      (* surveyState.shouldCreateResponseFromState                  *)
  acc,       (* the answers accumulated in surveyState.responseAcc         *)
  next,      (* the number of the next answer                              *)
  online,    (* navigator.onLine                                           *)
  err,       (* survey.tsx: errorType while showError is set               *)
  ended,     (* survey.tsx: the survey was ended by onQuotaFull            *)
  finished,  (* survey.tsx: isResponseSendingFinished                      *)
  idb,       (* the pending responses of this survey, a set: an entry is   *)
             (* created once per answer and createdAt grows with it        *)
  dbq,       (* frames awaiting IndexedDB                                  *)
  net,       (* frames awaiting a reply or a timer                         *)
  srv,       (* the responses the server has stored                        *)
  stale      (* answers removed from idb after a 4xx reply                 *)

local  == <<queue, known, cur, rid, disp, boot, acc, next>>
ui     == <<err, ended, finished>>
locks  == <<syncing, busy>>
remote == <<idb, srv>>
vars   == <<queue, known, cur, syncing, busy, syncRef, rid, disp, boot, acc,
            next, online, err, ended, finished, idb, dbq, net, srv, stale>>

Items    == 1 .. MaxItems
Insts    == 1 .. MaxInsts
Display  == 1          \* the display this page registers
RespIds  == 0 .. MaxResp

\* PendingResponseEntry: the answer and the two fields of its snapshot that
\* syncPersistedResponses reads.
Entry == [item : Items, rid : RespIds, disp : {0, Display}]

DbAwaits  == {"add", "count", "pcount", "get", "del", "syncdel"}
NetAwaits == {"pq", "sync"}
Refusals  == {"recaptcha", "4xx", "404"}     \* status 400 to 499
Replies   == {"ok", "quota", "5xx", "neterr"} \cup Refusals

Frame == [at    : DbAwaits \cup NetAwaits,
          inst  : Insts,                   \* this
          item  : Items \cup {0},          \* the answer being written or sent
          rid   : RespIds,                 \* response addressed, 0 to create
          new   : RespIds,                 \* the id in the reply to a create
          disp  : {0, Display},
          data  : SUBSET Items,            \* the answers in the request
          st    : Replies \cup {"wire", "timer", "none"},
          att   : Nat,                     \* attempts
          user  : BOOLEAN,                 \* called by retryResponse
          eff   : BOOLEAN,                 \* called by syncPending
          some  : BOOLEAN,                 \* syncedCount > 0
          len   : Nat,                     \* queueLengthBeforeSync
          rest  : SUBSET Entry]            \* entries left, the current included

Await(at, i) ==
  [at |-> at, inst |-> i, item |-> 0, rid |-> 0, new |-> 0, disp |-> 0, data |-> {},
   st |-> "none", att |-> 0, user |-> FALSE, eff |-> FALSE, some |-> FALSE,
   len |-> 0, rest |-> {}]

\* the fields a suspended call has set by the time it waits
DbFrame  == {f \in Frame : f.at \in DbAwaits /\ (f.at = "add" => f.item \in Items)}
NetFrame == {f \in Frame : /\ f.at \in NetAwaits /\ f.item \in Items
                           /\ f.at = "sync" => f.rest # {}}

Response == [disp : {0, Display}, got : SUBSET Items,
             fin : BOOLEAN, gone : BOOLEAN]

-----------------------------------------------------------------------------
(* sendResponse: an update of responseId when there is one, else a create  *)
(* of the answer, or of the accumulated response after a bootstrap.        *)
Sending(f, x, r, d) ==
  [f EXCEPT !.item = x, !.rid = r, !.new = 0, !.disp = d,
            !.data = IF r = 0 /\ boot THEN acc ELSE {x},
            !.st   = IF online THEN "wire" ELSE "neterr"]

(* The guards of processQueue for instance i, with queues q and locks b, s *)
MayProcess(i, q, b, s) ==
  /\ ~b /\ q[i] # <<>>
  /\ Persist => online
  /\ ~s

(* The synchronous part of processQueue, called when the frames D and T    *)
(* wait.  Without persistence it goes on to send the head of the queue.    *)
ProcessQueue(i, q, b, s, D, T, u) ==
  LET go == MayProcess(i, q, b, s) IN
  /\ dbq' = IF go /\ Persist
              THEN Append(D, [Await("count", i) EXCEPT !.user = u]) ELSE D
  /\ net' = IF go /\ ~Persist
              THEN Append(T, Sending([Await("pq", i) EXCEPT !.user = u],
                                     Head(q[i]), rid', disp))
              ELSE T
  /\ busy' = (b \/ (go /\ ~Persist))

(* The guards of syncPersistedResponses and what it does up to its first   *)
(* await; e tells that syncPending made the call and awaits it.            *)
MayStartSyncBesideRequest == ~syncing                              \* mutant

MayStartSync == ~syncing /\ ~busy

StartSync(i, D, e) ==
  LET go == MayStartSync IN
  /\ syncing' = (syncing \/ go)
  /\ dbq' = IF go THEN Append(D, [Await("get", i) EXCEPT !.eff = e]) ELSE D
  /\ syncRef' = (syncRef /\ (e => go))

(* The effect of survey.tsx that starts syncPending for instance i.        *)
RunEffect(i) ==
  LET go == Persist /\ online' /\ ~syncRef IN
  /\ Cardinality({k \in DOMAIN dbq : dbq[k].at = "pcount"}) < MaxEffects
  /\ dbq' = IF go THEN Append(dbq, [Await("pcount", i) EXCEPT !.eff = TRUE])
                  ELSE dbq
  /\ syncRef' = (syncRef \/ go)

(* onSubmit: whether an answer is the last one of the survey.              *)
FinishingEarly(x) == x >= MaxItems - 1                             \* mutant

Finishing(x) == x = MaxItems

(* survey.tsx: offline, a completed survey counts as sent.                 *)
OfflineFinish(on, n) == Persist /\ ~on /\ (n > MaxItems \/ ended)

-----------------------------------------------------------------------------
Init ==
  /\ queue = [i \in Insts |-> <<>>] /\ known = {} /\ cur = 1
  /\ syncing = FALSE /\ busy = FALSE /\ syncRef = FALSE
  /\ rid = 0 /\ disp = 0
  \* a fresh session, or with persistence one restored after k answers
  \* whose response the server does not know
  /\ \E k \in 0 .. MaxItems - 1 :
       /\ k > 0 => Persist
       /\ acc = 1 .. k /\ boot = (k > 0) /\ next = k + 1
  /\ online \in BOOLEAN
  /\ err = "none" /\ ended = FALSE /\ finished = FALSE
  /\ idb = {} /\ dbq = <<>> /\ net = <<>> /\ srv = <<>> /\ stale = {}

(* onSubmit, onResponseCreateOrUpdate and add: the answer is accumulated,  *)
(* queued, and either written to IndexedDB first or processed at once.     *)
Submit ==
  /\ next <= MaxItems /\ err = "none" /\ ~ended
  /\ next' = next + 1
  /\ acc' = acc \cup {next}
  /\ queue' = [queue EXCEPT ![cur] = Append(@, next)]
  /\ IF Persist
       THEN /\ dbq' = Append(dbq, [Await("add", cur) EXCEPT
                                     !.item = next, !.rid = rid, !.disp = disp])
            /\ UNCHANGED <<rid, net, busy>>
       ELSE /\ rid' = rid
            /\ ProcessQueue(cur, queue', busy, syncing, dbq, net, FALSE)
  /\ finished' = (finished \/ OfflineFinish(online, next'))
  /\ UNCHANGED <<known, cur, syncing, syncRef, disp, boot, online, err, ended,
                 remote, stale>>

(* retryResponse: the button of the error card, disabled while the call it *)
(* made has not returned (isRetrying).                                     *)
UserRetry ==
  /\ err = "send"
  /\ \A k \in DOMAIN dbq : ~dbq[k].user
  /\ \A k \in DOMAIN net : ~net[k].user
  /\ rid' = rid
  /\ ProcessQueue(cur, queue, busy, syncing, dbq, net, TRUE)
  /\ UNCHANGED <<queue, known, cur, syncing, syncRef, disp, boot, acc, next,
                 online, ui, remote, stale>>

(* createDisplay succeeds; while it has not, displayId is null.            *)
DisplayCreated ==
  /\ disp = 0
  /\ disp' = Display
  /\ UNCHANGED <<queue, known, cur, locks, syncRef, rid, boot, acc, next,
                 online, ui, dbq, net, remote, stale>>

(* The browser goes offline or comes back; survey.tsx reacts to both.      *)
GoOffline ==
  /\ online
  /\ online' = FALSE
  /\ syncRef' = (syncRef /\ ~Persist)
  /\ finished' = (finished \/ OfflineFinish(FALSE, next))
  /\ UNCHANGED <<local, locks, err, ended, dbq, net, remote, stale>>

GoOnline ==
  /\ ~online
  /\ online' = TRUE
  /\ RunEffect(cur)
  /\ UNCHANGED <<local, locks, ui, net, remote, stale>>

(* useMemo recomputes: a new instance replaces the current one and the     *)
(* effect runs again.  The old instance's suspended calls go on.           *)
Recreate ==
  /\ cur < MaxInsts
  /\ cur' = cur + 1
  /\ online' = online
  /\ RunEffect(cur')
  /\ UNCHANGED <<queue, known, locks, rid, disp, boot, acc, next, ui, net,
                 remote, stale>>

-----------------------------------------------------------------------------
(* IndexedDB answers the oldest request.  A request may fail in two ways:  *)
(* the database cannot be opened (the storage function logs it and returns *)
(* its default) or the request itself errs (the promise is rejected).      *)
DbOutcomes == IF DbFaults THEN {"done", "default", "rejected"} ELSE {"done"}

DbAnswers(at) == dbq # <<>> /\ Head(dbq).at = at

(* addPendingResponse(...).then(...)                                       *)
AddDone ==
  LET f == Head(dbq) IN
  /\ DbAnswers("add")
  /\ \E o \in DbOutcomes :
       /\ idb' = IF o = "done"
                    THEN idb \cup {[item |-> f.item, rid |-> f.rid, disp |-> f.disp]}
                    ELSE idb
       /\ known' = IF o = "done" THEN known \cup {f.item} ELSE known
       /\ rid' = rid
       /\ IF o = "rejected"
            THEN dbq' = Tail(dbq) /\ UNCHANGED <<net, busy>>
            ELSE ProcessQueue(f.inst, queue, busy, syncing, Tail(dbq), net, FALSE)
  /\ UNCHANGED <<queue, cur, syncing, syncRef, disp, boot, acc, next, online,
                 ui, srv, stale>>

(* processQueue after countPendingResponses: the guards are read again.    *)
OvertakenUnlessSynced(i) == queue[i] = <<>>                        \* mutant

Overtaken(i) == syncing \/ busy \/ queue[i] = <<>>

CountDone ==
  LET f == Head(dbq) IN
  /\ DbAnswers("count")
  /\ \E o \in DbOutcomes :
       LET stop == o = "rejected" \/ Overtaken(f.inst)
           many == o = "done" /\ \E x, y \in idb : x # y
       IN
       \/ /\ stop
          /\ dbq' = Tail(dbq)
          /\ UNCHANGED <<busy, syncing, syncRef, net>>
       \/ /\ ~stop /\ many
          /\ StartSync(f.inst, Tail(dbq), FALSE)
          /\ UNCHANGED <<busy, net>>
       \/ /\ ~stop /\ ~many
          /\ busy' = TRUE
          /\ net' = Append(net, Sending([Await("pq", f.inst) EXCEPT !.user = f.user],
                                        Head(queue[f.inst]), rid, disp))
          /\ dbq' = Tail(dbq)
          /\ UNCHANGED <<syncing, syncRef>>
  /\ UNCHANGED <<local, online, ui, remote, stale>>

(* syncPending after getPendingCount.                                      *)
PendingCountDone ==
  LET f == Head(dbq) IN
  /\ DbAnswers("pcount")
  /\ \E o \in DbOutcomes :
       IF o = "done" /\ idb # {}
         THEN StartSync(f.inst, Tail(dbq), TRUE)
         ELSE /\ syncRef' = FALSE
              /\ dbq' = Tail(dbq)
              /\ UNCHANGED syncing
  /\ UNCHANGED <<local, busy, online, ui, net, remote, stale>>

(* removePendingResponse, called without await by processQueue.            *)
WithoutAny(x) == {}                                                \* mutant

Without(x) == {e \in idb : e.item # x}

RemoveDone ==
  /\ DbAnswers("del")
  /\ \E o \in DbOutcomes :
       idb' = IF o = "done" THEN Without(Head(dbq).item) ELSE idb
  /\ dbq' = Tail(dbq)
  /\ UNCHANGED <<local, locks, syncRef, online, ui, net, srv, stale>>

-----------------------------------------------------------------------------
(* syncPersistedResponses: the loop over the entries, oldest first.        *)
Newest(S) == CHOOSE e \in S : \A o \in S : e.item >= o.item       \* mutant

Oldest(S) == CHOOSE e \in S : \A o \in S : e.item <= o.item

SendEntry(f, S, D) ==
  LET e == Oldest(S) IN
  /\ rid' = (IF e.rid # 0 THEN e.rid ELSE rid)
  /\ net' = Append(net, Sending([f EXCEPT !.at = "sync", !.rest = S],
                                e.item, rid', disp))
  /\ dbq' = D
  /\ UNCHANGED <<queue, known, busy, syncing, syncRef, finished>>

(* ... its end, by return or by an exception: the finally blocks run.      *)
EndSyncOnSuccess(f, success) ==                                    \* mutant
  /\ syncing' = (syncing /\ ~success)
  /\ syncRef' = (syncRef /\ ~f.eff)
  /\ finished' = (finished \/ (success /\ f.eff /\ f.some))

EndSync(f, success) ==
  /\ syncing' = FALSE
  /\ syncRef' = (syncRef /\ ~f.eff)
  /\ finished' = (finished \/ (success /\ f.eff /\ f.some))

(* ... and what follows the loop: the entries of the in-memory queue that  *)
(* were there before are cut off; processQueue still finds isSyncing set.  *)
CompleteSync(f, D) ==
  LET i == f.inst IN
  /\ queue' = [queue EXCEPT ![i] = SubSeq(@, f.len + 1, Len(@))]
  /\ known' = known \ {queue[i][j] : j \in 1 .. f.len}
  /\ rid' = rid
  /\ ProcessQueue(i, queue', busy, syncing, D, net, FALSE)
  /\ EndSync(f, TRUE)

GetDone ==
  LET f == Head(dbq) IN
  /\ DbAnswers("get")
  /\ \E o \in DbOutcomes :
       IF o = "done" /\ idb # {}
         THEN SendEntry([f EXCEPT !.len = Len(queue[f.inst])], idb, Tail(dbq))
         ELSE /\ EndSync(f, o # "rejected")
              /\ dbq' = Tail(dbq)
              /\ UNCHANGED <<queue, known, rid, net, busy>>
  /\ UNCHANGED <<cur, disp, boot, acc, next, online, err, ended, remote, stale>>

(* removePendingResponse, awaited in the loop.                             *)
SyncRemoveDone ==
  LET f == Head(dbq)
      S == {e \in f.rest : e.item # f.item}
  IN
  /\ DbAnswers("syncdel")
  /\ \E o \in DbOutcomes :
       /\ idb' = IF o = "done" THEN Without(f.item) ELSE idb
       /\ IF o = "rejected"
            THEN /\ EndSync(f, FALSE)
                 /\ dbq' = Tail(dbq)
                 /\ UNCHANGED <<queue, known, rid, net, busy>>
            ELSE IF S # {} THEN SendEntry(f, S, Tail(dbq))
                           ELSE CompleteSync(f, Tail(dbq))
  /\ UNCHANGED <<cur, disp, boot, acc, next, online, err, ended, srv, stale>>

-----------------------------------------------------------------------------
(* The server's answer to the request of frame k: POST .../responses for a *)
(* create, PUT .../responses/[responseId] for an update.  The stored       *)
(* response may be committed although the reply is a 5xx (the pipeline job *)
(* could not be enqueued) or never arrives.  full tells that the answers   *)
(* fill a quota whose action ends the survey: the server then finishes the *)
(* response itself, and the reply "quota" says so.                         *)
Stored(r) == r \in 1 .. Len(srv) /\ ~srv[r].gone

\* assertDisplayOwnership: the display has a response, or went with it
Linked(d) == d # 0 /\ \E r \in 1 .. Len(srv) : srv[r].disp = d

Committed == {"ok", "quota"} \cup (IF LostReplies THEN {"5xx", "neterr"} ELSE {})

Finishes(f) == \E x \in f.data : Finishing(x)

CommitCreate(f, full) ==
  /\ ~Linked(f.disp)
  /\ Len(srv) < MaxResp
  /\ srv' = Append(srv, [disp |-> f.disp, got |-> f.data,
                         fin  |-> full \/ Finishes(f), gone |-> FALSE])

CommitUpdate(f, full) ==
  /\ Stored(f.rid) /\ ~srv[f.rid].fin
  /\ srv' = [srv EXCEPT ![f.rid].got = @ \cup f.data,
                        ![f.rid].fin = full \/ Finishes(f)]

ServerReply(k) ==
  LET f == net[k]
      Reply(st, id) == net' = ReplaceAt(net, k, [f EXCEPT !.st = st, !.new = id])
  IN
  /\ f.st = "wire"
  /\ \/ \E st \in Committed, full \in BOOLEAN :
          /\ st \in {"ok", "quota"} => (full <=> st = "quota")
          /\ IF f.rid = 0 THEN CommitCreate(f, full) ELSE CommitUpdate(f, full)
          /\ Reply(st, IF f.rid = 0 /\ st \in {"ok", "quota"} THEN Len(srv') ELSE 0)
     \/ /\ f.rid # 0 /\ ~Stored(f.rid)
        /\ Reply("404", 0)
        /\ UNCHANGED srv
     \/ /\ IF f.rid = 0 THEN Linked(f.disp) ELSE Stored(f.rid) /\ srv[f.rid].fin
        /\ Reply("4xx", 0)
        /\ UNCHANGED srv
     \/ /\ Refuses
        /\ \E st \in {"4xx"} \cup (IF f.rid = 0 THEN {"recaptcha"} ELSE {}) :
             Reply(st, 0)
        /\ UNCHANGED srv
     \/ \E st \in {"5xx", "neterr"} : Reply(st, 0) /\ UNCHANGED srv
  /\ UNCHANGED <<local, locks, syncRef, online, ui, idb, dbq, stale>>

(* The dashboard deletes a response, and the display it is linked to.      *)
DeleteResponse ==
  /\ Deletions
  /\ \E r \in 1 .. Len(srv) :
       ~srv[r].gone /\ srv' = [srv EXCEPT ![r].gone = TRUE]
  /\ UNCHANGED <<local, locks, syncRef, online, ui, idb, dbq, net, stale>>

(* What sendResponse does with a successful reply.                         *)
Accepted(f) == f.st \in {"ok", "quota"}

Adopt(f) ==
  /\ rid'  = (IF Accepted(f) /\ f.rid = 0 THEN f.new ELSE rid)
  /\ boot' = (boot /\ ~(Accepted(f) /\ f.rid = 0))

Shift(s) == IF s = <<>> THEN s ELSE Tail(s)

(* sendResponseWithRetry and processQueue after a successful reply: the    *)
(* head of the queue is shifted off, its pending entry removed, the lock   *)
(* released and the queue processed again (handleSuccessfulResponse).      *)
PqAccepted(k) ==
  LET f == net[k]
      i == f.inst
  IN
  /\ f.at = "pq" /\ Accepted(f)
  /\ Adopt(f)
  /\ queue' = [queue EXCEPT ![i] = Shift(@)]
  /\ known' = known \ {f.item}
  /\ finished' = (finished \/ Finishing(f.item) \/ f.st = "quota")
  /\ err' = IF Finishing(f.item) \/ f.user THEN "none" ELSE err
  /\ ended' = (ended \/ f.st = "quota")
  /\ ProcessQueue(i, queue', FALSE, syncing,
                  IF f.item \in known
                    THEN Append(dbq, [Await("del", i) EXCEPT !.item = f.item])
                    ELSE dbq,
                  RemoveAt(net, k), FALSE)
  /\ UNCHANGED <<cur, syncing, syncRef, disp, acc, next, online, remote, stale>>

(* ... when all attempts failed or the spam check refused: the answer      *)
(* stays at the head of the queue and, unless offline with persistence,    *)
(* the error card is shown (handleFailedResponse).                         *)
GiveUpWithStatus(k, e) ==                                          \* mutant
  /\ busy' = FALSE
  /\ net' = RemoveAt(net, k)
  /\ err' = IF Persist /\ ~online THEN err ELSE net[k].st

GiveUpSilently(k, e) ==                                            \* mutant
  /\ busy' = FALSE
  /\ net' = RemoveAt(net, k)
  /\ err' = err

GiveUp(k, e) ==
  /\ busy' = FALSE
  /\ net' = RemoveAt(net, k)
  /\ err' = IF Persist /\ ~online THEN err ELSE e

PqRefused(k) ==
  /\ net[k].at = "pq"
  /\ \/ /\ net[k].st = "recaptcha"
        /\ GiveUp(k, "recaptcha")
     \/ /\ net[k].st \in Replies \ {"ok", "quota", "recaptcha"}
        /\ net' = ReplaceAt(net, k, [net[k] EXCEPT !.st = "timer"])
        /\ UNCHANGED <<busy, err>>
  /\ UNCHANGED <<local, syncing, syncRef, online, ended, finished, dbq, remote,
                 stale>>

(* ... and when the back-off delay is over.                                *)
BackoffEnds(k) ==
  LET f == [net[k] EXCEPT !.att = @ + 1] IN
  /\ net[k].at = "pq" /\ net[k].st = "timer"
  /\ IF f.att < Retries
       THEN /\ net' = ReplaceAt(net, k, Sending(f, f.item, rid, disp))
            /\ UNCHANGED <<busy, err>>
       ELSE GiveUp(k, "send")
  /\ UNCHANGED <<local, syncing, syncRef, online, ended, finished, dbq, remote,
                 stale>>

(* syncPersistedResponses after a reply: an accepted or refused entry is   *)
(* removed, a missing response is created afresh, once, and any other      *)
(* error stops the sync.                                                   *)
SyncReplied(k) ==
  LET f == net[k]
      e == Oldest(f.rest)
  IN
  /\ f.at = "sync" /\ f.st \in Replies
  /\ \/ /\ Accepted(f)
        /\ Adopt(f)
        /\ dbq' = Append(dbq, [f EXCEPT !.at = "syncdel", !.st = "none", !.some = TRUE])
        /\ net' = RemoveAt(net, k)
        /\ UNCHANGED <<disp, syncing, syncRef, finished, stale>>
     \/ /\ f.st = "404" /\ rid # 0
        /\ rid' = 0
        /\ disp' = (IF e.disp # 0 THEN e.disp ELSE disp)
        /\ net' = ReplaceAt(net, k, Sending(f, f.item, 0, disp'))
        /\ UNCHANGED <<boot, dbq, syncing, syncRef, finished, stale>>
     \/ /\ f.st \in Refusals /\ ~(f.st = "404" /\ rid # 0)
        /\ stale' = stale \cup {f.item}
        /\ dbq' = Append(dbq, [f EXCEPT !.at = "syncdel", !.st = "none"])
        /\ net' = RemoveAt(net, k)
        /\ UNCHANGED <<rid, boot, disp, syncing, syncRef, finished>>
     \/ /\ f.st \in {"5xx", "neterr"}
        /\ EndSync(f, FALSE)
        /\ net' = RemoveAt(net, k)
        /\ UNCHANGED <<rid, boot, disp, dbq, stale>>
  /\ UNCHANGED <<queue, known, cur, busy, acc, next, online, err, ended, remote>>

-----------------------------------------------------------------------------
DbStep  == \/ AddDone \/ CountDone \/ PendingCountDone \/ RemoveDone
           \/ GetDone \/ SyncRemoveDone

NetStep == \E k \in 1 .. Len(net) :
             \/ ServerReply(k) \/ PqAccepted(k) \/ PqRefused(k)
             \/ BackoffEnds(k) \/ SyncReplied(k)

UserStep == \/ Submit \/ UserRetry \/ Recreate

EnvStep == DisplayCreated \/ GoOffline \/ GoOnline \/ DeleteResponse

Next == DbStep \/ NetStep \/ UserStep \/ EnvStep

Spec == Init /\ [][Next]_vars

(* IndexedDB, fetch and timers call back in the end; nothing is assumed of *)
(* the respondent, the connection or the server's answers.                 *)
FairSpec == Spec /\ WF_vars(DbStep) /\ WF_vars(NetStep)

-----------------------------------------------------------------------------
\* everything but IndexedDB and the suspended calls
StateTyped ==
  /\ queue \in [Insts -> Seq(Items)] /\ known \subseteq Items /\ cur \in Insts
  /\ syncing \in BOOLEAN /\ busy \in BOOLEAN /\ syncRef \in BOOLEAN
  /\ rid \in RespIds /\ disp \in {0, Display}
  /\ boot \in BOOLEAN /\ acc \subseteq Items /\ next \in 1 .. MaxItems + 1
  /\ online \in BOOLEAN /\ err \in {"none", "send", "recaptcha"}
  /\ ended \in BOOLEAN /\ finished \in BOOLEAN /\ stale \subseteq Items
  /\ srv \in Seq(Response) /\ Len(srv) <= MaxResp

(* What a suspended call needs when it resumes is there: an answer to be   *)
(* stored or sent is one, and a sync that sends has an entry to send.      *)
TypeOK ==
  /\ StateTyped
  /\ idb \subseteq Entry /\ dbq \in Seq(DbFrame) /\ net \in Seq(NetFrame)

(* The two module-level locks exclude each other; each is held exactly     *)
(* while a call of its path is under way, and there is one such call per   *)
(* survey, with a request out or waiting to send again, across instances   *)
(* (response-queue.ts:36-40, 158-161, 224-231).                            *)
InSync(f)  == f.at \in {"get", "syncdel", "sync"}
SyncsIn(q) == {k \in DOMAIN q : InSync(q[k])}

OneSenderPerSurvey ==
  /\ ~(busy /\ syncing)
  /\ Len(net) <= 1
  /\ busy <=> \E k \in DOMAIN net : net[k].at = "pq"
  /\ syncing <=> SyncsIn(net) # {} \/ SyncsIn(dbq) # {}
  /\ SyncsIn(net) = {} \/ SyncsIn(dbq) = {}
  /\ \A j, k \in SyncsIn(dbq) : j = k

(* sendResponseWithRetry shifts the queue when it succeeds, whatever the   *)
(* head then is (line 310): the answer it has sent is still the head,      *)
(* although a sync may cut the queue and answers arrive in between.        *)
SentIsHead ==
  \A k \in DOMAIN net : net[k].at = "pq" =>
     /\ queue[net[k].inst] # <<>>
     /\ Head(queue[net[k].inst]) = net[k].item

(* An answer the respondent submitted is in memory, in IndexedDB or on its *)
(* way there, part of a stored response, refused by the server, or will be *)
(* part of the bootstrap create: no interleaving of the two sending paths  *)
(* forgets one.                                                            *)
Held(n) ==
  \/ \E i \in Insts : n \in ToSet(queue[i])
  \/ \E e \in idb : e.item = n
  \/ \E k \in DOMAIN dbq : dbq[k].at = "add" /\ dbq[k].item = n

Delivered(n) == \E r \in DOMAIN srv : n \in srv[r].got

NoAnswerForgotten ==
  \A n \in 1 .. next - 1 :
     Held(n) \/ Delivered(n) \/ n \in stale \/ (boot /\ n \in acc)

(* A response receives its answers in the order they were given.           *)
AppliedInOrder ==
  [][\A r \in DOMAIN srv : \A x \in srv'[r].got \ srv[r].got :
        \A y \in srv[r].got : y < x]_vars

(* As long as every reply arrives, one page creates one response, even     *)
(* when no display could be registered and processQueue, a sync and a      *)
(* second instance compete for the first answer (lines 151-154, 227-229).  *)
OneResponse == Len(srv) <= 1

(* Without persistence, the page says the response has been sent only when *)
(* the finishing answer is stored, or the server ended the survey.         *)
FinishedIsStored == finished => ended \/ Delivered(MaxItems)

(* Without persistence and with one instance, an answer is delivered or    *)
(* the respondent sees an error.                                           *)
DeliveredOrReported ==
  \A n \in Items : (n = next - 1 /\ ~boot) ~> (Delivered(n) \/ err # "none")

(* Both locks are always released: no failure, exception or early return   *)
(* leaves the survey unable to send (the finally block at 293-295).        *)
LocksReleased == /\ []<>~busy
                 /\ []<>~syncing
=============================================================================
