------------------------------ MODULE SdkQueues ------------------------------
(***************************************************************************)
(* The order in which calls of the browser SDK take effect: the command    *)
(* queue (packages/js-core/src/lib/common/command-queue.ts) runs them one  *)
(* at a time, and the update queue (user/update-queue.ts) collects what    *)
(* setUserId and setAttributes change, and sends it half a second later in *)
(* one request.  track and logout wait for that request.                   *)
(*                                                                         *)
(* A step is a JavaScript task: a call of the host page, a command, the    *)
(* debounce timer or a reply.  A command that does not await the network   *)
(* runs, and the next one with it, before any timer or reply is handled.   *)
(***************************************************************************)
EXTENDS Naturals, Sequences, FiniteSetsExt

CONSTANTS
  Users,      (* the user ids the page passes to setUserId                 *)
  LongIds,    (* those that are longer than 255 characters                 *)
  NoUser,     (* null, or the empty user id of updateAttributes            *)
  MaxCalls    (* calls the page makes (bounds the model)                   *)

ASSUME UsersAssumption == LongIds \subseteq Users /\ NoUser \notin Users
ASSUME CallsAssumption == MaxCalls \in Nat

VARIABLES
  calls,      (* the number of calls made: a call is known by its number   *)
  cmds,       (* CommandQueue.queue                                        *)
  at,         (* what CommandQueue.run awaits, or "loop"                   *)
  now,        (* the command it awaits that for                            *)
  isSetup,    (* status.ts                                                 *)
  saved,      (* the config: "fits" the call of setup, "none" or "error"   *)
  user,       (* config.user.data.userId                                   *)
  lang,       (* config.user.data.language: the call that set it, or 0     *)
  updates,    (* UpdateQueue.updates                                       *)
  flush,      (* pendingFlush: "none", or what its handler waits for       *)
  sending,    (* the updates in the request                                *)
  stored,     (* the attributes the server has stored of each user         *)
  langs,      (* the attributes that are the language                      *)
  allowed,    (* the users set since the last logout, or found at the start*)
  owner,      (* pairs of an attribute and the user it was set for         *)
  lost        (* attributes set during a request, or not stored by theirs  *)

queues  == <<cmds, at, now>>
config  == <<user, lang>>
setting == <<isSetup, saved>>
history == <<langs, allowed, owner, lost>>
vars    == <<calls, queues, setting, config, updates, flush, sending, stored, history>>

Calls == 1 .. MaxCalls

\* CommandType.GeneralAction; the other commands are UserAction and Setup
General == {"logout", "track"}

Ops == {"setup", "setUserId", "setAttributes", "setLanguage"} \cup General

Command == [op : Ops, n : Calls, user : Users \cup {NoUser}]

\* TUpdates; null is NoUpdates, as a call sets a user or an attribute
Updates   == [user : Users \cup {NoUser}, attrs : SUBSET Calls]
NoUpdates == [user |-> NoUser, attrs |-> {}]
isEmpty   == updates = NoUpdates

-----------------------------------------------------------------------------
(* processUpdates: a flush that is under way is reused.                    *)
ProcessUpdates == flush' = IF flush = "none" THEN "debounce" ELSE flush

(* tearDown: the user goes.  (filterSurveys and closeSurvey are the        *)
(* widget's.)                                                              *)
TearDown == user' = NoUser /\ lang' = 0

WithOnlyUser(u) == [NoUpdates EXCEPT !.user = u]                   \* mutant

WithUser(u) == [updates EXCEPT !.user = u]

SetUserId(c) ==
  /\ \/ /\ user = c.user
        /\ UNCHANGED <<config, updates, flush, allowed>>
     \/ /\ user # c.user
        /\ IF user # NoUser THEN TearDown ELSE UNCHANGED config
        /\ IF c.user \in LongIds
             THEN UNCHANGED <<updates, flush, allowed>>
             ELSE /\ updates' = WithUser(c.user)
                  /\ ProcessUpdates
                  /\ allowed' = allowed \cup {c.user}
  /\ UNCHANGED <<setting, langs, owner, lost>>

\* updateAttributes: the user of the pending updates, else of the config
UpdatesUser == IF updates.user # NoUser THEN updates.user ELSE user

SetAttributes(c) ==
  /\ updates' = [user |-> UpdatesUser, attrs |-> updates.attrs \cup {c.n}]
  /\ ProcessUpdates
  /\ langs' = IF c.op = "setLanguage" THEN langs \cup {c.n} ELSE langs
  /\ owner' = owner \cup {<<c.n, UpdatesUser>>}
  /\ lost' = IF flush = "sending" THEN lost \cup {c.n} ELSE lost
  /\ UNCHANGED <<setting, config, allowed>>

Logout ==
  /\ TearDown
  /\ allowed' = {}
  /\ UNCHANGED <<setting, updates, flush, langs, owner, lost>>

(* setup does nothing when it has been done or when the saved config is in *)
(* an error state that has not expired; it is done at once with a config   *)
(* that fits and is fresh.  Else it fetches state, and forgets a config    *)
(* that does not fit before.                                               *)
SetupAtOnce ==
  /\ \/ (isSetup \/ saved = "error") /\ UNCHANGED isSetup
     \/ saved = "fits" /\ isSetup' = TRUE
  /\ UNCHANGED <<saved, config, updates, flush, history>>

SetupFetches ==
  /\ ~isSetup
  /\ \/ saved = "fits" /\ UNCHANGED <<saved, config>>
     \/ saved' = "none" /\ TearDown
  /\ UNCHANGED <<isSetup, updates, flush, history>>

Execute(c) ==
  \/ c.op = "setup" /\ SetupAtOnce /\ at' = "loop"
  \/ c.op = "setup" /\ SetupFetches /\ at' = "setup"
  \/ c.op = "setUserId" /\ SetUserId(c) /\ at' = "loop"
  \/ c.op \in {"setAttributes", "setLanguage"} /\ SetAttributes(c) /\ at' = "loop"
  \/ c.op = "logout" /\ Logout /\ at' = "loop"
  \/ /\ c.op = "track" /\ at' = "loop"
     /\ UNCHANGED <<setting, config, updates, flush, history>>

-----------------------------------------------------------------------------
Init ==
  /\ calls = 0 /\ cmds = <<>> /\ at = "loop"
  /\ now = [op |-> "setup", n |-> 0, user |-> NoUser]
  /\ isSetup = FALSE /\ saved \in {"fits", "none", "error"}
  /\ user \in {NoUser} \cup (Users \ LongIds)         \* of an earlier page
  /\ user # NoUser => saved = "fits"
  /\ lang = 0
  /\ updates = NoUpdates /\ flush = "none" /\ sending = NoUpdates
  /\ stored = [u \in Users |-> {}]
  /\ langs = {} /\ allowed = {user} \ {NoUser} /\ owner = {} /\ lost = {}

(* CommandQueue.add, called by the page at any time.                       *)
Call ==
  /\ calls < MaxCalls
  /\ calls' = calls + 1
  /\ \E op \in Ops, u \in Users \cup {NoUser} :
       /\ op = "setUserId" <=> u # NoUser
       /\ cmds' = Append(cmds, [op |-> op, n |-> calls', user |-> u])
  /\ UNCHANGED <<at, now, setting, config, updates, flush, sending, stored, history>>

MustWaitForAll(c) == ~isEmpty                                      \* mutant
MustWaitToTrack(c) == c.op = "track" /\ ~isEmpty                   \* mutant

MustWait(c) == c.op \in General /\ ~isEmpty

(* CommandQueue.run takes the next command, up to its first await.         *)
Run ==
  LET c == Head(cmds) IN
  /\ at = "loop" /\ cmds # <<>>
  /\ cmds' = Tail(cmds)
  /\ now' = c
  /\ \/ /\ c.op # "setup" /\ ~isSetup                   \* checkSetup: skipped
        /\ UNCHANGED <<at, setting, config, updates, flush, history>>
     \/ /\ c.op = "setup" \/ isSetup
        /\ MustWait(c)
        /\ ProcessUpdates
        /\ at' = "flush"
        /\ UNCHANGED <<setting, config, updates, history>>
     \/ /\ c.op = "setup" \/ isSetup
        /\ ~MustWait(c)
        /\ Execute(c)
  /\ UNCHANGED <<calls, sending, stored>>

(* ... and goes on with it when the flush it waits for is over.            *)
RunAfterFlush ==
  /\ at = "flush" /\ flush = "none"
  /\ Execute(now)
  /\ UNCHANGED <<calls, cmds, now, sending, stored>>

(* ... or when the requests of setup are answered.  A failure leaves the   *)
(* SDK without setup; the state of an expired user is fetched anew.        *)
SetupDone ==
  /\ at = "setup"
  /\ at' = "loop"
  /\ \/ isSetup' = TRUE /\ saved' = "fits"
     \/ UNCHANGED setting
  /\ UNCHANGED <<calls, cmds, now, config, updates, flush, sending, stored, history>>

-----------------------------------------------------------------------------
\* timers and replies are handled when no command can go on
Settled == ~(at = "loop" /\ cmds # <<>>) /\ ~(at = "flush" /\ flush = "none")

Latest(S) == IF S = {} THEN 0 ELSE Max(S)

ClearWhenSent == updates' = NoUpdates                              \* mutant

KeepUntilAnswered == UNCHANGED updates

(* The handler of the debounce timer: without a user it keeps the language *)
(* locally and drops the rest, else it sends the updates.                  *)
Debounced ==
  /\ Settled /\ flush = "debounce"
  /\ \/ /\ updates.user = NoUser
        /\ lang' = Latest({lang} \cup (updates.attrs \cap langs))
        /\ updates' = NoUpdates /\ flush' = "none"
        /\ UNCHANGED sending
     \/ /\ updates.user # NoUser
        /\ flush' = "sending" /\ sending' = updates
        /\ KeepUntilAnswered
        /\ UNCHANGED lang
  /\ UNCHANGED <<calls, queues, setting, user, stored, history>>

(* The reply to sendUpdates: the updates are cleared whatever it says, the *)
(* ones that were added since included.                                    *)
FinishFlushOnSuccess(ok) ==                                        \* mutant
  /\ updates' = NoUpdates
  /\ flush' = IF ok THEN "none" ELSE "unsettled"
  /\ sending' = NoUpdates

FinishFlush(ok) ==
  /\ updates' = NoUpdates
  /\ flush' = "none"
  /\ sending' = NoUpdates

(* updateAttributes on the server (contacts/lib/attributes.ts) leaves out  *)
(* any of the attributes - an email that exists, a type that does not fit, *)
(* an invalid or reserved key, too many keys - and succeeds all the same;  *)
(* a request that fails may have stored some of them.                      *)
Store(S) ==
  /\ stored' = [stored EXCEPT ![sending.user] = @ \cup S]
  /\ lost' = lost \cup (sending.attrs \ S)

\* the language in the reply is the one sent, stored or not
LangInReply == Latest((stored[sending.user] \cup sending.attrs) \cap langs)

SendDone ==
  /\ Settled /\ flush = "sending"
  /\ \E ok \in BOOLEAN, S \in SUBSET sending.attrs :
       /\ Store(S)
       /\ \/ ok /\ user' = sending.user /\ lang' = LangInReply
          \/ ~ok /\ UNCHANGED config
       /\ FinishFlush(ok)
  /\ UNCHANGED <<calls, queues, setting, langs, allowed, owner>>

SdkStep == Run \/ RunAfterFlush \/ SetupDone \/ Debounced \/ SendDone

Next == Call \/ SdkStep

Spec == Init /\ [][Next]_vars

(* Promises are resumed, timers fire and requests end, in success or not.  *)
FairSpec == Spec /\ WF_vars(SdkStep)

-----------------------------------------------------------------------------
(* Only track and logout wait for a flush (command-queue.ts:90-97), setup  *)
(* runs with nothing pending, and updates without a user are only there    *)
(* when nobody is identified.                                              *)
TypeOK ==
  /\ calls \in 0 .. MaxCalls /\ cmds \in Seq(Command)
  /\ at \in {"loop", "flush", "setup"}
  /\ now \in Command \cup {[op |-> "setup", n |-> 0, user |-> NoUser]}
  /\ isSetup \in BOOLEAN /\ saved \in {"fits", "none", "error"}
  /\ user \in {NoUser} \cup (Users \ LongIds) /\ lang \in 0 .. MaxCalls
  /\ updates \in Updates /\ sending \in Updates
  /\ flush \in {"none", "debounce", "sending"}
  /\ stored \in [Users -> SUBSET Calls]
  /\ langs \subseteq Calls /\ allowed \subseteq Users /\ lost \subseteq Calls
  /\ owner \subseteq Calls \X (Users \cup {NoUser})
  /\ at = "flush" => now.op \in General
  /\ at = "setup" => isEmpty /\ ~isSetup
  /\ updates.user = NoUser /\ ~isEmpty => user = NoUser

(* The command queue asks isEmpty() where it means to ask whether a flush  *)
(* is under way (command-queue.ts:93): a flush always has its updates      *)
(* still in the queue.                                                     *)
FlushIsVisible == flush # "none" => ~isEmpty

(* After logout the SDK is not back to a user of before, although a        *)
(* request that identifies one may have been under way or about to be sent *)
(* (update.ts:103-109 sets the user whatever happened since).              *)
LogoutSticks ==
  /\ user # NoUser => user \in allowed
  /\ updates.user # NoUser => updates.user \in allowed

(* An attribute set for a user is waiting, in the request, stored, or lost *)
(* in one of three ways: its request failed; the server left it out of a   *)
(* request it answered ok (contacts/lib/attributes.ts:211-215, 254-263,    *)
(* 314-358), and update-queue.ts:179 cleared it like the others; or it was *)
(* set while a request was under way and wiped with it.                    *)
AttributesAccountedFor ==
  \A p \in owner : p[2] # NoUser =>
     p[1] \in updates.attrs \cup sending.attrs \cup lost \cup UNION {stored[u] : u \in Users}

(* Every call the page makes is run: the command queue never waits for     *)
(* ever, whatever fails.                                                   *)
EveryCallRuns == (cmds # <<>> \/ at # "loop") ~> (cmds = <<>> /\ at = "loop")

(* user.ts:23: "If a different userId is set, clean up the previous user   *)
(* state first".  An attribute is stored only for the user it was set for. *)
AttributesOfTheirUser ==
  \A u \in Users : \A p \in owner :
     p[1] \in stored[u] => p[2] \in {NoUser, u}
=============================================================================
