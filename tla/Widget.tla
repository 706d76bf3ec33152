-------------------------------- MODULE Widget --------------------------------
(***************************************************************************)
(* Which survey the browser SDK puts on screen, and when: a tracked action *)
(* (packages/js-core/src/lib/survey/action.ts) goes through the surveys    *)
(* that filterSurveys has left, renderWidget (widget.ts) loads the survey  *)
(* library, waits for the delay and renders, and the flag isSurveyRunning  *)
(* keeps a second survey away until closeSurvey.  Navigation               *)
(* (no-code-action.ts), logout and the refresh of the workspace state      *)
(* (workspace/state.ts) interfere at every wait.                           *)
(*                                                                         *)
(* Commands run one at a time and wait for a pending identification, as    *)
(* SdkQueues shows; a step is a JavaScript task.                           *)
(***************************************************************************)
EXTENDS Naturals, Sequences, FiniteSets

CONSTANTS
  Surveys,       (* the surveys of the workspace                           *)
  OnceOnly,      (* displayOnce                                            *)
  UntilAnswered, (* displayMultiple; displaySome with limit 1 is both      *)
  NoCooldown,    (* recontactDays is 0: shown however recent the last one  *)
  Targeted,      (* the segment has filters                                *)
  Protected,     (* with spam protection                                   *)
  PageSurveys,   (* triggered by the page view action                      *)
  DwellSurveys,  (* triggered by the time on page action; others by code   *)
  Published,     (* the lists of surveys a refresh may bring               *)
  Users, Members,(* user ids, and those the segment contains               *)
  NoUser,
  Pages, Matching,(* URLs, and those the filters of both actions match     *)
  MaxCalls, MaxNavs, MaxRenders, MaxFetches       (* bounds of the model   *)

ASSUME SurveysAssumption ==
  \A S \in {OnceOnly, UntilAnswered, NoCooldown, Targeted, Protected,
            PageSurveys, DwellSurveys} : S \subseteq Surveys
ASSUME OthersAssumption ==
  /\ Published \subseteq SUBSET Surveys /\ Members \subseteq Users /\ NoUser \notin Users /\ Matching \subseteq Pages
  /\ {MaxCalls, MaxNavs, MaxRenders, MaxFetches} \subseteq Nat

VARIABLES
  calls, navs, fetches, (* how often the page has done what                *)
  page,     (* window.location.href                                        *)
  dwell,    (* the entry of the time on page action in timeOnPageTimers    *)
  blocked,  (* the page cannot load the survey library (ad blocker, CSP)   *)
  cmds,     (* CommandQueue.queue                                          *)
  at,       (* what the running command waits for, or "idle"               *)
  cmd,      (* that command                                                *)
  todo, cur,(* trackAction: surveys still to go through, the one rendered  *)
  scripts,  (* script elements that are in the document                    *)
  running,  (* isSurveyRunning                                             *)
  timers,   (* surveys waiting for their delay                             *)
  stack,    (* TimeoutStack.timeouts, in the order of their ids            *)
  renders,  (* the number of timers set                                    *)
  screen,   (* the surveys rendered, oldest container first                *)
  live,     (* config.workspace.data.surveys                               *)
  person,   (* config.user.data                                            *)
  filtered, (* config.filteredSurveys                                      *)
  pending,  (* the user in the update queue, sent and awaited with it      *)
  contacts, (* what the server knows of each user                          *)
  fetch,    (* the user state the refresh began with, or NoFetch           *)
  strays,   (* renders the flag was taken from while they went on (history)*)
  stuck,    (* renderWidget was rejected (history)                         *)
  stale     (* filtered was computed from an earlier user (history)        *)

counts  == <<calls, navs, fetches>>
browser == <<page, dwell, blocked>>
command == <<cmds, at, cmd, todo, cur>>
delayed == <<timers, stack, renders>>
users   == <<person, pending, contacts>>
vars    == <<counts, browser, command, scripts, running, delayed, screen, live,
             users, filtered, fetch, strays, stuck, stale>>

Loading == at \in {"load", "captcha"}

Actions == {"code", "page", "dwell"}

\* survey.triggers
TriggeredBy(a) == CASE a = "page"  -> PageSurveys
                    [] a = "dwell" -> DwellSurveys
                    [] a = "code"  -> Surveys \ (PageSurveys \cup DwellSurveys)

Command == [op : {"track"}, arg : Actions] \cup [op : {"setUserId"}, arg : Users]
             \cup [op : {"logout"}, arg : {NoUser}]

\* TUserState.data; recent is a lastDisplayAt within the waiting time
Person == [user : Users \cup {NoUser}, displays : SUBSET Surveys,
           responses : SUBSET Surveys, recent : BOOLEAN]

DefaultState == [user |-> NoUser, displays |-> {}, responses |-> {}, recent |-> FALSE]

NoFetch == [DefaultState EXCEPT !.recent = TRUE]   \* not a state: nothing displayed

NoDwell == [status |-> "none", page |-> ""]

(* A mounted survey: its container is in the document (dom), and the       *)
(* component is open, closing (for a second) or closed.  Taking the        *)
(* container out of the document does not unmount the component.           *)
Mounted == [id : 1 .. MaxRenders, survey : Surveys, user : Users \cup {NoUser},
            dom : BOOLEAN, view : {"open", "closing", "closed"},
            display : {"creating", "ended"}]

-----------------------------------------------------------------------------
Eligible(s, p) ==
  /\ s \in OnceOnly => s \notin p.displays
  /\ s \in UntilAnswered => s \notin p.responses
  /\ p.recent => s \in NoCooldown
  /\ s \in Targeted => p.user \in Members

FilterSurveys(surveys, p) == {s \in surveys : Eligible(s, p)}

(* config.update with a new user state or workspace, filtered anew.        *)
UpdateConfig(surveys, p) ==
  /\ live' = surveys
  /\ person' = p
  /\ filtered' = FilterSurveys(surveys, p)
  /\ stale' = FALSE

KeepConfig == UNCHANGED <<live, person, filtered, stale>>

\* document.getElementById(CONTAINER_ID)?.remove() takes the first container
IsFirst(scr, i) == scr[i].dom /\ \A k \in 1 .. (i - 1) : ~scr[k].dom

WithoutFirst(scr) ==
  [i \in DOMAIN scr |-> [scr[i] EXCEPT !.dom = @ /\ ~IsFirst(scr, i)]]

CloseWithoutFlag(scr, p) ==                                        \* mutant
  /\ screen' = WithoutFirst(scr)
  /\ UpdateConfig(live, p)
  /\ UNCHANGED running

CloseSurvey(scr, p) ==
  /\ screen' = WithoutFirst(scr)
  /\ UpdateConfig(live, p)
  /\ running' = FALSE

\* the surveys that wait for their delay, or are open or closing
Alive(ts, scr) ==
  {t.id : t \in ts} \cup {scr[i].id : i \in {k \in DOMAIN scr : scr[k].view # "closed"}}

\* the number of the survey that is being loaded is the next one
InLoading == IF Loading THEN {renders + 1} ELSE {}

(* The flag has been cleared by something that is not the end of the       *)
(* survey it was set for: what goes on goes on without it.                 *)
LoseFlag(ts, scr) == strays' = strays \cup Alive(ts, scr) \cup InLoading

TearDown ==
  /\ CloseSurvey(screen, DefaultState)
  /\ LoseFlag(timers, screen')

-----------------------------------------------------------------------------
(* The commands.  tearDown is called for another user, too; a user set     *)
(* while a request is under way is wiped with its reply.                   *)
SetUserId(u) ==
  \/ /\ person.user = u
     /\ UNCHANGED <<screen, running, strays, pending>> /\ KeepConfig
  \/ /\ person.user # u
     /\ IF person.user # NoUser THEN TearDown
        ELSE UNCHANGED <<screen, running, strays>> /\ KeepConfig
     /\ \/ pending' = u
        \/ pending # NoUser /\ UNCHANGED pending

(* trackAction reads filteredSurveys once.                                 *)
Track(a) ==
  /\ todo' = filtered \cap TriggeredBy(a)
  /\ at' = "loop"
  /\ UNCHANGED <<screen, running, strays, pending>> /\ KeepConfig

Execute(c) ==
  \/ c.op = "setUserId" /\ SetUserId(c.arg) /\ at' = "idle" /\ UNCHANGED todo
  \/ c.op = "logout" /\ TearDown /\ at' = "idle" /\ UNCHANGED <<todo, pending>>
  \/ c.op = "track" /\ Track(c.arg)

WaitsToLogout(c) == c.op = "logout" /\ pending # NoUser             \* mutant
Waits(c) == c.op \in {"track", "logout"} /\ pending # NoUser

Run ==
  /\ at = "idle" /\ cmds # <<>>
  /\ cmds' = Tail(cmds) /\ cmd' = Head(cmds)
  /\ \/ /\ Waits(cmd')
        /\ at' = "flush"
        /\ UNCHANGED <<todo, screen, running, strays, pending>> /\ KeepConfig
     \/ /\ ~Waits(cmd')
        /\ Execute(cmd')
  /\ UNCHANGED <<counts, browser, cur, scripts, delayed, contacts, fetch, stuck>>

RunAfterFlush ==
  /\ at = "flush" /\ pending = NoUser
  /\ Execute(cmd)
  /\ UNCHANGED <<counts, browser, cmds, cmd, cur, scripts, delayed, contacts, fetch, stuck>>

(* triggerSurvey for the next of the surveys: it is left out by the flag,  *)
(* displayPercentage or its languages, or rendered.                        *)
IsFreeOrDelayed == ~running \/ timers # {}                         \* mutant
IsFree == ~running

TriggerSurvey ==
  /\ at = "loop"
  /\ \/ /\ todo = {} /\ at' = "idle"
        /\ UNCHANGED <<todo, cur, running, strays>>
     \/ \E s \in todo :
          /\ todo' = todo \ {s}
          /\ \/ UNCHANGED <<at, cur, running, strays>>
             \/ /\ IsFree
                /\ renders < MaxRenders
                /\ running' = TRUE /\ cur' = s /\ at' = "load"
                /\ strays' = strays \ {renders + 1}
  /\ UNCHANGED <<counts, browser, cmds, cmd, scripts, delayed, screen, live, users,
                 filtered, fetch, stuck, stale>>

(* The survey library has been loaded, or did not load within ten seconds. *)
LibraryAwaited(ok) ==                                              \* mutant
  /\ at = "load"
  /\ ok /\ ~blocked
  /\ at' = "captcha" /\ scripts' = scripts \cup {"surveys"} /\ UNCHANGED running

LibraryLoaded(ok) ==
  /\ at = "load"
  /\ \/ /\ ok /\ ~blocked
        /\ at' = "captcha" /\ scripts' = scripts \cup {"surveys"} /\ UNCHANGED running
     \/ /\ ~ok /\ "surveys" \notin scripts
        /\ at' = "loop" /\ running' = FALSE /\ UNCHANGED scripts

LoadDone ==
  /\ \E ok \in BOOLEAN : LibraryLoaded(ok)
  /\ UNCHANGED <<counts, browser, cmds, cmd, todo, cur, delayed, screen, live, users,
                 filtered, fetch, strays, stuck, stale>>

(* Then the reCAPTCHA script, for a survey with spam protection: a failure *)
(* ends the command with an exception, and leaves the script element.      *)
CaptchaFails ==
  /\ cur \in Protected /\ "recaptcha" \notin scripts
  /\ scripts' = scripts \cup {"recaptcha"}
  /\ at' = "idle" /\ todo' = {} /\ stuck' = TRUE
  /\ UNCHANGED <<delayed, running>>

SetTimer ==
  /\ scripts' = IF cur \in Protected THEN scripts \cup {"recaptcha"} ELSE scripts
  /\ renders' = renders + 1
  /\ timers' = timers \cup {[id |-> renders', survey |-> cur]}
  /\ stack' = stack \cup {[id |-> renders', action |-> cmd.arg]}
  /\ at' = "loop"
  /\ UNCHANGED <<todo, stuck, running>>

CaptchaDone ==
  /\ at = "captcha"
  /\ CaptchaFails \/ SetTimer
  /\ UNCHANGED <<counts, browser, cmds, cmd, cur, screen, live, users, filtered,
                 fetch, strays, stale>>

-----------------------------------------------------------------------------
\* promises are resumed before timers, replies and calls of the page
Settled ==
  \/ at = "idle" /\ cmds = <<>>
  \/ at = "flush" /\ pending # NoUser
  \/ at = "load" /\ "surveys" \notin scripts
  \/ at = "captcha" /\ cur \in Protected /\ "recaptcha" \notin scripts

(* The delay is over: the survey is rendered, whatever has happened since, *)
(* and creates its display.  The entry stays in the stack.                 *)
Render(t) ==
  /\ screen' = Append(screen, [id |-> t.id, survey |-> t.survey, user |-> person.user,
                               dom |-> TRUE, view |-> "open", display |-> "creating"])
  /\ timers' = timers \ {t}

DelayEnds ==
  /\ Settled
  /\ \E t \in timers : Render(t)
  /\ UNCHANGED <<counts, browser, command, scripts, running, stack, renders, live,
                 users, filtered, fetch, strays, stuck, stale>>

(* onDisplayCreated: the display is recorded for the user of now.          *)
RecordUnfiltered(s) ==                                             \* mutant
  /\ person' = [person EXCEPT !.displays = @ \cup {s}, !.recent = TRUE]
  /\ UNCHANGED <<live, filtered, stale>>

RecordDisplay(s) ==
  UpdateConfig(live, [person EXCEPT !.displays = @ \cup {s}, !.recent = TRUE])

OnContact(m, field) ==
  contacts' = IF m.user = NoUser THEN contacts
              ELSE [contacts EXCEPT ![m.user][field] = @ \cup {m.survey}]

DisplayDone ==
  /\ Settled
  /\ \E i \in DOMAIN screen :
       /\ screen[i].display = "creating"
       /\ screen' = [screen EXCEPT ![i].display = "ended"]
       /\ \/ KeepConfig /\ UNCHANGED contacts
          \/ RecordDisplay(screen[i].survey) /\ OnContact(screen[i], "displays")
  /\ UNCHANGED <<counts, browser, command, scripts, running, delayed, pending,
                 fetch, strays, stuck>>

(* The respondent answers (onResponseCreated), perhaps to the end.         *)
Answer ==
  /\ Settled
  /\ \E i \in DOMAIN screen :
       /\ screen[i].dom /\ screen[i].view = "open"
       /\ UpdateConfig(live, [person EXCEPT !.responses = @ \cup {screen[i].survey}])
       /\ OnContact(screen[i], "responses")
  /\ UNCHANGED <<counts, browser, command, scripts, running, delayed, screen, pending,
                 fetch, strays, stuck>>

(* close: by the close button, by the timer of a finished survey or of one *)
(* nobody touches; and, whether or not its container is still in the       *)
(* document, by Escape (use-focus-trap.ts:209-217) or a click outside      *)
(* (survey-container.tsx:39-50), as both listen on the document.           *)
Close ==
  /\ Settled
  /\ \E i \in DOMAIN screen :
       /\ screen[i].view = "open"
       /\ screen' = [screen EXCEPT ![i].view = "closing"]
  /\ UNCHANGED <<counts, browser, command, scripts, running, delayed, live, users,
                 filtered, fetch, strays, stuck, stale>>

(* onClose, a second later: the flag is cleared, whoever it was set for.   *)
Closed ==
  /\ Settled
  /\ \E i \in DOMAIN screen :
       /\ screen[i].view = "closing"
       /\ CloseSurvey([screen EXCEPT ![i].view = "closed"], person)
       /\ IF screen[i].id \in strays THEN LoseFlag(timers, screen') ELSE UNCHANGED strays
  /\ UNCHANGED <<counts, browser, command, scripts, delayed, pending, contacts,
                 fetch, stuck>>

-----------------------------------------------------------------------------
(* The first entry of each action of the stack, fired or not.              *)
FirstEntries(as) ==
  {e.id : e \in {x \in stack : x.action \in as
                             /\ \A y \in stack : y.action = x.action => x.id <= y.id}}

(* The flag was set for a survey that waits and is taken back; not for an  *)
(* entry whose timer has fired, or for a survey that had lost the flag.    *)
Remove(ids) ==
  /\ stack' = {e \in stack : e.id \notin ids}
  /\ timers' = {t \in timers : t.id \notin ids}
  /\ running' = (running /\ ids = {})
  /\ IF ids \subseteq {t.id : t \in timers} \ strays
       THEN UNCHANGED strays
       ELSE LoseFlag(timers', screen)

(* checkPageUrl, on every navigation: track the page view, or take back a  *)
(* survey the action has scheduled; then the same for the time on page.    *)
EnterPage(p) ==
  /\ cmds' = Append(cmds, [op |-> "track", arg |-> "page"])
  /\ dwell' = IF dwell.page = p THEN dwell ELSE [status |-> "running", page |-> p]
  /\ Remove({})

LeavePage ==
  /\ UNCHANGED cmds
  /\ dwell' = NoDwell
  /\ Remove(FirstEntries({"page"} \cup (IF dwell = NoDwell THEN {} ELSE {"dwell"})))

Navigate ==
  /\ Settled /\ navs < MaxNavs
  /\ navs' = navs + 1
  /\ page' \in Pages
  /\ IF page' \in Matching THEN EnterPage(page') ELSE LeavePage
  /\ UNCHANGED <<calls, fetches, blocked, at, cmd, todo, cur, scripts, renders, screen,
                 live, users, filtered, fetch, stuck, stale>>

DwellEnds ==
  /\ Settled /\ dwell.status = "running"
  /\ dwell' = [dwell EXCEPT !.status = "fired"]
  /\ cmds' = Append(cmds, [op |-> "track", arg |-> "dwell"])
  /\ UNCHANGED <<counts, page, blocked, at, cmd, todo, cur, scripts, running, delayed,
                 screen, live, users, filtered, fetch, strays, stuck, stale>>

(* The host page calls setUserId, logout or track.                         *)
Call ==
  /\ Settled /\ calls < MaxCalls
  /\ calls' = calls + 1
  /\ \E c \in Command :
       /\ c.op = "track" => c.arg = "code"
       /\ cmds' = Append(cmds, c)
  /\ UNCHANGED <<navs, fetches, browser, at, cmd, todo, cur, scripts, running, delayed,
                 screen, live, users, filtered, fetch, strays, stuck, stale>>

(* The reply to the update request of setUserId, or its failure.           *)
Identified ==
  /\ Settled /\ pending # NoUser
  /\ pending' = NoUser
  /\ \/ KeepConfig
     \/ LET c == contacts[pending] IN
        UpdateConfig(live, [user |-> pending, displays |-> c.displays,
                            responses |-> c.responses, recent |-> c.displays # {}])
  /\ UNCHANGED <<counts, browser, command, scripts, running, delayed, screen, contacts,
                 fetch, strays, stuck>>

(* The workspace state has expired: it is fetched, and the surveys are     *)
(* filtered for the user of the time the request was sent.                 *)
FetchWorkspace ==
  /\ Settled /\ fetch = NoFetch /\ fetches < MaxFetches
  /\ fetches' = fetches + 1
  /\ fetch' = person
  /\ UNCHANGED <<calls, navs, browser, command, scripts, running, delayed, screen, live,
                 users, filtered, strays, stuck, stale>>

FetchDone ==
  /\ Settled /\ fetch # NoFetch
  /\ fetch' = NoFetch
  /\ \/ UNCHANGED <<live, filtered, stale>>
     \/ /\ live' \in Published
        /\ filtered' = FilterSurveys(live', fetch)
        /\ stale' = (fetch # person)
  /\ UNCHANGED <<counts, browser, command, scripts, running, delayed, screen, users,
                 strays, stuck>>

-----------------------------------------------------------------------------
Init ==
  /\ calls = 0 /\ navs = 0 /\ fetches = 0
  /\ page \in Pages /\ dwell = NoDwell /\ blocked \in BOOLEAN
  /\ cmds = <<>> /\ at = "idle" /\ cmd = [op |-> "logout", arg |-> NoUser]
  /\ todo = {} /\ cur = (CHOOSE s \in Surveys : TRUE) /\ scripts = {}
  /\ running = FALSE /\ timers = {} /\ stack = {} /\ renders = 0 /\ screen = <<>>
  /\ live = Surveys
  /\ \E u \in Users \cup {NoUser} : person = [DefaultState EXCEPT !.user = u] \* saved
  /\ filtered = FilterSurveys(live, person)
  /\ pending = NoUser /\ contacts = [u \in Users |-> [displays |-> {}, responses |-> {}]]
  /\ fetch = NoFetch /\ strays = {} /\ stuck = FALSE /\ stale = FALSE

SdkStep == Run \/ RunAfterFlush \/ TriggerSurvey \/ LoadDone \/ CaptchaDone

Next ==
  \/ SdkStep \/ Identified
  \/ DelayEnds \/ DisplayDone \/ Answer \/ Close \/ Closed
  \/ Navigate \/ DwellEnds \/ Call
  \/ FetchWorkspace \/ FetchDone

Spec == Init /\ [][Next]_vars

(* Scripts load or fail, requests end and promises are resumed.            *)
FairSpec == Spec /\ WF_vars(SdkStep) /\ WF_vars(Identified)
-----------------------------------------------------------------------------
(* renderWidget finds no identification pending, so that its wait          *)
(* (widget.ts:66-82) is not modelled: at = "loop" implies pending is NoUser*)
(* (the third line from the end); and a survey in the stack or on screen   *)
(* had its timer set.                                                      *)
TypeOK ==
  /\ calls \in 0 .. MaxCalls /\ navs \in 0 .. MaxNavs /\ fetches \in 0 .. MaxFetches
  /\ page \in Pages
  /\ dwell \in {NoDwell} \cup [status : {"running", "fired"}, page : Matching]
  /\ blocked \in BOOLEAN
  /\ cmds \in Seq(Command) /\ cmd \in Command
  /\ at \in {"idle", "flush", "loop", "load", "captcha"}
  /\ todo \subseteq Surveys /\ (Loading => cur \in Surveys)
  /\ scripts \subseteq {"surveys", "recaptcha"} /\ running \in BOOLEAN
  /\ renders \in 0 .. MaxRenders
  /\ timers \subseteq [id : 1 .. renders, survey : Surveys]
  /\ stack \subseteq [id : 1 .. renders, action : Actions]
  /\ screen \in Seq(Mounted) /\ Len(screen) <= renders
  /\ live \subseteq Surveys /\ filtered \subseteq Surveys
  /\ person \in Person /\ fetch \in Person
  /\ pending \in Users \cup {NoUser}
  /\ contacts \in [Users -> [displays : SUBSET Surveys, responses : SUBSET Surveys]]
  /\ at \in {"loop", "load", "captcha"} => pending = NoUser
  /\ strays \subseteq 1 .. MaxRenders /\ stuck \in BOOLEAN /\ stale \in BOOLEAN

\* those that have not lost the flag
Holders == (Alive(timers, screen) \cup InLoading) \ strays

(* One survey at a time, from the flag to the end of its second of closing *)
(* (widget.ts:58-63), over several tracked actions and surveys per action, *)
(* whatever logouts and navigations have left behind: at most one survey   *)
(* comes, is open or closing that has not lost the flag.  It is lost to a  *)
(* teardown, which unmounts nothing; to a navigation that finds an entry   *)
(* of the TimeoutStack whose timer has fired (no-code-action.ts:145); and  *)
(* to the end of another survey that had lost it.                          *)
OneAtATime == Cardinality(Holders) <= 1

(* The flag is never left set with nothing to clear it, which would keep   *)
(* every later survey away: a survey is being rendered, waits or is on     *)
(* screen - but for the exception of a reCAPTCHA script that does not load *)
(* (widget.ts:128).                                                        *)
RunningHasCause ==
  running /\ ~stuck =>
    \/ Loading \/ timers # {}
    \/ \E i \in DOMAIN screen :
         screen[i].view = "closing" \/ (screen[i].dom /\ screen[i].view = "open")

(* filteredSurveys is what filterSurveys gives for the user and the        *)
(* surveys of now: every change of one of them filters anew.  The refresh  *)
(* of the workspace alone filters for the user of the time it began        *)
(* (workspace/state.ts:88-96).                                             *)
FilteredIsCurrent == ~stale => filtered = FilterSurveys(live, person)

(* Every tracked action comes to its end, whatever fails to load: the      *)
(* command queue behind it goes on.                                        *)
EveryTrackEnds == (cmds # <<>> \/ at # "idle") ~> (cmds = <<>> /\ at = "idle")
=============================================================================
