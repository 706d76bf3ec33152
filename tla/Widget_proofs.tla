----------------------------- MODULE Widget_proofs -----------------------------
(***************************************************************************)
(* Proofs about Widget for all sets of surveys, users and pages and every  *)
(* number of calls, navigations, delayed surveys and refreshes: the types  *)
(* and the three safety properties.                                        *)
(*                                                                         *)
(* OneAtATime is not inductive: that a survey is let in only when none     *)
(* holds the flag follows from the flag, so the invariant OneInv also says *)
(* that the flag is set as long as one does.  That the end of a survey     *)
(* leaves none needs IdInv: renders are numbered apart.                    *)
(***************************************************************************)
EXTENDS Widget, FiniteSetTheorems, TLAPS

\* what TypeOK needs of a command under way, and of the timers set so far
CommandInv ==
  /\ at \in {"loop", "load", "captcha"} => cmd.op = "track"
  /\ Loading => renders < MaxRenders
  /\ IsFiniteSet(timers)
  /\ Len(screen) + Cardinality(timers) <= renders

TypeInv == TypeOK /\ CommandInv

\* the surveys that wait or are on screen are known by their numbers
IdInv ==
  /\ \A i \in DOMAIN screen : screen[i].id \in 1 .. renders
  /\ \A t, u \in timers : t.id = u.id => t = u
  /\ \A t \in timers, i \in DOMAIN screen : t.id # screen[i].id
  /\ \A i, k \in DOMAIN screen : screen[i].id = screen[k].id => i = k

\* the flag is set for a survey that holds it, and one at most does
OneInv ==
  /\ Holders # {} => running
  /\ Loading => Alive(timers, screen) \subseteq strays
  /\ \A x, y \in Holders : x = y

-----------------------------------------------------------------------------
(* The first container is taken out of the document, the rest stays.       *)
LEMMA WithoutFirstKeeps ==
  ASSUME NEW scr \in Seq(Mounted)
  PROVE  /\ WithoutFirst(scr) \in Seq(Mounted)
         /\ Len(WithoutFirst(scr)) = Len(scr)
         /\ \A i \in DOMAIN scr : /\ WithoutFirst(scr)[i].id = scr[i].id
                                  /\ WithoutFirst(scr)[i].view = scr[i].view
<1>1. WithoutFirst(scr) = [i \in 1 .. Len(scr) |-> [scr[i] EXCEPT !.dom = @ /\ ~IsFirst(scr, i)]]
  BY DEF WithoutFirst
<1>2. \A i \in 1 .. Len(scr) : [scr[i] EXCEPT !.dom = @ /\ ~IsFirst(scr, i)] \in Mounted
  <2>. SUFFICES ASSUME NEW i \in 1 .. Len(scr)
                PROVE  [scr[i] EXCEPT !.dom = @ /\ ~IsFirst(scr, i)] \in Mounted
    OBVIOUS
  <2>1. scr[i] \in Mounted /\ (scr[i].dom /\ ~IsFirst(scr, i)) \in BOOLEAN
    BY DEF IsFirst
  <2>. QED  BY <2>1 DEF Mounted
<1>3. WithoutFirst(scr) \in Seq(Mounted) /\ Len(WithoutFirst(scr)) = Len(scr)
  BY <1>1, <1>2
<1>4. ASSUME NEW i \in DOMAIN scr
      PROVE  WithoutFirst(scr)[i].id = scr[i].id /\ WithoutFirst(scr)[i].view = scr[i].view
  <2>1. WithoutFirst(scr)[i] = [scr[i] EXCEPT !.dom = @ /\ ~IsFirst(scr, i)]
    BY DEF WithoutFirst
  <2>2. scr[i] \in Mounted
    OBVIOUS
  <2>. QED  BY <2>1, <2>2 DEF Mounted
<1>. QED  BY <1>3, <1>4

LEMMA FilterType ==
  ASSUME NEW surveys \in SUBSET Surveys, NEW p
  PROVE  FilterSurveys(surveys, p) \subseteq Surveys
BY DEF FilterSurveys

LEMMA DefaultType == DefaultState \in Person /\ NoFetch \in Person
BY DEF DefaultState, NoFetch, Person

LEMMA AliveType ==
  ASSUME TypeInv, NEW ts \in SUBSET timers, NEW scr \in Seq(Mounted)
  PROVE  Alive(ts, scr) \cup InLoading \subseteq 1 .. MaxRenders
<1>1. renders \in Nat /\ MaxRenders \in Nat /\ renders <= MaxRenders
  BY OthersAssumption DEF TypeInv, TypeOK
<1>2. InLoading \subseteq 1 .. MaxRenders
  BY <1>1 DEF InLoading, TypeInv, CommandInv
<1>3. \A t \in ts : t.id \in 1 .. MaxRenders
  BY <1>1 DEF TypeInv, TypeOK
<1>4. \A i \in DOMAIN scr : scr[i].id \in 1 .. MaxRenders
  <2>1. \A i \in DOMAIN scr : scr[i] \in Mounted
    OBVIOUS
  <2>. QED  BY <2>1 DEF Mounted
<1>. QED  BY <1>2, <1>3, <1>4 DEF Alive

\* what a teardown leaves
LEMMA CloseType ==
  ASSUME TypeInv, NEW scr \in Seq(Mounted), Len(scr) = Len(screen), NEW p \in Person, CloseSurvey(scr, p)
  PROVE  /\ screen' \in Seq(Mounted) /\ Len(screen') = Len(screen)
         /\ live' \subseteq Surveys /\ filtered' \subseteq Surveys /\ person' \in Person
         /\ running' \in BOOLEAN /\ stale' \in BOOLEAN
<1>1. live \subseteq Surveys
  BY DEF TypeInv, TypeOK
<1>. QED  BY <1>1, WithoutFirstKeeps, FilterType DEF CloseSurvey, UpdateConfig

(* What a command does to the state when it is run at once or after the    *)
(* wait for the identification.                                            *)
LEMMA ExecuteType ==
  ASSUME TypeInv, NEW c \in Command, Execute(c), c.op = "track" => pending = NoUser
  PROVE  /\ screen' \in Seq(Mounted) /\ Len(screen') = Len(screen)
         /\ live' \subseteq Surveys /\ filtered' \subseteq Surveys /\ person' \in Person
         /\ running' \in BOOLEAN /\ stale' \in BOOLEAN /\ strays' \subseteq 1 .. MaxRenders
         /\ pending' \in Users \cup {NoUser} /\ todo' \subseteq Surveys
         /\ at' = "idle" \/ (at' = "loop" /\ c.op = "track" /\ pending' = NoUser)
<1>. USE DEF TypeInv, TypeOK
<1>1. ASSUME TearDown
      PROVE  /\ screen' \in Seq(Mounted) /\ Len(screen') = Len(screen)
             /\ live' \subseteq Surveys /\ filtered' \subseteq Surveys /\ person' \in Person
             /\ running' \in BOOLEAN /\ stale' \in BOOLEAN /\ strays' \subseteq 1 .. MaxRenders
  <2>1. CloseSurvey(screen, DefaultState) /\ LoseFlag(timers, screen')
    BY <1>1 DEF TearDown
  <2>2. /\ screen' \in Seq(Mounted) /\ Len(screen') = Len(screen)
        /\ live' \subseteq Surveys /\ filtered' \subseteq Surveys /\ person' \in Person
        /\ running' \in BOOLEAN /\ stale' \in BOOLEAN
    BY <2>1, DefaultType, CloseType
  <2>3. strays' \subseteq 1 .. MaxRenders
    <3>1. Alive(timers, screen') \cup InLoading \subseteq 1 .. MaxRenders
      BY <2>2, AliveType
    <3>. QED  BY <2>1, <3>1 DEF LoseFlag
  <2>. QED  BY <2>2, <2>3
<1>2. CASE c.op = "setUserId" /\ SetUserId(c.arg) /\ at' = "idle" /\ UNCHANGED todo
  <2>1. c.arg \in Users
    BY <1>2 DEF Command
  <2>2. CASE TearDown
    BY <1>1, <1>2, <2>1, <2>2 DEF SetUserId
  <2>3. CASE ~TearDown
    BY <1>2, <2>1, <2>3 DEF SetUserId, KeepConfig
  <2>. QED  BY <2>2, <2>3
<1>3. CASE c.op = "logout" /\ TearDown /\ at' = "idle" /\ UNCHANGED <<todo, pending>>
  BY <1>1, <1>3
<1>4. CASE c.op = "track" /\ Track(c.arg)
  BY <1>4 DEF Track, KeepConfig
<1>. QED  BY <1>2, <1>3, <1>4 DEF Execute

-----------------------------------------------------------------------------
(* Every step keeps the types and what they need.                          *)
LEMMA InitType == Init => TypeInv
<1>. SUFFICES ASSUME Init PROVE TypeInv
  OBVIOUS
<1>1. live \subseteq Surveys /\ filtered \subseteq Surveys
  BY FilterType DEF Init
<1>2. person \in Person /\ fetch \in Person
  BY DefaultType DEF Init, Person, DefaultState
<1>3. IsFiniteSet(timers) /\ Cardinality(timers) = 0
  BY FS_EmptySet DEF Init
<1>4. cmd \in Command /\ cmds \in Seq(Command)
  BY DEF Init, Command
<1>5. {MaxCalls, MaxNavs, MaxRenders, MaxFetches} \subseteq Nat
  BY OthersAssumption
<1>6. CommandInv
  BY <1>3 DEF Init, CommandInv, Loading
<1>7. stack \subseteq [id : 1 .. renders, action : Actions] /\ screen \in Seq(Mounted)
  BY DEF Init
<1>8. contacts \in [Users -> [displays : SUBSET Surveys, responses : SUBSET Surveys]]
  BY DEF Init
<1>9. TypeOK
  <2>1. calls \in 0 .. MaxCalls /\ navs \in 0 .. MaxNavs /\ fetches \in 0 .. MaxFetches /\ renders \in 0 .. MaxRenders
    BY <1>5 DEF Init
  <2>2. Len(screen) <= renders /\ timers \subseteq [id : 1 .. renders, survey : Surveys]
    BY DEF Init
  <2>3. dwell = NoDwell /\ at = "idle" /\ todo = {} /\ scripts = {} /\ strays = {}
    BY DEF Init
  <2>4. page \in Pages /\ pending = NoUser /\ {blocked, running, stuck, stale} \subseteq BOOLEAN
    BY DEF Init
  <2>. QED  BY <1>1, <1>2, <1>4, <1>7, <1>8, <2>1, <2>2, <2>3, <2>4 DEF TypeOK, Loading
<1>. QED  BY <1>6, <1>9 DEF TypeInv

LEMMA RunType ==
  ASSUME TypeInv, Run \/ RunAfterFlush
  PROVE  TypeInv'
<1>. USE DEF TypeInv, TypeOK, CommandInv, Loading
<1>1. CASE Run
  <2>1. cmds' \in Seq(Command) /\ cmd' \in Command
    BY <1>1 DEF Run
  <2>2. CASE Waits(cmd')
    BY <1>1, <2>1, <2>2 DEF Run, KeepConfig, counts, browser, delayed
  <2>3. CASE ~Waits(cmd')
    <3>1. Execute(cmd') /\ (cmd'.op = "track" => pending = NoUser)
      BY <1>1, <2>3 DEF Run, Waits
    <3>2. /\ screen' \in Seq(Mounted) /\ Len(screen') = Len(screen)
          /\ live' \subseteq Surveys /\ filtered' \subseteq Surveys /\ person' \in Person
          /\ running' \in BOOLEAN /\ stale' \in BOOLEAN /\ strays' \subseteq 1 .. MaxRenders
          /\ pending' \in Users \cup {NoUser} /\ todo' \subseteq Surveys
          /\ at' = "idle" \/ (at' = "loop" /\ cmd'.op = "track" /\ pending' = NoUser)
      BY <2>1, <3>1, ExecuteType
    <3>. QED  BY <1>1, <2>1, <3>2 DEF Run, counts, browser, delayed
  <2>. QED  BY <2>2, <2>3
<1>2. CASE RunAfterFlush
  <2>1. /\ screen' \in Seq(Mounted) /\ Len(screen') = Len(screen)
        /\ live' \subseteq Surveys /\ filtered' \subseteq Surveys /\ person' \in Person
        /\ running' \in BOOLEAN /\ stale' \in BOOLEAN /\ strays' \subseteq 1 .. MaxRenders
        /\ pending' \in Users \cup {NoUser} /\ todo' \subseteq Surveys
        /\ at' = "idle" \/ (at' = "loop" /\ cmd.op = "track" /\ pending' = NoUser)
    BY <1>2, ExecuteType DEF RunAfterFlush
  <2>. QED  BY <1>2, <2>1 DEF RunAfterFlush, counts, browser, delayed
<1>. QED  BY <1>1, <1>2

LEMMA TriggerSurveyType ==
  ASSUME TypeInv, TriggerSurvey
  PROVE  TypeInv'
<1>. USE DEF TypeInv, TypeOK, CommandInv, Loading
<1>1. CASE todo = {} /\ at' = "idle" /\ UNCHANGED <<todo, cur, running, strays>>
  BY <1>1 DEF TriggerSurvey, counts, browser, delayed, users
<1>2. ASSUME NEW s \in todo, todo' = todo \ {s},
             \/ UNCHANGED <<at, cur, running, strays>>
             \/ /\ IsFree /\ renders < MaxRenders /\ running' = TRUE /\ cur' = s /\ at' = "load"
                /\ strays' = strays \ {renders + 1}
      PROVE  TypeInv'
  BY <1>2 DEF TriggerSurvey, counts, browser, delayed, users
<1>. QED  BY <1>1, <1>2 DEF TriggerSurvey

LEMMA LoadDoneType ==
  ASSUME TypeInv, LoadDone
  PROVE  TypeInv'
BY DEF TypeInv, TypeOK, CommandInv, Loading, LoadDone, LibraryLoaded, counts, browser, delayed, users

LEMMA CaptchaDoneType ==
  ASSUME TypeInv, CaptchaDone
  PROVE  TypeInv'
<1>. USE DEF TypeInv, TypeOK, CommandInv, Loading
<1>1. CASE CaptchaFails
  BY <1>1 DEF CaptchaDone, CaptchaFails, counts, browser, delayed, users
<1>2. CASE SetTimer
  <2>. DEFINE t == [id |-> renders', survey |-> cur]
  <2>1. renders \in Nat /\ renders' = renders + 1 /\ renders' <= MaxRenders /\ MaxRenders \in Nat
    BY <1>2, OthersAssumption DEF CaptchaDone, SetTimer
  <2>2. IsFiniteSet(timers') /\ Cardinality(timers') <= Cardinality(timers) + 1
    <3>1. timers' = timers \cup {t}
      BY <1>2 DEF SetTimer
    <3>. HIDE DEF t
    <3>2. Cardinality(timers) \in Nat
      BY FS_CardinalityType
    <3>3. /\ IsFiniteSet(timers \cup {t})
          /\ Cardinality(timers \cup {t}) = IF t \in timers THEN Cardinality(timers) ELSE Cardinality(timers) + 1
      BY FS_AddElement
    <3>. QED  BY <3>1, <3>2, <3>3
  <2>3. Cardinality(timers) \in Nat /\ Cardinality(timers') \in Nat
    BY <2>2, FS_CardinalityType
  <2>4. cmd.arg \in Actions
    BY DEF CaptchaDone, Command
  <2>5. /\ timers' \subseteq [id : 1 .. renders', survey : Surveys]
        /\ stack' \subseteq [id : 1 .. renders', action : Actions]
    BY <1>2, <2>1, <2>4 DEF CaptchaDone, SetTimer
  <2>6. CommandInv'
    BY <1>2, <2>1, <2>2, <2>3 DEF CaptchaDone, SetTimer
  <2>. QED  BY <1>2, <2>1, <2>5, <2>6 DEF CaptchaDone, SetTimer, counts, browser, users
<1>. QED  BY <1>1, <1>2 DEF CaptchaDone

LEMMA DelayEndsType ==
  ASSUME TypeInv, DelayEnds
  PROVE  TypeInv'
<1>. USE DEF TypeInv, TypeOK, CommandInv, Loading
<1>1. PICK t \in timers : Render(t)
  BY DEF DelayEnds
<1>. DEFINE m == [id |-> t.id, survey |-> t.survey, user |-> person.user, dom |-> TRUE,
                  view |-> "open", display |-> "creating"]
<1>2. m \in Mounted
  <2>1. t.id \in 1 .. MaxRenders
    BY OthersAssumption
  <2>. QED  BY <2>1 DEF Mounted, Person
<1>3. screen' \in Seq(Mounted) /\ Len(screen') = Len(screen) + 1
  <2>1. screen' = Append(screen, m)
    BY <1>1 DEF Render
  <2>. HIDE DEF m
  <2>. QED  BY <1>2, <2>1
<1>4. /\ IsFiniteSet(timers') /\ Cardinality(timers') = Cardinality(timers) - 1
      /\ Cardinality(timers) \in Nat /\ Cardinality(timers') \in Nat
  BY <1>1, FS_RemoveElement, FS_CardinalityType DEF Render
<1>5. timers' \subseteq timers
  BY <1>1 DEF Render
<1>6. CommandInv'
  BY <1>3, <1>4 DEF DelayEnds, command
<1>7. timers' \subseteq [id : 1 .. renders', survey : Surveys] /\ Len(screen') <= renders'
  BY <1>3, <1>4, <1>5 DEF DelayEnds
<1>. HIDE DEF m, CommandInv
<1>. QED  BY <1>3, <1>6, <1>7 DEF DelayEnds, counts, browser, command, delayed, users

LEMMA DisplayDoneType ==
  ASSUME TypeInv, DisplayDone
  PROVE  TypeInv'
<1>. USE DEF TypeInv, TypeOK
<1>1. PICK i \in DOMAIN screen :
        /\ screen[i].display = "creating"
        /\ screen' = [screen EXCEPT ![i].display = "ended"]
        /\ \/ KeepConfig /\ UNCHANGED contacts
           \/ RecordDisplay(screen[i].survey) /\ OnContact(screen[i], "displays")
  BY DEF DisplayDone
<1>2. screen[i] \in Mounted
  OBVIOUS
<1>3. screen' \in Seq(Mounted) /\ Len(screen') = Len(screen)
  <2>1. [screen[i] EXCEPT !.display = "ended"] \in Mounted
    BY <1>2 DEF Mounted
  <2>2. screen' = [screen EXCEPT ![i] = [screen[i] EXCEPT !.display = "ended"]]
    BY <1>1
  <2>. QED  BY <2>1, <2>2
<1>4. /\ live' \subseteq Surveys /\ filtered' \subseteq Surveys /\ person' \in Person
      /\ stale' \in BOOLEAN
      /\ contacts' \in [Users -> [displays : SUBSET Surveys, responses : SUBSET Surveys]]
  <2>1. CASE KeepConfig /\ UNCHANGED contacts
    BY <2>1 DEF KeepConfig
  <2>2. CASE RecordDisplay(screen[i].survey) /\ OnContact(screen[i], "displays")
    <3>1. screen[i].survey \in Surveys /\ screen[i].user \in Users \cup {NoUser}
      BY <1>2 DEF Mounted
    <3>. QED  BY <2>2, <3>1, FilterType DEF RecordDisplay, UpdateConfig, OnContact, Person
  <2>. QED  BY <1>1, <2>1, <2>2
<1>. QED  BY <1>3, <1>4 DEF DisplayDone, CommandInv, Loading, counts, browser, command, delayed

LEMMA AnswerType ==
  ASSUME TypeInv, Answer
  PROVE  TypeInv'
<1>. USE DEF TypeInv, TypeOK
<1>1. PICK i \in DOMAIN screen :
        /\ UpdateConfig(live, [person EXCEPT !.responses = @ \cup {screen[i].survey}])
        /\ OnContact(screen[i], "responses")
  BY DEF Answer
<1>2. screen[i] \in Mounted
  OBVIOUS
<1>4. screen[i].survey \in Surveys /\ screen[i].user \in Users \cup {NoUser}
  BY <1>2 DEF Mounted
<1>5. /\ live' \subseteq Surveys /\ filtered' \subseteq Surveys /\ person' \in Person
      /\ stale' \in BOOLEAN
      /\ contacts' \in [Users -> [displays : SUBSET Surveys, responses : SUBSET Surveys]]
  BY <1>1, <1>4, FilterType DEF UpdateConfig, OnContact, Person
<1>. QED  BY <1>5 DEF Answer, CommandInv, Loading, counts, browser, command, delayed

LEMMA CloseStepType ==
  ASSUME TypeInv, Close
  PROVE  TypeInv'
<1>. USE DEF TypeInv, TypeOK
<1>1. PICK i \in DOMAIN screen : screen' = [screen EXCEPT ![i].view = "closing"]
  BY DEF Close
<1>2. screen[i] \in Mounted
  OBVIOUS
<1>3. screen' \in Seq(Mounted) /\ Len(screen') = Len(screen)
  <2>1. [screen[i] EXCEPT !.view = "closing"] \in Mounted
    BY <1>2 DEF Mounted
  <2>2. screen' = [screen EXCEPT ![i] = [screen[i] EXCEPT !.view = "closing"]]
    BY <1>1
  <2>. QED  BY <2>1, <2>2
<1>. QED  BY <1>3 DEF Close, CommandInv, Loading, counts, browser, command, delayed, users

LEMMA ClosedType ==
  ASSUME TypeInv, Closed
  PROVE  TypeInv'
<1>1. PICK i \in DOMAIN screen : CloseSurvey([screen EXCEPT ![i].view = "closed"], person)
  BY DEF Closed
<1>2. screen \in Seq(Mounted) /\ person \in Person
  BY DEF TypeInv, TypeOK
<1>3. screen[i] \in Mounted
  BY <1>2
<1>4. [screen EXCEPT ![i].view = "closed"] \in Seq(Mounted) /\ Len([screen EXCEPT ![i].view = "closed"]) = Len(screen)
  BY <1>2, <1>3 DEF Mounted
<1>5. /\ screen' \in Seq(Mounted) /\ Len(screen') = Len(screen)
      /\ live' \subseteq Surveys /\ filtered' \subseteq Surveys /\ person' \in Person
      /\ running' \in BOOLEAN /\ stale' \in BOOLEAN
  BY <1>1, <1>2, <1>4, CloseType
<1>6. strays' \subseteq 1 .. MaxRenders
  <2>1. Alive(timers, screen') \cup InLoading \subseteq 1 .. MaxRenders
    BY <1>5, AliveType
  <2>. QED  BY <2>1 DEF Closed, LoseFlag, TypeInv, TypeOK
<1>. QED  BY <1>5, <1>6 DEF Closed, TypeInv, TypeOK, CommandInv, Loading, counts, browser, command, delayed

LEMMA NavigateType ==
  ASSUME TypeInv, Navigate
  PROVE  TypeInv'
<1>. USE DEF TypeInv, TypeOK
<1>1. \E ids : Remove(ids)
  BY DEF Navigate, EnterPage, LeavePage
<1>2. /\ stack' \subseteq stack /\ timers' \subseteq timers /\ running' \in BOOLEAN
  BY <1>1 DEF Remove
<1>10. strays' \subseteq 1 .. MaxRenders
  <2>1. Alive(timers', screen) \cup InLoading \subseteq 1 .. MaxRenders
    BY <1>2, AliveType
  <2>. QED  BY <1>1, <2>1 DEF Remove, LoseFlag
<1>3. IsFiniteSet(timers') /\ Cardinality(timers') <= Cardinality(timers)
  BY <1>2, FS_Subset DEF CommandInv
<1>4. Cardinality(timers') \in Nat /\ Cardinality(timers) \in Nat
  BY <1>3, FS_CardinalityType DEF CommandInv
<1>5. CommandInv'
  BY <1>3, <1>4 DEF Navigate, CommandInv, Loading
<1>6. navs' \in 0 .. MaxNavs
  BY OthersAssumption DEF Navigate
<1>7. cmds' \in Seq(Command) /\ dwell' \in {NoDwell} \cup [status : {"running", "fired"}, page : Matching]
  <2>1. [op |-> "track", arg |-> "page"] \in Command
    BY DEF Command, Actions
  <2>2. CASE page' \in Matching
    <3>1. /\ cmds' = Append(cmds, [op |-> "track", arg |-> "page"])
          /\ dwell' = IF dwell.page = page' THEN dwell ELSE [status |-> "running", page |-> page']
      BY <2>2 DEF Navigate, EnterPage
    <3>2. cmds' \in Seq(Command)
      BY <2>1, <3>1
    <3>. QED  BY <2>2, <3>1, <3>2
  <2>3. CASE page' \notin Matching
    BY <2>3 DEF Navigate, LeavePage
  <2>. QED  BY <2>2, <2>3
<1>8. page' \in Pages
  BY DEF Navigate
<1>9. timers' \subseteq [id : 1 .. renders', survey : Surveys] /\ stack' \subseteq [id : 1 .. renders', action : Actions]
  BY <1>2 DEF Navigate
<1>11. UNCHANGED <<calls, fetches, blocked, at, cmd, todo, cur, scripts, renders, screen,
                    live, person, pending, contacts, filtered, fetch, stuck, stale>>
  BY DEF Navigate, users
<1>. HIDE DEF CommandInv
<1>. QED  BY <1>2, <1>5, <1>6, <1>7, <1>8, <1>9, <1>10, <1>11 DEF Loading

LEMMA PageStepType ==
  ASSUME TypeInv, DwellEnds \/ Call
  PROVE  TypeInv'
<1>. USE DEF TypeInv, TypeOK, CommandInv, Loading
<1>1. CASE DwellEnds
  <2>1. [op |-> "track", arg |-> "dwell"] \in Command
    BY DEF Command, Actions
  <2>2. cmds' \in Seq(Command)
    BY <1>1, <2>1 DEF DwellEnds
  <2>3. dwell \in [status : {"running", "fired"}, page : Matching]
    <3>1. NoDwell.status # "running"
      BY DEF NoDwell
    <3>. QED  BY <1>1, <3>1 DEF DwellEnds
  <2>4. dwell' \in [status : {"running", "fired"}, page : Matching]
    BY <1>1, <2>3 DEF DwellEnds
  <2>. QED  BY <1>1, <2>2, <2>4 DEF DwellEnds, counts, delayed, users
<1>2. CASE Call
  <2>1. cmds' \in Seq(Command) /\ calls' \in 0 .. MaxCalls
    BY <1>2, OthersAssumption DEF Call
  <2>. QED  BY <1>2, <2>1 DEF Call, browser, delayed, users
<1>. QED  BY <1>1, <1>2

LEMMA IdentifiedType ==
  ASSUME TypeInv, Identified
  PROVE  TypeInv'
<1>. USE DEF TypeInv, TypeOK, CommandInv, Loading
<1>1. live' \subseteq Surveys /\ filtered' \subseteq Surveys /\ person' \in Person /\ stale' \in BOOLEAN
  <2>1. CASE KeepConfig
    BY <2>1 DEF KeepConfig
  <2>2. CASE UpdateConfig(live, [user |-> pending, displays |-> contacts[pending].displays,
                                 responses |-> contacts[pending].responses,
                                 recent |-> contacts[pending].displays # {}])
    <3>1. contacts[pending] \in [displays : SUBSET Surveys, responses : SUBSET Surveys]
      BY DEF Identified
    <3>. QED  BY <2>2, <3>1, FilterType DEF UpdateConfig, Person
  <2>. QED  BY <2>1, <2>2 DEF Identified
<1>2. pending' = NoUser
  BY DEF Identified
<1>. QED  BY <1>1, <1>2 DEF Identified, counts, browser, command, delayed

LEMMA FetchType ==
  ASSUME TypeInv, FetchWorkspace \/ FetchDone
  PROVE  TypeInv'
<1>. USE DEF TypeInv, TypeOK, CommandInv, Loading
<1>1. CASE FetchWorkspace
  <2>1. fetches' \in 0 .. MaxFetches
    BY <1>1, OthersAssumption DEF FetchWorkspace
  <2>. QED  BY <1>1, <2>1 DEF FetchWorkspace, browser, command, delayed, users
<1>2. CASE FetchDone
  <2>1. live' \subseteq Surveys /\ filtered' \subseteq Surveys /\ stale' \in BOOLEAN /\ fetch' \in Person
    BY <1>2, OthersAssumption, FilterType, DefaultType DEF FetchDone
  <2>. QED  BY <1>2, <2>1 DEF FetchDone, counts, browser, command, delayed, users
<1>. QED  BY <1>1, <1>2

LEMMA StepType ==
  ASSUME TypeInv, [Next]_vars
  PROVE  TypeInv'
<1>1. CASE UNCHANGED vars
  BY <1>1 DEF TypeInv, TypeOK, CommandInv, Loading, vars, counts, browser, command, delayed, users
<1>2. CASE Next
  BY <1>2, RunType, TriggerSurveyType, LoadDoneType, CaptchaDoneType, DelayEndsType, DisplayDoneType,
     AnswerType, CloseStepType, ClosedType, NavigateType, PageStepType, IdentifiedType, FetchType
     DEF Next, SdkStep
<1>. QED  BY <1>1, <1>2

(* The state has its types, a survey on screen or waiting had its timer    *)
(* set, and no survey is looked for or rendered while an identification is *)
(* awaited (widget.ts:66-82).                                              *)
THEOREM TypeCorrect == Spec => []TypeOK
<1>1. Spec => []TypeInv
  BY InitType, StepType, PTL DEF Spec
<1>. QED  BY <1>1, PTL DEF TypeInv

-----------------------------------------------------------------------------
(* filteredSurveys is what filterSurveys gives for the user and the        *)
(* surveys of now, but for a refresh that began before the user changed    *)
(* (workspace/state.ts:88-96).                                             *)
THEOREM FilterIsCurrent == Spec => []FilteredIsCurrent
<1>1. Init => FilteredIsCurrent
  BY DEF Init, FilteredIsCurrent
<1>2. FilteredIsCurrent /\ [Next]_vars => FilteredIsCurrent'
  <2>. SUFFICES ASSUME FilteredIsCurrent, [Next]_vars PROVE FilteredIsCurrent'
    OBVIOUS
  <2>. USE DEF FilteredIsCurrent
  <2>1. ASSUME NEW surveys, NEW p, UpdateConfig(surveys, p) PROVE FilteredIsCurrent'
    BY <2>1 DEF UpdateConfig, FilterSurveys, Eligible
  <2>2. ASSUME KeepConfig PROVE FilteredIsCurrent'
    BY <2>2 DEF KeepConfig, FilterSurveys, Eligible
  <2>3. ASSUME UNCHANGED <<live, users, filtered, stale>> PROVE FilteredIsCurrent'
    BY <2>3 DEF users, FilterSurveys, Eligible
  <2>4. ASSUME NEW scr, NEW p, CloseSurvey(scr, p) PROVE FilteredIsCurrent'
    BY <2>1, <2>4 DEF CloseSurvey
  <2>5. ASSUME NEW c, Execute(c) PROVE FilteredIsCurrent'
    BY <2>2, <2>4, <2>5 DEF Execute, SetUserId, Track, TearDown
  <2>6. CASE Run \/ RunAfterFlush
    BY <2>2, <2>5, <2>6 DEF Run, RunAfterFlush
  <2>7. CASE TriggerSurvey \/ LoadDone \/ CaptchaDone \/ DelayEnds \/ Close \/ Navigate \/ DwellEnds
               \/ Call \/ FetchWorkspace
    BY <2>3, <2>7 DEF TriggerSurvey, LoadDone, CaptchaDone, DelayEnds, Close, Navigate, DwellEnds, Call,
       FetchWorkspace
  <2>8. CASE Identified
    BY <2>1, <2>2, <2>8 DEF Identified
  <2>9. CASE DisplayDone \/ Answer
    BY <2>1, <2>2, <2>9 DEF DisplayDone, Answer, RecordDisplay
  <2>10. CASE Closed
    BY <2>4, <2>10 DEF Closed
  <2>11. CASE FetchDone
    <3>1. CASE UNCHANGED <<live, filtered, stale>>
      BY <2>3, <2>11, <3>1 DEF FetchDone
    <3>2. CASE filtered' = FilterSurveys(live', fetch) /\ stale' = (fetch # person)
      BY <2>11, <3>2 DEF FetchDone, users, FilterSurveys, Eligible
    <3>. QED  BY <2>11, <3>1, <3>2 DEF FetchDone
  <2>12. CASE UNCHANGED vars
    BY <2>3, <2>12 DEF vars
  <2>. QED  BY <2>6, <2>7, <2>8, <2>9, <2>10, <2>11, <2>12 DEF Next, SdkStep
<1>. QED  BY <1>1, <1>2, PTL DEF Spec

-----------------------------------------------------------------------------
\* what RunningHasCause asks for
Cause ==
  \/ Loading
  \/ timers # {}
  \/ \E i \in DOMAIN screen :
       screen[i].view = "closing" \/ (screen[i].dom /\ screen[i].view = "open")

CauseInv == running /\ ~stuck => Cause

LEMMA CauseKept ==
  ASSUME CauseInv, UNCHANGED <<at, timers, screen, running>>, stuck => stuck'
  PROVE  CauseInv'
BY DEF CauseInv, Cause, Loading

\* with the flag cleared there is nothing to show
LEMMA CauseOfClosing ==
  ASSUME NEW scr, NEW p, CloseSurvey(scr, p)
  PROVE  CauseInv'
BY DEF CauseInv, CloseSurvey

LEMMA CauseStep ==
  ASSUME TypeInv, CauseInv, [Next]_vars
  PROVE  CauseInv'
<1>1. CASE Run \/ RunAfterFlush
  <2>1. ASSUME UNCHANGED <<screen, running>> PROVE CauseInv'
    BY <1>1, <2>1 DEF Run, RunAfterFlush, delayed, CauseInv, Cause, Loading
  <2>2. ASSUME NEW c, Execute(c) PROVE CauseInv'
    BY <2>1, <2>2, CauseOfClosing DEF Execute, SetUserId, Track, TearDown
  <2>. QED  BY <1>1, <2>1, <2>2 DEF Run, RunAfterFlush
<1>2. CASE TriggerSurvey
  BY <1>2 DEF TriggerSurvey, delayed, CauseInv, Cause, Loading
<1>3. CASE LoadDone
  BY <1>3 DEF LoadDone, LibraryLoaded, delayed, CauseInv, Cause, Loading
<1>4. CASE CaptchaDone
  BY <1>4 DEF CaptchaDone, CaptchaFails, SetTimer, CauseInv, Cause, Loading
<1>5. CASE DelayEnds
  <2>1. screen \in Seq(Mounted)
    BY DEF TypeInv, TypeOK
  <2>2. PICK t \in timers : Render(t)
    BY <1>5 DEF DelayEnds
  <2>3. /\ Len(screen) + 1 \in DOMAIN screen'
        /\ screen'[Len(screen) + 1].dom /\ screen'[Len(screen) + 1].view = "open"
    BY <2>1, <2>2 DEF Render
  <2>. QED  BY <2>3 DEF CauseInv, Cause
<1>6. CASE DisplayDone
  <2>1. PICK i \in DOMAIN screen : screen' = [screen EXCEPT ![i].display = "ended"]
    BY <1>6 DEF DisplayDone
  <2>2. /\ DOMAIN screen' = DOMAIN screen
        /\ \A k \in DOMAIN screen : screen'[k].dom = screen[k].dom /\ screen'[k].view = screen[k].view
    BY <2>1 DEF TypeInv, TypeOK, Mounted
  <2>. QED  BY <1>6, <2>2 DEF DisplayDone, command, delayed, CauseInv, Cause, Loading
<1>7. CASE Answer
  BY <1>7, CauseKept DEF Answer, command, delayed
<1>8. CASE Close
  <2>1. PICK i \in DOMAIN screen : screen' = [screen EXCEPT ![i].view = "closing"]
    BY <1>8 DEF Close
  <2>2. screen[i] \in Mounted
    BY DEF TypeInv, TypeOK
  <2>3. i \in DOMAIN screen' /\ screen'[i] = [screen[i] EXCEPT !.view = "closing"]
    BY <2>1 DEF TypeInv, TypeOK
  <2>4. screen'[i].view = "closing"
    BY <2>2, <2>3 DEF Mounted
  <2>. QED  BY <2>3, <2>4 DEF CauseInv, Cause
<1>9. CASE Closed
  BY <1>9, CauseOfClosing DEF Closed
<1>10. CASE Navigate
  <2>1. CASE page' \in Matching
    <3>1. Remove({})
      BY <1>10, <2>1 DEF Navigate, EnterPage
    <3>2. UNCHANGED timers /\ running' = (running /\ {} = {})
      BY <3>1 DEF Remove
    <3>3. UNCHANGED running
      BY <3>2 DEF TypeInv, TypeOK
    <3>. QED  BY <1>10, <3>2, <3>3, CauseKept DEF Navigate
  <2>2. CASE page' \notin Matching
    <3>1. PICK ids : Remove(ids)
      BY <1>10, <2>2 DEF Navigate, LeavePage
    <3>2. CASE ids = {}
      <4>1. UNCHANGED <<timers, running>>
        BY <3>1, <3>2 DEF Remove, TypeInv, TypeOK
      <4>. QED  BY <1>10, <4>1, CauseKept DEF Navigate
    <3>3. CASE ids # {}
      BY <3>1, <3>3 DEF Remove, CauseInv
    <3>. QED  BY <3>2, <3>3
  <2>. QED  BY <2>1, <2>2
<1>11. CASE DwellEnds \/ Call \/ Identified \/ FetchWorkspace \/ FetchDone
  BY <1>11, CauseKept DEF DwellEnds, Call, Identified, FetchWorkspace, FetchDone, command, delayed
<1>12. CASE UNCHANGED vars
  BY <1>12, CauseKept DEF vars, command, delayed
<1>. QED  BY <1>1, <1>2, <1>3, <1>4, <1>5, <1>6, <1>7, <1>8, <1>9, <1>10, <1>11, <1>12 DEF Next, SdkStep

(* The flag isSurveyRunning is never left set with nothing to clear it,    *)
(* unless a reCAPTCHA script has failed to load (widget.ts:128).           *)
THEOREM NeverStuckRunning == Spec => []RunningHasCause
<1>1. Init => CauseInv
  BY DEF Init, CauseInv
<1>2. TypeInv /\ CauseInv => RunningHasCause
  <2>. SUFFICES ASSUME TypeInv, CauseInv, running, ~stuck PROVE RunningHasCause
    BY DEF RunningHasCause
  <2>. QED  BY DEF RunningHasCause, CauseInv, Cause
<1>. QED  BY <1>1, <1>2, InitType, StepType, CauseStep, PTL DEF Spec

-----------------------------------------------------------------------------
\* the surveys of scr are those on screen, and closed if they were
Older(scr) ==
  /\ DOMAIN scr = DOMAIN screen
  /\ \A i \in DOMAIN screen : /\ scr[i].id = screen[i].id
                              /\ screen[i].view = "closed" => scr[i].view = "closed"

LEMMA OlderClosed ==
  ASSUME TypeInv, NEW scr \in Seq(Mounted), Older(scr)
  PROVE  Older(WithoutFirst(scr))
<1>1. /\ Len(WithoutFirst(scr)) = Len(scr) /\ WithoutFirst(scr) \in Seq(Mounted)
      /\ \A i \in DOMAIN scr : /\ WithoutFirst(scr)[i].id = scr[i].id
                               /\ WithoutFirst(scr)[i].view = scr[i].view
  BY WithoutFirstKeeps
<1>2. DOMAIN WithoutFirst(scr) = DOMAIN scr
  BY <1>1
<1>. QED  BY <1>1, <1>2 DEF Older

LEMMA OlderView ==
  ASSUME TypeInv, NEW i \in DOMAIN screen, NEW v \in {"closing", "closed"},
         v # "closed" => screen[i].view # "closed"
  PROVE  /\ [screen EXCEPT ![i].view = v] \in Seq(Mounted)
         /\ Older([screen EXCEPT ![i].view = v])
         /\ [screen EXCEPT ![i].view = v][i].view = v
<1>1. screen \in Seq(Mounted) /\ screen[i] \in Mounted
  BY DEF TypeInv, TypeOK
<1>2. [screen[i] EXCEPT !.view = v] \in Mounted
  BY <1>1 DEF Mounted
<1>3. PICK scr : scr = [screen EXCEPT ![i] = [screen[i] EXCEPT !.view = v]]
  OBVIOUS
<1>4. /\ scr \in Seq(Mounted) /\ DOMAIN scr = DOMAIN screen
      /\ scr[i] = [screen[i] EXCEPT !.view = v]
      /\ \A k \in DOMAIN screen \ {i} : scr[k] = screen[k]
  BY <1>1, <1>2, <1>3
<1>5. scr[i].id = screen[i].id /\ scr[i].view = v
  BY <1>1, <1>4 DEF Mounted
<1>6. Older(scr)
  BY <1>4, <1>5 DEF Older
<1>. QED  BY <1>3, <1>4, <1>5, <1>6

\* every step but those that set a timer and render
LEMMA OtherSteps ==
  ASSUME TypeInv, [Next]_vars, ~DelayEnds, ~(CaptchaDone /\ SetTimer)
  PROVE  Older(screen') /\ timers' \subseteq timers /\ renders' = renders
<1>1. screen \in Seq(Mounted)
  BY DEF TypeInv, TypeOK
<1>2. Older(screen)
  BY DEF Older
<1>3. UNCHANGED screen => Older(screen')
  BY <1>2
<1>4. ASSUME NEW p, CloseSurvey(screen, p) PROVE Older(screen')
  BY <1>1, <1>2, <1>4, OlderClosed DEF CloseSurvey
<1>5. ASSUME NEW c, Execute(c) PROVE Older(screen')
  BY <1>3, <1>4, <1>5 DEF Execute, SetUserId, Track, TearDown
<1>6. CASE Run \/ RunAfterFlush
  BY <1>3, <1>5, <1>6 DEF Run, RunAfterFlush, delayed
<1>7. CASE CaptchaDone
  BY <1>3, <1>7 DEF CaptchaDone, CaptchaFails, delayed
<1>8. CASE DisplayDone
  <2>1. PICK i \in DOMAIN screen : screen' = [screen EXCEPT ![i].display = "ended"]
    BY <1>8 DEF DisplayDone
  <2>2. \A k \in DOMAIN screen : screen[k] \in Mounted
    BY <1>1
  <2>3. Older(screen')
    BY <1>1, <2>1, <2>2 DEF Older, Mounted
  <2>. QED  BY <1>8, <2>3 DEF DisplayDone, delayed
<1>9. CASE Close
  <2>1. PICK i \in DOMAIN screen :
          screen[i].view = "open" /\ screen' = [screen EXCEPT ![i].view = "closing"]
    BY <1>9 DEF Close
  <2>2. Older(screen')
    BY <2>1, OlderView
  <2>. QED  BY <1>9, <2>2 DEF Close, delayed
<1>10. CASE Closed
  <2>1. PICK i \in DOMAIN screen : CloseSurvey([screen EXCEPT ![i].view = "closed"], person)
    BY <1>10 DEF Closed
  <2>2. PICK scr : scr = [screen EXCEPT ![i].view = "closed"]
    OBVIOUS
  <2>3. scr \in Seq(Mounted) /\ Older(scr)
    BY <2>2, OlderView
  <2>4. screen' = WithoutFirst(scr)
    BY <2>1, <2>2 DEF CloseSurvey
  <2>5. Older(screen')
    BY <2>3, <2>4, OlderClosed
  <2>. QED  BY <1>10, <2>5 DEF Closed, delayed
<1>11. CASE Navigate
  BY <1>3, <1>11 DEF Navigate, EnterPage, LeavePage, Remove
<1>12. CASE TriggerSurvey \/ LoadDone \/ Answer \/ DwellEnds \/ Call \/ Identified
              \/ FetchWorkspace \/ FetchDone \/ UNCHANGED vars
  BY <1>3, <1>12 DEF TriggerSurvey, LoadDone, Answer, DwellEnds, Call, Identified, FetchWorkspace,
     FetchDone, delayed, vars
<1>. QED  BY <1>6, <1>7, <1>8, <1>9, <1>10, <1>11, <1>12 DEF Next, SdkStep

\* what a step that renders does
LEMMA Rendered ==
  ASSUME TypeInv, NEW t \in timers, Render(t)
  PROVE  /\ timers' = timers \ {t}
         /\ DOMAIN screen = 1 .. Len(screen) /\ DOMAIN screen' = 1 .. Len(screen) + 1 /\ Len(screen) \in Nat
         /\ \A i \in DOMAIN screen : screen'[i] = screen[i]
         /\ screen'[Len(screen) + 1].id = t.id /\ screen'[Len(screen) + 1].view # "closed"
BY DEF Render, TypeInv, TypeOK

LEMMA IdStep ==
  ASSUME TypeInv, IdInv, [Next]_vars
  PROVE  IdInv'
<1>1. renders \in Nat /\ \A t \in timers : t.id \in 1 .. renders
  BY OthersAssumption DEF TypeInv, TypeOK
<1>2. CASE CaptchaDone /\ SetTimer
  <2>1. PICK n : n = [id |-> renders + 1, survey |-> cur]
    OBVIOUS
  <2>2. renders' = renders + 1 /\ timers' = timers \cup {n} /\ UNCHANGED screen
    BY <1>2, <2>1 DEF CaptchaDone, SetTimer
  <2>3. n.id = renders + 1
    BY <2>1
  <2>. QED  BY <1>1, <2>2, <2>3 DEF IdInv
<1>3. CASE DelayEnds
  <2>1. PICK t \in timers : Render(t)
    BY <1>3 DEF DelayEnds
  <2>2. UNCHANGED renders
    BY <1>3 DEF DelayEnds
  <2>3. /\ timers' = timers \ {t}
        /\ DOMAIN screen = 1 .. Len(screen) /\ DOMAIN screen' = 1 .. Len(screen) + 1 /\ Len(screen) \in Nat
        /\ \A i \in DOMAIN screen : screen'[i] = screen[i]
        /\ screen'[Len(screen) + 1].id = t.id
    BY <2>1, Rendered
  <2>4. \A i \in DOMAIN screen' : \/ i \in DOMAIN screen /\ screen'[i].id = screen[i].id
                                  \/ i = Len(screen) + 1 /\ screen'[i].id = t.id
    BY <2>3
  <2>. QED  BY <1>1, <2>2, <2>3, <2>4 DEF IdInv
<1>4. CASE ~DelayEnds /\ ~(CaptchaDone /\ SetTimer)
  <2>1. Older(screen') /\ timers' \subseteq timers /\ renders' = renders
    BY <1>4, OtherSteps
  <2>. QED  BY <2>1 DEF IdInv, Older
<1>. QED  BY <1>2, <1>3, <1>4

-----------------------------------------------------------------------------
LEMMA AliveKept ==
  ASSUME Older(screen'), timers' \subseteq timers
  PROVE  Alive(timers', screen') \subseteq Alive(timers, screen)
BY DEF Alive, Older

(* A step that brings nothing and keeps the flag keeps OneInv.             *)
LEMMA OneKept ==
  ASSUME OneInv, strays \subseteq strays',
         Alive(timers', screen') \subseteq Alive(timers, screen),
         Loading' => Loading, UNCHANGED renders, running => running'
  PROVE  OneInv'
<1>1. InLoading' \subseteq InLoading
  BY DEF InLoading
<1>2. Holders' = (Alive(timers', screen') \cup InLoading') \ strays'
  BY DEF Holders
<1>3. Holders' \subseteq Holders
  BY <1>1, <1>2 DEF Holders
<1>4. Loading' => Alive(timers', screen') \subseteq strays'
  BY DEF OneInv
<1>5. (Holders' # {} => running') /\ \A x, y \in Holders' : x = y
  BY <1>3 DEF OneInv
<1>. QED  BY <1>4, <1>5 DEF OneInv

(* When none holds the flag OneInv is true whatever the flag is.           *)
LEMMA OneNone ==
  ASSUME Alive(timers', screen') \cup InLoading' \subseteq strays'
  PROVE  OneInv'
<1>1. Holders' = {}
  BY DEF Holders
<1>. QED  BY <1>1 DEF OneInv

(* A survey that loses the flag leaves none that holds it.                 *)
LEMMA OneLost ==
  ASSUME LoseFlag(timers', screen'), InLoading' \subseteq InLoading
  PROVE  OneInv'
BY OneNone DEF LoseFlag

LEMMA TearDownOne ==
  ASSUME TearDown, UNCHANGED delayed, ~Loading'
  PROVE  OneInv'
BY OneLost DEF TearDown, delayed, InLoading

\* nobody holds the flag when it is not set: the next survey is the only one
LEMMA LetInOne ==
  ASSUME TypeInv, IdInv, OneInv, ~running, UNCHANGED <<timers, screen, renders>>,
         running' = TRUE, at' = "load", strays' = strays \ {renders + 1}
  PROVE  OneInv'
<1>1. renders \in Nat /\ \A t \in timers : t.id \in 1 .. renders
  BY OthersAssumption DEF TypeInv, TypeOK
<1>2. Alive(timers, screen) \subseteq strays
  BY DEF OneInv, Holders
<1>3. Alive(timers, screen) \subseteq 1 .. renders
  BY <1>1 DEF Alive, IdInv
<1>4. Alive(timers', screen') = Alive(timers, screen)
  OBVIOUS
<1>5. Alive(timers', screen') \subseteq strays'
  BY <1>1, <1>2, <1>3, <1>4
<1>6. InLoading' = {renders + 1}
  BY DEF InLoading, Loading
<1>7. Holders' = {renders + 1}
  BY <1>5, <1>6 DEF Holders
<1>. QED  BY <1>5, <1>7 DEF OneInv

\* the survey that was loaded waits under its number
LEMMA SetTimerOne ==
  ASSUME TypeInv, OneInv, CaptchaDone, SetTimer
  PROVE  OneInv'
<1>1. PICK n : n = [id |-> renders + 1, survey |-> cur]
  OBVIOUS
<1>2. timers' = timers \cup {n} /\ UNCHANGED <<screen, running, strays>> /\ ~Loading' /\ Loading
  BY <1>1 DEF CaptchaDone, SetTimer, Loading
<1>3. Alive(timers', screen') = Alive(timers, screen) \cup {renders + 1}
  BY <1>1, <1>2 DEF Alive
<1>4. Holders' = Holders
  BY <1>2, <1>3 DEF Holders, InLoading
<1>. QED  BY <1>2, <1>4 DEF OneInv

\* a survey that is rendered keeps its number
LEMMA DelayEndsOne ==
  ASSUME TypeInv, OneInv, DelayEnds
  PROVE  OneInv'
<1>1. PICK t \in timers : Render(t)
  BY DEF DelayEnds
<1>2. /\ timers' = timers \ {t}
      /\ DOMAIN screen = 1 .. Len(screen) /\ DOMAIN screen' = 1 .. Len(screen) + 1 /\ Len(screen) \in Nat
      /\ \A i \in DOMAIN screen : screen'[i] = screen[i]
      /\ screen'[Len(screen) + 1].id = t.id
  BY <1>1, Rendered
<1>3. \A i \in DOMAIN screen' : \/ i \in DOMAIN screen /\ screen'[i] = screen[i]
                                \/ screen'[i].id = t.id
  BY <1>2
<1>4. Alive(timers', screen') \subseteq Alive(timers, screen)
  BY <1>2, <1>3 DEF Alive
<1>. QED  BY <1>4, OneKept DEF DelayEnds, command, Loading

(* The survey whose second of closing is over was the only one that held   *)
(* the flag, or takes it from the one that does.                           *)
LEMMA ClosedOne ==
  ASSUME TypeInv, IdInv, OneInv, Closed
  PROVE  OneInv'
<1>1. PICK i \in DOMAIN screen :
        /\ screen[i].view = "closing"
        /\ CloseSurvey([screen EXCEPT ![i].view = "closed"], person)
        /\ IF screen[i].id \in strays THEN LoseFlag(timers, screen') ELSE UNCHANGED strays
  BY DEF Closed
<1>2. UNCHANGED <<at, timers, renders>>
  BY DEF Closed, command, delayed
<1>3. InLoading' = InLoading
  BY <1>2 DEF InLoading, Loading
<1>4. CASE screen[i].id \in strays
  BY <1>1, <1>2, <1>3, <1>4, OneLost
<1>5. CASE screen[i].id \notin strays
  <2>1. PICK scr : scr = [screen EXCEPT ![i].view = "closed"]
    OBVIOUS
  <2>2. /\ scr \in Seq(Mounted) /\ Older(scr) /\ scr[i].view = "closed"
        /\ screen' = WithoutFirst(scr)
    BY <1>1, <2>1, OlderView DEF CloseSurvey
  <2>3. Older(screen') /\ screen'[i].view = "closed"
    BY <2>2, OlderClosed, WithoutFirstKeeps DEF Older
  <2>4. Alive(timers', screen') \subseteq Alive(timers, screen)
    BY <1>2, <2>3, AliveKept
  <2>5. screen[i].id \in Holders
    BY <1>1, <1>5 DEF Holders, Alive
  <2>6. Holders \subseteq {screen[i].id}
    BY <2>5 DEF OneInv
  <2>7. screen[i].id \notin Alive(timers', screen')
    BY <1>2, <2>3 DEF Alive, Older, IdInv
  <2>8. ~Loading
    BY <1>1, <1>5 DEF OneInv, Alive
  <2>9. InLoading' = {}
    BY <1>3, <2>8 DEF InLoading
  <2>10. Alive(timers', screen') \subseteq strays
    BY <2>4, <2>6, <2>7 DEF Holders
  <2>. QED  BY <1>1, <1>5, <2>9, <2>10, OneNone
<1>. QED  BY <1>4, <1>5

(* A survey that waited and is taken back was the one that held the flag.  *)
LEMMA NavigateOne ==
  ASSUME TypeInv, IdInv, OneInv, Navigate
  PROVE  OneInv'
<1>1. UNCHANGED <<at, screen, renders>>
  BY DEF Navigate
<1>2. InLoading' = InLoading
  BY <1>1 DEF InLoading, Loading
<1>3. PICK ids : Remove(ids)
  BY DEF Navigate, EnterPage, LeavePage
<1>4. timers' = {t \in timers : t.id \notin ids} /\ running' = (running /\ ids = {})
  BY <1>3 DEF Remove
<1>5. Alive(timers', screen') \subseteq Alive(timers, screen)
  BY <1>1, <1>4 DEF Alive
<1>6. CASE ids = {}
  <2>1. UNCHANGED strays /\ (running => running')
    BY <1>3, <1>4, <1>6 DEF Remove
  <2>. QED  BY <1>1, <1>5, <2>1, OneKept DEF Loading
<1>7. CASE ~(ids \subseteq {t.id : t \in timers} \ strays)
  <2>1. LoseFlag(timers', screen')
    BY <1>1, <1>3, <1>7 DEF Remove
  <2>. QED  BY <1>2, <2>1, OneLost
<1>8. CASE ids # {} /\ ids \subseteq {t.id : t \in timers} \ strays
  <2>1. UNCHANGED strays
    BY <1>3, <1>8 DEF Remove
  <2>2. PICK x \in ids : x \in Holders
    BY <1>8 DEF Holders, Alive
  <2>3. Holders \subseteq {x}
    BY <2>2 DEF OneInv
  <2>4. x \notin Alive(timers', screen')
    <3>1. \A t \in timers' : t.id # x
      BY <1>4, <2>2
    <3>2. PICK t \in timers : t.id = x
      BY <1>8, <2>2
    <3>3. \A i \in DOMAIN screen' : screen'[i].id # x
      BY <1>1, <3>2 DEF IdInv
    <3>. QED  BY <3>1, <3>3 DEF Alive
  <2>5. ~Loading
    BY <1>8, <2>2 DEF OneInv, Alive
  <2>6. InLoading' = {}
    BY <1>2, <2>5 DEF InLoading
  <2>7. Alive(timers', screen') \subseteq strays
    BY <1>5, <2>3, <2>4 DEF Holders
  <2>. QED  BY <2>1, <2>6, <2>7, OneNone
<1>. QED  BY <1>6, <1>7, <1>8

LEMMA OneStep ==
  ASSUME TypeInv, IdInv, OneInv, [Next]_vars
  PROVE  OneInv'
<1>1. ASSUME Alive(timers', screen') \subseteq Alive(timers, screen), UNCHANGED <<renders, running, strays>>,
             Loading' => Loading
      PROVE  OneInv'
  BY <1>1, OneKept
<1>2. ASSUME UNCHANGED <<timers, screen, renders, running, strays>>, Loading' => Loading PROVE OneInv'
  BY <1>1, <1>2
<1>3. ASSUME UNCHANGED delayed, NEW c, Execute(c) PROVE OneInv'
  <2>1. ~Loading'
    BY <1>3 DEF Execute, Track, Loading
  <2>2. CASE TearDown
    BY <1>3, <2>1, <2>2, TearDownOne
  <2>3. CASE UNCHANGED <<screen, running, strays>>
    BY <1>2, <1>3, <2>1, <2>3 DEF delayed
  <2>. QED  BY <1>3, <2>2, <2>3 DEF Execute, SetUserId, Track
<1>4. CASE Run
  <2>1. CASE Waits(cmd') /\ at' = "flush" /\ UNCHANGED <<screen, running, strays>>
    BY <1>2, <1>4, <2>1 DEF Run, delayed, Loading
  <2>2. CASE Execute(cmd')
    BY <1>3, <1>4, <2>2 DEF Run
  <2>. QED  BY <1>4, <2>1, <2>2 DEF Run
<1>5. CASE RunAfterFlush
  BY <1>3, <1>5 DEF RunAfterFlush
<1>6. CASE TriggerSurvey
  <2>1. CASE at' \in {at, "idle"} /\ UNCHANGED <<running, strays>>
    BY <1>2, <1>6, <2>1 DEF TriggerSurvey, delayed, Loading
  <2>2. CASE IsFree /\ running' = TRUE /\ at' = "load" /\ strays' = strays \ {renders + 1}
    BY <1>6, <2>2, LetInOne DEF TriggerSurvey, delayed, IsFree
  <2>. QED  BY <1>6, <2>1, <2>2 DEF TriggerSurvey
<1>7. CASE LoadDone
  <2>1. UNCHANGED <<timers, screen, renders, strays>> /\ Loading
    BY <1>7 DEF LoadDone, LibraryLoaded, delayed, Loading
  <2>2. CASE UNCHANGED running
    BY <1>2, <2>1, <2>2
  <2>3. CASE at' = "loop"
    <3>1. InLoading' = {}
      BY <2>3 DEF InLoading, Loading
    <3>2. Alive(timers', screen') \subseteq strays'
      BY <2>1 DEF OneInv
    <3>. QED  BY <3>1, <3>2, OneNone
  <2>. QED  BY <1>7, <2>2, <2>3 DEF LoadDone, LibraryLoaded
<1>8. CASE CaptchaDone
  <2>1. CASE CaptchaFails
    BY <1>2, <1>8, <2>1 DEF CaptchaDone, CaptchaFails, delayed, Loading
  <2>2. CASE SetTimer
    BY <1>8, <2>2, SetTimerOne
  <2>. QED  BY <1>8, <2>1, <2>2 DEF CaptchaDone
<1>9. CASE DisplayDone \/ Close
  <2>1. UNCHANGED delayed /\ renders \in Nat
    BY <1>9, OthersAssumption DEF DisplayDone, Close, TypeInv, TypeOK
  <2>2. Alive(timers', screen') \subseteq Alive(timers, screen)
    <3>1. ~(CaptchaDone /\ SetTimer)
      BY <2>1 DEF delayed, SetTimer
    <3>2. ~DelayEnds
      BY <2>1 DEF delayed, DelayEnds, Render
    <3>. QED  BY <3>1, <3>2, OtherSteps, AliveKept
  <2>. QED  BY <1>1, <1>9, <2>2 DEF DisplayDone, Close, command, delayed, Loading
<1>10. CASE Answer \/ DwellEnds \/ Call \/ Identified \/ FetchWorkspace \/ FetchDone \/ UNCHANGED vars
  BY <1>2, <1>10 DEF Answer, DwellEnds, Call, Identified, FetchWorkspace, FetchDone, command, delayed,
     vars, Loading
<1>. QED  BY <1>4, <1>5, <1>6, <1>7, <1>8, <1>9, <1>10, DelayEndsOne, ClosedOne, NavigateOne
     DEF Next, SdkStep

-----------------------------------------------------------------------------
(* A set without two different members has at most one.                    *)
LEMMA AtMostOne ==
  ASSUME NEW S, \A x, y \in S : x = y
  PROVE  Cardinality(S) <= 1
<1>1. CASE S = {}
  BY <1>1, FS_EmptySet
<1>2. CASE S # {}
  <2>1. PICK x \in S : S = {x}
    BY <1>2
  <2>2. Cardinality(S) = 1
    BY <2>1, FS_Singleton
  <2>. QED  BY <2>2
<1>. QED  BY <1>1, <1>2

(* One survey at a time, from the flag to the end of its second of closing *)
(* (widget.ts:58-63), among those the flag has not been taken from by a    *)
(* teardown, a navigation or the end of a survey that had lost it - also   *)
(* when such surveys are still on screen, and are closed by Escape or a    *)
(* click outside after their container is gone.                            *)
THEOREM OneSurveyAtATime == Spec => []OneAtATime
<1>1. Init => IdInv /\ OneInv
  <2>. SUFFICES ASSUME Init PROVE IdInv /\ OneInv
    OBVIOUS
  <2>1. timers = {} /\ screen = <<>> /\ ~Loading
    BY DEF Init, Loading
  <2>2. IdInv /\ Alive(timers, screen) \cup InLoading = {}
    BY <2>1 DEF IdInv, Alive, InLoading
  <2>. QED  BY <2>1, <2>2 DEF OneInv, Holders
<1>2. OneInv => OneAtATime
  BY AtMostOne DEF OneInv, OneAtATime
<1>. QED  BY <1>1, <1>2, InitType, StepType, IdStep, OneStep, PTL DEF Spec

=============================================================================
