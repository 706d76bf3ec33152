-------------------------- MODULE SdkQueues_proofs --------------------------
(***************************************************************************)
(* Proofs about SdkQueues for every number of calls and every set of users.*)
(*                                                                         *)
(* LogoutSticks is not inductive.  That a reply does not bring back a user *)
(* of before the logout rests on logout having waited for the flush, and   *)
(* the queue asks whether there are updates, not whether there is a flush: *)
(* FlushInv says that there are either both or none.                       *)
(***************************************************************************)
EXTENDS SdkQueues, SequenceTheorems, WellFoundedInduction, TLAPS

KnownUsers   == {NoUser} \cup (Users \ LongIds)
KnownUpdates == [user : KnownUsers, attrs : SUBSET Calls]
PageCommands == {c \in Command : c.op = "setUserId" => c.user # NoUser}

DataInv ==
  /\ isSetup \in BOOLEAN /\ saved \in {"fits", "none", "error"}
  /\ user \in KnownUsers /\ lang \in 0 .. MaxCalls
  /\ updates \in KnownUpdates /\ sending \in KnownUpdates
  /\ stored \in [Users -> SUBSET Calls]
  /\ langs \subseteq Calls /\ allowed \subseteq Users /\ lost \subseteq Calls
  /\ owner \subseteq Calls \X (Users \cup {NoUser})

FlushInv ==
  /\ flush \in {"none", "debounce", "sending"}
  /\ flush = "none" <=> isEmpty
  /\ ~isSetup => isEmpty
  /\ updates.user = NoUser /\ ~isEmpty => user = NoUser

UserInv ==
  /\ user # NoUser => user \in allowed
  /\ updates.user # NoUser => updates.user \in allowed
  /\ flush = "sending" => sending.user # NoUser /\ sending.user \in allowed

StateInv == DataInv /\ FlushInv /\ UserInv

LoopInv ==
  /\ calls \in 0 .. MaxCalls /\ cmds \in Seq(PageCommands)
  /\ at \in {"loop", "flush", "setup"}
  /\ now \in Command \cup {[op |-> "setup", n |-> 0, user |-> NoUser]}
  /\ at = "flush" => now \in PageCommands /\ now.op \in General /\ isSetup
  /\ at = "setup" => isEmpty /\ ~isSetup

IInv == StateInv /\ LoopInv

-----------------------------------------------------------------------------
(* A non-empty set of call numbers has a maximum: the one whose distance   *)
(* to MaxCalls is least.                                                   *)
LEMMA MaxExists ==
  ASSUME NEW S \in SUBSET (0 .. MaxCalls), S # {}
  PROVE  Max(S) \in S
<1>. DEFINE R == OpToRel(<, Nat)
            T == {MaxCalls - x : x \in S}
<1>1. MaxCalls \in Nat
  BY CallsAssumption
<1>2. T \subseteq Nat /\ T # {}
  <2>1. \A x \in S : MaxCalls - x \in Nat
    BY <1>1
  <2>. QED  BY <2>1
<1>3. IsWellFoundedOn(R, Nat)
  BY NatLessThanWellFounded
<1>4. PICK d \in T : \A y \in T : ~(<<y, d>> \in R)
  <2>. HIDE DEF R, T
  <2>. QED  BY <1>2, <1>3, WFMin
<1>5. PICK m \in S : d = MaxCalls - m
  BY <1>4
<1>6. \A x \in S : m >= x
  <2>. SUFFICES ASSUME NEW x \in S PROVE m >= x
    OBVIOUS
  <2>1. MaxCalls - x \in T
    OBVIOUS
  <2>2. ~(<<MaxCalls - x, d>> \in R)
    BY <1>4, <2>1
  <2>3. MaxCalls - x \in Nat /\ d \in Nat
    BY <2>1, <1>2, <1>4
  <2>4. ~(MaxCalls - x < d)
    BY <2>2, <2>3 DEF OpToRel
  <2>. QED  BY <2>4, <1>5, <1>1
<1>. QED  BY <1>6 DEF Max

LEMMA LatestIsCall ==
  ASSUME NEW S \in SUBSET (0 .. MaxCalls)
  PROVE  Latest(S) \in 0 .. MaxCalls
<1>1. CASE S = {}
  BY <1>1, CallsAssumption DEF Latest
<1>2. CASE S # {}
  <2>1. Max(S) \in S
    BY <1>2, MaxExists
  <2>. QED  BY <1>2, <2>1 DEF Latest
<1>. QED  BY <1>1, <1>2

-----------------------------------------------------------------------------
(* The operations keep the invariant of the state they change, in a page   *)
(* that is set up.                                                         *)
LEMMA SetUserIdSafe ==
  ASSUME StateInv, isSetup, NEW c \in PageCommands, c.op = "setUserId",
         SetUserId(c), UNCHANGED <<sending, stored>>
  PROVE  StateInv'
<1>. USE DEF StateInv, config, setting
<1>1. c.user \in Users /\ c.user # NoUser
  BY DEF PageCommands, Command
<1>2. CASE UNCHANGED <<config, updates, flush, allowed>>
  BY <1>2 DEF SetUserId, DataInv, FlushInv, UserInv, isEmpty
<1>3. CASE /\ IF user # NoUser THEN TearDown ELSE UNCHANGED config
           /\ IF c.user \in LongIds
                THEN UNCHANGED <<updates, flush, allowed>>
                ELSE /\ updates' = WithUser(c.user)
                     /\ ProcessUpdates
                     /\ allowed' = allowed \cup {c.user}
  <2>1. user' = NoUser /\ lang' \in 0 .. MaxCalls
    BY <1>3, CallsAssumption DEF DataInv, TearDown
  <2>2. CASE c.user \in LongIds
    BY <1>3, <2>1, <2>2 DEF SetUserId, DataInv, FlushInv, UserInv, isEmpty, KnownUsers
  <2>3. CASE c.user \notin LongIds
    <3>1. updates' \in KnownUpdates /\ updates'.user = c.user
      BY <1>1, <1>3, <2>3 DEF DataInv, WithUser, KnownUpdates, KnownUsers
    <3>2. flush' # "none" /\ flush' \in {"none", "debounce", "sending"}
          /\ (flush' = "sending" => flush = "sending")
      BY <1>3, <2>3 DEF ProcessUpdates, FlushInv
    <3>3. ~isEmpty'
      BY <1>1, <3>1 DEF isEmpty, NoUpdates
    <3>4. allowed' = allowed \cup {c.user}
      BY <1>3, <2>3
    <3>5. DataInv'
      BY <1>1, <2>1, <3>1, <3>4 DEF SetUserId, DataInv, KnownUsers
    <3>6. FlushInv'
      BY <1>1, <2>1, <3>1, <3>2, <3>3 DEF SetUserId, FlushInv
    <3>. QED  BY <2>1, <3>1, <3>2, <3>4, <3>5, <3>6 DEF UserInv
  <2>. QED  BY <2>2, <2>3
<1>. QED  BY <1>2, <1>3 DEF SetUserId

LEMMA SetAttributesSafe ==
  ASSUME StateInv, isSetup, NEW c \in PageCommands, SetAttributes(c),
         UNCHANGED <<sending, stored>>
  PROVE  StateInv'
<1>. USE DEF StateInv, config, setting
<1>1. c.n \in Calls
  BY DEF PageCommands, Command
<1>2. UpdatesUser \in KnownUsers /\ (UpdatesUser # NoUser => UpdatesUser \in allowed)
      /\ (UpdatesUser = NoUser => user = NoUser)
  BY DEF UpdatesUser, DataInv, UserInv, KnownUpdates
<1>3. updates' \in KnownUpdates /\ updates'.user = UpdatesUser /\ updates'.attrs # {}
  BY <1>1, <1>2 DEF SetAttributes, DataInv, KnownUpdates
<1>4. ~isEmpty'
  BY <1>3 DEF isEmpty, NoUpdates
<1>5. flush' # "none" /\ flush' \in {"none", "debounce", "sending"}
      /\ (flush' = "sending" => flush = "sending")
  BY DEF SetAttributes, ProcessUpdates, FlushInv
<1>6. DataInv'
  <2>1. langs' \subseteq Calls /\ lost' \subseteq Calls
    BY <1>1 DEF SetAttributes, DataInv
  <2>2. owner' \subseteq Calls \X (Users \cup {NoUser})
    BY <1>1, <1>2 DEF SetAttributes, DataInv, KnownUsers
  <2>. QED  BY <1>3, <2>1, <2>2 DEF SetAttributes, DataInv
<1>7. FlushInv'
  BY <1>2, <1>3, <1>4, <1>5 DEF SetAttributes, FlushInv
<1>8. UserInv'
  BY <1>2, <1>3, <1>5 DEF SetAttributes, UserInv
<1>. QED  BY <1>6, <1>7, <1>8

(* Nothing is pending when logout runs, so nobody of before is left.       *)
LEMMA LogoutSafe ==
  ASSUME StateInv, isEmpty, Logout, UNCHANGED <<sending, stored>>
  PROVE  StateInv'
<1>. USE DEF StateInv, setting
<1>1. user' = NoUser /\ lang' = 0 /\ allowed' = {}
  BY DEF Logout, TearDown
<1>2. updates.user = NoUser /\ flush = "none"
  BY DEF isEmpty, NoUpdates, FlushInv
<1>3. DataInv'
  BY <1>1, CallsAssumption DEF Logout, DataInv, KnownUsers
<1>4. FlushInv'
  BY <1>1, <1>2 DEF Logout, FlushInv, isEmpty
<1>. QED  BY <1>1, <1>2, <1>3, <1>4 DEF Logout, UserInv

LEMMA SetupSafe ==
  ASSUME StateInv, SetupAtOnce \/ SetupFetches, UNCHANGED <<sending, stored>>
  PROVE  /\ StateInv'
         /\ SetupFetches => isEmpty' /\ ~isSetup'
<1>. USE DEF StateInv, config, history, isEmpty
<1>1. CASE SetupAtOnce
  <2>1. ~SetupFetches \/ ~isSetup
    BY DEF SetupFetches
  <2>2. StateInv'
    BY <1>1 DEF SetupAtOnce, DataInv, FlushInv, UserInv
  <2>3. SetupFetches => ~isSetup' /\ isEmpty'
    BY <1>1 DEF SetupAtOnce, SetupFetches, FlushInv
  <2>. QED  BY <2>2, <2>3
<1>2. CASE SetupFetches
  BY <1>2, CallsAssumption DEF SetupFetches, TearDown, DataInv, FlushInv, UserInv, KnownUsers
<1>. QED  BY <1>1, <1>2

(* A command that is not setup is run in a page that is set up, and logout *)
(* with nothing pending.                                                   *)
LEMMA ExecuteSafe ==
  ASSUME StateInv, NEW c \in PageCommands, Execute(c),
         c.op = "setup" \/ isSetup, c.op \in General => isEmpty,
         UNCHANGED <<sending, stored>>
  PROVE  /\ StateInv'
         /\ at' \in {"loop", "setup"}
         /\ at' = "setup" => isEmpty' /\ ~isSetup'
<1>1. CASE c.op = "setup" /\ SetupAtOnce /\ at' = "loop"
  BY <1>1, SetupSafe
<1>2. CASE c.op = "setup" /\ SetupFetches /\ at' = "setup"
  BY <1>2, SetupSafe
<1>3. CASE c.op = "setUserId" /\ SetUserId(c) /\ at' = "loop"
  BY <1>3, SetUserIdSafe
<1>4. CASE c.op \in {"setAttributes", "setLanguage"} /\ SetAttributes(c) /\ at' = "loop"
  BY <1>4, SetAttributesSafe
<1>5. CASE c.op = "logout" /\ Logout /\ at' = "loop"
  BY <1>5, LogoutSafe DEF General
<1>6. CASE at' = "loop" /\ UNCHANGED <<setting, config, updates, flush, history>>
  BY <1>6 DEF setting, config, history, StateInv, DataInv, FlushInv, UserInv, isEmpty
<1>. QED  BY <1>1, <1>2, <1>3, <1>4, <1>5, <1>6 DEF Execute

-----------------------------------------------------------------------------
LEMMA InitSafe == Init => IInv
<1>. SUFFICES ASSUME Init PROVE IInv
  OBVIOUS
<1>1. StateInv
  <2>1. NoUpdates \in KnownUpdates /\ NoUpdates.user = NoUser
    BY DEF NoUpdates, KnownUpdates, KnownUsers
  <2>2. user \in KnownUsers /\ allowed = {user} \ {NoUser} /\ allowed \subseteq Users
    BY DEF Init, KnownUsers
  <2>3. DataInv
    <3>1. stored \in [Users -> SUBSET Calls] /\ lang \in 0 .. MaxCalls
      BY CallsAssumption DEF Init
    <3>2. langs = {} /\ lost = {} /\ owner = {}
      BY DEF Init
    <3>3. isSetup \in BOOLEAN /\ saved \in {"fits", "none", "error"}
          /\ updates = NoUpdates /\ sending = NoUpdates
      BY DEF Init
    <3>. QED  BY <2>1, <2>2, <3>1, <3>2, <3>3 DEF DataInv
  <2>4. FlushInv /\ UserInv
    BY <2>1, <2>2 DEF Init, FlushInv, UserInv, isEmpty
  <2>. QED  BY <2>3, <2>4 DEF StateInv
<1>2. LoopInv
  BY CallsAssumption DEF Init, LoopInv
<1>. QED  BY <1>1, <1>2 DEF IInv

LEMMA CallSafe == IInv /\ Call => IInv'
<1>. SUFFICES ASSUME IInv, Call PROVE IInv'
  OBVIOUS
<1>1. StateInv'
  BY DEF Call, IInv, StateInv, DataInv, FlushInv, UserInv, isEmpty, setting, config, history
<1>2. calls' \in Calls
  BY CallsAssumption DEF Call, IInv, LoopInv, Calls
<1>3. PICK op \in Ops, u \in Users \cup {NoUser} :
        /\ op = "setUserId" <=> u # NoUser
        /\ cmds' = Append(cmds, [op |-> op, n |-> calls', user |-> u])
  BY DEF Call
<1>4. [op |-> op, n |-> calls', user |-> u] \in PageCommands
  BY <1>2, <1>3 DEF PageCommands, Command
<1>5. cmds' \in Seq(PageCommands)
  BY <1>3, <1>4, AppendProperties DEF IInv, LoopInv
<1>6. LoopInv'
  BY <1>2, <1>5 DEF Call, IInv, LoopInv, setting, isEmpty, Calls
<1>. QED  BY <1>1, <1>6 DEF IInv

LEMMA RunSafe == IInv /\ Run => IInv'
<1>. SUFFICES ASSUME IInv, Run PROVE IInv'
  OBVIOUS
<1>. DEFINE c == Head(cmds)
<1>1. c \in PageCommands /\ cmds' \in Seq(PageCommands)
  BY HeadTailProperties DEF Run, IInv, LoopInv
<1>2. now' = c /\ now' \in Command /\ calls' \in 0 .. MaxCalls
  BY <1>1 DEF Run, PageCommands, IInv, LoopInv
<1>3. CASE UNCHANGED <<at, setting, config, updates, flush, history>>
  <2>1. StateInv'
    BY <1>3 DEF Run, IInv, StateInv, DataInv, FlushInv, UserInv, isEmpty, setting, config, history
  <2>2. at' = "loop"
    BY <1>3 DEF Run
  <2>. QED  BY <1>1, <1>2, <2>1, <2>2 DEF IInv, LoopInv
<1>4. CASE /\ c.op = "setup" \/ isSetup
           /\ MustWait(c)
           /\ ProcessUpdates
           /\ at' = "flush"
           /\ UNCHANGED <<setting, config, updates, history>>
  <2>1. flush' = flush /\ c.op \in General /\ isSetup
    BY <1>4 DEF MustWait, ProcessUpdates, IInv, StateInv, FlushInv, General
  <2>2. StateInv'
    BY <1>4, <2>1 DEF Run, IInv, StateInv, DataInv, FlushInv, UserInv, isEmpty, setting, config, history
  <2>. QED  BY <1>1, <1>2, <1>4, <2>1, <2>2 DEF IInv, LoopInv, setting
<1>5. CASE /\ c.op = "setup" \/ isSetup
           /\ ~MustWait(c)
           /\ Execute(c)
  <2>1. c.op \in General => isEmpty
    BY <1>5 DEF MustWait
  <2>2. StateInv' /\ at' \in {"loop", "setup"} /\ (at' = "setup" => isEmpty' /\ ~isSetup')
    <3>1. UNCHANGED <<sending, stored>> /\ StateInv
      BY DEF Run, IInv
    <3>. HIDE DEF c
    <3>. QED  BY <1>1, <1>5, <2>1, <3>1, ExecuteSafe
  <2>. QED  BY <1>1, <1>2, <2>2 DEF IInv, LoopInv
<1>. QED  BY <1>3, <1>4, <1>5 DEF Run

LEMMA RunAfterFlushSafe == IInv /\ RunAfterFlush => IInv'
<1>. SUFFICES ASSUME IInv, RunAfterFlush PROVE IInv'
  OBVIOUS
<1>1. now \in PageCommands /\ now.op \in General /\ isSetup /\ isEmpty
  BY DEF RunAfterFlush, IInv, LoopInv, StateInv, FlushInv
<1>2. StateInv' /\ at' \in {"loop", "setup"} /\ (at' = "setup" => isEmpty' /\ ~isSetup')
  BY <1>1, ExecuteSafe DEF RunAfterFlush, IInv
<1>. QED  BY <1>1, <1>2 DEF RunAfterFlush, IInv, LoopInv

LEMMA SetupDoneSafe == IInv /\ SetupDone => IInv'
<1>. SUFFICES ASSUME IInv, SetupDone PROVE IInv'
  OBVIOUS
<1>1. StateInv'
  BY DEF SetupDone, IInv, StateInv, DataInv, FlushInv, UserInv, isEmpty, setting, config, history
<1>2. LoopInv'
  BY DEF SetupDone, IInv, LoopInv
<1>. QED  BY <1>1, <1>2 DEF IInv

LEMMA DebouncedSafe == IInv /\ Debounced => IInv'
<1>. SUFFICES ASSUME IInv, Debounced PROVE IInv'
  OBVIOUS
<1>. USE DEF IInv, StateInv
<1>1. isSetup /\ at # "setup"
  BY DEF Debounced, FlushInv, LoopInv
<1>2. CASE /\ updates.user = NoUser
           /\ lang' = Latest({lang} \cup (updates.attrs \cap langs))
           /\ updates' = NoUpdates /\ flush' = "none"
           /\ UNCHANGED sending
  <2>1. {lang} \cup (updates.attrs \cap langs) \subseteq 0 .. MaxCalls
    <3>1. lang \in 0 .. MaxCalls /\ langs \subseteq Calls
      BY DEF DataInv
    <3>2. Calls \subseteq 0 .. MaxCalls
      BY CallsAssumption DEF Calls
    <3>. QED  BY <3>1, <3>2
  <2>2. lang' \in 0 .. MaxCalls
    BY <1>2, <2>1, LatestIsCall
  <2>3. DataInv'
    BY <1>2, <2>2 DEF Debounced, DataInv, NoUpdates, KnownUpdates, KnownUsers, setting, history
  <2>4. FlushInv' /\ UserInv'
    BY <1>2 DEF Debounced, FlushInv, UserInv, isEmpty, NoUpdates, setting, history
  <2>5. LoopInv'
    BY <1>1 DEF Debounced, LoopInv, queues, setting
  <2>. QED  BY <2>3, <2>4, <2>5
<1>3. CASE /\ updates.user # NoUser
           /\ flush' = "sending" /\ sending' = updates
           /\ KeepUntilAnswered
           /\ UNCHANGED lang
  <2>1. DataInv'
    BY <1>3 DEF Debounced, DataInv, KeepUntilAnswered, setting, history
  <2>2. FlushInv' /\ UserInv'
    BY <1>3 DEF Debounced, FlushInv, UserInv, isEmpty, KeepUntilAnswered, setting, history
  <2>3. LoopInv'
    BY <1>1 DEF Debounced, LoopInv, queues, setting
  <2>. QED  BY <2>1, <2>2, <2>3
<1>. QED  BY <1>2, <1>3 DEF Debounced

LEMMA SendDoneSafe == IInv /\ SendDone => IInv'
<1>. SUFFICES ASSUME IInv, SendDone PROVE IInv'
  OBVIOUS
<1>. USE DEF IInv, StateInv
<1>1. isSetup /\ at # "setup" /\ sending.user \in allowed /\ sending.user # NoUser
  BY DEF SendDone, FlushInv, LoopInv, UserInv
<1>2. PICK ok \in BOOLEAN, S \in SUBSET sending.attrs :
        /\ Store(S)
        /\ \/ ok /\ user' = sending.user /\ lang' = LangInReply
           \/ ~ok /\ UNCHANGED config
        /\ FinishFlush(ok)
  BY DEF SendDone
<1>3. updates' = NoUpdates /\ flush' = "none" /\ sending' = NoUpdates
  BY <1>2 DEF FinishFlush
<1>4. sending.attrs \subseteq Calls /\ sending.user \in Users /\ sending.user \in KnownUsers
  BY <1>1 DEF DataInv, KnownUpdates
<1>5. stored' \in [Users -> SUBSET Calls]
  BY <1>2, <1>4 DEF Store, DataInv
<1>6. LangInReply \in 0 .. MaxCalls
  <2>1. (stored[sending.user] \cup sending.attrs) \cap langs \subseteq 0 .. MaxCalls
    BY <1>4, CallsAssumption DEF DataInv, Calls
  <2>. QED  BY <2>1, LatestIsCall DEF LangInReply
<1>7. lang' \in 0 .. MaxCalls /\ lost' \subseteq Calls
  BY <1>2, <1>4, <1>6 DEF Store, DataInv, config
<1>8. user' \in KnownUsers /\ (user' # NoUser => user' \in allowed')
  BY <1>1, <1>2, <1>4 DEF SendDone, DataInv, UserInv, config
<1>9. NoUpdates \in KnownUpdates /\ NoUpdates.user = NoUser
  BY DEF NoUpdates, KnownUpdates, KnownUsers
<1>10. DataInv'
  BY <1>3, <1>5, <1>7, <1>8, <1>9 DEF SendDone, DataInv, setting
<1>11. FlushInv' /\ UserInv'
  BY <1>3, <1>8, <1>9 DEF SendDone, FlushInv, UserInv, isEmpty, setting
<1>12. LoopInv'
  BY <1>1 DEF SendDone, LoopInv, queues, setting
<1>. QED  BY <1>10, <1>11, <1>12

LEMMA NextSafe == IInv /\ [Next]_vars => IInv'
<1>. SUFFICES ASSUME IInv, [Next]_vars PROVE IInv'
  OBVIOUS
<1>1. CASE UNCHANGED vars
  BY <1>1 DEF vars, queues, config, setting, history, IInv, StateInv, LoopInv, DataInv, FlushInv, UserInv, isEmpty
<1>2. CASE Next
  BY <1>2, CallSafe, RunSafe, RunAfterFlushSafe, SetupDoneSafe, DebouncedSafe, SendDoneSafe
  DEF Next, SdkStep
<1>. QED  BY <1>1, <1>2

LEMMA Invariant == Spec => []IInv
BY InitSafe, NextSafe, PTL DEF Spec

-----------------------------------------------------------------------------
(* Every step keeps the state well formed, setup never runs with updates   *)
(* pending, and only track and logout wait for a flush.                    *)
THEOREM TypeCorrect == Spec => []TypeOK
<1>1. IInv => TypeOK
  <2>. SUFFICES ASSUME IInv PROVE TypeOK
    OBVIOUS
  <2>1. PageCommands \subseteq Command
    BY DEF PageCommands
  <2>2. cmds \in Seq(Command)
    BY <2>1, SeqMonotonic DEF IInv, LoopInv
  <2>3. updates \in Updates /\ sending \in Updates
    BY DEF IInv, StateInv, DataInv, KnownUpdates, KnownUsers, Updates
  <2>. QED  BY <2>2, <2>3
       DEF TypeOK, IInv, StateInv, DataInv, FlushInv, LoopInv, KnownUsers
<1>. QED  BY <1>1, Invariant, PTL

(* A flush under way is never overlooked by the command queue.             *)
THEOREM FlushVisible == Spec => []FlushIsVisible
<1>1. IInv => FlushIsVisible
  BY DEF IInv, StateInv, FlushInv, FlushIsVisible
<1>. QED  BY <1>1, Invariant, PTL

(* No reply and no pending update brings back a user of before the logout. *)
THEOREM LogoutIsFinal == Spec => []LogoutSticks
<1>1. IInv => LogoutSticks
  BY DEF IInv, StateInv, UserInv, LogoutSticks
<1>. QED  BY <1>1, Invariant, PTL

-----------------------------------------------------------------------------
(* Attributes are accounted for because a call is run once, so that its    *)
(* attribute is new; because pending updates without a user hold no        *)
(* attribute of one; and because what is added to updates while a request  *)
(* is under way is what the reply will lose.                               *)
Fresh ==
  /\ \A p \in owner : p[1] <= calls
  /\ \A i \in 1 .. Len(cmds) : cmds[i].n <= calls
  /\ \A i \in 1 .. Len(cmds) : \A p \in owner : p[1] < cmds[i].n
  /\ \A i, j \in 1 .. Len(cmds) : i < j => cmds[i].n < cmds[j].n

Pending ==
  /\ \A p \in owner : p[1] \in updates.attrs /\ p[2] # NoUser => updates.user # NoUser
  /\ flush = "sending" => updates.attrs \subseteq sending.attrs \cup lost
  /\ flush # "sending" => sending.attrs = {}

AttrInv == Fresh /\ Pending /\ AttributesAccountedFor

LEMMA CommandTypes ==
  ASSUME IInv
  PROVE  /\ calls \in Nat /\ Len(cmds) \in Nat
         /\ \A i \in 1 .. Len(cmds) : cmds[i] \in PageCommands /\ cmds[i].n \in Nat
         /\ \A p \in owner : p[1] \in Nat
<1>1. calls \in Nat /\ cmds \in Seq(PageCommands) /\ MaxCalls \in Nat
  BY CallsAssumption DEF IInv, LoopInv
<1>2. \A i \in 1 .. Len(cmds) : cmds[i] \in PageCommands
  BY <1>1, LenProperties
<1>3. \A c \in PageCommands : c.n \in Nat
  BY <1>1 DEF PageCommands, Command, Calls
<1>4. \A p \in owner : p[1] \in Nat
  BY <1>1 DEF IInv, StateInv, DataInv, Calls
<1>. QED  BY <1>1, <1>2, <1>3, <1>4, LenProperties

(* What no attribute goes through.                                         *)
LEMMA AttrUnchanged ==
  ASSUME IInv, AttrInv, updates'.attrs = updates.attrs,
         updates'.user # updates.user => updates'.user # NoUser,
         flush' = "sending" <=> flush = "sending",
         UNCHANGED <<owner, lost, sending, stored>>
  PROVE  Pending' /\ AttributesAccountedFor'
BY DEF AttrInv, Pending, AttributesAccountedFor

LEMMA SetAttributesAccounted ==
  ASSUME IInv, AttrInv, NEW c \in PageCommands, SetAttributes(c),
         \A p \in owner : p[1] < c.n, UNCHANGED <<sending, stored>>
  PROVE  Pending' /\ AttributesAccountedFor'
<1>1. c.n \in Nat /\ \A p \in owner : p[1] \in Nat /\ p[1] # c.n
  BY CommandTypes, CallsAssumption DEF PageCommands, Command, Calls
<1>2. /\ updates'.attrs = updates.attrs \cup {c.n}
      /\ updates'.user = UpdatesUser
      /\ owner' = owner \cup {<<c.n, UpdatesUser>>}
      /\ lost' = IF flush = "sending" THEN lost \cup {c.n} ELSE lost
      /\ updates.user # NoUser => UpdatesUser # NoUser
  BY DEF SetAttributes, UpdatesUser
<1>3. flush' = "sending" <=> flush = "sending"
  BY DEF SetAttributes, ProcessUpdates
<1>4. Pending'
  <2>1. ASSUME NEW p \in owner', p[1] \in updates'.attrs, p[2] # NoUser
        PROVE  updates'.user # NoUser
    <3>1. CASE p = <<c.n, UpdatesUser>>
      BY <2>1, <3>1, <1>2
    <3>2. CASE p \in owner
      BY <2>1, <3>2, <1>1, <1>2 DEF AttrInv, Pending
    <3>. QED  BY <2>1, <3>1, <3>2, <1>2
  <2>2. flush' = "sending" => updates'.attrs \subseteq sending'.attrs \cup lost'
    BY <1>2, <1>3 DEF AttrInv, Pending
  <2>3. flush' # "sending" => sending'.attrs = {}
    BY <1>3 DEF AttrInv, Pending
  <2>. QED  BY <2>1, <2>2, <2>3 DEF Pending
<1>5. AttributesAccountedFor'
  BY <1>2 DEF AttrInv, AttributesAccountedFor
<1>. QED  BY <1>4, <1>5

LEMMA ExecuteAccounted ==
  ASSUME IInv, AttrInv, NEW c \in PageCommands, Execute(c),
         c.op \notin General => \A p \in owner : p[1] < c.n,
         UNCHANGED <<sending, stored>>
  PROVE  /\ Pending' /\ AttributesAccountedFor'
         /\ owner' \subseteq owner \cup {<<c.n, UpdatesUser>>}
         /\ c.op \in General => owner' = owner
<1>1. CASE c.op \in {"setAttributes", "setLanguage"} /\ SetAttributes(c)
  <2>1. c.op \notin General
    BY <1>1 DEF General
  <2>2. owner' = owner \cup {<<c.n, UpdatesUser>>}
    BY <1>1 DEF SetAttributes
  <2>. QED  BY <1>1, <2>1, <2>2, SetAttributesAccounted
<1>2. CASE c.op = "setUserId" /\ SetUserId(c)
  <2>1. c.user # NoUser
    BY <1>2 DEF PageCommands
  <2>2. updates' = updates \/ updates' = WithUser(c.user)
    BY <1>2 DEF SetUserId
  <2>3. updates'.attrs = updates.attrs /\ (updates'.user # updates.user => updates'.user # NoUser)
    BY <2>1, <2>2 DEF WithUser, IInv, StateInv, DataInv, KnownUpdates
  <2>4. (flush' = "sending" <=> flush = "sending") /\ UNCHANGED <<owner, lost>>
    BY <1>2 DEF SetUserId, ProcessUpdates
  <2>. QED  BY <2>3, <2>4, AttrUnchanged
<1>3. CASE UNCHANGED <<updates, flush, owner, lost>>
  BY <1>3, AttrUnchanged
<1>4. CASE c.op = "setup" /\ (SetupAtOnce \/ SetupFetches)
  BY <1>3, <1>4 DEF SetupAtOnce, SetupFetches, history
<1>5. CASE c.op = "logout" /\ Logout
  BY <1>3, <1>5 DEF Logout
<1>6. CASE UNCHANGED <<setting, config, updates, flush, history>>
  BY <1>3, <1>6 DEF history
<1>. QED  BY <1>1, <1>2, <1>4, <1>5, <1>6 DEF Execute

LEMMA InitAccounted == Init => AttrInv
<1>. SUFFICES ASSUME Init PROVE AttrInv
  OBVIOUS
<1>1. Fresh
  BY EmptySeq DEF Init, Fresh
<1>2. Pending
  BY DEF Init, Pending, NoUpdates
<1>. QED  BY <1>1, <1>2 DEF Init, AttrInv, AttributesAccountedFor

LEMMA CallAccounted == IInv /\ AttrInv /\ Call => AttrInv'
<1>. SUFFICES ASSUME IInv, AttrInv, Call PROVE AttrInv'
  OBVIOUS
<1>1. UNCHANGED <<owner, lost, updates, flush, sending, stored>>
  BY DEF Call, history
<1>2. calls' = calls + 1
  BY DEF Call
<1>3. PICK c : cmds' = Append(cmds, c) /\ c.n = calls'
  BY DEF Call
<1>4. /\ Len(cmds') = Len(cmds) + 1
      /\ \A i \in 1 .. Len(cmds) : cmds'[i] = cmds[i]
      /\ cmds'[Len(cmds) + 1].n = calls + 1
  BY <1>2, <1>3 DEF IInv, LoopInv
<1>. DEFINE n == Len(cmds)
<1>5. Fresh'
  <2>1. n \in Nat /\ \A i \in 1 .. n + 1 : i \in 1 .. n \/ i = n + 1
    BY CommandTypes
  <2>2. \A i \in 1 .. n : cmds'[i].n <= calls /\ cmds'[i].n \in Nat
    BY <1>4, CommandTypes DEF AttrInv, Fresh
  <2>3. \A p \in owner : p[1] <= calls /\ p[1] \in Nat
    BY CommandTypes DEF AttrInv, Fresh
  <2>4. \A i \in 1 .. n + 1 : cmds'[i].n <= calls + 1
    BY <1>4, <2>1, <2>2, CommandTypes
  <2>5. \A i \in 1 .. n + 1 : \A p \in owner : p[1] < cmds'[i].n
    BY <1>4, <2>1, <2>3, CommandTypes DEF AttrInv, Fresh
  <2>6. \A i, j \in 1 .. n + 1 : i < j => cmds'[i].n < cmds'[j].n
    <3>. SUFFICES ASSUME NEW i \in 1 .. n + 1, NEW j \in 1 .. n + 1, i < j
                  PROVE  cmds'[i].n < cmds'[j].n
      OBVIOUS
    <3>1. i \in 1 .. n
      BY <2>1
    <3>2. CASE j = n + 1
      BY <1>4, <2>2, <3>1, <3>2, CommandTypes
    <3>3. CASE j \in 1 .. n
      <4>1. cmds[i].n < cmds[j].n
        BY <3>1, <3>3 DEF AttrInv, Fresh
      <4>. QED  BY <1>4, <3>1, <3>3, <4>1
    <3>. QED  BY <2>1, <3>2, <3>3
  <2>7. \A p \in owner : p[1] <= calls + 1
    BY <2>3, CommandTypes
  <2>. QED  BY <1>1, <1>2, <1>4, <2>4, <2>5, <2>6, <2>7 DEF Fresh
<1>6. Pending' /\ AttributesAccountedFor'
  BY <1>1, AttrUnchanged
<1>. QED  BY <1>5, <1>6 DEF AttrInv

LEMMA RunAccounted == IInv /\ AttrInv /\ Run => AttrInv'
<1>. SUFFICES ASSUME IInv, AttrInv, Run PROVE AttrInv'
  OBVIOUS
<1>. DEFINE c == Head(cmds)
<1>1. /\ cmds # <<>> /\ cmds \in Seq(PageCommands) /\ cmds' = Tail(cmds)
      /\ calls' = calls
      /\ UNCHANGED <<sending, stored>>
  BY DEF Run, IInv, LoopInv
<1>2. /\ c \in PageCommands /\ c = cmds[1] /\ Len(cmds) >= 1
      /\ Len(cmds') = Len(cmds) - 1
      /\ \A i \in 1 .. Len(cmds') : cmds'[i] = cmds[i + 1]
  BY <1>1, HeadTailProperties
<1>3. c.n <= calls /\ \A p \in owner : p[1] < c.n
  BY <1>2, CommandTypes DEF AttrInv, Fresh
<1>4. Pending' /\ AttributesAccountedFor' /\ owner' \subseteq owner \cup {<<c.n, UpdatesUser>>}
  <2>1. CASE UNCHANGED <<updates, owner, lost>> /\ (flush' = "sending" <=> flush = "sending")
    BY <1>1, <2>1, AttrUnchanged
  <2>2. CASE Execute(c)
    <3>. HIDE DEF c
    <3>. QED  BY <1>1, <1>2, <1>3, <2>2, ExecuteAccounted
  <2>. QED  BY <2>1, <2>2 DEF Run, ProcessUpdates, history
<1>5. \A p \in owner' : p[1] <= c.n /\ p[1] \in Nat
  BY <1>2, <1>3, <1>4, CommandTypes
<1>6. \A i \in 1 .. Len(cmds') : i + 1 \in 1 .. Len(cmds) /\ 1 < i + 1
  BY <1>2, CommandTypes
<1>7. \A i \in 1 .. Len(cmds') : c.n < cmds'[i].n /\ cmds'[i].n <= calls
  <2>. SUFFICES ASSUME NEW i \in 1 .. Len(cmds')
                PROVE  c.n < cmds'[i].n /\ cmds'[i].n <= calls
    OBVIOUS
  <2>1. i + 1 \in 1 .. Len(cmds) /\ 1 \in 1 .. Len(cmds) /\ 1 < i + 1
    BY <1>2, <1>6, CommandTypes
  <2>2. cmds[1].n < cmds[i + 1].n /\ cmds[i + 1].n <= calls
    BY <2>1 DEF AttrInv, Fresh
  <2>. QED  BY <1>2, <2>2
<1>8. Fresh'
  <2>1. \A p \in owner' : p[1] <= calls'
    BY <1>1, <1>2, <1>3, <1>5, CommandTypes
  <2>2. \A i \in 1 .. Len(cmds') : \A p \in owner' : p[1] < cmds'[i].n
    BY <1>2, <1>5, <1>6, <1>7, CommandTypes
  <2>3. \A i, j \in 1 .. Len(cmds') : i < j => cmds'[i].n < cmds'[j].n
    <3>. SUFFICES ASSUME NEW i \in 1 .. Len(cmds'), NEW j \in 1 .. Len(cmds'), i < j
                  PROVE  cmds'[i].n < cmds'[j].n
      OBVIOUS
    <3>1. i + 1 \in 1 .. Len(cmds) /\ j + 1 \in 1 .. Len(cmds) /\ i + 1 < j + 1
      BY <1>6
    <3>2. cmds[i + 1].n < cmds[j + 1].n
      BY <3>1 DEF AttrInv, Fresh
    <3>. QED  BY <1>2, <3>2
  <2>. QED  BY <1>1, <1>7, <2>1, <2>2, <2>3 DEF Fresh
<1>. QED  BY <1>4, <1>8 DEF AttrInv

LEMMA RunAfterFlushAccounted == IInv /\ AttrInv /\ RunAfterFlush => AttrInv'
<1>. SUFFICES ASSUME IInv, AttrInv, RunAfterFlush PROVE AttrInv'
  OBVIOUS
<1>1. now \in PageCommands /\ now.op \in General
  BY DEF RunAfterFlush, IInv, LoopInv
<1>2. Pending' /\ AttributesAccountedFor' /\ owner' = owner
  BY <1>1, ExecuteAccounted DEF RunAfterFlush
<1>3. Fresh'
  BY <1>2 DEF RunAfterFlush, AttrInv, Fresh
<1>. QED  BY <1>2, <1>3 DEF AttrInv

LEMMA DebouncedAccounted == IInv /\ AttrInv /\ Debounced => AttrInv'
<1>. SUFFICES ASSUME IInv, AttrInv, Debounced PROVE AttrInv'
  OBVIOUS
<1>1. Fresh'
  BY DEF Debounced, AttrInv, Fresh, queues, history
<1>2. /\ flush = "debounce" /\ UNCHANGED <<stored, owner, lost>>
      /\ sending.attrs = {}
  BY DEF Debounced, history, AttrInv, Pending
<1>3. CASE updates.user = NoUser /\ updates' = NoUpdates /\ flush' = "none" /\ UNCHANGED sending
  BY <1>1, <1>2, <1>3 DEF AttrInv, Pending, AttributesAccountedFor, NoUpdates
<1>4. CASE flush' = "sending" /\ sending' = updates /\ UNCHANGED updates
  BY <1>1, <1>2, <1>4 DEF AttrInv, Pending, AttributesAccountedFor
<1>5. Pending' /\ AttributesAccountedFor'
  BY <1>3, <1>4 DEF Debounced, KeepUntilAnswered, AttrInv
<1>. QED  BY <1>1, <1>5 DEF AttrInv

LEMMA SendDoneAccounted == IInv /\ AttrInv /\ SendDone => AttrInv'
<1>. SUFFICES ASSUME IInv, AttrInv, SendDone PROVE AttrInv'
  OBVIOUS
<1>1. Fresh'
  BY DEF SendDone, AttrInv, Fresh, queues
<1>2. /\ flush = "sending" /\ UNCHANGED owner
      /\ updates' = NoUpdates /\ flush' = "none" /\ sending' = NoUpdates
  BY DEF SendDone, FinishFlush
<1>3. sending.user \in Users /\ stored \in [Users -> SUBSET Calls]
  BY <1>2 DEF IInv, StateInv, UserInv, DataInv
<1>4. PICK S \in SUBSET sending.attrs : Store(S)
  BY DEF SendDone
<1>5. /\ \A u \in Users : stored[u] \subseteq stored'[u]
      /\ lost \subseteq lost'
      /\ sending.attrs \subseteq lost' \cup UNION {stored'[u] : u \in Users}
  <2>1. /\ stored'[sending.user] = stored[sending.user] \cup S
        /\ \A u \in Users : stored[u] \subseteq stored'[u]
    BY <1>3, <1>4 DEF Store
  <2>2. lost' = lost \cup (sending.attrs \ S)
    BY <1>4 DEF Store
  <2>. QED  BY <1>3, <2>1, <2>2
<1>6. Pending'
  BY <1>2 DEF Pending, NoUpdates
<1>7. AttributesAccountedFor'
  <2>. SUFFICES ASSUME NEW p \in owner, p[2] # NoUser
                PROVE  p[1] \in lost' \cup UNION {stored'[u] : u \in Users}
    BY <1>2 DEF AttributesAccountedFor
  <2>1. p[1] \in sending.attrs \cup lost \cup UNION {stored[u] : u \in Users}
    BY <1>2 DEF AttrInv, AttributesAccountedFor, Pending
  <2>. QED  BY <1>5, <2>1
<1>. QED  BY <1>1, <1>6, <1>7 DEF AttrInv

(* Attributes set for a user go missing only with a request that failed,   *)
(* when the server leaves them out of one it answers ok, or when one was   *)
(* under way as they were set: every other one waits, is in the request or *)
(* is stored.                                                              *)
THEOREM AttributesAccounted == Spec => []AttributesAccountedFor
<1>1. IInv /\ AttrInv /\ [Next]_vars => AttrInv'
  <2>. SUFFICES ASSUME IInv, AttrInv, [Next]_vars PROVE AttrInv'
    OBVIOUS
  <2>1. CASE UNCHANGED vars \/ SetupDone
    <3>1. UNCHANGED <<calls, cmds, owner, lost, updates, flush, sending, stored>>
      BY <2>1 DEF vars, queues, history, SetupDone
    <3>. QED  BY <3>1 DEF AttrInv, Fresh, Pending, AttributesAccountedFor
  <2>. QED  BY <2>1, CallAccounted, RunAccounted, RunAfterFlushAccounted,
               DebouncedAccounted, SendDoneAccounted DEF Next, SdkStep
<1>2. AttrInv => AttributesAccountedFor
  BY DEF AttrInv
<1>. QED  BY InitAccounted, Invariant, <1>1, <1>2, PTL DEF Spec
=============================================================================
