----------------------- MODULE NativeOperationProofs -----------------------
(***************************************************************************)
(* Theorems about NativeOperation for any number of commands, snapshots    *)
(* and watchers, under any faults.                                         *)
(***************************************************************************)
EXTENDS NativeOperation, TLAPS

-----------------------------------------------------------------------------
(* The inductive invariant.                                                *)

Unadmitted == {"off", "asking", "rejected"}
Recording  == {"admitted", "opened", "announced", "calling", "accepted", "launching", "settle"}
Powerless  == {"broken", "gone", "killed"}

IsActive(i) == active # None /\ active.id = i

(* A command from its admission to its decision holds the lease, and the   *)
(* record is the one it last wrote.                                        *)
OwnerInv ==
  \A i \in Ids :
    /\ own[i].pc \in Recording \cup {"publish"} => lease = i
    /\ own[i].pc \in Recording => active = [id |-> i, state |-> own[i].view]
    /\ own[i].pc \in {"announced", "calling", "accepted", "launching"} => own[i].view # "pending"
    /\ own[i].pc \in {"off", "asking", "admitted", "opened"} => own[i].view = "pending"

(* An operation is decided once, by its own command or after the command   *)
(* lost its power to act; its result is unpublished or the last one.       *)
JournalInv ==
  /\ \A i \in Ids : IsActive(i) =>
       /\ own[i].pc \notin Unadmitted
       /\ active.state \in Open => result = None /\ decided[i] = None
       /\ active.state \in Final =>
            result \in {None, active} /\ decided[i] # None /\ decided[i].state = active.state
  /\ holder # None => active # None /\ active.state \in Final
  /\ \A i \in Ids : decided[i] # None => own[i].pc \in {"publish"} \cup Powerless

(* What the stage of a command says about its service.                     *)
CallInv ==
  \A i \in Ids :
    /\ own[i].pc \in {"off", "asking", "admitted", "opened", "announced"} => call[i] = NewCall
    /\ own[i].pc = "launching" => call[i].at = "ready"
    /\ own[i].pc = "calling" => call[i].at \in {"ready", "sent", "accepted"}
    /\ own[i].pc = "calling" /\ call[i].at = "accepted" => own[i].view = "running"
    /\ own[i].pc = "accepted" => call[i].at = "accepted"
    /\ own[i].pc = "settle" => call[i].at \in {"preflight", "over"}
    /\ own[i].pc = "settle" /\ call[i].ending = "denied" /\ call[i].service = "applied"
         => own[i].view = "running"
    /\ call[i].at \in {"preflight", "ready"} => call[i].service = "untouched"
    /\ call[i].at = "accepted" => call[i].service = "applied"
    /\ call[i].at # "over" <=> call[i].ending = "none"
    /\ call[i].ending = "verified" => call[i].service = "applied"
    /\ call[i].ending \in {"denied", "other"} => call[i].service # "asked"

(* A decision says what the service did, and if it is not "interrupted"    *)
(* the service has nothing left to do.                                     *)
DecisionInv ==
  \A i \in Ids : decided[i] # None =>
    /\ decided[i].state = "succeeded" => call[i].service = "applied"
    /\ decided[i].state = "permission-denied" => call[i].service \in {"untouched", "refused"}
    /\ decided[i].state # "interrupted" => call[i].service # "asked"

(* Whatever a process saw of an operation, it is still in progress or      *)
(* decided.                                                                *)
Known(i) == decided[i] # None \/ IsActive(i)

LookInv ==
  \A p \in Lookers :
    /\ look[p].pc # "idle" /\ look[p].saw # None => Known(look[p].saw)
    /\ look[p].pc # "idle" /\ look[p].saw = None => p \in Watchers
    /\ look[p].pc = "publish" => holder = p /\ IsActive(look[p].saw)
    /\ p \in Watchers /\ look[p].pc # "idle" =>
         watch[p].pc = "look" /\ look[p].saw \in {None, watch[p].target}

(* Whoever keeps the directory lock between two steps is publishing.       *)
HolderInv ==
  \A p \in Lookers : holder = p =>
    look[p].pc = "publish" \/ (p \in Watchers /\ watch[p].pc = "settling")

(* A watcher's stream is never ahead of the record.                        *)
Behind(w) ==
  /\ active # None /\ active.id = watch[w].target /\ active.state \in Open =>
       active.state \in Transitions(watch[w].stream) \cup {watch[w].stream}
  /\ \A i \in Ids : i = watch[w].target /\ decided[i] # None /\ decided[i].state = "permission-denied"
       => watch[w].stream # "running"

WatchInv ==
  \A w \in Watchers :
    /\ watch[w].pc # "off" => watch[w].target \in Ids /\ Known(watch[w].target)
    /\ watch[w].pc = "settling" => decided[watch[w].target] # None
    /\ watch[w].pc = "off" => watch[w].target = None /\ watch[w].stream = "pending"
    /\ watch[w].pc # "over" => watch[w].told = None
    /\ Behind(w)

IInv ==
  /\ TypeOK /\ OwnerInv /\ JournalInv /\ CallInv /\ DecisionInv /\ EffectIsOnRecord
  /\ LiveOwnerKeepsIt /\ LookInv /\ HolderInv /\ WatchInv /\ WatchersTell
-----------------------------------------------------------------------------
(* The operators: what they return.                                        *)

LEMMA CallTypes ==
  ASSUME NEW c \in Calls
  PROVE  /\ MayEnd(c) \subseteq Endings \ {"none"}
         /\ Serves(c) \subseteq Calls
         /\ Successors(c) \subseteq Calls
<1>1. MayEnd(c) \subseteq Endings \ {"none"}
  BY DEF MayEnd, Endings, Calls
<1>2. Serves(c) \subseteq Calls
  BY DEF Serves, Calls, Service
<1>3. Proceeds(c) \subseteq Calls
  BY DEF Proceeds, Calls, Service, Stages
<1>4. \A ending \in Endings : Over(c, ending) \in Calls
  BY DEF Over, Calls, Stages
<1> QED BY <1>1, <1>2, <1>3, <1>4 DEF Successors

LEMMA OverType ==
  ASSUME NEW c \in Calls, NEW ending \in Endings
  PROVE  Over(c, ending) \in Calls
BY DEF Over, Calls, Stages

LEMMA NewCallType == NewCall \in Calls
BY DEF NewCall, Calls, Stages, Service, Endings

(* The states an operation may pass to, and the results it may be given.   *)
LEMMA TransitionTypes ==
  /\ \A state \in Open : Transitions(state) \subseteq Open \cup Final
  /\ Open \cap Final = {}
BY DEF Transitions, Open, Final

LEMMA VerdictTypes == \A i \in Ids : Verdicts(i) \subseteq Final
BY DEF Verdicts, Final

(* A record is not the absence of one.                                     *)
LEMMA NoneIsNoRecord ==
  /\ \A i \in Ids, state \in Open \cup Final : [id |-> i, state |-> state] # None
  /\ \A p \in Ids \cup Lookers, state \in Final : [state |-> state, by |-> p] # None
BY NoneAssumption DEF Operations, Decisions

-----------------------------------------------------------------------------
(* Types.                                                                  *)

LEMMA TypeInit == Init => TypeOK
BY NewCallType DEF Init, TypeOK, Off, Idle, Owners, OwnerStages, Looks, Watches, Open, Told

LEMMA WatchUpdates ==
  ASSUME TypeOK, NEW w \in Watchers
  PROVE  /\ \A told \in Told \cup {None} : Tells(w, told) \in [Watchers -> Watches]
         /\ \A pc \in {"look", "over", "settling"}, i \in Ids, told \in Told \cup {None} :
              [watch EXCEPT ![w] = [@ EXCEPT !.pc = pc, !.target = i, !.told = told]]
                \in [Watchers -> Watches]
BY ZenonT(60) DEF TypeOK, Tells, Watches

LEMMA WatchTypes ==
  ASSUME TypeOK, NEW w \in Watchers
  PROVE  /\ \A state \in Final : Tell(w, state) \in [Watchers -> Watches]
         /\ Fail(w) \in [Watchers -> Watches]
         /\ active # None /\ active.state \in Open => Follow(w) \in [Watchers -> Watches]
<1>1. ASSUME NEW told \in Told PROVE Tells(w, told) \in [Watchers -> Watches]
  BY DEF TypeOK, Watches, Tells
<1>2. ASSUME NEW state \in Final PROVE Tell(w, state) \in [Watchers -> Watches]
  BY <1>1 DEF Tell, Told
<1>3. Fail(w) \in [Watchers -> Watches]
  BY <1>1 DEF Fail, Told
<1>4. ASSUME active # None, active.state \in Open PROVE Follow(w) \in [Watchers -> Watches]
  <2>1. Tells(w, "illegal") \in [Watchers -> Watches]
    BY <1>1 DEF Told
  <2>2. [watch EXCEPT ![w] = [@ EXCEPT !.pc = "check", !.stream = active.state]]
          \in [Watchers -> Watches]
    BY <1>4 DEF TypeOK, Watches
  <2> QED BY <2>1, <2>2 DEF Follow
<1> QED BY <1>2, <1>3, <1>4

LEMMA LookTypes ==
  ASSUME TypeOK, NEW p \in Lookers
  PROVE  /\ [look EXCEPT ![p] = Idle] \in [Lookers -> Looks]
         /\ \A saw \in Ids \cup {None} : [look EXCEPT ![p] = [pc |-> "section", saw |-> saw]] \in [Lookers -> Looks]
         /\ [look EXCEPT ![p].pc = "publish"] \in [Lookers -> Looks]
BY DEF TypeOK, Looks, Idle

(* Whatever a process writes to the journal is a record.                   *)
LEMMA JournalTypes ==
  ASSUME TypeOK
  PROVE  /\ Notify => notice' \subseteq Watchers
         /\ active # None => active.id \in Ids /\ active.state \in Open \cup Final
         /\ \A i \in Ids, state \in Open \cup Final : [id |-> i, state |-> state] \in Operations
         /\ \A p \in Ids \cup Lookers, i \in Ids, state \in Final :
              Decide(p, i, state) => /\ active' \in Operations
                                     /\ decided' \in [Ids -> Decisions \cup {None}]
                                     /\ notice' \subseteq Watchers
BY DEF TypeOK, Notify, Watching, Operations, Decide, Commit, Decisions

LEMMA CheckpointTypes ==
  ASSUME TypeOK, NEW i \in Ids, NEW state \in {"authorizing", "running"}, NEW next \in OwnerStages,
         Checkpoint(i, state, next)
  PROVE  /\ active' \in Operations \cup {None}
         /\ notice' \subseteq Watchers
         /\ own' \in [Ids -> Owners]
<1>1. state \in Open
  BY DEF Open
<1>2. active' \in Operations \cup {None} /\ notice' \subseteq Watchers
  BY <1>1, JournalTypes DEF TypeOK, Checkpoint, Commit
<1>3. own' \in [Ids -> Owners]
  <2>1. own \in [Ids -> Owners] /\ own[i] \in Owners
    BY DEF TypeOK
  <2>2. [own[i] EXCEPT !.pc = next, !.view = state] \in Owners /\ [own[i] EXCEPT !.pc = "broken"] \in Owners
    BY <1>1, <2>1 DEF Owners, OwnerStages
  <2> QED BY <2>1, <2>2 DEF Checkpoint, At
<1> QED BY <1>2, <1>3

LEMMA TypeStep == IInv /\ [Next]_vars => TypeOK'
<1> SUFFICES ASSUME IInv, [Next]_vars PROVE TypeOK'
  OBVIOUS
<1>a. TypeOK
  BY DEF IInv
<1>b. \A i \in Ids : call[i] \in Calls
  BY <1>a DEF TypeOK
<1>o. /\ own \in [Ids -> Owners]
      /\ look \in [Lookers -> Looks]
      /\ watch \in [Watchers -> Watches]
  BY <1>a DEF TypeOK
<1> USE <1>a DEF journalVars, ownerVars, lookVars
<1>s. ASSUME NEW i \in Ids
      PROVE  [own EXCEPT ![i] = [@ EXCEPT !.pc = "settle", !.mute = TRUE]] \in [Ids -> Owners]
  <2>1. [own[i] EXCEPT !.pc = "settle", !.mute = TRUE] \in Owners
    BY <1>o DEF Owners, OwnerStages
  <2> QED BY <1>o, <2>1
<1>1. ASSUME NEW i \in Ids, Request(i) PROVE TypeOK'
  <2>1. own' \in [Ids -> Owners]
    BY <1>1, <1>o, ZenonT(60) DEF Request, At, Owners, OwnerStages
  <2> QED BY <1>1, <2>1 DEF TypeOK, Request
<1>2. ASSUME NEW i \in Ids, Decline(i) PROVE TypeOK'
  <2>1. PICK ending \in MayEnd(call[i]) : call' = [call EXCEPT ![i] = Over(@, ending)]
    BY <1>2 DEF Decline
  <2>2. Over(call[i], ending) \in Calls
    BY <1>b, <2>1, CallTypes, OverType
  <2>3. own' \in [Ids -> Owners]
    BY <1>2, <1>o DEF Decline, At, Owners, OwnerStages
  <2> QED BY <1>2, <2>1, <2>2, <2>3 DEF TypeOK, Decline
<1>3. ASSUME NEW i \in Ids, Admit(i) PROVE TypeOK'
  <2>1. own' \in [Ids -> Owners]
    BY <1>3, <1>o DEF Admit, At, Owners, OwnerStages
  <2>2. active' \in Operations \cup {None} /\ notice' \subseteq Watchers
    BY <1>3, JournalTypes DEF TypeOK, Admit, Commit, Open
  <2> QED BY <1>3, <2>1, <2>2 DEF TypeOK, Admit
<1>4. ASSUME NEW i \in Ids, OpenStream(i) PROVE TypeOK'
  <2>1. own' \in [Ids -> Owners]
    <3>1. \A pc \in {"opened", "calling", "launching"} : At(i, pc) \in [Ids -> Owners]
      BY <1>o DEF At, Owners, OwnerStages
    <3> QED BY <1>4, <1>s, <3>1 DEF OpenStream
  <2> QED BY <1>4, <2>1 DEF TypeOK, OpenStream
<1>5. ASSUME NEW i \in Ids, Announce(i) \/ Accepted(i) PROVE TypeOK'
  <2>1. /\ active' \in Operations \cup {None}
        /\ notice' \subseteq Watchers
        /\ own' \in [Ids -> Owners]
    BY <1>5, CheckpointTypes DEF Announce, Accepted, OwnerStages
  <2> QED BY <1>5, <2>1 DEF TypeOK, Announce, Accepted
<1>6. ASSUME NEW i \in Ids, Announced(i) PROVE TypeOK'
  <2>1. own' \in [Ids -> Owners]
    <3>1. \A pc \in {"opened", "calling", "launching"} : At(i, pc) \in [Ids -> Owners]
      BY <1>o DEF At, Owners, OwnerStages
    <3> QED BY <1>6, <1>s, <3>1 DEF Announced
  <2>2. call' \in [Ids -> Calls]
    BY <1>6 DEF TypeOK, Announced, Calls, Stages
  <2> QED BY <1>6, <2>1, <2>2 DEF TypeOK, Announced
<1>7. ASSUME NEW i \in Ids, ClientStep(i) PROVE TypeOK'
  <2>1. PICK next \in Successors(call[i]) :
          /\ call' = [call EXCEPT ![i] = next]
          /\ own' = At(i, CASE next.at = "over" -> "settle"
                            [] next.at = "accepted" -> "accepted"
                            [] OTHER -> "calling")
    BY <1>7 DEF ClientStep
  <2>2. next \in Calls
    BY <1>b, <2>1, CallTypes
  <2>3. own' \in [Ids -> Owners]
    BY <2>1, <1>o DEF At, Owners, OwnerStages
  <2> QED BY <1>7, <2>1, <2>2, <2>3 DEF TypeOK, ClientStep
<1>8. ASSUME NEW i \in Ids, ServiceStep(i) PROVE TypeOK'
  <2>1. PICK next \in Serves(call[i]) : call' = [call EXCEPT ![i] = next]
    BY <1>8 DEF ServiceStep
  <2>2. next \in Calls
    BY <1>b, <2>1, CallTypes
  <2> QED BY <1>8, <2>1, <2>2 DEF TypeOK, ServiceStep
<1>9. ASSUME NEW i \in Ids, Launch(i) PROVE TypeOK'
  <2>1. \A ending \in Endings : /\ Over(call[i], ending) \in Calls
                                /\ [Over(call[i], ending) EXCEPT !.service = "applied"] \in Calls
    BY <1>b DEF Over, Calls, Stages, Service
  <2>2. call' \in [Ids -> Calls]
    BY <1>9, <2>1 DEF TypeOK, Launch, Endings
  <2>3. own' \in [Ids -> Owners]
    BY <1>9, <1>o DEF Launch, At, Owners, OwnerStages
  <2> QED BY <1>9, <2>2, <2>3 DEF TypeOK, Launch
<1>10. ASSUME NEW i \in Ids, Stop(i) PROVE TypeOK'
  <2>1. Over(call[i], "unknown") \in Calls
    BY <1>b, OverType DEF Endings
  <2>2. own' \in [Ids -> Owners]
    BY <1>10, <1>o, ZenonT(60) DEF Stop, At, Owners, OwnerStages
  <2> QED BY <1>10, <2>1, <2>2 DEF TypeOK, Stop
<1>11. ASSUME NEW i \in Ids, Settle(i) PROVE TypeOK'
  <2>1. PICK state \in Final : SettleAs(i, state)
    BY <1>11, VerdictTypes DEF Settle
  <2>2. own' \in [Ids -> Owners]
    BY <2>1, <1>o DEF SettleAs, At, Owners, OwnerStages
  <2>3. /\ active' \in Operations \cup {None}
        /\ decided' \in [Ids -> Decisions \cup {None}]
        /\ notice' \subseteq Watchers
        /\ holder' \in {i, holder}
    BY <2>1, JournalTypes DEF TypeOK, SettleAs
  <2> QED BY <1>11, <2>2, <2>3 DEF TypeOK, Settle
<1>12. ASSUME NEW p \in Ids \cup Lookers, Publish(p) PROVE TypeOK'
  <2>1. active # None /\ active.state \in Final
    BY <1>12, ConstantsAssumption DEF IInv, JournalInv, Publish, TypeOK
  <2>2. active \in [id : Ids, state : Final]
    BY <2>1 DEF TypeOK, Operations
  <2> QED BY <1>12, <2>2 DEF TypeOK, Publish
<1>13. ASSUME NEW p \in Ids \cup Lookers, Retire(p) 
       PROVE  /\ active' = None /\ holder' = None /\ UNCHANGED <<result, decided, lease>>
              /\ notice' \subseteq Watchers
  BY <1>13, JournalTypes DEF Retire, Commit
<1>14. ASSUME NEW i \in Ids, OwnerRetires(i) PROVE TypeOK'
  <2>1. own' \in [Ids -> Owners]
    BY <1>14, <1>o DEF OwnerRetires, At, Owners, OwnerStages
  <2> QED BY <1>13, <1>14, <2>1 DEF TypeOK, OwnerRetires
<1>15. ASSUME NEW i \in Ids, OwnerGivesUp(i) PROVE TypeOK'
  <2>1. own' \in [Ids -> Owners]
    BY <1>15, <1>o DEF OwnerGivesUp, At, Owners, OwnerStages
  <2> QED BY <1>15, <2>1 DEF TypeOK, OwnerGivesUp
<1>16. ASSUME NEW i \in Ids, Leave(i) PROVE TypeOK'
  <2>1. own' \in [Ids -> Owners]
    BY <1>16, <1>o DEF Leave, At, Owners, OwnerStages
  <2> QED BY <1>16, <2>1, JournalTypes DEF TypeOK, Leave
<1>17. ASSUME NEW i \in Ids, OwnerDies(i) PROVE TypeOK'
  <2>1. own' \in [Ids -> Owners]
    BY <1>17, <1>o DEF OwnerDies, At, Owners, OwnerStages
  <2>2. notice' \subseteq Watchers /\ holder' \in {holder, None}
    BY <1>17, JournalTypes DEF OwnerDies, TypeOK
  <2> QED BY <1>17, <2>1, <2>2 DEF TypeOK, OwnerDies
<1>18. CASE KernelFreesLease
  BY <1>18 DEF TypeOK, KernelFreesLease
<1>c. \A i \in Ids : decided[i] # None => decided[i].state \in Final
  BY DEF TypeOK, Decisions
<1>d. \A p \in Lookers : look[p].saw \in Ids \cup {None}
  BY DEF TypeOK, Looks
<1>19. ASSUME NEW p \in Lookers, LookRead(p) PROVE TypeOK'
  <2>1. active # None => active.id \in Ids
    BY JournalTypes
  <2>2. look' \in [Lookers -> Looks]
    BY <1>19, <2>1, <1>o DEF LookRead, Looks
  <2>3. watch' \in [Watchers -> Watches]
    BY <1>19, WatchTypes DEF TypeOK, LookRead
  <2> QED BY <1>19, <2>2, <2>3 DEF TypeOK, LookRead
<1>20. ASSUME NEW p \in Lookers, LookRetained(p) PROVE TypeOK'
  <2>1. look' \in [Lookers -> Looks]
    BY <1>20, LookTypes DEF LookRetained, Return
  <2>2. /\ p \in Watchers
        /\ active = None => /\ watch[p].target \in Ids
                            /\ decided[watch[p].target] # None
    BY <1>20 DEF IInv, LookInv, WatchInv, Known, IsActive, LookRetained, InSection
  <2>3. watch' \in [Watchers -> Watches]
    BY <1>20, <1>c, <2>2, WatchTypes DEF LookRetained
  <2> QED BY <1>20, <2>1, <2>3 DEF TypeOK, LookRetained
<1>21. ASSUME NEW p \in Lookers, LookTooLate(p) PROVE TypeOK'
  <2>1. look' \in [Lookers -> Looks]
    BY <1>21, LookTypes DEF LookTooLate, Return
  <2>2. look[p].saw \in Ids /\ decided[look[p].saw] # None
    BY <1>21, <1>d DEF IInv, LookInv, Known, IsActive, LookTooLate, InSection
  <2>3. watch' \in [Watchers -> Watches]
    BY <1>21, <1>c, <2>2, WatchTypes DEF TypeOK, LookTooLate, Ended
  <2> QED BY <1>21, <2>1, <2>3 DEF TypeOK, LookTooLate
<1>22. ASSUME NEW p \in Lookers, LookComplete(p) PROVE TypeOK'
  <2>1. look' \in [Lookers -> Looks]
    BY <1>22, LookTypes DEF LookComplete
  <2> QED BY <1>22, <2>1 DEF TypeOK, LookComplete
<1>23. ASSUME NEW p \in Lookers, LookBusy(p) PROVE TypeOK'
  <2>1. look' \in [Lookers -> Looks]
    BY <1>23, LookTypes DEF LookBusy, Return
  <2>2. watch' \in [Watchers -> Watches]
    BY <1>23, WatchTypes DEF TypeOK, LookBusy, Ended, Seen
  <2> QED BY <1>23, <2>1, <2>2 DEF TypeOK, LookBusy
<1>24. ASSUME NEW p \in Lookers, LookAbandoned(p) PROVE TypeOK'
  <2>1. look' \in [Lookers -> Looks]
    BY <1>24, LookTypes DEF LookAbandoned
  <2>2. active.id \in Ids
    BY <1>24, JournalTypes DEF LookAbandoned, Seen
  <2>3. /\ active' \in Operations
        /\ decided' \in [Ids -> Decisions \cup {None}]
        /\ notice' \subseteq Watchers
    BY <1>24, <2>2, JournalTypes DEF LookAbandoned, Final
  <2> QED BY <1>24, <2>1, <2>3 DEF TypeOK, LookAbandoned
<1>25. ASSUME NEW p \in Lookers, LookFails(p) PROVE TypeOK'
  <2>1. look' \in [Lookers -> Looks]
    BY <1>25, LookTypes DEF LookFails, Return
  <2>2. watch' \in [Watchers -> Watches]
    BY <1>25, WatchTypes DEF TypeOK, LookFails, Ended
  <2> QED BY <1>25, <2>1, <2>2 DEF TypeOK, LookFails
<1>26. ASSUME NEW p \in Lookers, LookRetires(p) PROVE TypeOK'
  <2>1. look' \in [Lookers -> Looks]
    BY <1>26, LookTypes DEF LookRetires, Return
  <2>2. active.state \in Final
    BY <1>26, ConstantsAssumption DEF IInv, JournalInv, TypeOK, LookRetires, Retire
  <2>3. watch' \in [Watchers -> Watches]
    BY <1>26, <2>2, WatchTypes DEF TypeOK, LookRetires, Ended
  <2> QED BY <1>13, <1>26, <2>1, <2>3 DEF TypeOK, LookRetires
<1>27. ASSUME NEW p \in Lookers, LookerDies(p) PROVE TypeOK'
  <2>1. look' \in [Lookers -> Looks]
    BY <1>27, LookTypes DEF LookerDies, Return
  <2>2. watch' \in [Watchers -> Watches]
    BY <1>27, WatchTypes DEF TypeOK, LookerDies, Ended
  <2> QED BY <1>27, <2>1, <2>2 DEF TypeOK, LookerDies
<1>28. ASSUME NEW w \in Watchers, WatchTarget(w) PROVE TypeOK'
  <2>1. PICK i \in Ids :
       /\ ~ (decided[i] = None /\ (active = None \/ active.id # i))
       /\ LET as(pc, told) == [watch EXCEPT ![w] = [@ EXCEPT !.pc = pc, !.target = i, !.told = told]] IN
            IF active = None THEN watch' = as("over", decided[i].state) /\ UNCHANGED holder
            ELSE IF active.state \in Final THEN watch' = as("settling", None) /\ holder' = w
            ELSE /\ watch' = IF active.id = i THEN as("look", None) ELSE as("over", "error")
                 /\ UNCHANGED holder
    BY <1>28 DEF WatchTarget
  <2>3. active = None => decided[i].state \in Told
    BY <2>1, <1>c DEF Told
  <2>4. watch' \in [Watchers -> Watches]
    <3>1. PICK pc \in {"over", "settling", "look"}, told \in Told \cup {None} :
            watch' = [watch EXCEPT ![w] = [@ EXCEPT !.pc = pc, !.target = i, !.told = told]]
      BY <2>1, <2>3 DEF Told
    <3>2. [watch[w] EXCEPT !.pc = pc, !.target = i, !.told = told] \in Watches
      BY <1>o DEF Watches
    <3> QED BY <1>o, <3>1, <3>2
  <2>5. holder' \in {holder, w}
    BY <2>1
  <2> QED BY <1>28, <2>4, <2>5 DEF TypeOK, WatchTarget, Lookers
<1>29. ASSUME NEW w \in Watchers, TargetRetired(w) PROVE TypeOK'
  <2>1. watch[w].target \in Ids /\ decided[watch[w].target] # None
    BY <1>29 DEF IInv, WatchInv, TargetRetired
  <2>2. watch' = Tells(w, decided[watch[w].target].state)
    BY <1>29 DEF TargetRetired
  <2>3. watch' \in [Watchers -> Watches]
    BY <2>1, <2>2, <1>c, WatchUpdates DEF Told, TypeOK
  <2>4. w \in Ids \cup Lookers
    BY DEF Lookers
  <2> QED BY <1>13, <1>29, <2>3, <2>4 DEF TypeOK, TargetRetired
<1>30. ASSUME NEW w \in Watchers, Check(w) \/ Wake(w) \/ Deadline(w) PROVE TypeOK'
  <2>0. "timeout" \in Told
    BY DEF Told
  <2>1. watch' \in [Watchers -> Watches]
    <3>1. CASE Check(w)
      <4>1. Tells(w, "timeout") \in [Watchers -> Watches]
        BY <2>0, WatchUpdates
      <4>2. [watch EXCEPT ![w].pc = "wait"] \in [Watchers -> Watches]
        BY <1>o DEF Watches
      <4> QED BY <3>1, <4>1, <4>2 DEF Check
    <3>2. CASE Wake(w) \/ Deadline(w)
      <4>1. [watch EXCEPT ![w].pc = "look"] \in [Watchers -> Watches]
        BY <1>o DEF Watches
      <4>2. [watch EXCEPT ![w].expired = TRUE] \in [Watchers -> Watches]
        BY <1>o DEF Watches
      <4> QED BY <3>2, <4>1, <4>2 DEF Wake, Deadline
    <3> QED BY <1>30, <3>1, <3>2
  <2>2. notice' \subseteq notice
    BY <1>30 DEF Check, Wake, Deadline
  <2> QED BY <1>30, <2>1, <2>2 DEF TypeOK, Check, Wake, Deadline
<1>31. CASE Acknowledge
  BY <1>31 DEF TypeOK, Acknowledge
<1>32. CASE UNCHANGED vars
  BY <1>32 DEF TypeOK, vars
<1> QED
  BY <1>1, <1>2, <1>3, <1>4, <1>5, <1>6, <1>7, <1>8, <1>9, <1>10, <1>11, <1>12, <1>14, <1>15,
     <1>16, <1>17, <1>18, <1>19, <1>20, <1>21, <1>22, <1>23, <1>24, <1>25, <1>26, <1>27,
     <1>28, <1>29, <1>30, <1>31, <1>32 DEF Next, OwnerStep, LookStep, WatchStep

(* What the updates of a call leave alone.                                 *)
LEMMA CallUpdates ==
  /\ \A c \in Calls, ending \in Endings :
       /\ Over(c, ending) \in Calls
       /\ Over(c, ending).at = "over"
       /\ Over(c, ending).service = c.service
       /\ Over(c, ending).ending = ending
  /\ \A c \in Calls, service \in Service :
       /\ [c EXCEPT !.service = service] \in Calls
       /\ [c EXCEPT !.service = service].at = c.at
       /\ [c EXCEPT !.service = service].service = service
       /\ [c EXCEPT !.service = service].ending = c.ending
BY DEF Over, Calls, Stages

(* A checkpoint that fails breaks the command, whether or not the record   *)
(* reached the disk.                                                       *)
LEMMA CheckpointEffect ==
  ASSUME TypeOK, NEW i \in Ids, NEW state \in Open, NEW next, Checkpoint(i, state, next)
  PROVE  /\ \A j \in Ids \ {i} : own'[j] = own[j]
         /\ \/ own'[i].pc = "broken" /\ active' = active
            \/ /\ MayWrite(i, state)
               /\ active' = [id |-> i, state |-> state]
               /\ own'[i].pc = "broken" \/ (own'[i].pc = next /\ own'[i].view = state)
<1>1. own \in [Ids -> Owners] /\ own[i] \in Owners
  BY DEF TypeOK
<1>2. CASE own' = At(i, "broken")
  <2>1. own'[i].pc = "broken" /\ \A j \in Ids \ {i} : own'[j] = own[j]
    BY <1>1, <1>2 DEF At, Owners
  <2>2. active' = active \/ (MayWrite(i, state) /\ active' = [id |-> i, state |-> state])
    BY DEF Checkpoint, Commit, MayWrite
  <2> QED BY <2>1, <2>2 DEF MayWrite
<1>3. CASE own' = [own EXCEPT ![i] = [@ EXCEPT !.pc = next, !.view = state]] /\ MayWrite(i, state) /\ Commit([id |-> i, state |-> state])
  <2>1. own'[i].pc = next /\ own'[i].view = state /\ \A j \in Ids \ {i} : own'[j] = own[j]
    BY <1>1, <1>3 DEF Owners
  <2> QED BY <1>3, <2>1 DEF Commit
<1> QED BY <1>2, <1>3 DEF Checkpoint

-----------------------------------------------------------------------------
(* What every step does to the record: a decision is for good, what is     *)
(* known of an operation stays known, and its states follow one another.   *)
Evolves ==
  \A i \in Ids :
    /\ decided[i] # None => decided'[i] = decided[i]
    /\ Known(i) => Known(i)'
    /\ IsActive(i)' => IsActive(i) \/ ~ Known(i)
    /\ IsActive(i) /\ IsActive(i)' /\ active'.state \in Open =>
         active.state \in Open /\ active'.state \in Transitions(active.state) \cup {active.state}
    /\ decided[i] = None /\ decided'[i] # None /\ decided'[i].state = "permission-denied" =>
         IsActive(i) /\ active.state = "authorizing"

LEMMA EvolvesStep ==
  ASSUME IInv, [Next]_vars
  PROVE  Evolves
<1>t. /\ TypeOK
      /\ active \in Operations \cup {None} /\ decided \in [Ids -> Decisions \cup {None}]
      /\ \A i \in Ids : own[i].view \in Open
  BY DEF IInv, TypeOK, Owners
<1>i. OwnerInv /\ JournalInv
  BY DEF IInv
<1>1. ASSUME UNCHANGED <<active, decided>> PROVE Evolves
  BY <1>1 DEF Evolves, Known, IsActive
<1>2. ASSUME NEW i \in Ids, NEW state \in Open, NEW next, Checkpoint(i, state, next), decided' = decided,
             own[i].pc \in Recording
      PROVE  Evolves
  <2>1. active = [id |-> i, state |-> own[i].view] /\ decided[i] = None
    BY <1>i, <1>t, <1>2, NoneIsNoRecord DEF OwnerInv, JournalInv, IsActive
  <2>2. CASE active' = active
    BY <1>1, <1>2, <2>2
  <2>3. CASE active' = [id |-> i, state |-> state] /\ state \in Transitions(own[i].view)
    BY <1>2, <1>t, <2>1, <2>3, NoneIsNoRecord DEF Evolves, Known, IsActive
  <2> QED BY <1>2, <1>t, <2>2, <2>3, CheckpointEffect DEF MayWrite
<1>3. ASSUME NEW i \in Ids, Admit(i) PROVE Evolves
  <2>1. CASE UNCHANGED active
    BY <1>1, <1>3, <2>1 DEF Admit
  <2>2. CASE active = None /\ active' = [id |-> i, state |-> "pending"]
    <3>1. decided[i] = None
      BY <1>i, <1>3 DEF JournalInv, Admit, Powerless
    <3> QED BY <1>3, <2>2, <3>1 DEF Evolves, Known, IsActive, Admit
  <2> QED BY <1>3, <2>1, <2>2 DEF Admit, Admissible, Commit
<1>4. ASSUME NEW p, NEW i \in Ids, NEW state \in Final, Decide(p, i, state), decided[i] = None,
             active # None, active.id = i, active.state \in Open,
             state = "permission-denied" => active.state = "authorizing"
      PROVE  Evolves
  <2>1. /\ active' = [id |-> i, state |-> state] /\ active'.state \notin Open
        /\ decided'[i] = [state |-> state, by |-> p]
        /\ \A j \in Ids \ {i} : decided'[j] = decided[j]
    BY <1>4, <1>t, TransitionTypes DEF Decide, Commit
  <2> QED BY <1>4, <2>1 DEF Evolves, Known, IsActive
<1>5. ASSUME NEW i \in Ids, Settle(i) PROVE Evolves
  <2>1. PICK state \in Verdicts(i) : SettleAs(i, state)
    BY <1>5 DEF Settle
  <2>2. active = [id |-> i, state |-> own[i].view] /\ active # None /\ decided[i] = None
    BY <1>5, <1>i, <1>t, NoneIsNoRecord DEF OwnerInv, JournalInv, IsActive, Settle, Recording
  <2>3. state = "permission-denied" => own[i].view = "authorizing"
    BY <2>1 DEF Verdicts
  <2>4. state \in Final
    BY <2>1, VerdictTypes
  <2>5. CASE UNCHANGED <<active, decided>>
    BY <1>1, <2>5
  <2>6. CASE Decide(i, i, state)
    BY <1>4, <1>t, <2>2, <2>3, <2>4, <2>6
  <2> QED BY <2>1, <2>5, <2>6 DEF SettleAs, Decide
<1>6. ASSUME NEW p \in Ids \cup Lookers, Retire(p) PROVE Evolves
  <2>1. active # None /\ active.state \in Final /\ active' = None /\ decided' = decided
    BY <1>6, <1>i, ConstantsAssumption DEF Retire, Commit, JournalInv
  <2> QED BY <1>i, <2>1 DEF Evolves, Known, IsActive, JournalInv
<1>7. ASSUME NEW p \in Lookers, LookAbandoned(p) PROVE Evolves
  <2>1. active # None /\ active.state \in Open /\ active.id \in Ids
    BY <1>7, <1>t DEF LookAbandoned, Seen, Operations
  <2>2. decided[active.id] = None
    BY <1>i, <2>1 DEF JournalInv, IsActive
  <2> QED BY <1>4, <1>7, <2>1, <2>2 DEF LookAbandoned, Final
<1>8. ASSUME NEW i \in Ids, OwnerStep(i) PROVE Evolves
  <2>1. CASE Announce(i)
    <3>1. (IF Regional(i) THEN "authorizing" ELSE "running") \in Open
      BY DEF Open
    <3> QED BY <1>2, <2>1, <3>1 DEF Announce, Recording
  <2>2. CASE Accepted(i)
    BY <1>2, <2>2, "running" \in Open DEF Accepted, Recording, Open
  <2>3. CASE OwnerRetires(i)
    BY <1>6, <2>3 DEF OwnerRetires
  <2>4. CASE \/ Request(i) \/ Decline(i) \/ OpenStream(i) \/ Announced(i) \/ ClientStep(i)
             \/ Launch(i) \/ Publish(i) \/ OwnerGivesUp(i) \/ Leave(i)
    BY <1>1, <2>4 DEF Request, Decline, OpenStream, Announced, ClientStep, Launch, Publish,
       OwnerGivesUp, Leave, journalVars
  <2> QED BY <1>3, <1>5, <1>8, <2>1, <2>2, <2>3, <2>4 DEF OwnerStep
<1>9. ASSUME NEW p \in Lookers, LookStep(p) \/ LookFails(p) \/ LookerDies(p) PROVE Evolves
  <2>1. CASE LookRetires(p)
    BY <1>6, <2>1 DEF LookRetires
  <2>2. CASE \/ LookRead(p) \/ LookRetained(p) \/ LookTooLate(p) \/ LookComplete(p) \/ LookBusy(p)
             \/ Publish(p) \/ LookFails(p) \/ LookerDies(p)
    BY <1>1, <2>2 DEF LookRead, LookRetained, LookTooLate, LookComplete, LookBusy, Publish,
       LookFails, LookerDies, journalVars
  <2> QED BY <1>7, <1>9, <2>1, <2>2 DEF LookStep
<1>10. ASSUME NEW w \in Watchers, WatchStep(w) \/ Deadline(w) PROVE Evolves
  <2>1. CASE TargetRetired(w)
    BY <1>6, <2>1 DEF TargetRetired, Lookers
  <2>2. CASE WatchTarget(w) \/ Check(w) \/ Wake(w) \/ Deadline(w)
    BY <1>1, <2>2 DEF WatchTarget, Check, Wake, Deadline, journalVars
  <2> QED BY <1>10, <2>1, <2>2 DEF WatchStep
<1>11. ASSUME NEW i \in Ids, ServiceStep(i) \/ Stop(i) \/ OwnerDies(i) PROVE Evolves
  BY <1>1, <1>11 DEF ServiceStep, Stop, OwnerDies, journalVars
<1>12. CASE KernelFreesLease \/ Acknowledge \/ UNCHANGED vars
  BY <1>1, <1>12 DEF KernelFreesLease, Acknowledge, journalVars, vars
<1> QED BY <1>8, <1>9, <1>10, <1>11, <1>12 DEF Next

-----------------------------------------------------------------------------
(* The commands, the journal and the services.                             *)
Core == OwnerInv /\ JournalInv /\ CallInv /\ DecisionInv /\ EffectIsOnRecord /\ LiveOwnerKeepsIt

LEMMA CoreInit == Init => Core
BY ConstantsAssumption DEF Init, Core, Off, NewCall, OwnerInv, JournalInv, CallInv,
   DecisionInv, EffectIsOnRecord, LiveOwnerKeepsIt, Recording, IsActive, Powerless

LEMMA CoreStep == IInv /\ [Next]_vars => Core'
<1> SUFFICES ASSUME IInv, [Next]_vars PROVE Core'
  OBVIOUS
<1>y. TypeOK
  BY DEF IInv
<1>t. /\ own \in [Ids -> Owners] /\ call \in [Ids -> Calls] /\ active \in Operations \cup {None}
      /\ decided \in [Ids -> Decisions \cup {None}] /\ lease \in Ids \cup {None}
      /\ holder \in Ids \cup Lookers \cup {None}
  BY <1>y DEF TypeOK
<1>i. /\ OwnerInv /\ JournalInv /\ CallInv /\ DecisionInv /\ EffectIsOnRecord /\ LiveOwnerKeepsIt
  BY DEF IInv
<1>n. None \notin Ids \cup Lookers /\ Ids \cap Lookers = {}
  BY ConstantsAssumption
<1>1. ASSUME NEW i \in Ids, Request(i) PROVE Core'
  <2>1. OwnerInv' /\ JournalInv' /\ LiveOwnerKeepsIt'
    BY <1>1, <1>i DEF Request, journalVars, IsActive, Unadmitted, Recording, Powerless,
       OwnerInv, JournalInv, LiveOwnerKeepsIt
  <2>2. CallInv' /\ DecisionInv' /\ EffectIsOnRecord'
    BY <1>1, <1>i DEF Request, journalVars, CallInv, DecisionInv, EffectIsOnRecord
  <2> QED BY <2>1, <2>2 DEF Core
<1>2. ASSUME NEW i \in Ids, Decline(i) PROVE Core'
  <2>1. OwnerInv' /\ JournalInv' /\ LiveOwnerKeepsIt'
    BY <1>2, <1>i DEF Decline, At, journalVars, IsActive, Unadmitted, Recording, Powerless,
       OwnerInv, JournalInv, LiveOwnerKeepsIt
  <2>2. CallInv' /\ DecisionInv' /\ EffectIsOnRecord'
    BY <1>2, <1>t, <1>i DEF Decline, Over, MayEnd, At, journalVars, CallInv, DecisionInv,
       EffectIsOnRecord
  <2> QED BY <2>1, <2>2 DEF Core
<1>3. ASSUME NEW i \in Ids, Admit(i) PROVE Core'
  <2>1. CASE ~ Admissible
    <3>1. active' = active /\ lease' = lease /\ own' = At(i, "rejected")
      BY <1>3, <2>1 DEF Admit
    <3>2. OwnerInv'
      BY <1>i, <3>1 DEF At, OwnerInv, Recording
    <3>3. JournalInv' /\ CallInv' /\ DecisionInv' /\ EffectIsOnRecord' /\ LiveOwnerKeepsIt'
      BY <1>3, <1>i, <3>1 DEF Admit, At, JournalInv, CallInv, DecisionInv, EffectIsOnRecord,
         LiveOwnerKeepsIt, IsActive, Unadmitted, Powerless
    <3> QED BY <3>2, <3>3 DEF Core
  <2>2. CASE Admissible
    <3>1. /\ active = None /\ result = None
          /\ active' = [id |-> i, state |-> "pending"]
          /\ lease' = IF lease = None THEN i ELSE lease
          /\ own' = At(i, IF lease = None THEN "admitted" ELSE "broken")
          /\ own[i].pc = "asking"
      BY <1>3, <2>2 DEF Admit, Commit, Admissible
    <3>2. \A j \in Ids : own[j].pc \notin Recording
      BY <1>i, <3>1, NoneIsNoRecord, <1>t DEF OwnerInv, Owners
    <3>3. own[i].view = "pending" /\ decided[i] = None
      BY <1>i, <3>1 DEF OwnerInv, JournalInv, Powerless
    <3>4. OwnerInv'
      <4>1. /\ own'[i].view = "pending"
            /\ own'[i].pc \in {"admitted", "broken"} /\ (own'[i].pc = "admitted" => lease' = i)
            /\ \A j \in Ids \ {i} : own'[j] = own[j]
        BY <1>t, <3>1, <3>3 DEF At
      <4>2. \A j \in Ids : own[j].pc = "publish" => lease' = j
        BY <1>i, <1>n, <3>1 DEF OwnerInv
      <4> QED BY <3>1, <3>2, <4>1, <4>2, <1>i DEF OwnerInv, Recording
    <3>5. JournalInv'
      BY <1>3, <1>t, <1>i, <3>1, <3>3 DEF Admit, At, JournalInv, IsActive, Final, Unadmitted
    <3>6. CallInv' /\ DecisionInv' /\ EffectIsOnRecord' /\ LiveOwnerKeepsIt'
      BY <1>3, <1>i, <3>1 DEF Admit, At, CallInv, DecisionInv, EffectIsOnRecord,
         LiveOwnerKeepsIt
    <3> QED BY <3>4, <3>5, <3>6 DEF Core
  <2> QED BY <2>1, <2>2
<1>4. ASSUME NEW i \in Ids, OpenStream(i) PROVE Core'
  <2>1. /\ own[i].pc = "admitted" /\ own'[i].pc \in {"opened", "settle"} /\ own'[i].view = own[i].view
        /\ \A j \in Ids \ {i} : own'[j] = own[j]
        /\ UNCHANGED <<active, result, decided, holder, lease, call>>
    BY <1>4, <1>t, ZenonT(60) DEF OpenStream, At, Owners, journalVars, lookVars, Open
  <2>2. OwnerInv'
    BY <1>i, <2>1 DEF OwnerInv, Recording
  <2>3. JournalInv' /\ DecisionInv' /\ EffectIsOnRecord' /\ LiveOwnerKeepsIt'
    BY <1>i, <2>1 DEF JournalInv, DecisionInv, EffectIsOnRecord, LiveOwnerKeepsIt, IsActive,
       Unadmitted, Powerless
  <2>4. CallInv'
    BY <1>i, <2>1 DEF CallInv, NewCall
  <2> QED BY <2>2, <2>3, <2>4 DEF Core
<1>5. ASSUME NEW i \in Ids, Announce(i) PROVE Core'
  <2> DEFINE state == IF Regional(i) THEN "authorizing" ELSE "running"
  <2>1. /\ own[i].pc = "opened" /\ Free
        /\ \A j \in Ids \ {i} : own'[j] = own[j]
        /\ UNCHANGED <<result, decided, holder, lease, call>>
    BY <1>5, <1>t DEF Announce, Checkpoint, At
  <2>2. state \in {"authorizing", "running"} /\ active = [id |-> i, state |-> "pending"]
    BY <1>i, <2>1 DEF OwnerInv, Recording
  <2>3. \/ own'[i].pc = "broken" /\ active' = active
        \/ /\ active' = [id |-> i, state |-> state]
           /\ own'[i].pc = "broken" \/ (own'[i].pc = "announced" /\ own'[i].view = state)
    BY <1>5, <1>y, CheckpointEffect DEF Announce, Open
  <2> HIDE DEF state
  <2>4. OwnerInv'
    BY <1>i, <2>1, <2>2, <2>3 DEF OwnerInv, Recording
  <2>5. JournalInv'
    BY <1>i, <2>1, <2>2, <2>3, NoneIsNoRecord DEF JournalInv, IsActive, Open, Final, Unadmitted
  <2>6. CallInv' /\ DecisionInv' /\ EffectIsOnRecord' /\ LiveOwnerKeepsIt'
    BY <1>i, <2>1, <2>2, <2>3 DEF CallInv, DecisionInv, EffectIsOnRecord, LiveOwnerKeepsIt
  <2> QED BY <2>4, <2>5, <2>6 DEF Core
<1>6. ASSUME NEW i \in Ids, Announced(i) PROVE Core'
  <2>1. /\ own[i].pc = "announced" /\ own'[i].view = own[i].view
        /\ \/ /\ own'[i].pc \in {"calling", "launching"} /\ call'[i] = [call[i] EXCEPT !.at = "ready"]
           \/ own'[i].pc = "settle" /\ call'[i] = call[i]
        /\ \A j \in Ids \ {i} : own'[j] = own[j] /\ call'[j] = call[j]
        /\ UNCHANGED <<active, result, decided, holder, lease>>
    BY <1>6, <1>t, ZenonT(60) DEF Announced, At, Owners, journalVars, lookVars, Open
  <2>2. OwnerInv'
    BY <1>i, <2>1 DEF OwnerInv, Recording
  <2>3. JournalInv' /\ LiveOwnerKeepsIt'
    BY <1>i, <2>1 DEF JournalInv, LiveOwnerKeepsIt, IsActive, Unadmitted, Powerless
  <2>4. call[i] = NewCall /\ call'[i] \in {NewCall, [NewCall EXCEPT !.at = "ready"]}
    BY <1>i, <2>1 DEF CallInv
  <2>5. CallInv' /\ DecisionInv' /\ EffectIsOnRecord'
    BY <1>i, <2>1 DEF CallInv, DecisionInv, EffectIsOnRecord, NewCall
  <2> QED BY <2>2, <2>3, <2>5 DEF Core
<1>7. ASSUME NEW i \in Ids, ClientStep(i) PROVE Core'
  <2>1. PICK next \in Successors(call[i]) \ Serves(call[i]) :
          /\ call' = [call EXCEPT ![i] = next]
          /\ own' = At(i, CASE next.at = "over" -> "settle"
                            [] next.at = "accepted" -> "accepted"
                            [] OTHER -> "calling")
    BY <1>7 DEF ClientStep
  <2>2. /\ own[i].pc = "calling" /\ own'[i].pc \in {"calling", "accepted", "settle"}
        /\ own'[i].view = own[i].view
        /\ own'[i].pc = "settle" <=> next.at = "over"
        /\ own'[i].pc = "accepted" <=> next.at = "accepted"
        /\ call'[i] = next
        /\ \A j \in Ids \ {i} : own'[j] = own[j] /\ call'[j] = call[j]
        /\ UNCHANGED <<active, result, decided, holder, lease>>
    BY <1>7, <1>t, <2>1 DEF ClientStep, At, journalVars
  <2>3. decided[i] = None /\ active # None /\ active.id = i /\ active.state # "pending"
    BY <1>i, <1>t, <2>2, NoneIsNoRecord DEF JournalInv, OwnerInv, Owners, Recording, Powerless
  <2>4. OwnerInv'
    BY <1>i, <2>2 DEF OwnerInv, Recording
  <2>5. JournalInv' /\ LiveOwnerKeepsIt'
    BY <1>i, <2>2, <2>3 DEF JournalInv, LiveOwnerKeepsIt, IsActive, Unadmitted
  <2>6. DecisionInv' /\ EffectIsOnRecord'
    BY <1>i, <2>2, <2>3 DEF DecisionInv, EffectIsOnRecord
  <2>7. CallInv'
    <3> DEFINE Sound ==
          /\ next.at \in {"sent", "accepted", "over"}
          /\ next.at # "over" <=> next.ending = "none"
          /\ next.at = "accepted" => next.service = "applied"
          /\ next.ending = "verified" => next.service = "applied"
          /\ next.ending \in {"denied", "other"} => next.service # "asked"
          /\ next.ending = "denied" /\ next.service = "applied" => own[i].view = "running"
    <3>1. Sound
      <4>1. /\ call[i].at \in {"ready", "sent", "accepted"} /\ call[i].ending = "none"
            /\ call[i].at = "ready" => call[i].service = "untouched"
            /\ call[i].at = "accepted" => call[i].service = "applied" /\ own[i].view = "running"
        BY <1>i, <2>2 DEF CallInv
      <4>2. CASE next \in Proceeds(call[i])
        BY <1>t, <4>1, <4>2 DEF Proceeds, Calls
      <4>3. ASSUME NEW ending \in MayEnd(call[i]), next = Over(call[i], ending) PROVE Sound
        BY <4>1, <4>3 DEF MayEnd, Over
      <4> QED BY <4>2, <4>3 DEF Successors
    <3> QED BY <1>i, <2>2, <3>1 DEF CallInv
  <2> QED BY <2>4, <2>5, <2>6, <2>7 DEF Core
<1>8. ASSUME NEW i \in Ids, Accepted(i) PROVE Core'
  <2>1. /\ own[i].pc = "accepted" /\ Free
        /\ \A j \in Ids \ {i} : own'[j] = own[j]
        /\ UNCHANGED <<result, decided, holder, lease, call>>
    BY <1>8, <1>t DEF Accepted, Checkpoint, At
  <2>2. active = [id |-> i, state |-> own[i].view] /\ own[i].view \in Open \ {"pending"} /\ call[i].at = "accepted"
    BY <1>i, <1>t, <2>1 DEF OwnerInv, CallInv, Owners, Recording
  <2>3. \/ own'[i].pc = "broken" /\ active' = active
        \/ /\ active' = [id |-> i, state |-> "running"]
           /\ own'[i].pc = "broken" \/ (own'[i].pc = "calling" /\ own'[i].view = "running")
    BY <1>8, <1>y, CheckpointEffect DEF Accepted, Open
  <2>4. OwnerInv'
    BY <1>i, <2>1, <2>3 DEF OwnerInv, Recording
  <2>5. JournalInv'
    BY <1>i, <2>1, <2>2, <2>3, NoneIsNoRecord DEF JournalInv, IsActive, Final, Unadmitted
  <2>6. CallInv' /\ DecisionInv' /\ EffectIsOnRecord' /\ LiveOwnerKeepsIt'
    BY <1>i, <2>1, <2>2, <2>3, NoneIsNoRecord DEF CallInv, DecisionInv, EffectIsOnRecord,
       LiveOwnerKeepsIt, Open
  <2> QED BY <2>4, <2>5, <2>6 DEF Core
<1>9. ASSUME NEW i \in Ids, ServiceStep(i) PROVE Core'
  <2>1. OwnerInv' /\ JournalInv' /\ LiveOwnerKeepsIt'
    BY <1>9, <1>i DEF ServiceStep, journalVars, IsActive, OwnerInv, JournalInv,
       LiveOwnerKeepsIt
  <2>2. CallInv' /\ DecisionInv' /\ EffectIsOnRecord'
    BY <1>9, <1>t, <1>i DEF ServiceStep, Serves, journalVars, CallInv, DecisionInv,
       EffectIsOnRecord, Calls, NewCall
  <2> QED BY <2>1, <2>2 DEF Core
<1>10. ASSUME NEW i \in Ids, Launch(i) PROVE Core'
  <2>1. /\ own[i].pc = "launching" /\ own'[i].pc = "settle" /\ own'[i].view = own[i].view
        /\ \A j \in Ids \ {i} : own'[j] = own[j] /\ call'[j] = call[j]
        /\ UNCHANGED <<active, result, decided, holder, lease>>
    BY <1>10, <1>t DEF Launch, At, journalVars
  <2>2. /\ call'[i].at = "over"
        /\ \/ call'[i].service = "applied" /\ call'[i].ending \in {"verified", "unknown"}
           \/ call'[i].service = "untouched" /\ call'[i].ending = "other"
    <3>1. call[i].at = "ready" /\ call[i].service = "untouched"
      BY <1>i, <2>1 DEF CallInv
    <3>2. ASSUME NEW ending \in Endings
          PROVE  /\ Over(call[i], ending).at = "over"
                 /\ Over(call[i], ending).ending = ending
                 /\ Over(call[i], ending).service = "untouched"
                 /\ [Over(call[i], ending) EXCEPT !.service = "applied"].at = "over"
                 /\ [Over(call[i], ending) EXCEPT !.service = "applied"].ending = ending
                 /\ [Over(call[i], ending) EXCEPT !.service = "applied"].service = "applied"
      BY <1>t, <3>1, CallUpdates
    <3>3. \/ call'[i] \in {[Over(call[i], "verified") EXCEPT !.service = "applied"],
                          [Over(call[i], "unknown") EXCEPT !.service = "applied"]}
          \/ call'[i] = Over(call[i], "other")
      BY <1>10, <1>t DEF Launch
    <3> QED BY <3>2, <3>3, ZenonT(60) DEF Endings
  <2>3. decided[i] = None /\ active # None /\ active.id = i /\ active.state # "pending"
    BY <1>i, <1>t, <2>1, NoneIsNoRecord DEF JournalInv, OwnerInv, Owners, Recording, Powerless
  <2>4. OwnerInv' /\ JournalInv' /\ LiveOwnerKeepsIt'
    BY <1>i, <2>1, <2>3 DEF OwnerInv, JournalInv, LiveOwnerKeepsIt, IsActive, Unadmitted,
       Recording
  <2>5. CallInv' /\ DecisionInv' /\ EffectIsOnRecord'
    BY <1>i, <2>1, <2>2, <2>3 DEF CallInv, DecisionInv, EffectIsOnRecord
  <2> QED BY <2>4, <2>5 DEF Core
<1>11. ASSUME NEW i \in Ids, Stop(i) PROVE Core'
  <2>1. OwnerInv' /\ JournalInv' /\ LiveOwnerKeepsIt'
    BY <1>11, <1>t, <1>i, NoneIsNoRecord DEF Stop, journalVars, IsActive, Unadmitted,
       Recording, OwnerInv, JournalInv, LiveOwnerKeepsIt, Owners
  <2>2. CallInv' /\ DecisionInv' /\ EffectIsOnRecord'
    BY <1>11, <1>t, <1>i DEF Stop, Over, journalVars, CallInv, DecisionInv, EffectIsOnRecord
  <2> QED BY <2>1, <2>2 DEF Core
<1>12. ASSUME NEW i \in Ids, Settle(i) PROVE Core'
  <2>1. PICK state \in Verdicts(i) : SettleAs(i, state)
    BY <1>12 DEF Settle
  <2>2. /\ own[i].pc = "settle" /\ Free
        /\ own'[i].view = own[i].view
        /\ \A j \in Ids \ {i} : own'[j] = own[j]
        /\ UNCHANGED <<result, lease, call>>
    BY <1>12, <1>t DEF Settle, SettleAs, At, Owners
  <2>3. /\ active = [id |-> i, state |-> own[i].view] /\ own[i].view \in Open
        /\ lease = i /\ result = None /\ decided[i] = None
    BY <1>i, <1>t, <2>2, NoneIsNoRecord DEF OwnerInv, JournalInv, Owners, IsActive, Recording
  <2>4. CASE own'[i].pc = "broken" /\ UNCHANGED <<active, decided, holder>>
    BY <1>i, <2>2, <2>3, <2>4 DEF Core, OwnerInv, JournalInv, CallInv, DecisionInv,
       EffectIsOnRecord, LiveOwnerKeepsIt, IsActive, Unadmitted
  <2>5. CASE Decide(i, i, state) /\ ((own'[i].pc = "publish" /\ holder' = i) \/ (own'[i].pc = "broken" /\ UNCHANGED holder))
    <3>1. /\ active' = [id |-> i, state |-> state] /\ state \in Final
          /\ decided'[i] = [state |-> state, by |-> i]
          /\ \A j \in Ids \ {i} : decided'[j] = decided[j]
      BY <1>t, <2>5, VerdictTypes DEF Decide, Commit
    <3>2. OwnerInv'
      BY <1>i, <2>2, <2>5 DEF OwnerInv, Recording
    <3>3. JournalInv'
      BY <1>i, <2>2, <2>3, <2>5, <3>1, NoneIsNoRecord DEF JournalInv, IsActive, Open, Final,
         Unadmitted, Powerless
    <3>4. CallInv' /\ EffectIsOnRecord' /\ LiveOwnerKeepsIt'
      BY <1>i, <2>2, <2>3, <2>5, <3>1, NoneIsNoRecord DEF CallInv, EffectIsOnRecord,
         LiveOwnerKeepsIt
    <3>5. /\ state = "succeeded" => call[i].service = "applied"
          /\ state = "permission-denied" => call[i].service \in {"untouched", "refused"}
          /\ state # "interrupted" => call[i].service # "asked"
      <4>1. /\ call[i].ending = "verified" => call[i].service = "applied"
            /\ call[i].ending \in {"denied", "other"} => call[i].service # "asked"
            /\ call[i].ending = "none" => call[i].service = "untouched"
            /\ call[i].ending = "denied" /\ call[i].service = "applied" => own[i].view = "running"
        BY <1>i, <2>2 DEF CallInv
      <4>2. call[i].service \in Service /\ call[i].ending \in Endings
        BY <1>t DEF Calls
      <4>3. CASE call[i].ending = "verified"
        BY <4>1, <4>3 DEF Verdicts
      <4>4. CASE call[i].ending = "denied"
        BY <4>1, <4>2, <4>4 DEF Verdicts, Service
      <4>5. CASE call[i].ending = "unknown" /\ call[i].service # "untouched"
        BY <4>5 DEF Verdicts
      <4>6. CASE call[i].ending = "unknown" /\ call[i].service = "untouched"
        BY <4>6 DEF Verdicts
      <4>7. CASE call[i].ending \in {"other", "none"}
        BY <4>1, <4>7 DEF Verdicts
      <4> QED BY <4>2, <4>3, <4>4, <4>5, <4>6, <4>7 DEF Endings
    <3>6. DecisionInv'
      BY <1>i, <2>2, <3>1, <3>5 DEF DecisionInv
    <3> QED BY <3>2, <3>3, <3>4, <3>6 DEF Core
  <2>6. /\ own' = At(i, "publish") => own'[i].pc = "publish"
        /\ own' = At(i, "broken") => own'[i].pc = "broken"
    BY <1>t DEF At, Owners
  <2> QED BY <2>1, <2>4, <2>5, <2>6 DEF SettleAs
<1>13. ASSUME NEW i \in Ids, OwnerRetires(i) PROVE Core'
  <2>1. OwnerInv' /\ JournalInv' /\ LiveOwnerKeepsIt'
    BY <1>13, <1>i, <1>n DEF OwnerRetires, Retire, Commit, At, IsActive, Recording, Powerless,
       OwnerInv, JournalInv, LiveOwnerKeepsIt
  <2>2. CallInv' /\ DecisionInv' /\ EffectIsOnRecord'
    BY <1>13, <1>i, <1>n DEF OwnerRetires, Retire, At, IsActive, JournalInv, CallInv,
       DecisionInv, EffectIsOnRecord
  <2> QED BY <2>1, <2>2 DEF Core
<1>14. ASSUME NEW i \in Ids, OwnerGivesUp(i) PROVE Core'
  <2>1. OwnerInv' /\ JournalInv' /\ LiveOwnerKeepsIt'
    BY <1>14, <1>i DEF OwnerGivesUp, At, IsActive, Unadmitted, Recording, Powerless, OwnerInv,
       JournalInv, LiveOwnerKeepsIt
  <2>2. CallInv' /\ DecisionInv' /\ EffectIsOnRecord'
    BY <1>14, <1>i DEF OwnerGivesUp, At, CallInv, DecisionInv, EffectIsOnRecord
  <2> QED BY <2>1, <2>2 DEF Core
<1>15. ASSUME NEW i \in Ids, Leave(i) PROVE Core'
  <2>1. OwnerInv' /\ JournalInv' /\ LiveOwnerKeepsIt'
    BY <1>15, <1>i DEF Leave, At, journalVars, IsActive, Unadmitted, Recording, Powerless,
       OwnerInv, JournalInv, LiveOwnerKeepsIt
  <2>2. CallInv' /\ DecisionInv' /\ EffectIsOnRecord'
    BY <1>15, <1>i DEF Leave, At, journalVars, CallInv, DecisionInv, EffectIsOnRecord
  <2> QED BY <2>1, <2>2 DEF Core
<1>16. ASSUME NEW i \in Ids, OwnerDies(i) PROVE Core'
  <2>1. OwnerInv' /\ JournalInv' /\ LiveOwnerKeepsIt'
    BY <1>16, <1>i DEF OwnerDies, At, IsActive, Unadmitted, Recording, Powerless, OwnerInv,
       JournalInv, LiveOwnerKeepsIt
  <2>2. CallInv' /\ DecisionInv' /\ EffectIsOnRecord'
    BY <1>16, <1>i DEF OwnerDies, At, CallInv, DecisionInv, EffectIsOnRecord
  <2> QED BY <2>1, <2>2 DEF Core
<1>17. ASSUME NEW p \in Lookers, LookComplete(p) PROVE Core'
  <2>1. OwnerInv' /\ JournalInv' /\ LiveOwnerKeepsIt'
    BY <1>17, <1>i DEF LookComplete, Seen, ownerVars, IsActive, OwnerInv, JournalInv,
       LiveOwnerKeepsIt
  <2>2. CallInv' /\ DecisionInv' /\ EffectIsOnRecord'
    BY <1>17, <1>i DEF LookComplete, ownerVars, CallInv, DecisionInv, EffectIsOnRecord
  <2> QED BY <2>1, <2>2 DEF Core
<1>18. ASSUME NEW p \in Lookers, LookAbandoned(p) PROVE Core'
  <2>1. PICK i \in Ids : active.id = i
    BY <1>18, <1>t DEF LookAbandoned, Seen, Operations
  <2>2. /\ active # None /\ active.state \in Open /\ lease = None /\ Free
        /\ active' = [id |-> i, state |-> "interrupted"]
        /\ decided'[i] = [state |-> "interrupted", by |-> p]
        /\ \A j \in Ids \ {i} : decided'[j] = decided[j]
        /\ holder' = p
        /\ UNCHANGED <<result, lease, own, call>>
    BY <1>18, <1>t, <2>1 DEF LookAbandoned, Seen, InSection, Decide, Commit, ownerVars
  <2>3. /\ own[i].pc \in Powerless /\ result = None /\ decided[i] = None
        /\ \A j \in Ids : own[j].pc \notin Recording
    BY <1>i, <1>n, <1>t, <2>1, <2>2 DEF OwnerInv, JournalInv, Owners, OwnerStages, IsActive,
       Unadmitted, Recording, Powerless
  <2>4. OwnerInv'
    BY <1>i, <2>2, <2>3 DEF OwnerInv
  <2>5. JournalInv'
    BY <1>i, <2>2, <2>3, NoneIsNoRecord DEF JournalInv, IsActive, Open, Final, Unadmitted,
       Powerless
  <2>6. CallInv' /\ DecisionInv' /\ EffectIsOnRecord' /\ LiveOwnerKeepsIt'
    BY <1>i, <2>1, <2>2, <2>3 DEF CallInv, DecisionInv, EffectIsOnRecord, LiveOwnerKeepsIt,
       Powerless
  <2> QED BY <2>4, <2>5, <2>6 DEF Core
<1>19. ASSUME NEW p \in Lookers, LookRetires(p) PROVE Core'
  <2>1. OwnerInv' /\ JournalInv' /\ LiveOwnerKeepsIt'
    BY <1>19, <1>t, <1>i DEF LookRetires, Retire, Commit, ownerVars, IsActive, OwnerInv,
       JournalInv, LiveOwnerKeepsIt, Owners
  <2>2. CallInv' /\ DecisionInv' /\ EffectIsOnRecord'
    BY <1>19, <1>i, <1>n DEF LookRetires, Retire, ownerVars, IsActive, JournalInv, CallInv,
       DecisionInv, EffectIsOnRecord
  <2> QED BY <2>1, <2>2 DEF Core
<1>20. ASSUME NEW p \in Lookers, LookerDies(p) PROVE Core'
  <2>1. OwnerInv' /\ JournalInv' /\ LiveOwnerKeepsIt'
    BY <1>20, <1>i DEF LookerDies, ownerVars, IsActive, OwnerInv, JournalInv, LiveOwnerKeepsIt
  <2>2. CallInv' /\ DecisionInv' /\ EffectIsOnRecord'
    BY <1>20, <1>i DEF LookerDies, ownerVars, CallInv, DecisionInv, EffectIsOnRecord
  <2> QED BY <2>1, <2>2 DEF Core
<1>21. ASSUME NEW w \in Watchers, WatchTarget(w) PROVE Core'
  <2>1. OwnerInv' /\ JournalInv' /\ LiveOwnerKeepsIt'
    BY <1>21, <1>i DEF WatchTarget, ownerVars, IsActive, OwnerInv, JournalInv, LiveOwnerKeepsIt
  <2>2. CallInv' /\ DecisionInv' /\ EffectIsOnRecord'
    BY <1>21, <1>i DEF WatchTarget, ownerVars, CallInv, DecisionInv, EffectIsOnRecord
  <2> QED BY <2>1, <2>2 DEF Core
<1>22. ASSUME NEW w \in Watchers, TargetRetired(w) PROVE Core'
  <2>1. OwnerInv' /\ JournalInv' /\ LiveOwnerKeepsIt'
    BY <1>22, <1>t, <1>i DEF TargetRetired, Retire, Commit, ownerVars, IsActive, OwnerInv,
       JournalInv, LiveOwnerKeepsIt, Owners
  <2>2. CallInv' /\ DecisionInv' /\ EffectIsOnRecord'
    BY <1>22, <1>t, <1>i DEF TargetRetired, Retire, ownerVars, IsActive, JournalInv, CallInv,
       DecisionInv, EffectIsOnRecord, Operations
  <2> QED BY <2>1, <2>2 DEF Core
<1>23. CASE UNCHANGED <<active, result, decided, holder, lease, own, call>>
  <2>1. OwnerInv' /\ JournalInv' /\ CallInv'
    BY <1>23, <1>i DEF OwnerInv, JournalInv, CallInv, IsActive
  <2>2. DecisionInv' /\ EffectIsOnRecord' /\ LiveOwnerKeepsIt'
    BY <1>23, <1>i DEF DecisionInv, EffectIsOnRecord, LiveOwnerKeepsIt
  <2> QED BY <2>1, <2>2 DEF Core
<1>24. ASSUME NEW p \in Ids \cup Lookers, Publish(p) PROVE Core'
  <2>1. active # None /\ active.state \in Final
    BY <1>24, <1>i, <1>n DEF Publish, JournalInv
  <2>2. OwnerInv' /\ CallInv' /\ DecisionInv' /\ EffectIsOnRecord' /\ LiveOwnerKeepsIt'
    BY <1>24, <1>i DEF Publish, OwnerInv, CallInv, DecisionInv, EffectIsOnRecord,
       LiveOwnerKeepsIt, ownerVars
  <2>3. JournalInv'
    BY <1>24, <1>i, <2>1 DEF Publish, JournalInv, IsActive, ownerVars
  <2> QED BY <2>2, <2>3 DEF Core
<1>25. CASE Acknowledge
  <2>1. OwnerInv' /\ CallInv' /\ DecisionInv' /\ EffectIsOnRecord' /\ LiveOwnerKeepsIt'
    BY <1>25, <1>i DEF Acknowledge, OwnerInv, CallInv, DecisionInv, EffectIsOnRecord,
       LiveOwnerKeepsIt, ownerVars
  <2>2. JournalInv'
    BY <1>25, <1>i DEF Acknowledge, JournalInv, IsActive, ownerVars
  <2> QED BY <2>1, <2>2 DEF Core
<1>26. CASE KernelFreesLease
  <2>1. own[lease].pc = "killed" /\ UNCHANGED <<active, result, decided, holder, own, call>>
    BY <1>26 DEF KernelFreesLease, journalVars, ownerVars
  <2>2. OwnerInv'
    BY <1>i, <2>1 DEF OwnerInv, Recording
  <2>3. JournalInv' /\ CallInv' /\ DecisionInv' /\ EffectIsOnRecord' /\ LiveOwnerKeepsIt'
    BY <1>i, <2>1 DEF JournalInv, CallInv, DecisionInv, EffectIsOnRecord, LiveOwnerKeepsIt,
       IsActive
  <2> QED BY <2>2, <2>3 DEF Core
<1>27. ASSUME NEW p \in Lookers, LookRead(p) \/ LookRetained(p) \/ LookTooLate(p) \/ LookBusy(p) \/ LookFails(p)
       PROVE  Core'
  BY <1>23, <1>27 DEF LookRead, LookRetained, LookTooLate, LookBusy, LookFails, journalVars,
     ownerVars
<1>28. ASSUME NEW w \in Watchers, Check(w) \/ Wake(w) \/ Deadline(w) PROVE Core'
  BY <1>23, <1>28 DEF Check, Wake, Deadline, journalVars, ownerVars
<1>29. CASE UNCHANGED vars
  BY <1>23, <1>29 DEF vars
<1> QED
  BY <1>1, <1>2, <1>3, <1>4, <1>5, <1>6, <1>7, <1>8, <1>9, <1>10, <1>11, <1>12, <1>13, <1>14,
     <1>15, <1>16, <1>17, <1>18, <1>19, <1>20, <1>21, <1>22, <1>24, <1>25, <1>26, <1>27,
     <1>28, <1>29 DEF Next, OwnerStep, LookStep, WatchStep

-----------------------------------------------------------------------------
(* The recoveries and the watchers.                                        *)

(* Nobody touches the record while a recovery publishes it.                *)
LEMMA LockKept ==
  ASSUME IInv, [Next]_vars, NEW p \in Lookers, look[p].pc = "publish", look'[p] = look[p]
  PROVE  holder' = p /\ active' = active
<1>i. /\ holder = p /\ p # None /\ p \notin Ids /\ ~ Free
      /\ p \in Watchers => watch[p].pc = "look"
  BY ConstantsAssumption DEF IInv, LookInv, Free
<1>l. \A q \in Lookers : look'[q] # look[q] => q # p
  OBVIOUS
<1>t. look \in [Lookers -> Looks] /\ look[p] \in Looks
  BY DEF IInv, TypeOK
<1>1. ASSUME NEW i \in Ids, OwnerStep(i) \/ ServiceStep(i) \/ Stop(i) \/ OwnerDies(i)
      PROVE  holder' = p /\ active' = active
  BY <1>1, <1>i DEF OwnerStep, Request, Decline, Admit, OpenStream, Announce, Announced,
     Accepted, Checkpoint, ClientStep, Launch, Settle, Publish, OwnerRetires, Retire,
     OwnerGivesUp, Leave, ServiceStep, Stop, OwnerDies, journalVars
<1>2. ASSUME NEW q \in Lookers, LookStep(q) \/ LookFails(q) \/ LookerDies(q)
      PROVE  holder' = p /\ active' = active
  <2>1. CASE LookRetires(q) \/ LookerDies(q)
    <3>1. q = p
      BY <1>i, <2>1 DEF LookRetires, Retire, LookerDies
    <3> QED BY <3>1, <2>1, <1>t DEF LookRetires, LookerDies, Return, Idle
  <2>2. CASE Publish(q)
    BY <1>i, <2>2 DEF Publish
  <2> QED BY <1>2, <1>i, <2>1, <2>2 DEF LookStep, LookRead, LookRetained, LookTooLate,
     LookComplete, LookBusy, LookAbandoned, LookFails, Seen, InSection
<1>3. ASSUME NEW w \in Watchers, WatchStep(w) \/ Deadline(w)
      PROVE  holder' = p /\ active' = active
  BY <1>3, <1>i DEF WatchStep, WatchTarget, TargetRetired, Retire, Check, Wake, Deadline,
     journalVars
<1>4. CASE KernelFreesLease \/ Acknowledge \/ UNCHANGED vars
  BY <1>4, <1>i DEF KernelFreesLease, Acknowledge, journalVars, vars
<1> QED BY <1>1, <1>2, <1>3, <1>4 DEF Next

(* With the states in between streamed first, a result may be told.        *)
LEMMA TellIsFinal ==
  ASSUME NEW w \in Watchers, watch[w].stream \in Open, NEW state \in Final,
         state = "permission-denied" => watch[w].stream # "running"
  PROVE  Tell(w, state) = Tells(w, state)
BY DEF Tell, Transitions, Open, Final

LEMMA ViewInit == Init => LookInv /\ HolderInv /\ WatchInv /\ WatchersTell
BY ConstantsAssumption, NoneAssumption DEF Init, LookInv, HolderInv, WatchInv, WatchersTell,
   Idle, Behind, Final, Told, Lookers

(* One process's look and its watch.                                       *)
LookOK(p) ==
  /\ look[p].pc # "idle" /\ look[p].saw # None => Known(look[p].saw)
  /\ look[p].pc # "idle" /\ look[p].saw = None => p \in Watchers
  /\ look[p].pc = "publish" => holder = p /\ IsActive(look[p].saw)
  /\ p \in Watchers /\ look[p].pc # "idle" =>
       watch[p].pc = "look" /\ look[p].saw \in {None, watch[p].target}

LEMMA LookKept ==
  ASSUME IInv, [Next]_vars, NEW p \in Lookers, look'[p] = look[p],
         p \in Watchers /\ look[p].pc # "idle" => watch'[p].pc = "look" /\ watch'[p].target = watch[p].target
  PROVE  LookOK(p)'
<1>1. Evolves
  BY EvolvesStep
<1>2. LookOK(p) /\ look[p].saw \in Ids \cup {None}
  BY DEF IInv, LookInv, LookOK, TypeOK, Looks
<1>3. look[p].pc = "publish" => holder' = p /\ active' = active
  BY LockKept
<1> QED BY <1>1, <1>2, <1>3 DEF LookOK, Evolves, IsActive

LEMMA LookStepInv == IInv /\ [Next]_vars => LookInv'
<1> SUFFICES ASSUME IInv, [Next]_vars, NEW p \in Lookers PROVE LookOK(p)'
  BY DEF LookInv, LookOK
<1>t. /\ look \in [Lookers -> Looks] /\ look[p] \in Looks /\ watch \in [Watchers -> Watches]
      /\ active \in Operations \cup {None}
  BY DEF IInv, TypeOK
<1>i. LookInv /\ WatchInv /\ LookOK(p)
  BY DEF IInv, LookInv, LookOK
<1>1. CASE UNCHANGED <<look, watch>>
  BY <1>1, <1>i, LookKept DEF LookOK
<1>2. ASSUME NEW w \in Watchers, WatchStep(w) \/ Deadline(w) PROVE LookOK(p)'
  <2>1. look' = look
    BY <1>2 DEF WatchStep, WatchTarget, TargetRetired, Check, Wake, Deadline, lookVars
  <2>2. \A v \in Watchers : watch[v].pc = "look" => watch'[v].pc = "look" /\ watch'[v].target = watch[v].target
    <3>1. CASE Deadline(w)
      BY <1>t, <3>1 DEF Deadline, Watches
    <3>2. CASE WatchStep(w)
      <4>1. watch[w].pc # "look" /\ \A v \in Watchers \ {w} : watch'[v] = watch[v]
        BY <1>t, <3>2 DEF WatchStep, WatchTarget, TargetRetired, Check, Wake, Tells
      <4> QED BY <4>1
    <3> QED BY <1>2, <3>1, <3>2
  <2> QED BY <2>1, <2>2, <1>i, LookKept DEF LookOK
<1>3. ASSUME NEW q \in Lookers, LookStep(q) \/ LookFails(q) \/ LookerDies(q), ~ Publish(q) PROVE LookOK(p)'
  <2>1. /\ \A r \in Lookers \ {q} : look'[r] = look[r]
        /\ \A v \in Watchers \ {q} : watch'[v] = watch[v]
    BY <1>3, <1>t DEF LookStep, LookRead, LookRetained, LookTooLate, LookComplete, LookBusy,
       LookAbandoned, LookRetires, LookFails, LookerDies, Return, Ended, Tell, Tells, Fail,
       Follow
  <2>2. CASE p # q
    BY <2>1, <2>2, <1>i, LookKept DEF LookOK
  <2>3. CASE p = q /\ (LookRetained(p) \/ LookTooLate(p) \/ LookBusy(p) \/ LookRetires(p) \/ LookFails(p) \/ LookerDies(p))
    <3>1. look'[p] = Idle
      BY <1>t, <2>3 DEF LookRetained, LookTooLate, LookBusy, LookRetires, LookFails,
         LookerDies, Return
    <3> QED BY <3>1 DEF LookOK, Idle
  <2>4. CASE p = q /\ (LookComplete(p) \/ LookAbandoned(p))
    <3>1. /\ look'[p].pc = "publish" /\ look'[p].saw = look[p].saw /\ look[p].pc = "section"
          /\ holder' = p /\ watch' = watch
          /\ active' # None /\ active'.id = active.id /\ active # None /\ active.id = look[p].saw
      <4>1. CASE LookComplete(p)
        BY <1>t, <2>4, <4>1 DEF LookComplete, Seen, InSection, Looks
      <4>2. CASE LookAbandoned(p)
        <5>1. active' = [id |-> active.id, state |-> "interrupted"] /\ active' # None
          BY <1>t, <4>2, NoneIsNoRecord DEF LookAbandoned, Seen, Decide, Commit, Operations,
             Final
        <5> QED BY <1>t, <2>4, <4>2, <5>1 DEF LookAbandoned, Seen, InSection, Looks
      <4> QED BY <2>4, <4>1, <4>2
    <3> QED BY <1>i, <3>1 DEF LookOK, Known, IsActive
  <2>5. CASE p = q /\ LookRead(p)
    <3>1. CASE look' = look
      <4>1. look[p].pc = "idle"
        BY <2>5 DEF LookRead
      <4> QED BY <3>1, <4>1, LookKept
    <3>2. CASE look' = [look EXCEPT ![p] = [pc |-> "section", saw |-> IF active = None THEN None ELSE active.id]]
      <4>1. look'[p].pc = "section" /\ look'[p].saw = IF active = None THEN None ELSE active.id
        BY <1>t, <3>2
      <4>2. /\ active' = active /\ watch' = watch /\ MayLook(p)
            /\ active = None => p \in Watchers
            /\ p \in Watchers /\ active # None => active.id = watch[p].target
        BY <2>5, <3>2, <1>t DEF LookRead, journalVars
      <4>3. active # None => active.id # None
        BY <1>t, ConstantsAssumption DEF Operations
      <4> QED BY <4>1, <4>2, <4>3 DEF LookOK, Known, IsActive, MayLook
    <3> QED BY <2>5, <3>1, <3>2 DEF LookRead
  <2> QED BY <1>3, <2>2, <2>3, <2>4, <2>5 DEF LookStep
<1>4. ASSUME NEW q, Publish(q) PROVE LookOK(p)'
  BY <1>1, <1>4 DEF Publish, lookVars
<1>5. ASSUME NEW i \in Ids, OwnerStep(i) \/ ServiceStep(i) \/ Stop(i) \/ OwnerDies(i) PROVE LookOK(p)'
  BY <1>1, <1>5 DEF OwnerStep, Request, Decline, Admit, OpenStream, Announce, Announced,
     Accepted, ClientStep, Launch, Settle, Publish, OwnerRetires, OwnerGivesUp, Leave,
     ServiceStep, Stop, OwnerDies, lookVars
<1>6. CASE KernelFreesLease \/ Acknowledge \/ UNCHANGED vars
  BY <1>1, <1>6 DEF KernelFreesLease, Acknowledge, lookVars, vars
<1> QED BY <1>2, <1>3, <1>4, <1>5, <1>6 DEF Next

LEMMA HolderStep == IInv /\ [Next]_vars => HolderInv'
<1> SUFFICES ASSUME IInv, [Next]_vars, NEW p \in Lookers, holder' = p
             PROVE  look'[p].pc = "publish" \/ (p \in Watchers /\ watch'[p].pc = "settling")
  BY DEF HolderInv
<1>t. /\ look \in [Lookers -> Looks] /\ watch \in [Watchers -> Watches]
      /\ p \notin Ids /\ p # None /\ Watchers \subseteq Lookers
  BY ConstantsAssumption DEF IInv, TypeOK, Lookers
<1>i. holder = p => look[p].pc = "publish" \/ (p \in Watchers /\ watch[p].pc = "settling")
  BY DEF IInv, HolderInv
<1>1. CASE UNCHANGED <<holder, look, watch>>
  BY <1>i, <1>1
<1>2. ASSUME NEW i \in Ids, OwnerStep(i) \/ ServiceStep(i) \/ Stop(i) \/ OwnerDies(i)
      PROVE  UNCHANGED <<holder, look, watch>>
  <2>1. UNCHANGED <<look, watch>>
    BY <1>2 DEF OwnerStep, Request, Decline, Admit, OpenStream, Announce, Announced, Accepted,
       ClientStep, Launch, Settle, Publish, OwnerRetires, OwnerGivesUp, Leave, ServiceStep,
       Stop, OwnerDies, lookVars
  <2>2. UNCHANGED holder
    BY <1>2, <1>t DEF OwnerStep, Request, Decline, Admit, OpenStream, Announce, Announced,
       Accepted, ClientStep, Launch, Settle, SettleAs, Publish, OwnerRetires, Retire,
       OwnerGivesUp, Leave, ServiceStep, Stop, OwnerDies, journalVars
  <2> QED BY <2>1, <2>2
<1>3. ASSUME NEW q \in Lookers, LookComplete(q) \/ LookAbandoned(q)
      PROVE  q = p /\ look'[p].pc = "publish"
  BY <1>3, <1>t DEF LookComplete, LookAbandoned, Looks
<1>4. ASSUME NEW q \in Lookers, LookRead(q) \/ LookRetained(q) \/ LookTooLate(q) \/ LookBusy(q) \/ LookFails(q)
      PROVE  FALSE
  BY <1>4, <1>t DEF LookRead, LookRetained, LookTooLate, LookBusy, LookFails, Seen, InSection,
     Free, journalVars
<1>5. ASSUME NEW q \in Lookers, LookRetires(q) \/ LookerDies(q) PROVE FALSE
  BY <1>5, <1>t DEF LookRetires, Retire, LookerDies
<1>6. ASSUME NEW w \in Watchers, WatchTarget(w)
      PROVE  w = p /\ watch'[p].pc = "settling"
  <2>1. holder # p
    BY <1>6, <1>t DEF WatchTarget, Free
  <2>2. PICK i \in Ids :
          /\ holder' = w
          /\ watch' = [watch EXCEPT ![w] = [@ EXCEPT !.pc = "settling", !.target = i, !.told = None]]
    BY <1>6, <2>1 DEF WatchTarget
  <2>3. watch'[w].pc = "settling"
    BY <1>t, <2>2 DEF Watches
  <2> QED BY <2>2, <2>3
<1>7. ASSUME NEW w \in Watchers, TargetRetired(w) PROVE FALSE
  BY <1>7, <1>t DEF TargetRetired, Retire
<1>8. ASSUME NEW w \in Watchers, Check(w) \/ Wake(w) \/ Deadline(w)
      PROVE  /\ UNCHANGED <<holder, look>>
             /\ \A v \in Watchers : watch[v].pc = "settling" => watch'[v].pc = "settling"
  BY <1>8, <1>t DEF Check, Wake, Deadline, Tells, Watches, journalVars
<1>9. CASE (\E q \in Lookers : Publish(q)) \/ KernelFreesLease \/ Acknowledge \/ UNCHANGED vars
  BY <1>1, <1>9 DEF Publish, KernelFreesLease, Acknowledge, journalVars, lookVars, vars
<1> QED BY <1>1, <1>2, <1>3, <1>4, <1>5, <1>6, <1>7, <1>8, <1>9, <1>i DEF Next, LookStep,
   WatchStep

(* One watcher.                                                            *)
WatchOK(w) ==
  /\ watch[w].pc # "off" => watch[w].target \in Ids /\ Known(watch[w].target)
  /\ watch[w].pc = "settling" => decided[watch[w].target] # None
  /\ watch[w].pc = "off" => watch[w].target = None /\ watch[w].stream = "pending"
  /\ watch[w].pc # "over" => watch[w].told = None
  /\ Behind(w)
  /\ watch[w].told # "illegal"
  /\ watch[w].told \in Final =>
       decided[watch[w].target] # None /\ watch[w].told = decided[watch[w].target].state

(* What a watcher has streamed stays behind the record.                    *)
LEMMA BehindKept ==
  ASSUME IInv, [Next]_vars, NEW w \in Watchers,
         watch'[w].target = watch[w].target, watch'[w].stream = watch[w].stream
  PROVE  Behind(w)'
<1>1. Evolves
  BY EvolvesStep
<1>2. Behind(w) /\ watch[w].target \in Ids \cup {None} /\ watch[w].stream \in Open
  BY DEF IInv, WatchInv, TypeOK, Watches
<1>3. watch[w].target \in Ids => Known(watch[w].target)
  BY ConstantsAssumption DEF IInv, WatchInv
<1>4. active' \in Operations \cup {None}
  BY TypeStep DEF TypeOK
<1>5. ASSUME active' # None, active'.id = watch[w].target, active'.state \in Open
      PROVE  active'.state \in Transitions(watch[w].stream) \cup {watch[w].stream}
  <2>1. /\ active # None /\ active.id = watch[w].target /\ active.state \in Open
        /\ active'.state \in Transitions(active.state) \cup {active.state}
    BY <1>1, <1>3, <1>4, <1>5 DEF Evolves, IsActive, Operations
  <2>2. active.state \in Transitions(watch[w].stream) \cup {watch[w].stream}
    BY <1>2, <2>1 DEF Behind
  <2> QED BY <1>2, <1>5, <2>1, <2>2 DEF Transitions, Open
<1>6. ASSUME NEW i \in Ids, i = watch[w].target, decided'[i] # None, decided'[i].state = "permission-denied"
      PROVE  watch[w].stream # "running"
  <2>1. CASE decided[i] # None
    BY <1>1, <1>2, <1>6, <2>1 DEF Evolves, Behind
  <2>2. CASE decided[i] = None
    <3>1. active # None /\ active.id = watch[w].target /\ active.state = "authorizing"
      BY <1>1, <1>6, <2>2 DEF Evolves, IsActive
    <3>2. "authorizing" \in Transitions(watch[w].stream) \cup {watch[w].stream}
      BY <1>2, <3>1 DEF Behind, Open
    <3> QED BY <3>2 DEF Transitions
  <2> QED BY <2>1, <2>2
<1> QED BY <1>5, <1>6 DEF Behind

LEMMA WatchKept ==
  ASSUME IInv, [Next]_vars, NEW w \in Watchers,
         watch'[w].target = watch[w].target, watch'[w].stream = watch[w].stream,
         watch'[w].told = watch[w].told,
         \/ watch'[w].pc = watch[w].pc
         \/ watch[w].pc \in {"look", "check", "wait"} /\ watch'[w].pc \in {"look", "check", "wait"}
  PROVE  WatchOK(w)'
<1>1. Evolves
  BY EvolvesStep
<1>2. WatchOK(w)
  BY DEF IInv, WatchInv, WatchersTell, WatchOK
<1>3. Behind(w)'
  BY BehindKept
<1>4. watch[w].told \in Final => watch[w].target \in Ids
  BY <1>2, NoneAssumption DEF WatchOK, Told
<1> QED BY <1>1, <1>2, <1>3, <1>4 DEF WatchOK, Evolves

(* A watcher's last row.                                                   *)
LEMMA WatchEnds ==
  ASSUME IInv, [Next]_vars, NEW w \in Watchers, watch[w].pc # "off", NEW told, watch' = Tells(w, told),
         told # "illegal",
         told \in Final => decided[watch[w].target] # None /\ told = decided[watch[w].target].state
  PROVE  WatchOK(w)'
<1>1. Evolves
  BY EvolvesStep
<1>2. WatchOK(w)
  BY DEF IInv, WatchInv, WatchersTell, WatchOK
<1>3. /\ watch'[w].target = watch[w].target /\ watch'[w].stream = watch[w].stream
      /\ watch'[w].told = told /\ watch'[w].pc = "over"
  BY DEF Tells, IInv, TypeOK, Watches
<1>4. Behind(w)'
  BY <1>3, BehindKept
<1> QED BY <1>1, <1>2, <1>3, <1>4 DEF WatchOK, Evolves

LEMMA DecidedIsTold ==
  ASSUME IInv, [Next]_vars, NEW w \in Watchers, watch[w].pc # "off", decided[watch[w].target] # None,
         watch' = Tell(w, decided[watch[w].target].state)
  PROVE  WatchOK(w)'
<1>1. /\ watch[w].target \in Ids /\ watch[w].stream \in Open
      /\ decided[watch[w].target].state \in Final
  BY DEF IInv, TypeOK, WatchInv, Watches, Decisions
<1>2. decided[watch[w].target].state = "permission-denied" => watch[w].stream # "running"
  BY <1>1 DEF IInv, WatchInv, Behind
<1>3. watch' = Tells(w, decided[watch[w].target].state)
  BY <1>1, <1>2, TellIsFinal
<1>4. decided[watch[w].target].state # "illegal"
  BY <1>1 DEF Final
<1> QED BY <1>3, <1>4, WatchEnds

LEMMA WatchStepInv == IInv /\ [Next]_vars => WatchInv' /\ WatchersTell'
<1> SUFFICES ASSUME IInv, [Next]_vars, NEW w \in Watchers PROVE WatchOK(w)'
  BY DEF WatchInv, WatchersTell, WatchOK
<1>t. /\ look[w] \in Looks /\ watch \in [Watchers -> Watches] /\ watch[w] \in Watches
      /\ active \in Operations \cup {None} /\ w \in Lookers
  BY DEF IInv, TypeOK, Lookers
<1>i. LookInv /\ WatchOK(w) /\ JournalInv
  BY DEF IInv, WatchInv, WatchersTell, WatchOK
<1>1. CASE watch'[w] = watch[w]
  BY <1>1, WatchKept
<1>2. ASSUME watch' = Fail(w), watch[w].pc # "off" PROVE WatchOK(w)'
  BY <1>2, WatchEnds DEF Fail, Final
<1>3. CASE LookRead(w)
  <2>1. CASE watch' = Fail(w) /\ active # None
    BY <1>2, <1>3, <1>t, <2>1 DEF LookRead, MayLook
  <2>2. CASE UNCHANGED watch
    BY <1>1, <2>2
  <2> QED BY <1>3, <2>1, <2>2 DEF LookRead
<1>4. CASE LookRetained(w)
  <2>1. watch[w].pc = "look"
    BY <1>4, <1>t, <1>i DEF LookInv, LookRetained, InSection
  <2>2. CASE active = None /\ watch' = Tell(w, decided[watch[w].target].state)
    <3>1. decided[watch[w].target] # None
      BY <1>i, <2>1, <2>2 DEF WatchOK, Known, IsActive
    <3> QED BY <2>1, <2>2, <3>1, DecidedIsTold
  <2> QED BY <1>2, <1>4, <2>1, <2>2 DEF LookRetained
<1>5. CASE LookTooLate(w)
  <2>1. watch[w].pc = "look" /\ look[w].saw = watch[w].target
    BY <1>5, <1>t, <1>i DEF LookInv, LookTooLate, InSection
  <2>2. CASE active = None /\ watch' = Tell(w, decided[look[w].saw].state)
    <3>1. decided[watch[w].target] # None
      BY <1>i, <2>1, <2>2 DEF WatchOK, Known, IsActive
    <3> QED BY <2>1, <2>2, <3>1, DecidedIsTold
  <2> QED BY <1>2, <1>5, <2>1, <2>2 DEF LookTooLate, Ended
<1>6. CASE LookBusy(w)
  <2>1. watch[w].pc = "look" /\ active # None /\ active.id = watch[w].target /\ active.state \in Open
    BY <1>6, <1>t, <1>i, ConstantsAssumption DEF LookInv, LookBusy, Seen, InSection,
       Operations, Lookers
  <2>2. active.state \in Transitions(watch[w].stream) \cup {watch[w].stream}
    BY <1>i, <2>1 DEF WatchOK, Behind
  <2>3. watch' = [watch EXCEPT ![w] = [@ EXCEPT !.pc = "check", !.stream = active.state]] /\ active' = active /\ decided' = decided
    BY <1>6, <2>2 DEF LookBusy, Ended, Follow, journalVars
  <2>4. /\ watch'[w].pc = "check" /\ watch'[w].stream = active.state
        /\ watch'[w].target = watch[w].target /\ watch'[w].told = watch[w].told
    BY <1>t, <2>3 DEF Watches
  <2>5. decided[watch[w].target] = None /\ watch[w].target \in Ids
    BY <1>i, <2>1 DEF JournalInv, WatchOK, IsActive
  <2>6. watch[w].told = None /\ None \notin Final /\ "illegal" # None
    BY <1>i, <2>1, NoneAssumption DEF WatchOK, Told
  <2> QED BY <2>1, <2>3, <2>4, <2>5, <2>6 DEF WatchOK, Behind, Known, IsActive
<1>7. CASE LookRetires(w)
  <2>1. holder = w /\ watch[w].pc = "look" /\ active # None /\ active.id = look[w].saw /\ active.state \in Final
    BY <1>7, <1>t, <1>i, ConstantsAssumption DEF LookInv, LookRetires, JournalInv, IsActive
  <2>2. look[w].saw = watch[w].target /\ decided[watch[w].target] # None /\ decided[watch[w].target].state = active.state
    BY <1>7, <1>t, <1>i, <2>1, ConstantsAssumption DEF LookInv, LookRetires, JournalInv,
       IsActive, WatchOK, Operations, Lookers
  <2>3. watch' = Tell(w, decided[watch[w].target].state)
    BY <1>7, <2>2 DEF LookRetires, Ended
  <2> QED BY <2>1, <2>2, <2>3, DecidedIsTold
<1>8. CASE LookFails(w) \/ LookerDies(w)
  <2>1. watch[w].pc # "off"
    BY <1>8, <1>t, <1>i DEF IInv, HolderInv, LookInv, LookFails, LookerDies, Seen, InSection
  <2> QED BY <1>2, <1>8, <2>1 DEF LookFails, LookerDies, Ended
<1>9. CASE WatchTarget(w)
  <2>1. PICK i \in Ids :
       /\ ~ (decided[i] = None /\ (active = None \/ active.id # i))
       /\ LET as(pc, told) == [watch EXCEPT ![w] = [@ EXCEPT !.pc = pc, !.target = i, !.told = told]] IN
            IF active = None THEN watch' = as("over", decided[i].state) /\ UNCHANGED holder
            ELSE IF active.state \in Final THEN watch' = as("settling", None) /\ holder' = w
            ELSE /\ watch' = IF active.id = i THEN as("look", None) ELSE as("over", "error")
                 /\ UNCHANGED holder
    BY <1>9 DEF WatchTarget
  <2>2. /\ watch[w].stream = "pending" /\ watch[w].told = None
        /\ UNCHANGED <<active, decided>>
        /\ None \notin Final /\ "error" \notin Final \cup {None}
    BY <1>9, <1>i, NoneAssumption DEF WatchTarget, WatchOK, Told, Final
  <2>3. ASSUME NEW pc, NEW told,
               watch' = [watch EXCEPT ![w] = [@ EXCEPT !.pc = pc, !.target = i, !.told = told]]
        PROVE  /\ watch'[w].pc = pc /\ watch'[w].target = i /\ watch'[w].told = told
               /\ watch'[w].stream = "pending"
    BY <1>t, <2>2, <2>3 DEF Watches
  <2>4. watch'[w].stream = "pending" => Behind(w)'
    BY DEF Behind, Transitions, Open
  <2>5. CASE active = None
    <3>1. decided[i] # None /\ decided[i].state \in Final
      BY <2>1, <2>5 DEF IInv, TypeOK, Decisions
    <3>2. watch' = [watch EXCEPT ![w] = [@ EXCEPT !.pc = "over", !.target = i, !.told = decided[i].state]]
      BY <2>1, <2>5
    <3>3. decided[i].state # "illegal"
      BY <3>1 DEF Final
    <3> QED BY <2>2, <2>3, <2>4, <3>1, <3>2, <3>3 DEF WatchOK, Known
  <2>6. CASE active # None /\ active.state \in Final
    <3>1. decided[i] # None
      BY <1>i, <2>1, <2>6 DEF JournalInv, IsActive
    <3>2. watch' = [watch EXCEPT ![w] = [@ EXCEPT !.pc = "settling", !.target = i, !.told = None]]
      BY <2>1, <2>6
    <3>3. None # "illegal"
      BY NoneAssumption DEF Told
    <3> QED BY <2>2, <2>3, <2>4, <3>1, <3>2, <3>3 DEF WatchOK, Known
  <2>7. CASE active # None /\ active.state \notin Final /\ active.id = i
    <3>1. watch' = [watch EXCEPT ![w] = [@ EXCEPT !.pc = "look", !.target = i, !.told = None]]
      BY <2>1, <2>7
    <3>2. None # "illegal"
      BY NoneAssumption DEF Told
    <3>3. /\ watch'[w].pc = "look" /\ watch'[w].target = i /\ watch'[w].told = None
          /\ Behind(w)'
      BY <2>3, <2>4, <3>1
    <3>4. Known(i)'
      BY <2>2, <2>7 DEF Known, IsActive
    <3> QED BY <2>2, <3>2, <3>3, <3>4 DEF WatchOK
  <2>8. CASE active # None /\ active.state \notin Final /\ active.id # i
    <3>1. watch' = [watch EXCEPT ![w] = [@ EXCEPT !.pc = "over", !.target = i, !.told = "error"]]
      BY <2>1, <2>8
    <3>2. decided[i] # None
      BY <2>1, <2>8
    <3>3. /\ watch'[w].pc = "over" /\ watch'[w].target = i /\ watch'[w].told = "error"
          /\ Behind(w)'
      BY <2>3, <2>4, <3>1
    <3> QED BY <2>2, <3>2, <3>3 DEF WatchOK, Known
  <2> QED BY <2>5, <2>6, <2>7, <2>8
<1>10. CASE TargetRetired(w)
  <2>1. watch[w].pc # "off" /\ decided[watch[w].target] # None /\ watch[w].target \in Ids
    BY <1>10, <1>i DEF TargetRetired, WatchOK
  <2>2. decided[watch[w].target].state \in Final
    BY <2>1 DEF IInv, TypeOK, Decisions
  <2>3. decided[watch[w].target].state # "illegal" /\ watch' = Tells(w, decided[watch[w].target].state)
    BY <1>10, <2>2 DEF TargetRetired, Final
  <2> QED BY <2>1, <2>3, WatchEnds
<1>11. CASE Check(w) \/ Wake(w) \/ Deadline(w)
  <2>1. CASE watch' = Tells(w, "timeout")
    <3>1. watch[w].pc # "off"
      BY <1>11, <2>1, <1>t DEF Check, Wake, Deadline, Watching, Tells, Watches
    <3> QED BY <2>1, <3>1, WatchEnds DEF Final
  <2>2. CASE \/ watch' = [watch EXCEPT ![w].pc = "wait"] /\ watch[w].pc = "check"
             \/ watch' = [watch EXCEPT ![w].pc = "look"] /\ watch[w].pc = "wait"
             \/ watch' = [watch EXCEPT ![w].expired = TRUE]
    <3>1. /\ watch'[w].target = watch[w].target /\ watch'[w].stream = watch[w].stream
          /\ watch'[w].told = watch[w].told
          /\ \/ watch'[w].pc = watch[w].pc
             \/ watch[w].pc \in {"look", "check", "wait"} /\ watch'[w].pc \in {"look", "check", "wait"}
      BY <1>t, <2>2 DEF Watches
    <3> QED BY <3>1, WatchKept
  <2> QED BY <1>11, <2>1, <2>2 DEF Check, Wake, Deadline
<1>12. ASSUME NEW q \in Lookers, q # w, LookStep(q) \/ LookFails(q) \/ LookerDies(q) PROVE watch'[w] = watch[w]
  BY <1>12, <1>t DEF LookStep, LookRead, LookRetained, LookTooLate, LookComplete, LookBusy,
     LookAbandoned, LookRetires, Publish, LookFails, LookerDies, Ended, Tell, Tells, Fail,
     Follow, lookVars
<1>13. ASSUME NEW v \in Watchers, v # w, WatchStep(v) \/ Deadline(v) PROVE watch'[w] = watch[w]
  BY <1>13, <1>t DEF WatchStep, WatchTarget, TargetRetired, Check, Wake, Deadline, Tells
<1>14. ASSUME NEW i \in Ids, OwnerStep(i) \/ ServiceStep(i) \/ Stop(i) \/ OwnerDies(i) PROVE watch' = watch
  BY <1>14 DEF OwnerStep, Request, Decline, Admit, OpenStream, Announce, Announced, Accepted,
     ClientStep, Launch, Settle, Publish, OwnerRetires, OwnerGivesUp, Leave, ServiceStep,
     Stop, OwnerDies, lookVars
<1>15. CASE LookComplete(w) \/ LookAbandoned(w) \/ Publish(w) \/ KernelFreesLease \/ Acknowledge \/ UNCHANGED vars
  BY <1>1, <1>15 DEF LookComplete, LookAbandoned, Publish, KernelFreesLease, Acknowledge,
     lookVars, vars
<1> QED BY <1>1, <1>3, <1>4, <1>5, <1>6, <1>7, <1>8, <1>9, <1>10, <1>11, <1>12, <1>13, <1>14,
   <1>15 DEF Next, LookStep, WatchStep

-----------------------------------------------------------------------------
(* The theorems.                                                           *)

LEMMA Invariance == Spec => []IInv
<1>1. Init => IInv
  BY TypeInit, CoreInit, ViewInit DEF IInv, Core
<1>2. IInv /\ [Next]_vars => IInv'
  BY TypeStep, CoreStep, LookStepInv, HolderStep, WatchStepInv DEF IInv, Core
<1> QED BY <1>1, <1>2, PTL DEF Spec

(* Whatever fails and whoever is killed, the journal, the commands, the    *)
(* recoveries and the watchers stay in the states native_operations.py and *)
(* watch_commands.py know.                                                 *)
THEOREM TypeCorrect == Spec => []TypeOK
<1>1. IInv => TypeOK
  BY DEF IInv
<1> QED BY <1>1, Invariance, PTL

(* recover_journal_active never calls an operation interrupted while the   *)
(* command that runs it can still send, launch or decide.                  *)
THEOREM LiveOwnersDecide == Spec => []LiveOwnerKeepsIt
<1>1. IInv => LiveOwnerKeepsIt
  BY DEF IInv
<1> QED BY <1>1, Invariance, PTL

(* Nothing is sent to a service or launched before the record of the       *)
(* operation says so (before_send, launch_delegated_tool).                 *)
THEOREM EffectsAreRecorded == Spec => []EffectIsOnRecord
<1>1. IInv => EffectIsOnRecord
  BY DEF IInv
<1> QED BY <1>1, Invariance, PTL

(* finish and the recoveries record no success that was not one, and no    *)
(* refusal of a change that was made.                                      *)
THEOREM ResultsAreTrue == Spec => []ResultsTruthful
<1>1. IInv => ResultsTruthful
  BY DEF IInv, DecisionInv, ResultsTruthful
<1> QED BY <1>1, Invariance, PTL

(* watch_native_journal_operation tells the result the journal recorded,   *)
(* and no row of its stream breaks the order its readers check.            *)
THEOREM WatchersAreRight == Spec => []WatchersTell
<1>1. IInv => WatchersTell
  BY DEF IInv
<1> QED BY <1>1, Invariance, PTL

(* A command that still may change what it asked of its service has no     *)
(* result yet.                                                             *)
LEMMA ServiceStands ==
  ASSUME IInv, [Next]_vars, NEW i \in Ids, decided[i] # None, decided[i].state # "interrupted"
  PROVE  call'[i].service = call[i].service
<1>t. call \in [Ids -> Calls]
  BY DEF IInv, TypeOK
<1>i. own[i].pc \in {"publish", "broken", "gone", "killed"} /\ call[i].service # "asked"
  BY DEF IInv, JournalInv, DecisionInv, Powerless
<1>1. ASSUME NEW j \in Ids, OwnerStep(j) \/ Stop(j) PROVE call'[i] = call[i]
  <2>1. CASE Decline(j) \/ Announced(j) \/ ClientStep(j) \/ Launch(j) \/ Stop(j)
    <3>1. j # i
      BY <1>i, <2>1 DEF Decline, Announced, ClientStep, Launch, Stop
    <3> QED BY <1>t, <2>1, <3>1 DEF Decline, Announced, ClientStep, Launch, Stop
  <2>2. CASE \/ Request(j) \/ Admit(j) \/ OpenStream(j) \/ Announce(j) \/ Accepted(j) \/ Settle(j)
             \/ Publish(j) \/ OwnerRetires(j) \/ OwnerGivesUp(j) \/ Leave(j)
    BY <2>2 DEF Request, Admit, OpenStream, Announce, Accepted, Settle, Publish, OwnerRetires,
       OwnerGivesUp, Leave, ownerVars
  <2> QED BY <1>1, <2>1, <2>2 DEF OwnerStep
<1>2. ASSUME NEW j \in Ids, ServiceStep(j) PROVE call'[i] = call[i]
  BY <1>t, <1>i, <1>2 DEF ServiceStep, Serves
<1>3. ASSUME NEW j \in Ids, OwnerDies(j) PROVE call'[i] = call[i]
  BY <1>3 DEF OwnerDies
<1>4. ASSUME NEW p \in Lookers, LookStep(p) \/ LookFails(p) \/ LookerDies(p) PROVE call'[i] = call[i]
  BY <1>4 DEF LookStep, LookRead, LookRetained, LookTooLate, LookComplete, LookBusy,
     LookAbandoned, Publish, LookRetires, LookFails, LookerDies, ownerVars
<1>5. ASSUME NEW w \in Watchers, WatchStep(w) \/ Deadline(w) PROVE call'[i] = call[i]
  BY <1>5 DEF WatchStep, WatchTarget, TargetRetired, Check, Wake, Deadline, ownerVars
<1>6. CASE KernelFreesLease \/ Acknowledge \/ UNCHANGED vars
  BY <1>6 DEF KernelFreesLease, Acknowledge, ownerVars, vars
<1> QED BY <1>1, <1>2, <1>3, <1>4, <1>5, <1>6 DEF Next

(* After a result other than "interrupted" the operation changes nothing.  *)
THEOREM ResultsStand == Spec => ResultsAreFinal
<1> DEFINE Stands == \A i \in Ids : (decided[i] # None /\ decided[i].state # "interrupted")
                       => call[i].service' = call[i].service
<1>1. IInv /\ [Next]_vars => [Stands]_vars
  BY ServiceStands
<1> QED BY <1>1, Invariance, PTL DEF Spec, ResultsAreFinal

-----------------------------------------------------------------------------
(* The refinement.                                                         *)

LEMMA JournalInit == Init => Journal!Init
BY DEF Init, Journal!Init

LEMMA JournalStep ==
  ASSUME IInv, [Next]_vars
  PROVE  [Journal!Next]_(Journal!vars)
<1>t. /\ TypeOK
      /\ active \in Operations \cup {None} /\ \A i \in Ids : own[i].view \in Open
  BY DEF IInv, TypeOK, Owners
<1>i. OwnerInv /\ JournalInv /\ None \notin Ids \cup Lookers /\ Open \cap Final = {}
  BY ConstantsAssumption, TransitionTypes DEF IInv
<1>1. CASE UNCHANGED <<active, result>>
  BY <1>1 DEF Journal!vars
<1>2. ASSUME NEW state \in Open \cup Final, active # None, active.state \in Open,
             active' = [id |-> active.id, state |-> state], result' = result
      PROVE  Journal!Next
  BY <1>2, <1>t, <1>i DEF Journal!Next, Journal!Progress, Operations
<1>3. ASSUME NEW i \in Ids, NEW state \in Open, NEW next, Checkpoint(i, state, next), own[i].pc \in Recording,
             result' = result
      PROVE  [Journal!Next]_(Journal!vars)
  <2>1. active = [id |-> i, state |-> own[i].view] /\ active # None
    BY <1>i, <1>t, <1>3, NoneIsNoRecord DEF OwnerInv
  <2>2. active' = active \/ active' = [id |-> i, state |-> state]
    BY <1>t, <1>3, CheckpointEffect
  <2> QED BY <1>1, <1>2, <1>3, <1>t, <2>1, <2>2
<1>4. ASSUME NEW i \in Ids, Admit(i) PROVE [Journal!Next]_(Journal!vars)
  <2>1. CASE active = None /\ result = None /\ active' = [id |-> i, state |-> "pending"]
    BY <1>4, <2>1 DEF Admit, Journal!Next, Journal!Admit, Operations, Open, Final
  <2> QED BY <1>1, <1>4, <2>1 DEF Admit, Admissible, Commit
<1>5. ASSUME NEW i \in Ids, Settle(i) PROVE [Journal!Next]_(Journal!vars)
  <2>1. PICK state \in Verdicts(i) : SettleAs(i, state)
    BY <1>5 DEF Settle
  <2>2. active = [id |-> i, state |-> own[i].view] /\ active # None /\ result' = result /\ state \in Final
    BY <1>i, <1>t, <1>5, <2>1, NoneIsNoRecord, VerdictTypes DEF OwnerInv, Settle, Recording
  <2>3. active' = active \/ active' = [id |-> i, state |-> state]
    BY <2>1 DEF SettleAs, Decide, Commit
  <2> QED BY <1>1, <1>2, <1>t, <2>2, <2>3
<1>6. ASSUME NEW p \in Ids \cup Lookers, Publish(p) PROVE [Journal!Next]_(Journal!vars)
  <2>1. active # None /\ active.state \in Final /\ result # active /\ result' = active /\ active' = active
    BY <1>6, <1>i DEF Publish, JournalInv
  <2>2. result = None
    BY <1>i, <1>t, <2>1 DEF JournalInv, IsActive, Operations
  <2> QED BY <2>1, <2>2 DEF Journal!Next, Journal!Publish
<1>7. ASSUME NEW p \in Ids \cup Lookers, Retire(p) PROVE Journal!Next
  BY <1>7, <1>i DEF Retire, Commit, JournalInv, Journal!Next, Journal!Retire
<1>8. ASSUME NEW p \in Lookers, LookAbandoned(p) PROVE Journal!Next
  BY <1>2, <1>8 DEF LookAbandoned, Seen, Decide, Commit, Final
<1>9. CASE Acknowledge
  BY <1>9 DEF Acknowledge, Journal!Next, Journal!Take
<1>10. ASSUME NEW i \in Ids, OwnerStep(i) PROVE [Journal!Next]_(Journal!vars)
  <2>1. CASE Announce(i)
    <3>1. (IF Regional(i) THEN "authorizing" ELSE "running") \in Open
      BY DEF Open
    <3> QED BY <1>3, <2>1, <3>1 DEF Announce, Recording
  <2>2. CASE Accepted(i)
    BY <1>3, <2>2 DEF Accepted, Recording, Open
  <2>3. CASE \/ Request(i) \/ Decline(i) \/ OpenStream(i) \/ Announced(i) \/ ClientStep(i)
             \/ Launch(i) \/ OwnerGivesUp(i) \/ Leave(i)
    BY <1>1, <2>3 DEF Request, Decline, OpenStream, Announced, ClientStep, Launch,
       OwnerGivesUp, Leave, journalVars
  <2> QED BY <1>4, <1>5, <1>6, <1>7, <1>10, <2>1, <2>2, <2>3 DEF OwnerStep, OwnerRetires
<1>11. ASSUME NEW p \in Lookers, LookStep(p) \/ LookFails(p) \/ LookerDies(p)
       PROVE  [Journal!Next]_(Journal!vars)
  <2>1. CASE \/ LookRead(p) \/ LookRetained(p) \/ LookTooLate(p) \/ LookComplete(p) \/ LookBusy(p)
             \/ LookFails(p) \/ LookerDies(p)
    BY <1>1, <2>1 DEF LookRead, LookRetained, LookTooLate, LookComplete, LookBusy, LookFails,
       LookerDies, journalVars
  <2> QED BY <1>6, <1>7, <1>8, <1>11, <2>1 DEF LookStep, LookRetires
<1>12. ASSUME NEW w \in Watchers, WatchStep(w) \/ Deadline(w) PROVE [Journal!Next]_(Journal!vars)
  <2>1. CASE WatchTarget(w) \/ Check(w) \/ Wake(w) \/ Deadline(w)
    BY <1>1, <2>1 DEF WatchTarget, Check, Wake, Deadline, journalVars
  <2> QED BY <1>7, <1>12, <2>1 DEF WatchStep, TargetRetired, Lookers
<1>13. ASSUME NEW i \in Ids, ServiceStep(i) \/ Stop(i) \/ OwnerDies(i) PROVE UNCHANGED <<active, result>>
  BY <1>13 DEF ServiceStep, Stop, OwnerDies, journalVars
<1>14. CASE KernelFreesLease \/ UNCHANGED vars
  BY <1>1, <1>14 DEF KernelFreesLease, journalVars, vars
<1> QED BY <1>1, <1>9, <1>10, <1>11, <1>12, <1>13, <1>14 DEF Next

(* With commands and recoveries killed anywhere, one operation at a time   *)
(* is decided once and its result kept for the client: the processes       *)
(* together implement OperationResults.                                    *)
THEOREM ResultsAreKept == Spec => JournalSpec
BY Invariance, JournalInit, JournalStep, PTL DEF Spec, JournalSpec, Journal!Spec
=============================================================================
