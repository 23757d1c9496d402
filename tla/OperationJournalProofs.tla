------------------------ MODULE OperationJournalProofs ------------------------
(* Proofs about OperationJournal: type correctness, that the journal       *)
(* implements OperationResults however its handlers are killed, recovered, *)
(* and interrupted by reboots, and that every journal they write is one    *)
(* decode_journal_state accepts.  Then, about the two accounts it keeps of *)
(* an operation: the restart guidance that the updates of this boot are    *)
(* owed, and the commits an operation may spend (JournalHeadroom).         *)
EXTENDS JournalHeadroom, FiniteSetTheorems, TLAPS

(***************************************************************************)
(* How far complete_journal_terminal has come.  The last conjunct is what  *)
(* a killed completion leaves behind: a handoff beside an active record    *)
(* names that very record, already filed in its slot, so that repeating    *)
(* the commits cannot change the result a client may be reading.           *)
(***************************************************************************)
Completing ==
  step # "idle" => journal.active # None /\ Terminal(journal.active)

Filed == journal.terminals[journal.active.slot] = journal.active

FiledInTime == step \in {"cursor", "handoff", "clear"} => Filed

HandedInTime == step = "clear" => journal.handoff = Handoff(journal.active)

HandoffIsActive ==
  journal.handoff # None /\ journal.active # None =>
    /\ Terminal(journal.active)
    /\ journal.handoff = Handoff(journal.active)
    /\ Filed

CompletionInv == Completing /\ FiledInTime /\ HandedInTime /\ HandoffIsActive

IInv == TypeOK /\ CompletionInv

-----------------------------------------------------------------------------
(* Operators.                                                              *)

LEMMA AfterType == ASSUME NEW slot \in Slots PROVE After(slot) \in Slots
  BY RingAssumption DEF After, Slots

LEMMA SomeTimes == Times \subseteq 0 .. ClockMax /\ 0 \in 0 .. ClockMax /\ 1 \in Times
                   /\ Boots \subseteq 0 .. BootMax /\ 1 \in Boots
  BY BoundAssumption DEF Times, Boots

LEMMA EvidenceType == ASSUME TypeOK, NEW s \in Evidence PROVE s \in 0 .. ClockMax
  BY SomeTimes DEF TypeOK, Evidence

LEMMA HigherType ==
  ASSUME NEW k \in Nat, NEW a \in 0 .. k, NEW b \in 0 .. k
  PROVE  Higher(a, b) \in 0 .. k
  BY DEF Higher

LEMMA AllClearType == ASSUME NEW b \in Boots PROVE AllClear(b) \in Restarts
  BY SomeTimes DEF AllClear, Restarts

LEMMA ReloggedType ==
  ASSUME NEW restart \in Restarts, NEW s \in 0 .. ClockMax
  PROVE  Relogged(restart, s) \in Restarts
<1>1. (IF s > restart.sessionCutoff THEN 0 ELSE restart.session) \in 0 .. 2
  BY DEF Restarts
<1>2. (IF s > restart.sessionCutoff THEN 0 ELSE restart.sessionCutoff) \in 0 .. ClockMax
  BY SomeTimes DEF Restarts
<1>3. (IF s > restart.applicationCutoff THEN FALSE ELSE restart.application) \in BOOLEAN
  <2>1. restart.application \in BOOLEAN
    BY DEF Restarts
  <2> QED BY <2>1
<1>4. (IF s > restart.applicationCutoff THEN 0 ELSE restart.applicationCutoff) \in 0 .. ClockMax
  BY SomeTimes DEF Restarts
<1> QED BY <1>1, <1>2, <1>3, <1>4, Zenon DEF Relogged, Restarts

LEMMA PrunedType ==
  ASSUME NEW restart \in Restarts, NEW s \in 0 .. ClockMax, boot \in Boots
  PROVE  Pruned(restart, s) \in Restarts
  BY ReloggedType, AllClearType DEF Pruned

LEMMA ReappliedType ==
  ASSUME NEW restart \in Restarts, NEW op \in Operations, login \in 0 .. ClockMax
  PROVE  Reapplied(restart, op) \in Restarts
<1>1. Higher(restart.system, op.system) \in 0 .. 3
  BY HigherType DEF Restarts, Operations
<1>2. Higher(restart.session, op.session) \in 0 .. 2
  BY HigherType DEF Restarts, Operations
<1>3. WithContribution(restart, op) \in Restarts
  BY <1>1, <1>2 DEF WithContribution, Restarts, Operations
<1> QED BY <1>3, ReloggedType DEF Reapplied

LEMMA OweType ==
  ASSUME TypeOK, NEW op \in Operations
  PROVE  Owe(op) \in [system : 0 .. 3, levelAt : [Strengths -> 0 .. ClockMax],
                      sessionAt : 0 .. ClockMax, applicationAt : 0 .. ClockMax]
<1>1. Higher(owed.system, op.system) \in 0 .. 3
  BY HigherType DEF TypeOK, Operations
<1>2. [l \in Strengths |-> IF op.session = l THEN op.mono ELSE owed.levelAt[l]]
        \in [Strengths -> 0 .. ClockMax]
  BY DEF TypeOK, Operations
<1>3. /\ (IF op.session > 0 THEN op.mono ELSE owed.sessionAt) \in 0 .. ClockMax
      /\ (IF op.application THEN op.mono ELSE owed.applicationAt) \in 0 .. ClockMax
  BY DEF TypeOK, Operations
<1> QED BY <1>1, <1>2, <1>3, Zenon DEF Owe, TypeOK

-----------------------------------------------------------------------------
(* Type correctness: every commit leaves a well-typed journal behind,      *)
(* whatever is killed in between.                                          *)

LEMMA BeginsPending ==
  ASSUME TypeOK, NEW kind \in Kinds, NEW id \in Ids, Begin(kind, id)
  PROVE  /\ journal'.active \in Operations
         /\ journal'.active.state = "pending"
<1> DEFINE pending ==
      [id |-> id, kind |-> kind, state |-> "pending",
       system |-> 0, session |-> 0, application |-> FALSE,
       boot |-> IF kind = "update" THEN boot ELSE 0, mono |-> 0, slot |-> journal.cursor]
<1>1. journal'.active = pending
  BY DEF Begin, Commit, TypeOK
<1>2. "pending" \in States /\ kind \in Kinds /\ id \in Ids
  BY StateAssumption, Zenon
<1>3. boot \in 0 .. BootMax /\ 0 \in 0 .. BootMax
  BY BoundAssumption DEF Boots, TypeOK
<1>4. 0 \in 0 .. 3 /\ 0 \in 0 .. 2 /\ 0 \in 0 .. ClockMax
  BY SomeTimes
<1>5. FALSE \in BOOLEAN /\ journal.cursor \in Slots
  BY DEF TypeOK
<1>6. pending \in Operations
  BY <1>2, <1>3, <1>4, <1>5, Zenon DEF Operations
<1> QED BY <1>1, <1>6

LEMMA TypeInit == Init => TypeOK
<1> SUFFICES ASSUME Init PROVE TypeOK
  OBVIOUS
<1>1. AllClear(1) \in Restarts
  BY SomeTimes, AllClearType
<1>2. 0 \in Slots
  BY RingAssumption DEF Slots
<1>3. NothingOwed \in [system : 0 .. 3, levelAt : [Strengths -> 0 .. ClockMax],
                       sessionAt : 0 .. ClockMax, applicationAt : 0 .. ClockMax]
  BY SomeTimes DEF NothingOwed
<1> QED
  BY <1>1, <1>2, <1>3, SomeTimes DEF Init, TypeOK

LEMMA TypeStep == TypeOK /\ Completing /\ [Next]_vars => TypeOK'
<1> SUFFICES ASSUME TypeOK, Completing, [Next]_vars PROVE TypeOK'
  OBVIOUS
<1> USE DEF TypeOK
<1>a. /\ journal.restart \in Restarts /\ journal.cursor \in Slots
      /\ journal.active # None => journal.active \in Operations
  OBVIOUS
<1>1. ASSUME NEW kind \in Kinds, NEW id \in Ids, Begin(kind, id) PROVE TypeOK'
  <2>1. journal'.active \in Operations
    BY <1>1, BeginsPending
  <2> QED BY <1>1, <2>1, SomeTimes DEF Begin, Commit, Times
<1>2. CASE Advances
  <2>1. PICK following : \E recovering \in BOOLEAN : Advance(following, recovering)
    BY <1>2, Zenon DEF Advances
  <2>2. following \in Operations
    BY <2>1 DEF Advance, WellFormed
  <2>3. owed' \in [system : 0 .. 3, levelAt : [Strengths -> 0 .. ClockMax],
                  sessionAt : 0 .. ClockMax, applicationAt : 0 .. ClockMax]
    BY <2>1, <2>2, OweType DEF Advance
  <2> QED BY <2>1, <2>2, <2>3 DEF Advance, Commit
<1>3. ASSUME NEW s \in Evidence, Prune(s) PROVE TypeOK'
  BY <1>3, <1>a, EvidenceType, PrunedType DEF Prune, Commit
<1>4. ASSUME NEW s \in Evidence, CompleteStart(s) PROVE TypeOK'
  <2>1. s \in 0 .. ClockMax /\ Pruned(journal.restart, s) \in Restarts
    BY <1>a, EvidenceType, PrunedType
  <2> QED BY <1>4, <2>1 DEF CompleteStart, Running, Commit
<1>5. CASE CompleteApply
  <2>1. journal.active \in Operations
    BY <1>5, <1>a DEF CompleteApply, Running, Completing
  <2>2. Reapplied(journal.restart, journal.active) \in Restarts
    BY <2>1, <1>a, ReappliedType
  <2> QED BY <1>5, <2>2, SomeTimes DEF CompleteApply, Running, Commit
<1>6. CASE CompleteTerminal
  <2>1. journal.active \in Operations
    BY <1>6, <1>a DEF CompleteTerminal, Running, Completing
  <2> QED BY <1>6, <2>1 DEF CompleteTerminal, Running, Commit
<1>7. CASE CompleteCursor
  <2>1. journal.active.slot \in Slots
    BY <1>7, <1>a DEF CompleteCursor, Running, Completing, Operations
  <2> QED BY <1>7, <2>1, AfterType DEF CompleteCursor, Running, Commit
<1>8. CASE CompleteHandoff
  <2>1. Handoff(journal.active) \in Handoffs
    BY <1>8, <1>a DEF CompleteHandoff, Running, Completing, Operations, Handoff, Handoffs
  <2> QED BY <1>8, <2>1 DEF CompleteHandoff, Running, Commit
<1>9. CASE CompleteClear
  BY <1>9 DEF CompleteClear, Running, Commit
<1>10. ASSUME NEW id \in Ids, Acknowledge(id) PROVE TypeOK'
  BY <1>10 DEF Acknowledge, Commit
<1>11. CASE Kill
  BY <1>11, SomeTimes DEF Kill
<1>12. CASE Tick
  BY <1>12, BoundAssumption DEF Tick, Times
<1>13. CASE Login
  BY <1>13 DEF Login
<1>14. CASE Reboot
  <2>1. NothingOwed \in [system : 0 .. 3, levelAt : [Strengths -> 0 .. ClockMax],
                         sessionAt : 0 .. ClockMax, applicationAt : 0 .. ClockMax]
    BY SomeTimes DEF NothingOwed
  <2> QED BY <1>14, <2>1, SomeTimes, BoundAssumption DEF Reboot, Boots
<1>15. CASE UNCHANGED vars
  BY <1>15 DEF vars
<1> QED
  BY <1>1, <1>2, <1>3, <1>4, <1>5, <1>6, <1>7, <1>8, <1>9, <1>10, <1>11, <1>12, <1>13, <1>14, <1>15
     DEF Next

-----------------------------------------------------------------------------
(* The completion invariant.                                               *)

LEMMA CompletionInit == Init => CompletionInv
BY DEF Init, CompletionInv, Completing, FiledInTime, HandedInTime, HandoffIsActive

(* What a handler that leaves the operation, its slot and its handoff      *)
(* alone keeps, provided it does not move complete_journal_terminal on.    *)
LEMMA CompletionKept ==
  ASSUME CompletionInv,
         UNCHANGED <<journal.active, journal.terminals, journal.handoff>>,
         step' \in {step, "idle"}
  PROVE  CompletionInv'
BY DEF CompletionInv, Completing, FiledInTime, HandedInTime, HandoffIsActive, Filed

LEMMA CompletionStep == IInv /\ [Next]_vars => CompletionInv'
<1> SUFFICES ASSUME IInv, [Next]_vars PROVE CompletionInv'
  OBVIOUS
<1>a. TypeOK /\ CompletionInv
  BY DEF IInv
<1>b. /\ journal \in [cursor : Slots, restart : Restarts, active : Operations \cup {None},
                     handoff : Handoffs \cup {None}, terminals : [Slots -> Operations \cup {None}]]
      /\ journal.active # None => journal.active.slot \in Slots
  BY <1>a DEF TypeOK, Operations
<1>1. ASSUME NEW kind \in Kinds, NEW id \in Ids, Begin(kind, id) PROVE CompletionInv'
  BY <1>1, <1>b
     DEF Begin, Admissible, Commit, CompletionInv, Completing, FiledInTime, HandedInTime, HandoffIsActive
<1>2. CASE Advances
  <2>1. PICK following : \E recovering \in BOOLEAN : Advance(following, recovering)
    BY <1>2, Zenon DEF Advances
  <2>2. step = "idle" /\ journal.active # None /\ ~ Terminal(journal.active)
    BY <2>1 DEF Advance, Legal
  <2>3. journal.handoff = None
    BY <2>2, <1>a DEF CompletionInv, HandoffIsActive
  <2>4. step' = "idle" /\ journal'.handoff = None
    BY <2>1, <2>2, <2>3, <1>b DEF Advance, Commit
  <2> QED BY <2>4 DEF CompletionInv, Completing, FiledInTime, HandedInTime, HandoffIsActive
<1>3. ASSUME NEW s \in Evidence, Prune(s) PROVE CompletionInv'
  <2>1. UNCHANGED <<journal.active, journal.terminals, journal.handoff>> /\ step' = step
    BY <1>3, <1>b DEF Prune, Commit
  <2> QED BY <2>1, <1>a, CompletionKept
<1>4. ASSUME NEW s \in Evidence, CompleteStart(s) PROVE CompletionInv'
  <2>1. /\ UNCHANGED <<journal.active, journal.terminals, journal.handoff>>
        /\ step' \in {"apply", "terminal"}
        /\ journal.active # None /\ Terminal(journal.active)
    BY <1>4, <1>b DEF CompleteStart, Running, Commit
  <2> QED BY <2>1, <1>a
          DEF CompletionInv, Completing, FiledInTime, HandedInTime, HandoffIsActive, Filed
<1>5. CASE CompleteApply
  <2>1. /\ UNCHANGED <<journal.active, journal.terminals, journal.handoff>>
        /\ step = "apply" /\ step' = "terminal"
    BY <1>5, <1>b DEF CompleteApply, Running, Commit
  <2> QED BY <2>1, <1>a
          DEF CompletionInv, Completing, FiledInTime, HandedInTime, HandoffIsActive, Filed
<1>6. CASE CompleteTerminal
  <2>1. journal.active # None /\ Terminal(journal.active)
    BY <1>6, <1>a DEF CompleteTerminal, Running, CompletionInv, Completing
  <2>2. /\ UNCHANGED <<journal.active, journal.handoff>>
        /\ Filed'
        /\ step' = "cursor"
    BY <1>6, <2>1, <1>b DEF CompleteTerminal, Running, Commit, Filed
  <2> QED BY <2>1, <2>2, <1>a
          DEF CompletionInv, Completing, FiledInTime, HandedInTime, HandoffIsActive
<1>7. CASE CompleteCursor
  <2>1. /\ UNCHANGED <<journal.active, journal.terminals, journal.handoff>>
        /\ step = "cursor" /\ step' = "handoff"
    BY <1>7, <1>b DEF CompleteCursor, Running, Commit
  <2> QED BY <2>1, <1>a
          DEF CompletionInv, Completing, FiledInTime, HandedInTime, HandoffIsActive, Filed
<1>8. CASE CompleteHandoff
  <2>1. /\ UNCHANGED <<journal.active, journal.terminals>>
        /\ journal'.handoff = Handoff(journal.active)
        /\ step = "handoff" /\ step' = "clear"
    BY <1>8, <1>b DEF CompleteHandoff, Running, Commit
  <2> QED BY <2>1, <1>a
          DEF CompletionInv, Completing, FiledInTime, HandedInTime, HandoffIsActive, Filed, Handoff
<1>9. CASE CompleteClear
  <2>1. journal'.active = None /\ step' = "idle"
    BY <1>9, <1>b DEF CompleteClear, Running, Commit
  <2> QED BY <2>1 DEF CompletionInv, Completing, FiledInTime, HandedInTime, HandoffIsActive
<1>10. ASSUME NEW id \in Ids, Acknowledge(id) PROVE CompletionInv'
  <2>1. journal'.active = None /\ step' = "idle"
    BY <1>10, <1>b DEF Acknowledge, Commit
  <2> QED BY <2>1 DEF CompletionInv, Completing, FiledInTime, HandedInTime, HandoffIsActive
<1>11. CASE Kill \/ Tick \/ Login \/ Reboot \/ UNCHANGED vars
  <2>1. UNCHANGED journal /\ step' \in {step, "idle"}
    BY <1>11 DEF Kill, Tick, Login, Reboot, vars
  <2> QED BY <2>1, <1>a, CompletionKept
<1> QED
  BY <1>1, <1>2, <1>3, <1>4, <1>5, <1>6, <1>7, <1>8, <1>9, <1>10, <1>11 DEF Next

-----------------------------------------------------------------------------
LEMMA Invariance == Spec => []IInv
<1>1. Init => IInv
  BY TypeInit, CompletionInit DEF IInv
<1>2. IInv /\ [Next]_vars => IInv'
  BY TypeStep, CompletionStep DEF IInv, CompletionInv
<1> QED BY <1>1, <1>2, PTL DEF Spec

(* Every journal the handlers of operation_journal.py write, with any      *)
(* process killed between two commits and the machine rebooted at any      *)
(* moment, is well typed: slots stay in the ring and cutoffs in the clock. *)
THEOREM TypeCorrect == Spec => []TypeOK
<1>1. IInv => TypeOK
  BY DEF IInv
<1> QED BY <1>1, Invariance, PTL

-----------------------------------------------------------------------------
(* The refinement.                                                         *)

(* A step that leaves these three paths alone is a step of no client.      *)
LEMMA StutterKept ==
  ASSUME UNCHANGED <<journal.active, journal.terminals, journal.handoff>>
  PROVE  UNCHANGED Results!vars
BY DEF Results!vars, Result

LEMMA ResultsInit == Init => Results!Init
BY DEF Init, Results!Init, Result

LEMMA ResultsStep == IInv /\ [Next]_vars => [Results!Next]_(Results!vars)
<1> SUFFICES ASSUME IInv, [Next]_vars PROVE [Results!Next]_(Results!vars)
  OBVIOUS
<1>a. CompletionInv
  BY DEF IInv
<1>b. /\ journal \in [cursor : Slots, restart : Restarts, active : Operations \cup {None},
                     handoff : Handoffs \cup {None}, terminals : [Slots -> Operations \cup {None}]]
      /\ journal.active # None => journal.active \in Operations /\ journal.active.slot \in Slots
  BY DEF IInv, TypeOK, Operations
<1>1. ASSUME NEW kind \in Kinds, NEW id \in Ids, Begin(kind, id) PROVE Results!Admit
  <2>1. journal.active = None /\ journal.handoff = None /\ journal'.handoff = None
    BY <1>1, <1>b DEF Begin, Admissible, Commit
  <2>2. TypeOK
    BY DEF IInv
  <2>3. journal'.active \in Operations /\ journal'.active.state = "pending"
    BY <1>1, <2>2, BeginsPending
  <2> QED BY <2>1, <2>3 DEF Results!Admit, Result, TerminalStates
<1>2. CASE Advances
  <2>1. PICK state \in States, mono \in since + 1 .. now, recovering \in BOOLEAN,
             system \in SystemLevels, session \in SessionLevels, application \in Applications :
               Advance(Following(state, system, session, application, mono), recovering)
    BY <1>2, Zenon DEF Advances
  <2> DEFINE following == Following(state, system, session, application, mono)
  <2>2. journal.active # None /\ ~ Terminal(journal.active) /\ following \in Operations
    BY <2>1 DEF Advance, Legal, WellFormed
  <2>3. following.id = journal.active.id
    BY <2>2, <1>b DEF Following, Operations
  <2>4. journal'.active = following /\ UNCHANGED <<journal.terminals, journal.handoff>>
    BY <2>1, <1>b DEF Advance, Commit
  <2>5. Results!Progress
    BY <2>2, <2>3, <2>4 DEF Results!Progress, Result, Terminal
  <2> QED BY <2>5 DEF Results!Next
<1>3. ASSUME NEW s \in Evidence, Prune(s) \/ CompleteStart(s) PROVE UNCHANGED Results!vars
  <2>1. UNCHANGED <<journal.active, journal.terminals, journal.handoff>>
    BY <1>3, <1>b DEF Prune, CompleteStart, Running, Commit
  <2> QED BY <2>1, StutterKept
<1>4. CASE CompleteApply \/ CompleteCursor
  <2>1. UNCHANGED <<journal.active, journal.terminals, journal.handoff>>
    BY <1>4, <1>b DEF CompleteApply, CompleteCursor, Running, Commit
  <2> QED BY <2>1, StutterKept
<1>5. CASE CompleteTerminal
  <2>1. journal.active # None
    BY <1>5, <1>a DEF CompleteTerminal, Running, CompletionInv, Completing
  <2>2. /\ UNCHANGED <<journal.active, journal.handoff>>
        /\ journal'.terminals = [journal.terminals EXCEPT ![journal.active.slot] = journal.active]
    BY <1>5, <1>b DEF CompleteTerminal, Running, Commit
  <2>3. CASE journal.handoff = None
    BY <2>2, <2>3 DEF Results!vars, Result
  <2>4. CASE journal.handoff # None
    <3>1. journal.handoff.slot = journal.active.slot /\ Filed
      BY <2>1, <2>4, <1>a DEF CompletionInv, HandoffIsActive, Handoff
    <3>2. UNCHANGED journal.terminals
      BY <3>1, <2>1, <2>2, <1>b DEF Filed
    <3> QED BY <3>2, <2>2, StutterKept
  <2> QED BY <2>3, <2>4
<1>6. CASE CompleteHandoff
  <2>1. /\ journal.active # None /\ Terminal(journal.active)
        /\ Filed
    BY <1>6, <1>a DEF CompleteHandoff, Running, CompletionInv, Completing, FiledInTime
  <2>2. /\ UNCHANGED <<journal.active, journal.terminals>>
        /\ journal'.handoff = Handoff(journal.active)
    BY <1>6, <1>b DEF CompleteHandoff, Running, Commit
  <2>3. CASE journal.handoff = None
    <3>1. Handoff(journal.active) # None
      BY <2>1, <1>b, NoneAssumption DEF Handoff, Handoffs, Operations
    <3>2. Result = None /\ Result' = journal.active
      BY <3>1, <2>1, <2>2, <2>3 DEF Result, Filed, Handoff
    <3> QED BY <3>2, <2>1, <2>2 DEF Results!Next, Results!Publish, Terminal
  <2>4. CASE journal.handoff # None
    <3>1. journal.handoff = Handoff(journal.active)
      BY <2>1, <2>4, <1>a DEF CompletionInv, HandoffIsActive
    <3> QED BY <3>1, <2>2, StutterKept
  <2> QED BY <2>3, <2>4
<1>7. CASE CompleteClear
  <2>1. /\ journal.active # None
        /\ Filed
        /\ journal.handoff = Handoff(journal.active)
    BY <1>7, <1>a DEF CompleteClear, Running, CompletionInv, Completing, FiledInTime, HandedInTime
  <2>2. journal'.active = None /\ UNCHANGED <<journal.terminals, journal.handoff>>
    BY <1>7, <1>b DEF CompleteClear, Running, Commit
  <2>3. Handoff(journal.active) # None
    BY <2>1, <1>b, NoneAssumption DEF Handoff, Handoffs, Operations
  <2>4. Result = journal.active /\ UNCHANGED Result
    BY <2>1, <2>2, <2>3 DEF Result, Filed, Handoff
  <2> QED BY <2>1, <2>2, <2>4 DEF Results!Next, Results!Retire
<1>8. ASSUME NEW id \in Ids, Acknowledge(id) PROVE Results!Take
  BY <1>8, <1>b DEF Acknowledge, Commit, Results!Take, Result
<1>9. CASE Kill \/ Tick \/ Login \/ Reboot \/ UNCHANGED vars
  <2>1. UNCHANGED journal
    BY <1>9 DEF Kill, Tick, Login, Reboot, vars
  <2> QED BY <2>1, StutterKept
<1> QED
  BY <1>1, <1>2, <1>3, <1>4, <1>5, <1>6, <1>7, <1>8, <1>9 DEF Next, Results!Next

(* One operation at a time, decided once, its result kept unchanged for    *)
(* the client until it is acknowledged: the journal implements             *)
(* OperationResults for every ring size, through kills and reboots.        *)
THEOREM ResultsAreKept == Spec => ResultsSpec
BY Invariance, ResultsInit, ResultsStep, PTL DEF Spec, ResultsSpec, Results!Spec

(* So for a client: a decided operation is not decided again, it leaves    *)
(* only behind its result, that result is never another one, and no        *)
(* operation is admitted beside it.                                        *)
ResultStands ==
  /\ journal.active # None /\ Terminal(journal.active) => journal'.active \in {journal.active, None}
  /\ journal.active # None /\ journal'.active = None => Result = journal.active
  /\ Result # None => Result' \in {Result, None}
  /\ journal.active = None /\ journal'.active # None => Result = None

(* What OperationResults says of admit, complete_journal_terminal and the  *)
(* acknowledgement, read off each step of theirs.                          *)
THEOREM ResultsStand == Spec => [][ResultStands]_vars
<1>1. ASSUME [Results!Next]_(Results!vars)
      PROVE  ResultStands
  <2>1. CASE Results!Admit
    BY <2>1 DEF Results!Admit, ResultStands
  <2>2. CASE Results!Progress
    BY <2>2, NoneAssumption DEF Results!Progress, ResultStands, Terminal
  <2>3. CASE Results!Publish
    BY <2>3 DEF Results!Publish, ResultStands
  <2>4. CASE Results!Retire
    BY <2>4 DEF Results!Retire, ResultStands
  <2>5. CASE Results!Take
    BY <2>5 DEF Results!Take, ResultStands
  <2>6. CASE UNCHANGED Results!vars
    BY <2>6 DEF Results!vars, ResultStands
  <2> QED BY <1>1, <2>1, <2>2, <2>3, <2>4, <2>5, <2>6 DEF Results!Next
<1> QED BY <1>1, ResultsAreKept, PTL DEF ResultsSpec, Results!Spec

-----------------------------------------------------------------------------
(* Every journal is readable: the inductive invariant.                     *)

Records(j) == Retained(j) \cup ({j.active} \ {None})

(* Nothing on record is of a later boot than the guidance.                 *)
BootInv ==
  /\ journal.restart.boot <= boot
  /\ \A o \in Records(journal) : o.boot <= journal.restart.boot

Updating == journal.active # None /\ journal.active.kind = "update"

(* complete_journal_terminal files an update of this boot only once its    *)
(* guidance is applied.                                                    *)
AppliedInTime ==
  /\ step # "idle" /\ Updating => journal.restart.boot = boot
  /\ step \in {"terminal", "cursor", "handoff", "clear"} /\ Updating /\ journal.active.boot = boot =>
       journal.restart.last = journal.active.id

(* The cursor stays at the slot of the active operation until it is filed. *)
PlaceInv ==
  /\ journal.active # None =>
       \/ journal.cursor = journal.active.slot
       \/ Filed /\ journal.cursor = After(journal.active.slot)
  /\ step \in {"handoff", "clear"} => journal.cursor = After(journal.active.slot)

(* Where the ring will be written next, the commit of the cursor aside.    *)
At == IF journal.active # None /\ Filed THEN After(journal.active.slot) ELSE journal.cursor

RingInv == RingFull(journal) \/ \A s \in Slots : s \in Filled(journal) <=> s < At

(* The ring holds its results in the order they were filed: the slot at    *)
(* "at" is the oldest and will be overwritten first.                       *)
Rank(s, at) == IF s >= at THEN s - at ELSE s - at + N

Counted(j, o) == o.kind = "update" /\ o.boot = j.restart.boot

(* So the update applied last is overwritten after all others of its boot. *)
LastIsNewest(j, at) ==
  \A s, t \in Filled(j) :
    s # t /\ j.terminals[s].id = j.restart.last /\ Counted(j, j.terminals[t]) =>
      Rank(t, at) < Rank(s, at)

OrderInv == LastIsNewest(journal, At)

(* The updates of this boot, and the guidance they left, are no later than *)
(* a moment; and strictly earlier than the active one ends.                *)
KnownBy(j, time) ==
  /\ \A o \in RetainedUpdates(j) : o.mono <= time
  /\ j.restart.sessionCutoff <= time /\ j.restart.applicationCutoff <= time

ClockInv ==
  /\ since <= now
  /\ journal.restart.boot = boot => KnownBy(journal, now)
  /\ journal.restart.boot = boot /\ journal.active # None /\ ~ Terminal(journal.active) =>
       KnownBy(journal, since)
  /\ Updating /\ Terminal(journal.active) /\ journal.active.boot = boot =>
       /\ journal.active.mono <= now
       /\ KnownBy(journal, journal.active.mono)
       /\ \A o \in RetainedUpdates(journal) \ {journal.active} : o.mono < journal.active.mono

JournalInv ==
  /\ Decodes(journal)
  /\ BootInv
  /\ AppliedInTime
  /\ PlaceInv
  /\ RingInv
  /\ OrderInv
  /\ ClockInv

DInv == IInv /\ JournalInv

-----------------------------------------------------------------------------
(* The checks of decode_journal_state, regrouped: those of the guidance    *)
(* depend on the updates it covers and on whether the ring is full, not on *)
(* where the records are.                                                  *)

Journals ==
  [cursor : Slots, restart : Restarts, active : Operations \cup {None},
   handoff : Handoffs \cup {None}, terminals : [Slots -> Operations \cup {None}]]

SessionLevel     == [o \in Operations |-> o.session]
ApplicationLevel == [o \in Operations |-> IF o.application THEN 1 ELSE 0]

Bucket(A, last, full, level, cutoff, f) ==
  /\ level = 0 => cutoff = 0
  /\ level > 0 =>
       /\ cutoff # 0
       /\ \A m \in A : m.id = last => cutoff <= m.mono /\ f[m] <= level
       /\ \A o \in A : f[o] > 0 => o.mono <= cutoff
       /\ full \/
            /\ \E o \in A : f[o] = level
            /\ \E o \in A : f[o] > 0 /\ o.mono = cutoff
            /\ \A o \in A : f[o] > 0 /\ o.mono = cutoff => f[o] <= level

LastCovers(A, full, r) ==
  /\ r.last = None => r = AllClear(r.boot) /\ A = {}
  /\ (\A m \in A : m.id # r.last) => A = {} /\ (full \/ r.last = None)
  /\ \A m, o \in A : m.id = r.last => o.mono <= m.mono

SystemCovers(A, full, r) ==
  /\ \A o \in A : o.system <= r.system
  /\ full \/ r.system = 0 \/ \E o \in A : o.system = r.system

SessionCovers(A, full, r) ==
  Bucket(A, r.last, full, r.session, r.sessionCutoff, SessionLevel)

ApplicationCovers(A, full, r) ==
  Bucket(A, r.last, full, IF r.application THEN 1 ELSE 0, r.applicationCutoff, ApplicationLevel)

Covering(A, full, r) ==
  /\ LastCovers(A, full, r)
  /\ SystemCovers(A, full, r)
  /\ SessionCovers(A, full, r)
  /\ ApplicationCovers(A, full, r)

LastIsCounted(j) ==
  \A o \in Records(j) : o.id = j.restart.last => Counted(j, o) /\ Terminal(o)

LEMMA JournalType == TypeOK => journal \in Journals
  BY DEF TypeOK, Journals

LEMMA RecordTypes ==
  ASSUME NEW j \in Journals
  PROVE  /\ Retained(j) \subseteq Operations
         /\ Records(j) \subseteq Operations
         /\ Retained(j) \subseteq Records(j)
         /\ RetainedUpdates(j) \subseteq Retained(j)
         /\ Applied(j) \subseteq Operations
         /\ j.active # None => j.active \in Operations
         /\ \A o \in Operations : o.id # None
<1>1. j.active # None => j.active \in Operations
  BY DEF Journals
<1>2. Retained(j) \subseteq Operations
  BY DEF Journals, Retained, Filled
<1>3. \A o \in Operations : o.id # None
  BY NoneAssumption DEF Operations
<1> QED BY <1>1, <1>2, <1>3 DEF Records, RetainedUpdates, Applied

LEMMA BucketsMeasure ==
  ASSUME NEW j \in Journals
  PROVE  /\ BucketSound(j, j.restart.session, j.restart.sessionCutoff, SessionOf)
              <=> SessionCovers(Applied(j), RingFull(j), j.restart)
         /\ BucketSound(j, IF j.restart.application THEN 1 ELSE 0,
                        j.restart.applicationCutoff, ApplicationOf)
              <=> ApplicationCovers(Applied(j), RingFull(j), j.restart)
<1>1. Applied(j) \subseteq Operations
  BY RecordTypes
<1>2. \A o \in Applied(j) : SessionLevel[o] = SessionOf(o) /\ ApplicationLevel[o] = ApplicationOf(o)
  BY <1>1 DEF SessionLevel, ApplicationLevel, SessionOf, ApplicationOf
<1>3. \A m : m \in Matching(j) <=> m \in Applied(j) /\ m.id = j.restart.last
  BY DEF Matching
<1> DEFINE A == Applied(j)
           full == RingFull(j)
<1>4. ASSUME NEW level, NEW cutoff
      PROVE  BucketSound(j, level, cutoff, SessionOf)
               <=> Bucket(A, j.restart.last, full, level, cutoff, SessionLevel)
  BY <1>2, <1>3 DEF BucketSound, Bucket
<1>5. ASSUME NEW level, NEW cutoff
      PROVE  BucketSound(j, level, cutoff, ApplicationOf)
               <=> Bucket(A, j.restart.last, full, level, cutoff, ApplicationLevel)
  BY <1>2, <1>3 DEF BucketSound, Bucket
<1> QED BY <1>4, <1>5 DEF SessionCovers, ApplicationCovers

LEMMA DecodesParts ==
  ASSUME NEW j \in Journals
  PROVE  Decodes(j) <=> /\ RingSound(j) /\ HandoffSound(j) /\ ActiveSound(j) /\ TimesSound(j)
                        /\ LastIsCounted(j)
                        /\ Covering(Applied(j), RingFull(j), j.restart)
<1>1. j.restart \in Restarts
  BY DEF Journals
<1>2. BucketsSound(j) <=> /\ SessionCovers(Applied(j), RingFull(j), j.restart)
                          /\ ApplicationCovers(Applied(j), RingFull(j), j.restart)
  BY BucketsMeasure DEF BucketsSound
<1>3. SystemSound(j) <=> SystemCovers(Applied(j), RingFull(j), j.restart)
  BY DEF SystemSound, SystemCovers
<1>4. RestartSound(j) <=> LastIsCounted(j) /\ LastCovers(Applied(j), RingFull(j), j.restart)
  <2>1. CASE j.restart.last = None
    <3>1. LastIsCounted(j)
      BY <2>1, RecordTypes DEF LastIsCounted
    <3>2. Applied(j) = RetainedUpdates(j)
      BY <2>1, RecordTypes DEF Applied
    <3> QED BY <2>1, <3>1, <3>2 DEF RestartSound, LastCovers
  <2>2. CASE j.restart.last # None
    <3>1. LastIsCounted(j) <=> \A o \in Retained(j) \cup ({j.active} \ {None}) :
            o.id = j.restart.last =>
              o.kind = "update" /\ o.boot = j.restart.boot /\ Terminal(o)
      BY DEF LastIsCounted, Records, Counted
    <3>2. LastCovers(Applied(j), RingFull(j), j.restart) <=>
            /\ Matching(j) = {} => RingFull(j) /\ Applied(j) = {}
            /\ \A m \in Matching(j), o \in Applied(j) : o.mono <= m.mono
      BY <2>2 DEF LastCovers, Matching
    <3> QED BY <2>2, <3>1, <3>2 DEF RestartSound
  <2> QED BY <2>1, <2>2
<1> QED BY <1>1, <1>2, <1>3, <1>4 DEF Decodes, Covering
-----------------------------------------------------------------------------
(* What the handlers do to the guidance.                                   *)

LEMMA LevelTypes ==
  /\ SessionLevel \in [Operations -> Nat] /\ ApplicationLevel \in [Operations -> Nat]
  /\ \A o \in Operations : SessionLevel[o] = o.session
  /\ \A o \in Operations : ApplicationLevel[o] = IF o.application THEN 1 ELSE 0
<1>1. \A o \in Operations : o.session \in Nat
  BY DEF Operations
<1> QED BY <1>1 DEF SessionLevel, ApplicationLevel

LEMMA ClearCovers == ASSUME NEW b, NEW full PROVE Covering({}, full, AllClear(b))
  BY DEF Covering, LastCovers, SystemCovers, SessionCovers, ApplicationCovers, Bucket, AllClear

LEMMA ContributionType ==
  ASSUME NEW r \in Restarts, NEW op \in Operations
  PROVE  WithContribution(r, op) \in Restarts
<1>1. Higher(r.system, op.system) \in 0 .. 3
  BY HigherType DEF Restarts, Operations
<1>2. Higher(r.session, op.session) \in 0 .. 2
  BY HigherType DEF Restarts, Operations
<1> QED BY <1>1, <1>2 DEF WithContribution, Restarts, Operations

LEMMA ReloggedFields ==
  ASSUME NEW r \in Restarts, NEW s \in 0 .. ClockMax
  PROVE  LET q == Relogged(r, s) IN
         /\ q.boot = r.boot /\ q.last = r.last /\ q.system = r.system
         /\ \/ q.session = r.session /\ q.sessionCutoff = r.sessionCutoff
            \/ q.session = 0 /\ q.sessionCutoff = 0
         /\ \/ q.application = r.application /\ q.applicationCutoff = r.applicationCutoff
            \/ q.application = FALSE /\ q.applicationCutoff = 0
         /\ r = AllClear(r.boot) => q = r
<1>1. /\ Relogged(r, s).boot = r.boot /\ Relogged(r, s).last = r.last /\ Relogged(r, s).system = r.system
      /\ Relogged(r, s).session = IF s > r.sessionCutoff THEN 0 ELSE r.session
      /\ Relogged(r, s).sessionCutoff = IF s > r.sessionCutoff THEN 0 ELSE r.sessionCutoff
      /\ Relogged(r, s).application = IF s > r.applicationCutoff THEN FALSE ELSE r.application
      /\ Relogged(r, s).applicationCutoff = IF s > r.applicationCutoff THEN 0 ELSE r.applicationCutoff
  BY DEF Relogged, Restarts
<1>2. ASSUME r = AllClear(r.boot) PROVE Relogged(r, s) = r
  <2>1. r.session = 0 /\ r.sessionCutoff = 0 /\ r.application = FALSE /\ r.applicationCutoff = 0
    BY <1>2 DEF AllClear
  <2>2. [r EXCEPT !.session = 0, !.sessionCutoff = 0, !.application = FALSE, !.applicationCutoff = 0] = r
    BY <2>1 DEF Restarts
  <2>3. Relogged(r, s) = [r EXCEPT !.session = r.session, !.sessionCutoff = r.sessionCutoff,
                                  !.application = r.application, !.applicationCutoff = r.applicationCutoff]
    BY <2>1, Zenon DEF Relogged
  <2> QED BY <2>1, <2>2, <2>3
<1> QED BY <1>1, <1>2

LEMMA ReloggedCovers ==
  ASSUME NEW A, NEW full, NEW r \in Restarts, NEW s \in 0 .. ClockMax, Covering(A, full, r)
  PROVE  Covering(A, full, Relogged(r, s))
<1> DEFINE q == Relogged(r, s)
<1>1. /\ q.boot = r.boot /\ q.last = r.last /\ q.system = r.system
      /\ \/ q.session = r.session /\ q.sessionCutoff = r.sessionCutoff
         \/ q.session = 0 /\ q.sessionCutoff = 0
      /\ \/ q.application = r.application /\ q.applicationCutoff = r.applicationCutoff
         \/ q.application = FALSE /\ q.applicationCutoff = 0
      /\ r = AllClear(r.boot) => q = r
  BY ReloggedFields
<1> HIDE DEF q
<1>2. LastCovers(A, full, q)
  BY <1>1 DEF Covering, LastCovers
<1>3. SystemCovers(A, full, q)
  BY <1>1 DEF Covering, SystemCovers
<1>4. SessionCovers(A, full, q)
  BY <1>1 DEF Covering, SessionCovers, Bucket
<1>5. ApplicationCovers(A, full, q)
  BY <1>1 DEF Covering, ApplicationCovers, Bucket
<1> QED BY <1>2, <1>3, <1>4, <1>5 DEF Covering, q

(* Overwriting the oldest result of a full ring.                           *)
LEMMA OverwritingCovers ==
  ASSUME NEW A, NEW full, NEW r, NEW B \in SUBSET A, Covering(A, full, r),
         (\A m \in B : m.id # r.last) => B = {}
  PROVE  Covering(B, TRUE, r)
<1>1. LastCovers(B, TRUE, r)
  BY DEF Covering, LastCovers
<1>2. SystemCovers(B, TRUE, r)
  BY DEF Covering, SystemCovers
<1>3. SessionCovers(B, TRUE, r)
  BY DEF Covering, SessionCovers, Bucket
<1>4. ApplicationCovers(B, TRUE, r)
  BY DEF Covering, ApplicationCovers, Bucket
<1> QED BY <1>1, <1>2, <1>3, <1>4 DEF Covering

(* Filling the ring's last slot.                                           *)
LEMMA FillingCovers ==
  ASSUME NEW A, NEW full, NEW fuller, full => fuller, NEW r, Covering(A, full, r)
  PROVE  Covering(A, fuller, r)
<1>1. LastCovers(A, fuller, r)
  BY DEF Covering, LastCovers
<1>2. SystemCovers(A, fuller, r)
  BY DEF Covering, SystemCovers
<1>3. SessionCovers(A, fuller, r)
  BY DEF Covering, SessionCovers, Bucket
<1>4. ApplicationCovers(A, fuller, r)
  BY DEF Covering, ApplicationCovers, Bucket
<1> QED BY <1>1, <1>2, <1>3, <1>4 DEF Covering

(* Applying an update that ended later than all that are covered.          *)
LEMMA BucketContributes ==
  ASSUME NEW A \in SUBSET Operations, NEW full, NEW last, NEW f \in [Operations -> Nat],
         NEW level \in Nat, NEW cutoff \in Nat, Bucket(A, last, full, level, cutoff, f),
         NEW op \in Operations, op.mono > 0,
         \A o \in A : o.id # op.id /\ o.mono < op.mono,
         cutoff <= op.mono
  PROVE  Bucket(A \cup {op}, op.id, full, Higher(level, f[op]),
                IF f[op] > 0 THEN op.mono ELSE cutoff, f)
<1> DEFINE B == A \cup {op}
           higher == Higher(level, f[op])
           later == IF f[op] > 0 THEN op.mono ELSE cutoff
<1>a. /\ op.mono \in Nat /\ f[op] \in Nat
      /\ \A o \in A : o \in Operations /\ f[o] \in Nat /\ o.mono \in Nat
  <2>1. \A o \in Operations : o.mono \in Nat
    BY DEF Operations
  <2> QED BY <2>1
<1>b. higher \in Nat /\ higher >= level /\ higher >= f[op]
      /\ (higher = level \/ higher = f[op])
  BY <1>a DEF Higher
<1>1. higher = 0 => later = 0
  BY <1>a, <1>b DEF Bucket
<1>2. ASSUME higher > 0 PROVE later # 0
  BY <1>2, <1>a, <1>b DEF Bucket
<1>3. ASSUME NEW m \in B, m.id = op.id PROVE later <= m.mono /\ f[m] <= higher
  <2>1. m = op
    BY <1>3
  <2> QED BY <2>1, <1>a, <1>b
<1>4. ASSUME higher > 0, NEW o \in B, f[o] > 0 PROVE o.mono <= later
  <2>1. CASE f[op] > 0
    BY <1>4, <2>1, <1>a
  <2>2. CASE f[op] = 0
    BY <1>4, <2>2, <1>a, <1>b DEF Bucket
  <2> QED BY <2>1, <2>2, <1>a
<1>5. ASSUME higher > 0, ~ full
      PROVE  /\ \E o \in B : f[o] = higher
             /\ \E o \in B : f[o] > 0 /\ o.mono = later
             /\ \A o \in B : f[o] > 0 /\ o.mono = later => f[o] <= higher
  <2>1. CASE f[op] > 0
    <3>1. \E o \in B : f[o] = higher
      <4>1. CASE higher = f[op]
        BY <4>1
      <4>2. CASE higher = level
        BY <4>2, <1>5 DEF Bucket
      <4> QED BY <4>1, <4>2, <1>b
    <3>2. \A o \in B : f[o] > 0 /\ o.mono = later => o = op
      BY <2>1, <1>a
    <3> QED BY <3>1, <3>2, <2>1, <1>b
  <2>2. CASE f[op] = 0
    <3>1. higher = level /\ later = cutoff
      BY <2>2, <1>b, <1>a
    <3> QED BY <3>1, <2>2, <1>5, <1>a DEF Bucket
  <2> QED BY <2>1, <2>2, <1>a
<1> QED BY <1>1, <1>2, <1>3, <1>4, <1>5, <1>b DEF Bucket

LEMMA ContributionCovers ==
  ASSUME NEW A \in SUBSET Operations, NEW full, NEW r \in Restarts, Covering(A, full, r),
         NEW op \in Operations, op.mono > 0, op.id # None,
         \A o \in A : o.id # op.id /\ o.mono < op.mono,
         r.sessionCutoff <= op.mono, r.applicationCutoff <= op.mono
  PROVE  Covering(A \cup {op}, full, WithContribution(r, op))
<1> DEFINE q == WithContribution(r, op)
           B == A \cup {op}
<1>1. /\ q.boot = r.boot /\ q.last = op.id
      /\ q.system = Higher(r.system, op.system)
      /\ q.session = Higher(r.session, op.session)
      /\ q.sessionCutoff = IF op.session > 0 THEN op.mono ELSE r.sessionCutoff
      /\ q.application <=> r.application \/ op.application
      /\ q.applicationCutoff = IF op.application THEN op.mono ELSE r.applicationCutoff
  BY DEF WithContribution, Restarts
<1>2. /\ r.system \in 0 .. 3 /\ op.system \in 0 .. 3
      /\ r.session \in Nat /\ r.sessionCutoff \in Nat /\ r.applicationCutoff \in Nat
      /\ op.mono \in Nat
  BY DEF Restarts, Operations
<1>3. \A o \in A : o.system \in 0 .. 3 /\ o.mono \in Nat
  BY DEF Operations
<1> HIDE DEF q
<1>4. LastCovers(B, full, q)
  <2>1. \A m \in B : m.id = q.last => m = op
    BY <1>1
  <2>2. \A o \in B : o.mono <= op.mono
    BY <1>2, <1>3
  <2> QED BY <1>1, <2>1, <2>2 DEF LastCovers
<1>5. SystemCovers(B, full, q)
  <2>1. \A o \in B : o.system <= q.system
    BY <1>1, <1>2, <1>3 DEF Covering, SystemCovers, Higher
  <2>2. full \/ q.system = 0 \/ \E o \in B : o.system = q.system
    BY <1>1, <1>2 DEF Covering, SystemCovers, Higher
  <2> QED BY <2>1, <2>2 DEF SystemCovers
<1>6. SessionCovers(B, full, q)
  <2>1. SessionLevel[op] = op.session /\ SessionLevel \in [Operations -> Nat]
    BY LevelTypes
  <2>2. Bucket(A, r.last, full, r.session, r.sessionCutoff, SessionLevel)
    BY DEF Covering, SessionCovers
  <2>3. Bucket(B, op.id, full, Higher(r.session, op.session),
               IF op.session > 0 THEN op.mono ELSE r.sessionCutoff, SessionLevel)
    BY <2>1, <2>2, <1>2, BucketContributes
  <2> QED BY <1>1, <2>3 DEF SessionCovers
<1>7. ApplicationCovers(B, full, q)
  <2> DEFINE level == IF r.application THEN 1 ELSE 0
             more == IF op.application THEN 1 ELSE 0
  <2>1. ApplicationLevel[op] = more /\ ApplicationLevel \in [Operations -> Nat] /\ level \in Nat
    BY LevelTypes
  <2>2. Bucket(A, r.last, full, level, r.applicationCutoff, ApplicationLevel)
    BY DEF Covering, ApplicationCovers
  <2>3. Bucket(B, op.id, full, Higher(level, more),
               IF more > 0 THEN op.mono ELSE r.applicationCutoff, ApplicationLevel)
    BY <2>1, <2>2, <1>2, BucketContributes, ZenonT(60)
  <2>4. Higher(level, more) = IF q.application THEN 1 ELSE 0
    BY <1>1 DEF Higher
  <2>5. q.applicationCutoff = IF more > 0 THEN op.mono ELSE r.applicationCutoff
    BY <1>1
  <2> QED BY <1>1, <2>3, <2>4, <2>5 DEF ApplicationCovers
<1> QED BY <1>4, <1>5, <1>6, <1>7 DEF Covering, q
-----------------------------------------------------------------------------
(* What each commit does to the checks of a load.                          *)

LEMMA SameRing ==
  ASSUME NEW j, NEW k, k.terminals = j.terminals
  PROVE  /\ Filled(k) = Filled(j) /\ Retained(k) = Retained(j)
         /\ RingFull(k) <=> RingFull(j)
BY DEF Filled, Retained, RingFull

LEMMA HandedResult ==
  ASSUME NEW j \in Journals, HandoffSound(j), j.handoff # None
  PROVE  /\ j.handoff.slot \in Filled(j)
         /\ j.terminals[j.handoff.slot] \in Retained(j)
<1>1. j.handoff.slot \in Slots
  BY DEF Journals, Handoffs
<1> QED BY <1>1 DEF HandoffSound, Filled, Retained

(* prune_journal_restart, alone or as complete_journal_terminal begins.    *)
LEMMA PrunedDecodes ==
  ASSUME NEW j \in Journals, NEW k \in Journals, Decodes(j),
         boot \in Boots, NEW s \in 0 .. ClockMax,
         j.restart.boot <= boot, \A o \in Records(j) : o.boot <= j.restart.boot,
         k.cursor = j.cursor, k.active = j.active, k.handoff = j.handoff,
         k.terminals = j.terminals, k.restart = Pruned(j.restart, s)
  PROVE  Decodes(k)
<1>a. /\ RingSound(j) /\ HandoffSound(j) /\ ActiveSound(j) /\ TimesSound(j)
      /\ LastIsCounted(j) /\ Covering(Applied(j), RingFull(j), j.restart)
  BY DecodesParts
<1>b. /\ Filled(k) = Filled(j) /\ Retained(k) = Retained(j) /\ Records(k) = Records(j)
      /\ RingFull(k) <=> RingFull(j)
  BY SameRing DEF Records
<1>c. /\ Retained(j) \subseteq Records(j) /\ Records(j) \subseteq Operations
      /\ j.active # None => j.active \in Records(j)
  BY RecordTypes DEF Records
<1>d. j.handoff # None => j.terminals[j.handoff.slot] \in Records(j)
  BY <1>a, <1>c, HandedResult
<1>e. j.restart \in Restarts /\ j.restart.boot \in Boots
  BY DEF Journals, Restarts
<1>1. RingSound(k)
  BY <1>a, <1>b DEF RingSound
<1>2. CASE j.restart.boot # boot
  <2>1. k.restart = AllClear(boot) /\ k.restart.boot = boot /\ k.restart.last = None
    BY <1>2 DEF Pruned, AllClear
  <2>2. \A o \in Records(j) : o.boot # boot
    BY <1>2, <1>c, <1>e DEF Operations, Boots
  <2>3. RetainedUpdates(k) = {}
    BY <2>1, <2>2, <1>b, <1>c DEF RetainedUpdates
  <2>4. Applied(k) = {}
    BY <2>1, <2>2, <2>3, <1>c DEF Applied
  <2>5. HandoffSound(k)
    BY <2>1, <2>2, <1>a, <1>d DEF HandoffSound
  <2>6. ActiveSound(k)
    BY <2>1, <2>2, <1>a, <1>b, <1>c DEF ActiveSound
  <2>7. TimesSound(k)
    BY <2>3 DEF TimesSound
  <2>8. LastIsCounted(k)
    BY <2>1, <1>b, <1>c, RecordTypes DEF LastIsCounted
  <2>9. Covering(Applied(k), RingFull(k), k.restart)
    BY <2>1, <2>4, ClearCovers
  <2> QED BY <1>1, <2>5, <2>6, <2>7, <2>8, <2>9, DecodesParts
<1>3. CASE j.restart.boot = boot
  <2>1. k.restart = Relogged(j.restart, s)
    BY <1>3 DEF Pruned
  <2>2. /\ k.restart.boot = j.restart.boot /\ k.restart.last = j.restart.last
        /\ j.restart = AllClear(j.restart.boot) => k.restart = j.restart
    BY <2>1, <1>e, ReloggedFields, ZenonT(60)
  <2>3. RetainedUpdates(k) = RetainedUpdates(j) /\ Applied(k) = Applied(j)
    BY <2>2, <1>b DEF RetainedUpdates, Applied
  <2>5. HandoffSound(k)
    BY <2>2, <1>a DEF HandoffSound
  <2>6. ActiveSound(k)
    BY <2>2, <1>a, <1>b DEF ActiveSound
  <2>7. TimesSound(k)
    BY <2>2, <2>3, <1>a DEF TimesSound, ThisBoot
  <2>8. LastIsCounted(k)
    BY <2>2, <1>a, <1>b DEF LastIsCounted, Counted
  <2>9. Covering(Applied(k), RingFull(k), k.restart)
    <3>1. Covering(Applied(j), RingFull(k), j.restart)
      BY <1>a, <1>b, FillingCovers
    <3> QED BY <3>1, <2>1, <2>3, <1>e, ReloggedCovers
  <2> QED BY <1>1, <2>5, <2>6, <2>7, <2>8, <2>9, DecodesParts
<1> QED BY <1>2, <1>3

(* begin_journal_operation.                                                *)
LEMMA BegunDecodes ==
  ASSUME NEW j \in Journals, NEW k \in Journals, Decodes(j),
         j.active = None, j.handoff = None, k.handoff = None,
         k.cursor = j.cursor, k.terminals = j.terminals, k.restart = j.restart,
         k.active \in Operations, WellFormed(k.active), ~ Terminal(k.active),
         k.active.kind = "update" => k.active.boot = j.restart.boot,
         k.active.id # j.restart.last, \A o \in Retained(j) : o.id # k.active.id
  PROVE  Decodes(k)
<1>a. /\ RingSound(j) /\ HandoffSound(j) /\ ActiveSound(j) /\ TimesSound(j)
      /\ LastIsCounted(j) /\ Covering(Applied(j), RingFull(j), j.restart)
  BY DecodesParts
<1>b. /\ Filled(k) = Filled(j) /\ Retained(k) = Retained(j)
      /\ RingFull(k) <=> RingFull(j)
  BY SameRing
<1>c. k.active # None
  BY NoneAssumption
<1>1. RingSound(k)
  BY <1>a, <1>b, <1>c DEF RingSound
<1>2. HandoffSound(k) /\ TimesSound(k)
  BY DEF HandoffSound, TimesSound
<1>3. ActiveSound(k)
  BY <1>b DEF ActiveSound
<1>4. LastIsCounted(k)
  BY <1>a, <1>b DEF LastIsCounted, Counted, Records
<1>5. Applied(k) = Applied(j)
  BY <1>b DEF Applied, RetainedUpdates
<1>6. Covering(Applied(k), RingFull(k), k.restart)
  BY <1>a, <1>b, <1>5, FillingCovers
<1> QED BY <1>1, <1>2, <1>3, <1>4, <1>6, DecodesParts

(* The close that recovery asks of advance_journal_operation.              *)
LEMMA ClosedDecodes ==
  ASSUME NEW j \in Journals, NEW k \in Journals, Decodes(j),
         j.active # None, ~ Terminal(j.active),
         k.cursor = j.cursor, k.terminals = j.terminals, k.restart = j.restart,
         k.handoff = j.handoff,
         k.active \in Operations, WellFormed(k.active),
         k.active.id = j.active.id, k.active.kind = j.active.kind,
         k.active.boot = j.active.boot, k.active.slot = j.active.slot,
         ThisBoot(k.active, j) => \A o \in RetainedUpdates(j) : o.mono <= k.active.mono
  PROVE  Decodes(k)
<1>a. /\ RingSound(j) /\ HandoffSound(j) /\ ActiveSound(j) /\ TimesSound(j)
      /\ LastIsCounted(j) /\ Covering(Applied(j), RingFull(j), j.restart)
  BY DecodesParts
<1>b. /\ Filled(k) = Filled(j) /\ Retained(k) = Retained(j)
      /\ RetainedUpdates(k) = RetainedUpdates(j)
      /\ RingFull(k) <=> RingFull(j)
  BY SameRing DEF RetainedUpdates
<1>c. \A o \in Retained(j) : o.id # j.active.id
  BY <1>a DEF ActiveSound
<1>d. j.active.id # j.restart.last /\ j.handoff = None
  BY <1>a DEF LastIsCounted, Records, HandoffSound
<1>e. k.active # None
  BY NoneAssumption
<1>f. k.active.slot \in Slots
  BY DEF Operations
<1>1. RingSound(k)
  BY <1>a, <1>b, <1>e DEF RingSound
<1>2. HandoffSound(k)
  BY <1>d DEF HandoffSound
<1>3. ActiveSound(k)
  <2>1. k.terminals[k.active.slot] # k.active
    BY <1>c, <1>e, <1>f DEF Retained, Filled
  <2> QED BY <2>1, <1>a, <1>b, <1>c DEF ActiveSound
<1>4. TimesSound(k)
  BY <1>b, <1>d DEF TimesSound, ThisBoot
<1>5. LastIsCounted(k)
  BY <1>a, <1>b, <1>d DEF LastIsCounted, Counted, Records
<1>6. Applied(k) = Applied(j)
  BY <1>b, <1>d DEF Applied
<1>7. Covering(Applied(k), RingFull(k), k.restart)
  BY <1>a, <1>b, <1>6, FillingCovers
<1> QED BY <1>1, <1>2, <1>3, <1>4, <1>5, <1>7, DecodesParts
(* complete_journal_terminal applies the guidance of the active update.    *)
LEMMA AppliedDecodes ==
  ASSUME NEW j \in Journals, NEW k \in Journals, Decodes(j),
         j.active # None, Terminal(j.active), Counted(j, j.active),
         j.restart.last # j.active.id,
         k.cursor = j.cursor, k.active = j.active, k.handoff = j.handoff,
         k.terminals = j.terminals,
         NEW s \in 0 .. ClockMax,
         k.restart = Relogged(WithContribution(j.restart, j.active), s),
         \A o \in RetainedUpdates(j) \ {j.active} : o.mono < j.active.mono,
         j.restart.sessionCutoff <= j.active.mono,
         j.restart.applicationCutoff <= j.active.mono
  PROVE  Decodes(k)
<1> DEFINE op == j.active
           q == WithContribution(j.restart, op)
<1>a. /\ RingSound(j) /\ HandoffSound(j) /\ ActiveSound(j) /\ TimesSound(j)
      /\ LastIsCounted(j) /\ Covering(Applied(j), RingFull(j), j.restart)
  BY DecodesParts
<1>b. /\ Filled(k) = Filled(j) /\ Retained(k) = Retained(j) /\ Records(k) = Records(j)
      /\ RingFull(k) <=> RingFull(j)
  BY SameRing DEF Records
<1>c. \A o \in Retained(j) : o.id # op.id
  BY <1>a DEF ActiveSound, Counted
<1>d. j.handoff = None
  BY <1>a, <1>c, HandedResult DEF HandoffSound
<1>e. op \in Operations /\ op.id # None /\ op.mono > 0
  <2>1. op \in Operations /\ op.id # None
    BY RecordTypes
  <2>2. op.mono # 0
    BY <1>a DEF ActiveSound, WellFormed, Timed, Counted
  <2> QED BY <2>1, <2>2 DEF Operations
<1>f. q \in Restarts
  BY <1>e, ContributionType DEF Journals
<1>g. q.boot = j.restart.boot /\ q.last = op.id
  BY DEF WithContribution, Journals, Restarts
<1>h. k.restart.boot = j.restart.boot /\ k.restart.last = op.id
  BY <1>f, <1>g, ReloggedFields
<1>i. RetainedUpdates(k) = RetainedUpdates(j)
  BY <1>b, <1>h DEF RetainedUpdates
<1>1. RingSound(k)
  BY <1>a, <1>b DEF RingSound
<1>2. HandoffSound(k)
  BY <1>d DEF HandoffSound
<1>3. ActiveSound(k)
  BY <1>a, <1>b, <1>h DEF ActiveSound, Counted
<1>4. TimesSound(k)
  BY <1>a, <1>d, <1>h, <1>i DEF TimesSound, ThisBoot
<1>5. LastIsCounted(k)
  BY <1>b, <1>c, <1>h DEF LastIsCounted, Counted, Records
<1>6. Applied(j) = RetainedUpdates(j)
  BY DEF Applied
<1>7. Applied(k) = Applied(j) \cup {op}
  BY <1>6, <1>h, <1>i DEF Applied, Counted
<1>8. Covering(Applied(k), RingFull(k), q)
  <2>1. \A o \in Applied(j) : o.id # op.id /\ o.mono < op.mono
    BY <1>6, <1>c DEF RetainedUpdates
  <2>2. j.restart \in Restarts /\ Applied(j) \in SUBSET Operations
    BY RecordTypes DEF Journals
  <2>3. Covering(Applied(j) \cup {op}, RingFull(j), q)
    BY <2>1, <2>2, <1>a, <1>e, ContributionCovers
  <2> QED BY <2>3, <1>7, <1>b, FillingCovers
<1>9. Covering(Applied(k), RingFull(k), k.restart)
  BY <1>8, <1>f, ReloggedCovers
<1> QED BY <1>1, <1>2, <1>3, <1>4, <1>5, <1>9, DecodesParts

(* complete_journal_terminal files the active operation in its slot.       *)
LEMMA FiledDecodes ==
  ASSUME NEW j \in Journals, NEW k \in Journals, Decodes(j),
         j.active # None, Terminal(j.active),
         j.terminals[j.active.slot] # j.active,
         k.cursor = j.cursor, k.active = j.active, k.handoff = j.handoff,
         k.restart = j.restart,
         k.terminals = [j.terminals EXCEPT ![j.active.slot] = j.active],
         Counted(j, j.active) => j.restart.last = j.active.id,
         j.terminals[j.active.slot] # None =>
           /\ RingFull(j)
           /\ j.terminals[j.active.slot].id = j.restart.last =>
                RetainedUpdates(j) \subseteq {j.terminals[j.active.slot]}
  PROVE  Decodes(k)
<1> DEFINE op == j.active
           old == j.terminals[op.slot]
<1>a. /\ RingSound(j) /\ HandoffSound(j) /\ ActiveSound(j) /\ TimesSound(j)
      /\ LastIsCounted(j) /\ Covering(Applied(j), RingFull(j), j.restart)
  BY DecodesParts
<1>b. op \in Operations /\ op.slot \in Slots /\ op.id # None
  BY RecordTypes DEF Operations
<1>c. /\ \A s \in Slots : k.terminals[s] = IF s = op.slot THEN op ELSE j.terminals[s]
      /\ \A s \in Slots : s \in Filled(k) <=> s \in Filled(j) \/ s = op.slot
      /\ Filled(j) \subseteq Slots /\ Filled(k) \subseteq Slots
  <2>1. \A s \in Slots : k.terminals[s] = IF s = op.slot THEN op ELSE j.terminals[s]
    BY <1>b DEF Journals
  <2> QED BY <2>1 DEF Filled
<1>d. \A o \in Retained(j) : o.id # op.id
  BY <1>a DEF ActiveSound
<1>e. j.handoff = None
  BY <1>a, <1>d, HandedResult DEF HandoffSound
<1>f. /\ \A o : o \in Retained(k) => o = op \/ o \in Retained(j)
      /\ op \in Retained(k)
      /\ \A o \in Retained(j) : o # old => o \in Retained(k)
      /\ old \notin Retained(k)
  <2>1. \A o : o \in Retained(k) => o = op \/ o \in Retained(j)
    BY <1>c DEF Retained, Filled
  <2>2. op \in Retained(k)
    BY <1>b, <1>c DEF Retained
  <2>3. \A o \in Retained(j) : o # old => o \in Retained(k)
    BY <1>c DEF Retained, Filled
  <2>4. old \notin Retained(k)
    BY <1>a, <1>b, <1>c DEF Retained, Filled, RingSound
  <2> QED BY <2>1, <2>2, <2>3, <2>4
<1>1. RingSound(k)
  <2>1. WellFormed(op)
    BY <1>a DEF ActiveSound
  <2>2. \A s \in Filled(k) : /\ WellFormed(k.terminals[s])
                             /\ Terminal(k.terminals[s])
                             /\ k.terminals[s].slot = s
    BY <2>1, <1>a, <1>c DEF RingSound
  <2>3. \A s \in Filled(j) : j.terminals[s].id # op.id
    BY <1>d DEF Retained
  <2>4. \A s, t \in Filled(k) : s # t => k.terminals[s].id # k.terminals[t].id
    BY <2>3, <1>a, <1>c DEF RingSound
  <2> QED BY <2>2, <2>4 DEF RingSound
<1>2. HandoffSound(k)
  BY <1>e DEF HandoffSound
<1>3. ActiveSound(k)
  BY <1>a, <1>b, <1>c DEF ActiveSound, Counted
<1>g. \A o : o \in RetainedUpdates(k) => o = op \/ o \in RetainedUpdates(j)
  BY <1>f DEF RetainedUpdates
<1>4. TimesSound(k)
  BY <1>a, <1>e, <1>g DEF TimesSound, ThisBoot
<1>5. LastIsCounted(k)
  BY <1>a, <1>f DEF LastIsCounted, Counted, Records
<1>6. Applied(k) \in SUBSET Applied(j)
  <2>1. Counted(j, op) => op \in Applied(j)
    BY DEF Applied, Counted
  <2>2. \A o \in RetainedUpdates(k) : o \in Applied(j)
    BY <2>1, <1>g DEF Applied, RetainedUpdates, Counted
  <2> QED BY <2>2 DEF Applied
<1>7. \A o \in Applied(j) : o # old => o \in Applied(k)
  BY <1>f DEF Applied, RetainedUpdates
<1>8. CASE old = None
  <2>1. old \notin Applied(j)
    BY <1>8, RecordTypes, NoneAssumption
  <2>2. Applied(k) = Applied(j)
    BY <2>1, <1>6, <1>7
  <2>3. RingFull(j) => RingFull(k)
    BY <1>c DEF RingFull
  <2>4. Covering(Applied(k), RingFull(k), k.restart)
    BY <2>2, <2>3, <1>a, FillingCovers
  <2> QED BY <1>1, <1>2, <1>3, <1>4, <1>5, <2>4, DecodesParts
<1>9. CASE old # None
  <2>1. RingFull(k) = TRUE
    BY <1>9, <1>b, <1>c DEF RingFull
  <2>2. (\A m \in Applied(k) : m.id # k.restart.last) => Applied(k) = {}
    <3>1. SUFFICES ASSUME \A m \in Applied(k) : m.id # k.restart.last PROVE Applied(k) = {}
      OBVIOUS
    <3>2. (\A m \in Applied(j) : m.id # j.restart.last) => Applied(j) = {}
      BY <1>a DEF Covering, LastCovers
    <3>3. CASE Applied(j) = {}
      BY <3>3, <1>6
    <3>4. CASE \E m \in Applied(j) : m.id = j.restart.last
      <4>1. old.id = j.restart.last /\ old \in Applied(j)
        BY <3>1, <3>4, <1>7
      <4>2. RetainedUpdates(j) \subseteq {old}
        BY <4>1, <1>9
      <4>3. op \notin Applied(k)
        <5>1. old \in Retained(j)
          BY <1>9, <1>b DEF Retained, Filled
        <5>2. op.id # j.restart.last
          BY <5>1, <4>1, <1>d
        <5> QED BY <5>2, <1>d DEF Applied, Counted, RetainedUpdates
      <4>4. \A o \in Applied(k) : o \in RetainedUpdates(k)
        BY <4>3 DEF Applied
      <4> QED BY <4>2, <4>3, <4>4, <1>f, <1>g DEF RetainedUpdates
    <3> QED BY <3>2, <3>3, <3>4
  <2>3. Covering(Applied(k), TRUE, k.restart)
    BY <2>2, <1>6, <1>a, OverwritingCovers
  <2>4. Covering(Applied(k), RingFull(k), k.restart)
    BY <2>1, <2>3
  <2> QED BY <1>1, <1>2, <1>3, <1>4, <1>5, <2>4, DecodesParts
<1> QED BY <1>8, <1>9
(* complete_journal_terminal moves the cursor past the slot.               *)
LEMMA MovedDecodes ==
  ASSUME NEW j \in Journals, NEW k \in Journals, Decodes(j), j.active # None,
         j.handoff # None => j.handoff = Handoff(j.active),
         k.cursor = After(j.active.slot), k.active = j.active, k.handoff = j.handoff,
         k.terminals = j.terminals, k.restart = j.restart
  PROVE  Decodes(k)
<1>a. /\ RingSound(j) /\ HandoffSound(j) /\ ActiveSound(j) /\ TimesSound(j)
      /\ LastIsCounted(j) /\ Covering(Applied(j), RingFull(j), j.restart)
  BY DecodesParts
<1>b. /\ Filled(k) = Filled(j) /\ Retained(k) = Retained(j) /\ Records(k) = Records(j)
      /\ RingFull(k) <=> RingFull(j)
      /\ RetainedUpdates(k) = RetainedUpdates(j) /\ Applied(k) = Applied(j)
  BY SameRing DEF Records, RetainedUpdates, Applied
<1>1. RingSound(k)
  BY <1>a, <1>b DEF RingSound
<1>2. HandoffSound(k)
  BY <1>a DEF HandoffSound, Handoff
<1>3. ActiveSound(k) /\ TimesSound(k) /\ LastIsCounted(k)
  BY <1>a, <1>b DEF ActiveSound, TimesSound, ThisBoot, LastIsCounted, Counted
<1>4. Covering(Applied(k), RingFull(k), k.restart)
  BY <1>a, <1>b, FillingCovers
<1> QED BY <1>1, <1>2, <1>3, <1>4, DecodesParts

(* complete_journal_terminal hands the filed result to the client.         *)
LEMMA HandedDecodes ==
  ASSUME NEW j \in Journals, NEW k \in Journals, Decodes(j),
         j.active # None, Terminal(j.active), j.terminals[j.active.slot] = j.active,
         j.cursor = After(j.active.slot),
         k.handoff = Handoff(j.active),
         k.cursor = j.cursor, k.active = j.active, k.terminals = j.terminals, k.restart = j.restart
  PROVE  Decodes(k)
<1>a. /\ RingSound(j) /\ HandoffSound(j) /\ ActiveSound(j) /\ TimesSound(j)
      /\ LastIsCounted(j) /\ Covering(Applied(j), RingFull(j), j.restart)
  BY DecodesParts
<1>b. /\ Filled(k) = Filled(j) /\ Retained(k) = Retained(j) /\ Records(k) = Records(j)
      /\ RingFull(k) <=> RingFull(j)
      /\ RetainedUpdates(k) = RetainedUpdates(j) /\ Applied(k) = Applied(j)
  BY SameRing DEF Records, RetainedUpdates, Applied
<1>c. k.handoff.id = j.active.id /\ k.handoff.slot = j.active.slot
  BY DEF Handoff
<1>1. RingSound(k)
  BY <1>a, <1>b DEF RingSound
<1>2. HandoffSound(k)
  BY <1>a, <1>c DEF HandoffSound, ActiveSound
<1>3. TimesSound(k)
  BY <1>a, <1>b, <1>c DEF TimesSound, ThisBoot
<1>4. ActiveSound(k) /\ LastIsCounted(k)
  BY <1>a, <1>b DEF ActiveSound, LastIsCounted, Counted
<1>5. Covering(Applied(k), RingFull(k), k.restart)
  BY <1>a, <1>b, FillingCovers
<1> QED BY <1>1, <1>2, <1>3, <1>4, <1>5, DecodesParts

(* complete_journal_terminal empties the active path.                      *)
LEMMA ClearedDecodes ==
  ASSUME NEW j \in Journals, NEW k \in Journals, Decodes(j),
         j.active # None, j.handoff # None, j.terminals[j.active.slot] = j.active,
         k.active = None,
         k.cursor = j.cursor, k.handoff = j.handoff, k.terminals = j.terminals, k.restart = j.restart
  PROVE  Decodes(k)
<1>a. /\ RingSound(j) /\ HandoffSound(j) /\ ActiveSound(j) /\ TimesSound(j)
      /\ LastIsCounted(j) /\ Covering(Applied(j), RingFull(j), j.restart)
  BY DecodesParts
<1>b. /\ Filled(k) = Filled(j) /\ Retained(k) = Retained(j)
      /\ RingFull(k) <=> RingFull(j)
      /\ RetainedUpdates(k) = RetainedUpdates(j)
  BY SameRing DEF RetainedUpdates
<1>c. j.active \in Retained(j)
  <2>1. j.active.slot \in Slots
    BY RecordTypes DEF Operations
  <2> QED BY <2>1 DEF Retained, Filled
<1>1. RingSound(k)
  BY <1>a, <1>b DEF RingSound
<1>2. HandoffSound(k) /\ ActiveSound(k)
  BY <1>a DEF HandoffSound, ActiveSound
<1>3. TimesSound(k)
  BY <1>a, <1>b DEF TimesSound, ThisBoot
<1>4. LastIsCounted(k)
  BY <1>a, <1>b DEF LastIsCounted, Counted, Records
<1>5. Applied(k) = Applied(j)
  BY <1>b, <1>c DEF Applied, RetainedUpdates
<1>6. Covering(Applied(k), RingFull(k), k.restart)
  BY <1>a, <1>b, <1>5, FillingCovers
<1> QED BY <1>1, <1>2, <1>3, <1>4, <1>6, DecodesParts

(* acknowledge_journal_handoff.                                            *)
LEMMA AcknowledgedDecodes ==
  ASSUME NEW j \in Journals, NEW k \in Journals, Decodes(j),
         j.active = None, j.handoff # None, k.handoff = None,
         k.cursor = j.cursor, k.active = j.active, k.terminals = j.terminals, k.restart = j.restart
  PROVE  Decodes(k)
<1>a. /\ RingSound(j) /\ HandoffSound(j) /\ ActiveSound(j) /\ TimesSound(j)
      /\ LastIsCounted(j) /\ Covering(Applied(j), RingFull(j), j.restart)
  BY DecodesParts
<1>b. /\ Filled(k) = Filled(j) /\ Retained(k) = Retained(j) /\ Records(k) = Records(j)
      /\ RingFull(k) <=> RingFull(j)
      /\ RetainedUpdates(k) = RetainedUpdates(j) /\ Applied(k) = Applied(j)
  BY SameRing DEF Records, RetainedUpdates, Applied
<1>1. Cardinality(Filled(k)) = 1 => \A s \in Filled(k) : k.cursor = After(s)
  <2>1. SUFFICES ASSUME Cardinality(Filled(j)) = 1, NEW s \in Filled(j) PROVE j.cursor = After(s)
    BY <1>b
  <2>2. IsFiniteSet(Filled(j))
    <3>1. IsFiniteSet(Slots)
      BY RingAssumption, FS_Interval DEF Slots
    <3> QED BY <3>1, FS_Subset DEF Filled
  <2>3. PICK t : Filled(j) = {t}
    BY <2>1, <2>2, FS_Singleton
  <2>4. j.handoff.slot = s
    BY <2>3, <1>a, HandedResult
  <2> QED BY <2>4, <1>a DEF HandoffSound
<1>2. RingSound(k)
  BY <1>1, <1>a, <1>b DEF RingSound
<1>3. HandoffSound(k) /\ ActiveSound(k) /\ TimesSound(k)
  BY DEF HandoffSound, ActiveSound, TimesSound
<1>4. LastIsCounted(k)
  BY <1>a, <1>b DEF LastIsCounted, Counted
<1>5. Covering(Applied(k), RingFull(k), k.restart)
  BY <1>a, <1>b, FillingCovers
<1> QED BY <1>2, <1>3, <1>4, <1>5, DecodesParts
-----------------------------------------------------------------------------
(* The steps.                                                              *)

LEMMA Facts ==
  ASSUME DInv
  PROVE  /\ TypeOK /\ CompletionInv /\ JournalInv
         /\ journal \in Journals
         /\ journal.restart \in Restarts /\ journal.restart.boot \in Boots
         /\ journal.cursor \in Slots
         /\ journal.active # None => journal.active \in Operations /\ journal.active.slot \in Slots
         /\ boot \in Boots /\ now \in Times /\ since \in 0 .. ClockMax
         /\ Boots \subseteq Nat /\ Times \subseteq Nat /\ Slots \subseteq Nat
<1>1. TypeOK /\ CompletionInv /\ JournalInv
  BY DEF DInv, IInv
<1>2. Boots \subseteq Nat /\ Times \subseteq Nat /\ Slots \subseteq Nat
  BY RingAssumption, BoundAssumption DEF Boots, Times, Slots
<1>3. journal \in Journals
  BY <1>1, JournalType
<1>4. /\ journal.restart \in Restarts /\ journal.restart.boot \in Boots
      /\ journal.cursor \in Slots
      /\ journal.active # None => journal.active \in Operations /\ journal.active.slot \in Slots
  BY <1>3 DEF Journals, Restarts, Operations
<1> QED BY <1>1, <1>2, <1>3, <1>4 DEF TypeOK

(* An operation that is not decided yet is nowhere in the ring.            *)
LEMMA UndecidedIsUnfiled ==
  ASSUME NEW j \in Journals, Decodes(j), j.active # None, ~ Terminal(j.active)
  PROVE  /\ \A o \in Retained(j) : o.id # j.active.id
         /\ j.active.id # j.restart.last
         /\ j.handoff = None
<1>1. HandoffSound(j) /\ ActiveSound(j) /\ LastIsCounted(j)
  BY DecodesParts
<1> QED BY <1>1 DEF HandoffSound, ActiveSound, LastIsCounted, Records

(* The ring's place and order, while its slots are left alone.             *)
LEMMA RingKept ==
  ASSUME DInv, journal' \in Journals, journal'.terminals = journal.terminals, At' = At,
         \/ journal'.restart.boot = journal.restart.boot /\ journal'.restart.last = journal.restart.last
         \/ \A o \in Retained(journal) : o.id # journal'.restart.last
  PROVE  RingInv' /\ OrderInv'
<1>1. RingInv /\ OrderInv
  BY Facts DEF JournalInv
<1>2. /\ Filled(journal') = Filled(journal) /\ Retained(journal') = Retained(journal)
      /\ RingFull(journal') <=> RingFull(journal)
  BY SameRing
<1>3. RingInv'
  BY <1>1, <1>2 DEF RingInv
<1>4. OrderInv'
  <2>1. CASE journal'.restart.boot = journal.restart.boot /\ journal'.restart.last = journal.restart.last
    BY <2>1, <1>1, <1>2 DEF OrderInv, LastIsNewest, Counted
  <2>2. CASE \A o \in Retained(journal) : o.id # journal'.restart.last
    BY <2>2, <1>2 DEF OrderInv, LastIsNewest, Retained
  <2> QED BY <2>1, <2>2
<1> QED BY <1>3, <1>4

LEMMA BeginKeeps ==
  ASSUME DInv, TypeOK', NEW kind \in Kinds, NEW id \in Ids, Begin(kind, id)
  PROVE  JournalInv'
<1> DEFINE op == journal'.active
<1>a. /\ TypeOK /\ JournalInv /\ journal \in Journals
      /\ journal.restart \in Restarts /\ journal.restart.boot \in Boots /\ journal.cursor \in Slots
      /\ boot \in Boots /\ now \in Times /\ since \in 0 .. ClockMax
      /\ Boots \subseteq Nat /\ Times \subseteq Nat
  BY Facts
<1>b. journal' \in Journals
  BY DEF TypeOK, Journals
<1>c. /\ journal'.cursor = journal.cursor /\ journal'.restart = journal.restart
      /\ journal'.handoff = journal.handoff /\ journal'.terminals = journal.terminals
      /\ journal.active = None /\ journal.handoff = None
      /\ op.id = id /\ op.kind = kind /\ op.state = "pending"
      /\ op.system = 0 /\ op.session = 0 /\ op.application = FALSE
      /\ op.boot = (IF kind = "update" THEN boot ELSE 0) /\ op.mono = 0 /\ op.slot = journal.cursor
      /\ step' = "idle" /\ step = "idle" /\ since' = now /\ now' = now /\ boot' = boot
      /\ kind # "native" => journal.restart.boot = boot
      /\ id # journal.restart.last
  BY <1>a DEF Begin, Admissible, Fresh, Commit, Journals
<1>d. \A o \in Retained(journal) : o.id # id
  BY DEF Begin, Fresh
<1>e. op \in Operations /\ op # None
  BY BeginsPending, <1>a, NoneAssumption
<1>f. ~ Terminal(op)
  BY <1>c DEF Terminal, TerminalStates
<1>1. Decodes(journal')
  <2>1. WellFormed(op)
    <3>1. boot # 0
      BY <1>a DEF Boots
    <3> QED BY <3>1, <1>c, <1>e, <1>f DEF WellFormed
  <2>2. op.kind = "update" => op.boot = journal.restart.boot
    BY <1>c
  <2> QED BY <1>a, <1>b, <1>c, <1>d, <1>e, <1>f, <2>1, <2>2, BegunDecodes DEF JournalInv
<1>g. Retained(journal') = Retained(journal) /\ RetainedUpdates(journal') = RetainedUpdates(journal)
  BY <1>c, SameRing DEF RetainedUpdates
<1>2. BootInv'
  <2>1. op.boot <= journal.restart.boot
    <3>1. boot \in Nat /\ journal.restart.boot \in Nat
      BY <1>a
    <3>2. CASE kind = "update"
      BY <3>1, <3>2, <1>c
    <3>3. CASE kind # "update"
      BY <3>1, <3>3, <1>c
    <3> QED BY <3>2, <3>3
  <2> QED BY <2>1, <1>a, <1>c, <1>g DEF JournalInv, BootInv, Records
<1>3. AppliedInTime' /\ PlaceInv'
  BY <1>c DEF AppliedInTime, PlaceInv
<1>4. RingInv' /\ OrderInv'
  <2>1. ~ Filed'
    BY <1>a, <1>c, <1>d, <1>e DEF Filed, Retained, Filled
  <2>2. At' = At
    BY <2>1, <1>c DEF At
  <2> QED BY <2>2, <1>b, <1>c, RingKept
<1>5. ClockInv'
  <2>1. since' <= now'
    BY <1>a, <1>c
  <2>2. journal'.restart.boot = boot' => KnownBy(journal', now')
    BY <1>a, <1>c, <1>g DEF JournalInv, ClockInv, KnownBy
  <2> QED BY <2>1, <2>2, <1>c, <1>f DEF ClockInv
<1> QED BY <1>1, <1>2, <1>3, <1>4, <1>5 DEF JournalInv

LEMMA AdvancesKeeps == ASSUME DInv, TypeOK', Advances PROVE JournalInv'
<1>a. /\ TypeOK /\ JournalInv /\ journal \in Journals
      /\ journal.restart \in Restarts /\ journal.restart.boot \in Boots /\ journal.cursor \in Slots
      /\ journal.active # None => journal.active \in Operations /\ journal.active.slot \in Slots
      /\ boot \in Boots /\ now \in Times /\ since \in 0 .. ClockMax
      /\ Times \subseteq Nat
  BY Facts
<1>b. journal' \in Journals
  BY DEF TypeOK, Journals
<1>1. PICK state \in States, mono \in since + 1 .. now, recovering \in BOOLEAN,
           system \in SystemLevels, session \in SessionLevels, application \in Applications :
             Advance(Following(state, system, session, application, mono), recovering)
  BY Zenon DEF Advances
<1> DEFINE op == Following(state, system, session, application, mono)
<1>c. /\ step = "idle" /\ journal.active # None /\ ~ Terminal(journal.active)
      /\ Terminal(op) /\ Timed(op) => journal.restart.boot = boot
      /\ WellFormed(op) /\ op \in Operations /\ op # None
      /\ Decodes([journal EXCEPT !.active = op])
      /\ journal' = [journal EXCEPT !.active = op]
      /\ UNCHANGED <<step, boot, now, since>>
  BY <1>1, NoneAssumption DEF Advance, Legal, WellFormed, Commit
<1>d. /\ op.id = journal.active.id /\ op.kind = journal.active.kind
      /\ op.boot = journal.active.boot /\ op.slot = journal.active.slot
      /\ op.state = state
      /\ op.mono = IF state \in TerminalStates /\ Timed(journal.active) THEN mono ELSE 0
  BY <1>a, <1>c DEF Following, Operations
<1>e. /\ journal'.cursor = journal.cursor /\ journal'.restart = journal.restart
      /\ journal'.handoff = journal.handoff /\ journal'.terminals = journal.terminals
      /\ journal'.active = op
  BY <1>a, <1>c DEF Journals
<1> HIDE DEF op
<1>f. Retained(journal') = Retained(journal) /\ RetainedUpdates(journal') = RetainedUpdates(journal)
  BY <1>e, SameRing DEF RetainedUpdates
<1>g. \A o \in Retained(journal) : o.id # op.id
  BY <1>a, <1>c, <1>d, UndecidedIsUnfiled DEF JournalInv
<1>h. ~ Filed /\ ~ Filed'
  BY <1>a, <1>c, <1>d, <1>e, <1>g DEF Filed, Retained, Filled
<1>2. Decodes(journal')
  BY <1>c
<1>3. BootInv'
  BY <1>a, <1>c, <1>d, <1>e, <1>f DEF JournalInv, BootInv, Records
<1>4. AppliedInTime' /\ PlaceInv'
  BY <1>a, <1>c, <1>d, <1>e, <1>h DEF JournalInv, AppliedInTime, PlaceInv
<1>5. RingInv' /\ OrderInv'
  <2>1. At' = At
    BY <1>e, <1>h DEF At
  <2> QED BY <2>1, <1>b, <1>e, RingKept
<1>6. ClockInv'
  <2>1. since' <= now' /\ (journal'.restart.boot = boot' => KnownBy(journal', now'))
    BY <1>a, <1>c, <1>e, <1>f DEF JournalInv, ClockInv, KnownBy
  <2>2. journal.restart.boot = boot => KnownBy(journal, since)
    BY <1>a, <1>c DEF JournalInv, ClockInv
  <2>3. journal'.restart.boot = boot' => KnownBy(journal', since')
    BY <2>2, <1>c, <1>e, <1>f DEF KnownBy
  <2>4. ASSUME Terminal(op), op.kind = "update", op.boot = boot
        PROVE  /\ op.mono <= now
               /\ KnownBy(journal, op.mono)
               /\ \A o \in RetainedUpdates(journal) : o.mono < op.mono
    <3>1. Timed(op) /\ Timed(journal.active) /\ state \in TerminalStates
      BY <2>4, <1>d DEF Timed, Terminal
    <3>2. op.mono = mono /\ mono \in since + 1 .. now /\ journal.restart.boot = boot
      BY <2>4, <3>1, <1>c, <1>d
    <3>3. \A o \in RetainedUpdates(journal) : o.mono \in Nat
      BY <1>a, RecordTypes DEF Operations
    <3>4. since < op.mono /\ op.mono <= now /\ op.mono \in Int /\ since \in Int
      BY <3>2, <1>a
    <3>5. journal.restart.sessionCutoff \in Nat /\ journal.restart.applicationCutoff \in Nat
      BY <1>a DEF Restarts
    <3>6. KnownBy(journal, since)
      BY <3>2, <2>2
    <3> QED BY <3>3, <3>4, <3>5, <3>6 DEF KnownBy
  <2>5. Terminal(op) /\ op.kind = "update" /\ op.boot = boot => KnownBy(journal', op.mono)
    BY <2>4, <1>e, <1>f DEF KnownBy
  <2> QED BY <2>1, <2>3, <2>4, <2>5, <1>c, <1>e, <1>f DEF ClockInv, Updating
<1> QED BY <1>2, <1>3, <1>4, <1>5, <1>6 DEF JournalInv
(* What pruning the guidance disturbs, whoever prunes it.                  *)
LEMMA PruningKeeps ==
  ASSUME DInv, TypeOK', NEW s \in Evidence,
         Commit("restart", Pruned(journal.restart, s)), UNCHANGED <<boot, now, since>>
  PROVE  /\ Decodes(journal') /\ BootInv' /\ RingInv' /\ OrderInv' /\ ClockInv'
         /\ journal'.restart.boot = boot
         /\ journal'.cursor = journal.cursor /\ journal'.active = journal.active
         /\ journal'.handoff = journal.handoff /\ journal'.terminals = journal.terminals
<1>a. /\ TypeOK /\ JournalInv /\ journal \in Journals
      /\ journal.restart \in Restarts /\ journal.restart.boot \in Boots
      /\ journal.active # None => journal.active \in Operations
      /\ boot \in Boots /\ now \in Times /\ since \in 0 .. ClockMax
      /\ Boots \subseteq Nat /\ Times \subseteq Nat
  BY Facts
<1>b. journal' \in Journals
  BY DEF TypeOK, Journals
<1>c. /\ journal'.cursor = journal.cursor /\ journal'.active = journal.active
      /\ journal'.handoff = journal.handoff /\ journal'.terminals = journal.terminals
      /\ journal'.restart = Pruned(journal.restart, s)
  BY <1>a DEF Commit, Journals
<1>d. /\ journal.restart.boot <= boot
      /\ \A o \in Records(journal) : o.boot <= journal.restart.boot
  BY <1>a DEF JournalInv, BootInv
<1>e. /\ Retained(journal') = Retained(journal) /\ Records(journal') = Records(journal)
      /\ Retained(journal) \subseteq Records(journal) /\ Records(journal) \subseteq Operations
  BY <1>a, <1>c, SameRing, RecordTypes DEF Records
<1>f. s \in 0 .. ClockMax
  BY <1>a, EvidenceType
<1> DEFINE q == Relogged(journal.restart, s)
<1>h. /\ q.boot = journal.restart.boot /\ q.last = journal.restart.last
      /\ q.sessionCutoff \in {0, journal.restart.sessionCutoff}
      /\ q.applicationCutoff \in {0, journal.restart.applicationCutoff}
  BY <1>a, <1>f, ReloggedFields
<1> HIDE DEF q
<1>g. /\ journal'.restart.boot = boot
      /\ journal.restart.boot # boot => journal'.restart = AllClear(boot)
      /\ journal.restart.boot = boot =>
           journal'.restart = q /\ journal'.restart.last = journal.restart.last
  <2>1. AllClear(boot).boot = boot
    BY DEF AllClear
  <2> QED BY <2>1, <1>c, <1>h DEF Pruned, q
<1>1. Decodes(journal')
  BY <1>a, <1>b, <1>c, <1>d, <1>f, PrunedDecodes DEF JournalInv
<1>2. BootInv'
  <2>1. \A o \in Records(journal) : o.boot \in Nat
    BY <1>a, <1>e DEF Operations
  <2>2. \A o \in Records(journal) : o.boot <= boot
    BY <2>1, <1>a, <1>d
  <2> QED BY <2>2, <1>a, <1>e, <1>g DEF BootInv
<1>3. RingInv' /\ OrderInv'
  <2>1. At' = At
    BY <1>c DEF At, Filed
  <2>2. CASE journal.restart.boot = boot
    BY <2>1, <2>2, <1>b, <1>c, <1>g, RingKept
  <2>3. CASE journal.restart.boot # boot
    <3>1. journal'.restart.last = None
      BY <2>3, <1>g DEF AllClear
    <3>2. \A o \in Retained(journal) : o.id # None
      BY <1>a, RecordTypes
    <3> QED BY <2>1, <3>1, <3>2, <1>b, <1>c, RingKept
  <2> QED BY <2>2, <2>3
<1>4. ClockInv'
  <2>1. CASE journal.restart.boot = boot
    <3>1. RetainedUpdates(journal') = RetainedUpdates(journal)
      BY <2>1, <1>e, <1>g DEF RetainedUpdates
    <3>2. ASSUME NEW time \in Nat, KnownBy(journal, time) PROVE KnownBy(journal', time)
      BY <2>1, <3>1, <3>2, <1>g, <1>h DEF KnownBy
    <3>3. journal.active # None => journal.active.mono \in Nat
      BY <1>a DEF Operations
    <3>4. now \in Nat /\ since \in Nat
      BY <1>a
    <3>5. ClockInv
      BY <1>a DEF JournalInv
    <3> QED BY <2>1, <3>1, <3>2, <3>3, <3>4, <3>5, <1>c, <1>g DEF ClockInv, Updating
  <2>2. CASE journal.restart.boot # boot
    <3>1. RetainedUpdates(journal') = {}
      <4>1. boot \in Nat /\ journal.restart.boot \in Nat
        BY <1>a DEF Boots
      <4>2. \A o \in Records(journal) : o.boot \in Nat
        BY <1>e DEF Operations
      <4>3. \A o \in Retained(journal') : o.boot # boot
        BY <2>2, <1>d, <1>e, <4>1, <4>2
      <4> QED BY <1>g, <4>3 DEF RetainedUpdates
    <3>2. \A time \in Nat : KnownBy(journal', time)
      BY <2>2, <3>1, <1>g DEF KnownBy, AllClear
    <3>3. journal.active # None => journal.active.boot # boot
      <4>1. boot \in Nat /\ journal.restart.boot \in Nat
        BY <1>a DEF Boots
      <4>2. journal.active # None => /\ journal.active.boot \in Nat
                                     /\ journal.active.boot <= journal.restart.boot
        BY <1>a, <1>d DEF Records, Operations
      <4> QED BY <2>2, <4>1, <4>2, <1>d
    <3>4. since <= now /\ now \in Nat /\ since \in Nat
      BY <1>a DEF JournalInv, ClockInv
    <3> QED BY <3>1, <3>2, <3>3, <3>4, <1>c DEF ClockInv, Updating
  <2> QED BY <2>1, <2>2
<1> QED BY <1>1, <1>2, <1>3, <1>4, <1>c, <1>g

LEMMA PruneKeeps == ASSUME DInv, TypeOK', NEW s \in Evidence, Prune(s) PROVE JournalInv'
<1>1. /\ Decodes(journal') /\ BootInv' /\ RingInv' /\ OrderInv' /\ ClockInv'
      /\ journal'.cursor = journal.cursor /\ journal'.active = journal.active
      /\ journal'.terminals = journal.terminals
  BY PruningKeeps DEF Prune
<1>2. step = "idle" /\ step' = "idle"
  BY DEF Prune
<1>3. AppliedInTime' /\ PlaceInv'
  BY <1>1, <1>2, Facts DEF JournalInv, AppliedInTime, PlaceInv, Filed
<1> QED BY <1>1, <1>3 DEF JournalInv

LEMMA CompleteStartKeeps ==
  ASSUME DInv, TypeOK', NEW s \in Evidence, CompleteStart(s) PROVE JournalInv'
<1>a. JournalInv /\ journal.active # None
  BY Facts DEF CompleteStart
<1>1. CASE journal.active.kind = "update"
  <2>1. /\ step' = "apply" /\ UNCHANGED <<boot, now, since>>
        /\ Commit("restart", Pruned(journal.restart, s))
    BY <1>1 DEF CompleteStart, Running
  <2>2. /\ Decodes(journal') /\ BootInv' /\ RingInv' /\ OrderInv' /\ ClockInv'
        /\ journal'.restart.boot = boot
        /\ journal'.cursor = journal.cursor /\ journal'.active = journal.active
        /\ journal'.terminals = journal.terminals
    BY <2>1, PruningKeeps
  <2>3. AppliedInTime' /\ PlaceInv'
    BY <2>1, <2>2, <1>a DEF JournalInv, AppliedInTime, PlaceInv, Filed
  <2> QED BY <2>2, <2>3 DEF JournalInv
<1>2. CASE journal.active.kind # "update"
  <2>1. step' = "terminal" /\ UNCHANGED <<journal, boot, now, since>>
    BY <1>2 DEF CompleteStart, Running
  <2>2. Decodes(journal') /\ BootInv' /\ RingInv' /\ OrderInv' /\ ClockInv'
    BY <2>1, <1>a DEF JournalInv, BootInv, RingInv, OrderInv, ClockInv, At, Filed, Updating
  <2>3. AppliedInTime' /\ PlaceInv'
    BY <1>2, <2>1, <1>a DEF JournalInv, AppliedInTime, PlaceInv, Filed, Updating
  <2> QED BY <2>2, <2>3 DEF JournalInv
<1> QED BY <1>1, <1>2

LEMMA CompleteApplyKeeps == ASSUME DInv, TypeOK', CompleteApply PROVE JournalInv'
<1> DEFINE op == journal.active
<1>a. /\ TypeOK /\ CompletionInv /\ JournalInv /\ journal \in Journals
      /\ journal.restart \in Restarts /\ boot \in Boots
      /\ now \in Times /\ since \in 0 .. ClockMax /\ Times \subseteq Nat
  BY Facts
<1>b. journal' \in Journals
  BY DEF TypeOK, Journals
<1>c. /\ step = "apply" /\ step' = "terminal" /\ UNCHANGED <<boot, now, since>>
      /\ login \in 0 .. ClockMax
      /\ op # None /\ Terminal(op)
  BY <1>a DEF CompleteApply, Running, CompletionInv, Completing, TypeOK
<1>d. op \in Operations
  BY <1>a, <1>c, Facts
<1>1. CASE ~ (op.boot = boot /\ journal.restart.last # op.id)
  <2>1. UNCHANGED journal
    BY <1>1 DEF CompleteApply
  <2>2. Decodes(journal') /\ BootInv' /\ RingInv' /\ OrderInv' /\ ClockInv'
    BY <2>1, <1>a, <1>c DEF JournalInv, BootInv, RingInv, OrderInv, ClockInv, At, Filed, Updating
  <2>3. AppliedInTime' /\ PlaceInv'
    BY <1>1, <2>1, <1>a, <1>c DEF JournalInv, AppliedInTime, PlaceInv, Filed, Updating
  <2> QED BY <2>2, <2>3 DEF JournalInv
<1>2. CASE op.boot = boot /\ journal.restart.last # op.id
  <2>a. /\ journal'.cursor = journal.cursor /\ journal'.active = op
        /\ journal'.handoff = journal.handoff /\ journal'.terminals = journal.terminals
        /\ journal'.restart = Relogged(WithContribution(journal.restart, op), login)
    BY <1>2, <1>a DEF CompleteApply, Commit, Reapplied, Journals
  <2>b. HandoffSound(journal) /\ ActiveSound(journal)
    BY <1>a, DecodesParts DEF JournalInv
  <2>c. op.kind = "update"
    BY <1>2, <1>a, <1>c, <2>b DEF ActiveSound, WellFormed, Boots
  <2>d. Counted(journal, op) /\ journal.restart.boot = boot
    BY <1>2, <1>a, <1>c, <2>c DEF Counted, JournalInv, AppliedInTime, Updating
  <2>e. /\ op.mono <= now
        /\ KnownBy(journal, op.mono)
        /\ \A o \in RetainedUpdates(journal) \ {op} : o.mono < op.mono
    BY <1>2, <1>a, <1>c, <2>c DEF JournalInv, ClockInv, Updating
  <2>f. WithContribution(journal.restart, op) \in Restarts
    BY <1>a, <1>d, ContributionType
  <2>g. /\ journal'.restart.boot = journal.restart.boot /\ journal'.restart.last = op.id
        /\ journal'.restart.sessionCutoff \in {0, op.mono, journal.restart.sessionCutoff}
        /\ journal'.restart.applicationCutoff \in {0, op.mono, journal.restart.applicationCutoff}
    <3> DEFINE q == WithContribution(journal.restart, op)
    <3>1. /\ q.boot = journal.restart.boot /\ q.last = op.id
          /\ q.sessionCutoff \in {op.mono, journal.restart.sessionCutoff}
          /\ q.applicationCutoff \in {op.mono, journal.restart.applicationCutoff}
      BY <1>a DEF WithContribution, Restarts
    <3>2. q \in Restarts /\ journal'.restart = Relogged(q, login)
      BY <2>a, <2>f
    <3> HIDE DEF q
    <3>3. /\ Relogged(q, login).boot = q.boot /\ Relogged(q, login).last = q.last
          /\ Relogged(q, login).sessionCutoff \in {0, q.sessionCutoff}
          /\ Relogged(q, login).applicationCutoff \in {0, q.applicationCutoff}
      BY <3>2, <1>c, ReloggedFields
    <3> QED BY <3>1, <3>2, <3>3
  <2>h. \A o \in Retained(journal) : o.id # op.id
    BY <1>2, <1>c, <2>b, <2>d DEF ActiveSound, Counted
  <2>i. /\ Retained(journal') = Retained(journal) /\ Records(journal') = Records(journal)
        /\ RetainedUpdates(journal') = RetainedUpdates(journal)
    BY <2>a, <2>g, SameRing DEF Records, RetainedUpdates
  <2>1. Decodes(journal')
    BY <1>2, <1>a, <1>b, <1>c, <2>a, <2>d, <2>e, AppliedDecodes DEF JournalInv, KnownBy
  <2>2. BootInv'
    BY <1>a, <1>c, <2>g, <2>i DEF JournalInv, BootInv
  <2>3. AppliedInTime' /\ PlaceInv'
    BY <1>a, <1>c, <2>a, <2>d, <2>g DEF JournalInv, AppliedInTime, PlaceInv, Filed, Updating
  <2>4. RingInv' /\ OrderInv'
    <3>1. At' = At
      BY <2>a DEF At, Filed
    <3> QED BY <3>1, <1>b, <2>a, <2>g, <2>h, RingKept
  <2>5. ClockInv'
    <3>1. op.mono \in Nat /\ now \in Nat
      BY <1>a, <1>d DEF Operations
    <3>2. KnownBy(journal', op.mono)
      BY <3>1, <2>e, <2>g, <2>i DEF KnownBy
    <3>3. KnownBy(journal', now)
      BY <3>1, <2>d, <2>e, <2>g, <2>i, <1>a DEF KnownBy, JournalInv, ClockInv
    <3>4. since <= now
      BY <1>a DEF JournalInv, ClockInv
    <3> QED BY <3>2, <3>3, <3>4, <1>c, <2>a, <2>e, <2>i DEF ClockInv
  <2> QED BY <2>1, <2>2, <2>3, <2>4, <2>5 DEF JournalInv
<1> QED BY <1>1, <1>2
(* Filing moves every other result one rank nearer to being overwritten.   *)
LEMMA RankMoves ==
  ASSUME NEW slot \in Slots, NEW s \in Slots
  PROVE  /\ Rank(s, slot) \in Nat /\ Rank(slot, slot) = 0
         /\ Rank(slot, After(slot)) = N - 1
         /\ s # slot => Rank(s, After(slot)) = Rank(s, slot) - 1 /\ Rank(s, slot) \in 1 .. N - 1
         /\ After(slot) = IF slot = N - 1 THEN 0 ELSE slot + 1
<1>1. N \in Nat /\ N > 1 /\ slot \in 0 .. N - 1 /\ s \in 0 .. N - 1
  BY RingAssumption DEF Slots
<1>2. After(slot) = IF slot = N - 1 THEN 0 ELSE slot + 1
  BY <1>1 DEF After
<1> QED BY <1>1, <1>2 DEF Rank

LEMMA CompleteTerminalKeeps == ASSUME DInv, TypeOK', CompleteTerminal PROVE JournalInv'
<1> DEFINE op == journal.active
           old == journal.terminals[op.slot]
<1>a. /\ TypeOK /\ CompletionInv /\ JournalInv /\ journal \in Journals
      /\ journal.restart \in Restarts /\ journal.cursor \in Slots
      /\ Slots \subseteq Nat
  BY Facts
<1>b. journal' \in Journals
  BY DEF TypeOK, Journals
<1>c. /\ step = "terminal" /\ step' = "cursor" /\ UNCHANGED <<boot, now, since>>
      /\ op # None /\ Terminal(op)
      /\ journal' = [journal EXCEPT !.terminals = [journal.terminals EXCEPT ![op.slot] = op]]
  BY <1>a DEF CompleteTerminal, Running, Commit, CompletionInv, Completing
<1>d. op \in Operations /\ op.slot \in Slots /\ op.id # None
  BY <1>a, <1>c, Facts, RecordTypes
<1>e. /\ journal'.cursor = journal.cursor /\ journal'.active = op
      /\ journal'.handoff = journal.handoff /\ journal'.restart = journal.restart
      /\ journal'.terminals = [journal.terminals EXCEPT ![op.slot] = op]
      /\ \A s \in Slots : journal'.terminals[s] = IF s = op.slot THEN op ELSE journal.terminals[s]
  BY <1>a, <1>c, <1>d DEF Journals
<1>1. CASE Filed
  <2>1. journal'.terminals = journal.terminals
    BY <1>1, <1>a, <1>e DEF Filed, Journals
  <2>2. UNCHANGED journal
    BY <2>1, <1>a, <1>c DEF Journals
  <2>3. Decodes(journal') /\ BootInv' /\ RingInv' /\ OrderInv' /\ ClockInv'
    BY <2>2, <1>a, <1>c DEF JournalInv, BootInv, RingInv, OrderInv, ClockInv, At, Filed, Updating
  <2>4. AppliedInTime' /\ PlaceInv'
    BY <2>2, <1>a, <1>c DEF JournalInv, AppliedInTime, PlaceInv, Filed, Updating
  <2> QED BY <2>3, <2>4 DEF JournalInv
<1>2. CASE ~ Filed
  <2>a. /\ journal.cursor = op.slot /\ At = op.slot
        /\ Filed' /\ At' = After(op.slot)
    BY <1>2, <1>a, <1>c, <1>d, <1>e DEF JournalInv, PlaceInv, At, Filed
  <2>b. ActiveSound(journal) /\ RingSound(journal) /\ LastIsCounted(journal)
    BY <1>a, DecodesParts DEF JournalInv
  <2>c. \A o \in Retained(journal) : o.id # op.id
    BY <1>2, <1>c, <2>b DEF ActiveSound, Filed
  <2>d. Counted(journal, op) => journal.restart.last = op.id
    BY <1>a, <1>c DEF Counted, JournalInv, AppliedInTime, Updating
  <2>e. /\ \A s \in Slots : s \in Filled(journal') <=> s \in Filled(journal) \/ s = op.slot
        /\ Filled(journal) \subseteq Slots /\ Filled(journal') \subseteq Slots
    BY <1>c, <1>e DEF Filled
  <2>f. op.slot \in Filled(journal) => RingFull(journal)
    <3>1. op.slot \in Nat
      BY <1>a, <1>d, Zenon
    <3>2. ~ op.slot < op.slot
      BY <3>1
    <3> QED BY <3>2, <1>a, <1>d, <2>a DEF JournalInv, RingInv
  <2>g. /\ \A o : o \in Retained(journal') => o = op \/ o \in Retained(journal)
        /\ \A o : o \in RetainedUpdates(journal') => o = op \/ o \in RetainedUpdates(journal)
    <3>1. \A o : o \in Retained(journal') => o = op \/ o \in Retained(journal)
      BY <1>e, <2>e DEF Retained, Filled
    <3> QED BY <3>1, <1>e DEF RetainedUpdates
  <2>1. Decodes(journal')
    <3>1. ASSUME old # None, old.id = journal.restart.last
          PROVE  RetainedUpdates(journal) \subseteq {old}
      <4>1. SUFFICES ASSUME NEW t \in Filled(journal), Counted(journal, journal.terminals[t]), t # op.slot
                     PROVE  FALSE
        BY DEF RetainedUpdates, Retained, Counted
      <4>2. Rank(t, op.slot) < Rank(op.slot, op.slot)
        BY <3>1, <4>1, <1>a, <1>d, <2>a DEF JournalInv, OrderInv, LastIsNewest, Filled
      <4> QED BY <4>1, <4>2, <1>d, <2>e, RankMoves
    <3>2. old # None => RingFull(journal)
      BY <1>d, <2>f DEF Filled
    <3> QED BY <1>2, <1>a, <1>b, <1>c, <1>e, <2>d, <3>1, <3>2, FiledDecodes DEF JournalInv, Filed
  <2>2. BootInv'
    BY <1>a, <1>c, <1>e, <2>g DEF JournalInv, BootInv, Records
  <2>3. AppliedInTime' /\ PlaceInv'
    BY <1>a, <1>c, <1>e, <2>a DEF JournalInv, AppliedInTime, PlaceInv, Updating
  <2>4. RingInv'
    <3>1. CASE RingFull(journal)
      BY <3>1, <2>e DEF RingInv, RingFull
    <3>2. CASE ~ RingFull(journal)
      <4>1. \A s \in Slots : s \in Filled(journal') <=> s < op.slot \/ s = op.slot
        BY <3>2, <1>a, <2>a, <2>e DEF JournalInv, RingInv
      <4>2. At' = IF op.slot = N - 1 THEN 0 ELSE op.slot + 1
        BY <2>a, <1>d, RankMoves
      <4>3. CASE op.slot = N - 1
        <5>1. \A s \in Slots : s < op.slot \/ s = op.slot
          BY <4>3, RingAssumption DEF Slots
        <5> QED BY <5>1, <4>1, <2>e DEF RingInv, RingFull
      <4>4. CASE op.slot # N - 1
        <5>1. \A s \in Slots : (s < op.slot \/ s = op.slot) <=> s < op.slot + 1
          BY <1>d DEF Slots
        <5> QED BY <5>1, <4>1, <4>2, <4>4 DEF RingInv
      <4> QED BY <4>3, <4>4
    <3> QED BY <3>1, <3>2
  <2>5. OrderInv'
    <3>1. SUFFICES ASSUME NEW s \in Filled(journal'), NEW t \in Filled(journal'), s # t,
                          journal'.terminals[s].id = journal'.restart.last,
                          Counted(journal', journal'.terminals[t])
                   PROVE  Rank(t, After(op.slot)) < Rank(s, After(op.slot))
      BY <2>a DEF OrderInv, LastIsNewest
    <3>2. s \in Slots /\ t \in Slots
      BY <2>e
    <3>3. CASE s = op.slot
      <4>1. /\ Rank(s, After(op.slot)) = N - 1
            /\ Rank(t, After(op.slot)) = Rank(t, op.slot) - 1 /\ Rank(t, op.slot) \in 1 .. N - 1
        BY <3>1, <3>2, <3>3, RankMoves
      <4> QED BY <4>1, RingAssumption
    <3>4. CASE t = op.slot
      <4>1. journal.restart.last = op.id
        BY <3>1, <3>2, <3>4, <1>e, <2>d DEF Counted
      <4>2. journal.terminals[s] \in Retained(journal) /\ journal.terminals[s].id = op.id
        BY <4>1, <3>1, <3>2, <3>4, <1>e, <2>e DEF Retained
      <4> QED BY <4>2, <2>c
    <3>5. CASE s # op.slot /\ t # op.slot
      <4>1. Rank(t, op.slot) < Rank(s, op.slot)
        BY <3>1, <3>2, <3>5, <1>a, <1>e, <2>a, <2>e DEF JournalInv, OrderInv, LastIsNewest, Counted
      <4>2. /\ Rank(s, After(op.slot)) = Rank(s, op.slot) - 1 /\ Rank(s, op.slot) \in 1 .. N - 1
            /\ Rank(t, After(op.slot)) = Rank(t, op.slot) - 1 /\ Rank(t, op.slot) \in 1 .. N - 1
        BY <3>2, <3>5, <1>d, RankMoves
      <4> QED BY <4>1, <4>2, RingAssumption
    <3> QED BY <3>3, <3>4, <3>5
  <2>6. ClockInv'
    <3>1. Counted(journal, op) =>
            /\ Updating /\ op.boot = journal.restart.boot
      BY <1>c DEF Counted, Updating
    <3>2. \A o \in RetainedUpdates(journal') : o \in RetainedUpdates(journal) \/ (o = op /\ Counted(journal, op))
      BY <2>g, <1>e DEF RetainedUpdates, Counted
    <3>3. journal.restart.boot = boot => KnownBy(journal', now)
      BY <3>1, <3>2, <1>a, <1>c, <1>e DEF KnownBy, JournalInv, ClockInv
    <3>4. op.mono <= op.mono
      BY <1>d DEF Operations
    <3>5. KnownBy(journal, op.mono) => KnownBy(journal', op.mono)
      BY <3>2, <3>4, <1>e DEF KnownBy
    <3> QED BY <3>2, <3>3, <3>5, <1>a, <1>c, <1>e DEF JournalInv, ClockInv, Updating
  <2> QED BY <2>1, <2>2, <2>3, <2>4, <2>5, <2>6 DEF JournalInv
<1> QED BY <1>1, <1>2

(* A commit of the cursor, the handoff or the active path leaves the ring, *)
(* the guidance and the clock alone.                                       *)
LEMMA ClosingKeeps ==
  ASSUME DInv, journal' \in Journals, journal'.active \in {journal.active, None},
         journal'.terminals = journal.terminals, journal'.restart = journal.restart, At' = At,
         UNCHANGED <<boot, now, since>>
  PROVE  BootInv' /\ RingInv' /\ OrderInv' /\ ClockInv'
<1>a. JournalInv
  BY Facts
<1>1. Retained(journal') = Retained(journal) /\ RetainedUpdates(journal') = RetainedUpdates(journal)
  BY SameRing DEF RetainedUpdates
<1>2. \A o \in Records(journal') : o \in Records(journal)
  BY <1>1 DEF Records
<1>3. BootInv'
  BY <1>2, <1>a DEF JournalInv, BootInv
<1>4. RingInv' /\ OrderInv'
  BY RingKept
<1>5. ClockInv'
  BY <1>1, <1>a DEF JournalInv, ClockInv, KnownBy, Updating
<1> QED BY <1>3, <1>4, <1>5

LEMMA CompleteCursorKeeps == ASSUME DInv, TypeOK', CompleteCursor PROVE JournalInv'
<1>a. /\ CompletionInv /\ JournalInv /\ journal \in Journals
  BY Facts
<1>b. journal' \in Journals
  BY DEF TypeOK, Journals
<1>c. /\ step = "cursor" /\ step' = "handoff" /\ UNCHANGED <<boot, now, since>>
      /\ journal.active # None /\ Filed
      /\ journal'.cursor = After(journal.active.slot) /\ journal'.active = journal.active
      /\ journal'.handoff = journal.handoff /\ journal'.terminals = journal.terminals
      /\ journal'.restart = journal.restart
      /\ journal.handoff # None => journal.handoff = Handoff(journal.active)
  BY <1>a DEF CompleteCursor, Running, Commit, Journals,
              CompletionInv, Completing, FiledInTime, HandoffIsActive
<1>1. Decodes(journal')
  BY <1>a, <1>b, <1>c, MovedDecodes DEF JournalInv
<1>2. At' = At /\ Filed'
  BY <1>c DEF At, Filed
<1>3. AppliedInTime' /\ PlaceInv'
  BY <1>2, <1>a, <1>c DEF JournalInv, AppliedInTime, PlaceInv, Updating
<1> QED BY <1>1, <1>2, <1>3, <1>b, <1>c, ClosingKeeps DEF JournalInv

LEMMA CompleteHandoffKeeps == ASSUME DInv, TypeOK', CompleteHandoff PROVE JournalInv'
<1>a. /\ CompletionInv /\ JournalInv /\ journal \in Journals
  BY Facts
<1>b. journal' \in Journals
  BY DEF TypeOK, Journals
<1>c. /\ step = "handoff" /\ step' = "clear" /\ UNCHANGED <<boot, now, since>>
      /\ journal.active # None /\ Terminal(journal.active) /\ Filed
      /\ journal.cursor = After(journal.active.slot)
      /\ journal'.cursor = journal.cursor /\ journal'.active = journal.active
      /\ journal'.handoff = Handoff(journal.active) /\ journal'.terminals = journal.terminals
      /\ journal'.restart = journal.restart
  BY <1>a DEF CompleteHandoff, Running, Commit, Journals,
              CompletionInv, Completing, FiledInTime, JournalInv, PlaceInv
<1>1. Decodes(journal')
  BY <1>a, <1>b, <1>c, HandedDecodes DEF JournalInv, Filed
<1>2. At' = At /\ Filed'
  BY <1>c DEF At, Filed
<1>3. AppliedInTime' /\ PlaceInv'
  BY <1>2, <1>a, <1>c DEF JournalInv, AppliedInTime, PlaceInv, Updating
<1> QED BY <1>1, <1>2, <1>3, <1>b, <1>c, ClosingKeeps DEF JournalInv

LEMMA CompleteClearKeeps == ASSUME DInv, TypeOK', CompleteClear PROVE JournalInv'
<1>a. /\ CompletionInv /\ JournalInv /\ journal \in Journals
  BY Facts
<1>b. journal' \in Journals
  BY DEF TypeOK, Journals
<1>c. /\ step = "clear" /\ step' = "idle" /\ UNCHANGED <<boot, now, since>>
      /\ journal.active # None /\ Filed
      /\ journal.cursor = After(journal.active.slot)
      /\ journal'.cursor = journal.cursor /\ journal'.active = None
      /\ journal'.handoff = journal.handoff /\ journal'.terminals = journal.terminals
      /\ journal'.restart = journal.restart
      /\ journal.handoff = Handoff(journal.active)
  BY <1>a DEF CompleteClear, Running, Commit, Journals,
              CompletionInv, Completing, FiledInTime, HandedInTime, JournalInv, PlaceInv
<1>1. journal.handoff # None
  <2>1. Handoff(journal.active) \in Handoffs
    BY <1>a, <1>c, RecordTypes DEF Handoff, Handoffs, Operations
  <2> QED BY <2>1, <1>c, NoneAssumption
<1>2. Decodes(journal')
  BY <1>1, <1>a, <1>b, <1>c, ClearedDecodes DEF JournalInv, Filed
<1>3. At' = At
  BY <1>c DEF At
<1>4. AppliedInTime' /\ PlaceInv'
  BY <1>c DEF AppliedInTime, PlaceInv
<1> QED BY <1>2, <1>3, <1>4, <1>b, <1>c, ClosingKeeps DEF JournalInv

LEMMA AcknowledgeKeeps ==
  ASSUME DInv, TypeOK', NEW id \in Ids, Acknowledge(id) PROVE JournalInv'
<1>a. JournalInv /\ journal \in Journals
  BY Facts
<1>b. journal' \in Journals
  BY DEF TypeOK, Journals
<1>c. /\ step' = "idle" /\ UNCHANGED <<boot, now, since>>
      /\ journal.active = None /\ journal.handoff # None /\ journal'.handoff = None
      /\ journal'.cursor = journal.cursor /\ journal'.active = journal.active
      /\ journal'.terminals = journal.terminals /\ journal'.restart = journal.restart
  BY <1>a DEF Acknowledge, Commit, Journals
<1>1. Decodes(journal')
  BY <1>a, <1>b, <1>c, AcknowledgedDecodes DEF JournalInv
<1>2. At' = At
  BY <1>c DEF At
<1>3. AppliedInTime' /\ PlaceInv'
  BY <1>c DEF AppliedInTime, PlaceInv
<1> QED BY <1>1, <1>2, <1>3, <1>b, <1>c, ClosingKeeps DEF JournalInv

(* What happens outside the journal: a death, a tick, a login, a reboot.   *)
LEMMA EnvironmentKeeps ==
  ASSUME DInv, Kill \/ Tick \/ Login \/ Reboot \/ UNCHANGED vars
  PROVE  JournalInv'
<1>a. /\ TypeOK /\ JournalInv /\ journal.restart \in Restarts /\ journal \in Journals
      /\ journal.restart.boot \in Boots
      /\ journal.active # None => journal.active \in Operations
      /\ boot \in Boots /\ now \in Times /\ since \in 0 .. ClockMax
      /\ Boots \subseteq Nat /\ Times \subseteq Nat
  BY Facts
<1>1. CASE Kill \/ Login \/ UNCHANGED vars
  <2>1. UNCHANGED <<journal, boot, now, since>> /\ step' \in {step, "idle"}
    BY <1>1 DEF Kill, Login, vars
  <2>2. Decodes(journal') /\ BootInv' /\ RingInv' /\ OrderInv' /\ ClockInv'
    BY <2>1, <1>a DEF JournalInv, BootInv, RingInv, OrderInv, ClockInv, At, Filed, Updating
  <2>3. AppliedInTime' /\ PlaceInv'
    BY <2>1, <1>a DEF JournalInv, AppliedInTime, PlaceInv, Filed, Updating
  <2> QED BY <2>2, <2>3 DEF JournalInv
<1>2. CASE Tick
  <2>1. UNCHANGED <<journal, boot, since, step>> /\ now' = now + 1
    BY <1>2 DEF Tick
  <2>2. Decodes(journal') /\ BootInv' /\ RingInv' /\ OrderInv' /\ AppliedInTime' /\ PlaceInv'
    BY <2>1, <1>a DEF JournalInv, BootInv, RingInv, OrderInv, AppliedInTime, PlaceInv, At, Filed, Updating
  <2>3. ClockInv'
    <3>1. /\ \A o \in RetainedUpdates(journal) : o.mono \in Nat
          /\ journal.active # None => journal.active.mono \in Nat
          /\ journal.restart.sessionCutoff \in Nat /\ journal.restart.applicationCutoff \in Nat
      BY <1>a, RecordTypes DEF Operations, Restarts
    <3>2. now \in Nat /\ since \in Nat
      BY <1>a DEF Times
    <3>3. KnownBy(journal, now) => KnownBy(journal, now + 1)
      BY <3>1, <3>2 DEF KnownBy
    <3>4. Updating => journal.active # None
      BY DEF Updating
    <3>5. since <= now + 1
      BY <3>2, <1>a DEF JournalInv, ClockInv
    <3>6. Updating /\ journal.active.mono <= now => journal.active.mono <= now + 1
      BY <3>1, <3>2, <3>4
    <3> QED BY <2>1, <3>3, <3>5, <3>6, <1>a DEF JournalInv, ClockInv, Updating
  <2> QED BY <2>2, <2>3 DEF JournalInv
<1>3. CASE Reboot
  <2>1. /\ UNCHANGED journal
        /\ boot' = boot + 1 /\ now' = 1 /\ since' = 0 /\ step' = "idle"
    BY <1>3 DEF Reboot
  <2>a. /\ boot \in Nat /\ journal.restart.boot \in Nat
        /\ \A o \in Records(journal) : o.boot \in Nat
    BY <1>a, RecordTypes DEF Boots, Operations
  <2>2. Decodes(journal') /\ RingInv' /\ OrderInv' /\ AppliedInTime' /\ PlaceInv'
    BY <2>1, <1>a DEF JournalInv, RingInv, OrderInv, AppliedInTime, PlaceInv, At, Filed, Updating
  <2>3. BootInv'
    BY <2>1, <2>a, <1>a DEF JournalInv, BootInv, Records, Retained, Filled
  <2>4. ClockInv'
    <3>1. /\ journal.restart.boot # boot + 1
          /\ journal.active # None => journal.active.boot # boot + 1
      BY <2>a, <1>a DEF JournalInv, BootInv, Records
    <3> QED BY <3>1, <2>1 DEF ClockInv, Updating
  <2> QED BY <2>2, <2>3, <2>4 DEF JournalInv
<1> QED BY <1>1, <1>2, <1>3

LEMMA JournalInit == Init => JournalInv
<1> SUFFICES ASSUME Init PROVE JournalInv
  OBVIOUS
<1>a. TypeOK /\ journal \in Journals
  BY TypeInit, JournalType
<1>b. /\ journal.cursor = 0 /\ journal.restart = AllClear(1) /\ journal.active = None
      /\ journal.handoff = None /\ step = "idle" /\ boot = 1 /\ now = 1 /\ since = 0
      /\ \A s \in Slots : journal.terminals[s] = None
  BY DEF Init
<1>c. Filled(journal) = {} /\ Retained(journal) = {}
  BY <1>b DEF Filled, Retained
<1>d. RetainedUpdates(journal) = {} /\ Applied(journal) = {} /\ Records(journal) = {}
  BY <1>b, <1>c DEF RetainedUpdates, Applied, Records
<1>1. Decodes(journal)
  <2>1. RingSound(journal)
    <3>1. Cardinality(Filled(journal)) # 1
      BY <1>c, FS_EmptySet
    <3> QED BY <3>1, <1>c DEF RingSound
  <2>2. HandoffSound(journal) /\ ActiveSound(journal) /\ TimesSound(journal) /\ LastIsCounted(journal)
    BY <1>b, <1>d DEF HandoffSound, ActiveSound, TimesSound, LastIsCounted
  <2>3. Covering(Applied(journal), RingFull(journal), journal.restart)
    BY <1>b, <1>d, ClearCovers
  <2> QED BY <2>1, <2>2, <2>3, <1>a, DecodesParts
<1>2. BootInv /\ AppliedInTime /\ PlaceInv
  BY <1>b, <1>d DEF BootInv, AppliedInTime, PlaceInv, AllClear
<1>3. RingInv /\ OrderInv
  BY <1>b, <1>c, RingAssumption DEF RingInv, OrderInv, LastIsNewest, At, Slots
<1>4. ClockInv
  BY <1>b, <1>d DEF ClockInv, KnownBy, Updating, AllClear
<1> QED BY <1>1, <1>2, <1>3, <1>4 DEF JournalInv

LEMMA JournalStep == DInv /\ [Next]_vars => DInv'
<1> SUFFICES ASSUME DInv, [Next]_vars PROVE DInv'
  OBVIOUS
<1>1. IInv' /\ TypeOK'
  BY TypeStep, CompletionStep DEF DInv, IInv, CompletionInv
<1> SUFFICES JournalInv'
  BY <1>1 DEF DInv
<1>2. ASSUME NEW kind \in Kinds, NEW id \in Ids, Begin(kind, id) PROVE JournalInv'
  BY <1>1, <1>2, BeginKeeps
<1>3. CASE Advances
  BY <1>1, <1>3, AdvancesKeeps
<1>4. ASSUME NEW s \in Evidence, Prune(s) PROVE JournalInv'
  BY <1>1, <1>4, PruneKeeps
<1>5. ASSUME NEW s \in Evidence, CompleteStart(s) PROVE JournalInv'
  BY <1>1, <1>5, CompleteStartKeeps
<1>6. CASE CompleteApply
  BY <1>1, <1>6, CompleteApplyKeeps
<1>7. CASE CompleteTerminal
  BY <1>1, <1>7, CompleteTerminalKeeps
<1>8. CASE CompleteCursor
  BY <1>1, <1>8, CompleteCursorKeeps
<1>9. CASE CompleteHandoff
  BY <1>1, <1>9, CompleteHandoffKeeps
<1>10. CASE CompleteClear
  BY <1>1, <1>10, CompleteClearKeeps
<1>11. ASSUME NEW id \in Ids, Acknowledge(id) PROVE JournalInv'
  BY <1>1, <1>11, AcknowledgeKeeps
<1>12. CASE Kill \/ Tick \/ Login \/ Reboot \/ UNCHANGED vars
  BY <1>12, EnvironmentKeeps
<1> QED BY <1>2, <1>3, <1>4, <1>5, <1>6, <1>7, <1>8, <1>9, <1>10, <1>11, <1>12 DEF Next

LEMMA JournalInvariance == Spec => []DInv
<1>1. Init => DInv
  BY TypeInit, CompletionInit, JournalInit DEF DInv, IInv
<1> QED BY <1>1, JournalStep, PTL DEF Spec

(* Every journal the handlers of operation_journal.py write, for every     *)
(* size of the ring and with any process killed between two commits, is    *)
(* one decode_journal_state accepts: no check of a load ever refuses what  *)
(* the code itself has written, so no user is locked out of updates.       *)
THEOREM JournalsAreReadable == Spec => []JournalDecodes
<1>1. DInv => JournalDecodes
  BY DEF DInv, JournalInv, JournalDecodes
<1> QED BY <1>1, JournalInvariance, PTL
-----------------------------------------------------------------------------
(* Recovery.                                                               *)

LEMMA InterruptedFields ==
  ASSUME DInv, journal.active # None, ~ Terminal(journal.active)
  PROVE  LET op == Interrupted(journal.active) IN
         /\ op \in Operations /\ WellFormed(op) /\ Terminal(op)
         /\ op.id = journal.active.id /\ op.kind = journal.active.kind
         /\ op.boot = journal.active.boot /\ op.slot = journal.active.slot
         /\ op.mono = IF Timed(op) THEN now ELSE 0
         /\ Legal(journal.active, op, op.kind = "update")
<1> DEFINE old == journal.active
           op == Interrupted(old)
<1>a. /\ TypeOK /\ JournalInv /\ journal \in Journals /\ old \in Operations
      /\ boot \in Boots /\ now \in Times
  BY Facts
<1>b. WellFormed(old)
  BY <1>a, DecodesParts DEF JournalInv, ActiveSound
<1>c. boot # 0 /\ now # 0 /\ now \in 0 .. ClockMax /\ 0 \in 0 .. ClockMax
  BY <1>a, SomeTimes DEF Boots, Times
<1>1. /\ op.id = old.id /\ op.kind = old.kind /\ op.boot = old.boot /\ op.slot = old.slot
      /\ op.state = "interrupted"
      /\ op.mono = IF Timed(old) THEN now ELSE 0
      /\ op.system = IF old.kind # "update" \/ old.boot # boot THEN 0 ELSE 1
      /\ op.session = IF old.boot # boot THEN 0 ELSE old.session
      /\ op.application = IF old.boot # boot THEN FALSE ELSE old.application
  BY <1>a DEF Interrupted, Operations
<1>2. op \in Operations
  <2>0. old.session \in 0 .. 2 /\ old.application \in BOOLEAN
    BY <1>a DEF Operations
  <2>1. /\ (IF old.kind # "update" \/ old.boot # boot THEN 0 ELSE 1) \in 0 .. 3
        /\ (IF old.boot # boot THEN 0 ELSE old.session) \in 0 .. 2
        /\ (IF Timed(old) THEN now ELSE 0) \in 0 .. ClockMax
    BY <2>0, <1>c
  <2>3. (IF old.boot # boot THEN FALSE ELSE old.application) \in BOOLEAN
    BY <2>0, Zenon
  <2>2. "interrupted" \in States
    BY StateAssumption
  <2> QED BY <2>1, <2>2, <2>3, <1>a DEF Interrupted, Operations
<1> HIDE DEF op
<1>3. Terminal(op) /\ (Timed(op) <=> Timed(old))
  BY <1>1 DEF Terminal, TerminalStates, Timed
<1>4. WellFormed(op)
  <2>1. IF op.kind = "update" THEN op.boot # 0
        ELSE op.boot = 0 /\ op.system = 0 /\ op.session = 0 /\ ~ op.application
    BY <1>1, <1>b, <1>c DEF WellFormed
  <2>2. (op.mono # 0) <=> (Timed(op) /\ Terminal(op))
    BY <1>1, <1>3, <1>c
  <2> QED BY <2>1, <2>2, <1>2 DEF WellFormed
<1>5. Legal(old, op, op.kind = "update")
  <2>1. op.state # old.state /\ op.state \in Transitions(old.state)
    BY <1>1, <1>3 DEF Terminal, Transitions
  <2>2. ASSUME Weakens(old, op) PROVE op.kind = "update" /\ Replaces(old, op)
    <3>1. CASE op.kind # "update"
      <4>1. op.system = 0 /\ old.system = 0 /\ op.session = 0 /\ old.session = 0 /\ ~ old.application
        BY <3>1, <1>1, <1>b, <1>4 DEF WellFormed
      <4> QED BY <4>1, <2>2 DEF Weakens
    <3>2. CASE op.kind = "update" /\ old.boot # boot
      BY <3>2, <1>1 DEF Replaces, Tuple
    <3>3. CASE op.kind = "update" /\ old.boot = boot
      BY <3>3, <1>1 DEF Replaces, Tuple
    <3> QED BY <3>1, <3>2, <3>3
  <2> QED BY <2>1, <2>2, <1>1, <1>3 DEF Legal
<1> QED BY <1>1, <1>2, <1>3, <1>4, <1>5 DEF op

(* The trial decode of advance_journal_operation never refuses to close an *)
(* undecided operation as interrupted, whatever a crash left in the ring:  *)
(* recovery always has a result it may record.                             *)
THEOREM RecoveryIsPossible == Spec => []RecoveryPossible
<1>1. DInv => RecoveryPossible
  <2> SUFFICES ASSUME DInv, journal.active # None, ~ Terminal(journal.active)
               PROVE  LET op == Interrupted(journal.active) IN
                      /\ Legal(journal.active, op, op.kind = "update")
                      /\ Decodes([journal EXCEPT !.restart = Pruned(@, 0), !.active = op])
    BY DEF RecoveryPossible
  <2> DEFINE op == Interrupted(journal.active)
             p == [journal EXCEPT !.restart = Pruned(@, 0)]
             k == [p EXCEPT !.active = op]
  <2>a. /\ TypeOK /\ JournalInv /\ journal \in Journals /\ journal.restart \in Restarts
        /\ boot \in Boots /\ now \in Times
    BY Facts
  <2>b. /\ op \in Operations /\ WellFormed(op) /\ Terminal(op)
        /\ op.id = journal.active.id /\ op.kind = journal.active.kind
        /\ op.boot = journal.active.boot /\ op.slot = journal.active.slot
        /\ op.mono = IF Timed(op) THEN now ELSE 0
        /\ Legal(journal.active, op, op.kind = "update")
    BY InterruptedFields
  <2>c. Pruned(journal.restart, 0) \in Restarts /\ 0 \in 0 .. ClockMax
    BY <2>a, PrunedType, SomeTimes
  <2>d. /\ p.cursor = journal.cursor /\ p.active = journal.active /\ p.handoff = journal.handoff
        /\ p.terminals = journal.terminals /\ p.restart = Pruned(journal.restart, 0)
        /\ p \in Journals
    BY <2>a, <2>c DEF Journals
  <2> HIDE DEF op
  <2>e. /\ k.cursor = p.cursor /\ k.active = op /\ k.handoff = p.handoff
        /\ k.terminals = p.terminals /\ k.restart = p.restart
        /\ k \in Journals
    BY <2>b, <2>d DEF Journals
  <2>f. k = [journal EXCEPT !.restart = Pruned(@, 0), !.active = op]
    BY <2>a DEF Journals
  <2> HIDE DEF p, k
  <2>1. Decodes(p)
    BY <2>a, <2>c, <2>d, PrunedDecodes DEF JournalInv, BootInv
  <2>2. ThisBoot(op, p) => \A o \in RetainedUpdates(p) : o.mono <= op.mono
    <3>1. SUFFICES ASSUME ThisBoot(op, p), NEW o \in RetainedUpdates(p) PROVE o.mono <= op.mono
      OBVIOUS
    <3>2. op.mono = now
      BY <3>1, <2>b DEF ThisBoot, Timed
    <3>3. journal.restart.boot = boot
      <4>1. SUFFICES ASSUME journal.restart.boot # boot PROVE FALSE
        OBVIOUS
      <4>2. p.restart.boot = boot
        BY <4>1, <2>d DEF Pruned, AllClear
      <4>3. o \in Retained(journal) /\ o.boot = boot
        BY <4>2, <3>1, <2>d, <2>e DEF RetainedUpdates, Retained, Filled
      <4>4. o.boot <= journal.restart.boot /\ journal.restart.boot <= boot
        BY <4>3, <2>a DEF JournalInv, BootInv, Records
      <4>5. boot \in Nat /\ journal.restart.boot \in Nat
        BY <2>a DEF Restarts, Boots
      <4> QED BY <4>1, <4>3, <4>4, <4>5
    <3>4. o \in RetainedUpdates(journal)
      <4>1. p.restart.boot = journal.restart.boot
        BY <3>3, <2>a, <2>c, <2>d, ReloggedFields DEF Pruned
      <4> QED BY <4>1, <3>1, <2>d, <2>e DEF RetainedUpdates, Retained, Filled
    <3> QED BY <3>2, <3>3, <3>4, <2>a DEF JournalInv, ClockInv, KnownBy
  <2>3. Decodes(k)
    BY <2>1, <2>2, <2>b, <2>d, <2>e, ClosedDecodes
  <2> QED BY <2>3, <2>f, <2>b DEF op
<1> QED BY <1>1, JournalInvariance, PTL

-----------------------------------------------------------------------------
(* The inductive invariant of the guidance.                                *)

(* A request made at this time, or 0, that no login seen has satisfied.    *)
Waits(at, seen) == at # 0 /\ ~ \E s \in seen : s > at

(* Guidance r asks for what is owed, less what the logins seen satisfied,  *)
(* and for nothing that was never asked for.                               *)
Settles(r, debt, seen) ==
  /\ r.system = debt.system
  /\ \A l \in Strengths : Waits(debt.levelAt[l], seen) => r.session >= l
  /\ r.session > 0 => debt.levelAt[r.session] # 0 /\ r.sessionCutoff = debt.sessionAt
  /\ Waits(debt.applicationAt, seen) => r.application
  /\ r.application => debt.applicationAt # 0 /\ r.applicationCutoff = debt.applicationAt

(* The last of the debts is this update's, which r does not cover yet; the *)
(* stronger ones in r are no later than the cutoff r has for them.         *)
IsLastDebt(op, debt, r) ==
  /\ op.session > 0 => debt.levelAt[op.session] # 0 /\ debt.sessionAt = op.mono
  /\ op.application => debt.applicationAt # 0 /\ debt.applicationAt = op.mono
  /\ \A l \in Strengths : op.session < l /\ l <= r.session => debt.levelAt[l] <= r.sessionCutoff

(* The requests of each strength are among those of any.                   *)
InOrder(debt) == \A l \in Strengths : debt.levelAt[l] <= debt.sessionAt

(* A decided update whose guidance complete_journal_terminal is still to   *)
(* apply, this time or after a crash.                                      *)
Pending ==
  /\ Updating /\ Terminal(journal.active)
  /\ journal.active.boot = boot
  /\ journal.restart.last # journal.active.id

(* The guidance once it has.                                               *)
Due == IF Pending THEN WithContribution(journal.restart, journal.active) ELSE journal.restart

GuidanceInv ==
  /\ journal.restart.boot = boot => Settles(Due, owed, logins)
  /\ journal.restart.boot # boot => owed = NothingOwed
  /\ Pending => IsLastDebt(journal.active, owed, journal.restart)
  /\ login \in Evidence

(* What is owed was asked for before the operation in progress began.      *)
OwedInTime ==
  /\ InOrder(owed)
  /\ owed.sessionAt <= now
  /\ journal.active # None /\ ~ Terminal(journal.active) => owed.sessionAt <= since

GInv == DInv /\ OwedInTime /\ GuidanceInv

-----------------------------------------------------------------------------
(* What the handlers do to a debt.                                         *)

Debts ==
  [system : 0 .. 3, levelAt : [Strengths -> 0 .. ClockMax],
   sessionAt : 0 .. ClockMax, applicationAt : 0 .. ClockMax]

LEMMA ReloggedValues ==
  ASSUME NEW r \in Restarts, NEW s \in 0 .. ClockMax
  PROVE  /\ Relogged(r, s).boot = r.boot /\ Relogged(r, s).last = r.last
         /\ Relogged(r, s).system = r.system
         /\ Relogged(r, s).session = IF s > r.sessionCutoff THEN 0 ELSE r.session
         /\ Relogged(r, s).sessionCutoff = IF s > r.sessionCutoff THEN 0 ELSE r.sessionCutoff
         /\ Relogged(r, s).application <=> r.application /\ ~ s > r.applicationCutoff
         /\ Relogged(r, s).applicationCutoff =
              IF s > r.applicationCutoff THEN 0 ELSE r.applicationCutoff
  BY DEF Relogged, Restarts

LEMMA ContributionValues ==
  ASSUME NEW r \in Restarts, NEW op \in Operations
  PROVE  /\ WithContribution(r, op).boot = r.boot /\ WithContribution(r, op).last = op.id
         /\ WithContribution(r, op).system = Higher(r.system, op.system)
         /\ WithContribution(r, op).session = Higher(r.session, op.session)
         /\ WithContribution(r, op).sessionCutoff = IF op.session > 0 THEN op.mono ELSE r.sessionCutoff
         /\ WithContribution(r, op).application <=> r.application \/ op.application
         /\ WithContribution(r, op).applicationCutoff =
              IF op.application THEN op.mono ELSE r.applicationCutoff
  BY DEF WithContribution, Restarts

LEMMA RestartNumbers ==
  ASSUME NEW r \in Restarts
  PROVE  /\ r.session \in Nat /\ r.sessionCutoff \in Nat /\ r.applicationCutoff \in Nat
         /\ r.system \in Nat
  BY DEF Restarts

LEMMA DebtNumbers ==
  ASSUME NEW debt \in Debts
  PROVE  /\ \A l \in Strengths : debt.levelAt[l] \in Nat
         /\ debt.sessionAt \in Nat /\ debt.applicationAt \in Nat
  BY DEF Debts

(* A login takes away only what it satisfies.                              *)
LEMMA ReloggedSettles ==
  ASSUME NEW r \in Restarts, NEW debt \in Debts, NEW seen \in SUBSET Times,
         NEW s \in seen \cup {0}, s \in 0 .. ClockMax, InOrder(debt), Settles(r, debt, seen)
  PROVE  Settles(Relogged(r, s), debt, seen)
<1> DEFINE q == Relogged(r, s)
<1>1. /\ q.system = r.system
      /\ q.session = IF s > r.sessionCutoff THEN 0 ELSE r.session
      /\ q.sessionCutoff = IF s > r.sessionCutoff THEN 0 ELSE r.sessionCutoff
      /\ q.application <=> r.application /\ ~ s > r.applicationCutoff
      /\ q.applicationCutoff = IF s > r.applicationCutoff THEN 0 ELSE r.applicationCutoff
  BY ReloggedValues
<1>2. /\ r.session \in Nat /\ r.sessionCutoff \in Nat /\ r.applicationCutoff \in Nat
      /\ s \in Nat /\ debt.sessionAt \in Nat /\ debt.applicationAt \in Nat
      /\ \A l \in Strengths : debt.levelAt[l] \in Nat
  BY RestartNumbers, DebtNumbers
<1>3. /\ s > r.sessionCutoff => s \in seen
      /\ s > r.applicationCutoff => s \in seen
  BY <1>2
<1> HIDE DEF q
<1>4. q.session > 0 => debt.levelAt[q.session] # 0 /\ q.sessionCutoff = debt.sessionAt
  BY <1>1 DEF Settles
<1>5. ASSUME NEW l \in Strengths, Waits(debt.levelAt[l], seen) PROVE q.session >= l
  <2>1. r.session >= l /\ r.session > 0 /\ r.sessionCutoff = debt.sessionAt
    BY <1>2, <1>5 DEF Settles, Strengths
  <2>2. debt.levelAt[l] <= debt.sessionAt
    BY DEF InOrder
  <2>3. ~ s > r.sessionCutoff
    BY <1>2, <1>3, <1>5, <2>1, <2>2 DEF Waits
  <2> QED BY <1>1, <2>1, <2>3
<1>6. q.application => debt.applicationAt # 0 /\ q.applicationCutoff = debt.applicationAt
  BY <1>1 DEF Settles
<1>7. Waits(debt.applicationAt, seen) => q.application
  BY <1>1, <1>3 DEF Settles, Waits
<1> QED BY <1>1, <1>4, <1>5, <1>6, <1>7 DEF Settles, q

(* So too before the guidance of the last update is applied.               *)
LEMMA PendingRelogged ==
  ASSUME NEW r \in Restarts, NEW op \in Operations, NEW debt \in Debts, NEW seen \in SUBSET Times,
         NEW s \in seen \cup {0}, s \in 0 .. ClockMax,
         Settles(WithContribution(r, op), debt, seen), IsLastDebt(op, debt, r)
  PROVE  /\ Settles(WithContribution(Relogged(r, s), op), debt, seen)
         /\ IsLastDebt(op, debt, Relogged(r, s))
<1> DEFINE p == WithContribution(r, op)
           t == Relogged(r, s)
           q == WithContribution(t, op)
<1>1. /\ p.system = Higher(r.system, op.system)
      /\ p.session = Higher(r.session, op.session)
      /\ p.sessionCutoff = IF op.session > 0 THEN op.mono ELSE r.sessionCutoff
      /\ p.application <=> r.application \/ op.application
      /\ p.applicationCutoff = IF op.application THEN op.mono ELSE r.applicationCutoff
  BY ContributionValues
<1>2. t \in Restarts
  BY ReloggedType
<1>3. /\ t.system = r.system
      /\ t.session = IF s > r.sessionCutoff THEN 0 ELSE r.session
      /\ t.sessionCutoff = IF s > r.sessionCutoff THEN 0 ELSE r.sessionCutoff
      /\ t.application <=> r.application /\ ~ s > r.applicationCutoff
      /\ t.applicationCutoff = IF s > r.applicationCutoff THEN 0 ELSE r.applicationCutoff
  BY ReloggedValues
<1> HIDE DEF t
<1>4. /\ q.system = Higher(t.system, op.system)
      /\ q.session = Higher(t.session, op.session)
      /\ q.sessionCutoff = IF op.session > 0 THEN op.mono ELSE t.sessionCutoff
      /\ q.application <=> t.application \/ op.application
      /\ q.applicationCutoff = IF op.application THEN op.mono ELSE t.applicationCutoff
  BY <1>2, ContributionValues
<1>5. /\ r.session \in Nat /\ r.sessionCutoff \in Nat /\ r.applicationCutoff \in Nat
      /\ op.session \in Nat /\ s \in Nat
      /\ \A l \in Strengths : debt.levelAt[l] \in Nat
  BY RestartNumbers, DebtNumbers DEF Operations
<1>6. /\ s > r.sessionCutoff => s \in seen
      /\ s > r.applicationCutoff => s \in seen
  BY <1>5
<1> HIDE DEF p, q
<1>s. /\ p.system = debt.system
      /\ \A l \in Strengths : Waits(debt.levelAt[l], seen) => p.session >= l
      /\ p.session > 0 => debt.levelAt[p.session] # 0 /\ p.sessionCutoff = debt.sessionAt
      /\ Waits(debt.applicationAt, seen) => p.application
      /\ p.application => debt.applicationAt # 0 /\ p.applicationCutoff = debt.applicationAt
  BY DEF Settles, p
<1>7. ASSUME q.session > 0
      PROVE  debt.levelAt[q.session] # 0 /\ q.sessionCutoff = debt.sessionAt
  <2>1. CASE q.session = op.session
    BY <2>1, <1>4, <1>5, <1>7 DEF IsLastDebt
  <2>2. CASE q.session # op.session
    <3>1. q.session = t.session /\ t.session > op.session
      BY <2>2, <1>3, <1>4, <1>5 DEF Higher
    <3>2. t.session = r.session /\ t.sessionCutoff = r.sessionCutoff
      BY <3>1, <1>3, <1>5
    <3>3. p.session = r.session
      BY <3>1, <3>2, <1>1, <1>5 DEF Higher
    <3>4. q.sessionCutoff = p.sessionCutoff
      BY <3>2, <1>1, <1>4
    <3> QED BY <3>1, <3>2, <3>3, <3>4, <1>7, <1>s
  <2> QED BY <2>1, <2>2
<1>8. ASSUME NEW l \in Strengths, Waits(debt.levelAt[l], seen) PROVE q.session >= l
  <2>1. l \in Nat
    BY DEF Strengths
  <2>2. CASE op.session >= l
    BY <2>1, <2>2, <1>3, <1>4, <1>5 DEF Higher
  <2>3. CASE op.session < l
    <3>1. r.session >= l
      BY <2>1, <2>3, <1>1, <1>5, <1>8, <1>s DEF Higher
    <3>2. debt.levelAt[l] <= r.sessionCutoff
      BY <2>1, <2>3, <3>1, <1>5 DEF IsLastDebt
    <3>3. ~ s > r.sessionCutoff
      BY <3>2, <1>5, <1>6, <1>8 DEF Waits
    <3> QED BY <2>1, <2>3, <3>1, <3>3, <1>3, <1>4, <1>5 DEF Higher
  <2> QED BY <2>1, <2>2, <2>3, <1>5
<1>9. /\ q.application => debt.applicationAt # 0 /\ q.applicationCutoff = debt.applicationAt
      /\ Waits(debt.applicationAt, seen) => q.application
  <2>1. CASE op.application
    BY <2>1, <1>4 DEF IsLastDebt
  <2>2. CASE ~ op.application
    BY <2>2, <1>1, <1>3, <1>4, <1>6, <1>s DEF Waits
  <2> QED BY <2>1, <2>2
<1>10. q.system = debt.system
  BY <1>1, <1>3, <1>4, <1>s
<1>11. Settles(q, debt, seen)
  BY <1>7, <1>8, <1>9, <1>10 DEF Settles
<1>12. IsLastDebt(op, debt, t)
  <2>1. ASSUME NEW l \in Strengths, op.session < l, l <= t.session
        PROVE  debt.levelAt[l] <= t.sessionCutoff
    <3>1. l > 0 /\ l \in Nat
      BY DEF Strengths
    <3>2. t.session = r.session /\ t.sessionCutoff = r.sessionCutoff
      BY <2>1, <3>1, <1>3
    <3> QED BY <2>1, <3>2 DEF IsLastDebt
  <2> QED BY <2>1 DEF IsLastDebt
<1> QED BY <1>11, <1>12 DEF q, t

(* A decided update adds to the debt what applying it adds to the guidance. *)
LEMMA OwedSettles ==
  ASSUME TypeOK, NEW r \in Restarts, NEW op \in Operations,
         Terminal(op), op.kind = "update", op.boot = boot, op.mono > owed.sessionAt,
         InOrder(owed), Settles(r, owed, logins)
  PROVE  /\ Settles(WithContribution(r, op), Owe(op), logins)
         /\ IsLastDebt(op, Owe(op), r)
         /\ InOrder(Owe(op))
<1> DEFINE q == WithContribution(r, op)
           debt == Owe(op)
<1>1. /\ q.system = Higher(r.system, op.system)
      /\ q.session = Higher(r.session, op.session)
      /\ q.sessionCutoff = IF op.session > 0 THEN op.mono ELSE r.sessionCutoff
      /\ q.application <=> r.application \/ op.application
      /\ q.applicationCutoff = IF op.application THEN op.mono ELSE r.applicationCutoff
  BY ContributionValues
<1>2. /\ debt.system = Higher(owed.system, op.system)
      /\ \A l \in Strengths :
           debt.levelAt[l] = IF op.session = l THEN op.mono ELSE owed.levelAt[l]
      /\ debt.sessionAt = IF op.session > 0 THEN op.mono ELSE owed.sessionAt
      /\ debt.applicationAt = IF op.application THEN op.mono ELSE owed.applicationAt
  BY DEF Owe
<1>3. /\ r.session \in 0 .. 2 /\ op.session \in 0 .. 2
      /\ op.mono \in Nat /\ owed.sessionAt \in Nat /\ owed.applicationAt \in Nat
      /\ \A l \in Strengths : owed.levelAt[l] \in Nat
  BY DEF Operations, Restarts, TypeOK
<1> HIDE DEF q, debt
<1>s. /\ r.system = owed.system
      /\ \A l \in Strengths : Waits(owed.levelAt[l], logins) => r.session >= l
      /\ r.session > 0 => owed.levelAt[r.session] # 0 /\ r.sessionCutoff = owed.sessionAt
      /\ Waits(owed.applicationAt, logins) => r.application
      /\ r.application => owed.applicationAt # 0 /\ r.applicationCutoff = owed.applicationAt
  BY DEF Settles
<1>4. ASSUME NEW l \in Strengths, Waits(debt.levelAt[l], logins) PROVE q.session >= l
  <2>1. CASE op.session = l
    BY <2>1, <1>1, <1>3 DEF Higher
  <2>2. CASE op.session # l
    <3>1. r.session >= l
      BY <2>2, <1>2, <1>4, <1>s
    <3> QED BY <3>1, <1>1, <1>3 DEF Higher, Strengths
  <2> QED BY <2>1, <2>2
<1>5. ASSUME q.session > 0
      PROVE  debt.levelAt[q.session] # 0 /\ q.sessionCutoff = debt.sessionAt
  <2>1. CASE q.session = op.session
    <3>1. op.session > 0 /\ op.session \in Strengths
      BY <2>1, <1>3, <1>5 DEF Strengths
    <3>2. debt.levelAt[op.session] = op.mono /\ debt.sessionAt = op.mono
      BY <3>1, <1>2
    <3>3. q.sessionCutoff = op.mono
      BY <3>1, <1>1
    <3> QED BY <3>2, <3>3, <2>1, <1>3
  <2>2. CASE q.session # op.session
    <3>1. q.session = r.session /\ r.session > 0 /\ r.session \in Strengths
      BY <2>2, <1>1, <1>3, <1>5 DEF Higher, Strengths
    <3>2. debt.levelAt[r.session] = owed.levelAt[r.session]
      BY <2>2, <3>1, <1>2
    <3>3. q.sessionCutoff = debt.sessionAt
      BY <3>1, <1>1, <1>2, <1>s
    <3> QED BY <3>1, <3>2, <3>3, <1>s
  <2> QED BY <2>1, <2>2
<1>6. /\ q.application => debt.applicationAt # 0 /\ q.applicationCutoff = debt.applicationAt
      /\ Waits(debt.applicationAt, logins) => q.application
  <2>1. CASE op.application
    BY <2>1, <1>1, <1>2, <1>3
  <2>2. CASE ~ op.application
    BY <2>2, <1>1, <1>2, <1>s
  <2> QED BY <2>1, <2>2
<1>7. q.system = debt.system
  BY <1>1, <1>2, <1>s
<1>8. IsLastDebt(op, debt, r)
  <2>1. op.session > 0 => debt.levelAt[op.session] # 0 /\ debt.sessionAt = op.mono
    BY <1>2, <1>3 DEF Strengths
  <2>2. op.application => debt.applicationAt # 0 /\ debt.applicationAt = op.mono
    BY <1>2, <1>3, <1>6, <1>1
  <2>3. ASSUME NEW l \in Strengths, op.session < l, l <= r.session
        PROVE  debt.levelAt[l] <= r.sessionCutoff
    <3>1. debt.levelAt[l] = owed.levelAt[l] /\ r.session > 0
      BY <2>3, <1>2, <1>3 DEF Strengths
    <3> QED BY <3>1, <1>s DEF InOrder
  <2> QED BY <2>1, <2>2, <2>3 DEF IsLastDebt
<1>9. InOrder(debt)
  <2>1. ASSUME NEW l \in Strengths PROVE debt.levelAt[l] <= debt.sessionAt
    <3>1. owed.levelAt[l] <= owed.sessionAt
      BY DEF InOrder
    <3>2. op.session = l => op.session > 0
      BY DEF Strengths
    <3> QED BY <3>1, <3>2, <1>2, <1>3
  <2> QED BY <2>1 DEF InOrder
<1>10. Settles(q, debt, logins)
  BY <1>4, <1>5, <1>6, <1>7 DEF Settles
<1> QED BY <1>8, <1>9, <1>10 DEF q, debt

-----------------------------------------------------------------------------
(* The steps.                                                              *)

LEMMA GuidanceFacts ==
  ASSUME GInv
  PROVE  /\ DInv /\ TypeOK /\ CompletionInv /\ JournalInv /\ OwedInTime /\ GuidanceInv
         /\ journal \in Journals
         /\ journal.restart \in Restarts /\ journal.restart.boot \in Boots
         /\ journal.active # None => journal.active \in Operations
         /\ boot \in Boots
         /\ owed \in Debts
         /\ logins \in SUBSET Times
BY Facts DEF GInv, TypeOK, Debts

(* Requests keep their order: an operation's is later than its admission.  *)
LEMMA OwedStep ==
  ASSUME GInv, [Next]_vars
  PROVE  OwedInTime'
<1>a. /\ OwedInTime /\ TypeOK /\ journal \in Journals /\ owed \in Debts
      /\ now \in Nat /\ since \in Nat /\ owed.sessionAt \in Nat
      /\ \A l \in Strengths : owed.levelAt[l] \in Nat
  BY GuidanceFacts, DebtNumbers DEF TypeOK, Times
<1>1. ASSUME NEW kind \in Kinds, NEW id \in Ids, Begin(kind, id) PROVE OwedInTime'
  BY <1>1, <1>a DEF Begin, OwedInTime
<1>2. CASE Advances
  <2>1. PICK state \in States, mono \in since + 1 .. now, recovering \in BOOLEAN,
             system \in SystemLevels, session \in SessionLevels, application \in Applications :
               Advance(Following(state, system, session, application, mono), recovering)
    BY <1>2, Zenon DEF Advances
  <2> DEFINE op == Following(state, system, session, application, mono)
  <2>2. /\ journal' = [journal EXCEPT !.active = op] /\ owed' = Owe(op)
        /\ op \in Operations /\ journal.active # None /\ ~ Terminal(journal.active)
        /\ journal.active \in Operations
        /\ now' = now /\ since' = since
    BY <2>1, GuidanceFacts DEF Advance, Legal, WellFormed, Commit
  <2>3. journal'.active = op
    BY <2>2, <1>a DEF Journals
  <2>4. Terminal(op) /\ op.kind = "update" => op.mono = mono
    BY <2>2 DEF Following, Operations, Terminal, Timed
  <2>5. mono \in Nat /\ mono > since /\ mono <= now /\ owed.sessionAt <= since
    BY <2>2, <1>a DEF OwedInTime
  <2> HIDE DEF op
  <2>6. CASE ~ (Terminal(op) /\ op.kind = "update" /\ op.boot = boot)
    <3>1. owed' = owed
      BY <2>2, <2>6 DEF Owe
    <3> QED BY <3>1, <2>2, <2>5, <1>a DEF OwedInTime
  <2>7. CASE Terminal(op) /\ op.kind = "update" /\ op.boot = boot
    <3>1. /\ \A l \in Strengths :
               owed'.levelAt[l] = IF op.session = l THEN op.mono ELSE owed.levelAt[l]
          /\ owed'.sessionAt = IF op.session > 0 THEN op.mono ELSE owed.sessionAt
      BY <2>2, <2>7 DEF Owe
    <3>2. ASSUME NEW l \in Strengths PROVE owed'.levelAt[l] <= owed'.sessionAt
      <4>1. owed.levelAt[l] <= owed.sessionAt
        BY <1>a DEF OwedInTime, InOrder
      <4>2. op.session = l => op.session > 0
        BY DEF Strengths
      <4> QED BY <4>1, <4>2, <3>1, <2>4, <2>5, <2>7, <1>a
    <3>3. owed'.sessionAt <= now
      BY <3>1, <2>4, <2>5, <2>7, <1>a DEF OwedInTime
    <3> QED BY <3>2, <3>3, <2>2, <2>3, <2>7 DEF OwedInTime, InOrder
  <2> QED BY <2>6, <2>7
<1>3. CASE Reboot
  BY <1>3, <1>a, SomeTimes DEF Reboot, NothingOwed, OwedInTime, InOrder
<1>4. CASE /\ UNCHANGED <<owed, since>> /\ now' \in {now, now + 1}
           /\ journal'.active \in {journal.active, None}
  BY <1>4, <1>a DEF OwedInTime
<1>5. ASSUME NEW s \in Evidence, Prune(s) PROVE OwedInTime'
  BY <1>5, <1>4, <1>a DEF Prune, Commit, Journals
<1>6. ASSUME NEW s \in Evidence, CompleteStart(s) PROVE OwedInTime'
  BY <1>6, <1>4, <1>a DEF CompleteStart, Running, Commit, Journals
<1>7. CASE CompleteApply \/ CompleteTerminal \/ CompleteCursor \/ CompleteHandoff \/ CompleteClear
  <2>1. journal'.active \in {journal.active, None}
    BY <1>7, <1>a DEF CompleteApply, CompleteTerminal, CompleteCursor, CompleteHandoff,
                      CompleteClear, Commit, Journals
  <2>2. UNCHANGED <<owed, since, now>>
    BY <1>7 DEF CompleteApply, CompleteTerminal, CompleteCursor, CompleteHandoff,
                CompleteClear, Running
  <2> QED BY <2>1, <2>2, <1>4
<1>8. ASSUME NEW id \in Ids, Acknowledge(id) PROVE OwedInTime'
  BY <1>8, <1>4, <1>a DEF Acknowledge, Commit, Journals
<1>9. CASE Kill \/ Tick \/ Login \/ UNCHANGED vars
  BY <1>9, <1>4 DEF Kill, Tick, Login, vars
<1> QED BY <1>1, <1>2, <1>3, <1>5, <1>6, <1>7, <1>8, <1>9 DEF Next

LEMMA EarlierBoot ==
  ASSUME GInv, journal.restart.boot # boot
  PROVE  /\ journal.active # None => journal.active.boot # boot
         /\ ~ Pending
<1>1. /\ journal.restart.boot <= boot
      /\ \A o \in Records(journal) : o.boot <= journal.restart.boot
      /\ journal.restart.boot \in Nat /\ boot \in Nat
  BY GuidanceFacts DEF JournalInv, BootInv, Boots
<1>2. journal.active # None => journal.active.boot # boot
  BY <1>1 DEF Records
<1> QED BY <1>2 DEF Pending, Updating

(* Steps that touch neither the guidance nor the active record.            *)
LEMMA GuidanceUntouched ==
  ASSUME GInv, journal'.restart = journal.restart, journal'.active = journal.active,
         UNCHANGED <<boot, owed, logins>>, login' \in {login, 0}
  PROVE  GuidanceInv'
<1>1. GuidanceInv
  BY GuidanceFacts
<1>2. (Pending' <=> Pending) /\ Due' = Due
  BY DEF Pending, Updating, Due
<1> QED BY <1>1, <1>2 DEF GuidanceInv, Evidence

(* Pruning the guidance, alone or as a completion begins.                  *)
LEMMA GuidancePruned ==
  ASSUME GInv, NEW s \in Evidence, Commit("restart", Pruned(journal.restart, s)),
         UNCHANGED <<boot, owed, logins>>, login' \in {login, s}
  PROVE  GuidanceInv'
<1>a. /\ GuidanceInv /\ OwedInTime /\ TypeOK /\ journal \in Journals
      /\ journal.restart \in Restarts
      /\ journal.active # None => journal.active \in Operations
      /\ owed \in Debts /\ logins \in SUBSET Times
  BY GuidanceFacts
<1>b. journal'.restart = Pruned(journal.restart, s) /\ journal'.active = journal.active
  BY <1>a DEF Commit, Journals
<1>c. s \in logins \cup {0} /\ s \in 0 .. ClockMax /\ login' \in Evidence'
  BY <1>a, EvidenceType DEF Evidence, GuidanceInv
<1>1. CASE journal.restart.boot # boot
  <2>1. journal'.restart = AllClear(boot) /\ owed = NothingOwed /\ journal'.restart.boot = boot
    BY <1>1, <1>a, <1>b DEF Pruned, GuidanceInv, AllClear
  <2>2. ~ Pending'
    BY <1>1, <1>b, EarlierBoot DEF Pending, Updating
  <2>3. Settles(AllClear(boot), NothingOwed, logins)
    BY DEF Settles, Waits, AllClear, NothingOwed
  <2> QED BY <2>1, <2>2, <2>3, <1>c DEF GuidanceInv, Due
<1>2. CASE journal.restart.boot = boot
  <2>1. /\ journal'.restart = Relogged(journal.restart, s)
        /\ journal'.restart.boot = boot /\ journal'.restart.last = journal.restart.last
    BY <1>2, <1>a, <1>b, <1>c, ReloggedValues DEF Pruned
  <2>2. Pending' <=> Pending
    BY <2>1, <1>b DEF Pending, Updating
  <2>3. CASE Pending
    <3>1. /\ Settles(WithContribution(Relogged(journal.restart, s), journal.active), owed, logins)
          /\ IsLastDebt(journal.active, owed, Relogged(journal.restart, s))
      BY <2>3, <1>2, <1>a, <1>c, PendingRelogged DEF GuidanceInv, Due, Pending, Updating
    <3>2. Due' = WithContribution(Relogged(journal.restart, s), journal.active)
      BY <2>1, <2>2, <2>3, <1>b DEF Due
    <3> QED BY <3>1, <3>2, <2>1, <2>2, <1>a, <1>b, <1>c DEF GuidanceInv
  <2>4. CASE ~ Pending
    <3>1. Settles(Relogged(journal.restart, s), owed, logins)
      BY <2>4, <1>2, <1>a, <1>c, ReloggedSettles DEF GuidanceInv, Due, OwedInTime
    <3>2. Due' = Relogged(journal.restart, s)
      BY <2>1, <2>2, <2>4 DEF Due
    <3> QED BY <3>1, <3>2, <2>1, <2>2, <2>4, <1>a, <1>b, <1>c DEF GuidanceInv
  <2> QED BY <2>3, <2>4
<1> QED BY <1>1, <1>2

LEMMA GuidanceAdvanced == ASSUME GInv, Advances PROVE GuidanceInv'
<1>a. /\ GuidanceInv /\ OwedInTime /\ JournalInv /\ TypeOK /\ journal \in Journals
      /\ journal.restart \in Restarts
      /\ journal.active # None => journal.active \in Operations
      /\ owed \in Debts /\ logins \in SUBSET Times /\ since \in Nat
  BY GuidanceFacts DEF TypeOK
<1>1. PICK state \in States, mono \in since + 1 .. now, recovering \in BOOLEAN,
           system \in SystemLevels, session \in SessionLevels, application \in Applications :
             Advance(Following(state, system, session, application, mono), recovering)
  BY Zenon DEF Advances
<1> DEFINE op == Following(state, system, session, application, mono)
<1>b. /\ journal.active # None /\ ~ Terminal(journal.active)
      /\ Terminal(op) /\ Timed(op) => journal.restart.boot = boot
      /\ op \in Operations /\ op # None
      /\ journal' = [journal EXCEPT !.active = op]
      /\ owed' = Owe(op)
      /\ UNCHANGED <<login, boot, logins>>
  BY <1>1, NoneAssumption DEF Advance, Legal, WellFormed, Commit
<1>c. op.id = journal.active.id
  BY <1>a, <1>b DEF Following, Operations
<1>d. journal'.restart = journal.restart /\ journal'.active = op
  BY <1>a, <1>b DEF Journals
<1> HIDE DEF op
<1>e. journal.restart.last # op.id
  BY <1>a, <1>b, <1>c, UndecidedIsUnfiled DEF JournalInv
<1>f. ~ Pending
  BY <1>b DEF Pending
<1>2. CASE Terminal(op) /\ op.kind = "update" /\ op.boot = boot
  <2>1. journal.restart.boot = boot
    BY <1>2, <1>b DEF Timed
  <2>2. Settles(journal.restart, owed, logins)
    BY <2>1, <1>a, <1>f DEF GuidanceInv, Due
  <2>3. op.mono > owed.sessionAt
    <3>1. op.mono = mono
      BY <1>2, <1>a, <1>b DEF op, Following, Operations, Terminal, Timed
    <3> QED BY <3>1, <1>a, <1>b, DebtNumbers DEF OwedInTime
  <2>4. /\ Settles(WithContribution(journal.restart, op), Owe(op), logins)
        /\ IsLastDebt(op, Owe(op), journal.restart)
    BY <2>2, <2>3, <1>2, <1>a, <1>b, OwedSettles DEF OwedInTime
  <2>5. Pending'
    BY <1>2, <1>b, <1>d, <1>e DEF Pending, Updating
  <2> QED BY <2>1, <2>4, <2>5, <1>a, <1>b, <1>d DEF GuidanceInv, Due, Evidence
<1>3. CASE ~ (Terminal(op) /\ op.kind = "update" /\ op.boot = boot)
  <2>1. ~ Pending'
    BY <1>3, <1>b, <1>d DEF Pending, Updating
  <2>2. owed' = owed
    BY <1>3, <1>b DEF Owe
  <2> QED BY <2>1, <2>2, <1>a, <1>b, <1>d, <1>f DEF GuidanceInv, Due, Evidence
<1> QED BY <1>2, <1>3

LEMMA GuidanceApplied == ASSUME GInv, CompleteApply PROVE GuidanceInv'
<1> DEFINE op == journal.active
           q == WithContribution(journal.restart, op)
<1>a. /\ GuidanceInv /\ OwedInTime /\ JournalInv /\ TypeOK /\ CompletionInv
      /\ journal \in Journals /\ journal.restart \in Restarts /\ boot \in Boots
      /\ journal.active # None => journal.active \in Operations
      /\ owed \in Debts /\ logins \in SUBSET Times
  BY GuidanceFacts
<1>b. /\ step = "apply" /\ UNCHANGED <<boot, owed, logins>> /\ login' = 0
      /\ op # None /\ Terminal(op)
  BY <1>a DEF CompleteApply, Running, CompletionInv, Completing
<1>1. CASE ~ (op.boot = boot /\ journal.restart.last # op.id)
  BY <1>1, <1>b, GuidanceUntouched DEF CompleteApply
<1>2. CASE op.boot = boot /\ journal.restart.last # op.id
  <2>a. /\ journal'.active = op
        /\ journal'.restart = Relogged(q, login)
    BY <1>2, <1>a DEF CompleteApply, Commit, Reapplied, Journals
  <2>b. op.kind = "update"
    <3>1. ActiveSound(journal)
      BY <1>a, DecodesParts DEF JournalInv
    <3> QED BY <3>1, <1>2, <1>a, <1>b DEF ActiveSound, WellFormed, Boots
  <2>c. Pending
    BY <1>2, <1>b, <2>b DEF Pending, Updating
  <2>d. journal.restart.boot = boot
    BY <2>c, EarlierBoot
  <2>e. Settles(q, owed, logins)
    BY <2>c, <2>d, <1>a DEF GuidanceInv, Due
  <2>f. q \in Restarts
    BY <1>a, <1>b, ContributionType
  <2>g. login \in logins \cup {0} /\ login \in 0 .. ClockMax
    BY <1>a, EvidenceType DEF GuidanceInv, Evidence
  <2>h. q.boot = boot /\ q.last = op.id
    BY <2>d, <1>a, <1>b, ContributionValues
  <2> HIDE DEF q
  <2>1. Settles(Relogged(q, login), owed, logins)
    BY <2>e, <2>f, <2>g, <1>a, ReloggedSettles DEF OwedInTime
  <2>2. journal'.restart.boot = boot /\ journal'.restart.last = op.id
    BY <2>a, <2>f, <2>g, <2>h, ReloggedValues
  <2>3. ~ Pending'
    BY <2>a, <2>2 DEF Pending
  <2> QED BY <2>1, <2>2, <2>3, <2>a, <1>b DEF GuidanceInv, Due, Evidence
<1> QED BY <1>1, <1>2

LEMMA GuidanceInit == Init => OwedInTime /\ GuidanceInv
<1> SUFFICES ASSUME Init PROVE OwedInTime /\ GuidanceInv
  OBVIOUS
<1>1. Settles(AllClear(1), NothingOwed, logins)
  BY DEF Settles, Waits, AllClear, NothingOwed
<1>2. ~ Pending
  BY DEF Init, Pending, Updating
<1>3. OwedInTime
  BY DEF Init, NothingOwed, OwedInTime, InOrder
<1> QED BY <1>1, <1>2, <1>3 DEF Init, GuidanceInv, Due, Evidence, AllClear

LEMMA GuidanceStep == GInv /\ [Next]_vars => GInv'
<1> SUFFICES ASSUME GInv, [Next]_vars PROVE GuidanceInv'
  BY JournalStep, OwedStep DEF GInv
<1>a. /\ GuidanceInv /\ JournalInv /\ TypeOK /\ CompletionInv /\ journal \in Journals
      /\ boot \in Boots /\ journal.restart.boot \in Boots
  BY GuidanceFacts
<1>1. ASSUME NEW kind \in Kinds, NEW id \in Ids, Begin(kind, id) PROVE GuidanceInv'
  <2>1. /\ journal.active = None /\ journal'.active.state = "pending"
        /\ journal'.restart = journal.restart /\ UNCHANGED <<boot, owed, logins, login>>
    BY <1>1, <1>a, BeginsPending DEF Begin, Admissible, Commit, Journals
  <2>2. ~ Pending /\ ~ Pending'
    BY <2>1 DEF Pending, Updating, Terminal, TerminalStates
  <2> QED BY <2>1, <2>2, <1>a DEF GuidanceInv, Due, Evidence
<1>2. CASE Advances
  BY <1>2, GuidanceAdvanced
<1>3. ASSUME NEW s \in Evidence, Prune(s) PROVE GuidanceInv'
  BY <1>3, GuidancePruned DEF Prune
<1>4. ASSUME NEW s \in Evidence, CompleteStart(s) PROVE GuidanceInv'
  <2>1. CASE journal.active.kind = "update"
    BY <2>1, <1>4, GuidancePruned DEF CompleteStart, Running
  <2>2. CASE journal.active.kind # "update"
    BY <2>2, <1>4, GuidanceUntouched DEF CompleteStart, Running
  <2> QED BY <2>1, <2>2
<1>5. CASE CompleteApply
  BY <1>5, GuidanceApplied
<1>6. CASE CompleteTerminal \/ CompleteCursor \/ CompleteHandoff
  <2>1. /\ journal'.restart = journal.restart /\ journal'.active = journal.active
        /\ UNCHANGED <<boot, owed, logins, login>>
    BY <1>6, <1>a DEF CompleteTerminal, CompleteCursor, CompleteHandoff, Running, Commit, Journals
  <2> QED BY <2>1, GuidanceUntouched
<1>7. CASE CompleteClear
  <2>1. /\ journal'.restart = journal.restart /\ journal'.active = None
        /\ UNCHANGED <<boot, owed, logins, login>> /\ step = "clear"
    BY <1>7, <1>a DEF CompleteClear, Running, Commit, Journals
  <2>2. ~ Pending /\ ~ Pending'
    BY <2>1, <1>a DEF Pending, Updating, JournalInv, AppliedInTime
  <2> QED BY <2>1, <2>2, <1>a DEF GuidanceInv, Due, Evidence
<1>8. ASSUME NEW id \in Ids, Acknowledge(id) PROVE GuidanceInv'
  <2>1. /\ journal'.restart = journal.restart /\ journal'.active = journal.active
        /\ UNCHANGED <<boot, owed, logins, login>>
    BY <1>8, <1>a DEF Acknowledge, Commit, Journals
  <2> QED BY <2>1, GuidanceUntouched
<1>9. CASE Kill \/ Tick \/ UNCHANGED vars
  BY <1>9, GuidanceUntouched DEF Kill, Tick, vars
<1>10. CASE Login
  <2>1. /\ UNCHANGED <<journal, boot, owed, login>>
        /\ \A s \in logins : s \in logins'
    BY <1>10 DEF Login
  <2>2. (Pending' <=> Pending) /\ Due' = Due
    BY <2>1 DEF Pending, Updating, Due
  <2>3. \A r : Settles(r, owed, logins) => Settles(r, owed, logins')
    BY <2>1 DEF Settles, Waits
  <2> QED BY <2>1, <2>2, <2>3, <1>a DEF GuidanceInv, Evidence
<1>11. CASE Reboot
  <2>1. /\ UNCHANGED journal /\ boot' = boot + 1
        /\ owed' = NothingOwed /\ login' = 0
    BY <1>11 DEF Reboot
  <2>2. /\ journal.restart.boot # boot + 1
        /\ journal.active # None => journal.active.boot # boot + 1
    <3>1. boot \in Nat /\ journal.restart.boot \in Nat /\ (journal.active # None => journal.active.boot \in Nat)
      BY <1>a, GuidanceFacts DEF Boots, Operations
    <3>2. journal.restart.boot <= boot /\ (journal.active # None => journal.active.boot <= journal.restart.boot)
      BY <1>a DEF JournalInv, BootInv, Records
    <3> QED BY <3>1, <3>2
  <2>3. ~ Pending'
    BY <2>1, <2>2 DEF Pending, Updating
  <2> QED BY <2>1, <2>2, <2>3 DEF GuidanceInv, Evidence
<1> QED
  BY <1>1, <1>2, <1>3, <1>4, <1>5, <1>6, <1>7, <1>8, <1>9, <1>10, <1>11 DEF Next

LEMMA GuidanceInvariance == Spec => []GInv
<1>1. Init => GInv
  BY TypeInit, CompletionInit, JournalInit, GuidanceInit DEF GInv, DInv, IInv
<1> QED BY <1>1, GuidanceStep, PTL DEF Spec

(* Once the last result is filed, the restart record of prune_journal_     *)
(* restart and complete_journal_terminal asks for at least what the        *)
(* updates of this boot asked for and no later login satisfied, at most    *)
(* for what they asked, and waits for a login later than the last of them: *)
(* no kill or recovery loses guidance or makes some up.                    *)
THEOREM GuidanceIsKept == Spec => []GuidanceKept
<1>1. GInv => GuidanceKept
  <2> SUFFICES ASSUME GInv, journal.active = None, journal.restart.boot = boot PROVE GuidanceKept
    BY DEF GuidanceKept
  <2>1. GuidanceInv
    BY GuidanceFacts
  <2>2. Due = journal.restart
    BY DEF Due, Pending, Updating
  <2>3. Settles(journal.restart, owed, logins)
    BY <2>1, <2>2 DEF GuidanceInv
  <2> QED BY <2>3 DEF GuidanceKept, Settles, Unmet, Waits
<1> QED BY <1>1, GuidanceInvariance, PTL

-----------------------------------------------------------------------------
(* Recovery repeats the commits of complete_journal_terminal that a killed *)
(* process made already, and never brings back guidance that a login has   *)
(* satisfied since: only a further update strengthens it, by what it asks. *)
THEOREM GuidanceIsNotReplayed == Spec => GuidanceNotReplayed
<1> DEFINE Shrinks ==
      LET before == journal.restart  after == journal'.restart  op == journal.active IN
        CASE after.boot # before.boot -> after = AllClear(after.boot)
          [] after.boot = before.boot /\ after.last # before.last ->
               /\ after.last = op.id
               /\ after.system = Higher(before.system, op.system)
               /\ after.session <= Higher(before.session, op.session)
               /\ after.application => before.application \/ op.application
          [] OTHER ->
               /\ after.system = before.system
               /\ after.session <= before.session
               /\ after.application => before.application
<1>1. GInv /\ [Next]_vars => [Shrinks]_vars
  <2> SUFFICES ASSUME GInv, [Next]_vars PROVE Shrinks \/ UNCHANGED vars
    OBVIOUS
  <2>a. /\ TypeOK /\ CompletionInv /\ journal \in Journals /\ journal.restart \in Restarts
        /\ journal.restart.session \in Nat
    BY GuidanceFacts, RestartNumbers
  <2>1. ASSUME NEW s \in Evidence, Commit("restart", Pruned(journal.restart, s)) PROVE Shrinks
    <3>1. journal'.restart = Pruned(journal.restart, s) /\ s \in 0 .. ClockMax
      BY <2>1, <2>a, EvidenceType DEF Commit, Journals
    <3>2. CASE journal.restart.boot # boot
      BY <3>1, <3>2 DEF Pruned, AllClear
    <3>3. CASE journal.restart.boot = boot
      <4>1. journal'.restart = Relogged(journal.restart, s)
        BY <3>1, <3>3 DEF Pruned
      <4> DEFINE q == Relogged(journal.restart, s)
      <4>2. /\ q.boot = journal.restart.boot /\ q.last = journal.restart.last
            /\ q.system = journal.restart.system
            /\ q.session = IF s > journal.restart.sessionCutoff THEN 0 ELSE journal.restart.session
            /\ q.application <=> journal.restart.application /\ ~ s > journal.restart.applicationCutoff
        BY <3>1, <2>a, ReloggedValues
      <4> HIDE DEF q
      <4>3. journal'.restart = q
        BY <4>1 DEF q
      <4> QED BY <4>2, <4>3, <2>a
    <3> QED BY <3>2, <3>3
  <2>2. ASSUME journal'.restart = journal.restart PROVE Shrinks
    BY <2>2, <2>a
  <2>3. ASSUME NEW kind \in Kinds, NEW id \in Ids, Begin(kind, id) PROVE Shrinks
    BY <2>2, <2>3, <2>a DEF Begin, Commit, Journals
  <2>4. CASE Advances
    <3>1. PICK following : \E recovering \in BOOLEAN : Advance(following, recovering)
      BY <2>4, Zenon DEF Advances
    <3> QED BY <3>1, <2>2, <2>a DEF Advance, Commit, Journals
  <2>5. ASSUME NEW s \in Evidence, Prune(s) PROVE Shrinks
    BY <2>5, <2>1 DEF Prune
  <2>6. ASSUME NEW s \in Evidence, CompleteStart(s) PROVE Shrinks
    <3>1. CASE journal.active.kind = "update"
      BY <3>1, <2>6, <2>1 DEF CompleteStart
    <3>2. CASE journal.active.kind # "update"
      BY <3>2, <2>6, <2>2 DEF CompleteStart
    <3> QED BY <3>1, <3>2
  <2>7. CASE CompleteApply
    <3>1. CASE ~ (journal.active.boot = boot /\ journal.restart.last # journal.active.id)
      BY <3>1, <2>7, <2>2 DEF CompleteApply
    <3>2. CASE journal.active.boot = boot /\ journal.restart.last # journal.active.id
      <4> DEFINE q == WithContribution(journal.restart, journal.active)
      <4>1. journal.active \in Operations
        BY <2>7, <2>a, GuidanceFacts DEF CompleteApply, Running, CompletionInv, Completing
      <4>2. q \in Restarts
        BY <2>a, <4>1, ContributionType
      <4>3. /\ q.boot = journal.restart.boot /\ q.last = journal.active.id
            /\ q.system = Higher(journal.restart.system, journal.active.system)
            /\ q.session = Higher(journal.restart.session, journal.active.session)
            /\ q.application <=> journal.restart.application \/ journal.active.application
        BY <2>a, <4>1, ContributionValues
      <4>4. journal'.restart = Relogged(q, login) /\ login \in 0 .. ClockMax
        BY <3>2, <2>7, <2>a DEF CompleteApply, Commit, Reapplied, Journals, TypeOK
      <4>5. Higher(journal.restart.session, journal.active.session) \in Nat
        BY <4>1, <2>a DEF Higher, Operations
      <4> HIDE DEF q
      <4> DEFINE t == Relogged(q, login)
      <4>6. /\ t.boot = q.boot /\ t.last = q.last /\ t.system = q.system
            /\ t.session = IF login > q.sessionCutoff THEN 0 ELSE q.session
            /\ t.application <=> q.application /\ ~ login > q.applicationCutoff
        BY <4>2, <4>4, ReloggedValues
      <4>7. journal'.restart = t
        BY <4>4
      <4> HIDE DEF t
      <4> QED BY <4>3, <4>5, <4>6, <4>7, <3>2
    <3> QED BY <3>1, <3>2
  <2>8. CASE CompleteTerminal \/ CompleteCursor \/ CompleteHandoff \/ CompleteClear
    <3>1. journal'.restart = journal.restart
      BY <2>8, <2>a DEF CompleteTerminal, CompleteCursor, CompleteHandoff, CompleteClear, Commit, Journals
    <3> QED BY <3>1, <2>2
  <2>9. ASSUME NEW id \in Ids, Acknowledge(id) PROVE Shrinks
    BY <2>9, <2>2, <2>a DEF Acknowledge, Commit, Journals
  <2>10. CASE Kill \/ Tick \/ Login \/ Reboot \/ UNCHANGED vars
    BY <2>10, <2>2 DEF Kill, Tick, Login, Reboot, vars
  <2> HIDE DEF Shrinks
  <2> QED
    BY <2>3, <2>4, <2>5, <2>6, <2>7, <2>8, <2>9, <2>10 DEF Next
<1> QED BY <1>1, GuidanceInvariance, PTL DEF Spec, GuidanceNotReplayed
-----------------------------------------------------------------------------
(* The commits of an operation.                                            *)

(* How far an undecided operation has come: every advance of it that is    *)
(* not its last takes it further, through its states or its guidance.      *)
Stage(op) ==
  CASE op.state = "pending"     -> 0
    [] op.state = "authorizing" -> 1
    [] op.state = "running"     -> 2
    [] OTHER                    -> 3

Effort(op) == Stage(op) + op.system + op.session + (IF op.application THEN 1 ELSE 0)

(* What an operation in progress has spent follows from how far it is: a   *)
(* commit that recovery repeats changes nothing and costs nothing.         *)
SpentByActive ==
  /\ spent["active"] <= IF Terminal(journal.active) THEN 11 ELSE 1 + Effort(journal.active)
  /\ spent["terminals"] <= IF Filed THEN 1 ELSE 0
  /\ spent["cursor"] <= IF journal.cursor = journal.active.slot THEN 0 ELSE 1
  /\ spent["handoff"] <= IF journal.handoff = None THEN 0 ELSE 1

SpentByLast ==
  /\ spent["active"] <= 12
  /\ spent["terminals"] <= 1
  /\ spent["cursor"] <= 1
  /\ spent["handoff"] <= IF journal.handoff = None THEN 2 ELSE 1

HeadroomInv ==
  /\ spent \in [Paths -> Nat]
  /\ IF journal.active = None THEN SpentByLast ELSE SpentByActive

HInv == DInv /\ HeadroomInv

LEMMA EffortBound ==
  ASSUME NEW op \in Operations
  PROVE  Effort(op) \in 0 .. 9
<1>1. Stage(op) \in 0 .. 3
  BY DEF Stage
<1>2. op.system \in 0 .. 3 /\ op.session \in 0 .. 2
  BY DEF Operations
<1> QED BY <1>1, <1>2 DEF Effort

(* An advance that leaves the operation open takes it further.             *)
LEMMA EffortGrows ==
  ASSUME NEW op \in Operations, NEW next \in Operations, NEW recovering \in BOOLEAN,
         Legal(op, next, recovering), ~ Terminal(next)
  PROVE  Effort(next) >= Effort(op) + 1
<1>1. /\ ~ Terminal(op) /\ ~ Weakens(op, next)
      /\ next.state # op.state => next.state \in Transitions(op.state)
      /\ next.state = op.state => Tuple(next) # Tuple(op)
  BY DEF Legal
<1>2. /\ op.system \in 0 .. 3 /\ op.session \in 0 .. 2
      /\ next.system \in 0 .. 3 /\ next.session \in 0 .. 2
  BY DEF Operations
<1>3. op.state \in OpenStates /\ next.state \in OpenStates
  BY <1>1, StateAssumption DEF Operations, Terminal
<1>4. /\ next.system >= op.system /\ next.session >= op.session
      /\ op.application => next.application
  BY <1>1, <1>2 DEF Weakens
<1> DEFINE a == IF op.application THEN 1 ELSE 0
           b == IF next.application THEN 1 ELSE 0
<1>5. a \in 0 .. 1 /\ b \in 0 .. 1 /\ b >= a
  BY <1>4
<1>6. Stage(op) \in 0 .. 3 /\ Stage(next) \in 0 .. 3
  BY DEF Stage
<1>7. CASE next.state # op.state
  <2>1. Stage(next) >= Stage(op) + 1
    BY <1>1, <1>3, <1>7 DEF Transitions, Stage, OpenStates
  <2> HIDE DEF a, b
  <2>2. Stage(next) + next.system + next.session + b >= Stage(op) + op.system + op.session + a + 1
    BY <2>1, <1>2, <1>4, <1>5, <1>6
  <2> QED BY <2>2 DEF Effort, a, b
<1>8. CASE next.state = op.state
  <2>1. Stage(next) = Stage(op)
    BY <1>8 DEF Stage
  <2>2. next.system # op.system \/ next.session # op.session \/ b # a
    <3>1. op.application \in BOOLEAN /\ next.application \in BOOLEAN
      BY DEF Operations
    <3>2. \/ next.system # op.system \/ next.session # op.session
          \/ next.application # op.application
      BY <1>1, <1>8 DEF Tuple
    <3>3. CASE next.application # op.application
      <4>1. op.application => next.application
        BY <1>4
      <4>2. (next.application = TRUE \/ next.application = FALSE)
            /\ (op.application = TRUE \/ op.application = FALSE)
        BY <3>1
      <4>3. CASE op.application = TRUE
        <5>1. next.application = TRUE
          BY <4>1, <4>2, <4>3
        <5> QED BY <5>1, <4>3, <3>3
      <4>4. CASE op.application = FALSE
        <5>1. next.application = TRUE
          BY <4>2, <4>4, <3>3
        <5>2. a = 0 /\ b = 1
          BY <5>1, <4>4
        <5> QED BY <5>2
      <4> QED BY <4>2, <4>3, <4>4
    <3> QED BY <3>2, <3>3
  <2> HIDE DEF a, b
  <2>3. Stage(next) + next.system + next.session + b >= Stage(op) + op.system + op.session + a + 1
    BY <2>1, <2>2, <1>2, <1>4, <1>5, <1>6
  <2> QED BY <2>3 DEF Effort, a, b
<1> QED BY <1>7, <1>8

LEMMA HeadroomFacts ==
  ASSUME HInv
  PROVE  /\ DInv /\ TypeOK /\ CompletionInv /\ JournalInv /\ HeadroomInv
         /\ journal \in Journals
         /\ journal.active # None => journal.active \in Operations /\ journal.active.slot \in Slots
BY Facts DEF HInv

(* Steps that leave these paths alone, or commit what they already hold.   *)
LEMMA HeadroomKept ==
  ASSUME HInv, HNext,
         journal'.active = journal.active, journal'.handoff = journal.handoff,
         journal'.cursor = journal.cursor, journal'.terminals = journal.terminals
  PROVE  HeadroomInv'
<1>1. HeadroomInv
  BY HeadroomFacts
<1>2. ~ Admitted
  BY DEF Admitted
<1>3. /\ spent' \in [Paths -> Nat]
      /\ \A path \in Paths \ {"restart"} : spent'[path] = spent[path]
  BY <1>1, <1>2 DEF HNext, Commits, HeadroomInv, Paths
<1> QED BY <1>1, <1>3 DEF HeadroomInv, SpentByLast, SpentByActive, Filed, Paths

LEMMA HeadroomCounts ==
  ASSUME HInv, HNext, ~ Admitted
  PROVE  /\ spent' \in [Paths -> Nat]
         /\ \A path \in Paths : /\ spent'[path] = spent[path] + Commits(path)
                                /\ spent[path] \in Nat /\ spent'[path] \in Nat
                                /\ Commits(path) \in {0, 1}
                                /\ journal'[path] = journal[path] => Commits(path) = 0
BY HeadroomFacts DEF HNext, Commits, HeadroomInv

LEMMA HeadroomInit == HInit => HInv
<1> SUFFICES ASSUME HInit PROVE HInv
  OBVIOUS
<1>1. DInv
  BY TypeInit, CompletionInit, JournalInit DEF HInit, DInv, IInv
<1>2. journal.active = None /\ journal.handoff = None /\ spent = [path \in Paths |-> 0]
  BY DEF HInit, Init
<1> QED BY <1>1, <1>2 DEF HInv, HeadroomInv, SpentByLast, Paths

LEMMA HeadroomStep == HInv /\ [HNext]_<<vars, spent>> => HInv'
<1> SUFFICES ASSUME HInv, [HNext]_<<vars, spent>> PROVE HeadroomInv'
  BY JournalStep DEF HInv, HNext, vars
<1>a. /\ TypeOK /\ CompletionInv /\ JournalInv /\ HeadroomInv /\ journal \in Journals
      /\ journal.active # None => journal.active \in Operations /\ journal.active.slot \in Slots
      /\ spent \in [Paths -> Nat]
  BY HeadroomFacts DEF HeadroomInv
<1>1. CASE UNCHANGED <<vars, spent>>
  BY <1>1, <1>a DEF vars, HeadroomInv, SpentByLast, SpentByActive, Filed
<1> SUFFICES ASSUME HNext PROVE HeadroomInv'
  BY <1>1
<1>2. ASSUME NEW kind \in Kinds, NEW id \in Ids, Begin(kind, id) PROVE HeadroomInv'
  <2> DEFINE op == journal'.active
  <2>1. /\ op \in Operations /\ op.state = "pending" /\ op.slot = journal.cursor
        /\ journal.active = None /\ op # None
        /\ journal'.handoff = journal.handoff /\ journal'.cursor = journal.cursor
        /\ journal'.terminals = journal.terminals /\ journal'.restart = journal.restart
    BY <1>2, <1>a, BeginsPending, NoneAssumption DEF Begin, Admissible, Commit, Journals
  <2>2. spent' = [path \in Paths |-> Commits(path)] /\ Admitted
    BY <2>1 DEF HNext, Admitted
  <2>3. spent' = [path \in Paths |-> IF path = "active" THEN 1 ELSE 0]
    BY <2>1, <2>2 DEF Commits, Paths
  <2>4. /\ spent'["active"] = 1 /\ spent'["terminals"] = 0 /\ spent'["cursor"] = 0
        /\ spent'["handoff"] = 0 /\ spent' \in [Paths -> Nat]
    BY <2>3 DEF Paths
  <2>5. ~ Terminal(op) /\ Effort(op) >= 0
    BY <2>1, EffortBound DEF Terminal, TerminalStates
  <2> HIDE DEF op
  <2>6. SpentByActive'
    <3>1. ~ Terminal(op) /\ Effort(op) \in Nat
      BY <2>5, <2>1, EffortBound
    <3>2. 1 <= 1 + Effort(op)
      BY <3>1
    <3>3. spent'["active"] <= IF Terminal(op) THEN 11 ELSE 1 + Effort(op)
      BY <3>1, <3>2, <2>4
    <3>4. /\ spent'["terminals"] <= IF Filed' THEN 1 ELSE 0
          /\ spent'["cursor"] <= IF journal'.cursor = op.slot THEN 0 ELSE 1
          /\ spent'["handoff"] <= IF journal'.handoff = None THEN 0 ELSE 1
      BY <2>4
    <3> QED BY <3>3, <3>4 DEF SpentByActive, op
  <2> QED BY <2>1, <2>4, <2>6 DEF HeadroomInv, op
<1>3. CASE Advances
  <2>1. PICK state \in States, mono \in since + 1 .. now, recovering \in BOOLEAN,
             system \in SystemLevels, session \in SessionLevels, application \in Applications :
               Advance(Following(state, system, session, application, mono), recovering)
    BY <1>3, Zenon DEF Advances
  <2> DEFINE op == Following(state, system, session, application, mono)
  <2>2. /\ journal.active # None /\ ~ Terminal(journal.active)
        /\ Legal(journal.active, op, recovering)
        /\ op \in Operations /\ op # None
        /\ journal' = [journal EXCEPT !.active = op]
    BY <2>1, NoneAssumption DEF Advance, Legal, WellFormed, Commit
  <2>3. op.slot = journal.active.slot /\ op.id = journal.active.id
    BY <2>2, <1>a DEF Following, Operations
  <2>4. /\ journal'.active = op /\ journal'.handoff = journal.handoff
        /\ journal'.cursor = journal.cursor /\ journal'.terminals = journal.terminals
    BY <2>2, <1>a DEF Journals
  <2> HIDE DEF op
  <2>5. ~ Filed
    <3>1. \A o \in Retained(journal) : o.id # journal.active.id
      BY <2>2, <1>a, UndecidedIsUnfiled DEF JournalInv
    <3> QED BY <3>1, <2>2, <1>a DEF Filed, Retained, Filled
  <2>6. /\ spent'["active"] <= spent["active"] + 1
        /\ spent["active"] \in Nat /\ spent'["active"] \in Nat
        /\ spent'["terminals"] = spent["terminals"] /\ spent'["cursor"] = spent["cursor"]
        /\ spent'["handoff"] = spent["handoff"] /\ spent' \in [Paths -> Nat]
    <3>1. ~ Admitted
      BY <2>2 DEF Admitted
    <3>2. /\ spent' \in [Paths -> Nat]
          /\ \A path \in Paths : /\ spent'[path] = spent[path] + Commits(path)
                                 /\ spent[path] \in Nat /\ spent'[path] \in Nat
                                 /\ Commits(path) \in {0, 1}
                                 /\ journal'[path] = journal[path] => Commits(path) = 0
      BY <3>1, HeadroomCounts
    <3> QED BY <3>2, <2>4 DEF Paths
  <2>7. /\ spent["active"] <= 1 + Effort(journal.active)
        /\ spent["terminals"] <= 0
        /\ spent["cursor"] <= IF journal.cursor = journal.active.slot THEN 0 ELSE 1
        /\ spent["handoff"] <= IF journal.handoff = None THEN 0 ELSE 1
    BY <2>2, <2>5, <1>a DEF HeadroomInv, SpentByActive
  <2>8. spent'["active"] <= IF Terminal(op) THEN 11 ELSE 1 + Effort(op)
    <3>1. Effort(journal.active) \in 0 .. 9 /\ Effort(op) \in 0 .. 9
      BY <2>2, <1>a, EffortBound
    <3>2. CASE Terminal(op)
      BY <3>1, <3>2, <2>6, <2>7
    <3>3. CASE ~ Terminal(op)
      <4>1. Effort(op) >= Effort(journal.active) + 1
        BY <3>3, <2>2, <1>a, EffortGrows
      <4> QED BY <4>1, <3>1, <3>3, <2>6, <2>7
    <3> QED BY <3>2, <3>3
  <2>9. SpentByActive'
    <3>1. spent'["terminals"] <= IF Filed' THEN 1 ELSE 0
      BY <2>6, <2>7, <1>a DEF Paths
    <3> QED BY <3>1, <2>3, <2>4, <2>6, <2>7, <2>8 DEF SpentByActive
  <2> QED BY <2>2, <2>4, <2>6, <2>9 DEF HeadroomInv
<1>4. ASSUME NEW s \in Evidence, Prune(s) \/ CompleteStart(s) PROVE HeadroomInv'
  <2>1. /\ journal'.active = journal.active /\ journal'.handoff = journal.handoff
        /\ journal'.cursor = journal.cursor /\ journal'.terminals = journal.terminals
    BY <1>4, <1>a DEF Prune, CompleteStart, Running, Commit, Journals
  <2> QED BY <2>1, HeadroomKept
<1>5. CASE CompleteApply
  <2>1. /\ journal'.active = journal.active /\ journal'.handoff = journal.handoff
        /\ journal'.cursor = journal.cursor /\ journal'.terminals = journal.terminals
    BY <1>5, <1>a DEF CompleteApply, Commit, Journals
  <2> QED BY <2>1, HeadroomKept
<1>b. ASSUME journal.active # None, journal'.active = journal.active \/ journal'.active = None
      PROVE  /\ spent' \in [Paths -> Nat]
             /\ \A path \in Paths : /\ spent'[path] = spent[path] + Commits(path)
                                    /\ spent[path] \in Nat /\ spent'[path] \in Nat
                                    /\ Commits(path) \in {0, 1}
                                    /\ journal'[path] = journal[path] => Commits(path) = 0
  BY <1>b, HeadroomCounts DEF Admitted
<1>6. CASE CompleteTerminal
  <2>1. /\ journal.active # None
        /\ journal' = [journal EXCEPT !.terminals =
                         [journal.terminals EXCEPT ![journal.active.slot] = journal.active]]
    BY <1>6, <1>a DEF CompleteTerminal, Running, Commit, CompletionInv, Completing
  <2>2. /\ journal'.active = journal.active /\ journal'.handoff = journal.handoff
        /\ journal'.cursor = journal.cursor
        /\ journal'.terminals = [journal.terminals EXCEPT ![journal.active.slot] = journal.active]
        /\ Filed'
    BY <2>1, <1>a DEF Journals, Filed
  <2>3. CASE Filed
    <3>1. journal'.terminals = journal.terminals
      BY <2>2, <2>3, <1>a DEF Filed, Journals
    <3> QED BY <3>1, <2>2, HeadroomKept
  <2>4. CASE ~ Filed
    <3>1. /\ spent'["active"] = spent["active"] /\ spent'["handoff"] = spent["handoff"]
          /\ spent'["cursor"] = spent["cursor"] /\ spent'["terminals"] <= spent["terminals"] + 1
          /\ spent["terminals"] \in Nat /\ spent'["terminals"] \in Nat /\ spent' \in [Paths -> Nat]
      BY <2>1, <2>2, <1>b DEF Paths
    <3>2. SpentByActive
      BY <2>1, <1>a DEF HeadroomInv
    <3>3. SpentByActive'
      BY <3>1, <3>2, <2>2, <2>4 DEF SpentByActive
    <3> QED BY <3>1, <3>3, <2>1, <2>2 DEF HeadroomInv
  <2> QED BY <2>3, <2>4
<1>7. CASE CompleteCursor
  <2>1. /\ journal.active # None
        /\ journal' = [journal EXCEPT !.cursor = After(journal.active.slot)]
    BY <1>7, <1>a DEF CompleteCursor, Running, Commit, CompletionInv, Completing
  <2>2. /\ journal'.active = journal.active /\ journal'.handoff = journal.handoff
        /\ journal'.terminals = journal.terminals
        /\ journal'.cursor = After(journal.active.slot)
        /\ Filed' <=> Filed
    BY <2>1, <1>a DEF Journals, Filed
  <2>3. CASE journal.cursor = After(journal.active.slot)
    BY <2>2, <2>3, HeadroomKept
  <2>4. CASE journal.cursor # After(journal.active.slot)
    <3>1. /\ spent'["active"] = spent["active"] /\ spent'["handoff"] = spent["handoff"]
          /\ spent'["terminals"] = spent["terminals"] /\ spent'["cursor"] <= spent["cursor"] + 1
          /\ spent["cursor"] \in Nat /\ spent'["cursor"] \in Nat /\ spent' \in [Paths -> Nat]
      BY <2>1, <2>2, <1>b DEF Paths
    <3>2. journal.cursor = journal.active.slot
      BY <2>1, <2>4, <1>a DEF JournalInv, PlaceInv
    <3>3. After(journal.active.slot) # journal.active.slot
      BY <3>2, <2>4
    <3>4. SpentByActive
      BY <2>1, <1>a DEF HeadroomInv
    <3>5. SpentByActive'
      BY <3>1, <3>2, <3>3, <3>4, <2>2 DEF SpentByActive
    <3> QED BY <3>1, <3>5, <2>1, <2>2 DEF HeadroomInv
  <2> QED BY <2>3, <2>4
<1>8. CASE CompleteHandoff
  <2>1. /\ journal.active # None
        /\ journal' = [journal EXCEPT !.handoff = Handoff(journal.active)]
        /\ journal.handoff # None => journal.handoff = Handoff(journal.active)
    BY <1>8, <1>a DEF CompleteHandoff, Running, Commit, CompletionInv, Completing, HandoffIsActive
  <2>2. /\ journal'.active = journal.active /\ journal'.cursor = journal.cursor
        /\ journal'.terminals = journal.terminals
        /\ journal'.handoff = Handoff(journal.active)
        /\ Filed' <=> Filed
    BY <2>1, <1>a DEF Journals, Filed
  <2>3. CASE journal.handoff # None
    BY <2>1, <2>2, <2>3, HeadroomKept
  <2>4. CASE journal.handoff = None
    <3>1. /\ spent'["active"] = spent["active"] /\ spent'["cursor"] = spent["cursor"]
          /\ spent'["terminals"] = spent["terminals"] /\ spent'["handoff"] <= spent["handoff"] + 1
          /\ spent["handoff"] \in Nat /\ spent'["handoff"] \in Nat /\ spent' \in [Paths -> Nat]
      BY <2>1, <2>2, <1>b DEF Paths
    <3>2. SpentByActive
      BY <2>1, <1>a DEF HeadroomInv
    <3>3. Handoff(journal.active) # None
      BY <2>1, <1>a, NoneAssumption DEF Handoff, Handoffs, Operations
    <3>4. SpentByActive'
      BY <3>1, <3>2, <3>3, <2>2, <2>4 DEF SpentByActive
    <3> QED BY <3>1, <3>4, <2>1, <2>2 DEF HeadroomInv
  <2> QED BY <2>3, <2>4
<1>9. CASE CompleteClear
  <2>1. /\ journal.active # None /\ journal' = [journal EXCEPT !.active = None]
        /\ Terminal(journal.active)
        /\ journal.handoff = Handoff(journal.active)
    BY <1>9, <1>a DEF CompleteClear, Running, Commit, CompletionInv, Completing, HandedInTime
  <2>2. /\ journal'.active = None /\ journal'.cursor = journal.cursor
        /\ journal'.terminals = journal.terminals /\ journal'.handoff = journal.handoff
    BY <2>1, <1>a DEF Journals
  <2>3. journal.handoff # None
    BY <2>1, <1>a, NoneAssumption DEF Handoff, Handoffs, Operations
  <2>4. /\ spent'["active"] <= spent["active"] + 1 /\ spent'["cursor"] = spent["cursor"]
        /\ spent'["terminals"] = spent["terminals"] /\ spent'["handoff"] = spent["handoff"]
        /\ spent["active"] \in Nat /\ spent'["active"] \in Nat /\ spent' \in [Paths -> Nat]
        /\ spent["cursor"] \in Nat /\ spent["terminals"] \in Nat
    BY <2>1, <2>2, <1>b DEF Paths
  <2>5. SpentByActive
    BY <2>1, <1>a DEF HeadroomInv
  <2>6. SpentByLast'
    BY <2>1, <2>2, <2>3, <2>4, <2>5 DEF SpentByActive, SpentByLast
  <2> QED BY <2>2, <2>4, <2>6 DEF HeadroomInv
<1>10. ASSUME NEW id \in Ids, Acknowledge(id) PROVE HeadroomInv'
  <2>1. /\ journal.active = None /\ journal.handoff # None
        /\ journal' = [journal EXCEPT !.handoff = None]
    BY <1>10 DEF Acknowledge, Commit
  <2>2. /\ journal'.active = None /\ journal'.cursor = journal.cursor
        /\ journal'.terminals = journal.terminals /\ journal'.handoff = None
    BY <2>1, <1>a DEF Journals
  <2>3. ~ Admitted
    BY <2>2 DEF Admitted
  <2>4. /\ spent' \in [Paths -> Nat]
        /\ \A path \in Paths : /\ spent'[path] = spent[path] + Commits(path)
                               /\ spent[path] \in Nat /\ spent'[path] \in Nat
                               /\ Commits(path) \in {0, 1}
                               /\ journal'[path] = journal[path] => Commits(path) = 0
    BY <2>3, HeadroomCounts
  <2>5. /\ spent'["handoff"] <= spent["handoff"] + 1 /\ spent'["cursor"] = spent["cursor"]
        /\ spent'["terminals"] = spent["terminals"] /\ spent'["active"] = spent["active"]
        /\ spent["handoff"] \in Nat /\ spent'["handoff"] \in Nat
    BY <2>1, <2>2, <2>4 DEF Paths
  <2>6. SpentByLast
    BY <2>1, <1>a DEF HeadroomInv
  <2>7. SpentByLast'
    BY <2>1, <2>2, <2>5, <2>6 DEF SpentByLast
  <2> QED BY <2>2, <2>4, <2>7 DEF HeadroomInv
<1>11. CASE Kill \/ Tick \/ Login \/ Reboot
  BY <1>11, HeadroomKept DEF Kill, Tick, Login, Reboot
<1> QED
  BY <1>2, <1>3, <1>4, <1>5, <1>6, <1>7, <1>8, <1>9, <1>10, <1>11 DEF HNext, Next

(* From its admission to its acknowledgement, killed and recovered any     *)
(* number of times, an operation spends no more commits on the active,     *)
(* handoff and cursor paths and on its slot than prepare_journal_admission *)
(* reserved for it: an admitted operation never finds one of these used    *)
(* up.  The restart path is left out: it can exceed its three.             *)
THEOREM ReserveSuffices == HSpec => []WithinReserve
<1>1. HInv => WithinReserve
  <2> SUFFICES ASSUME HInv PROVE WithinReserve
    OBVIOUS
  <2>1. HeadroomInv /\ (journal.active # None => journal.active \in Operations)
    BY HeadroomFacts
  <2>2. \A path \in Paths : spent[path] \in Nat
    BY <2>1 DEF HeadroomInv
  <2>3. /\ spent["active"] \in Nat /\ spent["terminals"] \in Nat
        /\ spent["cursor"] \in Nat /\ spent["handoff"] \in Nat
    BY <2>2 DEF Paths
  <2>4. /\ spent["active"] <= 12 /\ spent["terminals"] <= 1
        /\ spent["cursor"] <= 1 /\ spent["handoff"] <= 2
    <3>1. CASE journal.active = None
      BY <3>1, <2>1, <2>3 DEF HeadroomInv, SpentByLast
    <3>2. CASE journal.active # None
      <4>1. Effort(journal.active) \in 0 .. 9
        BY <3>2, <2>1, EffortBound
      <4> QED BY <3>2, <4>1, <2>1, <2>3 DEF HeadroomInv, SpentByActive
    <3> QED BY <3>1, <3>2
  <2> QED BY <2>4 DEF WithinReserve, Reserved, Paths
<1> QED BY <1>1, HeadroomInit, HeadroomStep, PTL DEF HSpec
=============================================================================
