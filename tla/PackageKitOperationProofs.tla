---------------------- MODULE PackageKitOperationProofs ----------------------
(***************************************************************************)
(* Theorems about PackageKitOperation for any number of commands,          *)
(* recoveries and controls, under any faults.                              *)
(***************************************************************************)
EXTENDS PackageKitOperation, SequenceTheorems, TLAPS

-----------------------------------------------------------------------------
(* The inductive invariant.                                                *)

(* The signals that end a transaction, and the phases after them.          *)
Ends == Outcomes \cup Replies
Past == {"over", "gone"}

RanBy(i, n)   == \E k \in 1 .. n : log[i][k] = "run"
EndedBy(i, n) == \E k \in 1 .. n : log[i][k] \in Ends

Active(i) == active # None /\ active.id = i
Known(i)  == Active(i) \/ decided[i] # None
IsEarly(i) == Active(i) /\ active.state \in Early

(* The phase of a transaction says what PackageKit has sent about it: an   *)
(* end comes once, and no execution is announced after it.                 *)
LogOK(i) ==
  LET n == Len(log[i]) IN
    /\ tx[i] \in {"none", "idle"} => n = 0
    /\ tx[i] \in Live => ~ EndedBy(i, n)
    /\ tx[i] \in {"queued", "authorizing"} => ~ RanBy(i, n)
    /\ tx[i] = "running" => RanBy(i, n)
    /\ tx[i] = "over" => EndedBy(i, n)
    /\ \A k \in 1 .. n : log[i][k] \in {"destroy", "lost"} => tx[i] = "gone"
    /\ \A k, m \in 1 .. n : k < m /\ log[i][k] \in Ends => log[i][m] \notin Ends \cup {"run"}

(* Whoever keeps the journal's lock between two steps decides or publishes *)
(* the operation in progress; a result is the decided one.                 *)
LockInv ==
  /\ holder # None => active # None
  /\ holder \in Ids => Active(holder) /\ active.state \in Final
  /\ holder \in Recoverers =>
       \/ rec[holder].pc = "apply" /\ Active(rec[holder].id) /\ active.state \in Open
       \/ rec[holder].pc = "complete" /\ active.state \in Final
  /\ \A i \in Ids : Active(i) =>
       /\ active.state \in Open => result = None /\ decided[i] = None
       /\ active.state \in Final => result \in {None, active} /\ decided[i] # None

(* What a command is about to decide, PackageKit has announced, and the    *)
(* record shows every execution it has heard of.                           *)
OwnerOK(i) ==
  /\ own[i].pc \in {"off", "planned"} => tx[i] = "none"
  /\ own[i].pc \in {"off", "planned", "created"} => ~ Known(i) /\ own[i].view = "pending"
  /\ own[i].pc \in {"created", "admitted", "sending"} =>
       tx[i] \in {"idle", "gone"} /\ ~ EndedBy(i, Len(log[i])) /\ ~ RanBy(i, Len(log[i]))
  /\ own[i].pc \in {"admitted", "sending"} /\ tx[i] = "idle" => Owns(i)
  /\ own[i].pc \in {"admitted", "sending", "watching", "finish", "pass", "settle", "complete"} => Known(i)
  /\ own[i].want # None => own[i].pc \in {"finish", "pass", "settle", "complete"}
  /\ own[i].pc = "pass" => own[i].want \in {"succeeded", "canceled"}
  /\ own[i].want \in {"succeeded", "canceled"} => own[i].want \in Sent(i)
  /\ own[i].want = "permission-denied" => Sent(i) \cap {"permission-denied", "refused"} # {}
  /\ own[i].want \notin {None, "interrupted"} => tx[i] \in Past
  /\ own[i].at <= Len(log[i])
  /\ ~ own[i].faulted /\ own[i].view \notin Early => ~ IsEarly(i)
  /\ own[i].pc = "watching" /\ ~ own[i].faulted /\ RanBy(i, own[i].at) => ~ IsEarly(i)
  /\ own[i].want = "permission-denied" /\ RanBy(i, Len(log[i])) => own[i].pc = "finish" /\ ~ IsEarly(i)

(* What a recovery holds for evidence, PackageKit has announced, and it    *)
(* has recorded the executions it has heard of.                            *)
RecoveryOK(r) ==
  LET e == rec[r]  i == rec[r].id IN
  e.pc \notin {"idle", "complete"} =>
    /\ i \in Ids /\ Known(i) /\ tx[i] # "none"
    /\ e.state # None => e.state \in Sent(i) /\ tx[i] \in Past
    /\ e.match = "yes" => "succeeded" \in Sent(i)
    /\ e.seen /\ ~ e.present => tx[i] \in Past
    /\ ~ e.seen /\ e.failed = "none" => e.pc = "attach" \/ (e.pc = "apply" /\ ~ Owns(i))
    /\ e.pc = "attach" => e.state = None
    /\ e.at <= Len(log[i])
    /\ e.ran => ~ IsEarly(i)
    /\ e.pc = "watch" /\ ~ e.due /\ RanBy(i, e.at) /\ IsEarly(i) => e.state = None /\ EndedBy(i, e.at)
    /\ e.state = "permission-denied" /\ IsEarly(i) => ~ RanBy(i, Len(log[i]))

ControlInv ==
  /\ \A c \in Controls :
       /\ control[c].pc # "idle" => control[c].id \in Ids
       /\ control[c].pc = "sent" => control[c].id \in asked
  /\ CancelIsAddressed

(* What is known was admitted.                                             *)
LogInv      == \A i \in Ids : LogOK(i) /\ (Known(i) => tx[i] # "none")
OwnerInv    == \A i \in Ids : OwnerOK(i)
RecoveryInv == \A r \in Recoverers : RecoveryOK(r)

IInv == TypeOK /\ LogInv /\ LockInv /\ OwnerInv /\ RecoveryInv /\ ControlInv /\ ResultsTruthful /\ LiveIsOwned

-----------------------------------------------------------------------------
(* The operators: what they return.                                        *)

(* No record and no state is the absence of one.                           *)
LEMMA NoneIsNothing ==
  /\ None \notin Operations /\ None \notin Decisions /\ None \notin Open \cup Final
  /\ Open \cap Final = {} /\ Early \subseteq Open /\ Outcomes \subseteq Final
BY NoneAssumption DEF Open, Final, Early, Outcomes

LEMMA TransitionTypes == \A state \in Open : Transitions(state) \subseteq Open \cup Final
BY DEF Transitions, Open, Final, AnyTime

LEMMA SentSignals ==
  ASSUME NEW s \in Seq(Signals)
  PROVE  \A signal : signal \in ToSet(s) <=> \E k \in 1 .. Len(s) : s[k] = signal
BY DEF ToSet

(* A checkpoint never takes an execution back, nor a request to cancel.    *)
LEMMA TargetKeeps ==
  ASSUME NEW state \in Open, NEW target \in (Open \ {"pending"}) \cup {None}
  PROVE  /\ Target(state, target) \in Open
         /\ state \notin Early => Target(state, target) \notin Early
         /\ target = "running" => Target(state, target) \notin Early
         /\ Target(state, target) = "cancel-requested" =>
              state = "cancel-requested" \/ target = "cancel-requested"
<1>1. CASE target = None
  BY <1>1, NoneIsNothing DEF Target, Open, Early
<1>2. CASE target \in Open
  <2>1. target # None
    BY <1>2, NoneIsNothing
  <2>2. CASE state = "cancel-requested"
    BY <1>2, <2>1, <2>2 DEF Target, Open, Early
  <2>3. CASE state = "running"
    BY <1>2, <2>1, <2>3 DEF Target, Open, Early
  <2>4. CASE state \in Early
    BY <1>2, <2>1, <2>4 DEF Target, Open, Early
  <2> QED BY <2>2, <2>3, <2>4 DEF Open, Early
<1> QED BY <1>1, <1>2

LEMMA CheckpointEffect ==
  ASSUME TypeOK, NEW i \in Ids, NEW target \in (Open \ {"pending"}) \cup {None}, NEW system \in 0 .. 2,
         NEW next \in OwnerStates, Checkpoint(i, target, system, next)
  PROVE  /\ own' \in [Ids -> OwnerStates] /\ \A j \in Ids \ {i} : own'[j] = own[j]
         /\ \/ own[i].faulted /\ own'[i] = next /\ active' = active
            \/ /\ ~ own[i].faulted /\ active' = active
               /\ own'[i] = [next EXCEPT !.faulted = TRUE]
            \/ /\ ~ own[i].faulted /\ Free /\ Owns(i)
               /\ active' \in Operations /\ active'.id = i /\ active'.kind = active.kind
               /\ active'.state = Target(active.state, target) /\ active'.state \in Open
               /\ own'[i] = [next EXCEPT !.view = active'.state]
<1>t. own \in [Ids -> OwnerStates] /\ active \in Operations \cup {None}
  BY DEF TypeOK
<1>1. CASE own[i].faulted /\ own' = [own EXCEPT ![i] = next] /\ active' = active
  BY <1>t, <1>1
<1>2. CASE ~ own[i].faulted /\ own' = [own EXCEPT ![i] = [next EXCEPT !.faulted = TRUE]] /\ active' = active
  <2>1. [next EXCEPT !.faulted = TRUE] \in OwnerStates
    BY DEF OwnerStates
  <2> QED BY <1>t, <1>2, <2>1
<1>3. CASE /\ ~ own[i].faulted /\ Free /\ Owns(i)
           /\ active' = [active EXCEPT !.state = Target(active.state, target), !.system = Higher(@, system)]
           /\ own' = [own EXCEPT ![i] = [next EXCEPT !.view = Target(active.state, target)]]
  <2>1. active \in Operations /\ active.id = i /\ active.state \in Open
    BY <1>t, <1>3 DEF Owns
  <2>2. Target(active.state, target) \in Open
    BY <2>1, TargetKeeps
  <2>3. active' \in Operations /\ active'.id = i /\ active'.state = Target(active.state, target)
        /\ active'.kind = active.kind
    BY <1>3, <2>1, <2>2 DEF Operations, Higher
  <2>4. [next EXCEPT !.view = Target(active.state, target)] \in OwnerStates
    BY <2>2 DEF OwnerStates
  <2> QED BY <1>t, <1>3, <2>2, <2>3, <2>4
<1> QED BY <1>1, <1>2, <1>3 DEF Checkpoint

(* What PackageKit says comes after what it said.                          *)
LEMMA EmitEffect ==
  ASSUME TypeOK, NEW i \in Ids, NEW phase \in Present \cup {"gone"}, NEW signals \in Seq(Signals),
         EmitAll(i, phase, signals)
  PROVE  /\ log' \in [Ids -> Seq(Signals)] /\ tx' \in [Ids -> Present \cup {"none", "gone"}]
         /\ tx'[i] = phase
         /\ \A j \in Ids \ {i} : log'[j] = log[j] /\ tx'[j] = tx[j]
         /\ Len(log'[i]) = Len(log[i]) + Len(signals)
         /\ \A k \in 1 .. Len(log[i]) + Len(signals) :
              log'[i][k] = IF k <= Len(log[i]) THEN log[i][k] ELSE signals[k - Len(log[i])]
<1>t. log \in [Ids -> Seq(Signals)] /\ tx \in [Ids -> Present \cup {"none", "gone"}]
  BY DEF TypeOK
<1>1. log' = [log EXCEPT ![i] = log[i] \o signals] /\ tx' = [tx EXCEPT ![i] = phase]
  BY DEF EmitAll
<1>2. log[i] \o signals \in Seq(Signals)
  BY <1>t, ConcatProperties
<1>3. log'[i] = log[i] \o signals
  BY <1>t, <1>1
<1> QED BY <1>t, <1>1, <1>2, <1>3, ConcatProperties

LEMMA RecoveryTypes ==
  /\ Idle \in RecoveryStates
  /\ \A e \in RecoveryStates : Probed(e) \in RecoveryStates
  /\ \A e \in RecoveryStates, why \in {"timeout", "error", "malformed"} : Failed(e, why) \in RecoveryStates
<1>1. Idle \in RecoveryStates
  BY DEF Idle, RecoveryStates
<1>2. \A e \in RecoveryStates : Probed(e) \in RecoveryStates
  BY DEF Probed, RecoveryStates
<1>3. ASSUME NEW e \in RecoveryStates, NEW why \in {"timeout", "error", "malformed"}
      PROVE  [Idle EXCEPT !.id = e.id, !.failed = why] \in RecoveryStates
  BY <1>1 DEF RecoveryStates
<1> QED BY <1>1, <1>2, <1>3 DEF Failed

-----------------------------------------------------------------------------
(* Types.                                                                  *)

LEMMA TypeInit == Init => TypeOK
<1> SUFFICES ASSUME Init PROVE TypeOK
  OBVIOUS
<1>1. \A kind \in Kinds : OwnerAt("off", kind) \in OwnerStates
  BY DEF OwnerAt, OwnerStates, Open
<1>2. own \in [Ids -> OwnerStates]
  BY <1>1 DEF Init
<1>3. rec \in [Recoverers -> RecoveryStates]
  BY RecoveryTypes DEF Init
<1>4. log \in [Ids -> Seq(Signals)]
  BY DEF Init
<1> QED BY <1>2, <1>3, <1>4 DEF Init, TypeOK, Control, Present

(* What PackageKit says of a transaction in one step.                      *)
Emits(i, phase, signals) ==
  /\ EmitAll(i, phase, signals)
  /\ \/ tx[i] = "queued" /\ phase = "authorizing" /\ signals = <<"auth">>
     \/ tx[i] \in {"queued", "authorizing"} /\ phase = "running" /\ signals = <<"run">>
     \/ tx[i] = "running" /\ phase = "running" /\ \E signal \in Reports : signals = <<signal>>
     \/ tx[i] \in Live /\ phase = "over" /\ \E signal \in Ends : signals = <<signal>>
     \/ tx[i] \in Live /\ phase = "over" /\ \E signal \in Outcomes : signals = <<"done", signal>>
     \/ tx[i] \in {"idle", "over"} /\ phase = "gone" /\ signals = <<"destroy">>

LEMMA DaemonEmits ==
  ASSUME Daemon
  PROVE  DaemonDies \/ \E i \in Ids, phase \in Present \cup {"gone"}, signals \in Seq(Signals) :
                         Emits(i, phase, signals)
<1> SUFFICES ASSUME NEW i \in Ids,
                    \/ TxAuthorize(i) \/ TxRun(i) \/ TxDestroy(i)
                    \/ \E signal \in Reports : TxReport(i, signal)
                    \/ \E outcome \in Outcomes : TxFinish(i, outcome)
                    \/ \E reply \in Replies : TxReject(i, reply)
             PROVE  \E phase \in Present \cup {"gone"}, signals \in Seq(Signals) : Emits(i, phase, signals)
  BY DEF Daemon
<1>p. {"authorizing", "running", "over"} \subseteq Present
  BY DEF Present, Live
<1>1. \A signal \in Signals : <<signal>> \in Seq(Signals) /\ <<"done", signal>> \in Seq(Signals)
  BY DEF Signals, Statuses
<1>2. {"auth", "run", "destroy"} \cup Reports \cup Ends \subseteq Signals
  BY DEF Signals, Statuses, Ends
<1>3. CASE TxAuthorize(i)
  BY <1>1, <1>2, <1>3, <1>p DEF TxAuthorize, Emit, Emits
<1>4. CASE TxRun(i)
  BY <1>1, <1>2, <1>4, <1>p DEF TxRun, Emit, Emits
<1>5. CASE TxDestroy(i)
  BY <1>1, <1>2, <1>5 DEF TxDestroy, Emit, Emits
<1>6. ASSUME NEW signal \in Reports, TxReport(i, signal)
      PROVE  \E phase \in Present \cup {"gone"}, signals \in Seq(Signals) : Emits(i, phase, signals)
  BY <1>1, <1>2, <1>6, <1>p DEF TxReport, Emit, Emits
<1>7. ASSUME NEW outcome \in Outcomes, TxFinish(i, outcome)
      PROVE  \E phase \in Present \cup {"gone"}, signals \in Seq(Signals) : Emits(i, phase, signals)
  BY <1>1, <1>2, <1>7, <1>p DEF TxFinish, Emit, Emits, Ends
<1>8. ASSUME NEW reply \in Replies, TxReject(i, reply)
      PROVE  \E phase \in Present \cup {"gone"}, signals \in Seq(Signals) : Emits(i, phase, signals)
  BY <1>1, <1>2, <1>8, <1>p DEF TxReject, Emit, Emits, Ends, Live
<1> QED BY <1>3, <1>4, <1>5, <1>6, <1>7, <1>8

(* The death of the daemon ends every log of a transaction it had.         *)
LEMMA DeathEffect ==
  ASSUME TypeOK, DaemonDies, NEW i \in Ids
  PROVE  /\ log'[i] \in Seq(Signals)
         /\ \/ tx[i] \in Present /\ tx'[i] = "gone" /\ Len(log'[i]) = Len(log[i]) + 1
               /\ \A k \in 1 .. Len(log[i]) + 1 :
                    log'[i][k] = IF k <= Len(log[i]) THEN log[i][k] ELSE "lost"
            \/ tx[i] \notin Present /\ tx'[i] = tx[i] /\ log'[i] = log[i]
<1>t. log[i] \in Seq(Signals) /\ "lost" \in Signals
  BY DEF TypeOK, Signals
<1>1. CASE tx[i] \in Present
  <2>1. tx'[i] = "gone" /\ log'[i] = Append(log[i], "lost")
    BY <1>1 DEF DaemonDies
  <2>2. /\ Append(log[i], "lost") \in Seq(Signals)
        /\ Len(Append(log[i], "lost")) = Len(log[i]) + 1
        /\ \A k \in 1 .. Len(log[i]) : Append(log[i], "lost")[k] = log[i][k]
        /\ Append(log[i], "lost")[Len(log[i]) + 1] = "lost"
    BY <1>t, AppendProperties
  <2>3. Len(log[i]) \in Nat
    BY <1>t, LenProperties
  <2> QED BY <1>1, <2>1, <2>2, <2>3
<1>2. CASE tx[i] \notin Present
  BY <1>t, <1>2 DEF DaemonDies
<1> QED BY <1>1, <1>2

LEMMA DaemonTypes ==
  ASSUME TypeOK, Daemon
  PROVE  TypeOK'
<1>1. CASE DaemonDies
  <2>1. \A i \in Ids : log'[i] \in Seq(Signals)
    BY <1>1, DeathEffect
  <2>2. log' \in [Ids -> Seq(Signals)]
    BY <1>1, <2>1 DEF DaemonDies
  <2> QED BY <1>1, <2>2 DEF TypeOK, DaemonDies, journalVars
<1>2. ASSUME NEW i \in Ids, NEW phase \in Present \cup {"gone"}, NEW signals \in Seq(Signals),
             EmitAll(i, phase, signals)
      PROVE  TypeOK'
  BY <1>2, EmitEffect DEF TypeOK, EmitAll, journalVars
<1> QED BY <1>1, <1>2, DaemonEmits DEF Emits

LEMMA DaemonKeeps ==
  ASSUME Daemon
  PROVE  UNCHANGED <<journalVars, own, rec, control, asked, decided>>
BY DEF Daemon, TxAuthorize, TxRun, TxDestroy, TxReport, TxFinish, TxReject, Emit, EmitAll,
   DaemonDies

(* A cancel control touches the journal only to record its own request.    *)
LEMMA CancelKeeps ==
  ASSUME NEW c \in Controls, Cancel(c)
  PROVE  /\ UNCHANGED <<result, holder, daemonVars, own, rec, decided>> /\ asked \subseteq asked'
         /\ \/ UNCHANGED active
            \/ /\ Free /\ Aimed(c) /\ active.state = "running" /\ control[c].pc = "sent"
               /\ active' = [active EXCEPT !.state = "cancel-requested"]
BY DEF Cancel, CancelSelect, CancelConfirm, CancelDispatch, CancelRecord, CancelAbandon,
   ControlStep

LEMMA StopTypes ==
  ASSUME TypeOK, NEW i \in Ids, NEW state \in Final, NEW rejected \in BOOLEAN
  PROVE  /\ StopState(i) \in Final
         /\ OwnerAt("end", own[i].kind) \in OwnerStates
         /\ [own[i] EXCEPT !.pc = "finish", !.want = state, !.rejected = rejected] \in OwnerStates
<1>t. own[i] \in OwnerStates
  BY DEF TypeOK
<1>1. StopState(i) \in Final
  BY NoneIsNothing DEF StopState, Final, Outcomes
<1>2. OwnerAt("end", own[i].kind) \in OwnerStates
  BY <1>t DEF OwnerAt, OwnerStates, Open
<1>3. [own[i] EXCEPT !.pc = "finish", !.want = state, !.rejected = rejected] \in OwnerStates
  BY <1>t DEF OwnerStates
<1> QED BY <1>1, <1>2, <1>3

LEMMA PendingType ==
  ASSUME TypeOK, NEW i \in Ids
  PROVE  /\ Pending(i) \in Operations /\ Pending(i) # None
         /\ Pending(i).id = i /\ Pending(i).state = "pending"
<1>1. own[i].kind \in {"update", "refresh"}
  BY ConstantsAssumption DEF TypeOK, OwnerStates
<1>2. Pending(i) \in Operations
  BY <1>1 DEF Pending, Operations, Open
<1> QED BY <1>2, NoneIsNothing DEF Pending

(* What an owner does to its own state.                                    *)
OwnerOnly(i) == own' \in [Ids -> OwnerStates] /\ \A j \in Ids \ {i} : own'[j] = own[j]

LEMMA OwnerUpdate ==
  ASSUME TypeOK, NEW i \in Ids, NEW next \in OwnerStates, own' = [own EXCEPT ![i] = next]
  PROVE  OwnerOnly(i) /\ own'[i] = next
BY DEF TypeOK, OwnerOnly

LEMMA OwnerTypes ==
  ASSUME TypeOK, NEW i \in Ids, Owner(i) \/ KillOwner(i) \/ Retire(i)
  PROVE  OwnerOnly(i)
<1>t. /\ own[i] \in OwnerStates /\ own \in [Ids -> OwnerStates]
      /\ active \in Operations \cup {None} /\ log[i] \in Seq(Signals)
  BY DEF TypeOK
<1>o. OwnerAt("end", own[i].kind) \in OwnerStates
  BY StopTypes DEF Final
<1>e. ASSUME own' = Ended(i) PROVE OwnerOnly(i)
  BY <1>e, <1>o, OwnerUpdate DEF Ended
<1>l. Len(log[i]) \in Nat /\ own[i].at + 1 \in Nat
  BY <1>t, LenProperties DEF OwnerStates
<1>r. Read(i) \in OwnerStates
  BY <1>t, <1>l DEF Read, OwnerStates
<1>c. ASSUME NEW target \in (Open \ {"pending"}) \cup {None}, NEW system \in 0 .. 2,
             NEW next \in OwnerStates, Checkpoint(i, target, system, next)
      PROVE  OwnerOnly(i)
  BY <1>c, CheckpointEffect DEF OwnerOnly
<1>1. CASE Preflight(i)
  <2>1. own' = [own EXCEPT ![i] = [own[i] EXCEPT !.pc = "planned"]]
    BY <1>1 DEF Preflight
  <2>2. [own[i] EXCEPT !.pc = "planned"] \in OwnerStates
    BY <1>t DEF OwnerStates
  <2> QED BY <2>1, <2>2, OwnerUpdate
<1>2. CASE CreateTransaction(i)
  <2>1. own' = [own EXCEPT ![i] = [own[i] EXCEPT !.pc = "created"]]
    BY <1>2 DEF CreateTransaction
  <2>2. [own[i] EXCEPT !.pc = "created"] \in OwnerStates
    BY <1>t DEF OwnerStates
  <2> QED BY <2>1, <2>2, OwnerUpdate
<1>3. CASE Begin(i)
  <2>1. \/ own' = [own EXCEPT ![i] = [own[i] EXCEPT !.pc = "admitted"]]
        \/ own' = Ended(i)
    BY <1>3 DEF Begin
  <2>2. [own[i] EXCEPT !.pc = "admitted"] \in OwnerStates
    BY <1>t DEF OwnerStates
  <2> QED BY <1>e, <2>1, <2>2, OwnerUpdate
<1>4. CASE BeforeSend(i)
  <2>1. [own[i] EXCEPT !.pc = "sending", !.at = Len(log[i])] \in OwnerStates
    BY <1>t, <1>l DEF OwnerStates
  <2> QED BY <1>4, <1>c, <2>1 DEF BeforeSend, Open
<1>5. CASE Send(i)
  <2>1. PICK faulted \in BOOLEAN : own' = [own EXCEPT ![i] = [own[i] EXCEPT !.pc = "watching", !.faulted = faulted]]
    BY <1>5 DEF Send
  <2>2. [own[i] EXCEPT !.pc = "watching", !.faulted = faulted] \in OwnerStates
    BY <1>t DEF OwnerStates
  <2> QED BY <2>1, <2>2, OwnerUpdate
<1>6. CASE ObserveStatus(i)
  <2>1. [Read(i) EXCEPT !.waiting = Signal(i) = "auth"] \in OwnerStates
    BY <1>r DEF OwnerStates
  <2> QED BY <1>6, <1>c, <2>1, OwnerUpdate DEF ObserveStatus, Open
<1>7. CASE ObserveRestart(i)
  BY <1>7, <1>c, <1>r DEF ObserveRestart
<1>8. CASE ObserveMalformed(i)
  <2>1. [Read(i) EXCEPT !.spoiled = TRUE] \in OwnerStates
    BY <1>r DEF OwnerStates
  <2> QED BY <1>8, <2>1, OwnerUpdate DEF ObserveMalformed
<1>9. CASE CancelFaulted(i)
  <2>1. own' = own => OwnerOnly(i)
    BY <1>t DEF OwnerOnly
  <2> QED BY <1>9, <1>c, <1>t, <2>1 DEF CancelFaulted, Open
<1>10. CASE Stop(i) \/ BusCloses(i)
  <2>1. PICK state \in Final, rejected \in BOOLEAN : own' = Stopped(i, state, rejected)
    BY <1>10, StopTypes DEF Stop, BusCloses, Final
  <2>2. \/ own' = Ended(i)
        \/ own' = [own EXCEPT ![i] = [own[i] EXCEPT !.pc = "finish", !.want = state, !.rejected = rejected]]
    BY <2>1 DEF Stopped
  <2>3. [own[i] EXCEPT !.pc = "finish", !.want = state, !.rejected = rejected] \in OwnerStates
    BY StopTypes
  <2> QED BY <1>e, <2>2, <2>3, OwnerUpdate
<1>11. CASE FinishRead(i)
  <2>1. PICK want \in {own[i].want, "failed"}, pc \in {"pass", "settle"} :
          own' = [own EXCEPT ![i] = [own[i] EXCEPT !.view = active.state, !.want = want, !.pc = pc]]
    BY <1>11 DEF FinishRead
  <2>2. active.state \in Open
    BY <1>11 DEF FinishRead, Owns
  <2>3. [own[i] EXCEPT !.view = active.state, !.want = want, !.pc = pc] \in OwnerStates
    BY <1>t, <2>2 DEF OwnerStates, Final
  <2> QED BY <2>1, <2>3, OwnerUpdate
<1>12. CASE FinishPass(i)
  <2>1. [own[i] EXCEPT !.pc = "settle"] \in OwnerStates
    BY <1>t DEF OwnerStates
  <2> QED BY <1>12, <1>c, <2>1 DEF FinishPass, Open
<1>13. CASE FinishSettle(i)
  <2>1. own' = [own EXCEPT ![i] = [own[i] EXCEPT !.pc = "complete"]]
    BY <1>13 DEF FinishSettle
  <2>2. [own[i] EXCEPT !.pc = "complete"] \in OwnerStates
    BY <1>t DEF OwnerStates
  <2> QED BY <2>1, <2>2, OwnerUpdate
<1>14. CASE GiveUp(i) \/ KillOwner(i) \/ Retire(i)
  BY <1>e, <1>14 DEF GiveUp, KillOwner, Retire
<1> QED BY <1>1, <1>2, <1>3, <1>4, <1>5, <1>6, <1>7, <1>8, <1>9, <1>10, <1>11, <1>12, <1>13, <1>14
   DEF Owner

-----------------------------------------------------------------------------
(* What a step does to the journal.                                        *)

(* The operation in progress moves on: no execution is taken back, and a   *)
(* request to cancel is recorded for a reason.                             *)
Moves(i) ==
  /\ Owns(i) /\ active' \in Operations /\ active'.id = i /\ active'.state \in Open
  /\ active'.state \in Early => active.state \in Early
  /\ active'.state = "cancel-requested" =>
       active.state = "cancel-requested" \/ i \in asked' \/ "canceled" \in Sent(i)
  /\ UNCHANGED <<result, decided>>

(* It is decided, by a process that keeps the lock.                        *)
Decides(i, p, by) ==
  /\ Owns(i) /\ active' \in Operations /\ active'.id = i /\ active'.state \in Final
  /\ decided' = [decided EXCEPT ![i] = Decision(active', by)]
  /\ holder' = p /\ UNCHANGED result

Begins(i) ==
  /\ Free /\ Admissible /\ own[i].pc = "created"
  /\ active' = Pending(i) /\ UNCHANGED <<result, holder, decided>>

LEMMA CheckpointMoves ==
  ASSUME TypeOK, NEW i \in Ids, NEW target \in (Open \ {"pending"}) \cup {None}, NEW system \in 0 .. 2,
         NEW next \in OwnerStates, Checkpoint(i, target, system, next),
         target = "cancel-requested" => i \in asked' \/ "canceled" \in Sent(i),
         UNCHANGED <<result, holder, decided>>
  PROVE  active' = active \/ (Moves(i) /\ Free)
<1>1. CASE active' # active
  <2>1. /\ Free /\ Owns(i) /\ active' \in Operations /\ active'.id = i
        /\ active'.state = Target(active.state, target) /\ active'.state \in Open
    BY <1>1, CheckpointEffect
  <2>2. active.state \in Open
    BY <2>1 DEF Owns
  <2>3. /\ active'.state \in Early => active.state \in Early
        /\ active'.state = "cancel-requested" => active.state = "cancel-requested" \/ target = "cancel-requested"
    BY <2>1, <2>2, TargetKeeps
  <2> QED BY <2>1, <2>3 DEF Moves
<1> QED BY <1>1

LEMMA OwnerRecord ==
  ASSUME IInv, NEW i \in Ids, Owner(i)
  PROVE  /\ UNCHANGED <<rec, control>> /\ asked \subseteq asked' /\ asked' \subseteq asked \cup {i}
         /\ \/ UNCHANGED <<active, result, holder, decided>>
            \/ Begin(i) /\ Begins(i)
            \/ Moves(i) /\ Free /\ UNCHANGED holder
            \/ FinishSettle(i) /\ Decides(i, i, "owner")
<1>t. /\ TypeOK /\ OwnerOK(i)
      /\ own[i] \in OwnerStates /\ active \in Operations \cup {None} /\ log[i] \in Seq(Signals)
      /\ asked \subseteq Ids
  BY DEF IInv, OwnerInv, TypeOK
<1>l. Len(log[i]) \in Nat /\ own[i].at + 1 \in Nat
  BY <1>t, LenProperties DEF OwnerStates
<1>r. Read(i) \in OwnerStates
  BY <1>t, <1>l DEF Read, OwnerStates
<1>1. CASE Begin(i)
  BY <1>1 DEF Begin, Begins
<1>2. CASE BeforeSend(i)
  <2>1. [own[i] EXCEPT !.pc = "sending", !.at = Len(log[i])] \in OwnerStates
    BY <1>t, <1>l DEF OwnerStates
  <2>2. Checkpoint(i, "authorizing", 0, [own[i] EXCEPT !.pc = "sending", !.at = Len(log[i])])
        /\ UNCHANGED <<result, holder, rec, control, asked, decided>>
    BY <1>2 DEF BeforeSend
  <2>3. active' = active \/ (Moves(i) /\ Free)
    BY <1>t, <2>1, <2>2, CheckpointMoves DEF Open
  <2> QED BY <2>2, <2>3
<1>3. CASE ObserveStatus(i)
  <2>1. [Read(i) EXCEPT !.waiting = Signal(i) = "auth"] \in OwnerStates
    BY <1>r DEF OwnerStates
  <2> QED BY <1>3, <1>t, <2>1, CheckpointMoves DEF ObserveStatus, Open
<1>4. CASE ObserveRestart(i)
  <2>1. None # "cancel-requested"
    BY NoneIsNothing DEF Open
  <2> QED BY <1>4, <1>r, <1>t, <2>1, CheckpointMoves DEF ObserveRestart
<1>5. CASE CancelFaulted(i)
  <2>1. i \in asked'
    BY <1>5 DEF CancelFaulted
  <2> QED BY <1>5, <1>t, <2>1, CheckpointMoves DEF CancelFaulted, Open
<1>6. CASE FinishPass(i)
  <2>1. [own[i] EXCEPT !.pc = "settle"] \in OwnerStates
    BY <1>t DEF OwnerStates
  <2>2. own[i].want = "succeeded" \/ "canceled" \in Sent(i)
    BY <1>6, <1>t DEF FinishPass, OwnerOK
  <2>3. PICK target \in {"running", "cancel-requested"} :
          /\ Checkpoint(i, target, 0, [own[i] EXCEPT !.pc = "settle"])
          /\ target = "running" <=> own[i].want = "succeeded"
          /\ UNCHANGED <<result, holder, rec, control, asked, decided>>
    BY <1>6 DEF FinishPass
  <2>4. active' = active \/ (Moves(i) /\ Free)
    <3>1. target \in Open \ {"pending"}
      BY DEF Open
    <3>2. target = "cancel-requested" => "canceled" \in Sent(i)
      BY <2>2, <2>3
    <3> QED BY <1>t, <2>1, <2>3, <3>1, <3>2, CheckpointMoves
  <2> QED BY <2>3, <2>4
<1>7. CASE FinishSettle(i)
  <2>1. active \in Operations /\ active.id = i /\ active.state \in Open /\ Owns(i)
    BY <1>7, <1>t DEF FinishSettle, MayFollow, Owns
  <2>2. own[i].want \in Final
    BY <1>7, <1>t, <2>1, NoneIsNothing, TransitionTypes DEF FinishSettle, MayFollow, OwnerStates
  <2>3. Contribution(i) \in 0 .. 2
    BY <2>1 DEF Contribution, Higher, Operations
  <2>4. active' = [active EXCEPT !.state = own[i].want, !.system = Contribution(i)]
    BY <1>7 DEF FinishSettle
  <2>5. active' \in Operations /\ active'.id = i /\ active'.state \in Final
    BY <2>1, <2>2, <2>3, <2>4 DEF Operations
  <2> QED BY <1>7, <2>1, <2>5 DEF FinishSettle, Decides
<1>8. CASE \/ Preflight(i) \/ CreateTransaction(i) \/ Send(i) \/ ObserveMalformed(i) \/ Stop(i)
           \/ BusCloses(i) \/ FinishRead(i) \/ GiveUp(i)
  BY <1>8 DEF Preflight, CreateTransaction, Send, ObserveMalformed, Stop, BusCloses, FinishRead,
     GiveUp,
     journalVars
<1> QED BY <1>1, <1>2, <1>3, <1>4, <1>5, <1>6, <1>7, <1>8
   DEF Owner, BeforeSend, ObserveStatus, ObserveRestart, CancelFaulted, FinishPass, FinishSettle, Begin

(* What a recovery does to its own evidence.                               *)
RecoveryOnly(r) == rec' \in [Recoverers -> RecoveryStates] /\ \A q \in Recoverers \ {r} : rec'[q] = rec[q]

LEMMA RecoveryUpdate ==
  ASSUME TypeOK, NEW r \in Recoverers, NEW e \in RecoveryStates, Noted(r, e)
  PROVE  RecoveryOnly(r) /\ rec'[r] = e
BY DEF TypeOK, Noted, RecoveryOnly

(* The evidence is well-formed after each step of a recovery.              *)
LEMMA EvidenceTypes ==
  ASSUME NEW e \in RecoveryStates
  PROVE  /\ [e EXCEPT !.seen = TRUE] \in RecoveryStates
         /\ [e EXCEPT !.present = FALSE] \in RecoveryStates
         /\ [e EXCEPT !.due = FALSE, !.ran = TRUE] \in RecoveryStates
         /\ [e EXCEPT !.pc = "complete"] \in RecoveryStates
         /\ \A id \in Ids, pc \in {"apply", "attach"} :
              [e EXCEPT !.id = id, !.pc = pc] \in RecoveryStates
         /\ \A n \in Nat, present \in BOOLEAN, due \in BOOLEAN, waiting \in BOOLEAN :
              [e EXCEPT !.pc = "watch", !.at = n, !.seen = TRUE, !.present = present,
                    !.due = due, !.waiting = waiting] \in RecoveryStates
         /\ \A n \in Nat :
              [e EXCEPT !.at = n] \in RecoveryStates
         /\ \A waiting \in BOOLEAN :
              [e EXCEPT !.waiting = waiting] \in RecoveryStates
         /\ \A waiting \in BOOLEAN, due \in BOOLEAN :
              [e EXCEPT !.waiting = waiting, !.due = due] \in RecoveryStates
         /\ \A outcome \in Outcomes :
              [e EXCEPT !.state = outcome] \in RecoveryStates
         /\ \A n \in Nat, restart \in {"mild", "restart"} :
              [e EXCEPT !.at = n, !.restarts = @ \cup {restart}] \in RecoveryStates
         /\ \A match \in {"none", "no", "yes"} :
              [e EXCEPT !.match = match, !.pc = "apply"] \in RecoveryStates
         /\ \A why \in {"none", "timeout", "error", "malformed"} :
              [e EXCEPT !.pc = "apply", !.failed = why] \in RecoveryStates
<1>1. [e EXCEPT !.seen = TRUE] \in RecoveryStates
  BY DEF RecoveryStates
<1>2. [e EXCEPT !.present = FALSE] \in RecoveryStates
  BY DEF RecoveryStates
<1>3. [e EXCEPT !.due = FALSE, !.ran = TRUE] \in RecoveryStates
  BY DEF RecoveryStates
<1>4. [e EXCEPT !.pc = "complete"] \in RecoveryStates
  BY DEF RecoveryStates
<1>5. ASSUME NEW id \in Ids, NEW pc \in {"apply", "attach"}
      PROVE  [e EXCEPT !.id = id, !.pc = pc] \in RecoveryStates
  BY DEF RecoveryStates
<1>6. ASSUME NEW n \in Nat, NEW present \in BOOLEAN, NEW due \in BOOLEAN, NEW waiting \in BOOLEAN
      PROVE  [e EXCEPT !.pc = "watch", !.at = n, !.seen = TRUE, !.present = present,
                    !.due = due, !.waiting = waiting] \in RecoveryStates
  BY DEF RecoveryStates
<1>7. ASSUME NEW n \in Nat
      PROVE  [e EXCEPT !.at = n] \in RecoveryStates
  BY DEF RecoveryStates
<1>8. ASSUME NEW waiting \in BOOLEAN
      PROVE  [e EXCEPT !.waiting = waiting] \in RecoveryStates
  BY DEF RecoveryStates
<1>9. ASSUME NEW waiting \in BOOLEAN, NEW due \in BOOLEAN
      PROVE  [e EXCEPT !.waiting = waiting, !.due = due] \in RecoveryStates
  BY DEF RecoveryStates
<1>10. ASSUME NEW outcome \in Outcomes
      PROVE  [e EXCEPT !.state = outcome] \in RecoveryStates
  BY DEF RecoveryStates
<1>11. ASSUME NEW n \in Nat, NEW restart \in {"mild", "restart"}
      PROVE  [e EXCEPT !.at = n, !.restarts = @ \cup {restart}] \in RecoveryStates
  BY DEF RecoveryStates
<1>12. ASSUME NEW match \in {"none", "no", "yes"}
      PROVE  [e EXCEPT !.match = match, !.pc = "apply"] \in RecoveryStates
  BY DEF RecoveryStates
<1>13. ASSUME NEW why \in {"none", "timeout", "error", "malformed"}
      PROVE  [e EXCEPT !.pc = "apply", !.failed = why] \in RecoveryStates
  BY DEF RecoveryStates
<1> QED BY <1>1, <1>2, <1>3, <1>4, <1>5, <1>6, <1>7, <1>8, <1>9, <1>10, <1>11, <1>12, <1>13

LEMMA ProbeNotes ==
  ASSUME IInv, NEW r \in Recoverers,
         \/ RecoverLoad(r) \/ Attach(r) \/ AttachFails(r) \/ RecoverObserve(r) \/ RecoverRunning(r)
         \/ RecoverRestart(r) \/ ProbeEnds(r) \/ ReadHistory(r) \/ HistoryFails(r)
  PROVE  RecoveryOnly(r)
<1>t. /\ TypeOK /\ rec \in [Recoverers -> RecoveryStates] /\ rec[r] \in RecoveryStates
      /\ active \in Operations \cup {None} /\ log \in [Ids -> Seq(Signals)] /\ RecoveryOK(r)
  BY DEF IInv, RecoveryInv, TypeOK
<1>n. ASSUME NEW e \in RecoveryStates, Noted(r, e) PROVE RecoveryOnly(r)
  BY <1>n, <1>t, RecoveryUpdate
<1>a. rec[r].at + 1 \in Nat
  BY <1>t DEF RecoveryStates
<1>1. CASE RecoverLoad(r)
  <2>1. active.id \in Ids
    BY <1>1, <1>t DEF RecoverLoad, Operations
  <2>2. [Idle EXCEPT !.id = active.id, !.pc = IF active.state \in Final THEN "apply" ELSE "attach"] \in RecoveryStates
    BY <2>1, RecoveryTypes, EvidenceTypes
  <2> QED BY <1>1, <1>n, <2>2 DEF RecoverLoad
<1>2. CASE Attach(r)
  <2>1. Watched(r) \in Ids
    BY <1>2, <1>t DEF Attach, Watched, RecoveryOK
  <2>2. Len(log[Watched(r)]) \in Nat
    BY <1>t, <2>1, LenProperties
  <2>3. Probed([rec[r] EXCEPT !.seen = TRUE]) \in RecoveryStates
    BY <1>t, RecoveryTypes, EvidenceTypes
  <2>4. CASE tx[Watched(r)] \in Present
    <3>1. PICK present \in BOOLEAN :
            Noted(r, [rec[r] EXCEPT !.pc = "watch", !.at = Len(log[Watched(r)]), !.seen = TRUE,
                        !.present = present, !.due = tx[Watched(r)] = "running",
                        !.waiting = tx[Watched(r)] = "authorizing"])
      BY <1>2, <2>4 DEF Attach
    <3> HIDE DEF Watched
    <3> QED BY <1>t, <1>n, <2>2, <3>1, EvidenceTypes
  <2> QED BY <1>2, <1>n, <2>3, <2>4 DEF Attach
<1>3. CASE AttachFails(r)
  BY <1>3, <1>n, <1>t, RecoveryTypes DEF AttachFails
<1>4. CASE RecoverObserve(r)
  <2> DEFINE next == [rec[r] EXCEPT !.at = @ + 1]
  <2>1. next \in RecoveryStates
    BY <1>a, <1>t, EvidenceTypes
  <2>2. PICK e : /\ Noted(r, e)
                 /\ \/ \E waiting, due \in BOOLEAN :
                         e \in {[next EXCEPT !.waiting = waiting], [next EXCEPT !.waiting = waiting, !.due = due]}
                    \/ e \in {Failed(next, "malformed"), Failed(next, "error"), next, [next EXCEPT !.present = FALSE]}
                    \/ \E outcome \in Outcomes : e = [next EXCEPT !.state = outcome]
    BY <1>4 DEF RecoverObserve, Outcomes
  <2>3. e \in RecoveryStates
    <3> HIDE DEF next
    <3> QED BY <2>1, <2>2, RecoveryTypes, EvidenceTypes, ZenonT(60)
  <2> QED BY <1>n, <2>2, <2>3
<1>5. CASE RecoverRunning(r)
  BY <1>5, <1>n, <1>t, RecoveryTypes, EvidenceTypes DEF RecoverRunning
<1>6. CASE RecoverRestart(r)
  <2>1. PICK restart \in {"mild", "restart"} :
          \/ Noted(r, [rec[r] EXCEPT !.at = @ + 1, !.restarts = @ \cup {restart}])
          \/ Noted(r, Failed(rec[r], "error"))
    BY <1>6 DEF RecoverRestart
  <2> QED BY <2>1, <1>a, <1>n, <1>t, RecoveryTypes, EvidenceTypes
<1>7. CASE ProbeEnds(r)
  BY <1>7, <1>n, <1>t, RecoveryTypes DEF ProbeEnds
<1>8. CASE ReadHistory(r)
  <2>1. PICK match \in {"none", "no", "yes"} : Noted(r, [rec[r] EXCEPT !.match = match, !.pc = "apply"])
    BY <1>8 DEF ReadHistory
  <2> QED BY <2>1, <1>n, <1>t, RecoveryTypes, EvidenceTypes
<1>9. CASE HistoryFails(r)
  <2>1. PICK why \in {"none", "timeout", "error", "malformed"} :
          Noted(r, [rec[r] EXCEPT !.pc = "apply", !.failed = why])
    BY <1>9, <1>t DEF HistoryFails, RecoveryStates
  <2> QED BY <2>1, <1>n, <1>t, RecoveryTypes, EvidenceTypes
<1> QED BY <1>1, <1>2, <1>3, <1>4, <1>5, <1>6, <1>7, <1>8, <1>9

(* What a recovery does to the journal.                                    *)
LEMMA VerdictTypes ==
  ASSUME NEW e \in RecoveryStates, NEW state \in Open
  PROVE  /\ Verdict(e, state) \in Final
         /\ Intermediate(e, state) \in Open
         /\ Intermediate(e, state) \in Early => state \in Early
         /\ Intermediate(e, state) = "cancel-requested" =>
              state = "cancel-requested" \/ e.state = "canceled"
<1>1. e.state \in Outcomes \cup {None} /\ None \notin Final
  BY NoneIsNothing DEF RecoveryStates
<1>2. Verdict(e, state) \in Final /\ (Verdict(e, state) = "canceled" => e.state = "canceled")
  BY <1>1 DEF Verdict, Final, Outcomes
<1>3. CASE e.ran /\ state \in Early
  <2>1. Intermediate(e, state) = "running"
    BY <1>3 DEF Intermediate
  <2> QED BY <1>2, <2>1 DEF Open, Early
<1>4. CASE ~ (e.ran /\ state \in Early) /\ StillThere(e)
  <2>1. Intermediate(e, state) = state
    BY <1>4 DEF Intermediate
  <2> QED BY <1>2, <2>1
<1>5. CASE ~ (e.ran /\ state \in Early) /\ ~ StillThere(e)
  <2>1. Intermediate(e, state) =
          CASE Verdict(e, state) = "succeeded" /\ state \in Early -> "running"
            [] Verdict(e, state) = "permission-denied" /\ state = "pending" -> "authorizing"
            [] Verdict(e, state) = "canceled" /\ state = "running" -> "cancel-requested"
            [] OTHER -> state
    BY <1>5 DEF Intermediate
  <2> QED BY <1>2, <2>1 DEF Open, Early
<1> QED BY <1>2, <1>3, <1>4, <1>5

LEMMA RecoveryRecord ==
  ASSUME IInv, NEW r \in Recoverers, Recovery(r)
  PROVE  /\ UNCHANGED <<daemonVars, own, control, asked>> /\ RecoveryOnly(r)
         /\ \/ UNCHANGED <<active, result, holder, decided>> /\ holder # r
            \/ RecoverResume(r) \/ RecoverLeave(r)
            \/ Moves(rec[r].id) /\ Free /\ UNCHANGED holder
            \/ RecoverAdvance(r) /\ Moves(rec[r].id)
            \/ RecoverDecide(r) /\ Decides(rec[r].id, r, "recovery")
<1>t. /\ TypeOK /\ rec \in [Recoverers -> RecoveryStates] /\ rec[r] \in RecoveryStates
      /\ active \in Operations \cup {None} /\ RecoveryOK(r) /\ LockInv
      /\ None \notin Recoverers /\ r # None
  BY ConstantsAssumption DEF IInv, RecoveryInv, TypeOK
<1>n. ASSUME NEW e \in RecoveryStates, Noted(r, e) PROVE RecoveryOnly(r)
  BY <1>n, <1>t, RecoveryUpdate
<1>f. ASSUME rec[r].pc \notin {"apply", "complete"} PROVE holder # r
  BY <1>f, <1>t DEF LockInv
<1>1. CASE \/ RecoverLoad(r) \/ Attach(r) \/ AttachFails(r) \/ RecoverObserve(r)
           \/ ProbeEnds(r) \/ ReadHistory(r) \/ HistoryFails(r)
  <2>1. UNCHANGED <<journalVars, daemonVars, own, control, asked, decided>>
    BY <1>1 DEF RecoverLoad, Attach, AttachFails, RecoverObserve, ProbeEnds, ReadHistory,
       HistoryFails
  <2>2. holder # r
    BY <1>1, <1>f DEF RecoverLoad, Attach, AttachFails, RecoverObserve, RecoverUnread, ProbeEnds,
       ReadHistory, HistoryFails
  <2> QED BY <1>1, <2>1, <2>2, ProbeNotes DEF journalVars
<1>2. CASE RecoverRunning(r)
  <2>1. CASE Same(r) /\ active.state \in Open
    <3>1. active' = [active EXCEPT !.state = IF @ \in Early THEN "running" ELSE @]
      BY <1>2, <2>1 DEF RecoverRunning
    <3>2. Owns(rec[r].id) /\ active \in Operations
      BY <1>t, <2>1 DEF Same, Owns
    <3>3. /\ active' \in Operations /\ active'.id = rec[r].id /\ active'.state \in Open
          /\ active'.state \notin Early
          /\ active'.state = "cancel-requested" => active.state = "cancel-requested"
      BY <2>1, <3>1, <3>2 DEF Operations, Open, Early, Same
    <3> QED BY <1>2, <3>2, <3>3, ProbeNotes DEF RecoverRunning, Moves
  <2>2. CASE ~ (Same(r) /\ active.state \in Open)
    BY <1>2, <1>f, <2>2, ProbeNotes DEF RecoverRunning
  <2> QED BY <2>1, <2>2
<1>3. CASE RecoverRestart(r)
  <2>1. CASE Same(r) /\ active.state \in Open
    <3>1. active' = [active EXCEPT !.system = IF RecoverSignal(r) = "restart" THEN Higher(@, 2) ELSE @]
      BY <1>3, <2>1 DEF RecoverRestart
    <3>2. Owns(rec[r].id) /\ active \in Operations
      BY <1>t, <2>1 DEF Same, Owns
    <3>3. active' \in Operations /\ active'.id = rec[r].id /\ active'.state = active.state
      BY <2>1, <3>1, <3>2 DEF Operations, Same, Higher
    <3> QED BY <1>3, <2>1, <3>2, <3>3, ProbeNotes DEF RecoverRestart, Moves
  <2>2. CASE ~ (Same(r) /\ active.state \in Open)
    BY <1>3, <1>f, <2>2, ProbeNotes DEF RecoverRestart, RecoverUnread
  <2> QED BY <2>1, <2>2
<1>4. CASE RecoverStale(r)
  BY <1>4, <1>n, <1>t, RecoveryTypes DEF RecoverStale, journalVars, Free
<1>5. CASE RecoverResume(r)
  BY <1>5, <1>n, RecoveryTypes, EvidenceTypes DEF RecoverResume
<1>6. CASE RecoverLeave(r)
  BY <1>6, <1>n, RecoveryTypes DEF RecoverLeave
<1>7. CASE RecoverAdvance(r)
  <2>1. Owns(rec[r].id) /\ active \in Operations /\ active.id = rec[r].id /\ active.state \in Open
    BY <1>7, <1>t DEF RecoverAdvance, Applying, Same, Owns
  <2>2. active' = [active EXCEPT !.state = Intermediate(rec[r], active.state)]
    BY <1>7 DEF RecoverAdvance
  <2>3. /\ Intermediate(rec[r], active.state) \in Open
        /\ Intermediate(rec[r], active.state) \in Early => active.state \in Early
        /\ Intermediate(rec[r], active.state) = "cancel-requested" =>
              active.state = "cancel-requested" \/ rec[r].state = "canceled"
    BY <1>t, <2>1, VerdictTypes
  <2>4. active' \in Operations /\ active'.id = rec[r].id /\ active'.state = Intermediate(rec[r], active.state)
    BY <2>1, <2>2, <2>3 DEF Operations
  <2>5. rec[r].state = "canceled" => "canceled" \in Sent(rec[r].id)
    BY <1>7, <1>t, NoneIsNothing DEF RecoverAdvance, Applying, RecoveryOK, Final
  <2>6. Moves(rec[r].id)
    BY <1>7, <2>1, <2>3, <2>4, <2>5 DEF RecoverAdvance, Moves
  <2>7. RecoveryOnly(r) /\ UNCHANGED <<daemonVars, own, control, asked>>
    BY <1>7, <1>t DEF RecoverAdvance, RecoveryOnly
  <2> QED BY <1>7, <2>6, <2>7
<1>8. CASE RecoverDecide(r)
  <2>1. Owns(rec[r].id) /\ active \in Operations /\ active.id = rec[r].id /\ active.state \in Open
    BY <1>8, <1>t DEF RecoverDecide, Applying, Same, Owns
  <2>2. active' = [active EXCEPT !.state = Verdict(rec[r], active.state),
                                 !.system = RecoveredSystem(rec[r], active)]
    BY <1>8 DEF RecoverDecide
  <2>3. Verdict(rec[r], active.state) \in Final
    BY <1>t, <2>1, VerdictTypes
  <2>4. RecoveredSystem(rec[r], active) \in 0 .. 2
    BY <2>1 DEF RecoveredSystem, Higher, Operations
  <2>5. active' \in Operations /\ active'.id = rec[r].id /\ active'.state \in Final
    BY <2>1, <2>2, <2>3, <2>4 DEF Operations
  <2>6. Decides(rec[r].id, r, "recovery") /\ UNCHANGED <<daemonVars, own, control, asked>>
    BY <1>8, <2>1, <2>5 DEF RecoverDecide, Decides
  <2>7. RecoveryOnly(r)
    BY <1>8, <1>n, RecoveryTypes, EvidenceTypes DEF RecoverDecide
  <2> QED BY <1>8, <2>6, <2>7
<1> QED BY <1>1, <1>2, <1>3, <1>4, <1>5, <1>6, <1>7, <1>8 DEF Recovery

LEMMA TypeStep ==
  ASSUME IInv, [Next]_vars
  PROVE  TypeOK'
<1>t. /\ TypeOK /\ active \in Operations \cup {None} /\ decided \in [Ids -> Decisions \cup {None}]
      /\ own \in [Ids -> OwnerStates] /\ rec \in [Recoverers -> RecoveryStates]
      /\ log \in [Ids -> Seq(Signals)] /\ tx \in [Ids -> Present \cup {"none", "gone"}]
      /\ asked \subseteq Ids
  BY DEF IInv, TypeOK
<1>d. ASSUME NEW i \in Ids, NEW p, NEW by \in {"owner", "recovery"}, Decides(i, p, by)
      PROVE  decided' \in [Ids -> Decisions \cup {None}]
  <2>1. Decision(active', by) \in Decisions
    BY <1>d DEF Decides, Decision, Decisions, Operations
  <2> QED BY <1>d, <1>t, <2>1 DEF Decides
<1>1. CASE Daemon
  BY <1>1, <1>t, DaemonTypes
<1>2. ASSUME NEW i \in Ids, Owner(i) PROVE TypeOK'
  <2>1. active' \in Operations \cup {None}
    <3>1. Begins(i) => active' \in Operations
      BY <1>t, PendingType DEF Begins
    <3> QED BY <1>2, <1>t, <3>1, OwnerRecord DEF Moves, Decides
  <2>2. /\ result' = result /\ decided' \in [Ids -> Decisions \cup {None}]
        /\ holder' \in {holder, i} /\ rec' = rec /\ control' = control /\ asked' \subseteq Ids
    BY <1>2, <1>d, <1>t, OwnerRecord DEF Begins, Moves, Decides
  <2>3. own' \in [Ids -> OwnerStates]
    BY <1>2, <1>t, OwnerTypes DEF OwnerOnly
  <2>4. tx' \in [Ids -> Present \cup {"none", "gone"}] /\ log' \in [Ids -> Seq(Signals)]
    <3>1. CASE Send(i)
      <4>1. Append(log[i], "rejected") \in Seq(Signals)
        BY <1>t, AppendProperties DEF Signals, Replies
      <4> QED BY <1>t, <3>1, <4>1 DEF Send, Present, Live
    <3>2. CASE CreateTransaction(i)
      BY <1>t, <3>2 DEF CreateTransaction, Present
    <3>3. CASE UNCHANGED daemonVars
      BY <1>t, <3>3 DEF daemonVars
    <3> QED BY <1>2, <3>1, <3>2, <3>3 DEF Owner, Preflight, Begin, BeforeSend, ObserveStatus,
       ObserveRestart,
       ObserveMalformed, CancelFaulted, Stop, BusCloses, FinishRead, FinishPass, FinishSettle, GiveUp
  <2> QED BY <1>t, <2>1, <2>2, <2>3, <2>4 DEF TypeOK
<1>3. ASSUME NEW r \in Recoverers, Recovery(r) PROVE TypeOK'
  <2>1. UNCHANGED <<daemonVars, own, control, asked>> /\ rec' \in [Recoverers -> RecoveryStates]
    BY <1>3, RecoveryRecord DEF RecoveryOnly
  <2>2. active' \in Operations \cup {None} /\ result' = result /\ holder' \in {holder, r, None}
    BY <1>3, <1>t, RecoveryRecord DEF Moves, Decides, RecoverResume, RecoverLeave, RecoverAdvance
  <2>3. decided' \in [Ids -> Decisions \cup {None}]
    <3>1. CASE Decides(rec[r].id, r, "recovery")
      <4>1. rec[r].id \in Ids
        BY <1>t, <3>1 DEF Decides, Owns, Operations
      <4> QED BY <1>d, <3>1, <4>1
    <3> QED BY <1>3, <1>t, <3>1, RecoveryRecord DEF Moves, RecoverResume, RecoverLeave
  <2> QED BY <1>t, <2>1, <2>2, <2>3 DEF TypeOK, daemonVars
<1>4. ASSUME NEW i \in Ids, KillOwner(i) PROVE TypeOK'
  BY <1>4, <1>t, OwnerTypes DEF KillOwner, OwnerOnly, TypeOK, daemonVars
<1>5. ASSUME NEW r \in Recoverers, KillRecovery(r) PROVE TypeOK'
  BY <1>5, <1>t, RecoveryTypes, RecoveryUpdate DEF KillRecovery, RecoveryOnly, TypeOK, daemonVars
<1>6. ASSUME NEW p \in Ids \cup Recoverers, Publish(p) PROVE TypeOK'
  <2>1. active \in {op \in Operations : op.state \in Final}
    BY <1>6, <1>t, ConstantsAssumption DEF Publish, IInv, LockInv
  <2> QED BY <1>6, <1>t, <2>1 DEF Publish, TypeOK, daemonVars
<1>7. ASSUME NEW p \in Ids \cup Recoverers, Retire(p) PROVE TypeOK'
  <2>1. CASE p \in Ids
    BY <1>7, <1>t, <2>1, OwnerTypes DEF Retire, OwnerOnly, TypeOK, daemonVars
  <2>2. CASE p \notin Ids
    <3>1. p \in Recoverers /\ Noted(p, Idle)
      BY <1>7, <2>2 DEF Retire
    <3> QED BY <1>7, <1>t, <2>2, <3>1, RecoveryTypes, RecoveryUpdate DEF Retire, RecoveryOnly,
       TypeOK, daemonVars
  <2> QED BY <2>1, <2>2
<1>8. ASSUME NEW c \in Controls, Cancel(c) PROVE TypeOK'
  <2>1. control[c] \in [pc : {"idle", "selected", "confirmed", "sent"}, id : Ids \cup {None}]
    BY <1>t DEF TypeOK
  <2>2. PICK pc \in {"idle", "selected", "confirmed", "sent"}, id \in Ids \cup {None} : ControlStep(c, pc, id)
    BY <1>8, <1>t, <2>1 DEF Cancel, CancelSelect, CancelConfirm, CancelDispatch, CancelRecord,
       CancelAbandon, Operations
  <2>3. control' \in [Controls -> [pc : {"idle", "selected", "confirmed", "sent"}, id : Ids \cup {None}]]
    BY <1>t, <2>2 DEF ControlStep, Control, TypeOK
  <2>4. asked' \subseteq Ids
    BY <1>8, <1>t, <2>1, NoneIsNothing DEF Cancel, CancelSelect, CancelConfirm, CancelDispatch,
       CancelRecord, CancelAbandon, IInv, ControlInv
  <2>5. active' \in Operations \cup {None}
    <3>1. active \in Operations => [active EXCEPT !.state = "cancel-requested"] \in Operations
      BY DEF Operations, Open
    <3> QED BY <1>8, <1>t, <3>1, CancelKeeps DEF Aimed
  <2> QED BY <1>t, <2>2, <2>3, <2>4, <2>5 DEF ControlStep, TypeOK, daemonVars
<1>9. CASE Acknowledge
  BY <1>9, <1>t DEF Acknowledge, TypeOK, daemonVars
<1>10. CASE UNCHANGED vars
  BY <1>10, <1>t DEF vars, journalVars, daemonVars, TypeOK
<1> QED BY <1>1, <1>2, <1>3, <1>4, <1>5, <1>6, <1>7, <1>8, <1>9, <1>10 DEF Next

-----------------------------------------------------------------------------
(* What a step does to the log of a transaction: it only grows, and what   *)
(* is over stays so.                                                       *)
LogGrows(i) ==
  /\ Len(log[i]) <= Len(log'[i]) /\ \A k \in 1 .. Len(log[i]) : log'[i][k] = log[i][k]
  /\ EndedBy(i, Len(log[i])) /\ ~ RanBy(i, Len(log[i])) => ~ RanBy(i, Len(log[i]))'
  /\ tx[i] \in Past => tx'[i] \in Past
  /\ tx[i] # "none" => tx'[i] # "none"
  /\ tx'[i] = "none" => tx[i] = "none"
  /\ tx'[i] \in Live => tx[i] \in Live \/ (tx[i] = "idle" /\ own[i].pc = "sending")
  /\ own'[i] = own[i] /\ tx[i] \in {"none", "idle", "gone"} =>
       /\ tx[i] = "none" => tx'[i] = "none"
       /\ tx[i] # "none" => tx'[i] \in {"idle", "gone"}
       /\ tx'[i] = "idle" => tx[i] = "idle"
       /\ EndedBy(i, Len(log[i]))' => EndedBy(i, Len(log[i]))
       /\ RanBy(i, Len(log[i]))' => RanBy(i, Len(log[i]))

LEMMA LogSame ==
  ASSUME NEW i \in Ids, log[i] \in Seq(Signals), LogOK(i), log'[i] = log[i], tx'[i] = tx[i]
  PROVE  LogOK(i)' /\ LogGrows(i)
<1>1. Len(log[i]) \in Nat
  BY LenProperties
<1> QED BY <1>1 DEF LogOK, LogGrows, EndedBy, RanBy

(* What comes on top of a log decides with it what it says.                *)
LEMMA LogExtends ==
  ASSUME NEW i \in Ids, log[i] \in Seq(Signals), NEW m \in Nat, LogOK(i),
         Len(log'[i]) = Len(log[i]) + m, \A k \in 1 .. Len(log[i]) : log'[i][k] = log[i][k]
  PROVE  LET new == Len(log[i]) + 1 .. Len(log[i]) + m IN
         /\ EndedBy(i, Len(log[i]))' <=> EndedBy(i, Len(log[i])) \/ \E k \in new : log'[i][k] \in Ends
         /\ RanBy(i, Len(log[i]))' <=> RanBy(i, Len(log[i])) \/ \E k \in new : log'[i][k] = "run"
         /\ (\A k \in new : log'[i][k] \in Ends \cup {"run"} => k = Len(log[i]) + m /\ ~ EndedBy(i, Len(log[i])))
            => \A k, l \in 1 .. Len(log'[i]) :
                 k < l /\ log'[i][k] \in Ends => log'[i][l] \notin Ends \cup {"run"}
<1> DEFINE n == Len(log[i])
           new == n + 1 .. n + m
<1>1. n \in Nat
  BY LenProperties
<1>2. \A k \in 1 .. n + m : k \in 1 .. n \/ k \in new
  BY <1>1
<1>3. \A k \in 1 .. n : k \in 1 .. n + m
  BY <1>1
<1>4. \A k \in new : k \in 1 .. n + m
  BY <1>1
<1>5. EndedBy(i, Len(log[i]))' <=> \E k \in 1 .. n + m : log'[i][k] \in Ends
  BY DEF EndedBy
<1>6. RanBy(i, Len(log[i]))' <=> \E k \in 1 .. n + m : log'[i][k] = "run"
  BY DEF RanBy
<1>7. EndedBy(i, Len(log[i]))' <=> EndedBy(i, Len(log[i])) \/ \E k \in new : log'[i][k] \in Ends
  <2> HIDE DEF new
  <2> QED BY <1>2, <1>3, <1>4, <1>5 DEF EndedBy
<1>8. RanBy(i, Len(log[i]))' <=> RanBy(i, Len(log[i])) \/ \E k \in new : log'[i][k] = "run"
  <2> HIDE DEF new
  <2> QED BY <1>2, <1>3, <1>4, <1>6 DEF RanBy
<1>9. ASSUME \A k \in new : log'[i][k] \in Ends \cup {"run"} => k = n + m /\ ~ EndedBy(i, n),
             NEW k \in 1 .. n + m, NEW l \in 1 .. n + m, k < l, log'[i][k] \in Ends
      PROVE  log'[i][l] \notin Ends \cup {"run"}
  <2>1. CASE k \in 1 .. n /\ l \in 1 .. n
    BY <1>9, <2>1 DEF LogOK
  <2>2. CASE k \in 1 .. n /\ l \in new
    <3>1. log[i][k] \in Ends
      BY <1>9, <2>2
    <3>2. EndedBy(i, n)
      BY <2>2, <3>1 DEF EndedBy
    <3> QED BY <1>9, <2>2, <3>2
  <2>3. CASE k \in new
    BY <1>1, <1>9, <2>3
  <2>4. k \in 1 .. n => l \in 1 .. n \/ l \in new
    BY <1>2
  <2> QED BY <1>2, <2>1, <2>2, <2>3, <2>4
<1> QED BY <1>7, <1>8, <1>9

LEMMA LogEmits ==
  ASSUME IInv, NEW i \in Ids, NEW phase \in Present \cup {"gone"}, NEW signals \in Seq(Signals),
         Emits(i, phase, signals)
  PROVE  LogOK(i)' /\ LogGrows(i)
<1> DEFINE n == Len(log[i])
           m == Len(signals)
           new == n + 1 .. n + m
<1>t. TypeOK /\ log[i] \in Seq(Signals) /\ LogOK(i) /\ OwnerOK(i)
  BY DEF IInv, LogInv, OwnerInv, TypeOK
<1>n. n \in Nat /\ m \in Nat
  BY <1>t, LenProperties
<1>e. /\ tx'[i] = phase /\ Len(log'[i]) = n + m
      /\ \A k \in 1 .. n : log'[i][k] = log[i][k]
      /\ \A k \in new : log'[i][k] = signals[k - n]
  <2>1. /\ tx'[i] = phase /\ Len(log'[i]) = n + m
        /\ \A k \in 1 .. n + m : log'[i][k] = IF k <= n THEN log[i][k] ELSE signals[k - n]
    BY <1>t, EmitEffect DEF Emits
  <2>2. /\ \A k \in 1 .. n : k \in 1 .. n + m /\ k <= n
        /\ \A k \in new : k \in 1 .. n + m /\ ~ (k <= n)
    BY <1>n
  <2> QED BY <2>1, <2>2
<1>x. /\ EndedBy(i, Len(log[i]))' <=> EndedBy(i, n) \/ \E k \in new : log'[i][k] \in Ends
      /\ RanBy(i, Len(log[i]))' <=> RanBy(i, n) \/ \E k \in new : log'[i][k] = "run"
      /\ (\A k \in new : log'[i][k] \in Ends \cup {"run"} => k = n + m /\ ~ EndedBy(i, n))
         => \A k, l \in 1 .. Len(log'[i]) : k < l /\ log'[i][k] \in Ends => log'[i][l] \notin Ends \cup {"run"}
  BY <1>t, <1>n, <1>e, LogExtends
<1>s. \A signal \in Signals : signal \in Ends => signal \notin {"auth", "run", "done", "destroy", "lost"} \cup Reports
  BY DEF Ends, Outcomes, Replies, Reports
<1>1. ASSUME NEW signal \in Signals, signals = <<signal>>
      PROVE  m = 1 /\ new = {n + 1} /\ log'[i][n + 1] = signal
  <2>1. m = 1 /\ signals[1] = signal
    BY <1>1
  <2>2. new = {n + 1}
    BY <1>n, <2>1
  <2> QED BY <1>n, <1>e, <2>1, <2>2
<1>g. ASSUME /\ tx'[i] \in Live => ~ EndedBy(i, Len(log[i]))'
             /\ tx'[i] \in {"queued", "authorizing"} => ~ RanBy(i, Len(log[i]))'
             /\ tx'[i] = "running" => RanBy(i, Len(log[i]))'
             /\ tx'[i] = "over" => EndedBy(i, Len(log[i]))'
             /\ \A k \in new : log'[i][k] \in {"destroy", "lost"} => tx'[i] = "gone"
             /\ \A k \in new : log'[i][k] \in Ends \cup {"run"} => k = n + m /\ ~ EndedBy(i, n)
             /\ tx[i] # "gone" /\ tx'[i] \in Present \cup {"gone"} /\ tx'[i] \notin {"none", "idle"}
             /\ tx[i] = "idle" => tx'[i] = "gone" /\ \A k \in new : log'[i][k] \notin Ends \cup {"run"}
             /\ tx[i] = "over" => tx'[i] = "gone"
             /\ tx'[i] \in Live => tx[i] \in Live
             /\ tx[i] # "none"
      PROVE  LogOK(i)' /\ LogGrows(i)
  <2>1. \A k \in 1 .. n + m : log'[i][k] \in {"destroy", "lost"} => tx'[i] = "gone"
    <3>1. \A k \in 1 .. n + m : k \in 1 .. n \/ k \in new
      BY <1>n
    <3>2. \A k \in 1 .. n : log[i][k] \in {"destroy", "lost"} => tx[i] = "gone"
      BY <1>t DEF LogOK
    <3> QED BY <1>e, <1>g, <3>1, <3>2
  <2>2. \A k, l \in 1 .. Len(log'[i]) : k < l /\ log'[i][k] \in Ends => log'[i][l] \notin Ends \cup {"run"}
    BY <1>x, <1>g
  <2>3. LogOK(i)'
    BY <1>e, <1>g, <2>1, <2>2 DEF LogOK
  <2>4. EndedBy(i, n) /\ ~ RanBy(i, n) => ~ RanBy(i, Len(log[i]))'
    BY <1>x, <1>g
  <2>5. n <= n + m /\ \A k \in 1 .. n : log'[i][k] = log[i][k]
    BY <1>e, <1>n
  <2>6. tx[i] = "idle" => ~ (\E k \in new : log'[i][k] \in Ends) /\ ~ (\E k \in new : log'[i][k] = "run")
    BY <1>g
  <2>7. tx[i] \in Past => tx'[i] \in Past
    BY <1>g DEF Past
  <2> QED BY <1>e, <1>g, <1>x, <2>3, <2>4, <2>5, <2>6, <2>7 DEF LogGrows
<1> HIDE DEF n, m, new
<1>2. CASE tx[i] = "queued" /\ phase = "authorizing" /\ signals = <<"auth">>
  BY <1>1, <1>2, <1>e, <1>g, <1>s, <1>t, <1>x DEF LogOK, Live, Present, Signals, Statuses, n
<1>3. CASE tx[i] \in {"queued", "authorizing"} /\ phase = "running" /\ signals = <<"run">>
  BY <1>1, <1>3, <1>e, <1>g, <1>s, <1>t, <1>x DEF LogOK, Live, Present, Signals, Statuses, n
<1>4. CASE tx[i] = "running" /\ phase = "running" /\ \E signal \in Reports : signals = <<signal>>
  <2>1. PICK signal \in Reports : signals = <<signal>>
    BY <1>4
  <2>2. signal \in Signals /\ signal \notin Ends \cup {"run", "destroy", "lost"}
    BY DEF Signals, Reports, Ends, Outcomes, Replies
  <2>3. new = {n + 1} /\ log'[i][n + 1] = signal
    BY <1>1, <2>1, <2>2
  <2>4. ~ EndedBy(i, n) /\ RanBy(i, n)
    BY <1>4, <1>t DEF LogOK, Live, n
  <2> QED BY <1>4, <1>e, <1>g, <1>x, <2>2, <2>3, <2>4 DEF Live, Present
<1>5. CASE tx[i] \in Live /\ phase = "over" /\ \E signal \in Ends : signals = <<signal>>
  BY <1>1, <1>5, <1>e, <1>g, <1>s, <1>t, <1>x DEF LogOK, Live, Present, Signals, Ends, n
<1>6. CASE tx[i] \in Live /\ phase = "over" /\ \E signal \in Outcomes : signals = <<"done", signal>>
  <2>1. PICK signal \in Outcomes : signals = <<"done", signal>>
    BY <1>6
  <2>2. signal \in Ends /\ signal \notin {"run", "destroy", "lost"} /\ "done" \notin Ends
    BY DEF Ends, Outcomes, Replies
  <2>3. m = 2 /\ signals[1] = "done" /\ signals[2] = signal
    BY <2>1 DEF m
  <2>4. new = {n + 1, n + 2}
    BY <1>n, <2>3 DEF new
  <2>5. log'[i][n + 1] = "done" /\ log'[i][n + 2] = signal
    BY <1>e, <1>n, <2>3, <2>4
  <2>6. ~ EndedBy(i, n)
    BY <1>6, <1>t DEF LogOK, n
  <2>7. /\ EndedBy(i, Len(log[i]))'
        /\ \A k \in new : log'[i][k] \notin {"run", "destroy", "lost"}
        /\ \A k \in new : log'[i][k] \in Ends \cup {"run"} => k = n + m
    BY <1>x, <2>2, <2>3, <2>4, <2>5
  <2> QED BY <1>6, <1>e, <1>g, <2>6, <2>7 DEF Live, Present
<1>7. CASE tx[i] \in {"idle", "over"} /\ phase = "gone" /\ signals = <<"destroy">>
  BY <1>1, <1>7, <1>e, <1>g, <1>s, <1>t, <1>x DEF LogOK, Live, Present, Signals, n
<1> QED BY <1>2, <1>3, <1>4, <1>5, <1>6, <1>7 DEF Emits

(* One signal that starts and ends nothing, for a transaction that is gone.*)
LEMMA LogLost ==
  ASSUME IInv, NEW i \in Ids, NEW signal \in {"lost", "rejected"}, tx'[i] = "gone",
         tx[i] \in Present \cup {"gone"}, Len(log'[i]) = Len(log[i]) + 1,
         \A k \in 1 .. Len(log[i]) + 1 : log'[i][k] = IF k <= Len(log[i]) THEN log[i][k] ELSE signal,
         signal = "rejected" => ~ EndedBy(i, Len(log[i])) /\ own'[i] # own[i]
  PROVE  LogOK(i)' /\ LogGrows(i)
<1> DEFINE n == Len(log[i])
<1>t. log[i] \in Seq(Signals) /\ LogOK(i) /\ n \in Nat
  BY LenProperties DEF IInv, LogInv, TypeOK
<1>1. /\ \A k \in 1 .. n : log'[i][k] = log[i][k]
      /\ \A k \in n + 1 .. n + 1 : k = n + 1 /\ log'[i][k] = signal
      /\ n + 1 \in n + 1 .. n + 1 /\ log'[i][n + 1] = signal
  BY <1>t
<1>2. /\ EndedBy(i, Len(log[i]))' <=> EndedBy(i, n) \/ signal \in Ends
      /\ RanBy(i, Len(log[i]))' <=> RanBy(i, n) \/ signal = "run"
      /\ (signal \in Ends \cup {"run"} => ~ EndedBy(i, n))
         => \A k, l \in 1 .. Len(log'[i]) : k < l /\ log'[i][k] \in Ends => log'[i][l] \notin Ends \cup {"run"}
  BY <1>t, <1>1, LogExtends
<1>3. "lost" \notin Ends /\ signal # "run"
  BY DEF Ends, Outcomes, Replies
<1>4. LogOK(i)'
  BY <1>1, <1>2, <1>3, <1>t DEF LogOK, Live
<1> QED BY <1>1, <1>2, <1>3, <1>4, <1>t DEF LogGrows, Past, Present, Live

LEMMA LogStep ==
  ASSUME IInv, [Next]_vars, NEW i \in Ids
  PROVE  LogOK(i)' /\ LogGrows(i)
<1>t. /\ TypeOK /\ log[i] \in Seq(Signals) /\ LogOK(i) /\ tx[i] \in Present \cup {"none", "gone"}
      /\ tx \in [Ids -> Present \cup {"none", "gone"}] /\ log \in [Ids -> Seq(Signals)]
      /\ own \in [Ids -> OwnerStates]
  BY DEF IInv, LogInv, TypeOK
<1>1. ASSUME log'[i] = log[i], tx'[i] = tx[i] PROVE LogOK(i)' /\ LogGrows(i)
  BY <1>1, <1>t, LogSame
<1>2. CASE DaemonDies
  <2>1. \/ tx[i] \in Present /\ tx'[i] = "gone" /\ Len(log'[i]) = Len(log[i]) + 1
           /\ \A k \in 1 .. Len(log[i]) + 1 :
                log'[i][k] = IF k <= Len(log[i]) THEN log[i][k] ELSE "lost"
        \/ tx'[i] = tx[i] /\ log'[i] = log[i]
    BY <1>2, <1>t, DeathEffect
  <2> QED BY <1>1, <2>1, LogLost
<1>3. ASSUME NEW j \in Ids, NEW phase \in Present \cup {"gone"}, NEW signals \in Seq(Signals),
             Emits(j, phase, signals)
      PROVE  LogOK(i)' /\ LogGrows(i)
  <2>1. CASE i = j
    BY <1>3, <2>1, LogEmits
  <2>2. CASE i # j
    BY <1>1, <1>3, <1>t, <2>2, EmitEffect DEF Emits
  <2> QED BY <2>1, <2>2
<1>4. ASSUME NEW j \in Ids, CreateTransaction(j) PROVE LogOK(i)' /\ LogGrows(i)
  <2>1. CASE i = j
    <3>1. tx[i] = "none" /\ OwnerOK(i)
      BY <1>4, <2>1 DEF CreateTransaction, IInv, OwnerInv, OwnerOK
    <3>2. tx'[i] = "idle" /\ log'[i] = log[i] /\ own'[i].pc = "created" /\ own[i].pc = "planned"
      BY <1>4, <1>t, <2>1 DEF CreateTransaction, OwnerStates
    <3>3. Len(log[i]) = 0
      BY <1>t, <3>1 DEF LogOK
    <3> QED BY <3>1, <3>2, <3>3 DEF LogOK, LogGrows, Live, Past, EndedBy, RanBy
  <2>2. CASE i # j
    BY <1>1, <1>4, <1>t, <2>2 DEF CreateTransaction
  <2> QED BY <2>1, <2>2
<1>5. ASSUME NEW j \in Ids, Send(j) PROVE LogOK(i)' /\ LogGrows(i)
  <2>1. CASE i # j
    BY <1>1, <1>5, <1>t, <2>1 DEF Send
  <2>2. CASE i = j
    <3>1. /\ own[i].pc = "sending" /\ own'[i].pc = "watching"
          /\ tx[i] \in {"idle", "gone"} /\ ~ EndedBy(i, Len(log[i])) /\ ~ RanBy(i, Len(log[i]))
      <4>1. OwnerOK(i) /\ own[i].pc = "sending"
        BY <1>5, <2>2 DEF Send, IInv, OwnerInv
      <4>2. own'[i].pc = "watching"
        BY <1>5, <1>t, <2>2 DEF Send, OwnerStates
      <4> QED BY <4>1, <4>2 DEF OwnerOK
    <3>2. CASE tx[i] = "idle"
      <4>1. tx'[i] = "queued" /\ log'[i] = log[i]
        BY <1>5, <1>t, <2>2, <3>2 DEF Send
      <4>2. Len(log[i]) = 0
        BY <1>t, <3>2 DEF LogOK
      <4> QED BY <3>1, <3>2, <4>1, <4>2 DEF LogOK, LogGrows, Live, Past, EndedBy, RanBy
    <3>3. CASE tx[i] = "gone"
      <4>1. tx'[i] = "gone" /\ log'[i] = Append(log[i], "rejected")
        BY <1>5, <1>t, <2>2, <3>3 DEF Send
      <4>2. /\ Len(log'[i]) = Len(log[i]) + 1
            /\ \A k \in 1 .. Len(log[i]) : log'[i][k] = log[i][k]
            /\ log'[i][Len(log[i]) + 1] = "rejected"
        BY <1>t, <4>1, AppendProperties DEF Signals, Replies
      <4>3. Len(log[i]) \in Nat
        BY <1>t, LenProperties
      <4>4. \A k \in 1 .. Len(log[i]) + 1 : log'[i][k] = IF k <= Len(log[i]) THEN log[i][k] ELSE "rejected"
        BY <4>2, <4>3
      <4>5. own'[i] # own[i]
        BY <3>1
      <4> QED BY <3>1, <3>3, <4>1, <4>2, <4>4, <4>5, LogLost
    <3> QED BY <3>1, <3>2, <3>3
  <2> QED BY <2>1, <2>2
<1>6. ASSUME NEW j \in Ids, Owner(j), ~ CreateTransaction(j), ~ Send(j) PROVE UNCHANGED daemonVars
  BY <1>6 DEF Owner, Preflight, Begin, BeforeSend, ObserveStatus, ObserveRestart,
     ObserveMalformed, CancelFaulted, Stop, BusCloses, FinishRead, FinishPass, FinishSettle, GiveUp
<1>7. ASSUME NEW r \in Recoverers, Recovery(r) PROVE UNCHANGED daemonVars
  BY <1>7, RecoveryRecord
<1>8. CASE \/ \E j \in Ids : KillOwner(j)
           \/ \E r \in Recoverers : KillRecovery(r)
           \/ \E p \in Ids \cup Recoverers : Publish(p) \/ Retire(p)
           \/ \E c \in Controls : Cancel(c)
           \/ Acknowledge
  BY <1>1, <1>8, CancelKeeps DEF KillOwner, KillRecovery, Publish, Retire, Acknowledge, daemonVars
<1>9. CASE UNCHANGED daemonVars
  BY <1>1, <1>9 DEF daemonVars
<1>10. CASE UNCHANGED vars
  BY <1>9, <1>10 DEF vars, daemonVars
<1> QED BY <1>2, <1>3, <1>4, <1>5, <1>6, <1>7, <1>8, <1>9, <1>10, DaemonEmits DEF Next, Daemon

-----------------------------------------------------------------------------
(* What a step does to the record of an operation: what is known stays     *)
(* known, a decision is for good, and progress is never taken back.        *)
RecordGrows(i) ==
  /\ Known(i) => Known(i)'
  /\ decided[i] # None => decided'[i] = decided[i]
  /\ Known(i) /\ Owns(i)' => Owns(i)
  /\ Known(i) /\ IsEarly(i)' => IsEarly(i)
  /\ i \in asked => i \in asked'
  /\ Known(i)' => Known(i) \/ (own[i].pc = "created" /\ own'[i] # own[i])
  /\ own'[i] = own[i] /\ tx'[i] = "idle" /\ Owns(i) => Owns(i)'

(* A recovery decides only what PackageKit is done with.                   *)
LEMMA RecoverPast ==
  ASSUME IInv, NEW r \in Recoverers, RecoverDecide(r)
  PROVE  tx[rec[r].id] \in Past /\ rec[r].id \in Ids
<1> DEFINE e == rec[r]
           i == rec[r].id
<1>t. RecoveryOK(r) /\ e \in RecoveryStates /\ e.pc = "apply" /\ Owns(i)
  BY DEF IInv, RecoveryInv, TypeOK, RecoverDecide, Applying, Same, Owns
<1>1. i \in Ids
  BY <1>t DEF RecoveryOK
<1>2. /\ e.state # None => tx[i] \in Past
      /\ e.match = "yes" => "succeeded" \in Sent(i)
      /\ e.seen /\ ~ e.present => tx[i] \in Past
      /\ ~ (~ e.seen /\ e.failed = "none")
  BY <1>t DEF RecoveryOK
<1>3. "succeeded" \in Sent(i) => tx[i] \in Past
  <2>1. LogOK(i) /\ log[i] \in Seq(Signals) /\ tx[i] \in Present \cup {"none", "gone"} /\ Len(log[i]) \in Nat
    BY <1>1, LenProperties DEF IInv, LogInv, TypeOK
  <2>2. ASSUME "succeeded" \in Sent(i) PROVE Len(log[i]) # 0 /\ EndedBy(i, Len(log[i]))
    <3>1. PICK k \in 1 .. Len(log[i]) : log[i][k] = "succeeded"
      BY <1>1, <2>1, <2>2, SentSignals DEF Sent
    <3> QED BY <2>1, <3>1 DEF EndedBy, Ends, Outcomes
  <2> QED BY <2>1, <2>2 DEF LogOK, Live, Present, Past
<1>4. ~ Inconclusive(e) /\ ~ StillThere(e)
  BY DEF RecoverDecide
<1>5. e.match = "yes" \/ e.state # None \/ (e.seen /\ ~ e.present)
  BY <1>2, <1>4 DEF Inconclusive, StillThere, HistoryUsed
<1> QED BY <1>1, <1>2, <1>3, <1>5

(* Every step is one of these for the journal.                             *)
LEMMA JournalShape ==
  ASSUME IInv, [Next]_vars
  PROVE  /\ asked \subseteq asked'
         /\ \/ UNCHANGED <<active, decided>>
            \/ \E j \in Ids : Begin(j) /\ Begins(j)
            \/ \E j \in Ids : Moves(j) /\ (Free \/ \E r \in Recoverers : RecoverAdvance(r) /\ j = rec[r].id)
            \/ \E j \in Ids : FinishSettle(j) /\ Decides(j, j, "owner")
            \/ \E r \in Recoverers : RecoverDecide(r) /\ Decides(rec[r].id, r, "recovery")
            \/ \E p \in Ids \cup Recoverers : Retire(p)
<1>1. CASE Daemon
  BY <1>1, DaemonKeeps DEF journalVars
<1>2. ASSUME NEW i \in Ids, Owner(i)
      PROVE  /\ asked \subseteq asked'
             /\ \/ UNCHANGED <<active, decided>>
                \/ (Begin(i) /\ Begins(i)) \/ (Moves(i) /\ Free) \/ (FinishSettle(i) /\ Decides(i, i, "owner"))
  BY <1>2, OwnerRecord
<1>3. ASSUME NEW r \in Recoverers, Recovery(r)
      PROVE  /\ asked \subseteq asked'
             /\ \/ UNCHANGED <<active, decided>>
                \/ \E j \in Ids : Moves(j) /\ (Free \/ (RecoverAdvance(r) /\ j = rec[r].id))
                \/ RecoverDecide(r) /\ Decides(rec[r].id, r, "recovery")
  <2>1. Moves(rec[r].id) => rec[r].id \in Ids
    BY DEF Moves, Owns, IInv, TypeOK, Operations
  <2> QED BY <1>3, <2>1, RecoveryRecord DEF RecoverResume, RecoverLeave
<1>4. ASSUME NEW c \in Controls, Cancel(c)
      PROVE  /\ asked \subseteq asked'
             /\ UNCHANGED <<active, decided>> \/ \E j \in Ids : Moves(j) /\ Free
  <2>1. asked \subseteq asked' /\ UNCHANGED <<result, decided>>
    BY <1>4, CancelKeeps
  <2>2. CASE active' # active
    <3>1. /\ active \in Operations /\ Owns(active.id) /\ Free /\ active.id \in asked'
          /\ active' = [active EXCEPT !.state = "cancel-requested"]
      BY <1>4, <2>2, CancelKeeps DEF Aimed, Owns, IInv, TypeOK, ControlInv
    <3>2. /\ active' \in Operations /\ active'.id = active.id /\ active'.state = "cancel-requested"
          /\ active'.state \in Open \ Early
      BY <3>1 DEF Operations, Open, Early
    <3>3. Moves(active.id) /\ active.id \in Ids
      BY <2>1, <3>1, <3>2 DEF Moves, Operations
    <3> QED BY <2>1, <3>1, <3>3
  <2> QED BY <2>1, <2>2
<1>5. CASE \/ \E i \in Ids : KillOwner(i)
           \/ \E r \in Recoverers : KillRecovery(r)
           \/ \E p \in Ids \cup Recoverers : Publish(p)
           \/ Acknowledge
           \/ UNCHANGED vars
  BY <1>5 DEF KillOwner, KillRecovery, Publish, Acknowledge, vars
<1>6. CASE \E p \in Ids \cup Recoverers : Retire(p)
  BY <1>6 DEF Retire
<1> QED BY <1>1, <1>2, <1>3, <1>4, <1>5, <1>6 DEF Next

(* A decision, by whoever keeps the lock.                                  *)
LEMMA DecidesEffect ==
  ASSUME TypeOK, NEW j \in Ids, NEW p, NEW by \in {"owner", "recovery"}, Decides(j, p, by)
  PROVE  /\ decided'[j] = Decision(active', by) /\ decided'[j] # None
         /\ decided'[j].state = active'.state /\ decided'[j].by = by
         /\ \A i \in Ids \ {j} : decided'[i] = decided[i]
<1>1. Decision(active', by) \in Decisions
  BY DEF Decides, Decision, Decisions, Operations
<1>2. Decision(active', by) # None
  BY <1>1, NoneIsNothing
<1>3. decided \in [Ids -> Decisions \cup {None}]
  BY DEF TypeOK
<1> QED BY <1>2, <1>3 DEF Decides, Decision

LEMMA RecordStep ==
  ASSUME IInv, [Next]_vars, NEW i \in Ids
  PROVE  RecordGrows(i)
<1>t. /\ TypeOK /\ LockInv /\ active \in Operations \cup {None} /\ None \notin Operations
      /\ Open \cap Final = {} /\ Early \subseteq Open /\ OwnerOK(i)
  BY NoneIsNothing DEF IInv, OwnerInv, TypeOK
<1>a. asked \subseteq asked'
  BY JournalShape
<1>1. CASE UNCHANGED <<active, decided>>
  BY <1>1, <1>a DEF RecordGrows, Known, Active, Owns, IsEarly
<1>2. ASSUME NEW j \in Ids, Begin(j), Begins(j) PROVE RecordGrows(i)
  <2>1. active = None /\ active' # None /\ active'.id = j /\ decided' = decided
    BY <1>2, <1>t, PendingType DEF Begins, Admissible
  <2>2. CASE i = j
    <3>1. own[i].pc = "created" /\ own'[i] # own[i] /\ ~ Known(i)
      BY <1>2, <1>t, <2>2 DEF Begin, OwnerOK, Admissible, Ended, OwnerAt, Free, TypeOK,
         OwnerStates, Begins
    <3> QED BY <1>a, <2>1, <3>1 DEF RecordGrows, Known
  <2>3. CASE i # j
    BY <1>a, <2>1, <2>3 DEF RecordGrows, Known, Active, Owns, IsEarly
  <2> QED BY <2>2, <2>3
<1>3. ASSUME NEW j \in Ids, Moves(j) PROVE RecordGrows(i)
  <2>1. active' # None /\ active'.id = active.id /\ active # None
    BY <1>3, <1>t DEF Moves, Owns
  <2> QED BY <1>3, <1>a, <2>1 DEF Moves, RecordGrows, Known, Active, Owns, IsEarly
<1>4. ASSUME NEW j \in Ids, NEW p, NEW by \in {"owner", "recovery"}, Decides(j, p, by),
             i = j => own'[i] # own[i] \/ tx'[i] # "idle"
      PROVE  RecordGrows(i)
  <2>1. /\ active' # None /\ active'.id = j /\ active.id = j /\ active # None
        /\ active.state \in Open /\ active'.state \in Final
    BY <1>4, <1>t DEF Decides, Owns
  <2>2. decided'[j] # None /\ \A k \in Ids \ {j} : decided'[k] = decided[k]
    BY <1>4, <1>t, DecidesEffect
  <2>3. decided[j] = None
    BY <1>t, <2>1 DEF LockInv, Active
  <2>4. CASE i = j
    BY <1>4, <1>a, <1>t, <2>1, <2>2, <2>3, <2>4 DEF RecordGrows, Known, Active, Owns, IsEarly
  <2>5. CASE i # j
    BY <1>a, <1>t, <2>1, <2>2, <2>5 DEF RecordGrows, Known, Active, Owns, IsEarly
  <2> QED BY <2>4, <2>5
<1>5. ASSUME NEW j \in Ids, FinishSettle(j), Decides(j, j, "owner") PROVE RecordGrows(i)
  <2>1. own'[j] # own[j]
    BY <1>5, <1>t DEF FinishSettle, TypeOK, OwnerStates
  <2> QED BY <1>4, <1>5, <2>1
<1>6. ASSUME NEW r \in Recoverers, RecoverDecide(r), Decides(rec[r].id, r, "recovery") PROVE RecordGrows(i)
  <2>1. tx[rec[r].id] \in Past /\ rec[r].id \in Ids /\ tx' = tx
    BY <1>6, RecoverPast DEF RecoverDecide, daemonVars
  <2> QED BY <1>4, <1>6, <2>1 DEF Past
<1>7. ASSUME NEW p \in Ids \cup Recoverers, Retire(p) PROVE RecordGrows(i)
  <2>1. active' = None /\ decided' = decided /\ result = active
    BY <1>7 DEF Retire
  <2>2. active # None
    BY <1>7, <1>t, ConstantsAssumption DEF Retire, LockInv
  <2>3. CASE Active(i)
    BY <1>t, <1>a, <2>1, <2>2, <2>3 DEF LockInv, RecordGrows, Known, Active, Owns, IsEarly,
       Operations
  <2>4. CASE ~ Active(i)
    BY <1>a, <2>1, <2>4 DEF RecordGrows, Known, Active, Owns, IsEarly
  <2> QED BY <2>3, <2>4
<1> QED BY <1>1, <1>2, <1>3, <1>5, <1>6, <1>7, JournalShape

-----------------------------------------------------------------------------
(* The records of PackageKit and of the journal.                           *)

LEMMA RecordInit == Init => LogInv /\ LockInv /\ ControlInv /\ ResultsTruthful /\ LiveIsOwned
<1> SUFFICES ASSUME Init PROVE LogInv /\ LockInv /\ ControlInv /\ ResultsTruthful /\ LiveIsOwned
  OBVIOUS
<1>1. /\ active = None /\ holder = None
      /\ \A i \in Ids : tx[i] = "none" /\ log[i] = << >> /\ Len(log[i]) = 0 /\ decided[i] = None
      /\ \A c \in Controls : control[c].pc = "idle"
  BY DEF Init, Control
<1>2. LogInv
  BY <1>1 DEF LogInv, LogOK, Known, Active, Live, EndedBy, RanBy
<1>3. LockInv /\ ControlInv /\ ResultsTruthful /\ LiveIsOwned
  BY <1>1, ConstantsAssumption DEF LockInv, ControlInv, CancelIsAddressed, ResultsTruthful,
     LiveIsOwned, Live, Active
<1> QED BY <1>2, <1>3

LEMMA LogInvStep == IInv /\ [Next]_vars => LogInv'
<1> SUFFICES ASSUME IInv, [Next]_vars, NEW i \in Ids PROVE LogOK(i)' /\ (Known(i)' => tx'[i] # "none")
  BY DEF LogInv
<1>1. LogOK(i)' /\ LogGrows(i) /\ RecordGrows(i) /\ (Known(i) => tx[i] # "none") /\ OwnerOK(i)
  BY LogStep, RecordStep DEF IInv, LogInv, OwnerInv
<1>2. Known(i)' => tx[i] # "none"
  BY <1>1 DEF RecordGrows, OwnerOK
<1> QED BY <1>1, <1>2 DEF LogGrows

LEMMA LockStep == IInv /\ [Next]_vars => LockInv'
<1> SUFFICES ASSUME IInv, [Next]_vars PROVE LockInv'
  OBVIOUS
<1>t. /\ TypeOK /\ LockInv /\ active \in Operations \cup {None} /\ None \notin Operations
      /\ Open \cap Final = {} /\ None \notin Ids \cup Recoverers /\ Ids \cap Recoverers = {}
      /\ holder \in Ids \cup Recoverers \cup {None}
  BY NoneIsNothing, ConstantsAssumption DEF IInv, TypeOK
<1>u. ASSUME UNCHANGED <<active, decided>>, result' \in {result, None} \/ result' = active,
             holder' = None \/ (holder' = holder /\ (holder \in Recoverers => rec'[holder] = rec[holder])),
             active # None /\ active.state \in Open => result' = result
      PROVE  LockInv'
  <2>1. \A i \in Ids : Active(i)' =>
          /\ active'.state \in Open => result' = None /\ decided'[i] = None
          /\ active'.state \in Final => result' \in {None, active'} /\ decided'[i] # None
    BY <1>t, <1>u DEF LockInv, Active
  <2>2. CASE holder' = None
    BY <1>t, <2>1, <2>2 DEF LockInv
  <2>3. CASE holder' = holder /\ (holder \in Recoverers => rec'[holder] = rec[holder])
    BY <1>t, <1>u, <2>1, <2>3 DEF LockInv, Active
  <2> QED BY <1>u, <2>2, <2>3
<1>m. ASSUME NEW j \in Ids, Moves(j),
             holder' = None \/ (holder' \in Recoverers /\ rec'[holder'].pc = "apply" /\ rec'[holder'].id = j)
      PROVE  LockInv'
  <2>1. /\ active' \in Operations /\ active'.id = j /\ active'.state \in Open
        /\ result' = result /\ decided' = decided /\ Active(j) /\ active.state \in Open
    BY <1>m DEF Moves, Owns, Active
  <2>2. result' = None /\ decided'[j] = None
    BY <1>t, <2>1 DEF LockInv
  <2> QED BY <1>m, <1>t, <2>1, <2>2 DEF LockInv, Active
<1>d. ASSUME NEW j \in Ids, NEW p \in Ids \cup Recoverers, NEW by \in {"owner", "recovery"}, Decides(j, p, by),
             p \in Ids => p = j, p \in Recoverers => rec'[p].pc = "complete"
      PROVE  LockInv'
  <2>1. /\ active' \in Operations /\ active'.id = j /\ active'.state \in Final /\ holder' = p
        /\ result' = result /\ Active(j) /\ active.state \in Open
    BY <1>d DEF Decides, Owns, Active
  <2>2. result' = None /\ decided'[j] # None
    BY <1>d, <1>t, <2>1, DecidesEffect DEF LockInv
  <2> QED BY <1>d, <1>t, <2>1, <2>2 DEF LockInv, Active
<1>1. CASE Daemon
  <2>1. UNCHANGED <<journalVars, rec, decided>>
    BY <1>1, DaemonKeeps
  <2> QED BY <1>u, <2>1 DEF journalVars
<1>2. ASSUME NEW i \in Ids, Owner(i) PROVE LockInv'
  <2>1. rec' = rec
    BY <1>2, OwnerRecord
  <2>2. CASE UNCHANGED <<active, result, holder, decided>>
    BY <1>u, <2>1, <2>2
  <2>3. CASE Begin(i) /\ Begins(i)
    <3>1. /\ active' = Pending(i) /\ active' # None /\ holder' = None /\ result' = None
          /\ active'.id = i /\ active'.state = "pending" /\ decided' = decided
      BY <1>t, <2>3, PendingType DEF Begins, Admissible, Free
    <3>2. decided'[i] = None
      BY <2>3, <3>1 DEF Begins, IInv, OwnerInv, OwnerOK, Known
    <3> QED BY <1>t, <3>1, <3>2 DEF LockInv, Active, Final
  <2>4. CASE Moves(i) /\ Free /\ UNCHANGED holder
    BY <1>m, <2>4 DEF Free
  <2>5. CASE FinishSettle(i) /\ Decides(i, i, "owner")
    BY <1>d, <1>t, <2>5
  <2> QED BY <1>2, <2>2, <2>3, <2>4, <2>5, OwnerRecord
<1>3. ASSUME NEW r \in Recoverers, Recovery(r) PROVE LockInv'
  <2>1. \A q \in Recoverers \ {r} : rec'[q] = rec[q]
    BY <1>3, RecoveryRecord DEF RecoveryOnly
  <2>2. CASE UNCHANGED <<active, result, holder, decided>> /\ holder # r
    BY <1>u, <2>1, <2>2
  <2>3. CASE RecoverResume(r)
    <3>1. rec'[r].pc = "complete"
      BY <2>3, <1>t DEF RecoverResume, Noted, TypeOK, Idle
    <3>2. active # None /\ active.state \in Final /\ holder' = r /\ UNCHANGED <<active, result, decided>>
      BY <2>3 DEF RecoverResume, Same
    <3> QED BY <1>t, <3>1, <3>2 DEF LockInv, Active
  <2>4. CASE RecoverLeave(r)
    BY <1>u, <2>4 DEF RecoverLeave
  <2>5. CASE Moves(rec[r].id) /\ Free /\ UNCHANGED holder
    <3>1. rec[r].id \in Ids
      BY <1>t, <2>5 DEF Moves, Owns, Operations
    <3> QED BY <1>m, <2>5, <3>1 DEF Free
  <2>6. CASE RecoverAdvance(r) /\ Moves(rec[r].id)
    <3>1. rec[r].id \in Ids
      BY <1>t, <2>6 DEF Moves, Owns, Operations
    <3>2. holder' = r /\ rec' = rec /\ rec[r].pc = "apply"
      BY <2>6 DEF RecoverAdvance, Applying
    <3> QED BY <1>m, <2>6, <3>1, <3>2
  <2>7. CASE RecoverDecide(r) /\ Decides(rec[r].id, r, "recovery")
    <3>1. rec[r].id \in Ids
      BY <2>7, RecoverPast
    <3>2. rec'[r].pc = "complete"
      BY <2>7, <1>t DEF RecoverDecide, Noted, TypeOK, Idle
    <3> QED BY <1>d, <1>t, <2>7, <3>1, <3>2
  <2> QED BY <1>3, <2>2, <2>3, <2>4, <2>5, <2>6, <2>7, RecoveryRecord
<1>4. ASSUME NEW i \in Ids, KillOwner(i) PROVE LockInv'
  BY <1>4, <1>u, <1>t DEF KillOwner
<1>5. ASSUME NEW r \in Recoverers, KillRecovery(r) PROVE LockInv'
  <2>1. \A q \in Recoverers \ {r} : rec'[q] = rec[q]
    BY <1>5, <1>t, RecoveryTypes, RecoveryUpdate DEF KillRecovery, RecoveryOnly
  <2> QED BY <1>5, <1>u, <2>1 DEF KillRecovery
<1>6. ASSUME NEW p \in Ids \cup Recoverers, Publish(p) PROVE LockInv'
  BY <1>6, <1>u, <1>t DEF Publish
<1>7. ASSUME NEW p \in Ids \cup Recoverers, Retire(p) PROVE LockInv'
  BY <1>7, <1>t DEF Retire, LockInv, Active
<1>8. ASSUME NEW c \in Controls, Cancel(c) PROVE LockInv'
  <2>1. UNCHANGED <<result, holder, rec, decided>>
    BY <1>8, CancelKeeps
  <2>2. CASE active' = active
    BY <1>u, <2>1, <2>2
  <2>3. CASE active' # active
    <3>1. Free
      BY <1>8, <2>3, CancelKeeps
    <3>2. active' = [active EXCEPT !.state = "cancel-requested"] /\ active.state = "running" /\ active # None
      BY <1>8, <2>3, CancelKeeps DEF Aimed
    <3>3. active' \in Operations /\ active'.id = active.id /\ active'.state \in Open /\ active.state \in Open
      BY <1>t, <3>2 DEF Operations, Open
    <3> QED BY <1>t, <2>1, <3>1, <3>2, <3>3 DEF LockInv, Active, Free
  <2> QED BY <2>2, <2>3
<1>9. CASE Acknowledge
  BY <1>9, <1>u, <1>t DEF Acknowledge, Free
<1>10. CASE UNCHANGED vars
  BY <1>10, <1>u DEF vars
<1> QED BY <1>1, <1>2, <1>3, <1>4, <1>5, <1>6, <1>7, <1>8, <1>9, <1>10 DEF Next

(* What was announced stays so, and an end without an execution has none.  *)
LEMMA SentKept ==
  ASSUME IInv, [Next]_vars, NEW i \in Ids
  PROVE  /\ Sent(i) \subseteq Sent(i)'
         /\ Sent(i) \cap Ends # {} /\ "run" \notin Sent(i) => "run" \notin Sent(i)'
<1>t. log[i] \in Seq(Signals) /\ log'[i] \in Seq(Signals)
  BY TypeStep DEF IInv, TypeOK
<1>g. LogGrows(i)
  BY LogStep
<1>s. /\ \A signal : signal \in Sent(i) <=> \E k \in 1 .. Len(log[i]) : log[i][k] = signal
      /\ \A signal : signal \in Sent(i)' <=> \E k \in 1 .. Len(log'[i]) : log'[i][k] = signal
  BY <1>t, SentSignals DEF Sent
<1>l. Len(log[i]) \in Nat /\ Len(log'[i]) \in Nat
  BY <1>t, LenProperties
<1>1. Sent(i) \subseteq Sent(i)'
  BY <1>g, <1>s, <1>l DEF LogGrows
<1>2. ASSUME Sent(i) \cap Ends # {}, "run" \notin Sent(i) PROVE "run" \notin Sent(i)'
  <2>1. EndedBy(i, Len(log[i])) /\ ~ RanBy(i, Len(log[i]))
    BY <1>2, <1>s DEF EndedBy, RanBy
  <2>2. ~ RanBy(i, Len(log[i]))'
    BY <1>g, <2>1 DEF LogGrows
  <2> QED BY <1>s, <2>2 DEF RanBy
<1> QED BY <1>1, <1>2

(* An operation in progress ends in one of two ways.                       *)
LEMMA OwnsKept ==
  ASSUME IInv, [Next]_vars, NEW i \in Ids, Owns(i)
  PROVE  \/ Owns(i)'
         \/ FinishSettle(i) /\ Decides(i, i, "owner")
         \/ \E r \in Recoverers : rec[r].id = i /\ RecoverDecide(r) /\ Decides(i, r, "recovery")
<1>t. /\ TypeOK /\ LockInv /\ active \in Operations \cup {None} /\ None \notin Operations
      /\ Open \cap Final = {} /\ None \notin Ids \cup Recoverers
  BY NoneIsNothing, ConstantsAssumption DEF IInv, TypeOK
<1>1. CASE UNCHANGED <<active, decided>>
  BY <1>1 DEF Owns
<1>2. ASSUME NEW j \in Ids, Begins(j) PROVE FALSE
  BY <1>2 DEF Begins, Admissible, Owns
<1>3. ASSUME NEW j \in Ids, Moves(j) PROVE Owns(i)'
  BY <1>3, <1>t DEF Moves, Owns
<1>4. ASSUME NEW p \in Ids \cup Recoverers, Retire(p) PROVE FALSE
  BY <1>4, <1>t DEF Retire, LockInv, Owns, Active
<1>5. ASSUME NEW j \in Ids, NEW p, NEW by, Decides(j, p, by) PROVE i = j
  BY <1>5 DEF Decides, Owns
<1>6. ASSUME NEW r \in Recoverers, Decides(rec[r].id, r, "recovery") PROVE rec[r].id = i
  BY <1>6 DEF Decides, Owns
<1> QED BY <1>1, <1>2, <1>3, <1>4, <1>5, <1>6, JournalShape

(* What a decision says, whoever takes it.                                 *)
LEMMA OwnerDecides ==
  ASSUME IInv, NEW i \in Ids, FinishSettle(i), Decides(i, i, "owner")
  PROVE  /\ decided'[i].state = own[i].want /\ decided'[i].by = "owner" /\ decided'[i] # None
         /\ own[i].want # None /\ own[i].pc = "settle"
<1>1. TypeOK /\ active \in Operations /\ active.state \in Open
  BY NoneIsNothing DEF IInv, TypeOK, Decides, Owns
<1>2. active' = [active EXCEPT !.state = own[i].want, !.system = Contribution(i)]
  BY DEF FinishSettle
<1>3. active'.state = own[i].want
  BY <1>1, <1>2 DEF Operations
<1>4. own[i].want \in Open \cup Final
  BY <1>1, TransitionTypes DEF FinishSettle, MayFollow
<1> QED BY <1>1, <1>3, <1>4, NoneIsNothing, DecidesEffect DEF FinishSettle

LEMMA RecoveryDecides ==
  ASSUME IInv, NEW r \in Recoverers, RecoverDecide(r), Decides(rec[r].id, r, "recovery")
  PROVE  /\ decided'[rec[r].id].state = Verdict(rec[r], active.state) /\ decided'[rec[r].id] # None
         /\ rec[r].pc = "apply" /\ Active(rec[r].id)
<1>1. TypeOK /\ active \in Operations /\ active.state \in Open /\ rec[r].id \in Ids
  BY NoneIsNothing, RecoverPast DEF IInv, TypeOK, Decides, Owns
<1>2. active' = [active EXCEPT !.state = Verdict(rec[r], active.state),
                               !.system = RecoveredSystem(rec[r], active)]
  BY DEF RecoverDecide
<1>3. active'.state = Verdict(rec[r], active.state)
  BY <1>1, <1>2 DEF Operations
<1> QED BY <1>1, <1>3, DecidesEffect DEF RecoverDecide, Applying, Same, Active

LEMMA TruthStep == IInv /\ [Next]_vars => ResultsTruthful'
<1> SUFFICES ASSUME IInv, [Next]_vars, NEW i \in Ids, decided'[i] # None
             PROVE  /\ decided'[i].state \in {"succeeded", "canceled"} => decided'[i].state \in Sent(i)'
                    /\ decided'[i].state = "permission-denied" =>
                         Sent(i)' \cap {"permission-denied", "refused"} # {} /\ "run" \notin Sent(i)'
  BY DEF ResultsTruthful
<1>t. OwnerOK(i) /\ log[i] \in Seq(Signals) /\ Len(log[i]) \in Nat /\ LogOK(i)
  BY LenProperties DEF IInv, OwnerInv, LogInv, TypeOK
<1>s. /\ \A signal : signal \in Sent(i) <=> \E k \in 1 .. Len(log[i]) : log[i][k] = signal
      /\ Sent(i) \subseteq Sent(i)'
      /\ Sent(i) \cap Ends # {} /\ "run" \notin Sent(i) => "run" \notin Sent(i)'
      /\ {"permission-denied", "refused"} \subseteq Ends
  BY <1>t, SentSignals, SentKept DEF Sent, Ends, Outcomes, Replies
<1>1. ASSUME NEW state, decided'[i].state = state,
             state \in {"succeeded", "canceled"} => state \in Sent(i),
             state = "permission-denied" =>
               Sent(i) \cap {"permission-denied", "refused"} # {} /\ ~ RanBy(i, Len(log[i]))
      PROVE  /\ decided'[i].state \in {"succeeded", "canceled"} => decided'[i].state \in Sent(i)'
             /\ decided'[i].state = "permission-denied" =>
                  Sent(i)' \cap {"permission-denied", "refused"} # {} /\ "run" \notin Sent(i)'
  <2>1. CASE state = "permission-denied"
    <3>1. "run" \notin Sent(i)
      BY <1>1, <1>s, <2>1 DEF RanBy
    <3> QED BY <1>1, <1>s, <2>1, <3>1
  <2> QED BY <1>1, <1>s, <2>1
<1>2. CASE decided[i] # None
  <2>1. decided'[i] = decided[i]
    BY <1>2, RecordStep DEF RecordGrows
  <2> QED BY <1>1, <1>2, <1>s, <2>1 DEF IInv, ResultsTruthful, RanBy
<1>3. CASE FinishSettle(i) /\ Decides(i, i, "owner")
  <2>1. decided'[i].state = own[i].want /\ own[i].want # None /\ own[i].pc = "settle"
    BY <1>3, OwnerDecides
  <2> QED BY <1>1, <1>t, <2>1 DEF OwnerOK
<1>4. ASSUME NEW r \in Recoverers, rec[r].id = i, RecoverDecide(r), Decides(i, r, "recovery")
      PROVE  /\ decided'[i].state \in {"succeeded", "canceled"} => decided'[i].state \in Sent(i)'
             /\ decided'[i].state = "permission-denied" =>
                  Sent(i)' \cap {"permission-denied", "refused"} # {} /\ "run" \notin Sent(i)'
  <2>1. /\ decided'[i].state = Verdict(rec[r], active.state) /\ rec[r].pc = "apply" /\ Active(i)
        /\ RecoveryOK(r) /\ rec[r] \in RecoveryStates
    BY <1>4, RecoveryDecides DEF IInv, RecoveryInv, TypeOK
  <2>2. /\ rec[r].state # None => rec[r].state \in Sent(i)
        /\ rec[r].match = "yes" => "succeeded" \in Sent(i)
        /\ rec[r].state = "permission-denied" /\ IsEarly(i) => ~ RanBy(i, Len(log[i]))
    BY <1>4, <2>1 DEF RecoveryOK
  <2>3. Verdict(rec[r], active.state) = "permission-denied" =>
          rec[r].state = "permission-denied" /\ active.state \in Early
    BY <2>1, NoneIsNothing DEF Verdict, Outcomes, Final
  <2>4. Verdict(rec[r], active.state) \in {"succeeded", "canceled"} =>
          Verdict(rec[r], active.state) = rec[r].state \/ (rec[r].match = "yes" /\ Verdict(rec[r], active.state) = "succeeded")
    BY DEF Verdict
  <2>5. None # "permission-denied" /\ None # "succeeded" /\ None # "canceled"
    BY NoneIsNothing DEF Final
  <2> QED BY <1>1, <2>1, <2>2, <2>3, <2>4, <2>5 DEF IsEarly
<1>5. CASE decided[i] = None
  <2>1. ASSUME NEW j \in Ids, NEW p, NEW by \in {"owner", "recovery"}, Decides(j, p, by) PROVE i = j
    BY <2>1, <1>5, DecidesEffect DEF IInv
  <2>2. ~ UNCHANGED decided
    BY <1>5
  <2>3. \A r \in Recoverers : RecoverDecide(r) => rec[r].id \in Ids
    BY RecoverPast
  <2> QED BY <1>3, <1>4, <2>1, <2>2, <2>3, JournalShape DEF Begins, Moves, Retire
<1> QED BY <1>2, <1>5

LEMMA LiveStep == IInv /\ [Next]_vars => LiveIsOwned'
<1> SUFFICES ASSUME IInv, [Next]_vars, NEW i \in Ids, tx'[i] \in Live
             PROVE  \/ Owns(i)'
                    \/ decided'[i] # None /\ decided'[i].state = "interrupted" /\ decided'[i].by = "owner"
  BY DEF LiveIsOwned
<1>t. OwnerOK(i) /\ LiveIsOwned /\ LogGrows(i) /\ RecordGrows(i)
  BY LogStep, RecordStep DEF IInv, OwnerInv
<1>1. Owns(i) \/ (decided[i] # None /\ decided[i].state = "interrupted" /\ decided[i].by = "owner")
  BY <1>t DEF LogGrows, OwnerOK, LiveIsOwned
<1>2. CASE decided[i] # None /\ decided[i].state = "interrupted" /\ decided[i].by = "owner"
  BY <1>2, <1>t DEF RecordGrows
<1>3. CASE Owns(i)
  <2>1. CASE FinishSettle(i) /\ Decides(i, i, "owner")
    <3>1. tx[i] \notin Past
      BY <1>t DEF LogGrows, Past, Live
    <3> QED BY <1>t, <2>1, <3>1, OwnerDecides DEF OwnerOK
  <2>2. ASSUME NEW r \in Recoverers, rec[r].id = i, RecoverDecide(r) PROVE FALSE
    BY <1>t, <2>2, RecoverPast DEF LogGrows, Past, Live
  <2> QED BY <1>3, <2>1, <2>2, OwnsKept
<1> QED BY <1>1, <1>2, <1>3

LEMMA ControlInvStep == IInv /\ [Next]_vars => ControlInv'
<1> SUFFICES ASSUME IInv, [Next]_vars PROVE ControlInv'
  OBVIOUS
<1>t. /\ TypeOK /\ ControlInv /\ active \in Operations \cup {None} /\ asked \subseteq asked'
      /\ control \in [Controls -> [pc : {"idle", "selected", "confirmed", "sent"}, id : Ids \cup {None}]]
      /\ None \notin Operations
  BY JournalShape, NoneIsNothing DEF IInv, TypeOK
<1>1. ASSUME NEW c \in Controls
      PROVE  /\ control'[c].pc # "idle" => control'[c].id \in Ids
             /\ control'[c].pc = "sent" => control'[c].id \in asked'
  <2>c. /\ control[c].pc # "idle" => control[c].id \in Ids
        /\ control[c].pc = "sent" => control[c].id \in asked
    BY <1>t DEF ControlInv
  <2>1. CASE control'[c] = control[c]
    BY <1>t, <2>1, <2>c
  <2>2. CASE Cancel(c)
    <3>1. PICK pc \in {"idle", "selected", "confirmed", "sent"}, id \in Ids \cup {None} :
            /\ ControlStep(c, pc, id)
            /\ pc # "idle" => id \in Ids
            /\ pc = "sent" => id \in asked'
      BY <1>t, <2>2, <2>c DEF Cancel, CancelSelect, CancelConfirm, CancelDispatch, CancelRecord,
         CancelAbandon,
         Operations
    <3>2. control'[c] = Control(pc, id)
      BY <1>t, <3>1 DEF ControlStep
    <3> QED BY <3>1, <3>2 DEF Control
  <2>3. ASSUME NEW d \in Controls, Cancel(d), d # c PROVE control'[c] = control[c]
    BY <1>t, <2>3 DEF Cancel, CancelSelect, CancelConfirm, CancelDispatch, CancelRecord,
       CancelAbandon, ControlStep
  <2>4. CASE Daemon
    BY <2>1, <2>4, DaemonKeeps
  <2>5. ASSUME NEW i \in Ids, Owner(i) PROVE control' = control
    BY <2>5, OwnerRecord
  <2>6. ASSUME NEW r \in Recoverers, Recovery(r) PROVE control' = control
    BY <2>6, RecoveryRecord
  <2>7. CASE \/ \E i \in Ids : KillOwner(i)
             \/ \E r \in Recoverers : KillRecovery(r)
             \/ \E p \in Ids \cup Recoverers : Publish(p) \/ Retire(p)
             \/ Acknowledge
             \/ UNCHANGED vars
    BY <2>1, <2>7 DEF KillOwner, KillRecovery, Publish, Retire, Acknowledge, vars
  <2> QED BY <2>1, <2>2, <2>3, <2>4, <2>5, <2>6, <2>7 DEF Next
<1>2. ASSUME NEW j \in Ids, active' # None, active'.id = j, active'.state = "cancel-requested"
      PROVE  j \in asked' \/ "canceled" \in Sent(j)'
  <2>1. CASE active' = active
    <3>1. j \in asked \/ "canceled" \in Sent(j)
      BY <1>t, <1>2, <2>1 DEF ControlInv, CancelIsAddressed
    <3> QED BY <1>t, <3>1, SentKept
  <2>2. ASSUME NEW k \in Ids, Begins(k) PROVE FALSE
    BY <1>2, <2>2 DEF Begins, Pending
  <2>3. ASSUME NEW k \in Ids, Moves(k) PROVE j \in asked' \/ "canceled" \in Sent(j)'
    <3>1. j = k /\ active # None /\ active.id = j
      BY <1>t, <1>2, <2>3 DEF Moves, Owns
    <3>2. j \in asked' \/ "canceled" \in Sent(j)
      BY <1>2, <1>t, <2>3, <3>1 DEF Moves, ControlInv, CancelIsAddressed
    <3> QED BY <3>2, SentKept
  <2>4. ASSUME NEW k, NEW p, NEW by, Decides(k, p, by) PROVE FALSE
    BY <1>2, <2>4 DEF Decides, Final
  <2>5. ASSUME NEW p \in Ids \cup Recoverers, Retire(p) PROVE FALSE
    BY <1>2, <2>5 DEF Retire
  <2> QED BY <2>1, <2>2, <2>3, <2>4, <2>5, JournalShape
<1>3. CancelIsAddressed'
  <2>1. active' \in Operations \cup {None}
    BY TypeStep DEF TypeOK
  <2> QED BY <1>2, <2>1 DEF CancelIsAddressed, Operations, Sent
<1> QED BY <1>1, <1>3 DEF ControlInv

-----------------------------------------------------------------------------
(* The owners.                                                             *)

LEMMA OwnerInit == Init => OwnerInv
<1> SUFFICES ASSUME Init, NEW i \in Ids PROVE OwnerOK(i)
  BY DEF OwnerInv
<1>1. PICK kind \in Kinds : own[i] = OwnerAt("off", kind)
  BY DEF Init
<1>2. /\ tx[i] = "none" /\ log[i] = << >> /\ Len(log[i]) = 0 /\ decided[i] = None /\ active = None
      /\ None \notin {"succeeded", "canceled", "permission-denied"}
  BY NoneIsNothing DEF Init, Final
<1> QED BY <1>1, <1>2 DEF OwnerOK, OwnerAt, Known, Active, IsEarly, RanBy, Early

(* An owner that does nothing is not disturbed.                            *)
LEMMA OwnerKept ==
  ASSUME IInv, [Next]_vars, NEW i \in Ids, own'[i] = own[i]
  PROVE  OwnerOK(i)'
<1>t. /\ OwnerOK(i) /\ LogGrows(i) /\ RecordGrows(i) /\ Sent(i) \subseteq Sent(i)'
      /\ log[i] \in Seq(Signals) /\ Len(log[i]) \in Nat /\ Len(log'[i]) \in Nat /\ own[i].at \in Nat
  BY LogStep, RecordStep, SentKept, TypeStep, LenProperties DEF IInv, OwnerInv, TypeOK,
     OwnerStates
<1>1. IsEarly(i)' => IsEarly(i)
  BY <1>t DEF RecordGrows, Known, IsEarly
<1>2. ASSUME own[i].want = "permission-denied", RanBy(i, Len(log[i]))' PROVE RanBy(i, Len(log[i]))
  <2>1. EndedBy(i, Len(log[i]))
    <3>1. PICK signal \in {"permission-denied", "refused"} : signal \in Sent(i)
      BY <1>t, <1>2 DEF OwnerOK
    <3>2. PICK k \in 1 .. Len(log[i]) : log[i][k] = signal
      BY <1>t, <3>1, SentSignals DEF Sent
    <3> QED BY <3>2 DEF EndedBy, Ends, Outcomes, Replies
  <2> QED BY <1>t, <1>2, <2>1 DEF LogGrows
<1>3. RanBy(i, own[i].at)' => RanBy(i, own[i].at)
  <2>1. own[i].at <= Len(log[i])
    BY <1>t DEF OwnerOK
  <2> QED BY <1>t, <2>1 DEF RanBy, LogGrows
<1>4. /\ own[i].pc \in {"off", "planned"} => tx'[i] = "none"
      /\ own[i].pc \in {"off", "planned", "created"} => ~ Known(i)'
      /\ own[i].pc \in {"created", "admitted", "sending"} =>
           tx'[i] \in {"idle", "gone"} /\ ~ EndedBy(i, Len(log[i]))' /\ ~ RanBy(i, Len(log[i]))'
  BY <1>t DEF OwnerOK, LogGrows, RecordGrows
<1>5. /\ own[i].pc \in {"admitted", "sending"} /\ tx'[i] = "idle" => Owns(i)'
      /\ own[i].pc \in {"admitted", "sending", "watching", "finish", "pass", "settle", "complete"} => Known(i)'
      /\ own[i].want \notin {None, "interrupted"} => tx'[i] \in Past
      /\ own[i].at <= Len(log'[i])
  BY <1>t DEF OwnerOK, LogGrows, RecordGrows
<1> QED BY <1>t, <1>1, <1>2, <1>3, <1>4, <1>5 DEF OwnerOK

(* What an owner's own step must leave behind.                             *)
LEMMA OwnerFits ==
  ASSUME NEW i \in Ids, NEW o, own'[i] = o, log'[i] = log[i], tx'[i] = tx[i],
         o.pc \in {"off", "planned"} => tx[i] = "none",
         o.pc \in {"off", "planned", "created"} => ~ Known(i)' /\ o.view = "pending",
         o.pc \in {"created", "admitted", "sending"} =>
           tx[i] \in {"idle", "gone"} /\ ~ EndedBy(i, Len(log[i])) /\ ~ RanBy(i, Len(log[i])),
         o.pc \in {"admitted", "sending"} /\ tx[i] = "idle" => Owns(i)',
         o.pc \in {"admitted", "sending", "watching", "finish", "pass", "settle", "complete"} => Known(i)',
         o.want # None => o.pc \in {"finish", "pass", "settle", "complete"},
         o.pc = "pass" => o.want \in {"succeeded", "canceled"},
         o.want \in {"succeeded", "canceled"} => o.want \in Sent(i),
         o.want = "permission-denied" => Sent(i) \cap {"permission-denied", "refused"} # {},
         o.want \notin {None, "interrupted"} => tx[i] \in Past,
         o.at <= Len(log[i]),
         ~ o.faulted /\ o.view \notin Early => ~ IsEarly(i)',
         o.pc = "watching" /\ ~ o.faulted /\ RanBy(i, o.at) => ~ IsEarly(i)',
         o.want = "permission-denied" /\ RanBy(i, Len(log[i])) => o.pc = "finish" /\ ~ IsEarly(i)'
  PROVE  OwnerOK(i)'
BY DEF OwnerOK, Sent, EndedBy, RanBy

LEMMA OwnerEnds ==
  ASSUME IInv, [Next]_vars, NEW i \in Ids, own' = Ended(i)
  PROVE  OwnerOK(i)'
<1>1. own'[i].pc = "end" /\ own'[i].want = None /\ own'[i].at = 0 /\ own'[i].view = "pending"
  BY DEF Ended, OwnerAt, IInv, TypeOK
<1>2. Len(log'[i]) \in Nat /\ None \notin {"succeeded", "canceled", "permission-denied"}
  BY TypeStep, NoneIsNothing, LenProperties DEF TypeOK, Final
<1> QED BY <1>1, <1>2 DEF OwnerOK, Early

(* A checkpoint the owner may rely on leaves the state it asked for.       *)
LEMMA CheckpointKeeps ==
  ASSUME IInv, NEW i \in Ids, NEW target \in (Open \ {"pending"}) \cup {None}, NEW system \in 0 .. 2,
         NEW next \in OwnerStates, Checkpoint(i, target, system, next),
         next.view = own[i].view, next.faulted = own[i].faulted
  PROVE  /\ Owns(i) => Owns(i)'
         /\ ~ own'[i].faulted /\ own'[i].view \notin Early => ~ IsEarly(i)'
         /\ target = "running" /\ ~ own'[i].faulted => ~ IsEarly(i)'
         /\ own[i].faulted => own'[i].faulted
         /\ own'[i].pc = next.pc /\ own'[i].at = next.at /\ own'[i].want = next.want
         /\ own'[i].kind = next.kind /\ own'[i].waiting = next.waiting
         /\ own'[i].rejected = next.rejected /\ own'[i].spoiled = next.spoiled
<1>t. TypeOK /\ OwnerOK(i) /\ None \notin Operations
  BY NoneIsNothing DEF IInv, OwnerInv
<1>1. CASE own[i].faulted /\ own'[i] = next /\ active' = active
  BY <1>1 DEF Owns
<1>2. CASE own'[i] = [next EXCEPT !.faulted = TRUE] /\ active' = active
  BY <1>2 DEF Owns, OwnerStates
<1>3. CASE /\ ~ own[i].faulted /\ Free /\ Owns(i)
           /\ active' \in Operations /\ active'.id = i /\ active'.kind = active.kind
           /\ active'.state = Target(active.state, target) /\ active'.state \in Open
           /\ own'[i] = [next EXCEPT !.view = active'.state]
  <2>1. target = "running" => active'.state \notin Early
    BY <1>3, TargetKeeps DEF Owns
  <2>2. own'[i].view = active'.state
    BY <1>3 DEF OwnerStates
  <2>3. Owns(i)'
    BY <1>3, <1>t DEF Owns
  <2> QED BY <1>3, <2>1, <2>2, <2>3 DEF IsEarly
<1>4. /\ own'[i].pc = next.pc /\ own'[i].at = next.at /\ own'[i].want = next.want
      /\ own'[i].kind = next.kind /\ own'[i].waiting = next.waiting
      /\ own'[i].rejected = next.rejected /\ own'[i].spoiled = next.spoiled
  <2>1. \/ own'[i] = next
        \/ own'[i] = [next EXCEPT !.faulted = TRUE]
        \/ own'[i] = [next EXCEPT !.view = active'.state]
    BY <1>t, CheckpointEffect
  <2> QED BY <2>1 DEF OwnerStates
<1> QED BY <1>t, <1>1, <1>2, <1>3, <1>4, CheckpointEffect

LEMMA OwnerBegins ==
  ASSUME IInv, [Next]_vars, NEW i \in Ids,
         Preflight(i) \/ CreateTransaction(i) \/ Begin(i) \/ BeforeSend(i) \/ Send(i)
  PROVE  OwnerOK(i)'
<1>t. /\ OwnerOK(i) /\ LogOK(i) /\ RecordGrows(i) /\ TypeOK
      /\ own \in [Ids -> OwnerStates] /\ own[i] \in OwnerStates
      /\ log[i] \in Seq(Signals) /\ Len(log[i]) \in Nat
      /\ tx[i] \in Present \cup {"none", "gone"} /\ tx \in [Ids -> Present \cup {"none", "gone"}]
  BY RecordStep, LenProperties DEF IInv, OwnerInv, LogInv, TypeOK
<1>1. CASE Preflight(i)
  <2>1. /\ own'[i] = [own[i] EXCEPT !.pc = "planned"] /\ own[i].pc = "off"
        /\ UNCHANGED <<active, decided>> /\ log'[i] = log[i] /\ tx'[i] = tx[i]
    BY <1>1, <1>t DEF Preflight, journalVars, daemonVars
  <2> DEFINE o == own'[i]
  <2>2. /\ o.pc = "planned" /\ o.at = own[i].at /\ o.want = own[i].want
        /\ o.view = own[i].view /\ o.faulted = own[i].faulted
    BY <1>t, <2>1 DEF OwnerStates
  <2>3. own[i].want = None /\ tx[i] = "none" /\ ~ Known(i)
    BY <1>t, <2>1 DEF OwnerOK
  <2>4. None \notin {"succeeded", "canceled", "permission-denied"}
    BY NoneIsNothing DEF Final
  <2> HIDE DEF o
  <2> QED BY <1>t, <2>1, <2>2, <2>3, <2>4, OwnerFits DEF OwnerOK, Known, Active, Owns, IsEarly, o
<1>2. CASE CreateTransaction(i)
  <2>1. /\ own'[i] = [own[i] EXCEPT !.pc = "created"] /\ own[i].pc = "planned"
        /\ UNCHANGED <<active, decided>> /\ log'[i] = log[i] /\ tx'[i] = "idle"
    BY <1>2, <1>t DEF CreateTransaction, journalVars
  <2>2. /\ own'[i].pc = "created" /\ own'[i].at = own[i].at /\ own'[i].want = own[i].want
        /\ own'[i].view = own[i].view /\ own'[i].faulted = own[i].faulted
    BY <1>t, <2>1 DEF OwnerStates
  <2>3. own[i].want = None /\ own[i].view = "pending" /\ Len(log[i]) = 0 /\ own[i].at <= 0 /\ ~ Known(i)'
    BY <1>t, <2>1 DEF OwnerOK, LogOK, Known, Active
  <2>4. ~ EndedBy(i, Len(log[i]))' /\ ~ RanBy(i, Len(log[i]))' /\ ~ IsEarly(i)'
        /\ None \notin {"succeeded", "canceled", "permission-denied"}
    BY <2>1, <2>3, NoneIsNothing DEF EndedBy, RanBy, Known, IsEarly, Final
  <2> QED BY <1>t, <2>1, <2>2, <2>3, <2>4 DEF OwnerOK
<1>3. CASE Begin(i)
  <2>1. CASE own' = Ended(i)
    BY <2>1, OwnerEnds
  <2>2. CASE active' = Pending(i) /\ own' = [own EXCEPT ![i].pc = "admitted"]
    <3>1. /\ own'[i] = [own[i] EXCEPT !.pc = "admitted"] /\ own[i].pc = "created"
          /\ log'[i] = log[i] /\ tx'[i] = tx[i]
      BY <1>3, <1>t, <2>2 DEF Begin, daemonVars
    <3> DEFINE o == own'[i]
    <3>2. /\ o.pc = "admitted" /\ o.at = own[i].at /\ o.want = own[i].want
          /\ o.view = own[i].view /\ o.faulted = own[i].faulted
      BY <1>t, <3>1 DEF OwnerStates
    <3>3. own[i].want = None /\ Owns(i)' /\ Known(i)'
      <4>1. active' # None /\ active'.id = i /\ active'.state \in Open
        BY <1>t, <2>2, PendingType DEF Open
      <4> QED BY <1>t, <3>1, <4>1 DEF OwnerOK, Owns, Known, Active
    <3>4. own[i].view \in Early
      BY <1>t, <3>1 DEF OwnerOK, Early
    <3>5. None \notin {"succeeded", "canceled", "permission-denied"}
      BY NoneIsNothing DEF Final
    <3> HIDE DEF o
    <3> QED BY <1>t, <3>1, <3>2, <3>3, <3>4, <3>5, OwnerFits DEF OwnerOK, o
  <2> QED BY <1>3, <2>1, <2>2 DEF Begin
<1>4. CASE BeforeSend(i)
  <2> DEFINE next == [own[i] EXCEPT !.pc = "sending", !.at = Len(log[i])]
             o == own'[i]
  <2>1. /\ Checkpoint(i, "authorizing", 0, next) /\ own[i].pc = "admitted"
        /\ log'[i] = log[i] /\ tx'[i] = tx[i]
    BY <1>4 DEF BeforeSend, daemonVars
  <2>2. /\ next \in OwnerStates /\ next.pc = "sending" /\ next.at = Len(log[i]) /\ next.want = own[i].want
        /\ next.view = own[i].view /\ next.faulted = own[i].faulted
    BY <1>t DEF OwnerStates
  <2>3. /\ Owns(i) => Owns(i)'
        /\ ~ o.faulted /\ o.view \notin Early => ~ IsEarly(i)'
        /\ o.pc = "sending" /\ o.at = Len(log[i]) /\ o.want = own[i].want
    <3> HIDE DEF next
    <3>1. "authorizing" \in Open \ {"pending"}
      BY DEF Open
    <3> QED BY <2>1, <2>2, <3>1, CheckpointKeeps
  <2>4. own[i].want = None /\ None \notin {"succeeded", "canceled", "permission-denied"}
    BY <1>t, <2>1, NoneIsNothing DEF OwnerOK, Final
  <2>5. /\ tx[i] \in {"idle", "gone"} /\ ~ EndedBy(i, Len(log[i])) /\ ~ RanBy(i, Len(log[i]))
        /\ Known(i)' /\ (tx[i] = "idle" => Owns(i)')
    BY <1>t, <2>1, <2>3 DEF OwnerOK, RecordGrows
  <2> HIDE DEF next, o
  <2> QED BY <1>t, <2>1, <2>3, <2>4, <2>5, OwnerFits DEF o
<1>5. CASE Send(i)
  <2>1. /\ own[i].pc = "sending" /\ UNCHANGED <<active, decided>>
        /\ own'[i].pc = "watching" /\ own'[i].at = own[i].at /\ own'[i].want = own[i].want
        /\ own'[i].view = own[i].view /\ ~ own[i].faulted
    <3>1. PICK faulted \in BOOLEAN : own'[i] = [own[i] EXCEPT !.pc = "watching", !.faulted = faulted]
      BY <1>5, <1>t DEF Send
    <3> QED BY <1>5, <1>t, <3>1 DEF Send, journalVars, OwnerStates
  <2>2. /\ own[i].want = None /\ None \notin {"succeeded", "canceled", "permission-denied"}
        /\ Known(i)' /\ own[i].at <= Len(log[i]) /\ ~ RanBy(i, Len(log[i]))
        /\ (own[i].view \notin Early => ~ IsEarly(i)')
    BY <1>t, <2>1, NoneIsNothing DEF OwnerOK, Final, Known, Active, IsEarly
  <2>3. own[i].at <= Len(log'[i]) /\ ~ RanBy(i, own[i].at)'
    <3>1. Len(log[i]) <= Len(log'[i]) /\ \A k \in 1 .. Len(log[i]) : log'[i][k] = log[i][k]
      BY LogStep DEF LogGrows
    <3>2. Len(log'[i]) \in Nat /\ own[i].at \in Nat
      BY <1>t, TypeStep, LenProperties DEF TypeOK, OwnerStates
    <3> QED BY <1>t, <2>1, <2>2, <3>1, <3>2 DEF RanBy
  <2> QED BY <1>t, <2>1, <2>2, <2>3 DEF OwnerOK
<1> QED BY <1>1, <1>2, <1>3, <1>4, <1>5

LEMMA OwnerWatches ==
  ASSUME IInv, [Next]_vars, NEW i \in Ids,
         ObserveStatus(i) \/ ObserveRestart(i) \/ ObserveMalformed(i) \/ CancelFaulted(i)
  PROVE  OwnerOK(i)'
<1>t. /\ OwnerOK(i) /\ LogOK(i) /\ RecordGrows(i) /\ TypeOK
      /\ own \in [Ids -> OwnerStates] /\ own[i] \in OwnerStates
      /\ log[i] \in Seq(Signals) /\ Len(log[i]) \in Nat
      /\ None \notin {"succeeded", "canceled", "permission-denied"}
  BY RecordStep, LenProperties, NoneIsNothing DEF IInv, OwnerInv, LogInv, TypeOK, Final
<1>1. /\ log'[i] = log[i] /\ tx'[i] = tx[i] /\ own[i].pc = "watching"
      /\ own[i].want = None /\ Known(i) /\ Known(i)' /\ (IsEarly(i)' => IsEarly(i))
  <2>1. own[i].pc = "watching"
    BY DEF ObserveStatus, ObserveRestart, ObserveMalformed, CancelFaulted, Unread, Watching
  <2>2. UNCHANGED daemonVars
    BY DEF ObserveStatus, ObserveRestart, ObserveMalformed, CancelFaulted
  <2> QED BY <1>t, <2>1, <2>2 DEF daemonVars, OwnerOK, RecordGrows
<1>r. ASSUME Unread(i)
      PROVE  /\ own[i].at + 1 <= Len(log[i]) /\ own[i].at + 1 \in Nat /\ Read(i) \in OwnerStates
             /\ Read(i).at = own[i].at + 1 /\ Read(i).view = own[i].view /\ Read(i).faulted = own[i].faulted
             /\ Read(i).pc = own[i].pc /\ Read(i).want = own[i].want
             /\ RanBy(i, own[i].at + 1) => RanBy(i, own[i].at) \/ Signal(i) = "run"
  <2>1. own[i].at \in Nat /\ own[i].at < Len(log[i])
    BY <1>r, <1>t DEF Unread, OwnerStates
  <2>2. own[i].at + 1 \in Nat
    BY <2>1
  <2> QED BY <1>t, <2>1, <2>2 DEF Read, OwnerStates, RanBy, Signal
<1>f. ASSUME own'[i].pc = "watching", own'[i].want = None, own'[i].at <= Len(log[i]),
             ~ own'[i].faulted /\ own'[i].view \notin Early => ~ IsEarly(i)',
             ~ own'[i].faulted /\ RanBy(i, own'[i].at) => ~ IsEarly(i)'
      PROVE  OwnerOK(i)'
  <2> DEFINE o == own'[i]
  <2>1. o.pc = "watching" /\ o.want = None /\ o.at <= Len(log[i])
        /\ (~ o.faulted /\ o.view \notin Early => ~ IsEarly(i)')
        /\ (~ o.faulted /\ RanBy(i, o.at) => ~ IsEarly(i)')
    BY <1>f
  <2> HIDE DEF o
  <2> QED BY <1>t, <1>1, <2>1, OwnerFits DEF o
<1>c. ASSUME NEW target \in (Open \ {"pending"}) \cup {None}, NEW system \in 0 .. 2,
             NEW next \in OwnerStates, Checkpoint(i, target, system, next),
             next.view = own[i].view, next.faulted = own[i].faulted, next.pc = "watching", next.want = None,
             next.at <= Len(log[i]), target = "running" \/ (RanBy(i, next.at) => RanBy(i, own[i].at))
      PROVE  OwnerOK(i)'
  <2>1. /\ ~ own'[i].faulted /\ own'[i].view \notin Early => ~ IsEarly(i)'
        /\ target = "running" /\ ~ own'[i].faulted => ~ IsEarly(i)'
        /\ own'[i].pc = "watching" /\ own'[i].at = next.at /\ own'[i].want = None
    BY <1>c, CheckpointKeeps, ZenonT(60)
  <2>2. ~ own'[i].faulted => ~ own[i].faulted
    BY <1>c, CheckpointKeeps
  <2> QED BY <1>1, <1>c, <1>f, <1>t, <2>1, <2>2 DEF OwnerOK
<1>2. CASE ObserveStatus(i)
  <2> DEFINE next == [Read(i) EXCEPT !.waiting = Signal(i) = "auth"]
  <2>1. Unread(i)
    BY <1>2 DEF ObserveStatus
  <2>2. /\ next \in OwnerStates /\ next.at = own[i].at + 1 /\ next.view = own[i].view
        /\ next.faulted = own[i].faulted /\ next.pc = "watching" /\ next.want = None
    BY <1>1, <1>r, <2>1 DEF OwnerStates
  <2>3. CASE Signal(i) # "run" \/ own[i].view \notin Early
    <3>1. own'[i] = next
      BY <1>2, <1>t, <2>3 DEF ObserveStatus
    <3>2. ~ own[i].faulted /\ RanBy(i, next.at) => ~ IsEarly(i)
      BY <1>1, <1>r, <1>t, <2>1, <2>2, <2>3 DEF OwnerOK
    <3>3. ~ own[i].faulted /\ own[i].view \notin Early => ~ IsEarly(i)
      BY <1>t DEF OwnerOK
    <3>4. next.at <= Len(log[i])
      BY <1>r, <2>1, <2>2
    <3> HIDE DEF next
    <3> QED BY <1>1, <1>f, <2>2, <3>1, <3>2, <3>3, <3>4
  <2>4. CASE ~ (Signal(i) # "run" \/ own[i].view \notin Early)
    <3>1. Checkpoint(i, "running", 0, next)
      BY <1>2, <2>4 DEF ObserveStatus
    <3>2. next.at <= Len(log[i]) /\ "running" \in Open \ {"pending"} /\ 0 \in 0 .. 2
      BY <1>r, <2>1, <2>2 DEF Open
    <3> HIDE DEF next
    <3> QED BY <1>c, <2>2, <3>1, <3>2
  <2> QED BY <2>3, <2>4
<1>3. CASE ObserveRestart(i)
  <2>1. Unread(i) /\ Signal(i) # "run"
    BY <1>3 DEF ObserveRestart
  <2>2. PICK system \in 0 .. 2 : Checkpoint(i, None, system, Read(i))
    BY <1>3 DEF ObserveRestart
  <2> QED BY <1>1, <1>c, <1>r, <2>1, <2>2
<1>4. CASE ObserveMalformed(i)
  <2> DEFINE next == [Read(i) EXCEPT !.spoiled = TRUE]
  <2>1. Unread(i) /\ Signal(i) # "run" /\ own'[i] = next
    BY <1>4, <1>t DEF ObserveMalformed
  <2>2. /\ next.at = own[i].at + 1 /\ next.view = own[i].view
        /\ next.faulted = own[i].faulted /\ next.pc = "watching" /\ next.want = None
    BY <1>1, <1>r, <2>1 DEF OwnerStates
  <2>3. ~ own[i].faulted /\ RanBy(i, next.at) => ~ IsEarly(i)
    BY <1>1, <1>r, <1>t, <2>1, <2>2 DEF OwnerOK
  <2>4. ~ own[i].faulted /\ own[i].view \notin Early => ~ IsEarly(i)
    BY <1>t DEF OwnerOK
  <2>5. next.at <= Len(log[i])
    BY <1>r, <2>1, <2>2
  <2> HIDE DEF next
  <2> QED BY <1>1, <1>f, <2>1, <2>2, <2>3, <2>4, <2>5
<1>5. CASE CancelFaulted(i)
  <2>1. CASE own' = own
    BY <2>1, OwnerKept
  <2>2. CASE Checkpoint(i, "cancel-requested", 0, own[i])
    <3>1. own[i].at <= Len(log[i]) /\ "cancel-requested" \in Open \ {"pending"} /\ 0 \in 0 .. 2
      BY <1>t DEF OwnerOK, Open
    <3> QED BY <1>1, <1>c, <1>t, <2>2, <3>1
  <2> QED BY <1>5, <2>1, <2>2 DEF CancelFaulted
<1> QED BY <1>2, <1>3, <1>4, <1>5

(* What the owner was told last decides what it may record.                *)
LEMMA OwnerStops ==
  ASSUME IInv, [Next]_vars, NEW i \in Ids, Stop(i) \/ BusCloses(i)
  PROVE  OwnerOK(i)'
<1>t. /\ OwnerOK(i) /\ LogOK(i) /\ RecordGrows(i) /\ TypeOK
      /\ own \in [Ids -> OwnerStates] /\ own[i] \in OwnerStates
      /\ log[i] \in Seq(Signals) /\ Len(log[i]) \in Nat /\ tx[i] \in Present \cup {"none", "gone"}
  BY RecordStep, LenProperties DEF IInv, OwnerInv, LogInv, TypeOK
<1>1. /\ log'[i] = log[i] /\ tx'[i] = tx[i] /\ own[i].pc = "watching"
      /\ own[i].want = None /\ Known(i) /\ Known(i)' /\ (IsEarly(i)' => IsEarly(i))
  <2>1. own[i].pc = "watching" /\ UNCHANGED daemonVars
    BY DEF Stop, BusCloses, Unread, Watching
  <2> QED BY <1>t, <2>1 DEF daemonVars, OwnerOK, RecordGrows
<1>f. ASSUME NEW state \in Final, NEW rejected \in BOOLEAN, own' = Stopped(i, state, rejected),
             ~ own[i].faulted => /\ state \in {"succeeded", "canceled"} => state \in Sent(i)
                                 /\ state = "permission-denied" => Sent(i) \cap {"permission-denied", "refused"} # {}
                                 /\ state # "interrupted" => tx[i] \in Past
                                 /\ state = "permission-denied" /\ RanBy(i, Len(log[i])) => ~ IsEarly(i)
      PROVE  OwnerOK(i)'
  <2>1. CASE own[i].faulted
    BY <1>f, <2>1, OwnerEnds DEF Stopped
  <2>2. CASE ~ own[i].faulted
    <3> DEFINE o == own'[i]
    <3>1. o = [own[i] EXCEPT !.pc = "finish", !.want = state, !.rejected = rejected]
      BY <1>f, <1>t, <2>2 DEF Stopped
    <3>2. o.pc = "finish" /\ o.want = state /\ o.at = own[i].at /\ o.view = own[i].view /\ o.faulted = own[i].faulted
      BY <1>t, <3>1 DEF OwnerStates
    <3>3. own[i].at <= Len(log[i]) /\ (own[i].view \notin Early => ~ IsEarly(i))
      BY <1>t, <2>2 DEF OwnerOK
    <3>4. state # None
      BY NoneIsNothing
    <3> HIDE DEF o
    <3> QED BY <1>1, <1>f, <2>2, <3>2, <3>3, <3>4, OwnerFits DEF o
  <2> QED BY <2>1, <2>2
<1>2. CASE Stop(i)
  <2> DEFINE n == own[i].at + 1
  <2>1. /\ Signal(i) \in Outcomes \cup Replies \cup {"destroy", "lost"} /\ n \in 1 .. Len(log[i])
        /\ own' = Stopped(i, StopState(i), Signal(i) = "rejected")
    BY <1>2, <1>t DEF Stop, Unread, OwnerStates
  <2>2. Signal(i) \in Sent(i)
    BY <1>t, <2>1, SentSignals DEF Signal, Sent
  <2>3. Signal(i) \in Ends => tx[i] \in Past
    <3>1. Signal(i) \in Ends => EndedBy(i, Len(log[i])) /\ Len(log[i]) # 0
      BY <1>t, <2>1 DEF EndedBy, Signal
    <3> QED BY <1>t, <3>1 DEF LogOK, Live, Present, Past
  <2>4. ASSUME Signal(i) \in Ends, RanBy(i, Len(log[i])), ~ own[i].faulted PROVE ~ IsEarly(i)
    <3>1. PICK k \in 1 .. Len(log[i]) : log[i][k] = "run"
      BY <2>4 DEF RanBy
    <3>2. \A m \in 1 .. Len(log[i]) : n < m => log[i][m] # "run"
      BY <1>t, <2>1, <2>4 DEF LogOK, Signal
    <3>3. k # n
      BY <2>4, <3>1 DEF Signal, Ends, Outcomes, Replies
    <3>4. k \in 1 .. own[i].at
      BY <1>t, <2>1, <3>1, <3>2, <3>3 DEF OwnerStates
    <3>5. RanBy(i, own[i].at)
      BY <3>1, <3>4 DEF RanBy
    <3> QED BY <1>1, <1>t, <2>4, <3>5 DEF OwnerOK
  <2>5. /\ StopState(i) \in {"succeeded", "canceled"} => StopState(i) = Signal(i)
        /\ StopState(i) = "permission-denied" => Signal(i) \in {"permission-denied", "refused"}
        /\ StopState(i) # "interrupted" => Signal(i) \in Ends
    BY <2>1 DEF StopState, Outcomes, Replies, Ends
  <2>6. StopState(i) \in Final /\ (Signal(i) = "rejected") \in BOOLEAN
    <3>1. "failed" \in Final
      BY DEF Final
    <3> QED BY <1>t, <3>1, StopTypes
  <2>7. {"permission-denied", "refused"} \subseteq Ends
    BY DEF Ends, Outcomes, Replies
  <2> QED BY <1>f, <2>1, <2>2, <2>3, <2>4, <2>5, <2>6, <2>7
<1>3. CASE BusCloses(i)
  <2>1. own' = Stopped(i, "interrupted", FALSE) /\ "interrupted" \in Final
    BY <1>3 DEF BusCloses, Final
  <2> QED BY <1>f, <2>1
<1> QED BY <1>2, <1>3

LEMMA OwnerFinishes ==
  ASSUME IInv, [Next]_vars, NEW i \in Ids, FinishRead(i) \/ FinishPass(i) \/ FinishSettle(i)
  PROVE  OwnerOK(i)'
<1>t. /\ OwnerOK(i) /\ RecordGrows(i) /\ TypeOK
      /\ own \in [Ids -> OwnerStates] /\ own[i] \in OwnerStates
  BY RecordStep DEF IInv, OwnerInv, TypeOK
<1>1. /\ log'[i] = log[i] /\ tx'[i] = tx[i] /\ own[i].pc \in {"finish", "pass", "settle"}
      /\ Known(i) /\ Known(i)' /\ (IsEarly(i)' => IsEarly(i)) /\ own[i].at <= Len(log[i])
  <2>1. own[i].pc \in {"finish", "pass", "settle"} /\ UNCHANGED daemonVars
    BY DEF FinishRead, FinishPass, FinishSettle
  <2> QED BY <1>t, <2>1 DEF daemonVars, OwnerOK, RecordGrows
<1>2. CASE FinishRead(i)
  <2>1. PICK want \in {own[i].want, "failed"}, pc \in {"pass", "settle"} :
          /\ own' = [own EXCEPT ![i] = [own[i] EXCEPT !.view = active.state, !.want = want, !.pc = pc]]
          /\ own[i].want = "permission-denied" /\ active.state \notin Early => want = "failed"
          /\ want = own[i].want \/ (own[i].want = "permission-denied" /\ want = "failed")
          /\ pc = "pass" => want \in {"succeeded", "canceled"}
    BY <1>2 DEF FinishRead
  <2> DEFINE o == own'[i]
  <2>2. o.pc = pc /\ o.want = want /\ o.at = own[i].at /\ o.view = active.state
    BY <1>t, <2>1 DEF OwnerStates
  <2>3. Active(i) /\ active' = active /\ own[i].pc = "finish"
    BY <1>2 DEF FinishRead, Owns, Active, journalVars
  <2>4. active.state \notin Early => ~ IsEarly(i)
    BY DEF IsEarly
  <2>5. IsEarly(i) <=> active.state \in Early
    BY <2>3 DEF IsEarly
  <2>6. /\ want \in {"succeeded", "canceled"} => want \in Sent(i)
        /\ want = "permission-denied" => Sent(i) \cap {"permission-denied", "refused"} # {}
        /\ want \notin {None, "interrupted"} => tx[i] \in Past
        /\ want = "permission-denied" /\ RanBy(i, Len(log[i])) => pc = "finish" /\ ~ IsEarly(i)'
    <3>1. want = own[i].want \/ (own[i].want = "permission-denied" /\ want = "failed")
      BY <2>1
    <3>2. want = "permission-denied" => active.state \in Early /\ want = own[i].want
      BY <2>1
    <3>3. None # "permission-denied"
      BY NoneIsNothing DEF Final
    <3> QED BY <1>t, <2>5, <3>1, <3>2, <3>3 DEF OwnerOK
  <2> HIDE DEF o
  <2> QED BY <1>1, <2>1, <2>2, <2>4, <2>6, OwnerFits DEF o
<1>3. CASE FinishPass(i)
  <2> DEFINE next == [own[i] EXCEPT !.pc = "settle"]
             o == own'[i]
  <2>1. PICK target \in {"running", "cancel-requested"} : Checkpoint(i, target, 0, next) /\ own[i].pc = "pass"
    BY <1>3 DEF FinishPass
  <2>2. /\ next \in OwnerStates /\ next.view = own[i].view /\ next.faulted = own[i].faulted
        /\ next.pc = "settle" /\ next.at = own[i].at /\ next.want = own[i].want
    BY <1>t DEF OwnerStates
  <2>3. /\ ~ o.faulted /\ o.view \notin Early => ~ IsEarly(i)'
        /\ o.pc = "settle" /\ o.at = own[i].at /\ o.want = own[i].want
    <3> HIDE DEF next
    <3>1. target \in (Open \ {"pending"}) \cup {None} /\ 0 \in 0 .. 2
      BY DEF Open
    <3> QED BY <2>1, <2>2, <3>1, CheckpointKeeps
  <2>4. own[i].want \in {"succeeded", "canceled"} /\ own[i].want \in Sent(i) /\ tx[i] \in Past
    <3>1. own[i].want \in {"succeeded", "canceled"}
      BY <1>t, <2>1 DEF OwnerOK
    <3>2. own[i].want \notin {None, "interrupted"}
      BY <3>1, NoneIsNothing DEF Final
    <3> QED BY <1>t, <3>1, <3>2 DEF OwnerOK
  <2> HIDE DEF next, o
  <2> QED BY <1>1, <2>3, <2>4, OwnerFits DEF o
<1>4. CASE FinishSettle(i)
  <2> DEFINE o == own'[i]
  <2>1. o = [own[i] EXCEPT !.pc = "complete"] /\ own[i].pc = "settle"
    BY <1>4, <1>t DEF FinishSettle
  <2>2. /\ o.pc = "complete" /\ o.at = own[i].at /\ o.want = own[i].want
        /\ o.view = own[i].view /\ o.faulted = own[i].faulted
    BY <1>t, <2>1 DEF OwnerStates
  <2>3. ~ own[i].faulted /\ own[i].view \notin Early => ~ IsEarly(i)
    BY <1>t DEF OwnerOK
  <2>4. /\ own[i].want \in {"succeeded", "canceled"} => own[i].want \in Sent(i)
        /\ own[i].want = "permission-denied" => Sent(i) \cap {"permission-denied", "refused"} # {}
        /\ own[i].want \notin {None, "interrupted"} => tx[i] \in Past
        /\ ~ (own[i].want = "permission-denied" /\ RanBy(i, Len(log[i])))
    BY <1>t, <2>1 DEF OwnerOK
  <2> HIDE DEF o
  <2> QED BY <1>1, <2>2, <2>3, <2>4, OwnerFits DEF o
<1> QED BY <1>2, <1>3, <1>4

LEMMA OwnerStepInv == IInv /\ [Next]_vars => OwnerInv'
<1> SUFFICES ASSUME IInv, [Next]_vars, NEW i \in Ids PROVE OwnerOK(i)'
  BY DEF OwnerInv
<1>t. TypeOK /\ own \in [Ids -> OwnerStates] /\ Ids \cap Recoverers = {}
  BY ConstantsAssumption DEF IInv, TypeOK
<1>k. own'[i] = own[i] => OwnerOK(i)'
  BY OwnerKept
<1>1. CASE Owner(i)
  <2>1. GiveUp(i) => own' = Ended(i)
    BY DEF GiveUp
  <2> QED BY <1>1, <2>1, OwnerBegins, OwnerWatches, OwnerStops, OwnerFinishes, OwnerEnds DEF Owner
<1>2. CASE KillOwner(i) \/ Retire(i)
  <2>1. own' = Ended(i)
    BY <1>2 DEF KillOwner, Retire
  <2> QED BY <2>1, OwnerEnds
<1>3. ASSUME NEW j \in Ids, j # i, Owner(j) \/ KillOwner(j) \/ Retire(j) PROVE OwnerOK(i)'
  <2>1. own'[i] = own[i]
    BY <1>3, <1>t, OwnerTypes DEF OwnerOnly
  <2> QED BY <1>k, <2>1
<1>4. ASSUME NEW r \in Recoverers, Recovery(r) \/ KillRecovery(r) \/ Retire(r) PROVE OwnerOK(i)'
  <2>1. own' = own
    BY <1>4, <1>t, RecoveryRecord DEF KillRecovery, Retire
  <2> QED BY <1>k, <2>1
<1>5. CASE Daemon
  <2>1. own' = own
    BY <1>5, DaemonKeeps
  <2> QED BY <1>k, <2>1
<1>6. ASSUME NEW c \in Controls, Cancel(c) PROVE OwnerOK(i)'
  <2>1. own' = own
    BY <1>6, CancelKeeps
  <2> QED BY <1>k, <2>1
<1>7. CASE (\E p \in Ids \cup Recoverers : Publish(p)) \/ Acknowledge \/ UNCHANGED vars
  <2>1. own' = own
    BY <1>7 DEF Publish, Acknowledge, vars
  <2> QED BY <1>k, <2>1
<1> QED BY <1>1, <1>2, <1>3, <1>4, <1>5, <1>6, <1>7 DEF Next

-----------------------------------------------------------------------------
(* The recoveries.                                                         *)

LEMMA RecoveryInit == Init => RecoveryInv
BY DEF Init, Idle, RecoveryInv, RecoveryOK

(* What the evidence of a recovery must agree with after a step.           *)
LEMMA RecoveryFits ==
  ASSUME NEW r \in Recoverers, NEW i \in Ids, NEW e, rec'[r] = e, e.id = i,
         Known(i)', tx'[i] # "none",
         e.state # None => e.state \in Sent(i)' /\ tx'[i] \in Past,
         e.match = "yes" => "succeeded" \in Sent(i)',
         e.seen /\ ~ e.present => tx'[i] \in Past,
         ~ e.seen /\ e.failed = "none" => e.pc = "attach" \/ (e.pc = "apply" /\ ~ Owns(i)'),
         e.pc = "attach" => e.state = None,
         e.at <= Len(log'[i]),
         e.ran => ~ IsEarly(i)',
         e.pc = "watch" /\ ~ e.due /\ RanBy(i, e.at)' /\ IsEarly(i)' => e.state = None /\ EndedBy(i, e.at)',
         e.state = "permission-denied" /\ IsEarly(i)' => ~ RanBy(i, Len(log[i]))'
  PROVE  RecoveryOK(r)'
BY DEF RecoveryOK, Known, Active, Owns, IsEarly, Sent, RanBy, EndedBy

(* Evidence nobody touches stays good.                                     *)
LEMMA RecoveryKept ==
  ASSUME IInv, [Next]_vars, NEW r \in Recoverers, rec'[r] = rec[r]
  PROVE  RecoveryOK(r)'
<1>1. CASE rec[r].pc \in {"idle", "complete"}
  BY <1>1 DEF RecoveryOK
<1>2. CASE rec[r].pc \notin {"idle", "complete"}
  <2>1. PICK i \in Ids, e \in RecoveryStates : e = rec[r] /\ i = e.id
    BY <1>2 DEF IInv, TypeOK, RecoveryInv, RecoveryOK
  <2>t. /\ LogGrows(i) /\ RecordGrows(i) /\ Sent(i) \subseteq Sent(i)'
        /\ log[i] \in Seq(Signals) /\ Len(log[i]) \in Nat /\ Len(log'[i]) \in Nat /\ e.at \in Nat
        /\ e.state \in Outcomes \cup {None}
    BY LogStep, RecordStep, SentKept, TypeStep, LenProperties DEF IInv, TypeOK, RecoveryStates
  <2>i. /\ Known(i) /\ tx[i] # "none"
        /\ e.state # None => e.state \in Sent(i) /\ tx[i] \in Past
        /\ e.match = "yes" => "succeeded" \in Sent(i)
        /\ e.seen /\ ~ e.present => tx[i] \in Past
        /\ ~ e.seen /\ e.failed = "none" => e.pc = "attach" \/ (e.pc = "apply" /\ ~ Owns(i))
        /\ e.pc = "attach" => e.state = None
        /\ e.at <= Len(log[i])
        /\ e.ran => ~ IsEarly(i)
        /\ e.pc = "watch" /\ ~ e.due /\ RanBy(i, e.at) /\ IsEarly(i) => e.state = None /\ EndedBy(i, e.at)
        /\ e.state = "permission-denied" /\ IsEarly(i) => ~ RanBy(i, Len(log[i]))
    BY <1>2, <2>1 DEF IInv, RecoveryInv, RecoveryOK
  <2>2. Known(i)' /\ tx'[i] # "none" /\ (IsEarly(i)' => IsEarly(i)) /\ (Owns(i)' => Owns(i))
    BY <2>t, <2>i DEF LogGrows, RecordGrows
  <2>3. /\ e.at <= Len(log'[i])
        /\ RanBy(i, e.at)' => RanBy(i, e.at)
        /\ EndedBy(i, e.at) => EndedBy(i, e.at)'
    BY <2>t, <2>i, SMTT(30) DEF LogGrows, RanBy, EndedBy
  <2>4. ASSUME e.state = "permission-denied", IsEarly(i)' PROVE ~ RanBy(i, Len(log[i]))'
    <3>1. e.state \in Sent(i) /\ ~ RanBy(i, Len(log[i]))
      BY <2>4, <2>i, <2>2, NoneIsNothing DEF Final
    <3>2. EndedBy(i, Len(log[i]))
      BY <2>4, <2>t, <3>1, SentSignals DEF Sent, EndedBy, Ends, Outcomes
    <3> QED BY <2>t, <3>1, <3>2 DEF LogGrows
  <2>5. tx[i] \in Past => tx'[i] \in Past
    BY <2>t DEF LogGrows
  <2>6. rec'[r] = e /\ e.id = i
    BY <2>1
  <2> QED BY <2>t, <2>i, <2>2, <2>3, <2>4, <2>5, <2>6, RecoveryFits
<1> QED BY <1>1, <1>2

LEMMA ProbedEffect ==
  ASSUME NEW e \in RecoveryStates
  PROVE  /\ Probed(e).pc \in {"history", "apply"} /\ Probed(e).id = e.id /\ Probed(e).at = e.at
         /\ Probed(e).seen = e.seen /\ Probed(e).present = e.present /\ Probed(e).ran = e.ran
         /\ Probed(e).state = e.state /\ Probed(e).match = e.match /\ Probed(e).failed = e.failed
BY DEF Probed, RecoveryStates

LEMMA IdleEffect ==
  /\ Idle.pc = "idle" /\ Idle.id = None /\ Idle.at = 0 /\ ~ Idle.seen /\ ~ Idle.present /\ ~ Idle.ran
  /\ Idle.state = None /\ Idle.match = "none" /\ Idle.failed = "none" /\ ~ Idle.due
BY DEF Idle

LEMMA FailedEffect ==
  ASSUME NEW e \in RecoveryStates, NEW why \in {"timeout", "error", "malformed"}
  PROVE  /\ Failed(e, why).pc \in {"history", "apply"} /\ Failed(e, why).id = e.id
         /\ Failed(e, why).at = 0 /\ ~ Failed(e, why).seen /\ ~ Failed(e, why).ran
         /\ Failed(e, why).state = None /\ Failed(e, why).match = "none" /\ Failed(e, why).failed = why
<1> DEFINE f == [Idle EXCEPT !.id = e.id, !.failed = why]
<1>1. f \in RecoveryStates
  BY RecoveryTypes, ZenonT(60) DEF RecoveryStates
<1>2. /\ f.id = e.id /\ f.at = 0 /\ ~ f.seen /\ ~ f.ran /\ f.state = None /\ f.match = "none" /\ f.failed = why
  BY DEF Idle
<1> HIDE DEF f
<1> QED BY <1>1, <1>2, ProbedEffect DEF Failed, f

(* A recovery that has nothing holds nothing against anybody.              *)
LEMMA EmptyFits ==
  ASSUME IInv, [Next]_vars, NEW r \in Recoverers, NEW i \in Ids, NEW e, rec'[r] = e, e.id = i,
         Known(i), e.at = 0, ~ e.seen, ~ e.ran, e.state = None, e.match = "none",
         e.pc # "watch", e.failed # "none" \/ e.pc = "attach" \/ (e.pc = "apply" /\ ~ Owns(i))
  PROVE  RecoveryOK(r)'
<1>1. Known(i)' /\ tx'[i] # "none" /\ (Owns(i)' => Owns(i)) /\ Len(log'[i]) \in Nat
  BY LogStep, RecordStep, TypeStep, LenProperties DEF IInv, LogInv, LogGrows, RecordGrows, TypeOK
<1>2. None # "permission-denied"
  BY NoneIsNothing DEF Final
<1>3. e.at <= Len(log'[i])
  BY <1>1
<1> QED BY <1>1, <1>2, <1>3, RecoveryFits

LEMMA FailedFits ==
  ASSUME IInv, [Next]_vars, NEW r \in Recoverers, NEW i \in Ids, Known(i), NEW e \in RecoveryStates, e.id = i,
         NEW why \in {"timeout", "error", "malformed"}, Noted(r, Failed(e, why))
  PROVE  RecoveryOK(r)'
<1>1. PICK f : f = Failed(e, why) /\ rec'[r] = f
  BY RecoveryTypes, RecoveryUpdate DEF IInv
<1>2. /\ f.pc \in {"history", "apply"} /\ f.id = i /\ f.at = 0 /\ ~ f.seen /\ ~ f.ran
      /\ f.state = None /\ f.match = "none" /\ f.failed # "none"
  BY <1>1, FailedEffect
<1> QED BY <1>1, <1>2, EmptyFits

(* The facts about a recovery with evidence.                               *)
LEMMA EvidenceFacts ==
  ASSUME IInv, [Next]_vars, NEW r \in Recoverers, Recovery(r), rec[r].pc \notin {"idle", "complete"},
         NEW i \in Ids, i = rec[r].id
  PROVE  /\ log'[i] = log[i] /\ tx'[i] = tx[i]
         /\ log[i] \in Seq(Signals) /\ Len(log[i]) \in Nat /\ LogOK(i)
         /\ tx[i] \in Present \cup {"gone"}
         /\ Known(i) /\ Known(i)' /\ (IsEarly(i)' => IsEarly(i)) /\ (Owns(i)' => Owns(i))
<1>1. LogInv /\ RecoveryOK(r) /\ RecordGrows(i) /\ log[i] \in Seq(Signals) /\ tx[i] \in Present \cup {"none", "gone"}
  BY RecordStep DEF IInv, RecoveryInv, TypeOK
<1>2. Known(i) /\ tx[i] # "none"
  BY <1>1 DEF RecoveryOK
<1>3. log' = log /\ tx' = tx
  BY RecoveryRecord DEF daemonVars
<1> QED BY <1>1, <1>2, <1>3, LenProperties DEF LogInv, RecordGrows

(* Load and attach.                                                        *)
LEMMA RecoveryAttaches ==
  ASSUME IInv, [Next]_vars, NEW r \in Recoverers, RecoverLoad(r) \/ Attach(r) \/ AttachFails(r)
  PROVE  RecoveryOK(r)'
<1>t. TypeOK /\ rec[r] \in RecoveryStates /\ rec \in [Recoverers -> RecoveryStates] /\ RecoveryOK(r)
      /\ active \in Operations \cup {None} /\ Open \cap Final = {}
  BY NoneIsNothing DEF IInv, TypeOK, RecoveryInv
<1>1. CASE RecoverLoad(r)
  <2>1. PICK i \in Ids : Active(i)
    BY <1>1, <1>t DEF RecoverLoad, Active, Operations
  <2>2. PICK pc \in {"attach", "apply"} :
          /\ rec'[r] = [Idle EXCEPT !.id = i, !.pc = pc]
          /\ pc = "apply" <=> active.state \in Final
    BY <1>1, <1>t, <2>1 DEF RecoverLoad, Noted, Active
  <2>3. PICK e : e = [Idle EXCEPT !.id = i, !.pc = pc] /\ rec'[r] = e
    BY <2>2
  <2>4. /\ e.id = i /\ e.pc = pc /\ e.at = 0 /\ ~ e.seen /\ ~ e.ran
        /\ e.state = None /\ e.match = "none"
    BY <2>3 DEF Idle
  <2>5. Known(i) /\ (pc = "apply" => ~ Owns(i))
    BY <1>t, <2>1, <2>2 DEF Known, Owns
  <2> QED BY <2>2, <2>3, <2>4, <2>5, EmptyFits
<1>2. CASE Attach(r)
  <2>1. PICK i \in Ids, e \in RecoveryStates : e = rec[r] /\ i = rec[r].id
    BY <1>2, <1>t DEF Attach, RecoveryOK
  <2>2. /\ log'[i] = log[i] /\ tx'[i] = tx[i]
        /\ log[i] \in Seq(Signals) /\ Len(log[i]) \in Nat /\ LogOK(i)
        /\ tx[i] \in Present \cup {"gone"}
        /\ Known(i)' /\ (IsEarly(i)' => IsEarly(i))
    BY <1>2, <2>1, EvidenceFacts DEF Attach, Recovery
  <2>3. /\ e.pc = "attach" /\ e.state = None /\ (e.match = "yes" => "succeeded" \in Sent(i))
        /\ e.at <= Len(log[i]) /\ (e.ran => ~ IsEarly(i)) /\ (e.seen /\ ~ e.present => tx[i] \in Past)
    BY <1>2, <1>t, <2>1 DEF Attach, RecoveryOK
  <2>4. None # "permission-denied" /\ Sent(i)' = Sent(i)
    BY <2>2, NoneIsNothing DEF Final, Sent
  <2>5. CASE tx[i] \in Present
    <3>1. PICK present \in BOOLEAN, due \in BOOLEAN, waiting \in BOOLEAN :
            /\ Noted(r, [e EXCEPT !.pc = "watch", !.at = Len(log[i]), !.seen = TRUE,
                           !.present = present, !.due = due, !.waiting = waiting])
            /\ ~ present => tx[i] = "over"
            /\ due <=> tx[i] = "running"
      BY <1>2, <2>1, <2>5 DEF Attach, Watched
    <3>2. PICK f : /\ rec'[r] = f
                   /\ f = [e EXCEPT !.pc = "watch", !.at = Len(log[i]), !.seen = TRUE,
                             !.present = present, !.due = due, !.waiting = waiting]
      BY <1>t, <3>1 DEF Noted
    <3>3. /\ f.id = i /\ f.pc = "watch" /\ f.at = Len(log[i]) /\ f.seen /\ f.present = present /\ f.due = due
          /\ f.state = None /\ f.match = e.match /\ f.ran = e.ran
      BY <2>1, <2>3, <3>2 DEF RecoveryStates
    <3>4. ASSUME ~ due, RanBy(i, f.at)' PROVE EndedBy(i, f.at)'
      <4>1. RanBy(i, Len(log[i])) /\ tx[i] # "running"
        BY <2>2, <3>1, <3>3, <3>4 DEF RanBy
      <4>2. tx[i] # "idle" /\ tx[i] \notin {"queued", "authorizing"}
        BY <2>2, <4>1 DEF LogOK, RanBy
      <4>3. EndedBy(i, Len(log[i]))
        BY <2>2, <2>5, <4>1, <4>2 DEF LogOK, Present, Live
      <4> QED BY <2>2, <3>3, <4>3 DEF EndedBy
    <3>5. f.at <= Len(log'[i]) /\ (~ present => tx'[i] \in Past) /\ tx'[i] # "none"
      BY <2>2, <2>5, <3>1, <3>3 DEF Past, Present, Live
    <3> QED BY <2>2, <2>3, <2>4, <3>1, <3>2, <3>3, <3>4, <3>5, RecoveryFits
  <2>6. CASE tx[i] \notin Present
    <3> DEFINE g == [e EXCEPT !.seen = TRUE]
    <3>1. /\ Noted(r, Probed(g)) /\ g \in RecoveryStates
          /\ g.id = i /\ g.at = e.at /\ g.seen /\ g.present = e.present /\ g.ran = e.ran
          /\ g.state = None /\ g.match = e.match
      BY <1>2, <2>1, <2>3, <2>6 DEF Attach, Watched, RecoveryStates
    <3> HIDE DEF g
    <3>2. PICK f : rec'[r] = f /\ f = Probed(g)
      BY <1>t, <3>1 DEF Noted
    <3>3. /\ f.id = i /\ f.at = e.at /\ f.seen /\ f.ran = e.ran /\ f.state = None /\ f.match = e.match
          /\ f.pc \in {"history", "apply"}
      BY <3>1, <3>2, ProbedEffect
    <3>4. tx'[i] \in Past /\ tx'[i] # "none"
      BY <2>2, <2>6 DEF Past
    <3> QED BY <2>2, <2>3, <2>4, <3>2, <3>3, <3>4, RecoveryFits
  <2> QED BY <2>5, <2>6
<1>3. CASE AttachFails(r)
  <2>1. PICK i \in Ids : i = rec[r].id
    BY <1>3, <1>t DEF AttachFails, RecoveryOK
  <2>2. Known(i)
    BY <1>3, <1>t, <2>1 DEF AttachFails, RecoveryOK
  <2> QED BY <1>3, <1>t, <2>1, <2>2, FailedFits DEF AttachFails
<1> QED BY <1>1, <1>2, <1>3

(* One signal of the transaction a recovery watches.                       *)
LEMMA RecoveryHears ==
  ASSUME IInv, [Next]_vars, NEW r \in Recoverers, RecoverObserve(r) \/ RecoverRestart(r)
  PROVE  RecoveryOK(r)'
<1>t. TypeOK /\ rec \in [Recoverers -> RecoveryStates] /\ RecoveryOK(r)
  BY DEF IInv, TypeOK, RecoveryInv
<1>1. PICK i \in Ids, e \in RecoveryStates : e = rec[r] /\ i = rec[r].id
  BY <1>t DEF RecoverObserve, RecoverRestart, RecoverUnread, RecoveryOK
<1>2. /\ e.pc = "watch" /\ ~ e.due /\ e.state = None /\ e.at < Len(log[i]) /\ e.at \in Nat
      /\ RecoverSignal(r) = log[i][e.at + 1] /\ e.at + 1 \in 1 .. Len(log[i])
  <2>1. /\ e.pc = "watch" /\ ~ e.due /\ e.state = None /\ e.at < Len(log[i]) /\ e.at \in Nat
        /\ RecoverSignal(r) = log[i][e.at + 1]
    BY <1>1, <1>t DEF RecoverObserve, RecoverRestart, RecoverUnread, RecoverSignal, Watched,
       RecoveryStates
  <2>2. Len(log[i]) \in Nat
    BY <1>t, LenProperties DEF TypeOK
  <2> QED BY <2>1, <2>2
<1>3. /\ log'[i] = log[i] /\ tx'[i] = tx[i]
      /\ log[i] \in Seq(Signals) /\ Len(log[i]) \in Nat /\ LogOK(i)
      /\ tx[i] \in Present \cup {"gone"}
      /\ Known(i) /\ Known(i)' /\ (IsEarly(i)' => IsEarly(i))
  BY <1>1, <1>2, EvidenceFacts DEF Recovery
<1>4. /\ e.match = "yes" => "succeeded" \in Sent(i)
      /\ e.seen /\ ~ e.present => tx[i] \in Past
      /\ ~ (~ e.seen /\ e.failed = "none")
      /\ e.ran => ~ IsEarly(i)
      /\ RanBy(i, e.at) /\ IsEarly(i) => EndedBy(i, e.at)
  BY <1>1, <1>2, <1>t DEF RecoveryOK
<1>5. None # "permission-denied" /\ Sent(i)' = Sent(i) /\ RecoverSignal(r) \in Sent(i)
  BY <1>2, <1>3, NoneIsNothing, SentSignals DEF Final, Sent
<1>6. /\ \A n \in Nat : RanBy(i, n)' <=> RanBy(i, n)
      /\ \A n \in Nat : EndedBy(i, n)' <=> EndedBy(i, n)
      /\ RanBy(i, Len(log[i]))' <=> RanBy(i, Len(log[i]))
  BY <1>3 DEF RanBy, EndedBy
<1>7. ASSUME NEW f, rec'[r] = f, f.id = i, f.at = e.at + 1, f.pc = "watch", f.match = e.match,
             f.seen = e.seen, f.failed = e.failed, f.ran => ~ IsEarly(i)',
             f.present = e.present \/ tx[i] \in Past,
             f.state # None => f.state = RecoverSignal(r) /\ f.state \in Outcomes,
             ~ f.due /\ RecoverSignal(r) = "run" => ~ IsEarly(i)'
      PROVE  RecoveryOK(r)'
  <2>1. RanBy(i, e.at + 1) => RanBy(i, e.at) \/ RecoverSignal(r) = "run"
    BY <1>2 DEF RanBy
  <2>2. EndedBy(i, e.at) => EndedBy(i, e.at + 1) /\ RecoverSignal(r) \notin Ends
    BY <1>2, <1>3 DEF EndedBy, LogOK
  <2>3. ASSUME f.state # None
        PROVE  /\ tx[i] \in Past /\ RecoverSignal(r) \in Ends /\ RecoverSignal(r) # "run"
               /\ RanBy(i, Len(log[i])) => RanBy(i, e.at)
    <3>1. RecoverSignal(r) \in Ends /\ RecoverSignal(r) # "run"
      BY <1>7, <2>3 DEF Ends, Outcomes
    <3>2. EndedBy(i, Len(log[i])) /\ Len(log[i]) # 0
      BY <1>2, <3>1 DEF EndedBy
    <3>3. tx[i] \in Past
      BY <1>3, <3>2 DEF LogOK, Present, Live, Past
    <3>4. ASSUME NEW k \in 1 .. Len(log[i]), log[i][k] = "run" PROVE k \in 1 .. e.at
      <4>1. ~ (e.at + 1 < k)
        BY <1>2, <1>3, <3>1, <3>4 DEF LogOK
      <4>2. k # e.at + 1
        BY <1>2, <3>1, <3>4
      <4> QED BY <1>2, <4>1, <4>2
    <3> QED BY <3>1, <3>3, <3>4 DEF RanBy
  <2>4. f.state # None => ~ IsEarly(i)' \/ ~ RanBy(i, Len(log[i]))
    BY <1>3, <1>4, <2>2, <2>3
  <2>5. ~ f.due /\ RanBy(i, f.at)' /\ IsEarly(i)' => f.state = None /\ EndedBy(i, f.at)'
    <3>1. f.at \in Nat
      BY <1>2, <1>7
    <3>2. ASSUME ~ f.due, RanBy(i, e.at + 1), IsEarly(i)' PROVE f.state = None /\ EndedBy(i, e.at + 1)
      <4>1. RanBy(i, e.at) /\ EndedBy(i, e.at)
        BY <1>3, <1>4, <1>7, <2>1, <3>2
      <4> QED BY <2>2, <2>3, <4>1
    <3> QED BY <1>6, <1>7, <3>1, <3>2
  <2>6. f.at <= Len(log'[i])
    BY <1>2, <1>3, <1>7
  <2>7. f.state # None => f.state \in Sent(i)' /\ tx'[i] \in Past
    BY <1>3, <1>5, <1>7, <2>3
  <2>8. f.state = "permission-denied" /\ IsEarly(i)' => ~ RanBy(i, Len(log[i]))'
    BY <1>5, <1>6, <2>4
  <2>9. /\ f.match = "yes" => "succeeded" \in Sent(i)'
        /\ f.seen /\ ~ f.present => tx'[i] \in Past
        /\ ~ (~ f.seen /\ f.failed = "none") /\ f.pc # "attach" /\ tx'[i] # "none"
    BY <1>3, <1>4, <1>5, <1>7, <2>3 DEF Present, Live
  <2> QED BY <1>3, <1>7, <2>5, <2>6, <2>7, <2>8, <2>9, RecoveryFits
<1>8. CASE RecoverObserve(r)
  <2> DEFINE next == [e EXCEPT !.at = @ + 1]
  <2>1. /\ next \in RecoveryStates /\ next.id = i /\ next.at = e.at + 1 /\ next.pc = "watch" /\ next.match = e.match
        /\ next.seen = e.seen /\ next.failed = e.failed /\ next.ran = e.ran /\ next.present = e.present
        /\ next.state = None /\ ~ next.due
    BY <1>1, <1>2 DEF RecoveryStates
  <2>2. PICK signal : signal = RecoverSignal(r)
    OBVIOUS
  <2>3. Noted(r, CASE signal = "auth"       -> [next EXCEPT !.waiting = TRUE]
                   [] signal = "run"        -> [next EXCEPT !.waiting = FALSE, !.due = ~ next.ran]
                   [] signal = "done"       -> [next EXCEPT !.waiting = FALSE]
                   [] signal = "malformed"  -> Failed(next, "malformed")
                   [] signal = "lost"       -> Failed(next, "error")
                   [] signal = "destroy"    -> [next EXCEPT !.present = FALSE]
                   [] signal \in Outcomes   -> [next EXCEPT !.state = signal]
                   [] OTHER                 -> next)
    BY <1>1, <1>8, <2>2 DEF RecoverObserve
  <2> HIDE DEF next
  <2>4. CASE signal \in {"malformed", "lost"}
    <3>1. CASE signal = "malformed"
      <4>1. Noted(r, Failed(next, "malformed"))
        BY <2>3, <3>1 DEF Outcomes
      <4> QED BY <1>3, <2>1, <4>1, FailedFits
    <3>2. CASE signal = "lost"
      <4>1. Noted(r, Failed(next, "error"))
        BY <2>3, <3>2 DEF Outcomes
      <4> QED BY <1>3, <2>1, <4>1, FailedFits
    <3> QED BY <2>4, <3>1, <3>2
  <2>5. CASE signal = "run"
    <3>1. PICK f : rec'[r] = f /\ f = [next EXCEPT !.waiting = FALSE, !.due = ~ next.ran]
      BY <1>t, <2>3, <2>5 DEF Noted, Outcomes
    <3>2. /\ f.id = i /\ f.at = e.at + 1 /\ f.pc = "watch" /\ f.match = e.match
          /\ f.seen = e.seen /\ f.failed = e.failed /\ f.ran = e.ran /\ f.present = e.present
          /\ f.state = None /\ (f.due <=> ~ e.ran)
      BY <2>1, <3>1, ZenonT(60) DEF RecoveryStates
    <3> QED BY <1>3, <1>4, <1>7, <3>1, <3>2
  <2>6. CASE signal \in Outcomes
    <3>1. rec'[r] = [next EXCEPT !.state = signal]
      BY <1>t, <2>3, <2>6 DEF Noted, Outcomes
    <3>2. PICK f : rec'[r] = f /\ f = [next EXCEPT !.state = signal]
      BY <3>1
    <3>3. /\ f.id = i /\ f.at = e.at + 1 /\ f.pc = "watch" /\ f.match = e.match
          /\ f.seen = e.seen /\ f.failed = e.failed /\ f.ran = e.ran /\ f.present = e.present
          /\ f.state = signal
      BY <2>1, <3>2 DEF RecoveryStates
    <3> QED BY <1>3, <1>4, <1>7, <2>2, <2>6, <3>2, <3>3 DEF Outcomes
  <2>7. CASE signal = "destroy"
    <3>1. PICK f : rec'[r] = f /\ f = [next EXCEPT !.present = FALSE]
      BY <1>t, <2>3, <2>7 DEF Noted, Outcomes
    <3>2. /\ f.id = i /\ f.at = e.at + 1 /\ f.pc = "watch" /\ f.match = e.match
          /\ f.seen = e.seen /\ f.failed = e.failed /\ f.ran = e.ran /\ f.state = None
      BY <2>1, <3>1 DEF RecoveryStates
    <3>3. tx[i] \in Past
      BY <1>2, <1>3, <2>2, <2>7 DEF LogOK, Past
    <3> QED BY <1>3, <1>4, <1>7, <2>2, <2>7, <3>1, <3>2, <3>3
  <2>8. CASE signal \notin {"malformed", "lost", "run", "destroy"} \cup Outcomes
    <3>1. PICK f : /\ rec'[r] = f
                   /\ f \in {[next EXCEPT !.waiting = TRUE], [next EXCEPT !.waiting = FALSE], next}
      BY <1>t, <2>3, <2>8 DEF Noted
    <3>2. /\ f.id = i /\ f.at = e.at + 1 /\ f.pc = "watch" /\ f.match = e.match
          /\ f.seen = e.seen /\ f.failed = e.failed /\ f.ran = e.ran /\ f.present = e.present
          /\ f.state = None
      BY <2>1, <3>1 DEF RecoveryStates
    <3> QED BY <1>3, <1>4, <1>7, <2>2, <2>8, <3>1, <3>2
  <2> QED BY <2>4, <2>5, <2>6, <2>7, <2>8
<1>9. CASE RecoverRestart(r)
  <2>1. CASE Same(r) /\ active.state \in Open
    <3>1. PICK restart : Noted(r, [e EXCEPT !.at = @ + 1, !.restarts = @ \cup {restart}])
      BY <1>1, <1>9, <2>1 DEF RecoverRestart
    <3>2. PICK f : rec'[r] = f /\ f = [e EXCEPT !.at = @ + 1, !.restarts = @ \cup {restart}]
      BY <1>t, <3>1 DEF Noted
    <3>3. /\ f.id = i /\ f.at = e.at + 1 /\ f.pc = "watch" /\ f.match = e.match
          /\ f.seen = e.seen /\ f.failed = e.failed /\ f.ran = e.ran /\ f.present = e.present
          /\ f.state = None
      BY <1>1, <1>2, <3>2 DEF RecoveryStates
    <3>4. RecoverSignal(r) # "run"
      BY <1>9 DEF RecoverRestart
    <3> QED BY <1>3, <1>4, <1>7, <3>2, <3>3, <3>4
  <2>2. CASE ~ (Same(r) /\ active.state \in Open)
    <3>1. Noted(r, Failed(e, "error"))
      BY <1>1, <1>9, <2>2 DEF RecoverRestart
    <3> QED BY <1>1, <1>3, <3>1, FailedFits
  <2> QED BY <2>1, <2>2
<1> QED BY <1>8, <1>9

(* checkpoint_running, from the recovery's side.                           *)
LEMMA RecoveryRuns ==
  ASSUME IInv, [Next]_vars, NEW r \in Recoverers, RecoverRunning(r)
  PROVE  RecoveryOK(r)'
<1>t. TypeOK /\ rec \in [Recoverers -> RecoveryStates] /\ RecoveryOK(r) /\ active \in Operations \cup {None}
  BY DEF IInv, TypeOK, RecoveryInv
<1>1. PICK i \in Ids, e \in RecoveryStates : e = rec[r] /\ i = rec[r].id
  BY <1>t DEF RecoverRunning, RecoveryOK
<1>2. e.pc = "watch" /\ e.due
  BY <1>1 DEF RecoverRunning
<1>3. /\ log'[i] = log[i] /\ tx'[i] = tx[i] /\ Len(log[i]) \in Nat
      /\ tx[i] \in Present \cup {"gone"}
      /\ Known(i) /\ Known(i)' /\ (IsEarly(i)' => IsEarly(i))
  BY <1>1, <1>2, EvidenceFacts DEF Recovery
<1>4. /\ e.state # None => e.state \in Sent(i) /\ tx[i] \in Past
      /\ e.match = "yes" => "succeeded" \in Sent(i)
      /\ e.seen /\ ~ e.present => tx[i] \in Past
      /\ ~ (~ e.seen /\ e.failed = "none")
      /\ e.at <= Len(log[i])
  BY <1>1, <1>2, <1>t DEF RecoveryOK
<1>5. CASE Same(r) /\ active.state \in Open
  <2>1. PICK f : rec'[r] = f /\ f = [e EXCEPT !.due = FALSE, !.ran = TRUE]
    BY <1>1, <1>t, <1>5 DEF RecoverRunning, Noted
  <2>2. /\ f.id = i /\ f.at = e.at /\ f.pc = "watch" /\ f.match = e.match /\ f.seen = e.seen
        /\ f.failed = e.failed /\ f.present = e.present /\ f.state = e.state
    BY <1>1, <1>2, <2>1 DEF RecoveryStates
  <2>3. active' = [active EXCEPT !.state = IF active.state \in Early THEN "running" ELSE active.state]
    BY <1>5 DEF RecoverRunning
  <2>4. active \in Operations
    BY <1>t, <1>5 DEF Same
  <2>5. active'.state \notin Early
    BY <2>3, <2>4 DEF Operations, Early
  <2>6. ~ IsEarly(i)'
    BY <2>5 DEF IsEarly
  <2>7. Sent(i)' = Sent(i) /\ tx'[i] # "none" /\ f.at <= Len(log'[i])
    BY <1>3, <1>4, <2>2 DEF Sent, Present, Live
  <2> QED BY <1>3, <1>4, <2>1, <2>2, <2>6, <2>7, RecoveryFits
<1>6. CASE ~ (Same(r) /\ active.state \in Open)
  <2>1. Noted(r, Failed(e, "error"))
    BY <1>1, <1>6 DEF RecoverRunning
  <2> QED BY <1>1, <1>3, <2>1, FailedFits
<1> QED BY <1>5, <1>6

(* The end of the probe, and the history of updates.                       *)
LEMMA RecoveryAsks ==
  ASSUME IInv, [Next]_vars, NEW r \in Recoverers, ProbeEnds(r) \/ ReadHistory(r) \/ HistoryFails(r)
  PROVE  RecoveryOK(r)'
<1>t. TypeOK /\ rec \in [Recoverers -> RecoveryStates] /\ RecoveryOK(r)
  BY DEF IInv, TypeOK, RecoveryInv
<1>1. PICK i \in Ids, e \in RecoveryStates : e = rec[r] /\ i = rec[r].id
  BY <1>t DEF ProbeEnds, ReadHistory, HistoryFails, RecoveryOK
<1>2. e.pc \in {"watch", "history"}
  BY <1>1 DEF ProbeEnds, ReadHistory, HistoryFails
<1>3. /\ log'[i] = log[i] /\ tx'[i] = tx[i] /\ Len(log[i]) \in Nat
      /\ tx[i] \in Present \cup {"gone"}
      /\ Known(i)' /\ (IsEarly(i)' => IsEarly(i))
  BY <1>1, <1>2, EvidenceFacts DEF Recovery
<1>4. /\ e.state # None => e.state \in Sent(i) /\ tx[i] \in Past
      /\ e.match = "yes" => "succeeded" \in Sent(i)
      /\ e.seen /\ ~ e.present => tx[i] \in Past
      /\ ~ (~ e.seen /\ e.failed = "none")
      /\ e.at <= Len(log[i])
      /\ e.ran => ~ IsEarly(i)
      /\ e.state = "permission-denied" /\ IsEarly(i) => ~ RanBy(i, Len(log[i]))
  BY <1>1, <1>2, <1>t DEF RecoveryOK
<1>5. /\ Sent(i)' = Sent(i) /\ tx'[i] # "none" /\ e.at <= Len(log'[i])
      /\ RanBy(i, Len(log[i]))' <=> RanBy(i, Len(log[i]))
  BY <1>3, <1>4 DEF Sent, Present, Live, RanBy
<1>6. ASSUME NEW f, rec'[r] = f, f.id = i, f.at = e.at, f.pc \in {"history", "apply"},
             f.match = "yes" => "succeeded" \in Sent(i), f.seen = e.seen,
             f.failed = e.failed \/ f.failed # "none",
             f.ran = e.ran, f.present = e.present, f.state = e.state
      PROVE  RecoveryOK(r)'
  BY <1>3, <1>4, <1>5, <1>6, RecoveryFits
<1>7. CASE ProbeEnds(r)
  <2>1. PICK f : rec'[r] = f /\ f = Probed(e)
    BY <1>1, <1>7, <1>t DEF ProbeEnds, Noted
  <2> QED BY <1>1, <1>4, <1>6, <2>1, ProbedEffect
<1>8. CASE ReadHistory(r)
  <2>1. PICK match \in {"none", "no", "yes"} :
          /\ rec'[r] = [e EXCEPT !.match = match, !.pc = "apply"]
          /\ match = "yes" => "succeeded" \in Sent(i)
    BY <1>1, <1>8, <1>t DEF ReadHistory, Noted, Watched
  <2>2. PICK f : rec'[r] = f /\ f = [e EXCEPT !.match = match, !.pc = "apply"]
    BY <2>1
  <2>3. /\ f.id = i /\ f.at = e.at /\ f.pc = "apply" /\ f.match = match /\ f.seen = e.seen
        /\ f.failed = e.failed /\ f.ran = e.ran /\ f.present = e.present /\ f.state = e.state
    BY <1>1, <2>2 DEF RecoveryStates
  <2> QED BY <1>6, <2>1, <2>2, <2>3
<1>9. CASE HistoryFails(r)
  <2>1. PICK failed \in {"error", "malformed", e.failed} :
          /\ rec'[r] = [e EXCEPT !.pc = "apply", !.failed = failed]
          /\ failed = e.failed \/ failed # "none"
    BY <1>1, <1>9, <1>t DEF HistoryFails, Noted
  <2>2. PICK f : rec'[r] = f /\ f = [e EXCEPT !.pc = "apply", !.failed = failed]
    BY <2>1
  <2>3. /\ f.id = i /\ f.at = e.at /\ f.pc = "apply" /\ f.match = e.match /\ f.seen = e.seen
        /\ f.failed = failed /\ f.ran = e.ran /\ f.present = e.present /\ f.state = e.state
    BY <1>1, <2>2 DEF RecoveryStates
  <2> QED BY <1>4, <1>6, <2>1, <2>2, <2>3
<1> QED BY <1>7, <1>8, <1>9

(* A recovery that is done, or was killed, holds nothing.                  *)
LEMMA RecoveryEnds ==
  ASSUME TypeOK, NEW r \in Recoverers, Noted(r, Idle) \/ Noted(r, [Idle EXCEPT !.pc = "complete"])
  PROVE  RecoveryOK(r)'
<1>1. rec'[r].pc \in {"idle", "complete"}
  BY DEF TypeOK, Noted, Idle
<1> QED BY <1>1 DEF RecoveryOK

LEMMA RecoveryStepInv == IInv /\ [Next]_vars => RecoveryInv'
<1> SUFFICES ASSUME IInv, [Next]_vars, NEW r \in Recoverers PROVE RecoveryOK(r)'
  BY DEF RecoveryInv
<1>t. TypeOK /\ rec \in [Recoverers -> RecoveryStates] /\ Ids \cap Recoverers = {}
  BY ConstantsAssumption DEF IInv, TypeOK
<1>k. rec'[r] = rec[r] => RecoveryOK(r)'
  BY RecoveryKept
<1>1. CASE Recovery(r)
  <2>1. CASE RecoverStale(r) \/ RecoverLeave(r)
    <3>1. Noted(r, Idle)
      BY <2>1 DEF RecoverStale, RecoverLeave
    <3> QED BY <1>t, <3>1, RecoveryEnds
  <2>2. CASE RecoverResume(r) \/ RecoverDecide(r)
    <3>1. Noted(r, [Idle EXCEPT !.pc = "complete"])
      BY <2>2 DEF RecoverResume, RecoverDecide
    <3> QED BY <1>t, <3>1, RecoveryEnds
  <2>3. CASE RecoverAdvance(r)
    <3>1. rec' = rec
      BY <2>3 DEF RecoverAdvance
    <3> QED BY <1>k, <3>1
  <2> QED BY <1>1, <2>1, <2>2, <2>3, RecoveryAttaches, RecoveryHears, RecoveryRuns, RecoveryAsks
     DEF Recovery
<1>2. CASE KillRecovery(r) \/ Retire(r)
  <2>1. Noted(r, Idle)
    BY <1>2, <1>t DEF KillRecovery, Retire
  <2> QED BY <1>t, <2>1, RecoveryEnds
<1>3. ASSUME NEW q \in Recoverers, q # r, Recovery(q) \/ KillRecovery(q) \/ Retire(q) PROVE RecoveryOK(r)'
  <2>1. RecoveryOnly(q)
    <3>1. KillRecovery(q) \/ Retire(q) => Noted(q, Idle)
      BY <1>t DEF KillRecovery, Retire
    <3> QED BY <1>3, <1>t, <3>1, RecoveryRecord, RecoveryTypes, RecoveryUpdate
  <2>2. rec'[r] = rec[r]
    BY <1>3, <2>1 DEF RecoveryOnly
  <2> QED BY <1>k, <2>2
<1>4. ASSUME NEW i \in Ids, Owner(i) \/ KillOwner(i) \/ Retire(i) PROVE RecoveryOK(r)'
  <2>1. rec' = rec
    BY <1>4, OwnerRecord DEF KillOwner, Retire
  <2> QED BY <1>k, <2>1
<1>5. CASE Daemon
  <2>1. rec' = rec
    BY <1>5, DaemonKeeps
  <2> QED BY <1>k, <2>1
<1>6. ASSUME NEW c \in Controls, Cancel(c) PROVE RecoveryOK(r)'
  <2>1. rec' = rec
    BY <1>6, CancelKeeps
  <2> QED BY <1>k, <2>1
<1>7. CASE (\E p \in Ids \cup Recoverers : Publish(p)) \/ Acknowledge \/ UNCHANGED vars
  <2>1. rec' = rec
    BY <1>7 DEF Publish, Acknowledge, vars
  <2> QED BY <1>k, <2>1
<1> QED BY <1>1, <1>2, <1>3, <1>4, <1>5, <1>6, <1>7 DEF Next

-----------------------------------------------------------------------------
(* The theorems.                                                           *)

LEMMA Invariance == Spec => []IInv
<1>1. Init => IInv
  BY TypeInit, RecordInit, OwnerInit, RecoveryInit DEF IInv
<1>2. IInv /\ [Next]_vars => IInv'
  BY TypeStep, LogInvStep, LockStep, OwnerStepInv, RecoveryStepInv, ControlInvStep, TruthStep,
     LiveStep DEF IInv
<1> QED BY <1>1, <1>2, PTL DEF Spec

(* Whatever fails and whoever is killed, the journal, the command, the     *)
(* recoveries and the controls stay in the states packagekit.py knows.     *)
THEOREM TypeCorrect == Spec => []TypeOK
<1>1. IInv => TypeOK
  BY DEF IInv
<1> QED BY <1>1, Invariance, PTL

(* finish and recover_journal_active record no success, no cancellation    *)
(* and no refusal that PackageKit did not announce.                        *)
THEOREM ResultsAreTrue == Spec => []ResultsTruthful
<1>1. IInv => ResultsTruthful
  BY DEF IInv
<1> QED BY <1>1, Invariance, PTL

(* While PackageKit works on a transaction the journal shows its operation *)
(* in progress, unless its owner lost the bus and said "interrupted".      *)
THEOREM LiveWorkIsOwned == Spec => []LiveIsOwned
<1>1. IInv => LiveIsOwned
  BY DEF IInv
<1> QED BY <1>1, Invariance, PTL

(* cancel_journal_operation and cancel_faulted record a request to cancel  *)
(* for the transaction that got it, never for its successor.               *)
THEOREM CancelsAreAddressed == Spec => []CancelIsAddressed
<1>1. IInv => CancelIsAddressed
  BY DEF IInv, ControlInv
<1> QED BY <1>1, Invariance, PTL

-----------------------------------------------------------------------------
(* The refinement.                                                         *)

LEMMA JournalInit == Init => Journal!Init
BY DEF Init, Journal!Init

LEMMA JournalStep ==
  ASSUME IInv, [Next]_vars
  PROVE  [Journal!Next]_(Journal!vars)
<1>t. /\ TypeOK /\ LockInv /\ active \in Operations \cup {None} /\ Open \cap Final = {}
      /\ None \notin Ids \cup Recoverers /\ None \notin Operations
  BY NoneIsNothing, ConstantsAssumption DEF IInv, TypeOK
<1>1. CASE UNCHANGED <<active, result>>
  BY <1>1 DEF Journal!vars
<1>2. ASSUME NEW i \in Ids, Begins(i) PROVE Journal!Next
  <2>1. active' \in Operations /\ active'.state \notin Final
    BY <1>2, <1>t, PendingType DEF Begins, Final
  <2> QED BY <1>2, <2>1 DEF Begins, Admissible, Journal!Next, Journal!Admit
<1>3. ASSUME NEW i, Owns(i), active' \in Operations, active'.id = i, result' = result PROVE Journal!Next
  <2>1. active # None /\ active.state \notin Final /\ active'.id = active.id
    BY <1>3, <1>t DEF Owns
  <2> QED BY <1>3, <2>1 DEF Journal!Next, Journal!Progress
<1>4. ASSUME NEW i \in Ids, Owner(i) PROVE [Journal!Next]_(Journal!vars)
  BY <1>1, <1>2, <1>3, <1>4, OwnerRecord DEF Moves, Decides
<1>5. ASSUME NEW r \in Recoverers, Recovery(r) PROVE [Journal!Next]_(Journal!vars)
  BY <1>1, <1>3, <1>5, RecoveryRecord DEF Moves, Decides, RecoverResume, RecoverLeave
<1>6. ASSUME NEW p \in Ids \cup Recoverers, Publish(p) PROVE [Journal!Next]_(Journal!vars)
  <2>1. active # None /\ active.state \in Final /\ result # active /\ result' = active /\ active' = active
    BY <1>6, <1>t DEF Publish, LockInv
  <2>2. active \in Operations /\ Active(active.id) /\ active.id \in Ids
    BY <1>t, <2>1 DEF Active, Operations
  <2>3. result = None
    BY <1>t, <2>1, <2>2 DEF LockInv
  <2> QED BY <2>1, <2>3 DEF Journal!Next, Journal!Publish
<1>7. ASSUME NEW p \in Ids \cup Recoverers, Retire(p) PROVE Journal!Next
  BY <1>7, <1>t DEF Retire, LockInv, Journal!Next, Journal!Retire
<1>8. ASSUME NEW c \in Controls, Cancel(c) PROVE [Journal!Next]_(Journal!vars)
  <2>1. CASE active' # active
    <3>1. /\ active' = [active EXCEPT !.state = "cancel-requested"] /\ Aimed(c) /\ result' = result
      BY <1>8, <2>1, CancelKeeps
    <3>2. active \in Operations /\ Owns(active.id)
      BY <1>t, <3>1 DEF Aimed, Owns
    <3>3. active' \in Operations /\ active'.id = active.id
      BY <3>1, <3>2 DEF Operations, Open
    <3> QED BY <1>3, <3>1, <3>2, <3>3
  <2>2. CASE active' = active
    <3>1. result' = result
      BY <1>8, CancelKeeps
    <3> QED BY <1>1, <2>2, <3>1
  <2> QED BY <2>1, <2>2
<1>9. CASE Acknowledge
  BY <1>9 DEF Acknowledge, Journal!Next, Journal!Take
<1>10. CASE Daemon
  BY <1>1, <1>10, DaemonKeeps DEF journalVars
<1>11. CASE \/ \E i \in Ids : KillOwner(i)
            \/ \E r \in Recoverers : KillRecovery(r)
            \/ UNCHANGED vars
  BY <1>1, <1>11 DEF KillOwner, KillRecovery, vars
<1> QED BY <1>2, <1>4, <1>5, <1>6, <1>7, <1>8, <1>9, <1>10, <1>11 DEF Next

(* Commands, recoveries and controls, killed anywhere and racing for the   *)
(* journal, together implement OperationResults: one operation at a time,  *)
(* decided once, its result kept for the client.                           *)
THEOREM ResultsAreKept == Spec => JournalSpec
BY Invariance, JournalInit, JournalStep, PTL DEF Spec, JournalSpec, Journal!Spec
=============================================================================
