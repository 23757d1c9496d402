----------------------- MODULE PackageKitRestartProofs -----------------------
(***************************************************************************)
(* What PackageKitOperation records of the restarts PackageKit asked for,  *)
(* on top of the invariant of PackageKitOperationProofs.                   *)
(***************************************************************************)
EXTENDS PackageKitOperationProofs

-----------------------------------------------------------------------------
(* The inductive invariant.                                                *)

(* A signal is among the first n of a log, or among all of it.             *)
HasIn(s, n, signal) == \E k \in 1 .. n : s[k] = signal
HasBy(i, n, signal) == HasIn(log[i], n, signal)
Has(i, signal)      == HasBy(i, Len(log[i]), signal)

(* Only the prompt was seen: PackageKit waited and never ran.              *)
PromptBy(i, n) == HasBy(i, n, "auth") /\ ~ HasBy(i, n, "run") /\ ~ HasBy(i, n, "done")
Prompt(i)      == PromptBy(i, Len(log[i]))

(* Nothing but a disappearance follows an end, and what a signal implies   *)
(* about the ones before it.                                               *)
TailOK(i) ==
  /\ \A k, m \in 1 .. Len(log[i]) : k < m /\ log[i][k] \in Ends => log[i][m] \in {"destroy", "lost"}
  /\ tx[i] = "queued" => ~ Has(i, "auth")
  /\ tx[i] = "authorizing" => Has(i, "auth")
  /\ Has(i, "restart") => own[i].kind = "update" /\ Has(i, "run")
  /\ Has(i, "succeeded") => Has(i, "run")
  /\ Has(i, "permission-denied") => Has(i, "auth") \/ Has(i, "run")

(* The record in progress says no more than PackageKit did.                *)
RecordOK(i) ==
  /\ Active(i) => active.kind = own[i].kind
  /\ Owns(i) => /\ active.system \in {0, 2}
                /\ active.system = 2 => Has(i, "restart")
                /\ active.state \notin Early => Has(i, "run")

(* It says no less than its owner heard, as long as the owner can write.   *)
ListenerOK(i) ==
  LET o == own[i] IN
    /\ o.view \notin Early => Has(i, "run")
    /\ o.pc \in {"created", "admitted", "sending"} => ~ Has(i, "auth")
    /\ o.rejected => o.want = "failed"
    /\ o.pc = "pass" /\ o.want = "canceled" => o.view \notin Early
    /\ ~ o.faulted /\ Owns(i) /\ HasBy(i, o.at, "restart") => active.system = 2
    /\ o.pc = "watching" /\ PromptBy(i, o.at) => o.waiting
    /\ o.want \notin {None, "interrupted"} /\ ~ o.faulted =>
         /\ Owns(i) /\ Has(i, "restart") => active.system = 2
         /\ Has(i, "run") => ~ IsEarly(i)
    /\ o.want = "canceled" /\ Prompt(i) => o.waiting

(* What a recovery holds about restarts.                                   *)
EvidenceOK(r) ==
  LET e == rec[r]  i == rec[r].id IN
  e.pc \notin {"idle", "complete"} =>
    /\ e.pc \in {"attach", "history"} => e.state = None /\ e.match = "none"
    /\ e.pc = "watch" => e.seen /\ e.match = "none"
    /\ e.state # None => e.seen /\ e.match = "none"
    /\ e.restarts \subseteq Sent(i)
    /\ e.due \/ e.ran => Has(i, "run")
    /\ e.pc = "watch" /\ e.state = None /\ PromptBy(i, e.at) => e.waiting \/ EndedBy(i, e.at)
    /\ e.state # None =>
         /\ Has(i, "run") => ~ IsEarly(i)
         /\ Prompt(i) => e.waiting

(* A decision that PackageKit may still overtake allows for it.            *)
DecidedOK(i) ==
  decided[i] # None =>
    /\ tx[i] \in Past \/ (decided[i].state = "interrupted" /\ decided[i].by = "owner")
    /\ own[i].kind = "update" /\ decided[i].state = "interrupted" /\ decided[i].by = "owner"
         => decided[i].system # 0

GInv ==
  /\ \A i \in Ids : TailOK(i) /\ RecordOK(i) /\ ListenerOK(i) /\ DecidedOK(i)
  /\ \A r \in Recoverers : EvidenceOK(r)
  /\ RestartRemembered
  /\ NoNeedlessRestart

-----------------------------------------------------------------------------
(* What PackageKit says in a step, and when.                               *)
Says(i, signal) ==
  /\ signal \in Signals
  /\ signal = "auth" => tx[i] = "queued"
  /\ signal \in {"run", "done"} => tx[i] \in Live
  /\ signal \in Reports => tx[i] = "running"
  /\ signal = "restart" => own[i].kind = "update"
  /\ signal = "succeeded" => tx[i] = "running"
  /\ signal = "permission-denied" => tx[i] \in {"authorizing", "running"}
  /\ signal \in Ends => tx[i] \in Live \/ own[i].pc = "sending"

SaysAll(i, phase, signals) ==
  /\ \A k \in 1 .. Len(signals) : Says(i, signals[k]) /\ (signals[k] \in Ends => k = Len(signals))
  /\ phase # "queued"
  /\ phase = "authorizing" => signals = <<"auth">>

LEMMA OneSays ==
  ASSUME NEW i \in Ids, NEW phase \in Present \cup {"gone"}, NEW signal \in Signals, Says(i, signal),
         EmitAll(i, phase, <<signal>>), phase # "queued", phase = "authorizing" => signal = "auth"
  PROVE  \E signals \in Seq(Signals) : EmitAll(i, phase, signals) /\ SaysAll(i, phase, signals)
<1>1. <<signal>> \in Seq(Signals) /\ Len(<<signal>>) = 1 /\ <<signal>>[1] = signal
  OBVIOUS
<1>2. \A k \in 1 .. 1 : k = 1
  OBVIOUS
<1>3. SaysAll(i, phase, <<signal>>)
  BY <1>1, <1>2 DEF SaysAll
<1> QED BY <1>1, <1>3

LEMMA DaemonSays ==
  ASSUME Daemon, ~ DaemonDies
  PROVE  \E i \in Ids, phase \in Present \cup {"gone"}, signals \in Seq(Signals) :
           EmitAll(i, phase, signals) /\ SaysAll(i, phase, signals)
<1> SUFFICES ASSUME NEW i \in Ids,
                    \/ TxAuthorize(i) \/ TxRun(i) \/ TxDestroy(i)
                    \/ \E signal \in Reports : TxReport(i, signal)
                    \/ \E outcome \in Outcomes : TxFinish(i, outcome)
                    \/ \E reply \in Replies : TxReject(i, reply)
             PROVE  \E phase \in Present \cup {"gone"}, signals \in Seq(Signals) :
                      EmitAll(i, phase, signals) /\ SaysAll(i, phase, signals)
  BY DEF Daemon
<1>p. {"authorizing", "running", "over"} \subseteq Present
  BY DEF Present, Live
<1>1. CASE TxAuthorize(i)
  <2>1. Says(i, "auth") /\ "auth" \in Signals /\ EmitAll(i, "authorizing", <<"auth">>)
    BY <1>1 DEF TxAuthorize, Emit, Says, Signals, Statuses, Reports, Ends, Outcomes, Replies
  <2> QED BY <1>p, <2>1, OneSays
<1>2. CASE TxRun(i)
  <2>1. Says(i, "run") /\ "run" \in Signals /\ EmitAll(i, "running", <<"run">>)
    BY <1>2 DEF TxRun, Emit, Says, Signals, Statuses, Reports, Ends, Outcomes, Replies, Live
  <2> QED BY <1>p, <2>1, OneSays
<1>3. CASE TxDestroy(i)
  <2>1. Says(i, "destroy") /\ "destroy" \in Signals /\ EmitAll(i, "gone", <<"destroy">>)
    BY <1>3 DEF TxDestroy, Emit, Says, Signals, Statuses, Reports, Ends, Outcomes, Replies
  <2> QED BY <2>1, OneSays
<1>4. ASSUME NEW signal \in Reports, TxReport(i, signal)
      PROVE  \E phase \in Present \cup {"gone"}, signals \in Seq(Signals) :
               EmitAll(i, phase, signals) /\ SaysAll(i, phase, signals)
  <2>1. Says(i, signal) /\ signal \in Signals /\ EmitAll(i, "running", <<signal>>)
    BY <1>4 DEF TxReport, Emit, Says, Signals, Statuses, Reports, Ends, Outcomes, Replies
  <2> QED BY <1>p, <2>1, OneSays
<1>5. ASSUME NEW reply \in Replies, TxReject(i, reply)
      PROVE  \E phase \in Present \cup {"gone"}, signals \in Seq(Signals) :
               EmitAll(i, phase, signals) /\ SaysAll(i, phase, signals)
  <2>1. Says(i, reply) /\ reply \in Signals /\ EmitAll(i, "over", <<reply>>)
    BY <1>5 DEF TxReject, Emit, Says, Signals, Statuses, Reports, Ends, Outcomes, Replies, Live
  <2> QED BY <1>p, <2>1, OneSays
<1>6. ASSUME NEW outcome \in Outcomes, TxFinish(i, outcome)
      PROVE  \E phase \in Present \cup {"gone"}, signals \in Seq(Signals) :
               EmitAll(i, phase, signals) /\ SaysAll(i, phase, signals)
  <2>1. Says(i, outcome) /\ outcome \in Signals /\ Says(i, "done") /\ "done" \in Signals \ Ends
    BY <1>6 DEF TxFinish, Says, Signals, Statuses, Reports, Ends, Outcomes, Replies, Live
  <2>2. CASE EmitAll(i, "over", <<outcome>>)
    BY <1>p, <2>1, <2>2, OneSays
  <2>3. CASE EmitAll(i, "over", <<"done", outcome>>)
    <3>1. /\ <<"done", outcome>> \in Seq(Signals) /\ Len(<<"done", outcome>>) = 2
          /\ <<"done", outcome>>[1] = "done" /\ <<"done", outcome>>[2] = outcome
      BY <2>1
    <3>2. \A k \in 1 .. 2 : k = 1 \/ k = 2
      OBVIOUS
    <3>3. SaysAll(i, "over", <<"done", outcome>>)
      BY <2>1, <3>1, <3>2 DEF SaysAll
    <3> QED BY <1>p, <2>3, <3>1, <3>3
  <2> QED BY <1>6, <2>2, <2>3 DEF TxFinish, Emit
<1> QED BY <1>1, <1>2, <1>3, <1>4, <1>5, <1>6

(* A step adds to a log only what the phase of the transaction allows.     *)
LEMMA Speaks ==
  ASSUME IInv, [Next]_vars, NEW i \in Ids
  PROVE  /\ Len(log[i]) \in Nat /\ Len(log'[i]) \in Nat /\ Len(log[i]) <= Len(log'[i])
         /\ \A k \in 1 .. Len(log[i]) : log'[i][k] = log[i][k]
         /\ \A k \in 1 .. Len(log'[i]) : k > Len(log[i]) =>
              Says(i, log'[i][k]) /\ (log'[i][k] \in Ends => k = Len(log'[i]))
         /\ tx'[i] = "queued" => log'[i] = log[i] /\ tx[i] \in {"queued", "idle"}
         /\ tx'[i] = "authorizing" => tx[i] = "authorizing" \/ Has(i, "auth")'
<1> DEFINE n == Len(log[i])
           Goal == /\ \A k \in 1 .. Len(log'[i]) : k > Len(log[i]) =>
                        Says(i, log'[i][k]) /\ (log'[i][k] \in Ends => k = Len(log'[i]))
                   /\ tx'[i] = "queued" => log'[i] = log[i] /\ tx[i] \in {"queued", "idle"}
                   /\ tx'[i] = "authorizing" => tx[i] = "authorizing" \/ Has(i, "auth")'
<1>t. /\ TypeOK /\ log[i] \in Seq(Signals) /\ n \in Nat
      /\ log \in [Ids -> Seq(Signals)] /\ tx \in [Ids -> Present \cup {"none", "gone"}]
  BY LenProperties DEF IInv, TypeOK
<1>g. LogGrows(i) /\ log'[i] \in Seq(Signals) /\ Len(log'[i]) \in Nat
  <2>1. log'[i] \in Seq(Signals)
    BY TypeStep DEF TypeOK
  <2> QED BY <2>1, LogStep, LenProperties
<1> SUFFICES Goal
  BY <1>g, <1>t DEF LogGrows
<1>1. ASSUME log'[i] = log[i], tx'[i] = tx[i] PROVE Goal
  BY <1>1, <1>t
<1>2. CASE DaemonDies
  <2>1. "lost" \in Signals /\ Says(i, "lost") /\ "lost" \notin Ends
    BY DEF Says, Signals, Statuses, Reports, Ends, Outcomes, Replies
  <2>2. \/ /\ tx'[i] = "gone" /\ Len(log'[i]) = n + 1
           /\ \A k \in 1 .. n + 1 : log'[i][k] = IF k <= n THEN log[i][k] ELSE "lost"
        \/ tx'[i] = tx[i] /\ log'[i] = log[i]
    BY <1>2, <1>t, DeathEffect
  <2>3. CASE /\ tx'[i] = "gone" /\ Len(log'[i]) = n + 1
             /\ \A k \in 1 .. n + 1 : log'[i][k] = IF k <= n THEN log[i][k] ELSE "lost"
    <3>1. \A k \in 1 .. Len(log'[i]) : k > n => log'[i][k] = "lost"
      BY <1>t, <2>3
    <3> QED BY <2>1, <2>3, <3>1
  <2>4. CASE tx'[i] = tx[i] /\ log'[i] = log[i]
    BY <1>1, <2>4
  <2> HIDE DEF Goal, n
  <2> QED BY <2>2, <2>3, <2>4
<1>3. ASSUME NEW j \in Ids, NEW phase \in Present \cup {"gone"}, NEW signals \in Seq(Signals),
             EmitAll(j, phase, signals), SaysAll(j, phase, signals)
      PROVE  Goal
  <2>1. CASE i = j
    <3>1. /\ tx'[i] = phase /\ Len(log'[i]) = n + Len(signals)
          /\ \A k \in 1 .. n + Len(signals) :
               log'[i][k] = IF k <= n THEN log[i][k] ELSE signals[k - n]
      <4>1. EmitAll(i, phase, signals)
        BY <1>3, <2>1
      <4> QED BY <1>t, <4>1, EmitEffect
    <3>2. Len(signals) \in Nat
      BY LenProperties
    <3>3. ASSUME NEW k \in 1 .. Len(log'[i]), k > n
          PROVE  Says(i, log'[i][k]) /\ (log'[i][k] \in Ends => k = Len(log'[i]))
      <4>1. k - n \in 1 .. Len(signals) /\ log'[i][k] = signals[k - n]
        BY <1>t, <3>1, <3>2, <3>3
      <4> QED BY <1>3, <1>t, <2>1, <3>1, <3>2, <3>3, <4>1 DEF SaysAll
    <3>4. phase = "authorizing" => Has(i, "auth")'
      <4>1. ASSUME phase = "authorizing" PROVE Len(signals) = 1 /\ signals[1] = "auth"
        BY <1>3, <4>1 DEF SaysAll
      <4>2. ASSUME phase = "authorizing" PROVE n + 1 \in 1 .. Len(log'[i]) /\ log'[i][n + 1] = "auth"
        <5>1. n + 1 \in 1 .. n + 1 /\ ~ (n + 1 <= n) /\ n + 1 - n = 1
          <6> HIDE DEF n
          <6> QED BY <1>t
        <5>2. Len(log'[i]) = n + 1 /\ n + 1 \in 1 .. n + Len(signals)
          BY <3>1, <4>1, <4>2, <5>1
        <5>3. log'[i][n + 1] = signals[n + 1 - n]
          BY <3>1, <5>1, <5>2
        <5> QED BY <4>1, <4>2, <5>1, <5>2, <5>3
      <4> QED BY <4>2 DEF Has, HasBy, HasIn
    <3>5. phase # "queued"
      BY <1>3 DEF SaysAll
    <3> QED BY <3>1, <3>3, <3>4, <3>5
  <2>2. CASE i # j
    <3>1. log'[i] = log[i] /\ tx'[i] = tx[i]
      BY <1>3, <1>t, <2>2, EmitEffect
    <3> QED BY <1>1, <3>1
  <2> QED BY <2>1, <2>2
<1>4. ASSUME NEW j \in Ids, CreateTransaction(j) PROVE Goal
  <2>1. log'[i] = log[i] /\ (tx'[i] = tx[i] \/ tx'[i] = "idle")
    BY <1>4, <1>t DEF CreateTransaction
  <2> QED BY <1>1, <1>t, <2>1
<1>5. ASSUME NEW j \in Ids, Send(j) PROVE Goal
  <2>1. CASE i = j /\ tx[i] # "idle"
    <3>1. tx'[i] = tx[i] /\ log'[i] = Append(log[i], "rejected") /\ own[i].pc = "sending"
      BY <1>5, <1>t, <2>1 DEF Send
    <3>2. Len(log'[i]) = n + 1 /\ log'[i][n + 1] = "rejected"
      BY <1>t, <3>1, AppendProperties DEF Signals, Replies
    <3>3. Says(i, "rejected")
      BY <3>1 DEF Says, Signals, Statuses, Reports, Ends, Outcomes, Replies
    <3>4. \A k \in 1 .. Len(log'[i]) : k > n => k = n + 1
      BY <1>t, <3>2
    <3>5. tx[i] # "queued" /\ tx[i] # "authorizing"
      <4>1. tx[i] \in {"idle", "gone"}
        BY <3>1 DEF IInv, OwnerInv, OwnerOK
      <4> QED BY <4>1
    <3> QED BY <3>1, <3>2, <3>3, <3>4, <3>5
  <2>2. CASE i # j \/ tx[i] = "idle"
    <3>1. log'[i] = log[i] /\ (tx'[i] = tx[i] \/ (tx'[i] = "queued" /\ tx[i] = "idle"))
      BY <1>5, <1>t, <2>2 DEF Send
    <3> QED BY <1>1, <1>t, <3>1
  <2> QED BY <2>1, <2>2
<1>6. ASSUME NEW j \in Ids, Owner(j), ~ CreateTransaction(j), ~ Send(j) PROVE UNCHANGED daemonVars
  BY <1>6 DEF Owner, Preflight, Begin, BeforeSend, ObserveStatus, ObserveRestart,
     ObserveMalformed, CancelFaulted, Stop, BusCloses, FinishRead, FinishPass, FinishSettle, GiveUp
<1>7. ASSUME NEW r \in Recoverers, Recovery(r) PROVE UNCHANGED daemonVars
  BY <1>7, RecoveryRecord
<1>8. ASSUME UNCHANGED daemonVars PROVE Goal
  <2>1. log'[i] = log[i] /\ tx'[i] = tx[i]
    BY <1>8 DEF daemonVars
  <2> HIDE DEF Goal
  <2> QED BY <1>1, <2>1
<1>9. CASE \/ \E j \in Ids : KillOwner(j)
           \/ \E r \in Recoverers : KillRecovery(r)
           \/ \E p \in Ids \cup Recoverers : Publish(p) \/ Retire(p)
           \/ \E c \in Controls : Cancel(c)
           \/ Acknowledge
           \/ UNCHANGED vars
  BY <1>8, <1>9, CancelKeeps DEF KillOwner, KillRecovery, Publish, Retire, Acknowledge, vars, daemonVars
<1> HIDE DEF Goal
<1>10. CASE Daemon
  BY <1>2, <1>3, <1>10, DaemonSays
<1>11. CASE \E j \in Ids : Owner(j)
  BY <1>4, <1>5, <1>6, <1>8, <1>11
<1>12. CASE \E r \in Recoverers : Recovery(r)
  BY <1>7, <1>8, <1>12
<1> QED BY <1>9, <1>10, <1>11, <1>12 DEF Next

LEMMA HasSame ==
  ASSUME NEW s, NEW t, NEW n \in Nat, \A k \in 1 .. n : s[k] = t[k]
  PROVE  \A signal : HasIn(s, n, signal) <=> HasIn(t, n, signal)
BY DEF HasIn

LEMMA HasMore ==
  ASSUME NEW s, NEW m \in Nat, NEW n \in Nat, m <= n
  PROVE  \A signal : HasIn(s, m, signal) => HasIn(s, n, signal)
BY DEF HasIn

LEMMA HasNext ==
  ASSUME NEW s, NEW n \in Nat
  PROVE  /\ ~ \E signal : HasIn(s, 0, signal)
         /\ \A signal : HasIn(s, n + 1, signal) <=> HasIn(s, n, signal) \/ s[n + 1] = signal
<1>1. \A k \in 1 .. n + 1 : k \in 1 .. n \/ k = n + 1
  OBVIOUS
<1>2. \A k \in 1 .. n : k \in 1 .. n + 1
  OBVIOUS
<1>3. n + 1 \in 1 .. n + 1 /\ 1 .. 0 = {}
  OBVIOUS
<1> QED BY <1>1, <1>2, <1>3 DEF HasIn

(* Only a transaction that is alive is told about.                         *)
Told == Statuses \cup Reports \cup {"succeeded", "permission-denied"}

LEMMA HasGrows ==
  ASSUME IInv, [Next]_vars, NEW i \in Ids
  PROVE  /\ \A n \in 0 .. Len(log[i]) : \A signal : HasIn(log'[i], n, signal) <=> HasIn(log[i], n, signal)
         /\ \A signal : HasIn(log[i], Len(log[i]), signal) => HasIn(log'[i], Len(log'[i]), signal)
         /\ \A signal : HasIn(log'[i], Len(log'[i]), signal) =>
              HasIn(log[i], Len(log[i]), signal) \/ Says(i, signal)
         /\ tx[i] \notin Live => \A signal \in Told :
              HasIn(log'[i], Len(log'[i]), signal) <=> HasIn(log[i], Len(log[i]), signal)
<1> DEFINE n == Len(log[i])
           m == Len(log'[i])
<1>s. /\ n \in Nat /\ m \in Nat /\ n <= m
      /\ \A k \in 1 .. n : log'[i][k] = log[i][k]
      /\ \A k \in 1 .. m : k > n => Says(i, log'[i][k])
  BY Speaks
<1> HIDE DEF n, m
<1>1. ASSUME NEW l \in 0 .. n
      PROVE  \A signal : HasIn(log'[i], l, signal) <=> HasIn(log[i], l, signal)
  <2>1. l \in Nat /\ \A k \in 1 .. l : k \in 1 .. n
    BY <1>s
  <2> QED BY <1>s, <2>1, HasSame
<1>2. n \in 0 .. n
  BY <1>s
<1>3. ASSUME NEW signal, HasIn(log[i], n, signal) PROVE HasIn(log'[i], m, signal)
  <2>1. HasIn(log'[i], n, signal)
    BY <1>1, <1>2, <1>3
  <2> QED BY <1>s, <2>1, HasMore
<1>4. ASSUME NEW signal, HasIn(log'[i], m, signal) PROVE HasIn(log[i], n, signal) \/ Says(i, signal)
  <2>1. PICK k \in 1 .. m : log'[i][k] = signal
    BY <1>4 DEF HasIn
  <2>2. CASE k > n
    BY <1>s, <2>1, <2>2
  <2>3. CASE k \in 1 .. n
    BY <1>s, <2>1, <2>3 DEF HasIn
  <2> QED BY <1>s, <2>2, <2>3
<1>5. ASSUME tx[i] \notin Live, NEW signal \in Told PROVE ~ Says(i, signal)
  <2>1. signal \in {"run", "done", "auth", "succeeded", "permission-denied"} \cup Reports
    BY <1>5 DEF Told, Statuses
  <2> QED BY <1>5, <2>1 DEF Says, Live
<1> QED BY <1>1, <1>3, <1>4, <1>5 DEF n, m

(* A command keeps to the kind of operation it was started for.            *)
LEMMA KindKept ==
  ASSUME IInv, [Next]_vars, NEW i \in Ids
  PROVE  own'[i].kind = own[i].kind
<1>p. TypeOK
  BY DEF IInv
<1>t. own \in [Ids -> OwnerStates] /\ own[i] \in OwnerStates /\ log[i] \in Seq(Signals)
  BY <1>p DEF TypeOK
<1>l. Len(log[i]) \in Nat /\ own[i].at + 1 \in Nat
  BY <1>t, LenProperties DEF OwnerStates
<1>r. Read(i) \in OwnerStates /\ Read(i).kind = own[i].kind
  BY <1>t, <1>l DEF Read, OwnerStates
<1>e. ASSUME NEW j \in Ids, own' = Ended(j) PROVE own'[i].kind = own[i].kind
  BY <1>e, <1>t DEF Ended, OwnerAt
<1>c. ASSUME NEW target \in (Open \ {"pending"}) \cup {None}, NEW system \in 0 .. 2,
             NEW next \in OwnerStates, next.kind = own[i].kind, Checkpoint(i, target, system, next)
      PROVE  own'[i].kind = own[i].kind
  <2>1. \/ own'[i] = next \/ own'[i] = [next EXCEPT !.faulted = TRUE]
        \/ own'[i] = [next EXCEPT !.view = active'.state]
    BY <1>c, <1>p, CheckpointEffect
  <2> QED BY <1>c, <2>1 DEF OwnerStates
<1>1. CASE Owner(i)
  <2>1. CASE Preflight(i) \/ CreateTransaction(i) \/ Begin(i) \/ Send(i) \/ ObserveMalformed(i)
    <3>1. CASE Preflight(i)
      BY <1>t, <3>1 DEF Preflight, OwnerStates
    <3>2. CASE CreateTransaction(i)
      BY <1>t, <3>2 DEF CreateTransaction, OwnerStates
    <3>3. CASE Begin(i)
      BY <1>e, <1>t, <3>3 DEF Begin, OwnerStates
    <3>4. CASE Send(i)
      BY <1>t, <3>4 DEF Send, OwnerStates
    <3>5. CASE ObserveMalformed(i)
      <4>1. own'[i] = [Read(i) EXCEPT !.spoiled = TRUE]
        BY <1>t, <3>5 DEF ObserveMalformed
      <4> QED BY <1>r, <4>1 DEF OwnerStates
    <3> QED BY <2>1, <3>1, <3>2, <3>3, <3>4, <3>5
  <2>2. CASE BeforeSend(i)
    <3>1. PICK next : /\ next = [own[i] EXCEPT !.pc = "sending", !.at = Len(log[i])]
                      /\ Checkpoint(i, "authorizing", 0, next)
      BY <2>2 DEF BeforeSend
    <3>2. next \in OwnerStates /\ next.kind = own[i].kind
      BY <1>t, <1>l, <3>1 DEF OwnerStates
    <3>3. "authorizing" \in (Open \ {"pending"}) \cup {None} /\ 0 \in 0 .. 2
      BY DEF Open
    <3> QED BY <1>c, <3>1, <3>2, <3>3
  <2>3. CASE ObserveStatus(i) \/ ObserveRestart(i)
    <3>1. PICK next : next = [Read(i) EXCEPT !.waiting = Signal(i) = "auth"]
      OBVIOUS
    <3>4. next \in OwnerStates /\ next.kind = own[i].kind
      BY <1>r, <3>1 DEF OwnerStates
    <3>2. CASE ObserveRestart(i)
      BY <1>c, <1>r, <3>2 DEF ObserveRestart
    <3>3. CASE ObserveStatus(i)
      <4>1. own' = [own EXCEPT ![i] = next] \/ Checkpoint(i, "running", 0, next)
        BY <3>1, <3>3 DEF ObserveStatus
      <4>2. own' = [own EXCEPT ![i] = next] => own'[i] = next
        BY <1>t
      <4> QED BY <1>c, <3>4, <4>1, <4>2 DEF Open
    <3> QED BY <2>3, <3>2, <3>3
  <2>4. CASE CancelFaulted(i)
    BY <1>c, <1>t, <2>4 DEF CancelFaulted, Open
  <2>5. CASE Stop(i) \/ BusCloses(i) \/ GiveUp(i)
    <3>1. CASE own' = Ended(i)
      BY <1>e, <3>1
    <3>2. ASSUME NEW state, NEW rejected,
                 own' = [own EXCEPT ![i] = [own[i] EXCEPT !.pc = "finish", !.want = state, !.rejected = rejected]]
          PROVE  own'[i].kind = own[i].kind
      BY <1>t, <3>2 DEF OwnerStates
    <3> QED BY <2>5, <3>1, <3>2, ZenonT(60) DEF Stop, BusCloses, GiveUp, Stopped
  <2>6. CASE FinishRead(i) \/ FinishSettle(i)
    <3>1. CASE FinishRead(i)
      BY <1>t, <3>1 DEF FinishRead, OwnerStates
    <3>2. CASE FinishSettle(i)
      BY <1>t, <3>2 DEF FinishSettle, OwnerStates
    <3> QED BY <2>6, <3>1, <3>2
  <2>7. CASE FinishPass(i)
    <3>1. PICK next : next = [own[i] EXCEPT !.pc = "settle"]
      OBVIOUS
    <3>3. PICK target \in {"running", "cancel-requested"} : Checkpoint(i, target, 0, next)
      BY <2>7, <3>1 DEF FinishPass
    <3>4. target \in (Open \ {"pending"}) \cup {None} /\ 0 \in 0 .. 2
      BY DEF Open
    <3>2. next \in OwnerStates /\ next.kind = own[i].kind
      BY <1>t, <3>1 DEF OwnerStates
    <3> QED BY <1>c, <3>2, <3>3, <3>4
  <2> QED BY <1>1, <2>1, <2>2, <2>3, <2>4, <2>5, <2>6, <2>7 DEF Owner
<1>2. ASSUME NEW j \in Ids, j # i, Owner(j) PROVE own'[i].kind = own[i].kind
  BY <1>2, <1>p, OwnerTypes DEF OwnerOnly
<1>3. ASSUME NEW j \in Ids, KillOwner(j) PROVE own'[i].kind = own[i].kind
  BY <1>3, <1>e DEF KillOwner
<1>4. ASSUME NEW p \in Ids \cup Recoverers, Publish(p) \/ Retire(p) PROVE own'[i].kind = own[i].kind
  BY <1>4, <1>e DEF Publish, Retire
<1>5. CASE \/ Daemon \/ \E r \in Recoverers : Recovery(r) \/ KillRecovery(r)
           \/ \E c \in Controls : Cancel(c)
           \/ Acknowledge \/ UNCHANGED vars
  BY <1>5, DaemonKeeps, RecoveryRecord, CancelKeeps DEF KillRecovery, Acknowledge, vars
<1> QED BY <1>1, <1>2, <1>3, <1>4, <1>5 DEF Next

-----------------------------------------------------------------------------
(* The shape of the log is kept.                                           *)

(* What the first invariant says of a log, in the words of this one.       *)
LEMMA LogFacts ==
  ASSUME IInv, NEW i \in Ids
  PROVE  /\ Len(log[i]) \in Nat /\ log[i] \in Seq(Signals)
         /\ tx[i] \in {"none", "idle"} => Len(log[i]) = 0
         /\ tx[i] = "running" => Has(i, "run")
         /\ tx[i] \in {"queued", "authorizing"} => ~ Has(i, "run")
         /\ tx[i] \in Live \/ own[i].pc = "sending" => ~ EndedBy(i, Len(log[i]))
         /\ \A signal : signal \in Sent(i) <=> Has(i, signal)
         /\ \A n : RanBy(i, n) <=> HasBy(i, n, "run")
<1>1. log[i] \in Seq(Signals) /\ LogOK(i) /\ OwnerOK(i)
  BY DEF IInv, TypeOK, LogInv, OwnerInv
<1>2. Len(log[i]) \in Nat
  BY <1>1, LenProperties
<1>3. \A signal : signal \in Sent(i) <=> Has(i, signal)
  BY <1>1, SentSignals DEF Sent, Has, HasBy, HasIn
<1>4. \A n : RanBy(i, n) <=> HasBy(i, n, "run")
  BY DEF RanBy, HasBy, HasIn
<1>5. /\ tx[i] \in {"none", "idle"} => Len(log[i]) = 0
      /\ tx[i] = "running" => RanBy(i, Len(log[i]))
      /\ tx[i] \in {"queued", "authorizing"} => ~ RanBy(i, Len(log[i]))
      /\ tx[i] \in Live \/ own[i].pc = "sending" => ~ EndedBy(i, Len(log[i]))
  BY <1>1 DEF LogOK, OwnerOK
<1> QED BY <1>1, <1>2, <1>3, <1>4, <1>5 DEF Has

LEMMA TailStep ==
  ASSUME IInv, GInv, [Next]_vars, NEW i \in Ids
  PROVE  TailOK(i)'
<1> DEFINE n == Len(log[i])
           m == Len(log'[i])
<1>t. TailOK(i)
  BY DEF GInv
<1>s. /\ n \in Nat /\ m \in Nat /\ n <= m
      /\ \A k \in 1 .. n : log'[i][k] = log[i][k]
      /\ \A k \in 1 .. m : k > n => Says(i, log'[i][k]) /\ (log'[i][k] \in Ends => k = m)
      /\ tx'[i] = "queued" => log'[i] = log[i] /\ tx[i] \in {"queued", "idle"}
      /\ tx'[i] = "authorizing" => tx[i] = "authorizing" \/ HasIn(log'[i], m, "auth")
  BY Speaks DEF Has, HasBy
<1>g. /\ \A signal : HasIn(log[i], n, signal) => HasIn(log'[i], m, signal)
      /\ \A signal : HasIn(log'[i], m, signal) => HasIn(log[i], n, signal) \/ Says(i, signal)
  BY HasGrows
<1>f. /\ tx[i] \in {"none", "idle"} => n = 0
      /\ tx[i] = "running" => HasIn(log[i], n, "run")
      /\ tx[i] \in Live \/ own[i].pc = "sending" => ~ EndedBy(i, n)
  BY LogFacts DEF Has, HasBy
<1>1. ASSUME NEW k \in 1 .. m, NEW l \in 1 .. m, k < l, log'[i][k] \in Ends
      PROVE  log'[i][l] \in {"destroy", "lost"}
  <2> HIDE DEF n, m
  <2>1. k \in 1 .. n
    BY <1>1, <1>s
  <2>2. log[i][k] \in Ends
    BY <1>1, <1>s, <2>1
  <2>3. CASE l \in 1 .. n
    BY <1>1, <1>s, <1>t, <2>1, <2>2, <2>3 DEF TailOK, n
  <2>4. CASE l > n
    <3>1. EndedBy(i, n)
      BY <2>1, <2>2 DEF EndedBy
    <3>2. tx[i] \notin Live /\ own[i].pc # "sending" /\ Says(i, log'[i][l])
      BY <1>f, <1>s, <2>4, <3>1
    <3>3. log'[i][l] \in Signals /\ log'[i][l] \notin Statuses \cup Reports \cup Ends
      BY <3>2 DEF Says, Statuses, Live
    <3> QED BY <3>3 DEF Signals, Ends
  <2> QED BY <1>s, <2>3, <2>4
<1>2. tx'[i] = "queued" => ~ HasIn(log'[i], m, "auth")
  <2>1. ASSUME tx'[i] = "queued", tx[i] = "idle" PROVE ~ HasIn(log'[i], m, "auth")
    <3>1. m = 0
      BY <1>f, <1>s, <2>1
    <3> QED BY <3>1, HasNext
  <2>2. ASSUME tx'[i] = "queued", tx[i] = "queued" PROVE ~ HasIn(log'[i], m, "auth")
    BY <1>s, <1>t, <2>2 DEF TailOK, Has, HasBy
  <2> QED BY <1>s, <2>1, <2>2
<1>3. tx'[i] = "authorizing" => HasIn(log'[i], m, "auth")
  BY <1>g, <1>s, <1>t DEF TailOK, Has, HasBy
<1>4. HasIn(log'[i], m, "restart") => own'[i].kind = "update" /\ HasIn(log'[i], m, "run")
  <2>1. Says(i, "restart") => own[i].kind = "update" /\ tx[i] = "running"
    BY DEF Says, Reports
  <2>2. HasIn(log[i], n, "restart") => own[i].kind = "update" /\ HasIn(log[i], n, "run")
    BY <1>t DEF TailOK, Has, HasBy
  <2> QED BY <1>f, <1>g, <2>1, <2>2, KindKept
<1>5. HasIn(log'[i], m, "succeeded") => HasIn(log'[i], m, "run")
  <2>1. Says(i, "succeeded") => tx[i] = "running"
    BY DEF Says
  <2>2. HasIn(log[i], n, "succeeded") => HasIn(log[i], n, "run")
    BY <1>t DEF TailOK, Has, HasBy
  <2> QED BY <1>f, <1>g, <2>1, <2>2
<1>6. HasIn(log'[i], m, "permission-denied") => HasIn(log'[i], m, "auth") \/ HasIn(log'[i], m, "run")
  <2>1. Says(i, "permission-denied") => tx[i] \in {"authorizing", "running"}
    BY DEF Says
  <2>2. HasIn(log[i], n, "permission-denied") => HasIn(log[i], n, "auth") \/ HasIn(log[i], n, "run")
    BY <1>t DEF TailOK, Has, HasBy
  <2>3. tx[i] = "authorizing" => HasIn(log[i], n, "auth")
    BY <1>t DEF TailOK, Has, HasBy
  <2> QED BY <1>f, <1>g, <2>1, <2>2, <2>3
<1> QED BY <1>1, <1>2, <1>3, <1>4, <1>5, <1>6 DEF TailOK, Has, HasBy

-----------------------------------------------------------------------------
(* What a step may add to the record of an operation: nothing but what     *)
(* PackageKit has said by then.                                            *)
Hears(i) ==
  /\ active'.kind = active.kind
  /\ active'.state \in Open =>
       /\ active'.system \in {active.system, 2}
       /\ active'.system # active.system => Has(i, "restart")
       /\ active'.state \notin Early => active.state \notin Early \/ Has(i, "run")

LEMMA CheckpointHears ==
  ASSUME TypeOK, NEW i \in Ids, NEW target \in (Open \ {"pending"}) \cup {None}, NEW system \in {0, 2},
         NEW next \in OwnerStates, Checkpoint(i, target, system, next),
         system = 2 => Has(i, "restart"), target \notin Early \cup {None} => Has(i, "run")
  PROVE  /\ active' = active \/ (Active(i) /\ active'.id = i /\ Hears(i))
         /\ ~ own'[i].faulted /\ next.faulted = own[i].faulted => active'.system = Higher(active.system, system)
<1>t. own \in [Ids -> OwnerStates] /\ active \in Operations \cup {None}
  BY DEF TypeOK
<1>1. CASE own[i].faulted /\ own' = [own EXCEPT ![i] = next] /\ active' = active
  BY <1>t, <1>1
<1>2. CASE ~ own[i].faulted /\ own' = [own EXCEPT ![i] = [next EXCEPT !.faulted = TRUE]] /\ active' = active
  <2>1. [next EXCEPT !.faulted = TRUE].faulted
    BY DEF OwnerStates
  <2> QED BY <1>t, <1>2, <2>1
<1>3. CASE /\ ~ own[i].faulted /\ Owns(i)
           /\ active' = [active EXCEPT !.state = Target(active.state, target), !.system = Higher(@, system)]
  <2>1. active \in Operations /\ active.id = i /\ active.state \in Open /\ Active(i)
    BY <1>t, <1>3 DEF Owns, Active
  <2>2. /\ active'.id = i /\ active'.state = Target(active.state, target)
        /\ active'.kind = active.kind /\ active'.system = Higher(active.system, system)
    BY <1>3, <2>1 DEF Operations
  <2>3. active.system \in 0 .. 2
    BY <2>1 DEF Operations
  <2>4. /\ Higher(active.system, system) \in {active.system, 2}
        /\ Higher(active.system, system) # active.system => system = 2
    BY <2>3 DEF Higher
  <2>5. Target(active.state, target) \notin Early => active.state \notin Early \/ target \notin Early \cup {None}
    BY DEF Target
  <2>6. Hears(i)
    BY <2>2, <2>4, <2>5 DEF Hears
  <2> QED BY <2>1, <2>2, <2>6
<1> QED BY <1>1, <1>2, <1>3 DEF Checkpoint

(* The next signal of a log is one of its signals.                         *)
LEMMA NextSignal ==
  ASSUME NEW s \in Seq(Signals), NEW n \in Nat, n < Len(s)
  PROVE  n + 1 \in 1 .. Len(s) /\ HasIn(s, Len(s), s[n + 1])
<1>1. Len(s) \in Nat
  BY LenProperties
<1>2. n + 1 \in 1 .. Len(s)
  BY <1>1
<1> QED BY <1>2 DEF HasIn

LEMMA OwnerWrites ==
  ASSUME IInv, GInv, NEW i \in Ids, Owner(i), [Next]_vars
  PROVE  active' = active \/ Begins(i) \/ (Active(i) /\ active'.id = i /\ Hears(i))
<1>t. /\ TypeOK /\ OwnerOK(i) /\ ListenerOK(i) /\ TailOK(i)
      /\ own[i] \in OwnerStates /\ log[i] \in Seq(Signals)
  BY DEF IInv, OwnerInv, TypeOK, GInv
<1>l. Len(log[i]) \in Nat /\ own[i].at \in Nat /\ own[i].at + 1 \in Nat
  BY <1>t, LenProperties DEF OwnerStates
<1>r. Read(i) \in OwnerStates
  BY <1>t, <1>l DEF Read, OwnerStates
<1>s. Unread(i) => Has(i, Signal(i))
  BY <1>l, <1>t, NextSignal DEF Unread, Signal, Has, HasBy
<1>n. None \notin Open
  BY NoneIsNothing
<1>1. CASE Begin(i)
  BY <1>1 DEF Begin, Begins
<1>2. CASE BeforeSend(i)
  <2>1. PICK next : /\ next = [own[i] EXCEPT !.pc = "sending", !.at = Len(log[i])]
                    /\ Checkpoint(i, "authorizing", 0, next)
    BY <1>2 DEF BeforeSend
  <2>2. next \in OwnerStates
    BY <1>t, <1>l, <2>1 DEF OwnerStates
  <2>3. "authorizing" \in (Open \ {"pending"}) \cup {None} /\ 0 \in {0, 2} /\ "authorizing" \in Early
    BY DEF Open, Early
  <2> QED BY <1>t, <2>1, <2>2, <2>3, CheckpointHears
<1>3. CASE ObserveStatus(i)
  <2>1. PICK next : next = [Read(i) EXCEPT !.waiting = Signal(i) = "auth"]
    OBVIOUS
  <2>2. next \in OwnerStates
    BY <1>r, <2>1 DEF OwnerStates
  <2>3. active' = active \/ (Checkpoint(i, "running", 0, next) /\ Has(i, "run"))
    BY <1>3, <1>s, <2>1 DEF ObserveStatus
  <2> QED BY <1>t, <2>2, <2>3, CheckpointHears DEF Open
<1>4. CASE ObserveRestart(i)
  <2>1. PICK system \in {0, 2} : /\ Checkpoint(i, None, system, Read(i))
                                 /\ system = 2 => Signal(i) = "restart"
    BY <1>4 DEF ObserveRestart
  <2>2. system = 2 => Has(i, "restart")
    BY <1>4, <1>s, <2>1 DEF ObserveRestart
  <2> QED BY <1>r, <1>t, <2>1, <2>2, CheckpointHears
<1>5. CASE CancelFaulted(i)
  <2>1. active' = active \/ (Checkpoint(i, "cancel-requested", 0, own[i]) /\ own[i].view = "running")
    BY <1>5 DEF CancelFaulted
  <2>2. own[i].view = "running" => Has(i, "run")
    BY <1>t DEF ListenerOK, Early
  <2>3. "cancel-requested" \in (Open \ {"pending"}) \cup {None} /\ 0 \in {0, 2}
    BY DEF Open
  <2> QED BY <1>t, <2>1, <2>2, <2>3, CheckpointHears
<1>6. CASE FinishPass(i)
  <2>1. PICK next : next = [own[i] EXCEPT !.pc = "settle"]
    OBVIOUS
  <2>2. next \in OwnerStates
    BY <1>t, <2>1 DEF OwnerStates
  <2>3. PICK target \in {"running", "cancel-requested"} : Checkpoint(i, target, 0, next)
    BY <1>6, <2>1 DEF FinishPass
  <2>4. target \in (Open \ {"pending"}) \cup {None} /\ 0 \in {0, 2}
    BY DEF Open
  <2>5. Has(i, "run")
    <3>1. own[i].pc = "pass" /\ own[i].want \in {"succeeded", "canceled"}
      BY <1>6, <1>t DEF FinishPass, OwnerOK
    <3>2. CASE own[i].want = "succeeded"
      <4>1. "succeeded" \in Sent(i)
        BY <1>t, <3>2 DEF OwnerOK
      <4> QED BY <1>t, <4>1, LogFacts DEF TailOK
    <3>3. CASE own[i].want = "canceled"
      BY <1>t, <3>1, <3>3 DEF ListenerOK
    <3> QED BY <3>1, <3>2, <3>3
  <2> QED BY <1>t, <2>2, <2>3, <2>4, <2>5, CheckpointHears
<1>7. CASE FinishSettle(i)
  <2>1. /\ active' = [active EXCEPT !.state = own[i].want, !.system = Contribution(i)]
        /\ active \in Operations /\ active.id = i /\ Active(i)
    BY <1>7, <1>t DEF FinishSettle, MayFollow, Owns, TypeOK, Active
  <2>2. active'.id = i /\ active'.kind = active.kind
    BY <2>1 DEF Operations
  <2>3. active'.state \in Final
    <3>1. active'.state = own[i].want
      BY <2>1 DEF Operations
    <3>2. active.state \in Open /\ own[i].want \in Transitions(active.state)
      BY <1>7 DEF FinishSettle, MayFollow, Owns
    <3>3. own[i].want \in Final
      BY <1>t, <3>2, NoneIsNothing, TransitionTypes DEF OwnerStates
    <3> QED BY <3>1, <3>3
  <2> QED BY <2>1, <2>2, <2>3, NoneIsNothing DEF Hears
<1>8. CASE \/ Preflight(i) \/ CreateTransaction(i) \/ Send(i) \/ ObserveMalformed(i) \/ Stop(i)
           \/ BusCloses(i) \/ FinishRead(i) \/ GiveUp(i)
  BY <1>8 DEF Preflight, CreateTransaction, Send, ObserveMalformed, Stop, BusCloses, FinishRead,
     GiveUp, journalVars
<1> QED BY <1>1, <1>2, <1>3, <1>4, <1>5, <1>6, <1>7, <1>8 DEF Owner

LEMMA RecoveryWrites ==
  ASSUME IInv, GInv, NEW r \in Recoverers, Recovery(r), [Next]_vars
  PROVE  active' = active \/ \E i \in Ids : Active(i) /\ active'.id = i /\ Hears(i)
<1> DEFINE i == rec[r].id
<1>t. /\ TypeOK /\ RecoveryOK(r) /\ EvidenceOK(r) /\ rec[r] \in RecoveryStates /\ None \notin Final
      /\ None \notin Open /\ Open \cap Final = {}
  BY NoneIsNothing DEF IInv, RecoveryInv, TypeOK, GInv
<1>i. rec[r].pc \notin {"idle", "complete"} => i \in Ids
  BY <1>t DEF RecoveryOK
<1>a. Same(r) => active \in Operations /\ Active(i)
  BY <1>t DEF TypeOK, Same, Active
<1>1. CASE RecoverRunning(r) /\ active' # active
  <2>1. /\ rec[r].pc = "watch" /\ rec[r].due /\ Same(r)
        /\ active' = [active EXCEPT !.state = IF active.state \in Early THEN "running" ELSE active.state]
    BY <1>1 DEF RecoverRunning
  <2>2. i \in Ids /\ Has(i, "run")
    BY <1>i, <1>t, <2>1 DEF EvidenceOK
  <2>3. active'.id = i /\ active'.kind = active.kind /\ active'.system = active.system
    BY <1>a, <2>1 DEF Operations, Active
  <2> QED BY <1>a, <2>1, <2>2, <2>3 DEF Hears
<1>2. CASE RecoverRestart(r) /\ active' # active
  <2>1. /\ rec[r].pc = "watch" /\ rec[r].at < Len(log[i]) /\ Same(r)
        /\ active' = [active EXCEPT !.system = IF RecoverSignal(r) = "restart" THEN Higher(active.system, 2)
                                              ELSE active.system]
    BY <1>2 DEF RecoverRestart, RecoverUnread, Watched
  <2>2. i \in Ids /\ log[i] \in Seq(Signals) /\ rec[r].at \in Nat
    BY <1>i, <1>t, <2>1 DEF TypeOK, RecoveryStates
  <2>3. Has(i, RecoverSignal(r))
    BY <2>1, <2>2, NextSignal DEF RecoverSignal, Watched, Has, HasBy
  <2>4. /\ active'.id = i /\ active'.kind = active.kind /\ active'.state = active.state
        /\ active'.system = IF RecoverSignal(r) = "restart" THEN Higher(active.system, 2) ELSE active.system
        /\ active.system \in 0 .. 2
    BY <1>a, <2>1 DEF Operations, Active
  <2>5. active.system \in 0 .. 2 => Higher(active.system, 2) = 2
    BY DEF Higher
  <2> QED BY <1>a, <2>1, <2>2, <2>3, <2>4, <2>5 DEF Hears
<1>3. CASE RecoverAdvance(r)
  <2>1. /\ rec[r].pc = "apply" /\ Same(r) /\ active.state \in Open
        /\ active' = [active EXCEPT !.state = Intermediate(rec[r], active.state)]
    BY <1>3 DEF RecoverAdvance, Applying
  <2>2. i \in Ids
    BY <1>i, <2>1
  <2>3. /\ active'.id = i /\ active'.kind = active.kind /\ active'.system = active.system
        /\ active'.state = Intermediate(rec[r], active.state)
    BY <1>a, <2>1 DEF Operations, Active
  <2>4. ASSUME Intermediate(rec[r], active.state) \notin Early, active.state \in Early
        PROVE  Has(i, "run")
    <3>1. rec[r].ran \/ Verdict(rec[r], active.state) = "succeeded"
      BY <2>1, <2>4 DEF Intermediate, Early
    <3>2. rec[r].ran => Has(i, "run")
      BY <1>t, <2>1 DEF EvidenceOK
    <3>3. ASSUME Verdict(rec[r], active.state) = "succeeded" PROVE Has(i, "run")
      <4>1. rec[r].state = "succeeded" \/ rec[r].match = "yes"
        BY <3>3 DEF Verdict
      <4>2. "succeeded" \in Sent(i)
        BY <1>t, <2>1, <4>1, NoneIsNothing DEF RecoveryOK, Final
      <4>3. Has(i, "succeeded") => Has(i, "run")
        BY <2>2 DEF GInv, TailOK
      <4> QED BY <2>2, <4>2, <4>3, LogFacts
    <3> QED BY <3>1, <3>2, <3>3
  <2> QED BY <1>a, <2>1, <2>2, <2>3, <2>4 DEF Hears
<1>4. CASE RecoverDecide(r)
  <2>1. /\ rec[r].pc = "apply" /\ Same(r) /\ active.state \in Open
        /\ active' = [active EXCEPT !.state = Verdict(rec[r], active.state),
                                    !.system = RecoveredSystem(rec[r], active)]
    BY <1>4 DEF RecoverDecide, Applying
  <2>2. active'.id = i /\ active'.kind = active.kind /\ active'.state = Verdict(rec[r], active.state)
    BY <1>a, <2>1 DEF Operations, Active
  <2>3. active'.state \notin Open
    BY <1>t, <2>1, <2>2, VerdictTypes
  <2> QED BY <1>a, <1>i, <2>1, <2>2, <2>3 DEF Hears
<1>5. CASE \/ RecoverLoad(r) \/ Attach(r) \/ AttachFails(r) \/ RecoverObserve(r)
           \/ ProbeEnds(r) \/ ReadHistory(r) \/ HistoryFails(r)
           \/ RecoverStale(r) \/ RecoverResume(r) \/ RecoverLeave(r)
  BY <1>5 DEF RecoverLoad, Attach, AttachFails, RecoverObserve, ProbeEnds, ReadHistory,
     HistoryFails, RecoverStale, RecoverResume, RecoverLeave, journalVars
<1> QED BY <1>1, <1>2, <1>3, <1>4, <1>5 DEF Recovery

LEMMA RecordHears ==
  ASSUME IInv, GInv, [Next]_vars, NEW i \in Ids, Active(i)'
  PROVE  Begins(i) \/ (Active(i) /\ Hears(i))
<1>t. TypeOK /\ active' # None /\ active'.id = i
  BY DEF IInv, Active
<1>1. active' = active => Active(i) /\ Hears(i)
  BY <1>t DEF Active, Hears
<1>2. ASSUME NEW j \in Ids, active'.id = j PROVE j = i
  BY <1>2, <1>t
<1>3. ASSUME NEW j \in Ids, Owner(j) PROVE Begins(i) \/ (Active(i) /\ Hears(i))
  <2>1. Begins(j) => j = i
    BY <1>t, PendingType DEF Begins
  <2> QED BY <1>1, <1>2, <1>3, <2>1, OwnerWrites
<1>4. ASSUME NEW r \in Recoverers, Recovery(r) PROVE Active(i) /\ Hears(i)
  BY <1>1, <1>2, <1>4, RecoveryWrites
<1>5. ASSUME NEW c \in Controls, Cancel(c) PROVE Active(i) /\ Hears(i)
  <2>1. CASE /\ Aimed(c) /\ active.state = "running"
             /\ active' = [active EXCEPT !.state = "cancel-requested"]
    <3>1. active \in Operations /\ active # None
      BY <1>t, <2>1 DEF TypeOK, Aimed
    <3>2. active'.id = active.id /\ active'.kind = active.kind /\ active'.system = active.system
      BY <2>1, <3>1 DEF Operations
    <3> QED BY <1>t, <2>1, <3>1, <3>2 DEF Hears, Active, Early
  <2> QED BY <1>1, <1>5, <2>1, CancelKeeps
<1>6. CASE \/ Daemon \/ Acknowledge \/ UNCHANGED vars
           \/ \E j \in Ids : KillOwner(j)
           \/ \E r \in Recoverers : KillRecovery(r)
           \/ \E p \in Ids \cup Recoverers : Publish(p) \/ Retire(p)
  BY <1>1, <1>6, <1>t, DaemonKeeps DEF journalVars, Acknowledge, vars, KillOwner, KillRecovery,
     Publish, Retire
<1> QED BY <1>3, <1>4, <1>5, <1>6 DEF Next

LEMMA HeardKept ==
  ASSUME IInv, GInv, [Next]_vars, NEW i \in Ids, Known(i), Owns(i)'
  PROVE  /\ Owns(i) /\ Active(i) /\ Hears(i) /\ active'.state \in Open
         /\ active.system = 2 => active'.system = 2
<1>1. Active(i)' /\ active'.state \in Open
  BY DEF Owns, Active
<1>2. ~ Begins(i)
  BY DEF Begins, IInv, OwnerInv, OwnerOK
<1>3. Active(i) /\ Hears(i)
  BY <1>1, <1>2, RecordHears
<1>4. Owns(i)
  BY RecordStep DEF RecordGrows
<1> QED BY <1>1, <1>3, <1>4 DEF Hears

LEMMA RecordStepHears ==
  ASSUME IInv, GInv, [Next]_vars, NEW i \in Ids
  PROVE  RecordOK(i)'
<1>g. \A signal : Has(i, signal) => HasIn(log'[i], Len(log'[i]), signal)
  BY HasGrows DEF Has, HasBy
<1>1. CASE Begins(i)
  <2>1. /\ Pending(i).kind = own'[i].kind /\ Pending(i).system = 0 /\ Pending(i).state = "pending"
        /\ active' = Pending(i)
    BY <1>1, KindKept DEF Begins, Pending
  <2> QED BY <2>1 DEF RecordOK, Active, Owns, Early
<1>2. CASE Active(i) /\ Hears(i) /\ Known(i)
  <2>1. active'.kind = own'[i].kind
    BY <1>2, KindKept DEF Hears, GInv, RecordOK
  <2>2. ASSUME Owns(i)'
        PROVE  /\ active'.system \in {0, 2}
               /\ active'.system = 2 => Has(i, "restart")
               /\ active'.state \notin Early => Has(i, "run")
    BY <1>2, <2>2, HeardKept DEF Hears, GInv, RecordOK
  <2> QED BY <1>g, <2>1, <2>2 DEF RecordOK, Has, HasBy
<1>3. CASE ~ Active(i)'
  BY <1>3 DEF RecordOK, Active, Owns
<1>4. Active(i) => Known(i)
  BY DEF Known
<1> QED BY <1>1, <1>2, <1>3, <1>4, RecordHears

-----------------------------------------------------------------------------
(* What the owner has heard stays in the record.                           *)
LEMMA ListenerMoves ==
  ASSUME IInv, GInv, [Next]_vars, NEW i \in Ids, NEW o, own'[i] = o,
         o.view \notin Early => Has(i, "run")',
         o.pc \in {"created", "admitted", "sending"} \/ (o.pc = "watching" /\ own[i].pc # "watching")
           => own[i].pc \in {"planned", "created", "admitted", "sending"},
         o.pc = "pass" /\ o.want = "canceled" => o.view \notin Early,
         o.want = own[i].want \/ (own[i].want = "permission-denied" /\ o.want = "failed"),
         o.at = own[i].at, o.waiting = own[i].waiting, o.rejected = own[i].rejected,
         own[i].faulted => o.faulted
  PROVE  ListenerOK(i)'
<1> DEFINE n == Len(log[i])
           m == Len(log'[i])
<1>t. /\ OwnerOK(i) /\ ListenerOK(i) /\ TailOK(i) /\ RecordGrows(i)
      /\ own[i].at \in Nat /\ own[i].at <= n
  BY RecordStep DEF IInv, OwnerInv, GInv, TypeOK, OwnerStates, OwnerOK
<1>f. n \in Nat /\ (tx[i] = "none" => n = 0) /\ (RanBy(i, n) <=> HasIn(log[i], n, "run"))
  BY LogFacts DEF HasBy
<1>g. /\ \A signal : HasIn(log'[i], own[i].at, signal) <=> HasIn(log[i], own[i].at, signal)
      /\ tx[i] \notin Live => \A signal \in {"auth", "run", "done", "restart"} :
           HasIn(log'[i], m, signal) <=> HasIn(log[i], n, signal)
  <2>1. own[i].at \in 0 .. Len(log[i])
    BY <1>f, <1>t
  <2>2. {"auth", "run", "done", "restart"} \subseteq Told
    BY DEF Told, Statuses, Reports
  <2> QED BY <2>1, <2>2, HasGrows
<1>b. \A signal : HasIn(log[i], own[i].at, signal) => HasIn(log[i], n, signal)
  BY <1>f, <1>t, HasMore
<1>r. HasIn(log[i], own[i].at, "restart") => RanBy(i, n)
  BY <1>b, <1>f, <1>t DEF TailOK, Has, HasBy
<1>s. own[i].pc \in {"planned", "created", "admitted", "sending"} =>
        tx[i] \notin Live /\ ~ HasIn(log[i], n, "auth")
  <2>1. CASE own[i].pc = "planned"
    BY <1>f, <1>t, <2>1, HasNext DEF OwnerOK, Live
  <2>2. CASE own[i].pc \in {"created", "admitted", "sending"}
    BY <1>t, <2>2 DEF OwnerOK, ListenerOK, Has, HasBy, Live
  <2> QED BY <2>1, <2>2
<1>w. own[i].want \notin {None, "interrupted"} => tx[i] \notin Live /\ Known(i)
  BY <1>t DEF OwnerOK, Past, Live
<1> HIDE DEF n, m
<1>1. o.pc \in {"created", "admitted", "sending"} => ~ HasIn(log'[i], m, "auth")
  BY <1>g, <1>s
<1>2. ASSUME ~ o.faulted, Owns(i)', HasIn(log'[i], o.at, "restart") PROVE active'.system = 2
  <2>1. HasIn(log[i], own[i].at, "restart") /\ RanBy(i, n)
    BY <1>2, <1>g, <1>r
  <2>2. Known(i)'
    BY <1>2 DEF Known, Active, Owns
  <2>3. Known(i)
    BY <1>t, <2>1, <2>2 DEF RecordGrows, OwnerOK, n
  <2> QED BY <1>2, <1>t, <2>1, <2>3, HeardKept DEF ListenerOK, HasBy
<1>3. ASSUME o.pc = "watching", HasIn(log'[i], o.at, "auth"), ~ HasIn(log'[i], o.at, "run"),
             ~ HasIn(log'[i], o.at, "done")
      PROVE  o.waiting
  BY <1>3, <1>b, <1>g, <1>s, <1>t DEF ListenerOK, PromptBy, HasBy
<1>4. ASSUME o.want \notin {None, "interrupted"}, ~ o.faulted
      PROVE  /\ Owns(i)' /\ HasIn(log'[i], m, "restart") => active'.system = 2
             /\ HasIn(log'[i], m, "run") => ~ IsEarly(i)'
  <2>3. own[i].want \notin {None, "interrupted"}
    BY <1>4, NoneIsNothing DEF Final
  <2>1. tx[i] \notin Live /\ Known(i)
    BY <1>w, <2>3
  <2>2. /\ Owns(i) /\ HasIn(log[i], n, "restart") => active.system = 2
        /\ HasIn(log[i], n, "run") => ~ IsEarly(i)
    BY <1>4, <1>t, <2>3 DEF ListenerOK, Has, HasBy, n
  <2> QED BY <1>g, <1>t, <2>1, <2>2, HeardKept DEF RecordGrows
<1>5. ASSUME o.want = "canceled", HasIn(log'[i], m, "auth"), ~ HasIn(log'[i], m, "run"),
             ~ HasIn(log'[i], m, "done")
      PROVE  o.waiting
  <2>1. own[i].want \notin {None, "interrupted"}
    BY <1>5, NoneIsNothing DEF Final
  <2> QED BY <1>5, <1>g, <1>t, <1>w, <2>1 DEF ListenerOK, Prompt, PromptBy, HasBy, n
<1>6. o.rejected => o.want = "failed"
  BY <1>t DEF ListenerOK
<1> QED BY <1>1, <1>2, <1>3, <1>4, <1>5, <1>6 DEF ListenerOK, Has, HasBy, Prompt, PromptBy, m

LEMMA ListenerEnds ==
  ASSUME TypeOK, NEW i \in Ids, own' = Ended(i)
  PROVE  ListenerOK(i)'
<1>1. own'[i] = OwnerAt("end", own[i].kind)
  BY DEF TypeOK, Ended
<1>2. /\ own'[i].view \in Early /\ own'[i].pc = "end" /\ own'[i].at = 0 /\ own'[i].want = None
      /\ ~ own'[i].rejected
  BY <1>1 DEF OwnerAt, Early
<1>3. ~ HasIn(log'[i], 0, "restart")
  BY HasNext
<1>4. None # "canceled"
  BY NoneIsNothing DEF Final
<1> QED BY <1>2, <1>3, <1>4 DEF ListenerOK, HasBy

(* The copy an owner keeps of the state is the recorded one.               *)
LEMMA ViewHears ==
  ASSUME IInv, GInv, [Next]_vars, NEW i \in Ids, NEW target \in (Open \ {"pending"}) \cup {None},
         NEW system \in 0 .. 2, NEW next \in OwnerStates, Checkpoint(i, target, system, next),
         next.view = own[i].view
  PROVE  own'[i].view \notin Early => Has(i, "run")'
<1>t. TypeOK /\ ListenerOK(i) /\ RecordOK(i)'
  BY RecordStepHears DEF IInv, GInv
<1>1. own[i].view \notin Early => Has(i, "run")'
  BY <1>t, HasGrows DEF ListenerOK, Has, HasBy
<1>2. \/ own'[i] = next \/ own'[i] = [next EXCEPT !.faulted = TRUE]
      \/ /\ active' \in Operations /\ active'.id = i /\ active'.state \in Open
         /\ own'[i] = [next EXCEPT !.view = active'.state]
  BY <1>t, CheckpointEffect
<1>3. CASE own'[i] = next \/ own'[i] = [next EXCEPT !.faulted = TRUE]
  BY <1>1, <1>3 DEF OwnerStates
<1>4. CASE /\ active' \in Operations /\ active'.id = i /\ active'.state \in Open
           /\ own'[i] = [next EXCEPT !.view = active'.state]
  <2>1. own'[i].view = active'.state /\ Owns(i)'
    BY <1>4, NoneIsNothing DEF OwnerStates, Owns
  <2> QED BY <1>t, <2>1 DEF RecordOK
<1> QED BY <1>2, <1>3, <1>4

LEMMA ListenerSteps ==
  ASSUME IInv, GInv, [Next]_vars, NEW i \in Ids,
         \/ Preflight(i) \/ CreateTransaction(i) \/ Begin(i) \/ Send(i) \/ CancelFaulted(i)
         \/ FinishRead(i) \/ FinishPass(i) \/ FinishSettle(i)
  PROVE  ListenerOK(i)'
<1>p. TypeOK
  BY DEF IInv
<1>t. own[i] \in OwnerStates /\ own \in [Ids -> OwnerStates] /\ ListenerOK(i) /\ RecordOK(i) /\ OwnerOK(i)
  BY <1>p DEF GInv, TypeOK, IInv, OwnerInv
<1>g. Has(i, "run") => Has(i, "run")'
  BY HasGrows DEF Has, HasBy
<1>v. own[i].view \notin Early => Has(i, "run")'
  BY <1>g, <1>t DEF ListenerOK
<1>1. CASE Preflight(i) \/ CreateTransaction(i) \/ (Begin(i) /\ ~ own' = Ended(i)) \/ FinishSettle(i)
  <2>1. PICK pc \in {"planned", "created", "admitted", "complete"} :
          /\ own' = [own EXCEPT ![i] = [own[i] EXCEPT !.pc = pc]]
          /\ pc = "created" => own[i].pc = "planned"
          /\ pc = "admitted" => own[i].pc = "created"
    BY <1>1 DEF Preflight, CreateTransaction, Begin, FinishSettle
  <2>2. PICK o : o = own'[i]
    OBVIOUS
  <2>3. o = [own[i] EXCEPT !.pc = pc]
    BY <1>t, <2>1, <2>2
  <2>4. /\ o.pc = pc /\ o.view = own[i].view /\ o.at = own[i].at /\ o.want = own[i].want
        /\ o.waiting = own[i].waiting /\ o.rejected = own[i].rejected /\ o.faulted = own[i].faulted
    BY <1>t, <2>3 DEF OwnerStates
  <2> QED BY <1>v, <2>1, <2>2, <2>4, ListenerMoves
<1>2. CASE own' = Ended(i)
  BY <1>2, <1>p, ListenerEnds
<1>3. CASE Send(i)
  <2>1. PICK faulted \in BOOLEAN : own' = [own EXCEPT ![i] = [own[i] EXCEPT !.pc = "watching", !.faulted = faulted]]
    BY <1>3 DEF Send
  <2>2. PICK o : o = own'[i]
    OBVIOUS
  <2>3. o = [own[i] EXCEPT !.pc = "watching", !.faulted = faulted]
    BY <1>t, <2>1, <2>2
  <2>4. /\ o.pc = "watching" /\ o.view = own[i].view /\ o.at = own[i].at /\ o.want = own[i].want
        /\ o.waiting = own[i].waiting /\ o.rejected = own[i].rejected
        /\ own[i].pc = "sending" /\ ~ own[i].faulted
    BY <1>3, <1>t, <2>3 DEF OwnerStates, Send
  <2> QED BY <1>v, <2>2, <2>4, ListenerMoves
<1>4. CASE CancelFaulted(i) \/ FinishPass(i)
  <2> DEFINE P(next, target) ==
               /\ next \in {own[i], [own[i] EXCEPT !.pc = "settle"]}
               /\ own' = own \/ Checkpoint(i, target, 0, next)
               /\ next.pc = own[i].pc => own[i].pc = "watching"
  <2>9. \E next : \E target \in {"running", "cancel-requested"} : P(next, target)
    <3>1. CASE CancelFaulted(i)
      <4>1. P(own[i], "cancel-requested")
        BY <3>1 DEF CancelFaulted, Watching
      <4> HIDE DEF P
      <4> QED BY <4>1
    <3>2. CASE FinishPass(i)
      <4>1. PICK next : next = [own[i] EXCEPT !.pc = "settle"]
        OBVIOUS
      <4>2. PICK target \in {"running", "cancel-requested"} : Checkpoint(i, target, 0, next)
        BY <3>2, <4>1 DEF FinishPass
      <4>3. next.pc = "settle" /\ own[i].pc = "pass"
        BY <1>t, <3>2, <4>1 DEF FinishPass, OwnerStates
      <4>4. P(next, target)
        BY <4>1, <4>2, <4>3
      <4> HIDE DEF P
      <4> QED BY <4>4
    <3> HIDE DEF P
    <3> QED BY <1>4, <3>1, <3>2
  <2>10. PICK next : \E target \in {"running", "cancel-requested"} : P(next, target)
    BY <2>9
  <2>1. PICK target \in {"running", "cancel-requested"} : P(next, target)
    BY <2>10
  <2>2. /\ next \in OwnerStates /\ next.view = own[i].view /\ next.at = own[i].at /\ next.want = own[i].want
        /\ next.waiting = own[i].waiting /\ next.rejected = own[i].rejected /\ next.faulted = own[i].faulted
        /\ next.pc \in {"settle", own[i].pc}
    BY <1>t, <2>1 DEF OwnerStates
  <2>3. target \in (Open \ {"pending"}) \cup {None} /\ 0 \in 0 .. 2
    BY DEF Open
  <2>4. PICK o : o = own'[i]
    OBVIOUS
  <2>5. CASE own' = own
    BY <1>v, <2>1, <2>4, <2>5, ListenerMoves, <1>t DEF ListenerOK
  <2>6. CASE Checkpoint(i, target, 0, next)
    <3>1. o.view \notin Early => Has(i, "run")'
      BY <2>2, <2>3, <2>4, <2>6, ViewHears
    <3>2. /\ o.pc = next.pc /\ o.at = next.at /\ o.want = next.want /\ o.waiting = next.waiting
          /\ o.rejected = next.rejected /\ (own[i].faulted => o.faulted)
      BY <2>2, <2>3, <2>4, <2>6, CheckpointKeeps
    <3>3. o.pc # "pass" /\ (o.pc = "watching" => own[i].pc = "watching")
      BY <2>1, <2>2, <3>2
    <3>4. o.pc \notin {"created", "admitted", "sending"}
      BY <2>1, <2>2, <3>2
    <3> QED BY <2>2, <2>4, <3>1, <3>2, <3>3, <3>4, ListenerMoves
  <2> QED BY <2>1, <2>5, <2>6
<1>5. CASE FinishRead(i)
  <2>7. PICK want : want = IF own[i].want = "permission-denied" /\ active.state \notin Early
                           THEN "failed" ELSE own[i].want
    OBVIOUS
  <2>8. PICK pc : pc = IF want = "succeeded" \/ (want = "canceled" /\ active.state = "running")
                       THEN "pass" ELSE "settle"
    OBVIOUS
  <2>1. /\ own' = [own EXCEPT ![i] = [own[i] EXCEPT !.view = active.state, !.want = want, !.pc = pc]]
        /\ want = own[i].want \/ (own[i].want = "permission-denied" /\ want = "failed")
        /\ pc = "pass" => want = "succeeded" \/ active.state = "running"
        /\ pc \in {"pass", "settle"}
    BY <1>5, <2>7, <2>8 DEF FinishRead
  <2>2. PICK o : o = own'[i]
    OBVIOUS
  <2>3. o = [own[i] EXCEPT !.view = active.state, !.want = want, !.pc = pc]
    BY <1>t, <2>1, <2>2
  <2>4. /\ o.pc = pc /\ o.view = active.state /\ o.at = own[i].at /\ o.want = want
        /\ o.waiting = own[i].waiting /\ o.rejected = own[i].rejected /\ o.faulted = own[i].faulted
    BY <1>t, <2>3 DEF OwnerStates
  <2>5. o.view \notin Early => Has(i, "run")'
    BY <1>5, <1>g, <1>t, <2>4 DEF FinishRead, RecordOK
  <2>6. o.pc = "pass" /\ o.want = "canceled" => o.view \notin Early
    BY <2>1, <2>4 DEF Early
  <2> QED BY <2>1, <2>2, <2>4, <2>5, <2>6, ListenerMoves
<1> QED BY <1>1, <1>2, <1>3, <1>4, <1>5

(* Before the end of a transaction PackageKit said all it had to say.      *)
LEMMA BeforeEnd ==
  ASSUME NEW i \in Ids, TailOK(i), log[i] \in Seq(Signals), NEW n \in Nat, n < Len(log[i]),
         log[i][n + 1] \in Ends
  PROVE  \A signal \in {"auth", "run", "done", "restart"} : Has(i, signal) <=> HasBy(i, n, signal)
<1>1. Len(log[i]) \in Nat
  BY LenProperties
<1>2. ASSUME NEW signal \in {"auth", "run", "done", "restart"}, Has(i, signal)
      PROVE  HasBy(i, n, signal)
  <2>1. PICK k \in 1 .. Len(log[i]) : log[i][k] = signal
    BY <1>2 DEF Has, HasBy, HasIn
  <2>2. ~ (n + 1 < k)
    BY <1>1, <2>1 DEF TailOK
  <2>3. k # n + 1
    BY <2>1 DEF Ends, Outcomes, Replies
  <2>4. k \in 1 .. n
    BY <1>1, <2>2, <2>3
  <2> QED BY <2>1, <2>4 DEF HasBy, HasIn
<1>3. ASSUME NEW signal, HasBy(i, n, signal) PROVE Has(i, signal)
  BY <1>1, <1>3, HasMore DEF Has, HasBy
<1> QED BY <1>2, <1>3

LEMMA ListenerReads ==
  ASSUME IInv, GInv, [Next]_vars, NEW i \in Ids, NEW o, own'[i] = o, Unread(i), log'[i] = log[i],
         o.pc = "watching", o.at = own[i].at + 1, o.want = own[i].want, o.rejected = own[i].rejected,
         own[i].faulted => o.faulted,
         o.view \notin Early => Has(i, "run")',
         Signal(i) = "restart" /\ ~ o.faulted /\ Owns(i)' => active'.system = 2,
         Signal(i) = "auth" => o.waiting,
         Signal(i) \notin Statuses => o.waiting = own[i].waiting
  PROVE  ListenerOK(i)'
<1>t. OwnerOK(i) /\ ListenerOK(i) /\ own[i].at \in Nat /\ own[i].pc = "watching"
  BY DEF IInv, OwnerInv, GInv, TypeOK, OwnerStates, Unread, Watching
<1>w. o.want = None /\ None # "canceled" /\ Known(i)
  BY <1>t, NoneIsNothing DEF OwnerOK, Final
<1>1. \A signal : HasIn(log'[i], o.at, signal) <=> HasIn(log[i], own[i].at, signal) \/ Signal(i) = signal
  <2>1. \A signal : HasIn(log[i], own[i].at + 1, signal) <=>
                       HasIn(log[i], own[i].at, signal) \/ log[i][own[i].at + 1] = signal
    BY <1>t, HasNext
  <2>2. log'[i] = log[i] /\ o.at = own[i].at + 1
    OBVIOUS
  <2> QED BY <2>1, <2>2 DEF Signal
<1>2. ASSUME ~ o.faulted, Owns(i)', HasIn(log'[i], o.at, "restart") PROVE active'.system = 2
  <2>1. CASE HasIn(log[i], own[i].at, "restart")
    BY <1>2, <1>t, <1>w, <2>1, HeardKept DEF ListenerOK, HasBy
  <2> QED BY <1>1, <1>2, <2>1
<1>3. ASSUME HasIn(log'[i], o.at, "auth"), ~ HasIn(log'[i], o.at, "run"), ~ HasIn(log'[i], o.at, "done")
      PROVE  o.waiting
  <2>1. Signal(i) # "run" /\ Signal(i) # "done"
    BY <1>1, <1>3
  <2>2. CASE Signal(i) = "auth"
    BY <2>2
  <2>3. CASE Signal(i) # "auth"
    <3>1. PromptBy(i, own[i].at) /\ Signal(i) \notin Statuses
      BY <1>1, <1>3, <2>1, <2>3 DEF PromptBy, HasBy, Statuses
    <3> QED BY <1>t, <3>1 DEF ListenerOK
  <2> QED BY <2>2, <2>3
<1>4. o.rejected => o.want = "failed"
  BY <1>t DEF ListenerOK
<1> QED BY <1>2, <1>3, <1>4, <1>w DEF ListenerOK, Has, HasBy, Prompt, PromptBy

LEMMA ListenerObserves ==
  ASSUME IInv, GInv, [Next]_vars, NEW i \in Ids,
         ObserveStatus(i) \/ ObserveRestart(i) \/ ObserveMalformed(i)
  PROVE  ListenerOK(i)'
<1>p. TypeOK
  BY DEF IInv
<1>t. /\ own[i] \in OwnerStates /\ own \in [Ids -> OwnerStates] /\ log[i] \in Seq(Signals)
      /\ ListenerOK(i) /\ RecordOK(i) /\ OwnerOK(i)
  BY <1>p DEF GInv, TypeOK, IInv, OwnerInv
<1>l. own[i].at + 1 \in Nat
  BY <1>t DEF OwnerStates
<1>r. /\ Read(i) \in OwnerStates /\ Read(i).pc = own[i].pc /\ Read(i).view = own[i].view
      /\ Read(i).at = own[i].at + 1 /\ Read(i).want = own[i].want /\ Read(i).waiting = own[i].waiting
      /\ Read(i).rejected = own[i].rejected /\ Read(i).faulted = own[i].faulted
  BY <1>t, <1>l DEF Read, OwnerStates
<1>u. Unread(i) /\ own[i].pc = "watching" /\ log'[i] = log[i]
  BY DEF ObserveStatus, ObserveRestart, ObserveMalformed, Unread, Watching, daemonVars
<1>v. own[i].view \notin Early => Has(i, "run")'
  BY <1>t, HasGrows DEF ListenerOK, Has, HasBy
<1>o. PICK o : o = own'[i]
  OBVIOUS
<1>1. CASE ObserveStatus(i)
  <2>1. PICK next : next = [Read(i) EXCEPT !.waiting = Signal(i) = "auth"]
    OBVIOUS
  <2>2. /\ next \in OwnerStates /\ next.pc = "watching" /\ next.view = own[i].view /\ next.at = own[i].at + 1
        /\ next.want = own[i].want /\ next.rejected = own[i].rejected /\ next.faulted = own[i].faulted
        /\ next.waiting = (Signal(i) = "auth")
    BY <1>r, <1>u, <2>1 DEF OwnerStates
  <2>3. Signal(i) \in Statuses /\ (own' = [own EXCEPT ![i] = next] \/ Checkpoint(i, "running", 0, next))
    BY <1>1, <2>1 DEF ObserveStatus
  <2>4. "running" \in (Open \ {"pending"}) \cup {None} /\ 0 \in 0 .. 2 /\ "restart" \notin Statuses
    BY DEF Open, Statuses
  <2>5. CASE own' = [own EXCEPT ![i] = next]
    <3>1. o = next
      BY <1>o, <1>t, <2>5
    <3> QED BY <1>o, <1>u, <1>v, <2>2, <2>3, <2>4, <3>1, ListenerReads
  <2>6. CASE Checkpoint(i, "running", 0, next)
    <3>1. o.view \notin Early => Has(i, "run")'
      BY <1>o, <2>2, <2>4, <2>6, ViewHears
    <3>2. /\ o.pc = next.pc /\ o.at = next.at /\ o.want = next.want /\ o.waiting = next.waiting
          /\ o.rejected = next.rejected /\ (own[i].faulted => o.faulted)
      BY <1>o, <2>2, <2>4, <2>6, CheckpointKeeps
    <3> QED BY <1>o, <1>u, <2>2, <2>3, <2>4, <3>1, <3>2, ListenerReads
  <2> QED BY <2>3, <2>5, <2>6
<1>2. CASE ObserveRestart(i)
  <2>1. PICK system \in {0, 2} : /\ Checkpoint(i, None, system, Read(i))
                                 /\ system = 2 <=> Signal(i) = "restart"
    BY <1>2 DEF ObserveRestart
  <2>2. None \in (Open \ {"pending"}) \cup {None} /\ system \in 0 .. 2 /\ Signal(i) \notin Statuses
    BY <1>2 DEF ObserveRestart, Statuses
  <2>3. o.view \notin Early => Has(i, "run")'
    BY <1>o, <1>r, <2>1, <2>2, ViewHears
  <2>4. /\ o.pc = "watching" /\ o.at = own[i].at + 1 /\ o.want = own[i].want /\ o.waiting = own[i].waiting
        /\ o.rejected = own[i].rejected /\ (own[i].faulted => o.faulted)
    BY <1>o, <1>r, <1>u, <2>1, <2>2, CheckpointKeeps
  <2>5. ASSUME Signal(i) = "restart", ~ o.faulted, Owns(i)' PROVE active'.system = 2
    <3>1. Has(i, "restart")
      <4>1. own[i].at \in Nat /\ own[i].at < Len(log[i])
        BY <1>t, <1>u DEF OwnerStates, Unread
      <4> QED BY <1>t, <2>5, <4>1, NextSignal DEF Signal, Has, HasBy
    <3>2. system = 2 /\ Read(i).faulted = own[i].faulted
      BY <1>r, <2>1, <2>5
    <3>3. active'.system = Higher(active.system, 2)
      BY <1>o, <1>p, <1>r, <2>1, <2>2, <2>5, <3>1, <3>2, CheckpointHears
    <3>4. active.system \in {0, 2}
      <4>1. Known(i)
        BY <1>t, <1>u DEF OwnerOK
      <4> QED BY <1>t, <2>5, <4>1, HeardKept DEF RecordOK
    <3> QED BY <3>3, <3>4 DEF Higher
  <2>6. Signal(i) = "auth" => Signal(i) \in Statuses
    BY DEF Statuses
  <2> QED BY <1>o, <1>u, <2>2, <2>3, <2>4, <2>5, <2>6, ListenerReads
<1>3. CASE ObserveMalformed(i)
  <2>1. o = [Read(i) EXCEPT !.spoiled = TRUE]
    BY <1>3, <1>o, <1>t DEF ObserveMalformed
  <2>2. /\ o.pc = "watching" /\ o.at = own[i].at + 1 /\ o.want = own[i].want /\ o.waiting = own[i].waiting
        /\ o.rejected = own[i].rejected /\ o.faulted = own[i].faulted /\ o.view = own[i].view
    BY <1>r, <1>u, <2>1 DEF OwnerStates
  <2>3. Signal(i) = "malformed"
    BY <1>3 DEF ObserveMalformed
  <2> QED BY <1>o, <1>u, <1>v, <2>2, <2>3, ListenerReads
<1> QED BY <1>1, <1>2, <1>3

LEMMA ListenerBeforeSend ==
  ASSUME IInv, GInv, [Next]_vars, NEW i \in Ids, BeforeSend(i)
  PROVE  ListenerOK(i)'
<1>p. TypeOK
  BY DEF IInv
<1>t. own[i] \in OwnerStates /\ ListenerOK(i) /\ OwnerOK(i) /\ TailOK(i) /\ own[i].pc = "admitted"
  BY <1>p DEF GInv, TypeOK, IInv, OwnerInv, BeforeSend
<1>l. Len(log[i]) \in Nat /\ (RanBy(i, Len(log[i])) <=> Has(i, "run"))
  BY LogFacts DEF Has
<1>1. PICK next : /\ next = [own[i] EXCEPT !.pc = "sending", !.at = Len(log[i])]
                  /\ Checkpoint(i, "authorizing", 0, next)
  BY DEF BeforeSend
<1>2. /\ next \in OwnerStates /\ next.pc = "sending" /\ next.view = own[i].view /\ next.at = Len(log[i])
      /\ next.want = own[i].want /\ next.rejected = own[i].rejected /\ next.faulted = own[i].faulted
  BY <1>l, <1>t, <1>1 DEF OwnerStates
<1>3. "authorizing" \in (Open \ {"pending"}) \cup {None} /\ 0 \in 0 .. 2
  BY DEF Open
<1>4. PICK o : o = own'[i]
  OBVIOUS
<1>5. o.view \notin Early => Has(i, "run")'
  BY <1>1, <1>2, <1>3, <1>4, ViewHears
<1>6. o.pc = "sending" /\ o.at = Len(log[i]) /\ o.want = own[i].want /\ o.rejected = own[i].rejected
  <2>1. o.pc = next.pc /\ o.at = next.at /\ o.want = next.want /\ o.rejected = next.rejected
    <3>1. Checkpoint(i, "authorizing", 0, next) /\ next.view = own[i].view /\ next.faulted = own[i].faulted
          /\ next \in OwnerStates
      BY <1>1, <1>2
    <3> QED BY <1>3, <1>4, <3>1, CheckpointKeeps
  <2> QED BY <1>2, <2>1
<1>7. log'[i] = log[i] /\ ~ Has(i, "restart") /\ ~ Has(i, "auth")
  BY <1>l, <1>t DEF BeforeSend, daemonVars, TailOK, OwnerOK, ListenerOK
<1>8. o.want = None /\ None # "canceled" /\ ~ o.rejected
  BY <1>6, <1>t, NoneIsNothing DEF OwnerOK, ListenerOK, Final
<1> QED BY <1>4, <1>5, <1>6, <1>7, <1>8 DEF ListenerOK, Has, HasBy

LEMMA ListenerStops ==
  ASSUME IInv, GInv, [Next]_vars, NEW i \in Ids, Stop(i) \/ BusCloses(i)
  PROVE  ListenerOK(i)'
<1>p. TypeOK
  BY DEF IInv
<1>t. /\ own[i] \in OwnerStates /\ own \in [Ids -> OwnerStates] /\ log[i] \in Seq(Signals)
      /\ ListenerOK(i) /\ OwnerOK(i) /\ TailOK(i)
  BY <1>p DEF GInv, TypeOK, IInv, OwnerInv
<1>1. CASE own' = Ended(i)
  BY <1>1, <1>p, ListenerEnds
<1>2. CASE own' # Ended(i)
  <2>1. PICK state, rejected :
          /\ own' = [own EXCEPT ![i] = [own[i] EXCEPT !.pc = "finish", !.want = state, !.rejected = rejected]]
          /\ \/ state = "interrupted" /\ ~ rejected
             \/ Unread(i) /\ Signal(i) \in Outcomes \cup Replies \cup {"destroy", "lost"}
                /\ state = StopState(i) /\ rejected = (Signal(i) = "rejected")
          /\ ~ own[i].faulted
    BY <1>2 DEF Stop, BusCloses, Stopped
  <2>2. PICK o : o = own'[i]
    OBVIOUS
  <2>3. /\ o.pc = "finish" /\ o.view = own[i].view /\ o.at = own[i].at /\ o.want = state
        /\ o.waiting = own[i].waiting /\ o.rejected = rejected /\ o.faulted = own[i].faulted
    BY <1>t, <2>1, <2>2 DEF OwnerStates
  <2>4. log'[i] = log[i] /\ active' = active /\ own[i].pc = "watching"
    BY DEF Stop, BusCloses, journalVars, daemonVars, Unread, Watching
  <2>5. rejected => state = "failed"
    BY <2>1 DEF StopState, Outcomes
  <2>6. ASSUME state # "interrupted"
        PROVE  /\ Owns(i) /\ Has(i, "restart") => active.system = 2
               /\ Has(i, "run") => ~ IsEarly(i)
               /\ Prompt(i) => own[i].waiting
    <3>1. Unread(i) /\ Signal(i) \in Ends
      BY <2>1, <2>6 DEF StopState, Ends, Outcomes, Replies
    <3>2. own[i].at \in Nat /\ own[i].at < Len(log[i]) /\ log[i][own[i].at + 1] \in Ends
      BY <1>t, <3>1 DEF OwnerStates, Unread, Signal
    <3>3. \A signal \in {"auth", "run", "done", "restart"} : Has(i, signal) <=> HasBy(i, own[i].at, signal)
      BY <1>t, <3>2, BeforeEnd
    <3>4. RanBy(i, own[i].at) <=> HasBy(i, own[i].at, "run")
      BY LogFacts
    <3>5. Has(i, "run") => ~ IsEarly(i)
      BY <1>t, <2>1, <2>4, <3>3, <3>4 DEF OwnerOK
    <3>6. Owns(i) /\ Has(i, "restart") => active.system = 2
      BY <1>t, <2>1, <3>3 DEF ListenerOK
    <3>7. Prompt(i) => own[i].waiting
      BY <1>t, <2>4, <3>3 DEF ListenerOK, Prompt, PromptBy, Has
    <3> QED BY <3>5, <3>6, <3>7
  <2>7. Owns(i)' = Owns(i) /\ IsEarly(i)' = IsEarly(i) /\ Has(i, "run") = Has(i, "run")'
        /\ Has(i, "restart") = Has(i, "restart")' /\ Prompt(i)' = Prompt(i)
    BY <2>4 DEF Owns, IsEarly, Active, Has, HasBy, Prompt, PromptBy
  <2>8. o.view \notin Early => Has(i, "run")'
    BY <1>t, <2>3, <2>7 DEF ListenerOK
  <2>9. ~ o.faulted /\ Owns(i)' /\ HasIn(log'[i], o.at, "restart") => active'.system = 2
    BY <1>t, <2>3, <2>4, <2>7 DEF ListenerOK, HasBy
  <2> QED BY <2>2, <2>3, <2>4, <2>5, <2>6, <2>7, <2>8, <2>9 DEF ListenerOK, HasBy
<1> QED BY <1>1, <1>2

LEMMA ListenerStep ==
  ASSUME IInv, GInv, [Next]_vars, NEW i \in Ids
  PROVE  ListenerOK(i)'
<1>t. TypeOK /\ own \in [Ids -> OwnerStates] /\ Ids \cap Recoverers = {} /\ ListenerOK(i)
  BY ConstantsAssumption DEF IInv, TypeOK, GInv
<1>k. ASSUME own'[i] = own[i] PROVE ListenerOK(i)'
  <2>1. PICK o : o = own[i]
    OBVIOUS
  <2>2. o.view \notin Early => Has(i, "run")'
    BY <1>t, <2>1, HasGrows DEF ListenerOK, Has, HasBy
  <2>3. o.pc = "pass" /\ o.want = "canceled" => o.view \notin Early
    BY <1>t, <2>1 DEF ListenerOK
  <2> QED BY <1>k, <2>1, <2>2, <2>3, ListenerMoves
<1>1. CASE Owner(i)
  <2>1. GiveUp(i) => own' = Ended(i)
    BY DEF GiveUp
  <2> QED BY <1>1, <1>t, <2>1, ListenerSteps, ListenerObserves, ListenerBeforeSend, ListenerStops, ListenerEnds
       DEF Owner
<1>2. CASE KillOwner(i) \/ Retire(i)
  <2>1. own' = Ended(i)
    BY <1>2 DEF KillOwner, Retire
  <2> QED BY <1>t, <2>1, ListenerEnds
<1>3. ASSUME NEW j \in Ids, j # i, Owner(j) \/ KillOwner(j) \/ Retire(j) PROVE ListenerOK(i)'
  <2>1. own'[i] = own[i]
    BY <1>3, <1>t, OwnerTypes DEF OwnerOnly
  <2> QED BY <1>k, <2>1
<1>4. ASSUME NEW r \in Recoverers, Recovery(r) \/ KillRecovery(r) \/ Retire(r) PROVE ListenerOK(i)'
  <2>1. own' = own
    BY <1>4, <1>t, RecoveryRecord DEF KillRecovery, Retire
  <2> QED BY <1>k, <2>1
<1>5. CASE Daemon
  <2>1. own' = own
    BY <1>5, DaemonKeeps
  <2> QED BY <1>k, <2>1
<1>6. ASSUME NEW c \in Controls, Cancel(c) PROVE ListenerOK(i)'
  <2>1. own' = own
    BY <1>6, CancelKeeps
  <2> QED BY <1>k, <2>1
<1>7. CASE (\E p \in Ids \cup Recoverers : Publish(p)) \/ Acknowledge \/ UNCHANGED vars
  <2>1. own' = own
    BY <1>7 DEF Publish, Acknowledge, vars
  <2> QED BY <1>k, <2>1
<1> QED BY <1>1, <1>2, <1>3, <1>4, <1>5, <1>6, <1>7 DEF Next

-----------------------------------------------------------------------------
(* The recoveries.                                                         *)

(* What the evidence must agree with after a step of the recovery.         *)
LEMMA EvidenceFits ==
  ASSUME NEW r \in Recoverers, NEW i \in Ids, NEW e, rec'[r] = e, e.id = i, log'[i] = log[i],
         e.pc \in {"attach", "history"} => e.state = None /\ e.match = "none",
         e.pc = "watch" => e.seen /\ e.match = "none",
         e.state # None => e.seen /\ e.match = "none",
         e.restarts \subseteq Sent(i),
         e.due \/ e.ran => Has(i, "run"),
         e.pc = "watch" /\ e.state = None /\ PromptBy(i, e.at) => e.waiting \/ EndedBy(i, e.at),
         e.state # None => (Has(i, "run") => ~ IsEarly(i)') /\ (Prompt(i) => e.waiting)
  PROVE  EvidenceOK(r)'
<1>1. /\ Sent(i)' = Sent(i) /\ Has(i, "run")' = Has(i, "run") /\ Prompt(i)' = Prompt(i)
  BY DEF Sent, Has, HasBy, Prompt, PromptBy
<1>2. \A n : PromptBy(i, n)' = PromptBy(i, n) /\ EndedBy(i, n)' = EndedBy(i, n)
  BY DEF PromptBy, HasBy, EndedBy
<1> QED BY <1>1, <1>2 DEF EvidenceOK

(* A recovery that has heard nothing holds nothing.                        *)
LEMMA EmptyEvidence ==
  ASSUME NEW r \in Recoverers, NEW e, rec'[r] = e, e.pc # "watch", e.state = None, e.match = "none",
         e.restarts = {}, ~ e.due, ~ e.ran
  PROVE  EvidenceOK(r)'
BY DEF EvidenceOK

LEMMA ProbedMore ==
  ASSUME NEW e \in RecoveryStates
  PROVE  /\ Probed(e).restarts = e.restarts /\ Probed(e).due = e.due /\ Probed(e).waiting = e.waiting
         /\ Probed(e).pc = "history" => e.state = None
BY DEF Probed, RecoveryStates

LEMMA FailedEvidence ==
  ASSUME TypeOK, NEW r \in Recoverers, NEW e \in RecoveryStates, NEW why \in {"timeout", "error", "malformed"},
         Noted(r, Failed(e, why))
  PROVE  EvidenceOK(r)'
<1> DEFINE g == [Idle EXCEPT !.id = e.id, !.failed = why]
<1>1. g \in RecoveryStates
  BY RecoveryTypes, ZenonT(60) DEF RecoveryStates
<1>2. g.restarts = {} /\ ~ g.due
  BY DEF Idle
<1> HIDE DEF g
<1>3. Failed(e, why).restarts = {} /\ ~ Failed(e, why).due
  BY <1>1, <1>2, ProbedMore DEF Failed, g
<1>4. PICK f : f = Failed(e, why) /\ rec'[r] = f
  BY RecoveryTypes, RecoveryUpdate
<1>5. f.pc \in {"history", "apply"} /\ ~ f.ran /\ f.state = None /\ f.match = "none"
  BY <1>4, FailedEffect
<1> QED BY <1>3, <1>4, <1>5, EmptyEvidence

(* Evidence nobody touches stays good.                                     *)
LEMMA EvidenceKept ==
  ASSUME IInv, GInv, [Next]_vars, NEW r \in Recoverers, rec'[r] = rec[r]
  PROVE  EvidenceOK(r)'
<1>1. CASE rec[r].pc \in {"idle", "complete"}
  BY <1>1 DEF EvidenceOK
<1>2. CASE rec[r].pc \notin {"idle", "complete"}
  <2>1. PICK i \in Ids, e \in RecoveryStates : e = rec[r] /\ i = e.id
    BY <1>2 DEF IInv, TypeOK, RecoveryInv, RecoveryOK
  <2>2. /\ e.at \in Nat /\ e.at <= Len(log[i]) /\ (e.state # None => tx[i] \in Past)
        /\ Len(log[i]) \in Nat
    BY <1>2, <2>1, LogFacts DEF IInv, RecoveryInv, RecoveryOK, RecoveryStates
  <2>3. /\ e.pc \in {"attach", "history"} => e.state = None /\ e.match = "none"
        /\ e.pc = "watch" => e.seen /\ e.match = "none"
        /\ e.state # None => e.seen /\ e.match = "none"
        /\ e.restarts \subseteq Sent(i)
        /\ e.due \/ e.ran => Has(i, "run")
        /\ e.pc = "watch" /\ e.state = None /\ PromptBy(i, e.at) => e.waiting \/ EndedBy(i, e.at)
        /\ e.state # None => (Has(i, "run") => ~ IsEarly(i)) /\ (Prompt(i) => e.waiting)
    BY <1>2, <2>1 DEF GInv, EvidenceOK
  <2>4. /\ Sent(i) \subseteq Sent(i)' /\ (Has(i, "run") => Has(i, "run")')
        /\ IsEarly(i)' => IsEarly(i)
    <3>1. Known(i)
      BY <1>2, <2>1 DEF IInv, RecoveryInv, RecoveryOK
    <3> QED BY <3>1, SentKept, RecordStep, HasGrows DEF RecordGrows, Has, HasBy
  <2>5. /\ PromptBy(i, e.at)' <=> PromptBy(i, e.at)
        /\ EndedBy(i, e.at) => EndedBy(i, e.at)'
    <3>1. e.at \in 0 .. Len(log[i])
      BY <2>2
    <3>2. \A signal : HasIn(log'[i], e.at, signal) <=> HasIn(log[i], e.at, signal)
      BY <3>1, HasGrows
    <3>3. \A k \in 1 .. e.at : log'[i][k] = log[i][k]
      BY <2>2, Speaks
    <3> QED BY <3>2, <3>3 DEF PromptBy, HasBy, EndedBy
  <2>6. ASSUME e.state # None
        PROVE  (Has(i, "run")' => Has(i, "run")) /\ (Prompt(i)' => Prompt(i))
    <3>1. tx[i] \notin Live /\ {"auth", "run", "done"} \subseteq Told
      BY <2>2, <2>6 DEF Past, Live, Told, Statuses
    <3>2. \A signal \in {"auth", "run", "done"} : Has(i, signal)' <=> Has(i, signal)
      BY <3>1, HasGrows DEF Has, HasBy
    <3> QED BY <3>2 DEF Prompt, PromptBy, Has
  <2>7. rec'[r] = e /\ e.id = i
    BY <2>1
  <2> QED BY <2>3, <2>4, <2>5, <2>6, <2>7 DEF EvidenceOK
<1> QED BY <1>1, <1>2

(* Load and attach: a recovery that finds PackageKit waiting knows it.     *)
LEMMA EvidenceAttaches ==
  ASSUME IInv, GInv, [Next]_vars, NEW r \in Recoverers, RecoverLoad(r) \/ Attach(r) \/ AttachFails(r)
  PROVE  EvidenceOK(r)'
<1>t. TypeOK /\ rec[r] \in RecoveryStates /\ rec \in [Recoverers -> RecoveryStates] /\ RecoveryOK(r)
      /\ EvidenceOK(r)
  BY DEF IInv, TypeOK, RecoveryInv, GInv
<1>1. CASE RecoverLoad(r)
  <2>1. PICK id, pc : pc \in {"attach", "apply"} /\ Noted(r, [Idle EXCEPT !.id = id, !.pc = pc])
    BY <1>1 DEF RecoverLoad
  <2>2. PICK e : e = [Idle EXCEPT !.id = id, !.pc = pc] /\ rec'[r] = e
    BY <1>t, <2>1 DEF Noted
  <2>3. e.pc = pc /\ e.state = None /\ e.match = "none" /\ e.restarts = {} /\ ~ e.due /\ ~ e.ran
    BY <2>2 DEF Idle
  <2> QED BY <2>1, <2>2, <2>3, EmptyEvidence
<1>2. CASE Attach(r)
  <2>1. PICK i \in Ids, e \in RecoveryStates : e = rec[r] /\ i = rec[r].id
    BY <1>2, <1>t DEF Attach, RecoveryOK
  <2>2. /\ log'[i] = log[i] /\ Len(log[i]) \in Nat /\ LogOK(i) /\ TailOK(i)
    BY <1>2, <2>1, EvidenceFacts DEF Attach, Recovery, GInv
  <2>3. /\ e.pc = "attach" /\ e.state = None /\ e.match = "none" /\ e.restarts \subseteq Sent(i)
        /\ e.due \/ e.ran => Has(i, "run")
    BY <1>2, <1>t, <2>1 DEF Attach, EvidenceOK
  <2>4. CASE tx[i] \in Present
    <3>1. PICK present \in BOOLEAN, due \in BOOLEAN, waiting \in BOOLEAN :
            /\ Noted(r, [e EXCEPT !.pc = "watch", !.at = Len(log[i]), !.seen = TRUE,
                           !.present = present, !.due = due, !.waiting = waiting])
            /\ due <=> tx[i] = "running"
            /\ waiting <=> tx[i] = "authorizing"
      BY <1>2, <2>1, <2>4 DEF Attach, Watched
    <3>2. PICK f : /\ rec'[r] = f
                   /\ f = [e EXCEPT !.pc = "watch", !.at = Len(log[i]), !.seen = TRUE,
                             !.present = present, !.due = due, !.waiting = waiting]
      BY <1>t, <3>1 DEF Noted
    <3>3. /\ f.id = i /\ f.pc = "watch" /\ f.at = Len(log[i]) /\ f.seen /\ f.due = due /\ f.waiting = waiting
          /\ f.state = None /\ f.match = "none" /\ f.ran = e.ran /\ f.restarts = e.restarts
      BY <2>1, <2>3, <3>2 DEF RecoveryStates
    <3>4. ASSUME PromptBy(i, f.at) PROVE f.waiting \/ EndedBy(i, f.at)
      <4>1. Has(i, "auth") /\ ~ Has(i, "run")
        BY <3>3, <3>4 DEF PromptBy, Has
      <4>2. tx[i] # "queued" /\ tx[i] # "running"
        BY <2>2, <4>1, LogFacts DEF TailOK
      <4>3. tx[i] # "idle"
        <5>1. ASSUME tx[i] = "idle" PROVE Len(log[i]) = 0
          BY <5>1, LogFacts
        <5> QED BY <4>1, <5>1, HasNext DEF Has, HasBy
      <4> QED BY <2>2, <2>4, <3>1, <3>3, <4>2, <4>3 DEF Present, Live, LogOK
    <3>5. f.due \/ f.ran => Has(i, "run")
      BY <2>3, <3>1, <3>3, LogFacts
    <3> QED BY <2>2, <2>3, <3>2, <3>3, <3>4, <3>5, EvidenceFits
  <2>5. CASE tx[i] \notin Present
    <3> DEFINE g == [e EXCEPT !.seen = TRUE]
    <3>1. /\ Noted(r, Probed(g)) /\ g \in RecoveryStates
          /\ g.id = i /\ g.seen /\ g.state = None /\ g.match = "none"
          /\ g.ran = e.ran /\ g.due = e.due /\ g.restarts = e.restarts
      BY <1>2, <2>1, <2>3, <2>5 DEF Attach, Watched, RecoveryStates
    <3> HIDE DEF g
    <3>2. PICK f : rec'[r] = f /\ f = Probed(g)
      BY <1>t, <3>1 DEF Noted
    <3>3. /\ f.id = i /\ f.state = None /\ f.match = "none" /\ f.pc \in {"history", "apply"}
          /\ f.ran = e.ran /\ f.due = e.due /\ f.restarts = e.restarts
      BY <3>1, <3>2, ProbedEffect, ProbedMore
    <3> QED BY <2>2, <2>3, <3>2, <3>3, EvidenceFits
  <2> QED BY <2>4, <2>5
<1>3. CASE AttachFails(r)
  BY <1>3, <1>t, FailedEvidence DEF AttachFails
<1> QED BY <1>1, <1>2, <1>3

(* One signal of the transaction a recovery watches: the outcome finds all *)
(* that PackageKit had to say recorded.                                    *)
LEMMA EvidenceHears ==
  ASSUME IInv, GInv, [Next]_vars, NEW r \in Recoverers, RecoverObserve(r) \/ RecoverRestart(r)
  PROVE  EvidenceOK(r)'
<1>t. TypeOK /\ rec \in [Recoverers -> RecoveryStates] /\ RecoveryOK(r) /\ EvidenceOK(r)
  BY DEF IInv, TypeOK, RecoveryInv, GInv
<1>1. PICK i \in Ids, e \in RecoveryStates : e = rec[r] /\ i = rec[r].id
  BY <1>t DEF RecoverObserve, RecoverRestart, RecoverUnread, RecoveryOK
<1>2. /\ e.pc = "watch" /\ ~ e.due /\ e.state = None /\ e.at < Len(log[i]) /\ e.at \in Nat
      /\ RecoverSignal(r) = log[i][e.at + 1]
  BY <1>1, <1>t DEF RecoverObserve, RecoverRestart, RecoverUnread, RecoverSignal, Watched, RecoveryStates
<1>3. /\ log'[i] = log[i] /\ log[i] \in Seq(Signals) /\ Len(log[i]) \in Nat /\ LogOK(i) /\ TailOK(i)
      /\ IsEarly(i)' => IsEarly(i)
  BY <1>1, <1>2, EvidenceFacts DEF Recovery, GInv
<1>4. /\ e.seen /\ e.match = "none" /\ e.restarts \subseteq Sent(i) /\ (e.ran => Has(i, "run"))
      /\ PromptBy(i, e.at) => e.waiting \/ EndedBy(i, e.at)
      /\ HasBy(i, e.at, "run") /\ IsEarly(i) => EndedBy(i, e.at)
  BY <1>1, <1>2, <1>t, LogFacts DEF RecoveryOK, EvidenceOK
<1>5. PICK signal : /\ signal = RecoverSignal(r) /\ signal = log[i][e.at + 1] /\ signal \in Sent(i)
                    /\ Has(i, signal)
  BY <1>2, <1>3, NextSignal, LogFacts DEF Has, HasBy
<1>6. ASSUME NEW f, rec'[r] = f, f.id = i, f.at = e.at + 1, f.pc = "watch", f.match = e.match,
             f.seen = e.seen, f.ran = e.ran, f.restarts \subseteq e.restarts \cup {signal},
             f.due => signal = "run", signal = "auth" => f.waiting,
             signal \notin Statuses => f.waiting = e.waiting,
             f.state # None => f.state = signal /\ signal \in Outcomes
      PROVE  EvidenceOK(r)'
  <2>1. ASSUME PromptBy(i, e.at + 1) PROVE f.waiting \/ EndedBy(i, e.at + 1)
    <3>1. \A s : HasBy(i, e.at + 1, s) <=> HasBy(i, e.at, s) \/ signal = s
      BY <1>2, <1>5, HasNext DEF HasBy
    <3>2. CASE signal = "auth"
      BY <1>6, <3>2
    <3>3. CASE signal # "auth"
      <4>1. PromptBy(i, e.at) /\ signal \notin Statuses
        BY <2>1, <3>1, <3>3 DEF PromptBy, Statuses
      <4>2. EndedBy(i, e.at) => EndedBy(i, e.at + 1)
        BY <1>2 DEF EndedBy
      <4> QED BY <1>4, <1>6, <4>1, <4>2
    <3> QED BY <3>2, <3>3
  <2>2. ASSUME f.state # None
        PROVE  (Has(i, "run") => ~ IsEarly(i)') /\ (Prompt(i) => f.waiting)
    <3>1. signal \in Ends /\ signal \notin Statuses
      BY <1>6, <2>2 DEF Ends, Outcomes, Statuses
    <3>2. \A s \in {"auth", "run", "done", "restart"} : Has(i, s) <=> HasBy(i, e.at, s)
      BY <1>2, <1>3, <1>5, <3>1, BeforeEnd
    <3>3. ~ EndedBy(i, e.at)
      <4>1. e.at + 1 \in 1 .. Len(log[i]) /\ log[i][e.at + 1] \in Ends
        BY <1>2, <1>3, <1>5, <3>1
      <4>2. ASSUME NEW k \in 1 .. e.at PROVE log[i][k] \notin Ends
        <5>1. k \in 1 .. Len(log[i]) /\ k < e.at + 1
          BY <1>2, <1>3
        <5> QED BY <1>3, <4>1, <5>1 DEF LogOK
      <4> QED BY <4>2 DEF EndedBy
    <3>4. Prompt(i) => PromptBy(i, e.at)
      BY <3>2 DEF Prompt, PromptBy, Has
    <3> QED BY <1>3, <1>4, <1>6, <3>1, <3>2, <3>3, <3>4
  <2>3. f.due \/ f.ran => Has(i, "run")
    BY <1>4, <1>5, <1>6
  <2> QED BY <1>3, <1>4, <1>5, <1>6, <2>1, <2>2, <2>3, EvidenceFits
<1>7. CASE RecoverObserve(r)
  <2> DEFINE next == [e EXCEPT !.at = @ + 1]
  <2>1. /\ next \in RecoveryStates /\ next.id = i /\ next.at = e.at + 1 /\ next.pc = "watch" /\ next.match = e.match
        /\ next.seen = e.seen /\ next.ran = e.ran /\ next.restarts = e.restarts /\ next.waiting = e.waiting
        /\ next.state = None /\ ~ next.due
    BY <1>1, <1>2 DEF RecoveryStates
  <2>3. Noted(r, CASE signal = "auth"       -> [next EXCEPT !.waiting = TRUE]
                   [] signal = "run"        -> [next EXCEPT !.waiting = FALSE, !.due = ~ next.ran]
                   [] signal = "done"       -> [next EXCEPT !.waiting = FALSE]
                   [] signal = "malformed"  -> Failed(next, "malformed")
                   [] signal = "lost"       -> Failed(next, "error")
                   [] signal = "destroy"    -> [next EXCEPT !.present = FALSE]
                   [] signal \in Outcomes   -> [next EXCEPT !.state = signal]
                   [] OTHER                 -> next)
    BY <1>1, <1>5, <1>7 DEF RecoverObserve
  <2> HIDE DEF next
  <2>4. CASE signal \in {"malformed", "lost"}
    <3>1. PICK why \in {"malformed", "error"} : Noted(r, Failed(next, why))
      BY <2>3, <2>4 DEF Outcomes
    <3> QED BY <1>t, <2>1, <3>1, FailedEvidence
  <2>5. CASE signal \in Statuses
    <3>1. PICK f, waiting, due :
            /\ rec'[r] = f /\ f = [next EXCEPT !.waiting = waiting, !.due = due]
            /\ signal = "auth" => waiting
            /\ due => signal = "run"
      <4>1. CASE signal = "run"
        BY <1>t, <2>3, <4>1 DEF Noted, Outcomes
      <4>2. CASE signal \in {"auth", "done"}
        <5>1. \E waiting : /\ rec'[r] = [next EXCEPT !.waiting = waiting] /\ (signal = "auth" => waiting)
          BY <1>t, <2>3, <4>2 DEF Noted, Outcomes
        <5>2. \A waiting : [next EXCEPT !.waiting = waiting] = [next EXCEPT !.waiting = waiting, !.due = FALSE]
          BY <2>1 DEF RecoveryStates
        <5> QED BY <5>1, <5>2
      <4> QED BY <2>5, <4>1, <4>2 DEF Statuses
    <3>2. /\ f.id = i /\ f.at = e.at + 1 /\ f.pc = "watch" /\ f.match = e.match
          /\ f.seen = e.seen /\ f.ran = e.ran /\ f.restarts = e.restarts
          /\ f.state = None /\ f.waiting = waiting /\ f.due = due
      BY <2>1, <3>1 DEF RecoveryStates
    <3> QED BY <1>6, <2>5, <3>1, <3>2
  <2>6. CASE signal \in Outcomes
    <3>1. rec'[r] = [next EXCEPT !.state = signal]
      BY <1>t, <2>3, <2>6 DEF Noted, Outcomes
    <3>2. PICK f : rec'[r] = f /\ f = [next EXCEPT !.state = signal]
      BY <3>1
    <3>3. /\ f.id = i /\ f.at = e.at + 1 /\ f.pc = "watch" /\ f.match = e.match
          /\ f.seen = e.seen /\ f.ran = e.ran /\ f.restarts = e.restarts /\ f.waiting = e.waiting
          /\ f.state = signal /\ ~ f.due
      BY <2>1, <3>2 DEF RecoveryStates
    <3>4. signal # "auth"
      BY <2>6 DEF Outcomes
    <3> QED BY <1>6, <2>6, <3>2, <3>3, <3>4
  <2>7. CASE signal \notin {"malformed", "lost"} \cup Statuses \cup Outcomes
    <3>1. PICK f : /\ rec'[r] = f
                   /\ f \in {[next EXCEPT !.present = FALSE], next}
      BY <1>t, <2>3, <2>7 DEF Noted, Statuses
    <3>2. /\ f.id = i /\ f.at = e.at + 1 /\ f.pc = "watch" /\ f.match = e.match
          /\ f.seen = e.seen /\ f.ran = e.ran /\ f.restarts = e.restarts /\ f.waiting = e.waiting
          /\ f.state = None /\ ~ f.due
      BY <2>1, <3>1 DEF RecoveryStates
    <3>3. signal # "auth"
      BY <2>7 DEF Statuses
    <3> QED BY <1>6, <3>1, <3>2, <3>3
  <2> QED BY <2>4, <2>5, <2>6, <2>7
<1>8. CASE RecoverRestart(r)
  <2>1. CASE Same(r) /\ active.state \in Open
    <3>1. Noted(r, [e EXCEPT !.at = @ + 1, !.restarts = @ \cup {signal}])
      BY <1>1, <1>5, <1>8, <2>1 DEF RecoverRestart
    <3>2. PICK f : rec'[r] = f /\ f = [e EXCEPT !.at = @ + 1, !.restarts = @ \cup {signal}]
      BY <1>t, <3>1 DEF Noted
    <3>3. /\ f.id = i /\ f.at = e.at + 1 /\ f.pc = "watch" /\ f.match = e.match
          /\ f.seen = e.seen /\ f.ran = e.ran /\ f.restarts = e.restarts \cup {signal}
          /\ f.waiting = e.waiting /\ f.state = None /\ ~ f.due
      BY <1>1, <1>2, <3>2 DEF RecoveryStates
    <3>4. signal # "auth"
      BY <1>5, <1>8 DEF RecoverRestart
    <3> QED BY <1>6, <3>2, <3>3, <3>4
  <2>2. CASE ~ (Same(r) /\ active.state \in Open)
    <3>1. Noted(r, Failed(e, "error"))
      BY <1>1, <1>8, <2>2 DEF RecoverRestart
    <3> QED BY <1>t, <3>1, FailedEvidence
  <2> QED BY <2>1, <2>2
<1> QED BY <1>7, <1>8

(* checkpoint_running, from the recovery's side.                           *)
LEMMA EvidenceRuns ==
  ASSUME IInv, GInv, [Next]_vars, NEW r \in Recoverers, RecoverRunning(r)
  PROVE  EvidenceOK(r)'
<1>t. TypeOK /\ rec \in [Recoverers -> RecoveryStates] /\ RecoveryOK(r) /\ EvidenceOK(r)
  BY DEF IInv, TypeOK, RecoveryInv, GInv
<1>1. PICK i \in Ids, e \in RecoveryStates : e = rec[r] /\ i = rec[r].id
  BY <1>t DEF RecoverRunning, RecoveryOK
<1>2. e.pc = "watch" /\ e.due
  BY <1>1 DEF RecoverRunning
<1>3. log'[i] = log[i] /\ (IsEarly(i)' => IsEarly(i))
  BY <1>1, <1>2, EvidenceFacts DEF Recovery
<1>4. /\ e.seen /\ e.match = "none" /\ e.restarts \subseteq Sent(i) /\ Has(i, "run")
      /\ e.state = None /\ PromptBy(i, e.at) => e.waiting \/ EndedBy(i, e.at)
      /\ e.state # None => ~ IsEarly(i) /\ (Prompt(i) => e.waiting)
  BY <1>1, <1>2, <1>t DEF EvidenceOK
<1>5. CASE Same(r) /\ active.state \in Open
  <2>1. PICK f : rec'[r] = f /\ f = [e EXCEPT !.due = FALSE, !.ran = TRUE]
    BY <1>1, <1>t, <1>5 DEF RecoverRunning, Noted
  <2>2. /\ f.id = i /\ f.at = e.at /\ f.pc = "watch" /\ f.match = e.match /\ f.seen = e.seen
        /\ f.waiting = e.waiting /\ f.restarts = e.restarts /\ f.state = e.state
    BY <1>1, <1>2, <2>1 DEF RecoveryStates
  <2> QED BY <1>3, <1>4, <2>1, <2>2, EvidenceFits
<1>6. CASE ~ (Same(r) /\ active.state \in Open)
  <2>1. Noted(r, Failed(e, "error"))
    BY <1>1, <1>6 DEF RecoverRunning
  <2> QED BY <1>t, <2>1, FailedEvidence
<1> QED BY <1>5, <1>6

(* The end of the probe, and the history of updates.                       *)
LEMMA EvidenceAsks ==
  ASSUME IInv, GInv, [Next]_vars, NEW r \in Recoverers, ProbeEnds(r) \/ ReadHistory(r) \/ HistoryFails(r)
  PROVE  EvidenceOK(r)'
<1>t. TypeOK /\ rec \in [Recoverers -> RecoveryStates] /\ RecoveryOK(r) /\ EvidenceOK(r)
  BY DEF IInv, TypeOK, RecoveryInv, GInv
<1>1. PICK i \in Ids, e \in RecoveryStates : e = rec[r] /\ i = rec[r].id
  BY <1>t DEF ProbeEnds, ReadHistory, HistoryFails, RecoveryOK
<1>2. e.pc \in {"watch", "history"}
  BY <1>1 DEF ProbeEnds, ReadHistory, HistoryFails
<1>3. log'[i] = log[i] /\ (IsEarly(i)' => IsEarly(i))
  BY <1>1, <1>2, EvidenceFacts DEF Recovery
<1>4. /\ e.match = "none" /\ e.restarts \subseteq Sent(i) /\ (e.due \/ e.ran => Has(i, "run"))
      /\ e.pc = "history" => e.state = None
      /\ e.state # None => e.seen /\ (Has(i, "run") => ~ IsEarly(i)) /\ (Prompt(i) => e.waiting)
  BY <1>1, <1>2, <1>t DEF EvidenceOK
<1>6. ASSUME NEW f, rec'[r] = f, f.id = i, f.pc = "apply" \/ (f.pc = "history" /\ e.state = None),
             f.match = "none" \/ e.state = None, f.seen = e.seen, f.restarts = e.restarts, f.due = e.due,
             f.ran = e.ran, f.waiting = e.waiting, f.state = e.state,
             f.pc = "history" => f.match = "none"
      PROVE  EvidenceOK(r)'
  BY <1>3, <1>4, <1>6, EvidenceFits
<1>7. CASE ProbeEnds(r)
  <2>1. PICK f : rec'[r] = f /\ f = Probed(e)
    BY <1>1, <1>7, <1>t DEF ProbeEnds, Noted
  <2> QED BY <1>1, <1>4, <1>6, <2>1, ProbedEffect, ProbedMore
<1>8. CASE ReadHistory(r) \/ HistoryFails(r)
  <2>1. PICK f : /\ rec'[r] = f
                 /\ \E match, failed : f = [e EXCEPT !.match = match, !.pc = "apply", !.failed = failed]
    <3>1. CASE ReadHistory(r)
      <4>1. PICK match : rec'[r] = [e EXCEPT !.match = match, !.pc = "apply"]
        BY <1>1, <1>t, <3>1 DEF ReadHistory, Noted
      <4>2. [e EXCEPT !.match = match, !.pc = "apply"] = [e EXCEPT !.match = match, !.pc = "apply", !.failed = e.failed]
        BY <1>1 DEF RecoveryStates
      <4> QED BY <4>1, <4>2
    <3>2. CASE HistoryFails(r)
      <4>1. PICK failed : rec'[r] = [e EXCEPT !.pc = "apply", !.failed = failed]
        BY <1>1, <1>t, <3>2 DEF HistoryFails, Noted
      <4>2. [e EXCEPT !.pc = "apply", !.failed = failed] = [e EXCEPT !.match = e.match, !.pc = "apply", !.failed = failed]
        BY <1>1 DEF RecoveryStates
      <4> QED BY <4>1, <4>2
    <3> QED BY <1>8, <3>1, <3>2
  <2>2. PICK match, failed : f = [e EXCEPT !.match = match, !.pc = "apply", !.failed = failed]
    BY <2>1
  <2>3. /\ f.id = i /\ f.pc = "apply" /\ f.seen = e.seen /\ f.restarts = e.restarts /\ f.due = e.due
        /\ f.ran = e.ran /\ f.waiting = e.waiting /\ f.state = e.state
    BY <1>1, <2>2 DEF RecoveryStates
  <2>4. e.state = None
    BY <1>1, <1>4, <1>8 DEF ReadHistory, HistoryFails
  <2> QED BY <1>6, <2>1, <2>3, <2>4
<1> QED BY <1>7, <1>8

LEMMA EvidenceStep ==
  ASSUME IInv, GInv, [Next]_vars, NEW r \in Recoverers
  PROVE  EvidenceOK(r)'
<1>t. TypeOK /\ rec \in [Recoverers -> RecoveryStates] /\ Ids \cap Recoverers = {}
  BY ConstantsAssumption DEF IInv, TypeOK
<1>k. rec'[r] = rec[r] => EvidenceOK(r)'
  BY EvidenceKept
<1>d. ASSUME Noted(r, Idle) \/ Noted(r, [Idle EXCEPT !.pc = "complete"]) PROVE EvidenceOK(r)'
  <2>1. rec'[r].pc \in {"idle", "complete"}
    BY <1>d, <1>t DEF Noted, Idle
  <2> QED BY <2>1 DEF EvidenceOK
<1>1. CASE Recovery(r)
  <2>1. RecoverStale(r) \/ RecoverLeave(r) => Noted(r, Idle)
    BY DEF RecoverStale, RecoverLeave
  <2>2. RecoverResume(r) \/ RecoverDecide(r) => Noted(r, [Idle EXCEPT !.pc = "complete"])
    BY DEF RecoverResume, RecoverDecide
  <2>3. RecoverAdvance(r) => rec' = rec
    BY DEF RecoverAdvance
  <2> QED BY <1>1, <1>d, <1>k, <2>1, <2>2, <2>3, EvidenceAttaches, EvidenceHears, EvidenceRuns, EvidenceAsks
     DEF Recovery
<1>2. CASE KillRecovery(r) \/ Retire(r)
  <2>1. Noted(r, Idle)
    BY <1>2, <1>t DEF KillRecovery, Retire
  <2> QED BY <1>d, <2>1
<1>3. ASSUME NEW q \in Recoverers, q # r, Recovery(q) \/ KillRecovery(q) \/ Retire(q) PROVE EvidenceOK(r)'
  <2>1. RecoveryOnly(q)
    <3>1. KillRecovery(q) \/ Retire(q) => Noted(q, Idle)
      BY <1>t DEF KillRecovery, Retire
    <3>2. IInv
      OBVIOUS
    <3> QED BY <1>3, <1>t, <3>1, <3>2, RecoveryRecord, RecoveryTypes, RecoveryUpdate
  <2>2. rec'[r] = rec[r]
    BY <1>3, <2>1 DEF RecoveryOnly
  <2> QED BY <1>k, <2>2
<1>4. ASSUME NEW i \in Ids, Owner(i) \/ KillOwner(i) \/ Retire(i) PROVE EvidenceOK(r)'
  <2>1. rec' = rec
    BY <1>4, <1>t, OwnerRecord DEF KillOwner, Retire
  <2> QED BY <1>k, <2>1
<1>5. CASE Daemon
  <2>1. rec' = rec
    BY <1>5, DaemonKeeps
  <2> QED BY <1>k, <2>1
<1>6. ASSUME NEW c \in Controls, Cancel(c) PROVE EvidenceOK(r)'
  <2>1. rec' = rec
    BY <1>6, CancelKeeps
  <2> QED BY <1>k, <2>1
<1>7. CASE (\E p \in Ids \cup Recoverers : Publish(p)) \/ Acknowledge \/ UNCHANGED vars
  <2>1. rec' = rec
    BY <1>7 DEF Publish, Acknowledge, vars
  <2> QED BY <1>k, <2>1
<1> QED BY <1>1, <1>2, <1>3, <1>4, <1>5, <1>6, <1>7 DEF Next

-----------------------------------------------------------------------------
(* The decisions.                                                          *)

(* The two properties, of one operation.                                   *)
Remembers(i) == decided[i] # None /\ "restart" \in Sent(i) => decided[i].system # 0
Spares(i)    == decided[i] # None /\ Harmless(i) /\ "restart" \notin Sent(i) => decided[i].system = 0

LEMMA NewDecision ==
  ASSUME IInv, [Next]_vars, NEW i \in Ids, decided[i] = None, decided'[i] # None
  PROVE  \/ FinishSettle(i) /\ Decides(i, i, "owner")
         \/ \E r \in Recoverers : rec[r].id = i /\ RecoverDecide(r) /\ Decides(i, r, "recovery")
<1>t. TypeOK
  BY DEF IInv
<1>1. decided' # decided
  OBVIOUS
<1>2. ASSUME NEW j \in Ids, FinishSettle(j), Decides(j, j, "owner") PROVE j = i
  BY <1>2, <1>t, DecidesEffect
<1>3. ASSUME NEW r \in Recoverers, RecoverDecide(r), Decides(rec[r].id, r, "recovery") PROVE rec[r].id = i
  <2>1. rec[r].id \in Ids
    BY <1>3, RecoverPast
  <2> QED BY <1>3, <1>t, <2>1, DecidesEffect
<1>4. ~ \E j \in Ids : Begins(j) \/ Moves(j)
  BY <1>1 DEF Begins, Moves
<1>5. ~ \E p \in Ids \cup Recoverers : Retire(p)
  BY <1>1 DEF Retire
<1> QED BY <1>1, <1>2, <1>3, <1>4, <1>5, JournalShape

(* A decision that was taken stands, and what PackageKit may still say     *)
(* does not make it wrong.                                                 *)
LEMMA DecisionStands ==
  ASSUME IInv, GInv, [Next]_vars, NEW i \in Ids, decided[i] # None
  PROVE  DecidedOK(i)' /\ Remembers(i)' /\ Spares(i)'
<1>1. decided'[i] = decided[i] /\ own'[i].kind = own[i].kind /\ (tx[i] \in Past => tx'[i] \in Past)
  BY RecordStep, KindKept, LogStep DEF RecordGrows, LogGrows
<1>2. DecidedOK(i) /\ TailOK(i) /\ Remembers(i) /\ Spares(i)
  BY DEF GInv, RestartRemembered, NoNeedlessRestart, Remembers, Spares
<1>s. /\ \A signal : signal \in Sent(i) <=> HasIn(log[i], Len(log[i]), signal)
      /\ \A signal : signal \in Sent(i)' <=> HasIn(log'[i], Len(log'[i]), signal)
  <2>1. log'[i] \in Seq(Signals) /\ log[i] \in Seq(Signals)
    BY TypeStep DEF IInv, TypeOK
  <2> QED BY <2>1, SentSignals DEF Sent, HasIn
<1>3. ASSUME tx[i] \in Past
      PROVE  \A signal \in {"auth", "run", "done", "restart"} : signal \in Sent(i)' <=> signal \in Sent(i)
  <2>1. tx[i] \notin Live /\ {"auth", "run", "done", "restart"} \subseteq Told
    BY <1>3 DEF Past, Live, Told, Statuses, Reports
  <2> QED BY <1>s, <2>1, HasGrows
<1>4. "restart" \in Sent(i)' => own[i].kind = "update"
  <2>1. Has(i, "restart") => own[i].kind = "update"
    BY <1>2 DEF TailOK
  <2>2. HasIn(log'[i], Len(log'[i]), "restart") => Has(i, "restart") \/ Says(i, "restart")
    BY HasGrows DEF Has, HasBy
  <2> QED BY <1>s, <2>1, <2>2 DEF Says
<1>5. DecidedOK(i)'
  BY <1>1, <1>2 DEF DecidedOK
<1>6. Remembers(i)'
  BY <1>1, <1>2, <1>3, <1>4 DEF DecidedOK, Remembers
<1>7. ASSUME Harmless(i)', "restart" \notin Sent(i)' PROVE decided[i].system = 0
  <2>1. tx[i] \in Past
    BY <1>1, <1>2, <1>7 DEF DecidedOK, Harmless
  <2>2. \A signal \in {"auth", "run", "done", "restart"} : signal \in Sent(i)' <=> signal \in Sent(i)
    BY <1>3, <2>1
  <2>3. Harmless(i) /\ "restart" \notin Sent(i)
    BY <1>1, <1>7, <2>2 DEF Harmless
  <2> QED BY <1>2, <2>3 DEF Spares
<1>8. Spares(i)'
  BY <1>1, <1>7 DEF Spares
<1> QED BY <1>5, <1>6, <1>8

(* What the owner decides.                                                 *)
LEMMA OwnerRemembers ==
  ASSUME IInv, GInv, [Next]_vars, NEW i \in Ids, FinishSettle(i), Decides(i, i, "owner")
  PROVE  DecidedOK(i)' /\ Remembers(i)' /\ Spares(i)'
<1>p. TypeOK
  BY DEF IInv
<1>t. /\ own[i] \in OwnerStates /\ OwnerOK(i) /\ ListenerOK(i) /\ RecordOK(i) /\ TailOK(i)
      /\ active \in Operations \cup {None}
  BY <1>p DEF IInv, OwnerInv, GInv, TypeOK
<1>o. PICK o : o = own[i]
  OBVIOUS
<1>d. PICK d : d = decided'[i]
  OBVIOUS
<1>s. PICK system : system = Contribution(i)
  OBVIOUS
<1>a. Owns(i) /\ active \in Operations /\ active.kind = o.kind /\ active.system \in {0, 2}
      /\ (active.system = 2 => Has(i, "restart")) /\ (active.state \notin Early => Has(i, "run"))
  BY <1>o, <1>t DEF FinishSettle, MayFollow, Owns, RecordOK, Active
<1>1. d.state = o.want /\ d.by = "owner" /\ d.system = system /\ o.want # None /\ ~ o.faulted
  <2>1. active' = [active EXCEPT !.state = own[i].want, !.system = Contribution(i)] /\ ~ own[i].faulted
    BY DEF FinishSettle
  <2>2. active'.system = system
    BY <1>a, <1>s, <2>1 DEF Operations
  <2>3. d = Decision(active', "owner")
    BY <1>d, <1>p, DecidesEffect
  <2> QED BY <1>d, <1>o, <2>1, <2>2, <2>3, OwnerDecides DEF Decision
<1>2. log'[i] = log[i] /\ tx'[i] = tx[i] /\ own'[i].kind = o.kind
  BY <1>o, KindKept DEF FinishSettle, daemonVars
<1>3. \A signal : signal \in Sent(i)' <=> Has(i, signal)
  <2>1. Sent(i)' = Sent(i)
    BY <1>2 DEF Sent
  <2> QED BY <2>1, LogFacts
<1>4. /\ o.want # "interrupted" => tx[i] \in Past
      /\ o.want # "interrupted" /\ Has(i, "restart") => active.system = 2
      /\ o.want = "canceled" /\ Prompt(i) => o.waiting
      /\ o.rejected => o.want = "failed"
      /\ Has(i, "restart") => o.kind = "update"
  BY <1>1, <1>a, <1>o, <1>t DEF OwnerOK, ListenerOK, TailOK
<1>5. system \in {active.system, Higher(active.system, 1)}
  BY <1>s DEF Contribution
<1>6. o.want = "interrupted" /\ o.kind = "update" => system # 0
  <2>1. ASSUME o.want = "interrupted", o.kind = "update" PROVE system = Higher(active.system, 1)
    BY <1>4, <1>a, <1>o, <1>s, <2>1 DEF Contribution, Excluded
  <2> QED BY <1>a, <2>1 DEF Higher
<1>7. Has(i, "restart") => system # 0
  BY <1>4, <1>5, <1>6 DEF Higher
<1>8. ASSUME ~ Has(i, "restart"),
             o.want = "succeeded" \/ o.want = "permission-denied" \/ (o.want = "canceled" /\ Prompt(i))
      PROVE  system = 0
  <2>1. active.system = 0
    BY <1>8, <1>a
  <2>2. Prompt(i) => active.state \in Early
    BY <1>a DEF Prompt, PromptBy, Has
  <2>3. o.want = "succeeded" \/ Excluded(i)
    BY <1>4, <1>8, <1>o, <2>2 DEF Excluded
  <2> QED BY <1>o, <1>s, <2>1, <2>3 DEF Contribution
<1>9. DecidedOK(i)'
  BY <1>1, <1>2, <1>4, <1>6, <1>d DEF DecidedOK
<1>10. Remembers(i)'
  BY <1>1, <1>3, <1>7, <1>d DEF Remembers
<1>11. ASSUME Harmless(i)', "restart" \notin Sent(i)' PROVE d.system = 0
  <2>1. \/ o.want = "succeeded" \/ o.want = "permission-denied"
        \/ o.want = "canceled" /\ "auth" \in Sent(i)' /\ Sent(i)' \cap {"run", "done"} = {}
    BY <1>1, <1>11, <1>d DEF Harmless
  <2>2. "auth" \in Sent(i)' /\ Sent(i)' \cap {"run", "done"} = {} => Prompt(i)
    BY <1>3 DEF Prompt, PromptBy, Has
  <2> QED BY <1>1, <1>3, <1>8, <1>11, <2>1, <2>2
<1>12. Spares(i)'
  BY <1>11, <1>d DEF Spares
<1> QED BY <1>9, <1>10, <1>12

(* What a recovery decides.                                                *)
LEMMA RecoveryRemembers ==
  ASSUME IInv, GInv, [Next]_vars, NEW i \in Ids, NEW r \in Recoverers, rec[r].id = i,
         RecoverDecide(r), Decides(i, r, "recovery")
  PROVE  DecidedOK(i)' /\ Remembers(i)' /\ Spares(i)'
<1>p. TypeOK
  BY DEF IInv
<1>t. /\ rec[r] \in RecoveryStates /\ RecoveryOK(r) /\ EvidenceOK(r) /\ RecordOK(i) /\ TailOK(i)
      /\ active \in Operations \cup {None}
  BY <1>p DEF IInv, RecoveryInv, GInv, TypeOK
<1>e. PICK e \in RecoveryStates : e = rec[r] /\ e.id = i
  BY <1>t
<1>d. PICK d : d = decided'[i]
  OBVIOUS
<1>s. PICK system : system = RecoveredSystem(e, active)
  OBVIOUS
<1>1. e.pc = "apply" /\ Active(i) /\ active.state \in Open
  BY <1>e DEF RecoverDecide, Applying, Same, Active
<1>a. /\ active \in Operations /\ active.kind = own[i].kind /\ active.system \in {0, 2}
      /\ (active.system = 2 => Has(i, "restart"))
  BY <1>1, <1>t DEF Active, RecordOK, Owns
<1>2. d.state = Verdict(e, active.state) /\ d.by = "recovery" /\ d.system = system
  <2>1. active' = [active EXCEPT !.state = Verdict(rec[r], active.state),
                                 !.system = RecoveredSystem(rec[r], active)]
    BY DEF RecoverDecide
  <2>2. active'.system = system
    BY <1>a, <1>e, <1>s, <2>1 DEF Operations
  <2>3. d = Decision(active', "recovery")
    BY <1>d, <1>p, DecidesEffect
  <2>4. d.state = Verdict(e, active.state)
    <3>1. Decides(rec[r].id, r, "recovery")
      OBVIOUS
    <3>2. decided'[rec[r].id].state = Verdict(rec[r], active.state)
      BY <3>1, RecoveryDecides
    <3> QED BY <1>d, <1>e, <3>2
  <2> QED BY <2>2, <2>3, <2>4 DEF Decision
<1>3. log'[i] = log[i] /\ tx'[i] \in Past
  BY <1>e, RecoverPast DEF RecoverDecide, daemonVars
<1>4. \A signal : signal \in Sent(i)' <=> Has(i, signal)
  <2>1. Sent(i)' = Sent(i)
    BY <1>3 DEF Sent
  <2> QED BY <2>1, LogFacts
<1>5. /\ e.state # None => e.seen /\ e.match = "none" /\ Has(i, e.state)
      /\ \A signal \in e.restarts : Has(i, signal)
      /\ e.ran => Has(i, "run")
      /\ e.state # None => (Has(i, "run") => ~ IsEarly(i)) /\ (Prompt(i) => e.waiting)
  BY <1>1, <1>e, <1>t, LogFacts DEF EvidenceOK, RecoveryOK
<1>6. Verdict(e, active.state) \in {"permission-denied", "canceled"} =>
        e.state = Verdict(e, active.state)
  BY DEF Verdict
<1>7. ASSUME Has(i, "restart") PROVE system # 0
  <2>1. active.kind = "update" /\ Has(i, "run")
    BY <1>7, <1>a, <1>t DEF TailOK
  <2>2. ~ (active.state \in Early /\ Verdict(e, active.state) \in {"permission-denied", "canceled"})
    <3>1. ASSUME active.state \in Early, Verdict(e, active.state) \in {"permission-denied", "canceled"}
          PROVE  FALSE
      <4>1. e.state # None /\ IsEarly(i)
        BY <1>1, <1>6, <3>1, NoneIsNothing DEF IsEarly, Final
      <4> QED BY <1>5, <2>1, <4>1
    <3> QED BY <3>1
  <2>3. system = 1 \/ \E s \in {2, active.system} : system = Higher(s, 1)
    BY <1>s, <2>1, <2>2 DEF RecoveredSystem
  <2> QED BY <1>a, <2>3 DEF Higher
<1>8. ASSUME ~ Has(i, "restart"), Verdict(e, active.state) = "permission-denied", ~ Has(i, "done")
      PROVE  system = 0
  <2>1. e.state = "permission-denied" /\ active.state \in Early
    BY <1>6, <1>8 DEF Verdict
  <2>2. e.state # None
    BY <2>1, NoneIsNothing DEF Final
  <2>3. ~ Has(i, "run") /\ Has(i, "auth")
    BY <1>1, <1>5, <1>t, <2>1, <2>2 DEF IsEarly, TailOK
  <2>4. e.seen /\ e.waiting /\ ~ e.ran /\ e.match = "none" /\ "restart" \notin e.restarts
    BY <1>5, <1>8, <2>2, <2>3 DEF Prompt, PromptBy, Has
  <2>5. ~ HistoryUsed(e)
    BY <2>4 DEF HistoryUsed
  <2>6. active.system = 0
    BY <1>8, <1>a
  <2> QED BY <1>8, <1>s, <2>1, <2>4, <2>5, <2>6 DEF RecoveredSystem
<1>9. DecidedOK(i)'
  BY <1>2, <1>3, <1>d DEF DecidedOK
<1>10. Remembers(i)'
  BY <1>2, <1>4, <1>7, <1>d DEF Remembers
<1>11. ASSUME Harmless(i)', "restart" \notin Sent(i)' PROVE d.system = 0
  BY <1>2, <1>4, <1>8, <1>11, <1>d DEF Harmless
<1>12. Spares(i)'
  BY <1>11, <1>d DEF Spares
<1> QED BY <1>9, <1>10, <1>12

LEMMA DecisionStep ==
  ASSUME IInv, GInv, [Next]_vars, NEW i \in Ids
  PROVE  DecidedOK(i)' /\ Remembers(i)' /\ Spares(i)'
<1>1. decided'[i] = None => DecidedOK(i)' /\ Remembers(i)' /\ Spares(i)'
  BY DEF DecidedOK, Remembers, Spares
<1> QED BY <1>1, NewDecision, DecisionStands, OwnerRemembers, RecoveryRemembers

-----------------------------------------------------------------------------
(* The theorems.                                                           *)

LEMMA RestartInit ==
  ASSUME IInv, Init
  PROVE  GInv
<1>1. ASSUME NEW i \in Ids PROVE TailOK(i) /\ RecordOK(i) /\ ListenerOK(i) /\ DecidedOK(i)
  <2>1. /\ log[i] = << >> /\ tx[i] = "none" /\ active = None /\ decided[i] = None
        /\ own[i] \in {OwnerAt("off", kind) : kind \in Kinds}
    BY DEF Init
  <2>2. Len(log[i]) = 0 /\ \A signal : ~ Has(i, signal)
    <3>1. Len(log[i]) = 0
      BY <2>1
    <3>2. ~ \E signal : HasIn(log[i], 0, signal)
      BY HasNext
    <3> QED BY <3>1, <3>2 DEF Has, HasBy
  <2>3. \A signal : ~ HasBy(i, 0, signal)
    BY HasNext DEF HasBy
  <2>4. PICK o : o = own[i]
    OBVIOUS
  <2>5. o.view \in Early /\ o.pc = "off" /\ o.at = 0 /\ o.want = None /\ ~ o.rejected /\ None # "canceled"
    BY <2>1, <2>4, NoneIsNothing DEF OwnerAt, Early, Final
  <2>6. TailOK(i)
    BY <2>1, <2>2 DEF TailOK
  <2>7. RecordOK(i) /\ DecidedOK(i)
    BY <2>1 DEF RecordOK, DecidedOK, Active, Owns
  <2>8. ListenerOK(i)
    BY <2>2, <2>3, <2>4, <2>5 DEF ListenerOK
  <2> QED BY <2>6, <2>7, <2>8
<1>2. ASSUME NEW r \in Recoverers PROVE EvidenceOK(r)
  BY IdleEffect DEF Init, EvidenceOK
<1>3. RestartRemembered /\ NoNeedlessRestart
  BY DEF Init, RestartRemembered, NoNeedlessRestart
<1> QED BY <1>1, <1>2, <1>3 DEF GInv

LEMMA RestartStep ==
  ASSUME IInv, GInv, [Next]_vars
  PROVE  GInv'
<1>1. ASSUME NEW i \in Ids
      PROVE  /\ TailOK(i)' /\ RecordOK(i)' /\ ListenerOK(i)' /\ DecidedOK(i)'
             /\ Remembers(i)' /\ Spares(i)'
  BY TailStep, RecordStepHears, ListenerStep, DecisionStep
<1>2. ASSUME NEW r \in Recoverers PROVE EvidenceOK(r)'
  BY EvidenceStep
<1>3. RestartRemembered'
  BY <1>1 DEF RestartRemembered, Remembers
<1>4. NoNeedlessRestart'
  BY <1>1 DEF NoNeedlessRestart, Spares
<1> QED BY <1>1, <1>2, <1>3, <1>4 DEF GInv

LEMMA RestartInvariance == Spec => []GInv
<1>1. IInv /\ Init => GInv
  BY RestartInit
<1>2. IInv /\ GInv /\ [Next]_vars => GInv'
  BY RestartStep
<1> QED BY <1>1, <1>2, Invariance, PTL DEF Spec

(* Whoever decides an update, finish or a recovery, and whatever it missed,*)
(* a restart that PackageKit asked for is in the result, as the system's   *)
(* or as unknown.                                                          *)
THEOREM RestartsAreRemembered == Spec => []RestartRemembered
<1>1. GInv => RestartRemembered
  BY DEF GInv
<1> QED BY <1>1, RestartInvariance, PTL

(* After a refusal, a cancellation at the prompt or a success, finish and  *)
(* recover_journal_active advise no restart that PackageKit did not ask    *)
(* for.                                                                    *)
THEOREM NoRestartIsInvented == Spec => []NoNeedlessRestart
<1>1. GInv => NoNeedlessRestart
  BY DEF GInv
<1> QED BY <1>1, RestartInvariance, PTL

=============================================================================
