------------------------ MODULE PackageKitOperation ------------------------
(***************************************************************************)
(* One PackageKit transaction at a time, run by a command that may die, by *)
(* a daemon that may die, and watched by others: the command that owns the *)
(* operation (run_packagekit_mutation, execute_mutation), the recoveries   *)
(* that every snapshot and every watch starts (recover_journal_active,     *)
(* probe_operation), and a cancel control (cancel_journal_operation).      *)
(*                                                                         *)
(* They meet in the journal only, and no lock is held across a call to     *)
(* PackageKit: each reads the journal, asks the daemon, and comes back to  *)
(* a journal that somebody else may have changed.                          *)
(*                                                                         *)
(* The journal is what OperationResults promises of it.  The session and   *)
(* application scopes of the restart guidance, and reboots, are in         *)
(* OperationJournal and left out here.                                     *)
(***************************************************************************)
EXTENDS Integers, Sequences, SequencesExt

CONSTANTS
  Ids,         \* commands; each asks for one operation
  Recoverers,  \* processes that take snapshots or watch an operation
  Controls,    \* processes that ask for a cancellation
  None,        \* no operation, no process, no evidence
  Kinds,       \* kinds of operation in use, a subset of {"update", "refresh"}
  Said,        \* signals PackageKit may send, its last word apart
  Faults       \* what may go wrong, a subset of AllFaults

VARIABLES
  active,   \* the journal's operation in progress
  result,   \* its last result nobody has acknowledged
  holder,   \* the process that keeps the journal's lock between two steps
  tx,       \* the phase of each command's transaction, as PackageKit knows it
  log,      \* the signals PackageKit sent about it, in order
  own,      \* the command that owns it
  rec,      \* the recoveries
  control,  \* the cancel controls
  asked,    \* transactions that were told to cancel (history)
  decided   \* the terminal record each operation got, and from whom (history)

journalVars == <<active, result, holder>>
daemonVars  == <<tx, log>>
vars == <<active, result, holder, tx, log, own, rec, control, asked, decided>>

Open     == {"pending", "authorizing", "running", "cancel-requested"}
Early    == {"pending", "authorizing"}
Final    == {"permission-denied", "canceled", "failed", "interrupted", "succeeded"}
Outcomes == {"succeeded", "canceled", "permission-denied", "failed"}
Replies  == {"refused", "rejected"}   \* D-Bus errors, for the caller alone
Reports  == {"mild", "restart", "malformed"}
Statuses == {"auth", "run", "done"}   \* awaits authorization, runs, finished
Signals  == Statuses \cup {"destroy", "lost"} \cup Reports \cup Outcomes \cup Replies

(* The death of the owner, a recovery or the daemon, a lost bus connection,*)
(* a commit or lock that fails, a service call that fails.                 *)
AllFaults == {"owner", "recovery", "daemon", "bus", "commit", "lookup"}

ASSUME ConstantsAssumption ==
  /\ Kinds \subseteq {"update", "refresh"}
  /\ Said \subseteq Signals \ {"destroy", "lost"}
  /\ Faults \subseteq AllFaults
  /\ Ids \cap Recoverers = {}
  /\ None \notin Ids \cup Recoverers

(* system: 0 none, 1 unknown, 2 system (security-system acts as system).   *)
Operations == [id : Ids, kind : {"update", "refresh"}, state : Open \cup Final, system : 0 .. 2]
Decisions  == [state : Final, system : 0 .. 2, by : {"owner", "recovery"}]

ASSUME NoneAssumption == None \notin Operations \cup Decisions \cup Open \cup Final

AnyTime      == {"failed", "interrupted"}
Higher(a, b) == IF a < b THEN b ELSE a
Sent(i)      == ToSet(log[i])
Free         == holder = None
Owns(i)      == active # None /\ active.id = i /\ active.state \in Open

Transitions(state) ==
  CASE state \in Final     -> {}
    [] state = "pending"     -> AnyTime \cup {"authorizing", "running", "canceled"}
    [] state = "authorizing" -> AnyTime \cup {"running", "permission-denied", "canceled"}
    [] state = "running"     -> AnyTime \cup {"cancel-requested", "succeeded"}
    [] OTHER                 -> AnyTime \cup {"canceled", "succeeded"}

-----------------------------------------------------------------------------
(* PackageKit.  Its signals about one transaction arrive in order.         *)

Live    == {"queued", "authorizing", "running"}
Present == Live \cup {"idle", "over"}

EmitAll(i, phase, signals) ==
  /\ ToSet(signals) \subseteq Said \cup {"destroy"}
  /\ tx' = [tx EXCEPT ![i] = phase]
  /\ log' = [log EXCEPT ![i] = @ \o signals]
  /\ UNCHANGED <<journalVars, own, rec, control, asked, decided>>

Emit(i, phase, signal) == EmitAll(i, phase, <<signal>>)

TxAuthorize(i) == tx[i] = "queued" /\ Emit(i, "authorizing", "auth")

TxRun(i) == tx[i] \in {"queued", "authorizing"} /\ Emit(i, "running", "run")

TxReport(i, signal) ==
  /\ tx[i] = "running"
  /\ signal \notin Sent(i)
  /\ signal \in {"mild", "restart"} => own[i].kind = "update"
  /\ Emit(i, "running", signal)

(* Any client may cancel a transaction, and a backend may find in the      *)
(* middle that it lacks an authorization.  Its status may change first.    *)
TxFinish(i, outcome) ==
  /\ tx[i] \in Live
  /\ outcome = "succeeded" => tx[i] = "running"
  /\ outcome = "permission-denied" => tx[i] \in {"authorizing", "running"}
  /\ Emit(i, "over", outcome) \/ EmitAll(i, "over", <<"done", outcome>>)

TxReject(i, reply) == tx[i] = "queued" /\ Emit(i, "over", reply)

TxDestroy(i) == tx[i] \in {"idle", "over"} /\ Emit(i, "gone", "destroy")

(* The daemon dies, and with it every transaction it had.                  *)
DaemonDies ==
  /\ "daemon" \in Faults
  /\ \E i \in Ids : tx[i] \in Present
  /\ tx' = [i \in Ids |-> IF tx[i] \in Present THEN "gone" ELSE tx[i]]
  /\ log' = [i \in Ids |-> IF tx[i] \in Present THEN Append(log[i], "lost") ELSE log[i]]
  /\ UNCHANGED <<journalVars, own, rec, control, asked, decided>>

Daemon ==
  \/ \E i \in Ids :
       \/ TxAuthorize(i) \/ TxRun(i) \/ TxDestroy(i)
       \/ \E signal \in Reports : TxReport(i, signal)
       \/ \E outcome \in Outcomes : TxFinish(i, outcome)
       \/ \E reply \in Replies : TxReject(i, reply)
  \/ DaemonDies

-----------------------------------------------------------------------------
(* The command that owns the operation.  Its callbacks run one at a time,  *)
(* and each takes the journal's lock for one read and one commit.          *)

OwnerAt(pc, kind) ==
  [pc |-> pc, kind |-> kind,
   view |-> "pending",   \* the operation as the last checkpoint left it
   at |-> 0,             \* signals handled
   waiting |-> FALSE,    \* the last status was "waiting for authorization"
   spoiled |-> FALSE,    \* owner.failure: malformed evidence
   faulted |-> FALSE,    \* owner.persistence_error
   want |-> None,        \* the state finish was called with
   rejected |-> FALSE]   \* invocation_rejected

Ended(i) == [own EXCEPT ![i] = OwnerAt("end", own[i].kind)]
Admissible == active = None /\ result = None
Pending(i) == [id |-> i, kind |-> own[i].kind, state |-> "pending", system |-> 0]

Preflight(i) ==
  /\ own[i].pc = "off"
  /\ Free /\ Admissible
  /\ own' = [own EXCEPT ![i].pc = "planned"]
  /\ UNCHANGED <<journalVars, daemonVars, rec, control, asked, decided>>

CreateTransaction(i) ==
  /\ own[i].pc = "planned"
  /\ tx' = [tx EXCEPT ![i] = "idle"]
  /\ own' = [own EXCEPT ![i].pc = "created"]
  /\ UNCHANGED <<journalVars, log, rec, control, asked, decided>>

BeginTrustingPreflight(i) ==
  /\ own[i].pc = "created"
  /\ Free
  /\ active' = Pending(i)
  /\ own' = [own EXCEPT ![i].pc = "admitted"]
  /\ UNCHANGED <<result, holder, daemonVars, rec, control, asked, decided>>

Begin(i) ==
  /\ own[i].pc = "created"
  /\ Free
  /\ IF Admissible THEN /\ active' = Pending(i)
                       /\ own' = [own EXCEPT ![i].pc = "admitted"]
     ELSE own' = Ended(i) /\ UNCHANGED active
  /\ UNCHANGED <<result, holder, daemonVars, rec, control, asked, decided>>

(* _checkpoint never steps back: a request to cancel stays recorded, and   *)
(* so does an execution somebody else observed.                            *)
Target(state, target) ==
  CASE target = None -> state
    [] state = "cancel-requested" /\ target \in {"authorizing", "running"} -> state
    [] state = "running" /\ target = "authorizing" -> state
    [] OTHER -> target

(* One checkpoint, after which the owner is `next`: committed, or turned   *)
(* into a persistence error because the operation is no longer the owner's *)
(* to change, the lock was not free in time, or the commit failed.  From   *)
(* then on the owner only observes.                                        *)
Checkpoint(i, target, system, next) ==
  \/ /\ own[i].faulted
     /\ own' = [own EXCEPT ![i] = next]
     /\ UNCHANGED active
  \/ /\ ~ own[i].faulted
     /\ Free /\ Owns(i)
     /\ LET state == Target(active.state, target) IN
          /\ active' = [active EXCEPT !.state = state, !.system = Higher(@, system)]
          /\ own' = [own EXCEPT ![i] = [next EXCEPT !.view = state]]
  \/ /\ ~ own[i].faulted
     /\ (Free /\ ~ Owns(i)) \/ "commit" \in Faults
     /\ own' = [own EXCEPT ![i] = [next EXCEPT !.faulted = TRUE]]
     /\ UNCHANGED active

(* Subscribed, then before_send: a request that is not on record is not    *)
(* sent, and its owner gives up.                                           *)
BeforeSend(i) ==
  /\ own[i].pc = "admitted"
  /\ Checkpoint(i, "authorizing", 0, [own[i] EXCEPT !.pc = "sending", !.at = Len(log[i])])
  /\ UNCHANGED <<result, holder, daemonVars, rec, control, asked, decided>>

Send(i) ==
  /\ own[i].pc = "sending" /\ ~ own[i].faulted
  /\ IF tx[i] = "idle" THEN tx' = [tx EXCEPT ![i] = "queued"] /\ UNCHANGED log
     ELSE log' = [log EXCEPT ![i] = Append(@, "rejected")] /\ UNCHANGED tx
  /\ \E faulted \in IF "commit" \in Faults THEN BOOLEAN ELSE {FALSE} :
       own' = [own EXCEPT ![i] = [@ EXCEPT !.pc = "watching", !.faulted = faulted]]
  /\ UNCHANGED <<journalVars, rec, control, asked, decided>>

Watching(i) == own[i].pc = "watching"
Unread(i)   == Watching(i) /\ own[i].at < Len(log[i])
Signal(i)   == log[i][own[i].at + 1]
Read(i)     == [own[i] EXCEPT !.at = @ + 1]

ObserveStatus(i) ==
  /\ Unread(i) /\ Signal(i) \in Statuses
  /\ LET next == [Read(i) EXCEPT !.waiting = Signal(i) = "auth"] IN
       IF Signal(i) # "run" \/ own[i].view \notin Early
       THEN own' = [own EXCEPT ![i] = next] /\ UNCHANGED active
       ELSE Checkpoint(i, "running", 0, next)
  /\ UNCHANGED <<result, holder, daemonVars, rec, control, asked, decided>>

(* Every other property that changes reconciles the owner's copy as a      *)
(* lower-scope restart does here.                                          *)
ObserveRestart(i) ==
  /\ Unread(i) /\ Signal(i) \in {"mild", "restart"}
  /\ Checkpoint(i, None, IF Signal(i) = "restart" THEN 2 ELSE 0, Read(i))
  /\ UNCHANGED <<result, holder, daemonVars, rec, control, asked, decided>>

ObserveMalformed(i) ==
  /\ Unread(i) /\ Signal(i) = "malformed"
  /\ own' = [own EXCEPT ![i] = [Read(i) EXCEPT !.spoiled = TRUE]]
  /\ UNCHANGED <<journalVars, daemonVars, rec, control, asked, decided>>

(* cancel_faulted: an owner that cannot record or trust what it sees asks  *)
(* PackageKit to stop.                                                     *)
CancelFaulted(i) ==
  /\ Watching(i) /\ (own[i].faulted \/ own[i].spoiled)
  /\ tx[i] \in Live
  /\ asked' = asked \cup {i}
  /\ IF ~ own[i].faulted /\ own[i].view = "running"
     THEN Checkpoint(i, "cancel-requested", 0, own[i])
     ELSE i \notin asked /\ UNCHANGED <<own, active>>
  /\ UNCHANGED <<result, holder, daemonVars, rec, control, decided>>

(* stop: the last signal of the transaction, an error reply to the call,   *)
(* or the loss of the bus, the daemon or the object.                       *)
StopState(i) ==
  CASE Signal(i) \in Outcomes -> IF own[i].spoiled THEN "failed" ELSE Signal(i)
    [] Signal(i) = "refused"  -> "permission-denied"
    [] Signal(i) = "rejected" -> "failed"
    [] OTHER -> "interrupted"

(* finish does nothing once the journal could not be written.              *)
Stopped(i, state, rejected) ==
  IF own[i].faulted THEN Ended(i)
  ELSE [own EXCEPT ![i] = [@ EXCEPT !.pc = "finish", !.want = state, !.rejected = rejected]]

Stop(i) ==
  /\ Unread(i) /\ Signal(i) \in Outcomes \cup Replies \cup {"destroy", "lost"}
  /\ own' = Stopped(i, StopState(i), Signal(i) = "rejected")
  /\ UNCHANGED <<journalVars, daemonVars, rec, control, asked, decided>>

(* Or PackageKit's last signal cannot be understood.                       *)
BusCloses(i) ==
  /\ Watching(i) /\ "bus" \in Faults
  /\ own' = Stopped(i, "interrupted", FALSE)
  /\ UNCHANGED <<journalVars, daemonVars, rec, control, asked, decided>>

(* finish takes the lock three times: to read the operation as others left *)
(* it, to pass through the state its result must follow, and to decide.    *)
FinishRead(i) ==
  /\ own[i].pc = "finish"
  /\ Free /\ Owns(i)
  /\ LET early == active.state \in Early
         want  == IF own[i].want = "permission-denied" /\ ~ early THEN "failed" ELSE own[i].want
         pass  == want = "succeeded" \/ (want = "canceled" /\ active.state = "running")
     IN own' = [own EXCEPT ![i] = [@ EXCEPT !.view = active.state, !.want = want,
                                            !.pc = IF pass THEN "pass" ELSE "settle"]]
  /\ UNCHANGED <<journalVars, daemonVars, rec, control, asked, decided>>

FinishPass(i) ==
  /\ own[i].pc = "pass"
  /\ Checkpoint(i, IF own[i].want = "succeeded" THEN "running" ELSE "cancel-requested", 0,
                [own[i] EXCEPT !.pc = "settle"])
  /\ UNCHANGED <<result, holder, daemonVars, rec, control, asked, decided>>

(* PackageKit never started what it refused, or what was canceled while it *)
(* waited for authorization; anything else that did not succeed may have   *)
(* asked for a restart the owner did not see.                              *)
ExcludedOnlyPrompt(i) ==
  active.state \in Early /\ own[i].want = "canceled" /\ own[i].waiting

Excluded(i) ==
  \/ own[i].want = "permission-denied"
  \/ active.state \in Early /\ (own[i].rejected \/ (own[i].want = "canceled" /\ own[i].waiting))

Contribution(i) ==
  IF active.kind = "update" /\ ~ Excluded(i) /\ own[i].want # "succeeded" THEN Higher(active.system, 1)
  ELSE active.system

Decision(op, by) == [state |-> op.state, system |-> op.system, by |-> by]

MayFollow(i) == Owns(i) /\ own[i].want \in Transitions(active.state)

FinishSettle(i) ==
  /\ own[i].pc = "settle" /\ ~ own[i].faulted
  /\ Free /\ MayFollow(i)
  /\ active' = [active EXCEPT !.state = own[i].want, !.system = Contribution(i)]
  /\ decided' = [decided EXCEPT ![i] = Decision(active', "owner")]
  /\ holder' = i
  /\ own' = [own EXCEPT ![i].pc = "complete"]
  /\ UNCHANGED <<result, daemonVars, rec, control, asked>>

(* The owner gives up: a commit failed before it sent anything or after it *)
(* stopped, or somebody else closed the operation, or moved it to a state  *)
(* this result may not follow.  A recovery finds what it left.             *)
GiveUp(i) ==
  /\ own[i].pc \in {"sending", "finish", "settle"}
  /\ \/ own[i].faulted
     \/ own[i].pc # "sending" /\ "commit" \in Faults
     \/ own[i].pc = "finish" /\ Free /\ ~ Owns(i)
     \/ own[i].pc = "settle" /\ Free /\ ~ MayFollow(i)
  /\ own' = Ended(i)
  /\ UNCHANGED <<journalVars, daemonVars, rec, control, asked, decided>>

-----------------------------------------------------------------------------
(* A recovery: copy the owner, attach to its transaction, watch it for a   *)
(* while (a snapshot) or to its end (a watch), ask the history, and come   *)
(* back to the journal with the evidence.                                  *)

Idle ==
  [pc |-> "idle", id |-> None,
   at |-> 0,             \* signals handled
   seen |-> FALSE,       \* the lookup answered: there is evidence
   present |-> FALSE,    \* and the object is, or may be, still there
   due |-> FALSE,        \* an execution observed and not yet recorded
   ran |-> FALSE,        \* saw_running
   waiting |-> FALSE,    \* the status is "waiting for authorization"
   restarts |-> {},
   state |-> None,       \* the outcome PackageKit announced
   match |-> "none",     \* match_update_history: none, no or yes
   failed |-> "none"]    \* lookup_failure: none, timeout, error or malformed

SameAnyOwner(r) == active # None /\ active.state \in Open
Same(r) == active # None /\ active.id = rec[r].id
Watched(r) == rec[r].id

(* The history is for updates without an outcome, and no use to a lookup   *)
(* that failed for any reason but time.                                    *)
Probed(e) ==
  [e EXCEPT !.pc = IF /\ own[e.id].kind = "update"
                      /\ e.state = None
                      /\ e.failed \in {"none", "timeout"}
                   THEN "history" ELSE "apply"]

Failed(e, why) == Probed([Idle EXCEPT !.id = e.id, !.failed = why])
Noted(r, e) == rec' = [rec EXCEPT ![r] = e]

RecoverLoad(r) ==
  /\ rec[r].pc = "idle"
  /\ Free /\ active # None
  /\ Noted(r, [Idle EXCEPT !.id = active.id,
                           !.pc = IF active.state \in Final THEN "apply" ELSE "attach"])
  /\ UNCHANGED <<journalVars, daemonVars, own, control, asked, decided>>

(* Signals and the properties GetAll returns are ordered: the subscription *)
(* and its reply are one step.  A finished object may still be listed.     *)
Attach(r) ==
  LET i == Watched(r) IN
  /\ rec[r].pc = "attach"
  /\ IF tx[i] \in Present
     THEN \E present \in IF tx[i] = "over" THEN BOOLEAN ELSE {TRUE} :
            Noted(r, [rec[r] EXCEPT !.pc = "watch", !.at = Len(log[i]), !.seen = TRUE,
                                    !.present = present,
                                    !.due = tx[i] = "running",
                                    !.waiting = tx[i] = "authorizing"])
     ELSE Noted(r, Probed([rec[r] EXCEPT !.seen = TRUE]))
  /\ UNCHANGED <<journalVars, daemonVars, own, control, asked, decided>>

AttachFails(r) ==
  /\ "lookup" \in Faults
  /\ rec[r].pc \in {"attach", "watch"}
  /\ \E why \in {"timeout", "error"} : Noted(r, Failed(rec[r], why))
  /\ UNCHANGED <<journalVars, daemonVars, own, control, asked, decided>>

RecoverUnread(r) ==
  /\ rec[r].pc = "watch" /\ ~ rec[r].due /\ rec[r].state = None
  /\ rec[r].at < Len(log[Watched(r)])
RecoverSignal(r) == log[Watched(r)][rec[r].at + 1]

RecoverObserve(r) ==
  /\ RecoverUnread(r)
  /\ RecoverSignal(r) \notin {"mild", "restart"}
  /\ LET signal == RecoverSignal(r)
         next   == [rec[r] EXCEPT !.at = @ + 1]
     IN Noted(r, CASE signal = "auth"       -> [next EXCEPT !.waiting = TRUE]
                   [] signal = "run"        -> [next EXCEPT !.waiting = FALSE, !.due = ~ next.ran]
                   [] signal = "done"       -> [next EXCEPT !.waiting = FALSE]
                   [] signal = "malformed"  -> Failed(next, "malformed")
                   [] signal = "lost"       -> Failed(next, "error")
                   [] signal = "destroy"    -> [next EXCEPT !.present = FALSE]
                   [] signal \in Outcomes   -> [next EXCEPT !.state = signal]
                   [] OTHER                 -> next)
  /\ UNCHANGED <<journalVars, daemonVars, own, control, asked, decided>>

(* checkpoint_running: a stale observer is told so and gives up.           *)
RecoverRunning(r) ==
  /\ rec[r].pc = "watch" /\ rec[r].due
  /\ Free
  /\ IF Same(r) /\ active.state \in Open
     THEN /\ active' = [active EXCEPT !.state = IF @ \in Early THEN "running" ELSE @]
          /\ Noted(r, [rec[r] EXCEPT !.due = FALSE, !.ran = TRUE])
     ELSE UNCHANGED active /\ Noted(r, Failed(rec[r], "error"))
  /\ UNCHANGED <<result, holder, daemonVars, own, control, asked, decided>>

(* checkpoint_restart.                                                     *)
RecoverRestart(r) ==
  /\ RecoverUnread(r)
  /\ RecoverSignal(r) \in {"mild", "restart"}
  /\ Free
  /\ IF Same(r) /\ active.state \in Open
     THEN /\ active' = [active EXCEPT !.system =
                         IF RecoverSignal(r) = "restart" THEN Higher(@, 2) ELSE @]
          /\ Noted(r, [rec[r] EXCEPT !.at = @ + 1, !.restarts = @ \cup {RecoverSignal(r)}])
     ELSE UNCHANGED active /\ Noted(r, Failed(rec[r], "error"))
  /\ UNCHANGED <<result, holder, daemonVars, own, control, asked, decided>>

(* The probe ends: its second request was answered, or the watched         *)
(* transaction announced its outcome or disappeared.                       *)
ProbeEnds(r) ==
  /\ rec[r].pc = "watch" /\ ~ rec[r].due
  /\ Noted(r, Probed(rec[r]))
  /\ UNCHANGED <<journalVars, daemonVars, own, control, asked, decided>>

(* A record of an update that failed looks like that of one which runs,    *)
(* and only the last 64 are returned.                                      *)
ReadHistory(r) ==
  /\ rec[r].pc = "history"
  /\ \E match \in {"none", IF "succeeded" \in Sent(Watched(r)) THEN "yes" ELSE "no"} :
       Noted(r, [rec[r] EXCEPT !.match = match, !.pc = "apply"])
  /\ UNCHANGED <<journalVars, daemonVars, own, control, asked, decided>>

HistoryFails(r) ==
  /\ "lookup" \in Faults
  /\ rec[r].pc = "history"
  /\ \E why \in {"error", "malformed"} :
       Noted(r, [rec[r] EXCEPT !.pc = "apply",
                   !.failed = IF why = "malformed" \/ @ = "none" THEN why ELSE @])
  /\ UNCHANGED <<journalVars, daemonVars, own, control, asked, decided>>

HistoryUsedWhilePresent(e) == e.match = "yes" \/ (e.match = "no" /\ e.seen)

HistoryUsed(e) == e.match = "yes" \/ (e.match = "no" /\ e.seen /\ ~ e.present)

Inconclusive(e) ==
  \/ e.failed = "malformed"
  \/ (e.failed # "none" /\ ~ HistoryUsed(e) /\ (~ e.seen \/ e.present))

StillThere(e) == e.seen /\ e.state = None /\ e.present /\ ~ HistoryUsed(e)

VerdictOfAbsence(e, state) ==
  IF e.state = "permission-denied" /\ state \notin Early THEN "failed"
  ELSE IF e.state # None THEN e.state
  ELSE IF e.seen /\ ~ e.present THEN "succeeded"
  ELSE "interrupted"

Verdict(e, state) ==
  IF e.state = "permission-denied" /\ state \notin Early THEN "failed"
  ELSE IF e.state # None THEN e.state
  ELSE IF e.match = "yes" THEN "succeeded"
  ELSE "interrupted"

(* The commit that must come before the verdict, if any.                   *)
IntermediateObserved(e, state) ==
  IF e.ran /\ state \in Early THEN "running" ELSE state

Intermediate(e, state) ==
  LET verdict == Verdict(e, state) IN
    IF e.ran /\ state \in Early THEN "running"
    ELSE IF StillThere(e) THEN state
    ELSE CASE verdict = "succeeded" /\ state \in Early -> "running"
           [] verdict = "permission-denied" /\ state = "pending" -> "authorizing"
           [] verdict = "canceled" /\ state = "running" -> "cancel-requested"
           [] OTHER -> state

RecoveredSystemAsHeard(e, op) ==
  IF e.state # None /\ "restart" \in e.restarts THEN 2 ELSE op.system

RecoveredSystem(e, op) ==
  LET early    == op.state \in Early
      observed == IF e.state # None THEN e.restarts ELSE {}
      excluded == /\ early /\ e.seen /\ e.waiting /\ ~ e.ran
                  /\ Verdict(e, op.state) \in {"permission-denied", "canceled"}
      system   == IF "restart" \in observed THEN 2 ELSE op.system
  IN IF op.kind # "update" THEN 0
     ELSE IF HistoryUsed(e) \/ (observed = {} /\ ~ excluded) THEN 1
     ELSE IF excluded THEN system
     ELSE Higher(system, 1)

(* Under the lock: the operation is somebody else's now, or another        *)
(* process closed it and may have died before it said so.                  *)
RecoverStale(r) ==
  /\ rec[r].pc = "apply" /\ Free
  /\ ~ Same(r)
  /\ Noted(r, Idle)
  /\ UNCHANGED <<journalVars, daemonVars, own, control, asked, decided>>

RecoverResume(r) ==
  /\ rec[r].pc = "apply" /\ Free
  /\ Same(r) /\ active.state \in Final
  /\ holder' = r
  /\ Noted(r, [Idle EXCEPT !.pc = "complete"])
  /\ UNCHANGED <<active, result, daemonVars, own, control, asked, decided>>

Applying(r) ==
  /\ rec[r].pc = "apply" /\ holder \in {None, r}
  /\ Same(r) /\ active.state \in Open

RecoverLeave(r) ==
  /\ Applying(r)
  /\ \/ Inconclusive(rec[r])
     \/ StillThere(rec[r]) /\ Intermediate(rec[r], active.state) = active.state
  /\ holder' = None
  /\ Noted(r, Idle)
  /\ UNCHANGED <<active, result, daemonVars, own, control, asked, decided>>

RecoverAdvance(r) ==
  /\ Applying(r) /\ ~ Inconclusive(rec[r])
  /\ Intermediate(rec[r], active.state) # active.state
  /\ active' = [active EXCEPT !.state = Intermediate(rec[r], @)]
  /\ holder' = r
  /\ UNCHANGED <<result, daemonVars, own, rec, control, asked, decided>>

RecoverDecide(r) ==
  /\ Applying(r) /\ ~ Inconclusive(rec[r]) /\ ~ StillThere(rec[r])
  /\ Intermediate(rec[r], active.state) = active.state
  /\ Verdict(rec[r], active.state) \in Transitions(active.state)
  /\ active' = [active EXCEPT !.state = Verdict(rec[r], @),
                              !.system = RecoveredSystem(rec[r], active)]
  /\ decided' = [decided EXCEPT ![active.id] = Decision(active', "recovery")]
  /\ holder' = r
  /\ Noted(r, [Idle EXCEPT !.pc = "complete"])
  /\ UNCHANGED <<result, daemonVars, own, control, asked>>

-----------------------------------------------------------------------------
(* complete_journal_terminal, by whoever holds the lock.                   *)

Publish(p) ==
  /\ holder = p /\ active.state \in Final
  /\ result # active
  /\ result' = active
  /\ UNCHANGED <<active, holder, daemonVars, own, rec, control, asked, decided>>

Retire(p) ==
  /\ holder = p /\ result = active
  /\ active' = None
  /\ holder' = None
  /\ IF p \in Ids THEN own' = Ended(p) /\ UNCHANGED rec
     ELSE Noted(p, Idle) /\ UNCHANGED own
  /\ UNCHANGED <<result, daemonVars, control, asked, decided>>

(* acknowledge_journal_handoff: the client has the result.                 *)
Acknowledge ==
  /\ Free /\ active = None /\ result # None
  /\ result' = None
  /\ UNCHANGED <<active, holder, daemonVars, own, rec, control, asked, decided>>

(* A process is killed, or a failed commit ends it: the lock goes with it. *)
KillOwner(i) ==
  /\ own[i].pc \notin {"off", "end"}
  /\ "owner" \in Faults
  /\ own' = Ended(i)
  /\ holder' = IF holder = i THEN None ELSE holder
  /\ UNCHANGED <<active, result, daemonVars, rec, control, asked, decided>>

KillRecovery(r) ==
  /\ rec[r].pc # "idle"
  /\ "recovery" \in Faults
  /\ Noted(r, Idle)
  /\ holder' = IF holder = r THEN None ELSE holder
  /\ UNCHANGED <<active, result, daemonVars, own, control, asked, decided>>

-----------------------------------------------------------------------------
(* cancel_journal_operation: select under the lock, look, select again,    *)
(* ask PackageKit, and record the request if it still makes sense.         *)

Control(pc, id) == [pc |-> pc, id |-> id]
AimedAnywhere(c) == active # None /\ active.state \in Open
Aimed(c) ==
  active # None /\ active.id = control[c].id /\ active.state \in Open

ControlStep(c, pc, id) ==
  /\ control' = [control EXCEPT ![c] = Control(pc, id)]
  /\ UNCHANGED <<result, holder, daemonVars, own, rec, decided>>

CancelSelect(c) ==
  /\ control[c].pc = "idle" /\ Free
  /\ active # None /\ active.state \in Open
  /\ ControlStep(c, "selected", active.id)
  /\ UNCHANGED <<active, asked>>

CancelConfirm(c) ==
  /\ control[c].pc = "selected" /\ Free
  /\ tx[control[c].id] \in Live /\ Aimed(c)
  /\ ControlStep(c, "confirmed", control[c].id)
  /\ UNCHANGED <<active, asked>>

CancelDispatch(c) ==
  /\ control[c].pc = "confirmed"
  /\ tx[control[c].id] \in Live
  /\ asked' = asked \cup {control[c].id}
  /\ ControlStep(c, "sent", control[c].id)
  /\ UNCHANGED active

CancelRecord(c) ==
  /\ control[c].pc = "sent" /\ Free
  /\ active' = IF Aimed(c) /\ active.state = "running"
               THEN [active EXCEPT !.state = "cancel-requested"] ELSE active
  /\ ControlStep(c, "idle", None)
  /\ UNCHANGED asked

(* The target is unavailable, PackageKit refused, or the control died.     *)
CancelAbandon(c) ==
  /\ control[c].pc # "idle"
  /\ ControlStep(c, "idle", None)
  /\ UNCHANGED <<active, asked>>

-----------------------------------------------------------------------------
Init ==
  /\ active = None /\ result = None /\ holder = None
  /\ tx = [i \in Ids |-> "none"]
  /\ log = [i \in Ids |-> << >>]
  /\ own \in [Ids -> {OwnerAt("off", kind) : kind \in Kinds}]
  /\ rec = [r \in Recoverers |-> Idle]
  /\ control = [c \in Controls |-> Control("idle", None)]
  /\ asked = {}
  /\ decided = [i \in Ids |-> None]

Owner(i) ==
  \/ Preflight(i) \/ CreateTransaction(i) \/ Begin(i) \/ BeforeSend(i) \/ Send(i)
  \/ ObserveStatus(i) \/ ObserveRestart(i) \/ ObserveMalformed(i) \/ CancelFaulted(i)
  \/ Stop(i) \/ BusCloses(i)
  \/ FinishRead(i) \/ FinishPass(i) \/ FinishSettle(i) \/ GiveUp(i)

Recovery(r) ==
  \/ RecoverLoad(r) \/ Attach(r) \/ AttachFails(r)
  \/ RecoverObserve(r) \/ RecoverRunning(r) \/ RecoverRestart(r) \/ ProbeEnds(r)
  \/ ReadHistory(r) \/ HistoryFails(r)
  \/ RecoverStale(r) \/ RecoverResume(r) \/ RecoverLeave(r)
  \/ RecoverAdvance(r) \/ RecoverDecide(r)

Cancel(c) ==
  \/ CancelSelect(c) \/ CancelConfirm(c) \/ CancelDispatch(c)
  \/ CancelRecord(c) \/ CancelAbandon(c)

Next ==
  \/ Daemon
  \/ \E i \in Ids : Owner(i) \/ KillOwner(i)
  \/ \E r \in Recoverers : Recovery(r) \/ KillRecovery(r)
  \/ \E p \in Ids \cup Recoverers : Publish(p) \/ Retire(p)
  \/ \E c \in Controls : Cancel(c)
  \/ Acknowledge

Spec == Init /\ [][Next]_vars

-----------------------------------------------------------------------------
OwnerStates ==
  [pc : {"off", "planned", "created", "admitted", "sending", "watching",
         "finish", "pass", "settle", "complete", "end"},
   kind : Kinds, view : Open, at : Nat,
   waiting : BOOLEAN, spoiled : BOOLEAN, faulted : BOOLEAN,
   want : Final \cup {None}, rejected : BOOLEAN]

RecoveryStates ==
  [pc : {"idle", "attach", "watch", "history", "apply", "complete"},
   id : Ids \cup {None}, at : Nat, seen : BOOLEAN, present : BOOLEAN,
   due : BOOLEAN, ran : BOOLEAN, waiting : BOOLEAN,
   restarts : SUBSET {"mild", "restart"}, state : Outcomes \cup {None},
   match : {"none", "no", "yes"}, failed : {"none", "timeout", "error", "malformed"}]

(* Type correctness; a finished operation waits in the journal only while  *)
(* nothing else is on offer, and the lock is held for it.                  *)
TypeOK ==
  /\ active \in Operations \cup {None}
  /\ result \in {op \in Operations : op.state \in Final} \cup {None}
  /\ holder \in Ids \cup Recoverers \cup {None}
  /\ tx \in [Ids -> Present \cup {"none", "gone"}]
  /\ log \in [Ids -> Seq(Signals)]
  /\ own \in [Ids -> OwnerStates]
  /\ rec \in [Recoverers -> RecoveryStates]
  /\ control \in [Controls -> [pc : {"idle", "selected", "confirmed", "sent"}, id : Ids \cup {None}]]
  /\ asked \subseteq Ids
  /\ decided \in [Ids -> Decisions \cup {None}]

(* The recorded result is what PackageKit announced, whoever recorded it   *)
(* and whatever it missed: no success, cancellation or refusal is inferred.*)
ResultsTruthful ==
  \A i \in Ids : decided[i] # None =>
    /\ decided[i].state \in {"succeeded", "canceled"} => decided[i].state \in Sent(i)
    /\ decided[i].state = "permission-denied" =>
         Sent(i) \cap {"permission-denied", "refused"} # {} /\ "run" \notin Sent(i)

(* A system restart that PackageKit asked for is in the recorded result,   *)
(* as itself or as "unknown", even if nobody was there to hear it.         *)
RestartRemembered ==
  \A i \in Ids : decided[i] # None /\ "restart" \in Sent(i) => decided[i].system # 0

(* No restart is advised after a refusal, a cancellation at the password   *)
(* prompt, or a success whose owner heard no such request.                 *)
Harmless(i) ==
  \/ decided[i].state = "succeeded" /\ decided[i].by = "owner"
  \/ decided[i].state = "permission-denied" /\ (decided[i].by = "owner" \/ "done" \notin Sent(i))
  \/ /\ decided[i].state = "canceled" /\ decided[i].by = "owner"
     /\ "auth" \in Sent(i) /\ Sent(i) \cap {"run", "done"} = {}

NoNeedlessRestart ==
  \A i \in Ids : decided[i] # None /\ Harmless(i) /\ "restart" \notin Sent(i) =>
    decided[i].system = 0

(* While PackageKit works on a transaction the journal shows it in         *)
(* progress, so that nothing else is admitted beside it; only an owner     *)
(* that lost the bus gives it up.                                          *)
LiveIsOwned ==
  \A i \in Ids : tx[i] \in Live =>
    \/ Owns(i)
    \/ decided[i] # None /\ decided[i].state = "interrupted" /\ decided[i].by = "owner"

(* A request to cancel is recorded for the transaction that got it (or     *)
(* that announced its cancellation), never for its successor.              *)
CancelIsAddressed ==
  active # None /\ active.state = "cancel-requested" =>
    active.id \in asked \/ "canceled" \in Sent(active.id)

(* The journal is used as OperationResults allows.                         *)
Journal == INSTANCE OperationResults
JournalSpec == Journal!Spec

(* PackageKit ends what it started and forgets what is over, and somebody  *)
(* looks at an operation again and again until it is decided.  The owner   *)
(* owes nothing: it may hang or be gone.  A lookup may fail, and a process *)
(* be killed, any number of times, but not every time.                     *)
Fairness ==
  /\ \A i \in Ids :
       /\ WF_vars(\E outcome \in Outcomes : TxFinish(i, outcome))
       /\ WF_vars(TxDestroy(i))
  /\ \A r \in Recoverers :
       /\ WF_vars(Recovery(r))
       /\ SF_vars(Attach(r))
       /\ SF_vars(ReadHistory(r) /\ rec[r].failed = "none")
       /\ SF_vars(RecoverResume(r) \/ RecoverAdvance(r) \/ RecoverDecide(r))
  /\ SF_vars(\E p \in Ids \cup Recoverers : Publish(p) \/ Retire(p))

FairSpec == Spec /\ Fairness

(* Every operation that was admitted ends with a published result, even if *)
(* its owner dies at once.                                                 *)
AlwaysDecided ==
  \A i \in Ids : (active # None /\ active.id = i) ~> (result # None /\ result.id = i)
=============================================================================
