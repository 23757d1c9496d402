--------------------------- MODULE NativeOperation ---------------------------
(***************************************************************************)
(* Operations without a PackageKit transaction: a regional change asked of *)
(* timedated or localed, or an administration tool that is only launched.  *)
(* Nobody but the command that runs one knows how it went, so the command  *)
(* keeps a lease, a flock on the journal's active file, which the kernel   *)
(* frees whatever happens to the command; whoever finds an operation whose *)
(* lease is free may call it interrupted.                                  *)
(*                                                                         *)
(* Here are the commands (native_operations), the recoveries of snapshots  *)
(* (recover_journal_active), and the watchers that wait for somebody       *)
(* else's operation on an inotify watch of the active file                 *)
(* (watch_native_journal_operation).  The service is a RegionalCall.       *)
(***************************************************************************)
EXTENDS RegionalCall

CONSTANTS
  Ids,        \* commands, each with one request
  Snapshots,  \* processes that recover the journal, again and again
  Watchers,   \* processes that watch one operation
  None,       \* no operation, no process, no result
  Faults      \* what may go wrong, a subset of AllFaults

VARIABLES
  active,   \* the journal's operation in progress
  result,   \* its last result nobody has acknowledged
  decided,  \* the result each operation got: the journal's ring of terminals
  holder,   \* the process that keeps the directory lock between two steps
  lease,    \* the command whose flock is on the active file
  own,      \* the commands
  call,     \* what each asked of its service
  look,     \* the recovery each snapshot or watcher is in
  watch,    \* the watchers' own state
  notice    \* watchers with an unread inotify event

journalVars == <<active, result, decided, holder>>
ownerVars   == <<own, call>>
lookVars    == <<look, watch>>
vars == <<active, result, decided, holder, lease, own, call, look, watch, notice>>

Open  == {"pending", "authorizing", "running"}
Final == {"permission-denied", "failed", "interrupted", "succeeded"}

Operations == [id : Ids, state : Open \cup Final]
Lookers    == Snapshots \cup Watchers

(* A command killed, a looker killed in the middle of its commits, a       *)
(* commit that fails, standard output closed, a signal to stop.            *)
AllFaults == {"owner", "looker", "commit", "output", "signal"}

ASSUME ConstantsAssumption ==
  /\ Faults \subseteq AllFaults
  /\ Snapshots \cap Watchers = {}
  /\ Ids \cap Lookers = {}
  /\ None \notin Ids \cup Lookers

Decisions == [state : Final, by : Ids \cup Lookers]
Told      == Final \cup {"error", "timeout", "illegal"}

ASSUME NoneAssumption == None \notin Operations \cup Decisions \cup Told

Transitions(state) ==
  CASE state = "pending"     -> {"authorizing", "running", "failed", "interrupted"}
    [] state = "authorizing" -> {"running", "permission-denied", "failed", "interrupted"}
    [] state = "running"     -> {"succeeded", "failed", "interrupted"}
    [] OTHER -> {}

Free == holder = None

(* Mutant: the last result need not have been read.                        *)
AdmissibleUnread == active = None
Admissible       == active = None /\ result = None

Watching == {w \in Watchers : watch[w].pc \in {"look", "check", "wait"}}

Off == [pc |-> "off", kind |-> "regional", view |-> "pending", mute |-> FALSE, stop |-> FALSE]

(* A write to the active file, or a descriptor of it closed, wakes whoever *)
(* watches its inode.                                                      *)
Notify == notice' = notice \cup Watching

Commit(op) == active' = op /\ Notify

-----------------------------------------------------------------------------
(* The command.  native_command turns a refusal before admission into a    *)
(* stream of its own; no record of it is kept.                             *)

At(i, pc)  == [own EXCEPT ![i].pc = pc]
Regional(i) == own[i].kind = "regional"

(* prepare_journal_admission, first under a lock of its own.               *)
Request(i) ==
  /\ own[i].pc = "off" /\ Free
  /\ \E kind \in {"regional", "delegate"} :
       own' = [own EXCEPT ![i] = [@ EXCEPT !.kind = kind,
                                           !.pc = IF Admissible THEN "asking" ELSE "rejected"]]
  /\ UNCHANGED <<journalVars, lease, call, lookVars, notice>>

(* The preview failed or was not confirmed, or the tool is not there.      *)
Decline(i) ==
  /\ own[i].pc = "asking"
  /\ \E ending \in MayEnd(call[i]) : call' = [call EXCEPT ![i] = Over(@, ending)]
  /\ own' = At(i, "rejected")
  /\ UNCHANGED <<journalVars, lease, lookVars, notice>>

(* Mutant: a lease somebody still holds is no obstacle.                    *)
AdmitRegardless(i) ==
  /\ own[i].pc = "asking" /\ Free
  /\ IF ~ Admissible THEN /\ own' = At(i, "rejected")
                          /\ UNCHANGED <<active, notice, lease>>
     ELSE /\ Commit([id |-> i, state |-> "pending"])
          /\ lease' = IF lease = None THEN i ELSE lease
          /\ own' = At(i, "admitted")
  /\ UNCHANGED <<result, decided, holder, call, lookVars>>

(* before_send: admitted and leased in one section of the directory lock.  *)
(* A lease still held by another command leaves the record without one.    *)
Admit(i) ==
  /\ own[i].pc = "asking" /\ Free
  /\ IF ~ Admissible THEN /\ own' = At(i, "rejected")
                          /\ UNCHANGED <<active, notice, lease>>
     ELSE /\ Commit([id |-> i, state |-> "pending"])
          /\ lease' = IF lease = None THEN i ELSE lease
          /\ own' = At(i, IF lease = None THEN "admitted" ELSE "broken")
  /\ UNCHANGED <<result, decided, holder, call, lookVars>>

(* NativeOperationOwner: the first rows of the stream may not get out.     *)
OpenStream(i) ==
  /\ own[i].pc = "admitted"
  /\ \/ own' = At(i, "opened")
     \/ "output" \in Faults /\ own' = [own EXCEPT ![i] = [@ EXCEPT !.pc = "settle", !.mute = TRUE]]
  /\ UNCHANGED <<journalVars, lease, call, lookVars, notice>>

(* current and advance_journal_operation: the record must be the one this  *)
(* command last wrote, and the state one that may follow it.               *)
MayWrite(i, state) ==
  /\ active = [id |-> i, state |-> own[i].view]
  /\ state \in Transitions(own[i].view)

(* checkpoint.  A commit that fails may have reached the disk.             *)
Checkpoint(i, state, next) ==
  /\ Free
  /\ \/ /\ MayWrite(i, state)
        /\ Commit([id |-> i, state |-> state])
        /\ own' = [own EXCEPT ![i] = [@ EXCEPT !.pc = next, !.view = state]]
     \/ /\ ~ MayWrite(i, state) \/ "commit" \in Faults
        /\ own' = At(i, "broken")
        /\ \/ UNCHANGED <<active, notice>>
           \/ MayWrite(i, state) /\ Commit([id |-> i, state |-> state])

(* Mutant: the service is called before that is on record.                 *)
AnnounceLate(i) ==
  /\ own[i].pc = "opened"
  /\ own' = At(i, "announced")
  /\ UNCHANGED <<journalVars, lease, call, lookVars, notice>>

(* before_send ends with authorizing on record, a delegated launch starts  *)
(* with running.                                                           *)
Announce(i) ==
  /\ own[i].pc = "opened"
  /\ Checkpoint(i, IF Regional(i) THEN "authorizing" ELSE "running", "announced")
  /\ UNCHANGED <<result, decided, holder, lease, call, lookVars>>

(* Its row may not get out either: then nothing is sent or launched.       *)
Announced(i) ==
  /\ own[i].pc = "announced"
  /\ \/ /\ own' = At(i, IF Regional(i) THEN "calling" ELSE "launching")
        /\ call' = [call EXCEPT ![i].at = "ready"]
     \/ /\ "output" \in Faults
        /\ own' = [own EXCEPT ![i] = [@ EXCEPT !.pc = "settle", !.mute = TRUE]]
        /\ UNCHANGED call
  /\ UNCHANGED <<journalVars, lease, lookVars, notice>>

(* The steps of the service client, up to its end.                         *)
ClientStep(i) ==
  /\ own[i].pc = "calling"
  /\ \E next \in Successors(call[i]) \ Serves(call[i]) :
       /\ call' = [call EXCEPT ![i] = next]
       /\ own' = At(i, CASE next.at = "over" -> "settle"
                         [] next.at = "accepted" -> "accepted"
                         [] OTHER -> "calling")
  /\ UNCHANGED <<journalVars, lease, lookVars, notice>>

(* after_reply                                                             *)
Accepted(i) ==
  /\ own[i].pc = "accepted"
  /\ Checkpoint(i, "running", "calling")
  /\ UNCHANGED <<result, decided, holder, lease, call, lookVars>>

ServiceStep(i) ==
  /\ \E next \in Serves(call[i]) : call' = [call EXCEPT ![i] = next]
  /\ UNCHANGED <<journalVars, lease, own, lookVars, notice>>

(* launch_delegated_tool: posix_spawn refuses, accepts, or accepts and is  *)
(* interrupted after it.                                                   *)
Launch(i) ==
  /\ own[i].pc = "launching"
  /\ \E next \in {[Over(call[i], "verified") EXCEPT !.service = "applied"],
                  [Over(call[i], "unknown") EXCEPT !.service = "applied"],
                  Over(call[i], "other")} : call' = [call EXCEPT ![i] = next]
  /\ own' = At(i, "settle")
  /\ UNCHANGED <<journalVars, lease, lookVars, notice>>

(* A signal stops the observer of a regional call, at whatever stage, and  *)
(* overrides an end it just reached.  Later signals are only noted.        *)
Stop(i) ==
  /\ "signal" \in Faults /\ Regional(i)
  /\ ~ own[i].stop
  /\ own[i].pc \in {"calling", "settle"}
  /\ call[i].at # "preflight"
  /\ call' = [call EXCEPT ![i] = Over(@, "unknown")]
  /\ own' = [own EXCEPT ![i] = [@ EXCEPT !.pc = "settle", !.stop = TRUE]]
  /\ UNCHANGED <<journalVars, lease, lookVars, notice>>

(* Mutants: what was not confirmed has failed; silence is a refusal.        *)
VerdictsWithoutDoubt(i) ==
  CASE call[i].ending = "verified" -> {"succeeded"}
    [] call[i].ending = "denied" /\ own[i].view = "authorizing" -> {"permission-denied"}
    [] OTHER -> {"failed"}

VerdictsOfSilence(i) ==
  CASE call[i].ending = "verified" -> {"succeeded"}
    [] call[i].ending \in {"denied", "unknown"} /\ own[i].view = "authorizing" -> {"permission-denied"}
    [] call[i].ending = "unknown" -> {"interrupted"}
    [] OTHER -> {"failed"}

(* The results a call may be given.  Before anything was sent, none of its *)
(* ends leaves a doubt; sent is noted just before the request goes out.    *)
Verdicts(i) ==
  LET end == call[i].ending IN
    CASE end = "verified" -> {"succeeded"}
      [] end = "denied" /\ own[i].view = "authorizing" -> {"permission-denied"}
      [] end = "unknown" /\ call[i].service # "untouched" -> {"interrupted"}
      [] end = "unknown" /\ call[i].service = "untouched" -> {"interrupted", "failed"}
      [] OTHER -> {"failed"}

Decide(p, i, state) ==
  /\ Commit([id |-> i, state |-> state])
  /\ decided' = [decided EXCEPT ![i] = [state |-> state, by |-> p]]

(* finish: the terminal record, then, in the same section, its publication.*)
SettleAs(i, state) ==
  \/ /\ MayWrite(i, state)
     /\ Decide(i, i, state)
     /\ \/ own' = At(i, "publish") /\ holder' = i
        \/ "commit" \in Faults /\ own' = At(i, "broken") /\ UNCHANGED holder
  \/ /\ ~ MayWrite(i, state) \/ "commit" \in Faults
     /\ own' = At(i, "broken")
     /\ UNCHANGED <<active, decided, holder, notice>>

Settle(i) ==
  /\ own[i].pc = "settle" /\ Free
  /\ \E state \in Verdicts(i) : SettleAs(i, state)
  /\ UNCHANGED <<result, lease, call, lookVars>>

(* complete_journal_terminal, for whoever holds the lock and a decided     *)
(* operation: its result is published, then the active file is cleared.    *)
Publish(p) ==
  /\ holder = p
  /\ result # active
  /\ result' = active
  /\ UNCHANGED <<active, decided, holder, lease, ownerVars, lookVars, notice>>

(* Mutant: the active file is cleared whether or not that was committed.   *)
RetireUnpublished(p) ==
  /\ holder = p
  /\ Commit(None)
  /\ holder' = None
  /\ UNCHANGED <<result, decided, lease>>

Retire(p) ==
  /\ holder = p
  /\ result = active
  /\ Commit(None)
  /\ holder' = None
  /\ UNCHANGED <<result, decided, lease>>

OwnerRetires(i) ==
  /\ Retire(i)
  /\ own' = At(i, "broken")
  /\ UNCHANGED <<call, lookVars>>

(* A commit of the publication fails: others will have to complete it.     *)
OwnerGivesUp(i) ==
  /\ "commit" \in Faults /\ holder = i
  /\ holder' = None
  /\ own' = At(i, "broken")
  /\ UNCHANGED <<active, result, decided, lease, call, lookVars, notice>>

(* Mutant: the tool it launched inherits the descriptor.                   *)
LeaveInherited(i) ==
  /\ own[i].pc = "broken"
  /\ lease' = IF lease = i /\ Regional(i) THEN None ELSE lease
  /\ Notify
  /\ own' = At(i, "gone")
  /\ UNCHANGED <<journalVars, call, lookVars>>

(* The end of the ExitStack, with a result or with an exception: the lease *)
(* is unlocked, and its descriptor closed after that.                      *)
Leave(i) ==
  /\ own[i].pc = "broken"
  /\ lease' = IF lease = i THEN None ELSE lease
  /\ Notify
  /\ own' = At(i, "gone")
  /\ UNCHANGED <<journalVars, call, lookVars>>

Working(i) == own[i].pc \notin {"off", "rejected", "gone", "killed"}

(* Killed, its descriptors are closed by the kernel, which reports the     *)
(* close before it frees the flock.                                        *)
OwnerDies(i) ==
  /\ "owner" \in Faults /\ Working(i)
  /\ own' = At(i, "killed")
  /\ holder' = IF holder = i THEN None ELSE holder
  /\ IF lease = i THEN Notify ELSE UNCHANGED notice
  /\ UNCHANGED <<active, result, decided, lease, call, lookVars>>

KernelFreesLease ==
  /\ lease # None /\ own[lease].pc = "killed"
  /\ lease' = None
  /\ UNCHANGED <<journalVars, ownerVars, lookVars, notice>>

OwnerStep(i) ==
  \/ Request(i) \/ Decline(i) \/ Admit(i) \/ OpenStream(i) \/ Announce(i) \/ Announced(i)
  \/ ClientStep(i) \/ Accepted(i) \/ Launch(i) \/ Settle(i) \/ Publish(i) \/ OwnerRetires(i)
  \/ OwnerGivesUp(i) \/ Leave(i)

-----------------------------------------------------------------------------
(* Recovery: recover_journal_active reads the operation, then comes back   *)
(* under the directory lock.                                               *)

Idle == [pc |-> "idle", saw |-> None]

(* The last row of a watcher's stream.                                     *)
Tells(w, told) == [watch EXCEPT ![w] = [@ EXCEPT !.pc = "over", !.told = told]]

Fail(w) == Tells(w, "error")

(* Mutant: the states in between are left out.                             *)
TellPlainly(w, state) ==
  Tells(w, IF state \in Transitions(watch[w].stream) THEN state ELSE "illegal")

(* What a watcher makes of the state its recovery returned.  It streams    *)
(* the states it missed, in an order the stream's readers accept.          *)
Tell(w, state) ==
  LET last   == watch[w].stream
      passed == CASE state = "succeeded" /\ last \in {"pending", "authorizing"} -> "running"
                  [] state = "permission-denied" /\ last = "pending" -> "authorizing"
                  [] OTHER -> last
  IN Tells(w, IF state \in Transitions(passed) THEN state ELSE "illegal")

Follow(w) ==
  IF active.state \in Transitions(watch[w].stream) \cup {watch[w].stream}
  THEN [watch EXCEPT ![w] = [@ EXCEPT !.pc = "check", !.stream = active.state]]
  ELSE Tells(w, "illegal")

Ended(p, seen) == IF p \in Watchers THEN watch' = seen ELSE UNCHANGED watch

MayLook(p) == p \in Watchers => watch[p].pc = "look"

LookRead(p) ==
  /\ look[p].pc = "idle" /\ MayLook(p) /\ Free
  /\ IF p \in Watchers /\ active # None /\ active.id # watch[p].target
     THEN watch' = Fail(p) /\ UNCHANGED look
     ELSE /\ active # None \/ p \in Watchers
          /\ look' = [look EXCEPT ![p] = [pc |-> "section",
                                         saw |-> IF active = None THEN None ELSE active.id]]
          /\ UNCHANGED watch
  /\ UNCHANGED <<journalVars, lease, ownerVars, notice>>

InSection(p) == look[p].pc = "section" /\ Free
Return(p)    == look' = [look EXCEPT ![p] = Idle]

(* Only a watcher that saw no operation comes this far: it takes what is   *)
(* kept of the one it watches.                                             *)
LookRetained(p) ==
  /\ InSection(p) /\ look[p].saw = None
  /\ watch' = IF active = None THEN Tell(p, decided[watch[p].target].state) ELSE Fail(p)
  /\ Return(p)
  /\ UNCHANGED <<journalVars, lease, ownerVars, notice>>

LookTooLate(p) ==
  /\ InSection(p) /\ look[p].saw # None
  /\ ~ (active # None /\ active.id = look[p].saw)
  /\ Ended(p, IF active = None THEN Tell(p, decided[look[p].saw].state) ELSE Fail(p))
  /\ Return(p)
  /\ UNCHANGED <<journalVars, lease, ownerVars, notice>>

Seen(p) == InSection(p) /\ active # None /\ active.id = look[p].saw

LookComplete(p) ==
  /\ Seen(p) /\ active.state \in Final
  /\ holder' = p
  /\ look' = [look EXCEPT ![p].pc = "publish"]
  /\ UNCHANGED <<active, result, decided, lease, ownerVars, watch, notice>>

(* native_journal_owner_busy: a flock somebody holds.                      *)
LookBusy(p) ==
  /\ Seen(p) /\ active.state \in Open
  /\ lease # None
  /\ Ended(p, Follow(p))
  /\ Return(p)
  /\ UNCHANGED <<journalVars, lease, ownerVars, notice>>

(* Mutant: the lease is not asked.                                         *)
LookUnasked(p) ==
  /\ Seen(p) /\ active.state \in Open
  /\ Decide(p, active.id, "interrupted")
  /\ holder' = p
  /\ look' = [look EXCEPT ![p].pc = "publish"]
  /\ UNCHANGED <<result, lease, ownerVars, watch>>

(* Nobody will ever say more about this operation.                         *)
LookAbandoned(p) ==
  /\ Seen(p) /\ active.state \in Open
  /\ lease = None
  /\ Decide(p, active.id, "interrupted")
  /\ holder' = p
  /\ look' = [look EXCEPT ![p].pc = "publish"]
  /\ UNCHANGED <<result, lease, ownerVars, watch>>

LookFails(p) ==
  /\ "commit" \in Faults
  /\ Seen(p) /\ active.state \in Open
  /\ lease = None
  /\ Ended(p, Fail(p)) /\ Return(p)
  /\ UNCHANGED <<journalVars, lease, ownerVars, notice>>

LookRetires(p) ==
  /\ look[p].pc = "publish"
  /\ Retire(p)
  /\ Ended(p, Tell(p, active.state))
  /\ Return(p)
  /\ UNCHANGED ownerVars

LookerDies(p) ==
  /\ "looker" \in Faults /\ holder = p
  /\ holder' = None
  /\ Ended(p, Fail(p)) /\ Return(p)
  /\ UNCHANGED <<active, result, decided, lease, ownerVars, notice>>

LookStep(p) ==
  \/ LookRead(p) \/ LookRetained(p) \/ LookTooLate(p) \/ LookComplete(p)
  \/ LookBusy(p) \/ LookAbandoned(p) \/ Publish(p) \/ LookRetires(p)

-----------------------------------------------------------------------------
(* The watcher.                                                            *)

(* control_journal_target completes what is decided, and finds the         *)
(* operation in progress or kept; a watcher learnt its id from a snapshot. *)
WatchTarget(w) ==
  /\ watch[w].pc = "off" /\ Free
  /\ \E i \in Ids :
       /\ ~ (decided[i] = None /\ (active = None \/ active.id # i))
       /\ LET as(pc, told) == [watch EXCEPT ![w] = [@ EXCEPT !.pc = pc, !.target = i, !.told = told]] IN
            IF active = None THEN watch' = as("over", decided[i].state) /\ UNCHANGED holder
            ELSE IF active.state \in Final THEN watch' = as("settling", None) /\ holder' = w
            ELSE /\ watch' = IF active.id = i THEN as("look", None) ELSE as("over", "error")
                 /\ UNCHANGED holder
  /\ UNCHANGED <<active, result, decided, lease, ownerVars, look, notice>>

TargetRetired(w) ==
  /\ watch[w].pc = "settling"
  /\ Retire(w)
  /\ watch' = Tells(w, decided[watch[w].target].state)
  /\ UNCHANGED <<ownerVars, look>>

Check(w) ==
  /\ watch[w].pc = "check"
  /\ watch' = IF watch[w].expired THEN Tells(w, "timeout")
              ELSE [watch EXCEPT ![w].pc = "wait"]
  /\ UNCHANGED <<journalVars, lease, ownerVars, look, notice>>

(* Mutant: the deadline does not wake it.                                  *)
WakeAtNotice(w) ==
  /\ watch[w].pc = "wait"
  /\ w \in notice
  /\ notice' = notice \ {w}
  /\ watch' = [watch EXCEPT ![w].pc = "look"]
  /\ UNCHANGED <<journalVars, lease, ownerVars, look>>

(* wait returns at a batch of events or at the deadline; either way there  *)
(* is another look.                                                        *)
Wake(w) ==
  /\ watch[w].pc = "wait"
  /\ w \in notice \/ watch[w].expired
  /\ notice' = notice \ {w}
  /\ watch' = [watch EXCEPT ![w].pc = "look"]
  /\ UNCHANGED <<journalVars, lease, ownerVars, look>>

Deadline(w) ==
  /\ w \in Watching /\ ~ watch[w].expired
  /\ watch' = [watch EXCEPT ![w].expired = TRUE]
  /\ UNCHANGED <<journalVars, lease, ownerVars, look, notice>>

WatchStep(w) == WatchTarget(w) \/ TargetRetired(w) \/ Check(w) \/ Wake(w)

(* A client acknowledges the result, and another request may be admitted.  *)
Acknowledge ==
  /\ Free /\ active = None /\ result # None
  /\ result' = None
  /\ UNCHANGED <<active, decided, holder, lease, ownerVars, lookVars, notice>>

Init ==
  /\ active = None /\ result = None /\ holder = None /\ lease = None
  /\ decided = [i \in Ids |-> None]
  /\ own = [i \in Ids |-> Off]
  /\ call = [i \in Ids |-> NewCall]
  /\ look = [p \in Lookers |-> Idle]
  /\ watch = [w \in Watchers |-> [pc |-> "off", target |-> None, stream |-> "pending",
                                  expired |-> FALSE, told |-> None]]
  /\ notice = {}

Next ==
  \/ \E i \in Ids : OwnerStep(i) \/ ServiceStep(i) \/ Stop(i) \/ OwnerDies(i)
  \/ KernelFreesLease
  \/ \E p \in Lookers : LookStep(p) \/ LookFails(p) \/ LookerDies(p)
  \/ \E w \in Watchers : WatchStep(w) \/ Deadline(w)
  \/ Acknowledge

Spec == Init /\ [][Next]_vars

(* A command that lives goes on, since its client has deadlines of its own *)
(* and its output is read or closed; the kernel frees the descriptors of   *)
(* the dead; time passes; snapshots and watchers finish what they started, *)
(* and a watcher's commits do not fail for ever.  Nothing obliges the      *)
(* service to act, a watcher or a snapshot to start, a signal to come or a *)
(* client to acknowledge.                                                  *)
FairSpec ==
  /\ Spec
  /\ \A i \in Ids : WF_vars(own[i].pc # "off" /\ OwnerStep(i))
  /\ WF_vars(KernelFreesLease)
  /\ \A p \in Snapshots : WF_vars(look[p].pc # "idle" /\ LookStep(p))
  /\ \A w \in Watchers : SF_vars(LookStep(w)) /\ SF_vars(LookAbandoned(w))
  /\ \A w \in Watchers : WF_vars(TargetRetired(w) \/ Check(w) \/ Wake(w)) /\ WF_vars(Deadline(w))

-----------------------------------------------------------------------------
(* Properties.                                                             *)

OwnerStages ==
  {"off", "asking", "rejected", "admitted", "opened", "announced", "calling", "accepted",
   "launching", "settle", "publish", "broken", "gone", "killed"}

Owners  == [pc : OwnerStages, kind : {"regional", "delegate"}, view : Open,
            mute : BOOLEAN, stop : BOOLEAN]
Looks   == [pc : {"idle", "section", "publish"}, saw : Ids \cup {None}]
Watches == [pc : {"off", "look", "check", "wait", "settling", "over"},
            target : Ids \cup {None}, stream : Open, expired : BOOLEAN, told : Told \cup {None}]

TypeOK ==
  /\ active \in Operations \cup {None}
  /\ result \in [id : Ids, state : Final] \cup {None}
  /\ decided \in [Ids -> Decisions \cup {None}]
  /\ holder \in Ids \cup Lookers \cup {None}
  /\ lease \in Ids \cup {None}
  /\ own \in [Ids -> Owners]
  /\ call \in [Ids -> Calls]
  /\ look \in [Lookers -> Looks]
  /\ watch \in [Watchers -> Watches]
  /\ notice \subseteq Watchers

(* What is on record is true: a change recorded as succeeded was made, and *)
(* one recorded as not authorized was not (finish in native_operations).   *)
ResultsTruthful ==
  \A i \in Ids : decided[i] # None =>
    /\ decided[i].state = "succeeded" => call[i].service = "applied"
    /\ decided[i].state = "permission-denied" => call[i].service # "applied"

(* A result is the last of its operation: the system does not change under *)
(* it later, unless the record says that the outcome is unknown.           *)
ResultsAreFinal ==
  [][\A i \in Ids : (decided[i] # None /\ decided[i].state # "interrupted")
                      => call[i].service' = call[i].service]_vars

(* Nobody calls an operation interrupted while its command can still send, *)
(* launch or decide (native_journal_owner_busy in recover_journal_active). *)
LiveOwnerKeepsIt ==
  \A i \in Ids : decided[i] # None /\ decided[i].by # i
                     => own[i].pc \in {"broken", "gone", "killed"}

(* Whatever a command asked of the system, its record says so first: a     *)
(* command that dies cannot leave a change behind that looks like a        *)
(* request still being prepared (checkpoint in before_send).               *)
EffectIsOnRecord ==
  \A i \in Ids : call[i].service # "untouched" =>
    \/ decided[i] # None
    \/ active # None /\ active.id = i /\ active.state # "pending"

(* A watcher tells the result the operation got, after states its readers  *)
(* accept before it (watch_native_journal_operation, OperationStream).     *)
WatchersTell ==
  \A w \in Watchers :
    /\ watch[w].told # "illegal"
    /\ watch[w].told \in Final =>
         decided[watch[w].target] # None /\ watch[w].told = decided[watch[w].target].state

(* The journal keeps what it promises, from whichever process finishes.    *)
Journal == INSTANCE OperationResults
JournalSpec == Journal!Spec

(* If some snapshot is taken again and again, and does not fail each time, *)
(* every operation is decided in the end, however its command ended.       *)
AlwaysDecided ==
  (\E p \in Snapshots : SF_vars(LookStep(p)) /\ SF_vars(LookAbandoned(p)))
    => \A i \in Ids : (active # None /\ active.id = i) ~> (decided[i] # None)

(* The event of a command that died may come while its lease is still      *)
(* held, and nothing announces that it is freed.  A watcher that waits     *)
(* with the lease free takes another look before it gives up.              *)
Stranded(i) == active # None /\ active.id = i /\ active.state \in Open /\ lease = None

StrandedIsTold ==
  \A w \in Watchers :
    (watch[w].pc = "wait" /\ Stranded(watch[w].target)) ~> (watch[w].told \in Final \cup {"error"})
=============================================================================
