-------------------------- MODULE OperationJournal --------------------------
(***************************************************************************)
(* The durable record of one system-management operation at a time, as     *)
(* operation_journal.py keeps it: an active operation, a ring of finished  *)
(* ones with its cursor, a handoff naming the last result nobody has       *)
(* acknowledged, and the restart guidance the updates of this boot left.   *)
(*                                                                         *)
(* Each is one path of the journal, and each commit replaces one path      *)
(* atomically (JournalFile).  A handler that needs several commits takes   *)
(* several steps here, and the process that runs it may be killed, or the  *)
(* machine rebooted, between any two of them.  The directory's exclusive   *)
(* flock keeps every other handler out until then.                         *)
(***************************************************************************)
EXTENDS Integers, Sequences, FiniteSets

CONSTANTS
  N,              \* JOURNAL_TERMINAL_COUNT, 32 in the code
  Ids,            \* operation identities the CSPRNG may draw
  None,           \* an empty payload, an absent identity
  SystemLevels,   \* system restart strengths in use, a subset of 0 .. 3
  SessionLevels,  \* session restart strengths in use, a subset of 0 .. 2
  Applications,   \* application restart flags in use, a subset of BOOLEAN
  Kinds,          \* kinds of operation in use, a subset of AllKinds
  States,         \* operation states in use
  BootMax,        \* bound: boots of the machine
  ClockMax        \* bound: ticks of the monotonic clock within a boot

TerminalStates == {"permission-denied", "canceled", "failed", "interrupted", "succeeded"}
OpenStates     == {"pending", "authorizing", "running", "cancel-requested"}
AllKinds       == {"update", "refresh", "native"}

ASSUME RingAssumption == N \in Nat /\ N > 1
ASSUME LevelAssumption ==
  /\ SystemLevels \subseteq 0 .. 3 /\ 0 \in SystemLevels
  /\ SessionLevels \subseteq 0 .. 2 /\ 0 \in SessionLevels
  /\ Applications \subseteq BOOLEAN /\ FALSE \in Applications
ASSUME StateAssumption ==
  /\ Kinds \subseteq AllKinds
  /\ States \subseteq OpenStates \cup TerminalStates
  /\ {"pending", "interrupted"} \subseteq States
ASSUME BoundAssumption == BootMax \in Nat \ {0} /\ ClockMax \in Nat \ {0}

VARIABLES
  journal,  \* the durable paths: cursor, restart, active, handoff, terminals
  step,     \* the next commit of a complete_journal_terminal in progress
  login,    \* the session start it was called with; 0 is None
  boot,     \* the kernel's boot identity
  now,      \* the monotonic clock of this boot
  since,    \* when the active operation was admitted; it finishes later, in
            \* microseconds, since its admission alone waits for the disk
  logins,   \* the session starts logind has reported in this boot
  owed      \* what this boot's finished updates asked for (history)

vars == <<journal, step, login, boot, now, since, logins, owed>>

Slots == 0 .. N - 1
Boots == 1 .. BootMax
Times == 1 .. ClockMax
AfterOffByOne(slot) == (slot + 1) % (N + 1)
After(slot) == (slot + 1) % N
Higher(a, b) == IF a < b THEN b ELSE a

-----------------------------------------------------------------------------
(* Records.  The strengths stand for the names in shared.py:               *)
(*   system  0 none, 1 unknown, 2 system, 3 security-system                *)
(*   session 0 none, 1 session, 2 security-session                         *)
(* Timestamps in wall-clock time, details, errors, generations and the     *)
(* PackageKit path are fixed at admission or for display, and left out.    *)

Operations ==
  [id : Ids, kind : Kinds, state : States,
   system : 0 .. 3, session : 0 .. 2, application : BOOLEAN,
   boot : 0 .. BootMax, mono : 0 .. ClockMax, slot : Slots]

Terminal(op) == op.state \in TerminalStates
Timed(op)    == op.kind \in {"update", "refresh"}

(* _journal_operation_fields: which fields each kind and state carries.    *)
WellFormed(op) ==
  /\ op \in Operations
  /\ IF op.kind = "update" THEN op.boot # 0
     ELSE op.boot = 0 /\ op.system = 0 /\ op.session = 0 /\ ~ op.application
  /\ (op.mono # 0) <=> (Timed(op) /\ Terminal(op))

Restarts ==
  [boot : Boots, last : Ids \cup {None}, system : 0 .. 3,
   session : 0 .. 2, sessionCutoff : 0 .. ClockMax,
   application : BOOLEAN, applicationCutoff : 0 .. ClockMax]

AllClear(b) ==
  [boot |-> b, last |-> None, system |-> 0, session |-> 0, sessionCutoff |-> 0,
   application |-> FALSE, applicationCutoff |-> 0]

Handoffs == [id : Ids, slot : Slots]
Handoff(op) == [id |-> op.id, slot |-> op.slot]

ASSUME NoneAssumption == None \notin Ids \cup Handoffs \cup Operations

-----------------------------------------------------------------------------
(* decode_journal_state: every check that a loaded journal must pass.      *)

Filled(j)   == {s \in Slots : j.terminals[s] # None}
Retained(j) == {j.terminals[s] : s \in Filled(j)}
RingFull(j) == Filled(j) = Slots

RingSound(j) ==
  /\ \A s \in Filled(j) : /\ WellFormed(j.terminals[s])
                          /\ Terminal(j.terminals[s])
                          /\ j.terminals[s].slot = s
  /\ \A s, t \in Filled(j) : s # t => j.terminals[s].id # j.terminals[t].id
  /\ j.active = None /\ j.handoff = None /\ Cardinality(Filled(j)) = 1 =>
       \A s \in Filled(j) : j.cursor = After(s)

HandoffSound(j) ==
  j.handoff # None =>
    LET result == j.terminals[j.handoff.slot] IN
      /\ result # None
      /\ result.id = j.handoff.id
      /\ j.cursor = After(j.handoff.slot)
      /\ result.kind = "update" =>
           IF result.boot = j.restart.boot THEN j.restart.last = result.id
           ELSE j.restart = AllClear(j.restart.boot)
      /\ j.active # None => Terminal(j.active) /\ j.active = result

ActiveSound(j) ==
  j.active # None =>
    LET op == j.active  mine == j.terminals[op.slot] IN
      /\ WellFormed(op)
      /\ Terminal(op) /\ mine = op /\ op.kind = "update" /\ op.boot = j.restart.boot =>
           j.restart.last = op.id
      /\ op.id \in {o.id : o \in Retained(j)} => Terminal(op) /\ mine = op
      /\ op.kind = "update" /\ op.boot # j.restart.boot =>
           j.restart = AllClear(j.restart.boot)

(* The updates of this boot whose guidance the restart record must cover.  *)
RetainedUpdates(j) == {o \in Retained(j) : o.kind = "update" /\ o.boot = j.restart.boot}

Applied(j) ==
  RetainedUpdates(j) \cup
    IF /\ j.active # None
       /\ j.active.id = j.restart.last
       /\ j.active.kind = "update"
       /\ j.active.boot = j.restart.boot
    THEN {j.active} ELSE {}

(* The last applied update, when the ring still holds it.                  *)
Matching(j) == {o \in Applied(j) : o.id = j.restart.last}

ThisBoot(op, j) == op.kind = "refresh" \/ (op.kind = "update" /\ op.boot = j.restart.boot)

TimesSound(j) ==
  /\ j.active # None /\ ThisBoot(j.active, j) /\ Terminal(j.active) =>
       \A o \in RetainedUpdates(j) \ {j.active} : o.mono <= j.active.mono
  /\ j.handoff # None =>
       LET result == j.terminals[j.handoff.slot] IN
         ThisBoot(result, j) =>
           \A o \in RetainedUpdates(j) : o.id # result.id => o.mono <= result.mono

RestartSound(j) ==
  IF j.restart.last = None
  THEN j.restart = AllClear(j.restart.boot) /\ RetainedUpdates(j) = {}
  ELSE /\ \A o \in Retained(j) \cup ({j.active} \ {None}) :
            o.id = j.restart.last =>
              o.kind = "update" /\ o.boot = j.restart.boot /\ Terminal(o)
       /\ Matching(j) = {} => RingFull(j) /\ Applied(j) = {}
       /\ \A m \in Matching(j), o \in Applied(j) : o.mono <= m.mono

SystemSound(j) ==
  /\ \A o \in Applied(j) : o.system <= j.restart.system
  /\ RingFull(j) \/ j.restart.system = 0 \/ \E o \in Applied(j) : o.system = j.restart.system

(* One bucket of user-session guidance: the session or the application one. *)
BucketSound(j, level, cutoff, LevelOf(_)) ==
  LET contributors == {o \in Applied(j) : LevelOf(o) > 0} IN
    /\ level = 0 => cutoff = 0
    /\ level > 0 =>
         /\ cutoff # 0
         /\ \A m \in Matching(j) : cutoff <= m.mono /\ LevelOf(m) <= level
         /\ \A o \in contributors : o.mono <= cutoff
         /\ RingFull(j) \/
              /\ \E o \in contributors : LevelOf(o) = level
              /\ \E o \in contributors : o.mono = cutoff
              /\ \A o \in contributors : o.mono = cutoff => LevelOf(o) <= level

SessionOf(op)     == op.session
ApplicationOf(op) == IF op.application THEN 1 ELSE 0

BucketsSound(j) ==
  /\ BucketSound(j, j.restart.session, j.restart.sessionCutoff, SessionOf)
  /\ BucketSound(j, IF j.restart.application THEN 1 ELSE 0,
                 j.restart.applicationCutoff, ApplicationOf)

Decodes(j) ==
  /\ j.restart \in Restarts
  /\ RingSound(j)
  /\ HandoffSound(j)
  /\ ActiveSound(j)
  /\ TimesSound(j)
  /\ RestartSound(j)
  /\ SystemSound(j)
  /\ BucketsSound(j)

-----------------------------------------------------------------------------
(* owed remembers what the updates of this boot asked for when their       *)
(* result was decided, whatever became of the journal since: the strongest *)
(* system restart, and when a user-session restart of each strength, of    *)
(* any strength, and an application restart were last asked for; 0 never.  *)
Strengths == 1 .. 2

NothingOwed ==
  [system |-> 0, levelAt |-> [l \in Strengths |-> 0], sessionAt |-> 0, applicationAt |-> 0]

TypeOK ==
  /\ journal \in [cursor : Slots, restart : Restarts, active : Operations \cup {None},
                  handoff : Handoffs \cup {None}, terminals : [Slots -> Operations \cup {None}]]
  /\ step \in {"idle", "apply", "terminal", "cursor", "handoff", "clear"}
  /\ login \in 0 .. ClockMax
  /\ boot \in Boots
  /\ now \in Times
  /\ since \in 0 .. ClockMax
  /\ logins \subseteq Times
  /\ owed \in [system : 0 .. 3, levelAt : [Strengths -> 0 .. ClockMax],
               sessionAt : 0 .. ClockMax, applicationAt : 0 .. ClockMax]

(* initialize_journal_layout leaves every path empty and the guidance clear. *)
Init ==
  /\ journal = [cursor |-> 0, restart |-> AllClear(1), active |-> None,
                handoff |-> None, terminals |-> [s \in Slots |-> None]]
  /\ step = "idle"
  /\ login = 0
  /\ boot = 1
  /\ now = 1
  /\ since = 0
  /\ logins = {}
  /\ owed = NothingOwed

(* One durable commit of one path.                                         *)
Commit(path, payload) == journal' = [journal EXCEPT ![path] = payload]

-----------------------------------------------------------------------------
(* generate_journal_operation_id: an identity no record still carries.     *)
Fresh(id) ==
  /\ id \notin {o.id : o \in Retained(journal)}
  /\ id # journal.restart.last

(* prepare_journal_admission: nothing in progress and nothing unread.      *)
AdmissibleUnread == journal.active = None
Admissible == journal.active = None /\ journal.handoff = None

(* begin_journal_operation.  The slot is the cursor's: a slot is passed    *)
(* over only when its path has used up the 64-bit sequence.                *)
Begin(kind, id) ==
  /\ step = "idle"
  /\ Admissible
  /\ Fresh(id)
  /\ kind # "native" => journal.restart.boot = boot
  /\ Commit("active",
       [id |-> id, kind |-> kind, state |-> "pending",
        system |-> 0, session |-> 0, application |-> FALSE,
        boot |-> IF kind = "update" THEN boot ELSE 0, mono |-> 0, slot |-> journal.cursor])
  /\ since' = now
  /\ UNCHANGED <<step, login, boot, now, logins, owed>>

(* JOURNAL_TRANSITIONS                                                     *)
TransitionsOnceRunning(state) ==
  CASE state = "pending"          -> {"authorizing", "running", "canceled", "failed"}
    [] state = "authorizing"      -> {"running", "permission-denied", "canceled", "failed"}
    [] state = "running"          -> {"cancel-requested", "succeeded", "failed", "interrupted"}
    [] state = "cancel-requested" -> {"canceled", "succeeded", "failed", "interrupted"}

Transitions(state) ==
  {"failed", "interrupted"} \cup
    CASE state = "pending"          -> {"authorizing", "running", "canceled"}
      [] state = "authorizing"      -> {"running", "permission-denied", "canceled"}
      [] state = "running"          -> {"running", "cancel-requested", "succeeded"}
      [] state = "cancel-requested" -> {"cancel-requested", "canceled", "succeeded"}

Tuple(op) == <<op.system, op.session, op.application>>

(* The replacement that recover_journal_active asks for: nothing once the  *)
(* boot is over, "unknown" while signals may have been missed.             *)
ReplacesSystem(expected, following) ==
  following.system = 1 /\ Tail(Tuple(following)) = Tail(Tuple(expected))

Replaces(expected, following) ==
  IF expected.boot # boot
  THEN Tuple(following) = <<0, 0, FALSE>>
  ELSE following.system = 1 /\ Tail(Tuple(following)) = Tail(Tuple(expected))

(* Mutant: the system restart is forgotten.                                *)
WeakensGuidance(expected, following) ==
  \/ following.session < expected.session
  \/ expected.application /\ ~ following.application

Weakens(expected, following) ==
  \/ following.system < expected.system
  \/ following.session < expected.session
  \/ expected.application /\ ~ following.application

(* The rules of advance_journal_operation, up to its trial decode.         *)
Legal(expected, following, recovering) ==
  /\ ~ Terminal(expected)
  /\ following.state # expected.state => following.state \in Transitions(expected.state)
  /\ following.state = expected.state => Tuple(following) # Tuple(expected)
  /\ recovering => expected.kind = "update" /\ Terminal(following)
  /\ Weakens(expected, following) => recovering /\ Replaces(expected, following)

(* The history of guidance this result adds, if its boot is still running. *)
Owe(op) ==
  IF ~ Terminal(op) \/ op.kind # "update" \/ op.boot # boot THEN owed
  ELSE [system |-> Higher(owed.system, op.system),
        levelAt |-> [l \in Strengths |-> IF op.session = l THEN op.mono ELSE owed.levelAt[l]],
        sessionAt |-> IF op.session > 0 THEN op.mono ELSE owed.sessionAt,
        applicationAt |-> IF op.application THEN op.mono ELSE owed.applicationAt]

(* What a caller may ask for: it takes the finish time before it waits for *)
(* the lock, and terminalizes a PackageKit operation of an earlier boot    *)
(* only after pruning the guidance to this boot.                           *)
Following(state, system, session, application, mono) ==
  [journal.active EXCEPT
     !.state = state, !.system = system, !.session = session, !.application = application,
     !.mono = IF state \in TerminalStates /\ Timed(journal.active) THEN mono ELSE 0]

Advance(following, recovering) ==
  /\ step = "idle"
  /\ journal.active # None
  /\ Terminal(following) /\ Timed(following) => journal.restart.boot = boot
  /\ WellFormed(following)
  /\ Legal(journal.active, following, recovering)
  /\ Decodes([journal EXCEPT !.active = following])
  /\ Commit("active", following)
  /\ owed' = Owe(following)
  /\ UNCHANGED <<step, login, boot, now, since, logins>>

-----------------------------------------------------------------------------
(* prune_journal_restart.                                                  *)
Relogged(restart, s) ==
  [restart EXCEPT
     !.session           = IF s > restart.sessionCutoff THEN 0 ELSE @,
     !.sessionCutoff     = IF s > restart.sessionCutoff THEN 0 ELSE @,
     !.application       = IF s > restart.applicationCutoff THEN FALSE ELSE @,
     !.applicationCutoff = IF s > restart.applicationCutoff THEN 0 ELSE @]

Pruned(restart, s) ==
  IF restart.boot # boot THEN AllClear(boot) ELSE Relogged(restart, s)

(* A caller's session evidence: a login of this boot, or 0 for None, which *)
(* is later than no cutoff.                                                *)
Evidence == logins \cup {0}

Prune(s) ==
  /\ step = "idle"
  /\ Commit("restart", Pruned(journal.restart, s))
  /\ UNCHANGED <<step, login, boot, now, since, logins, owed>>

-----------------------------------------------------------------------------
(* complete_journal_terminal, one commit at a time.                        *)

Running(here, next) == step = here /\ step' = next /\ UNCHANGED <<boot, now, since, logins, owed>>

CompleteStart(s) ==
  /\ journal.active # None /\ Terminal(journal.active)
  /\ IF journal.active.kind = "update"
     THEN /\ Running("idle", "apply")
          /\ Commit("restart", Pruned(journal.restart, s))
          /\ login' = s
     ELSE /\ Running("idle", "terminal")
          /\ UNCHANGED <<journal, login>>

WithLatest(restart, op) ==
  [restart EXCEPT
     !.last              = op.id,
     !.system            = op.system,
     !.session           = op.session,
     !.sessionCutoff     = IF op.session > 0 THEN op.mono ELSE @,
     !.application       = op.application,
     !.applicationCutoff = IF op.application THEN op.mono ELSE @]

WithContribution(restart, op) ==
  [restart EXCEPT
     !.last              = op.id,
     !.system            = Higher(@, op.system),
     !.session           = Higher(@, op.session),
     !.sessionCutoff     = IF op.session > 0 THEN op.mono ELSE @,
     !.application       = @ \/ op.application,
     !.applicationCutoff = IF op.application THEN op.mono ELSE @]

(* Never reintroduce work that the current login has already satisfied.    *)
Reapplied(restart, op) == Relogged(WithContribution(restart, op), login)

CompleteApplyAgain ==
  /\ Running("apply", "terminal")
  /\ IF journal.active.boot = boot
     THEN Commit("restart", Reapplied(journal.restart, journal.active))
     ELSE UNCHANGED journal
  /\ login' = 0

CompleteApply ==
  /\ Running("apply", "terminal")
  /\ IF journal.active.boot = boot /\ journal.restart.last # journal.active.id
     THEN Commit("restart", Reapplied(journal.restart, journal.active))
     ELSE UNCHANGED journal
  /\ login' = 0

CompleteTerminal ==
  /\ Running("terminal", "cursor")
  /\ Commit("terminals", [journal.terminals EXCEPT ![journal.active.slot] = journal.active])
  /\ UNCHANGED login

CompleteCursor ==
  /\ Running("cursor", "handoff")
  /\ Commit("cursor", After(journal.active.slot))
  /\ UNCHANGED login

CompleteHandoff ==
  /\ Running("handoff", "clear")
  /\ Commit("handoff", Handoff(journal.active))
  /\ UNCHANGED login

CompleteClear ==
  /\ Running("clear", "idle")
  /\ Commit("active", None)
  /\ UNCHANGED login

(* acknowledge_journal_handoff: only the exact handoff, nothing active.    *)
Acknowledge(id) ==
  /\ step = "idle"
  /\ journal.active = None
  /\ journal.handoff # None /\ journal.handoff.id = id
  /\ Commit("handoff", None)
  /\ UNCHANGED <<step, login, boot, now, since, logins, owed>>

-----------------------------------------------------------------------------
(* The environment.                                                        *)

(* The process inside complete_journal_terminal dies between two commits.  *)
Kill ==
  /\ step # "idle"
  /\ step' = "idle"
  /\ login' = 0
  /\ UNCHANGED <<journal, boot, now, since, logins, owed>>

Tick ==
  /\ now < ClockMax
  /\ now' = now + 1
  /\ UNCHANGED <<journal, step, login, boot, since, logins, owed>>

(* The user logs in again; logind reports the new session's start.         *)
Login ==
  /\ logins' = logins \cup {now}
  /\ UNCHANGED <<journal, step, login, boot, now, since, owed>>

Reboot ==
  /\ boot < BootMax
  /\ boot' = boot + 1
  /\ now' = 1
  /\ since' = 0
  /\ logins' = {}
  /\ step' = "idle"
  /\ login' = 0
  /\ owed' = NothingOwed
  /\ UNCHANGED journal

Advances ==
  \E state \in States, mono \in since + 1 .. now, recovering \in BOOLEAN :
    \E system \in SystemLevels, session \in SessionLevels, application \in Applications :
      /\ journal.active # None
      /\ journal.active.kind # "update" => system = 0 /\ session = 0 /\ ~ application
      /\ Advance(Following(state, system, session, application, mono), recovering)

Next ==
  \/ \E kind \in Kinds, id \in Ids : Begin(kind, id)
  \/ Advances
  \/ \E s \in Evidence : Prune(s)
  \/ \E s \in Evidence : CompleteStart(s)
  \/ CompleteApply
  \/ CompleteTerminal
  \/ CompleteCursor
  \/ CompleteHandoff
  \/ CompleteClear
  \/ \E id \in Ids : Acknowledge(id)
  \/ Kill
  \/ Tick
  \/ Login
  \/ Reboot

Spec == Init /\ [][Next]_vars

-----------------------------------------------------------------------------
(* A journal this code wrote is one this code can load, after every commit *)
(* and every crash: none of the checks of decode_journal_state ever locks  *)
(* the user out of updates with a "malformed" journal.                     *)
JournalDecodes == Decodes(journal)

(* Restart guidance is neither lost nor invented within a boot.  Once the  *)
(* last result is filed, the record asks for every restart that an update  *)
(* of this boot asked for and no later login has satisfied, and at its     *)
(* strength; it asks for none, and for no strength, that no update asked   *)
(* for; and it waits for a login later than the last request.  The bounds  *)
(* meet until a login comes; the code keeps what that login satisfied      *)
(* until a caller reports it.                                              *)
Unmet(at) == at # 0 /\ ~ \E s \in logins : s > at

GuidanceKept ==
  journal.active = None /\ journal.restart.boot = boot =>
    LET r == journal.restart IN
      /\ r.system = owed.system
      /\ \A l \in Strengths : Unmet(owed.levelAt[l]) => r.session >= l
      /\ r.session > 0 => owed.levelAt[r.session] # 0 /\ r.sessionCutoff = owed.sessionAt
      /\ Unmet(owed.applicationAt) => r.application
      /\ r.application => owed.applicationAt # 0 /\ r.applicationCutoff = owed.applicationAt

(* The guidance of one update is applied once.  A new boot clears it; the  *)
(* update filed last adds its own requests to what was left and nothing    *)
(* else; every other step only shrinks it.  Recovery that repeats the      *)
(* commits of a killed process does not bring back what a login satisfied. *)
GuidanceNotReplayed ==
  [][LET before == journal.restart  after == journal'.restart  op == journal.active IN
       CASE after.boot # before.boot -> after = AllClear(after.boot)
         [] after.boot = before.boot /\ after.last # before.last ->
              /\ after.last = op.id
              /\ after.system = Higher(before.system, op.system)
              /\ after.session <= Higher(before.session, op.session)
              /\ after.application => before.application \/ op.application
         [] OTHER ->
              /\ after.system = before.system
              /\ after.session <= before.session
              /\ after.application => before.application]_vars

(* The journal keeps the promise of OperationResults: an operation leaves  *)
(* the active path only once the handoff names the ring slot that holds    *)
(* its result, and the ring holds it until the handoff is acknowledged.    *)
Result == IF journal.handoff = None THEN None ELSE journal.terminals[journal.handoff.slot]

Results == INSTANCE OperationResults
             WITH Final <- TerminalStates, active <- journal.active, result <- Result

ResultsSpec == Results!Spec

(* Whatever a crash left behind, recovery can still close the operation as *)
(* interrupted: the trial decode of advance_journal_operation never refuses *)
(* the only result that recovery is sure it may record.                    *)
Interrupted(op) ==
  [op EXCEPT
     !.state = "interrupted",
     !.mono = IF Timed(op) THEN now ELSE 0,
     !.system = IF op.kind # "update" \/ op.boot # boot THEN 0 ELSE 1,
     !.session = IF op.boot # boot THEN 0 ELSE @,
     !.application = IF op.boot # boot THEN FALSE ELSE @]

RecoveryPossible ==
  step = "idle" /\ journal.active # None /\ ~ Terminal(journal.active) /\ now > since =>
    LET op == Interrupted(journal.active) IN
      /\ Legal(journal.active, op, op.kind = "update")
      /\ Decodes([journal EXCEPT !.restart = Pruned(@, 0), !.active = op])
=============================================================================
