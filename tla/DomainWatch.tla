---------------------------- MODULE DomainWatch ----------------------------
(***************************************************************************)
(* How a Settings page stays fresh: a change in a system service becomes a *)
(* D-Bus signal, a record of the one watch-domains process the shell runs, *)
(* and another read of the domain it belongs to.                           *)
(*                                                                         *)
(* From the service to the page there are the bus; a monitor               *)
(* (AuthenticatedEventMonitor of event_monitors.py) in a watch-domains     *)
(* process (watch_commands.py), commanded through its stdin; the shell's   *)
(* SystemWatchHub, which routes its stdout; and a SystemProviderDiscovery  *)
(* with its SystemDiscoveryCycle, which decides when to read again.  One   *)
(* domain is followed all the way; of the others that share the process it *)
(* matters whether any is attached.                                        *)
(*                                                                         *)
(* A handler of the shell is one step, with what it leaves to Qt.callLater *)
(* included: that runs before the shell's next event.                      *)
(***************************************************************************)
EXTENDS Naturals, Sequences

CONSTANTS
  InstancesMax,  \* bound: instances of the service, started one after the other
  QueueMax       \* bound: messages or records under way for a change to happen

ASSUME BoundsAssumption == InstancesMax \in Nat /\ QueueMax \in Nat

VARIABLES
  service,  \* the instance that has the service's name, 0 for none
  births,   \* instances so far
  rules,    \* match rules the bus has for the monitor's connection
  asked,    \* the monitor has a request nobody has answered
  wire,     \* what the bus has sent to the monitor
  mon,      \* the domain's monitor in watch-domains
  process,  \* watch-domains, as the kernel has it
  stdin, stdout,
  shell     \* hub, discovery and cycle, and what its reads saw

busVars == <<service, births, rules, asked, wire>>
vars == <<busVars, mon, process, stdin, stdout, shell>>

-----------------------------------------------------------------------------
(* The service and the bus.                                                *)

NoMonitor  == [stage |-> "none", owner |-> 0, moved |-> FALSE, dirty |-> FALSE, stopped |-> FALSE]
NewMonitor == [NoMonitor EXCEPT !.stage = "connect"]

Idle == Len(wire) < QueueMax /\ Len(stdout) < QueueMax

Message(type, who) == [type |-> type, who |-> who]
Heard(rule, message) == IF rule \in rules THEN <<message>> ELSE <<>>

(* Whoever asks something of the service has it started if need be.        *)
Serves ==
  IF service # 0 THEN UNCHANGED <<service, births>>
  ELSE births < InstancesMax /\ births' = births + 1 /\ service' = births'

Arrival == IF service = 0 THEN Heard("owner", Message("owner", service')) ELSE <<>>

Changes ==
  /\ Idle
  /\ Serves
  /\ wire' = wire \o Arrival \o Heard("properties", Message("changed", service'))
  /\ shell' = [shell EXCEPT !.shown = "old", !.read = IF @ = "current" THEN "old" ELSE @]
  /\ UNCHANGED <<rules, asked, mon, process, stdin, stdout>>

(* Idle instances exit, which changes nothing.                             *)
ServiceExits ==
  /\ Idle /\ service # 0
  /\ service' = 0
  /\ wire' = wire \o Heard("owner", Message("owner", 0))
  /\ UNCHANGED <<births, rules, asked, mon, process, stdin, stdout, shell>>

(* The bus answers AddMatch and GetNameOwner, in order with its signals.   *)
BusAnswers ==
  /\ asked
  /\ asked' = FALSE
  /\ CASE mon.stage = "match1" -> rules' = rules \cup {"owner"}
       [] mon.stage = "match2" -> rules' = rules \cup {"properties"}
       [] OTHER -> UNCHANGED rules
  /\ wire' = Append(wire, IF mon.stage \in {"match1", "match2"} THEN Message("match", 0)
                                                               ELSE Message("name", service))
  /\ UNCHANGED <<service, births, mon, process, stdin, stdout, shell>>

-----------------------------------------------------------------------------
(* The monitor.  Its process runs one callback at a time.                  *)

Up == process \in {"spawned", "up"}

Stopped == [mon EXCEPT !.stopped = TRUE]

(* bus_get, then add_match for the service's owner.                        *)
Connected ==
  /\ Up /\ mon.stage = "connect" /\ ~ mon.stopped
  /\ mon' = [mon EXCEPT !.stage = "match1"]
  /\ asked' = TRUE
  /\ UNCHANGED <<service, births, rules, wire, process, stdin, stdout, shell>>

Arrived(type) == Up /\ wire # <<>> /\ Head(wire).type = type

(* match_finished: the next rule, or the owner; a stopped monitor takes    *)
(* the rule back.                                                          *)
MatchFinished ==
  /\ Arrived("match")
  /\ IF mon.stopped THEN UNCHANGED <<mon, asked>>
     ELSE /\ mon' = [mon EXCEPT !.stage = IF @ = "match1" THEN "name1" ELSE "name2", !.moved = FALSE]
          /\ asked' = TRUE
  /\ wire' = Tail(wire)
  /\ UNCHANGED <<service, births, rules, process, stdin, stdout, shell>>

(* resolve_owner, with owner_initialized or owner_resolved: a newer owner  *)
(* notification wins, and what changed before readiness is told after it.  *)
Resolved(m, who) == IF m.moved THEN m ELSE [m EXCEPT !.owner = who]

NameResolved ==
  /\ Arrived("name")
  /\ IF mon.stopped THEN UNCHANGED <<mon, asked, stdout>>
     ELSE IF mon.stage = "name1"
          THEN /\ mon' = [Resolved(mon, Head(wire).who) EXCEPT !.stage = "match2"]
               /\ asked' = TRUE
               /\ UNCHANGED stdout
          ELSE /\ mon' = [Resolved(mon, Head(wire).who) EXCEPT !.stage = "live", !.dirty = FALSE]
               /\ stdout' = stdout \o (IF mon.dirty THEN <<"ready", "changed">> ELSE <<"ready">>)
               /\ UNCHANGED asked
  /\ wire' = Tail(wire)
  /\ UNCHANGED <<service, births, rules, process, stdin, shell>>

(* changed                                                                 *)
Told(m) == IF m.stage = "live" THEN /\ mon' = m /\ stdout' = Append(stdout, "changed")
                               ELSE /\ mon' = [m EXCEPT !.dirty = TRUE] /\ UNCHANGED stdout

(* Mutant: a departed owner is remembered until the next one is looked up. *)
OwnerKept ==
  /\ Arrived("owner")
  /\ IF mon.stopped \/ Head(wire).who # 0 THEN UNCHANGED <<mon, stdout>>
     ELSE /\ mon' = [mon EXCEPT !.owner = 0, !.moved = TRUE]
          /\ UNCHANGED stdout
  /\ wire' = Tail(wire)
  /\ UNCHANGED <<service, births, rules, asked, process, stdin, shell>>

(* owner_changed: an arrival is a change, a departure is not.              *)
OwnerChanged ==
  /\ Arrived("owner")
  /\ LET m == [mon EXCEPT !.owner = Head(wire).who, !.moved = TRUE] IN
       IF mon.stopped THEN UNCHANGED <<mon, stdout>>
       ELSE IF m.owner # 0 THEN Told(m)
       ELSE mon' = m /\ UNCHANGED stdout
  /\ wire' = Tail(wire)
  /\ UNCHANGED <<service, births, rules, asked, process, stdin, shell>>

(* properties_changed, from the authenticated owner only.                  *)
PropertiesChanged ==
  /\ Arrived("changed")
  /\ IF ~ mon.stopped /\ mon.owner # 0 /\ mon.owner = Head(wire).who THEN Told(mon)
     ELSE UNCHANGED <<mon, stdout>>
  /\ wire' = Tail(wire)
  /\ UNCHANGED <<service, births, rules, asked, process, stdin, shell>>

(* The readiness deadline; before it, a request that is refused.           *)
SetupFails ==
  /\ Up /\ mon.stage \notin {"none", "live"} /\ ~ mon.stopped
  /\ mon' = Stopped
  /\ UNCHANGED <<busVars, process, stdin, stdout, shell>>

(* The connection closes, or a message is malformed.                       *)
MonitorFails ==
  /\ Up /\ mon.stage = "live" /\ ~ mon.stopped
  /\ mon' = Stopped
  /\ UNCHANGED <<busVars, process, stdin, stdout, shell>>

Monitor ==
  \/ Connected \/ MatchFinished \/ NameResolved \/ OwnerChanged \/ PropertiesChanged

-----------------------------------------------------------------------------
(* watch_domains                                                           *)

Command(word) == Up /\ stdin # <<>> /\ Head(stdin) = word /\ stdin' = Tail(stdin)

Disconnect == rules' = {} /\ asked' = FALSE /\ wire' = <<>>

(* start: a live monitor is kept, one that has stopped is replaced.        *)
StartDomain ==
  /\ Command("start")
  /\ IF mon.stage # "none" /\ ~ mon.stopped
     THEN UNCHANGED <<mon, rules, asked, wire>>
     ELSE mon' = NewMonitor /\ Disconnect
  /\ UNCHANGED <<service, births, process, stdout, shell>>

StopDomain ==
  /\ Command("stop")
  /\ mon' = IF mon.stage # "none" THEN Stopped ELSE mon
  /\ UNCHANGED <<busVars, process, stdout, shell>>

(* Mutant: a monitor stopped by a command leaves no record.                *)
RetireSilently ==
  /\ Up /\ mon.stopped
  /\ mon' = NoMonitor
  /\ stdout' = IF shell.retiring THEN stdout ELSE Append(stdout, "stopped")
  /\ Disconnect
  /\ UNCHANGED <<service, births, process, stdin, shell>>

(* retire, from an idle callback after the stop.                           *)
Retire ==
  /\ Up /\ mon.stopped
  /\ mon' = NoMonitor
  /\ stdout' = Append(stdout, "stopped")
  /\ Disconnect
  /\ UNCHANGED <<service, births, process, stdin, shell>>

-----------------------------------------------------------------------------
(* The shell.  A handler makes a new shell of the old one; what it writes  *)
(* to the process and what it orders is collected in the record.           *)

Quiet == [
  visible |-> FALSE, ready |-> FALSE, failed |-> FALSE,      \* discovery
  attached |-> FALSE, others |-> FALSE,                      \* clients of the hub
  phase |-> "idle", dirty |-> FALSE, force |-> FALSE,        \* cycle
  again |-> FALSE, unresolved |-> FALSE,
  read |-> "none", shown |-> "old",                          \* reads (history)
  subscribed |-> FALSE, known |-> FALSE, queued |-> FALSE,   \* hub
  retiring |-> FALSE, started |-> FALSE, stopping |-> FALSE,
  out |-> <<>>, order |-> "none"]

(* What a turn of the shell's event loop leaves behind.                    *)
Turn(s) ==
  /\ shell' = [s EXCEPT !.out = <<>>, !.order = "none"]
  /\ stdin' = stdin \o s.out
  /\ process' = CASE s.order = "launch" -> "spawned"
                  [] s.order = "signal" -> "term"
                  [] OTHER -> process

(* A read in progress when a cycle begins or closes is not that cycle's.   *)
Voided(s) == IF s.read = "none" THEN "none" ELSE "void"

(* begin, invalidate and close of SystemDiscoveryCycle.                    *)
BeginCycle(s) ==
  [s EXCEPT !.phase = "initial-pending", !.dirty = FALSE, !.force = s.unresolved,
            !.unresolved = FALSE, !.again = FALSE, !.read = Voided(s), !.shown = "old"]

(* Mutant: a change during a read is covered by it.                        *)
InvalidateIdle(s) == IF s.phase = "idle" THEN BeginCycle(s) ELSE s

Invalidate(s) ==
  CASE s.phase = "idle" -> BeginCycle(s)
    [] s.phase = "initial-active" -> [s EXCEPT !.dirty = TRUE]
    [] s.phase = "settling-active" -> [s EXCEPT !.again = TRUE, !.unresolved = TRUE]
    [] OTHER -> s

CloseCycle(s) == [s EXCEPT !.phase = "idle", !.dirty = FALSE, !.read = Voided(s)]

Nobody(s) == ~ s.attached /\ ~ s.others
Serving(s) == s.started /\ ~ s.stopping

Subscribe(s) == [s EXCEPT !.subscribed = TRUE, !.known = FALSE, !.out = Append(@, "start")]

Launch(s) == IF process = "off" THEN [s EXCEPT !.order = "launch"] ELSE s

(* Mutant: the reply to stop is not waited for.                            *)
AttachAtOnce(s) ==
  LET a == [s EXCEPT !.attached = TRUE, !.ready = FALSE, !.failed = FALSE] IN
    CASE Serving(a) /\ a.subscribed -> [a EXCEPT !.ready = a.known]
      [] Serving(a) /\ ~ a.subscribed -> Subscribe(a)
      [] OTHER -> Launch([a EXCEPT !.queued = TRUE])

(* startMonitor and the hub's attach.  A subscription that is ready makes  *)
(* its new client ready; one being retired is waited for.                  *)
Attach(s) ==
  LET a == [s EXCEPT !.attached = TRUE, !.ready = FALSE, !.failed = FALSE] IN
    CASE Serving(a) /\ a.retiring -> a
      [] Serving(a) /\ ~ a.retiring /\ a.subscribed -> [a EXCEPT !.ready = a.known]
      [] Serving(a) /\ ~ a.retiring /\ ~ a.subscribed -> Subscribe(a)
      [] OTHER -> Launch([a EXCEPT !.queued = TRUE])

(* detach: the last client stops the process, a failed one its domain.     *)
Leaving(s, retire) ==
  CASE Nobody(s) /\ process # "off" /\ ~ s.stopping ->
         [s EXCEPT !.stopping = TRUE, !.queued = FALSE, !.order = "signal"]
    [] ~ (Nobody(s) /\ process # "off") /\ retire /\ Serving(s) /\ s.subscribed ->
         [s EXCEPT !.subscribed = FALSE, !.known = FALSE, !.retiring = TRUE, !.out = Append(@, "stop")]
    [] OTHER -> s

Detach(s, retire) == Leaving([s EXCEPT !.attached = FALSE, !.ready = FALSE], retire)

Fail(s) == IF s.attached THEN Detach([s EXCEPT !.failed = TRUE], TRUE) ELSE s

(* event: a record that makes no sense now fails the monitor.              *)
Deliver(s, record) ==
  CASE ~ s.attached -> s
    [] s.attached /\ record = "ready" /\ ~ s.ready -> [s EXCEPT !.ready = TRUE]
    [] s.attached /\ record = "changed" /\ s.ready -> Invalidate(s)
    [] OTHER -> Fail(s)

(* ended and finished.                                                     *)
End(s) == IF s.attached THEN [s EXCEPT !.attached = FALSE, !.ready = FALSE, !.failed = TRUE] ELSE s

(* route                                                                   *)
Routed(s, record) ==
  CASE s.stopping -> s
    [] ~ s.stopping /\ record = "stopped" ->
         IF s.retiring
         THEN LET r == [s EXCEPT !.retiring = FALSE] IN IF r.attached THEN Subscribe(r) ELSE r
         ELSE End([s EXCEPT !.subscribed = FALSE, !.known = FALSE])
    [] OTHER -> Deliver([s EXCEPT !.known = @ \/ record = "ready"], record)

Route ==
  /\ stdout # <<>>
  /\ Turn(Routed(shell, Head(stdout)))
  /\ stdout' = Tail(stdout)
  /\ UNCHANGED <<busVars, mon>>

Opened(s) == Attach(BeginCycle([s EXCEPT !.visible = TRUE]))
Closed(s) ==
  LET c == CloseCycle([s EXCEPT !.visible = FALSE]) IN
    IF c.attached THEN Detach(c, c.failed) ELSE [c EXCEPT !.ready = FALSE]

Acts(s) == Turn(s) /\ UNCHANGED <<busVars, mon, stdout>>

Open    == ~ shell.visible /\ Acts(Opened(shell))
Close   == shell.visible /\ Acts(Closed(shell))
Refresh ==
  /\ shell.visible
  /\ LET b == BeginCycle(shell) IN Acts(IF b.attached THEN b ELSE Attach(b))

(* The discovery's own deadline for the first record.                      *)
SetupExpired == shell.attached /\ ~ shell.ready /\ Acts(Fail(shell))

(* Other discoveries of the page come and go, or their domain ends.        *)
OthersAttach ==
  /\ ~ shell.others
  /\ LET a == [shell EXCEPT !.others = TRUE] IN Acts(IF Serving(a) THEN a ELSE Launch(a))

OthersDetach == shell.others /\ Acts(Leaving([shell EXCEPT !.others = FALSE], FALSE))
OthersEnd    == shell.others /\ Serving(shell) /\ Acts([shell EXCEPT !.others = FALSE])

(* onStarted                                                               *)
ProcessStarted ==
  /\ process \in {"spawned", "term"} /\ ~ shell.started
  /\ LET s == [shell EXCEPT !.started = TRUE, !.stopping = FALSE, !.retiring = FALSE]
     IN Turn(IF s.queued THEN Subscribe([s EXCEPT !.queued = FALSE]) ELSE s)
  /\ UNCHANGED <<busVars, mon, stdout>>

(* onRunningChanged: who attached while the last process was stopping gets *)
(* a new one, everybody else has ended with it.                            *)
ProcessEnded(s) ==
  LET over == [s EXCEPT !.started = FALSE, !.stopping = FALSE, !.subscribed = FALSE,
                        !.known = FALSE, !.retiring = FALSE]
  IN CASE Nobody(over) -> [over EXCEPT !.queued = FALSE]
       [] ~ Nobody(over) /\ s.stopping -> [over EXCEPT !.queued = s.attached]
       [] OTHER -> End([over EXCEPT !.queued = FALSE, !.others = FALSE])

(* Terminated, or dead for a reason of its own.                            *)
ProcessExits ==
  /\ process # "off"
  /\ LET s == ProcessEnded(shell) IN
       /\ shell' = s
       /\ process' = IF shell.stopping /\ ~ Nobody(s) THEN "spawned" ELSE "off"
  /\ mon' = NoMonitor /\ Disconnect
  /\ stdin' = <<>> /\ stdout' = <<>>
  /\ UNCHANGED <<service, births>>

-----------------------------------------------------------------------------
(* Reads.  The model of the page reads one snapshot at a time.             *)

Take ==
  /\ shell.read = "none"
  /\ shell.visible /\ (shell.ready \/ shell.failed)
  /\ shell.phase \in {"initial-pending", "settling-pending"}
  /\ Acts([shell EXCEPT !.phase = IF @ = "settling-pending" THEN "settling-active" ELSE "initial-active",
                        !.again = FALSE, !.read = "started"])

(* The helper asks the service, and may have it started for that.          *)
Sample ==
  /\ shell.read = "started"
  /\ Idle
  /\ Serves
  /\ wire' = wire \o Arrival
  /\ shell' = [shell EXCEPT !.read = "current"]
  /\ UNCHANGED <<rules, asked, mon, process, stdin, stdout>>

(* complete: a second read in a row that a change overtook is the last.    *)
Completed(s) ==
  CASE s.phase = "settling-active" ->
         [s EXCEPT !.unresolved = s.again, !.phase = IF s.again THEN "blocked" ELSE "idle"]
    [] OTHER ->
         [s EXCEPT !.dirty = FALSE,
                   !.phase = IF s.dirty \/ s.force THEN "settling-pending" ELSE "idle"]

ReadSucceeds ==
  /\ shell.read \in {"current", "old"}
  /\ Acts([Completed(shell) EXCEPT !.shown = shell.read, !.read = "none"])

ReadFails ==
  /\ shell.read \in {"started", "current", "old"}
  /\ Acts([shell EXCEPT !.unresolved = TRUE, !.phase = "blocked", !.read = "none"])

(* Nobody waits for a void read.                                           *)
ReadDiscarded == shell.read = "void" /\ Acts([shell EXCEPT !.read = "none"])

-----------------------------------------------------------------------------
Init ==
  /\ births = 0 /\ service = 0 /\ rules = {} /\ asked = FALSE /\ wire = <<>>
  /\ mon = NoMonitor
  /\ process = "off"
  /\ stdin = <<>> /\ stdout = <<>>
  /\ shell = Quiet

User == Open \/ Close \/ Refresh \/ OthersAttach \/ OthersDetach

Next ==
  \/ Changes \/ ServiceExits \/ BusAnswers
  \/ Monitor \/ SetupFails \/ MonitorFails
  \/ StartDomain \/ StopDomain \/ Retire
  \/ Route \/ User \/ SetupExpired \/ OthersEnd
  \/ ProcessStarted \/ ProcessExits
  \/ Take \/ Sample \/ ReadSucceeds \/ ReadFails \/ ReadDiscarded

Spec == Init /\ [][Next]_vars

(* The process handles what reaches it and has a deadline for its setup;   *)
(* the shell takes its lines, and sees a process start, or end once it is  *)
(* told to.  The bus, the service, the user and reads owe nothing.         *)
FairSpec ==
  /\ Spec
  /\ WF_vars(Monitor) /\ WF_vars(SetupFails)
  /\ WF_vars(StartDomain \/ StopDomain) /\ WF_vars(Retire)
  /\ WF_vars(Route) /\ WF_vars(ProcessStarted)
  /\ WF_vars(process = "term" /\ ProcessExits)

-----------------------------------------------------------------------------
(* Properties.                                                             *)

Fresh ==
  /\ shell.visible /\ shell.ready
  /\ ~ shell.failed /\ ~ shell.unresolved
  /\ shell.phase = "idle"

(* A page that claims to be fresh while the service has moved on learns of *)
(* it: no change is lost between the monitor's setup, the hub's routing,   *)
(* and the read that was under way (SystemProviderDiscovery.fresh).        *)
NothingMissed == (Fresh /\ shell.shown = "old") ~> ~ Fresh \/ shell.shown = "current"

(* A discovery that attaches to the hub gets a ready record or is ended,   *)
(* whatever the process, a retired subscription or another page is doing,  *)
(* and not only by its own deadline (attach of SystemWatchHub).            *)
AttachedIsServed == shell.attached ~> (shell.ready \/ ~ shell.attached)

(* A monitor that stopped is retired: its rules are removed and its end is *)
(* told, before its domain is started again (start and retire of           *)
(* watch_domains, the hub's wait for "stopped").                           *)
StoppedIsRetired == [][mon.stopped => mon' \in {mon, NoMonitor}]_vars
=============================================================================
