-------------------------- MODULE RegionalMutation --------------------------
(***************************************************************************)
(* The client that asks timedated or localed for one confirmed change      *)
(* (class RegionalMutation).  It pins one instance of the service,         *)
(* subscribes to its notifications, reads the state the user confirmed,    *)
(* has the operation put on record, sends the request, and reads the       *)
(* result back.  Other clients may write the same setting at any time, and *)
(* the service may exit when it is idle.                                   *)
(*                                                                         *)
(* D-Bus delivers what one peer hears in the order it was sent, replies    *)
(* and notifications alike; wire is what is under way, inbox what has      *)
(* reached the process.                                                    *)
(***************************************************************************)
EXTENDS Naturals, Sequences

CONSTANTS
  Values,         \* values of the setting
  Confirmed,      \* the value the user was shown, bound to the generation
  Target,         \* the value the user asked for
  Unspecified,    \* a notification that names the property but not its value
  CallbackLimit,  \* REGIONAL_CALLBACK_LIMIT
  WritesMax,      \* bound: writes by other clients
  InstancesMax    \* bound: instances of the service

ASSUME ConstantsAssumption ==
  /\ Confirmed \in Values /\ Target \in Values /\ Unspecified \notin Values
  /\ {CallbackLimit, WritesMax, InstancesMax} \subseteq Nat

VARIABLES
  value,     \* the setting, as the service has it
  instance,  \* the instance of the service that has the name, 0 for none
  births,    \* instances so far
  writes,    \* writes by other clients so far
  rules,     \* match rules the bus has for the client
  request,   \* the request nobody has answered, "none" apart
  wire, inbox,
  client,
  served,    \* what the service did with the change it was sent
  window,    \* between the preflight read and the verifying read (history)
  contested, \* another value was written in that window (history)
  late       \* a change arrived while the hook ran (history)

serviceVars == <<value, instance, births, writes>>
history     == <<window, contested, late>>
vars == <<serviceVars, rules, request, wire, inbox, client, served, history>>

Reply(what) == [type |-> "reply", what |-> what]
Error(what) == [type |-> "error", what |-> what]
Changed(v)  == [type |-> "changed", what |-> v]
OwnerLost   == [type |-> "owner", what |-> "lost"]

(* The stage of the client is the reply it waits for, or its hook.         *)
Stages == {"activate", "pin", "match", "match2", "repin", "preflight", "hook", "hooked",
           "method", "replied", "verify", "confirm", "over"}

Preflight == client.stage \in {"activate", "pin", "match", "match2", "repin", "preflight", "hook"}

-----------------------------------------------------------------------------
(* The service and the bus.                                                *)

(* The rule for notifications names the pinned instance as their sender.   *)
Heard(rule, message) ==
  IF rule \in rules /\ (rule = "properties" => instance = client.owner) THEN <<message>> ELSE <<>>

ForeignWrite(v) ==
  /\ writes < WritesMax /\ v # value
  /\ instance # 0 \/ births < InstancesMax
  /\ writes' = writes + 1
  /\ value' = v
  /\ IF instance # 0
     THEN /\ \E told \in {v, Unspecified} : wire' = wire \o Heard("properties", Changed(told))
          /\ UNCHANGED <<instance, births>>
     ELSE /\ births' = births + 1 /\ instance' = births'
          /\ UNCHANGED wire
  /\ contested' = (contested \/ (window = "open" /\ v # Target))
  /\ UNCHANGED <<rules, request, inbox, client, served, window, late>>

ToService == request \in {"preflight", "method", "verify"}

(* An instance exits, or dies with a request in hand.  The bus says first  *)
(* that the name is lost, then answers for it.                             *)
ServiceExits ==
  /\ instance # 0
  /\ instance' = 0
  /\ LET orphan == ToService /\ client.owner = instance IN
       /\ wire' = wire \o Heard("owner", OwnerLost) \o (IF orphan THEN <<Error("lost")>> ELSE <<>>)
       /\ request' = IF orphan THEN "none" ELSE request
       /\ served' = IF orphan /\ served = "asked" THEN "refused" ELSE served
  /\ UNCHANGED <<value, births, writes, rules, inbox, client, history>>

Send(message) == wire' = Append(wire, message) /\ request' = "none"
Answer(what)  == Send(Reply(what))
Refuse(what)  == Send(Error(what))

(* The bus answers for itself, and for an instance that is gone.           *)
BusAnswers ==
  /\ \/ /\ request \in {"pin", "repin", "confirm"}
        /\ IF instance = 0 THEN Refuse("lost") ELSE Answer(instance)
        /\ UNCHANGED <<rules, served>>
     \/ /\ request \in {"match", "match2"}
        /\ rules' = rules \cup {IF request = "match" THEN "properties" ELSE "owner"}
        /\ Answer("ok")
        /\ UNCHANGED served
     \/ /\ ToService /\ client.owner # instance
        /\ Refuse("lost")
        /\ served' = IF served = "asked" THEN "refused" ELSE served
        /\ UNCHANGED rules
  /\ UNCHANGED <<serviceVars, inbox, client, history>>

(* The first read may start the service.                                   *)
ServiceActivated ==
  /\ request = "activate"
  /\ instance # 0 \/ births < InstancesMax
  /\ IF instance = 0 THEN births' = births + 1 /\ instance' = births'
     ELSE UNCHANGED <<births, instance>>
  /\ Answer(value)
  /\ UNCHANGED <<value, writes, rules, inbox, client, served, history>>

ServiceReads ==
  /\ request \in {"preflight", "verify"} /\ client.owner = instance
  /\ Answer(value) \/ (\E refusal \in {"denied", "error"} : Refuse(refusal))
  /\ window' = IF request = "preflight" THEN "open" ELSE "closed"
  /\ UNCHANGED <<serviceVars, rules, inbox, client, served, contested, late>>

(* It announces a change before it answers for it.                         *)
ServiceApplies ==
  /\ request = "method" /\ client.owner = instance /\ served = "asked"
  /\ served' = "applied"
  /\ value' = Target
  /\ wire' = wire \o (IF value = Target THEN <<>> ELSE Heard("properties", Changed(Target)))
  /\ UNCHANGED <<instance, births, writes, rules, request, inbox, client, history>>

ServiceAnswers ==
  /\ request = "method" /\ client.owner = instance
  /\ IF served = "applied" THEN Answer("ok") /\ UNCHANGED served
     ELSE /\ \E refusal \in {"denied", "error"} : Refuse(refusal)
          /\ served' = "refused"
  /\ UNCHANGED <<serviceVars, rules, inbox, client, history>>

Arrive ==
  /\ wire # <<>>
  /\ inbox' = Append(inbox, Head(wire))
  /\ wire' = Tail(wire)
  /\ late' = (late \/ (client.stage \in {"hook", "hooked"} /\ Head(wire).type = "changed"))
  /\ UNCHANGED <<serviceVars, rules, request, client, served, window, contested>>

Service ==
  \/ \E v \in Values : ForeignWrite(v)
  \/ ServiceExits \/ BusAnswers \/ ServiceActivated \/ ServiceReads
  \/ ServiceApplies \/ ServiceAnswers \/ Arrive

-----------------------------------------------------------------------------
(* The client: a chain of callbacks, each of them run by the main loop.    *)

Ended(c, ending) == [c EXCEPT !.stage = "over", !.ending = ending]
Over(ending) == Ended(client, ending)

(* make_regional_preview and require_regional_generation: the generation   *)
(* is a digest of the state the user was shown.                            *)
StillConfirmed(v) == v = Confirmed

(* matches: the locale is compared by its effective values.                *)
Matches(v) == v = Target

(* Mutants: a lost service leaves no doubt; a notification is not compared *)
(* with the target.                                                        *)
OwnerGoneAsConflict(c) == Ended(c, "other")
DisturbsUnsent(c, message) == message.type = "changed" /\ ~ c.sent

(* owner_changed: the pinned instance is gone, and with it the answer.     *)
OwnerGone(c) == Ended(c, IF c.sent THEN "unknown" ELSE "other")

(* properties_changed: any change counts before the request, then those    *)
(* to another value.                                                       *)
Disturbs(c, message) == message.type = "changed" /\ (~ c.sent \/ ~ Matches(message.what))

Notified(c, message) ==
  IF message.type = "owner" THEN OwnerGone(c) ELSE [c EXCEPT !.dirty = @ \/ Disturbs(c, message)]

(* drain: what has already arrived is handled first, up to a limit.        *)
Drained(c, queue) ==
  LET handled == {queue[i] : i \in {j \in DOMAIN queue : j <= CallbackLimit}}
  IN IF \E m \in handled : m.type = "owner" THEN OwnerGone(c)
     ELSE IF Len(queue) > CallbackLimit THEN Ended(c, "other")
     ELSE [c EXCEPT !.dirty = @ \/ \E m \in handled : Disturbs(c, m)]

Settled(c) == IF c.stage # "over" /\ c.dirty THEN Ended(c, "other") ELSE c

Ask(what) == request' = what

NoteSignal ==
  /\ client.stage \notin {"over", "hook", "hooked", "replied"}
  /\ inbox # <<>> /\ Head(inbox).type \in {"changed", "owner"}
  /\ client' = Notified(client, Head(inbox))
  /\ inbox' = Tail(inbox)
  /\ UNCHANGED <<serviceVars, rules, request, wire, served, history>>

Got(what) == client.stage = what /\ inbox # <<>> /\ Head(inbox).type = "reply"
Answered  == Head(inbox).what
Consume   == inbox' = Tail(inbox)

(* bus_failure.  A request the bus lost track of may be a timeout.         *)
ErrorEndings ==
  CASE Answered = "denied" -> {"denied"}
    [] Answered = "error" -> {"other"}
    [] OTHER -> {"unknown", "other"}

GetsError ==
  /\ client.stage # "over"
  /\ inbox # <<>> /\ Head(inbox).type = "error"
  /\ \E ending \in ErrorEndings : client' = Over(ending)
  /\ Consume
  /\ UNCHANGED <<serviceVars, rules, request, wire, served, history>>

Goes(stage) == client' = [client EXCEPT !.stage = stage]

Activated ==
  /\ Got("activate")
  /\ Goes("pin") /\ Ask("pin") /\ Consume
  /\ UNCHANGED <<serviceVars, rules, wire, served, history>>

Pinned ==
  /\ Got("pin")
  /\ client' = [client EXCEPT !.stage = "match", !.owner = Answered]
  /\ Ask("match") /\ Consume
  /\ UNCHANGED <<serviceVars, rules, wire, served, history>>

MatchAdded ==
  /\ Got("match") \/ Got("match2")
  /\ LET next == IF client.stage = "match" THEN "match2" ELSE "repin" IN Goes(next) /\ Ask(next)
  /\ Consume
  /\ UNCHANGED <<serviceVars, rules, wire, served, history>>

Ready ==
  /\ Got("repin")
  /\ IF Answered = client.owner THEN Goes("preflight") /\ Ask("preflight")
     ELSE client' = Over("other") /\ UNCHANGED request
  /\ Consume
  /\ UNCHANGED <<serviceVars, rules, wire, served, history>>

(* preflight_read, up to the hook: the state is still the confirmed one,   *)
(* and nothing that has arrived speaks against it.                         *)
PreflightRead ==
  /\ Got("preflight")
  /\ IF ~ StillConfirmed(Answered) THEN client' = Over("other") /\ Consume
     ELSE /\ client' = Settled(Drained([client EXCEPT !.stage = "hook"], Tail(inbox)))
          /\ inbox' = <<>>
  /\ UNCHANGED <<serviceVars, rules, request, wire, served, history>>

(* before_send: the operation is admitted and on record, or it is not.     *)
BeforeSend ==
  /\ client.stage = "hook"
  /\ client' = [client EXCEPT !.stage = "hooked"] \/ client' = Over("unknown")
  /\ UNCHANGED <<serviceVars, rules, request, wire, inbox, served, history>>

DispatchAfter(c) ==
  /\ IF c.stage = "over" THEN client' = c /\ UNCHANGED <<request, served>>
     ELSE /\ client' = [c EXCEPT !.stage = "method", !.sent = TRUE]
          /\ Ask("method")
          /\ served' = "asked"
  /\ UNCHANGED <<serviceVars, rules, wire, history>>

(* Mutant: what arrived while the hook ran is left for later.              *)
DispatchUndrained ==
  /\ client.stage = "hooked"
  /\ UNCHANGED inbox
  /\ DispatchAfter(client)

(* The second drain, then the request with its authorization dialog.       *)
Dispatch ==
  /\ client.stage = "hooked"
  /\ inbox' = <<>>
  /\ DispatchAfter(Settled(Drained(client, inbox)))

MethodReplied ==
  /\ Got("method")
  /\ Goes("replied")
  /\ Consume
  /\ UNCHANGED <<serviceVars, rules, request, wire, served, history>>

AfterReply ==
  /\ client.stage = "replied"
  /\ \/ Goes("verify") /\ Ask("verify")
     \/ client' = Over("unknown") /\ UNCHANGED request
  /\ UNCHANGED <<serviceVars, rules, wire, inbox, served, history>>

Verified ==
  /\ Got("verify")
  /\ client' = [client EXCEPT !.stage = "confirm", !.dirty = @ \/ ~ Matches(Answered)]
  /\ Ask("confirm") /\ Consume
  /\ UNCHANGED <<serviceVars, rules, wire, served, history>>

Completed ==
  /\ Got("confirm")
  /\ client' = IF Answered # client.owner THEN Over("other")
               ELSE LET c == Settled(Drained(client, Tail(inbox))) IN
                      IF c.stage = "over" THEN c ELSE Ended(c, "verified")
  /\ inbox' = <<>>
  /\ UNCHANGED <<serviceVars, rules, request, wire, served, history>>

(* A deadline, a closed connection, or a local stop, in whatever stage.    *)
GiveUp ==
  /\ client.stage # "over"
  /\ client' = Over("unknown")
  /\ UNCHANGED <<serviceVars, rules, request, wire, inbox, served, history>>

Client ==
  \/ Activated \/ Pinned \/ MatchAdded \/ Ready \/ PreflightRead \/ BeforeSend
  \/ Dispatch \/ MethodReplied \/ AfterReply \/ Verified \/ Completed
  \/ NoteSignal \/ GetsError \/ GiveUp

Init ==
  /\ value \in Values /\ births = 0 /\ instance = 0 /\ writes = 0
  /\ rules = {} /\ request = "activate"
  /\ wire = <<>> /\ inbox = <<>>
  /\ client = [stage |-> "activate", owner |-> 0, sent |-> FALSE, dirty |-> FALSE, ending |-> "none"]
  /\ served = "untouched"
  /\ window = "before" /\ contested = FALSE /\ late = FALSE

Next == Service \/ Client

Spec == Init /\ [][Next]_vars

-----------------------------------------------------------------------------
(* Properties.                                                             *)

TypeOK ==
  /\ value \in Values /\ {instance, births} \subseteq 0 .. InstancesMax /\ writes \in 0 .. WritesMax
  /\ rules \subseteq {"properties", "owner"}
  /\ request \in Stages \cup {"none"}
  /\ client.stage \in Stages /\ client.owner \in 0 .. InstancesMax
  /\ client.sent \in BOOLEAN /\ client.dirty \in BOOLEAN
  /\ client.ending \in {"verified", "denied", "unknown", "other"} \/ client.stage # "over"
  /\ served \in {"untouched", "asked", "applied", "refused"}

(* A change reported as verified was made, and between the state the user  *)
(* confirmed and the state read back nobody wrote another value: not while *)
(* the operation was put on record, not while authorization was asked for, *)
(* not between the service's answer and the verifying read (dirty).        *)
SuccessIsUncontested ==
  client.ending = "verified" => served = "applied" /\ ~ contested

(* A change that reaches the client while its operation is being put on    *)
(* record keeps the request from being sent (the second drain).            *)
NothingSentBlindly == late => ~ client.sent

(* The client takes the steps RegionalCall allows: a request goes out only *)
(* after its hook, and an ending other than "unknown" leaves nothing under *)
(* way.                                                                    *)
Stage ==
  CASE Preflight -> "preflight"
    [] client.stage = "hooked" -> "ready"
    [] client.stage = "method" -> "sent"
    [] client.stage = "over" -> "over"
    [] OTHER -> "accepted"

RC   == INSTANCE RegionalCall
call == [at |-> Stage, service |-> served, ending |-> client.ending]

CallSpec == call = RC!NewCall /\ [][call' \in RC!Successors(call)]_call
=============================================================================
