---------------------------- MODULE RegionalCall ----------------------------
(***************************************************************************)
(* What the owner of a regional change may rely on: the stages its service *)
(* client (RegionalMutation) passes through, and what each of its endings  *)
(* says about the service.  The journal's side of the operation is built   *)
(* on these steps alone, and RegionalMutation is shown to take no other.   *)
(***************************************************************************)

Stages  == {"preflight", "ready", "sent", "accepted", "over"}
Service == {"untouched", "asked", "applied", "refused"}

(* verified: the confirmed value was read back.  denied: the authorization *)
(* was refused.  unknown: a timeout, a lost service or bus, a local stop.  *)
(* other: every other failure.                                             *)
Endings == {"none", "verified", "denied", "unknown", "other"}

Calls    == [at : Stages, service : Service, ending : Endings]
NewCall  == [at |-> "preflight", service |-> "untouched", ending |-> "none"]

Over(call, ending) == [call EXCEPT !.at = "over", !.ending = ending]

(* Endings of a call before its request is answered, or after.             *)
MayEnd(call) ==
  CASE call.at \in {"preflight", "ready"} -> {"unknown", "other"} \cup
         (IF call.at = "preflight" THEN {"denied"} ELSE {})
    [] call.at = "sent" -> {"unknown"} \cup
         (IF call.service = "asked" THEN {} ELSE {"other"}) \cup
         (IF call.service = "refused" THEN {"denied"} ELSE {})
    [] call.at = "accepted" -> {"verified", "unknown", "other", "denied"}
    [] OTHER -> {}

(* The service acts on a request it was sent, even one nobody waits for.   *)
Serves(call) ==
  IF call.service = "asked"
  THEN {[call EXCEPT !.service = answer] : answer \in {"applied", "refused"}}
  ELSE {}

Proceeds(call) ==
  CASE call.at = "preflight" -> {[call EXCEPT !.at = "ready"]}
    [] call.at = "ready" -> {[call EXCEPT !.at = "sent", !.service = "asked"]}
    [] call.at = "sent" /\ call.service = "applied" -> {[call EXCEPT !.at = "accepted"]}
    [] OTHER -> {}

Successors(call) ==
  Serves(call) \cup Proceeds(call) \cup {Over(call, ending) : ending \in MayEnd(call)}
=============================================================================
