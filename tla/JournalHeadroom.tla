---------------------------- MODULE JournalHeadroom ----------------------------
(***************************************************************************)
(* How many commits one operation may spend on each path of the journal.   *)
(* A frame's sequence is 64 bits wide and never wraps, so                  *)
(* prepare_journal_admission admits an operation only while every control  *)
(* path has room for JOURNAL_CONTROL_ADMISSION_COMMITS more commits.       *)
(***************************************************************************)
EXTENDS OperationJournal

VARIABLE spent  \* commits of each path since the operation was admitted

Paths == {"active", "restart", "handoff", "cursor", "terminals"}

Reserved ==
  [path \in Paths |-> CASE path = "active"    -> 12
                        [] path = "restart"   -> 3
                        [] path = "handoff"   -> 2
                        [] path = "cursor"    -> 1
                        [] path = "terminals" -> 1]

HInit == Init /\ spent = [path \in Paths |-> 0]

(* A handler commits a path only when its payload changes.                 *)
Commits(path) == IF journal'[path] # journal[path] THEN 1 ELSE 0

Admitted == journal.active = None /\ journal'.active # None

HNext ==
  /\ Next
  /\ spent' = [path \in Paths |->
                 IF Admitted THEN Commits(path) ELSE spent[path] + Commits(path)]

HSpec == HInit /\ [][HNext]_<<vars, spent>>

(* From its admission to its acknowledgement, killed and recovered any     *)
(* number of times, an operation keeps within the commits reserved for it  *)
(* on the active, handoff and cursor paths and on its slot.  The restart   *)
(* path is not among them: each bucket may be pruned there once, the new   *)
(* contribution applied, and, if the completion is killed after that, that *)
(* pruned too, which makes four against the three reserved.                *)
WithinReserve ==
  \A path \in Paths \ {"restart"} : spent[path] <= Reserved[path]
=============================================================================
