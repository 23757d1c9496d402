---------------------------- MODULE MCJournalFile ----------------------------
(* Model checking JournalFile.  In one world processes die and writes and  *)
(* fsyncs fail, in another the machine loses power; what the two do        *)
(* together is the world of the writer that never reached its fsync.       *)
EXTENDS JournalFile

CONSTANT Worlds  \* what may break together

VARIABLE world  \* what may break in this behaviour, chosen once

WorldInit == Init /\ world \in Worlds

WorldNext ==
  /\ UNCHANGED world
  /\ \/ Steps
     \/ "processes" \in world /\ Crash
     \/ "power" \in world /\ PowerLoss

WorldSpec == WorldInit /\ [][WorldNext]_<<vars, world>>
=============================================================================
