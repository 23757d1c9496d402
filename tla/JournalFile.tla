----------------------------- MODULE JournalFile -----------------------------
(***************************************************************************)
(* One path of the durable operation journal: a file of two fixed-size     *)
(* frames, each carrying a sequence number, a payload and a digest, as     *)
(* operation_journal.py reads and commits it.                              *)
(*                                                                         *)
(* Every process that opens the journal sees the file through the page     *)
(* cache (cache); what survives a power loss is the disk copy (disk).  A   *)
(* commit is several system calls - read and select, pwrite, fsync,        *)
(* read back - done under the directory's flock, and a process may be      *)
(* killed, or a call may fail, between any two of them.                    *)
(***************************************************************************)
EXTENDS Integers

CONSTANTS
  Procs,        \* processes that open the journal
  Payloads,     \* payloads a commit may write
  Initial,      \* payload of the freshly created file
  SequenceMax,  \* JOURNAL_SEQUENCE_MAX (2^64 - 1 in shared.py)
  Faults        \* which of AllFaults the environment may inject

AllFaults == {"kill", "short", "fsync", "power"}

ASSUME InitialAssumption  == Initial \in Payloads
ASSUME SequenceAssumption == SequenceMax \in Nat /\ SequenceMax > 2
ASSUME FaultsAssumption   == Faults \subseteq AllFaults

VARIABLES
  cache,   \* the two frames as pread returns them
  disk,    \* the two frames as they would be found after a power loss
  dirty,   \* frames whose pages the kernel still has to write back
  pc,      \* pc[p]: where process p is in a read or a commit
  staged,  \* staged[p]: the index and frame p's commit wrote
  snap,    \* snap[p]: the first frame of the image p is reading
  settled  \* the newest frame a returned commit or a power cycle left on disk

vars == <<cache, disk, dirty, pc, staged, snap, settled>>

Slots == 0 .. 1

(* A frame that decode_journal_frame rejects - zeroes, a torn write - has  *)
(* sequence 0, which no valid frame carries.                               *)
Frames  == [seq : 0 .. SequenceMax, payload : Payloads]
Invalid == [seq |-> 0, payload |-> Initial]
Valid(frame) == frame.seq > 0

-----------------------------------------------------------------------------
(* select_journal_frame: the valid frame with the higher sequence.         *)

Conflicting(image) ==
  /\ Valid(image[0])
  /\ image[0].seq = image[1].seq
  /\ image[0] # image[1]

SelectedIndex(image) == IF image[1].seq > image[0].seq THEN 1 ELSE 0

Selected(image) == image[SelectedIndex(image)]

(* Mutant: the exhausted sequence is not refused.                          *)
SelectableExhausted(image) ==
  (Valid(image[0]) \/ Valid(image[1])) /\ ~ Conflicting(image)

Selectable(image) ==
  /\ Valid(image[0]) \/ Valid(image[1])
  /\ ~ Conflicting(image)
  /\ Selected(image).seq < SequenceMax

(* Mutants: the successor reuses the sequence, or lands on the live frame. *)
NextFrameReused(image, payload) == [seq |-> Selected(image).seq, payload |-> payload]
NextIndexLive(image) == SelectedIndex(image)

(* What a commit of payload writes: the successor, into the other frame.   *)
NextFrame(image, payload) == [seq |-> Selected(image).seq + 1, payload |-> payload]
NextIndex(image) == 1 - SelectedIndex(image)

-----------------------------------------------------------------------------
Staged == [index : Slots, frame : Frames]

TypeOK ==
  /\ cache \in [Slots -> Frames]
  /\ disk  \in [Slots -> Frames]
  /\ dirty \subseteq Slots
  /\ pc \in [Procs -> {"idle", "locked", "written", "synced", "reading", "half"}]
  /\ staged \in [Procs -> Staged]
  /\ snap \in [Procs -> Frames]
  /\ settled \in Frames

(* _initialize_journal_file_unlocked: sequence one and a zero frame, synced. *)
InitialImage == [i \in Slots |-> IF i = 0 THEN [seq |-> 1, payload |-> Initial]
                                          ELSE Invalid]

Nothing == [index |-> 0, frame |-> Invalid]

Init ==
  /\ cache = InitialImage
  /\ disk = InitialImage
  /\ dirty = {}
  /\ pc = [p \in Procs |-> "idle"]
  /\ staged = [p \in Procs |-> Nothing]
  /\ snap = [p \in Procs |-> Invalid]
  /\ settled = InitialImage[0]

-----------------------------------------------------------------------------
(* _journal_lock: flock on the directory.  A process that meets the        *)
(* deadline gives up with JournalLockError and changes nothing.            *)

Exclusive(p) == pc[p] \in {"locked", "written", "synced"}

(* Mutant: a writer does not wait for the readers.                         *)
LockExclusiveBesideReaders(p) ==
  /\ pc[p] = "idle"
  /\ \A q \in Procs : ~ Exclusive(q)
  /\ pc' = [pc EXCEPT ![p] = "locked"]
  /\ UNCHANGED <<cache, disk, dirty, staged, snap, settled>>

LockExclusive(p) ==
  /\ pc[p] = "idle"
  /\ \A q \in Procs : pc[q] = "idle"
  /\ pc' = [pc EXCEPT ![p] = "locked"]
  /\ UNCHANGED <<cache, disk, dirty, staged, snap, settled>>

LockShared(p) ==
  /\ pc[p] = "idle"
  /\ \A q \in Procs : ~ Exclusive(q)
  /\ pc' = [pc EXCEPT ![p] = "reading"]
  /\ UNCHANGED <<cache, disk, dirty, staged, snap, settled>>

(* The with-block ends: its locals are gone and the flock is released.     *)
Release(p) ==
  /\ pc' = [pc EXCEPT ![p] = "idle"]
  /\ staged' = [staged EXCEPT ![p] = Nothing]
  /\ snap' = [snap EXCEPT ![p] = Invalid]

(* _read_journal_image: the image is read front to back.                   *)
ReadFirstFrame(p) ==
  /\ pc[p] = "reading"
  /\ snap' = [snap EXCEPT ![p] = cache[0]]
  /\ pc' = [pc EXCEPT ![p] = "half"]
  /\ UNCHANGED <<cache, disk, dirty, staged, settled>>

ReadSecondFrame(p) ==
  /\ pc[p] = "half"
  /\ Release(p)
  /\ UNCHANGED <<cache, disk, dirty, settled>>

(* _commit_journal_file_unlocked, first half: select, encode, pwrite.      *)
WriteFrame(p, payload) ==
  /\ pc[p] = "locked"
  /\ Selectable(cache)
  /\ cache' = [cache EXCEPT ![NextIndex(cache)] = NextFrame(cache, payload)]
  /\ dirty' = dirty \cup {NextIndex(cache)}
  /\ staged' = [staged EXCEPT ![p] = [index |-> NextIndex(cache),
                                      frame |-> NextFrame(cache, payload)]]
  /\ pc' = [pc EXCEPT ![p] = "written"]
  /\ UNCHANGED <<disk, snap, settled>>

(* A pwrite that stops short, or whose process dies in it, may leave the   *)
(* frame torn.                                                             *)
ShortWriteTorn(p) ==
  /\ Faults \cap {"short", "kill"} # {}
  /\ pc[p] = "locked"
  /\ Selectable(cache)
  /\ cache' = [cache EXCEPT ![NextIndex(cache)] = Invalid]
  /\ dirty' = dirty \cup {NextIndex(cache)}
  /\ Release(p)
  /\ UNCHANGED <<disk, settled>>

(* It may also stop in the zeros that pad the payload.  The frame is then  *)
(* whole and the newest, decode_journal_frame accepts it, and              *)
(* JournalCommitError is raised before any fsync.                          *)
ShortWriteWhole(p) ==
  /\ "short" \in Faults
  /\ pc[p] = "written"
  /\ Release(p)
  /\ UNCHANGED <<cache, disk, dirty, settled>>

(* select_journal_frame raises - no frame to succeed, or an exhausted one - *)
(* or pwrite does, with nothing written.                                   *)
GiveUp(p) ==
  /\ pc[p] = "locked"
  /\ ~ Selectable(cache) \/ "short" \in Faults
  /\ Release(p)
  /\ UNCHANGED <<cache, disk, dirty, settled>>

(* Mutant: a commit that does not wait for the disk.                       *)
FsyncSkipped(p) ==
  /\ pc[p] = "written"
  /\ pc' = [pc EXCEPT ![p] = "synced"]
  /\ UNCHANGED <<cache, disk, dirty, staged, snap, settled>>

(* os.fsync returns: every frame the kernel still owed is on the disk.     *)
Fsync(p) ==
  /\ pc[p] = "written"
  /\ disk' = [i \in Slots |-> IF i \in dirty THEN cache[i] ELSE disk[i]]
  /\ dirty' = {}
  /\ pc' = [pc EXCEPT ![p] = "synced"]
  /\ UNCHANGED <<cache, staged, snap, settled>>

(* Where an interrupted write-back may leave the dirty frames: as before,  *)
(* torn, or as written.                                                    *)
FlushOutcomes ==
  {image \in [Slots -> {disk[0], disk[1], cache[0], cache[1], Invalid}] :
     \A i \in Slots : \/ image[i] = disk[i]
                      \/ i \in dirty /\ image[i] \in {Invalid, cache[i]}}

(* os.fsync raises: the pages are clean to the kernel, the disk unknown,   *)
(* the new frame authoritative in the cache, the commit "indeterminate".   *)
FsyncFails(p) ==
  /\ "fsync" \in Faults
  /\ pc[p] = "written"
  /\ disk' \in FlushOutcomes
  /\ dirty' = {}
  /\ Release(p)
  /\ UNCHANGED <<cache, settled>>

(* The read-back matches and the new frame is the selected one.            *)
Readback(p) ==
  /\ cache[staged[p].index] = staged[p].frame
  /\ Selectable(cache)
  /\ SelectedIndex(cache) = staged[p].index

(* _commit_journal_file_unlocked, second half; the lock is released.       *)
CommitReturns(p) ==
  /\ pc[p] = "synced"
  /\ Readback(p)
  /\ settled' = staged[p].frame
  /\ Release(p)
  /\ UNCHANGED <<cache, disk, dirty>>

CommitIndeterminate(p) ==
  /\ pc[p] = "synced"
  /\ ~ Readback(p)
  /\ Release(p)
  /\ UNCHANGED <<cache, disk, dirty, settled>>

-----------------------------------------------------------------------------
(* The environment.                                                        *)

(* The process dies; the kernel drops its flock and keeps its pages.       *)
Kill(p) ==
  /\ "kill" \in Faults
  /\ pc[p] # "idle"
  /\ Release(p)
  /\ UNCHANGED <<cache, disk, dirty, settled>>

(* The kernel writes a dirty frame back in its own time.                   *)
Writeback ==
  \E i \in dirty :
    /\ disk' = [disk EXCEPT ![i] = cache[i]]
    /\ dirty' = dirty \ {i}
    /\ UNCHANGED <<cache, pc, staged, snap, settled>>

(* The machine loses power: the cache restarts from the disk.              *)
PowerLoss ==
  /\ "power" \in Faults
  /\ disk' \in FlushOutcomes
  /\ cache' = disk'
  /\ dirty' = {}
  /\ pc' = [p \in Procs |-> "idle"]
  /\ staged' = [p \in Procs |-> Nothing]
  /\ snap' = [p \in Procs |-> Invalid]
  /\ settled' = IF Selected(disk').seq > settled.seq THEN Selected(disk') ELSE settled

Steps ==
  \/ \E p \in Procs :
       \/ LockExclusive(p)
       \/ LockShared(p)
       \/ ReadFirstFrame(p)
       \/ ReadSecondFrame(p)
       \/ \E payload \in Payloads : WriteFrame(p, payload)
       \/ GiveUp(p)
       \/ Fsync(p)
       \/ CommitReturns(p)
       \/ CommitIndeterminate(p)
  \/ Writeback

(* What may go wrong with a process and its calls.                         *)
Crash ==
  \E p \in Procs : ShortWriteTorn(p) \/ ShortWriteWhole(p) \/ FsyncFails(p) \/ Kill(p)

Next == Steps \/ Crash \/ PowerLoss

Spec == Init /\ [][Next]_vars

-----------------------------------------------------------------------------
(* The two frames never carry one sequence with different bytes, in the    *)
(* cache or on the disk, whatever fails: the error branch of               *)
(* select_journal_frame that would close the journal for good is never     *)
(* taken on a file this code wrote.                                        *)
NoConflictingFrames == ~ Conflicting(cache) /\ ~ Conflicting(disk)

(* A commit that returned is never lost: the file always has a valid frame *)
(* and the selected one is the last acknowledged commit or a later one.    *)
(* This is what complete_journal_terminal promises its callers: every      *)
(* return implies that the commit was synced.                              *)
CommittedSurvives ==
  /\ Valid(Selected(cache))
  /\ settled.seq <= Selected(cache).seq
  /\ settled.seq = Selected(cache).seq => settled = Selected(cache)

(* A process that loads the journal under the shared lock sees an image    *)
(* the file really had: no commit lands between its two halves.            *)
ReadersSeeWholeImage == \A p \in Procs : pc[p] = "half" => snap[p] = cache[0]

(* The file implements an atomic cell: a commit takes effect at once, and  *)
(* only an acknowledged value, or the one being written, is there after a  *)
(* power loss.                                                             *)
Cell == INSTANCE DurableCell WITH
          value    <- Selected(cache).payload,
          promised <- settled.payload,
          open     <- \E p \in Procs : pc[p] \in {"written", "synced"}

CellSpec == Cell!Spec
=============================================================================
