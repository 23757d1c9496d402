---------------------------- MODULE JournalLayout ----------------------------
(***************************************************************************)
(* The first start of the durable journal: initialize_journal_layout of    *)
(* operation_journal.py, which every admitting command runs before it      *)
(* opens the journal.  Under the directory's exclusive flock it creates    *)
(* the data paths one by one and the cursor last, or finishes what an      *)
(* interrupted predecessor left, possibly one of an earlier boot.          *)
(*                                                                         *)
(* A file is the sequence of cells an interrupted write can stop between:  *)
(* the first frame's header, the two halves of its digest and of its       *)
(* payload, and the second frame.  Only the restart path's first payload   *)
(* depends on the boot.  As in JournalFile the kernel's view of a file     *)
(* (cache) and what the disk holds differ until it is synced; so do the    *)
(* directory's entries (listed, entered).                                  *)
(***************************************************************************)
EXTENDS Integers, Sequences, FiniteSetsExt, SequencesExt

CONSTANTS
  DataNames,   \* JOURNAL_DATA_NAMES: the paths before the cursor, in order
  BootMax,     \* boots of one behaviour
  Faults       \* which of AllFaults the environment may inject

(* "tear": a pwrite stops early.  "orphan": power fails before the kernel   *)
(* wrote back what an interrupted initialization left.  "stale": a new boot *)
(* begins while the restart path is half one boot's image, half another's.  *)
(* "blank": power fails when a new file's size, and none of its bytes, has  *)
(* reached the disk.                                                       *)
AllFaults == {"kill", "tear", "fsync", "directory", "power", "orphan", "stale", "blank"}

Restart == "restart"
Cursor  == "cursor"

ASSUME DataNamesAssumption ==
  /\ DataNames \in Seq(STRING) /\ IsInjective(DataNames)
  /\ Contains(DataNames, Restart) /\ ~ Contains(DataNames, Cursor)
ASSUME BootAssumption   == BootMax \in Nat \ {0}
ASSUME FaultsAssumption == Faults \subseteq AllFaults

VARIABLES
  cache,      \* cache[n]: the cells of path n as pread returns them
  disk,       \* disk[n]: the cells a power loss would leave
  listed,     \* paths the directory shows
  entered,    \* paths whose directory entry is on the disk
  narrow,     \* paths whose mode the umask left narrower than 0600
  pc,         \* where the process holding the exclusive flock is
  path,       \* the path it is at
  boot,       \* the running boot; its id is in the restart path's payload
  ready,      \* a command of this boot has had its initialization return
  committed   \* paths that took a commit which returned

vars == <<cache, disk, listed, entered, narrow, pc, path, boot, ready, committed>>
files == <<cache, disk, listed, entered, narrow>>

Names == Range(DataNames) \cup {Cursor}
Boots == 1 .. BootMax

-----------------------------------------------------------------------------
(* Images.                                                                 *)

Cell(kind, first, second) == [kind |-> kind, of |-> <<first, second>>]

Header == Cell("header", 0, 0)    \* of a frame with sequence one
Zero   == Cell("zero", 0, 0)      \* the empty second frame, or torn bytes
Newer  == Cell("newer", 0, 0)     \* part of a first frame a commit wrote
Second == Cell("second", 0, 0)    \* a valid second frame
Torn   == Cell("torn", 0, 0)      \* a second frame cut short

Half(p)      == Cell("half", p, p)
Digest(p, q) == Cell("digest", p, q)   \* of the payload of halves p and q

FrameEnd == 5   \* cells of the first frame
Full     == 6   \* cells of a file of JOURNAL_FILE_SIZE

(* initial_journal_image of the payload whose halves name p and q.         *)
Image(p, q) == <<Header, Digest(p, q), Digest(p, q), Half(p), Half(q), Zero>>

(* _initial_journal_payloads: only restart carries the boot.               *)
Expected(name, b) == IF name = Restart THEN Image(b, b) ELSE Image(0, 0)

Zeros(count) == [i \in 1 .. count |-> Zero]

(* What is left of expected when its write over image stopped after cut.    *)
Overlaid(image, new, cut) == SubSeq(new, 1, cut) \o SubSeq(image, cut + 1, Len(image))

InitialFrame(image) ==
  /\ Len(image) >= FrameEnd
  /\ image[1] = Header
  /\ image[4].kind = "half" /\ image[5].kind = "half"
  /\ \A i \in 2 .. 3 : image[i] = Digest(image[4].of[1], image[5].of[1])

(* select_journal_frame: one of the two frames decodes.                    *)
Decodes(image) ==
  /\ Len(image) = Full
  /\ \/ InitialFrame(image)
     \/ \A i \in 1 .. FrameEnd : image[i] = Newer
     \/ image[Full] = Second

(* _is_safe_initial_fragment: a prefix of the expected image, or its first *)
(* bytes followed by zeros.                                                *)
PlainFragment(image, expected) ==
  \/ IsPrefix(image, expected)
  \/ \E cut \in 1 .. Full : image = SubSeq(expected, 1, cut) \o Zeros(Full - cut)

(* _is_safe_restart_initial_fragment: the beginning of an all-clear record *)
(* of any boot.                                                            *)
RestartFragment(image) ==
  IF Len(image) <= 1 THEN IsPrefix(image, <<Header>>)
  ELSE /\ image[1] = Header
       /\ \A i \in 4 .. Min({FrameEnd, Len(image)}) : image[i].kind = "half"
       /\ Len(image) >= FrameEnd => InitialFrame(image)
       /\ Len(image) = Full => image[Full] = Zero

(* _is_safe_restart_rewrite_fragment: expected up to some cut, and from    *)
(* there the all-clear image of the payload found.                         *)
RewriteFragment(image, expected) ==
  /\ Len(image) >= FrameEnd
  /\ image[4].kind = "half" /\ image[5].kind = "half"
  /\ LET previous == Image(image[4].of[1], image[5].of[1])
     IN \E cut \in 0 .. Len(image) :
          image = Overlaid(SubSeq(previous, 1, Len(image)), expected, cut)

(* image.rstrip(b"\0")                                                     *)
Solid(image) == SubSeq(image, 1, Max({0} \cup {i \in 1 .. Len(image) : image[i] # Zero}))

(* Mutant: a restart image two boots wrote is not recognized.              *)
SafeFragmentOfOneBoot(name, image, expected) ==
  \/ PlainFragment(image, expected)
  \/ name = Restart /\ RestartFragment(Solid(image))

(* _is_safe_initial_path_fragment                                          *)
SafeFragment(name, image, expected) ==
  \/ PlainFragment(image, expected)
  \/ /\ name = Restart
     /\ Len(image) = Full => image[Full] = Zero /\ Solid(image) # <<>>
     /\ IF Len(image) = Full /\ Len(Solid(image)) < FrameEnd
        THEN RestartFragment(Solid(image))
        ELSE RestartFragment(image) \/ RewriteFragment(image, expected)

-----------------------------------------------------------------------------
TypeOK ==
  /\ \A n \in Names : Len(cache[n]) <= Full /\ Len(disk[n]) <= Full
  /\ entered \subseteq listed /\ listed \subseteq Names
  /\ narrow \subseteq {n \in listed : cache[n] = <<>>}
  /\ pc \in {"idle", "repair", "paths", "blank", "write", "written", "settle", "confirm"}
  /\ path \in Names
  /\ boot \in Boots
  /\ ready \in BOOLEAN
  /\ committed \subseteq Names
  /\ pc \in {"blank", "write", "written"} => path \in listed

Init ==
  /\ cache = [n \in Names |-> <<>>]
  /\ disk = cache
  /\ listed = {} /\ entered = {} /\ narrow = {} /\ committed = {}
  /\ pc = "idle" /\ path = DataNames[1]
  /\ boot = 1
  /\ ready = FALSE

-----------------------------------------------------------------------------
(* initialize_journal_layout, until it has read every path.                *)

CursorReads == Cursor \in listed /\ cache[Cursor] # <<>>

CursorWhole == CursorReads /\ Decodes(cache[Cursor])

(* cursor_present: an initial image, or one that is no fragment of it and   *)
(* decodes.                                                                *)
CursorPresent ==
  /\ CursorWhole
  /\ cache[Cursor] = Expected(Cursor, boot) \/ ~ PlainFragment(cache[Cursor], Expected(Cursor, boot))

Recoverable(name) ==
  name \in listed => SafeFragment(name, cache[name], Expected(name, boot))

(* An empty path of a narrower mode is opened only to be repaired.         *)
Opens(name) == name \in listed \ narrow

(* Neither branch raises "not recoverable", "missing after cursor" or       *)
(* "malformed", which would change nothing and end the command.            *)
Accepts ==
  IF CursorPresent
  THEN \A n \in Range(DataNames) : Opens(n) /\ Decodes(cache[n])
  ELSE \A n \in Names : Recoverable(n)

(* Mutant: a cursor that reads well is taken as durably entered.           *)
BeginTrusting ==
  /\ pc = "idle"
  /\ Accepts
  /\ IF CursorPresent
     THEN ready' = TRUE /\ UNCHANGED pc
     ELSE pc' = "repair" /\ UNCHANGED ready
  /\ path' = DataNames[1]
  /\ UNCHANGED <<files, boot, committed>>

Begin ==
  /\ pc = "idle"
  /\ Accepts
  /\ pc' = IF CursorPresent THEN "confirm" ELSE "repair"
  /\ path' = DataNames[1]
  /\ UNCHANGED <<files, boot, ready, committed>>

(* _repair_empty_journal_path_mode_unlocked, one path after the other.     *)
RepairMode ==
  /\ pc = "repair"
  /\ IF narrow = {} THEN pc' = "paths" /\ UNCHANGED narrow
     ELSE (\E n \in narrow : narrow' = narrow \ {n}) /\ UNCHANGED pc
  /\ UNCHANGED <<cache, disk, listed, entered, path, boot, ready, committed>>

-----------------------------------------------------------------------------
(* The data paths in order, the directory, the cursor, the directory.      *)

(* Mutant: the cursor is created without waiting for the directory.        *)
AdvanceUnsettled ==
  IF path = Cursor THEN pc' = "confirm" /\ UNCHANGED path
  ELSE /\ pc' = "paths"
       /\ path' = IF path = Last(DataNames) THEN Cursor
                  ELSE DataNames[CHOOSE i \in 2 .. Len(DataNames) : DataNames[i - 1] = path]

Advance ==
  CASE path = Cursor          -> pc' = "confirm" /\ UNCHANGED path
    [] path = Last(DataNames) -> pc' = "settle"  /\ UNCHANGED path
    [] OTHER -> /\ pc' = "paths"
                /\ path' = DataNames[CHOOSE i \in 2 .. Len(DataNames) : DataNames[i - 1] = path]

(* _create_journal_path_unlocked, O_CREAT | O_EXCL under any umask.        *)
CreatePath ==
  /\ pc = "paths"
  /\ path \notin listed
  /\ listed' = listed \cup {path}
  /\ narrow' \in {narrow, narrow \cup {path}}
  /\ pc' = "blank"
  /\ UNCHANGED <<cache, disk, entered, path, boot, ready, committed>>

(* os.fchmod(descriptor, 0o600)                                            *)
ChangeMode ==
  /\ pc = "blank"
  /\ narrow' = narrow \ {path}
  /\ pc' = "write"
  /\ UNCHANGED <<cache, disk, listed, entered, path, boot, ready, committed>>

(* _rewrite_initial_journal_path_unlocked, until its pwrite.               *)
RewritePath ==
  /\ pc = "paths"
  /\ path \in listed
  /\ cache[path] # Expected(path, boot)
  /\ pc' = "write"
  /\ UNCHANGED <<files, path, boot, ready, committed>>

(* The path already reads as expected: it is not written, and not synced.  *)
KeepPath ==
  /\ pc = "paths"
  /\ path \in listed
  /\ cache[path] = Expected(path, boot)
  /\ Advance
  /\ UNCHANGED <<files, boot, ready, committed>>

WriteImage ==
  /\ pc = "write"
  /\ cache' = [cache EXCEPT ![path] = Overlaid(@, Expected(path, boot), Full)]
  /\ pc' = "written"
  /\ UNCHANGED <<disk, listed, entered, narrow, path, boot, ready, committed>>

(* The pwrite is short, or its process is killed in it.                    *)
TearImage ==
  /\ "tear" \in Faults
  /\ pc = "write"
  /\ \E cut \in 0 .. Full - 1 :
       cache' = [cache EXCEPT ![path] = Overlaid(@, Expected(path, boot), cut)]
  /\ pc' = "idle"
  /\ UNCHANGED <<disk, listed, entered, narrow, path, boot, ready, committed>>

(* os.fsync(descriptor); the read-back under the lock finds what was written. *)
SyncPath ==
  /\ pc = "written"
  /\ disk' = [disk EXCEPT ![path] = cache[path]]
  /\ Advance
  /\ UNCHANGED <<cache, listed, entered, narrow, boot, ready, committed>>

SyncPathFails ==
  /\ "fsync" \in Faults
  /\ pc = "written"
  /\ pc' = "idle"
  /\ UNCHANGED <<files, path, boot, ready, committed>>

(* os.fsync(directory_descriptor) between the data paths and the cursor,   *)
(* then the data paths must read as initial.                               *)
SyncData ==
  /\ pc = "settle"
  /\ entered' = listed
  /\ pc' = "paths"
  /\ path' = Cursor
  /\ \A n \in Range(DataNames) : cache[n] = Expected(n, boot)
  /\ UNCHANGED <<cache, disk, listed, narrow, boot, ready, committed>>

(* The last os.fsync(directory_descriptor), of either branch.              *)
SyncLayout ==
  /\ pc = "confirm"
  /\ entered' = listed
  /\ ready' = TRUE
  /\ pc' = "idle"
  /\ UNCHANGED <<cache, disk, listed, narrow, path, boot, committed>>

SyncDirectoryFails ==
  /\ "directory" \in Faults
  /\ pc \in {"settle", "confirm"}
  /\ pc' = "idle"
  /\ UNCHANGED <<files, path, boot, ready, committed>>

-----------------------------------------------------------------------------
(* The commands that had their initialization return commit to the paths;  *)
(* JournalFile is about how.  A first commit goes to the second frame, the *)
(* next one to the first; a killed one leaves its frame torn.              *)

Staged(image, whole) ==
  IF image[Full] # Second
  THEN [image EXCEPT ![Full] = IF whole THEN Second ELSE Torn]
  ELSE [i \in 1 .. Full |-> IF i = 1 \/ (i < Full /\ whole) THEN Newer ELSE image[i]]

Commit(name, whole) ==
  /\ ready
  /\ pc = "idle"
  /\ Decodes(cache[name])
  /\ cache' = [cache EXCEPT ![name] = Staged(@, whole)]
  /\ disk' = [disk EXCEPT ![name] = cache'[name]]
  /\ committed' = IF whole THEN committed \cup {name} ELSE committed
  /\ UNCHANGED <<listed, entered, narrow, pc, path, boot, ready>>

-----------------------------------------------------------------------------
(* The environment.                                                        *)

Kill ==
  /\ "kill" \in Faults
  /\ pc # "idle"
  /\ pc' = "idle"
  /\ UNCHANGED <<files, path, boot, ready, committed>>

(* The kernel writes a file, or the directory, back in its own time.       *)
Writeback ==
  /\ \/ /\ \E n \in Names : disk' = [disk EXCEPT ![n] = cache[n]]
        /\ UNCHANGED entered
     \/ /\ entered' = listed
        /\ UNCHANGED disk
  /\ UNCHANGED <<cache, listed, narrow, pc, path, boot, ready, committed>>

(* The image of one boot over that of another: neither initial, nor the    *)
(* beginning of it.                                                        *)
Mixed(image) ==
  /\ Len(image) >= FrameEnd
  /\ image[1] = Header
  /\ image[4].kind = "half" /\ image[5].kind = "half"
  /\ ~ InitialFrame(image)

NewBoot ==
  /\ boot < BootMax
  /\ boot' = boot + 1
  /\ Mixed(disk'[Restart]) => "stale" \in Faults
  /\ ready' = FALSE
  /\ pc' = "idle"
  /\ UNCHANGED <<path, committed>>

Reboot ==
  /\ disk' = cache
  /\ entered' = listed
  /\ NewBoot
  /\ UNCHANGED <<cache, listed, narrow>>

(* What of an unsynced file a power loss may leave: a part of the write, a  *)
(* file whose size grew before its bytes came showing zeros after it, or   *)
(* zeros alone.                                                            *)
Remains(name) ==
  {Overlaid(disk[name], cache[name], cut) : cut \in 0 .. Len(cache[name])}
  \cup {SubSeq(cache[name], 1, cut) \o Zeros(Full - cut) :
          cut \in IF Len(disk[name]) < Full THEN 1 .. Len(cache[name]) ELSE {}}
  \cup {image \in {Zeros(Full)} : "blank" \in Faults /\ disk[name] = <<>>}

Unsynced == {n \in listed : disk[n] # cache[n]}

(* Files an interrupted initialization wrote and nobody synced.            *)
Orphans == Unsynced \ (IF pc = "written" THEN {path} ELSE {})

PowerLoss ==
  /\ "power" \in Faults
  /\ Orphans # {} => "orphan" \in Faults
  /\ \E kept \in SUBSET (listed \ entered) : listed' = entered \cup kept
  /\ entered' = listed'
  /\ \E left \in [Unsynced -> UNION {Remains(n) : n \in Unsynced}] :
       /\ \A n \in Unsynced : left[n] \in Remains(n)
       /\ disk' = [n \in Names |-> IF n \notin listed' THEN <<>>
                                   ELSE IF n \in Unsynced THEN left[n] ELSE disk[n]]
  /\ cache' = disk'
  /\ \E back \in SUBSET {n \in listed' : disk'[n] = <<>>} :
       narrow' = (narrow \cap listed') \cup back
  /\ NewBoot

Next ==
  \/ Begin
  \/ RepairMode
  \/ CreatePath
  \/ ChangeMode
  \/ RewritePath
  \/ KeepPath
  \/ WriteImage
  \/ TearImage
  \/ SyncPath
  \/ SyncPathFails
  \/ SyncData
  \/ SyncLayout
  \/ SyncDirectoryFails
  \/ \E n \in Names, whole \in BOOLEAN : Commit(n, whole)
  \/ Kill
  \/ Writeback
  \/ Reboot
  \/ PowerLoss

Spec == Init /\ [][Next]_vars

-----------------------------------------------------------------------------
(* The files of full size without a byte of what was written to them.      *)
Blank == {n \in listed : cache[n] = Zeros(Full)}

(* "Create or recover the fixed journal layout": whatever was interrupted, *)
(* in this boot or an earlier one, the next initialization takes what its  *)
(* predecessors left.  It tells them that a path is not recoverable only   *)
(* of one that a power loss left blank.                                    *)
NeverRefused ==
  pc = "idle" /\ ~ Accepts =>
    /\ ~ CursorPresent
    /\ \A n \in Names : Recoverable(n) \/ n \in Blank

(* "... with cursor committed last": whoever finds a cursor finds every    *)
(* data path beside it, of full size and decodable, after a crash as well. *)
CursorLast ==
  pc # "written" /\ CursorPresent =>
    \A n \in Range(DataNames) : n \in listed /\ Decodes(cache[n])

(* Once a command committed to a path no initialization takes the path for *)
(* an unfinished one and starts it afresh, and no power loss undoes the    *)
(* entry it was committed under.                                           *)
CommitsStay == \A n \in committed : n \in listed /\ cache[n][Full] \in {Second, Torn}
=============================================================================
