-------------------------- MODULE JournalFileProofs --------------------------
(***************************************************************************)
(* Theorems about JournalFile for any number of processes, any payloads    *)
(* and any sequence limit.                                                 *)
(***************************************************************************)
EXTENDS JournalFile, TLAPS

(* A valid frame's sequence tells the slot it lies in: the file starts     *)
(* with sequence one in slot 0 and each commit moves to the other slot.    *)
Parity(image) == \A i \in Slots : Valid(image[i]) => image[i].seq % 2 = (i + 1) % 2

ParityInv == TypeOK /\ Parity(cache) /\ Parity(disk)

(* What each action may write over an image.                               *)
LEMMA InvalidType == Invalid \in Frames
BY InitialAssumption, SequenceAssumption DEF Invalid, Frames

LEMMA NextFrameType ==
  ASSUME NEW image \in [Slots -> Frames], Selectable(image), NEW payload \in Payloads
  PROVE  /\ NextFrame(image, payload) \in Frames
         /\ NextIndex(image) \in Slots
         /\ SelectedIndex(image) \in Slots
         /\ Selected(image) \in Frames
         /\ Selected(image).seq > 0
         /\ NextFrame(image, payload).seq = Selected(image).seq + 1
BY SequenceAssumption
   DEF Frames, NextFrame, NextIndex, Selectable, Selected, SelectedIndex, Slots, Valid, Conflicting

LEMMA FlushType ==
  ASSUME TypeOK, NEW image \in FlushOutcomes
  PROVE  /\ image \in [Slots -> Frames]
         /\ \A i \in Slots : image[i] \in {disk[i], cache[i], Invalid}
BY InvalidType DEF FlushOutcomes, TypeOK, Slots

LEMMA ParityNext ==
  ASSUME NEW image \in [Slots -> Frames], Selectable(image), Parity(image),
         NEW payload \in Payloads
  PROVE  NextFrame(image, payload).seq % 2 = (NextIndex(image) + 1) % 2
<1>1. /\ SelectedIndex(image) \in Slots
      /\ Selected(image).seq \in Nat
      /\ Valid(Selected(image))
  BY NextFrameType, SequenceAssumption DEF Valid, Frames
<1>2. Selected(image).seq % 2 = (SelectedIndex(image) + 1) % 2
  BY <1>1 DEF Parity, Selected
<1>3. NextFrame(image, payload).seq = Selected(image).seq + 1
  BY NextFrameType
<1>4. NextIndex(image) = 1 - SelectedIndex(image)
  BY DEF NextIndex
<1> QED
  BY <1>1, <1>2, <1>3, <1>4 DEF Slots

LEMMA ParityInit == Init => ParityInv
BY InitialAssumption, SequenceAssumption
   DEF Init, ParityInv, TypeOK, Parity, InitialImage, Invalid, Frames, Slots, Valid, Nothing, Staged

LEMMA ParityStep == ParityInv /\ [Next]_vars => ParityInv'
<1> SUFFICES ASSUME ParityInv, [Next]_vars PROVE ParityInv'
  OBVIOUS
<1> USE DEF ParityInv
<1>0. Nothing \in Staged /\ Invalid \in Frames /\ ~ Valid(Invalid)
  BY InvalidType DEF Nothing, Staged, Slots, Valid, Invalid
<1>1. ASSUME NEW p \in Procs, LockExclusive(p) PROVE ParityInv'
  BY <1>1 DEF LockExclusive, TypeOK, Parity
<1>2. ASSUME NEW p \in Procs, LockShared(p) PROVE ParityInv'
  BY <1>2 DEF LockShared, TypeOK, Parity
<1>3. ASSUME NEW p \in Procs, ReadFirstFrame(p) PROVE ParityInv'
  BY <1>3 DEF ReadFirstFrame, TypeOK, Parity, Slots
<1>4. ASSUME NEW p \in Procs, ReadSecondFrame(p) PROVE ParityInv'
  BY <1>4, <1>0 DEF ReadSecondFrame, Release, TypeOK, Parity
<1>5. ASSUME NEW p \in Procs, NEW payload \in Payloads, WriteFrame(p, payload)
      PROVE  ParityInv'
  <2>1. /\ NextFrame(cache, payload) \in Frames
        /\ NextIndex(cache) \in Slots
        /\ NextFrame(cache, payload).seq % 2 = (NextIndex(cache) + 1) % 2
    BY <1>5, NextFrameType, ParityNext DEF WriteFrame, TypeOK
  <2>2. TypeOK'
    BY <1>5, <2>1 DEF WriteFrame, TypeOK, Staged
  <2>3. Parity(cache')
    BY <1>5, <2>1 DEF WriteFrame, TypeOK, Parity, Valid
  <2> QED
    BY <1>5, <2>2, <2>3 DEF WriteFrame
<1>6. ASSUME NEW p \in Procs, ShortWriteTorn(p) PROVE ParityInv'
  <2>1. NextIndex(cache) \in Slots
    BY DEF NextIndex, SelectedIndex, Slots
  <2>2. TypeOK'
    BY <1>6, <1>0, <2>1 DEF ShortWriteTorn, Release, TypeOK
  <2>3. Parity(cache')
    BY <1>6, <1>0, <2>1 DEF ShortWriteTorn, TypeOK, Parity
  <2> QED
    BY <1>6, <2>2, <2>3 DEF ShortWriteTorn
<1>7. ASSUME NEW p \in Procs, GiveUp(p) PROVE ParityInv'
  BY <1>7, <1>0 DEF GiveUp, Release, TypeOK, Parity
<1>8. ASSUME NEW p \in Procs, Fsync(p) PROVE ParityInv'
  BY <1>8 DEF Fsync, TypeOK, Parity
<1>9. ASSUME NEW p \in Procs, FsyncFails(p) PROVE ParityInv'
  <2>1. /\ disk' \in [Slots -> Frames]
        /\ \A i \in Slots : disk'[i] \in {disk[i], cache[i], Invalid}
    BY <1>9, FlushType DEF FsyncFails
  <2> QED
    BY <1>9, <1>0, <2>1 DEF FsyncFails, Release, TypeOK, Parity
<1>10. ASSUME NEW p \in Procs, CommitReturns(p) PROVE ParityInv'
  BY <1>10, <1>0 DEF CommitReturns, Release, TypeOK, Parity, Staged
<1>11. ASSUME NEW p \in Procs, CommitIndeterminate(p) PROVE ParityInv'
  BY <1>11, <1>0 DEF CommitIndeterminate, Release, TypeOK, Parity
<1>12. ASSUME NEW p \in Procs, ShortWriteWhole(p) \/ Kill(p) PROVE ParityInv'
  BY <1>12, <1>0 DEF ShortWriteWhole, Kill, Release, TypeOK, Parity
<1>13. ASSUME Writeback PROVE ParityInv'
  BY <1>13 DEF Writeback, TypeOK, Parity
<1>14. ASSUME PowerLoss PROVE ParityInv'
  <2>1. /\ disk' \in [Slots -> Frames]
        /\ \A i \in Slots : disk'[i] \in {disk[i], cache[i], Invalid}
    BY <1>14, FlushType DEF PowerLoss
  <2>2. Selected(disk') \in Frames
    BY <2>1 DEF Selected, SelectedIndex, Slots
  <2> QED
    BY <1>14, <1>0, <2>1, <2>2 DEF PowerLoss, TypeOK, Parity
<1>15. CASE UNCHANGED vars
  BY <1>15 DEF vars, TypeOK, Parity
<1> QED
  BY <1>1, <1>2, <1>3, <1>4, <1>5, <1>6, <1>7, <1>8, <1>9, <1>10, <1>11, <1>12,
     <1>13, <1>14, <1>15 DEF Next, Steps, Crash

(* Every variable keeps its type, whatever fails.                          *)
THEOREM TypeCorrect == Spec => []TypeOK
<1>1. ParityInv => TypeOK
  BY DEF ParityInv
<1> QED
  BY <1>1, ParityInit, ParityStep, PTL DEF Spec

(* select_journal_frame never meets two frames of one sequence: a frame's  *)
(* sequence fixes its slot, and one slot holds one frame.                  *)
THEOREM FramesNeverConflict == Spec => []NoConflictingFrames
<1>1. ParityInv => NoConflictingFrames
  BY SequenceAssumption DEF ParityInv, NoConflictingFrames, Conflicting, Parity, Slots, TypeOK, Frames, Valid
<1> QED
  BY <1>1, ParityInit, ParityStep, PTL DEF Spec

-----------------------------------------------------------------------------
(* The lock: who holds it exclusively is alone, what it wrote is the       *)
(* selected frame until it lets go, and a half-read image is still there.  *)
LockInv ==
  /\ \A p, q \in Procs : Exclusive(p) /\ p # q => pc[q] = "idle"
  /\ \A p \in Procs : pc[p] \in {"written", "synced"} =>
       /\ staged[p].index = SelectedIndex(cache)
       /\ staged[p].frame = Selected(cache)
       /\ Valid(Selected(cache))
  /\ ReadersSeeWholeImage

(* Writing a successor makes it the selected frame; tearing the other      *)
(* frame leaves the selection alone.                                       *)
LEMMA SuccessorSelected ==
  ASSUME NEW image \in [Slots -> Frames], Selectable(image), NEW payload \in Payloads,
         NEW next, next = [image EXCEPT ![NextIndex(image)] = NextFrame(image, payload)]
  PROVE  /\ SelectedIndex(next) = NextIndex(image)
         /\ Selected(next) = NextFrame(image, payload)
         /\ next[1 - SelectedIndex(next)] = Selected(image)
         /\ Valid(Selected(next))
<1>1. CASE SelectedIndex(image) = 0
  BY <1>1, NextFrameType, SequenceAssumption
     DEF Selected, SelectedIndex, NextIndex, Slots, Frames, Valid
<1>2. CASE SelectedIndex(image) = 1
  BY <1>2, NextFrameType, SequenceAssumption
     DEF Selected, SelectedIndex, NextIndex, Slots, Frames, Valid
<1> QED
  BY <1>1, <1>2 DEF SelectedIndex

LEMMA TornUnselected ==
  ASSUME NEW image \in [Slots -> Frames], Valid(Selected(image)),
         NEW next, next = [image EXCEPT ![NextIndex(image)] = Invalid]
  PROVE  /\ SelectedIndex(next) = SelectedIndex(image)
         /\ Selected(next) = Selected(image)
         /\ next[1 - SelectedIndex(next)] = Invalid
<1>1. CASE SelectedIndex(image) = 0
  BY <1>1, SequenceAssumption
     DEF Selected, SelectedIndex, NextIndex, Slots, Frames, Valid, Invalid
<1>2. CASE SelectedIndex(image) = 1
  BY <1>2, SequenceAssumption
     DEF Selected, SelectedIndex, NextIndex, Slots, Frames, Valid, Invalid
<1> QED
  BY <1>1, <1>2 DEF SelectedIndex

LEMMA LockInit == Init => LockInv
BY DEF Init, LockInv, Exclusive, ReadersSeeWholeImage

LEMMA LockStep == ParityInv /\ LockInv /\ [Next]_vars => LockInv'
<1> SUFFICES ASSUME ParityInv, LockInv, [Next]_vars PROVE LockInv'
  OBVIOUS
<1> USE DEF LockInv, Exclusive, ReadersSeeWholeImage
<1>0. TypeOK
  BY DEF ParityInv
<1>1. ASSUME NEW p \in Procs, LockExclusive(p) PROVE LockInv'
  BY <1>1, <1>0 DEF LockExclusive, TypeOK
<1>2. ASSUME NEW p \in Procs, LockShared(p) PROVE LockInv'
  BY <1>2, <1>0 DEF LockShared, TypeOK
<1>3. ASSUME NEW p \in Procs, ReadFirstFrame(p) PROVE LockInv'
  BY <1>3, <1>0 DEF ReadFirstFrame, TypeOK
<1>4. ASSUME NEW p \in Procs, ReadSecondFrame(p) PROVE LockInv'
  BY <1>4, <1>0 DEF ReadSecondFrame, Release, TypeOK
<1>5. ASSUME NEW p \in Procs, NEW payload \in Payloads, WriteFrame(p, payload)
      PROVE  LockInv'
  <2>1. /\ SelectedIndex(cache') = NextIndex(cache)
        /\ Selected(cache') = NextFrame(cache, payload)
        /\ Valid(Selected(cache'))
    BY <1>5, <1>0, SuccessorSelected DEF WriteFrame, TypeOK
  <2>2. \A q \in Procs : q # p => pc'[q] = "idle"
    BY <1>5, <1>0 DEF WriteFrame, TypeOK
  <2> QED
    BY <1>5, <1>0, <2>1, <2>2 DEF WriteFrame, TypeOK
<1>6. ASSUME NEW p \in Procs, ShortWriteTorn(p) PROVE LockInv'
  <2>1. \A q \in Procs : pc'[q] = "idle"
    BY <1>6, <1>0 DEF ShortWriteTorn, Release, TypeOK
  <2> QED
    BY <2>1
<1>7. ASSUME NEW p \in Procs, GiveUp(p) PROVE LockInv'
  BY <1>7, <1>0 DEF GiveUp, Release, TypeOK
<1>8. ASSUME NEW p \in Procs, Fsync(p) PROVE LockInv'
  BY <1>8, <1>0 DEF Fsync, TypeOK
<1>9. ASSUME NEW p \in Procs, FsyncFails(p) PROVE LockInv'
  BY <1>9, <1>0 DEF FsyncFails, Release, TypeOK
<1>10. ASSUME NEW p \in Procs, CommitReturns(p) PROVE LockInv'
  BY <1>10, <1>0 DEF CommitReturns, Release, TypeOK
<1>11. ASSUME NEW p \in Procs, CommitIndeterminate(p) PROVE LockInv'
  BY <1>11, <1>0 DEF CommitIndeterminate, Release, TypeOK
<1>12. ASSUME NEW p \in Procs, ShortWriteWhole(p) \/ Kill(p) PROVE LockInv'
  BY <1>12, <1>0 DEF ShortWriteWhole, Kill, Release, TypeOK
<1>13. ASSUME Writeback PROVE LockInv'
  BY <1>13 DEF Writeback
<1>14. ASSUME PowerLoss PROVE LockInv'
  BY <1>14 DEF PowerLoss
<1>15. CASE UNCHANGED vars
  BY <1>15 DEF vars
<1> QED
  BY <1>1, <1>2, <1>3, <1>4, <1>5, <1>6, <1>7, <1>8, <1>9, <1>10, <1>11, <1>12,
     <1>13, <1>14, <1>15 DEF Next, Steps, Crash

(* The shared lock keeps a reader's two halves together, whatever fails.   *)
THEOREM ReadsAreWhole == Spec => []ReadersSeeWholeImage
<1>1. LockInv => ReadersSeeWholeImage
  BY DEF LockInv
<1> QED
  BY <1>1, ParityInit, ParityStep, LockInit, LockStep, PTL DEF Spec

-----------------------------------------------------------------------------
(* Durability.  It holds when a process may be killed, a write may stop    *)
(* short and fsync may fail but the power stays on, and when the power may *)
(* fail but a commit, once written, is followed by a successful fsync.     *)
(* The violated run of JournalFileKilledWriter.cfg shows that it does not  *)
(* hold for both.                                                          *)
Tolerable == "power" \notin Faults \/ Faults \subseteq {"power"}

Writing == \E p \in Procs : pc[p] = "written"
Open    == \E p \in Procs : pc[p] \in {"written", "synced"}

Live  == SelectedIndex(cache)
Other == 1 - SelectedIndex(cache)

(* Between the pwrite and the fsync only the new frame is at risk and the  *)
(* settled one lies untouched beside it; at any other time only the frame  *)
(* that is not selected is at risk.                                        *)
DiskInv ==
  "power" \in Faults =>
    /\ \A i \in Slots \ dirty : disk[i] = cache[i]
    /\ Writing => /\ dirty \subseteq {Live}
                  /\ settled = cache[Other]
                  /\ Valid(cache[Other])
                  /\ disk[Live] = cache[Live] \/ disk[Live].seq < cache[Other].seq
    /\ ~ Writing => /\ dirty \subseteq {Other}
                    /\ disk[Other].seq < cache[Live].seq
    /\ ~ Open /\ Selected(cache).seq < SequenceMax => settled = Selected(cache)

DurableInv == CommittedSurvives /\ DiskInv

(* Two frames of a well-formed image never have the same sequence, so the  *)
(* selected one is strictly the newer.                                     *)
LEMMA OtherIsOlder ==
  ASSUME NEW image \in [Slots -> Frames], Parity(image), Valid(Selected(image))
  PROVE  /\ SelectedIndex(image) \in Slots
         /\ image[1 - SelectedIndex(image)].seq < Selected(image).seq
         /\ ~ Conflicting(image)
<1>1. image[0].seq \in Nat /\ image[1].seq \in Nat
  BY SequenceAssumption DEF Slots, Frames
<1>2. Valid(image[0]) /\ Valid(image[1]) => image[0].seq # image[1].seq
  BY <1>1 DEF Parity, Slots
<1> QED
  BY <1>1, <1>2 DEF Selected, SelectedIndex, Slots, Valid, Conflicting

(* The state after a power loss, in the two situations DiskInv describes.  *)
LEMMA PowerLossOutcome ==
  ASSUME ParityInv, DurableInv, PowerLoss
  PROVE  /\ \/ Selected(cache') = Selected(cache)
            \/ Writing /\ Selected(cache') = settled
         /\ DurableInv'
<1> USE DEF ParityInv, DurableInv
<1>0. TypeOK /\ TypeOK' /\ Parity(cache) /\ Parity(disk) /\ Parity(cache')
  BY ParityStep DEF Next, Steps, Crash, PowerLoss
<1>1. /\ disk' = cache'
      /\ cache' \in [Slots -> Frames]
      /\ \A i \in Slots : \/ disk'[i] = disk[i]
                          \/ i \in dirty /\ disk'[i] \in {Invalid, cache[i]}
  BY <1>0 DEF PowerLoss, FlushOutcomes, TypeOK
<1>2. /\ Live \in Slots /\ Other \in Slots
      /\ cache[Other].seq < cache[Live].seq
      /\ cache[Live] = Selected(cache)
  BY <1>0, OtherIsOlder DEF Live, Other, CommittedSurvives, TypeOK, Selected, Slots, SelectedIndex
<1>3. /\ \A i \in Slots : cache[i].seq \in Nat /\ disk[i].seq \in Nat /\ cache'[i].seq \in Nat
      /\ settled.seq \in Nat
      /\ Selected(cache).seq \in Nat /\ Selected(cache').seq \in Nat
  BY <1>0, SequenceAssumption DEF TypeOK, Frames, Selected, SelectedIndex, Slots
<1>4. "power" \in Faults /\ Invalid.seq = 0
  BY DEF PowerLoss, Invalid
<1>5. ~ Writing' /\ ~ Open' /\ dirty' = {}
  BY DEF PowerLoss, Writing, Open
<1>6. ASSUME Writing
      PROVE  /\ Selected(cache') \in {Selected(cache), settled}
             /\ Valid(Selected(cache')) /\ settled' = Selected(cache')
  <2>1. /\ cache'[Other] = settled /\ settled = cache[Other] /\ Valid(settled)
        /\ cache'[Live] = cache[Live] \/ cache'[Live].seq < cache[Other].seq
    BY <1>1, <1>2, <1>3, <1>4, <1>6 DEF DiskInv, Valid, Live, Other, Slots, SelectedIndex
  <2>2. \/ Selected(cache') = cache[Live] /\ Selected(cache').seq > settled.seq
        \/ Selected(cache') = settled
    BY <1>2, <1>3, <2>1 DEF Selected, SelectedIndex, Live, Other, Slots
  <2>3. Valid(Selected(cache')) /\ settled' = Selected(cache')
    BY <1>1, <1>2, <1>3, <2>1, <2>2 DEF PowerLoss, Valid
  <2> QED
    BY <1>2, <1>6, <2>2, <2>3
<1>7. ASSUME ~ Writing
      PROVE  /\ Selected(cache') = Selected(cache)
             /\ Valid(Selected(cache')) /\ settled' = Selected(cache')
  <2>1. /\ cache'[Live] = cache[Live]
        /\ cache'[Other].seq < cache[Live].seq
    BY <1>1, <1>2, <1>3, <1>4, <1>7 DEF DiskInv, Live, Other, Slots, SelectedIndex, CommittedSurvives, Valid
  <2>2. Selected(cache') = Selected(cache)
    BY <1>2, <1>3, <2>1 DEF Selected, SelectedIndex, Live, Other, Slots
  <2>3. Valid(Selected(cache')) /\ settled' = Selected(cache')
    BY <1>1, <1>3, <2>2 DEF PowerLoss, CommittedSurvives
  <2> QED
    BY <2>2, <2>3
<1>8. CommittedSurvives'
  BY <1>3, <1>6, <1>7 DEF CommittedSurvives
<1>9. /\ cache'[Other'].seq < cache'[Live'].seq
      /\ cache'[Live'] = Selected(cache')
  BY <1>0, <1>1, <1>6, <1>7, OtherIsOlder DEF Live, Other, Selected
<1>10. DiskInv'
  BY <1>1, <1>5, <1>6, <1>7, <1>9 DEF DiskInv
<1> QED
  BY <1>6, <1>7, <1>8, <1>10


LEMMA DurableInit == Init => DurableInv
BY InitialAssumption, SequenceAssumption
   DEF Init, DurableInv, CommittedSurvives, DiskInv, Writing, Open, Live, Other,
       Selected, SelectedIndex, InitialImage, Invalid, Valid, Slots

LEMMA DurableStep ==
  ASSUME Tolerable, ParityInv, LockInv, DurableInv, [Next]_vars
  PROVE  DurableInv'
<1> USE DEF DurableInv
<1>0. /\ TypeOK /\ Parity(cache)
      /\ Valid(Selected(cache))
      /\ settled.seq \in Nat /\ Selected(cache).seq \in Nat
      /\ \A i \in Slots : cache[i].seq \in Nat /\ disk[i].seq \in Nat
  BY SequenceAssumption DEF ParityInv, CommittedSurvives, TypeOK, Frames, Selected, SelectedIndex, Slots
<1>1. /\ Live \in Slots /\ Other \in Slots /\ Live # Other
      /\ cache[Live] = Selected(cache)
      /\ cache[Other].seq < cache[Live].seq
      /\ ~ Conflicting(cache)
  BY <1>0, OtherIsOlder DEF Live, Other, TypeOK, Selected, Slots, SelectedIndex
<1> DEFINE Keeps == UNCHANGED <<cache, disk, dirty, settled>> /\ Writing' = Writing
<1>2. ASSUME Keeps, Open' = Open \/ Selected(cache).seq = SequenceMax \/ "power" \notin Faults
      PROVE  DurableInv'
  BY <1>0, <1>2 DEF CommittedSurvives, DiskInv, Live, Other
<1>3. ASSUME NEW p \in Procs, LockExclusive(p) \/ LockShared(p) PROVE DurableInv'
  <2>1. Keeps /\ Open' = Open
    BY <1>0, <1>3 DEF LockExclusive, LockShared, Writing, Open, TypeOK
  <2> QED
    BY <1>2, <2>1
<1>4. ASSUME NEW p \in Procs, ReadFirstFrame(p) \/ ReadSecondFrame(p) \/ GiveUp(p)
      PROVE  DurableInv'
  <2>1. Keeps /\ Open' = Open
    BY <1>0, <1>4 DEF ReadFirstFrame, ReadSecondFrame, GiveUp, Release, Writing, Open, TypeOK
  <2> QED
    BY <1>2, <2>1
<1>5. ASSUME NEW p \in Procs, NEW payload \in Payloads, WriteFrame(p, payload)
      PROVE  DurableInv'
  <2>1. /\ Live' = Other /\ Other' = Live
        /\ Selected(cache') = NextFrame(cache, payload)
        /\ cache'[Other'] = Selected(cache)
        /\ Valid(Selected(cache'))
        /\ Selected(cache').seq = Selected(cache).seq + 1
        /\ NextIndex(cache) = Other
    <3>1. /\ cache \in [Slots -> Frames] /\ Selectable(cache)
          /\ cache' = [cache EXCEPT ![NextIndex(cache)] = NextFrame(cache, payload)]
      BY <1>0, <1>5 DEF WriteFrame, TypeOK
    <3>2. /\ SelectedIndex(cache') = NextIndex(cache)
          /\ Selected(cache') = NextFrame(cache, payload)
          /\ cache'[1 - SelectedIndex(cache')] = Selected(cache)
          /\ Valid(Selected(cache'))
      BY <3>1, SuccessorSelected
    <3>3. NextFrame(cache, payload).seq = Selected(cache).seq + 1
      BY <3>1, NextFrameType
    <3> QED
      BY <3>2, <3>3 DEF Live, Other, NextIndex, SelectedIndex
  <2>2. ~ Writing /\ ~ Open /\ Writing' /\ Open'
    BY <1>0, <1>5 DEF WriteFrame, Writing, Open, LockInv, Exclusive, TypeOK
  <2>3. CommittedSurvives'
    BY <1>0, <1>5, <2>1 DEF CommittedSurvives, WriteFrame
  <2>4. ASSUME "power" \in Faults PROVE DiskInv'
    <3>1. /\ \A i \in Slots \ dirty : disk[i] = cache[i]
          /\ dirty \subseteq {Other}
          /\ disk[Other].seq < cache[Live].seq
          /\ settled = Selected(cache)
      BY <1>5, <2>2, <2>4 DEF DiskInv, WriteFrame, Selectable
    <3>2. /\ dirty' = dirty \cup {Other} /\ disk' = disk /\ settled' = settled
          /\ \A i \in Slots \ {Other} : cache'[i] = cache[i]
      BY <1>0, <1>5, <2>1 DEF WriteFrame, TypeOK
    <3> QED
      BY <1>0, <1>1, <2>1, <2>2, <3>1, <3>2 DEF DiskInv, Live
  <2> QED
    BY <2>3, <2>4 DEF DiskInv
<1>6. ASSUME NEW p \in Procs, ShortWriteTorn(p) PROVE DurableInv'
  <2>1. "power" \notin Faults
    BY <1>6 DEF ShortWriteTorn, Tolerable
  <2>2. Selected(cache') = Selected(cache)
    BY <1>0, <1>6, TornUnselected DEF ShortWriteTorn, TypeOK
  <2> QED
    BY <1>6, <2>1, <2>2 DEF ShortWriteTorn, CommittedSurvives, DiskInv
<1>7. ASSUME NEW p \in Procs, Fsync(p) PROVE DurableInv'
  <2>1. Writing /\ ~ Writing' /\ Open /\ Open'
    BY <1>0, <1>7 DEF Fsync, Writing, Open, LockInv, Exclusive, TypeOK
  <2>2. UNCHANGED <<Live, Other>>
    BY <1>7 DEF Fsync, Live, Other
  <2>3. \A i \in Slots : disk'[i] = IF i \in dirty THEN cache[i] ELSE disk[i]
    BY <1>7 DEF Fsync
  <2> QED
    BY <1>0, <1>1, <1>7, <2>1, <2>2, <2>3 DEF Fsync, DiskInv, CommittedSurvives
<1>8. ASSUME NEW p \in Procs, FsyncFails(p) PROVE DurableInv'
  <2>1. "power" \notin Faults
    BY <1>8 DEF FsyncFails, Tolerable
  <2> QED
    BY <1>8, <2>1 DEF FsyncFails, CommittedSurvives, DiskInv
<1>9. ASSUME NEW p \in Procs, CommitReturns(p) PROVE DurableInv'
  <2>1. ~ Writing /\ ~ Writing' /\ ~ Open'
    BY <1>0, <1>9 DEF CommitReturns, Release, Writing, Open, LockInv, Exclusive, TypeOK
  <2>2. settled' = Selected(cache)
    BY <1>9 DEF CommitReturns, LockInv
  <2> QED
    BY <1>0, <1>9, <2>1, <2>2 DEF CommitReturns, DiskInv, CommittedSurvives, Live, Other
<1>10. ASSUME NEW p \in Procs, CommitIndeterminate(p) PROVE DurableInv'
  <2>1. Keeps
    BY <1>0, <1>10 DEF CommitIndeterminate, Release, Writing, LockInv, Exclusive, TypeOK
  <2>2. Selected(cache).seq = SequenceMax
    <3>1. /\ staged[p].index = SelectedIndex(cache)
          /\ staged[p].frame = Selected(cache)
      BY <1>10 DEF CommitIndeterminate, LockInv
    <3>2. ~ Selectable(cache)
      BY <1>10, <3>1 DEF CommitIndeterminate, Readback, Selected
    <3>3. Selected(cache) \in Frames
      BY <1>0, <1>1 DEF TypeOK
    <3> QED
      BY <1>0, <1>1, <3>2, <3>3, SequenceAssumption DEF Selectable, Frames, Selected, SelectedIndex
  <2> QED
    BY <1>2, <2>1, <2>2
<1>11. ASSUME NEW p \in Procs, ShortWriteWhole(p) \/ Kill(p) PROVE DurableInv'
  <2>1. "power" \notin Faults
    BY <1>11 DEF ShortWriteWhole, Kill, Tolerable
  <2> QED
    BY <1>11, <2>1 DEF ShortWriteWhole, Kill, CommittedSurvives, DiskInv
<1>12. ASSUME Writeback PROVE DurableInv'
  <2>1. UNCHANGED <<cache, settled, Live, Other, Writing, Open>>
    BY <1>12 DEF Writeback, Live, Other, Writing, Open
  <2>2. PICK i \in dirty : disk' = [disk EXCEPT ![i] = cache[i]] /\ dirty' = dirty \ {i}
    BY <1>12 DEF Writeback
  <2>3. \A j \in Slots : disk'[j] = IF j = i THEN cache[j] ELSE disk[j]
    BY <1>0, <2>2 DEF TypeOK
  <2> QED
    BY <1>0, <1>1, <2>1, <2>2, <2>3 DEF DiskInv, CommittedSurvives
<1>13. ASSUME PowerLoss PROVE DurableInv'
  BY <1>13, PowerLossOutcome
<1>14. CASE UNCHANGED vars
  BY <1>2, <1>14 DEF vars, Writing, Open
<1> QED
  BY <1>3, <1>4, <1>5, <1>6, <1>7, <1>8, <1>9, <1>10, <1>11, <1>12, <1>13, <1>14 DEF Next, Steps, Crash

(* A commit that returned is never lost, and the file always has a frame   *)
(* to select, under either of the two tolerable sets of faults.            *)
THEOREM CommitsAreDurable == ASSUME Tolerable PROVE Spec => []CommittedSurvives
<1>1. DurableInv => CommittedSurvives
  BY DEF DurableInv
<1>2. Init => ParityInv /\ LockInv /\ DurableInv
  BY ParityInit, LockInit, DurableInit
<1>3. ParityInv /\ LockInv /\ DurableInv /\ [Next]_vars => (ParityInv /\ LockInv /\ DurableInv)'
  BY ParityStep, LockStep, DurableStep
<1> QED
  BY <1>1, <1>2, <1>3, PTL DEF Spec

-----------------------------------------------------------------------------
(* Refinement: the file implements the atomic cell.                        *)

LEMMA CellInit == Init => Cell!Init
<1> SUFFICES ASSUME Init PROVE Cell!Init
  OBVIOUS
<1>1. Selected(cache) = InitialImage[0] /\ settled = InitialImage[0]
  BY DEF Init, Selected, SelectedIndex, InitialImage, Invalid, Slots
<1>2. ~ Open
  BY DEF Init, Open
<1> QED
  BY <1>1, <1>2 DEF Cell!Init, InitialImage, Slots, Open

LEMMA CellStep ==
  ASSUME Tolerable, ParityInv, LockInv, DurableInv, [Next]_vars
  PROVE  [Cell!Next]_(Cell!cell)
<1> DEFINE value    == Selected(cache).payload
           promised == settled.payload
           Stays    == UNCHANGED <<value, promised, Open>>
<1> USE DEF Open, LockInv, Exclusive
<1>0. TypeOK /\ TypeOK'
  BY ParityStep DEF ParityInv
<1>1. ASSUME Stays PROVE [Cell!Next]_(Cell!cell)
  BY <1>1 DEF Cell!cell
<1>2. ASSUME Open, ~ Open', UNCHANGED <<value, promised>> PROVE Cell!Abandon
  BY <1>2 DEF Cell!Abandon
<1>3. ASSUME NEW p \in Procs,
             LockExclusive(p) \/ LockShared(p) \/ ReadFirstFrame(p) \/ ReadSecondFrame(p) \/ GiveUp(p)
      PROVE  Stays
  BY <1>0, <1>3 DEF LockExclusive, LockShared, ReadFirstFrame, ReadSecondFrame, GiveUp, Release, TypeOK
<1>4. ASSUME NEW p \in Procs, NEW payload \in Payloads, WriteFrame(p, payload)
      PROVE  Cell!Commit(payload)
  <2>1. Selected(cache') = NextFrame(cache, payload)
    <3>1. /\ cache \in [Slots -> Frames] /\ Selectable(cache)
          /\ cache' = [cache EXCEPT ![NextIndex(cache)] = NextFrame(cache, payload)]
      BY <1>0, <1>4 DEF WriteFrame, TypeOK
    <3> QED
      BY <3>1, SuccessorSelected
  <2>2. ~ Open /\ Open'
    BY <1>0, <1>4 DEF WriteFrame, TypeOK
  <2> QED
    BY <1>4, <2>1, <2>2 DEF Cell!Commit, WriteFrame, NextFrame
<1>5. ASSUME NEW p \in Procs, ShortWriteTorn(p) PROVE Stays
  <2>1. Selected(cache') = Selected(cache)
    BY <1>0, <1>5, TornUnselected DEF ShortWriteTorn, TypeOK, DurableInv, CommittedSurvives
  <2>2. ~ Open /\ ~ Open'
    BY <1>0, <1>5 DEF ShortWriteTorn, Release, TypeOK
  <2> QED
    BY <1>5, <2>1, <2>2 DEF ShortWriteTorn
<1>6. ASSUME NEW p \in Procs, Fsync(p) PROVE Stays
  BY <1>0, <1>6 DEF Fsync, TypeOK
<1>7. ASSUME NEW p \in Procs, ShortWriteWhole(p) \/ FsyncFails(p) \/ CommitIndeterminate(p)
      PROVE  Cell!Abandon
  <2>1. Open /\ ~ Open'
    BY <1>0, <1>7 DEF ShortWriteWhole, FsyncFails, CommitIndeterminate, Release, TypeOK
  <2> QED
    BY <1>2, <1>7, <2>1 DEF ShortWriteWhole, FsyncFails, CommitIndeterminate
<1>8. ASSUME NEW p \in Procs, CommitReturns(p) PROVE Cell!Return
  <2>1. Open /\ ~ Open'
    BY <1>0, <1>8 DEF CommitReturns, Release, TypeOK
  <2>2. settled' = Selected(cache)
    BY <1>8 DEF CommitReturns
  <2> QED
    BY <1>8, <2>1, <2>2 DEF CommitReturns, Cell!Return
<1>9. ASSUME NEW p \in Procs, Kill(p) PROVE Stays \/ Cell!Abandon
  <2>1. UNCHANGED <<value, promised>>
    BY <1>9 DEF Kill
  <2>2. CASE pc[p] \in {"written", "synced"}
    <3>1. Open /\ ~ Open'
      BY <1>0, <1>9, <2>2 DEF Kill, Release, TypeOK
    <3> QED
      BY <1>2, <2>1, <3>1
  <2>3. CASE pc[p] \notin {"written", "synced"}
    BY <1>0, <1>9, <2>1, <2>3 DEF Kill, Release, TypeOK
  <2> QED
    BY <2>2, <2>3
<1>10. ASSUME Writeback PROVE Stays
  BY <1>10 DEF Writeback
<1>11. ASSUME PowerLoss PROVE Cell!Lose
  <2>1. Selected(cache') \in {Selected(cache), settled}
    BY <1>11, PowerLossOutcome
  <2>2. settled' = Selected(cache')
    <3>1. ~ Open' /\ "power" \in Faults
      BY <1>11 DEF PowerLoss
    <3>2. Selected(cache').seq \in Nat /\ settled.seq \in Nat
      BY <1>0, SequenceAssumption DEF TypeOK, Frames, Selected, SelectedIndex, Slots
    <3>3. CommittedSurvives'
      BY <1>11, PowerLossOutcome DEF DurableInv
    <3> QED
      BY <1>11, <2>1, <3>2, <3>3 DEF PowerLoss, CommittedSurvives, DurableInv
  <2> QED
    BY <1>11, <2>1, <2>2 DEF Cell!Lose, PowerLoss
<1>12. CASE UNCHANGED vars
  BY <1>1, <1>12 DEF vars
<1> QED
  BY <1>1, <1>3, <1>4, <1>5, <1>6, <1>7, <1>8, <1>9, <1>10, <1>11, <1>12 DEF Next, Steps, Crash, Cell!Next

(* The file, faults and all, is an atomic cell that keeps its promises.    *)
THEOREM FileImplementsCell == ASSUME Tolerable PROVE Spec => CellSpec
<1>1. Init => ParityInv /\ LockInv /\ DurableInv
  BY ParityInit, LockInit, DurableInit
<1>2. ParityInv /\ LockInv /\ DurableInv /\ [Next]_vars => (ParityInv /\ LockInv /\ DurableInv)'
  BY ParityStep, LockStep, DurableStep
<1>3. ParityInv /\ LockInv /\ DurableInv /\ [Next]_vars => [Cell!Next]_(Cell!cell)
  BY CellStep
<1> QED
  BY <1>1, <1>2, <1>3, CellInit, PTL DEF Spec, CellSpec, Cell!Spec
=============================================================================
