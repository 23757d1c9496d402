------------------------- MODULE JournalLayoutProofs -------------------------
(***************************************************************************)
(* The first start of the journal, proved for any list of data paths: it   *)
(* is refused only where a power loss left a path blank, it creates the    *)
(* cursor last, and it leaves the commits that follow alone.               *)
(***************************************************************************)
EXTENDS JournalLayout, SequenceTheorems, TLAPS

-----------------------------------------------------------------------------
(* The inductive invariant of the layout.                                  *)

Data == Range(DataNames)

Kinds == {"header", "zero", "newer", "second", "torn", "half", "digest"}
Owners == 0 .. BootMax
Cells == [kind : Kinds, of : Owners \X Owners]
Images == {image \in Seq(Cells) : Len(image) <= Full}

Running == {"repair", "paths", "blank", "write", "written", "settle"}

FilesInv ==
  /\ cache \in [Names -> Images] /\ disk \in [Names -> Images]
  /\ \A n \in Names : Len(disk[n]) <= Len(cache[n])
  /\ \A n \in Names \ listed : cache[n] = <<>>
  /\ pc \in {"paths", "write", "written", "settle", "confirm"} => narrow = {}
  /\ pc = "blank" => narrow \subseteq {path}

(* What the running initialization knows where it is: no cursor is there   *)
(* until it is at the cursor itself, and by then every data path reads as   *)
(* initial and is entered for good.                                         *)
RunInv ==
  /\ pc \in {"repair", "settle"} => path # Cursor
  /\ pc \in Running /\ path # Cursor => ~ CursorPresent
  /\ pc \in Running /\ path = Cursor =>
       \A n \in Data : n \in entered /\ cache[n] = Expected(n, boot)
  /\ pc = "written" => cache[path] = Expected(path, boot)
  /\ pc = "confirm" => CursorPresent

CursorInv ==
  /\ Cursor \in listed => Data \subseteq entered
  /\ CursorPresent => \A n \in Data : Decodes(cache[n])

(* The layout is there for good: no initialization runs any more.          *)
Established == CursorPresent /\ Cursor \in entered /\ pc \in {"idle", "confirm"}

CommitInv ==
  /\ ready \/ committed # {} => Established
  /\ CommitsStay

LInv == TypeOK /\ FilesInv /\ RunInv /\ CursorInv /\ CommitInv

(* An image that initializations of some boots wrote, interrupted or not:  *)
(* its first "solid" cells are theirs, cell i that of boot of[i].          *)
Laid(image, solid, of) ==
  /\ Len(image) \in {solid, Full}
  /\ solid = 0 => image = <<>>
  /\ \A i \in 1 .. Len(image) : image[i] = IF i <= solid THEN Image(of[i], of[i])[i] ELSE Zero

Places == 1 .. FrameEnd

(* One whole first frame, rewritten up to a cut by the running boot.       *)
Rewritten(of, b) ==
  \E p \in Owners, cut \in 0 .. FrameEnd :
    \A i \in Places : of[i] = IF i <= cut THEN b ELSE p

Shape(n, image, b) ==
  \E solid \in 0 .. FrameEnd, of \in [Places -> Owners] :
    /\ Laid(image, solid, of)
    /\ IF n = Restart THEN solid = FrameEnd => Rewritten(of, b)
                      ELSE of = [i \in Places |-> 0]

(* Or the power failed before any of it came to the disk.                  *)
Sound(n, image, b) == Shape(n, image, b) \/ image = Zeros(Full)

ShapeInv ==
  Established \/ \A n \in Names : Sound(n, cache[n], boot) /\ Sound(n, disk[n], boot)

SInv == LInv /\ ShapeInv

-----------------------------------------------------------------------------
(* Images, cell by cell.                                                   *)

LEMMA OverlaidCells ==
  ASSUME NEW image \in Seq(Cells), NEW new \in Seq(Cells), NEW cut \in 0 .. Len(new)
  PROVE  /\ Overlaid(image, new, cut) \in Seq(Cells)
         /\ Len(Overlaid(image, new, cut)) = IF cut >= Len(image) THEN cut ELSE Len(image)
         /\ \A i \in 1 .. Len(Overlaid(image, new, cut)) :
              Overlaid(image, new, cut)[i] = IF i <= cut THEN new[i] ELSE image[i]
<1> DEFINE head == SubSeq(new, 1, cut)
           tail == SubSeq(image, cut + 1, Len(image))
<1>1. /\ head \in Seq(Cells) /\ Len(head) = cut
      /\ \A i \in 1 .. cut : head[i] = new[i]
  OBVIOUS
<1>2. /\ tail \in Seq(Cells)
      /\ Len(tail) = IF cut >= Len(image) THEN 0 ELSE Len(image) - cut
      /\ \A i \in 1 .. Len(tail) : tail[i] = image[cut + i]
  OBVIOUS
<1> HIDE DEF head, tail
<1>3. /\ head \o tail \in Seq(Cells) /\ Len(head \o tail) = cut + Len(tail)
      /\ \A i \in 1 .. cut + Len(tail) :
           (head \o tail)[i] = IF i <= cut THEN head[i] ELSE tail[i - cut]
  BY <1>1, <1>2, ConcatProperties
<1>4. Overlaid(image, new, cut) = head \o tail
  BY DEF Overlaid, head, tail
<1>5. ASSUME NEW i \in 1 .. cut + Len(tail)
      PROVE  (head \o tail)[i] = IF i <= cut THEN new[i] ELSE image[i]
  <2>1. CASE i <= cut
    BY <2>1, <1>1, <1>3
  <2>2. CASE ~ i <= cut
    <3>1. i - cut \in 1 .. Len(tail) /\ cut + (i - cut) = i
      BY <2>2, <1>2
    <3> QED BY <2>2, <3>1, <1>2, <1>3
  <2> QED BY <2>1, <2>2
<1> QED BY <1>1, <1>2, <1>3, <1>4, <1>5

LEMMA CellTypes ==
  /\ Zero \in Cells /\ Header \in Cells /\ Newer \in Cells /\ Second \in Cells /\ Torn \in Cells
  /\ \A p \in Owners : Half(p) \in Cells
  /\ \A p, q \in Owners : Digest(p, q) \in Cells
BY BootAssumption
   DEF Zero, Header, Newer, Second, Torn, Half, Digest, Cell, Cells, Kinds, Owners

LEMMA ImageCells ==
  ASSUME NEW p \in Owners, NEW q \in Owners
  PROVE  /\ Image(p, q) \in Seq(Cells) /\ Len(Image(p, q)) = Full
         /\ Image(p, q)[1] = Header
         /\ Image(p, q)[2] = Digest(p, q) /\ Image(p, q)[3] = Digest(p, q)
         /\ Image(p, q)[4] = Half(p) /\ Image(p, q)[5] = Half(q)
         /\ Image(p, q)[6] = Zero
BY CellTypes DEF Image, Full

LEMMA ExpectedType ==
  ASSUME NEW n, NEW b \in Boots
  PROVE  /\ Expected(n, b) = Image(IF n = Restart THEN b ELSE 0, IF n = Restart THEN b ELSE 0)
         /\ Expected(n, b) \in Images /\ Len(Expected(n, b)) = Full
         /\ (IF n = Restart THEN b ELSE 0) \in Owners
BY ImageCells, BootAssumption DEF Expected, Images, Boots, Owners

LEMMA Sizes ==
  \A k : /\ k \in {FrameEnd, Full} => k >= FrameEnd /\ k \in Nat
         /\ k \in 0 .. Full => k \in Nat /\ k \in Int /\ k <= Full
BY DEF FrameEnd, Full

LEMMA LaidOverlaid ==
  ASSUME NEW image \in Images, NEW solid \in 0 .. FrameEnd, NEW of \in [Places -> Owners],
         Laid(image, solid, of), NEW q \in Owners, NEW cut \in 0 .. Full,
         NEW reach, reach = IF cut >= FrameEnd THEN FrameEnd ELSE IF cut >= solid THEN cut ELSE solid,
         NEW by, by = [i \in Places |-> IF i <= cut THEN q ELSE of[i]]
  PROVE  /\ Laid(Overlaid(image, Image(q, q), cut), reach, by)
         /\ reach \in 0 .. FrameEnd /\ by \in [Places -> Owners]
<1> DEFINE new == Image(q, q)
           over == Overlaid(image, new, cut)
<1>1. /\ new \in Seq(Cells) /\ Len(new) = Full /\ new[6] = Zero
      /\ image \in Seq(Cells) /\ Len(image) \in 0 .. Full
  BY ImageCells DEF Images
<1>0. cut \in 0 .. Len(new)
  BY <1>1
<1> HIDE DEF new
<1>2. /\ over \in Seq(Cells)
      /\ Len(over) = IF cut >= Len(image) THEN cut ELSE Len(image)
      /\ \A i \in 1 .. Len(over) : over[i] = IF i <= cut THEN new[i] ELSE image[i]
  BY <1>0, <1>1, OverlaidCells
<1>3. /\ Len(image) \in {solid, Full} /\ (solid = 0 => image = <<>>)
      /\ \A i \in 1 .. Len(image) :
           image[i] = IF i <= solid THEN Image(of[i], of[i])[i] ELSE Zero
  BY DEF Laid
<1>4. reach \in 0 .. FrameEnd /\ by \in [Places -> Owners]
  BY DEF FrameEnd
<1> HIDE DEF over
<1>b. Len(over) = (IF cut >= Len(image) THEN cut ELSE Len(image)) /\ Len(image) \in 0 .. Full
  BY <1>1, <1>2
<1>c. Len(over) \in Int /\ Len(over) <= Full
  <2>1. CASE cut >= Len(image)
    BY <2>1, <1>b DEF Full, FrameEnd
  <2>2. CASE ~ cut >= Len(image)
    <3>1. Len(over) = Len(image)
      BY <2>2, <1>b
    <3>2. Len(image) \in Int /\ Len(image) <= Full
      BY <1>1, Sizes, Zenon
    <3> QED BY <3>1, <3>2
  <2> QED BY <2>1, <2>2
<1>5. Len(over) \in {reach, Full}
  <2>1. CASE Len(image) = solid
    BY <2>1, <1>b DEF FrameEnd, Full
  <2>2. CASE Len(image) = Full
    BY <2>2, <1>b DEF FrameEnd, Full
  <2> QED BY <2>1, <2>2, <1>3
<1>6. ASSUME reach = 0 PROVE over = <<>>
  <2>1. cut = 0 /\ solid = 0
    BY <1>6 DEF FrameEnd
  <2>2. Len(over) = 0
    BY <2>1, <1>2, <1>3
  <2> QED BY <2>2, <1>2
<1>7. ASSUME NEW i \in 1 .. Len(over)
      PROVE  over[i] = IF i <= reach THEN Image(by[i], by[i])[i] ELSE Zero
  <2>a. i \in Int /\ 1 <= i /\ i <= Len(over)
    OBVIOUS
  <2>1. i \in 1 .. Full
    BY <2>a, <1>c DEF Full
  <2>2. CASE i <= cut
    <3>1. over[i] = new[i]
      BY <2>2, <1>2
    <3>2. CASE i <= FrameEnd
      <4>1. i <= reach /\ i \in Places
        BY <2>1, <2>2, <3>2 DEF FrameEnd, Places
      <4>2. by[i] = q
        BY <4>1, <2>2
      <4> QED BY <3>1, <4>1, <4>2 DEF new
    <3>3. CASE ~ i <= FrameEnd
      <4>1. i = 6 /\ ~ i <= reach
        BY <2>1, <3>3, <1>4 DEF Full, FrameEnd
      <4> QED BY <3>1, <4>1, <1>1
    <3> QED BY <3>2, <3>3
  <2>3. CASE ~ i <= cut
    <3>1. i \in 1 .. Len(image) /\ over[i] = image[i]
      BY <2>3, <1>1, <1>2
    <3>2. over[i] = IF i <= solid THEN Image(of[i], of[i])[i] ELSE Zero
      BY <3>1, <1>3
    <3>3. i <= solid <=> i <= reach
      BY <2>1, <2>3 DEF FrameEnd, Full
    <3>4. i <= solid => by[i] = of[i]
      BY <2>1, <2>3 DEF FrameEnd, Places
    <3> QED BY <3>2, <3>3, <3>4
  <2> QED BY <2>2, <2>3
<1> QED BY <1>4, <1>5, <1>6, <1>7 DEF Laid, over, new

LEMMA ShapeOverlaid ==
  ASSUME NEW n \in Names, NEW b \in Boots, NEW image \in Images, Shape(n, image, b),
         NEW cut \in 0 .. Full
  PROVE  Shape(n, Overlaid(image, Expected(n, b), cut), b)
<1> DEFINE q == IF n = Restart THEN b ELSE 0
<1>1. Expected(n, b) = Image(q, q) /\ q \in Owners
  BY ExpectedType
<1>2. PICK solid \in 0 .. FrameEnd, of \in [Places -> Owners] :
        /\ Laid(image, solid, of)
        /\ IF n = Restart THEN solid = FrameEnd => Rewritten(of, b)
                          ELSE of = [i \in Places |-> 0]
  BY DEF Shape
<1> HIDE DEF q
<1> DEFINE reach == IF cut >= FrameEnd THEN FrameEnd ELSE IF cut >= solid THEN cut ELSE solid
           by == [i \in Places |-> IF i <= cut THEN q ELSE of[i]]
<1>3. /\ Laid(Overlaid(image, Image(q, q), cut), reach, by)
      /\ reach \in 0 .. FrameEnd /\ by \in [Places -> Owners]
  BY <1>1, <1>2, LaidOverlaid
<1>4. ASSUME n # Restart PROVE by = [i \in Places |-> 0]
  BY <1>4, <1>2 DEF q
<1>5. ASSUME n = Restart, reach = FrameEnd PROVE Rewritten(by, b)
  <2>1. q = b
    BY <1>5 DEF q
  <2>2. CASE cut >= FrameEnd
    <3>1. \A i \in Places : by[i] = IF i <= FrameEnd THEN b ELSE b
      BY <2>1, <2>2 DEF Places, FrameEnd
    <3> QED BY <3>1, <1>1, <2>1 DEF Rewritten, FrameEnd
  <2>3. CASE ~ cut >= FrameEnd
    <3>1. solid = FrameEnd
      BY <2>3, <1>5 DEF FrameEnd
    <3>2. PICK p \in Owners, old \in 0 .. FrameEnd :
            \A i \in Places : of[i] = IF i <= old THEN b ELSE p
      BY <3>1, <1>2, <1>5 DEF Rewritten
    <3> DEFINE new == IF cut >= old THEN cut ELSE old
    <3>3. new \in 0 .. FrameEnd
      BY <2>3 DEF FrameEnd, Full
    <3>4. \A i \in Places : by[i] = IF i <= new THEN b ELSE p
      BY <3>2, <2>1 DEF Places, FrameEnd, Full
    <3> QED BY <3>3, <3>4 DEF Rewritten
  <2> QED BY <2>2, <2>3
<1> HIDE DEF reach, by
<1> QED BY <1>1, <1>3, <1>4, <1>5 DEF Shape

LEMMA ZerosType ==
  ASSUME NEW count \in 0 .. Full
  PROVE  /\ Zeros(count) \in Seq(Cells) /\ Len(Zeros(count)) = count
         /\ \A i \in 1 .. count : Zeros(count)[i] = Zero
BY CellTypes DEF Zeros, Full

(* The first cells of an initial image, and zeros for the rest.            *)
LEMMA PaddedCells ==
  ASSUME NEW image \in Seq(Cells), NEW cut \in 0 .. Full, cut <= Len(image),
         NEW padded, padded = SubSeq(image, 1, cut) \o Zeros(Full - cut)
  PROVE  /\ padded \in Seq(Cells) /\ Len(padded) = Full
         /\ \A i \in 1 .. Full : padded[i] = IF i <= cut THEN image[i] ELSE Zero
<1> DEFINE head == SubSeq(image, 1, cut)
           tail == Zeros(Full - cut)
<1>0. cut \in 0 .. Len(image) /\ Full - cut \in 0 .. Full
  BY DEF Full
<1>1. /\ head \in Seq(Cells) /\ Len(head) = cut
      /\ \A i \in 1 .. cut : head[i] = image[i]
  BY <1>0
<1>2. /\ tail \in Seq(Cells) /\ Len(tail) = Full - cut
      /\ \A i \in 1 .. Full - cut : tail[i] = Zero
  BY <1>0, ZerosType
<1> HIDE DEF head, tail
<1>3. /\ head \o tail \in Seq(Cells) /\ Len(head \o tail) = Len(head) + Len(tail)
      /\ \A i \in 1 .. Len(head) + Len(tail) :
           (head \o tail)[i] = IF i <= Len(head) THEN head[i] ELSE tail[i - Len(head)]
  BY <1>1, <1>2, ConcatProperties
<1>4. Len(head) + Len(tail) = Full
  BY <1>1, <1>2 DEF Full
<1>5. padded = head \o tail
  BY DEF head, tail
<1>6. ASSUME NEW i \in 1 .. Full
      PROVE  (head \o tail)[i] = IF i <= cut THEN image[i] ELSE Zero
  <2>1. CASE i <= cut
    BY <2>1, <1>1, <1>3, <1>4
  <2>2. CASE ~ i <= cut
    <3>1. i - cut \in 1 .. Full - cut
      BY <2>2 DEF Full
    <3> QED BY <2>2, <3>1, <1>1, <1>2, <1>3, <1>4
  <2> QED BY <2>1, <2>2
<1> QED BY <1>3, <1>4, <1>5, <1>6

LEMMA ShapePadded ==
  ASSUME NEW n \in Names, NEW b \in Boots, NEW cut \in 1 .. Full
  PROVE  Shape(n, SubSeq(Expected(n, b), 1, cut) \o Zeros(Full - cut), b)
<1> DEFINE q == IF n = Restart THEN b ELSE 0
           padded == SubSeq(Expected(n, b), 1, cut) \o Zeros(Full - cut)
           solid == IF cut >= FrameEnd THEN FrameEnd ELSE cut
           of == [i \in Places |-> q]
<1>1. Expected(n, b) = Image(q, q) /\ q \in Owners /\ Image(q, q)[6] = Zero
      /\ Expected(n, b) \in Seq(Cells) /\ Len(Expected(n, b)) = Full
  BY ExpectedType, ImageCells
<1>2. /\ padded \in Seq(Cells) /\ Len(padded) = Full
      /\ \A i \in 1 .. Full : padded[i] = IF i <= cut THEN Image(q, q)[i] ELSE Zero
  <2>1. cut \in 0 .. Full
    BY DEF Full
  <2>2. /\ padded \in Seq(Cells) /\ Len(padded) = Full
        /\ \A i \in 1 .. Full : padded[i] = IF i <= cut THEN Expected(n, b)[i] ELSE Zero
    <3>1. cut <= Len(Expected(n, b))
      BY <1>1 DEF Full
    <3>2. \A p : p = SubSeq(Expected(n, b), 1, cut) \o Zeros(Full - cut) =>
            /\ p \in Seq(Cells) /\ Len(p) = Full
            /\ \A i \in 1 .. Full : p[i] = IF i <= cut THEN Expected(n, b)[i] ELSE Zero
      BY <2>1, <3>1, <1>1, PaddedCells
    <3> HIDE DEF padded
    <3>3. padded = SubSeq(Expected(n, b), 1, cut) \o Zeros(Full - cut)
      BY DEF padded
    <3> QED BY <3>2, <3>3
  <2> HIDE DEF padded, q
  <2> QED BY <2>2, <1>1
<1>3. solid \in 0 .. FrameEnd /\ solid # 0 /\ of \in [Places -> Owners]
  BY <1>1 DEF FrameEnd, Full
<1>4. ASSUME NEW i \in 1 .. Len(padded)
      PROVE  padded[i] = IF i <= solid THEN Image(of[i], of[i])[i] ELSE Zero
  <2>1. i \in 1 .. Full
    BY <1>2
  <2>2. CASE i = 6
    BY <2>1, <2>2, <1>1, <1>2, <1>3 DEF FrameEnd
  <2>3. CASE i # 6
    <3>1. i \in Places /\ (i <= solid <=> i <= cut)
      BY <2>1, <2>3 DEF Places, FrameEnd, Full
    <3> QED BY <2>1, <3>1, <1>2
  <2> QED BY <2>2, <2>3
<1>5. Laid(padded, solid, of)
  <2> HIDE DEF padded, solid, of
  <2> QED BY <1>2, <1>3, <1>4 DEF Laid
<1>6. Rewritten(of, q)
  BY <1>1 DEF Rewritten, FrameEnd
<1>7. IF n = Restart THEN solid = FrameEnd => Rewritten(of, b)
                    ELSE of = [i \in Places |-> 0]
  BY <1>6
<1> HIDE DEF solid, of
<1> QED BY <1>3, <1>5, <1>7 DEF Shape

(* What a write makes of a blank file, and of one that is not.             *)
LEMMA BlankOverlaid ==
  ASSUME NEW n \in Names, NEW b \in Boots, NEW cut \in 0 .. Full
  PROVE  Sound(n, Overlaid(Zeros(Full), Expected(n, b), cut), b)
<1> DEFINE new == Expected(n, b)
           over == Overlaid(Zeros(Full), new, cut)
           padded == SubSeq(new, 1, cut) \o Zeros(Full - cut)
<1>1. new \in Seq(Cells) /\ Len(new) = Full
  BY ExpectedType DEF Images
<1>2. Zeros(Full) \in Seq(Cells) /\ Len(Zeros(Full)) = Full
      /\ \A i \in 1 .. Full : Zeros(Full)[i] = Zero
  <2>1. Full \in 0 .. Full
    BY DEF Full
  <2> QED BY <2>1, ZerosType
<1>3. /\ over \in Seq(Cells) /\ Len(over) = Full
      /\ \A i \in 1 .. Full : over[i] = IF i <= cut THEN new[i] ELSE Zero
  <2> DEFINE zeros == Zeros(Full)
  <2>1. zeros \in Seq(Cells) /\ Len(zeros) = Full /\ \A i \in 1 .. Full : zeros[i] = Zero
    BY <1>2
  <2> HIDE DEF zeros, new
  <2>2. cut \in 0 .. Len(new)
    BY <1>1
  <2>3. /\ Overlaid(zeros, new, cut) \in Seq(Cells)
        /\ Len(Overlaid(zeros, new, cut)) = IF cut >= Len(zeros) THEN cut ELSE Len(zeros)
        /\ \A i \in 1 .. Len(Overlaid(zeros, new, cut)) :
             Overlaid(zeros, new, cut)[i] = IF i <= cut THEN new[i] ELSE zeros[i]
    BY <1>1, <2>1, <2>2, OverlaidCells
  <2>4. Len(Overlaid(zeros, new, cut)) = Full
    BY <2>1, <2>3 DEF Full
  <2> QED BY <2>1, <2>3, <2>4 DEF zeros
<1>4. /\ padded \in Seq(Cells) /\ Len(padded) = Full
      /\ \A i \in 1 .. Full : padded[i] = IF i <= cut THEN new[i] ELSE Zero
  <2>1. cut <= Len(new)
    BY <1>1 DEF Full
  <2> HIDE DEF new
  <2>2. \A p : p = SubSeq(new, 1, cut) \o Zeros(Full - cut) =>
          /\ p \in Seq(Cells) /\ Len(p) = Full
          /\ \A i \in 1 .. Full : p[i] = IF i <= cut THEN new[i] ELSE Zero
    BY <2>1, <1>1, PaddedCells
  <2> HIDE DEF padded
  <2>3. padded = SubSeq(new, 1, cut) \o Zeros(Full - cut)
    BY DEF padded
  <2> QED BY <2>2, <2>3
<1>5. CASE cut = 0
  <2>1. over = Zeros(Full)
    <3> HIDE DEF over
    <3> QED BY <1>2, <1>3, <1>5, SeqEqual
  <2> QED BY <2>1 DEF Sound
<1>6. CASE cut # 0
  <2>1. over = padded
    <3> HIDE DEF over, padded
    <3> QED BY <1>3, <1>4, SeqEqual
  <2>2. Shape(n, padded, b)
    BY <1>6, ShapePadded
  <2> QED BY <2>1, <2>2 DEF Sound
<1> QED BY <1>5, <1>6

LEMMA SoundOverlaid ==
  ASSUME NEW n \in Names, NEW b \in Boots, NEW image \in Images, Sound(n, image, b),
         NEW cut \in 0 .. Full
  PROVE  Sound(n, Overlaid(image, Expected(n, b), cut), b)
BY BlankOverlaid, ShapeOverlaid DEF Sound

LEMMA ShapeEmpty ==
  ASSUME NEW n \in Names, NEW b \in Boots
  PROVE  Shape(n, <<>>, b)
<1> DEFINE of == [i \in Places |-> 0]
<1>1. of \in [Places -> Owners] /\ 0 \in 0 .. FrameEnd /\ 0 # FrameEnd
  BY BootAssumption DEF Owners, FrameEnd
<1>2. Laid(<<>>, 0, of)
  BY DEF Laid
<1> QED BY <1>1, <1>2 DEF Shape

(* A restart path that is not half one boot's image and half another's     *)
(* is, for a later boot, an image with nothing rewritten yet.              *)
LEMMA ShapeNextBoot ==
  ASSUME NEW n \in Names, NEW b \in Boots, NEW later \in Boots, NEW image \in Images,
         Shape(n, image, b), n = Restart => ~ Mixed(image)
  PROVE  Shape(n, image, later)
<1>1. PICK solid \in 0 .. FrameEnd, of \in [Places -> Owners] :
        /\ Laid(image, solid, of)
        /\ IF n = Restart THEN solid = FrameEnd => Rewritten(of, b)
                          ELSE of = [i \in Places |-> 0]
  BY DEF Shape
<1>2. CASE n # Restart \/ solid # FrameEnd
  BY <1>1, <1>2 DEF Shape
<1>3. CASE n = Restart /\ solid = FrameEnd
  <2>1. /\ Len(image) >= FrameEnd /\ Len(image) \in Nat
        /\ \A i \in 1 .. Len(image) :
             image[i] = IF i <= FrameEnd THEN Image(of[i], of[i])[i] ELSE Zero
        /\ Len(image) \in {FrameEnd, Full}
    <3>1. Len(image) \in {FrameEnd, Full}
      BY <1>1, <1>3 DEF Laid
    <3>2. \A i \in 1 .. Len(image) :
            image[i] = IF i <= FrameEnd THEN Image(of[i], of[i])[i] ELSE Zero
      BY <1>1, <1>3 DEF Laid
    <3>3. Len(image) >= FrameEnd /\ Len(image) \in Nat
      BY <3>1, Sizes, Zenon
    <3> QED BY <3>1, <3>2, <3>3
  <2>2. \A i \in Places : i \in 1 .. Len(image) /\ of[i] \in Owners /\ image[i] = Image(of[i], of[i])[i]
    BY <2>1 DEF Places, FrameEnd, Full
  <2>3. /\ image[1] = Header /\ image[2] = Digest(of[2], of[2]) /\ image[3] = Digest(of[3], of[3])
        /\ image[4] = Half(of[4]) /\ image[5] = Half(of[5])
    BY <2>2, ImageCells, SMTT(30) DEF Places, FrameEnd
  <2>4. /\ image[4].kind = "half" /\ image[5].kind = "half"
        /\ image[4].of[1] = of[4] /\ image[5].of[1] = of[5]
    BY <2>3 DEF Half, Cell
  <2>5. InitialFrame(image)
    BY <1>3, <2>1, <2>3, <2>4 DEF Mixed
  <2>6. image[2] = Digest(of[4], of[5]) /\ image[3] = Digest(of[4], of[5])
    BY <2>5, <2>4 DEF InitialFrame
  <2>7. of[2] = of[4] /\ of[2] = of[5] /\ of[3] = of[4]
    BY <2>3, <2>6 DEF Digest, Cell
  <2> DEFINE same == [i \in Places |-> of[4]]
  <2>8. same \in [Places -> Owners] /\ Rewritten(same, later)
    <3>1. of[4] \in Owners
      BY DEF Places, FrameEnd
    <3>2. 0 \in 0 .. FrameEnd /\ \A i \in Places : same[i] = IF i <= 0 THEN later ELSE of[4]
      BY DEF Places, FrameEnd
    <3> HIDE DEF same
    <3>3. Rewritten(same, later)
      BY <3>1, <3>2 DEF Rewritten
    <3> QED BY <3>1, <3>3 DEF same
  <2>9. ASSUME NEW i \in Places PROVE Image(of[i], of[i])[i] = Image(same[i], same[i])[i]
    <3>1. i \in {1, 2, 3, 4, 5} /\ of[i] \in Owners /\ same[i] = of[4] /\ of[4] \in Owners
      BY DEF Places, FrameEnd
    <3>2. CASE i = 1
      <4>1. Image(of[1], of[1])[1] = Header /\ Image(of[4], of[4])[1] = Header
        BY <3>1, <3>2, ImageCells
      <4> QED BY <4>1, <3>1, <3>2
    <3>3. CASE i # 1
      <4>1. of[i] = of[4]
        BY <3>1, <3>3, <2>7
      <4> QED BY <4>1, <3>1
    <3> QED BY <3>2, <3>3
  <2> HIDE DEF same
  <2>10. ASSUME NEW i \in 1 .. Len(image)
         PROVE  image[i] = IF i <= FrameEnd THEN Image(same[i], same[i])[i] ELSE Zero
    <3>1. CASE i <= FrameEnd
      <4>1. i \in Places
        BY <3>1, <2>1 DEF Places
      <4> QED BY <4>1, <3>1, <2>2, <2>9
    <3>2. CASE ~ i <= FrameEnd
      BY <3>2, <2>1
    <3> QED BY <3>1, <3>2
  <2>11. Laid(image, FrameEnd, same)
    BY <2>1, <2>10 DEF Laid, FrameEnd
  <2> QED BY <1>3, <2>8, <2>11 DEF Shape, FrameEnd
<1> QED BY <1>2, <1>3

-----------------------------------------------------------------------------
(* What the checks of an interrupted first start make of such an image.    *)

LEMMA SafePlain ==
  ASSUME NEW n \in Names, n # Restart, NEW b \in Boots, NEW image \in Images, Shape(n, image, b)
  PROVE  PlainFragment(image, Expected(n, b))
<1> DEFINE expected == Image(0, 0)
<1>1. /\ Expected(n, b) = expected /\ expected \in Seq(Cells) /\ Len(expected) = Full
      /\ expected[6] = Zero
  BY ImageCells, BootAssumption DEF Expected, Owners
<1>2. PICK solid \in 0 .. FrameEnd : Laid(image, solid, [i \in Places |-> 0])
  BY DEF Shape
<1>3. /\ Len(image) \in {solid, Full} /\ (solid = 0 => image = <<>>)
      /\ \A i \in 1 .. Len(image) : image[i] = IF i <= solid THEN expected[i] ELSE Zero
  <2>1. \A i \in 1 .. FrameEnd : [j \in Places |-> 0][i] = 0
    BY DEF Places
  <2> DEFINE of == [j \in Places |-> 0]
  <2>2. Laid(image, solid, of)
    BY <1>2
  <2> HIDE DEF of
  <2>3. /\ Len(image) \in {solid, Full} /\ (solid = 0 => image = <<>>)
        /\ \A i \in 1 .. Len(image) : image[i] = IF i <= solid THEN Image(of[i], of[i])[i] ELSE Zero
    BY <2>2 DEF Laid
  <2>4. \A i \in 1 .. Len(image) : i <= solid => of[i] = 0
    BY <2>1 DEF of, FrameEnd
  <2> QED BY <2>3, <2>4
<1>4. image \in Seq(Cells) /\ Len(image) \in 0 .. Full
  BY DEF Images
<1> HIDE DEF expected
<1>5. CASE Len(image) = solid
  <2>1. Len(image) <= Len(expected) /\ \A i \in 1 .. Len(image) : image[i] = expected[i]
    BY <1>1, <1>3, <1>4, <1>5 DEF FrameEnd, Full
  <2>2. SubSeq(image, 1, Len(image)) = SubSeq(expected, 1, Len(image))
    <3>1. /\ SubSeq(image, 1, Len(image)) \in Seq(Cells)
          /\ SubSeq(expected, 1, Len(image)) \in Seq(Cells)
          /\ Len(SubSeq(image, 1, Len(image))) = Len(image)
          /\ Len(SubSeq(expected, 1, Len(image))) = Len(image)
          /\ \A i \in 1 .. Len(image) :
               SubSeq(image, 1, Len(image))[i] = SubSeq(expected, 1, Len(image))[i]
      BY <2>1, <1>1, <1>4
    <3> QED BY <3>1, SeqEqual
  <2> QED BY <1>1, <2>1, <2>2 DEF PlainFragment, IsPrefix
<1>6. CASE Len(image) = Full /\ Len(image) # solid
  <2>1. solid \in 1 .. Full
    <3>1. Len(<<>>) = 0
      OBVIOUS
    <3> QED BY <1>3, <1>6, <3>1 DEF FrameEnd, Full
  <2> DEFINE padded == SubSeq(expected, 1, solid) \o Zeros(Full - solid)
  <2>2. /\ padded \in Seq(Cells) /\ Len(padded) = Full
        /\ \A i \in 1 .. Full : padded[i] = IF i <= solid THEN expected[i] ELSE Zero
    <3>1. solid \in 0 .. Full /\ solid <= Len(expected)
      BY <2>1, <1>1 DEF Full
    <3>2. \A p : p = SubSeq(expected, 1, solid) \o Zeros(Full - solid) =>
            /\ p \in Seq(Cells) /\ Len(p) = Full
            /\ \A i \in 1 .. Full : p[i] = IF i <= solid THEN expected[i] ELSE Zero
      BY <3>1, <1>1, PaddedCells
    <3> HIDE DEF padded
    <3>3. padded = SubSeq(expected, 1, solid) \o Zeros(Full - solid)
      BY DEF padded
    <3> QED BY <3>2, <3>3
  <2> HIDE DEF padded
  <2>3. image = padded
    BY <1>3, <1>4, <1>6, <2>2, SeqEqual
  <2> QED BY <1>1, <2>1, <2>3 DEF PlainFragment, padded
<1> QED BY <1>3, <1>5, <1>6

LEMMA MaxIs ==
  ASSUME NEW D \in SUBSET Int, NEW m \in D, \A y \in D : m >= y
  PROVE  Max(D) = m
<1>1. \E x \in D : \A y \in D : x >= y
  OBVIOUS
<1>2. Max(D) \in D /\ \A y \in D : Max(D) >= y
  BY <1>1 DEF Max
<1>3. Max(D) \in Int /\ m \in Int /\ Max(D) >= m /\ m >= Max(D)
  BY <1>2
<1> QED BY <1>3

LEMMA MinIs ==
  ASSUME NEW D \in SUBSET Int, NEW m \in D, \A y \in D : m <= y
  PROVE  Min(D) = m
<1>1. \E x \in D : \A y \in D : x =< y
  OBVIOUS
<1>2. Min(D) \in D /\ \A y \in D : Min(D) =< y
  BY <1>1 DEF Min
<1>3. Min(D) \in Int /\ m \in Int /\ Min(D) <= m /\ m <= Min(D)
  BY <1>2
<1> QED BY <1>3

(* Cell i of an initial image of boot q.                                   *)
LEMMA OwnCell ==
  ASSUME NEW q \in Owners
  PROVE  /\ \A i \in Places : Image(q, q)[i] \in Cells /\ Image(q, q)[i] # Zero
         /\ Image(q, q)[1] = Header /\ Image(q, q)[4].kind = "half"
<1>1. /\ Image(q, q)[1] = Header /\ Image(q, q)[2] = Digest(q, q)
      /\ Image(q, q)[3] = Digest(q, q) /\ Image(q, q)[4] = Half(q) /\ Image(q, q)[5] = Half(q)
  BY ImageCells
<1>2. /\ Header # Zero /\ Digest(q, q) # Zero /\ Half(q) # Zero
      /\ Half(q).kind = "half"
      /\ Header \in Cells /\ Digest(q, q) \in Cells /\ Half(q) \in Cells
  <2>1. /\ Zero.kind = "zero" /\ Header.kind = "header"
        /\ Digest(q, q).kind = "digest" /\ Half(q).kind = "half"
    BY DEF Header, Zero, Digest, Half, Cell
  <2> QED BY <2>1, CellTypes
<1> QED BY <1>1, <1>2 DEF Places, FrameEnd

LEMMA RestartFragmentOf ==
  ASSUME NEW image \in Seq(Cells), NEW solid \in 0 .. 4, NEW of \in [Places -> Owners],
         Len(image) = solid, \A i \in 1 .. solid : image[i] = Image(of[i], of[i])[i]
  PROVE  RestartFragment(image)
<1>1. CASE solid <= 1
  <2>1. CASE solid = 0
    <3>1. SubSeq(image, 1, 0) = <<>> /\ SubSeq(<<Header>>, 1, 0) = <<>>
      BY SubSeqEmpty
    <3>2. IsPrefix(image, <<Header>>)
      BY <2>1, <3>1 DEF IsPrefix
    <3> QED BY <2>1, <3>2 DEF RestartFragment
  <2>2. CASE solid = 1
    <3>1. image[1] = Header
      BY <2>2, OwnCell DEF Places, FrameEnd
    <3>2. image = <<Header>>
      BY <2>2, <3>1, CellTypes
    <3>3. IsPrefix(image, <<Header>>)
      BY <2>2, <3>2 DEF IsPrefix
    <3> QED BY <2>2, <3>3 DEF RestartFragment
  <2> QED BY <1>1, <2>1, <2>2
<1>2. CASE ~ solid <= 1
  <2>1. image[1] = Header
    BY <1>2, OwnCell DEF Places, FrameEnd
  <2>2. Min({FrameEnd, solid}) = solid
    <3>1. {FrameEnd, solid} \in SUBSET Int /\ solid \in {FrameEnd, solid}
          /\ \A y \in {FrameEnd, solid} : solid <= y
      BY DEF FrameEnd
    <3> QED BY <3>1, MinIs
  <2>3. ASSUME NEW i \in 4 .. Min({FrameEnd, Len(image)}) PROVE image[i].kind = "half"
    <3>1. i = 4 /\ 4 \in 1 .. solid /\ of[4] \in Owners
      BY <2>2 DEF Places, FrameEnd
    <3> QED BY <3>1, OwnCell
  <2>4. ~ Len(image) >= FrameEnd /\ ~ Len(image) = Full /\ ~ Len(image) <= 1
    BY <1>2 DEF FrameEnd, Full
  <2> QED BY <2>1, <2>3, <2>4 DEF RestartFragment
<1> QED BY <1>1, <1>2

LEMMA RewriteFragmentOf ==
  ASSUME NEW image \in Seq(Cells), NEW of \in [Places -> Owners], NEW b \in Owners,
         Len(image) \in {FrameEnd, Full}, Rewritten(of, b),
         \A i \in 1 .. Len(image) :
           image[i] = IF i <= FrameEnd THEN Image(of[i], of[i])[i] ELSE Zero
  PROVE  RewriteFragment(image, Image(b, b))
<1>1. PICK p \in Owners, cut \in 0 .. FrameEnd :
        \A i \in Places : of[i] = IF i <= cut THEN b ELSE p
  BY DEF Rewritten
<1> DEFINE size == Len(image)
<1>2. size \in Nat /\ size >= FrameEnd /\ size \in {FrameEnd, Full} /\ size <= Full
  <2>1. size \in {FrameEnd, Full}
    OBVIOUS
  <2> HIDE DEF size
  <2> QED BY <2>1 DEF FrameEnd, Full
<1> DEFINE left == of[4]
           right == of[5]
           previous == Image(left, right)
           new == Image(b, b)
           base == SubSeq(previous, 1, size)
           over == Overlaid(base, new, cut)
<1>3. left \in Owners /\ right \in Owners
  BY DEF Places, FrameEnd
<1>4. /\ image[4] = Half(left) /\ image[5] = Half(right)
      /\ image[4].kind = "half" /\ image[5].kind = "half"
      /\ image[4].of[1] = left /\ image[5].of[1] = right
  <2>1. 4 \in 1 .. size /\ 5 \in 1 .. size /\ 4 <= FrameEnd /\ 5 <= FrameEnd
    BY <1>2 DEF FrameEnd
  <2>2. image[4] = Half(left) /\ image[5] = Half(right)
    BY <2>1, <1>3, ImageCells
  <2> HIDE DEF left, right
  <2> QED BY <2>2 DEF Half, Cell
<1> HIDE DEF left, right, size
<1>5. /\ previous \in Seq(Cells) /\ Len(previous) = Full
      /\ new \in Seq(Cells) /\ Len(new) = Full
  BY <1>3, ImageCells
<1> HIDE DEF previous, new
<1>6. /\ base \in Seq(Cells) /\ Len(base) = size
      /\ \A i \in 1 .. size : base[i] = previous[i]
  <2>1. size \in 0 .. Len(previous)
    BY <1>2, <1>5
  <2> QED BY <2>1, <1>5
<1> HIDE DEF base
<1>7. /\ over \in Seq(Cells) /\ Len(over) = size
      /\ \A i \in 1 .. size : over[i] = IF i <= cut THEN new[i] ELSE base[i]
  <2>1. cut \in 0 .. Len(new)
    BY <1>5 DEF FrameEnd, Full
  <2>2. /\ over \in Seq(Cells)
        /\ Len(over) = IF cut >= Len(base) THEN cut ELSE Len(base)
        /\ \A i \in 1 .. Len(over) : over[i] = IF i <= cut THEN new[i] ELSE base[i]
    BY <2>1, <1>5, <1>6, OverlaidCells
  <2> HIDE DEF over
  <2>3. (IF cut >= size THEN cut ELSE size) = size
    BY <1>2 DEF FrameEnd
  <2> QED BY <2>2, <2>3, <1>6
<1> HIDE DEF over
<1>8. ASSUME NEW i \in 1 .. size PROVE image[i] = over[i]
  <2>1. i \in {1, 2, 3, 4, 5, 6}
    BY <1>2 DEF Full
  <2>2. image[i] = IF i <= FrameEnd THEN Image(of[i], of[i])[i] ELSE Zero
    BY DEF size
  <2>3. over[i] = IF i <= cut THEN new[i] ELSE previous[i]
    BY <1>6, <1>7
  <2>4. CASE i <= cut
    <3>1. i \in Places /\ i <= FrameEnd
      BY <2>1, <2>4 DEF Places, FrameEnd
    <3>2. of[i] = b
      BY <1>1, <2>4, <3>1
    <3> QED BY <2>2, <2>3, <2>4, <3>1, <3>2 DEF new
  <2>5. CASE ~ i <= cut /\ i \in {1, 2, 3}
    <3>1. i \in Places /\ i <= FrameEnd /\ 4 \in Places /\ 5 \in Places /\ ~ 4 <= cut /\ ~ 5 <= cut
      BY <2>5 DEF Places, FrameEnd
    <3>2. of[i] = p /\ left = p /\ right = p
      BY <1>1, <2>5, <3>1 DEF left, right
    <3> QED BY <2>2, <2>3, <2>5, <3>1, <3>2 DEF previous
  <2>6. CASE ~ i <= cut /\ i \in {4, 5}
    <3>1. i \in Places /\ i <= FrameEnd
      BY <2>6 DEF Places, FrameEnd
    <3>2. previous[4] = Half(left) /\ previous[5] = Half(right)
      BY <1>3, ImageCells DEF previous
    <3> QED BY <2>2, <2>3, <2>6, <3>1, <3>2, <1>4
  <2>7. CASE ~ i <= cut /\ i = 6
    <3>1. previous[6] = Zero /\ ~ 6 <= FrameEnd
      BY <1>3, ImageCells DEF previous, FrameEnd
    <3> QED BY <2>2, <2>3, <2>7, <3>1
  <2> QED BY <2>1, <2>4, <2>5, <2>6, <2>7
<1>9. image = over
  BY <1>7, <1>8, SeqEqual DEF size
<1>10. cut \in 0 .. Len(image)
  BY <1>2 DEF size, FrameEnd
<1> QED BY <1>2, <1>4, <1>9, <1>10 DEF RewriteFragment, over, base, previous, new, size

LEMMA SafeRestart ==
  ASSUME NEW b \in Boots, NEW image \in Images, Shape(Restart, image, b)
  PROVE  SafeFragment(Restart, image, Expected(Restart, b))
<1>1. PICK solid \in 0 .. FrameEnd, of \in [Places -> Owners] :
        Laid(image, solid, of) /\ (solid = FrameEnd => Rewritten(of, b))
  BY DEF Shape
<1>2. Len(image) \in {solid, Full} /\ (solid = 0 => image = <<>>)
  BY <1>1 DEF Laid
<1>3. \A i \in 1 .. Len(image) : image[i] = IF i <= solid THEN Image(of[i], of[i])[i] ELSE Zero
  BY <1>1 DEF Laid
<1>4. image \in Seq(Cells) /\ Expected(Restart, b) = Image(b, b) /\ b \in Owners
  BY DEF Images, Expected, Boots, Owners
<1>5. ASSUME Len(image) = Full
      PROVE  /\ image[Full] = Zero /\ solid # 0
             /\ Solid(image) = SubSeq(image, 1, solid)
  <2>1. image[Full] = Zero
    <3>1. Full \in 1 .. Full /\ ~ Full <= solid
      BY DEF Full, FrameEnd
    <3> QED BY <3>1, <1>3, <1>5
  <2>2. solid # 0
    <3>1. Len(<<>>) = 0 /\ Full # 0
      BY DEF Full
    <3> QED BY <3>1, <1>2, <1>5
  <2> DEFINE D == {0} \cup {i \in 1 .. Len(image) : image[i] # Zero}
  <2>3. ASSUME NEW i \in 1 .. Full PROVE image[i] # Zero <=> i <= solid
    <3>1. CASE i <= solid
      <4>1. i \in Places /\ of[i] \in Owners
        BY <3>1 DEF Places, FrameEnd
      <4>2. image[i] = Image(of[i], of[i])[i]
        BY <3>1, <1>3, <1>5
      <4> QED BY <3>1, <4>1, <4>2, OwnCell
    <3>2. CASE ~ i <= solid
      BY <3>2, <1>3, <1>5
    <3> QED BY <3>1, <3>2
  <2>4. D = 0 .. solid
    <3>1. D = {0} \cup {i \in 1 .. Full : i <= solid}
      BY <1>5, <2>3
    <3> HIDE DEF D
    <3> QED BY <3>1 DEF FrameEnd, Full
  <2>5. Max(0 .. solid) = solid
    <3>1. 0 .. solid \in SUBSET Int /\ solid \in 0 .. solid /\ \A y \in 0 .. solid : solid >= y
      OBVIOUS
    <3> QED BY <3>1, MaxIs
  <2> HIDE DEF D
  <2>6. Max(D) = solid
    BY <2>4, <2>5
  <2>7. Solid(image) = SubSeq(image, 1, solid)
    BY <2>6 DEF Solid, D
  <2> QED BY <2>1, <2>2, <2>7
<1>6. CASE solid # FrameEnd
  <2>1. solid \in 0 .. 4 /\ solid < FrameEnd /\ solid # Full
    BY <1>6 DEF FrameEnd, Full
  <2>2. CASE Len(image) = Full
    <3> DEFINE part == SubSeq(image, 1, solid)
    <3>1. /\ part \in Seq(Cells) /\ Len(part) = solid
          /\ \A i \in 1 .. solid : part[i] = image[i]
      <4>1. solid \in 0 .. Len(image)
        BY <2>2 DEF Full, FrameEnd
      <4> QED BY <4>1, <1>4
    <3>2. \A i \in 1 .. solid : i \in 1 .. Len(image) /\ i <= solid
      BY <2>1, <2>2 DEF Full
    <3> HIDE DEF part
    <3>3. \A i \in 1 .. solid : part[i] = Image(of[i], of[i])[i]
      BY <3>1, <3>2, <1>3
    <3>4. RestartFragment(part)
      BY <2>1, <3>1, <3>3, RestartFragmentOf
    <3>5. Solid(image) = part /\ image[Full] = Zero /\ solid # 0
      BY <1>5, <2>2 DEF part
    <3>6. Solid(image) # <<>> /\ Len(Solid(image)) < FrameEnd
      <4>1. Len(<<>>) = 0
        OBVIOUS
      <4> QED BY <4>1, <3>1, <3>5, <2>1
    <3> QED BY <2>2, <3>4, <3>5, <3>6 DEF SafeFragment
  <2>3. CASE Len(image) # Full
    <3>1. Len(image) = solid
      BY <2>3, <1>2
    <3>2. \A i \in 1 .. solid : image[i] = Image(of[i], of[i])[i]
      BY <3>1, <1>3
    <3>3. RestartFragment(image)
      BY <2>1, <3>1, <3>2, <1>4, RestartFragmentOf
    <3> QED BY <2>3, <3>3 DEF SafeFragment
  <2> QED BY <2>2, <2>3
<1>7. CASE solid = FrameEnd
  <2>1. Len(image) \in {FrameEnd, Full} /\ Rewritten(of, b)
    BY <1>1, <1>2, <1>7
  <2>2. \A i \in 1 .. Len(image) :
           image[i] = IF i <= FrameEnd THEN Image(of[i], of[i])[i] ELSE Zero
    BY <1>3, <1>7
  <2>3. RewriteFragment(image, Expected(Restart, b))
    BY <2>1, <2>2, <1>4, RewriteFragmentOf
  <2>4. ASSUME Len(image) = Full
        PROVE  image[Full] = Zero /\ Solid(image) # <<>> /\ ~ Len(Solid(image)) < FrameEnd
    <3>1. image[Full] = Zero /\ Solid(image) = SubSeq(image, 1, solid)
      BY <1>5, <2>4
    <3>2. Len(SubSeq(image, 1, solid)) = solid
      <4>1. solid \in 0 .. Len(image)
        BY <2>4 DEF Full, FrameEnd
      <4> QED BY <4>1, <1>4
    <3>3. Len(<<>>) = 0 /\ FrameEnd # 0 /\ ~ FrameEnd < FrameEnd
      BY DEF FrameEnd
    <3> QED BY <3>1, <3>2, <3>3, <1>7
  <2> QED BY <2>3, <2>4 DEF SafeFragment
<1> QED BY <1>6, <1>7

LEMMA ShapeIsSafe ==
  ASSUME NEW n \in Names, NEW b \in Boots, NEW image \in Images, Shape(n, image, b)
  PROVE  SafeFragment(n, image, Expected(n, b))
<1>1. CASE n = Restart
  BY <1>1, SafeRestart
<1>2. CASE n # Restart
  BY <1>2, SafePlain DEF SafeFragment
<1> QED BY <1>1, <1>2

-----------------------------------------------------------------------------
(* Images that commits leave.                                              *)

LEMMA DecodedIsFull ==
  ASSUME NEW image, Decodes(image)
  PROVE  Len(image) = Full /\ image # <<>>
BY DEF Decodes, Full

LEMMA ExpectedDecodes ==
  ASSUME NEW n, NEW b \in Boots
  PROVE  Decodes(Expected(n, b))
<1> DEFINE q == IF n = Restart THEN b ELSE 0
<1>1. Expected(n, b) = Image(q, q) /\ q \in Owners
  BY ExpectedType
<1> HIDE DEF q
<1>2. /\ Len(Image(q, q)) = Full /\ Image(q, q)[1] = Header
      /\ Image(q, q)[2] = Digest(q, q) /\ Image(q, q)[3] = Digest(q, q)
      /\ Image(q, q)[4] = Half(q) /\ Image(q, q)[5] = Half(q)
  BY <1>1, ImageCells
<1>3. Half(q).kind = "half" /\ Half(q).of[1] = q
  BY DEF Half, Cell
<1>4. \A i \in 2 .. 3 : Image(q, q)[i] = Digest(q, q)
  BY <1>2
<1>5. Full >= FrameEnd
  BY DEF Full, FrameEnd
<1>6. InitialFrame(Image(q, q))
  BY <1>2, <1>3, <1>4, <1>5 DEF InitialFrame
<1> QED BY <1>1, <1>2, <1>6 DEF Decodes

LEMMA StagedImage ==
  ASSUME NEW image \in Images, Decodes(image), NEW whole \in BOOLEAN
  PROVE  /\ Staged(image, whole) \in Images /\ Decodes(Staged(image, whole))
         /\ Staged(image, whole)[Full] \in {Second, Torn}
<1>1. /\ image \in Seq(Cells) /\ Len(image) = Full
      /\ \A i \in 1 .. Full : image[i] \in Cells
  BY DecodedIsFull DEF Images
<1>2. Second # Torn /\ Second \in Cells /\ Torn \in Cells /\ Newer \in Cells
  BY CellTypes DEF Second, Torn, Cell
<1>3. CASE image[Full] # Second
  <2> DEFINE last == IF whole THEN Second ELSE Torn
             new == [image EXCEPT ![Full] = last]
  <2>1. last \in Cells /\ last \in {Second, Torn} /\ Full \in 1 .. Len(image)
    BY <1>1, <1>2 DEF Full
  <2> HIDE DEF last
  <2>2. /\ new \in Seq(Cells) /\ Len(new) = Full
        /\ \A i \in 1 .. Full : new[i] = IF i = Full THEN last ELSE image[i]
    BY <2>1, <1>1, ExceptSeq
  <2>3. Staged(image, whole) = new
    BY <1>3 DEF Staged, last
  <2> HIDE DEF new
  <2>4. new[Full] = last /\ \A i \in 1 .. FrameEnd : new[i] = image[i]
    BY <2>2 DEF Full, FrameEnd
  <2>5. new[1] = image[1] /\ new[4] = image[4] /\ new[5] = image[5]
        /\ \A i \in 2 .. 3 : new[i] = image[i]
    BY <2>4 DEF FrameEnd
  <2>6. InitialFrame(image) => InitialFrame(new)
    <3>1. Full >= FrameEnd
      BY DEF Full, FrameEnd
    <3> QED BY <2>2, <2>5, <3>1 DEF InitialFrame
  <2>7. Decodes(new)
    BY <1>3, <2>2, <2>4, <2>6 DEF Decodes
  <2>8. new \in Images
    <3>1. Full <= Full
      BY DEF Full
    <3>2. Len(new) <= Full
      BY <3>1, <2>2
    <3> QED BY <3>2, <2>2 DEF Images
  <2> QED BY <2>1, <2>3, <2>4, <2>7, <2>8
<1>4. CASE image[Full] = Second
  <2> DEFINE new == [i \in 1 .. Full |-> IF i = 1 \/ (i < Full /\ whole) THEN Newer ELSE image[i]]
  <2>1. new \in [1 .. Full -> Cells]
    BY <1>1, <1>2
  <2>2. new \in Seq(Cells) /\ Len(new) = Full
    BY <2>1 DEF Full
  <2>3. new[Full] = Second
    BY <1>4 DEF Full
  <2>4. Staged(image, whole) = new
    BY <1>4 DEF Staged
  <2> HIDE DEF new
  <2>5. Decodes(new)
    BY <2>2, <2>3 DEF Decodes
  <2>6. new \in Images
    <3>1. Full <= Full
      BY DEF Full
    <3>2. Len(new) <= Full
      BY <3>1, <2>2
    <3> QED BY <3>2, <2>2 DEF Images
  <2> QED BY <2>3, <2>4, <2>5, <2>6
<1> QED BY <1>3, <1>4

(* No frame a commit wrote is part of an initial image.                    *)
LEMMA StagedIsNotInitial ==
  ASSUME NEW image \in Images, Len(image) = Full, image[Full] \in {Second, Torn}
  PROVE  ~ PlainFragment(image, Image(0, 0))
<1> DEFINE expected == Image(0, 0)
<1>1. expected \in Seq(Cells) /\ Len(expected) = Full /\ expected[6] = Zero
  BY ImageCells, BootAssumption DEF Owners
<1>2. image[6] # Zero /\ image \in Seq(Cells) /\ Len(image) = 6
  BY DEF Images, Full, Second, Torn, Zero, Cell
<1> HIDE DEF expected
<1>3. ~ IsPrefix(image, expected)
  <2> SUFFICES ASSUME IsPrefix(image, expected) PROVE FALSE
    OBVIOUS
  <2>1. SubSeq(image, 1, 6) = SubSeq(expected, 1, 6)
    BY <1>2 DEF IsPrefix
  <2>2. SubSeq(image, 1, 6)[6] = image[6] /\ SubSeq(expected, 1, 6)[6] = expected[6]
    BY <1>1, <1>2 DEF Full
  <2> QED BY <2>1, <2>2, <1>1, <1>2
<1>4. ASSUME NEW cut \in 1 .. Full, image = SubSeq(expected, 1, cut) \o Zeros(Full - cut)
      PROVE  FALSE
  <2>1. cut \in 0 .. Full /\ cut <= Len(expected) /\ 6 \in 1 .. Full
    BY <1>1 DEF Full
  <2>2. \A i \in 1 .. Full : image[i] = IF i <= cut THEN expected[i] ELSE Zero
    <3>1. \A p : p = SubSeq(expected, 1, cut) \o Zeros(Full - cut) =>
            /\ p \in Seq(Cells) /\ Len(p) = Full
            /\ \A i \in 1 .. Full : p[i] = IF i <= cut THEN expected[i] ELSE Zero
      <4>1. expected \in Seq(Cells) /\ cut \in 0 .. Full /\ cut <= Len(expected)
        BY <2>1, <1>1
      <4> QED BY <4>1, PaddedCells
    <3> QED BY <3>1, <1>4
  <2> QED BY <2>1, <2>2, <1>1, <1>2
<1> QED BY <1>3, <1>4 DEF PlainFragment, expected

(* What is read at the cursor, in any boot.                                *)
WholeCursor(image) ==
  /\ image # <<>> /\ Decodes(image)
  /\ image = Image(0, 0) \/ ~ PlainFragment(image, Image(0, 0))

LEMMA CursorIsWhole == CursorPresent <=> Cursor \in listed /\ WholeCursor(cache[Cursor])
BY DEF CursorPresent, CursorWhole, CursorReads, WholeCursor, Expected, Cursor, Restart

LEMMA ExpectedCursorIsWhole ==
  ASSUME NEW b \in Boots
  PROVE  Expected(Cursor, b) = Image(0, 0) /\ WholeCursor(Expected(Cursor, b))
<1>1. Expected(Cursor, b) = Image(0, 0)
  BY DEF Expected, Cursor, Restart
<1> QED BY <1>1, ExpectedDecodes, DecodedIsFull DEF WholeCursor

LEMMA StagedCursorIsWhole ==
  ASSUME NEW image \in Images, Decodes(image), NEW whole \in BOOLEAN
  PROVE  WholeCursor(Staged(image, whole))
<1>1. /\ Staged(image, whole) \in Images /\ Decodes(Staged(image, whole))
      /\ Staged(image, whole)[Full] \in {Second, Torn}
  BY StagedImage
<1>2. Len(Staged(image, whole)) = Full /\ Staged(image, whole) # <<>>
  BY <1>1, DecodedIsFull
<1> HIDE DEF Staged
<1> QED BY <1>1, <1>2, StagedIsNotInitial DEF WholeCursor

-----------------------------------------------------------------------------
(* Types.                                                                  *)

LEMMA PathNames ==
  /\ Names = Data \cup {Cursor} /\ Restart \in Data /\ Cursor \notin Data
  /\ DataNames[1] \in Data /\ Last(DataNames) \in Data
<1>1. /\ DataNames \in Seq(STRING) /\ Len(DataNames) \in Nat
      /\ DOMAIN DataNames = 1 .. Len(DataNames)
  BY DataNamesAssumption
<1>2. \A n : n \in Data <=> \E i \in 1 .. Len(DataNames) : DataNames[i] = n
  BY <1>1 DEF Data, Range
<1>3. Restart \in Data /\ Cursor \notin Data
  BY <1>2, DataNamesAssumption DEF Contains
<1>4. 1 \in 1 .. Len(DataNames) /\ Len(DataNames) \in 1 .. Len(DataNames)
  BY <1>1, <1>2, <1>3
<1> QED BY <1>2, <1>3, <1>4 DEF Names, Data, Last

(* Where the loop over JOURNAL_DATA_NAMES goes after a path.               *)
LEMMA AdvanceTo ==
  ASSUME path \in Names, Advance
  PROVE  \/ path = Cursor /\ pc' = "confirm" /\ path' = path
         \/ path \in Data /\ pc' = "settle" /\ path' = path
         \/ path \in Data /\ pc' = "paths" /\ path' \in Data
<1>1. CASE path = Cursor
  <2>1. path # Last(DataNames)
    BY <1>1, PathNames
  <2> QED BY <1>1, <2>1 DEF Advance
<1>2. CASE path # Cursor
  <2>1. path \in Data
    BY <1>2, PathNames
  <2>2. CASE path = Last(DataNames)
    BY <1>2, <2>1, <2>2 DEF Advance
  <2>3. CASE path # Last(DataNames)
    <3> DEFINE Follows(i) == DataNames[i - 1] = path
               next == CHOOSE i \in 2 .. Len(DataNames) : Follows(i)
    <3>1. /\ Len(DataNames) \in Nat /\ DOMAIN DataNames = 1 .. Len(DataNames)
      BY DataNamesAssumption
    <3>2. PICK j \in 1 .. Len(DataNames) : DataNames[j] = path
      BY <2>1, <3>1 DEF Data, Range
    <3>3. j # Len(DataNames)
      BY <2>3, <3>2 DEF Last
    <3>4. j + 1 \in 2 .. Len(DataNames) /\ (j + 1) - 1 = j
      <4>1. \A k \in Nat : \A i \in 1 .. k : i # k => i + 1 \in 2 .. k /\ (i + 1) - 1 = i
        OBVIOUS
      <4> QED BY <4>1, <3>1, <3>2, <3>3, Zenon
    <3>5. \E i \in 2 .. Len(DataNames) : Follows(i)
      BY <3>2, <3>4
    <3> HIDE DEF Follows
    <3>6. next \in 2 .. Len(DataNames)
      BY <3>5
    <3>7. DataNames[next] \in Data
      <4> HIDE DEF next
      <4>1. next \in DOMAIN DataNames
        BY <3>1, <3>6
      <4> QED BY <4>1 DEF Data, Range
    <3>8. pc' = "paths" /\ path' = DataNames[next]
      BY <1>2, <2>3 DEF Advance, Follows
    <3> QED BY <2>1, <3>7, <3>8
  <2> QED BY <2>2, <2>3
<1> QED BY <1>1, <1>2

LEMMA OverlaidType ==
  ASSUME NEW image \in Images, NEW new \in Images, NEW cut \in 0 .. Len(new)
  PROVE  /\ Overlaid(image, new, cut) \in Images
         /\ Len(image) <= Len(Overlaid(image, new, cut))
<1>1. /\ image \in Seq(Cells) /\ new \in Seq(Cells)
      /\ Len(image) \in Nat /\ Len(new) \in Nat /\ Len(image) <= Full /\ Len(new) <= Full
  BY DEF Images
<1> DEFINE over == Overlaid(image, new, cut)
<1>2. /\ over \in Seq(Cells)
      /\ Len(over) = IF cut >= Len(image) THEN cut ELSE Len(image)
  BY <1>1, OverlaidCells
<1> HIDE DEF over
<1>3. Len(over) <= Full /\ Len(image) <= Len(over)
  BY <1>1, <1>2 DEF Full
<1> QED BY <1>2, <1>3 DEF Images, over

(* A write of the expected image, whole or cut short.                      *)
LEMMA WrittenType ==
  ASSUME NEW n \in Names, NEW b \in Boots, NEW image \in Images, NEW cut \in 0 .. Full
  PROVE  /\ Overlaid(image, Expected(n, b), cut) \in Images
         /\ Len(image) <= Len(Overlaid(image, Expected(n, b), cut))
<1>1. Expected(n, b) \in Images /\ Len(Expected(n, b)) = Full
  BY ExpectedType
<1> QED BY <1>1, OverlaidType

LEMMA RemainsType ==
  ASSUME FilesInv, NEW n \in Names, NEW left \in Remains(n)
  PROVE  left \in Images
<1>1. cache[n] \in Images /\ disk[n] \in Images
  BY DEF FilesInv
<1>2. ASSUME NEW cut \in 0 .. Len(cache[n]), left = Overlaid(disk[n], cache[n], cut)
      PROVE  left \in Images
  BY <1>1, <1>2, OverlaidType
<1>3. ASSUME NEW cut \in 1 .. Len(cache[n]), left = SubSeq(cache[n], 1, cut) \o Zeros(Full - cut)
      PROVE  left \in Images
  <2>1. cache[n] \in Seq(Cells) /\ Len(cache[n]) \in Nat /\ Len(cache[n]) <= Full
    BY <1>1 DEF Images
  <2>2. cut \in 0 .. Full /\ cut <= Len(cache[n])
    BY <2>1 DEF Full
  <2>3. left \in Seq(Cells) /\ Len(left) = Full
    <3> DEFINE image == cache[n]
    <3>1. image \in Seq(Cells) /\ cut \in 0 .. Full /\ cut <= Len(image)
      BY <2>1, <2>2
    <3> HIDE DEF image
    <3>2. \A p : p = SubSeq(image, 1, cut) \o Zeros(Full - cut) =>
            /\ p \in Seq(Cells) /\ Len(p) = Full
            /\ \A i \in 1 .. Full : p[i] = IF i <= cut THEN image[i] ELSE Zero
      BY <3>1, PaddedCells
    <3> QED BY <3>2, <1>3 DEF image
  <2>4. Full <= Full
    BY DEF Full
  <2> QED BY <2>3, <2>4 DEF Images
<1>4. ASSUME left = Zeros(Full) PROVE left \in Images
  <2>1. Full \in 0 .. Full /\ Full <= Full
    BY DEF Full
  <2> QED BY <1>4, <2>1, ZerosType DEF Images
<1> QED BY <1>2, <1>3, <1>4 DEF Remains

(* After a power loss the directory shows what was entered, and perhaps    *)
(* more; a file that was synced is as it was.                              *)
LEMMA PowerLossFiles ==
  ASSUME TypeOK, FilesInv, PowerLoss
  PROVE  /\ entered \subseteq listed' /\ listed' \subseteq listed /\ entered' = listed'
         /\ cache' = disk' /\ disk' \in [Names -> Images]
         /\ \A n \in Names \ listed' : disk'[n] = <<>>
         /\ \A n \in listed' : IF n \in Unsynced THEN disk'[n] \in Remains(n)
                               ELSE disk'[n] = disk[n] /\ disk[n] = cache[n]
         /\ narrow' \subseteq {n \in listed' : cache'[n] = <<>>}
<1>1. entered \subseteq listed /\ listed \subseteq Names
      /\ narrow \subseteq {n \in listed : cache[n] = <<>>}
  BY DEF TypeOK
<1>2. entered \subseteq listed' /\ listed' \subseteq listed /\ entered' = listed' /\ cache' = disk'
  BY <1>1 DEF PowerLoss
<1>3. PICK left \in [Unsynced -> UNION {Remains(n) : n \in Unsynced}] :
        /\ \A n \in Unsynced : left[n] \in Remains(n)
        /\ disk' = [n \in Names |-> IF n \notin listed' THEN <<>>
                                    ELSE IF n \in Unsynced THEN left[n] ELSE disk[n]]
  BY DEF PowerLoss
<1>4. Unsynced \subseteq listed
  BY DEF Unsynced
<1>5. \A n \in Unsynced : n \in Names /\ left[n] \in Images
  BY <1>1, <1>3, <1>4, RemainsType
<1>6. \A n \in Names : disk[n] \in Images /\ <<>> \in Images
  <2>1. <<>> \in Seq(Cells) /\ Len(<<>>) <= Full
    BY DEF Full
  <2> QED BY <2>1 DEF FilesInv, Images
<1>7. disk' \in [Names -> Images]
  BY <1>3, <1>5, <1>6
<1>8. \A n \in Names \ listed' : disk'[n] = <<>>
  BY <1>3
<1>9. ASSUME NEW n \in listed'
      PROVE  IF n \in Unsynced THEN disk'[n] \in Remains(n) ELSE disk'[n] = disk[n] /\ disk[n] = cache[n]
  <2>1. n \in Names /\ n \in listed
    BY <1>1, <1>2
  <2> QED BY <2>1, <1>3 DEF Unsynced
<1>10. narrow' \subseteq {n \in listed' : cache'[n] = <<>>}
  <2>1. PICK back \in SUBSET {n \in listed' : disk'[n] = <<>>} : narrow' = (narrow \cap listed') \cup back
    BY DEF PowerLoss
  <2>2. ASSUME NEW n \in narrow \cap listed' PROVE disk'[n] = <<>>
    <3>1. n \in listed /\ cache[n] = <<>> /\ n \in Names
      BY <1>1
    <3>2. disk[n] = <<>>
      <4>1. disk[n] \in Seq(Cells) /\ Len(disk[n]) <= Len(cache[n]) /\ Len(<<>>) = 0
        BY <3>1 DEF FilesInv, Images
      <4> DEFINE image == disk[n]
      <4>2. image \in Seq(Cells) /\ Len(image) <= 0
        BY <3>1, <4>1
      <4> HIDE DEF image
      <4>3. image = <<>>
        BY <4>2
      <4> QED BY <4>3 DEF image
    <3>3. n \notin Unsynced
      BY <3>1, <3>2 DEF Unsynced
    <3> QED BY <3>2, <3>3, <1>9
  <2> QED BY <2>1, <2>2, <1>2
<1> QED BY <1>2, <1>7, <1>8, <1>9, <1>10

LEMMA TypeStep ==
  ASSUME TypeOK, FilesInv, [Next]_vars
  PROVE  TypeOK' /\ FilesInv'
<1>1. /\ cache \in [Names -> Images] /\ disk \in [Names -> Images]
      /\ \A n \in Names : cache[n] \in Images /\ disk[n] \in Images /\ Len(disk[n]) <= Len(cache[n])
      /\ \A n \in Names \ listed : cache[n] = <<>>
      /\ entered \subseteq listed /\ listed \subseteq Names
      /\ narrow \subseteq {n \in listed : cache[n] = <<>>}
      /\ path \in Names /\ boot \in Boots /\ ready \in BOOLEAN /\ committed \subseteq Names
  BY DEF TypeOK, FilesInv
<1>2. \A image \in Images : Len(image) <= Full /\ Len(image) \in Nat
  BY DEF Images
<1>a. ASSUME cache' \in [Names -> Images], disk' \in [Names -> Images]
      PROVE  \A n \in Names : Len(cache'[n]) <= Full /\ Len(disk'[n]) <= Full
  BY <1>2, <1>a
<1>3. CASE Begin
  <2>1. UNCHANGED <<files, boot, ready, committed>> /\ path' \in Names
    BY <1>3, PathNames DEF Begin
  <2>2. CASE CursorPresent
    <3>1. narrow = {}
      BY <1>1, <1>3, <2>2, PathNames
         DEF Begin, Accepts, Opens, CursorPresent, CursorWhole, CursorReads, Data
    <3> QED BY <2>1, <2>2, <3>1, <1>3, <1>1, <1>a DEF Begin, TypeOK, FilesInv, files
  <2>3. CASE ~ CursorPresent
    BY <2>1, <2>3, <1>3, <1>1, <1>a DEF Begin, TypeOK, FilesInv, files
  <2> QED BY <2>2, <2>3
<1>4. CASE RepairMode
  BY <1>4, <1>1, <1>a DEF RepairMode, TypeOK, FilesInv
<1>5. CASE CreatePath
  <2>1. narrow = {} /\ cache[path] = <<>>
    BY <1>5, <1>1 DEF CreatePath, FilesInv
  <2> QED BY <2>1, <1>5, <1>1, <1>a DEF CreatePath, TypeOK, FilesInv
<1>6. CASE ChangeMode
  BY <1>6, <1>1, <1>a DEF ChangeMode, TypeOK, FilesInv
<1>7. CASE RewritePath
  BY <1>7, <1>1, <1>a DEF RewritePath, TypeOK, FilesInv, files
<1>8. CASE KeepPath
  <2>1. /\ UNCHANGED <<files, boot, ready, committed>> /\ narrow = {}
        /\ pc' \in {"confirm", "settle", "paths"} /\ path' \in Names
    BY <1>8, <1>1, AdvanceTo, PathNames DEF KeepPath, FilesInv
  <2> QED BY <2>1, <1>1, <1>a DEF TypeOK, FilesInv, files
<1>9. ASSUME NEW cut \in 0 .. Full, pc = "write",
             cache' = [cache EXCEPT ![path] = Overlaid(@, Expected(path, boot), cut)],
             pc' \in {"written", "idle"},
             UNCHANGED <<disk, listed, entered, narrow, path, boot, ready, committed>>
      PROVE  TypeOK' /\ FilesInv'
  <2> DEFINE over == Overlaid(cache[path], Expected(path, boot), cut)
  <2>1. narrow = {} /\ path \in listed
    BY <1>9 DEF TypeOK, FilesInv
  <2>2. over \in Images /\ Len(cache[path]) <= Len(over)
    BY <1>1, WrittenType
  <2> HIDE DEF over
  <2>3. cache' \in [Names -> Images] /\ \A n \in Names : cache'[n] = IF n = path THEN over ELSE cache[n]
    BY <1>1, <1>9, <2>2 DEF over
  <2>4. \A n \in Names : Len(disk'[n]) <= Len(cache'[n])
    <3> TAKE n \in Names
    <3>1. /\ Len(disk[n]) \in Nat /\ Len(cache[n]) \in Nat /\ Len(over) \in Nat
          /\ Len(disk[n]) <= Len(cache[n]) /\ disk'[n] = disk[n]
      BY <1>1, <1>2, <1>9, <2>2
    <3>2. CASE n = path
      BY <3>1, <3>2, <2>2, <2>3
    <3>3. CASE n # path
      BY <3>1, <3>3, <2>3
    <3> QED BY <3>2, <3>3
  <2> QED BY <2>1, <2>3, <2>4, <1>9, <1>1, <1>a DEF TypeOK, FilesInv
<1>10. CASE WriteImage
  <2>1. Full \in 0 .. Full
    BY DEF Full
  <2> QED BY <2>1, <1>9, <1>10 DEF WriteImage
<1>11. CASE TearImage
  <2>1. PICK cut \in 0 .. Full - 1 :
          cache' = [cache EXCEPT ![path] = Overlaid(@, Expected(path, boot), cut)]
    BY <1>11 DEF TearImage
  <2>2. cut \in 0 .. Full
    BY DEF Full
  <2> QED BY <2>1, <2>2, <1>9, <1>11 DEF TearImage
<1>12. CASE SyncPath
  <2>1. /\ UNCHANGED <<cache, listed, entered, narrow, boot, ready, committed>> /\ narrow = {}
        /\ pc' \in {"confirm", "settle", "paths"} /\ path' \in Names
    BY <1>12, <1>1, AdvanceTo, PathNames DEF SyncPath, FilesInv
  <2>2. disk' = [disk EXCEPT ![path] = cache[path]]
    BY <1>12 DEF SyncPath
  <2>3. disk' \in [Names -> Images] /\ \A n \in Names : disk'[n] = IF n = path THEN cache[n] ELSE disk[n]
    BY <1>1, <2>2
  <2>4. \A n \in Names : Len(disk'[n]) <= Len(cache'[n])
    BY <1>1, <1>2, <2>1, <2>3
  <2> QED BY <2>1, <2>3, <2>4, <1>1, <1>a DEF TypeOK, FilesInv
<1>13. CASE SyncPathFails \/ SyncDirectoryFails \/ Kill \/ UNCHANGED vars
  <2>1. /\ UNCHANGED <<files, path, boot, ready, committed>>
        /\ pc' = "idle" \/ UNCHANGED pc
    BY <1>13 DEF SyncPathFails, SyncDirectoryFails, Kill, vars, files
  <2> QED BY <2>1, <1>1, <1>a DEF TypeOK, FilesInv, files
<1>14. CASE SyncData
  BY <1>14, <1>1, <1>a, PathNames DEF SyncData, TypeOK, FilesInv
<1>15. CASE SyncLayout
  BY <1>15, <1>1, <1>a DEF SyncLayout, TypeOK, FilesInv
<1>16. ASSUME NEW name \in Names, NEW whole \in BOOLEAN, Commit(name, whole)
       PROVE  TypeOK' /\ FilesInv'
  <2> DEFINE new == Staged(cache[name], whole)
  <2>1. /\ Decodes(cache[name]) /\ pc = "idle"
        /\ cache' = [cache EXCEPT ![name] = new] /\ disk' = [disk EXCEPT ![name] = cache'[name]]
        /\ UNCHANGED <<listed, entered, narrow, pc, path, boot, ready>>
        /\ committed' \subseteq committed \cup {name}
    BY <1>16 DEF Commit
  <2>2. new \in Images /\ Len(new) = Full /\ cache[name] # <<>>
    BY <1>1, <2>1, StagedImage, DecodedIsFull
  <2> HIDE DEF new
  <2>3. /\ cache' \in [Names -> Images] /\ disk' \in [Names -> Images]
        /\ \A n \in Names : /\ cache'[n] = IF n = name THEN new ELSE cache[n]
                            /\ disk'[n] = IF n = name THEN new ELSE disk[n]
    BY <1>1, <2>1, <2>2
  <2>4. \A n \in Names : Len(disk'[n]) <= Len(cache'[n])
    <3>1. Len(new) <= Len(new)
      BY <2>2 DEF Full
    <3> QED BY <3>1, <2>3, <1>1
  <2>5. name \in listed
    BY <1>1, <2>2
  <2> QED BY <2>1, <2>2, <2>3, <2>4, <2>5, <1>1, <1>a DEF TypeOK, FilesInv
<1>17. CASE Writeback
  <2>1. UNCHANGED <<cache, listed, narrow, pc, path, boot, ready, committed>>
    BY <1>17 DEF Writeback
  <2>2. CASE entered' = listed /\ UNCHANGED disk
    BY <2>1, <2>2, <1>1, <1>a DEF TypeOK, FilesInv
  <2>3. ASSUME NEW n \in Names, disk' = [disk EXCEPT ![n] = cache[n]], UNCHANGED entered
        PROVE  TypeOK' /\ FilesInv'
    <3>1. disk' \in [Names -> Images] /\ \A m \in Names : disk'[m] = IF m = n THEN cache[m] ELSE disk[m]
      BY <1>1, <2>3
    <3>2. \A m \in Names : Len(disk'[m]) <= Len(cache'[m])
      BY <1>1, <1>2, <2>1, <3>1
    <3> QED BY <2>1, <2>3, <3>1, <3>2, <1>1, <1>a DEF TypeOK, FilesInv
  <2> QED BY <2>2, <2>3, <1>17 DEF Writeback
<1>18. ASSUME NewBoot PROVE /\ boot' \in Boots /\ ready' \in BOOLEAN /\ pc' = "idle"
                            /\ UNCHANGED <<path, committed>>
  <2>1. boot < BootMax /\ boot' = boot + 1 /\ ready' = FALSE /\ pc' = "idle"
        /\ UNCHANGED <<path, committed>>
    BY <1>18 DEF NewBoot
  <2>2. boot' \in Boots
    BY <2>1, <1>1, BootAssumption DEF Boots
  <2> QED BY <2>1, <2>2
<1>19. CASE Reboot
  <2>1. disk' = cache /\ entered' = listed /\ UNCHANGED <<cache, listed, narrow>>
    BY <1>19 DEF Reboot
  <2>2. \A n \in Names : Len(disk'[n]) <= Len(cache'[n])
    BY <1>1, <1>2, <2>1
  <2> QED BY <2>1, <2>2, <1>18, <1>19, <1>1, <1>a DEF Reboot, TypeOK, FilesInv
<1>20. CASE PowerLoss
  <2>1. /\ listed' \subseteq listed /\ entered' = listed'
        /\ cache' = disk' /\ disk' \in [Names -> Images]
        /\ \A n \in Names \ listed' : disk'[n] = <<>>
        /\ narrow' \subseteq {n \in listed' : cache'[n] = <<>>}
    BY <1>20, PowerLossFiles
  <2>2. \A n \in Names : Len(disk'[n]) <= Len(cache'[n])
    BY <1>2, <2>1
  <2>3. NewBoot
    BY <1>20 DEF PowerLoss
  <2> QED BY <2>1, <2>2, <2>3, <1>18, <1>1, <1>a DEF TypeOK, FilesInv
<1> QED
  BY <1>3, <1>4, <1>5, <1>6, <1>7, <1>8, <1>10, <1>11, <1>12, <1>13, <1>14, <1>15, <1>16,
     <1>17, <1>19, <1>20 DEF Next

-----------------------------------------------------------------------------
(* The order of the layout.                                                *)

(* Power fails only over files that are synced, or being written: without   *)
(* this a path of an interrupted initialization is adopted unsynced and    *)
(* lost again under a cursor that is not.                                  *)
NoOrphans == "orphan" \notin Faults

LEMMA CursorNextIsWhole == CursorPresent' <=> Cursor \in listed' /\ WholeCursor(cache'[Cursor])
BY DEF CursorPresent, CursorWhole, CursorReads, WholeCursor, Expected, Cursor, Restart

LEMMA SyncedByPowerLoss ==
  ASSUME NoOrphans, PowerLoss
  PROVE  \A n \in Unsynced : pc = "written" /\ n = path
BY DEF NoOrphans, PowerLoss, Orphans

LEMMA OverlaidWhole ==
  ASSUME NEW n \in Names, NEW b \in Boots, NEW image \in Images
  PROVE  Overlaid(image, Expected(n, b), Full) = Expected(n, b)
<1> DEFINE new == Expected(n, b)
           over == Overlaid(image, new, Full)
<1>1. new \in Seq(Cells) /\ Len(new) = Full /\ image \in Seq(Cells) /\ Len(image) <= Full
      /\ Len(image) \in Nat
  BY ExpectedType DEF Images
<1> HIDE DEF new
<1>2. Full \in 0 .. Len(new)
  BY <1>1 DEF Full
<1>3. /\ over \in Seq(Cells)
      /\ Len(over) = IF Full >= Len(image) THEN Full ELSE Len(image)
      /\ \A i \in 1 .. Len(over) : over[i] = IF i <= Full THEN new[i] ELSE image[i]
  BY <1>1, <1>2, OverlaidCells
<1> HIDE DEF over
<1>4. Len(over) = Full
  BY <1>1, <1>3 DEF Full
<1>5. \A i \in 1 .. Len(over) : over[i] = new[i]
  BY <1>3, <1>4 DEF Full
<1>6. over = new
  BY <1>1, <1>3, <1>4, <1>5, SeqEqual
<1> QED BY <1>6 DEF over, new

LEMMA LayoutFacts ==
  ASSUME LInv
  PROVE  /\ TypeOK /\ FilesInv /\ RunInv /\ CursorInv /\ CommitInv
         /\ \A n \in Names : cache[n] \in Images /\ disk[n] \in Images
         /\ entered \subseteq listed /\ listed \subseteq Names
         /\ path \in Names /\ boot \in Boots /\ committed \subseteq Names
         /\ \A n \in Names : cache[n] # <<>> => n \in listed
         /\ pc \notin {"idle", "confirm"} => ~ ready /\ committed = {}
         /\ CursorPresent => Cursor \in listed /\ Data \subseteq entered /\ Names \subseteq listed
<1>1. TypeOK /\ FilesInv /\ RunInv /\ CursorInv /\ CommitInv
  BY DEF LInv
<1>2. pc \notin {"idle", "confirm"} => ~ ready /\ committed = {}
  BY <1>1 DEF CommitInv, Established
<1>3. entered \subseteq listed
  BY <1>1 DEF TypeOK
<1>4. CursorPresent => Cursor \in listed /\ Data \subseteq entered /\ Names \subseteq listed
  BY <1>1, <1>3, PathNames DEF CursorInv, CursorPresent, CursorWhole, CursorReads
<1> QED BY <1>1, <1>2, <1>3, <1>4 DEF TypeOK, FilesInv

(* Once the layout is established nothing takes it back.                   *)
LEMMA EstablishedStays ==
  ASSUME NoOrphans, LInv, [Next]_vars, Established
  PROVE  Established'
<1>1. /\ CursorPresent /\ Cursor \in entered /\ pc \in {"idle", "confirm"}
      /\ Cursor \in listed /\ WholeCursor(cache[Cursor]) /\ Cursor \in Names
      /\ entered \subseteq listed /\ Names \subseteq listed
  BY LayoutFacts, CursorIsWhole, PathNames DEF Established
<1>2. ASSUME cache'[Cursor] = cache[Cursor], listed' = listed, Cursor \in entered',
             pc' \in {"idle", "confirm"}
      PROVE  Established'
  BY <1>1, <1>2, CursorNextIsWhole DEF Established
<1>3. CASE Begin
  BY <1>1, <1>2, <1>3 DEF Begin, files
<1>4. CASE SyncLayout
  BY <1>1, <1>2, <1>4 DEF SyncLayout
<1>5. CASE SyncDirectoryFails \/ Kill \/ UNCHANGED vars
  BY <1>1, <1>2, <1>5 DEF SyncDirectoryFails, Kill, files, vars
<1>6. ASSUME NEW name \in Names, NEW whole \in BOOLEAN, Commit(name, whole) PROVE Established'
  <2>1. /\ Decodes(cache[name]) /\ cache' = [cache EXCEPT ![name] = Staged(@, whole)]
        /\ listed' = listed /\ entered' = entered /\ pc' = pc
    BY <1>6 DEF Commit
  <2>2. cache \in [Names -> Images] /\ cache[name] \in Images
    BY LayoutFacts DEF FilesInv
  <2>3. CASE name = Cursor
    <3>1. cache'[Cursor] = Staged(cache[Cursor], whole)
      BY <2>1, <2>2, <2>3
    <3>2. WholeCursor(Staged(cache[Cursor], whole))
      BY <2>1, <2>2, <2>3, StagedCursorIsWhole
    <3>3. CursorPresent'
      BY <3>1, <3>2, <2>1, <1>1, CursorNextIsWhole
    <3> QED BY <3>3, <2>1, <1>1 DEF Established
  <2>4. CASE name # Cursor
    BY <1>1, <1>2, <2>1, <2>2, <2>4
  <2> QED BY <2>3, <2>4
<1>7. CASE Writeback
  BY <1>1, <1>2, <1>7 DEF Writeback
<1>8. CASE Reboot
  BY <1>1, <1>2, <1>8 DEF Reboot, NewBoot
<1>9. CASE PowerLoss
  <2>1. /\ entered \subseteq listed' /\ entered' = listed' /\ cache' = disk'
        /\ \A n \in listed' : n \notin Unsynced => disk'[n] = disk[n] /\ disk[n] = cache[n]
    BY <1>9, LayoutFacts, PowerLossFiles
  <2>2. Unsynced = {}
    BY <1>1, <1>9, SyncedByPowerLoss
  <2>3. Cursor \in listed' /\ cache'[Cursor] = cache[Cursor]
    BY <2>1, <2>2, <1>1
  <2>4. pc' = "idle"
    BY <1>9 DEF PowerLoss, NewBoot
  <2> QED BY <2>1, <2>3, <2>4, <1>1, CursorNextIsWhole DEF Established
<1>10. ~ (RepairMode \/ CreatePath \/ ChangeMode \/ RewritePath \/ KeepPath \/ WriteImage
          \/ TearImage \/ SyncPath \/ SyncPathFails \/ SyncData)
  BY <1>1 DEF RepairMode, CreatePath, ChangeMode, RewritePath, KeepPath, WriteImage, TearImage,
              SyncPath, SyncPathFails, SyncData
<1> QED BY <1>3, <1>4, <1>5, <1>6, <1>7, <1>8, <1>9, <1>10 DEF Next

LEMMA RunStep ==
  ASSUME NoOrphans, LInv, [Next]_vars
  PROVE  RunInv'
<1>a. /\ TypeOK /\ FilesInv /\ RunInv /\ CursorInv
      /\ \A n \in Names : cache[n] \in Images /\ disk[n] \in Images
      /\ entered \subseteq listed /\ listed \subseteq Names
      /\ path \in Names /\ boot \in Boots
      /\ \A n \in Names : cache[n] # <<>> => n \in listed
  BY LayoutFacts
<1>b. CursorPresent <=> Cursor \in listed /\ WholeCursor(cache[Cursor])
  BY CursorIsWhole
<1>c. CursorPresent' <=> Cursor \in listed' /\ WholeCursor(cache'[Cursor])
  BY CursorNextIsWhole
<1>d. Names = Data \cup {Cursor} /\ Cursor \notin Data /\ DataNames[1] \in Data
  BY PathNames
<1>1. ASSUME pc' = "idle" PROVE RunInv'
  BY <1>1 DEF RunInv, Running
<1>2. ASSUME cache'[Cursor] = cache[Cursor], Cursor \in listed' <=> Cursor \in listed
      PROVE  CursorPresent' <=> CursorPresent
  BY <1>2, <1>b, <1>c
<1>3. CASE Begin
  <2>1. UNCHANGED <<files, boot>> /\ path' # Cursor
        /\ pc' = IF CursorPresent THEN "confirm" ELSE "repair"
    BY <1>3, <1>d DEF Begin
  <2>2. CursorPresent' <=> CursorPresent
    BY <2>1, <1>2 DEF files
  <2> QED BY <2>1, <2>2 DEF RunInv, Running
<1>4. CASE RepairMode
  <2>1. UNCHANGED <<cache, listed, entered, path, boot>> /\ pc = "repair" /\ pc' \in {"paths", "repair"}
    BY <1>4 DEF RepairMode
  <2> QED BY <2>1, <1>a, <1>2 DEF RunInv, Running
<1>5. CASE CreatePath
  <2>1. UNCHANGED <<cache, entered, path, boot>> /\ pc = "paths" /\ pc' = "blank"
        /\ path \notin listed /\ listed' = listed \cup {path}
    BY <1>5 DEF CreatePath
  <2> QED BY <2>1, <1>a, <1>2 DEF RunInv, Running
<1>6. CASE ChangeMode
  <2>1. UNCHANGED <<cache, listed, entered, path, boot>> /\ pc = "blank" /\ pc' = "write"
    BY <1>6 DEF ChangeMode
  <2> QED BY <2>1, <1>a, <1>2 DEF RunInv, Running
<1>7. CASE RewritePath
  <2>1. UNCHANGED <<cache, listed, entered, path, boot>> /\ pc = "paths" /\ pc' = "write"
    BY <1>7 DEF RewritePath, files
  <2> QED BY <2>1, <1>a, <1>2 DEF RunInv, Running
<1>8. CASE KeepPath \/ SyncPath
  <2>1. /\ UNCHANGED <<cache, listed, entered, boot>> /\ pc \in {"paths", "written"} /\ Advance
        /\ path \in listed /\ cache[path] = Expected(path, boot)
    BY <1>8, <1>a DEF KeepPath, SyncPath, files, TypeOK, RunInv
  <2>2. CursorPresent' <=> CursorPresent
    BY <2>1, <1>2
  <2>3. CASE path = Cursor
    <3>1. pc' = "confirm" /\ path' = path
      BY <2>1, <2>3, <1>a, <1>d, AdvanceTo
    <3>2. CursorPresent
      BY <2>1, <2>3, <1>a, <1>b, ExpectedCursorIsWhole
    <3> QED BY <3>1, <3>2, <2>2 DEF RunInv, Running
  <2>4. CASE path \in Data
    <3>1. pc' \in {"settle", "paths"} /\ path' # Cursor
      BY <2>1, <2>4, <1>a, <1>d, AdvanceTo
    <3>2. ~ CursorPresent
      BY <2>1, <2>4, <1>a, <1>d DEF RunInv, Running
    <3> QED BY <3>1, <3>2, <2>2 DEF RunInv, Running
  <2> QED BY <2>3, <2>4, <1>a, <1>d
<1>9. CASE WriteImage
  <2>1. /\ UNCHANGED <<listed, entered, path, boot>> /\ pc = "write" /\ pc' = "written"
        /\ cache' = [cache EXCEPT ![path] = Overlaid(@, Expected(path, boot), Full)]
    BY <1>9 DEF WriteImage
  <2>2. cache' = [cache EXCEPT ![path] = Expected(path, boot)]
    BY <2>1, <1>a, OverlaidWhole
  <2>3. cache \in [Names -> Images]
    BY <1>a DEF FilesInv
  <2>4. cache'[path] = Expected(path, boot) /\ \A n \in Names \ {path} : cache'[n] = cache[n]
    BY <2>2, <2>3, <1>a
  <2>5. CASE path = Cursor
    BY <2>1, <2>4, <2>5, <1>a, <1>d DEF RunInv, Running
  <2>6. CASE path # Cursor
    <3>1. CursorPresent' <=> CursorPresent
      BY <2>1, <2>4, <2>6, <1>2, <1>d
    <3> QED BY <3>1, <2>1, <2>4, <2>6, <1>a DEF RunInv, Running
  <2> QED BY <2>5, <2>6
<1>10. CASE SyncData
  <2>1. /\ UNCHANGED <<cache, listed, boot>> /\ pc' = "paths" /\ path' = Cursor
        /\ entered' = listed /\ \A n \in Data : cache[n] = Expected(n, boot)
    BY <1>10 DEF SyncData, Data
  <2>2. \A n \in Data : n \in listed
    <3> TAKE n \in Data
    <3>1. cache[n] # <<>>
      BY <2>1, <1>a, ExpectedDecodes, DecodedIsFull
    <3> QED BY <3>1, <1>a, <1>d
  <2> QED BY <2>1, <2>2 DEF RunInv, Running
<1>11. CASE TearImage \/ SyncPathFails \/ SyncLayout \/ SyncDirectoryFails \/ Kill \/ Reboot \/ PowerLoss
  BY <1>1, <1>11 DEF TearImage, SyncPathFails, SyncLayout, SyncDirectoryFails, Kill, Reboot,
                     PowerLoss, NewBoot
<1>12. ASSUME NEW name \in Names, NEW whole \in BOOLEAN, Commit(name, whole) PROVE RunInv'
  BY <1>1, <1>12 DEF Commit
<1>13. CASE Writeback
  <2>1. UNCHANGED <<cache, listed, pc, path, boot>> /\ entered \subseteq entered'
    BY <1>13, <1>a DEF Writeback
  <2> QED BY <2>1, <1>a, <1>2 DEF RunInv, Running
<1>14. CASE UNCHANGED vars
  BY <1>14, <1>a, <1>2 DEF vars, RunInv, Running
<1> QED
  BY <1>3, <1>4, <1>5, <1>6, <1>7, <1>8, <1>9, <1>10, <1>11, <1>12, <1>13, <1>14 DEF Next

LEMMA CursorStep ==
  ASSUME NoOrphans, LInv, [Next]_vars
  PROVE  CursorInv'
<1>a. /\ TypeOK /\ FilesInv /\ RunInv /\ CursorInv
      /\ \A n \in Names : cache[n] \in Images /\ disk[n] \in Images
      /\ entered \subseteq listed /\ listed \subseteq Names
      /\ path \in Names /\ boot \in Boots
      /\ \A n \in Names : cache[n] # <<>> => n \in listed
      /\ CursorPresent => Names \subseteq listed
  BY LayoutFacts
<1>b. CursorPresent <=> Cursor \in listed /\ WholeCursor(cache[Cursor])
  BY CursorIsWhole
<1>c. CursorPresent' <=> Cursor \in listed' /\ WholeCursor(cache'[Cursor])
  BY CursorNextIsWhole
<1>d. Names = Data \cup {Cursor} /\ Cursor \notin Data
  BY PathNames
<1>1. ASSUME cache' = cache, listed' = listed, entered \subseteq entered'
      PROVE  CursorInv'
  BY <1>1, <1>a, <1>b, <1>c DEF CursorInv
<1>2. CASE CreatePath
  <2>1. UNCHANGED <<cache, entered>> /\ pc = "paths"
        /\ path \notin listed /\ listed' = listed \cup {path}
    BY <1>2 DEF CreatePath
  <2>2. CASE path = Cursor
    <3>1. cache[Cursor] = <<>>
      BY <2>1, <2>2, <1>a
    <3>2. ~ CursorPresent'
      BY <3>1, <2>1, <1>c DEF WholeCursor
    <3>3. Data \subseteq entered'
      BY <2>1, <2>2, <1>a DEF RunInv, Running
    <3> QED BY <3>2, <3>3 DEF CursorInv
  <2>3. CASE path # Cursor
    BY <2>1, <2>3, <1>a, <1>b, <1>c DEF CursorInv
  <2> QED BY <2>2, <2>3
<1>3. ASSUME pc = "write", UNCHANGED <<listed, entered>>, NEW image,
             cache' = [cache EXCEPT ![path] = image]
      PROVE  CursorInv'
  <2>1. cache \in [Names -> Images]
    BY <1>a DEF FilesInv
  <2>2. \A n \in Names \ {path} : cache'[n] = cache[n]
    BY <2>1, <1>3
  <2>3. CASE path = Cursor
    <3>1. \A n \in Data : cache'[n] = Expected(n, boot)
      BY <2>2, <2>3, <1>3, <1>a, <1>d DEF RunInv, Running
    <3> QED BY <3>1, <1>3, <1>a, ExpectedDecodes DEF CursorInv
  <2>4. CASE path # Cursor
    <3>1. ~ CursorPresent'
      BY <2>2, <2>4, <1>3, <1>a, <1>b, <1>c, <1>d DEF RunInv, Running
    <3> QED BY <3>1, <1>3, <1>a DEF CursorInv
  <2> QED BY <2>3, <2>4
<1>4. CASE WriteImage \/ TearImage
  BY <1>3, <1>4 DEF WriteImage, TearImage
<1>5. ASSUME NEW name \in Names, NEW whole \in BOOLEAN, Commit(name, whole) PROVE CursorInv'
  <2>1. /\ ready /\ Decodes(cache[name]) /\ cache' = [cache EXCEPT ![name] = Staged(@, whole)]
        /\ UNCHANGED <<listed, entered>>
    BY <1>5 DEF Commit
  <2>2. CursorPresent
    BY <2>1, LayoutFacts DEF CommitInv, Established
  <2>3. cache \in [Names -> Images]
    BY <1>a DEF FilesInv
  <2>4. \A n \in Names : cache'[n] = IF n = name THEN Staged(cache[name], whole) ELSE cache[n]
    BY <2>1, <2>3
  <2>5. \A n \in Data : Decodes(cache'[n])
    <3> TAKE n \in Data
    <3>1. Decodes(cache[n])
      BY <2>2, <1>a DEF CursorInv
    <3>2. Decodes(Staged(cache[name], whole))
      BY <2>1, <1>a, StagedImage
    <3> QED BY <3>1, <3>2, <2>4, <1>d
  <2> QED BY <2>1, <2>5, <1>a DEF CursorInv
<1>6. CASE PowerLoss
  <2>1. /\ entered \subseteq listed' /\ entered' = listed' /\ cache' = disk' /\ listed' \subseteq listed
        /\ \A n \in listed' : n \notin Unsynced => disk'[n] = disk[n] /\ disk[n] = cache[n]
    BY <1>6, <1>a, PowerLossFiles
  <2>2. \A n \in Unsynced : pc = "written" /\ n = path
    BY <1>6, SyncedByPowerLoss
  <2>3. Cursor \in listed' => Data \subseteq entered'
    BY <2>1, <1>a DEF CursorInv
  <2>4. ASSUME CursorPresent', NEW n \in Data PROVE Decodes(cache'[n])
    <3>1. Cursor \in listed' /\ n \in listed'
      BY <2>1, <2>3, <2>4, <1>c
    <3>2. CASE pc = "written" /\ path = Cursor
      <4>1. n \notin Unsynced /\ cache[n] = Expected(n, boot)
        BY <2>2, <3>2, <1>a, <1>d DEF RunInv, Running
      <4> QED BY <4>1, <3>1, <2>1, <1>a, ExpectedDecodes
    <3>3. CASE ~ (pc = "written" /\ path = Cursor)
      <4>1. Cursor \notin Unsynced
        BY <2>2, <3>3
      <4>2. CursorPresent
        BY <4>1, <3>1, <2>1, <2>4, <1>b, <1>c
      <4>3. pc # "written"
        BY <4>2, <3>3, <1>a DEF RunInv, Running
      <4>4. n \notin Unsynced
        BY <4>3, <2>2
      <4> QED BY <4>2, <4>4, <3>1, <2>1, <1>a DEF CursorInv
    <3> QED BY <3>2, <3>3
  <2> QED BY <2>3, <2>4 DEF CursorInv
<1>7. CASE \/ Begin \/ RepairMode \/ ChangeMode \/ RewritePath \/ KeepPath \/ SyncPath
           \/ SyncPathFails \/ SyncData \/ SyncLayout \/ SyncDirectoryFails \/ Kill
           \/ Writeback \/ Reboot \/ UNCHANGED vars
  <2>1. cache' = cache /\ listed' = listed /\ entered \subseteq entered'
    BY <1>7, <1>a DEF Begin, RepairMode, ChangeMode, RewritePath, KeepPath, SyncPath, SyncPathFails,
                      SyncData, SyncLayout, SyncDirectoryFails, Kill, Writeback, Reboot, files, vars
  <2> QED BY <2>1, <1>1
<1> QED BY <1>2, <1>4, <1>5, <1>6, <1>7 DEF Next

LEMMA CommitStep ==
  ASSUME NoOrphans, LInv, [Next]_vars
  PROVE  CommitInv'
<1>a. /\ TypeOK /\ FilesInv /\ CommitInv
      /\ \A n \in Names : cache[n] \in Images
      /\ listed \subseteq Names /\ committed \subseteq Names /\ path \in Names
      /\ pc \notin {"idle", "confirm"} => ~ ready /\ committed = {}
      /\ CursorPresent => Data \subseteq entered /\ Names \subseteq listed
  BY LayoutFacts
<1>b. Established => Established'
  BY EstablishedStays
<1>c. cache \in [Names -> Images]
  BY <1>a DEF FilesInv
<1>1. ASSUME committed' = committed, ready' => ready,
             \A n \in committed : n \in listed' /\ cache'[n] = cache[n]
      PROVE  CommitInv'
  BY <1>1, <1>a, <1>b DEF CommitInv, CommitsStay
<1>2. CASE SyncLayout
  <2>1. UNCHANGED <<cache, listed, committed>> /\ pc = "confirm" /\ pc' = "idle" /\ entered' = listed
    BY <1>2 DEF SyncLayout
  <2>2. CursorPresent
    BY <2>1, LayoutFacts DEF RunInv
  <2>3. Established'
    BY <2>1, <2>2, <1>a, PathNames, CursorIsWhole, CursorNextIsWhole DEF Established
  <2> QED BY <2>1, <2>3, <1>a DEF CommitInv, CommitsStay
<1>3. CASE WriteImage \/ TearImage
  <2>1. committed' = committed /\ ready' = ready /\ committed = {}
    BY <1>3, <1>a DEF WriteImage, TearImage
  <2> QED BY <2>1, <1>1
<1>4. ASSUME NEW name \in Names, NEW whole \in BOOLEAN, Commit(name, whole) PROVE CommitInv'
  <2>1. /\ ready /\ Decodes(cache[name]) /\ cache' = [cache EXCEPT ![name] = Staged(@, whole)]
        /\ listed' = listed /\ committed' \subseteq committed \cup {name}
    BY <1>4 DEF Commit
  <2>2. Established /\ CursorPresent
    BY <2>1, <1>a DEF CommitInv, Established
  <2>3. \A n \in Names : cache'[n] = IF n = name THEN Staged(cache[name], whole) ELSE cache[n]
    BY <2>1, <1>c
  <2>4. Staged(cache[name], whole)[Full] \in {Second, Torn}
    BY <2>1, <1>a, StagedImage
  <2>5. ASSUME NEW n \in committed' PROVE n \in listed' /\ cache'[n][Full] \in {Second, Torn}
    <3>1. n \in Names /\ n \in listed' /\ (n = name \/ n \in committed)
      BY <2>1, <2>2, <1>a
    <3>2. CASE n = name
      BY <3>1, <3>2, <2>3, <2>4
    <3>3. CASE n # name
      BY <3>1, <3>3, <2>3, <1>a DEF CommitInv, CommitsStay
    <3> QED BY <3>1, <3>2, <3>3
  <2> QED BY <2>2, <2>5, <1>b DEF CommitInv, CommitsStay
<1>5. CASE PowerLoss
  <2>1. /\ entered \subseteq listed' /\ cache' = disk'
        /\ \A n \in listed' : n \notin Unsynced => disk'[n] = disk[n] /\ disk[n] = cache[n]
    BY <1>5, <1>a, PowerLossFiles
  <2>2. \A n \in Unsynced : pc = "written"
    BY <1>5, SyncedByPowerLoss
  <2>3. ASSUME NEW n \in committed PROVE n \in listed' /\ cache'[n] = cache[n]
    <3>1. Established
      BY <1>a DEF CommitInv
    <3>2. n \in entered /\ n \notin Unsynced
      BY <3>1, <2>2, <1>a, PathNames DEF Established
    <3> QED BY <3>2, <2>1
  <2>4. committed' = committed /\ (ready' => ready)
    BY <1>5 DEF PowerLoss, NewBoot
  <2> QED BY <2>3, <2>4, <1>1
<1>6. CASE \/ Begin \/ RepairMode \/ CreatePath \/ ChangeMode \/ RewritePath \/ KeepPath \/ SyncPath
           \/ SyncPathFails \/ SyncData \/ SyncDirectoryFails \/ Kill \/ Writeback \/ Reboot
           \/ UNCHANGED vars
  <2>1. cache' = cache /\ listed \subseteq listed' /\ committed' = committed /\ (ready' => ready)
    BY <1>6 DEF Begin, RepairMode, CreatePath, ChangeMode, RewritePath, KeepPath, SyncPath,
                SyncPathFails, SyncData, SyncDirectoryFails, Kill, Writeback, Reboot, NewBoot,
                files, vars
  <2>2. \A n \in committed : n \in listed
    BY <1>a DEF CommitInv, CommitsStay
  <2> QED BY <2>1, <2>2, <1>1
<1> QED BY <1>2, <1>3, <1>4, <1>5, <1>6 DEF Next

LEMMA LayoutInit == Init => LInv
<1> SUFFICES ASSUME Init PROVE LInv
  OBVIOUS
<1>1. /\ cache = [n \in Names |-> <<>>] /\ disk = cache
      /\ listed = {} /\ entered = {} /\ narrow = {} /\ committed = {}
      /\ pc = "idle" /\ path = DataNames[1] /\ boot = 1 /\ ready = FALSE
  BY DEF Init
<1>2. <<>> \in Images /\ Len(<<>>) <= Full /\ Len(<<>>) <= Len(<<>>)
  <2>1. <<>> \in Seq(Cells) /\ Len(<<>>) = 0 /\ 0 <= Full
    BY DEF Full
  <2> QED BY <2>1 DEF Images
<1>3. path \in Names /\ boot \in Boots
  BY <1>1, PathNames, BootAssumption DEF Boots
<1>4. ~ CursorPresent
  BY <1>1 DEF CursorPresent, CursorWhole, CursorReads
<1>5. TypeOK
  BY <1>1, <1>2, <1>3 DEF TypeOK
<1>6. FilesInv
  BY <1>1, <1>2 DEF FilesInv
<1> QED BY <1>1, <1>4, <1>5, <1>6 DEF LInv, RunInv, Running, CursorInv, CommitInv, CommitsStay

LEMMA LayoutStep ==
  ASSUME NoOrphans, LInv, [Next]_vars
  PROVE  LInv'
BY TypeStep, RunStep, CursorStep, CommitStep DEF LInv

LEMMA LayoutInvariance == ASSUME NoOrphans PROVE Spec => []LInv
<1>1. LInv /\ [Next]_vars => LInv'
  BY LayoutStep
<1> QED BY <1>1, LayoutInit, PTL DEF Spec

(* Types alone need no assumption on the faults: they hold as well where a *)
(* power loss meets files that nobody synced.                              *)
THEOREM TypeCorrect == Spec => []TypeOK
<1>1. Init => TypeOK /\ FilesInv
  BY LayoutInit DEF LInv
<1>2. TypeOK /\ FilesInv /\ [Next]_vars => (TypeOK /\ FilesInv)'
  BY TypeStep
<1> QED BY <1>1, <1>2, PTL DEF Spec

(* "with cursor committed last", for any list of data paths: whoever finds *)
(* a cursor that reads well finds every data path beside it, whole, through *)
(* kills, short writes, failed syncs, reboots and power losses.            *)
THEOREM CursorComesLast == ASSUME NoOrphans PROVE Spec => []CursorLast
<1>1. LInv => CursorLast
  <2> SUFFICES ASSUME LInv, CursorPresent, NEW n \in Data
               PROVE  n \in listed /\ Decodes(cache[n])
    BY DEF CursorLast, Data
  <2>1. Names \subseteq listed /\ CursorInv
    BY LayoutFacts
  <2> QED BY <2>1, PathNames DEF CursorInv
<1> QED BY <1>1, LayoutInvariance, PTL

(* No later initialization starts a path afresh that a command committed   *)
(* to, and no power loss undoes the entry it was committed under.          *)
THEOREM CommitsAreLeftAlone == ASSUME NoOrphans PROVE Spec => []CommitsStay
<1>1. LInv => CommitsStay
  BY DEF LInv, CommitInv
<1> QED BY <1>1, LayoutInvariance, PTL

-----------------------------------------------------------------------------
(* Nothing is refused.                                                     *)

(* No boot begins over a restart path half of one boot, half of another,   *)
(* which _is_safe_restart_initial_fragment does not recognize.             *)
NoStale == "stale" \notin Faults

Shapes(b) == \A n \in Names : Sound(n, cache[n], b) /\ Sound(n, disk[n], b)

LEMMA ShapeInit == Init => ShapeInv
<1> SUFFICES ASSUME Init PROVE Shapes(boot)
  BY DEF ShapeInv, Shapes
<1>1. boot \in Boots /\ \A n \in Names : cache[n] = <<>> /\ disk[n] = <<>>
  BY BootAssumption DEF Init, Boots
<1> QED BY <1>1, ShapeEmpty DEF Shapes, Sound

LEMMA ShapeStep ==
  ASSUME NoOrphans, NoStale, LInv, ShapeInv, [Next]_vars
  PROVE  ShapeInv'
<1>1. CASE Established
  BY <1>1, EstablishedStays DEF ShapeInv
<1> SUFFICES ASSUME ~ Established PROVE (Shapes(boot))'
  BY <1>1 DEF ShapeInv, Shapes
<1>a. /\ TypeOK /\ FilesInv /\ RunInv
      /\ \A n \in Names : cache[n] \in Images /\ disk[n] \in Images
      /\ listed \subseteq Names /\ path \in Names /\ boot \in Boots /\ ~ ready
      /\ cache \in [Names -> Images] /\ disk \in [Names -> Images]
  BY LayoutFacts DEF CommitInv, FilesInv
<1>b. \A n \in Names : Sound(n, cache[n], boot) /\ Sound(n, disk[n], boot)
  BY DEF ShapeInv
<1>2. ASSUME UNCHANGED boot,
             \A n \in Names : /\ Sound(n, cache'[n], boot)
                              /\ disk'[n] = disk[n] \/ disk'[n] = cache[n]
      PROVE  (Shapes(boot))'
  BY <1>2, <1>b DEF Shapes
<1>3. ASSUME NEW cut \in 0 .. Full, UNCHANGED <<disk, boot>>,
             cache' = [cache EXCEPT ![path] = Overlaid(@, Expected(path, boot), cut)]
      PROVE  (Shapes(boot))'
  <2> DEFINE over == Overlaid(cache[path], Expected(path, boot), cut)
  <2>1. Sound(path, over, boot)
    BY <1>a, <1>b, SoundOverlaid
  <2> HIDE DEF over
  <2>2. \A n \in Names : cache'[n] = IF n = path THEN over ELSE cache[n]
    BY <1>a, <1>3 DEF over
  <2>3. \A n \in Names : Sound(n, cache'[n], boot)
    BY <2>1, <2>2, <1>b
  <2> QED BY <2>3, <1>2, <1>3
<1>4. CASE WriteImage
  <2>1. Full \in 0 .. Full
    BY DEF Full
  <2> QED BY <2>1, <1>3, <1>4 DEF WriteImage
<1>5. CASE TearImage
  <2>1. PICK cut \in 0 .. Full - 1 :
          cache' = [cache EXCEPT ![path] = Overlaid(@, Expected(path, boot), cut)]
    BY <1>5 DEF TearImage
  <2>2. cut \in 0 .. Full
    BY DEF Full
  <2> QED BY <2>1, <2>2, <1>3, <1>5 DEF TearImage
<1>6. CASE SyncPath
  <2>1. UNCHANGED <<cache, boot>> /\ disk' = [disk EXCEPT ![path] = cache[path]]
    BY <1>6 DEF SyncPath
  <2>2. \A n \in Names : disk'[n] = disk[n] \/ disk'[n] = cache[n]
    BY <2>1, <1>a
  <2> QED BY <2>1, <2>2, <1>2, <1>b
<1>7. CASE Writeback
  <2>1. UNCHANGED <<cache, boot>>
    BY <1>7 DEF Writeback
  <2>2. \A n \in Names : disk'[n] = disk[n] \/ disk'[n] = cache[n]
    BY <1>7, <1>a DEF Writeback
  <2> QED BY <2>1, <2>2, <1>2, <1>b
<1>8. ASSUME NewBoot, \A n \in Names : disk'[n] \in Images /\ cache'[n] = disk'[n] /\ Sound(n, disk'[n], boot)
      PROVE  (Shapes(boot))'
  <2>1. ~ Mixed(disk'[Restart]) /\ boot < BootMax /\ boot' = boot + 1
    BY <1>8 DEF NewBoot, NoStale
  <2>2. boot' \in Boots
    BY <2>1, <1>a, BootAssumption DEF Boots
  <2>3. \A n \in Names : Sound(n, disk'[n], boot')
    BY <2>1, <2>2, <1>8, <1>a, ShapeNextBoot DEF Sound
  <2> QED BY <2>3, <1>8 DEF Shapes
<1>9. CASE Reboot
  <2>1. UNCHANGED cache /\ disk' = cache /\ NewBoot
    BY <1>9 DEF Reboot
  <2> QED BY <2>1, <1>8, <1>a, <1>b
<1>10. CASE PowerLoss
  <2>1. /\ listed' \subseteq listed /\ cache' = disk' /\ disk' \in [Names -> Images]
        /\ \A n \in Names \ listed' : disk'[n] = <<>>
        /\ \A n \in listed' : IF n \in Unsynced THEN disk'[n] \in Remains(n)
                              ELSE disk'[n] = disk[n] /\ disk[n] = cache[n]
    BY <1>10, <1>a, PowerLossFiles
  <2>2. ASSUME NEW n \in Names PROVE Sound(n, disk'[n], boot)
    <3>1. CASE n \notin listed'
      BY <3>1, <2>1, <1>a, ShapeEmpty DEF Sound
    <3>2. CASE n \in listed' /\ n \notin Unsynced
      BY <3>2, <2>1, <1>b
    <3>3. CASE n \in listed' /\ n \in Unsynced
      <4>1. disk'[n] \in Remains(n) /\ cache[n] = Expected(n, boot)
        BY <3>3, <2>1, <1>10, <1>a, SyncedByPowerLoss DEF RunInv
      <4>2. Len(cache[n]) = Full
        BY <4>1, <1>a, ExpectedType
      <4>3. ASSUME NEW cut \in 0 .. Len(cache[n]), disk'[n] = Overlaid(disk[n], cache[n], cut)
            PROVE  Sound(n, disk'[n], boot)
        BY <4>1, <4>2, <4>3, <1>a, <1>b, SoundOverlaid
      <4>4. ASSUME NEW cut \in 1 .. Len(cache[n]),
                   disk'[n] = SubSeq(cache[n], 1, cut) \o Zeros(Full - cut)
            PROVE  Sound(n, disk'[n], boot)
        BY <4>1, <4>2, <4>4, <1>a, ShapePadded DEF Sound
      <4> QED BY <4>1, <4>3, <4>4 DEF Remains, Sound
    <3> QED BY <3>1, <3>2, <3>3
  <2>3. NewBoot
    BY <1>10 DEF PowerLoss
  <2> QED BY <2>1, <2>2, <2>3, <1>8
<1>11. ASSUME NEW name \in Names, NEW whole \in BOOLEAN, Commit(name, whole) PROVE FALSE
  BY <1>11, <1>a DEF Commit
<1>12. CASE \/ Begin \/ RepairMode \/ CreatePath \/ ChangeMode \/ RewritePath \/ KeepPath
            \/ SyncPathFails \/ SyncData \/ SyncLayout \/ SyncDirectoryFails \/ Kill \/ UNCHANGED vars
  <2>1. UNCHANGED <<cache, disk, boot>>
    BY <1>12 DEF Begin, RepairMode, CreatePath, ChangeMode, RewritePath, KeepPath, SyncPathFails,
                 SyncData, SyncLayout, SyncDirectoryFails, Kill, files, vars
  <2> QED BY <2>1, <1>2, <1>b
<1> QED BY <1>4, <1>5, <1>6, <1>7, <1>9, <1>10, <1>11, <1>12 DEF Next

(* Whatever an interrupted initialization left, in this boot or an earlier *)
(* one, the next one is told that a path is not recoverable only where a   *)
(* power loss left the path blank, for any list of data paths, under every *)
(* fault but the two excluded.                                             *)
THEOREM NothingIsRefused == ASSUME NoOrphans, NoStale PROVE Spec => []NeverRefused
<1>1. Init => SInv
  BY LayoutInit, ShapeInit DEF SInv
<1>2. SInv /\ [Next]_vars => SInv'
  BY LayoutStep, ShapeStep DEF SInv
<1>3. SInv => NeverRefused
  <2> SUFFICES ASSUME SInv, pc = "idle", ~ Accepts
               PROVE  ~ CursorPresent /\ \A n \in Names : Recoverable(n) \/ n \in Blank
    BY DEF NeverRefused
  <2>1. /\ LInv /\ ShapeInv /\ boot \in Boots /\ \A n \in Names : cache[n] \in Images
        /\ narrow \subseteq {n \in listed : cache[n] = <<>>}
    BY LayoutFacts DEF SInv, TypeOK
  <2>2. ~ CursorPresent
    <3> SUFFICES ASSUME CursorPresent PROVE FALSE
      OBVIOUS
    <3>1. Names \subseteq listed /\ \A n \in Data : Decodes(cache[n])
      BY <2>1, LayoutFacts DEF CursorInv
    <3>2. \A n \in Data : Opens(n)
      BY <3>1, <2>1, DecodedIsFull, PathNames DEF Opens
    <3> QED BY <3>1, <3>2 DEF Accepts, Data
  <2>3. ASSUME NEW n \in Names PROVE Recoverable(n) \/ n \in Blank
    <3>1. Sound(n, cache[n], boot)
      BY <2>1, <2>2 DEF ShapeInv, Established
    <3>2. CASE Shape(n, cache[n], boot)
      BY <3>2, <2>1, ShapeIsSafe DEF Recoverable
    <3>3. CASE cache[n] = Zeros(Full)
      BY <3>3 DEF Recoverable, Blank
    <3> QED BY <3>1, <3>2, <3>3 DEF Sound
  <2> QED BY <2>2, <2>3
<1> QED BY <1>1, <1>2, <1>3, PTL DEF Spec
=============================================================================
