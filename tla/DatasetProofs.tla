--------------------------- MODULE DatasetProofs ---------------------------
(***************************************************************************)
(* What holds of the curation history and of the image store for every     *)
(* dataset and every number of edits, passes, generations, transactions,   *)
(* faults and crashes.                                                     *)
(*                                                                         *)
(* RowShowsNewestEdit is not inductive: an undo puts back what a batch     *)
(* found, so every batch not undone must itself have found the newest edit *)
(* below it, and a batch that is loaded and not yet committed must have    *)
(* found the newest edit of all.  Owned says this of a row, of a batch and *)
(* of a pending edit alike.                                                *)
(***************************************************************************)
EXTENDS Curation, ImageStore, TLAPS, SequenceTheorems, FiniteSetTheorems, WellFoundedInduction

AllValues == Statuses \cup Captions \cup Marks
Changes == UNION {[S -> AllValues] : S \in SUBSET Cells}
Authors == UNION {[S -> Int] : S \in SUBSET Cells}
Batches == [before : Changes, after : Changes, reverted : BOOLEAN,
            by : Authors, pics : [Images -> Int]]

Stands(h, b) == b \in 1..Len(h) /\ ~h[b].reverted
Touches(h, b, c) == c \in DOMAIN h[b].before

(* w wrote value v of cell c, and of the first n batches of h no standing  *)
(* one after w touches c.                                                  *)
Owned(h, c, w, v, n) ==
  \/ w = Machine
  \/ w = Nobody /\ \A d \in 1..n : Stands(h, d) => ~Touches(h, d, c)
  \/ /\ w \in 1..n /\ Stands(h, w) /\ Touches(h, w, c) /\ v = h[w].after[c]
     /\ \A d \in w+1..n : Stands(h, d) => ~Touches(h, d, c)

WellFormed(e) ==
  /\ e \in Batches
  /\ DOMAIN e.after = DOMAIN e.before
  /\ DOMAIN e.by = DOMAIN e.before
  /\ \A c \in DOMAIN e.before : /\ e.before[c] \in Kind(c[2]) /\ e.after[c] \in Kind(c[2])
                               /\ e.before[c] # e.after[c]

RowsTyped ==
  /\ value \in [Cells -> AllValues] /\ \A c \in Cells : value[c] \in Kind(c[2])
  /\ writer \in [Cells -> Int]
PicTyped ==
  /\ pic \in [Images -> 0..MaxPictures]
  /\ DOMAIN saved = Images
  /\ \A i \in Images : /\ saved[i].waiting => pic[i] < MaxPictures
                       /\ \/ saved[i].row = NoRow
                          \/ \A f \in Fields : saved[i].row[f] \in Kind(f)
HistoryTyped ==
  /\ history \in Seq(Batches) /\ Len(history) <= MaxBatches
  /\ \A b \in 1..Len(history) :
        WellFormed(history[b]) /\ (history[b].reverted <=> DOMAIN history[b].before = {})
EditTyped ==
  \/ edit = NoEdit
  \/ /\ edit.kind \in {"record", "crop"} /\ Len(history) < MaxBatches
     /\ WellFormed(edit.batch) /\ ~edit.batch.reverted /\ DOMAIN edit.batch.before # {}
  \/ edit.kind = "undo" /\ Stands(history, edit.batch)
PassTyped ==
  /\ passes \in 0..MaxPasses
  /\ \/ plan = NoPlan
     \/ \A i \in plan.todo : i \in Images /\ plan.pic[i] \in 1..MaxPictures
  /\ scan.kind # "none" => scan.todo \subseteq Images /\ {"kind", "todo"} \subseteq DOMAIN scan
  /\ scan.kind \in {"detecting", "cleaning"} => scan.at \in Images

CurationTyped == RowsTyped /\ PicTyped /\ HistoryTyped /\ EditTyped /\ PassTyped

(* The row, each standing batch, the edit in progress.                     *)
RowsOwned == \A c \in Cells : Owned(history, c, writer[c], value[c], Len(history))
BatchesOwned ==
  \A b \in 1..Len(history) : Stands(history, b) =>
    \A c \in DOMAIN history[b].before :
      Owned(history, c, history[b].by[c], history[b].before[c], b - 1)
EditOwned ==
  /\ edit.kind \in {"record", "crop"} =>
        \A c \in DOMAIN edit.batch.before :
          Owned(history, c, edit.batch.by[c], edit.batch.before[c], Len(history))
  /\ edit.kind = "undo" =>
        \A d \in edit.batch+1..Len(history) : Stands(history, d) =>
          \A c \in DOMAIN history[edit.batch].before : ~Touches(history, d, c)

CurationOwned == RowsOwned /\ BatchesOwned /\ EditOwned
CurationInv == CurationTyped /\ CurationOwned

-----------------------------------------------------------------------------
(* Types                                                                   *)

USE DEF Cells, Fields

LEMMA KindValues == \A f : Kind(f) \subseteq AllValues
BY DEF Kind, AllValues

LEMMA ChangesOf ==
  /\ \A S \in SUBSET Cells : \A g \in [S -> AllValues] : g \in Changes
  /\ \A S \in SUBSET Cells : \A g \in [S -> Int] : g \in Authors
<1>1. ASSUME NEW S \in SUBSET Cells, NEW g \in [S -> AllValues] PROVE g \in Changes
  <2>1. [S -> AllValues] \in {[Q -> AllValues] : Q \in SUBSET Cells}
    OBVIOUS
  <2> QED BY <2>1, Zenon DEF Changes
<1>2. ASSUME NEW S \in SUBSET Cells, NEW g \in [S -> Int] PROVE g \in Authors
  <2>1. [S -> Int] \in {[Q -> Int] : Q \in SUBSET Cells}
    OBVIOUS
  <2> QED BY <2>1, Zenon DEF Authors
<1> QED BY <1>1, <1>2

(* A write of typed values leaves the rows typed.                          *)
LEMMA FlushTypes ==
  ASSUME NEW new, NEW read, NEW a \in Int, RowsTyped, Flush(new, read, a),
         \A c \in DOMAIN new : new[c] \in Kind(c[2])
  PROVE  RowsTyped'
BY KindValues DEF RowsTyped, Flush

(* The batch an edit loads is well formed when the rows it makes are       *)
(* typed.                                                                  *)
LEMMA LoadTypes ==
  ASSUME NEW kind \in {"record", "crop"}, NEW new, CurationTyped, Load(kind, new),
         \A i \in DOMAIN new : i \in Images /\ \A f \in Fields : new[i][f] \in Kind(f)
  PROVE  CurationTyped'
<1> DEFINE changed == {c \in (DOMAIN new) \X Fields : new[c[1]][c[2]] # value[c]}
<1>1. changed \in SUBSET Cells
  OBVIOUS
<1>2. \A c \in changed : /\ new[c[1]][c[2]] \in Kind(c[2]) /\ value[c] \in Kind(c[2])
                        /\ writer[c] \in Int
  BY <1>1 DEF CurationTyped, RowsTyped
<1>3. [c \in changed |-> value[c]] \in Changes /\ [c \in changed |-> new[c[1]][c[2]]] \in Changes
  <2>1. /\ [c \in changed |-> value[c]] \in [changed -> AllValues]
        /\ [c \in changed |-> new[c[1]][c[2]]] \in [changed -> AllValues]
    BY <1>2, KindValues
  <2> HIDE DEF changed
  <2> QED BY <1>1, <2>1, ChangesOf
<1>4. [c \in changed |-> writer[c]] \in Authors
  <2>1. [c \in changed |-> writer[c]] \in [changed -> Int]
    BY <1>2
  <2> HIDE DEF changed
  <2> QED BY <1>1, <2>1, ChangesOf
<1>5. pic \in [Images -> Int]
  BY CurationBounds DEF CurationTyped, PicTyped
<1> DEFINE batch == [before |-> [c \in changed |-> value[c]],
                     after |-> [c \in changed |-> new[c[1]][c[2]]],
                     reverted |-> FALSE,
                     by |-> [c \in changed |-> writer[c]],
                     pics |-> pic]
<1>6. /\ edit' = [kind |-> kind, batch |-> batch]
      /\ changed # {} /\ Len(history) < MaxBatches
  BY DEF Load
<1>7. WellFormed(batch)
  <2>1. batch \in Batches
    BY <1>3, <1>4, <1>5 DEF Batches
  <2>2. /\ DOMAIN batch.after = changed /\ DOMAIN batch.by = changed
        /\ DOMAIN batch.before = changed
        /\ \A c \in changed : /\ batch.before[c] = value[c]
                             /\ batch.after[c] = new[c[1]][c[2]]
    OBVIOUS
  <2> HIDE DEF batch
  <2> QED BY <1>2, <2>1, <2>2 DEF WellFormed
<1>10. EditTyped'
  <2>1. edit'.kind = kind /\ edit'.batch = batch
    BY <1>6
  <2>2. ~batch.reverted /\ DOMAIN batch.before # {}
    BY <1>6
  <2>3. history' = history
    BY DEF Load
  <2> QED BY <1>6, <1>7, <2>1, <2>2, <2>3 DEF EditTyped
<1>8. UNCHANGED <<value, writer, pic, saved, history>> /\ UNCHANGED passesOf
  BY DEF Load
<1>9. RowsTyped' /\ PicTyped' /\ HistoryTyped' /\ PassTyped'
  BY <1>8 DEF CurationTyped, RowsTyped, PicTyped, HistoryTyped, PassTyped, passesOf
<1> QED BY <1>10, <1>9 DEF CurationTyped

LEMMA RowTypes ==
  ASSUME CurationTyped, NEW i \in Images
  PROVE  /\ DOMAIN Row(i) = Fields
         /\ \A f \in Fields : Row(i)[f] \in Kind(f)
         /\ \A s \in Statuses, f \in Fields : Decided(Row(i), s)[f] \in Kind(f)
         /\ \A t \in Texts \cup {NoCaption}, f \in Fields :
               [Row(i) EXCEPT !["caption"] = t][f] \in Kind(f)
         /\ \A m \in {"dismissed", "unknown"}, f \in Fields :
               [Row(i) EXCEPT !["watermark"] = m][f] \in Kind(f)
<1>1. DOMAIN Row(i) = Fields /\ \A f \in Fields : Row(i)[f] \in Kind(f)
  BY DEF Row, CurationTyped, RowsTyped
<1>2. \A f \in Fields : Row(i)[f] = value[<<i, f>>]
  BY DEF Row
<1> QED BY <1>1 DEF Decided, Kind, Statuses, Marks, Captions

LEMMA EditTypes ==
  ASSUME CurationTyped, Edits
  PROVE  CurationTyped'
<1>1. ASSUME NEW i \in Images, NEW s \in Statuses \ {"failed"}, SetStatus(i, s)
      PROVE  CurationTyped'
  BY <1>1, RowTypes, LoadTypes DEF SetStatus
<1>2. ASSUME NEW i \in Images, NEW t \in Texts \cup {NoCaption}, SetCaption(i, t)
      PROVE  CurationTyped'
  BY <1>2, RowTypes, LoadTypes DEF SetCaption
<1>3. ASSUME NEW on \in SUBSET Images, NEW s \in Statuses \ {"failed"}, BatchStatus(on, s)
      PROVE  CurationTyped'
  BY <1>3, RowTypes, LoadTypes DEF BatchStatus
<1>4. ASSUME NEW on \in SUBSET Images, BatchClearCaption(on)
      PROVE  CurationTyped'
  BY <1>4, RowTypes, LoadTypes DEF BatchClearCaption
<1>5. ASSUME NEW on \in SUBSET Images, DismissWatermarks(on)
      PROVE  CurationTyped'
  BY <1>5, RowTypes, LoadTypes DEF DismissWatermarks
<1>6. ASSUME NEW t \in Texts, ReplaceInCaptions(t)
      PROVE  CurationTyped'
  BY <1>6, RowTypes, LoadTypes DEF ReplaceInCaptions, Captioned
<1>7. ASSUME NEW i \in Images, CropImage(i)
      PROVE  CurationTyped'
  BY <1>7, RowTypes, LoadTypes DEF CropImage
<1>8. ASSUME CommitEdit PROVE CurationTyped'
  <2> DEFINE b == [edit.batch EXCEPT !.pics = pic]
  <2>1. /\ edit.kind \in {"record", "crop"} /\ Len(history) < MaxBatches
        /\ WellFormed(edit.batch) /\ ~edit.batch.reverted /\ DOMAIN edit.batch.before # {}
    BY <1>8 DEF CommitEdit, CurationTyped, EditTyped, NoEdit
  <2>2. Len(history) \in Nat /\ MaxBatches \in Nat
    BY CurationBounds DEF CurationTyped, HistoryTyped
  <2>3. pic \in [Images -> Int]
    BY CurationBounds DEF CurationTyped, PicTyped
  <2>4. RowsTyped'
    <3>1. \A c \in DOMAIN edit.batch.after : edit.batch.after[c] \in Kind(c[2])
      BY <2>1 DEF WellFormed
    <3>2. (IF edit.kind = "record" THEN Len(history) + 1 ELSE Machine) \in Int
      BY <2>2 DEF Machine
    <3> QED BY <1>8, <3>1, <3>2, FlushTypes DEF CommitEdit, CurationTyped
  <2>5. WellFormed(b) /\ ~b.reverted /\ DOMAIN b.before # {}
    BY <2>1, <2>3 DEF WellFormed, Batches
  <2>6. HistoryTyped'
    <3>1. CASE edit.kind = "record"
      <4>1. history' = Append(history, b)
        BY <1>8, <3>1 DEF CommitEdit
      <4>2. history \in Seq(Batches) /\ b \in Batches
        BY <2>5 DEF CurationTyped, HistoryTyped, WellFormed
      <4> HIDE DEF b
      <4>3. /\ history' \in Seq(Batches) /\ Len(history') = Len(history) + 1
            /\ \A d \in 1..Len(history) : history'[d] = history[d]
            /\ history'[Len(history) + 1] = b
        BY <4>1, <4>2, AppendProperties
      <4> QED BY <2>1, <2>2, <2>5, <4>3 DEF HistoryTyped, CurationTyped
    <3>2. CASE edit.kind # "record"
      BY <1>8, <3>2 DEF CommitEdit, HistoryTyped, CurationTyped
    <3> QED BY <3>1, <3>2
  <2>7. PicTyped' /\ PassTyped'
    BY <1>8 DEF CommitEdit, CurationTyped, PicTyped, PassTyped, passesOf
  <2>8. EditTyped'
    BY <1>8 DEF CommitEdit, EditTyped
  <2> QED BY <2>4, <2>6, <2>7, <2>8 DEF CurationTyped
<1>9. ASSUME NEW b \in 1..Len(history), LoadUndo(b) PROVE CurationTyped'
  <2>1. EditTyped'
    BY <1>9 DEF LoadUndo, EditTyped, Live, Stands
  <2>2. RowsTyped' /\ PicTyped' /\ HistoryTyped' /\ PassTyped'
    BY <1>9 DEF LoadUndo, CurationTyped, RowsTyped, PicTyped, HistoryTyped, PassTyped, passesOf
  <2> QED BY <2>1, <2>2 DEF CurationTyped
<1>10. ASSUME CommitUndo PROVE CurationTyped'
  <2> DEFINE b == edit.batch
  <2>1. /\ Stands(history, b) /\ WellFormed(history[b]) /\ history \in Seq(Batches)
        /\ b \in 1..Len(history)
    BY <1>10 DEF CommitUndo, CurationTyped, EditTyped, NoEdit, HistoryTyped, Stands
  <2>2. RowsTyped'
    <3>1. /\ history[b].by \in [Touched(b) -> Int] /\ Touched(b) \subseteq Cells
          /\ \A c \in Touched(b) : history[b].before[c] \in Kind(c[2])
      <4>1. history[b].by \in Authors
        BY <2>1 DEF WellFormed, Batches
      <4>2. PICK S \in SUBSET Cells : history[b].by \in [S -> Int]
        BY <4>1, Zenon DEF Authors
      <4> QED BY <2>1, <4>2 DEF WellFormed, Touched
    <3> QED BY <1>10, <3>1, KindValues DEF CommitUndo, RowsTyped, CurationTyped
  <2>3. WellFormed(Reverted) /\ Reverted.reverted /\ DOMAIN Reverted.before = {}
    <3>1. NoRow \in [{} -> AllValues] /\ NoRow \in [{} -> Int]
      BY DEF NoRow
    <3>2. NoRow \in Changes /\ NoRow \in Authors
      BY <3>1, ChangesOf
    <3>3. [i \in Images |-> Blank] \in [Images -> Int]
      BY DEF Blank
    <3> QED BY <3>2, <3>3 DEF Reverted, WellFormed, Batches, NoRow
  <2>4. HistoryTyped'
    <3>1. history' = [history EXCEPT ![b] = Reverted]
      BY <1>10 DEF CommitUndo
    <3>2. Reverted \in Batches
      BY <2>3 DEF WellFormed
    <3>3. /\ history' \in Seq(Batches) /\ Len(history') = Len(history)
          /\ history'[b] = Reverted
          /\ \A d \in 1..Len(history) : d # b => history'[d] = history[d]
      BY <2>1, <3>1, <3>2, ExceptSeq
    <3> QED BY <2>1, <2>3, <3>3 DEF HistoryTyped, CurationTyped
  <2>5. PicTyped' /\ PassTyped'
    BY <1>10 DEF CommitUndo, CurationTyped, PicTyped, PassTyped, passesOf
  <2>6. EditTyped'
    BY <1>10 DEF CommitUndo, EditTyped
  <2> QED BY <2>2, <2>4, <2>5, <2>6 DEF CurationTyped
<1> QED BY <1>1, <1>2, <1>3, <1>4, <1>5, <1>6, <1>7, <1>8, <1>9, <1>10 DEF Edits

(* What every pass leaves alone keeps its type.                            *)
LEMMA SameHistory ==
  ASSUME CurationTyped, UNCHANGED <<history, edit>>
  PROVE  HistoryTyped' /\ EditTyped'
BY DEF CurationTyped, HistoryTyped, EditTyped

LEMMA CaptionDoneTypes ==
  ASSUME CurationTyped, NEW i \in Images, NEW caption, CaptionDone(i, caption),
         caption \in Captions
  PROVE  CurationTyped'
<1>1. RowsTyped'
  <2>1. CASE UNCHANGED <<value, writer>>
    BY <2>1 DEF CurationTyped, RowsTyped
  <2>2. CASE Flush([c \in {<<i, "caption">>} |-> caption], value, Machine)
    <3>1. \A c \in {<<i, "caption">>} : caption \in Kind(c[2])
      BY DEF Kind
    <3> QED BY <2>2, <3>1, FlushTypes DEF CurationTyped, Machine
  <2> QED BY <2>1, <2>2 DEF CaptionDone
<1>2. HistoryTyped' /\ EditTyped'
  BY SameHistory DEF CaptionDone
<1>3. PicTyped'
  BY DEF CaptionDone, CurationTyped, PicTyped
<1>4. plan'.todo = plan.todo \ {i} /\ plan'.pic = plan.pic /\ plan # NoPlan
  BY DEF CaptionDone
<1>5. PassTyped'
  <2>1. \A j \in plan'.todo : j \in Images /\ plan'.pic[j] \in 1..MaxPictures
    BY <1>4 DEF CurationTyped, PassTyped
  <2> QED BY <2>1 DEF CaptionDone, CurationTyped, PassTyped
<1> QED BY <1>1, <1>2, <1>3, <1>5 DEF CurationTyped

LEMMA PassTypes ==
  ASSUME CurationTyped, Passes
  PROVE  CurationTyped'
<1>1. ASSUME NEW mode \in {"blanks", "machine", "all"}, PlanCaptions(mode)
      PROVE  CurationTyped'
  <2>1. /\ plan'.todo = {i \in Images : Eligible(i, mode)}
        /\ plan'.pic = pic
    BY <1>1 DEF PlanCaptions
  <2>2. \A i \in plan'.todo : i \in Images /\ plan'.pic[i] \in 1..MaxPictures
    BY <2>1, CurationBounds DEF Eligible, Blank, CurationTyped, PicTyped
  <2>3. passes' \in 0..MaxPasses
    BY <1>1, CurationBounds DEF PlanCaptions, CurationTyped, PassTyped
  <2>4. PassTyped'
    BY <1>1, <2>2, <2>3 DEF PlanCaptions, CurationTyped, PassTyped
  <2> QED BY <1>1, <2>4, SameHistory DEF PlanCaptions, CurationTyped, RowsTyped, PicTyped
<1>2. ASSUME NEW i \in Images, PersistCaption(i) PROVE CurationTyped'
  <2>1. plan # NoPlan /\ i \in plan.todo
    BY <1>2 DEF PersistCaption, CaptionDone
  <2>2. Written(plan.pic[i]) \in Captions
    BY <2>1 DEF Captions, CurationTyped, PassTyped
  <2> QED BY <1>2, <2>2, CaptionDoneTypes DEF PersistCaption
<1>3. ASSUME NEW i \in Images, PersistBlank(i) PROVE CurationTyped'
  BY <1>3, CaptionDoneTypes DEF PersistBlank, Captions
<1>4. ASSUME NEW i \in Images, SkipCaption(i) PROVE CurationTyped'
  <2>1. plan'.todo = plan.todo \ {i} /\ plan'.pic = plan.pic /\ plan # NoPlan
    BY <1>4 DEF SkipCaption
  <2>2. PassTyped'
    <3>1. \A j \in plan'.todo : j \in Images /\ plan'.pic[j] \in 1..MaxPictures
      BY <2>1 DEF CurationTyped, PassTyped
    <3> QED BY <1>4, <3>1 DEF SkipCaption, CurationTyped, PassTyped
  <2> QED BY <1>4, <2>2, SameHistory DEF SkipCaption, CurationTyped, RowsTyped, PicTyped
<1>5. ASSUME EndCaptions PROVE CurationTyped'
  BY <1>5, SameHistory DEF EndCaptions, CurationTyped, RowsTyped, PicTyped, PassTyped
<1>6. ASSUME NEW kind \in {"detect", "clean"}, StartScan(kind) PROVE CurationTyped'
  <2>1. scan'.todo = {i \in Images : InPass(kind, i)} /\ scan'.kind = kind
    BY <1>6 DEF StartScan
  <2>2. passes' \in 0..MaxPasses
    BY <1>6, CurationBounds DEF StartScan, CurationTyped, PassTyped
  <2>3. PassTyped'
    BY <1>6, <2>1, <2>2 DEF StartScan, CurationTyped, PassTyped
  <2> QED BY <1>6, <2>3, SameHistory DEF StartScan, CurationTyped, RowsTyped, PicTyped
<1>7. ASSUME NEW i \in Images, Look(i) PROVE CurationTyped'
  <2>1. /\ scan.kind \in {"detect", "clean"} /\ scan.todo \subseteq Images
        /\ "kind" \in DOMAIN scan /\ "todo" \in DOMAIN scan
    BY <1>7 DEF Look, CurationTyped, PassTyped
  <2>2. \/ scan' = [scan EXCEPT !.todo = @ \ {i}]
        \/ scan'.todo = scan.todo \ {i} /\ scan'.at = i
    BY <1>7 DEF Look
  <2>3. scan'.todo = scan.todo \ {i}
    BY <2>1, <2>2
  <2>5. {"kind", "todo"} \subseteq DOMAIN scan'
    BY <1>7, <2>1 DEF Look
  <2>4. scan'.kind \in {"detecting", "cleaning"} => scan'.at \in Images
    BY <2>1, <2>2
  <2>6. PassTyped'
    BY <1>7, <2>1, <2>3, <2>4, <2>5 DEF Look, CurationTyped, PassTyped
  <2> QED BY <1>7, <2>6, SameHistory DEF Look, CurationTyped, RowsTyped, PicTyped
<1>8. ASSUME NEW mark \in Marks, ScanVerdict(mark) PROVE CurationTyped'
  <2>1. scan.todo \subseteq Images /\ scan.at \in Images
    BY <1>8 DEF ScanVerdict, CurationTyped, PassTyped
  <2>2. RowsTyped'
    <3>1. \A c \in {<<scan.at, "watermark">>} : mark \in Kind(c[2])
      BY DEF Kind
    <3> QED BY <1>8, <3>1, FlushTypes DEF ScanVerdict, CurationTyped, Machine
  <2>3. PassTyped'
    <3>1. scan'.todo = scan.todo /\ scan'.kind \in {"detect", "clean"}
      BY <1>8 DEF ScanVerdict
    <3> QED BY <1>8, <2>1, <3>1 DEF ScanVerdict, CurationTyped, PassTyped
  <2> QED BY <1>8, <2>2, <2>3, SameHistory DEF ScanVerdict, CurationTyped, PicTyped
<1>9. ASSUME NoVerdict PROVE CurationTyped'
  BY <1>9, SameHistory DEF NoVerdict, CurationTyped, RowsTyped, PicTyped, PassTyped
<1>10. ASSUME EndScan PROVE CurationTyped'
  BY <1>10, SameHistory DEF EndScan, NoScan, CurationTyped, RowsTyped, PicTyped, PassTyped
<1> QED BY <1>1, <1>2, <1>3, <1>4, <1>5, <1>6, <1>7, <1>8, <1>9, <1>10 DEF Passes

LEMMA RegenerationTypes ==
  ASSUME CurationTyped, Regenerations
  PROVE  CurationTyped'
<1>1. ASSUME NEW i \in Images, RegenerateImage(i) PROVE CurationTyped'
  <2>1. RowsTyped'
    <3>1. \A c \in {<<i, "status">>} : "pending" \in Kind(c[2])
      BY DEF Kind, Statuses
    <3> QED BY <1>1, <3>1, FlushTypes DEF RegenerateImage, CurationTyped, Machine
  <2>2. \A f \in Fields : Row(i)[f] \in Kind(f)
    BY RowTypes
  <2>3. PicTyped'
    BY <1>1, <2>2 DEF RegenerateImage, CurationTyped, PicTyped
  <2> QED BY <1>1, <2>1, <2>3, SameHistory
          DEF RegenerateImage, CurationTyped, PassTyped, passesOf
<1>2. ASSUME NEW i \in Images, CommitReplacement(i) PROVE CurationTyped'
  <2>1. RowsTyped'
    <3>1. \A c \in DOMAIN RowOf(i, "pending", NoCaption, "unknown") :
            RowOf(i, "pending", NoCaption, "unknown")[c] \in Kind(c[2])
      BY DEF RowOf, Kind, Statuses, Captions, Marks
    <3> QED BY <1>2, <3>1, FlushTypes DEF CommitReplacement, CurationTyped, Machine
  <2>2. PicTyped'
    BY <1>2, CurationBounds DEF CommitReplacement, NotWaiting, CurationTyped, PicTyped
  <2> QED BY <1>2, <2>1, <2>2, SameHistory
          DEF CommitReplacement, CurationTyped, PassTyped, passesOf
<1>3. ASSUME NEW i \in Images, RestoreAfterFailure(i) PROVE CurationTyped'
  <2>1. RowsTyped'
    <3>1. CASE saved[i].row # NoRow
      <4>1. \A c \in {i} \X Fields : saved[i].row[c[2]] \in Kind(c[2])
        BY <3>1 DEF CurationTyped, PicTyped
      <4> QED BY <1>3, <3>1, <4>1, FlushTypes DEF RestoreAfterFailure, CurationTyped, Machine
    <3>2. CASE saved[i].row = NoRow
      <4>1. \A c \in {<<i, "status">>} : "failed" \in Kind(c[2])
        BY DEF Kind, Statuses
      <4> QED BY <1>3, <3>2, <4>1, FlushTypes DEF RestoreAfterFailure, CurationTyped, Machine
    <3> QED BY <3>1, <3>2
  <2>2. PicTyped'
    BY <1>3 DEF RestoreAfterFailure, NotWaiting, CurationTyped, PicTyped
  <2> QED BY <1>3, <2>1, <2>2, SameHistory
          DEF RestoreAfterFailure, CurationTyped, PassTyped, passesOf
<1> QED BY <1>1, <1>2, <1>3 DEF Regenerations

LEMMA StartTypes == CurationInit => CurationTyped
<1> SUFFICES ASSUME CurationInit PROVE CurationTyped
  OBVIOUS
<1>1. RowsTyped
  BY DEF CurationInit, RowsTyped, Kind, AllValues, Statuses, Captions, Marks, Nobody
<1>2. PicTyped
  BY CurationBounds DEF CurationInit, PicTyped, Blank, NotWaiting
<1>3. HistoryTyped
  BY CurationBounds, EmptySeq DEF CurationInit, HistoryTyped
<1>4. EditTyped /\ PassTyped
  BY CurationBounds DEF CurationInit, NoScan, EditTyped, PassTyped
<1> QED BY <1>1, <1>2, <1>3, <1>4 DEF CurationTyped

LEMMA StepTypes == CurationTyped /\ [CurationNext]_vars => CurationTyped'
<1> SUFFICES ASSUME CurationTyped, [CurationNext]_vars PROVE CurationTyped'
  OBVIOUS
<1>1. CASE UNCHANGED vars
  BY <1>1, SameHistory DEF vars, passesOf, CurationTyped, RowsTyped, PicTyped, PassTyped
<1> QED BY <1>1, EditTypes, PassTypes, RegenerationTypes DEF CurationNext

LEMMA TypedImpliesOK == CurationTyped => CurationTypeOK
<1> SUFFICES ASSUME CurationTyped PROVE CurationTypeOK
  OBVIOUS
<1>1. \A b \in 1..Len(history) : Touched(b) \subseteq Cells
  <2> SUFFICES ASSUME NEW b \in 1..Len(history) PROVE Touched(b) \subseteq Cells
    OBVIOUS
  <2>1. history[b].before \in Changes
    BY DEF CurationTyped, HistoryTyped, WellFormed, Batches
  <2>2. PICK S \in SUBSET Cells : history[b].before \in [S -> AllValues]
    BY <2>1, Zenon DEF Changes
  <2> QED BY <2>2 DEF Touched
<1> QED BY <1>1 DEF CurationTyped, CurationTypeOK, RowsTyped, PicTyped, HistoryTyped,
           WellFormed, PassTyped, Touched

(* Rows and history keep their types in every reachable state, whatever    *)
(* interleaving of edits, undos, passes and regenerations led there.       *)
THEOREM CurationTypeCorrect == CurationSpec => []CurationTypeOK
<1>1. CurationSpec => []CurationTyped
  BY StartTypes, StepTypes, PTL DEF CurationSpec
<1> QED BY <1>1, TypedImpliesOK, PTL

-----------------------------------------------------------------------------
(* Ownership                                                               *)

(* A pass owns what it writes and disturbs no ownership.                   *)
LEMMA MachineOwned ==
  ASSUME CurationInv, UNCHANGED <<history, edit>>,
         \/ UNCHANGED <<value, writer>>
         \/ \E new, read : Flush(new, read, Machine)
  PROVE  CurationOwned'
<1>1. RowsOwned'
  <2>1. CASE UNCHANGED <<value, writer>>
    BY <2>1 DEF CurationInv, CurationOwned, RowsOwned, Owned, Stands, Touches
  <2>2. CASE \E new, read : Flush(new, read, Machine)
    <3> SUFFICES ASSUME NEW c \in Cells
                 PROVE  Owned(history, c, writer'[c], value'[c], Len(history))
      BY DEF RowsOwned
    <3>1. \/ writer'[c] = Machine
          \/ writer'[c] = writer[c] /\ value'[c] = value[c]
      BY <2>2 DEF Flush
    <3> QED BY <3>1 DEF CurationInv, CurationOwned, RowsOwned, Owned
  <2> QED BY <2>1, <2>2
<1>2. BatchesOwned' /\ EditOwned'
  BY DEF CurationInv, CurationOwned, BatchesOwned, EditOwned
<1> QED BY <1>1, <1>2 DEF CurationOwned

(* What an edit loads is owned as the rows it read.                        *)
LEMMA LoadOwned ==
  ASSUME CurationInv, NEW kind \in {"record", "crop"}, NEW new, Load(kind, new),
         \A i \in DOMAIN new : i \in Images
  PROVE  CurationOwned'
<1>1. UNCHANGED <<value, writer, history>>
  BY DEF Load
<1>2. /\ edit'.kind = kind
      /\ \A c \in DOMAIN edit'.batch.before :
            /\ c \in Cells /\ edit'.batch.by[c] = writer[c] /\ edit'.batch.before[c] = value[c]
  BY DEF Load
<1>3. EditOwned'
  BY <1>1, <1>2 DEF EditOwned, CurationInv, CurationOwned, RowsOwned
<1> QED BY <1>1, <1>3 DEF CurationInv, CurationOwned, RowsOwned, BatchesOwned

(* A recorded batch is the newest of its cells and found the newest before *)
(* it.                                                                     *)
LEMMA RecordOwned ==
  ASSUME CurationInv, CommitEdit, edit.kind = "record"
  PROVE  CurationOwned'
<1> DEFINE n == Len(history)
           b == [edit.batch EXCEPT !.pics = pic]
<1>1. /\ WellFormed(edit.batch) /\ ~edit.batch.reverted
      /\ history \in Seq(Batches) /\ n \in Nat
  BY DEF CurationInv, CurationTyped, EditTyped, NoEdit, HistoryTyped
<1>2. /\ b \in Batches /\ b.before = edit.batch.before /\ b.after = edit.batch.after
      /\ b.by = edit.batch.by /\ ~b.reverted
  <2>1. pic \in [Images -> Int]
    BY CurationBounds DEF CurationInv, CurationTyped, PicTyped
  <2> QED BY <1>1, <2>1 DEF WellFormed, Batches
<1>3. /\ Len(history') = n + 1 /\ history'[n + 1] = b
      /\ \A d \in 1..n : history'[d] = history[d]
  <2>1. history' = Append(history, b)
    BY DEF CommitEdit
  <2> HIDE DEF b
  <2> QED BY <1>1, <1>2, <2>1, AppendProperties
<1>4. \A c \in Cells :
        IF c \in DOMAIN b.before
        THEN writer'[c] = n + 1 /\ value'[c] = b.after[c]
        ELSE writer'[c] = writer[c] /\ value'[c] = value[c]
  <2>1. /\ DOMAIN edit.batch.after = DOMAIN edit.batch.before
        /\ \A c \in DOMAIN edit.batch.before : edit.batch.before[c] # edit.batch.after[c]
    BY <1>1 DEF WellFormed
  <2> QED BY <1>2, <2>1 DEF CommitEdit, Flush
<1>5. Stands(history', n + 1)
  BY <1>1, <1>2, <1>3 DEF Stands
<1>6. \A d \in 1..n : /\ Stands(history', d) <=> Stands(history, d)
                      /\ \A c : Touches(history', d, c) <=> Touches(history, d, c)
  BY <1>1, <1>3 DEF Stands, Touches
<1> HIDE DEF b, n
<1>7. ASSUME NEW c \in Cells
      PROVE  Owned(history', c, writer'[c], value'[c], n + 1)
  <2>1. CASE c \in DOMAIN b.before
    <3>1. Touches(history', n + 1, c)
      BY <1>3, <2>1 DEF Touches
    <3> QED BY <1>1, <1>3, <1>4, <1>5, <2>1, <3>1 DEF Owned
  <2>2. CASE c \notin DOMAIN b.before
    <3>1. Owned(history, c, writer[c], value[c], n)
      BY DEF CurationInv, CurationOwned, RowsOwned, n
    <3>2. ~Touches(history', n + 1, c)
      BY <1>3, <2>2 DEF Touches
    <3>3. \A d \in 1..n+1 : Stands(history', d) /\ Touches(history', d, c)
                              => d <= n /\ Stands(history, d) /\ Touches(history, d, c)
      BY <1>1, <1>6, <3>2
    <3>4. Owned(history', c, writer[c], value[c], n + 1)
      BY <1>1, <1>3, <1>6, <3>1, <3>3 DEF Owned
    <3> QED BY <1>4, <2>2, <3>4
  <2> QED BY <2>1, <2>2
<1>8. ASSUME NEW d \in 1..n+1, Stands(history', d), NEW c \in DOMAIN history'[d].before
      PROVE  Owned(history', c, history'[d].by[c], history'[d].before[c], d - 1)
  <2>1. CASE d = n + 1
    <3>1. Owned(history, c, b.by[c], b.before[c], n)
      BY <1>2, <1>3, <2>1 DEF CurationInv, CurationOwned, EditOwned, n
    <3>2. Owned(history', c, b.by[c], b.before[c], n)
      BY <1>1, <1>3, <1>6, <3>1 DEF Owned
    <3> QED BY <1>1, <1>3, <2>1, <3>2
  <2>2. CASE d \in 1..n
    <3>1. history'[d] = history[d] /\ Stands(history, d)
      BY <1>3, <1>6, <1>8, <2>2
    <3>2. Owned(history, c, history[d].by[c], history[d].before[c], d - 1)
      BY <2>2, <3>1 DEF CurationInv, CurationOwned, BatchesOwned, n
    <3>3. d - 1 \in Nat /\ d - 1 <= n
      BY <1>1, <2>2
    <3>4. \A e \in 1..d-1 : e \in 1..n
      BY <1>1, <2>2
    <3>5. Owned(history', c, history[d].by[c], history[d].before[c], d - 1)
      BY <1>3, <1>6, <3>2, <3>3, <3>4 DEF Owned
    <3> QED BY <3>1, <3>5
  <2> QED BY <1>1, <2>1, <2>2
<1>9. EditOwned'
  BY DEF CommitEdit, EditOwned, NoEdit
<1> QED BY <1>3, <1>7, <1>8, <1>9 DEF CurationOwned, RowsOwned, BatchesOwned

(* An undo gives its cells back to those it took them from.                *)
LEMMA UndoOwned ==
  ASSUME CurationInv, CommitUndo
  PROVE  CurationOwned'
<1> DEFINE n == Len(history)
           b == edit.batch
<1>1. /\ b \in 1..n /\ Stands(history, b) /\ history \in Seq(Batches) /\ n \in Nat
  BY DEF CommitUndo, CurationInv, CurationTyped, EditTyped, NoEdit, HistoryTyped, Stands
<1>2. \A d \in b+1..n : Stands(history, d) =>
        \A c \in DOMAIN history[b].before : ~Touches(history, d, c)
  BY DEF CommitUndo, CurationInv, CurationOwned, EditOwned
<1>3. /\ Len(history') = n /\ history'[b] = Reverted
      /\ \A d \in 1..n : d # b => history'[d] = history[d]
  BY <1>1 DEF CommitUndo
<1>4. \A c \in Cells :
        IF c \in DOMAIN history[b].before
        THEN writer'[c] = history[b].by[c] /\ value'[c] = history[b].before[c]
        ELSE writer'[c] = writer[c] /\ value'[c] = value[c]
  BY DEF CommitUndo, Touched
<1> HIDE DEF b, n
<1>5. /\ ~Stands(history', b)
      /\ \A d \in 1..n : d # b => /\ Stands(history', d) <=> Stands(history, d)
                                  /\ \A c : Touches(history', d, c) <=> Touches(history, d, c)
  BY <1>1, <1>3 DEF Stands, Touches, Reverted, n
<1>6. ASSUME NEW c \in Cells
      PROVE  Owned(history', c, writer'[c], value'[c], n)
  <2>1. CASE c \in DOMAIN history[b].before
    <3>1. Owned(history, c, history[b].by[c], history[b].before[c], b - 1)
      BY <1>1, <2>1 DEF CurationInv, CurationOwned, BatchesOwned, n
    <3>2. \A d \in 1..n : Stands(history', d) /\ Touches(history', d, c)
                            => d <= b - 1 /\ Stands(history, d) /\ Touches(history, d, c)
      BY <1>1, <1>2, <1>5, <2>1
    <3>3. b - 1 \in Nat /\ b - 1 <= n /\ \A d \in 1..b-1 : d \in 1..n /\ d # b
      BY <1>1
    <3>4. Owned(history', c, history[b].by[c], history[b].before[c], n)
      BY <1>1, <1>3, <1>5, <3>1, <3>2, <3>3 DEF Owned
    <3> QED BY <1>4, <2>1, <3>4
  <2>2. CASE c \notin DOMAIN history[b].before
    <3>1. Owned(history, c, writer[c], value[c], n)
      BY DEF CurationInv, CurationOwned, RowsOwned, n
    <3>2. ~Touches(history, b, c)
      BY <2>2 DEF Touches
    <3>3. Owned(history', c, writer[c], value[c], n)
      BY <1>1, <1>3, <1>5, <3>1, <3>2 DEF Owned
    <3> QED BY <1>4, <2>2, <3>3
  <2> QED BY <2>1, <2>2
<1>7. ASSUME NEW d \in 1..n, Stands(history', d), NEW c \in DOMAIN history'[d].before
      PROVE  Owned(history', c, history'[d].by[c], history'[d].before[c], d - 1)
  <2>1. d # b /\ history'[d] = history[d] /\ Stands(history, d) /\ Touches(history, d, c)
    BY <1>3, <1>5, <1>7 DEF Touches
  <2>2. Owned(history, c, history[d].by[c], history[d].before[c], d - 1)
    BY <2>1 DEF CurationInv, CurationOwned, BatchesOwned, n
  <2>3. d > b => ~Touches(history, b, c)
    BY <1>1, <1>2, <2>1 DEF Touches
  <2>4. d - 1 \in Nat /\ \A e \in 1..d-1 : e \in 1..n /\ (e = b => d > b)
    BY <1>1
  <2>5. Owned(history', c, history[d].by[c], history[d].before[c], d - 1)
    BY <1>3, <1>5, <2>2, <2>3, <2>4 DEF Owned
  <2> QED BY <2>1, <2>5
<1>8. EditOwned'
  BY DEF CommitUndo, EditOwned, NoEdit
<1> QED BY <1>3, <1>6, <1>7, <1>8 DEF CurationOwned, RowsOwned, BatchesOwned

LEMMA EditsOwned ==
  ASSUME CurationInv, Edits
  PROVE  CurationOwned'
<1>1. ASSUME NEW i \in Images, NEW s \in Statuses \ {"failed"}, SetStatus(i, s)
      PROVE  CurationOwned'
  BY <1>1, LoadOwned DEF SetStatus
<1>2. ASSUME NEW i \in Images, NEW t \in Texts \cup {NoCaption}, SetCaption(i, t)
      PROVE  CurationOwned'
  BY <1>2, LoadOwned DEF SetCaption
<1>3. ASSUME NEW on \in SUBSET Images, NEW s \in Statuses \ {"failed"}, BatchStatus(on, s)
      PROVE  CurationOwned'
  BY <1>3, LoadOwned DEF BatchStatus
<1>4. ASSUME NEW on \in SUBSET Images, BatchClearCaption(on)
      PROVE  CurationOwned'
  BY <1>4, LoadOwned DEF BatchClearCaption
<1>5. ASSUME NEW on \in SUBSET Images, DismissWatermarks(on)
      PROVE  CurationOwned'
  BY <1>5, LoadOwned DEF DismissWatermarks
<1>6. ASSUME NEW t \in Texts, ReplaceInCaptions(t)
      PROVE  CurationOwned'
  BY <1>6, LoadOwned DEF ReplaceInCaptions, Captioned
<1>7. ASSUME NEW i \in Images, CropImage(i)
      PROVE  CurationOwned'
  BY <1>7, LoadOwned DEF CropImage
<1>8. ASSUME CommitEdit PROVE CurationOwned'
  <2>1. CASE edit.kind = "record"
    BY <1>8, <2>1, RecordOwned
  <2>2. CASE edit.kind # "record"
    <3>1. history' = history /\ edit' = NoEdit /\ \E new, read : Flush(new, read, Machine)
      BY <1>8, <2>2 DEF CommitEdit
    <3>2. RowsOwned'
      <4> SUFFICES ASSUME NEW c \in Cells
                   PROVE  Owned(history, c, writer'[c], value'[c], Len(history))
        BY <3>1 DEF RowsOwned
      <4>1. \/ writer'[c] = Machine
            \/ writer'[c] = writer[c] /\ value'[c] = value[c]
        BY <3>1 DEF Flush
      <4> QED BY <4>1 DEF CurationInv, CurationOwned, RowsOwned, Owned
    <3>3. BatchesOwned' /\ EditOwned'
      BY <3>1 DEF CurationInv, CurationOwned, BatchesOwned, EditOwned, NoEdit
    <3> QED BY <3>2, <3>3 DEF CurationOwned
  <2> QED BY <2>1, <2>2
<1>9. ASSUME NEW b \in 1..Len(history), LoadUndo(b) PROVE CurationOwned'
  <2>1. /\ edit'.kind = "undo" /\ edit'.batch = b /\ ~Overlapped(b)
        /\ UNCHANGED <<value, writer, history>>
    BY <1>9 DEF LoadUndo, Conflict
  <2>2. EditOwned'
    BY <2>1 DEF EditOwned, Overlapped, Live, Touched, Stands, Touches
  <2> QED BY <2>1, <2>2 DEF CurationInv, CurationOwned, RowsOwned, BatchesOwned
<1>10. ASSUME CommitUndo PROVE CurationOwned'
  BY <1>10, UndoOwned
<1> QED BY <1>1, <1>2, <1>3, <1>4, <1>5, <1>6, <1>7, <1>8, <1>9, <1>10 DEF Edits

LEMMA PassesOwned ==
  ASSUME CurationInv, Passes \/ Regenerations
  PROVE  CurationOwned'
<1>1. CASE Passes
  <2>1. UNCHANGED <<history, edit>>
    BY <1>1 DEF Passes, PlanCaptions, PersistCaption, PersistBlank, CaptionDone, SkipCaption,
                EndCaptions, StartScan, Look, ScanVerdict, NoVerdict, EndScan
  <2>2. \/ UNCHANGED <<value, writer>>
        \/ \E new, read : Flush(new, read, Machine)
    BY <1>1 DEF Passes, PlanCaptions, PersistCaption, PersistBlank, CaptionDone, SkipCaption,
                EndCaptions, StartScan, Look, ScanVerdict, NoVerdict, EndScan
  <2> QED BY <2>1, <2>2, MachineOwned
<1>2. CASE Regenerations
  <2>1. UNCHANGED <<history, edit>>
    BY <1>2 DEF Regenerations, RegenerateImage, CommitReplacement, RestoreAfterFailure
  <2>2. \E new, read : Flush(new, read, Machine)
    BY <1>2 DEF Regenerations, RegenerateImage, CommitReplacement, RestoreAfterFailure
  <2> QED BY <2>1, <2>2, MachineOwned
<1> QED BY <1>1, <1>2

LEMMA StartOwned == CurationInit => CurationOwned
BY DEF CurationInit, CurationOwned, RowsOwned, BatchesOwned, EditOwned, Owned, NoEdit

LEMMA StepOwned == CurationInv /\ [CurationNext]_vars => CurationInv'
<1> SUFFICES ASSUME CurationInv, [CurationNext]_vars PROVE CurationInv'
  OBVIOUS
<1>1. CurationTyped'
  BY StepTypes DEF CurationInv
<1>2. CurationOwned'
  <2>1. CASE UNCHANGED vars
    BY <2>1, MachineOwned DEF vars
  <2> QED BY <2>1, EditsOwned, PassesOwned DEF CurationNext
<1> QED BY <1>1, <1>2 DEF CurationInv

LEMMA OwnedShowsNewest == CurationInv => RowShowsNewestEdit
<1> SUFFICES ASSUME CurationInv, NEW c \in Cells, writer[c] # Machine
             PROVE  \/ /\ writer[c] = Nobody
                       /\ \A b \in 1..Len(history) : Live(b) => c \notin Touched(b)
                    \/ Newest(c, writer[c]) /\ value[c] = history[writer[c]].after[c]
  BY DEF RowShowsNewestEdit
<1>1. Owned(history, c, writer[c], value[c], Len(history))
  BY DEF CurationInv, CurationOwned, RowsOwned
<1> QED BY <1>1 DEF Owned, Newest, Live, Touched, Stands, Touches

(* Whatever the user edits and undoes in whatever order, and whatever the  *)
(* passes write in between, a row shows the newest edit that stands, or    *)
(* what a pass wrote after it.                                             *)
THEOREM NewestEditIsShown == CurationSpec => []RowShowsNewestEdit
<1>1. CurationInit => CurationInv
  BY StartTypes, StartOwned DEF CurationInv
<1> QED BY <1>1, StepOwned, OwnedShowsNewest, PTL DEF CurationSpec

(* The newest action was the last to write its cells, unless a pass did.   *)
LEMMA OwnedCanBeUndone == CurationInv => NewestCanBeUndone
<1> SUFFICES ASSUME CurationInv,
                    NEW b \in 1..Len(history), Live(b),
                    \A d \in b+1..Len(history) : ~Live(d),
                    \A c \in Touched(b) : writer[c] # Machine
             PROVE  ~Conflict(b)
  BY Zenon DEF NewestCanBeUndone
<1>1. Touched(b) \subseteq Cells
  BY TypedImpliesOK DEF CurationInv, CurationTypeOK
<1>2. ASSUME NEW c \in Touched(b) PROVE value[c] = history[b].after[c]
  <2>1. \/ /\ writer[c] = Nobody
           /\ \A d \in 1..Len(history) : Live(d) => c \notin Touched(d)
        \/ Newest(c, writer[c]) /\ value[c] = history[writer[c]].after[c]
    BY <1>1, <1>2, OwnedShowsNewest DEF RowShowsNewestEdit
  <2>2. Newest(c, writer[c]) /\ value[c] = history[writer[c]].after[c]
    BY <1>2, <2>1
  <2>3. writer[c] \in 1..Len(history) /\ Len(history) \in Nat
    BY <2>2 DEF Newest, Live, CurationInv, CurationTyped, HistoryTyped
  <2>4. ~(writer[c] > b) /\ ~(b > writer[c])
    BY <1>2, <2>2, <2>3 DEF Newest
  <2> QED BY <2>2, <2>3, <2>4
<1>3. ~Overlapped(b)
  BY DEF Overlapped
<1> QED BY <1>2, <1>3 DEF Conflict, ShowsAfter

(* The newest action of the user can always be undone, unless a pass wrote *)
(* its fields meanwhile: no undo and no later edit puts it in conflict.    *)
THEOREM NewestIsUndoable == CurationSpec => []NewestCanBeUndone
<1>1. CurationInit => CurationInv
  BY StartTypes, StartOwned DEF CurationInv
<1> QED BY <1>1, StepOwned, OwnedCanBeUndone, PTL DEF CurationSpec

-----------------------------------------------------------------------------
(* Captions                                                                *)

(* A captioning pass plans no caption the user wrote, unless it was asked  *)
(* to rewrite them all.                                                    *)
PlanSpares ==
  plan # NoPlan => \/ plan.mode = "all"
                   \/ \A i \in plan.todo : plan.caption[i] \notin Texts

LEMMA PlanStarts ==
  ASSUME NEW mode \in {"blanks", "machine", "all"}, PlanCaptions(mode)
  PROVE  PlanSpares'
<1>1. /\ plan'.mode = mode
      /\ plan'.todo = {i \in Images : Eligible(i, mode)}
      /\ \A i \in Images : plan'.caption[i] = Caption(i)
  BY DEF PlanCaptions
<1>2. ASSUME mode # "all", NEW i \in Images, Eligible(i, mode)
      PROVE  Caption(i) \notin Texts
  BY <1>2, CaptionValues DEF Eligible, Protected
<1> QED BY <1>1, <1>2 DEF PlanSpares

LEMMA PlanStep == PlanSpares /\ [CurationNext]_vars => PlanSpares'
<1> SUFFICES ASSUME PlanSpares, [CurationNext]_vars PROVE PlanSpares'
  OBVIOUS
<1>1. \/ UNCHANGED plan
      \/ \E mode \in {"blanks", "machine", "all"} : PlanCaptions(mode)
      \/ \E i \in Images : plan # NoPlan /\ plan' = [plan EXCEPT !.todo = @ \ {i}]
      \/ plan' = NoPlan
  BY DEF CurationNext, vars, passesOf, Edits, Passes, Regenerations, SetStatus, SetCaption,
         BatchStatus, BatchClearCaption, DismissWatermarks, ReplaceInCaptions, CropImage, Load,
         CommitEdit, LoadUndo, CommitUndo, PersistCaption, PersistBlank, CaptionDone,
         SkipCaption, EndCaptions, StartScan, Look, ScanVerdict, NoVerdict, EndScan,
         RegenerateImage, CommitReplacement, RestoreAfterFailure
<1>2. ASSUME NEW i \in Images, plan # NoPlan, plan' = [plan EXCEPT !.todo = @ \ {i}]
      PROVE  PlanSpares'
  <2>1. /\ plan'.todo \subseteq plan.todo
        /\ plan'.mode = plan.mode /\ plan'.caption = plan.caption
    BY <1>2
  <2> QED BY <1>2, <2>1 DEF PlanSpares
<1> QED BY <1>1, <1>2, PlanStarts DEF PlanSpares

(* A verdict about a watermark writes no caption, and a captioning pass    *)
(* writes one only where the row still shows what it planned for.          *)
LEMMA PassSpares ==
  ASSUME PlanSpares, CurationNext, NEW i \in Images,
         Caption(i) \in Texts, Caption(i)' # Caption(i)
  PROVE  plan' = plan \/ plan.mode = "all"
<1>1. CASE Edits
  BY <1>1 DEF Edits, SetStatus, SetCaption, BatchStatus, BatchClearCaption, DismissWatermarks,
              ReplaceInCaptions, CropImage, Load, CommitEdit, LoadUndo, CommitUndo, passesOf
<1>2. CASE Regenerations
  BY <1>2 DEF Regenerations, RegenerateImage, CommitReplacement, RestoreAfterFailure, passesOf
<1>3. ASSUME NEW j \in Images, NEW caption, CaptionDone(j, caption)
      PROVE  plan.mode = "all"
  <2>1. /\ plan # NoPlan /\ j \in plan.todo /\ StillPlanned(j)
        /\ Flush([c \in {<<j, "caption">>} |-> caption], value, Machine)
    BY <1>3 DEF CaptionDone, Caption
  <2>2. \A c \in Cells : c # <<j, "caption">> => value'[c] = value[c]
    BY <2>1 DEF Flush
  <2>3. i = j
    BY <2>2 DEF Caption
  <2> QED BY <2>1, <2>3 DEF PlanSpares, StillPlanned
<1>4. ASSUME NEW mark \in Marks, ScanVerdict(mark) PROVE FALSE
  BY <1>4 DEF ScanVerdict, Flush, Caption
<1>5. CASE Passes
  BY <1>3, <1>4, <1>5 DEF Passes, PlanCaptions, PersistCaption, PersistBlank, SkipCaption,
     EndCaptions, StartScan, Look, NoVerdict, EndScan, Caption
<1> QED BY <1>1, <1>2, <1>5 DEF CurationNext

(* No pass replaces a caption the user wrote, before or while the model    *)
(* worked, unless asked to rewrite them all.                               *)
THEOREM CaptionsSurvive == CurationSpec => WrittenCaptionSurvives
<1>1. CurationInit => PlanSpares
  BY DEF CurationInit, PlanSpares
<1>2. PlanSpares /\ [CurationNext]_vars
        => [\A i \in Images : Caption(i) \in Texts /\ Caption(i)' # Caption(i)
              => plan' = plan \/ plan.mode = "all"]_vars
  BY PassSpares
<1> QED BY <1>1, <1>2, PlanStep, PTL DEF CurationSpec, WrittenCaptionSurvives

-----------------------------------------------------------------------------
(***************************************************************************)
(* The image store.                                                        *)
(*                                                                         *)
(* StoreInv is what holds whatever fails or dies: what threads, entries    *)
(* and the transaction remember are rows and pictures that were, and the   *)
(* result of a job is shown only once the job is done with it.  It is      *)
(* enough for NothingIsDestroyed.  PlaceInv, further down, says where the  *)
(* files are in each phase of a transaction.                               *)
(***************************************************************************)
Places == {Disk, Nowhere, Emptied} \cup Entries
Moves == [file : Files, from : Places, to : {Disk} \cup Entries]
WorkStates == {"none", "unqueued", "running", "refused", "done", "failed", "saving",
               "over", "forgotten"}

LiveStates == {"pending", "keep", "failed"}
RowStates == LiveStates \cup {"trashed"}

(* The states a row was in before: each of a live row whose picture is in  *)
(* V, however many regenerations lie behind it.                            *)
GoodIn(p, V) ==
  \E S : /\ p \in S
         /\ \A q \in S : \/ q = NoPrev
                         \/ /\ q.status \in LiveStates
                            /\ q.file \in V /\ q.prev \in S

ImageRow(s, f, j, p, i) == [status |-> s, file |-> f, job |-> j, prev |-> p, imported |-> i]
IsRow(r) == r = ImageRow(r.status, r.file, r.job, r.prev, r.imported)
KnownIn(r, V) ==
  IsRow(r) /\ r.status \in RowStates /\ r.file \in V \cup {NoFile} /\ GoodIn(r.prev, V)
IsState(q) == q = [status |-> q.status, file |-> q.file, prev |-> q.prev]
EntryOf(k, f, s, o) == [kind |-> k, files |-> f, state |-> s, ok |-> o]
IsEntry(t) == t = EntryOf(t.kind, t.files, t.state, t.ok)
TxnOf(op, step, moves, n, kept, onward, new, read, uses, made) ==
  [op |-> op, step |-> step, moves |-> moves, n |-> n, kept |-> kept, onward |-> onward,
   new |-> new, read |-> read, uses |-> uses, made |-> made]
IsTxn(t) ==
  t = TxnOf(t.op, t.step, t.moves, t.n, t.kept, t.onward, t.new, t.read, t.uses, t.made)

LEMMA NoneIsGood == \A V : GoodIn(NoPrev, V)
<1> SUFFICES ASSUME NEW V PROVE GoodIn(NoPrev, V)
  OBVIOUS
<1>1. /\ NoPrev \in {NoPrev}
      /\ \A q \in {NoPrev} : \/ q = NoPrev
                            \/ /\ q.status \in LiveStates
                               /\ q.file \in V /\ q.prev \in {NoPrev}
  OBVIOUS
<1> QED BY <1>1, Zenon DEF GoodIn

LEMMA GoodUnfolds ==
  ASSUME NEW p, NEW V, GoodIn(p, V), p # NoPrev
  PROVE  p.status \in LiveStates /\ p.file \in V /\ GoodIn(p.prev, V)
BY DEF GoodIn

LEMMA GoodFolds ==
  ASSUME NEW p, NEW V, p.status \in LiveStates, p.file \in V,
         GoodIn(p.prev, V)
  PROVE  GoodIn(p, V)
<1>1. PICK S : /\ p.prev \in S
               /\ \A q \in S : \/ q = NoPrev
                               \/ /\ q.status \in LiveStates
                                  /\ q.file \in V /\ q.prev \in S
  BY DEF GoodIn
<1>2. /\ p \in S \cup {p}
      /\ \A q \in S \cup {p} : \/ q = NoPrev
                              \/ /\ q.status \in LiveStates
                                 /\ q.file \in V /\ q.prev \in S \cup {p}
  BY <1>1
<1> QED BY <1>2, Zenon DEF GoodIn

LEMMA GoodGrows ==
  ASSUME NEW p, NEW V, NEW W, V \subseteq W, GoodIn(p, V)
  PROVE  GoodIn(p, W)
BY DEF GoodIn

LEMMA MergeIs ==
  ASSUME NEW old, NEW new, NEW read, IsRow(old), IsRow(new), IsRow(read)
  PROVE  Merge(old, new, read) =
           ImageRow(IF new.status # read.status THEN new.status ELSE old.status,
                 IF new.file # read.file THEN new.file ELSE old.file,
                 IF new.job # read.job THEN new.job ELSE old.job,
                 IF new.prev # read.prev THEN new.prev ELSE old.prev,
                 IF new.imported # read.imported THEN new.imported ELSE old.imported)
<1>1. DOMAIN old = {"status", "file", "job", "prev", "imported"}
  <2>1. DOMAIN ImageRow(old.status, old.file, old.job, old.prev, old.imported) =
          {"status", "file", "job", "prev", "imported"}
    BY DEF ImageRow
  <2> QED BY <2>1 DEF IsRow
<1> QED BY <1>1 DEF Merge, ImageRow

Edited(r, s, j, p) == [r EXCEPT !.status = s, !.job = j, !.prev = p]
Restored(r, s, f, j, p) == [r EXCEPT !.status = s, !.file = f, !.prev = p, !.job = j]

LEMMA StatusIs ==
  ASSUME NEW r, IsRow(r), NEW s
  PROVE  [r EXCEPT !.status = s] = ImageRow(s, r.file, r.job, r.prev, r.imported)
BY DEF IsRow, ImageRow

LEMMA EditedIs ==
  ASSUME NEW r, IsRow(r), NEW s, NEW j, NEW p
  PROVE  Edited(r, s, j, p) = ImageRow(s, r.file, j, p, r.imported)
<1> DEFINE A == [r EXCEPT !.status = s]
           B == [A EXCEPT !.job = j]
<1>1. Edited(r, s, j, p) = [B EXCEPT !.prev = p]
  BY Zenon DEF Edited
<1>2. A = ImageRow(s, r.file, r.job, r.prev, r.imported)
  BY StatusIs
<1> HIDE DEF A
<1>3. B = ImageRow(s, r.file, j, r.prev, r.imported)
  BY <1>2 DEF ImageRow
<1> HIDE DEF B
<1>4. [B EXCEPT !.prev = p] = ImageRow(s, r.file, j, p, r.imported)
  BY <1>3 DEF ImageRow
<1> QED BY <1>1, <1>4

LEMMA RestoredIs ==
  ASSUME NEW r, IsRow(r), NEW s, NEW f, NEW j, NEW p
  PROVE  Restored(r, s, f, j, p) = ImageRow(s, f, j, p, r.imported)
<1> DEFINE A == [r EXCEPT !.status = s]
           B == [A EXCEPT !.file = f]
           C == [B EXCEPT !.prev = p]
<1>1. Restored(r, s, f, j, p) = [C EXCEPT !.job = j]
  BY Zenon DEF Restored
<1>2. A = ImageRow(s, r.file, r.job, r.prev, r.imported)
  BY StatusIs
<1> HIDE DEF A
<1>3. B = ImageRow(s, f, r.job, r.prev, r.imported)
  BY <1>2 DEF ImageRow
<1> HIDE DEF B
<1>4. C = ImageRow(s, f, r.job, p, r.imported)
  BY <1>3 DEF ImageRow
<1> HIDE DEF C
<1>5. [C EXCEPT !.job = j] = ImageRow(s, f, j, p, r.imported)
  BY <1>4 DEF ImageRow
<1> QED BY <1>1, <1>5

LEMMA RowOfIs ==
  ASSUME NEW s, NEW f, NEW j, NEW p, NEW i
  PROVE  /\ IsRow(ImageRow(s, f, j, p, i))
         /\ ImageRow(s, f, j, p, i).status = s /\ ImageRow(s, f, j, p, i).file = f
         /\ ImageRow(s, f, j, p, i).job = j /\ ImageRow(s, f, j, p, i).prev = p
         /\ ImageRow(s, f, j, p, i).imported = i
BY DEF IsRow, ImageRow

LEMMA EntryOfIs ==
  ASSUME NEW k, NEW f, NEW s, NEW o
  PROVE  /\ IsEntry(EntryOf(k, f, s, o)) /\ EntryOf(k, f, s, o) # NoEntry
         /\ EntryOf(k, f, s, o).kind = k /\ EntryOf(k, f, s, o).files = f
         /\ EntryOf(k, f, s, o).state = s /\ EntryOf(k, f, s, o).ok = o
<1>1. DOMAIN EntryOf(k, f, s, o) # DOMAIN NoEntry
  BY DEF EntryOf, NoEntry
<1>2. EntryOf(k, f, s, o) # NoEntry
  BY <1>1
<1> QED BY <1>2 DEF IsEntry, EntryOf

UsedUp(t, o) == [t EXCEPT !.files = {}, !.kind = "used", !.ok = o]
Tombstone(t, o) == [t EXCEPT !.kind = "purged", !.ok = o]

LEMMA UsedUpIs ==
  ASSUME NEW t, IsEntry(t), NEW o
  PROVE  UsedUp(t, o) = EntryOf("used", {}, t.state, o)
<1> DEFINE A == [t EXCEPT !.files = {}]
           B == [A EXCEPT !.kind = "used"]
<1>1. UsedUp(t, o) = [B EXCEPT !.ok = o]
  BY Zenon DEF UsedUp
<1>2. A = EntryOf(t.kind, {}, t.state, t.ok)
  BY DEF IsEntry, EntryOf
<1> HIDE DEF A
<1>3. B = EntryOf("used", {}, t.state, t.ok)
  BY <1>2 DEF EntryOf
<1> HIDE DEF B
<1>4. [B EXCEPT !.ok = o] = EntryOf("used", {}, t.state, o)
  BY <1>3 DEF EntryOf
<1> QED BY <1>1, <1>4

LEMMA TombstoneIs ==
  ASSUME NEW t, IsEntry(t), NEW o
  PROVE  Tombstone(t, o) = EntryOf("purged", t.files, t.state, o)
<1> DEFINE A == [t EXCEPT !.kind = "purged"]
<1>1. Tombstone(t, o) = [A EXCEPT !.ok = o]
  BY Zenon DEF Tombstone
<1>2. A = EntryOf("purged", t.files, t.state, t.ok)
  BY DEF IsEntry, EntryOf
<1> HIDE DEF A
<1>3. [A EXCEPT !.ok = o] = EntryOf("purged", t.files, t.state, o)
  BY <1>2 DEF EntryOf
<1> QED BY <1>1, <1>3

LEMMA TxnOfIs ==
  ASSUME NEW op, NEW step, NEW moves, NEW n, NEW kept, NEW onward, NEW new, NEW read,
         NEW uses, NEW made
  PROVE  LET t == TxnOf(op, step, moves, n, kept, onward, new, read, uses, made) IN
         /\ IsTxn(t) /\ t # Idle /\ t.op = op /\ t.step = step /\ t.moves = moves
         /\ t.n = n /\ t.kept = kept /\ t.onward = onward /\ t.new = new /\ t.read = read
         /\ t.uses = uses /\ t.made = made
<1> DEFINE t == TxnOf(op, step, moves, n, kept, onward, new, read, uses, made)
<1>1. DOMAIN t # DOMAIN Idle
  <2>1. "step" \in DOMAIN t /\ "step" \notin DOMAIN Idle
    BY DEF TxnOf, Idle
  <2> QED BY <2>1
<1>2. t # Idle
  BY <1>1
<1> QED BY <1>2 DEF IsTxn, TxnOf

Advanced(t, n) == [t EXCEPT !.n = n]
Stepped(t, s) == [t EXCEPT !.step = s]
GivenUp(t, s, o) == [t EXCEPT !.step = s, !.onward = o]
LeftBehind(t, n, o) == [t EXCEPT !.n = n, !.kept = o]

LEMMA AdvancedIs ==
  ASSUME NEW t, IsTxn(t), NEW n
  PROVE  Advanced(t, n) =
           TxnOf(t.op, t.step, t.moves, n, t.kept, t.onward, t.new, t.read, t.uses, t.made)
BY DEF Advanced, IsTxn, TxnOf

LEMMA SteppedIs ==
  ASSUME NEW t, IsTxn(t), NEW s
  PROVE  Stepped(t, s) =
           TxnOf(t.op, s, t.moves, t.n, t.kept, t.onward, t.new, t.read, t.uses, t.made)
BY DEF Stepped, IsTxn, TxnOf

LEMMA GivenUpIs ==
  ASSUME NEW t, IsTxn(t), NEW s, NEW o
  PROVE  GivenUp(t, s, o) =
           TxnOf(t.op, s, t.moves, t.n, t.kept, o, t.new, t.read, t.uses, t.made)
<1>1. GivenUp(t, s, o) = [Stepped(t, s) EXCEPT !.onward = o]
  BY Zenon DEF GivenUp, Stepped
<1> QED BY <1>1, SteppedIs DEF TxnOf

LEMMA LeftBehindIs ==
  ASSUME NEW t, IsTxn(t), NEW n, NEW o
  PROVE  LeftBehind(t, n, o) =
           TxnOf(t.op, t.step, t.moves, n, o, t.onward, t.new, t.read, t.uses, t.made)
<1>1. LeftBehind(t, n, o) = [Advanced(t, n) EXCEPT !.kept = o]
  BY Zenon DEF LeftBehind, Advanced
<1> QED BY <1>1, AdvancedIs DEF TxnOf

(* The fields of a transaction that has been changed.                      *)
LEMMA TxnFields ==
  ASSUME NEW t, NEW op, NEW step, NEW moves, NEW n, NEW kept, NEW onward, NEW new, NEW read,
         NEW uses, NEW made,
         t = TxnOf(op, step, moves, n, kept, onward, new, read, uses, made)
  PROVE  /\ IsTxn(t) /\ t # Idle /\ t.op = op /\ t.step = step /\ t.moves = moves
         /\ t.n = n /\ t.kept = kept /\ t.onward = onward /\ t.new = new /\ t.read = read
         /\ t.uses = uses /\ t.made = made
BY TxnOfIs

(* A row of the Trash that is free, and an order of at most two moves.     *)
LEMMA LeastExists ==
  ASSUME NEW n \in Nat, NEW S \in SUBSET (1 .. n), S # {}
  PROVE  \E p \in S : \A i \in S : p <= i
<1>1. S \subseteq Nat
  OBVIOUS
<1>2. \E x \in S : \A y \in S : ~(<<y, x>> \in OpToRel(<, Nat))
  BY <1>1, NatLessThanWellFounded, WFMin
<1>3. PICK x \in S : \A y \in S : ~(y < x)
  BY <1>1, <1>2 DEF OpToRel
<1> QED BY <1>1, <1>3

LEMMA FreeEntry == Free # {} => NewEntry \in Free
<1>1. MaxEntries \in Nat
  BY StoreBounds
<1>2. Free \in SUBSET (1..MaxEntries)
  BY DEF Free, Entries
<1>3. Free # {} => \E e \in Free : \A d \in Free : e <= d
  BY <1>1, <1>2, LeastExists
<1> QED BY <1>3 DEF NewEntry

LEMMA OrderedMoves ==
  ASSUME NEW M, NEW a, NEW b, M \in {{}, {a}, {b}, {a, b}}, a.file > b.file,
         a.file \in Int, b.file \in Int
  PROVE  /\ InOrder(M) \in Seq(M)
         /\ {InOrder(M)[i] : i \in DOMAIN InOrder(M)} = M
         /\ \A i, k \in DOMAIN InOrder(M) : i < k => InOrder(M)[i].file > InOrder(M)[k].file
<1> DEFINE Good(s) == /\ {s[i] : i \in DOMAIN s} = M
                      /\ \A i, k \in DOMAIN s : i < k => s[i].file > s[k].file
<1>1. \E s \in [1..Cardinality(M) -> M] : Good(s)
  <2>1. CASE M = {}
    <3>1. Cardinality(M) = 0
      BY <2>1, FS_EmptySet
    <3>2. << >> \in [1..0 -> M] /\ DOMAIN << >> = {}
      OBVIOUS
    <3> QED BY <2>1, <3>1, <3>2
  <2>2. ASSUME NEW c, M = {c} PROVE \E s \in [1..Cardinality(M) -> M] : Good(s)
    <3>1. Cardinality(M) = 1
      BY <2>2, FS_Singleton
    <3>2. <<c>> \in [1..1 -> M] /\ DOMAIN <<c>> = 1..1
      BY <2>2
    <3>3. Good(<<c>>)
      BY <2>2, <3>2
    <3> QED BY <3>1, <3>2, <3>3, Zenon
  <2>3. CASE M = {a, b}
    <3>0. a # b
      OBVIOUS
    <3>1. Cardinality(M) = 2
      <4>1. IsFiniteSet({b}) /\ Cardinality({b}) = 1
        BY FS_Singleton
      <4>2. Cardinality({b} \cup {a}) = 2
        BY <4>1, <3>0, FS_AddElement
      <4>3. {b} \cup {a} = M
        BY <2>3
      <4> QED BY <4>2, <4>3
    <3>2. <<a, b>> \in [1..2 -> M] /\ DOMAIN <<a, b>> = 1..2
      BY <2>3
    <3>3. Good(<<a, b>>)
      BY <2>3, <3>2
    <3> QED BY <3>1, <3>2, <3>3, Zenon
  <2> QED BY <2>1, <2>2, <2>3
<1>2. InOrder(M) \in [1..Cardinality(M) -> M] /\ Good(InOrder(M))
  BY <1>1 DEF InOrder
<1>3. Cardinality(M) \in Nat
  <2>1. IsFiniteSet({}) /\ \A c : IsFiniteSet({c})
    BY FS_EmptySet, FS_Singleton
  <2>2. IsFiniteSet({b} \cup {a})
    BY <2>1, FS_AddElement
  <2>3. {b} \cup {a} = {a, b}
    OBVIOUS
  <2>4. IsFiniteSet(M)
    BY <2>1, <2>2, <2>3
  <2> QED BY <2>4, FS_CardinalityType
<1> QED BY <1>2, <1>3

(* What a commit leaves of the row.                                        *)
LEMMA WriteIs ==
  ASSUME IsRow(row), NEW new, IsRow(new), NEW read, IsRow(read), NEW restores,
         Write(new, read, restores)
  PROVE  /\ IsRow(row') /\ row'.status \in {row.status, new.status}
         /\ row'.file \in {row.file, new.file} /\ row'.job \in {row.job, new.job}
         /\ row'.prev \in {row.prev, new.prev}
         /\ ~Exists(row) => row' = row
         /\ Exists(row) =>
              /\ IF new.status = read.status THEN row'.status = row.status
                                             ELSE row'.status = new.status
              /\ IF new.file = read.file THEN row'.file = row.file ELSE row'.file = new.file
              /\ IF new.job = read.job THEN row'.job = row.job ELSE row'.job = new.job
              /\ IF new.prev = read.prev THEN row'.prev = row.prev ELSE row'.prev = new.prev
         /\ shown' = shown \cup ({row'.file} \cap Versions)
<1>1. CASE Exists(row)
  <2>1. row' = Merge(row, new, read)
    BY <1>1 DEF Write
  <2> DEFINE St == IF new.status # read.status THEN new.status ELSE row.status
             Fi == IF new.file # read.file THEN new.file ELSE row.file
             Jo == IF new.job # read.job THEN new.job ELSE row.job
             Pr == IF new.prev # read.prev THEN new.prev ELSE row.prev
             Im == IF new.imported # read.imported THEN new.imported ELSE row.imported
  <2>2. row' = ImageRow(St, Fi, Jo, Pr, Im)
    BY <2>1, MergeIs
  <2>3. /\ IsRow(row') /\ row'.status = St /\ row'.file = Fi /\ row'.job = Jo /\ row'.prev = Pr
    <3> HIDE DEF St, Fi, Jo, Pr, Im
    <3> QED BY <2>2, RowOfIs
  <2>4. shown' = shown \cup ({row'.file} \cap Versions)
    BY DEF Write
  <2> QED BY <2>3, <2>4, <1>1
<1>2. CASE ~Exists(row)
  BY <1>2 DEF Write
<1> QED BY <1>1, <1>2

StoreTyped ==
  /\ at \in [Files -> Places]
  /\ work \in [Jobs -> WorkStates]
  /\ seen = [t \in Readers |-> seen[t]]
  /\ shown \in SUBSET Versions
RowKnown == row = Purged \/ KnownIn(row, shown)
(* The answer to a refused hand-over may find that the row is gone.        *)
SeenKnown ==
  \A t \in Readers : \/ seen[t] = Unread
                     \/ KnownIn(seen[t], shown) /\ (t = User => IsLive(seen[t]))
                     \/ /\ seen[t] = Purged /\ row = Purged
                        /\ t \in Jobs /\ work[t] = "refused"
EntryKnown(t, V) ==
  t = NoEntry \/
    /\ IsEntry(t)
    /\ t.kind = "version" =>
         /\ t.state.status \in RowStates
         /\ t.state.file \in V /\ GoodIn(t.state.prev, V)
    /\ t.kind = "image" =>
         t.state \in LiveStates /\ \E v \in Versions : t.files \subseteq {v, Original}
TrashKnown == trash = [e \in Entries |-> trash[e]] /\ \A e \in Entries : EntryKnown(trash[e], shown)
(* A transaction that brings back or puts away pictures the row has shown. *)
PlainTxn ==
  /\ txn.op \in {"delete", "restore", "swap"}
  /\ txn.new.file \in shown \cup {NoFile} /\ txn.new.job \in {NoJob, txn.read.job}
  /\ \A i \in 1..Len(txn.moves) : txn.moves[i].from # Nowhere
(* One that writes a result, which the row has not shown.                  *)
ReplaceTxn ==
  /\ txn.op = "replace"
  /\ \E j \in Jobs :
       /\ txn.new.file = ResultOf(j) /\ txn.new.job = NoJob
       /\ Len(txn.moves) >= 1
       /\ txn.moves[1].file = ResultOf(j) /\ txn.moves[1].to = Disk
       /\ \A i \in 2..Len(txn.moves) : txn.moves[i].from # Nowhere
       /\ txn.step \in {"move", "undo"} =>
            /\ work[j] = "saving" /\ ResultOf(j) \notin shown
            /\ j \in api \/ txn.read.job = j
       /\ txn.step = "move" /\ txn.n >= 1 => at[ResultOf(j)] # Nowhere
TxnKnown ==
  txn = Idle \/
    /\ IsTxn(txn)
    /\ txn.step \in {"move", "undo", "finish"}
    /\ txn.moves \in Seq(Moves) /\ txn.n \in 0..Len(txn.moves)
    /\ KnownIn(txn.read, shown)
    /\ IsRow(txn.new) /\ txn.new.status \in RowStates /\ GoodIn(txn.new.prev, shown)
    /\ \A e \in Entries : e \in txn.uses => trash[e] # NoEntry
    /\ PlainTxn \/ ReplaceTxn
JobKnown(j) ==
  /\ ResultOf(j) \in shown =>
       /\ row.job # j /\ seen[j] = Unread
       /\ work[j] \in {"saving", "over"} \/ (work[j] = "done" /\ j \notin api)
  /\ work[j] = "saving" => txn # Idle /\ txn.op = "replace" /\ txn.new.file = ResultOf(j)
  /\ j \in api => row.job # j /\ work[j] # "none"
  /\ work[j] = "done" /\ seen[j] # Unread /\ j \notin api => seen[j].job = j
  /\ work[j] = "none" => row.job # j
  /\ seen[j] # Unread => work[j] \in {"refused", "done", "failed"}
JobsKnown == \A j \in Jobs : JobKnown(j)
ShownKept == \A f \in shown : at[f] # Nowhere

(* The inductive invariant under NothingIsDestroyed.                       *)
StoreInv ==
  StoreTyped /\ RowKnown /\ SeenKnown /\ TrashKnown /\ TxnKnown /\ JobsKnown /\ ShownKept

LEMMA JobFacts ==
  /\ MaxJobs \in Nat /\ MaxEntries \in Nat
  /\ \A j \in Jobs : /\ ResultOf(j) \in Versions /\ ResultOf(j) \in Int /\ ResultOf(j) # NoFile
                     /\ j \in Int /\ j # NoJob /\ j # User /\ j \in Readers
                     /\ \A i \in Jobs : ResultOf(i) = ResultOf(j) => i = j
  /\ \A v \in Versions : v \in Int /\ v # NoFile /\ v # Original /\ v \in Files /\ v > Original
  /\ Original \in Files /\ NoFile \notin Versions
  /\ \A e \in Entries : e \in Int /\ e # Disk /\ e # Nowhere /\ e # Emptied /\ e \in Places
  /\ Disk # Nowhere /\ Disk # Emptied /\ Nowhere # Emptied
  /\ Disk \in Places /\ Nowhere \in Places /\ Emptied \in Places
  /\ User \in Readers
BY StoreBounds DEF Jobs, Versions, ResultOf, NoFile, NoJob, User, Readers, Files, Original,
   Entries, Disk, Nowhere, Emptied, Places

LEMMA ShapeFacts ==
  /\ IsRow(Purged) /\ Purged.status = "purged" /\ Purged.file = NoFile
  /\ Purged.job = NoJob /\ Purged.prev = NoPrev
  /\ ~Exists(Purged) /\ ~InFlight(Purged) /\ ~IsLive(Purged)
  /\ NoEntry.kind = "none" /\ ~IsEntry(NoEntry)
  /\ \A r : IsRow(r) => r # Unread
  /\ \A V : KnownIn(Purged, V) = FALSE
<1>1. \A r : IsRow(r) => r # Unread
  <2> SUFFICES ASSUME NEW r, IsRow(r), r = Unread PROVE FALSE
    OBVIOUS
  <2>1. "file" \in DOMAIN ImageRow(r.status, r.file, r.job, r.prev, r.imported)
    BY DEF ImageRow
  <2>2. "file" \in DOMAIN r
    BY <2>1 DEF IsRow
  <2> QED BY <2>2 DEF Unread
<1>2. ~IsEntry(NoEntry)
  <2>1. "files" \in DOMAIN EntryOf(NoEntry.kind, NoEntry.files, NoEntry.state, NoEntry.ok)
    BY DEF EntryOf
  <2>2. "files" \notin DOMAIN NoEntry
    BY DEF NoEntry
  <2> QED BY <2>1, <2>2 DEF IsEntry
<1>3. IsRow(Purged)
  BY DEF IsRow, ImageRow, Purged
<1> QED BY <1>1, <1>2, <1>3 DEF Purged, Exists, InFlight, IsLive, NoEntry, KnownIn,
   RowStates, LiveStates

LEMMA StoreStarts == StoreInit => StoreInv
<1> SUFFICES ASSUME StoreInit PROVE StoreInv
  OBVIOUS
<1> USE JobFacts, ShapeFacts
<1>1. PICK source \in {"import", "generated", "klein", "api"} :
       /\ row = ImageRow("pending", IF source \in {"klein", "api"} THEN NoFile ELSE 1,
                      IF source = "klein" THEN 1 ELSE NoJob, NoPrev, source = "import")
       /\ at = [f \in Files |-> IF \/ f = 1 /\ source \in {"import", "generated"}
                                   \/ f = Original /\ source = "import"
                                THEN Disk ELSE Nowhere]
       /\ work = [j \in Jobs |-> CASE j = 1 /\ source = "klein" -> "unqueued"
                                   [] j = 1 /\ source = "api" -> "running"
                                   [] OTHER -> "none"]
       /\ api = IF source = "api" THEN {1} ELSE {}
       /\ shown = IF source \in {"import", "generated"} THEN {1} ELSE {}
  BY DEF StoreInit, ImageRow
<1>2. /\ trash = [e \in Entries |-> NoEntry] /\ txn = Idle /\ seen = [t \in Readers |-> Unread]
  BY DEF StoreInit
<1>3. KnownIn(row, shown)
  <2>1. KnownIn(ImageRow("pending", IF source \in {"klein", "api"} THEN NoFile ELSE 1,
                      IF source = "klein" THEN 1 ELSE NoJob, NoPrev, source = "import"), shown)
    <3>1. 1 \in shown \/ source \in {"klein", "api"}
      BY <1>1
    <3> QED BY <3>1, RowOfIs, NoneIsGood DEF KnownIn, RowStates, LiveStates
  <2> QED BY <2>1, <1>1
<1>4. row.job = IF source = "klein" THEN 1 ELSE NoJob
  BY <1>1, RowOfIs
<1>5. shown \in SUBSET Versions
  BY <1>1 DEF Versions
<1>6. StoreTyped
  BY <1>1, <1>2, <1>5 DEF StoreTyped, WorkStates, Places
<1>7. SeenKnown /\ TrashKnown /\ TxnKnown /\ RowKnown
  BY <1>2, <1>3 DEF SeenKnown, TrashKnown, EntryKnown, TxnKnown, RowKnown
<1>8. JobsKnown
  <2>1. \A j \in Jobs : ResultOf(j) \notin shown
    BY <1>1, JobFacts DEF ResultOf, Jobs
  <2> QED BY <1>1, <1>2, <1>4, <2>1 DEF JobsKnown, JobKnown
<1>9. ShownKept
  <2>1. shown \subseteq {1} /\ 1 \in Files /\ Disk # Nowhere
    BY <1>1 DEF Files, Versions
  <2> QED BY <1>1, <2>1 DEF ShownKept
<1> QED BY <1>3, <1>6, <1>7, <1>8, <1>9 DEF StoreInv

-----------------------------------------------------------------------------
(* Threads read the row and jobs go on.                                    *)
LEMMA WorkStep ==
  ASSUME StoreInv, UNCHANGED <<row, at, trash, txn, api, shown>>,
         work' \in [Jobs -> WorkStates], seen' = [t \in Readers |-> seen'[t]],
         \A t \in Readers : \/ seen'[t] \in {seen[t], Unread}
                            \/ /\ seen'[t] = row
                               /\ t = User => IsLive(row)
                               /\ Exists(row) \/ (t \in Jobs /\ work'[t] = "refused"),
         \A j \in Jobs : work[j] \in {"saving", "refused"} => work'[j] = work[j],
         JobsKnown'
  PROVE  StoreInv'
<1> USE DEF StoreInv
<1>1. StoreTyped'
  BY DEF StoreTyped
<1>2. RowKnown'
  BY DEF RowKnown
<1>3. SeenKnown'
  <2>1. Exists(row) => KnownIn(row, shown)
    BY ShapeFacts DEF RowKnown
  <2>2. row = Purged \/ KnownIn(row, shown)
    BY DEF RowKnown
  <2> QED BY <2>1, <2>2 DEF SeenKnown
<1>4. TrashKnown'
  BY DEF TrashKnown
<1>5. TxnKnown'
  BY Zenon DEF TxnKnown, PlainTxn, ReplaceTxn
<1>6. ShownKept'
  BY DEF ShownKept
<1> QED BY <1>1, <1>2, <1>3, <1>4, <1>5, <1>6

LEMMA ReaderSteps ==
  ASSUME StoreInv, UserReads
  PROVE  StoreInv'
<1> USE JobFacts
<1>1. /\ UNCHANGED <<row, at, trash, txn, work, api, shown>>
      /\ seen' = [seen EXCEPT ![User] = row] /\ IsLive(row) /\ Exists(row)
  BY DEF UserReads, IsLive, Exists
<1>2. work \in [Jobs -> WorkStates] /\ seen = [t \in Readers |-> seen[t]]
  BY DEF StoreInv, StoreTyped
<1>3. /\ seen' = [t \in Readers |-> seen'[t]]
      /\ \A t \in Readers : seen'[t] = seen[t] \/ (t = User /\ seen'[t] = row)
  BY <1>1, <1>2
<1>4. JobsKnown'
  BY <1>1, <1>3 DEF StoreInv, JobsKnown, JobKnown
<1> QED BY <1>1, <1>2, <1>3, <1>4, WorkStep

LEMMA ReadSteps ==
  ASSUME StoreInv, NEW j \in Jobs,
         \/ UserReads \/ Enqueue(j) \/ EnqueueFails(j) \/ GenerationEnds(j)
         \/ GenerationSkipped(j) \/ AnswerReads(j) \/ AnswerIgnored(j)
  PROVE  StoreInv'
<1> USE JobFacts, ShapeFacts
<1>1. UNCHANGED <<row, at, trash, txn, api, shown>>
  BY DEF UserReads, Enqueue, EnqueueFails, GenerationEnds, GenerationSkipped, AnswerReads,
         AnswerIgnored
<1>2. /\ work \in [Jobs -> WorkStates] /\ seen = [t \in Readers |-> seen[t]]
  BY DEF StoreInv, StoreTyped
<1>3. /\ work' \in [Jobs -> WorkStates]
      /\ \A i \in Jobs : \/ work'[i] = work[i]
                         \/ i = j /\ work[j] = "unqueued" /\ work'[j] \in {"running", "refused"}
                         \/ i = j /\ work[j] = "running" /\ work'[j] \in {"done", "failed", "over"}
                         \/ i = j /\ work[j] \in {"done", "failed"} /\ work'[j] = "over"
  BY <1>2 DEF UserReads, Enqueue, EnqueueFails, GenerationEnds, GenerationSkipped, AnswerReads,
         AnswerIgnored, WorkStates, Answered
<1>4. /\ seen' = [t \in Readers |-> seen'[t]]
      /\ \A t \in Readers : \/ seen'[t] = seen[t]
                            \/ t = User /\ seen'[t] = row /\ IsLive(row) /\ Exists(row)
                            \/ /\ t = j /\ seen'[t] = row /\ EnqueueFails(j)
                            \/ /\ t = j /\ seen'[t] = row /\ Exists(row) /\ AnswerReads(j)
  BY <1>2 DEF UserReads, Enqueue, EnqueueFails, GenerationEnds, GenerationSkipped, AnswerReads,
         AnswerIgnored, IsLive, Exists
<1>5. JobsKnown'
  <2> SUFFICES ASSUME NEW i \in Jobs PROVE JobKnown(i)'
    BY DEF JobsKnown
  <2>1. JobKnown(i)
    BY DEF StoreInv, JobsKnown
  <2> USE <1>1 DEF JobKnown
  <2>2. AnswerReads(j) => /\ j \in api \/ row.job = j
                          /\ work' = work /\ work[j] \in {"done", "failed"}
    BY DEF AnswerReads, Answered
  <2>3. EnqueueFails(j) => work[j] = "unqueued" /\ work'[j] = "refused"
    BY <1>2 DEF EnqueueFails
  <2>4. GenerationEnds(j) => work[j] = "running" /\ seen' = seen
    BY DEF GenerationEnds
  <2>8. AnswerIgnored(j) \/ GenerationSkipped(j) => 
          seen' = seen /\ (seen[j] = Unread \/ work[j] = "running")
    BY DEF AnswerIgnored, GenerationSkipped, Answered
  <2>9. Enqueue(j) => work[j] = "unqueued" /\ seen' = seen
    BY DEF Enqueue
  <2>5. seen'[i] = seen[i] \/ (i = j /\ seen'[i] = row /\ (EnqueueFails(j) \/ AnswerReads(j)))
    BY <1>4
  <2>6. CASE i # j
    BY <2>1, <2>5, <2>6, <1>3
  <2>7. CASE i = j
    <3>0. UserReads => work' = work
      BY DEF UserReads
    <3>1. CASE work'[i] = work[i]
      BY <2>1, <2>2, <2>3, <2>5, <2>7, <3>1
    <3>2. CASE work'[i] # work[i]
      <4>1. ~AnswerReads(j)
        BY <2>2, <2>7, <3>2
      <4>2. \/ work[i] = "unqueued" /\ work'[i] \in {"running", "refused"}
            \/ work[i] = "running" /\ work'[i] \in {"done", "failed", "over"}
            \/ work[i] \in {"done", "failed"} /\ work'[i] = "over"
        BY <1>3, <2>7, <3>2
      <4>3. seen'[i] # seen[i] => EnqueueFails(j)
        BY <2>5, <4>1
      <4>4. CASE EnqueueFails(j)
        BY <2>1, <2>3, <2>7, <4>4
      <4>5. CASE ~EnqueueFails(j)
        <5>1. seen'[i] = Unread
          BY <2>1, <2>4, <2>7, <2>8, <2>9, <3>0, <3>2, <4>1, <4>2, <4>3, <4>5
        <5> QED BY <2>1, <4>2, <5>1
      <4> QED BY <4>4, <4>5
    <3> QED BY <3>1, <3>2
  <2> QED BY <2>6, <2>7
<1>6. \A t \in Readers : \/ seen'[t] \in {seen[t], Unread}
                         \/ /\ seen'[t] = row
                            /\ t = User => IsLive(row)
                            /\ Exists(row) \/ (t \in Jobs /\ work'[t] = "refused")
  <2>1. EnqueueFails(j) => work'[j] = "refused"
    BY <1>2 DEF EnqueueFails
  <2> QED BY <1>4, <2>1
<1>7. \A i \in Jobs : work[i] \in {"saving", "refused"} => work'[i] = work[i]
  BY <1>3
<1> QED BY <1>1, <1>3, <1>4, <1>5, <1>6, <1>7, WorkStep

-----------------------------------------------------------------------------
(* The row is written, no file moves.                                      *)
LEMMA RowWritten ==
  ASSUME StoreInv, NEW new, NEW read, NEW restores, Write(new, read, restores), IsRow(read),
         IsRow(new), new.status \in RowStates, new.file \in Versions \cup {NoFile},
         GoodIn(new.prev, shown)
  PROVE  /\ RowKnown' /\ (row = Purged => row' = Purged) /\ row'.job \in {row.job, new.job}
         /\ new.job = read.job => row'.job = row.job
         /\ new.job # read.job /\ row # Purged => row'.job = new.job
         /\ row = Purged => shown' = shown
         /\ shown \subseteq shown' /\ shown' \subseteq shown \cup {new.file}
         /\ shown' \in SUBSET Versions
         /\ new.file \in shown \cup {NoFile} => shown' = shown
<1> USE ShapeFacts, JobFacts
<1>1. IsRow(row)
  BY DEF StoreInv, RowKnown, KnownIn
<1>2. /\ IsRow(row') /\ row'.status \in {row.status, new.status}
      /\ row'.file \in {row.file, new.file} /\ row'.job \in {row.job, new.job}
      /\ row'.prev \in {row.prev, new.prev}
      /\ ~Exists(row) => row' = row
      /\ Exists(row) /\ new.job = read.job => row'.job = row.job
      /\ Exists(row) /\ new.job # read.job => row'.job = new.job
      /\ shown' = shown \cup ({row'.file} \cap Versions)
  BY <1>1, WriteIs
<1>3. shown \subseteq Versions
  BY DEF StoreInv, StoreTyped
<1>4. CASE row = Purged
  <2>1. row' = Purged
    BY <1>2, <1>4
  <2>2. shown' = shown
    BY <1>2, <2>1
  <2> QED BY <1>3, <1>4, <2>1, <2>2 DEF RowKnown
<1>5. CASE row # Purged
  <2>1. KnownIn(row, shown)
    BY <1>5 DEF StoreInv, RowKnown
  <2>2. Exists(row)
    BY <2>1 DEF KnownIn, Exists, RowStates, LiveStates
  <2>3. row.file \in shown \cup {NoFile} /\ row.status \in RowStates /\ GoodIn(row.prev, shown)
    BY <2>1 DEF KnownIn
  <2>4. /\ shown \subseteq shown' /\ shown' \subseteq shown \cup {new.file}
        /\ shown' \in SUBSET Versions
    BY <1>2, <1>3, <2>3
  <2>5. GoodIn(row'.prev, shown')
    BY <1>2, <2>3, <2>4, GoodGrows
  <2>6. row'.file \in shown' \cup {NoFile}
    BY <1>2, <1>3, <2>3
  <2>7. KnownIn(row', shown')
    BY <1>2, <2>3, <2>5, <2>6 DEF KnownIn
  <2>8. new.file \in shown \cup {NoFile} => shown' = shown
    BY <1>2, <2>3
  <2> QED BY <1>2, <1>5, <2>2, <2>4, <2>7, <2>8 DEF RowKnown
<1> QED BY <1>4, <1>5

LEMMA RowStep ==
  ASSUME StoreInv, UNCHANGED <<at, trash, txn, shown>>, RowKnown', row = Purged => row' = Purged,
         work' \in [Jobs -> WorkStates], seen' = [t \in Readers |-> seen'[t]],
         \A t \in Readers : seen'[t] \in {seen[t], Unread},
         \A j \in Jobs : /\ work[j] = "saving" => work'[j] = "saving"
                         /\ seen'[j] # Unread /\ work[j] = "refused" => work'[j] = "refused",
         api \subseteq api', JobsKnown'
  PROVE  StoreInv'
<1> USE DEF StoreInv
<1>1. StoreTyped'
  BY DEF StoreTyped
<1>3. SeenKnown'
  BY ShapeFacts DEF SeenKnown
<1>4. TrashKnown'
  BY DEF TrashKnown
<1>5. TxnKnown'
  BY Zenon DEF TxnKnown, PlainTxn, ReplaceTxn
<1>6. ShownKept'
  BY DEF ShownKept
<1> QED BY <1>1, <1>3, <1>4, <1>5, <1>6

LEMMA UserSteps ==
  ASSUME StoreInv,
         \/ \E s \in {"keep", "pending"} : SetImageStatus(s)
         \/ \E j \in Jobs, remote \in BOOLEAN : RegenerateImageLocked(j, remote)
         \/ CancelPending
  PROVE  StoreInv'
<1> USE JobFacts, ShapeFacts
<1>0. /\ work \in [Jobs -> WorkStates] /\ seen = [t \in Readers |-> seen[t]]
      /\ \A j \in Jobs : JobKnown(j)
  BY DEF StoreInv, StoreTyped, JobsKnown
<1>1. seen[User] # Unread => KnownIn(seen[User], shown) /\ IsLive(seen[User])
  BY DEF StoreInv, SeenKnown
<1>2. ASSUME NEW s \in {"keep", "pending"}, SetImageStatus(s) PROVE StoreInv'
  <2> DEFINE r == seen[User]
             new == ImageRow(s, r.file, r.job, r.prev, r.imported)
  <2>1. KnownIn(r, shown)
    BY <1>1, <1>2 DEF SetImageStatus
  <2>2. Write(new, r, FALSE)
    <3>1. [r EXCEPT !.status = s] = new
      BY <2>1, StatusIs DEF KnownIn
    <3> QED BY <1>2, <3>1 DEF SetImageStatus
  <2>3. /\ IsRow(new) /\ new.status = s /\ new.file = r.file /\ new.prev = r.prev /\ new.job = r.job
    BY RowOfIs
  <2> HIDE DEF new
  <2>4. /\ RowKnown' /\ (row = Purged => row' = Purged) /\ row'.job = row.job /\ shown' = shown
    <3>1. shown \subseteq Versions
      BY DEF StoreInv, StoreTyped
    <3> QED BY <2>1, <2>2, <2>3, <3>1, RowWritten DEF KnownIn, RowStates, LiveStates
  <2>5. UNCHANGED <<at, txn, trash, work, api>> /\ seen' = [seen EXCEPT ![User] = Unread]
    BY <1>2 DEF SetImageStatus
  <2>6. JobsKnown'
    BY <1>0, <2>4, <2>5 DEF JobsKnown, JobKnown
  <2> QED BY <1>0, <2>4, <2>5, <2>6, RowStep
<1>3. ASSUME NEW j \in Jobs, NEW remote \in BOOLEAN, RegenerateImageLocked(j, remote)
      PROVE  StoreInv'
  <2> DEFINE r == seen[User]
             J == IF remote THEN r.job ELSE j
             P == IF r.file # NoFile THEN StateOf(r) ELSE NoPrev
             new == ImageRow("pending", r.file, J, P, r.imported)
  <2>1. KnownIn(r, shown)
    BY <1>1, <1>3 DEF RegenerateImageLocked
  <2>2. Write(new, r, FALSE)
    <3>1. Write(Edited(r, "pending", J, P), r, FALSE)
      BY <1>3, Zenon DEF RegenerateImageLocked, Edited
    <3>2. Edited(r, "pending", J, P) = new
      <4> HIDE DEF J, P, r
      <4> QED BY <2>1, EditedIs DEF KnownIn
    <3> QED BY <3>1, <3>2
  <2>3. /\ IsRow(new) /\ new.status = "pending" /\ new.file = r.file /\ new.prev = P /\ new.job = J
    BY RowOfIs
  <2> HIDE DEF new
  <2>4. GoodIn(P, shown)
    <3>1. CASE r.file = NoFile
      BY <3>1, NoneIsGood
    <3>2. CASE r.file # NoFile
      <4>1. P.status = r.status /\ P.file = r.file /\ P.prev = r.prev
        BY <3>2 DEF StateOf
      <4>2. r.status \in LiveStates /\ r.file \in shown /\ GoodIn(r.prev, shown)
        BY <1>1, <1>3, <3>2 DEF RegenerateImageLocked, KnownIn, IsLive, LiveStates
      <4> HIDE DEF P
      <4> QED BY <4>1, <4>2, GoodFolds
    <3> QED BY <3>1, <3>2
  <2>5. /\ RowKnown' /\ (row = Purged => row' = Purged) /\ row'.job \in {row.job, J}
        /\ shown' = shown
    <3>1. shown \subseteq Versions
      BY DEF StoreInv, StoreTyped
    <3> HIDE DEF J, P
    <3> QED BY <2>1, <2>2, <2>3, <2>4, <3>1, RowWritten DEF KnownIn, RowStates, LiveStates
  <2>11. remote => row'.job = row.job
    <3>1. remote => J = r.job
      OBVIOUS
    <3> HIDE DEF J, P, r
    <3>2. shown \subseteq Versions
      BY DEF StoreInv, StoreTyped
    <3> QED BY <2>1, <2>2, <2>3, <2>4, <3>1, <3>2, RowWritten DEF KnownIn, RowStates, LiveStates
  <2>6. row'.job \in {row.job, j}
    BY <2>5, <2>11
  <2>7. /\ UNCHANGED <<at, txn, trash>> /\ seen' = [seen EXCEPT ![User] = Unread]
        /\ api' = IF remote THEN api \cup {j} ELSE api
        /\ work[j] = "none"
    BY <1>3 DEF RegenerateImageLocked
  <2>8. PICK w \in Cancelled(r.job) \cup {work} :
              work' = [w EXCEPT ![j] = IF remote THEN "running" ELSE "unqueued"]
    BY <1>3 DEF RegenerateImageLocked
  <2>9. w \in [Jobs -> WorkStates] /\ (\A i \in Jobs :
            w[i] = work[i] \/ (work[i] = "running" /\ w[i] \in {"forgotten", "failed"}))
    BY <1>0, <2>8 DEF Cancelled, WorkStates
  <2>10. /\ work' \in [Jobs -> WorkStates] /\ work'[j] \in {"running", "unqueued"}
         /\ \A i \in Jobs \ {j} : \/ work'[i] = work[i]
                                  \/ work[i] = "running" /\ work'[i] \in {"forgotten", "failed"}
    BY <2>8, <2>9 DEF WorkStates
  <2>12. JobsKnown'
    <3> SUFFICES ASSUME NEW i \in Jobs PROVE JobKnown(i)'
      BY DEF JobsKnown
    <3>1. JobKnown(i) /\ seen'[i] = seen[i] /\ txn' = txn
      BY <1>0, <2>7
    <3>2. CASE i = j
      BY <2>5, <2>7, <2>10, <2>11, <3>1, <3>2 DEF JobKnown
    <3>3. CASE i # j
      <4>1. row'.job = i => row.job = i
        BY <2>6, <3>3
      <4>2. i \in api' <=> i \in api
        BY <2>7, <3>3
      <4> QED BY <2>5, <2>10, <3>1, <3>3, <4>1, <4>2 DEF JobKnown
    <3> QED BY <3>2, <3>3
  <2>13. /\ seen' = [t \in Readers |-> seen'[t]]
         /\ \A t \in Readers : seen'[t] \in {seen[t], Unread}
    BY <1>0, <2>7
  <2>14. /\ api \subseteq api'
         /\ \A i \in Jobs : /\ work[i] = "saving" => work'[i] = "saving"
                            /\ work[i] = "refused" => work'[i] = "refused"
    BY <2>7, <2>10
  <2> HIDE DEF J, P, r
  <2> QED BY <2>5, <2>7, <2>10, <2>12, <2>13, <2>14, RowStep
<1>4. ASSUME CancelPending PROVE StoreInv'
  <2>1. UNCHANGED <<at, trash, txn, api, seen, shown>> /\ row' = Purged
    BY <1>4 DEF CancelPending
  <2>2. /\ work' \in [Jobs -> WorkStates]
        /\ \A i \in Jobs : \/ work'[i] = work[i]
                           \/ work[i] = "running" /\ work'[i] \in {"forgotten", "failed"}
    BY <1>0, <1>4 DEF CancelPending, Cancelled, WorkStates
  <2>3. JobsKnown'
    BY <1>0, <2>1, <2>2 DEF JobsKnown, JobKnown
  <2>4. RowKnown'
    BY <2>1 DEF RowKnown
  <2> QED BY <1>0, <2>1, <2>2, <2>3, <2>4, RowStep
<1> QED BY <1>2, <1>3, <1>4

LEMMA AfterFailureIs ==
  ASSUME NEW r, NEW V, r = Purged \/ KnownIn(r, V), NoFile \notin V
  PROVE  /\ IsRow(AfterFailure(r)) /\ AfterFailure(r).status \in RowStates
         /\ AfterFailure(r).status \in LiveStates
         /\ AfterFailure(r).file \in V \cup {NoFile} /\ GoodIn(AfterFailure(r).prev, V)
         /\ AfterFailure(r).job \in {NoJob, r.job}
<1> USE ShapeFacts
<1>0. IsRow(r) /\ r.file \in V \cup {NoFile} /\ GoodIn(r.prev, V)
  BY NoneIsGood DEF KnownIn
<1>1. CASE r.prev # NoPrev
  <2>1. AfterFailure(r) = ImageRow(r.prev.status, r.prev.file, NoJob, r.prev.prev, r.imported)
    <3>1. AfterFailure(r) = Restored(r, r.prev.status, r.prev.file, NoJob, r.prev.prev)
      BY <1>1, Zenon DEF AfterFailure, Restored
    <3> QED BY <1>0, <3>1, RestoredIs
  <2>2. /\ r.prev.status \in LiveStates /\ r.prev.file \in V /\ GoodIn(r.prev.prev, V)
    BY <1>0, <1>1, GoodUnfolds
  <2> QED BY <2>1, <2>2, RowOfIs DEF RowStates
<1>2. CASE r.prev = NoPrev
  <2>1. AfterFailure(r) = ImageRow("failed", r.file, r.job, r.prev, r.imported)
    BY <1>0, <1>2, StatusIs DEF AfterFailure
  <2> QED BY <1>0, <2>1, RowOfIs DEF RowStates, LiveStates
<1> QED BY <1>1, <1>2

LEMMA FailureSteps ==
  ASSUME StoreInv, NEW j \in Jobs, AnswerFails(j)
  PROVE  StoreInv'
<1> USE JobFacts, ShapeFacts
<1> DEFINE r == seen[j]
           new == AfterFailure(r)
<1>0. /\ work \in [Jobs -> WorkStates] /\ seen = [t \in Readers |-> seen[t]]
      /\ (\A i \in Jobs : JobKnown(i)) /\ shown \subseteq Versions
  BY DEF StoreInv, StoreTyped, JobsKnown
<1>1. r = Purged \/ KnownIn(r, shown)
  BY DEF StoreInv, SeenKnown, AnswerFails
<1>2. /\ IsRow(r) /\ IsRow(new) /\ new.status \in RowStates /\ new.file \in shown \cup {NoFile}
      /\ GoodIn(new.prev, shown) /\ new.job \in {NoJob, r.job}
  BY <1>0, <1>1, AfterFailureIs DEF KnownIn
<1>3. Write(new, r, FALSE)
  BY DEF AnswerFails
<1> HIDE DEF new
<1>4. /\ RowKnown' /\ (row = Purged => row' = Purged) /\ row'.job \in {row.job, NoJob}
      /\ shown' = shown
  <2>1. new.file \in Versions \cup {NoFile}
    BY <1>0, <1>2
  <2>2. /\ RowKnown' /\ (row = Purged => row' = Purged) /\ row'.job \in {row.job, new.job}
        /\ new.job = r.job => row'.job = row.job
        /\ shown' = shown
    BY <1>2, <1>3, <2>1, RowWritten
  <2> QED BY <1>2, <2>2
<1>5. /\ UNCHANGED <<at, trash, txn, api>> /\ seen' = [seen EXCEPT ![j] = Unread]
      /\ work' = [work EXCEPT ![j] = "over"] /\ work[j] \in {"failed", "refused"}
  BY DEF AnswerFails
<1>6. JobsKnown'
  BY <1>0, <1>4, <1>5 DEF JobsKnown, JobKnown
<1>7. /\ work' \in [Jobs -> WorkStates] /\ seen' = [t \in Readers |-> seen'[t]]
      /\ \A t \in Readers : seen'[t] \in {seen[t], Unread}
      /\ \A i \in Jobs : /\ work[i] = "saving" => work'[i] = "saving"
                         /\ seen'[i] # Unread /\ work[i] = "refused" => work'[i] = "refused"
  BY <1>0, <1>5 DEF WorkStates
<1> QED BY <1>4, <1>5, <1>6, <1>7, RowStep

-----------------------------------------------------------------------------
(* A transaction begins.                                                   *)
LEMMA BeginStep ==
  ASSUME StoreInv, UNCHANGED <<row, at, api, shown>>, txn = Idle,
         NEW op, NEW moves \in Seq(Moves), NEW new, NEW read, NEW entries, NEW uses, NEW made,
         Begin(op, moves, new, read, entries, uses, made),
         KnownIn(read, shown), IsRow(new), new.status \in RowStates, GoodIn(new.prev, shown),
         entries = [e \in Entries |-> entries[e]],
         \A e \in Entries : EntryKnown(entries[e], shown),
         \A e \in Entries : e \in uses => entries[e] # NoEntry,
         work' \in [Jobs -> WorkStates], seen' = [t \in Readers |-> seen'[t]],
         \A t \in Readers : seen'[t] \in {seen[t], Unread},
         \A i \in Jobs : seen'[i] # Unread /\ work[i] = "refused" => work'[i] = "refused",
         PlainTxn' \/ ReplaceTxn', JobsKnown'
  PROVE  StoreInv'
<1> USE DEF StoreInv
<1>1. StoreTyped'
  BY DEF StoreTyped
<1>2. RowKnown' /\ ShownKept'
  BY DEF RowKnown, ShownKept
<1>3. SeenKnown'
  BY ShapeFacts DEF SeenKnown
<1>4. TrashKnown'
  BY DEF TrashKnown, Begin
<1>5. txn' = TxnOf(op, "move", moves, 0, FALSE, FALSE, new, read, uses, made)
  BY DEF Begin, TxnOf
<1>6. TxnKnown'
  <2>1. 0 \in 0..Len(moves)
    BY DEF Moves
  <2>2. /\ IsTxn(txn') /\ txn'.step = "move" /\ txn'.moves = moves /\ txn'.n = 0
        /\ txn'.new = new /\ txn'.read = read /\ txn'.uses = uses
    BY <1>5 DEF TxnOf, IsTxn
  <2>3. /\ PlainTxn' \/ ReplaceTxn'
        /\ \A e \in Entries : e \in uses => trash'[e] # NoEntry
    BY DEF Begin
  <2> QED BY <2>1, <2>2, <2>3, Zenon DEF TxnKnown
<1> QED BY <1>1, <1>2, <1>3, <1>4, <1>6

PlainMoves == {m \in Moves : m.from # Nowhere}

LEMMA PlainBegins ==
  ASSUME StoreInv, UNCHANGED <<row, at, api, seen, shown>>, txn = Idle,
         NEW op \in {"delete", "restore", "swap"}, NEW moves \in Seq(PlainMoves),
         NEW new, NEW read, NEW entries, NEW uses, NEW made,
         Begin(op, moves, new, read, entries, uses, made),
         KnownIn(read, shown), IsRow(new), new.status \in RowStates, GoodIn(new.prev, shown),
         new.file \in shown \cup {NoFile}, new.job \in {NoJob, read.job},
         entries = [e \in Entries |-> entries[e]],
         \A e \in Entries : EntryKnown(entries[e], shown),
         \A e \in Entries : e \in uses => entries[e] # NoEntry,
         work' \in [Jobs -> WorkStates],
         \A i \in Jobs : \/ work'[i] = work[i]
                         \/ work[i] = "running" /\ work'[i] \in {"forgotten", "failed"}
  PROVE  StoreInv'
<1>1. moves \in Seq(Moves) /\ \A i \in 1..Len(moves) : moves[i].from # Nowhere
  <2>1. PlainMoves \subseteq Moves /\ \A m \in PlainMoves : m.from # Nowhere
    BY DEF PlainMoves
  <2> QED BY <2>1
<1>2. txn' = TxnOf(op, "move", moves, 0, FALSE, FALSE, new, read, uses, made)
  BY DEF Begin, TxnOf
<1>3. PlainTxn'
  <2>1. txn'.op = op /\ txn'.moves = moves /\ txn'.new = new /\ txn'.read = read
    BY <1>2 DEF TxnOf
  <2> QED BY <1>1, <2>1 DEF PlainTxn
<1>4. JobsKnown'
  BY DEF StoreInv, JobsKnown, JobKnown
<1>5. seen' = [t \in Readers |-> seen'[t]]
  BY DEF StoreInv, StoreTyped
<1> QED BY <1>1, <1>3, <1>4, <1>5, BeginStep

LEMMA DeleteSteps ==
  ASSUME StoreInv, DeleteImage
  PROVE  StoreInv'
<1> USE JobFacts, ShapeFacts
<1> DEFINE e == NewEntry
           has == {f \in {row.file} \cap Versions : at[f] = Disk}
           kept == {f \in {Original} : row.imported /\ at[f] = Disk}
           move(f) == [file |-> f, from |-> Disk, to |-> e]
           moves == (IF has = {} THEN << >> ELSE <<move(row.file)>>)
                      \o (IF kept = {} THEN << >> ELSE <<move(Original)>>)
           entry == EntryOf("image", has \cup kept, row.status, TRUE)
           entries == [trash EXCEPT ![e] = entry]
           new == ImageRow("trashed", row.file, row.job, row.prev, row.imported)
<1>1. e \in Entries
  BY FreeEntry DEF DeleteImage, Free
<1>2. KnownIn(row, shown) /\ row.status \in LiveStates
  BY DEF DeleteImage, IsLive, LiveStates, StoreInv, RowKnown
<1>3. Begin("delete", moves, new, row, entries, {}, {e})
  <2>1. Begin("delete", moves, [row EXCEPT !.status = "trashed"], row, entries, {}, {e})
    BY Zenon DEF DeleteImage, EntryOf
  <2>2. [row EXCEPT !.status = "trashed"] = new
    BY <1>2, StatusIs DEF KnownIn
  <2> QED BY <2>1, <2>2, Zenon
<1>4. moves \in Seq(PlainMoves)
  <2>1. \A f \in Files : move(f) \in PlainMoves
    BY <1>1 DEF PlainMoves, Moves
  <2>2. (IF has = {} THEN << >> ELSE <<move(row.file)>>) \in Seq(PlainMoves)
    <3>1. has # {} => row.file \in Files
      OBVIOUS
    <3> HIDE DEF move, has
    <3> QED BY <2>1, <3>1
  <2>3. (IF kept = {} THEN << >> ELSE <<move(Original)>>) \in Seq(PlainMoves)
    <3> HIDE DEF move, kept
    <3> QED BY <2>1
  <2> HIDE DEF move, has, kept
  <2> QED BY <2>2, <2>3
<1>5. EntryKnown(entry, shown)
  <2>1. \E v \in Versions : has \cup kept \subseteq {v, Original}
    <3>1. CASE row.file \in Versions
      BY <3>1
    <3>2. CASE row.file \notin Versions
      <4>1. has = {} /\ 1 \in Versions
        BY <3>2 DEF Versions
      <4> QED BY <4>1
    <3> QED BY <3>1, <3>2
  <2> HIDE DEF has, kept
  <2>2. IsEntry(entry) /\ entry.kind = "image" /\ entry.files = has \cup kept
        /\ entry.state = row.status
    BY DEF EntryOf, IsEntry
  <2> HIDE DEF entry
  <2> QED BY <1>2, <2>1, <2>2 DEF EntryKnown
<1>6. /\ entries = [d \in Entries |-> entries[d]]
      /\ \A d \in Entries : EntryKnown(entries[d], shown)
  <2> HIDE DEF entry, e
  <2> QED BY <1>1, <1>5 DEF StoreInv, TrashKnown
<1>7. /\ UNCHANGED <<row, at, api, seen, shown>> /\ txn = Idle
      /\ work' \in IF InFlight(row) THEN Cancelled(row.job) ELSE {work}
  BY DEF DeleteImage
<1>8. /\ work' \in [Jobs -> WorkStates]
      /\ \A i \in Jobs : \/ work'[i] = work[i]
                         \/ work[i] = "running" /\ work'[i] \in {"forgotten", "failed"}
  BY <1>7 DEF StoreInv, StoreTyped, Cancelled, WorkStates
<1>9. /\ IsRow(new) /\ new.status = "trashed" /\ new.file = row.file /\ new.job = row.job
      /\ new.prev = row.prev
  BY RowOfIs
<1>10. \A d \in Entries : d \in {} => entries[d] # NoEntry
  OBVIOUS
<1> HIDE DEF moves, entries, new, e
<1> QED
  BY <1>2, <1>3, <1>4, <1>6, <1>7, <1>8, <1>9, <1>10, PlainBegins DEF KnownIn, RowStates

LEMMA RestoreSteps ==
  ASSUME StoreInv, NEW e \in Entries, RestoreImage(e)
  PROVE  StoreInv'
<1> USE JobFacts, ShapeFacts
<1> DEFINE t == trash[e]
           moves == InOrder(Back(e))
           new == ImageRow(t.state, row.file, row.job, row.prev, row.imported)
           m(f) == [file |-> f, from |-> e, to |-> Disk]
<1>1. /\ UNCHANGED <<row, at, api, seen, shown, work>> /\ txn = Idle /\ t.kind = "image"
      /\ row.status = "trashed"
  BY DEF RestoreImage
<1>2. KnownIn(row, shown)
  BY <1>1 DEF StoreInv, RowKnown
<1>3. /\ t.state \in LiveStates /\ (\E v \in Versions : t.files \subseteq {v, Original})
      /\ EntryKnown(t, shown) /\ t # NoEntry
  BY <1>1 DEF StoreInv, TrashKnown, EntryKnown
<1>4. Begin("restore", moves, new, row, trash, {e}, {})
  <2>1. Begin("restore", moves, [row EXCEPT !.status = t.state], row, trash, {e}, {})
    BY DEF RestoreImage
  <2>2. [row EXCEPT !.status = t.state] = new
    BY <1>2, StatusIs DEF KnownIn
  <2> QED BY <2>1, <2>2, Zenon
<1>5. moves \in Seq(PlainMoves)
  <2>1. PICK v \in Versions : t.files \subseteq {v, Original}
    BY <1>3
  <2>2. m(v) \in PlainMoves /\ m(Original) \in PlainMoves
    BY DEF PlainMoves, Moves
  <2>3. Back(e) \in {{}, {m(v)}, {m(Original)}, {m(v), m(Original)}}
    <3>1. t.files \in {{}, {v}, {Original}, {v, Original}}
      BY <2>1
    <3> QED BY <3>1 DEF Back
  <2>4. m(v).file = v /\ m(Original).file = Original
    OBVIOUS
  <2> HIDE DEF m
  <2>5. moves \in Seq(Back(e))
    <3> DEFINE B == Back(e)
               a == m(v)
               b == m(Original)
    <3>0. a.file > b.file /\ a.file \in Int /\ b.file \in Int
      BY <2>4 DEF Original
    <3> HIDE DEF B
    <3>1. B \in {{}, {a}, {b}, {a, b}}
      BY <2>3 DEF B
    <3> HIDE DEF a, b
    <3>2. InOrder(B) \in Seq(B)
      BY <3>0, <3>1, OrderedMoves
    <3> QED BY <3>2 DEF B
  <2>6. Back(e) \subseteq PlainMoves
    BY <2>2, <2>3
  <2> HIDE DEF moves
  <2> QED BY <2>5, <2>6
<1>6. /\ work \in [Jobs -> WorkStates] /\ trash = [d \in Entries |-> trash[d]]
      /\ \A d \in Entries : EntryKnown(trash[d], shown)
  BY DEF StoreInv, StoreTyped, TrashKnown
<1>7. /\ IsRow(new) /\ new.status = t.state /\ new.file = row.file /\ new.job = row.job
      /\ new.prev = row.prev
  BY RowOfIs
<1>8. \A d \in Entries : d \in {e} => trash[d] # NoEntry
  BY <1>3
<1> HIDE DEF moves, new, t
<1> QED BY <1>1, <1>2, <1>3, <1>4, <1>5, <1>6, <1>7, <1>8, PlainBegins DEF KnownIn, RowStates

LEMMA VersionSteps ==
  ASSUME StoreInv, NEW e \in Entries, RestoreVersion(e)
  PROVE  StoreInv'
<1> USE JobFacts, ShapeFacts
<1> DEFINE current == {f \in {row.file} \cap Versions : at[f] = Disk}
           d == NewEntry
           old == trash[e].state
           back == [file |-> old.file, from |-> e, to |-> Disk]
           away == [file |-> row.file, from |-> Disk, to |-> d]
           new == ImageRow(old.status, old.file, NoJob, old.prev, row.imported)
           entry == EntryOf("version", current, StateOf(row), TRUE)
<1>1. /\ UNCHANGED <<row, at, api, seen, shown, work>> /\ txn = Idle /\ trash[e].kind = "version"
      /\ Exists(row)
  BY DEF RestoreVersion
<1>2. KnownIn(row, shown)
  BY <1>1 DEF StoreInv, RowKnown
<1>3. /\ old.status \in RowStates /\ old.file \in shown /\ GoodIn(old.prev, shown)
      /\ shown \subseteq Versions
  BY <1>1 DEF StoreInv, StoreTyped, TrashKnown, EntryKnown
<1>4. /\ IsRow(new) /\ new.status = old.status /\ new.file = old.file /\ new.job = NoJob
      /\ new.prev = old.prev
  BY RowOfIs
<1>5. [row EXCEPT !.status = old.status, !.file = old.file, !.prev = old.prev, !.job = NoJob] = new
  <2>1. Restored(row, old.status, old.file, NoJob, old.prev) = new
    BY <1>2, RestoredIs DEF KnownIn
  <2> QED BY <2>1, Zenon DEF Restored
<1>6. back \in PlainMoves
  BY <1>3 DEF PlainMoves, Moves
<1>7. /\ work \in [Jobs -> WorkStates] /\ trash = [i \in Entries |-> trash[i]]
      /\ \A i \in Entries : EntryKnown(trash[i], shown)
  BY DEF StoreInv, StoreTyped, TrashKnown
<1>10. trash[e] # NoEntry
  BY <1>1
<1>8. CASE current = {}
  <2>1. Begin("swap", <<back>>, new, row, trash, {e}, {})
    BY <1>5, <1>8, Zenon DEF RestoreVersion
  <2>2. <<back>> \in Seq(PlainMoves)
    <3> HIDE DEF back
    <3> QED BY <1>6
  <2>3. \A i \in Entries : i \in {e} => trash[i] # NoEntry
    BY <1>10
  <2>4. /\ new.status \in RowStates /\ GoodIn(new.prev, shown) /\ new.file \in shown \cup {NoFile}
        /\ new.job \in {NoJob, row.job}
    BY <1>3, <1>4
  <2> DEFINE moves == <<back>>
             uses == {e}
  <2>5. /\ Begin("swap", moves, new, row, trash, uses, {}) /\ moves \in Seq(PlainMoves)
        /\ \A i \in Entries : i \in uses => trash[i] # NoEntry
    BY <2>1, <2>2, <2>3, Zenon
  <2> HIDE DEF moves, uses, new, old
  <2> QED BY <1>1, <1>2, <1>4, <1>7, <2>4, <2>5, PlainBegins
<1>9. CASE current # {}
  <2> DEFINE entries == [trash EXCEPT ![d] = entry]
             moves == <<away, back>>
  <2>1. Free # {} /\ Begin("swap", moves, new, row, entries, {e}, {d})
    BY <1>5, <1>9, Zenon DEF RestoreVersion, EntryOf
  <2>2. d \in Entries
    BY <2>1, FreeEntry DEF Free
  <2>3. row.file \in Versions /\ row.file \in shown
    BY <1>2, <1>9 DEF KnownIn
  <2>4. moves \in Seq(PlainMoves)
    <3>1. away \in PlainMoves
      BY <2>2, <2>3 DEF PlainMoves, Moves
    <3> HIDE DEF away, back
    <3> QED BY <1>6, <3>1
  <2>5. EntryKnown(entry, shown)
    <3>1. IsEntry(entry) /\ entry.kind = "version" /\ entry.state = StateOf(row)
      BY DEF EntryOf, IsEntry
    <3>2. /\ StateOf(row).status = row.status
          /\ StateOf(row).file = row.file /\ StateOf(row).prev = row.prev
      BY DEF StateOf
    <3> HIDE DEF entry
    <3> QED BY <1>2, <2>3, <3>1, <3>2 DEF EntryKnown, KnownIn
  <2>6. /\ entries = [i \in Entries |-> entries[i]]
        /\ \A i \in Entries : EntryKnown(entries[i], shown)
    <3> HIDE DEF entry, d
    <3> QED BY <1>7, <2>2, <2>5
  <2>7. \A i \in Entries : i \in {e} => entries[i] # NoEntry
    <3>1. entry # NoEntry
      <4>1. "files" \in DOMAIN entry
        BY DEF EntryOf
      <4>2. "files" \notin DOMAIN NoEntry
        BY DEF NoEntry
      <4> QED BY <4>1, <4>2
    <3> HIDE DEF entry, d
    <3> QED BY <1>7, <1>10, <2>2, <3>1
  <2>8. /\ new.status \in RowStates /\ GoodIn(new.prev, shown) /\ new.file \in shown \cup {NoFile}
        /\ new.job \in {NoJob, row.job}
    BY <1>3, <1>4
  <2> HIDE DEF moves, entries, new, old, d
  <2> QED BY <1>1, <1>2, <1>4, <1>7, <2>1, <2>4, <2>6, <2>7, <2>8, PlainBegins
<1> QED BY <1>8, <1>9

LEMMA ReplaceBegins ==
  ASSUME StoreInv, NEW j \in Jobs, CommitGeneratedReplacement(j)
  PROVE  StoreInv'
<1> USE JobFacts, ShapeFacts
<1> DEFINE r == seen[j]
           f == ResultOf(j)
           e == NewEntry
           old == {v \in {r.prev.file : p \in {r.prev} \ {NoPrev}} \cap Versions : at[v] = Disk}
           new == ImageRow("pending", f, NoJob, NoPrev, r.imported)
           written == [file |-> f, from |-> at[f], to |-> Disk]
           put == [file |-> r.prev.file, from |-> Disk, to |-> e]
           entry == EntryOf("version", old, r.prev, TRUE)
<1>1. /\ UNCHANGED <<row, at, api, shown>> /\ txn = Idle
      /\ work[j] = "done" /\ r # Unread
      /\ work' = [work EXCEPT ![j] = "saving"] /\ seen' = [seen EXCEPT ![j] = Unread]
  BY DEF CommitGeneratedReplacement
<1>2. KnownIn(r, shown)
  BY <1>1 DEF StoreInv, SeenKnown
<1>3. /\ IsRow(new) /\ new.status = "pending" /\ new.file = f /\ new.job = NoJob
      /\ new.prev = NoPrev
  BY RowOfIs
<1>4. [r EXCEPT !.status = "pending", !.file = f, !.prev = NoPrev, !.job = NoJob] = new
  <2>1. Restored(r, "pending", f, NoJob, NoPrev) = new
    BY <1>2, RestoredIs DEF KnownIn
  <2> QED BY <2>1, Zenon DEF Restored
<1>5. JobKnown(j) /\ \A i \in Jobs : JobKnown(i) /\ work[i] # "saving"
  BY <1>1 DEF StoreInv, JobsKnown, JobKnown
<1>6. f \notin shown /\ (j \in api \/ r.job = j)
  BY <1>1, <1>5 DEF JobKnown
<1>7. /\ work \in [Jobs -> WorkStates] /\ seen = [t \in Readers |-> seen[t]]
      /\ at \in [Files -> Places] /\ trash = [i \in Entries |-> trash[i]]
      /\ \A i \in Entries : EntryKnown(trash[i], shown)
  BY DEF StoreInv, StoreTyped, TrashKnown
<1>8. /\ work' \in [Jobs -> WorkStates] /\ seen' = [t \in Readers |-> seen'[t]]
      /\ \A t \in Readers : seen'[t] \in {seen[t], Unread}
      /\ \A i \in Jobs : seen'[i] # Unread /\ work[i] = "refused" => work'[i] = "refused"
  BY <1>1, <1>7 DEF WorkStates
<1>9. written \in Moves
  BY <1>7 DEF Moves
<1>10. ASSUME NEW moves \in Seq(Moves), NEW entries, NEW made,
              Begin("replace", moves, new, r, entries, {}, made),
              Len(moves) >= 1, moves[1] = written,
              \A i \in 2..Len(moves) : moves[i].from # Nowhere,
              entries = [i \in Entries |-> entries[i]],
              \A i \in Entries : EntryKnown(entries[i], shown)
       PROVE  StoreInv'
  <2>1. /\ txn'.op = "replace" /\ txn'.step = "move" /\ txn'.moves = moves /\ txn'.n = 0
        /\ txn'.new = new /\ txn'.read = r
    BY <1>10 DEF Begin
  <2>2. moves[1].file = f /\ moves[1].to = Disk
    BY <1>10
  <2>3. work'[j] = "saving" /\ f \notin shown' /\ (j \in api' \/ r.job = j)
    BY <1>1, <1>6, <1>7
  <2>4. ReplaceTxn'
    <3> HIDE DEF r, new
    <3> QED BY <1>3, <1>10, <2>1, <2>2, <2>3 DEF ReplaceTxn
  <2>5. txn' # Idle
    BY <2>1 DEF Idle
  <2>6. JobsKnown'
    <3> SUFFICES ASSUME NEW i \in Jobs PROVE JobKnown(i)'
      BY DEF JobsKnown
    <3>1. CASE i = j
      <4>1. work'[i] = "saving" /\ seen'[i] = Unread
        BY <1>1, <1>7, <3>1
      <4> HIDE DEF r, new
      <4> QED BY <1>1, <1>3, <1>5, <1>6, <2>1, <2>5, <3>1, <4>1 DEF JobKnown
    <3>2. CASE i # j
      <4>1. work'[i] = work[i] /\ seen'[i] = seen[i]
        BY <1>1, <1>7, <3>2
      <4> QED BY <1>1, <1>5, <3>2, <4>1 DEF JobKnown
    <3> QED BY <3>1, <3>2
  <2>7. KnownIn(r, shown) /\ IsRow(new) /\ new.status \in RowStates /\ GoodIn(new.prev, shown)
    BY <1>2, <1>3, NoneIsGood DEF RowStates, LiveStates
  <2> DEFINE uses == {}
  <2>8. /\ Begin("replace", moves, new, r, entries, uses, made)
        /\ \A i \in Entries : i \in uses => entries[i] # NoEntry
    BY <1>10
  <2>9. /\ entries = [i \in Entries |-> entries[i]]
        /\ \A i \in Entries : EntryKnown(entries[i], shown)
    BY <1>10
  <2>10. UNCHANGED <<row, at, api, shown>> /\ txn = Idle
    BY <1>1
  <2> HIDE DEF r, new, uses
  <2>11. PlainTxn' \/ ReplaceTxn'
    BY <2>4
  <2> QED BY <1>8, <2>6, <2>7, <2>8, <2>9, <2>10, <2>11, BeginStep
<1>11. CASE old = {}
  <2>1. Begin("replace", <<written>>, new, r, trash, {}, {})
    BY <1>4, <1>11, Zenon DEF CommitGeneratedReplacement
  <2> DEFINE moves == <<written>>
  <2>2. moves \in Seq(Moves) /\ Len(moves) >= 1 /\ moves[1] = written
        /\ \A i \in 2..Len(moves) : moves[i].from # Nowhere
    <3> HIDE DEF written
    <3> QED BY <1>9
  <2>3. Begin("replace", moves, new, r, trash, {}, {})
    BY <2>1
  <2> HIDE DEF moves, new, r, written
  <2> QED BY <1>7, <1>10, <2>2, <2>3
<1>12. CASE old # {}
  <2> DEFINE entries == [trash EXCEPT ![e] = entry]
             moves == <<written, put>>
  <2>1. Free # {} /\ Begin("replace", moves, new, r, entries, {}, {e})
    BY <1>4, <1>12, Zenon DEF CommitGeneratedReplacement, EntryOf
  <2>2. e \in Entries
    BY <2>1, FreeEntry DEF Free
  <2>3. r.prev # NoPrev
    BY <1>12
  <2>4. /\ r.prev.status \in LiveStates /\ r.prev.file \in shown /\ GoodIn(r.prev.prev, shown)
    BY <1>2, <2>3, GoodUnfolds DEF KnownIn
  <2>5. shown \subseteq Versions
    BY DEF StoreInv, StoreTyped
  <2>6. put \in Moves /\ put.from # Nowhere
    BY <2>2, <2>4, <2>5 DEF Moves
  <2>7. moves \in Seq(Moves) /\ Len(moves) >= 1 /\ moves[1] = written
        /\ \A i \in 2..Len(moves) : moves[i].from # Nowhere
    <3> HIDE DEF written, put
    <3> QED BY <1>9, <2>6
  <2>8. EntryKnown(entry, shown)
    <3>1. IsEntry(entry) /\ entry.kind = "version" /\ entry.state = r.prev
      BY DEF EntryOf, IsEntry
    <3> HIDE DEF entry, r
    <3> QED BY <2>4, <3>1 DEF EntryKnown, RowStates
  <2>9. /\ entries = [i \in Entries |-> entries[i]]
        /\ \A i \in Entries : EntryKnown(entries[i], shown)
    <3> HIDE DEF entry, e
    <3> QED BY <1>7, <2>2, <2>8
  <2> HIDE DEF moves, entries, new, r, e, written
  <2> QED BY <1>10, <2>1, <2>7, <2>9
<1> QED BY <1>11, <1>12

-----------------------------------------------------------------------------
(* Files move, and move back.                                              *)
LEMMA FileStep ==
  ASSUME StoreInv, UNCHANGED <<row, trash, work, api, seen, shown>>, txn # Idle,
         at' \in [Files -> Places],
         \A f \in Files : at'[f] = Nowhere /\ at[f] # Nowhere =>
            txn.op = "replace" /\ f = txn.new.file /\ txn.step \in {"move", "undo"},
         NEW step \in {"move", "undo", "finish"}, NEW n \in 0..Len(txn.moves),
         NEW kept, NEW onward,
         txn' = TxnOf(txn.op, step, txn.moves, n, kept, onward, txn.new, txn.read, txn.uses,
                      txn.made),
         step \in {"move", "undo"} => txn.step \in {"move", "undo"},
         txn.op = "replace" /\ step = "move" /\ n >= 1 => at'[txn.new.file] # Nowhere
  PROVE  StoreInv'
<1> USE JobFacts, ShapeFacts
<1>1. /\ IsTxn(txn') /\ txn' # Idle /\ txn'.op = txn.op /\ txn'.step = step
      /\ txn'.moves = txn.moves /\ txn'.n = n /\ txn'.new = txn.new /\ txn'.read = txn.read
      /\ txn'.uses = txn.uses
  BY TxnFields
<1>2. StoreTyped' /\ RowKnown' /\ SeenKnown' /\ TrashKnown'
  BY DEF StoreInv, StoreTyped, RowKnown, SeenKnown, TrashKnown
<1>3. JobsKnown'
  BY <1>1 DEF StoreInv, JobsKnown, JobKnown
<1>4. TxnKnown'
  <2>1. /\ KnownIn(txn.read, shown) /\ txn.moves \in Seq(Moves)
        /\ IsRow(txn.new) /\ txn.new.status \in RowStates /\ GoodIn(txn.new.prev, shown)
        /\ \A e \in Entries : e \in txn.uses => trash[e] # NoEntry
    BY DEF StoreInv, TxnKnown
  <2>2. CASE PlainTxn
    <3>1. PlainTxn'
      BY <1>1, <2>2 DEF PlainTxn
    <3> QED BY <1>1, <2>1, <3>1 DEF TxnKnown
  <2>3. CASE ReplaceTxn
    <3>1. ReplaceTxn'
      BY <1>1, <2>3 DEF ReplaceTxn
    <3> QED BY <1>1, <2>1, <3>1 DEF TxnKnown
  <2> QED BY <2>2, <2>3 DEF StoreInv, TxnKnown
<1>5. ShownKept'
  <2>1. txn.op = "replace" /\ txn.step \in {"move", "undo"} => txn.new.file \notin shown
    BY DEF StoreInv, TxnKnown, PlainTxn, ReplaceTxn
  <2> QED BY <2>1 DEF StoreInv, StoreTyped, ShownKept
<1> QED BY <1>2, <1>3, <1>4, <1>5 DEF StoreInv

(* The transaction in progress, and the move at hand.                      *)
LEMMA InTxn ==
  ASSUME StoreInv, txn # Idle
  PROVE  /\ IsTxn(txn) /\ txn.moves \in Seq(Moves) /\ txn.n \in 0..Len(txn.moves)
         /\ Len(txn.moves) \in Nat /\ txn.step \in {"move", "undo", "finish"}
         /\ \A i \in 1..Len(txn.moves) :
              /\ txn.moves[i] \in Moves
              /\ txn.moves[i].file \in Files /\ txn.moves[i].from \in Places
              /\ txn.moves[i].to \in Places /\ txn.moves[i].to # Nowhere
              /\ txn.moves[i].from = Nowhere => txn.op = "replace" /\ i = 1
         /\ txn.op = "replace" =>
              /\ txn.moves[1].file = txn.new.file /\ txn.moves[1].to = Disk
              /\ txn.step = "move" /\ txn.n >= 1 => at[txn.new.file] # Nowhere
         /\ at \in [Files -> Places]
<1> USE JobFacts
<1>1. /\ IsTxn(txn) /\ txn.moves \in Seq(Moves) /\ txn.n \in 0..Len(txn.moves)
      /\ txn.step \in {"move", "undo", "finish"} /\ at \in [Files -> Places]
  BY DEF StoreInv, TxnKnown, StoreTyped
<1>2. ASSUME NEW i \in 1..Len(txn.moves)
      PROVE  /\ txn.moves[i] \in Moves
             /\ txn.moves[i].file \in Files /\ txn.moves[i].from \in Places
             /\ txn.moves[i].to \in Places /\ txn.moves[i].to # Nowhere
  <2>1. txn.moves[i] \in Moves
    BY <1>1
  <2> QED BY <2>1 DEF Moves
<1>3. PlainTxn \/ ReplaceTxn
  BY DEF StoreInv, TxnKnown
<1>4. Len(txn.moves) \in Nat
  BY <1>1
<1>5. ASSUME NEW i \in 1..Len(txn.moves), txn.moves[i].from = Nowhere
      PROVE  txn.op = "replace" /\ i = 1
  <2>1. ReplaceTxn
    BY <1>3, <1>5 DEF PlainTxn
  <2>2. i \in 2..Len(txn.moves) => FALSE
    BY <2>1, <1>5 DEF ReplaceTxn
  <2> QED BY <1>4, <2>1, <2>2 DEF ReplaceTxn
<1>6. txn.op = "replace" =>
        /\ txn.moves[1].file = txn.new.file /\ txn.moves[1].to = Disk
        /\ txn.step = "move" /\ txn.n >= 1 => at[txn.new.file] # Nowhere
  BY <1>3 DEF PlainTxn, ReplaceTxn
<1> QED BY <1>1, <1>2, <1>4, <1>5, <1>6

LEMMA MoveSteps ==
  ASSUME StoreInv, MoveFile
  PROVE  StoreInv'
<1> USE JobFacts
<1> DEFINE m == NextMove
           n == txn.n + 1
<1>1. /\ UNCHANGED <<row, trash, work, api, seen, shown>> /\ txn # Idle /\ txn.step = "move"
      /\ at' = [at EXCEPT ![m.file] = m.to] /\ txn.n < Len(txn.moves)
  BY DEF MoveFile, Moving, Apply
<1>2. n \in 1..Len(txn.moves) /\ m = txn.moves[n]
  BY <1>1, InTxn DEF NextMove
<1>3. /\ at' \in [Files -> Places] /\ \A f \in Files : at'[f] = Nowhere => at[f] = Nowhere
  BY <1>1, <1>2, InTxn
<1>4. txn' = TxnOf(txn.op, txn.step, txn.moves, n, txn.kept, txn.onward, txn.new, txn.read,
                   txn.uses, txn.made)
  <2>1. txn' = Advanced(txn, n)
    BY Zenon DEF MoveFile, Advanced
  <2> QED BY <1>1, <2>1, InTxn, AdvancedIs
<1>5. txn.op = "replace" => at'[txn.new.file] # Nowhere
  <2> SUFFICES ASSUME txn.op = "replace" PROVE at'[txn.new.file] # Nowhere
    OBVIOUS
  <2>1. txn.new.file = txn.moves[1].file /\ txn.moves[1].to = Disk /\ 1 \in 1..Len(txn.moves)
    BY <1>1, <1>2, InTxn
  <2>2. txn.new.file \in Files
    BY <1>1, <2>1, InTxn
  <2>3. CASE txn.n = 0
    <3>1. m = txn.moves[1]
      BY <1>2, <2>3
    <3> QED BY <1>1, <2>1, <2>2, <3>1, InTxn
  <2>4. CASE txn.n # 0
    <3>1. txn.n >= 1
      BY <1>1, <2>4, InTxn
    <3>2. at[txn.new.file] # Nowhere
      BY <1>1, <3>1, InTxn
    <3> QED BY <1>3, <2>2, <3>2
  <2> QED BY <2>3, <2>4
<1>6. n \in 0..Len(txn.moves)
  BY <1>1, <1>2, InTxn
<1> HIDE DEF n, m
<1> QED BY <1>1, <1>3, <1>4, <1>5, <1>6, FileStep

(* A transaction ends, or its thread dies.                                 *)
LEMMA EndStep ==
  ASSUME StoreInv, UNCHANGED <<at, api, shown>>, txn' = Idle, RowKnown',
         row = Purged => row' = Purged, row'.job = row.job,
         work' \in [Jobs -> WorkStates], seen' = [t \in Readers |-> seen'[t]],
         \A t \in Readers : seen'[t] \in {seen[t], Unread},
         \A i \in Jobs : seen'[i] # Unread /\ work[i] = "refused" => work'[i] = "refused",
         TrashKnown', JobsKnown'
  PROVE  StoreInv'
<1>1. StoreTyped' /\ ShownKept'
  BY DEF StoreInv, StoreTyped, ShownKept
<1>2. SeenKnown'
  BY ShapeFacts DEF StoreInv, SeenKnown
<1>3. TxnKnown'
  BY DEF TxnKnown
<1> QED BY <1>1, <1>2, <1>3 DEF StoreInv

LEMMA GiveUpSteps ==
  ASSUME StoreInv, MoveMissing \/ MoveFails
  PROVE  StoreInv'
<1> USE JobFacts
<1>1. /\ UNCHANGED <<row, at, trash, work, api, seen, shown>> /\ txn # Idle
      /\ txn.step = "move" /\ GiveUp
  BY DEF MoveMissing, MoveFails, Moving
<1>2. CASE txn.op = "swap" /\ txn.n = 1
  <2>1. txn' = Idle
    BY <1>1, <1>2 DEF GiveUp
  <2>2. JobsKnown'
    BY <1>1, <1>2, <2>1 DEF StoreInv, JobsKnown, JobKnown
  <2>3. RowKnown' /\ TrashKnown' /\ work' \in [Jobs -> WorkStates]
        /\ seen' = [t \in Readers |-> seen'[t]]
    BY <1>1 DEF StoreInv, StoreTyped, RowKnown, TrashKnown
  <2> QED BY <1>1, <2>1, <2>2, <2>3, EndStep
<1>3. CASE ~(txn.op = "swap" /\ txn.n = 1)
  <2> DEFINE o == TRUE
  <2>1. txn' = GivenUp(txn, "undo", o)
    BY <1>1, <1>3, Zenon DEF GiveUp, GivenUp
  <2> HIDE DEF o
  <2>2. txn' = TxnOf(txn.op, "undo", txn.moves, txn.n, txn.kept, o, txn.new, txn.read,
                     txn.uses, txn.made)
    BY <1>1, <2>1, InTxn, GivenUpIs
  <2> QED BY <1>1, <2>2, InTxn, FileStep
<1> QED BY <1>2, <1>3

LEMMA CommitFailsSteps ==
  ASSUME StoreInv, CommitFails
  PROVE  StoreInv'
<1> USE JobFacts
<1>1. /\ UNCHANGED <<row, at, trash, work, api, seen, shown>> /\ txn # Idle
      /\ txn.step = "move"
  BY DEF CommitFails, Moving
<1>2. txn' = TxnOf(txn.op, "undo", txn.moves, txn.n, txn.kept, txn.onward, txn.new, txn.read,
                   txn.uses, txn.made)
  <2>1. txn' = Stepped(txn, "undo")
    BY Zenon DEF CommitFails, Stepped
  <2> QED BY <1>1, <2>1, InTxn, SteppedIs
<1> QED BY <1>1, <1>2, InTxn, FileStep

LEMMA UndoSteps ==
  ASSUME StoreInv, UndoMove
  PROVE  StoreInv'
<1> USE JobFacts
<1> DEFINE m == txn.moves[txn.n]
           n == txn.n - 1
<1>1. /\ UNCHANGED <<row, trash, work, api, seen, shown>> /\ txn # Idle /\ txn.step = "undo"
      /\ at' = [at EXCEPT ![m.file] = m.from] /\ txn.n > 0
  BY DEF UndoMove, Revert
<1>2. txn.n \in 1..Len(txn.moves) /\ n \in 0..Len(txn.moves)
  BY <1>1, InTxn
<1>3. /\ at' \in [Files -> Places]
      /\ \A f \in Files : at'[f] = Nowhere /\ at[f] # Nowhere =>
           txn.op = "replace" /\ f = txn.new.file
  BY <1>1, <1>2, InTxn
<1>4. txn' = TxnOf(txn.op, txn.step, txn.moves, n, txn.kept, txn.onward, txn.new, txn.read,
                   txn.uses, txn.made)
  <2>1. txn' = Advanced(txn, n)
    BY Zenon DEF UndoMove, Advanced
  <2> QED BY <1>1, <2>1, InTxn, AdvancedIs
<1> HIDE DEF n, m
<1> QED BY <1>1, <1>2, <1>3, <1>4, FileStep

LEMMA KnownGrows ==
  ASSUME NEW V, NEW W, V \subseteq W
  PROVE  /\ \A r : KnownIn(r, V) => KnownIn(r, W)
         /\ \A t : EntryKnown(t, V) => EntryKnown(t, W)
<1>1. \A p : GoodIn(p, V) => GoodIn(p, W)
  BY GoodGrows
<1> QED BY <1>1 DEF KnownIn, EntryKnown

LEMMA CommitSteps ==
  ASSUME StoreInv, CommitRow
  PROVE  StoreInv'
<1> USE JobFacts, ShapeFacts
<1> DEFINE new == txn.new
           read == txn.read
           back == txn.op = "restore" /\ ~InFlight(txn.new)
<1>1. /\ UNCHANGED <<at, trash, work, api, seen>> /\ txn # Idle /\ txn.step = "move"
      /\ txn.n = Len(txn.moves) /\ Write(new, read, back)
  BY DEF CommitRow, Moving
<1>2. /\ IsTxn(txn) /\ txn.moves \in Seq(Moves) /\ txn.n \in 0..Len(txn.moves)
      /\ KnownIn(read, shown)
      /\ IsRow(new) /\ new.status \in RowStates /\ GoodIn(new.prev, shown)
      /\ PlainTxn \/ ReplaceTxn
  BY <1>1 DEF StoreInv, TxnKnown
<1>3. shown \subseteq Versions
  BY DEF StoreInv, StoreTyped
<1>4. new.file \in Versions \cup {NoFile}
  BY <1>2, <1>3 DEF PlainTxn, ReplaceTxn
<1>5. /\ RowKnown' /\ (row = Purged => row' = Purged) /\ row'.job \in {row.job, new.job}
      /\ new.job = read.job => row'.job = row.job
      /\ new.job # read.job /\ row # Purged => row'.job = new.job
      /\ row = Purged => shown' = shown
      /\ shown \subseteq shown' /\ shown' \subseteq shown \cup {new.file}
      /\ shown' \in SUBSET Versions
      /\ new.file \in shown \cup {NoFile} => shown' = shown
  <2> HIDE DEF new, read, back
  <2>1. IsRow(read)
    BY <1>2 DEF KnownIn
  <2> QED BY <1>1, <1>2, <1>4, <2>1, RowWritten
<1>6. txn' = TxnOf(txn.op, "finish", txn.moves, txn.n, txn.kept, txn.onward, new, read,
                   txn.uses, txn.made)
  <2>1. txn' = Stepped(txn, "finish")
    BY Zenon DEF CommitRow, RowDone, Stepped
  <2> QED BY <1>2, <2>1, SteppedIs
<1>7. /\ IsTxn(txn') /\ txn' # Idle /\ txn'.op = txn.op /\ txn'.step = "finish"
      /\ txn'.moves = txn.moves /\ txn'.n = txn.n /\ txn'.new = new /\ txn'.read = read
      /\ txn'.uses = txn.uses
  BY <1>6, TxnFields
<1>8. StoreTyped'
  BY <1>1, <1>5 DEF StoreInv, StoreTyped
<1>9. SeenKnown' /\ TrashKnown'
  <2>1. /\ \A r : KnownIn(r, shown) => KnownIn(r, shown')
        /\ \A t : EntryKnown(t, shown) => EntryKnown(t, shown')
    BY <1>5, KnownGrows
  <2> QED BY <1>1, <1>5, <2>1 DEF StoreInv, SeenKnown, TrashKnown
<1>10. TxnKnown'
  <2>1. KnownIn(read, shown') /\ GoodIn(new.prev, shown')
    <3> HIDE DEF new, read
    <3> QED BY <1>2, <1>5, KnownGrows, GoodGrows
  <2>4. \A e \in Entries : e \in txn.uses => trash'[e] # NoEntry
    BY <1>1 DEF StoreInv, TxnKnown
  <2>2. CASE PlainTxn
    <3>1. PlainTxn'
      BY <1>5, <1>7, <2>2 DEF PlainTxn
    <3> QED BY <1>2, <1>7, <2>1, <2>4, <3>1 DEF TxnKnown
  <2>3. CASE ReplaceTxn
    <3>1. ReplaceTxn'
      BY <1>7, <2>3 DEF ReplaceTxn
    <3> QED BY <1>2, <1>7, <2>1, <2>4, <3>1 DEF TxnKnown
  <2> QED BY <1>2, <2>2, <2>3
<1>11. CASE shown' = shown
  <2>1. ShownKept'
    BY <1>1, <1>11 DEF StoreInv, ShownKept
  <2>2. new.job \in {NoJob, read.job}
    BY <1>2 DEF PlainTxn, ReplaceTxn
  <2>3. row'.job \in {row.job, NoJob}
    BY <1>5, <2>2
  <2>4. JobsKnown'
    BY <1>1, <1>7, <1>11, <2>3 DEF StoreInv, JobsKnown, JobKnown
  <2> QED BY <1>5, <1>8, <1>9, <1>10, <2>1, <2>4 DEF StoreInv
<1>12. CASE shown' # shown
  <2>1. row # Purged /\ new.file \notin shown \cup {NoFile} /\ shown' = shown \cup {new.file}
    BY <1>5, <1>12
  <2>2. ReplaceTxn /\ txn.op = "replace"
    BY <1>2, <2>1 DEF PlainTxn, ReplaceTxn
  <2>3. PICK j \in Jobs :
          /\ new.file = ResultOf(j) /\ new.job = NoJob /\ Len(txn.moves) >= 1
          /\ work[j] = "saving" /\ (j \in api \/ read.job = j)
          /\ txn.n >= 1 => at[ResultOf(j)] # Nowhere
    BY <1>1, <2>2 DEF ReplaceTxn
  <2>4. ShownKept'
    BY <1>1, <2>1, <2>3 DEF StoreInv, ShownKept
  <2>5. row'.job \in {row.job, NoJob}
    BY <1>5, <2>3
  <2>6. JobKnown(j) /\ \A i \in Jobs : JobKnown(i)
    BY DEF StoreInv, JobsKnown
  <2>7. row'.job # j
    BY <1>5, <2>1, <2>3, <2>6 DEF JobKnown
  <2>8. JobsKnown'
    <3> SUFFICES ASSUME NEW i \in Jobs PROVE JobKnown(i)'
      BY DEF JobsKnown
    <3>1. CASE i = j
      BY <1>1, <1>7, <2>2, <2>3, <2>6, <2>7, <3>1 DEF JobKnown
    <3>2. CASE i # j
      <4>1. ResultOf(i) \in shown' => ResultOf(i) \in shown
        BY <2>1, <2>3, <3>2
      <4> QED BY <1>1, <1>7, <2>5, <2>6, <4>1 DEF JobKnown
    <3> QED BY <3>1, <3>2
  <2> QED BY <1>5, <1>8, <1>9, <1>10, <2>4, <2>8 DEF StoreInv
<1> QED BY <1>11, <1>12

LEMMA UndoFailsSteps ==
  ASSUME StoreInv, UndoFails
  PROVE  StoreInv'
<1> USE JobFacts
<1>1. /\ UNCHANGED <<row, trash, work, api, seen, shown>> /\ txn # Idle /\ txn.step = "undo"
      /\ txn.n > 0
  BY DEF UndoFails
<1>2. PICK n \in 0..Len(txn.moves) : txn' = [txn EXCEPT !.n = n, !.kept = TRUE]
  <2>1. 0 \in 0..Len(txn.moves) /\ txn.n - 1 \in 0..Len(txn.moves)
    BY <1>1, InTxn
  <2> QED BY <2>1, Zenon DEF UndoFails
<1>3. at' \in [Files -> Places] /\ \A f \in Files : at'[f] = Nowhere => at[f] = Nowhere
  <2>1. CASE at' = at
    BY <1>1, <2>1, InTxn
  <2>2. CASE at' # at
    <3> DEFINE all == {txn.moves[i] : i \in DOMAIN txn.moves}
               mine(f) == CHOOSE m \in all : m.file = f
    <3>1. at' = [f \in Files |->
                   IF txn.op # "swap" /\ \E i \in DOMAIN txn.moves : txn.moves[i].file = f
                   THEN mine(f).to ELSE at[f]]
      BY <2>2, Zenon DEF UndoFails
    <3>2. DOMAIN txn.moves = 1..Len(txn.moves)
      BY <1>1, InTxn
    <3>3. \A m \in all : m.to \in Places /\ m.to # Nowhere
      BY <1>1, <3>2, InTxn
    <3>4. ASSUME NEW f \in Files, \E i \in DOMAIN txn.moves : txn.moves[i].file = f
          PROVE  mine(f).to \in Places /\ mine(f).to # Nowhere
      <4>1. \E m \in all : m.file = f
        BY <3>4
      <4>2. mine(f) \in all
        BY <4>1
      <4> QED BY <3>3, <4>2
    <3> HIDE DEF mine
    <3> QED BY <1>1, <3>1, <3>4, InTxn
  <2> QED BY <2>1, <2>2
<1>4. txn' = TxnOf(txn.op, txn.step, txn.moves, n, TRUE, txn.onward, txn.new, txn.read,
                   txn.uses, txn.made)
  <2> DEFINE o == TRUE
  <2>1. txn' = LeftBehind(txn, n, o)
    BY <1>2, Zenon DEF LeftBehind
  <2> HIDE DEF o
  <2>2. txn' = TxnOf(txn.op, txn.step, txn.moves, n, o, txn.onward, txn.new, txn.read,
                     txn.uses, txn.made)
    BY <1>1, <2>1, InTxn, LeftBehindIs
  <2> QED BY <2>2, Zenon DEF o
<1> DEFINE o == TRUE
<1>5. txn' = TxnOf(txn.op, txn.step, txn.moves, n, o, txn.onward, txn.new, txn.read,
                   txn.uses, txn.made)
  BY <1>4
<1> HIDE DEF o
<1> QED BY <1>1, <1>3, <1>5, FileStep

LEMMA NoneKnown == \A V : EntryKnown(NoEntry, V)
BY DEF EntryKnown

LEMMA UndoneSteps ==
  ASSUME StoreInv, Undone
  PROVE  StoreInv'
<1> USE JobFacts
<1>1. /\ UNCHANGED <<row, at, api, seen, shown>> /\ txn # Idle /\ txn.step = "undo"
      /\ txn' = Idle /\ work' = Reports(txn.op)
      /\ trash' = [e \in Entries |-> IF e \in txn.made /\ ~txn.kept THEN NoEntry ELSE trash[e]]
  BY DEF Undone
<1>2. /\ work \in [Jobs -> WorkStates] /\ seen = [t \in Readers |-> seen[t]]
  BY DEF StoreInv, StoreTyped
<1>3. TrashKnown'
  BY <1>1, NoneKnown DEF StoreInv, TrashKnown
<1>4. /\ work' \in [Jobs -> WorkStates]
      /\ \A i \in Jobs : \/ work'[i] = work[i] /\ (work[i] = "saving" => txn.op # "replace")
                         \/ /\ work[i] = "saving" /\ txn.op = "replace"
                            /\ work'[i] = IF i \in api THEN "failed" ELSE "done"
  BY <1>1, <1>2 DEF Reports, WorkStates
<1>5. JobsKnown'
  <2> SUFFICES ASSUME NEW i \in Jobs PROVE JobKnown(i)'
    BY DEF JobsKnown
  <2>1. JobKnown(i)
    BY DEF StoreInv, JobsKnown
  <2>2. CASE work'[i] = work[i] /\ (work[i] = "saving" => txn.op # "replace")
    <3>1. work[i] # "saving"
      BY <2>1, <2>2 DEF JobKnown
    <3> QED BY <1>1, <2>1, <2>2, <3>1 DEF JobKnown
  <2>3. CASE /\ work[i] = "saving" /\ txn.op = "replace"
             /\ work'[i] = IF i \in api THEN "failed" ELSE "done"
    <3>1. txn.new.file = ResultOf(i) /\ seen[i] = Unread
      BY <2>1, <2>3 DEF JobKnown
    <3>2. ResultOf(i) \notin shown
      BY <1>1, <2>3, <3>1 DEF StoreInv, TxnKnown, PlainTxn, ReplaceTxn
    <3> QED BY <1>1, <2>1, <2>3, <3>1, <3>2 DEF JobKnown
  <2> QED BY <1>4, <2>2, <2>3
<1>6. RowKnown'
  BY <1>1 DEF StoreInv, RowKnown
<1>7. \A i \in Jobs : work[i] = "refused" => work'[i] = "refused"
  BY <1>4
<1> QED BY <1>1, <1>2, <1>3, <1>4, <1>5, <1>6, <1>7, EndStep

LEMMA FinishSteps ==
  ASSUME StoreInv, Finish
  PROVE  StoreInv'
<1> USE JobFacts
<1>1. /\ UNCHANGED <<row, at, api, seen, shown>> /\ txn # Idle /\ txn.step = "finish"
      /\ txn' = Idle
      /\ work' = [j \in Jobs |-> IF txn.op = "replace" /\ work[j] = "saving"
                                 THEN "over" ELSE work[j]]
  BY DEF Finish
<1>2. /\ work \in [Jobs -> WorkStates] /\ seen = [t \in Readers |-> seen[t]]
      /\ trash = [e \in Entries |-> trash[e]] /\ \A e \in Entries : EntryKnown(trash[e], shown)
  BY DEF StoreInv, StoreTyped, TrashKnown
<1>3. TrashKnown'
  <2>1. CASE trash' = [e \in Entries |-> IF e \in txn.uses THEN NoEntry ELSE trash[e]]
    BY <1>1, <1>2, <2>1, NoneKnown DEF TrashKnown
  <2>2. CASE trash' = [e \in Entries |->
                        IF e \in txn.uses
                        THEN [trash[e] EXCEPT !.files = {}, !.kind = "used", !.ok = FALSE]
                        ELSE trash[e]]
    <3> DEFINE o == FALSE
    <3>1. trash' = [e \in Entries |-> IF e \in txn.uses THEN UsedUp(trash[e], o) ELSE trash[e]]
      BY <2>2, Zenon DEF UsedUp
    <3> HIDE DEF o
    <3>2. ASSUME NEW e \in Entries, e \in txn.uses PROVE EntryKnown(UsedUp(trash[e], o), shown)
      <4>1. IsEntry(trash[e])
        BY <1>1, <1>2, <3>2 DEF StoreInv, TxnKnown, EntryKnown
      <4>2. UsedUp(trash[e], o) = EntryOf("used", {}, trash[e].state, o)
        BY <4>1, UsedUpIs
      <4> QED BY <4>2, EntryOfIs DEF EntryKnown
    <3> QED BY <1>1, <1>2, <3>1, <3>2 DEF TrashKnown
  <2> QED BY <2>1, <2>2 DEF Finish
<1>4. /\ work' \in [Jobs -> WorkStates]
      /\ \A i \in Jobs : \/ work'[i] = work[i] /\ (work[i] = "saving" => txn.op # "replace")
                         \/ work[i] = "saving" /\ work'[i] = "over"
  BY <1>1, <1>2 DEF WorkStates
<1>5. JobsKnown'
  <2> SUFFICES ASSUME NEW i \in Jobs PROVE JobKnown(i)'
    BY DEF JobsKnown
  <2>1. JobKnown(i)
    BY DEF StoreInv, JobsKnown
  <2>2. work'[i] # "saving"
    BY <1>4, <2>1 DEF JobKnown
  <2> QED BY <1>1, <1>4, <2>1, <2>2 DEF JobKnown
<1>6. RowKnown'
  BY <1>1 DEF StoreInv, RowKnown
<1>7. \A i \in Jobs : work[i] = "refused" => work'[i] = "refused"
  BY <1>4
<1> QED BY <1>1, <1>2, <1>3, <1>4, <1>5, <1>6, <1>7, EndStep
-----------------------------------------------------------------------------
(* The Trash is emptied, and the server dies.                              *)
LEMMA EmptyStep ==
  ASSUME StoreInv, UNCHANGED <<txn, work, api, seen, shown>>, txn = Idle,
         row' \in {row, Purged}, at' \in [Files -> Places],
         \A f \in Files : at'[f] = Nowhere => at[f] = Nowhere, TrashKnown'
  PROVE  StoreInv'
<1>1. StoreTyped' /\ TxnKnown'
  BY DEF StoreInv, StoreTyped, TxnKnown
<1>2. RowKnown'
  BY DEF StoreInv, RowKnown
<1>3. SeenKnown'
  BY <1>2 DEF StoreInv, SeenKnown
<1>4. JobsKnown'
  BY JobFacts, ShapeFacts DEF StoreInv, JobsKnown, JobKnown
<1>5. ShownKept'
  BY JobFacts DEF StoreInv, StoreTyped, ShownKept
<1> QED BY <1>1, <1>2, <1>3, <1>4, <1>5 DEF StoreInv

LEMMA MarkedKnown ==
  ASSUME StoreInv, NEW e \in Entries, trash[e] # NoEntry, trash' = Marked(e), shown' = shown
  PROVE  TrashKnown'
<1> DEFINE o == FALSE
           t == Tombstone(trash[e], o)
<1>1. trash' = [trash EXCEPT ![e] = t]
  BY Zenon DEF Marked, Tombstone
<1>2. /\ trash = [d \in Entries |-> trash[d]] /\ \A d \in Entries : EntryKnown(trash[d], shown)
  BY DEF StoreInv, TrashKnown
<1>3. IsEntry(trash[e])
  BY <1>2 DEF EntryKnown
<1> HIDE DEF o
<1>4. t = EntryOf("purged", trash[e].files, trash[e].state, o)
  BY <1>3, TombstoneIs
<1>5. EntryKnown(t, shown)
  <2>1. IsEntry(t) /\ t.kind = "purged"
    BY <1>4, EntryOfIs
  <2> HIDE DEF t
  <2> QED BY <2>1 DEF EntryKnown
<1> HIDE DEF t
<1> QED BY <1>1, <1>2, <1>5 DEF TrashKnown

LEMMA EmptySteps ==
  ASSUME StoreInv, NEW e \in Entries, EmptyEntry(e) \/ EmptyRefused(e) \/ EmptyFails(e)
  PROVE  StoreInv'
<1> USE JobFacts
<1>1. /\ UNCHANGED <<txn, work, api, seen, shown>> /\ txn = Idle /\ row' \in {row, Purged}
      /\ trash[e] # NoEntry
  BY DEF EmptyEntry, EmptyRefused, EmptyFails
<1>2. /\ at \in [Files -> Places]
      /\ trash = [d \in Entries |-> trash[d]] /\ \A d \in Entries : EntryKnown(trash[d], shown)
  BY DEF StoreInv, StoreTyped, TrashKnown
<1>3. at' \in [Files -> Places] /\ \A f \in Files : at'[f] = Nowhere => at[f] = Nowhere
  <2>1. EmptyRefused(e) => at' = at
    BY DEF EmptyRefused
  <2>2. EmptyEntry(e) => at' = [f \in Files |-> IF at[f] = e THEN Emptied ELSE at[f]]
    BY DEF EmptyEntry
  <2>3. EmptyFails(e) => \/ at' = at
                         \/ \E gone \in SUBSET {f \in Files : at[f] = e} :
                              at' = [f \in Files |-> IF f \in gone THEN Emptied ELSE at[f]]
    BY Zenon DEF EmptyFails
  <2> QED BY <1>2, <2>1, <2>2, <2>3
<1>4. TrashKnown'
  <2>1. CASE EmptyEntry(e)
    <3>1. trash' = [trash EXCEPT ![e] = NoEntry]
      BY <2>1 DEF EmptyEntry
    <3> QED BY <1>1, <1>2, <3>1, NoneKnown DEF TrashKnown
  <2>2. CASE EmptyRefused(e) \/ EmptyFails(e)
    <3>1. trash' = Marked(e)
      BY <2>2, Zenon DEF EmptyRefused, EmptyFails
    <3> QED BY <1>1, <3>1, MarkedKnown
  <2> QED BY <2>1, <2>2
<1> QED BY <1>1, <1>3, <1>4, EmptyStep

LEMMA CrashSteps ==
  ASSUME StoreInv, Crash
  PROVE  StoreInv'
<1> USE JobFacts, ShapeFacts
<1>1. /\ UNCHANGED <<at, trash, api, shown>> /\ txn' = Idle
      /\ seen' = [t \in Readers |-> Unread]
  BY DEF Crash
<1>2. /\ work \in [Jobs -> WorkStates] /\ seen = [t \in Readers |-> seen[t]]
  BY DEF StoreInv, StoreTyped
<1>3. RowKnown' /\ (row = Purged => row' = Purged) /\ row'.job = row.job
  <2>1. CASE Exists(row) /\ InFlight(row) /\ row.job = NoJob
    <3>1. row # Purged
      BY <2>1
    <3>2. KnownIn(row, shown)
      BY <3>1 DEF StoreInv, RowKnown
    <3>3. row' = ImageRow("failed", row.file, row.job, row.prev, row.imported)
      BY <2>1, <3>2, StatusIs DEF Crash, KnownIn
    <3>4. /\ IsRow(row') /\ row'.status = "failed" /\ row'.file = row.file
          /\ row'.job = row.job /\ row'.prev = row.prev
      BY <3>3, RowOfIs
    <3>5. KnownIn(row', shown')
      BY <1>1, <3>2, <3>4 DEF KnownIn, RowStates, LiveStates
    <3> QED BY <3>1, <3>4, <3>5 DEF RowKnown
  <2>2. CASE ~(Exists(row) /\ InFlight(row) /\ row.job = NoJob)
    <3>1. row' = row
      BY <2>2 DEF Crash
    <3> QED BY <1>1, <3>1 DEF StoreInv, RowKnown
  <2> QED BY <2>1, <2>2
<1>4. /\ work' \in [Jobs -> WorkStates]
      /\ \A i \in Jobs :
           \/ work'[i] = work[i] /\ work[i] \notin {"saving", "unqueued", "refused"}
           \/ work[i] \in {"unqueued", "refused"} /\ work'[i] = "forgotten"
           \/ i \in api /\ work[i] \in {"running", "done", "failed", "saving"} /\ work'[i] = "over"
           \/ i \notin api /\ work[i] = "saving" /\ work'[i] = "done"
  <2> DEFINE w(j) ==
               CASE work[j] \in {"unqueued", "refused"} -> "forgotten"
                 [] j \in api /\ work[j] \in {"running", "done", "failed", "saving"} -> "over"
                 [] j \notin api /\ work[j] = "saving" -> "done"
                 [] OTHER -> work[j]
  <2>1. work' = [j \in Jobs |-> w(j)]
    BY DEF Crash
  <2>2. ASSUME NEW i \in Jobs
        PROVE  /\ w(i) \in WorkStates
               /\ \/ w(i) = work[i] /\ work[i] \notin {"saving", "unqueued", "refused"}
                  \/ work[i] \in {"unqueued", "refused"} /\ w(i) = "forgotten"
                  \/ /\ i \in api /\ work[i] \in {"running", "done", "failed", "saving"}
                     /\ w(i) = "over"
                  \/ i \notin api /\ work[i] = "saving" /\ w(i) = "done"
    <3>1. work[i] \in WorkStates
      BY <1>2
    <3>2. CASE work[i] \in {"unqueued", "refused"}
      BY <3>2 DEF WorkStates
    <3>3. CASE work[i] \notin {"unqueued", "refused"} /\ i \in api
               /\ work[i] \in {"running", "done", "failed", "saving"}
      BY <3>3 DEF WorkStates
    <3>4. CASE work[i] = "saving" /\ i \notin api
      BY <3>4 DEF WorkStates
    <3>5. CASE /\ work[i] \notin {"unqueued", "refused", "saving"}
               /\ ~(i \in api /\ work[i] \in {"running", "done", "failed", "saving"})
      BY <3>1, <3>5
    <3> QED BY <3>2, <3>3, <3>4, <3>5
  <2> HIDE DEF w
  <2> QED BY <2>1, <2>2
<1>5. JobsKnown'
  <2> SUFFICES ASSUME NEW i \in Jobs PROVE JobKnown(i)'
    BY DEF JobsKnown
  <2>1. JobKnown(i) /\ seen'[i] = Unread
    BY <1>1 DEF StoreInv, JobsKnown
  <2> QED BY <1>1, <1>3, <1>4, <2>1 DEF JobKnown
<1>6. TrashKnown' /\ seen' = [t \in Readers |-> seen'[t]]
  BY <1>1 DEF StoreInv, TrashKnown
<1>7. \A t \in Readers : seen'[t] = Unread
  BY <1>1
<1> QED BY <1>1, <1>3, <1>4, <1>5, <1>6, <1>7, EndStep

-----------------------------------------------------------------------------
LEMMA StoreSteps == StoreInv /\ [StoreNext]_storeVars => StoreInv'
<1> SUFFICES ASSUME StoreInv, [StoreNext]_storeVars PROVE StoreInv'
  OBVIOUS
<1>1. CASE UNCHANGED storeVars
  BY <1>1, Zenon
  DEF storeVars, StoreInv, StoreTyped, RowKnown, SeenKnown, TrashKnown, TxnKnown, PlainTxn,
      ReplaceTxn, JobsKnown, JobKnown, ShownKept
<1>2. CASE UserReads \/ \E j \in Jobs : Generation(j)
  <2>1. ASSUME NEW j \in Jobs,
               UserReads \/ Enqueue(j) \/ EnqueueFails(j) \/ GenerationEnds(j)
               \/ GenerationSkipped(j) \/ AnswerReads(j) \/ AnswerIgnored(j)
        PROVE  StoreInv'
    BY <2>1, ReadSteps
  <2>2. UserReads => StoreInv'
    BY ReaderSteps
  <2> QED BY <1>2, <2>1, <2>2, FailureSteps, ReplaceBegins DEF Generation
<1>3. CASE \/ \E s \in {"keep", "pending"} : SetImageStatus(s)
           \/ \E j \in Jobs, remote \in BOOLEAN : RegenerateImageLocked(j, remote)
           \/ CancelPending
  BY <1>3, UserSteps
<1>4. CASE DeleteImage \/ \E e \in Entries : \/ RestoreImage(e) \/ RestoreVersion(e)
                                             \/ EmptyEntry(e) \/ EmptyRefused(e) \/ EmptyFails(e)
  BY <1>4, DeleteSteps, RestoreSteps, VersionSteps, EmptySteps
<1>5. CASE Transaction \/ MoveFails \/ CommitFails \/ UndoFails
  BY <1>5, MoveSteps, GiveUpSteps, CommitSteps, UndoSteps, UndoneSteps, FinishSteps,
     CommitFailsSteps, UndoFailsSteps
  DEF Transaction
<1>6. CASE Crash
  BY <1>6, CrashSteps
<1> QED BY <1>1, <1>2, <1>3, <1>4, <1>5, <1>6 DEF StoreNext

(* A picture the row has shown is on disk or in the Trash until the user   *)
(* empties it, whatever moves, commits and compensations fail and whenever *)
(* the server dies: a version leaves the disk only as bytes a transaction  *)
(* wrote itself and never committed.                                       *)
THEOREM ShownIsKept == StoreSpec => []NothingIsDestroyed
<1>1. StoreInv => NothingIsDestroyed
  BY DEF StoreInv, ShownKept, NothingIsDestroyed
<1> QED BY <1>1, StoreStarts, StoreSteps, PTL DEF StoreSpec

-----------------------------------------------------------------------------
(***************************************************************************)
(* Where the files are.  Between transactions a live row has its picture   *)
(* and a trashed one its entry; inside one, the moves made so far say what *)
(* a commit and what the way back will leave.                              *)
(***************************************************************************)

(* The states below a row have its own picture: a regeneration leaves the  *)
(* picture in place until its result is committed.                         *)
Coherent(r) == GoodIn(r.prev, {r.file} \ {NoFile})

IsImage(e) == trash[e].kind = "image"
IsVersion(e) == trash[e].kind = "version"
Kept(e) == IsImage(e) /\ AllIn(e)
Held == row.file = NoFile \/ at[row.file] = Disk
Covers(e) == Kept(e) /\ (row.file \in trash[e].files \/ Held)
Settled == /\ IsLive(row) => Held
           /\ row.status = "trashed" => \E e \in Entries : Covers(e)
NoImage == \A e \in Entries : ~IsImage(e)

Working == txn # Idle /\ txn.step \in {"move", "undo"} /\ txn.kept = FALSE
Steps == 1..Len(txn.moves)
Moved(i) == at[txn.moves[i].file] = IF i <= txn.n THEN txn.moves[i].to ELSE txn.moves[i].from
(* The moves carry exactly the files of e.                                 *)
Carries(e, from, to) ==
  /\ \A i \in Steps : /\ txn.moves[i].from = from /\ txn.moves[i].to = to
                      /\ txn.moves[i].file \in trash[e].files /\ Moved(i)
                      /\ \A k \in Steps : txn.moves[k].file = txn.moves[i].file => k = i
  /\ \A f \in trash[e].files : \E i \in Steps : txn.moves[i].file = f

(* The phases: what has moved, and what the commit will write.             *)
Deleting(e) ==
  /\ txn.op = "delete" /\ txn.made = {e} /\ txn.uses = {} /\ IsImage(e) /\ Carries(e, Disk, e)
  /\ row.status # "trashed"
  /\ IsLive(row) => row.file \in trash[e].files \cup {NoFile}
  /\ txn.read.status # "trashed" /\ txn.new.status = "trashed"
  /\ txn.new.file = txn.read.file /\ txn.new.prev = txn.read.prev
Restoring(e) ==
  /\ txn.op = "restore" /\ txn.made = {} /\ txn.uses = {e} /\ IsImage(e) /\ Carries(e, e, Disk)
  /\ row.status = "trashed" /\ (row.file \in trash[e].files \/ Held)
  /\ txn.read.status = "trashed" /\ txn.new.status \in LiveStates
  /\ txn.new.file = txn.read.file /\ txn.new.prev = txn.read.prev
(* The chosen version comes from e, the one shown goes to d.               *)
SwapsIn ==
  /\ Len(txn.moves) = 1 /\ txn.made = {}
  /\ IsLive(row) => row.file = NoFile
  /\ row.status = "trashed" =>
       \E c \in Entries : Kept(c) /\ row.file \in trash[c].files \cup {NoFile}
SwapsOut(e, d) ==
  /\ Len(txn.moves) = 2 /\ d # e /\ txn.made = {d} /\ IsVersion(d)
  /\ row.file # NoFile /\ txn.moves[1].file = row.file
  /\ txn.moves[1].from = Disk /\ txn.moves[1].to = d /\ Moved(1)
  /\ txn.n = 2 => row.file # txn.new.file
  /\ row.status = "trashed" => \E c \in Entries : Kept(c)
Swapping(e) ==
  /\ txn.op = "swap" /\ txn.uses = {e} /\ IsVersion(e)
  /\ Coherent(txn.new) /\ txn.new.status \in LiveStates
  /\ row.status = "trashed" => txn.read.status = "trashed"
  /\ txn.moves[Len(txn.moves)].file = txn.new.file
  /\ txn.moves[Len(txn.moves)].from = e /\ txn.moves[Len(txn.moves)].to = Disk
  /\ txn.n = Len(txn.moves) => at[txn.new.file] = Disk
  /\ SwapsIn \/ \E d \in Entries : SwapsOut(e, d)
  /\ IsLive(row) => NoImage
There == Held \/ (txn.n = 2 /\ row.file = txn.moves[2].file)
Replacing ==
  /\ txn.op = "replace" /\ txn.uses = {}
  /\ txn.new.prev = NoPrev /\ txn.new.status = "pending"
  /\ txn.moves[1].file = txn.new.file /\ txn.moves[1].to = Disk /\ Moved(1)
  /\ \/ Len(txn.moves) = 1 /\ txn.made = {}
     \/ /\ Len(txn.moves) = 2
        /\ \E d \in Entries : txn.made = {d} /\ IsVersion(d) /\ txn.moves[2].to = d
        /\ txn.moves[2].from = Disk /\ txn.moves[2].file \in shown /\ Moved(2)
  /\ IsLive(row) => There /\ NoImage
  /\ row.status = "trashed" => \E e \in Entries : Kept(e) /\ (row.file \in trash[e].files \/ There)
Finishing ==
  /\ txn # Idle /\ txn.step = "finish" /\ Settled
  /\ \A e \in Entries : IsImage(e) => /\ IsLive(row) => e \in txn.uses
                                      /\ row.status = "trashed" => e \notin txn.uses
Resting == txn = Idle /\ Settled /\ (IsLive(row) => NoImage)

RowsCoherent ==
  /\ Coherent(row)
  /\ \A t \in Readers : seen[t] = Unread \/ Coherent(seen[t])
  /\ \A e \in Entries : IsVersion(e) => Coherent(trash[e].state)
(* Only the version a swap makes of a trashed row is trashed itself.       *)
VersionsLive ==
  \A e \in Entries : IsVersion(e) =>
    \/ trash[e].state.status \in LiveStates
    \/ Working /\ txn.op = "swap" /\ e \in txn.made /\ row.status = "trashed"
OneImage ==
  /\ \A e, d \in Entries : IsImage(e) /\ IsImage(d) => e = d
  /\ \A e \in Entries :
       IsImage(e) => trash[e].ok = TRUE /\ trash[e].files \subseteq shown \cup {Original}
Phase ==
  \/ Resting
  \/ Working /\ \E e \in Entries : Deleting(e) \/ Restoring(e) \/ Swapping(e)
  \/ Working /\ Replacing
  \/ Finishing
(* The inductive invariant, beside StoreInv.                               *)
PlaceInv == sound => RowsCoherent /\ VersionsLive /\ OneImage /\ Phase

LEMMA RestsOnDisk == StoreInv /\ PlaceInv => RowHasItsFile /\ TrashedIsRecoverable
<1> SUFFICES ASSUME StoreInv, PlaceInv, txn = Idle, sound
             PROVE  RowHasItsFile /\ TrashedIsRecoverable
  BY DEF RowHasItsFile, TrashedIsRecoverable
<1>1. Settled /\ OneImage
  BY DEF PlaceInv, Phase, Working, Finishing, Resting
<1>2. RowHasItsFile
  BY <1>1 DEF RowHasItsFile, Settled, Held
<1>3. TrashedIsRecoverable
  <2> SUFFICES ASSUME row.status = "trashed"
               PROVE  \E e \in Entries : /\ trash[e].kind = "image" /\ trash[e].ok /\ AllIn(e)
                       /\ \/ row.file \in trash[e].files \cup {NoFile}
                          \/ at[row.file] = Disk
    BY DEF TrashedIsRecoverable
  <2>1. PICK e \in Entries : Covers(e)
    BY <1>1 DEF Settled
  <2>2. trash[e].ok
    BY <1>1, <2>1 DEF OneImage, Covers, Kept
  <2> QED BY <2>1, <2>2 DEF Covers, Kept, IsImage, Held
<1> QED BY <1>2, <1>3

LEMMA PlaceStarts == StoreInit => PlaceInv
<1> SUFFICES ASSUME StoreInit PROVE PlaceInv
  OBVIOUS
<1> USE JobFacts, ShapeFacts
<1>1. PICK source \in {"import", "generated", "klein", "api"} :
       /\ row = ImageRow("pending", IF source \in {"klein", "api"} THEN NoFile ELSE 1,
                      IF source = "klein" THEN 1 ELSE NoJob, NoPrev, source = "import")
       /\ at = [f \in Files |-> IF \/ f = 1 /\ source \in {"import", "generated"}
                                   \/ f = Original /\ source = "import"
                                THEN Disk ELSE Nowhere]
  BY DEF StoreInit, ImageRow
<1>2. /\ trash = [e \in Entries |-> NoEntry] /\ txn = Idle /\ seen = [t \in Readers |-> Unread]
  BY DEF StoreInit
<1>3. row.prev = NoPrev /\ row.status = "pending"
      /\ row.file = IF source \in {"klein", "api"} THEN NoFile ELSE 1
  BY <1>1, RowOfIs
<1>4. Held
  BY <1>1, <1>3 DEF Held, Files, Versions
<1>5. \A e \in Entries : ~IsImage(e) /\ ~IsVersion(e)
  BY <1>2 DEF IsImage, IsVersion, NoEntry
<1>6. Resting
  BY <1>2, <1>3, <1>4, <1>5 DEF Resting, Settled, NoImage
<1>7. RowsCoherent
  BY <1>2, <1>3, <1>5, NoneIsGood DEF RowsCoherent, Coherent
<1> QED BY <1>5, <1>6, <1>7 DEF PlaceInv, Phase, OneImage, VersionsLive

-----------------------------------------------------------------------------
(* Rows are read and written, no file moves.                               *)
SameKind == /\ row'.file = row.file
            /\ \/ /\ IsLive(row)' = IsLive(row)
                  /\ (row'.status = "trashed") = (row.status = "trashed")
               \/ row' = Purged /\ row.status # "trashed"

LEMMA OutsideStep ==
  ASSUME StoreInv, PlaceInv, sound' => sound, UNCHANGED <<at, trash, txn, shown>>,
         sound' => SameKind, sound' => Coherent(row'),
         sound' => \A t \in Readers : seen'[t] \in {seen[t], row, Unread}
  PROVE  PlaceInv'
<1> USE ShapeFacts
<1> SUFFICES ASSUME sound' PROVE (RowsCoherent /\ VersionsLive /\ OneImage /\ Phase)'
  BY DEF PlaceInv
<1>0. /\ RowsCoherent /\ VersionsLive /\ OneImage /\ Phase /\ row'.file = row.file
      /\ IsLive(row)' => IsLive(row)
      /\ row.status # "trashed" <=> row'.status # "trashed"
  BY DEF PlaceInv, SameKind
<1>1. RowsCoherent'
  BY <1>0 DEF RowsCoherent, IsVersion
<1>2. VersionsLive' /\ OneImage'
  BY <1>0 DEF VersionsLive, OneImage, IsVersion, IsImage, Working
<1>3. Working' = Working
  BY DEF Working
<1>4. Held' = Held /\ There' = There
  BY <1>0 DEF Held, There
<1>5. \A e \in Entries : /\ Kept(e)' = Kept(e) /\ Covers(e)' = Covers(e)
                         /\ IsImage(e)' = IsImage(e) /\ IsVersion(e)' = IsVersion(e)
  BY <1>0, <1>4 DEF Kept, Covers, IsImage, IsVersion, AllIn
<1>6. NoImage' = NoImage
  BY <1>5 DEF NoImage
<1>7. Settled => Settled'
  BY <1>0, <1>4, <1>5 DEF Settled
<1>8. \A i : Moved(i)' = Moved(i)
  BY DEF Moved
<1>9. ASSUME NEW e \in Entries, Deleting(e) PROVE Deleting(e)'
  <2>1. Carries(e, Disk, e)' = Carries(e, Disk, e)
    BY <1>8 DEF Carries, Steps
  <2> QED BY <1>0, <1>5, <1>9, <2>1 DEF Deleting
<1>10. ASSUME NEW e \in Entries, Restoring(e) PROVE Restoring(e)'
  <2>1. Carries(e, e, Disk)' = Carries(e, e, Disk)
    BY <1>8 DEF Carries, Steps
  <2> QED BY <1>0, <1>4, <1>5, <1>10, <2>1 DEF Restoring
<1>11. ASSUME NEW e \in Entries, Swapping(e) PROVE Swapping(e)'
  <2>1. SwapsIn => SwapsIn'
    BY <1>0, <1>5 DEF SwapsIn
  <2>2. ASSUME NEW d \in Entries, SwapsOut(e, d) PROVE SwapsOut(e, d)'
    BY <1>0, <1>5, <1>8, <2>2 DEF SwapsOut
  <2> QED BY <1>0, <1>5, <1>6, <1>11, <2>1, <2>2 DEF Swapping
<1>12. Replacing => Replacing'
  BY <1>0, <1>4, <1>5, <1>6, <1>8 DEF Replacing
<1>13. Finishing => Finishing'
  BY <1>0, <1>5, <1>7 DEF Finishing
<1>14. Resting => Resting'
  BY <1>0, <1>6, <1>7 DEF Resting
<1> QED BY <1>0, <1>1, <1>2, <1>3, <1>9, <1>10, <1>11, <1>12, <1>13, <1>14, Zenon DEF Phase

(* What a sound commit leaves of the row.                                  *)
LEMMA SoundWrite ==
  ASSUME IsRow(row), NEW new, IsRow(new), NEW read, IsRow(read), NEW restores,
         Write(new, read, restores), sound'
  PROVE  /\ sound /\ IsRow(row')
         /\ ~Exists(row) => row' = row
         /\ Exists(row) =>
              /\ read.file = row.file /\ read.prev = row.prev
              /\ row'.file = new.file /\ row'.prev = new.prev
              /\ row'.status = IF new.status = read.status THEN row.status ELSE new.status
              /\ row.status = "trashed" => restores \/ row'.status = "trashed"
<1>1. /\ sound /\ (Exists(row) => read.file = row.file /\ read.prev = row.prev)
      /\ row.status = "trashed" => restores \/ row'.status = "trashed"
  BY DEF Write
<1>2. /\ IsRow(row') /\ (~Exists(row) => row' = row)
      /\ Exists(row) =>
           /\ row'.status = IF new.status = read.status THEN row.status ELSE new.status
           /\ row'.file = IF new.file = read.file THEN row.file ELSE new.file
           /\ row'.prev = IF new.prev = read.prev THEN row.prev ELSE new.prev
  BY WriteIs
<1>3. Exists(row) => row'.file = new.file /\ row'.prev = new.prev
  BY <1>1, <1>2
<1> QED BY <1>1, <1>2, <1>3

LEMMA RowKinds ==
  ASSUME StoreInv
  PROVE  /\ IsRow(row)
         /\ \/ IsLive(row) /\ Exists(row) /\ row.status # "trashed" /\ row # Purged
            \/ ~IsLive(row) /\ Exists(row) /\ row.status = "trashed" /\ row # Purged
            \/ ~IsLive(row) /\ ~Exists(row) /\ row.status # "trashed" /\ row = Purged
         /\ row.status \in LiveStates <=> IsLive(row)
         /\ row.file \in shown \cup {NoFile} /\ shown \subseteq Versions
<1>1. row = Purged \/ KnownIn(row, shown)
  BY DEF StoreInv, RowKnown
<1>2. shown \subseteq Versions
  BY DEF StoreInv, StoreTyped
<1> QED BY <1>1, <1>2, ShapeFacts DEF KnownIn, RowStates, LiveStates, IsLive, Exists

(* A commit that leaves the picture of the row where it is.                *)
LEMMA OutsideWrite ==
  ASSUME StoreInv, PlaceInv, UNCHANGED <<at, trash, txn>>,
         \A t \in Readers : seen'[t] \in {seen[t], Unread},
         NEW new, IsRow(new), NEW read, IsRow(read), Write(new, read, FALSE),
         new.status \in LiveStates,
         sound /\ read.file = row.file /\ read.prev = row.prev =>
           new.file = row.file /\ Coherent(new)
  PROVE  PlaceInv'
<1> USE ShapeFacts
<1> SUFFICES ASSUME sound' PROVE PlaceInv'
  BY DEF PlaceInv
<1> DEFINE restores == FALSE
<1>0. Write(new, read, restores)
  OBVIOUS
<1> HIDE DEF restores
<1>1. sound
  BY DEF Write
<1>2. SameKind /\ Coherent(row')
  <2>1. IsRow(row) /\ (IsLive(row) \/ row.status = "trashed" \/ row = Purged)
    BY RowKinds
  <2>2. /\ sound /\ IsRow(row')
        /\ ~Exists(row) => row' = row
        /\ Exists(row) =>
             /\ read.file = row.file /\ read.prev = row.prev
             /\ row'.file = new.file /\ row'.prev = new.prev
             /\ row'.status = IF new.status = read.status THEN row.status ELSE new.status
             /\ row.status = "trashed" => restores \/ row'.status = "trashed"
    BY <1>0, <2>1, SoundWrite
  <2>3. CASE ~Exists(row)
    <3>1. Coherent(row)
      BY <2>2 DEF PlaceInv, RowsCoherent
    <3> QED BY <2>2, <2>3, <3>1 DEF SameKind, IsLive
  <2>4. CASE Exists(row)
    <3>1. Coherent(row') /\ row'.file = row.file
      BY <2>2, <2>4 DEF Coherent
    <3>2. CASE row.status = "trashed"
      <4>1. row'.status = "trashed"
        BY <2>2, <2>4, <3>2 DEF restores
      <4> QED BY <3>1, <3>2, <4>1 DEF SameKind, IsLive
    <3>3. CASE row.status # "trashed"
      <4>1. IsLive(row) /\ row.status \in LiveStates
        BY <2>4, <3>3, RowKinds
      <4>2. row'.status \in LiveStates
        BY <2>2, <2>4, <4>1
      <4> QED BY <3>1, <4>1, <4>2 DEF SameKind, IsLive, LiveStates
    <3> QED BY <3>2, <3>3
  <2> QED BY <2>3, <2>4
<1>3. shown' = shown
  <2>1. row'.file = row.file /\ row.file \in shown \cup {NoFile} /\ NoFile \notin Versions
    BY <1>2, RowKinds, JobFacts DEF SameKind
  <2>2. shown' = shown \cup ({row'.file} \cap Versions)
    BY DEF Write
  <2> QED BY <2>1, <2>2
<1> QED BY <1>1, <1>2, <1>3, OutsideStep

LEMMA OutsideReads ==
  ASSUME StoreInv, PlaceInv, UNCHANGED <<row, at, trash, txn, shown, sound>>,
         \A t \in Readers : seen'[t] \in {seen[t], row, Unread}
  PROVE  PlaceInv'
<1>1. SameKind
  BY DEF SameKind
<1>2. sound => Coherent(row')
  BY DEF PlaceInv, RowsCoherent
<1> QED BY <1>1, <1>2, OutsideStep

LEMMA PlaceReads ==
  ASSUME StoreInv, PlaceInv,
         \/ UserReads
         \/ \E j \in Jobs : \/ Enqueue(j) \/ EnqueueFails(j) \/ GenerationEnds(j)
                            \/ GenerationSkipped(j) \/ AnswerReads(j) \/ AnswerIgnored(j)
  PROVE  PlaceInv'
<1>1. UNCHANGED <<row, at, trash, txn, shown, sound>>
  BY DEF UserReads, Enqueue, EnqueueFails, GenerationEnds, GenerationSkipped, AnswerReads,
         AnswerIgnored
<1>2. seen = [t \in Readers |-> seen[t]]
  BY DEF StoreInv, StoreTyped
<1>3. \A t \in Readers : seen'[t] \in {seen[t], row, Unread}
  BY <1>2 DEF UserReads, Enqueue, EnqueueFails, GenerationEnds, GenerationSkipped, AnswerReads,
         AnswerIgnored
<1> QED BY <1>1, <1>3, OutsideReads

LEMMA PlaceDecides ==
  ASSUME StoreInv, PlaceInv, NEW s \in {"keep", "pending"}, SetImageStatus(s)
  PROVE  PlaceInv'
<1> DEFINE r == seen[User]
           new == ImageRow(s, r.file, r.job, r.prev, r.imported)
<1>1. /\ UNCHANGED <<at, trash, txn>> /\ seen = [t \in Readers |-> seen[t]]
      /\ seen' = [seen EXCEPT ![User] = Unread]
  BY DEF SetImageStatus, StoreInv, StoreTyped
<1>2. IsRow(r)
  BY JobFacts DEF StoreInv, SeenKnown, SetImageStatus, KnownIn
<1>3. Write(new, r, FALSE)
  <2>1. [r EXCEPT !.status = s] = new
    BY <1>2, StatusIs
  <2> QED BY <2>1 DEF SetImageStatus
<1>4. IsRow(new) /\ new.status = s /\ new.file = r.file /\ new.prev = r.prev
  BY RowOfIs
<1>5. sound => Coherent(row)
  BY DEF PlaceInv, RowsCoherent
<1> HIDE DEF new, r
<1>6. sound /\ r.file = row.file /\ r.prev = row.prev => new.file = row.file /\ Coherent(new)
  BY <1>4, <1>5 DEF Coherent
<1>7. \A t \in Readers : seen'[t] \in {seen[t], Unread}
  BY <1>1
<1>8. new.status \in LiveStates
  BY <1>4 DEF LiveStates
<1> QED BY <1>1, <1>2, <1>3, <1>4, <1>6, <1>7, <1>8, OutsideWrite

LEMMA PlaceRegenerates ==
  ASSUME StoreInv, PlaceInv, NEW j \in Jobs, NEW remote \in BOOLEAN,
         RegenerateImageLocked(j, remote)
  PROVE  PlaceInv'
<1> DEFINE r == seen[User]
           J == IF remote THEN r.job ELSE j
           P == IF r.file # NoFile THEN StateOf(r) ELSE NoPrev
           new == ImageRow("pending", r.file, J, P, r.imported)
<1>1. /\ UNCHANGED <<at, trash, txn>> /\ seen = [t \in Readers |-> seen[t]]
      /\ seen' = [seen EXCEPT ![User] = Unread]
  BY DEF RegenerateImageLocked, StoreInv, StoreTyped
<1>2. KnownIn(r, shown) /\ IsRow(r) /\ IsLive(r)
  BY JobFacts DEF StoreInv, SeenKnown, RegenerateImageLocked, KnownIn
<1>3. Write(new, r, FALSE)
  <2>1. Write(Edited(r, "pending", J, P), r, FALSE)
    BY Zenon DEF RegenerateImageLocked, Edited
  <2>2. Edited(r, "pending", J, P) = new
    <3> HIDE DEF J, P, r
    <3> QED BY <1>2, EditedIs
  <2> QED BY <2>1, <2>2
<1>4. /\ IsRow(new) /\ new.status = "pending" /\ new.file = r.file /\ new.prev = P
  BY RowOfIs
<1>5. sound => Coherent(row)
  BY DEF PlaceInv, RowsCoherent
<1>6. sound /\ r.file = row.file /\ r.prev = row.prev => new.file = row.file /\ Coherent(new)
  <2> SUFFICES ASSUME sound, r.file = row.file, r.prev = row.prev
               PROVE  new.file = row.file /\ Coherent(new)
    OBVIOUS
  <2>1. GoodIn(P, {r.file} \ {NoFile})
    <3>1. CASE r.file = NoFile
      BY <3>1, NoneIsGood
    <3>2. CASE r.file # NoFile
      <4>1. P.status = r.status /\ P.file = r.file /\ P.prev = r.prev
        BY <3>2 DEF StateOf
      <4>2. r.status \in LiveStates /\ GoodIn(r.prev, {r.file} \ {NoFile})
        BY <1>2, <1>5 DEF IsLive, LiveStates, Coherent
      <4> HIDE DEF P
      <4> QED BY <3>2, <4>1, <4>2, GoodFolds
    <3> QED BY <3>1, <3>2
  <2> HIDE DEF new, P
  <2> QED BY <1>4, <2>1 DEF Coherent
<1>7. \A t \in Readers : seen'[t] \in {seen[t], Unread}
  BY <1>1
<1>8. new.status \in LiveStates
  BY <1>4 DEF LiveStates
<1> HIDE DEF new, r
<1> QED BY <1>1, <1>2, <1>3, <1>4, <1>6, <1>7, <1>8, OutsideWrite

LEMMA PlaceCancels ==
  ASSUME StoreInv, PlaceInv, CancelPending
  PROVE  PlaceInv'
<1> USE ShapeFacts
<1>1. UNCHANGED <<at, trash, txn, seen, shown, sound>> /\ row' = Purged /\ InFlight(row)
  BY DEF CancelPending
<1>2. SameKind
  BY <1>1 DEF SameKind, InFlight
<1>3. Coherent(row')
  BY <1>1, NoneIsGood DEF Coherent
<1> QED BY <1>1, <1>2, <1>3, OutsideStep

(* Under a coherent row a failure brings back the state of the picture     *)
(* that is still there.                                                    *)
LEMMA FailureKeepsFile ==
  ASSUME NEW r, IsRow(r), Coherent(r)
  PROVE  AfterFailure(r).file = r.file /\ Coherent(AfterFailure(r))
<1>1. CASE r.prev # NoPrev
  <2>1. AfterFailure(r) = ImageRow(r.prev.status, r.prev.file, NoJob, r.prev.prev, r.imported)
    <3>1. AfterFailure(r) = Restored(r, r.prev.status, r.prev.file, NoJob, r.prev.prev)
      BY <1>1, Zenon DEF AfterFailure, Restored
    <3> QED BY <3>1, RestoredIs
  <2>2. r.prev.file = r.file /\ GoodIn(r.prev.prev, {r.file} \ {NoFile})
    BY <1>1, GoodUnfolds DEF Coherent
  <2>3. AfterFailure(r).file = r.prev.file /\ AfterFailure(r).prev = r.prev.prev
    BY <2>1, RowOfIs
  <2> QED BY <2>2, <2>3 DEF Coherent
<1>2. CASE r.prev = NoPrev
  <2>1. AfterFailure(r) = ImageRow("failed", r.file, r.job, r.prev, r.imported)
    BY <1>2, StatusIs DEF AfterFailure
  <2>2. AfterFailure(r).file = r.file /\ AfterFailure(r).prev = r.prev
    BY <2>1, RowOfIs
  <2> QED BY <2>2 DEF Coherent
<1> QED BY <1>1, <1>2

LEMMA PlaceFails ==
  ASSUME StoreInv, PlaceInv, NEW j \in Jobs, AnswerFails(j)
  PROVE  PlaceInv'
<1> USE JobFacts, ShapeFacts
<1> DEFINE r == seen[j]
           new == AfterFailure(r)
<1>1. /\ UNCHANGED <<at, trash, txn>> /\ seen = [t \in Readers |-> seen[t]]
      /\ seen' = [seen EXCEPT ![j] = Unread] /\ Write(new, r, FALSE) /\ r # Unread
  BY DEF AnswerFails, StoreInv, StoreTyped
<1>2. r = Purged \/ KnownIn(r, shown)
  BY <1>1 DEF StoreInv, SeenKnown
<1>3. IsRow(r) /\ IsRow(new) /\ new.status \in LiveStates
  <2>1. NoFile \notin shown
    BY DEF StoreInv, StoreTyped
  <2> QED BY <1>2, <2>1, AfterFailureIs DEF KnownIn
<1>4. sound => Coherent(r)
  BY <1>1 DEF PlaceInv, RowsCoherent
<1>5. sound /\ r.file = row.file /\ r.prev = row.prev => new.file = row.file /\ Coherent(new)
  BY <1>3, <1>4, FailureKeepsFile
<1>6. \A t \in Readers : seen'[t] \in {seen[t], Unread}
  BY <1>1
<1> HIDE DEF new, r
<1> QED BY <1>1, <1>3, <1>5, <1>6, OutsideWrite

-----------------------------------------------------------------------------
(* Files move, and move back.                                              *)
SameTxn ==
  /\ txn # Idle /\ txn' # Idle /\ txn'.op = txn.op /\ txn'.moves = txn.moves
  /\ txn'.kept = txn.kept /\ txn'.new = txn.new /\ txn'.read = txn.read /\ txn'.uses = txn.uses
  /\ txn'.made = txn.made

(* A transaction turns back; nothing has moved.                            *)
LEMMA TurnStep ==
  ASSUME StoreInv, PlaceInv, UNCHANGED <<row, at, trash, seen, shown, sound>>, SameTxn,
         txn'.n = txn.n, txn.step = "move", txn'.step = "undo"
  PROVE  PlaceInv'
<1> SUFFICES ASSUME sound PROVE (RowsCoherent /\ VersionsLive /\ OneImage /\ Phase)'
  BY DEF PlaceInv
<1>0. RowsCoherent /\ VersionsLive /\ OneImage /\ Phase
  BY DEF PlaceInv
<1>1. Working' = Working
  BY DEF Working, SameTxn
<1>2. RowsCoherent' /\ VersionsLive' /\ OneImage'
  BY <1>0, <1>1 DEF RowsCoherent, VersionsLive, OneImage, IsVersion, IsImage, SameTxn
<1>3. \A i : Moved(i)' = Moved(i)
  BY DEF Moved, SameTxn
<1>4. \A e, from, to : Carries(e, from, to)' = Carries(e, from, to)
  BY <1>3 DEF Carries, Steps, SameTxn
<1>5. \A e : /\ IsImage(e)' = IsImage(e) /\ IsVersion(e)' = IsVersion(e) /\ Kept(e)' = Kept(e)
  BY DEF IsImage, IsVersion, Kept, AllIn
<1>6. \A e \in Entries : Deleting(e) => Deleting(e)'
  BY <1>4, <1>5 DEF Deleting, SameTxn
<1>7. \A e \in Entries : Restoring(e) => Restoring(e)'
  BY <1>4, <1>5 DEF Restoring, Held, SameTxn
<1>8. NoImage => NoImage'
  BY <1>5 DEF NoImage
<1>9. ASSUME NEW e \in Entries, Swapping(e) PROVE Swapping(e)'
  <2>1. SwapsIn => SwapsIn'
    BY <1>5 DEF SwapsIn, SameTxn
  <2>2. \A d \in Entries : SwapsOut(e, d) => SwapsOut(e, d)'
    BY <1>3, <1>5 DEF SwapsOut, SameTxn
  <2> QED BY <1>5, <1>8, <1>9, <2>1, <2>2 DEF Swapping, SameTxn
<1>10. Replacing => Replacing'
  BY <1>3, <1>5, <1>8 DEF Replacing, There, Held, SameTxn
<1>11. ~Resting /\ ~Finishing
  BY DEF Resting, Finishing, SameTxn
<1> QED BY <1>0, <1>1, <1>2, <1>6, <1>7, <1>9, <1>10, <1>11, Zenon DEF Phase

LEMMA KeptStays ==
  ASSUME NEW c \in Entries, NEW g, NEW x, at' = [at EXCEPT ![g] = x], trash' = trash, at[g] # c,
         Kept(c)
  PROVE  Kept(c)'
<1>1. \A f \in trash[c].files : at[f] = c /\ f # g
  BY DEF Kept, AllIn
<1>2. \A f \in trash[c].files : at'[f] = c
  BY <1>1
<1> QED BY <1>2 DEF Kept, AllIn, IsImage

(* One move is made, or unmade.                                            *)
MoveAt(i) ==
  /\ i \in Steps /\ txn.n \in {i - 1, i} /\ txn'.n \in {i - 1, i} /\ txn'.n # txn.n
  /\ at' = [at EXCEPT ![txn.moves[i].file] =
              IF txn'.n = i THEN txn.moves[i].to ELSE txn.moves[i].from]
  /\ at[txn.moves[i].file] = IF txn.n = i THEN txn.moves[i].to ELSE txn.moves[i].from

LEMMA ShiftStep ==
  ASSUME StoreInv, PlaceInv, UNCHANGED <<row, trash, seen, shown, sound>>, SameTxn,
         txn'.step = txn.step, txn.step \in {"move", "undo"}, NEW i, sound => MoveAt(i)
  PROVE  PlaceInv'
<1> SUFFICES ASSUME sound PROVE (RowsCoherent /\ VersionsLive /\ OneImage /\ Phase)'
  BY DEF PlaceInv
<1> USE JobFacts
<1> DEFINE g == txn.moves[i].file
<1>0. RowsCoherent /\ VersionsLive /\ OneImage /\ Phase
  BY DEF PlaceInv
<1>1. Working' = Working
  BY DEF Working, SameTxn
<1>2. RowsCoherent' /\ VersionsLive' /\ OneImage'
  BY <1>0, <1>1 DEF RowsCoherent, VersionsLive, OneImage, IsVersion, IsImage, SameTxn
<1>3. /\ i \in Steps /\ i \in Nat /\ txn.n \in Nat /\ txn'.n \in Nat /\ Steps = 1..Len(txn.moves)
      /\ Len(txn.moves) \in Nat
      /\ g \in Files /\ at \in [Files -> Places] /\ MoveAt(i)
  BY InTxn DEF SameTxn, MoveAt, Steps
<1>4. /\ \A f \in Files : f # g => at'[f] = at[f]
      /\ at'[g] = IF txn'.n = i THEN txn.moves[i].to ELSE txn.moves[i].from
      /\ at[g] = IF txn.n = i THEN txn.moves[i].to ELSE txn.moves[i].from
      /\ Moved(i)'
  BY <1>3 DEF MoveAt, Moved, SameTxn
<1>5. \A k \in Steps : /\ k # i => (k <= txn'.n <=> k <= txn.n)
                       /\ k # i /\ txn.moves[k].file # g => Moved(k)' = Moved(k)
  <2>1. \A k \in Steps : k # i => (k <= txn'.n <=> k <= txn.n)
    BY <1>3 DEF MoveAt
  <2>2. \A k \in Steps : txn.moves[k].file \in Files
    BY <1>3, InTxn DEF SameTxn
  <2> QED BY <1>4, <2>1, <2>2 DEF Moved, SameTxn
<1>6. \A e : /\ IsImage(e)' = IsImage(e) /\ IsVersion(e)' = IsVersion(e)
  BY DEF IsImage, IsVersion
<1>7. NoImage => NoImage'
  BY <1>6 DEF NoImage
<1>8. ASSUME NEW e, NEW from, NEW to, Carries(e, from, to) PROVE Carries(e, from, to)'
  <2>1. \A k \in Steps : Moved(k)'
    BY <1>3, <1>4, <1>5, <1>8 DEF Carries
  <2> QED BY <1>8, <2>1 DEF Carries, Steps, SameTxn
<1>9. row.file \in shown \cup {NoFile} /\ shown \subseteq Versions /\ Versions \subseteq Files
  BY RowKinds
<1>10. row.file # g => Held' = Held
  BY <1>4, <1>9 DEF Held
<1>11. \A c \in Entries : Kept(c) /\ at[g] # c => Kept(c)'
  BY <1>3, KeptStays DEF MoveAt
<1>12. \A e \in Entries : Deleting(e) => Deleting(e)'
  BY <1>6, <1>8 DEF Deleting, SameTxn
<1>13. ASSUME NEW e \in Entries, Restoring(e) PROVE Restoring(e)'
  <2>1. g \in trash[e].files
    BY <1>3, <1>13 DEF Restoring, Carries
  <2>2. row.file \in trash[e].files \/ Held'
    BY <1>10, <1>13, <2>1 DEF Restoring
  <2> QED BY <1>6, <1>8, <1>13, <2>2 DEF Restoring, SameTxn
<1>14. ASSUME NEW e \in Entries, Swapping(e) PROVE Swapping(e)'
  <2>1. \A c, d \in Entries : Kept(c) /\ IsVersion(d) => c # d
    BY DEF Kept, IsImage, IsVersion
  <2>2. CASE SwapsIn
    <3>1. i = 1 /\ g = txn.new.file /\ at[g] \in {e, Disk} /\ (txn'.n = 1 => at'[g] = Disk)
      BY <1>3, <1>4, <1>14, <2>2 DEF Swapping, SwapsIn
    <3>2. \A c \in Entries : Kept(c) => Kept(c)'
      BY <1>11, <1>14, <2>1, <3>1 DEF Swapping
    <3>3. SwapsIn'
      BY <2>2, <3>2 DEF SwapsIn, SameTxn
    <3> QED BY <1>6, <1>7, <1>14, <2>2, <3>1, <3>3 DEF Swapping, SwapsIn, SameTxn
  <2>3. ASSUME NEW d \in Entries, SwapsOut(e, d) PROVE Swapping(e)'
    <3>1. i \in {1, 2} /\ Len(txn.moves) = 2
      BY <1>3, <2>3 DEF SwapsOut
    <3>2. at[g] \in {e, d, Disk}
      BY <1>4, <1>14, <2>3, <3>1 DEF Swapping, SwapsOut
    <3>3. \A c \in Entries : Kept(c) => Kept(c)'
      BY <1>11, <1>14, <2>1, <2>3, <3>2 DEF Swapping, SwapsOut
    <3>4. Moved(1)' /\ (txn'.n = 2 => row.file # txn.new.file /\ at'[txn.new.file] = Disk)
      <4>1. CASE i = 1
        <5>1. txn'.n # 2
          BY <1>3, <4>1 DEF MoveAt
        <5> QED BY <1>4, <4>1, <5>1
      <4>2. CASE i = 2
        <5>1. g = txn.new.file /\ at'[g] = IF txn'.n = 2 THEN Disk ELSE e
          BY <1>4, <1>14, <3>1, <4>2 DEF Swapping
        <5>2. row.file # g
          <6>1. CASE txn.n = 2
            BY <2>3, <5>1, <6>1 DEF SwapsOut
          <6>2. CASE txn.n # 2
            <7>1. txn.n = 1 /\ at[g] = e
              BY <1>3, <1>4, <1>14, <3>1, <4>2, <6>2 DEF MoveAt, Swapping
            <7>2. at[row.file] = d /\ d # e
              BY <2>3, <7>1 DEF SwapsOut, Moved
            <7> QED BY <7>1, <7>2
          <6> QED BY <6>1, <6>2
        <5>3. 1 \in Steps /\ txn.moves[1].file = row.file
          BY <1>3, <2>3, <3>1 DEF SwapsOut
        <5>4. Moved(1)'
          BY <1>5, <2>3, <4>2, <5>2, <5>3 DEF SwapsOut
        <5> QED BY <5>1, <5>2, <5>4
      <4> QED BY <3>1, <4>1, <4>2
    <3>5. SwapsOut(e, d)'
      BY <1>6, <2>3, <3>3, <3>4 DEF SwapsOut, SameTxn
    <3>6. txn'.n = Len(txn.moves) => at'[txn.new.file] = Disk
      BY <3>1, <3>4
    <3> QED BY <1>6, <1>7, <1>14, <3>5, <3>6 DEF Swapping, SameTxn
  <2> QED BY <1>14, <2>2, <2>3 DEF Swapping
<1>15. ASSUME Replacing PROVE Replacing'
  <2>0. txn.new.file \notin shown /\ txn.new.file \in Versions
    BY <1>15 DEF StoreInv, TxnKnown, PlainTxn, ReplaceTxn, Replacing, SameTxn
  <2>1. i \in {1, 2} /\ Len(txn.moves) \in {1, 2}
    BY <1>3, <1>15 DEF Replacing
  <2>2. Moved(1)' /\ (Len(txn.moves) = 2 => Moved(2)')
    <3>1. Len(txn.moves) = 2 => txn.moves[2].file # txn.moves[1].file
      BY <1>15, <2>0 DEF Replacing
    <3>2. 1 \in Steps /\ (Len(txn.moves) = 2 => 2 \in Steps)
      <4>1. Len(txn.moves) = 1 \/ Len(txn.moves) = 2
        BY <2>1
      <4>2. 1 \in 1..1 /\ 1 \in 1..2 /\ 2 \in 1..2
        OBVIOUS
      <4> QED BY <4>1, <4>2 DEF Steps
    <3>3. Moved(1) /\ (Len(txn.moves) = 2 => Moved(2))
      BY <1>15 DEF Replacing
    <3>4. i = 2 => Len(txn.moves) = 2
      BY <1>3, <2>1
    <3> QED BY <1>4, <1>5, <2>1, <3>1, <3>2, <3>3, <3>4
  <2>3. There => There'
    <3>1. CASE i = 1
      <4>1. row.file # g
        BY <1>9, <1>15, <2>0, <3>1 DEF Replacing
      <4>2. txn.n # 2
        BY <1>3, <3>1 DEF MoveAt
      <4> QED BY <1>10, <4>1, <4>2 DEF There
    <3>2. CASE i = 2
      <4>1. Len(txn.moves) = 2 /\ txn.moves[2].from = Disk
        BY <1>3, <1>15, <2>1, <3>2 DEF Replacing
      <4>2. CASE row.file = g
        <5>1. txn'.n = 2 \/ at'[g] = Disk
          BY <1>3, <1>4, <3>2, <4>1 DEF MoveAt
        <5> QED BY <3>2, <4>2, <5>1 DEF There, Held, SameTxn
      <4>3. CASE row.file # g
        BY <1>10, <3>2, <4>3 DEF There
      <4> QED BY <4>2, <4>3
    <3> QED BY <2>1, <3>1, <3>2
  <2>4. ASSUME NEW c \in Entries, Kept(c) PROVE Kept(c)'
    <3>1. CASE i = 1
      <4>1. g = txn.new.file /\ g \notin shown /\ g # Original
        BY <1>15, <2>0, <3>1 DEF Replacing
      <4>2. trash[c].files \subseteq shown \cup {Original}
        BY <1>0, <2>4 DEF OneImage, Kept
      <4>3. \A f \in trash[c].files : f \in Files /\ f # g /\ at[f] = c
        BY <1>9, <2>4, <4>1, <4>2 DEF Kept, AllIn
      <4> QED BY <1>4, <1>6, <2>4, <4>3 DEF Kept, AllIn
    <3>2. CASE i = 2
      <4>1. PICK d \in Entries : IsVersion(d) /\ txn.moves[2].to = d /\ txn.moves[2].from = Disk
        BY <1>3, <1>15, <2>1, <3>2 DEF Replacing
      <4>2. c # d
        BY <2>4, <4>1 DEF Kept, IsImage, IsVersion
      <4>3. at[g] # c
        BY <1>4, <3>2, <4>1, <4>2
      <4> QED BY <1>11, <2>4, <4>3
    <3> QED BY <2>1, <3>1, <3>2
  <2>5. row.status = "trashed" =>
           \E e \in Entries : Kept(e)' /\ (row.file \in trash[e].files \/ There')
    BY <1>15, <2>3, <2>4 DEF Replacing
  <2> QED BY <1>6, <1>7, <1>15, <2>2, <2>3, <2>5 DEF Replacing, SameTxn
<1>16. ~Resting /\ ~Finishing
  BY DEF Resting, Finishing, SameTxn
<1> QED BY <1>0, <1>1, <1>2, <1>12, <1>13, <1>14, <1>15, <1>16, Zenon DEF Phase

LEMMA TxnStays ==
  ASSUME StoreInv, txn # Idle, NEW step, NEW n, NEW onward,
         txn' = TxnOf(txn.op, step, txn.moves, n, txn.kept, onward, txn.new, txn.read, txn.uses,
                      txn.made)
  PROVE  SameTxn /\ txn'.step = step /\ txn'.n = n
<1>1. /\ txn' # Idle /\ txn'.op = txn.op /\ txn'.step = step /\ txn'.moves = txn.moves
      /\ txn'.n = n /\ txn'.kept = txn.kept /\ txn'.new = txn.new /\ txn'.read = txn.read
      /\ txn'.uses = txn.uses /\ txn'.made = txn.made
  BY TxnFields
<1> QED BY <1>1 DEF SameTxn

LEMMA PlaceMoves ==
  ASSUME StoreInv, PlaceInv, MoveFile
  PROVE  PlaceInv'
<1> DEFINE i == txn.n + 1
<1>1. /\ UNCHANGED <<row, trash, seen, shown, sound>> /\ txn # Idle /\ txn.step = "move"
      /\ at' = [at EXCEPT ![txn.moves[i].file] = txn.moves[i].to]
      /\ at[txn.moves[i].file] = txn.moves[i].from /\ txn.n < Len(txn.moves)
  BY DEF MoveFile, Moving, Apply, NextMove
<1>2. txn' = TxnOf(txn.op, txn.step, txn.moves, i, txn.kept, txn.onward, txn.new, txn.read,
                   txn.uses, txn.made)
  <2>1. txn' = Advanced(txn, i)
    BY Zenon DEF MoveFile, Advanced
  <2> QED BY <1>1, <2>1, InTxn, AdvancedIs
<1>3. SameTxn /\ txn'.step = txn.step /\ txn'.n = i
  <2> HIDE DEF i
  <2> QED BY <1>1, <1>2, TxnStays
<1>4. i \in Steps /\ txn.n = i - 1 /\ txn.n # i
  BY <1>1, InTxn DEF Steps
<1> HIDE DEF i
<1>5. MoveAt(i)
  BY <1>1, <1>3, <1>4 DEF MoveAt
<1> QED BY <1>1, <1>3, <1>5, ShiftStep

LEMMA PlaceUndoes ==
  ASSUME StoreInv, PlaceInv, UndoMove
  PROVE  PlaceInv'
<1> DEFINE i == txn.n
           n == i - 1
<1>1. /\ UNCHANGED <<row, trash, seen, shown, sound>> /\ txn # Idle /\ txn.step = "undo"
      /\ at' = [at EXCEPT ![txn.moves[i].file] = txn.moves[i].from] /\ i > 0
  BY DEF UndoMove, Revert
<1>2. txn' = TxnOf(txn.op, txn.step, txn.moves, n, txn.kept, txn.onward, txn.new, txn.read,
                   txn.uses, txn.made)
  <2>1. txn' = Advanced(txn, n)
    BY Zenon DEF UndoMove, Advanced
  <2> QED BY <1>1, <2>1, InTxn, AdvancedIs
<1>3. SameTxn /\ txn'.step = txn.step /\ txn'.n = n
  <2> HIDE DEF n
  <2> QED BY <1>1, <1>2, TxnStays
<1>4. i \in Steps /\ n # i /\ i \in Nat /\ Len(txn.moves) \in Nat
  BY <1>1, InTxn DEF Steps
<1>5. ASSUME sound PROVE at[txn.moves[i].file] = txn.moves[i].to
  <2>1. Phase /\ ~Resting /\ ~Finishing
    BY <1>1, <1>5 DEF PlaceInv, Resting, Finishing
  <2>2. ASSUME NEW e, NEW from, NEW to, Carries(e, from, to)
        PROVE  at[txn.moves[i].file] = txn.moves[i].to
    BY <1>4, <2>2 DEF Carries, Moved
  <2>3. ASSUME NEW e \in Entries, Swapping(e) PROVE at[txn.moves[i].file] = txn.moves[i].to
    <3>1. CASE i = Len(txn.moves)
      BY <2>3, <3>1 DEF Swapping
    <3>2. CASE i # Len(txn.moves)
      <4>1. i = 1 /\ Moved(1)
        BY <1>4, <2>3, <3>2 DEF Swapping, SwapsIn, SwapsOut, Steps
      <4> QED BY <4>1 DEF Moved
    <3> QED BY <3>1, <3>2
  <2>4. ASSUME Replacing PROVE at[txn.moves[i].file] = txn.moves[i].to
    <3>1. (i = 1 \/ i = 2) /\ (i = 2 => Len(txn.moves) = 2)
      <4>1. Len(txn.moves) = 1 \/ Len(txn.moves) = 2
        BY <2>4 DEF Replacing
      <4>2. i \in 1..Len(txn.moves)
        BY <1>4 DEF Steps
      <4> HIDE DEF i
      <4>3. \A L \in {1, 2} : i \in 1..L => i = 1 \/ (i = 2 /\ L = 2)
        BY <1>4
      <4> QED BY <4>1, <4>2, <4>3
    <3> QED BY <2>4, <3>1 DEF Replacing, Moved
  <2> QED BY <2>1, <2>2, <2>3, <2>4 DEF Phase, Deleting, Restoring
<1>6. sound => MoveAt(i)
  BY <1>1, <1>3, <1>4, <1>5 DEF MoveAt
<1> HIDE DEF i, n
<1> QED BY <1>1, <1>3, <1>6, ShiftStep

LEMMA PlaceTurns ==
  ASSUME StoreInv, PlaceInv, MoveMissing \/ MoveFails \/ CommitFails
  PROVE  PlaceInv'
<1>1. /\ UNCHANGED <<row, at, trash, seen, shown>> /\ txn # Idle /\ txn.step = "move"
      /\ GiveUp \/ (txn' = [txn EXCEPT !.step = "undo"] /\ sound' = sound)
  BY Zenon DEF MoveMissing, MoveFails, CommitFails, Moving
<1>2. CASE txn' = [txn EXCEPT !.step = "undo"] /\ sound' = sound
  <2>1. txn' = Stepped(txn, "undo")
    BY <1>2 DEF Stepped
  <2>2. txn' = TxnOf(txn.op, "undo", txn.moves, txn.n, txn.kept, txn.onward, txn.new, txn.read,
                     txn.uses, txn.made)
    BY <1>1, <2>1, InTxn, SteppedIs
  <2>3. SameTxn /\ txn'.step = "undo" /\ txn'.n = txn.n
    BY <1>1, <2>2, TxnStays
  <2> QED BY <1>1, <1>2, <2>3, TurnStep
<1>3. CASE GiveUp
  <2>1. CASE txn.op = "swap" /\ txn.n = 1
    BY <1>3, <2>1 DEF GiveUp, PlaceInv
  <2>2. CASE ~(txn.op = "swap" /\ txn.n = 1)
    <3> DEFINE o == TRUE
    <3>1. txn' = GivenUp(txn, "undo", o) /\ sound' = sound
      BY <1>3, <2>2, Zenon DEF GiveUp, GivenUp
    <3> HIDE DEF o
    <3>2. txn' = TxnOf(txn.op, "undo", txn.moves, txn.n, txn.kept, o, txn.new, txn.read,
                       txn.uses, txn.made)
      BY <1>1, <3>1, InTxn, GivenUpIs
    <3>3. SameTxn /\ txn'.step = "undo" /\ txn'.n = txn.n
      BY <1>1, <3>2, TxnStays
    <3> QED BY <1>1, <3>1, <3>3, TurnStep
  <2> QED BY <2>1, <2>2
<1> QED BY <1>1, <1>2, <1>3

-----------------------------------------------------------------------------
(* The row is committed.                                                   *)
LEMMA PlaceCommits ==
  ASSUME StoreInv, PlaceInv, CommitRow
  PROVE  PlaceInv'
<1> SUFFICES ASSUME sound' PROVE (RowsCoherent /\ VersionsLive /\ OneImage /\ Phase)'
  BY DEF PlaceInv
<1> USE JobFacts, ShapeFacts
<1> DEFINE new == txn.new
           read == txn.read
           back == txn.op = "restore" /\ ~InFlight(txn.new)
<1>1. /\ UNCHANGED <<at, trash, seen>> /\ txn # Idle /\ txn.step = "move"
      /\ txn.n = Len(txn.moves) /\ Write(new, read, back)
  BY DEF CommitRow, Moving
<1>2. IsRow(new) /\ IsRow(read) /\ IsRow(row)
  BY <1>1, RowKinds DEF StoreInv, TxnKnown, KnownIn
<1>3. /\ sound
      /\ ~Exists(row) => row' = row
      /\ Exists(row) =>
           /\ read.file = row.file /\ read.prev = row.prev
           /\ row'.file = new.file /\ row'.prev = new.prev
           /\ row'.status = IF new.status = read.status THEN row.status ELSE new.status
           /\ row.status = "trashed" => back \/ row'.status = "trashed"
  <2> HIDE DEF new, read, back
  <2> QED BY <1>1, <1>2, SoundWrite
<1>4. /\ SameTxn /\ txn'.step = "finish" /\ txn'.n = txn.n
  <2>1. txn' = Stepped(txn, "finish")
    BY Zenon DEF CommitRow, RowDone, Stepped
  <2>2. txn' = TxnOf(txn.op, "finish", txn.moves, txn.n, txn.kept, txn.onward, txn.new, txn.read,
                     txn.uses, txn.made)
    BY <1>1, <2>1, InTxn, SteppedIs
  <2> QED BY <1>1, <2>2, TxnStays
<1>5. RowsCoherent /\ VersionsLive /\ OneImage /\ Phase /\ ~Resting /\ ~Finishing
  BY <1>1, <1>3 DEF PlaceInv, Resting, Finishing
<1>6. /\ \/ IsLive(row) /\ Exists(row) /\ row.status # "trashed"
         \/ ~IsLive(row) /\ Exists(row) /\ row.status = "trashed"
         \/ ~IsLive(row) /\ ~Exists(row) /\ row.status # "trashed"
      /\ row.status \in LiveStates <=> IsLive(row)
  BY RowKinds
<1>7. \A e : /\ IsImage(e)' = IsImage(e) /\ IsVersion(e)' = IsVersion(e) /\ Kept(e)' = Kept(e)
  BY <1>1 DEF IsImage, IsVersion, Kept, AllIn
<1>8. shown \subseteq shown'
  BY <1>1 DEF Write
<1>9. OneImage'
  BY <1>1, <1>5, <1>7, <1>8 DEF OneImage
<1> DEFINE Done == /\ Coherent(row') /\ Settled'
                   /\ \A e \in Entries : IsImage(e) => /\ IsLive(row') => e \in txn.uses
                                                       /\ row'.status = "trashed" => e \notin txn.uses
                   /\ txn.op = "swap" => row.status # "trashed"
<1> HIDE DEF new, read, back
<1>11. ASSUME NEW e \in Entries, Deleting(e), Exists(row) PROVE Done
  <2>1. row'.file = row.file /\ row'.prev = row.prev /\ row'.status = "trashed" /\ ~IsLive(row')
    BY <1>3, <1>11 DEF Deleting, new, read, IsLive
  <2>2. Coherent(row')
    BY <1>5, <2>1 DEF RowsCoherent, Coherent
  <2>3. Kept(e)
    <3>1. \A i \in Steps : at[txn.moves[i].file] = e
      BY <1>1, <1>11, InTxn DEF Deleting, Carries, Moved, Steps
    <3> QED BY <1>11, <3>1 DEF Deleting, Carries, Kept, AllIn
  <2>4. row.file \in trash[e].files \/ row.file = NoFile
    BY <1>6, <1>11 DEF Deleting
  <2>5. Covers(e)'
    BY <1>1, <1>7, <2>1, <2>3, <2>4 DEF Covers, Held
  <2> QED BY <1>11, <2>1, <2>2, <2>5 DEF Deleting, Settled
<1>12. ASSUME NEW e \in Entries, Restoring(e), Exists(row) PROVE Done
  <2>1. /\ row'.file = row.file /\ row'.prev = row.prev /\ row'.status \in LiveStates
        /\ row'.status # "trashed"
    BY <1>3, <1>12 DEF Restoring, new, read, LiveStates
  <2>2. Coherent(row')
    BY <1>5, <2>1 DEF RowsCoherent, Coherent
  <2>3. \A f \in trash[e].files : at[f] = Disk
    <3>1. \A i \in Steps : at[txn.moves[i].file] = Disk
      <4>1. \A i \in Steps : Moved(i) /\ txn.moves[i].to = Disk
        BY <1>12 DEF Restoring, Carries
      <4>2. \A i \in Steps : i <= txn.n
        BY <1>1, InTxn DEF Steps
      <4> QED BY <4>1, <4>2 DEF Moved
    <3> QED BY <1>12, <3>1 DEF Restoring, Carries
  <2>4. Held'
    BY <1>1, <1>12, <2>1, <2>3 DEF Restoring, Held
  <2>5. \A c \in Entries : IsImage(c) => c \in txn.uses
    BY <1>5, <1>12 DEF Restoring, OneImage
  <2> QED BY <1>12, <2>1, <2>2, <2>4, <2>5 DEF Restoring, Settled
<1>13. ASSUME NEW e \in Entries, Swapping(e), Exists(row) PROVE Done
  <2>1. row'.file = new.file /\ row'.prev = new.prev /\ at[new.file] = Disk
    BY <1>1, <1>3, <1>13 DEF Swapping, new
  <2>2. Coherent(row')
    BY <1>13, <2>1 DEF Swapping, Coherent, new
  <2>3. row.status # "trashed"
    <3> SUFFICES ASSUME row.status = "trashed" PROVE FALSE
      OBVIOUS
    <3>1. ~back
      BY <1>13 DEF back, Swapping
    <3>2. read.status = "trashed" /\ new.status # "trashed"
      BY <1>13 DEF Swapping, new, read, LiveStates
    <3> QED BY <1>3, <1>13, <3>1, <3>2
  <2>4. row'.status \in LiveStates /\ IsLive(row)
    BY <1>3, <1>6, <1>13, <2>3 DEF Swapping, new
  <2>5. NoImage /\ row'.status # "trashed"
    BY <1>13, <2>4 DEF Swapping, LiveStates
  <2>6. Held'
    BY <1>1, <2>1 DEF Held
  <2> QED BY <2>2, <2>3, <2>5, <2>6 DEF NoImage, Settled
<1>14. ASSUME Replacing, Exists(row) PROVE Done
  <2>1. row'.file = new.file /\ row'.prev = NoPrev
    BY <1>3, <1>14 DEF Replacing, new
  <2>2. Coherent(row')
    BY <2>1, NoneIsGood DEF Coherent
  <2>3. at[new.file] = Disk
    <3>1. 1 <= txn.n
      BY <1>1, <1>14 DEF Replacing
    <3> QED BY <1>14, <3>1 DEF Replacing, Moved, new
  <2>4. Held'
    BY <1>1, <2>1, <2>3 DEF Held
  <2>5. CASE IsLive(row)
    <3>1. row'.status \in LiveStates
      BY <1>3, <1>6, <1>14, <2>5 DEF Replacing, new, LiveStates
    <3> QED BY <1>6, <1>14, <2>2, <2>4, <2>5, <3>1 DEF Replacing, NoImage, Settled, LiveStates
  <2>6. CASE row.status = "trashed"
    <3>1. ~back
      BY <1>14 DEF back, Replacing
    <3>2. row'.status = "trashed" /\ ~IsLive(row')
      BY <1>3, <1>14, <2>6, <3>1 DEF IsLive
    <3>3. PICK c \in Entries : Kept(c)
      BY <1>14, <2>6 DEF Replacing
    <3>4. Covers(c)'
      BY <1>7, <2>4, <3>3 DEF Covers
    <3> QED BY <1>14, <2>2, <3>2, <3>4 DEF Replacing, Settled
  <2> QED BY <1>6, <1>14, <2>5, <2>6
<1>15. Done \/ ~Exists(row)
  BY <1>5, <1>11, <1>12, <1>13, <1>14 DEF Phase
<1>16. /\ Coherent(row') /\ Settled'
       /\ \A e \in Entries : IsImage(e) => /\ IsLive(row') => e \in txn.uses
                                           /\ row'.status = "trashed" => e \notin txn.uses
       /\ txn.op = "swap" /\ row.status = "trashed" => FALSE
  <2>1. CASE ~Exists(row)
    <3>1. Coherent(row') /\ Settled' /\ ~IsLive(row') /\ row'.status # "trashed"
      BY <1>3, <1>5, <1>6, <2>1 DEF RowsCoherent, Settled
    <3> QED BY <1>6, <2>1, <3>1
  <2> QED BY <1>15, <2>1
<1>17. RowsCoherent'
  BY <1>1, <1>5, <1>7, <1>16 DEF RowsCoherent
<1>18. VersionsLive'
  BY <1>1, <1>5, <1>7, <1>16 DEF VersionsLive
<1>19. Finishing'
  BY <1>4, <1>7, <1>16 DEF Finishing, SameTxn
<1> QED BY <1>9, <1>17, <1>18, <1>19 DEF Phase

-----------------------------------------------------------------------------
(* A transaction ends.                                                     *)
LEMMA RestStep ==
  ASSUME PlaceInv, UNCHANGED <<row, at, seen, shown, sound>>, txn' = Idle,
         \A e \in Entries : trash'[e] = trash[e] \/ trash'[e].kind \notin {"image", "version"},
         sound /\ IsLive(row) => Held /\ \A e \in Entries : trash'[e].kind # "image",
         sound /\ row.status = "trashed" => \E e \in Entries : Covers(e) /\ trash'[e] = trash[e],
         sound => \A e \in Entries : IsVersion(e) /\ trash'[e] = trash[e] =>
                                       trash[e].state.status \in LiveStates
  PROVE  PlaceInv'
<1> SUFFICES ASSUME sound PROVE (RowsCoherent /\ VersionsLive /\ OneImage /\ Phase)'
  BY DEF PlaceInv
<1>1. RowsCoherent /\ OneImage
  BY DEF PlaceInv
<1>2. \A e \in Entries : /\ IsImage(e)' => IsImage(e) /\ trash'[e] = trash[e]
                         /\ IsVersion(e)' => IsVersion(e) /\ trash'[e] = trash[e]
  BY DEF IsImage, IsVersion
<1>3. RowsCoherent' /\ OneImage' /\ VersionsLive'
  BY <1>1, <1>2 DEF RowsCoherent, OneImage, VersionsLive
<1>4. \A e \in Entries : Covers(e) /\ trash'[e] = trash[e] => Covers(e)'
  BY DEF Covers, Kept, AllIn, IsImage, Held
<1>5. Resting'
  BY <1>4 DEF Resting, Settled, NoImage, IsImage, Held
<1> QED BY <1>3, <1>5 DEF Phase

LEMMA PlaceUndone ==
  ASSUME StoreInv, PlaceInv, Undone
  PROVE  PlaceInv'
<1> USE JobFacts, ShapeFacts
<1>1. /\ UNCHANGED <<row, at, seen, shown, sound>> /\ txn' = Idle /\ txn # Idle
      /\ txn.step = "undo" /\ txn.n = 0
      /\ trash' = [e \in Entries |-> IF e \in txn.made /\ ~txn.kept THEN NoEntry ELSE trash[e]]
  BY DEF Undone
<1>2. \A e \in Entries : trash'[e] = trash[e] \/ trash'[e] = NoEntry
  BY <1>1
<1>3. \A e \in Entries : trash'[e] = trash[e] \/ trash'[e].kind \notin {"image", "version"}
  BY <1>2
<1> DEFINE Ends == /\ IsLive(row) => Held /\ \A e \in Entries : trash'[e].kind # "image"
                   /\ row.status = "trashed" => \E e \in Entries : Covers(e) /\ trash'[e] = trash[e]
                   /\ \A e \in Entries : IsVersion(e) /\ trash'[e] = trash[e] =>
                                       trash[e].state.status \in LiveStates
<1>4. ASSUME sound PROVE Ends
  <2>1. RowsCoherent /\ VersionsLive /\ OneImage /\ Phase /\ Working
    BY <1>1, <1>4 DEF PlaceInv, Phase, Resting, Finishing
  <2>2. \A e \in Entries : trash'[e] = IF e \in txn.made THEN NoEntry ELSE trash[e]
    BY <1>1, <2>1 DEF Working
  <2>3. \A e \in Entries : IsVersion(e) /\ trash'[e] = trash[e] =>
                                       trash[e].state.status \in LiveStates
    BY <2>1, <2>2 DEF VersionsLive, IsVersion
  <2>4. ASSUME NEW i \in Steps, Moved(i) PROVE at[txn.moves[i].file] = txn.moves[i].from
    <3>1. ~(i <= txn.n)
      BY <1>1 DEF Steps
    <3> QED BY <2>4, <3>1 DEF Moved
  <2>5. \A e \in Entries : ~IsImage(e) => trash'[e].kind # "image"
    BY <2>2 DEF IsImage
  <2>6. ASSUME NEW e \in Entries, Deleting(e) PROVE Ends
    <3>1. \A f \in trash[e].files : at[f] = Disk
      BY <2>4, <2>6 DEF Deleting, Carries
    <3>2. \A c \in Entries : trash'[c].kind # "image"
      <4>1. \A c \in Entries : IsImage(c) => c = e
        BY <2>1, <2>6 DEF OneImage, Deleting
      <4> QED BY <2>2, <2>5, <2>6, <4>1 DEF Deleting
    <3> QED BY <2>3, <2>6, <3>1, <3>2 DEF Deleting, Held
  <2>7. ASSUME NEW e \in Entries, Restoring(e) PROVE Ends
    <3>1. Kept(e)
      BY <2>4, <2>7 DEF Restoring, Carries, Kept, AllIn
    <3>2. Covers(e) /\ trash'[e] = trash[e]
      BY <2>2, <2>7, <3>1 DEF Restoring, Covers
    <3>3. ~IsLive(row)
      BY <2>7 DEF Restoring, IsLive
    <3> QED BY <2>3, <3>2, <3>3
  <2>8. ASSUME NEW e \in Entries, Swapping(e) PROVE Ends
    <3>1. IsLive(row) => \A c \in Entries : trash'[c].kind # "image"
      BY <2>5, <2>8 DEF Swapping, NoImage
    <3>2. CASE SwapsIn
      <4>1. row.status = "trashed" => \E c \in Entries : Covers(c) /\ trash'[c] = trash[c]
        BY <2>2, <3>2 DEF SwapsIn, Covers, Held
      <4> QED BY <2>3, <3>1, <3>2, <4>1 DEF SwapsIn, Held
    <3>3. ASSUME NEW d \in Entries, SwapsOut(e, d) PROVE Ends
      <4>1. 1 \in Steps
        BY <3>3 DEF SwapsOut, Steps
      <4>2. Held
        BY <2>4, <3>3, <4>1 DEF SwapsOut, Held
      <4>3. \A c \in Entries : Kept(c) => c # d
        BY <3>3 DEF SwapsOut, Kept, IsImage, IsVersion
      <4>4. \A c \in Entries : Kept(c) => Covers(c) /\ trash'[c] = trash[c]
        BY <2>2, <3>3, <4>2, <4>3 DEF SwapsOut, Covers
      <4> QED BY <2>3, <3>1, <3>3, <4>2, <4>4 DEF SwapsOut
    <3> QED BY <2>8, <3>2, <3>3 DEF Swapping
  <2>9. ASSUME Replacing PROVE Ends
    <3>1. There => Held
      BY <1>1 DEF There
    <3>2. IsLive(row) => \A c \in Entries : trash'[c].kind # "image"
      BY <2>5, <2>9 DEF Replacing, NoImage
    <3>3. \A c \in Entries : Kept(c) => trash'[c] = trash[c]
      <4>1. \A c \in Entries : Kept(c) => c \notin txn.made
        BY <2>9 DEF Replacing, Kept, IsImage, IsVersion
      <4> QED BY <2>2, <4>1
    <3> QED BY <2>3, <2>9, <3>1, <3>2, <3>3 DEF Replacing, Covers
  <2> QED BY <1>1, <2>1, <2>6, <2>7, <2>8, <2>9 DEF Phase, Resting, Finishing
<1> QED BY <1>1, <1>3, <1>4, RestStep

LEMMA PlaceFinishes ==
  ASSUME StoreInv, PlaceInv, Finish
  PROVE  PlaceInv'
<1> USE JobFacts, ShapeFacts
<1>1. /\ UNCHANGED <<row, at, seen, shown, sound>> /\ txn' = Idle /\ txn # Idle
      /\ txn.step = "finish"
  BY DEF Finish
<1>2. /\ \A e \in Entries : EntryKnown(trash[e], shown)
      /\ \A e \in Entries : e \in txn.uses => trash[e] # NoEntry
  BY <1>1 DEF StoreInv, TrashKnown, TxnKnown
<1>3. \A e \in Entries : IF e \in txn.uses THEN trash'[e].kind \notin {"image", "version"}
                                           ELSE trash'[e] = trash[e]
  <2>1. CASE trash' = [e \in Entries |-> IF e \in txn.uses THEN NoEntry ELSE trash[e]]
    BY <2>1
  <2>2. CASE trash' = [e \in Entries |->
                        IF e \in txn.uses
                        THEN [trash[e] EXCEPT !.files = {}, !.kind = "used", !.ok = FALSE]
                        ELSE trash[e]]
    <3> DEFINE o == FALSE
    <3>1. trash' = [e \in Entries |-> IF e \in txn.uses THEN UsedUp(trash[e], o) ELSE trash[e]]
      BY <2>2, Zenon DEF UsedUp
    <3> HIDE DEF o
    <3>2. ASSUME NEW e \in Entries, e \in txn.uses PROVE UsedUp(trash[e], o).kind = "used"
      <4>1. IsEntry(trash[e])
        BY <1>2, <3>2 DEF EntryKnown
      <4>2. UsedUp(trash[e], o) = EntryOf("used", {}, trash[e].state, o)
        BY <4>1, UsedUpIs
      <4> QED BY <4>2, EntryOfIs
    <3> QED BY <3>1, <3>2
  <2> QED BY <2>1, <2>2 DEF Finish
<1>4. ASSUME sound PROVE Finishing /\ VersionsLive
  BY <1>1, <1>4 DEF PlaceInv, Phase, Resting, Working
<1>5. sound /\ IsLive(row) => Held /\ \A e \in Entries : trash'[e].kind # "image"
  BY <1>3, <1>4 DEF Finishing, Settled, IsImage
<1>6. sound /\ row.status = "trashed" => \E e \in Entries : Covers(e) /\ trash'[e] = trash[e]
  BY <1>3, <1>4 DEF Finishing, Settled, Covers, Kept
<1>7. sound => \A e \in Entries : IsVersion(e) => trash[e].state.status \in LiveStates
  BY <1>1, <1>4 DEF VersionsLive, Working
<1> QED BY <1>1, <1>3, <1>5, <1>6, <1>7, RestStep

-----------------------------------------------------------------------------
(* Empty Trash, and the death of the server.                               *)
LEMMA PlaceEmptied ==
  ASSUME StoreInv, PlaceInv, txn = Idle, UNCHANGED <<txn, seen, shown>>, sound' => sound,
         NEW e \in Entries, ~Refuses(e), row' = IF Purges(e) THEN Purged ELSE row,
         \A c \in Entries : c # e => trash'[c] = trash[c],
         trash'[e].kind \notin {"image", "version"},
         \A f \in Files : at'[f] = at[f] \/ at[f] = e
  PROVE  PlaceInv'
<1> SUFFICES ASSUME sound' PROVE (RowsCoherent /\ VersionsLive /\ OneImage /\ Phase)'
  BY DEF PlaceInv
<1> USE JobFacts, ShapeFacts
<1>1. RowsCoherent /\ VersionsLive /\ OneImage /\ Resting
  BY DEF PlaceInv, Phase, Working, Finishing
<1>2. \A c \in Entries : /\ IsImage(c)' => IsImage(c) /\ c # e /\ trash'[c] = trash[c]
                         /\ IsVersion(c)' => IsVersion(c) /\ c # e /\ trash'[c] = trash[c]
  BY DEF IsImage, IsVersion
<1>3. Coherent(row')
  <2>1. Coherent(Purged)
    BY NoneIsGood DEF Coherent
  <2> QED BY <1>1, <2>1 DEF RowsCoherent
<1>4. RowsCoherent' /\ OneImage'
  BY <1>1, <1>2, <1>3 DEF RowsCoherent, OneImage
<1>5. VersionsLive'
  BY <1>1, <1>2 DEF VersionsLive, Working
<1>6. row.file \in shown \cup {NoFile} /\ shown \subseteq Versions /\ Versions \subseteq Files
  BY RowKinds
<1>7. CASE row' # row \/ ~Exists(row)
  <2>1. ~IsLive(row') /\ row'.status # "trashed"
    BY <1>7 DEF IsLive, Exists
  <2> QED BY <1>1, <1>4, <1>5, <2>1 DEF Phase, Resting, Settled
<1>8. CASE row' = row /\ Exists(row)
  <2>1. ~IsImage(e)
    <3>1. IsLive(row) => ~IsImage(e)
      BY <1>1 DEF Resting, NoImage
    <3>2. row.status = "trashed" => ~IsImage(e)
      BY <1>8 DEF Purges, IsImage
    <3> QED BY <1>8, <3>1, <3>2, RowKinds
  <2>2. Held => Held'
    <3>1. at[row.file] = Disk => row.file = NoFile \/ at'[row.file] = Disk
      BY <1>6
    <3> QED BY <1>8, <3>1 DEF Held
  <2>3. ASSUME NEW c \in Entries, Covers(c) PROVE Covers(c)'
    <3>1. c # e /\ trash'[c] = trash[c] /\ EntryKnown(trash[c], shown)
      BY <2>1, <2>3 DEF Covers, Kept, StoreInv, TrashKnown
    <3>2. trash[c].files \subseteq Files
      BY <2>3, <3>1 DEF EntryKnown, Covers, Kept, IsImage
    <3>3. Kept(c)'
      BY <2>3, <3>1, <3>2 DEF Covers, Kept, AllIn, IsImage
    <3> QED BY <1>8, <2>2, <2>3, <3>1, <3>3 DEF Covers
  <2>4. IsLive(row) => NoImage'
    BY <1>1, <1>2 DEF Resting, NoImage
  <2>5. Resting'
    BY <1>1, <1>8, <2>2, <2>3, <2>4 DEF Resting, Settled
  <2> QED BY <1>4, <1>5, <2>5 DEF Phase
<1> QED BY <1>7, <1>8

LEMMA PlaceEmpties ==
  ASSUME StoreInv, PlaceInv, NEW e \in Entries, EmptyEntry(e) \/ EmptyRefused(e) \/ EmptyFails(e)
  PROVE  PlaceInv'
<1> USE JobFacts, ShapeFacts
<1> SUFFICES ASSUME sound' PROVE PlaceInv'
  BY DEF PlaceInv
<1>0. /\ trash = [c \in Entries |-> trash[c]] /\ \A c \in Entries : EntryKnown(trash[c], shown)
      /\ at \in [Files -> Places] /\ trash[e] # NoEntry
  BY DEF StoreInv, StoreTyped, TrashKnown, EmptyEntry, EmptyRefused, EmptyFails
<1>1. ASSUME trash' = Marked(e)
      PROVE  /\ \A c \in Entries : c # e => trash'[c] = trash[c]
             /\ trash'[e].kind \notin {"image", "version"}
  <2> DEFINE o == FALSE
             t == Tombstone(trash[e], o)
  <2>1. trash' = [trash EXCEPT ![e] = t]
    BY <1>1, Zenon DEF Marked, Tombstone
  <2>2. IsEntry(trash[e])
    BY <1>0 DEF EntryKnown
  <2> HIDE DEF o
  <2>3. t.kind = "purged"
    BY <2>2, TombstoneIs, EntryOfIs
  <2> HIDE DEF t
  <2> QED BY <1>0, <2>1, <2>3
<1>2. CASE EmptyEntry(e)
  <2>1. /\ txn = Idle /\ UNCHANGED <<txn, seen, shown, sound>> /\ ~Refuses(e)
        /\ row' = IF Purges(e) THEN Purged ELSE row
        /\ at' = [f \in Files |-> IF at[f] = e THEN Emptied ELSE at[f]]
        /\ trash' = [trash EXCEPT ![e] = NoEntry]
    BY <1>2 DEF EmptyEntry
  <2>2. /\ \A c \in Entries : c # e => trash'[c] = trash[c]
        /\ trash'[e].kind \notin {"image", "version"}
        /\ \A f \in Files : at'[f] = at[f] \/ at[f] = e
    BY <1>0, <2>1
  <2> QED BY <2>1, <2>2, PlaceEmptied
<1>3. CASE EmptyRefused(e)
  <2>1. /\ txn = Idle /\ UNCHANGED <<row, at, txn, seen, shown, sound>> /\ Refuses(e)
    BY <1>3 DEF EmptyRefused
  <2>2. Resting
    BY <2>1 DEF PlaceInv, Phase, Working, Finishing
  <2>3. IsLive(row) /\ IsImage(e)
    BY <2>1, RowKinds DEF Refuses, IsImage
  <2> QED BY <2>2, <2>3 DEF Resting, NoImage
<1>4. CASE EmptyFails(e)
  <2>1. /\ txn = Idle /\ UNCHANGED <<txn, seen, shown>> /\ ~Refuses(e) /\ trash' = Marked(e)
    BY <1>4, Zenon DEF EmptyFails
  <2>2. /\ row' = IF Purges(e) THEN Purged ELSE row
        /\ sound' = sound
        /\ \E gone \in SUBSET {f \in Files : at[f] = e} :
             at' = [f \in Files |-> IF f \in gone THEN Emptied ELSE at[f]]
    BY <1>4, Zenon DEF EmptyFails
  <2>3. \A f \in Files : at'[f] = at[f] \/ at[f] = e
    BY <1>0, <2>2
  <2> QED BY <1>1, <2>1, <2>2, <2>3, PlaceEmptied
<1> QED BY <1>2, <1>3, <1>4

LEMMA PlaceCrashes ==
  ASSUME StoreInv, PlaceInv, Crash
  PROVE  PlaceInv'
<1> USE JobFacts, ShapeFacts
<1> SUFFICES ASSUME sound' PROVE (RowsCoherent /\ VersionsLive /\ OneImage /\ Phase)'
  BY DEF PlaceInv
<1>1. /\ UNCHANGED <<at, trash, shown>> /\ seen' = [t \in Readers |-> Unread] /\ txn' = Idle
      /\ sound /\ (txn = Idle \/ (txn.step = "finish" /\ txn.uses = {}))
      /\ row' = IF Exists(row) /\ InFlight(row) /\ row.job = NoJob
                THEN [row EXCEPT !.status = "failed"] ELSE row
  BY DEF Crash
<1>2. RowsCoherent /\ VersionsLive /\ OneImage /\ Phase /\ ~Working
  BY <1>1 DEF PlaceInv, Working
<1>3. Settled /\ (IsLive(row) => NoImage)
  BY <1>1, <1>2 DEF Phase, Resting, Finishing, NoImage
<1>4. /\ row'.file = row.file /\ row'.prev = row.prev /\ IsLive(row') = IsLive(row)
      /\ (row'.status = "trashed") = (row.status = "trashed")
  <2>1. CASE Exists(row) /\ InFlight(row) /\ row.job = NoJob
    <3>1. row' = ImageRow("failed", row.file, row.job, row.prev, row.imported)
      BY <1>1, <2>1, RowKinds, StatusIs
    <3>2. row'.status = "failed" /\ row'.file = row.file /\ row'.prev = row.prev
      BY <3>1, RowOfIs
    <3> QED BY <2>1, <3>2 DEF IsLive, InFlight
  <2> QED BY <1>1, <2>1
<1>5. \A c \in Entries : /\ IsImage(c)' = IsImage(c) /\ IsVersion(c)' = IsVersion(c)
                         /\ Covers(c)' = Covers(c)
  BY <1>1, <1>4 DEF IsImage, IsVersion, Covers, Kept, AllIn, Held
<1>6. Coherent(row')
  BY <1>2, <1>4 DEF RowsCoherent, Coherent
<1>7. RowsCoherent'
  BY <1>1, <1>2, <1>5, <1>6 DEF RowsCoherent
<1>8. VersionsLive' /\ OneImage'
  BY <1>1, <1>2, <1>5 DEF VersionsLive, OneImage
<1>9. Resting'
  BY <1>1, <1>3, <1>4, <1>5 DEF Resting, Settled, NoImage, Held
<1> QED BY <1>7, <1>8, <1>9 DEF Phase

-----------------------------------------------------------------------------
(* A transaction begins.                                                   *)
LEMMA Begun ==
  ASSUME NEW op, NEW moves, NEW new, NEW read, NEW entries, NEW uses, NEW made,
         Begin(op, moves, new, read, entries, uses, made)
  PROVE  /\ txn' # Idle /\ txn'.op = op /\ txn'.step = "move" /\ txn'.moves = moves /\ txn'.n = 0
         /\ txn'.kept = FALSE /\ txn'.new = new /\ txn'.read = read /\ txn'.uses = uses
         /\ txn'.made = made /\ trash' = entries
<1> DEFINE o == FALSE
<1>1. txn' = TxnOf(op, "move", moves, 0, o, o, new, read, uses, made) /\ trash' = entries
  BY DEF Begin, TxnOf
<1> HIDE DEF o
<1>2. /\ txn' # Idle /\ txn'.op = op /\ txn'.step = "move" /\ txn'.moves = moves /\ txn'.n = 0
      /\ txn'.kept = o /\ txn'.new = new /\ txn'.read = read /\ txn'.uses = uses
      /\ txn'.made = made
  BY <1>1, TxnFields
<1> QED BY <1>1, <1>2 DEF o

(* The entry d it makes, if any, fits the others.                          *)
NewVersion(c) ==
  /\ IsVersion(c)' /\ Coherent(trash'[c].state)
  /\ \/ trash'[c].state.status \in LiveStates
     \/ txn'.op = "swap" /\ txn'.made = {c} /\ row.status = "trashed"
NewImage(c) ==
  /\ IsImage(c)' /\ IsLive(row) /\ trash'[c].ok = TRUE
  /\ trash'[c].files \subseteq shown \cup {Original}

LEMMA PlaceBegins ==
  ASSUME StoreInv, PlaceInv, sound, txn = Idle, UNCHANGED <<row, at, shown>>,
         \A t \in Readers : seen'[t] \in {seen[t], Unread},
         txn' # Idle, txn'.step = "move", txn'.kept = FALSE, NEW d \in Places,
         \A c \in Entries :
           trash'[c] = trash[c] \/ (c = d /\ (NewVersion(c) \/ NewImage(c)))
  PROVE  RowsCoherent' /\ VersionsLive' /\ OneImage' /\ Working'
<1>1. RowsCoherent /\ VersionsLive /\ OneImage /\ Resting
  BY DEF PlaceInv, Phase, Working, Finishing
<1>2. Working' /\ ~Working
  BY DEF Working
<1>3. \A c \in Entries : IsVersion(c)' => \/ IsVersion(c) /\ trash'[c] = trash[c]
                                         \/ /\ Coherent(trash'[c].state)
                                            /\ \/ trash'[c].state.status \in LiveStates
                                               \/ /\ txn'.op = "swap" /\ txn'.made = {c}
                                                  /\ row.status = "trashed"
  BY DEF NewVersion, NewImage, IsVersion, IsImage
<1>4. RowsCoherent'
  BY <1>1, <1>3 DEF RowsCoherent
<1>5. VersionsLive'
  BY <1>1, <1>2, <1>3 DEF VersionsLive
<1>6. \A c \in Entries : IsImage(c)' =>
        \/ IsImage(c) /\ trash'[c] = trash[c]
        \/ /\ c = d /\ IsLive(row) /\ trash'[c].ok = TRUE
           /\ trash'[c].files \subseteq shown \cup {Original}
  BY DEF NewVersion, NewImage, IsVersion, IsImage
<1>7. IsLive(row) => NoImage
  BY <1>1 DEF Resting
<1>8. OneImage'
  BY <1>1, <1>6, <1>7 DEF OneImage, NoImage
<1> QED BY <1>2, <1>4, <1>5, <1>8

LEMMA CarriesAll ==
  ASSUME NEW e, NEW from, NEW to, NEW M, txn'.moves = M, txn'.n = 0, at' = at,
         NEW F, trash'[e].files = F, \A f \in F : at[f] = from,
         \A i \in 1..Len(M) : /\ M[i].from = from /\ M[i].to = to /\ M[i].file \in F
                              /\ \A k \in 1..Len(M) : M[k].file = M[i].file => k = i,
         \A f \in F : \E i \in 1..Len(M) : M[i].file = f
  PROVE  Carries(e, from, to)'
<1>1. \A i \in 1..Len(M) : Moved(i)'
  <2>1. \A i \in 1..Len(M) : ~(i <= 0)
    OBVIOUS
  <2> QED BY <2>1 DEF Moved
<1> QED BY <1>1 DEF Carries, Steps

LEMMA PlaceDeletes ==
  ASSUME StoreInv, PlaceInv, DeleteImage
  PROVE  PlaceInv'
<1> SUFFICES ASSUME sound' PROVE (RowsCoherent /\ VersionsLive /\ OneImage /\ Phase)'
  BY DEF PlaceInv
<1> USE JobFacts, ShapeFacts
<1>1. PICK e \in Entries : e = NewEntry /\ trash[e] = NoEntry
  <2>1. Free # {}
    BY DEF DeleteImage
  <2>2. NewEntry \in Entries /\ trash[NewEntry] = NoEntry
    BY <2>1, FreeEntry DEF Free
  <2> QED BY <2>2, Zenon
<1> DEFINE has == {f \in {row.file} \cap Versions : at[f] = Disk}
           kept == {f \in {Original} : row.imported /\ at[f] = Disk}
           move(f) == [file |-> f, from |-> Disk, to |-> e]
           moves == (IF has = {} THEN << >> ELSE <<move(row.file)>>)
                      \o (IF kept = {} THEN << >> ELSE <<move(Original)>>)
           F == has \cup kept
           o == TRUE
           entry == EntryOf("image", F, row.status, o)
           entries == [trash EXCEPT ![e] = entry]
           new == ImageRow("trashed", row.file, row.job, row.prev, row.imported)
           uses == {}
           made == {e}
<1>2. /\ UNCHANGED <<row, at, seen, shown, sound>> /\ txn = Idle /\ IsLive(row) /\ sound
  BY DEF DeleteImage
<1>3. IsRow(row) /\ row.file \in shown \cup {NoFile} /\ shown \subseteq Versions
      /\ row.status # "trashed"
  BY <1>2, RowKinds
<1>4. Begin("delete", moves, new, row, entries, uses, made)
  <2>1. Begin("delete", moves, [row EXCEPT !.status = "trashed"], row, entries, {}, {e})
    BY <1>1, Zenon DEF DeleteImage, EntryOf
  <2>2. [row EXCEPT !.status = "trashed"] = new
    BY <1>3, StatusIs
  <2> QED BY <2>1, <2>2, Zenon
<1>5. Held
  BY <1>2 DEF PlaceInv, Phase, Resting, Working, Finishing, Settled
<1>6. row.file \in F \cup {NoFile} /\ F \subseteq shown \cup {Original}
  BY <1>3, <1>5 DEF Held
<1>7. /\ \A i \in 1..Len(moves) :
           /\ moves[i].from = Disk /\ moves[i].to = e /\ moves[i].file \in F
           /\ \A k \in 1..Len(moves) : moves[k].file = moves[i].file => k = i
      /\ \A f \in F : \E i \in 1..Len(moves) : moves[i].file = f
  <2> DEFINE m == move(row.file)
             b == move(Original)
  <2>1. /\ m.from = Disk /\ m.to = e /\ m.file = row.file
        /\ b.from = Disk /\ b.to = e /\ b.file = Original
    OBVIOUS
  <2>2. /\ has # {} => has = {row.file} /\ row.file # Original
        /\ kept # {} => kept = {Original}
    OBVIOUS
  <2>3. moves = (IF has = {} THEN << >> ELSE <<m>>) \o (IF kept = {} THEN << >> ELSE <<b>>)
    OBVIOUS
  <2> HIDE DEF m, b, has, kept, moves
  <2>4. CASE has = {} /\ kept = {}
    <3>1. Len(moves) = 0
      BY <2>3, <2>4
    <3> QED BY <2>4, <3>1
  <2>5. CASE has # {} /\ kept = {}
    <3>1. moves = <<m>>
      BY <2>3, <2>5
    <3> QED BY <2>1, <2>2, <2>5, <3>1
  <2>6. CASE has = {} /\ kept # {}
    <3>1. moves = <<b>>
      BY <2>3, <2>6
    <3> QED BY <2>1, <2>2, <2>6, <3>1
  <2>7. CASE has # {} /\ kept # {}
    <3>1. moves = <<m>> \o <<b>>
      BY <2>3, <2>7
    <3>2. Len(moves) = 2 /\ moves[1] = m /\ moves[2] = b
      BY <3>1
    <3> QED BY <2>1, <2>2, <2>7, <3>2
  <2> QED BY <2>4, <2>5, <2>6, <2>7
<1>8. \A f \in F : at[f] = Disk
  OBVIOUS
<1>9. /\ new.status = "trashed" /\ new.file = row.file /\ new.prev = row.prev
  BY RowOfIs
<1>10. entry.kind = "image" /\ entry.files = F /\ entry.ok = o
  <2> HIDE DEF F, o
  <2> QED BY EntryOfIs
<1>11. /\ \A c \in Entries : c # e => entries[c] = trash[c]
       /\ entries[e] = entry
  <2> HIDE DEF entry
  <2> QED BY <1>1 DEF StoreInv, TrashKnown
<1> HIDE DEF moves, entries, new, uses, made, entry, F
<1>12. /\ txn' # Idle /\ txn'.op = "delete" /\ txn'.step = "move" /\ txn'.moves = moves
       /\ txn'.n = 0 /\ txn'.kept = FALSE /\ txn'.new = new /\ txn'.read = row
       /\ txn'.uses = uses /\ txn'.made = made /\ trash' = entries
  BY <1>4, Begun
<1>13. IsImage(e)' /\ trash'[e].files = F /\ trash'[e].ok = TRUE
  BY <1>10, <1>11, <1>12 DEF IsImage
<1>14. RowsCoherent' /\ VersionsLive' /\ OneImage' /\ Working'
  <2>1. \A c \in Entries :
           trash'[c] = trash[c] \/ (c = e /\ (NewVersion(c) \/ NewImage(c)))
    BY <1>2, <1>6, <1>11, <1>12, <1>13 DEF NewImage
  <2>2. /\ UNCHANGED <<row, at, shown>> /\ e \in Places
        /\ \A t \in Readers : seen'[t] \in {seen[t], Unread}
    BY <1>2
  <2> QED BY <1>2, <1>12, <2>1, <2>2, PlaceBegins
<1>15. Carries(e, Disk, e)'
  BY <1>2, <1>7, <1>8, <1>12, <1>13, CarriesAll
<1>16. Deleting(e)'
  BY <1>2, <1>3, <1>6, <1>9, <1>12, <1>13, <1>15 DEF Deleting, uses, made
<1> QED BY <1>1, <1>14, <1>16 DEF Phase

LEMMA PlaceRestores ==
  ASSUME StoreInv, PlaceInv, NEW e \in Entries, RestoreImage(e)
  PROVE  PlaceInv'
<1> SUFFICES ASSUME sound' PROVE (RowsCoherent /\ VersionsLive /\ OneImage /\ Phase)'
  BY DEF PlaceInv
<1> USE JobFacts, ShapeFacts
<1> DEFINE t == trash[e]
           B == Back(e)
           moves == InOrder(B)
           new == ImageRow(t.state, row.file, row.job, row.prev, row.imported)
           m(f) == [file |-> f, from |-> e, to |-> Disk]
           uses == {e}
           made == {}
<1>1. /\ UNCHANGED <<row, at, seen, shown, sound>> /\ txn = Idle /\ t.kind = "image"
      /\ row.status = "trashed" /\ sound /\ AllIn(e)
  BY DEF RestoreImage
<1>2. IsRow(row) /\ ~IsLive(row)
  BY <1>1, RowKinds
<1>3. t.state \in LiveStates /\ \E v \in Versions : t.files \subseteq {v, Original}
  BY <1>1 DEF StoreInv, TrashKnown, EntryKnown
<1>4. Begin("restore", moves, new, row, trash, uses, made)
  <2>1. Begin("restore", moves, [row EXCEPT !.status = t.state], row, trash, uses, made)
    BY <1>1, Zenon DEF RestoreImage
  <2>2. [row EXCEPT !.status = t.state] = new
    BY <1>2, StatusIs
  <2> QED BY <2>1, <2>2, Zenon
<1>5. \E c \in Entries : Covers(c)
  BY <1>1 DEF PlaceInv, Phase, Resting, Working, Finishing, Settled
<1>6. row.file \in t.files \/ Held
  <2>1. PICK c \in Entries : Covers(c)
    BY <1>5
  <2>2. c = e
    BY <1>1, <2>1 DEF PlaceInv, OneImage, Covers, Kept, IsImage
  <2> QED BY <2>1, <2>2 DEF Covers
<1>7. /\ \A i \in 1..Len(moves) :
           /\ moves[i].from = e /\ moves[i].to = Disk /\ moves[i].file \in t.files
           /\ \A k \in 1..Len(moves) : moves[k].file = moves[i].file => k = i
      /\ \A f \in t.files : \E i \in 1..Len(moves) : moves[i].file = f
  <2>1. PICK v \in Versions : t.files \subseteq {v, Original}
    BY <1>3
  <2> DEFINE a == m(v)
             b == m(Original)
  <2>2. B \in {{}, {a}, {b}, {a, b}}
    <3>1. t.files \in {{}, {v}, {Original}, {v, Original}}
      BY <2>1
    <3> QED BY <3>1 DEF Back
  <2>3. a.file > b.file /\ a.file \in Int /\ b.file \in Int
    BY DEF Original
  <2>4. /\ \A x \in B : x.from = e /\ x.to = Disk /\ x.file \in t.files /\ x.file \in Int
        /\ \A f \in t.files : m(f) \in B /\ m(f).file = f
    <3>1. \A f \in t.files : f \in Int
      BY <2>1 DEF Original
    <3>2. B = {m(f) : f \in t.files}
      BY DEF Back
    <3>3. \A f : m(f).from = e /\ m(f).to = Disk /\ m(f).file = f
      OBVIOUS
    <3> HIDE DEF B, m, t
    <3> QED BY <3>1, <3>2, <3>3
  <2> HIDE DEF a, b, B, m
  <2>5. /\ moves \in Seq(B) /\ {moves[i] : i \in DOMAIN moves} = B
        /\ \A i, k \in DOMAIN moves : i < k => moves[i].file > moves[k].file
    BY <2>2, <2>3, OrderedMoves
  <2> HIDE DEF moves, t
  <2>6. /\ DOMAIN moves = 1..Len(moves) /\ Len(moves) \in Nat
        /\ \A i \in 1..Len(moves) : moves[i] \in B
    BY <2>5
  <2>7. \A f \in t.files : \E i \in 1..Len(moves) : moves[i].file = f
    <3> SUFFICES ASSUME NEW f \in t.files PROVE \E i \in 1..Len(moves) : moves[i].file = f
      OBVIOUS
    <3>1. m(f) \in {moves[i] : i \in DOMAIN moves} /\ m(f).file = f
      BY <2>4, <2>5
    <3>2. PICK i \in DOMAIN moves : moves[i] = m(f)
      BY <3>1
    <3> QED BY <2>6, <3>1, <3>2
  <2>8. ASSUME NEW i \in 1..Len(moves), NEW k \in 1..Len(moves), moves[k].file = moves[i].file
        PROVE  k = i
    <3>1. moves[i].file \in Int
      BY <2>4, <2>6
    <3>2. ~(i < k) /\ ~(k < i)
      BY <2>5, <2>6, <2>8, <3>1
    <3> QED BY <2>6, <3>2
  <2> QED BY <2>4, <2>6, <2>7, <2>8
<1>8. \A f \in t.files : at[f] = e
  BY <1>1 DEF AllIn
<1>9. /\ new.status = t.state /\ new.file = row.file /\ new.prev = row.prev
  BY RowOfIs
<1> HIDE DEF moves, new, uses, made, B
<1>10. /\ txn' # Idle /\ txn'.op = "restore" /\ txn'.step = "move" /\ txn'.moves = moves
       /\ txn'.n = 0 /\ txn'.kept = FALSE /\ txn'.new = new /\ txn'.read = row
       /\ txn'.uses = uses /\ txn'.made = made /\ trash' = trash
  BY <1>4, Begun
<1>11. IsImage(e)' /\ trash'[e].files = t.files
  BY <1>1, <1>10 DEF IsImage
<1>12. RowsCoherent' /\ VersionsLive' /\ OneImage' /\ Working'
  <2>1. \A c \in Entries : trash'[c] = trash[c] \/ (c = e /\ (NewVersion(c) \/ NewImage(c)))
    BY <1>10
  <2>2. /\ UNCHANGED <<row, at, shown>> /\ e \in Places
        /\ \A r \in Readers : seen'[r] \in {seen[r], Unread}
    BY <1>1
  <2> QED BY <1>1, <1>10, <2>1, <2>2, PlaceBegins
<1>13. Carries(e, e, Disk)'
  <2> HIDE DEF t
  <2> QED BY <1>1, <1>7, <1>8, <1>10, <1>11, CarriesAll
<1>14. row.file \in t.files \/ Held'
  BY <1>1, <1>6 DEF Held
<1>15. Restoring(e)'
  BY <1>1, <1>3, <1>9, <1>10, <1>11, <1>13, <1>14 DEF Restoring, uses, made
<1> QED BY <1>12, <1>15 DEF Phase

LEMMA PlaceSwaps ==
  ASSUME StoreInv, PlaceInv, NEW e \in Entries, RestoreVersion(e)
  PROVE  PlaceInv'
<1> SUFFICES ASSUME sound' PROVE (RowsCoherent /\ VersionsLive /\ OneImage /\ Phase)'
  BY DEF PlaceInv
<1> USE JobFacts, ShapeFacts
<1> DEFINE current == {f \in {row.file} \cap Versions : at[f] = Disk}
           old == trash[e].state
           back == [file |-> old.file, from |-> e, to |-> Disk]
           new == ImageRow(old.status, old.file, NoJob, old.prev, row.imported)
           uses == {e}
<1>1. /\ UNCHANGED <<row, at, seen, shown, sound>> /\ txn = Idle /\ IsVersion(e)
      /\ Exists(row) /\ sound
  BY DEF RestoreVersion, IsVersion
<1>2. /\ IsRow(row) /\ row.file \in shown \cup {NoFile} /\ shown \subseteq Versions
      /\ \/ row.status = "trashed"
         \/ row.status # "trashed" /\ IsLive(row) /\ row.status \in LiveStates
  BY <1>1, RowKinds
<1>3. RowsCoherent /\ VersionsLive /\ OneImage /\ Settled /\ (IsLive(row) => NoImage)
  BY <1>1 DEF PlaceInv, Phase, Resting, Working, Finishing
<1>4. /\ IsRow(new) /\ new.status = old.status /\ new.file = old.file /\ new.job = NoJob
      /\ new.prev = old.prev
  BY RowOfIs
<1>5. [row EXCEPT !.status = old.status, !.file = old.file, !.prev = old.prev, !.job = NoJob] = new
  <2>1. Restored(row, old.status, old.file, NoJob, old.prev) = new
    BY <1>2, RestoredIs
  <2> QED BY <2>1, Zenon DEF Restored
<1>6. Coherent(new) /\ new.status \in LiveStates
  <2>1. Coherent(old)
    BY <1>1, <1>3 DEF RowsCoherent
  <2>2. old.status \in LiveStates
    BY <1>1, <1>3 DEF VersionsLive, Working
  <2> QED BY <1>4, <2>1, <2>2 DEF Coherent
<1>7. back.file = new.file /\ back.from = e /\ back.to = Disk
  BY <1>4
<1>8. Held => current # {} \/ row.file = NoFile
  BY <1>2 DEF Held
<1>9. ASSUME NEW moves, NEW entries, NEW made, NEW d \in Places,
             Begin("swap", moves, new, row, entries, uses, made),
             Len(moves) \in {1, 2}, moves[Len(moves)] = back,
             \A c \in Entries : entries[c] = trash[c] \/ c = d,
             d \in Entries => entries[d] = trash[d] \/
               \E o : entries[d] = EntryOf("version", current, StateOf(row), o) /\ made = {d},
             \/ Len(moves) = 1 /\ made = {} /\ current = {} /\ entries = trash
             \/ /\ Len(moves) = 2 /\ d \in Entries /\ d # e /\ made = {d} /\ current # {}
                /\ trash[d] = NoEntry /\ entries[d].kind = "version"
                /\ moves[1].file = row.file /\ moves[1].from = Disk /\ moves[1].to = d
      PROVE  (RowsCoherent /\ VersionsLive /\ OneImage /\ Phase)'
  <2> HIDE DEF back, new, uses, current
  <2>1. /\ txn' # Idle /\ txn'.op = "swap" /\ txn'.step = "move" /\ txn'.moves = moves
        /\ txn'.n = 0 /\ txn'.kept = FALSE /\ txn'.new = new /\ txn'.read = row
        /\ txn'.uses = uses /\ txn'.made = made /\ trash' = entries
    <3>1. Begin("swap", moves, new, row, entries, uses, made)
      BY <1>9
    <3> QED BY <3>1, Begun
  <2>2. RowsCoherent' /\ VersionsLive' /\ OneImage' /\ Working'
    <3>1. ASSUME NEW c \in Entries, c = d, trash'[c] # trash[c] PROVE NewVersion(c)
      <4>1. PICK o : trash'[c] = EntryOf("version", current, StateOf(row), o) /\ made = {c}
        BY <1>9, <2>1, <3>1
      <4>2. trash'[c].kind = "version" /\ trash'[c].state = StateOf(row)
        BY <4>1, EntryOfIs
      <4>3. /\ StateOf(row).status = row.status /\ StateOf(row).file = row.file
            /\ StateOf(row).prev = row.prev
        BY DEF StateOf
      <4>4. Coherent(StateOf(row))
        BY <1>3, <4>3 DEF RowsCoherent, Coherent
      <4> QED BY <1>2, <2>1, <4>1, <4>2, <4>3, <4>4 DEF NewVersion, IsVersion
    <3>2. \A c \in Entries : trash'[c] = trash[c] \/ (c = d /\ (NewVersion(c) \/ NewImage(c)))
      BY <1>9, <2>1, <3>1
    <3>3. UNCHANGED <<row, at, shown>> /\ \A r \in Readers : seen'[r] \in {seen[r], Unread}
      BY <1>1
    <3> QED BY <1>1, <1>9, <2>1, <3>2, <3>3, PlaceBegins
  <2>3. \A c \in Entries : c # d => trash'[c] = trash[c]
    BY <1>9, <2>1
  <2>4. \A c \in Entries : Kept(c) => Kept(c)' /\ trash'[c] = trash[c]
    <3>1. \A c \in Entries : Kept(c) => trash'[c] = trash[c]
      BY <1>9, <2>1 DEF Kept, IsImage
    <3> QED BY <1>1, <3>1 DEF Kept, AllIn, IsImage
  <2>5. IsVersion(e)'
    BY <1>1, <1>9, <2>1 DEF IsVersion
  <2>6. IsLive(row) => NoImage'
    BY <1>3, <1>9, <2>1 DEF NoImage, IsImage
  <2>7. row.status = "trashed" => \E c \in Entries : Covers(c)
    BY <1>3 DEF Settled
  <2>8. CASE Len(moves) = 1
    <3>1. SwapsIn'
      <4>1. IsLive(row) => row.file = NoFile
        BY <1>3, <1>8, <1>9, <2>8 DEF Settled
      <4>2. row.status = "trashed" =>
              \E c \in Entries : Kept(c)' /\ row.file \in trash'[c].files \cup {NoFile}
        BY <1>8, <1>9, <2>4, <2>7, <2>8 DEF Covers
      <4> QED BY <1>1, <1>9, <2>1, <2>8, <4>1, <4>2 DEF SwapsIn
    <3>2. Swapping(e)'
      BY <1>1, <1>6, <1>7, <1>9, <2>1, <2>5, <2>6, <2>8, <3>1 DEF Swapping, uses
    <3> QED BY <2>2, <3>2 DEF Phase
  <2>9. CASE Len(moves) = 2
    <3>1. SwapsOut(e, d)'
      <4>1. row.file # NoFile /\ at[row.file] = Disk
        BY <1>2, <1>9, <2>9 DEF current
      <4>2. IsVersion(d)'
        BY <1>9, <2>1, <2>9 DEF IsVersion
      <4>3. Moved(1)'
        BY <1>1, <1>9, <2>1, <2>9, <4>1 DEF Moved
      <4>4. row.status = "trashed" => \E c \in Entries : Kept(c)'
        BY <2>4, <2>7 DEF Covers
      <4> QED BY <1>1, <1>9, <2>1, <2>9, <4>1, <4>2, <4>3, <4>4 DEF SwapsOut
    <3>2. Swapping(e)'
      BY <1>1, <1>6, <1>7, <1>9, <2>1, <2>5, <2>6, <2>9, <3>1 DEF Swapping, uses
    <3> QED BY <2>2, <3>2 DEF Phase
  <2> QED BY <1>9, <2>8, <2>9
<1>10. CASE current = {}
  <2> DEFINE moves == <<back>>
             made == {}
  <2>1. Begin("swap", moves, new, row, trash, uses, made)
    BY <1>5, <1>10, Zenon DEF RestoreVersion
  <2>2. Len(moves) = 1 /\ moves[Len(moves)] = back
    <3> HIDE DEF back
    <3> QED OBVIOUS
  <2>3. made = {} /\ Disk \in Places /\ Disk \notin Entries
    OBVIOUS
  <2> HIDE DEF moves, made, back, new, uses, current, old
  <2> QED BY <1>9, <1>10, <2>1, <2>2, <2>3
<1>11. CASE current # {}
  <2>1. Free # {}
    BY <1>11, Zenon DEF RestoreVersion
  <2>2. NewEntry \in Entries /\ trash[NewEntry] = NoEntry
    BY <2>1, FreeEntry DEF Free
  <2>3. PICK d \in Entries : d = NewEntry /\ trash[d] = NoEntry
    BY <2>2, Zenon
  <2> DEFINE away == [file |-> row.file, from |-> Disk, to |-> d]
             o == TRUE
             entry == EntryOf("version", current, StateOf(row), o)
             entries == [trash EXCEPT ![d] = entry]
             moves == <<away, back>>
             made == {d}
  <2>4. Begin("swap", moves, new, row, entries, uses, made)
    BY <1>5, <1>11, <2>3, Zenon DEF RestoreVersion, EntryOf
  <2>5. Len(moves) = 2 /\ moves[1] = away /\ moves[2] = back
    <3> HIDE DEF back, away
    <3> QED OBVIOUS
  <2>6. moves[1].file = row.file /\ moves[1].from = Disk /\ moves[1].to = d
    BY <2>5
  <2> HIDE DEF moves, away, back, o
  <2>7. entry.kind = "version"
    BY EntryOfIs
  <2>8. /\ \A c \in Entries : entries[c] = trash[c] \/ c = d
        /\ entries[d] = entry
    <3> HIDE DEF entry
    <3> QED BY DEF StoreInv, TrashKnown
  <2>9. d # e /\ made = {d} /\ d \in Places
    BY <1>1, <2>3 DEF IsVersion
  <2>10. \E x : entries[d] = EntryOf("version", current, StateOf(row), x) /\ made = {d}
    BY <2>8, <2>9
  <2>11. Len(moves) \in {1, 2} /\ moves[Len(moves)] = back
    BY <2>5
  <2>12. entries[d].kind = "version"
    BY <2>7, <2>8
  <2> HIDE DEF entries, made, new, uses, current, old, entry
  <2>13. /\ Len(moves) = 2 /\ d \in Entries /\ d # e /\ made = {d} /\ current # {}
         /\ trash[d] = NoEntry /\ entries[d].kind = "version"
         /\ moves[1].file = row.file /\ moves[1].from = Disk /\ moves[1].to = d
    BY <1>11, <2>3, <2>5, <2>6, <2>9, <2>12
  <2>14. /\ \A c \in Entries : entries[c] = trash[c] \/ c = d
         /\ d \in Places
    BY <2>8, <2>9
  <2> QED BY ONLY <1>9, <2>4, <2>10, <2>11, <2>13, <2>14
<1> QED BY <1>10, <1>11

LEMMA PlaceReplaces ==
  ASSUME StoreInv, PlaceInv, NEW j \in Jobs, CommitGeneratedReplacement(j)
  PROVE  PlaceInv'
<1> SUFFICES ASSUME sound' PROVE (RowsCoherent /\ VersionsLive /\ OneImage /\ Phase)'
  BY DEF PlaceInv
<1> USE JobFacts, ShapeFacts
<1> DEFINE r == seen[j]
           f == ResultOf(j)
           old == {v \in {r.prev.file : p \in {r.prev} \ {NoPrev}} \cap Versions : at[v] = Disk}
           new == ImageRow("pending", f, NoJob, NoPrev, r.imported)
           written == [file |-> f, from |-> at[f], to |-> Disk]
           uses == {}
<1>1. /\ UNCHANGED <<row, at, shown, sound>> /\ txn = Idle /\ sound
      /\ r # Unread /\ seen' = [seen EXCEPT ![j] = Unread]
  BY DEF CommitGeneratedReplacement
<1>2. KnownIn(r, shown)
  BY <1>1 DEF StoreInv, SeenKnown, CommitGeneratedReplacement
<1>3. RowsCoherent /\ VersionsLive /\ OneImage /\ Settled /\ (IsLive(row) => NoImage)
  BY <1>1 DEF PlaceInv, Phase, Resting, Working, Finishing
<1>4. new.status = "pending" /\ new.file = f /\ new.prev = NoPrev
  BY RowOfIs
<1>5. [r EXCEPT !.status = "pending", !.file = f, !.prev = NoPrev, !.job = NoJob] = new
  <2>1. Restored(r, "pending", f, NoJob, NoPrev) = new
    BY <1>2, RestoredIs DEF KnownIn
  <2> QED BY <2>1, Zenon DEF Restored
<1>6. \A t \in Readers : seen'[t] \in {seen[t], Unread}
  <2>1. seen = [t \in Readers |-> seen[t]]
    BY DEF StoreInv, StoreTyped
  <2> QED BY <1>1, <2>1
<1>7. written.file = f /\ written.from = at[f] /\ written.to = Disk
  OBVIOUS
<1>8. ASSUME NEW moves, NEW entries, NEW made, NEW d \in Places,
             Begin("replace", moves, new, r, entries, uses, made), moves[1] = written,
             \A c \in Entries : entries[c] = trash[c] \/ c = d,
             \/ Len(moves) = 1 /\ made = {} /\ entries = trash
             \/ /\ Len(moves) = 2 /\ d \in Entries /\ made = {d}
                /\ trash[d] = NoEntry /\ entries[d].kind = "version"
                /\ Coherent(entries[d].state) /\ entries[d].state.status \in LiveStates
                /\ moves[2].file \in shown /\ at[moves[2].file] = Disk
                /\ moves[2].from = Disk /\ moves[2].to = d
      PROVE  (RowsCoherent /\ VersionsLive /\ OneImage /\ Phase)'
  <2> HIDE DEF written, new, uses, old, f, r
  <2>1. /\ txn' # Idle /\ txn'.op = "replace" /\ txn'.step = "move" /\ txn'.moves = moves
        /\ txn'.n = 0 /\ txn'.kept = FALSE /\ txn'.new = new /\ txn'.read = r
        /\ txn'.uses = uses /\ txn'.made = made /\ trash' = entries
    <3>1. Begin("replace", moves, new, r, entries, uses, made)
      BY <1>8
    <3> QED BY <3>1, Begun
  <2>2. RowsCoherent' /\ VersionsLive' /\ OneImage' /\ Working'
    <3>1. \A c \in Entries : trash'[c] = trash[c] \/ (c = d /\ (NewVersion(c) \/ NewImage(c)))
      BY <1>8, <2>1 DEF NewVersion, IsVersion
    <3>2. UNCHANGED <<row, at, shown>>
      BY <1>1
    <3> QED BY <1>1, <1>6, <1>8, <2>1, <3>1, <3>2, PlaceBegins
  <2>3. \A c \in Entries : Kept(c) => Kept(c)' /\ trash'[c] = trash[c]
    <3>1. \A c \in Entries : Kept(c) => trash'[c] = trash[c]
      BY <1>8, <2>1 DEF Kept, IsImage
    <3> QED BY <1>1, <3>1 DEF Kept, AllIn, IsImage
  <2>4. IsLive(row) => Held' /\ NoImage'
    <3>1. IsLive(row) => Held'
      BY <1>1, <1>3 DEF Settled, Held
    <3>2. IsLive(row) => NoImage'
      BY <1>3, <1>8, <2>1 DEF NoImage, IsImage
    <3> QED BY <3>1, <3>2
  <2>5. row.status = "trashed" =>
          \E c \in Entries : Kept(c)' /\ (row.file \in trash'[c].files \/ Held')
    <3>1. row.status = "trashed" => \E c \in Entries : Covers(c)
      BY <1>3 DEF Settled
    <3>2. Held => Held'
      BY <1>1 DEF Held
    <3> QED BY <2>3, <3>1, <3>2 DEF Covers
  <2>6. \A i \in {1, 2} : ~(i <= txn'.n)
    BY <2>1
  <2>7. Moved(1)'
    BY <1>1, <1>7, <1>8, <2>1, <2>6 DEF Moved
  <2>8. Len(moves) = 2 => Moved(2)'
    BY <1>1, <1>8, <2>1, <2>6 DEF Moved
  <2>9. Held' => There'
    BY DEF There
  <2>10. \/ Len(moves) = 1 /\ made = {}
         \/ /\ Len(moves) = 2
            /\ \E c \in Entries : made = {c} /\ IsVersion(c)' /\ moves[2].to = c
            /\ moves[2].from = Disk /\ moves[2].file \in shown' /\ Moved(2)'
    BY <1>1, <1>8, <2>1, <2>8 DEF IsVersion
  <2>11. Replacing'
    BY <1>1, <1>4, <1>7, <1>8, <2>1, <2>4, <2>5, <2>7, <2>9, <2>10 DEF Replacing, uses
  <2> QED BY <2>2, <2>11 DEF Phase
<1>9. CASE old = {}
  <2> DEFINE moves == <<written>>
             made == {}
  <2>1. Begin("replace", moves, new, r, trash, uses, made)
    BY <1>5, <1>9, Zenon DEF CommitGeneratedReplacement
  <2>2. Len(moves) = 1 /\ moves[1] = written
    <3> HIDE DEF written
    <3> QED OBVIOUS
  <2>3. made = {} /\ Disk \in Places /\ \A c \in Entries : trash[c] = trash[c] \/ c = Disk
    OBVIOUS
  <2> HIDE DEF moves, made, written, new, uses, r, f, old
  <2> QED BY ONLY <1>8, <2>1, <2>2, <2>3
<1>10. CASE old # {}
  <2>1. Free # {}
    BY <1>10, Zenon DEF CommitGeneratedReplacement
  <2>2. NewEntry \in Entries /\ trash[NewEntry] = NoEntry
    BY <2>1, FreeEntry DEF Free
  <2>3. PICK d \in Entries : d = NewEntry /\ trash[d] = NoEntry
    BY <2>2, Zenon
  <2> DEFINE put == [file |-> r.prev.file, from |-> Disk, to |-> d]
             o == TRUE
             entry == EntryOf("version", old, r.prev, o)
             entries == [trash EXCEPT ![d] = entry]
             moves == <<written, put>>
             made == {d}
  <2>4. Begin("replace", moves, new, r, entries, uses, made)
    BY <1>5, <1>10, <2>3, Zenon DEF CommitGeneratedReplacement, EntryOf
  <2>5. Len(moves) = 2 /\ moves[1] = written /\ moves[2] = put
    <3> HIDE DEF written, put
    <3> QED OBVIOUS
  <2>6. put.file = r.prev.file /\ put.from = Disk /\ put.to = d
    OBVIOUS
  <2>7. r.prev # NoPrev /\ at[r.prev.file] = Disk
    BY <1>10
  <2>8. r.prev.file \in shown /\ r.prev.status \in LiveStates /\ Coherent(r.prev)
    <3>1. GoodIn(r.prev, shown) /\ GoodIn(r.prev, {r.file} \ {NoFile})
      BY <1>1, <1>2, <1>3 DEF KnownIn, RowsCoherent, Coherent
    <3>2. r.prev.file \in shown /\ r.prev.status \in LiveStates
      BY <2>7, <3>1, GoodUnfolds
    <3>3. r.prev.file \in {r.file} \ {NoFile} /\ GoodIn(r.prev.prev, {r.file} \ {NoFile})
      BY <2>7, <3>1, GoodUnfolds
    <3>4. r.prev.file = r.file
      BY <3>3
    <3> QED BY <3>2, <3>3, <3>4 DEF Coherent
  <2> HIDE DEF moves, put, written, o, r, old, f
  <2>9. entry.kind = "version" /\ entry.state = r.prev
    BY EntryOfIs
  <2>10. /\ \A c \in Entries : entries[c] = trash[c] \/ c = d
         /\ entries[d] = entry
    <3> HIDE DEF entry
    <3> QED BY DEF StoreInv, TrashKnown
  <2>11. made = {d} /\ d \in Places
    OBVIOUS
  <2> HIDE DEF entries, made, new, uses, entry
  <2>12. /\ Len(moves) = 2 /\ d \in Entries /\ made = {d}
         /\ trash[d] = NoEntry /\ entries[d].kind = "version"
         /\ Coherent(entries[d].state) /\ entries[d].state.status \in LiveStates
         /\ moves[2].file \in shown /\ at[moves[2].file] = Disk
         /\ moves[2].from = Disk /\ moves[2].to = d
    BY <2>3, <2>5, <2>6, <2>7, <2>8, <2>9, <2>10, <2>11
  <2>13. moves[1] = written
    BY <2>5
  <2> QED BY ONLY <1>8, <2>4, <2>10, <2>11, <2>12, <2>13
<1> QED BY <1>9, <1>10

-----------------------------------------------------------------------------
LEMMA PlaceSteps == StoreInv /\ PlaceInv /\ [StoreNext]_storeVars => PlaceInv'
<1> SUFFICES ASSUME StoreInv, PlaceInv, [StoreNext]_storeVars PROVE PlaceInv'
  OBVIOUS
<1>1. CASE UNCHANGED storeVars
  <2>1. UNCHANGED <<row, at, trash, txn, shown, sound, seen>>
    BY <1>1 DEF storeVars
  <2> QED BY <2>1, OutsideReads
<1>2. CASE UserReads \/ \E j \in Jobs : Generation(j)
  <2>1. ASSUME NEW j \in Jobs, Generation(j) PROVE PlaceInv'
    BY <2>1, PlaceReads, PlaceFails, PlaceReplaces DEF Generation
  <2> QED BY <1>2, <2>1, PlaceReads
<1>3. CASE \/ \E s \in {"keep", "pending"} : SetImageStatus(s)
           \/ \E j \in Jobs, remote \in BOOLEAN : RegenerateImageLocked(j, remote)
           \/ CancelPending
  BY <1>3, PlaceDecides, PlaceRegenerates, PlaceCancels
<1>4. CASE DeleteImage \/ \E e \in Entries : \/ RestoreImage(e) \/ RestoreVersion(e)
                                             \/ EmptyEntry(e) \/ EmptyRefused(e) \/ EmptyFails(e)
  BY <1>4, PlaceDeletes, PlaceRestores, PlaceSwaps, PlaceEmpties
<1>5. CASE UndoFails
  BY <1>5 DEF UndoFails, PlaceInv
<1>6. CASE Transaction \/ MoveFails \/ CommitFails
  BY <1>6, PlaceMoves, PlaceTurns, PlaceCommits, PlaceUndoes, PlaceUndone, PlaceFinishes
  DEF Transaction
<1>7. CASE Crash
  BY <1>7, PlaceCrashes
<1> QED BY <1>1, <1>2, <1>3, <1>4, <1>5, <1>6, <1>7 DEF StoreNext

(* Between transactions the picture of a live row is on disk, whatever     *)
(* regenerations, swaps, deletions and restores came before and whichever  *)
(* of their moves and commits failed, unless a crash or a failed           *)
(* compensation displaced it or a stale write went over it.                *)
THEOREM LiveRowHasItsFile == StoreSpec => []RowHasItsFile
BY StoreStarts, StoreSteps, PlaceStarts, PlaceSteps, RestsOnDisk, PTL DEF StoreSpec

(* Between transactions a trashed row has its entry in the Trash, with all *)
(* the files the entry lists, and its picture among them or on disk.       *)
THEOREM TrashedStaysRecoverable == StoreSpec => []TrashedIsRecoverable
BY StoreStarts, StoreSteps, PlaceStarts, PlaceSteps, RestsOnDisk, PTL DEF StoreSpec
=============================================================================
