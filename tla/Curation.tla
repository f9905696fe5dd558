------------------------------ MODULE Curation ------------------------------
(***************************************************************************)
(* The rows of one dataset as the user curates them: the decisions, the    *)
(* append-only history of curation_history.py and its undo, against the    *)
(* passes that write the same rows meanwhile without its lock: captioning, *)
(* watermark scan and cleaning, and the regeneration of a picture.         *)
(*                                                                         *)
(* A cell is one field of one image.  The caption with its origin and      *)
(* provenance is one field, as CAPTION_FIELDS are always recorded          *)
(* together; the watermark fields are one field.  Anchor, coverage and     *)
(* rights decisions have a field and an author each and are edited like a  *)
(* status no pass writes: they add nothing and are left out, with trashed  *)
(* rows (see ImageStore), reconstruction pairs and corrupt snapshots.    *)
(* The events of one batch have consecutive ids and are undone together,   *)
(* so a batch is one entry of history.                                     *)
(*                                                                         *)
(* The session reads a row, works, and writes with its commit only the     *)
(* attributes it changed from what it read: every writer has a read and a  *)
(* write step, unless one SQL statement does both.                         *)
(***************************************************************************)
EXTENDS Integers, Sequences, FiniteSets

CONSTANTS Images,      \* the rows of the dataset
          Generated,   \* those with source = 'generated'; the others are imported
          Texts,       \* captions the user may write
          NoCaption,   \* no caption
          MaxBatches,  \* recorded actions of the user
          MaxPictures, \* pictures one row shows in turn
          MaxPasses    \* captioning and watermark passes

ASSUME CurationBounds == {MaxBatches, MaxPasses} \subseteq Nat /\ MaxPictures \in Nat \ {0}
ASSUME GeneratedRows == Generated \subseteq Images
ASSUME CaptionValues == NoCaption \notin Texts

VARIABLES value,    \* the committed rows, a function of the cells
          pic,      \* [Images -> Nat]: which picture the row shows, 0 without one
          history,  \* the recorded batches, oldest first
          edit,     \* the thread that holds _CURATION_TRANSACTION_LOCK
          plan,     \* the captioning pass
          scan,     \* the watermark pass
          saved,    \* [Images -> _replacement_previous of the generation in flight]
          passes,   \* passes started
          writer    \* [Cells -> who wrote the value: a batch, Nobody or Machine]

passesOf == <<plan, scan, passes>>
vars == <<value, pic, history, edit, plan, scan, saved, passes, writer>>

Nobody == 0
Machine == -1
Blank == 0                          \* no picture yet

Fields == {"status", "caption", "watermark"}
Cells == Images \X Fields
Statuses == {"pending", "keep", "reject", "failed"}
Written(p) == <<"model", p>>        \* the caption a model writes for picture p
Marks == {"unknown", "none", "detected", "dismissed", "cleaned", "failed"}
Captions == Texts \cup {NoCaption} \cup {Written(p) : p \in 1..MaxPictures}
Kind(f) == CASE f = "status" -> Statuses [] f = "caption" -> Captions [] OTHER -> Marks

Status(i) == value[<<i, "status">>]
Caption(i) == value[<<i, "caption">>]
Mark(i) == value[<<i, "watermark">>]
Row(i) == [f \in Fields |-> value[<<i, f>>]]
NoRow == [f \in {} |-> NoCaption]
NoEdit == [kind |-> "none"]
NoPlan == [mode |-> "none"]
NoScan == [kind |-> "none"]
NotWaiting == [waiting |-> FALSE, row |-> NoRow]

(* An image shows its picture, or is still to be generated.                *)
CurationInit ==
  /\ pic \in [Images -> {Blank, 1}] /\ \A i \in Images \ Generated : pic[i] = 1
  /\ value = [c \in Cells |-> CASE c[2] = "status" -> "pending"
                                [] c[2] = "caption" -> NoCaption
                                [] OTHER -> "unknown"]
  /\ history = << >>
  /\ edit = NoEdit /\ plan = NoPlan /\ scan = NoScan /\ passes = 0
  /\ saved = [i \in Images |->
                IF pic[i] = Blank THEN [waiting |-> TRUE, row |-> NoRow] ELSE NotWaiting]
  /\ writer = [c \in Cells |-> Nobody]

(***************************************************************************)
(* A write by author a: the attributes of new that differ from read.       *)
(***************************************************************************)
Flush(new, read, a) ==
  LET changed == {c \in DOMAIN new : new[c] # read[c]} IN
  /\ value' = [c \in Cells |-> IF c \in changed THEN new[c] ELSE value[c]]
  /\ writer' = [c \in Cells |-> IF c \in changed THEN a ELSE writer[c]]

-----------------------------------------------------------------------------
(* The user's edits, serialized: load, change, record and commit.  An edit *)
(* loads the rows and works out the batch it will record; the commit       *)
(* writes the cells that changed.                                          *)

(* A decision s about a row read as r; the flag goes with a rejected image *)
Decided(r, s) ==
  [r EXCEPT !["status"] = s, !["watermark"] = IF s = "reject" THEN "unknown" ELSE @]

\* new[i] is what the edit makes of row i.
Load(kind, new) ==
  LET changed == {c \in (DOMAIN new) \X Fields : new[c[1]][c[2]] # value[c]}
  IN /\ edit = NoEdit /\ Len(history) < MaxBatches
     /\ changed # {}
     /\ edit' = [kind |-> kind,
                 batch |-> [before |-> [c \in changed |-> value[c]],
                            after |-> [c \in changed |-> new[c[1]][c[2]]],
                            reverted |-> FALSE,
                            by |-> [c \in changed |-> writer[c]],
                            pics |-> pic]]
     /\ UNCHANGED <<value, pic, history, saved, writer>> /\ UNCHANGED passesOf

SetStatus(i, s) ==                                    \* set_image_status
  Load("record", [j \in {i} |-> Decided(Row(j), s)])

SetCaption(i, t) ==                                   \* set_image_caption
  Load("record", [j \in {i} |-> [Row(j) EXCEPT !["caption"] = t]])

BatchStatus(on, s) ==                                 \* batch_image_action
  Load("record", [j \in {k \in on : Status(k) # "failed"} |-> Decided(Row(j), s)])

BatchClearCaption(on) ==                              \* batch_image_action
  Load("record", [j \in on |-> [Row(j) EXCEPT !["caption"] = NoCaption]])

Captioned == {k \in Images : Status(k) = "keep" /\ Caption(k) # NoCaption}
ReplaceInCaptions(t) ==                               \* replace_in_captions
  Load("record", [j \in Captioned |-> [Row(j) EXCEPT !["caption"] = t]])

DismissWatermarks(on) ==                              \* dismiss_watermarks
  Load("record", [j \in {k \in on : Mark(k) = "detected"} |->
                    [Row(j) EXCEPT !["watermark"] = "dismissed"]])

\* crop_image records nothing: the flag it clears described other pixels.
CropImage(i) ==
  pic[i] # Blank /\ Load("crop", [j \in {i} |-> [Row(j) EXCEPT !["watermark"] = "unknown"]])

CommitEdit ==
  /\ edit.kind \in {"record", "crop"}
  /\ Flush(edit.batch.after, edit.batch.before,
           IF edit.kind = "record" THEN Len(history) + 1 ELSE Machine)
  /\ history' = IF edit.kind = "record"
                THEN Append(history, [edit.batch EXCEPT !.pics = pic]) ELSE history
  /\ edit' = NoEdit
  /\ UNCHANGED <<pic, saved>> /\ UNCHANGED passesOf

-----------------------------------------------------------------------------
(* undo                                                                    *)

Touched(b) == DOMAIN history[b].before
Live(b) == b \in 1..Len(history) /\ ~history[b].reverted

\* The row must show what the batch left, and no newer decision on the field
\* may stand.
OverlapsNothing(b) == b \notin 1..Len(history)                \* mutant
OverlapsItself(b) == \E d \in b..Len(history) :               \* mutant
                       Live(d) /\ Touched(d) \cap Touched(b) # {}
ShowsAfter(b) == \A c \in Touched(b) : value[c] = history[b].after[c]
Overlapped(b) == \E d \in b+1..Len(history) :
                    Live(d) /\ Touched(d) \cap Touched(b) # {}
Conflict(b) == ~ShowsAfter(b) \/ Overlapped(b)

LoadUndo(b) ==
  /\ edit = NoEdit
  /\ Live(b) /\ ~Conflict(b)
  /\ edit' = [kind |-> "undo", batch |-> b, pics |-> pic]
  /\ UNCHANGED <<value, pic, history, saved, writer>> /\ UNCHANGED passesOf

\* What a reverted batch held is only listed, never read again.
Reverted == [before |-> NoRow, after |-> NoRow, reverted |-> TRUE, by |-> NoRow,
             pics |-> [i \in Images |-> Blank]]

CommitUndo ==
  LET b == edit.batch IN
  /\ edit.kind = "undo"
  /\ value' = [c \in Cells |-> IF c \in Touched(b) THEN history[b].before[c] ELSE value[c]]
  /\ writer' = [c \in Cells |-> IF c \in Touched(b) THEN history[b].by[c] ELSE writer[c]]
  /\ history' = [history EXCEPT ![b] = Reverted]
  /\ edit' = NoEdit
  /\ UNCHANGED <<pic, saved>> /\ UNCHANGED passesOf

-----------------------------------------------------------------------------
(* The captioning pass: one at a time, in the exclusive vision window.     *)

Protected(c) == c \in Texts
Eligible(i, mode) ==
  /\ Status(i) = "keep" /\ pic[i] # Blank
  /\ CASE mode = "blanks" -> Caption(i) = NoCaption
       [] mode = "machine" -> ~Protected(Caption(i))
       [] OTHER -> TRUE

\* _caption_candidates: the caption and the picture of every eligible row
PlanCaptions(mode) ==
  /\ plan = NoPlan /\ scan = NoScan /\ passes < MaxPasses
  /\ plan' = [mode |-> mode,
              todo |-> {i \in Images : Eligible(i, mode)},
              caption |-> [i \in Images |-> Caption(i)],
              pic |-> pic]
  /\ passes' = passes + 1
  /\ UNCHANGED <<value, pic, history, edit, scan, saved, writer>>

\* _persist_inference_caption: one UPDATE, where the row still is as planned.
StillKept(i) == Status(i) = "keep"                            \* mutant
StillPlanned(i) ==
  Status(i) = "keep" /\ Caption(i) = plan.caption[i]

CaptionDone(i, caption) ==
  /\ plan # NoPlan
  /\ i \in plan.todo
  /\ \/ /\ StillPlanned(i)
        /\ Flush([c \in {<<i, "caption">>} |-> caption], value, Machine)
     \/ /\ ~StillPlanned(i)
        /\ UNCHANGED <<value, writer>>
  /\ plan' = [plan EXCEPT !.todo = @ \ {i}]
  /\ UNCHANGED <<pic, history, edit, scan, saved, passes>>

PersistCaption(i) == plan # NoPlan /\ CaptionDone(i, Written(plan.pic[i]))
\* No usable answer clears the caption when the pass rewrites captions.
PersistBlank(i) == plan # NoPlan /\ plan.mode # "blanks" /\ CaptionDone(i, NoCaption)
SkipCaption(i) ==
  /\ plan # NoPlan /\ i \in plan.todo
  /\ plan' = [plan EXCEPT !.todo = @ \ {i}]
  /\ UNCHANGED <<value, pic, history, edit, scan, saved, passes, writer>>

EndCaptions ==
  /\ plan # NoPlan /\ plan.todo = {}
  /\ plan' = NoPlan
  /\ UNCHANGED <<value, pic, history, edit, scan, saved, passes, writer>>

-----------------------------------------------------------------------------
(* The watermark passes: detect_watermarks in the vision window, and       *)
(* clean_watermarks (its inpainted rows end one by one after the loop, as  *)
(* here each after its look).  The rows are those of the query, each read  *)
(* again once a commit expired it.                                         *)

InPass(kind, i) ==
  /\ pic[i] # Blank
  /\ IF kind = "detect" THEN Status(i) = "keep"
                        ELSE Mark(i) = "detected"

StartScan(kind) ==
  /\ scan = NoScan /\ plan = NoPlan /\ passes < MaxPasses
  /\ scan' = [kind |-> kind, todo |-> {i \in Images : InPass(kind, i)},
              expired |-> FALSE,
              read |-> [i \in Images |-> Mark(i)]]
  /\ passes' = passes + 1
  /\ UNCHANGED <<value, pic, history, edit, plan, saved, writer>>

\* The row is read before the model or the editor works on the file.
Look(i) ==
  /\ scan # NoScan /\ scan.kind \in {"detect", "clean"} /\ i \in scan.todo
  /\ LET read == IF scan.expired THEN Mark(i) ELSE scan.read[i]
     IN scan' = IF scan.kind = "detect" /\ read = "dismissed"
                THEN [scan EXCEPT !.todo = @ \ {i}]
                ELSE [kind |-> IF scan.kind = "detect" THEN "detecting" ELSE "cleaning",
                      todo |-> scan.todo \ {i}, expired |-> scan.expired,
                      read |-> [scan.read EXCEPT ![i] = read], at |-> i]
  /\ UNCHANGED <<value, pic, history, edit, plan, saved, passes, writer>>

Verdicts == IF scan.kind = "detecting" THEN {"detected", "none"} ELSE {"cleaned", "failed"}

ScanVerdict(mark) ==
  /\ scan.kind \in {"detecting", "cleaning"}
  /\ mark \in Verdicts
  /\ Flush([c \in {<<scan.at, "watermark">>} |-> mark],
           [c \in {<<scan.at, "watermark">>} |-> scan.read[scan.at]], Machine)
  /\ scan' = [kind |-> IF scan.kind = "detecting" THEN "detect" ELSE "clean",
              todo |-> scan.todo, expired |-> TRUE, read |-> scan.read]
  /\ UNCHANGED <<pic, history, edit, plan, saved, passes>>

\* The model gives no answer, or the cleaning leaves the flag for a review.
NoVerdict ==
  /\ scan.kind \in {"detecting", "cleaning"}
  /\ scan' = [kind |-> IF scan.kind = "detecting" THEN "detect" ELSE "clean",
              todo |-> scan.todo, expired |-> scan.expired \/ scan.kind = "cleaning",
              read |-> scan.read]
  /\ UNCHANGED <<value, pic, history, edit, plan, saved, passes, writer>>

EndScan ==
  /\ scan.kind \in {"detect", "clean"} /\ scan.todo = {}
  /\ scan' = NoScan
  /\ UNCHANGED <<value, pic, history, edit, plan, saved, passes, writer>>

-----------------------------------------------------------------------------
(* Regeneration of a row in place.                                         *)

RowOf(i, s, cap, mark) ==
  [c \in {<<i, f>> : f \in Fields} |-> CASE c[2] = "status" -> s
                                         [] c[2] = "caption" -> cap
                                         [] OTHER -> mark]

\* The row goes back to pending; the state to return to is kept with the request.
RegenerateImage(i) ==
  /\ i \in Generated /\ ~saved[i].waiting /\ pic[i] < MaxPictures
  /\ saved' = [saved EXCEPT ![i] =
                 [waiting |-> TRUE, row |-> IF pic[i] # Blank THEN Row(i) ELSE NoRow]]
  /\ Flush([c \in {<<i, "status">>} |-> "pending"], value, Machine)
  /\ UNCHANGED <<pic, history, edit>> /\ UNCHANGED passesOf

\* _commit_generated_replacement
CommitReplacement(i) ==
  /\ saved[i].waiting
  /\ pic' = [pic EXCEPT ![i] = @ + 1]
  /\ Flush(RowOf(i, "pending", NoCaption, "unknown"), value, Machine)
  /\ saved' = [saved EXCEPT ![i] = NotWaiting]
  /\ UNCHANGED <<history, edit>> /\ UNCHANGED passesOf

\* _restore_replacement_after_failure
RestoreAfterFailure(i) ==
  /\ saved[i].waiting
  /\ IF saved[i].row # NoRow
     THEN Flush([c \in {i} \X Fields |-> saved[i].row[c[2]]], value, Machine)
     ELSE Flush([c \in {<<i, "status">>} |-> "failed"], value, Machine)
  /\ saved' = [saved EXCEPT ![i] = NotWaiting]
  /\ UNCHANGED <<pic, history, edit>> /\ UNCHANGED passesOf

-----------------------------------------------------------------------------
Edits ==
  \/ \E i \in Images, s \in Statuses \ {"failed"} : SetStatus(i, s)
  \/ \E i \in Images, t \in Texts \cup {NoCaption} : SetCaption(i, t)
  \/ \E on \in SUBSET Images \ {{}} :
        \/ \E s \in Statuses \ {"failed"} : BatchStatus(on, s)
        \/ BatchClearCaption(on)
        \/ DismissWatermarks(on)
  \/ \E t \in Texts : ReplaceInCaptions(t)
  \/ \E i \in Images : CropImage(i)
  \/ CommitEdit
  \/ \E b \in 1..Len(history) : LoadUndo(b)
  \/ CommitUndo

Passes ==
  \/ \E mode \in {"blanks", "machine", "all"} : PlanCaptions(mode)
  \/ \E i \in Images : PersistCaption(i) \/ PersistBlank(i) \/ SkipCaption(i)
  \/ EndCaptions
  \/ \E kind \in {"detect", "clean"} : StartScan(kind)
  \/ \E i \in Images : Look(i)
  \/ \E mark \in Marks : ScanVerdict(mark)
  \/ NoVerdict
  \/ EndScan

Regenerations ==
  \E i \in Images : RegenerateImage(i) \/ CommitReplacement(i) \/ RestoreAfterFailure(i)

CurationNext == Edits \/ Passes \/ Regenerations

CurationSpec == CurationInit /\ [][CurationNext]_vars

-----------------------------------------------------------------------------
(* Properties                                                              *)

(* Rows, pictures and history have their types, and a recorded batch names *)
(* the same cells before and after (decode_snapshot_pair refuses others).  *)
CurationTypeOK ==
  /\ \A c \in Cells : value[c] \in Kind(c[2])
  /\ \A i \in Images : pic[i] \in 0..MaxPictures
  /\ Len(history) \in 0..MaxBatches
  /\ \A b \in 1..Len(history) :
        /\ history[b].reverted <=> Touched(b) = {}
        /\ Touched(b) \subseteq Cells
        /\ DOMAIN history[b].after = Touched(b)
        /\ \A c \in Touched(b) : history[b].before[c] # history[b].after[c]
  /\ passes \in 0..MaxPasses

(* Of every field: a value the user's edits left is the one written by the *)
(* newest recorded edit of the field that was not undone.  An undo out of  *)
(* order never leaves a reverted edit in force nor hides a newer one       *)
(* (undo, its check of newer events, and the order record assumes).        *)
Newest(c, b) ==
  /\ Live(b) /\ c \in Touched(b)
  /\ \A d \in b+1..Len(history) : Live(d) => c \notin Touched(d)

RowShowsNewestEdit ==
  \A c \in Cells :
    \/ writer[c] = Machine
    \/ writer[c] = Nobody /\ \A b \in 1..Len(history) : Live(b) => c \notin Touched(b)
    \/ Newest(c, writer[c]) /\ value[c] = history[writer[c]].after[c]

(* The newest action can always be undone as long as no pass wrote its     *)
(* fields: an undo is never in conflict with an undo or with its own batch *)
(* (undo, the conflict checks).                                            *)
NewestCanBeUndone ==
  \A b \in 1..Len(history) :
    /\ Live(b) /\ \A d \in b+1..Len(history) : ~Live(d)
    /\ \A c \in Touched(b) : writer[c] # Machine
    => ~Conflict(b)

(* A pass never replaces a caption the user wrote, not even one written    *)
(* while the model was working, unless the user asked to rewrite them all  *)
(* (_caption_candidates, _persist_inference_caption).                      *)
WrittenCaptionSurvives ==
  [][\A i \in Images :
        Caption(i) \in Texts /\ Caption(i)' # Caption(i)
        => plan' = plan \/ plan.mode = "all"]_vars

(* Two statements the code does not keep (README, 6).                      *)

(* A decision is only undone on the picture it was taken for (undo: "A     *)
(* later edit to any same field means replaying the old snapshot could     *)
(* erase newer work").                                                     *)
UndoKeepsToItsPicture ==
  edit.kind = "undo" =>
    \A i \in {c[1] : c \in Touched(edit.batch)} :
      history[edit.batch].pics[i] \in {Blank, edit.pics[i]}

(* A caption a model wrote describes the picture the row shows             *)
(* (_persist_inference_caption, "one still-current model result").         *)
CaptionDescribesPicture ==
  \A i \in Images : \A p \in 1..MaxPictures :
    Caption(i) = Written(p) => pic[i] = p
=============================================================================
